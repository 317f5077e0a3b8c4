------------------------------- MODULE Pattern -------------------------------
(***************************************************************************)
(* The two text formats of the repository: the recorded impairment pattern *)
(* that golden tests compare (internal/pattern), and the delivery trace    *)
(* (internal/droplist).                                                    *)
(*                                                                         *)
(* A text is the sequence of its pieces between newlines; a text that ends *)
(* in a newline ends in an empty piece.  A piece is kept as what a parser  *)
(* makes of it: the fields of a header, of a record or of a configuration  *)
(* comment, a number, an empty piece, or one that no parser accepts.       *)
(***************************************************************************)
EXTENDS Integers, Sequences, FiniteSets, SequencesExt, TLC

Empty == [tag |-> "empty"]
Bad   == [tag |-> "bad"]

\* The lines that a scanner yields: nothing after the last newline.
ScanLines(text) ==
  IF text # << >> /\ Last(text) = Empty THEN Front(text) ELSE text

IsEmpty(piece) == piece = Empty
-----------------------------------------------------------------------------
(***************************************************************************)
(* Patterns.                                                               *)
(***************************************************************************)
Version == 1

\* Recorder.Add, for an action of a packet received at recvAt.
Add(recvAt, a) ==
  [seq |-> a.seq, dir |-> a.dir, disp |-> a.kind,
   off |-> IF a.kind = "drop" \/ a.deliverAt < recvAt THEN 0 ELSE a.deliverAt - recvAt,
   reason |-> IF a.kind = "drop" THEN a.reason ELSE ""]

writeHeader(seed) == [tag |-> "header", version |-> Version, seed |-> seed]
writeRecord(rec) == [tag |-> "record", rec |-> rec]

\* Recorder.WriteTo and String.
Render(seed, records) ==
  <<writeHeader(seed)>> \o [i \in DOMAIN records |-> writeRecord(records[i])] \o <<Empty>>

NoPattern(line) == [err |-> line, version |-> 0, seed |-> 0, records |-> << >>]

\* parseRecord accepts the line, or it is empty and skipped.
Readable(line) ==
  \/ IsEmpty(line)
  \/ line.tag = "record" /\ line.rec.off >= 0

\* Parse: err is the line it fails at, -1 for a missing header, 0 for none.  Any
\* version is accepted, and so is an empty line wherever it is.
Parse(text) ==
  LET lines == ScanLines(text)
      wrong == {i \in DOMAIN lines : IF i = 1 THEN lines[1].tag # "header"
                                     ELSE ~Readable(lines[i])}
      body  == SelectSeq(Tail(lines), LAMBDA l : ~IsEmpty(l))
  IN  IF lines = << >> THEN NoPattern(-1)
      ELSE IF wrong # {} THEN NoPattern(Min(wrong))
      ELSE [err |-> 0, version |-> lines[1].version, seed |-> lines[1].seed,
            records |-> [i \in DOMAIN body |-> body[i].rec]]

\* One trailing newline does not count; an empty text has no lines.
splitLines(text) ==
  LET trimmed == IF Len(text) > 1 /\ Last(text) = Empty THEN Front(text) ELSE text
  IN  IF trimmed = <<Empty>> THEN << >> ELSE trimmed

\* Mutant: lines that only one of the texts has are not compared.
CompareCommon(a, b) ==
  LET la    == splitLines(a)
      lb    == splitLines(b)
      diffs == {i \in DOMAIN la \cap DOMAIN lb : la[i] # lb[i]}
  IN  IF diffs = {} THEN 0 ELSE Min(diffs)

\* Compare: the first line that differs, 0 if none does.  A line that is missing
\* counts as empty.
Compare(a, b) ==
  LET la    == splitLines(a)
      lb    == splitLines(b)
      At(l, i) == IF i \in DOMAIN l THEN l[i] ELSE Empty
      diffs == {i \in DOMAIN la \cup DOMAIN lb : At(la, i) # At(lb, i)}
  IN  IF diffs = {} THEN 0 ELSE Min(diffs)
-----------------------------------------------------------------------------
(***************************************************************************)
(* Delivery traces.  A configuration comment carries the three settings; a *)
(* setting it does not have, or that does not parse, is left as it was.    *)
(***************************************************************************)
defaultMTU == 1500

Stamp(ms) == [tag |-> "stamp", ms |-> ms]

SerializeTrace(cfg) ==
  LET sched == SortSeq(cfg.sched, <)
  IN  <<[tag |-> "comment"],
        [tag |-> "config", mtu |-> IF cfg.mtu <= 0 THEN defaultMTU ELSE cfg.mtu,
         maxBacklog |-> cfg.maxBacklog, loop |-> cfg.loop]>>
      \o [i \in DOMAIN sched |-> Stamp(sched[i])] \o <<Empty>>

\* parseConfigComment.
parseConfig(cfg, line) ==
  [cfg EXCEPT !.mtu = IF line.mtu > 0 THEN line.mtu ELSE @,
              !.maxBacklog = IF line.maxBacklog >= 0 THEN line.maxBacklog ELSE @,
              !.loop = line.loop]

\* One line of droplist.Parse: a time must not be negative or before the last one.
parseLine(cfg, line) ==
  IF cfg.err \/ line.tag \in {"empty", "comment"} THEN cfg
  ELSE IF line.tag = "config" THEN parseConfig(cfg, line)
  ELSE IF /\ line.tag = "stamp" /\ line.ms >= 0
          /\ cfg.sched # << >> => line.ms >= Last(cfg.sched)
       THEN [cfg EXCEPT !.sched = Append(@, line.ms)]
  ELSE [err |-> TRUE, sched |-> << >>, mtu |-> 0, maxBacklog |-> 0, loop |-> FALSE]

ParseTrace(text) ==
  LET cfg == FoldLeft(parseLine, [err |-> FALSE, sched |-> << >>, mtu |-> 0,
                                  maxBacklog |-> 0, loop |-> FALSE], ScanLines(text))
  IN  IF ~cfg.err /\ cfg.mtu = 0 THEN [cfg EXCEPT !.mtu = defaultMTU] ELSE cfg
=============================================================================
