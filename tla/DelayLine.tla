------------------------------ MODULE DelayLine ------------------------------
(***************************************************************************)
(* What a relay datapath promises, without heap, timer, wake channel,      *)
(* goroutines or buffers: a bounded delay line.  A forward carries its     *)
(* delivery time "at" and its admission order "ord".                       *)
(*                                                                         *)
(*   - a forward is delivered at most once, never before its time, and     *)
(*     never after a forward that was admitted later with a time that is   *)
(*     no earlier;                                                         *)
(*   - a forward is refused only when Capacity forwards are waiting;       *)
(*   - while the line is open nothing that was accepted is lost; after it  *)
(*     is closed, at most one further forward comes out: the one whose     *)
(*     write had already been decided.                                     *)
(***************************************************************************)
EXTENDS Integers, Sequences, FiniteSets

CONSTANT Capacity

VARIABLES
  clock,      \* ns since base
  open,       \* FALSE from Close on
  committed,  \* after Close: the forward whose write was already decided, if any
  pending,    \* forwards accepted and neither delivered nor lost
  delivered,  \* forwards written, in order
  admissions, \* number of forwards accepted so far
  refused     \* number of forwards refused

dvars == <<clock, open, committed, pending, delivered, admissions, refused>>

\* No waiting forward that was admitted earlier is due no later.
FirstInLine(f) ==
  ~ \E g \in pending : g.ord < f.ord /\ g.at <= f.at

Init ==
  /\ clock \in Nat
  /\ open = TRUE
  /\ committed = {}
  /\ pending = {}
  /\ delivered = << >>
  /\ admissions = 0
  /\ refused = 0

\* Up to Capacity forwards wait, and one more may be on its way out.
Accept ==
  /\ Cardinality(pending) <= Capacity
  /\ admissions' = admissions + 1
  /\ \E f \in pending' : /\ f.ord = admissions'
                         /\ pending' = pending \cup {f}
  /\ UNCHANGED <<clock, open, committed, delivered, refused>>

Refuse ==
  /\ Cardinality(pending) >= Capacity
  /\ refused' = refused + 1
  /\ UNCHANGED <<clock, open, committed, pending, delivered, admissions>>

Deliver(f) ==
  /\ open \/ f \in committed
  /\ f.at <= clock
  /\ FirstInLine(f)
  /\ pending' = pending \ {f}
  /\ committed' = committed \ {f}
  /\ delivered' = Append(delivered, f)
  /\ UNCHANGED <<clock, open, admissions, refused>>

Close ==
  /\ open
  /\ open' = FALSE
  /\ committed' = {} \/ \E f \in pending : committed' = {f}
  /\ UNCHANGED <<clock, pending, delivered, admissions, refused>>

Lose(f) ==
  /\ ~open
  /\ f \notin committed
  /\ pending' = pending \ {f}
  /\ UNCHANGED <<clock, open, committed, delivered, admissions, refused>>

Advance ==
  /\ clock' > clock
  /\ UNCHANGED <<open, committed, pending, delivered, admissions, refused>>

Next ==
  \/ Accept
  \/ Refuse
  \/ \E f \in pending : Deliver(f) \/ Lose(f)
  \/ Close
  \/ Advance

Spec == Init /\ [][Next]_dvars
==============================================================================
