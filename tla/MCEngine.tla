------------------------------ MODULE MCEngine ------------------------------
(***************************************************************************)
(* Instances of Engine for TLC.                                            *)
(***************************************************************************)
EXTENDS Engine

Fixed   == Delay(2, 0, 0)
Jitter  == Delay(1, -2, 2)
Mixer   == Reorder("some", 2, "some", "some")
Gap     == Reorder("zero", 1, "zero", "zero")
Link    == RateLimit(2, 2)
Outage  == Blackhole(2, 3)
Burst   == GilbertElliott("some", "zero", "zero", FALSE, "zero")
Trace   == DeliveryTrace(<<2, 0, 1, 1>>, 2, 4, FALSE)
Looped  == DeliveryTrace(<<1, 2>>, 2, 0, TRUE)

Load(c2s, s2c, lengths, time, packets) ==
  [pipes |-> [c2s |-> c2s, s2c |-> s2c], lengths |-> lengths, time |-> time,
   packets |-> packets]

\* Every ordered pair of these cells towards the server; a bursty return path.
Staged == {Bernoulli("some"), Fixed, Jitter, Mixer, Gap, Corrupt("some"), Link,
           Outage, DropList({2})}
Pairs == {Load(<<a, b>>, <<Burst>>, {1}, 2, 3) : a, b \in Staged}

\* One cell a direction, for the cells that keep a schedule or a chain.
Singles ==
  {Load(<<a>>, <<Burst>>, {0, 1, 2}, 4, 3) :
     a \in {Link, RateLimit(1, 1), RateLimit(3, 1), RateLimit(0, 1), Trace, Looped,
            DeliveryTrace(<< >>, 2, 0, FALSE), DeliveryTrace(<<0, 0>>, 0, 0, TRUE),
            Bernoulli("zero"), Bernoulli("one")}}

\* Three stages: what duplication, delay and a queue make of each other.
Triples ==
  {Load(<<Mixer, b, c>>, << >>, {0, 1}, 2, 2) : b \in {Corrupt("some"), Jitter},
                                              c \in {Corrupt("some"), Link}}

MCWorkloads == Pairs \cup Singles \cup Triples

\* A delivery trace behind a fixed delay.
DelayedTrace ==
  {Load(<<Fixed, DeliveryTrace(<<0, 0, 0>>, 2, 0, FALSE)>>, << >>, {1}, 2, 2)}
=============================================================================
