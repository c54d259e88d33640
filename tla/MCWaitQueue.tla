---------------------------- MODULE MCWaitQueue ----------------------------
(* Cases of WaitQueue: where waiters and wakers run, who has a timeout.    *)
EXTENDS WaitQueue, TLC

CONSTANTS t1, t2, k1, k2

(* One CPU, a build without MAINDOB_SMP: two waiters, no timeouts. *)
OneCpu == [cpu |-> [x \in Waiters \cup Wakers |-> 0], timed |-> {}, items |-> 2,
           waits |-> [t \in Waiters |-> 2]]
(* Three CPUs: t1, on that of the timer drain, waits once, with a timeout. *)
Spread == (t1 :> 0) @@ [x \in Waiters \cup Wakers |-> IF x \in Wakers THEN 2 ELSE 1]
TimedOnce == [cpu |-> Spread, timed |-> {t1}, items |-> 1,
              waits |-> [t \in Waiters |-> IF t = t1 THEN 1 ELSE 0]]
Cases == {OneCpu, TimedOnce}

(* Cases in which some property fails, see the README. *)
ThreeCpus == {[OneCpu EXCEPT !.cpu = Spread]}
WakersApart == {[OneCpu EXCEPT !.cpu = [x \in Waiters \cup Wakers |-> IF x \in Wakers THEN 1 ELSE 0],
                               !.waits = [t \in Waiters |-> IF t = t1 THEN 3 ELSE 0]]}
=============================================================================
