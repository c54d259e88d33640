----------------------------- MODULE WaitQueue -----------------------------
(***************************************************************************)
(* Wait queues: kernel/proc/wait.c, with the part of the scheduler a       *)
(* waiter meets (scheduler_unblock, scheduler_yield) and the timeout       *)
(* callback scheduler_sleep_timer_fire run by timer_on_tick.               *)
(*                                                                         *)
(* Waiters follow the pattern wait.h prescribes, as receive_common does:   *)
(* check, wait_prepare, check again with interrupts off, then wait_cancel  *)
(* or scheduler_yield and wait_finish.  What they wait for is an item.     *)
(* Wakers add one and call wait_queue_wake_one or wait_queue_wake_all.     *)
(* The queues are the linked lists of the source; one step is one critical *)
(* section of wq->lock, or what runs between two of them.  The test and    *)
(* the assignment of scheduler_unblock are one step.                       *)
(***************************************************************************)
EXTENDS Naturals, FiniteSets

CONSTANTS Waiters, Wakers, Queues,
          None,          \* the NULL pointer
          Cpus,
          DrainCpu,      \* the CPU that runs timer_on_tick
          Setups         \* the cases looked at, see WaitAssumption

ASSUME WaitAssumption ==
    /\ None \notin Waiters \cup Queues
    /\ IsFiniteSet(Waiters) /\ IsFiniteSet(Wakers) /\ DrainCpu \in Cpus
    /\ \A u \in Setups :
          /\ u.cpu \in [Waiters \cup Wakers -> Cpus]   \* where each of them runs
          /\ u.timed \subseteq Waiters     \* those that give wait_prepare a timeout
          /\ u.items \in Nat              \* bound: items added to each queue
          /\ u.waits \in [Waiters -> Nat] \* bound: waits begun by each waiter

VARIABLES head, tail,            \* per queue
          wq_next, blocked_on,   \* per waiter: thread_t.wq_next, blocked_on
          state, wait_result,    \* per waiter: thread_t.state, wait_result
          armed,                 \* waiters whose sleep_timer is in the heap
          drain,                 \* where timer_on_tick is, and with whose timer
          items, added,          \* per queue: available now; added so far
          pc, wq, waits,         \* per waiter: place, queue waited on, count
          wpc, hold,             \* per waker: place, thread it has detached
          setup                  \* the element of Setups at work

links == <<head, tail, wq_next, blocked_on>>
timers == <<armed, drain>>
vars == <<links, state, wait_result, timers, items, added, pc, wq, waits, wpc, hold, setup>>

CpuOf == setup.cpu
Timed == setup.timed
MaxItems == setup.items
MaxWaits(t) == setup.waits[t]

Threads == Waiters \cup {None}
Idle == [at |-> "idle", t |-> None, q |-> None]

TypeOK ==
    /\ head \in [Queues -> Threads] /\ tail \in [Queues -> Threads]
    /\ wq_next \in [Waiters -> Threads]
    /\ blocked_on \in [Waiters -> Queues \cup {None}]
    /\ state \in [Waiters -> {"RUNNING", "READY", "BLOCKED"}]
    /\ wait_result \in [Waiters -> {"OK", "TIMEOUT"}]
    /\ armed \subseteq Timed
    /\ drain \in [at : {"idle", "popped", "stale", "fire", "unlink", "unblock"},
                  t : Threads, q : Queues \cup {None}]
    /\ items \in [Queues -> 0 .. MaxItems] /\ added \in [Queues -> 0 .. MaxItems]
    /\ pc \in [Waiters -> {"out", "check", "prepare", "recheck", "cancel", "settle",
                           "yield", "asleep", "finish"}]
    /\ wq \in [Waiters -> Queues \cup {None}]
    /\ waits \in [Waiters -> Nat] /\ \A t \in Waiters : waits[t] <= MaxWaits(t)
    /\ wpc \in [Wakers -> {"idle", "one", "all", "unblock", "chain"} \X (Queues \cup {None})]
    /\ hold \in [Wakers -> Threads] /\ setup \in Setups

Init ==
    /\ head = [q \in Queues |-> None] /\ tail = [q \in Queues |-> None]
    /\ wq_next = [t \in Waiters |-> None] /\ blocked_on = [t \in Waiters |-> None]
    /\ state = [t \in Waiters |-> "RUNNING"]
    /\ wait_result = [t \in Waiters |-> "OK"]
    /\ armed = {} /\ drain = Idle
    /\ items = [q \in Queues |-> 0] /\ added = [q \in Queues |-> 0]
    /\ pc = [t \in Waiters |-> "out"] /\ wq = [t \in Waiters |-> None]
    /\ waits = [t \in Waiters |-> 0]
    /\ wpc = [k \in Wakers |-> <<"idle", None>>] /\ hold = [k \in Wakers |-> None]
    /\ setup \in Setups

----------------------------------------------------------------------------
(* The lists.  Nth(q) follows wq_next from the head.                       *)
Nth(q) ==
    LET f[n \in 0 .. Cardinality(Waiters)] ==
            IF n = 0 THEN head[q]
            ELSE IF f[n-1] = None THEN None ELSE wq_next[f[n-1]]
    IN f

Chain(q) == {Nth(q)[n] : n \in DOMAIN Nth(q)} \ {None}

(* enqueue_tail *)
EnqueueTail(q, t) ==
    /\ wq_next' = IF tail[q] = None THEN [wq_next EXCEPT ![t] = None]
                  ELSE [wq_next EXCEPT ![t] = None, ![tail[q]] = t]
    /\ head' = IF tail[q] = None THEN [head EXCEPT ![q] = t] ELSE head
    /\ tail' = [tail EXCEPT ![q] = t]
    /\ blocked_on' = [blocked_on EXCEPT ![t] = q]

(* dequeue_head, of a queue that is not empty *)
DequeueHead(q) ==
    LET t == head[q] IN
    /\ head' = [head EXCEPT ![q] = wq_next[t]]
    /\ tail' = IF wq_next[t] = None THEN [tail EXCEPT ![q] = None] ELSE tail
    /\ wq_next' = [wq_next EXCEPT ![t] = None]
    /\ blocked_on' = [blocked_on EXCEPT ![t] = None]

(* unlink_locked: nothing if t is not there *)
Unlink(q, t) ==
    IF t \notin Chain(q) THEN UNCHANGED links
    ELSE LET n == CHOOSE n \in DOMAIN Nth(q) :
                    Nth(q)[n] = t /\ \A m \in DOMAIN Nth(q) : m < n => Nth(q)[m] # t
             prev == IF n = 0 THEN None ELSE Nth(q)[n-1]
         IN /\ wq_next' = IF n = 0 THEN [wq_next EXCEPT ![t] = None]
                          ELSE [wq_next EXCEPT ![prev] = wq_next[t], ![t] = None]
            /\ head' = IF n = 0 THEN [head EXCEPT ![q] = wq_next[t]] ELSE head
            /\ tail' = IF tail[q] = t THEN [tail EXCEPT ![q] = prev] ELSE tail
            /\ blocked_on' = [blocked_on EXCEPT ![t] = None]

(* timer_cancel: out of the heap, and a callback already popped but not    *)
(* yet past its generation check is discarded.                             *)
TimerCancel(t) ==
    /\ armed' = armed \ {t}
    /\ drain' = IF drain.t = t /\ drain.at = "popped" THEN [drain EXCEPT !.at = "stale"]
                ELSE drain

(* scheduler_unblock *)
Unblock(t) ==
    /\ TimerCancel(t)
    /\ state' = IF state[t] = "BLOCKED" THEN [state EXCEPT ![t] = "READY"] ELSE state

(* From wait_prepare to wait_cancel or the yield interrupts are off, and   *)
(* timer_on_tick is an interrupt handler: nothing else runs on that CPU    *)
(* meanwhile.                                                              *)
IrqsOff(t) == pc[t] \in {"recheck", "cancel", "settle", "yield"}
CpuFree(c) ==
    /\ \A t \in Waiters : CpuOf[t] = c => ~IrqsOff(t)
    /\ c = DrainCpu => drain.at = "idle"
MayRun(x) == CpuFree(CpuOf[x])

----------------------------------------------------------------------------
(* The waiter.                                                             *)
Goto(t, from, to) == pc[t] = from /\ pc' = [pc EXCEPT ![t] = to] /\ UNCHANGED setup

BeginWait(t, q) ==
    /\ MayRun(t) /\ waits[t] < MaxWaits(t)
    /\ Goto(t, "out", "check")
    /\ wq' = [wq EXCEPT ![t] = q] /\ waits' = [waits EXCEPT ![t] = @ + 1]
    /\ UNCHANGED <<links, state, wait_result, timers, items, added, wpc, hold>>

Take(q) == items[q] > 0 /\ items' = [items EXCEPT ![q] = @ - 1]

Check(t) ==
    /\ MayRun(t)
    /\ \/ Goto(t, "check", "out") /\ Take(wq[t])
       \/ Goto(t, "check", "prepare") /\ items[wq[t]] = 0 /\ UNCHANGED items
    /\ UNCHANGED <<links, state, wait_result, timers, added, wq, waits, wpc, hold>>

(* wait_prepare: enqueue, BLOCKED, arm the timer.  Re-arming is a new      *)
(* episode, a callback popped earlier is stale.                            *)
Prepare(t) ==
    /\ MayRun(t) /\ Goto(t, "prepare", "recheck")
    /\ EnqueueTail(wq[t], t)
    /\ wait_result' = [wait_result EXCEPT ![t] = "OK"]
    /\ state' = [state EXCEPT ![t] = "BLOCKED"]
    /\ IF t \in Timed
       THEN /\ armed' = armed \cup {t}
            /\ drain' = IF drain.t = t /\ drain.at = "popped"
                        THEN [drain EXCEPT !.at = "stale"] ELSE drain
       ELSE UNCHANGED timers
    /\ UNCHANGED <<items, added, wq, waits, wpc, hold>>

(* The timer heap is saturated: unlinked again, not blocked, timed out.    *)
PrepareSaturated(t) ==
    /\ t \in Timed /\ MayRun(t) /\ Goto(t, "prepare", "recheck")
    /\ wait_result' = [wait_result EXCEPT ![t] = "TIMEOUT"]
    /\ state' = [state EXCEPT ![t] = "RUNNING"]
    /\ UNCHANGED <<links, timers, items, added, wq, waits, wpc, hold>>

(* Slip: no second check after wait_prepare.                               *)
RecheckSkipped(t) ==
    /\ Goto(t, "recheck", "yield")
    /\ UNCHANGED <<links, state, wait_result, timers, items, added, wq, waits, wpc, hold>>

Recheck(t) ==
    /\ \/ Goto(t, "recheck", "cancel") /\ Take(wq[t])
       \/ Goto(t, "recheck", "yield") /\ items[wq[t]] = 0 /\ UNCHANGED items
    /\ UNCHANGED <<links, state, wait_result, timers, added, wq, waits, wpc, hold>>

(* Slip: wait_cancel does not leave the queue.                             *)
CancelStays(t) ==
    /\ Goto(t, "cancel", "settle") /\ TimerCancel(t)
    /\ UNCHANGED <<links, state, wait_result, items, added, wq, waits, wpc, hold>>

(* wait_cancel: off the queue; then, if nobody has woken it, RUNNING       *)
(* again, else through the scheduler, which comes back with RUNNING.       *)
CancelUnlink(t) ==
    /\ Goto(t, "cancel", "settle") /\ TimerCancel(t)
    /\ IF blocked_on[t] # None THEN Unlink(blocked_on[t], t) ELSE UNCHANGED links
    /\ UNCHANGED <<state, wait_result, items, added, wq, waits, wpc, hold>>

CancelSettle(t) ==
    /\ Goto(t, "settle", "out")
    /\ state' = [state EXCEPT ![t] = "RUNNING"]
    /\ UNCHANGED <<links, wait_result, timers, items, added, wq, waits, wpc, hold>>

(* scheduler_yield: a BLOCKED thread leaves the CPU, any other comes back. *)
Yield(t) ==
    /\ Goto(t, "yield", IF state[t] = "BLOCKED" THEN "asleep" ELSE "finish")
    /\ state' = IF state[t] = "BLOCKED" THEN state ELSE [state EXCEPT ![t] = "RUNNING"]
    /\ UNCHANGED <<links, wait_result, timers, items, added, wq, waits, wpc, hold>>

Dispatch(t) ==
    /\ MayRun(t) /\ state[t] = "READY" /\ Goto(t, "asleep", "finish")
    /\ state' = [state EXCEPT ![t] = "RUNNING"]
    /\ UNCHANGED <<links, wait_result, timers, items, added, wq, waits, wpc, hold>>

(* wait_finish: a timed-out wait gives up, any other checks again.         *)
Finish(t) ==
    /\ MayRun(t) /\ TimerCancel(t)
    /\ Goto(t, "finish", IF wait_result[t] = "TIMEOUT" THEN "out" ELSE "check")
    /\ UNCHANGED <<links, state, wait_result, items, added, wq, waits, wpc, hold>>

----------------------------------------------------------------------------
(* The waker.                                                              *)
WGoto(k, place, q) == wpc' = [wpc EXCEPT ![k] = <<place, q>>] /\ UNCHANGED setup
At(k, place) == wpc[k][1] = place
Of(k) == wpc[k][2]

AddItem(k, q) ==
    /\ MayRun(k) /\ At(k, "idle") /\ added[q] < MaxItems
    /\ items' = [items EXCEPT ![q] = @ + 1] /\ added' = [added EXCEPT ![q] = @ + 1]
    /\ WGoto(k, "one", q) \/ WGoto(k, "all", q)
    /\ UNCHANGED <<links, state, wait_result, timers, pc, wq, waits, hold>>

(* Slip: the dequeued thread is forgotten.                                 *)
WakeOneForgets(k) ==
    /\ MayRun(k) /\ At(k, "one") /\ WGoto(k, "idle", None)
    /\ IF head[Of(k)] = None THEN UNCHANGED links ELSE DequeueHead(Of(k))
    /\ UNCHANGED <<state, wait_result, timers, items, added, pc, wq, waits, hold>>

(* wait_queue_wake_one: detach the head, then unblock it.                  *)
WakeOne(k) ==
    /\ MayRun(k) /\ At(k, "one")
    /\ hold' = [hold EXCEPT ![k] = head[Of(k)]]
    /\ IF head[Of(k)] = None THEN WGoto(k, "idle", None) /\ UNCHANGED links
       ELSE WGoto(k, "unblock", None) /\ DequeueHead(Of(k))
    /\ UNCHANGED <<state, wait_result, timers, items, added, pc, wq, waits>>

WakeOneUnblock(k) ==
    LET t == hold[k] IN
    /\ MayRun(k) /\ At(k, "unblock")
    /\ wait_result' = [wait_result EXCEPT ![t] = "OK"]
    /\ Unblock(t)
    /\ hold' = [hold EXCEPT ![k] = None] /\ WGoto(k, "idle", None)
    /\ UNCHANGED <<links, items, added, pc, wq, waits>>

(* wait_queue_wake_all: detach the whole chain; then, thread by thread,    *)
(* read its link, clear it and unblock it.                                 *)
WakeAll(k) ==
    LET q == Of(k) IN
    /\ MayRun(k) /\ At(k, "all")
    /\ hold' = [hold EXCEPT ![k] = head[q]]
    /\ head' = [head EXCEPT ![q] = None] /\ tail' = [tail EXCEPT ![q] = None]
    /\ blocked_on' = [t \in Waiters |-> IF t \in Chain(q) THEN None ELSE blocked_on[t]]
    /\ IF head[q] = None THEN WGoto(k, "idle", None) ELSE WGoto(k, "chain", None)
    /\ UNCHANGED <<wq_next, state, wait_result, timers, items, added, pc, wq, waits>>

WakeAllUnblock(k) ==
    LET t == hold[k] IN
    /\ MayRun(k) /\ At(k, "chain")
    /\ hold' = [hold EXCEPT ![k] = wq_next[t]]
    /\ wq_next' = [wq_next EXCEPT ![t] = None]
    /\ wait_result' = [wait_result EXCEPT ![t] = "OK"]
    /\ Unblock(t)
    /\ IF wq_next[t] = None THEN WGoto(k, "idle", None) ELSE UNCHANGED <<wpc, setup>>
    /\ UNCHANGED <<head, tail, blocked_on, items, added, pc, wq, waits>>

----------------------------------------------------------------------------
(* timer_on_tick: pop a due timer, check its generation, run               *)
(* scheduler_sleep_timer_fire.  It reads blocked_on, unlinks, sets the     *)
(* result and unblocks.                                                    *)
DrainOnly == UNCHANGED <<items, added, pc, wq, waits, wpc, hold, setup>>

TimerPop(t) ==
    /\ CpuFree(DrainCpu) /\ drain.at = "idle" /\ t \in armed
    /\ armed' = armed \ {t} /\ drain' = [at |-> "popped", t |-> t, q |-> None]
    /\ DrainOnly /\ UNCHANGED <<links, state, wait_result>>

TimerGenCheck ==
    /\ drain.at \in {"popped", "stale"}
    /\ drain' = IF drain.at = "popped" THEN [drain EXCEPT !.at = "fire"] ELSE Idle
    /\ DrainOnly /\ UNCHANGED <<links, state, wait_result, armed>>

TimerReadQueue ==
    LET q == blocked_on[drain.t] IN
    /\ drain.at = "fire"
    /\ drain' = [drain EXCEPT !.at = IF q = None THEN "unblock" ELSE "unlink", !.q = q]
    /\ DrainOnly /\ UNCHANGED <<links, state, wait_result, armed>>

TimerUnlink ==
    /\ drain.at = "unlink" /\ Unlink(drain.q, drain.t)
    /\ wait_result' = [wait_result EXCEPT ![drain.t] = "TIMEOUT"]
    /\ drain' = [drain EXCEPT !.at = "unblock"]
    /\ DrainOnly /\ UNCHANGED <<state, armed>>

(* Slip: only threads that are still in a queue are unblocked.             *)
TimerUnblockLinked ==
    /\ drain.at = "unblock"
    /\ state' = IF blocked_on[drain.t] # None THEN [state EXCEPT ![drain.t] = "READY"]
                ELSE state
    /\ armed' = armed \ {drain.t} /\ drain' = Idle
    /\ DrainOnly /\ UNCHANGED <<links, wait_result>>

TimerUnblock ==
    /\ drain.at = "unblock"
    /\ state' = IF state[drain.t] = "BLOCKED" THEN [state EXCEPT ![drain.t] = "READY"]
                ELSE state
    /\ armed' = armed \ {drain.t} /\ drain' = Idle
    /\ DrainOnly /\ UNCHANGED <<links, wait_result>>

----------------------------------------------------------------------------
WaiterStep(t) ==
    \/ Check(t) \/ Prepare(t) \/ PrepareSaturated(t) \/ Recheck(t)
    \/ CancelUnlink(t) \/ CancelSettle(t) \/ Yield(t) \/ Dispatch(t) \/ Finish(t)

WakerStep(k) == WakeOne(k) \/ WakeOneUnblock(k) \/ WakeAll(k) \/ WakeAllUnblock(k)

DrainStep == TimerGenCheck \/ TimerReadQueue \/ TimerUnlink \/ TimerUnblock

Next ==
    \/ \E t \in Waiters : WaiterStep(t) \/ TimerPop(t) \/ \E q \in Queues : BeginWait(t, q)
    \/ \E k \in Wakers : WakerStep(k) \/ \E q \in Queues : AddItem(k, q)
    \/ DrainStep

(* Threads that can run do; a waiter need not come again, a waker need not *)
(* add another item.                                                       *)
Fairness ==
    /\ \A t \in Waiters : WF_vars(WaiterStep(t))
    /\ \A k \in Wakers : WF_vars(WakerStep(k))
    /\ WF_vars(DrainStep)

Spec == Init /\ [][Next]_vars
FairSpec == Spec /\ Fairness

----------------------------------------------------------------------------
(* Every queue is a proper list: it has no cycle, its last thread is the   *)
(* tail, and it holds exactly the threads whose blocked_on names it, so a  *)
(* thread is in at most one queue, once (wait.c:7).                        *)
QueuesAreLists ==
    \A q \in Queues :
        LET n == Cardinality(Chain(q)) IN
        /\ Nth(q)[n] = None
        /\ tail[q] = IF n = 0 THEN None ELSE Nth(q)[n-1]
        /\ Chain(q) = {t \in Waiters : blocked_on[t] = q}

(* The same claim in the words of wait.c:7: a thread is in at most one     *)
(* wait queue.                                                             *)
OneQueueAtMost == \A t \in Waiters : Cardinality({q \in Queues : t \in Chain(q)}) <= 1

(* A thread that has left its wait is in no queue: the queue may be on the *)
(* stack of a frame that has returned (pending_reply_t.reply_wait).        *)
OutMeansUnlinked == \A t \in Waiters : pc[t] = "out" => \A q \in Queues : t \notin Chain(q)

(* A thread that sleeps can still be woken: it is in the queue it waits    *)
(* on, or a waker or the timer drain is about to unblock it.               *)
Detached(k) ==
    LET f[n \in 0 .. Cardinality(Waiters)] ==
            IF n = 0 THEN hold[k]
            ELSE IF f[n-1] = None \/ At(k, "unblock") THEN None ELSE wq_next[f[n-1]]
    IN {f[n] : n \in DOMAIN f} \ {None}

Sleeps(t) == pc[t] = "asleep" /\ state[t] = "BLOCKED"

NobodyStranded ==
    \A t \in Waiters :
        Sleeps(t) =>
            \/ blocked_on[t] = wq[t]
            \/ \E k \in Wakers : t \in Detached(k)
            \/ drain.t = t /\ drain.at = "unblock"

(* The queues as wait.c keeps them while wakers and waiters share a CPU,   *)
(* or the timer drain and one waker race for a single timed wait:          *)
(* well-typed lists, without those that left, with all that sleep.         *)
QueueInv == TypeOK /\ QueuesAreLists /\ OutMeansUnlinked /\ NobodyStranded

(* Wakers and the timer drain have finished, nobody is awake inside a wait. *)
Quiet ==
    /\ drain.at = "idle" /\ \A k \in Wakers : At(k, "idle")
    /\ \A t \in Waiters : pc[t] = "out" \/ Sleeps(t)

(* The wait.h pattern loses no wake-up: when all is quiet, nobody sleeps   *)
(* on a queue that has an item.                                            *)
NoLostWakeup ==
    Quiet => \A t \in Waiters : Sleeps(t) => items[wq[t]] = 0

(* A wait ends: a thread in a wait while an item of its queue stays        *)
(* available returns.                                                      *)
ItemEndsWait ==
    \A t \in Waiters : \A q \in Queues :
        pc[t] # "out" /\ wq[t] = q /\ items[q] > 0 ~> pc[t] = "out" \/ items[q] = 0

(* A timeout ends the wait: once its timer callback runs, a thread that    *)
(* waits for a single event comes back, whatever the waker does meanwhile. *)
TimeoutEndsWait ==
    \A t \in Waiters : drain.at = "fire" /\ drain.t = t ~> pc[t] = "out"
=============================================================================
