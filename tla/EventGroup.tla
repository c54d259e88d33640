---------------------------- MODULE EventGroup ----------------------------
(***************************************************************************)
(* Event groups: kernel/sync/event_group.c, reached through SYS_EVENT_*    *)
(* (syscall.c) and, when a process ends, from process_destroy_local.       *)
(*                                                                         *)
(* A waiter's record is on its kernel stack.  A waker marks and unlinks    *)
(* records under g->lock, in batches, and wakes their threads through      *)
(* pointers to the records after it has released the lock.  A step is one  *)
(* critical section of g->lock or what runs between two of them; the wait  *)
(* queue inside a record holds its own thread only, so joining it, leaving *)
(* it and waking it are one step each (WaitQueue has their details).       *)
(*                                                                         *)
(* Actors are threads and, for the end of a process, the process itself.   *)
(* System calls run with interrupts off: no other actor of a CPU runs      *)
(* until one returns or sleeps.  The end of a process may be carried out   *)
(* by idle, with interrupts on.  No property is about the order of the     *)
(* waiters' list, so it is a set, and a batch is any of its subsets of the *)
(* right size.                                                             *)
(***************************************************************************)
EXTENDS Naturals, FiniteSets

CONSTANTS Threads, Procs, Groups, Bits, Cpus, None,
          Owner,        \* thread_t.owner
          DrainCpu,     \* the CPU that runs timer_on_tick
          BatchMax,     \* ARRAY_SIZE(batch), 16 in the source
          MaxCalls,     \* bound: calls made by each thread
          Setups        \* the cases looked at, see EventAssumption

Modes == {"ALL_SET", "ANY_SET", "ALL_CLEAR", "ANY_CLEAR"}
Actors == Threads \cup Procs

Waits == [call : {"wait"}, g : Groups, pattern : SUBSET Bits, mode : Modes, timed : BOOLEAN]
Changes == [call : {"set", "clear", "pulse"}, g : Groups, bits : SUBSET Bits]
Ends == [call : {"poison", "reset", "destroy"}, g : Groups]
NoOp == [call |-> "none"]

ASSUME EventAssumption ==
    /\ None \notin Actors \cup Groups /\ Threads \cap Procs = {}
    /\ Owner \in [Threads -> Procs] /\ DrainCpu \in Cpus
    /\ BatchMax \in Nat \ {0} /\ MaxCalls \in Nat
    /\ \A u \in Setups :
          /\ u.home \in [Procs -> Cpus]
          /\ u.open \in [Groups -> Procs \cup {None}]     \* who has created which group
          /\ u.flags \in [Groups -> SUBSET Bits]
          /\ \A t \in Threads : u.ops[t] \subseteq Waits \cup Changes \cup Ends \cup {[call |-> "create"]}
          /\ u.exits \subseteq Procs                      \* processes that may end

VARIABLES used, poisoned, owner, flags,          \* event_group_t, per group
          linked, signaled, result, result_flags,  \* event_waiter_t, per thread
          state, wait_result, armed,             \* thread_t; threads with a sleep_timer
          pc, op, calls,                         \* per actor: place, call, number of calls
          snapshot, batch, again,                \* per actor: locals of wake_waiters
          returned,                              \* per thread: what its last wait returned
          setup

group == <<used, poisoned, owner, flags>>
record == <<linked, signaled, result, result_flags>>
sched == <<state, wait_result, armed>>
pass == <<snapshot, batch, again>>
vars == <<group, record, sched, pc, op, calls, pass, returned, setup>>

WaitPlaces == {"link", "prepare", "recheck", "asleep", "finish", "unlink"}
Places == WaitPlaces \cup {"out", "apply", "mark", "collect", "wake", "free", "reset", "create",
                           "scan", "reap", "killed", "gone"}

TypeOK ==
    /\ used \in [Groups -> BOOLEAN] /\ poisoned \in [Groups -> BOOLEAN]
    /\ owner \in [Groups -> Procs \cup {None}] /\ flags \in [Groups -> SUBSET Bits]
    /\ linked \in [Threads -> Groups \cup {None}] /\ signaled \in [Threads -> BOOLEAN]
    /\ result \in [Threads -> {"OK", "TIMEOUT", "CANCELLED"}]
    /\ result_flags \in [Threads -> SUBSET Bits]
    /\ state \in [Threads -> {"RUNNING", "BLOCKED", "READY"}]
    /\ wait_result \in [Threads -> {"OK", "TIMEOUT"}] /\ armed \subseteq Threads
    /\ pc \in [Actors -> Places] /\ calls \in [Threads -> 0 .. MaxCalls]
    /\ op \in [Actors -> Waits \cup Changes \cup Ends \cup {NoOp, [call |-> "create"]}]
    /\ \A t \in Threads : pc[t] \in WaitPlaces => op[t] \in Waits
    /\ \A a \in Actors : pc[a] \in {"apply", "mark", "collect", "wake", "free"} =>
                            op[a] \in Changes \cup Ends
    /\ snapshot \in [Actors -> SUBSET Bits] /\ again \in [Actors -> BOOLEAN]
    /\ batch \in [Actors -> SUBSET (Threads \X (1 .. MaxCalls))]
    /\ returned \in [Threads -> [result : {"none", "OK", "TIMEOUT", "CANCELLED"}, flags : SUBSET Bits]]

Init ==
    /\ setup \in Setups
    /\ used = [g \in Groups |-> setup.open[g] # None] /\ owner = setup.open
    /\ poisoned = [g \in Groups |-> FALSE] /\ flags = setup.flags
    /\ linked = [t \in Threads |-> None] /\ signaled = [t \in Threads |-> FALSE]
    /\ result = [t \in Threads |-> "TIMEOUT"] /\ result_flags = [t \in Threads |-> {}]
    /\ state = [t \in Threads |-> "RUNNING"] /\ wait_result = [t \in Threads |-> "OK"]
    /\ armed = {}
    /\ pc = [a \in Actors |-> "out"] /\ op = [a \in Actors |-> NoOp]
    /\ calls = [t \in Threads |-> 0]
    /\ snapshot = [a \in Actors |-> {}] /\ batch = [a \in Actors |-> {}]
    /\ again = [a \in Actors |-> FALSE]
    /\ returned = [t \in Threads |-> [result |-> "none", flags |-> {}]]

----------------------------------------------------------------------------
(* pattern_match *)
Match(f, pattern, mode) ==
    \/ mode = "ALL_SET" /\ pattern \subseteq f
    \/ mode = "ANY_SET" /\ pattern \cap f # {}
    \/ mode = "ALL_CLEAR" /\ pattern \cap f = {}
    \/ mode = "ANY_CLEAR" /\ ~(pattern \subseteq f)

Matches(f, t) == Match(f, op[t].pattern, op[t].mode)

InWait(t) == pc[t] \in WaitPlaces
InKernel(a) == a \in Threads /\ pc[a] \notin {"out", "asleep", "reap", "killed", "gone"}
CpuOf(a) == setup.home[IF a \in Procs THEN a ELSE Owner[a]]
CpuFree(c) == \A a \in Actors : CpuOf(a) = c => ~InKernel(a)
MayRun(a) == InKernel(a) \/ CpuFree(CpuOf(a))
Goto(a, from, to) ==
    pc[a] = from /\ MayRun(a) /\ pc' = [pc EXCEPT ![a] = to] /\ UNCHANGED setup

(* A system call begins; a wait makes a new record.                        *)
First(o) ==
    CASE o.call = "wait" -> "link"
      [] o.call \in {"set", "clear", "pulse"} -> "apply"
      [] o.call \in {"poison", "destroy"} -> "mark"
      [] OTHER -> o.call

Call(t, o) ==
    /\ o \in setup.ops[t] /\ calls[t] < MaxCalls
    /\ Goto(t, "out", First(o))
    /\ op' = [op EXCEPT ![t] = o] /\ calls' = [calls EXCEPT ![t] = @ + 1]
    /\ signaled' = [signaled EXCEPT ![t] = FALSE] /\ result' = [result EXCEPT ![t] = "TIMEOUT"]
    /\ result_flags' = [result_flags EXCEPT ![t] = {}]
    /\ UNCHANGED <<group, linked, sched, pass, returned>>

----------------------------------------------------------------------------
(* event_group_wait.                                                       *)
Return(t, from, r, f) ==
    Goto(t, from, "out") /\ returned' = [returned EXCEPT ![t] = [result |-> r, flags |-> f]]

(* The group is dead, poisoned or as wanted; else the record joins its     *)
(* list.                                                                   *)
Link(t) ==
    LET g == op[t].g IN
    /\ pc[t] = "link"
    /\ \/ ~used[g] /\ Return(t, "link", "TIMEOUT", {}) /\ UNCHANGED linked
       \/ used[g] /\ poisoned[g] /\ Return(t, "link", "CANCELLED", flags[g]) /\ UNCHANGED linked
       \/ /\ used[g] /\ ~poisoned[g] /\ Matches(flags[g], t)
          /\ Return(t, "link", "OK", flags[g]) /\ UNCHANGED linked
       \/ /\ used[g] /\ ~poisoned[g] /\ ~Matches(flags[g], t)
          /\ linked' = [linked EXCEPT ![t] = g]
          /\ Goto(t, "link", "prepare") /\ UNCHANGED returned
    /\ UNCHANGED <<group, signaled, result, result_flags, sched, op, calls, pass>>

(* wait_prepare: blocked, with a timer if a timeout was given; a saturated *)
(* timer heap makes it a timeout at once.                                  *)
Prepare(t) ==
    /\ Goto(t, "prepare", "recheck")
    /\ \/ /\ state' = [state EXCEPT ![t] = "BLOCKED"]
          /\ wait_result' = [wait_result EXCEPT ![t] = "OK"]
          /\ armed' = IF op[t].timed THEN armed \cup {t} ELSE armed
       \/ /\ op[t].timed
          /\ wait_result' = [wait_result EXCEPT ![t] = "TIMEOUT"] /\ UNCHANGED <<state, armed>>
    /\ UNCHANGED <<group, record, op, calls, pass, returned>>

(* Slip: w.signaled is not read again after wait_prepare.                  *)
RecheckSkipped(t) ==
    /\ Goto(t, "recheck", IF state[t] = "BLOCKED" THEN "asleep" ELSE "finish")
    /\ state' = IF state[t] = "BLOCKED" THEN state ELSE [state EXCEPT ![t] = "RUNNING"]
    /\ UNCHANGED <<group, record, wait_result, armed, op, calls, pass, returned>>

(* Already marked: wait_cancel and out.  Else scheduler_yield.             *)
Recheck(t) ==
    /\ \/ /\ signaled[t] /\ Return(t, "recheck", result[t], result_flags[t])
          /\ state' = [state EXCEPT ![t] = "RUNNING"] /\ armed' = armed \ {t}
       \/ /\ ~signaled[t] /\ UNCHANGED <<armed, returned>>
          /\ Goto(t, "recheck", IF state[t] = "BLOCKED" THEN "asleep" ELSE "finish")
          /\ state' = IF state[t] = "BLOCKED" THEN state ELSE [state EXCEPT ![t] = "RUNNING"]
    /\ UNCHANGED <<group, record, wait_result, op, calls, pass>>

Dispatch(t) ==
    /\ state[t] = "READY" /\ Goto(t, "asleep", "finish")
    /\ state' = [state EXCEPT ![t] = "RUNNING"]
    /\ UNCHANGED <<group, record, wait_result, armed, op, calls, pass, returned>>

(* wait_finish: a mark decides, then the timeout; a spurious wake sleeps   *)
(* again.                                                                  *)
Finish(t) ==
    /\ armed' = armed \ {t}
    /\ \/ signaled[t] /\ Return(t, "finish", result[t], result_flags[t])
       \/ /\ ~signaled[t] /\ UNCHANGED returned
          /\ Goto(t, "finish", IF wait_result[t] = "TIMEOUT" THEN "unlink" ELSE "prepare")
    /\ UNCHANGED <<group, record, state, wait_result, op, calls, pass>>

(* Slip: the record of a timed-out wait stays on the list.                 *)
UnlinkForgotten(t) ==
    /\ Return(t, "unlink", IF signaled[t] THEN result[t] ELSE "TIMEOUT", flags[op[t].g])
    /\ UNCHANGED <<group, record, sched, op, calls, pass>>

(* Timed out: off the list under g->lock, unless marked meanwhile.         *)
Unlink(t) ==
    /\ \/ /\ signaled[t] /\ Return(t, "unlink", result[t], result_flags[t])
          /\ UNCHANGED linked
       \/ /\ ~signaled[t] /\ Return(t, "unlink", "TIMEOUT", flags[op[t].g])
          /\ linked' = [linked EXCEPT ![t] = None]
    /\ UNCHANGED <<group, signaled, result, result_flags, sched, op, calls, pass>>

(* scheduler_sleep_timer_fire, from timer_on_tick                          *)
TimerFire(t) ==
    /\ t \in armed /\ CpuFree(DrainCpu) /\ armed' = armed \ {t}
    /\ state' = [state EXCEPT ![t] = IF @ = "BLOCKED" THEN "READY" ELSE @]
    /\ wait_result' = [wait_result EXCEPT ![t] = IF state[t] = "BLOCKED" THEN "TIMEOUT" ELSE @]
    /\ UNCHANGED <<group, record, pc, op, calls, pass, returned, setup>>

----------------------------------------------------------------------------
(* wake_waiters, for actor a: mark and unlink a batch, then wake it.       *)
Cancels(a) == op[a].call \in {"poison", "destroy"}
Candidates(a) ==
    {t \in Threads : linked[t] = op[a].g /\ (Cancels(a) \/ Matches(snapshot[a], t))}
Done(a) == IF a \in Procs THEN "scan" ELSE "out"
After(a) == IF op[a].call = "destroy" THEN "free" ELSE Done(a)

(* Slip: a full batch is taken for the last one.                           *)
MarkedBatchOnce(a, b) ==
    /\ b \subseteq Candidates(a)
    /\ b = Candidates(a) \/ Cardinality(b) = BatchMax
    /\ Cardinality(b) <= BatchMax
    /\ again' = [again EXCEPT ![a] = FALSE]

MarkedBatch(a, b) ==
    /\ b \subseteq Candidates(a)
    /\ b = Candidates(a) \/ Cardinality(b) = BatchMax
    /\ Cardinality(b) <= BatchMax
    /\ again' = [again EXCEPT ![a] = (Cardinality(b) = BatchMax)]

(* Slip: the flags of the moment are reported, not the snapshot.           *)
ReportedNow(a) == flags[op[a].g]

Reported(a) == snapshot[a]

Collect(a) ==
    \E b \in SUBSET Threads :
        /\ Goto(a, "collect", "wake")
        /\ MarkedBatch(a, b)
        /\ linked' = [t \in Threads |-> IF t \in b THEN None ELSE linked[t]]
        /\ signaled' = [t \in Threads |-> signaled[t] \/ t \in b]
        /\ result' = [t \in Threads |-> IF t \in b THEN IF Cancels(a) THEN "CANCELLED" ELSE "OK"
                                        ELSE result[t]]
        /\ result_flags' = [t \in Threads |-> IF t \in b THEN Reported(a) ELSE result_flags[t]]
        /\ batch' = [batch EXCEPT ![a] = {<<t, calls[t]>> : t \in b}]
        /\ UNCHANGED <<group, sched, op, calls, snapshot, returned>>

(* wait_queue_wake_all on the queue of a record.  The record of a call     *)
(* that has returned is whatever the stack holds now: the thread, if it    *)
(* sleeps in a later wait, may or may not be woken.                        *)
Stale(e) == pc[e[1]] \notin WaitPlaces \cup {"killed"} \/ calls[e[1]] # e[2]

Wake(a) ==
    \E e \in batch[a] :
        LET t == e[1] IN
        /\ Goto(a, "wake", "wake")
        /\ batch' = [batch EXCEPT ![a] = @ \ {e}]
        /\ \/ /\ state[t] = "BLOCKED" /\ pc[t] \in WaitPlaces
              /\ state' = [state EXCEPT ![t] = "READY"] /\ armed' = armed \ {t}
              /\ wait_result' = [wait_result EXCEPT ![t] = "OK"]
           \/ /\ state[t] # "BLOCKED" \/ pc[t] \notin WaitPlaces \/ Stale(e)
              /\ UNCHANGED sched
        /\ UNCHANGED <<group, record, op, calls, snapshot, again, returned>>

WakeDone(a) ==
    /\ batch[a] = {} /\ Goto(a, "wake", IF again[a] THEN "collect" ELSE After(a))
    /\ UNCHANGED <<group, record, sched, op, calls, pass, returned>>

----------------------------------------------------------------------------
(* mutate_and_wake: the change and the snapshot, under g->lock.  A pulse   *)
(* shows the bits to the waiters and takes them back.                      *)
Applied(o) == IF o.call = "clear" THEN flags[o.g] \ o.bits ELSE flags[o.g] \cup o.bits

Apply(a) ==
    LET o == op[a] IN
    /\ pc[a] = "apply"
    /\ \/ /\ used[o.g] /\ ~poisoned[o.g] /\ Goto(a, "apply", "collect")
          /\ snapshot' = [snapshot EXCEPT ![a] = Applied(o)]
          /\ flags' = [flags EXCEPT ![o.g] = IF o.call = "pulse" THEN @ \ o.bits ELSE Applied(o)]
       \/ /\ ~used[o.g] \/ poisoned[o.g]
          /\ Goto(a, "apply", Done(a)) /\ UNCHANGED <<snapshot, flags>>
    /\ UNCHANGED <<used, poisoned, owner, record, sched, op, calls, batch, again, returned>>

(* Slip: destroy wakes the waiters of a group that takes new ones.         *)
MarkUnpoisoned(a) ==
    LET g == op[a].g IN
    /\ pc[a] = "mark"
    /\ \/ /\ used[g] /\ Goto(a, "mark", "collect")
          /\ snapshot' = [snapshot EXCEPT ![a] = flags[g]]
       \/ ~used[g] /\ Goto(a, "mark", Done(a)) /\ UNCHANGED snapshot
    /\ UNCHANGED <<group, record, sched, op, calls, batch, again, returned>>

(* event_group_poison, and the first half of event_group_destroy.  The     *)
(* flags are read for the snapshot after the lock is released: nobody can  *)
(* change the flags of a poisoned group but a reset, which cancelled       *)
(* waiters cannot tell from the value before.                              *)
Mark(a) ==
    LET g == op[a].g IN
    /\ pc[a] = "mark"
    /\ \/ /\ used[g] /\ Goto(a, "mark", "collect")
          /\ poisoned' = [poisoned EXCEPT ![g] = TRUE]
          /\ snapshot' = [snapshot EXCEPT ![a] = flags[g]]
       \/ ~used[g] /\ Goto(a, "mark", Done(a)) /\ UNCHANGED <<poisoned, snapshot>>
    /\ UNCHANGED <<used, owner, flags, record, sched, op, calls, batch, again, returned>>

(* The second half of event_group_destroy.                                 *)
Free(a) ==
    LET g == op[a].g IN
    /\ Goto(a, "free", Done(a))
    /\ used' = [used EXCEPT ![g] = FALSE] /\ flags' = [flags EXCEPT ![g] = {}]
    /\ poisoned' = [poisoned EXCEPT ![g] = FALSE] /\ owner' = [owner EXCEPT ![g] = None]
    /\ UNCHANGED <<record, sched, op, calls, pass, returned>>

Reset(t) ==
    LET g == op[t].g IN
    /\ Goto(t, "reset", "out")
    /\ IF used[g] THEN /\ flags' = [flags EXCEPT ![g] = {}]
                       /\ poisoned' = [poisoned EXCEPT ![g] = FALSE]
       ELSE UNCHANGED <<flags, poisoned>>
    /\ UNCHANGED <<used, owner, record, sched, op, calls, pass, returned>>

(* event_group_create: a free slot, or -1.                                 *)
Create(t) ==
    /\ Goto(t, "create", "out")
    /\ \/ \E g \in Groups :
             /\ ~used[g] /\ used' = [used EXCEPT ![g] = TRUE]
             /\ flags' = [flags EXCEPT ![g] = {}] /\ poisoned' = [poisoned EXCEPT ![g] = FALSE]
             /\ owner' = [owner EXCEPT ![g] = Owner[t]]
       \/ (\A g \in Groups : used[g]) /\ UNCHANGED group
    /\ UNCHANGED <<record, sched, op, calls, pass, returned>>

----------------------------------------------------------------------------
(* process_destroy_local: kill the threads, event_group_cleanup_process;   *)
(* idle reaps the bodies, and their stacks, later.                         *)
Exit(p) ==
    /\ p \in setup.exits /\ pc[p] = "out" /\ CpuFree(CpuOf(p))
    /\ pc' = [a \in Actors |-> IF a = p THEN "scan"
                               ELSE IF a \in Threads /\ Owner[a] = p THEN "killed" ELSE pc[a]]
    /\ armed' = {t \in armed : Owner[t] # p}
    /\ UNCHANGED <<group, record, state, wait_result, op, calls, pass, returned, setup>>

Scan(p) ==
    /\ \/ \E g \in Groups :
             /\ used[g] /\ owner[g] = p /\ Goto(p, "scan", "mark")
             /\ op' = [op EXCEPT ![p] = [call |-> "destroy", g |-> g]]
       \/ /\ \A g \in Groups : ~(used[g] /\ owner[g] = p)
          /\ Goto(p, "scan", "reap") /\ op' = [op EXCEPT ![p] = NoOp]
    /\ UNCHANGED <<group, record, sched, calls, pass, returned>>

Reap(p) ==
    /\ pc[p] = "reap" /\ CpuFree(CpuOf(p))
    /\ pc' = [a \in Actors |-> IF a = p \/ (a \in Threads /\ Owner[a] = p) THEN "gone" ELSE pc[a]]
    /\ UNCHANGED <<group, record, sched, op, calls, pass, returned, setup>>

----------------------------------------------------------------------------
WaitStep(t) ==
    Link(t) \/ Prepare(t) \/ Recheck(t) \/ Dispatch(t) \/ Finish(t) \/ Unlink(t)
PassStep(a) == Apply(a) \/ Mark(a) \/ Collect(a) \/ Wake(a) \/ WakeDone(a) \/ Free(a)
Step(t) == WaitStep(t) \/ PassStep(t) \/ Reset(t) \/ Create(t)
EndStep(p) == Scan(p) \/ PassStep(p) \/ Reap(p)

Next ==
    \/ \E t \in Threads : Step(t) \/ TimerFire(t) \/ \E o \in setup.ops[t] : Call(t, o)
    \/ \E p \in Procs : Exit(p) \/ EndStep(p)

(* A call goes on until it returns, a ready thread runs, timers fire; the  *)
(* end of a process goes on although calls of its CPU come in between.  No *)
(* thread need make a call, no process need end.                           *)
Fairness ==
    /\ \A t \in Threads : WF_vars(Step(t)) /\ WF_vars(TimerFire(t))
    /\ \A p \in Procs : SF_vars(EndStep(p))

Spec == Init /\ [][Next]_vars
FairSpec == Spec /\ Fairness

----------------------------------------------------------------------------
(* A record on a group's list belongs to a call in progress, whose stack   *)
(* is there to be read (event_group.c:295-296) and whose result nobody has *)
(* decided yet.  The threads of a process that has ended are off the lists *)
(* of its groups before they are reaped.                                   *)
ListedFramesAlive ==
    \A t \in Threads :
        linked[t] # None => ~signaled[t] /\ pc[t] \in WaitPlaces \cup {"killed"}

(* Nobody is left on a match: a waiter on the list of a group whose flags  *)
(* are as it wants them is about to be found by a pass over the list.      *)
Finds(a, t) ==
    /\ op[a] \in Changes \cup Ends /\ op[a].g = linked[t]
    /\ pc[a] = "collect" \/ (pc[a] = "wake" /\ again[a])
    /\ Cancels(a) \/ Matches(snapshot[a], t)

NobodySleepsOnMatch ==
    \A t \in Threads :
        linked[t] # None /\ pc[t] # "killed" /\ Matches(flags[linked[t]], t) =>
            \E a \in Actors : Finds(a, t)

(* Nobody waits on a dead group: when a group is freed, and when it is     *)
(* poisoned and no pass is at work, its list is empty.                     *)
DeadGroupsAreEmpty ==
    \A t \in Threads :
        linked[t] # None =>
            /\ used[linked[t]]
            /\ poisoned[linked[t]] => \E a \in Actors : Finds(a, t) /\ Cancels(a)

(* A timeout is final: a wait that returned TIMEOUT is on no list and no   *)
(* waker holds its record, so no later event is lost on it                 *)
(* (event_group.c:360-362).                                                *)
TimeoutIsFinal ==
    \A t \in Threads :
        pc[t] = "out" /\ returned[t].result = "TIMEOUT" =>
            linked[t] = None /\ \A a \in Actors : <<t, calls[t]>> \notin batch[a]

(* The records of waiters: well typed, listed only while their call is in  *)
(* progress, forgotten by everybody once it has timed out.                 *)
GroupInv == TypeOK /\ ListedFramesAlive /\ TimeoutIsFinal

(* The flags a successful wait reports are ones it waited for.             *)
AnswerIsTrue ==
    \A t \in Threads :
        pc[t] = "out" /\ op[t].call = "wait" /\ returned[t].result = "OK" =>
            Matches(returned[t].flags, t)

(* A waker touches only records whose call has not returned                *)
(* (event_group.c:93-96).                                                  *)
WakeTouchesTheLiving ==
    \A a \in Actors : \A e \in batch[a] : ~Stale(e)

(* A marked waiter returns, whether it was asleep, about to sleep or       *)
(* timing out when it was marked.                                          *)
MarkedReturns == \A t \in Threads : InWait(t) /\ signaled[t] ~> ~InWait(t)

(* A timeout ends the wait.                                                *)
TimedReturns == \A t \in Threads : InWait(t) /\ op[t].timed ~> ~InWait(t)

(* No wait that has a reason to end goes on for ever.                      *)
WaitEnds == MarkedReturns /\ TimedReturns
=============================================================================
