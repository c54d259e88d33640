---------------------------- MODULE ProcessLife ----------------------------
(***************************************************************************)
(* The end of processes and threads: process_destroy and its two phases    *)
(* (process.c), birth, death and reaping of threads (thread.c), the reap   *)
(* and teardown queues of the home CPU and the migration of a process      *)
(* (scheduler.c), and the calls that start all this: spawn, exit, kill,    *)
(* wait, thread_create, thread_exit (syscall.c), the fault handler and the *)
(* OOM killer or watchdog.                                                 *)
(*                                                                         *)
(* Agents are user threads and, per CPU, the idle thread.  A step is one   *)
(* critical section (s_table_lock, s_proclist_lock, tw_lock) or one access *)
(* to a field shared without a lock.  A system call runs with interrupts   *)
(* off: no other thread of its CPU runs until it returns or sleeps.  Idle  *)
(* runs with interrupts on: a call may come between any two of its steps.  *)
(*                                                                         *)
(* thread_count is the number of published threads of the process, the     *)
(* count changes in the critical sections that change s_thread_table.      *)
(* refcount is the set of holders; Slot stands for the table's reference.  *)
(***************************************************************************)
EXTENDS Naturals, Sequences

CONSTANTS Procs, Threads, Cpus, None, Slot,
          Owner,       \* thread_t.owner
          Setups       \* what may happen, see LifeAssumption

Agents == Threads \cup Cpus        \* the idle thread of a CPU has its name

ASSUME LifeAssumption ==
    /\ Threads \cap Cpus = {} /\ None \notin Agents \cup Procs /\ Slot \notin Agents
    /\ Owner \in [Threads -> Procs]
    /\ \A u \in Setups :
          /\ u.alive \subseteq Threads             \* threads that exist at the start
          /\ u.home \in [Procs -> Cpus]
          /\ u.rights \subseteq Procs \X Procs   \* who may kill or wait for whom
          /\ u.ops \subseteq {"exit", "kill", "wait", "fault", "oom", "thread_create",
                              "thread_exit", "spawn", "migrate"}

VARIABLES pstate,              \* process_t.state; "none" before process_create
          listed,              \* processes in the handle table
          claimed,             \* destroy_claimed
          queued, awaiting,    \* queued_for_teardown, awaiting_teardown
          home,                \* home_cpu of a process and of its threads
          refs,                \* process_t.refcount
          exit_waiters,
          published, linked,   \* threads in s_thread_table; in process_t.threads
          state,               \* thread_t.state
          reap_list, teardown_q,     \* per CPU
          pc, obj, victim, then,     \* per agent; then: what follows process_destroy
          finalized,           \* times process_finalize ran, per process
          reclaimed,           \* processes whose PCB was freed
          self_killed,         \* history: processes whose own thread called sys_kill
          setup

pcb == <<pstate, listed, claimed, queued, awaiting, home, refs, exit_waiters>>
bodies == <<published, linked, state>>
work == <<reap_list, teardown_q>>
ghost == <<finalized, reclaimed, self_killed, setup>>
vars == <<pcb, bodies, work, pc, obj, victim, then, ghost>>

Ops == setup.ops
CpuOf(a) == IF a \in Cpus THEN a ELSE home[Owner[a]]
Of(p) == {t \in published : Owner[t] = p}            \* thread_count = Cardinality(Of(p))

Places == {"out", "asleep", "gone", "faulted", "e_wake", "k_wake", "claim", "route", "zombie",
           "take", "slay", "detach", "bury", "unlist", "arm", "finalize", "put", "t_exit",
           "w_loop", "w_prepare", "w_recheck", "d_claim", "d_zombie", "d_wake", "d_defer", "f_dead", "sp_load",
           "sp_ready", "reap"}

TypeOK ==
    /\ pstate \in [Procs -> {"none", "CREATING", "READY", "ZOMBIE"}]
    /\ listed \subseteq Procs /\ claimed \subseteq Procs
    /\ queued \subseteq Procs /\ awaiting \subseteq Procs
    /\ home \in [Procs -> Cpus] /\ refs \in [Procs -> SUBSET (Agents \cup {Slot})]
    /\ exit_waiters \in [Procs -> SUBSET Threads]
    /\ published \subseteq Threads /\ linked \subseteq Threads
    /\ state \in [Threads -> {"none", "READY", "BLOCKED", "DEAD"}]
    /\ reap_list \in [Cpus -> Seq(Threads)] /\ teardown_q \in [Cpus -> SUBSET Procs]
    /\ pc \in [Agents -> Places] /\ obj \in [Agents -> Procs \cup {None}]
    /\ \A a \in Agents : pc[a] \in {"put", "claim", "route", "zombie", "finalize"} => obj[a] # None
    /\ victim \in [Agents -> Threads \cup {None}]
    /\ then \in [Agents -> {"out", "put", "t_exit", "f_dead"}]
    /\ finalized \in [Procs -> Nat] /\ reclaimed \subseteq Procs /\ self_killed \subseteq Procs

Init ==
    /\ setup \in Setups
    /\ published = setup.alive /\ linked = setup.alive
    /\ state = [t \in Threads |-> IF t \in setup.alive THEN "READY" ELSE "none"]
    /\ listed = {Owner[t] : t \in setup.alive}
    /\ pstate = [p \in Procs |-> IF p \in listed THEN "READY" ELSE "none"]
    /\ refs = [p \in Procs |-> IF p \in listed THEN {Slot} ELSE {}]
    /\ home = setup.home
    /\ claimed = {} /\ queued = {} /\ awaiting = {} /\ reclaimed = {}
    /\ self_killed = {}
    /\ exit_waiters = [p \in Procs |-> {}]
    /\ reap_list = [c \in Cpus |-> <<>>] /\ teardown_q = [c \in Cpus |-> {}]
    /\ pc = [a \in Agents |-> IF a \in Cpus \cup setup.alive THEN "out" ELSE "gone"]
    /\ obj = [a \in Agents |-> None] /\ victim = [a \in Agents |-> None]
    /\ then = [a \in Agents |-> "out"]
    /\ finalized = [p \in Procs |-> 0]

----------------------------------------------------------------------------
InKernel(t) == pc[t] \notin {"out", "asleep", "gone", "faulted"}
MayRun(a) ==
    /\ \A t \in Threads \ {a} : home[Owner[t]] = CpuOf(a) => ~InKernel(t)
    /\ a \in Threads => state[a] \in {"READY", "BLOCKED"}
Goto(a, from, to) == pc[a] = from /\ MayRun(a) /\ pc' = [pc EXCEPT ![a] = to]

(* A call begins; when its process_destroy is over it goes on at next.     *)
Call(t, op, to, p, next) ==
    /\ t \in Threads /\ op \in Ops /\ state[t] = "READY" /\ Goto(t, "out", to)
    /\ obj' = [obj EXCEPT ![t] = p] /\ then' = [then EXCEPT ![t] = next]
    /\ UNCHANGED victim

(* process_destroy, or process_destroy_deferred, returns to its caller.    *)
Returns(a, from) ==
    /\ Goto(a, from, then[a])
    /\ obj' = IF then[a] = "put" THEN obj ELSE [obj EXCEPT ![a] = None]
    /\ UNCHANGED then

WakeExitWaiters(p) ==
    /\ state' = [t \in Threads |-> IF t \in exit_waiters[p] /\ state[t] = "BLOCKED"
                                   THEN "READY" ELSE state[t]]
    /\ exit_waiters' = [exit_waiters EXCEPT ![p] = {}]

(* refcount_dec, process_reclaim at zero *)
Drop(p, holder) ==
    /\ refs' = [refs EXCEPT ![p] = @ \ {holder}]
    /\ reclaimed' = IF refs[p] \ {holder} = {} THEN reclaimed \cup {p} ELSE reclaimed

(* scheduler_queue_reap: on the list of the thread's home CPU              *)
QueueReap(t) == reap_list' = [reap_list EXCEPT ![home[Owner[t]]] = Append(@, t)]

----------------------------------------------------------------------------
(* The system calls up to process_destroy.                                 *)

(* sys_exit *)
ExitBegin(t) ==
    /\ Call(t, "exit", "e_wake", Owner[t], "t_exit")
    /\ UNCHANGED <<pcb, bodies, work, ghost>>

(* Slip: process_get_by_pid, the lookup that takes no reference.           *)
GetRaw(t, op, to, p) ==
    /\ p \in listed /\ Call(t, op, to, p, "put")
    /\ UNCHANGED <<pcb, bodies, work, finalized, reclaimed, setup>>

(* sys_kill, sys_wait, the OOM killer and the watchdog: process_get_ref.   *)
GetRef(t, op, to, p) ==
    /\ p \in listed /\ Call(t, op, to, p, "put")
    /\ refs' = [refs EXCEPT ![p] = @ \cup {t}]
    /\ UNCHANGED <<pstate, listed, claimed, queued, awaiting, home, exit_waiters, bodies,
                   work, finalized, reclaimed, setup>>

(* A parent and a driver may, the latter also its own process.             *)
KillBegin(t, p) ==
    /\ <<Owner[t], p>> \in setup.rights /\ GetRef(t, "kill", "k_wake", p)
    /\ self_killed' = IF p = Owner[t] THEN self_killed \cup {p} ELSE self_killed
WaitBegin(t, p) ==
    /\ <<Owner[t], p>> \in setup.rights /\ GetRef(t, "wait", "w_loop", p)
    /\ UNCHANGED self_killed
OomBegin(t, p) == GetRef(t, "oom", "d_claim", p) /\ UNCHANGED self_killed

(* sys_exit and sys_kill wake the waiters before the state says ZOMBIE.    *)
WakeFirst(t) ==
    /\ Goto(t, "e_wake", "claim") \/ Goto(t, "k_wake", "claim")
    /\ WakeExitWaiters(obj[t])
    /\ UNCHANGED <<pstate, listed, claimed, queued, awaiting, home, refs, published, linked,
                   work, obj, victim, then, ghost>>

(* sys_wait: the loop around wait_prepare, re-check, yield.                *)
WaitLoop(t) ==
    /\ state[t] = "READY" /\ pc[t] \in {"w_loop", "asleep"}
    /\ Goto(t, pc[t], IF pstate[obj[t]] = "ZOMBIE" THEN "claim" ELSE "w_prepare")
    /\ UNCHANGED <<pcb, bodies, work, obj, victim, then, ghost>>

WaitPrepare(t) ==
    /\ Goto(t, "w_prepare", "w_recheck") /\ state' = [state EXCEPT ![t] = "BLOCKED"]
    /\ exit_waiters' = [exit_waiters EXCEPT ![obj[t]] = @ \cup {t}]
    /\ UNCHANGED <<pstate, listed, claimed, queued, awaiting, home, refs, published, linked,
                   work, obj, victim, then, ghost>>

(* Slip: no second look at the state after wait_prepare.                   *)
WaitRecheckSkipped(t) ==
    /\ Goto(t, "w_recheck", "asleep")
    /\ UNCHANGED <<pcb, bodies, work, obj, victim, then, ghost>>

WaitRecheck(t) ==
    /\ pc[t] = "w_recheck"
    /\ IF pstate[obj[t]] = "ZOMBIE"
       THEN /\ Goto(t, "w_recheck", "claim") /\ state' = [state EXCEPT ![t] = "READY"]
            /\ exit_waiters' = [exit_waiters EXCEPT ![obj[t]] = @ \ {t}]
       ELSE Goto(t, "w_recheck", "asleep") /\ UNCHANGED <<state, exit_waiters>>
    /\ UNCHANGED <<pstate, listed, claimed, queued, awaiting, home, refs, published, linked,
                   work, obj, victim, then, ghost>>

----------------------------------------------------------------------------
(* process_destroy *)

(* Slip: destroy_claimed is tested and set in two steps.                   *)
ClaimNotAtomic(a) ==
    /\ Goto(a, "claim", "route") /\ claimed' = claimed \cup {obj[a]}
    /\ UNCHANGED <<obj, then, pstate, listed, queued, awaiting, home, refs, exit_waiters,
                   bodies, work, victim, ghost>>

Claim(a) ==
    /\ IF obj[a] \in claimed
       THEN Returns(a, "claim") /\ UNCHANGED claimed
       ELSE /\ Goto(a, "claim", "route") /\ claimed' = claimed \cup {obj[a]}
            /\ UNCHANGED <<obj, then>>
    /\ UNCHANGED <<pstate, listed, queued, awaiting, home, refs, exit_waiters, bodies, work,
                   victim, ghost>>

Enqueue(p) ==
    /\ queued' = queued \cup {p}
    /\ teardown_q' = IF p \in queued THEN teardown_q
                     ELSE [teardown_q EXCEPT ![home[p]] = @ \cup {p}]

(* scheduler_route_process_teardown: here if this is the home CPU, else    *)
(* on the queue of the home CPU.                                           *)
Route(a) ==
    /\ pc[a] = "route"
    /\ IF home[obj[a]] = CpuOf(a)
       THEN Goto(a, "route", "zombie") /\ UNCHANGED <<obj, then, queued, teardown_q>>
       ELSE Returns(a, "route") /\ Enqueue(obj[a])
    /\ UNCHANGED <<pstate, listed, claimed, awaiting, home, refs, exit_waiters, bodies,
                   reap_list, victim, ghost>>

(* scheduler_run_local_teardowns, in idle *)
TeardownPop(c, p) ==
    /\ Goto(c, "out", "zombie") /\ p \in teardown_q[c]
    /\ teardown_q' = [teardown_q EXCEPT ![c] = @ \ {p}] /\ queued' = queued \ {p}
    /\ obj' = [obj EXCEPT ![c] = p]
    /\ UNCHANGED <<pstate, listed, claimed, awaiting, home, refs, exit_waiters, bodies,
                   reap_list, victim, then, ghost>>

----------------------------------------------------------------------------
(* process_destroy_local *)
SetZombie(a) ==
    /\ Goto(a, "zombie", "take") /\ pstate' = [pstate EXCEPT ![obj[a]] = "ZOMBIE"]
    /\ UNCHANGED <<listed, claimed, queued, awaiting, home, refs, exit_waiters, bodies, work,
                   obj, victim, then, ghost>>

(* thread_take_other_from_process *)
TakeOther(a) ==
    LET others == {t \in linked : Owner[t] = obj[a]} \ {a} IN
    /\ \/ /\ others = {} /\ Goto(a, "take", "unlist") /\ UNCHANGED <<linked, victim>>
       \/ \E v \in others :
            /\ Goto(a, "take", "slay")
            /\ linked' = linked \ {v} /\ victim' = [victim EXCEPT ![a] = v]
    /\ UNCHANGED <<pcb, published, state, work, obj, then, ghost>>

(* Slip: thread_destroy does not care who has already ended the thread.    *)
SlayTwice(a) ==
    /\ Goto(a, "slay", "detach") /\ state' = [state EXCEPT ![victim[a]] = "DEAD"]
    /\ UNCHANGED <<pcb, published, linked, work, obj, victim, then, ghost>>

(* thread_destroy: thread_begin_death has one winner, ...                  *)
Slay(a) ==
    /\ pc[a] = "slay"
    /\ IF state[victim[a]] = "DEAD"
       THEN /\ Goto(a, "slay", "take") /\ victim' = [victim EXCEPT ![a] = None]
            /\ UNCHANGED state
       ELSE /\ Goto(a, "slay", "detach") /\ state' = [state EXCEPT ![victim[a]] = "DEAD"]
            /\ UNCHANGED victim
    /\ UNCHANGED <<pcb, published, linked, work, obj, then, ghost>>

(* ... which takes the thread off its timer, wait queue and run queue ...  *)
Detach(a) ==
    /\ Goto(a, "detach", "bury")
    /\ exit_waiters' = [p \in Procs |-> exit_waiters[p] \ {victim[a]}]
    /\ UNCHANGED <<pstate, listed, claimed, queued, awaiting, home, refs, bodies, work, obj,
                   victim, then, ghost>>

(* ... and hands it to the reaper.                                         *)
Bury(a) ==
    /\ Goto(a, "bury", "take") /\ QueueReap(victim[a])
    /\ victim' = [victim EXCEPT ![a] = None]
    /\ UNCHANGED <<pcb, bodies, teardown_q, obj, then, ghost>>

(* The cleanups of drivers, ports, watches, names and event groups are not *)
(* modelled here; then handle_table_remove under s_proclist_lock.          *)
Unlist(a) ==
    /\ Goto(a, "unlist", "arm") /\ listed' = listed \ {obj[a]}
    /\ UNCHANGED <<pstate, claimed, queued, awaiting, home, refs, exit_waiters, bodies, work,
                   obj, victim, then, ghost>>

(* thread_arm_process_teardown *)
Arm(a) ==
    /\ IF Of(obj[a]) = {}
       THEN Goto(a, "arm", "finalize") /\ UNCHANGED <<awaiting, obj, then>>
       ELSE awaiting' = awaiting \cup {obj[a]} /\ Returns(a, "arm")
    /\ UNCHANGED <<pstate, listed, claimed, queued, home, refs, exit_waiters, bodies, work,
                   victim, ghost>>

(* process_finalize *)
Finalize(a) ==
    /\ Returns(a, "finalize") /\ Drop(obj[a], Slot)
    /\ finalized' = [finalized EXCEPT ![obj[a]] = @ + 1]
    /\ UNCHANGED <<pstate, listed, claimed, queued, awaiting, home, exit_waiters, bodies,
                   work, victim, self_killed, setup>>

Put(t) ==
    /\ Goto(t, "put", "out") /\ Drop(obj[t], t)
    /\ obj' = [obj EXCEPT ![t] = None] /\ then' = [then EXCEPT ![t] = "out"]
    /\ UNCHANGED <<pstate, listed, claimed, queued, awaiting, home, exit_waiters, bodies,
                   work, victim, finalized, self_killed, setup>>

----------------------------------------------------------------------------
(* process_destroy_deferred: by a faulting thread on its own process, by   *)
(* the OOM killer or the watchdog on any.                                  *)
FaultBegin(t) ==
    /\ Call(t, "fault", "d_claim", Owner[t], "f_dead")
    /\ UNCHANGED <<pcb, bodies, work, ghost>>

DeferClaim(a) ==
    /\ IF obj[a] \in claimed
       THEN Returns(a, "d_claim") /\ UNCHANGED claimed
       ELSE /\ Goto(a, "d_claim", "d_zombie") /\ claimed' = claimed \cup {obj[a]}
            /\ UNCHANGED <<obj, then>>
    /\ UNCHANGED <<pstate, listed, queued, awaiting, home, refs, exit_waiters, bodies, work,
                   victim, ghost>>

DeferZombie(a) ==
    /\ Goto(a, "d_zombie", "d_wake") /\ pstate' = [pstate EXCEPT ![obj[a]] = "ZOMBIE"]
    /\ UNCHANGED <<listed, claimed, queued, awaiting, home, refs, exit_waiters, bodies, work,
                   obj, victim, then, ghost>>

DeferWake(a) ==
    /\ Goto(a, "d_wake", "d_defer") /\ WakeExitWaiters(obj[a])
    /\ UNCHANGED <<pstate, listed, claimed, queued, awaiting, home, refs, published, linked,
                   work, obj, victim, then, ghost>>

(* Slip: the teardown is dropped, as the old workqueue could.              *)
DeferLost(a) ==
    /\ Returns(a, "d_defer")
    /\ UNCHANGED <<pcb, bodies, work, victim, ghost>>

Defer(a) ==
    /\ Returns(a, "d_defer") /\ Enqueue(obj[a])
    /\ UNCHANGED <<pstate, listed, claimed, awaiting, home, refs, exit_waiters, bodies,
                   reap_list, victim, ghost>>

(* fault_kill_current_process: DEAD, and never handed to the reaper.       *)
FaultDead(t) ==
    /\ Goto(t, "f_dead", "faulted") /\ state' = [state EXCEPT ![t] = "DEAD"]
    /\ UNCHANGED <<pcb, published, linked, work, obj, victim, then, ghost>>

----------------------------------------------------------------------------
(* Threads and processes are born and end.                                 *)

(* thread_publish and scheduler_add *)
Publish(u) ==
    /\ state[u] = "none"
    /\ published' = published \cup {u} /\ linked' = linked \cup {u}
    /\ state' = [state EXCEPT ![u] = "READY"]

ThreadCreate(t, u) ==
    /\ "thread_create" \in Ops /\ state[t] = "READY" /\ pc[t] = "out" /\ MayRun(t)
    /\ Owner[u] = Owner[t] /\ Publish(u) /\ pc' = [pc EXCEPT ![u] = "out"]
    /\ UNCHANGED <<pcb, work, obj, victim, then, ghost>>

ThreadExitBegin(t) ==
    /\ Call(t, "thread_exit", "t_exit", None, "out")
    /\ UNCHANGED <<pcb, bodies, work, ghost>>

(* thread_exit, to the switch away from this stack *)
ThreadExit(t) ==
    /\ Goto(t, "t_exit", "gone") /\ state' = [state EXCEPT ![t] = "DEAD"]
    /\ QueueReap(t)
    /\ UNCHANGED <<pcb, published, linked, teardown_q, obj, victim, then, ghost>>

(* process_create; the home CPU, the least loaded one, is setup's choice.  *)
SpawnCreate(t, p) ==
    /\ pstate[p] = "none" /\ Call(t, "spawn", "sp_load", p, "out")
    /\ pstate' = [pstate EXCEPT ![p] = "CREATING"] /\ listed' = listed \cup {p}
    /\ refs' = [refs EXCEPT ![p] = {Slot}]
    /\ UNCHANGED <<claimed, queued, awaiting, home, exit_waiters, bodies, work, ghost>>

(* elf_load or a later step fails: process_destroy *)
SpawnFails(t) ==
    /\ Goto(t, "sp_load", "claim")
    /\ UNCHANGED <<pcb, bodies, work, obj, victim, then, ghost>>

SpawnThread(t, u) ==
    /\ pc[t] = "sp_load" /\ MayRun(t) /\ Owner[u] = obj[t] /\ Publish(u)
    /\ pc' = [pc EXCEPT ![t] = "sp_ready", ![u] = "out"]
    /\ UNCHANGED <<pcb, work, obj, victim, then, ghost>>

SpawnReady(t) ==
    /\ Goto(t, "sp_ready", "out") /\ pstate' = [pstate EXCEPT ![obj[t]] = "READY"]
    /\ obj' = [obj EXCEPT ![t] = None]
    /\ UNCHANGED <<listed, claimed, queued, awaiting, home, refs, exit_waiters, bodies, work,
                   victim, then, ghost>>

----------------------------------------------------------------------------
(* scheduler_reap_local: idle takes a body of its CPU; thread_reap_one     *)
(* detaches it and claims the finalize if it was the last.                 *)
ReapPop(c) ==
    /\ Goto(c, "out", "reap") /\ reap_list[c] # <<>>
    /\ reap_list' = [reap_list EXCEPT ![c] = Tail(@)]
    /\ victim' = [victim EXCEPT ![c] = Head(reap_list[c])]
    /\ UNCHANGED <<pcb, bodies, teardown_q, obj, then, ghost>>

(* Slip: the finalize is claimed without resetting awaiting_teardown and   *)
(* without looking at the other threads.                                   *)
ReapDetachAny(c) ==
    LET t == victim[c]  p == Owner[t] IN
    /\ pc[c] = "reap" /\ published' = published \ {t} /\ linked' = linked \ {t}
    /\ victim' = [victim EXCEPT ![c] = None]
    /\ IF p \in awaiting
       THEN /\ Goto(c, "reap", "finalize") /\ obj' = [obj EXCEPT ![c] = p] /\ UNCHANGED awaiting
       ELSE Goto(c, "reap", "out") /\ UNCHANGED <<awaiting, obj>>
    /\ UNCHANGED <<pstate, listed, claimed, queued, home, refs, exit_waiters, state, work,
                   then, ghost>>

ReapDetach(c) ==
    LET t == victim[c]
        p == Owner[t]
        last == Of(p) \subseteq {t} /\ p \in awaiting IN
    /\ pc[c] = "reap" /\ published' = published \ {t} /\ linked' = linked \ {t}
    /\ victim' = [victim EXCEPT ![c] = None]
    /\ IF last
       THEN /\ Goto(c, "reap", "finalize") /\ obj' = [obj EXCEPT ![c] = p]
            /\ awaiting' = awaiting \ {p}
       ELSE Goto(c, "reap", "out") /\ UNCHANGED <<awaiting, obj>>
    /\ UNCHANGED <<pstate, listed, claimed, queued, home, refs, exit_waiters, state, work,
                   then, ghost>>

(* Slip: a process whose end is claimed may still be moved.                *)
MigrateClaimed(p, c) ==
    /\ "migrate" \in Ops /\ c # home[p] /\ p \in listed
    /\ p \notin queued \cup awaiting
    /\ \A t \in linked : Owner[t] = p => state[t] # "DEAD" /\ ~InKernel(t)
    /\ home' = [home EXCEPT ![p] = c]
    /\ UNCHANGED <<pstate, listed, claimed, queued, awaiting, refs, exit_waiters, bodies,
                   work, pc, obj, victim, then, ghost>>

(* scheduler_donate: from an interrupt on the home CPU, a whole process    *)
(* that has a runnable thread, none running or dead, and no end in sight.  *)
Migrate(p, c) ==
    /\ "migrate" \in Ops /\ c # home[p]
    /\ \E t \in linked : Owner[t] = p /\ state[t] = "READY"
    /\ p \notin claimed \cup queued \cup awaiting
    /\ \A t \in linked : Owner[t] = p => state[t] # "DEAD"
    /\ \A t \in Threads : home[Owner[t]] = home[p] => ~InKernel(t)
    /\ home' = [home EXCEPT ![p] = c]
    /\ UNCHANGED <<pstate, listed, claimed, queued, awaiting, refs, exit_waiters, bodies,
                   work, pc, obj, victim, then, ghost>>

----------------------------------------------------------------------------
Destroying(a) ==
    \/ Claim(a) \/ Route(a) \/ SetZombie(a) \/ TakeOther(a) \/ Slay(a) \/ Detach(a)
    \/ Bury(a) \/ Unlist(a) \/ Arm(a) \/ Finalize(a)

ThreadStep(t) ==
    \/ WakeFirst(t) \/ WaitLoop(t) \/ WaitPrepare(t) \/ WaitRecheck(t) \/ Destroying(t) \/ Put(t)
    \/ DeferClaim(t) \/ DeferZombie(t) \/ DeferWake(t) \/ Defer(t) \/ FaultDead(t)
    \/ ThreadExit(t) \/ SpawnFails(t) \/ SpawnReady(t)
    \/ \E u \in Threads : SpawnThread(t, u)

IdleStep(c) ==
    \/ Destroying(c) \/ ReapPop(c) \/ ReapDetach(c)
    \/ \E p \in Procs : TeardownPop(c, p)

Begin(t) ==
    \/ ExitBegin(t) \/ FaultBegin(t) \/ ThreadExitBegin(t)
    \/ \E p \in Procs : KillBegin(t, p) \/ WaitBegin(t, p) \/ OomBegin(t, p)
                         \/ SpawnCreate(t, p)
    \/ \E u \in Threads : ThreadCreate(t, u)

Next ==
    \/ \E t \in Threads : ThreadStep(t) \/ Begin(t)
    \/ \E c \in Cpus : IdleStep(c)
    \/ \E p \in Procs, c \in Cpus : Migrate(p, c)

(* A call that has begun goes on, and every CPU becomes idle again and     *)
(* again; nobody need begin a call or be moved.                            *)
Fairness ==
    /\ \A t \in Threads : WF_vars(ThreadStep(t))
    /\ \A c \in Cpus : SF_vars(IdleStep(c))

Spec == Init /\ [][Next]_vars
FairSpec == Spec /\ Fairness

----------------------------------------------------------------------------
In(x, q) == \E i \in DOMAIN q : q[i] = x

(* A process is finalized once, whichever of exit, kill, wait, a fault and *)
(* the OOM killer meet: its SHM and device pages are not unmapped, nor the *)
(* reference of its slot dropped, a second time.                           *)
FinalizedOnce == \A p \in Procs : finalized[p] <= 1

(* Teardown, reaping and finalize of a process run on its home CPU, the    *)
(* only one that may have its page directory loaded, although the process  *)
(* may be moved until its end is claimed.                                  *)
TeardownAtHome ==
    /\ \A a \in Agents : pc[a] \in {"zombie", "take", "slay", "detach", "bury", "unlist", "arm",
                                 "finalize"} => home[obj[a]] = CpuOf(a)
    /\ \A c \in Cpus, t \in Threads :
          In(t, reap_list[c]) \/ (pc[c] = "reap" /\ victim[c] = t) => home[Owner[t]] = c

(* A dead thread is handed to the reaper once, whether it ended by itself  *)
(* or was killed, and is in the thread table until the reaper detaches it. *)
ReapedOnce ==
    \A c \in Cpus :
      /\ \A i, j \in DOMAIN reap_list[c] : i # j => reap_list[c][i] # reap_list[c][j]
      /\ \A t \in Threads : In(t, reap_list[c]) => t \in published /\ state[t] = "DEAD"
      /\ pc[c] = "reap" => /\ victim[c] \in published
                           /\ \A d \in Cpus : ~In(victim[c], reap_list[d])

(* No thread is left in an address space that finalize has taken apart.    *)
NoThreadOutlivesSpace == \A t \in published : finalized[Owner[t]] = 0

(* Nobody works on, waits for or has queued a PCB that was freed.          *)
PcbOutlivesItsUsers ==
    \A p \in reclaimed :
      /\ \A a \in Agents : obj[a] # p
      /\ \A c \in Cpus : p \notin teardown_q[c]
      /\ exit_waiters[p] = {} /\ p \notin listed

(* fault_kill_current_process leaves a body that nobody reaps.             *)
Faulted(p) == \E t \in Threads : Owner[t] = p /\ pc[t] \in {"f_dead", "faulted"}

(* sys_kill of the caller's own pid spares the caller: it goes back to     *)
(* user mode in a process whose end waits for its last thread.             *)
Survived(p) ==
    p \in awaiting \cap self_killed /\ \E t \in Of(p) : state[t] \in {"READY", "BLOCKED"}

(* An end that was claimed is never left to nobody, faults and a thread    *)
(* that killed its own process and lives on apart: somebody carries it     *)
(* out, it is queued, or a body to be reaped will finish it.               *)
EndIsOwned ==
    \A p \in claimed :
      \/ finalized[p] > 0 \/ Faulted(p) \/ Survived(p) \/ \E c \in Cpus : p \in teardown_q[c]
      \/ \E a \in Agents : obj[a] = p /\ pc[a] \in {"route", "zombie", "take", "slay", "detach",
                       "bury", "unlist", "arm", "finalize", "d_zombie", "d_wake", "d_defer"}
      \/ p \in awaiting /\ \E t \in Of(p) :
            \/ pc[t] = "t_exit"
            \/ \E c \in Cpus : In(t, reap_list[c]) \/ (pc[c] = "reap" /\ victim[c] = t)

(* Who sleeps in sys_wait on a process that has ended will be woken.       *)
NobodyWaitsForTheDead ==
    \A t \in Threads : pc[t] = "asleep" /\ state[t] = "BLOCKED" /\ pstate[obj[t]] = "ZOMBIE" =>
      \E a \in Agents : obj[a] = obj[t] /\ pc[a] = "d_wake"

(* The end of a process in good hands: well-typed state, a claimed end     *)
(* that somebody carries on, waiters that somebody will wake.              *)
EndInv == TypeOK /\ EndIsOwned /\ NobodyWaitsForTheDead

(* Every process whose end was claimed is finalized in the end, unless one *)
(* of its threads faulted, or killed the process and lives on (a claim is  *)
(* never taken back, so this need only hold from some time on).            *)
DestroyCompletes == <>[](\A p \in claimed : finalized[p] > 0 \/ Faulted(p) \/ Survived(p))

(* The same of every process, the faulting ones included: "the last reap   *)
(* will finalize exactly once".                                            *)
LastReapFinalizes == <>[](\A p \in claimed : finalized[p] > 0)
=============================================================================
