------------------------------ MODULE Services ------------------------------
(***************************************************************************)
(* The service registry (kernel/registry.c) with the processes that use    *)
(* it: services that register a name, clients that wait for one, boot      *)
(* modules parked until a name appears (needs:, process_spawn_elf_needs),  *)
(* the cleanup when a process ends (process_destroy_local) and the respawn *)
(* of primary services by idle (kernel.c).                                 *)
(*                                                                         *)
(* A process has one thread here.  The actors are threads, the end of a    *)
(* process (which has the name of the process) and, per CPU, the kernel    *)
(* thread that spawns modules: boot at first, idle later.  A step is one   *)
(* critical section of s_lock or what runs between two of them.  A system  *)
(* call runs with interrupts off; kernel threads, which may also carry out *)
(* the end of a process, do not.  The port a service registers is its      *)
(* process.  The lists have no order any property depends on: they are     *)
(* sets.                                                                   *)
(*                                                                         *)
(* A role is a module of the boot manifest, that is its clean name: the    *)
(* file name up to the first dot.  Two modules have two clean names.       *)
(***************************************************************************)
EXTENDS Naturals, FiniteSets

CONSTANTS Threads, Procs, Names, Roles, Cpus, None,
          Owner,               \* thread_t.owner, one thread per process
          Need,                \* per role: the name after needs:, or None
          Bsp,                 \* the CPU that boots and runs timer_on_tick
          TableMax,            \* REGISTRY_MAX
          WaitBatch,           \* ARRAY_SIZE(wb), 16 in the source
          ParkBatch,           \* ARRAY_SIZE(pb), 8 in the source
          PrimaryMax,          \* PRIMARY_MAX, 8 in the source
          MaxCalls,            \* bound: calls made by each thread
          Setups               \* the cases looked at, see ServicesAssumption

Actors == Threads \cup Procs \cup Cpus
Slots == 1 .. TableMax
CallOps == [call : {"register", "unregister", "find"}, name : Names, timed : {FALSE}]
           \cup [call : {"wait"}, name : Names, timed : BOOLEAN]

ASSUME ServicesAssumption ==
    /\ None \notin Actors \cup Names \cup Roles
    /\ Procs \subseteq Nat                      \* pids, given out in order
    /\ Threads \cap Procs = {} /\ Cpus \cap (Threads \cup Procs) = {}
    /\ Owner \in [Threads -> Procs] /\ \A s, t \in Threads : Owner[s] = Owner[t] => s = t
    /\ \A p \in Procs : \E t \in Threads : Owner[t] = p
    /\ Need \in [Roles -> Names \cup {None}] /\ Bsp \in Cpus
    /\ {TableMax, WaitBatch, ParkBatch} \subseteq Nat \ {0} /\ {MaxCalls, PrimaryMax} \subseteq Nat
    /\ \A u \in Setups :
          /\ u.home \in [Procs -> Cpus]
          /\ u.boot \subseteq Roles             \* the modules boot spawns
          /\ u.primary \subseteq Roles          \* those marked primary
          /\ u.plain \subseteq Roles            \* those whose file name is the clean name
          /\ u.ops \in [Roles -> SUBSET CallOps]
          /\ u.exits \subseteq Roles            \* those that may end
          /\ u.ends \in Nat                    \* bound: processes that end
          /\ u.early \in BOOLEAN                \* even while they are being spawned
          /\ u.oom \in BOOLEAN                  \* memory may run out

VARIABLES entries,                       \* s_entries
          linked,                        \* per thread: the name its record waits for
          parked,                        \* the records of s_parked
          pstate, role, is_primary,      \* per process
          clean,                         \* processes whose proc->name is the clean name
          cached,                        \* roles with a slot in s_primaries
          boot, respawn_pending,         \* roles to be spawned
          state, armed,                  \* thread_t.state; threads with a sleep_timer
          pc, op, calls,                 \* place; call and number of calls of a thread
          name,                          \* the name an actor drains
          wb, pb, again,                 \* locals of drain_and_wake
          spawned,                       \* per CPU: the process it is spawning
          lost,                          \* roles whose respawn has failed
          setup

registry == <<entries, linked, parked>>
life == <<pstate, role, is_primary, clean>>
todo == <<boot, respawn_pending, lost, cached>>
sched == <<state, armed>>
batches == <<name, wb, pb, again>>
vars == <<registry, life, todo, sched, pc, op, calls, batches, spawned, setup>>

Free == [name |-> None, owner |-> None, active |-> FALSE]
NoOp == [call |-> "none"]
WaitPlaces == {"asleep", "again"}
Places == WaitPlaces \cup {"none", "suspended", "out", "lookup", "install", "unregister",
                           "drain", "wake", "killed", "unpark", "entries", "unlist", "respawn",
                           "over", "park", "cache", "promote"}

TypeOK ==
    /\ entries \in [Slots -> [name : Names \cup {None}, owner : Procs \cup {None}, active : BOOLEAN]]
    /\ linked \in [Threads -> Names \cup {None}] /\ parked \subseteq Names \X Threads
    /\ pstate \in [Procs -> {"none", "alive", "dying", "gone"}]
    /\ role \in [Procs -> Roles \cup {None}] /\ is_primary \subseteq Procs /\ clean \subseteq Procs
    /\ cached \subseteq Roles /\ boot \subseteq Roles /\ respawn_pending \subseteq Roles /\ lost \subseteq Roles
    /\ state \in [Threads -> {"none", "RUNNING", "BLOCKED", "READY", "DEAD"}]
    /\ armed \subseteq Threads /\ pc \in [Actors -> Places]
    /\ op \in [Threads -> CallOps \cup {NoOp}] /\ calls \in [Threads -> 0 .. MaxCalls]
    /\ name \in [Actors -> Names \cup {None}] /\ wb \in [Actors -> SUBSET (Threads \X (1 .. MaxCalls))]
    /\ \A a \in Actors : pc[a] \in {"drain", "wake"} => name[a] # None
    /\ pb \in [Actors -> SUBSET Threads] /\ again \in [Actors -> BOOLEAN]
    /\ spawned \in [Cpus -> Procs \cup {None}]

Init ==
    /\ setup \in Setups
    /\ entries = [i \in Slots |-> Free] /\ linked = [t \in Threads |-> None] /\ parked = {}
    /\ pstate = [p \in Procs |-> "none"] /\ role = [p \in Procs |-> None] /\ is_primary = {}
    /\ clean = {} /\ cached = {} /\ boot = setup.boot /\ respawn_pending = {} /\ lost = {}
    /\ state = [t \in Threads |-> "none"] /\ armed = {}
    /\ pc = [a \in Actors |-> IF a \in Cpus THEN "out" ELSE "none"]
    /\ op = [t \in Threads |-> NoOp] /\ calls = [t \in Threads |-> 0]
    /\ name = [a \in Actors |-> None] /\ wb = [a \in Actors |-> {}] /\ pb = [a \in Actors |-> {}]
    /\ again = [a \in Actors |-> FALSE] /\ spawned = [c \in Cpus |-> None]

----------------------------------------------------------------------------
Listed(p) == pstate[p] \in {"alive", "dying"}           \* process_get_by_pid
Holders(n) == {i \in Slots : entries[i].active /\ entries[i].name = n}      \* entry_find
Registered(n) == Holders(n) # {}

CpuOf(a) == IF a \in Cpus THEN a ELSE setup.home[IF a \in Procs THEN a ELSE Owner[a]]
InKernel(a) ==
    a \in Threads /\ pc[a] \notin {"none", "suspended", "out", "asleep", "killed", "over"}
CpuFree(c) == \A a \in Actors : CpuOf(a) = c => ~InKernel(a)
MayRun(a) == InKernel(a) \/ CpuFree(CpuOf(a))
Goto(a, from, to) ==
    pc[a] = from /\ MayRun(a) /\ pc' = [pc EXCEPT ![a] = to] /\ UNCHANGED setup

(* A system call begins.                                                   *)
Call(t, o) ==
    /\ o \in setup.ops[role[Owner[t]]] /\ calls[t] < MaxCalls
    /\ Goto(t, "out", CASE o.call = "register" -> "install"
                        [] o.call = "unregister" -> "unregister"
                        [] OTHER -> "lookup")
    /\ op' = [op EXCEPT ![t] = o] /\ calls' = [calls EXCEPT ![t] = @ + 1]
    /\ UNCHANGED <<registry, life, todo, sched, batches, spawned>>

----------------------------------------------------------------------------
(* registry_find, and registry_wait up to the yield: the record is linked  *)
(* and the thread blocked under s_lock.  A saturated timer heap leaves the *)
(* thread running.                                                         *)
Lookup(t) ==
    LET o == op[t] IN
    /\ pc[t] = "lookup"
    /\ \/ /\ Registered(o.name) \/ o.call = "find"
          /\ Goto(t, "lookup", "out") /\ UNCHANGED <<linked, sched>>
       \/ /\ ~Registered(o.name) /\ o.call = "wait"
          /\ linked' = [linked EXCEPT ![t] = o.name]
          /\ \/ /\ Goto(t, "lookup", "asleep") /\ state' = [state EXCEPT ![t] = "BLOCKED"]
                /\ armed' = IF o.timed THEN armed \cup {t} ELSE armed
             \/ o.timed /\ Goto(t, "lookup", "again") /\ UNCHANGED sched
    /\ UNCHANGED <<entries, parked, life, todo, op, calls, batches, spawned>>

Dispatch(t) ==
    /\ state[t] = "READY" /\ Goto(t, "asleep", "again")
    /\ state' = [state EXCEPT ![t] = "RUNNING"] /\ armed' = armed \ {t}
    /\ UNCHANGED <<registry, life, todo, op, calls, batches, spawned>>

(* The end of registry_wait: off the list if still there; the answer is    *)
(* what the table holds now.                                               *)
LookAgain(t) ==
    /\ Goto(t, "again", "out") /\ linked' = [linked EXCEPT ![t] = None]
    /\ UNCHANGED <<entries, parked, life, todo, sched, op, calls, batches, spawned>>

TimerFire(t) ==
    /\ t \in armed /\ CpuFree(Bsp) /\ armed' = armed \ {t}
    /\ state' = [state EXCEPT ![t] = IF @ = "BLOCKED" THEN "READY" ELSE @]
    /\ UNCHANGED <<registry, life, todo, pc, op, calls, batches, spawned, setup>>

----------------------------------------------------------------------------
(* The entry registry_register writes: the one of that name, if it is the  *)
(* caller's or its owner is no process any more; else a free slot.         *)
Installed(n, p) ==
    \/ \E i \in Holders(n) :
          /\ entries[i].owner = p \/ ~Listed(entries[i].owner)
          /\ entries' = [entries EXCEPT ![i].owner = p]
    \/ /\ ~Registered(n)
       /\ \E i \in Slots : ~entries[i].active /\ entries' = [entries EXCEPT ![i] =
                                [name |-> n, owner |-> p, active |-> TRUE]]

Refused(n, p) ==
    \/ \E i \in Holders(n) : entries[i].owner # p /\ Listed(entries[i].owner)      \* -3
    \/ ~Registered(n) /\ \A i \in Slots : entries[i].active                        \* -2

Install(t) ==
    LET n == op[t].name IN
    /\ pc[t] = "install"
    /\ \/ /\ Goto(t, "install", "drain") /\ Installed(n, Owner[t])
          /\ name' = [name EXCEPT ![t] = n]
       \/ Goto(t, "install", "out") /\ Refused(n, Owner[t]) /\ UNCHANGED <<entries, name>>
    /\ UNCHANGED <<linked, parked, life, todo, sched, op, calls, wb, pb, again, spawned>>

(* registry_unregister: by the owner only.                                 *)
Unregister(t) ==
    /\ Goto(t, "unregister", "out")
    /\ entries' = [i \in Slots |->
                     IF i \in Holders(op[t].name) /\ entries[i].owner = Owner[t]
                     THEN [entries[i] EXCEPT !.active = FALSE] ELSE entries[i]]
    /\ UNCHANGED <<linked, parked, life, todo, sched, op, calls, batches, spawned>>

----------------------------------------------------------------------------
(* drain_and_wake, and the last loop of registry_cleanup_owner, which      *)
(* looks for waiters only: detach a batch, wake it, go on after a full one.*)
Full(b, max) == Cardinality(b) = max
Taken(b, from, max) ==
    b \subseteq from /\ Cardinality(b) <= max /\ (b = from \/ Full(b, max))

(* Slip: the first batch is the last.                                      *)
AgainNever(b, q) == FALSE

Again(b, q) == Full(b, WaitBatch) \/ Full(q, ParkBatch)

Drain(a) ==
    \E b \in SUBSET Threads, q \in SUBSET Threads :
        /\ Goto(a, "drain", "wake")
        /\ Taken(b, {t \in Threads : linked[t] = name[a]}, WaitBatch)
        /\ Taken(q, {t \in Threads : a \in Threads /\ <<name[a], t>> \in parked}, ParkBatch)
        /\ linked' = [t \in Threads |-> IF t \in b THEN None ELSE linked[t]]
        /\ parked' = parked \ {<<name[a], t>> : t \in q}
        /\ wb' = [wb EXCEPT ![a] = {<<t, calls[t]>> : t \in b}] /\ pb' = [pb EXCEPT ![a] = q]
        /\ again' = [again EXCEPT ![a] = Again(b, q)]
        /\ UNCHANGED <<entries, life, todo, sched, op, calls, name, spawned>>

(* wait_queue_wake_all on the queue of a record.  If the call it belongs   *)
(* to has returned, a later sleep of the thread may or may not end.        *)
Stale(e) == pc[e[1]] \notin WaitPlaces \/ calls[e[1]] # e[2]

WakeWaiter(a) ==
    \E e \in wb[a] :
        LET t == e[1] IN
        /\ Goto(a, "wake", "wake") /\ wb' = [wb EXCEPT ![a] = @ \ {e}]
        /\ \/ /\ state[t] = "BLOCKED" /\ pc[t] = "asleep"
              /\ state' = [state EXCEPT ![t] = "READY"] /\ armed' = armed \ {t}
           \/ (state[t] # "BLOCKED" \/ Stale(e)) /\ UNCHANGED sched
        /\ UNCHANGED <<registry, life, todo, op, calls, name, pb, again, spawned>>

(* Slip: the record is freed, the thread not started.                      *)
WakeParkedForgets(a) ==
    \E t \in pb[a] :
        /\ Goto(a, "wake", "wake") /\ pb' = [pb EXCEPT ![a] = @ \ {t}]
        /\ UNCHANGED <<registry, life, todo, sched, op, calls, name, wb, again, spawned>>

(* scheduler_unblock of a parked thread, found by its TID                  *)
WakeParked(a) ==
    \E t \in pb[a] :
        /\ Goto(a, "wake", "wake") /\ pb' = [pb EXCEPT ![a] = @ \ {t}]
        /\ state' = [state EXCEPT ![t] = IF @ = "BLOCKED" THEN "READY" ELSE @]
        /\ UNCHANGED <<registry, life, todo, armed, op, calls, name, wb, again, spawned>>

WakeDone(a) ==
    /\ wb[a] = {} /\ pb[a] = {}
    /\ Goto(a, "wake", IF again[a] THEN "drain" ELSE IF a \in Procs THEN "entries" ELSE "out")
    /\ UNCHANGED <<registry, life, todo, sched, op, calls, batches, spawned>>

----------------------------------------------------------------------------
(* The end of a process: its thread is killed, registry_cleanup_owner      *)
(* frees its parking records and deactivates its entries one by one, the   *)
(* process leaves the table, a primary asks to be respawned.               *)
Exit(p) ==
    /\ role[p] \in setup.exits /\ pstate[p] = "alive" /\ CpuFree(CpuOf(p))
    /\ Cardinality({q \in Procs : pstate[q] \in {"dying", "gone"}}) < setup.ends
    /\ setup.early \/ \A c \in Cpus : spawned[c] # p
    /\ pstate' = [pstate EXCEPT ![p] = "dying"]
    /\ pc' = [a \in Actors |-> IF a = p THEN "unpark"
                               ELSE IF a \in Threads /\ Owner[a] = p THEN "killed" ELSE pc[a]]
    /\ state' = [t \in Threads |-> IF Owner[t] = p THEN "DEAD" ELSE state[t]]
    /\ armed' = {t \in armed : Owner[t] # p}
    /\ UNCHANGED <<registry, role, is_primary, clean, todo, op, calls, batches, spawned, setup>>

Unpark(p) ==
    /\ Goto(p, "unpark", "entries")
    /\ parked' = {r \in parked : Owner[r[2]] # p}
    /\ UNCHANGED <<entries, linked, life, todo, sched, op, calls, batches, spawned>>

CleanEntry(p) ==
    /\ \E i \in Slots :
          /\ entries[i].active /\ entries[i].owner = p /\ Goto(p, "entries", "drain")
          /\ entries' = [entries EXCEPT ![i].active = FALSE]
          /\ name' = [name EXCEPT ![p] = entries[i].name]
    /\ UNCHANGED <<linked, parked, life, todo, sched, op, calls, wb, pb, again, spawned>>

CleanDone(p) ==
    /\ \A i \in Slots : ~(entries[i].active /\ entries[i].owner = p)
    /\ Goto(p, "entries", "unlist")
    /\ UNCHANGED <<registry, life, todo, sched, op, calls, batches, spawned>>

Unlist(p) ==
    /\ Goto(p, "unlist", "respawn") /\ pstate' = [pstate EXCEPT ![p] = "gone"]
    /\ UNCHANGED <<registry, role, is_primary, clean, todo, sched, op, calls, batches, spawned>>

(* kernel_request_respawn(proc->name): the slot of that very name, if      *)
(* there is one.                                                           *)
RequestRespawn(p) ==
    /\ Goto(p, "respawn", "over")
    /\ respawn_pending' = respawn_pending \cup
           (IF p \in is_primary \cap clean THEN {role[p]} \cap cached ELSE {})
    /\ UNCHANGED <<registry, life, boot, lost, cached, sched, op, calls, batches, spawned>>

----------------------------------------------------------------------------
(* The kernel thread of CPU c: spawn_module_blob at boot, with needs:;     *)
(* kernel_run_pending_respawns later, without.  The request is taken back  *)
(* first, the module is loaded after.  At boot a process gets the file     *)
(* name as its name, with the extension; a respawned one that of its slot. *)
ThreadOf(p) == CHOOSE t \in Threads : Owner[t] = p
AfterSpawn(r) == IF r \in setup.primary THEN "cache" ELSE "promote"

Born(c, r, p, need, next) ==
    LET t == ThreadOf(p) IN
    /\ pstate[p] = "none" /\ \A q \in Procs : q < p => pstate[q] # "none"
    /\ pstate' = [pstate EXCEPT ![p] = "alive"]
    /\ role' = [role EXCEPT ![p] = r] /\ spawned' = [spawned EXCEPT ![c] = p]
    /\ state' = [state EXCEPT ![t] = IF need = None THEN "RUNNING" ELSE "BLOCKED"]
    /\ pc[c] = "out" /\ MayRun(c)
    /\ pc' = [pc EXCEPT ![c] = IF need = None THEN next ELSE "park",
                        ![t] = IF need = None THEN "out" ELSE "suspended", ![p] = "out"]
    /\ UNCHANGED <<registry, is_primary, armed, op, calls, batches, setup>>

SpawnAtBoot(c) ==
    \E r \in boot, p \in Procs :
        /\ c = Bsp /\ boot' = boot \ {r} /\ Born(c, r, p, Need[r], AfterSpawn(r))
        /\ clean' = IF r \in setup.plain THEN clean \cup {p} ELSE clean
        /\ UNCHANGED <<respawn_pending, lost, cached>>

(* The module is not loaded: boot goes on with the next one.               *)
BootFails(c) ==
    /\ setup.oom /\ c = Bsp /\ Goto(c, "out", "out")
    /\ \E r \in boot : boot' = boot \ {r}
    /\ UNCHANGED <<registry, life, respawn_pending, lost, cached, sched, op, calls, batches, spawned>>

(* Slip: the request stays, another CPU takes it again.                    *)
RespawnUnclaimed(c) ==
    \E r \in respawn_pending, p \in Procs :
        Born(c, r, p, None, "promote") /\ clean' = clean \cup {p} /\ UNCHANGED todo

Respawn(c) ==
    \E r \in respawn_pending, p \in Procs :
        /\ respawn_pending' = respawn_pending \ {r} /\ Born(c, r, p, None, "promote")
        /\ clean' = clean \cup {p} /\ UNCHANGED <<boot, lost, cached>>

(* process_spawn_elf_ex fails: only a line in the log.                     *)
RespawnFails(c) ==
    /\ setup.oom /\ Goto(c, "out", "out")
    /\ \E r \in respawn_pending :
          respawn_pending' = respawn_pending \ {r} /\ lost' = lost \cup {r}
    /\ UNCHANGED <<registry, life, boot, cached, sched, op, calls, batches, spawned>>

(* primary_cache_store: no slot or no memory for the copy leaves the cache *)
(* as it is, and the module is marked primary all the same.                *)
CacheStore(c) ==
    LET r == role[spawned[c]] IN
    /\ Goto(c, "cache", "promote")
    /\ \/ Cardinality(cached) < PrimaryMax /\ cached' = cached \cup {r}
       \/ (setup.oom \/ Cardinality(cached) >= PrimaryMax) /\ UNCHANGED cached
    /\ UNCHANGED <<registry, life, boot, respawn_pending, lost, sched, op, calls, batches, spawned>>

(* Slip: the name is looked for before the record is on the list, in a     *)
(* section of its own.                                                     *)
ParkUnchecked(c) ==
    LET p == spawned[c] t == ThreadOf(p) IN
    /\ Goto(c, "park", AfterSpawn(role[p]))
    /\ parked' = parked \cup {<<Need[role[p]], t>>}
    /\ UNCHANGED <<entries, linked, life, todo, sched, op, calls, batches, spawned>>

(* Slip: when the name is there the thread is not started.                 *)
ParkLost(c) ==
    LET p == spawned[c] t == ThreadOf(p) IN
    /\ Goto(c, "park", AfterSpawn(role[p]))
    /\ parked' = IF Registered(Need[role[p]]) THEN parked
                 ELSE parked \cup {<<Need[role[p]], t>>}
    /\ UNCHANGED <<entries, linked, life, todo, sched, op, calls, batches, spawned>>

(* registry_park_or_start; without memory for a record the thread starts.  *)
Park(c) ==
    LET p == spawned[c] t == ThreadOf(p) IN
    /\ Goto(c, "park", AfterSpawn(role[p]))
    /\ \/ /\ Registered(Need[role[p]]) \/ setup.oom
          /\ state' = [state EXCEPT ![t] = IF @ = "BLOCKED" THEN "READY" ELSE @]
          /\ UNCHANGED parked
       \/ /\ ~Registered(Need[role[p]])
          /\ parked' = parked \cup {<<Need[role[p]], t>>} /\ UNCHANGED state
    /\ UNCHANGED <<entries, linked, life, todo, armed, op, calls, batches, spawned>>

Start(t) ==
    /\ state[t] = "READY" /\ Goto(t, "suspended", "out")
    /\ state' = [state EXCEPT ![t] = "RUNNING"]
    /\ UNCHANGED <<registry, life, todo, armed, op, calls, batches, spawned>>

(* Slip: the spawned process is not marked.                                *)
PromoteForgets(c) ==
    /\ Goto(c, "promote", "out") /\ spawned' = [spawned EXCEPT ![c] = None]
    /\ UNCHANGED <<registry, life, todo, sched, op, calls, batches>>

(* process_get_ref and is_primary = true                                   *)
Promote(c) ==
    LET p == spawned[c] IN
    /\ Goto(c, "promote", "out") /\ spawned' = [spawned EXCEPT ![c] = None]
    /\ is_primary' = IF role[p] \in setup.primary /\ Listed(p) THEN is_primary \cup {p} ELSE is_primary
    /\ UNCHANGED <<registry, pstate, role, clean, todo, sched, op, calls, batches>>

----------------------------------------------------------------------------
PassStep(a) == Drain(a) \/ WakeWaiter(a) \/ WakeParked(a) \/ WakeDone(a)
Step(t) ==
    \/ Lookup(t) \/ Dispatch(t) \/ LookAgain(t) \/ Install(t) \/ Unregister(t)
    \/ PassStep(t) \/ Start(t)
EndStep(p) == Unpark(p) \/ CleanEntry(p) \/ CleanDone(p) \/ PassStep(p) \/ Unlist(p) \/ RequestRespawn(p)
KernelStep(c) ==
    \/ SpawnAtBoot(c) \/ BootFails(c) \/ Respawn(c) \/ RespawnFails(c)
    \/ Park(c) \/ CacheStore(c) \/ Promote(c)

Next ==
    \/ \E t \in Threads : Step(t) \/ TimerFire(t)
                          \/ (pc[t] = "out" /\ \E o \in setup.ops[role[Owner[t]]] : Call(t, o))
    \/ \E p \in Procs : Exit(p) \/ EndStep(p)
    \/ \E c \in Cpus : KernelStep(c)

(* Calls go on to their end, timers fire; kernel threads and the ends of   *)
(* processes run again and again although calls come between their steps.  *)
(* No thread need make a call, no process need end.                        *)
Fairness ==
    /\ \A t \in Threads : WF_vars(Step(t)) /\ WF_vars(TimerFire(t))
    /\ \A p \in Procs : SF_vars(EndStep(p))
    /\ \A c \in Cpus : SF_vars(KernelStep(c))

Spec == Init /\ [][Next]_vars
FairSpec == Spec /\ Fairness

----------------------------------------------------------------------------
(* A record on the waiters' list belongs to a wait in progress: it lives   *)
(* on the stack of the waiter (registry.c:18-19).                          *)
ListedFramesAlive == \A t \in Threads : linked[t] # None => pc[t] \in WaitPlaces

(* A waker touches only records whose wait has not returned.               *)
WakeTouchesTheLiving == \A a \in Actors : \A e \in wb[a] : ~Stale(e)

(* Nobody waits for a name that is there: a waiter or a parked thread of a *)
(* registered name is about to be found by the pass of a registration      *)
(* (registry.c:153-159).                                                   *)
Drains(a, n) == name[a] = n /\ (pc[a] = "drain" \/ (pc[a] = "wake" /\ again[a]))
NobodyWaitsForTheRegistered ==
    \A t \in Threads : \A n \in Names :
        Registered(n) /\ (linked[t] = n \/ <<n, t>> \in parked) =>
            \E a \in Threads : Drains(a, n)

(* A suspended thread can be started: it is being spawned, it is parked,   *)
(* or someone who has taken it off the list is about to start it.          *)
SuspendedIsKnown ==
    \A t \in Threads :
        pc[t] = "suspended" =>
            \/ state[t] = "READY"
            \/ \E c \in Cpus : spawned[c] = Owner[t] /\ pc[c] = "park"
            \/ \E n \in Names : <<n, t>> \in parked
            \/ \E a \in Actors : t \in pb[a]

(* A process that is gone owns nothing: no active entry, no parking record *)
(* (registry.c:371-376).                                                   *)
GoneOwnNothing ==
    \A p \in Procs : pstate[p] = "gone" =>
        /\ \A i \in Slots : entries[i].active => entries[i].owner # p
        /\ \A r \in parked : Owner[r[2]] # p

(* The records of those who wait for a name, and what the dead leave:      *)
(* well typed, on living stacks, every suspended thread known to somebody  *)
(* who can start it, nothing owned by a process that is gone.              *)
ServiceInv == TypeOK /\ ListedFramesAlive /\ SuspendedIsKnown /\ GoneOwnNothing

(* A service runs once: two processes of a role are never alive together.  *)
OneOfARole ==
    \A p, q \in Procs : p # q /\ role[p] = role[q] /\ pstate[p] = "alive" => pstate[q] # "alive"

(* A wait ends: a timed one always, any one if its name stays registered.  *)
WaitReturns ==
    \A t \in Threads :
        pc[t] \in WaitPlaces /\ (op[t].timed \/ Registered(op[t].name)) ~>
            pc[t] \notin WaitPlaces \/ (~op[t].timed /\ ~Registered(op[t].name))

(* A parked module starts if the name it needs stays registered.           *)
Waiting(t) == pc[t] = "suspended" /\ Registered(Need[role[Owner[t]]])
ParkedStarts == \A t \in Threads : Waiting(t) ~> ~Waiting(t)

Back(p) == \E q \in Procs : role[q] = role[p] /\ pstate[q] = "alive"

(* A cached primary comes back (kernel.c:402-444): again and again all who *)
(* have ended under the name of their slot are there, but for those whose  *)
(* loading failed.                                                         *)
CachedComesBack ==
    []<>(\A p \in Procs : pstate[p] = "gone" /\ p \in clean /\ role[p] \in cached \ lost => Back(p))

(* What kernel.c:402-406 says: the channel of respawn cannot lose a        *)
(* request.  All cached primaries that have ended come back.               *)
PrimaryComesBack ==
    []<>(\A p \in Procs : pstate[p] = "gone" /\ role[p] \in cached \ lost => Back(p))
=============================================================================
