# Verification of MainDOB's kernel core

MainDOB is a 32-bit x86 microkernel system: drivers, file system, window server
and programs are processes that talk through kernel ports. This directory holds
TLA+ models of the part everything else stands on: ports, messages, wait queues,
death notifications, the end of processes and threads, event groups, and the
service registry with the respawn of vital services. TLC checks the models on
small instances; TLAPS proofs extend the safety properties to every instance.
Paths are relative to the repository; comments of the source are quoted in
Italian as they stand.

## 1. Inventory

### The system's parts

| Part | State | Operations | Hard because |
|---|---|---|---|
| Ports, `kernel/ipc/port.c`, `krt/refcount.h` | table, stack of free ids, generations, recycle stack of structs, reference counts | create, get, get_checked, generation, put, destroy, teardown | a reference is dropped without the table's lock; ids and structs are recycled under holders |
| Channel, `kernel/ipc/channel.c` | message queue, notification bits, `pending_senders`, `s_pending[tid]`, `pending_reply_t` in the sender's stack | send_sync, reply, receive, receive_nowait, post, post_checked, post_kernel, notify, wait_notify, wake of senders, cleanup of a thread | five critical sections per send, pointers into another thread's stack, kill and destroy |
| Wait queues, `kernel/proc/wait.c` | intrusive lists through `thread_t.wq_next`, `blocked_on`, `wait_result` | prepare, cancel, finish, wake_one, wake_all, extract_one, remove_thread | the wake happens after the lock is released; timers remove waiters too |
| Death watch, `port.c` 19-155, `sys_watch_port` | table of watches keyed (id, generation) | add, fire, cleanup_watcher | checks and entries under different locks, ids by value |
| Processes and threads, `kernel/proc/process.c`, `thread.c` | process and thread tables, counts, `destroy_claimed`, `awaiting_teardown`, references | spawn, exit, kill, wait, fault, OOM kill, thread create and exit, reap, finalize | two-phase teardown with single winners, carried out on the home CPU of a process that may move |
| Event groups, `kernel/sync/event_group.c` | flags, poison, list of records on the waiters' stacks | create, set, clear, pulse, poison, reset, wait, destroy, cleanup | batches woken after the lock is released, timeouts against marks |
| Service registry, `kernel/registry.c`, respawn in `kernel.c` | names, name waiters, parked modules, primaries | register, unregister, find, wait, park_or_start, cleanup_owner, respawn | one-off events that must not be missed, records on stacks, spawning against death |
| Scheduler, `kernel/proc/scheduler.c` | run queues per CPU, reap and teardown queues | unblock, yield, yield_to, sleep, donation, reap | state changed without a lock, cross-CPU wake protocol |
| Timers, `kernel/time/timer.c` | heap, generation per timer | arm, cancel, drain | stale callbacks |
| Mutex, semaphore, rwlock, futex | lock words and wait queues | lock, unlock, wait, wake | wake accounting, timeouts, priority inheritance |
| Handle table, work queue, reclaim | small tables | | limits |
| Memory management | frames, heap, page tables, regions, SHM | | size |
| System calls, driver calls, interrupts, boot, ACPI, console | | | hardware, I/O |
| Boot services, drivers, libraries, programs | | | userspace over the IPC above |

`PROJECT.json` lists each of them with its status. A hazard list in the same
file gives, line by line, what a test of this code would hardly reach; the
properties below were written for it.

### How the parts interact

A client calls `ipc_send_sync`: it takes a reference (Ports), stores a pointer
to a `pending_reply_t` of its own stack in `s_pending[tid]`, links it in the
port's `pending_senders` with the message (Channel), wakes or directly switches
to a receiver (Wait queues, Scheduler) and sleeps in its private `reply_wait`.
A server receives, answers by tid (`ipc_reply_staged`) under a lock per tid;
that `s_pending[tid]` is set is all the kernel asks of a reply.
`ipc_port_destroy` closes the port, fires the death watch, wakes receivers,
notification waiters and senders, and drops the table's reference; the last
reference runs the teardown, which recycles struct and id.

Exit, kill, a fault and the OOM killer all lead to `process_destroy`: one of
them claims the end, which runs on the home CPU of the process, at once or from
its idle thread. It kills the threads, destroys the ports, drops watches, names
and event groups, takes the process off the table; the last reaped thread, or
the end itself, finalizes the address space and drops the table's reference.
A vital service asks to be respawned by idle. Modules that need a service are
created suspended and parked in the registry until the name appears.

### What makes them correct

* Ports: a held pointer is the incarnation asked for; one teardown per struct;
  an id is free once and only when nobody holds it; destroyed ids come back.
* Channel: an answer belongs to its request; whoever sleeps is known to somebody
  who will wake it; nobody sleeps on a message, on bits or on a dead port;
  pointers into stacks are to stacks that exist.
* Wait queues: lists are lists; a thread that left its wait is not linked; no
  wake is lost; a timeout ends a wait.
* Death watch: a notice speaks of a dead incarnation, reaches its watcher, once.
* Processes: one finalize, on the home CPU, after the last thread; a PCB outlives
  its users; an end that began is completed; who waits for the dead is woken.
* Event groups: nobody sleeps on a pattern that holds; a wait is answered once,
  truly, as woken or as timed out; a freed group has no waiters.
* Registry: nobody waits for a name that is there; a suspended module is known
  to somebody who will start it; the dead own no name; a cached primary comes back.

## 2. Modules

| Module | Models | Extended by |
|---|---|---|
| `IpcPort` | `port.c` life cycle and `refcount.h` | `IpcPortProofs` |
| `PortIncarnation` | what `port.h` promises of an id (abstract) | instantiated by `IpcPort` |
| `IpcPortProofs` | theorems about `IpcPort` | |
| `IpcChannel` | `channel.c` over one port, destroy's wakes, end of a sender and of the owner | `MCIpcChannel`, `IpcChannelProofs` |
| `WaitQueue` | `wait.c`, with the sleep timer and the scheduler calls it uses | `MCWaitQueue`, `WaitQueueProofs` |
| `DeathWatch` | the watches of `port.c`, `sys_watch_port`, process end | `MCDeathWatch`, `DeathWatchProofs` |
| `ProcessLife` | `process.c`, `thread.c`, reap and teardown queues, donation | `MCProcessLife`, `ProcessLifeProofs` |
| `ProcessLifeProofs` | theorems about `ProcessLife` | |
| `EventGroup` | `event_group.c` | `MCEventGroup`, `EventGroupProofs` |
| `Services` | `registry.c`, spawn with needs, respawn of primaries | `MCServices`, `ServicesProofs` |
| `IpcChannelProofs`, `WaitQueueProofs`, `DeathWatchProofs`, `EventGroupProofs`, `ServicesProofs` | theorems about the module of that name | |
| `SeqFacts` | lemmas on push and pop of lists | the modules of proofs that speak of queues |

**Granularity.** A step is one critical section of the source or one access to a
field shared without a lock; everything between two of them is a value of a
thread's program counter. A system call enters through an interrupt gate
(`syscall.c:1947`) and runs with interrupts off until it returns or sleeps: no
other thread of its CPU runs meanwhile (`InKernel`, `MayRun`), while other CPUs
come in between any two steps. Idle, which reaps, tears down and respawns, runs
with interrupts on: any call of its CPU may come between two of its steps. A
process has a home CPU and its threads run only there.

**Setups.** A race often needs actors on given CPUs and a given mix of calls.
Modules with a constant `Setups` choose one of its elements in `Init` and keep
it in the variable `setup`: one run covers several small cases, and a theorem
about the module holds for all of them. The MC modules name the cases; those in
which a property fails are there too, under a heading of their own.

**IpcPort.** Variables are the arrays of the source (`s_table`, `s_freelist`,
`s_generation`, `s_recycle`), the contents of each struct (`port`) and per thread
its place, pointer and remembered (id, gen). Actions: `CreateRecycled` and
`CreateFromHeap` (`ipc_port_create` with either result of `port_struct_alloc`),
`Get`, `GetChecked`, `Generation`, `Put`, `Enqueue` (a message by a holder),
`DestroyUnlink` and `DestroyDrop` (the two halves of `ipc_port_destroy`),
`TeardownDrain`, `TeardownRecycle`, `TeardownReturn` (`port_teardown` and
`port_struct_free`). `Inc` and `Dec` are the saturating counter. Threads may be
preempted anywhere here: more than a system call allows, which safety can bear.

**IpcChannel.** One port, clients that send, post or notify, servers that are
threads of its owner. `SendGet` to `SendUnlink` are `ipc_send_sync` in order;
`SendExtract`/`SendHandoff` are the direct switch to a receiver of the same CPU.
`ReceiveTry` ... `ReceiveWake` are `receive_common`, `Notify*` is `ipc_notify`
(the unlocked state check, the bits, the two wakes), `WaitNotify*` is
`ipc_wait_notify`. `Answer` is `ipc_reply_staged`: the server's answer to what it
received (`Reply`), or a reply out of turn (`StrayReply`): of any thread to any
tid, early, late, twice or unasked, as `sys_reply` lets them. `strayed` remembers
the clients such a reply has hit. `Destroy*` is `ipc_port_destroy` with `ipc_wake_senders_for_port_ptr`. `Kill`, `CleanupThread`
and `ReleaseStack` are the end of a client asleep in its send, `OwnerExit` the
end of the owner, whose threads die before its port. `frames` says whose
`ipc_send_sync` stack frame exists; `s_pending`, `pending_senders` and `batch`
are the three places that keep pointers to it. Posts of threads and of the
kernel are the same steps; payloads and entry pools are left out (`SendRefused`,
`PostRefused` may always happen, as when no entry is available). A wake is one
step here; its parts are the subject of `WaitQueue`. The reference count is the
set `refs` plus the table's `slot_ref`; that counting is right is `IpcPort`'s
matter.

**WaitQueue.** The lists with `head`, `tail`, `wq_next`, `blocked_on`. Waiters
follow the pattern of `wait.h` over an abstract stock of items per queue
(messages, in `receive_common`); wakers add an item and wake one or all, in the
two steps the source takes (detach under the lock, unblock after it). The timer
drain is pop, generation check, read of `blocked_on`, removal, unblock. Between
two waits a waiter may be preempted: kernel threads use the queues as well.

**DeathWatch.** Processes create ports, register watches (`WatchBegin`,
`WatchGenCheck`, `WatchAdd`: the ownership check of the system call, then the
two halves of `deathwatch_add`), destroy ports (`Destroy`, `Fire`, `Post`) and
end (`Exit`, `CleanupOwner`, `CleanupWatcher`, the order of
`process_destroy_local`). `asked` and `posted` remember which watches returned 0
and which notices were handed to `ipc_post_kernel`, `due` the watches in the
table when a target died. A process is one thread; the notification code is not
distinguished, the entry itself is the notice.

**ProcessLife.** Agents are user threads and the idle thread of each CPU. A call
begins (`ExitBegin`, `KillBegin`, `WaitBegin`, `OomBegin`, `FaultBegin`,
`ThreadExitBegin`, `SpawnCreate`, `ThreadCreate`) and goes through the shared
steps: `Claim` and `Route` (`process_destroy`), `SetZombie`, `TakeOther`,
`Slay`, `Detach`, `Bury` (`thread_destroy`: begin the death, off timer and
queues, to the reaper), `Unlist`, `Arm` (`process_destroy_local`), `Finalize`, `Put`;
`DeferClaim` ... `Defer` (`process_destroy_deferred`); idle adds `TeardownPop`,
`ReapPop`, `ReapDetach`; `Migrate` is the donation of a process. `thread_count`
is the number of published threads, `refcount` the set of holders. `rights` of a
setup says which process may kill or wait for which, as parent or as driver, its
own included; the OOM killer may choose any. `self_killed` remembers the
processes killed by a thread of their own.

**EventGroup.** A record is the part of a waiter's state a waker may touch
(`linked`, `signaled`, `result`, `result_flags`). `Link` ... `Unlink` are
`event_group_wait`; `Apply`, `Mark` begin a pass of `wake_waiters`, `Collect`,
`Wake`, `WakeDone` repeat it batch by batch; `Free` ends a destroy. `Exit`,
`Scan`, `Reap` are the end of a process. The record of a call that has returned
is garbage: a wake through it may or may not hit a later wait of that thread.

**Services.** `Lookup`, `Dispatch`, `LookAgain` are `registry_wait`, `Install`
and `Unregister` write the table, `Drain`, `WakeWaiter`, `WakeParked`,
`WakeDone` are `drain_and_wake`. `Exit` ... `RequestRespawn` are the end of a
process; `SpawnAtBoot`, `BootFails`, `Park`, `CacheStore`, `Promote`, `Respawn`,
`RespawnFails` the kernel threads that create processes. A module waits
suspended until `Start`. A role is the clean name of a module, its file name up
to the dot, under which `s_primaries` keeps it (`cached`, at most `PrimaryMax`);
boot names the process after the file, a respawn after the slot, and `clean` is
the set of processes whose name is the clean one. A setup says which modules
have a file name without extension (`plain`).

Operators whose comment begins with "Slip" are wrong versions of the definition
that follows: they are not part of any specification and exist to show, one per
property, that the property would notice.

## 3. Runs

| Run | Instance | Shows |
|---|---|---|
| `port` | 2 threads, 3 structs, 2 ids, recycle stack of 1, 2 creates per id, the count freezes at 3 | the invariants of section 1 and the inductive `PortInv`, reuse only of ids nobody holds, refinement of `PortIncarnation`; ports become immortal when the count freezes, never freed under a holder; a destroyed id comes back |
| `waitqueue` | 2 waiters, 2 wakers, 2 queues on one CPU; one timed waiter with wakers and drain on other CPUs | `QueueInv`: lists, no link left, nobody stranded; `NoLostWakeup`, `ItemEndsWait`, `TimeoutEndsWait` |
| `channel_safety` | 2 clients, one on the owner's CPU, one on another, or both on either, 2 servers, two calls each, queue of 2, batch of 1; six mixes of send, nowait, post, notify, wait_notify, replies out of turn, kill, destroy, exit | `ChannelInv` (`WaiterIsKnown`, `PendingSlotsAlive`, `ListedFramesAlive`), `NobodySleepsOnWork`, `AnswerIsMine`: of the clients no reply out of turn has hit, whatever it does to the others |
| `channel_live` | 2 clients, 2 servers, one call each; send or post and notify, with destroy and exit, without replies out of turn | `ListedSendReturns`, `ServersLeave`, `NotifyArrives`, `OthersGiveBack` |
| `deathwatch_safety` | 2 processes, 2 ids, 2 incarnations, table of 2, batch of 1, queue of 1 | `WatchInv`: no watch twice, nothing left by a dead process; notices of the dead only; all due watches posted |
| `process_life` | 3 processes, 4 threads, 2 CPUs in eight cases: exit and kill on one CPU and on two, thread churn, wait against the OOM killer, faults, spawn, a process killed by its own thread or waited for by it | one finalize, at home, after the last thread; bodies reaped once; no PCB used after it is freed; `EndInv`: no end forgotten, no waiter of the dead left asleep; every end completed, two kinds apart that the properties name: a thread faulted, or killed its own process and lives on |
| `event_group` | 3 threads, 1 group, 2 bits, batch of 1, 2 calls each, in six cases | the event-group properties of section 1: `GroupInv` (`ListedFramesAlive`, `TimeoutIsFinal`), `NobodySleepsOnMatch`, `DeadGroupsAreEmpty`, `AnswerIsTrue`, `WaitEnds` |
| `services` | 3 processes, 2 names, table, batches and cache of 1, 2 calls each, in five cases | the registry properties of section 1: `ServiceInv` (`ListedFramesAlive`, `SuspendedIsKnown`, `GoneOwnNothing`), `NobodyWaitsForTheRegistered`, `OneOfARole`, `WaitReturns`, `ParkedStarts`, `CachedComesBack` |

Each module has one invariant, named `...Inv`, that joins its type invariant to
the parts that keep its records and lists sound. For ports it is inductive as it
stands; for the others section 4 names what has to be added.

Four runs end in a counterexample, each against a sentence of the repository
(quoted in `PROJECT.json` under `findings`):

| Run | What happens |
|---|---|
| `channel_destroy_race` | `SendReturns`: the port is destroyed, on another CPU, between the unlocked state check of a send (channel.c:355) and its enqueue (:401); destroy saw no pending sender, the sender sleeps for ever |
| `deathwatch_missed` | `WatchingIsTold`: the target dies between the generation check and the entry; add returned 0, no notice comes |
| `process_fault` | `LastReapFinalizes`: a faulting thread is marked DEAD by the handler (isr.c:163), nobody queues it for the reaper and `thread_begin_death` refuses it later; its process is never finalized |
| `services_respawn` | `PrimaryComesBack`: the process of a boot module is called after its file (`dobinterface.mdl`, kernel.c:454-461), its slot after the clean name (`dobinterface`, :487-504); the request at its end finds no slot (:409-422) and the service does not come back |

### Counterexamples

The modules show more of the kind. Each line names the property, the case (an
operator of the MC module to be given to `Setups`, or constants that differ from
the run) and what TLC then finds:

| Module, property | Case | What happens |
|---|---|---|
| IpcChannel, `DestroyTouchesTheLiving` | `SendAndDestroy` | destroy sets `reply_received` under the lock and touches the sender's `reply_wait` after it (channel.c:847); a sender awake on another CPU has returned |
| IpcChannel, `EveryAnswerIsMine` | `Strays` | any reply to a tid whose `s_pending` is set (channel.c:495) is taken for the answer to the call it is in: one that nobody asked for, or a late or second one to an earlier call |
| IpcChannel, `DestroyedIsReclaimed` | `SendAndExit` | a receiver asleep in `ipc_receive` is killed before the ports of its process are destroyed and never comes to `ipc_port_put` (channel.c:606-608): struct and id are lost, against port.c:345-347 |
| WaitQueue, `NoLostWakeup` | `ThreeCpus` | `wake_one` is spent on a waiter that has its item and is cancelling; another sleeps on an item (wait.c:98) |
| WaitQueue, `NobodyStranded` | `ThreeCpus` | `wake_all` follows a link its thread has overwritten (wait.c:125) |
| WaitQueue, `OneQueueAtMost` | `WakersApart` | a late unblock (wait.c:106) reaches the target's next wait: it runs while linked and enters a second queue |
| DeathWatch, `NoticeIsForTheOwner` | `deathwatch_safety` | the notify id is recycled before the post: another process gets the notice (port.c:132) |
| ProcessLife, `NobodyWaitsForTheDead` | `WaitAndExit` | exit and kill wake the waiters before the state is ZOMBIE (syscall.c:60, :1103; process.c:352): a waiter on another CPU looks in between and sleeps for ever |
| ProcessLife, `LastReapFinalizes` | `SelfKilling` | a driver kills its own pid: `thread_take_other_from_process` spares the caller (thread.c:401-424), `sys_kill` returns to user mode, and the end awaits a reap that nothing brings about |
| ProcessLife, `PcbOutlivesItsUsers` | `SpawnApart` | the parent writes `proc->state` (process.c:643) after the child ran and was reclaimed on another CPU |
| ProcessLife, `NoThreadOutlivesSpace` | `SpawnAndKill` | a process is killed by pid while it is being loaded; the spawn then creates its thread |
| EventGroup, `WakeTouchesTheLiving` | `TwoCpus` | a marked waiter that sees `w.signaled` (event_group.c:342, :353) returns without the lock; the wake at :99 follows, against :93-96 |
| EventGroup, `ListedFramesAlive` | `WaiterEnds` | a killed thread that waited on another process's group stays on its list |
| EventGroup, `NobodySleepsOnMatch` | `ResetClears`, `PulseClears` | a reset clears flags and wakes nobody (:256-274); a pulse of a set bit clears it, and the pass uses the high snapshot (:136-140) |
| EventGroup, `DeadGroupsAreEmpty` | `ResetAndEnd` | a reset between poison and free lets a waiter join a group about to be freed (:190-206) |
| Services, `ListedFramesAlive` | `ClientEnds` | a client killed in `registry_wait` leaves its record, on its stack, in `s_waiters`, even on one CPU |
| Services, `WakeTouchesTheLiving` | `TwoCpus` | a timed-out waiter returns between being collected and being woken (registry.c:174) |
| Services, `GoneOwnNothing` | `EarlyEnd` | a module killed between its creation and its parking is parked afterwards (process.c:688-699) |
| Services, `CachedComesBack` | `EarlyEnd` | a primary that dies before `is_primary` is set (kernel.c:395-396, 505-506) is not respawned |

The passing runs state what does hold next to these: listed sends return; wait
queues are right on one CPU and for a single timed wait across CPUs; a watch in
the table when the target dies is posted; answers are right for clients no reply
out of turn has hit; ends that began are completed, faults and self-killers
apart; cached primaries named like their slot come back; waits for names and
bits end while waiters are not killed.

Read in the code, without a run of their own: a waiter killed in `sys_wait`
keeps its reference for ever; `sys_kill` overwrites the exit code of a process
that has already exited; `sys_thread_exit` of the last thread leaves the process
undestroyed; a respawn that fails is not tried again (kernel.c:390-394), and a
primary that found no room in the cache is marked primary without one (:341-370,
505-506); a reply that comes before its sender has enqueued sets
`reply_received`, which the direct switch does not look at again and destroy
skips (channel.c:415-422, 818-825), so that the sender can sleep for ever; a waiter that arrives between a
pulse and its pass (event_group.c:142, :72) sees the edge it should not (:9-10).

**Bounds.** Two ids and three structs are the least for recycling to cross;
two threads allow a holder and a destroyer or creator at once, and with the
table's own the three references at which the count freezes; a count frozen
below its holders, and three actors at once, are left to the proofs. Queues, tables,
batches and the recycle stack have size 1 or 2 so that "full" and "one more
batch" happen. Two servers and two clients let a wake be taken by somebody else.
One call per client is enough for the races within a send, two for late answers
and stale records. Replies out of turn are combined with sends from other CPUs,
and with destroys and the direct switch on the owner's. One slot in the cache
makes a second primary find it full. Two CPUs suffice for every race of two actors; three are used
where waiter, waker and timer drain must be apart. `GenMax`, `MaxCalls`, the
`items`, `waits` and `ends` of the setups bound counters that the code does not
bound; generations stay below the 32-bit wrap, which the code ignores. Symmetry
is used only where a run checks safety. `CHECK_DEADLOCK FALSE` is set where the
bounded actors may come to the end of what they do.

**Fairness.** Weak fairness of each thread that is inside a call: nothing of its
CPU interrupts it, no critical section is unbounded, and the scheduler runs
every READY thread. Weak fairness of timers. Strong fairness of idle and of the
ends it carries out: calls come between its steps, but every CPU becomes idle
again and again (the kernel counts on it: reaping happens nowhere else). A
server answers what it received and comes back to receive
(`libdob/src/server.c`); nobody is obliged to call, destroy, kill or exit.
`DestroyedIdComesBack` assumes holders come to their put.

## 4. Proofs

`IpcPortProofs` proves, for every number of threads, structs, ids, recycle slots
and every saturation value above 1 (`PortAssumption`):

* `PortInvariant`: `Spec => []PortInv`, and from it `PortTypes`, `HeldPortSafe`,
  `TeardownSafe`, `IdsFreedOnce`, `RefcountsExact`, `RecycledEmpty`;
* `ReuseSafe`: an id gets a new generation only when no thread holds a struct
  that carries it (an action property);
* `PortsRefineIncarnations`: the component implements `PortIncarnation`.

The properties are not inductive alone. That a held pointer is allocated needs
the count to be exact; that the count is exact after a create needs the struct
taken from the recycle stack to be nobody's (`RecycleStack`) and an allocated
struct to be the only one of its id (`NewestIncarnation`); that a teardown is
exclusive needs the threads in `waking` to know that the table no longer names
their struct (`ThreadPlace`), and that the id they give back has no struct, no
second giver and no place in the free stack. `PortInv` is the conjunction of
these; it has one lemma per action, one step per conjunct the action disturbs.
`FreeStackHasRoom` is a pigeonhole: a free stack of distinct ids that misses one
has room for it. The refinement maps an id to live (the table names a struct),
free (on the stack) or dying, its holders to the threads whose pointer carries
it; each action is a step of the abstract module or a stutter.

The other six modules are proved in the same way: an inductive invariant that
TLC has checked first, on the instances of the runs, then one lemma per action
that keeps it. Every assumption on constants is an `ASSUME` of the component's
module and evaluated by its runs. Where a property holds in some setups only,
the theorem has the condition as a hypothesis on `setup`; cases of the passing
run satisfy it, and a case of the table of counterexamples that does not satisfy
it violates the property.

| Theorem | Property | Under |
|---|---|---|
| `LifeTypes`, `FinalizedAtMostOnce`, `TeardownStaysHome`, `BodiesReapedOnce` | `TypeOK`, `FinalizedOnce`, `TeardownAtHome`, `ReapedOnce` | |
| `NoThreadIsLeftBehind` | `NoThreadOutlivesSpace` | `KillsTheBorn` (not `SpawnAndKill`) |
| `NobodyUsesAFreedPcb` | `PcbOutlivesItsUsers` | `SpawnsAtHome` (not `SpawnApart`) |
| `EndsAreCarriedOut` | `EndInv` | `KillsTheBorn`, `WaitsInStep` (not `WaitAndExit`) |
| `WatchTable`, `NoticesAreTrue`, `NoWatchIsSkipped` | `WatchInv`, `NoticesSpeakOfTheDead`, `DueArePosted` | |
| `SendersAreKnown`, `AnswersAreMine`, `SleepersHaveNoWork` | `ChannelInv`, `AnswerIsMine`, `NobodySleepsOnWork` | |
| `AnswersAreTrue`, `TimeoutsAreFinal` | `AnswerIsTrue`, `TimeoutIsFinal` | |
| `ListedFramesLive` | `GroupInv` | `KeepsToItsOwn` (not `WaiterEnds`) |
| `EmptyWhenDead` | `DeadGroupsAreEmpty` | `EndsInOrder` (not `ResetAndEnd`) |
| `NobodyIsLeftOnMatch` | `NobodySleepsOnMatch` | `EndsInOrder`, `TakesOnlyFromSetters` (not `ResetClears`, `PulseClears`) |
| `RolesRunOnce`, `WaitersAreFound`, `SuspendedStaysKnown` | `OneOfARole`, `NobodyWaitsForTheRegistered`, `SuspendedIsKnown` | |
| `TheDeadOwnNothing` | `ServiceInv` | `WaitersStay`, `~setup.early` (not `ClientEnds`, `EarlyEnd`) |
| `QueuesStayLists`, `InOneQueue`, `NoWakeIsLost` | `QueueInv`, `OneQueueAtMost`, `NoLostWakeup` | `OneCpuOnly` (not `ThreeCpus`, `WakersApart`) |

**ProcessLife.** `LifeInv` (`TypeInv`, `Token`, `AtHome`, `Bodies`): a claimed
end has one carrier at a time, which is either an agent between its claim and
its hand-over, a place in one teardown queue, or the mark `awaiting_teardown`,
and none once it is finalized; the carrier that runs the end is on the home CPU,
which no longer changes once the end is claimed; a body in a reap list is DEAD,
of that CPU, there once, and nobody can begin its death again. `MoreInv` adds
which calls each process and thread can be in (`Births`, `Lives`, `Calls`), who
holds which reference (`Hands`, `Counts`) and who has the end of a process in
hand (`Owned`), with what a thread inside the end of its own process will do
when that is over: leave, or, having killed it, live on; then, per hypothesis, that a process being loaded has no threads
and nobody who may end it (`Loaders`, `Readiers`), that none is alive past
`thread_take_other_from_process` (`Spaces`), and that between the early wake of
exit and kill and the state ZOMBIE nobody comes to wait (`Zombies`, `Woken`,
`Waited`).

**DeathWatch.** `TableInv`: a watch being registered, listed or collected is of
an incarnation there has been; who destroys an id is alone in it and the id has
no owner; so what it collects is over, and stays over, since generations only
grow. `Dues`: a watch due is posted, in the batch, or still in the table while
the destroy will look again, or its watcher is dead.

**IpcChannel.** `SendInv`: the life of a `pending_reply_t` in its three places
(`Slots`); a request in the queue or with a server is the current one of its
sender (`Requests`) and is there once (`Once`), so an answer found by tid is an
answer to this call. A reply out of turn breaks this for the client it hits, for
good: the server may still hold that client's old request. So these parts are
stated of the clients outside `strayed`, and `AnswersAreMine` says that nothing
crosses over to them; `SendersAreKnown` and `SleepersHaveNoWork` hold of all. `SleepInv` counts: while a receiver sleeps, there are no
more messages than clients about to wake a receiver and receivers awake
(`Counted`). One message more per wake under way is all the queue allows; this is
why `wake_one` per message is enough. `Handoffs` says that a receiver taken off
the queue cannot run before the switch to it.

**EventGroup.** `Records`: a record is listed while nobody has decided it, a
decided one matches and is what the call returns, and a batch names calls that
are decided or over. The three conditional parts say that a process that ends
empties the lists of its groups before it is reaped (`OwnWaiters`), that a group
being destroyed stays closed (`DestroyedStaysClosed`), and that a match on a
list is ahead of some pass (`MatchesAreFound`).

**Services.** `Tokens`: a role is in one place, still to be booted, asked for
or held by a process until its end is over. `Where` ties places to the states of
processes; `Entries` and `Parkings` follow an end through its steps.

**WaitQueue.** A list of the source is described by a sequence: `Lists` says that
for each queue there is a sequence of distinct threads that `head`, `wq_next`,
`tail` and `blocked_on` spell out, `Held` the same for what each waker has
detached. That following `wq_next` from `head`, as the recursive functions of
`QueuesAreLists` and `Detached` do, visits that sequence is an induction; it is
done by the least-number principle (`Least`, from `WFMin`), which needs no
operator as a parameter: the sequence itself is the witness that the function
exists, and the least place of disagreement shows that it is the only one.
`Covered` is the argument that no wake is lost: while somebody sleeps in a
queue, there is a `wake_all` to come, or no more items than `wake_one` calls
under way and waiters on their way to look. That a waiter cancels only as the
last of its queue (`Spots`) keeps the removal in the middle of a list, and a
wake spent on one that is cancelling, out of the one-CPU case; both happen
in the cases the hypothesis excludes.

**Only model-checked.** Liveness, which rests on fairness and ENABLED:
`DestroyedIdComesBack`, `ItemEndsWait`, `TimeoutEndsWait`, `ListedSendReturns`,
`ServersLeave`, `NotifyArrives`, `OthersGiveBack`, `DestroyCompletes`,
`WaitEnds`, `WaitReturns`, `ParkedStarts`, `CachedComesBack`. Of safety, the
timed waits of `WaitQueue` (case `TimedOnce`): there the timer drain and a waker
race for one waiter; with more waits across CPUs the properties fail.

## 5. Not modelled

Within the kernel: payload ownership and the entry pools of `channel.c`; tid
reuse; run
queues, priorities and quanta; the timer heap; memory management. Mutex,
semaphore and rwlock: the only mutex, `vm_lock`, is taken in system calls on one
CPU that do not sleep while they hold it, so its waits never happen; the other
two have no caller. Futexes: `futex_wake` takes any waiter of the process that
hangs in the same bucket (futex.c:131), whatever its address; the queues below
are `WaitQueue`'s. Segments of shared memory are never destroyed (shm.c): there
is no life cycle to check.

Outside: of the repository's 150 000 lines more than 140 000 are drivers, the
file system, the window server, document and font libraries and programs. A
driver's state machine is half of a conversation whose other half is a device
that is not in the repository; libraries and programs are sequential code over
formats, widgets and layout, whose data is what they are about. Neither can be
brought to a faithful model of small size, and no sentence of this project
speaks of them. `PROJECT.json` gives the reason for each part.

## 6. Plan

1. Proofs: `WaitQueue` with a single timed waiter and the drain on another CPU
   (`TimedOnce` for any placement); the types of `WaitQueue` in every setup.
2. Entry pools and payload ownership; a second port in `IpcChannel`.
3. Run queues: unblock as the source's test-and-set, remote wake and the idle
   barrier; the timer heap.
