---------------------------- MODULE IpcChannel -----------------------------
(***************************************************************************)
(* Messages over one port: kernel/ipc/channel.c, with the wakes of         *)
(* ipc_port_destroy (port.c) and the IPC side of a thread's death          *)
(* (thread_destroy, thread_reap_one).                                      *)
(*                                                                         *)
(* One step is one critical section (port->lock, the per-TID pending lock, *)
(* s_global_lock) or one wait-queue call; a wake is a single step here,    *)
(* WaitQueue has its parts.  A sender's pending_reply_t lives in the frame *)
(* of its ipc_send_sync call; pointers to it are kept by s_pending, by the *)
(* port's pending_senders and by destroy's batch.                          *)
(***************************************************************************)
EXTENDS Naturals, Sequences, FiniteSets

CONSTANTS Clients, Servers,  \* threads that send; threads of the port's owner
          None,
          QueueMax,          \* PORT_QUEUE_MAX
          WakeBatch,         \* WAKE_BATCH
          Setups,            \* where threads live, what they do
          MaxCalls           \* bound: calls made by each client

Threads == Clients \cup Servers

ASSUME ChannelAssumption ==
    /\ Clients \cap Servers = {} /\ None \notin Threads /\ IsFiniteSet(Threads)
    /\ QueueMax \in Nat /\ WakeBatch \in Nat \ {0} /\ MaxCalls \in Nat
    /\ \A u \in Setups :
          /\ DOMAIN u.home = Threads           \* thread_t.home_cpu, one per process
          /\ \A s, t \in Servers : u.home[s] = u.home[t]
          /\ u.ops \subseteq {"send", "post", "notify", "wait_notify", "nowait", "destroy",
                              "kill", "exit", "stray"}

VARIABLES in_table, closed,          \* s_table[id] # NULL; state = PORT_CLOSED
          msg_queue, notify_bits,
          pending_senders,           \* clients linked in the port's list
          recv_waiters, notify_waiters,
          refs,                      \* threads that hold a reference
          slot_ref,                  \* the table's own reference
          s_pending,                 \* clients with s_pending[tid] # NULL
          pend,                      \* contents of each pending_reply_t
          reply_wait,                \* clients queued in their own reply_wait
          frames,                    \* clients whose ipc_send_sync frame exists
          state, pc,                 \* per thread
          calls, result,             \* per client
          receiver,                  \* per client: the server it extracted
          serving,                   \* per server: the request it received last
          strayed,                   \* history: clients hit by a reply out of turn
          dpc, has_pending, batch,   \* ipc_port_destroy
          setup                      \* the element of Setups at work

queues == <<msg_queue, notify_bits, recv_waiters, notify_waiters>>
life == <<in_table, closed, slot_ref, dpc, has_pending>>
sender == <<s_pending, pend, reply_wait, frames, pending_senders, receiver>>
vars == <<life, queues, refs, sender, state, pc, calls, result, serving, batch, strayed, setup>>

home == setup.home
Ops == setup.ops

Signal == [kind |-> "signal", from |-> None, call |-> 0]
Request(c) == [kind |-> "request", from |-> c, call |-> calls[c]]
Messages == [kind : {"signal", "request"}, from : Clients \cup {None}, call : 0 .. MaxCalls]
Fresh == [received |-> FALSE, dead |-> FALSE, answer |-> 0]

ClientPlaces == {"idle", "dead", "s_check", "s_enqueue", "s_extract", "s_handoff", "s_wait",
                 "s_prepare", "s_recheck", "s_asleep", "s_unpend", "s_unlink", "p_check",
                 "p_enqueue", "p_wake", "n_check", "n_set", "n_wake", "n_wake_recv"}
ServerPlaces == {"idle", "reply", "r_try", "r_prepare", "r_recheck", "r_asleep", "t_try",
                 "w_try", "w_prepare", "w_recheck", "w_asleep", "dead"}

TypeOK ==
    /\ in_table \in BOOLEAN /\ closed \in BOOLEAN /\ slot_ref \in BOOLEAN
    /\ msg_queue \in Seq(Messages) /\ Len(msg_queue) <= QueueMax
    /\ notify_bits \in BOOLEAN
    /\ recv_waiters \in Seq(Servers) /\ notify_waiters \in Seq(Servers)
    /\ refs \subseteq Threads
    /\ pending_senders \subseteq Clients /\ s_pending \subseteq Clients
    /\ reply_wait \subseteq Clients /\ frames \subseteq Clients /\ batch \subseteq Clients
    /\ pend \in [Clients -> [received : BOOLEAN, dead : BOOLEAN, answer : 0 .. MaxCalls]]
    /\ state \in [Threads -> {"RUNNING", "READY", "BLOCKED", "DEAD"}]
    /\ \A c \in Clients : pc[c] \in ClientPlaces
    /\ \A s \in Servers : pc[s] \in ServerPlaces
    /\ calls \in [Clients -> 0 .. MaxCalls]
    /\ result \in [Clients -> {"none", "OK", "ERR_DEAD", "ERR"}]
    /\ receiver \in [Clients -> Servers \cup {None}]
    /\ serving \in [Servers -> Messages]
    /\ strayed \subseteq Clients /\ setup \in Setups
    /\ dpc \in {"idle", "exiting", "wake_recv", "wake_notify", "mark", "wake_senders", "drop", "done"}
    /\ has_pending \in BOOLEAN

Init ==
    /\ in_table = TRUE /\ closed = FALSE /\ slot_ref = TRUE
    /\ msg_queue = <<>> /\ notify_bits = FALSE
    /\ recv_waiters = <<>> /\ notify_waiters = <<>>
    /\ refs = {} /\ pending_senders = {} /\ s_pending = {} /\ reply_wait = {}
    /\ frames = {} /\ batch = {}
    /\ pend = [c \in Clients |-> Fresh]
    /\ state = [t \in Threads |-> "RUNNING"] /\ pc = [t \in Threads |-> "idle"]
    /\ calls = [c \in Clients |-> 0] /\ result = [c \in Clients |-> "none"]
    /\ receiver = [c \in Clients |-> None]
    /\ serving = [s \in Servers |-> Signal]
    /\ dpc = "idle" /\ has_pending = FALSE /\ strayed = {} /\ setup \in Setups

----------------------------------------------------------------------------
(* A system call enters through an interrupt gate (syscall.c:1947) and runs *)
(* with interrupts off until it returns or sleeps: until then no other      *)
(* thread of its CPU runs.  Other CPUs come in between any two steps.       *)
InKernel(t) == pc[t] \notin {"idle", "dead", "reply", "s_asleep", "r_asleep", "w_asleep"}
CpuFree(cpu, t) == \A u \in Threads \ {t} : home[u] = cpu => ~InKernel(u)
Destroying(cpu) ==          \* ipc_port_destroy as a system call of a server
    /\ dpc \notin {"idle", "exiting", "done"}
    /\ \E s \in Servers : home[s] = cpu /\ state[s] # "DEAD"
MayRun(t) == CpuFree(home[t], t) /\ ~Destroying(home[t])
Goto(t, from, to) ==
    pc[t] = from /\ MayRun(t) /\ pc' = [pc EXCEPT ![t] = to] /\ UNCHANGED <<strayed, setup>>

(* scheduler_unblock of every thread of a set *)
Unblock(ts) ==
    state' = [t \in Threads |-> IF t \in ts /\ state[t] = "BLOCKED" THEN "READY"
                                ELSE state[t]]
Elements(q) == {q[i] : i \in DOMAIN q}
Drop(q, at) == [k \in 1 .. Len(q) - 1 |-> q[IF k < at THEN k ELSE k + 1]]
Without(q, t) == IF t \in Elements(q) THEN Drop(q, CHOOSE i \in DOMAIN q : q[i] = t) ELSE q

(* ipc_port_get at the start of a call; ipc_port_put at its end *)
Get(t) == in_table /\ ~closed /\ refs' = refs \cup {t}
Put(t) == refs' = refs \ {t}

(* wait_queue_wake_one(&port->recv_waiters) *)
WakeReceiver ==
    IF recv_waiters = <<>> THEN UNCHANGED <<recv_waiters, state>>
    ELSE recv_waiters' = Tail(recv_waiters) /\ Unblock({Head(recv_waiters)})

BeginCall(c, op, place) ==
    /\ op \in Ops /\ calls[c] < MaxCalls /\ Goto(c, "idle", place)
    /\ Get(c) /\ calls' = [calls EXCEPT ![c] = @ + 1]
    /\ UNCHANGED <<life, queues, sender, state, result, serving, batch>>

EndCall(c, from, ret) ==
    /\ Goto(c, from, "idle") /\ Put(c) /\ result' = [result EXCEPT ![c] = ret]

----------------------------------------------------------------------------
(* ipc_send_sync *)
SendGet(c) == BeginCall(c, "send", "s_check")

(* The state is read without the lock.  pending is initialised and stored  *)
(* in s_pending; the entry may not be available.                           *)
SendCheck(c) ==
    /\ ~closed /\ Goto(c, "s_check", "s_enqueue")
    /\ pend' = [pend EXCEPT ![c] = Fresh]
    /\ frames' = frames \cup {c} /\ s_pending' = s_pending \cup {c}
    /\ UNCHANGED <<life, queues, refs, reply_wait, pending_senders, receiver, state, calls,
                   result, serving, batch>>

SendRefused(c) ==
    /\ EndCall(c, "s_check", "ERR")     \* IPC_ERR_NO_PORT, or IPC_ERR_NO_MEMORY
    /\ UNCHANGED <<life, queues, sender, state, calls, serving, batch>>

SendEnqueue(c) ==
    /\ Len(msg_queue) < QueueMax /\ Goto(c, "s_enqueue", "s_extract")
    /\ msg_queue' = Append(msg_queue, Request(c))
    /\ pending_senders' = pending_senders \cup {c}
    /\ UNCHANGED <<life, notify_bits, recv_waiters, notify_waiters, refs, s_pending, pend,
                   reply_wait, frames, receiver, state, calls, result, serving, batch>>

SendFull(c) ==
    /\ Len(msg_queue) >= QueueMax /\ EndCall(c, "s_enqueue", "ERR")
    /\ s_pending' = s_pending \ {c} /\ frames' = frames \ {c}
    /\ UNCHANGED <<life, queues, pend, reply_wait, pending_senders, receiver, state, calls,
                   serving, batch>>

(* wait_queue_extract_one(&port->recv_waiters): a receiver of our CPU is   *)
(* switched to directly, in the next step; any other is unblocked.         *)
SendExtract(c) ==
    LET local == recv_waiters # <<>> /\ home[Head(recv_waiters)] = home[c] IN
    /\ Goto(c, "s_extract", IF local THEN "s_handoff" ELSE "s_wait")
    /\ IF local
       THEN /\ recv_waiters' = Tail(recv_waiters)
            /\ receiver' = [receiver EXCEPT ![c] = Head(recv_waiters)]
            /\ UNCHANGED state
       ELSE WakeReceiver /\ UNCHANGED receiver
    /\ UNCHANGED <<life, msg_queue, notify_bits, notify_waiters, refs, s_pending, pend,
                   reply_wait, frames, pending_senders, calls, result, serving, batch>>

(* wait_prepare and scheduler_yield_to, with interrupts off: there is no   *)
(* second look at reply_received.                                          *)
SendHandoff(c) ==
    /\ Goto(c, "s_handoff", "s_asleep")
    /\ reply_wait' = reply_wait \cup {c}
    /\ state' = [state EXCEPT ![c] = "BLOCKED",
                              ![receiver[c]] = IF @ = "BLOCKED" THEN "READY" ELSE @]
    /\ receiver' = [receiver EXCEPT ![c] = None]
    /\ UNCHANGED <<life, queues, refs, s_pending, pend, frames, pending_senders, calls,
                   result, serving, batch>>

(* while (!reply_received) { wait_prepare; re-check; wait_cancel or yield } *)
SendWait(c) ==
    /\ Goto(c, "s_wait", IF pend[c].received THEN "s_unpend" ELSE "s_prepare")
    /\ UNCHANGED <<life, queues, refs, sender, state, calls, result, serving, batch>>

SendPrepare(c) ==
    /\ Goto(c, "s_prepare", "s_recheck")
    /\ reply_wait' = reply_wait \cup {c} /\ state' = [state EXCEPT ![c] = "BLOCKED"]
    /\ UNCHANGED <<life, queues, refs, s_pending, pend, frames, pending_senders, receiver,
                   calls, result, serving, batch>>

(* Slip: no re-check after wait_prepare.                                   *)
SendRecheckSkipped(c) ==
    /\ Goto(c, "s_recheck", "s_asleep")
    /\ UNCHANGED <<life, queues, refs, sender, state, calls, result, serving, batch>>

SendRecheck(c) ==
    /\ IF pend[c].received
       THEN /\ Goto(c, "s_recheck", "s_unpend")
            /\ reply_wait' = reply_wait \ {c}
            /\ state' = [state EXCEPT ![c] = "RUNNING"]
       ELSE Goto(c, "s_recheck", "s_asleep") /\ UNCHANGED <<reply_wait, state>>
    /\ UNCHANGED <<life, queues, refs, s_pending, pend, frames, pending_senders, receiver,
                   calls, result, serving, batch>>

SendWake(c) ==
    /\ state[c] = "READY" /\ Goto(c, "s_asleep", "s_wait")
    /\ state' = [state EXCEPT ![c] = "RUNNING"]
    /\ UNCHANGED <<life, queues, refs, sender, calls, result, serving, batch>>

(* s_pending[tid] = NULL under the per-TID lock *)
SendUnpend(c) ==
    /\ Goto(c, "s_unpend", "s_unlink")
    /\ s_pending' = s_pending \ {c}
    /\ UNCHANGED <<life, queues, refs, pend, reply_wait, frames, pending_senders, receiver,
                   state, calls, result, serving, batch>>

(* Slip: the frame is left while the port still lists it.                  *)
SendUnlinkForgotten(c) ==
    /\ EndCall(c, "s_unlink", IF pend[c].dead THEN "ERR_DEAD" ELSE "OK")
    /\ frames' = frames \ {c}
    /\ UNCHANGED <<life, queues, s_pending, pend, reply_wait, receiver, state,
                   calls, serving, batch, pending_senders>>

(* Out of pending_senders under port->lock, unless the port died and       *)
(* destroy has already unlinked us; put; return.                           *)
SendUnlink(c) ==
    /\ EndCall(c, "s_unlink", IF pend[c].dead THEN "ERR_DEAD" ELSE "OK")
    /\ pending_senders' = IF pend[c].dead THEN pending_senders ELSE pending_senders \ {c}
    /\ frames' = frames \ {c}
    /\ UNCHANGED <<life, queues, s_pending, pend, reply_wait, receiver, state, calls,
                   serving, batch>>

----------------------------------------------------------------------------
(* ipc_post and ipc_post_kernel: state check, enqueue_async, put.          *)
PostGet(c) == BeginCall(c, "post", "p_check")

PostCheck(c) ==
    /\ ~closed /\ Goto(c, "p_check", "p_enqueue")
    /\ UNCHANGED <<life, queues, refs, sender, state, calls, result, serving, batch>>

PostRefused(c) ==
    /\ EndCall(c, "p_check", "ERR")
    /\ UNCHANGED <<life, queues, sender, state, calls, serving, batch>>

PostEnqueue(c) ==
    /\ Len(msg_queue) < QueueMax /\ Goto(c, "p_enqueue", "p_wake")
    /\ msg_queue' = Append(msg_queue, Signal)
    /\ UNCHANGED <<life, notify_bits, recv_waiters, notify_waiters, refs, sender, state,
                   calls, result, serving, batch>>

PostFull(c) ==
    /\ Len(msg_queue) >= QueueMax /\ EndCall(c, "p_enqueue", "ERR")
    /\ UNCHANGED <<life, queues, sender, state, calls, serving, batch>>

PostWake(c) ==
    /\ EndCall(c, "p_wake", "OK") /\ WakeReceiver
    /\ UNCHANGED <<life, msg_queue, notify_bits, notify_waiters, sender, calls, serving, batch>>

----------------------------------------------------------------------------
(* ipc_notify: look at the state without the lock, set the bits under it,  *)
(* wake everybody who may want them.                                       *)
NotifyGet(c) == BeginCall(c, "notify", "n_check")

NotifyCheck(c) ==
    /\ ~closed /\ Goto(c, "n_check", "n_set")
    /\ UNCHANGED <<life, queues, refs, sender, state, calls, result, serving, batch>>

NotifySet(c) ==
    /\ Goto(c, "n_set", "n_wake") /\ notify_bits' = TRUE
    /\ UNCHANGED <<life, msg_queue, recv_waiters, notify_waiters, refs, sender, state,
                   calls, result, serving, batch>>

(* Slip: returns at once, without the put of the common exit.              *)
NotifyRefusedNoPut(c) ==
    /\ closed /\ Goto(c, "n_check", "idle") /\ result' = [result EXCEPT ![c] = "ERR"]
    /\ UNCHANGED <<life, queues, refs, sender, state, calls, serving, batch>>

NotifyRefused(c) ==
    /\ closed /\ EndCall(c, "n_check", "ERR")
    /\ UNCHANGED <<life, queues, sender, state, calls, serving, batch>>

NotifyWake(c) ==
    /\ Goto(c, "n_wake", "n_wake_recv")
    /\ Unblock(Elements(notify_waiters)) /\ notify_waiters' = <<>>
    /\ UNCHANGED <<life, msg_queue, notify_bits, recv_waiters, refs, sender, calls, result,
                   serving, batch>>

(* Slip: only the notify waiters are woken.                                *)
NotifyWakeRecvForgotten(c) ==
    /\ EndCall(c, "n_wake_recv", "OK")
    /\ UNCHANGED <<life, queues, sender, state, calls, serving, batch>>

NotifyWakeRecv(c) ==
    /\ EndCall(c, "n_wake_recv", "OK")
    /\ Unblock(Elements(recv_waiters)) /\ recv_waiters' = <<>>
    /\ UNCHANGED <<life, msg_queue, notify_bits, notify_waiters, sender, calls, serving, batch>>

----------------------------------------------------------------------------
(* ipc_receive and ipc_receive_nowait (receive_common), ipc_wait_notify:   *)
(* the owner's threads.                                                    *)
ServerGet(s, op, place) ==
    /\ op \in Ops \cup {"receive"} /\ Goto(s, "idle", place) /\ Get(s)
    /\ UNCHANGED <<life, queues, sender, state, calls, result, serving, batch>>

ReceiveGet(s) == ServerGet(s, "receive", "r_try")
NowaitGet(s) == ServerGet(s, "nowait", "t_try")
WaitNotifyGet(s) == ServerGet(s, "wait_notify", "w_try")

Empty == msg_queue = <<>> /\ ~notify_bits

(* Slip: the message is read but stays at the head of the queue.           *)
ConsumeKeeps(s) ==
    \/ /\ msg_queue # <<>> /\ Head(msg_queue).kind = "request"
       /\ serving' = [serving EXCEPT ![s] = Head(msg_queue)]
       /\ UNCHANGED <<msg_queue, notify_bits>>
    \/ /\ msg_queue # <<>> /\ Head(msg_queue).kind = "signal"
       /\ msg_queue' = Tail(msg_queue) /\ UNCHANGED <<serving, notify_bits>>
    \/ /\ msg_queue = <<>> /\ notify_bits
       /\ notify_bits' = FALSE /\ UNCHANGED <<msg_queue, serving>>
    \/ Empty /\ closed /\ UNCHANGED <<msg_queue, notify_bits, serving>>

(* try_consume, when it returns something: the oldest message; else the    *)
(* notification bits; else IPC_ERR_DEAD.                                   *)
Consume(s) ==
    \/ /\ msg_queue # <<>> /\ msg_queue' = Tail(msg_queue)
       /\ serving' = [serving EXCEPT ![s] = Head(msg_queue)]
       /\ UNCHANGED notify_bits
    \/ /\ msg_queue = <<>> /\ notify_bits
       /\ notify_bits' = FALSE /\ UNCHANGED <<msg_queue, serving>>
    \/ Empty /\ closed /\ UNCHANGED <<msg_queue, notify_bits, serving>>

(* The call returns; a request is to be answered.                          *)
Return(s, from) ==
    /\ Consume(s) /\ Put(s)
    /\ Goto(s, from, IF msg_queue # <<>> /\ Head(msg_queue).kind = "request"
                     THEN "reply" ELSE "idle")

ReceiveTry(s) ==
    /\ \/ Return(s, "r_try")
       \/ /\ Empty /\ ~closed /\ Goto(s, "r_try", "r_prepare")
          /\ UNCHANGED <<msg_queue, notify_bits, serving, refs>>
    /\ UNCHANGED <<life, recv_waiters, notify_waiters, sender, state, calls, result, batch>>

ReceiveNowait(s) ==
    /\ \/ Return(s, "t_try")
       \/ /\ Empty /\ ~closed /\ Goto(s, "t_try", "idle") /\ Put(s)
          /\ UNCHANGED <<msg_queue, notify_bits, serving>>
    /\ UNCHANGED <<life, recv_waiters, notify_waiters, sender, state, calls, result, batch>>

ReceivePrepare(s) ==
    /\ Goto(s, "r_prepare", "r_recheck")
    /\ recv_waiters' = Append(recv_waiters, s) /\ state' = [state EXCEPT ![s] = "BLOCKED"]
    /\ UNCHANGED <<life, msg_queue, notify_bits, notify_waiters, refs, sender, calls,
                   result, serving, batch>>

(* Slip: the receiver goes to sleep on what it saw before wait_prepare.    *)
ReceiveRecheckSkipped(s) ==
    /\ Goto(s, "r_recheck", "r_asleep")
    /\ UNCHANGED <<life, queues, refs, sender, state, calls, result, serving, batch>>

ReceiveRecheck(s) ==
    /\ \/ /\ Return(s, "r_recheck")
          /\ recv_waiters' = Without(recv_waiters, s)
          /\ state' = [state EXCEPT ![s] = "RUNNING"]
       \/ /\ Empty /\ ~closed /\ Goto(s, "r_recheck", "r_asleep")
          /\ UNCHANGED <<msg_queue, notify_bits, recv_waiters, serving, refs, state>>
    /\ UNCHANGED <<life, notify_waiters, sender, calls, result, batch>>

ReceiveWake(s) ==
    /\ state[s] = "READY" /\ Goto(s, "r_asleep", "r_try")
    /\ state' = [state EXCEPT ![s] = "RUNNING"]
    /\ UNCHANGED <<life, queues, refs, sender, calls, result, serving, batch>>

WaitNotifyTry(s) ==
    /\ IF notify_bits \/ closed
       THEN Goto(s, "w_try", "idle") /\ notify_bits' = FALSE /\ Put(s)
       ELSE Goto(s, "w_try", "w_prepare") /\ UNCHANGED <<notify_bits, refs>>
    /\ UNCHANGED <<life, msg_queue, recv_waiters, notify_waiters, sender, state, calls,
                   result, serving, batch>>

WaitNotifyPrepare(s) ==
    /\ Goto(s, "w_prepare", "w_recheck")
    /\ notify_waiters' = Append(notify_waiters, s)
    /\ state' = [state EXCEPT ![s] = "BLOCKED"]
    /\ UNCHANGED <<life, msg_queue, notify_bits, recv_waiters, refs, sender, calls, result,
                   serving, batch>>

WaitNotifyRecheck(s) ==
    /\ IF notify_bits \/ closed
       THEN /\ Goto(s, "w_recheck", "idle") /\ notify_bits' = FALSE /\ Put(s)
            /\ notify_waiters' = Without(notify_waiters, s)
            /\ state' = [state EXCEPT ![s] = "RUNNING"]
       ELSE Goto(s, "w_recheck", "w_asleep")
            /\ UNCHANGED <<notify_bits, refs, notify_waiters, state>>
    /\ UNCHANGED <<life, msg_queue, recv_waiters, sender, calls, result, serving, batch>>

WaitNotifyWake(s) ==
    /\ state[s] = "READY" /\ Goto(s, "w_asleep", "w_try")
    /\ state' = [state EXCEPT ![s] = "RUNNING"]
    /\ UNCHANGED <<life, queues, refs, sender, calls, result, serving, batch>>

----------------------------------------------------------------------------
(* ipc_reply_staged, under the per-TID lock of the sender: whatever call   *)
(* s_pending holds for that tid gets the answer k (the number of the       *)
(* request it belongs to, 0 for none), and is resumed if it is asleep.     *)
Answer(c, k) ==
    IF c \in s_pending
    THEN /\ pend' = [pend EXCEPT ![c].received = TRUE, ![c].answer = k]
         /\ reply_wait' = reply_wait \ {c} /\ Unblock({c} \cap reply_wait)
    ELSE UNCHANGED <<pend, reply_wait, state>>

(* A server answers what it has received.                                  *)
Reply(s) ==
    /\ Goto(s, "reply", "idle") /\ Answer(serving[s].from, serving[s].call)
    /\ UNCHANGED <<life, queues, refs, s_pending, frames, pending_senders, receiver, calls,
                   result, serving, batch>>

(* sys_reply asks nobody what he has received: any thread may reply to any *)
(* tid, a server also a second time or before its proper answer.  Where    *)
(* there is no slot nothing happens.                                       *)
StrayReply(t, c) ==
    /\ "stray" \in Ops /\ pc[t] \in {"idle", "reply"} /\ MayRun(t) /\ c \in s_pending
    /\ Answer(c, IF t \in Servers /\ serving[t].from = c THEN serving[t].call ELSE 0)
    /\ strayed' = strayed \cup {c}
    /\ UNCHANGED <<life, queues, refs, s_pending, frames, pending_senders, receiver, pc, calls,
                   result, serving, batch, setup>>

----------------------------------------------------------------------------
(* ipc_port_destroy and ipc_wake_senders_for_port_ptr, on the owner's CPU: *)
(* a system call of a server, or process_destroy_local at the owner's end, *)
(* which other calls may preempt.                                          *)
Destroyer(from, to) ==
    /\ dpc = from /\ dpc' = to /\ UNCHANGED <<strayed, setup>>
    /\ \A s \in Servers : CpuFree(home[s], None)

(* thread_kill_others_of, at the end of the owner: its threads are in user *)
(* mode or asleep, wait_queue_remove_thread takes them off their queues.   *)
OwnerExit ==
    /\ "exit" \in Ops /\ Destroyer("idle", "exiting")
    /\ pc' = [t \in Threads |-> IF t \in Servers THEN "dead" ELSE pc[t]]
    /\ state' = [t \in Threads |-> IF t \in Servers THEN "DEAD" ELSE state[t]]
    /\ recv_waiters' = <<>> /\ notify_waiters' = <<>>
    /\ UNCHANGED <<in_table, closed, slot_ref, has_pending, msg_queue, notify_bits, refs, sender,
                   calls, result, serving, batch>>

DestroyUnlink ==
    /\ \/ /\ "destroy" \in Ops /\ Destroyer("idle", "wake_recv")
          /\ \E s \in Servers : pc[s] \in {"idle", "reply"}
       \/ Destroyer("exiting", "wake_recv")
    /\ closed' = TRUE /\ in_table' = FALSE
    /\ has_pending' = (pending_senders # {})
    /\ UNCHANGED <<slot_ref, queues, refs, sender, state, pc, calls, result, serving, batch>>

(* Slip: the receivers are not woken.                                      *)
DestroyWakeRecvForgotten ==
    /\ Destroyer("wake_recv", "wake_notify")
    /\ UNCHANGED <<in_table, closed, slot_ref, has_pending, queues, refs, sender, state, pc,
                   calls, result, serving, batch>>

DestroyWakeRecv ==
    /\ Destroyer("wake_recv", "wake_notify")
    /\ Unblock(Elements(recv_waiters)) /\ recv_waiters' = <<>>
    /\ UNCHANGED <<in_table, closed, slot_ref, has_pending, msg_queue, notify_bits,
                   notify_waiters, refs, sender, pc, calls, result, serving, batch>>

DestroyWakeNotify ==
    /\ Destroyer("wake_notify", IF has_pending THEN "mark" ELSE "drop")
    /\ Unblock(Elements(notify_waiters)) /\ notify_waiters' = <<>>
    /\ UNCHANGED <<in_table, closed, slot_ref, has_pending, msg_queue, notify_bits,
                   recv_waiters, refs, sender, pc, calls, result, serving, batch>>

(* Under port->lock: up to WAKE_BATCH unanswered senders are marked dead   *)
(* and unlinked.                                                           *)
DestroyMark ==
    LET waiting == {c \in pending_senders : ~pend[c].received}
        n == IF Cardinality(waiting) < WakeBatch THEN Cardinality(waiting) ELSE WakeBatch
    IN /\ Destroyer("mark", IF n = 0 THEN "drop" ELSE "wake_senders")
       /\ \E b \in SUBSET waiting :
            /\ Cardinality(b) = n /\ batch' = b
            /\ pend' = [c \in Clients |-> IF c \in b
                            THEN [pend[c] EXCEPT !.dead = TRUE, !.received = TRUE]
                            ELSE pend[c]]
            /\ pending_senders' = pending_senders \ b
       /\ UNCHANGED <<in_table, closed, slot_ref, has_pending, queues, refs, s_pending,
                      reply_wait, frames, receiver, state, pc, calls, result, serving>>

(* Outside the lock: wake_all of each one's reply_wait.                    *)
DestroyWakeSenders ==
    /\ Destroyer("wake_senders", IF Cardinality(batch) < WakeBatch THEN "drop" ELSE "mark")
    /\ Unblock(batch \cap reply_wait) /\ reply_wait' = reply_wait \ batch
    /\ batch' = {}
    /\ UNCHANGED <<in_table, closed, slot_ref, has_pending, queues, refs, s_pending, pend,
                   frames, pending_senders, receiver, pc, calls, result, serving>>

DestroyDrop ==
    /\ Destroyer("drop", "done") /\ slot_ref' = FALSE
    /\ UNCHANGED <<in_table, closed, has_pending, queues, refs, sender, state, pc, calls,
                   result, serving, batch>>

----------------------------------------------------------------------------
(* The client's process ends, on the client's own CPU: the client is       *)
(* asleep in its call.  thread_destroy takes it off its wait queue; the    *)
(* reaper (idle, same CPU) then runs ipc_cleanup_thread and frees the      *)
(* stack.  A dead call never comes back to its ipc_port_put.               *)
Kill(c) ==
    /\ "kill" \in Ops /\ Goto(c, "s_asleep", "dead")
    /\ state' = [state EXCEPT ![c] = "DEAD"]
    /\ reply_wait' = reply_wait \ {c}
    /\ UNCHANGED <<life, queues, refs, s_pending, pend, frames, pending_senders, receiver,
                   calls, result, serving, batch>>

Reaper(c) == pc[c] = "dead" /\ MayRun(c) /\ UNCHANGED <<pc, strayed, setup>>

(* ipc_cleanup_thread: under the per-TID lock, slot to NULL, pending       *)
(* marked; unlinked from the port only if the id still finds it.           *)
CleanupThread(c) ==
    /\ Reaper(c) /\ c \in s_pending
    /\ s_pending' = s_pending \ {c}
    /\ pend' = [pend EXCEPT ![c].dead = TRUE, ![c].received = TRUE]
    /\ pending_senders' = IF in_table THEN pending_senders \ {c} ELSE pending_senders
    /\ UNCHANGED <<life, queues, refs, reply_wait, frames, receiver, state, calls,
                   result, serving, batch>>

ReleaseStack(c) ==
    /\ Reaper(c) /\ c \notin s_pending /\ c \in frames
    /\ frames' = frames \ {c}
    /\ UNCHANGED <<life, queues, refs, s_pending, pend, reply_wait, pending_senders,
                   receiver, state, calls, result, serving, batch>>

----------------------------------------------------------------------------
ClientStep(c) ==
    \/ SendCheck(c) \/ SendRefused(c) \/ SendEnqueue(c) \/ SendFull(c) \/ SendExtract(c)
    \/ SendHandoff(c) \/ SendWait(c) \/ SendPrepare(c) \/ SendRecheck(c) \/ SendWake(c)
    \/ SendUnpend(c) \/ SendUnlink(c)
    \/ PostCheck(c) \/ PostRefused(c) \/ PostEnqueue(c) \/ PostFull(c) \/ PostWake(c)
    \/ NotifyCheck(c) \/ NotifySet(c) \/ NotifyRefused(c) \/ NotifyWake(c) \/ NotifyWakeRecv(c)
    \/ CleanupThread(c) \/ ReleaseStack(c)

ServerStep(s) ==
    \/ ReceiveTry(s) \/ ReceiveNowait(s) \/ ReceivePrepare(s) \/ ReceiveRecheck(s)
    \/ ReceiveWake(s) \/ WaitNotifyTry(s) \/ WaitNotifyPrepare(s) \/ WaitNotifyRecheck(s)
    \/ WaitNotifyWake(s) \/ Reply(s)

DestroyStep ==
    \/ DestroyWakeRecv \/ DestroyWakeNotify \/ DestroyMark \/ DestroyWakeSenders \/ DestroyDrop

Next ==
    \/ \E c \in Clients : ClientStep(c) \/ SendGet(c) \/ PostGet(c) \/ NotifyGet(c) \/ Kill(c)
    \/ \E s \in Servers : ServerStep(s) \/ ReceiveGet(s) \/ NowaitGet(s) \/ WaitNotifyGet(s)
    \/ \E t \in Threads, c \in Clients : StrayReply(t, c)
    \/ OwnerExit \/ DestroyUnlink \/ DestroyStep

(* A thread inside a call goes on; a server answers what it received and   *)
(* comes back to receive.  Clients call, the port dies and threads are     *)
(* killed or not as they like.                                             *)
Fairness ==
    /\ \A c \in Clients : WF_vars(ClientStep(c))
    /\ \A s \in Servers : WF_vars(ServerStep(s)) /\ WF_vars(ReceiveGet(s))
    /\ WF_vars(DestroyStep) /\ WF_vars(dpc = "exiting" /\ DestroyUnlink)

Spec == Init /\ [][Next]_vars
FairSpec == Spec /\ Fairness

----------------------------------------------------------------------------
(* A synchronous send that returns IPC_OK got the answer to its own        *)
(* request, although replies find their sender by tid alone and others are *)
(* hit by late and repeated replies, as long as none has hit this client.  *)
AnswerIsMine ==
    \A c \in Clients \ strayed :
        /\ pc[c] = "s_unlink" /\ ~pend[c].dead => pend[c].answer = calls[c]
        /\ pend[c].answer <= calls[c]

(* The same without that condition, which a late or repeated reply to the  *)
(* client's earlier call breaks.                                           *)
EveryAnswerIsMine ==
    \A c \in Clients : pc[c] = "s_unlink" /\ ~pend[c].dead => pend[c].answer = calls[c]

(* A sender that still waits is known to somebody: its request is queued,  *)
(* or a server has it and has not answered, and the port lists it, so that *)
(* the end of the server can reach it.                                     *)
InFlight(c) ==
    \/ \E i \in DOMAIN msg_queue : msg_queue[i] = Request(c)
    \/ \E s \in Servers : pc[s] \in {"reply", "dead"} /\ serving[s] = Request(c)

WaiterIsKnown ==
    \A c \in Clients :
        pc[c] \in {"s_extract", "s_handoff", "s_wait", "s_prepare", "s_recheck",
                  "s_asleep"} =>
            pend[c].received \/ (InFlight(c) /\ c \in pending_senders)

(* Pointers into the frame of ipc_send_sync: what s_pending holds is alive *)
(* (the per-TID lock exists for this).                                     *)
PendingSlotsAlive == s_pending \subseteq frames

(* pending_senders holds no frame that is gone (channel.c:885-888), as     *)
(* long as the id finds the port.                                          *)
ListedFramesAlive == in_table => pending_senders \subseteq frames

(* The records of waiting senders: well typed, known to whoever is to      *)
(* answer or to end the call, and never pointers into a stack that is gone.*)
ChannelInv == TypeOK /\ WaiterIsKnown /\ PendingSlotsAlive /\ ListedFramesAlive

(* Whatever destroy may still walk or touch, the list and then its batch,  *)
(* is alive (channel.c:811-812: the sender stays blocked, the pointers     *)
(* hold).                                                                  *)
DestroyTouchesTheLiving ==
    (batch \subseteq frames) /\ (dpc = "mark" => pending_senders \subseteq frames)

(* Nobody sleeps through a message, a notification or the port's death:    *)
(* when no call is on its way to wake anybody and no server is awake       *)
(* inside a call, there is nothing for those that sleep.                   *)
Waking(c) == pc[c] \in {"s_extract", "s_handoff", "p_wake", "n_wake", "n_wake_recv"}
Sleeps(s) == pc[s] \in {"r_asleep", "w_asleep"} /\ state[s] = "BLOCKED"
Quiet ==
    /\ ~\E c \in Clients : Waking(c)
    /\ dpc \in {"idle", "done"}
    /\ \A s \in Servers : pc[s] \in {"idle", "reply"} \/ Sleeps(s)

NobodySleepsOnWork ==
    Quiet => \A s \in Servers :
                Sleeps(s) => ~closed /\ ~notify_bits /\ (pc[s] = "r_asleep" => msg_queue = <<>>)

(* A synchronous send returns, with the answer or with IPC_ERR_DEAD if the *)
(* port dies: no sender is left behind (channel.h:29-31, port.h:17-18,     *)
(* channel.c:408-411).                                                     *)
SendReturns == \A c \in Clients : c \in frames ~> c \notin frames

(* A sender that the port has listed while it lives gets out of its call,  *)
(* even if the port dies or its owner ends, at any point, unless all       *)
(* servers have chosen to wait for notifications instead of messages.      *)
ListedSendReturns ==
    \A c \in Clients : c \in pending_senders /\ ~closed
                          ~> c \notin frames \/ \A s \in Servers : pc[s] = "w_asleep"

(* After a destroy every receiver and notification waiter leaves its call. *)
ServersLeave ==
    \A s \in Servers : closed ~> pc[s] \in {"idle", "dead"}

(* A notification reaches whoever waits for it: bits do not stay set while *)
(* somebody waits on a live port.                                          *)
NotifyArrives ==
    notify_bits /\ (\E s \in Servers : pc[s] \in {"w_asleep", "r_asleep"})
        ~> ~notify_bits \/ closed

(* A destroyed port is torn down: every reference is given back            *)
(* (port.c:345-347, port.h:89-90).                                         *)
DestroyedIsReclaimed == closed ~> ~slot_ref /\ refs = {}

(* What a destroyed port is still referenced by: sends that slept through  *)
(* its death (see SendReturns), and calls that were asleep when their      *)
(* process ended.  Every other call gives its reference back.              *)
LeftByMistake == {c \in Clients : pc[c] = "s_asleep"} \cup {t \in Threads : pc[t] = "dead"}
OthersGiveBack == closed ~> ~slot_ref /\ refs \subseteq LeftByMistake
=============================================================================
