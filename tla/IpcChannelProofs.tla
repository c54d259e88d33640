-------------------------- MODULE IpcChannelProofs --------------------------
(***************************************************************************)
(* Proofs about IpcChannel, for any clients, servers, queue and batch      *)
(* sizes and setups: destroys, kills and the owner's end at any time are   *)
(* included.                                                               *)
(***************************************************************************)
EXTENDS IpcChannel, SeqFacts, FiniteSetTheorems

(* Where a sender waits for its answer, and where its frame exists.        *)
Waiting == {"s_extract", "s_handoff", "s_wait", "s_prepare", "s_recheck", "s_asleep"}
Pended == Waiting \cup {"s_enqueue", "s_unpend"}
Framed == Pended \cup {"s_unlink"}

TypeInv ==
    /\ TypeOK /\ pc \in [Threads -> ClientPlaces \cup ServerPlaces]
    /\ in_table = ~closed /\ (dpc \in {"idle", "exiting"} \/ closed)
    /\ \A c \in Clients : pc[c] = "s_handoff" => receiver[c] \in Servers

(* The life of a pending_reply_t: in s_pending and in its frame while the  *)
(* call runs, in the port's list from the enqueue to the unlink; or until  *)
(* the reaper of a dead sender has taken it out.                           *)
Slots ==
    \A c \in Clients :
        /\ pc[c] \in Pended => c \in s_pending
        /\ pc[c] \in Framed => c \in frames
        /\ c \in s_pending => c \in frames /\ pc[c] \in Pended \cup {"dead"}
        /\ c \in pending_senders =>
              \/ pc[c] \in (Framed \ {"s_enqueue"}) /\ ~pend[c].dead
              \/ pc[c] = "dead" /\ (in_table => c \in s_pending)
        /\ pc[c] = "s_enqueue" => ~pend[c].dead /\ (c \notin strayed => ~pend[c].received)
        /\ pc[c] \in {"s_unpend", "s_unlink"} => pend[c].received
        /\ c \notin strayed =>
              /\ pc[c] \in Framed /\ pend[c].received /\ ~pend[c].dead => pend[c].answer = calls[c]
              /\ pend[c].answer <= calls[c]

(* A request that can still be answered is the sender's current one; and,  *)
(* as long as new calls can begin, the sender still waits for it.  A       *)
(* client hit by a stray reply goes on to its next call without the answer *)
(* to this one.                                                            *)
Current(m) ==
    m.kind = "request" =>
        /\ m.from \in Clients
        /\ m.from \notin strayed =>
              /\ m.call = calls[m.from]
              /\ \/ pc[m.from] \in Waiting /\ (~closed => ~pend[m.from].received)
                 \/ pc[m.from] = "dead"
                 \/ closed /\ pc[m.from] \in {"idle", "s_unpend", "s_unlink"}

Requests ==
    /\ \A i \in DOMAIN msg_queue : Current(msg_queue[i])
    /\ \A s \in Servers : pc[s] = "reply" => serving[s].kind = "request" /\ Current(serving[s])

(* No request of a client is there twice, unless a stray reply has hit it. *)
SameRequest(m, n) ==
    m.kind = "request" /\ n.kind = "request" /\ m.from = n.from /\ m.from \notin strayed
Once ==
    /\ \A i, j \in DOMAIN msg_queue : SameRequest(msg_queue[i], msg_queue[j]) => i = j
    /\ \A s \in Servers : pc[s] = "reply" =>
          /\ \A i \in DOMAIN msg_queue : ~SameRequest(serving[s], msg_queue[i])
          /\ \A r \in Servers : pc[r] = "reply" /\ SameRequest(serving[s], serving[r]) => r = s

SendInv == TypeInv /\ Slots /\ Requests /\ Once /\ WaiterIsKnown

----------------------------------------------------------------------------
(* A fresh port has no sender, no message and no waiter.                   *)
LEMMA InitInv == Init => SendInv
<1> SUFFICES ASSUME Init PROVE SendInv
  OBVIOUS
<1> USE ChannelAssumption DEF Init
<1>1. <<>> \in Seq(Messages) /\ <<>> \in Seq(Servers) /\ Len(<<>>) = 0 /\ DOMAIN <<>> = {}
  OBVIOUS
<1>2. Signal \in Messages /\ Fresh \in [received : BOOLEAN, dead : BOOLEAN, answer : 0 .. MaxCalls]
  BY DEF Signal, Messages, Fresh
<1>t. TypeOK
  <2>1. /\ msg_queue \in Seq(Messages) /\ Len(msg_queue) <= QueueMax
        /\ recv_waiters \in Seq(Servers) /\ notify_waiters \in Seq(Servers)
    BY <1>1
  <2>2. /\ state \in [Threads -> {"RUNNING", "READY", "BLOCKED", "DEAD"}]
        /\ \A c \in Clients : pc[c] \in ClientPlaces
        /\ \A s \in Servers : pc[s] \in ServerPlaces
    BY DEF Threads, ClientPlaces, ServerPlaces
  <2>3. /\ pend \in [Clients -> [received : BOOLEAN, dead : BOOLEAN, answer : 0 .. MaxCalls]]
        /\ calls \in [Clients -> 0 .. MaxCalls] /\ receiver \in [Clients -> Servers \cup {None}]
        /\ serving \in [Servers -> Messages] /\ result \in [Clients -> {"none", "OK", "ERR_DEAD", "ERR"}]
    BY <1>2
  <2> QED
    BY <2>1, <2>2, <2>3 DEF TypeOK
<1>3. TypeInv
  BY <1>t DEF TypeInv, Threads, ClientPlaces, ServerPlaces
<1>4. Slots
  BY DEF Slots, Pended, Framed, Waiting, Fresh, Threads
<1>5. Requests /\ Once
  BY <1>1 DEF Requests, Once, Threads
<1>6. WaiterIsKnown
  BY DEF WaiterIsKnown, Threads
<1> QED
  BY <1>3, <1>4, <1>5, <1>6 DEF SendInv

(* Moves the records of senders do not depend on: of a client outside its  *)
(* send or between two places where it waits, of a server that neither     *)
(* takes a request nor answers it.                                         *)
Aside == {"s_check", "p_check", "p_enqueue", "p_wake", "n_check", "n_set", "n_wake", "n_wake_recv"}
ClientMoves(c) ==
    \/ pc'[c] = pc[c]
    \/ pc[c] \in Waiting /\ pc'[c] \in Waiting
    \/ pc[c] \in Aside /\ pc'[c] \in (Aside \ {"s_check"}) \cup {"idle"}
ServerMoves(s) ==
    /\ pc'[s] = "reply" => pc[s] = "reply"
    /\ pc[s] \in {"reply", "dead"} => pc'[s] \in {pc[s], "dead"}

(* Such moves keep the records of senders, whatever happens to wait queues *)
(* and thread states.                                                      *)
LEMMA FrameStays ==
    ASSUME SendInv, TypeInv',
           UNCHANGED <<in_table, closed, msg_queue, s_pending, pend, frames, pending_senders,
                       calls, serving, strayed>>,
           \A c \in Clients : ClientMoves(c), \A s \in Servers : ServerMoves(s)
    PROVE  SendInv'
<1>1. Slots'
  BY DEF SendInv, Slots, ClientMoves, Aside, Waiting, Pended, Framed
<1>2. \A m : Current(m) => Current(m)'
  BY DEF Current, ClientMoves, Aside, Waiting
<1>3. Requests'
  BY <1>2 DEF SendInv, Requests, ServerMoves
<1>4. Once'
  BY DEF SendInv, Once, SameRequest, ServerMoves
<1>5. WaiterIsKnown'
  BY DEF SendInv, WaiterIsKnown, InFlight, Request, ClientMoves, ServerMoves, Waiting, Aside
<1> QED
  BY <1>1, <1>3, <1>4, <1>5 DEF SendInv

(* A stuttering step keeps the invariant.                                  *)
LEMMA StutterInv == SendInv /\ UNCHANGED vars => SendInv'
<1> SUFFICES ASSUME SendInv, UNCHANGED vars PROVE SendInv'
  OBVIOUS
<1> USE DEF vars, life, queues, sender
<1>1. TypeInv'
  BY DEF SendInv, TypeInv, TypeOK
<1> QED
  BY <1>1, FrameStays DEF ClientMoves, ServerMoves

(* Waking threads changes their states; a waker takes the first receiver.  *)
LEMMA UnblockTypes ==
    ASSUME TypeInv, NEW ts, Unblock(ts)
    PROVE  state' \in [Threads -> {"RUNNING", "READY", "BLOCKED", "DEAD"}]
BY DEF Unblock, TypeInv, TypeOK

(* wait_queue_wake_one leaves a queue of servers.                          *)
LEMMA WakeReceiverTypes ==
    ASSUME TypeInv, WakeReceiver
    PROVE  /\ recv_waiters' \in Seq(Servers)
           /\ state' \in [Threads -> {"RUNNING", "READY", "BLOCKED", "DEAD"}]
<1>1. CASE recv_waiters = <<>>
  BY <1>1 DEF WakeReceiver, TypeInv, TypeOK
<1>2. CASE recv_waiters # <<>>
  <2>1. Unblock({Head(recv_waiters)}) /\ recv_waiters' = Tail(recv_waiters)
    BY <1>2 DEF WakeReceiver
  <2>2. recv_waiters' \in Seq(Servers)
    BY <1>2, <2>1, TailFacts DEF TypeInv, TypeOK
  <2> QED
    BY <2>1, <2>2, UnblockTypes
<1> QED
  BY <1>1, <1>2

(* A removal at a place leaves the others, in their order.                 *)
LEMMA DropFacts ==
    ASSUME NEW S, NEW q \in Seq(S), NEW at \in DOMAIN q
    PROVE  /\ Drop(q, at) \in Seq(S)
           /\ \A k \in DOMAIN Drop(q, at) : \E j \in DOMAIN q : Drop(q, at)[k] = q[j]
           /\ \A j \in DOMAIN q : j # at => \E k \in DOMAIN Drop(q, at) : Drop(q, at)[k] = q[j]
<1> DEFINE r == Drop(q, at)
<1>1. Len(q) \in Nat /\ DOMAIN q = 1 .. Len(q) /\ at \in Nat /\ 1 <= at /\ at <= Len(q)
  OBVIOUS
<1>2. \A k \in 1 .. Len(q) - 1 : (IF k < at THEN k ELSE k + 1) \in DOMAIN q
  BY <1>1
<1>3. DOMAIN r = 1 .. Len(q) - 1 /\ \A k \in DOMAIN r : r[k] = q[IF k < at THEN k ELSE k + 1]
  BY DEF Drop
<1>4. r \in [1 .. Len(q) - 1 -> S] /\ Len(q) - 1 \in Nat
  BY <1>1, <1>2 DEF Drop
<1> HIDE DEF r
<1>5. r \in Seq(S)
  BY <1>4
<1>6. \A k \in DOMAIN r : \E j \in DOMAIN q : r[k] = q[j]
  BY <1>2, <1>3
<1>7. \A j \in DOMAIN q : j # at => \E k \in DOMAIN r : r[k] = q[j]
  <2> SUFFICES ASSUME NEW j \in DOMAIN q, j # at PROVE \E k \in DOMAIN r : r[k] = q[j]
    OBVIOUS
  <2>1. CASE j < at
    <3>1. j \in DOMAIN r /\ r[j] = q[j]
      BY <1>1, <1>3, <2>1
    <3> QED
      BY <3>1
  <2>2. CASE j > at
    <3>1. j - 1 \in DOMAIN r /\ ~(j - 1 < at) /\ (j - 1) + 1 = j
      BY <1>1, <1>3, <2>2
    <3>2. r[j - 1] = q[j]
      BY <1>3, <3>1
    <3> QED
      BY <3>1, <3>2
  <2> QED
    BY <1>1, <2>1, <2>2
<1> QED
  BY <1>5, <1>6, <1>7 DEF r

(* wait_queue_remove_thread leaves the others in the queue.                *)
LEMMA WithoutFacts ==
    ASSUME NEW S, NEW q \in Seq(S), NEW t
    PROVE  /\ Without(q, t) \in Seq(S)
           /\ \A u : u \in Elements(Without(q, t)) => u \in Elements(q)
           /\ \A u : u \in Elements(q) /\ u # t => u \in Elements(Without(q, t))
<1>1. CASE t \notin Elements(q)
  BY <1>1 DEF Without
<1>2. CASE t \in Elements(q)
  <2> DEFINE at == CHOOSE i \in DOMAIN q : q[i] = t
  <2>1. at \in DOMAIN q /\ q[at] = t
    BY <1>2 DEF Elements
  <2>2. Without(q, t) = Drop(q, at)
    BY <1>2 DEF Without
  <2> HIDE DEF at
  <2> DEFINE r == Drop(q, at)
  <2>3. /\ r \in Seq(S) /\ \A k \in DOMAIN r : \E j \in DOMAIN q : r[k] = q[j]
        /\ \A j \in DOMAIN q : j # at => \E k \in DOMAIN r : r[k] = q[j]
    BY <2>1, DropFacts
  <2> HIDE DEF r
  <2>4. \A u : u \in Elements(r) => u \in Elements(q)
    BY <2>3 DEF Elements
  <2>5. \A u : u \in Elements(q) /\ u # t => u \in Elements(r)
    BY <2>1, <2>3 DEF Elements
  <2> QED
    BY <2>2, <2>3, <2>4, <2>5 DEF r
<1> QED
  BY <1>1, <1>2

(* ipc_send_sync finds the port closed, or no entry.                       *)
LEMMA SendRefusedInv ==
    ASSUME SendInv, NEW c \in Clients, SendRefused(c)
    PROVE  SendInv'
<1> USE ChannelAssumption DEF SendRefused, Goto, EndCall, Put, Get, ServerGet, Destroyer, Threads, life, queues, sender
<1>1. TypeInv'
  BY DEF SendInv, TypeInv, TypeOK, ClientPlaces, ServerPlaces
<1> QED
  BY <1>1, FrameStays DEF SendInv, TypeInv, ClientMoves, ServerMoves, Waiting, Aside, ServerPlaces

(* A receiver of another CPU is woken, one of ours is switched to.         *)
LEMMA SendExtractInv ==
    ASSUME SendInv, NEW c \in Clients, SendExtract(c)
    PROVE  SendInv'
<1> USE ChannelAssumption DEF SendExtract, Goto, EndCall, Put, Get, ServerGet, Destroyer, Threads, life, queues, sender
<1>t. /\ recv_waiters' \in Seq(Servers)
      /\ state' \in [Threads -> {"RUNNING", "READY", "BLOCKED", "DEAD"}]
      /\ receiver' \in [Clients -> Servers \cup {None}]
      /\ pc' = [pc EXCEPT ![c] = "s_handoff"] => receiver'[c] \in Servers
      /\ \A d \in Clients : d # c => receiver'[d] = receiver[d]
  <2>1. CASE recv_waiters # <<>> /\ home[Head(recv_waiters)] = home[c]
    <3>1. /\ recv_waiters' = Tail(recv_waiters) /\ state' = state
          /\ receiver' = [receiver EXCEPT ![c] = Head(recv_waiters)]
      BY <2>1
    <3>2. Head(recv_waiters) \in Servers /\ Tail(recv_waiters) \in Seq(Servers)
      BY <2>1, TailFacts DEF SendInv, TypeInv, TypeOK
    <3> QED
      BY <3>1, <3>2 DEF SendInv, TypeInv, TypeOK
  <2>2. CASE ~(recv_waiters # <<>> /\ home[Head(recv_waiters)] = home[c])
    BY <2>2, WakeReceiverTypes DEF SendInv, TypeInv, TypeOK
  <2> QED
    BY <2>1, <2>2
<1>1. TypeInv'
  BY <1>t DEF SendInv, TypeInv, TypeOK, ClientPlaces, ServerPlaces
<1> QED
  BY <1>1, FrameStays DEF SendInv, TypeInv, ClientMoves, ServerMoves, Waiting, Aside, ServerPlaces

(* scheduler_yield_to: the sender sleeps, the receiver runs.               *)
LEMMA SendHandoffInv ==
    ASSUME SendInv, NEW c \in Clients, SendHandoff(c)
    PROVE  SendInv'
<1> USE ChannelAssumption DEF SendHandoff, Goto, EndCall, Put, Get, ServerGet, Destroyer, Threads, life, queues, sender
<1>t. state' \in [Threads -> {"RUNNING", "READY", "BLOCKED", "DEAD"}]
  BY DEF SendInv, TypeInv, TypeOK
<1>r. receiver' \in [Clients -> Servers \cup {None}] /\ \A d \in Clients \ {c} : receiver'[d] = receiver[d]
  BY DEF SendInv, TypeInv, TypeOK
<1>p. /\ pc' = [pc EXCEPT ![c] = "s_asleep"] /\ reply_wait' = reply_wait \cup {c}
      /\ UNCHANGED <<life, queues, refs, s_pending, pend, frames, pending_senders, calls,
                     result, serving, batch, strayed, setup>>
  OBVIOUS
<1> HIDE DEF SendHandoff
<1>1. TypeInv'
  BY <1>t, <1>r, <1>p DEF SendInv, TypeInv, TypeOK, ClientPlaces, ServerPlaces
<1> QED
  BY <1>p, <1>1, FrameStays DEF SendHandoff, SendInv, TypeInv, ClientMoves, ServerMoves, Waiting, Aside, ServerPlaces

(* wait_prepare on reply_wait.                                             *)
LEMMA SendPrepareInv ==
    ASSUME SendInv, NEW c \in Clients, SendPrepare(c)
    PROVE  SendInv'
<1> USE ChannelAssumption DEF SendPrepare, Goto, EndCall, Put, Get, ServerGet, Destroyer, Threads, life, queues, sender
<1>1. TypeInv'
  BY DEF SendInv, TypeInv, TypeOK, ClientPlaces, ServerPlaces
<1> QED
  BY <1>1, FrameStays DEF SendInv, TypeInv, ClientMoves, ServerMoves, Waiting, Aside, ServerPlaces

(* The sleeper runs again.                                                 *)
LEMMA SendWakeInv ==
    ASSUME SendInv, NEW c \in Clients, SendWake(c)
    PROVE  SendInv'
<1> USE ChannelAssumption DEF SendWake, Goto, EndCall, Put, Get, ServerGet, Destroyer, Threads, life, queues, sender
<1>1. TypeInv'
  BY DEF SendInv, TypeInv, TypeOK, ClientPlaces, ServerPlaces
<1> QED
  BY <1>1, FrameStays DEF SendInv, TypeInv, ClientMoves, ServerMoves, Waiting, Aside, ServerPlaces

(* ipc_post.                                                               *)
LEMMA PostCheckInv ==
    ASSUME SendInv, NEW c \in Clients, PostCheck(c)
    PROVE  SendInv'
<1> USE ChannelAssumption DEF PostCheck, Goto, EndCall, Put, Get, ServerGet, Destroyer, Threads, life, queues, sender
<1>1. TypeInv'
  BY DEF SendInv, TypeInv, TypeOK, ClientPlaces, ServerPlaces
<1> QED
  BY <1>1, FrameStays DEF SendInv, TypeInv, ClientMoves, ServerMoves, Waiting, Aside, ServerPlaces

(* ipc_post on a closed port, or without an entry, only returns.           *)
LEMMA PostRefusedInv ==
    ASSUME SendInv, NEW c \in Clients, PostRefused(c)
    PROVE  SendInv'
<1> USE ChannelAssumption DEF PostRefused, Goto, EndCall, Put, Get, ServerGet, Destroyer, Threads, life, queues, sender
<1>1. TypeInv'
  BY DEF SendInv, TypeInv, TypeOK, ClientPlaces, ServerPlaces
<1> QED
  BY <1>1, FrameStays DEF SendInv, TypeInv, ClientMoves, ServerMoves, Waiting, Aside, ServerPlaces

(* ipc_post on a full queue only returns.                                  *)
LEMMA PostFullInv ==
    ASSUME SendInv, NEW c \in Clients, PostFull(c)
    PROVE  SendInv'
<1> USE ChannelAssumption DEF PostFull, Goto, EndCall, Put, Get, ServerGet, Destroyer, Threads, life, queues, sender
<1>1. TypeInv'
  BY DEF SendInv, TypeInv, TypeOK, ClientPlaces, ServerPlaces
<1> QED
  BY <1>1, FrameStays DEF SendInv, TypeInv, ClientMoves, ServerMoves, Waiting, Aside, ServerPlaces

(* The wake at the end of enqueue_async touches no sender's record.        *)
LEMMA PostWakeInv ==
    ASSUME SendInv, NEW c \in Clients, PostWake(c)
    PROVE  SendInv'
<1> USE ChannelAssumption DEF PostWake, Goto, EndCall, Put, Get, ServerGet, Destroyer, Threads, life, queues, sender
<1>t. WakeReceiver
  OBVIOUS
<1>1. TypeInv'
  BY <1>t, WakeReceiverTypes DEF SendInv, TypeInv, TypeOK, ClientPlaces, ServerPlaces
<1> QED
  BY <1>1, FrameStays DEF SendInv, TypeInv, ClientMoves, ServerMoves, Waiting, Aside, ServerPlaces

(* ipc_notify finds the port open.                                         *)
LEMMA NotifyCheckInv ==
    ASSUME SendInv, NEW c \in Clients, NotifyCheck(c)
    PROVE  SendInv'
<1> USE ChannelAssumption DEF NotifyCheck, Goto, EndCall, Put, Get, ServerGet, Destroyer, Threads, life, queues, sender
<1>1. TypeInv'
  BY DEF SendInv, TypeInv, TypeOK, ClientPlaces, ServerPlaces
<1> QED
  BY <1>1, FrameStays DEF SendInv, TypeInv, ClientMoves, ServerMoves, Waiting, Aside, ServerPlaces

(* ipc_notify sets the bits.                                               *)
LEMMA NotifySetInv ==
    ASSUME SendInv, NEW c \in Clients, NotifySet(c)
    PROVE  SendInv'
<1> USE ChannelAssumption DEF NotifySet, Goto, EndCall, Put, Get, ServerGet, Destroyer, Threads, life, queues, sender
<1>1. TypeInv'
  BY DEF SendInv, TypeInv, TypeOK, ClientPlaces, ServerPlaces
<1> QED
  BY <1>1, FrameStays DEF SendInv, TypeInv, ClientMoves, ServerMoves, Waiting, Aside, ServerPlaces

(* ipc_notify on a closed port only returns.                               *)
LEMMA NotifyRefusedInv ==
    ASSUME SendInv, NEW c \in Clients, NotifyRefused(c)
    PROVE  SendInv'
<1> USE ChannelAssumption DEF NotifyRefused, Goto, EndCall, Put, Get, ServerGet, Destroyer, Threads, life, queues, sender
<1>1. TypeInv'
  BY DEF SendInv, TypeInv, TypeOK, ClientPlaces, ServerPlaces
<1> QED
  BY <1>1, FrameStays DEF SendInv, TypeInv, ClientMoves, ServerMoves, Waiting, Aside, ServerPlaces

(* The wake of the notification waiters touches no sender's record.        *)
LEMMA NotifyWakeInv ==
    ASSUME SendInv, NEW c \in Clients, NotifyWake(c)
    PROVE  SendInv'
<1> USE ChannelAssumption DEF NotifyWake, Goto, EndCall, Put, Get, ServerGet, Destroyer, Threads, life, queues, sender
<1>t. Unblock(Elements(notify_waiters)) /\ notify_waiters' \in Seq(Servers)
  OBVIOUS
<1>1. TypeInv'
  BY <1>t, UnblockTypes DEF SendInv, TypeInv, TypeOK, ClientPlaces, ServerPlaces
<1> QED
  BY <1>1, FrameStays DEF SendInv, TypeInv, ClientMoves, ServerMoves, Waiting, Aside, ServerPlaces

(* Nor does the wake of the receivers.                                     *)
LEMMA NotifyWakeRecvInv ==
    ASSUME SendInv, NEW c \in Clients, NotifyWakeRecv(c)
    PROVE  SendInv'
<1> USE ChannelAssumption DEF NotifyWakeRecv, Goto, EndCall, Put, Get, ServerGet, Destroyer, Threads, life, queues, sender
<1>t. Unblock(Elements(recv_waiters)) /\ recv_waiters' \in Seq(Servers)
  OBVIOUS
<1>1. TypeInv'
  BY <1>t, UnblockTypes DEF SendInv, TypeInv, TypeOK, ClientPlaces, ServerPlaces
<1> QED
  BY <1>1, FrameStays DEF SendInv, TypeInv, ClientMoves, ServerMoves, Waiting, Aside, ServerPlaces

(* ipc_port_get of a receiver.                                             *)
LEMMA ServerGetInv ==
    ASSUME SendInv, NEW s \in Servers, ReceiveGet(s) \/ NowaitGet(s) \/ WaitNotifyGet(s)
    PROVE  SendInv'
<1> USE ChannelAssumption DEF Threads, life, queues, sender
<1>0. PICK x \in {"r_try", "t_try", "w_try"} :
        /\ pc[s] = "idle" /\ pc' = [pc EXCEPT ![s] = x] /\ refs' = refs \cup {s}
        /\ UNCHANGED <<life, queues, sender, state, calls, result, serving, batch, strayed, setup>>
  BY DEF ReceiveGet, NowaitGet, WaitNotifyGet, ServerGet, Goto, Get
<1>1. TypeInv'
  BY <1>0 DEF SendInv, TypeInv, TypeOK, ClientPlaces, ServerPlaces
<1> QED
  BY <1>0, <1>1, FrameStays DEF SendInv, TypeInv, ClientMoves, ServerMoves, Waiting, Aside, ServerPlaces

(* wait_prepare of a receiver.                                             *)
LEMMA ReceivePrepareInv ==
    ASSUME SendInv, NEW s \in Servers, ReceivePrepare(s)
    PROVE  SendInv'
<1> USE ChannelAssumption DEF ReceivePrepare, Goto, EndCall, Put, Get, ServerGet, Destroyer, Threads, life, queues, sender
<1>t. recv_waiters' \in Seq(Servers)
  BY AppendFacts DEF SendInv, TypeInv, TypeOK
<1>1. TypeInv'
  BY <1>t DEF SendInv, TypeInv, TypeOK, ClientPlaces, ServerPlaces
<1> QED
  BY <1>1, FrameStays DEF SendInv, TypeInv, ClientMoves, ServerMoves, Waiting, Aside, ServerPlaces

(* A receiver runs again.                                                  *)
LEMMA ReceiveWakeInv ==
    ASSUME SendInv, NEW s \in Servers, ReceiveWake(s)
    PROVE  SendInv'
<1> USE ChannelAssumption DEF ReceiveWake, Goto, EndCall, Put, Get, ServerGet, Destroyer, Threads, life, queues, sender
<1>1. TypeInv'
  BY DEF SendInv, TypeInv, TypeOK, ClientPlaces, ServerPlaces
<1> QED
  BY <1>1, FrameStays DEF SendInv, TypeInv, ClientMoves, ServerMoves, Waiting, Aside, ServerPlaces

(* ipc_wait_notify.                                                        *)
LEMMA WaitNotifyTryInv ==
    ASSUME SendInv, NEW s \in Servers, WaitNotifyTry(s)
    PROVE  SendInv'
<1> USE ChannelAssumption DEF Threads, life, queues, sender
<1>0. /\ pc[s] = "w_try" /\ \E x \in {"idle", "w_prepare"} : pc' = [pc EXCEPT ![s] = x]
      /\ notify_bits' \in BOOLEAN /\ refs' \subseteq refs
      /\ UNCHANGED <<life, msg_queue, recv_waiters, notify_waiters, sender, state, calls,
                     result, serving, batch, strayed, setup>>
  BY ZenonT(40) DEF WaitNotifyTry, Goto, Put, SendInv, TypeInv, TypeOK
<1>1. TypeInv'
  BY <1>0 DEF SendInv, TypeInv, TypeOK, ClientPlaces, ServerPlaces
<1> QED
  BY <1>0, <1>1, FrameStays DEF SendInv, TypeInv, ClientMoves, ServerMoves, Waiting, Aside, ServerPlaces

(* wait_prepare in ipc_wait_notify queues a server.                        *)
LEMMA WaitNotifyPrepareInv ==
    ASSUME SendInv, NEW s \in Servers, WaitNotifyPrepare(s)
    PROVE  SendInv'
<1> USE ChannelAssumption DEF WaitNotifyPrepare, Goto, EndCall, Put, Get, ServerGet, Destroyer, Threads, life, queues, sender
<1>t. notify_waiters' \in Seq(Servers)
  BY AppendFacts DEF SendInv, TypeInv, TypeOK
<1>1. TypeInv'
  BY <1>t DEF SendInv, TypeInv, TypeOK, ClientPlaces, ServerPlaces
<1> QED
  BY <1>1, FrameStays DEF SendInv, TypeInv, ClientMoves, ServerMoves, Waiting, Aside, ServerPlaces

(* The second look of ipc_wait_notify: leave with the bits, or sleep.      *)
LEMMA WaitNotifyRecheckInv ==
    ASSUME SendInv, NEW s \in Servers, WaitNotifyRecheck(s)
    PROVE  SendInv'
<1> USE ChannelAssumption DEF Threads, life, queues, sender
<1>0. /\ pc[s] = "w_recheck" /\ \E x \in {"idle", "w_asleep"} : pc' = [pc EXCEPT ![s] = x]
      /\ notify_bits' \in BOOLEAN /\ refs' \subseteq refs
      /\ notify_waiters' \in {notify_waiters, Without(notify_waiters, s)}
      /\ state' \in {state, [state EXCEPT ![s] = "RUNNING"]}
      /\ UNCHANGED <<life, msg_queue, recv_waiters, sender, calls, result, serving, batch, strayed, setup>>
  BY ZenonT(30) DEF WaitNotifyRecheck, Goto, Put, SendInv, TypeInv, TypeOK
<1>t. /\ notify_waiters' \in Seq(Servers)
      /\ state' \in [Threads -> {"RUNNING", "READY", "BLOCKED", "DEAD"}]
      /\ pc' \in [Threads -> ClientPlaces \cup ServerPlaces] /\ pc'[s] \in {"idle", "w_asleep"}
      /\ \A t \in Threads \ {s} : pc'[t] = pc[t]
  <2>1. notify_waiters' \in Seq(Servers)
    BY <1>0, WithoutFacts DEF SendInv, TypeInv, TypeOK
  <2>2. state' \in [Threads -> {"RUNNING", "READY", "BLOCKED", "DEAD"}]
    BY <1>0 DEF SendInv, TypeInv, TypeOK
  <2>3. /\ pc' \in [Threads -> ClientPlaces \cup ServerPlaces] /\ pc'[s] \in {"idle", "w_asleep"}
        /\ \A t \in Threads \ {s} : pc'[t] = pc[t]
    BY <1>0 DEF SendInv, TypeInv, ClientPlaces, ServerPlaces
  <2> QED
    BY <2>1, <2>2, <2>3
<1>1. TypeInv'
  BY <1>0, <1>t DEF SendInv, TypeInv, TypeOK, ClientPlaces, ServerPlaces
<1> QED
  BY <1>0, <1>t, <1>1, FrameStays DEF SendInv, TypeInv, ClientMoves, ServerMoves, Waiting, Aside, ServerPlaces

(* A woken notification waiter looks again.                                *)
LEMMA WaitNotifyWakeInv ==
    ASSUME SendInv, NEW s \in Servers, WaitNotifyWake(s)
    PROVE  SendInv'
<1> USE ChannelAssumption DEF WaitNotifyWake, Goto, EndCall, Put, Get, ServerGet, Destroyer, Threads, life, queues, sender
<1>1. TypeInv'
  BY DEF SendInv, TypeInv, TypeOK, ClientPlaces, ServerPlaces
<1> QED
  BY <1>1, FrameStays DEF SendInv, TypeInv, ClientMoves, ServerMoves, Waiting, Aside, ServerPlaces

(* thread_kill_others_of: the owner's threads die, wherever they are.      *)
LEMMA OwnerExitInv ==
    ASSUME SendInv, OwnerExit
    PROVE  SendInv'
<1> USE ChannelAssumption DEF OwnerExit, Goto, EndCall, Put, Get, ServerGet, Destroyer, Threads, life, queues, sender
<1>1. TypeInv'
  BY DEF SendInv, TypeInv, TypeOK, ClientPlaces, ServerPlaces
<1> QED
  BY <1>1, FrameStays DEF SendInv, TypeInv, ClientMoves, ServerMoves, Waiting, Aside, ServerPlaces

(* ipc_port_destroy wakes those who receive.                               *)
LEMMA DestroyWakeRecvInv ==
    ASSUME SendInv, DestroyWakeRecv
    PROVE  SendInv'
<1> USE ChannelAssumption DEF DestroyWakeRecv, Goto, EndCall, Put, Get, ServerGet, Destroyer, Threads, life, queues, sender
<1>t. Unblock(Elements(recv_waiters)) /\ recv_waiters' \in Seq(Servers)
  OBVIOUS
<1>1. TypeInv'
  BY <1>t, UnblockTypes DEF SendInv, TypeInv, TypeOK, ClientPlaces, ServerPlaces
<1> QED
  BY <1>1, FrameStays DEF SendInv, TypeInv, ClientMoves, ServerMoves, Waiting, Aside, ServerPlaces

(* The wake of the notification waiters by ipc_port_destroy.               *)
LEMMA DestroyWakeNotifyInv ==
    ASSUME SendInv, DestroyWakeNotify
    PROVE  SendInv'
<1> USE ChannelAssumption DEF DestroyWakeNotify, Goto, EndCall, Put, Get, ServerGet, Destroyer, Threads, life, queues, sender
<1>t. Unblock(Elements(notify_waiters)) /\ notify_waiters' \in Seq(Servers)
  OBVIOUS
<1>1. TypeInv'
  BY <1>t, UnblockTypes DEF SendInv, TypeInv, TypeOK, ClientPlaces, ServerPlaces
<1> QED
  BY <1>1, FrameStays DEF SendInv, TypeInv, ClientMoves, ServerMoves, Waiting, Aside, ServerPlaces

(* It wakes the senders of its batch.                                      *)
LEMMA DestroyWakeSendersInv ==
    ASSUME SendInv, DestroyWakeSenders
    PROVE  SendInv'
<1> USE ChannelAssumption DEF DestroyWakeSenders, Goto, EndCall, Put, Get, ServerGet, Destroyer, Threads, life, queues, sender
<1>t. Unblock(batch \cap reply_wait)
  OBVIOUS
<1>1. TypeInv'
  BY <1>t, UnblockTypes DEF SendInv, TypeInv, TypeOK, ClientPlaces, ServerPlaces
<1> QED
  BY <1>1, FrameStays DEF SendInv, TypeInv, ClientMoves, ServerMoves, Waiting, Aside, ServerPlaces

(* It drops the table's reference.                                         *)
LEMMA DestroyDropInv ==
    ASSUME SendInv, DestroyDrop
    PROVE  SendInv'
<1> USE ChannelAssumption DEF DestroyDrop, Goto, EndCall, Put, Get, ServerGet, Destroyer, Threads, life, queues, sender
<1>1. TypeInv'
  BY DEF SendInv, TypeInv, TypeOK, ClientPlaces, ServerPlaces
<1> QED
  BY <1>1, FrameStays DEF SendInv, TypeInv, ClientMoves, ServerMoves, Waiting, Aside, ServerPlaces

(* The requests stay as they are while queue, answers to give and servers  *)
(* do, and senders move only where the request allows it.                  *)
LEMMA QueueStays ==
    ASSUME SendInv, UNCHANGED <<msg_queue, serving, strayed>>, \A r \in Servers : pc'[r] = pc[r],
           \A m : Current(m) => Current(m)'
    PROVE  /\ Requests' /\ Once'
           /\ \A d \in Clients : calls'[d] = calls[d] /\ InFlight(d) => InFlight(d)'
<1>1. Requests'
  BY DEF SendInv, Requests
<1>2. Once'
  BY DEF SendInv, Once, SameRequest
<1>3. \A d \in Clients : calls'[d] = calls[d] /\ InFlight(d) => InFlight(d)'
  BY DEF InFlight, Request
<1> QED
  BY <1>1, <1>2, <1>3

(* A new call: no request of an earlier one is left.                       *)
LEMMA BeginCallInv ==
    ASSUME SendInv, NEW c \in Clients, SendGet(c) \/ PostGet(c) \/ NotifyGet(c)
    PROVE  SendInv'
<1> USE ChannelAssumption DEF Threads, life, queues, sender
<1>0. PICK x \in {"s_check", "p_check", "n_check"} :
        /\ pc[c] = "idle" /\ pc' = [pc EXCEPT ![c] = x] /\ calls[c] < MaxCalls /\ ~closed
        /\ refs' = refs \cup {c} /\ calls' = [calls EXCEPT ![c] = calls[c] + 1]
        /\ UNCHANGED <<life, queues, sender, state, result, serving, batch, strayed, setup>>
  BY DEF SendGet, PostGet, NotifyGet, BeginCall, Goto, Get
<1>c. \A m : Current(m) => Current(m)'
  BY <1>0 DEF Current, Waiting, SendInv, TypeInv, TypeOK, Slots
<1>s. \A r \in Servers : pc'[r] = pc[r]
  BY <1>0 DEF SendInv, TypeInv, ServerPlaces
<1>1. TypeInv'
  BY <1>0 DEF SendInv, TypeInv, TypeOK, ClientPlaces, ServerPlaces
<1>2. Slots'
  BY <1>0 DEF SendInv, TypeInv, TypeOK, Slots, Waiting, Pended, Framed
<1>3. Requests'
  BY <1>0, <1>c, <1>s, QueueStays
<1>4. Once'
  BY <1>0, <1>c, <1>s, QueueStays
<1>5. WaiterIsKnown'
  BY SMTT(30), <1>0, <1>c, <1>s, QueueStays DEF SendInv, TypeInv, TypeOK, WaiterIsKnown
<1> QED
  BY <1>1, <1>2, <1>3, <1>4, <1>5 DEF SendInv

(* The record is fresh and stored in s_pending.                            *)
LEMMA SendCheckInv ==
    ASSUME SendInv, NEW c \in Clients, SendCheck(c)
    PROVE  SendInv'
<1> USE ChannelAssumption DEF Threads, life, queues, sender, SendCheck, Goto
<1>c. \A m : Current(m) => Current(m)'
  BY DEF Current, Waiting, SendInv, TypeInv, TypeOK, Slots
<1>s. \A r \in Servers : pc'[r] = pc[r]
  BY DEF SendInv, TypeInv, ServerPlaces
<1>1. TypeInv'
  BY DEF SendInv, TypeInv, TypeOK, ClientPlaces, ServerPlaces, Fresh
<1>2. Slots'
  BY DEF SendInv, TypeInv, TypeOK, Slots, Waiting, Pended, Framed, Fresh
<1>3. Requests'
  BY <1>c, <1>s, QueueStays
<1>4. Once'
  BY <1>c, <1>s, QueueStays
<1>5. WaiterIsKnown'
  BY <1>c, <1>s, QueueStays DEF SendInv, TypeInv, TypeOK, WaiterIsKnown
<1> QED
  BY <1>1, <1>2, <1>3, <1>4, <1>5 DEF SendInv

(* The request is queued, once, and the port lists its sender.             *)
LEMMA SendEnqueueInv ==
    ASSUME SendInv, NEW c \in Clients, SendEnqueue(c)
    PROVE  SendInv'
<1> USE ChannelAssumption DEF Threads, life, queues, sender
<1>0. /\ pc[c] = "s_enqueue" /\ pc' = [pc EXCEPT ![c] = "s_extract"] /\ Len(msg_queue) < QueueMax
      /\ msg_queue' = Append(msg_queue, Request(c)) /\ pending_senders' = pending_senders \cup {c}
      /\ UNCHANGED <<life, notify_bits, recv_waiters, notify_waiters, refs, s_pending, pend,
                     reply_wait, frames, receiver, state, calls, result, serving, batch, strayed, setup>>
  BY DEF SendEnqueue, Goto
<1>r. Request(c) \in Messages
  BY DEF Request, Messages, SendInv, TypeInv, TypeOK
<1>q. /\ msg_queue' \in Seq(Messages) /\ Len(msg_queue') <= QueueMax
      /\ \A k \in DOMAIN msg_queue : k \in DOMAIN msg_queue' /\ msg_queue'[k] = msg_queue[k]
      /\ Len(msg_queue) + 1 \in DOMAIN msg_queue' /\ msg_queue'[Len(msg_queue) + 1] = Request(c)
      /\ \A k \in DOMAIN msg_queue' : k \in DOMAIN msg_queue \/ k = Len(msg_queue) + 1
  <2>1. msg_queue \in Seq(Messages) /\ Len(msg_queue) \in Nat
    BY DEF SendInv, TypeInv, TypeOK
  <2> QED
    BY <1>0, <1>r, <2>1, AppendFacts
<1>1. TypeInv'
  BY <1>0, <1>q DEF SendInv, TypeInv, TypeOK, ClientPlaces, ServerPlaces
<1>2. Slots'
  BY <1>0 DEF SendInv, TypeInv, TypeOK, Slots, Waiting, Pended, Framed
<1>3. Requests'
  <2>1. Current(Request(c))'
    BY <1>0, <1>r DEF Current, Request, Waiting, SendInv, TypeInv, Slots
  <2>2. \A m : Current(m) => Current(m)'
    BY <1>0 DEF Current, Waiting, SendInv, TypeInv
  <2>3. \A s \in Servers : pc'[s] = pc[s]
    BY <1>0 DEF SendInv, TypeInv
  <2>4. \A i \in DOMAIN msg_queue' : Current(msg_queue[i])'
    <3> SUFFICES ASSUME NEW i \in DOMAIN msg_queue' PROVE Current(msg_queue[i])'
      OBVIOUS
    <3>1. CASE i \in DOMAIN msg_queue
      <4>1. Current(msg_queue[i]) /\ msg_queue'[i] = msg_queue[i]
        BY <1>q, <3>1 DEF SendInv, Requests
      <4>2. \A m : m = msg_queue[i] => Current(m)'
        BY <2>2, <4>1
      <4> QED
        BY <4>1, <4>2 DEF Current
    <3>2. CASE i = Len(msg_queue) + 1
      <4>1. msg_queue'[i] = Request(c) /\ calls' = calls
        BY <1>0, <1>q, <3>2
      <4> QED
        BY <2>1, <4>1 DEF Current, Request
    <3> QED
      BY <1>q, <3>1, <3>2
  <2> QED
    BY <1>0, <2>2, <2>3, <2>4 DEF SendInv, Requests
<1>4. Once'
  <2>1. \A m : Current(m) => ~SameRequest(m, Request(c)) /\ ~SameRequest(Request(c), m)
    BY <1>0 DEF Current, SameRequest, Request, Waiting
  <2>2. \A s \in Servers : pc'[s] = pc[s]
    BY <1>0 DEF SendInv, TypeInv
  <2>3. \A i, j \in DOMAIN msg_queue' : SameRequest(msg_queue'[i], msg_queue'[j]) => i = j
    BY <1>0, <1>q, <2>1 DEF SendInv, Requests, Once
  <2>4. \A s \in Servers : pc'[s] = "reply" =>
          \A i \in DOMAIN msg_queue' : ~SameRequest(serving[s], msg_queue'[i])
    BY <1>0, <1>q, <2>1, <2>2 DEF SendInv, Requests, Once
  <2> QED
    BY <1>0, <2>2, <2>3, <2>4 DEF SendInv, Once, SameRequest
<1>5. WaiterIsKnown'
  <2>1. \A d \in Clients : InFlight(d) => InFlight(d)'
    BY <1>0, <1>q DEF InFlight, Request, SendInv, TypeInv
  <2>2. InFlight(c)'
    BY <1>0, <1>q, <1>r DEF InFlight, Request
  <2> QED
    BY <1>0, <2>1, <2>2 DEF SendInv, TypeInv, WaiterIsKnown
<1> QED
  BY <1>1, <1>2, <1>3, <1>4, <1>5 DEF SendInv

(* No room: the record is withdrawn.                                       *)
LEMMA SendFullInv ==
    ASSUME SendInv, NEW c \in Clients, SendFull(c)
    PROVE  SendInv'
<1> USE ChannelAssumption DEF Threads, life, queues, sender, SendFull, EndCall, Goto, Put
<1>1. TypeInv'
  BY DEF SendInv, TypeInv, TypeOK, ClientPlaces, ServerPlaces
<1>2. Slots'
  BY DEF SendInv, TypeInv, TypeOK, Slots, Waiting, Pended, Framed
<1>3. Requests'
  BY DEF SendInv, TypeInv, TypeOK, Requests, Current, Waiting
<1>4. Once'
  BY DEF SendInv, TypeInv, TypeOK, Once, SameRequest
<1>5. WaiterIsKnown'
  BY DEF SendInv, TypeInv, TypeOK, WaiterIsKnown, InFlight, Request
<1> QED
  BY <1>1, <1>2, <1>3, <1>4, <1>5 DEF SendInv

(* An answer ends the wait.                                                *)
LEMMA SendWaitInv ==
    ASSUME SendInv, NEW c \in Clients, SendWait(c)
    PROVE  SendInv'
<1> USE ChannelAssumption DEF Threads, life, queues, sender
<1> DEFINE to == IF pend[c].received THEN "s_unpend" ELSE "s_prepare"
<1>0. /\ pc[c] = "s_wait" /\ pc' = [pc EXCEPT ![c] = to]
      /\ state' \in {state, [state EXCEPT ![c] = "RUNNING"]} /\ reply_wait' \subseteq reply_wait
      /\ UNCHANGED <<life, queues, refs, s_pending, pend, frames, pending_senders, receiver,
                     calls, result, serving, batch, strayed, setup>>
  BY DEF SendWait, Goto
<1>p. /\ pc' \in [Threads -> ClientPlaces \cup ServerPlaces] /\ pc'[c] = to
      /\ \A d \in Clients \ {c} : pc'[d] = pc[d]
      /\ \A r \in Servers : pc'[r] = pc[r]
  BY <1>0 DEF SendInv, TypeInv, ClientPlaces
<1>c. \A m : Current(m) => Current(m)'
  BY <1>0, <1>p DEF Current, Waiting
<1>1. TypeInv'
  <2>1. state' \in [Threads -> {"RUNNING", "READY", "BLOCKED", "DEAD"}]
    BY <1>0 DEF SendInv, TypeInv, TypeOK
  <2>2. reply_wait' \subseteq Clients
    BY <1>0 DEF SendInv, TypeInv, TypeOK
  <2>3. TypeOK'
    BY <1>0, <1>p, <2>1, <2>2 DEF SendInv, TypeInv, TypeOK, ClientPlaces
  <2> QED
    BY <1>0, <1>p, <2>3 DEF SendInv, TypeInv
<1>2. Slots'
  BY <1>0, <1>p DEF SendInv, Slots, Waiting, Pended, Framed
<1>3. Requests'
  BY <1>0, <1>c, <1>p, QueueStays
<1>4. Once'
  BY <1>0, <1>c, <1>p, QueueStays
<1>5. WaiterIsKnown'
  BY <1>0, <1>c, <1>p, QueueStays DEF SendInv, WaiterIsKnown
<1> QED
  BY <1>1, <1>2, <1>3, <1>4, <1>5 DEF SendInv

(* An answer that came before the sleep ends the wait.                     *)
LEMMA SendRecheckInv ==
    ASSUME SendInv, NEW c \in Clients, SendRecheck(c)
    PROVE  SendInv'
<1> USE ChannelAssumption DEF Threads, life, queues, sender
<1> DEFINE to == IF pend[c].received THEN "s_unpend" ELSE "s_asleep"
<1>0. /\ pc[c] = "s_recheck" /\ pc' = [pc EXCEPT ![c] = to]
      /\ state' \in {state, [state EXCEPT ![c] = "RUNNING"]} /\ reply_wait' \subseteq reply_wait
      /\ UNCHANGED <<life, queues, refs, s_pending, pend, frames, pending_senders, receiver,
                     calls, result, serving, batch, strayed, setup>>
  BY DEF SendRecheck, Goto
<1>p. /\ pc' \in [Threads -> ClientPlaces \cup ServerPlaces] /\ pc'[c] = to
      /\ \A d \in Clients \ {c} : pc'[d] = pc[d]
      /\ \A r \in Servers : pc'[r] = pc[r]
  BY <1>0 DEF SendInv, TypeInv, ClientPlaces
<1>c. \A m : Current(m) => Current(m)'
  BY <1>0, <1>p DEF Current, Waiting
<1>1. TypeInv'
  <2>1. state' \in [Threads -> {"RUNNING", "READY", "BLOCKED", "DEAD"}]
    BY <1>0 DEF SendInv, TypeInv, TypeOK
  <2>2. reply_wait' \subseteq Clients
    BY <1>0 DEF SendInv, TypeInv, TypeOK
  <2>3. TypeOK'
    BY <1>0, <1>p, <2>1, <2>2 DEF SendInv, TypeInv, TypeOK, ClientPlaces
  <2> QED
    BY <1>0, <1>p, <2>3 DEF SendInv, TypeInv
<1>2. Slots'
  BY <1>0, <1>p DEF SendInv, Slots, Waiting, Pended, Framed
<1>3. Requests'
  BY <1>0, <1>c, <1>p, QueueStays
<1>4. Once'
  BY <1>0, <1>c, <1>p, QueueStays
<1>5. WaiterIsKnown'
  BY <1>0, <1>c, <1>p, QueueStays DEF SendInv, WaiterIsKnown
<1> QED
  BY <1>1, <1>2, <1>3, <1>4, <1>5 DEF SendInv

(* The record leaves s_pending.                                            *)
LEMMA SendUnpendInv ==
    ASSUME SendInv, NEW c \in Clients, SendUnpend(c)
    PROVE  SendInv'
<1> USE ChannelAssumption DEF Threads, life, queues, sender, SendUnpend, Goto
<1>1. TypeInv'
  BY DEF SendInv, TypeInv, TypeOK, ClientPlaces, ServerPlaces
<1>2. Slots'
  BY DEF SendInv, TypeInv, TypeOK, Slots, Waiting, Pended, Framed
<1>3. Requests'
  BY DEF SendInv, TypeInv, TypeOK, Requests, Current, Waiting
<1>4. Once'
  BY DEF SendInv, TypeInv, TypeOK, Once, SameRequest
<1>5. WaiterIsKnown'
  <2>1. /\ pc'[c] = "s_unlink" /\ \A t \in Threads \ {c} : pc'[t] = pc[t]
        /\ UNCHANGED <<msg_queue, serving, calls, pend, pending_senders>>
    BY DEF SendInv, TypeInv
  <2>2. \A d \in Clients : InFlight(d) => InFlight(d)'
    BY <2>1 DEF InFlight, Request
  <2> QED
    BY <2>1, <2>2 DEF SendInv, WaiterIsKnown
<1> QED
  BY <1>1, <1>2, <1>3, <1>4, <1>5 DEF SendInv

(* The record leaves the port's list and the call its frame.               *)
LEMMA SendUnlinkInv ==
    ASSUME SendInv, NEW c \in Clients, SendUnlink(c)
    PROVE  SendInv'
<1> USE ChannelAssumption DEF Threads, life, queues, sender, SendUnlink, EndCall, Goto, Put
<1>1. TypeInv'
  BY DEF SendInv, TypeInv, TypeOK, ClientPlaces, ServerPlaces
<1>2. Slots'
  BY DEF SendInv, TypeInv, TypeOK, Slots, Waiting, Pended, Framed
<1>3. Requests'
  BY DEF SendInv, TypeInv, TypeOK, Requests, Current, Waiting
<1>4. Once'
  BY DEF SendInv, TypeInv, TypeOK, Once, SameRequest
<1>5. WaiterIsKnown'
  BY ZenonT(30) DEF SendInv, TypeInv, TypeOK, WaiterIsKnown, InFlight, Request
<1> QED
  BY <1>1, <1>2, <1>3, <1>4, <1>5 DEF SendInv

(* A posted signal is no request.                                          *)
LEMMA PostEnqueueInv ==
    ASSUME SendInv, NEW c \in Clients, PostEnqueue(c)
    PROVE  SendInv'
<1> USE ChannelAssumption DEF Threads, life, queues, sender
<1>0. /\ pc[c] = "p_enqueue" /\ pc' = [pc EXCEPT ![c] = "p_wake"] /\ Len(msg_queue) < QueueMax
      /\ msg_queue' = Append(msg_queue, Signal)
      /\ UNCHANGED <<life, notify_bits, recv_waiters, notify_waiters, refs, sender, state,
                     calls, result, serving, batch, strayed, setup>>
  BY DEF PostEnqueue, Goto
<1>q. /\ msg_queue' \in Seq(Messages) /\ Len(msg_queue') <= QueueMax
      /\ \A k \in DOMAIN msg_queue : k \in DOMAIN msg_queue' /\ msg_queue'[k] = msg_queue[k]
      /\ \A k \in DOMAIN msg_queue' : k \in DOMAIN msg_queue \/ msg_queue'[k] = Signal
  <2>1. msg_queue \in Seq(Messages) /\ Len(msg_queue) \in Nat /\ Signal \in Messages
    BY DEF SendInv, TypeInv, TypeOK, Signal, Messages
  <2> QED
    BY <1>0, <2>1, AppendFacts
<1>s. /\ \A r \in Servers : pc'[r] = pc[r]
      /\ \A d \in Clients \ {c} : pc'[d] = pc[d]
      /\ pc'[c] = "p_wake"
  BY <1>0 DEF SendInv, TypeInv
<1>c. \A m : Current(m) => Current(m)'
  BY <1>0, <1>s DEF Current, Waiting
<1>n. Signal.kind = "signal"
  BY DEF Signal
<1>1. TypeInv'
  BY <1>0, <1>q DEF SendInv, TypeInv, TypeOK, ClientPlaces, ServerPlaces
<1>2. Slots'
  BY <1>0, <1>s DEF SendInv, Slots, Waiting, Pended, Framed
<1>3. Requests'
  <2>1. \A i \in DOMAIN msg_queue' : Current(msg_queue[i])'
    <3> SUFFICES ASSUME NEW i \in DOMAIN msg_queue' PROVE Current(msg_queue[i])'
      OBVIOUS
    <3>1. CASE i \in DOMAIN msg_queue
      <4>1. Current(msg_queue[i]) /\ msg_queue'[i] = msg_queue[i]
        BY <1>q, <3>1 DEF SendInv, Requests
      <4>2. \A m : m = msg_queue[i] => Current(m)'
        BY <1>c, <4>1
      <4> QED
        BY <4>1, <4>2 DEF Current
    <3>2. CASE msg_queue'[i] = Signal
      BY <1>n, <3>2 DEF Current
    <3> QED
      BY <1>q, <3>1, <3>2
  <2> QED
    BY <1>0, <1>c, <1>s, <2>1 DEF SendInv, Requests
<1>4. Once'
  <2>1. \A m : ~SameRequest(m, Signal) /\ ~SameRequest(Signal, m)
    BY <1>n DEF SameRequest
  <2>2. \A i, j \in DOMAIN msg_queue' : SameRequest(msg_queue'[i], msg_queue'[j]) => i = j
    BY <1>q, <2>1 DEF SendInv, Once
  <2>3. \A r \in Servers : pc'[r] = "reply" =>
          \A i \in DOMAIN msg_queue' : ~SameRequest(serving[r], msg_queue'[i])
    BY <1>q, <1>s, <2>1 DEF SendInv, Once
  <2> QED
    BY <1>0, <1>s, <2>2, <2>3 DEF SendInv, Once, SameRequest
<1>5. WaiterIsKnown'
  <2>1. \A d \in Clients : InFlight(d) => InFlight(d)'
    BY <1>0, <1>q, <1>s DEF InFlight, Request
  <2> QED
    BY <1>0, <1>s, <2>1 DEF SendInv, WaiterIsKnown
<1> QED
  BY <1>1, <1>2, <1>3, <1>4, <1>5 DEF SendInv

(* try_consume keeps the types of what it touches.                         *)
LEMMA ConsumeTypes ==
    ASSUME SendInv, NEW s \in Servers, Consume(s)
    PROVE  /\ msg_queue' \in Seq(Messages) /\ Len(msg_queue') <= QueueMax
           /\ serving' \in [Servers -> Messages] /\ notify_bits' \in BOOLEAN
<1> USE ChannelAssumption
<1>0. msg_queue \in Seq(Messages) /\ Len(msg_queue) <= QueueMax /\ serving \in [Servers -> Messages]
      /\ notify_bits \in BOOLEAN
  BY DEF SendInv, TypeInv, TypeOK
<1>1. CASE msg_queue # <<>>
  <2>1. /\ Head(msg_queue) \in Messages /\ Tail(msg_queue) \in Seq(Messages)
        /\ Len(Tail(msg_queue)) = Len(msg_queue) - 1 /\ Len(msg_queue) \in Nat \ {0}
    BY <1>0, <1>1, TailFacts
  <2>2. /\ msg_queue' = Tail(msg_queue) /\ notify_bits' = notify_bits
        /\ serving' = [serving EXCEPT ![s] = Head(msg_queue)]
    BY <1>1 DEF Consume, Empty
  <2> QED
    BY <1>0, <2>1, <2>2
<1>2. CASE msg_queue = <<>>
  BY <1>0, <1>2 DEF Consume, Empty
<1> QED
  BY <1>1, <1>2

(* The oldest message leaves the queue; a request is then the server's.    *)
LEMMA ReturnKeeps ==
    ASSUME SendInv, TypeInv', NEW s \in Servers, Consume(s), pc[s] \notin {"reply", "dead"},
           pc' = [pc EXCEPT ![s] = IF msg_queue # <<>> /\ Head(msg_queue).kind = "request"
                                   THEN "reply" ELSE "idle"],
           UNCHANGED <<in_table, closed, s_pending, pend, frames, pending_senders, calls, strayed>>
    PROVE  SendInv'
<1> USE ChannelAssumption DEF Threads
<1>s. /\ \A d \in Clients : pc'[d] = pc[d]
      /\ \A r \in Servers \ {s} : pc'[r] = pc[r]
  BY DEF SendInv, TypeInv
<1>1. CASE msg_queue = <<>>
  <2>1. pc'[s] = "idle" /\ UNCHANGED <<msg_queue, serving>>
    BY <1>1 DEF Consume, SendInv, TypeInv
  <2> QED
    BY <1>s, <2>1, FrameStays DEF ClientMoves, ServerMoves
<1>2. CASE msg_queue # <<>>
  <2>0. /\ msg_queue' = Tail(msg_queue) /\ serving' = [serving EXCEPT ![s] = Head(msg_queue)]
        /\ msg_queue \in Seq(Messages) /\ serving \in [Servers -> Messages]
    BY <1>2 DEF Consume, Empty, SendInv, TypeInv, TypeOK
  <2>q. /\ Head(msg_queue) = msg_queue[1] /\ 1 \in DOMAIN msg_queue
        /\ \A k \in DOMAIN msg_queue' :
              k \in Nat \ {0} /\ k + 1 \in DOMAIN msg_queue /\ k + 1 # 1 /\ msg_queue'[k] = msg_queue[k + 1]
        /\ \A k \in DOMAIN msg_queue : k # 1 => k - 1 \in DOMAIN msg_queue' /\ msg_queue'[k - 1] = msg_queue[k]
    BY <1>2, <2>0, TailFacts
  <2>v. /\ serving'[s] = msg_queue[1] /\ \A r \in Servers \ {s} : serving'[r] = serving[r]
        /\ pc'[s] = IF msg_queue[1].kind = "request" THEN "reply" ELSE "idle"
    BY <1>2, <2>0, <2>q DEF SendInv, TypeInv
  <2>c. \A m : Current(m) <=> Current(m)'
    BY <1>s DEF Current
  <2>2. Slots'
    BY <1>s DEF SendInv, Slots
  <2>3. Requests'
    <3>1. \A i \in DOMAIN msg_queue' : Current(msg_queue[i])'
      <4> SUFFICES ASSUME NEW i \in DOMAIN msg_queue' PROVE Current(msg_queue[i])'
        OBVIOUS
      <4>1. Current(msg_queue[i + 1]) /\ msg_queue'[i] = msg_queue[i + 1]
        BY <2>q DEF SendInv, Requests
      <4>2. \A m : m = msg_queue[i + 1] => Current(m)'
        BY <2>c, <4>1
      <4> QED
        BY <4>1, <4>2 DEF Current
    <3>2. \A r \in Servers : pc'[r] = "reply" => serving'[r].kind = "request" /\ Current(serving[r])'
      <4> SUFFICES ASSUME NEW r \in Servers, pc'[r] = "reply"
                   PROVE  serving'[r].kind = "request" /\ Current(serving[r])'
        OBVIOUS
      <4>1. PICK m : m = serving'[r]
        OBVIOUS
      <4>2. m.kind = "request" /\ Current(m)
        BY <1>s, <2>q, <2>v, <4>1 DEF SendInv, Requests
      <4>3. Current(m)'
        BY <2>c, <4>2
      <4> QED
        BY <4>1, <4>2, <4>3 DEF Current
    <3> QED
      BY <3>1, <3>2 DEF Requests
  <2>4. Once'
    <3>1. \A i, j \in DOMAIN msg_queue' : SameRequest(msg_queue'[i], msg_queue'[j]) => i = j
      <4> SUFFICES ASSUME NEW i \in DOMAIN msg_queue', NEW j \in DOMAIN msg_queue',
                          SameRequest(msg_queue'[i], msg_queue'[j])
                   PROVE  i = j
        OBVIOUS
      <4>1. i + 1 = j + 1
        BY <2>q DEF SendInv, Once
      <4> QED
        BY <2>q, <4>1
    <3>2. \A r \in Servers : pc'[r] = "reply" =>
            \A i \in DOMAIN msg_queue' : ~SameRequest(serving'[r], msg_queue'[i])
      <4> SUFFICES ASSUME NEW r \in Servers, pc'[r] = "reply", NEW i \in DOMAIN msg_queue'
                   PROVE  ~SameRequest(serving'[r], msg_queue'[i])
        OBVIOUS
      <4>1. CASE r = s
        BY <2>q, <2>v, <4>1 DEF SendInv, Once
      <4>2. CASE r # s
        BY <1>s, <2>q, <2>v, <4>2 DEF SendInv, Once
      <4> QED
        BY <4>1, <4>2
    <3>3. \A r, x \in Servers : pc'[r] = "reply" /\ pc'[x] = "reply" /\ SameRequest(serving'[r], serving'[x]) => x = r
      <4>1. \A r \in Servers \ {s} : pc'[r] = "reply" =>
               ~SameRequest(serving'[r], serving'[s]) /\ ~SameRequest(serving'[s], serving'[r])
        BY <1>s, <2>q, <2>v DEF SendInv, Once, SameRequest
      <4> QED
        BY <1>s, <2>v, <4>1 DEF SendInv, Once
    <3> QED
      BY <3>1, <3>2, <3>3 DEF Once, SameRequest
  <2>5. WaiterIsKnown'
    <3>1. ASSUME NEW d \in Clients, InFlight(d) PROVE InFlight(d)'
      <4>0. Request(d)' = Request(d) /\ Request(d).kind = "request"
        BY DEF Request
      <4>1. CASE \E r \in Servers : pc[r] \in {"reply", "dead"} /\ serving[r] = Request(d)
        BY <1>s, <2>v, <4>0, <4>1 DEF InFlight
      <4>2. ASSUME NEW i \in DOMAIN msg_queue, msg_queue[i] = Request(d) PROVE InFlight(d)'
        <5>1. CASE i = 1
          BY <2>v, <4>0, <4>2, <5>1 DEF InFlight
        <5>2. CASE i # 1
          <6>1. i - 1 \in DOMAIN msg_queue' /\ msg_queue'[i - 1] = Request(d)'
            BY <2>q, <4>0, <4>2, <5>2
          <6> QED
            BY <6>1 DEF InFlight
        <5> QED
          BY <5>1, <5>2
      <4> QED
        BY <3>1, <4>1, <4>2 DEF InFlight
    <3> QED
      BY <1>s, <3>1 DEF SendInv, WaiterIsKnown
  <2> QED
    BY <2>2, <2>3, <2>4, <2>5 DEF SendInv
<1> QED
  BY <1>1, <1>2

(* The first try of a receive, under the port's lock.                      *)
LEMMA ReceiveTryInv ==
    ASSUME SendInv, NEW s \in Servers, ReceiveTry(s)
    PROVE  SendInv'
<1> USE ChannelAssumption DEF Threads, life, queues, sender
<1>0. /\ pc[s] = "r_try" /\ refs' \subseteq refs
      /\ UNCHANGED <<life, notify_waiters, sender, calls, result, batch, strayed, setup>>
  BY DEF ReceiveTry, Return, Goto, Put
<1>t. /\ recv_waiters' \in Seq(Servers)
      /\ state' \in [Threads -> {"RUNNING", "READY", "BLOCKED", "DEAD"}]
  BY DEF ReceiveTry, SendInv, TypeInv, TypeOK
<1>1. CASE Return(s, "r_try")
  <2>0. /\ Consume(s)
        /\ pc' = [pc EXCEPT ![s] = IF msg_queue # <<>> /\ Head(msg_queue).kind = "request"
                                   THEN "reply" ELSE "idle"]
    BY <1>1 DEF Return, Goto
  <2>p. /\ pc' \in [Threads -> ClientPlaces \cup ServerPlaces] /\ pc'[s] \in ServerPlaces
        /\ \A d \in Clients : pc'[d] = pc[d]
        /\ \A r \in Servers \ {s} : pc'[r] = pc[r]
    BY <2>0 DEF SendInv, TypeInv, ServerPlaces
  <2>q. /\ msg_queue' \in Seq(Messages) /\ Len(msg_queue') <= QueueMax
        /\ serving' \in [Servers -> Messages] /\ notify_bits' \in BOOLEAN
    BY <2>0, ConsumeTypes
  <2>1. TypeInv'
    <3>1. \A r \in Servers : pc'[r] \in ServerPlaces
      BY <2>p DEF SendInv, TypeInv, TypeOK
    <3> QED
      BY <1>0, <1>t, <2>p, <2>q, <3>1 DEF SendInv, TypeInv, TypeOK
  <2> QED
    BY <1>0, <2>0, <2>1, ReturnKeeps
<1>2. CASE ~Return(s, "r_try")
  <2>0. /\ pc' = [pc EXCEPT ![s] = "r_prepare"] /\ UNCHANGED <<msg_queue, notify_bits, serving>>
    BY <1>2 DEF ReceiveTry, Goto
  <2>p. /\ pc' \in [Threads -> ClientPlaces \cup ServerPlaces] /\ pc'[s] = "r_prepare"
        /\ \A d \in Clients : pc'[d] = pc[d]
        /\ \A r \in Servers \ {s} : pc'[r] = pc[r]
    BY <2>0 DEF SendInv, TypeInv, ServerPlaces
  <2>1. TypeInv'
    BY <1>0, <1>t, <2>0, <2>p DEF SendInv, TypeInv, TypeOK, ServerPlaces
  <2> QED
    BY <1>0, <2>0, <2>p, <2>1, FrameStays DEF ClientMoves, ServerMoves
<1> QED
  BY <1>1, <1>2

(* ipc_receive_nowait.                                                     *)
LEMMA ReceiveNowaitInv ==
    ASSUME SendInv, NEW s \in Servers, ReceiveNowait(s)
    PROVE  SendInv'
<1> USE ChannelAssumption DEF Threads, life, queues, sender
<1>0. /\ pc[s] = "t_try" /\ refs' \subseteq refs
      /\ UNCHANGED <<life, notify_waiters, sender, calls, result, batch, strayed, setup>>
  BY DEF ReceiveNowait, Return, Goto, Put
<1>t. /\ recv_waiters' \in Seq(Servers)
      /\ state' \in [Threads -> {"RUNNING", "READY", "BLOCKED", "DEAD"}]
  BY DEF ReceiveNowait, SendInv, TypeInv, TypeOK
<1>1. CASE Return(s, "t_try")
  <2>0. /\ Consume(s)
        /\ pc' = [pc EXCEPT ![s] = IF msg_queue # <<>> /\ Head(msg_queue).kind = "request"
                                   THEN "reply" ELSE "idle"]
    BY <1>1 DEF Return, Goto
  <2>p. /\ pc' \in [Threads -> ClientPlaces \cup ServerPlaces] /\ pc'[s] \in ServerPlaces
        /\ \A d \in Clients : pc'[d] = pc[d]
        /\ \A r \in Servers \ {s} : pc'[r] = pc[r]
    BY <2>0 DEF SendInv, TypeInv, ServerPlaces
  <2>q. /\ msg_queue' \in Seq(Messages) /\ Len(msg_queue') <= QueueMax
        /\ serving' \in [Servers -> Messages] /\ notify_bits' \in BOOLEAN
    BY <2>0, ConsumeTypes
  <2>1. TypeInv'
    <3>1. \A r \in Servers : pc'[r] \in ServerPlaces
      BY <2>p DEF SendInv, TypeInv, TypeOK
    <3> QED
      BY <1>0, <1>t, <2>p, <2>q, <3>1 DEF SendInv, TypeInv, TypeOK
  <2> QED
    BY <1>0, <2>0, <2>1, ReturnKeeps
<1>2. CASE ~Return(s, "t_try")
  <2>0. /\ pc' = [pc EXCEPT ![s] = "idle"] /\ UNCHANGED <<msg_queue, notify_bits, serving>>
    BY <1>2 DEF ReceiveNowait, Goto
  <2>p. /\ pc' \in [Threads -> ClientPlaces \cup ServerPlaces] /\ pc'[s] = "idle"
        /\ \A d \in Clients : pc'[d] = pc[d]
        /\ \A r \in Servers \ {s} : pc'[r] = pc[r]
    BY <2>0 DEF SendInv, TypeInv, ServerPlaces
  <2>1. TypeInv'
    BY <1>0, <1>t, <2>0, <2>p DEF SendInv, TypeInv, TypeOK, ServerPlaces
  <2> QED
    BY <1>0, <2>0, <2>p, <2>1, FrameStays DEF ClientMoves, ServerMoves
<1> QED
  BY <1>1, <1>2

(* The second look, after wait_prepare.                                    *)
LEMMA ReceiveRecheckInv ==
    ASSUME SendInv, NEW s \in Servers, ReceiveRecheck(s)
    PROVE  SendInv'
<1> USE ChannelAssumption DEF Threads, life, queues, sender
<1>0. /\ pc[s] = "r_recheck" /\ refs' \subseteq refs
      /\ UNCHANGED <<life, notify_waiters, sender, calls, result, batch, strayed, setup>>
  BY DEF ReceiveRecheck, Return, Goto, Put
<1>t. /\ recv_waiters' \in Seq(Servers)
      /\ state' \in [Threads -> {"RUNNING", "READY", "BLOCKED", "DEAD"}]
  <2>1. recv_waiters' \in {recv_waiters, Without(recv_waiters, s)}
        /\ state' \in {state, [state EXCEPT ![s] = "RUNNING"]}
    BY DEF ReceiveRecheck
  <2>2. recv_waiters \in Seq(Servers)
        /\ state \in [Threads -> {"RUNNING", "READY", "BLOCKED", "DEAD"}]
    BY DEF SendInv, TypeInv, TypeOK
  <2>3. Without(recv_waiters, s) \in Seq(Servers)
    BY <2>2, WithoutFacts
  <2> QED
    BY <2>1, <2>2, <2>3
<1>1. CASE Return(s, "r_recheck")
  <2>0. /\ Consume(s)
        /\ pc' = [pc EXCEPT ![s] = IF msg_queue # <<>> /\ Head(msg_queue).kind = "request"
                                   THEN "reply" ELSE "idle"]
    BY <1>1 DEF Return, Goto
  <2>p. /\ pc' \in [Threads -> ClientPlaces \cup ServerPlaces] /\ pc'[s] \in ServerPlaces
        /\ \A d \in Clients : pc'[d] = pc[d]
        /\ \A r \in Servers \ {s} : pc'[r] = pc[r]
    BY <2>0 DEF SendInv, TypeInv, ServerPlaces
  <2>q. /\ msg_queue' \in Seq(Messages) /\ Len(msg_queue') <= QueueMax
        /\ serving' \in [Servers -> Messages] /\ notify_bits' \in BOOLEAN
    BY <2>0, ConsumeTypes
  <2>1. TypeInv'
    <3>1. \A r \in Servers : pc'[r] \in ServerPlaces
      BY <2>p DEF SendInv, TypeInv, TypeOK
    <3> QED
      BY <1>0, <1>t, <2>p, <2>q, <3>1 DEF SendInv, TypeInv, TypeOK
  <2> QED
    BY <1>0, <2>0, <2>1, ReturnKeeps
<1>2. CASE ~Return(s, "r_recheck")
  <2>0. /\ pc' = [pc EXCEPT ![s] = "r_asleep"] /\ UNCHANGED <<msg_queue, notify_bits, serving>>
    BY <1>2 DEF ReceiveRecheck, Goto
  <2>p. /\ pc' \in [Threads -> ClientPlaces \cup ServerPlaces] /\ pc'[s] = "r_asleep"
        /\ \A d \in Clients : pc'[d] = pc[d]
        /\ \A r \in Servers \ {s} : pc'[r] = pc[r]
    BY <2>0 DEF SendInv, TypeInv, ServerPlaces
  <2>1. TypeInv'
    BY <1>0, <1>t, <2>0, <2>p DEF SendInv, TypeInv, TypeOK, ServerPlaces
  <2> QED
    BY <1>0, <2>0, <2>p, <2>1, FrameStays DEF ClientMoves, ServerMoves
<1> QED
  BY <1>1, <1>2

(* ipc_reply_staged writes the record the slot points to, and no other.    *)
LEMMA AnswerFacts ==
    ASSUME TypeInv, NEW c \in Clients, NEW k \in 0 .. MaxCalls, Answer(c, k)
    PROVE  /\ pend' \in [Clients -> [received : BOOLEAN, dead : BOOLEAN, answer : 0 .. MaxCalls]]
           /\ state' \in [Threads -> {"RUNNING", "READY", "BLOCKED", "DEAD"}]
           /\ \A d \in Clients \ {c} : pend'[d] = pend[d]
           /\ pend'[c].dead = pend[c].dead
           /\ c \in s_pending => pend'[c].received /\ pend'[c].answer = k
           /\ c \notin s_pending => pend' = pend
           /\ reply_wait' \subseteq reply_wait
<1>0. /\ pend \in [Clients -> [received : BOOLEAN, dead : BOOLEAN, answer : 0 .. MaxCalls]]
      /\ state \in [Threads -> {"RUNNING", "READY", "BLOCKED", "DEAD"}]
  BY DEF TypeInv, TypeOK
<1>1. CASE c \in s_pending
  <2>1. /\ pend' = [pend EXCEPT ![c].received = TRUE, ![c].answer = k]
        /\ Unblock({c} \cap reply_wait) /\ reply_wait' = reply_wait \ {c}
    BY <1>1 DEF Answer
  <2>2. state' \in [Threads -> {"RUNNING", "READY", "BLOCKED", "DEAD"}]
    BY <2>1, UnblockTypes
  <2>3. pend' = [pend EXCEPT ![c] = [pend[c] EXCEPT !.received = TRUE, !.answer = k]]
    BY <1>0, <2>1
  <2>4. pend[c] \in [received : BOOLEAN, dead : BOOLEAN, answer : 0 .. MaxCalls]
    BY <1>0
  <2>5. /\ [pend[c] EXCEPT !.received = TRUE, !.answer = k]
              \in [received : BOOLEAN, dead : BOOLEAN, answer : 0 .. MaxCalls]
        /\ [pend[c] EXCEPT !.received = TRUE, !.answer = k].received
        /\ [pend[c] EXCEPT !.received = TRUE, !.answer = k].answer = k
        /\ [pend[c] EXCEPT !.received = TRUE, !.answer = k].dead = pend[c].dead
    BY <2>4
  <2>6. pend'[c] = [pend[c] EXCEPT !.received = TRUE, !.answer = k]
    BY <1>0, <2>3
  <2> QED
    BY <1>0, <1>1, <2>1, <2>2, <2>3, <2>5, <2>6
<1>2. CASE c \notin s_pending
  BY <1>0, <1>2 DEF Answer
<1> QED
  BY <1>1, <1>2

(* An answer goes to the one who waits for it.                             *)
LEMMA ReplyInv ==
    ASSUME SendInv, NEW s \in Servers, Reply(s)
    PROVE  SendInv'
<1> USE ChannelAssumption DEF Threads, life, queues, sender
<1> DEFINE c == serving[s].from k == serving[s].call
<1>0. /\ pc[s] = "reply" /\ pc' = [pc EXCEPT ![s] = "idle"] /\ Answer(c, k)
      /\ UNCHANGED <<life, queues, refs, s_pending, frames, pending_senders, receiver, calls,
                     result, serving, batch, strayed, setup>>
  BY DEF Reply, Goto
<1>m. /\ serving[s].kind = "request" /\ Current(serving[s]) /\ c \in Clients
      /\ k \in 0 .. MaxCalls /\ (c \notin strayed => k = calls[c])
  <2>1. serving[s].kind = "request" /\ Current(serving[s]) /\ serving[s] \in Messages
    BY <1>0 DEF SendInv, Requests, TypeInv, TypeOK
  <2> QED
    BY <2>1 DEF Current, Messages
<1>s. /\ \A d \in Clients : pc'[d] = pc[d]
      /\ \A r \in Servers \ {s} : pc'[r] = pc[r]
      /\ pc'[s] = "idle" /\ pc' \in [Threads -> ClientPlaces \cup ServerPlaces]
  BY <1>0 DEF SendInv, TypeInv, ServerPlaces
<1> HIDE DEF c, k
<1>p. /\ pend' \in [Clients -> [received : BOOLEAN, dead : BOOLEAN, answer : 0 .. MaxCalls]]
      /\ state' \in [Threads -> {"RUNNING", "READY", "BLOCKED", "DEAD"}]
      /\ \A d \in Clients \ {c} : pend'[d] = pend[d]
      /\ pend'[c].dead = pend[c].dead
      /\ c \in s_pending => pend'[c].received /\ pend'[c].answer = k
      /\ c \notin s_pending => pend' = pend
      /\ reply_wait' \subseteq reply_wait
  BY <1>0, <1>m, AnswerFacts DEF SendInv
<1>1. TypeInv'
  BY <1>0, <1>s, <1>p DEF SendInv, TypeInv, TypeOK, ServerPlaces
<1>a. /\ c \notin strayed => pc[c] \in Waiting \cup {"dead", "idle", "s_unpend", "s_unlink"}
      /\ pend[c].received => pend'[c].received
  BY <1>m, <1>p DEF Current, c
<1>2. Slots'
  <2> SUFFICES ASSUME NEW d \in Clients PROVE Slots!(d)'
    BY DEF Slots
  <2>1. CASE d = c
    BY <1>0, <1>m, <1>s, <1>p, <1>a, <2>1 DEF SendInv, TypeInv, TypeOK, Slots, Framed, Pended, Waiting
  <2>2. CASE d # c
    BY <1>0, <1>s, <1>p, <2>2 DEF SendInv, Slots
  <2> QED
    BY <2>1, <2>2
<1>o. /\ \A i \in DOMAIN msg_queue : ~SameRequest(serving[s], msg_queue[i])
      /\ \A r \in Servers \ {s} : pc[r] = "reply" => ~SameRequest(serving[s], serving[r])
  BY <1>0 DEF SendInv, Once
<1>c. \A m : Current(m) /\ ~SameRequest(serving[s], m) => Current(m)'
  BY <1>0, <1>m, <1>s, <1>p DEF Current, SameRequest, c
<1>3. Requests'
  BY <1>0, <1>s, <1>o, <1>c DEF SendInv, Requests
<1>4. Once'
  BY <1>0, <1>s DEF SendInv, Once, SameRequest
<1>5. WaiterIsKnown'
  <2> SUFFICES ASSUME NEW d \in Clients, pc[d] \in Waiting
               PROVE  pend'[d].received \/ (InFlight(d)' /\ d \in pending_senders')
    BY <1>s DEF WaiterIsKnown, Waiting
  <2>1. CASE d = c
    BY <1>p, <2>1 DEF SendInv, Slots, Pended
  <2>2. CASE d # c
    <3>1. Request(d) # serving[s] /\ Request(d)' = Request(d)
      BY <1>0, <2>2 DEF Request, c
    <3>2. InFlight(d) => InFlight(d)'
      BY <1>0, <1>s, <3>1 DEF InFlight
    <3> QED
      BY <1>0, <1>p, <2>2, <3>2 DEF SendInv, WaiterIsKnown, Waiting
  <2> QED
    BY <2>1, <2>2
<1> QED
  BY <1>1, <1>2, <1>3, <1>4, <1>5 DEF SendInv

(* A reply out of turn ends the wait of the client it hits: its record     *)
(* stays in order, its requests may outlive their call.                    *)
LEMMA StrayReplyInv ==
    ASSUME SendInv, NEW t \in Threads, NEW c \in Clients, StrayReply(t, c)
    PROVE  SendInv'
<1> USE ChannelAssumption DEF life, queues, sender
<1>0. /\ c \in s_pending /\ strayed' = strayed \cup {c}
      /\ Answer(c, IF t \in Servers /\ serving[t].from = c THEN serving[t].call ELSE 0)
      /\ UNCHANGED <<life, queues, refs, s_pending, frames, pending_senders, receiver, pc, calls,
                     result, serving, batch, setup>>
  BY DEF StrayReply
<1>k. PICK k \in 0 .. MaxCalls : Answer(c, k)
  <2>1. (IF t \in Servers /\ serving[t].from = c THEN serving[t].call ELSE 0) \in 0 .. MaxCalls
    BY DEF SendInv, TypeInv, TypeOK, Messages
  <2> QED
    BY <1>0, <2>1
<1>p. /\ pend' \in [Clients -> [received : BOOLEAN, dead : BOOLEAN, answer : 0 .. MaxCalls]]
      /\ state' \in [Threads -> {"RUNNING", "READY", "BLOCKED", "DEAD"}]
      /\ \A d \in Clients \ {c} : pend'[d] = pend[d]
      /\ pend'[c].dead = pend[c].dead /\ pend'[c].received
      /\ reply_wait' \subseteq reply_wait
  BY <1>0, <1>k, AnswerFacts DEF SendInv
<1>1. TypeInv'
  BY <1>0, <1>p DEF SendInv, TypeInv, TypeOK
<1>2. Slots'
  <2> SUFFICES ASSUME NEW d \in Clients PROVE Slots!(d)'
    BY DEF Slots
  <2>1. CASE d = c
    BY <1>0, <1>p, <2>1 DEF SendInv, Slots
  <2>2. CASE d # c
    BY <1>0, <1>p, <2>2 DEF SendInv, Slots
  <2> QED
    BY <2>1, <2>2
<1>c. \A m : Current(m) => Current(m)'
  BY <1>0, <1>p DEF Current
<1>3. Requests'
  BY <1>0, <1>c DEF SendInv, Requests
<1>4. Once'
  BY <1>0 DEF SendInv, Once, SameRequest
<1>5. WaiterIsKnown'
  BY <1>0, <1>p DEF SendInv, WaiterIsKnown, InFlight, Request
<1> QED
  BY <1>1, <1>2, <1>3, <1>4, <1>5 DEF SendInv

(* ipc_port_destroy closes the port and takes it out of the table: nothing *)
(* new can begin.                                                          *)
LEMMA DestroyUnlinkInv ==
    ASSUME SendInv, DestroyUnlink
    PROVE  SendInv'
<1> USE ChannelAssumption DEF Threads, life, queues, sender
<1>0. /\ closed' = TRUE /\ in_table' = FALSE /\ has_pending' \in BOOLEAN /\ dpc' = "wake_recv"
      /\ UNCHANGED <<slot_ref, queues, refs, sender, state, pc, calls, result, serving, batch, strayed, setup>>
  BY DEF DestroyUnlink, Destroyer
<1>c. \A m : Current(m) => Current(m)'
  BY <1>0 DEF Current
<1>1. TypeInv'
  BY <1>0 DEF SendInv, TypeInv, TypeOK
<1>2. Slots'
  BY <1>0 DEF SendInv, Slots
<1>3. Requests' /\ Once'
  BY <1>0, <1>c, QueueStays
<1>5. WaiterIsKnown'
  BY <1>0, <1>c, QueueStays DEF SendInv, WaiterIsKnown
<1> QED
  BY <1>1, <1>2, <1>3, <1>5 DEF SendInv

(* Under the port's lock, up to a batch of senders is marked and unlinked. *)
LEMMA DestroyMarkInv ==
    ASSUME SendInv, DestroyMark
    PROVE  SendInv'
<1> USE ChannelAssumption DEF Threads, life, queues, sender
<1>0. PICK b \in SUBSET pending_senders :
        /\ dpc = "mark" /\ dpc' \in {"drop", "wake_senders"} /\ batch' = b
        /\ pend' = [c \in Clients |-> IF c \in b
                        THEN [pend[c] EXCEPT !.dead = TRUE, !.received = TRUE]
                        ELSE pend[c]]
        /\ pending_senders' = pending_senders \ b
        /\ UNCHANGED <<in_table, closed, slot_ref, has_pending, queues, refs, s_pending,
                       reply_wait, frames, receiver, state, pc, calls, result, serving, strayed, setup>>
  BY DEF DestroyMark, Destroyer
<1>k. closed
  BY <1>0 DEF SendInv, TypeInv
<1>p. /\ pend' \in [Clients -> [received : BOOLEAN, dead : BOOLEAN, answer : 0 .. MaxCalls]]
      /\ \A c \in Clients : pend'[c].answer = pend[c].answer
      /\ \A c \in b : pend'[c].received /\ pend'[c].dead
      /\ \A c \in Clients \ b : pend'[c] = pend[c]
  <2>1. /\ pend \in [Clients -> [received : BOOLEAN, dead : BOOLEAN, answer : 0 .. MaxCalls]]
        /\ b \subseteq Clients
    BY DEF SendInv, TypeInv, TypeOK
  <2>2. \A c \in b : pend[c] \in [received : BOOLEAN, dead : BOOLEAN, answer : 0 .. MaxCalls]
    BY <2>1
  <2>3. \A c \in b : [pend[c] EXCEPT !.dead = TRUE, !.received = TRUE]
                        \in [received : BOOLEAN, dead : BOOLEAN, answer : 0 .. MaxCalls]
    BY <2>2
  <2> QED
    BY <1>0, <2>1, <2>2, <2>3
<1>c. \A m : Current(m) => Current(m)'
  BY <1>0, <1>k DEF Current
<1>1. TypeInv'
  BY <1>0, <1>k, <1>p DEF SendInv, TypeInv, TypeOK
<1>2. Slots'
  <2> SUFFICES ASSUME NEW d \in Clients PROVE Slots!(d)'
    BY DEF Slots
  <2>1. CASE d \in b
    BY <1>0, <1>p, <2>1 DEF SendInv, Slots, Framed, Pended, Waiting
  <2>2. CASE d \notin b
    BY <1>0, <1>p, <2>2 DEF SendInv, Slots
  <2> QED
    BY <2>1, <2>2
<1>3. Requests' /\ Once'
  BY <1>0, <1>c, QueueStays
<1>5. WaiterIsKnown'
  BY <1>0, <1>c, <1>p, QueueStays DEF SendInv, WaiterIsKnown
<1> QED
  BY <1>1, <1>2, <1>3, <1>5 DEF SendInv

(* The sender's process ends while it sleeps in its call.                  *)
LEMMA KillInv ==
    ASSUME SendInv, NEW c \in Clients, Kill(c)
    PROVE  SendInv'
<1> USE ChannelAssumption DEF Threads, life, queues, sender
<1>0. /\ pc[c] = "s_asleep" /\ pc' = [pc EXCEPT ![c] = "dead"]
      /\ state' = [state EXCEPT ![c] = "DEAD"] /\ reply_wait' = reply_wait \ {c}
      /\ UNCHANGED <<life, queues, refs, s_pending, pend, frames, pending_senders, receiver,
                     calls, result, serving, batch, strayed, setup>>
  BY DEF Kill, Goto
<1>s. /\ \A r \in Servers : pc'[r] = pc[r]
      /\ \A d \in Clients \ {c} : pc'[d] = pc[d]
      /\ pc'[c] = "dead" /\ pc' \in [Threads -> ClientPlaces \cup ServerPlaces]
  BY <1>0 DEF SendInv, TypeInv, ClientPlaces
<1>c. \A m : Current(m) => Current(m)'
  BY <1>0, <1>s DEF Current, Waiting
<1>1. TypeInv'
  BY <1>0, <1>s DEF SendInv, TypeInv, TypeOK, ClientPlaces
<1>2. Slots'
  BY <1>0, <1>s DEF SendInv, Slots, Framed, Pended, Waiting
<1>3. Requests' /\ Once'
  BY <1>0, <1>c, <1>s, QueueStays
<1>5. WaiterIsKnown'
  BY <1>0, <1>c, <1>s, QueueStays DEF SendInv, WaiterIsKnown
<1> QED
  BY <1>1, <1>2, <1>3, <1>5 DEF SendInv

(* The reaper withdraws the record of a dead sender.                       *)
LEMMA CleanupThreadInv ==
    ASSUME SendInv, NEW c \in Clients, CleanupThread(c)
    PROVE  SendInv'
<1> USE ChannelAssumption DEF Threads, life, queues, sender
<1>0. /\ pc[c] = "dead" /\ s_pending' = s_pending \ {c}
      /\ pend' = [pend EXCEPT ![c] = [pend[c] EXCEPT !.dead = TRUE, !.received = TRUE]]
      /\ pending_senders' = IF in_table THEN pending_senders \ {c} ELSE pending_senders
      /\ UNCHANGED <<life, queues, refs, reply_wait, frames, receiver, state, pc, calls,
                     result, serving, batch, strayed, setup>>
  BY DEF CleanupThread, Reaper, SendInv, TypeInv, TypeOK
<1>p. /\ pend' \in [Clients -> [received : BOOLEAN, dead : BOOLEAN, answer : 0 .. MaxCalls]]
      /\ \A d \in Clients : pend'[d].answer = pend[d].answer
      /\ \A d \in Clients \ {c} : pend'[d] = pend[d]
  <2>1. /\ pend \in [Clients -> [received : BOOLEAN, dead : BOOLEAN, answer : 0 .. MaxCalls]]
        /\ pend[c] \in [received : BOOLEAN, dead : BOOLEAN, answer : 0 .. MaxCalls]
    BY DEF SendInv, TypeInv, TypeOK
  <2>2. [pend[c] EXCEPT !.dead = TRUE, !.received = TRUE]
           \in [received : BOOLEAN, dead : BOOLEAN, answer : 0 .. MaxCalls]
    BY <2>1
  <2> QED
    BY <1>0, <2>1, <2>2
<1>c. \A m : Current(m) => Current(m)'
  BY <1>0, <1>p DEF Current, Waiting
<1>1. TypeInv'
  BY <1>0, <1>p DEF SendInv, TypeInv, TypeOK
<1>2. Slots'
  BY <1>0, <1>p DEF SendInv, TypeInv, Slots, Framed, Pended, Waiting
<1>3. Requests' /\ Once'
  BY <1>0, <1>c, QueueStays
<1>5. WaiterIsKnown'
  BY <1>0, <1>c, <1>p, QueueStays DEF SendInv, WaiterIsKnown
<1> QED
  BY <1>1, <1>2, <1>3, <1>5 DEF SendInv

(* The stack of a dead sender is freed.                                    *)
LEMMA ReleaseStackInv ==
    ASSUME SendInv, NEW c \in Clients, ReleaseStack(c)
    PROVE  SendInv'
<1> USE ChannelAssumption DEF Threads, life, queues, sender
<1>0. /\ pc[c] = "dead" /\ c \notin s_pending /\ frames' = frames \ {c}
      /\ UNCHANGED <<life, queues, refs, s_pending, pend, reply_wait, pending_senders,
                     receiver, state, pc, calls, result, serving, batch, strayed, setup>>
  BY DEF ReleaseStack, Reaper
<1>c. \A m : Current(m) => Current(m)'
  BY <1>0 DEF Current
<1>1. TypeInv'
  BY <1>0 DEF SendInv, TypeInv, TypeOK
<1>2. Slots'
  BY <1>0 DEF SendInv, Slots, Framed, Pended, Waiting
<1>3. Requests' /\ Once'
  BY <1>0, <1>c, QueueStays
<1>5. WaiterIsKnown'
  BY <1>0, <1>c, QueueStays DEF SendInv, WaiterIsKnown
<1> QED
  BY <1>1, <1>2, <1>3, <1>5 DEF SendInv

----------------------------------------------------------------------------
(* Every step of the channel keeps the invariant.                          *)
LEMMA NextInv == SendInv /\ Next => SendInv'
<1> SUFFICES ASSUME SendInv, Next PROVE SendInv'
  OBVIOUS
<1>1. ASSUME NEW c \in Clients, ClientStep(c) PROVE SendInv'
  BY <1>1, SendCheckInv, SendRefusedInv, SendEnqueueInv, SendFullInv, SendExtractInv,
     SendHandoffInv, SendWaitInv, SendPrepareInv, SendRecheckInv, SendWakeInv, SendUnpendInv,
     SendUnlinkInv, PostCheckInv, PostRefusedInv, PostEnqueueInv, PostFullInv, PostWakeInv,
     NotifyCheckInv, NotifySetInv, NotifyRefusedInv, NotifyWakeInv, NotifyWakeRecvInv, CleanupThreadInv,
     ReleaseStackInv DEF ClientStep
<1>2. ASSUME NEW c \in Clients, SendGet(c) \/ PostGet(c) \/ NotifyGet(c) \/ Kill(c)
      PROVE  SendInv'
  BY <1>2, BeginCallInv, KillInv
<1>3. ASSUME NEW s \in Servers, ServerStep(s) PROVE SendInv'
  BY <1>3, ReceiveTryInv, ReceiveNowaitInv, ReceivePrepareInv, ReceiveRecheckInv,
     ReceiveWakeInv, WaitNotifyTryInv, WaitNotifyPrepareInv, WaitNotifyRecheckInv,
     WaitNotifyWakeInv, ReplyInv DEF ServerStep
<1>4. ASSUME NEW s \in Servers, ReceiveGet(s) \/ NowaitGet(s) \/ WaitNotifyGet(s)
      PROVE  SendInv'
  BY <1>4, ServerGetInv DEF ReceiveGet, NowaitGet, WaitNotifyGet
<1>5. CASE OwnerExit \/ DestroyUnlink \/ DestroyStep
  BY <1>5, OwnerExitInv, DestroyUnlinkInv, DestroyWakeRecvInv, DestroyWakeNotifyInv,
     DestroyMarkInv, DestroyWakeSendersInv, DestroyDropInv DEF DestroyStep
<1>6. ASSUME NEW t \in Threads, NEW c \in Clients, StrayReply(t, c) PROVE SendInv'
  BY <1>6, StrayReplyInv
<1> QED
  BY <1>1, <1>2, <1>3, <1>4, <1>5, <1>6 DEF Next

(* The records of senders are in order in every reachable state.           *)
LEMMA AlwaysSendInv == Spec => []SendInv
<1>1. Init => SendInv
  BY InitInv
<1>2. SendInv /\ [Next]_vars => SendInv'
  BY NextInv, StutterInv
<1> QED
  BY <1>1, <1>2, PTL DEF Spec

(* The records of waiting senders (channel.c): whatever interleaving of    *)
(* sends, receives, answers, the port's destroy, its owner's end and kills *)
(* of senders, a sender that still waits is listed and its request is      *)
(* queued or with a server, s_pending never points into a frame that is    *)
(* gone, nor does the list of a port its id still finds; late, repeated    *)
(* and uncalled-for replies by any thread included.                        *)
THEOREM SendersAreKnown == Spec => []ChannelInv
<1>1. SendInv => ChannelInv
  <2> SUFFICES ASSUME SendInv PROVE ChannelInv
    OBVIOUS
  <2>1. PendingSlotsAlive
    BY DEF SendInv, TypeInv, TypeOK, Slots, PendingSlotsAlive
  <2>2. ListedFramesAlive
    BY DEF SendInv, TypeInv, TypeOK, Slots, ListedFramesAlive
  <2> QED
    BY <2>1, <2>2 DEF SendInv, TypeInv, ChannelInv
<1> QED
  BY <1>1, AlwaysSendInv, PTL

(* ipc_send_sync returns IPC_OK only with the answer to this very call,    *)
(* although ipc_reply_staged finds the sender by its tid alone, for every  *)
(* client that no reply out of turn has hit, whatever such replies do to   *)
(* the others and to the servers' requests.                                *)
THEOREM AnswersAreMine == Spec => []AnswerIsMine
<1>1. SendInv => AnswerIsMine
  BY DEF SendInv, Slots, AnswerIsMine, Framed, Pended, Waiting
<1> QED
  BY <1>1, AlwaysSendInv, PTL

----------------------------------------------------------------------------
(* Who sleeps in the port's queues and who is on its way to wake them.     *)
RecvQ == Elements(recv_waiters)
NotifyQ == Elements(notify_waiters)
Distinct(q) == \A i, j \in DOMAIN q : q[i] = q[j] => i = j
ReceivePlaces == {"r_recheck", "r_asleep"}
NotifyPlaces == {"w_recheck", "w_asleep"}
HandedTo(s) == \E c \in Clients : pc[c] = "s_handoff" /\ receiver[c] = s

(* The threads in a queue are blocked between wait_prepare and the return  *)
(* of their call, none is there twice; and whoever is blocked there is in  *)
(* the queue, or a sender has taken it off to switch to it.                *)
Sleepers ==
    /\ Distinct(recv_waiters) /\ Distinct(notify_waiters)
    /\ \A s \in RecvQ : pc[s] \in ReceivePlaces /\ state[s] = "BLOCKED"
    /\ \A s \in NotifyQ : pc[s] \in NotifyPlaces /\ state[s] = "BLOCKED"
    /\ \A s \in Servers : state[s] = "BLOCKED" =>
          /\ pc[s] \in ReceivePlaces => s \in RecvQ \/ HandedTo(s)
          /\ pc[s] \in NotifyPlaces => s \in NotifyQ

(* The switch is to a thread of the same CPU, which cannot run before it.  *)
Handoffs ==
    \A c \in Clients : pc[c] = "s_handoff" =>
        /\ home[receiver[c]] = home[c] /\ receiver[c] \notin RecvQ
        /\ pc[receiver[c]] \in ReceivePlaces

(* While a receiver sleeps in the queue there are no more messages than    *)
(* calls that will wake a receiver and receivers that have been woken.     *)
Movers ==
    {c \in Clients : pc[c] \in {"s_extract", "p_wake"}} \cup
    {s \in Servers : pc[s] = "r_try" \/ (pc[s] \in ReceivePlaces /\ s \notin RecvQ)}
ReceiverSleeps == \E s \in RecvQ : pc[s] = "r_asleep"
NotifySleeps == \E s \in NotifyQ : pc[s] = "w_asleep"
Counted == ReceiverSleeps => Len(msg_queue) <= Cardinality(Movers)

(* Nor does anybody sleep on notification bits or the port's death without *)
(* a call that will wake it.                                               *)
Covered ==
    /\ notify_bits /\ NotifySleeps => \E c \in Clients : pc[c] = "n_wake"
    /\ notify_bits /\ ReceiverSleeps => \E c \in Clients : pc[c] \in {"n_wake", "n_wake_recv"}
    /\ closed /\ ReceiverSleeps => dpc = "wake_recv"
    /\ closed /\ NotifySleeps => dpc \in {"wake_recv", "wake_notify"}

SleepInv == Sleepers /\ Handoffs /\ Counted /\ Covered

(* What wait queue operations do to the set of waiters.                    *)
LEMMA EmptyWaits == Elements(<<>>) = {} /\ Distinct(<<>>)
BY DEF Elements, Distinct

(* wait_prepare queues one more.                                           *)
LEMMA AppendWaits ==
    ASSUME NEW S, NEW q \in Seq(S), NEW x \in S, Distinct(q), x \notin Elements(q)
    PROVE  Elements(Append(q, x)) = Elements(q) \cup {x} /\ Distinct(Append(q, x))
<1> DEFINE r == Append(q, x)
<1>1. /\ \A k \in DOMAIN q : k \in DOMAIN r /\ r[k] = q[k]
      /\ Len(q) + 1 \in DOMAIN r /\ r[Len(q) + 1] = x
      /\ \A k \in DOMAIN r : k \in DOMAIN q \/ (k = Len(q) + 1 /\ k \notin DOMAIN q)
  BY AppendFacts
<1> HIDE DEF r
<1>2. Elements(r) = Elements(q) \cup {x}
  BY <1>1 DEF Elements
<1>3. Distinct(r)
  BY <1>1 DEF Distinct, Elements
<1> QED
  BY <1>2, <1>3 DEF r

(* wait_queue_extract_one takes the first off.                             *)
LEMMA TailWaits ==
    ASSUME NEW S, NEW q \in Seq(S), q # <<>>, Distinct(q)
    PROVE  /\ Elements(Tail(q)) = Elements(q) \ {Head(q)} /\ Distinct(Tail(q))
           /\ Head(q) \in Elements(q)
<1> DEFINE r == Tail(q)
           h == Head(q)
<1>1. /\ 1 \in DOMAIN q /\ h = q[1]
      /\ \A k \in DOMAIN r : k \in Nat \ {0} /\ k + 1 \in DOMAIN q /\ k + 1 # 1 /\ r[k] = q[k + 1]
      /\ \A k \in DOMAIN q : k # 1 => k - 1 \in DOMAIN r /\ r[k - 1] = q[k]
  BY TailFacts
<1> HIDE DEF r, h
<1>2. h \in Elements(q)
  BY <1>1 DEF Elements
<1>3. \A y : y \in Elements(r) => y \in Elements(q) /\ y # h
  BY <1>1 DEF Elements, Distinct
<1>4. \A y : y \in Elements(q) /\ y # h => y \in Elements(r)
  <2> SUFFICES ASSUME NEW k \in DOMAIN q, q[k] # h PROVE q[k] \in Elements(r)
    BY DEF Elements
  <2>1. k - 1 \in DOMAIN r /\ r[k - 1] = q[k]
    BY <1>1
  <2> QED
    BY <2>1 DEF Elements
<1>5. Distinct(r)
  <2> SUFFICES ASSUME NEW i \in DOMAIN r, NEW j \in DOMAIN r, r[i] = r[j] PROVE i = j
    BY DEF Distinct
  <2>1. i + 1 = j + 1
    BY <1>1 DEF Distinct
  <2> QED
    BY <1>1, <2>1
<1> QED
  BY <1>2, <1>3, <1>4, <1>5 DEF r, h

(* wait_queue_remove_thread takes one off, wherever it is.                 *)
LEMMA WithoutWaits ==
    ASSUME NEW S, NEW q \in Seq(S), NEW t, Distinct(q)
    PROVE  Elements(Without(q, t)) = Elements(q) \ {t} /\ Distinct(Without(q, t))
<1>1. CASE t \notin Elements(q)
  BY <1>1 DEF Without
<1>2. CASE t \in Elements(q)
  <2> DEFINE at == CHOOSE i \in DOMAIN q : q[i] = t
             r == Drop(q, at)
  <2>1. at \in DOMAIN q /\ q[at] = t
    BY <1>2 DEF Elements
  <2>2. Without(q, t) = r
    BY <1>2 DEF Without
  <2> HIDE DEF at
  <2>3. Len(q) \in Nat /\ DOMAIN q = 1 .. Len(q) /\ at \in Nat /\ 1 <= at /\ at <= Len(q)
    BY <2>1
  <2>4. DOMAIN r = 1 .. Len(q) - 1 /\ \A k \in DOMAIN r : r[k] = q[IF k < at THEN k ELSE k + 1]
    BY DEF Drop
  <2> HIDE DEF r
  <2>5. \A k \in DOMAIN r : (IF k < at THEN k ELSE k + 1) \in DOMAIN q \ {at}
    BY <2>3, <2>4
  <2>6. t \notin Elements(r)
    BY <2>1, <2>4, <2>5 DEF Elements, Distinct
  <2>7. /\ \A u : u \in Elements(r) => u \in Elements(q)
        /\ \A u : u \in Elements(q) /\ u # t => u \in Elements(r)
    BY <2>2, WithoutFacts
  <2>8. Distinct(r)
    <3> SUFFICES ASSUME NEW i \in DOMAIN r, NEW j \in DOMAIN r, r[i] = r[j] PROVE i = j
      BY DEF Distinct
    <3>1. (IF i < at THEN i ELSE i + 1) = (IF j < at THEN j ELSE j + 1)
      BY <2>4, <2>5 DEF Distinct
    <3> QED
      BY <2>3, <2>4, <3>1
  <2> QED
    BY <2>2, <2>6, <2>7, <2>8
<1> QED
  BY <1>1, <1>2

(* A set of threads has a number of elements.                              *)
LEMMA ThreadsFinite ==
    ASSUME NEW M \in SUBSET Threads
    PROVE  /\ IsFiniteSet(M) /\ Cardinality(M) \in Nat
           /\ \A t : /\ Cardinality(M \ {t}) \in Nat /\ Cardinality(M \ {t}) >= Cardinality(M) - 1
                    /\ t \notin M => Cardinality(M \cup {t}) = Cardinality(M) + 1
           /\ \A T \in SUBSET M : Cardinality(T) <= Cardinality(M)
<1>1. IsFiniteSet(M)
  BY ChannelAssumption, FS_Subset
<1>2. Cardinality(M) \in Nat
  BY <1>1, FS_CardinalityType
<1>3. ASSUME NEW t
      PROVE  /\ Cardinality(M \ {t}) \in Nat /\ Cardinality(M \ {t}) >= Cardinality(M) - 1
             /\ t \notin M => Cardinality(M \cup {t}) = Cardinality(M) + 1
  <2>1. /\ IsFiniteSet(M \ {t})
        /\ Cardinality(M \ {t}) = IF t \in M THEN Cardinality(M) - 1 ELSE Cardinality(M)
    BY <1>1, FS_RemoveElement
  <2>2. Cardinality(M \ {t}) \in Nat
    BY <2>1, FS_CardinalityType
  <2>3. Cardinality(M \ {t}) >= Cardinality(M) - 1
    BY <1>2, <2>1
  <2>4. t \notin M => Cardinality(M \cup {t}) = Cardinality(M) + 1
    BY <1>1, FS_AddElement
  <2> QED
    BY <2>2, <2>3, <2>4
<1>4. \A T \in SUBSET M : Cardinality(T) <= Cardinality(M)
  BY <1>1, FS_Subset
<1> QED
  BY <1>1, <1>2, <1>3, <1>4

(* Queues are of servers, and movers are threads.                          *)
LEMMA QueuesOfServers ==
    ASSUME SendInv
    PROVE  /\ Movers \in SUBSET Threads /\ Len(msg_queue) \in Nat
           /\ RecvQ \subseteq Servers /\ NotifyQ \subseteq Servers
BY DEF Movers, Threads, RecvQ, NotifyQ, Elements, SendInv, TypeInv, TypeOK

(* Fewer messages, or more on their way to them.                           *)
LEMMA CountStays ==
    ASSUME SendInv, SendInv', Counted, ReceiverSleeps' => ReceiverSleeps,
           Movers \subseteq Movers', Len(msg_queue') <= Len(msg_queue)
    PROVE  Counted'
<1>1. Movers' \in SUBSET Threads /\ Len(msg_queue') \in Nat
  BY DEF Movers, Threads, SendInv, TypeInv, TypeOK
<1>2. Movers \in SUBSET Threads /\ Len(msg_queue) \in Nat
  BY QueuesOfServers
<1>3. /\ Cardinality(Movers) <= Cardinality(Movers')
      /\ Cardinality(Movers) \in Nat /\ Cardinality(Movers') \in Nat
  BY <1>1, <1>2, ThreadsFinite
<1> QED
  BY <1>1, <1>2, <1>3 DEF Counted

(* No message is left.                                                     *)
LEMMA CountZero ==
    ASSUME SendInv, SendInv', msg_queue' = <<>>
    PROVE  Counted'
<1>1. Movers' \in SUBSET Threads
  BY DEF Movers, Threads
<1>2. Cardinality(Movers') \in Nat /\ Len(<<>>) = 0
  BY <1>1, ThreadsFinite
<1> QED
  BY <1>2 DEF Counted

(* A call that adds a message will wake a receiver.                        *)
LEMMA CountAdds ==
    ASSUME SendInv, SendInv', Counted, ReceiverSleeps' => ReceiverSleeps,
           NEW t, t \notin Movers, t \in Movers', Movers \subseteq Movers',
           Len(msg_queue') = Len(msg_queue) + 1
    PROVE  Counted'
<1>1. Movers' \in SUBSET Threads /\ Cardinality(Movers') \in Nat
  BY ThreadsFinite DEF Movers, Threads
<1>2. Movers \in SUBSET Threads /\ Cardinality(Movers) \in Nat /\ Len(msg_queue) \in Nat
  BY QueuesOfServers, ThreadsFinite
<1>3. Cardinality(Movers \cup {t}) = Cardinality(Movers) + 1
  BY <1>2, ThreadsFinite
<1>4. Cardinality(Movers \cup {t}) <= Cardinality(Movers')
  BY <1>1, ThreadsFinite
<1> QED
  BY <1>1, <1>2, <1>3, <1>4 DEF Counted

(* A receiver that was woken takes a message.                              *)
LEMMA CountTakes ==
    ASSUME SendInv, SendInv', Counted, ReceiverSleeps' => ReceiverSleeps,
           NEW t, Movers \ {t} \subseteq Movers', Len(msg_queue') = Len(msg_queue) - 1
    PROVE  Counted'
<1>1. Movers' \in SUBSET Threads /\ Cardinality(Movers') \in Nat
  BY ThreadsFinite DEF Movers, Threads
<1>2. Movers \in SUBSET Threads /\ Cardinality(Movers) \in Nat /\ Len(msg_queue) \in Nat
  BY QueuesOfServers, ThreadsFinite
<1>3. Cardinality(Movers \ {t}) >= Cardinality(Movers) - 1 /\ Cardinality(Movers \ {t}) \in Nat
  BY <1>2, ThreadsFinite
<1>4. Cardinality(Movers \ {t}) <= Cardinality(Movers')
  BY <1>1, ThreadsFinite
<1> QED
  BY <1>1, <1>2, <1>3, <1>4 DEF Counted

(* A waker hands over to the receiver it has woken.                        *)
LEMMA CountSwaps ==
    ASSUME SendInv, SendInv', Counted, ReceiverSleeps' => ReceiverSleeps,
           NEW t, NEW h, h \notin Movers, h \in Movers', Movers \ {t} \subseteq Movers',
           UNCHANGED msg_queue
    PROVE  Counted'
<1>1. Movers' \in SUBSET Threads /\ Cardinality(Movers') \in Nat
  BY ThreadsFinite DEF Movers, Threads
<1>2. Movers \in SUBSET Threads /\ Cardinality(Movers) \in Nat /\ Len(msg_queue) \in Nat
  BY QueuesOfServers, ThreadsFinite
<1>3. Cardinality(Movers \ {t}) >= Cardinality(Movers) - 1 /\ Cardinality(Movers \ {t}) \in Nat
  BY <1>2, ThreadsFinite
<1>4. Cardinality((Movers \ {t}) \cup {h}) = Cardinality(Movers \ {t}) + 1
  <2> DEFINE M == Movers \ {t}
  <2>1. M \in SUBSET Threads /\ h \notin M
    BY <1>2
  <2> HIDE DEF M
  <2>2. Cardinality(M \cup {h}) = Cardinality(M) + 1
    BY <2>1, ThreadsFinite
  <2> QED
    BY <2>2 DEF M
<1>5. Cardinality((Movers \ {t}) \cup {h}) <= Cardinality(Movers')
  <2>1. (Movers \ {t}) \cup {h} \in SUBSET Movers'
    OBVIOUS
  <2> QED
    BY <1>1, <2>1, ThreadsFinite
<1> QED
  BY <1>1, <1>2, <1>3, <1>4, <1>5 DEF Counted

(* One thread goes on in its call.                                         *)
LEMMA GotoMoves ==
    ASSUME SendInv, NEW t \in Threads, NEW from, NEW to, Goto(t, from, to)
    PROVE  /\ pc[t] = from /\ pc'[t] = to /\ \A u \in Threads \ {t} : pc'[u] = pc[u]
           /\ setup' = setup
BY DEF Goto, SendInv, TypeInv

(* Moves of a server that leave the queues of waiters as they are, and of  *)
(* a client that switches to nobody.                                       *)
Lying == ReceivePlaces \cup NotifyPlaces
Steady(s) == state'[s] = state[s] /\ (pc'[s] = pc[s] \/ (pc[s] \notin Lying /\ pc'[s] \notin Lying))
Awake(c) == pc'[c] = "s_handoff" <=> pc[c] = "s_handoff"

(* Such moves keep the waiting queues and what is said of their sleepers. *)
LEMMA SleepersStay ==
    ASSUME SendInv, SendInv', Sleepers, Handoffs,
           UNCHANGED <<recv_waiters, notify_waiters, receiver, setup>>,
           \A s \in Servers : Steady(s), \A c \in Clients : Awake(c)
    PROVE  /\ Sleepers' /\ Handoffs' /\ RecvQ' = RecvQ /\ NotifyQ' = NotifyQ
           /\ (ReceiverSleeps' <=> ReceiverSleeps) /\ (NotifySleeps' <=> NotifySleeps)
<1>1. RecvQ' = RecvQ /\ NotifyQ' = NotifyQ /\ Distinct(recv_waiters)' = Distinct(recv_waiters)
      /\ Distinct(notify_waiters)' = Distinct(notify_waiters) /\ home' = home
  BY DEF RecvQ, NotifyQ, Elements, Distinct, home
<1>2. RecvQ \subseteq Servers /\ NotifyQ \subseteq Servers
  BY QueuesOfServers
<1>3. \A s \in Servers : HandedTo(s)' = HandedTo(s)
  BY DEF HandedTo, Awake
<1>4. Handoffs'
  BY <1>1 DEF Handoffs, Awake, Steady, Lying, SendInv, TypeInv
<1>5. Sleepers'
  BY <1>1, <1>2, <1>3 DEF Sleepers, Steady, Lying
<1>6. (ReceiverSleeps' <=> ReceiverSleeps) /\ (NotifySleeps' <=> NotifySleeps)
  BY <1>1, <1>2 DEF ReceiverSleeps, NotifySleeps, Steady, Lying, ReceivePlaces, NotifyPlaces
<1> QED
  BY <1>1, <1>4, <1>5, <1>6

(* A step that is nothing to those who sleep: of a client outside the      *)
(* places from which it wakes, of a server outside its wait, of a destroy  *)
(* that has woken them.                                                    *)
Rousing == {"s_extract", "p_wake", "s_handoff", "n_wake", "n_wake_recv"}
CalmClient(c) == pc'[c] = pc[c] \/ (pc[c] \notin Rousing /\ pc'[c] \notin Rousing)
CalmServer(s) == Steady(s) /\ (pc'[s] = pc[s] \/ pc[s] # "r_try")

(* After a calm step no more work lies before the sleepers than before it. *)
LEMMA CalmSleeps ==
    ASSUME SendInv, SendInv', SleepInv,
           UNCHANGED <<recv_waiters, notify_waiters, receiver, setup, closed>>,
           Len(msg_queue') <= Len(msg_queue), notify_bits' => notify_bits,
           dpc' = dpc \/ dpc \notin {"wake_recv", "wake_notify"},
           \A s \in Servers : CalmServer(s), \A c \in Clients : CalmClient(c)
    PROVE  SleepInv'
<1>1. /\ Sleepers' /\ Handoffs' /\ RecvQ' = RecvQ
      /\ (ReceiverSleeps' <=> ReceiverSleeps) /\ (NotifySleeps' <=> NotifySleeps)
  BY SleepersStay DEF SleepInv, CalmServer, CalmClient, Awake, Rousing
<1>2. Movers \subseteq Movers'
  BY <1>1 DEF Movers, CalmServer, CalmClient, Steady, Lying, Rousing, ReceivePlaces
<1>3. Counted'
  BY <1>1, <1>2, CountStays DEF SleepInv
<1>4. Covered'
  BY <1>1 DEF SleepInv, Covered, CalmClient, Rousing
<1> QED
  BY <1>1, <1>3, <1>4 DEF SleepInv

(* A step of a client that is nothing to those who sleep.                  *)
LEMMA CalmClientSleeps ==
    ASSUME SendInv, SendInv', SleepInv, NEW c \in Clients,
           UNCHANGED <<recv_waiters, notify_waiters, receiver, setup, closed, msg_queue, dpc, notify_bits>>,
           \A s \in Servers : state'[s] = state[s], \A t \in Threads \ {c} : pc'[t] = pc[t],
           CalmClient(c)
    PROVE  SleepInv'
<1>1. \A s \in Servers : CalmServer(s)
  BY ChannelAssumption DEF CalmServer, Steady, Threads
<1>2. \A d \in Clients : CalmClient(d)
  BY DEF CalmClient, Threads
<1>3. Len(msg_queue') <= Len(msg_queue)
  BY DEF SendInv, TypeInv, TypeOK
<1> QED
  BY <1>1, <1>2, <1>3, CalmSleeps

(* What a client does of its calls outside the places where it wakes.      *)
LEMMA ClientsAreCalm ==
    ASSUME SendInv, SendInv', SleepInv, NEW c \in Clients,
           SendGet(c) \/ PostGet(c) \/ NotifyGet(c) \/ SendCheck(c) \/ SendRefused(c)
           \/ SendFull(c) \/ SendWait(c) \/ SendPrepare(c) \/ SendRecheck(c) \/ SendWake(c)
           \/ SendUnpend(c) \/ SendUnlink(c) \/ PostCheck(c) \/ PostRefused(c)
           \/ PostFull(c) \/ NotifyCheck(c) \/ NotifyRefused(c) \/ Kill(c) \/ CleanupThread(c)
           \/ ReleaseStack(c)
    PROVE  SleepInv'
<1> USE ChannelAssumption DEF Threads, life, queues, sender, Goto, EndCall, BeginCall, CalmClient, Rousing
<1> USE DEF SendInv, TypeInv, TypeOK
<1>1. CASE SendGet(c)
  <2>1. UNCHANGED <<recv_waiters, notify_waiters, receiver, setup, closed, msg_queue, dpc, notify_bits>>
    BY <1>1 DEF SendGet
  <2>2. \A s \in Servers : state'[s] = state[s]
    BY <1>1 DEF SendGet
  <2>3. (\A t \in Threads \ {c} : pc'[t] = pc[t]) /\ CalmClient(c)
    BY <1>1 DEF SendGet
  <2> HIDE DEF SendInv, CalmClient
  <2> QED
    BY <2>1, <2>2, <2>3, CalmClientSleeps
<1>2. CASE PostGet(c)
  <2>1. UNCHANGED <<recv_waiters, notify_waiters, receiver, setup, closed, msg_queue, dpc, notify_bits>>
    BY <1>2 DEF PostGet
  <2>2. \A s \in Servers : state'[s] = state[s]
    BY <1>2 DEF PostGet
  <2>3. (\A t \in Threads \ {c} : pc'[t] = pc[t]) /\ CalmClient(c)
    BY <1>2 DEF PostGet
  <2> HIDE DEF SendInv, CalmClient
  <2> QED
    BY <2>1, <2>2, <2>3, CalmClientSleeps
<1>3. CASE NotifyGet(c)
  <2>1. UNCHANGED <<recv_waiters, notify_waiters, receiver, setup, closed, msg_queue, dpc, notify_bits>>
    BY <1>3 DEF NotifyGet
  <2>2. \A s \in Servers : state'[s] = state[s]
    BY <1>3 DEF NotifyGet
  <2>3. (\A t \in Threads \ {c} : pc'[t] = pc[t]) /\ CalmClient(c)
    BY <1>3 DEF NotifyGet
  <2> HIDE DEF SendInv, CalmClient
  <2> QED
    BY <2>1, <2>2, <2>3, CalmClientSleeps
<1>4. CASE SendCheck(c)
  <2>1. UNCHANGED <<recv_waiters, notify_waiters, receiver, setup, closed, msg_queue, dpc, notify_bits>>
    BY <1>4 DEF SendCheck
  <2>2. \A s \in Servers : state'[s] = state[s]
    BY <1>4 DEF SendCheck
  <2>3. (\A t \in Threads \ {c} : pc'[t] = pc[t]) /\ CalmClient(c)
    BY <1>4 DEF SendCheck
  <2> HIDE DEF SendInv, CalmClient
  <2> QED
    BY <2>1, <2>2, <2>3, CalmClientSleeps
<1>5. CASE SendRefused(c)
  <2>1. UNCHANGED <<recv_waiters, notify_waiters, receiver, setup, closed, msg_queue, dpc, notify_bits>>
    BY <1>5 DEF SendRefused
  <2>2. \A s \in Servers : state'[s] = state[s]
    BY <1>5 DEF SendRefused
  <2>3. (\A t \in Threads \ {c} : pc'[t] = pc[t]) /\ CalmClient(c)
    BY <1>5 DEF SendRefused
  <2> HIDE DEF SendInv, CalmClient
  <2> QED
    BY <2>1, <2>2, <2>3, CalmClientSleeps
<1>6. CASE SendFull(c)
  <2>1. UNCHANGED <<recv_waiters, notify_waiters, receiver, setup, closed, msg_queue, dpc, notify_bits>>
    BY <1>6 DEF SendFull
  <2>2. \A s \in Servers : state'[s] = state[s]
    BY <1>6 DEF SendFull
  <2>3. (\A t \in Threads \ {c} : pc'[t] = pc[t]) /\ CalmClient(c)
    BY <1>6 DEF SendFull
  <2> HIDE DEF SendInv, CalmClient
  <2> QED
    BY <2>1, <2>2, <2>3, CalmClientSleeps
<1>7. CASE SendWait(c)
  <2>1. UNCHANGED <<recv_waiters, notify_waiters, receiver, setup, closed, msg_queue, dpc, notify_bits>>
    BY <1>7 DEF SendWait
  <2>2. \A s \in Servers : state'[s] = state[s]
    BY <1>7 DEF SendWait
  <2>3. (\A t \in Threads \ {c} : pc'[t] = pc[t]) /\ CalmClient(c)
    BY <1>7 DEF SendWait
  <2> HIDE DEF SendInv, CalmClient
  <2> QED
    BY <2>1, <2>2, <2>3, CalmClientSleeps
<1>8. CASE SendPrepare(c)
  <2>1. UNCHANGED <<recv_waiters, notify_waiters, receiver, setup, closed, msg_queue, dpc, notify_bits>>
    BY <1>8 DEF SendPrepare
  <2>2. \A s \in Servers : state'[s] = state[s]
    BY <1>8 DEF SendPrepare
  <2>3. (\A t \in Threads \ {c} : pc'[t] = pc[t]) /\ CalmClient(c)
    BY <1>8 DEF SendPrepare
  <2> HIDE DEF SendInv, CalmClient
  <2> QED
    BY <2>1, <2>2, <2>3, CalmClientSleeps
<1>9. CASE SendRecheck(c)
  <2>1. UNCHANGED <<recv_waiters, notify_waiters, receiver, setup, closed, msg_queue, dpc, notify_bits>>
    BY <1>9 DEF SendRecheck
  <2>2. \A s \in Servers : state'[s] = state[s]
    BY <1>9 DEF SendRecheck
  <2>3. (\A t \in Threads \ {c} : pc'[t] = pc[t]) /\ CalmClient(c)
    BY <1>9 DEF SendRecheck
  <2> HIDE DEF SendInv, CalmClient
  <2> QED
    BY <2>1, <2>2, <2>3, CalmClientSleeps
<1>10. CASE SendWake(c)
  <2>1. UNCHANGED <<recv_waiters, notify_waiters, receiver, setup, closed, msg_queue, dpc, notify_bits>>
    BY <1>10 DEF SendWake
  <2>2. \A s \in Servers : state'[s] = state[s]
    BY <1>10 DEF SendWake
  <2>3. (\A t \in Threads \ {c} : pc'[t] = pc[t]) /\ CalmClient(c)
    BY <1>10 DEF SendWake
  <2> HIDE DEF SendInv, CalmClient
  <2> QED
    BY <2>1, <2>2, <2>3, CalmClientSleeps
<1>11. CASE SendUnpend(c)
  <2>1. UNCHANGED <<recv_waiters, notify_waiters, receiver, setup, closed, msg_queue, dpc, notify_bits>>
    BY <1>11 DEF SendUnpend
  <2>2. \A s \in Servers : state'[s] = state[s]
    BY <1>11 DEF SendUnpend
  <2>3. (\A t \in Threads \ {c} : pc'[t] = pc[t]) /\ CalmClient(c)
    BY <1>11 DEF SendUnpend
  <2> HIDE DEF SendInv, CalmClient
  <2> QED
    BY <2>1, <2>2, <2>3, CalmClientSleeps
<1>12. CASE SendUnlink(c)
  <2>1. UNCHANGED <<recv_waiters, notify_waiters, receiver, setup, closed, msg_queue, dpc, notify_bits>>
    BY <1>12 DEF SendUnlink
  <2>2. \A s \in Servers : state'[s] = state[s]
    BY <1>12 DEF SendUnlink
  <2>3. (\A t \in Threads \ {c} : pc'[t] = pc[t]) /\ CalmClient(c)
    BY <1>12 DEF SendUnlink
  <2> HIDE DEF SendInv, CalmClient
  <2> QED
    BY <2>1, <2>2, <2>3, CalmClientSleeps
<1>13. CASE PostCheck(c)
  <2>1. UNCHANGED <<recv_waiters, notify_waiters, receiver, setup, closed, msg_queue, dpc, notify_bits>>
    BY <1>13 DEF PostCheck
  <2>2. \A s \in Servers : state'[s] = state[s]
    BY <1>13 DEF PostCheck
  <2>3. (\A t \in Threads \ {c} : pc'[t] = pc[t]) /\ CalmClient(c)
    BY <1>13 DEF PostCheck
  <2> HIDE DEF SendInv, CalmClient
  <2> QED
    BY <2>1, <2>2, <2>3, CalmClientSleeps
<1>14. CASE PostRefused(c)
  <2>1. UNCHANGED <<recv_waiters, notify_waiters, receiver, setup, closed, msg_queue, dpc, notify_bits>>
    BY <1>14 DEF PostRefused
  <2>2. \A s \in Servers : state'[s] = state[s]
    BY <1>14 DEF PostRefused
  <2>3. (\A t \in Threads \ {c} : pc'[t] = pc[t]) /\ CalmClient(c)
    BY <1>14 DEF PostRefused
  <2> HIDE DEF SendInv, CalmClient
  <2> QED
    BY <2>1, <2>2, <2>3, CalmClientSleeps
<1>15. CASE PostFull(c)
  <2>1. UNCHANGED <<recv_waiters, notify_waiters, receiver, setup, closed, msg_queue, dpc, notify_bits>>
    BY <1>15 DEF PostFull
  <2>2. \A s \in Servers : state'[s] = state[s]
    BY <1>15 DEF PostFull
  <2>3. (\A t \in Threads \ {c} : pc'[t] = pc[t]) /\ CalmClient(c)
    BY <1>15 DEF PostFull
  <2> HIDE DEF SendInv, CalmClient
  <2> QED
    BY <2>1, <2>2, <2>3, CalmClientSleeps
<1>16. CASE NotifyRefused(c)
  <2>1. UNCHANGED <<recv_waiters, notify_waiters, receiver, setup, closed, msg_queue, dpc, notify_bits>>
    BY <1>16 DEF NotifyRefused
  <2>2. \A s \in Servers : state'[s] = state[s]
    BY <1>16 DEF NotifyRefused
  <2>3. (\A t \in Threads \ {c} : pc'[t] = pc[t]) /\ CalmClient(c)
    BY <1>16 DEF NotifyRefused
  <2> HIDE DEF SendInv, CalmClient
  <2> QED
    BY <2>1, <2>2, <2>3, CalmClientSleeps
<1>17. CASE Kill(c)
  <2>1. UNCHANGED <<recv_waiters, notify_waiters, receiver, setup, closed, msg_queue, dpc, notify_bits>>
    BY <1>17 DEF Kill
  <2>2. \A s \in Servers : state'[s] = state[s]
    BY <1>17 DEF Kill
  <2>3. (\A t \in Threads \ {c} : pc'[t] = pc[t]) /\ CalmClient(c)
    BY <1>17 DEF Kill
  <2> HIDE DEF SendInv, CalmClient
  <2> QED
    BY <2>1, <2>2, <2>3, CalmClientSleeps
<1>18. CASE CleanupThread(c)
  <2>1. UNCHANGED <<recv_waiters, notify_waiters, receiver, setup, closed, msg_queue, dpc, notify_bits>>
    BY <1>18 DEF CleanupThread, Reaper
  <2>2. \A s \in Servers : state'[s] = state[s]
    BY <1>18 DEF CleanupThread
  <2>3. (\A t \in Threads \ {c} : pc'[t] = pc[t]) /\ CalmClient(c)
    BY <1>18 DEF CleanupThread, Reaper
  <2> HIDE DEF SendInv, CalmClient
  <2> QED
    BY <2>1, <2>2, <2>3, CalmClientSleeps
<1>19. CASE ReleaseStack(c)
  <2>1. UNCHANGED <<recv_waiters, notify_waiters, receiver, setup, closed, msg_queue, dpc, notify_bits>>
    BY <1>19 DEF ReleaseStack, Reaper
  <2>2. \A s \in Servers : state'[s] = state[s]
    BY <1>19 DEF ReleaseStack
  <2>3. (\A t \in Threads \ {c} : pc'[t] = pc[t]) /\ CalmClient(c)
    BY <1>19 DEF ReleaseStack, Reaper
  <2> HIDE DEF SendInv, CalmClient
  <2> QED
    BY <2>1, <2>2, <2>3, CalmClientSleeps
<1>20. CASE NotifyCheck(c)
  <2>1. UNCHANGED <<recv_waiters, notify_waiters, receiver, setup, closed, msg_queue, dpc, notify_bits>>
    BY <1>20 DEF NotifyCheck
  <2>2. \A s \in Servers : state'[s] = state[s]
    BY <1>20 DEF NotifyCheck
  <2>3. (\A t \in Threads \ {c} : pc'[t] = pc[t]) /\ CalmClient(c)
    BY <1>20 DEF NotifyCheck
  <2> HIDE DEF SendInv, CalmClient
  <2> QED
    BY <2>1, <2>2, <2>3, CalmClientSleeps
<1> QED
  BY <1>1, <1>2, <1>3, <1>4, <1>5, <1>6, <1>7, <1>8, <1>9, <1>10, <1>11, <1>12, <1>13, <1>14, <1>15, <1>16, <1>17, <1>18, <1>19, <1>20

(* A message is queued by a call that goes on to wake a receiver.          *)
LEMMA EnqueueSleeps ==
    ASSUME SendInv, SendInv', SleepInv, NEW c \in Clients, SendEnqueue(c) \/ PostEnqueue(c)
    PROVE  SleepInv'
<1> USE ChannelAssumption DEF Threads
<1>0. /\ UNCHANGED <<recv_waiters, notify_waiters, receiver, setup, closed, dpc, notify_bits, state>>
      /\ pc[c] \in {"s_enqueue", "p_enqueue"} /\ pc'[c] \in {"s_extract", "p_wake"}
      /\ \A t \in Threads \ {c} : pc'[t] = pc[t]
  BY GotoMoves DEF SendEnqueue, PostEnqueue, life, queues, sender
<1>1. Len(msg_queue') = Len(msg_queue) + 1
  <2>1. msg_queue \in Seq(Messages) /\ \E m : msg_queue' = Append(msg_queue, m)
    BY DEF SendEnqueue, PostEnqueue, SendInv, TypeInv, TypeOK
  <2> QED
    BY <2>1
<1>2. /\ Sleepers' /\ Handoffs' /\ RecvQ' = RecvQ
      /\ (ReceiverSleeps' <=> ReceiverSleeps) /\ (NotifySleeps' <=> NotifySleeps)
  <2>1. (\A s \in Servers : Steady(s)) /\ (\A d \in Clients : Awake(d))
    BY <1>0 DEF Steady, Awake
  <2> QED
    BY <1>0, <2>1, SleepersStay DEF SleepInv
<1>3. c \notin Movers /\ c \in Movers' /\ Movers \subseteq Movers'
  BY <1>0, <1>2 DEF Movers
<1>4. Counted'
  BY <1>1, <1>2, <1>3, CountAdds DEF SleepInv
<1>5. Covered'
  BY <1>0, <1>2 DEF SleepInv, Covered
<1> QED
  BY <1>2, <1>4, <1>5 DEF SleepInv

(* The bits are set by a call that goes on to wake everybody.              *)
LEMMA NotifySetSleeps ==
    ASSUME SendInv, SendInv', SleepInv, NEW c \in Clients, NotifySet(c)
    PROVE  SleepInv'
<1> USE ChannelAssumption DEF Threads
<1>0. /\ UNCHANGED <<recv_waiters, notify_waiters, receiver, setup, closed, dpc, msg_queue, state>>
      /\ pc[c] = "n_set" /\ pc'[c] = "n_wake" /\ \A t \in Threads \ {c} : pc'[t] = pc[t]
  BY GotoMoves DEF NotifySet, life, queues, sender
<1>2. /\ Sleepers' /\ Handoffs' /\ RecvQ' = RecvQ
      /\ (ReceiverSleeps' <=> ReceiverSleeps) /\ (NotifySleeps' <=> NotifySleeps)
  <2>1. (\A s \in Servers : Steady(s)) /\ (\A d \in Clients : Awake(d))
    BY <1>0 DEF Steady, Awake
  <2> QED
    BY <1>0, <2>1, SleepersStay DEF SleepInv
<1>1. Movers \subseteq Movers'
  BY <1>0, <1>2 DEF Movers
<1>3. Len(msg_queue') <= Len(msg_queue)
  BY <1>0 DEF SendInv, TypeInv, TypeOK
<1>4. Counted'
  BY <1>1, <1>2, <1>3, CountStays DEF SleepInv
<1>5. Covered'
  BY <1>0, <1>2 DEF SleepInv, Covered
<1> QED
  BY <1>2, <1>4, <1>5 DEF SleepInv

(* A server outside its wait: it answers, begins a call or tries once.     *)
LEMMA CalmServerSleeps ==
    ASSUME SendInv, SendInv', SleepInv, NEW s \in Servers,
           UNCHANGED <<recv_waiters, notify_waiters, receiver, setup, closed, dpc>>,
           Len(msg_queue') <= Len(msg_queue), notify_bits' => notify_bits,
           \A r \in Servers : state'[r] = state[r], \A t \in Threads \ {s} : pc'[t] = pc[t],
           pc[s] \notin Lying \cup {"r_try"}, pc'[s] \notin Lying
    PROVE  SleepInv'
<1>1. \A r \in Servers : CalmServer(r)
  BY DEF CalmServer, Steady, Threads
<1>2. \A d \in Clients : CalmClient(d)
  BY ChannelAssumption DEF CalmClient, Threads
<1> QED
  BY <1>1, <1>2, CalmSleeps

(* What a call that takes something does to queue and bits.                *)
LEMMA ConsumeTakes ==
    ASSUME SendInv, NEW s \in Servers, Consume(s)
    PROVE  /\ Len(msg_queue') = Len(msg_queue) - 1 \/ msg_queue' = <<>>
           /\ Len(msg_queue') <= Len(msg_queue) /\ (notify_bits' => notify_bits)
<1>0. msg_queue \in Seq(Messages)
  BY DEF SendInv, TypeInv, TypeOK
<1>1. CASE msg_queue # <<>> /\ msg_queue' = Tail(msg_queue) /\ UNCHANGED notify_bits
  BY <1>0, <1>1, TailFacts
<1>2. CASE msg_queue = <<>> /\ notify_bits' = FALSE /\ UNCHANGED msg_queue
  BY <1>0, <1>2
<1>3. CASE Empty /\ UNCHANGED <<msg_queue, notify_bits>>
  BY <1>0, <1>3 DEF Empty
<1> QED
  BY <1>1, <1>2, <1>3 DEF Consume

(* ipc_receive, ipc_receive_nowait and ipc_wait_notify begin.              *)
LEMMA ServerGetSleeps ==
    ASSUME SendInv, SendInv', SleepInv, NEW s \in Servers, NEW op,
           NEW place \in {"r_try", "t_try", "w_try"}, ServerGet(s, op, place)
    PROVE  SleepInv'
<1>0. /\ UNCHANGED <<recv_waiters, notify_waiters, receiver, setup, closed, dpc, msg_queue, notify_bits, state>>
      /\ pc[s] = "idle" /\ pc'[s] = place /\ \A t \in Threads \ {s} : pc'[t] = pc[t]
  BY GotoMoves DEF ServerGet, life, queues, sender, Threads
<1>1. Len(msg_queue') <= Len(msg_queue)
  BY <1>0 DEF SendInv, TypeInv, TypeOK
<1> QED
  BY <1>0, <1>1, CalmServerSleeps DEF Lying, ReceivePlaces, NotifyPlaces

(* ipc_reply_staged wakes a sender, no server.                             *)
LEMMA AnswerWakesNoServer ==
    ASSUME SendInv, NEW c, NEW k, Answer(c, k), c \in s_pending => c \in Clients
    PROVE  \A r \in Servers : state'[r] = state[r]
BY ChannelAssumption DEF Answer, Unblock, SendInv, TypeInv, TypeOK, Threads

(* A server's answer.                                                      *)
LEMMA ReplySleeps ==
    ASSUME SendInv, SendInv', SleepInv, NEW s \in Servers, Reply(s)
    PROVE  SleepInv'
<1>0. /\ UNCHANGED <<recv_waiters, notify_waiters, receiver, setup, closed, dpc, msg_queue, notify_bits>>
      /\ pc[s] = "reply" /\ pc'[s] = "idle" /\ \A t \in Threads \ {s} : pc'[t] = pc[t]
      /\ Answer(serving[s].from, serving[s].call)
  BY GotoMoves DEF Reply, life, queues, sender, Threads
<1>1. \A r \in Servers : state'[r] = state[r]
  <2>1. s_pending \subseteq Clients
    BY DEF SendInv, TypeInv, TypeOK
  <2> QED
    BY <1>0, <2>1, AnswerWakesNoServer
<1>2. Len(msg_queue') <= Len(msg_queue)
  BY <1>0 DEF SendInv, TypeInv, TypeOK
<1> QED
  BY <1>0, <1>1, <1>2, CalmServerSleeps DEF Lying, ReceivePlaces, NotifyPlaces

(* A reply out of turn.                                                    *)
LEMMA StrayReplySleeps ==
    ASSUME SendInv, SendInv', SleepInv, NEW t \in Threads, NEW c \in Clients, StrayReply(t, c)
    PROVE  SleepInv'
<1>0. /\ UNCHANGED <<recv_waiters, notify_waiters, receiver, setup, closed, dpc, msg_queue, notify_bits, pc>>
      /\ Answer(c, IF t \in Servers /\ serving[t].from = c THEN serving[t].call ELSE 0)
  BY DEF StrayReply, life, queues, sender
<1>1. \A r \in Servers : state'[r] = state[r]
  BY <1>0, AnswerWakesNoServer
<1>2. Len(msg_queue') <= Len(msg_queue)
  BY <1>0 DEF SendInv, TypeInv, TypeOK
<1>3. (\A r \in Servers : CalmServer(r)) /\ \A d \in Clients : CalmClient(d)
  BY <1>0, <1>1 DEF CalmServer, CalmClient, Steady
<1> QED
  BY <1>0, <1>2, <1>3, CalmSleeps

(* ipc_receive_nowait takes a message or the bits, or nothing.             *)
LEMMA ReceiveNowaitSleeps ==
    ASSUME SendInv, SendInv', SleepInv, NEW s \in Servers, ReceiveNowait(s)
    PROVE  SleepInv'
<1>0. /\ UNCHANGED <<recv_waiters, notify_waiters, receiver, setup, closed, dpc, state>>
      /\ pc[s] = "t_try" /\ pc'[s] \in {"idle", "reply"} /\ \A t \in Threads \ {s} : pc'[t] = pc[t]
  BY GotoMoves DEF ReceiveNowait, Return, life, queues, sender, Threads
<1>1. Len(msg_queue') <= Len(msg_queue) /\ (notify_bits' => notify_bits)
  BY ConsumeTakes DEF ReceiveNowait, Return, SendInv, TypeInv, TypeOK
<1> QED
  BY <1>0, <1>1, CalmServerSleeps DEF Lying, ReceivePlaces, NotifyPlaces

(* The first look of ipc_wait_notify.                                      *)
LEMMA WaitNotifyTrySleeps ==
    ASSUME SendInv, SendInv', SleepInv, NEW s \in Servers, WaitNotifyTry(s)
    PROVE  SleepInv'
<1>0. /\ UNCHANGED <<recv_waiters, notify_waiters, receiver, setup, closed, dpc, msg_queue, state>>
      /\ pc[s] = "w_try" /\ pc'[s] \in {"idle", "w_prepare"} /\ \A t \in Threads \ {s} : pc'[t] = pc[t]
  BY GotoMoves DEF WaitNotifyTry, life, queues, sender, Threads
<1>1. Len(msg_queue') <= Len(msg_queue) /\ (notify_bits' => notify_bits)
  BY <1>0 DEF WaitNotifyTry, SendInv, TypeInv, TypeOK
<1> QED
  BY <1>0, <1>1, CalmServerSleeps DEF Lying, ReceivePlaces, NotifyPlaces

(* The first look of ipc_receive: a receiver that was woken takes one      *)
(* message, or there is none.                                              *)
LEMMA ReceiveTrySleeps ==
    ASSUME SendInv, SendInv', SleepInv, NEW s \in Servers, ReceiveTry(s)
    PROVE  SleepInv'
<1> USE ChannelAssumption DEF Threads
<1>0. /\ UNCHANGED <<recv_waiters, notify_waiters, receiver, setup, closed, dpc, state>>
      /\ pc[s] = "r_try" /\ pc'[s] \in {"idle", "reply", "r_prepare"}
      /\ \A t \in Threads \ {s} : pc'[t] = pc[t]
  BY GotoMoves DEF ReceiveTry, Return, life, queues, sender
<1>1. /\ Len(msg_queue') = Len(msg_queue) - 1 \/ msg_queue' = <<>>
      /\ notify_bits' => notify_bits
  BY ConsumeTakes DEF ReceiveTry, Return, Empty
<1>2. /\ Sleepers' /\ Handoffs' /\ RecvQ' = RecvQ
      /\ (ReceiverSleeps' <=> ReceiverSleeps) /\ (NotifySleeps' <=> NotifySleeps)
  <2>1. (\A r \in Servers : Steady(r)) /\ (\A d \in Clients : Awake(d))
    BY <1>0 DEF Steady, Awake, Lying, ReceivePlaces, NotifyPlaces
  <2> QED
    BY <1>0, <2>1, SleepersStay DEF SleepInv
<1>3. Movers \ {s} \subseteq Movers'
  BY <1>0, <1>2 DEF Movers
<1>4. Counted'
  BY <1>1, <1>2, <1>3, CountTakes, CountZero DEF SleepInv
<1>5. Covered'
  BY <1>0, <1>1, <1>2 DEF SleepInv, Covered
<1> QED
  BY <1>2, <1>4, <1>5 DEF SleepInv

(* The rest of a destroy, after it has woken receivers and notification    *)
(* waiters.                                                                *)
LEMMA DestroyRestSleeps ==
    ASSUME SendInv, SendInv', SleepInv, DestroyMark \/ DestroyWakeSenders \/ DestroyDrop
    PROVE  SleepInv'
<1> USE ChannelAssumption DEF Threads
<1>0. /\ UNCHANGED <<recv_waiters, notify_waiters, receiver, setup, closed, msg_queue, notify_bits, pc>>
      /\ dpc \notin {"wake_recv", "wake_notify"}
  BY DEF DestroyMark, DestroyWakeSenders, DestroyDrop, Destroyer, life, queues, sender
<1>1. \A s \in Servers : state'[s] = state[s]
  <2>1. CASE DestroyMark \/ DestroyDrop
    BY <2>1 DEF DestroyMark, DestroyDrop
  <2>2. CASE DestroyWakeSenders
    <3>1. Unblock(batch \cap reply_wait) /\ batch \subseteq Clients
      BY <2>2 DEF DestroyWakeSenders, SendInv, TypeInv, TypeOK
    <3> QED
      BY <3>1 DEF Unblock
  <2> QED
    BY <2>1, <2>2
<1>2. Len(msg_queue') <= Len(msg_queue) /\ (notify_bits' => notify_bits)
  BY <1>0 DEF SendInv, TypeInv, TypeOK
<1> QED
  BY <1>0, <1>1, <1>2, CalmSleeps DEF CalmServer, CalmClient, Steady

(* The port dies: its destroy goes on to wake everybody.                   *)
LEMMA DestroyUnlinkSleeps ==
    ASSUME SendInv, SendInv', SleepInv, DestroyUnlink
    PROVE  SleepInv'
<1>0. /\ UNCHANGED <<recv_waiters, notify_waiters, receiver, setup, msg_queue, notify_bits, pc, state>>
      /\ dpc' = "wake_recv"
  BY DEF DestroyUnlink, Destroyer, queues, sender
<1>1. /\ Sleepers' /\ Handoffs' /\ RecvQ' = RecvQ
      /\ (ReceiverSleeps' <=> ReceiverSleeps) /\ (NotifySleeps' <=> NotifySleeps)
  BY <1>0, SleepersStay DEF SleepInv, Steady, Awake
<1>2. Movers \subseteq Movers' /\ Len(msg_queue') <= Len(msg_queue)
  BY <1>0, <1>1 DEF Movers, SendInv, TypeInv, TypeOK
<1>3. Counted'
  BY <1>1, <1>2, CountStays DEF SleepInv
<1>4. Covered'
  BY <1>0, <1>1 DEF SleepInv, Covered
<1> QED
  BY <1>1, <1>3, <1>4 DEF SleepInv

(* A stuttering step.                                                      *)
LEMMA StutterSleeps ==
    ASSUME SendInv, SendInv', SleepInv, UNCHANGED vars
    PROVE  SleepInv'
<1>0. UNCHANGED <<recv_waiters, notify_waiters, receiver, setup, closed, dpc, msg_queue, notify_bits, pc, state>>
  BY DEF vars, life, queues, sender
<1>1. Len(msg_queue') <= Len(msg_queue)
  BY <1>0 DEF SendInv, TypeInv, TypeOK
<1> QED
  BY <1>0, <1>1, CalmSleeps DEF CalmServer, CalmClient, Steady

(* scheduler_unblock of a set of threads.                                  *)
LEMMA UnblockFacts ==
    ASSUME SendInv, NEW ts, Unblock(ts)
    PROVE  \A t \in Threads : /\ t \notin ts => state'[t] = state[t]
                              /\ t \in ts => state'[t] # "BLOCKED"
                              /\ state'[t] = "BLOCKED" => state[t] = "BLOCKED"
BY DEF Unblock, SendInv, TypeInv, TypeOK

(* A waker takes the first receiver off the queue: to unblock it, or to    *)
(* switch to it in its next step.                                          *)
LEMMA WakeSleeps ==
    ASSUME SendInv, SendInv', SleepInv, NEW c \in Clients,
           recv_waiters # <<>>, recv_waiters' = Tail(recv_waiters),
           UNCHANGED <<notify_waiters, setup, closed, dpc, msg_queue, notify_bits>>,
           pc[c] \in {"s_extract", "p_wake"}, \A t \in Threads \ {c} : pc'[t] = pc[t],
           \A d \in Clients \ {c} : receiver'[d] = receiver[d],
           \A s \in Servers \ {Head(recv_waiters)} : state'[s] = state[s],
           \/ pc'[c] = "s_handoff" /\ receiver'[c] = Head(recv_waiters)
              /\ home[Head(recv_waiters)] = home[c]
           \/ pc'[c] \notin Rousing /\ state'[Head(recv_waiters)] # "BLOCKED"
    PROVE  SleepInv'
<1> USE ChannelAssumption DEF Threads
<1>0. PICK h : h = Head(recv_waiters)
  OBVIOUS
<1>1. /\ RecvQ' = RecvQ \ {h} /\ Distinct(recv_waiters)' /\ h \in RecvQ
      /\ NotifyQ' = NotifyQ /\ Distinct(notify_waiters)' /\ home' = home
  <2>1. recv_waiters \in Seq(Servers) /\ Distinct(recv_waiters) /\ Distinct(notify_waiters)
    BY DEF SendInv, TypeInv, TypeOK, SleepInv, Sleepers
  <2>2. /\ Elements(Tail(recv_waiters)) = Elements(recv_waiters) \ {h}
        /\ Distinct(Tail(recv_waiters)) /\ h \in Elements(recv_waiters)
    BY <1>0, <2>1, TailWaits
  <2> QED
    BY <2>1, <2>2 DEF RecvQ, NotifyQ, home
<1>2. RecvQ \subseteq Servers /\ NotifyQ \subseteq Servers /\ h \in Servers
  BY <1>1, QueuesOfServers
<1>3. /\ pc[h] \in ReceivePlaces /\ h \notin NotifyQ
      /\ \A s \in Servers : pc'[s] = pc[s] /\ (s # h => state'[s] = state[s])
  BY <1>0, <1>1, <1>2 DEF SleepInv, Sleepers, ReceivePlaces, NotifyPlaces
<1>4. \A s \in Servers : HandedTo(s) => HandedTo(s)'
  BY DEF HandedTo
<1>5. state'[h] = "BLOCKED" => HandedTo(h)'
  BY <1>0 DEF HandedTo
<1>6. Sleepers'
  BY <1>1, <1>2, <1>3, <1>4, <1>5 DEF SleepInv, Sleepers
<1>7. Handoffs'
  <2> SUFFICES ASSUME NEW d \in Clients, pc'[d] = "s_handoff"
               PROVE  /\ home[receiver'[d]] = home[d] /\ receiver'[d] \notin RecvQ'
                      /\ pc'[receiver'[d]] \in ReceivePlaces
    BY <1>1 DEF Handoffs
  <2>1. CASE d = c
    <3>1. receiver'[d] = h /\ home[h] = home[c]
      BY <1>0, <2>1 DEF Rousing
    <3> QED
      BY <1>1, <1>2, <1>3, <2>1, <3>1
  <2>2. CASE d # c
    <3>1. pc[d] = "s_handoff" /\ receiver'[d] = receiver[d] /\ receiver[d] \in Servers
      BY <2>2 DEF SendInv, TypeInv
    <3> QED
      BY <1>1, <1>3, <3>1 DEF SleepInv, Handoffs
  <2> QED
    BY <2>1, <2>2
<1>8. (ReceiverSleeps' => ReceiverSleeps) /\ (NotifySleeps' <=> NotifySleeps)
  BY <1>1, <1>2, <1>3 DEF ReceiverSleeps, NotifySleeps
<1>9. Counted'
  <2>1. h \notin Movers /\ h \in Movers' /\ Movers \ {c} \subseteq Movers'
    BY <1>1, <1>2, <1>3 DEF Movers, ReceivePlaces
  <2> QED
    BY <1>8, <2>1, CountSwaps DEF SleepInv
<1>10. Covered'
  BY <1>8 DEF SleepInv, Covered
<1> QED
  BY <1>6, <1>7, <1>9, <1>10 DEF SleepInv

(* There is nobody to wake.                                                *)
LEMMA NobodyToWake ==
    ASSUME SendInv, SendInv', SleepInv, NEW c \in Clients, recv_waiters = <<>>,
           UNCHANGED <<recv_waiters, notify_waiters, receiver, setup, closed, dpc, msg_queue,
                       notify_bits, state>>,
           pc[c] \in {"s_extract", "p_wake"}, pc'[c] \notin Rousing,
           \A t \in Threads \ {c} : pc'[t] = pc[t]
    PROVE  SleepInv'
<1> USE ChannelAssumption DEF Threads
<1>1. /\ Sleepers' /\ Handoffs' /\ RecvQ' = RecvQ
      /\ (ReceiverSleeps' <=> ReceiverSleeps) /\ (NotifySleeps' <=> NotifySleeps)
  <2>1. (\A r \in Servers : Steady(r)) /\ (\A d \in Clients : Awake(d))
    BY DEF Steady, Awake, Rousing
  <2> QED
    BY <2>1, SleepersStay DEF SleepInv
<1>2. RecvQ' = {}
  BY <1>1, EmptyWaits DEF RecvQ
<1>3. Counted'
  BY <1>2 DEF Counted, ReceiverSleeps
<1>4. Covered'
  BY <1>1 DEF SleepInv, Covered
<1> QED
  BY <1>1, <1>3, <1>4 DEF SleepInv

(* The wake of ipc_post, and of ipc_send_sync for a receiver of another    *)
(* CPU.                                                                    *)
LEMMA WakeReceiverSleeps ==
    ASSUME SendInv, SendInv', SleepInv, NEW c \in Clients, WakeReceiver,
           UNCHANGED <<notify_waiters, receiver, setup, closed, dpc, msg_queue, notify_bits>>,
           pc[c] \in {"s_extract", "p_wake"}, pc'[c] \notin Rousing,
           \A t \in Threads \ {c} : pc'[t] = pc[t]
    PROVE  SleepInv'
<1>1. CASE recv_waiters = <<>>
  BY <1>1, NobodyToWake DEF WakeReceiver
<1>2. CASE recv_waiters # <<>>
  <2>1. recv_waiters' = Tail(recv_waiters) /\ Unblock({Head(recv_waiters)})
    BY <1>2 DEF WakeReceiver
  <2>2. Head(recv_waiters) \in Servers
    BY <1>2, TailFacts DEF SendInv, TypeInv, TypeOK
  <2>3. /\ \A s \in Servers \ {Head(recv_waiters)} : state'[s] = state[s]
        /\ state'[Head(recv_waiters)] # "BLOCKED"
    BY <2>1, <2>2, UnblockFacts DEF Threads
  <2> QED
    BY <1>2, <2>1, <2>3, WakeSleeps
<1> QED
  BY <1>1, <1>2

(* The end of ipc_post.                                                    *)
LEMMA PostWakeSleeps ==
    ASSUME SendInv, SendInv', SleepInv, NEW c \in Clients, PostWake(c)
    PROVE  SleepInv'
<1>0. /\ UNCHANGED <<notify_waiters, receiver, setup, closed, dpc, msg_queue, notify_bits>>
      /\ pc[c] = "p_wake" /\ pc'[c] = "idle" /\ \A t \in Threads \ {c} : pc'[t] = pc[t]
      /\ WakeReceiver
  BY GotoMoves DEF PostWake, EndCall, life, queues, sender, Threads
<1> QED
  BY <1>0, WakeReceiverSleeps DEF Rousing

(* ipc_send_sync extracts a receiver.                                      *)
LEMMA SendExtractSleeps ==
    ASSUME SendInv, SendInv', SleepInv, NEW c \in Clients, SendExtract(c)
    PROVE  SleepInv'
<1> DEFINE local == recv_waiters # <<>> /\ home[Head(recv_waiters)] = home[c]
<1>0. /\ UNCHANGED <<notify_waiters, setup, closed, dpc, msg_queue, notify_bits>>
      /\ pc[c] = "s_extract" /\ pc'[c] = (IF local THEN "s_handoff" ELSE "s_wait")
      /\ \A t \in Threads \ {c} : pc'[t] = pc[t]
  BY GotoMoves DEF SendExtract, life, queues, sender, Threads
<1>1. CASE local
  <2>1. /\ recv_waiters' = Tail(recv_waiters) /\ state' = state
        /\ receiver' = [receiver EXCEPT ![c] = Head(recv_waiters)]
    BY <1>1 DEF SendExtract
  <2>2. receiver'[c] = Head(recv_waiters) /\ \A d \in Clients \ {c} : receiver'[d] = receiver[d]
    BY <2>1 DEF SendInv, TypeInv, TypeOK
  <2> QED
    BY <1>0, <1>1, <2>1, <2>2, WakeSleeps
<1>2. CASE ~local
  <2>1. WakeReceiver /\ receiver' = receiver
    BY <1>2 DEF SendExtract
  <2> QED
    BY <1>0, <1>2, <2>1, WakeReceiverSleeps DEF Rousing
<1> QED
  BY <1>1, <1>2

(* scheduler_yield_to: the receiver it took off the queue runs, the sender *)
(* sleeps.                                                                 *)
LEMMA SendHandoffSleeps ==
    ASSUME SendInv, SendInv', SleepInv, NEW c \in Clients, SendHandoff(c)
    PROVE  SleepInv'
<1> USE ChannelAssumption DEF Threads
<1> DEFINE r == receiver[c]
<1>0. /\ UNCHANGED <<recv_waiters, notify_waiters, setup, closed, dpc, msg_queue, notify_bits>>
      /\ pc[c] = "s_handoff" /\ pc'[c] = "s_asleep" /\ \A t \in Threads \ {c} : pc'[t] = pc[t]
  BY GotoMoves DEF SendHandoff, life, queues, sender
<1>1. r \in Servers /\ pc[r] \in ReceivePlaces /\ r \notin RecvQ
  BY <1>0 DEF SendInv, TypeInv, SleepInv, Handoffs
<1>2. /\ \A d \in Clients \ {c} : receiver'[d] = receiver[d]
      /\ \A s \in Servers \ {r} : state'[s] = state[s]
      /\ state'[r] # "BLOCKED"
  BY <1>1 DEF SendHandoff, SendInv, TypeInv, TypeOK
<1>3. /\ RecvQ' = RecvQ /\ NotifyQ' = NotifyQ /\ home' = home
      /\ Distinct(recv_waiters)' /\ Distinct(notify_waiters)'
  BY <1>0 DEF RecvQ, NotifyQ, Elements, home, Distinct, SleepInv, Sleepers
<1> HIDE DEF r
<1>4. RecvQ \subseteq Servers /\ NotifyQ \subseteq Servers
  BY QueuesOfServers
<1>5. r \notin NotifyQ
  BY <1>1 DEF SleepInv, Sleepers, ReceivePlaces, NotifyPlaces
<1>6. \A s \in Servers \ {r} : HandedTo(s) => HandedTo(s)'
  BY <1>0, <1>2 DEF HandedTo, r
<1>7. Sleepers'
  BY <1>0, <1>1, <1>2, <1>3, <1>4, <1>5, <1>6 DEF SleepInv, Sleepers
<1>8. Handoffs'
  <2> SUFFICES ASSUME NEW d \in Clients, pc'[d] = "s_handoff"
               PROVE  /\ home[receiver'[d]] = home[d] /\ receiver'[d] \notin RecvQ
                      /\ pc'[receiver'[d]] \in ReceivePlaces
    BY <1>3 DEF Handoffs
  <2>1. d # c /\ pc[d] = "s_handoff" /\ receiver'[d] = receiver[d] /\ receiver[d] \in Servers
    BY <1>0, <1>2 DEF SendInv, TypeInv
  <2> QED
    BY <1>0, <2>1 DEF SleepInv, Handoffs
<1>9. (ReceiverSleeps' <=> ReceiverSleeps) /\ (NotifySleeps' <=> NotifySleeps)
  BY <1>0, <1>3, <1>4 DEF ReceiverSleeps, NotifySleeps
<1>10. Movers \subseteq Movers'
  BY <1>0, <1>3 DEF Movers
<1>11. Len(msg_queue') <= Len(msg_queue)
  BY <1>0 DEF SendInv, TypeInv, TypeOK
<1>12. Counted'
  BY <1>9, <1>10, <1>11, CountStays DEF SleepInv
<1>13. Covered'
  BY <1>0, <1>9 DEF SleepInv, Covered
<1> QED
  BY <1>7, <1>8, <1>12, <1>13 DEF SleepInv

(* A thread that runs is not one a sender is about to switch to.           *)
LEMMA RunnerIsNotHanded ==
    ASSUME SendInv, Handoffs, NEW s \in Servers, MayRun(s)
    PROVE  \A c \in Clients : pc[c] = "s_handoff" => receiver[c] # s
<1> SUFFICES ASSUME NEW c \in Clients, pc[c] = "s_handoff", receiver[c] = s PROVE FALSE
  OBVIOUS
<1>1. home[c] = home[s] /\ c \in Threads \ {s} /\ InKernel(c)
  BY ChannelAssumption DEF Handoffs, InKernel, Threads
<1> QED
  BY <1>1 DEF MayRun, CpuFree

(* wait_prepare in ipc_receive: queued and blocked, before the second look.*)
LEMMA ReceivePrepareSleeps ==
    ASSUME SendInv, SendInv', SleepInv, NEW s \in Servers, ReceivePrepare(s)
    PROVE  SleepInv'
<1> USE ChannelAssumption DEF Threads
<1>0. /\ UNCHANGED <<notify_waiters, receiver, setup, closed, dpc, msg_queue, notify_bits>>
      /\ pc[s] = "r_prepare" /\ pc'[s] = "r_recheck" /\ \A t \in Threads \ {s} : pc'[t] = pc[t]
      /\ recv_waiters' = Append(recv_waiters, s)
      /\ state'[s] = "BLOCKED" /\ \A r \in Servers \ {s} : state'[r] = state[r]
  BY GotoMoves DEF ReceivePrepare, life, queues, sender, SendInv, TypeInv, TypeOK
<1>1. /\ RecvQ' = RecvQ \cup {s} /\ Distinct(recv_waiters)' /\ s \notin RecvQ
      /\ NotifyQ' = NotifyQ /\ Distinct(notify_waiters)' /\ home' = home /\ s \notin NotifyQ
  <2>1. /\ recv_waiters \in Seq(Servers) /\ Distinct(recv_waiters) /\ Distinct(notify_waiters)
        /\ s \notin RecvQ /\ s \notin NotifyQ
    BY <1>0 DEF SendInv, TypeInv, TypeOK, SleepInv, Sleepers, ReceivePlaces, NotifyPlaces
  <2>2. /\ Elements(Append(recv_waiters, s)) = Elements(recv_waiters) \cup {s}
        /\ Distinct(Append(recv_waiters, s))
    BY <2>1, AppendWaits DEF RecvQ
  <2> QED
    BY <1>0, <2>1, <2>2 DEF RecvQ, NotifyQ, home
<1>2. RecvQ \subseteq Servers /\ NotifyQ \subseteq Servers
  BY QueuesOfServers
<1>3. \A r \in Servers : HandedTo(r)' = HandedTo(r)
  BY <1>0 DEF HandedTo
<1>4. Sleepers'
  BY <1>0, <1>1, <1>2, <1>3 DEF SleepInv, Sleepers, ReceivePlaces, NotifyPlaces
<1>5. Handoffs'
  <2> SUFFICES ASSUME NEW d \in Clients, pc'[d] = "s_handoff"
               PROVE  /\ home[receiver[d]] = home[d] /\ receiver[d] \notin RecvQ'
                      /\ pc'[receiver[d]] \in ReceivePlaces
    BY <1>0, <1>1 DEF Handoffs
  <2>1. pc[d] = "s_handoff" /\ receiver[d] \in Servers
    BY <1>0 DEF SendInv, TypeInv
  <2>2. /\ home[receiver[d]] = home[d] /\ receiver[d] \notin RecvQ
        /\ pc[receiver[d]] \in ReceivePlaces
    BY <2>1 DEF SleepInv, Handoffs
  <2>3. receiver[d] # s
    BY <1>0, <2>2 DEF ReceivePlaces
  <2> QED
    BY <1>0, <1>1, <2>1, <2>2, <2>3
<1>6. (ReceiverSleeps' <=> ReceiverSleeps) /\ (NotifySleeps' <=> NotifySleeps)
  BY <1>0, <1>1, <1>2 DEF ReceiverSleeps, NotifySleeps
<1>7. Movers \subseteq Movers'
  BY <1>0, <1>1 DEF Movers, ReceivePlaces
<1>8. Len(msg_queue') <= Len(msg_queue)
  BY <1>0 DEF SendInv, TypeInv, TypeOK
<1>9. Counted'
  BY <1>6, <1>7, <1>8, CountStays DEF SleepInv
<1>10. Covered'
  BY <1>0, <1>6 DEF SleepInv, Covered
<1> QED
  BY <1>4, <1>5, <1>9, <1>10 DEF SleepInv

(* A server leaves its wait: off the queues, running.                      *)
LEMMA LeaveSleeps ==
    ASSUME SendInv, SendInv', Sleepers, Handoffs, NEW s \in Servers, MayRun(s),
           UNCHANGED <<receiver, setup, closed, dpc>>,
           pc[s] \in Lying, pc'[s] \notin Lying, \A t \in Threads \ {s} : pc'[t] = pc[t],
           \A r \in Servers \ {s} : state'[r] = state[r],
           RecvQ' = RecvQ \ {s}, NotifyQ' = NotifyQ \ {s},
           Distinct(recv_waiters'), Distinct(notify_waiters')
    PROVE  /\ Sleepers' /\ Handoffs' /\ (ReceiverSleeps' => ReceiverSleeps)
           /\ (NotifySleeps' => NotifySleeps) /\ Movers \ {s} \subseteq Movers'
<1> USE ChannelAssumption DEF Threads
<1>1. RecvQ \subseteq Servers /\ NotifyQ \subseteq Servers /\ home' = home
  BY QueuesOfServers DEF home
<1>2. \A r \in Servers : HandedTo(r)' = HandedTo(r)
  BY DEF HandedTo
<1>3. Sleepers'
  BY <1>1, <1>2 DEF Sleepers, Lying
<1>4. Handoffs'
  <2> SUFFICES ASSUME NEW d \in Clients, pc'[d] = "s_handoff"
               PROVE  /\ home[receiver[d]] = home[d] /\ receiver[d] \notin RecvQ'
                      /\ pc'[receiver[d]] \in ReceivePlaces
    BY <1>1 DEF Handoffs
  <2>1. pc[d] = "s_handoff" /\ receiver[d] \in Servers
    BY DEF SendInv, TypeInv
  <2>2. /\ home[receiver[d]] = home[d] /\ receiver[d] \notin RecvQ
        /\ pc[receiver[d]] \in ReceivePlaces
    BY <2>1 DEF Handoffs
  <2>3. receiver[d] # s
    BY <2>1, RunnerIsNotHanded
  <2> QED
    BY <2>1, <2>2, <2>3
<1>5. (ReceiverSleeps' => ReceiverSleeps) /\ (NotifySleeps' => NotifySleeps)
  BY <1>1 DEF ReceiverSleeps, NotifySleeps
<1>6. Movers \ {s} \subseteq Movers'
  BY DEF Movers
<1> QED
  BY <1>3, <1>4, <1>5, <1>6

(* The second look of ipc_receive: leave with a message, the bits or the   *)
(* port's death, or sleep because there is nothing.                        *)
LEMMA ReceiveRecheckSleeps ==
    ASSUME SendInv, SendInv', SleepInv, NEW s \in Servers, ReceiveRecheck(s)
    PROVE  SleepInv'
<1> USE ChannelAssumption DEF Threads
<1>0. UNCHANGED <<notify_waiters, receiver, setup, closed, dpc>> /\ pc[s] = "r_recheck" /\ MayRun(s)
  BY DEF ReceiveRecheck, Return, Goto, life, sender
<1>1. CASE Return(s, "r_recheck") /\ recv_waiters' = Without(recv_waiters, s)
           /\ state' = [state EXCEPT ![s] = "RUNNING"]
  <2>1. /\ pc'[s] \in {"idle", "reply"} /\ \A t \in Threads \ {s} : pc'[t] = pc[t]
        /\ \A r \in Servers \ {s} : state'[r] = state[r]
    BY <1>1, GotoMoves DEF Return, SendInv, TypeInv, TypeOK
  <2>2. s \notin NotifyQ /\ Distinct(recv_waiters) /\ Distinct(notify_waiters)
    BY <1>0 DEF SleepInv, Sleepers, NotifyPlaces
  <2>3. /\ RecvQ' = RecvQ \ {s} /\ NotifyQ' = NotifyQ \ {s}
        /\ Distinct(recv_waiters') /\ Distinct(notify_waiters')
    <3>1. recv_waiters \in Seq(Servers) /\ notify_waiters \in Seq(Servers)
      BY DEF SendInv, TypeInv, TypeOK
    <3>2. Elements(recv_waiters') = Elements(recv_waiters) \ {s} /\ Distinct(recv_waiters')
      BY <1>1, <2>2, <3>1, WithoutWaits
    <3> QED
      BY <1>0, <2>2, <3>2 DEF RecvQ, NotifyQ
  <2>4. /\ Sleepers' /\ Handoffs' /\ (ReceiverSleeps' => ReceiverSleeps)
        /\ (NotifySleeps' => NotifySleeps) /\ Movers \ {s} \subseteq Movers'
    BY <1>0, <2>1, <2>3, LeaveSleeps DEF SleepInv, Lying, ReceivePlaces, NotifyPlaces
  <2>5. /\ Len(msg_queue') = Len(msg_queue) - 1 \/ msg_queue' = <<>>
        /\ notify_bits' => notify_bits
    BY <1>1, ConsumeTakes DEF Return
  <2>6. Counted'
    BY <2>4, <2>5, CountTakes, CountZero DEF SleepInv
  <2>7. Covered'
    BY <1>0, <2>1, <2>4, <2>5 DEF SleepInv, Covered
  <2> QED
    BY <2>4, <2>6, <2>7 DEF SleepInv
<1>2. CASE Empty /\ ~closed /\ Goto(s, "r_recheck", "r_asleep")
           /\ UNCHANGED <<msg_queue, notify_bits, recv_waiters, state>>
  <2>1. pc'[s] = "r_asleep" /\ \A t \in Threads \ {s} : pc'[t] = pc[t]
    BY <1>2, GotoMoves
  <2>2. /\ RecvQ' = RecvQ /\ NotifyQ' = NotifyQ /\ home' = home
        /\ Distinct(recv_waiters)' /\ Distinct(notify_waiters)'
    BY <1>0, <1>2 DEF RecvQ, NotifyQ, Elements, home, Distinct, SleepInv, Sleepers
  <2>3. RecvQ \subseteq Servers /\ NotifyQ \subseteq Servers
    BY QueuesOfServers
  <2>4. \A r \in Servers : HandedTo(r)' = HandedTo(r)
    BY <1>0, <2>1 DEF HandedTo
  <2>5. Sleepers'
    BY <1>0, <1>2, <2>1, <2>2, <2>3, <2>4 DEF SleepInv, Sleepers, ReceivePlaces, NotifyPlaces
  <2>6. Handoffs'
    BY <1>0, <2>1, <2>2 DEF SleepInv, Handoffs, ReceivePlaces, SendInv, TypeInv
  <2>7. Counted'
    BY <1>2, CountZero DEF Empty
  <2>8. Covered'
    BY <1>0, <1>2 DEF Covered, Empty
  <2> QED
    BY <2>5, <2>6, <2>7, <2>8 DEF SleepInv
<1> QED
  BY <1>1, <1>2 DEF ReceiveRecheck

(* A woken receiver looks again.                                           *)
LEMMA ReceiveWakeSleeps ==
    ASSUME SendInv, SendInv', SleepInv, NEW s \in Servers, ReceiveWake(s)
    PROVE  SleepInv'
<1> USE ChannelAssumption DEF Threads
<1>0. /\ UNCHANGED <<recv_waiters, notify_waiters, receiver, setup, closed, dpc, msg_queue, notify_bits>>
      /\ pc[s] = "r_asleep" /\ pc'[s] = "r_try" /\ \A t \in Threads \ {s} : pc'[t] = pc[t]
      /\ MayRun(s) /\ state[s] = "READY" /\ \A r \in Servers \ {s} : state'[r] = state[r]
  BY GotoMoves DEF ReceiveWake, Goto, life, queues, sender, SendInv, TypeInv, TypeOK
<1>1. s \notin RecvQ /\ s \notin NotifyQ /\ Distinct(recv_waiters) /\ Distinct(notify_waiters)
  BY <1>0 DEF SleepInv, Sleepers
<1>2. /\ RecvQ' = RecvQ \ {s} /\ NotifyQ' = NotifyQ \ {s}
      /\ Distinct(recv_waiters') /\ Distinct(notify_waiters')
  BY <1>0, <1>1 DEF RecvQ, NotifyQ
<1>3. /\ Sleepers' /\ Handoffs' /\ (ReceiverSleeps' => ReceiverSleeps)
      /\ (NotifySleeps' => NotifySleeps) /\ Movers \ {s} \subseteq Movers'
  BY <1>0, <1>2, LeaveSleeps DEF SleepInv, Lying, ReceivePlaces, NotifyPlaces
<1>4. s \in Movers'
  BY <1>0 DEF Movers
<1>5. Len(msg_queue') <= Len(msg_queue)
  BY <1>0 DEF SendInv, TypeInv, TypeOK
<1>6. Counted'
  BY <1>3, <1>4, <1>5, CountStays DEF SleepInv
<1>7. Covered'
  BY <1>0, <1>3 DEF SleepInv, Covered
<1> QED
  BY <1>3, <1>6, <1>7 DEF SleepInv

(* wait_prepare in ipc_wait_notify.                                        *)
LEMMA WaitNotifyPrepareSleeps ==
    ASSUME SendInv, SendInv', SleepInv, NEW s \in Servers, WaitNotifyPrepare(s)
    PROVE  SleepInv'
<1> USE ChannelAssumption DEF Threads
<1>0. /\ UNCHANGED <<recv_waiters, receiver, setup, closed, dpc, msg_queue, notify_bits>>
      /\ pc[s] = "w_prepare" /\ pc'[s] = "w_recheck" /\ \A t \in Threads \ {s} : pc'[t] = pc[t]
      /\ notify_waiters' = Append(notify_waiters, s)
      /\ state'[s] = "BLOCKED" /\ \A r \in Servers \ {s} : state'[r] = state[r]
  BY GotoMoves DEF WaitNotifyPrepare, life, queues, sender, SendInv, TypeInv, TypeOK
<1>1. /\ NotifyQ' = NotifyQ \cup {s} /\ Distinct(notify_waiters)' /\ s \notin NotifyQ
      /\ RecvQ' = RecvQ /\ Distinct(recv_waiters)' /\ home' = home /\ s \notin RecvQ
  <2>1. /\ notify_waiters \in Seq(Servers) /\ Distinct(recv_waiters) /\ Distinct(notify_waiters)
        /\ s \notin RecvQ /\ s \notin NotifyQ
    BY <1>0 DEF SendInv, TypeInv, TypeOK, SleepInv, Sleepers, ReceivePlaces, NotifyPlaces
  <2>2. /\ Elements(Append(notify_waiters, s)) = Elements(notify_waiters) \cup {s}
        /\ Distinct(Append(notify_waiters, s))
    BY <2>1, AppendWaits DEF NotifyQ
  <2> QED
    BY <1>0, <2>1, <2>2 DEF RecvQ, NotifyQ, home
<1>2. RecvQ \subseteq Servers /\ NotifyQ \subseteq Servers
  BY QueuesOfServers
<1>3. \A r \in Servers : HandedTo(r)' = HandedTo(r)
  BY <1>0 DEF HandedTo
<1>4. Sleepers'
  BY <1>0, <1>1, <1>2, <1>3 DEF SleepInv, Sleepers, ReceivePlaces, NotifyPlaces
<1>5. Handoffs'
  <2> SUFFICES ASSUME NEW d \in Clients, pc'[d] = "s_handoff"
               PROVE  /\ home[receiver[d]] = home[d] /\ receiver[d] \notin RecvQ
                      /\ pc'[receiver[d]] \in ReceivePlaces
    BY <1>0, <1>1 DEF Handoffs
  <2>1. pc[d] = "s_handoff" /\ receiver[d] \in Servers
    BY <1>0 DEF SendInv, TypeInv
  <2>2. /\ home[receiver[d]] = home[d] /\ receiver[d] \notin RecvQ
        /\ pc[receiver[d]] \in ReceivePlaces
    BY <2>1 DEF SleepInv, Handoffs
  <2>3. receiver[d] # s
    BY <1>0, <2>2 DEF ReceivePlaces
  <2> QED
    BY <1>0, <2>1, <2>2, <2>3
<1>6. (ReceiverSleeps' <=> ReceiverSleeps) /\ (NotifySleeps' <=> NotifySleeps)
  BY <1>0, <1>1, <1>2 DEF ReceiverSleeps, NotifySleeps
<1>7. Movers \subseteq Movers'
  BY <1>0, <1>1 DEF Movers, ReceivePlaces
<1>8. Len(msg_queue') <= Len(msg_queue)
  BY <1>0 DEF SendInv, TypeInv, TypeOK
<1>9. Counted'
  BY <1>6, <1>7, <1>8, CountStays DEF SleepInv
<1>10. Covered'
  BY <1>0, <1>6 DEF SleepInv, Covered
<1> QED
  BY <1>4, <1>5, <1>9, <1>10 DEF SleepInv

(* The second look of ipc_wait_notify.                                     *)
LEMMA WaitNotifyRecheckSleeps ==
    ASSUME SendInv, SendInv', SleepInv, NEW s \in Servers, WaitNotifyRecheck(s)
    PROVE  SleepInv'
<1> USE ChannelAssumption DEF Threads
<1>0. /\ UNCHANGED <<recv_waiters, receiver, setup, closed, dpc, msg_queue>>
      /\ pc[s] = "w_recheck" /\ MayRun(s)
  BY DEF WaitNotifyRecheck, Goto, life, queues, sender
<1>a. Len(msg_queue') <= Len(msg_queue)
  BY <1>0 DEF SendInv, TypeInv, TypeOK
<1>1. CASE notify_bits \/ closed
  <2>0. /\ Goto(s, "w_recheck", "idle") /\ notify_bits' = FALSE
        /\ notify_waiters' = Without(notify_waiters, s)
        /\ state' = [state EXCEPT ![s] = "RUNNING"]
    BY <1>1 DEF WaitNotifyRecheck
  <2>1. /\ pc'[s] = "idle" /\ \A t \in Threads \ {s} : pc'[t] = pc[t]
        /\ \A r \in Servers \ {s} : state'[r] = state[r]
    BY <2>0, GotoMoves DEF SendInv, TypeInv, TypeOK
  <2>2. s \notin RecvQ /\ Distinct(recv_waiters) /\ Distinct(notify_waiters)
    BY <1>0 DEF SleepInv, Sleepers, ReceivePlaces
  <2>3. /\ RecvQ' = RecvQ \ {s} /\ NotifyQ' = NotifyQ \ {s}
        /\ Distinct(recv_waiters') /\ Distinct(notify_waiters')
    <3>1. notify_waiters \in Seq(Servers)
      BY DEF SendInv, TypeInv, TypeOK
    <3>2. Elements(notify_waiters') = Elements(notify_waiters) \ {s} /\ Distinct(notify_waiters')
      BY <2>0, <2>2, <3>1, WithoutWaits
    <3> QED
      BY <1>0, <2>2, <3>2 DEF RecvQ, NotifyQ
  <2>4. /\ Sleepers' /\ Handoffs' /\ (ReceiverSleeps' => ReceiverSleeps)
        /\ (NotifySleeps' => NotifySleeps) /\ Movers \ {s} \subseteq Movers'
    BY <1>0, <2>1, <2>3, LeaveSleeps DEF SleepInv, Lying, ReceivePlaces, NotifyPlaces
  <2>5. s \notin Movers
    BY <1>0 DEF Movers, ReceivePlaces
  <2>6. Counted'
    BY <1>a, <2>4, <2>5, CountStays DEF SleepInv
  <2>7. Covered'
    BY <1>0, <2>0, <2>4 DEF SleepInv, Covered
  <2> QED
    BY <2>4, <2>6, <2>7 DEF SleepInv
<1>2. CASE ~notify_bits /\ ~closed
  <2>0. Goto(s, "w_recheck", "w_asleep") /\ UNCHANGED <<notify_bits, notify_waiters, state>>
    BY <1>2 DEF WaitNotifyRecheck
  <2>1. pc'[s] = "w_asleep" /\ \A t \in Threads \ {s} : pc'[t] = pc[t]
    BY <2>0, GotoMoves
  <2>2. /\ RecvQ' = RecvQ /\ NotifyQ' = NotifyQ /\ home' = home
        /\ Distinct(recv_waiters)' /\ Distinct(notify_waiters)'
    BY <1>0, <2>0 DEF RecvQ, NotifyQ, Elements, home, Distinct, SleepInv, Sleepers
  <2>3. RecvQ \subseteq Servers /\ NotifyQ \subseteq Servers
    BY QueuesOfServers
  <2>4. \A r \in Servers : HandedTo(r)' = HandedTo(r)
    BY <1>0, <2>1 DEF HandedTo
  <2>5. Sleepers'
    BY <1>0, <2>0, <2>1, <2>2, <2>3, <2>4 DEF SleepInv, Sleepers, ReceivePlaces, NotifyPlaces
  <2>6. Handoffs'
    BY <1>0, <2>1, <2>2 DEF SleepInv, Handoffs, ReceivePlaces, SendInv, TypeInv
  <2>7. (ReceiverSleeps' => ReceiverSleeps) /\ Movers \subseteq Movers'
    BY <1>0, <2>1, <2>2, <2>3 DEF ReceiverSleeps, Movers, ReceivePlaces
  <2>8. Counted'
    BY <1>a, <2>7, CountStays DEF SleepInv
  <2>9. Covered'
    BY <1>0, <1>2, <2>0 DEF Covered
  <2> QED
    BY <2>5, <2>6, <2>8, <2>9 DEF SleepInv
<1> QED
  BY <1>1, <1>2

(* A woken notification waiter looks again.                                *)
LEMMA WaitNotifyWakeSleeps ==
    ASSUME SendInv, SendInv', SleepInv, NEW s \in Servers, WaitNotifyWake(s)
    PROVE  SleepInv'
<1> USE ChannelAssumption DEF Threads
<1>0. /\ UNCHANGED <<recv_waiters, notify_waiters, receiver, setup, closed, dpc, msg_queue, notify_bits>>
      /\ pc[s] = "w_asleep" /\ pc'[s] = "w_try" /\ \A t \in Threads \ {s} : pc'[t] = pc[t]
      /\ MayRun(s) /\ state[s] = "READY" /\ \A r \in Servers \ {s} : state'[r] = state[r]
  BY GotoMoves DEF WaitNotifyWake, Goto, life, queues, sender, SendInv, TypeInv, TypeOK
<1>1. s \notin RecvQ /\ s \notin NotifyQ /\ Distinct(recv_waiters) /\ Distinct(notify_waiters)
  BY <1>0 DEF SleepInv, Sleepers
<1>2. /\ RecvQ' = RecvQ \ {s} /\ NotifyQ' = NotifyQ \ {s}
      /\ Distinct(recv_waiters') /\ Distinct(notify_waiters')
  BY <1>0, <1>1 DEF RecvQ, NotifyQ
<1>3. /\ Sleepers' /\ Handoffs' /\ (ReceiverSleeps' => ReceiverSleeps)
      /\ (NotifySleeps' => NotifySleeps) /\ Movers \ {s} \subseteq Movers'
  BY <1>0, <1>2, LeaveSleeps DEF SleepInv, Lying, ReceivePlaces, NotifyPlaces
<1>4. s \notin Movers
  BY <1>0 DEF Movers, ReceivePlaces
<1>5. Len(msg_queue') <= Len(msg_queue)
  BY <1>0 DEF SendInv, TypeInv, TypeOK
<1>6. Counted'
  BY <1>3, <1>4, <1>5, CountStays DEF SleepInv
<1>7. Covered'
  BY <1>0, <1>3 DEF SleepInv, Covered
<1> QED
  BY <1>3, <1>6, <1>7 DEF SleepInv

(* wait_queue_wake_all of the receivers: none is left in the queue.        *)
LEMMA WakeAllSleeps ==
    ASSUME SendInv, SendInv', SleepInv, Unblock(RecvQ), recv_waiters' = <<>>,
           UNCHANGED <<notify_waiters, receiver, setup>>,
           \A s \in Servers : pc'[s] = pc[s], \A d \in Clients : Awake(d)
    PROVE  /\ Sleepers' /\ Handoffs' /\ Counted' /\ ~ReceiverSleeps'
           /\ (NotifySleeps' <=> NotifySleeps)
<1> USE ChannelAssumption DEF Threads
<1>1. /\ RecvQ' = {} /\ NotifyQ' = NotifyQ /\ home' = home
      /\ Distinct(recv_waiters)' /\ Distinct(notify_waiters)'
  BY EmptyWaits DEF RecvQ, NotifyQ, home, SleepInv, Sleepers
<1>2. RecvQ \subseteq Servers /\ NotifyQ \subseteq Servers
  BY QueuesOfServers
<1>3. \A s \in Servers : /\ s \notin RecvQ => state'[s] = state[s]
                         /\ s \in RecvQ => state'[s] # "BLOCKED"
  BY UnblockFacts
<1>4. \A s \in NotifyQ : s \notin RecvQ
  BY DEF SleepInv, Sleepers, ReceivePlaces, NotifyPlaces
<1>5. \A s \in Servers : HandedTo(s)' = HandedTo(s)
  BY DEF HandedTo, Awake
<1>6. Sleepers'
  BY <1>1, <1>2, <1>3, <1>4, <1>5 DEF SleepInv, Sleepers
<1>7. Handoffs'
  BY <1>1 DEF SleepInv, Handoffs, Awake, SendInv, TypeInv
<1>8. ~ReceiverSleeps' /\ (NotifySleeps' <=> NotifySleeps)
  BY <1>1, <1>2 DEF ReceiverSleeps, NotifySleeps
<1>9. Counted'
  BY <1>8 DEF Counted
<1> QED
  BY <1>6, <1>7, <1>8, <1>9

(* The same for the notification waiters.                                  *)
LEMMA WakeAllNotifySleeps ==
    ASSUME SendInv, SendInv', SleepInv, Unblock(NotifyQ), notify_waiters' = <<>>,
           UNCHANGED <<recv_waiters, receiver, setup, msg_queue>>,
           \A s \in Servers : pc'[s] = pc[s], \A d \in Clients : Awake(d),
           \A d \in Clients : pc[d] \in {"s_extract", "p_wake"} => pc'[d] = pc[d]
    PROVE  /\ Sleepers' /\ Handoffs' /\ Counted' /\ ~NotifySleeps'
           /\ (ReceiverSleeps' <=> ReceiverSleeps)
<1> USE ChannelAssumption DEF Threads
<1>1. /\ NotifyQ' = {} /\ RecvQ' = RecvQ /\ home' = home
      /\ Distinct(recv_waiters)' /\ Distinct(notify_waiters)'
  BY EmptyWaits DEF RecvQ, NotifyQ, home, SleepInv, Sleepers
<1>2. RecvQ \subseteq Servers /\ NotifyQ \subseteq Servers
  BY QueuesOfServers
<1>3. \A s \in Servers : /\ s \notin NotifyQ => state'[s] = state[s]
                         /\ s \in NotifyQ => state'[s] # "BLOCKED"
  BY UnblockFacts
<1>4. \A s \in RecvQ : s \notin NotifyQ
  BY DEF SleepInv, Sleepers, ReceivePlaces, NotifyPlaces
<1>5. \A s \in Servers : HandedTo(s)' = HandedTo(s)
  BY DEF HandedTo, Awake
<1>6. Sleepers'
  BY <1>1, <1>2, <1>3, <1>4, <1>5 DEF SleepInv, Sleepers
<1>7. Handoffs'
  BY <1>1 DEF SleepInv, Handoffs, Awake, SendInv, TypeInv
<1>8. ~NotifySleeps' /\ (ReceiverSleeps' <=> ReceiverSleeps)
  BY <1>1, <1>2 DEF ReceiverSleeps, NotifySleeps
<1>9. Movers \subseteq Movers'
  BY <1>1 DEF Movers
<1>10. Len(msg_queue') <= Len(msg_queue)
  BY DEF SendInv, TypeInv, TypeOK
<1>11. Counted'
  BY <1>8, <1>9, <1>10, CountStays DEF SleepInv
<1> QED
  BY <1>6, <1>7, <1>8, <1>11

(* ipc_notify wakes the notification waiters, then the receivers.          *)
LEMMA NotifyWakeSleeps ==
    ASSUME SendInv, SendInv', SleepInv, NEW c \in Clients, NotifyWake(c) \/ NotifyWakeRecv(c)
    PROVE  SleepInv'
<1> USE ChannelAssumption DEF Threads
<1>0. UNCHANGED <<receiver, setup, closed, dpc, msg_queue, notify_bits>>
  BY DEF NotifyWake, NotifyWakeRecv, EndCall, Goto, life, queues, sender
<1>1. CASE NotifyWake(c)
  <2>1. /\ pc[c] = "n_wake" /\ pc'[c] = "n_wake_recv" /\ \A t \in Threads \ {c} : pc'[t] = pc[t]
        /\ Unblock(NotifyQ) /\ notify_waiters' = <<>> /\ recv_waiters' = recv_waiters
    BY <1>1, GotoMoves DEF NotifyWake, NotifyQ
  <2>2. /\ Sleepers' /\ Handoffs' /\ Counted' /\ ~NotifySleeps'
        /\ (ReceiverSleeps' <=> ReceiverSleeps)
    BY <1>0, <2>1, WakeAllNotifySleeps DEF Awake
  <2>3. Covered'
    BY <1>0, <2>1, <2>2 DEF SleepInv, Covered
  <2> QED
    BY <2>2, <2>3 DEF SleepInv
<1>2. CASE NotifyWakeRecv(c)
  <2>1. /\ pc[c] = "n_wake_recv" /\ pc'[c] = "idle" /\ \A t \in Threads \ {c} : pc'[t] = pc[t]
        /\ Unblock(RecvQ) /\ recv_waiters' = <<>> /\ notify_waiters' = notify_waiters
    BY <1>2, GotoMoves DEF NotifyWakeRecv, EndCall, RecvQ
  <2>2. /\ Sleepers' /\ Handoffs' /\ Counted' /\ ~ReceiverSleeps'
        /\ (NotifySleeps' <=> NotifySleeps)
    BY <1>0, <2>1, WakeAllSleeps DEF Awake
  <2>3. Covered'
    BY <1>0, <2>1, <2>2 DEF SleepInv, Covered
  <2> QED
    BY <2>2, <2>3 DEF SleepInv
<1> QED
  BY <1>1, <1>2

(* So does ipc_port_destroy, in the other order.                           *)
LEMMA DestroyWakeSleeps ==
    ASSUME SendInv, SendInv', SleepInv, DestroyWakeRecv \/ DestroyWakeNotify
    PROVE  SleepInv'
<1>0. UNCHANGED <<receiver, setup, closed, pc, msg_queue, notify_bits>>
  BY DEF DestroyWakeRecv, DestroyWakeNotify, Destroyer, queues, sender
<1>1. CASE DestroyWakeRecv
  <2>1. /\ dpc' = "wake_notify" /\ Unblock(RecvQ) /\ recv_waiters' = <<>>
        /\ notify_waiters' = notify_waiters
    BY <1>1 DEF DestroyWakeRecv, Destroyer, RecvQ
  <2>2. /\ Sleepers' /\ Handoffs' /\ Counted' /\ ~ReceiverSleeps'
        /\ (NotifySleeps' <=> NotifySleeps)
    BY <1>0, <2>1, WakeAllSleeps DEF Awake
  <2>3. Covered'
    BY <1>0, <2>1, <2>2 DEF SleepInv, Covered
  <2> QED
    BY <2>2, <2>3 DEF SleepInv
<1>2. CASE DestroyWakeNotify
  <2>1. /\ dpc = "wake_notify" /\ Unblock(NotifyQ) /\ notify_waiters' = <<>>
        /\ recv_waiters' = recv_waiters
    BY <1>2 DEF DestroyWakeNotify, Destroyer, NotifyQ
  <2>2. /\ Sleepers' /\ Handoffs' /\ Counted' /\ ~NotifySleeps'
        /\ (ReceiverSleeps' <=> ReceiverSleeps)
    BY <1>0, <2>1, WakeAllNotifySleeps DEF Awake
  <2>3. Covered'
    BY <1>0, <2>1, <2>2 DEF SleepInv, Covered
  <2> QED
    BY <2>2, <2>3 DEF SleepInv
<1> QED
  BY <1>1, <1>2

(* The owner's threads are killed and taken off their queues.              *)
LEMMA OwnerExitSleeps ==
    ASSUME SendInv, SendInv', SleepInv, OwnerExit
    PROVE  SleepInv'
<1> USE ChannelAssumption DEF Threads
<1>0. /\ recv_waiters' = <<>> /\ notify_waiters' = <<>>
      /\ \A s \in Servers : pc'[s] = "dead" /\ state'[s] = "DEAD"
      /\ \A c \in Clients : pc'[c] = pc[c]
      /\ \A s \in Servers : CpuFree(home[s], None)
  BY DEF OwnerExit, Destroyer
<1>1. RecvQ' = {} /\ NotifyQ' = {} /\ Distinct(recv_waiters)' /\ Distinct(notify_waiters)'
  BY <1>0, EmptyWaits DEF RecvQ, NotifyQ
<1>2. Sleepers'
  BY <1>0, <1>1 DEF Sleepers
<1>3. Handoffs'
  <2> SUFFICES ASSUME NEW c \in Clients, pc[c] = "s_handoff" PROVE FALSE
    BY <1>0 DEF Handoffs
  <2>1. receiver[c] \in Servers /\ home[receiver[c]] = home[c] /\ InKernel(c) /\ c # None
    BY DEF SendInv, TypeInv, SleepInv, Handoffs, InKernel
  <2> QED
    BY <1>0, <2>1 DEF CpuFree
<1>4. Counted' /\ Covered'
  BY <1>1 DEF Counted, Covered, ReceiverSleeps, NotifySleeps
<1> QED
  BY <1>2, <1>3, <1>4 DEF SleepInv

----------------------------------------------------------------------------
(* Nobody sleeps on a fresh port.                                          *)
LEMMA InitSleeps == Init => SleepInv
<1> SUFFICES ASSUME Init PROVE SleepInv
  OBVIOUS
<1>1. /\ RecvQ = {} /\ NotifyQ = {} /\ Distinct(recv_waiters) /\ Distinct(notify_waiters)
      /\ \A t \in Threads : pc[t] = "idle" /\ state[t] = "RUNNING"
  BY EmptyWaits DEF Init, RecvQ, NotifyQ
<1> QED
  BY <1>1 DEF SleepInv, Sleepers, Handoffs, Counted, Covered, ReceiverSleeps, NotifySleeps, Threads

(* Every step of the channel keeps sleepers covered.                       *)
LEMMA NextSleeps ==
    ASSUME SendInv, SendInv', SleepInv, Next
    PROVE  SleepInv'
<1>1. ASSUME NEW c \in Clients, ClientStep(c) \/ SendGet(c) \/ PostGet(c) \/ NotifyGet(c) \/ Kill(c)
      PROVE  SleepInv'
  BY <1>1, ClientsAreCalm, EnqueueSleeps, SendExtractSleeps, SendHandoffSleeps, PostWakeSleeps,
     NotifySetSleeps, NotifyWakeSleeps DEF ClientStep
<1>2. ASSUME NEW s \in Servers, ServerStep(s) PROVE SleepInv'
  BY <1>2, ReceiveTrySleeps, ReceiveNowaitSleeps, ReceivePrepareSleeps, ReceiveRecheckSleeps,
     ReceiveWakeSleeps, WaitNotifyTrySleeps, WaitNotifyPrepareSleeps, WaitNotifyRecheckSleeps,
     WaitNotifyWakeSleeps, ReplySleeps DEF ServerStep
<1>3. ASSUME NEW s \in Servers, ReceiveGet(s) \/ NowaitGet(s) \/ WaitNotifyGet(s)
      PROVE  SleepInv'
  BY <1>3, ServerGetSleeps DEF ReceiveGet, NowaitGet, WaitNotifyGet
<1>4. CASE OwnerExit \/ DestroyUnlink \/ DestroyStep
  BY <1>4, OwnerExitSleeps, DestroyUnlinkSleeps, DestroyWakeSleeps, DestroyRestSleeps DEF DestroyStep
<1>5. ASSUME NEW t \in Threads, NEW c \in Clients, StrayReply(t, c) PROVE SleepInv'
  BY <1>5, StrayReplySleeps
<1> QED
  BY <1>1, <1>2, <1>3, <1>4, <1>5 DEF Next

(* No lost wake-up: when no call is on its way to wake anybody and no      *)
(* server is awake inside a call, whoever sleeps in ipc_receive or         *)
(* ipc_wait_notify has no message, no bits and no dead port to learn of,   *)
(* although messages, bits and the port's death are announced outside the  *)
(* lock under which they were made and one wake is shared by many waiters. *)
THEOREM SleepersHaveNoWork == Spec => []NobodySleepsOnWork
<1>1. SendInv /\ SleepInv => NobodySleepsOnWork
  <2> SUFFICES ASSUME SendInv, SleepInv, Quiet, NEW s \in Servers, Sleeps(s)
               PROVE  ~closed /\ ~notify_bits /\ (pc[s] = "r_asleep" => msg_queue = <<>>)
    BY DEF NobodySleepsOnWork
  <2>1. /\ \A c \in Clients : pc[c] \notin Rousing
        /\ dpc \in {"idle", "done"}
    BY DEF Quiet, Waking, Rousing
  <2>2. \A r \in Servers : ~HandedTo(r)
    BY <2>1 DEF HandedTo, Rousing
  <2>3. CASE pc[s] = "w_asleep"
    <3>1. NotifySleeps
      BY <2>3 DEF Sleeps, SleepInv, Sleepers, NotifyPlaces, NotifySleeps
    <3> QED
      BY <2>1, <2>3, <3>1 DEF SleepInv, Covered, Rousing
  <2>4. CASE pc[s] = "r_asleep"
    <3>1. ReceiverSleeps
      BY <2>2, <2>4 DEF Sleeps, SleepInv, Sleepers, ReceivePlaces, ReceiverSleeps
    <3>2. Movers = {}
      <4>1. ASSUME NEW r \in Servers PROVE r \notin Movers
        <5>1. pc[r] \in {"idle", "reply"} \/ (pc[r] \in {"r_asleep", "w_asleep"} /\ state[r] = "BLOCKED")
          BY DEF Quiet, Sleeps
        <5> QED
          BY <2>2, <5>1, ChannelAssumption DEF Movers, SleepInv, Sleepers, ReceivePlaces
      <4> QED
        BY <2>1, <4>1 DEF Movers, Rousing
    <3>3. Len(msg_queue) <= 0
      BY <3>1, <3>2, FS_EmptySet DEF SleepInv, Counted
    <3>4. msg_queue = <<>>
      BY <3>3 DEF SendInv, TypeInv, TypeOK
    <3> QED
      BY <2>1, <3>1, <3>4 DEF SleepInv, Covered, Rousing
  <2> QED
    BY <2>3, <2>4 DEF Sleeps
<1>2. Init => SendInv /\ SleepInv
  BY InitInv, InitSleeps
<1>3. SendInv /\ SleepInv /\ [Next]_vars => (SendInv /\ SleepInv)'
  BY NextInv, StutterInv, NextSleeps, StutterSleeps
<1> QED
  BY <1>1, <1>2, <1>3, PTL DEF Spec
=============================================================================
