------------------------------ MODULE IpcPort ------------------------------
(***************************************************************************)
(* Life cycle of IPC ports: kernel/ipc/port.c with kernel/krt/refcount.h.  *)
(*                                                                         *)
(* One action is one critical section of s_global_lock, or one atomic      *)
(* read-modify-write of a reference count; everything a thread does        *)
(* between two of them is a value of its program counter.  The table, the  *)
(* stack of free ids and the stack of recycled structs are the arrays of   *)
(* the source.                                                             *)
(***************************************************************************)
EXTENDS Naturals, FiniteSets

CONSTANTS Threads,       \* kernel threads that call the port API
          Structs,       \* addresses an ipc_port_t can have
          NoPort,        \* the NULL pointer
          MaxPorts,      \* MAX_PORTS: the valid ids are 1..MaxPorts-1
          RecycleMax,    \* PORT_RECYCLE_MAX
          Saturated,     \* REFCOUNT_SATURATED
          QueueMax,      \* PORT_QUEUE_MAX
          GenMax         \* bound: ids are not created more often than this

ASSUME PortAssumption ==
    /\ NoPort \notin Structs
    /\ MaxPorts \in Nat /\ MaxPorts > 1
    /\ RecycleMax \in Nat
    /\ Saturated \in Nat /\ Saturated > 1
    /\ QueueMax \in Nat /\ GenMax \in Nat
    /\ IsFiniteSet(Threads)

Ids == 1 .. (MaxPorts - 1)
Ptrs == Structs \cup {NoPort}

VARIABLES s_table,       \* id -> the live port, or NoPort
          s_freelist, s_free_top,
          s_generation,  \* per id, outside the struct: survives recycling
          s_recycle, s_recycle_top,
          heap,          \* structs that are kheap memory, not ports
          port,          \* contents of each struct
          owned_ports,   \* structs linked in their owner's owned_ports list
          pc, ptr,       \* per thread: where it is, the port pointer it holds
          snap           \* per thread: the (id, gen) binding it remembers

tables == <<s_table, s_freelist, s_free_top, s_generation>>
structs == <<s_recycle, s_recycle_top, heap>>
vars == <<tables, structs, port, owned_ports, pc, ptr, snap>>

PortRecord == [id : Ids \cup {0}, state : {"ACTIVE", "CLOSED"}, generation : Nat,
               refcount : 0 .. Saturated, msg_count : 0 .. QueueMax]

(* "idle": outside the API; "using": between get and put; "waking": in     *)
(* destroy, after the locked section and before the slot's reference is    *)
(* dropped; "drain", "free", "return": the steps of port_teardown.         *)
Locations == {"idle", "using", "waking", "drain", "free", "return"}

TypeOK ==
    /\ s_table \in [Ids -> Ptrs]
    /\ s_freelist \in [Ids -> Ids] /\ s_free_top \in 0 .. (MaxPorts - 1)
    /\ s_generation \in [Ids -> Nat]
    /\ s_recycle \in [1 .. RecycleMax -> Ptrs] /\ s_recycle_top \in 0 .. RecycleMax
    /\ heap \subseteq Structs /\ owned_ports \subseteq Structs
    /\ port \in [Structs -> PortRecord]
    /\ pc \in [Threads -> Locations]
    /\ ptr \in [Threads -> Ptrs]
    /\ snap \in [Threads -> [id : Ids \cup {0}, gen : Nat]]

----------------------------------------------------------------------------
NoBinding == [id |-> 0, gen |-> 0]

(* The array is filled from MaxPorts-1 down to 1, so id 1 is on top.       *)
Init ==
    /\ s_table = [i \in Ids |-> NoPort]
    /\ s_freelist = [i \in Ids |-> MaxPorts - i] /\ s_free_top = MaxPorts - 1
    /\ s_generation = [i \in Ids |-> 0]
    /\ s_recycle = [i \in 1 .. RecycleMax |-> NoPort] /\ s_recycle_top = 0
    /\ heap = Structs /\ owned_ports = {}
    /\ port = [s \in Structs |-> [id |-> 0, state |-> "CLOSED", generation |-> 0,
                                  refcount |-> 0, msg_count |-> 0]]
    /\ pc = [t \in Threads |-> "idle"]
    /\ ptr = [t \in Threads |-> NoPort]
    /\ snap = [t \in Threads |-> NoBinding]

(* Slip: a teardown one reference too early.                               *)
DropsLastEarly(n) == n <= 2

(* refcount_inc freezes at the saturation value; refcount_dec never moves  *)
(* a frozen or a zero count, and tells whether this call reached zero.     *)
Inc(n) == IF n >= Saturated THEN n ELSE n + 1
Dec(n) == IF n >= Saturated \/ n = 0 THEN n ELSE n - 1
DropsLast(n) == n = 1 /\ n < Saturated

(* ipc_port_create on id's turn: s is the struct taken from the recycle    *)
(* stack or from the heap; the owner may already have left the process     *)
(* table, then the port is linked nowhere.                                 *)
FreshPort(id, gen) == [id |-> id, state |-> "ACTIVE", generation |-> gen,
                       refcount |-> 1, msg_count |-> 0]

CreateWith(t, s) ==
    LET id == s_freelist[s_free_top] IN
    /\ s_generation[id] < GenMax
    /\ s_free_top' = s_free_top - 1
    /\ s_generation' = [s_generation EXCEPT ![id] = @ + 1]
    /\ port' = [port EXCEPT ![s] = FreshPort(id, s_generation[id] + 1)]
    /\ s_table' = [s_table EXCEPT ![id] = s]
    /\ owned_ports' \in {owned_ports, owned_ports \cup {s}}
    /\ UNCHANGED <<s_freelist, s_recycle, pc, ptr, snap>>

CreateRecycled(t) ==
    /\ pc[t] = "idle" /\ s_free_top > 0 /\ s_recycle_top > 0
    /\ CreateWith(t, s_recycle[s_recycle_top])
    /\ s_recycle_top' = s_recycle_top - 1
    /\ UNCHANGED heap

CreateFromHeap(t) ==
    /\ pc[t] = "idle" /\ s_free_top > 0 /\ s_recycle_top = 0
    /\ \E s \in heap : CreateWith(t, s) /\ heap' = heap \ {s}
    /\ UNCHANGED s_recycle_top

(* ipc_port_get and ipc_port_get_checked: look up and reference under the  *)
(* global lock.  A thread that got a port by id alone remembers which one  *)
(* it was, as senders do with target_port_id and target_port_gen; a        *)
(* checked get is asked for the binding the thread already remembers.      *)
Visible(id) == s_table[id] # NoPort /\ port[s_table[id]].state # "CLOSED"

(* Slip: the pointer is handed out uncounted.                              *)
ReferenceUncounted(t, id) ==
    /\ ptr' = [ptr EXCEPT ![t] = s_table[id]]
    /\ pc' = [pc EXCEPT ![t] = "using"]
    /\ UNCHANGED <<tables, structs, port, owned_ports>>

Reference(t, id) ==
    LET s == s_table[id] IN
    /\ port' = [port EXCEPT ![s].refcount = Inc(@)]
    /\ ptr' = [ptr EXCEPT ![t] = s]
    /\ pc' = [pc EXCEPT ![t] = "using"]
    /\ UNCHANGED <<tables, structs, owned_ports>>

Get(t, id) ==
    /\ pc[t] = "idle" /\ Visible(id) /\ Reference(t, id)
    /\ snap' = [snap EXCEPT ![t] = [id |-> id, gen |-> port[s_table[id]].generation]]

(* Slip: the generation argument is not compared.                          *)
GetUnchecked(t) ==
    /\ pc[t] = "idle" /\ snap[t].id # 0
    /\ Visible(snap[t].id) /\ Reference(t, snap[t].id)
    /\ UNCHANGED snap

GetChecked(t) ==
    LET b == snap[t] IN
    /\ pc[t] = "idle" /\ b.id # 0
    /\ Visible(b.id) /\ port[s_table[b.id]].generation = b.gen
    /\ Reference(t, b.id)
    /\ UNCHANGED snap

(* ipc_port_generation: a snapshot for a checked delivery later on.        *)
Generation(t, id) ==
    /\ pc[t] = "idle"
    /\ snap' = [snap EXCEPT ![t] =
          IF Visible(id) THEN [id |-> id, gen |-> port[s_table[id]].generation]
                         ELSE NoBinding]
    /\ UNCHANGED <<tables, structs, port, owned_ports, pc, ptr>>

(* What a holder does with the port: queue a message while there is room.  *)
Enqueue(t) ==
    /\ pc[t] = "using" /\ port[ptr[t]].msg_count < QueueMax
    /\ port' = [port EXCEPT ![ptr[t]].msg_count = @ + 1]
    /\ UNCHANGED <<tables, structs, owned_ports, pc, ptr, snap>>

(* Drop the reference t holds; the call that reaches zero tears down.      *)
DropRef(t) ==
    LET last == DropsLast(port[ptr[t]].refcount) IN
    /\ port' = [port EXCEPT ![ptr[t]].refcount = Dec(@)]
    /\ pc' = [pc EXCEPT ![t] = IF last THEN "drain" ELSE "idle"]
    /\ ptr' = [ptr EXCEPT ![t] = IF last THEN @ ELSE NoPort]
    /\ UNCHANGED <<tables, structs, owned_ports, snap>>

Put(t) == pc[t] = "using" /\ DropRef(t)

(* Slip: destroy leaves the table slot in place.                           *)
DestroyKeepsSlot(t, id) ==
    /\ pc[t] = "idle" /\ s_table[id] # NoPort
    /\ port' = [port EXCEPT ![s_table[id]].state = "CLOSED"]
    /\ pc' = [pc EXCEPT ![t] = "waking"]
    /\ ptr' = [ptr EXCEPT ![t] = s_table[id]]
    /\ UNCHANGED <<tables, owned_ports, structs, snap>>

(* Slip: destroy forgets the slot's own reference.                         *)
DestroyDropForgotten(t) ==
    /\ pc[t] = "waking"
    /\ pc' = [pc EXCEPT ![t] = "idle"] /\ ptr' = [ptr EXCEPT ![t] = NoPort]
    /\ UNCHANGED <<tables, structs, port, owned_ports, snap>>

(* Slip: destroy tears the port down whoever still holds it.               *)
DestroyDropForced(t) ==
    /\ pc[t] = "waking"
    /\ pc' = [pc EXCEPT ![t] = "drain"]
    /\ UNCHANGED <<tables, structs, port, owned_ports, ptr, snap>>

(* ipc_port_destroy: the locked section; then, with the slot's reference   *)
(* in hand, the wakes (module IpcChannel); then the drop.                  *)
DestroyUnlink(t, id) ==
    LET s == s_table[id] IN
    /\ pc[t] = "idle" /\ s # NoPort
    /\ port' = [port EXCEPT ![s].state = "CLOSED"]
    /\ s_table' = [s_table EXCEPT ![id] = NoPort]
    /\ owned_ports' = owned_ports \ {s}
    /\ pc' = [pc EXCEPT ![t] = "waking"]
    /\ ptr' = [ptr EXCEPT ![t] = s]
    /\ UNCHANGED <<s_freelist, s_free_top, s_generation, structs, snap>>

DestroyDrop(t) == pc[t] = "waking" /\ DropRef(t)

(* Slip: the queue is not drained.                                         *)
TeardownUndrained(t) ==
    /\ pc[t] = "drain"
    /\ snap' = [snap EXCEPT ![t] = [id |-> port[ptr[t]].id, gen |-> 0]]
    /\ pc' = [pc EXCEPT ![t] = "free"]
    /\ UNCHANGED <<tables, structs, port, owned_ports, ptr>>

(* port_teardown: free the queued messages, recycle the struct (the local  *)
(* port_id outlives it: here in snap), give the id back.                   *)
TeardownDrain(t) ==
    /\ pc[t] = "drain"
    /\ port' = [port EXCEPT ![ptr[t]].msg_count = 0]
    /\ snap' = [snap EXCEPT ![t] = [id |-> port[ptr[t]].id, gen |-> 0]]
    /\ pc' = [pc EXCEPT ![t] = "free"]
    /\ UNCHANGED <<tables, structs, owned_ports, ptr>>

TeardownRecycle(t) ==
    /\ pc[t] = "free"
    /\ IF s_recycle_top < RecycleMax
       THEN /\ s_recycle_top' = s_recycle_top + 1
            /\ s_recycle' = [s_recycle EXCEPT ![s_recycle_top + 1] = ptr[t]]
            /\ UNCHANGED heap
       ELSE heap' = heap \cup {ptr[t]} /\ UNCHANGED <<s_recycle, s_recycle_top>>
    /\ ptr' = [ptr EXCEPT ![t] = NoPort]
    /\ pc' = [pc EXCEPT ![t] = "return"]
    /\ UNCHANGED <<tables, port, owned_ports, snap>>

TeardownReturn(t) ==
    /\ pc[t] = "return"
    /\ s_free_top' = s_free_top + 1
    /\ s_freelist' = [s_freelist EXCEPT ![s_free_top + 1] = snap[t].id]
    /\ pc' = [pc EXCEPT ![t] = "idle"]
    /\ snap' = [snap EXCEPT ![t] = NoBinding]
    /\ UNCHANGED <<s_table, s_generation, structs, port, owned_ports, ptr>>

(* The steps a thread owes once it is inside a call.                       *)
Finish(t) == \/ Put(t) \/ DestroyDrop(t)
             \/ TeardownDrain(t) \/ TeardownRecycle(t) \/ TeardownReturn(t)

Next == \E t \in Threads :
            \/ CreateRecycled(t) \/ CreateFromHeap(t)
            \/ \E id \in Ids : Get(t, id) \/ Generation(t, id) \/ DestroyUnlink(t, id)
            \/ GetChecked(t) \/ Enqueue(t) \/ Finish(t)

Spec == Init /\ [][Next]_vars

(* No path of port.c or channel.c keeps a reference for ever: every thread *)
(* that is scheduled runs on to its put (a blocked receiver or sender is   *)
(* woken by the destroy that wants the port gone).  The exceptions, a      *)
(* thread killed inside a call among them, are runs of IpcChannel.         *)
FairSpec == Spec /\ \A t \in Threads : WF_vars(Finish(t))
----------------------------------------------------------------------------
(* A struct is a port from the create that takes it until the teardown     *)
(* hands it to the recycle stack or to the heap.                           *)
Recycled == {s_recycle[i] : i \in 1 .. s_recycle_top}
Allocated == Structs \ (heap \cup Recycled)
FreeIds == {s_freelist[i] : i \in 1 .. s_free_top}

(* Threads that own one of the references counted in s's refcount, besides *)
(* the one of the table slot (destroy keeps the slot's own reference).     *)
Holders(s) == {t \in Threads : pc[t] \in {"using", "waking"} /\ ptr[t] = s}
SlotRef(s) == IF s_table[port[s].id] = s THEN 1 ELSE 0

(* What ipc_port_get promises: from the get to the put the pointer is a    *)
(* port, and still the incarnation the caller asked for, whatever destroys,*)
(* teardowns and creates other threads run meanwhile (port.h:12).          *)
HeldPortIsTheOneGot ==
    \A t \in Threads :
        /\ pc[t] \in {"using", "waking"} => ptr[t] \in Allocated
        /\ pc[t] = "using" => /\ port[ptr[t]].id = snap[t].id
                              /\ port[ptr[t]].generation = snap[t].gen

(* An id is free at most once, and a free id belongs to no live port, to   *)
(* no port still held after its destroy and to no teardown under way: a    *)
(* second teardown of one port would hand the same id to two owners.       *)
IdFreeOnlyOnce ==
    /\ \A i, j \in 1 .. s_free_top : s_freelist[i] = s_freelist[j] => i = j
    /\ \A id \in FreeIds :
          /\ s_table[id] = NoPort
          /\ \A s \in Allocated : port[s].id # id
          /\ \A t \in Threads : pc[t] = "return" => snap[t].id # id

(* Two live ports never share a struct, and the teardown of a struct is    *)
(* exclusive: nobody else holds it and no slot names it ("a refcount 0 e   *)
(* slot NULL nessun altro percorso puo' raggiungere lo struct", port.c:199)*)
TeardownIsExclusive ==
    \A t \in Threads : pc[t] \in {"drain", "free"} =>
        /\ ptr[t] \in Allocated
        /\ \A id \in Ids : s_table[id] # ptr[t]
        /\ \A u \in Threads \ {t} : ptr[u] # ptr[t]

(* The count is the number of references really held, unless it froze.     *)
RefcountIsExact ==
    \A s \in Allocated :
        \/ port[s].refcount = Saturated
        \/ port[s].refcount = SlotRef(s) + Cardinality(Holders(s))

(* What leaves port duty carries nothing with it: no queued message (its   *)
(* entry and payload would leak: create zeroes the list) and no link from  *)
(* a process's owned_ports (the owner's cleanup would follow it).          *)
NothingLeftBehind ==
    /\ \A s \in Structs \ Allocated : port[s].msg_count = 0
    /\ \A s \in owned_ports : s \in Allocated /\ s_table[port[s].id] = s

(* The rest of what port.c relies on.  The recycle stack holds distinct    *)
(* structs that are not heap memory; an allocated struct is the newest     *)
(* incarnation of its id, the only one, and ACTIVE exactly while the slot  *)
(* names it; a thread between two critical sections points at an allocated *)
(* struct, or has an id of its own to give back.                           *)
RecycleStack ==
    /\ \A i \in 1 .. s_recycle_top : s_recycle[i] \in Structs \ heap
    /\ \A i, j \in 1 .. s_recycle_top : s_recycle[i] = s_recycle[j] => i = j

NewestIncarnation ==
    /\ \A s \in Allocated :
          /\ port[s].id \in Ids
          /\ port[s].generation = s_generation[port[s].id]
          /\ port[s].state = "ACTIVE" <=> s_table[port[s].id] = s
    /\ \A s, r \in Allocated : port[s].id = port[r].id => s = r
    /\ \A id \in Ids : s_table[id] # NoPort =>
          s_table[id] \in Allocated /\ port[s_table[id]].id = id

ThreadPlace ==
    \A t \in Threads :
        /\ pc[t] \in {"using", "waking", "drain", "free"} => ptr[t] \in Allocated
        /\ pc[t] \in {"idle", "return"} => ptr[t] = NoPort
        /\ pc[t] = "free" => /\ snap[t].id = port[ptr[t]].id
                             /\ port[ptr[t]].msg_count = 0
        /\ pc[t] = "waking" => s_table[port[ptr[t]].id] # ptr[t]
        /\ pc[t] = "return" =>
              /\ snap[t].id \in Ids
              /\ \A s \in Allocated : port[s].id # snap[t].id
              /\ \A u \in Threads :
                    pc[u] = "return" /\ snap[u].id = snap[t].id => u = t

(* All of it together is preserved by every step: the inductive invariant. *)
PortInv == /\ TypeOK /\ RecycleStack /\ NewestIncarnation /\ ThreadPlace
           /\ HeldPortIsTheOneGot /\ IdFreeOnlyOnce /\ TeardownIsExclusive
           /\ RefcountIsExact /\ NothingLeftBehind

(* A new incarnation of an id begins only when the old one is still: no    *)
(* thread holds a struct that carries the id ("l'id si ricicla solo a      *)
(* struct davvero fermo", port.c:346).                                     *)
ReissueStep ==
    \A id \in Ids : s_generation'[id] # s_generation[id] =>
        \A t \in Threads : ptr[t] # NoPort => port[ptr[t]].id # id

ReusedOnlyWhenStill == [][ReissueStep]_vars

(* Every destroyed port comes to its end: the id is eventually available   *)
(* again, unless the count froze (then the port is immortal on purpose).   *)
DestroyedIdComesBack ==
    \A id \in Ids : s_table[id] = NoPort ~>
        \/ id \in FreeIds \/ s_table[id] # NoPort
        \/ \E s \in Structs : port[s].id = id /\ port[s].refcount = Saturated

(* The promise of the component, module PortIncarnation: the state of an   *)
(* id is read off the table and the free stack, its holders off the        *)
(* pointers threads have.                                                  *)
Status == [id \in Ids |-> IF s_table[id] # NoPort THEN "live"
                          ELSE IF id \in FreeIds THEN "free" ELSE "dying"]
HeldBy == [id \in Ids |-> {t \in Threads : /\ pc[t] \in {"using", "waking"}
                                           /\ port[ptr[t]].id = id}]

Incarnations == INSTANCE PortIncarnation WITH
                    status <- Status, gen <- s_generation, holders <- HeldBy

(* Ports as implemented keep that promise.                                 *)
ImplementsIncarnations == Incarnations!Spec
=============================================================================
