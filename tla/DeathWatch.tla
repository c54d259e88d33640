---------------------------- MODULE DeathWatch -----------------------------
(***************************************************************************)
(* Death notifications of ports: the deathwatch_ functions of              *)
(* kernel/ipc/port.c, their caller sys_watch_port, and the order of the    *)
(* teardown in process_destroy_local.                                      *)
(*                                                                         *)
(* A step is one critical section: s_global_lock (create, generation,      *)
(* destroy), s_dw_lock (add, one batch of fire, cleanup_watcher) or one    *)
(* ipc_post_kernel.  Each process is one thread; that the id of a port     *)
(* comes back only after its destroy is what IpcPort shows.                *)
(***************************************************************************)
EXTENDS Naturals, Sequences, SequencesExt

CONSTANTS Procs, None,
          Ids,         \* port ids
          DwMax,       \* DEATHWATCH_MAX
          BatchMax,    \* entries collected per turn of deathwatch_fire (16)
          QueueMax,    \* PORT_QUEUE_MAX
          GenMax       \* bound: creates of one id

Gens == 1 .. GenMax
Slots == 1 .. DwMax
Entries == [pid : Procs, notify : Ids, target : Ids, gen : Gens]
Incarnations == [id : Ids, gen : Gens]

ASSUME WatchAssumption ==
    /\ None \notin Procs \cup Entries \cup Incarnations
    /\ DwMax \in Nat /\ BatchMax \in Nat \ {0} /\ QueueMax \in Nat /\ GenMax \in Nat

VARIABLES owner,       \* id -> the process that owns the live port, or None
          generation,  \* s_generation
          s_dw,        \* slot -> entry, or None
          inbox,       \* id -> entries whose notice is queued on the live port
          pc,          \* per process
          call,        \* per process: the watch it is registering
          dying,       \* per process: the (id, gen) it is destroying
          batch,       \* per process: notices collected, not yet posted
          more,        \* per process: the last batch was full
          due,         \* per process: the watches it found when it unlinked
          exiting,     \* processes in process_destroy_local
          asked,       \* watches that returned 0
          posted       \* notices handed to ipc_post_kernel

ports == <<owner, generation>>
firing == <<dying, batch, more, due>>
vars == <<ports, s_dw, inbox, pc, call, firing, exiting, asked, posted>>

Places == {"idle", "w_gen", "w_add", "fire", "post", "dead"}

TypeOK ==
    /\ owner \in [Ids -> Procs \cup {None}] /\ generation \in [Ids -> 0 .. GenMax]
    /\ s_dw \in [Slots -> Entries \cup {None}]
    /\ inbox \in [Ids -> Seq(Entries)] /\ \A i \in Ids : Len(inbox[i]) <= QueueMax
    /\ pc \in [Procs -> Places]
    /\ call \in [Procs -> Entries \cup {None}]
    /\ dying \in [Procs -> Incarnations \cup {None}]
    /\ batch \in [Procs -> Seq(Entries)] /\ \A p \in Procs : Len(batch[p]) <= BatchMax
    /\ more \in [Procs -> BOOLEAN] /\ due \in [Procs -> SUBSET Entries]
    /\ exiting \subseteq Procs /\ asked \subseteq Entries /\ posted \subseteq Entries

Init ==
    /\ owner = [i \in Ids |-> None] /\ generation = [i \in Ids |-> 0]
    /\ s_dw = [s \in Slots |-> None] /\ inbox = [i \in Ids |-> <<>>]
    /\ pc = [p \in Procs |-> "idle"] /\ call = [p \in Procs |-> None]
    /\ dying = [p \in Procs |-> None] /\ batch = [p \in Procs |-> <<>>]
    /\ more = [p \in Procs |-> FALSE] /\ due = [p \in Procs |-> {}]
    /\ exiting = {} /\ asked = {} /\ posted = {}

Goto(p, from, to) == pc[p] = from /\ pc' = [pc EXCEPT ![p] = to]
Dead(i, g) == owner[i] = None \/ generation[i] # g

----------------------------------------------------------------------------
(* ipc_port_create: an id whose last destroy is over, a new generation.    *)
Create(p, i) ==
    /\ pc[p] = "idle" /\ p \notin exiting
    /\ owner[i] = None /\ generation[i] < GenMax
    /\ \A q \in Procs : dying[q] # None => dying[q].id # i
    /\ owner' = [owner EXCEPT ![i] = p]
    /\ generation' = [generation EXCEPT ![i] = @ + 1]
    /\ UNCHANGED <<s_dw, inbox, pc, call, firing, exiting, asked, posted>>

(* sys_watch_port: the notify port must be the caller's; the generation of *)
(* the target was read earlier, the port may be gone or recycled.          *)
WatchBegin(p, w) ==
    /\ Goto(p, "idle", "w_gen") /\ p \notin exiting
    /\ w.pid = p /\ owner[w.notify] = p /\ w.gen <= generation[w.target]
    /\ call' = [call EXCEPT ![p] = w]
    /\ UNCHANGED <<ports, s_dw, inbox, firing, exiting, asked, posted>>

(* deathwatch_add, first half: ipc_port_generation under s_global_lock.    *)
(* A dead target returns 1.                                                *)
WatchGenCheck(p) ==
    /\ pc[p] = "w_gen"
    /\ IF Dead(call[p].target, call[p].gen)
       THEN Goto(p, "w_gen", "idle") /\ call' = [call EXCEPT ![p] = None]
       ELSE Goto(p, "w_gen", "w_add") /\ UNCHANGED call
    /\ UNCHANGED <<ports, s_dw, inbox, firing, exiting, asked, posted>>

Used == {s \in Slots : s_dw[s] # None}
SameWatch(e, w) == e.notify = w.notify /\ e.target = w.target /\ e.gen = w.gen
Watched(w) == \E s \in Used : SameWatch(s_dw[s], w)
FirstFree(s) == s \notin Used /\ \A r \in Slots \ Used : s <= r

(* Second half, under s_dw_lock: known already (0), table full (-1), or    *)
(* entered in the first free slot (0).                                     *)
WatchAdd(p) ==
    LET w == call[p] IN
    /\ Goto(p, "w_add", "idle") /\ call' = [call EXCEPT ![p] = None]
    /\ IF Watched(w) THEN asked' = asked \cup {w} /\ UNCHANGED s_dw
       ELSE IF Used = Slots THEN UNCHANGED <<s_dw, asked>>
       ELSE /\ \E s \in Slots : FirstFree(s) /\ s_dw' = [s_dw EXCEPT ![s] = w]
            /\ asked' = asked \cup {w}
    /\ UNCHANGED <<ports, inbox, firing, exiting, posted>>

----------------------------------------------------------------------------
Watches(i, g) == {s \in Used : s_dw[s].target = i /\ s_dw[s].gen = g}

(* Slip: the slot of the table is not cleared.                             *)
DestroyKeepsSlot(p, i) ==
    /\ Goto(p, "idle", "fire") /\ owner[i] = p
    /\ inbox' = [inbox EXCEPT ![i] = <<>>]
    /\ dying' = [dying EXCEPT ![p] = [id |-> i, gen |-> generation[i]]]
    /\ due' = [due EXCEPT ![p] = {s_dw[s] : s \in Watches(i, generation[i])}]
    /\ UNCHANGED <<ports, s_dw, call, batch, more, exiting, asked, posted>>

(* ipc_port_destroy up to the fire; what was queued goes with the port.    *)
Destroy(p, i) ==
    /\ Goto(p, "idle", "fire") /\ owner[i] = p
    /\ owner' = [owner EXCEPT ![i] = None] /\ inbox' = [inbox EXCEPT ![i] = <<>>]
    /\ dying' = [dying EXCEPT ![p] = [id |-> i, gen |-> generation[i]]]
    /\ due' = [due EXCEPT ![p] = {s_dw[s] : s \in Watches(i, generation[i])}]
    /\ UNCHANGED <<generation, s_dw, call, batch, more, exiting, asked, posted>>

(* The slots deathwatch_fire collects in one turn: those that watch this   *)
(* incarnation, in the order of the table, up to BatchMax.                 *)
Hits(p, hits) ==
    LET hit == Watches(dying[p].id, dying[p].gen) IN
    /\ ToSet(hits) \subseteq hit
    /\ \A m, n \in DOMAIN hits : m < n => hits[m] < hits[n]
    /\ \A s \in hit \ ToSet(hits) : Len(hits) = BatchMax /\ \A n \in DOMAIN hits : hits[n] < s

(* The fire is over: the destroy goes on.                                  *)
EndsFire(p, over) ==
    IF over THEN dying' = [dying EXCEPT ![p] = None] /\ due' = [due EXCEPT ![p] = {}]
    ELSE UNCHANGED <<dying, due>>

Fire(p) ==
    \E k \in 0 .. BatchMax : \E hits \in [1 .. k -> Slots] :
        /\ pc[p] = "fire" /\ Hits(p, hits)
        /\ Goto(p, "fire", IF k = 0 THEN "idle" ELSE "post")
        /\ batch' = [batch EXCEPT ![p] = [n \in 1 .. k |-> s_dw[hits[n]]]]
        /\ s_dw' = [s \in Slots |-> IF s \in ToSet(hits) THEN None ELSE s_dw[s]]
        /\ more' = [more EXCEPT ![p] = (k = BatchMax)]
        /\ EndsFire(p, k = 0)
        /\ UNCHANGED <<ports, inbox, call, exiting, asked, posted>>

(* ipc_post_kernel of the first notice of the batch: by id alone.  Dropped *)
(* when no port is there or its queue is full.                             *)
Deliver(n) ==
    inbox' = IF owner[n.notify] # None /\ Len(inbox[n.notify]) < QueueMax
             THEN [inbox EXCEPT ![n.notify] = Append(@, n)] ELSE inbox

(* Slip: a full batch is taken for the last one.                           *)
PostLastBatch(p) ==
    LET n == Head(batch[p])
        last == Tail(batch[p]) = <<>> IN
    /\ Goto(p, "post", IF last THEN "idle" ELSE "post")
    /\ Deliver(n) /\ posted' = posted \cup {n}
    /\ batch' = [batch EXCEPT ![p] = Tail(@)]
    /\ EndsFire(p, last)
    /\ UNCHANGED <<ports, s_dw, call, more, exiting, asked>>

Post(p) ==
    LET n == Head(batch[p])
        last == Tail(batch[p]) = <<>> IN
    /\ Goto(p, "post", IF ~last THEN "post" ELSE IF more[p] THEN "fire" ELSE "idle")
    /\ Deliver(n) /\ posted' = posted \cup {n}
    /\ batch' = [batch EXCEPT ![p] = Tail(@)]
    /\ EndsFire(p, last /\ ~more[p])
    /\ UNCHANGED <<ports, s_dw, call, more, exiting, asked>>

(* The owner of a notify port receives.                                    *)
Receive(p, i) ==
    /\ pc[p] = "idle" /\ owner[i] = p /\ inbox[i] # <<>>
    /\ inbox' = [inbox EXCEPT ![i] = Tail(@)]
    /\ UNCHANGED <<ports, s_dw, pc, call, firing, exiting, asked, posted>>

----------------------------------------------------------------------------
(* process_destroy_local: the ports are destroyed one by one, then the     *)
(* watches of the process are dropped.                                     *)
Exit(p) ==
    /\ pc[p] = "idle" /\ p \notin exiting /\ exiting' = exiting \cup {p}
    /\ UNCHANGED <<ports, s_dw, inbox, pc, call, firing, asked, posted>>

(* ipc_ports_cleanup_owner *)
CleanupOwner(p) == p \in exiting /\ \E i \in Ids : Destroy(p, i)

(* Slip: the watches of the dead process stay.                             *)
CleanupWatcherForgotten(p) ==
    /\ p \in exiting /\ \A i \in Ids : owner[i] # p
    /\ Goto(p, "idle", "dead")
    /\ UNCHANGED <<ports, s_dw, inbox, call, firing, exiting, asked, posted>>

CleanupWatcher(p) ==
    /\ p \in exiting /\ \A i \in Ids : owner[i] # p
    /\ Goto(p, "idle", "dead")
    /\ s_dw' = [s \in Slots |-> IF s \in Used /\ s_dw[s].pid = p THEN None ELSE s_dw[s]]
    /\ UNCHANGED <<ports, inbox, call, firing, exiting, asked, posted>>

----------------------------------------------------------------------------
Inside(p) ==
    \/ WatchGenCheck(p) \/ WatchAdd(p) \/ Fire(p) \/ Post(p)
    \/ CleanupOwner(p) \/ CleanupWatcher(p)

Next ==
    \E p \in Procs :
        \/ Inside(p) \/ Exit(p)
        \/ \E i \in Ids : Create(p, i) \/ Receive(p, i) \/ (p \notin exiting /\ Destroy(p, i))
        \/ \E w \in Entries : WatchBegin(p, w)

(* A call that has begun, and a teardown that has begun, go on.            *)
Spec == Init /\ [][Next]_vars
FairSpec == Spec /\ \A p \in Procs : WF_vars(Inside(p))

----------------------------------------------------------------------------
(* A notice speaks of an incarnation that is really gone: a watch of an    *)
(* old binding is never fired by, nor fires for, the id's next owner.      *)
Pending == UNION ({ToSet(inbox[i]) : i \in Ids} \cup {ToSet(batch[p]) : p \in Procs})
NoticesSpeakOfTheDead == \A n \in Pending : Dead(n.target, n.gen)

(* Registering again is a no-op: the table never holds the same watch      *)
(* twice, so that one death is one notice (one-shot).                      *)
NoWatchTwice ==
    \A s, r \in Used : SameWatch(s_dw[s], s_dw[r]) => s = r

(* A process that is gone watches nothing.                                 *)
DeadProcessWatchesNothing ==
    \A s \in Used : pc[s_dw[s].pid] # "dead"

(* The table of watches: well typed, without doubles, without the dead.    *)
WatchInv == TypeOK /\ NoWatchTwice /\ DeadProcessWatchesNothing

(* Every watch in the table when its target dies is posted before the      *)
(* destroy goes on to its wakes, however many batches they fill and        *)
(* whatever is added in the meantime; unless the watcher is gone.          *)
DueArePosted ==
    [][\A p \in Procs : dying[p] # None /\ dying'[p] = None =>
           \A e \in due[p] : e \in posted' \/ pc[e.pid] = "dead"]_vars

(* A watch that returned 0 is answered when its target is dead, as long as *)
(* the watcher keeps its notify port (port.c:22, port.h:98-99).            *)
WatchingIsTold ==
    \A e \in Entries :
        e \in asked /\ Dead(e.target, e.gen) ~> e \in posted \/ owner[e.notify] # e.pid

(* A notice queued on a port is for its owner: the notify port was the     *)
(* watcher's own (syscall.c:637-638, port.c:142-143).                      *)
NoticeIsForTheOwner == \A i \in Ids : \A n \in ToSet(inbox[i]) : n.pid = owner[i]
=============================================================================
