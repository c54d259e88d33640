-------------------------- MODULE PortIncarnation --------------------------
(***************************************************************************)
(* What kernel/ipc/port.h promises of a port id, without structs, counts   *)
(* or stacks: an id is free, live or dying; every opening is a new         *)
(* incarnation; a thread that acquired the id holds that incarnation until *)
(* it releases it; a dying id becomes free again only when nobody holds it.*)
(***************************************************************************)
EXTENDS Naturals

CONSTANTS Threads, Ids, GenMax

VARIABLES status, gen, holders

vars == <<status, gen, holders>>

Init == /\ status = [id \in Ids |-> "free"]
        /\ gen = [id \in Ids |-> 0]
        /\ holders = [id \in Ids |-> {}]

Open(id) == /\ status[id] = "free" /\ gen[id] < GenMax
            /\ status' = [status EXCEPT ![id] = "live"]
            /\ gen' = [gen EXCEPT ![id] = @ + 1]
            /\ UNCHANGED holders

Acquire(t, id) == /\ status[id] = "live"
                  /\ \A i \in Ids : t \notin holders[i]
                  /\ holders' = [holders EXCEPT ![id] = @ \cup {t}]
                  /\ UNCHANGED <<status, gen>>

Release(t, id) == /\ t \in holders[id]
                  /\ holders' = [holders EXCEPT ![id] = @ \ {t}]
                  /\ UNCHANGED <<status, gen>>

(* The destroyer closes the id and holds it while it wakes the waiters.    *)
Close(t, id) == /\ status[id] = "live"
                /\ \A i \in Ids : t \notin holders[i]
                /\ status' = [status EXCEPT ![id] = "dying"]
                /\ holders' = [holders EXCEPT ![id] = @ \cup {t}]
                /\ UNCHANGED gen

Reclaim(id) == /\ status[id] = "dying" /\ holders[id] = {}
               /\ status' = [status EXCEPT ![id] = "free"]
               /\ UNCHANGED <<gen, holders>>

Next == \E id \in Ids :
            \/ Open(id) \/ Reclaim(id)
            \/ \E t \in Threads : Acquire(t, id) \/ Release(t, id) \/ Close(t, id)

Spec == Init /\ [][Next]_vars
=============================================================================
