--------------------------- MODULE IpcPortProofs ---------------------------
(***************************************************************************)
(* Proofs about IpcPort, for any number of threads, ids and structs.       *)
(***************************************************************************)
EXTENDS IpcPort, FiniteSetTheorems, TLAPS

(* Counts stay within the saturation value.                                *)
LEMMA CountRange ==
    ASSUME NEW n \in 0 .. Saturated
    PROVE  Inc(n) \in 0 .. Saturated /\ Dec(n) \in 0 .. Saturated
BY PortAssumption DEF Inc, Dec

(* The holders of a struct are a finite set, so they can be counted.       *)
LEMMA HoldersFinite ==
    ASSUME NEW s
    PROVE  IsFiniteSet(Holders(s)) /\ Cardinality(Holders(s)) \in Nat
<1>1. Holders(s) \in SUBSET Threads
  BY DEF Holders
<1> QED
  BY <1>1, PortAssumption, FS_Subset, FS_CardinalityType

(* A store to one field of one struct keeps the structs well formed.       *)
LEMMA FieldStore ==
    ASSUME port \in [Structs -> PortRecord], NEW s \in Structs
    PROVE  /\ \A n \in 0 .. QueueMax :
                [port EXCEPT ![s].msg_count = n] \in [Structs -> PortRecord]
           /\ \A n \in 0 .. Saturated :
                [port EXCEPT ![s].refcount = n] \in [Structs -> PortRecord]
           /\ [port EXCEPT ![s].state = "CLOSED"] \in [Structs -> PortRecord]
           /\ [port EXCEPT ![s].msg_count = 0] \in [Structs -> PortRecord]
<1>1. \A n \in 0 .. QueueMax : [port[s] EXCEPT !.msg_count = n] \in PortRecord
  BY DEF PortRecord
<1>2. \A n \in 0 .. Saturated : [port[s] EXCEPT !.refcount = n] \in PortRecord
  BY DEF PortRecord
<1>3. [port[s] EXCEPT !.state = "CLOSED"] \in PortRecord
  BY DEF PortRecord
<1>4. [port[s] EXCEPT !.msg_count = 0] \in PortRecord
  <2>1. 0 \in 0 .. QueueMax
    BY PortAssumption
  <2> QED
    BY <2>1 DEF PortRecord
<1> QED
  BY <1>1, <1>2, <1>3, <1>4

(* Steps that move no struct between port duty, recycle stack and heap.    *)
LEMMA AllocatedStays ==
    ASSUME UNCHANGED structs
    PROVE  Allocated' = Allocated
BY DEF Allocated, Recycled, structs

(* Steps that neither push nor pop an id.                                  *)
LEMMA FreeIdsStay ==
    ASSUME UNCHANGED <<s_freelist, s_free_top>>
    PROVE  FreeIds' = FreeIds
BY DEF FreeIds

(* With an empty table, all ids free and all structs on the heap, the      *)
(* invariant holds.                                                        *)
LEMMA InvInit == Init => PortInv
<1> SUFFICES ASSUME Init PROVE PortInv
  OBVIOUS
<1> USE PortAssumption DEF Init
<1>1. TypeOK
  BY DEF TypeOK, Ids, Ptrs, PortRecord, Locations, NoBinding
<1>2. Allocated = {} /\ owned_ports = {}
  BY DEF Allocated
<1>3. IdFreeOnlyOnce
  <2>1. \A i, j \in 1 .. s_free_top : s_freelist[i] = s_freelist[j] => i = j
    BY DEF Ids
  <2>2. \A id \in FreeIds : s_table[id] = NoPort
    BY <1>1 DEF FreeIds, TypeOK, Ids
  <2> QED
    BY <1>2, <2>1, <2>2 DEF IdFreeOnlyOnce
<1>4. RecycleStack /\ NewestIncarnation /\ ThreadPlace
  BY <1>2 DEF RecycleStack, NewestIncarnation, ThreadPlace
<1>5. /\ HeldPortIsTheOneGot /\ TeardownIsExclusive
      /\ RefcountIsExact /\ NothingLeftBehind
  BY <1>2 DEF HeldPortIsTheOneGot, TeardownIsExclusive, RefcountIsExact, NothingLeftBehind
<1> QED
  BY <1>1, <1>3, <1>4, <1>5 DEF PortInv

(* ipc_port_generation only rewrites the caller's own snapshot.            *)
LEMMA GenerationInv ==
    ASSUME PortInv, NEW t \in Threads, NEW id \in Ids, Generation(t, id)
    PROVE  PortInv'
<1> USE DEF Generation
<1>1. Allocated' = Allocated /\ FreeIds' = FreeIds
  BY AllocatedStays, FreeIdsStay DEF tables
<1>2. TypeOK'
  BY PortAssumption DEF PortInv, TypeOK, NoBinding, Visible, Ptrs, PortRecord, tables, structs
<1>3. \A s : Holders(s)' = Holders(s) /\ SlotRef(s)' = SlotRef(s)
  BY DEF Holders, SlotRef, tables
<1>4. RecycleStack' /\ NewestIncarnation' /\ RefcountIsExact' /\ NothingLeftBehind'
  BY <1>1, <1>3 DEF PortInv, RecycleStack, NewestIncarnation, RefcountIsExact, NothingLeftBehind,
     tables, structs
<1>5. \A u \in Threads : pc[u] # "idle" => snap'[u] = snap[u]
  BY DEF PortInv, TypeOK
<1>6. ThreadPlace'
  BY <1>1, <1>5 DEF PortInv, ThreadPlace, tables
<1>7. HeldPortIsTheOneGot'
  BY <1>1, <1>5 DEF PortInv, HeldPortIsTheOneGot
<1>8. IdFreeOnlyOnce'
  BY <1>1, <1>5 DEF PortInv, IdFreeOnlyOnce, tables
<1>9. TeardownIsExclusive'
  BY <1>1 DEF PortInv, TeardownIsExclusive, tables
<1> QED
  BY <1>2, <1>4, <1>6, <1>7, <1>8, <1>9 DEF PortInv

(* Queueing a message touches the count of a held, hence allocated, port.  *)
LEMMA EnqueueInv ==
    ASSUME PortInv, NEW t \in Threads, Enqueue(t)
    PROVE  PortInv'
<1> USE DEF Enqueue
<1>1. Allocated' = Allocated /\ FreeIds' = FreeIds
  BY AllocatedStays, FreeIdsStay DEF tables
<1>2. ptr[t] \in Allocated /\ ptr[t] \in Structs
  BY DEF PortInv, ThreadPlace, Allocated
<1>3. \A s \in Structs : /\ port'[s].id = port[s].id
                         /\ port'[s].state = port[s].state
                         /\ port'[s].generation = port[s].generation
                         /\ port'[s].refcount = port[s].refcount
                         /\ s # ptr[t] => port'[s].msg_count = port[s].msg_count
  BY <1>2 DEF PortInv, TypeOK, PortRecord
<1>4. TypeOK'
  <2>1. port[ptr[t]].msg_count + 1 \in 0 .. QueueMax
    BY <1>2, PortAssumption DEF PortInv, TypeOK, PortRecord
  <2>2. port' \in [Structs -> PortRecord]
    BY <1>2, <2>1, FieldStore DEF PortInv, TypeOK
  <2> QED
    BY <2>2 DEF PortInv, TypeOK, tables, structs
<1>5. \A s \in Structs : Holders(s)' = Holders(s) /\ SlotRef(s)' = SlotRef(s)
  BY <1>3 DEF Holders, SlotRef, tables
<1>6. Allocated \subseteq Structs /\ \A id \in Ids : s_table[id] # NoPort => s_table[id] \in Structs
  BY DEF Allocated, PortInv, TypeOK, Ptrs
<1>7. RecycleStack' /\ NewestIncarnation' /\ RefcountIsExact'
  BY <1>1, <1>3, <1>5, <1>6 DEF PortInv, RecycleStack, NewestIncarnation, RefcountIsExact, tables, structs
<1>8. \A u \in Threads : pc[u] = "free" => ptr[u] # ptr[t]
  BY DEF PortInv, TeardownIsExclusive
<1>9. ThreadPlace'
  BY <1>1, <1>3, <1>6, <1>8 DEF PortInv, ThreadPlace, tables
<1>10. HeldPortIsTheOneGot' /\ IdFreeOnlyOnce' /\ TeardownIsExclusive'
  BY <1>1, <1>3, <1>6 DEF PortInv, HeldPortIsTheOneGot, IdFreeOnlyOnce, TeardownIsExclusive, tables
<1>11. NothingLeftBehind'
  BY <1>1, <1>2, <1>3, <1>6 DEF PortInv, NothingLeftBehind, tables
<1> QED
  BY <1>4, <1>7, <1>9, <1>10, <1>11 DEF PortInv

(* A lookup adds its caller to the holders of the port the slot names, and *)
(* one to the count, unless the count is frozen.                           *)
LEMMA ReferenceInv ==
    ASSUME PortInv, NEW t \in Threads, NEW id \in Ids,
           pc[t] = "idle", Visible(id), Reference(t, id),
           snap' \in [Threads -> [id : Ids \cup {0}, gen : Nat]],
           \A u \in Threads \ {t} : snap'[u] = snap[u],
           snap'[t] = [id |-> id, gen |-> port[s_table[id]].generation]
    PROVE  PortInv'
<1> DEFINE s == s_table[id]
<1> USE DEF Reference
<1>1. Allocated' = Allocated /\ FreeIds' = FreeIds
  BY AllocatedStays, FreeIdsStay DEF tables
<1>2. s \in Allocated /\ s \in Structs /\ port[s].id = id
  BY DEF PortInv, NewestIncarnation, Visible, Allocated
<1>3. \A r \in Structs : /\ port'[r].id = port[r].id
                         /\ port'[r].state = port[r].state
                         /\ port'[r].generation = port[r].generation
                         /\ port'[r].msg_count = port[r].msg_count
                         /\ r # s => port'[r].refcount = port[r].refcount
  BY <1>2 DEF PortInv, TypeOK, PortRecord
<1>4. port'[s].refcount = Inc(port[s].refcount) /\ port[s].refcount \in 0 .. Saturated
  BY <1>2 DEF PortInv, TypeOK, PortRecord
<1>5. TypeOK'
  <2>1. port' \in [Structs -> PortRecord]
    BY <1>2, <1>4, CountRange, FieldStore DEF PortInv, TypeOK
  <2> QED
    BY <1>2, <2>1 DEF PortInv, TypeOK, tables, structs, Locations, Ptrs
<1>6. Allocated \subseteq Structs /\ \A i \in Ids : s_table[i] # NoPort => s_table[i] \in Structs
  BY DEF Allocated, PortInv, TypeOK, Ptrs
<1>7. /\ pc'[t] = "using" /\ ptr'[t] = s
      /\ \A u \in Threads \ {t} : pc'[u] = pc[u] /\ ptr'[u] = ptr[u]
  BY DEF PortInv, TypeOK
<1>8. ptr[t] = NoPort /\ NoPort \notin Structs
  BY PortAssumption DEF PortInv, ThreadPlace
<1>9. RecycleStack' /\ NewestIncarnation' /\ NothingLeftBehind'
  BY <1>1, <1>3, <1>6 DEF PortInv, RecycleStack, NewestIncarnation, NothingLeftBehind, tables, structs
<1>10. ThreadPlace'
  BY <1>1, <1>2, <1>3, <1>6, <1>7 DEF PortInv, ThreadPlace, tables
<1>11. HeldPortIsTheOneGot'
  BY <1>1, <1>2, <1>3, <1>6, <1>7 DEF PortInv, HeldPortIsTheOneGot
<1>12. IdFreeOnlyOnce'
  BY <1>1, <1>3, <1>6, <1>7 DEF PortInv, IdFreeOnlyOnce, tables
<1>13. TeardownIsExclusive'
  BY <1>1, <1>2, <1>7 DEF PortInv, TeardownIsExclusive, tables
<1>14. RefcountIsExact'
  <2> SUFFICES ASSUME NEW r \in Allocated
               PROVE  \/ port'[r].refcount = Saturated
                      \/ port'[r].refcount = SlotRef(r)' + Cardinality(Holders(r)')
    BY <1>1 DEF RefcountIsExact
  <2>1. SlotRef(r)' = SlotRef(r) /\ SlotRef(r) \in Nat
    BY <1>3, <1>6 DEF SlotRef, tables
  <2>2. CASE r # s
    <3>1. Holders(r)' = Holders(r)
      BY <1>6, <1>7, <1>8, <2>2 DEF Holders
    <3> QED
      BY <1>3, <1>6, <2>1, <2>2, <3>1 DEF PortInv, RefcountIsExact
  <2>3. CASE r = s
    <3>1. Holders(r)' = Holders(r) \cup {t} /\ t \notin Holders(r)
      BY <1>2, <1>7, <1>8, <2>3 DEF Holders
    <3>2. Cardinality(Holders(r)') = Cardinality(Holders(r)) + 1 /\ Cardinality(Holders(r)) \in Nat
      BY <3>1, HoldersFinite, FS_AddElement
    <3>3. \/ port[s].refcount = Saturated
          \/ port[s].refcount = SlotRef(s) + Cardinality(Holders(s))
      BY <1>2 DEF PortInv, RefcountIsExact
    <3> QED
      BY <1>4, <2>1, <2>3, <3>2, <3>3, PortAssumption DEF Inc
  <2> QED
    BY <2>2, <2>3
<1> QED
  BY <1>5, <1>9, <1>10, <1>11, <1>12, <1>13, <1>14 DEF PortInv

(* ipc_port_get takes a counted reference to what the table names.         *)
LEMMA GetInv ==
    ASSUME PortInv, NEW t \in Threads, NEW id \in Ids, Get(t, id)
    PROVE  PortInv'
<1>1. port[s_table[id]].generation \in Nat
  BY DEF Get, Visible, PortInv, TypeOK, Ptrs, PortRecord
<1> QED
  BY <1>1, ReferenceInv DEF Get, PortInv, TypeOK

(* ipc_port_get_checked: the same, if the generation is the one asked for. *)
LEMMA GetCheckedInv ==
    ASSUME PortInv, NEW t \in Threads, GetChecked(t)
    PROVE  PortInv'
<1>1. snap[t].id \in Ids /\ snap[t] = [id |-> snap[t].id, gen |-> snap[t].gen]
  BY DEF GetChecked, PortInv, TypeOK
<1> QED
  BY <1>1, ReferenceInv DEF GetChecked, PortInv, TypeOK

(* A drop removes its caller from the holders and one from the count; if   *)
(* it reaches zero, no slot and no other thread has the port any more.     *)
LEMMA DropRefInv ==
    ASSUME PortInv, NEW t \in Threads, pc[t] \in {"using", "waking"}, DropRef(t)
    PROVE  PortInv'
<1>0. PICK s \in Structs : s = ptr[t]
  BY DEF PortInv, ThreadPlace, Allocated
<1> DEFINE last == DropsLast(port[s].refcount)
<1> USE <1>0 DEF DropRef
<1>1. Allocated' = Allocated /\ FreeIds' = FreeIds
  BY AllocatedStays, FreeIdsStay DEF tables
<1>2. s \in Allocated /\ s \in Structs /\ s # NoPort
  BY PortAssumption DEF PortInv, ThreadPlace, Allocated
<1>3. \A r \in Structs : /\ port'[r].id = port[r].id
                         /\ port'[r].state = port[r].state
                         /\ port'[r].generation = port[r].generation
                         /\ port'[r].msg_count = port[r].msg_count
                         /\ r # s => port'[r].refcount = port[r].refcount
  BY <1>2 DEF PortInv, TypeOK, PortRecord
<1>4. port'[s].refcount = Dec(port[s].refcount) /\ port[s].refcount \in 0 .. Saturated
  BY <1>2 DEF PortInv, TypeOK, PortRecord
<1>5. TypeOK'
  <2>1. port' \in [Structs -> PortRecord]
    BY <1>2, <1>4, CountRange, FieldStore DEF PortInv, TypeOK
  <2> QED
    BY <1>2, <2>1 DEF PortInv, TypeOK, tables, structs, Locations, Ptrs
<1>6. Allocated \subseteq Structs /\ \A i \in Ids : s_table[i] # NoPort => s_table[i] \in Structs
  BY DEF Allocated, PortInv, TypeOK, Ptrs
<1>7. /\ pc'[t] = IF last THEN "drain" ELSE "idle"
      /\ ptr'[t] = IF last THEN s ELSE NoPort
      /\ \A u \in Threads \ {t} : pc'[u] = pc[u] /\ ptr'[u] = ptr[u]
  BY DEF PortInv, TypeOK
<1>8. /\ \A r \in Allocated \ {s} : Holders(r)' = Holders(r)
      /\ Holders(s)' = Holders(s) \ {t} /\ t \in Holders(s)
      /\ \A r \in Allocated : SlotRef(r)' = SlotRef(r) /\ SlotRef(r) \in {0, 1}
  <2>1. t \in Holders(s)
    BY DEF Holders
  <2>2. \A r \in Allocated \ {s} : Holders(r)' = Holders(r)
    BY <1>2, <1>6, <1>7, PortAssumption DEF Holders
  <2>3. Holders(s)' = Holders(s) \ {t}
    BY <1>2, <1>7 DEF Holders
  <2>4. \A r \in Allocated : SlotRef(r)' = SlotRef(r) /\ SlotRef(r) \in {0, 1}
    BY <1>3, <1>6 DEF SlotRef, tables
  <2> QED
    BY <2>1, <2>2, <2>3, <2>4
<1>9. /\ Cardinality(Holders(s)') = Cardinality(Holders(s)) - 1
      /\ Cardinality(Holders(s)) \in Nat
      /\ IsFiniteSet(Holders(s) \ {t})
  BY <1>8, HoldersFinite, FS_RemoveElement
<1>10. \/ port[s].refcount = Saturated
       \/ port[s].refcount = SlotRef(s) + Cardinality(Holders(s))
  BY <1>2 DEF PortInv, RefcountIsExact
<1>11. RefcountIsExact'
  <2>1. ASSUME NEW r \in Allocated, r # s
        PROVE  \/ port'[r].refcount = Saturated
               \/ port'[r].refcount = SlotRef(r)' + Cardinality(Holders(r)')
    BY <1>3, <1>6, <1>8, <2>1 DEF PortInv, RefcountIsExact
  <2>2. Cardinality(Holders(s)) # 0
    BY <1>8, HoldersFinite, FS_EmptySet
  <2>3. \/ port'[s].refcount = Saturated
        \/ port'[s].refcount = SlotRef(s)' + Cardinality(Holders(s)')
    BY <1>2, <1>4, <1>8, <1>9, <1>10, <2>2, PortAssumption DEF Dec
  <2> QED
    BY <1>1, <2>1, <2>3 DEF RefcountIsExact
<1>12. last => SlotRef(s) = 0 /\ Holders(s) = {t}
  <2> SUFFICES ASSUME last PROVE SlotRef(s) = 0 /\ Holders(s) = {t}
    OBVIOUS
  <2>1. port[s].refcount = 1 /\ port[s].refcount # Saturated
    BY PortAssumption DEF DropsLast
  <2>2. Cardinality(Holders(s)) # 0
    BY <1>8, HoldersFinite, FS_EmptySet
  <2>3. SlotRef(s) = 0 /\ Cardinality(Holders(s)) = 1
    BY <1>2, <1>8, <1>9, <1>10, <2>1, <2>2
  <2>4. Holders(s) \ {t} = {}
    BY <1>8, <1>9, <2>3, FS_EmptySet
  <2> QED
    BY <1>8, <2>3, <2>4
<1>13. RecycleStack' /\ NewestIncarnation' /\ NothingLeftBehind'
  BY <1>1, <1>3, <1>6 DEF PortInv, RecycleStack, NewestIncarnation, NothingLeftBehind, tables, structs
<1>14. ThreadPlace'
  BY <1>1, <1>2, <1>3, <1>6, <1>7 DEF PortInv, ThreadPlace, tables
<1>15. HeldPortIsTheOneGot'
  BY <1>1, <1>2, <1>3, <1>6, <1>7 DEF PortInv, HeldPortIsTheOneGot
<1>16. IdFreeOnlyOnce'
  BY <1>1, <1>3, <1>6, <1>7 DEF PortInv, IdFreeOnlyOnce, tables
<1>17. \A u \in Threads \ {t} : last => ptr[u] # s
  <2> SUFFICES ASSUME last, NEW u \in Threads \ {t}, ptr[u] = s PROVE FALSE
    OBVIOUS
  <2>1. pc[u] \notin {"using", "waking"}
    BY <1>12 DEF Holders
  <2>2. pc[u] \notin {"drain", "free"}
    BY DEF PortInv, TeardownIsExclusive
  <2>3. pc[u] \in {"idle", "return"}
    BY <2>1, <2>2 DEF PortInv, TypeOK, Locations
  <2> QED
    BY <1>2, <2>3 DEF PortInv, ThreadPlace
<1>18. last => \A i \in Ids : s_table[i] # s
  BY <1>2, <1>12 DEF SlotRef, PortInv, NewestIncarnation
<1>19. TeardownIsExclusive'
  <2> SUFFICES ASSUME NEW u \in Threads, pc'[u] \in {"drain", "free"}
               PROVE  /\ ptr'[u] \in Allocated'
                      /\ \A i \in Ids : s_table'[i] # ptr'[u]
                      /\ \A v \in Threads \ {u} : ptr'[v] # ptr'[u]
    BY DEF TeardownIsExclusive
  <2>1. CASE u = t
    BY <1>1, <1>2, <1>7, <1>17, <1>18, <2>1 DEF tables
  <2>2. CASE u # t
    <3>1. pc[u] \in {"drain", "free"} /\ ptr'[u] = ptr[u]
      BY <1>7, <2>2
    <3>2. /\ ptr[u] \in Allocated
          /\ \A i \in Ids : s_table[i] # ptr[u]
          /\ \A v \in Threads \ {u} : ptr[v] # ptr[u]
      BY <3>1 DEF PortInv, TeardownIsExclusive
    <3>3. \A v \in Threads : ptr'[v] \in {ptr[v], NoPort} /\ NoPort \notin Allocated
      BY <1>6, <1>7, PortAssumption
    <3> QED
      BY <1>1, <3>1, <3>2, <3>3 DEF tables
  <2> QED
    BY <2>1, <2>2
<1> QED
  BY <1>5, <1>11, <1>13, <1>14, <1>15, <1>16, <1>19 DEF PortInv

(* Destroy takes the reference of the slot over: the sum is unchanged.     *)
LEMMA DestroyUnlinkInv ==
    ASSUME PortInv, NEW t \in Threads, NEW id \in Ids, DestroyUnlink(t, id)
    PROVE  PortInv'
<1>0. PICK s \in Structs : s = s_table[id]
  BY DEF DestroyUnlink, PortInv, TypeOK, Ptrs
<1> USE <1>0 DEF DestroyUnlink
<1>1. Allocated' = Allocated /\ FreeIds' = FreeIds
  BY AllocatedStays, FreeIdsStay
<1>2. s \in Allocated /\ s \in Structs /\ port[s].id = id /\ s # NoPort
  BY DEF PortInv, NewestIncarnation, Allocated
<1>3. /\ \A r \in Structs : /\ port'[r].id = port[r].id
                            /\ port'[r].generation = port[r].generation
                            /\ port'[r].msg_count = port[r].msg_count
                            /\ port'[r].refcount = port[r].refcount
                            /\ r # s => port'[r].state = port[r].state
      /\ port'[s].state = "CLOSED"
  BY <1>2 DEF PortInv, TypeOK, PortRecord
<1>4. TypeOK'
  <2>1. port' \in [Structs -> PortRecord]
    BY <1>2, FieldStore DEF PortInv, TypeOK
  <2>2. s_table' \in [Ids -> Ptrs] /\ ptr' \in [Threads -> Ptrs] /\ pc' \in [Threads -> Locations]
    BY <1>2 DEF PortInv, TypeOK, Ptrs, Locations
  <2> QED
    BY <2>1, <2>2 DEF PortInv, TypeOK, structs
<1>5. Allocated \subseteq Structs /\ \A i \in Ids : s_table[i] # NoPort => s_table[i] \in Structs
  BY DEF Allocated, PortInv, TypeOK, Ptrs
<1>6. /\ pc'[t] = "waking" /\ ptr'[t] = s /\ pc[t] = "idle" /\ ptr[t] = NoPort
      /\ \A u \in Threads \ {t} : pc'[u] = pc[u] /\ ptr'[u] = ptr[u]
  BY DEF PortInv, TypeOK, ThreadPlace
<1>7. s_table'[id] = NoPort /\ \A i \in Ids \ {id} : s_table'[i] = s_table[i] /\ s_table[i] # s
  BY <1>2 DEF PortInv, TypeOK, NewestIncarnation
<1>8. RecycleStack' /\ NewestIncarnation' /\ NothingLeftBehind'
  <2>1. RecycleStack'
    BY DEF PortInv, RecycleStack, structs
  <2>2. NewestIncarnation'
    BY <1>1, <1>2, <1>3, <1>5, <1>7 DEF PortInv, NewestIncarnation
  <2>3. NothingLeftBehind'
    BY <1>1, <1>2, <1>3, <1>5, <1>7 DEF PortInv, NothingLeftBehind, NewestIncarnation
  <2> QED
    BY <2>1, <2>2, <2>3
<1>9. ThreadPlace'
  <2>1. ASSUME NEW u \in Threads, pc'[u] = "waking"
        PROVE  s_table'[port'[ptr'[u]].id] # ptr'[u]
    <3>1. CASE u = t
      BY <1>2, <1>3, <1>6, <1>7, <3>1
    <3>2. CASE u # t
      <4>1. ptr[u] \in Allocated /\ s_table[port[ptr[u]].id] # ptr[u] /\ port[ptr[u]].id \in Ids
        BY <1>6, <2>1, <3>2 DEF PortInv, ThreadPlace, NewestIncarnation
      <4> QED
        BY <1>3, <1>5, <1>6, <1>7, <3>2, <4>1, PortAssumption
    <3> QED
      BY <3>1, <3>2
  <2>2. \A u \in Threads :
          /\ pc'[u] \in {"using", "waking", "drain", "free"} => ptr'[u] \in Allocated'
          /\ pc'[u] \in {"idle", "return"} => ptr'[u] = NoPort
          /\ pc'[u] = "free" => /\ snap'[u].id = port'[ptr'[u]].id
                                /\ port'[ptr'[u]].msg_count = 0
    BY <1>1, <1>2, <1>3, <1>5, <1>6 DEF PortInv, ThreadPlace
  <2>3. \A u \in Threads : pc'[u] = "return" =>
          /\ snap'[u].id \in Ids
          /\ \A r \in Allocated' : port'[r].id # snap'[u].id
          /\ \A v \in Threads : pc'[v] = "return" /\ snap'[v].id = snap'[u].id => v = u
    BY <1>1, <1>3, <1>5, <1>6 DEF PortInv, ThreadPlace
  <2> QED
    BY <2>1, <2>2, <2>3 DEF ThreadPlace
<1>10. HeldPortIsTheOneGot'
  BY <1>1, <1>2, <1>3, <1>5, <1>6 DEF PortInv, HeldPortIsTheOneGot
<1>11. IdFreeOnlyOnce'
  BY <1>1, <1>3, <1>5, <1>6, <1>7 DEF PortInv, IdFreeOnlyOnce
<1>12. TeardownIsExclusive'
  BY <1>1, <1>2, <1>6, <1>7 DEF PortInv, TeardownIsExclusive
<1>13. RefcountIsExact'
  <2>1. ASSUME NEW r \in Allocated, r # s
        PROVE  port'[r].refcount = port[r].refcount /\ SlotRef(r)' = SlotRef(r) /\ Holders(r)' = Holders(r)
    <3>1. Holders(r)' = Holders(r)
      BY <1>5, <1>6, <2>1, PortAssumption DEF Holders
    <3>2. SlotRef(r)' = SlotRef(r)
      BY <1>3, <1>5, <1>7, <2>1 DEF SlotRef, PortInv, NewestIncarnation
    <3> QED
      BY <1>3, <1>5, <3>1, <3>2
  <2>2. SlotRef(s) = 1 /\ SlotRef(s)' = 0
    BY <1>2, <1>3, <1>7 DEF SlotRef
  <2>3. Holders(s)' = Holders(s) \cup {t} /\ t \notin Holders(s)
    BY <1>2, <1>6 DEF Holders
  <2>4. Cardinality(Holders(s)') = Cardinality(Holders(s)) + 1 /\ Cardinality(Holders(s)) \in Nat
    BY <2>3, HoldersFinite, FS_AddElement
  <2>5. \/ port[s].refcount = Saturated
        \/ port[s].refcount = SlotRef(s) + Cardinality(Holders(s))
    BY <1>2 DEF PortInv, RefcountIsExact
  <2>6. \/ port'[s].refcount = Saturated
        \/ port'[s].refcount = SlotRef(s)' + Cardinality(Holders(s)')
    BY <1>2, <1>3, <2>2, <2>4, <2>5
  <2> QED
    BY <1>1, <2>1, <2>6 DEF PortInv, RefcountIsExact
<1> QED
  BY <1>4, <1>8, <1>9, <1>10, <1>11, <1>12, <1>13 DEF PortInv

(* The first step of the teardown touches only a struct nobody else has.   *)
LEMMA TeardownDrainInv ==
    ASSUME PortInv, NEW t \in Threads, TeardownDrain(t)
    PROVE  PortInv'
<1>0. PICK s \in Structs : s = ptr[t]
  BY DEF TeardownDrain, PortInv, ThreadPlace, Allocated
<1> USE <1>0 DEF TeardownDrain
<1>1. Allocated' = Allocated /\ FreeIds' = FreeIds
  BY AllocatedStays, FreeIdsStay DEF tables
<1>2. s \in Allocated /\ port[s].id \in Ids
  BY DEF PortInv, ThreadPlace, NewestIncarnation
<1>3. /\ \A r \in Structs : /\ port'[r].id = port[r].id
                            /\ port'[r].generation = port[r].generation
                            /\ port'[r].state = port[r].state
                            /\ port'[r].refcount = port[r].refcount
                            /\ r # s => port'[r].msg_count = port[r].msg_count
      /\ port'[s].msg_count = 0
  BY DEF PortInv, TypeOK, PortRecord
<1>4. TypeOK'
  <2>1. port' \in [Structs -> PortRecord]
    BY FieldStore DEF PortInv, TypeOK
  <2>2. [id |-> port[s].id, gen |-> 0] \in [id : Ids \cup {0}, gen : Nat]
    BY <1>2
  <2>3. snap' \in [Threads -> [id : Ids \cup {0}, gen : Nat]]
    BY <2>2 DEF PortInv, TypeOK
  <2>4. pc' \in [Threads -> Locations]
    BY DEF PortInv, TypeOK, Locations
  <2> QED
    BY <2>1, <2>3, <2>4 DEF PortInv, TypeOK, structs, tables
<1>5. Allocated \subseteq Structs /\ \A i \in Ids : s_table[i] # NoPort => s_table[i] \in Structs
  BY DEF Allocated, PortInv, TypeOK, Ptrs
<1>6. /\ pc'[t] = "free" /\ pc[t] = "drain" /\ ptr' = ptr /\ snap'[t].id = port[s].id
      /\ \A u \in Threads \ {t} : pc'[u] = pc[u] /\ snap'[u] = snap[u]
  BY DEF PortInv, TypeOK
<1>7. \A r \in Structs : Holders(r)' = Holders(r) /\ SlotRef(r)' = SlotRef(r)
  BY <1>3, <1>6 DEF Holders, SlotRef, tables
<1>8. RecycleStack' /\ NewestIncarnation' /\ NothingLeftBehind' /\ RefcountIsExact'
  BY <1>1, <1>3, <1>5, <1>7 DEF PortInv, RecycleStack, NewestIncarnation, NothingLeftBehind,
     RefcountIsExact, tables, structs
<1>9. ThreadPlace'
  BY <1>1, <1>2, <1>3, <1>5, <1>6 DEF PortInv, ThreadPlace, TeardownIsExclusive, tables
<1>10. HeldPortIsTheOneGot' /\ IdFreeOnlyOnce' /\ TeardownIsExclusive'
  BY <1>1, <1>3, <1>5, <1>6 DEF PortInv, HeldPortIsTheOneGot, IdFreeOnlyOnce, TeardownIsExclusive, tables
<1> QED
  BY <1>4, <1>8, <1>9, <1>10 DEF PortInv

(* The struct leaves port duty; its id is now owed by the thread alone.    *)
LEMMA TeardownRecycleInv ==
    ASSUME PortInv, NEW t \in Threads, TeardownRecycle(t)
    PROVE  PortInv'
<1>0. PICK s \in Structs : s = ptr[t]
  BY DEF TeardownRecycle, PortInv, ThreadPlace, Allocated
<1> USE <1>0
<1>1. s \in Allocated /\ port[s].id \in Ids /\ snap[t].id = port[s].id /\ port[s].msg_count = 0
  BY DEF TeardownRecycle, PortInv, ThreadPlace, NewestIncarnation
<1>2. s \notin heap /\ \A i \in 1 .. s_recycle_top : s_recycle[i] # s
  BY <1>1 DEF Allocated, Recycled
<1>3. /\ Allocated' = Allocated \ {s} /\ RecycleStack'
      /\ s_recycle' \in [1 .. RecycleMax -> Ptrs] /\ s_recycle_top' \in 0 .. RecycleMax
      /\ heap' \subseteq Structs
  <2>1. CASE s_recycle_top < RecycleMax
    <3>0. /\ s_recycle_top \in Nat /\ s_recycle_top + 1 \in 1 .. RecycleMax
          /\ s_recycle_top' = s_recycle_top + 1 /\ heap' = heap
          /\ s_recycle' = [s_recycle EXCEPT ![s_recycle_top + 1] = s]
          /\ s_recycle \in [1 .. RecycleMax -> Ptrs] /\ s \in Ptrs
      BY <2>1, PortAssumption DEF TeardownRecycle, PortInv, TypeOK, Ptrs
    <3>1. /\ s_recycle_top' = s_recycle_top + 1 /\ s_recycle_top' \in 0 .. RecycleMax
          /\ s_recycle_top \in Nat
          /\ s_recycle'[s_recycle_top + 1] = s /\ heap' = heap
          /\ s_recycle' \in [1 .. RecycleMax -> Ptrs]
          /\ \A i \in 1 .. s_recycle_top : s_recycle'[i] = s_recycle[i]
      BY <3>0
    <3>2. RecycleStack'
      BY <1>2, <3>1 DEF PortInv, RecycleStack
    <3>3. Recycled' = Recycled \cup {s}
      <4>1. \A i \in 1 .. s_recycle_top + 1 : i \in 1 .. s_recycle_top \/ i = s_recycle_top + 1
        BY <3>1
      <4>2. 1 .. s_recycle_top \subseteq 1 .. s_recycle_top + 1 /\ s_recycle_top + 1 \in 1 .. s_recycle_top + 1
        BY <3>1
      <4> QED
        BY <3>1, <4>1, <4>2 DEF Recycled
    <3>4. Allocated' = Allocated \ {s}
      BY <3>1, <3>3 DEF Allocated
    <3> QED
      BY <3>1, <3>2, <3>4 DEF PortInv, TypeOK
  <2>2. CASE ~(s_recycle_top < RecycleMax)
    <3>1. heap' = heap \cup {s} /\ s_recycle' = s_recycle /\ s_recycle_top' = s_recycle_top
      BY <2>2 DEF TeardownRecycle
    <3> QED
      BY <1>2, <3>1 DEF Allocated, Recycled, PortInv, TypeOK, RecycleStack
  <2> QED
    BY <2>1, <2>2
<1>4. /\ pc'[t] = "return" /\ pc[t] = "free" /\ ptr'[t] = NoPort
      /\ \A u \in Threads \ {t} : pc'[u] = pc[u] /\ ptr'[u] = ptr[u]
      /\ UNCHANGED <<tables, port, owned_ports, snap>>
  BY DEF TeardownRecycle, PortInv, TypeOK
<1>5. TypeOK'
  <2>1. pc' \in [Threads -> Locations] /\ ptr' \in [Threads -> Ptrs]
    BY DEF TeardownRecycle, PortInv, TypeOK, Ptrs, Locations
  <2> QED
    BY <1>3, <1>4, <2>1 DEF PortInv, TypeOK, tables
<1>6. /\ \A i \in Ids : s_table[i] # s
      /\ \A u \in Threads \ {t} : ptr[u] # s
  BY <1>4 DEF PortInv, TeardownIsExclusive
<1>7. Allocated \subseteq Structs /\ NoPort \notin Structs
  BY PortAssumption DEF Allocated
<1>8. \A r \in Allocated \ {s} : Holders(r)' = Holders(r) /\ SlotRef(r)' = SlotRef(r)
  BY <1>4, <1>7 DEF Holders, SlotRef, tables
<1>9. NewestIncarnation' /\ RefcountIsExact'
  BY <1>3, <1>4, <1>6, <1>8 DEF PortInv, NewestIncarnation, RefcountIsExact, tables
<1>10. NothingLeftBehind'
  BY <1>1, <1>3, <1>4, <1>6 DEF PortInv, NothingLeftBehind, tables
<1>11. ThreadPlace'
  <2>1. \A r \in Allocated \ {s} : port[r].id # port[s].id
    BY <1>1 DEF PortInv, NewestIncarnation
  <2>2. \A u \in Threads \ {t} : pc[u] = "return" => snap[u].id # port[s].id
    BY <1>1 DEF PortInv, ThreadPlace
  <2> QED
    BY <1>1, <1>3, <1>4, <1>6, <2>1, <2>2 DEF PortInv, ThreadPlace, tables
<1>12. HeldPortIsTheOneGot' /\ TeardownIsExclusive'
  BY <1>3, <1>4, <1>6, <1>7 DEF PortInv, HeldPortIsTheOneGot, TeardownIsExclusive, tables
<1>13. IdFreeOnlyOnce'
  <2>1. FreeIds' = FreeIds
    BY <1>4, FreeIdsStay DEF tables
  <2>2. port[s].id \notin FreeIds
    BY <1>1 DEF PortInv, IdFreeOnlyOnce
  <2> QED
    BY <1>1, <1>3, <1>4, <2>1, <2>2 DEF PortInv, IdFreeOnlyOnce, tables
<1> QED
  BY <1>3, <1>5, <1>9, <1>10, <1>11, <1>12, <1>13 DEF PortInv

(* The free stack has room for the id a teardown gives back: its entries   *)
(* are distinct ids, and the returned one is not among them.               *)
LEMMA FreeStackHasRoom ==
    ASSUME PortInv, NEW id \in Ids, id \notin FreeIds
    PROVE  s_free_top + 1 \in Ids
<1> DEFINE top == s_free_top
           f == [i \in 1 .. top |-> s_freelist[i]]
           T == Ids \ {id}
<1>1. top \in Nat /\ top <= MaxPorts - 1 /\ 1 .. top \subseteq Ids
  BY PortAssumption DEF PortInv, TypeOK, Ids
<1>2. f \in Injection(1 .. top, T)
  <2>1. \A i \in 1 .. top : f[i] \in T
    BY <1>1 DEF PortInv, TypeOK, FreeIds
  <2>2. \A i, j \in 1 .. top : f[i] = f[j] => i = j
    BY DEF PortInv, IdFreeOnlyOnce
  <2> QED
    BY <2>1, <2>2 DEF Injection, IsInjective
<1>3. IsFiniteSet(Ids) /\ Cardinality(Ids) = MaxPorts - 1
  BY FS_Interval, PortAssumption DEF Ids
<1>4. IsFiniteSet(T) /\ Cardinality(T) = MaxPorts - 2
  BY <1>3, FS_RemoveElement, PortAssumption
<1>5. Cardinality(1 .. top) = top
  BY <1>1, FS_Interval
<1>6. Cardinality(1 .. top) <= Cardinality(T)
  BY <1>2, <1>4, FS_Injection
<1> QED
  BY <1>1, <1>4, <1>5, <1>6, PortAssumption DEF Ids

(* The id is free again, and was nobody's.                                 *)
LEMMA TeardownReturnInv ==
    ASSUME PortInv, NEW t \in Threads, TeardownReturn(t)
    PROVE  PortInv'
<1>0. PICK id \in Ids : id = snap[t].id
  BY DEF TeardownReturn, PortInv, ThreadPlace
<1> USE <1>0 DEF TeardownReturn
<1>1. Allocated' = Allocated
  BY AllocatedStays
<1>2. id \notin FreeIds /\ s_free_top + 1 \in Ids
  BY FreeStackHasRoom DEF PortInv, IdFreeOnlyOnce
<1>3. /\ s_free_top' = s_free_top + 1 /\ s_free_top \in Nat /\ s_free_top' \in 0 .. (MaxPorts - 1)
      /\ s_freelist' \in [Ids -> Ids] /\ s_freelist'[s_free_top + 1] = id
      /\ \A i \in 1 .. s_free_top : s_freelist'[i] = s_freelist[i] /\ s_freelist[i] \in FreeIds
  BY SMTT(30), <1>2, PortAssumption DEF PortInv, TypeOK, Ids, FreeIds
<1>4. /\ pc'[t] = "idle" /\ pc[t] = "return"
      /\ \A u \in Threads \ {t} : pc'[u] = pc[u] /\ snap'[u] = snap[u]
  BY DEF PortInv, TypeOK
<1>5. TypeOK'
  <2>1. snap' \in [Threads -> [id : Ids \cup {0}, gen : Nat]] /\ pc' \in [Threads -> Locations]
    BY DEF PortInv, TypeOK, Locations, NoBinding
  <2> QED
    BY <1>3, <2>1 DEF PortInv, TypeOK, structs
<1>6. \A r : Holders(r)' = Holders(r) /\ SlotRef(r)' = SlotRef(r)
  BY <1>4 DEF Holders, SlotRef
<1>7. RecycleStack' /\ NewestIncarnation' /\ NothingLeftBehind' /\ RefcountIsExact'
  BY <1>1, <1>6 DEF PortInv, RecycleStack, NewestIncarnation, NothingLeftBehind, RefcountIsExact, structs
<1>8. ThreadPlace' /\ HeldPortIsTheOneGot' /\ TeardownIsExclusive'
  BY <1>1, <1>4 DEF PortInv, ThreadPlace, HeldPortIsTheOneGot, TeardownIsExclusive
<1>9. FreeIds' = FreeIds \cup {id}
  <2>1. \A i \in 1 .. s_free_top + 1 : i \in 1 .. s_free_top \/ i = s_free_top + 1
    BY <1>3
  <2>2. 1 .. s_free_top \subseteq 1 .. s_free_top + 1 /\ s_free_top + 1 \in 1 .. s_free_top + 1
    BY <1>3
  <2> QED
    BY <1>3, <2>1, <2>2 DEF FreeIds
<1>10. \A i, j \in 1 .. s_free_top' : s_freelist'[i] = s_freelist'[j] => i = j
  BY <1>2, <1>3 DEF PortInv, IdFreeOnlyOnce
<1>11. /\ \A r \in Allocated : port[r].id # id
       /\ \A u \in Threads \ {t} : pc[u] = "return" => snap[u].id # id
  BY <1>4 DEF PortInv, ThreadPlace
<1>12. s_table[id] = NoPort
  BY <1>11 DEF PortInv, NewestIncarnation
<1>13. \A i \in FreeIds' : /\ s_table'[i] = NoPort
                           /\ \A r \in Allocated' : port'[r].id # i
                           /\ \A u \in Threads : pc'[u] = "return" => snap'[u].id # i
  BY <1>1, <1>4, <1>9, <1>11, <1>12 DEF PortInv, IdFreeOnlyOnce
<1> QED
  BY <1>5, <1>7, <1>8, <1>10, <1>13 DEF PortInv, IdFreeOnlyOnce

(* A create takes a free id and a struct that is not a port.               *)
LEMMA CreateWithInv ==
    ASSUME PortInv, NEW t \in Threads, NEW s \in Structs \ Allocated, CreateWith(t, s),
           pc[t] = "idle", s_free_top > 0,
           Allocated' = Allocated \cup {s}, RecycleStack',
           heap' \subseteq Structs, s_recycle_top' \in 0 .. RecycleMax
    PROVE  PortInv'
<1>1. s_free_top \in Ids
  BY PortAssumption DEF PortInv, TypeOK, Ids
<1>2. PICK id \in Ids : id = s_freelist[s_free_top]
  BY <1>1 DEF PortInv, TypeOK
<1> USE <1>2 DEF CreateWith
<1>3. id \in FreeIds
  BY <1>1 DEF FreeIds, Ids
<1>4. /\ s_table[id] = NoPort
      /\ \A r \in Allocated : port[r].id # id
      /\ \A u \in Threads : pc[u] = "return" => snap[u].id # id
  BY <1>3 DEF PortInv, IdFreeOnlyOnce
<1>5. /\ s_free_top' = s_free_top - 1 /\ s_free_top' \in 0 .. (MaxPorts - 1)
      /\ s_freelist' = s_freelist
      /\ s_generation' \in [Ids -> Nat] /\ s_generation'[id] = s_generation[id] + 1
      /\ \A i \in Ids \ {id} : s_generation'[i] = s_generation[i] /\ s_table'[i] = s_table[i]
      /\ s_table' \in [Ids -> Ptrs] /\ s_table'[id] = s
  <2>1. s_free_top' = s_free_top - 1 /\ s_free_top' \in 0 .. (MaxPorts - 1) /\ s_freelist' = s_freelist
    BY <1>1, PortAssumption DEF Ids
  <2>2. /\ s_generation' \in [Ids -> Nat] /\ s_generation'[id] = s_generation[id] + 1
        /\ \A i \in Ids \ {id} : s_generation'[i] = s_generation[i]
    BY DEF PortInv, TypeOK
  <2>3. /\ s_table' \in [Ids -> Ptrs] /\ s_table'[id] = s
        /\ \A i \in Ids \ {id} : s_table'[i] = s_table[i]
    BY DEF PortInv, TypeOK, Ptrs
  <2> QED
    BY <2>1, <2>2, <2>3
<1>6. /\ FreshPort(id, s_generation[id] + 1) \in PortRecord
      /\ port' \in [Structs -> PortRecord]
  <2>1. FreshPort(id, s_generation[id] + 1) \in PortRecord
    BY PortAssumption DEF FreshPort, PortRecord, PortInv, TypeOK
  <2> QED
    BY <2>1 DEF PortInv, TypeOK
<1>7. /\ port'[s] = FreshPort(id, s_generation[id] + 1)
      /\ \A r \in Structs \ {s} : port'[r] = port[r]
  BY DEF PortInv, TypeOK
<1>8. /\ port'[s].id = id /\ port'[s].generation = s_generation[id] + 1
      /\ port'[s].state = "ACTIVE" /\ port'[s].refcount = 1 /\ port'[s].msg_count = 0
  BY <1>7 DEF FreshPort
<1>9. TypeOK'
  BY <1>5, <1>6 DEF PortInv, TypeOK
<1>10. Allocated \subseteq Structs /\ NoPort \notin Structs
  BY PortAssumption DEF Allocated
<1>11. \A i \in Ids : s_table[i] # s
  BY <1>10 DEF PortInv, NewestIncarnation
<1>12. \A u \in Threads : ptr[u] # s
  BY <1>10 DEF PortInv, ThreadPlace, TypeOK, Locations
<1>13. NewestIncarnation'
  BY <1>4, <1>5, <1>7, <1>8, <1>10, <1>11 DEF PortInv, NewestIncarnation
<1>14. NothingLeftBehind'
  <2>1. \A r \in Structs \ Allocated' : port'[r].msg_count = 0
    BY <1>7 DEF PortInv, NothingLeftBehind
  <2>2. \A r \in owned_ports' : r \in Allocated' /\ s_table'[port'[r].id] = r
    BY <1>4, <1>5, <1>7, <1>8, <1>10 DEF PortInv, NothingLeftBehind, NewestIncarnation
  <2> QED
    BY <2>1, <2>2 DEF NothingLeftBehind
<1>15. \A u \in Threads : ptr[u] # NoPort => ptr[u] \in Allocated /\ port'[ptr[u]] = port[ptr[u]]
  BY <1>7, <1>10, <1>12 DEF PortInv, ThreadPlace, TypeOK, Locations, Ptrs
<1>16. ThreadPlace'
  <2>1. \A u \in Threads : pc[u] = "waking" => s_table'[port'[ptr[u]].id] # ptr[u]
    BY <1>5, <1>10, <1>12, <1>15 DEF PortInv, ThreadPlace, NewestIncarnation
  <2>2. \A u \in Threads : pc[u] = "return" =>
          /\ snap[u].id \in Ids
          /\ \A r \in Allocated' : port'[r].id # snap[u].id
    BY <1>4, <1>7, <1>8, <1>10 DEF PortInv, ThreadPlace
  <2> QED
    BY <1>10, <1>15, <2>1, <2>2 DEF PortInv, ThreadPlace
<1>17. HeldPortIsTheOneGot'
  BY <1>10, <1>15 DEF PortInv, HeldPortIsTheOneGot
<1>18. TeardownIsExclusive'
  BY <1>5, <1>12 DEF PortInv, TeardownIsExclusive
<1>19. IdFreeOnlyOnce'
  <2>1. 1 .. s_free_top' \subseteq 1 .. s_free_top /\ s_free_top \notin 1 .. s_free_top'
         /\ s_free_top \in 1 .. s_free_top
    BY <1>1, <1>5, PortAssumption DEF Ids
  <2>2. FreeIds' \subseteq FreeIds \ {id}
    BY <1>5, <2>1 DEF FreeIds, PortInv, IdFreeOnlyOnce
  <2>3. FreeIds \subseteq Ids
    <3>1. 1 .. s_free_top \subseteq Ids
      BY <1>1, PortAssumption DEF Ids
    <3> QED
      BY <3>1 DEF FreeIds, PortInv, TypeOK
  <2>4. \A i, j \in 1 .. s_free_top' : s_freelist'[i] = s_freelist'[j] => i = j
    BY <1>5, <2>1 DEF PortInv, IdFreeOnlyOnce
  <2>5. \A i \in FreeIds' : /\ s_table'[i] = NoPort
                            /\ \A r \in Allocated' : port'[r].id # i
                            /\ \A u \in Threads : pc'[u] = "return" => snap'[u].id # i
    BY <1>5, <1>7, <1>8, <1>10, <2>2, <2>3 DEF PortInv, IdFreeOnlyOnce
  <2> QED
    BY <2>4, <2>5 DEF IdFreeOnlyOnce
<1>20. RefcountIsExact'
  <2>1. \A r \in Allocated : Holders(r)' = Holders(r) /\ SlotRef(r)' = SlotRef(r)
    BY <1>4, <1>5, <1>7, <1>10 DEF Holders, SlotRef, PortInv, NewestIncarnation
  <2>2. Holders(s)' = {} /\ SlotRef(s)' = 1
    BY <1>5, <1>8, <1>12 DEF Holders, SlotRef
  <2>3. port'[s].refcount = SlotRef(s)' + Cardinality(Holders(s)')
    BY <1>8, <2>2, FS_EmptySet
  <2>4. \A r \in Allocated : port'[r].refcount = port[r].refcount
    BY <1>7, <1>10
  <2> QED
    BY <2>1, <2>3, <2>4 DEF PortInv, RefcountIsExact
<1> QED
  BY <1>9, <1>13, <1>14, <1>16, <1>17, <1>18, <1>19, <1>20 DEF PortInv

(* A port made from the top of the recycle stack.                          *)
LEMMA CreateRecycledInv ==
    ASSUME PortInv, NEW t \in Threads, CreateRecycled(t)
    PROVE  PortInv'
<1>1. s_recycle_top \in 1 .. s_recycle_top /\ s_recycle_top \in 1 .. RecycleMax
  BY PortAssumption DEF CreateRecycled, PortInv, TypeOK
<1>2. PICK s \in Structs : s = s_recycle[s_recycle_top]
  BY <1>1 DEF PortInv, RecycleStack
<1>3. s \notin Allocated /\ s \notin heap
  BY <1>1, <1>2 DEF Allocated, Recycled, PortInv, RecycleStack
<1>4. CreateWith(t, s) /\ s_recycle' = s_recycle /\ heap' = heap /\ s_recycle_top' = s_recycle_top - 1
  BY <1>2 DEF CreateRecycled, CreateWith
<1>5. /\ 1 .. s_recycle_top' \subseteq 1 .. s_recycle_top /\ s_recycle_top \notin 1 .. s_recycle_top'
      /\ \A i \in 1 .. s_recycle_top : i \in 1 .. s_recycle_top' \/ i = s_recycle_top
  BY <1>1, <1>4
<1>6. RecycleStack'
  BY <1>4, <1>5 DEF PortInv, RecycleStack
<1>7. Recycled' = Recycled \ {s} /\ s \in Recycled
  BY <1>1, <1>2, <1>4, <1>5 DEF Recycled, PortInv, RecycleStack
<1>8. Allocated' = Allocated \cup {s}
  BY <1>3, <1>4, <1>7 DEF Allocated
<1>9. s_recycle_top' \in 0 .. RecycleMax /\ heap' \subseteq Structs
  BY <1>1, <1>4, PortAssumption DEF PortInv, TypeOK
<1>10. pc[t] = "idle" /\ s_free_top > 0
  BY DEF CreateRecycled
<1> QED
  BY <1>3, <1>4, <1>6, <1>8, <1>9, <1>10, CreateWithInv

(* A port made from a newly allocated struct.                              *)
LEMMA CreateFromHeapInv ==
    ASSUME PortInv, NEW t \in Threads, CreateFromHeap(t)
    PROVE  PortInv'
<1>1. PICK s \in heap : CreateWith(t, s) /\ heap' = heap \ {s}
  BY DEF CreateFromHeap
<1>2. s \in Structs \ Allocated
  BY DEF Allocated, PortInv, TypeOK
<1>3. s_recycle' = s_recycle /\ s_recycle_top' = s_recycle_top
  BY <1>1 DEF CreateFromHeap, CreateWith
<1>4. RecycleStack' /\ Recycled' = Recycled /\ s \notin Recycled
  BY <1>1, <1>3 DEF PortInv, RecycleStack, Recycled
<1>5. Allocated' = Allocated \cup {s}
  BY <1>1, <1>2, <1>4 DEF Allocated
<1> QED
  BY <1>1, <1>2, <1>3, <1>4, <1>5, CreateWithInv DEF CreateFromHeap, PortInv, TypeOK

(* A stuttering step keeps the invariant.                                  *)
LEMMA InvStutter == ASSUME PortInv, UNCHANGED vars PROVE PortInv'
<1>1. /\ Allocated' = Allocated /\ FreeIds' = FreeIds
      /\ \A s : Holders(s)' = Holders(s) /\ SlotRef(s)' = SlotRef(s)
  BY AllocatedStays, FreeIdsStay DEF vars, tables, Holders, SlotRef
<1>2. TypeOK' /\ RecycleStack' /\ NewestIncarnation' /\ ThreadPlace'
  BY <1>1 DEF PortInv, TypeOK, RecycleStack, NewestIncarnation, ThreadPlace, vars, tables, structs
<1>3. /\ HeldPortIsTheOneGot' /\ IdFreeOnlyOnce' /\ TeardownIsExclusive'
      /\ RefcountIsExact' /\ NothingLeftBehind'
  BY <1>1 DEF PortInv, HeldPortIsTheOneGot, IdFreeOnlyOnce, TeardownIsExclusive,
     RefcountIsExact, NothingLeftBehind, vars, tables, structs
<1> QED
  BY <1>2, <1>3 DEF PortInv

(* Every step of the port component keeps the invariant.                   *)
LEMMA InvNext == ASSUME PortInv, [Next]_vars PROVE PortInv'
<1>1. CASE UNCHANGED vars
  BY <1>1, InvStutter
<1>2. CASE Next
  <2>1. PICK t \in Threads :
            \/ CreateRecycled(t) \/ CreateFromHeap(t)
            \/ \E id \in Ids : Get(t, id) \/ Generation(t, id) \/ DestroyUnlink(t, id)
            \/ GetChecked(t) \/ Enqueue(t) \/ Finish(t)
    BY <1>2 DEF Next
  <2>2. CASE CreateRecycled(t) \/ CreateFromHeap(t)
    BY <2>2, CreateRecycledInv, CreateFromHeapInv
  <2>3. CASE \E id \in Ids : Get(t, id) \/ Generation(t, id) \/ DestroyUnlink(t, id)
    BY <2>3, GetInv, GenerationInv, DestroyUnlinkInv
  <2>4. CASE GetChecked(t) \/ Enqueue(t)
    BY <2>4, GetCheckedInv, EnqueueInv
  <2>5. CASE Put(t) \/ DestroyDrop(t)
    BY <2>5, DropRefInv DEF Put, DestroyDrop
  <2>6. CASE TeardownDrain(t) \/ TeardownRecycle(t) \/ TeardownReturn(t)
    BY <2>6, TeardownDrainInv, TeardownRecycleInv, TeardownReturnInv
  <2> QED
    BY <2>1, <2>2, <2>3, <2>4, <2>5, <2>6 DEF Finish
<1> QED
  BY <1>1, <1>2

(* The inductive invariant of the port life cycle holds in every reachable *)
(* state of port.c's create, get, put and destroy.                         *)
THEOREM PortInvariant == Spec => []PortInv
<1>1. Init => PortInv
  BY InvInit
<1>2. PortInv /\ [Next]_vars => PortInv'
  BY InvNext
<1> QED
  BY <1>1, <1>2, PTL DEF Spec

(* TypeOK: every id, pointer, count and stack top of port.c stays in its   *)
(* range; the free stack never overflows its array.                        *)
THEOREM PortTypes == Spec => []TypeOK
BY PortInvariant, PTL DEF PortInv

(* From its get to its put a thread holds the very incarnation it asked    *)
(* for: no use after free, no ABA, for any number of threads and ports.    *)
THEOREM HeldPortSafe == Spec => []HeldPortIsTheOneGot
BY PortInvariant, PTL DEF PortInv

(* TeardownIsExclusive: the thread that drops the last reference tears the *)
(* port down alone (port_teardown).                                        *)
THEOREM TeardownSafe == Spec => []TeardownIsExclusive
BY PortInvariant, PTL DEF PortInv

(* IdFreeOnlyOnce: port_teardown gives an id back once, when no struct     *)
(* carries it any more.                                                    *)
THEOREM IdsFreedOnce == Spec => []IdFreeOnlyOnce
BY PortInvariant, PTL DEF PortInv

(* RefcountIsExact: below saturation the count of a port is the number of  *)
(* those who hold it, the table included.                                  *)
THEOREM RefcountsExact == Spec => []RefcountIsExact
BY PortInvariant, PTL DEF PortInv

(* NothingLeftBehind: no message is left in a struct that is recycled.     *)
THEOREM RecycledEmpty == Spec => []NothingLeftBehind
BY PortInvariant, PTL DEF PortInv

(* ReusedOnlyWhenStill: ipc_port_create re-issues an id only when nobody   *)
(* points at a struct that carries it.                                     *)
THEOREM ReuseSafe == Spec => ReusedOnlyWhenStill
<1>1. ASSUME PortInv, NEW t \in Threads, NEW s, CreateWith(t, s), s_free_top > 0
      PROVE  ReissueStep
  <2>1. s_free_top \in Ids /\ s_freelist[s_free_top] \in FreeIds
    BY <1>1, PortAssumption DEF PortInv, TypeOK, Ids, FreeIds
  <2>2. \A id \in Ids : s_generation'[id] # s_generation[id] => id = s_freelist[s_free_top]
    BY <1>1, <2>1 DEF CreateWith, PortInv, TypeOK
  <2>3. \A u \in Threads : ptr[u] # NoPort => ptr[u] \in Allocated
    BY <1>1 DEF PortInv, ThreadPlace, TypeOK, Locations
  <2> QED
    BY <1>1, <2>1, <2>2, <2>3 DEF PortInv, IdFreeOnlyOnce, ReissueStep
<1>2. ASSUME PortInv, [Next]_vars
      PROVE  [ReissueStep]_vars
  <2>1. CASE \E t \in Threads : CreateRecycled(t) \/ CreateFromHeap(t)
    BY <1>1, <1>2, <2>1 DEF CreateRecycled, CreateFromHeap
  <2>2. CASE ~ \E t \in Threads : CreateRecycled(t) \/ CreateFromHeap(t)
    <3>1. s_generation' = s_generation
      BY <1>2, <2>2 DEF Next, Finish, Get, GetChecked, Reference, Generation, Enqueue, Put,
         DestroyDrop, DropRef, DestroyUnlink, TeardownDrain, TeardownRecycle, TeardownReturn,
         tables, vars
    <3> QED
      BY <3>1 DEF ReissueStep
  <2> QED
    BY <2>1, <2>2
<1> QED
  BY <1>2, PortInvariant, PTL DEF Spec, ReusedOnlyWhenStill

----------------------------------------------------------------------------
(* The refinement: what each step of port.c does to an id, seen abstractly.*)

(* Steps that leave ids, slots, pointers and locations of holders alone.   *)
LEMMA AbstractStutter ==
    ASSUME PortInv,
           UNCHANGED tables,
           \A s \in Structs : port'[s].id = port[s].id,
           \A t \in Threads : /\ pc'[t] \in {"using", "waking"} <=> pc[t] \in {"using", "waking"}
                              /\ pc[t] \in {"using", "waking"} => ptr'[t] = ptr[t]
    PROVE  UNCHANGED <<Status, s_generation, HeldBy>>
<1>1. Status' = Status /\ s_generation' = s_generation
  BY FreeIdsStay DEF Status, tables
<1>2. \A t \in Threads : pc[t] \in {"using", "waking"} => ptr[t] \in Structs
  BY DEF PortInv, ThreadPlace, Allocated
<1>3. HeldBy' = HeldBy
  BY <1>2 DEF HeldBy
<1> QED
  BY <1>1, <1>3

(* A create is the abstract opening of an id.                              *)
LEMMA CreateOpens ==
    ASSUME PortInv, NEW t \in Threads, NEW s \in Structs \ Allocated,
           CreateWith(t, s), s_free_top > 0
    PROVE  Incarnations!Next
<1>1. s_free_top \in Ids /\ s_freelist[s_free_top] \in FreeIds
  BY PortAssumption DEF PortInv, TypeOK, Ids, FreeIds
<1>2. PICK id \in Ids : id = s_freelist[s_free_top]
  BY <1>1 DEF PortInv, TypeOK
<1>3. Status[id] = "free"
  BY <1>1, <1>2 DEF Status, PortInv, IdFreeOnlyOnce
<1>4. FreeIds' = FreeIds \ {id}
  <2>1. /\ 1 .. s_free_top' \subseteq 1 .. s_free_top /\ s_free_top \notin 1 .. s_free_top'
        /\ s_free_top \in 1 .. s_free_top
        /\ \A i \in 1 .. s_free_top : i \in 1 .. s_free_top' \/ i = s_free_top
    BY <1>1, PortAssumption DEF Ids, CreateWith
  <2> QED
    BY <1>2, <2>1 DEF FreeIds, PortInv, IdFreeOnlyOnce, CreateWith
<1>5. s_table' = [s_table EXCEPT ![id] = s] /\ s # NoPort
  BY <1>2, PortAssumption DEF CreateWith
<1>6. Status' = [Status EXCEPT ![id] = "live"]
  BY <1>4, <1>5 DEF Status, PortInv, TypeOK
<1>7. HeldBy' = HeldBy
  <2>1. \A u \in Threads : pc[u] \in {"using", "waking"} => ptr[u] \in Structs \ {s}
    BY DEF PortInv, ThreadPlace, Allocated
  <2>2. \A r \in Structs \ {s} : port'[r] = port[r]
    BY DEF CreateWith, PortInv, TypeOK
  <2> QED
    BY <2>1, <2>2 DEF HeldBy, CreateWith
<1>8. s_generation' = [s_generation EXCEPT ![id] = @ + 1] /\ s_generation[id] < GenMax
  BY <1>2 DEF CreateWith
<1>9. Incarnations!Open(id)
  BY <1>3, <1>6, <1>7, <1>8 DEF Incarnations!Open
<1> QED
  BY <1>9 DEF Incarnations!Next

(* A thread outside the API holds nothing.                                 *)
LEMMA IdleHoldsNothing ==
    ASSUME NEW t \in Threads, pc[t] = "idle"
    PROVE  \A i \in Ids : t \notin HeldBy[i]
BY DEF HeldBy

(* A get is the abstract acquisition of the incarnation that is open.      *)
LEMMA ReferenceAcquires ==
    ASSUME PortInv, NEW t \in Threads, NEW id \in Ids,
           pc[t] = "idle", Visible(id), Reference(t, id)
    PROVE  Incarnations!Next
<1>1. PICK s \in Structs : s = s_table[id] /\ port[s].id = id /\ s # NoPort
  BY DEF Visible, PortInv, NewestIncarnation, Allocated
<1>2. Status[id] = "live" /\ Status' = Status /\ s_generation' = s_generation
  BY <1>1, FreeIdsStay DEF Status, Reference, tables
<1>3. \A r \in Structs : port'[r].id = port[r].id
  BY <1>1 DEF Reference, PortInv, TypeOK, PortRecord
<1>4. /\ pc'[t] = "using" /\ ptr'[t] = s
      /\ \A u \in Threads \ {t} : pc'[u] = pc[u] /\ ptr'[u] = ptr[u]
  BY <1>1 DEF Reference, PortInv, TypeOK
<1>5. \A u \in Threads : pc[u] \in {"using", "waking"} => ptr[u] \in Structs
  BY DEF PortInv, ThreadPlace, Allocated
<1>6. HeldBy' = [HeldBy EXCEPT ![id] = @ \cup {t}]
  <2>1. \A i \in Ids : HeldBy'[i] = IF i = id THEN HeldBy[i] \cup {t} ELSE HeldBy[i]
    BY <1>1, <1>3, <1>4, <1>5 DEF HeldBy
  <2> QED
    BY <2>1 DEF HeldBy
<1>7. Incarnations!Acquire(t, id)
  BY <1>2, <1>6, IdleHoldsNothing DEF Incarnations!Acquire
<1> QED
  BY <1>7 DEF Incarnations!Next

(* A put that does not tear down is the abstract release.                  *)
LEMMA DropReleases ==
    ASSUME PortInv, NEW t \in Threads, pc[t] \in {"using", "waking"}, DropRef(t)
    PROVE  Incarnations!Next
<1>1. PICK s \in Structs : s = ptr[t] /\ port[s].id \in Ids
  BY DEF PortInv, ThreadPlace, NewestIncarnation, Allocated
<1>2. PICK id \in Ids : id = port[s].id
  BY <1>1
<1>3. Status' = Status /\ s_generation' = s_generation
  BY FreeIdsStay DEF Status, DropRef, tables
<1>4. \A r \in Structs : port'[r].id = port[r].id
  BY <1>1 DEF DropRef, PortInv, TypeOK, PortRecord
<1>5. /\ pc'[t] \in {"drain", "idle"}
      /\ \A u \in Threads \ {t} : pc'[u] = pc[u] /\ ptr'[u] = ptr[u]
  BY DEF DropRef, PortInv, TypeOK
<1>6. \A u \in Threads : pc[u] \in {"using", "waking"} => ptr[u] \in Structs
  BY DEF PortInv, ThreadPlace, Allocated
<1>7. HeldBy' = [HeldBy EXCEPT ![id] = @ \ {t}] /\ t \in HeldBy[id]
  <2>1. \A i \in Ids : HeldBy'[i] = IF i = id THEN HeldBy[i] \ {t} ELSE HeldBy[i]
    BY <1>1, <1>2, <1>4, <1>5, <1>6 DEF HeldBy
  <2>2. t \in HeldBy[id]
    BY <1>1, <1>2 DEF HeldBy
  <2>3. HeldBy = [i \in Ids |-> HeldBy[i]] /\ HeldBy' = [i \in Ids |-> HeldBy'[i]]
    BY DEF HeldBy
  <2> QED
    BY <2>1, <2>2, <2>3
<1>8. Incarnations!Release(t, id)
  BY <1>3, <1>7 DEF Incarnations!Release
<1> QED
  BY <1>8 DEF Incarnations!Next

(* The unlink of a destroy is the abstract closing.                        *)
LEMMA DestroyCloses ==
    ASSUME PortInv, NEW t \in Threads, NEW id \in Ids, DestroyUnlink(t, id)
    PROVE  Incarnations!Next
<1>1. PICK s \in Structs : s = s_table[id] /\ port[s].id = id /\ s # NoPort /\ s \in Allocated
  BY DEF DestroyUnlink, PortInv, NewestIncarnation, Allocated
<1>2. id \notin FreeIds /\ FreeIds' = FreeIds
  BY <1>1, FreeIdsStay DEF PortInv, IdFreeOnlyOnce, DestroyUnlink
<1>3. Status[id] = "live" /\ Status' = [Status EXCEPT ![id] = "dying"]
  BY <1>1, <1>2 DEF Status, DestroyUnlink, PortInv, TypeOK
<1>4. \A r \in Structs : port'[r].id = port[r].id
  BY <1>1 DEF DestroyUnlink, PortInv, TypeOK, PortRecord
<1>5. /\ pc'[t] = "waking" /\ ptr'[t] = s /\ pc[t] = "idle" /\ s_generation' = s_generation
      /\ \A u \in Threads \ {t} : pc'[u] = pc[u] /\ ptr'[u] = ptr[u]
  BY <1>1 DEF DestroyUnlink, PortInv, TypeOK
<1>6. \A u \in Threads : pc[u] \in {"using", "waking"} => ptr[u] \in Structs
  BY DEF PortInv, ThreadPlace, Allocated
<1>7. HeldBy' = [HeldBy EXCEPT ![id] = @ \cup {t}]
  <2>1. \A i \in Ids : HeldBy'[i] = IF i = id THEN HeldBy[i] \cup {t} ELSE HeldBy[i]
    BY <1>1, <1>4, <1>5, <1>6 DEF HeldBy
  <2> QED
    BY <2>1 DEF HeldBy
<1>8. Incarnations!Close(t, id)
  BY <1>3, <1>5, <1>7, IdleHoldsNothing DEF Incarnations!Close
<1> QED
  BY <1>8 DEF Incarnations!Next

(* The return of the id at the end of a teardown is the abstract reclaim.  *)
LEMMA ReturnReclaims ==
    ASSUME PortInv, NEW t \in Threads, TeardownReturn(t)
    PROVE  Incarnations!Next
<1>1. PICK id \in Ids : id = snap[t].id
  BY DEF TeardownReturn, PortInv, ThreadPlace
<1>2. \A s \in Allocated : port[s].id # id
  BY <1>1 DEF TeardownReturn, PortInv, ThreadPlace
<1>3. s_table[id] = NoPort /\ id \notin FreeIds
  BY <1>1, <1>2 DEF TeardownReturn, PortInv, NewestIncarnation, IdFreeOnlyOnce
<1>4. HeldBy[id] = {}
  BY <1>2 DEF HeldBy, PortInv, ThreadPlace
<1>5. FreeIds' = FreeIds \cup {id}
  <2>1. s_free_top + 1 \in Ids /\ s_free_top \in Nat /\ s_free_top' = s_free_top + 1
    BY <1>3, FreeStackHasRoom DEF TeardownReturn, PortInv, TypeOK
  <2>2. /\ s_freelist'[s_free_top + 1] = id
        /\ \A i \in 1 .. s_free_top : s_freelist'[i] = s_freelist[i]
    BY <1>1, <2>1, PortAssumption DEF TeardownReturn, PortInv, TypeOK, Ids
  <2>3. /\ \A i \in 1 .. s_free_top + 1 : i \in 1 .. s_free_top \/ i = s_free_top + 1
        /\ 1 .. s_free_top \subseteq 1 .. s_free_top + 1 /\ s_free_top + 1 \in 1 .. s_free_top + 1
    BY <2>1
  <2> QED
    BY <2>1, <2>2, <2>3 DEF FreeIds
<1>6. Status[id] = "dying" /\ Status' = [Status EXCEPT ![id] = "free"]
  BY <1>3, <1>5 DEF Status, TeardownReturn
<1>7. HeldBy' = HeldBy /\ s_generation' = s_generation
  <2>1. \A u \in Threads : pc'[u] \in {"using", "waking"} <=> pc[u] \in {"using", "waking"}
    BY DEF TeardownReturn, PortInv, TypeOK
  <2> QED
    BY <2>1 DEF HeldBy, TeardownReturn
<1>8. Incarnations!Reclaim(id)
  BY <1>4, <1>6, <1>7 DEF Incarnations!Reclaim
<1> QED
  BY <1>8 DEF Incarnations!Next

(* Every step is one abstract step or a stutter.                           *)
LEMMA RefinesNext ==
    ASSUME PortInv, [Next]_vars
    PROVE  [Incarnations!Next]_<<Status, s_generation, HeldBy>>
<1>1. CASE UNCHANGED vars
  BY <1>1, AbstractStutter DEF vars
<1>2. CASE Next
  <2>1. PICK t \in Threads :
            \/ CreateRecycled(t) \/ CreateFromHeap(t)
            \/ \E id \in Ids : Get(t, id) \/ Generation(t, id) \/ DestroyUnlink(t, id)
            \/ GetChecked(t) \/ Enqueue(t) \/ Finish(t)
    BY <1>2 DEF Next
  <2>2. CASE CreateRecycled(t)
    <3>1. PICK s \in Structs : s = s_recycle[s_recycle_top] /\ s \notin Allocated
      BY <2>2, PortAssumption DEF CreateRecycled, PortInv, RecycleStack, TypeOK, Allocated, Recycled
    <3> QED
      BY <2>2, <3>1, CreateOpens DEF CreateRecycled
  <2>3. CASE CreateFromHeap(t)
    <3>1. PICK s \in heap : CreateWith(t, s)
      BY <2>3 DEF CreateFromHeap
    <3>2. s \in Structs \ Allocated
      BY DEF PortInv, TypeOK, Allocated
    <3> QED
      BY <2>3, <3>1, <3>2, CreateOpens DEF CreateFromHeap
  <2>4. ASSUME NEW id \in Ids, Get(t, id)
        PROVE  Incarnations!Next
    BY <2>4, ReferenceAcquires DEF Get
  <2>5. CASE GetChecked(t)
    <3>1. snap[t].id \in Ids
      BY <2>5 DEF GetChecked, PortInv, TypeOK
    <3> QED
      BY <2>5, <3>1, ReferenceAcquires DEF GetChecked
  <2>6. ASSUME NEW id \in Ids, Generation(t, id)
        PROVE  UNCHANGED <<Status, s_generation, HeldBy>>
    BY <2>6, AbstractStutter DEF Generation
  <2>7. ASSUME NEW id \in Ids, DestroyUnlink(t, id)
        PROVE  Incarnations!Next
    BY <2>7, DestroyCloses
  <2>8. CASE Enqueue(t)
    <3>1. \A s \in Structs : port'[s].id = port[s].id
      BY <2>8 DEF Enqueue, PortInv, TypeOK, PortRecord, ThreadPlace, Allocated
    <3> QED
      BY <2>8, <3>1, AbstractStutter DEF Enqueue
  <2>9. CASE Put(t) \/ DestroyDrop(t)
    BY <2>9, DropReleases DEF Put, DestroyDrop
  <2>10. CASE TeardownDrain(t)
    <3>1. \A s \in Structs : port'[s].id = port[s].id
      BY <2>10 DEF TeardownDrain, PortInv, TypeOK, PortRecord, ThreadPlace, Allocated
    <3>2. \A u \in Threads : pc'[u] \in {"using", "waking"} <=> pc[u] \in {"using", "waking"}
      BY <2>10 DEF TeardownDrain, PortInv, TypeOK
    <3> QED
      BY <2>10, <3>1, <3>2, AbstractStutter DEF TeardownDrain
  <2>11. CASE TeardownRecycle(t)
    <3>1. \A u \in Threads : /\ pc'[u] \in {"using", "waking"} <=> pc[u] \in {"using", "waking"}
                             /\ pc[u] \in {"using", "waking"} => ptr'[u] = ptr[u]
      BY <2>11 DEF TeardownRecycle, PortInv, TypeOK
    <3> QED
      BY <2>11, <3>1, AbstractStutter DEF TeardownRecycle
  <2>12. CASE TeardownReturn(t)
    BY <2>12, ReturnReclaims
  <2> QED
    BY <2>1, <2>2, <2>3, <2>4, <2>5, <2>6, <2>7, <2>8, <2>9, <2>10, <2>11, <2>12 DEF Finish
<1> QED
  BY <1>1, <1>2

(* ImplementsIncarnations: the reference-counted, recycling implementation *)
(* of ports is an implementation of abstract incarnations.                 *)
THEOREM PortsRefineIncarnations == Spec => ImplementsIncarnations
<1>1. Init => Incarnations!Init
  <2> SUFFICES ASSUME Init PROVE Incarnations!Init
    OBVIOUS
  <2>1. FreeIds = Ids
    <3>1. \A i \in Ids : MaxPorts - i \in Ids /\ MaxPorts - (MaxPorts - i) = i
      BY PortAssumption DEF Ids
    <3>2. 1 .. s_free_top = Ids
      BY DEF Init, Ids
    <3> QED
      BY <3>1, <3>2 DEF FreeIds, Init
  <2>2. Status = [id \in Ids |-> "free"]
    BY <2>1 DEF Status, Init
  <2>3. HeldBy = [id \in Ids |-> {}]
    BY DEF HeldBy, Init
  <2> QED
    BY <2>2, <2>3 DEF Incarnations!Init, Init
<1>2. PortInv /\ [Next]_vars => [Incarnations!Next]_Incarnations!vars
  BY RefinesNext DEF Incarnations!vars
<1> QED
  BY <1>1, <1>2, PortInvariant, PTL DEF Spec, ImplementsIncarnations, Incarnations!Spec
=============================================================================
