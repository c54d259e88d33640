--------------------------- MODULE ServicesProofs ---------------------------
(***************************************************************************)
(* Proofs about Services, for any processes, names, roles, CPUs, table and *)
(* batch sizes.  That a role runs once, that nobody is left waiting for a  *)
(* name that is there and that every suspended thread can be started hold  *)
(* in every setup; what the dead leave behind is proved for the setups in  *)
(* which it is in order, which WaitersStay and ~setup.early describe.      *)
(***************************************************************************)
EXTENDS Services, TLAPS

(* A process that may end never waits for a name.                          *)
WaitersStay == \A r \in setup.exits : \A o \in setup.ops[r] : o.call # "wait"

----------------------------------------------------------------------------
(* Where threads, ends of processes and kernel threads can be, and in      *)
(* which state of the process.                                             *)
AlivePlaces == WaitPlaces \cup {"suspended", "out", "lookup", "install", "unregister", "drain", "wake"}
DyingPlaces == {"unpark", "entries", "drain", "wake", "unlist"}
GonePlaces == {"respawn", "over"}

ThreadPlace(t) ==
    /\ pc[t] \in AlivePlaces \cup {"none", "killed"}
    /\ pc[t] \in AlivePlaces <=> pstate[Owner[t]] = "alive"
    /\ pc[t] = "none" <=> pstate[Owner[t]] = "none"
    /\ pc[t] \in WaitPlaces \cup {"lookup", "install", "unregister"} =>
          op[t] \in CallOps /\ op[t] \in setup.ops[role[Owner[t]]] /\ calls[t] # 0
    /\ pc[t] \in WaitPlaces => op[t].call = "wait"
    /\ linked[t] # None => calls[t] # 0
    /\ pc[t] = "suspended" => state[t] \in {"BLOCKED", "READY"}
ProcPlace(p) ==
    /\ pc[p] \in {"none", "out"} \cup DyingPlaces \cup GonePlaces
    /\ pstate[p] = "none" <=> pc[p] = "none"
    /\ pstate[p] = "alive" <=> pc[p] = "out"
    /\ pstate[p] = "dying" <=> pc[p] \in DyingPlaces
    /\ pstate[p] # "none" => role[p] \in Roles
CpuPlace(c) ==
    /\ pc[c] \in {"out", "park", "cache", "promote"}
    /\ pc[c] # "out" => spawned[c] \in Procs /\ pstate[spawned[c]] # "none"
    /\ pc[c] = "park" => Need[role[spawned[c]]] \in Names
Where ==
    /\ setup \in Setups
    /\ \A t \in Threads : ThreadPlace(t)
    /\ \A p \in Procs : ProcPlace(p)
    /\ \A c \in Cpus : CpuPlace(c)

(* Outside wake a waker holds no thread it has to start.                   *)
Known == SuspendedIsKnown /\ \A a \in Actors : pc[a] # "wake" => pb[a] = {}

(* A role is one of: still to be booted, asked to be respawned, held by    *)
(* one process until its end is over.                                      *)
Holds(p) == pc[p] \notin {"none", "over"}
Tokens ==
    /\ \A p, q \in Procs : Holds(p) /\ Holds(q) /\ role[p] = role[q] => p = q
    /\ \A r \in respawn_pending : \A p \in Procs : Holds(p) => role[p] # r
    /\ \A r \in boot : r \notin respawn_pending /\ \A p \in Procs : role[p] # r

(* Records lie on the stacks of those who wait.                            *)
Frames == WaitersStay => ListedFramesAlive

(* Active entries have a name, and the end of a process leaves none.       *)
Entries ==
    /\ \A i \in Slots : entries[i].active => entries[i].name # None
    /\ \A p \in Procs : pc[p] \in {"unlist"} \cup GonePlaces =>
          \A i \in Slots : entries[i].active => entries[i].owner # p

(* Nor does it leave a parking record, if the process was not ended while  *)
(* it was being spawned.                                                   *)
Parkings ==
    ~setup.early =>
        /\ \A c \in Cpus : pc[c] # "out" => pstate[spawned[c]] = "alive"
        /\ \A p \in Procs : pc[p] \notin {"none", "out", "unpark"} =>
              \A r \in parked : Owner[r[2]] # p

RegistryInv ==
    /\ TypeOK /\ Where /\ Known /\ NobodyWaitsForTheRegistered /\ Tokens
    /\ Frames /\ Entries /\ Parkings

----------------------------------------------------------------------------
(* Variables whose types depend on no place.                               *)
DataTypes ==
    /\ entries \in [Slots -> [name : Names \cup {None}, owner : Procs \cup {None}, active : BOOLEAN]]
    /\ linked \in [Threads -> Names \cup {None}] /\ parked \subseteq Names \X Threads
    /\ pstate \in [Procs -> {"none", "alive", "dying", "gone"}]
    /\ role \in [Procs -> Roles \cup {None}] /\ is_primary \subseteq Procs /\ clean \subseteq Procs
    /\ cached \subseteq Roles /\ boot \subseteq Roles /\ respawn_pending \subseteq Roles /\ lost \subseteq Roles
    /\ state \in [Threads -> {"none", "RUNNING", "BLOCKED", "READY", "DEAD"}]
    /\ armed \subseteq Threads
    /\ op \in [Threads -> CallOps \cup {NoOp}] /\ calls \in [Threads -> 0 .. MaxCalls]
    /\ name \in [Actors -> Names \cup {None}] /\ wb \in [Actors -> SUBSET (Threads \X (1 .. MaxCalls))]
    /\ pb \in [Actors -> SUBSET Threads] /\ again \in [Actors -> BOOLEAN]
    /\ spawned \in [Cpus -> Procs \cup {None}]

(* A state that is well typed has them.                                    *)
LEMMA HasDataTypes == TypeOK => DataTypes
BY DEF TypeOK, DataTypes

(* Actors of the three kinds are distinct.                                 *)
LEMMA Kinds ==
    /\ \A t \in Threads : t \in Actors /\ t \notin Procs /\ t \notin Cpus /\ Owner[t] \in Procs
    /\ \A p \in Procs : p \in Actors /\ p \notin Threads /\ p \notin Cpus
    /\ \A c \in Cpus : c \in Actors /\ c \notin Threads /\ c \notin Procs
    /\ \A p \in Procs : ThreadOf(p) \in Threads /\ Owner[ThreadOf(p)] = p
    /\ \A t \in Threads : ThreadOf(Owner[t]) = t
<1>1. \A p \in Procs : ThreadOf(p) \in Threads /\ Owner[ThreadOf(p)] = p
  BY ServicesAssumption DEF ThreadOf
<1> QED
  BY <1>1, ServicesAssumption DEF Actors

(* An entry whose active flag is written keeps its other fields.           *)
LEMMA WrittenEntry ==
    ASSUME NEW A, NEW B, NEW e \in [name : A, owner : B, active : BOOLEAN], NEW v \in BOOLEAN
    PROVE  /\ [e EXCEPT !.active = v] \in [name : A, owner : B, active : BOOLEAN]
           /\ [e EXCEPT !.active = v].name = e.name /\ [e EXCEPT !.active = v].owner = e.owner
           /\ [e EXCEPT !.active = v].active = v
OBVIOUS

(* An entry that is closed keeps its other fields.                         *)
LEMMA ClosedEntry ==
    ASSUME NEW A, NEW B, NEW e \in [name : A, owner : B, active : BOOLEAN]
    PROVE  /\ [e EXCEPT !.active = FALSE] \in [name : A, owner : B, active : BOOLEAN]
           /\ [e EXCEPT !.active = FALSE].name = e.name /\ [e EXCEPT !.active = FALSE].owner = e.owner
           /\ [e EXCEPT !.active = FALSE].active = FALSE
<1>1. FALSE \in BOOLEAN
  OBVIOUS
<1> QED
  BY ONLY <1>1, WrittenEntry, e \in [name : A, owner : B, active : BOOLEAN], Zenon

(* One actor moves.                                                        *)
LEMMA Moved ==
    ASSUME TypeOK, NEW a \in Actors, NEW to \in Places, pc' = [pc EXCEPT ![a] = to]
    PROVE  pc' \in [Actors -> Places] /\ pc'[a] = to /\ \A x \in Actors \ {a} : pc'[x] = pc[x]
BY DEF TypeOK

(* Initially nothing is registered, nobody is there.                       *)
LEMMA InitInv == Init => RegistryInv
<1> SUFFICES ASSUME Init PROVE RegistryInv
  OBVIOUS
<1> USE ServicesAssumption, Kinds DEF Init
<1>0. /\ setup \in Setups /\ \A i \in Slots : entries[i] = Free /\ \A t \in Threads : linked[t] = None
      /\ parked = {} /\ (\A p \in Procs : pstate[p] = "none" /\ role[p] = None /\ pc[p] = "none")
      /\ (\A t \in Threads : pc[t] = "none") /\ (\A c \in Cpus : pc[c] = "out")
      /\ \A a \in Actors : pc[a] \in {"none", "out"} /\ pb[a] = {}
  BY DEF Actors
<1>1. TypeOK
  <2>1. /\ entries \in [Slots -> [name : Names \cup {None}, owner : Procs \cup {None}, active : BOOLEAN]]
        /\ linked \in [Threads -> Names \cup {None}] /\ parked \subseteq Names \X Threads
    BY DEF Free
  <2>2. /\ pstate \in [Procs -> {"none", "alive", "dying", "gone"}]
        /\ role \in [Procs -> Roles \cup {None}] /\ is_primary \subseteq Procs /\ clean \subseteq Procs
        /\ cached \subseteq Roles /\ boot \subseteq Roles /\ respawn_pending \subseteq Roles /\ lost \subseteq Roles
        /\ state \in [Threads -> {"none", "RUNNING", "BLOCKED", "READY", "DEAD"}]
        /\ armed \subseteq Threads
    OBVIOUS
  <2>3. /\ op \in [Threads -> CallOps \cup {NoOp}] /\ calls \in [Threads -> 0 .. MaxCalls]
        /\ name \in [Actors -> Names \cup {None}] /\ wb \in [Actors -> SUBSET (Threads \X (1 .. MaxCalls))]
        /\ pb \in [Actors -> SUBSET Threads] /\ again \in [Actors -> BOOLEAN]
        /\ spawned \in [Cpus -> Procs \cup {None}]
    OBVIOUS
  <2>4. pc \in [Actors -> Places]
    BY DEF Places
  <2> QED
    BY <1>0, <2>1, <2>2, <2>3, <2>4 DEF TypeOK
<1>2. Where
  BY <1>0 DEF Where, ThreadPlace, ProcPlace, CpuPlace, AlivePlaces, DyingPlaces, GonePlaces, WaitPlaces
<1>3. Known
  BY <1>0 DEF Known, SuspendedIsKnown
<1>4. NobodyWaitsForTheRegistered
  BY <1>0 DEF NobodyWaitsForTheRegistered, Registered, Holders, Free
<1>5. Tokens
  BY <1>0 DEF Tokens, Holds
<1>6. Frames
  BY <1>0 DEF Frames, ListedFramesAlive
<1>7. Entries
  BY <1>0 DEF Entries, Free
<1>8. Parkings
  BY <1>0 DEF Parkings
<1> QED
  BY <1>1, <1>2, <1>3, <1>4, <1>5, <1>6, <1>7, <1>8 DEF RegistryInv

----------------------------------------------------------------------------
(* What leaves the parts of the invariant as they are.                     *)

(* Nobody is suspended anew, nobody who knows a suspended thread forgets.  *)
LEMMA KnownStays ==
    ASSUME Known, pb' = pb, parked \subseteq parked',
           \A t \in Threads : pc'[t] = "suspended" =>
               pc[t] = "suspended" /\ (state[t] = "READY" => state'[t] = "READY"),
           \A c \in Cpus : pc[c] = "park" => pc'[c] = "park" /\ spawned'[c] = spawned[c],
           \A a \in Actors : pc[a] = "wake" => pc'[a] = "wake" \/ pb[a] = {}
    PROVE  Known'
<1>1. SuspendedIsKnown'
  <2> SUFFICES ASSUME NEW t \in Threads, pc'[t] = "suspended" PROVE SuspendedIsKnown!(t)'
    BY DEF SuspendedIsKnown
  <2>1. pc[t] = "suspended" /\ (state[t] = "READY" => state'[t] = "READY")
    OBVIOUS
  <2> QED
    BY <2>1 DEF Known, SuspendedIsKnown
<1> QED
  BY <1>1 DEF Known

(* No name appears, nobody starts to wait, every pass that has to find     *)
(* somebody goes on.                                                       *)
LEMMA NamesStay ==
    ASSUME NobodyWaitsForTheRegistered, \A n \in Names : Registered(n)' => Registered(n),
           \A t \in Threads : linked'[t] \in {linked[t], None}, parked' \subseteq parked,
           \A a \in Threads : \A n \in Names : Drains(a, n) => Drains(a, n)'
    PROVE  NobodyWaitsForTheRegistered'
<1> SUFFICES ASSUME NEW t \in Threads, NEW n \in Names, Registered(n)',
                    linked'[t] = n \/ <<n, t>> \in parked'
             PROVE  \E a \in Threads : Drains(a, n)'
  BY DEF NobodyWaitsForTheRegistered
<1>1. linked[t] = n \/ <<n, t>> \in parked
  BY ServicesAssumption
<1> QED
  BY <1>1 DEF NobodyWaitsForTheRegistered

(* No process takes a role.                                                *)
LEMMA TokensStay ==
    ASSUME Tokens, boot' \subseteq boot, respawn_pending' \subseteq respawn_pending,
           \A p \in Procs : role'[p] = role[p] /\ (Holds(p)' => Holds(p))
    PROVE  Tokens'
BY DEF Tokens

(* No record is linked, no wait with a linked record ends.                 *)
LEMMA FramesStay ==
    ASSUME Frames, setup' = setup, \A t \in Threads : linked'[t] \in {linked[t], None},
           \A t \in Threads : linked'[t] # None /\ pc[t] \in WaitPlaces => pc'[t] \in WaitPlaces
    PROVE  Frames'
BY DEF Frames, WaitersStay, ListedFramesAlive

(* No entry is written.                                                    *)
LEMMA EntriesStay ==
    ASSUME Entries,
           \A p \in Procs : pc'[p] \in {"unlist"} \cup GonePlaces => pc[p] \in {"unlist"} \cup GonePlaces,
           \A i \in Slots : entries'[i].active =>
               entries[i].active /\ entries'[i].owner = entries[i].owner /\ entries'[i].name = entries[i].name
    PROVE  Entries'
BY DEF Entries

(* Nobody parks, nobody ends.                                              *)
LEMMA ParkingsStay ==
    ASSUME Parkings, setup' = setup, parked' \subseteq parked,
           \A c \in Cpus : pc'[c] # "out" => pc[c] # "out" /\ spawned'[c] = spawned[c],
           \A p \in Procs : pstate[p] = "alive" => pstate'[p] = "alive",
           \A c \in Cpus : pc[c] # "out" => spawned[c] \in Procs,
           \A p \in Procs : pc'[p] \notin {"none", "out", "unpark"} => pc[p] \notin {"none", "out", "unpark"}
    PROVE  Parkings'
BY DEF Parkings

(* What is registered after entries were closed, was before.               *)
LEMMA FewerNames ==
    ASSUME \A i \in Slots : entries'[i].active => entries[i].active /\ entries'[i].name = entries[i].name
    PROVE  \A n \in Names : Registered(n)' => Registered(n)
BY DEF Registered, Holders

----------------------------------------------------------------------------
(* A thread moves inside a call, or between calls.                         *)
LEMMA ThreadMoves ==
    ASSUME TypeOK, Where, NEW t \in Threads, NEW to \in AlivePlaces \ {"suspended"}, pc[t] \in AlivePlaces,
           pc' = [pc EXCEPT ![t] = to], UNCHANGED <<setup, pstate, role, spawned>>,
           \A x \in Threads \ {t} : op'[x] = op[x] /\ calls'[x] = calls[x] /\ linked'[x] \in {linked[x], None}
                                    /\ state'[x] \in {state[x], "READY"},
           to \in WaitPlaces \cup {"lookup", "install", "unregister"} =>
               op'[t] \in CallOps /\ op'[t] \in setup.ops[role[Owner[t]]] /\ calls'[t] # 0,
           to \in WaitPlaces => op'[t].call = "wait",
           linked'[t] # None => calls'[t] # 0
    PROVE  Where'
<1> USE Kinds
<1>1. pc'[t] = to /\ \A x \in Actors \ {t} : pc'[x] = pc[x]
  BY DEF TypeOK
<1>2. \A x \in Threads : ThreadPlace(x)'
  <2>1. ThreadPlace(t)'
    BY <1>1 DEF ThreadPlace, Where, AlivePlaces, WaitPlaces
  <2>2. ASSUME NEW x \in Threads \ {t} PROVE ThreadPlace(x)'
    BY <1>1, <2>2 DEF ThreadPlace, Where
  <2> QED
    BY <2>1, <2>2
<1>3. \A p \in Procs : ProcPlace(p)'
  BY <1>1 DEF ProcPlace, Where
<1>4. \A c \in Cpus : CpuPlace(c)'
  BY <1>1 DEF CpuPlace, Where
<1> QED
  BY <1>2, <1>3, <1>4 DEF Where

(* The end of a process goes on.                                           *)
LEMMA ProcMoves ==
    ASSUME TypeOK, Where, NEW p \in Procs, NEW to \in DyingPlaces \cup GonePlaces,
           pc' = [pc EXCEPT ![p] = to], UNCHANGED <<setup, role, spawned, op, calls>>,
           \A q \in Procs \ {p} : pstate'[q] = pstate[q],
           pstate[p] \in {"dying", "gone"}, pstate'[p] = IF to \in DyingPlaces THEN "dying" ELSE "gone",
           \A x \in Threads : linked'[x] \in {linked[x], None} /\ state'[x] \in {state[x], "READY"}
    PROVE  Where'
<1> USE Kinds
<1>1. pc'[p] = to /\ \A x \in Actors \ {p} : pc'[x] = pc[x]
  BY DEF TypeOK
<1>2. \A x \in Threads : ThreadPlace(x)'
  BY <1>1 DEF ThreadPlace, Where
<1>3. \A q \in Procs : ProcPlace(q)'
  <2>1. ProcPlace(p)'
    BY <1>1 DEF ProcPlace, Where, DyingPlaces, GonePlaces
  <2> QED
    BY <1>1, <2>1 DEF ProcPlace, Where
<1>4. \A c \in Cpus : CpuPlace(c)'
  BY <1>1 DEF CpuPlace, Where
<1> QED
  BY <1>2, <1>3, <1>4 DEF Where

(* A kernel thread goes on with a process it spawns.                       *)
LEMMA CpuMoves ==
    ASSUME TypeOK, Where, NEW c \in Cpus, NEW to \in {"out", "park", "cache", "promote"},
           pc' = [pc EXCEPT ![c] = to], UNCHANGED <<setup, role, op, calls, pstate, linked>>,
           \A x \in Cpus \ {c} : spawned'[x] = spawned[x],
           to # "out" => to # "park" /\ spawned'[c] = spawned[c] /\ pc[c] # "out",
           \A x \in Threads : state'[x] \in {state[x], "READY"}
    PROVE  Where'
<1> USE Kinds
<1>1. pc'[c] = to /\ \A x \in Actors \ {c} : pc'[x] = pc[x]
  BY DEF TypeOK
<1>2. \A x \in Threads : ThreadPlace(x)'
  BY <1>1 DEF ThreadPlace, Where
<1>3. \A q \in Procs : ProcPlace(q)'
  BY <1>1 DEF ProcPlace, Where
<1>4. \A x \in Cpus : CpuPlace(x)'
  BY <1>1 DEF CpuPlace, Where
<1> QED
  BY <1>2, <1>3, <1>4 DEF Where

(* The types follow from those of the data and the places.                 *)
LEMMA TypesStay ==
    ASSUME DataTypes', pc' \in [Actors -> Places],
           \A a \in Actors : pc'[a] \in {"drain", "wake"} => name'[a] # None
    PROVE  TypeOK'
BY DEF DataTypes, TypeOK

(* A thread's step that is not part of a pass and leaves others alone.     *)
LEMMA QuietThread ==
    ASSUME RegistryInv, NEW t \in Threads, NEW to \in AlivePlaces \ {"suspended", "drain", "wake"},
           pc[t] \in AlivePlaces \ {"drain", "wake"}, pc' = [pc EXCEPT ![t] = to], DataTypes',
           UNCHANGED <<setup, pstate, role, spawned, boot, respawn_pending, parked, name, pb, again>>,
           \A x \in Threads \ {t} : op'[x] = op[x] /\ calls'[x] = calls[x] /\ linked'[x] \in {linked[x], None}
                                    /\ state'[x] \in {state[x], "READY"},
           to \in WaitPlaces \cup {"lookup", "install", "unregister"} =>
               op'[t] \in CallOps /\ op'[t] \in setup.ops[role[Owner[t]]] /\ calls'[t] # 0,
           to \in WaitPlaces => op'[t].call = "wait",
           linked'[t] # None => calls'[t] # 0,
           \A i \in Slots : entries'[i].active =>
               entries[i].active /\ entries'[i].owner = entries[i].owner /\ entries'[i].name = entries[i].name
    PROVE  /\ TypeOK' /\ Where' /\ Known' /\ Tokens' /\ Entries' /\ Parkings'
           /\ pc'[t] = to /\ (\A x \in Actors \ {t} : pc'[x] = pc[x])
           /\ \A n \in Names : Registered(n)' => Registered(n)
           /\ \A a \in Threads : \A n \in Names : Drains(a, n) => Drains(a, n)'
<1> USE Kinds DEF RegistryInv
<1>1. pc' \in [Actors -> Places] /\ pc'[t] = to /\ \A x \in Actors \ {t} : pc'[x] = pc[x]
  BY Moved DEF AlivePlaces, Places
<1>2. TypeOK'
  <2>1. \A a \in Actors : pc'[a] \in {"drain", "wake"} => name'[a] # None
    BY <1>1 DEF TypeOK
  <2> QED
    BY <1>1, <2>1, TypesStay
<1>3. Where'
  BY ThreadMoves
<1>4. Known'
  <2>1. \A x \in Threads : pc'[x] = "suspended" =>
               pc[x] = "suspended" /\ (state[x] = "READY" => state'[x] = "READY")
    BY <1>1
  <2>2. /\ \A c \in Cpus : pc[c] = "park" => pc'[c] = "park" /\ spawned'[c] = spawned[c]
        /\ \A a \in Actors : pc[a] = "wake" => pc'[a] = "wake" \/ pb[a] = {}
    BY <1>1
  <2> QED
    BY <2>1, <2>2, KnownStays
<1>5. Tokens'
  <2>1. \A p \in Procs : Holds(p)' => Holds(p)
    BY <1>1 DEF Holds
  <2> QED
    BY <2>1, TokensStay
<1>6. Entries'
  BY <1>1, EntriesStay
<1>7. Parkings'
  <2>1. /\ \A c \in Cpus : pc'[c] = pc[c] /\ (pc[c] # "out" => spawned[c] \in Procs)
        /\ \A p \in Procs : pc'[p] = pc[p]
    BY <1>1 DEF Where, CpuPlace
  <2> QED
    BY <2>1, ParkingsStay
<1>8. \A a \in Threads : \A n \in Names : Drains(a, n) => Drains(a, n)'
  BY <1>1 DEF Drains
<1> QED
  BY <1>1, <1>2, <1>3, <1>4, <1>5, <1>6, <1>7, <1>8, FewerNames

(* A system call begins.                                                   *)
LEMMA CallInv ==
    ASSUME RegistryInv, NEW t \in Threads, NEW o, Call(t, o)
    PROVE  RegistryInv'
<1> USE Kinds DEF registry, life, todo, sched, batches
<1> DEFINE to == CASE o.call = "register" -> "install"
                   [] o.call = "unregister" -> "unregister"
                   [] OTHER -> "lookup"
<1>0. /\ o \in setup.ops[role[Owner[t]]] /\ calls[t] < MaxCalls /\ pc[t] = "out"
      /\ pc' = [pc EXCEPT ![t] = to] /\ op' = [op EXCEPT ![t] = o] /\ calls' = [calls EXCEPT ![t] = @ + 1]
      /\ UNCHANGED <<setup, registry, life, todo, sched, batches, spawned>>
  BY DEF Call, Goto
<1>1. to \in {"install", "unregister", "lookup"}
  OBVIOUS
<1> HIDE DEF to
<1>2. o \in CallOps
  <2>1. role[Owner[t]] \in Roles /\ setup \in Setups
    BY <1>0 DEF RegistryInv, Where, ThreadPlace, ProcPlace, AlivePlaces
  <2> QED
    BY <1>0, <2>1, ServicesAssumption
<1>3. /\ op' \in [Threads -> CallOps \cup {NoOp}] /\ calls' \in [Threads -> 0 .. MaxCalls]
      /\ op'[t] = o /\ calls'[t] # 0 /\ \A x \in Threads \ {t} : op'[x] = op[x] /\ calls'[x] = calls[x]
  <2>1. op \in [Threads -> CallOps \cup {NoOp}] /\ calls \in [Threads -> 0 .. MaxCalls] /\ MaxCalls \in Nat
    BY ServicesAssumption DEF RegistryInv, TypeOK
  <2>2. calls[t] + 1 \in 0 .. MaxCalls /\ calls[t] + 1 # 0
    BY <1>0, <2>1
  <2> QED
    BY <1>0, <1>2, <2>1, <2>2
<1>4. DataTypes'
  BY <1>0, <1>3, HasDataTypes DEF DataTypes, RegistryInv
<1>5. /\ TypeOK' /\ Where' /\ Known' /\ Tokens' /\ Entries' /\ Parkings'
      /\ pc'[t] = to /\ (\A x \in Actors \ {t} : pc'[x] = pc[x])
      /\ \A n \in Names : Registered(n)' => Registered(n)
      /\ \A a \in Threads : \A n \in Names : Drains(a, n) => Drains(a, n)'
  <2>1. to \in AlivePlaces \ {"suspended", "drain", "wake"} /\ pc[t] \in AlivePlaces \ {"drain", "wake"} /\ to \notin WaitPlaces
    BY <1>0, <1>1 DEF AlivePlaces, WaitPlaces
  <2> QED
    BY ZenonT(30), <1>0, <1>2, <1>3, <1>4, <2>1, QuietThread
<1>6. NobodyWaitsForTheRegistered'
  BY <1>0, <1>5, NamesStay DEF RegistryInv
<1>7. Frames'
  BY <1>0, <1>5, FramesStay DEF RegistryInv, WaitPlaces
<1> QED
  BY <1>5, <1>6, <1>7 DEF RegistryInv

(* registry_find, and registry_wait up to the sleep: a record is linked    *)
(* only while the name is not there.                                       *)
LEMMA LookupInv ==
    ASSUME RegistryInv, NEW t \in Threads, Lookup(t)
    PROVE  RegistryInv'
<1> USE Kinds DEF registry, life, todo, sched, batches
<1> DEFINE n == op[t].name to == pc'[t]
<1>d. DataTypes /\ pc \in [Actors -> Places]
  BY HasDataTypes DEF RegistryInv, TypeOK
<1>o. pc[t] = "lookup" => op[t] \in CallOps /\ op[t] \in setup.ops[role[Owner[t]]] /\ calls[t] # 0
  BY DEF RegistryInv, Where, ThreadPlace
<1>0. /\ pc[t] = "lookup" /\ pc' = [pc EXCEPT ![t] = to] /\ to \in {"out"} \cup WaitPlaces
      /\ UNCHANGED <<setup, entries, parked, life, todo, op, calls, batches, spawned>>
      /\ \/ to = "out" /\ linked' = linked
         \/ ~Registered(n) /\ op[t].call = "wait" /\ linked' = [linked EXCEPT ![t] = n] /\ to \in WaitPlaces
      /\ state' \in {state, [state EXCEPT ![t] = "BLOCKED"]} /\ armed' \subseteq armed \cup {t}
  BY <1>d DEF Lookup, Goto, WaitPlaces
<1>1. /\ DataTypes' /\ \A x \in Threads \ {t} : linked'[x] = linked[x] /\ state'[x] = state[x]
      /\ to \in WaitPlaces => ~Registered(n) /\ linked'[t] = n /\ op[t].call = "wait"
      /\ to = "out" => linked' = linked
  <2>1. n \in Names
    BY <1>0, <1>o DEF CallOps
  <2>2. linked' \in [Threads -> Names \cup {None}] /\ state' \in [Threads -> {"none", "RUNNING", "BLOCKED", "READY", "DEAD"}]
        /\ armed' \subseteq Threads
    BY SMTT(30), <1>d, <1>0, <2>1 DEF DataTypes
  <2>3. DataTypes'
    BY <1>d, <1>0, <2>2 DEF DataTypes
  <2> QED
    BY <1>d, <1>0, <2>3 DEF DataTypes, WaitPlaces
<1> HIDE DEF to
<1>2. /\ TypeOK' /\ Where' /\ Known' /\ Tokens' /\ Entries' /\ Parkings'
      /\ pc'[t] = to /\ (\A x \in Actors \ {t} : pc'[x] = pc[x])
      /\ \A m \in Names : Registered(m)' => Registered(m)
      /\ \A a \in Threads : \A m \in Names : Drains(a, m) => Drains(a, m)'
  <2>1. to \in AlivePlaces \ {"suspended", "drain", "wake"} /\ pc[t] \in AlivePlaces \ {"drain", "wake"}
        /\ to \notin {"lookup", "install", "unregister"}
    BY <1>0 DEF AlivePlaces, WaitPlaces
  <2> QED
    BY <1>0, <1>o, <1>1, <2>1, QuietThread
<1>3. NobodyWaitsForTheRegistered'
  <2> SUFFICES ASSUME NEW x \in Threads, NEW m \in Names, Registered(m)', linked'[x] = m \/ <<m, x>> \in parked'
               PROVE  \E a \in Threads : Drains(a, m)'
    BY DEF NobodyWaitsForTheRegistered
  <2>1. Registered(m)
    BY <1>2
  <2>2. linked[x] = m \/ <<m, x>> \in parked
    BY <1>0, <1>1, <2>1
  <2> QED
    BY <1>2, <2>1, <2>2 DEF RegistryInv, NobodyWaitsForTheRegistered
<1>4. Frames'
  <2> SUFFICES ASSUME WaitersStay, NEW x \in Threads, linked'[x] # None PROVE pc'[x] \in WaitPlaces
    BY <1>0 DEF Frames, WaitersStay, ListedFramesAlive
  <2>1. \A y \in Threads : linked[y] # None => pc[y] \in WaitPlaces
    BY DEF RegistryInv, Frames, ListedFramesAlive
  <2> QED
    BY <1>0, <1>1, <1>2, <2>1 DEF WaitPlaces
<1> QED
  BY <1>2, <1>3, <1>4 DEF RegistryInv

(* A thread that was woken from its wait runs.                             *)
LEMMA DispatchInv ==
    ASSUME RegistryInv, NEW t \in Threads, Dispatch(t)
    PROVE  RegistryInv'
<1> USE Kinds DEF registry, life, todo, sched, batches
<1>0. /\ pc[t] = "asleep" /\ pc' = [pc EXCEPT ![t] = "again"]
      /\ state' = [state EXCEPT ![t] = "RUNNING"] /\ armed' \subseteq armed
      /\ UNCHANGED <<setup, registry, life, todo, op, calls, batches, spawned>>
  BY DEF Dispatch, Goto
<1>o. op[t] \in CallOps /\ op[t] \in setup.ops[role[Owner[t]]] /\ calls[t] # 0 /\ op[t].call = "wait"
  BY <1>0 DEF RegistryInv, Where, ThreadPlace, WaitPlaces
<1>1. DataTypes' /\ \A x \in Threads \ {t} : state'[x] = state[x]
  BY <1>0, HasDataTypes DEF DataTypes, RegistryInv
<1>2. /\ TypeOK' /\ Where' /\ Known' /\ Tokens' /\ Entries' /\ Parkings'
      /\ pc'[t] = "again" /\ (\A x \in Actors \ {t} : pc'[x] = pc[x])
      /\ \A m \in Names : Registered(m)' => Registered(m)
      /\ \A a \in Threads : \A m \in Names : Drains(a, m) => Drains(a, m)'
  <2>1. "again" \in AlivePlaces \ {"suspended", "drain", "wake"} /\ pc[t] \in AlivePlaces \ {"drain", "wake"}
    BY <1>0 DEF AlivePlaces, WaitPlaces
  <2> QED
    BY <1>0, <1>o, <1>1, <2>1, QuietThread
<1>3. NobodyWaitsForTheRegistered'
  BY <1>0, <1>2, NamesStay DEF RegistryInv
<1>4. Frames'
  BY <1>0, <1>2, FramesStay DEF RegistryInv, WaitPlaces
<1> QED
  BY <1>2, <1>3, <1>4 DEF RegistryInv

(* The wait is over, its record off the list.                              *)
LEMMA LookAgainInv ==
    ASSUME RegistryInv, NEW t \in Threads, LookAgain(t)
    PROVE  RegistryInv'
<1> USE Kinds DEF registry, life, todo, sched, batches
<1>0. /\ pc[t] = "again" /\ pc' = [pc EXCEPT ![t] = "out"] /\ linked' = [linked EXCEPT ![t] = None]
      /\ UNCHANGED <<setup, entries, parked, life, todo, sched, op, calls, batches, spawned>>
  BY DEF LookAgain, Goto
<1>1. DataTypes' /\ linked'[t] = None /\ \A x \in Threads \ {t} : linked'[x] = linked[x]
  BY <1>0, HasDataTypes DEF DataTypes, RegistryInv
<1>2. /\ TypeOK' /\ Where' /\ Known' /\ Tokens' /\ Entries' /\ Parkings'
      /\ pc'[t] = "out" /\ (\A x \in Actors \ {t} : pc'[x] = pc[x])
      /\ \A m \in Names : Registered(m)' => Registered(m)
      /\ \A a \in Threads : \A m \in Names : Drains(a, m) => Drains(a, m)'
  <2>1. "out" \in AlivePlaces \ {"suspended", "drain", "wake"} /\ pc[t] \in AlivePlaces \ {"drain", "wake"}
        /\ "out" \notin WaitPlaces
    BY <1>0 DEF AlivePlaces, WaitPlaces
  <2> QED
    BY <1>0, <1>1, <2>1, QuietThread
<1>3. NobodyWaitsForTheRegistered'
  BY <1>0, <1>1, <1>2, NamesStay DEF RegistryInv
<1>4. Frames'
  BY <1>0, <1>1, <1>2, FramesStay DEF RegistryInv
<1> QED
  BY <1>2, <1>3, <1>4 DEF RegistryInv

(* A suspended thread that was started runs.                               *)
LEMMA StartInv ==
    ASSUME RegistryInv, NEW t \in Threads, Start(t)
    PROVE  RegistryInv'
<1> USE Kinds DEF registry, life, todo, sched, batches
<1>0. /\ pc[t] = "suspended" /\ pc' = [pc EXCEPT ![t] = "out"]
      /\ state' = [state EXCEPT ![t] = "RUNNING"]
      /\ UNCHANGED <<setup, registry, life, todo, armed, op, calls, batches, spawned>>
  BY DEF Start, Goto
<1>1. DataTypes' /\ \A x \in Threads \ {t} : state'[x] = state[x]
  BY <1>0, HasDataTypes DEF DataTypes, RegistryInv
<1>o. linked'[t] # None => calls'[t] # 0
  BY <1>0 DEF RegistryInv, Where, ThreadPlace
<1>2. /\ TypeOK' /\ Where' /\ Known' /\ Tokens' /\ Entries' /\ Parkings'
      /\ pc'[t] = "out" /\ (\A x \in Actors \ {t} : pc'[x] = pc[x])
      /\ \A m \in Names : Registered(m)' => Registered(m)
      /\ \A a \in Threads : \A m \in Names : Drains(a, m) => Drains(a, m)'
  <2>1. "out" \in AlivePlaces \ {"suspended", "drain", "wake"} /\ pc[t] \in AlivePlaces \ {"drain", "wake"}
        /\ "out" \notin WaitPlaces
    BY <1>0 DEF AlivePlaces, WaitPlaces
  <2> QED
    BY <1>0, <1>1, <1>o, <2>1, QuietThread
<1>3. NobodyWaitsForTheRegistered'
  BY <1>0, <1>2, NamesStay DEF RegistryInv
<1>4. Frames'
  BY <1>0, <1>2, FramesStay DEF RegistryInv, WaitPlaces
<1> QED
  BY <1>2, <1>3, <1>4 DEF RegistryInv

(* registry_unregister: an entry may be closed.                            *)
LEMMA UnregisterInv ==
    ASSUME RegistryInv, NEW t \in Threads, Unregister(t)
    PROVE  RegistryInv'
<1> USE Kinds DEF registry, life, todo, sched, batches
<1>0. /\ pc[t] = "unregister" /\ pc' = [pc EXCEPT ![t] = "out"]
      /\ entries' = [i \in Slots |->
                     IF i \in Holders(op[t].name) /\ entries[i].owner = Owner[t]
                     THEN [entries[i] EXCEPT !.active = FALSE] ELSE entries[i]]
      /\ UNCHANGED <<setup, linked, parked, life, todo, sched, op, calls, batches, spawned>>
  BY DEF Unregister, Goto
<1>d. DataTypes
  BY HasDataTypes DEF RegistryInv
<1>1. /\ DataTypes'
      /\ \A i \in Slots : entries'[i].active =>
            entries[i].active /\ entries'[i].owner = entries[i].owner /\ entries'[i].name = entries[i].name
  <2>0. ASSUME NEW i \in Slots
        PROVE  [entries[i] EXCEPT !.active = FALSE] \in [name : Names \cup {None}, owner : Procs \cup {None}, active : BOOLEAN]
    <3>1. entries[i] \in [name : Names \cup {None}, owner : Procs \cup {None}, active : BOOLEAN]
      BY <1>d DEF DataTypes
    <3> QED
      BY <3>1, ClosedEntry, Zenon
  <2>1. entries' \in [Slots -> [name : Names \cup {None}, owner : Procs \cup {None}, active : BOOLEAN]]
    BY <1>0, <1>d, <2>0 DEF DataTypes
  <2>2. DataTypes'
    BY <1>0, <1>d, <2>1 DEF DataTypes
  <2> QED
    BY <1>0, <1>d, <2>2 DEF DataTypes
<1>o. linked[t] # None => calls[t] # 0
  BY DEF RegistryInv, Where, ThreadPlace
<1>2. /\ TypeOK' /\ Where' /\ Known' /\ Tokens' /\ Entries' /\ Parkings'
      /\ pc'[t] = "out" /\ (\A x \in Actors \ {t} : pc'[x] = pc[x])
      /\ \A m \in Names : Registered(m)' => Registered(m)
      /\ \A a \in Threads : \A m \in Names : Drains(a, m) => Drains(a, m)'
  <2>1. "out" \in AlivePlaces \ {"suspended", "drain", "wake"} /\ pc[t] \in AlivePlaces \ {"drain", "wake"}
        /\ "out" \notin WaitPlaces
    BY <1>0 DEF AlivePlaces, WaitPlaces
  <2> QED
    BY <1>0, <1>1, <1>o, <2>1, QuietThread
<1>3. NobodyWaitsForTheRegistered'
  BY <1>0, <1>2, NamesStay DEF RegistryInv
<1>4. Frames'
  BY <1>0, <1>2, FramesStay DEF RegistryInv, WaitPlaces
<1> QED
  BY <1>2, <1>3, <1>4 DEF RegistryInv

(* Steps in which nobody moves.                                            *)
LEMMA StillInv ==
    ASSUME RegistryInv, DataTypes', \A t \in Threads : state'[t] \in {state[t], "READY"},
           UNCHANGED <<entries, linked, parked, pstate, role, boot, respawn_pending, pc, op, calls,
                       name, pb, again, spawned, setup>>
    PROVE  RegistryInv'
<1> USE DEF RegistryInv
<1>1. TypeOK'
  BY TypesStay DEF TypeOK
<1>2. Where'
  <2>1. \A t \in Threads : ThreadPlace(t)'
    BY DEF Where, ThreadPlace
  <2>2. \A p \in Procs : ProcPlace(p)'
    BY DEF Where, ProcPlace
  <2>3. \A c \in Cpus : CpuPlace(c)'
    BY DEF Where, CpuPlace
  <2> QED
    BY <2>1, <2>2, <2>3 DEF Where
<1>3. Known'
  BY KnownStays
<1>4. NobodyWaitsForTheRegistered'
  <2>1. \A n \in Names : Registered(n)' => Registered(n)
    BY FewerNames
  <2>2. \A a \in Threads : \A n \in Names : Drains(a, n) => Drains(a, n)'
    BY DEF Drains
  <2> QED
    BY <2>1, <2>2, NamesStay
<1>5. Tokens'
  BY TokensStay DEF Holds
<1>6. Frames' /\ Entries'
  BY FramesStay, EntriesStay
<1>7. Parkings'
  BY ParkingsStay DEF Where, CpuPlace
<1> QED
  BY <1>1, <1>2, <1>3, <1>4, <1>5, <1>6, <1>7

(* Nothing happens.                                                        *)
LEMMA StutterInv == RegistryInv /\ UNCHANGED vars => RegistryInv'
<1> SUFFICES ASSUME RegistryInv, UNCHANGED vars PROVE RegistryInv'
  OBVIOUS
<1> USE DEF vars, registry, life, todo, sched, batches
<1>1. DataTypes'
  BY HasDataTypes DEF DataTypes, RegistryInv
<1> QED
  BY <1>1, StillInv

(* scheduler_sleep_timer_fire.                                             *)
LEMMA TimerFireInv ==
    ASSUME RegistryInv, NEW t \in Threads, TimerFire(t)
    PROVE  RegistryInv'
<1> USE DEF registry, life, todo, sched, batches
<1>0. /\ armed' \subseteq armed
      /\ state' = [state EXCEPT ![t] = IF state[t] = "BLOCKED" THEN "READY" ELSE state[t]]
      /\ UNCHANGED <<registry, life, todo, pc, op, calls, batches, spawned, setup>>
  BY DEF TimerFire
<1>1. DataTypes' /\ \A x \in Threads : state'[x] \in {state[x], "READY"}
  BY <1>0, HasDataTypes DEF DataTypes, RegistryInv
<1> QED
  BY <1>0, <1>1, StillInv

(* registry_register: a name appears, and a pass over those who wait for   *)
(* it begins in the same section.                                          *)
LEMMA InstallInv ==
    ASSUME RegistryInv, NEW t \in Threads, Install(t)
    PROVE  RegistryInv'
<1> USE Kinds DEF registry, life, todo, sched, batches
<1> DEFINE n == op[t].name
<1>d. DataTypes /\ pc \in [Actors -> Places]
  BY HasDataTypes DEF RegistryInv, TypeOK
<1>0. /\ pc[t] = "install" /\ UNCHANGED <<setup, linked, parked, life, todo, sched, op, calls, wb, pb, again, spawned>>
  BY DEF Install, Goto
<1>o. /\ op[t] \in CallOps /\ n \in Names /\ n # None /\ pstate[Owner[t]] = "alive"
      /\ linked[t] # None => calls[t] # 0
  <2>1. op[t] \in CallOps /\ pstate[Owner[t]] = "alive" /\ (linked[t] # None => calls[t] # 0)
    BY <1>0 DEF RegistryInv, Where, ThreadPlace, AlivePlaces
  <2> QED
    BY <2>1, ServicesAssumption DEF CallOps
<1>1. CASE pc' = [pc EXCEPT ![t] = "out"] /\ UNCHANGED <<entries, name>>
  <2>1. DataTypes'
    BY <1>d, <1>0, <1>1 DEF DataTypes
  <2>2. /\ TypeOK' /\ Where' /\ Known' /\ Tokens' /\ Entries' /\ Parkings'
        /\ pc'[t] = "out" /\ (\A x \in Actors \ {t} : pc'[x] = pc[x])
        /\ \A m \in Names : Registered(m)' => Registered(m)
        /\ \A a \in Threads : \A m \in Names : Drains(a, m) => Drains(a, m)'
    <3>1. "out" \in AlivePlaces \ {"suspended", "drain", "wake"} /\ pc[t] \in AlivePlaces \ {"drain", "wake"}
          /\ "out" \notin WaitPlaces
      BY <1>0 DEF AlivePlaces, WaitPlaces
    <3> QED
      BY <1>0, <1>1, <1>o, <2>1, <3>1, QuietThread
  <2>3. NobodyWaitsForTheRegistered'
    BY <1>0, <2>2, NamesStay DEF RegistryInv
  <2>4. Frames'
    BY <1>0, <2>2, FramesStay DEF RegistryInv, WaitPlaces
  <2> QED
    BY <2>2, <2>3, <2>4 DEF RegistryInv
<1>2. CASE pc' = [pc EXCEPT ![t] = "drain"] /\ Installed(n, Owner[t]) /\ name' = [name EXCEPT ![t] = n]
  <2>1. PICK i \in Slots :
          \/ entries[i].active /\ entries[i].name = n /\ entries' = [entries EXCEPT ![i].owner = Owner[t]]
          \/ entries' = [entries EXCEPT ![i] = [name |-> n, owner |-> Owner[t], active |-> TRUE]]
    BY <1>2 DEF Installed, Holders
  <2>2. /\ entries' \in [Slots -> [name : Names \cup {None}, owner : Procs \cup {None}, active : BOOLEAN]]
        /\ entries'[i].name = n /\ entries'[i].owner = Owner[t]
        /\ \A j \in Slots \ {i} : entries'[j] = entries[j]
    <3>1. entries \in [Slots -> [name : Names \cup {None}, owner : Procs \cup {None}, active : BOOLEAN]]
      BY <1>d DEF DataTypes
    <3>2. CASE entries[i].active /\ entries[i].name = n /\ entries' = [entries EXCEPT ![i].owner = Owner[t]]
      <4>1. entries' = [entries EXCEPT ![i] = [entries[i] EXCEPT !.owner = Owner[t]]]
        BY <3>2
      <4>2. [entries[i] EXCEPT !.owner = Owner[t]] \in [name : Names \cup {None}, owner : Procs \cup {None}, active : BOOLEAN]
        BY <3>1
      <4>3. [entries[i] EXCEPT !.owner = Owner[t]].name = n /\ [entries[i] EXCEPT !.owner = Owner[t]].owner = Owner[t]
        BY <3>1, <3>2
      <4> QED
        BY <3>1, <4>1, <4>2, <4>3
    <3>3. CASE entries' = [entries EXCEPT ![i] = [name |-> n, owner |-> Owner[t], active |-> TRUE]]
      <4>1. [name |-> n, owner |-> Owner[t], active |-> TRUE] \in [name : Names \cup {None}, owner : Procs \cup {None}, active : BOOLEAN]
        BY <1>o
      <4> QED
        BY <3>1, <3>3, <4>1
    <3> QED
      BY <2>1, <3>2, <3>3
  <2>3. DataTypes' /\ name'[t] = n /\ \A x \in Actors \ {t} : name'[x] = name[x]
    <3>1. name' \in [Actors -> Names \cup {None}] /\ name'[t] = n /\ \A x \in Actors \ {t} : name'[x] = name[x]
      BY <1>d, <1>2, <1>o DEF DataTypes
    <3> QED
      BY <1>d, <1>0, <2>2, <3>1 DEF DataTypes
  <2>4. pc' \in [Actors -> Places] /\ pc'[t] = "drain" /\ \A x \in Actors \ {t} : pc'[x] = pc[x]
    BY <1>d, <1>2 DEF Places
  <2>5. TypeOK'
    <3>1. \A a \in Actors : pc'[a] \in {"drain", "wake"} => name'[a] # None
      BY <1>o, <2>3, <2>4 DEF RegistryInv, TypeOK
    <3> QED
      BY <2>3, <2>4, <3>1, TypesStay
  <2>6. Where'
    <3>1. "drain" \in AlivePlaces \ {"suspended"} /\ pc[t] \in AlivePlaces /\ "drain" \notin WaitPlaces
      BY <1>0 DEF AlivePlaces, WaitPlaces
    <3> QED
      BY <1>0, <1>2, <1>o, <3>1, ThreadMoves DEF RegistryInv
  <2>7. Known'
    BY <1>0, <2>4, KnownStays DEF RegistryInv
  <2>8. Tokens'
    BY <1>0, <2>4, TokensStay DEF RegistryInv, Holds
  <2>9. Frames'
    BY <1>0, <2>4, FramesStay DEF RegistryInv, WaitPlaces
  <2>10. Entries'
    <3>1. Owner[t] \in Procs /\ pc[Owner[t]] = "out"
      BY <1>o DEF RegistryInv, Where, ProcPlace
    <3>2. ASSUME NEW j \in Slots, entries'[j].active PROVE entries'[j].name # None
      BY <1>o, <2>2, <3>2 DEF RegistryInv, Entries
    <3>3. ASSUME NEW p \in Procs, pc'[p] \in {"unlist"} \cup GonePlaces, NEW j \in Slots, entries'[j].active
          PROVE  entries'[j].owner # p
      <4>1. p # Owner[t] /\ pc[p] = pc'[p]
        BY <2>4, <3>1, <3>3 DEF GonePlaces
      <4> QED
        BY <2>2, <3>3, <4>1 DEF RegistryInv, Entries
    <3> QED
      BY <3>2, <3>3 DEF Entries
  <2>11. Parkings'
    BY <1>0, <2>4, ParkingsStay DEF RegistryInv, Where, CpuPlace
  <2>12. NobodyWaitsForTheRegistered'
    <3> SUFFICES ASSUME NEW x \in Threads, NEW m \in Names, Registered(m)', linked'[x] = m \/ <<m, x>> \in parked'
                 PROVE  \E a \in Threads : Drains(a, m)'
      BY DEF NobodyWaitsForTheRegistered
    <3>1. CASE m = n
      BY <2>3, <2>4, <3>1 DEF Drains
    <3>2. CASE m # n
      <4>1. Registered(m)
        <5>1. PICK j \in Slots : entries'[j].active /\ entries'[j].name = m
          BY DEF Registered, Holders
        <5>2. j # i
          BY <2>2, <3>2, <5>1
        <5> QED
          BY <2>2, <5>1, <5>2 DEF Registered, Holders
      <4>2. PICK a \in Threads : Drains(a, m)
        BY <1>0, <4>1 DEF RegistryInv, NobodyWaitsForTheRegistered
      <4>3. a # t
        BY <1>0, <4>2 DEF Drains
      <4> QED
        BY <1>0, <2>3, <2>4, <4>2, <4>3 DEF Drains
    <3> QED
      BY <3>1, <3>2
  <2> QED
    BY <2>5, <2>6, <2>7, <2>8, <2>9, <2>10, <2>11, <2>12 DEF RegistryInv
<1> QED
  BY <1>1, <1>2 DEF Install, Goto

----------------------------------------------------------------------------
(* A step of a pass over those who wait for a name.                        *)
LEMMA PassMoves ==
    ASSUME RegistryInv, NEW a \in Threads \cup Procs, pc[a] \in {"drain", "wake"},
           NEW to \in {"drain", "wake", IF a \in Procs THEN "entries" ELSE "out"},
           pc' = [pc EXCEPT ![a] = to], DataTypes',
           UNCHANGED <<setup, entries, pstate, role, spawned, boot, respawn_pending, op, calls, name>>,
           parked' \subseteq parked,
           \A x \in Threads : linked'[x] \in {linked[x], None} /\ state'[x] \in {state[x], "READY"}
    PROVE  /\ TypeOK' /\ Where' /\ Tokens' /\ Frames' /\ Entries' /\ Parkings'
           /\ pc'[a] = to /\ \A x \in Actors \ {a} : pc'[x] = pc[x]
<1> USE Kinds DEF RegistryInv
<1>0. a \in Actors /\ to \in Places
  BY DEF Places
<1>1. pc' \in [Actors -> Places] /\ pc'[a] = to /\ \A x \in Actors \ {a} : pc'[x] = pc[x]
  BY <1>0, Moved
<1>2. TypeOK'
  <2>1. \A x \in Actors : pc'[x] \in {"drain", "wake"} => name'[x] # None
    BY <1>0, <1>1 DEF TypeOK
  <2> QED
    BY <1>1, <2>1, TypesStay
<1>3. Where'
  <2>1. CASE a \in Threads
    <3>1. /\ pc[a] \in AlivePlaces /\ to \in AlivePlaces \ {"suspended"}
          /\ to \notin WaitPlaces \cup {"lookup", "install", "unregister"}
          /\ linked'[a] # None => calls'[a] # 0
      BY <2>1 DEF AlivePlaces, WaitPlaces, Where, ThreadPlace
    <3> QED
      BY <2>1, <3>1, ThreadMoves
  <2>2. CASE a \in Procs
    <3>1. pstate[a] = "dying" /\ to \in DyingPlaces
      BY <2>2 DEF Where, ProcPlace, DyingPlaces
    <3> QED
      BY <2>2, <3>1, ProcMoves
  <2> QED
    BY <2>1, <2>2
<1>4. Tokens'
  <2>1. \A p \in Procs : Holds(p)' => Holds(p)
    BY <1>1 DEF Holds
  <2> QED
    BY <2>1, TokensStay
<1>5. Frames'
  <2>1. \A x \in Threads : pc[x] \in WaitPlaces => pc'[x] \in WaitPlaces
    BY <1>1 DEF WaitPlaces
  <2> QED
    BY <2>1, FramesStay
<1>6. Entries'
  <2>1. \A p \in Procs : pc'[p] \in {"unlist"} \cup GonePlaces => pc[p] \in {"unlist"} \cup GonePlaces
    BY <1>1 DEF GonePlaces
  <2> QED
    BY <2>1, EntriesStay
<1>7. Parkings'
  <2>1. /\ \A c \in Cpus : pc'[c] = pc[c] /\ (pc[c] # "out" => spawned[c] \in Procs)
        /\ \A p \in Procs : pc'[p] \notin {"none", "out", "unpark"} => pc[p] \notin {"none", "out", "unpark"}
    BY <1>1 DEF Where, CpuPlace
  <2> QED
    BY <2>1, ParkingsStay
<1> QED
  BY <1>1, <1>2, <1>3, <1>4, <1>5, <1>6, <1>7

(* A batch is taken off the lists: only after a full one is somebody left, *)
(* and then the pass goes on.                                              *)
LEMMA DrainInv ==
    ASSUME RegistryInv, NEW a \in Threads \cup Procs, Drain(a)
    PROVE  RegistryInv'
<1> USE Kinds DEF registry, life, todo, sched, batches
<1>p. PICK b \in SUBSET Threads, q \in SUBSET Threads : Drain(a)!(b, q)
  BY DEF Drain
<1>d. DataTypes /\ pc \in [Actors -> Places] /\ a \in Actors
  BY HasDataTypes DEF RegistryInv, TypeOK
<1>0. /\ pc[a] = "drain" /\ pc' = [pc EXCEPT ![a] = "wake"]
      /\ UNCHANGED <<setup, entries, life, todo, sched, op, calls, name, spawned>>
      /\ parked' = parked \ {<<name[a], t>> : t \in q}
      /\ \A t \in Threads : linked'[t] = IF t \in b THEN None ELSE linked[t]
      /\ \A t \in b : linked[t] = name[a]
      /\ \A t \in q : a \in Threads /\ <<name[a], t>> \in parked
  BY <1>p DEF Goto, Taken
<1>1. /\ pb'[a] = q /\ (again'[a] <=> Again(b, q)) /\ \A x \in Actors \ {a} : pb'[x] = pb[x] /\ again'[x] = again[x]
  BY <1>d, <1>p DEF DataTypes
<1>n. name[a] # None
  BY <1>0, <1>d DEF RegistryInv, TypeOK
<1>2. DataTypes'
  <2>1. linked' \in [Threads -> Names \cup {None}] /\ parked' \subseteq Names \X Threads
    BY <1>d, <1>0, <1>p DEF DataTypes
  <2>2. \A t \in b : <<t, calls[t]>> \in Threads \X (1 .. MaxCalls)
    <3> SUFFICES ASSUME NEW t \in b PROVE calls[t] \in 1 .. MaxCalls
      OBVIOUS
    <3>1. calls[t] \in 0 .. MaxCalls /\ calls[t] # 0 /\ MaxCalls \in Nat
      BY <1>d, <1>0, <1>n, ServicesAssumption DEF DataTypes, RegistryInv, Where, ThreadPlace
    <3> QED
      BY <3>1
  <2>3. wb' \in [Actors -> SUBSET (Threads \X (1 .. MaxCalls))]
    <3> DEFINE w == {<<t, calls[t]>> : t \in b}
    <3>1. w \subseteq Threads \X (1 .. MaxCalls) /\ wb' = [wb EXCEPT ![a] = w]
      BY <1>p, <2>2
    <3> HIDE DEF w
    <3> QED
      BY <1>d, <3>1 DEF DataTypes
  <2>4. pb' \in [Actors -> SUBSET Threads]
    BY <1>d, <1>p DEF DataTypes
  <2>5. again' \in [Actors -> BOOLEAN]
    <3>1. Again(b, q) \in BOOLEAN
      BY DEF Again
    <3>2. again' = [again EXCEPT ![a] = Again(b, q)] /\ again \in [Actors -> BOOLEAN]
      BY <1>d, <1>p DEF DataTypes
    <3> QED
      BY <1>d, <3>1, <3>2
  <2> QED
    BY <1>d, <1>0, <2>1, <2>3, <2>4, <2>5 DEF DataTypes
<1>3. /\ TypeOK' /\ Where' /\ Tokens' /\ Frames' /\ Entries' /\ Parkings'
      /\ pc'[a] = "wake" /\ \A x \in Actors \ {a} : pc'[x] = pc[x]
  <2>1. /\ pc[a] \in {"drain", "wake"} /\ "wake" \in {"drain", "wake", IF a \in Procs THEN "entries" ELSE "out"}
        /\ \A x \in Threads : linked'[x] \in {linked[x], None} /\ state'[x] \in {state[x], "READY"}
    BY <1>0
  <2> QED
    BY <1>0, <1>2, <2>1, PassMoves
<1>4. Known'
  <2>1. SuspendedIsKnown'
    <3> SUFFICES ASSUME NEW t \in Threads, pc'[t] = "suspended" PROVE SuspendedIsKnown!(t)'
      BY DEF SuspendedIsKnown
    <3>1. pc[t] = "suspended" /\ SuspendedIsKnown!(t)
      BY <1>3 DEF RegistryInv, Known, SuspendedIsKnown
    <3>2. CASE \E n \in Names : <<n, t>> \in parked
      <4>1. PICK n \in Names : <<n, t>> \in parked
        BY <3>2
      <4>2. <<n, t>> \in parked' \/ t \in q
        BY <1>0, <4>1
      <4> QED
        BY <1>d, <1>1, <4>2
    <3>3. CASE \E x \in Actors : t \in pb[x]
      <4>1. PICK x \in Actors : t \in pb[x]
        BY <3>3
      <4>2. x # a
        BY <1>0, <4>1 DEF RegistryInv, Known
      <4> QED
        BY <1>1, <4>1, <4>2
    <3>4. CASE \E c \in Cpus : spawned[c] = Owner[t] /\ pc[c] = "park"
      BY <1>0, <1>3, <3>4
    <3>5. CASE state[t] = "READY"
      BY <1>0, <3>5
    <3> QED
      BY <3>1, <3>2, <3>3, <3>4, <3>5
  <2>2. \A x \in Actors : pc'[x] # "wake" => pb'[x] = {}
    BY <1>1, <1>3 DEF RegistryInv, Known
  <2> QED
    BY <2>1, <2>2 DEF Known
<1>5. NobodyWaitsForTheRegistered'
  <2> SUFFICES ASSUME NEW t \in Threads, NEW n \in Names, Registered(n)', linked'[t] = n \/ <<n, t>> \in parked'
               PROVE  \E x \in Threads : Drains(x, n)'
    BY DEF NobodyWaitsForTheRegistered
  <2>1. Registered(n) /\ n # None
    BY <1>0, ServicesAssumption DEF Registered, Holders
  <2>2. linked[t] = n \/ <<n, t>> \in parked
    BY <1>0, <2>1
  <2>3. PICK x \in Threads : Drains(x, n)
    BY <2>1, <2>2 DEF RegistryInv, NobodyWaitsForTheRegistered
  <2>4. CASE x # a
    BY <1>0, <1>1, <1>3, <2>3, <2>4 DEF Drains
  <2>5. CASE x = a
    <3>1. name[a] = n
      BY <2>3, <2>5 DEF Drains
    <3>2. again'[a]
      <4> SUFFICES ASSUME ~again'[a] PROVE FALSE
        OBVIOUS
      <4>1. /\ b = {y \in Threads : linked[y] = name[a]}
            /\ q = {y \in Threads : a \in Threads /\ <<name[a], y>> \in parked}
        BY <1>1, <1>p DEF Again, Taken
      <4> QED
        BY <1>0, <2>1, <2>5, <3>1, <4>1
    <3> QED
      BY <1>0, <1>3, <2>5, <3>1, <3>2 DEF Drains
  <2> QED
    BY <2>4, <2>5
<1> QED
  BY <1>3, <1>4, <1>5 DEF RegistryInv

(* The passes of the others, and this one, find whom they found before.    *)
LEMMA PassNames ==
    ASSUME RegistryInv, UNCHANGED <<entries, linked, parked, name, again>>,
           \A a \in Threads : pc[a] = "drain" \/ (pc[a] = "wake" /\ again[a]) =>
               pc'[a] = "drain" \/ pc'[a] = pc[a]
    PROVE  NobodyWaitsForTheRegistered'
<1>1. \A n \in Names : Registered(n)' => Registered(n)
  BY FewerNames
<1>2. \A a \in Threads : \A n \in Names : Drains(a, n) => Drains(a, n)'
  BY DEF Drains
<1> QED
  BY <1>1, <1>2, NamesStay DEF RegistryInv

(* A waiter taken off the list is woken.                                   *)
LEMMA WakeWaiterInv ==
    ASSUME RegistryInv, NEW a \in Threads \cup Procs, WakeWaiter(a)
    PROVE  RegistryInv'
<1> USE Kinds DEF registry, life, todo, sched, batches
<1>d. DataTypes /\ pc \in [Actors -> Places] /\ a \in Actors
  BY HasDataTypes DEF RegistryInv, TypeOK
<1>p. PICK e \in wb[a] : WakeWaiter(a)!(e)
  BY DEF WakeWaiter
<1>0. /\ pc[a] = "wake" /\ pc' = [pc EXCEPT ![a] = "wake"]
      /\ UNCHANGED <<setup, registry, life, todo, op, calls, name, pb, again, spawned>>
      /\ wb' = [wb EXCEPT ![a] = wb[a] \ {e}]
      /\ state' = state \/ state' = [state EXCEPT ![e[1]] = "READY"]
  BY <1>p DEF Goto
<1>1. DataTypes' /\ \A x \in Threads : state'[x] \in {state[x], "READY"}
  <2>1. e[1] \in Threads
    BY <1>d DEF DataTypes
  <2>2. armed' \subseteq armed
    BY <1>p
  <2>3. /\ wb' \in [Actors -> SUBSET (Threads \X (1 .. MaxCalls))] /\ armed' \subseteq Threads
        /\ state' \in [Threads -> {"none", "RUNNING", "BLOCKED", "READY", "DEAD"}]
    BY <1>d, <1>0, <2>1, <2>2 DEF DataTypes
  <2> QED
    BY <1>d, <1>0, <2>1, <2>3 DEF DataTypes
<1>2. /\ TypeOK' /\ Where' /\ Tokens' /\ Frames' /\ Entries' /\ Parkings'
      /\ pc'[a] = "wake" /\ \A x \in Actors \ {a} : pc'[x] = pc[x]
  <2>1. pc[a] \in {"drain", "wake"} /\ "wake" \in {"drain", "wake", IF a \in Procs THEN "entries" ELSE "out"}
    BY <1>0
  <2> QED
    BY <1>0, <1>1, <2>1, PassMoves
<1>3. Known'
  <2>1. \A x \in Actors : pc'[x] = pc[x]
    BY <1>0, <1>2
  <2> QED
    BY <1>0, <1>1, <2>1, KnownStays DEF RegistryInv
<1>4. NobodyWaitsForTheRegistered'
  BY <1>0, <1>2, PassNames
<1> QED
  BY <1>2, <1>3, <1>4 DEF RegistryInv

(* A parked thread taken off the list is started.                          *)
LEMMA WakeParkedInv ==
    ASSUME RegistryInv, NEW a \in Threads \cup Procs, WakeParked(a)
    PROVE  RegistryInv'
<1> USE Kinds DEF registry, life, todo, sched, batches
<1>d. DataTypes /\ pc \in [Actors -> Places] /\ a \in Actors
  BY HasDataTypes DEF RegistryInv, TypeOK
<1>p. PICK t \in pb[a] : WakeParked(a)!(t)
  BY DEF WakeParked
<1>0. /\ pc[a] = "wake" /\ pc' = [pc EXCEPT ![a] = "wake"] /\ t \in Threads
      /\ UNCHANGED <<setup, registry, life, todo, armed, op, calls, name, wb, again, spawned>>
      /\ pb' = [pb EXCEPT ![a] = pb[a] \ {t}]
      /\ state' = [state EXCEPT ![t] = IF state[t] = "BLOCKED" THEN "READY" ELSE state[t]]
  BY <1>p, <1>d DEF Goto, DataTypes
<1>1. /\ DataTypes' /\ \A x \in Threads : state'[x] \in {state[x], "READY"}
      /\ state[t] = "BLOCKED" => state'[t] = "READY"
      /\ pb'[a] = pb[a] \ {t} /\ \A x \in Actors \ {a} : pb'[x] = pb[x]
  <2>1. pb' \in [Actors -> SUBSET Threads]
    BY <1>d, <1>0 DEF DataTypes
  <2>2. state' \in [Threads -> {"none", "RUNNING", "BLOCKED", "READY", "DEAD"}]
    BY <1>d, <1>0 DEF DataTypes
  <2>3. DataTypes'
    BY <1>d, <1>0, <2>1, <2>2 DEF DataTypes
  <2> QED
    BY <1>d, <1>0, <2>3 DEF DataTypes
<1>2. /\ TypeOK' /\ Where' /\ Tokens' /\ Frames' /\ Entries' /\ Parkings'
      /\ pc'[a] = "wake" /\ \A x \in Actors \ {a} : pc'[x] = pc[x]
  <2>1. pc[a] \in {"drain", "wake"} /\ "wake" \in {"drain", "wake", IF a \in Procs THEN "entries" ELSE "out"}
    BY <1>0
  <2> QED
    BY <1>0, <1>1, <2>1, PassMoves
<1>3. Known'
  <2>1. \A x \in Actors : pc'[x] = pc[x]
    BY <1>0, <1>2
  <2>2. SuspendedIsKnown'
    <3> SUFFICES ASSUME NEW x \in Threads, pc'[x] = "suspended" PROVE SuspendedIsKnown!(x)'
      BY DEF SuspendedIsKnown
    <3>1. pc[x] = "suspended" /\ SuspendedIsKnown!(x) /\ state[x] \in {"BLOCKED", "READY"}
      BY <2>1 DEF RegistryInv, Known, SuspendedIsKnown, Where, ThreadPlace
    <3>2. CASE x = t
      BY <1>1, <3>1, <3>2
    <3>3. CASE x # t
      <4>1. ASSUME NEW y \in Actors, x \in pb[y] PROVE x \in pb'[y]
        BY <1>1, <3>3, <4>1
      <4>2. state[x] = "READY" => state'[x] = "READY"
        BY <1>1
      <4> QED
        BY <1>0, <2>1, <3>1, <4>1, <4>2
    <3> QED
      BY <3>2, <3>3
  <2>3. \A x \in Actors : pc'[x] # "wake" => pb'[x] = {}
    BY <1>0, <1>1, <2>1 DEF RegistryInv, Known
  <2> QED
    BY <2>2, <2>3 DEF Known
<1>4. NobodyWaitsForTheRegistered'
  BY <1>0, <1>2, PassNames
<1> QED
  BY <1>2, <1>3, <1>4 DEF RegistryInv

(* After a full batch the lists are looked at again.                       *)
LEMMA WakeDoneInv ==
    ASSUME RegistryInv, NEW a \in Threads \cup Procs, WakeDone(a)
    PROVE  RegistryInv'
<1> USE Kinds DEF registry, life, todo, sched, batches
<1> DEFINE to == IF again[a] THEN "drain" ELSE IF a \in Procs THEN "entries" ELSE "out"
<1>0. /\ pc[a] = "wake" /\ pb[a] = {} /\ pc' = [pc EXCEPT ![a] = to]
      /\ UNCHANGED <<setup, registry, life, todo, sched, op, calls, batches, spawned>>
  BY DEF WakeDone, Goto
<1>1. DataTypes'
  BY <1>0, HasDataTypes DEF DataTypes, RegistryInv
<1>2. to \in {"drain", "wake", IF a \in Procs THEN "entries" ELSE "out"} /\ (again[a] => to = "drain")
      /\ to # "suspended"
  OBVIOUS
<1> HIDE DEF to
<1>3. /\ TypeOK' /\ Where' /\ Tokens' /\ Frames' /\ Entries' /\ Parkings'
      /\ pc'[a] = to /\ \A x \in Actors \ {a} : pc'[x] = pc[x]
  BY <1>0, <1>1, <1>2, PassMoves
<1>4. Known'
  <2>1. \A t \in Threads : pc'[t] = "suspended" => pc[t] = "suspended"
    BY <1>2, <1>3
  <2>2. \A c \in Cpus : pc'[c] = pc[c]
    BY <1>3
  <2>3. \A x \in Actors : pc[x] = "wake" => pc'[x] = "wake" \/ pb[x] = {}
    BY <1>0, <1>3
  <2> QED
    BY <1>0, <2>1, <2>2, <2>3, KnownStays DEF RegistryInv
<1>5. NobodyWaitsForTheRegistered'
  BY <1>0, <1>2, <1>3, PassNames
<1> QED
  BY <1>3, <1>4, <1>5 DEF RegistryInv

----------------------------------------------------------------------------
(* The end of a process goes on, outside a pass: nobody starts to wait, no *)
(* name appears, no role is taken.                                         *)
LEMMA EndMoves ==
    ASSUME RegistryInv, NEW p \in Procs, pc[p] \in (DyingPlaces \ {"drain", "wake"}) \cup GonePlaces,
           NEW to \in (DyingPlaces \ {"wake"}) \cup GonePlaces, pc' = [pc EXCEPT ![p] = to], DataTypes',
           UNCHANGED <<setup, linked, role, spawned, boot, op, calls, state, pb, again>>,
           \A q \in Actors \ {p} : name'[q] = name[q], to = "drain" => name'[p] # None,
           \A q \in Procs \ {p} : pstate'[q] = pstate[q],
           pstate'[p] = IF to \in DyingPlaces THEN "dying" ELSE "gone",
           parked' \subseteq parked, \A r \in parked \ parked' : Owner[r[2]] = p,
           \A i \in Slots : entries'[i].active =>
               entries[i].active /\ entries'[i].owner = entries[i].owner /\ entries'[i].name = entries[i].name
    PROVE  /\ TypeOK' /\ Where' /\ Known' /\ NobodyWaitsForTheRegistered' /\ Frames'
           /\ pc'[p] = to /\ (\A x \in Actors \ {p} : pc'[x] = pc[x])
           /\ pstate[p] \in {"dying", "gone"}
           /\ \A c \in Cpus : pc'[c] # "out" => pc[c] # "out" /\ spawned'[c] = spawned[c] /\ spawned[c] \in Procs
<1> USE Kinds DEF RegistryInv
<1>1. pc' \in [Actors -> Places] /\ pc'[p] = to /\ \A x \in Actors \ {p} : pc'[x] = pc[x]
  BY Moved DEF DyingPlaces, GonePlaces, Places
<1>2. TypeOK'
  <2>1. \A x \in Actors : pc'[x] \in {"drain", "wake"} => name'[x] # None
    BY <1>1 DEF TypeOK, GonePlaces
  <2> QED
    BY <1>1, <2>1, TypesStay
<1>s. pstate[p] \in {"dying", "gone"}
  <2>1. pstate[p] \in {"none", "alive", "dying", "gone"} /\ pstate[p] # "none" /\ pstate[p] # "alive"
    BY DEF TypeOK, Where, ProcPlace, DyingPlaces, GonePlaces
  <2> QED
    BY <2>1
<1>3. Where'
  BY <1>s, ProcMoves
<1>4. Known'
  <2>1. SuspendedIsKnown'
    <3> SUFFICES ASSUME NEW t \in Threads, pc'[t] = "suspended" PROVE SuspendedIsKnown!(t)'
      BY DEF SuspendedIsKnown
    <3>1. pc[t] = "suspended" /\ SuspendedIsKnown!(t)
      BY <1>1 DEF Known, SuspendedIsKnown
    <3>2. Owner[t] # p
      BY <1>s, <3>1 DEF Where, ThreadPlace, AlivePlaces
    <3>3. \A n \in Names : <<n, t>> \in parked => <<n, t>> \in parked'
      BY <3>2
    <3> QED
      BY <1>1, <3>1, <3>3
  <2>2. \A x \in Actors : pc'[x] # "wake" => pb'[x] = {}
    BY <1>1 DEF Known, GonePlaces
  <2> QED
    BY <2>1, <2>2 DEF Known
<1>5. NobodyWaitsForTheRegistered'
  <2>1. \A a \in Threads : \A n \in Names : Drains(a, n) => Drains(a, n)'
    BY <1>1 DEF Drains
  <2> QED
    BY <2>1, NamesStay, FewerNames
<1>6. Frames'
  BY <1>1, FramesStay
<1> QED
  BY <1>1, <1>2, <1>3, <1>4, <1>5, <1>6, <1>s DEF Where, CpuPlace

(* registry_cleanup_owner frees the parking records of the process.        *)
LEMMA UnparkInv ==
    ASSUME RegistryInv, NEW p \in Procs, Unpark(p)
    PROVE  RegistryInv'
<1> USE Kinds DEF registry, life, todo, sched, batches
<1>0. /\ pc[p] = "unpark" /\ pc' = [pc EXCEPT ![p] = "entries"] /\ parked' = {r \in parked : Owner[r[2]] # p}
      /\ UNCHANGED <<setup, entries, linked, life, todo, sched, op, calls, batches, spawned>>
  BY DEF Unpark, Goto
<1>1. DataTypes'
  BY <1>0, HasDataTypes DEF DataTypes, RegistryInv
<1>2. pstate[p] = "dying"
  BY <1>0 DEF RegistryInv, Where, ProcPlace, DyingPlaces
<1>3. /\ TypeOK' /\ Where' /\ Known' /\ NobodyWaitsForTheRegistered' /\ Frames'
      /\ pc'[p] = "entries" /\ (\A x \in Actors \ {p} : pc'[x] = pc[x])
      /\ \A c \in Cpus : pc'[c] # "out" => pc[c] # "out" /\ spawned'[c] = spawned[c] /\ spawned[c] \in Procs
  <2>1. pc[p] \in (DyingPlaces \ {"drain", "wake"}) \cup GonePlaces /\ "entries" \in DyingPlaces
    BY <1>0 DEF DyingPlaces
  <2>2. "entries" \in (DyingPlaces \ {"wake"}) \cup GonePlaces /\ "entries" # "drain"
        /\ pstate'[p] = IF "entries" \in DyingPlaces THEN "dying" ELSE "gone"
    BY <1>0, <1>2, <2>1
  <2> QED
    BY <1>0, <1>1, <2>1, <2>2, EndMoves
<1>4. Tokens'
  BY <1>0, <1>3, TokensStay DEF RegistryInv, Holds
<1>5. Entries'
  BY <1>0, <1>3, EntriesStay DEF RegistryInv, GonePlaces
<1>6. Parkings'
  <2> SUFFICES ASSUME ~setup.early
               PROVE  /\ \A c \in Cpus : pc'[c] # "out" => pstate'[spawned'[c]] = "alive"
                      /\ \A q \in Procs : pc'[q] \notin {"none", "out", "unpark"} =>
                            \A r \in parked' : Owner[r[2]] # q
    BY <1>0 DEF Parkings
  <2>1. \A c \in Cpus : pc'[c] # "out" => pstate'[spawned'[c]] = "alive"
    BY <1>0, <1>3 DEF RegistryInv, Parkings
  <2>2. ASSUME NEW q \in Procs, pc'[q] \notin {"none", "out", "unpark"}, NEW r \in parked'
        PROVE  Owner[r[2]] # q
    BY <1>0, <1>3, <2>2 DEF RegistryInv, Parkings
  <2> QED
    BY <2>1, <2>2
<1> QED
  BY <1>3, <1>4, <1>5, <1>6 DEF RegistryInv

(* It closes an entry of the process.                                      *)
LEMMA CleanEntryInv ==
    ASSUME RegistryInv, NEW p \in Procs, CleanEntry(p)
    PROVE  RegistryInv'
<1> USE Kinds DEF registry, life, todo, sched, batches
<1>d. DataTypes
  BY HasDataTypes DEF RegistryInv
<1>p. PICK i \in Slots : /\ entries[i].active /\ entries[i].owner = p /\ Goto(p, "entries", "drain")
                         /\ entries' = [entries EXCEPT ![i].active = FALSE]
                         /\ name' = [name EXCEPT ![p] = entries[i].name]
  BY DEF CleanEntry
<1>0. /\ pc[p] = "entries" /\ pc' = [pc EXCEPT ![p] = "drain"]
      /\ UNCHANGED <<setup, linked, parked, life, todo, sched, op, calls, wb, pb, again, spawned>>
  BY <1>p DEF CleanEntry, Goto
<1>e. /\ entries' \in [Slots -> [name : Names \cup {None}, owner : Procs \cup {None}, active : BOOLEAN]]
      /\ \A j \in Slots : entries'[j].active =>
            entries[j].active /\ entries'[j].owner = entries[j].owner /\ entries'[j].name = entries[j].name
  <2> DEFINE e == [entries[i] EXCEPT !.active = FALSE]
  <2>1. entries' = [entries EXCEPT ![i] = e]
    BY <1>p
  <2>2. entries[i] \in [name : Names \cup {None}, owner : Procs \cup {None}, active : BOOLEAN]
    BY <1>d DEF DataTypes
  <2>3. e \in [name : Names \cup {None}, owner : Procs \cup {None}, active : BOOLEAN] /\ e.active = FALSE
    BY <2>2, ClosedEntry, Zenon
  <2> HIDE DEF e
  <2>4. entries'[i] = e /\ \A j \in Slots \ {i} : entries'[j] = entries[j]
    BY <1>d, <2>1 DEF DataTypes
  <2> QED
    BY <1>d, <2>1, <2>3, <2>4 DEF DataTypes
<1>n. entries[i].name # None /\ name'[p] = entries[i].name /\ (\A x \in Actors \ {p} : name'[x] = name[x])
      /\ name' \in [Actors -> Names \cup {None}]
  BY <1>d, <1>p DEF RegistryInv, Entries, DataTypes
<1>1. DataTypes'
  BY <1>d, <1>0, <1>e, <1>n DEF DataTypes
<1>2. pstate[p] = "dying"
  BY <1>0 DEF RegistryInv, Where, ProcPlace, DyingPlaces
<1>3. /\ TypeOK' /\ Where' /\ Known' /\ NobodyWaitsForTheRegistered' /\ Frames'
      /\ pc'[p] = "drain" /\ (\A x \in Actors \ {p} : pc'[x] = pc[x])
      /\ \A c \in Cpus : pc'[c] # "out" => pc[c] # "out" /\ spawned'[c] = spawned[c] /\ spawned[c] \in Procs
  <2>1. pc[p] \in (DyingPlaces \ {"drain", "wake"}) \cup GonePlaces /\ "drain" \in DyingPlaces
    BY <1>0 DEF DyingPlaces
  <2>2. "drain" \in (DyingPlaces \ {"wake"}) \cup GonePlaces
        /\ pstate'[p] = IF "drain" \in DyingPlaces THEN "dying" ELSE "gone"
    BY <1>0, <1>2, <2>1
  <2> QED
    BY <1>0, <1>1, <1>e, <1>n, <2>1, <2>2, EndMoves
<1>4. Tokens'
  BY <1>0, <1>3, TokensStay DEF RegistryInv, Holds
<1>5. Entries'
  BY <1>0, <1>3, <1>e, EntriesStay DEF RegistryInv, GonePlaces
<1>6. Parkings'
  BY <1>0, <1>3, ParkingsStay DEF RegistryInv, Where, CpuPlace
<1> QED
  BY <1>3, <1>4, <1>5, <1>6 DEF RegistryInv

(* No entry of the process is left.                                        *)
LEMMA CleanDoneInv ==
    ASSUME RegistryInv, NEW p \in Procs, CleanDone(p)
    PROVE  RegistryInv'
<1> USE Kinds DEF registry, life, todo, sched, batches
<1>0. /\ pc[p] = "entries" /\ pc' = [pc EXCEPT ![p] = "unlist"]
      /\ \A i \in Slots : ~(entries[i].active /\ entries[i].owner = p)
      /\ UNCHANGED <<setup, registry, life, todo, sched, op, calls, batches, spawned>>
  BY DEF CleanDone, Goto
<1>1. DataTypes'
  BY <1>0, HasDataTypes DEF DataTypes, RegistryInv
<1>2. pstate[p] = "dying"
  BY <1>0 DEF RegistryInv, Where, ProcPlace, DyingPlaces
<1>3. /\ TypeOK' /\ Where' /\ Known' /\ NobodyWaitsForTheRegistered' /\ Frames'
      /\ pc'[p] = "unlist" /\ (\A x \in Actors \ {p} : pc'[x] = pc[x])
      /\ \A c \in Cpus : pc'[c] # "out" => pc[c] # "out" /\ spawned'[c] = spawned[c] /\ spawned[c] \in Procs
  <2>1. pc[p] \in (DyingPlaces \ {"drain", "wake"}) \cup GonePlaces /\ "unlist" \in DyingPlaces
    BY <1>0 DEF DyingPlaces
  <2>2. "unlist" \in (DyingPlaces \ {"wake"}) \cup GonePlaces /\ "unlist" # "drain"
        /\ pstate'[p] = IF "unlist" \in DyingPlaces THEN "dying" ELSE "gone"
    BY <1>0, <1>2, <2>1
  <2> QED
    BY <1>0, <1>1, <2>1, <2>2, EndMoves
<1>4. Tokens'
  BY <1>0, <1>3, TokensStay DEF RegistryInv, Holds
<1>5. Entries'
  BY <1>0, <1>3 DEF RegistryInv, Entries
<1>6. Parkings'
  BY <1>0, <1>3, ParkingsStay DEF RegistryInv, Where, CpuPlace
<1> QED
  BY <1>3, <1>4, <1>5, <1>6 DEF RegistryInv

(* The process leaves the table.                                           *)
LEMMA UnlistInv ==
    ASSUME RegistryInv, NEW p \in Procs, Unlist(p)
    PROVE  RegistryInv'
<1> USE Kinds DEF registry, life, todo, sched, batches
<1>0. /\ pc[p] = "unlist" /\ pc' = [pc EXCEPT ![p] = "respawn"] /\ pstate' = [pstate EXCEPT ![p] = "gone"]
      /\ UNCHANGED <<setup, registry, role, is_primary, clean, todo, sched, op, calls, batches, spawned>>
  BY DEF Unlist, Goto
<1>1. DataTypes' /\ pstate'[p] = "gone" /\ \A q \in Procs \ {p} : pstate'[q] = pstate[q]
  BY <1>0, HasDataTypes DEF DataTypes, RegistryInv
<1>2. pstate[p] = "dying"
  BY <1>0 DEF RegistryInv, Where, ProcPlace, DyingPlaces
<1>3. /\ TypeOK' /\ Where' /\ Known' /\ NobodyWaitsForTheRegistered' /\ Frames'
      /\ pc'[p] = "respawn" /\ (\A x \in Actors \ {p} : pc'[x] = pc[x])
      /\ \A c \in Cpus : pc'[c] # "out" => pc[c] # "out" /\ spawned'[c] = spawned[c] /\ spawned[c] \in Procs
  <2>1. pc[p] \in (DyingPlaces \ {"drain", "wake"}) \cup GonePlaces /\ "respawn" \notin DyingPlaces /\ "respawn" \in GonePlaces
    BY <1>0 DEF DyingPlaces, GonePlaces
  <2>2. "respawn" \in (DyingPlaces \ {"wake"}) \cup GonePlaces /\ "respawn" # "drain"
        /\ pstate'[p] = IF "respawn" \in DyingPlaces THEN "dying" ELSE "gone"
    BY <1>1, <2>1
  <2> QED
    BY <1>0, <1>1, <2>1, <2>2, EndMoves
<1>4. Tokens'
  BY <1>0, <1>3, TokensStay DEF RegistryInv, Holds
<1>5. Entries'
  BY <1>0, <1>3, EntriesStay DEF RegistryInv, GonePlaces
<1>6. Parkings'
  <2>1. \A q \in Procs : pstate[q] = "alive" => pstate'[q] = "alive"
    BY <1>1, <1>2
  <2> QED
    BY <1>0, <1>3, <2>1, ParkingsStay DEF RegistryInv, Where, CpuPlace
<1> QED
  BY <1>3, <1>4, <1>5, <1>6 DEF RegistryInv

(* kernel_request_respawn: the role goes over to the request.              *)
LEMMA RequestRespawnInv ==
    ASSUME RegistryInv, NEW p \in Procs, RequestRespawn(p)
    PROVE  RegistryInv'
<1> USE Kinds DEF registry, life, todo, sched, batches
<1>0. /\ pc[p] = "respawn" /\ pc' = [pc EXCEPT ![p] = "over"]
      /\ respawn_pending' \subseteq respawn_pending \cup {role[p]}
      /\ UNCHANGED <<setup, registry, life, boot, lost, cached, sched, op, calls, batches, spawned>>
  BY DEF RequestRespawn, Goto
<1>r. role[p] \in Roles
  BY <1>0 DEF RegistryInv, Where, ProcPlace
<1>1. DataTypes'
  BY <1>0, <1>r, HasDataTypes DEF DataTypes, RegistryInv
<1>3. /\ TypeOK' /\ Where' /\ Known' /\ NobodyWaitsForTheRegistered' /\ Frames'
      /\ pc'[p] = "over" /\ (\A x \in Actors \ {p} : pc'[x] = pc[x])
      /\ \A c \in Cpus : pc'[c] # "out" => pc[c] # "out" /\ spawned'[c] = spawned[c] /\ spawned[c] \in Procs
  <2>1. /\ pc[p] \in (DyingPlaces \ {"drain", "wake"}) \cup GonePlaces /\ "over" \notin DyingPlaces
        /\ "over" \in GonePlaces /\ pc[p] \notin DyingPlaces
    BY <1>0 DEF DyingPlaces, GonePlaces
  <2>2. "over" \in (DyingPlaces \ {"wake"}) \cup GonePlaces /\ "over" # "drain"
        /\ pstate'[p] = IF "over" \in DyingPlaces THEN "dying" ELSE "gone"
    <3>1. pstate[p] \in {"none", "alive", "dying", "gone"} /\ pstate[p] # "none" /\ pstate[p] # "alive" /\ pstate[p] # "dying"
      BY <1>0, <2>1 DEF RegistryInv, TypeOK, Where, ProcPlace
    <3> QED
      BY <1>0, <2>1, <3>1
  <2> QED
    BY <1>0, <1>1, <2>1, <2>2, EndMoves
<1>4. Tokens'
  <2>1. /\ Holds(p) /\ ~Holds(p)' /\ \A q \in Procs \ {p} : Holds(q)' <=> Holds(q)
    BY <1>0, <1>3 DEF Holds
  <2> QED
    BY <1>0, <2>1 DEF RegistryInv, Tokens
<1>5. Entries'
  BY <1>0, <1>3, EntriesStay DEF RegistryInv, GonePlaces
<1>6. Parkings'
  BY <1>0, <1>3, ParkingsStay DEF RegistryInv, Where, CpuPlace
<1> QED
  BY <1>3, <1>4, <1>5, <1>6 DEF RegistryInv

(* A process starts to end: its thread is in user mode, asleep or          *)
(* suspended.                                                              *)
LEMMA ExitInv ==
    ASSUME RegistryInv, NEW p \in Procs, Exit(p)
    PROVE  RegistryInv'
<1> USE Kinds DEF registry, life, todo, sched, batches
<1>d. DataTypes /\ pc \in [Actors -> Places]
  BY HasDataTypes DEF RegistryInv, TypeOK
<1>0. /\ role[p] \in setup.exits /\ pstate[p] = "alive" /\ CpuFree(CpuOf(p))
      /\ setup.early \/ \A c \in Cpus : spawned[c] # p
      /\ UNCHANGED <<registry, role, is_primary, clean, todo, op, calls, batches, spawned, setup>>
      /\ pstate' = [pstate EXCEPT ![p] = "dying"] /\ armed' \subseteq armed
      /\ state' = [t \in Threads |-> IF Owner[t] = p THEN "DEAD" ELSE state[t]]
      /\ pc' = [a \in Actors |-> IF a = p THEN "unpark"
                               ELSE IF a \in Threads /\ Owner[a] = p THEN "killed" ELSE pc[a]]
  BY DEF Exit
<1>1. /\ pc' \in [Actors -> Places] /\ pc'[p] = "unpark"
      /\ \A t \in Threads : pc'[t] = IF Owner[t] = p THEN "killed" ELSE pc[t]
      /\ \A q \in Procs \ {p} : pc'[q] = pc[q]
      /\ \A c \in Cpus : pc'[c] = pc[c]
  BY <1>0, <1>d DEF Places
<1>2. /\ DataTypes' /\ pstate'[p] = "dying" /\ \A q \in Procs \ {p} : pstate'[q] = pstate[q]
      /\ \A t \in Threads : Owner[t] # p => state'[t] = state[t]
  BY <1>0, <1>d DEF DataTypes
<1>3. \A t \in Threads : Owner[t] = p => pc[t] \notin {"drain", "wake"}
  BY <1>0 DEF CpuFree, CpuOf, InKernel
<1>4. TypeOK'
  <2>1. \A a \in Actors : pc'[a] \in {"drain", "wake"} => name'[a] # None
    BY <1>0, <1>1 DEF RegistryInv, TypeOK, Actors
  <2> QED
    BY <1>1, <1>2, <2>1, TypesStay
<1>5. Where'
  <2>1. \A t \in Threads : ThreadPlace(t)'
    <3> SUFFICES ASSUME NEW t \in Threads PROVE ThreadPlace(t)'
      OBVIOUS
    <3>1. ThreadPlace(t)
      BY DEF RegistryInv, Where
    <3>2. CASE Owner[t] = p
      BY <1>0, <1>1, <1>2, <3>1, <3>2 DEF ThreadPlace, AlivePlaces, WaitPlaces
    <3>3. CASE Owner[t] # p
      BY <1>0, <1>1, <1>2, <3>1, <3>3 DEF ThreadPlace
    <3> QED
      BY <3>2, <3>3
  <2>2. \A q \in Procs : ProcPlace(q)'
    BY <1>0, <1>1, <1>2 DEF RegistryInv, Where, ProcPlace, DyingPlaces
  <2>3. \A c \in Cpus : CpuPlace(c)'
    BY <1>0, <1>1, <1>2 DEF RegistryInv, Where, CpuPlace
  <2> QED
    BY <1>0, <2>1, <2>2, <2>3 DEF RegistryInv, Where
<1>6. Known'
  <2>1. \A t \in Threads : pc'[t] = "suspended" =>
               pc[t] = "suspended" /\ (state[t] = "READY" => state'[t] = "READY")
    BY <1>1, <1>2
  <2>2. \A a \in Actors : pc[a] = "wake" => pc'[a] = "wake" \/ pb[a] = {}
    <3>1. pc[p] # "wake"
      BY <1>0 DEF RegistryInv, Where, ProcPlace
    <3> QED
      BY <1>1, <1>3, <3>1 DEF Actors
  <2> QED
    BY <1>0, <1>1, <2>1, <2>2, KnownStays DEF RegistryInv
<1>7. NobodyWaitsForTheRegistered'
  BY <1>0, <1>1, <1>3, PassNames
<1>8. Tokens'
  <2>1. Holds(p)
    BY <1>0 DEF RegistryInv, Where, ProcPlace, Holds
  <2> QED
    BY <1>0, <1>1, <2>1, TokensStay DEF RegistryInv, Holds
<1>9. Frames'
  <2> SUFFICES ASSUME WaitersStay, NEW t \in Threads, linked[t] # None PROVE pc'[t] \in WaitPlaces
    BY <1>0 DEF Frames, WaitersStay, ListedFramesAlive
  <2>1. pc[t] \in WaitPlaces
    BY DEF RegistryInv, Frames, ListedFramesAlive
  <2>2. op[t] \in setup.ops[role[Owner[t]]] /\ op[t].call = "wait"
    BY <2>1 DEF RegistryInv, Where, ThreadPlace
  <2>3. Owner[t] # p
    BY <1>0, <2>2 DEF WaitersStay
  <2> QED
    BY <1>1, <2>1, <2>3
<1>10. Entries'
  BY <1>0, <1>1, EntriesStay DEF RegistryInv, GonePlaces
<1>11. Parkings'
  <2> SUFFICES ASSUME ~setup.early
               PROVE  /\ \A c \in Cpus : pc'[c] # "out" => pstate'[spawned[c]] = "alive"
                      /\ \A q \in Procs : pc'[q] \notin {"none", "out", "unpark"} =>
                            \A r \in parked : Owner[r[2]] # q
    BY <1>0 DEF Parkings
  <2>1. \A c \in Cpus : pc'[c] # "out" => pstate'[spawned[c]] = "alive"
    BY <1>0, <1>1, <1>2 DEF RegistryInv, Parkings, Where, CpuPlace
  <2>2. \A q \in Procs : pc'[q] \notin {"none", "out", "unpark"} => \A r \in parked : Owner[r[2]] # q
    BY <1>1 DEF RegistryInv, Parkings
  <2> QED
    BY <2>1, <2>2
<1> QED
  BY <1>4, <1>5, <1>6, <1>7, <1>8, <1>9, <1>10, <1>11 DEF RegistryInv

----------------------------------------------------------------------------
(* A process is created for a role nobody holds.                           *)
LEMMA BornInv ==
    ASSUME RegistryInv, NEW c \in Cpus, NEW r \in Roles, NEW p \in Procs, NEW need \in {Need[r], None},
           NEW next \in {"cache", "promote"}, Born(c, r, p, need, next),
           UNCHANGED <<lost, cached>>, clean' \subseteq clean \cup {p}, boot' \subseteq boot, respawn_pending' \subseteq respawn_pending,
           r \notin boot', r \notin respawn_pending', \A q \in Procs : Holds(q) => role[q] # r
    PROVE  RegistryInv'
<1> USE Kinds DEF registry, life, todo, sched, batches
<1> DEFINE t == ThreadOf(p)
<1>d. DataTypes /\ pc \in [Actors -> Places]
  BY HasDataTypes DEF RegistryInv, TypeOK
<1>0. /\ pstate[p] = "none" /\ pc[c] = "out" /\ pstate' = [pstate EXCEPT ![p] = "alive"]
      /\ role' = [role EXCEPT ![p] = r] /\ spawned' = [spawned EXCEPT ![c] = p]
      /\ state' = [state EXCEPT ![t] = IF need = None THEN "RUNNING" ELSE "BLOCKED"]
      /\ pc' = [pc EXCEPT ![c] = IF need = None THEN next ELSE "park",
                          ![t] = IF need = None THEN "out" ELSE "suspended", ![p] = "out"]
      /\ UNCHANGED <<registry, is_primary, armed, op, calls, batches, setup>>
  BY DEF Born
<1>t. t \in Threads /\ Owner[t] = p /\ (\A x \in Threads \ {t} : Owner[x] # p) /\ pc[t] = "none" /\ pc[p] = "none"
  <2>1. t \in Threads /\ Owner[t] = p
    OBVIOUS
  <2>2. \A x \in Threads \ {t} : Owner[x] # p
    BY <2>1, ServicesAssumption
  <2> HIDE DEF t
  <2> QED
    BY <1>0, <2>1, <2>2 DEF RegistryInv, Where, ThreadPlace, ProcPlace
<1> HIDE DEF t
<1>n. need \in Names \cup {None} /\ (need # None => need = Need[r])
  BY ServicesAssumption
<1>1. /\ pc' \in [Actors -> Places] /\ pc'[p] = "out"
      /\ pc'[c] = (IF need = None THEN next ELSE "park")
      /\ pc'[t] = (IF need = None THEN "out" ELSE "suspended")
      /\ \A x \in Actors \ {c, t, p} : pc'[x] = pc[x]
  BY <1>d, <1>0, <1>t DEF Places
<1>2. /\ DataTypes' /\ pstate'[p] = "alive" /\ role'[p] = r /\ spawned'[c] = p
      /\ \A q \in Procs \ {p} : pstate'[q] = pstate[q] /\ role'[q] = role[q]
      /\ \A x \in Cpus \ {c} : spawned'[x] = spawned[x]
      /\ state'[t] = (IF need = None THEN "RUNNING" ELSE "BLOCKED")
      /\ \A x \in Threads \ {t} : state'[x] = state[x]
  <2>1. /\ pstate' \in [Procs -> {"none", "alive", "dying", "gone"}]
        /\ role' \in [Procs -> Roles \cup {None}] /\ spawned' \in [Cpus -> Procs \cup {None}]
        /\ state' \in [Threads -> {"none", "RUNNING", "BLOCKED", "READY", "DEAD"}]
    BY <1>d, <1>0, <1>t DEF DataTypes
  <2>2. DataTypes'
    BY <1>d, <1>0, <2>1 DEF DataTypes
  <2> QED
    BY <1>d, <1>0, <1>t, <2>2 DEF DataTypes
<1>3. TypeOK'
  <2>1. \A a \in Actors : pc'[a] \in {"drain", "wake"} => name'[a] # None
    BY SMTT(30), <1>0, <1>1 DEF RegistryInv, TypeOK
  <2> QED
    BY <1>1, <1>2, <2>1, TypesStay
<1>4. Where'
  <2>1. \A x \in Threads : ThreadPlace(x)'
    <3> SUFFICES ASSUME NEW x \in Threads PROVE ThreadPlace(x)'
      OBVIOUS
    <3>1. ThreadPlace(x)
      BY DEF RegistryInv, Where
    <3>2. CASE x = t
      BY <1>0, <1>1, <1>2, <1>t, <3>1, <3>2 DEF ThreadPlace, AlivePlaces, WaitPlaces
    <3>3. CASE x # t
      <4>1. pc'[x] = pc[x] /\ state'[x] = state[x] /\ pstate'[Owner[x]] = pstate[Owner[x]] /\ role'[Owner[x]] = role[Owner[x]]
        BY <1>1, <1>2, <1>t, <3>3
      <4> QED
        BY <1>0, <3>1, <4>1 DEF ThreadPlace
    <3> QED
      BY <3>2, <3>3
  <2>2. \A q \in Procs : ProcPlace(q)'
    <3>1. ProcPlace(p)'
      BY <1>1, <1>2 DEF ProcPlace, DyingPlaces
    <3>2. \A q \in Procs \ {p} : ProcPlace(q)'
      BY <1>1, <1>2, <1>t DEF RegistryInv, Where, ProcPlace
    <3> QED
      BY <3>1, <3>2
  <2>3. \A x \in Cpus : CpuPlace(x)'
    <3>1. CpuPlace(c)'
      BY <1>1, <1>2, <1>n DEF CpuPlace
    <3>2. ASSUME NEW x \in Cpus \ {c} PROVE CpuPlace(x)'
      <4>1. CpuPlace(x) /\ pc'[x] = pc[x] /\ spawned'[x] = spawned[x]
        BY <1>1, <1>2, <1>t, <3>2 DEF RegistryInv, Where
      <4>2. pc[x] # "out" => spawned[x] \in Procs \ {p}
        BY <1>0, <4>1 DEF CpuPlace
      <4> QED
        BY <1>2, <4>1, <4>2 DEF CpuPlace
    <3> QED
      BY <3>1, <3>2
  <2> QED
    BY <1>0, <2>1, <2>2, <2>3 DEF RegistryInv, Where
<1>5. Known'
  <2>1. SuspendedIsKnown'
    <3> SUFFICES ASSUME NEW x \in Threads, pc'[x] = "suspended" PROVE SuspendedIsKnown!(x)'
      BY DEF SuspendedIsKnown
    <3>1. CASE x = t
      BY <1>1, <1>2, <1>t, <3>1
    <3>2. CASE x # t
      <4>1. pc[x] = "suspended" /\ SuspendedIsKnown!(x) /\ state'[x] = state[x]
        BY <1>1, <1>2, <3>2 DEF RegistryInv, Known, SuspendedIsKnown
      <4>2. \A y \in Cpus : pc[y] = "park" => pc'[y] = "park" /\ spawned'[y] = spawned[y]
        BY <1>0, <1>1, <1>2, <1>t
      <4> QED
        BY ZenonT(40), <1>0, <4>1, <4>2
    <3> QED
      BY <3>1, <3>2
  <2>2. \A a \in Actors : pc'[a] # "wake" => pb'[a] = {}
    BY <1>0, <1>1, <1>t DEF RegistryInv, Known
  <2> QED
    BY <2>1, <2>2 DEF Known
<1>6. NobodyWaitsForTheRegistered'
  <2>1. \A a \in Threads : pc[a] \in {"drain", "wake"} => pc'[a] = pc[a]
    BY <1>1, <1>t
  <2> QED
    BY <1>0, <2>1, PassNames
<1>7. Tokens'
  <2>1. /\ ~Holds(p) /\ Holds(p)' /\ \A q \in Procs \ {p} : (Holds(q)' <=> Holds(q)) /\ role'[q] = role[q]
    BY <1>1, <1>2, <1>t DEF Holds
  <2> QED
    BY <1>2, <2>1 DEF RegistryInv, Tokens
<1>8. Frames'
  BY <1>0, <1>1, <1>t, FramesStay DEF RegistryInv, WaitPlaces
<1>9. Entries'
  BY <1>0, <1>1, EntriesStay DEF RegistryInv, GonePlaces
<1>10. Parkings'
  <2> SUFFICES ASSUME ~setup.early
               PROVE  /\ \A x \in Cpus : pc'[x] # "out" => pstate'[spawned'[x]] = "alive"
                      /\ \A q \in Procs : pc'[q] \notin {"none", "out", "unpark"} =>
                            \A e \in parked : Owner[e[2]] # q
    BY <1>0 DEF Parkings
  <2>1. ASSUME NEW x \in Cpus, pc'[x] # "out" PROVE pstate'[spawned'[x]] = "alive"
    <3>1. CASE x = c
      BY <1>2, <3>1
    <3>2. CASE x # c
      <4>1. pc[x] # "out" /\ spawned'[x] = spawned[x] /\ spawned[x] \in Procs /\ pstate[spawned[x]] = "alive"
        BY <1>1, <1>2, <1>t, <2>1, <3>2 DEF RegistryInv, Where, CpuPlace, Parkings
      <4> QED
        BY <1>0, <1>2, <4>1
    <3> QED
      BY <3>1, <3>2
  <2>2. \A q \in Procs : pc'[q] \notin {"none", "out", "unpark"} => \A e \in parked : Owner[e[2]] # q
    BY <1>1, <1>t DEF RegistryInv, Parkings
  <2> QED
    BY <2>1, <2>2
<1> QED
  BY <1>3, <1>4, <1>5, <1>6, <1>7, <1>8, <1>9, <1>10 DEF RegistryInv

(* spawn_module_blob: a module boots once.                                 *)
LEMMA SpawnAtBootInv ==
    ASSUME RegistryInv, NEW c \in Cpus, SpawnAtBoot(c)
    PROVE  RegistryInv'
<1>1. PICK r \in boot, p \in Procs :
        /\ boot' = boot \ {r} /\ Born(c, r, p, Need[r], AfterSpawn(r))
        /\ clean' \subseteq clean \cup {p} /\ UNCHANGED <<respawn_pending, lost, cached>>
  BY DEF SpawnAtBoot
<1>2. r \in Roles /\ Need[r] \in {Need[r], None} /\ AfterSpawn(r) \in {"cache", "promote"}
  BY DEF RegistryInv, TypeOK, AfterSpawn
<1>3. r \notin respawn_pending /\ \A q \in Procs : role[q] # r
  BY DEF RegistryInv, Tokens
<1> QED
  BY <1>1, <1>2, <1>3, BornInv

(* kernel_run_pending_respawns: the request is taken back and granted.     *)
LEMMA RespawnInv ==
    ASSUME RegistryInv, NEW c \in Cpus, Respawn(c)
    PROVE  RegistryInv'
<1>1. PICK r \in respawn_pending, p \in Procs :
        /\ respawn_pending' = respawn_pending \ {r} /\ Born(c, r, p, None, "promote")
        /\ clean' \subseteq clean \cup {p} /\ UNCHANGED <<boot, lost, cached>>
  BY DEF Respawn
<1>2. r \in Roles
  BY DEF RegistryInv, TypeOK
<1>3. r \notin boot /\ \A q \in Procs : Holds(q) => role[q] # r
  BY DEF RegistryInv, Tokens
<1> QED
  BY <1>1, <1>2, <1>3, BornInv

(* A kernel thread's step with a process it has spawned, or without one.   *)
LEMMA KernelMoves ==
    ASSUME RegistryInv, NEW c \in Cpus, NEW to \in {"out", "cache", "promote"}, pc' = [pc EXCEPT ![c] = to], DataTypes',
           UNCHANGED <<setup, entries, linked, role, op, calls, pstate, name, pb, again>>,
           boot' \subseteq boot, respawn_pending' \subseteq respawn_pending,
           \A x \in Cpus \ {c} : spawned'[x] = spawned[x],
           to # "out" => spawned'[c] = spawned[c] /\ pc[c] # "out",
           \A x \in Threads : state'[x] \in {state[x], "READY"}
    PROVE  /\ TypeOK' /\ Where' /\ Tokens' /\ Frames' /\ Entries'
           /\ pc'[c] = to /\ \A x \in Actors \ {c} : pc'[x] = pc[x]
<1> USE Kinds DEF RegistryInv
<1>1. pc' \in [Actors -> Places] /\ pc'[c] = to /\ \A x \in Actors \ {c} : pc'[x] = pc[x]
  BY Moved DEF Places
<1>2. TypeOK'
  <2>1. \A x \in Actors : pc'[x] \in {"drain", "wake"} => name'[x] # None
    BY <1>1 DEF TypeOK
  <2> QED
    BY <1>1, <2>1, TypesStay
<1>3. Where'
  BY CpuMoves
<1>4. Tokens'
  BY <1>1, TokensStay DEF Holds
<1>5. Frames'
  BY <1>1, FramesStay
<1>6. Entries'
  BY <1>1, EntriesStay
<1> QED
  BY <1>1, <1>2, <1>3, <1>4, <1>5, <1>6

(* A module that is not loaded at boot leaves a role nobody holds.         *)
LEMMA BootFailsInv ==
    ASSUME RegistryInv, NEW c \in Cpus, BootFails(c)
    PROVE  RegistryInv'
<1> USE Kinds DEF registry, life, todo, sched, batches
<1>0. /\ pc[c] = "out" /\ pc' = [pc EXCEPT ![c] = "out"]
      /\ \E r \in boot : boot' = boot \ {r}
      /\ UNCHANGED <<setup, registry, life, respawn_pending, lost, cached, sched, op, calls, batches, spawned>>
  BY DEF BootFails, Goto
<1>1. DataTypes' /\ boot' \subseteq boot
  BY <1>0, HasDataTypes DEF DataTypes, RegistryInv
<1>2. /\ TypeOK' /\ Where' /\ Tokens' /\ Frames' /\ Entries'
      /\ pc'[c] = "out" /\ \A x \in Actors \ {c} : pc'[x] = pc[x]
  BY <1>0, <1>1, KernelMoves
<1>3. Known'
  BY <1>0, <1>2, KnownStays DEF RegistryInv
<1>4. NobodyWaitsForTheRegistered'
  BY <1>0, <1>2, PassNames
<1>5. Parkings'
  BY <1>0, <1>2, ParkingsStay DEF RegistryInv, Where, CpuPlace
<1> QED
  BY <1>2, <1>3, <1>4, <1>5 DEF RegistryInv

(* A respawn that fails leaves a role nobody holds.                        *)
LEMMA RespawnFailsInv ==
    ASSUME RegistryInv, NEW c \in Cpus, RespawnFails(c)
    PROVE  RegistryInv'
<1> USE Kinds DEF registry, life, todo, sched, batches
<1>0. /\ pc[c] = "out" /\ pc' = [pc EXCEPT ![c] = "out"]
      /\ \E r \in respawn_pending : respawn_pending' = respawn_pending \ {r} /\ lost' = lost \cup {r}
      /\ UNCHANGED <<setup, registry, life, boot, cached, sched, op, calls, batches, spawned>>
  BY DEF RespawnFails, Goto
<1>1. DataTypes' /\ respawn_pending' \subseteq respawn_pending
  BY <1>0, HasDataTypes DEF DataTypes, RegistryInv
<1>2. /\ TypeOK' /\ Where' /\ Tokens' /\ Frames' /\ Entries'
      /\ pc'[c] = "out" /\ \A x \in Actors \ {c} : pc'[x] = pc[x]
  BY <1>0, <1>1, KernelMoves
<1>3. Known'
  BY <1>0, <1>2, KnownStays DEF RegistryInv
<1>4. NobodyWaitsForTheRegistered'
  BY <1>0, <1>2, PassNames
<1>5. Parkings'
  BY <1>0, <1>2, ParkingsStay DEF RegistryInv, Where, CpuPlace
<1> QED
  BY <1>2, <1>3, <1>4, <1>5 DEF RegistryInv

(* registry_park_or_start: the name is looked for and the record put on    *)
(* the list in one section.                                                *)
LEMMA ParkInv ==
    ASSUME RegistryInv, NEW c \in Cpus, Park(c)
    PROVE  RegistryInv'
<1> USE Kinds DEF registry, life, todo, sched, batches
<1> DEFINE p == spawned[c] t == ThreadOf(p) n == Need[role[p]]
<1>d. DataTypes
  BY HasDataTypes DEF RegistryInv
<1>0. /\ pc[c] = "park" /\ pc' = [pc EXCEPT ![c] = AfterSpawn(role[p])]
      /\ AfterSpawn(role[p]) \in {"cache", "promote"}
      /\ \/ /\ state' = [state EXCEPT ![t] = IF state[t] = "BLOCKED" THEN "READY" ELSE state[t]]
            /\ UNCHANGED parked
         \/ ~Registered(n) /\ parked' = parked \cup {<<n, t>>} /\ UNCHANGED state
      /\ UNCHANGED <<setup, entries, linked, life, todo, armed, op, calls, batches, spawned>>
  BY DEF Park, Goto, AfterSpawn
<1>t. p \in Procs /\ t \in Threads /\ Owner[t] = p /\ n \in Names
  BY <1>0 DEF RegistryInv, Where, CpuPlace
<1> HIDE DEF p, t, n
<1>1. /\ DataTypes' /\ \A x \in Threads : state'[x] \in {state[x], "READY"}
      /\ parked \subseteq parked'
      /\ state[t] = "BLOCKED" => state'[t] = "READY" \/ <<n, t>> \in parked'
  <2>1. state' \in [Threads -> {"none", "RUNNING", "BLOCKED", "READY", "DEAD"}] /\ parked' \subseteq Names \X Threads
    BY SMTT(30), <1>d, <1>0, <1>t DEF DataTypes
  <2>2. DataTypes'
    BY <1>d, <1>0, <2>1 DEF DataTypes
  <2> QED
    BY <1>d, <1>0, <1>t, <2>2 DEF DataTypes
<1>2. /\ TypeOK' /\ Where' /\ Tokens' /\ Frames' /\ Entries'
      /\ pc'[c] \in {"cache", "promote"} /\ \A x \in Actors \ {c} : pc'[x] = pc[x]
  BY <1>0, <1>1, KernelMoves
<1>3. Known'
  <2>1. SuspendedIsKnown'
    <3> SUFFICES ASSUME NEW x \in Threads, pc'[x] = "suspended" PROVE SuspendedIsKnown!(x)'
      BY DEF SuspendedIsKnown
    <3>1. pc[x] = "suspended" /\ SuspendedIsKnown!(x) /\ state[x] \in {"BLOCKED", "READY"}
      BY <1>2 DEF RegistryInv, Known, SuspendedIsKnown, Where, ThreadPlace
    <3>2. state[x] = "READY" => state'[x] = "READY"
      BY <1>1
    <3>3. CASE x = t
      BY <1>1, <1>t, <3>1, <3>2, <3>3
    <3>4. CASE x # t
      <4>1. Owner[x] # p
        BY <1>t, <3>4, ServicesAssumption
      <4>2. \A y \in Cpus : spawned[y] = Owner[x] /\ pc[y] = "park" => pc'[y] = "park" /\ spawned'[y] = spawned[y]
        BY <1>0, <1>2, <4>1 DEF p
      <4> QED
        BY <1>0, <1>1, <3>1, <3>2, <4>2
    <3> QED
      BY <3>3, <3>4
  <2>2. \A a \in Actors : pc'[a] # "wake" => pb'[a] = {}
    BY <1>0, <1>2 DEF RegistryInv, Known
  <2> QED
    BY <2>1, <2>2 DEF Known
<1>4. NobodyWaitsForTheRegistered'
  <2> SUFFICES ASSUME NEW x \in Threads, NEW m \in Names, Registered(m)', linked'[x] = m \/ <<m, x>> \in parked'
               PROVE  \E a \in Threads : Drains(a, m)'
    BY DEF NobodyWaitsForTheRegistered
  <2>1. Registered(m)
    BY <1>0 DEF Registered, Holders
  <2>2. linked[x] = m \/ <<m, x>> \in parked
    BY <1>0, <2>1
  <2>3. PICK a \in Threads : Drains(a, m)
    BY <2>1, <2>2 DEF RegistryInv, NobodyWaitsForTheRegistered
  <2> QED
    BY <1>0, <1>2, <2>3 DEF Drains
<1>5. Parkings'
  <2> SUFFICES ASSUME ~setup.early
               PROVE  /\ \A x \in Cpus : pc'[x] # "out" => pstate'[spawned'[x]] = "alive"
                      /\ \A q \in Procs : pc'[q] \notin {"none", "out", "unpark"} =>
                            \A e \in parked' : Owner[e[2]] # q
    BY <1>0 DEF Parkings
  <2>1. \A x \in Cpus : pc'[x] # "out" => pstate'[spawned'[x]] = "alive"
    BY <1>0, <1>2 DEF RegistryInv, Parkings
  <2>2. pc[p] = "out"
    BY <1>0, <1>t DEF RegistryInv, Parkings, Where, ProcPlace, p
  <2>3. ASSUME NEW q \in Procs, pc'[q] \notin {"none", "out", "unpark"}, NEW e \in parked'
        PROVE  Owner[e[2]] # q
    <3>1. q # p /\ pc[q] = pc'[q]
      BY <1>2, <1>t, <2>2, <2>3
    <3> QED
      BY <1>0, <1>t, <2>3, <3>1 DEF RegistryInv, Parkings
  <2> QED
    BY <2>1, <2>3
<1> QED
  BY <1>2, <1>3, <1>4, <1>5 DEF RegistryInv

(* primary_cache_store: a slot is taken or not, the module is spawned.     *)
LEMMA CacheStoreInv ==
    ASSUME RegistryInv, NEW c \in Cpus, CacheStore(c)
    PROVE  RegistryInv'
<1> USE Kinds DEF registry, life, todo, sched, batches
<1>0. /\ pc[c] = "cache" /\ pc' = [pc EXCEPT ![c] = "promote"]
      /\ cached' \subseteq cached \cup {role[spawned[c]]}
      /\ UNCHANGED <<setup, registry, life, boot, respawn_pending, lost, sched, op, calls, batches, spawned>>
  BY DEF CacheStore, Goto
<1>r. spawned[c] \in Procs /\ role[spawned[c]] \in Roles
  BY <1>0 DEF RegistryInv, Where, CpuPlace, ProcPlace
<1>1. DataTypes'
  BY <1>0, <1>r, HasDataTypes DEF DataTypes, RegistryInv
<1>2. /\ TypeOK' /\ Where' /\ Tokens' /\ Frames' /\ Entries'
      /\ pc'[c] = "promote" /\ \A x \in Actors \ {c} : pc'[x] = pc[x]
  BY <1>0, <1>1, KernelMoves
<1>3. Known'
  BY <1>0, <1>2, KnownStays DEF RegistryInv
<1>4. NobodyWaitsForTheRegistered'
  BY <1>0, <1>2, PassNames
<1>5. Parkings'
  BY <1>0, <1>2, ParkingsStay DEF RegistryInv, Where, CpuPlace
<1> QED
  BY <1>2, <1>3, <1>4, <1>5 DEF RegistryInv

(* A spawned process that must come back is marked.                        *)
LEMMA PromoteInv ==
    ASSUME RegistryInv, NEW c \in Cpus, Promote(c)
    PROVE  RegistryInv'
<1> USE Kinds DEF registry, life, todo, sched, batches
<1>d. DataTypes /\ (pc[c] = "promote" => spawned[c] \in Procs)
  BY HasDataTypes DEF RegistryInv, Where, CpuPlace
<1>0. /\ pc[c] = "promote" /\ pc' = [pc EXCEPT ![c] = "out"] /\ spawned' = [spawned EXCEPT ![c] = None]
      /\ is_primary' \subseteq is_primary \cup {spawned[c]}
      /\ UNCHANGED <<setup, registry, pstate, role, clean, todo, sched, op, calls, batches>>
  BY DEF Promote, Goto
<1>1. DataTypes' /\ \A x \in Cpus \ {c} : spawned'[x] = spawned[x]
  BY <1>d, <1>0 DEF DataTypes
<1>2. /\ TypeOK' /\ Where' /\ Tokens' /\ Frames' /\ Entries'
      /\ pc'[c] = "out" /\ \A x \in Actors \ {c} : pc'[x] = pc[x]
  BY <1>0, <1>1, KernelMoves
<1>3. Known'
  BY <1>0, <1>1, <1>2, KnownStays DEF RegistryInv
<1>4. NobodyWaitsForTheRegistered'
  BY <1>0, <1>2, PassNames
<1>5. Parkings'
  <2>1. \A x \in Cpus : pc'[x] # "out" => pc[x] # "out" /\ spawned'[x] = spawned[x]
    BY <1>1, <1>2
  <2> QED
    BY <1>0, <1>2, <2>1, ParkingsStay DEF RegistryInv, Where, CpuPlace
<1> QED
  BY <1>2, <1>3, <1>4, <1>5 DEF RegistryInv

----------------------------------------------------------------------------
(* Every step keeps the registry and its users in order.                   *)
LEMMA NextInv == RegistryInv /\ Next => RegistryInv'
<1> SUFFICES ASSUME RegistryInv, Next PROVE RegistryInv'
  OBVIOUS
<1>1. ASSUME NEW a \in Threads \cup Procs, PassStep(a) PROVE RegistryInv'
  BY <1>1, DrainInv, WakeWaiterInv, WakeParkedInv, WakeDoneInv DEF PassStep
<1>2. ASSUME NEW t \in Threads, Step(t) PROVE RegistryInv'
  BY <1>1, <1>2, LookupInv, DispatchInv, LookAgainInv, InstallInv, UnregisterInv, StartInv DEF Step
<1>3. ASSUME NEW t \in Threads, TimerFire(t) PROVE RegistryInv'
  BY <1>3, TimerFireInv
<1>4. ASSUME NEW t \in Threads, NEW o \in setup.ops[role[Owner[t]]], Call(t, o) PROVE RegistryInv'
  BY <1>4, CallInv
<1>5. ASSUME NEW p \in Procs, Exit(p) \/ EndStep(p) PROVE RegistryInv'
  BY <1>1, <1>5, ExitInv, UnparkInv, CleanEntryInv, CleanDoneInv, UnlistInv, RequestRespawnInv DEF EndStep
<1>6. ASSUME NEW c \in Cpus, KernelStep(c) PROVE RegistryInv'
  BY <1>6, SpawnAtBootInv, BootFailsInv, RespawnInv, RespawnFailsInv, ParkInv, CacheStoreInv, PromoteInv DEF KernelStep
<1> QED
  BY <1>2, <1>3, <1>4, <1>5, <1>6 DEF Next

(* The inductive invariant holds always.                                   *)
LEMMA AlwaysRegistryInv == Spec => []RegistryInv
<1>1. RegistryInv /\ [Next]_vars => RegistryInv'
  BY NextInv, StutterInv
<1> QED
  BY InitInv, <1>1, PTL DEF Spec

(* A service runs once: between boot, respawn requests and the ends of     *)
(* processes, a role is never given to two living processes, although the  *)
(* idle threads of all CPUs look for requests and a primary may end before *)
(* it is marked as one.                                                    *)
THEOREM RolesRunOnce == Spec => []OneOfARole
<1>1. RegistryInv => OneOfARole
  <2> SUFFICES ASSUME RegistryInv, NEW p \in Procs, NEW q \in Procs, p # q, role[p] = role[q],
                      pstate[p] = "alive", pstate[q] = "alive"
               PROVE  FALSE
    BY DEF OneOfARole
  <2>1. Holds(p) /\ Holds(q)
    BY DEF RegistryInv, Where, ProcPlace, Holds
  <2> QED
    BY <2>1 DEF RegistryInv, Tokens
<1> QED
  BY <1>1, AlwaysRegistryInv, PTL

(* Nobody waits for a name that is there: whoever sleeps in registry_wait  *)
(* or is parked by needs: on a registered name is about to be found by the *)
(* pass of a registration, for any batch sizes and any number of waiters.  *)
THEOREM WaitersAreFound == Spec => []NobodyWaitsForTheRegistered
<1>1. RegistryInv => NobodyWaitsForTheRegistered
  BY DEF RegistryInv
<1> QED
  BY <1>1, AlwaysRegistryInv, PTL

(* A thread created suspended is always known to somebody who can start    *)
(* it: its spawner, the list of parked threads or a pass that has taken it *)
(* off, also when its process or the service it needs ends meanwhile.      *)
THEOREM SuspendedStaysKnown == Spec => [](TypeOK /\ SuspendedIsKnown)
<1>1. RegistryInv => TypeOK /\ SuspendedIsKnown
  BY DEF RegistryInv, Known
<1> QED
  BY <1>1, AlwaysRegistryInv, PTL

(* What the dead leave: if processes that may end never wait for a name    *)
(* and are not ended while they are being spawned, every listed record is  *)
(* on the stack of a wait in progress and a process that is gone owns no   *)
(* entry and no parking record.                                            *)
THEOREM TheDeadOwnNothing == Spec => [](WaitersStay /\ ~setup.early => ServiceInv)
<1>1. RegistryInv => (WaitersStay /\ ~setup.early => ServiceInv)
  <2> SUFFICES ASSUME RegistryInv, WaitersStay, ~setup.early PROVE ServiceInv
    OBVIOUS
  <2>1. TypeOK /\ ListedFramesAlive /\ SuspendedIsKnown
    BY DEF RegistryInv, Frames, Known
  <2>2. GoneOwnNothing
    <3> SUFFICES ASSUME NEW p \in Procs, pstate[p] = "gone"
                 PROVE  /\ \A i \in Slots : entries[i].active => entries[i].owner # p
                        /\ \A r \in parked : Owner[r[2]] # p
      BY DEF GoneOwnNothing
    <3>1. pc[p] \in GonePlaces
      BY DEF RegistryInv, Where, ProcPlace
    <3> QED
      BY <3>1 DEF RegistryInv, Entries, Parkings, GonePlaces
  <2> QED
    BY <2>1, <2>2 DEF ServiceInv
<1> QED
  BY <1>1, AlwaysRegistryInv, PTL

=============================================================================
