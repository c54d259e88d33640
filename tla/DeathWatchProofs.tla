-------------------------- MODULE DeathWatchProofs --------------------------
(***************************************************************************)
(* Proofs about DeathWatch, for any processes, ids, table, batch and queue *)
(* sizes.                                                                  *)
(***************************************************************************)
EXTENDS DeathWatch, SeqFacts

(* A live port has a generation; a watch that is being registered is the   *)
(* caller's own, of an incarnation there has been.                         *)
Calls ==
    /\ \A i \in Ids : owner[i] # None => generation[i] # 0
    /\ \A p \in Procs : pc[p] \in {"w_gen", "w_add"} => call[p] # None
    /\ \A p \in Procs : call[p] # None =>
          call[p].pid = p /\ call[p].gen <= generation[call[p].target]

(* A process that fires destroys an id nobody owns and nobody else         *)
(* destroys; it holds notices exactly while it posts.                      *)
Destroys ==
    /\ \A p \in Procs : dying[p] # None <=> pc[p] \in {"fire", "post"}
    /\ \A p \in Procs : batch[p] # <<>> <=> pc[p] = "post"
    /\ \A p \in Procs : dying[p] # None => owner[dying[p].id] = None
    /\ \A p, q \in Procs : dying[p] # None /\ dying[q] # None /\ dying[p].id = dying[q].id => p = q

(* The table holds watches of incarnations there have been, each once, and *)
(* none of a dead process.                                                 *)
Table ==
    /\ \A s \in Used : s_dw[s].gen <= generation[s_dw[s].target]
    /\ NoWatchTwice /\ DeadProcessWatchesNothing

(* A notice on its way speaks of an incarnation that is over.              *)
Over(n) == n.gen <= generation[n.target] /\ Dead(n.target, n.gen)
Notices ==
    /\ \A i \in Ids : \A k \in DOMAIN inbox[i] : Over(inbox[i][k])
    /\ \A p \in Procs : \A k \in DOMAIN batch[p] : Over(batch[p][k])

(* A watch due to a destroy is posted, collected, or still in the table    *)
(* and the destroy will look again; or its watcher is dead.                *)
Accounted(p, e) ==
    \/ e \in posted \/ pc[e.pid] = "dead"
    \/ \E k \in DOMAIN batch[p] : batch[p][k] = e
    \/ (pc[p] = "fire" \/ more[p]) /\ \E s \in Slots : s_dw[s] = e
Dues ==
    \A p \in Procs : dying[p] # None => \A e \in due[p] :
        e.target = dying[p].id /\ e.gen = dying[p].gen /\ Accounted(p, e)

TableInv == TypeOK /\ Calls /\ Destroys /\ Table /\ Notices /\ Dues

----------------------------------------------------------------------------
(* Nothing is watched and nothing is fired at first.                       *)
LEMMA InitInv == Init => TableInv
<1> SUFFICES ASSUME Init PROVE TableInv
  OBVIOUS
<1> USE WatchAssumption DEF Init
<1>1. TypeOK
  <2>1. <<>> \in Seq(Entries) /\ Len(<<>>) = 0
    OBVIOUS
  <2> QED
    BY <2>1 DEF TypeOK, Places, Slots
<1>2. Used = {}
  BY DEF Used
<1>3. \A i \in Ids : inbox[i] = <<>> /\ DOMAIN inbox[i] = {}
  OBVIOUS
<1>4. \A p \in Procs : batch[p] = <<>> /\ DOMAIN batch[p] = {}
  OBVIOUS
<1>5. Calls /\ Destroys /\ Dues
  BY <1>4 DEF Calls, Destroys, Dues
<1>6. Table
  BY <1>2 DEF Table, NoWatchTwice, DeadProcessWatchesNothing
<1>7. Notices
  BY <1>3, <1>4 DEF Notices
<1> QED
  BY <1>1, <1>5, <1>6, <1>7 DEF TableInv

(* A stuttering step keeps the invariant.                                  *)
LEMMA StutterInv == TableInv /\ UNCHANGED vars => TableInv'
BY DEF TableInv, TypeOK, Calls, Destroys, Table, Used, NoWatchTwice, DeadProcessWatchesNothing,
   Notices, Over, Dead, Dues, Accounted, vars, ports, firing

(* What is due to a destroy stays accounted for while the table only       *)
(* grows, nobody comes back from the dead and the destroy does not move.   *)
LEMMA DuesStay ==
    ASSUME TableInv, dying' = dying, due' = due, batch' = batch, more' = more, posted' = posted,
           \A s \in Slots : s_dw[s] # None => s_dw'[s] = s_dw[s],
           \A q \in Procs : pc[q] \in {"dead", "fire"} => pc'[q] = pc[q]
    PROVE  Dues'
<1> SUFFICES ASSUME NEW q \in Procs, dying[q] # None, NEW e \in due[q]
             PROVE  e.target = dying[q].id /\ e.gen = dying[q].gen /\ Accounted(q, e)'
  BY DEF Dues
<1>1. e \in Entries /\ e # None /\ e.pid \in Procs
  BY WatchAssumption DEF TableInv, TypeOK, Entries
<1>2. e.target = dying[q].id /\ e.gen = dying[q].gen /\ Accounted(q, e)
  BY DEF TableInv, Dues
<1>3. Accounted(q, e)'
  BY <1>1, <1>2 DEF Accounted
<1> QED
  BY <1>2, <1>3

(* ipc_port_create: the id comes back with a generation never seen.        *)
LEMMA CreateInv ==
    ASSUME TableInv, NEW p \in Procs, NEW i \in Ids, Create(p, i)
    PROVE  TableInv'
<1> USE WatchAssumption DEF Create, firing
<1>1. TypeOK'
  BY DEF TableInv, TypeOK, Places, Slots, Gens, Calls, Destroys
<1>2. Calls'
  BY DEF TableInv, TypeOK, Calls, Entries, Gens
<1>3. Destroys'
  BY DEF TableInv, TypeOK, Destroys
<1>4. Table'
  BY DEF TableInv, TypeOK, Table, Used, NoWatchTwice, DeadProcessWatchesNothing, SameWatch, Entries, Gens, Slots
<1>5. Notices'
  <2>1. ASSUME NEW n \in Entries, Over(n) PROVE Over(n)'
    <3>1. n.target \in Ids /\ generation[n.target] \in Nat /\ n.gen \in Nat
      BY DEF Entries, Gens, TableInv, TypeOK
    <3>2. generation'[n.target] = IF n.target = i THEN generation[n.target] + 1 ELSE generation[n.target]
      BY <3>1 DEF TableInv, TypeOK
    <3>3. owner'[n.target] = IF n.target = i THEN p ELSE owner[n.target]
      BY <3>1 DEF TableInv, TypeOK
    <3> QED
      BY <2>1, <3>1, <3>2, <3>3 DEF Over, Dead
  <2> QED
    BY <2>1 DEF TableInv, TypeOK, Notices
<1>6. Dues'
  BY DuesStay DEF TableInv, TypeOK
<1> QED
  BY <1>1, <1>2, <1>3, <1>4, <1>5, <1>6 DEF TableInv

(* sys_watch_port: the watch asked for is the caller's.                    *)
LEMMA WatchBeginInv ==
    ASSUME TableInv, NEW p \in Procs, NEW w \in Entries, WatchBegin(p, w)
    PROVE  TableInv'
<1> USE WatchAssumption DEF WatchBegin, Goto, ports, firing
<1>1. TypeOK'
  BY DEF TableInv, TypeOK, Places, Slots, Gens, Calls, Destroys
<1>2. Calls'
  BY DEF TableInv, TypeOK, Calls, Entries, Gens
<1>3. Destroys'
  BY DEF TableInv, TypeOK, Destroys
<1>4. Table'
  BY DEF TableInv, TypeOK, Table, Used, NoWatchTwice, DeadProcessWatchesNothing, SameWatch, Entries, Gens, Slots
<1>5. Notices'
  BY DEF TableInv, TypeOK, Notices, Over, Dead
<1>6. Dues'
  BY DuesStay DEF TableInv, TypeOK
<1> QED
  BY <1>1, <1>2, <1>3, <1>4, <1>5, <1>6 DEF TableInv

(* deathwatch_add looks at the target's generation.                        *)
LEMMA WatchGenCheckInv ==
    ASSUME TableInv, NEW p \in Procs, WatchGenCheck(p)
    PROVE  TableInv'
<1> USE WatchAssumption
<1>0. /\ pc[p] = "w_gen" /\ pc' \in {[pc EXCEPT ![p] = "idle"], [pc EXCEPT ![p] = "w_add"]}
      /\ call' = IF pc'[p] = "idle" THEN [call EXCEPT ![p] = None] ELSE call
      /\ UNCHANGED <<owner, generation, s_dw, inbox, dying, batch, more, due, exiting, asked, posted>>
  BY DEF TableInv, TypeOK, WatchGenCheck, Goto, ports, firing
<1>1. TypeOK'
  BY ZenonT(30), <1>0 DEF TableInv, TypeOK, Places, Slots, Gens, Calls, Destroys
<1>2. Calls'
  BY <1>0 DEF TableInv, TypeOK, Calls, Entries, Gens
<1>3. Destroys'
  BY <1>0 DEF TableInv, TypeOK, Destroys
<1>4. Table'
  BY SMTT(30), <1>0 DEF TableInv, TypeOK, Table, Used, NoWatchTwice, DeadProcessWatchesNothing, SameWatch, Entries, Gens, Slots
<1>5. Notices'
  BY <1>0 DEF TableInv, TypeOK, Notices, Over, Dead
<1>6. Dues'
  BY <1>0, DuesStay DEF TableInv, TypeOK
<1> QED
  BY <1>1, <1>2, <1>3, <1>4, <1>5, <1>6 DEF TableInv

(* deathwatch_add: the watch is known, finds no slot, or takes a free one. *)
LEMMA WatchAddInv ==
    ASSUME TableInv, NEW p \in Procs, WatchAdd(p)
    PROVE  TableInv'
<1> USE WatchAssumption
<1> DEFINE w == call[p]
<1>1. /\ pc[p] = "w_add" /\ pc' = [pc EXCEPT ![p] = "idle"]
      /\ call' = [call EXCEPT ![p] = None] /\ asked' \in {asked, asked \cup {w}}
      /\ UNCHANGED <<owner, generation, inbox, dying, batch, more, due, exiting, posted>>
  BY DEF WatchAdd, Goto, ports, firing
<1>2. w \in Entries /\ w # None /\ w.pid = p /\ w.gen <= generation[w.target]
  BY <1>1 DEF TableInv, TypeOK, Calls
<1>3. \/ s_dw' = s_dw
      \/ \E s \in Slots : s_dw[s] = None /\ ~Watched(w) /\ s_dw' = [s_dw EXCEPT ![s] = w]
  BY DEF WatchAdd, FirstFree, Used
<1> HIDE DEF w
<1>4. TypeOK'
  <2>1. s_dw' \in [Slots -> Entries \cup {None}]
    BY <1>2, <1>3 DEF TableInv, TypeOK
  <2> QED
    BY <1>1, <1>2, <2>1 DEF TableInv, TypeOK, Places
<1>5. Calls'
  BY <1>1 DEF TableInv, TypeOK, Calls
<1>6. Destroys'
  BY <1>1 DEF TableInv, TypeOK, Destroys
<1>7. Table'
  <2>1. CASE s_dw' = s_dw
    BY <1>1, <2>1 DEF TableInv, TypeOK, Table, Used, NoWatchTwice, DeadProcessWatchesNothing, SameWatch, Entries
  <2>2. ASSUME NEW s \in Slots, s_dw[s] = None, ~Watched(w), s_dw' = [s_dw EXCEPT ![s] = w]
        PROVE  Table'
    <3>1. \A r \in Slots : s_dw'[r] = IF r = s THEN w ELSE s_dw[r]
      BY <2>2 DEF TableInv, TypeOK
    <3>2. \A r \in Slots : s_dw[r] # None => r # s /\ ~SameWatch(s_dw[r], w) /\ ~SameWatch(w, s_dw[r])
      BY <2>2 DEF Watched, Used, SameWatch
    <3>3. NoWatchTwice'
      BY <1>2, <3>1, <3>2 DEF TableInv, Table, NoWatchTwice, Used, SameWatch
    <3>4. DeadProcessWatchesNothing'
      BY <1>1, <1>2, <3>1 DEF TableInv, TypeOK, Table, DeadProcessWatchesNothing, Used, Entries
    <3>5. \A r \in Slots : s_dw'[r] # None => s_dw'[r].gen <= generation[s_dw'[r].target]
      BY <1>2, <3>1 DEF TableInv, Table, Used
    <3> QED
      BY <1>1, <3>3, <3>4, <3>5 DEF Table, Used
  <2> QED
    BY <1>3, <2>1, <2>2
<1>8. Notices'
  BY <1>1 DEF TableInv, TypeOK, Notices, Over, Dead
<1>9. Dues'
  <2>1. \A s \in Slots : s_dw[s] # None => s_dw'[s] = s_dw[s]
    BY <1>3 DEF TableInv, TypeOK
  <2> QED
    BY <1>1, <2>1, DuesStay DEF TableInv, TypeOK
<1> QED
  BY <1>4, <1>5, <1>6, <1>7, <1>8, <1>9 DEF TableInv

(* ipc_port_destroy unlinks the port: its watches are due.                 *)
LEMMA DestroyInv ==
    ASSUME TableInv, NEW p \in Procs, NEW i \in Ids, Destroy(p, i)
    PROVE  TableInv'
<1> USE WatchAssumption
<1> DEFINE d == [id |-> i, gen |-> generation[i]]
           D == {s_dw[s] : s \in Watches(i, generation[i])}
<1>1. /\ pc[p] = "idle" /\ pc' = [pc EXCEPT ![p] = "fire"]
      /\ owner[i] = p /\ owner' = [owner EXCEPT ![i] = None]
      /\ inbox' = [inbox EXCEPT ![i] = <<>>]
      /\ dying' = [dying EXCEPT ![p] = d] /\ due' = [due EXCEPT ![p] = D]
      /\ UNCHANGED <<generation, s_dw, call, batch, more, exiting, asked, posted>>
  BY DEF Destroy, Goto
<1>2. generation[i] \in Gens /\ d \in Incarnations /\ d # None /\ d.id = i /\ d.gen = generation[i]
  BY <1>1 DEF TableInv, TypeOK, Calls, Gens, Incarnations
<1>3. \A e \in D : /\ e \in Entries /\ e.target = i /\ e.gen = generation[i]
                   /\ \E s \in Slots : s_dw[s] = e
  BY DEF TableInv, TypeOK, Watches, Used
<1> HIDE DEF d, D
<1>4. TypeOK'
  <2>1. inbox' \in [Ids -> Seq(Entries)] /\ \A j \in Ids : Len(inbox'[j]) <= QueueMax
    <3>1. <<>> \in Seq(Entries) /\ Len(<<>>) = 0
      OBVIOUS
    <3> QED
      BY <1>1, <3>1 DEF TableInv, TypeOK
  <2>2. due' \in [Procs -> SUBSET Entries]
    BY <1>1, <1>3 DEF TableInv, TypeOK
  <2> QED
    BY <1>1, <1>2, <2>1, <2>2 DEF TableInv, TypeOK, Places
<1>5. Calls'
  BY <1>1 DEF TableInv, TypeOK, Calls
<1>6. Destroys'
  BY <1>1, <1>2 DEF TableInv, TypeOK, Destroys, Incarnations
<1>7. Table'
  BY <1>1 DEF TableInv, TypeOK, Table, Used, NoWatchTwice, DeadProcessWatchesNothing, Entries
<1>8. Notices'
  <2>1. ASSUME NEW n \in Entries, Over(n) PROVE Over(n)'
    BY <1>1, <2>1 DEF Over, Dead, TableInv, TypeOK, Entries
  <2>2. \A j \in Ids : inbox'[j] = IF j = i THEN <<>> ELSE inbox[j]
    BY <1>1 DEF TableInv, TypeOK
  <2>3. ASSUME NEW j \in Ids, NEW k \in DOMAIN inbox'[j] PROVE Over(inbox[j][k])'
    <3>1. inbox'[j] = inbox[j] /\ inbox[j] \in Seq(Entries) /\ inbox[j][k] \in Entries
      BY <2>2, <2>3 DEF TableInv, TypeOK
    <3> QED
      BY <2>1, <3>1 DEF TableInv, Notices
  <2>4. ASSUME NEW q \in Procs, NEW k \in DOMAIN batch'[q] PROVE Over(batch[q][k])'
    <3>1. batch' = batch /\ batch[q] \in Seq(Entries) /\ batch[q][k] \in Entries
      BY <1>1, <2>4 DEF TableInv, TypeOK
    <3> QED
      BY <2>1, <3>1 DEF TableInv, Notices
  <2> QED
    BY <2>3, <2>4 DEF Notices
<1>9. Dues'
  <2> SUFFICES ASSUME NEW q \in Procs, dying'[q] # None, NEW e \in due'[q]
               PROVE  e.target = dying'[q].id /\ e.gen = dying'[q].gen /\ Accounted(q, e)'
    BY DEF Dues
  <2>1. CASE q = p
    <3>1. dying'[q] = d /\ due'[q] = D /\ pc'[q] = "fire"
      BY <1>1, <2>1 DEF TableInv, TypeOK
    <3> QED
      BY <1>1, <1>2, <1>3, <3>1 DEF Accounted
  <2>2. CASE q # p
    <3>1. dying'[q] = dying[q] /\ due'[q] = due[q] /\ pc'[q] = pc[q]
      BY <1>1, <2>2 DEF TableInv, TypeOK
    <3>2. e.pid \in Procs
      BY <3>1 DEF TableInv, TypeOK, Entries
    <3>3. pc[e.pid] = "dead" => pc'[e.pid] = "dead"
      BY <1>1, <3>2 DEF TableInv, TypeOK
    <3>4. e.target = dying[q].id /\ e.gen = dying[q].gen /\ Accounted(q, e)
      BY <3>1 DEF TableInv, Dues
    <3> QED
      BY <1>1, <3>1, <3>3, <3>4 DEF Accounted
  <2> QED
    BY <2>1, <2>2
<1> QED
  BY <1>4, <1>5, <1>6, <1>7, <1>8, <1>9 DEF TableInv

(* deathwatch_fire collects: what it takes from the table it holds.        *)
LEMMA FireInv ==
    ASSUME TableInv, NEW p \in Procs, Fire(p)
    PROVE  TableInv'
<1> USE WatchAssumption
<1>k. PICK k \in 0 .. BatchMax : \E hits \in [1 .. k -> Slots] : Fire(p)!(k)!(hits)
  BY DEF Fire
<1>0. PICK hits \in [1 .. k -> Slots] :
        /\ pc[p] = "fire" /\ Hits(p, hits)
        /\ pc' = [pc EXCEPT ![p] = IF k = 0 THEN "idle" ELSE "post"]
        /\ batch' = [batch EXCEPT ![p] = [n \in 1 .. k |-> s_dw[hits[n]]]]
        /\ s_dw' = [s \in Slots |-> IF s \in ToSet(hits) THEN None ELSE s_dw[s]]
        /\ more' = [more EXCEPT ![p] = (k = BatchMax)]
        /\ EndsFire(p, k = 0)
        /\ UNCHANGED <<owner, generation, inbox, call, exiting, asked, posted>>
  BY <1>k DEF Goto, ports
<1> DEFINE b == [n \in 1 .. k |-> s_dw[hits[n]]]
           d == dying[p]
<1>1. k \in Nat /\ k <= BatchMax /\ ToSet(hits) = {hits[n] : n \in 1 .. k}
  BY DEF ToSet
<1>2. d \in Incarnations /\ d # None /\ owner[d.id] = None /\ batch[p] = <<>>
  BY <1>0 DEF TableInv, TypeOK, Destroys
<1>3. \A n \in 1 .. k : /\ hits[n] \in Slots /\ s_dw[hits[n]] \in Entries /\ s_dw[hits[n]] # None
                        /\ s_dw[hits[n]].target = d.id /\ s_dw[hits[n]].gen = d.gen
                        /\ Over(s_dw[hits[n]])
  <2>1. \A n \in 1 .. k : hits[n] \in Watches(d.id, d.gen)
    BY <1>0, <1>1 DEF Hits
  <2> QED
    BY <1>2, <2>1 DEF Watches, Used, TableInv, TypeOK, Table, Over, Dead
<1>4. b \in Seq(Entries) /\ Len(b) = k /\ DOMAIN b = 1 .. k /\ \A n \in 1 .. k : b[n] = s_dw[hits[n]]
  BY <1>1, <1>3
<1>5. b = <<>> <=> k = 0
  BY <1>1, <1>4
<1>6. IF k = 0 THEN dying' = [dying EXCEPT ![p] = None] /\ due' = [due EXCEPT ![p] = {}]
      ELSE dying' = dying /\ due' = due
  BY <1>0 DEF EndsFire
<1>7. \A s \in Slots : \/ s_dw'[s] = s_dw[s] /\ s \notin ToSet(hits)
                       \/ s_dw'[s] = None /\ \E n \in 1 .. k : hits[n] = s
  BY <1>0, <1>1
<1> HIDE DEF b, d
<1>8. TypeOK'
  <2>1. batch' \in [Procs -> Seq(Entries)] /\ \A q \in Procs : Len(batch'[q]) <= BatchMax
    BY <1>0, <1>1, <1>4 DEF TableInv, TypeOK, b
  <2>2. s_dw' \in [Slots -> Entries \cup {None}]
    BY <1>0 DEF TableInv, TypeOK
  <2>3. dying' \in [Procs -> Incarnations \cup {None}] /\ due' \in [Procs -> SUBSET Entries]
    BY <1>6 DEF TableInv, TypeOK
  <2>4. pc' \in [Procs -> Places] /\ more' \in [Procs -> BOOLEAN]
    BY <1>0 DEF TableInv, TypeOK, Places
  <2> QED
    BY <1>0, <2>1, <2>2, <2>3, <2>4 DEF TableInv, TypeOK
<1>9. Calls'
  BY <1>0 DEF TableInv, TypeOK, Calls
<1>10. Destroys'
  <2>1. batch'[p] = b /\ \A q \in Procs \ {p} : batch'[q] = batch[q] /\ pc'[q] = pc[q] /\ dying'[q] = dying[q]
    BY <1>0, <1>6 DEF b, TableInv, TypeOK
  <2>2. pc'[p] = (IF k = 0 THEN "idle" ELSE "post") /\ dying'[p] = IF k = 0 THEN None ELSE dying[p]
    BY <1>0, <1>6 DEF TableInv, TypeOK
  <2>3. \A q \in Procs : dying'[q] # None <=> pc'[q] \in {"fire", "post"}
    BY <1>0, <1>2, <2>1, <2>2 DEF TableInv, Destroys, d
  <2>4. \A q \in Procs : batch'[q] # <<>> <=> pc'[q] = "post"
    BY <1>5, <2>1, <2>2 DEF TableInv, Destroys
  <2>5. \A q \in Procs : dying'[q] # None => dying'[q] = dying[q]
    BY <2>1, <2>2
  <2>6. owner' = owner
    BY <1>0
  <2> QED
    BY <2>3, <2>4, <2>5, <2>6 DEF TableInv, Destroys
<1>11. Table'
  <2>1. \A s \in Slots : s_dw'[s] # None => s_dw'[s] = s_dw[s] /\ s_dw[s] # None
    BY <1>7
  <2>2. \A q \in Procs : pc'[q] = "dead" => pc[q] = "dead"
    BY <1>0 DEF TableInv, TypeOK
  <2> QED
    BY <1>0, <2>1, <2>2 DEF TableInv, TypeOK, Table, Used, NoWatchTwice, DeadProcessWatchesNothing, SameWatch, Entries
<1>12. Notices'
  <2>1. ASSUME NEW q \in Procs, NEW n \in DOMAIN batch'[q] PROVE Over(batch[q][n])'
    <3>1. CASE q = p
      <4>1. batch'[q] = b /\ n \in 1 .. k
        BY <1>0, <1>4, <2>1, <3>1 DEF b, TableInv, TypeOK
      <4> QED
        BY <1>0, <1>3, <1>4, <4>1 DEF Over, Dead
    <3>2. CASE q # p
      <4>1. batch'[q] = batch[q]
        BY <1>0, <3>2 DEF TableInv, TypeOK
      <4> QED
        BY <1>0, <2>1, <4>1 DEF TableInv, Notices, Over, Dead
    <3> QED
      BY <3>1, <3>2
  <2>2. \A j \in Ids : \A n \in DOMAIN inbox[j] : Over(inbox[j][n])'
    BY <1>0 DEF TableInv, Notices, Over, Dead
  <2> QED
    BY <1>0, <2>1, <2>2 DEF Notices
<1>13. Dues'
  <2> SUFFICES ASSUME NEW q \in Procs, dying'[q] # None, NEW e \in due'[q]
               PROVE  e.target = dying'[q].id /\ e.gen = dying'[q].gen /\ Accounted(q, e)'
    BY DEF Dues
  <2>1. dying'[q] = dying[q] /\ due'[q] = due[q] /\ (q = p => k # 0)
    BY <1>6 DEF TableInv, TypeOK
  <2>2. e \in Entries /\ e.pid \in Procs /\ e # None
    BY <2>1 DEF TableInv, TypeOK, Entries
  <2>3. e.target = dying[q].id /\ e.gen = dying[q].gen /\ Accounted(q, e)
    BY <2>1 DEF TableInv, Dues
  <2>4. pc[e.pid] = "dead" => pc'[e.pid] = "dead"
    BY <1>0, <2>2 DEF TableInv, TypeOK
  <2>5. CASE q = p
    <3>1. batch'[p] = b /\ pc'[p] = "post" /\ more'[p] = (k = BatchMax)
      BY <1>0, <2>1, <2>5 DEF b, TableInv, TypeOK
    <3>2. ~\E n \in DOMAIN batch[p] : batch[p][n] = e
      BY <1>2
    <3>3. ASSUME NEW s \in Slots, s_dw[s] = e PROVE Accounted(p, e)'
      <4>1. CASE \E n \in 1 .. k : hits[n] = s
        BY <1>4, <3>1, <3>3, <4>1 DEF Accounted
      <4>2. CASE s_dw'[s] = s_dw[s] /\ s \notin ToSet(hits)
        <5>1. s \in Watches(d.id, d.gen)
          BY <2>2, <2>3, <2>5, <3>3 DEF Watches, Used, d
        <5>2. k = BatchMax
          <6>1. Len(hits) = k
            BY <1>1
          <6> QED
            BY <1>0, <4>2, <5>1, <6>1 DEF Hits, d
        <5> QED
          BY <3>1, <3>3, <4>2, <5>2 DEF Accounted
      <4> QED
        BY <1>7, <4>1, <4>2
    <3> QED
      BY <1>0, <2>1, <2>3, <2>4, <2>5, <3>2, <3>3 DEF Accounted
  <2>6. CASE q # p
    <3>1. batch'[q] = batch[q] /\ pc'[q] = pc[q] /\ more'[q] = more[q]
      BY <1>0, <2>6 DEF TableInv, TypeOK
    <3>2. dying[q].id # d.id
      BY <1>2, <2>1, <2>6 DEF TableInv, Destroys, d
    <3>3. \A s \in Slots : s_dw[s] = e => s_dw'[s] = e
      BY <1>3, <1>7, <2>3, <3>2
    <3> QED
      BY <1>0, <2>1, <2>3, <2>4, <3>1, <3>3 DEF Accounted
  <2> QED
    BY <2>5, <2>6
<1> QED
  BY <1>8, <1>9, <1>10, <1>11, <1>12, <1>13 DEF TableInv

(* One notice of the batch is posted, and queued if there is room.         *)
LEMMA PostInv ==
    ASSUME TableInv, NEW p \in Procs, Post(p)
    PROVE  TableInv'
<1> USE WatchAssumption
<1> DEFINE n == Head(batch[p])
           rest == Tail(batch[p])
           over == rest = <<>> /\ ~more[p]
<1>0. /\ pc[p] = "post"
      /\ pc' = [pc EXCEPT ![p] = IF rest # <<>> THEN "post" ELSE IF more[p] THEN "fire" ELSE "idle"]
      /\ Deliver(n) /\ posted' = posted \cup {n} /\ batch' = [batch EXCEPT ![p] = rest]
      /\ EndsFire(p, over)
      /\ UNCHANGED <<owner, generation, s_dw, call, more, exiting, asked>>
  BY DEF Post, Goto, ports
<1>1. batch[p] \in Seq(Entries) /\ batch[p] # <<>> /\ Len(batch[p]) <= BatchMax /\ dying[p] # None
  BY <1>0 DEF TableInv, TypeOK, Destroys
<1>2. /\ n \in Entries /\ rest \in Seq(Entries) /\ Len(rest) = Len(batch[p]) - 1
      /\ Len(batch[p]) \in Nat /\ 1 \in DOMAIN batch[p] /\ n = batch[p][1]
      /\ \A k \in DOMAIN rest : k + 1 \in DOMAIN batch[p] /\ rest[k] = batch[p][k + 1]
      /\ \A k \in DOMAIN batch[p] : k # 1 => k - 1 \in DOMAIN rest /\ rest[k - 1] = batch[p][k]
  BY <1>1, TailFacts
<1>3. Over(n) /\ \A k \in DOMAIN rest : Over(rest[k])
  BY <1>2 DEF TableInv, Notices
<1>4. IF over THEN dying' = [dying EXCEPT ![p] = None] /\ due' = [due EXCEPT ![p] = {}]
      ELSE dying' = dying /\ due' = due
  BY <1>0 DEF EndsFire
<1>5. /\ batch'[p] = rest /\ \A q \in Procs \ {p} : batch'[q] = batch[q] /\ pc'[q] = pc[q]
      /\ pc'[p] = IF rest # <<>> THEN "post" ELSE IF more[p] THEN "fire" ELSE "idle"
      /\ \A q \in Procs : dying'[q] = IF q = p /\ over THEN None ELSE dying[q]
  BY <1>0, <1>4 DEF TableInv, TypeOK
<1> HIDE DEF n, rest
<1>6. inbox' = inbox \/ (Len(inbox[n.notify]) < QueueMax
                         /\ inbox' = [inbox EXCEPT ![n.notify] = Append(inbox[n.notify], n)])
  BY <1>0 DEF Deliver
<1>7. /\ inbox' \in [Ids -> Seq(Entries)] /\ \A j \in Ids : Len(inbox'[j]) <= QueueMax
      /\ \A j \in Ids : \A k \in DOMAIN inbox'[j] :
            inbox'[j][k] = n \/ (k \in DOMAIN inbox[j] /\ inbox'[j][k] = inbox[j][k])
  <2>1. CASE inbox' = inbox
    BY <2>1 DEF TableInv, TypeOK
  <2>2. CASE /\ Len(inbox[n.notify]) < QueueMax
             /\ inbox' = [inbox EXCEPT ![n.notify] = Append(inbox[n.notify], n)]
    <3> DEFINE i == n.notify
               q == inbox[i]
    <3>i. i \in Ids
      BY <1>2 DEF Entries
    <3>1. i \in Ids /\ q \in Seq(Entries) /\ Len(q) \in Nat
      BY <3>i DEF TableInv, TypeOK
    <3> HIDE DEF i, q
    <3>2. /\ Append(q, n) \in Seq(Entries) /\ Len(Append(q, n)) = Len(q) + 1
          /\ \A k \in DOMAIN q : Append(q, n)[k] = q[k]
          /\ Append(q, n)[Len(q) + 1] = n
          /\ \A k \in DOMAIN Append(q, n) : k \in DOMAIN q \/ k = Len(q) + 1
      BY <1>2, <3>1, AppendFacts
    <3>3. \A j \in Ids : inbox'[j] = IF j = i THEN Append(q, n) ELSE inbox[j]
      BY <2>2, <3>1 DEF TableInv, TypeOK, i, q
    <3>4. inbox' \in [Ids -> Seq(Entries)]
      BY <2>2, <3>1, <3>2 DEF TableInv, TypeOK, i, q
    <3>5. \A j \in Ids : Len(inbox'[j]) <= QueueMax
      BY <2>2, <3>1, <3>2, <3>3 DEF TableInv, TypeOK, i, q
    <3> QED
      BY <3>2, <3>3, <3>4, <3>5 DEF q
  <2> QED
    BY <1>6, <2>1, <2>2
<1>8. TypeOK'
  <2>1. batch' \in [Procs -> Seq(Entries)] /\ \A q \in Procs : Len(batch'[q]) <= BatchMax
    BY <1>0, <1>1, <1>2, <1>5 DEF TableInv, TypeOK, rest
  <2>2. dying' \in [Procs -> Incarnations \cup {None}] /\ due' \in [Procs -> SUBSET Entries]
    BY <1>4 DEF TableInv, TypeOK
  <2>3. pc' \in [Procs -> Places] /\ posted' \subseteq Entries
    BY <1>0, <1>2 DEF TableInv, TypeOK, Places
  <2> QED
    BY <1>0, <1>7, <2>1, <2>2, <2>3 DEF TableInv, TypeOK
<1>9. Calls'
  BY <1>0 DEF TableInv, TypeOK, Calls
<1>10. Destroys'
  <2>1. \A q \in Procs : dying'[q] # None <=> pc'[q] \in {"fire", "post"}
    BY <1>1, <1>5 DEF TableInv, Destroys
  <2>2. \A q \in Procs : batch'[q] # <<>> <=> pc'[q] = "post"
    BY <1>5 DEF TableInv, Destroys
  <2>3. \A q \in Procs : dying'[q] # None => dying'[q] = dying[q]
    BY <1>5
  <2> QED
    BY <1>0, <2>1, <2>2, <2>3 DEF TableInv, Destroys
<1>11. Table'
  <2>1. \A q \in Procs : pc'[q] = "dead" => pc[q] = "dead"
    BY <1>5
  <2> QED
    BY <1>0, <2>1 DEF TableInv, TypeOK, Table, Used, NoWatchTwice, DeadProcessWatchesNothing, Entries
<1>12. Notices'
  <2>1. \A j \in Ids : \A k \in DOMAIN inbox'[j] : Over(inbox[j][k])'
    BY <1>0, <1>3, <1>7 DEF TableInv, Notices, Over, Dead
  <2>2. \A q \in Procs : \A k \in DOMAIN batch'[q] : Over(batch[q][k])'
    BY <1>0, <1>3, <1>5 DEF TableInv, Notices, Over, Dead
  <2> QED
    BY <2>1, <2>2 DEF Notices
<1>13. Dues'
  <2> SUFFICES ASSUME NEW q \in Procs, dying'[q] # None, NEW e \in due'[q]
               PROVE  e.target = dying'[q].id /\ e.gen = dying'[q].gen /\ Accounted(q, e)'
    BY DEF Dues
  <2>1. dying'[q] = dying[q] /\ due'[q] = due[q] /\ (q = p => ~over)
    BY <1>4, <1>5 DEF TableInv, TypeOK
  <2>2. e.pid \in Procs
    BY <2>1 DEF TableInv, TypeOK, Entries
  <2>3. e.target = dying[q].id /\ e.gen = dying[q].gen /\ Accounted(q, e)
    BY <2>1 DEF TableInv, Dues
  <2>4. pc[e.pid] = "dead" => pc'[e.pid] = "dead"
    BY <1>0, <1>5, <2>2
  <2>5. CASE q = p
    <3>1. ASSUME NEW k \in DOMAIN batch[p], batch[p][k] = e PROVE Accounted(p, e)'
      <4>1. CASE k = 1
        BY <1>0, <1>2, <3>1, <4>1 DEF Accounted
      <4>2. CASE k # 1
        BY <1>2, <1>5, <3>1, <4>2 DEF Accounted
      <4> QED
        BY <4>1, <4>2
    <3>2. ASSUME more[p] PROVE more'[p]
      BY <1>0, <3>2
    <3>3. e \in posted => e \in posted'
      BY <1>0
    <3> QED
      BY <1>0, <2>1, <2>3, <2>4, <2>5, <3>1, <3>2, <3>3 DEF Accounted
  <2>6. CASE q # p
    BY <1>0, <1>5, <2>1, <2>3, <2>4, <2>6 DEF Accounted
  <2> QED
    BY <2>5, <2>6
<1> QED
  BY <1>8, <1>9, <1>10, <1>11, <1>12, <1>13 DEF TableInv

(* The owner takes a notice off its queue.                                 *)
LEMMA ReceiveInv ==
    ASSUME TableInv, NEW p \in Procs, NEW i \in Ids, Receive(p, i)
    PROVE  TableInv'
<1> USE WatchAssumption
<1>0. /\ inbox[i] # <<>> /\ inbox' = [inbox EXCEPT ![i] = Tail(inbox[i])]
      /\ UNCHANGED <<owner, generation, s_dw, pc, call, dying, batch, more, due, exiting, asked, posted>>
  BY DEF Receive, ports, firing
<1>1. inbox[i] \in Seq(Entries) /\ Len(inbox[i]) <= QueueMax
  BY DEF TableInv, TypeOK
<1>2. /\ Tail(inbox[i]) \in Seq(Entries) /\ Len(Tail(inbox[i])) = Len(inbox[i]) - 1 /\ Len(inbox[i]) \in Nat
      /\ \A k \in DOMAIN Tail(inbox[i]) :
            k + 1 \in DOMAIN inbox[i] /\ Tail(inbox[i])[k] = inbox[i][k + 1]
  BY <1>0, <1>1, TailFacts
<1>3. \A j \in Ids : inbox'[j] = IF j = i THEN Tail(inbox[i]) ELSE inbox[j]
  BY <1>0 DEF TableInv, TypeOK
<1>4. TypeOK'
  <2>1. Len(Tail(inbox[i])) <= QueueMax
    BY <1>1, <1>2
  <2>3. \A j \in Ids : Len(inbox'[j]) <= QueueMax
    BY <1>3, <2>1 DEF TableInv, TypeOK
  <2>2. inbox' \in [Ids -> Seq(Entries)]
    BY <1>0, <1>2 DEF TableInv, TypeOK
  <2> QED
    BY <1>0, <2>2, <2>3 DEF TableInv, TypeOK
<1>5. Notices'
  BY <1>0, <1>2, <1>3 DEF TableInv, Notices, Over, Dead
<1>6. Calls' /\ Destroys'
  BY <1>0 DEF TableInv, Calls, Destroys
<1>7. Table'
  BY <1>0 DEF TableInv, Table, Used, NoWatchTwice, DeadProcessWatchesNothing
<1>8. Dues'
  BY <1>0, DuesStay
<1> QED
  BY <1>4, <1>5, <1>6, <1>7, <1>8 DEF TableInv

(* process_destroy_local begins.                                           *)
LEMMA ExitInv ==
    ASSUME TableInv, NEW p \in Procs, Exit(p)
    PROVE  TableInv'
<1>0. /\ exiting' = exiting \cup {p}
      /\ UNCHANGED <<owner, generation, s_dw, inbox, pc, call, dying, batch, more, due, asked, posted>>
  BY DEF Exit, ports, firing
<1>1. TypeOK'
  BY <1>0 DEF TableInv, TypeOK
<1>2. Calls' /\ Destroys'
  BY <1>0 DEF TableInv, Calls, Destroys
<1>3. Table' /\ Notices'
  BY <1>0 DEF TableInv, Table, Used, NoWatchTwice, DeadProcessWatchesNothing, Notices, Over, Dead
<1>4. Dues'
  BY <1>0, DuesStay
<1> QED
  BY <1>1, <1>2, <1>3, <1>4 DEF TableInv

(* deathwatch_cleanup_watcher: the dead process watches nothing any more.  *)
LEMMA CleanupWatcherInv ==
    ASSUME TableInv, NEW p \in Procs, CleanupWatcher(p)
    PROVE  TableInv'
<1> USE WatchAssumption
<1>0. /\ pc[p] = "idle" /\ pc' = [pc EXCEPT ![p] = "dead"]
      /\ s_dw' = [s \in Slots |-> IF s \in Used /\ s_dw[s].pid = p THEN None ELSE s_dw[s]]
      /\ UNCHANGED <<owner, generation, inbox, call, dying, batch, more, due, exiting, asked, posted>>
  BY DEF CleanupWatcher, Goto, ports, firing
<1>1. \A s \in Slots : s_dw'[s] # None => s_dw[s] # None /\ s_dw'[s] = s_dw[s] /\ s_dw[s].pid # p
  BY <1>0 DEF Used
<1>2. \A q \in Procs : pc'[q] = IF q = p THEN "dead" ELSE pc[q]
  BY <1>0 DEF TableInv, TypeOK
<1>3. TypeOK'
  BY <1>0 DEF TableInv, TypeOK, Places
<1>4. Calls' /\ Destroys' /\ Notices'
  BY <1>0, <1>2 DEF TableInv, TypeOK, Calls, Destroys, Notices, Over, Dead
<1>5. Table'
  BY <1>0, <1>1, <1>2 DEF TableInv, TypeOK, Table, Used, NoWatchTwice, DeadProcessWatchesNothing, SameWatch, Entries
<1>6. Dues'
  <2> SUFFICES ASSUME NEW q \in Procs, dying[q] # None, NEW e \in due[q]
               PROVE  e.target = dying[q].id /\ e.gen = dying[q].gen /\ Accounted(q, e)'
    BY <1>0 DEF Dues
  <2>1. e \in Entries /\ e # None /\ e.pid \in Procs
    BY DEF TableInv, TypeOK, Entries
  <2>2. e.target = dying[q].id /\ e.gen = dying[q].gen /\ Accounted(q, e)
    BY DEF TableInv, Dues
  <2>3. \A s \in Slots : s_dw[s] = e => s_dw'[s] = e \/ e.pid = p
    BY <1>0, <2>1 DEF Used
  <2>4. pc[q] = "fire" => pc'[q] = "fire"
    BY <1>0, <1>2
  <2>5. pc[e.pid] = "dead" \/ e.pid = p => pc'[e.pid] = "dead"
    BY <1>2, <2>1
  <2>6. Accounted(q, e)'
    BY <1>0, <2>2, <2>3, <2>4, <2>5 DEF Accounted
  <2> QED
    BY <2>2, <2>6
<1> QED
  BY <1>3, <1>4, <1>5, <1>6 DEF TableInv

----------------------------------------------------------------------------
(* The parts hold together through every step.                             *)
LEMMA NextInv == TableInv /\ [Next]_vars => TableInv'
<1> SUFFICES ASSUME TableInv, [Next]_vars PROVE TableInv'
  OBVIOUS
<1>1. CASE UNCHANGED vars
  BY <1>1, StutterInv
<1>2. ASSUME NEW p \in Procs, Inside(p) PROVE TableInv'
  BY <1>2, WatchGenCheckInv, WatchAddInv, FireInv, PostInv, DestroyInv, CleanupWatcherInv
     DEF Inside, CleanupOwner
<1>3. ASSUME NEW p \in Procs, Exit(p) PROVE TableInv'
  BY <1>3, ExitInv
<1>4. ASSUME NEW p \in Procs, NEW i \in Ids, Create(p, i) \/ Receive(p, i) \/ Destroy(p, i)
      PROVE  TableInv'
  BY <1>4, CreateInv, ReceiveInv, DestroyInv
<1>5. ASSUME NEW p \in Procs, NEW w \in Entries, WatchBegin(p, w) PROVE TableInv'
  BY <1>5, WatchBeginInv
<1> QED
  BY <1>1, <1>2, <1>3, <1>4, <1>5 DEF Next

(* The table of watches and the notices are in order in every reachable    *)
(* state.                                                                  *)
LEMMA AlwaysTableInv == Spec => []TableInv
BY InitInv, NextInv, PTL DEF Spec

(* Registering a watch again is a no-op, and a process that is gone        *)
(* watches nothing: deathwatch_add against deathwatch_cleanup_watcher.     *)
THEOREM WatchTable == Spec => []WatchInv
<1>1. TableInv => WatchInv
  BY DEF TableInv, Table, WatchInv
<1> QED
  BY <1>1, AlwaysTableInv, PTL

(* A notice speaks of an incarnation that is gone, however late it is      *)
(* posted or received and whoever owns the id by then.                     *)
THEOREM NoticesAreTrue == Spec => []NoticesSpeakOfTheDead
<1>1. TableInv => NoticesSpeakOfTheDead
  BY DEF TableInv, Notices, Over, NoticesSpeakOfTheDead, Pending, ToSet
<1> QED
  BY <1>1, AlwaysTableInv, PTL

(* A destroy does not leave its fire before every watch it found has been  *)
(* posted, however many batches that takes, unless the watcher has died.   *)
THEOREM NoWatchIsSkipped == Spec => DueArePosted
<1>1. ASSUME TableInv, [Next]_vars, NEW p \in Procs, dying[p] # None, dying'[p] = None,
             NEW e \in due[p]
      PROVE  e \in posted' \/ pc[e.pid] = "dead"
  <2>1. dying \in [Procs -> Incarnations \cup {None}] /\ dying' # dying
    BY <1>1 DEF TableInv, TypeOK
  <2>2. Accounted(p, e)
    BY <1>1 DEF TableInv, Dues
  <2>3. \/ \E q \in Procs : Fire(q) \/ Post(q)
        \/ \E q \in Procs, i \in Ids : Destroy(q, i)
    BY <1>1, <2>1 DEF Next, Inside, CleanupOwner, Exit, Create, Receive, WatchBegin, WatchGenCheck,
       WatchAdd, CleanupWatcher, firing, vars
  <2>4. ASSUME NEW q \in Procs, Fire(q) PROVE e \in posted' \/ pc[e.pid] = "dead"
    <3>k. PICK k \in 0 .. BatchMax : \E hits \in [1 .. k -> Slots] : Fire(q)!(k)!(hits)
      BY <2>4 DEF Fire
    <3>0. PICK hits \in [1 .. k -> Slots] :
            pc[q] = "fire" /\ Hits(q, hits) /\ EndsFire(q, k = 0) /\ posted' = posted
      BY <3>k
    <3>1. q = p /\ k = 0
      BY <1>1, <2>1, <3>0 DEF EndsFire
    <3>2. batch[p] = <<>> /\ e \in Entries /\ e # None
      BY <1>1, <3>0, <3>1, WatchAssumption DEF TableInv, Destroys, TypeOK
    <3>3. ASSUME NEW s \in Slots, s_dw[s] = e PROVE FALSE
      <4>1. s \in Watches(dying[p].id, dying[p].gen)
        BY <1>1, <3>2, <3>3 DEF Watches, Used, TableInv, Dues
      <4>2. Len(hits) = 0 /\ ToSet(hits) = {}
        BY <3>1 DEF ToSet
      <4> QED
        BY <3>0, <3>1, <4>1, <4>2, WatchAssumption DEF Hits
    <3> QED
      BY <2>2, <3>0, <3>2, <3>3 DEF Accounted
  <2>5. ASSUME NEW q \in Procs, Post(q) PROVE e \in posted' \/ pc[e.pid] = "dead"
    <3>0. /\ pc[q] = "post" /\ posted' = posted \cup {Head(batch[q])}
          /\ EndsFire(q, Tail(batch[q]) = <<>> /\ ~more[q])
      BY <2>5 DEF Post, Goto
    <3>1. q = p /\ Tail(batch[p]) = <<>> /\ ~more[p]
      BY <1>1, <2>1, <3>0 DEF EndsFire
    <3>2. batch[p] \in Seq(Entries) /\ batch[p] # <<>>
      BY <1>1, <3>0, <3>1 DEF TableInv, Destroys, TypeOK
    <3>3. \A k \in DOMAIN batch[p] : batch[p][k] = Head(batch[p])
      <4>1. DOMAIN Tail(batch[p]) = {}
        BY <3>1
      <4> QED
        BY <3>2, <4>1, TailFacts
    <3> QED
      BY <2>2, <3>0, <3>1, <3>3 DEF Accounted
  <2>6. ASSUME NEW q \in Procs, NEW i \in Ids, Destroy(q, i) PROVE FALSE
    <3>0. pc[q] = "idle" /\ dying' = [dying EXCEPT ![q] = [id |-> i, gen |-> generation[i]]]
      BY <2>6 DEF Destroy, Goto
    <3>1. q # p
      BY <1>1, <3>0 DEF TableInv, Destroys
    <3> QED
      BY <1>1, <2>1, <3>0, <3>1
  <2> QED
    BY <2>3, <2>4, <2>5, <2>6
<1>2. TableInv /\ [Next]_vars =>
        [\A p \in Procs : dying[p] # None /\ dying'[p] = None =>
             \A e \in due[p] : e \in posted' \/ pc[e.pid] = "dead"]_vars
  BY <1>1
<1> QED
  BY <1>2, AlwaysTableInv, PTL DEF Spec, DueArePosted
=============================================================================
