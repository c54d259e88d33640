------------------------- MODULE ProcessLifeProofs -------------------------
(***************************************************************************)
(* Proofs about ProcessLife, for any processes, threads, CPUs and setups:  *)
(* spawns, faults and migrations at any time are included.                 *)
(***************************************************************************)
EXTENDS ProcessLife, TLAPS

(* Where process_destroy_local runs, where the right to end obj is held,   *)
(* and where obj is a process at all.                                      *)
Local == {"zombie", "take", "slay", "detach", "bury", "unlist", "arm", "finalize"}
Carry == Local \cup {"route", "d_zombie", "d_wake", "d_defer"}
Busy == Carry \cup {"asleep", "e_wake", "k_wake", "claim", "put", "w_loop", "w_prepare",
                    "w_recheck", "d_claim", "sp_load", "sp_ready"}

TypeInv ==
    /\ TypeOK
    /\ \A a \in Agents : pc[a] \in Busy => obj[a] \in Procs
    /\ \A a \in Agents : pc[a] \in {"slay", "detach", "bury", "reap"} => victim[a] \in Threads
    /\ \A c \in Cpus : then[c] = "out" /\ pc[c] \in Local \cup {"out", "reap"}
    /\ \A t \in Threads : pc[t] # "reap"

(* The right to end a process is in one place: with one agent, in one      *)
(* teardown queue, with the last reaper, or spent.                         *)
Token ==
    /\ \A a, b \in Agents : pc[a] \in Carry /\ pc[b] \in Carry /\ obj[a] = obj[b] => a = b
    /\ \A a \in Agents : pc[a] \in Carry =>
          /\ obj[a] \in claimed \ awaiting /\ finalized[obj[a]] = 0
          /\ \A c \in Cpus : obj[a] \notin teardown_q[c]
    /\ \A c \in Cpus : \A p \in teardown_q[c] :
          p \in claimed \ awaiting /\ finalized[p] = 0 /\ home[p] = c
    /\ \A p \in awaiting : p \in claimed /\ finalized[p] = 0
    /\ \A p \in Procs : finalized[p] <= 1 /\ (finalized[p] = 1 => p \in claimed)

AtHome == \A a \in Agents : pc[a] \in Local => home[obj[a]] = CpuOf(a)

NoDup(q) == \A i, j \in DOMAIN q : i # j => q[i] # q[j]
ToReap(t, c) == In(t, reap_list[c]) \/ (pc[c] = "reap" /\ victim[c] = t)

(* A body is in the hands of at most one reaper, that of the home CPU, and *)
(* is on its process's list until the end of the process is claimed.       *)
Bodies ==
    /\ \A t \in Threads : state[t] \in {"READY", "BLOCKED"} =>
          t \in published /\ (t \in linked \/ Owner[t] \in claimed)
    /\ \A t \in linked : state[t] # "none"
    /\ \A a \in Agents : pc[a] = "slay" =>
          Owner[victim[a]] = obj[a] /\ state[victim[a]] # "none"
    /\ \A a \in Agents : pc[a] \in {"detach", "bury"} =>
          /\ Owner[victim[a]] = obj[a] /\ state[victim[a]] = "DEAD" /\ victim[a] \in published
          /\ \A c \in Cpus : ~ToReap(victim[a], c)
    /\ \A c \in Cpus, t \in Threads : ToReap(t, c) =>
          /\ state[t] = "DEAD" /\ t \in published
          /\ t \in linked \/ Owner[t] \in claimed
          /\ home[Owner[t]] = c
    /\ \A c \in Cpus : NoDup(reap_list[c])
    /\ \A c \in Cpus : pc[c] = "reap" => ~In(victim[c], reap_list[c])

LifeInv == TypeInv /\ Token /\ AtHome /\ Bodies

----------------------------------------------------------------------------
(* What a push at the end and a pop at the front do to a list.             *)
LEMMA AppendFacts ==
    ASSUME NEW S, NEW q \in Seq(S), NEW x \in S
    PROVE  /\ Append(q, x) \in Seq(S)
           /\ \A y : In(y, Append(q, x)) <=> In(y, q) \/ y = x
           /\ NoDup(q) /\ ~In(x, q) => NoDup(Append(q, x))
<1>1. Append(q, x) \in Seq(S) /\ Len(Append(q, x)) = Len(q) + 1
  OBVIOUS
<1>2. \A i \in 1 .. Len(q) : Append(q, x)[i] = q[i]
  OBVIOUS
<1>3. Append(q, x)[Len(q) + 1] = x /\ Len(q) \in Nat
  OBVIOUS
<1>4. DOMAIN q = 1 .. Len(q) /\ DOMAIN Append(q, x) = 1 .. (Len(q) + 1)
  OBVIOUS
<1>5. 1 .. (Len(q) + 1) = (1 .. Len(q)) \cup {Len(q) + 1}
  BY <1>3
<1> HIDE DEF In, NoDup
<1>6. \A y : In(y, Append(q, x)) <=> In(y, q) \/ y = x
  BY <1>2, <1>3, <1>4, <1>5 DEF In
<1>7. NoDup(q) /\ ~In(x, q) => NoDup(Append(q, x))
  BY <1>2, <1>3, <1>4, <1>5 DEF In, NoDup
<1> QED
  BY <1>1, <1>6, <1>7

(* What the first of a reap list is, and what is left.                     *)
LEMMA TailFacts ==
    ASSUME NEW S, NEW q \in Seq(S), q # <<>>
    PROVE  /\ Head(q) \in S /\ Tail(q) \in Seq(S)
           /\ \A y : In(y, q) <=> In(y, Tail(q)) \/ y = Head(q)
           /\ NoDup(q) => NoDup(Tail(q)) /\ ~In(Head(q), Tail(q))
<1>1. Head(q) = q[1] /\ Tail(q) \in Seq(S) /\ Len(q) \in Nat \ {0} /\ Len(Tail(q)) = Len(q) - 1
  OBVIOUS
<1>2. \A i \in 1 .. Len(q) - 1 : Tail(q)[i] = q[i + 1]
  OBVIOUS
<1>3. DOMAIN q = 1 .. Len(q) /\ DOMAIN Tail(q) = 1 .. Len(q) - 1
  BY <1>1
<1>4. 1 \in DOMAIN q /\ q[1] \in S
  BY <1>1, <1>3
<1>5. \A y : In(y, q) <=> In(y, Tail(q)) \/ y = Head(q)
  <2>1. \A i \in DOMAIN q : i = 1 \/ (i - 1 \in DOMAIN Tail(q) /\ Tail(q)[i - 1] = q[i])
    BY <1>1, <1>2, <1>3
  <2>2. \A i \in DOMAIN Tail(q) : i + 1 \in DOMAIN q /\ Tail(q)[i] = q[i + 1]
    BY <1>1, <1>2, <1>3
  <2> QED
    BY <1>1, <1>4, <2>1, <2>2 DEF In
<1>6. NoDup(q) => NoDup(Tail(q)) /\ ~In(Head(q), Tail(q))
  <2>1. \A i \in DOMAIN Tail(q) : /\ i \in Nat \ {0} /\ i + 1 \in DOMAIN q /\ i + 1 # 1
                                  /\ Tail(q)[i] = q[i + 1]
    BY <1>1, <1>2, <1>3
  <2>2. ASSUME NoDup(q), NEW i \in DOMAIN Tail(q), NEW j \in DOMAIN Tail(q), i # j
        PROVE  Tail(q)[i] # Tail(q)[j]
    <3>1. i + 1 # j + 1
      BY <2>1, <2>2
    <3> QED
      BY <2>1, <2>2, <3>1 DEF NoDup
  <2>3. NoDup(q) => ~In(Head(q), Tail(q))
    BY <1>1, <1>4, <2>1 DEF NoDup, In
  <2> QED
    BY <2>2, <2>3 DEF NoDup
<1> QED
  BY <1>1, <1>4, <1>5, <1>6

(* A thread that no reaper has comes on the list of its home CPU.          *)
LEMMA QueueReapFacts ==
    ASSUME LifeInv, NEW t \in Threads, \A c \in Cpus : ~ToReap(t, c), QueueReap(t)
    PROVE  /\ reap_list' \in [Cpus -> Seq(Threads)] /\ home[Owner[t]] \in Cpus
           /\ \A c \in Cpus : NoDup(reap_list'[c])
           /\ \A c \in Cpus, y \in Threads :
                In(y, reap_list'[c]) <=> In(y, reap_list[c]) \/ (y = t /\ c = home[Owner[t]])
<1> DEFINE h == home[Owner[t]]
<1>1. h \in Cpus /\ reap_list \in [Cpus -> Seq(Threads)] /\ reap_list[h] \in Seq(Threads)
  BY LifeAssumption DEF LifeInv, TypeInv, TypeOK
<1>2. reap_list' = [reap_list EXCEPT ![h] = Append(reap_list[h], t)]
  BY DEF QueueReap
<1>3. NoDup(reap_list[h]) /\ ~In(t, reap_list[h])
  BY <1>1 DEF LifeInv, Bodies, ToReap
<1>4. /\ Append(reap_list[h], t) \in Seq(Threads)
      /\ \A y : In(y, Append(reap_list[h], t)) <=> In(y, reap_list[h]) \/ y = t
      /\ NoDup(Append(reap_list[h], t))
  BY <1>1, <1>3, AppendFacts
<1> HIDE DEF h
<1>5. \A c \in Cpus : reap_list'[c] = IF c = h THEN Append(reap_list[h], t) ELSE reap_list[c]
  BY <1>1, <1>2
<1>6. \A c \in Cpus : NoDup(reap_list'[c])
  BY <1>4, <1>5 DEF LifeInv, Bodies
<1>7. \A c \in Cpus, y \in Threads : In(y, reap_list'[c]) <=> In(y, reap_list[c]) \/ (y = t /\ c = h)
  BY <1>4, <1>5
<1>8. reap_list' \in [Cpus -> Seq(Threads)]
  BY <1>1, <1>2, <1>4
<1> QED
  BY <1>1, <1>6, <1>7, <1>8 DEF h

----------------------------------------------------------------------------
(* process_destroy returns to its caller: to drop a reference, or to end.  *)
LEMMA ReturnsCases ==
    ASSUME TypeInv, NEW a \in Agents, NEW from, Returns(a, from)
    PROVE  /\ pc[a] = from /\ then' = then
           /\ \/ /\ pc' = [pc EXCEPT ![a] = "put"] /\ obj' = obj
                 /\ a \notin Cpus
              \/ \E x \in {"out", "t_exit", "f_dead"} :
                   /\ pc' = [pc EXCEPT ![a] = x] /\ obj' = [obj EXCEPT ![a] = None]
                   /\ a \in Cpus => x = "out"
<1>1. pc[a] = from /\ pc' = [pc EXCEPT ![a] = then[a]] /\ then' = then
  BY DEF Returns, Goto
<1>2. then[a] \in {"out", "put", "t_exit", "f_dead"} /\ (a \in Cpus => then[a] = "out")
  BY DEF TypeInv, TypeOK
<1>3. CASE then[a] = "put"
  BY <1>1, <1>2, <1>3 DEF Returns
<1>4. CASE then[a] # "put"
  <2>1. obj' = [obj EXCEPT ![a] = None]
    BY <1>4 DEF Returns
  <2> QED
    BY <1>1, <1>2, <1>4, <2>1
<1> QED
  BY <1>3, <1>4

(* Before anything has run nothing is dying.                               *)
LEMMA InitInv == Init => LifeInv
<1> SUFFICES ASSUME Init PROVE LifeInv
  OBVIOUS
<1> USE LifeAssumption DEF Init, Agents, Local, Carry, Busy
<1>0. setup.alive \subseteq Threads /\ setup.home \in [Procs -> Cpus]
  OBVIOUS
<1>1. TypeInv
  <2>1. {Owner[t] : t \in setup.alive} \subseteq Procs
    BY <1>0
  <2>2. \A c \in Cpus : reap_list[c] = <<>> /\ <<>> \in Seq(Threads)
    OBVIOUS
  <2> QED
    BY <1>0, <2>1, <2>2 DEF TypeInv, TypeOK, Places
<1>2. Token /\ AtHome
  BY <1>1 DEF Token, AtHome, TypeInv, TypeOK
<1>3. Bodies
  <2>1. \A c \in Cpus : NoDup(reap_list[c]) /\ \A y : ~In(y, reap_list[c])
    BY DEF NoDup, In
  <2>2. \A c \in Cpus, t \in Threads : ~ToReap(t, c)
    BY <2>1 DEF ToReap
  <2> QED
    BY <1>0, <2>1, <2>2 DEF Bodies
<1> QED
  BY <1>1, <1>2, <1>3 DEF LifeInv

(* A stuttering step keeps the invariant.                                  *)
LEMMA StutterInv == LifeInv /\ UNCHANGED vars => LifeInv'
BY DEF LifeInv, TypeInv, TypeOK, Token, AtHome, CpuOf, Bodies, ToReap, vars, pcb, bodies, work,
   ghost

(* sys_exit: the thread now works on its own process.                      *)
LEMMA ExitBeginInv ==
    ASSUME LifeInv, NEW t \in Threads, ExitBegin(t)
    PROVE  LifeInv'
<1> USE LifeAssumption DEF Agents, Local, Carry, Busy, ExitBegin, Goto, Call, pcb, bodies, work, ghost
<1>1. TypeInv'
  BY DEF LifeInv, TypeInv, TypeOK, Places
<1>2. Token'
  BY DEF LifeInv, TypeInv, TypeOK, Token
<1>3. AtHome'
  BY DEF LifeInv, TypeInv, TypeOK, AtHome, CpuOf
<1>4. Bodies'
  BY DEF LifeInv, TypeInv, TypeOK, Token, Bodies, ToReap, In, NoDup
<1> QED
  BY <1>1, <1>2, <1>3, <1>4 DEF LifeInv

(* sys_kill, sys_wait and the OOM killer take a reference.                 *)
LEMMA GetRefInv ==
    ASSUME LifeInv, NEW t \in Threads, NEW p \in Procs, NEW op,
           NEW to \in {"k_wake", "w_loop", "d_claim"}, GetRef(t, op, to, p),
           self_killed' \subseteq Procs
    PROVE  LifeInv'
<1> USE LifeAssumption DEF Agents, Local, Carry, Busy, GetRef, Goto, Call, pcb, bodies, work, ghost
<1>1. TypeInv'
  BY DEF LifeInv, TypeInv, TypeOK, Places
<1>2. Token'
  BY DEF LifeInv, TypeInv, TypeOK, Token
<1>3. AtHome'
  BY DEF LifeInv, TypeInv, TypeOK, AtHome, CpuOf
<1>4. Bodies'
  BY DEF LifeInv, TypeInv, TypeOK, Token, Bodies, ToReap, In, NoDup
<1> QED
  BY <1>1, <1>2, <1>3, <1>4 DEF LifeInv

(* The waiters are made ready, or stay as they were.                       *)
LEMMA WakeFirstInv ==
    ASSUME LifeInv, NEW t \in Threads, WakeFirst(t)
    PROVE  LifeInv'
<1> USE LifeAssumption DEF Agents, Local, Carry, Busy
<1>1. CASE pc[t] = "e_wake"
  <2>0. /\ pc[t] = "e_wake" /\ pc' = [pc EXCEPT ![t] = "claim"]
        /\ state' = [u \in Threads |-> IF u \in exit_waiters[obj[t]] /\ state[u] = "BLOCKED" THEN "READY" ELSE state[u]]
        /\ exit_waiters' = [exit_waiters EXCEPT ![obj[t]] = {}]
        /\ UNCHANGED <<pstate, listed, claimed, queued, awaiting, home, refs, published, linked,
                       reap_list, teardown_q, obj, victim, then, finalized, reclaimed, setup, self_killed>>
    BY <1>1 DEF WakeFirst, Goto, WakeExitWaiters, pcb, bodies, work, ghost
  <2>1. TypeInv'
    BY <2>0 DEF LifeInv, TypeInv, TypeOK, Places
  <2>2. Token'
    BY <2>0 DEF LifeInv, TypeInv, TypeOK, Token
  <2>3. AtHome'
    BY <2>0 DEF LifeInv, TypeInv, TypeOK, AtHome, CpuOf
  <2>4. Bodies'
    BY <2>0 DEF LifeInv, TypeInv, TypeOK, Token, Bodies, ToReap, In, NoDup
  <2> QED
    BY <2>1, <2>2, <2>3, <2>4 DEF LifeInv
<1>2. CASE pc[t] # "e_wake"
  <2>0. /\ pc[t] = "k_wake" /\ pc' = [pc EXCEPT ![t] = "claim"]
        /\ state' = [u \in Threads |-> IF u \in exit_waiters[obj[t]] /\ state[u] = "BLOCKED" THEN "READY" ELSE state[u]]
        /\ exit_waiters' = [exit_waiters EXCEPT ![obj[t]] = {}]
        /\ UNCHANGED <<pstate, listed, claimed, queued, awaiting, home, refs, published, linked,
                       reap_list, teardown_q, obj, victim, then, finalized, reclaimed, setup, self_killed>>
    BY <1>2 DEF WakeFirst, Goto, WakeExitWaiters, pcb, bodies, work, ghost
  <2>1. TypeInv'
    BY <2>0 DEF LifeInv, TypeInv, TypeOK, Places
  <2>2. Token'
    BY <2>0 DEF LifeInv, TypeInv, TypeOK, Token
  <2>3. AtHome'
    BY <2>0 DEF LifeInv, TypeInv, TypeOK, AtHome, CpuOf
  <2>4. Bodies'
    BY <2>0 DEF LifeInv, TypeInv, TypeOK, Token, Bodies, ToReap, In, NoDup
  <2> QED
    BY <2>1, <2>2, <2>3, <2>4 DEF LifeInv
<1> QED
  BY <1>1, <1>2

(* sys_wait reads the state of the process.                                *)
LEMMA WaitLoopInv ==
    ASSUME LifeInv, NEW t \in Threads, WaitLoop(t)
    PROVE  LifeInv'
<1> USE LifeAssumption DEF Agents, Local, Carry, Busy, WaitLoop, Goto, pcb, bodies, work, ghost
<1>1. TypeInv'
  BY DEF LifeInv, TypeInv, TypeOK, Places
<1>2. Token'
  BY DEF LifeInv, TypeInv, TypeOK, Token
<1>3. AtHome'
  BY DEF LifeInv, TypeInv, TypeOK, AtHome, CpuOf
<1>4. Bodies'
  BY DEF LifeInv, TypeInv, TypeOK, Token, Bodies, ToReap, In, NoDup
<1> QED
  BY <1>1, <1>2, <1>3, <1>4 DEF LifeInv

(* wait_prepare: the caller, alive, becomes BLOCKED.                       *)
LEMMA WaitPrepareInv ==
    ASSUME LifeInv, NEW t \in Threads, WaitPrepare(t)
    PROVE  LifeInv'
<1> USE LifeAssumption DEF Agents, Local, Carry, Busy, WaitPrepare, Goto, MayRun, pcb, bodies, work, ghost
<1>1. TypeInv'
  BY DEF LifeInv, TypeInv, TypeOK, Places
<1>2. Token'
  BY DEF LifeInv, TypeInv, TypeOK, Token
<1>3. AtHome'
  BY DEF LifeInv, TypeInv, TypeOK, AtHome, CpuOf
<1>4. Bodies'
  BY DEF LifeInv, TypeInv, TypeOK, Token, Bodies, ToReap, In, NoDup
<1> QED
  BY <1>1, <1>2, <1>3, <1>4 DEF LifeInv

(* wait_cancel, or the sleep: the caller is alive.                         *)
LEMMA WaitRecheckInv ==
    ASSUME LifeInv, NEW t \in Threads, WaitRecheck(t)
    PROVE  LifeInv'
<1> USE LifeAssumption DEF Agents, Local, Carry, Busy
<1>1. CASE pstate[obj[t]] = "ZOMBIE"
  <2>0. /\ pc[t] = "w_recheck" /\ pc' = [pc EXCEPT ![t] = "claim"]
        /\ state[t] \in {"READY", "BLOCKED"}
        /\ state' = [state EXCEPT ![t] = "READY"]
        /\ exit_waiters' = [exit_waiters EXCEPT ![obj[t]] = @ \ {t}]
        /\ UNCHANGED <<pstate, listed, claimed, queued, awaiting, home, refs, published, linked,
                       reap_list, teardown_q, obj, victim, then, finalized, reclaimed, setup, self_killed>>
    BY <1>1 DEF WaitRecheck, Goto, MayRun, pcb, bodies, work, ghost
  <2>1. TypeInv'
    BY <2>0 DEF LifeInv, TypeInv, TypeOK, Places
  <2>2. Token'
    BY <2>0 DEF LifeInv, TypeInv, TypeOK, Token
  <2>3. AtHome'
    BY <2>0 DEF LifeInv, TypeInv, TypeOK, AtHome, CpuOf
  <2>4. Bodies'
    BY <2>0 DEF LifeInv, TypeInv, TypeOK, Token, Bodies, ToReap, In, NoDup
  <2> QED
    BY <2>1, <2>2, <2>3, <2>4 DEF LifeInv
<1>2. CASE pstate[obj[t]] # "ZOMBIE"
  <2>0. /\ pc[t] = "w_recheck" /\ pc' = [pc EXCEPT ![t] = "asleep"]
        /\ UNCHANGED <<pstate, listed, claimed, queued, awaiting, home, refs, exit_waiters,
                       published, linked, state, reap_list, teardown_q, obj, victim, then,
                       finalized, reclaimed, setup, self_killed>>
    BY <1>2 DEF WaitRecheck, Goto, MayRun, pcb, bodies, work, ghost
  <2>1. TypeInv'
    BY <2>0 DEF LifeInv, TypeInv, TypeOK, Places
  <2>2. Token'
    BY <2>0 DEF LifeInv, TypeInv, TypeOK, Token
  <2>3. AtHome'
    BY <2>0 DEF LifeInv, TypeInv, TypeOK, AtHome, CpuOf
  <2>4. Bodies'
    BY <2>0 DEF LifeInv, TypeInv, TypeOK, Token, Bodies, ToReap, In, NoDup
  <2> QED
    BY <2>1, <2>2, <2>3, <2>4 DEF LifeInv
<1> QED
  BY <1>1, <1>2

(* destroy_claimed: the loser leaves, the winner gets the token.           *)
LEMMA ClaimInv ==
    ASSUME LifeInv, NEW a \in Agents, Claim(a)
    PROVE  LifeInv'
<1> USE LifeAssumption DEF Agents, Local, Carry, Busy
<1>1. CASE obj[a] \in claimed
  <2>1. Returns(a, "claim")
    BY <1>1 DEF Claim
  <2>2. /\ pc[a] = "claim"
        /\ UNCHANGED <<pstate, listed, claimed, queued, awaiting, home, refs, exit_waiters,
                       published, linked, state, reap_list, teardown_q, victim, then, finalized,
                       reclaimed, setup, self_killed>>
    BY <1>1, <2>1, ReturnsCases DEF LifeInv, Claim, pcb, bodies, work, ghost
  <2>3. CASE pc' = [pc EXCEPT ![a] = "put"] /\ obj' = obj /\ a \notin Cpus
    <3>1. TypeInv'
      BY <1>1, <2>2, <2>3 DEF LifeInv, TypeInv, TypeOK, Places
    <3>2. Token'
      BY <1>1, <2>2, <2>3 DEF LifeInv, TypeInv, TypeOK, Token
    <3>3. AtHome'
      BY <1>1, <2>2, <2>3 DEF LifeInv, TypeInv, TypeOK, AtHome, CpuOf
    <3>4. Bodies'
      BY <1>1, <2>2, <2>3 DEF LifeInv, TypeInv, TypeOK, Token, Bodies, ToReap, In, NoDup
    <3> QED
      BY <3>1, <3>2, <3>3, <3>4 DEF LifeInv
  <2>4. ASSUME NEW x \in {"out", "t_exit", "f_dead"},
               pc' = [pc EXCEPT ![a] = x], obj' = [obj EXCEPT ![a] = None], a \in Cpus => x = "out"
        PROVE  LifeInv'
    <3>1. TypeInv'
      BY <1>1, <2>2, <2>4 DEF LifeInv, TypeInv, TypeOK, Places
    <3>2. Token'
      BY <1>1, <2>2, <2>4 DEF LifeInv, TypeInv, TypeOK, Token
    <3>3. AtHome'
      BY <1>1, <2>2, <2>4 DEF LifeInv, TypeInv, TypeOK, AtHome, CpuOf
    <3>4. Bodies'
      BY <1>1, <2>2, <2>4 DEF LifeInv, TypeInv, TypeOK, Token, Bodies, ToReap, In, NoDup
    <3> QED
      BY <3>1, <3>2, <3>3, <3>4 DEF LifeInv
  <2> QED
    BY <2>1, <2>3, <2>4, ReturnsCases DEF LifeInv
<1>2. CASE obj[a] \notin claimed
  <2>0. /\ pc[a] = "claim" /\ pc' = [pc EXCEPT ![a] = "route"]
        /\ claimed' = claimed \cup {obj[a]}
        /\ UNCHANGED <<pstate, listed, queued, awaiting, home, refs, exit_waiters, published,
                       linked, state, reap_list, teardown_q, obj, victim, then, finalized,
                       reclaimed, setup, self_killed>>
    BY <1>2 DEF Claim, Goto, pcb, bodies, work, ghost
  <2>1. TypeInv'
    BY <1>2, <2>0 DEF LifeInv, TypeInv, TypeOK, Places
  <2>2. Token'
    BY <1>2, <2>0 DEF LifeInv, TypeInv, TypeOK, Token
  <2>3. AtHome'
    BY <1>2, <2>0 DEF LifeInv, TypeInv, TypeOK, AtHome, CpuOf
  <2>4. Bodies'
    BY <1>2, <2>0 DEF LifeInv, TypeInv, TypeOK, Token, Bodies, ToReap, In, NoDup
  <2> QED
    BY <2>1, <2>2, <2>3, <2>4 DEF LifeInv
<1> QED
  BY <1>1, <1>2

(* The token goes on at home, or to the queue of the home CPU.             *)
LEMMA RouteInv ==
    ASSUME LifeInv, NEW a \in Agents, Route(a)
    PROVE  LifeInv'
<1> USE LifeAssumption DEF Agents, Local, Carry, Busy
<1>1. CASE home[obj[a]] # CpuOf(a)
  <2>1. Returns(a, "route")
    BY <1>1 DEF Route
  <2>2. /\ pc[a] = "route"
        /\ teardown_q' = IF obj[a] \in queued THEN teardown_q ELSE [teardown_q EXCEPT ![home[obj[a]]] = @ \cup {obj[a]}]
        /\ queued' = queued \cup {obj[a]}
        /\ UNCHANGED <<pstate, listed, claimed, awaiting, home, refs, exit_waiters, published,
                       linked, state, reap_list, victim, then, finalized, reclaimed, setup, self_killed>>
    BY <1>1, <2>1, ReturnsCases DEF LifeInv, Route, pcb, bodies, work, ghost, Enqueue
  <2>3. CASE pc' = [pc EXCEPT ![a] = "put"] /\ obj' = obj /\ a \notin Cpus
    <3>1. TypeInv'
      BY <1>1, <2>2, <2>3 DEF LifeInv, TypeInv, TypeOK, Places
    <3>2. Token'
      BY <1>1, <2>2, <2>3 DEF LifeInv, TypeInv, TypeOK, Token
    <3>3. AtHome'
      BY <1>1, <2>2, <2>3 DEF LifeInv, TypeInv, TypeOK, AtHome, CpuOf
    <3>4. Bodies'
      BY <1>1, <2>2, <2>3 DEF LifeInv, TypeInv, TypeOK, Token, Bodies, ToReap, In, NoDup
    <3> QED
      BY <3>1, <3>2, <3>3, <3>4 DEF LifeInv
  <2>4. ASSUME NEW x \in {"out", "t_exit", "f_dead"},
               pc' = [pc EXCEPT ![a] = x], obj' = [obj EXCEPT ![a] = None], a \in Cpus => x = "out"
        PROVE  LifeInv'
    <3>1. TypeInv'
      BY <1>1, <2>2, <2>4 DEF LifeInv, TypeInv, TypeOK, Places
    <3>2. Token'
      BY <1>1, <2>2, <2>4 DEF LifeInv, TypeInv, TypeOK, Token
    <3>3. AtHome'
      BY <1>1, <2>2, <2>4 DEF LifeInv, TypeInv, TypeOK, AtHome, CpuOf
    <3>4. Bodies'
      BY <1>1, <2>2, <2>4 DEF LifeInv, TypeInv, TypeOK, Token, Bodies, ToReap, In, NoDup
    <3> QED
      BY <3>1, <3>2, <3>3, <3>4 DEF LifeInv
  <2> QED
    BY <2>1, <2>3, <2>4, ReturnsCases DEF LifeInv
<1>2. CASE home[obj[a]] = CpuOf(a)
  <2>0. /\ pc[a] = "route" /\ pc' = [pc EXCEPT ![a] = "zombie"]
        /\ UNCHANGED <<pstate, listed, claimed, queued, awaiting, home, refs, exit_waiters,
                       published, linked, state, reap_list, teardown_q, obj, victim, then,
                       finalized, reclaimed, setup, self_killed>>
    BY <1>2 DEF Route, Goto, pcb, bodies, work, ghost
  <2>1. TypeInv'
    BY <1>2, <2>0 DEF LifeInv, TypeInv, TypeOK, Places
  <2>2. Token'
    BY <1>2, <2>0 DEF LifeInv, TypeInv, TypeOK, Token
  <2>3. AtHome'
    BY <1>2, <2>0 DEF LifeInv, TypeInv, TypeOK, AtHome, CpuOf
  <2>4. Bodies'
    BY <1>2, <2>0 DEF LifeInv, TypeInv, TypeOK, Token, Bodies, ToReap, In, NoDup
  <2> QED
    BY <2>1, <2>2, <2>3, <2>4 DEF LifeInv
<1> QED
  BY <1>1, <1>2

(* Idle takes the token from its queue.                                    *)
LEMMA TeardownPopInv ==
    ASSUME LifeInv, NEW c \in Cpus, NEW p \in Procs, TeardownPop(c, p)
    PROVE  LifeInv'
<1> USE LifeAssumption DEF Agents, Local, Carry, Busy, TeardownPop, Goto, pcb, bodies, work, ghost
<1>1. TypeInv'
  BY DEF LifeInv, TypeInv, TypeOK, Places
<1>2. Token'
  BY DEF LifeInv, TypeInv, TypeOK, Token
<1>3. AtHome'
  BY DEF LifeInv, TypeInv, TypeOK, Token, AtHome, CpuOf
<1>4. Bodies'
  BY DEF LifeInv, TypeInv, TypeOK, Token, Bodies, ToReap, In, NoDup
<1> QED
  BY <1>1, <1>2, <1>3, <1>4 DEF LifeInv

(* The state of the process changes.                                       *)
LEMMA SetZombieInv ==
    ASSUME LifeInv, NEW a \in Agents, SetZombie(a)
    PROVE  LifeInv'
<1> USE LifeAssumption DEF Agents, Local, Carry, Busy, SetZombie, Goto, pcb, bodies, work, ghost
<1>1. TypeInv'
  BY DEF LifeInv, TypeInv, TypeOK, Places
<1>2. Token'
  BY DEF LifeInv, TypeInv, TypeOK, Token
<1>3. AtHome'
  BY DEF LifeInv, TypeInv, TypeOK, AtHome, CpuOf
<1>4. Bodies'
  BY DEF LifeInv, TypeInv, TypeOK, Token, Bodies, ToReap, In, NoDup
<1> QED
  BY <1>1, <1>2, <1>3, <1>4 DEF LifeInv

(* A victim leaves the list of a process whose end is claimed.             *)
LEMMA TakeOtherInv ==
    ASSUME LifeInv, NEW a \in Agents, TakeOther(a)
    PROVE  LifeInv'
<1> USE LifeAssumption DEF Agents, Local, Carry, Busy
<1>1. CASE {t \in linked : Owner[t] = obj[a]} \ {a} = {}
  <2>0. /\ pc[a] = "take" /\ pc' = [pc EXCEPT ![a] = "unlist"]
        /\ UNCHANGED <<pstate, listed, claimed, queued, awaiting, home, refs, exit_waiters,
                       published, linked, state, reap_list, teardown_q, obj, victim, then,
                       finalized, reclaimed, setup, self_killed>>
    BY <1>1 DEF TakeOther, Goto, pcb, bodies, work, ghost
  <2>1. TypeInv'
    BY <2>0 DEF LifeInv, TypeInv, TypeOK, Places
  <2>2. Token'
    BY <2>0 DEF LifeInv, TypeInv, TypeOK, Token
  <2>3. AtHome'
    BY <2>0 DEF LifeInv, TypeInv, TypeOK, AtHome, CpuOf
  <2>4. Bodies'
    BY <2>0 DEF LifeInv, TypeInv, TypeOK, Token, Bodies, ToReap, In, NoDup
  <2> QED
    BY <2>1, <2>2, <2>3, <2>4 DEF LifeInv
<1>2. ASSUME NEW v \in linked, Owner[v] = obj[a], pc[a] = "take", pc' = [pc EXCEPT ![a] = "slay"],
             linked' = linked \ {v}, victim' = [victim EXCEPT ![a] = v],
             UNCHANGED <<pstate, listed, claimed, queued, awaiting, home, refs, exit_waiters,
                         published, state, reap_list, teardown_q, obj, then, finalized,
                         reclaimed, setup, self_killed>>
      PROVE  LifeInv'
  <2>1. TypeInv'
    BY <1>2 DEF LifeInv, TypeInv, TypeOK, Places
  <2>2. Token'
    BY <1>2 DEF LifeInv, TypeInv, TypeOK, Token
  <2>3. AtHome'
    BY <1>2 DEF LifeInv, TypeInv, TypeOK, AtHome, CpuOf
  <2>4. Bodies'
    BY <1>2 DEF LifeInv, TypeInv, TypeOK, Token, Bodies, ToReap, In, NoDup
  <2> QED
    BY <2>1, <2>2, <2>3, <2>4 DEF LifeInv
<1> QED
  BY <1>1, <1>2 DEF TakeOther, Goto, pcb, bodies, work, ghost

(* A victim that was alive begins to die.                                  *)
LEMMA SlayInv ==
    ASSUME LifeInv, NEW a \in Agents, Slay(a)
    PROVE  LifeInv'
<1> USE LifeAssumption DEF Agents, Local, Carry, Busy
<1>1. CASE state[victim[a]] = "DEAD"
  <2>0. /\ pc[a] = "slay" /\ pc' = [pc EXCEPT ![a] = "take"]
        /\ victim' = [victim EXCEPT ![a] = None]
        /\ UNCHANGED <<pstate, listed, claimed, queued, awaiting, home, refs, exit_waiters,
                       published, linked, state, reap_list, teardown_q, obj, then, finalized,
                       reclaimed, setup, self_killed>>
    BY <1>1 DEF Slay, Goto, pcb, bodies, work, ghost
  <2>1. TypeInv'
    BY <2>0 DEF LifeInv, TypeInv, TypeOK, Places
  <2>2. Token'
    BY <2>0 DEF LifeInv, TypeInv, TypeOK, Token
  <2>3. AtHome'
    BY <2>0 DEF LifeInv, TypeInv, TypeOK, AtHome, CpuOf
  <2>4. Bodies'
    BY <2>0 DEF LifeInv, TypeInv, TypeOK, Token, Bodies, ToReap, In, NoDup
  <2> QED
    BY <2>1, <2>2, <2>3, <2>4 DEF LifeInv
<1>2. CASE state[victim[a]] # "DEAD"
  <2>0. /\ pc[a] = "slay" /\ pc' = [pc EXCEPT ![a] = "detach"]
        /\ state' = [state EXCEPT ![victim[a]] = "DEAD"]
        /\ UNCHANGED <<pstate, listed, claimed, queued, awaiting, home, refs, exit_waiters,
                       published, linked, reap_list, teardown_q, obj, victim, then, finalized,
                       reclaimed, setup, self_killed>>
    BY <1>2 DEF Slay, Goto, pcb, bodies, work, ghost
  <2>5. /\ victim[a] \in Threads /\ Owner[victim[a]] = obj[a]
        /\ state[victim[a]] \in {"READY", "BLOCKED"}
    BY <1>2, <2>0 DEF LifeInv, TypeInv, TypeOK, Bodies
  <2>1. TypeInv'
    BY <2>0, <2>5 DEF LifeInv, TypeInv, TypeOK, Places
  <2>2. Token'
    BY <2>0 DEF LifeInv, TypeInv, TypeOK, Token
  <2>3. AtHome'
    BY <2>0 DEF LifeInv, TypeInv, TypeOK, AtHome, CpuOf
  <2>4. Bodies'
    BY <2>0, <2>5 DEF LifeInv, TypeInv, TypeOK, Token, Bodies, ToReap
  <2> QED
    BY <2>1, <2>2, <2>3, <2>4 DEF LifeInv
<1> QED
  BY <1>1, <1>2

(* The dying thread leaves its queues.                                     *)
LEMMA DetachInv ==
    ASSUME LifeInv, NEW a \in Agents, Detach(a)
    PROVE  LifeInv'
<1> USE LifeAssumption DEF Agents, Local, Carry, Busy, Detach, Goto, pcb, bodies, work, ghost
<1>1. TypeInv'
  BY DEF LifeInv, TypeInv, TypeOK, Places
<1>2. Token'
  BY DEF LifeInv, TypeInv, TypeOK, Token
<1>3. AtHome'
  BY DEF LifeInv, TypeInv, TypeOK, AtHome, CpuOf
<1>4. Bodies'
  BY DEF LifeInv, TypeInv, TypeOK, Token, Bodies, ToReap, In, NoDup
<1> QED
  BY <1>1, <1>2, <1>3, <1>4 DEF LifeInv

(* It comes to the reaper of its home CPU.                                 *)
LEMMA BuryInv ==
    ASSUME LifeInv, NEW a \in Agents, Bury(a)
    PROVE  LifeInv'
<1> USE LifeAssumption DEF Agents, Local, Carry, Busy
<1> DEFINE v == victim[a]
<1>0. /\ pc[a] = "bury" /\ pc' = [pc EXCEPT ![a] = "take"]
      /\ victim' = [victim EXCEPT ![a] = None]
      /\ UNCHANGED <<pstate, listed, claimed, queued, awaiting, home, refs, exit_waiters,
                     published, linked, state, teardown_q, obj, then, finalized, reclaimed,
                     setup, self_killed>>
  BY DEF Bury, Goto, pcb, bodies, work, ghost
<1>5. /\ v \in Threads /\ Owner[v] = obj[a] /\ state[v] = "DEAD" /\ v \in published
      /\ \A c \in Cpus : ~ToReap(v, c)
  BY <1>0 DEF LifeInv, TypeInv, TypeOK, Bodies
<1>6. QueueReap(v)
  BY DEF Bury
<1>7. /\ reap_list' \in [Cpus -> Seq(Threads)] /\ home[Owner[v]] \in Cpus
      /\ \A c \in Cpus : NoDup(reap_list'[c])
      /\ \A c \in Cpus, y \in Threads :
           In(y, reap_list'[c]) <=> In(y, reap_list[c]) \/ (y = v /\ c = home[Owner[v]])
  BY <1>5, <1>6, QueueReapFacts
<1>8. Owner[v] \in claimed
  BY <1>0, <1>5 DEF LifeInv, Token
<1>9. \A b \in Agents : b # a /\ pc[b] \in {"detach", "bury"} => victim[b] # v
  BY <1>0, <1>5 DEF LifeInv, Token, Bodies
<1> HIDE DEF v
<1>1. TypeInv'
  BY <1>0, <1>5, <1>7 DEF LifeInv, TypeInv, TypeOK, Places
<1>2. Token'
  BY <1>0 DEF LifeInv, TypeInv, TypeOK, Token
<1>3. AtHome'
  BY <1>0 DEF LifeInv, TypeInv, TypeOK, AtHome, CpuOf
<1>4. Bodies'
  BY <1>0, <1>5, <1>7, <1>8, <1>9 DEF LifeInv, TypeInv, TypeOK, Bodies, ToReap
<1> QED
  BY <1>1, <1>2, <1>3, <1>4 DEF LifeInv

(* The process leaves the handle table.                                    *)
LEMMA UnlistInv ==
    ASSUME LifeInv, NEW a \in Agents, Unlist(a)
    PROVE  LifeInv'
<1> USE LifeAssumption DEF Agents, Local, Carry, Busy, Unlist, Goto, pcb, bodies, work, ghost
<1>1. TypeInv'
  BY DEF LifeInv, TypeInv, TypeOK, Places
<1>2. Token'
  BY DEF LifeInv, TypeInv, TypeOK, Token
<1>3. AtHome'
  BY DEF LifeInv, TypeInv, TypeOK, AtHome, CpuOf
<1>4. Bodies'
  BY DEF LifeInv, TypeInv, TypeOK, Token, Bodies, ToReap, In, NoDup
<1> QED
  BY <1>1, <1>2, <1>3, <1>4 DEF LifeInv

(* The token passes to the last reaper, or finalize is next.               *)
LEMMA ArmInv ==
    ASSUME LifeInv, NEW a \in Agents, Arm(a)
    PROVE  LifeInv'
<1> USE LifeAssumption DEF Agents, Local, Carry, Busy
<1>1. CASE Of(obj[a]) # {}
  <2>1. Returns(a, "arm")
    BY <1>1 DEF Arm
  <2>2. /\ pc[a] = "arm"
        /\ awaiting' = awaiting \cup {obj[a]}
        /\ UNCHANGED <<pstate, listed, claimed, queued, home, refs, exit_waiters, published,
                       linked, state, reap_list, teardown_q, victim, then, finalized, reclaimed,
                       setup, self_killed>>
    BY <1>1, <2>1, ReturnsCases DEF LifeInv, Arm, pcb, bodies, work, ghost
  <2>3. CASE pc' = [pc EXCEPT ![a] = "put"] /\ obj' = obj /\ a \notin Cpus
    <3>1. TypeInv'
      BY <2>2, <2>3 DEF LifeInv, TypeInv, TypeOK, Places
    <3>2. Token'
      BY <2>2, <2>3 DEF LifeInv, TypeInv, TypeOK, Token
    <3>3. AtHome'
      BY <2>2, <2>3 DEF LifeInv, TypeInv, TypeOK, AtHome, CpuOf
    <3>4. Bodies'
      BY <2>2, <2>3 DEF LifeInv, TypeInv, TypeOK, Token, Bodies, ToReap, In, NoDup
    <3> QED
      BY <3>1, <3>2, <3>3, <3>4 DEF LifeInv
  <2>4. ASSUME NEW x \in {"out", "t_exit", "f_dead"},
               pc' = [pc EXCEPT ![a] = x], obj' = [obj EXCEPT ![a] = None], a \in Cpus => x = "out"
        PROVE  LifeInv'
    <3>1. TypeInv'
      BY <2>2, <2>4 DEF LifeInv, TypeInv, TypeOK, Places
    <3>2. Token'
      BY <2>2, <2>4 DEF LifeInv, TypeInv, TypeOK, Token
    <3>3. AtHome'
      BY <2>2, <2>4 DEF LifeInv, TypeInv, TypeOK, AtHome, CpuOf
    <3>4. Bodies'
      BY <2>2, <2>4 DEF LifeInv, TypeInv, TypeOK, Token, Bodies, ToReap, In, NoDup
    <3> QED
      BY <3>1, <3>2, <3>3, <3>4 DEF LifeInv
  <2> QED
    BY <2>1, <2>3, <2>4, ReturnsCases DEF LifeInv
<1>2. CASE Of(obj[a]) = {}
  <2>0. /\ pc[a] = "arm" /\ pc' = [pc EXCEPT ![a] = "finalize"]
        /\ UNCHANGED <<pstate, listed, claimed, queued, awaiting, home, refs, exit_waiters,
                       published, linked, state, reap_list, teardown_q, obj, victim, then,
                       finalized, reclaimed, setup, self_killed>>
    BY <1>2 DEF Arm, Goto, pcb, bodies, work, ghost
  <2>1. TypeInv'
    BY <2>0 DEF LifeInv, TypeInv, TypeOK, Places
  <2>2. Token'
    BY <2>0 DEF LifeInv, TypeInv, TypeOK, Token
  <2>3. AtHome'
    BY <2>0 DEF LifeInv, TypeInv, TypeOK, AtHome, CpuOf
  <2>4. Bodies'
    BY <2>0 DEF LifeInv, TypeInv, TypeOK, Token, Bodies, ToReap, In, NoDup
  <2> QED
    BY <2>1, <2>2, <2>3, <2>4 DEF LifeInv
<1> QED
  BY <1>1, <1>2

(* The token is spent.                                                     *)
LEMMA FinalizeInv ==
    ASSUME LifeInv, NEW a \in Agents, Finalize(a)
    PROVE  LifeInv'
<1> USE LifeAssumption DEF Agents, Local, Carry, Busy
<1>1. Returns(a, "finalize")
  BY DEF Finalize
<1>2. /\ pc[a] = "finalize"
      /\ finalized' = [finalized EXCEPT ![obj[a]] = @ + 1]
      /\ refs' = [refs EXCEPT ![obj[a]] = @ \ {Slot}]
      /\ reclaimed' \in {reclaimed, reclaimed \cup {obj[a]}}
      /\ UNCHANGED <<pstate, listed, claimed, queued, awaiting, home, exit_waiters, published,
                     linked, state, reap_list, teardown_q, victim, then, setup, self_killed>>
  BY <1>1, ReturnsCases DEF LifeInv, Finalize, pcb, bodies, work, ghost, Drop
<1>3. CASE pc' = [pc EXCEPT ![a] = "put"] /\ obj' = obj /\ a \notin Cpus
  <2>1. TypeInv'
    BY <1>2, <1>3 DEF LifeInv, TypeInv, TypeOK, Places
  <2>2. Token'
    BY <1>2, <1>3 DEF LifeInv, TypeInv, TypeOK, Token
  <2>3. AtHome'
    BY <1>2, <1>3 DEF LifeInv, TypeInv, TypeOK, AtHome, CpuOf
  <2>4. Bodies'
    BY <1>2, <1>3 DEF LifeInv, TypeInv, TypeOK, Token, Bodies, ToReap, In, NoDup
  <2> QED
    BY <2>1, <2>2, <2>3, <2>4 DEF LifeInv
<1>4. ASSUME NEW x \in {"out", "t_exit", "f_dead"},
             pc' = [pc EXCEPT ![a] = x], obj' = [obj EXCEPT ![a] = None], a \in Cpus => x = "out"
      PROVE  LifeInv'
  <2>1. TypeInv'
    BY SMTT(30), <1>2, <1>4 DEF LifeInv, TypeInv, TypeOK, Places
  <2>2. Token'
    BY <1>2, <1>4 DEF LifeInv, TypeInv, TypeOK, Token
  <2>3. AtHome'
    BY <1>2, <1>4 DEF LifeInv, TypeInv, TypeOK, AtHome, CpuOf
  <2>4. Bodies'
    BY <1>2, <1>4 DEF LifeInv, TypeInv, TypeOK, Token, Bodies, ToReap, In, NoDup
  <2> QED
    BY <2>1, <2>2, <2>3, <2>4 DEF LifeInv
<1> QED
  BY <1>1, <1>3, <1>4, ReturnsCases DEF LifeInv

(* A reference is dropped.                                                 *)
LEMMA PutInv ==
    ASSUME LifeInv, NEW t \in Threads, Put(t)
    PROVE  LifeInv'
<1> USE LifeAssumption DEF Agents, Local, Carry, Busy, Put, Goto, Drop, pcb, bodies, work, ghost
<1>1. TypeInv'
  BY DEF LifeInv, TypeInv, TypeOK, Places
<1>2. Token'
  BY DEF LifeInv, TypeInv, TypeOK, Token
<1>3. AtHome'
  BY DEF LifeInv, TypeInv, TypeOK, AtHome, CpuOf
<1>4. Bodies'
  BY DEF LifeInv, TypeInv, TypeOK, Token, Bodies, ToReap, In, NoDup
<1> QED
  BY <1>1, <1>2, <1>3, <1>4 DEF LifeInv

(* A fault: the thread is to end its own process.                          *)
LEMMA FaultBeginInv ==
    ASSUME LifeInv, NEW t \in Threads, FaultBegin(t)
    PROVE  LifeInv'
<1> USE LifeAssumption DEF Agents, Local, Carry, Busy, FaultBegin, Goto, Call, pcb, bodies, work, ghost
<1>1. TypeInv'
  BY DEF LifeInv, TypeInv, TypeOK, Places
<1>2. Token'
  BY DEF LifeInv, TypeInv, TypeOK, Token
<1>3. AtHome'
  BY DEF LifeInv, TypeInv, TypeOK, AtHome, CpuOf
<1>4. Bodies'
  BY DEF LifeInv, TypeInv, TypeOK, Token, Bodies, ToReap, In, NoDup
<1> QED
  BY <1>1, <1>2, <1>3, <1>4 DEF LifeInv

(* The deferred destroy competes for the same claim.                       *)
LEMMA DeferClaimInv ==
    ASSUME LifeInv, NEW a \in Agents, DeferClaim(a)
    PROVE  LifeInv'
<1> USE LifeAssumption DEF Agents, Local, Carry, Busy
<1>1. CASE obj[a] \in claimed
  <2>1. Returns(a, "d_claim")
    BY <1>1 DEF DeferClaim
  <2>2. /\ pc[a] = "d_claim"
        /\ UNCHANGED <<pstate, listed, claimed, queued, awaiting, home, refs, exit_waiters,
                       published, linked, state, reap_list, teardown_q, victim, then, finalized,
                       reclaimed, setup, self_killed>>
    BY <1>1, <2>1, ReturnsCases DEF LifeInv, DeferClaim, pcb, bodies, work, ghost
  <2>3. CASE pc' = [pc EXCEPT ![a] = "put"] /\ obj' = obj /\ a \notin Cpus
    <3>1. TypeInv'
      BY <1>1, <2>2, <2>3 DEF LifeInv, TypeInv, TypeOK, Places
    <3>2. Token'
      BY <1>1, <2>2, <2>3 DEF LifeInv, TypeInv, TypeOK, Token
    <3>3. AtHome'
      BY <1>1, <2>2, <2>3 DEF LifeInv, TypeInv, TypeOK, AtHome, CpuOf
    <3>4. Bodies'
      BY <1>1, <2>2, <2>3 DEF LifeInv, TypeInv, TypeOK, Token, Bodies, ToReap, In, NoDup
    <3> QED
      BY <3>1, <3>2, <3>3, <3>4 DEF LifeInv
  <2>4. ASSUME NEW x \in {"out", "t_exit", "f_dead"},
               pc' = [pc EXCEPT ![a] = x], obj' = [obj EXCEPT ![a] = None], a \in Cpus => x = "out"
        PROVE  LifeInv'
    <3>1. TypeInv'
      BY <1>1, <2>2, <2>4 DEF LifeInv, TypeInv, TypeOK, Places
    <3>2. Token'
      BY <1>1, <2>2, <2>4 DEF LifeInv, TypeInv, TypeOK, Token
    <3>3. AtHome'
      BY <1>1, <2>2, <2>4 DEF LifeInv, TypeInv, TypeOK, AtHome, CpuOf
    <3>4. Bodies'
      BY <1>1, <2>2, <2>4 DEF LifeInv, TypeInv, TypeOK, Token, Bodies, ToReap, In, NoDup
    <3> QED
      BY <3>1, <3>2, <3>3, <3>4 DEF LifeInv
  <2> QED
    BY <2>1, <2>3, <2>4, ReturnsCases DEF LifeInv
<1>2. CASE obj[a] \notin claimed
  <2>0. /\ pc[a] = "d_claim" /\ pc' = [pc EXCEPT ![a] = "d_zombie"]
        /\ claimed' = claimed \cup {obj[a]}
        /\ UNCHANGED <<pstate, listed, queued, awaiting, home, refs, exit_waiters, published,
                       linked, state, reap_list, teardown_q, obj, victim, then, finalized,
                       reclaimed, setup, self_killed>>
    BY <1>2 DEF DeferClaim, Goto, pcb, bodies, work, ghost
  <2>1. TypeInv'
    BY <1>2, <2>0 DEF LifeInv, TypeInv, TypeOK, Places
  <2>2. Token'
    BY <1>2, <2>0 DEF LifeInv, TypeInv, TypeOK, Token
  <2>3. AtHome'
    BY <1>2, <2>0 DEF LifeInv, TypeInv, TypeOK, AtHome, CpuOf
  <2>4. Bodies'
    BY <1>2, <2>0 DEF LifeInv, TypeInv, TypeOK, Token, Bodies, ToReap, In, NoDup
  <2> QED
    BY <2>1, <2>2, <2>3, <2>4 DEF LifeInv
<1> QED
  BY <1>1, <1>2

(* The state of the process changes.                                       *)
LEMMA DeferZombieInv ==
    ASSUME LifeInv, NEW a \in Agents, DeferZombie(a)
    PROVE  LifeInv'
<1> USE LifeAssumption DEF Agents, Local, Carry, Busy, DeferZombie, Goto, pcb, bodies, work, ghost
<1>1. TypeInv'
  BY DEF LifeInv, TypeInv, TypeOK, Places
<1>2. Token'
  BY DEF LifeInv, TypeInv, TypeOK, Token
<1>3. AtHome'
  BY DEF LifeInv, TypeInv, TypeOK, AtHome, CpuOf
<1>4. Bodies'
  BY DEF LifeInv, TypeInv, TypeOK, Token, Bodies, ToReap, In, NoDup
<1> QED
  BY <1>1, <1>2, <1>3, <1>4 DEF LifeInv

(* The waiters are made ready, or stay as they were.                       *)
LEMMA DeferWakeInv ==
    ASSUME LifeInv, NEW a \in Agents, DeferWake(a)
    PROVE  LifeInv'
<1> USE LifeAssumption DEF Agents, Local, Carry, Busy, DeferWake, Goto, WakeExitWaiters, pcb, bodies, work, ghost
<1>1. TypeInv'
  BY DEF LifeInv, TypeInv, TypeOK, Places
<1>2. Token'
  BY DEF LifeInv, TypeInv, TypeOK, Token
<1>3. AtHome'
  BY DEF LifeInv, TypeInv, TypeOK, AtHome, CpuOf
<1>4. Bodies'
  BY DEF LifeInv, TypeInv, TypeOK, Token, Bodies, ToReap, In, NoDup
<1> QED
  BY <1>1, <1>2, <1>3, <1>4 DEF LifeInv

(* The token goes to the queue of the home CPU.                            *)
LEMMA DeferInv ==
    ASSUME LifeInv, NEW a \in Agents, Defer(a)
    PROVE  LifeInv'
<1> USE LifeAssumption DEF Agents, Local, Carry, Busy
<1>1. Returns(a, "d_defer")
  BY DEF Defer
<1>2. /\ pc[a] = "d_defer"
      /\ teardown_q' = IF obj[a] \in queued THEN teardown_q ELSE [teardown_q EXCEPT ![home[obj[a]]] = @ \cup {obj[a]}]
      /\ queued' = queued \cup {obj[a]}
      /\ UNCHANGED <<pstate, listed, claimed, awaiting, home, refs, exit_waiters, published,
                     linked, state, reap_list, victim, then, finalized, reclaimed, setup, self_killed>>
  BY <1>1, ReturnsCases DEF LifeInv, Defer, pcb, bodies, work, ghost, Enqueue
<1>3. CASE pc' = [pc EXCEPT ![a] = "put"] /\ obj' = obj /\ a \notin Cpus
  <2>1. TypeInv'
    BY <1>2, <1>3 DEF LifeInv, TypeInv, TypeOK, Places
  <2>2. Token'
    BY <1>2, <1>3 DEF LifeInv, TypeInv, TypeOK, Token
  <2>3. AtHome'
    BY <1>2, <1>3 DEF LifeInv, TypeInv, TypeOK, AtHome, CpuOf
  <2>4. Bodies'
    BY <1>2, <1>3 DEF LifeInv, TypeInv, TypeOK, Token, Bodies, ToReap, In, NoDup
  <2> QED
    BY <2>1, <2>2, <2>3, <2>4 DEF LifeInv
<1>4. ASSUME NEW x \in {"out", "t_exit", "f_dead"},
             pc' = [pc EXCEPT ![a] = x], obj' = [obj EXCEPT ![a] = None], a \in Cpus => x = "out"
      PROVE  LifeInv'
  <2>1. TypeInv'
    BY <1>2, <1>4 DEF LifeInv, TypeInv, TypeOK, Places
  <2>2. Token'
    BY <1>2, <1>4 DEF LifeInv, TypeInv, TypeOK, Token
  <2>3. AtHome'
    BY <1>2, <1>4 DEF LifeInv, TypeInv, TypeOK, AtHome, CpuOf
  <2>4. Bodies'
    BY <1>2, <1>4 DEF LifeInv, TypeInv, TypeOK, Token, Bodies, ToReap, In, NoDup
  <2> QED
    BY <2>1, <2>2, <2>3, <2>4 DEF LifeInv
<1> QED
  BY <1>1, <1>3, <1>4, ReturnsCases DEF LifeInv

(* The thread is dead and in nobody's hands.                               *)
LEMMA FaultDeadInv ==
    ASSUME LifeInv, NEW t \in Threads, FaultDead(t)
    PROVE  LifeInv'
<1> USE LifeAssumption DEF Agents, Local, Carry, Busy, FaultDead, Goto, pcb, bodies, work, ghost
<1>1. TypeInv'
  BY DEF LifeInv, TypeInv, TypeOK, Places
<1>2. Token'
  BY DEF LifeInv, TypeInv, TypeOK, Token
<1>3. AtHome'
  BY DEF LifeInv, TypeInv, TypeOK, AtHome, CpuOf
<1>4. Bodies'
  BY DEF LifeInv, TypeInv, TypeOK, Token, Bodies, ToReap, In, NoDup
<1> QED
  BY <1>1, <1>2, <1>3, <1>4 DEF LifeInv

(* A new thread is published and linked.                                   *)
LEMMA ThreadCreateInv ==
    ASSUME LifeInv, NEW t \in Threads, NEW u \in Threads, ThreadCreate(t, u)
    PROVE  LifeInv'
<1> USE LifeAssumption DEF Agents, Local, Carry, Busy, ThreadCreate, Goto, Publish, pcb, bodies, work, ghost
<1>1. TypeInv'
  BY DEF LifeInv, TypeInv, TypeOK, Places
<1>2. Token'
  BY DEF LifeInv, TypeInv, TypeOK, Token
<1>3. AtHome'
  BY DEF LifeInv, TypeInv, TypeOK, AtHome, CpuOf
<1>4. Bodies'
  BY DEF LifeInv, TypeInv, TypeOK, Token, Bodies, ToReap, In, NoDup
<1> QED
  BY <1>1, <1>2, <1>3, <1>4 DEF LifeInv

(* sys_thread_exit.                                                        *)
LEMMA ThreadExitBeginInv ==
    ASSUME LifeInv, NEW t \in Threads, ThreadExitBegin(t)
    PROVE  LifeInv'
<1> USE LifeAssumption DEF Agents, Local, Carry, Busy, ThreadExitBegin, Goto, Call, pcb, bodies, work, ghost
<1>1. TypeInv'
  BY DEF LifeInv, TypeInv, TypeOK, Places
<1>2. Token'
  BY DEF LifeInv, TypeInv, TypeOK, Token
<1>3. AtHome'
  BY DEF LifeInv, TypeInv, TypeOK, AtHome, CpuOf
<1>4. Bodies'
  BY DEF LifeInv, TypeInv, TypeOK, Token, Bodies, ToReap, In, NoDup
<1> QED
  BY <1>1, <1>2, <1>3, <1>4 DEF LifeInv

(* The thread comes to the reaper of its home CPU.                         *)
LEMMA ThreadExitInv ==
    ASSUME LifeInv, NEW t \in Threads, ThreadExit(t)
    PROVE  LifeInv'
<1> USE LifeAssumption DEF Agents, Local, Carry, Busy
<1>0. /\ pc[t] = "t_exit" /\ pc' = [pc EXCEPT ![t] = "gone"]
      /\ state[t] \in {"READY", "BLOCKED"}
      /\ state' = [state EXCEPT ![t] = "DEAD"]
      /\ UNCHANGED <<pstate, listed, claimed, queued, awaiting, home, refs, exit_waiters,
                     published, linked, teardown_q, obj, victim, then, finalized, reclaimed,
                     setup, self_killed>>
  BY DEF ThreadExit, Goto, MayRun, pcb, bodies, work, ghost
<1>5. QueueReap(t)
  BY DEF ThreadExit
<1>7. \A c \in Cpus : ~ToReap(t, c)
  BY <1>0 DEF LifeInv, Bodies
<1>6. /\ reap_list' \in [Cpus -> Seq(Threads)] /\ home[Owner[t]] \in Cpus
      /\ \A c \in Cpus : NoDup(reap_list'[c])
      /\ \A c \in Cpus, y \in Threads :
           In(y, reap_list'[c]) <=> In(y, reap_list[c]) \/ (y = t /\ c = home[Owner[t]])
  BY <1>5, <1>7, QueueReapFacts
<1>1. TypeInv'
  BY <1>0, <1>6 DEF LifeInv, TypeInv, TypeOK, Places
<1>2. Token'
  BY <1>0 DEF LifeInv, TypeInv, TypeOK, Token
<1>3. AtHome'
  BY <1>0 DEF LifeInv, TypeInv, TypeOK, AtHome, CpuOf
<1>4. Bodies'
  BY <1>0, <1>6 DEF LifeInv, TypeInv, TypeOK, Token, Bodies, ToReap
<1> QED
  BY <1>1, <1>2, <1>3, <1>4 DEF LifeInv

(* A process is created; nobody works on it but the caller.                *)
LEMMA SpawnCreateInv ==
    ASSUME LifeInv, NEW t \in Threads, NEW p \in Procs, SpawnCreate(t, p)
    PROVE  LifeInv'
<1> USE LifeAssumption DEF Agents, Local, Carry, Busy, SpawnCreate, Goto, Call, pcb, bodies, work, ghost
<1>1. TypeInv'
  BY DEF LifeInv, TypeInv, TypeOK, Places
<1>2. Token'
  BY DEF LifeInv, TypeInv, TypeOK, Token
<1>3. AtHome'
  BY DEF LifeInv, TypeInv, TypeOK, AtHome, CpuOf
<1>4. Bodies'
  BY DEF LifeInv, TypeInv, TypeOK, Token, Bodies, ToReap, In, NoDup
<1> QED
  BY <1>1, <1>2, <1>3, <1>4 DEF LifeInv

(* process_spawn gives up and destroys what it made.                       *)
LEMMA SpawnFailsInv ==
    ASSUME LifeInv, NEW t \in Threads, SpawnFails(t)
    PROVE  LifeInv'
<1> USE LifeAssumption DEF Agents, Local, Carry, Busy, SpawnFails, Goto, pcb, bodies, work, ghost
<1>1. TypeInv'
  BY DEF LifeInv, TypeInv, TypeOK, Places
<1>2. Token'
  BY DEF LifeInv, TypeInv, TypeOK, Token
<1>3. AtHome'
  BY DEF LifeInv, TypeInv, TypeOK, AtHome, CpuOf
<1>4. Bodies'
  BY DEF LifeInv, TypeInv, TypeOK, Token, Bodies, ToReap, In, NoDup
<1> QED
  BY <1>1, <1>2, <1>3, <1>4 DEF LifeInv

(* The first thread is published and linked.                               *)
LEMMA SpawnThreadInv ==
    ASSUME LifeInv, NEW t \in Threads, NEW u \in Threads, SpawnThread(t, u)
    PROVE  LifeInv'
<1> USE LifeAssumption DEF Agents, Local, Carry, Busy
<1>0. /\ pc[t] = "sp_load" /\ state[u] = "none" /\ Owner[u] = obj[t]
      /\ pc' = [pc EXCEPT ![t] = "sp_ready", ![u] = "out"]
      /\ published' = published \cup {u} /\ linked' = linked \cup {u}
      /\ state' = [state EXCEPT ![u] = "READY"]
      /\ UNCHANGED <<pstate, listed, claimed, queued, awaiting, home, refs, exit_waiters,
                     reap_list, teardown_q, obj, victim, then, finalized, reclaimed, setup, self_killed>>
  BY DEF SpawnThread, Publish, pcb, bodies, work, ghost
<1>5. \A b \in Agents : pc'[b] = IF b = u THEN "out" ELSE IF b = t THEN "sp_ready" ELSE pc[b]
  BY <1>0 DEF LifeInv, TypeInv, TypeOK
<1>6. \A d \in Cpus : pc'[d] = pc[d]
  BY <1>5
<1>7. \A d \in Cpus, y \in Threads : ToReap(y, d)' <=> ToReap(y, d)
  BY <1>0, <1>6 DEF ToReap
<1>8. \A b \in Agents : pc'[b] = "slay" => pc[b] = "slay"
  BY <1>0, <1>5
<1>1. TypeInv'
  <2>1. /\ pc' \in [Agents -> Places] /\ published' \subseteq Threads /\ linked' \subseteq Threads
        /\ state' \in [Threads -> {"none", "READY", "BLOCKED", "DEAD"}]
    <3>1. /\ pc \in [Agents -> Places] /\ published \subseteq Threads /\ linked \subseteq Threads
          /\ state \in [Threads -> {"none", "READY", "BLOCKED", "DEAD"}]
      BY DEF LifeInv, TypeInv, TypeOK
    <3> QED
      BY <1>0, <3>1 DEF Places
  <2>2. TypeOK'
    BY <1>0, <1>5, <2>1 DEF LifeInv, TypeInv, TypeOK
  <2>3. pc[t] = "sp_load" /\ obj[t] \in Procs /\ obj' = obj /\ victim' = victim /\ then' = then
    BY <1>0 DEF LifeInv, TypeInv
  <2> QED
    BY <1>5, <2>2, <2>3 DEF LifeInv, TypeInv
<1>2. Token'
  BY SMTT(30), <1>0, <1>5 DEF LifeInv, TypeInv, TypeOK, Token
<1>3. AtHome'
  BY <1>0, <1>5 DEF LifeInv, TypeInv, TypeOK, AtHome, CpuOf
<1>4. Bodies'
  BY <1>0, <1>6, <1>7, <1>8 DEF LifeInv, TypeInv, TypeOK, Bodies
<1> QED
  BY <1>1, <1>2, <1>3, <1>4 DEF LifeInv

(* The state of the process changes.                                       *)
LEMMA SpawnReadyInv ==
    ASSUME LifeInv, NEW t \in Threads, SpawnReady(t)
    PROVE  LifeInv'
<1> USE LifeAssumption DEF Agents, Local, Carry, Busy, SpawnReady, Goto, pcb, bodies, work, ghost
<1>1. TypeInv'
  BY DEF LifeInv, TypeInv, TypeOK, Places
<1>2. Token'
  BY DEF LifeInv, TypeInv, TypeOK, Token
<1>3. AtHome'
  BY DEF LifeInv, TypeInv, TypeOK, AtHome, CpuOf
<1>4. Bodies'
  BY DEF LifeInv, TypeInv, TypeOK, Token, Bodies, ToReap, In, NoDup
<1> QED
  BY <1>1, <1>2, <1>3, <1>4 DEF LifeInv

(* A body passes from the list to the hands of idle.                       *)
LEMMA ReapPopInv ==
    ASSUME LifeInv, NEW c \in Cpus, ReapPop(c)
    PROVE  LifeInv'
<1> USE LifeAssumption DEF Agents, Local, Carry, Busy
<1>0. /\ pc[c] = "out" /\ pc' = [pc EXCEPT ![c] = "reap"]
      /\ reap_list[c] # <<>>
      /\ reap_list' = [reap_list EXCEPT ![c] = Tail(reap_list[c])]
      /\ victim' = [victim EXCEPT ![c] = Head(reap_list[c])]
      /\ UNCHANGED <<pstate, listed, claimed, queued, awaiting, home, refs, exit_waiters,
                     published, linked, state, teardown_q, obj, then, finalized, reclaimed,
                     setup, self_killed>>
  BY DEF ReapPop, Goto, pcb, bodies, work, ghost
<1>5. reap_list[c] \in Seq(Threads) /\ NoDup(reap_list[c])
  BY DEF LifeInv, TypeInv, TypeOK, Bodies
<1>6. /\ Head(reap_list[c]) \in Threads /\ Tail(reap_list[c]) \in Seq(Threads)
      /\ \A y : In(y, reap_list[c]) <=> In(y, Tail(reap_list[c])) \/ y = Head(reap_list[c])
      /\ NoDup(Tail(reap_list[c])) /\ ~In(Head(reap_list[c]), Tail(reap_list[c]))
  BY <1>0, <1>5, TailFacts
<1>7. \A d \in Cpus : reap_list'[d] = IF d = c THEN Tail(reap_list[c]) ELSE reap_list[d]
  BY <1>0 DEF LifeInv, TypeInv, TypeOK
<1>8. \A d \in Cpus, y \in Threads : ToReap(y, d)' <=> ToReap(y, d)
  BY <1>0, <1>6, <1>7 DEF LifeInv, TypeInv, TypeOK, ToReap
<1>9. \A d \in Cpus : NoDup(reap_list[d])' /\ (pc'[d] = "reap" => ~In(victim'[d], reap_list'[d]))
  BY <1>0, <1>6, <1>7 DEF LifeInv, TypeInv, TypeOK, Bodies
<1>1. TypeInv'
  BY <1>0, <1>6 DEF LifeInv, TypeInv, TypeOK, Places
<1>2. Token'
  BY <1>0 DEF LifeInv, TypeInv, TypeOK, Token
<1>3. AtHome'
  BY <1>0 DEF LifeInv, TypeInv, TypeOK, AtHome, CpuOf
<1>4. Bodies'
  BY <1>0, <1>8, <1>9 DEF LifeInv, TypeInv, TypeOK, Bodies
<1> QED
  BY <1>1, <1>2, <1>3, <1>4 DEF LifeInv

(* A body leaves; if it was the last, idle has the token.                  *)
LEMMA ReapDetachInv ==
    ASSUME LifeInv, NEW c \in Cpus, ReapDetach(c)
    PROVE  LifeInv'
<1> USE LifeAssumption DEF Agents, Local, Carry, Busy
<1>1. pc[c] = "reap" /\ victim[c] \in Threads
  BY DEF ReapDetach, LifeInv, TypeInv
<1>2. /\ home[Owner[victim[c]]] = c /\ ~In(victim[c], reap_list[c]) /\ state[victim[c]] = "DEAD"
      /\ \A d \in Cpus : ~In(victim[c], reap_list[d])
      /\ \A d \in Cpus : d # c => ~(pc[d] = "reap" /\ victim[d] = victim[c])
  BY <1>1 DEF LifeInv, Bodies, ToReap
<1>3. CASE Of(Owner[victim[c]]) \subseteq {victim[c]} /\ Owner[victim[c]] \in awaiting
  <2>0. /\ pc' = [pc EXCEPT ![c] = "finalize"] /\ obj' = [obj EXCEPT ![c] = Owner[victim[c]]]
        /\ awaiting' = awaiting \ {Owner[victim[c]]}
        /\ published' = published \ {victim[c]} /\ linked' = linked \ {victim[c]}
        /\ victim' = [victim EXCEPT ![c] = None]
        /\ UNCHANGED <<pstate, listed, claimed, queued, home, refs, exit_waiters, state,
                       reap_list, teardown_q, then, finalized, reclaimed, setup, self_killed>>
    BY <1>3 DEF ReapDetach, Goto, pcb, bodies, work, ghost
  <2>1. TypeInv'
    BY <1>1, <2>0 DEF LifeInv, TypeInv, TypeOK, Places
  <2>2. Token'
    BY <1>1, <1>3, <2>0 DEF LifeInv, TypeInv, TypeOK, Token
  <2>3. AtHome'
    BY <1>1, <1>2, <2>0 DEF LifeInv, TypeInv, TypeOK, AtHome, CpuOf
  <2>4. Bodies'
    BY <1>1, <1>2, <2>0 DEF LifeInv, TypeInv, TypeOK, Token, Bodies, ToReap
  <2> QED
    BY <2>1, <2>2, <2>3, <2>4 DEF LifeInv
<1>4. CASE ~(Of(Owner[victim[c]]) \subseteq {victim[c]} /\ Owner[victim[c]] \in awaiting)
  <2>0. /\ pc' = [pc EXCEPT ![c] = "out"]
        /\ published' = published \ {victim[c]} /\ linked' = linked \ {victim[c]}
        /\ victim' = [victim EXCEPT ![c] = None]
        /\ UNCHANGED <<pstate, listed, claimed, queued, awaiting, home, refs, exit_waiters,
                       state, reap_list, teardown_q, obj, then, finalized, reclaimed, setup, self_killed>>
    BY <1>4 DEF ReapDetach, Goto, pcb, bodies, work, ghost
  <2>1. TypeInv'
    BY <1>1, <2>0 DEF LifeInv, TypeInv, TypeOK, Places
  <2>2. Token'
    BY <1>1, <2>0 DEF LifeInv, TypeInv, TypeOK, Token
  <2>3. AtHome'
    BY <1>1, <2>0 DEF LifeInv, TypeInv, TypeOK, AtHome, CpuOf
  <2>4. Bodies'
    BY <1>1, <1>2, <2>0 DEF LifeInv, TypeInv, TypeOK, Token, Bodies, ToReap
  <2> QED
    BY <2>1, <2>2, <2>3, <2>4 DEF LifeInv
<1> QED
  BY <1>3, <1>4

(* The process moves: nobody ends it, it has no bodies.                    *)
LEMMA MigrateInv ==
    ASSUME LifeInv, NEW p \in Procs, NEW c \in Cpus, Migrate(p, c)
    PROVE  LifeInv'
<1> USE LifeAssumption DEF Agents, Local, Carry, Busy
<1>0. /\ p \notin claimed /\ home' = [home EXCEPT ![p] = c] /\ pc' = pc
      /\ \A t \in linked : Owner[t] = p => state[t] # "DEAD"
      /\ \A t \in Threads : home[Owner[t]] = home[p] => pc[t] \in {"out", "asleep", "gone", "faulted"}
      /\ UNCHANGED <<pstate, listed, claimed, queued, awaiting, refs, exit_waiters, published,
                     linked, state, reap_list, teardown_q, obj, victim, then, finalized,
                     reclaimed, setup, self_killed>>
  BY DEF Migrate, InKernel, pcb, bodies, work, ghost
<1>5. \A q \in Procs : home'[q] = IF q = p THEN c ELSE home[q]
  BY <1>0 DEF LifeInv, TypeInv, TypeOK
<1>6. ASSUME NEW a \in Agents, pc[a] \in Local
      PROVE  obj[a] # p /\ obj[a] \in Procs /\ (a \in Threads => Owner[a] # p)
  BY <1>0, <1>6 DEF LifeInv, TypeInv, Token
<1>1. TypeInv'
  BY <1>0 DEF LifeInv, TypeInv, TypeOK, Places
<1>2. Token'
  BY <1>0, <1>5 DEF LifeInv, TypeInv, TypeOK, Token
<1>3. AtHome'
  BY <1>0, <1>5, <1>6 DEF LifeInv, TypeInv, TypeOK, AtHome, CpuOf
<1>4. Bodies'
  BY <1>0, <1>5 DEF LifeInv, TypeInv, TypeOK, Token, Bodies, ToReap, In, NoDup
<1> QED
  BY <1>1, <1>2, <1>3, <1>4 DEF LifeInv

----------------------------------------------------------------------------
(* Every step of processes, threads and CPUs keeps the invariant.          *)
LEMMA NextInv == LifeInv /\ [Next]_vars => LifeInv'
<1> SUFFICES ASSUME LifeInv, Next PROVE LifeInv'
  BY StutterInv
<1>1. ASSUME NEW a \in Agents, Destroying(a)
      PROVE  LifeInv'
  BY <1>1, ClaimInv, RouteInv, SetZombieInv, TakeOtherInv, SlayInv, DetachInv, BuryInv, UnlistInv, ArmInv, FinalizeInv
     DEF Destroying
<1>2. ASSUME NEW t \in Threads, ThreadStep(t)
      PROVE  LifeInv'
  <2>1. t \in Agents
    BY DEF Agents
  <2>2. CASE Destroying(t)
    BY <2>1, <2>2, <1>1
  <2>3. CASE WakeFirst(t) \/ WaitLoop(t) \/ WaitPrepare(t) \/ WaitRecheck(t) \/ Put(t)
    BY <2>3, WakeFirstInv, WaitLoopInv, WaitPrepareInv, WaitRecheckInv, PutInv
  <2>4. CASE DeferClaim(t) \/ DeferZombie(t) \/ DeferWake(t) \/ Defer(t) \/ FaultDead(t)
    BY <2>1, <2>4, DeferClaimInv, DeferZombieInv, DeferWakeInv, DeferInv, FaultDeadInv
  <2>5. CASE ThreadExit(t) \/ SpawnFails(t) \/ SpawnReady(t) \/ \E u \in Threads : SpawnThread(t, u)
    BY <2>5, ThreadExitInv, SpawnFailsInv, SpawnReadyInv, SpawnThreadInv
  <2> QED
    BY <1>2, <2>2, <2>3, <2>4, <2>5 DEF ThreadStep
<1>3. ASSUME NEW c \in Cpus, IdleStep(c)
      PROVE  LifeInv'
  <2>1. c \in Agents
    BY DEF Agents
  <2> QED
    BY <1>1, <1>3, <2>1, ReapPopInv, ReapDetachInv, TeardownPopInv DEF IdleStep
<1>4. ASSUME NEW t \in Threads, Begin(t)
      PROVE  LifeInv'
  <2>1. CASE ExitBegin(t) \/ FaultBegin(t) \/ ThreadExitBegin(t) \/ \E u \in Threads : ThreadCreate(t, u)
    BY <2>1, ExitBeginInv, FaultBeginInv, ThreadExitBeginInv, ThreadCreateInv
  <2>2. ASSUME NEW p \in Procs, KillBegin(t, p) \/ WaitBegin(t, p) \/ OomBegin(t, p) \/ SpawnCreate(t, p)
        PROVE  LifeInv'
    <3>1. self_killed \subseteq Procs
      BY DEF LifeInv, TypeInv, TypeOK
    <3> QED
      BY <2>2, <3>1, GetRefInv, SpawnCreateInv DEF KillBegin, WaitBegin, OomBegin
  <2> QED
    BY <1>4, <2>1, <2>2 DEF Begin
<1> QED
  BY <1>2, <1>3, <1>4, MigrateInv DEF Next

(* LifeInv is an invariant of every behaviour.                             *)
THEOREM LifeInvariant == Spec => []LifeInv
BY InitInv, NextInv, PTL DEF Spec

(* Pointers, queues and places are of their types.                         *)
THEOREM LifeTypes == Spec => []TypeOK
<1>1. LifeInv => TypeOK
  BY DEF LifeInv, TypeInv
<1> QED
  BY <1>1, LifeInvariant, PTL

(* FinalizedOnce: process_finalize runs at most once for a process,        *)
(* whatever races for its end.                                             *)
THEOREM FinalizedAtMostOnce == Spec => []FinalizedOnce
<1>1. LifeInv => FinalizedOnce
  BY DEF LifeInv, Token, FinalizedOnce
<1> QED
  BY <1>1, LifeInvariant, PTL

(* TeardownAtHome: teardown, reaping and finalize run on the home CPU,     *)
(* although processes move.                                                *)
THEOREM TeardownStaysHome == Spec => []TeardownAtHome
<1>1. LifeInv => TeardownAtHome
  BY DEF LifeInv, AtHome, Local, Bodies, ToReap, TeardownAtHome
<1> QED
  BY <1>1, LifeInvariant, PTL

(* ReapedOnce: a dead thread is given to one reaper once.                  *)
THEOREM BodiesReapedOnce == Spec => []ReapedOnce
<1>1. ASSUME LifeInv PROVE ReapedOnce
  <2>1. \A c \in Cpus : pc[c] = "reap" => victim[c] \in Threads
    BY <1>1, LifeAssumption DEF LifeInv, TypeInv, Agents
  <2>2. \A c \in Cpus : pc[c] = "reap" =>
           victim[c] \in published /\ \A d \in Cpus : ~In(victim[c], reap_list[d])
    BY <1>1, <2>1 DEF LifeInv, Bodies, ToReap
  <2> QED
    BY <1>1, <2>2 DEF LifeInv, Bodies, ToReap, NoDup, ReapedOnce
<1> QED
  BY <1>1, LifeInvariant, PTL

----------------------------------------------------------------------------
(* Ends that are not forgotten, threads that do not outlive their space,   *)
(* PCBs that outlive their users.                                          *)

Alive(t) == state[t] \in {"READY", "BLOCKED"}
Reaping(t) == \E c \in Cpus : ToReap(t, c)
Slain(t) == \E a \in Agents : pc[a] = "slay" /\ victim[a] = t
Felled(t) == \E a \in Agents : pc[a] \in {"detach", "bury"} /\ victim[a] = t
Claiming == {"e_wake", "k_wake", "claim", "d_claim"}
Deferring == {"d_claim", "d_zombie", "d_wake", "d_defer"}
Waiting == {"w_loop", "w_prepare", "w_recheck", "asleep"}
Loads == {"sp_load", "sp_ready"}

(* Nothing is left of, or known of, a process before it is created; the    *)
(* state says ZOMBIE only after the end was claimed.                       *)
Unborn(p) ==
    /\ p \notin listed /\ p \notin claimed /\ refs[p] = {} /\ exit_waiters[p] = {}
    /\ p \notin reclaimed /\ finalized[p] = 0
    /\ \A t \in published : Owner[t] # p
    /\ \A a \in Agents : obj[a] # p
Births ==
    /\ "migrate" \notin Ops => home = setup.home
    /\ \A p \in Procs : pstate[p] = "none" => Unborn(p)
    /\ \A p \in Procs : pstate[p] = "ZOMBIE" => p \in claimed

(* A published body runs, is on its way to the reaper, or has faulted; who *)
(* runs is on its process's list or about to be killed.                    *)
Lives ==
    /\ \A t \in published : Alive(t) \/ (state[t] = "DEAD" /\ (Reaping(t) \/ Felled(t) \/ pc[t] = "faulted"))
    /\ \A t \in Threads : Alive(t) => t \in linked \/ Slain(t)

(* Who is inside a call is alive, since nobody kills a thread of a CPU     *)
(* while that CPU is in a call.                                            *)
Calls ==
    /\ \A t \in Threads : InKernel(t) => Alive(t)
    /\ \A t \in Threads : state[t] = "none" => pc[t] = "gone"
    /\ \A a \in Agents : pc[a] = "slay" => victim[a] # a

(* What an agent has in hand, by what it will do when the end is over.     *)
Hands ==
    /\ \A c \in Cpus : obj[c] # None => pc[c] \in Local
    /\ \A t \in Threads : pc[t] \notin Busy => obj[t] = None
    /\ \A t \in Threads : pc[t] \in Busy =>
         /\ then[t] = "put" => t \in refs[obj[t]] /\ pc[t] \notin Loads \cup {"e_wake"}
         /\ then[t] = "put" /\ obj[t] = Owner[t] /\ pc[t] \in Local \cup {"k_wake", "claim", "route"} =>
               obj[t] \in self_killed \/ (pc[t] = "claim" /\ obj[t] \in claimed)
         /\ then[t] = "t_exit" => obj[t] = Owner[t] /\ pc[t] \in Local \cup {"e_wake", "claim", "route"}
         /\ then[t] = "f_dead" => obj[t] = Owner[t] /\ pc[t] \in Deferring
         /\ then[t] = "out" => /\ obj[t] # Owner[t] /\ "spawn" \in Ops
                               /\ pc[t] \in Local \cup Loads \cup {"claim", "route"}

(* An end that was claimed is in some place.                               *)
Owned ==
    /\ \A p \in queued : \E c \in Cpus : p \in teardown_q[c]
    /\ \A p \in claimed :
          \/ finalized[p] = 1 \/ p \in awaiting \/ \E c \in Cpus : p \in teardown_q[c]
          \/ \E a \in Agents : pc[a] \in Carry /\ obj[a] = p

(* References: the table's until finalize, the one of each call; and what  *)
(* is armed or finalized is in the table no more.                          *)
Counts ==
    /\ \A p \in Procs : pstate[p] # "none" /\ finalized[p] = 0 => Slot \in refs[p]
    /\ \A p \in reclaimed : refs[p] = {} /\ finalized[p] = 1
    /\ \A p \in Procs : p \in awaiting \/ finalized[p] = 1 => p \notin listed
    /\ \A a \in Agents : pc[a] \in {"arm", "finalize"} => obj[a] \notin listed

(* The waiters of a process sleep, or are about to, in sys_wait.           *)
Sleepers ==
    /\ \A p \in Procs : \A t \in exit_waiters[p] :
          obj[t] = p /\ state[t] \in {"BLOCKED", "DEAD"} /\ pc[t] \in {"w_recheck", "asleep"}
    /\ \A t \in Threads : pc[t] \in {"w_recheck", "asleep"} /\ state[t] = "BLOCKED" =>
          t \in exit_waiters[obj[t]]

BaseInv == Births /\ Lives /\ Calls /\ Hands /\ Owned /\ Counts /\ Sleepers

Empty(p) == \A t \in published : Owner[t] # p

(* All processes live on one CPU.                                          *)
OneCpu == "migrate" \notin Ops /\ \A p, q \in Procs : setup.home[p] = setup.home[q]

(* No process is ended from outside while another CPU is loading it; spawn *)
(* happens on one CPU only; who waits for the end of a process shares its  *)
(* CPU, or all ends are deferred ones, which wake after the state changed. *)
KillsTheBorn == "spawn" \in Ops => OneCpu \/ ("kill" \notin Ops /\ "oom" \notin Ops)
SpawnsAtHome == "spawn" \in Ops => OneCpu
WaitsInStep == "wait" \in Ops => OneCpu \/ Ops \cap {"exit", "kill", "spawn"} = {}

(* A process that is being loaded has no threads, and nobody else is about *)
(* to claim its end.                                                       *)
Loading(t) == pc[t] = "sp_load" \/ (pc[t] = "claim" /\ then[t] = "out")
Alone(t) ==
    /\ obj[t] \notin claimed
    /\ \A a \in Agents \ {t} : obj[a] = obj[t] => pc[a] \notin Claiming \cup {"sp_load"}
Loaders == KillsTheBorn => \A t \in Threads : Loading(t) => Empty(obj[t]) /\ Alone(t)

(* Past thread_take_other_from_process only the caller is alive, and it is *)
(* about to exit, unless it has killed its own process; finalize finds no  *)
(* thread, and none comes after it.                                        *)
Spaces ==
    KillsTheBorn =>
      /\ \A a \in Agents : pc[a] \in {"unlist", "arm"} =>
            \A t \in published : Owner[t] = obj[a] /\ t # a => state[t] = "DEAD"
      /\ \A p \in awaiting :
            /\ ~Empty(p)
            /\ p \notin self_killed =>
                  \A t \in published : Owner[t] = p => state[t] = "DEAD" \/ pc[t] = "t_exit"
      /\ \A a \in Agents : pc[a] = "finalize" => Empty(obj[a])
      /\ \A p \in Procs : finalized[p] = 1 => Empty(p)

(* Nobody claims the end of a process between its first thread and READY.  *)
Readiers == SpawnsAtHome => \A t \in Threads : pc[t] = "sp_ready" => Alone(t)

(* Where waiters and enders share no CPU only idle carries ends out.       *)
NoWaits == "wait" \notin Ops => /\ \A p \in Procs : exit_waiters[p] = {}
                                /\ \A t \in Threads : pc[t] \notin Waiting
AllDeferred ==
    WaitsInStep /\ "wait" \in Ops /\ ~OneCpu => \A t \in Threads :
       /\ pc[t] \notin Local \cup Loads \cup {"e_wake", "k_wake", "route"}
       /\ pc[t] = "claim" => obj[t] \in claimed

(* What is queued, armed or past its first step says ZOMBIE.               *)
Zombies ==
    WaitsInStep /\ "wait" \in Ops =>
      /\ \A c \in Cpus : \A p \in teardown_q[c] : pstate[p] = "ZOMBIE"
      /\ \A p \in awaiting : pstate[p] = "ZOMBIE"
      /\ \A a \in Agents : pc[a] \in (Local \ {"zombie"}) \cup {"d_wake", "d_defer"} =>
            pstate[obj[a]] = "ZOMBIE"
      /\ \A c \in Cpus : pc[c] = "zombie" => pstate[obj[c]] = "ZOMBIE"
      /\ \A t \in Threads : pc[t] \in Loads => pstate[obj[t]] = "CREATING"

(* Between the early wake of exit and kill and the state ZOMBIE nobody     *)
(* comes to wait; and who sleeps will be woken.                            *)
Woken ==
    WaitsInStep /\ "wait" \in Ops =>
      \A t \in Threads : pc[t] \in Loads \cup {"claim", "route", "zombie"} =>
        exit_waiters[obj[t]] = {} \/ (pc[t] = "claim" /\ obj[t] \in claimed)
Waited == WaitsInStep => NobodyWaitsForTheDead

MoreInv == /\ BaseInv /\ Loaders /\ Spaces /\ Readiers
           /\ NoWaits /\ AllDeferred /\ Zombies /\ Woken /\ Waited

(* What the parts below need of the types, and of the bodies.              *)
LEMMA Known ==
    ASSUME LifeInv
    PROVE  /\ Threads \subseteq Agents /\ Cpus \subseteq Agents /\ Agents = Threads \cup Cpus
           /\ Threads \cap Cpus = {} /\ None \notin Procs /\ None \notin Agents /\ Slot \notin Agents
           /\ \A t \in Threads : Owner[t] \in Procs
           /\ \A a \in Agents : pc[a] \in Busy => obj[a] \in Procs
           /\ \A p \in Procs : exit_waiters[p] \subseteq Threads
           /\ published \subseteq Threads /\ linked \subseteq Threads
           /\ listed \subseteq Procs /\ claimed \subseteq Procs /\ awaiting \subseteq Procs
           /\ queued \subseteq Procs /\ reclaimed \subseteq Procs
           /\ \A c \in Cpus : teardown_q[c] \subseteq Procs
           /\ \A c \in Cpus : then[c] = "out" /\ pc[c] \in Local \cup {"out", "reap"}
           /\ \A t \in Threads : pc[t] # "reap"
           /\ \A a \in Agents : then[a] \in {"out", "put", "t_exit", "f_dead"}
           /\ \A a \in Agents : pc[a] \in {"slay", "detach", "bury", "reap"} => victim[a] \in Threads
           /\ \A p \in Procs : home[p] \in Cpus /\ finalized[p] \in Nat
           /\ \A t \in Threads : state[t] \in {"none", "READY", "BLOCKED", "DEAD"}
           /\ \A t \in Threads : state[t] \in {"READY", "BLOCKED"} => t \in published
BY LifeAssumption DEF LifeInv, TypeInv, TypeOK, Bodies, Agents

(* Where the functions of the state are defined.                           *)
LEMMA Domains ==
    ASSUME LifeInv
    PROVE  /\ DOMAIN pc = Agents /\ DOMAIN obj = Agents /\ DOMAIN victim = Agents
           /\ DOMAIN then = Agents /\ DOMAIN state = Threads
           /\ DOMAIN pstate = Procs /\ DOMAIN refs = Procs /\ DOMAIN exit_waiters = Procs
           /\ DOMAIN home = Procs /\ DOMAIN finalized = Procs
           /\ DOMAIN teardown_q = Cpus /\ DOMAIN reap_list = Cpus
BY DEF LifeInv, TypeInv, TypeOK

(* The part of it that speaks of agents and what they have in hand.        *)
LEMMA Sorts ==
    ASSUME LifeInv
    PROVE  /\ Threads \subseteq Agents /\ Cpus \subseteq Agents /\ Agents = Threads \cup Cpus
           /\ Threads \cap Cpus = {}
           /\ \A t \in Threads : Owner[t] \in Procs
           /\ \A a \in Agents : pc[a] \in Busy => obj[a] \in Procs
           /\ \A a \in Agents : then[a] \in {"out", "put", "t_exit", "f_dead"}
           /\ awaiting \subseteq Procs /\ \A c \in Cpus : teardown_q[c] \subseteq Procs
           /\ \A c \in Cpus : then[c] = "out" /\ pc[c] \in Local \cup {"out", "reap"}
BY Known

(* The setup, and what depends on it, does not change.                     *)
LEMMA Setting ==
    ASSUME setup' = setup
    PROVE  /\ Ops' = Ops /\ (OneCpu' <=> OneCpu) /\ (KillsTheBorn' <=> KillsTheBorn)
           /\ (SpawnsAtHome' <=> SpawnsAtHome) /\ (WaitsInStep' <=> WaitsInStep)
BY DEF Ops, OneCpu, KillsTheBorn, SpawnsAtHome, WaitsInStep

(* On one CPU nobody else is in a call while a thread runs.                *)
LEMMA OnlyOne ==
    ASSUME LifeInv, Births, NEW a \in Agents, MayRun(a)
    PROVE  /\ a \in Threads => state[a] \in {"READY", "BLOCKED"}
           /\ OneCpu /\ a \in Threads => \A u \in Threads : u # a => ~InKernel(u)
BY Known DEF OneCpu, Births, MayRun, CpuOf

(* Who loads a process does so for sys_spawn.                              *)
LEMMA LoadsSpawn ==
    ASSUME LifeInv, Hands, NEW t \in Threads
    PROVE  /\ pc[t] \in Loads => then[t] = "out"
           /\ pc[t] \in Busy /\ then[t] = "out" => "spawn" \in Ops
BY Known DEF Hands, Loads, Local, Deferring, Busy, Carry

----------------------------------------------------------------------------
(* sys_exit: a live thread of a process that exists turns on its own.      *)
LEMMA ExitBeginMore ==
    ASSUME LifeInv, MoreInv, NEW t \in Threads, ExitBegin(t)
    PROVE  MoreInv'
<1> USE DEF Local, Carry, Busy, Claiming, Deferring, Waiting, Loads, BaseInv, MoreInv
<1>0. /\ pc[t] = "out" /\ state[t] = "READY"
      /\ "exit" \in Ops
      /\ \A b \in Agents : pc'[b] = IF b = t THEN "e_wake" ELSE pc[b]
      /\ \A b \in Agents : obj'[b] = IF b = t THEN Owner[t] ELSE obj[b]
      /\ \A b \in Agents : then'[b] = IF b = t THEN "t_exit" ELSE then[b]
      /\ UNCHANGED <<pstate, listed, claimed, queued, awaiting, home, refs, exit_waiters,
                     published, linked, state, reap_list, teardown_q, victim, finalized,
                     reclaimed, setup, self_killed>>
  BY Known, Domains DEF ExitBegin, Goto, Call, pcb, bodies, work, ghost
<1>1. \A d \in Cpus, y \in Threads : ToReap(y, d)' <=> ToReap(y, d)
  BY <1>0, Known DEF ToReap
<1>2. OneCpu => \A u \in Threads : u # t => ~InKernel(u)
  BY Known, OnlyOne DEF Call, ExitBegin, Goto
<1>3. Births'
  BY <1>0, Known DEF Births, Unborn, Ops
<1>4. Lives'
  BY <1>0, <1>1, Known DEF Lives, Alive, Reaping, Slain, Felled
<1>5. Calls'
  BY <1>0, Known DEF Calls, InKernel, Alive
<1>6. Hands'
  BY <1>0, Known DEF Hands, Ops
<1>7. Owned' /\ Counts' /\ Sleepers'
  BY <1>0, Known DEF LifeInv, Token, Owned, Counts, Sleepers
<1>8. Loaders' /\ Spaces'
  BY <1>0, Setting, Known DEF Loaders, Loading, Alone, Empty, Spaces
<1>9. Readiers'
  BY <1>0, Setting, <1>2, LoadsSpawn, Known DEF Readiers, Alone, SpawnsAtHome, InKernel
<1>10. NoWaits'
  BY <1>0, Setting, Known DEF NoWaits
<1>11. AllDeferred'
  BY <1>0, Setting, Known DEF AllDeferred, WaitsInStep
<1>12. Zombies'
  BY <1>0, Setting, Sorts DEF Zombies
<1>13. Woken'
  BY <1>0, Setting, Sorts DEF Woken
<1>14. Waited'
  BY <1>0, Setting, Sorts DEF Waited, NobodyWaitsForTheDead
<1> QED
  BY <1>3, <1>4, <1>5, <1>6, <1>7, <1>8, <1>9, <1>10, <1>11, <1>12, <1>13, <1>14 DEF BaseInv, MoreInv

(* sys_kill, sys_wait, OOM: a reference to a process still in the table.   *)
LEMMA GetRefMore ==
    ASSUME LifeInv, MoreInv, NEW t \in Threads, NEW p \in Procs, NEW op, NEW to,
           <<op, to>> \in {<<"kill", "k_wake">>, <<"wait", "w_loop">>, <<"oom", "d_claim">>},
           GetRef(t, op, to, p), self_killed \subseteq self_killed',
           op = "kill" /\ p = Owner[t] => p \in self_killed'
    PROVE  MoreInv'
<1> USE DEF Local, Carry, Busy, Claiming, Deferring, Waiting, Loads, BaseInv, MoreInv
<1>0. /\ pc[t] = "out" /\ state[t] = "READY"
      /\ op \in Ops /\ p \in listed
      /\ \A q \in Procs : q # p => refs'[q] = refs[q]
      /\ \A q \in Procs : \A x : x \in refs'[q] <=> x \in refs[q] \/ (q = p /\ x = t)
      /\ \A b \in Agents : pc'[b] = IF b = t THEN to ELSE pc[b]
      /\ \A b \in Agents : obj'[b] = IF b = t THEN p ELSE obj[b]
      /\ \A b \in Agents : then'[b] = IF b = t THEN "put" ELSE then[b]
      /\ UNCHANGED <<pstate, listed, claimed, queued, awaiting, home, exit_waiters, published,
                     linked, state, reap_list, teardown_q, victim, finalized, reclaimed, setup>>
  BY Known, Domains DEF GetRef, Goto, Call, pcb, bodies, work, ghost
<1>1. \A d \in Cpus, y \in Threads : ToReap(y, d)' <=> ToReap(y, d)
  BY <1>0, Known DEF ToReap
<1>2. pstate[p] # "none" /\ finalized[p] # 1
  BY <1>0, Known DEF Births, Unborn, Counts
<1>3. OneCpu => \A u \in Threads : u # t => ~InKernel(u)
  BY Known, OnlyOne DEF Call, GetRef, Goto
<1>4. Births'
  BY <1>0, <1>2, Known DEF Births, Unborn, Ops
<1>5. Lives'
  BY <1>0, <1>1, Known DEF Lives, Alive, Reaping, Slain, Felled
<1>6. Calls'
  BY <1>0, Known DEF Calls, InKernel, Alive
<1>7. Hands'
  BY <1>0, Known DEF Hands, Ops
<1>8. Owned' /\ Sleepers'
  BY <1>0, Known DEF LifeInv, Token, Owned, Sleepers
<1>9. Counts'
  BY <1>0, <1>2, Known DEF LifeInv, Token, Counts
<1>10. Loaders'
  BY <1>0, Setting, <1>3, LoadsSpawn, Known DEF Loaders, Loading, Alone, Empty, KillsTheBorn, InKernel
<1>11. Spaces'
  BY <1>0, Setting, Known DEF Loaders, Loading, Alone, Spaces, Empty
<1>12. Readiers'
  BY <1>0, Setting, <1>3, LoadsSpawn, Known DEF Readiers, Alone, SpawnsAtHome, InKernel
<1>13. NoWaits'
  BY <1>0, Setting, Known DEF NoWaits
<1>14. AllDeferred'
  BY <1>0, Setting, Known DEF AllDeferred, WaitsInStep
<1>15. Zombies'
  BY <1>0, Setting, Sorts DEF Zombies
<1>16. Woken'
  BY <1>0, Setting, Sorts DEF Woken
<1>17. Waited'
  BY <1>0, Setting, Sorts DEF Waited, NobodyWaitsForTheDead
<1> QED
  BY <1>4, <1>5, <1>6, <1>7, <1>8, <1>9, <1>10, <1>11, <1>12, <1>13, <1>14, <1>15, <1>16, <1>17 DEF BaseInv, MoreInv

(* The early wake of exit and kill: the list of waiters becomes empty.     *)
LEMMA WakeFirstMore ==
    ASSUME LifeInv, MoreInv, NEW t \in Threads, WakeFirst(t)
    PROVE  MoreInv'
<1> USE DEF Local, Carry, Busy, Claiming, Deferring, Waiting, Loads, BaseInv, MoreInv
<1>0. /\ pc[t] \in {"e_wake", "k_wake"}
      /\ \A q \in Procs : exit_waiters'[q] = IF q = obj[t] THEN {} ELSE exit_waiters[q]
      /\ \A u \in Threads : state'[u] =
              IF u \in exit_waiters[obj[t]] /\ state[u] = "BLOCKED" THEN "READY" ELSE state[u]
      /\ \A b \in Agents : pc'[b] = IF b = t THEN "claim" ELSE pc[b]
      /\ UNCHANGED <<pstate, listed, claimed, queued, awaiting, home, refs, published, linked,
                     reap_list, teardown_q, obj, victim, then, finalized, reclaimed, setup, self_killed>>
  BY Known, Domains DEF WakeFirst, Goto, WakeExitWaiters, pcb, bodies, work, ghost
<1>1. \A d \in Cpus, y \in Threads : ToReap(y, d)' <=> ToReap(y, d)
  BY <1>0, Known DEF ToReap
<1>2. Births'
  BY <1>0, Known DEF Births, Unborn, Ops
<1>3. Lives'
  BY <1>0, <1>1, Known DEF Lives, Alive, Reaping, Slain, Felled
<1>4. Calls'
  BY <1>0, Known DEF Calls, InKernel, Alive
<1>5. Hands'
  BY <1>0, Known DEF Hands, Ops
<1>6. Owned' /\ Counts' /\ Sleepers'
  BY <1>0, Known DEF LifeInv, Token, Owned, Counts, Sleepers
<1>7. Loaders'
  BY <1>0, Setting, Known DEF Loaders, Loading, Alone, Empty, Hands
<1>8. Spaces' /\ Readiers'
  BY <1>0, Setting, Known DEF Loaders, Loading, Alone, Spaces, Empty, Readiers
<1>9. NoWaits' /\ AllDeferred'
  BY <1>0, Setting, Known DEF NoWaits, AllDeferred
<1>10. Zombies'
  BY <1>0, Setting, Sorts DEF Zombies
<1>11. Woken'
  BY <1>0, Setting, Sorts DEF Woken
<1>12. Waited'
  BY <1>0, Setting, Sorts DEF Waited, NobodyWaitsForTheDead
<1> QED
  BY <1>2, <1>3, <1>4, <1>5, <1>6, <1>7, <1>8, <1>9, <1>10, <1>11, <1>12 DEF BaseInv, MoreInv

(* sys_wait goes on to the end only if the state says ZOMBIE.              *)
LEMMA WaitLoopMore ==
    ASSUME LifeInv, MoreInv, NEW t \in Threads, WaitLoop(t)
    PROVE  MoreInv'
<1> USE DEF Local, Carry, Busy, Claiming, Deferring, Waiting, Loads, BaseInv, MoreInv
<1>0. /\ pc[t] \in {"w_loop", "asleep"} /\ state[t] = "READY"
      /\ pc'[t] = IF pstate[obj[t]] = "ZOMBIE" THEN "claim" ELSE "w_prepare"
      /\ \A b \in Agents : pc'[b] = IF b = t THEN pc'[t] ELSE pc[b]
      /\ UNCHANGED <<pstate, listed, claimed, queued, awaiting, home, refs, exit_waiters,
                     published, linked, state, reap_list, teardown_q, obj, victim, then,
                     finalized, reclaimed, setup, self_killed>>
  BY Known, Domains DEF WaitLoop, Goto, pcb, bodies, work, ghost
<1>1. \A d \in Cpus, y \in Threads : ToReap(y, d)' <=> ToReap(y, d)
  BY <1>0, Known DEF ToReap
<1>2. Births'
  BY <1>0, Known DEF Births, Unborn, Ops
<1>3. Lives'
  BY <1>0, <1>1, Known DEF Lives, Alive, Reaping, Slain, Felled
<1>4. Calls'
  BY <1>0, Known DEF Calls, InKernel, Alive
<1>5. Hands'
  BY <1>0, Known DEF Hands, Ops, Births
<1>6. Owned' /\ Counts' /\ Sleepers'
  BY <1>0, Known DEF LifeInv, Token, Owned, Counts, Sleepers
<1>7. Loaders'
  BY <1>0, Setting, Known DEF Loaders, Loading, Alone, Empty, Hands, Births
<1>8. Spaces'
  BY <1>0, Setting, Known DEF Loaders, Loading, Alone, Spaces, Empty
<1>9. Readiers'
  BY <1>0, Setting, Known DEF Readiers, Alone, Births
<1>10. NoWaits'
  BY <1>0, Setting, Known DEF NoWaits
<1>11. AllDeferred'
  BY <1>0, Setting, Known DEF AllDeferred, Births
<1>12. Zombies'
  BY <1>0, Setting, Sorts DEF Zombies
<1>13. Woken'
  BY <1>0, Setting, Sorts DEF Woken, Births
<1>14. Waited'
  BY <1>0, Setting, Sorts DEF Waited, NobodyWaitsForTheDead
<1> QED
  BY <1>2, <1>3, <1>4, <1>5, <1>6, <1>7, <1>8, <1>9, <1>10, <1>11, <1>12, <1>13, <1>14 DEF BaseInv, MoreInv

(* wait_prepare: nobody is between the early wake and ZOMBIE here.         *)
LEMMA WaitPrepareMore ==
    ASSUME LifeInv, MoreInv, NEW t \in Threads, WaitPrepare(t)
    PROVE  MoreInv'
<1> USE DEF Local, Carry, Busy, Claiming, Deferring, Waiting, Loads, BaseInv, MoreInv
<1>0. /\ pc[t] = "w_prepare"
      /\ state[t] \in {"READY", "BLOCKED"}
      /\ \A q \in Procs : q # obj[t] => exit_waiters'[q] = exit_waiters[q]
      /\ \A q \in Procs : \A x : x \in exit_waiters'[q] <=> x \in exit_waiters[q] \/ (q = obj[t] /\ x = t)
      /\ \A u \in Threads : state'[u] = IF u = t THEN "BLOCKED" ELSE state[u]
      /\ \A b \in Agents : pc'[b] = IF b = t THEN "w_recheck" ELSE pc[b]
      /\ UNCHANGED <<pstate, listed, claimed, queued, awaiting, home, refs, published, linked,
                     reap_list, teardown_q, obj, victim, then, finalized, reclaimed, setup, self_killed>>
  BY Known, Domains DEF WaitPrepare, Goto, MayRun, pcb, bodies, work, ghost
<1>1. \A d \in Cpus, y \in Threads : ToReap(y, d)' <=> ToReap(y, d)
  BY <1>0, Known DEF ToReap
<1>2. obj[t] \in Procs /\ pstate[obj[t]] # "none"
  BY <1>0, Known DEF Births, Unborn
<1>3. OneCpu => \A u \in Threads : u # t => ~InKernel(u)
  BY Known, OnlyOne DEF WaitPrepare, Goto
<1>4. Births'
  BY <1>0, <1>2, Known DEF Births, Unborn, Ops
<1>5. Lives'
  BY <1>0, <1>1, Known DEF Lives, Alive, Reaping, Slain, Felled
<1>6. Calls'
  BY <1>0, Known DEF Calls, InKernel, Alive
<1>7. Hands'
  BY <1>0, Known DEF Hands, Ops
<1>8. Owned' /\ Counts'
  BY <1>0, Known DEF LifeInv, Token, Owned, Counts
<1>9. Sleepers'
  BY <1>0, <1>2, Known DEF Sleepers
<1>10. Loaders' /\ Spaces' /\ Readiers'
  BY <1>0, Setting, Known DEF Loaders, Loading, Alone, Empty, Spaces, Readiers
<1>11. NoWaits' /\ AllDeferred'
  BY <1>0, Setting, Known DEF NoWaits, AllDeferred
<1>12. Zombies'
  BY <1>0, Setting, Sorts DEF Zombies
<1>13. Woken'
  BY <1>0, Setting, <1>3, Sorts DEF Woken, AllDeferred, InKernel
<1>14. Waited'
  BY <1>0, Setting, Sorts DEF Waited, NobodyWaitsForTheDead
<1> QED
  BY <1>4, <1>5, <1>6, <1>7, <1>8, <1>9, <1>10, <1>11, <1>12, <1>13, <1>14 DEF BaseInv, MoreInv

(* wait_cancel after the second look, or sleep while not ZOMBIE.           *)
LEMMA WaitRecheckMore ==
    ASSUME LifeInv, MoreInv, NEW t \in Threads, WaitRecheck(t)
    PROVE  MoreInv'
<1> USE DEF Local, Carry, Busy, Claiming, Deferring, Waiting, Loads, BaseInv, MoreInv
<1>1. CASE pstate[obj[t]] = "ZOMBIE"
  <2>0. /\ pc[t] = "w_recheck"
        /\ state[t] \in {"READY", "BLOCKED"}
        /\ \A q \in Procs : q # obj[t] => exit_waiters'[q] = exit_waiters[q]
        /\ \A q \in Procs : \A x : x \in exit_waiters'[q] <=> x \in exit_waiters[q] /\ ~(q = obj[t] /\ x = t)
        /\ \A u \in Threads : state'[u] = IF u = t THEN "READY" ELSE state[u]
        /\ \A b \in Agents : pc'[b] = IF b = t THEN "claim" ELSE pc[b]
        /\ UNCHANGED <<pstate, listed, claimed, queued, awaiting, home, refs, published, linked,
                       reap_list, teardown_q, obj, victim, then, finalized, reclaimed, setup, self_killed>>
    BY <1>1, Known, Domains DEF WaitRecheck, Goto, MayRun, pcb, bodies, work, ghost
  <2>1. \A d \in Cpus, y \in Threads : ToReap(y, d)' <=> ToReap(y, d)
    BY <2>0, <1>1, Known DEF ToReap
  <2>2. obj[t] \in Procs /\ pstate[obj[t]] # "none"
    BY <2>0, <1>1, Known DEF Births, Unborn
  <2>3. Births'
    BY <2>0, <1>1, <2>2, Known DEF Births, Unborn, Ops
  <2>4. Lives'
    BY <2>0, <1>1, <2>1, Known DEF Lives, Alive, Reaping, Slain, Felled
  <2>5. Calls'
    BY <2>0, <1>1, Known DEF Calls, InKernel, Alive
  <2>6. Hands'
    BY <2>0, <1>1, Known DEF Hands, Ops, Births
  <2>7. Owned' /\ Counts'
    BY <2>0, <1>1, Known DEF LifeInv, Token, Owned, Counts
  <2>8. Sleepers'
    BY <2>0, <1>1, <2>2, Known DEF Sleepers
  <2>9. Loaders'
    BY <2>0, <1>1, Setting, Known DEF Loaders, Loading, Alone, Empty, Hands, Births
  <2>10. Spaces'
    BY <2>0, <1>1, Setting, Known DEF Loaders, Loading, Alone, Spaces, Empty
  <2>11. Readiers'
    BY <2>0, <1>1, Setting, Known DEF Readiers, Alone, Births
  <2>12. NoWaits'
    BY <2>0, <1>1, Setting, Known DEF NoWaits
  <2>13. AllDeferred'
    BY <2>0, <1>1, Setting, Known DEF AllDeferred, Births
  <2>14. Zombies'
    BY <2>0, <1>1, Setting, Sorts DEF Zombies
  <2>15. Woken'
    BY <2>0, <1>1, Setting, Sorts DEF Woken, Births
  <2>16. Waited'
    BY <2>0, <1>1, Setting, Sorts DEF Waited, NobodyWaitsForTheDead
  <2> QED
    BY <2>3, <2>4, <2>5, <2>6, <2>7, <2>8, <2>9, <2>10, <2>11, <2>12, <2>13, <2>14, <2>15, <2>16 DEF BaseInv, MoreInv
<1>2. CASE pstate[obj[t]] # "ZOMBIE"
  <2>0. /\ pc[t] = "w_recheck"
        /\ \A b \in Agents : pc'[b] = IF b = t THEN "asleep" ELSE pc[b]
        /\ UNCHANGED <<pstate, listed, claimed, queued, awaiting, home, refs, exit_waiters,
                       published, linked, state, reap_list, teardown_q, obj, victim, then,
                       finalized, reclaimed, setup, self_killed>>
    BY <1>2, Known, Domains DEF WaitRecheck, Goto, pcb, bodies, work, ghost
  <2>1. \A d \in Cpus, y \in Threads : ToReap(y, d)' <=> ToReap(y, d)
    BY <2>0, <1>2, Known DEF ToReap
  <2>2. Births'
    BY <2>0, <1>2, Known DEF Births, Unborn, Ops
  <2>3. Lives'
    BY <2>0, <1>2, <2>1, Known DEF Lives, Alive, Reaping, Slain, Felled
  <2>4. Calls'
    BY <2>0, <1>2, Known DEF Calls, InKernel, Alive
  <2>5. Hands'
    BY <2>0, <1>2, Known DEF Hands, Ops
  <2>6. Owned' /\ Counts' /\ Sleepers'
    BY <2>0, <1>2, Known DEF LifeInv, Token, Owned, Counts, Sleepers
  <2>7. Loaders' /\ Spaces' /\ Readiers'
    BY <2>0, <1>2, Setting, Known DEF Loaders, Loading, Alone, Empty, Spaces, Readiers
  <2>8. NoWaits' /\ AllDeferred'
    BY <2>0, <1>2, Setting, Known DEF NoWaits, AllDeferred
  <2>9. Zombies'
    BY <2>0, <1>2, Setting, Sorts DEF Zombies
  <2>10. Woken'
    BY <2>0, <1>2, Setting, Sorts DEF Woken
  <2>11. Waited'
    BY <2>0, <1>2, Setting, Sorts DEF Waited, NobodyWaitsForTheDead
  <2> QED
    BY <2>2, <2>3, <2>4, <2>5, <2>6, <2>7, <2>8, <2>9, <2>10, <2>11 DEF BaseInv, MoreInv
<1> QED
  BY <1>1, <1>2

(* destroy_claimed: who loses leaves, who wins carries the end.            *)
LEMMA ClaimMore ==
    ASSUME LifeInv, MoreInv, NEW a \in Agents, Claim(a)
    PROVE  MoreInv'
<1> USE DEF Local, Carry, Busy, Claiming, Deferring, Waiting, Loads, BaseInv, MoreInv
<1>1. CASE obj[a] \in claimed
  <2>0. /\ pc[a] = "claim"
        /\ \A b \in Agents : pc'[b] = IF b = a THEN then[a] ELSE pc[b]
        /\ \A b \in Agents : obj'[b] = IF b = a /\ then[a] # "put" THEN None ELSE obj[b]
        /\ UNCHANGED <<pstate, listed, claimed, queued, awaiting, home, refs, exit_waiters,
                       published, linked, state, reap_list, teardown_q, victim, then, finalized,
                       reclaimed, setup, self_killed>>
    BY <1>1, Known, Domains DEF Claim, Returns, Goto, pcb, bodies, work, ghost
  <2>1. \A d \in Cpus, y \in Threads : ToReap(y, d)' <=> ToReap(y, d)
    BY <2>0, <1>1, Known DEF ToReap
  <2>2. Births'
    BY <2>0, <1>1, Known DEF Births, Unborn, Ops
  <2>3. Lives'
    BY <2>0, <1>1, <2>1, Known DEF Lives, Alive, Reaping, Slain, Felled
  <2>4. Calls'
    BY <2>0, <1>1, Known DEF Calls, InKernel, Alive
  <2>5. Hands'
    BY <2>0, <1>1, Known DEF Hands, Ops
  <2>6. Owned' /\ Counts' /\ Sleepers'
    BY <2>0, <1>1, Known DEF LifeInv, Token, Owned, Counts, Sleepers
  <2>7. Loaders' /\ Spaces' /\ Readiers'
    BY <2>0, <1>1, Setting, Known DEF Loaders, Loading, Alone, Empty, Spaces, Readiers
  <2>8. NoWaits' /\ AllDeferred'
    BY <2>0, <1>1, Setting, Known DEF NoWaits, AllDeferred
  <2>9. Zombies'
    BY <2>0, <1>1, Setting, Sorts DEF Zombies
  <2>10. Woken'
    BY <2>0, <1>1, Setting, Sorts DEF Woken
  <2>11. Waited'
    BY <2>0, <1>1, Setting, Sorts DEF Waited, NobodyWaitsForTheDead
  <2> QED
    BY <2>2, <2>3, <2>4, <2>5, <2>6, <2>7, <2>8, <2>9, <2>10, <2>11 DEF BaseInv, MoreInv
<1>2. CASE obj[a] \notin claimed
  <2>0. /\ pc[a] = "claim"
        /\ claimed' = claimed \cup {obj[a]}
        /\ \A b \in Agents : pc'[b] = IF b = a THEN "route" ELSE pc[b]
        /\ UNCHANGED <<pstate, listed, queued, awaiting, home, refs, exit_waiters, published,
                       linked, state, reap_list, teardown_q, obj, victim, then, finalized,
                       reclaimed, setup, self_killed>>
    BY <1>2, Known, Domains DEF Claim, Goto, pcb, bodies, work, ghost
  <2>1. \A d \in Cpus, y \in Threads : ToReap(y, d)' <=> ToReap(y, d)
    BY <2>0, <1>2, Known DEF ToReap
  <2>2. Births'
    BY <2>0, <1>2, Known DEF Births, Unborn, Ops
  <2>3. Lives'
    BY <2>0, <1>2, <2>1, Known DEF Lives, Alive, Reaping, Slain, Felled
  <2>4. Calls'
    BY <2>0, <1>2, Known DEF Calls, InKernel, Alive
  <2>5. Hands'
    BY <2>0, <1>2, Known DEF Hands, Ops
  <2>6. Owned' /\ Counts' /\ Sleepers'
    BY <2>0, <1>2, Known DEF LifeInv, Token, Owned, Counts, Sleepers
  <2>7. Loaders' /\ Spaces' /\ Readiers'
    BY <2>0, <1>2, Setting, Known DEF Loaders, Loading, Alone, Empty, Spaces, Readiers
  <2>8. NoWaits' /\ AllDeferred'
    BY <2>0, <1>2, Setting, Known DEF NoWaits, AllDeferred
  <2>9. Zombies'
    BY <2>0, <1>2, Setting, Sorts DEF Zombies
  <2>10. Woken'
    BY <2>0, <1>2, Setting, Sorts DEF Woken
  <2>11. Waited'
    BY <2>0, <1>2, Setting, Sorts DEF Waited, NobodyWaitsForTheDead
  <2> QED
    BY <2>2, <2>3, <2>4, <2>5, <2>6, <2>7, <2>8, <2>9, <2>10, <2>11 DEF BaseInv, MoreInv
<1> QED
  BY <1>1, <1>2

(* The end goes on here, or is queued, then ZOMBIE if anybody may wait.    *)
LEMMA RouteMore ==
    ASSUME LifeInv, MoreInv, NEW a \in Agents, Route(a)
    PROVE  MoreInv'
<1> USE DEF Local, Carry, Busy, Claiming, Deferring, Waiting, Loads, BaseInv, MoreInv
<1>1. CASE home[obj[a]] # CpuOf(a)
  <2>0. /\ pc[a] = "route"
        /\ queued' = queued \cup {obj[a]}
        /\ \A c \in Cpus : \A x : x \in teardown_q'[c] <=> x \in teardown_q[c] \/ (x = obj[a] /\ c = home[x] /\ x \notin queued)
        /\ \A b \in Agents : pc'[b] = IF b = a THEN then[a] ELSE pc[b]
        /\ \A b \in Agents : obj'[b] = IF b = a /\ then[a] # "put" THEN None ELSE obj[b]
        /\ UNCHANGED <<pstate, listed, claimed, awaiting, home, refs, exit_waiters, published,
                       linked, state, reap_list, victim, then, finalized, reclaimed, setup, self_killed>>
    BY <1>1, Known, Domains DEF Route, Enqueue, Returns, Goto, pcb, bodies, work, ghost
  <2>1. \A d \in Cpus, y \in Threads : ToReap(y, d)' <=> ToReap(y, d)
    BY <2>0, <1>1, Known DEF ToReap
  <2>2. Births'
    BY <2>0, <1>1, Known DEF Births, Unborn, Ops
  <2>3. Lives'
    BY <2>0, <1>1, <2>1, Known DEF Lives, Alive, Reaping, Slain, Felled
  <2>4. Calls'
    BY <2>0, <1>1, Known DEF Calls, InKernel, Alive
  <2>5. Hands'
    BY <2>0, <1>1, Known DEF Hands, Ops
  <2>6. Owned' /\ Counts' /\ Sleepers'
    BY <2>0, <1>1, Known DEF LifeInv, Token, Owned, Counts, Sleepers
  <2>7. Loaders' /\ Spaces' /\ Readiers'
    BY <2>0, <1>1, Setting, Known DEF Loaders, Loading, Alone, Empty, Spaces, Readiers
  <2>8. NoWaits' /\ AllDeferred'
    BY <2>0, <1>1, Setting, Known DEF NoWaits, AllDeferred
  <2>9. Zombies'
    BY <2>0, <1>1, Setting, Sorts DEF Zombies, AllDeferred, OneCpu, Births, CpuOf
  <2>10. Woken'
    BY <2>0, <1>1, Setting, Sorts DEF Woken
  <2>11. Waited'
    BY <2>0, <1>1, Setting, Sorts DEF Waited, NobodyWaitsForTheDead
  <2> QED
    BY <2>2, <2>3, <2>4, <2>5, <2>6, <2>7, <2>8, <2>9, <2>10, <2>11 DEF BaseInv, MoreInv
<1>2. CASE home[obj[a]] = CpuOf(a)
  <2>0. /\ pc[a] = "route"
        /\ \A b \in Agents : pc'[b] = IF b = a THEN "zombie" ELSE pc[b]
        /\ UNCHANGED <<pstate, listed, claimed, queued, awaiting, home, refs, exit_waiters,
                       published, linked, state, reap_list, teardown_q, obj, victim, then,
                       finalized, reclaimed, setup, self_killed>>
    BY <1>2, Known, Domains DEF Route, Goto, pcb, bodies, work, ghost
  <2>1. \A d \in Cpus, y \in Threads : ToReap(y, d)' <=> ToReap(y, d)
    BY <2>0, <1>2, Known DEF ToReap
  <2>2. Births'
    BY <2>0, <1>2, Known DEF Births, Unborn, Ops
  <2>3. Lives'
    BY <2>0, <1>2, <2>1, Known DEF Lives, Alive, Reaping, Slain, Felled
  <2>4. Calls'
    BY <2>0, <1>2, Known DEF Calls, InKernel, Alive
  <2>5. Hands'
    BY <2>0, <1>2, Known DEF Hands, Ops
  <2>6. Owned' /\ Counts' /\ Sleepers'
    BY <2>0, <1>2, Known DEF LifeInv, Token, Owned, Counts, Sleepers
  <2>7. Loaders' /\ Spaces' /\ Readiers'
    BY <2>0, <1>2, Setting, Known DEF Loaders, Loading, Alone, Empty, Spaces, Readiers
  <2>8. NoWaits' /\ AllDeferred'
    BY <2>0, <1>2, Setting, Known DEF NoWaits, AllDeferred
  <2>9. Zombies'
    BY <2>0, <1>2, Setting, Sorts DEF Zombies
  <2>10. Woken'
    BY <2>0, <1>2, Setting, Sorts DEF Woken
  <2>11. Waited'
    BY <2>0, <1>2, Setting, Sorts DEF Waited, NobodyWaitsForTheDead
  <2> QED
    BY <2>2, <2>3, <2>4, <2>5, <2>6, <2>7, <2>8, <2>9, <2>10, <2>11 DEF BaseInv, MoreInv
<1> QED
  BY <1>1, <1>2

(* An end goes from the queue of the home CPU into the hands of idle.      *)
LEMMA TeardownPopMore ==
    ASSUME LifeInv, MoreInv, NEW c \in Cpus, NEW p \in Procs, TeardownPop(c, p)
    PROVE  MoreInv'
<1> USE DEF Local, Carry, Busy, Claiming, Deferring, Waiting, Loads, BaseInv, MoreInv
<1>0. /\ pc[c] = "out" /\ p \in teardown_q[c]
      /\ queued' = queued \ {p}
      /\ \A d \in Cpus : d # c => teardown_q'[d] = teardown_q[d]
      /\ \A d \in Cpus : \A x : x \in teardown_q'[d] <=> x \in teardown_q[d] /\ ~(d = c /\ x = p)
      /\ \A b \in Agents : pc'[b] = IF b = c THEN "zombie" ELSE pc[b]
      /\ \A b \in Agents : obj'[b] = IF b = c THEN p ELSE obj[b]
      /\ UNCHANGED <<pstate, listed, claimed, awaiting, home, refs, exit_waiters, published,
                     linked, state, reap_list, victim, then, finalized, reclaimed, setup, self_killed>>
  BY Known, Domains DEF TeardownPop, Goto, pcb, bodies, work, ghost
<1>1. \A d \in Cpus, y \in Threads : ToReap(y, d)' <=> ToReap(y, d)
  BY <1>0, Known DEF ToReap
<1>2. p \in claimed /\ home[p] = c
  BY <1>0 DEF LifeInv, Token
<1>3. Births'
  BY <1>0, <1>2, Known DEF Births, Unborn, Ops
<1>4. Lives'
  BY <1>0, <1>1, Known DEF Lives, Alive, Reaping, Slain, Felled
<1>5. Calls'
  BY <1>0, Known DEF Calls, InKernel, Alive
<1>6. Hands'
  BY <1>0, Known DEF Hands, Ops
<1>7. Owned' /\ Counts' /\ Sleepers'
  BY <1>0, Known DEF LifeInv, Token, Owned, Counts, Sleepers
<1>8. Loaders' /\ Spaces' /\ Readiers'
  BY <1>0, Setting, Known DEF Loaders, Loading, Alone, Empty, Spaces, Readiers
<1>9. NoWaits' /\ AllDeferred'
  BY <1>0, Setting, Known DEF NoWaits, AllDeferred
<1>10. Zombies'
  BY <1>0, Setting, Sorts DEF Zombies
<1>11. Woken'
  BY <1>0, Setting, Sorts DEF Woken
<1>12. Waited'
  BY <1>0, Setting, Sorts DEF Waited, NobodyWaitsForTheDead
<1> QED
  BY <1>3, <1>4, <1>5, <1>6, <1>7, <1>8, <1>9, <1>10, <1>11, <1>12 DEF BaseInv, MoreInv

(* The state says ZOMBIE when nobody waits unwoken any more.               *)
LEMMA SetZombieMore ==
    ASSUME LifeInv, MoreInv, NEW a \in Agents, SetZombie(a)
    PROVE  MoreInv'
<1> USE DEF Local, Carry, Busy, Claiming, Deferring, Waiting, Loads, BaseInv, MoreInv
<1>0. /\ pc[a] = "zombie"
      /\ \A q \in Procs : pstate'[q] = IF q = obj[a] THEN "ZOMBIE" ELSE pstate[q]
      /\ \A b \in Agents : pc'[b] = IF b = a THEN "take" ELSE pc[b]
      /\ UNCHANGED <<listed, claimed, queued, awaiting, home, refs, exit_waiters, published,
                     linked, state, reap_list, teardown_q, obj, victim, then, finalized,
                     reclaimed, setup, self_killed>>
  BY Known, Domains DEF SetZombie, Goto, pcb, bodies, work, ghost
<1>1. \A d \in Cpus, y \in Threads : ToReap(y, d)' <=> ToReap(y, d)
  BY <1>0, Known DEF ToReap
<1>2. obj[a] \in claimed /\ pstate[obj[a]] # "none"
  BY <1>0, Known DEF LifeInv, Token, Births, Unborn
<1>3. OneCpu /\ a \in Threads => \A u \in Threads : u # a => ~InKernel(u)
  BY Known, OnlyOne DEF SetZombie, Goto
<1>4. Births'
  BY <1>0, <1>2, Known DEF Births, Unborn, Ops
<1>5. Lives'
  BY <1>0, <1>1, Known DEF Lives, Alive, Reaping, Slain, Felled
<1>6. Calls'
  BY <1>0, Known DEF Calls, InKernel, Alive
<1>7. Hands'
  BY <1>0, Known DEF Hands, Ops
<1>8. Owned' /\ Sleepers'
  BY <1>0, Known DEF LifeInv, Token, Owned, Sleepers
<1>9. Counts'
  BY <1>0, <1>2, Known DEF LifeInv, Token, Counts
<1>10. Loaders' /\ Spaces' /\ Readiers'
  BY <1>0, Setting, Known DEF Loaders, Loading, Alone, Empty, Spaces, Readiers
<1>11. NoWaits' /\ AllDeferred'
  BY <1>0, Setting, Known DEF NoWaits, AllDeferred
<1>12. Zombies'
  BY <1>0, Setting, <1>3, Sorts DEF Zombies, AllDeferred, InKernel
<1>13. Woken'
  BY <1>0, Setting, Sorts DEF Woken
<1>14. Waited'
  BY <1>0, Setting, Sorts DEF Waited, NobodyWaitsForTheDead, Woken, Sleepers, Zombies, NoWaits
<1> QED
  BY <1>4, <1>5, <1>6, <1>7, <1>8, <1>9, <1>10, <1>11, <1>12, <1>13, <1>14 DEF BaseInv, MoreInv

(* Out of the loop only when no other thread of the process is alive.      *)
LEMMA TakeOtherMore ==
    ASSUME LifeInv, MoreInv, NEW a \in Agents, TakeOther(a)
    PROVE  MoreInv'
<1> USE DEF Local, Carry, Busy, Claiming, Deferring, Waiting, Loads, BaseInv, MoreInv
<1>1. CASE {t \in linked : Owner[t] = obj[a]} \ {a} = {}
  <2>0. /\ pc[a] = "take"
        /\ \A b \in Agents : pc'[b] = IF b = a THEN "unlist" ELSE pc[b]
        /\ UNCHANGED <<pstate, listed, claimed, queued, awaiting, home, refs, exit_waiters,
                       published, linked, state, reap_list, teardown_q, obj, victim, then,
                       finalized, reclaimed, setup, self_killed>>
    BY <1>1, Known, Domains DEF TakeOther, Goto, pcb, bodies, work, ghost
  <2>1. \A d \in Cpus, y \in Threads : ToReap(y, d)' <=> ToReap(y, d)
    BY <2>0, <1>1, Known DEF ToReap
  <2>2. Births'
    BY <2>0, <1>1, Known DEF Births, Unborn, Ops
  <2>3. Lives'
    BY <2>0, <1>1, <2>1, Known DEF Lives, Alive, Reaping, Slain, Felled
  <2>4. Calls'
    BY <2>0, <1>1, Known DEF Calls, InKernel, Alive
  <2>5. Hands'
    BY <2>0, <1>1, Known DEF Hands, Ops
  <2>6. Owned' /\ Counts' /\ Sleepers'
    BY <2>0, <1>1, Known DEF LifeInv, Token, Owned, Counts, Sleepers
  <2>7. Loaders' /\ Readiers'
    BY <2>0, <1>1, Setting, Known DEF Loaders, Loading, Alone, Empty, Readiers
  <2>8. Spaces'
    BY <2>0, <1>1, Setting, Known DEF Loaders, Loading, Alone, Spaces, Empty, Lives, Alive, Slain, LifeInv, Token, Bodies
  <2>9. NoWaits' /\ AllDeferred'
    BY <2>0, <1>1, Setting, Known DEF NoWaits, AllDeferred
  <2>10. Zombies'
    BY <2>0, <1>1, Setting, Sorts DEF Zombies
  <2>11. Woken'
    BY <2>0, <1>1, Setting, Sorts DEF Woken
  <2>12. Waited'
    BY <2>0, <1>1, Setting, Sorts DEF Waited, NobodyWaitsForTheDead
  <2> QED
    BY <2>2, <2>3, <2>4, <2>5, <2>6, <2>7, <2>8, <2>9, <2>10, <2>11, <2>12 DEF BaseInv, MoreInv
<1>2. ASSUME NEW v \in linked, Owner[v] = obj[a] /\ v # a,
             /\ pc[a] = "take"
             /\ linked' = linked \ {v}
             /\ \A b \in Agents : pc'[b] = IF b = a THEN "slay" ELSE pc[b]
             /\ \A b \in Agents : victim'[b] = IF b = a THEN v ELSE victim[b]
             /\ UNCHANGED <<pstate, listed, claimed, queued, awaiting, home, refs, exit_waiters,
                            published, state, reap_list, teardown_q, obj, then, finalized,
                            reclaimed, setup, self_killed>>
      PROVE  MoreInv'
  <2>1. \A d \in Cpus, y \in Threads : ToReap(y, d)' <=> ToReap(y, d)
    BY <1>2, Known DEF ToReap
  <2>2. Births'
    BY <1>2, Known DEF Births, Unborn, Ops
  <2>3. Lives'
    BY <1>2, <2>1, Known DEF Lives, Alive, Reaping, Slain, Felled
  <2>4. Calls'
    BY <1>2, Known DEF Calls, InKernel, Alive
  <2>5. Hands'
    BY <1>2, Known DEF Hands, Ops
  <2>6. Owned' /\ Counts' /\ Sleepers'
    BY <1>2, Known DEF LifeInv, Token, Owned, Counts, Sleepers
  <2>7. Loaders' /\ Spaces' /\ Readiers'
    BY <1>2, Setting, Known DEF Loaders, Loading, Alone, Empty, Spaces, Readiers
  <2>8. NoWaits' /\ AllDeferred'
    BY <1>2, Setting, Known DEF NoWaits, AllDeferred
  <2>9. Zombies'
    BY <1>2, Setting, Sorts DEF Zombies
  <2>10. Woken'
    BY <1>2, Setting, Sorts DEF Woken
  <2>11. Waited'
    BY <1>2, Setting, Sorts DEF Waited, NobodyWaitsForTheDead
  <2> QED
    BY <2>2, <2>3, <2>4, <2>5, <2>6, <2>7, <2>8, <2>9, <2>10, <2>11 DEF BaseInv, MoreInv
<1> QED
  BY <1>1, <1>2, Known, Domains DEF TakeOther, Goto, pcb, bodies, work, ghost

(* The victim, which is in no call, begins to die.                         *)
LEMMA SlayMore ==
    ASSUME LifeInv, MoreInv, NEW a \in Agents, Slay(a)
    PROVE  MoreInv'
<1> USE DEF Local, Carry, Busy, Claiming, Deferring, Waiting, Loads, BaseInv, MoreInv
<1>1. CASE state[victim[a]] = "DEAD"
  <2>0. /\ pc[a] = "slay"
        /\ \A b \in Agents : pc'[b] = IF b = a THEN "take" ELSE pc[b]
        /\ \A b \in Agents : victim'[b] = IF b = a THEN None ELSE victim[b]
        /\ UNCHANGED <<pstate, listed, claimed, queued, awaiting, home, refs, exit_waiters,
                       published, linked, state, reap_list, teardown_q, obj, then, finalized,
                       reclaimed, setup, self_killed>>
    BY <1>1, Known, Domains DEF Slay, Goto, pcb, bodies, work, ghost
  <2>1. \A d \in Cpus, y \in Threads : ToReap(y, d)' <=> ToReap(y, d)
    BY <2>0, <1>1, Known DEF ToReap
  <2>2. Births'
    BY <2>0, <1>1, Known DEF Births, Unborn, Ops
  <2>3. Lives'
    BY <2>0, <1>1, <2>1, Known DEF Lives, Alive, Reaping, Slain, Felled
  <2>4. Calls'
    BY <2>0, <1>1, Known DEF Calls, InKernel, Alive
  <2>5. Hands'
    BY <2>0, <1>1, Known DEF Hands, Ops
  <2>6. Owned' /\ Counts' /\ Sleepers'
    BY <2>0, <1>1, Known DEF LifeInv, Token, Owned, Counts, Sleepers
  <2>7. Loaders' /\ Spaces' /\ Readiers'
    BY <2>0, <1>1, Setting, Known DEF Loaders, Loading, Alone, Empty, Spaces, Readiers
  <2>8. NoWaits' /\ AllDeferred'
    BY <2>0, <1>1, Setting, Known DEF NoWaits, AllDeferred
  <2>9. Zombies'
    BY <2>0, <1>1, Setting, Sorts DEF Zombies
  <2>10. Woken'
    BY <2>0, <1>1, Setting, Sorts DEF Woken
  <2>11. Waited'
    BY <2>0, <1>1, Setting, Sorts DEF Waited, NobodyWaitsForTheDead
  <2> QED
    BY <2>2, <2>3, <2>4, <2>5, <2>6, <2>7, <2>8, <2>9, <2>10, <2>11 DEF BaseInv, MoreInv
<1>2. CASE state[victim[a]] # "DEAD"
  <2>0. /\ pc[a] = "slay" /\ MayRun(a)
        /\ \A u \in Threads : state'[u] = IF u = victim[a] THEN "DEAD" ELSE state[u]
        /\ \A b \in Agents : pc'[b] = IF b = a THEN "detach" ELSE pc[b]
        /\ UNCHANGED <<pstate, listed, claimed, queued, awaiting, home, refs, exit_waiters,
                       published, linked, reap_list, teardown_q, obj, victim, then, finalized,
                       reclaimed, setup, self_killed>>
    BY <1>2, Known, Domains DEF Slay, Goto, pcb, bodies, work, ghost
  <2>1. \A d \in Cpus, y \in Threads : ToReap(y, d)' <=> ToReap(y, d)
    BY <2>0, Known DEF ToReap
  <2>2. \A t \in Threads : InKernel(t) => t # victim[a]
    BY <2>0, <1>2, Known DEF LifeInv, Bodies, AtHome, MayRun, Calls
  <2>3. Births'
    BY <2>0, <1>2, Known DEF Births, Unborn, Ops
  <2>4. Lives'
    BY <2>0, <1>2, <2>1, Known DEF Lives, Alive, Reaping, Slain, Felled
  <2>5. Calls'
    BY <2>0, <1>2, <2>2, Known DEF Calls, InKernel, Alive
  <2>6. Hands'
    BY <2>0, <1>2, Known DEF Hands, Ops
  <2>7. Owned' /\ Counts' /\ Sleepers'
    BY <2>0, <1>2, Known DEF LifeInv, Token, Owned, Counts, Sleepers
  <2>8. Loaders' /\ Spaces' /\ Readiers'
    BY <2>0, <1>2, Setting, Known DEF Loaders, Loading, Alone, Empty, Spaces, Readiers
  <2>9. NoWaits' /\ AllDeferred'
    BY <2>0, <1>2, Setting, Known DEF NoWaits, AllDeferred
  <2>10. Zombies'
    BY <2>0, <1>2, Setting, Sorts DEF Zombies
  <2>11. Woken'
    BY <2>0, <1>2, Setting, Sorts DEF Woken
  <2>12. Waited'
    BY <2>0, <1>2, Setting, Sorts DEF Waited, NobodyWaitsForTheDead
  <2> QED
    BY <2>3, <2>4, <2>5, <2>6, <2>7, <2>8, <2>9, <2>10, <2>11, <2>12 DEF BaseInv, MoreInv
<1> QED
  BY <1>1, <1>2

(* The dying thread leaves the queue it slept in.                          *)
LEMMA DetachMore ==
    ASSUME LifeInv, MoreInv, NEW a \in Agents, Detach(a)
    PROVE  MoreInv'
<1> USE DEF Local, Carry, Busy, Claiming, Deferring, Waiting, Loads, BaseInv, MoreInv
<1>0. /\ pc[a] = "detach" /\ state[victim[a]] = "DEAD"
      /\ \A q \in Procs : \A x : x \in exit_waiters'[q] <=> x \in exit_waiters[q] /\ x # victim[a]
      /\ \A b \in Agents : pc'[b] = IF b = a THEN "bury" ELSE pc[b]
      /\ UNCHANGED <<pstate, listed, claimed, queued, awaiting, home, refs, published, linked,
                     state, reap_list, teardown_q, obj, victim, then, finalized, reclaimed,
                     setup, self_killed>>
  BY Known, Domains DEF Detach, Goto, pcb, bodies, work, ghost, LifeInv, Bodies
<1>1. \A d \in Cpus, y \in Threads : ToReap(y, d)' <=> ToReap(y, d)
  BY <1>0, Known DEF ToReap
<1>2. Births'
  BY <1>0, Known DEF Births, Unborn, Ops
<1>3. Lives'
  BY <1>0, <1>1, Known DEF Lives, Alive, Reaping, Slain, Felled
<1>4. Calls'
  BY <1>0, Known DEF Calls, InKernel, Alive
<1>5. Hands'
  BY <1>0, Known DEF Hands, Ops
<1>6. Owned' /\ Counts' /\ Sleepers'
  BY <1>0, Known DEF LifeInv, Token, Owned, Counts, Sleepers
<1>7. Loaders' /\ Spaces' /\ Readiers'
  BY <1>0, Setting, Known DEF Loaders, Loading, Alone, Empty, Spaces, Readiers
<1>8. NoWaits' /\ AllDeferred'
  BY <1>0, Setting, Known DEF NoWaits, AllDeferred
<1>9. Zombies'
  BY <1>0, Setting, Sorts DEF Zombies
<1>10. Woken'
  BY <1>0, Setting, Sorts DEF Woken
<1>11. Waited'
  BY <1>0, Setting, Sorts DEF Waited, NobodyWaitsForTheDead
<1> QED
  BY <1>2, <1>3, <1>4, <1>5, <1>6, <1>7, <1>8, <1>9, <1>10, <1>11 DEF BaseInv, MoreInv

(* It is handed to the reaper.                                             *)
LEMMA BuryMore ==
    ASSUME LifeInv, MoreInv, NEW a \in Agents, Bury(a)
    PROVE  MoreInv'
<1> USE DEF Local, Carry, Busy, Claiming, Deferring, Waiting, Loads, BaseInv, MoreInv
<1>0. /\ pc[a] = "bury" /\ QueueReap(victim[a])
      /\ \A b \in Agents : pc'[b] = IF b = a THEN "take" ELSE pc[b]
      /\ \A b \in Agents : victim'[b] = IF b = a THEN None ELSE victim[b]
      /\ UNCHANGED <<pstate, listed, claimed, queued, awaiting, home, refs, exit_waiters,
                     published, linked, state, teardown_q, obj, then, finalized, reclaimed,
                     setup, self_killed>>
  BY Known, Domains DEF Bury, Goto, pcb, bodies, work, ghost
<1>v. victim[a] \in Threads /\ \A d \in Cpus : ~ToReap(victim[a], d)
  BY <1>0, Known DEF LifeInv, Bodies
<1>1. \A d \in Cpus, y \in Threads : ToReap(y, d)' <=> ToReap(y, d) \/ (y = victim[a] /\ d = home[Owner[y]])
  BY <1>0, <1>v, Known, QueueReapFacts DEF ToReap
<1>2. Births'
  BY <1>0, Known DEF Births, Unborn, Ops
<1>3. Lives'
  BY <1>0, <1>1, <1>v, Known DEF Lives, Alive, Reaping, Slain, Felled
<1>4. Calls'
  BY <1>0, Known DEF Calls, InKernel, Alive
<1>5. Hands'
  BY <1>0, Known DEF Hands, Ops
<1>6. Owned' /\ Counts' /\ Sleepers'
  BY <1>0, Known DEF LifeInv, Token, Owned, Counts, Sleepers
<1>7. Loaders' /\ Spaces' /\ Readiers'
  BY <1>0, Setting, Known DEF Loaders, Loading, Alone, Empty, Spaces, Readiers
<1>8. NoWaits' /\ AllDeferred'
  BY <1>0, Setting, Known DEF NoWaits, AllDeferred
<1>9. Zombies'
  BY <1>0, Setting, Sorts DEF Zombies
<1>10. Woken'
  BY <1>0, Setting, Sorts DEF Woken
<1>11. Waited'
  BY <1>0, Setting, Sorts DEF Waited, NobodyWaitsForTheDead
<1> QED
  BY <1>2, <1>3, <1>4, <1>5, <1>6, <1>7, <1>8, <1>9, <1>10, <1>11 DEF BaseInv, MoreInv

(* The process leaves the handle table.                                    *)
LEMMA UnlistMore ==
    ASSUME LifeInv, MoreInv, NEW a \in Agents, Unlist(a)
    PROVE  MoreInv'
<1> USE DEF Local, Carry, Busy, Claiming, Deferring, Waiting, Loads, BaseInv, MoreInv
<1>0. /\ pc[a] = "unlist"
      /\ listed' = listed \ {obj[a]}
      /\ \A b \in Agents : pc'[b] = IF b = a THEN "arm" ELSE pc[b]
      /\ UNCHANGED <<pstate, claimed, queued, awaiting, home, refs, exit_waiters, published,
                     linked, state, reap_list, teardown_q, obj, victim, then, finalized,
                     reclaimed, setup, self_killed>>
  BY Known, Domains DEF Unlist, Goto, pcb, bodies, work, ghost
<1>1. \A d \in Cpus, y \in Threads : ToReap(y, d)' <=> ToReap(y, d)
  BY <1>0, Known DEF ToReap
<1>2. Births'
  BY <1>0, Known DEF Births, Unborn, Ops
<1>3. Lives'
  BY <1>0, <1>1, Known DEF Lives, Alive, Reaping, Slain, Felled
<1>4. Calls'
  BY <1>0, Known DEF Calls, InKernel, Alive
<1>5. Hands'
  BY <1>0, Known DEF Hands, Ops
<1>6. Owned' /\ Counts' /\ Sleepers'
  BY <1>0, Known DEF LifeInv, Token, Owned, Counts, Sleepers
<1>7. Loaders' /\ Spaces' /\ Readiers'
  BY <1>0, Setting, Known DEF Loaders, Loading, Alone, Empty, Spaces, Readiers
<1>8. NoWaits' /\ AllDeferred'
  BY <1>0, Setting, Known DEF NoWaits, AllDeferred
<1>9. Zombies'
  BY <1>0, Setting, Sorts DEF Zombies
<1>10. Woken'
  BY <1>0, Setting, Sorts DEF Woken
<1>11. Waited'
  BY <1>0, Setting, Sorts DEF Waited, NobodyWaitsForTheDead
<1> QED
  BY <1>2, <1>3, <1>4, <1>5, <1>6, <1>7, <1>8, <1>9, <1>10, <1>11 DEF BaseInv, MoreInv

(* The end is left to the bodies there are, or finalize is next.           *)
LEMMA ArmMore ==
    ASSUME LifeInv, MoreInv, NEW a \in Agents, Arm(a)
    PROVE  MoreInv'
<1> USE DEF Local, Carry, Busy, Claiming, Deferring, Waiting, Loads, BaseInv, MoreInv
<1>1. CASE Of(obj[a]) # {}
  <2>0. /\ pc[a] = "arm"
        /\ awaiting' = awaiting \cup {obj[a]}
        /\ \A b \in Agents : pc'[b] = IF b = a THEN then[a] ELSE pc[b]
        /\ \A b \in Agents : obj'[b] = IF b = a /\ then[a] # "put" THEN None ELSE obj[b]
        /\ UNCHANGED <<pstate, listed, claimed, queued, home, refs, exit_waiters, published,
                       linked, state, reap_list, teardown_q, victim, then, finalized, reclaimed,
                       setup, self_killed>>
    BY <1>1, Known, Domains DEF Arm, Returns, Goto, pcb, bodies, work, ghost
  <2>1. \A d \in Cpus, y \in Threads : ToReap(y, d)' <=> ToReap(y, d)
    BY <2>0, <1>1, Known DEF ToReap
  <2>2. Births'
    BY <2>0, <1>1, Known DEF Births, Unborn, Ops
  <2>3. Lives'
    BY <2>0, <1>1, <2>1, Known DEF Lives, Alive, Reaping, Slain, Felled
  <2>4. Calls'
    BY <2>0, <1>1, Known DEF Calls, InKernel, Alive
  <2>5. Hands'
    BY <2>0, <1>1, Known DEF Hands, Ops
  <2>6. Owned' /\ Counts' /\ Sleepers'
    BY <2>0, <1>1, Known DEF LifeInv, Token, Owned, Counts, Sleepers
  <2>7. Loaders' /\ Readiers'
    BY <2>0, <1>1, Setting, Known DEF Loaders, Loading, Alone, Empty, Readiers
  <2>8. Spaces'
    BY <2>0, <1>1, Setting, Known DEF Loaders, Loading, Alone, Spaces, Empty, Hands, Of
  <2>9. NoWaits' /\ AllDeferred'
    BY <2>0, <1>1, Setting, Known DEF NoWaits, AllDeferred
  <2>10. Zombies'
    BY <2>0, <1>1, Setting, Sorts DEF Zombies
  <2>11. Woken'
    BY <2>0, <1>1, Setting, Sorts DEF Woken
  <2>12. Waited'
    BY <2>0, <1>1, Setting, Sorts DEF Waited, NobodyWaitsForTheDead
  <2> QED
    BY <2>2, <2>3, <2>4, <2>5, <2>6, <2>7, <2>8, <2>9, <2>10, <2>11, <2>12 DEF BaseInv, MoreInv
<1>2. CASE Of(obj[a]) = {}
  <2>0. /\ pc[a] = "arm"
        /\ \A b \in Agents : pc'[b] = IF b = a THEN "finalize" ELSE pc[b]
        /\ UNCHANGED <<pstate, listed, claimed, queued, awaiting, home, refs, exit_waiters,
                       published, linked, state, reap_list, teardown_q, obj, victim, then,
                       finalized, reclaimed, setup, self_killed>>
    BY <1>2, Known, Domains DEF Arm, Goto, pcb, bodies, work, ghost
  <2>1. \A d \in Cpus, y \in Threads : ToReap(y, d)' <=> ToReap(y, d)
    BY <2>0, <1>2, Known DEF ToReap
  <2>2. Births'
    BY <2>0, <1>2, Known DEF Births, Unborn, Ops
  <2>3. Lives'
    BY <2>0, <1>2, <2>1, Known DEF Lives, Alive, Reaping, Slain, Felled
  <2>4. Calls'
    BY <2>0, <1>2, Known DEF Calls, InKernel, Alive
  <2>5. Hands'
    BY <2>0, <1>2, Known DEF Hands, Ops
  <2>6. Owned' /\ Counts' /\ Sleepers'
    BY <2>0, <1>2, Known DEF LifeInv, Token, Owned, Counts, Sleepers
  <2>7. Loaders' /\ Readiers'
    BY <2>0, <1>2, Setting, Known DEF Loaders, Loading, Alone, Empty, Readiers
  <2>8. Spaces'
    BY <2>0, <1>2, Setting, Known DEF Loaders, Loading, Alone, Spaces, Empty, Of
  <2>9. NoWaits' /\ AllDeferred'
    BY <2>0, <1>2, Setting, Known DEF NoWaits, AllDeferred
  <2>10. Zombies'
    BY <2>0, <1>2, Setting, Sorts DEF Zombies
  <2>11. Woken'
    BY <2>0, <1>2, Setting, Sorts DEF Woken
  <2>12. Waited'
    BY <2>0, <1>2, Setting, Sorts DEF Waited, NobodyWaitsForTheDead
  <2> QED
    BY <2>2, <2>3, <2>4, <2>5, <2>6, <2>7, <2>8, <2>9, <2>10, <2>11, <2>12 DEF BaseInv, MoreInv
<1> QED
  BY <1>1, <1>2

(* The table's reference goes; no thread is left in the address space.     *)
LEMMA FinalizeMore ==
    ASSUME LifeInv, MoreInv, NEW a \in Agents, Finalize(a)
    PROVE  MoreInv'
<1> USE DEF Local, Carry, Busy, Claiming, Deferring, Waiting, Loads, BaseInv, MoreInv
<1>0. /\ pc[a] = "finalize"
      /\ \A q \in Procs : q # obj[a] => refs'[q] = refs[q]
      /\ \A q \in Procs : \A x : x \in refs'[q] <=> x \in refs[q] /\ ~(q = obj[a] /\ x = Slot)
      /\ \A b \in Agents : pc'[b] = IF b = a THEN then[a] ELSE pc[b]
      /\ \A b \in Agents : obj'[b] = IF b = a /\ then[a] # "put" THEN None ELSE obj[b]
      /\ \A q \in Procs : finalized'[q] = IF q = obj[a] THEN finalized[q] + 1 ELSE finalized[q]
      /\ reclaimed' = IF refs[obj[a]] \ {Slot} = {} THEN reclaimed \cup {obj[a]} ELSE reclaimed
      /\ UNCHANGED <<pstate, listed, claimed, queued, awaiting, home, exit_waiters, published,
                     linked, state, reap_list, teardown_q, victim, then, setup, self_killed>>
  BY Known, Domains DEF Finalize, Drop, Returns, Goto, pcb, bodies, work, ghost
<1>1. \A d \in Cpus, y \in Threads : ToReap(y, d)' <=> ToReap(y, d)
  BY <1>0, Known DEF ToReap
<1>2. Births'
  BY <1>0, Known DEF Births, Unborn, Ops
<1>3. Lives'
  BY <1>0, <1>1, Known DEF Lives, Alive, Reaping, Slain, Felled
<1>4. Calls'
  BY <1>0, Known DEF Calls, InKernel, Alive
<1>5. Hands'
  BY <1>0, Known DEF Hands, Ops
<1>6. Owned' /\ Counts' /\ Sleepers'
  BY <1>0, Known DEF LifeInv, Token, Owned, Counts, Sleepers
<1>7. Loaders' /\ Spaces' /\ Readiers'
  BY <1>0, Setting, Known DEF Loaders, Loading, Alone, Empty, Spaces, Readiers
<1>8. NoWaits' /\ AllDeferred'
  BY <1>0, Setting, Known DEF NoWaits, AllDeferred
<1>9. Zombies'
  BY <1>0, Setting, Sorts DEF Zombies
<1>10. Woken'
  BY <1>0, Setting, Sorts DEF Woken
<1>11. Waited'
  BY <1>0, Setting, Sorts DEF Waited, NobodyWaitsForTheDead
<1> QED
  BY <1>2, <1>3, <1>4, <1>5, <1>6, <1>7, <1>8, <1>9, <1>10, <1>11 DEF BaseInv, MoreInv

(* The caller's reference goes; the last one frees the PCB.                *)
LEMMA PutMore ==
    ASSUME LifeInv, MoreInv, NEW t \in Threads, Put(t)
    PROVE  MoreInv'
<1> USE DEF Local, Carry, Busy, Claiming, Deferring, Waiting, Loads, BaseInv, MoreInv
<1>0. /\ pc[t] = "put"
      /\ \A q \in Procs : q # obj[t] => refs'[q] = refs[q]
      /\ \A q \in Procs : \A x : x \in refs'[q] <=> x \in refs[q] /\ ~(q = obj[t] /\ x = t)
      /\ \A b \in Agents : pc'[b] = IF b = t THEN "out" ELSE pc[b]
      /\ \A b \in Agents : obj'[b] = IF b = t THEN None ELSE obj[b]
      /\ \A b \in Agents : then'[b] = IF b = t THEN "out" ELSE then[b]
      /\ reclaimed' = IF refs[obj[t]] \ {t} = {} THEN reclaimed \cup {obj[t]} ELSE reclaimed
      /\ UNCHANGED <<pstate, listed, claimed, queued, awaiting, home, exit_waiters, published,
                     linked, state, reap_list, teardown_q, victim, finalized, setup, self_killed>>
  BY Known, Domains DEF Put, Drop, Goto, pcb, bodies, work, ghost
<1>1. \A d \in Cpus, y \in Threads : ToReap(y, d)' <=> ToReap(y, d)
  BY <1>0, Known DEF ToReap
<1>2. obj[t] \in Procs /\ pstate[obj[t]] # "none"
  BY <1>0, Known DEF Births, Unborn
<1>3. \A p \in reclaimed' : refs'[p] = {} /\ finalized[p] = 1
  <2>1. finalized[obj[t]] = 0 \/ finalized[obj[t]] = 1
    <3>1. finalized[obj[t]] \in Nat /\ finalized[obj[t]] <= 1
      BY <1>2, Known DEF LifeInv, Token
    <3> QED
      BY <3>1
  <2>2. ASSUME refs[obj[t]] \ {t} = {} PROVE finalized[obj[t]] = 1 /\ refs'[obj[t]] = {}
    BY <1>0, <1>2, <2>1, <2>2, Known DEF Counts
  <2>3. \A p \in reclaimed : refs'[p] = {} /\ finalized[p] = 1
    BY <1>0, Known DEF Counts
  <2> QED
    BY <1>0, <2>2, <2>3
<1>4. Births'
  BY <1>0, Known DEF Births, Unborn, Ops
<1>5. Lives'
  BY <1>0, <1>1, Known DEF Lives, Alive, Reaping, Slain, Felled
<1>6. Calls'
  BY <1>0, Known DEF Calls, InKernel, Alive
<1>7. Hands'
  BY <1>0, Known DEF Hands, Ops
<1>8. Owned' /\ Sleepers'
  BY <1>0, Known DEF LifeInv, Token, Owned, Sleepers
<1>9. Counts'
  BY <1>0, <1>2, <1>3, Known DEF LifeInv, Token, Counts
<1>10. Loaders' /\ Spaces' /\ Readiers'
  BY <1>0, Setting, Known DEF Loaders, Loading, Alone, Empty, Spaces, Readiers
<1>11. NoWaits' /\ AllDeferred'
  BY <1>0, Setting, Known DEF NoWaits, AllDeferred
<1>12. Zombies'
  BY <1>0, Setting, Sorts DEF Zombies
<1>13. Woken'
  BY <1>0, Setting, Sorts DEF Woken
<1>14. Waited'
  BY <1>0, Setting, Sorts DEF Waited, NobodyWaitsForTheDead
<1> QED
  BY <1>4, <1>5, <1>6, <1>7, <1>8, <1>9, <1>10, <1>11, <1>12, <1>13, <1>14 DEF BaseInv, MoreInv

(* A fault: a live thread turns on its own process.                        *)
LEMMA FaultBeginMore ==
    ASSUME LifeInv, MoreInv, NEW t \in Threads, FaultBegin(t)
    PROVE  MoreInv'
<1> USE DEF Local, Carry, Busy, Claiming, Deferring, Waiting, Loads, BaseInv, MoreInv
<1>0. /\ pc[t] = "out" /\ state[t] = "READY"
      /\ "fault" \in Ops
      /\ \A b \in Agents : pc'[b] = IF b = t THEN "d_claim" ELSE pc[b]
      /\ \A b \in Agents : obj'[b] = IF b = t THEN Owner[t] ELSE obj[b]
      /\ \A b \in Agents : then'[b] = IF b = t THEN "f_dead" ELSE then[b]
      /\ UNCHANGED <<pstate, listed, claimed, queued, awaiting, home, refs, exit_waiters,
                     published, linked, state, reap_list, teardown_q, victim, finalized,
                     reclaimed, setup, self_killed>>
  BY Known, Domains DEF FaultBegin, Goto, Call, pcb, bodies, work, ghost
<1>1. \A d \in Cpus, y \in Threads : ToReap(y, d)' <=> ToReap(y, d)
  BY <1>0, Known DEF ToReap
<1>2. OneCpu => \A u \in Threads : u # t => ~InKernel(u)
  BY Known, OnlyOne DEF Call, FaultBegin, Goto
<1>3. Births'
  BY <1>0, Known DEF Births, Unborn, Ops
<1>4. Lives'
  BY <1>0, <1>1, Known DEF Lives, Alive, Reaping, Slain, Felled
<1>5. Calls'
  BY <1>0, Known DEF Calls, InKernel, Alive
<1>6. Hands'
  BY <1>0, Known DEF Hands, Ops
<1>7. Owned' /\ Counts' /\ Sleepers'
  BY <1>0, Known DEF LifeInv, Token, Owned, Counts, Sleepers
<1>8. Loaders' /\ Spaces'
  BY <1>0, Setting, Known DEF Loaders, Loading, Alone, Empty, Spaces
<1>9. Readiers'
  BY <1>0, Setting, <1>2, LoadsSpawn, Known DEF Readiers, Alone, SpawnsAtHome, InKernel
<1>10. NoWaits'
  BY <1>0, Setting, Known DEF NoWaits
<1>11. AllDeferred'
  BY <1>0, Setting, Known DEF AllDeferred, WaitsInStep
<1>12. Zombies'
  BY <1>0, Setting, Sorts DEF Zombies
<1>13. Woken'
  BY <1>0, Setting, Sorts DEF Woken
<1>14. Waited'
  BY <1>0, Setting, Sorts DEF Waited, NobodyWaitsForTheDead
<1> QED
  BY <1>3, <1>4, <1>5, <1>6, <1>7, <1>8, <1>9, <1>10, <1>11, <1>12, <1>13, <1>14 DEF BaseInv, MoreInv

(* The deferred end is claimed, or was.                                    *)
LEMMA DeferClaimMore ==
    ASSUME LifeInv, MoreInv, NEW a \in Agents, DeferClaim(a)
    PROVE  MoreInv'
<1> USE DEF Local, Carry, Busy, Claiming, Deferring, Waiting, Loads, BaseInv, MoreInv
<1>1. CASE obj[a] \in claimed
  <2>0. /\ pc[a] = "d_claim"
        /\ \A b \in Agents : pc'[b] = IF b = a THEN then[a] ELSE pc[b]
        /\ \A b \in Agents : obj'[b] = IF b = a /\ then[a] # "put" THEN None ELSE obj[b]
        /\ UNCHANGED <<pstate, listed, claimed, queued, awaiting, home, refs, exit_waiters,
                       published, linked, state, reap_list, teardown_q, victim, then, finalized,
                       reclaimed, setup, self_killed>>
    BY <1>1, Known, Domains DEF DeferClaim, Returns, Goto, pcb, bodies, work, ghost
  <2>1. \A d \in Cpus, y \in Threads : ToReap(y, d)' <=> ToReap(y, d)
    BY <2>0, <1>1, Known DEF ToReap
  <2>2. Births'
    BY <2>0, <1>1, Known DEF Births, Unborn, Ops
  <2>3. Lives'
    BY <2>0, <1>1, <2>1, Known DEF Lives, Alive, Reaping, Slain, Felled
  <2>4. Calls'
    BY <2>0, <1>1, Known DEF Calls, InKernel, Alive
  <2>5. Hands'
    BY <2>0, <1>1, Known DEF Hands, Ops
  <2>6. Owned' /\ Counts' /\ Sleepers'
    BY <2>0, <1>1, Known DEF LifeInv, Token, Owned, Counts, Sleepers
  <2>7. Loaders' /\ Spaces' /\ Readiers'
    BY <2>0, <1>1, Setting, Known DEF Loaders, Loading, Alone, Empty, Spaces, Readiers
  <2>8. NoWaits' /\ AllDeferred'
    BY <2>0, <1>1, Setting, Known DEF NoWaits, AllDeferred
  <2>9. Zombies'
    BY <2>0, <1>1, Setting, Sorts DEF Zombies
  <2>10. Woken'
    BY <2>0, <1>1, Setting, Sorts DEF Woken
  <2>11. Waited'
    BY <2>0, <1>1, Setting, Sorts DEF Waited, NobodyWaitsForTheDead
  <2> QED
    BY <2>2, <2>3, <2>4, <2>5, <2>6, <2>7, <2>8, <2>9, <2>10, <2>11 DEF BaseInv, MoreInv
<1>2. CASE obj[a] \notin claimed
  <2>0. /\ pc[a] = "d_claim"
        /\ claimed' = claimed \cup {obj[a]}
        /\ \A b \in Agents : pc'[b] = IF b = a THEN "d_zombie" ELSE pc[b]
        /\ UNCHANGED <<pstate, listed, queued, awaiting, home, refs, exit_waiters, published,
                       linked, state, reap_list, teardown_q, obj, victim, then, finalized,
                       reclaimed, setup, self_killed>>
    BY <1>2, Known, Domains DEF DeferClaim, Goto, pcb, bodies, work, ghost
  <2>1. \A d \in Cpus, y \in Threads : ToReap(y, d)' <=> ToReap(y, d)
    BY <2>0, <1>2, Known DEF ToReap
  <2>2. Births'
    BY <2>0, <1>2, Known DEF Births, Unborn, Ops
  <2>3. Lives'
    BY <2>0, <1>2, <2>1, Known DEF Lives, Alive, Reaping, Slain, Felled
  <2>4. Calls'
    BY <2>0, <1>2, Known DEF Calls, InKernel, Alive
  <2>5. Hands'
    BY <2>0, <1>2, Known DEF Hands, Ops
  <2>6. Owned' /\ Counts' /\ Sleepers'
    BY <2>0, <1>2, Known DEF LifeInv, Token, Owned, Counts, Sleepers
  <2>7. Loaders' /\ Spaces' /\ Readiers'
    BY <2>0, <1>2, Setting, Known DEF Loaders, Loading, Alone, Empty, Spaces, Readiers
  <2>8. NoWaits' /\ AllDeferred'
    BY <2>0, <1>2, Setting, Known DEF NoWaits, AllDeferred
  <2>9. Zombies'
    BY <2>0, <1>2, Setting, Sorts DEF Zombies
  <2>10. Woken'
    BY <2>0, <1>2, Setting, Sorts DEF Woken
  <2>11. Waited'
    BY <2>0, <1>2, Setting, Sorts DEF Waited, NobodyWaitsForTheDead
  <2> QED
    BY <2>2, <2>3, <2>4, <2>5, <2>6, <2>7, <2>8, <2>9, <2>10, <2>11 DEF BaseInv, MoreInv
<1> QED
  BY <1>1, <1>2

(* The state says ZOMBIE; who did it is about to wake the waiters.         *)
LEMMA DeferZombieMore ==
    ASSUME LifeInv, MoreInv, NEW a \in Agents, DeferZombie(a)
    PROVE  MoreInv'
<1> USE DEF Local, Carry, Busy, Claiming, Deferring, Waiting, Loads, BaseInv, MoreInv
<1>0. /\ pc[a] = "d_zombie"
      /\ \A q \in Procs : pstate'[q] = IF q = obj[a] THEN "ZOMBIE" ELSE pstate[q]
      /\ \A b \in Agents : pc'[b] = IF b = a THEN "d_wake" ELSE pc[b]
      /\ UNCHANGED <<listed, claimed, queued, awaiting, home, refs, exit_waiters, published,
                     linked, state, reap_list, teardown_q, obj, victim, then, finalized,
                     reclaimed, setup, self_killed>>
  BY Known, Domains DEF DeferZombie, Goto, pcb, bodies, work, ghost
<1>1. \A d \in Cpus, y \in Threads : ToReap(y, d)' <=> ToReap(y, d)
  BY <1>0, Known DEF ToReap
<1>2. obj[a] \in claimed /\ pstate[obj[a]] # "none"
  BY <1>0, Known DEF LifeInv, Token, Births, Unborn
<1>3. OneCpu /\ a \in Threads => \A u \in Threads : u # a => ~InKernel(u)
  BY Known, OnlyOne DEF DeferZombie, Goto
<1>4. Births'
  BY <1>0, <1>2, Known DEF Births, Unborn, Ops
<1>5. Lives'
  BY <1>0, <1>1, Known DEF Lives, Alive, Reaping, Slain, Felled
<1>6. Calls'
  BY <1>0, Known DEF Calls, InKernel, Alive
<1>7. Hands'
  BY <1>0, Known DEF Hands, Ops
<1>8. Owned' /\ Sleepers'
  BY <1>0, Known DEF LifeInv, Token, Owned, Sleepers
<1>9. Counts'
  BY <1>0, <1>2, Known DEF LifeInv, Token, Counts
<1>10. Loaders' /\ Spaces' /\ Readiers'
  BY <1>0, Setting, Known DEF Loaders, Loading, Alone, Empty, Spaces, Readiers
<1>11. NoWaits' /\ AllDeferred'
  BY <1>0, Setting, Known DEF NoWaits, AllDeferred
<1>12. Zombies'
  BY <1>0, Setting, <1>3, Sorts DEF Zombies, AllDeferred, InKernel
<1>13. Woken'
  BY <1>0, Setting, Sorts DEF Woken
<1>14. Waited'
  BY <1>0, Setting, Sorts DEF Waited, NobodyWaitsForTheDead
<1> QED
  BY <1>4, <1>5, <1>6, <1>7, <1>8, <1>9, <1>10, <1>11, <1>12, <1>13, <1>14 DEF BaseInv, MoreInv

(* All the waiters of the process are woken.                               *)
LEMMA DeferWakeMore ==
    ASSUME LifeInv, MoreInv, NEW a \in Agents, DeferWake(a)
    PROVE  MoreInv'
<1> USE DEF Local, Carry, Busy, Claiming, Deferring, Waiting, Loads, BaseInv, MoreInv
<1>0. /\ pc[a] = "d_wake"
      /\ \A q \in Procs : exit_waiters'[q] = IF q = obj[a] THEN {} ELSE exit_waiters[q]
      /\ \A u \in Threads : state'[u] =
              IF u \in exit_waiters[obj[a]] /\ state[u] = "BLOCKED" THEN "READY" ELSE state[u]
      /\ \A b \in Agents : pc'[b] = IF b = a THEN "d_defer" ELSE pc[b]
      /\ UNCHANGED <<pstate, listed, claimed, queued, awaiting, home, refs, published, linked,
                     reap_list, teardown_q, obj, victim, then, finalized, reclaimed, setup, self_killed>>
  BY Known, Domains DEF DeferWake, Goto, WakeExitWaiters, pcb, bodies, work, ghost
<1>1. \A d \in Cpus, y \in Threads : ToReap(y, d)' <=> ToReap(y, d)
  BY <1>0, Known DEF ToReap
<1>2. Births'
  BY <1>0, Known DEF Births, Unborn, Ops
<1>3. Lives'
  BY <1>0, <1>1, Known DEF Lives, Alive, Reaping, Slain, Felled
<1>4. Calls'
  BY <1>0, Known DEF Calls, InKernel, Alive
<1>5. Hands'
  BY <1>0, Known DEF Hands, Ops
<1>6. Owned' /\ Counts' /\ Sleepers'
  BY <1>0, Known DEF LifeInv, Token, Owned, Counts, Sleepers
<1>7. Loaders' /\ Spaces' /\ Readiers'
  BY <1>0, Setting, Known DEF Loaders, Loading, Alone, Empty, Spaces, Readiers
<1>8. NoWaits' /\ AllDeferred'
  BY <1>0, Setting, Known DEF NoWaits, AllDeferred
<1>9. Zombies'
  BY <1>0, Setting, Sorts DEF Zombies
<1>10. Woken'
  BY <1>0, Setting, Sorts DEF Woken
<1>11. Waited'
  BY <1>0, Setting, Sorts DEF Waited, NobodyWaitsForTheDead, Sleepers
<1> QED
  BY <1>2, <1>3, <1>4, <1>5, <1>6, <1>7, <1>8, <1>9, <1>10, <1>11 DEF BaseInv, MoreInv

(* The deferred end is queued at the home CPU of the process.              *)
LEMMA DeferMore ==
    ASSUME LifeInv, MoreInv, NEW a \in Agents, Defer(a)
    PROVE  MoreInv'
<1> USE DEF Local, Carry, Busy, Claiming, Deferring, Waiting, Loads, BaseInv, MoreInv
<1>0. /\ pc[a] = "d_defer"
      /\ queued' = queued \cup {obj[a]}
      /\ \A c \in Cpus : \A x : x \in teardown_q'[c] <=> x \in teardown_q[c] \/ (x = obj[a] /\ c = home[x] /\ x \notin queued)
      /\ \A b \in Agents : pc'[b] = IF b = a THEN then[a] ELSE pc[b]
      /\ \A b \in Agents : obj'[b] = IF b = a /\ then[a] # "put" THEN None ELSE obj[b]
      /\ UNCHANGED <<pstate, listed, claimed, awaiting, home, refs, exit_waiters, published,
                     linked, state, reap_list, victim, then, finalized, reclaimed, setup, self_killed>>
  BY Known, Domains DEF Defer, Enqueue, Returns, Goto, pcb, bodies, work, ghost
<1>1. \A d \in Cpus, y \in Threads : ToReap(y, d)' <=> ToReap(y, d)
  BY <1>0, Known DEF ToReap
<1>2. Births'
  BY <1>0, Known DEF Births, Unborn, Ops
<1>3. Lives'
  BY <1>0, <1>1, Known DEF Lives, Alive, Reaping, Slain, Felled
<1>4. Calls'
  BY <1>0, Known DEF Calls, InKernel, Alive
<1>5. Hands'
  BY <1>0, Known DEF Hands, Ops
<1>6. Owned' /\ Counts' /\ Sleepers'
  BY <1>0, Known DEF LifeInv, Token, Owned, Counts, Sleepers
<1>7. Loaders' /\ Spaces' /\ Readiers'
  BY <1>0, Setting, Known DEF Loaders, Loading, Alone, Empty, Spaces, Readiers
<1>8. NoWaits' /\ AllDeferred'
  BY <1>0, Setting, Known DEF NoWaits, AllDeferred
<1>9. Zombies'
  BY <1>0, Setting, Sorts DEF Zombies
<1>10. Woken'
  BY <1>0, Setting, Sorts DEF Woken
<1>11. Waited'
  BY <1>0, Setting, Sorts DEF Waited, NobodyWaitsForTheDead
<1> QED
  BY <1>2, <1>3, <1>4, <1>5, <1>6, <1>7, <1>8, <1>9, <1>10, <1>11 DEF BaseInv, MoreInv

(* The faulting thread is dead, and in no call.                            *)
LEMMA FaultDeadMore ==
    ASSUME LifeInv, MoreInv, NEW t \in Threads, FaultDead(t)
    PROVE  MoreInv'
<1> USE DEF Local, Carry, Busy, Claiming, Deferring, Waiting, Loads, BaseInv, MoreInv
<1>0. /\ pc[t] = "f_dead"
      /\ \A u \in Threads : state'[u] = IF u = t THEN "DEAD" ELSE state[u]
      /\ \A b \in Agents : pc'[b] = IF b = t THEN "faulted" ELSE pc[b]
      /\ UNCHANGED <<pstate, listed, claimed, queued, awaiting, home, refs, exit_waiters,
                     published, linked, reap_list, teardown_q, obj, victim, then, finalized,
                     reclaimed, setup, self_killed>>
  BY Known, Domains DEF FaultDead, Goto, pcb, bodies, work, ghost
<1>1. \A d \in Cpus, y \in Threads : ToReap(y, d)' <=> ToReap(y, d)
  BY <1>0, Known DEF ToReap
<1>2. Births'
  BY <1>0, Known DEF Births, Unborn, Ops
<1>3. Lives'
  BY <1>0, <1>1, Known DEF Lives, Alive, Reaping, Slain, Felled
<1>4. Calls'
  BY <1>0, Known DEF Calls, InKernel, Alive
<1>5. Hands'
  BY <1>0, Known DEF Hands, Ops
<1>6. Owned' /\ Counts' /\ Sleepers'
  BY <1>0, Known DEF LifeInv, Token, Owned, Counts, Sleepers
<1>7. Loaders' /\ Spaces' /\ Readiers'
  BY <1>0, Setting, Known DEF Loaders, Loading, Alone, Empty, Spaces, Readiers
<1>8. NoWaits' /\ AllDeferred'
  BY <1>0, Setting, Known DEF NoWaits, AllDeferred
<1>9. Zombies'
  BY <1>0, Setting, Sorts DEF Zombies
<1>10. Woken'
  BY <1>0, Setting, Sorts DEF Woken
<1>11. Waited'
  BY <1>0, Setting, Sorts DEF Waited, NobodyWaitsForTheDead
<1> QED
  BY <1>2, <1>3, <1>4, <1>5, <1>6, <1>7, <1>8, <1>9, <1>10, <1>11 DEF BaseInv, MoreInv

(* A live thread starts another: its process has not been finalized.       *)
LEMMA ThreadCreateMore ==
    ASSUME LifeInv, MoreInv, NEW t \in Threads, NEW u \in Threads, ThreadCreate(t, u)
    PROVE  MoreInv'
<1> USE DEF Local, Carry, Busy, Claiming, Deferring, Waiting, Loads, BaseInv, MoreInv
<1>0. /\ pc[t] = "out" /\ state[t] = "READY"
      /\ Owner[u] = Owner[t] /\ state[u] = "none"
      /\ published' = published \cup {u}
      /\ linked' = linked \cup {u}
      /\ \A w \in Threads : state'[w] = IF w = u THEN "READY" ELSE state[w]
      /\ \A b \in Agents : pc'[b] = IF b = u THEN "out" ELSE pc[b]
      /\ UNCHANGED <<pstate, listed, claimed, queued, awaiting, home, refs, exit_waiters,
                     reap_list, teardown_q, obj, victim, then, finalized, reclaimed, setup, self_killed>>
  BY Known, Domains DEF ThreadCreate, Publish, pcb, bodies, work, ghost
<1>1. \A d \in Cpus, y \in Threads : ToReap(y, d)' <=> ToReap(y, d)
  BY <1>0, Known DEF ToReap
<1>2. pc[u] = "gone" /\ u \notin published
  BY <1>0, Known DEF Calls, Lives, Alive
<1>3. Births'
  BY <1>0, <1>2, Known DEF Births, Unborn, Ops
<1>4. Lives'
  BY <1>0, <1>1, <1>2, Known DEF Lives, Alive, Reaping, Slain, Felled
<1>5. Calls'
  BY <1>0, Known DEF Calls, InKernel, Alive
<1>6. Hands'
  BY <1>0, <1>2, Known DEF Hands, Ops
<1>7. Owned'
  BY <1>0, <1>2, Known DEF LifeInv, Token, Owned
<1>8. Counts'
  BY <1>0, <1>2, Known DEF LifeInv, Token, Counts
<1>9. Sleepers'
  BY <1>0, <1>2, Known DEF Sleepers
<1>10. Loaders'
  BY <1>0, Setting, <1>2, Known DEF Loaders, Loading, Alone, Empty
<1>11. Spaces'
  BY <1>0, Setting, <1>2, Known DEF Loaders, Loading, Alone, Spaces, Empty
<1>12. Readiers'
  BY <1>0, Setting, Known DEF Readiers, Alone
<1>13. NoWaits' /\ AllDeferred'
  BY <1>0, Setting, Known DEF NoWaits, AllDeferred
<1>14. Zombies'
  BY <1>0, Setting, Sorts DEF Zombies
<1>15. Woken'
  BY <1>0, Setting, Sorts DEF Woken
<1>16. Waited'
  BY <1>0, Setting, <1>2, Sorts DEF Waited, NobodyWaitsForTheDead
<1> QED
  BY <1>3, <1>4, <1>5, <1>6, <1>7, <1>8, <1>9, <1>10, <1>11, <1>12, <1>13, <1>14, <1>15, <1>16 DEF BaseInv, MoreInv

(* thread_exit begins: the thread has no process in hand.                  *)
LEMMA ThreadExitBeginMore ==
    ASSUME LifeInv, MoreInv, NEW t \in Threads, ThreadExitBegin(t)
    PROVE  MoreInv'
<1> USE DEF Local, Carry, Busy, Claiming, Deferring, Waiting, Loads, BaseInv, MoreInv
<1>0. /\ pc[t] = "out" /\ state[t] = "READY"
      /\ \A b \in Agents : pc'[b] = IF b = t THEN "t_exit" ELSE pc[b]
      /\ \A b \in Agents : obj'[b] = IF b = t THEN None ELSE obj[b]
      /\ \A b \in Agents : then'[b] = IF b = t THEN "out" ELSE then[b]
      /\ UNCHANGED <<pstate, listed, claimed, queued, awaiting, home, refs, exit_waiters,
                     published, linked, state, reap_list, teardown_q, victim, finalized,
                     reclaimed, setup, self_killed>>
  BY Known, Domains DEF ThreadExitBegin, Goto, Call, pcb, bodies, work, ghost
<1>1. \A d \in Cpus, y \in Threads : ToReap(y, d)' <=> ToReap(y, d)
  BY <1>0, Known DEF ToReap
<1>2. Births'
  BY <1>0, Known DEF Births, Unborn, Ops
<1>3. Lives'
  BY <1>0, <1>1, Known DEF Lives, Alive, Reaping, Slain, Felled
<1>4. Calls'
  BY <1>0, Known DEF Calls, InKernel, Alive
<1>5. Hands'
  BY <1>0, Known DEF Hands, Ops
<1>6. Owned' /\ Counts' /\ Sleepers'
  BY <1>0, Known DEF LifeInv, Token, Owned, Counts, Sleepers
<1>7. Loaders' /\ Spaces' /\ Readiers'
  BY <1>0, Setting, Known DEF Loaders, Loading, Alone, Empty, Spaces, Readiers
<1>8. NoWaits' /\ AllDeferred'
  BY <1>0, Setting, Known DEF NoWaits, AllDeferred
<1>9. Zombies'
  BY <1>0, Setting, Sorts DEF Zombies
<1>10. Woken'
  BY <1>0, Setting, Sorts DEF Woken
<1>11. Waited'
  BY <1>0, Setting, Sorts DEF Waited, NobodyWaitsForTheDead
<1> QED
  BY <1>2, <1>3, <1>4, <1>5, <1>6, <1>7, <1>8, <1>9, <1>10, <1>11 DEF BaseInv, MoreInv

(* A thread ends itself and goes to the reaper.                            *)
LEMMA ThreadExitMore ==
    ASSUME LifeInv, MoreInv, NEW t \in Threads, ThreadExit(t)
    PROVE  MoreInv'
<1> USE DEF Local, Carry, Busy, Claiming, Deferring, Waiting, Loads, BaseInv, MoreInv
<1>0. /\ pc[t] = "t_exit"
      /\ state[t] \in {"READY", "BLOCKED"}
      /\ \A u \in Threads : state'[u] = IF u = t THEN "DEAD" ELSE state[u]
      /\ \A b \in Agents : pc'[b] = IF b = t THEN "gone" ELSE pc[b]
      /\ QueueReap(t)
      /\ UNCHANGED <<pstate, listed, claimed, queued, awaiting, home, refs, exit_waiters,
                     published, linked, teardown_q, obj, victim, then, finalized, reclaimed,
                     setup, self_killed>>
  BY Known, Domains DEF ThreadExit, Goto, MayRun, pcb, bodies, work, ghost
<1>r. \A d \in Cpus : ~ToReap(t, d)
  BY <1>0 DEF LifeInv, Bodies
<1>1. \A d \in Cpus, y \in Threads : ToReap(y, d)' <=> ToReap(y, d) \/ (y = t /\ d = home[Owner[y]])
  BY <1>0, <1>r, Known, QueueReapFacts DEF ToReap
<1>2. Births'
  BY <1>0, Known DEF Births, Unborn, Ops
<1>3. Lives'
  BY <1>0, <1>1, Known DEF Lives, Alive, Reaping, Slain, Felled
<1>4. Calls'
  BY <1>0, Known DEF Calls, InKernel, Alive
<1>5. Hands'
  BY <1>0, Known DEF Hands, Ops
<1>6. Owned' /\ Counts' /\ Sleepers'
  BY <1>0, Known DEF LifeInv, Token, Owned, Counts, Sleepers
<1>7. Loaders' /\ Spaces' /\ Readiers'
  BY <1>0, Setting, Known DEF Loaders, Loading, Alone, Empty, Spaces, Readiers
<1>8. NoWaits' /\ AllDeferred'
  BY <1>0, Setting, Known DEF NoWaits, AllDeferred
<1>9. Zombies'
  BY <1>0, Setting, Sorts DEF Zombies
<1>10. Woken'
  BY <1>0, Setting, Sorts DEF Woken
<1>11. Waited'
  BY <1>0, Setting, Sorts DEF Waited, NobodyWaitsForTheDead
<1> QED
  BY <1>2, <1>3, <1>4, <1>5, <1>6, <1>7, <1>8, <1>9, <1>10, <1>11 DEF BaseInv, MoreInv

(* process_create: nothing was known of this process.                      *)
LEMMA SpawnCreateMore ==
    ASSUME LifeInv, MoreInv, NEW t \in Threads, NEW p \in Procs, SpawnCreate(t, p)
    PROVE  MoreInv'
<1> USE DEF Local, Carry, Busy, Claiming, Deferring, Waiting, Loads, BaseInv, MoreInv
<1>0. /\ pc[t] = "out" /\ state[t] = "READY"
      /\ pstate[p] = "none" /\ "spawn" \in Ops
      /\ \A q \in Procs : pstate'[q] = IF q = p THEN "CREATING" ELSE pstate[q]
      /\ listed' = listed \cup {p}
      /\ \A q \in Procs : refs'[q] = IF q = p THEN {Slot} ELSE refs[q]
      /\ \A b \in Agents : pc'[b] = IF b = t THEN "sp_load" ELSE pc[b]
      /\ \A b \in Agents : obj'[b] = IF b = t THEN p ELSE obj[b]
      /\ \A b \in Agents : then'[b] = IF b = t THEN "out" ELSE then[b]
      /\ UNCHANGED <<claimed, queued, awaiting, home, exit_waiters, published, linked, state,
                     reap_list, teardown_q, victim, finalized, reclaimed, setup, self_killed>>
  BY Known, Domains DEF SpawnCreate, Goto, Call, pcb, bodies, work, ghost
<1>1. \A d \in Cpus, y \in Threads : ToReap(y, d)' <=> ToReap(y, d)
  BY <1>0, Known DEF ToReap
<1>2. p # Owner[t] /\ Unborn(p)
  BY <1>0, Known DEF Births, Unborn
<1>3. Births'
  BY <1>0, Known DEF Births, Unborn, Ops
<1>4. Lives'
  BY <1>0, <1>1, Known DEF Lives, Alive, Reaping, Slain, Felled
<1>5. Calls'
  BY <1>0, Known DEF Calls, InKernel, Alive
<1>6. Hands'
  BY <1>0, <1>2, Known DEF Hands, Ops, Unborn
<1>7. Owned' /\ Sleepers'
  BY <1>0, Known DEF LifeInv, Token, Owned, Sleepers
<1>8. Counts'
  BY <1>0, <1>2, Known DEF LifeInv, Token, Counts, Unborn
<1>9. Loaders'
  BY <1>0, Setting, <1>2, Known DEF Loaders, Loading, Alone, Empty, Unborn
<1>10. Spaces'
  BY <1>0, Setting, <1>2, Known DEF Loaders, Loading, Alone, Spaces, Empty, Unborn
<1>11. Readiers'
  BY <1>0, Setting, <1>2, Known DEF Readiers, Alone, Unborn
<1>12. NoWaits'
  BY <1>0, Setting, Known DEF NoWaits
<1>13. AllDeferred'
  BY <1>0, Setting, Known DEF AllDeferred, WaitsInStep
<1>14. Zombies'
  BY <1>0, Setting, <1>2, Sorts DEF Zombies, Unborn
<1>15. Woken'
  BY <1>0, Setting, <1>2, Sorts DEF Woken, Unborn
<1>16. Waited'
  BY <1>0, Setting, Sorts DEF Waited, NobodyWaitsForTheDead
<1> QED
  BY <1>3, <1>4, <1>5, <1>6, <1>7, <1>8, <1>9, <1>10, <1>11, <1>12, <1>13, <1>14, <1>15, <1>16 DEF BaseInv, MoreInv

(* The load failed; the loader turns on a process without threads.         *)
LEMMA SpawnFailsMore ==
    ASSUME LifeInv, MoreInv, NEW t \in Threads, SpawnFails(t)
    PROVE  MoreInv'
<1> USE DEF Local, Carry, Busy, Claiming, Deferring, Waiting, Loads, BaseInv, MoreInv
<1>0. /\ pc[t] = "sp_load"
      /\ \A b \in Agents : pc'[b] = IF b = t THEN "claim" ELSE pc[b]
      /\ UNCHANGED <<pstate, listed, claimed, queued, awaiting, home, refs, exit_waiters,
                     published, linked, state, reap_list, teardown_q, obj, victim, then,
                     finalized, reclaimed, setup, self_killed>>
  BY Known, Domains DEF SpawnFails, Goto, pcb, bodies, work, ghost
<1>1. \A d \in Cpus, y \in Threads : ToReap(y, d)' <=> ToReap(y, d)
  BY <1>0, Known DEF ToReap
<1>2. Births'
  BY <1>0, Known DEF Births, Unborn, Ops
<1>3. Lives'
  BY <1>0, <1>1, Known DEF Lives, Alive, Reaping, Slain, Felled
<1>4. Calls'
  BY <1>0, Known DEF Calls, InKernel, Alive
<1>5. Hands'
  BY <1>0, Known DEF Hands, Ops
<1>6. Owned' /\ Counts' /\ Sleepers'
  BY <1>0, Known DEF LifeInv, Token, Owned, Counts, Sleepers
<1>7. Loaders' /\ Spaces' /\ Readiers'
  BY <1>0, Setting, Known DEF Loaders, Loading, Alone, Empty, Spaces, Readiers
<1>8. NoWaits' /\ AllDeferred'
  BY <1>0, Setting, Known DEF NoWaits, AllDeferred
<1>9. Zombies'
  BY <1>0, Setting, Sorts DEF Zombies
<1>10. Woken'
  BY <1>0, Setting, Sorts DEF Woken
<1>11. Waited'
  BY <1>0, Setting, Sorts DEF Waited, NobodyWaitsForTheDead
<1> QED
  BY <1>2, <1>3, <1>4, <1>5, <1>6, <1>7, <1>8, <1>9, <1>10, <1>11 DEF BaseInv, MoreInv

(* The first thread of a process whose end nobody has claimed.             *)
LEMMA SpawnThreadMore ==
    ASSUME LifeInv, MoreInv, NEW t \in Threads, NEW u \in Threads, SpawnThread(t, u)
    PROVE  MoreInv'
<1> USE DEF Local, Carry, Busy, Claiming, Deferring, Waiting, Loads, BaseInv, MoreInv
<1>0. /\ pc[t] = "sp_load" /\ t # u
      /\ Owner[u] = obj[t] /\ state[u] = "none"
      /\ published' = published \cup {u}
      /\ linked' = linked \cup {u}
      /\ \A w \in Threads : state'[w] = IF w = u THEN "READY" ELSE state[w]
      /\ \A b \in Agents : pc'[b] = IF b = t THEN "sp_ready" ELSE IF b = u THEN "out" ELSE pc[b]
      /\ UNCHANGED <<pstate, listed, claimed, queued, awaiting, home, refs, exit_waiters,
                     reap_list, teardown_q, obj, victim, then, finalized, reclaimed, setup, self_killed>>
  BY Known, Domains DEF SpawnThread, Publish, pcb, bodies, work, ghost
<1>1. \A d \in Cpus, y \in Threads : ToReap(y, d)' <=> ToReap(y, d)
  BY <1>0, Known DEF ToReap
<1>2. pc[u] = "gone" /\ u \notin published
  BY <1>0, Known DEF Calls, Lives, Alive
<1>3. Births'
  BY <1>0, <1>2, Known DEF Births, Unborn, Ops
<1>4. Lives'
  BY <1>0, <1>1, <1>2, Known DEF Lives, Alive, Reaping, Slain, Felled
<1>5. Calls'
  BY <1>0, Known DEF Calls, InKernel, Alive
<1>6. Hands'
  BY <1>0, <1>2, Known DEF Hands, Ops
<1>7. Owned'
  BY <1>0, <1>2, Known DEF LifeInv, Token, Owned
<1>8. Counts'
  BY <1>0, <1>2, Known DEF LifeInv, Token, Counts
<1>9. Sleepers'
  BY <1>0, <1>2, Known DEF Sleepers
<1>10. Loaders'
  BY <1>0, Setting, <1>2, Known DEF Loaders, Loading, Alone, Empty
<1>11. Spaces'
  BY <1>0, Setting, <1>2, Known DEF Loaders, Loading, Alone, Spaces, Empty, LifeInv, Token
<1>12. Readiers'
  BY <1>0, Setting, <1>2, Known DEF Readiers, Alone, SpawnsAtHome, KillsTheBorn, Loaders, Loading
<1>13. NoWaits' /\ AllDeferred'
  BY <1>0, Setting, Known DEF NoWaits, AllDeferred
<1>14. Zombies'
  BY <1>0, Setting, Sorts DEF Zombies
<1>15. Woken'
  BY <1>0, Setting, Sorts DEF Woken
<1>16. Waited'
  BY <1>0, Setting, <1>2, Sorts DEF Waited, NobodyWaitsForTheDead
<1> QED
  BY <1>3, <1>4, <1>5, <1>6, <1>7, <1>8, <1>9, <1>10, <1>11, <1>12, <1>13, <1>14, <1>15, <1>16 DEF BaseInv, MoreInv

(* The process is READY, its loader has nothing in hand.                   *)
LEMMA SpawnReadyMore ==
    ASSUME LifeInv, MoreInv, NEW t \in Threads, SpawnReady(t)
    PROVE  MoreInv'
<1> USE DEF Local, Carry, Busy, Claiming, Deferring, Waiting, Loads, BaseInv, MoreInv
<1>0. /\ pc[t] = "sp_ready"
      /\ \A q \in Procs : pstate'[q] = IF q = obj[t] THEN "READY" ELSE pstate[q]
      /\ \A b \in Agents : pc'[b] = IF b = t THEN "out" ELSE pc[b]
      /\ \A b \in Agents : obj'[b] = IF b = t THEN None ELSE obj[b]
      /\ UNCHANGED <<listed, claimed, queued, awaiting, home, refs, exit_waiters, published,
                     linked, state, reap_list, teardown_q, victim, then, finalized, reclaimed,
                     setup, self_killed>>
  BY Known, Domains DEF SpawnReady, Goto, pcb, bodies, work, ghost
<1>1. \A d \in Cpus, y \in Threads : ToReap(y, d)' <=> ToReap(y, d)
  BY <1>0, Known DEF ToReap
<1>2. obj[t] \in Procs /\ pstate[obj[t]] # "none"
  BY <1>0, Known DEF Births, Unborn
<1>3. OneCpu => \A u \in Threads : u # t => ~InKernel(u)
  BY Known, OnlyOne DEF SpawnReady, Goto
<1>4. Births'
  BY <1>0, Known DEF Births, Unborn, Ops
<1>5. Lives'
  BY <1>0, <1>1, Known DEF Lives, Alive, Reaping, Slain, Felled
<1>6. Calls'
  BY <1>0, Known DEF Calls, InKernel, Alive
<1>7. Hands'
  BY <1>0, Known DEF Hands, Ops
<1>8. Owned' /\ Sleepers'
  BY <1>0, Known DEF LifeInv, Token, Owned, Sleepers
<1>9. Counts'
  BY <1>0, <1>2, Known DEF LifeInv, Token, Counts
<1>10. Loaders' /\ Spaces' /\ Readiers'
  BY <1>0, Setting, Known DEF Loaders, Loading, Alone, Empty, Spaces, Readiers
<1>11. NoWaits' /\ AllDeferred'
  BY <1>0, Setting, Known DEF NoWaits, AllDeferred
<1>12. Zombies'
  BY <1>0, Setting, <1>3, Sorts DEF Zombies, AllDeferred, InKernel
<1>13. Woken'
  BY <1>0, Setting, Sorts DEF Woken
<1>14. Waited'
  BY <1>0, Setting, Sorts DEF Waited, NobodyWaitsForTheDead
<1> QED
  BY <1>4, <1>5, <1>6, <1>7, <1>8, <1>9, <1>10, <1>11, <1>12, <1>13, <1>14 DEF BaseInv, MoreInv

(* A body passes from the list to the hands of idle.                       *)
LEMMA ReapPopMore ==
    ASSUME LifeInv, MoreInv, NEW c \in Cpus, ReapPop(c)
    PROVE  MoreInv'
<1> USE DEF Local, Carry, Busy, Claiming, Deferring, Waiting, Loads, BaseInv, MoreInv
<1>0. /\ pc[c] = "out"
      /\ \A b \in Agents : pc'[b] = IF b = c THEN "reap" ELSE pc[b]
      /\ \A b \in Agents : b # c => victim'[b] = victim[b]
      /\ UNCHANGED <<pstate, listed, claimed, queued, awaiting, home, refs, exit_waiters,
                     published, linked, state, teardown_q, obj, then, finalized, reclaimed,
                     setup, self_killed>>
  BY Known, Domains DEF ReapPop, Goto, pcb, bodies, work, ghost
<1>1. \A d \in Cpus, y \in Threads : ToReap(y, d)' <=> ToReap(y, d)
  <2>1. /\ reap_list[c] \in Seq(Threads) /\ NoDup(reap_list[c]) /\ reap_list[c] # <<>>
        /\ reap_list' = [reap_list EXCEPT ![c] = Tail(reap_list[c])]
        /\ victim' = [victim EXCEPT ![c] = Head(reap_list[c])]
    BY DEF ReapPop, LifeInv, TypeInv, TypeOK, Bodies
  <2>2. \A y : In(y, reap_list[c]) <=> In(y, Tail(reap_list[c])) \/ y = Head(reap_list[c])
    BY <2>1, TailFacts
  <2>3. \A d \in Cpus : reap_list'[d] = IF d = c THEN Tail(reap_list[c]) ELSE reap_list[d]
    BY <2>1, Domains
  <2> QED
    BY <1>0, <2>1, <2>2, <2>3, Known, Domains DEF ToReap
<1>2. Births'
  BY <1>0, Known DEF Births, Unborn, Ops
<1>3. Lives'
  BY <1>0, <1>1, Known DEF Lives, Alive, Reaping, Slain, Felled
<1>4. Calls'
  BY <1>0, Known DEF Calls, InKernel, Alive
<1>5. Hands'
  BY <1>0, Known DEF Hands, Ops
<1>6. Owned' /\ Counts' /\ Sleepers'
  BY <1>0, Known DEF LifeInv, Token, Owned, Counts, Sleepers
<1>7. Loaders' /\ Spaces' /\ Readiers'
  BY <1>0, Setting, Known DEF Loaders, Loading, Alone, Empty, Spaces, Readiers
<1>8. NoWaits' /\ AllDeferred'
  BY <1>0, Setting, Known DEF NoWaits, AllDeferred
<1>9. Zombies'
  BY <1>0, Setting, Sorts DEF Zombies
<1>10. Woken'
  BY <1>0, Setting, Sorts DEF Woken
<1>11. Waited'
  BY <1>0, Setting, Sorts DEF Waited, NobodyWaitsForTheDead
<1> QED
  BY <1>2, <1>3, <1>4, <1>5, <1>6, <1>7, <1>8, <1>9, <1>10, <1>11 DEF BaseInv, MoreInv

(* A body leaves; the last one of an armed process takes the end over.     *)
LEMMA ReapDetachMore ==
    ASSUME LifeInv, MoreInv, NEW c \in Cpus, ReapDetach(c)
    PROVE  MoreInv'
<1> USE DEF Local, Carry, Busy, Claiming, Deferring, Waiting, Loads, BaseInv, MoreInv
<1>1. CASE Of(Owner[victim[c]]) \subseteq {victim[c]} /\ Owner[victim[c]] \in awaiting
  <2>0. /\ pc[c] = "reap"
        /\ awaiting' = awaiting \ {Owner[victim[c]]}
        /\ published' = published \ {victim[c]}
        /\ linked' = linked \ {victim[c]}
        /\ \A b \in Agents : pc'[b] = IF b = c THEN "finalize" ELSE pc[b]
        /\ \A b \in Agents : obj'[b] = IF b = c THEN Owner[victim[c]] ELSE obj[b]
        /\ \A b \in Agents : victim'[b] = IF b = c THEN None ELSE victim[b]
        /\ UNCHANGED <<pstate, listed, claimed, queued, home, refs, exit_waiters, state,
                       reap_list, teardown_q, then, finalized, reclaimed, setup, self_killed>>
    BY <1>1, Known, Domains DEF ReapDetach, Goto, pcb, bodies, work, ghost
  <2>1. /\ victim[c] \in Threads /\ victim[c] \in published /\ state[victim[c]] = "DEAD"
        /\ \A d \in Cpus, y \in Threads : ToReap(y, d) /\ y # victim[c] => ToReap(y, d)'
    BY <2>0, <1>1, Known DEF ToReap, LifeInv, Bodies
  <2>2. Births'
    BY <2>0, <1>1, <2>1, Known DEF Births, Unborn, Ops
  <2>3. Lives'
    BY <2>0, <1>1, <2>1, Known DEF Lives, Alive, Reaping, Slain, Felled
  <2>4. Calls'
    BY <2>0, <1>1, Known DEF Calls, InKernel, Alive
  <2>5. Hands'
    BY <2>0, <1>1, Known DEF Hands, Ops
  <2>6. Owned' /\ Counts' /\ Sleepers'
    BY <2>0, <1>1, Known DEF LifeInv, Token, Owned, Counts, Sleepers
  <2>7. Loaders' /\ Readiers'
    BY <2>0, <1>1, Setting, Known DEF Loaders, Loading, Alone, Empty, Readiers
  <2>8. Spaces'
    BY <2>0, <1>1, Setting, <2>1, Known DEF Loaders, Loading, Alone, Spaces, Empty, Of
  <2>9. NoWaits' /\ AllDeferred'
    BY <2>0, <1>1, Setting, Known DEF NoWaits, AllDeferred
  <2>10. Zombies'
    BY <2>0, <1>1, Setting, Sorts DEF Zombies
  <2>11. Woken'
    BY <2>0, <1>1, Setting, Sorts DEF Woken
  <2>12. Waited'
    BY <2>0, <1>1, Setting, Sorts DEF Waited, NobodyWaitsForTheDead
  <2> QED
    BY <2>2, <2>3, <2>4, <2>5, <2>6, <2>7, <2>8, <2>9, <2>10, <2>11, <2>12 DEF BaseInv, MoreInv
<1>2. CASE ~(Of(Owner[victim[c]]) \subseteq {victim[c]} /\ Owner[victim[c]] \in awaiting)
  <2>0. /\ pc[c] = "reap"
        /\ published' = published \ {victim[c]}
        /\ linked' = linked \ {victim[c]}
        /\ \A b \in Agents : pc'[b] = IF b = c THEN "out" ELSE pc[b]
        /\ \A b \in Agents : victim'[b] = IF b = c THEN None ELSE victim[b]
        /\ UNCHANGED <<pstate, listed, claimed, queued, awaiting, home, refs, exit_waiters,
                       state, reap_list, teardown_q, obj, then, finalized, reclaimed, setup, self_killed>>
    BY <1>2, Known, Domains DEF ReapDetach, Goto, pcb, bodies, work, ghost
  <2>1. /\ victim[c] \in Threads /\ victim[c] \in published /\ state[victim[c]] = "DEAD"
        /\ \A d \in Cpus, y \in Threads : ToReap(y, d) /\ y # victim[c] => ToReap(y, d)'
    BY <2>0, <1>2, Known DEF ToReap, LifeInv, Bodies
  <2>2. Births'
    BY <2>0, <1>2, <2>1, Known DEF Births, Unborn, Ops
  <2>3. Lives'
    BY <2>0, <1>2, <2>1, Known DEF Lives, Alive, Reaping, Slain, Felled
  <2>4. Calls'
    BY <2>0, <1>2, Known DEF Calls, InKernel, Alive
  <2>5. Hands'
    BY <2>0, <1>2, Known DEF Hands, Ops
  <2>6. Owned' /\ Counts' /\ Sleepers'
    BY <2>0, <1>2, Known DEF LifeInv, Token, Owned, Counts, Sleepers
  <2>7. Loaders' /\ Readiers'
    BY <2>0, <1>2, Setting, Known DEF Loaders, Loading, Alone, Empty, Readiers
  <2>8. Spaces'
    BY <2>0, <1>2, Setting, <2>1, Known DEF Loaders, Loading, Alone, Spaces, Empty, Of
  <2>9. NoWaits' /\ AllDeferred'
    BY <2>0, <1>2, Setting, Known DEF NoWaits, AllDeferred
  <2>10. Zombies'
    BY <2>0, <1>2, Setting, Sorts DEF Zombies
  <2>11. Woken'
    BY <2>0, <1>2, Setting, Sorts DEF Woken
  <2>12. Waited'
    BY <2>0, <1>2, Setting, Sorts DEF Waited, NobodyWaitsForTheDead
  <2> QED
    BY <2>2, <2>3, <2>4, <2>5, <2>6, <2>7, <2>8, <2>9, <2>10, <2>11, <2>12 DEF BaseInv, MoreInv
<1> QED
  BY <1>1, <1>2

(* A process moves: the setup did not promise one CPU.                     *)
LEMMA MigrateMore ==
    ASSUME LifeInv, MoreInv, NEW p \in Procs, NEW c \in Cpus, Migrate(p, c)
    PROVE  MoreInv'
<1> USE DEF Local, Carry, Busy, Claiming, Deferring, Waiting, Loads, BaseInv, MoreInv
<1>0. /\ "migrate" \in Ops
      /\ \A q \in Procs : home'[q] = IF q = p THEN c ELSE home[q]
      /\ UNCHANGED <<pstate, listed, claimed, queued, awaiting, refs, exit_waiters, published,
                     linked, state, reap_list, teardown_q, pc, obj, victim, then, finalized,
                     reclaimed, setup, self_killed>>
  BY Known, Domains DEF Migrate, pcb, bodies, work, ghost
<1>1. \A d \in Cpus, y \in Threads : ToReap(y, d)' <=> ToReap(y, d)
  BY <1>0, Known DEF ToReap
<1>2. Births'
  BY <1>0, Known DEF Births, Unborn, Ops
<1>3. Lives'
  BY <1>0, <1>1, Known DEF Lives, Alive, Reaping, Slain, Felled
<1>4. Calls'
  BY <1>0, Known DEF Calls, InKernel, Alive
<1>5. Hands'
  BY <1>0, Known DEF Hands, Ops
<1>6. Owned' /\ Counts' /\ Sleepers'
  BY <1>0, Known DEF LifeInv, Token, Owned, Counts, Sleepers
<1>7. Loaders' /\ Spaces' /\ Readiers'
  BY <1>0, Setting, Known DEF Loaders, Loading, Alone, Empty, Spaces, Readiers
<1>8. NoWaits' /\ AllDeferred'
  BY <1>0, Setting, Known DEF NoWaits, AllDeferred
<1>9. Zombies'
  BY <1>0, Setting, Sorts DEF Zombies
<1>10. Woken'
  BY <1>0, Setting, Sorts DEF Woken
<1>11. Waited'
  BY <1>0, Setting, Sorts DEF Waited, NobodyWaitsForTheDead
<1> QED
  BY <1>2, <1>3, <1>4, <1>5, <1>6, <1>7, <1>8, <1>9, <1>10, <1>11 DEF BaseInv, MoreInv

----------------------------------------------------------------------------
(* Before anything has run nobody is in a call and nothing ends.           *)
LEMMA InitMore == Init => MoreInv
<1> SUFFICES ASSUME Init PROVE MoreInv
  OBVIOUS
<1> USE DEF Local, Carry, Busy, Claiming, Deferring, Waiting, Loads, Init
<1>0. LifeInv
  BY InitInv
<1>1. /\ \A a \in Agents : pc[a] \in {"out", "gone"} /\ obj[a] = None
      /\ \A t \in Threads : state[t] = IF t \in setup.alive THEN "READY" ELSE "none"
      /\ \A t \in Threads : t \notin setup.alive => pc[t] = "gone"
      /\ \A p \in Procs : exit_waiters[p] = {} /\ finalized[p] = 0
      /\ \A p \in Procs : pstate[p] = IF p \in listed THEN "READY" ELSE "none"
      /\ \A p \in Procs : refs[p] = IF p \in listed THEN {Slot} ELSE {}
      /\ \A t \in setup.alive : Owner[t] \in listed
      /\ \A c \in Cpus : teardown_q[c] = {}
  BY <1>0, Known
<1>2. Births
  BY <1>0, <1>1, Known DEF Births, Unborn, Ops
<1>3. Lives /\ Calls
  BY <1>0, <1>1, Known DEF Lives, Calls, Alive, InKernel
<1>4. Hands /\ Sleepers /\ Owned /\ Counts
  <2>1. Hands
    BY <1>0, <1>1, Known DEF Hands
  <2>2. Sleepers /\ Owned
    BY <1>0, <1>1, Known DEF Sleepers, Owned
  <2>3. Counts
    BY <1>0, <1>1, Known DEF Counts
  <2> QED
    BY <2>1, <2>2, <2>3
<1>5. Loaders /\ Spaces /\ Readiers
  BY <1>0, <1>1, Known DEF Loaders, Loading, Spaces, Readiers
<1>6. NoWaits /\ AllDeferred /\ Zombies /\ Woken /\ Waited
  BY <1>0, <1>1, Known DEF NoWaits, AllDeferred, Zombies, Woken, Waited, NobodyWaitsForTheDead
<1> QED
  BY <1>2, <1>3, <1>4, <1>5, <1>6 DEF MoreInv, BaseInv

(* A stuttering step changes nothing of it.                                *)
LEMMA StutterMore == MoreInv /\ UNCHANGED vars => MoreInv'
<1> SUFFICES ASSUME MoreInv, UNCHANGED vars PROVE MoreInv'
  OBVIOUS
<1> USE DEF vars, pcb, bodies, work, ghost
<1>1. BaseInv'
  BY DEF MoreInv, BaseInv, Births, Unborn, Ops, Lives, Alive, Reaping, ToReap, Slain, Felled, Calls, InKernel,
     Hands, Owned, Counts, Sleepers
<1>2. Loaders' /\ Spaces' /\ Readiers'
  BY Setting DEF MoreInv, Loaders, Loading, Alone, Empty, Spaces, Readiers
<1>3. NoWaits' /\ AllDeferred' /\ Zombies' /\ Woken' /\ Waited'
  BY Setting DEF MoreInv, NoWaits, AllDeferred, Zombies, Woken, Waited, NobodyWaitsForTheDead
<1> QED
  BY <1>1, <1>2, <1>3 DEF MoreInv

(* Every step of processes, threads and CPUs keeps it.                     *)
LEMMA NextMore == LifeInv /\ MoreInv /\ [Next]_vars => MoreInv'
<1> SUFFICES ASSUME LifeInv, MoreInv, Next PROVE MoreInv'
  BY StutterMore
<1>1. ASSUME NEW a \in Agents, Destroying(a)
      PROVE  MoreInv'
  BY <1>1, ClaimMore, RouteMore, SetZombieMore, TakeOtherMore, SlayMore, DetachMore,
     BuryMore, UnlistMore, ArmMore, FinalizeMore DEF Destroying
<1>2. ASSUME NEW t \in Threads, ThreadStep(t)
      PROVE  MoreInv'
  <2>1. t \in Agents
    BY DEF Agents
  <2>2. CASE Destroying(t)
    BY <2>1, <2>2, <1>1
  <2>3. CASE WakeFirst(t) \/ WaitLoop(t) \/ WaitPrepare(t) \/ WaitRecheck(t) \/ Put(t)
    BY <2>3, WakeFirstMore, WaitLoopMore, WaitPrepareMore, WaitRecheckMore, PutMore
  <2>4. CASE DeferClaim(t) \/ DeferZombie(t) \/ DeferWake(t) \/ Defer(t) \/ FaultDead(t)
    BY <2>1, <2>4, DeferClaimMore, DeferZombieMore, DeferWakeMore, DeferMore, FaultDeadMore
  <2>5. CASE ThreadExit(t) \/ SpawnFails(t) \/ SpawnReady(t) \/ \E u \in Threads : SpawnThread(t, u)
    BY <2>5, ThreadExitMore, SpawnFailsMore, SpawnReadyMore, SpawnThreadMore
  <2> QED
    BY <1>2, <2>2, <2>3, <2>4, <2>5 DEF ThreadStep
<1>3. ASSUME NEW c \in Cpus, IdleStep(c)
      PROVE  MoreInv'
  <2>1. c \in Agents
    BY DEF Agents
  <2> QED
    BY <1>1, <1>3, <2>1, ReapPopMore, ReapDetachMore, TeardownPopMore DEF IdleStep
<1>4. ASSUME NEW t \in Threads, Begin(t)
      PROVE  MoreInv'
  <2>1. CASE ExitBegin(t) \/ FaultBegin(t) \/ ThreadExitBegin(t) \/ \E u \in Threads : ThreadCreate(t, u)
    BY <2>1, ExitBeginMore, FaultBeginMore, ThreadExitBeginMore, ThreadCreateMore
  <2>2. ASSUME NEW p \in Procs, KillBegin(t, p) \/ WaitBegin(t, p) \/ OomBegin(t, p) \/ SpawnCreate(t, p)
        PROVE  MoreInv'
    <3>1. CASE KillBegin(t, p)
      BY <3>1, GetRefMore DEF KillBegin
    <3>2. CASE WaitBegin(t, p) \/ OomBegin(t, p)
      BY <3>2, GetRefMore DEF WaitBegin, OomBegin
    <3> QED
      BY <2>2, <3>1, <3>2, SpawnCreateMore
  <2> QED
    BY <1>4, <2>1, <2>2 DEF Begin
<1> QED
  BY <1>2, <1>3, <1>4, MigrateMore DEF Next

(* MoreInv is an invariant of every behaviour.                             *)
THEOREM MoreInvariant == Spec => []MoreInv
<1>1. Init => LifeInv /\ MoreInv
  BY InitInv, InitMore
<1>2. (LifeInv /\ MoreInv) /\ [Next]_vars => (LifeInv /\ MoreInv)'
  BY NextInv, NextMore
<1> QED
  BY <1>1, <1>2, PTL DEF Spec

(* NoThreadOutlivesSpace: where no other CPU kills what is being loaded,   *)
(* process_finalize never takes an address space apart under a thread, and *)
(* no thread is born into one afterwards.                                  *)
THEOREM NoThreadIsLeftBehind == Spec => [](KillsTheBorn => NoThreadOutlivesSpace)
<1>1. ASSUME LifeInv, MoreInv, KillsTheBorn PROVE NoThreadOutlivesSpace
  <2>1. ASSUME NEW p \in Procs PROVE finalized[p] = 0 \/ finalized[p] = 1
    <3>1. finalized[p] \in Nat
      BY <1>1, Known
    <3>2. finalized[p] <= 1
      BY <1>1 DEF LifeInv, Token
    <3> QED
      BY <3>1, <3>2
  <2> QED
    BY <1>1, <2>1, Known DEF MoreInv, Spaces, Empty, NoThreadOutlivesSpace
<1> QED
  BY <1>1, LifeInvariant, MoreInvariant, PTL

(* PcbOutlivesItsUsers: where processes are spawned on one CPU only, the   *)
(* references taken by kill, wait and the OOM killer, and that of the      *)
(* table, are enough: no call, queue or waiter has a PCB that was freed.   *)
THEOREM NobodyUsesAFreedPcb == Spec => [](SpawnsAtHome => PcbOutlivesItsUsers)
<1>1. ASSUME LifeInv, MoreInv, SpawnsAtHome, NEW p \in reclaimed
      PROVE  /\ \A a \in Agents : obj[a] # p
             /\ \A c \in Cpus : p \notin teardown_q[c]
             /\ exit_waiters[p] = {} /\ p \notin listed
  <2> USE <1>1 DEF Local, Carry, Busy, Claiming, Deferring, Waiting, Loads, MoreInv, BaseInv
  <2>0. KillsTheBorn
    BY DEF KillsTheBorn, SpawnsAtHome
  <2>1. p \in Procs /\ refs[p] = {} /\ finalized[p] = 1 /\ p \in claimed /\ p \notin listed
    BY Known DEF Counts, LifeInv, Token
  <2>2. \A c \in Cpus : p \notin teardown_q[c]
    BY <2>1, Known DEF LifeInv, Token
  <2>3. \A a \in Agents : pc[a] \in Carry => obj[a] # p
    BY <2>1 DEF LifeInv, Token
  <2>4. ASSUME NEW t \in Threads, obj[t] = p
        PROVE  FALSE
    <3>1. pc[t] \in Busy \ Carry
      BY <2>1, <2>3, <2>4, Known DEF Hands
    <3>2. then[t] \in {"out", "put", "t_exit", "f_dead"} /\ then[t] # "put"
      BY <2>1, <2>4, <3>1, Known DEF Hands
    <3>3. CASE then[t] \in {"t_exit", "f_dead"}
      <4>1. Owner[t] = p /\ InKernel(t)
        BY <2>4, <3>1, <3>3, Known DEF Hands, InKernel
      <4>2. t \in published
        BY <4>1, Known DEF Calls, Alive
      <4> QED
        BY <2>0, <2>1, <4>1, <4>2, Known DEF Spaces, Empty
    <3>4. CASE then[t] = "out"
      <4>1. pc[t] \in Loads \cup {"claim"}
        BY <3>1, <3>4 DEF Hands
      <4>2. obj[t] \notin claimed
        BY <2>0, <3>4, <4>1 DEF Loaders, Loading, Alone, Readiers
      <4> QED
        BY <2>1, <2>4, <4>2
    <3> QED
      BY <3>2, <3>3, <3>4
  <2>5. \A a \in Agents : obj[a] # p
    BY <2>1, <2>3, <2>4, Known DEF Hands
  <2>6. exit_waiters[p] = {}
    BY <2>1, <2>5, Known DEF Sleepers
  <2> QED
    BY <2>1, <2>2, <2>5, <2>6
<1>2. LifeInv /\ MoreInv => (SpawnsAtHome => PcbOutlivesItsUsers)
  BY <1>1 DEF PcbOutlivesItsUsers
<1> QED
  BY <1>2, LifeInvariant, MoreInvariant, PTL

(* EndInv: where no other CPU kills what is being loaded, a claimed end is *)
(* never left to nobody, but for a thread that faulted or that killed its  *)
(* own process and lives on (isr.c:163, sys_kill); where waiters share a   *)
(* CPU with those who exit and kill, nobody sleeps on in sys_wait after    *)
(* the end.                                                                *)
THEOREM EndsAreCarriedOut == Spec => [](KillsTheBorn /\ WaitsInStep => EndInv)
<1>1. ASSUME LifeInv, MoreInv, KillsTheBorn, NEW p \in claimed
      PROVE  \/ finalized[p] > 0 \/ Faulted(p) \/ Survived(p) \/ \E c \in Cpus : p \in teardown_q[c]
             \/ \E a \in Agents : obj[a] = p /\ pc[a] \in Carry
             \/ p \in awaiting /\ \E t \in Of(p) :
                   \/ pc[t] = "t_exit"
                   \/ \E c \in Cpus : ToReap(t, c)
  <2>1. \/ finalized[p] = 1 \/ p \in awaiting \/ \E c \in Cpus : p \in teardown_q[c]
        \/ \E a \in Agents : pc[a] \in Carry /\ obj[a] = p
    BY <1>1 DEF MoreInv, BaseInv, Owned
  <2>2. CASE p \in awaiting
    <3>1. PICK t \in published : Owner[t] = p
      BY <1>1, <2>2 DEF MoreInv, Spaces, Empty
    <3>2. t \in Of(p) /\ t \in Threads
      BY <1>1, <3>1, Known DEF Of
    <3>3. CASE Alive(t)
      <4>1. p \in self_killed \/ pc[t] = "t_exit"
        BY <1>1, <2>2, <3>1, <3>3 DEF MoreInv, Spaces, Alive
      <4> QED
        BY <2>2, <3>2, <3>3, <4>1 DEF Survived, Alive
    <3>4. CASE ~Alive(t)
      <4>1. ~Felled(t)
        BY <1>1, <2>2, <3>1 DEF Felled, LifeInv, Bodies, Token, Carry, Local
      <4>2. pc[t] = "faulted" \/ \E c \in Cpus : ToReap(t, c)
        BY <1>1, <3>1, <3>4, <4>1 DEF MoreInv, BaseInv, Lives, Reaping
      <4> QED
        BY <2>2, <3>1, <3>2, <4>2 DEF Faulted
    <3> QED
      BY <3>3, <3>4
  <2> QED
    BY <2>1, <2>2
<1>2. LifeInv /\ MoreInv => (KillsTheBorn => EndIsOwned)
  BY <1>1 DEF EndIsOwned, Carry, Local, ToReap
<1>3. LifeInv /\ MoreInv => (KillsTheBorn /\ WaitsInStep => EndInv)
  BY <1>2 DEF EndInv, MoreInv, Waited, LifeInv, TypeInv
<1> QED
  BY <1>3, LifeInvariant, MoreInvariant, PTL
=============================================================================
