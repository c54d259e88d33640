-------------------------- MODULE WaitQueueProofs --------------------------
(***************************************************************************)
(* Proofs about WaitQueue: on one CPU and without timeouts the lists of    *)
(* kernel/proc/wait.c stay lists, whoever sleeps can be woken and no       *)
(* wake-up is lost, for any number of waiters, wakers and queues.  With    *)
(* wakers on another CPU or with timeouts each of these fails in some      *)
(* case, see the README.                                                   *)
(***************************************************************************)
EXTENDS WaitQueue, SeqFacts, FiniteSetTheorems, WellFoundedInduction

(* All threads run on one CPU (a build without MAINDOB_SMP), nobody gives  *)
(* wait_prepare a timeout.                                                 *)
OneCpuOnly == Timed = {} /\ \A x, y \in Waiters \cup Wakers : CpuOf[x] = CpuOf[y]

----------------------------------------------------------------------------
(* The inductive invariant.                                                *)

(* The threads of s hang together by wq_next, in this order, each once.    *)
Linked(s) ==
    /\ \A i \in DOMAIN s : wq_next[s[i]] = IF i = Len(s) THEN None ELSE s[i + 1]
    /\ \A i, j \in DOMAIN s : s[i] = s[j] => i = j

FirstOf(s) == IF s = <<>> THEN None ELSE s[1]
LastOf(s) == IF s = <<>> THEN None ELSE s[Len(s)]

(* The queue q is the list s, of the threads whose blocked_on names q.     *)
ListOf(q, s) ==
    /\ Linked(s) /\ head[q] = FirstOf(s) /\ tail[q] = LastOf(s)
    /\ \A t \in Waiters : blocked_on[t] = q <=> \E i \in DOMAIN s : s[i] = t

Lists == \A q \in Queues : \E s \in Seq(Waiters) : ListOf(q, s)

(* Each waker k holds the threads D[k] it has detached and not yet woken:  *)
(* they sleep, are in no queue, and each has one waker to wake it.         *)
HoldsAs(k, s) ==
    /\ Linked(s) /\ hold[k] = FirstOf(s)
    /\ s # <<>> <=> At(k, "unblock") \/ At(k, "chain")
    /\ At(k, "unblock") => Len(s) = 1
    /\ \A i \in DOMAIN s : Sleeps(s[i]) /\ blocked_on[s[i]] = None

HeldAs(D) ==
    /\ \A k \in Wakers : HoldsAs(k, D[k])
    /\ \A j, k \in Wakers : \A m \in DOMAIN D[j] : \A n \in DOMAIN D[k] : D[j][m] = D[k][n] => j = k
    /\ \A t \in Waiters : Sleeps(t) /\ blocked_on[t] = None =>
          \E k \in Wakers : \E i \in DOMAIN D[k] : D[k][i] = t

Held == \E D \in [Wakers -> Seq(Waiters)] : HeldAs(D)

(* No timer runs, so no wait times out.                                    *)
Untimed == armed = {} /\ drain = Idle /\ \A t \in Waiters : wait_result[t] = "OK"

(* Where a waiter is and what its thread_t says go together.  Between      *)
(* wait_prepare and the yield it is alone, and still the last of its queue. *)
InPlace(t) ==
    /\ pc[t] \in {"out", "check", "prepare", "finish"} => state[t] = "RUNNING"
    /\ pc[t] \in {"recheck", "cancel", "yield"} =>
          state[t] = "BLOCKED" /\ blocked_on[t] = wq[t] /\ tail[wq[t]] = t
    /\ pc[t] = "asleep" => state[t] # "RUNNING"
    /\ blocked_on[t] # None =>
          blocked_on[t] = wq[t] /\ (Sleeps(t) \/ pc[t] \in {"recheck", "cancel", "yield"})
    /\ pc[t] # "out" => wq[t] \in Queues
    /\ pc[t] = "yield" => items[wq[t]] = 0

Spots ==
    /\ \A t \in Waiters : InPlace(t)
    /\ \A t, u \in Waiters : IrqsOff(t) /\ IrqsOff(u) => t = u

Calls ==
    /\ \A k \in Wakers : At(k, "one") \/ At(k, "all") => Of(k) \in Queues
    /\ \A q \in Queues : items[q] <= added[q]

(* While somebody sleeps in q, each item has somebody to bring it about:   *)
(* a wake_all or one wake_one per item to come, or a waiter on its way to  *)
(* look again.                                                             *)
SleeperIn(q) == \E t \in Waiters : Sleeps(t) /\ blocked_on[t] = q
AllIn(q) == \E k \in Wakers : wpc[k] = <<"all", q>>
Calling(q) == {k \in Wakers : wpc[k] = <<"one", q>>}
OnItsWay(t) ==
    \/ pc[t] \in {"check", "prepare", "recheck", "finish"}
    \/ pc[t] = "asleep" /\ (state[t] = "READY" \/ blocked_on[t] = None)
Coming(q) == {t \in Waiters : wq[t] = q /\ OnItsWay(t)}
CoveredIn(q) ==
    SleeperIn(q) => AllIn(q) \/ items[q] <= Cardinality(Calling(q)) + Cardinality(Coming(q))
Covered == \A q \in Queues : CoveredIn(q)

WaitInv ==
    /\ OneCpuOnly /\ TypeOK /\ Lists /\ Held
    /\ Untimed /\ Spots /\ Calls /\ Covered

----------------------------------------------------------------------------
(* Lists.                                                                  *)

(* A set of naturals with elements has a least one.                       *)
LEMMA Least ==
    ASSUME NEW T \in SUBSET Nat, T # {}
    PROVE  \E x \in T : \A y \in T : x <= y
<1>1. IsWellFoundedOn(OpToRel(<, Nat), Nat)
  BY NatLessThanWellFounded, Zenon
<1> DEFINE R == {ss \in Nat \X Nat : ss[1] < ss[2]}
<1>2. OpToRel(<, Nat) = R
  BY DEF OpToRel
<1>3. IsWellFoundedOn(R, Nat)
  BY <1>1, <1>2
<1>4. PICK x \in T : \A y \in T : ~ (<<y, x>> \in R)
  BY <1>3, WFMin
<1>5. ASSUME NEW y \in T PROVE x <= y
  <2>1. <<y, x>> \notin R /\ x \in Nat /\ y \in Nat
    BY <1>4
  <2> QED
    BY <2>1
<1> QED
  BY <1>5

(* The threads of a list without repetition are counted by its length.     *)
LEMMA CountOfList ==
    ASSUME NEW s \in Seq(Waiters), \A i, j \in DOMAIN s : s[i] = s[j] => i = j,
           NEW C, C = {s[i] : i \in DOMAIN s}
    PROVE  Len(s) \in Nat /\ Cardinality(C) = Len(s) /\ Len(s) <= Cardinality(Waiters)
<1>1. s \in [1 .. Len(s) -> Waiters] /\ Len(s) \in Nat /\ DOMAIN s = 1 .. Len(s)
  OBVIOUS
<1>2. IsFiniteSet(1 .. Len(s)) /\ Cardinality(1 .. Len(s)) = Len(s)
  <2>1. 1 \in Int /\ Len(s) \in Int
    BY <1>1
  <2>2. /\ IsFiniteSet(1 .. Len(s))
        /\ Cardinality(1 .. Len(s)) = IF 1 > Len(s) THEN 0 ELSE Len(s) - 1 + 1
    BY <2>1, FS_Interval
  <2> QED
    BY <1>1, <2>2
<1>3. s \in Injection(1 .. Len(s), Waiters)
  BY <1>1 DEF Injection, IsInjective
<1>4. Cardinality(1 .. Len(s)) <= Cardinality(Waiters)
  BY <1>3, FS_Injection, WaitAssumption
<1>5. s \in [1 .. Len(s) -> C]
  BY <1>1
<1>6. s \in Surjection(1 .. Len(s), C)
  BY <1>1, <1>5 DEF Surjection
<1>7. s \in Injection(1 .. Len(s), C)
  BY <1>1, <1>5 DEF Injection, IsInjective
<1>8. ExistsBijection(1 .. Len(s), C)
  BY <1>6, <1>7 DEF ExistsBijection, Bijection
<1> QED
  BY <1>1, <1>2, <1>4, <1>8, FS_Bijection

(* Following the links of a list finds its threads, in order, then None.   *)
LEMMA NthOfList ==
    ASSUME NEW q, NEW s \in Seq(Waiters), Linked(s), head[q] = FirstOf(s)
    PROVE  Nth(q) = [n \in 0 .. Cardinality(Waiters) |-> IF n < Len(s) THEN s[n + 1] ELSE None]
<1> DEFINE N == Cardinality(Waiters)
           G(g) == [n \in 0 .. N |-> IF n = 0 THEN head[q]
                                     ELSE IF g[n-1] = None THEN None ELSE wq_next[g[n-1]]]
           h == [n \in 0 .. N |-> IF n < Len(s) THEN s[n + 1] ELSE None]
           f == Nth(q)
<1>1. N \in Nat /\ Len(s) \in Nat /\ DOMAIN s = 1 .. Len(s)
  BY FS_CardinalityType, WaitAssumption
<1>2. \A i \in 1 .. Len(s) : s[i] \in Waiters /\ s[i] # None
  BY <1>1, WaitAssumption
<1>3. h[0] = head[q]
  BY <1>1 DEF FirstOf
<1>4. ASSUME NEW n \in 0 .. N, n # 0
      PROVE  n - 1 \in 0 .. N /\ h[n] = IF h[n-1] = None THEN None ELSE wq_next[h[n-1]]
  <2>1. n \in Nat /\ n - 1 \in 0 .. N
    BY <1>1, <1>4
  <2>2. CASE n - 1 < Len(s)
    <3>1. h[n-1] = s[n] /\ n \in 1 .. Len(s)
      BY <1>1, <1>4, <2>1, <2>2
    <3>2. wq_next[s[n]] = IF n = Len(s) THEN None ELSE s[n + 1]
      BY <1>1, <3>1 DEF Linked
    <3>3. h[n] = IF n < Len(s) THEN s[n + 1] ELSE None
      OBVIOUS
    <3> QED
      BY <1>1, <1>2, <2>1, <3>1, <3>2, <3>3
  <2>3. CASE ~(n - 1 < Len(s))
    BY <1>1, <1>4, <2>1, <2>3
  <2> QED
    BY <2>1, <2>2, <2>3
<1>5. h = G(h)
  BY <1>1, <1>3, <1>4
<1>6. f = G(f)
  <2>1. f = CHOOSE g : g = G(g)
    BY DEF Nth
  <2> HIDE DEF f, h, G
  <2>2. \E g : g = G(g)
    BY <1>5
  <2> QED
    BY <2>1, <2>2, Zenon
<1>7. f[0] = head[q] /\ \A n \in 0 .. N : n # 0 => f[n] = IF f[n-1] = None THEN None ELSE wq_next[f[n-1]]
  BY <1>1, <1>6
<1> DEFINE T == {n \in 0 .. N : f[n] # h[n]}
<1> HIDE DEF f, h
<1>8. T = {}
  <2>1. SUFFICES ASSUME T # {} PROVE FALSE
    OBVIOUS
  <2>2. PICK n \in T : \A m \in T : n <= m
    <3>1. T \in SUBSET Nat
      BY <1>1
    <3> QED
      BY <2>1, <3>1, Least
  <2>3. n \in 0 .. N /\ n # 0 /\ n - 1 \in 0 .. N /\ n - 1 \notin T
    BY <1>1, <1>3, <1>7, <2>2
  <2> QED
    BY <1>4, <1>7, <2>2, <2>3
<1>9. \A n \in 0 .. N : f[n] = h[n]
  BY <1>8
<1>10. f = [n \in 0 .. N |-> f[n]]
  BY <1>6
<1>11. h = [n \in 0 .. N |-> h[n]]
  BY DEF h
<1> QED
  BY <1>9, <1>10, <1>11 DEF f, h

(* So the chain of a queue is its list, and a proper one.                  *)
LEMMA ChainOfList ==
    ASSUME NEW q, NEW s \in Seq(Waiters), ListOf(q, s)
    PROVE  /\ Chain(q) = {s[i] : i \in DOMAIN s}
           /\ Chain(q) = {t \in Waiters : blocked_on[t] = q}
           /\ Cardinality(Chain(q)) = Len(s) /\ Len(s) \in 0 .. Cardinality(Waiters)
           /\ DOMAIN Nth(q) = 0 .. Cardinality(Waiters)
           /\ \A n \in 0 .. Cardinality(Waiters) :
                 Nth(q)[n] = IF n < Len(s) THEN s[n + 1] ELSE None
<1> DEFINE N == Cardinality(Waiters)
           C == {s[i] : i \in DOMAIN s}
<1>1. N \in Nat /\ Len(s) \in Nat /\ DOMAIN s = 1 .. Len(s)
  BY FS_CardinalityType, WaitAssumption
<1>2. \A i \in DOMAIN s : s[i] \in Waiters /\ s[i] # None
  BY <1>1, WaitAssumption
<1>3. Nth(q) = [n \in 0 .. N |-> IF n < Len(s) THEN s[n + 1] ELSE None]
  BY NthOfList DEF ListOf
<1>4. Cardinality(C) = Len(s) /\ Len(s) <= N
  BY CountOfList DEF ListOf, Linked
<1>5. C = {t \in Waiters : blocked_on[t] = q}
  BY <1>2 DEF ListOf
<1>6. \A n \in 0 .. N : Nth(q)[n] = IF n < Len(s) THEN s[n + 1] ELSE None
  BY <1>3
<1>7. DOMAIN Nth(q) = 0 .. N
  BY <1>3
<1>8. \A t \in C : t \in Chain(q)
  <2> SUFFICES ASSUME NEW i \in DOMAIN s PROVE s[i] \in Chain(q)
    OBVIOUS
  <2>1. i - 1 \in 0 .. N /\ i - 1 < Len(s) /\ (i - 1) + 1 = i
    BY <1>1, <1>4
  <2>2. Nth(q)[i - 1] = s[i]
    BY <1>6, <2>1
  <2> QED
    BY <1>2, <1>7, <2>1, <2>2 DEF Chain
<1>9. \A t \in Chain(q) : t \in C
  <2> SUFFICES ASSUME NEW n \in 0 .. N, Nth(q)[n] # None PROVE Nth(q)[n] \in C
    BY <1>7 DEF Chain
  <2>1. n < Len(s) /\ Nth(q)[n] = s[n + 1]
    BY <1>6
  <2>2. n + 1 \in DOMAIN s
    BY <1>1, <2>1
  <2> QED
    BY <2>1, <2>2
<1>10. Chain(q) = C
  BY <1>8, <1>9
<1> HIDE DEF C, N
<1>11. Cardinality(Chain(q)) = Len(s) /\ Len(s) \in 0 .. N
  BY <1>1, <1>4, <1>10
<1>12. Chain(q) = {t \in Waiters : blocked_on[t] = q}
  BY <1>5, <1>10
<1> QED
  BY <1>6, <1>7, <1>10, <1>11, <1>12 DEF C, N

(* The threads a waker holds are those it still reaches from hold.         *)
LEMMA DetachedOfList ==
    ASSUME NEW k, NEW s \in Seq(Waiters), Linked(s), hold[k] = FirstOf(s),
           At(k, "unblock") => Len(s) = 1
    PROVE  \A i \in DOMAIN s : s[i] \in Detached(k)
<1> DEFINE N == Cardinality(Waiters)
           G(g) == [n \in 0 .. N |-> IF n = 0 THEN hold[k]
                       ELSE IF g[n-1] = None \/ At(k, "unblock") THEN None ELSE wq_next[g[n-1]]]
           h == [n \in 0 .. N |-> IF n < Len(s) THEN s[n + 1] ELSE None]
           f == CHOOSE g : g = G(g)
<1>1. N \in Nat /\ Len(s) \in Nat /\ DOMAIN s = 1 .. Len(s)
  BY FS_CardinalityType, WaitAssumption
<1>2. \A i \in DOMAIN s : s[i] \in Waiters /\ s[i] # None
  BY <1>1, WaitAssumption
<1>3. h[0] = hold[k]
  BY <1>1 DEF FirstOf
<1>4. ASSUME NEW n \in 0 .. N, n # 0
      PROVE  /\ n - 1 \in 0 .. N
             /\ h[n] = IF h[n-1] = None \/ At(k, "unblock") THEN None ELSE wq_next[h[n-1]]
  <2>1. n \in Nat /\ n - 1 \in 0 .. N
    BY <1>1, <1>4
  <2>2. CASE n - 1 < Len(s)
    <3>1. h[n-1] = s[n] /\ n \in DOMAIN s
      BY <1>1, <1>4, <2>1, <2>2
    <3>2. wq_next[s[n]] = IF n = Len(s) THEN None ELSE s[n + 1]
      BY <3>1 DEF Linked
    <3>3. h[n] = IF n < Len(s) THEN s[n + 1] ELSE None
      OBVIOUS
    <3>4. At(k, "unblock") => n = Len(s)
      BY <1>1, <1>4, <2>1, <2>2
    <3> QED
      BY <1>1, <1>2, <2>1, <3>1, <3>2, <3>3, <3>4
  <2>3. CASE ~(n - 1 < Len(s))
    BY <1>1, <1>4, <2>1, <2>3
  <2> QED
    BY <2>1, <2>2, <2>3
<1>5. h = G(h)
  BY <1>1, <1>3, <1>4
<1>6. f = G(f)
  <2> HIDE DEF h, G
  <2>1. \E g : g = G(g)
    BY <1>5
  <2> QED
    BY <2>1, Zenon
<1>7. Detached(k) = {f[n] : n \in DOMAIN f} \ {None}
  BY DEF Detached
<1> HIDE DEF f, h
<1>8. DOMAIN f = 0 .. N
  BY <1>6
<1>9. /\ f[0] = hold[k]
      /\ \A n \in 0 .. N : n # 0 =>
            f[n] = IF f[n-1] = None \/ At(k, "unblock") THEN None ELSE wq_next[f[n-1]]
  BY <1>1, <1>6
<1> DEFINE T == {n \in 0 .. N : f[n] # h[n]}
<1>10. T = {}
  <2>1. SUFFICES ASSUME T # {} PROVE FALSE
    OBVIOUS
  <2>2. PICK n \in T : \A m \in T : n <= m
    <3>1. T \in SUBSET Nat
      BY <1>1
    <3> QED
      BY <2>1, <3>1, Least
  <2>3. n \in 0 .. N /\ n # 0 /\ n - 1 \in 0 .. N /\ n - 1 \notin T
    BY <1>1, <1>3, <1>9, <2>2
  <2> QED
    BY <1>4, <1>9, <2>2, <2>3
<1>11. Len(s) <= N
  BY CountOfList DEF Linked
<1> SUFFICES ASSUME NEW i \in DOMAIN s PROVE s[i] \in Detached(k)
  OBVIOUS
<1>12. i - 1 \in 0 .. N /\ i - 1 < Len(s) /\ (i - 1) + 1 = i
  BY <1>1, <1>11
<1>13. h[i - 1] = s[i]
  BY <1>12 DEF h
<1>14. f[i - 1] = s[i]
  BY <1>10, <1>12, <1>13
<1> QED
  BY <1>2, <1>7, <1>8, <1>12, <1>14

----------------------------------------------------------------------------
(* What every step uses.                                                   *)

(* What the types say of a single queue, waiter or waker.                  *)
LEMMA Known ==
    ASSUME WaitInv
    PROVE  /\ None \notin Waiters /\ None \notin Queues
           /\ \A q \in Queues : head[q] \in Threads /\ tail[q] \in Threads
                                /\ items[q] \in Nat /\ added[q] \in Nat
           /\ \A t \in Waiters : wq_next[t] \in Threads /\ blocked_on[t] \in Queues \cup {None}
                                 /\ wq[t] \in Queues \cup {None}
                                 /\ state[t] \in {"RUNNING", "READY", "BLOCKED"}
           /\ \A k \in Wakers : hold[k] \in Threads /\ wpc[k] = <<wpc[k][1], wpc[k][2]>>
<1> USE DEF WaitInv
<1>1. None \notin Waiters /\ None \notin Queues /\ MaxItems \in Nat
  BY WaitAssumption DEF TypeOK, MaxItems
<1>2. \A q \in Queues : head[q] \in Threads /\ tail[q] \in Threads
  BY DEF TypeOK
<1>3. \A q \in Queues : items[q] \in Nat /\ added[q] \in Nat
  <2>1. \A q \in Queues : items[q] \in 0 .. MaxItems /\ added[q] \in 0 .. MaxItems
    BY DEF TypeOK
  <2> QED
    BY <1>1, <2>1
<1>4. \A t \in Waiters : wq_next[t] \in Threads /\ blocked_on[t] \in Queues \cup {None}
                         /\ wq[t] \in Queues \cup {None}
                         /\ state[t] \in {"RUNNING", "READY", "BLOCKED"}
  BY DEF TypeOK
<1>5. \A k \in Wakers : hold[k] \in Threads
  BY DEF TypeOK
<1>6. \A k \in Wakers : wpc[k] = <<wpc[k][1], wpc[k][2]>>
  <2>1. \A k \in Wakers : wpc[k] \in {"idle", "one", "all", "unblock", "chain"} \X (Queues \cup {None})
    BY DEF TypeOK
  <2> QED
    BY <2>1
<1> QED
  BY <1>1, <1>2, <1>3, <1>4, <1>5, <1>6

(* The domains of the variables.                                           *)
LEMMA Domains ==
    ASSUME WaitInv
    PROVE  /\ DOMAIN pc = Waiters /\ DOMAIN state = Waiters /\ DOMAIN wq = Waiters
           /\ DOMAIN blocked_on = Waiters /\ DOMAIN wq_next = Waiters
           /\ DOMAIN wait_result = Waiters
           /\ DOMAIN hold = Wakers /\ DOMAIN wpc = Wakers
           /\ DOMAIN head = Queues /\ DOMAIN tail = Queues
           /\ DOMAIN items = Queues /\ DOMAIN added = Queues
  BY DEF WaitInv, TypeOK

(* On one CPU, what needs the CPU does not run inside somebody's wait.     *)
LEMMA Alone ==
    ASSUME WaitInv, NEW x \in Waiters \cup Wakers, MayRun(x)
    PROVE  \A t \in Waiters : ~IrqsOff(t)
  BY DEF WaitInv, OneCpuOnly, MayRun, CpuFree

(* A list stays when its ends, its links and its members do.               *)
LEMMA ListStays ==
    ASSUME NEW q, NEW s \in Seq(Waiters), ListOf(q, s), head'[q] = head[q], tail'[q] = tail[q],
           \A t \in Waiters : blocked_on[t] = q => wq_next'[t] = wq_next[t],
           \A t \in Waiters : blocked_on'[t] = q <=> blocked_on[t] = q
    PROVE  ListOf(q, s)'
<1>1. \A i \in DOMAIN s : s[i] \in Waiters /\ blocked_on[s[i]] = q
  BY DEF ListOf
<1>2. Linked(s)'
  BY <1>1 DEF ListOf, Linked
<1> QED
  BY <1>2 DEF ListOf

(* Nothing happens to the lists.                                           *)
LEMMA ListsStay ==
    ASSUME WaitInv, UNCHANGED links
    PROVE  Lists'
<1> SUFFICES ASSUME NEW q \in Queues PROVE \E s \in Seq(Waiters) : ListOf(q, s)'
  BY DEF Lists
<1>1. PICK s \in Seq(Waiters) : ListOf(q, s)
  BY DEF WaitInv, Lists
<1>2. ListOf(q, s)'
  BY <1>1, ListStays DEF links
<1> QED
  BY <1>2

(* Nothing happens to what the wakers hold.                                *)
LEMMA HeldStays ==
    ASSUME WaitInv, UNCHANGED <<wq_next, blocked_on, hold, wpc>>,
           \A t \in Waiters : blocked_on[t] = None => (Sleeps(t)' <=> Sleeps(t))
    PROVE  Held'
<1>1. PICK D \in [Wakers -> Seq(Waiters)] : HeldAs(D)
  BY DEF WaitInv, Held
<1>2. \A k \in Wakers : \A i \in DOMAIN D[k] : D[k][i] \in Waiters
  OBVIOUS
<1>3. \A k \in Wakers : Linked(D[k])'
  BY <1>1 DEF HeldAs, HoldsAs, Linked
<1>4. HeldAs(D)'
  BY <1>1, <1>2, <1>3 DEF HeldAs, HoldsAs, At
<1> QED
  BY <1>4 DEF Held

(* A step of t alone leaves the others in their places.                    *)
LEMMA SpotsStay ==
    ASSUME WaitInv, NEW t \in Waiters, InPlace(t)',
           \A u \in Waiters \ {t} : ~IrqsOff(u),
           \A u \in Waiters \ {t} : /\ pc'[u] = pc[u] /\ state'[u] = state[u] /\ wq'[u] = wq[u]
                                    /\ blocked_on'[u] = blocked_on[u]
    PROVE  Spots'
<1>1. \A u \in Waiters \ {t} : InPlace(u)'
  BY DEF WaitInv, Spots, InPlace, IrqsOff, Sleeps
<1>2. \A u \in Waiters \ {t} : ~IrqsOff(u)'
  BY DEF IrqsOff
<1> QED
  BY <1>1, <1>2 DEF Spots

(* Those who look after a queue can be counted, now                        *)
LEMMA Finite ==
    ASSUME NEW q
    PROVE  /\ IsFiniteSet(Calling(q)) /\ IsFiniteSet(Coming(q))
           /\ Cardinality(Calling(q)) \in Nat /\ Cardinality(Coming(q)) \in Nat
<1>1. Calling(q) \in SUBSET Wakers /\ Coming(q) \in SUBSET Waiters
  BY DEF Calling, Coming
<1>2. IsFiniteSet(Calling(q)) /\ IsFiniteSet(Coming(q))
  BY <1>1, FS_Subset, WaitAssumption
<1> QED
  BY <1>2, FS_CardinalityType

(* and after a step.                                                       *)
LEMMA FiniteNext ==
    ASSUME NEW q
    PROVE  /\ IsFiniteSet(Calling(q)') /\ IsFiniteSet(Coming(q)')
           /\ Cardinality(Calling(q)') \in Nat /\ Cardinality(Coming(q)') \in Nat
<1>1. Calling(q)' \in SUBSET Wakers /\ Coming(q)' \in SUBSET Waiters
  BY DEF Calling, Coming
<1>2. IsFiniteSet(Calling(q)') /\ IsFiniteSet(Coming(q)')
  BY <1>1, FS_Subset, WaitAssumption
<1> QED
  BY <1>2, FS_CardinalityType

(* With nobody less to look after q and no more items, q stays covered.    *)
LEMMA CoverStays ==
    ASSUME WaitInv, NEW q \in Queues, SleeperIn(q)' => SleeperIn(q), AllIn(q) => AllIn(q)',
           Calling(q) \subseteq Calling(q)', Coming(q) \subseteq Coming(q)',
           items'[q] \in Nat, items'[q] <= items[q]
    PROVE  CoveredIn(q)'
<1>1. /\ Cardinality(Calling(q)) <= Cardinality(Calling(q)')
      /\ Cardinality(Coming(q)) <= Cardinality(Coming(q)')
  BY FiniteNext, FS_Subset
<1>2. CoveredIn(q) /\ items[q] \in Nat
  BY Known DEF WaitInv, Covered
<1> QED
  BY <1>1, <1>2, Finite, FiniteNext DEF CoveredIn

(* Nor when one of those on their way takes an item with it.               *)
LEMMA CoverTaken ==
    ASSUME WaitInv, NEW q \in Queues, SleeperIn(q)' => SleeperIn(q), AllIn(q) => AllIn(q)',
           Calling(q) \subseteq Calling(q)', NEW t \in Coming(q), Coming(q) \ {t} \subseteq Coming(q)',
           items[q] > 0, items'[q] = items[q] - 1
    PROVE  CoveredIn(q)'
<1>1. Cardinality(Calling(q)) <= Cardinality(Calling(q)')
  BY FiniteNext, FS_Subset
<1>2. Cardinality(Coming(q) \ {t}) = Cardinality(Coming(q)) - 1
  BY Finite, FS_RemoveElement
<1>3. Cardinality(Coming(q) \ {t}) <= Cardinality(Coming(q)')
  BY FiniteNext, FS_Subset
<1>4. CoveredIn(q) /\ items[q] \in Nat
  BY Known DEF WaitInv, Covered
<1> QED
  BY <1>1, <1>2, <1>3, <1>4, Finite, FiniteNext DEF CoveredIn

(* What the place of a waiter says of it.                                  *)
LEMMA InOwnPlace ==
    ASSUME WaitInv, NEW t \in Waiters
    PROVE  /\ pc[t] \in {"out", "check", "prepare", "finish"} =>
                 state[t] = "RUNNING" /\ blocked_on[t] = None
           /\ pc[t] \in {"recheck", "cancel", "yield"} =>
                 state[t] = "BLOCKED" /\ blocked_on[t] = wq[t] /\ tail[wq[t]] = t
           /\ pc[t] = "settle" => blocked_on[t] = None
           /\ pc[t] = "asleep" /\ state[t] = "READY" => blocked_on[t] = None
           /\ pc[t] # "out" => wq[t] \in Queues /\ wq[t] # None
           /\ pc[t] = "yield" => items[wq[t]] = 0
<1>1. InPlace(t)
  BY DEF WaitInv, Spots
<1> QED
  BY <1>1, Known DEF InPlace, Sleeps

(* No timer is armed, none is being drained.                               *)
LEMMA NoTimers ==
    ASSUME WaitInv
    PROVE  /\ armed = {} /\ drain = Idle /\ drain.at = "idle" /\ drain.t = None /\ Timed = {}
           /\ \A t \in Waiters : wait_result[t] = "OK" /\ t # None
  BY Known DEF WaitInv, Untimed, Idle, OneCpuOnly

----------------------------------------------------------------------------
(* The waiter's steps that leave the lists as they are.                    *)

(* A wait begins: one more is on its way.                                  *)
LEMMA BeginWaitInv ==
    ASSUME WaitInv, NEW t \in Waiters, NEW q \in Queues, BeginWait(t, q)
    PROVE  WaitInv'
<1>0. /\ pc[t] = "out" /\ pc'[t] = "check" /\ state'[t] = state[t] /\ wq'[t] = q /\ items' = items
      /\ \A u \in Waiters \ {t} : pc'[u] = pc[u] /\ state'[u] = state[u] /\ wq'[u] = wq[u]
      /\ UNCHANGED <<links, head, tail, wq_next, blocked_on, wait_result, armed, drain, added, wpc, hold, setup>>
  BY Domains, Known, InOwnPlace DEF BeginWait, Goto, links, timers, Take, TimerCancel
<1>c. state[t] = "RUNNING" /\ blocked_on[t] = None
  BY <1>0, InOwnPlace
<1>a. \A u \in Waiters \ {t} : ~IrqsOff(u)
  BY Alone DEF BeginWait
<1>1. TypeOK'
  <2>1. waits' \in [Waiters -> Nat] /\ \A u \in Waiters : waits'[u] <= setup.waits[u]
    <3>1. waits \in [Waiters -> Nat] /\ \A u \in Waiters : waits[u] <= setup.waits[u] /\ setup.waits[u] \in Nat
      BY WaitAssumption DEF WaitInv, TypeOK, MaxWaits
    <3>2. waits[t] < setup.waits[t] /\ waits' = [waits EXCEPT ![t] = @ + 1]
      BY DEF BeginWait, MaxWaits
    <3> QED
      BY <3>1, <3>2
  <2>2. /\ pc' \in [Waiters -> {"out", "check", "prepare", "recheck", "cancel", "settle",
                              "yield", "asleep", "finish"}]
        /\ wq' \in [Waiters -> Queues \cup {None}] /\ state' = state
    BY DEF WaitInv, TypeOK, BeginWait, Goto
  <2> QED
    BY <1>0, <2>1, <2>2 DEF WaitInv, TypeOK, Timed, MaxItems, MaxWaits
<1>2. OneCpuOnly' /\ Untimed' /\ Calls'
  <2>1. \A p \in Queues : items'[p] <= added'[p]
    BY <1>0, Known DEF WaitInv, Calls
  <2> QED
    BY <1>0, <2>1 DEF WaitInv, OneCpuOnly, Timed, CpuOf, Untimed, Calls, At, Of
<1>3. Lists'
  BY <1>0, ListsStay
<1>4. Held'
  BY <1>0, <1>c, HeldStays DEF Sleeps
<1>5. InPlace(t)'
  BY <1>0, <1>c DEF InPlace, Sleeps
<1>6. Spots'
  BY <1>0, <1>a, <1>5, SpotsStay
<1>7. Covered'
  <2> SUFFICES ASSUME NEW p \in Queues PROVE CoveredIn(p)'
    BY DEF Covered
  <2>1. (SleeperIn(p)' => SleeperIn(p)) /\ (AllIn(p) => AllIn(p)')
    BY <1>0 DEF SleeperIn, Sleeps, AllIn
  <2>2. Calling(p) \subseteq Calling(p)' /\ Coming(p) \subseteq Coming(p)'
    BY <1>0 DEF Calling, Coming, OnItsWay
  <2> QED
    BY <2>1, <2>2, <1>0, Known, CoverStays
<1> QED
  BY <1>1, <1>2, <1>3, <1>4, <1>6, <1>7 DEF WaitInv

(* The first check takes an item or goes on to wait_prepare.               *)
LEMMA CheckInv ==
    ASSUME WaitInv, NEW t \in Waiters, Check(t)
    PROVE  WaitInv'
<1>0. /\ pc[t] = "check" /\ state'[t] = state[t] /\ wq'[t] = wq[t]
      /\ \/ items[wq[t]] > 0 /\ items'[wq[t]] = items[wq[t]] - 1 /\ pc'[t] = "out"
         \/ items[wq[t]] = 0 /\ items' = items /\ pc'[t] = "prepare"
      /\ \A p \in Queues : p # wq[t] => items'[p] = items[p]
      /\ \A u \in Waiters \ {t} : pc'[u] = pc[u] /\ state'[u] = state[u] /\ wq'[u] = wq[u]
      /\ UNCHANGED <<links, head, tail, wq_next, blocked_on, wait_result, armed, drain, added, wpc, hold, setup>>
  BY Domains, Known, InOwnPlace DEF Check, Goto, links, timers, Take, TimerCancel
<1>c. state[t] = "RUNNING" /\ blocked_on[t] = None /\ wq[t] \in Queues
  BY <1>0, InOwnPlace
<1>a. \A u \in Waiters \ {t} : ~IrqsOff(u)
  BY Alone DEF Check
<1>1. TypeOK'
  <2>1. items' \in [Queues -> 0 .. MaxItems] /\ MaxItems' = MaxItems
    <3>1. items' \in [Queues -> Nat] /\ \A p \in Queues : items'[p] <= items[p]
      BY <1>0, Known DEF WaitInv, TypeOK, Check, Take
    <3> QED
      BY <1>0, <3>1, Known, WaitAssumption DEF WaitInv, TypeOK, MaxItems
  <2>2. pc' \in [Waiters -> {"out", "check", "prepare", "recheck", "cancel", "settle",
                           "yield", "asleep", "finish"}]
    BY DEF WaitInv, TypeOK, Check, Goto
  <2> QED
    BY <1>0, <2>1, <2>2 DEF WaitInv, TypeOK, Timed, MaxWaits, Check, timers
<1>2. OneCpuOnly' /\ Untimed' /\ Calls'
  <2>1. \A p \in Queues : items'[p] <= added'[p]
    BY <1>0, Known DEF WaitInv, Calls
  <2> QED
    BY <1>0, <2>1 DEF WaitInv, OneCpuOnly, Timed, CpuOf, Untimed, Calls, At, Of
<1>3. Lists'
  BY <1>0, ListsStay
<1>4. Held'
  BY <1>0, <1>c, HeldStays DEF Sleeps
<1>5. InPlace(t)'
  BY <1>0, <1>c DEF InPlace, Sleeps
<1>6. Spots'
  BY <1>0, <1>a, <1>5, SpotsStay
<1>7. Covered'
  <2> SUFFICES ASSUME NEW p \in Queues PROVE CoveredIn(p)'
    BY DEF Covered
  <2>1. (SleeperIn(p)' => SleeperIn(p)) /\ (AllIn(p) => AllIn(p)')
    BY <1>0 DEF SleeperIn, Sleeps, AllIn
  <2>2. Calling(p) \subseteq Calling(p)' /\ Coming(p) \ {t} \subseteq Coming(p)'
    BY <1>0 DEF Calling, Coming, OnItsWay
  <2>3. CASE p = wq[t]
    <3>1. CASE items[p] > 0 /\ items'[p] = items[p] - 1
      <4>1. t \in Coming(p)
        BY <1>0, <2>3 DEF Coming, OnItsWay
      <4> QED
        BY <2>1, <2>2, <3>1, <4>1, CoverTaken
    <3>2. CASE items[p] = 0 /\ items'[p] = 0
      BY <3>2, FiniteNext DEF CoveredIn
    <3> QED
      BY <1>0, <2>3, <3>1, <3>2
  <2>4. CASE p # wq[t]
    <3>1. t \notin Coming(p) /\ items'[p] = items[p]
      BY <1>0, <2>4, <1>c DEF Coming
    <3> QED
      BY <2>1, <2>2, <3>1, Known, CoverStays
  <2> QED
    BY <2>3, <2>4
<1> QED
  BY <1>1, <1>2, <1>3, <1>4, <1>6, <1>7 DEF WaitInv

(* So does the second, between wait_prepare and the yield.                 *)
LEMMA RecheckInv ==
    ASSUME WaitInv, NEW t \in Waiters, Recheck(t)
    PROVE  WaitInv'
<1>0. /\ pc[t] = "recheck" /\ state'[t] = state[t] /\ wq'[t] = wq[t]
      /\ \/ items[wq[t]] > 0 /\ items'[wq[t]] = items[wq[t]] - 1 /\ pc'[t] = "cancel"
         \/ items[wq[t]] = 0 /\ items' = items /\ pc'[t] = "yield"
      /\ \A p \in Queues : p # wq[t] => items'[p] = items[p]
      /\ \A u \in Waiters \ {t} : pc'[u] = pc[u] /\ state'[u] = state[u] /\ wq'[u] = wq[u]
      /\ UNCHANGED <<links, head, tail, wq_next, blocked_on, wait_result, armed, drain, added, wpc, hold, setup>>
  BY Domains, Known, InOwnPlace DEF Recheck, Goto, links, timers, Take, TimerCancel
<1>c. state[t] = "BLOCKED" /\ blocked_on[t] = wq[t] /\ tail[wq[t]] = t /\ wq[t] \in Queues /\ wq[t] # None
  BY <1>0, InOwnPlace
<1>a. \A u \in Waiters \ {t} : ~IrqsOff(u)
  BY <1>0 DEF WaitInv, Spots, IrqsOff
<1>1. TypeOK'
  <2>1. items' \in [Queues -> 0 .. MaxItems] /\ MaxItems' = MaxItems
    <3>1. items' \in [Queues -> Nat] /\ \A p \in Queues : items'[p] <= items[p]
      BY <1>0, Known DEF WaitInv, TypeOK, Recheck, Take
    <3> QED
      BY <1>0, <3>1, Known, WaitAssumption DEF WaitInv, TypeOK, MaxItems
  <2>2. pc' \in [Waiters -> {"out", "check", "prepare", "recheck", "cancel", "settle",
                           "yield", "asleep", "finish"}]
    BY DEF WaitInv, TypeOK, Recheck, Goto
  <2> QED
    BY <1>0, <2>1, <2>2 DEF WaitInv, TypeOK, Timed, MaxWaits, Recheck, timers
<1>2. OneCpuOnly' /\ Untimed' /\ Calls'
  <2>1. \A p \in Queues : items'[p] <= added'[p]
    BY <1>0, Known DEF WaitInv, Calls
  <2> QED
    BY <1>0, <2>1 DEF WaitInv, OneCpuOnly, Timed, CpuOf, Untimed, Calls, At, Of
<1>3. Lists'
  BY <1>0, ListsStay
<1>4. Held'
  BY <1>0, <1>c, HeldStays DEF Sleeps
<1>5. InPlace(t)'
  BY <1>0, <1>c DEF InPlace, Sleeps
<1>6. Spots'
  BY <1>0, <1>a, <1>5, SpotsStay
<1>7. Covered'
  <2> SUFFICES ASSUME NEW p \in Queues PROVE CoveredIn(p)'
    BY DEF Covered
  <2>1. (SleeperIn(p)' => SleeperIn(p)) /\ (AllIn(p) => AllIn(p)')
    BY <1>0 DEF SleeperIn, Sleeps, AllIn
  <2>2. Calling(p) \subseteq Calling(p)' /\ Coming(p) \ {t} \subseteq Coming(p)'
    BY <1>0 DEF Calling, Coming, OnItsWay
  <2>3. CASE p = wq[t]
    <3>1. CASE items[p] > 0 /\ items'[p] = items[p] - 1
      <4>1. t \in Coming(p)
        BY <1>0, <2>3 DEF Coming, OnItsWay
      <4> QED
        BY <2>1, <2>2, <3>1, <4>1, CoverTaken
    <3>2. CASE items[p] = 0 /\ items'[p] = 0
      BY <3>2, FiniteNext DEF CoveredIn
    <3> QED
      BY <1>0, <2>3, <3>1, <3>2
  <2>4. CASE p # wq[t]
    <3>1. t \notin Coming(p) /\ items'[p] = items[p]
      BY <1>0, <2>4, <1>c DEF Coming
    <3> QED
      BY <2>1, <2>2, <3>1, Known, CoverStays
  <2> QED
    BY <2>3, <2>4
<1> QED
  BY <1>1, <1>2, <1>3, <1>4, <1>6, <1>7 DEF WaitInv

(* wait_cancel comes back.                                                 *)
LEMMA CancelSettleInv ==
    ASSUME WaitInv, NEW t \in Waiters, CancelSettle(t)
    PROVE  WaitInv'
<1>0. /\ pc[t] = "settle" /\ pc'[t] = "out" /\ state'[t] = "RUNNING" /\ wq'[t] = wq[t] /\ items' = items
      /\ \A u \in Waiters \ {t} : pc'[u] = pc[u] /\ state'[u] = state[u] /\ wq'[u] = wq[u]
      /\ UNCHANGED <<links, head, tail, wq_next, blocked_on, wait_result, armed, drain, added, wpc, hold, setup>>
  BY Domains, Known, InOwnPlace DEF CancelSettle, Goto, links, timers, Take, TimerCancel
<1>c. blocked_on[t] = None
  BY <1>0, InOwnPlace
<1>a. \A u \in Waiters \ {t} : ~IrqsOff(u)
  BY <1>0 DEF WaitInv, Spots, IrqsOff
<1>1. TypeOK'
  BY <1>0 DEF WaitInv, TypeOK, Timed, MaxItems, MaxWaits, CancelSettle, Goto, timers
<1>2. OneCpuOnly' /\ Untimed' /\ Calls'
  <2>1. \A p \in Queues : items'[p] <= added'[p]
    BY <1>0, Known DEF WaitInv, Calls
  <2> QED
    BY <1>0, <2>1 DEF WaitInv, OneCpuOnly, Timed, CpuOf, Untimed, Calls, At, Of
<1>3. Lists'
  BY <1>0, ListsStay
<1>4. Held'
  BY <1>0, <1>c, HeldStays DEF Sleeps
<1>5. InPlace(t)'
  BY <1>0, <1>c DEF InPlace, Sleeps
<1>6. Spots'
  BY <1>0, <1>a, <1>5, SpotsStay
<1>7. Covered'
  <2> SUFFICES ASSUME NEW p \in Queues PROVE CoveredIn(p)'
    BY DEF Covered
  <2>1. (SleeperIn(p)' => SleeperIn(p)) /\ (AllIn(p) => AllIn(p)')
    BY <1>0 DEF SleeperIn, Sleeps, AllIn
  <2>2. Calling(p) \subseteq Calling(p)' /\ Coming(p) \subseteq Coming(p)'
    BY <1>0 DEF Calling, Coming, OnItsWay
  <2> QED
    BY <2>1, <2>2, <1>0, Known, CoverStays
<1> QED
  BY <1>1, <1>2, <1>3, <1>4, <1>6, <1>7 DEF WaitInv

(* The yield puts to sleep a thread whose queue has no item.               *)
LEMMA YieldInv ==
    ASSUME WaitInv, NEW t \in Waiters, Yield(t)
    PROVE  WaitInv'
<1>0. /\ pc[t] = "yield" /\ pc'[t] = "asleep" /\ state'[t] = "BLOCKED" /\ wq'[t] = wq[t] /\ items' = items
      /\ \A u \in Waiters \ {t} : pc'[u] = pc[u] /\ state'[u] = state[u] /\ wq'[u] = wq[u]
      /\ UNCHANGED <<links, head, tail, wq_next, blocked_on, wait_result, armed, drain, added, wpc, hold, setup>>
  BY Domains, Known, InOwnPlace DEF Yield, Goto, links, timers, Take, TimerCancel
<1>c. state[t] = "BLOCKED" /\ blocked_on[t] = wq[t] /\ wq[t] \in Queues /\ wq[t] # None /\ items[wq[t]] = 0
  BY <1>0, InOwnPlace
<1>a. \A u \in Waiters \ {t} : ~IrqsOff(u)
  BY <1>0 DEF WaitInv, Spots, IrqsOff
<1>1. TypeOK'
  BY <1>0 DEF WaitInv, TypeOK, Timed, MaxItems, MaxWaits, Yield, Goto, timers
<1>2. OneCpuOnly' /\ Untimed' /\ Calls'
  <2>1. \A p \in Queues : items'[p] <= added'[p]
    BY <1>0, Known DEF WaitInv, Calls
  <2> QED
    BY <1>0, <2>1 DEF WaitInv, OneCpuOnly, Timed, CpuOf, Untimed, Calls, At, Of
<1>3. Lists'
  BY <1>0, ListsStay
<1>4. Held'
  BY <1>0, <1>c, HeldStays DEF Sleeps
<1>5. InPlace(t)'
  BY <1>0, <1>c DEF InPlace, Sleeps
<1>6. Spots'
  BY <1>0, <1>a, <1>5, SpotsStay
<1>7. Covered'
  <2> SUFFICES ASSUME NEW p \in Queues PROVE CoveredIn(p)'
    BY DEF Covered
  <2>1. CASE p = wq[t]
    <3>1. items'[p] = 0
      BY <1>0, <1>c, <2>1
    <3> QED
      BY <3>1, FiniteNext DEF CoveredIn
  <2>2. CASE p # wq[t]
    <3>1. (SleeperIn(p)' => SleeperIn(p)) /\ (AllIn(p) => AllIn(p)')
      BY <1>0, <1>c, <2>2 DEF SleeperIn, Sleeps, AllIn
    <3>2. Calling(p) \subseteq Calling(p)' /\ Coming(p) \subseteq Coming(p)'
      BY <1>0, <1>c DEF Calling, Coming, OnItsWay
    <3> QED
      BY <3>1, <3>2, <1>0, Known, CoverStays
  <2> QED
    BY <2>1, <2>2
<1> QED
  BY <1>1, <1>2, <1>3, <1>4, <1>6, <1>7 DEF WaitInv

(* A thread that was woken runs again.                                     *)
LEMMA DispatchInv ==
    ASSUME WaitInv, NEW t \in Waiters, Dispatch(t)
    PROVE  WaitInv'
<1>0. /\ pc[t] = "asleep" /\ state[t] = "READY" /\ pc'[t] = "finish" /\ state'[t] = "RUNNING" /\ wq'[t] = wq[t] /\ items' = items
      /\ \A u \in Waiters \ {t} : pc'[u] = pc[u] /\ state'[u] = state[u] /\ wq'[u] = wq[u]
      /\ UNCHANGED <<links, head, tail, wq_next, blocked_on, wait_result, armed, drain, added, wpc, hold, setup>>
  BY Domains, Known, InOwnPlace DEF Dispatch, Goto, links, timers, Take, TimerCancel
<1>c. blocked_on[t] = None /\ wq[t] \in Queues
  BY <1>0, InOwnPlace
<1>a. \A u \in Waiters \ {t} : ~IrqsOff(u)
  BY Alone DEF Dispatch
<1>1. TypeOK'
  BY <1>0 DEF WaitInv, TypeOK, Timed, MaxItems, MaxWaits, Dispatch, Goto, timers
<1>2. OneCpuOnly' /\ Untimed' /\ Calls'
  <2>1. \A p \in Queues : items'[p] <= added'[p]
    BY <1>0, Known DEF WaitInv, Calls
  <2> QED
    BY <1>0, <2>1 DEF WaitInv, OneCpuOnly, Timed, CpuOf, Untimed, Calls, At, Of
<1>3. Lists'
  BY <1>0, ListsStay
<1>4. Held'
  BY <1>0, <1>c, HeldStays DEF Sleeps
<1>5. InPlace(t)'
  BY <1>0, <1>c DEF InPlace, Sleeps
<1>6. Spots'
  BY <1>0, <1>a, <1>5, SpotsStay
<1>7. Covered'
  <2> SUFFICES ASSUME NEW p \in Queues PROVE CoveredIn(p)'
    BY DEF Covered
  <2>1. (SleeperIn(p)' => SleeperIn(p)) /\ (AllIn(p) => AllIn(p)')
    BY <1>0 DEF SleeperIn, Sleeps, AllIn
  <2>2. Calling(p) \subseteq Calling(p)' /\ Coming(p) \subseteq Coming(p)'
    BY <1>0 DEF Calling, Coming, OnItsWay
  <2> QED
    BY <2>1, <2>2, <1>0, Known, CoverStays
<1> QED
  BY <1>1, <1>2, <1>3, <1>4, <1>6, <1>7 DEF WaitInv

(* wait_finish goes back to the check.                                     *)
LEMMA FinishInv ==
    ASSUME WaitInv, NEW t \in Waiters, Finish(t)
    PROVE  WaitInv'
<1>0. /\ pc[t] = "finish" /\ pc'[t] = "check" /\ state'[t] = state[t] /\ wq'[t] = wq[t] /\ items' = items
      /\ \A u \in Waiters \ {t} : pc'[u] = pc[u] /\ state'[u] = state[u] /\ wq'[u] = wq[u]
      /\ UNCHANGED <<links, head, tail, wq_next, blocked_on, wait_result, armed, drain, added, wpc, hold, setup>>
  BY Domains, Known, InOwnPlace, NoTimers DEF Finish, Goto, links, timers, Take, TimerCancel
<1>c. state[t] = "RUNNING" /\ blocked_on[t] = None /\ wq[t] \in Queues
  BY <1>0, InOwnPlace
<1>a. \A u \in Waiters \ {t} : ~IrqsOff(u)
  BY Alone DEF Finish
<1>1. TypeOK'
  BY <1>0 DEF WaitInv, TypeOK, Timed, MaxItems, MaxWaits, Finish, Goto, timers
<1>2. OneCpuOnly' /\ Untimed' /\ Calls'
  <2>1. \A p \in Queues : items'[p] <= added'[p]
    BY <1>0, Known DEF WaitInv, Calls
  <2> QED
    BY <1>0, <2>1 DEF WaitInv, OneCpuOnly, Timed, CpuOf, Untimed, Calls, At, Of
<1>3. Lists'
  BY <1>0, ListsStay
<1>4. Held'
  BY <1>0, <1>c, HeldStays DEF Sleeps
<1>5. InPlace(t)'
  BY <1>0, <1>c DEF InPlace, Sleeps
<1>6. Spots'
  BY <1>0, <1>a, <1>5, SpotsStay
<1>7. Covered'
  <2> SUFFICES ASSUME NEW p \in Queues PROVE CoveredIn(p)'
    BY DEF Covered
  <2>1. (SleeperIn(p)' => SleeperIn(p)) /\ (AllIn(p) => AllIn(p)')
    BY <1>0 DEF SleeperIn, Sleeps, AllIn
  <2>2. Calling(p) \subseteq Calling(p)' /\ Coming(p) \subseteq Coming(p)'
    BY <1>0 DEF Calling, Coming, OnItsWay
  <2> QED
    BY <2>1, <2>2, <1>0, Known, CoverStays
<1> QED
  BY <1>1, <1>2, <1>3, <1>4, <1>6, <1>7 DEF WaitInv

----------------------------------------------------------------------------
(* The steps that change the lists.                                        *)

(* What the wakers hold stays if no step touches who sleeps detached.      *)
LEMMA HeldUntouched ==
    ASSUME WaitInv, UNCHANGED <<hold, wpc>>,
           \A t \in Waiters : Sleeps(t) /\ blocked_on[t] = None => wq_next'[t] = wq_next[t],
           \A t \in Waiters : (Sleeps(t) /\ blocked_on[t] = None)' <=> Sleeps(t) /\ blocked_on[t] = None
    PROVE  Held'
<1>1. PICK D \in [Wakers -> Seq(Waiters)] : HeldAs(D)
  BY DEF WaitInv, Held
<1>2. \A k \in Wakers : \A i \in DOMAIN D[k] :
         D[k][i] \in Waiters /\ Sleeps(D[k][i]) /\ blocked_on[D[k][i]] = None
  BY <1>1 DEF HeldAs, HoldsAs
<1>3. \A k \in Wakers : Linked(D[k])'
  BY <1>1, <1>2 DEF HeldAs, HoldsAs, Linked
<1>4. HeldAs(D)'
  BY <1>1, <1>2, <1>3 DEF HeldAs, HoldsAs, At
<1> QED
  BY <1>4 DEF Held

(* wait_prepare appends the thread to its list.                            *)
LEMMA PrepareInv ==
    ASSUME WaitInv, NEW t \in Waiters, Prepare(t)
    PROVE  WaitInv'
<1>q. PICK q \in Queues : q = wq[t]
  BY InOwnPlace DEF Prepare, Goto
<1>u. PICK u \in Threads : u = tail[q]
  BY Known
<1>c. /\ state[t] = "RUNNING" /\ blocked_on[t] = None /\ q = wq[t] /\ q # None
      /\ pc[t] = "prepare" /\ pc[t] # "asleep"
  BY <1>q, InOwnPlace, Known DEF Prepare, Goto
<1>1. PICK s \in Seq(Waiters) : ListOf(q, s)
  BY <1>c DEF WaitInv, Lists
<1>2. /\ Len(s) \in Nat /\ DOMAIN s = 1 .. Len(s) /\ (s = <<>> <=> Len(s) = 0)
      /\ \A i \in DOMAIN s : s[i] \in Waiters /\ s[i] # t /\ blocked_on[s[i]] = q
      /\ u = LastOf(s) /\ head[q] = FirstOf(s)
  BY <1>1, <1>c, <1>u DEF ListOf
<1>3. /\ u = None <=> s = <<>>
      /\ u # None => u \in Waiters /\ u # t /\ blocked_on[u] = q /\ u = s[Len(s)]
  BY <1>2, Known DEF LastOf
<1>0. /\ pc'[t] = "recheck" /\ state'[t] = "BLOCKED" /\ blocked_on'[t] = q
      /\ wq_next'[t] = None /\ tail'[q] = t
      /\ head'[q] = IF u = None THEN t ELSE head[q]
      /\ u # None => wq_next'[u] = t
      /\ \A x \in Waiters \ {t} : /\ pc'[x] = pc[x] /\ state'[x] = state[x]
                                  /\ blocked_on'[x] = blocked_on[x]
                                  /\ x # u => wq_next'[x] = wq_next[x]
      /\ \A p \in Queues \ {q} : head'[p] = head[p] /\ tail'[p] = tail[p]
      /\ \A x \in Waiters : wait_result'[x] = "OK"
      /\ UNCHANGED <<wq, armed, drain, items, added, wpc, hold, setup, waits>>
  <2>1. t \notin Timed
    BY NoTimers
  <2> QED
    BY <1>c, <1>u, <1>3, <2>1, Domains, NoTimers DEF Prepare, Goto, EnqueueTail, timers
<1>a. \A x \in Waiters : ~IrqsOff(x)
  BY Alone DEF Prepare
<1>4. TypeOK'
  <2>1. /\ head' \in [Queues -> Threads] /\ tail' \in [Queues -> Threads]
        /\ blocked_on' \in [Waiters -> Queues \cup {None}]
    BY <1>c DEF WaitInv, TypeOK, Prepare, EnqueueTail, Threads
  <2>2. wq_next' \in [Waiters -> Threads]
    BY <1>c DEF WaitInv, TypeOK, Prepare, EnqueueTail, Threads
  <2>3. /\ state' \in [Waiters -> {"RUNNING", "READY", "BLOCKED"}]
        /\ wait_result' \in [Waiters -> {"OK", "TIMEOUT"}]
        /\ pc' \in [Waiters -> {"out", "check", "prepare", "recheck", "cancel", "settle",
                                "yield", "asleep", "finish"}]
    BY DEF WaitInv, TypeOK, Prepare, Goto
  <2> QED
    BY <1>0, <2>1, <2>2, <2>3 DEF WaitInv, TypeOK, Timed, MaxItems, MaxWaits
<1>5. OneCpuOnly' /\ Untimed' /\ Calls'
  BY <1>0, NoTimers DEF WaitInv, OneCpuOnly, Timed, CpuOf, Untimed, Calls, At, Of
<1>6. ListOf(q, Append(s, t))'
  <2> DEFINE r == Append(s, t)
  <2>1. /\ r \in Seq(Waiters) /\ Len(r) = Len(s) + 1 /\ r # <<>> /\ DOMAIN r = 1 .. Len(s) + 1
        /\ \A i \in DOMAIN s : r[i] = s[i]
        /\ r[Len(s) + 1] = t
        /\ \A i \in DOMAIN r : i \in DOMAIN s \/ i = Len(s) + 1
    BY AppendFacts, <1>2
  <2> HIDE DEF r
  <2>2. \A i, j \in DOMAIN r : r[i] = r[j] => i = j
    BY <1>1, <1>2, <2>1 DEF ListOf, Linked
  <2>3. ASSUME NEW i \in DOMAIN r
        PROVE  wq_next'[r[i]] = IF i = Len(r) THEN None ELSE r[i + 1]
    <3>1. CASE i = Len(s) + 1
      BY <1>0, <2>1, <3>1
    <3>2. CASE i \in DOMAIN s /\ i = Len(s)
      <4>2. i \in 1 .. Len(s)
        BY <1>2, <3>2
      <4>3. Len(s) \in Nat
        BY <1>2
      <4>4. Len(s) # 0 /\ i # Len(s) + 1
        BY <3>2, <4>2, <4>3
      <4>0. s # <<>>
        BY <1>2, <4>4
      <4>1. r[i] = u /\ u # None /\ i + 1 = Len(s) + 1 /\ i # Len(r)
        BY <1>2, <1>3, <2>1, <3>2, <4>0, <4>4
      <4> QED
        BY <1>0, <2>1, <4>1
    <3>3. CASE i \in DOMAIN s /\ i # Len(s)
      <4>1. i + 1 \in DOMAIN s /\ i # Len(r) /\ Len(s) \in DOMAIN s /\ r[i] = s[i] /\ r[i + 1] = s[i + 1]
        BY <1>2, <2>1, <3>3
      <4>2. s[i] # s[Len(s)] /\ wq_next[s[i]] = s[i + 1]
        BY <1>1, <3>3, <4>1 DEF ListOf, Linked
      <4>3. s[i] \in Waiters \ {t} /\ s[i] # u
        BY <1>2, <1>3, <3>3, <4>2
      <4> QED
        BY <1>0, <4>1, <4>2, <4>3
    <3> QED
      BY <2>1, <3>1, <3>2, <3>3
  <2>4. head'[q] = FirstOf(r) /\ tail'[q] = LastOf(r)
    <3>1. CASE s = <<>>
      BY <1>0, <1>2, <1>3, <2>1, <3>1 DEF FirstOf, LastOf
    <3>2. CASE s # <<>>
      <4>1. 1 \in DOMAIN s
        BY <1>2, <3>2
      <4> QED
        BY <1>0, <1>2, <1>3, <2>1, <3>2, <4>1 DEF FirstOf, LastOf
    <3> QED
      BY <3>1, <3>2
  <2>5. \A x \in Waiters : blocked_on'[x] = q <=> \E i \in DOMAIN r : r[i] = x
    <3>1. \A x \in Waiters : blocked_on[x] = q <=> \E i \in DOMAIN s : s[i] = x
      BY <1>1 DEF ListOf
    <3>2. DOMAIN s \subseteq DOMAIN r /\ Len(s) + 1 \in DOMAIN r
      BY <1>2, <2>1
    <3> QED
      BY <1>0, <2>1, <3>1, <3>2
  <2>6. Linked(r)'
    BY <2>2, <2>3 DEF Linked
  <2>7. ListOf(q, r)'
    BY <2>4, <2>5, <2>6 DEF ListOf, FirstOf, LastOf
  <2> QED
    BY <2>7 DEF r
<1>7. Lists'
  <2> SUFFICES ASSUME NEW p \in Queues PROVE \E r \in Seq(Waiters) : ListOf(p, r)'
    BY DEF Lists
  <2>1. CASE p = q
    <3>1. Append(s, t) \in Seq(Waiters)
      BY AppendFacts
    <3> QED
      BY <1>6, <2>1, <3>1
  <2>2. CASE p # q
    <3>1. PICK r \in Seq(Waiters) : ListOf(p, r)
      BY DEF WaitInv, Lists
    <3>2. /\ \A x \in Waiters : blocked_on[x] = p => wq_next'[x] = wq_next[x]
          /\ \A x \in Waiters : blocked_on'[x] = p <=> blocked_on[x] = p
      BY <1>0, <1>c, <1>3, <2>2, Known
    <3>3. ListOf(p, r)'
      BY <1>0, <2>2, <3>1, <3>2, ListStays
    <3> QED
      BY <3>3
  <2> QED
    BY <2>1, <2>2
<1>8. Held'
  <2>1. \A x \in Waiters : Sleeps(x) /\ blocked_on[x] = None => wq_next'[x] = wq_next[x]
    BY <1>0, <1>c, <1>3, NoTimers DEF Sleeps
  <2>2. \A x \in Waiters : (Sleeps(x) /\ blocked_on[x] = None)' <=> Sleeps(x) /\ blocked_on[x] = None
    BY <1>0, <1>c DEF Sleeps
  <2> QED
    BY <1>0, <2>1, <2>2, HeldUntouched
<1>9. Spots'
  <2>1. InPlace(t)'
    BY <1>0, <1>c DEF InPlace, Sleeps
  <2> QED
    BY <1>0, <1>a, <2>1, SpotsStay
<1>10. Covered'
  <2> SUFFICES ASSUME NEW p \in Queues PROVE CoveredIn(p)'
    BY DEF Covered
  <2>1. (SleeperIn(p)' => SleeperIn(p)) /\ (AllIn(p) => AllIn(p)')
    BY <1>0 DEF SleeperIn, Sleeps, AllIn
  <2>2. Calling(p) \subseteq Calling(p)' /\ Coming(p) \subseteq Coming(p)'
    BY <1>0 DEF Calling, Coming, OnItsWay
  <2> QED
    BY <2>1, <2>2, <1>0, Known, CoverStays
<1> QED
  BY <1>4, <1>5, <1>7, <1>8, <1>9, <1>10 DEF WaitInv

(* unlink_locked of the last thread of a list: the one before it becomes   *)
(* the last, or the list is empty.                                         *)
LEMMA UnlinkLast ==
    ASSUME WaitInv, NEW q \in Queues, NEW s \in Seq(Waiters), ListOf(q, s), s # <<>>,
           NEW t \in Waiters, t = s[Len(s)], Unlink(q, t),
           NEW prev, prev = IF Len(s) = 1 THEN None ELSE s[Len(s) - 1]
    PROVE  /\ wq_next'[t] = None /\ blocked_on'[t] = None /\ tail'[q] = prev
           /\ head'[q] = IF Len(s) = 1 THEN None ELSE head[q]
           /\ prev # None => wq_next'[prev] = None
           /\ \A x \in Waiters \ {t} : /\ blocked_on'[x] = blocked_on[x]
                                       /\ x # prev => wq_next'[x] = wq_next[x]
           /\ \A p \in Queues \ {q} : head'[p] = head[p] /\ tail'[p] = tail[p]
           /\ wq_next' \in [Waiters -> Threads] /\ blocked_on' \in [Waiters -> Queues \cup {None}]
           /\ head' \in [Queues -> Threads] /\ tail' \in [Queues -> Threads]
<1> DEFINE First(n) == Nth(q)[n] = t /\ \A m \in DOMAIN Nth(q) : m < n => Nth(q)[m] # t
           c == CHOOSE n \in DOMAIN Nth(q) : First(n)
<1>N. PICK N \in Nat : N = Cardinality(Waiters)
  BY FS_CardinalityType, WaitAssumption
<1>L. PICK L \in Nat : L = Len(s)
  OBVIOUS
<1>1. /\ L # 0 /\ DOMAIN s = 1 .. L /\ L \in DOMAIN s /\ L <= N /\ t = s[L]
      /\ \A i \in DOMAIN s : s[i] \in Waiters /\ s[i] # None
  BY <1>N, <1>L, ChainOfList, WaitAssumption
<1>2. DOMAIN Nth(q) = 0 .. N /\ \A n \in 0 .. N : Nth(q)[n] = IF n < L THEN s[n + 1] ELSE None
  BY <1>N, <1>L, ChainOfList
<1>3. t \in Chain(q)
  BY <1>1, ChainOfList
<1>4. \A n \in 0 .. N : Nth(q)[n] = t <=> n = L - 1
  <2> SUFFICES ASSUME NEW n \in 0 .. N PROVE Nth(q)[n] = t <=> n = L - 1
    OBVIOUS
  <2>1. CASE n < L
    <3>1. n + 1 \in DOMAIN s /\ Nth(q)[n] = s[n + 1]
      BY <1>1, <1>2, <2>1
    <3>2. s[n + 1] = s[L] <=> n + 1 = L
      BY <1>1, <3>1 DEF ListOf, Linked
    <3> QED
      BY <1>1, <3>1, <3>2
  <2>2. CASE ~(n < L)
    <3>1. Nth(q)[n] = None /\ t # None /\ n # L - 1
      BY <1>1, <1>2, <2>2
    <3> QED
      BY <3>1
  <2> QED
    BY <2>1, <2>2
<1>5. L - 1 \in DOMAIN Nth(q) /\ First(L - 1)
  BY <1>1, <1>2, <1>4
<1>6. c \in DOMAIN Nth(q) /\ First(c)
  <2> HIDE DEF First
  <2> QED
    BY <1>5
<1>7. c = L - 1
  BY <1>2, <1>4, <1>6
<1> HIDE DEF c
<1>8. prev = IF c = 0 THEN None ELSE Nth(q)[c-1]
  <2>1. CASE L = 1
    BY <1>L, <1>7, <2>1
  <2>2. CASE L # 1
    <3>1. c # 0 /\ c - 1 \in 0 .. N /\ c - 1 < L /\ (c - 1) + 1 = L - 1
      BY <1>1, <1>7, <2>2
    <3> QED
      BY <1>L, <1>2, <2>2, <3>1
  <2> QED
    BY <2>1, <2>2
<1>9. /\ wq_next' = IF c = 0 THEN [wq_next EXCEPT ![t] = None]
                    ELSE [wq_next EXCEPT ![prev] = wq_next[t], ![t] = None]
      /\ head' = IF c = 0 THEN [head EXCEPT ![q] = wq_next[t]] ELSE head
      /\ tail' = IF tail[q] = t THEN [tail EXCEPT ![q] = prev] ELSE tail
      /\ blocked_on' = [blocked_on EXCEPT ![t] = None]
  <2> HIDE DEF First
  <2> QED
    BY <1>3, <1>8 DEF Unlink, c, First
<1>10. wq_next[t] = None /\ tail[q] = t /\ (c = 0 <=> L = 1)
  BY <1>1, <1>7, <1>L DEF ListOf, Linked, LastOf
<1>11. c # 0 => prev \in Waiters /\ prev # t /\ prev # None
  <2> SUFFICES ASSUME c # 0 PROVE prev \in Waiters /\ prev # t /\ prev # None
    OBVIOUS
  <2>1. L - 1 \in DOMAIN s /\ prev = s[L - 1]
    BY <1>L, <1>1, <1>10
  <2>2. s[L - 1] # s[L]
    BY <1>1, <2>1 DEF ListOf, Linked
  <2> QED
    BY <1>1, <2>1, <2>2
<1>12. c = 0 => prev = None
  BY <1>8
<1>13. /\ wq_next' \in [Waiters -> Threads] /\ blocked_on' \in [Waiters -> Queues \cup {None}]
       /\ head' \in [Queues -> Threads] /\ tail' \in [Queues -> Threads]
  BY <1>9, <1>10, <1>11, <1>12 DEF WaitInv, TypeOK, Threads
<1>14. /\ wq_next'[t] = None /\ blocked_on'[t] = None /\ tail'[q] = prev
       /\ head'[q] = IF c = 0 THEN None ELSE head[q]
       /\ prev # None => wq_next'[prev] = None
       /\ \A x \in Waiters \ {t} : blocked_on'[x] = blocked_on[x] /\ (x # prev => wq_next'[x] = wq_next[x])
       /\ \A p \in Queues \ {q} : head'[p] = head[p] /\ tail'[p] = tail[p]
  BY <1>9, <1>10, <1>11, <1>12, Domains
<1> QED
  BY <1>L, <1>10, <1>13, <1>14

(* wait_cancel takes it off again: it is still the last.                   *)
LEMMA CancelUnlinkInv ==
    ASSUME WaitInv, NEW t \in Waiters, CancelUnlink(t)
    PROVE  WaitInv'
<1>q. PICK q \in Queues : q = wq[t]
  BY InOwnPlace DEF CancelUnlink, Goto
<1>c. /\ state[t] = "BLOCKED" /\ blocked_on[t] = q /\ tail[q] = t /\ q = wq[t] /\ q # None
      /\ pc[t] = "cancel" /\ pc[t] # "asleep" /\ t # None
  BY <1>q, InOwnPlace, Known DEF CancelUnlink, Goto
<1>1. PICK s \in Seq(Waiters) : ListOf(q, s)
  BY DEF WaitInv, Lists
<1>2. /\ Len(s) \in Nat /\ DOMAIN s = 1 .. Len(s) /\ (s = <<>> <=> Len(s) = 0)
      /\ \A i \in DOMAIN s : s[i] \in Waiters /\ blocked_on[s[i]] = q
      /\ s # <<>> /\ t = s[Len(s)] /\ head[q] = s[1] /\ Len(s) # 0
  BY <1>1, <1>c DEF ListOf, LastOf, FirstOf
<1>u. PICK prev : prev = IF Len(s) = 1 THEN None ELSE s[Len(s) - 1]
  OBVIOUS
<1>3. Unlink(q, t)
  BY <1>c DEF CancelUnlink
<1>4. /\ wq_next'[t] = None /\ blocked_on'[t] = None /\ tail'[q] = prev
      /\ head'[q] = IF Len(s) = 1 THEN None ELSE head[q]
      /\ prev # None => wq_next'[prev] = None
      /\ \A x \in Waiters \ {t} : /\ blocked_on'[x] = blocked_on[x]
                                  /\ x # prev => wq_next'[x] = wq_next[x]
      /\ \A p \in Queues \ {q} : head'[p] = head[p] /\ tail'[p] = tail[p]
      /\ wq_next' \in [Waiters -> Threads] /\ blocked_on' \in [Waiters -> Queues \cup {None}]
      /\ head' \in [Queues -> Threads] /\ tail' \in [Queues -> Threads]
  <2>1. s # <<>> /\ t = s[Len(s)]
    BY <1>2
  <2> QED
    BY <1>1, <1>3, <1>u, <2>1, UnlinkLast
<1>0. /\ pc'[t] = "settle"
      /\ \A x \in Waiters \ {t} : pc'[x] = pc[x]
      /\ UNCHANGED <<state, wait_result, wq, armed, drain, items, added, wpc, hold, setup, waits>>
  BY Domains, NoTimers DEF CancelUnlink, Goto, TimerCancel
<1>p. prev # None => prev \in Waiters /\ prev # t /\ blocked_on[prev] = q
  <2> SUFFICES ASSUME Len(s) # 1 PROVE prev \in Waiters /\ prev # t /\ blocked_on[prev] = q
    BY <1>u
  <2>1. Len(s) \in DOMAIN s /\ Len(s) - 1 \in DOMAIN s /\ prev = s[Len(s) - 1]
    BY <1>2, <1>u
  <2>2. s[Len(s) - 1] # s[Len(s)]
    BY <1>1, <1>2, <2>1 DEF ListOf, Linked
  <2> QED
    BY <1>2, <2>1, <2>2
<1>a. \A x \in Waiters \ {t} : ~IrqsOff(x)
  BY <1>c DEF WaitInv, Spots, IrqsOff
<1>5. TypeOK'
  <2>1. pc' \in [Waiters -> {"out", "check", "prepare", "recheck", "cancel", "settle",
                             "yield", "asleep", "finish"}]
    BY DEF WaitInv, TypeOK, CancelUnlink, Goto
  <2> QED
    BY <1>0, <1>4, <2>1 DEF WaitInv, TypeOK, Timed, MaxItems, MaxWaits
<1>6. OneCpuOnly' /\ Untimed' /\ Calls'
  BY <1>0 DEF WaitInv, OneCpuOnly, Timed, CpuOf, Untimed, Calls, At, Of
<1> DEFINE r == [i \in 1 .. Len(s) - 1 |-> s[i]]
<1>7. ListOf(q, r)' /\ r \in Seq(Waiters)
  <2>1. /\ r \in Seq(Waiters) /\ Len(r) = Len(s) - 1 /\ DOMAIN r = 1 .. Len(s) - 1
        /\ \A i \in DOMAIN r : i \in DOMAIN s /\ i # Len(s) /\ r[i] = s[i]
        /\ \A i \in DOMAIN s : i \in DOMAIN r \/ i = Len(s)
    BY <1>2
  <2> HIDE DEF r
  <2>2. \A i, j \in DOMAIN r : r[i] = r[j] => i = j
    BY <1>1, <2>1 DEF ListOf, Linked
  <2>3. ASSUME NEW i \in DOMAIN r
        PROVE  wq_next'[r[i]] = IF i = Len(r) THEN None ELSE r[i + 1]
    <3>0. i \in DOMAIN s /\ i # Len(s) /\ r[i] = s[i] /\ Len(s) \in DOMAIN s
      BY <1>2, <2>1
    <3>1. CASE i = Len(r)
      <4>1. prev = s[i] /\ prev # None
        <5>1. i = Len(s) - 1 /\ i \in 1 .. Len(s) - 1
          BY <2>1, <3>1
        <5>2. Len(s) # 1
          BY <1>2, <5>1
        <5>3. s[i] \in Waiters
          BY <1>2, <3>0
        <5> QED
          BY <1>u, <5>1, <5>2, <5>3, NoTimers
      <4> QED
        BY <1>4, <3>0, <3>1, <4>1
    <3>2. CASE i # Len(r)
      <4>1. i + 1 \in DOMAIN r /\ r[i + 1] = s[i + 1]
        BY <1>2, <2>1, <3>2
      <4>2. wq_next[s[i]] = s[i + 1] /\ s[i] # t
        BY <1>1, <1>2, <3>0 DEF ListOf, Linked
      <4>3. s[i] # prev
        <5>1. CASE Len(s) = 1
          BY <1>2, <1>u, <3>0, <5>1, Known
        <5>2. CASE Len(s) # 1
          <6>1. Len(s) - 1 \in DOMAIN s /\ i # Len(s) - 1
            BY <1>2, <2>1, <3>2, <5>2
          <6> QED
            BY <1>1, <1>u, <3>0, <5>2, <6>1 DEF ListOf, Linked
        <5> QED
          BY <5>1, <5>2
      <4> QED
        BY <1>2, <1>4, <3>0, <3>2, <4>1, <4>2, <4>3
    <3> QED
      BY <3>1, <3>2
  <2>4. head'[q] = FirstOf(r) /\ tail'[q] = LastOf(r)
    <3>1. CASE Len(s) = 1
      <4>1. r = <<>>
        BY <2>1, <3>1
      <4> QED
        BY <1>4, <1>u, <3>1, <4>1 DEF FirstOf, LastOf
    <3>2. CASE Len(s) # 1
      <4>1. r # <<>> /\ 1 \in DOMAIN r /\ Len(r) \in DOMAIN r
        BY <1>2, <2>1, <3>2
      <4>2. r[1] = s[1] /\ r[Len(r)] = s[Len(s) - 1]
        BY <2>1, <4>1
      <4> QED
        BY <1>2, <1>4, <1>u, <3>2, <4>1, <4>2 DEF FirstOf, LastOf
    <3> QED
      BY <3>1, <3>2
  <2>5. \A x \in Waiters : blocked_on'[x] = q <=> \E i \in DOMAIN r : r[i] = x
    <3>1. \A x \in Waiters : blocked_on[x] = q <=> \E i \in DOMAIN s : s[i] = x
      BY <1>1 DEF ListOf
    <3>2. \A i \in DOMAIN r : r[i] # t
      BY <1>1, <1>2, <2>1 DEF ListOf, Linked
    <3> QED
      BY <1>2, <1>4, <1>c, <2>1, <3>1, <3>2
  <2>6. Linked(r)'
    BY <2>2, <2>3 DEF Linked
  <2>7. ListOf(q, r)'
    BY <2>4, <2>5, <2>6 DEF ListOf, FirstOf, LastOf
  <2> QED
    BY <2>1, <2>7
<1>8. Lists'
  <2> HIDE DEF r
  <2> SUFFICES ASSUME NEW p \in Queues, p # q PROVE \E z \in Seq(Waiters) : ListOf(p, z)'
    BY <1>7 DEF Lists
  <2>1. PICK z \in Seq(Waiters) : ListOf(p, z)
    BY DEF WaitInv, Lists
  <2>2. /\ \A x \in Waiters : blocked_on[x] = p => wq_next'[x] = wq_next[x]
        /\ \A x \in Waiters : blocked_on'[x] = p <=> blocked_on[x] = p
    BY <1>4, <1>c, <1>p, NoTimers, Known
  <2>3. ListOf(p, z)'
    BY <1>4, <2>1, <2>2, ListStays
  <2> QED
    BY <2>3
<1>9. Held'
  <2>1. \A x \in Waiters : Sleeps(x) /\ blocked_on[x] = None => wq_next'[x] = wq_next[x]
    BY <1>4, <1>c, <1>p, NoTimers DEF Sleeps
  <2>2. \A x \in Waiters : (Sleeps(x) /\ blocked_on[x] = None)' <=> Sleeps(x) /\ blocked_on[x] = None
    BY <1>0, <1>4, <1>c DEF Sleeps
  <2> QED
    BY <1>0, <2>1, <2>2, HeldUntouched
<1>10. Spots'
  <2>1. InPlace(t)'
    BY <1>0, <1>4, <1>c DEF InPlace, Sleeps
  <2> QED
    BY <1>0, <1>4, <1>a, <2>1, SpotsStay
<1>11. Covered'
  <2> SUFFICES ASSUME NEW p \in Queues PROVE CoveredIn(p)'
    BY DEF Covered
  <2>1. (SleeperIn(p)' => SleeperIn(p)) /\ (AllIn(p) => AllIn(p)')
    BY <1>0, <1>4 DEF SleeperIn, Sleeps, AllIn
  <2>2. Calling(p) \subseteq Calling(p)' /\ Coming(p) \subseteq Coming(p)'
    BY <1>0, <1>4, <1>c DEF Calling, Coming, OnItsWay
  <2> QED
    BY <2>1, <2>2, <1>0, Known, CoverStays
<1> QED
  BY <1>5, <1>6, <1>8, <1>9, <1>10, <1>11 DEF WaitInv

----------------------------------------------------------------------------
(* The waker's steps.                                                      *)

(* A waker's step gives it the threads r to hold and takes none from the   *)
(* others.                                                                 *)
Regroups(D, k, r) ==
    /\ HoldsAs(k, r)'
    /\ \A j \in Wakers \ {k} : hold'[j] = hold[j] /\ wpc'[j] = wpc[j]
    /\ \A j \in Wakers \ {k} : \A i \in DOMAIN D[j] :
          /\ wq_next'[D[j][i]] = wq_next[D[j][i]] /\ Sleeps(D[j][i])'
          /\ blocked_on'[D[j][i]] = None /\ \A m \in DOMAIN r : D[j][i] # r[m]
    /\ \A t \in Waiters : (Sleeps(t) /\ blocked_on[t] = None)' =>
          \/ \E m \in DOMAIN r : r[m] = t
          \/ \E j \in Wakers \ {k} : \E i \in DOMAIN D[j] : D[j][i] = t

(* Then everybody detached still has its one waker.                        *)
LEMMA HeldChanges ==
    ASSUME NEW D \in [Wakers -> Seq(Waiters)], HeldAs(D),
           NEW k \in Wakers, NEW r \in Seq(Waiters), Regroups(D, k, r)
    PROVE  Held'
<1> USE DEF Regroups
<1> DEFINE E == [D EXCEPT ![k] = r]
<1>1. /\ E \in [Wakers -> Seq(Waiters)] /\ E[k] = r
      /\ \A j \in Wakers \ {k} : E[j] = D[j]
  OBVIOUS
<1> HIDE DEF E
<1>2. ASSUME NEW j \in Wakers, j # k PROVE HoldsAs(j, D[j])'
  <2>1. HoldsAs(j, D[j])
    BY DEF HeldAs
  <2>2. Linked(D[j])'
    BY <1>2, <2>1 DEF HoldsAs, Linked
  <2> QED
    BY <1>2, <2>1, <2>2 DEF HoldsAs, At
<1>3. \A j \in Wakers : HoldsAs(j, E[j])'
  BY <1>1, <1>2
<1>4. \A i, j \in Wakers : \A m \in DOMAIN E[i] : \A n \in DOMAIN E[j] : E[i][m] = E[j][n] => i = j
  <2> SUFFICES ASSUME NEW i \in Wakers, NEW j \in Wakers, i # j,
                      NEW m \in DOMAIN E[i], NEW n \in DOMAIN E[j]
               PROVE  E[i][m] # E[j][n]
    OBVIOUS
  <2>1. CASE i # k /\ j # k
    BY <1>1, <2>1 DEF HeldAs
  <2>2. CASE i = k
    <3>1. j \in Wakers \ {k} /\ E[i] = r /\ E[j] = D[j]
      BY <1>1, <2>2
    <3> QED
      BY <3>1
  <2>3. CASE j = k
    <3>1. i \in Wakers \ {k} /\ E[j] = r /\ E[i] = D[i]
      BY <1>1, <2>3
    <3> QED
      BY <3>1
  <2> QED
    BY <2>1, <2>2, <2>3
<1>5. \A t \in Waiters : (Sleeps(t) /\ blocked_on[t] = None)' =>
         \E j \in Wakers : \E i \in DOMAIN E[j] : E[j][i] = t
  BY <1>1
<1>6. HeldAs(E)'
  BY <1>3, <1>4, <1>5 DEF HeldAs
<1> QED
  BY <1>1, <1>6 DEF Held

(* A waker moves no waiter but may make it READY.                          *)
LEMMA SpotsAwake ==
    ASSUME WaitInv, \A t \in Waiters : ~IrqsOff(t), UNCHANGED <<pc, wq>>,
           \A t \in Waiters : \/ state'[t] = state[t]
                              \/ pc[t] = "asleep" /\ state'[t] = "READY" /\ blocked_on'[t] = None,
           \A t \in Waiters : blocked_on'[t] \in {blocked_on[t], None}
    PROVE  Spots'
<1>1. ASSUME NEW t \in Waiters PROVE InPlace(t)' /\ ~IrqsOff(t)'
  <2>1. InPlace(t) /\ ~IrqsOff(t)
    BY DEF WaitInv, Spots
  <2> QED
    BY <2>1 DEF InPlace, IrqsOff, Sleeps
<1> QED
  BY <1>1 DEF Spots

(* A new item has its waker.                                               *)
LEMMA AddItemInv ==
    ASSUME WaitInv, NEW k \in Wakers, NEW q \in Queues, AddItem(k, q)
    PROVE  WaitInv'
<1>0. /\ wpc[k][1] = "idle" /\ (wpc'[k] = <<"one", q>> \/ wpc'[k] = <<"all", q>>)
      /\ \A j \in Wakers \ {k} : wpc'[j] = wpc[j]
      /\ items'[q] = items[q] + 1 /\ added'[q] = added[q] + 1
      /\ \A p \in Queues \ {q} : items'[p] = items[p] /\ added'[p] = added[p]
      /\ UNCHANGED <<head, tail, wq_next, blocked_on, links, state, wait_result, armed, drain, pc, wq, waits, hold, setup>>
  BY Domains DEF AddItem, At, WGoto, links, timers
<1>a. \A t \in Waiters : ~IrqsOff(t)
  BY Alone DEF AddItem
<1>1. TypeOK'
  <2>1. added[q] < MaxItems /\ MaxItems \in Nat /\ MaxItems' = MaxItems
    BY <1>0, WaitAssumption DEF AddItem, WaitInv, TypeOK, MaxItems
  <2>2. \A p \in Queues : items'[p] \in 0 .. MaxItems /\ added'[p] \in 0 .. MaxItems
    <3>1. items[q] <= added[q] /\ items[q] \in Nat /\ added[q] \in Nat
      BY Known DEF WaitInv, Calls
    <3>2. items'[q] \in 0 .. MaxItems /\ added'[q] \in 0 .. MaxItems
      BY <1>0, <2>1, <3>1
    <3>3. \A p \in Queues : items[p] \in 0 .. MaxItems /\ added[p] \in 0 .. MaxItems
      BY DEF WaitInv, TypeOK
    <3> QED
      BY <1>0, <3>2, <3>3
  <2>3. items' \in [Queues -> 0 .. MaxItems] /\ added' \in [Queues -> 0 .. MaxItems]
    BY <2>2, Domains DEF AddItem
  <2>4. wpc' \in [Wakers -> {"idle", "one", "all", "unblock", "chain"} \X (Queues \cup {None})]
    BY DEF WaitInv, TypeOK, AddItem, WGoto
  <2> QED
    BY <1>0, <2>1, <2>3, <2>4 DEF WaitInv, TypeOK, Timed, MaxWaits
<1>2. OneCpuOnly' /\ Untimed'
  BY <1>0 DEF WaitInv, OneCpuOnly, Timed, CpuOf, Untimed
<1>3. Calls'
  <2>1. \A p \in Queues : items'[p] <= added'[p]
    BY <1>0, Known DEF WaitInv, Calls
  <2>2. \A j \in Wakers : (At(j, "one") \/ At(j, "all") => Of(j) \in Queues)'
    BY <1>0 DEF WaitInv, Calls, At, Of
  <2> QED
    BY <2>1, <2>2 DEF Calls
<1>4. Lists'
  BY <1>0, ListsStay
<1>5. Held'
  <2>1. PICK D \in [Wakers -> Seq(Waiters)] : HeldAs(D)
    BY DEF WaitInv, Held
  <2>2. \A j \in Wakers : \A i \in DOMAIN D[j] :
           D[j][i] \in Waiters /\ Sleeps(D[j][i]) /\ blocked_on[D[j][i]] = None
    BY <2>1 DEF HeldAs, HoldsAs
  <2>3. HoldsAs(k, D[k])'
    <3>1. HoldsAs(k, D[k]) /\ Linked(D[k])'
      BY <1>0, <2>1 DEF HeldAs, HoldsAs, Linked
    <3> QED
      BY <1>0, <2>2, <3>1 DEF HoldsAs, At, Sleeps
  <2>4. \A j \in Wakers \ {k} : \A i \in DOMAIN D[j] : \A m \in DOMAIN D[k] : D[j][i] # D[k][m]
    BY <2>1 DEF HeldAs
  <2>5. \A t \in Waiters : Sleeps(t)' <=> Sleeps(t)
    BY <1>0 DEF Sleeps
  <2>6. \A t \in Waiters : Sleeps(t) /\ blocked_on[t] = None =>
           \/ \E m \in DOMAIN D[k] : D[k][m] = t
           \/ \E j \in Wakers \ {k} : \E i \in DOMAIN D[j] : D[j][i] = t
    BY <2>1 DEF HeldAs
  <2>7. Regroups(D, k, D[k])
    BY <1>0, <2>2, <2>3, <2>4, <2>5, <2>6 DEF Regroups
  <2> QED
    BY <2>1, <2>7, HeldChanges
<1>6. Spots'
  BY <1>0, <1>a, SpotsAwake
<1>7. Covered'
  <2> SUFFICES ASSUME NEW p \in Queues PROVE CoveredIn(p)'
    BY DEF Covered
  <2>1. (SleeperIn(p)' => SleeperIn(p)) /\ (AllIn(p) => AllIn(p)')
    BY <1>0 DEF SleeperIn, Sleeps, AllIn
  <2>2. Calling(p) \subseteq Calling(p)' /\ Coming(p) \subseteq Coming(p)'
    BY <1>0 DEF Calling, Coming, OnItsWay
  <2>3. CASE p # q
    BY <2>1, <2>2, <2>3, <1>0, Known, CoverStays
  <2>4. CASE p = q /\ wpc'[k] = <<"all", q>>
    BY <2>4 DEF CoveredIn, AllIn
  <2>5. CASE p = q /\ wpc'[k] = <<"one", q>>
    <3>1. Calling(q)' = Calling(q) \cup {k} /\ k \notin Calling(q)
      BY <1>0, <2>5 DEF Calling
    <3>2. Cardinality(Calling(q)') = Cardinality(Calling(q)) + 1
      BY <3>1, Finite, FS_AddElement
    <3>3. Cardinality(Coming(q)) <= Cardinality(Coming(q)')
      BY <2>2, <2>5, FiniteNext, FS_Subset
    <3>4. CoveredIn(q) /\ items[q] \in Nat
      BY Known DEF WaitInv, Covered
    <3> QED
      BY <1>0, <2>1, <2>5, <3>2, <3>3, <3>4, Finite, FiniteNext DEF CoveredIn
  <2> QED
    BY <1>0, <2>3, <2>4, <2>5
<1> QED
  BY <1>1, <1>2, <1>3, <1>4, <1>5, <1>6, <1>7 DEF WaitInv

(* wake_one unblocks the thread it holds.                                  *)
LEMMA WakeOneUnblockInv ==
    ASSUME WaitInv, NEW k \in Wakers, WakeOneUnblock(k)
    PROVE  WaitInv'
<1>1. PICK D \in [Wakers -> Seq(Waiters)] : HeldAs(D)
  BY DEF WaitInv, Held
<1>2. PICK t \in Waiters : /\ t = hold[k] /\ Sleeps(t) /\ blocked_on[t] = None
                           /\ \A i \in DOMAIN D[k] : D[k][i] = t
                           /\ \E i \in DOMAIN D[k] : D[k][i] = t
  <2>1. HoldsAs(k, D[k]) /\ At(k, "unblock")
    BY <1>1 DEF HeldAs, WakeOneUnblock
  <2>2. D[k] # <<>> /\ Len(D[k]) = 1 /\ D[k] \in Seq(Waiters) /\ hold[k] = D[k][1]
    BY <2>1 DEF HoldsAs, FirstOf
  <2>3. DOMAIN D[k] = {1} /\ D[k][1] \in Waiters
    BY <2>2
  <2> QED
    BY <2>1, <2>2, <2>3 DEF HoldsAs
<1>3. PICK r \in Seq(Waiters) : r = <<>>
  <2>1. <<>> \in Seq(Waiters)
    OBVIOUS
  <2> QED
    BY <2>1
<1>0. /\ wpc[k][1] = "unblock" /\ wpc'[k] = <<"idle", None>> /\ hold'[k] = None
      /\ \A j \in Wakers \ {k} : wpc'[j] = wpc[j] /\ hold'[j] = hold[j]
      /\ state'[t] = "READY" /\ \A x \in Waiters \ {t} : state'[x] = state[x]
      /\ \A x \in Waiters : wait_result'[x] = "OK"
      /\ UNCHANGED <<head, tail, wq_next, blocked_on, links, armed, drain, items, added, pc, wq, waits, setup>>
  BY <1>2, Domains, NoTimers DEF WakeOneUnblock, At, WGoto, links, Unblock, TimerCancel, Sleeps
<1>a. \A x \in Waiters : ~IrqsOff(x)
  BY Alone DEF WakeOneUnblock
<1>4. TypeOK'
  <2>1. /\ wpc' \in [Wakers -> {"idle", "one", "all", "unblock", "chain"} \X (Queues \cup {None})]
        /\ hold' \in [Wakers -> Threads]
    BY DEF WaitInv, TypeOK, WakeOneUnblock, WGoto, Threads
  <2>2. /\ state' \in [Waiters -> {"RUNNING", "READY", "BLOCKED"}]
        /\ wait_result' \in [Waiters -> {"OK", "TIMEOUT"}]
    BY DEF WaitInv, TypeOK, WakeOneUnblock, Unblock
  <2> QED
    BY <1>0, <2>1, <2>2 DEF WaitInv, TypeOK, Timed, MaxItems, MaxWaits
<1>5. OneCpuOnly' /\ Untimed' /\ Calls'
  <2>1. \A j \in Wakers : (At(j, "one") \/ At(j, "all") => Of(j) \in Queues)'
    BY <1>0 DEF WaitInv, Calls, At, Of
  <2> QED
    BY <1>0, <2>1 DEF WaitInv, OneCpuOnly, Timed, CpuOf, Untimed, Calls
<1>6. Lists'
  BY <1>0, ListsStay
<1>7. Held'
  <2>1. \A j \in Wakers : \A i \in DOMAIN D[j] :
           D[j][i] \in Waiters /\ Sleeps(D[j][i]) /\ blocked_on[D[j][i]] = None
    BY <1>1 DEF HeldAs, HoldsAs
  <2>2. \A j \in Wakers \ {k} : \A i \in DOMAIN D[j] : D[j][i] # t
    BY <1>1, <1>2 DEF HeldAs
  <2>3. DOMAIN r = {}
    BY <1>3
  <2>4. HoldsAs(k, r)'
    <3>1. Linked(r)'
      BY <2>3 DEF Linked
    <3> QED
      BY <1>0, <1>3, <2>3, <3>1 DEF HoldsAs, FirstOf, At
  <2>5. \A x \in Waiters : Sleeps(x)' <=> Sleeps(x) /\ x # t
    BY <1>0 DEF Sleeps
  <2>6. \A x \in Waiters : Sleeps(x) /\ blocked_on[x] = None /\ x # t =>
           \E j \in Wakers \ {k} : \E i \in DOMAIN D[j] : D[j][i] = x
    BY <1>1, <1>2 DEF HeldAs
  <2>7. \A j \in Wakers \ {k} : \A i \in DOMAIN D[j] :
           /\ wq_next'[D[j][i]] = wq_next[D[j][i]] /\ Sleeps(D[j][i])'
           /\ blocked_on'[D[j][i]] = None /\ \A m \in DOMAIN r : D[j][i] # r[m]
    BY <1>0, <2>1, <2>2, <2>3, <2>5
  <2>8. \A x \in Waiters : (Sleeps(x) /\ blocked_on[x] = None)' =>
           \/ \E m \in DOMAIN r : r[m] = x
           \/ \E j \in Wakers \ {k} : \E i \in DOMAIN D[j] : D[j][i] = x
    BY <1>0, <2>5, <2>6
  <2>9. \A j \in Wakers \ {k} : hold'[j] = hold[j] /\ wpc'[j] = wpc[j]
    BY <1>0
  <2>10. Regroups(D, k, r)
    BY <2>4, <2>7, <2>8, <2>9 DEF Regroups
  <2> QED
    BY <1>1, <1>3, <2>10, HeldChanges
<1>8. Spots'
  BY <1>0, <1>2, <1>a, SpotsAwake DEF Sleeps
<1>9. Covered'
  <2> SUFFICES ASSUME NEW p \in Queues PROVE CoveredIn(p)'
    BY DEF Covered
  <2>1. (SleeperIn(p)' => SleeperIn(p)) /\ (AllIn(p) => AllIn(p)')
    <3>1. SleeperIn(p)' => SleeperIn(p)
      BY <1>0 DEF SleeperIn, Sleeps
    <3>2. \A j \in Wakers : wpc[j] = <<"all", p>> => j # k
      BY <1>0
    <3>3. AllIn(p) => AllIn(p)'
      BY <1>0, <3>2 DEF AllIn
    <3> QED
      BY <3>1, <3>3
  <2>2. Calling(p) \subseteq Calling(p)' /\ Coming(p) \subseteq Coming(p)'
    BY <1>0, <1>2 DEF Calling, Coming, OnItsWay, Sleeps
  <2> QED
    BY <2>1, <2>2, <1>0, Known, CoverStays
<1> QED
  BY <1>4, <1>5, <1>6, <1>7, <1>8, <1>9 DEF WaitInv

(* wake_all unblocks the first of the chain it holds.                      *)
LEMMA WakeAllUnblockInv ==
    ASSUME WaitInv, NEW k \in Wakers, WakeAllUnblock(k)
    PROVE  WaitInv'
<1>1. PICK D \in [Wakers -> Seq(Waiters)] : HeldAs(D)
  BY DEF WaitInv, Held
<1>s. PICK s \in Seq(Waiters) : s = D[k]
  OBVIOUS
<1>r. PICK r : r = Tail(s)
  OBVIOUS
<1>2. HoldsAs(k, s) /\ At(k, "chain") /\ s # <<>>
  BY <1>1, <1>s DEF HeldAs, HoldsAs, WakeAllUnblock
<1>3. /\ r \in Seq(Waiters) /\ Len(r) = Len(s) - 1 /\ Len(s) \in Nat \ {0} /\ 1 \in DOMAIN s
      /\ \A i \in DOMAIN r : i \in Nat \ {0} /\ i + 1 \in DOMAIN s /\ i + 1 # 1 /\ r[i] = s[i + 1]
      /\ \A i \in DOMAIN s : i # 1 => i - 1 \in DOMAIN r /\ r[i - 1] = s[i]
  BY <1>2, <1>r, TailFacts
<1>4. PICK t \in Waiters : t = s[1] /\ t = hold[k]
  BY <1>2, <1>3 DEF HoldsAs, FirstOf
<1>5. /\ Sleeps(t) /\ blocked_on[t] = None /\ \A i \in DOMAIN r : r[i] # t
      /\ wq_next[t] = FirstOf(r) /\ (wq_next[t] = None <=> r = <<>>)
  <2>1. Sleeps(t) /\ blocked_on[t] = None
    BY <1>2, <1>3, <1>4 DEF HoldsAs
  <2>2. \A i \in DOMAIN r : r[i] # t
    <3>1. \A i, j \in DOMAIN s : s[i] = s[j] => i = j
      BY <1>2 DEF HoldsAs, Linked
    <3>2. 1 \in DOMAIN s /\ t = s[1]
      BY <1>3, <1>4
    <3>3. \A i \in DOMAIN r : i + 1 \in DOMAIN s /\ i + 1 # 1 /\ r[i] = s[i + 1]
      BY <1>3
    <3> QED
      BY <3>1, <3>2, <3>3
  <2>3. wq_next[t] = IF 1 = Len(s) THEN None ELSE s[1 + 1]
    <3>1. \A i \in DOMAIN s : wq_next[s[i]] = IF i = Len(s) THEN None ELSE s[i + 1]
      BY <1>2 DEF HoldsAs, Linked
    <3>2. 1 \in DOMAIN s /\ t = s[1]
      BY <1>3, <1>4
    <3> QED
      BY <3>1, <3>2
  <2>4. CASE Len(s) = 1
    <3>1. r = <<>>
      BY <1>3, <2>4
    <3> QED
      BY <2>1, <2>2, <2>3, <2>4, <3>1 DEF FirstOf
  <2>5. CASE Len(s) # 1
    <3>1. r # <<>> /\ 1 \in DOMAIN r
      BY <1>3, <2>5
    <3>2. r[1] = s[2] /\ r[1] \in Waiters
      BY <1>3, <3>1
    <3> QED
      BY <2>1, <2>2, <2>3, <2>5, <3>1, <3>2, Known DEF FirstOf
  <2> QED
    BY <2>4, <2>5
<1>0. /\ wpc[k][1] = "chain" /\ hold'[k] = FirstOf(r)
      /\ IF r = <<>> THEN wpc'[k] = <<"idle", None>> ELSE wpc'[k] = wpc[k]
      /\ \A j \in Wakers \ {k} : wpc'[j] = wpc[j] /\ hold'[j] = hold[j]
      /\ state'[t] = "READY" /\ \A x \in Waiters \ {t} : state'[x] = state[x] /\ wq_next'[x] = wq_next[x]
      /\ \A x \in Waiters : wait_result'[x] = "OK"
      /\ UNCHANGED <<head, tail, blocked_on, armed, drain, items, added, pc, wq, waits, setup>>
  BY <1>4, <1>5, Domains, NoTimers DEF WakeAllUnblock, At, WGoto, Unblock, TimerCancel, Sleeps
<1>a. \A x \in Waiters : ~IrqsOff(x)
  BY Alone DEF WakeAllUnblock
<1>6. TypeOK'
  <2>1. wpc' \in [Wakers -> {"idle", "one", "all", "unblock", "chain"} \X (Queues \cup {None})]
    <3>1. wpc' = wpc \/ wpc' = [wpc EXCEPT ![k] = <<"idle", None>>]
      BY DEF WakeAllUnblock, WGoto
    <3>2. wpc \in [Wakers -> {"idle", "one", "all", "unblock", "chain"} \X (Queues \cup {None})]
      BY DEF WaitInv, TypeOK
    <3>3. CASE wpc' = wpc
      BY <3>2, <3>3
    <3>4. CASE wpc' = [wpc EXCEPT ![k] = <<"idle", None>>]
      BY <3>2, <3>4
    <3> QED
      BY <3>1, <3>3, <3>4
  <2>2. hold' \in [Wakers -> Threads] /\ wq_next' \in [Waiters -> Threads]
    BY <1>4 DEF WaitInv, TypeOK, WakeAllUnblock, Threads
  <2>3. /\ state' \in [Waiters -> {"RUNNING", "READY", "BLOCKED"}]
        /\ wait_result' \in [Waiters -> {"OK", "TIMEOUT"}]
    BY DEF WaitInv, TypeOK, WakeAllUnblock, Unblock
  <2> QED
    BY <1>0, <2>1, <2>2, <2>3 DEF WaitInv, TypeOK, Timed, MaxItems, MaxWaits
<1>7. OneCpuOnly' /\ Untimed' /\ Calls'
  <2>1. \A j \in Wakers : (At(j, "one") \/ At(j, "all") => Of(j) \in Queues)'
    BY <1>0 DEF WaitInv, Calls, At, Of
  <2> QED
    BY <1>0, <2>1 DEF WaitInv, OneCpuOnly, Timed, CpuOf, Untimed, Calls
<1>8. Lists'
  <2> SUFFICES ASSUME NEW p \in Queues PROVE \E z \in Seq(Waiters) : ListOf(p, z)'
    BY DEF Lists
  <2>1. PICK z \in Seq(Waiters) : ListOf(p, z)
    BY DEF WaitInv, Lists
  <2>2. \A x \in Waiters : blocked_on[x] = p => wq_next'[x] = wq_next[x]
    BY <1>0, <1>5, Known
  <2>3. ListOf(p, z)'
    BY <1>0, <2>1, <2>2, ListStays
  <2> QED
    BY <2>3
<1>9. Held'
  <2>1. \A j \in Wakers : \A i \in DOMAIN D[j] :
           D[j][i] \in Waiters /\ Sleeps(D[j][i]) /\ blocked_on[D[j][i]] = None
    BY <1>1 DEF HeldAs, HoldsAs
  <2>2. \A j \in Wakers \ {k} : \A i \in DOMAIN D[j] : D[j][i] # t /\ \A m \in DOMAIN r : D[j][i] # r[m]
    <3>1. \A j \in Wakers \ {k} : \A i \in DOMAIN D[j] : \A m \in DOMAIN s : D[j][i] # s[m]
      BY <1>1, <1>s DEF HeldAs
    <3>0. 1 \in DOMAIN s /\ t = s[1]
      BY <1>3, <1>4
    <3>2. \A j \in Wakers \ {k} : \A i \in DOMAIN D[j] : D[j][i] # t
      BY <3>0, <3>1
    <3>3. \A m \in DOMAIN r : m + 1 \in DOMAIN s /\ r[m] = s[m + 1]
      BY <1>3
    <3>4. \A j \in Wakers \ {k} : \A i \in DOMAIN D[j] : \A m \in DOMAIN r : D[j][i] # r[m]
      BY <3>1, <3>3
    <3> QED
      BY <3>2, <3>4
  <2>3. \A m \in DOMAIN r : r[m] \in Waiters /\ r[m] # t /\ Sleeps(r[m]) /\ blocked_on[r[m]] = None
    BY <1>3, <1>5, <1>s, <2>1
  <2>4. HoldsAs(k, r)'
    <3>1. \A i, j \in DOMAIN r : r[i] = r[j] => i = j
      <4>1. \A i, j \in DOMAIN s : s[i] = s[j] => i = j
        BY <1>2 DEF HoldsAs, Linked
      <4> QED
        BY <1>3, <4>1
    <3>2. ASSUME NEW i \in DOMAIN r PROVE wq_next'[r[i]] = IF i = Len(r) THEN None ELSE r[i + 1]
      <4>1. wq_next[s[i + 1]] = IF i + 1 = Len(s) THEN None ELSE s[i + 1 + 1]
        BY <1>2, <1>3 DEF HoldsAs, Linked
      <4>2. i # Len(r) => i + 1 \in DOMAIN r
        BY <1>3
      <4>3. r[i] = s[i + 1] /\ wq_next'[r[i]] = wq_next[r[i]]
        BY <1>0, <1>3, <2>3
      <4>4. i + 1 = Len(s) <=> i = Len(r)
        BY <1>3
      <4>5. i # Len(r) => r[i + 1] = s[i + 1 + 1]
        BY <1>3, <4>2
      <4> QED
        BY <4>1, <4>3, <4>4, <4>5
    <3>3. Linked(r)'
      BY <3>1, <3>2 DEF Linked
    <3>4. \A m \in DOMAIN r : Sleeps(r[m])' /\ blocked_on'[r[m]] = None
      BY <1>0, <2>3 DEF Sleeps
    <3> QED
      BY <1>0, <3>3, <3>4 DEF HoldsAs, FirstOf, At
  <2>5. \A x \in Waiters : Sleeps(x)' <=> Sleeps(x) /\ x # t
    BY <1>0 DEF Sleeps
  <2>6. \A x \in Waiters : Sleeps(x) /\ blocked_on[x] = None /\ x # t =>
           \/ \E m \in DOMAIN r : r[m] = x
           \/ \E j \in Wakers \ {k} : \E i \in DOMAIN D[j] : D[j][i] = x
    <3> SUFFICES ASSUME NEW x \in Waiters, x # t, NEW i \in DOMAIN s, s[i] = x
                 PROVE  \E m \in DOMAIN r : r[m] = x
      BY <1>1, <1>s DEF HeldAs
    <3> QED
      BY <1>3, <1>4
  <2>7. \A j \in Wakers \ {k} : \A i \in DOMAIN D[j] :
           /\ wq_next'[D[j][i]] = wq_next[D[j][i]] /\ Sleeps(D[j][i])'
           /\ blocked_on'[D[j][i]] = None /\ \A m \in DOMAIN r : D[j][i] # r[m]
    BY <1>0, <2>1, <2>2, <2>5
  <2>8. \A x \in Waiters : (Sleeps(x) /\ blocked_on[x] = None)' =>
           \/ \E m \in DOMAIN r : r[m] = x
           \/ \E j \in Wakers \ {k} : \E i \in DOMAIN D[j] : D[j][i] = x
    BY <1>0, <2>5, <2>6
  <2>9. \A j \in Wakers \ {k} : hold'[j] = hold[j] /\ wpc'[j] = wpc[j]
    BY <1>0
  <2>10. Regroups(D, k, r)
    BY <2>4, <2>7, <2>8, <2>9 DEF Regroups
  <2> QED
    BY <1>1, <1>3, <2>10, HeldChanges
<1>10. Spots'
  BY <1>0, <1>5, <1>a, SpotsAwake DEF Sleeps
<1>11. Covered'
  <2> SUFFICES ASSUME NEW p \in Queues PROVE CoveredIn(p)'
    BY DEF Covered
  <2>1. (SleeperIn(p)' => SleeperIn(p)) /\ (AllIn(p) => AllIn(p)')
    <3>1. SleeperIn(p)' => SleeperIn(p)
      BY <1>0 DEF SleeperIn, Sleeps
    <3>2. \A j \in Wakers : wpc[j] = <<"all", p>> => j # k
      BY <1>0
    <3>3. AllIn(p) => AllIn(p)'
      BY <1>0, <3>2 DEF AllIn
    <3> QED
      BY <3>1, <3>3
  <2>2. Calling(p) \subseteq Calling(p)' /\ Coming(p) \subseteq Coming(p)'
    BY <1>0, <1>5 DEF Calling, Coming, OnItsWay, Sleeps
  <2> QED
    BY <2>1, <2>2, <1>0, Known, CoverStays
<1> QED
  BY <1>6, <1>7, <1>8, <1>9, <1>10, <1>11 DEF WaitInv

(* Outside the waits, whoever is linked sleeps.                            *)
LEMMA LinkedSleep ==
    ASSUME WaitInv, \A t \in Waiters : ~IrqsOff(t), NEW t \in Waiters, blocked_on[t] # None
    PROVE  Sleeps(t) /\ wq[t] = blocked_on[t]
  BY DEF WaitInv, Spots, InPlace, IrqsOff

(* wake_one finds nobody.                                                  *)
LEMMA WakeOneEmptyInv ==
    ASSUME WaitInv, NEW k \in Wakers, WakeOne(k), head[Of(k)] = None
    PROVE  WaitInv'
<1>q. PICK q \in Queues : q = Of(k)
  BY DEF WaitInv, Calls, WakeOne
<1>0. /\ wpc[k][1] = "one" /\ wpc'[k] = <<"idle", None>> /\ hold'[k] = None
      /\ wpc[k] = <<"one", q>> /\ head[q] = None
      /\ \A j \in Wakers \ {k} : wpc'[j] = wpc[j] /\ hold'[j] = hold[j]
      /\ UNCHANGED <<head, tail, wq_next, blocked_on, links, state, wait_result, armed, drain,
                     items, added, pc, wq, waits, setup>>
  BY <1>q, Domains, Known DEF WakeOne, At, Of, WGoto, links, timers
<1>a. \A t \in Waiters : ~IrqsOff(t)
  BY Alone DEF WakeOne
<1>1. TypeOK'
  <2>1. wpc' \in [Wakers -> {"idle", "one", "all", "unblock", "chain"} \X (Queues \cup {None})]
    BY DEF WaitInv, TypeOK, WakeOne, WGoto
  <2>2. hold' \in [Wakers -> Threads]
    BY DEF WaitInv, TypeOK, WakeOne, Threads
  <2> QED
    BY <1>0, <2>1, <2>2 DEF WaitInv, TypeOK, Timed, MaxItems, MaxWaits
<1>2. OneCpuOnly' /\ Untimed' /\ Calls'
  <2>1. \A j \in Wakers : (At(j, "one") \/ At(j, "all") => Of(j) \in Queues)'
    BY <1>0 DEF WaitInv, Calls, At, Of
  <2> QED
    BY <1>0, <2>1 DEF WaitInv, OneCpuOnly, Timed, CpuOf, Untimed, Calls
<1>3. Lists'
  BY <1>0, ListsStay
<1>4. Held'
  <2>1. PICK D \in [Wakers -> Seq(Waiters)] : HeldAs(D)
    BY DEF WaitInv, Held
  <2>2. \A j \in Wakers : \A i \in DOMAIN D[j] :
           D[j][i] \in Waiters /\ Sleeps(D[j][i]) /\ blocked_on[D[j][i]] = None
    BY <2>1 DEF HeldAs, HoldsAs
  <2>3. HoldsAs(k, D[k])'
    <3>1. HoldsAs(k, D[k]) /\ Linked(D[k])'
      BY <1>0, <2>1 DEF HeldAs, HoldsAs, Linked
    <3>2. D[k] = <<>>
      BY <1>0, <3>1 DEF HoldsAs, At
    <3>3. DOMAIN D[k] = {}
      BY <3>2
    <3> QED
      BY <1>0, <3>1, <3>2, <3>3 DEF HoldsAs, At, FirstOf
  <2>4. \A j \in Wakers \ {k} : \A i \in DOMAIN D[j] : \A m \in DOMAIN D[k] : D[j][i] # D[k][m]
    BY <2>1 DEF HeldAs
  <2>5. \A t \in Waiters : Sleeps(t)' <=> Sleeps(t)
    BY <1>0 DEF Sleeps
  <2>6. \A t \in Waiters : Sleeps(t) /\ blocked_on[t] = None =>
           \/ \E m \in DOMAIN D[k] : D[k][m] = t
           \/ \E j \in Wakers \ {k} : \E i \in DOMAIN D[j] : D[j][i] = t
    BY <2>1 DEF HeldAs
  <2>7. Regroups(D, k, D[k])
    BY <1>0, <2>2, <2>3, <2>4, <2>5, <2>6 DEF Regroups
  <2> QED
    BY <2>1, <2>7, HeldChanges
<1>5. Spots'
  BY <1>0, <1>a, SpotsAwake
<1>6. Covered'
  <2> SUFFICES ASSUME NEW p \in Queues PROVE CoveredIn(p)'
    BY DEF Covered
  <2>1. CASE p = q
    <3>1. PICK s \in Seq(Waiters) : ListOf(q, s)
      BY DEF WaitInv, Lists
    <3>2. s = <<>>
      <4>1. s # <<>> => s[1] \in Waiters /\ s[1] # None
        BY Known
      <4> QED
        BY <1>0, <3>1, <4>1 DEF ListOf, FirstOf
    <3>3. DOMAIN s = {}
      BY <3>2
    <3>4. ~SleeperIn(q)'
      BY <1>0, <3>1, <3>3 DEF ListOf, SleeperIn
    <3> QED
      BY <2>1, <3>4 DEF CoveredIn
  <2>2. CASE p # q
    <3>1. (SleeperIn(p)' => SleeperIn(p)) /\ (AllIn(p) => AllIn(p)')
      <4>1. SleeperIn(p)' => SleeperIn(p)
        BY <1>0 DEF SleeperIn, Sleeps
      <4>2. \A j \in Wakers : wpc[j] = <<"all", p>> => j # k
        BY <1>0
      <4>3. AllIn(p) => AllIn(p)'
        BY <1>0, <4>2 DEF AllIn
      <4> QED
        BY <4>1, <4>3
    <3>2. Calling(p) \subseteq Calling(p)' /\ Coming(p) \subseteq Coming(p)'
      <4>1. wpc[k] # <<"one", p>>
        BY <1>0, <2>2
      <4> QED
        BY <1>0, <4>1 DEF Calling, Coming, OnItsWay
    <3> QED
      BY <1>0, <3>1, <3>2, Known, CoverStays
  <2> QED
    BY <2>1, <2>2
<1> QED
  BY <1>1, <1>2, <1>3, <1>4, <1>5, <1>6 DEF WaitInv

(* dequeue_head takes the first thread of the list.                        *)
LEMMA WakeOneFoundInv ==
    ASSUME WaitInv, NEW k \in Wakers, WakeOne(k), head[Of(k)] # None
    PROVE  WaitInv'
<1>q. PICK q \in Queues : q = Of(k)
  BY DEF WaitInv, Calls, WakeOne
<1>a. \A t \in Waiters : ~IrqsOff(t)
  BY Alone DEF WakeOne
<1>1. PICK s \in Seq(Waiters) : ListOf(q, s)
  BY DEF WaitInv, Lists
<1>2. s # <<>>
  BY <1>1, <1>q DEF ListOf, FirstOf
<1>r. PICK r : r = Tail(s)
  OBVIOUS
<1>3. /\ r \in Seq(Waiters) /\ Len(r) = Len(s) - 1 /\ Len(s) \in Nat \ {0} /\ 1 \in DOMAIN s
      /\ \A i \in DOMAIN r : i \in Nat \ {0} /\ i + 1 \in DOMAIN s /\ i + 1 # 1 /\ r[i] = s[i + 1]
      /\ \A i \in DOMAIN s : i # 1 => i - 1 \in DOMAIN r /\ r[i - 1] = s[i]
  BY <1>2, <1>r, TailFacts
<1>4. PICK t \in Waiters : t = s[1] /\ t = head[q]
  BY <1>1, <1>2, <1>3 DEF ListOf, FirstOf
<1>5. /\ blocked_on[t] = q /\ \A i \in DOMAIN r : r[i] # t
      /\ wq_next[t] = FirstOf(r) /\ (wq_next[t] = None <=> r = <<>>)
      /\ tail[q] = s[Len(s)]
  <2>1. blocked_on[t] = q /\ tail[q] = s[Len(s)]
    BY <1>1, <1>2, <1>3, <1>4 DEF ListOf, LastOf
  <2>2. \A i \in DOMAIN r : r[i] # t
    <3>1. \A i, j \in DOMAIN s : s[i] = s[j] => i = j
      BY <1>1 DEF ListOf, Linked
    <3>2. 1 \in DOMAIN s /\ t = s[1]
      BY <1>3, <1>4
    <3>3. \A i \in DOMAIN r : i + 1 \in DOMAIN s /\ i + 1 # 1 /\ r[i] = s[i + 1]
      BY <1>3
    <3> QED
      BY <3>1, <3>2, <3>3
  <2>3. wq_next[t] = IF 1 = Len(s) THEN None ELSE s[1 + 1]
    <3>1. \A i \in DOMAIN s : wq_next[s[i]] = IF i = Len(s) THEN None ELSE s[i + 1]
      BY <1>1 DEF ListOf, Linked
    <3>2. 1 \in DOMAIN s /\ t = s[1]
      BY <1>3, <1>4
    <3> QED
      BY <3>1, <3>2
  <2>4. CASE Len(s) = 1
    <3>1. r = <<>>
      BY <1>3, <2>4
    <3> QED
      BY <2>1, <2>2, <2>3, <2>4, <3>1 DEF FirstOf
  <2>5. CASE Len(s) # 1
    <3>1. r # <<>> /\ 1 \in DOMAIN r
      BY <1>3, <2>5
    <3>2. r[1] = s[1 + 1] /\ r[1] \in Waiters
      BY <1>3, <3>1
    <3> QED
      BY <2>1, <2>2, <2>3, <2>5, <3>1, <3>2, Known DEF FirstOf
  <2> QED
    BY <2>4, <2>5
<1>6. Sleeps(t) /\ wq[t] = q /\ q # None
  BY <1>5, <1>a, LinkedSleep, Known
<1>0. /\ wpc[k] = <<"one", q>> /\ wpc'[k] = <<"unblock", None>> /\ hold'[k] = t
      /\ \A j \in Wakers \ {k} : wpc'[j] = wpc[j] /\ hold'[j] = hold[j]
      /\ head'[q] = FirstOf(r) /\ tail'[q] = IF r = <<>> THEN None ELSE s[Len(s)]
      /\ \A p \in Queues \ {q} : head'[p] = head[p] /\ tail'[p] = tail[p]
      /\ wq_next'[t] = None /\ blocked_on'[t] = None
      /\ \A x \in Waiters \ {t} : wq_next'[x] = wq_next[x] /\ blocked_on'[x] = blocked_on[x]
      /\ UNCHANGED <<state, wait_result, armed, drain, items, added, pc, wq, waits, setup>>
  BY <1>q, <1>4, <1>5, Domains, Known DEF WakeOne, At, Of, WGoto, DequeueHead, timers
<1>7. TypeOK'
  <2>1. wpc' \in [Wakers -> {"idle", "one", "all", "unblock", "chain"} \X (Queues \cup {None})]
    <3>1. wpc' = [wpc EXCEPT ![k] = <<"unblock", None>>]
      BY DEF WakeOne, WGoto
    <3>2. wpc \in [Wakers -> {"idle", "one", "all", "unblock", "chain"} \X (Queues \cup {None})]
      BY DEF WaitInv, TypeOK
    <3> QED
      BY <3>1, <3>2
  <2>2. hold' \in [Wakers -> Threads]
    BY <1>4, <1>q DEF WaitInv, TypeOK, WakeOne, Threads
  <2>3. /\ head' \in [Queues -> Threads] /\ tail' \in [Queues -> Threads]
        /\ wq_next' \in [Waiters -> Threads]
        /\ blocked_on' \in [Waiters -> Queues \cup {None}]
    <3>1. DequeueHead(q) /\ head[q] = t
      BY <1>4, <1>q DEF WakeOne
    <3>2. /\ head' = [head EXCEPT ![q] = wq_next[t]]
          /\ tail' = tail \/ tail' = [tail EXCEPT ![q] = None]
          /\ wq_next' = [wq_next EXCEPT ![t] = None]
          /\ blocked_on' = [blocked_on EXCEPT ![t] = None]
      BY <3>1 DEF DequeueHead
    <3>3. /\ head \in [Queues -> Threads] /\ tail \in [Queues -> Threads]
          /\ wq_next \in [Waiters -> Threads]
          /\ blocked_on \in [Waiters -> Queues \cup {None}]
      BY DEF WaitInv, TypeOK
    <3> QED
      BY <3>2, <3>3 DEF Threads
  <2> QED
    BY <1>0, <2>1, <2>2, <2>3 DEF WaitInv, TypeOK, Timed, MaxItems, MaxWaits
<1>8. OneCpuOnly' /\ Untimed' /\ Calls'
  <2>1. \A j \in Wakers : (At(j, "one") \/ At(j, "all") => Of(j) \in Queues)'
    BY <1>0 DEF WaitInv, Calls, At, Of
  <2> QED
    BY <1>0, <2>1 DEF WaitInv, OneCpuOnly, Timed, CpuOf, Untimed, Calls
<1>9. ListOf(q, r)'
  <2>1. \A i, j \in DOMAIN r : r[i] = r[j] => i = j
    <3>1. \A i, j \in DOMAIN s : s[i] = s[j] => i = j
      BY <1>1 DEF ListOf, Linked
    <3> QED
      BY <1>3, <3>1
  <2>2. ASSUME NEW i \in DOMAIN r PROVE wq_next'[r[i]] = IF i = Len(r) THEN None ELSE r[i + 1]
    <3>1. wq_next[s[i + 1]] = IF i + 1 = Len(s) THEN None ELSE s[i + 1 + 1]
      BY <1>1, <1>3 DEF ListOf, Linked
    <3>2. i # Len(r) => i + 1 \in DOMAIN r
      BY <1>3
    <3>3. r[i] \in Waiters \ {t}
      BY <1>3, <1>5
    <3>4. r[i] = s[i + 1] /\ wq_next'[r[i]] = wq_next[r[i]]
      BY <1>0, <1>3, <3>3
    <3>5. i + 1 = Len(s) <=> i = Len(r)
      BY <1>3
    <3>6. i # Len(r) => r[i + 1] = s[i + 1 + 1]
      BY <1>3, <3>2
    <3> QED
      BY <3>1, <3>4, <3>5, <3>6
  <2>3. Linked(r)'
    BY <2>1, <2>2 DEF Linked
  <2>4. tail'[q] = LastOf(r)
    <3>1. CASE r = <<>>
      BY <1>0, <3>1 DEF LastOf
    <3>2. CASE r # <<>>
      <4>1. Len(r) \in DOMAIN r
        BY <1>3, <3>2
      <4>2. r[Len(r)] = s[Len(s)]
        BY <1>3, <4>1
      <4> QED
        BY <1>0, <3>2, <4>2 DEF LastOf
    <3> QED
      BY <3>1, <3>2
  <2>5. \A x \in Waiters : blocked_on'[x] = q <=> \E i \in DOMAIN r : r[i] = x
    <3>1. \A x \in Waiters : blocked_on[x] = q <=> \E i \in DOMAIN s : s[i] = x
      BY <1>1 DEF ListOf
    <3>2. \A x \in Waiters \ {t} : (\E i \in DOMAIN s : s[i] = x) <=> \E i \in DOMAIN r : r[i] = x
      <4>1. \A i \in DOMAIN r : i + 1 \in DOMAIN s /\ r[i] = s[i + 1]
        BY <1>3
      <4>2. \A i \in DOMAIN s : s[i] # t => i - 1 \in DOMAIN r /\ r[i - 1] = s[i]
        BY <1>3, <1>4
      <4> QED
        BY <4>1, <4>2
    <3> QED
      BY <1>0, <1>5, <1>6, <3>1, <3>2
  <2> QED
    BY <1>0, <2>3, <2>4, <2>5 DEF ListOf, FirstOf, LastOf
<1>10. Lists'
  <2> SUFFICES ASSUME NEW p \in Queues, p # q PROVE \E z \in Seq(Waiters) : ListOf(p, z)'
    BY <1>3, <1>9 DEF Lists
  <2>1. PICK z \in Seq(Waiters) : ListOf(p, z)
    BY DEF WaitInv, Lists
  <2>2. /\ \A x \in Waiters : blocked_on[x] = p => wq_next'[x] = wq_next[x]
        /\ \A x \in Waiters : blocked_on'[x] = p <=> blocked_on[x] = p
    <3>1. /\ \A x \in Waiters \ {t} : wq_next'[x] = wq_next[x] /\ blocked_on'[x] = blocked_on[x]
          /\ blocked_on[t] = q /\ blocked_on'[t] = None /\ p # None
      BY <1>0, <1>5, Known
    <3> QED
      BY <3>1
  <2>3. ListOf(p, z)'
    BY <1>0, <2>1, <2>2, ListStays
  <2> QED
    BY <2>3
<1>11. Held'
  <2>1. PICK D \in [Wakers -> Seq(Waiters)] : HeldAs(D)
    BY DEF WaitInv, Held
  <2>2. \A j \in Wakers : \A i \in DOMAIN D[j] :
           /\ D[j][i] \in Waiters /\ Sleeps(D[j][i]) /\ blocked_on[D[j][i]] = None
           /\ D[j][i] # t
    BY <1>5, <1>6, <2>1 DEF HeldAs, HoldsAs
  <2>z. PICK z \in Seq(Waiters) : z = <<t>>
    <3>1. <<t>> \in Seq(Waiters)
      OBVIOUS
    <3> QED
      BY <3>1
  <2>3. Len(z) = 1 /\ DOMAIN z = {1} /\ z[1] = t /\ z # <<>>
    BY <2>z
  <2>4. \A x \in Waiters : Sleeps(x)' <=> Sleeps(x)
    BY <1>0 DEF Sleeps
  <2>5. HoldsAs(k, z)'
    <3>1. Linked(z)'
      BY <1>0, <2>3 DEF Linked
    <3> QED
      BY <1>0, <1>6, <2>3, <2>4, <3>1 DEF HoldsAs, At, FirstOf
  <2>6. D[k] = <<>>
    <3>1. HoldsAs(k, D[k])
      BY <2>1 DEF HeldAs
    <3>2. ~At(k, "unblock") /\ ~At(k, "chain")
      BY <1>0 DEF At
    <3> QED
      BY <3>1, <3>2 DEF HoldsAs
  <2>7. DOMAIN D[k] = {}
    BY <2>6
  <2>8. \A x \in Waiters : (Sleeps(x) /\ blocked_on[x] = None)' =>
           \/ \E m \in DOMAIN z : z[m] = x
           \/ \E j \in Wakers \ {k} : \E i \in DOMAIN D[j] : D[j][i] = x
    <3>1. \A x \in Waiters : Sleeps(x) /\ blocked_on[x] = None =>
             \E j \in Wakers \ {k} : \E i \in DOMAIN D[j] : D[j][i] = x
      BY <2>1, <2>7 DEF HeldAs
    <3> QED
      BY <1>0, <2>3, <2>4, <3>1
  <2>9. \A j \in Wakers \ {k} : \A i \in DOMAIN D[j] :
           /\ wq_next'[D[j][i]] = wq_next[D[j][i]] /\ Sleeps(D[j][i])'
           /\ blocked_on'[D[j][i]] = None /\ \A m \in DOMAIN z : D[j][i] # z[m]
    <3>1. \A x \in Waiters \ {t} : wq_next'[x] = wq_next[x] /\ blocked_on'[x] = blocked_on[x]
      BY <1>0
    <3> QED
      BY <2>2, <2>3, <2>4, <3>1
  <2>10. \A j \in Wakers \ {k} : hold'[j] = hold[j] /\ wpc'[j] = wpc[j]
    BY <1>0
  <2>11. Regroups(D, k, z)
    BY <2>5, <2>8, <2>9, <2>10 DEF Regroups
  <2> QED
    BY <2>1, <2>11, HeldChanges
<1>12. Spots'
  BY <1>0, <1>a, SpotsAwake
<1>13. Covered'
  <2> SUFFICES ASSUME NEW p \in Queues PROVE CoveredIn(p)'
    BY DEF Covered
  <2>1. (SleeperIn(p)' => SleeperIn(p)) /\ (AllIn(p) => AllIn(p)')
    <3>1. SleeperIn(p)' => SleeperIn(p)
      BY <1>0, Known DEF SleeperIn, Sleeps
    <3>2. \A j \in Wakers : wpc[j] = <<"all", p>> => j # k
      BY <1>0
    <3>3. AllIn(p) => AllIn(p)'
      BY <1>0, <3>2 DEF AllIn
    <3> QED
      BY <3>1, <3>3
  <2>2. CASE p # q
    <3>1. wpc[k] # <<"one", p>>
      BY <1>0, <2>2
    <3>2. Calling(p) \subseteq Calling(p)' /\ Coming(p) \subseteq Coming(p)'
      BY <1>0, <3>1 DEF Calling, Coming, OnItsWay
    <3> QED
      BY <1>0, <2>1, <3>2, Known, CoverStays
  <2>3. CASE p = q
    <3>1. Calling(q) \ {k} \subseteq Calling(q)' /\ k \in Calling(q)
      BY <1>0 DEF Calling
    <3>2. Coming(q) \cup {t} \subseteq Coming(q)' /\ t \notin Coming(q)
      BY <1>0, <1>5, <1>6 DEF Coming, OnItsWay, Sleeps
    <3>3. /\ Cardinality(Calling(q) \ {k}) = Cardinality(Calling(q)) - 1
          /\ Cardinality(Calling(q) \ {k}) <= Cardinality(Calling(q)')
      BY <3>1, Finite, FiniteNext, FS_RemoveElement, FS_Subset
    <3>4. Cardinality(Coming(q) \cup {t}) = Cardinality(Coming(q)) + 1
      BY <3>2, Finite, FS_AddElement
    <3>5. Cardinality(Coming(q) \cup {t}) <= Cardinality(Coming(q)')
      BY <3>2, FiniteNext, FS_Subset
    <3>6. CoveredIn(q) /\ items[q] \in Nat
      BY Known DEF WaitInv, Covered
    <3> QED
      BY <1>0, <2>1, <2>3, <3>3, <3>4, <3>5, <3>6, Finite, FiniteNext DEF CoveredIn
  <2> QED
    BY <2>2, <2>3
<1> QED
  BY <1>7, <1>8, <1>10, <1>11, <1>12, <1>13 DEF WaitInv

(* wake_all takes the whole list.                                          *)
LEMMA WakeAllInv ==
    ASSUME WaitInv, NEW k \in Wakers, WakeAll(k)
    PROVE  WaitInv'
<1>q. PICK q \in Queues : q = Of(k)
  BY DEF WaitInv, Calls, WakeAll
<1>a. \A t \in Waiters : ~IrqsOff(t)
  BY Alone DEF WakeAll
<1>1. PICK s \in Seq(Waiters) : ListOf(q, s)
  BY DEF WaitInv, Lists
<1>2. /\ head[q] = FirstOf(s) /\ (head[q] = None <=> s = <<>>)
      /\ \A i \in DOMAIN s : s[i] \in Waiters /\ blocked_on[s[i]] = q
      /\ \A t \in Waiters : blocked_on[t] = q => \E i \in DOMAIN s : s[i] = t
  <2>1. s # <<>> => s[1] \in Waiters /\ s[1] # None
    BY Known
  <2> QED
    BY <1>1, <2>1 DEF ListOf, FirstOf
<1>3. Chain(q) = {t \in Waiters : blocked_on[t] = q}
  BY <1>1, ChainOfList
<1>0. /\ wpc[k] = <<"all", q>>
      /\ IF s = <<>> THEN wpc'[k] = <<"idle", None>> ELSE wpc'[k] = <<"chain", None>>
      /\ hold'[k] = FirstOf(s)
      /\ \A j \in Wakers \ {k} : wpc'[j] = wpc[j] /\ hold'[j] = hold[j]
      /\ head'[q] = None /\ tail'[q] = None
      /\ \A p \in Queues \ {q} : head'[p] = head[p] /\ tail'[p] = tail[p]
      /\ \A x \in Waiters : blocked_on'[x] = IF blocked_on[x] = q THEN None ELSE blocked_on[x]
      /\ UNCHANGED <<wq_next, state, wait_result, armed, drain, items, added, pc, wq, waits, setup>>
  BY <1>q, <1>2, <1>3, Domains, Known DEF WakeAll, At, Of, WGoto, timers
<1>4. TypeOK'
  <2>1. wpc' \in [Wakers -> {"idle", "one", "all", "unblock", "chain"} \X (Queues \cup {None})]
    <3>1. wpc \in [Wakers -> {"idle", "one", "all", "unblock", "chain"} \X (Queues \cup {None})]
      BY DEF WaitInv, TypeOK
    <3>2. CASE wpc' = [wpc EXCEPT ![k] = <<"idle", None>>]
      BY <3>1, <3>2
    <3>3. CASE wpc' = [wpc EXCEPT ![k] = <<"chain", None>>]
      BY <3>1, <3>3
    <3> QED
      BY <3>2, <3>3 DEF WakeAll, WGoto
  <2>2. /\ head' = [head EXCEPT ![q] = None] /\ tail' = [tail EXCEPT ![q] = None]
        /\ hold' = [hold EXCEPT ![k] = head[q]] /\ head[q] \in Threads
        /\ blocked_on' = [t \in Waiters |-> IF t \in Chain(q) THEN None ELSE blocked_on[t]]
    BY <1>q, Known DEF WakeAll
  <2>3. /\ head \in [Queues -> Threads] /\ tail \in [Queues -> Threads]
        /\ hold \in [Wakers -> Threads] /\ blocked_on \in [Waiters -> Queues \cup {None}]
    BY DEF WaitInv, TypeOK
  <2>4. /\ head' \in [Queues -> Threads] /\ tail' \in [Queues -> Threads]
        /\ hold' \in [Wakers -> Threads] /\ blocked_on' \in [Waiters -> Queues \cup {None}]
    BY <2>2, <2>3 DEF Threads
  <2> QED
    BY <1>0, <2>1, <2>4 DEF WaitInv, TypeOK, Timed, MaxItems, MaxWaits
<1>5. OneCpuOnly' /\ Untimed' /\ Calls'
  <2>1. \A j \in Wakers : (At(j, "one") \/ At(j, "all") => Of(j) \in Queues)'
    BY <1>0 DEF WaitInv, Calls, At, Of
  <2> QED
    BY <1>0, <2>1 DEF WaitInv, OneCpuOnly, Timed, CpuOf, Untimed, Calls
<1>6. Lists'
  <2> SUFFICES ASSUME NEW p \in Queues PROVE \E z \in Seq(Waiters) : ListOf(p, z)'
    BY DEF Lists
  <2>1. CASE p = q
    <3>1. PICK z \in Seq(Waiters) : z = <<>>
      <4>1. <<>> \in Seq(Waiters)
        OBVIOUS
      <4> QED
        BY <4>1
    <3>2. DOMAIN z = {}
      BY <3>1
    <3>3. \A x \in Waiters : blocked_on'[x] # q
      BY <1>0, Known
    <3>4. Linked(z)'
      BY <3>2 DEF Linked
    <3>5. ListOf(q, z)'
      BY <1>0, <3>1, <3>2, <3>3, <3>4 DEF ListOf, FirstOf, LastOf
    <3> QED
      BY <2>1, <3>5
  <2>2. CASE p # q
    <3>1. PICK z \in Seq(Waiters) : ListOf(p, z)
      BY DEF WaitInv, Lists
    <3>2. /\ \A x \in Waiters : blocked_on[x] = p => wq_next'[x] = wq_next[x]
          /\ \A x \in Waiters : blocked_on'[x] = p <=> blocked_on[x] = p
      BY <1>0, <2>2, Known
    <3>3. ListOf(p, z)'
      BY <1>0, <2>2, <3>1, <3>2, ListStays
    <3> QED
      BY <3>3
  <2> QED
    BY <2>1, <2>2
<1>7. Held'
  <2>1. PICK D \in [Wakers -> Seq(Waiters)] : HeldAs(D)
    BY DEF WaitInv, Held
  <2>2. \A j \in Wakers : \A i \in DOMAIN D[j] :
           D[j][i] \in Waiters /\ Sleeps(D[j][i]) /\ blocked_on[D[j][i]] = None
    BY <2>1 DEF HeldAs, HoldsAs
  <2>3. \A i \in DOMAIN s : Sleeps(s[i]) /\ blocked_on'[s[i]] = None /\ blocked_on[s[i]] # None
    BY <1>0, <1>2, <1>a, LinkedSleep, Known
  <2>4. \A x \in Waiters : Sleeps(x)' <=> Sleeps(x)
    BY <1>0 DEF Sleeps
  <2>5. HoldsAs(k, s)'
    <3>1. Linked(s)'
      BY <1>0, <1>1 DEF ListOf, Linked
    <3> QED
      BY <1>0, <1>2, <2>3, <2>4, <3>1 DEF HoldsAs, At, FirstOf
  <2>6. D[k] = <<>>
    <3>1. HoldsAs(k, D[k])
      BY <2>1 DEF HeldAs
    <3>2. ~At(k, "unblock") /\ ~At(k, "chain")
      BY <1>0 DEF At
    <3> QED
      BY <3>1, <3>2 DEF HoldsAs
  <2>7. DOMAIN D[k] = {}
    BY <2>6
  <2>8. \A x \in Waiters : (Sleeps(x) /\ blocked_on[x] = None)' =>
           \/ \E m \in DOMAIN s : s[m] = x
           \/ \E j \in Wakers \ {k} : \E i \in DOMAIN D[j] : D[j][i] = x
    <3>1. \A x \in Waiters : Sleeps(x) /\ blocked_on[x] = None =>
             \E j \in Wakers \ {k} : \E i \in DOMAIN D[j] : D[j][i] = x
      BY <2>1, <2>7 DEF HeldAs
    <3>2. \A x \in Waiters : blocked_on'[x] = None => blocked_on[x] = q \/ blocked_on[x] = None
      BY <1>0
    <3> QED
      BY <1>2, <2>4, <3>1, <3>2
  <2>9. \A j \in Wakers \ {k} : \A i \in DOMAIN D[j] :
           /\ wq_next'[D[j][i]] = wq_next[D[j][i]] /\ Sleeps(D[j][i])'
           /\ blocked_on'[D[j][i]] = None /\ \A m \in DOMAIN s : D[j][i] # s[m]
    BY <1>0, <2>2, <2>3, <2>4
  <2>10. \A j \in Wakers \ {k} : hold'[j] = hold[j] /\ wpc'[j] = wpc[j]
    BY <1>0
  <2>11. Regroups(D, k, s)
    BY <2>5, <2>8, <2>9, <2>10 DEF Regroups
  <2> QED
    BY <2>1, <2>11, HeldChanges
<1>8. Spots'
  BY <1>0, <1>a, SpotsAwake
<1>9. Covered'
  <2> SUFFICES ASSUME NEW p \in Queues PROVE CoveredIn(p)'
    BY DEF Covered
  <2>1. CASE p = q
    <3>1. ~SleeperIn(q)'
      BY <1>0, Known DEF SleeperIn
    <3> QED
      BY <2>1, <3>1 DEF CoveredIn
  <2>2. CASE p # q
    <3>1. SleeperIn(p)' => SleeperIn(p)
      BY <1>0, Known DEF SleeperIn, Sleeps
    <3>2. \A j \in Wakers : wpc[j] = <<"all", p>> \/ wpc[j] = <<"one", p>> => j # k
      BY <1>0, <2>2
    <3>3. AllIn(p) => AllIn(p)'
      BY <1>0, <3>2 DEF AllIn
    <3>4. Calling(p) \subseteq Calling(p)'
      BY <1>0, <3>2 DEF Calling
    <3>5. Coming(p) \subseteq Coming(p)'
      BY <1>0, Known DEF Coming, OnItsWay
    <3> QED
      BY <1>0, <3>1, <3>3, <3>4, <3>5, Known, CoverStays
  <2> QED
    BY <2>1, <2>2
<1> QED
  BY <1>4, <1>5, <1>6, <1>7, <1>8, <1>9 DEF WaitInv

----------------------------------------------------------------------------
(* The invariant holds at the start.                                       *)
LEMMA InitWaits ==
    ASSUME Init, OneCpuOnly
    PROVE  WaitInv
<1> USE DEF Init
<1>1. PICK z \in Seq(Waiters) : z = <<>>
  <2>1. <<>> \in Seq(Waiters)
    OBVIOUS
  <2> QED
    BY <2>1
<1>2. DOMAIN z = {} /\ FirstOf(z) = None /\ LastOf(z) = None /\ Linked(z)
  BY <1>1 DEF FirstOf, LastOf, Linked
<1>3. TypeOK
  <2>1. setup.items \in Nat /\ \A t \in Waiters : setup.waits[t] \in Nat
    BY WaitAssumption
  <2> QED
    BY <2>1 DEF TypeOK, Threads, Idle, Timed, MaxItems, MaxWaits
<1>4. None \notin Queues /\ \A t \in Waiters : ~Sleeps(t)
  BY WaitAssumption DEF Sleeps
<1>5. Lists
  <2> SUFFICES ASSUME NEW q \in Queues PROVE ListOf(q, z)
    BY DEF Lists
  <2> QED
    BY <1>2, <1>4 DEF ListOf
<1>6. Held
  <2> DEFINE D == [k \in Wakers |-> z]
  <2>1. D \in [Wakers -> Seq(Waiters)] /\ \A k \in Wakers : D[k] = z
    OBVIOUS
  <2> HIDE DEF D
  <2>2. \A k \in Wakers : HoldsAs(k, z)
    BY <1>1, <1>2 DEF HoldsAs, At
  <2>3. HeldAs(D)
    BY <1>2, <1>4, <2>1, <2>2 DEF HeldAs
  <2> QED
    BY <2>1, <2>3 DEF Held
<1>7. Untimed /\ Spots /\ Calls
  BY DEF Untimed, Spots, InPlace, Calls, At, IrqsOff
<1>8. Covered
  BY <1>4 DEF Covered, CoveredIn, SleeperIn
<1> QED
  BY <1>3, <1>5, <1>6, <1>7, <1>8 DEF WaitInv

(* The setup does not change.                                              *)
LEMMA SetupStays ==
    ASSUME [Next]_vars
    PROVE  OneCpuOnly' <=> OneCpuOnly
<1>1. setup' = setup
  BY DEF Next, vars, WaiterStep, WakerStep, DrainStep, BeginWait, Check, Prepare, PrepareSaturated,
         Recheck, CancelUnlink, CancelSettle, Yield, Dispatch, Finish, TimerPop, AddItem, WakeOne,
         WakeOneUnblock, WakeAll, WakeAllUnblock, TimerGenCheck, TimerReadQueue, TimerUnlink,
         TimerUnblock, Goto, WGoto, DrainOnly
<1> QED
  BY <1>1 DEF OneCpuOnly, Timed, CpuOf

(* A step that changes nothing keeps the invariant.                        *)
LEMMA StutterWaits ==
    ASSUME WaitInv, UNCHANGED vars
    PROVE  WaitInv'
<1>0. UNCHANGED <<head, tail, wq_next, blocked_on, links, state, wait_result, armed, drain,
                  items, added, pc, wq, waits, wpc, hold, setup>>
  BY DEF vars, links, timers
<1>1. TypeOK' /\ OneCpuOnly' /\ Untimed' /\ Calls'
  BY <1>0 DEF WaitInv, TypeOK, OneCpuOnly, Timed, CpuOf, MaxItems, MaxWaits, Untimed, Calls, At, Of
<1>2. Lists' /\ Held'
  BY <1>0, ListsStay, HeldStays DEF Sleeps
<1>3. Spots'
  BY <1>0 DEF WaitInv, Spots, InPlace, IrqsOff, Sleeps
<1>4. Covered'
  <2> SUFFICES ASSUME NEW p \in Queues PROVE CoveredIn(p)'
    BY DEF Covered
  <2>1. (SleeperIn(p)' => SleeperIn(p)) /\ (AllIn(p) => AllIn(p)')
    BY <1>0 DEF SleeperIn, Sleeps, AllIn
  <2>2. Calling(p) \subseteq Calling(p)' /\ Coming(p) \subseteq Coming(p)'
    BY <1>0 DEF Calling, Coming, OnItsWay
  <2> QED
    BY <2>1, <2>2, <1>0, Known, CoverStays
<1> QED
  BY <1>1, <1>2, <1>3, <1>4 DEF WaitInv

(* Every step keeps it.                                                    *)
LEMMA NextWaits ==
    ASSUME WaitInv, [Next]_vars
    PROVE  WaitInv'
<1>1. ASSUME NEW t \in Waiters, WaiterStep(t) PROVE WaitInv'
  <2>1. ~PrepareSaturated(t)
    BY NoTimers DEF PrepareSaturated
  <2> QED
    BY <1>1, <2>1, CheckInv, PrepareInv, RecheckInv, CancelUnlinkInv, CancelSettleInv, YieldInv,
       DispatchInv, FinishInv DEF WaiterStep
<1>2. ASSUME NEW k \in Wakers, WakerStep(k) PROVE WaitInv'
  BY <1>2, WakeOneEmptyInv, WakeOneFoundInv, WakeOneUnblockInv, WakeAllInv, WakeAllUnblockInv
     DEF WakerStep
<1>3. ~DrainStep /\ \A t \in Waiters : ~TimerPop(t)
  BY NoTimers DEF DrainStep, TimerGenCheck, TimerReadQueue, TimerUnlink, TimerUnblock, TimerPop
<1>4. ASSUME Next PROVE WaitInv'
  BY <1>1, <1>2, <1>3, <1>4, BeginWaitInv, AddItemInv DEF Next
<1> QED
  BY <1>4, StutterWaits

(* On one CPU and without timeouts, the inductive invariant of the wait    *)
(* queues holds: wait_prepare, wait_cancel, wake_one and wake_all keep     *)
(* every queue and every detached chain a list of sleeping threads.        *)
THEOREM WaitInvariant == Spec => [](OneCpuOnly => WaitInv)
<1>1. Init => (OneCpuOnly => WaitInv)
  BY InitWaits
<1>2. (OneCpuOnly => WaitInv) /\ [Next]_vars => (OneCpuOnly => WaitInv)'
  BY SetupStays, NextWaits
<1> QED
  BY <1>1, <1>2, PTL DEF Spec

(* On one CPU and without timeouts the queues of wait.c are what they      *)
(* should be: lists without cycles, of exactly the threads whose           *)
(* blocked_on names them, without a thread that has left its wait; and     *)
(* every sleeper is in the queue it waits on or with a waker that is about *)
(* to unblock it.                                                          *)
THEOREM QueuesStayLists == Spec => [](OneCpuOnly => QueueInv)
<1>1. WaitInv => QueueInv
  <2> SUFFICES ASSUME WaitInv PROVE QueueInv
    OBVIOUS
  <2>1. ASSUME NEW q \in Queues
        PROVE  /\ Chain(q) = {t \in Waiters : blocked_on[t] = q}
               /\ Nth(q)[Cardinality(Chain(q))] = None
               /\ tail[q] = IF Cardinality(Chain(q)) = 0 THEN None
                            ELSE Nth(q)[Cardinality(Chain(q))-1]
    <3>1. PICK s \in Seq(Waiters) : ListOf(q, s)
      BY DEF WaitInv, Lists
    <3>2. PICK L \in Nat : L = Len(s)
      OBVIOUS
    <3>3. /\ Chain(q) = {t \in Waiters : blocked_on[t] = q} /\ Cardinality(Chain(q)) = L
          /\ L \in 0 .. Cardinality(Waiters)
          /\ \A n \in 0 .. Cardinality(Waiters) : Nth(q)[n] = IF n < L THEN s[n + 1] ELSE None
      BY <3>1, <3>2, ChainOfList
    <3>4. Cardinality(Waiters) \in Nat
      BY FS_CardinalityType, WaitAssumption
    <3>5. tail[q] = IF L = 0 THEN None ELSE s[L]
      BY <3>1, <3>2 DEF ListOf, LastOf
    <3>6. Nth(q)[L] = None
      BY <3>3
    <3>7. L # 0 => Nth(q)[L - 1] = s[L]
      <4> SUFFICES ASSUME L # 0 PROVE Nth(q)[L - 1] = s[L]
        OBVIOUS
      <4>1. L - 1 \in 0 .. Cardinality(Waiters) /\ L - 1 < L /\ (L - 1) + 1 = L
        BY <3>3, <3>4
      <4> QED
        BY <3>3, <4>1
    <3> QED
      BY <3>3, <3>5, <3>6, <3>7
  <2>2. QueuesAreLists
    BY <2>1 DEF QueuesAreLists
  <2>3. OutMeansUnlinked
    BY <2>1, InOwnPlace, Known DEF OutMeansUnlinked
  <2>4. NobodyStranded
    <3> SUFFICES ASSUME NEW t \in Waiters, Sleeps(t), blocked_on[t] # wq[t]
                 PROVE  \E k \in Wakers : t \in Detached(k)
      BY DEF NobodyStranded
    <3>1. blocked_on[t] = None
      BY DEF WaitInv, Spots, InPlace
    <3>2. PICK D \in [Wakers -> Seq(Waiters)] : HeldAs(D)
      BY DEF WaitInv, Held
    <3>3. PICK k \in Wakers : \E i \in DOMAIN D[k] : D[k][i] = t
      BY <3>1, <3>2 DEF HeldAs
    <3>4. /\ D[k] \in Seq(Waiters) /\ Linked(D[k]) /\ hold[k] = FirstOf(D[k])
          /\ At(k, "unblock") => Len(D[k]) = 1
      BY <3>2 DEF HeldAs, HoldsAs
    <3>5. \A i \in DOMAIN D[k] : D[k][i] \in Detached(k)
      BY <3>4, DetachedOfList
    <3> QED
      BY <3>3, <3>5
  <2> QED
    BY <2>2, <2>3, <2>4 DEF QueueInv, WaitInv
<1> QED
  BY <1>1, WaitInvariant, PTL

(* A thread is in at most one wait queue (wait.c:7), on one CPU and        *)
(* without timeouts.                                                       *)
THEOREM InOneQueue == Spec => [](OneCpuOnly => OneQueueAtMost)
<1>1. WaitInv => OneQueueAtMost
  <2> SUFFICES ASSUME WaitInv, NEW t \in Waiters
               PROVE  Cardinality({q \in Queues : t \in Chain(q)}) <= 1
    BY DEF OneQueueAtMost
  <2> DEFINE In == {q \in Queues : t \in Chain(q)}
  <2>1. \A q \in Queues : t \in Chain(q) => blocked_on[t] = q
    <3> SUFFICES ASSUME NEW q \in Queues, t \in Chain(q) PROVE blocked_on[t] = q
      OBVIOUS
    <3>1. PICK s \in Seq(Waiters) : ListOf(q, s)
      BY DEF WaitInv, Lists
    <3> QED
      BY <3>1, ChainOfList
  <2>2. In \in SUBSET {blocked_on[t]}
    BY <2>1
  <2>3. IsFiniteSet({blocked_on[t]}) /\ Cardinality({blocked_on[t]}) = 1
    BY FS_Singleton
  <2> HIDE DEF In
  <2>4. Cardinality(In) <= Cardinality({blocked_on[t]})
    BY <2>2, <2>3, FS_Subset
  <2>5. Cardinality(In) <= 1
    BY <2>3, <2>4
  <2> QED
    BY <2>5 DEF In
<1> QED
  BY <1>1, WaitInvariant, PTL

(* The pattern of wait.h loses no wake-up on one CPU: when wakers and      *)
(* waiters have come to rest, whoever sleeps does so on a queue that has   *)
(* no item, for any number of waiters, wakers, queues and items.           *)
THEOREM NoWakeIsLost == Spec => [](OneCpuOnly => NoLostWakeup)
<1>1. WaitInv => NoLostWakeup
  <2> SUFFICES ASSUME WaitInv, Quiet, NEW t \in Waiters, Sleeps(t) PROVE items[wq[t]] = 0
    BY DEF NoLostWakeup
  <2>1. PICK D \in [Wakers -> Seq(Waiters)] : HeldAs(D)
    BY DEF WaitInv, Held
  <2>2. \A k \in Wakers : wpc[k][1] = "idle"
    BY DEF Quiet, At
  <2>3. \A k \in Wakers : D[k] = <<>>
    BY <2>1, <2>2 DEF HeldAs, HoldsAs, At
  <2>4. \A k \in Wakers : DOMAIN D[k] = {}
    BY <2>3
  <2>5. \A x \in Waiters : Sleeps(x) => blocked_on[x] # None
    BY <2>1, <2>4 DEF HeldAs
  <2>6. PICK q \in Queues : q = wq[t] /\ blocked_on[t] = q
    BY <2>5, Known DEF WaitInv, Spots, InPlace
  <2>7. SleeperIn(q)
    BY <2>6 DEF SleeperIn
  <2>8. ~AllIn(q) /\ Calling(q) = {}
    BY <2>2 DEF AllIn, Calling
  <2>9. Coming(q) = {}
    BY <2>5 DEF Coming, OnItsWay, Quiet, Sleeps
  <2>10. Cardinality(Calling(q)) = 0 /\ Cardinality(Coming(q)) = 0
    BY <2>8, <2>9, FS_EmptySet
  <2>11. items[q] \in Nat /\ CoveredIn(q)
    BY Known DEF WaitInv, Covered
  <2>12. items[q] = 0
    BY <2>7, <2>8, <2>10, <2>11 DEF CoveredIn
  <2> QED
    BY <2>6, <2>12
<1> QED
  BY <1>1, WaitInvariant, PTL
=============================================================================
