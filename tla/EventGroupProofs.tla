-------------------------- MODULE EventGroupProofs --------------------------
(***************************************************************************)
(* Proofs about EventGroup, for any threads, processes, groups, bits, CPUs *)
(* and batch sizes.  What a waiter is told holds in every setup; that the  *)
(* lists hold nobody they should not is proved for the setups in which it  *)
(* is true, which the predicates on the setup below describe.              *)
(***************************************************************************)
EXTENDS EventGroup, TLAPS

(* No thread of the setup makes this call.                                 *)
Never(c) == \A t \in Threads : \A o \in setup.ops[t] : o.call # c

(* A process that may end waits only on groups that it owns and that no    *)
(* system call destroys: its end then empties their lists.                 *)
OnlyItsEndDestroys(g) ==
    \A t \in Threads : \A o \in setup.ops[t] : o.call = "destroy" => o.g # g
KeepsToItsOwn ==
    \A t \in Threads : \A o \in setup.ops[t] :
        Owner[t] \in setup.exits /\ o.call = "wait" =>
            setup.open[o.g] = Owner[t] /\ OnlyItsEndDestroys(o.g)

(* No reset revives a group that is being destroyed, and no group that two *)
(* calls destroy is created anew between them.                             *)
EndsInOrder ==
    /\ Never("reset") \/ (Never("destroy") /\ setup.exits = {})
    /\ Never("create") \/ Never("destroy")

(* Reset and pulse take bits away without a pass over the list: nobody may *)
(* be waiting for that.                                                    *)
TakesOnlyFromSetters ==
    \/ Never("reset") /\ Never("pulse")
    \/ \A t \in Threads : \A o \in setup.ops[t] :
          o.call = "wait" => o.mode \in {"ALL_SET", "ANY_SET"}

----------------------------------------------------------------------------
(* Where actors can be, and in which call.                                 *)
Ending == {"mark", "collect", "wake", "free"}
Shape ==
    /\ TypeOK /\ setup \in Setups
    /\ \A t \in Threads :
          /\ pc[t] \notin {"scan", "reap"} /\ op[t] \in setup.ops[t] \cup {NoOp}
          /\ pc[t] \in WaitPlaces => calls[t] # 0
          /\ pc[t] = "create" => op[t].call = "create"
          /\ pc[t] = "reset" => op[t].call = "reset" /\ op[t] \in Ends
          /\ pc[Owner[t]] = "out" \/ pc[t] \in {"killed", "gone"}
          /\ pc[t] = "gone" => pc[Owner[t]] = "gone"
    /\ \A p \in Procs :
          /\ pc[p] \in Ending \cup {"out", "scan", "reap", "gone"}
          /\ pc[p] # "out" => p \in setup.exits
          /\ pc[p] \in Ending => op[p].call = "destroy"
    /\ \A a \in Actors :
          /\ pc[a] = "apply" => op[a] \in Changes
          /\ pc[a] \in {"mark", "free"} => op[a] \in Ends
          /\ pc[a] = "mark" => op[a].call \in {"poison", "destroy"}
          /\ pc[a] = "free" => op[a].call = "destroy"

(* A record is listed while its call runs and nobody has decided it; what  *)
(* a waker has decided, and still holds in its batch, is what the call     *)
(* returns.                                                                *)
Records ==
    \A t \in Threads :
        /\ linked[t] # None =>
              /\ ~signaled[t] /\ pc[t] \in (WaitPlaces \ {"link"}) \cup {"killed", "gone"}
              /\ op[t] \in Waits /\ op[t].g = linked[t] /\ calls[t] # 0
        /\ pc[t] = "link" => ~signaled[t]
        /\ signaled[t] => /\ result[t] # "TIMEOUT" /\ op[t] \in Waits
                          /\ result[t] = "OK" => Matches(result_flags[t], t)
        /\ signaled[t] /\ pc[t] = "out" =>
              returned[t] = [result |-> result[t], flags |-> result_flags[t]]
        /\ \A a \in Actors : \A n \in 1 .. MaxCalls :
              <<t, n>> \in batch[a] => n <= calls[t] /\ (n = calls[t] => signaled[t])

(* A process that ends destroys what is its own.                           *)
DestroysItsOwn ==
    \A p \in Procs :
        pc[p] \in Ending /\ OnlyItsEndDestroys(op[p].g) => used[op[p].g] /\ owner[op[p].g] = p

RecordInv == Shape /\ Records /\ AnswerIsTrue /\ DestroysItsOwn

(* Threads of a process that may end are listed by its own groups only,    *)
(* and while it ends, only by those it has not emptied.                    *)
OwnWaiters ==
    \A t \in Threads :
        LET p == Owner[t] IN
        p \in setup.exits =>
            /\ pc[p] = "out" => \A o \in setup.ops[t] :
                  o.call = "wait" => used[o.g] /\ owner[o.g] = p
            /\ linked[t] # None =>
                  /\ used[linked[t]] /\ owner[linked[t]] = p /\ pc[p] \notin {"reap", "gone"}
                  /\ pc[p] \in Ending /\ op[p].g = linked[t] =>
                        pc[p] \in {"mark", "collect"} \/ (pc[p] = "wake" /\ again[p])
OwnInv == KeepsToItsOwn => OwnWaiters

(* A pass that has still to look at the list.                              *)
AtWork(a) == pc[a] = "collect" \/ (pc[a] = "wake" /\ again[a])

(* A group being destroyed takes no new waiters, and after the last look   *)
(* at its list there are none.                                             *)
DestroyedStaysClosed ==
    \A a \in Actors :
        pc[a] \in {"collect", "wake", "free"} /\ op[a].call = "destroy" =>
            /\ used[op[a].g] => poisoned[op[a].g]
            /\ ~AtWork(a) => \A t \in Threads : linked[t] # op[a].g
EmptyInv == EndsInOrder => DeadGroupsAreEmpty /\ DestroyedStaysClosed

(* Listed records, of dead threads too, are found if they match; and one   *)
(* that waits for set bits waits for some bit.                             *)
MatchesAreFound ==
    \A t \in Threads :
        linked[t] # None /\ Matches(flags[linked[t]], t) => \E a \in Actors : Finds(a, t)
WantsSomething ==
    \A t \in Threads : linked[t] # None /\ op[t].mode = "ALL_SET" => op[t].pattern # {}
MatchInv == EndsInOrder /\ TakesOnlyFromSetters => MatchesAreFound /\ WantsSomething

EventInv == RecordInv /\ OwnInv /\ EmptyInv /\ MatchInv

----------------------------------------------------------------------------
(* What the setup allows a thread to call.                                 *)
LEMMA OpTypes ==
    ASSUME setup \in Setups, NEW t \in Threads, NEW o \in setup.ops[t]
    PROVE  /\ o \in Waits \cup Changes \cup Ends \cup {[call |-> "create"]}
           /\ o.call = "wait" <=> o \in Waits
           /\ o.call \in {"set", "clear", "pulse"} => o \in Changes
           /\ o.call \in {"poison", "reset", "destroy"} => o \in Ends
           /\ o.call \in {"wait", "set", "clear", "pulse", "poison", "reset", "destroy", "create"}
<1>1. o \in Waits \cup Changes \cup Ends \cup {[call |-> "create"]}
  BY EventAssumption
<1> QED
  BY <1>1 DEF Waits, Changes, Ends

(* Before the first call no record is listed.                              *)
LEMMA InitInv == Init => EventInv
<1> SUFFICES ASSUME Init PROVE EventInv
  OBVIOUS
<1> USE EventAssumption DEF Init, Actors
<1>0. /\ setup \in Setups /\ used = [g \in Groups |-> setup.open[g] # None] /\ owner = setup.open
      /\ linked = [t \in Threads |-> None] /\ pc = [a \in Actors |-> "out"]
      /\ op = [a \in Actors |-> NoOp] /\ NoOp.call = "none"
      /\ signaled = [t \in Threads |-> FALSE]
      /\ batch = [a \in Actors |-> {}]
  BY DEF NoOp
<1>1. TypeOK
  <2>1. /\ used \in [Groups -> BOOLEAN] /\ poisoned \in [Groups -> BOOLEAN]
        /\ owner \in [Groups -> Procs \cup {None}] /\ flags \in [Groups -> SUBSET Bits]
    BY DEF TypeOK
  <2>2. /\ linked \in [Threads -> Groups \cup {None}] /\ signaled \in [Threads -> BOOLEAN]
        /\ result \in [Threads -> {"OK", "TIMEOUT", "CANCELLED"}]
        /\ result_flags \in [Threads -> SUBSET Bits]
        /\ state \in [Threads -> {"RUNNING", "BLOCKED", "READY"}]
        /\ wait_result \in [Threads -> {"OK", "TIMEOUT"}] /\ armed \subseteq Threads
        /\ calls \in [Threads -> 0 .. MaxCalls]
        /\ returned \in [Threads -> [result : {"none", "OK", "TIMEOUT", "CANCELLED"}, flags : SUBSET Bits]]
    OBVIOUS
  <2>3. /\ pc \in [Actors -> Places] /\ \A a \in Actors : pc[a] = "out"
        /\ op \in [Actors -> Waits \cup Changes \cup Ends \cup {NoOp, [call |-> "create"]}]
        /\ snapshot \in [Actors -> SUBSET Bits] /\ again \in [Actors -> BOOLEAN]
        /\ batch \in [Actors -> SUBSET (Threads \X (1 .. MaxCalls))]
    BY DEF Places
  <2> QED
    BY <2>1, <2>2, <2>3 DEF TypeOK, WaitPlaces
<1>2. Shape
  BY <1>0, <1>1 DEF Shape, WaitPlaces, Ending
<1>3. Records /\ AnswerIsTrue /\ DestroysItsOwn
  BY <1>0 DEF Records, AnswerIsTrue, DestroysItsOwn, Ending
<1>4. OwnInv
  <2> SUFFICES ASSUME KeepsToItsOwn, NEW t \in Threads, Owner[t] \in setup.exits
               PROVE  OwnWaiters!(t)
    BY DEF OwnInv, OwnWaiters
  <2>1. \A o \in setup.ops[t] : o.call = "wait" => used[o.g] /\ owner[o.g] = Owner[t]
    <3> SUFFICES ASSUME NEW o \in setup.ops[t], o.call = "wait"
                 PROVE  used[o.g] /\ owner[o.g] = Owner[t]
      OBVIOUS
    <3>1. o.g \in Groups
      BY <1>0, OpTypes DEF Waits
    <3>2. setup.open[o.g] = Owner[t] /\ Owner[t] \in Procs /\ Owner[t] # None
      BY DEF KeepsToItsOwn
    <3> QED
      BY <1>0, <3>1, <3>2
  <2>2. linked[t] = None
    BY <1>0
  <2> QED
    BY <2>1, <2>2
<1>5. EmptyInv /\ MatchInv
  BY <1>0 DEF EmptyInv, MatchInv, DeadGroupsAreEmpty, DestroyedStaysClosed, MatchesAreFound, WantsSomething
<1> QED
  BY <1>2, <1>3, <1>4, <1>5 DEF EventInv, RecordInv

(* Moves a record does not depend on: of a waiter after it has linked, of  *)
(* a thread that is not waiting, the death of any thread.                  *)
Steady(t) ==
    \/ pc'[t] = pc[t]
    \/ pc[t] \in WaitPlaces \ {"link"} /\ pc'[t] \in WaitPlaces \ {"link"}
    \/ pc'[t] \in {"killed", "gone"}
    \/ op[t].call # "wait" /\ pc'[t] \notin WaitPlaces
SteadyProc(p) == op'[p] = op[p] /\ (pc'[p] \in Ending => pc[p] \in Ending)

(* Records and answers stay as they are while threads only move on in      *)
(* calls whose record is not touched.                                      *)
LEMMA RecordsStay ==
    ASSUME RecordInv, Shape', UNCHANGED <<linked, signaled, result, result_flags, calls, returned>>,
           \A t \in Threads : op'[t] = op[t] /\ Steady(t), \A a \in Actors : batch'[a] \subseteq batch[a]
    PROVE  Records' /\ AnswerIsTrue'
<1>0. \A t \in Threads : op[t] \in Waits => op[t].call = "wait"
  BY DEF Waits
<1>m. \A t \in Threads : \A f : Matches(f, t) <=> Matches(f, t)'
  BY DEF Matches
<1>1. Records'
  <2> SUFFICES ASSUME NEW t \in Threads PROVE Records!(t)'
    BY DEF Records
  <2>1. Matches(result_flags[t], t) => Matches(result_flags[t], t)'
    BY DEF Matches
  <2>2. Records!(t)
    BY DEF RecordInv, Records
  <2> QED
    BY <1>0, <2>1, <2>2 DEF Steady, WaitPlaces
<1>2. AnswerIsTrue'
  BY DEF RecordInv, Records, AnswerIsTrue, Steady, WaitPlaces, Matches
<1> QED
  BY <1>1, <1>2

(* Who destroys what does not change while owners and ends do not.         *)
LEMMA DestroysStay ==
    ASSUME RecordInv, UNCHANGED <<used, owner, setup>>, \A p \in Procs : SteadyProc(p)
    PROVE  DestroysItsOwn'
BY DEF RecordInv, DestroysItsOwn, SteadyProc, OnlyItsEndDestroys

(* The variables no place depends on.                                      *)
DataTypes ==
    /\ used \in [Groups -> BOOLEAN] /\ poisoned \in [Groups -> BOOLEAN]
    /\ owner \in [Groups -> Procs \cup {None}] /\ flags \in [Groups -> SUBSET Bits]
    /\ linked \in [Threads -> Groups \cup {None}] /\ signaled \in [Threads -> BOOLEAN]
    /\ result \in [Threads -> {"OK", "TIMEOUT", "CANCELLED"}]
    /\ result_flags \in [Threads -> SUBSET Bits]
    /\ state \in [Threads -> {"RUNNING", "BLOCKED", "READY"}]
    /\ wait_result \in [Threads -> {"OK", "TIMEOUT"}] /\ armed \subseteq Threads
    /\ snapshot \in [Actors -> SUBSET Bits] /\ again \in [Actors -> BOOLEAN]
    /\ batch \in [Actors -> SUBSET (Threads \X (1 .. MaxCalls))]
    /\ returned \in [Threads -> [result : {"none", "OK", "TIMEOUT", "CANCELLED"}, flags : SUBSET Bits]]

(* The types of everything but the places of the actors.                   *)
LEMMA HasDataTypes == RecordInv => DataTypes
BY DEF RecordInv, Shape, TypeOK, DataTypes

(* A step of one actor inside its call, or out of it.                      *)
Moves(a, to) ==
    /\ pc' = [pc EXCEPT ![a] = to] /\ UNCHANGED <<op, calls, setup>>
    /\ \/ a \in Threads /\ pc[a] \in WaitPlaces /\ to \in WaitPlaces \cup {"out"}
       \/ pc[a] \in {"apply", "mark"} /\ to \in {"collect", Done(a)}
       \/ pc[a] \in {"collect", "wake"} /\ to \in {"wake", "collect", Done(a)}
       \/ pc[a] = "wake" /\ to = "free" /\ op[a].call = "destroy"
       \/ pc[a] \in {"free", "reset", "create"} /\ to = Done(a)

(* An actor that goes from one place of its call to the next keeps the     *)
(* shape of all calls.                                                     *)
LEMMA MoveShape ==
    ASSUME RecordInv, NEW a \in Actors, NEW to, Moves(a, to), DataTypes'
    PROVE  /\ Shape' /\ pc'[a] = to /\ \A x \in Actors \ {a} : pc'[x] = pc[x]
           /\ \A p \in Procs : SteadyProc(p)
           /\ (pc[a] \in WaitPlaces => pc[a] # "link" /\ to \in WaitPlaces \ {"link"}) =>
                 \A t \in Threads : op'[t] = op[t] /\ Steady(t)
<1> USE EventAssumption DEF Actors
<1>1. to \in Places
  BY DEF Moves, WaitPlaces, Places, Done
<1>2. /\ pc' \in [Actors -> Places] /\ pc'[a] = to /\ \A x \in Actors \ {a} : pc'[x] = pc[x]
  BY <1>1 DEF Moves, RecordInv, Shape, TypeOK
<1>3. /\ pc[a] \in Places /\ \A t \in Threads : t \notin Procs /\ Owner[t] \in Procs /\ Owner[t] # t
      /\ Shape
  BY DEF RecordInv, Shape, TypeOK
<1>w. \A t \in Threads : pc[t] \in WaitPlaces => op[t] \in Waits
  BY <1>3 DEF Shape, TypeOK
<1>c. /\ \A t \in Threads : pc[t] \in {"apply", "mark", "collect", "wake", "free", "create", "reset"} =>
                              op[t].call # "wait"
      /\ \A x \in Actors : pc[x] \in {"apply", "mark", "collect", "wake", "free"} =>
                              op[x] \in Changes \cup Ends
      /\ \A x \in Actors : op[x] \in Changes => op[x].call # "destroy"
  BY <1>3 DEF Shape, TypeOK, Changes, Ends
<1>4. /\ pc'[a] \in WaitPlaces => a \in Threads /\ op[a] \in Waits /\ calls[a] # 0
      /\ pc'[a] \in {"collect", "wake", "free"} => op[a] \in Changes \cup Ends
      /\ pc'[a] = "free" => op[a] \in Ends /\ op[a].call = "destroy"
      /\ pc'[a] \in WaitPlaces \cup {"out", "collect", "wake", "free", "scan"}
      /\ a \in Threads => pc[Owner[a]] = "out" /\ pc'[a] # "scan"
      /\ a \in Procs => pc'[a] \in {"collect", "wake", "free", "scan"} /\ pc[a] \in Ending
      /\ pc[a] \notin {"killed", "gone", "out"}
  BY <1>2, <1>3, <1>w, <1>c DEF Moves, Shape, WaitPlaces, Done, Ending
<1>5. TypeOK'
  <2>1. op' = op /\ calls' = calls
    BY DEF Moves
  <2>2. \A x \in Threads : pc'[x] \in WaitPlaces => op'[x] \in Waits
    BY <1>2, <1>3, <1>4, <2>1 DEF Shape, TypeOK
  <2>3. \A x \in Actors : pc'[x] \in {"apply", "mark", "collect", "wake", "free"} =>
                              op'[x] \in Changes \cup Ends
    BY <1>2, <1>3, <1>4, <2>1 DEF Shape, TypeOK, WaitPlaces
  <2> QED
    BY <1>2, <1>3, <2>1, <2>2, <2>3 DEF Shape, TypeOK, DataTypes
<1>6. Shape'
  <2>0. op' = op /\ calls' = calls /\ setup' = setup
    BY DEF Moves
  <2>1. CASE a \in Threads
    BY <1>2, <1>3, <1>4, <1>5, <2>0, <2>1 DEF Shape, WaitPlaces, Ending
  <2>2. CASE a \in Procs
    <3>1. \A t \in Threads : pc'[t] = pc[t] /\ (pc'[Owner[t]] # pc[Owner[t]] => pc[t] \in {"killed", "gone"})
      BY <1>2, <1>3, <1>4, <2>2 DEF Shape
    <3>2. \A p \in Procs : /\ pc'[p] \in Ending \cup {"out", "scan", "reap", "gone"}
                           /\ pc'[p] # "out" => p \in setup.exits
                           /\ pc'[p] \in Ending => op[p].call = "destroy"
      BY <1>2, <1>3, <1>4, <2>2 DEF Shape, Ending
    <3>3. \A t \in Threads : pc'[Owner[t]] = "out" \/ pc[t] \in {"killed", "gone"}
      BY <1>2, <1>3, <3>1 DEF Shape
    <3>4. \A t \in Threads : pc[t] = "gone" => pc'[Owner[t]] = "gone"
      BY <1>2, <1>3, <1>4 DEF Shape
    <3> QED
      BY <1>2, <1>3, <1>4, <1>5, <2>0, <2>2, <3>1, <3>2, <3>3, <3>4 DEF Shape, WaitPlaces
  <2> QED
    BY <2>1, <2>2
<1>7. \A p \in Procs : SteadyProc(p)
  BY <1>2, <1>3, <1>4 DEF SteadyProc, Moves, Ending
<1>8. ASSUME pc[a] \in WaitPlaces => pc[a] # "link" /\ to \in WaitPlaces \ {"link"}
      PROVE  \A t \in Threads : op'[t] = op[t] /\ Steady(t)
  BY <1>2, <1>3, <1>4, <1>c, <1>8 DEF Steady, Moves, WaitPlaces, Done
<1> QED
  BY <1>2, <1>6, <1>7, <1>8

(* wait_prepare.                                                           *)
LEMMA PrepareRecords ==
    ASSUME RecordInv, NEW t \in Threads, Prepare(t)
    PROVE  RecordInv'
<1> USE EventAssumption DEF Actors, group, record, sched, pass
<1> DEFINE to == pc'[t]
<1>0. /\ Moves(t, to) /\ pc[t] = "prepare" /\ UNCHANGED <<linked, signaled, result, result_flags, calls, returned, used, owner>>
      /\ \A x \in Actors : batch'[x] \subseteq batch[x] /\ to = "recheck"
  BY DEF Prepare, Goto, Moves, RecordInv, Shape, TypeOK, WaitPlaces
<1>1. DataTypes'
  <2>1. /\ state' \in {state, [state EXCEPT ![t] = "BLOCKED"]}
        /\ wait_result' \in {[wait_result EXCEPT ![t] = "OK"], [wait_result EXCEPT ![t] = "TIMEOUT"]}
        /\ armed' \in {armed, armed \cup {t}}
        /\ UNCHANGED <<group, record, pass, returned>>
    BY DEF Prepare
  <2>2. /\ state' \in [Threads -> {"RUNNING", "BLOCKED", "READY"}]
        /\ wait_result' \in [Threads -> {"OK", "TIMEOUT"}] /\ armed' \subseteq Threads
    BY <2>1, HasDataTypes DEF DataTypes
  <2> QED
    BY <2>1, <2>2, HasDataTypes DEF DataTypes
<1> HIDE DEF to
<1>2. Shape'
  BY <1>0, <1>1, MoveShape
<1>3. Records' /\ AnswerIsTrue'
  BY <1>0, <1>1, <1>2, MoveShape, RecordsStay DEF WaitPlaces
<1>4. DestroysItsOwn'
  BY <1>0, <1>1, MoveShape, DestroysStay DEF Moves
<1> QED
  BY <1>2, <1>3, <1>4 DEF RecordInv

(* A thread that was woken runs.                                           *)
LEMMA DispatchRecords ==
    ASSUME RecordInv, NEW t \in Threads, Dispatch(t)
    PROVE  RecordInv'
<1> USE EventAssumption DEF Actors, group, record, sched, pass
<1> DEFINE to == pc'[t]
<1>0. /\ Moves(t, to) /\ pc[t] = "asleep" /\ UNCHANGED <<linked, signaled, result, result_flags, calls, returned, used, owner>>
      /\ \A x \in Actors : batch'[x] \subseteq batch[x] /\ to = "finish"
  BY DEF Dispatch, Goto, Moves, RecordInv, Shape, TypeOK, WaitPlaces
<1>1. DataTypes'
  BY <1>0, HasDataTypes DEF DataTypes, Dispatch
<1> HIDE DEF to
<1>2. Shape'
  BY <1>0, <1>1, MoveShape
<1>3. Records' /\ AnswerIsTrue'
  BY <1>0, <1>1, <1>2, MoveShape, RecordsStay DEF WaitPlaces
<1>4. DestroysItsOwn'
  BY <1>0, <1>1, MoveShape, DestroysStay DEF Moves
<1> QED
  BY <1>2, <1>3, <1>4 DEF RecordInv

(* mutate_and_wake: the flags change, the snapshot is taken.               *)
LEMMA ApplyRecords ==
    ASSUME RecordInv, NEW a \in Actors, Apply(a)
    PROVE  RecordInv'
<1> USE EventAssumption DEF Actors, group, record, sched, pass
<1> DEFINE to == pc'[a]
<1>0. /\ Moves(a, to) /\ pc[a] = "apply" /\ UNCHANGED <<linked, signaled, result, result_flags, calls, returned, used, owner>>
      /\ \A x \in Actors : batch'[x] \subseteq batch[x]
  BY DEF Apply, Goto, Moves, RecordInv, Shape, TypeOK, WaitPlaces
<1>1. DataTypes'
  <2>1. op[a].g \in Groups /\ op[a].bits \subseteq Bits
    BY <1>0 DEF RecordInv, Shape, Changes
  <2>2. Applied(op[a]) \subseteq Bits
    BY <2>1, HasDataTypes DEF DataTypes, Applied
  <2>3. /\ snapshot' \in {snapshot, [snapshot EXCEPT ![a] = Applied(op[a])]}
        /\ flags' = flags \/ \E f \in {flags[op[a].g] \ op[a].bits, Applied(op[a])} : flags' = [flags EXCEPT ![op[a].g] = f]
        /\ UNCHANGED <<used, poisoned, owner, record, sched, batch, again, returned>>
    BY DEF Apply
  <2>4. flags' \in [Groups -> SUBSET Bits] /\ snapshot' \in [Actors -> SUBSET Bits]
    BY SMTT(30), <2>1, <2>2, <2>3, HasDataTypes DEF DataTypes
  <2> QED
    BY <2>3, <2>4, HasDataTypes DEF DataTypes
<1> HIDE DEF to
<1>2. Shape'
  BY <1>0, <1>1, MoveShape
<1>3. Records' /\ AnswerIsTrue'
  BY <1>0, <1>1, <1>2, MoveShape, RecordsStay DEF WaitPlaces
<1>4. DestroysItsOwn'
  BY <1>0, <1>1, MoveShape, DestroysStay DEF Moves
<1> QED
  BY <1>2, <1>3, <1>4 DEF RecordInv

(* The group is poisoned.                                                  *)
LEMMA MarkRecords ==
    ASSUME RecordInv, NEW a \in Actors, Mark(a)
    PROVE  RecordInv'
<1> USE EventAssumption DEF Actors, group, record, sched, pass
<1> DEFINE to == pc'[a]
<1>0. /\ Moves(a, to) /\ pc[a] = "mark" /\ UNCHANGED <<linked, signaled, result, result_flags, calls, returned, used, owner>>
      /\ \A x \in Actors : batch'[x] \subseteq batch[x]
  BY DEF Mark, Goto, Moves, RecordInv, Shape, TypeOK, WaitPlaces
<1>1. DataTypes'
  <2>1. op[a].g \in Groups
    BY <1>0 DEF RecordInv, Shape, Ends
  <2>3. /\ snapshot' \in {snapshot, [snapshot EXCEPT ![a] = flags[op[a].g]]}
        /\ poisoned' \in {poisoned, [poisoned EXCEPT ![op[a].g] = TRUE]}
        /\ UNCHANGED <<used, owner, flags, record, sched, batch, again, returned>>
    BY DEF Mark
  <2>4. poisoned' \in [Groups -> BOOLEAN]
    BY <2>1, <2>3, HasDataTypes DEF DataTypes
  <2>5. snapshot' \in [Actors -> SUBSET Bits]
    <3>1. flags[op[a].g] \in SUBSET Bits /\ snapshot \in [Actors -> SUBSET Bits]
      BY <2>1, HasDataTypes DEF DataTypes
    <3> QED
      BY <2>3, <3>1
  <2> QED
    BY <2>3, <2>4, <2>5, HasDataTypes DEF DataTypes
<1> HIDE DEF to
<1>2. Shape'
  BY <1>0, <1>1, MoveShape
<1>3. Records' /\ AnswerIsTrue'
  BY <1>0, <1>1, <1>2, MoveShape, RecordsStay DEF WaitPlaces
<1>4. DestroysItsOwn'
  BY <1>0, <1>1, MoveShape, DestroysStay DEF Moves
<1> QED
  BY <1>2, <1>3, <1>4 DEF RecordInv

(* wait_queue_wake_all of one record of the batch.                         *)
LEMMA WakeRecords ==
    ASSUME RecordInv, NEW a \in Actors, Wake(a)
    PROVE  RecordInv'
<1> USE EventAssumption DEF Actors, group, record, sched, pass
<1>e. PICK e \in batch[a] : Wake(a)!(e)
  BY DEF Wake
<1> DEFINE to == pc'[a]
<1>0. /\ Moves(a, to) /\ pc[a] = "wake" /\ UNCHANGED <<linked, signaled, result, result_flags, calls, returned, used, owner>>
      /\ \A x \in Actors : batch'[x] \subseteq batch[x]
  BY <1>e DEF Goto, Moves, RecordInv, Shape, TypeOK, WaitPlaces
<1>1. DataTypes'
  <2>1. e[1] \in Threads
    BY DEF RecordInv, Shape, TypeOK
  <2>2. /\ state' \in {state, [state EXCEPT ![e[1]] = "READY"]} /\ armed' \subseteq armed
        /\ wait_result' \in {wait_result, [wait_result EXCEPT ![e[1]] = "OK"]}
        /\ batch' = [batch EXCEPT ![a] = batch[a] \ {e}]
        /\ UNCHANGED <<group, record, snapshot, again, returned>>
    BY <1>e DEF RecordInv, Shape, TypeOK
  <2>3. /\ state' \in [Threads -> {"RUNNING", "BLOCKED", "READY"}]
        /\ wait_result' \in [Threads -> {"OK", "TIMEOUT"}] /\ armed' \subseteq Threads
    BY <2>1, <2>2, HasDataTypes DEF DataTypes
  <2>4. batch' \in [Actors -> SUBSET (Threads \X (1 .. MaxCalls))]
    BY <2>2, HasDataTypes DEF DataTypes
  <2> QED
    BY <2>2, <2>3, <2>4, HasDataTypes DEF DataTypes
<1> HIDE DEF to
<1>2. Shape'
  BY <1>0, <1>1, MoveShape
<1>3. Records' /\ AnswerIsTrue'
  BY <1>0, <1>1, <1>2, MoveShape, RecordsStay DEF WaitPlaces
<1>4. DestroysItsOwn'
  BY <1>0, <1>1, MoveShape, DestroysStay DEF Moves
<1> QED
  BY <1>2, <1>3, <1>4 DEF RecordInv

(* The pass goes on or ends.                                               *)
LEMMA WakeDoneRecords ==
    ASSUME RecordInv, NEW a \in Actors, WakeDone(a)
    PROVE  RecordInv'
<1> USE EventAssumption DEF Actors, group, record, sched, pass
<1> DEFINE to == pc'[a]
<1>0. /\ Moves(a, to) /\ pc[a] = "wake" /\ UNCHANGED <<linked, signaled, result, result_flags, calls, returned, used, owner>>
      /\ \A x \in Actors : batch'[x] \subseteq batch[x]
  BY DEF WakeDone, Goto, Moves, RecordInv, Shape, TypeOK, WaitPlaces, After, Cancels, Ending
<1>1. DataTypes'
  BY <1>0, HasDataTypes DEF DataTypes, WakeDone
<1> HIDE DEF to
<1>2. Shape'
  BY <1>0, <1>1, MoveShape
<1>3. Records' /\ AnswerIsTrue'
  BY <1>0, <1>1, <1>2, MoveShape, RecordsStay DEF WaitPlaces
<1>4. DestroysItsOwn'
  BY <1>0, <1>1, MoveShape, DestroysStay DEF Moves
<1> QED
  BY <1>2, <1>3, <1>4 DEF RecordInv

(* event_group_reset.                                                      *)
LEMMA ResetRecords ==
    ASSUME RecordInv, NEW t \in Threads, Reset(t)
    PROVE  RecordInv'
<1> USE EventAssumption DEF Actors, group, record, sched, pass
<1> DEFINE to == pc'[t]
<1>0. /\ Moves(t, to) /\ pc[t] = "reset" /\ UNCHANGED <<linked, signaled, result, result_flags, calls, returned, used, owner>>
      /\ \A x \in Actors : batch'[x] \subseteq batch[x]
  BY DEF Reset, Goto, Moves, RecordInv, Shape, TypeOK, WaitPlaces, Done
<1>1. DataTypes'
  BY ZenonT(30), <1>0, HasDataTypes DEF DataTypes, Reset
<1> HIDE DEF to
<1>2. Shape'
  BY <1>0, <1>1, MoveShape
<1>3. Records' /\ AnswerIsTrue'
  BY <1>0, <1>1, <1>2, MoveShape, RecordsStay DEF WaitPlaces
<1>4. DestroysItsOwn'
  BY <1>0, <1>1, MoveShape, DestroysStay DEF Moves
<1> QED
  BY <1>2, <1>3, <1>4 DEF RecordInv

(* The slot is free again.                                                 *)
LEMMA FreeRecords ==
    ASSUME RecordInv, NEW a \in Actors, Free(a)
    PROVE  RecordInv'
<1> USE EventAssumption DEF Actors, group, record, sched, pass
<1> DEFINE to == pc'[a]
<1>0. /\ Moves(a, to) /\ pc[a] = "free" /\ UNCHANGED <<linked, signaled, result, result_flags, calls, returned>>
      /\ \A x \in Actors : batch'[x] \subseteq batch[x]
  BY DEF Free, Goto, Moves, RecordInv, Shape, TypeOK, WaitPlaces, Done
<1>1. DataTypes'
  <2>1. op[a].g \in Groups
    BY <1>0 DEF RecordInv, Shape, Ends
  <2> QED
    BY <2>1, HasDataTypes DEF DataTypes, Free
<1> HIDE DEF to
<1>2. Shape'
  BY <1>0, <1>1, MoveShape
<1>3. Records' /\ AnswerIsTrue'
  BY <1>0, <1>1, <1>2, MoveShape, RecordsStay DEF WaitPlaces
<1>4. DestroysItsOwn'
  <2>1. /\ op[a] \in Ends /\ op[a].call = "destroy" /\ op' = op /\ setup' = setup
        /\ \A g \in Groups \ {op[a].g} : used'[g] = used[g] /\ owner'[g] = owner[g]
    <3>1. op[a] \in Ends /\ op[a].call = "destroy" /\ op' = op /\ setup' = setup
      BY <1>0 DEF RecordInv, Shape, Moves
    <3> QED
      BY <3>1, HasDataTypes DEF Free, DataTypes
  <2>2. \A p \in Procs : pc'[p] \in Ending => p # a /\ pc[p] \in Ending /\ op[p].g \in Groups
    <3>1. \A p \in Procs : pc'[p] \in Ending => pc[p] \in Ending
      BY <1>0, <1>1, MoveShape DEF SteadyProc
    <3>2. a \in Procs => pc'[a] = "scan"
      BY DEF Free, Goto, Done, RecordInv, Shape, TypeOK
    <3>3. \A p \in Procs : pc[p] \in Ending => op[p] \in Changes \cup Ends
      BY DEF RecordInv, Shape, TypeOK, Ending
    <3> QED
      BY <3>1, <3>2, <3>3 DEF Ending, Changes, Ends
  <2>3. ASSUME NEW p \in Procs, pc'[p] \in Ending, OnlyItsEndDestroys(op[p].g) PROVE op[p].g # op[a].g
    <3>1. CASE a \in Threads
      <4>1. op[a] \in setup.ops[a]
        BY <2>1, <3>1 DEF RecordInv, Shape, NoOp
      <4> QED
        BY <2>1, <2>3, <3>1, <4>1 DEF OnlyItsEndDestroys
    <3>2. CASE a \in Procs
      BY <1>0, <2>2, <2>3, <3>2 DEF RecordInv, DestroysItsOwn, Ending
    <3> QED
      BY <3>1, <3>2
  <2> QED
    BY <2>1, <2>2, <2>3 DEF RecordInv, DestroysItsOwn, OnlyItsEndDestroys
<1> QED
  BY <1>2, <1>3, <1>4 DEF RecordInv

(* event_group_create takes a slot nobody uses.                            *)
LEMMA CreateRecords ==
    ASSUME RecordInv, NEW t \in Threads, Create(t)
    PROVE  RecordInv'
<1> USE EventAssumption DEF Actors, group, record, sched, pass
<1> DEFINE to == pc'[t]
<1>0. /\ Moves(t, to) /\ pc[t] = "create" /\ UNCHANGED <<linked, signaled, result, result_flags, calls, returned>>
      /\ \A x \in Actors : batch'[x] \subseteq batch[x]
  BY DEF Create, Goto, Moves, RecordInv, Shape, TypeOK, WaitPlaces, Done
<1>1. DataTypes'
  <2>0. Owner[t] \in Procs
    OBVIOUS
  <2>1. CASE UNCHANGED group
    BY <2>1, HasDataTypes DEF DataTypes, Create
  <2>2. CASE ~UNCHANGED group
    <3>1. PICK g \in Groups :
            /\ used' = [used EXCEPT ![g] = TRUE]
            /\ flags' = [flags EXCEPT ![g] = {}] /\ poisoned' = [poisoned EXCEPT ![g] = FALSE]
            /\ owner' = [owner EXCEPT ![g] = Owner[t]]
      BY <2>2 DEF Create
    <3> QED
      BY <2>0, <3>1, HasDataTypes DEF DataTypes, Create
  <2> QED
    BY <2>1, <2>2
<1> HIDE DEF to
<1>2. Shape'
  BY <1>0, <1>1, MoveShape
<1>3. Records' /\ AnswerIsTrue'
  BY <1>0, <1>1, <1>2, MoveShape, RecordsStay DEF WaitPlaces
<1>4. DestroysItsOwn'
  <2>1. \A g \in Groups : used[g] => used'[g] /\ owner'[g] = owner[g]
    BY HasDataTypes DEF Create, DataTypes
  <2>2. \A p \in Procs : pc'[p] \in Ending => pc[p] \in Ending /\ op'[p] = op[p] /\ op[p].g \in Groups
    <3>1. \A p \in Procs : pc'[p] \in Ending => pc[p] \in Ending /\ op'[p] = op[p]
      BY <1>0, <1>1, MoveShape DEF SteadyProc
    <3>3. \A p \in Procs : pc[p] \in Ending => op[p] \in Changes \cup Ends
      BY DEF RecordInv, Shape, TypeOK, Ending
    <3> QED
      BY <3>1, <3>3 DEF Ending, Changes, Ends
  <2> QED
    BY <1>0, <2>1, <2>2 DEF RecordInv, DestroysItsOwn, OnlyItsEndDestroys, Moves
<1> QED
  BY <1>2, <1>3, <1>4 DEF RecordInv

(* A wait that returns what the record says, if somebody has decided it,   *)
(* and reports only flags it waited for.                                   *)
LEMMA ReturnKeeps ==
    ASSUME RecordInv, Shape', NEW t \in Threads, NEW r, NEW f,
           pc'[t] = "out", \A x \in Threads \ {t} : pc'[x] = pc[x],
           linked'[t] = None, \A x \in Threads \ {t} : linked'[x] = linked[x],
           UNCHANGED <<signaled, result, result_flags, calls, op, batch>>,
           returned' = [returned EXCEPT ![t] = [result |-> r, flags |-> f]],
           signaled[t] => r = result[t] /\ f = result_flags[t],
           r = "OK" => Matches(f, t)
    PROVE  Records' /\ AnswerIsTrue'
<1> USE EventAssumption DEF Actors
<1>1. /\ returned'[t] = [result |-> r, flags |-> f]
      /\ \A x \in Threads \ {t} : returned'[x] = returned[x]
  BY DEF RecordInv, Shape, TypeOK
<1>2. Records'
  <2> SUFFICES ASSUME NEW x \in Threads PROVE Records!(x)'
    BY DEF Records
  <2>1. Matches(result_flags[x], x) => Matches(result_flags[x], x)'
    BY DEF Matches
  <2>2. Records!(x)
    BY DEF RecordInv, Records
  <2>3. CASE x = t
    BY <1>1, <2>1, <2>2, <2>3 DEF WaitPlaces
  <2>4. CASE x # t
    BY <1>1, <2>1, <2>2, <2>4
  <2> QED
    BY <2>3, <2>4
<1>3. AnswerIsTrue'
  <2> SUFFICES ASSUME NEW x \in Threads, pc'[x] = "out", op[x].call = "wait", returned'[x].result = "OK"
               PROVE  Matches(returned[x].flags, x)'
    BY DEF AnswerIsTrue
  <2>1. CASE x = t
    BY <1>1, <2>1 DEF Matches
  <2>2. CASE x # t
    BY <1>1, <2>2 DEF RecordInv, AnswerIsTrue, Matches
  <2> QED
    BY <2>1, <2>2
<1> QED
  BY <1>2, <1>3

(* What a wait returns is well typed.                                      *)
LEMMA ReturnTypes ==
    ASSUME RecordInv, NEW t \in Threads, NEW r \in {"OK", "TIMEOUT", "CANCELLED"}, NEW f \in SUBSET Bits,
           returned' = [returned EXCEPT ![t] = [result |-> r, flags |-> f]]
    PROVE  returned' \in [Threads -> [result : {"none", "OK", "TIMEOUT", "CANCELLED"}, flags : SUBSET Bits]]
BY HasDataTypes DEF DataTypes

(* The group is dead or as wanted, or the record joins its list.           *)
LEMMA LinkRecords ==
    ASSUME RecordInv, NEW t \in Threads, Link(t)
    PROVE  RecordInv'
<1> USE EventAssumption DEF Actors, group, record, sched, pass
<1>0. /\ Moves(t, pc'[t]) /\ pc[t] = "link"
      /\ UNCHANGED <<group, signaled, result, result_flags, op, calls, pass, setup>>
  BY DEF Link, Return, Goto, Moves, RecordInv, Shape, TypeOK, WaitPlaces
<1>d. ASSUME DataTypes', Records' /\ AnswerIsTrue' PROVE RecordInv'
  <2>1. Shape' /\ DestroysItsOwn'
    BY <1>0, <1>d, MoveShape, DestroysStay
  <2> QED
    BY <1>d, <2>1 DEF RecordInv
<1>w. /\ op[t] \in Waits /\ op[t].g \in Groups /\ flags[op[t].g] \in SUBSET Bits
      /\ result[t] \in {"OK", "TIMEOUT", "CANCELLED"} /\ result_flags[t] \in SUBSET Bits
      /\ linked[t] # None => ~signaled[t]
      /\ linked[t] # None => pc[t] # "link"
      /\ signaled[t] => result[t] # "TIMEOUT" /\ (result[t] = "OK" => Matches(result_flags[t], t))
  <2>1. op[t] \in Waits
    BY <1>0 DEF RecordInv, Shape, TypeOK, WaitPlaces
  <2>2. op[t].g \in Groups
    BY <2>1 DEF Waits
  <2>3. /\ flags[op[t].g] \in SUBSET Bits /\ result_flags[t] \in SUBSET Bits
        /\ result[t] \in {"OK", "TIMEOUT", "CANCELLED"}
    BY <2>2, HasDataTypes DEF DataTypes
  <2>4. Records!(t)
    BY DEF RecordInv, Records
  <2> QED
    BY <2>1, <2>2, <2>3, <2>4 DEF WaitPlaces
<1>s. /\ state' \in [Threads -> {"RUNNING", "BLOCKED", "READY"}]
      /\ wait_result' \in [Threads -> {"OK", "TIMEOUT"}] /\ armed' \subseteq Threads
  BY HasDataTypes DEF DataTypes, Link
<1>1. ASSUME ~signaled[t], Return(t, pc[t], "TIMEOUT", {}), linked' = linked PROVE RecordInv'
  <2>1. /\ pc'[t] = "out" /\ \A x \in Actors \ {t} : pc'[x] = pc[x]
        /\ returned' = [returned EXCEPT ![t] = [result |-> "TIMEOUT", flags |-> {}]]
    BY <1>1 DEF Return, Goto, RecordInv, Shape, TypeOK
  <2>2. returned' \in [Threads -> [result : {"none", "OK", "TIMEOUT", "CANCELLED"}, flags : SUBSET Bits]]
    BY <1>w, <2>1, ReturnTypes
  <2>3. linked'[t] = None /\ (\A x \in Threads \ {t} : linked'[x] = linked[x])
        /\ linked' \in [Threads -> Groups \cup {None}]
    BY <1>0, <1>w, <1>1, HasDataTypes DEF DataTypes
  <2>4. DataTypes'
    BY <1>0, <2>2, <2>3, <1>s, HasDataTypes DEF DataTypes
  <2>5. Shape'
    BY <1>0, <2>4, MoveShape
  <2>r. /\ signaled[t] => "TIMEOUT" = result[t] /\ {} = result_flags[t]
        /\ "TIMEOUT" = "OK" => Matches({}, t)
    BY <1>w, <1>1
  <2>6. Records' /\ AnswerIsTrue'
    BY <1>0, <2>1, <2>3, <2>5, <2>r, ReturnKeeps
  <2> QED
    BY <1>d, <2>4, <2>6
<1>2. ASSUME ~signaled[t], Return(t, pc[t], "CANCELLED", flags[op[t].g]), linked' = linked PROVE RecordInv'
  <2>1. /\ pc'[t] = "out" /\ \A x \in Actors \ {t} : pc'[x] = pc[x]
        /\ returned' = [returned EXCEPT ![t] = [result |-> "CANCELLED", flags |-> flags[op[t].g]]]
    BY <1>2 DEF Return, Goto, RecordInv, Shape, TypeOK
  <2>2. returned' \in [Threads -> [result : {"none", "OK", "TIMEOUT", "CANCELLED"}, flags : SUBSET Bits]]
    BY <1>w, <2>1, ReturnTypes
  <2>3. linked'[t] = None /\ (\A x \in Threads \ {t} : linked'[x] = linked[x])
        /\ linked' \in [Threads -> Groups \cup {None}]
    BY <1>0, <1>w, <1>2, HasDataTypes DEF DataTypes
  <2>4. DataTypes'
    BY <1>0, <2>2, <2>3, <1>s, HasDataTypes DEF DataTypes
  <2>5. Shape'
    BY <1>0, <2>4, MoveShape
  <2>r. /\ signaled[t] => "CANCELLED" = result[t] /\ flags[op[t].g] = result_flags[t]
        /\ "CANCELLED" = "OK" => Matches(flags[op[t].g], t)
    BY <1>w, <1>2
  <2>6. Records' /\ AnswerIsTrue'
    BY <1>0, <2>1, <2>3, <2>5, <2>r, ReturnKeeps
  <2> QED
    BY <1>d, <2>4, <2>6
<1>3. ASSUME ~signaled[t], Matches(flags[op[t].g], t), Return(t, pc[t], "OK", flags[op[t].g]), linked' = linked PROVE RecordInv'
  <2>1. /\ pc'[t] = "out" /\ \A x \in Actors \ {t} : pc'[x] = pc[x]
        /\ returned' = [returned EXCEPT ![t] = [result |-> "OK", flags |-> flags[op[t].g]]]
    BY <1>3 DEF Return, Goto, RecordInv, Shape, TypeOK
  <2>2. returned' \in [Threads -> [result : {"none", "OK", "TIMEOUT", "CANCELLED"}, flags : SUBSET Bits]]
    BY <1>w, <2>1, ReturnTypes
  <2>3. linked'[t] = None /\ (\A x \in Threads \ {t} : linked'[x] = linked[x])
        /\ linked' \in [Threads -> Groups \cup {None}]
    BY <1>0, <1>w, <1>3, HasDataTypes DEF DataTypes
  <2>4. DataTypes'
    BY <1>0, <2>2, <2>3, <1>s, HasDataTypes DEF DataTypes
  <2>5. Shape'
    BY <1>0, <2>4, MoveShape
  <2>r. /\ signaled[t] => "OK" = result[t] /\ flags[op[t].g] = result_flags[t]
        /\ "OK" = "OK" => Matches(flags[op[t].g], t)
    BY <1>w, <1>3
  <2>6. Records' /\ AnswerIsTrue'
    BY <1>0, <2>1, <2>3, <2>5, <2>r, ReturnKeeps
  <2> QED
    BY <1>d, <2>4, <2>6
<1>4. ASSUME linked' = [linked EXCEPT ![t] = op[t].g], Goto(t, "link", "prepare"), returned' = returned
      PROVE  RecordInv'
  <2>1. /\ pc'[t] = "prepare" /\ \A x \in Actors \ {t} : pc'[x] = pc[x]
        /\ linked'[t] = op[t].g /\ \A x \in Threads \ {t} : linked'[x] = linked[x]
        /\ linked' \in [Threads -> Groups \cup {None}]
    BY <1>w, <1>4, HasDataTypes DEF Goto, DataTypes, RecordInv, Shape, TypeOK
  <2>2. DataTypes'
    BY <1>0, <1>s, <1>4, <2>1, HasDataTypes DEF DataTypes
  <2>3. calls[t] # 0 /\ ~signaled[t]
    BY <1>0 DEF RecordInv, Shape, Records, WaitPlaces
  <2>4. Records'
    <3> SUFFICES ASSUME NEW x \in Threads PROVE Records!(x)'
      BY DEF Records
    <3>1. Matches(result_flags[x], x) => Matches(result_flags[x], x)'
      BY <1>0 DEF Matches
    <3>2. Records!(x)
      BY DEF RecordInv, Records
    <3>3. CASE x = t
      BY <1>0, <1>w, <1>4, <2>1, <2>3, <3>1, <3>2, <3>3 DEF WaitPlaces
    <3>4. CASE x # t
      BY <1>0, <1>4, <2>1, <3>1, <3>2, <3>4
    <3> QED
      BY <3>3, <3>4
  <2>5. AnswerIsTrue'
    BY <1>0, <1>4, <2>1 DEF RecordInv, AnswerIsTrue, Matches
  <2> QED
    BY <1>d, <2>2, <2>4, <2>5
<1>5. ~signaled[t]
  BY <1>0 DEF RecordInv, Records
<1> QED
  BY <1>0, <1>1, <1>2, <1>3, <1>4, <1>5 DEF Link

(* wait_cancel, or to sleep.                                               *)
LEMMA RecheckRecords ==
    ASSUME RecordInv, NEW t \in Threads, Recheck(t)
    PROVE  RecordInv'
<1> USE EventAssumption DEF Actors, group, record, sched, pass
<1>0. /\ Moves(t, pc'[t]) /\ pc[t] = "recheck"
      /\ UNCHANGED <<group, signaled, result, result_flags, op, calls, pass, setup>>
  BY DEF Recheck, Return, Goto, Moves, RecordInv, Shape, TypeOK, WaitPlaces
<1>d. ASSUME DataTypes', Records' /\ AnswerIsTrue' PROVE RecordInv'
  <2>1. Shape' /\ DestroysItsOwn'
    BY <1>0, <1>d, MoveShape, DestroysStay
  <2> QED
    BY <1>d, <2>1 DEF RecordInv
<1>w. /\ op[t] \in Waits /\ op[t].g \in Groups /\ flags[op[t].g] \in SUBSET Bits
      /\ result[t] \in {"OK", "TIMEOUT", "CANCELLED"} /\ result_flags[t] \in SUBSET Bits
      /\ linked[t] # None => ~signaled[t]
      /\ linked[t] # None => pc[t] # "link"
      /\ signaled[t] => result[t] # "TIMEOUT" /\ (result[t] = "OK" => Matches(result_flags[t], t))
  <2>1. op[t] \in Waits
    BY <1>0 DEF RecordInv, Shape, TypeOK, WaitPlaces
  <2>2. op[t].g \in Groups
    BY <2>1 DEF Waits
  <2>3. /\ flags[op[t].g] \in SUBSET Bits /\ result_flags[t] \in SUBSET Bits
        /\ result[t] \in {"OK", "TIMEOUT", "CANCELLED"}
    BY <2>2, HasDataTypes DEF DataTypes
  <2>4. Records!(t)
    BY DEF RecordInv, Records
  <2> QED
    BY <2>1, <2>2, <2>3, <2>4 DEF WaitPlaces
<1>s. /\ state' \in [Threads -> {"RUNNING", "BLOCKED", "READY"}]
      /\ wait_result' \in [Threads -> {"OK", "TIMEOUT"}] /\ armed' \subseteq Threads
  BY HasDataTypes DEF DataTypes, Recheck
<1>1. ASSUME signaled[t], Return(t, pc[t], result[t], result_flags[t]), linked' = linked PROVE RecordInv'
  <2>1. /\ pc'[t] = "out" /\ \A x \in Actors \ {t} : pc'[x] = pc[x]
        /\ returned' = [returned EXCEPT ![t] = [result |-> result[t], flags |-> result_flags[t]]]
    BY <1>1 DEF Return, Goto, RecordInv, Shape, TypeOK
  <2>2. returned' \in [Threads -> [result : {"none", "OK", "TIMEOUT", "CANCELLED"}, flags : SUBSET Bits]]
    BY <1>w, <2>1, ReturnTypes
  <2>3. linked'[t] = None /\ (\A x \in Threads \ {t} : linked'[x] = linked[x])
        /\ linked' \in [Threads -> Groups \cup {None}]
    BY <1>0, <1>w, <1>1, HasDataTypes DEF DataTypes
  <2>4. DataTypes'
    BY <1>0, <2>2, <2>3, <1>s, HasDataTypes DEF DataTypes
  <2>5. Shape'
    BY <1>0, <2>4, MoveShape
  <2>r. /\ signaled[t] => result[t] = result[t] /\ result_flags[t] = result_flags[t]
        /\ result[t] = "OK" => Matches(result_flags[t], t)
    BY <1>w, <1>1
  <2>6. Records' /\ AnswerIsTrue'
    BY <1>0, <2>1, <2>3, <2>5, <2>r, ReturnKeeps
  <2> QED
    BY <1>d, <2>4, <2>6
<1>2. ASSUME ~signaled[t], returned' = returned, linked' = linked, pc'[t] \in {"asleep", "finish"} PROVE RecordInv'
  <2>1. DataTypes'
    BY <1>0, <1>s, <1>2, HasDataTypes DEF DataTypes
  <2>2. Shape'
    BY <1>0, <2>1, MoveShape
  <2>3. Records' /\ AnswerIsTrue'
    BY <1>0, <1>2, <2>1, <2>2, MoveShape, RecordsStay DEF WaitPlaces
  <2> QED
    BY <1>d, <2>1, <2>3
<1>3. linked' = linked
  BY DEF Recheck
<1>4. ASSUME ~signaled[t] PROVE returned' = returned /\ pc'[t] \in {"asleep", "finish"}
  BY <1>4 DEF Recheck, Goto, RecordInv, Shape, TypeOK
<1> QED
  BY <1>0, <1>1, <1>2, <1>3, <1>4 DEF Recheck

(* wait_finish: decided, timed out, or to sleep again.                     *)
LEMMA FinishRecords ==
    ASSUME RecordInv, NEW t \in Threads, Finish(t)
    PROVE  RecordInv'
<1> USE EventAssumption DEF Actors, group, record, sched, pass
<1>0. /\ Moves(t, pc'[t]) /\ pc[t] = "finish"
      /\ UNCHANGED <<group, signaled, result, result_flags, op, calls, pass, setup>>
  BY DEF Finish, Return, Goto, Moves, RecordInv, Shape, TypeOK, WaitPlaces
<1>d. ASSUME DataTypes', Records' /\ AnswerIsTrue' PROVE RecordInv'
  <2>1. Shape' /\ DestroysItsOwn'
    BY <1>0, <1>d, MoveShape, DestroysStay
  <2> QED
    BY <1>d, <2>1 DEF RecordInv
<1>w. /\ op[t] \in Waits /\ op[t].g \in Groups /\ flags[op[t].g] \in SUBSET Bits
      /\ result[t] \in {"OK", "TIMEOUT", "CANCELLED"} /\ result_flags[t] \in SUBSET Bits
      /\ linked[t] # None => ~signaled[t]
      /\ linked[t] # None => pc[t] # "link"
      /\ signaled[t] => result[t] # "TIMEOUT" /\ (result[t] = "OK" => Matches(result_flags[t], t))
  <2>1. op[t] \in Waits
    BY <1>0 DEF RecordInv, Shape, TypeOK, WaitPlaces
  <2>2. op[t].g \in Groups
    BY <2>1 DEF Waits
  <2>3. /\ flags[op[t].g] \in SUBSET Bits /\ result_flags[t] \in SUBSET Bits
        /\ result[t] \in {"OK", "TIMEOUT", "CANCELLED"}
    BY <2>2, HasDataTypes DEF DataTypes
  <2>4. Records!(t)
    BY DEF RecordInv, Records
  <2> QED
    BY <2>1, <2>2, <2>3, <2>4 DEF WaitPlaces
<1>s. /\ state' \in [Threads -> {"RUNNING", "BLOCKED", "READY"}]
      /\ wait_result' \in [Threads -> {"OK", "TIMEOUT"}] /\ armed' \subseteq Threads
  BY HasDataTypes DEF DataTypes, Finish
<1>1. ASSUME signaled[t], Return(t, pc[t], result[t], result_flags[t]), linked' = linked PROVE RecordInv'
  <2>1. /\ pc'[t] = "out" /\ \A x \in Actors \ {t} : pc'[x] = pc[x]
        /\ returned' = [returned EXCEPT ![t] = [result |-> result[t], flags |-> result_flags[t]]]
    BY <1>1 DEF Return, Goto, RecordInv, Shape, TypeOK
  <2>2. returned' \in [Threads -> [result : {"none", "OK", "TIMEOUT", "CANCELLED"}, flags : SUBSET Bits]]
    BY <1>w, <2>1, ReturnTypes
  <2>3. linked'[t] = None /\ (\A x \in Threads \ {t} : linked'[x] = linked[x])
        /\ linked' \in [Threads -> Groups \cup {None}]
    BY <1>0, <1>w, <1>1, HasDataTypes DEF DataTypes
  <2>4. DataTypes'
    BY <1>0, <2>2, <2>3, <1>s, HasDataTypes DEF DataTypes
  <2>5. Shape'
    BY <1>0, <2>4, MoveShape
  <2>r. /\ signaled[t] => result[t] = result[t] /\ result_flags[t] = result_flags[t]
        /\ result[t] = "OK" => Matches(result_flags[t], t)
    BY <1>w, <1>1
  <2>6. Records' /\ AnswerIsTrue'
    BY <1>0, <2>1, <2>3, <2>5, <2>r, ReturnKeeps
  <2> QED
    BY <1>d, <2>4, <2>6
<1>2. ASSUME ~signaled[t], returned' = returned, linked' = linked, pc'[t] \in {"unlink", "prepare"} PROVE RecordInv'
  <2>1. DataTypes'
    BY <1>0, <1>s, <1>2, HasDataTypes DEF DataTypes
  <2>2. Shape'
    BY <1>0, <2>1, MoveShape
  <2>3. Records' /\ AnswerIsTrue'
    BY <1>0, <1>2, <2>1, <2>2, MoveShape, RecordsStay DEF WaitPlaces
  <2> QED
    BY <1>d, <2>1, <2>3
<1>3. linked' = linked
  BY DEF Finish
<1>4. ASSUME ~signaled[t] PROVE returned' = returned /\ pc'[t] \in {"unlink", "prepare"}
  BY <1>4 DEF Finish, Goto, RecordInv, Shape, TypeOK
<1> QED
  BY <1>0, <1>1, <1>2, <1>3, <1>4 DEF Finish

(* Timed out, unless decided meanwhile.                                    *)
LEMMA UnlinkRecords ==
    ASSUME RecordInv, NEW t \in Threads, Unlink(t)
    PROVE  RecordInv'
<1> USE EventAssumption DEF Actors, group, record, sched, pass
<1>0. /\ Moves(t, pc'[t]) /\ pc[t] = "unlink"
      /\ UNCHANGED <<group, signaled, result, result_flags, op, calls, pass, setup>>
  BY DEF Unlink, Return, Goto, Moves, RecordInv, Shape, TypeOK, WaitPlaces
<1>d. ASSUME DataTypes', Records' /\ AnswerIsTrue' PROVE RecordInv'
  <2>1. Shape' /\ DestroysItsOwn'
    BY <1>0, <1>d, MoveShape, DestroysStay
  <2> QED
    BY <1>d, <2>1 DEF RecordInv
<1>w. /\ op[t] \in Waits /\ op[t].g \in Groups /\ flags[op[t].g] \in SUBSET Bits
      /\ result[t] \in {"OK", "TIMEOUT", "CANCELLED"} /\ result_flags[t] \in SUBSET Bits
      /\ linked[t] # None => ~signaled[t]
      /\ linked[t] # None => pc[t] # "link"
      /\ signaled[t] => result[t] # "TIMEOUT" /\ (result[t] = "OK" => Matches(result_flags[t], t))
  <2>1. op[t] \in Waits
    BY <1>0 DEF RecordInv, Shape, TypeOK, WaitPlaces
  <2>2. op[t].g \in Groups
    BY <2>1 DEF Waits
  <2>3. /\ flags[op[t].g] \in SUBSET Bits /\ result_flags[t] \in SUBSET Bits
        /\ result[t] \in {"OK", "TIMEOUT", "CANCELLED"}
    BY <2>2, HasDataTypes DEF DataTypes
  <2>4. Records!(t)
    BY DEF RecordInv, Records
  <2> QED
    BY <2>1, <2>2, <2>3, <2>4 DEF WaitPlaces
<1>s. /\ state' \in [Threads -> {"RUNNING", "BLOCKED", "READY"}]
      /\ wait_result' \in [Threads -> {"OK", "TIMEOUT"}] /\ armed' \subseteq Threads
  BY HasDataTypes DEF DataTypes, Unlink
<1>1. ASSUME signaled[t], Return(t, pc[t], result[t], result_flags[t]), linked' = linked PROVE RecordInv'
  <2>1. /\ pc'[t] = "out" /\ \A x \in Actors \ {t} : pc'[x] = pc[x]
        /\ returned' = [returned EXCEPT ![t] = [result |-> result[t], flags |-> result_flags[t]]]
    BY <1>1 DEF Return, Goto, RecordInv, Shape, TypeOK
  <2>2. returned' \in [Threads -> [result : {"none", "OK", "TIMEOUT", "CANCELLED"}, flags : SUBSET Bits]]
    BY <1>w, <2>1, ReturnTypes
  <2>3. linked'[t] = None /\ (\A x \in Threads \ {t} : linked'[x] = linked[x])
        /\ linked' \in [Threads -> Groups \cup {None}]
    BY <1>0, <1>w, <1>1, HasDataTypes DEF DataTypes
  <2>4. DataTypes'
    BY <1>0, <2>2, <2>3, <1>s, HasDataTypes DEF DataTypes
  <2>5. Shape'
    BY <1>0, <2>4, MoveShape
  <2>r. /\ signaled[t] => result[t] = result[t] /\ result_flags[t] = result_flags[t]
        /\ result[t] = "OK" => Matches(result_flags[t], t)
    BY <1>w, <1>1
  <2>6. Records' /\ AnswerIsTrue'
    BY <1>0, <2>1, <2>3, <2>5, <2>r, ReturnKeeps
  <2> QED
    BY <1>d, <2>4, <2>6
<1>2. ASSUME ~signaled[t], Return(t, pc[t], "TIMEOUT", flags[op[t].g]), linked' = [linked EXCEPT ![t] = None] PROVE RecordInv'
  <2>1. /\ pc'[t] = "out" /\ \A x \in Actors \ {t} : pc'[x] = pc[x]
        /\ returned' = [returned EXCEPT ![t] = [result |-> "TIMEOUT", flags |-> flags[op[t].g]]]
    BY <1>2 DEF Return, Goto, RecordInv, Shape, TypeOK
  <2>2. returned' \in [Threads -> [result : {"none", "OK", "TIMEOUT", "CANCELLED"}, flags : SUBSET Bits]]
    BY <1>w, <2>1, ReturnTypes
  <2>3. linked'[t] = None /\ (\A x \in Threads \ {t} : linked'[x] = linked[x])
        /\ linked' \in [Threads -> Groups \cup {None}]
    BY <1>0, <1>w, <1>2, HasDataTypes DEF DataTypes
  <2>4. DataTypes'
    BY <1>0, <2>2, <2>3, <1>s, HasDataTypes DEF DataTypes
  <2>5. Shape'
    BY <1>0, <2>4, MoveShape
  <2>r. /\ signaled[t] => "TIMEOUT" = result[t] /\ flags[op[t].g] = result_flags[t]
        /\ "TIMEOUT" = "OK" => Matches(flags[op[t].g], t)
    BY <1>w, <1>2
  <2>6. Records' /\ AnswerIsTrue'
    BY <1>0, <2>1, <2>3, <2>5, <2>r, ReturnKeeps
  <2> QED
    BY <1>d, <2>4, <2>6
<1> QED
  BY <1>0, <1>1, <1>2 DEF Unlink

(* Nobody moves.                                                           *)
LEMMA StillRecords ==
    ASSUME RecordInv, DataTypes', UNCHANGED <<pc, op, calls, setup, linked, signaled, result,
                                              result_flags, returned, batch, used, owner>>
    PROVE  RecordInv'
<1>1. TypeOK'
  BY DEF RecordInv, Shape, TypeOK, DataTypes
<1>2. Shape'
  BY <1>1 DEF RecordInv, Shape
<1>3. Records' /\ AnswerIsTrue'
  BY <1>2, RecordsStay DEF Steady
<1>4. DestroysItsOwn'
  BY DestroysStay DEF SteadyProc
<1> QED
  BY <1>2, <1>3, <1>4 DEF RecordInv

(* A stuttering step keeps the records.                                    *)
LEMMA StutterRecords == RecordInv /\ UNCHANGED vars => RecordInv'
<1> SUFFICES ASSUME RecordInv, UNCHANGED vars PROVE RecordInv'
  OBVIOUS
<1>1. DataTypes'
  BY HasDataTypes DEF DataTypes, vars, group, record, sched, pass
<1> QED
  BY <1>1, StillRecords DEF vars, group, record, sched, pass

(* scheduler_sleep_timer_fire wakes the thread only.                       *)
LEMMA TimerFireRecords ==
    ASSUME RecordInv, NEW t \in Threads, TimerFire(t)
    PROVE  RecordInv'
<1> USE DEF group, record, sched, pass
<1>0. UNCHANGED <<group, record, pc, op, calls, pass, returned, setup>>
  BY DEF TimerFire
<1>1. /\ state' \in [Threads -> {"RUNNING", "BLOCKED", "READY"}]
      /\ wait_result' \in [Threads -> {"OK", "TIMEOUT"}] /\ armed' \subseteq Threads
  BY HasDataTypes DEF DataTypes, TimerFire
<1>2. DataTypes'
  BY <1>0, <1>1, HasDataTypes DEF DataTypes
<1> QED
  BY <1>0, <1>2, StillRecords

(* A call begins with a record nobody has decided.                         *)
LEMMA CallRecords ==
    ASSUME RecordInv, NEW t \in Threads, NEW o \in setup.ops[t], Call(t, o)
    PROVE  RecordInv'
<1> USE EventAssumption DEF Actors, group, record, sched, pass
<1>0. /\ pc[t] = "out" /\ pc' = [pc EXCEPT ![t] = First(o)] /\ op' = [op EXCEPT ![t] = o]
      /\ calls[t] < MaxCalls /\ calls' = [calls EXCEPT ![t] = calls[t] + 1]
      /\ UNCHANGED <<group, linked, sched, pass, returned, setup>>
  BY DEF Call, Goto
<1>o. /\ o \in Waits \cup Changes \cup Ends \cup {[call |-> "create"]}
      /\ o.call = "wait" <=> o \in Waits
      /\ o.call \in {"set", "clear", "pulse"} => o \in Changes
      /\ o.call \in {"poison", "reset", "destroy"} => o \in Ends
      /\ o.call \in {"wait", "set", "clear", "pulse", "poison", "reset", "destroy", "create"}
      /\ Shape
  BY OpTypes DEF RecordInv, Shape
<1>f. /\ o.call = "wait" => First(o) = "link"
      /\ o.call \in {"set", "clear", "pulse"} => First(o) = "apply"
      /\ o.call \in {"poison", "destroy"} => First(o) = "mark"
      /\ o.call \in {"reset", "create"} => First(o) = o.call
  BY DEF First
<1>p. /\ First(o) \in {"link", "apply", "mark", "reset", "create"} /\ pc' \in [Actors -> Places]
      /\ pc'[t] = First(o) /\ \A x \in Actors \ {t} : pc'[x] = pc[x]
      /\ op'[t] = o /\ \A x \in Actors \ {t} : op'[x] = op[x]
      /\ op' \in [Actors -> Waits \cup Changes \cup Ends \cup {NoOp, [call |-> "create"]}]
      /\ calls' \in [Threads -> 0 .. MaxCalls] /\ calls'[t] = calls[t] + 1 /\ calls[t] \in Nat
      /\ \A x \in Threads \ {t} : calls'[x] = calls[x]
      /\ t \notin Procs /\ Owner[t] \in Procs /\ Owner[t] # t
  <2>1. First(o) \in {"link", "apply", "mark", "reset", "create"}
    BY <1>o, <1>f
  <2>2. First(o) \in Places
    BY <2>1 DEF Places, WaitPlaces
  <2>3. pc \in [Actors -> Places] /\ calls \in [Threads -> 0 .. MaxCalls]
        /\ op \in [Actors -> Waits \cup Changes \cup Ends \cup {NoOp, [call |-> "create"]}]
    BY <1>o DEF Shape, TypeOK
  <2>4. pc' \in [Actors -> Places] /\ pc'[t] = First(o) /\ \A x \in Actors \ {t} : pc'[x] = pc[x]
    BY <1>0, <2>2, <2>3
  <2>5. /\ op' \in [Actors -> Waits \cup Changes \cup Ends \cup {NoOp, [call |-> "create"]}]
        /\ op'[t] = o /\ \A x \in Actors \ {t} : op'[x] = op[x]
    BY <1>0, <1>o, <2>3
  <2>6. /\ calls' \in [Threads -> 0 .. MaxCalls] /\ calls'[t] = calls[t] + 1 /\ calls[t] \in Nat
        /\ \A x \in Threads \ {t} : calls'[x] = calls[x]
    BY <1>0, <2>3
  <2> QED
    BY <2>1, <2>4, <2>5, <2>6
<1>s. /\ signaled'[t] = FALSE
      /\ \A x \in Threads \ {t} : signaled'[x] = signaled[x] /\ result'[x] = result[x]
                                  /\ result_flags'[x] = result_flags[x]
      /\ signaled' \in [Threads -> BOOLEAN] /\ result' \in [Threads -> {"OK", "TIMEOUT", "CANCELLED"}]
      /\ result_flags' \in [Threads -> SUBSET Bits]
  BY HasDataTypes DEF Call, DataTypes
<1>1. DataTypes'
  BY <1>0, <1>s, HasDataTypes DEF DataTypes
<1>2. TypeOK'
  <2>1. \A x \in Threads : pc'[x] \in WaitPlaces => op'[x] \in Waits
    BY <1>o, <1>f, <1>p DEF Shape, TypeOK, WaitPlaces
  <2>2. \A x \in Actors : pc'[x] \in {"apply", "mark", "collect", "wake", "free"} =>
                              op'[x] \in Changes \cup Ends
    BY <1>o, <1>f, <1>p DEF Shape, TypeOK
  <2> QED
    BY <1>1, <1>p, <2>1, <2>2 DEF TypeOK, DataTypes
<1>3. Shape'
  <2>1. \A x \in Threads :
          /\ pc'[x] \notin {"scan", "reap"} /\ op'[x] \in setup.ops[x] \cup {NoOp}
          /\ pc'[x] \in WaitPlaces => calls'[x] # 0
          /\ pc'[x] = "create" => op'[x].call = "create"
          /\ pc'[x] = "reset" => op'[x].call = "reset" /\ op'[x] \in Ends
    BY <1>o, <1>f, <1>p DEF Shape
  <2>2. \A x \in Threads :
          /\ pc'[Owner[x]] = "out" \/ pc'[x] \in {"killed", "gone"}
          /\ pc'[x] = "gone" => pc'[Owner[x]] = "gone"
    BY <1>0, <1>o, <1>p DEF Shape
  <2>3. \A p \in Procs :
          /\ pc'[p] \in Ending \cup {"out", "scan", "reap", "gone"}
          /\ pc'[p] # "out" => p \in setup.exits
          /\ pc'[p] \in Ending => op'[p].call = "destroy"
    BY <1>o, <1>p DEF Shape
  <2>4. \A a \in Actors :
          /\ pc'[a] = "apply" => op'[a] \in Changes
          /\ pc'[a] \in {"mark", "free"} => op'[a] \in Ends
          /\ pc'[a] = "mark" => op'[a].call \in {"poison", "destroy"}
          /\ pc'[a] = "free" => op'[a].call = "destroy"
    BY <1>o, <1>f, <1>p DEF Shape
  <2> QED
    BY <1>0, <1>o, <1>2, <2>1, <2>2, <2>3, <2>4 DEF Shape
<1>4. Records'
  <2> SUFFICES ASSUME NEW x \in Threads PROVE Records!(x)'
    BY DEF Records
  <2>2. Records!(x)
    BY DEF RecordInv, Records
  <2>3. CASE x = t
    <3>1. linked[t] = None
      BY <1>0 DEF RecordInv, Records, WaitPlaces
    <3>2. \A a \in Actors : \A n \in 1 .. MaxCalls : <<t, n>> \in batch'[a] => n <= calls'[t] /\ n # calls'[t]
      <4>1. \A a \in Actors : \A n \in 1 .. MaxCalls : <<t, n>> \in batch[a] => n <= calls[t]
        BY DEF RecordInv, Records
      <4> QED
        BY <1>0, <1>p, <4>1
    <3> QED
      BY <1>0, <1>p, <1>s, <2>3, <3>1, <3>2
  <2>4. CASE x # t
    <3>1. Matches(result_flags[x], x) => Matches(result_flags[x], x)'
      BY <1>p, <1>s, <2>4 DEF Matches
    <3> QED
      BY <1>0, <1>p, <1>s, <2>2, <2>4, <3>1
  <2> QED
    BY <2>3, <2>4
<1>5. AnswerIsTrue'
  <2> SUFFICES ASSUME NEW x \in Threads, pc'[x] = "out", op'[x].call = "wait", returned'[x].result = "OK"
               PROVE  Matches(returned[x].flags, x)'
    BY DEF AnswerIsTrue
  <2>1. x # t /\ op'[x] = op[x] /\ pc[x] = "out"
    BY <1>p
  <2> QED
    BY <1>0, <2>1 DEF RecordInv, AnswerIsTrue, Matches
<1>6. DestroysItsOwn'
  BY <1>0, <1>p, DestroysStay DEF SteadyProc
<1> QED
  BY <1>3, <1>4, <1>5, <1>6 DEF RecordInv

(* A pass decides records on the list of its group: their calls are still  *)
(* running.                                                                *)
LEMMA CollectRecords ==
    ASSUME RecordInv, NEW a \in Actors, Collect(a)
    PROVE  RecordInv'
<1> USE EventAssumption DEF Actors, group, record, sched, pass
<1>b. PICK b \in SUBSET Threads : Collect(a)!(b)
  BY DEF Collect
<1>0. /\ Moves(a, "wake") /\ pc[a] = "collect" /\ b \subseteq Candidates(a)
      /\ UNCHANGED <<group, sched, op, calls, snapshot, returned, setup>>
  BY <1>b DEF Goto, Moves, MarkedBatch
<1>l. /\ linked' \in [Threads -> Groups \cup {None}] /\ \A t \in Threads \ b : linked'[t] = linked[t]
      /\ \A t \in b : linked'[t] = None
  BY <1>b, HasDataTypes DEF DataTypes
<1>s. /\ signaled' \in [Threads -> BOOLEAN] /\ \A t \in Threads \ b : signaled'[t] = signaled[t]
      /\ \A t \in b : signaled'[t]
  BY <1>b, HasDataTypes DEF DataTypes
<1>r. /\ result' \in [Threads -> {"OK", "TIMEOUT", "CANCELLED"}]
      /\ \A t \in Threads \ b : result'[t] = result[t]
      /\ \A t \in b : result'[t] = IF Cancels(a) THEN "CANCELLED" ELSE "OK"
  BY <1>b, HasDataTypes DEF DataTypes
<1>f. /\ result_flags' \in [Threads -> SUBSET Bits]
      /\ \A t \in Threads \ b : result_flags'[t] = result_flags[t]
      /\ \A t \in b : result_flags'[t] = snapshot[a]
  BY <1>b, HasDataTypes DEF DataTypes, Reported
<1>c. \A t \in b : /\ linked[t] # None /\ op[t] \in Waits /\ calls[t] \in 1 .. MaxCalls
                   /\ Cancels(a) \/ Matches(snapshot[a], t)
                   /\ pc[t] \notin {"out", "link"}
  <2> SUFFICES ASSUME NEW t \in b
               PROVE  /\ linked[t] # None /\ op[t] \in Waits /\ calls[t] \in 1 .. MaxCalls
                      /\ Cancels(a) \/ Matches(snapshot[a], t)
                      /\ pc[t] \notin {"out", "link"}
    OBVIOUS
  <2>1. linked[t] = op[a].g /\ (Cancels(a) \/ Matches(snapshot[a], t))
    BY <1>0 DEF Candidates
  <2>2. op[a] \in Changes \cup Ends
    BY <1>0 DEF RecordInv, Shape, TypeOK
  <2>3. op[a].g \in Groups /\ linked[t] # None
    BY <2>1, <2>2 DEF Changes, Ends
  <2>4. calls[t] \in 0 .. MaxCalls
    BY DEF RecordInv, Shape, TypeOK
  <2>5. /\ calls[t] # 0 /\ op[t] \in Waits
        /\ pc[t] \in (WaitPlaces \ {"link"}) \cup {"killed", "gone"}
    BY <2>3 DEF RecordInv, Records
  <2> QED
    BY <2>1, <2>3, <2>4, <2>5 DEF WaitPlaces
<1>n. /\ batch' \in [Actors -> SUBSET (Threads \X (1 .. MaxCalls))]
      /\ batch'[a] = {<<t, calls[t]>> : t \in b} /\ \A x \in Actors \ {a} : batch'[x] = batch[x]
  <2>1. {<<t, calls[t]>> : t \in b} \in SUBSET (Threads \X (1 .. MaxCalls))
    BY <1>c
  <2> QED
    BY <1>b, <2>1, HasDataTypes DEF DataTypes
<1>1. DataTypes'
  <2>1. again' \in [Actors -> BOOLEAN]
    BY <1>b, HasDataTypes DEF DataTypes, MarkedBatch
  <2> QED
    BY <1>0, <1>l, <1>s, <1>r, <1>f, <1>n, <2>1, HasDataTypes DEF DataTypes
<1>2. /\ Shape' /\ pc'[a] = "wake" /\ \A x \in Actors \ {a} : pc'[x] = pc[x]
      /\ \A p \in Procs : SteadyProc(p)
      /\ \A t \in Threads : op'[t] = op[t] /\ Steady(t)
  BY <1>0, <1>1, MoveShape DEF WaitPlaces
<1>3. Records'
  <2> SUFFICES ASSUME NEW t \in Threads PROVE Records!(t)'
    BY DEF Records
  <2>1. Records!(t)
    BY DEF RecordInv, Records
  <2>2. CASE t \in b
    <3>1. pc'[t] \notin {"out", "link"}
      BY <1>2, <1>c, <2>2
    <3>2. result'[t] = "OK" => Matches(snapshot[a], t)
      BY <1>c, <1>r, <2>2
    <3>3. result'[t] = "OK" => Matches(result_flags[t], t)'
      BY <1>0, <1>f, <2>2, <3>2 DEF Matches
    <3>4. result'[t] # "TIMEOUT" /\ op'[t] \in Waits /\ linked'[t] = None /\ signaled'[t]
      BY <1>0, <1>c, <1>l, <1>s, <1>r, <2>2
    <3>5. \A x \in Actors : \A n \in 1 .. MaxCalls : <<t, n>> \in batch'[x] => n <= calls'[t]
      BY <1>0, <1>n, <1>c, <2>1, <2>2
    <3> QED
      BY <3>1, <3>3, <3>4, <3>5
  <2>3. CASE t \notin b
    <3>1. Matches(result_flags[t], t) => Matches(result_flags[t], t)'
      BY <1>0, <1>f, <2>3 DEF Matches
    <3>2. \A x \in Actors : \A n \in 1 .. MaxCalls : <<t, n>> \in batch'[x] => <<t, n>> \in batch[x]
      BY <1>n, <2>3
    <3>3. op[t] \in Waits => op[t].call = "wait"
      BY DEF Waits
    <3>4. /\ linked'[t] = linked[t] /\ signaled'[t] = signaled[t] /\ result'[t] = result[t]
          /\ result_flags'[t] = result_flags[t] /\ op'[t] = op[t] /\ calls'[t] = calls[t]
          /\ returned'[t] = returned[t]
      BY <1>0, <1>l, <1>s, <1>r, <1>f, <2>3
    <3>5. Steady(t)
      BY <1>2
    <3> QED
      BY <2>1, <3>1, <3>2, <3>3, <3>4, <3>5 DEF Steady, WaitPlaces
  <2> QED
    BY <2>2, <2>3
<1>4. AnswerIsTrue'
  <2> SUFFICES ASSUME NEW t \in Threads, pc'[t] = "out", op'[t].call = "wait", returned'[t].result = "OK"
               PROVE  Matches(returned[t].flags, t)'
    BY DEF AnswerIsTrue
  <2>1. pc[t] = "out"
    BY <1>2
  <2> QED
    BY <1>0, <2>1 DEF RecordInv, AnswerIsTrue, Matches
<1>5. DestroysItsOwn'
  BY <1>0, <1>2, DestroysStay
<1> QED
  BY <1>2, <1>3, <1>4, <1>5 DEF RecordInv

(* The end of a process kills its threads, which are in user mode or       *)
(* asleep.                                                                 *)
LEMMA ExitRecords ==
    ASSUME RecordInv, NEW p \in Procs, Exit(p)
    PROVE  RecordInv'
<1> USE EventAssumption DEF Actors, group, record, sched, pass
<1>0. /\ p \in setup.exits /\ pc[p] = "out" /\ armed' \subseteq armed
      /\ UNCHANGED <<group, record, state, wait_result, op, calls, pass, returned, setup>>
  BY DEF Exit
<1>p. /\ pc' \in [Actors -> Places] /\ pc'[p] = "scan" /\ \A q \in Procs \ {p} : pc'[q] = pc[q]
      /\ \A t \in Threads : pc'[t] = IF Owner[t] = p THEN "killed" ELSE pc[t]
  BY DEF Exit, RecordInv, Shape, TypeOK, Places
<1>1. DataTypes'
  BY <1>0, HasDataTypes DEF DataTypes
<1>h. Shape /\ \A t \in Threads : Owner[t] \in Procs
  BY DEF RecordInv
<1>2. TypeOK'
  <2>1. \A x \in Threads : pc'[x] \in WaitPlaces => op'[x] \in Waits
    BY <1>0, <1>p, <1>h DEF Shape, TypeOK, WaitPlaces
  <2>2. \A x \in Actors : pc'[x] \in {"apply", "mark", "collect", "wake", "free"} =>
                              op'[x] \in Changes \cup Ends
    BY <1>0, <1>p, <1>h DEF Shape, TypeOK
  <2> QED
    BY <1>0, <1>1, <1>p, <1>h, <2>1, <2>2 DEF Shape, TypeOK, DataTypes
<1>3. Shape'
  <2>1. \A x \in Threads :
          /\ pc'[x] \notin {"scan", "reap"} /\ op'[x] \in setup.ops[x] \cup {NoOp}
          /\ pc'[x] \in WaitPlaces => calls'[x] # 0
          /\ pc'[x] = "create" => op'[x].call = "create"
          /\ pc'[x] = "reset" => op'[x].call = "reset" /\ op'[x] \in Ends
    BY <1>0, <1>p, <1>h DEF Shape, WaitPlaces
  <2>2. \A x \in Threads :
          /\ pc'[Owner[x]] = "out" \/ pc'[x] \in {"killed", "gone"}
          /\ pc'[x] = "gone" => pc'[Owner[x]] = "gone"
    BY <1>0, <1>p, <1>h DEF Shape
  <2>3. \A q \in Procs :
          /\ pc'[q] \in Ending \cup {"out", "scan", "reap", "gone"}
          /\ pc'[q] # "out" => q \in setup.exits
          /\ pc'[q] \in Ending => op'[q].call = "destroy"
    BY <1>0, <1>p, <1>h DEF Shape, Ending
  <2>4. \A a \in Actors :
          /\ pc'[a] = "apply" => op'[a] \in Changes
          /\ pc'[a] \in {"mark", "free"} => op'[a] \in Ends
          /\ pc'[a] = "mark" => op'[a].call \in {"poison", "destroy"}
          /\ pc'[a] = "free" => op'[a].call = "destroy"
    BY <1>0, <1>p, <1>h DEF Shape
  <2> QED
    BY <1>0, <1>2, <1>h, <2>1, <2>2, <2>3, <2>4 DEF Shape
<1>4. Records' /\ AnswerIsTrue'
  BY <1>0, <1>p, <1>3, RecordsStay DEF Steady
<1>5. DestroysItsOwn'
  BY <1>0, <1>p, DestroysStay DEF SteadyProc, Ending
<1> QED
  BY <1>3, <1>4, <1>5 DEF RecordInv

(* event_group_cleanup_process: the next group that is its own, or none.   *)
LEMMA ScanRecords ==
    ASSUME RecordInv, NEW p \in Procs, Scan(p)
    PROVE  RecordInv'
<1> USE EventAssumption DEF Actors, group, record, sched, pass
<1>0. /\ pc[p] = "scan" /\ UNCHANGED <<group, record, sched, calls, pass, returned, setup>>
      /\ \/ \E g \in Groups : /\ used[g] /\ owner[g] = p /\ pc' = [pc EXCEPT ![p] = "mark"]
                              /\ op' = [op EXCEPT ![p] = [call |-> "destroy", g |-> g]]
         \/ pc' = [pc EXCEPT ![p] = "reap"] /\ op' = [op EXCEPT ![p] = NoOp]
  BY DEF Scan, Goto
<1>h. /\ Shape /\ pc \in [Actors -> Places] /\ \A t \in Threads : Owner[t] \in Procs
      /\ op \in [Actors -> Waits \cup Changes \cup Ends \cup {NoOp, [call |-> "create"]}]
  BY DEF RecordInv, Shape, TypeOK
<1>e. \A g \in Groups : [call |-> "destroy", g |-> g] \in Ends
  BY DEF Ends
<1>p. /\ pc' \in [Actors -> Places] /\ pc'[p] \in {"mark", "reap"} /\ \A a \in Actors \ {p} : pc'[a] = pc[a]
      /\ op' \in [Actors -> Waits \cup Changes \cup Ends \cup {NoOp, [call |-> "create"]}]
      /\ \A a \in Actors \ {p} : op'[a] = op[a]
      /\ pc'[p] = "mark" => /\ op'[p] \in Ends /\ op'[p].call = "destroy"
                            /\ used[op'[p].g] /\ owner[op'[p].g] = p
  <2>1. ASSUME NEW g \in Groups, used[g], owner[g] = p, pc' = [pc EXCEPT ![p] = "mark"],
               op' = [op EXCEPT ![p] = [call |-> "destroy", g |-> g]]
        PROVE  <1>p
    <3>1. op'[p] = [call |-> "destroy", g |-> g]
      BY <1>h, <2>1
    <3> QED
      BY <1>h, <1>e, <2>1, <3>1 DEF Places
  <2>2. CASE pc' = [pc EXCEPT ![p] = "reap"] /\ op' = [op EXCEPT ![p] = NoOp]
    BY <1>h, <2>2 DEF Places
  <2> QED
    BY <1>0, <2>1, <2>2
<1>1. DataTypes'
  BY <1>0, HasDataTypes DEF DataTypes
<1>2. TypeOK'
  <2>1. \A x \in Threads : pc'[x] \in WaitPlaces => op'[x] \in Waits
    BY <1>p, <1>h DEF Shape, TypeOK
  <2>2. \A x \in Actors : pc'[x] \in {"apply", "mark", "collect", "wake", "free"} =>
                              op'[x] \in Changes \cup Ends
    BY <1>p, <1>h DEF Shape, TypeOK
  <2> QED
    BY <1>0, <1>1, <1>p, <1>h, <2>1, <2>2 DEF Shape, TypeOK, DataTypes
<1>3. Shape'
  <2>1. \A x \in Threads :
          /\ pc'[x] \notin {"scan", "reap"} /\ op'[x] \in setup.ops[x] \cup {NoOp}
          /\ pc'[x] \in WaitPlaces => calls'[x] # 0
          /\ pc'[x] = "create" => op'[x].call = "create"
          /\ pc'[x] = "reset" => op'[x].call = "reset" /\ op'[x] \in Ends
    BY <1>0, <1>p, <1>h DEF Shape
  <2>2. \A x \in Threads :
          /\ pc'[Owner[x]] = "out" \/ pc'[x] \in {"killed", "gone"}
          /\ pc'[x] = "gone" => pc'[Owner[x]] = "gone"
    BY <1>0, <1>p, <1>h DEF Shape
  <2>3. \A q \in Procs :
          /\ pc'[q] \in Ending \cup {"out", "scan", "reap", "gone"}
          /\ pc'[q] # "out" => q \in setup.exits
          /\ pc'[q] \in Ending => op'[q].call = "destroy"
    BY <1>0, <1>p, <1>h DEF Shape, Ending
  <2>4. \A a \in Actors :
          /\ pc'[a] = "apply" => op'[a] \in Changes
          /\ pc'[a] \in {"mark", "free"} => op'[a] \in Ends
          /\ pc'[a] = "mark" => op'[a].call \in {"poison", "destroy"}
          /\ pc'[a] = "free" => op'[a].call = "destroy"
    BY <1>p, <1>h DEF Shape
  <2> QED
    BY <1>0, <1>2, <1>h, <2>1, <2>2, <2>3, <2>4 DEF Shape
<1>4. Records' /\ AnswerIsTrue'
  BY <1>0, <1>p, <1>3, RecordsStay DEF Steady
<1>5. DestroysItsOwn'
  BY <1>0, <1>p DEF RecordInv, DestroysItsOwn, OnlyItsEndDestroys, Ending
<1> QED
  BY <1>3, <1>4, <1>5 DEF RecordInv

(* The bodies of its threads are reaped.                                   *)
LEMMA ReapRecords ==
    ASSUME RecordInv, NEW p \in Procs, Reap(p)
    PROVE  RecordInv'
<1> USE EventAssumption DEF Actors, group, record, sched, pass
<1>0. pc[p] = "reap" /\ UNCHANGED <<group, record, sched, op, calls, pass, returned, setup>>
  BY DEF Reap
<1>p. /\ pc' \in [Actors -> Places] /\ pc'[p] = "gone" /\ \A q \in Procs \ {p} : pc'[q] = pc[q]
      /\ \A t \in Threads : pc'[t] = IF Owner[t] = p THEN "gone" ELSE pc[t]
  BY DEF Reap, RecordInv, Shape, TypeOK, Places
<1>1. DataTypes'
  BY <1>0, HasDataTypes DEF DataTypes
<1>h. Shape /\ \A t \in Threads : Owner[t] \in Procs
  BY DEF RecordInv
<1>2. TypeOK'
  <2>1. \A x \in Threads : pc'[x] \in WaitPlaces => op'[x] \in Waits
    BY <1>0, <1>p, <1>h DEF Shape, TypeOK, WaitPlaces
  <2>2. \A x \in Actors : pc'[x] \in {"apply", "mark", "collect", "wake", "free"} =>
                              op'[x] \in Changes \cup Ends
    BY <1>0, <1>p, <1>h DEF Shape, TypeOK
  <2> QED
    BY <1>0, <1>1, <1>p, <1>h, <2>1, <2>2 DEF Shape, TypeOK, DataTypes
<1>3. Shape'
  <2>1. \A x \in Threads :
          /\ pc'[x] \notin {"scan", "reap"} /\ op'[x] \in setup.ops[x] \cup {NoOp}
          /\ pc'[x] \in WaitPlaces => calls'[x] # 0
          /\ pc'[x] = "create" => op'[x].call = "create"
          /\ pc'[x] = "reset" => op'[x].call = "reset" /\ op'[x] \in Ends
    BY <1>0, <1>p, <1>h DEF Shape, WaitPlaces
  <2>2. \A x \in Threads :
          /\ pc'[Owner[x]] = "out" \/ pc'[x] \in {"killed", "gone"}
          /\ pc'[x] = "gone" => pc'[Owner[x]] = "gone"
    BY <1>0, <1>p, <1>h DEF Shape
  <2>3. \A q \in Procs :
          /\ pc'[q] \in Ending \cup {"out", "scan", "reap", "gone"}
          /\ pc'[q] # "out" => q \in setup.exits
          /\ pc'[q] \in Ending => op'[q].call = "destroy"
    BY <1>0, <1>p, <1>h DEF Shape, Ending
  <2>4. \A a \in Actors :
          /\ pc'[a] = "apply" => op'[a] \in Changes
          /\ pc'[a] \in {"mark", "free"} => op'[a] \in Ends
          /\ pc'[a] = "mark" => op'[a].call \in {"poison", "destroy"}
          /\ pc'[a] = "free" => op'[a].call = "destroy"
    BY <1>0, <1>p, <1>h DEF Shape
  <2> QED
    BY <1>0, <1>2, <1>h, <2>1, <2>2, <2>3, <2>4 DEF Shape
<1>4. Records' /\ AnswerIsTrue'
  BY <1>0, <1>p, <1>3, RecordsStay DEF Steady
<1>5. DestroysItsOwn'
  BY <1>0, <1>p, DestroysStay DEF SteadyProc, Ending
<1> QED
  BY <1>3, <1>4, <1>5 DEF RecordInv

(* Every step of the event groups keeps the records.                       *)
LEMMA NextRecords == RecordInv /\ Next => RecordInv'
<1> SUFFICES ASSUME RecordInv, Next PROVE RecordInv'
  OBVIOUS
<1> USE DEF Actors
<1>1. ASSUME NEW a \in Actors, PassStep(a) PROVE RecordInv'
  BY <1>1, ApplyRecords, MarkRecords, CollectRecords, WakeRecords, WakeDoneRecords, FreeRecords DEF PassStep
<1>2. ASSUME NEW t \in Threads, WaitStep(t) PROVE RecordInv'
  BY <1>2, LinkRecords, PrepareRecords, RecheckRecords, DispatchRecords, FinishRecords, UnlinkRecords DEF WaitStep
<1>3. ASSUME NEW t \in Threads, Reset(t) \/ Create(t) \/ TimerFire(t) PROVE RecordInv'
  BY <1>3, ResetRecords, CreateRecords, TimerFireRecords
<1>4. ASSUME NEW t \in Threads, NEW o \in setup.ops[t], Call(t, o) PROVE RecordInv'
  BY <1>4, CallRecords
<1>5. ASSUME NEW p \in Procs, Exit(p) \/ Scan(p) \/ Reap(p) PROVE RecordInv'
  BY <1>5, ExitRecords, ScanRecords, ReapRecords
<1> QED
  BY <1>1, <1>2, <1>3, <1>4, <1>5 DEF Next, Step, EndStep

----------------------------------------------------------------------------
(* Passes at work stay at work, a destroy is not joined half way, nobody   *)
(* joins a list.                                                           *)
Passing == {"collect", "wake", "free"}
Keeps(a) ==
    /\ AtWork(a) => AtWork(a)' /\ op'[a] = op[a] /\ snapshot'[a] = snapshot[a]
    /\ pc'[a] \in Passing /\ op'[a].call = "destroy" => pc[a] \in Passing /\ op'[a] = op[a]
Listed(t) == linked'[t] \in {linked[t], None} /\ (linked[t] # None => op'[t] = op[t])
Calm == (\A a \in Actors : Keeps(a)) /\ (\A t \in Threads : Listed(t)) /\ setup' = setup

(* A step of one actor that lists nobody and leaves every pass as it is,   *)
(* or goes on in its own, is calm.                                         *)
LEMMA CalmMove ==
    ASSUME RecordInv, NEW a \in Actors, NEW to, Moves(a, to), UNCHANGED <<snapshot, again>>,
           \A t \in Threads : linked'[t] \in {linked[t], None},
           AtWork(a) => to \in {"collect", pc[a]},
           to \in Passing => pc[a] \in Passing
    PROVE  Calm
<1>1. /\ pc'[a] = to /\ \A x \in Actors \ {a} : pc'[x] = pc[x]
      /\ op' = op /\ setup' = setup
  BY DEF Moves, RecordInv, Shape, TypeOK
<1>2. Keeps(a)
  BY <1>1 DEF Keeps, AtWork
<1>3. \A x \in Actors \ {a} : Keeps(x)
  BY <1>1 DEF Keeps, AtWork
<1> QED
  BY <1>1, <1>2, <1>3 DEF Calm, Listed

(* What a found record is to be found by stays there.                      *)
LEMMA FindsStays ==
    ASSUME NEW a \in Actors, NEW t \in Threads, Keeps(a), Finds(a, t),
           linked'[t] = linked[t], op'[t] = op[t]
    PROVE  Finds(a, t)' /\ (Cancels(a) => Cancels(a)')
BY DEF Keeps, Finds, AtWork, Cancels, Matches

(* The hypotheses are about the setup, which no step changes.              *)
LEMMA SetupStays ==
    ASSUME setup' = setup
    PROVE  /\ KeepsToItsOwn' = KeepsToItsOwn /\ EndsInOrder' = EndsInOrder
           /\ TakesOnlyFromSetters' = TakesOnlyFromSetters
BY DEF KeepsToItsOwn, OnlyItsEndDestroys, EndsInOrder, TakesOnlyFromSetters, Never

(* A calm step that frees and poisons nothing keeps dead groups empty.     *)
LEMMA EmptyStays ==
    ASSUME RecordInv, EmptyInv, Calm, UNCHANGED <<used, poisoned>>
    PROVE  EmptyInv'
<1> SUFFICES ASSUME EndsInOrder PROVE DeadGroupsAreEmpty' /\ DestroyedStaysClosed'
  BY SetupStays DEF EmptyInv, Calm
<1>1. DeadGroupsAreEmpty /\ DestroyedStaysClosed
  BY DEF EmptyInv
<1>2. DeadGroupsAreEmpty'
  <2> SUFFICES ASSUME NEW t \in Threads, linked'[t] # None
               PROVE  /\ used[linked'[t]]
                      /\ poisoned[linked'[t]] => \E a \in Actors : Finds(a, t)' /\ Cancels(a)'
    BY DEF DeadGroupsAreEmpty
  <2>1. linked'[t] = linked[t] /\ op'[t] = op[t]
    BY DEF Calm, Listed
  <2>2. used[linked[t]] /\ (poisoned[linked[t]] => \E a \in Actors : Finds(a, t) /\ Cancels(a))
    BY <1>1, <2>1 DEF DeadGroupsAreEmpty
  <2>3. \A a \in Actors : Keeps(a)
    BY DEF Calm
  <2> QED
    BY <2>1, <2>2, <2>3, FindsStays
<1>3. DestroyedStaysClosed'
  <2> SUFFICES ASSUME NEW a \in Actors, pc'[a] \in {"collect", "wake", "free"}, op'[a].call = "destroy"
               PROVE  /\ used[op'[a].g] => poisoned[op'[a].g]
                      /\ ~AtWork(a)' => \A t \in Threads : linked'[t] # op'[a].g
    BY DEF DestroyedStaysClosed
  <2>1. op'[a] = op[a] /\ pc[a] \in Passing /\ (AtWork(a) => AtWork(a)')
    BY DEF Calm, Keeps, Passing
  <2>2. op[a].g # None
    <3>1. op[a] \in Changes \cup Ends
      BY <2>1 DEF RecordInv, Shape, TypeOK, Passing
    <3> QED
      BY <3>1, EventAssumption DEF Changes, Ends
  <2> QED
    BY <1>1, <2>1, <2>2 DEF DestroyedStaysClosed, Passing, Calm, Listed
<1> QED
  BY <1>2, <1>3

(* A calm step that changes no flags leaves nobody behind on a match.      *)
LEMMA MatchStays ==
    ASSUME RecordInv, MatchInv, Calm, UNCHANGED flags
    PROVE  MatchInv'
<1> SUFFICES ASSUME EndsInOrder, TakesOnlyFromSetters PROVE MatchesAreFound' /\ WantsSomething'
  BY SetupStays DEF MatchInv, Calm
<1>1. MatchesAreFound /\ WantsSomething
  BY DEF MatchInv
<1>2. MatchesAreFound'
  <2> SUFFICES ASSUME NEW t \in Threads, linked'[t] # None, Matches(flags[linked[t]], t)'
               PROVE  \E a \in Actors : Finds(a, t)'
    BY DEF MatchesAreFound
  <2>1. linked'[t] = linked[t] /\ op'[t] = op[t] /\ \A a \in Actors : Keeps(a)
    BY DEF Calm, Listed
  <2>2. \E a \in Actors : Finds(a, t)
    BY <1>1, <2>1 DEF MatchesAreFound, Matches
  <2> QED
    BY <2>1, <2>2, FindsStays
<1>3. WantsSomething'
  BY <1>1 DEF WantsSomething, Calm, Listed
<1> QED
  BY <1>2, <1>3

(* Moves that leave a process with what it has still to empty.             *)
OwnKeeps(p) ==
    \/ pc'[p] = pc[p] /\ op'[p] = op[p] /\ again'[p] = again[p]
    \/ pc[p] \notin {"reap", "gone"} /\ pc'[p] \in {"scan", "mark", "collect"}

(* A step that lists nobody and frees nothing keeps listed records in      *)
(* their owner's groups.                                                   *)
LEMMA OwnStays ==
    ASSUME RecordInv, OwnInv, UNCHANGED <<used, owner, setup>>,
           \A t \in Threads : linked'[t] \in {linked[t], None}, \A p \in Procs : OwnKeeps(p)
    PROVE  OwnInv'
<1> SUFFICES ASSUME KeepsToItsOwn PROVE OwnWaiters'
  BY SetupStays DEF OwnInv
<1>1. OwnWaiters
  BY DEF OwnInv
<1> SUFFICES ASSUME NEW t \in Threads, Owner[t] \in setup.exits PROVE OwnWaiters!(t)'
  BY DEF OwnWaiters
<1>2. Owner[t] \in Procs /\ OwnKeeps(Owner[t])
  BY EventAssumption
<1> QED
  BY <1>1, <1>2 DEF OwnWaiters, OwnKeeps, Ending

(* A step of a thread that changes no group.                               *)
LEMMA ThreadStays ==
    ASSUME RecordInv, OwnInv, EmptyInv, MatchInv, NEW t \in Threads, NEW to, Moves(t, to),
           UNCHANGED <<used, poisoned, owner, flags, snapshot, again>>,
           \A x \in Threads : linked'[x] \in {linked[x], None},
           AtWork(t) => to \in {"collect", pc[t]},
           to \in Passing => pc[t] \in Passing
    PROVE  OwnInv' /\ EmptyInv' /\ MatchInv'
<1> USE EventAssumption DEF Actors
<1>1. Calm
  BY CalmMove
<1>2. \A p \in Procs : OwnKeeps(p)
  BY DEF Moves, RecordInv, Shape, TypeOK, OwnKeeps
<1>3. OwnInv'
  BY <1>2, OwnStays DEF Moves
<1> QED
  BY <1>1, <1>3, EmptyStays, MatchStays

(* The thread goes to sleep: its record is listed already.                 *)
LEMMA PrepareLists ==
    ASSUME EventInv, NEW t \in Threads, Prepare(t)
    PROVE  OwnInv' /\ EmptyInv' /\ MatchInv'
<1> USE EventAssumption DEF Actors, group, record, sched, pass
<1>1. /\ Moves(t, pc'[t]) /\ pc[t] = "prepare" /\ pc'[t] \in WaitPlaces \cup {"out"}
      /\ UNCHANGED <<group, snapshot, again>>
  BY DEF Prepare, Return, Goto, Moves, EventInv, RecordInv, Shape, TypeOK, WaitPlaces
<1>2. \A x \in Threads : linked'[x] \in {linked[x], None}
  BY DEF Prepare, EventInv, RecordInv, Shape, TypeOK
<1>3. ~AtWork(t) /\ pc'[t] \notin Passing
  BY <1>1 DEF AtWork, Passing, WaitPlaces
<1> QED
  BY <1>1, <1>2, <1>3, ThreadStays DEF EventInv

(* The last look at signaled before the yield lists nobody.                *)
LEMMA RecheckLists ==
    ASSUME EventInv, NEW t \in Threads, Recheck(t)
    PROVE  OwnInv' /\ EmptyInv' /\ MatchInv'
<1> USE EventAssumption DEF Actors, group, record, sched, pass
<1>1. /\ Moves(t, pc'[t]) /\ pc[t] = "recheck" /\ pc'[t] \in WaitPlaces \cup {"out"}
      /\ UNCHANGED <<group, snapshot, again>>
  BY DEF Recheck, Return, Goto, Moves, EventInv, RecordInv, Shape, TypeOK, WaitPlaces
<1>2. \A x \in Threads : linked'[x] \in {linked[x], None}
  BY DEF Recheck, EventInv, RecordInv, Shape, TypeOK
<1>3. ~AtWork(t) /\ pc'[t] \notin Passing
  BY <1>1 DEF AtWork, Passing, WaitPlaces
<1> QED
  BY <1>1, <1>2, <1>3, ThreadStays DEF EventInv

(* The scheduler picks the thread again: no list changes.                  *)
LEMMA DispatchLists ==
    ASSUME EventInv, NEW t \in Threads, Dispatch(t)
    PROVE  OwnInv' /\ EmptyInv' /\ MatchInv'
<1> USE EventAssumption DEF Actors, group, record, sched, pass
<1>1. /\ Moves(t, pc'[t]) /\ pc[t] = "asleep" /\ pc'[t] \in WaitPlaces \cup {"out"}
      /\ UNCHANGED <<group, snapshot, again>>
  BY DEF Dispatch, Return, Goto, Moves, EventInv, RecordInv, Shape, TypeOK, WaitPlaces
<1>2. \A x \in Threads : linked'[x] \in {linked[x], None}
  BY DEF Dispatch, EventInv, RecordInv, Shape, TypeOK
<1>3. ~AtWork(t) /\ pc'[t] \notin Passing
  BY <1>1 DEF AtWork, Passing, WaitPlaces
<1> QED
  BY <1>1, <1>2, <1>3, ThreadStays DEF EventInv

(* The thread sees why it was woken: no list changes.                      *)
LEMMA FinishLists ==
    ASSUME EventInv, NEW t \in Threads, Finish(t)
    PROVE  OwnInv' /\ EmptyInv' /\ MatchInv'
<1> USE EventAssumption DEF Actors, group, record, sched, pass
<1>1. /\ Moves(t, pc'[t]) /\ pc[t] = "finish" /\ pc'[t] \in WaitPlaces \cup {"out"}
      /\ UNCHANGED <<group, snapshot, again>>
  BY DEF Finish, Return, Goto, Moves, EventInv, RecordInv, Shape, TypeOK, WaitPlaces
<1>2. \A x \in Threads : linked'[x] \in {linked[x], None}
  BY DEF Finish, EventInv, RecordInv, Shape, TypeOK
<1>3. ~AtWork(t) /\ pc'[t] \notin Passing
  BY <1>1 DEF AtWork, Passing, WaitPlaces
<1> QED
  BY <1>1, <1>2, <1>3, ThreadStays DEF EventInv

(* The thread takes its own record off the list.                           *)
LEMMA UnlinkLists ==
    ASSUME EventInv, NEW t \in Threads, Unlink(t)
    PROVE  OwnInv' /\ EmptyInv' /\ MatchInv'
<1> USE EventAssumption DEF Actors, group, record, sched, pass
<1>1. /\ Moves(t, pc'[t]) /\ pc[t] = "unlink" /\ pc'[t] \in WaitPlaces \cup {"out"}
      /\ UNCHANGED <<group, snapshot, again>>
  BY DEF Unlink, Return, Goto, Moves, EventInv, RecordInv, Shape, TypeOK, WaitPlaces
<1>2. \A x \in Threads : linked'[x] \in {linked[x], None}
  BY DEF Unlink, EventInv, RecordInv, Shape, TypeOK
<1>3. ~AtWork(t) /\ pc'[t] \notin Passing
  BY <1>1 DEF AtWork, Passing, WaitPlaces
<1> QED
  BY <1>1, <1>2, <1>3, ThreadStays DEF EventInv

(* Nobody moves.                                                           *)
LEMMA StillLists ==
    ASSUME EventInv, UNCHANGED <<pc, op, setup, linked, snapshot, again, used, owner, poisoned, flags>>
    PROVE  OwnInv' /\ EmptyInv' /\ MatchInv'
<1>1. Calm
  BY DEF Calm, Keeps, Listed, AtWork
<1>2. OwnInv'
  BY OwnStays DEF OwnKeeps, EventInv
<1> QED
  BY <1>1, <1>2, EmptyStays, MatchStays DEF EventInv

(* A call begins: its thread was on no list and in no pass.                *)
LEMMA CallLists ==
    ASSUME EventInv, NEW t \in Threads, NEW o \in setup.ops[t], Call(t, o)
    PROVE  OwnInv' /\ EmptyInv' /\ MatchInv'
<1> USE EventAssumption DEF Actors, group, record, sched, pass
<1>0. /\ pc[t] = "out" /\ pc' = [pc EXCEPT ![t] = First(o)] /\ op' = [op EXCEPT ![t] = o]
      /\ UNCHANGED <<group, linked, sched, pass, returned, setup>>
  BY DEF Call, Goto
<1>o. o.call \in {"wait", "set", "clear", "pulse", "poison", "reset", "destroy", "create"}
  BY OpTypes DEF EventInv, RecordInv, Shape
<1>f. First(o) \in {"link", "apply", "mark", "reset", "create"}
  BY <1>o DEF First
<1>p. /\ pc'[t] = First(o) /\ \A x \in Actors \ {t} : pc'[x] = pc[x] /\ op'[x] = op[x]
  BY <1>0 DEF EventInv, RecordInv, Shape, TypeOK
<1>l. linked[t] = None
  BY <1>0 DEF EventInv, RecordInv, Records, WaitPlaces
<1>1. Calm
  <2>1. \A a \in Actors : Keeps(a)
    BY <1>0, <1>f, <1>p DEF Keeps, AtWork, Passing
  <2>2. \A x \in Threads : Listed(x)
    BY <1>0, <1>p, <1>l DEF Listed
  <2> QED
    BY <1>0, <2>1, <2>2 DEF Calm
<1>2. OwnInv'
  <2>1. \A p \in Procs : OwnKeeps(p)
    BY <1>0, <1>p DEF OwnKeeps
  <2> QED
    BY <1>0, <2>1, OwnStays DEF EventInv
<1> QED
  BY <1>0, <1>1, <1>2, EmptyStays, MatchStays DEF EventInv

(* A record joins the list of a group that lives and does not match.       *)
LEMMA LinkLists ==
    ASSUME EventInv, NEW t \in Threads, Link(t)
    PROVE  OwnInv' /\ EmptyInv' /\ MatchInv'
<1> USE EventAssumption DEF Actors, group, record, sched, pass
<1> DEFINE g == op[t].g
<1>1. /\ Moves(t, pc'[t]) /\ pc[t] = "link" /\ pc'[t] \in {"out", "prepare"}
      /\ UNCHANGED <<group, snapshot, again, op, setup>>
  BY DEF Link, Return, Goto, Moves, EventInv, RecordInv, Shape, TypeOK, WaitPlaces
<1>2. CASE linked' = linked
  <2>1. ~AtWork(t) /\ pc'[t] \notin Passing
    BY <1>1 DEF AtWork, Passing
  <2> QED
    BY <1>1, <1>2, <2>1, ThreadStays DEF EventInv
<1>3. CASE linked' # linked
  <2>0. /\ used[g] /\ ~poisoned[g] /\ ~Matches(flags[g], t) /\ linked' = [linked EXCEPT ![t] = g]
    BY <1>3 DEF Link
  <2>1. /\ linked'[t] = g /\ \A x \in Threads \ {t} : linked'[x] = linked[x]
    BY <2>0 DEF EventInv, RecordInv, Shape, TypeOK
  <2>3. \A a \in Actors : pc'[a] = pc[a] \/ (a = t /\ pc[a] = "link" /\ pc'[a] \in {"out", "prepare"})
    BY <1>1 DEF Moves, EventInv, RecordInv, Shape, TypeOK
  <2>4. \A a \in Actors : Keeps(a)
    BY <1>1, <2>3 DEF Keeps, AtWork, Passing
  <2>5. op[t] \in Waits /\ op[t] \in setup.ops[t] /\ op[t].call = "wait" /\ pc[Owner[t]] = "out" /\ g \in Groups
    <3>1. op[t] \in Waits /\ op[t] \in setup.ops[t] \cup {NoOp} /\ pc[Owner[t]] = "out"
      BY <1>1 DEF EventInv, RecordInv, Shape, TypeOK, WaitPlaces
    <3> QED
      BY <3>1 DEF Waits, NoOp
  <2>6. OwnInv'
    <3> SUFFICES ASSUME KeepsToItsOwn PROVE OwnWaiters'
      BY <1>1, SetupStays DEF OwnInv
    <3>1. OwnWaiters
      BY DEF EventInv, OwnInv
    <3> SUFFICES ASSUME NEW x \in Threads, Owner[x] \in setup.exits PROVE OwnWaiters!(x)'
      BY <1>1 DEF OwnWaiters
    <3>2. Owner[x] \in Procs /\ pc'[Owner[x]] = pc[Owner[x]]
      BY <2>3
    <3>3. CASE x = t
      BY <1>1, <2>1, <2>5, <3>1, <3>2, <3>3 DEF OwnWaiters, Ending
    <3>4. CASE x # t
      BY <1>1, <2>1, <3>1, <3>2, <3>4 DEF OwnWaiters
    <3> QED
      BY <3>3, <3>4
  <2>7. EmptyInv'
    <3> SUFFICES ASSUME EndsInOrder PROVE DeadGroupsAreEmpty' /\ DestroyedStaysClosed'
      BY <1>1, SetupStays DEF EmptyInv
    <3>1. DeadGroupsAreEmpty /\ DestroyedStaysClosed
      BY DEF EventInv, EmptyInv
    <3>2. DeadGroupsAreEmpty'
      <4> SUFFICES ASSUME NEW x \in Threads, linked'[x] # None
                   PROVE  /\ used[linked'[x]]
                          /\ poisoned[linked'[x]] => \E a \in Actors : Finds(a, x)' /\ Cancels(a)'
        BY <1>1 DEF DeadGroupsAreEmpty
      <4>1. CASE x = t
        BY <2>0, <2>1, <4>1
      <4>2. CASE x # t
        <5>1. linked'[x] = linked[x] /\ op'[x] = op[x]
          BY <1>1, <2>1, <4>2
        <5> QED
          BY <2>4, <3>1, <5>1, FindsStays DEF DeadGroupsAreEmpty
      <4> QED
        BY <4>1, <4>2
    <3>3. DestroyedStaysClosed'
      <4> SUFFICES ASSUME NEW a \in Actors, pc'[a] \in {"collect", "wake", "free"}, op[a].call = "destroy"
                   PROVE  /\ used[op[a].g] => poisoned[op[a].g]
                          /\ ~AtWork(a)' => \A x \in Threads : linked'[x] # op[a].g
        BY <1>1 DEF DestroyedStaysClosed
      <4>1. pc[a] = pc'[a] /\ (AtWork(a)' <=> AtWork(a))
        BY <1>1, <2>3 DEF AtWork
      <4>2. used[op[a].g] => poisoned[op[a].g]
        BY <3>1, <4>1 DEF DestroyedStaysClosed
      <4>3. op[a].g # g
        BY <2>0, <4>2
      <4> QED
        BY <2>1, <3>1, <4>1, <4>2, <4>3 DEF DestroyedStaysClosed
    <3> QED
      BY <3>2, <3>3
  <2>8. MatchInv'
    <3> SUFFICES ASSUME EndsInOrder, TakesOnlyFromSetters PROVE MatchesAreFound' /\ WantsSomething'
      BY <1>1, SetupStays DEF MatchInv
    <3>1. MatchesAreFound /\ WantsSomething
      BY DEF EventInv, MatchInv
    <3>2. MatchesAreFound'
      <4> SUFFICES ASSUME NEW x \in Threads, linked'[x] # None, Matches(flags[linked[x]], x)'
                   PROVE  \E a \in Actors : Finds(a, x)'
        BY DEF MatchesAreFound
      <4>1. x # t
        BY <1>1, <2>0, <2>1 DEF Matches
      <4>2. linked'[x] = linked[x] /\ op'[x] = op[x]
        BY <1>1, <2>1, <4>1
      <4>3. Matches(flags[linked[x]], x)
        BY <1>1, <4>2 DEF Matches
      <4> QED
        BY <2>4, <3>1, <4>2, <4>3, FindsStays DEF MatchesAreFound
    <3>3. WantsSomething'
      <4>1. op[t].mode = "ALL_SET" => op[t].pattern # {}
        BY <2>0 DEF Matches, Match
      <4> QED
        BY <1>1, <2>1, <3>1, <4>1 DEF WantsSomething
    <3> QED
      BY <3>2, <3>3
  <2> QED
    BY <2>6, <2>7, <2>8
<1> QED
  BY <1>2, <1>3

(* A pass that wakes keeps what it has still to do.                        *)
LEMMA WakeLists ==
    ASSUME EventInv, NEW a \in Actors, Wake(a)
    PROVE  OwnInv' /\ EmptyInv' /\ MatchInv'
<1> USE EventAssumption DEF Actors, group, record, sched, pass
<1>1. /\ Moves(a, "wake") /\ pc[a] = "wake" /\ UNCHANGED <<group, snapshot, again, linked, setup, op>>
  BY DEF Wake, Goto, Moves
<1>2. Calm
  BY <1>1, CalmMove DEF AtWork, Passing, EventInv
<1>3. \A p \in Procs : OwnKeeps(p)
  BY <1>1 DEF Moves, EventInv, RecordInv, Shape, TypeOK, OwnKeeps
<1> QED
  BY <1>1, <1>2, <1>3, OwnStays, EmptyStays, MatchStays DEF EventInv

(* A pass over a full batch looks again; any other has left nobody.        *)
LEMMA WakeDoneLists ==
    ASSUME EventInv, NEW a \in Actors, WakeDone(a)
    PROVE  OwnInv' /\ EmptyInv' /\ MatchInv'
<1> USE EventAssumption DEF Actors, group, record, sched, pass
<1> DEFINE to == IF again[a] THEN "collect" ELSE After(a)
<1>1. /\ Moves(a, to) /\ pc[a] = "wake" /\ UNCHANGED <<group, snapshot, again, linked, setup, op>>
  BY DEF WakeDone, Goto, Moves, After
<1>2. Calm
  BY <1>1, CalmMove DEF AtWork, Passing, EventInv
<1>3. OwnInv'
  <2>1. \A p \in Procs \ {a} : pc'[p] = pc[p] /\ op'[p] = op[p] /\ again'[p] = again[p]
    BY <1>1 DEF Moves, EventInv, RecordInv, Shape, TypeOK
  <2>2. pc'[a] = to
    BY <1>1 DEF Moves, EventInv, RecordInv, Shape, TypeOK
  <2>3. CASE a \in Threads \/ again[a]
    <3>1. \A p \in Procs : OwnKeeps(p)
      BY <1>1, <2>1, <2>2, <2>3 DEF OwnKeeps
    <3> QED
      BY <1>1, <3>1, OwnStays DEF EventInv
  <2>4. CASE a \in Procs /\ ~again[a]
    <3>0. op[a].call = "destroy" /\ pc'[a] = "free"
      BY <1>1, <2>2, <2>4 DEF After, EventInv, RecordInv, Shape, Ending
    <3> SUFFICES ASSUME KeepsToItsOwn PROVE OwnWaiters'
      BY <1>1, SetupStays DEF OwnInv
    <3>1. OwnWaiters
      BY DEF EventInv, OwnInv
    <3> SUFFICES ASSUME NEW t \in Threads, Owner[t] \in setup.exits PROVE OwnWaiters!(t)'
      BY <1>1 DEF OwnWaiters
    <3>2. CASE Owner[t] = a
      BY <1>1, <2>4, <3>0, <3>1, <3>2 DEF OwnWaiters, Ending
    <3>3. CASE Owner[t] # a
      BY <1>1, <2>1, <3>1, <3>3 DEF OwnWaiters
    <3> QED
      BY <3>2, <3>3
  <2> QED
    BY <2>3, <2>4
<1> QED
  BY <1>1, <1>2, <1>3, EmptyStays, MatchStays DEF EventInv

(* A change of the flags starts a pass that finds all that match now.      *)
LEMMA ApplyLists ==
    ASSUME EventInv, NEW a \in Actors, Apply(a)
    PROVE  OwnInv' /\ EmptyInv' /\ MatchInv'
<1> USE EventAssumption DEF Actors, group, record, sched, pass
<1> DEFINE o == op[a]
<1>1. /\ Moves(a, pc'[a]) /\ pc[a] = "apply" /\ o \in Changes
      /\ UNCHANGED <<used, poisoned, owner, again, linked, op, setup>>
      /\ \A x \in Actors \ {a} : pc'[x] = pc[x] /\ snapshot'[x] = snapshot[x]
  BY DEF Apply, Goto, Moves, EventInv, RecordInv, Shape, TypeOK
<1>2. /\ o.g \in Groups /\ o.bits \subseteq Bits /\ o.call \in {"set", "clear", "pulse"} /\ a \notin Procs
  BY <1>1 DEF Changes, EventInv, RecordInv, Shape, Ending
<1>3. Calm
  <2>1. Keeps(a)
    BY <1>1, <1>2 DEF Keeps, AtWork
  <2>2. \A x \in Actors \ {a} : Keeps(x)
    BY <1>1 DEF Keeps, AtWork
  <2> QED
    BY <1>1, <2>1, <2>2 DEF Calm, Listed
<1>4. OwnInv'
  <2>1. \A p \in Procs : OwnKeeps(p)
    BY <1>1, <1>2 DEF OwnKeeps
  <2> QED
    BY <1>1, <2>1, OwnStays DEF EventInv
<1>5. EmptyInv'
  BY <1>1, <1>3, EmptyStays DEF EventInv
<1>6. MatchInv'
  <2>1. CASE UNCHANGED flags
    BY <1>3, <2>1, MatchStays DEF EventInv
  <2>2. CASE ~UNCHANGED flags
    <3> DEFINE f == IF o.call = "pulse" THEN flags[o.g] \ o.bits ELSE Applied(o)
    <3>0. /\ pc'[a] = "collect" /\ snapshot'[a] = Applied(o) /\ flags' = [flags EXCEPT ![o.g] = f]
      BY <2>2 DEF Apply, Goto, EventInv, RecordInv, Shape, TypeOK
    <3>f. flags \in [Groups -> SUBSET Bits]
      BY HasDataTypes DEF DataTypes, EventInv
    <3>1. flags'[o.g] = f /\ \A g \in Groups \ {o.g} : flags'[g] = flags[g]
      <4> HIDE DEF o, f
      <4> QED
        BY <1>2, <3>0, <3>f
    <3> SUFFICES ASSUME EndsInOrder, TakesOnlyFromSetters PROVE MatchesAreFound' /\ WantsSomething'
      BY <1>1, SetupStays DEF MatchInv
    <3>2. MatchesAreFound /\ WantsSomething
      BY DEF EventInv, MatchInv
    <3>3. MatchesAreFound'
      <4> SUFFICES ASSUME NEW t \in Threads, linked[t] # None, Matches(flags'[linked[t]], t)
                   PROVE  \E x \in Actors : Finds(x, t)'
        BY <1>1 DEF MatchesAreFound, Matches
      <4>0. op[t] \in Waits /\ op[t].call = "wait" /\ linked[t] \in Groups
        BY DEF EventInv, RecordInv, Records, Waits, Shape, TypeOK
      <4>1. CASE linked[t] = o.g
        <5>1. Matches(Applied(o), t)
          <6>1. CASE o.call # "pulse"
            BY <3>1, <4>1, <6>1
          <6>2. CASE o.call = "pulse"
            <7>1. op[t].mode \in {"ALL_SET", "ANY_SET"}
              <8>1. a \in Threads /\ o \in setup.ops[a] /\ op[t] \in setup.ops[t]
                BY <1>2, <4>0, <6>2 DEF EventInv, RecordInv, Shape, NoOp
              <8> QED
                BY <4>0, <6>2, <8>1 DEF TakesOnlyFromSetters, Never
            <7>2. Match(flags[o.g] \ o.bits, op[t].pattern, op[t].mode)
              BY <3>1, <4>1, <6>2 DEF Matches
            <7>3. Applied(o) = flags[o.g] \cup o.bits
              BY <6>2 DEF Applied
            <7> QED
              BY <7>1, <7>2, <7>3 DEF Matches, Match
          <6> QED
            BY <6>1, <6>2
        <5>2. Matches(snapshot[a], t)'
          BY <1>1, <3>0, <5>1 DEF Matches
        <5> QED
          BY <1>1, <3>0, <4>1, <5>2 DEF Finds
      <4>2. CASE linked[t] # o.g
        <5>1. Matches(flags[linked[t]], t)
          BY <3>1, <4>0, <4>2
        <5> QED
          BY <1>1, <1>3, <3>2, <5>1, FindsStays DEF MatchesAreFound, Calm
      <4> QED
        BY <4>1, <4>2
    <3> QED
      BY <1>1, <3>2, <3>3 DEF WantsSomething
  <2> QED
    BY <2>1, <2>2
<1> QED
  BY <1>4, <1>5, <1>6

(* A group is poisoned: the pass that follows finds all of its list.       *)
LEMMA MarkLists ==
    ASSUME EventInv, NEW a \in Actors, Mark(a)
    PROVE  OwnInv' /\ EmptyInv' /\ MatchInv'
<1> USE EventAssumption DEF Actors, group, record, sched, pass
<1> DEFINE g == op[a].g
<1>1. /\ pc[a] = "mark" /\ Moves(a, pc'[a]) /\ pc'[a] \in {"collect", Done(a)}
      /\ UNCHANGED <<used, owner, flags, again, linked, op, setup>>
      /\ \A x \in Actors \ {a} : pc'[x] = pc[x] /\ snapshot'[x] = snapshot[x]
  BY DEF Mark, Goto, Moves, EventInv, RecordInv, Shape, TypeOK
<1>2. g \in Groups /\ g # None /\ op[a] \in Ends /\ op[a].call \in {"poison", "destroy"}
  BY <1>1 DEF EventInv, RecordInv, Shape, Ends
<1>3. \A p \in Procs : OwnKeeps(p)
  BY <1>1 DEF OwnKeeps, Done
<1>4. OwnInv'
  BY <1>1, <1>3, OwnStays DEF EventInv
<1>5. \A x \in Actors \ {a} : Keeps(x)
  BY <1>1 DEF Keeps, AtWork
<1>6. CASE ~used[g]
  <2>1. pc'[a] = Done(a) /\ UNCHANGED <<poisoned, snapshot>>
    BY <1>6 DEF Mark, Goto, EventInv, RecordInv, Shape, TypeOK
  <2>2. Keeps(a)
    BY <1>1, <2>1 DEF Keeps, AtWork, Passing, Done
  <2>3. Calm
    BY <1>1, <1>5, <2>2 DEF Calm, Listed
  <2> QED
    BY <1>1, <1>4, <2>1, <2>3, EmptyStays, MatchStays DEF EventInv
<1>7. CASE used[g]
  <2>0. poisoned \in [Groups -> BOOLEAN]
    BY HasDataTypes DEF DataTypes, EventInv
  <2>1. /\ pc'[a] = "collect" /\ poisoned' = [poisoned EXCEPT ![g] = TRUE]
    BY <1>7 DEF Mark, Goto, EventInv, RecordInv, Shape, TypeOK
  <2>2. poisoned'[g] /\ \A h \in Groups \ {g} : poisoned'[h] = poisoned[h]
    <3> HIDE DEF g
    <3> QED
      BY <1>2, <2>0, <2>1
  <2>3. ASSUME NEW x \in Actors, NEW t \in Threads, Finds(x, t)
        PROVE  Finds(x, t)' /\ (Cancels(x) => Cancels(x)')
    <3>1. x # a
      BY <1>1, <2>3 DEF Finds
    <3> QED
      BY <1>1, <1>5, <2>3, <3>1, FindsStays
  <2>4. EmptyInv'
    <3> SUFFICES ASSUME EndsInOrder PROVE DeadGroupsAreEmpty' /\ DestroyedStaysClosed'
      BY <1>1, SetupStays DEF EmptyInv
    <3>1. DeadGroupsAreEmpty /\ DestroyedStaysClosed
      BY DEF EventInv, EmptyInv
    <3>2. DeadGroupsAreEmpty'
      <4> SUFFICES ASSUME NEW t \in Threads, linked[t] # None
                   PROVE  /\ used[linked[t]]
                          /\ poisoned'[linked[t]] => \E x \in Actors : Finds(x, t)' /\ Cancels(x)'
        BY <1>1 DEF DeadGroupsAreEmpty
      <4>1. used[linked[t]] /\ (poisoned[linked[t]] => \E x \in Actors : Finds(x, t) /\ Cancels(x))
        BY <3>1 DEF DeadGroupsAreEmpty
      <4>2. CASE linked[t] = g
        <5>1. Finds(a, t)' /\ Cancels(a)'
          BY <1>1, <1>2, <2>1, <4>2 DEF Finds, Cancels
        <5> QED
          BY <4>1, <5>1
      <4>3. CASE linked[t] # g
        <5>1. linked[t] \in Groups
          BY HasDataTypes DEF DataTypes, EventInv
        <5> QED
          BY <2>2, <2>3, <4>1, <4>3, <5>1
      <4> QED
        BY <4>2, <4>3
    <3>3. DestroyedStaysClosed'
      <4> SUFFICES ASSUME NEW x \in Actors, pc'[x] \in {"collect", "wake", "free"}, op[x].call = "destroy"
                   PROVE  /\ used[op[x].g] => poisoned'[op[x].g]
                          /\ ~AtWork(x)' => \A t \in Threads : linked[t] # op[x].g
        BY <1>1 DEF DestroyedStaysClosed
      <4>1. CASE x = a
        BY <2>1, <2>2, <4>1 DEF AtWork
      <4>2. CASE x # a
        <5>1. /\ used[op[x].g] => poisoned[op[x].g]
              /\ ~AtWork(x) => \A t \in Threads : linked[t] # op[x].g
              /\ AtWork(x)' <=> AtWork(x)
          BY <1>1, <3>1, <4>2 DEF DestroyedStaysClosed, AtWork
        <5>2. op[x].g \in Groups
          <6>1. op[x] \in Changes \cup Ends
            BY <1>1, <4>2 DEF EventInv, RecordInv, Shape, TypeOK
          <6> QED
            BY <6>1 DEF Changes, Ends
        <5> QED
          BY <2>2, <5>1, <5>2
      <4> QED
        BY <4>1, <4>2
    <3> QED
      BY <3>2, <3>3
  <2>5. MatchInv'
    <3> SUFFICES ASSUME EndsInOrder, TakesOnlyFromSetters PROVE MatchesAreFound' /\ WantsSomething'
      BY <1>1, SetupStays DEF MatchInv
    <3>1. MatchesAreFound /\ WantsSomething
      BY DEF EventInv, MatchInv
    <3>2. MatchesAreFound'
      <4> SUFFICES ASSUME NEW t \in Threads, linked[t] # None, Matches(flags[linked[t]], t)
                   PROVE  \E x \in Actors : Finds(x, t)'
        BY <1>1 DEF MatchesAreFound, Matches
      <4> QED
        BY <2>3, <3>1 DEF MatchesAreFound
    <3> QED
      BY <1>1, <3>1, <3>2 DEF WantsSomething
  <2> QED
    BY <1>4, <2>4, <2>5
<1> QED
  BY <1>6, <1>7

(* A pass takes a batch off the list; if it was not a full one, nobody it  *)
(* could find is left.                                                     *)
LEMMA CollectLists ==
    ASSUME EventInv, NEW a \in Actors, Collect(a)
    PROVE  OwnInv' /\ EmptyInv' /\ MatchInv'
<1> USE EventAssumption DEF Actors, group, record, sched, pass
<1> DEFINE g == op[a].g
<1>0. PICK b \in SUBSET Threads : Collect(a)!(b)
  BY DEF Collect
<1>1. /\ pc[a] = "collect" /\ UNCHANGED <<group, op, setup, snapshot>>
      /\ pc'[a] = "wake" /\ \A x \in Actors \ {a} : pc'[x] = pc[x] /\ again'[x] = again[x]
      /\ again'[a] = (Cardinality(b) = BatchMax)
      /\ b = Candidates(a) \/ Cardinality(b) = BatchMax
  BY <1>0 DEF Goto, MarkedBatch, EventInv, RecordInv, Shape, TypeOK
<1>2. /\ \A t \in Threads : linked'[t] # None => linked'[t] = linked[t] /\ t \notin b
      /\ \A t \in Threads : linked'[t] \in {linked[t], None}
  BY <1>0
<1>3. op[a] \in Changes \cup Ends /\ g \in Groups /\ g # None
  <2>1. op[a] \in Changes \cup Ends
    BY <1>1 DEF EventInv, RecordInv, Shape, TypeOK
  <2> QED
    BY <2>1 DEF Changes, Ends
<1>4. ASSUME NEW x \in Actors, NEW t \in Threads, Finds(x, t), linked'[t] # None
      PROVE  Finds(x, t)' /\ (Cancels(x) => Cancels(x)')
  <2>1. CASE x = a
    <3>1. t \in Candidates(a) /\ t \notin b
      BY <1>2, <1>4, <2>1 DEF Finds, Candidates
    <3>2. again'[a]
      BY <1>1, <3>1
    <3> QED
      BY <1>1, <1>2, <1>4, <2>1, <3>2 DEF Finds, Cancels, Matches
  <2>2. CASE x # a
    BY <1>1, <1>2, <1>4, <2>2 DEF Finds, Cancels, Matches
  <2> QED
    BY <2>1, <2>2
<1>5. ASSUME Cancels(a), ~again'[a], NEW t \in Threads, linked'[t] = g
      PROVE  FALSE
  BY <1>1, <1>2, <1>3, <1>5 DEF Candidates
<1>6. OwnInv'
  <2> SUFFICES ASSUME KeepsToItsOwn PROVE OwnWaiters'
    BY <1>1, SetupStays DEF OwnInv
  <2>1. OwnWaiters
    BY DEF EventInv, OwnInv
  <2> SUFFICES ASSUME NEW t \in Threads, Owner[t] \in setup.exits PROVE OwnWaiters!(t)'
    BY <1>1 DEF OwnWaiters
  <2>2. CASE Owner[t] = a
    <3>1. op[a].call = "destroy"
      BY <1>1, <2>2 DEF EventInv, RecordInv, Shape, Ending
    <3>2. linked'[t] = g => again'[a]
      BY <1>5, <3>1 DEF Cancels
    <3> QED
      BY <1>1, <1>2, <2>1, <2>2, <3>2 DEF OwnWaiters, Ending
  <2>3. CASE Owner[t] # a
    BY <1>1, <1>2, <2>1, <2>3 DEF OwnWaiters
  <2> QED
    BY <2>2, <2>3
<1>7. EmptyInv'
  <2> SUFFICES ASSUME EndsInOrder PROVE DeadGroupsAreEmpty' /\ DestroyedStaysClosed'
    BY <1>1, SetupStays DEF EmptyInv
  <2>1. DeadGroupsAreEmpty /\ DestroyedStaysClosed
    BY DEF EventInv, EmptyInv
  <2>2. DeadGroupsAreEmpty'
    <3> SUFFICES ASSUME NEW t \in Threads, linked'[t] # None
                 PROVE  /\ used[linked'[t]]
                        /\ poisoned[linked'[t]] => \E x \in Actors : Finds(x, t)' /\ Cancels(x)'
      BY <1>1 DEF DeadGroupsAreEmpty
    <3> QED
      BY <1>2, <1>4, <2>1 DEF DeadGroupsAreEmpty
  <2>3. DestroyedStaysClosed'
    <3> SUFFICES ASSUME NEW x \in Actors, pc'[x] \in {"collect", "wake", "free"}, op[x].call = "destroy"
                 PROVE  /\ used[op[x].g] => poisoned[op[x].g]
                        /\ ~AtWork(x)' => \A t \in Threads : linked'[t] # op[x].g
      BY <1>1 DEF DestroyedStaysClosed
    <3>1. CASE x = a
      BY <1>1, <1>5, <2>1, <3>1 DEF DestroyedStaysClosed, AtWork, Cancels
    <3>2. CASE x # a
      <4>1. op[x].g # None
        <5>1. op[x] \in Changes \cup Ends
          BY <1>1, <3>2 DEF EventInv, RecordInv, Shape, TypeOK
        <5> QED
          BY <5>1 DEF Changes, Ends
      <4> QED
        BY <1>1, <1>2, <2>1, <3>2, <4>1 DEF DestroyedStaysClosed, AtWork
    <3> QED
      BY <3>1, <3>2
  <2> QED
    BY <2>2, <2>3
<1>8. MatchInv'
  <2> SUFFICES ASSUME EndsInOrder, TakesOnlyFromSetters PROVE MatchesAreFound' /\ WantsSomething'
    BY <1>1, SetupStays DEF MatchInv
  <2>1. MatchesAreFound /\ WantsSomething
    BY DEF EventInv, MatchInv
  <2>2. MatchesAreFound'
    <3> SUFFICES ASSUME NEW t \in Threads, linked'[t] # None, Matches(flags[linked'[t]], t)
                 PROVE  \E x \in Actors : Finds(x, t)'
      BY <1>1 DEF MatchesAreFound, Matches
    <3> QED
      BY <1>2, <1>4, <2>1 DEF MatchesAreFound
  <2>3. WantsSomething'
    BY <1>1, <1>2, <2>1 DEF WantsSomething
  <2> QED
    BY <2>2, <2>3
<1> QED
  BY <1>6, <1>7, <1>8

(* A listed record is that of a wait its thread may make.                  *)
LEMMA ListedWaits ==
    ASSUME RecordInv, NEW t \in Threads, linked[t] # None
    PROVE  /\ op[t] \in setup.ops[t] /\ op[t].call = "wait" /\ op[t].g = linked[t]
           /\ linked[t] \in Groups /\ op[t] \in Waits
<1>1. op[t] \in Waits /\ op[t] \in setup.ops[t] \cup {NoOp} /\ op[t].g = linked[t]
  BY DEF RecordInv, Shape, Records
<1> QED
  BY <1>1 DEF Waits, NoOp

(* The groups of processes that may end are destroyed by their end only.   *)
LEMMA NotAnothers ==
    ASSUME RecordInv, KeepsToItsOwn, NEW a \in Actors, pc[a] = "free",
           NEW t \in Threads, Owner[t] \in setup.exits, NEW o \in setup.ops[t], o.call = "wait"
    PROVE  o.g # op[a].g \/ (a \in Procs /\ owner[op[a].g] = a)
<1> USE EventAssumption DEF Actors
<1>1. OnlyItsEndDestroys(o.g)
  BY DEF KeepsToItsOwn
<1>2. op[a].call = "destroy"
  BY DEF RecordInv, Shape
<1>3. CASE a \in Threads
  <2>1. op[a] \in setup.ops[a]
    BY <1>2, <1>3 DEF RecordInv, Shape, NoOp
  <2> QED
    BY <1>1, <1>2, <1>3, <2>1 DEF OnlyItsEndDestroys
<1>4. CASE a \in Procs
  BY <1>1, <1>4 DEF RecordInv, DestroysItsOwn, Ending
<1> QED
  BY <1>3, <1>4

(* The second half of destroy: nobody is on the list any more.             *)
LEMMA FreeLists ==
    ASSUME EventInv, NEW a \in Actors, Free(a)
    PROVE  OwnInv' /\ EmptyInv' /\ MatchInv'
<1> USE EventAssumption DEF Actors, group, record, sched, pass
<1> DEFINE g == op[a].g
<1>1. /\ pc[a] = "free" /\ UNCHANGED <<linked, op, setup, snapshot, again>>
      /\ pc'[a] = Done(a) /\ \A x \in Actors \ {a} : pc'[x] = pc[x]
  BY DEF Free, Goto, EventInv, RecordInv, Shape, TypeOK
<1>2. g \in Groups /\ g # None /\ op[a].call = "destroy"
  BY <1>1 DEF EventInv, RecordInv, Shape, Ends
<1>3. /\ ~used'[g] /\ \A h \in Groups \ {g} :
            used'[h] = used[h] /\ poisoned'[h] = poisoned[h] /\ owner'[h] = owner[h] /\ flags'[h] = flags[h]
  <2>1. DataTypes
    BY HasDataTypes DEF EventInv
  <2> QED
    BY <1>2, <2>1 DEF DataTypes, Free
<1>4. Calm
  <2>1. Keeps(a)
    BY <1>1 DEF Keeps, AtWork, Passing, Done
  <2>2. \A x \in Actors \ {a} : Keeps(x)
    BY <1>1 DEF Keeps, AtWork
  <2> QED
    BY <1>1, <2>1, <2>2 DEF Calm, Listed
<1>5. OwnInv'
  <2> SUFFICES ASSUME KeepsToItsOwn PROVE OwnWaiters'
    BY <1>1, SetupStays DEF OwnInv
  <2>1. OwnWaiters
    BY DEF EventInv, OwnInv
  <2> SUFFICES ASSUME NEW t \in Threads, Owner[t] \in setup.exits PROVE OwnWaiters!(t)'
    BY <1>1 DEF OwnWaiters
  <2>2. \A o \in setup.ops[t] : o.call = "wait" => o.g # g \/ (a \in Procs /\ owner[g] = a)
    BY <1>1, NotAnothers DEF EventInv
  <2>3. ASSUME pc'[Owner[t]] = "out", NEW o \in setup.ops[t], o.call = "wait"
        PROVE  used'[o.g] /\ owner'[o.g] = Owner[t]
    <3>1. Owner[t] # a /\ pc[Owner[t]] = "out"
      BY <1>1, <2>3 DEF Done
    <3>2. used[o.g] /\ owner[o.g] = Owner[t]
      BY <2>1, <2>3, <3>1 DEF OwnWaiters
    <3>3. o.g \in Groups
      BY <2>3, OpTypes DEF Waits, EventInv, RecordInv, Shape
    <3> QED
      BY <1>3, <2>2, <2>3, <3>1, <3>2, <3>3
  <2>4. ASSUME linked[t] # None
        PROVE  /\ used'[linked[t]] /\ owner'[linked[t]] = Owner[t]
               /\ pc'[Owner[t]] \notin {"reap", "gone"}
               /\ pc'[Owner[t]] \in Ending => Owner[t] # a
    <3>1. /\ op[t] \in setup.ops[t] /\ op[t].call = "wait" /\ op[t].g = linked[t] /\ linked[t] \in Groups
      BY <2>4, ListedWaits DEF EventInv
    <3>2. /\ used[linked[t]] /\ owner[linked[t]] = Owner[t] /\ pc[Owner[t]] \notin {"reap", "gone"}
          /\ pc[Owner[t]] # "free" \/ op[Owner[t]].g # linked[t]
      BY <2>1, <2>4 DEF OwnWaiters, Ending
    <3>3. linked[t] # g
      BY <1>1, <2>2, <3>1, <3>2
    <3> QED
      BY <1>1, <1>3, <3>1, <3>2, <3>3 DEF Done, Ending
  <2> QED
    BY <1>1, <2>1, <2>3, <2>4 DEF OwnWaiters
<1>e. ASSUME EndsInOrder
      PROVE  DeadGroupsAreEmpty /\ DestroyedStaysClosed /\ \A t \in Threads : linked[t] # g
  BY <1>1, <1>2, <1>e DEF EventInv, EmptyInv, DestroyedStaysClosed, AtWork
<1>6. EmptyInv'
  <2> SUFFICES ASSUME EndsInOrder PROVE DeadGroupsAreEmpty' /\ DestroyedStaysClosed'
    BY <1>1, SetupStays DEF EmptyInv
  <2>2. DeadGroupsAreEmpty'
    <3> SUFFICES ASSUME NEW t \in Threads, linked[t] # None
                 PROVE  /\ used'[linked[t]]
                        /\ poisoned'[linked[t]] => \E x \in Actors : Finds(x, t)' /\ Cancels(x)'
      BY <1>1 DEF DeadGroupsAreEmpty
    <3>1. linked[t] # g /\ linked[t] \in Groups
      BY <1>e, HasDataTypes DEF DataTypes, EventInv
    <3> QED
      BY <1>1, <1>3, <1>4, <1>e, <3>1, FindsStays DEF DeadGroupsAreEmpty, Calm
  <2>3. DestroyedStaysClosed'
    <3> SUFFICES ASSUME NEW x \in Actors, pc'[x] \in {"collect", "wake", "free"}, op[x].call = "destroy"
                 PROVE  /\ used'[op[x].g] => poisoned'[op[x].g]
                        /\ ~AtWork(x)' => \A t \in Threads : linked[t] # op[x].g
      BY <1>1 DEF DestroyedStaysClosed
    <3>1. x # a
      BY <1>1 DEF Done
    <3>2. op[x].g \in Groups
      <4>1. op[x] \in Changes \cup Ends
        BY <1>1, <3>1 DEF EventInv, RecordInv, Shape, TypeOK
      <4> QED
        BY <4>1 DEF Changes, Ends
    <3> QED
      BY <1>1, <1>3, <1>e, <3>1, <3>2 DEF DestroyedStaysClosed, AtWork
  <2> QED
    BY <2>2, <2>3
<1>7. MatchInv'
  <2> SUFFICES ASSUME EndsInOrder, TakesOnlyFromSetters PROVE MatchesAreFound' /\ WantsSomething'
    BY <1>1, SetupStays DEF MatchInv
  <2>1. MatchesAreFound /\ WantsSomething
    BY DEF EventInv, MatchInv
  <2>2. MatchesAreFound'
    <3> SUFFICES ASSUME NEW t \in Threads, linked[t] # None, Matches(flags'[linked[t]], t)
                 PROVE  \E x \in Actors : Finds(x, t)'
      BY <1>1 DEF MatchesAreFound, Matches
    <3>1. linked[t] # g /\ linked[t] \in Groups
      BY <1>e, HasDataTypes DEF DataTypes, EventInv
    <3> QED
      BY <1>1, <1>3, <1>4, <2>1, <3>1, FindsStays DEF MatchesAreFound, Calm
  <2> QED
    BY <1>1, <2>1, <2>2 DEF WantsSomething
<1> QED
  BY <1>5, <1>6, <1>7

(* A reset takes the poison and the flags away, without a pass.            *)
LEMMA ResetLists ==
    ASSUME EventInv, NEW t \in Threads, Reset(t)
    PROVE  OwnInv' /\ EmptyInv' /\ MatchInv'
<1> USE EventAssumption DEF Actors, group, record, sched, pass
<1> DEFINE g == op[t].g
<1>1. /\ pc[t] = "reset" /\ UNCHANGED <<linked, op, setup, snapshot, again, used, owner>>
      /\ pc'[t] = "out" /\ \A x \in Actors \ {t} : pc'[x] = pc[x]
  BY DEF Reset, Goto, EventInv, RecordInv, Shape, TypeOK
<1>2. op[t].call = "reset" /\ op[t] \in setup.ops[t] /\ g \in Groups
  BY <1>1 DEF EventInv, RecordInv, Shape, Ends, NoOp
<1>3. /\ \A h \in Groups : poisoned'[h] => poisoned[h]
      /\ \A h \in Groups : flags'[h] = {} \/ flags'[h] = flags[h]
  <2>1. DataTypes
    BY HasDataTypes DEF EventInv
  <2> QED
    BY <1>2, <2>1 DEF DataTypes, Reset
<1>4. Calm
  <2>1. \A x \in Actors : Keeps(x)
    BY <1>1 DEF Keeps, AtWork, Passing
  <2> QED
    BY <1>1, <2>1 DEF Calm, Listed
<1>5. OwnInv'
  <2>1. \A p \in Procs : OwnKeeps(p)
    BY <1>1 DEF OwnKeeps
  <2> QED
    BY <1>1, <2>1, OwnStays DEF EventInv
<1>6. EmptyInv'
  <2> SUFFICES ASSUME EndsInOrder PROVE DeadGroupsAreEmpty' /\ DestroyedStaysClosed'
    BY <1>1, SetupStays DEF EmptyInv
  <2>1. DeadGroupsAreEmpty /\ DestroyedStaysClosed
    BY DEF EventInv, EmptyInv
  <2>2. DeadGroupsAreEmpty'
    <3> SUFFICES ASSUME NEW x \in Threads, linked[x] # None
                 PROVE  /\ used[linked[x]]
                        /\ poisoned'[linked[x]] => \E a \in Actors : Finds(a, x)' /\ Cancels(a)'
      BY <1>1 DEF DeadGroupsAreEmpty
    <3>1. linked[x] \in Groups
      BY HasDataTypes DEF DataTypes, EventInv
    <3> QED
      BY <1>1, <1>3, <1>4, <2>1, <3>1, FindsStays DEF DeadGroupsAreEmpty, Calm
  <2>3. Never("destroy") /\ setup.exits = {}
    BY <1>2 DEF EndsInOrder, Never
  <2>4. \A a \in Actors : pc[a] \in Passing => op[a].call # "destroy"
    <3> SUFFICES ASSUME NEW a \in Actors, pc[a] \in Passing, op[a].call = "destroy" PROVE FALSE
      OBVIOUS
    <3>1. CASE a \in Threads
      <4>1. op[a] \in setup.ops[a]
        BY <3>1 DEF EventInv, RecordInv, Shape, NoOp
      <4> QED
        BY <2>3, <3>1, <4>1 DEF Never
    <3>2. CASE a \in Procs
      BY <2>3, <3>2 DEF EventInv, RecordInv, Shape, Passing
    <3> QED
      BY <3>1, <3>2
  <2>5. DestroyedStaysClosed'
    BY <1>1, <2>4 DEF DestroyedStaysClosed, Passing
  <2> QED
    BY <2>2, <2>5
<1>7. MatchInv'
  <2> SUFFICES ASSUME EndsInOrder, TakesOnlyFromSetters PROVE MatchesAreFound' /\ WantsSomething'
    BY <1>1, SetupStays DEF MatchInv
  <2>1. MatchesAreFound /\ WantsSomething
    BY DEF EventInv, MatchInv
  <2>2. MatchesAreFound'
    <3> SUFFICES ASSUME NEW x \in Threads, linked[x] # None, Matches(flags'[linked[x]], x)
                 PROVE  \E a \in Actors : Finds(a, x)'
      BY <1>1 DEF MatchesAreFound, Matches
    <3>1. op[x] \in setup.ops[x] /\ op[x].call = "wait" /\ linked[x] \in Groups
      BY ListedWaits DEF EventInv
    <3>2. op[x].mode \in {"ALL_SET", "ANY_SET"}
      BY <1>2, <3>1 DEF TakesOnlyFromSetters, Never
    <3>3. ~Matches({}, x)
      BY <2>1, <3>2 DEF WantsSomething, Matches, Match
    <3>4. flags'[linked[x]] = flags[linked[x]]
      BY <1>3, <3>1, <3>3
    <3> QED
      BY <1>1, <1>4, <2>1, <3>4, FindsStays DEF MatchesAreFound, Calm
  <2> QED
    BY <1>1, <2>1, <2>2 DEF WantsSomething
<1> QED
  BY <1>5, <1>6, <1>7

(* A slot is taken for a new group: nobody is on its list and nobody is    *)
(* destroying it.                                                          *)
LEMMA CreateLists ==
    ASSUME EventInv, NEW t \in Threads, Create(t)
    PROVE  OwnInv' /\ EmptyInv' /\ MatchInv'
<1> USE EventAssumption DEF Actors, group, record, sched, pass
<1>1. /\ pc[t] = "create" /\ UNCHANGED <<linked, op, setup, snapshot, again>>
      /\ pc'[t] = "out" /\ \A x \in Actors \ {t} : pc'[x] = pc[x]
  BY DEF Create, Goto, EventInv, RecordInv, Shape, TypeOK
<1>2. Calm
  <2>1. \A x \in Actors : Keeps(x)
    BY <1>1 DEF Keeps, AtWork, Passing
  <2> QED
    BY <1>1, <2>1 DEF Calm, Listed
<1>3. CASE UNCHANGED group
  <2>1. \A p \in Procs : OwnKeeps(p)
    BY <1>1 DEF OwnKeeps
  <2> QED
    BY <1>1, <1>2, <1>3, <2>1, OwnStays, EmptyStays, MatchStays DEF EventInv
<1>4. CASE ~UNCHANGED group
  <2>1. PICK g \in Groups : /\ ~used[g] /\ used' = [used EXCEPT ![g] = TRUE]
                            /\ flags' = [flags EXCEPT ![g] = {}] /\ poisoned' = [poisoned EXCEPT ![g] = FALSE]
                            /\ owner' = [owner EXCEPT ![g] = Owner[t]]
    BY <1>4 DEF Create
  <2>2. /\ \A h \in Groups \ {g} :
            used'[h] = used[h] /\ poisoned'[h] = poisoned[h] /\ owner'[h] = owner[h] /\ flags'[h] = flags[h]
    <3>1. DataTypes
      BY HasDataTypes DEF EventInv
    <3> QED
      BY <2>1, <3>1 DEF DataTypes
  <2>3. OwnInv'
    <3> SUFFICES ASSUME KeepsToItsOwn PROVE OwnWaiters'
      BY <1>1, SetupStays DEF OwnInv
    <3>1. OwnWaiters
      BY DEF EventInv, OwnInv
    <3> SUFFICES ASSUME NEW x \in Threads, Owner[x] \in setup.exits PROVE OwnWaiters!(x)'
      BY <1>1 DEF OwnWaiters
    <3>2. pc'[Owner[x]] = pc[Owner[x]]
      BY <1>1
    <3>3. ASSUME pc[Owner[x]] = "out", NEW o \in setup.ops[x], o.call = "wait"
          PROVE  used'[o.g] /\ owner'[o.g] = Owner[x]
      <4>1. used[o.g] /\ owner[o.g] = Owner[x]
        BY <3>1, <3>3 DEF OwnWaiters
      <4>2. o.g \in Groups
        BY <3>3, OpTypes DEF Waits, EventInv, RecordInv, Shape
      <4> QED
        BY <2>1, <2>2, <4>1, <4>2
    <3>4. ASSUME linked[x] # None
          PROVE  used'[linked[x]] /\ owner'[linked[x]] = Owner[x]
      <4>1. used[linked[x]] /\ owner[linked[x]] = Owner[x]
        BY <3>1, <3>4 DEF OwnWaiters
      <4>2. linked[x] \in Groups
        BY <3>4, ListedWaits DEF EventInv
      <4> QED
        BY <2>1, <2>2, <4>1, <4>2
    <3> QED
      BY <1>1, <3>1, <3>2, <3>3, <3>4 DEF OwnWaiters
  <2>4. ASSUME EndsInOrder
        PROVE  DeadGroupsAreEmpty /\ DestroyedStaysClosed /\ \A x \in Threads : linked[x] # None => linked[x] \in Groups \ {g}
    <3>1. DeadGroupsAreEmpty /\ DestroyedStaysClosed
      BY <2>4 DEF EventInv, EmptyInv
    <3>2. \A x \in Threads : linked[x] # None => linked[x] \in Groups
      BY ListedWaits DEF EventInv
    <3> QED
      BY <2>1, <3>1, <3>2 DEF DeadGroupsAreEmpty
  <2>5. EmptyInv'
    <3> SUFFICES ASSUME EndsInOrder PROVE DeadGroupsAreEmpty' /\ DestroyedStaysClosed'
      BY <1>1, SetupStays DEF EmptyInv
    <3>2. DeadGroupsAreEmpty'
      <4> SUFFICES ASSUME NEW x \in Threads, linked[x] # None
                   PROVE  /\ used'[linked[x]]
                          /\ poisoned'[linked[x]] => \E a \in Actors : Finds(a, x)' /\ Cancels(a)'
        BY <1>1 DEF DeadGroupsAreEmpty
      <4> QED
        BY <1>1, <1>2, <2>2, <2>4, FindsStays DEF DeadGroupsAreEmpty, Calm
    <3>3. Never("destroy")
      <4>1. op[t].call = "create" /\ op[t] \in setup.ops[t]
        BY <1>1 DEF EventInv, RecordInv, Shape, NoOp
      <4> QED
        BY <4>1 DEF EndsInOrder, Never
    <3>4. DestroyedStaysClosed'
      <4> SUFFICES ASSUME NEW a \in Actors, pc'[a] \in {"collect", "wake", "free"}, op[a].call = "destroy"
                   PROVE  /\ used'[op[a].g] => poisoned'[op[a].g]
                          /\ ~AtWork(a)' => \A x \in Threads : linked[x] # op[a].g
        BY <1>1 DEF DestroyedStaysClosed
      <4>1. pc[a] = pc'[a] /\ (AtWork(a)' <=> AtWork(a))
        BY <1>1 DEF AtWork
      <4>2. a \in Procs
        <5>1. a \in Threads => op[a] \in setup.ops[a]
          BY DEF EventInv, RecordInv, Shape, NoOp
        <5> QED
          BY <3>3, <5>1 DEF Never
      <4>3. used[op[a].g]
        BY <3>3, <4>1, <4>2 DEF EventInv, RecordInv, DestroysItsOwn, OnlyItsEndDestroys, Never, Ending
      <4>4. op[a].g \in Groups
        <5>1. op[a] \in Changes \cup Ends
          BY <4>1 DEF EventInv, RecordInv, Shape, TypeOK
        <5> QED
          BY <5>1 DEF Changes, Ends
      <4> QED
        BY <2>1, <2>2, <2>4, <4>1, <4>3, <4>4 DEF DestroyedStaysClosed
    <3> QED
      BY <3>2, <3>4
  <2>6. MatchInv'
    <3> SUFFICES ASSUME EndsInOrder, TakesOnlyFromSetters PROVE MatchesAreFound' /\ WantsSomething'
      BY <1>1, SetupStays DEF MatchInv
    <3>1. MatchesAreFound /\ WantsSomething
      BY DEF EventInv, MatchInv
    <3>2. MatchesAreFound'
      <4> SUFFICES ASSUME NEW x \in Threads, linked[x] # None, Matches(flags'[linked[x]], x)
                   PROVE  \E a \in Actors : Finds(a, x)'
        BY <1>1 DEF MatchesAreFound, Matches
      <4>1. flags'[linked[x]] = flags[linked[x]]
        BY <2>2, <2>4
      <4> QED
        BY <1>1, <1>2, <3>1, <4>1, FindsStays DEF MatchesAreFound, Calm
    <3> QED
      BY <1>1, <3>1, <3>2 DEF WantsSomething
  <2> QED
    BY <2>3, <2>5, <2>6
<1> QED
  BY <1>3, <1>4

(* A process starts to end: none of its threads is in a pass.              *)
LEMMA ExitLists ==
    ASSUME EventInv, NEW p \in Procs, Exit(p)
    PROVE  OwnInv' /\ EmptyInv' /\ MatchInv'
<1> USE EventAssumption DEF Actors, group, record, sched, pass
<1>1. /\ pc[p] = "out" /\ CpuFree(CpuOf(p)) /\ UNCHANGED <<group, linked, op, setup, snapshot, again>>
      /\ \A a \in Actors : pc'[a] = IF a = p THEN "scan"
                                    ELSE IF a \in Threads /\ Owner[a] = p THEN "killed" ELSE pc[a]
  BY DEF Exit
<1>2. \A t \in Threads : Owner[t] = p => pc[t] \notin {"collect", "wake"}
  BY <1>1 DEF CpuFree, CpuOf, InKernel
<1>3. Calm
  <2>1. \A a \in Actors : Keeps(a)
    BY <1>1, <1>2 DEF Keeps, AtWork, Passing
  <2> QED
    BY <1>1, <2>1 DEF Calm, Listed
<1>4. \A q \in Procs : OwnKeeps(q)
  BY <1>1 DEF OwnKeeps
<1> QED
  BY <1>1, <1>3, <1>4, OwnStays, EmptyStays, MatchStays DEF EventInv

(* event_group_cleanup_process goes on to a group of the process, or has   *)
(* destroyed them all, and then no list holds its threads.                 *)
LEMMA ScanLists ==
    ASSUME EventInv, NEW p \in Procs, Scan(p)
    PROVE  OwnInv' /\ EmptyInv' /\ MatchInv'
<1> USE EventAssumption DEF Actors, group, record, sched, pass
<1>1. /\ pc[p] = "scan" /\ UNCHANGED <<group, linked, setup, snapshot, again>>
      /\ pc'[p] \in {"mark", "reap"}
      /\ pc'[p] = "reap" => \A g \in Groups : ~(used[g] /\ owner[g] = p)
      /\ \A a \in Actors \ {p} : pc'[a] = pc[a] /\ op'[a] = op[a]
  BY DEF Scan, Goto, EventInv, RecordInv, Shape, TypeOK
<1>2. Calm
  <2>1. \A a \in Actors : Keeps(a)
    BY <1>1 DEF Keeps, AtWork, Passing
  <2> QED
    BY <1>1, <2>1 DEF Calm, Listed
<1>3. OwnInv'
  <2> SUFFICES ASSUME KeepsToItsOwn PROVE OwnWaiters'
    BY <1>1, SetupStays DEF OwnInv
  <2>1. OwnWaiters
    BY DEF EventInv, OwnInv
  <2> SUFFICES ASSUME NEW t \in Threads, Owner[t] \in setup.exits PROVE OwnWaiters!(t)'
    BY <1>1 DEF OwnWaiters
  <2>2. CASE Owner[t] = p
    <3>1. linked[t] # None => linked[t] \in Groups /\ used[linked[t]] /\ owner[linked[t]] = p
      BY <2>1, <2>2, ListedWaits DEF OwnWaiters, EventInv
    <3> QED
      BY <1>1, <2>2, <3>1
  <2>3. CASE Owner[t] # p
    BY <1>1, <2>1, <2>3 DEF OwnWaiters
  <2> QED
    BY <2>2, <2>3
<1> QED
  BY <1>1, <1>2, <1>3, EmptyStays, MatchStays DEF EventInv

(* Idle reaps threads that no list holds.                                  *)
LEMMA ReapLists ==
    ASSUME EventInv, NEW p \in Procs, Reap(p)
    PROVE  OwnInv' /\ EmptyInv' /\ MatchInv'
<1> USE EventAssumption DEF Actors, group, record, sched, pass
<1>1. /\ pc[p] = "reap" /\ UNCHANGED <<group, linked, op, setup, snapshot, again>>
      /\ \A a \in Actors : pc'[a] = IF a = p \/ (a \in Threads /\ Owner[a] = p) THEN "gone" ELSE pc[a]
  BY DEF Reap
<1>2. \A t \in Threads : Owner[t] = p => pc[t] \in {"killed", "gone"}
  BY <1>1 DEF EventInv, RecordInv, Shape
<1>3. Calm
  <2>1. \A a \in Actors : Keeps(a)
    BY <1>1, <1>2 DEF Keeps, AtWork, Passing
  <2> QED
    BY <1>1, <2>1 DEF Calm, Listed
<1>4. OwnInv'
  <2> SUFFICES ASSUME KeepsToItsOwn PROVE OwnWaiters'
    BY <1>1, SetupStays DEF OwnInv
  <2>1. OwnWaiters
    BY DEF EventInv, OwnInv
  <2> SUFFICES ASSUME NEW t \in Threads, Owner[t] \in setup.exits PROVE OwnWaiters!(t)'
    BY <1>1 DEF OwnWaiters
  <2>2. CASE Owner[t] = p
    BY <1>1, <2>1, <2>2 DEF OwnWaiters
  <2>3. CASE Owner[t] # p
    <3>1. pc'[Owner[t]] = pc[Owner[t]]
      BY <1>1, <2>3
    <3> QED
      BY <1>1, <2>1, <3>1 DEF OwnWaiters
  <2> QED
    BY <2>2, <2>3
<1> QED
  BY <1>1, <1>3, <1>4, EmptyStays, MatchStays DEF EventInv

(* Every step keeps the lists in order.                                    *)
LEMMA NextLists == EventInv /\ Next => OwnInv' /\ EmptyInv' /\ MatchInv'
<1> SUFFICES ASSUME EventInv, Next PROVE OwnInv' /\ EmptyInv' /\ MatchInv'
  OBVIOUS
<1> USE DEF Actors
<1>1. ASSUME NEW a \in Actors, PassStep(a) PROVE OwnInv' /\ EmptyInv' /\ MatchInv'
  BY <1>1, ApplyLists, MarkLists, CollectLists, WakeLists, WakeDoneLists, FreeLists DEF PassStep
<1>2. ASSUME NEW t \in Threads, WaitStep(t) PROVE OwnInv' /\ EmptyInv' /\ MatchInv'
  BY <1>2, LinkLists, PrepareLists, RecheckLists, DispatchLists, FinishLists, UnlinkLists DEF WaitStep
<1>3. ASSUME NEW t \in Threads, Reset(t) \/ Create(t) PROVE OwnInv' /\ EmptyInv' /\ MatchInv'
  BY <1>3, ResetLists, CreateLists
<1>4. ASSUME NEW t \in Threads, TimerFire(t) PROVE OwnInv' /\ EmptyInv' /\ MatchInv'
  BY <1>4, StillLists DEF TimerFire, group, record, pass
<1>5. ASSUME NEW t \in Threads, NEW o \in setup.ops[t], Call(t, o) PROVE OwnInv' /\ EmptyInv' /\ MatchInv'
  BY <1>5, CallLists
<1>6. ASSUME NEW p \in Procs, Exit(p) \/ Scan(p) \/ Reap(p) PROVE OwnInv' /\ EmptyInv' /\ MatchInv'
  BY <1>6, ExitLists, ScanLists, ReapLists
<1> QED
  BY <1>1, <1>2, <1>3, <1>4, <1>5, <1>6 DEF Next, Step, EndStep

----------------------------------------------------------------------------
(* The records of waiters, their lists and the passes over them keep in    *)
(* step in every state the program reaches.                                *)
THEOREM AlwaysEventInv == Spec => []EventInv
<1>1. EventInv /\ [Next]_vars => EventInv'
  <2>1. EventInv /\ Next => EventInv'
    BY NextRecords, NextLists DEF EventInv
  <2>2. EventInv /\ UNCHANGED vars => EventInv'
    BY StutterRecords, StillLists DEF EventInv, vars, group, record, pass
  <2> QED
    BY <2>1, <2>2
<1> QED
  BY InitInv, <1>1, PTL DEF Spec

(* The flags a successful event_group_wait reports are ones it waited for, *)
(* whichever of its exits it took and whatever has happened to the group   *)
(* meanwhile.                                                              *)
THEOREM AnswersAreTrue == Spec => []AnswerIsTrue
<1>1. EventInv => AnswerIsTrue
  BY DEF EventInv, RecordInv
<1> QED
  BY <1>1, AlwaysEventInv, PTL

(* What event_group_wait gave up on, nobody holds: a wait that returned    *)
(* TIMEOUT is on no list and in no waker's batch, whatever the threads     *)
(* call and whichever processes end.                                       *)
THEOREM TimeoutsAreFinal == Spec => []TimeoutIsFinal
<1>1. EventInv => TimeoutIsFinal
  <2> SUFFICES ASSUME EventInv, NEW t \in Threads, pc[t] = "out", returned[t].result = "TIMEOUT"
               PROVE  linked[t] = None /\ \A a \in Actors : <<t, calls[t]>> \notin batch[a]
    BY DEF TimeoutIsFinal
  <2>1. Records!(t) /\ batch \in [Actors -> SUBSET (Threads \X (1 .. MaxCalls))]
    BY DEF EventInv, RecordInv, Records, Shape, TypeOK
  <2>2. linked[t] = None
    BY <2>1 DEF WaitPlaces
  <2>3. ~signaled[t]
    BY <2>1
  <2>4. ASSUME NEW a \in Actors, <<t, calls[t]>> \in batch[a] PROVE FALSE
    <3>1. calls[t] \in 1 .. MaxCalls
      BY <2>1, <2>4
    <3> QED
      BY <2>1, <2>3, <2>4, <3>1
  <2> QED
    BY <2>2, <2>4
<1> QED
  BY <1>1, AlwaysEventInv, PTL

(* The records on the lists of event groups are those of calls in          *)
(* progress that nobody has answered, for processes that wait only on      *)
(* their own groups if they may end: no list holds the stack of a reaped   *)
(* thread.                                                                 *)
THEOREM ListedFramesLive == Spec => [](KeepsToItsOwn => GroupInv)
<1>1. EventInv /\ TimeoutIsFinal => (KeepsToItsOwn => GroupInv)
  <2> SUFFICES ASSUME EventInv, KeepsToItsOwn PROVE TypeOK /\ ListedFramesAlive
    BY DEF GroupInv
  <2>1. TypeOK
    BY DEF EventInv, RecordInv, Shape
  <2>2. ListedFramesAlive
    <3> SUFFICES ASSUME NEW t \in Threads, linked[t] # None
                 PROVE  ~signaled[t] /\ pc[t] \in WaitPlaces \cup {"killed"}
      BY DEF ListedFramesAlive
    <3>1. ~signaled[t] /\ pc[t] \in WaitPlaces \cup {"killed", "gone"}
      BY DEF EventInv, RecordInv, Records
    <3>2. pc[t] # "gone"
      <4> SUFFICES ASSUME pc[t] = "gone" PROVE FALSE
        OBVIOUS
      <4>1. Owner[t] \in Procs /\ pc[Owner[t]] = "gone" /\ Owner[t] \in setup.exits
        BY EventAssumption DEF EventInv, RecordInv, Shape
      <4> QED
        BY <4>1 DEF EventInv, OwnInv, OwnWaiters
    <3> QED
      BY <3>1, <3>2
  <2> QED
    BY <2>1, <2>2
<1> QED
  BY <1>1, AlwaysEventInv, TimeoutsAreFinal, PTL

(* A group that is freed has nobody on its list, and whoever is listed by  *)
(* a poisoned one is found by the pass of the call that poisoned it, as    *)
(* long as no reset or create gets between the halves of a destroy.        *)
THEOREM EmptyWhenDead == Spec => [](EndsInOrder => DeadGroupsAreEmpty)
<1>1. EventInv => (EndsInOrder => DeadGroupsAreEmpty)
  BY DEF EventInv, EmptyInv
<1> QED
  BY <1>1, AlwaysEventInv, PTL

(* No wake-up is lost: a waiter on the list of a group whose flags are as  *)
(* it wants them is about to be found by a pass, however long the list is, *)
(* as long as nobody waits for bits that a pulse or a reset takes away.    *)
THEOREM NobodyIsLeftOnMatch ==
    Spec => [](EndsInOrder /\ TakesOnlyFromSetters => NobodySleepsOnMatch)
<1>1. EventInv => (EndsInOrder /\ TakesOnlyFromSetters => NobodySleepsOnMatch)
  BY DEF EventInv, MatchInv, MatchesAreFound, NobodySleepsOnMatch
<1> QED
  BY <1>1, AlwaysEventInv, PTL

=============================================================================
