--------------------------- MODULE MCProcessLife ---------------------------
(* Cases of ProcessLife: where processes live and which calls are made.    *)
EXTENDS ProcessLife, TLC

CONSTANTS p1, p2, p3, a1, a2, b1, d1, c1, c2

OwnerOf == (a1 :> p1) @@ (a2 :> p1) @@ (b1 :> p2) @@ (d1 :> p3)
Together == [p \in Procs |-> c1]
Apart == (p1 :> c1) @@ (p2 :> c2) @@ (p3 :> c2)

Others == {r \in Procs \X Procs : r[1] # r[2]}

(* One CPU: everybody may end or wait for everybody else. *)
OneCpu == [alive |-> {a1, b1, d1}, home |-> Together, rights |-> Others,
           ops |-> {"exit", "kill", "wait", "thread_create"}]
(* Two CPUs: p1 and p2 end each other or themselves, and may be moved. *)
TwoCpus == [alive |-> {a1, b1}, home |-> Apart, rights |-> Others,
            ops |-> {"exit", "kill", "thread_create", "migrate"}]
(* Two CPUs: threads come and go in a process that is moved and killed. *)
Churn == [TwoCpus EXCEPT !.ops = {"kill", "thread_create", "thread_exit", "migrate"}]
(* Two CPUs: two processes wait for p2 while any process is ended, deferred to idle. *)
WaitAndOom == [alive |-> {a1, b1, d1}, home |-> [Apart EXCEPT ![p3] = c1],
               rights |-> {<<p1, p2>>, <<p3, p2>>}, ops |-> {"wait", "oom"}]
(* Two CPUs: threads of p1 fault while p2 kills it. *)
Faults == [TwoCpus EXCEPT !.ops = {"fault", "kill", "thread_create"}]
(* p1 spawns p2 on its own CPU; the child may end at once. *)
Spawning == [alive |-> {a1}, home |-> Together, rights |-> Others,
             ops |-> {"spawn", "exit", "thread_create", "thread_exit"}]
(* Drivers may kill their own process, while another CPU does so too, and wait for it. *)
SelfKill == [TwoCpus EXCEPT !.rights = {<<p1, p1>>, <<p2, p1>>},
                            !.ops = {"exit", "kill", "thread_create", "thread_exit"}]
SelfWait == [alive |-> {a1, b1}, home |-> Together, rights |-> Procs \X Procs,
             ops |-> {"kill", "wait", "thread_create", "thread_exit"}]
Cases == {OneCpu, TwoCpus, Churn, WaitAndOom, Faults, Spawning, SelfKill, SelfWait}

(* Cases in which some property fails, see the README. *)
Faulting == {Faults}
WaitAndExit == {[TwoCpus EXCEPT !.ops = {"wait", "exit"}]}
SelfKilling == {SelfKill}
SpawnApart == {[Spawning EXCEPT !.home = Apart]}
SpawnAndKill == {[TwoCpus EXCEPT !.alive = {a1, d1}, !.ops = {"spawn", "kill"}]}
=============================================================================
