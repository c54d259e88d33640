---------------------------- MODULE MCEventGroup ----------------------------
(* Cases of EventGroup: who runs where, and which calls are made.          *)
EXTENDS EventGroup, TLC

CONSTANTS p1, p2, a1, a2, b1, g1, c1, c2

OwnerOf == (a1 :> p1) @@ (a2 :> p1) @@ (b1 :> p2)
Apart == (p1 :> c1) @@ (p2 :> c2)
Together == [p \in Procs |-> c1]

WaitFor(pattern, mode, timed) ==
    [call |-> "wait", g |-> g1, pattern |-> pattern, mode |-> mode, timed |-> timed]
Do(call, bits) == [call |-> call, g |-> g1, bits |-> bits]
End(call) == [call |-> call, g |-> g1]
Creates == [call |-> "create"]

Calls(x, y, z) == (a1 :> x) @@ (a2 :> y) @@ (b1 :> z)

(* Two CPUs: one waits for any bit, one, with a timeout, for both. *)
SetApart == [home |-> Apart, open |-> (g1 :> p2), flags |-> (g1 :> {}), exits |-> {},
             ops |-> Calls({WaitFor({1, 2}, "ANY_SET", FALSE)}, {WaitFor({1, 2}, "ALL_SET", TRUE)},
                           {Do("set", {1}), Do("set", {2}), Do("pulse", {1}), Do("clear", {1}), End("poison")})]
(* Two CPUs: the same for clear bits. *)
ClearApart == [SetApart EXCEPT !.flags = (g1 :> {1, 2}),
               !.ops = Calls({WaitFor({1, 2}, "ANY_CLEAR", FALSE)}, {WaitFor({1, 2}, "ALL_CLEAR", TRUE)},
                             {Do("set", {1}), Do("clear", {2}), Do("clear", {1})})]
(* Two CPUs, callers on both: waits cross changes in both directions. *)
Crossing == [SetApart EXCEPT
               !.ops = Calls({WaitFor({1}, "ANY_SET", TRUE)},
                             {WaitFor({2}, "ALL_SET", FALSE), Do("set", {1})},
                             {Do("set", {2}), Do("pulse", {1}), WaitFor({1, 2}, "ANY_SET", FALSE)})]
(* The owner of the group ends: with its own waiters, or with others. *)
OwnerEnds == [SetApart EXCEPT !.open = (g1 :> p1), !.exits = {p1},
               !.ops = Calls({WaitFor({1}, "ANY_SET", FALSE)}, {WaitFor({2}, "ALL_SET", TRUE)},
                             {Do("set", {1}), WaitFor({2}, "ALL_SET", TRUE), Creates})]
OwnerEndsApart == [SetApart EXCEPT !.exits = {p2},
               !.ops = Calls({WaitFor({1}, "ANY_SET", FALSE), Creates}, {WaitFor({2}, "ALL_SET", TRUE)},
                             {Do("set", {2}), End("poison")})]
(* One CPU: poisoned groups are reset. *)
Resets == [SetApart EXCEPT !.home = Together,
               !.ops = Calls({WaitFor({1}, "ANY_SET", FALSE)}, {WaitFor({2}, "ALL_SET", TRUE)},
                             {Do("set", {2}), End("poison"), End("reset")})]
Cases == {SetApart, ClearApart, Crossing, OwnerEnds, OwnerEndsApart, Resets}

(* Cases in which some property fails, see the README. *)
TwoCpus == {SetApart}
WaiterEnds == {[OwnerEndsApart EXCEPT !.exits = {p1}]}
ResetClears == {[ClearApart EXCEPT !.home = Together, !.ops[b1] = {End("reset")}]}
PulseClears == {[ClearApart EXCEPT !.home = Together, !.ops[b1] = {Do("pulse", {1, 2})}]}
ResetAndEnd == {[OwnerEndsApart EXCEPT !.ops[a2] = {End("reset"), WaitFor({2}, "ALL_SET", FALSE)}]}
=============================================================================
