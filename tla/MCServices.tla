----------------------------- MODULE MCServices -----------------------------
(* Cases of Services: which modules there are, what they do, where.        *)
EXTENDS Services, TLC

CONSTANTS t1, t2, t3, c1, c2, video, fs, server, other, client, module

OwnerOf == (t1 :> 1) @@ (t2 :> 2) @@ (t3 :> 3)
NeedOf == [r \in Roles |-> IF r = module THEN video ELSE None]
Does(call, n, timed) == [call |-> call, name |-> n, timed |-> timed]

Apart == <<c1, c2, c2>>
Nobody == [home |-> Apart, boot |-> {}, primary |-> {}, plain |-> {}, exits |-> {}, ends |-> 1, early |-> FALSE,
           oom |-> FALSE, ops |-> [r \in Roles |-> {}]]

(* A primary service ends and comes back, its file name has no extension; *)
(* a client waits for it. *)
ServerAndClient ==
    [Nobody EXCEPT !.boot = {server, client}, !.primary = {server}, !.plain = {server}, !.exits = {server},
        !.ops[server] = {Does("register", video, FALSE)},
        !.ops[client] = {Does("wait", video, b) : b \in BOOLEAN} \cup {Does("find", video, FALSE)}]
(* A primary service ends twice. *)
Lonely == [Nobody EXCEPT !.boot = {server}, !.primary = {server}, !.plain = {server}, !.exits = {server},
             !.ends = 2, !.oom = TRUE,
             !.ops[server] = {Does("register", video, FALSE)}]
(* Two services want the same name, or fill the table; a client waits. *)
Rivals ==
    [Nobody EXCEPT !.boot = {server, other, client},
        !.ops[server] = {Does("register", video, FALSE), Does("unregister", video, FALSE)},
        !.ops[other] = {Does("register", n, FALSE) : n \in Names} \cup {Does("wait", video, FALSE)},
        !.ops[client] = {Does("wait", video, FALSE)}]
(* A module is parked until the name it needs is there, and may end first; *)
(* two primaries, one with an extension, want the one slot. *)
Parking ==
    [Nobody EXCEPT !.boot = {module, server}, !.exits = {module, server}, !.primary = {module, server},
        !.plain = {server}, !.oom = TRUE,
        !.ops[server] = {Does("register", video, FALSE), Does("unregister", video, FALSE)}]
(* A module is parked, a client waits for the same name. *)
Both ==
    [Nobody EXCEPT !.boot = {module, server, client},
        !.ops[server] = {Does("register", video, FALSE), Does("unregister", video, FALSE)},
        !.ops[client] = {Does("wait", video, TRUE)}]
Cases == {ServerAndClient, Lonely, Rivals, Parking, Both}

(* Cases in which some property fails, see the README. *)
ClientEnds == {[ServerAndClient EXCEPT !.exits = {client}]}
TwoCpus == {Both}
Extension == {[Lonely EXCEPT !.plain = {}, !.oom = FALSE]}
EarlyEnd == {[Parking EXCEPT !.early = TRUE]}
=============================================================================
