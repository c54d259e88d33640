--------------------------- MODULE MCIpcChannel ----------------------------
(* Instances of IpcChannel: who shares a CPU with whom, and what they do.  *)
EXTENDS IpcChannel, TLC

(* The owner's process is on CPU 1, each client there or on CPU 0. *)
AnyPlacement == {h \in [Threads -> {0, 1}] : \A s \in Servers : h[s] = 1}

Away == {h \in AnyPlacement : \A c \in Clients : h[c] = 0}
AtHome == {h \in AnyPlacement : \A c \in Clients : h[c] = 1}
Mixed == AnyPlacement \ (Away \cup AtHome)

SafetyMix ==
    [home : Mixed, ops : {{"send", "nowait", "destroy", "kill"}, {"send", "kill", "exit"},
                          {"send", "notify", "wait_notify"}}]
    \cup [home : AnyPlacement, ops : {{"post", "notify", "wait_notify", "destroy", "exit"}}]
    (* Replies out of turn. *)
    \cup [home : Away, ops : {{"send", "stray"}}]
    \cup [home : AtHome, ops : {{"send", "stray", "destroy"}}]
(* No symmetry under liveness: both clients away from the owner, or one. *)
First == CHOOSE c \in Clients : TRUE
LiveMix == [home : {h \in AnyPlacement : h[First] = 0},
            ops : {{"send", "destroy", "exit"},
                   {"post", "notify", "wait_notify", "destroy", "exit"}}]
SendAndDestroy == [home : AnyPlacement, ops : {{"send", "destroy"}}]
SendAndExit == [home : AnyPlacement, ops : {{"send", "exit"}}]
Strays == [home : AnyPlacement, ops : {{"send", "stray"}}]

Symmetry == Permutations(Clients) \cup Permutations(Servers)
=============================================================================
