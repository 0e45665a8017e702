----------------------------- MODULE MCAgentRun -----------------------------
(* Small instances of AgentRun for TLC.  A call is a tool and an argument. *)
EXTENDS AgentRun, TLC

CONSTANTS Args, T, U, V   \* arguments, a usable tool, an unusable one and a
                          \* usable one without arguments

MCTools == {T, U, V}
MCUsable == {T, V}
MCCalls == ({T} \X Args) \union {<<U, 0>>, <<V, 0>>}
MCToolOf == [c \in MCCalls |-> c[1]]

Symmetry == Permutations(Args)
=============================================================================
