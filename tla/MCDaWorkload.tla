----------------------------- MODULE MCDaWorkload ----------------------------
(* Two forks over genesis:  g - a1 - a2                                    *)
(*                           \- b1                                         *)
EXTENDS DaWorkload, TLC

CONSTANTS g, a1, a2, b1

MCBlock == {g, a1, a2, b1}
MCParent == (g :> g) @@ (a1 :> g) @@ (a2 :> a1) @@ (b1 :> g)
==============================================================================
