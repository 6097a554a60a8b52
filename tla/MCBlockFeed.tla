---------------------------- MODULE MCBlockFeed ------------------------------
(* A tree of two forks over one common block:  g - a1 - a2 - a3            *)
(*                                                   \- b2                 *)
EXTENDS BlockFeed

CONSTANTS g, a1, a2, a3, b2

MCBlock == {g, a1, a2, a3, b2}
MCParent == [b \in MCBlock |->
  CASE b = g -> g [] b = a1 -> g [] b = a2 -> a1 [] b = a3 -> a2
    [] b = b2 -> a1]
MCHeight == [b \in MCBlock |->
  CASE b = g -> 0 [] b = a1 -> 1 [] b = a2 -> 2 [] b = a3 -> 3
    [] b = b2 -> 2]
MCTxs == [b \in MCBlock |->
  CASE b = g -> 0 [] b = a1 -> 1 [] b = a2 -> 2 [] b = a3 -> 0
    [] b = b2 -> 3]
==============================================================================
