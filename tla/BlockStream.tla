----------------------------- MODULE BlockStream -----------------------------
(***************************************************************************)
(* What the block feed promises to the workloads and expectations that     *)
(* read it: a stream of blocks in which no block appears twice and a       *)
(* block appears only after its parent.  Blocks of competing forks may     *)
(* both appear, and the genesis block never does.                          *)
(***************************************************************************)
EXTENDS Sequences, Functions

CONSTANTS Block,    \* header ids, genesis included
          Genesis,  \* the genesis header
          Parent    \* Parent[b] is the parent header of block b

VARIABLE published  \* the blocks published so far, oldest first

Init == published = << >>

Publish(b) ==
  /\ b # Genesis
  /\ b \notin Range(published)
  /\ Parent[b] \in Range(published) \cup {Genesis}
  /\ published' = Append(published, b)

Next == \E b \in Block : Publish(b)

Spec == Init /\ [][Next]_published
==============================================================================
