------------------------------ MODULE MCHealing ------------------------------
(***************************************************************************)
(* A small instance of Healing: two callbacks, as many slots, and actions  *)
(* of others that differ in their input only.                              *)
(***************************************************************************)
EXTENDS Healing

OneLook == [o \in Others |-> "other"]

Rank(c) == CASE c = Free -> 0 [] c = "first" -> 1 [] c = "second" -> 2 [] OTHER -> 3

(* Bound: only an edit brings the second of them.  The slots, which no step
   tells apart, begin in one of the two orders. *)
MCInit ==
    /\ HealingInit
    /\ table \in [Slots -> Contents \ {"twin"}]
    /\ Rank(table[0]) <= Rank(table[1])

MCSpec == MCInit /\ [][HealingNext]_healing /\ HealingFairness
=============================================================================
