---------------------------- MODULE MCConfigFlow ----------------------------
(***************************************************************************)
(* A small instance of ConfigFlow: two devices, one of which answers the   *)
(* action API, three addresses, and slots that are free, ours from an      *)
(* earlier entry, half cleared, or somebody else's.                        *)
(***************************************************************************)
EXTENDS ConfigFlow, TLC

CONSTANTS u1, a, b

Content(trigger, action, param) ==
    [input |-> 0, trigger |-> trigger, action |-> action, param |-> param,
     tuned |-> FALSE, paced |-> FALSE]

EmptySlot == Content(0, 0, NoParam)
HalfCleared == Content(0, 50, u1)
Ours == Content(1, 50, u1)
LocalToggle == Content(1, 3, NoParam)

Pair(x, y) == [s \in Slots |-> IF s = 0 THEN x ELSE y]
FewTables == {Pair(Ours, LocalToggle), Pair(HalfCleared, LocalToggle), Pair(Ours, EmptySlot)}

BothEvents == {{<<0, 1>>, <<0, 2>>}}

OneInput == {0}
TwoTriggers == {1, 2}
FewActionTypes == {0, 3, 50}

Interchangeable == Permutations(Flows) \cup Permutations(Dialogs) \cup Permutations(Hosts)
=============================================================================
