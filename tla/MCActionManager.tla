-------------------------- MODULE MCActionManager --------------------------
(***************************************************************************)
(* Small instances of ActionManager: one input with two trigger types, two *)
(* generations of our callback URLs, a handful of slot contents.           *)
(***************************************************************************)
EXTENDS ActionManager

MCInputs == {0}
MCTriggers == {1, 2}
MCActionTypes == {0, 3, 50, 60}

CONSTANTS u1, u2

Content(trigger, action, param, tuned, paced) ==
    [input |-> 0, trigger |-> trigger, action |-> action, param |-> param,
     tuned |-> tuned, paced |-> paced]

EmptySlot   == Content(0, 0, NoParam, FALSE, FALSE)
HalfCleared == Content(0, 50, u1, FALSE, FALSE)
Ours(t, u)  == Content(t, 50, u, FALSE, FALSE)
OursPaced   == Content(2, 50, u1, TRUE, TRUE)
LocalToggle == Content(1, 3, NoParam, FALSE, FALSE)
OtherHttp   == Content(1, 50, OtherParam, FALSE, FALSE)
OtherType   == Content(2, 60, NoParam, FALSE, FALSE)

MCFactorySlots ==
    {EmptySlot, HalfCleared, Ours(1, u1), OursPaced, LocalToggle, OtherType}

MCFewSlots == {EmptySlot, HalfCleared, Ours(1, u1), LocalToggle}

MCWboxSlots == {EmptySlot, OtherHttp, Ours(2, u1)}
=============================================================================
