--------------------------- MODULE MCCoordinator ---------------------------
(***************************************************************************)
(* Small instances of Coordinator: one or two refreshes and writers, and   *)
(* ages of a few ticks.                                                    *)
(***************************************************************************)
EXTENDS Coordinator, TLC

AllPayloads == Payloads
OnlySettings == {"settings"}

(* Refreshes and writers are interchangeable. *)
TasksAndWriters == Permutations(Tasks) \cup Permutations(Writers)
=============================================================================
