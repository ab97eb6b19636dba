-------------------------- MODULE MCEntryLifecycle --------------------------
(***************************************************************************)
(* A small instance of EntryLifecycle: two events, as many slots, options  *)
(* that want one callback or another, presses of one event.                *)
(***************************************************************************)
EXTENDS EntryLifecycle

First == "first"
Second == "second"
TwoEvents == {First, Second}
AllFirst == [p \in Presses |-> First]

Wants(E) == [auto |-> TRUE, wanted |-> E, cleanup |-> TRUE]
OneThenOther == {[Wants({First}) EXCEPT !.cleanup = FALSE], Wants({Second})}

(* Bound: nobody presses a device in or after an outage, or while a refresh
   inside a service call repairs it, and neither begins before the last press
   is forgotten. *)
Unpressed == Calling = {} /\ last = LongAgo /\ \A p \in Presses : heard[p] = 0
Alone == faults > 0 \/ run["service"] # NoRun => Unpressed

MCSpec == Init /\ [][Next /\ Alone']_vars /\ Fairness
=============================================================================
