--------------------------- MODULE MCRelaySwitch ---------------------------
(***************************************************************************)
(* A small instance of RelaySwitch: two relays, and a button bound to a    *)
(* toggle whose slot names no relay, or to switching one of them on.       *)
(***************************************************************************)
EXTENDS RelaySwitch

Toggles(r) == [type |-> "toggle", relay |-> r]

EitherRelay == {Toggles(Unsaid), [type |-> "on", relay |-> Says(1)]}

(* Bound: every relay is off to begin with, and a first refresh that did not
   fail is not outdated yet. *)
InitOff ==
    /\ Init
    /\ relay = [r \in Relays |-> Off]
    /\ available => polled = relay /\ known \subseteq {bound}

MCSpec == InitOff /\ [][Next]_vars /\ Fairness
=============================================================================
