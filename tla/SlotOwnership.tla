--------------------------- MODULE SlotOwnership ---------------------------
(***************************************************************************)
(* What BleBoxActionManager promises about a device it shares with the     *)
(* wBox app, without locks, plans or requests: our writes turn free slots  *)
(* and slots of ours into callbacks or empty them, and a rebind touches    *)
(* only empty slots and native relay bindings.  The one exception is a     *)
(* slot changed with the app while one of our runs is under way, which is  *)
(* "exposed" until that run is over: no request of the device's API says   *)
(* "write only if unchanged".                                              *)
(***************************************************************************)
EXTENDS ActionSlots

CONSTANT InitialSlots

VARIABLES
    array,   \* the slots of the device
    exposed, \* slots changed by others while one of our runs is under way
    edits    \* number of changes made by others

IsCallback(a) == is_configured(a) /\ is_owned(a)

IsNative(a) == is_configured(a) /\ a.action \in NATIVE_RELAY_ACTIONS

Init ==
    /\ array \in [Slots -> InitialSlots]
    /\ exposed = {}
    /\ edits = 0

\* Only the slots named s change, to a content in V.
Becomes(s, V) == \E v \in V : array' = [array EXCEPT ![s] = v]

\* The run goes on, or it ends and nothing is exposed any longer.
RunGoesOnOrEnds == exposed' = exposed \/ exposed' = {}

Provision(s) ==
    /\ ~is_configured(array[s]) \/ IsCallback(array[s]) \/ s \in exposed
    /\ Becomes(s, {v \in Slot : IsCallback(v) \/ ~is_configured(v)})
    /\ RunGoesOnOrEnds
    /\ UNCHANGED edits

Rebind(s) ==
    /\ ~is_configured(array[s]) \/ IsNative(array[s]) \/ s \in exposed
    /\ Becomes(s, {v \in Slot : IsNative(v) \/ ~is_configured(v)})
    /\ RunGoesOnOrEnds
    /\ UNCHANGED edits

EditByOthers(s) ==
    /\ Becomes(s, Slot)
    /\ exposed' = exposed \/ exposed' = exposed \cup {s}
    /\ edits' = edits + 1

EndRun == exposed' = {} /\ UNCHANGED <<array, edits>>

Next ==
    \/ \E s \in Slots : Provision(s) \/ Rebind(s) \/ EditByOthers(s)
    \/ EndRun

Spec == Init /\ [][Next]_<<array, exposed, edits>>
=============================================================================
