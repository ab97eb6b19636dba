---------------------------- MODULE ActionSlots ----------------------------
(***************************************************************************)
(* The slot array of a BleBox device and the plans drawn up over it        *)
(* (blebox_actions.py).  Everything here is a pure operator: what a slot   *)
(* is, who owns it, and which writes one reconciliation, one rebind of a   *)
(* native action or one removal asks for.                                  *)
(*                                                                         *)
(* An array is a function from slot ids to slots.  The strings of a slot   *)
(* are abstracted to what the code tests of them: "param" is one of our    *)
(* callback URLs, empty, or something else; "tuned" says that the name or  *)
(* the trigger parameter is not the one this integration writes; "paced"   *)
(* says that intervalS or throttleS is not zero.                           *)
(***************************************************************************)
EXTENDS Naturals, FiniteSets

CONSTANTS
    Slots,        \* slot ids, which are also the order of the array
    Inputs,       \* physical inputs
    Triggers,     \* trigger types of a configured slot
    ActionTypes,  \* action types that occur on the device
    OwnUrls,      \* URLs that carry OWNERSHIP_MARKER
    NoParam,      \* the empty param
    OtherParam    \* any param that is not ours

TRIGGER_UNCONFIGURED == 0
ACTION_UNCONFIGURED  == 0
ACTION_HTTP_GET      == 50
NATIVE_RELAY_ACTIONS == {0, 1, 2, 3}

ASSUME SlotsAssumption == Slots \subseteq Nat /\ IsFiniteSet(Slots)
ASSUME TriggersAssumption ==
    Triggers \subseteq Nat /\ TRIGGER_UNCONFIGURED \notin Triggers
ASSUME KeysAssumption == IsFiniteSet(Inputs) /\ IsFiniteSet(Triggers)
ASSUME ActionTypesAssumption ==
    /\ ActionTypes \subseteq Nat
    /\ {ACTION_UNCONFIGURED, ACTION_HTTP_GET} \subseteq ActionTypes
ASSUME ParamsAssumption ==
    NoParam \notin OwnUrls /\ OtherParam \notin OwnUrls /\ NoParam # OtherParam

Slot ==
    [input   : Inputs,
     trigger : Triggers \cup {TRIGGER_UNCONFIGURED},
     action  : ActionTypes,
     param   : OwnUrls \cup {NoParam, OtherParam},
     tuned   : BOOLEAN,
     paced   : BOOLEAN]

Array == [Slots -> Slot]

\* What a callback or a native binding is looked up by.
Keys == Inputs \X Triggers

KeyOf(a) == <<a.input, a.trigger>>

\* The desired list, whose (input, trigger) pairs are distinct: which URL each
\* of them is to call.
Wanted == UNION {[K -> OwnUrls] : K \in SUBSET Keys}

-----------------------------------------------------------------------------
(* Ownership *)

is_configured(a) == a.trigger # TRIGGER_UNCONFIGURED

is_owned(a) == a.action = ACTION_HTTP_GET /\ a.param \in OwnUrls

free_slots(A) == {s \in Slots : ~is_configured(A[s])}

\* Mutated: a slot of ours counts as live whatever its trigger says.
owned_actions_AnyTrigger(A) == {s \in Slots : is_owned(A[s])}

owned_actions(A) == {s \in Slots : is_configured(A[s]) /\ is_owned(A[s])}

foreign_actions(A) == {s \in Slots : is_configured(A[s]) /\ ~is_owned(A[s])}

First(S) == CHOOSE s \in S : \A r \in S : s <= r

\* Mutated: any action bound to the trigger is a candidate for editing.
native_actions_AnyType(A, key) ==
    {s \in Slots : KeyOf(A[s]) = key /\ is_configured(A[s])}

native_actions(A, key) ==
    {s \in Slots : /\ KeyOf(A[s]) = key
                   /\ is_configured(A[s])
                   /\ A[s].action \in NATIVE_RELAY_ACTIONS}

-----------------------------------------------------------------------------
(* Writes.  One write is one POST: a slot, the object it gets, and whether   *)
(* the write empties the slot.                                               *)

Write == [slot : Slots, value : Slot, clears : BOOLEAN]

Cleared(a) ==
    [a EXCEPT !.trigger = TRIGGER_UNCONFIGURED, !.action = ACTION_UNCONFIGURED,
              !.param = NoParam, !.tuned = FALSE, !.paced = FALSE]

ClearWrite(A, s) == [slot |-> s, value |-> Cleared(A[s]), clears |-> TRUE]

Callback(key, url, paced) ==
    [input |-> key[1], trigger |-> key[2], action |-> ACTION_HTTP_GET,
     param |-> url, tuned |-> FALSE, paced |-> paced]

-----------------------------------------------------------------------------
(* The plan of async_sync_http_actions *)

\* The first of our slots for each key; later ones are duplicates.
Keepers(A) ==
    {s \in owned_actions(A) :
        \A r \in owned_actions(A) : KeyOf(A[r]) = KeyOf(A[s]) => s <= r}

\* Mutated: a slot is only ours to keep while its URL is the desired one.
Paired_ByUrl(A, want) ==
    {s \in Keepers(A) :
        KeyOf(A[s]) \in DOMAIN want /\ want[KeyOf(A[s])] = A[s].param}

Paired(A, want) == {s \in Keepers(A) : KeyOf(A[s]) \in DOMAIN want}

\* Mutated: duplicates of our own callbacks are forgotten.
Reclaimable_NoSurplus(A, want) == Keepers(A) \ Paired(A, want)

Reclaimable(A, want) == owned_actions(A) \ Paired(A, want)

Unheld(A, want) == DOMAIN want \ {KeyOf(A[s]) : s \in Paired(A, want)}

\* A slot counted towards capacity, tagged with the pool it was counted in:
\* 0 for the free slots, which are spent first, 1 for the stale ones of ours.
Pool(A, want) ==
    ({0} \X free_slots(A)) \cup ({1} \X Reclaimable(A, want))

Before(p, q) == p[1] < q[1] \/ (p[1] = q[1] /\ p[2] < q[2])

\* Mutated: stale slots of ours do not count towards capacity.
Fits_FreeOnly(A, want) ==
    Cardinality(Unheld(A, want)) <= Cardinality(free_slots(A))

Fits(A, want) ==
    Cardinality(Unheld(A, want)) <=
        Cardinality(free_slots(A)) + Cardinality(Reclaimable(A, want))

\* The entries the new callbacks use up: as many as are needed, in pool order.
Spent(A, want) ==
    {p \in Pool(A, want) :
        Cardinality({q \in Pool(A, want) : Before(q, p)})
            < Cardinality(Unheld(A, want))}

\* Which new callback goes where follows the order of the desired list, which
\* is the caller's: every matching of one with the other is some list's.
Placements(A, want) ==
    {f \in [Spent(A, want) -> Unheld(A, want)] :
        \A p, q \in Spent(A, want) : f[p] = f[q] => p = q}

\* Mutated: a slot that is right already is written all the same.
UpdateWrites_Always(A, want) ==
    {[slot |-> s, clears |-> FALSE,
      value |-> Callback(KeyOf(A[s]), want[KeyOf(A[s])], A[s].paced)] :
        s \in Paired(A, want)}

\* Updating a slot keeps the pacing it has.
UpdateWrites(A, want) ==
    {[slot |-> s, clears |-> FALSE,
      value |-> Callback(KeyOf(A[s]), want[KeyOf(A[s])], A[s].paced)] :
        s \in {r \in Paired(A, want) :
                 A[r].param # want[KeyOf(A[r])] \/ A[r].tuned}}

\* Mutated: the pacing of a recycled slot is not reset.
NewWrites_NoReset(A, want, f) ==
    {[slot |-> p[2], clears |-> FALSE,
      value |-> Callback(f[p], want[f[p]], A[p[2]].paced)] :
        p \in Spent(A, want)}

\* A recycled slot has its pacing reset, a free one keeps what it carries.
NewWrites(A, want, f) ==
    {[slot |-> p[2], clears |-> FALSE,
      value |-> Callback(f[p], want[f[p]], p[1] = 0 /\ A[p[2]].paced)] :
        p \in Spent(A, want)}

StaleWrites(A, want) ==
    {ClearWrite(A, s) :
        s \in {r \in Reclaimable(A, want) : <<1, r>> \notin Spent(A, want)}}

SyncPlans(A, want) ==
    {UpdateWrites(A, want) \cup NewWrites(A, want, f) \cup StaleWrites(A, want) :
        f \in Placements(A, want)}

DoubleBooked(plan) == \E w, v \in plan : w # v /\ w.slot = v.slot

-----------------------------------------------------------------------------
(* The plans of async_set_native_action and async_remove_owned_actions *)

NativeFits(A, key, action) ==
    \/ native_actions(A, key) # {}
    \/ action = ACTION_UNCONFIGURED
    \/ free_slots(A) # {}

RebindWrite(A, s, action) ==
    IF action = ACTION_UNCONFIGURED
    THEN ClearWrite(A, s)
    ELSE [slot |-> s, clears |-> FALSE,
          value |-> [A[s] EXCEPT !.action = action, !.param = NoParam]]

\* Mutated: input and trigger swapped.
NewNativeWrite_Swapped(A, s, key, action) ==
    [slot |-> s, clears |-> FALSE,
     value |-> [A[s] EXCEPT !.input = key[2], !.trigger = key[1],
                            !.action = action, !.param = NoParam]]

NewNativeWrite(A, s, key, action) ==
    [slot |-> s, clears |-> FALSE,
     value |-> [A[s] EXCEPT !.input = key[1], !.trigger = key[2],
                            !.action = action, !.param = NoParam]]

NativePlan(A, key, action) ==
    IF native_actions(A, key) # {}
    THEN {RebindWrite(A, First(native_actions(A, key)), action)}
    ELSE IF action = ACTION_UNCONFIGURED
         THEN {}
         ELSE {NewNativeWrite(A, First(free_slots(A)), key, action)}

\* Mutated: only live callbacks are erased.
RemovalPlan_LiveOnly(A) == {ClearWrite(A, s) : s \in owned_actions(A)}

\* Mutated: every HTTP action is taken for ours.
RemovalPlan_AnyHttp(A) ==
    {ClearWrite(A, s) : s \in {r \in Slots : A[r].action = ACTION_HTTP_GET}}

RemovalPlan(A) == {ClearWrite(A, s) : s \in {r \in Slots : is_owned(A[r])}}

\* The order of the POSTs: callbacks in the order of the desired list, then
\* the slots to empty in slot order.
NextWrites(plan) ==
    {w \in plan : w.clears => \A v \in plan : v.clears /\ w.slot <= v.slot}
=============================================================================
