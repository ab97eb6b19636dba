-------------------------- MODULE CallbackReceiver --------------------------
(***************************************************************************)
(* The endpoint a device calls for each press (api.py): the token          *)
(* registry, the debounce that absorbs the device's retries, the dispatch. *)
(* What makes a callback reach it, and when the entry behind a token is    *)
(* loaded, is in EntryLifecycle.                                           *)
(***************************************************************************)
EXTENDS Naturals, FiniteSets

CONSTANTS
    Events,     \* one per input and event type
    Presses,    \* presses whose callbacks may be under way at once
    EventOf,    \* the event of each
    Debounce,   \* data.debounce, in ticks
    RetryFor    \* for how long a device goes on retrying one callback

ASSUME CallbackReceiverAssumption ==
    /\ EventOf \in [Presses -> Events]
    /\ Debounce \in Nat \ {0} /\ RetryFor \in Nat /\ RetryFor < Debounce

VARIABLES
    token,      \* the token of the entry is registered
    last,       \* time since last_event of each event; Debounce when long ago
    press,      \* the callbacks under way
    heard,      \* history: how often this generation dispatched each press
    quiet       \* history: time since a press of each event was dispatched

receiver == <<token, last, press, heard, quiet>>

Pressed == [pc : {"calling"}, age : 0 .. RetryFor]
Silent == [pc |-> "silent"]

ReceiverTypeOK ==
    /\ token \in BOOLEAN
    /\ {last, quiet} \subseteq [Events -> 0 .. Debounce]
    /\ press \in [Presses -> Pressed \cup {Silent}]
    /\ heard \in [Presses -> Nat]

LongAgo == [e \in Events |-> Debounce]

ReceiverInit ==
    /\ token = FALSE
    /\ last = LongAgo
    /\ press = [p \in Presses |-> Silent]
    /\ heard = [p \in Presses |-> 0]
    /\ quiet = LongAgo

Calling == {p \in Presses : press[p].pc = "calling"}

(* A button is pressed whose callback is on the device. *)
Press(p) ==
    /\ press[p] = Silent
    /\ press' = [press EXCEPT ![p] = [pc |-> "calling", age |-> 0]]
    /\ heard' = [heard EXCEPT ![p] = 0]
    /\ UNCHANGED <<token, last, quiet>>

(* The device has its answer, or goes on retrying without one. *)
Served(p) ==
    \/ press' = [press EXCEPT ![p] = Silent]
    \/ press[p].age < RetryFor /\ UNCHANGED press

(* The callback is lost before it reaches Home Assistant. *)
Lost(p) ==
    /\ p \in Calling
    /\ press' = [press EXCEPT ![p] = Silent]
    /\ UNCHANGED <<token, last, heard, quiet>>

Duplicate_Never(e) == FALSE
Duplicate(e) == last[e] < Debounce

(* 404 for a token that is not registered, 503 without runtime data. *)
Rejected(p, loaded) ==
    /\ p \in Calling /\ ~(token /\ loaded)
    /\ Served(p)
    /\ UNCHANGED <<token, last, heard, quiet>>

Absorbed_Refreshing(p, loaded) ==
    /\ p \in Calling /\ token /\ loaded /\ Duplicate(EventOf[p])
    /\ last' = [last EXCEPT ![EventOf[p]] = 0]
    /\ Served(p)
    /\ UNCHANGED <<token, heard, quiet>>

Absorbed(p, loaded) ==
    /\ p \in Calling /\ token /\ loaded /\ Duplicate(EventOf[p])
    /\ Served(p)
    /\ UNCHANGED <<token, last, heard, quiet>>

Dispatched(p, loaded) ==
    /\ p \in Calling /\ token /\ loaded /\ ~Duplicate(EventOf[p])
    /\ last' = [last EXCEPT ![EventOf[p]] = 0]
    /\ quiet' = [quiet EXCEPT ![EventOf[p]] = 0]
    /\ heard' = [heard EXCEPT ![p] = @ + 1]
    /\ Served(p)
    /\ UNCHANGED token

Callback(p, loaded) ==
    Rejected(p, loaded) \/ Absorbed(p, loaded) \/ Dispatched(p, loaded)

(* async_register_token with fresh runtime data, and the opposite. *)
Register ==
    /\ token' = TRUE
    /\ last' = LongAgo /\ quiet' = LongAgo
    /\ heard' = [p \in Presses |-> 0]
    /\ UNCHANGED press

Unregister ==
    /\ token' = FALSE
    /\ UNCHANGED <<last, press, heard, quiet>>

TimePasses ==
    /\ \A p \in Calling : press[p].age < RetryFor
    /\ last' = [e \in Events |-> IF last[e] < Debounce THEN last[e] + 1 ELSE last[e]]
    /\ quiet' = [e \in Events |-> IF quiet[e] < Debounce THEN quiet[e] + 1 ELSE quiet[e]]
    /\ press' = [p \in Presses |->
                    IF p \in Calling THEN [press[p] EXCEPT !.age = @ + 1] ELSE press[p]]
    /\ UNCHANGED <<token, heard>>

-----------------------------------------------------------------------------
(* However often the device retries a callback, and whatever answer it
   lost, its press is dispatched once by one generation of the entry: only
   a reload in between forgets it with last_event (api.py:293-308). *)
NoPressIsHeardTwice == \A p \in Presses : heard[p] <= 1

(* "without swallowing a real second press" (api.py:293): a callback is
   only absorbed when a press of the same event was dispatched less than
   Debounce ago; what was absorbed in between does not count. *)
OnlyAPressSwallowsAPress ==
    [][\A p \in Presses : Absorbed(p, TRUE) => quiet[EventOf[p]] < Debounce]_receiver
=============================================================================
