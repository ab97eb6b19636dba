---------------------------- MODULE RelaySwitch ----------------------------
(***************************************************************************)
(* BleBoxRelaySwitch (switch.py): what Home Assistant believes of the      *)
(* relays of one device, from four sources that arrive in any order: the   *)
(* answers to its own commands, the polls in flight, the callbacks of      *)
(* presses on a button bound to a relay, and the table of bindings the     *)
(* last full cycle read.  The model has one bound button; inverted edges   *)
(* only rename the trigger of its slot and are left out.                   *)
(***************************************************************************)
EXTENDS Naturals, FiniteSets

CONSTANTS
    Relays,     \* relay indices of the device
    Bindings,   \* what the slot of the button may hold
    Tasks,      \* refreshes in flight at once
    Commands,   \* service calls in flight at once
    Settle,     \* COMMAND_SETTLE_S, in ticks
    MaxMoves    \* bound on commands, presses and changes made elsewhere

Says(r) == {r}
Unsaid == {}                \* the slot has no relay field
Binding == [type : {"on", "off", "toggle", "other"},
            relay : {Says(r) : r \in Relays} \cup {Unsaid}]

ASSUME RelaySwitchAssumption ==
    /\ Relays \subseteq Nat /\ 0 \in Relays
    /\ Bindings \subseteq Binding
    /\ Settle \in Nat \ {0} /\ MaxMoves \in Nat

Off == "off"
On == "on"
Unknown == "unknown"
RelayState == {Off, On}
Opposite(v) == IF v = On THEN Off ELSE On

VARIABLES
    relay,      \* what each relay of the device really is
    bound,      \* the slot of the button
    calls,      \* callbacks of presses on their way
    known,      \* the slot in coordinator.data: a set of at most one
    polled,     \* relay states in coordinator.data
    available,  \* last_update_success
    state,      \* _state of each entity
    window,     \* what is left of the settle window of _commanded_at
    cmd,        \* service calls in flight
    job,        \* refreshes in flight
    moves,      \* commands, presses and other changes so far
    quiet,      \* history: time since a command was last answered
    moved       \* history: relays something else moved since their last command

vars == <<relay, bound, calls, known, polled, available, state, window, cmd,
          job, moves, quiet, moved>>

Idle == [pc |-> "idle"]

Job == [pc : {"reading", "read"}, table : SUBSET Bindings,
        got : [Relays -> RelayState \cup {Unknown}],
        before : SUBSET Relays, current : SUBSET Relays]

Cmd == [pc : {"sent", "executed"}, relay : Relays, on : RelayState]

TypeOK ==
    /\ relay \in [Relays -> RelayState]
    /\ bound \in Bindings
    /\ calls \in 0 .. MaxMoves
    /\ known \in SUBSET Bindings
    /\ polled \in [Relays -> RelayState \cup {Unknown}]
    /\ available \in BOOLEAN
    /\ state \in [Relays -> RelayState \cup {Unknown}]
    /\ window \in [Relays -> 0 .. Settle]
    /\ cmd \in [Commands -> Cmd \cup {Idle}]
    /\ job \in [Tasks -> Job \cup {Idle}]
    /\ moves \in 0 .. MaxMoves
    /\ quiet \in [Relays -> 0 .. Settle]
    /\ \A r \in Relays : window[r] > 0 => state[r] # Unknown
    /\ moved \in SUBSET Relays

(* The entity is added after the first refresh, and has observed nothing yet.
   That refresh read the relays, and the slot unless this read failed; or it
   failed and left a seeded snapshot, of any age and without action slots. *)
FirstSnapshot ==
    IF available
        THEN known \in {{}} \cup {{b} : b \in Bindings} /\ polled \in [Relays -> RelayState]
        ELSE known = {} /\ polled \in [Relays -> RelayState \cup {Unknown}]

Init ==
    /\ relay \in [Relays -> RelayState]
    /\ bound \in Bindings
    /\ calls = 0
    /\ available \in BOOLEAN
    /\ FirstSnapshot
    /\ state = [r \in Relays |-> Unknown]
    /\ window = [r \in Relays |-> 0]
    /\ cmd = [c \in Commands |-> Idle]
    /\ job = [t \in Tasks |-> Idle]
    /\ moves = 0
    /\ quiet = [r \in Relays |-> Settle]
    /\ moved = {}

Move == moves < MaxMoves /\ moves' = moves + 1

(* is_on. *)
Shown(r) == IF state[r] # Unknown THEN state[r] ELSE polled[r]

(* History: refreshes that have read lose touch with the relays in R. *)
Outdated(R) ==
    [t \in Tasks |->
        IF job[t].pc = "read" THEN [job[t] EXCEPT !.current = @ \ R] ELSE job[t]]

-----------------------------------------------------------------------------
(* Commands *)

HasCommandLock_None(c, r) == FALSE

(* _command_lock, one per entity. *)
HasCommandLock(c, r) == cmd[c] # Idle /\ cmd[c].relay = r

Command(c, r, v) ==
    /\ available /\ cmd[c] = Idle
    /\ \A d \in Commands : ~HasCommandLock(d, r)
    /\ Move
    /\ cmd' = [cmd EXCEPT ![c] = [pc |-> "sent", relay |-> r, on |-> v]]
    /\ UNCHANGED <<relay, bound, calls, known, polled, available, state, window,
                   job, quiet, moved>>

Execute(c) ==
    /\ cmd[c].pc = "sent"
    /\ LET r == cmd[c].relay IN
        /\ relay' = [relay EXCEPT ![r] = cmd[c].on]
        /\ moved' = moved \ {r}
        /\ job' = [t \in Tasks |->
                    IF job[t].pc = "read"
                        THEN [job[t] EXCEPT !.before = @ \cup {r},
                                            !.current = @ \ {r}]
                        ELSE job[t]]
    /\ cmd' = [cmd EXCEPT ![c].pc = "executed"]
    /\ UNCHANGED <<bound, calls, known, polled, available, state, window, moves,
                   quiet>>

StateAfter_AsAnswered(c, confirmed) == confirmed

(* Without a usable answer the command is taken at its word. *)
StateAfter(c, confirmed) == IF confirmed = Unknown THEN cmd[c].on ELSE confirmed

(* The answer names the resulting state, or nothing usable. *)
Answered(c) ==
    /\ cmd[c].pc = "executed"
    /\ LET r == cmd[c].relay IN
        /\ \E confirmed \in {cmd[c].on, Unknown} :
            state' = [state EXCEPT ![r] = StateAfter(c, confirmed)]
        /\ window' = [window EXCEPT ![r] = Settle]
        /\ quiet' = [quiet EXCEPT ![r] = 0]
    /\ cmd' = [cmd EXCEPT ![c] = Idle]
    /\ UNCHANGED <<relay, bound, calls, known, polled, available, job, moves,
                   moved>>

(* The request or its answer is lost and the service call raises. *)
CommandFails(c) ==
    /\ cmd[c] # Idle
    /\ moved' = IF cmd[c].pc = "executed" THEN moved \cup {cmd[c].relay} ELSE moved
    /\ cmd' = [cmd EXCEPT ![c] = Idle]
    /\ UNCHANGED <<relay, bound, calls, known, polled, available, state, window,
                   job, moves, quiet>>

-----------------------------------------------------------------------------
(* Presses *)

Targets_Any(b, r) == b.relay \in {Says(r), Unsaid}

(* _targets_this_relay: a slot that does not say drives relay 0. *)
Targets(b, r) == b.relay = Says(r) \/ (b.relay = Unsaid /\ r = 0)

Outcome(b, v) ==
    CASE b.type = "on" -> On
      [] b.type = "off" -> Off
      [] b.type = "toggle" /\ v # Unknown -> Opposite(v)
      [] OTHER -> Unknown

(* The device carries out its own binding and calls back. *)
Driven == {r \in Relays :
            bound.type # "other"
            /\ (bound.relay = Says(r) \/ (bound.relay = Unsaid /\ r = 0))}

Press ==
    /\ Move
    /\ relay' = [r \in Relays |-> IF r \in Driven THEN Outcome(bound, relay[r])
                                                  ELSE relay[r]]
    /\ calls' = calls + 1
    /\ moved' = moved \cup Driven
    /\ job' = Outdated(Driven)
    /\ UNCHANGED <<bound, known, polled, available, state, window, cmd, quiet>>

Predicted(r) ==
    IF \E b \in known : Targets(b, r)
        THEN Outcome(CHOOSE b \in known : TRUE, Shown(r))
        ELSE Unknown

Foreseen == {r \in Relays : Predicted(r) # Unknown}

Predict(open) ==
    /\ calls > 0
    /\ calls' = calls - 1
    /\ state' = [r \in Relays |-> IF r \in Foreseen THEN Predicted(r) ELSE state[r]]
    /\ window' = [r \in Relays |-> IF r \in Foreseen THEN open ELSE window[r]]
    /\ quiet' = [r \in Relays |-> IF r \in Foreseen THEN Settle ELSE quiet[r]]
    /\ UNCHANGED <<relay, bound, known, polled, available, cmd, job, moves, moved>>

Callback_ArmsTheWindow == Predict(Settle)

(* _async_handle_input_event: the prediction leaves no window open. *)
Callback == Predict(0)

(* The callback is lost, or dropped by the debounce of the endpoint. *)
CallbackLost ==
    /\ calls > 0
    /\ calls' = calls - 1
    /\ UNCHANGED <<relay, bound, known, polled, available, state, window, cmd,
                   job, moves, quiet, moved>>

(* The wBox app, a countdown or a schedule moves a relay; the wBox app puts
   another action into the slot. *)
MovedElsewhere(r) ==
    /\ Move
    /\ relay' = [relay EXCEPT ![r] = Opposite(@)]
    /\ moved' = moved \cup {r}
    /\ job' = Outdated({r})
    /\ UNCHANGED <<bound, calls, known, polled, available, state, window, cmd, quiet>>

Rebound(b) ==
    /\ Move /\ b # bound
    /\ bound' = b
    /\ UNCHANGED <<relay, calls, known, polled, available, state, window, cmd,
                   job, quiet, moved>>

-----------------------------------------------------------------------------
(* Polls *)

StartPoll(t) ==
    /\ job[t] = Idle
    /\ job' = [job EXCEPT ![t] =
                [pc |-> "reading", table |-> known, got |-> polled,
                 before |-> {}, current |-> {}]]
    /\ UNCHANGED <<relay, bound, calls, known, polled, available, state, window,
                   cmd, moves, quiet, moved>>

(* A relay-only cycle keeps the table of the snapshot it started from; a
   full one reads it too, or loses it when that read fails. *)
ReadPoll(t) ==
    /\ job[t].pc = "reading"
    /\ \E table \in {job[t].table, {bound}, {}} :
        job' = [job EXCEPT ![t] =
                [pc |-> "read", table |-> table, got |-> relay,
                 before |-> {}, current |-> Relays]]
    /\ UNCHANGED <<relay, bound, calls, known, polled, available, state, window,
                   cmd, moves, quiet, moved>>

Ignored_Never(r, v) == FALSE
Ignored_Forever(r, v) == state[r] # Unknown /\ v # state[r]
Ignored(r, v) == state[r] # Unknown /\ v # state[r] /\ window[r] > 0

(* _async_observe, of every entity. *)
Observe(got) ==
    LET Taken == {r \in Relays : got[r] # Unknown /\ ~Ignored(r, got[r])} IN
    /\ state' = [r \in Relays |-> IF r \in Taken THEN got[r] ELSE state[r]]
    /\ window' = [r \in Relays |-> IF r \in Taken THEN 0 ELSE window[r]]

Publish(t) ==
    /\ job[t].pc = "read"
    /\ known' = job[t].table
    /\ polled' = job[t].got
    /\ available' = TRUE
    /\ Observe(job[t].got)
    /\ job' = [job EXCEPT ![t] = Idle]
    /\ UNCHANGED <<relay, bound, calls, cmd, moves, quiet, moved>>

(* The listeners are told of the first failure in a row, and observe the
   snapshot of the last success again. *)
PollFails(t) ==
    /\ job[t] # Idle
    /\ IF available THEN Observe(polled) ELSE UNCHANGED <<state, window>>
    /\ available' = FALSE
    /\ job' = [job EXCEPT ![t] = Idle]
    /\ UNCHANGED <<relay, bound, calls, known, polled, cmd, moves, quiet, moved>>

Tick ==
    /\ window' = [r \in Relays |-> IF window[r] > 0 THEN window[r] - 1 ELSE 0]
    /\ quiet' = [r \in Relays |-> IF quiet[r] < Settle THEN quiet[r] + 1 ELSE Settle]
    /\ UNCHANGED <<relay, bound, calls, known, polled, available, state, cmd, job,
                   moves, moved>>

PollStep(t) == StartPoll(t) \/ ReadPoll(t) \/ Publish(t)
CommandStep(c) == Execute(c) \/ Answered(c)

Next ==
    \/ \E c \in Commands :
        \/ \E r \in Relays, v \in RelayState : Command(c, r, v)
        \/ CommandStep(c) \/ CommandFails(c)
    \/ Press \/ Callback \/ CallbackLost
    \/ \E r \in Relays : MovedElsewhere(r)
    \/ \E b \in Bindings : Rebound(b)
    \/ \E t \in Tasks : PollStep(t) \/ PollFails(t)
    \/ Tick

Spec == Init /\ [][Next]_vars

(* Polling goes on, a device that can be reached answers a poll again and
   again, requests end, callbacks arrive or are lost, and time passes. *)
Fairness ==
    /\ \A t \in Tasks : WF_vars(StartPoll(t)) /\ SF_vars(ReadPoll(t))
                        /\ SF_vars(Publish(t))
    /\ \A c \in Commands : WF_vars(CommandStep(c))
    /\ WF_vars(Callback)
    /\ WF_vars(Tick)

FairSpec == Spec /\ Fairness

-----------------------------------------------------------------------------
Commanding(r) == \E c \in Commands : cmd[c] # Idle /\ cmd[c].relay = r

(* While the settle window of a command is open, nothing else having moved
   the relay and no further command under way, the entity shows what the
   relay is: commands that overlap are neither executed nor answered out of
   order (switch.py:293-305). *)
ConfirmedCommandIsShown ==
    \A r \in Relays :
        (window[r] > 0 /\ r \notin moved /\ ~Commanding(r))
            => Shown(r) = relay[r]

(* A poll that read a relay and is not outdated is believed at once, unless
   a command was answered less than Settle ago: a wrong prediction is
   overruled by the very next poll (switch.py:171-185, 264-281). *)
FreshPollIsBelieved ==
    [][\A t \in Tasks, r \in Relays :
        (/\ job[t].pc = "read" /\ job'[t] = Idle /\ available'
         /\ r \in job[t].current /\ quiet[r] >= Settle)
            => Shown(r)' = relay[r]]_vars

(* "A poll in flight when a command lands must not resurrect the old state"
   (tests/test_advanced.py:501, switch.py:43-51): for Settle after a command
   was answered, with no other under way and nothing else having moved the
   relay, a poll that read the relay before the command was executed does
   not change what is shown.  It holds as long as refreshes do not overlap,
   and not when they do. *)
StalePollDoesNotResurrect ==
    [][\A t \in Tasks, r \in Relays :
        (/\ job[t].pc = "read" /\ job'[t] = Idle /\ available'
         /\ r \in job[t].before /\ quiet[r] < Settle
         /\ r \notin moved /\ ~Commanding(r))
            => Shown(r)' = Shown(r)]_vars

(* A press only changes what is shown of the relay it drives, as long as
   the snapshot knows the binding (switch.py:193-255). *)
SiblingsDoNotReact ==
    [][calls' = calls - 1 /\ known = {bound}
        => \A r \in Relays \ Driven : Shown(r)' = Shown(r)]_vars

(* Once nothing moves any more, every relay is shown as it is
   (switch.py:257-291). *)
ShowsTheRelay == <>[](\A r \in Relays : Shown(r) = relay[r])
=============================================================================
