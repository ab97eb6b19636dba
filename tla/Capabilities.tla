---------------------------- MODULE Capabilities ----------------------------
(***************************************************************************)
(* What Home Assistant remembers of a device (coordinator.py): the shape   *)
(* stored in the config entry, the signature that decides when to rewrite  *)
(* it, the snapshot it seeds after a restart, and the entities every       *)
(* platform builds from a snapshot.                                        *)
(*                                                                         *)
(* A payload is what platforms and signature ask of it: which fields it    *)
(* has, how many relays, whether a measurement is a number.  A field that  *)
(* is an object in one firmware and something else in another is missing.  *)
(***************************************************************************)
EXTENDS Naturals, FiniteSets

CONSTANTS
    Shapes,     \* what the device may have, as firmware and settings change
    MaxChanges, \* bound on its changes
    MaxFaults,  \* bound on failing reads
    MaxRestarts \* bound on reloads and restarts

Identities == Nat
Measurements == {"activePower", "powerConsumption"}

Settings == [keys : SUBSET {"buttonsBacklight", "tunnel", "statusLed"},
             power : SUBSET {"safetyValue", "factoryCalibration"},
             relays : Nat]
State == [safety : BOOLEAN, measured : SUBSET Measurements,
          readable : SUBSET Measurements, timed : SUBSET Nat]
Network == SUBSET {"apEnable"}
Snapshot == [info : Identities, settings : Settings, state : State,
             network : Network, uptime : BOOLEAN]

ASSUME CapabilitiesAssumption ==
    /\ Shapes \subseteq Snapshot
    /\ \A s \in Shapes : s.state.readable \subseteq s.state.measured
    /\ {MaxChanges, MaxFaults, MaxRestarts} \subseteq Nat

VARIABLES
    dev,        \* what the device has
    up,         \* it answers
    pc,         \* what becomes of the entry
    cache,      \* CONF_DEVICE_CACHE, a set of at most one
    sig,        \* _cached_signature, likewise
    snap,       \* coordinator.data, likewise
    fresh,      \* _last_full is set: a full refresh has landed
    poll,       \* the refresh in flight
    entities,   \* the polled entities that exist
    page,       \* the firmware on the device page, 0 when none was reported
    changes, faults, restarts,
    last,       \* history: the last full snapshot ever published
    blip        \* history: it lacked an uptime the one before it had

vars == <<dev, up, pc, cache, sig, snap, fresh, poll, entities, page, changes,
          faults, restarts, last, blip>>

Idle == [pc |-> "idle"]
AtMostOne(S) == {X \in SUBSET S : \A a, b \in X : a = b}
The(X) == CHOOSE x \in X : TRUE

-----------------------------------------------------------------------------
(* What the platforms create from a snapshot (async_setup_entry of each). *)

Sensors(s) ==
    (s.state.readable \X {0})
    \cup (IF s.uptime THEN {<<"uptime", 0>>} ELSE {})
    \cup ({"countdown"} \X s.state.timed)

BinarySensors(s) ==
    {<<"callback_delivery", 0>>}
    \cup (IF s.state.safety THEN {<<"safety", 0>>} ELSE {})
    \cup (({"factoryCalibration"} \cap s.settings.power) \X {0})

PerRelay(s) == {"relay", "restart_state"} \X (1 .. s.settings.relays)

Controls(s) ==
    (s.settings.keys \X {0})
    \cup (({"safetyValue"} \cap s.settings.power) \X {0})
    \cup (s.network \X {0})
    \cup PerRelay(s)

Entities(s) == Sensors(s) \cup BinarySensors(s) \cup Controls(s) \cup {<<"firmware", 0>>}

Created == UNION {Entities(s) : s \in snap}

(* capability_signature: blind to values, but not to the identity's. *)
Signature_AnyIdentity(s) ==
    <<s.settings, s.network, s.state.safety, s.state.measured, s.state.timed, s.uptime>>

Signature(s) ==
    <<s.settings, s.network, s.state.safety, s.state.measured, s.state.timed,
      s.uptime, s.info>>

-----------------------------------------------------------------------------
TypeOK ==
    /\ dev \in Shapes
    /\ {up, fresh, blip} \subseteq BOOLEAN
    /\ pc \in {"stopped", "starting", "forwarding", "running"}
    /\ {cache, snap, last} \subseteq AtMostOne(Snapshot)
    /\ sig = {Signature(s) : s \in cache}
    /\ poll \in {Idle} \cup [pc : {"reading"}, full : BOOLEAN, state : State]
    /\ page \in Identities
    /\ fresh => snap # {} /\ last # {}
    /\ pc = "stopped" => poll = Idle /\ snap = {} /\ entities = {}
    /\ entities # {} => pc = "running" /\ snap # {}
    /\ changes \in 0 .. MaxChanges /\ faults \in 0 .. MaxFaults
    /\ restarts \in 0 .. MaxRestarts

Init ==
    /\ dev \in Shapes
    /\ up \in BOOLEAN
    /\ pc = "stopped"
    /\ cache = {} /\ sig = {} /\ snap = {}
    /\ fresh = FALSE
    /\ poll = Idle
    /\ entities = {} /\ page = 0
    /\ changes = 0 /\ faults = 0 /\ restarts = 0
    /\ last = {} /\ blip = FALSE

environment == <<dev, up, changes>>

Start_Unseeded ==
    /\ pc = "stopped" /\ pc' = "starting"
    /\ snap' = cache /\ sig' = {} /\ fresh' = FALSE
    /\ UNCHANGED <<environment, cache, poll, entities, page, faults, restarts,
                   last, blip>>

(* cached_snapshot, whose state, too, is what the platforms look at. *)
Start ==
    /\ pc = "stopped"
    /\ pc' = "starting"
    /\ snap' = cache
    /\ sig' = {Signature(s) : s \in cache}
    /\ fresh' = FALSE
    /\ UNCHANGED <<environment, cache, poll, entities, page, faults, restarts,
                   last, blip>>

(* The platforms come after the first refresh, whatever came of it. *)
Over == IF pc = "starting" THEN "forwarding" ELSE pc

Polling == pc \in {"starting", "running"}

ReadState ==
    /\ Polling /\ poll = Idle /\ up
    /\ \E full \in IF fresh THEN BOOLEAN ELSE {TRUE} :
        poll' = [pc |-> "reading", full |-> full, state |-> dev.state]
    /\ UNCHANGED <<environment, pc, cache, sig, snap, fresh, entities, page,
                   faults, restarts, last, blip>>

(* The state, or later the identity, cannot be read. *)
RefreshFails ==
    /\ Polling /\ ~up
    /\ poll' = Idle /\ pc' = Over
    /\ pc' # pc \/ poll # Idle
    /\ UNCHANGED <<environment, cache, sig, snap, fresh, entities, page, faults,
                   restarts, last, blip>>

(* The page follows the entities that exist, and entities that waited for a
   first answer come with the reload it causes. *)
Published(new) ==
    /\ poll' = Idle
    /\ IF pc = "running" /\ snap = {}
        THEN pc' = "stopped" /\ snap' = {} /\ fresh' = FALSE
        ELSE pc' = Over /\ snap' = {new} /\ fresh' = TRUE
    /\ page' = IF entities # {} THEN new.info ELSE page

PublishState ==
    /\ poll # Idle /\ ~poll.full
    /\ Published([The(snap) EXCEPT !.state = poll.state])
    /\ UNCHANGED <<environment, cache, sig, entities, faults, restarts, last, blip>>

(* "a device that has reported one before has to keep reporting it" *)
Remember(new, previous) == new.uptime \/ previous = {} \/ ~The(previous).uptime

(* A failing read carries forward what was there, the uptime nothing. *)
Blank == [settings |-> [keys |-> {}, power |-> {}, relays |-> 0], network |-> {}]
Before == IF snap = {} THEN Blank ELSE The(snap)

PublishFull ==
    /\ poll # Idle /\ poll.full /\ up
    /\ \E failing \in SUBSET {"settings", "network", "uptime"} :
        LET new == [info |-> dev.info, state |-> poll.state,
                    settings |-> IF "settings" \in failing THEN Before.settings
                                                           ELSE dev.settings,
                    network |-> IF "network" \in failing THEN Before.network
                                                         ELSE dev.network,
                    uptime |-> dev.uptime /\ "uptime" \notin failing]
        IN  /\ faults' = faults + Cardinality(failing) /\ faults' <= MaxFaults
            /\ IF Remember(new, snap) /\ sig # {Signature(new)}
                THEN cache' = {new} /\ sig' = {Signature(new)}
                ELSE UNCHANGED <<cache, sig>>
            /\ Published(new)
            /\ last' = {new}
            /\ blip' = (~new.uptime /\ \E s \in snap : s.uptime)
    /\ UNCHANGED <<environment, entities, restarts>>

ForwardPlatforms ==
    /\ pc = "forwarding"
    /\ pc' = "running"
    /\ entities' = Created
    /\ page' = IF snap = {} THEN 0 ELSE The(snap).info
    /\ UNCHANGED <<environment, cache, sig, snap, fresh, poll, faults, restarts,
                   last, blip>>

(* A reload, or Home Assistant itself, whose storage is written out. *)
Restart ==
    /\ pc # "stopped" /\ restarts < MaxRestarts
    /\ restarts' = restarts + 1
    /\ pc' = "stopped" /\ poll' = Idle
    /\ snap' = {} /\ fresh' = FALSE /\ entities' = {} /\ page' = 0
    /\ UNCHANGED <<environment, cache, sig, faults, last, blip>>

(* A firmware update, or a setting that adds or removes a field. *)
DeviceChanges(shape) ==
    /\ changes < MaxChanges /\ changes' = changes + 1
    /\ dev' = shape
    /\ UNCHANGED <<up, pc, cache, sig, snap, fresh, poll, entities, page, faults,
                   restarts, last, blip>>

GoesOrComes ==
    /\ up' = ~up
    /\ UNCHANGED <<dev, pc, cache, sig, snap, fresh, poll, entities, page, changes,
                   faults, restarts, last, blip>>

Next ==
    \/ Start \/ ReadState \/ RefreshFails \/ PublishState \/ PublishFull
    \/ ForwardPlatforms \/ Restart
    \/ \E shape \in Shapes : DeviceChanges(shape)
    \/ GoesOrComes

Spec == Init /\ [][Next]_vars

-----------------------------------------------------------------------------
(* A device that is away when the entry is set up gets the entities, and
   the firmware on its page, that the last full answer called for: through
   restarts, failing reads and shapes that came and went.  An uptime that
   failed to be read once is still remembered, and then the rest is from
   the answer before.  A measurement that was no number when its shape was
   stored is excepted (coordinator.py:209-270, 293-322, 743-789). *)
Legible(s) == s.state.readable = s.state.measured

OfflineStartHasEntities ==
    pc = "forwarding" /\ ~fresh /\ last # {}
        => /\ snap # {}
           /\ blip => <<"uptime", 0>> \in Created
           /\ ~blip => /\ The(snap).info = The(last).info
                       /\ Legible(The(snap)) /\ Legible(The(last))
                            => Created = Entities(The(last))
=============================================================================
