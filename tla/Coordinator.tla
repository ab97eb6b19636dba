---------------------------- MODULE Coordinator ----------------------------
(***************************************************************************)
(* BleBoxEventsCoordinator (coordinator.py): two-cadence polling of one    *)
(* device, the payloads its own writes leave in front of the snapshot, and *)
(* the writers that ask for a full refresh.                                *)
(*                                                                         *)
(* A payload is abstracted to a version: the number of changes the device  *)
(* has made to it.  The properties only ask which of two payloads is the   *)
(* newer.  Time is a Tick of one unit; every age stops at the bound that   *)
(* its guards compare it with.                                             *)
(***************************************************************************)
EXTENDS Naturals, FiniteSets

CONSTANTS
    Tasks,        \* refreshes that Home Assistant may have in flight at once
    Writers,      \* tasks that write to the device
    Writable,     \* the payloads they write in this instance
    Settle,       \* WRITE_SETTLE_S, in ticks
    Slow,         \* SLOW_REFRESH_SECONDS, in ticks
    MaxChanges,   \* bound on the changes made to the device
    MaxFaults     \* bound on the requests that fail

Payloads == {"actions", "settings", "network"}

(* The payloads a write answers with, which outrank the snapshot. *)
Overlaid == {"settings", "network"}

(* The payloads whose POST holds BleBoxActionManager._write_lock. *)
WriteLocked_None == {}
WriteLocked == {"actions", "settings"}

ASSUME CoordinatorAssumption ==
    /\ Writable \subseteq Payloads
    /\ Settle \in Nat \ {0} /\ Slow \in Nat \ {0}
    /\ MaxChanges \in Nat /\ MaxFaults \in Nat

VARIABLES
    dev,        \* version of each payload the device holds
    data,       \* version of each payload in the published snapshot
    written,    \* _written: what the last write of each payload answered
    force,      \* _force_full
    sinceFull,  \* time since _last_full; Slow when it is None
    job,        \* the refreshes in flight
    writer,     \* the writes in flight
    faults,     \* requests that failed so far
    acked,      \* history: the last version a write was acknowledged with
    owed,       \* history: the same, for writes no refresh was in flight with
    landed      \* history: device version when the last full refresh read it

vars == <<dev, data, written, force, sinceFull, job, writer, faults,
          acked, owed, landed>>

Unknown == 0               \* nothing read yet, or None
Version == Nat
None == [kind |-> "none"]

Idle == [pc |-> "idle"]
NoWrite == [pc |-> "idle"]

Job == [pc : {"state", "info", "actions", "settings", "network", "heal", "publish"},
        full : BOOLEAN, got : [Payloads -> Version],
        tried : [Payloads -> Version], age : 0 .. Slow]

Overlay == [kind : {"written"}, version : Version \ {Unknown}, age : 0 .. Settle]

TypeOK ==
    /\ dev \in [Payloads -> Version \ {Unknown}]
    /\ data \in [Payloads -> Version]
    /\ written \in [Overlaid -> Overlay \cup {None}]
    /\ force \in BOOLEAN
    /\ sinceFull \in 0 .. Slow
    /\ job \in [Tasks -> Job \cup {Idle}]
    /\ writer \in [Writers -> [pc : {"sent", "stored"}, payload : Payloads,
                               version : Version] \cup {NoWrite}]
    /\ faults \in 0 .. MaxFaults
    /\ {acked, owed, landed} \subseteq [Payloads -> Version]

(* An entry starts with nothing, or seeded with the payloads it remembers
   of the device, which are as old as its last change of shape.  Action
   slots are never remembered. *)
Init ==
    /\ dev = [p \in Payloads |-> 2]
    /\ data \in {[p \in Payloads |-> Unknown],
                 [p \in Payloads |-> IF p = "actions" THEN Unknown ELSE 1]}
    /\ written = [p \in Overlaid |-> None]
    /\ force = FALSE
    /\ sinceFull = Slow
    /\ job = [t \in Tasks |-> Idle]
    /\ writer = [w \in Writers |-> NoWrite]
    /\ faults = 0
    /\ acked = [p \in Payloads |-> Unknown]
    /\ owed = [p \in Payloads |-> Unknown]
    /\ landed = [p \in Payloads |-> Unknown]

-----------------------------------------------------------------------------
(* What the entities read. *)
Shown(p) ==
    IF p \in Overlaid /\ written[p] # None THEN written[p].version ELSE data[p]

Expired_Always(overlay) == TRUE
Expired(overlay) == overlay.age >= Settle

Unexpired ==
    [p \in Overlaid |->
        IF written[p] # None /\ Expired(written[p]) THEN None ELSE written[p]]

InFlight == {t \in Tasks : job[t] # Idle}

(* Bounds the changes since Init, those of the writes under way included. *)
Room ==
    dev["actions"] + dev["settings"] + dev["network"]
        + Cardinality({w \in Writers : writer[w].pc = "sent"}) < 6 + MaxChanges

MayFail == faults < MaxFaults
Fault == MayFail /\ faults' = faults + 1

-----------------------------------------------------------------------------
(* Refreshes.  Each read is one step: the device answers it with what it
   holds then, and the next request starts when the answer is in. *)

FullDue_OnlyForced == force
FullDue == force \/ sinceFull >= Slow

StartRefresh(t) ==
    /\ job[t] = Idle
    /\ job' = [job EXCEPT ![t] =
                [pc |-> "state", full |-> FullDue, got |-> data,
                 tried |-> [p \in Payloads |-> Unknown], age |-> 0]]
    /\ UNCHANGED <<dev, data, written, force, sinceFull, writer, faults,
                   acked, owed, landed>>

ReadState(t) ==
    /\ job[t].pc = "state"
    /\ job' = [job EXCEPT ![t].pc = IF job[t].full THEN "info" ELSE "publish"]
    /\ UNCHANGED <<dev, data, written, force, sinceFull, writer, faults,
                   acked, owed, landed>>

ReadInfo(t) ==
    /\ job[t].pc = "info"
    /\ job' = [job EXCEPT ![t].pc = "actions"]
    /\ UNCHANGED <<dev, data, written, force, sinceFull, writer, faults,
                   acked, owed, landed>>

(* UpdateFailed: the refresh is given up and nothing is consumed. *)
RefreshFails_Consumes(t) ==
    /\ job[t].pc \in {"state", "info"}
    /\ Fault
    /\ job' = [job EXCEPT ![t] = Idle]
    /\ force' = FALSE
    /\ UNCHANGED <<dev, data, written, sinceFull, writer, acked, owed, landed>>

RefreshFails(t) ==
    /\ job[t].pc \in {"state", "info"}
    /\ Fault
    /\ job' = [job EXCEPT ![t] = Idle]
    /\ UNCHANGED <<dev, data, written, force, sinceFull, writer,
                   acked, owed, landed>>

After == [actions |-> "settings", settings |-> "network", network |-> "heal"]

(* A failed read carries the previous payload forward, except that the
   action table of the snapshot is None then. *)
CarriedForward_Blank(t, p) == Unknown
CarriedForward(t, p) == IF p = "actions" THEN Unknown ELSE job[t].got[p]

ReadPayload(t) ==
    LET p == job[t].pc IN
    /\ p \in Payloads
    /\ \E answered \in BOOLEAN :
        /\ IF answered THEN UNCHANGED faults ELSE Fault
        /\ job' = [job EXCEPT
                    ![t].pc = After[p],
                    ![t].tried[p] = dev[p],
                    ![t].got[p] = IF answered THEN dev[p] ELSE CarriedForward(t, p)]
    /\ UNCHANGED <<dev, data, written, force, sinceFull, writer,
                   acked, owed, landed>>

(* Callbacks missing from the table just read are put back.  The snapshot
   still carries the table from before. *)
Heal(t) ==
    /\ job[t].pc = "heal"
    /\ \/ UNCHANGED dev
       \/ /\ "actions" \in Writable /\ Room
          /\ job[t].got["actions"] # Unknown
          /\ dev' = [dev EXCEPT !["actions"] = @ + 1]
    /\ job' = [job EXCEPT ![t].pc = "publish"]
    /\ UNCHANGED <<data, written, force, sinceFull, writer, faults,
                   acked, owed, landed>>

(* A relay-only cycle: replace(previous, state=state). *)
PublishState(t) ==
    /\ job[t].pc = "publish" /\ ~job[t].full
    /\ data' = job[t].got
    /\ written' = Unexpired
    /\ job' = [job EXCEPT ![t] = Idle]
    /\ UNCHANGED <<dev, force, sinceFull, writer, faults, acked, owed, landed>>

Newest(f, g) == [p \in Payloads |-> IF f[p] > g[p] THEN f[p] ELSE g[p]]

PublishFull(t) ==
    /\ job[t].pc = "publish" /\ job[t].full
    /\ data' = job[t].got
    /\ written' = Unexpired
    /\ force' = FALSE
    /\ sinceFull' = job[t].age
    /\ landed' = Newest(landed, job[t].tried)
    /\ job' = [job EXCEPT ![t] = Idle]
    /\ UNCHANGED <<dev, writer, faults, acked, owed>>

-----------------------------------------------------------------------------
(* Writes.  async_patch_settings, the access point switch, the rebind of a
   button: the POST, its answer, then the overlay and the request. *)

HasWriteLock(w) == writer[w] # NoWrite /\ writer[w].payload \in WriteLocked

SendWrite(w, p) ==
    /\ writer[w] = NoWrite
    /\ p \in WriteLocked => \A x \in Writers : ~HasWriteLock(x)
    /\ Room
    /\ writer' = [writer EXCEPT ![w] =
                    [pc |-> "sent", payload |-> p, version |-> Unknown]]
    /\ UNCHANGED <<dev, data, written, force, sinceFull, job, faults,
                   acked, owed, landed>>

DeviceStores(w) ==
    /\ writer[w].pc = "sent"
    /\ LET p == writer[w].payload IN
        /\ dev' = [dev EXCEPT ![p] = @ + 1]
        /\ writer' = [writer EXCEPT ![w].pc = "stored", ![w].version = dev[p] + 1]
    /\ UNCHANGED <<data, written, force, sinceFull, job, faults,
                   acked, owed, landed>>

Acknowledge(w) ==
    LET p == writer[w].payload
        v == writer[w].version IN
    /\ written' = IF p \in Overlaid
                    THEN [written EXCEPT ![p] =
                            [kind |-> "written", version |-> v, age |-> 0]]
                    ELSE written
    /\ force' = TRUE
    /\ acked' = [acked EXCEPT ![p] = v]
    /\ owed' = IF InFlight = {} THEN [owed EXCEPT ![p] = v] ELSE owed
    /\ writer' = [writer EXCEPT ![w] = NoWrite]
    /\ UNCHANGED <<dev, data, sinceFull, job, faults, landed>>

WriteAnswered_Optimistic(w) ==
    /\ writer[w].pc \in {"sent", "stored"}
    /\ Acknowledge(w)

WriteAnswered(w) ==
    /\ writer[w].pc = "stored"
    /\ Acknowledge(w)

(* The device refuses the write, or its answer is lost: the service call
   raises, and neither the overlay nor the request is made. *)
WriteFails(w) ==
    /\ writer[w] # NoWrite
    /\ Fault
    /\ writer' = [writer EXCEPT ![w] = NoWrite]
    /\ UNCHANGED <<dev, data, written, force, sinceFull, job,
                   acked, owed, landed>>

-----------------------------------------------------------------------------
(* The wBox app changes a payload. *)
ChangedElsewhere(p) ==
    /\ Room
    /\ dev' = [dev EXCEPT ![p] = @ + 1]
    /\ UNCHANGED <<data, written, force, sinceFull, job, writer, faults,
                   acked, owed, landed>>

Older(n, bound) == IF n < bound THEN n + 1 ELSE n

Tick ==
    /\ written' = [p \in Overlaid |->
                    IF written[p] = None THEN None
                    ELSE [written[p] EXCEPT !.age = Older(@, Settle)]]
    /\ sinceFull' = Older(sinceFull, Slow)
    /\ job' = [t \in Tasks |->
                IF job[t] = Idle THEN Idle
                ELSE [job[t] EXCEPT !.age = Older(@, Slow)]]
    /\ UNCHANGED <<dev, data, force, writer, faults, acked, owed, landed>>

RefreshStep(t) ==
    \/ StartRefresh(t)
    \/ ReadState(t) \/ ReadInfo(t) \/ ReadPayload(t) \/ Heal(t)
    \/ PublishState(t) \/ PublishFull(t)

WriteStep(w) == DeviceStores(w) \/ WriteAnswered(w)

Next ==
    \/ \E t \in Tasks : RefreshStep(t) \/ RefreshFails(t)
    \/ \E w \in Writers :
        \/ \E p \in Writable : SendWrite(w, p)
        \/ WriteStep(w)
        \/ WriteFails(w)
    \/ \E p \in Writable : ChangedElsewhere(p)
    \/ Tick

Spec == Init /\ [][Next]_vars

(* Home Assistant keeps starting refreshes, every request is answered or
   times out, and time passes. *)
Fairness ==
    /\ \A t \in Tasks : WF_vars(RefreshStep(t))
    /\ \A w \in Writers : WF_vars(WriteStep(w))
    /\ WF_vars(Tick)

FairSpec == Spec /\ Fairness

-----------------------------------------------------------------------------
(* What a control of Home Assistant wrote stays what it shows until the
   write is Settle old: no refresh, whatever it read and whenever it
   started, and no slower write puts an older payload in front
   (coordinator.py:75-91, 629-655). *)
OwnWriteHolds ==
    [][\A p \in Overlaid :
        written[p] # None /\ written[p].age < Settle => Shown(p)' >= Shown(p)]_vars

(* A full refresh asked for while none is in flight stays asked for until
   one that began afterwards has landed: polls that fail, in any number and
   at any read, do not cancel it, and no relay-only cycle uses it up
   (coordinator.py:671-674, 727-732). *)
RequestSurvives == \A p \in Payloads : owed[p] > landed[p] => force

(* As long as refreshes do not overlap, the snapshot never goes back to an
   older settings or network payload, and never to none, whichever reads
   fail (coordinator.py:689-719). *)
SnapshotNeverGoesBack ==
    [][\A p \in Overlaid : data'[p] >= data[p]]_vars

(* Once nothing changes any more and the device answers again, every
   payload shown is the one the device holds, and stays so: the slow cycle
   comes round even when nothing forces it, failed reads are made up for,
   and an expired write does not stay in front (coordinator.py:657-742). *)
SettlesOnDevice == <>[](\A p \in Payloads : Shown(p) = dev[p])

(* "A write from Home Assistant forces the next cycle to be a full one, so
   a change made here never waits for the slow cadence"
   (coordinator.py:9-11): until the snapshot carries the write, the next
   cycle is a full one.  The code does not keep this. *)
WriteForcesTheNextCycle == \A p \in Overlaid : acked[p] > data[p] => force
=============================================================================
