------------------------------ MODULE Healing ------------------------------
(***************************************************************************)
(* The slow cycle as far as our callbacks are concerned (coordinator.py):  *)
(* reading the slots, restoring callbacks that are gone, backing off when  *)
(* that keeps failing, and the repair issues raised from what the device   *)
(* says of its own calls.  The provisioning of the setup runs beside it.   *)
(*                                                                         *)
(* A slot is free, somebody else's, or holds one of our callbacks.  What a *)
(* run writes is stated by what it leaves behind; its plans, its POSTs and *)
(* the lock that keeps two runs apart are in ActionManager.                *)
(***************************************************************************)
EXTENDS Integers, FiniteSets

CONSTANTS
    Slots,      \* action slots of the device
    Wanted,     \* the callbacks this entry is configured for
    Others,     \* actions that are not ours
    Looks,      \* of those the layout does not tell apart, one
    MaxCycles,  \* HEAL_BACKOFF_MAX_CYCLES
    MaxMoves,   \* bound on the edits, network changes and failing requests
    MaxRestarts \* bound on the reloads and restarts of Home Assistant

Free == "free"

ASSUME HealingAssumption ==
    /\ IsFiniteSet(Slots) /\ IsFiniteSet(Wanted)
    /\ Free \notin Wanted \cup Others /\ Wanted \cap Others = {}
    /\ Looks \in [Others -> Others]
    /\ MaxCycles \in Nat \ {0}
    /\ MaxMoves \in Nat /\ MaxRestarts \in Nat

Contents == {Free} \cup Wanted \cup Others
Tables == [Slots -> Contents]

(* lastCall of a slot. *)
Outcomes == {"never", "delivered", "rejected", "unreachable"}
Issues == {"callbacks_unreachable", "callbacks_rejected"}

VARIABLES
    table,      \* the slots of the device
    told,       \* how the last call from each slot went
    reach,      \* how a call would go now
    automatic,  \* data.mode
    attempted,  \* provisioning.attempted
    setup,      \* the provisioning task of the setup is under way
    cycle,      \* the full refresh in flight
    attempt,    \* _heal_attempt, a set of at most one
    failures,   \* _heal_failures
    skipped,    \* _heal_skipped
    issues,     \* the repair issues that stand
    moves, restarts,
    situation,  \* history: what was last found missing, and where
    streak,     \* history: repairs of it that failed, one after the other
    waited      \* history: cycles that found it since the last repair

device == <<table, told, reach>>
heal == <<attempt, failures, skipped>>
history == <<situation, streak, waited>>
healing == <<device, automatic, attempted, setup, cycle, heal, issues, moves,
             restarts, history>>

Resting == [pc |-> "idle"]
AtMostOne(S) == {X \in SUBSET S : \A a, b \in X : a = b}
Attempts == [missing : SUBSET Wanted, layout : Tables]
(* read is empty when the actions could not be read. *)
Reports == [table : Tables, told : [Slots -> Outcomes]]
Cycle == [pc : {"read", "repairing", "healed"}, read : AtMostOne(Reports)]

HealingTypeOK ==
    /\ table \in Tables
    /\ told \in [Slots -> Outcomes]
    /\ reach \in Outcomes \ {"never"}
    /\ automatic \in BOOLEAN /\ attempted \in BOOLEAN /\ setup \in BOOLEAN
    /\ cycle \in Cycle \cup {Resting}
    /\ attempt \in AtMostOne(Attempts)
    /\ failures \in 0 .. MaxCycles /\ skipped \in 0 .. MaxCycles
    /\ issues \in AtMostOne(Issues)
    /\ moves \in 0 .. MaxMoves /\ restarts \in 0 .. MaxRestarts

Lesser(a, b) == IF a < b THEN a ELSE b

HealingInit ==
    /\ table \in Tables
    /\ told = [s \in Slots |-> "never"]
    /\ reach \in Outcomes \ {"never"}
    /\ automatic \in BOOLEAN
    /\ attempted = FALSE /\ setup = FALSE
    /\ cycle = Resting
    /\ attempt = {} /\ failures = 0 /\ skipped = 0
    /\ issues = {}
    /\ moves = 0 /\ restarts = 0
    /\ situation = {} /\ streak = 0 /\ waited = 0

Move == moves < MaxMoves /\ moves' = moves + 1

-----------------------------------------------------------------------------
(* What a provisioning run leaves on the device. *)

Holding(T, e) == {s \in Slots : T[s] = e}

(* Others' slots are left alone, a callback that is there keeps one of its
   slots, and each wanted one is in exactly one slot. *)
Provisioned(T) ==
    {U \in Tables :
        /\ \A s \in Slots : T[s] \in Others <=> U[s] \in Others
        /\ \A s \in Slots : T[s] \in Others => U[s] = T[s]
        /\ \A e \in Wanted : /\ Cardinality(Holding(U, e)) = 1
                             /\ Holding(T, e) # {} => Holding(U, e) \subseteq Holding(T, e)}

Rewrite(U) ==
    /\ table' = U
    /\ told' = [s \in Slots |-> IF U[s] = table[s] THEN told[s] ELSE "never"]

RunSucceeds == \E U \in Provisioned(table) : Rewrite(U)

(* Too few slots, with nothing written. *)
RunRefused == Provisioned(table) = {} /\ UNCHANGED <<table, told>>

(* A request fails after part of the plan was carried out. *)
RunBreaksOff ==
    /\ Move
    /\ \E U \in Provisioned(table), done \in SUBSET Slots :
        Rewrite([s \in Slots |-> IF s \in done THEN U[s] ELSE table[s]])

-----------------------------------------------------------------------------
(* Setup: the first refresh is over when the task starts, and its first
   stretch runs at once (async_apply_provisioning). *)
BeginSetupRun ==
    /\ automatic /\ ~attempted /\ cycle = Resting
    /\ attempted' = TRUE /\ setup' = TRUE
    /\ UNCHANGED <<device, automatic, cycle, heal, issues, moves, restarts, history>>

EndSetupRun ==
    /\ setup /\ setup' = FALSE
    /\ \/ (RunSucceeds \/ RunRefused) /\ UNCHANGED moves
       \/ RunBreaksOff
    /\ UNCHANGED <<reach, automatic, attempted, cycle, heal, issues, restarts, history>>

-----------------------------------------------------------------------------
(* A full refresh *)

ReadActions ==
    /\ cycle = Resting
    /\ \/ cycle' = [pc |-> "read", read |-> {[table |-> table, told |-> told]}]
          /\ UNCHANGED moves
       \/ cycle' = [pc |-> "read", read |-> {}] /\ Move
    /\ UNCHANGED <<device, automatic, attempted, setup, heal, issues, restarts,
                   history>>

Missing(T) == {e \in Wanted : Holding(T, e) = {}}

(* Trigger, action and param of each slot, but neither input nor name: our
   URL tells our callbacks apart, nothing need tell apart those of others. *)
Layout(T) == [s \in Slots |-> IF T[s] \in Others THEN Looks[T[s]] ELSE T[s]]

Key_NoLayout(T) == [missing |-> Missing(T), layout |-> [s \in Slots |-> Free]]

(* What an attempt would do, and where. *)
Key(T) == [missing |-> Missing(T), layout |-> Layout(T)]

Due(n) == Lesser(2 ^ (n - 1), MaxCycles)

Seen == (CHOOSE r \in cycle.read : TRUE).table

(* Repairs are only drift repairs once provisioning was attempted. *)
Watched == attempted /\ cycle.read # {}
Finding == cycle.pc = "read" /\ Watched /\ Missing(Seen) # {}

Decided(pc) == cycle' = [cycle EXCEPT !.pc = pc]

(* History: the cycle found something missing. *)
Noted(tried) ==
    /\ situation' = {[missing |-> Missing(Seen), layout |-> Layout(Seen)]}
    /\ streak' = IF situation' = situation THEN streak ELSE 0
    /\ waited' = IF tried THEN 0 ELSE waited + 1

NothingToDo ==
    /\ cycle.pc = "read" /\ ~Watched
    /\ Decided("healed")
    /\ UNCHANGED <<device, automatic, attempted, setup, heal, issues, moves,
                   restarts, history>>

NothingMissing ==
    /\ cycle.pc = "read" /\ Watched /\ Missing(Seen) = {}
    /\ Decided("healed")
    /\ attempt' = {} /\ failures' = 0
    /\ situation' = {} /\ streak' = 0 /\ waited' = 0
    /\ UNCHANGED <<device, automatic, attempted, setup, skipped, issues, moves,
                   restarts>>

(* _async_heal_due *)
TryAnew ==
    /\ Finding /\ attempt # {Key(Seen)}
    /\ attempt' = {Key(Seen)} /\ failures' = 0 /\ skipped' = 0
    /\ Decided("repairing")
    /\ Noted(TRUE)
    /\ UNCHANGED <<device, automatic, attempted, setup, issues, moves, restarts>>

TryAgain ==
    /\ Finding /\ attempt = {Key(Seen)}
    /\ \/ failures = 0 /\ UNCHANGED skipped
       \/ failures > 0 /\ skipped >= Due(failures) /\ skipped' = 0
    /\ Decided("repairing")
    /\ Noted(TRUE)
    /\ UNCHANGED <<device, automatic, attempted, setup, attempt, failures, issues,
                   moves, restarts>>

Skip ==
    /\ Finding /\ attempt = {Key(Seen)}
    /\ failures > 0 /\ skipped < Due(failures)
    /\ skipped' = skipped + 1
    /\ Decided("healed")
    /\ Noted(FALSE)
    /\ UNCHANGED <<device, automatic, attempted, setup, attempt, failures, issues,
                   moves, restarts>>

Failed(n) == Lesser(n + 1, MaxCycles)

Repair ==
    /\ cycle.pc = "repairing"
    /\ Decided("healed")
    /\ \/ /\ RunSucceeds
          /\ failures' = 0 /\ streak' = 0
          /\ UNCHANGED moves
       \/ /\ (RunRefused /\ UNCHANGED moves) \/ RunBreaksOff
          /\ failures' = Failed(failures)
          /\ streak' = Lesser(streak + 1, MaxCycles)
    /\ UNCHANGED <<reach, automatic, attempted, setup, attempt, skipped, issues,
                   restarts, situation, waited>>

-----------------------------------------------------------------------------
(* callback_health and the issues raised from it *)

Says(r, outcome) == {s \in Slots : r.table[s] \in Wanted /\ r.told[s] = outcome}
Problem(r) ==
    /\ Says(r, "delivered") = {}
    /\ Says(r, "unreachable") \cup Says(r, "rejected") # {}

Raised(r) ==
    IF ~Problem(r) THEN {}
    ELSE IF Says(r, "unreachable") # {} THEN {"callbacks_unreachable"}
    ELSE {"callbacks_rejected"}

Updated_RaiseOnly == UNION {Raised(r) : r \in cycle.read} \cup issues

(* An issue that is not raised again is deleted, also when nothing was read. *)
Updated == UNION {Raised(r) : r \in cycle.read}

Publish ==
    /\ cycle.pc = "healed"
    /\ issues' = Updated
    /\ cycle' = Resting
    /\ UNCHANGED <<device, automatic, attempted, setup, heal, moves, restarts,
                   history>>

-----------------------------------------------------------------------------
(* A reload starts over, and a restart loses the issues as well. *)

Fresh ==
    /\ attempted' = FALSE /\ setup' = FALSE
    /\ cycle' = Resting
    /\ attempt' = {} /\ failures' = 0 /\ skipped' = 0
    /\ situation' = {} /\ streak' = 0 /\ waited' = 0

Reload ==
    /\ ~setup /\ restarts < MaxRestarts
    /\ restarts' = restarts + 1
    /\ Fresh
    /\ automatic' \in BOOLEAN
    /\ UNCHANGED <<device, issues, moves>>

Restart ==
    /\ restarts < MaxRestarts /\ restarts' = restarts + 1
    /\ Fresh
    /\ issues' = {}
    /\ UNCHANGED <<device, automatic, moves>>

(* Somebody edits a slot, the network changes, a button is pressed. *)
Edit(s, c) ==
    /\ Move
    /\ table' = [table EXCEPT ![s] = c]
    /\ told' = [told EXCEPT ![s] = "never"]
    /\ UNCHANGED <<reach, automatic, attempted, setup, cycle, heal, issues,
                   restarts, history>>

NetworkChanges ==
    /\ Move
    /\ reach' \in Outcomes \ {"never", reach}
    /\ UNCHANGED <<table, told, automatic, attempted, setup, cycle, heal, issues,
                   restarts, history>>

Press(s) ==
    /\ table[s] \in Wanted /\ told[s] # reach
    /\ told' = [told EXCEPT ![s] = reach]
    /\ UNCHANGED <<table, reach, automatic, attempted, setup, cycle, heal, issues,
                   moves, restarts, history>>

Decide == NothingToDo \/ NothingMissing \/ TryAnew \/ TryAgain \/ Skip
CycleStep == ReadActions \/ Decide \/ Repair \/ Publish

HealingNext ==
    \/ BeginSetupRun \/ EndSetupRun
    \/ CycleStep
    \/ Reload \/ Restart
    \/ \E s \in Slots : Press(s) \/ \E c \in Others \cup {Free} : Edit(s, c)
    \/ NetworkChanges

HealingSpec == HealingInit /\ [][HealingNext]_healing

(* Home Assistant goes on polling, and every request ends. *)
HealingFairness ==
    WF_healing(CycleStep) /\ WF_healing(BeginSetupRun) /\ WF_healing(EndSetupRun)

HealingFairSpec == HealingSpec /\ HealingFairness

-----------------------------------------------------------------------------
(* A cycle that finds callbacks missing repairs them at once when they, or
   the layout of the slots, are not what they were, and otherwise after the
   f-th failure in a row leaves out exactly min(2^(f-1),
   HEAL_BACKOFF_MAX_CYCLES) cycles (coordinator.py:905-931: the back-off
   "never outlives the situation it was earned in"). *)
Same == situation = {[missing |-> Missing(Seen), layout |-> Layout(Seen)]}
Deciding == Finding /\ cycle' # cycle /\ cycle' # Resting

RepairsAreDue ==
    [][Deciding
        => (cycle'.pc = "repairing"
                <=> ~Same \/ streak = 0 \/ waited >= Due(streak))]_healing

(* Once nothing goes wrong any more, a warning stands if and only if the
   calls of the callbacks on the device, none of which arrived, failed that
   way (coordinator.py:125-166, 791-827). *)
Evidence == Raised([table |-> table, told |-> told])
WarningsSettle == <>[](issues = Evidence)
=============================================================================
