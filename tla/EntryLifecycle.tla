--------------------------- MODULE EntryLifecycle ---------------------------
(***************************************************************************)
(* A config entry from setup to removal (__init__.py, coordinator.py): the *)
(* steps between which Home Assistant may do something else, the update    *)
(* listener, the reload a device that never answered waits for, and the    *)
(* provisioning runs of successive generations of the entry, each with a   *)
(* manager and locks of its own.  Callbacks arrive throughout.             *)
(*                                                                         *)
(* A slot of the device holds one of our callbacks, named by its event, or *)
(* is free; ActionSlots has the slots of other clients and what is written *)
(* into a slot.                                                            *)
(***************************************************************************)
EXTENDS CallbackReceiver, FiniteSetsExt, Functions

CONSTANTS
    Slots,          \* action slots of the device
    Options,        \* what the options flow may save
    MaxSaves,       \* bound on the times the options are saved
    MaxFaults,      \* bound on the device going away and on failing requests
    MaxRestarts     \* bound on the restarts of Home Assistant

Free == "free"

ASSUME EntryLifecycleAssumption ==
    /\ Free \notin Events
    /\ Slots \subseteq Nat /\ IsFiniteSet(Slots)
    /\ Options \subseteq [auto : BOOLEAN, wanted : SUBSET Events, cleanup : BOOLEAN]
    /\ {MaxSaves, MaxFaults, MaxRestarts} \subseteq Nat

VARIABLES
    slots,      \* the slots of the device
    up,         \* the device answers
    options,    \* entry.options
    remembered, \* CONF_DEVICE_CACHE holds a shape
    pc,         \* what Home Assistant does with the entry
    goal,       \* what follows the unload under way
    reloads,    \* reloads that wait for the setup lock
    removing,   \* the entry is to be removed
    runtime,    \* runtime_data, a set of at most one: options_snapshot, data
    listening,  \* the update listener is registered
    watching,   \* async_keep_polling_without_entities is on
    entities,   \* the polled entities exist
    run,        \* the provisioning runs under way
    saves, faults, restarts,
    missed,     \* history: options were saved with nobody told of it
    disturbed   \* history: what excuses the removal under way from leaving
                \* callbacks behind

lifecycle == <<slots, up, options, remembered, pc, goal, reloads, removing,
               runtime, listening, watching, entities, run, saves, faults,
               restarts, missed, disturbed>>
vars == <<lifecycle, receiver>>

(* The provisioning of the setup, the heal of a scheduled poll, a heal
   inside a service call's refresh, a run of an unloaded generation that is
   still going, and the clean-up of a removal. *)
Kinds == {"setup", "poll", "service", "left over", "removal"}
NoRun == [pc |-> "none"]

Contents == Events \cup {Free}
Writes == UNION {[S -> Contents] : S \in SUBSET Slots}

TypeOK ==
    /\ ReceiverTypeOK
    /\ slots \in [Slots -> Contents]
    /\ {up, remembered, removing, listening, watching, entities, missed,
        disturbed} \subseteq BOOLEAN
    /\ options \in Options
    /\ pc \in {"unloaded", "refreshing", "forwarding", "loaded", "unloading",
               "waiting", "removing", "removed"}
    /\ goal \in {"reload", "remove"}
    /\ reloads \in 0 .. MaxSaves + 1
    /\ Cardinality(runtime) <= 1
    /\ runtime \subseteq [options : Options, known : BOOLEAN]
    /\ run \in [Kinds -> {NoRun} \cup [pc : {"begun"}, wanted : SUBSET Events]
                         \cup [pc : {"writing"}, writes : Writes]]
    /\ saves \in 0 .. MaxSaves /\ faults \in 0 .. MaxFaults
    /\ restarts \in 0 .. MaxRestarts

    (* What Home Assistant has registered belongs to a live generation. *)
    /\ token => runtime # {}
    /\ listening => pc \in {"loaded", "unloading"}
    /\ watching => pc \in {"forwarding", "loaded", "unloading"} /\ ~entities
    /\ pc \in {"unloaded", "removing", "removed"} => runtime = {}

Init ==
    /\ ReceiverInit
    /\ slots = [s \in Slots |-> Free]
    /\ up \in BOOLEAN
    /\ options \in Options
    /\ remembered = FALSE
    /\ pc = "unloaded"
    /\ goal = "reload"
    /\ reloads = 0
    /\ removing = FALSE
    /\ runtime = {}
    /\ listening = FALSE /\ watching = FALSE /\ entities = FALSE
    /\ run = [k \in Kinds |-> NoRun]
    /\ saves = 0 /\ faults = 0 /\ restarts = 0
    /\ missed = FALSE /\ disturbed = FALSE

Data == CHOOSE data \in runtime : TRUE
Loaded == runtime # {}
Owned == {s \in Slots : slots[s] \in Events}
Present == {slots[s] : s \in Owned}

-----------------------------------------------------------------------------
(* Setup *)

(* runtime_data and the token, with no await in between. *)
BeginSetup ==
    /\ pc = "unloaded" /\ ~removing
    /\ pc' = "refreshing"
    /\ runtime' = {[options |-> options, known |-> remembered]}
    /\ missed' = FALSE
    /\ Register
    /\ UNCHANGED <<slots, up, options, remembered, goal, reloads, removing,
                   listening, watching, entities, run, saves, faults,
                   restarts, disturbed>>

Provision(data) ==
    IF data.options.auto THEN [pc |-> "begun", wanted |-> data.options.wanted]
                         ELSE NoRun

Watching_Never(known) == FALSE
Watching(known) == ~known

(* The first refresh is over; provisioning starts beside the platforms. *)
FirstRefresh ==
    /\ pc = "refreshing"
    /\ pc' = "forwarding"
    /\ LET known == up \/ Data.known IN
        /\ runtime' = {[Data EXCEPT !.known = known]}
        /\ remembered' = known
        /\ watching' = Watching(known)
    /\ run' = [run EXCEPT !["setup"] = Provision(Data)]
    /\ UNCHANGED <<slots, up, options, goal, reloads, removing, listening,
                   entities, saves, faults, restarts, missed, disturbed,
                   receiver>>

(* The platforms look at the snapshot, and the update listener is added
   last. *)
FinishSetup ==
    /\ pc = "forwarding"
    /\ pc' = "loaded"
    /\ entities' = Data.known
    /\ listening' = TRUE
    /\ UNCHANGED <<slots, up, options, remembered, goal, reloads, removing,
                   runtime, watching, run, saves, faults, restarts, missed,
                   disturbed, receiver>>

-----------------------------------------------------------------------------
(* Options and polls *)

(* _async_options_updated. *)
Concerns_Mode(new) == new.auto # Data.options.auto
Concerns(new) == new # Data.options

SaveOptions(new) ==
    /\ saves < MaxSaves /\ saves' = saves + 1
    /\ pc # "removed" /\ new # options
    /\ options' = new
    /\ reloads' = IF listening /\ Concerns(new) THEN reloads + 1 ELSE reloads
    /\ missed' = IF pc \in {"refreshing", "forwarding"}
                    THEN new # Data.options ELSE missed
    /\ disturbed' = (disturbed \/ (pc = "removing" /\ new.cleanup # options.cleanup))
    /\ UNCHANGED <<slots, up, remembered, pc, goal, removing, runtime,
                   listening, watching, entities, run, faults, restarts,
                   receiver>>

Missing_Unless == IF Data.options.auto /\ Present = {} THEN Data.options.wanted ELSE {}
Missing == IF Data.options.auto THEN Data.options.wanted \ Present ELSE {}

(* The interval is armed while anything listens. *)
Polling == (pc = "loaded" /\ entities) \/ watching

(* A poll the device answers: the first one of all reloads the entry once.
   Missing callbacks are restored in the same refresh, by a run that queues
   behind those under way. *)
PollAnswered(kind) ==
    /\ up /\ Polling /\ Loaded
    /\ run[kind] = NoRun
    /\ remembered' = TRUE
    /\ runtime' = {[Data EXCEPT !.known = TRUE]}
    /\ watching' = FALSE
    /\ reloads' = IF watching THEN reloads + 1 ELSE reloads
    /\ run' = IF Missing # {} THEN [run EXCEPT ![kind] = Provision(Data)] ELSE run
    /\ UNCHANGED <<slots, up, options, pc, goal, removing, listening, entities,
                   saves, faults, restarts, missed, disturbed, receiver>>

-----------------------------------------------------------------------------
(* Provisioning runs: read, plan, write one slot at a time. *)

(* A callback on the device keeps its first slot; what is absent goes into
   free slots first, then into surplus ones, and the rest of the surplus is
   cleared.  Which callback gets which slot is up to the order they are
   wanted in; there is no plan when the slots do not suffice. *)
Plans(wanted) ==
    LET absent == wanted \ Present
        keepers == {Min({s \in Owned : slots[s] = e}) : e \in wanted \cap Present}
        surplus == Owned \ keepers
        Rank(s) == IF s \in Owned THEN <<1, s>> ELSE <<0, s>>
        Earlier(s, t) == Rank(s)[1] < Rank(t)[1] \/ (Rank(s)[1] = Rank(t)[1] /\ s < t)
        pool == surplus \cup (Slots \ Owned)
        taken == {s \in pool :
                    Cardinality({t \in pool : Earlier(t, s)}) < Cardinality(absent)}
    IN  {[s \in taken \cup surplus |-> IF s \in taken THEN f[s] ELSE Free] :
            f \in Bijection(taken, absent)}

(* The removal clears whatever is ours. *)
PlansOf(k, wanted) ==
    IF k = "removal" THEN {[s \in Owned |-> Free]} ELSE Plans(wanted)

Writing(writes) == IF DOMAIN writes = {} THEN NoRun ELSE [pc |-> "writing", writes |-> writes]

(* The runs of one generation share a manager and its _action_lock; a run
   left over from another, and the removal, have a manager of their own. *)
Sharing == {"setup", "poll", "service"}
Waiting(k) == k \in Sharing /\ \E j \in Sharing \ {k} : run[j].pc = "writing"

Read(k) ==
    /\ run[k].pc = "begun" /\ up /\ ~Waiting(k)
    /\ LET plans == PlansOf(k, run[k].wanted) IN
        \/ plans = {} /\ run' = [run EXCEPT ![k] = NoRun]
        \/ \E plan \in plans : run' = [run EXCEPT ![k] = Writing(plan)]
    /\ UNCHANGED <<slots, up, options, remembered, pc, goal, reloads, removing,
                   runtime, listening, watching, entities, saves, faults,
                   restarts, missed, disturbed, receiver>>

(* One write per step, callbacks before the surplus is cleared. *)
Post(k) ==
    /\ run[k].pc = "writing" /\ up
    /\ LET writes == run[k].writes
           filling == {s \in DOMAIN writes : writes[s] # Free}
           s == Min(IF filling # {} THEN filling ELSE DOMAIN writes)
       IN   /\ slots' = [slots EXCEPT ![s] = writes[s]]
            /\ run' = [run EXCEPT ![k] = Writing(Restrict(writes, DOMAIN writes \ {s}))]
    /\ UNCHANGED <<up, options, remembered, pc, goal, reloads, removing,
                   runtime, listening, watching, entities, saves, faults,
                   restarts, missed, disturbed, receiver>>

(* A request of the run is not answered, and the run is given up. *)
RunFails(k) ==
    /\ run[k] # NoRun /\ ~up /\ ~Waiting(k)
    /\ run' = [run EXCEPT ![k] = NoRun]
    /\ disturbed' = (disturbed \/ k = "removal")
    /\ UNCHANGED <<slots, up, options, remembered, pc, goal, reloads, removing,
                   runtime, listening, watching, entities, saves, faults,
                   restarts, missed, receiver>>

-----------------------------------------------------------------------------
(* Unload, reload, removal, under the lock of the entry. *)

AskRemoval ==
    /\ ~removing /\ pc # "removed"
    /\ removing' = TRUE
    /\ UNCHANGED <<slots, up, options, remembered, pc, goal, reloads, runtime,
                   listening, watching, entities, run, saves, faults, restarts,
                   missed, disturbed, receiver>>

BeginUnload ==
    /\ pc = "loaded"
    /\ \/ removing /\ goal' = "remove" /\ UNCHANGED reloads
       \/ reloads > 0 /\ goal' = "reload" /\ reloads' = reloads - 1
    /\ pc' = "unloading"
    /\ UNCHANGED <<slots, up, options, remembered, removing, runtime, listening,
                   watching, entities, run, saves, faults, restarts, missed,
                   disturbed, receiver>>

Unloaded_StillWatching ==
    /\ pc = "unloading"
    /\ pc' = "waiting"
    /\ listening' = FALSE /\ entities' = FALSE
    /\ run' = [run EXCEPT !["poll"] = NoRun]
    /\ Unregister
    /\ UNCHANGED <<slots, up, options, remembered, goal, reloads, removing,
                   runtime, watching, saves, faults, restarts, missed, disturbed>>

(* The platforms are gone, then the token, then what async_on_unload was
   given; background tasks are cancelled, wherever they are. *)
Unloaded ==
    /\ pc = "unloading"
    /\ pc' = "waiting"
    /\ listening' = FALSE /\ watching' = FALSE /\ entities' = FALSE
    /\ run' = [run EXCEPT !["poll"] = NoRun]
    /\ Unregister
    /\ UNCHANGED <<slots, up, options, remembered, goal, reloads, removing,
                   runtime, saves, faults, restarts, missed, disturbed>>

After == IF goal = "remove" THEN "removing" ELSE "unloaded"

TasksEnded_Unwaited == TRUE
TasksEnded == run["setup"] = NoRun

(* Tracked tasks are awaited; a refresh inside a service call is not one. *)
EndUnload ==
    /\ pc = "waiting" /\ TasksEnded
    /\ run["service"] = NoRun \/ run["left over"] = NoRun
    /\ pc' = After /\ goal' = "reload"
    /\ runtime' = {}
    /\ run' = [run EXCEPT
                !["setup"] = NoRun, !["service"] = NoRun,
                !["left over"] = IF run["service"] # NoRun THEN run["service"]
                                 ELSE IF run["setup"] # NoRun THEN run["setup"] ELSE @,
                !["removal"] = IF goal = "remove" /\ options.cleanup
                                THEN [pc |-> "begun", wanted |-> {}] ELSE NoRun]
    /\ disturbed' = (goal = "remove"
                        /\ (run["service"] # NoRun \/ run["left over"] # NoRun))
    /\ UNCHANGED <<slots, up, options, remembered, reloads, removing,
                   listening, watching, entities, saves, faults, restarts,
                   missed, receiver>>

(* Home Assistant gives up waiting after ten seconds; the task goes on. *)
WaitTimesOut ==
    /\ pc = "waiting" /\ ~TasksEnded
    /\ run["service"] = NoRun /\ run["left over"] = NoRun
    /\ pc' = After /\ goal' = "reload"
    /\ runtime' = {}
    /\ run' = [run EXCEPT
                !["left over"] = run["setup"], !["setup"] = NoRun,
                !["removal"] = IF goal = "remove" /\ options.cleanup
                                THEN [pc |-> "begun", wanted |-> {}] ELSE NoRun]
    /\ disturbed' = (goal = "remove")
    /\ UNCHANGED <<slots, up, options, remembered, reloads, removing,
                   listening, watching, entities, saves, faults, restarts,
                   missed, receiver>>

(* An entry that is not loaded is removed without an unload. *)
RemoveUnloaded ==
    /\ pc = "unloaded" /\ removing
    /\ pc' = "removing"
    /\ run' = [run EXCEPT !["removal"] =
                IF options.cleanup THEN [pc |-> "begun", wanted |-> {}] ELSE NoRun]
    /\ disturbed' = (run["left over"] # NoRun)
    /\ UNCHANGED <<slots, up, options, remembered, goal, reloads, removing,
                   runtime, listening, watching, entities, saves, faults,
                   restarts, missed, receiver>>

Removed ==
    /\ pc = "removing" /\ run["removal"] = NoRun
    /\ pc' = "removed"
    /\ reloads' = 0
    /\ UNCHANGED <<slots, up, options, remembered, goal, removing, runtime,
                   listening, watching, entities, run, saves, faults, restarts,
                   missed, disturbed, receiver>>

-----------------------------------------------------------------------------
(* Home Assistant is restarted, or crashes: only what it stores is left. *)
Restart ==
    /\ restarts < MaxRestarts /\ restarts' = restarts + 1
    /\ pc # "removed"
    /\ pc' = "unloaded"
    /\ runtime' = {} /\ reloads' = 0 /\ removing' = FALSE /\ goal' = "reload"
    /\ listening' = FALSE /\ watching' = FALSE /\ entities' = FALSE
    /\ run' = [k \in Kinds |-> NoRun]
    /\ disturbed' = FALSE
    /\ Unregister
    /\ UNCHANGED <<slots, up, options, remembered, saves, faults, missed>>

GoesAway ==
    /\ up /\ faults < MaxFaults
    /\ up' = FALSE /\ faults' = faults + 1
    /\ UNCHANGED <<slots, options, remembered, pc, goal, reloads, removing,
                   runtime, listening, watching, entities, run, saves,
                   restarts, missed, disturbed, receiver>>

ComesBack ==
    /\ ~up /\ up' = TRUE
    /\ UNCHANGED <<slots, options, remembered, pc, goal, reloads, removing,
                   runtime, listening, watching, entities, run, saves, faults,
                   restarts, missed, disturbed, receiver>>

EntryStep ==
    \/ BeginSetup \/ FirstRefresh \/ FinishSetup
    \/ BeginUnload \/ Unloaded \/ EndUnload
    \/ RemoveUnloaded \/ Removed

RunStep(k) == Read(k) \/ Post(k) \/ RunFails(k)

Calls ==
    /\ \/ \E p \in Presses :
            (EventOf[p] \in Present /\ Press(p)) \/ Callback(p, Loaded) \/ Lost(p)
       \/ TimePasses
    /\ UNCHANGED lifecycle

Next ==
    \/ EntryStep \/ WaitTimesOut
    \/ \E new \in Options : SaveOptions(new)
    \/ PollAnswered("poll") \/ PollAnswered("service")
    \/ \E k \in Kinds : RunStep(k)
    \/ AskRemoval \/ Restart
    \/ GoesAway \/ ComesBack
    \/ Calls

Spec == Init /\ [][Next]_vars

(* Home Assistant takes its steps and goes on polling; a device that went
   away comes back, and one that is there answers. *)
Fairness ==
    /\ WF_vars(EntryStep)
    /\ WF_vars(PollAnswered("poll"))
    /\ \A k \in Kinds : WF_vars(RunStep(k))
    /\ WF_vars(ComesBack)

FairSpec == Spec /\ Fairness

-----------------------------------------------------------------------------
(* A removal that cleans up and is answered leaves none of our callbacks on
   the device, whatever run was under way when it began: only a run that
   outlived its generation, and an option changed after the removal had
   read it, excuse it (__init__.py:125-134, 168-206). *)
RemovalErases ==
    pc = "removed" /\ options.cleanup /\ ~disturbed => Present = {}

Settled == pc \in {"loaded", "removed"} /\ reloads = 0

(* Options are what the entry runs with in the end, unless they were saved
   between options_snapshot and the registration of the listener
   (__init__.py:95, 144, 209-223). *)
OptionsTakeEffect ==
    <>[](Settled /\ (pc = "removed" \/ missed \/ Data.options = options))

(* A device that comes back, even one that had never answered, gets its
   entities with nobody reloading the entry by hand (coordinator.py:553-604,
   __init__.py:136-141). *)
EntitiesArrive == <>[](pc = "removed" \/ entities)

(* In automatic mode every wanted callback is on the device in the end:
   whichever runs failed, were cut off by an unload or a restart, or wrote
   after their generation had gone (coordinator.py:829-902). *)
CallbacksComeBack ==
    <>[](Settled /\ (pc = "removed"
                     \/ (Data.options.auto => Data.options.wanted \subseteq Present)))
=============================================================================
