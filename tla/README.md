# BleBox Advanced, verified

TLA+ modules, TLC runs and TLAPS proofs about `custom_components/blebox_advanced`,
a Home Assistant integration that programs the action slots of a BleBox switch so
that the device calls Home Assistant on every press, and polls the device for the
rest. File names below are relative to that directory; `PROJECT.json` maps every
definition to the lines it stands for.

## 1. Inventory

| Component | State | Operations | What makes it correct |
|---|---|---|---|
| **Action slots** `blebox_actions.py` | the array of the device: per slot trigger, action, input, param, pacing | classify a slot, find free/owned/foreign/native slots, plan a sync, a rebind, a removal | no plan touches a foreign slot; a sync leaves exactly the wanted callbacks; a second sync writes nothing |
| **Action manager** `blebox_actions.py` | `_action_lock`, `_write_lock`, the runs in flight | `async_sync_http_actions`, `async_set_native_action`, `async_remove_owned_actions`, `async_set_settings`, relay, access point, reads | a plan is never carried out against an array that has moved on; every call returns; a failed run loses no live callback |
| **Coordinator** `coordinator.py` | snapshot, `_force_full`, `_last_full`, `_written`, back-off counters, remembered shape | `_async_update_data`, request a full refresh, record a write, heal, raise issues, remember the shape | what was just written is not snapped back; a forced refresh really happens; Home Assistant ends up showing the device |
| **Relay switch** `switch.py` | `_state`, `_commanded_at`, `_command_lock` | command, observe a poll, predict from a press | commands take effect in order; a stale poll does not flip it; a wrong prediction does not last |
| **Healing and provisioning** `coordinator.py` | `ProvisioningStatus`, attempt key, failures, skipped | `async_apply_provisioning`, `_async_heal`, `_async_heal_due` | callbacks that vanish come back; a hopeless repair backs off, a changed situation does not wait |
| **Callback receiver** `api.py` | token registry, last event per input and type | register, unregister, handle a GET or POST | one dispatch per press however often it is retried; none for an unknown token; a retry never extends the window of the debounce |
| **Entry lifecycle** `__init__.py` | runtime data, listeners, the provisioning task | set up, unload, remove, options changed | reload leaves the device alone; removal erases; a cache write does not reload |
| **Capability memory** `coordinator.py` | `CONF_DEVICE_CACHE`, signature | seed, compare, store | an offline restart has the entities the device last had |
| **Settings controls** `entity.py`, `select.py`, `light.py`, `number.py`, `switch.py` | none of their own | write a patch of a settings group | a control does not revert its sibling; brightness and colour survive a round trip |
| **Config and options flow** `config_flow.py` | flow step, probe result | user, zeroconf, DHCP, confirm, inputs, events, manual; the options menu and its sections | a configured device keeps its one entry; automatic mode is admitted when the callbacks fit; saved sections survive each other |
| **Events, triggers, sensors, update, diagnostics** | none | views of the snapshot, forwarding of a press | no behaviour beyond their inputs |

**Interaction.** The device sends a callback to the receiver, which dispatches it to
the event entities and the relay switches. A switch predicts and asks the coordinator
to refresh. The coordinator polls through the manager, heals through it, and tells
its listeners. Controls write through the manager, hand the device's answer to the
coordinator and ask for a full refresh. Setup starts provisioning as a task beside
all of this. Home Assistant is one event loop: interleaving happens at every
`await`, which here means at every request to the device and every lock.

**Hard behaviours.** Two read-plan-write runs at once; edits with the wBox app, which
knows none of our locks; writes of a run failing one by one or losing their answer;
refreshes that overlap (Home Assistant starts scheduled and requested ones
independently); a write landing while a poll is in flight; a callback arriving before
or after the poll that already shows its effect. `PROJECT.json` lists each hazard at
its line, with the properties that cover it or the reason none does yet.

## 2. Modules

| Module | Models | Read first |
|---|---|---|
| `ActionSlots` | the array, ownership and the three plans, as operators | - |
| `ActionManager` | callers, locks, requests, failures, wBox edits | `ActionSlots` |
| `SlotOwnership` | abstract: who may change which slot into what | `ActionSlots` |
| `Coordinator` | polling, forced refreshes, written payloads | - |
| `RelaySwitch` | belief about the relays: commands, polls, presses | - |
| `SettingsGroup` | the controls that write the settings, and the copies they write from | `Coordinator` |
| `CallbackReceiver` | token, debounce, dispatch, the device's retries | - |
| `EntryLifecycle` | setup to removal of one entry; composes `CallbackReceiver` with the runs of successive generations | `CallbackReceiver`, `ActionManager` |
| `Healing` | repairs of the slow cycle, back-off, provisioning, repair issues | `Coordinator` |
| `Capabilities` | the remembered shape, its signature, what platforms create | `Coordinator` |
| `ConfigFlow` | config flows and options dialogs, on the arrays of `ActionSlots` | `ActionSlots` |
| `MC...` | the constants of the runs, one module for each of the above | |
| `..._proofs` | the theorems about `ActionSlots`, `ActionManager`, `Coordinator` with `Healing`, `RelaySwitch`, `SettingsGroup`, `EntryLifecycle` with `CallbackReceiver`, `Capabilities` and `ConfigFlow` | the module |

### ActionSlots
A slot is a record of the fields the code decides on. `trigger`, `action`, `input`
and `param` keep their roles; `param` is one of our URLs or of two other
values (`NoParam`, `OtherParam`); names and trigger parameters are the flag `tuned`, interval and
throttle the flag `paced`. `is_configured`, `is_owned`, `free_slots`,
`owned_actions`, `foreign_actions` and `native_actions` are the accessors of the
code. `SyncPlans` gives every plan `_async_sync_locked` may produce: callbacks kept in
place (`Paired`), the free slots and then the reclaimed ones for new callbacks
(`Pool`, `Spent`), the rest of our slots cleared. The order in which wanted callbacks
meet slots follows a dictionary in the code and is any bijection (`Placements`) here.
A factory-fresh free slot is assumed to have no pacing, as `blebox_actions.py:944`
says.

### ActionManager
One record per caller: queued for `_action_lock` (a FIFO, as asyncio's), writing,
posting. The answer of the read and the planning are one step because no `await`
separates them; every POST is two steps, under `_write_lock`. A POST is accepted,
rejected, or carried out with its answer lost; the last two end the run and leave the
rest of the plan unsent. A clear may be half honoured by the firmware
(`KeepsParam`). `WboxEdit` changes a slot at any moment. `edited` is a history
variable: the slots others changed since a run read the array.

### Coordinator
A payload is a version number, since the properties only compare ages. A refresh is
the sequence of requests of `_async_update_data`, one step each. The snapshot is
captured at the start, as `previous` is in the code, and a failed best-effort read
carries it forward. `Acknowledge` is the tail shared by `async_patch_settings`, the
access point switch and the button select: record the answer, set `_force_full`. The
latter two differ as in the code: a rebind leaves no overlay, the access point POST
takes no lock. `Tick` is one time unit; ages stop at the bound a guard compares with,
so time needs no bound. `acked`, `owed` and `landed` are history variables.

### RelaySwitch
One entity per relay: `state` and `window` are `_state` and what is left of
`_commanded_at`. An entity comes into being after a first refresh that succeeded, with
what it read of relays and bindings, or one that failed, with a seeded shape and no
binding (`FirstSnapshot`). A poll reads the relays in one step and is folded in by another;
both a success and the first failure in a row notify the entity, the failure with the
snapshot of the last success. A press moves the relay on the device and sends a
callback, which may be late or lost; the prediction uses the binding in the snapshot.
`quiet`, `moved` and the fields `before` and `current` of a poll are history.

### SettingsGroup
The fields are those two controls can disturb in each other: the restart state per
relay, one switch, the overload threshold, and the backlight, of which the device
stores one colour. `Base`, `LevelFor` and `Rescaled` are the arithmetic of `light.py`,
in fractions, with Python's rounding of ties to even. The code computes in doubles, whose
error is far too small to matter unless the exact value is a tie: of all channels and
levels 23 pairs then come out at the odd neighbour, as `25 * (255 / 50)` does. `Slips` is the set of
these. A patch is built from what is shown
(`Basis`) before the write lock is waited for, as `async_patch_settings` is called;
the device merges it (`deep_merge`), answers with everything or with nothing usable,
and the answer becomes the overlay. `asked` is history: the fields whose last write
was acknowledged.

### CallbackReceiver and EntryLifecycle
`CallbackReceiver` is the endpoint and the device's side of a call: a press is retried
until it has an answer or `RetryFor` is over. Its actions take from `EntryLifecycle`
whether runtime data exist. `EntryLifecycle` has the points of `async_setup_entry`
and of Home Assistant's unload between which something else may run: `BeginSetup`,
`FirstRefresh`, `FinishSetup`, then `BeginUnload`, `Unloaded`, `EndUnload`. A
provisioning run belongs to the setup task (awaited by an unload), to a scheduled poll
(cancelled), to a refresh inside a service call (neither), or to a generation that is
gone; a removal has one of its own. The runs of one generation may overlap, each refresh
having decided on its own that a repair is due; they share a manager and queue for its
`_action_lock` (`Waiting`). Those of other generations have other locks and race. A slot here holds an event or is free, since the
plans themselves are checked in `ActionManager`: a plan puts the absent callbacks into
free and reclaimed slots in any order, and there is none when they do not fit. Writes go
out one by one, and a run may be cut off between two. `missed` and `disturbed` are
history. The first says that options were saved with nobody told of it. The second excuses
a removal that leaves something behind, and belongs to the removal under way: a POST
of it failed, the wait for the tasks of the entry was given up, a run that the unload does
not wait for was still going, or the clean-up option changed under it.

### Healing
The full refresh is `ReadActions`, one of the decisions of `_async_heal` and
`_async_heal_due` (`NothingToDo`, `NothingMissing`, `TryAnew`, `TryAgain`, `Skip`),
`Repair`, `Publish`. A run is stated by what it leaves on the device (`Provisioned`),
or by a part of that when it breaks off. The layout that restarts the back-off has
trigger, action and param of each slot, but not its input: `Looks` gives what of an
action of others it shows (`Layout`), so that some edits go unnoticed, as in the code. `told` is `lastCall` of a slot. `situation`,
`streak` and `waited` are history, kept in the words of the docstring rather than in
those of the code: what was last found missing, how many repairs of it failed in a
row, how many cycles found it since the last one.

### Capabilities
A payload is what platforms and signature ask of it. `Entities` collects the
`async_setup_entry` of every platform; `Signature` is `capability_signature`. The
identity is the firmware version, which the device page shows. `last` is the last
full snapshot published, `blip` that it lacked an uptime the one before had.

### ConfigFlow
One record per flow, as Home Assistant keeps one object per flow; `id` is the unique
id it has set. `Probed` is what each source does with the answer, including aborting for
another flow in progress or for an entry that exists, whose address is then updated.
`Creates` replaces an entry with the same unique id, as Home Assistant does. Options
have two sections; a dialog merges its own over what the entry has at that moment.
A device may report its inputs without supporting HTTP actions, so that automatic mode
is not offered, and a firmware update may change that: the answer is chosen anew at each
probe (`MaySupport`) and kept in the entry, which is where the options dialog reads it.
Whether a selection fits is asked of `Fits` of `ActionSlots`, the guard of the run
that will follow.

## 3. Runs

| Run | Instance | Shows |
|---|---|---|
| `sync_one_caller` | 3 slots of 6 contents, one caller, failing and unanswered POSTs | a sync leaves exactly what is wanted (`SyncEstablishes`), twice is once (`SyncIsIdempotent`), live callbacks stay live through failures (`WantedStaysLive`), no slot is written twice, pacing is not inherited, a refusal is honest |
| `two_callers` | 2 callers, 2 slots, a wBox edit, fairness | plans stay fresh under the locks, a removal erases, nothing foreign is clobbered, `SlotOwnership` is implemented, no caller waits for ever |
| `overlapping_refreshes` | 2 refreshes, 2 settings writers, 2 changes, a failure | a request for a full refresh survives failures and overlaps; an own write stays shown for the settle window |
| `one_refresh_at_a_time` | 1 refresh, 1 writer of any payload, 2 changes, 2 failures, fairness | the snapshot never goes back, nor blank; Home Assistant ends up showing the device |
| `relay_switch` | 2 relays, off to begin with, a first refresh that succeeded or failed, 2 service calls, 1 poll, a button bound to either relay, presses and changes elsewhere, fairness | a confirmed command is shown, a fresh poll is believed, a stale one is not; a sibling does not react to a press; every wrong belief is corrected |
| `settings_controls` | 2 relays, 2 service calls, 3 moves, a settle window of 2 ticks | what a control was told it wrote is what is shown, level and hue apart; a write begun alone leaves every acknowledged sibling as it is |
| `entry_lifecycle` | 2 slots, options that want one callback and no clean-up, or the other with it, one save, one outage, one restart, one press at a time with a retry, fairness | a removal erases whatever was running; a press is heard once and only a press swallows a press; options take effect, entities arrive and callbacks come back |
| `repairs` | 2 slots, 2 callbacks, 2 actions of others of one layout, a back-off bound of 3, 2 moves, 1 reload, fairness | a repair is tried exactly when it is due; warnings settle on what the device says |
| `remembered_shape` | 4 shapes, 2 changes, 2 failing reads, 2 restarts | an offline start has the entities and the firmware of the last full answer |
| `config_flow` | 2 devices that may come to support HTTP actions or cease to, 3 addresses, 2 flows, 2 dialogs, 3 slot tables, 2 moves | entries are kept, admission is honest, saved sections survive |

Two runs each show a statement of the code that the code does not keep:

- `write_during_full_refresh`: a settings write whose answer arrives while a full
  refresh is past its settings read sets `_force_full`, and the end of that refresh
  clears it. Five seconds later the control snaps back to the old value, until the
  slow cycle (up to 60 s).
- `two_selects_at_once`: the restart select of one relay is set while the write of the
  other's is under way. Its list was copied before that write was answered, so it
  reverts it; both controls then show the reverted value, for the device confirms it.

**Bounds.** `MaxEdits`, `MaxChanges`, `MaxFaults` and `MaxMoves` bound the actions of
the environment. Three slots are enough for a kept, a reclaimed and a foreign slot at
once, and for a shortage; two callers for every race of the locks; two wanted callbacks
for a swap. In the coordinator a race needs at most two changes of the device (two
writes, or a write and a change elsewhere) and two refreshes; `Settle = 1` and
`Slow = 2` keep the order of the two windows, and the requests of a refresh may take
longer than both, as a chain of 10 s timeouts can. `RelaySwitch` needs two commands and a press or
change; `InitOff` has its relays begin off and a first refresh that succeeded be up to
date, neither of which they need, and its theorems do without. In `settings_controls` two calls and a change elsewhere are the races there are;
its colours and levels have products that fit a byte exactly, because
`AcknowledgedIsShown` is about who overwrites whom and not about rounding. That they have
is no remark but an assumption TLC evaluates (`PaletteIsExact`): the seven colours these
lights can store are closed under every request, each of which sets and keeps exactly what
it should. The requests are a hue, a level, or neither; `Slips` is empty, since none of the
seven colours meets a tie that doubles miss.
`entry_lifecycle` needs one save for two generations with different options, whose runs
each have a slot to clear and one to write when they follow one another, one outage,
for a device that never answered or for a run cut off, and one restart; every one of
them may fall anywhere. Presses are kept apart (`Alone`) from the outage and from the
repair inside a service call, neither of which touches the receiver: they fall anywhere in
setups, reloads, a restart, a removal and the other runs. In
`repairs` only an edit brings the second action of others, and its two slots begin in
one of their two orders (`MCInit`). A back-off bound of 3 has the steps 1, 2 and 3, the last one
capped. `remembered_shape` has two restarts so that a shape remembered from a
seeded generation is used in turn, and two failing reads in one refresh or in two.
`config_flow` has three addresses for two devices so that one may move to where the
other was; its flows, dialogs and addresses are symmetric, and it checks no liveness. `overlapping_refreshes` uses symmetry in refreshes and writers, which are
interchangeable and not compared; it checks no liveness.

**Fairness.** Every request ends because aiohttp has a total timeout, so the steps of a
caller, a refresh and a write are weakly fair. `_write_lock` is a FIFO asyncio lock:
a waiter gets it even if it is taken again and again meanwhile, hence strong
fairness of `StartPost`. Home Assistant keeps scheduling refreshes (weak fairness of
their start) and time passes. `one_refresh_at_a_time` bounds failures and changes, so
"eventually" means "once they stop". `relay_switch` assumes instead that the
device answers again and again (strong fairness of reading and publishing). Both
have one refresh at a time: an endless supply of relay-only refreshes, each
straddling a full one, could restore the old snapshot every time.
`entry_lifecycle` assumes that Home Assistant takes its own steps, goes on polling,
and that a device that went away comes back; that outages, saves and restarts end is
`MaxFaults`, `MaxSaves` and `MaxRestarts`. The limit on waiting for tasks, removals
and refreshes inside service calls are never forced. `repairs` assumes that
cycles and the setup run go on.

## 4. Proofs

TLAPS checks the theorems for every value of the constants, under the named
assumptions of the modules (`SlotsAssumption`, `TriggersAssumption`, ... ,
`KeysAssumption`, `CallersAssumption`, `CoordinatorAssumption`, `RelaySwitchAssumption`,
`SettingsGroupAssumption`, `CallbackReceiverAssumption`, `HealingAssumption`,
`CapabilitiesAssumption`, `ConfigFlowAssumption`): slots and triggers are naturals, the
unconfigured trigger and action are among them, the environment only puts slots into
the array; windows and bounds are naturals; a device gives up on a callback before the
debounce is over (`RetryFor < Debounce`), as the debounce of `api.py:293` takes for granted.

- `ActionSlots_proofs`: the accessors partition any array
  (`AccessorsPartitionTheArray`); a sync plan aims only at free and owned slots and at
  none twice; a rebind at one free or native slot; a removal at owned slots. What a plan
  achieves is stated of the array it was made of, some writes still missing
  (`CarriedOut`): `WantedKeysStayLive` at any point, `ReconciliationEstablishes` at the
  end, and `EstablishedNeedsNothing` of a second plan. `RefusedWantsExceedTheArray` counts:
  the slots a plan keeps are in bijection with the callbacks they hold, the free,
  reclaimable and foreign slots are the rest of the array, so what does not fit the first
  two exceeds the array. Counting needs finitely many inputs and triggers
  (`KeysAssumption`).
- `ActionManager_proofs`: the inductive invariant is
  `IInv = TypeOK /\ LockInv /\ PlanInv`. `LockInv` ties the queue to the callers'
  positions: no caller is in it twice, whoever is in it waits or writes, and a
  writing caller is its head. Without it two callers could both hold fresh plans. `PlanInv`
  says of the head's plan that each write is still one its request may make of the
  array it has read, that untouched slots are as read and that nobody else is charged
  with an edit; `PlanIsFresh` alone is not
  inductive because it forgets where the plan came from. From it follow
  `TypeCorrect`, `PlansStayFresh`, `DoubleBookingNeverHappens`,
  `ForeignActionsAreSafe` (an action property) and `ManagerImplementsOwnership`: each
  step is a `Provision`, `Rebind`, `EditByOthers`, `EndRun` or a stutter of
  `SlotOwnership`, whose variable `exposed` is the union of `edited`.
  Properties of complete runs need more, for `PlanInv` forgets the writes that have been
  made: `ProgressInv` says that there is one plan for the array that was read of which
  the device shows every write that is no longer in `plan`. With the lemmas on
  `CarriedOut` it gives `SyncIsExact`, `SyncNeedsNoRepeat`, `WantedNeverDrops` and
  `RemovalIsComplete`; `RefusalsAreForLackOfRoom` needs `IInv` alone. `PacingStartsAfresh` has
  an invariant of its own, that no free slot carries pacing (`UnpacedInv`): each write that
  empties a slot resets it, and that the slots begin so, and are left so by the wBox app,
  is its hypothesis `FreeSlotsComeUnpaced`, which `blebox_actions.py:944` takes for granted.
- `Coordinator_proofs`: `IInv = TypeOK /\ WritesAreStored /\ OwedIsStored /\
  OwedIsPending`. `TypeOK` alone is not inductive: that an overlay is never empty
  needs `WritesAreStored`. `OwedIsPending` strengthens `RequestSurvives`: while a full
  refresh is owed, every refresh in flight is full and has read nothing from before
  the write, so whichever lands first pays. From it follow `TypeCorrect` and
  `RequestsSurvive`.
  `SettingsHold` says that what was written stays shown, and adds `OverlayInv`: the write lock
  is held once, nothing is newer than the device, and the answer of the holder is newer
  than the overlay it will replace. It is unconditional. `OwnWritesHold` says it of every
  payload if all that is written takes the lock (`Writable \cap Overlaid \subseteq
  WriteLocked`); the access point does not, and two toggles of it refute the rest (§5).
  `SnapshotsNeverGoBack` assumes that no two refreshes are in flight (`NoOverlap`), since
  overlapping ones break it, and says of the one that its payloads lie between the
  snapshot and the device (`SnapshotInv`).
  The same module has the proofs about `Healing`, the other half of `coordinator.py`:
  `HealingInv = HealingTypeOK /\ Agreement`. `Agreement` says that the three
  attributes of the coordinator are the history: `_heal_attempt` is the situation,
  `_heal_failures` the streak, `_heal_skipped` the cycles waited as long as there is an
  attempt, and it is 0 while a repair is under way. It is needed because the property
  `RepairsAreDue` is stated in the history alone and the code decides by its
  attributes, which it resets in different places - `NothingMissing` leaves
  `_heal_skipped` as it is, and only the reset by `TryAnew` makes that harmless. From it
  follow `HealingTypeCorrect`, `AttributesAreTheHistory` and `BackoffIsAsPromised`.
- `RelaySwitch_proofs`: `IInv = TypeOK /\ CallsArePresses /\ OneCommandPerRelay /\
  ExecutedIsTrue /\ WindowIsTrue`. `ConfirmedCommandIsShown` says nothing while a
  command is under way, so it cannot survive the failure of one that never reached the
  device; `WindowIsTrue` is silent only once a command was executed, and
  `ExecutedIsTrue`, with the command lock, says what its answer will find.
  `FreshPollIsBelieved` needs besides that a current poll holds what the relays are
  (`PollIsTrue`) and that window and quiet never exceed `Settle` together (`WindowFits`).
  From it follow `TypeCorrect`, `CommandsAreShown`, `FreshPollsAreBelieved` and
  `SiblingsAreLeftAlone`. `StalePollsAreIgnored` assumes that refreshes do not overlap
  (`NoOverlap`): then nothing closes the window of a command while a poll from before it is
  in flight, so window and quiet are `Settle` exactly (`StaleIsGuarded`). With two polls
  in flight the property fails (§5).
- `SettingsGroup_proofs`: `SettingsInv(K, P)` has two parameters, the fields it speaks of
  and a palette no light leaves. `AcknowledgedIsShown` is far from inductive: it says
  nothing of the snapshot under the overlay, of the refresh in flight, or of the write that
  will be answered next. `DevHolds` says that the device holds what was acknowledged;
  `SnapHolds` that the snapshot does, unless a full refresh is owed; `RelayOnly` that a
  relay-only refresh carries just that snapshot; `PollHolds` that what a refresh has read
  is right of every field it is not outdated in; `StoredHolds` that the write at the
  head of the queue will be answered with what was acknowledged before and what it asked
  for itself. `AloneHolds` is for the siblings: a call made while the queue was empty
  stays its head, so nothing is acknowledged before it is stored, and its patch, built
  from what was shown, repeats every sibling as the device has it. `Queued` ties the queue
  to the calls, each once; without it `TypeOK` is not inductive.
  How far this reaches depends on the arithmetic of the backlight, where bytes lose what
  they cannot hold. `Exact(K, P)` says that they lose nothing of the fields of `K` within
  `P`, and each theorem is the same induction over another pair. `TypeCorrect` needs
  nothing, nor does `PlainFieldsHold`, about the selects, switches, numbers and the on/off
  of the light. `LevelsHold` adds the level over all colours, if every hue asked for is at
  full brightness (`Bright`), as the colour picker's are. It rests on two lemmas about
  `_rescale`: `HuesAreBright`, by which the brightest channel of a hue is 255 and
  never a tie, and `BrightColorsTakeTheLevel`, by which scaling such a colour to a level
  gives exactly that level back. `AcknowledgedIsShownInAPalette` and
  `SiblingsSurviveInAPalette` are the properties of the run, hue included, for any palette
  that is exact for all fields. The hue cannot do without: at low levels it is lost (§5).
  `settings_controls` shows such a palette (`PaletteIsExact`).
- `EntryLifecycle_proofs`: every step of an entry is a step of its receiver or a stutter.
  The invariant of the receiver adds `HeardIsRecent` to `NoPressIsHeardTwice`: the event
  of a press that was heard and is still retried was last dispatched no longer ago than
  that press was made, so `RetryFor < Debounce` absorbs the retry. From it follow
  `EveryPressIsHeardOnce` and, as `last` is the time since a dispatch (`LastIsQuiet`),
  `RetriesDoNotSwallow`.
  `LifeInv` is about the entry itself. `OneGeneration` says which stages have runtime data
  and listeners, and of which generation; without it `TypeOK`, which ties them together, is
  not inductive. `ReloadsHaveReasons` bounds the reloads by the saves and the one that a
  device's first answer asks for. `RunsHaveOwners` says which runs may still be going at
  which stage: once an entry is unloaded, one that was left over, and the removal's. With it
  `RemovalGoesOn` follows the removal: it has not read the device yet, or still has a clear
  to write for each slot of ours, or there is none. From it follow `TypeCorrect` and
  `RemovalIsComplete`.
- `Capabilities_proofs`: `SignatureDecidesEntities` is what the signature is for. The
  invariant adds to `TypeOK` that until a full refresh has landed the snapshot is the
  remembered shape, that an uptime in the snapshot is remembered too, and
  `CacheFollows`: the signature stored is that of the last full snapshot, unless that
  one lacked its uptime. From it follow `TypeCorrect` and `OfflineStartsAreComplete`.
- `ConfigFlow_proofs`: `FInv` says that no device is in two flows at once, and that a
  flow past its probe is for a device without an entry; the second is kept only because
  of the first, for the probe is long past when the entry is created. With it
  `NoEntryIsLost` holds although creating an entry replaces one. `AdmissionIsExact`
  rests on `CapacityIsExact`: the slots a reconciliation keeps are in bijection with
  the callbacks they hold, so "free and ours" is enough exactly when "free and
  reclaimable" is for the rest. `SavesAreKept` is the third.

Model-checked only: liveness (`EveryRequestReturns`, `SettlesOnDevice`,
`ShowsTheRelay`, `OptionsTakeEffect`, `EntitiesArrive`, `CallbacksComeBack`,
`WarningsSettle`), which is out of the prover's reach; and that the palette of
`settings_controls` is exact, which TLC evaluates. Every invariant and every other action
property of the passing runs is stated by a theorem; `HealingTypeOK` is proved and not
checked by a run.

## 5. Not modelled, and where the models stop

- A POST that the client gave up on is carried out before its failure is reported, or
  never. On the device it might happen later, after the locks were released.
- Cancelling a task that waits for a lock or a request (unload, restart).
- The access point POST takes no lock (`WriteLocked`), so with two writers to
  `network` the overlay can be the older answer; `OwnWriteHolds` is checked with two
  writers of settings.
- Refreshes that overlap can publish an older snapshot over a newer one. The code does
  not prevent it; `SnapshotNeverGoesBack` is checked without overlap.
- The back-off of two overlapping full refreshes that both repair: `Healing` has one at
  a time. `EntryLifecycle` lets their runs overlap, and has no back-off.
- A refresh inside a service call that outlives the unload may raise a repair issue, or
  store a shape, for an entry that has been removed.
- A missing base URL, with which repairs return before they touch a counter, and the log.
- Options saved while the setup is between its copy of them and its listener
  (`__init__.py:95`, `:144`) take effect at the next reload; `OptionsTakeEffect` excepts
  them through `missed`.
- A debounce of 0; a reload that forgets `last_event` between a press and its retry;
  callbacks that arrive before the event entities exist, which are answered 200.
- That Home Assistant writes its storage some seconds late: a crash may lose a shape or
  options that `Capabilities` and `EntryLifecycle` keep.
- Home Assistant aborting other flows when an entry for the same device is created, and an
  address taken over by another device after its entry exists: the identity is not
  checked again.
- Home Assistant itself: the debouncer that delays or drops requested refreshes is
  covered by letting a refresh start at any time.
- Values of `input` that are not integers, and inverted edges, which rename triggers.
- Event entities and device triggers forward a press and keep nothing; diagnostics
  and translations have no behaviour.

What the models show the code to do, where no statement of the repository is
contradicted plainly enough to be a finding, or no run is spent on it:

- An action saved with the wBox app between the read and the POST of a run is
  overwritten (`blebox_actions.py:985`); a run that fails half way leaves the part it has
  written, though it is logged as having left the configuration untouched
  (`coordinator.py:478`).
- A forced full refresh whose settings read failed uses up its request
  (`coordinator.py:730`).
- With two polls in flight, one that agrees with a command closes the settle window
  early and the other, read before the command, flips the switch (`switch.py:281`).
- A cycle that cannot read the actions deletes a repair issue that is still true
  (`coordinator.py:724`, `:827`).
- Two failed uptime reads in a row make the remembered shape forget the uptime
  (`coordinator.py:754`); a first refresh that reads no settings leaves the platforms
  without entities until a reload (`coordinator.py:711`).
- At low levels the backlight loses its hue, and a colour no channel of which reaches
  128 is stored as black at level 1 (`light.py:63`).

## 6. Plan

Done: `ActionSlots`, `ActionManager` with `SlotOwnership`, `Coordinator`,
`RelaySwitch`, `SettingsGroup`, `CallbackReceiver` with `EntryLifecycle`, `Healing`,
`Capabilities`, `ConfigFlow`. What is left:

- `EntryLifecycle` with two entries, and the back-off of `Healing` under overlapping refreshes.
- The hue of the backlight, as a relation between what is asked and what is shown: how far
  from it the bytes of a level can be. Its level is exact (`LevelsHold`).

## 7. Running

    tlc -workers 2 -config sync_one_caller.cfg MCActionManager.tla
    tlc -workers 2 -config overlapping_refreshes.cfg MCCoordinator.tla
    tlc -workers 2 -config relay_switch.cfg MCRelaySwitch.tla
    tlc -workers 2 -config settings_controls.cfg MCSettingsGroup.tla
    tlc -workers 2 -config entry_lifecycle.cfg MCEntryLifecycle.tla
    tlc -workers 2 -config repairs.cfg MCHealing.tla
    tlc -workers 2 -config remembered_shape.cfg MCCapabilities.tla
    tlc -workers 2 -config config_flow.cfg MCConfigFlow.tla
    tlapm ActionSlots_proofs.tla
    tlapm ActionManager_proofs.tla
    tlapm Coordinator_proofs.tla
    tlapm RelaySwitch_proofs.tla
    tlapm SettingsGroup_proofs.tla
    tlapm EntryLifecycle_proofs.tla
    tlapm Capabilities_proofs.tla
    tlapm ConfigFlow_proofs.tla
