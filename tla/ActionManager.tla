--------------------------- MODULE ActionManager ---------------------------
(***************************************************************************)
(* BleBoxActionManager (blebox_actions.py): the callers that read, plan    *)
(* and write the slot array of one device, the two locks they share, the   *)
(* answers of the device and the edits its other clients make meanwhile.   *)
(*                                                                         *)
(* One caller runs one request at a time: a reconciliation of our          *)
(* callbacks, a rebind of a native action, the removal of everything we    *)
(* own, or a settings write, which only takes the write lock.  A request   *)
(* waits for the action lock, reads the array and plans in one step (no    *)
(* await lies between the answer of the read and the first POST), then     *)
(* sends its writes one by one under the write lock.                       *)
(***************************************************************************)
EXTENDS ActionSlots, Sequences

CONSTANTS
    Callers,       \* tasks that use this manager
    NoCaller,
    FactorySlots,  \* what a slot may hold when the manager is built
    WboxSlots,     \* what the wBox app may put into a slot
    MaxEdits,      \* bound on the edits made with the wBox app
    KeepsParam     \* TRUE: firmware that may keep the param of a cleared slot

ASSUME CallersAssumption == NoCaller \notin Callers
ASSUME EnvironmentAssumption ==
    /\ FactorySlots \subseteq Slot /\ WboxSlots \subseteq Slot
    /\ MaxEdits \in Nat /\ KeepsParam \in BOOLEAN

VARIABLES
    device,  \* the slot array the device holds
    pc,      \* where each caller is
    req,     \* the request each caller runs
    seen,    \* the array each caller read
    plan,    \* the writes each caller still has to send
    queue,   \* FIFO of _action_lock: the head holds the lock
    writer,  \* holder of _write_lock
    edited,  \* history: slots other clients changed since the caller's read
    edits    \* number of wBox edits so far

vars == <<device, pc, req, seen, plan, queue, writer, edited, edits>>

NoRequest == [op |-> "none"]

SyncRequest == [op : {"sync"}, want : Wanted]
NativeRequest ==
    [op : {"native"}, key : Keys, action : NATIVE_RELAY_ACTIONS \cap ActionTypes]
RemoveRequest == [op : {"remove"}]

Request == SyncRequest \cup NativeRequest \cup RemoveRequest

NoArray == <<>>

TypeOK ==
    /\ device \in Array
    /\ pc \in [Callers -> {"idle", "queued", "writing", "posting", "settings"}]
    /\ req \in [Callers -> Request \cup {NoRequest}]
    /\ seen \in [Callers -> Array \cup {NoArray}]
    /\ plan \in [Callers -> SUBSET Write]
    /\ queue \in Seq(Callers)
    /\ writer \in Callers \cup {NoCaller}
    /\ edited \in [Callers -> SUBSET Slots]
    /\ edits \in 0..MaxEdits

Init ==
    /\ device \in [Slots -> FactorySlots]
    /\ pc = [c \in Callers |-> "idle"]
    /\ req = [c \in Callers |-> NoRequest]
    /\ seen = [c \in Callers |-> NoArray]
    /\ plan = [c \in Callers |-> {}]
    /\ queue = <<>>
    /\ writer = NoCaller
    /\ edited = [c \in Callers |-> {}]
    /\ edits = 0

-----------------------------------------------------------------------------

\* The caller has read the array and acts on what it read.
Writing(c) == pc[c] \in {"writing", "posting"}

\* Mutated: there is no _action_lock.
Holds_NoLock(c) == queue # <<>>

Holds(c) == queue # <<>> /\ Head(queue) = c

\* A caller leaves the manager: it drops its plan and the action lock goes to
\* the next one in line.
Leave(c) ==
    /\ pc' = [pc EXCEPT ![c] = "idle"]
    /\ req' = [req EXCEPT ![c] = NoRequest]
    /\ seen' = [seen EXCEPT ![c] = NoArray]
    /\ plan' = [plan EXCEPT ![c] = {}]
    /\ edited' = [edited EXCEPT ![c] = {}]
    /\ queue' = Tail(queue)

\* A task calls the manager and joins the queue for _action_lock.
Call(c, r) ==
    /\ pc[c] = "idle"
    /\ pc' = [pc EXCEPT ![c] = "queued"]
    /\ req' = [req EXCEPT ![c] = r]
    /\ queue' = Append(queue, c)
    /\ UNCHANGED <<device, seen, plan, writer, edited, edits>>

\* The plans the request may follow, given the array just read.
PlansFor(A, r) ==
    CASE r.op = "sync"   -> SyncPlans(A, r.want)
      [] r.op = "native" -> {NativePlan(A, r.key, r.action)}
      [] r.op = "remove" -> {RemovalPlan(A)}

\* InsufficientSlotsError, raised before anything is written.
Insufficient(A, r) ==
    \/ r.op = "sync" /\ ~Fits(A, r.want)
    \/ r.op = "native" /\ ~NativeFits(A, r.key, r.action)

\* The request fits and its plan passes the check against double booking.
Acceptable(A, r) ==
    /\ ~Insufficient(A, r)
    /\ \A p \in PlansFor(A, r) : ~DoubleBooked(p)

\* The read answered and the plan was accepted.
ReadAndPlan(c) ==
    /\ pc[c] = "queued" /\ Holds(c)
    /\ Acceptable(device, req[c])
    /\ \E p \in PlansFor(device, req[c]) : plan' = [plan EXCEPT ![c] = p]
    /\ seen' = [seen EXCEPT ![c] = device]
    /\ pc' = [pc EXCEPT ![c] = "writing"]
    /\ UNCHANGED <<device, req, queue, writer, edited, edits>>

\* The read answered and the request was refused: the caller gets an error and
\* nothing was sent.
Refuse(c) ==
    /\ pc[c] = "queued" /\ Holds(c)
    /\ ~Acceptable(device, req[c])
    /\ Leave(c)
    /\ UNCHANGED <<device, writer, edits>>

\* The read failed: unreachable, no such endpoint, or not an action list.
ReadFails(c) ==
    /\ pc[c] = "queued" /\ Holds(c)
    /\ Leave(c)
    /\ UNCHANGED <<device, writer, edits>>

\* async_save_action takes _write_lock and sends the next write.
StartPost(c) ==
    /\ pc[c] = "writing" /\ plan[c] # {}
    /\ writer = NoCaller
    /\ writer' = c
    /\ pc' = [pc EXCEPT ![c] = "posting"]
    /\ UNCHANGED <<device, req, seen, plan, queue, edited, edits>>

\* What the device holds after it accepted w.  Firmware may honour the trigger
\* half of a clear and keep the action type and the param.
Stored(w) ==
    IF w.clears /\ KeepsParam
    THEN {w.value, [w.value EXCEPT !.action = device[w.slot].action,
                                   !.param = device[w.slot].param]}
    ELSE {w.value}

Accept(w) == \E v \in Stored(w) : device' = [device EXCEPT ![w.slot] = v]

\* The POST was accepted; the caller goes on with the rest of its plan.
PostAccepted(c) ==
    /\ pc[c] = "posting"
    /\ \E w \in NextWrites(plan[c]) :
          /\ Accept(w)
          /\ plan' = [plan EXCEPT ![c] = @ \ {w}]
    /\ writer' = NoCaller
    /\ pc' = [pc EXCEPT ![c] = "writing"]
    /\ UNCHANGED <<req, seen, queue, edited, edits>>

\* Mutated: the error leaves the sequence without releasing _action_lock.
PostRejected_KeepsLock(c) ==
    /\ pc[c] = "posting"
    /\ writer' = NoCaller
    /\ pc' = [pc EXCEPT ![c] = "idle"]
    /\ UNCHANGED <<device, req, seen, plan, queue, edited, edits>>

\* The POST was rejected or never arrived; the rest of the plan is abandoned.
PostRejected(c) ==
    /\ pc[c] = "posting"
    /\ writer' = NoCaller
    /\ Leave(c)
    /\ UNCHANGED <<device, edits>>

\* The device carried the write out but its answer was lost or too late.
PostUnanswered(c) ==
    /\ pc[c] = "posting"
    /\ \E w \in NextWrites(plan[c]) : Accept(w)
    /\ writer' = NoCaller
    /\ Leave(c)
    /\ UNCHANGED edits

\* The plan is carried out: the method returns and releases the lock.
Finish(c) ==
    /\ pc[c] = "writing" /\ plan[c] = {}
    /\ Leave(c)
    /\ UNCHANGED <<device, writer, edits>>

\* async_set_settings, which shares only _write_lock with the rest.
StartSettings(c) ==
    /\ pc[c] = "idle" /\ writer = NoCaller
    /\ writer' = c
    /\ pc' = [pc EXCEPT ![c] = "settings"]
    /\ UNCHANGED <<device, req, seen, plan, queue, edited, edits>>

EndSettings(c) ==
    /\ pc[c] = "settings"
    /\ writer' = NoCaller
    /\ pc' = [pc EXCEPT ![c] = "idle"]
    /\ UNCHANGED <<device, req, seen, plan, queue, edited, edits>>

\* Somebody changes a slot with the wBox app, which takes no lock of ours.
WboxEdit(s, v) ==
    /\ edits < MaxEdits
    /\ device[s] # v
    /\ device' = [device EXCEPT ![s] = v]
    /\ edited' = [c \in Callers |->
                    IF Writing(c) THEN edited[c] \cup {s} ELSE edited[c]]
    /\ edits' = edits + 1
    /\ UNCHANGED <<pc, req, seen, plan, queue, writer>>

CallerStep(c) ==
    \/ ReadAndPlan(c)
    \/ Refuse(c)
    \/ ReadFails(c)
    \/ StartPost(c)
    \/ PostAccepted(c)
    \/ PostRejected(c)
    \/ PostUnanswered(c)
    \/ Finish(c)
    \/ EndSettings(c)

Next ==
    \/ \E c \in Callers :
          \/ \E r \in Request : Call(c, r)
          \/ CallerStep(c)
          \/ StartSettings(c)
    \/ \E s \in Slots, v \in WboxSlots : WboxEdit(s, v)

Spec == Init /\ [][Next]_vars

\* Every request ends in an answer or in a timeout, and asyncio locks are
\* granted first come, first served, so no caller is passed over for ever.
Fairness ==
    \A c \in Callers : WF_vars(CallerStep(c)) /\ SF_vars(StartPost(c))

FairSpec == Spec /\ Fairness

-----------------------------------------------------------------------------
(* Properties *)

LiveKeys(A) == {KeyOf(A[s]) : s \in owned_actions(A)}

Live(A) == {<<KeyOf(A[s]), A[s].param>> : s \in owned_actions(A)}

\* A caller that has carried out its whole plan, with nobody else having
\* touched the array since it read it.
Done(c, op) ==
    /\ pc[c] = "writing" /\ plan[c] = {} /\ edited[c] = {}
    /\ req[c].op = op

\* A plan is never carried out against a layout that has moved on: every slot
\* a caller is still to write holds what the caller read, unless the wBox app
\* changed it (the promise of _action_lock).
PlanIsFresh ==
    \A c \in Callers : Writing(c) =>
        \A w \in plan[c] :
            w.slot \notin edited[c] => device[w.slot] = seen[c][w.slot]

\* What a request may write over: a reconciliation or a removal only slots that
\* are free or ours, a native rebind only free slots and native bindings.
MayWrite(r, a) ==
    IF r.op = "native"
    THEN ~is_configured(a) \/ a.action \in NATIVE_RELAY_ACTIONS
    ELSE ~is_configured(a) \/ is_owned(a)

\* A write of ours lands on somebody else's action only if that action was put
\* there with the wBox app after the caller had read the array.
NeverClobbers ==
    [][\A s \in Slots :
          device'[s] # device[s] /\ edits' = edits =>
             \E c \in Callers : /\ pc[c] = "posting"
                                /\ s \in edited[c] \/ MayWrite(req[c], device[s])]_vars

\* The manager implements the ownership discipline of SlotOwnership: also what
\* it writes is a callback, a native binding or an emptied slot and nothing else.
Ownership ==
    INSTANCE SlotOwnership
        WITH array <- device, InitialSlots <- FactorySlots,
             exposed <- UNION {edited[c] : c \in Callers}

OwnershipSpec == Ownership!Spec

\* A reconciliation that returns leaves exactly the desired callbacks live,
\* each in one slot: nothing missing, nothing stale, no duplicate.
SyncEstablishes ==
    \A c \in Callers : Done(c, "sync") =>
        /\ Live(device) = {<<k, req[c].want[k]>> : k \in DOMAIN req[c].want}
        /\ Cardinality(owned_actions(device)) = Cardinality(DOMAIN req[c].want)

\* Running the same reconciliation again writes nothing, so a retry, a reload
\* or a heal does not wear the flash of the device.
SyncIsIdempotent ==
    \A c \in Callers : Done(c, "sync") => SyncPlans(device, req[c].want) = {{}}

\* A wanted callback that was live when the run read the array stays live at
\* every point of the run, failures included: it is rewritten in place and
\* never emptied first.
WantedStaysLive ==
    \A c \in Callers : Writing(c) /\ edited[c] = {} /\ req[c].op = "sync" =>
        DOMAIN req[c].want \cap LiveKeys(seen[c]) \subseteq LiveKeys(device)

\* No plan writes a slot twice: the pools capacity is counted from are disjoint.
NeverDoubleBooked ==
    \A c \in Callers :
        pc[c] = "queued" /\ Holds(c) /\ ~Insufficient(device, req[c]) =>
            \A p \in PlansFor(device, req[c]) : ~DoubleBooked(p)

\* A reconciliation is refused only when the desired callbacks together with
\* what others own really exceed the array: our own stale callbacks are never
\* the reason.
RefusalIsHonest ==
    \A c \in Callers :
        pc[c] = "queued" /\ req[c].op = "sync" /\ Insufficient(device, req[c]) =>
            Cardinality(DOMAIN req[c].want) + Cardinality(foreign_actions(device))
                > Cardinality(Slots)

\* A callback keeps pacing only from its own earlier self: what throttled the
\* previous occupant of a slot does not rate-limit the callback put there.
PacingIsNotInherited ==
    \A c \in Callers : Done(c, "sync") =>
        \A s \in owned_actions(device) : device[s].paced =>
            /\ s \in owned_actions(seen[c])
            /\ KeyOf(seen[c][s]) = KeyOf(device[s])

\* A removal that returns leaves no callback of ours able to fire, and on
\* firmware that honours a clear no callback URL in the array at all.
RemovalErases ==
    \A c \in Callers : Done(c, "remove") =>
        /\ owned_actions(device) = {}
        /\ ~KeepsParam => \A s \in Slots : ~is_owned(device[s])

\* Every request returns, whatever fails and whoever else is waiting.
EveryRequestReturns == \A c \in Callers : pc[c] # "idle" ~> pc[c] = "idle"
=============================================================================
