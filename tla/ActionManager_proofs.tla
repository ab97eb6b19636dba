------------------------ MODULE ActionManager_proofs ------------------------
(***************************************************************************)
(* Safety of ActionManager for any number of callers, slots and edits: the *)
(* inductive invariant behind PlanIsFresh, NeverClobbers and the           *)
(* refinement of SlotOwnership.                                            *)
(***************************************************************************)
EXTENDS ActionManager, ActionSlots_proofs, TLAPS

Active == {"queued", "writing", "posting"}

InQueue(c) == pc[c] \in Active

\* _action_lock: each caller is in line once, and only the head acts.
LockInv ==
    /\ \A i, j \in 1..Len(queue) : queue[i] = queue[j] => i = j
    /\ \A i \in 1..Len(queue) : InQueue(queue[i])
    /\ \A c \in Callers : Writing(c) => Holds(c)

\* What a write may leave in its slot.
MayStore(r, v) ==
    \/ ~is_configured(v)
    \/ IF r.op = "native" THEN v.action \in NATIVE_RELAY_ACTIONS ELSE is_owned(v)

\* A write that request r may plan over the array A.
PlannedFor(r, A, w) ==
    /\ w \in Write
    /\ MayWrite(r, A[w.slot])
    /\ MayStore(r, w.value)
    /\ IF w.clears THEN Blank(w.value) ELSE is_configured(w.value)

PlanInv ==
    /\ \A c \in Callers : InQueue(c) => req[c] \in Request
    /\ \A c \in Callers : ~Writing(c) => edited[c] = {}
    /\ \A c \in Callers : Writing(c) =>
          /\ seen[c] \in Array
          /\ ~DoubleBooked(plan[c])
          /\ \A w \in plan[c] :
                /\ PlannedFor(req[c], seen[c], w)
                /\ w.slot \notin edited[c] => device[w.slot] = seen[c][w.slot]

IInv == TypeOK /\ LockInv /\ PlanInv

-----------------------------------------------------------------------------
(* Lemmas *)

LEMMA RequestKinds ==
    ASSUME NEW r \in Request
    PROVE  \/ r.op = "sync" /\ r.want \in Wanted
           \/ r.op = "native" /\ r.key \in Keys
                /\ r.action \in NATIVE_RELAY_ACTIONS \cap ActionTypes
           \/ r.op = "remove"
BY DEF Request, SyncRequest, NativeRequest, RemoveRequest

\* Whatever the request, a plan that fits only names writes it may plan, each
\* slot once.
LEMMA PlansAreSafe ==
    ASSUME NEW A \in Array, NEW r \in Request, ~Insufficient(A, r),
           NEW p \in PlansFor(A, r)
    PROVE  /\ p \in SUBSET Write
           /\ ~DoubleBooked(p)
           /\ \A w \in p : PlannedFor(r, A, w)
<1>1. CASE r.op = "sync"
  <2>1. r.want \in Wanted /\ p \in SyncPlans(A, r.want)
    BY <1>1, RequestKinds DEF PlansFor
  <2>2. ~DoubleBooked(p)
    BY <2>1, SyncPlansNeverDoubleBook
  <2>3. \A w \in p : SyncWriteOK(A, w)
    BY <2>1, SyncPlansOnlyTouchFreeAndOwned
  <2>4. ASSUME NEW w \in p PROVE w \in Write /\ PlannedFor(r, A, w)
    <3>1. SyncWriteOK(A, w)
      BY <2>3
    <3>2. MayWrite(r, A[w.slot])
      BY <1>1, <3>1 DEF SyncWriteOK, MayWrite, free_slots, owned_actions
    <3>3. /\ MayStore(r, w.value)
         /\ IF w.clears THEN Blank(w.value) ELSE is_configured(w.value)
      BY <1>1, <3>1 DEF SyncWriteOK, MayStore, Blank
    <3> QED BY <3>1, <3>2, <3>3 DEF SyncWriteOK, PlannedFor
  <2> QED BY <2>2, <2>4
<1>2. CASE r.op = "native"
  <2>1. /\ r.key \in Keys
        /\ r.action \in NATIVE_RELAY_ACTIONS \cap ActionTypes
        /\ p = NativePlan(A, r.key, r.action)
        /\ NativeFits(A, r.key, r.action)
    BY <1>2, RequestKinds DEF PlansFor, Insufficient
  <2>2. ~DoubleBooked(p) /\ \A w \in p : NativeWriteOK(A, w)
    BY <2>1, NativePlanOnlyTouchesFreeAndNative
  <2>3. ASSUME NEW w \in p PROVE w \in Write /\ PlannedFor(r, A, w)
    <3>1. NativeWriteOK(A, w)
      BY <2>2
    <3>2. MayWrite(r, A[w.slot])
      BY <1>2, <3>1 DEF NativeWriteOK, MayWrite
    <3>3. /\ MayStore(r, w.value)
         /\ IF w.clears THEN Blank(w.value) ELSE is_configured(w.value)
      BY <1>2, <3>1 DEF NativeWriteOK, MayStore, Blank
    <3> QED BY <3>1, <3>2, <3>3 DEF NativeWriteOK, PlannedFor
  <2> QED BY <2>2, <2>3
<1>3. CASE r.op = "remove"
  <2>1. p = RemovalPlan(A)
    BY <1>3 DEF PlansFor
  <2>2. /\ ~DoubleBooked(p)
        /\ \A w \in p : /\ w \in Write /\ w.clears
                        /\ is_owned(A[w.slot]) /\ Blank(w.value)
    BY <2>1, RemovalPlanOnlyClearsOwned
  <2> QED BY <1>3, <2>2 DEF PlannedFor, MayWrite, MayStore, Blank
<1> QED BY <1>1, <1>2, <1>3, RequestKinds

\* What the device stores for a planned write is a slot the request may leave.
LEMMA StoredIsAllowed ==
    ASSUME device \in Array, NEW r, NEW A, NEW w, PlannedFor(r, A, w),
           NEW v \in Stored(w)
    PROVE  v \in Slot /\ MayStore(r, v)
<1>1. w \in Write /\ w.slot \in Slots /\ w.value \in Slot /\ device[w.slot] \in Slot
  BY DEF PlannedFor, Write, Array
<1>2. CASE v = w.value
  BY <1>1, <1>2 DEF PlannedFor
<1>3. CASE /\ w.clears
           /\ v = [w.value EXCEPT !.action = device[w.slot].action,
                                  !.param = device[w.slot].param]
  <2>1. ~is_configured(w.value)
    BY <1>3 DEF PlannedFor, Blank
  <2>2. v \in Slot /\ v.trigger = w.value.trigger
    BY <1>1, <1>3 DEF Slot
  <2> QED BY <2>1, <2>2 DEF is_configured, MayStore
<1> QED BY <1>2, <1>3 DEF Stored

\* Only one caller acts on an array it read.
LEMMA OneWriter ==
    ASSUME LockInv, NEW c \in Callers, NEW d \in Callers, Writing(c), Writing(d)
    PROVE  c = d
BY DEF LockInv, Holds

LEMMA HolderIsFirst ==
    ASSUME TypeOK, NEW c \in Callers, Holds(c)
    PROVE  Len(queue) \in Nat /\ Len(queue) >= 1 /\ queue[1] = c
BY DEF TypeOK, Holds

\* Nobody acts on an array it read once the holder of the lock has left.
LEMMA LeaveEndsWriting ==
    ASSUME TypeOK, LockInv, NEW c \in Callers, Holds(c), Leave(c)
    PROVE  \A d \in Callers : ~Writing(d)'
<1> SUFFICES ASSUME NEW d \in Callers, Writing(d)' PROVE FALSE
  OBVIOUS
<1>1. d # c /\ pc'[d] = pc[d]
  BY DEF Writing, Leave, TypeOK
<1>2. Writing(d)
  BY <1>1 DEF Writing
<1>3. queue[1] = c /\ queue[1] = d
  BY <1>2, HolderIsFirst DEF LockInv
<1> QED BY <1>1, <1>3

\* Releasing the lock hands it on and keeps the line in order.
LEMMA LeaveKeepsLock ==
    ASSUME TypeOK, LockInv, NEW c \in Callers, Holds(c), Leave(c)
    PROVE  LockInv' /\ queue' \in Seq(Callers)
<1>1. Len(queue) \in Nat /\ Len(queue) >= 1 /\ queue[1] = c
  BY HolderIsFirst
<1>2. queue \in Seq(Callers) /\ queue # <<>> /\ queue' = Tail(queue)
  BY DEF TypeOK, Holds, Leave
<1>3. /\ queue' \in Seq(Callers)
      /\ Len(queue') = Len(queue) - 1
      /\ \A i \in 1..Len(queue') : queue'[i] = queue[i + 1] /\ i + 1 \in 1..Len(queue)
  BY <1>1, <1>2
<1>4. \A i \in 1..Len(queue') : queue'[i] # c
  BY <1>1, <1>3 DEF LockInv
<1>5. \A d \in Callers : d # c => pc'[d] = pc[d]
  BY DEF TypeOK, Leave
<1>6. \A d \in Callers : ~Writing(d)'
  BY LeaveEndsWriting
<1>7. \A i, j \in 1..Len(queue') : queue'[i] = queue'[j] => i = j
  BY <1>1, <1>3 DEF LockInv
<1>8. \A i \in 1..Len(queue') : pc'[queue'[i]] \in Active
  <2> SUFFICES ASSUME NEW i \in 1..Len(queue') PROVE pc'[queue'[i]] \in Active
    OBVIOUS
  <2>1. queue'[i] \in Callers /\ queue'[i] # c /\ queue'[i] = queue[i + 1]
           /\ i + 1 \in 1..Len(queue)
    BY <1>3, <1>4
  <2>2. InQueue(queue[i + 1])
    BY <2>1 DEF LockInv
  <2> QED BY <1>5, <2>1, <2>2 DEF InQueue, Active
<1> QED BY <1>3, <1>6, <1>7, <1>8 DEF LockInv, InQueue

\* A caller that leaves drops everything it knew; the others are waiting.
LEMMA LeaveKeepsPlans ==
    ASSUME TypeOK, LockInv, PlanInv, NEW c \in Callers, Holds(c), Leave(c)
    PROVE  PlanInv'
<1>1. \A d \in Callers : d # c => /\ pc'[d] = pc[d] /\ req'[d] = req[d]
                                 /\ edited'[d] = edited[d]
  BY DEF TypeOK, Leave
<1>2. pc'[c] = "idle" /\ edited'[c] = {}
  BY DEF TypeOK, Leave
<1>3. \A d \in Callers : ~Writing(d)' /\ (InQueue(d)' => d # c /\ InQueue(d))
  <2> SUFFICES ASSUME NEW d \in Callers
               PROVE  ~Writing(d)' /\ (InQueue(d)' => d # c /\ InQueue(d))
    OBVIOUS
  <2>1. CASE d = c
    BY <1>2, <2>1 DEF Writing, InQueue, Active
  <2>2. CASE d # c
    <3>1. ~Writing(d)
      BY <2>2, HolderIsFirst DEF LockInv
    <3> QED BY <1>1, <2>2, <3>1 DEF Writing, InQueue, Active
  <2> QED BY <2>1, <2>2
<1>4. ASSUME NEW d \in Callers PROVE edited'[d] = {}
  <2>1. CASE d = c
    BY <1>2, <2>1
  <2>2. CASE d # c
    <3>1. ~Writing(d)
      BY <2>2, HolderIsFirst DEF LockInv
    <3> QED BY <1>1, <2>2, <3>1 DEF PlanInv
  <2> QED BY <2>1, <2>2
<1>5. ASSUME NEW d \in Callers, InQueue(d)' PROVE req'[d] \in Request
  BY <1>1, <1>3, <1>5 DEF PlanInv
<1> QED BY <1>3, <1>4, <1>5 DEF PlanInv

LEMMA LeaveKeepsTypes ==
    ASSUME TypeOK, NEW c \in Callers, Holds(c), Leave(c), device' \in Array,
           writer' \in Callers \cup {NoCaller}, edits' = edits
    PROVE  TypeOK'
<1>1. queue' \in Seq(Callers)
  BY DEF TypeOK, Leave, Holds
<1> QED BY <1>1 DEF TypeOK, Leave

LEMMA LeaveKeepsInvariant ==
    ASSUME IInv, NEW c \in Callers, Holds(c), Leave(c), device' \in Array,
           writer' \in Callers \cup {NoCaller}, edits' = edits
    PROVE  IInv'
BY LeaveKeepsLock, LeaveKeepsPlans, LeaveKeepsTypes DEF IInv

\* A caller about to send holds the lock and a plan made of writes.
LEMMA PendingWrite ==
    ASSUME IInv, NEW c \in Callers, pc[c] = "posting", NEW w \in plan[c]
    PROVE  /\ Holds(c) /\ Writing(c)
           /\ PlannedFor(req[c], seen[c], w)
           /\ w.slot \in Slots
           /\ w.slot \notin edited[c] => device[w.slot] = seen[c][w.slot]
BY DEF IInv, LockInv, PlanInv, Writing, PlannedFor, Write

LEMMA AcceptKeepsArray ==
    ASSUME IInv, NEW c \in Callers, pc[c] = "posting", NEW w \in plan[c], Accept(w)
    PROVE  /\ device' \in Array
           /\ \A s \in Slots \ {w.slot} : device'[s] = device[s]
           /\ device'[w.slot] \in Slot /\ MayStore(req[c], device'[w.slot])
<1>1. device \in Array /\ PlannedFor(req[c], seen[c], w) /\ w.slot \in Slots
  BY PendingWrite DEF IInv, TypeOK
<1>2. PICK v \in Stored(w) : device' = [device EXCEPT ![w.slot] = v]
  BY DEF Accept
<1>3. v \in Slot /\ MayStore(req[c], v)
  BY <1>1, StoredIsAllowed
<1> QED BY <1>1, <1>2, <1>3 DEF Array

-----------------------------------------------------------------------------
(* The invariant is inductive *)

LEMMA InitImpliesInvariant == Init => IInv
<1> SUFFICES ASSUME Init PROVE IInv
  OBVIOUS
<1>1. device \in Array
  BY EnvironmentAssumption DEF Init, Array
<1>2. edits \in 0..MaxEdits
  BY EnvironmentAssumption DEF Init
<1> QED
  BY <1>1, <1>2 DEF Init, IInv, TypeOK, LockInv, PlanInv, InQueue, Active, Writing

LEMMA CallKeepsInvariant ==
    ASSUME IInv, NEW c \in Callers, NEW r \in Request, Call(c, r)
    PROVE  IInv'
<1> USE DEF IInv
<1>1. TypeOK'
  BY DEF TypeOK, Call
<1>2. /\ queue \in Seq(Callers) /\ Len(queue) \in Nat
      /\ queue' \in Seq(Callers)
      /\ Len(queue') = Len(queue) + 1
      /\ \A i \in 1..Len(queue) : queue'[i] = queue[i]
      /\ queue'[Len(queue) + 1] = c
  BY DEF TypeOK, Call
<1>3. \A i \in 1..Len(queue) : queue[i] # c
  BY DEF LockInv, InQueue, Active, Call
<1>4. pc'[c] = "queued" /\ \A d \in Callers : d # c => pc'[d] = pc[d]
  BY DEF TypeOK, Call
<1>5. LockInv'
  <2>1. \A i, j \in 1..Len(queue') : queue'[i] = queue'[j] => i = j
    <3> SUFFICES ASSUME NEW i \in 1..Len(queue'), NEW j \in 1..Len(queue'),
                        queue'[i] = queue'[j]
                 PROVE  i = j
      OBVIOUS
    <3>1. CASE i \in 1..Len(queue) /\ j \in 1..Len(queue)
      BY <1>2, <3>1 DEF LockInv
    <3>2. CASE i = Len(queue) + 1 \/ j = Len(queue) + 1
      BY <1>2, <1>3, <3>2
    <3> QED BY <1>2, <3>1, <3>2
  <2>2. \A i \in 1..Len(queue') : pc'[queue'[i]] \in Active
    <3> SUFFICES ASSUME NEW i \in 1..Len(queue') PROVE pc'[queue'[i]] \in Active
      OBVIOUS
    <3>1. CASE i \in 1..Len(queue)
      <4>1. queue'[i] = queue[i] /\ queue[i] # c /\ queue[i] \in Callers
        BY <1>2, <1>3, <3>1
      <4>2. InQueue(queue[i])
        BY <3>1 DEF LockInv
      <4> QED BY <1>4, <4>1, <4>2 DEF InQueue, Active
    <3>2. CASE i = Len(queue) + 1
      BY <1>2, <1>4, <3>2 DEF InQueue, Active
    <3> QED BY <1>2, <3>1, <3>2
  <2>3. ASSUME NEW d \in Callers, Writing(d)' PROVE Holds(d)'
    <3>1. d # c /\ Writing(d)
      BY <1>4, <2>3 DEF Writing
    <3>2. Holds(d)
      BY <3>1 DEF LockInv
    <3>3. Len(queue) >= 1 /\ queue[1] = d
      BY <3>2, HolderIsFirst
    <3>4. queue'[1] = d /\ queue' # <<>>
      BY <1>2, <3>3
    <3> QED BY <1>2, <3>4 DEF Holds
  <2> QED BY <2>1, <2>2, <2>3 DEF LockInv, InQueue
<1>6. PlanInv'
  <2>1. \A d \in Callers : InQueue(d)' => req'[d] \in Request
    BY <1>4 DEF PlanInv, InQueue, Active, TypeOK, Call
  <2>2. \A d \in Callers : Writing(d)' <=> Writing(d)
    BY <1>4 DEF Writing, Call
  <2>3. \A d \in Callers : Writing(d) => req'[d] = req[d]
    BY DEF Writing, TypeOK, Call
  <2>4. UNCHANGED <<device, seen, plan, edited>>
    BY DEF Call
  <2> QED BY <2>1, <2>2, <2>3, <2>4 DEF PlanInv
<1> QED BY <1>1, <1>5, <1>6

LEMMA ReadAndPlanKeepsInvariant ==
    ASSUME IInv, NEW c \in Callers, ReadAndPlan(c)
    PROVE  IInv'
<1> USE DEF IInv
<1>1. device \in Array /\ req[c] \in Request /\ ~Insufficient(device, req[c])
  BY DEF TypeOK, PlanInv, InQueue, Active, ReadAndPlan, Acceptable
<1>2. PICK p \in PlansFor(device, req[c]) : plan' = [plan EXCEPT ![c] = p]
  BY DEF ReadAndPlan
<1>3. /\ p \in SUBSET Write /\ ~DoubleBooked(p)
      /\ \A w \in p : PlannedFor(req[c], device, w)
  BY <1>1, <1>2, PlansAreSafe
<1>4. TypeOK'
  BY <1>1, <1>2, <1>3 DEF TypeOK, ReadAndPlan
<1>5. pc'[c] = "writing" /\ \A d \in Callers : d # c => pc'[d] = pc[d]
  BY DEF TypeOK, ReadAndPlan
<1>6. UNCHANGED <<device, req, queue, edited>> /\ Holds(c) /\ pc[c] = "queued"
  BY DEF ReadAndPlan
<1>7. LockInv'
  <2>1. \A i \in 1..Len(queue) : pc'[queue[i]] \in Active
    BY <1>5, <1>6 DEF LockInv, InQueue, Active, TypeOK
  <2>2. \A d \in Callers : Writing(d)' => Holds(d)
    BY <1>5, <1>6 DEF LockInv, Writing
  <2> QED BY <1>6, <2>1, <2>2 DEF LockInv, Holds, InQueue
<1>8. PlanInv'
  <2>1. \A d \in Callers : InQueue(d)' => req'[d] \in Request
    BY <1>5, <1>6 DEF PlanInv, InQueue, Active
  <2>2. \A d \in Callers : ~Writing(d)' => edited'[d] = {}
    BY <1>5, <1>6 DEF PlanInv, Writing
  <2>3. ASSUME NEW d \in Callers, Writing(d)' PROVE d = c
    <3> SUFFICES ASSUME d # c PROVE FALSE
      OBVIOUS
    <3>1. Writing(d)
      BY <1>5, <2>3 DEF Writing
    <3> QED BY <1>6, <3>1 DEF LockInv, Holds
  <2>4. plan'[c] = p /\ seen'[c] = device
    BY <1>2 DEF TypeOK, ReadAndPlan
  <2> QED BY <1>1, <1>3, <1>6, <2>1, <2>2, <2>3, <2>4 DEF PlanInv
<1> QED BY <1>4, <1>7, <1>8

LEMMA StartPostKeepsInvariant ==
    ASSUME IInv, NEW c \in Callers, StartPost(c)
    PROVE  IInv'
<1> USE DEF IInv
<1>1. TypeOK'
  BY DEF TypeOK, StartPost
<1>2. pc'[c] = "posting" /\ pc[c] = "writing"
        /\ \A d \in Callers : d # c => pc'[d] = pc[d]
  BY DEF TypeOK, StartPost
<1>3. UNCHANGED <<device, req, seen, plan, queue, edited>>
  BY DEF StartPost
<1>4. \A d \in Callers : (Writing(d)' <=> Writing(d)) /\ (InQueue(d)' <=> InQueue(d))
  BY <1>2 DEF Writing, InQueue, Active
<1>5. \A i \in 1..Len(queue) : queue[i] \in Callers
  BY DEF TypeOK
<1>6. LockInv'
  BY <1>3, <1>4, <1>5 DEF LockInv, Holds
<1>7. PlanInv'
  BY <1>3, <1>4 DEF PlanInv
<1> QED BY <1>1, <1>6, <1>7

LEMMA PostAcceptedKeepsInvariant ==
    ASSUME IInv, NEW c \in Callers, PostAccepted(c)
    PROVE  IInv'
<1> USE DEF IInv
<1>1. PICK w \in plan[c] : Accept(w) /\ plan' = [plan EXCEPT ![c] = @ \ {w}]
  BY DEF PostAccepted, NextWrites
<1>2. pc[c] = "posting" /\ Holds(c) /\ Writing(c)
  BY <1>1, PendingWrite DEF PostAccepted
<1>3. device' \in Array /\ \A s \in Slots \ {w.slot} : device'[s] = device[s]
  BY <1>1, <1>2, AcceptKeepsArray
<1>4. TypeOK'
  BY <1>1, <1>3 DEF TypeOK, PostAccepted
<1>5. pc'[c] = "writing" /\ \A d \in Callers : d # c => pc'[d] = pc[d]
  BY DEF TypeOK, PostAccepted
<1>6. UNCHANGED <<req, seen, queue, edited>>
  BY DEF PostAccepted
<1>7. \A d \in Callers : (Writing(d)' <=> Writing(d)) /\ (InQueue(d)' <=> InQueue(d))
  BY <1>2, <1>5 DEF Writing, InQueue, Active
<1>8. \A i \in 1..Len(queue) : queue[i] \in Callers
  BY DEF TypeOK
<1>9. LockInv'
  BY <1>6, <1>7, <1>8 DEF LockInv, Holds
<1>10. plan'[c] = plan[c] \ {w} /\ ~DoubleBooked(plan[c])
  BY <1>1, <1>2 DEF TypeOK, PlanInv
<1>11. ~DoubleBooked(plan'[c])
  BY <1>10 DEF DoubleBooked
<1>12. ASSUME NEW v \in plan'[c]
       PROVE  /\ PlannedFor(req[c], seen[c], v)
              /\ v.slot \notin edited[c] => device'[v.slot] = seen[c][v.slot]
  <2>1. v \in plan[c] /\ v # w
    BY <1>10, <1>12
  <2>2. v.slot # w.slot
    BY <1>10, <2>1 DEF DoubleBooked
  <2>3. /\ PlannedFor(req[c], seen[c], v) /\ v.slot \in Slots
        /\ v.slot \notin edited[c] => device[v.slot] = seen[c][v.slot]
    BY <1>2, <2>1, PendingWrite
  <2> QED BY <1>3, <2>2, <2>3
<1>13. PlanInv'
  <2>1. \A d \in Callers : Writing(d)' => d = c
    BY <1>2, <1>7, OneWriter
  <2>2. seen[c] \in Array
    BY <1>2 DEF PlanInv
  <2>3. \A d \in Callers : InQueue(d)' => req'[d] \in Request
    BY <1>6, <1>7 DEF PlanInv
  <2>4. \A d \in Callers : ~Writing(d)' => edited'[d] = {}
    BY <1>6, <1>7 DEF PlanInv
  <2> QED BY <1>6, <1>11, <1>12, <2>1, <2>2, <2>3, <2>4 DEF PlanInv
<1> QED BY <1>4, <1>9, <1>13

LEMMA WboxEditKeepsInvariant ==
    ASSUME IInv, NEW s \in Slots, NEW x \in WboxSlots, WboxEdit(s, x)
    PROVE  IInv'
<1> USE DEF IInv
<1>1. x \in Slot /\ MaxEdits \in Nat
  BY EnvironmentAssumption
<1>2. device' \in Array /\ \A r \in Slots \ {s} : device'[r] = device[r]
  BY <1>1 DEF TypeOK, Array, WboxEdit
<1>3. \A d \in Callers :
         edited'[d] = IF Writing(d) THEN edited[d] \cup {s} ELSE edited[d]
  BY DEF WboxEdit
<1>4. TypeOK'
  <2>1. edited' \in [Callers -> SUBSET Slots]
    BY DEF TypeOK, WboxEdit
  <2>2. edits' \in 0..MaxEdits
    BY <1>1 DEF TypeOK, WboxEdit
  <2> QED BY <1>2, <2>1, <2>2 DEF TypeOK, WboxEdit
<1>5. UNCHANGED <<pc, req, seen, plan, queue>>
  BY DEF WboxEdit
<1>6. LockInv'
  BY <1>5 DEF LockInv, Holds, InQueue, Writing
<1>7. PlanInv'
  <2>1. ASSUME NEW d \in Callers, Writing(d), NEW w \in plan[d], w.slot \notin edited'[d]
        PROVE  device'[w.slot] = seen[d][w.slot]
    <3>1. w.slot \in Slots
      BY <2>1 DEF TypeOK, Write
    <3> DEFINE r == w.slot
    <3>2. edited'[d] = edited[d] \cup {s} /\ r \notin edited'[d]
      BY <1>3, <2>1, Zenon
    <3>3. r # s /\ r \notin edited[d]
      BY <3>2
    <3> QED BY <1>2, <2>1, <3>1, <3>3 DEF PlanInv
  <2>2. \A d \in Callers : (Writing(d)' <=> Writing(d)) /\ (InQueue(d)' <=> InQueue(d))
    BY <1>5 DEF Writing, InQueue
  <2>3. \A d \in Callers : InQueue(d)' => req'[d] \in Request
    BY <1>5, <2>2 DEF PlanInv
  <2>4. \A d \in Callers : ~Writing(d)' => edited'[d] = {}
    BY <1>3, <2>2, Zenon DEF PlanInv
  <2>5. ASSUME NEW d \in Callers, Writing(d)'
        PROVE  /\ seen'[d] \in Array /\ ~DoubleBooked(plan'[d])
               /\ \A w \in plan'[d] :
                     /\ PlannedFor(req'[d], seen'[d], w)
                     /\ w.slot \notin edited'[d] => device'[w.slot] = seen'[d][w.slot]
    BY <1>5, <2>1, <2>2, <2>5 DEF PlanInv
  <2> QED BY <2>3, <2>4, <2>5 DEF PlanInv
<1> QED BY <1>4, <1>6, <1>7

LEMMA SettingsKeepsInvariant ==
    ASSUME IInv, NEW c \in Callers, StartSettings(c) \/ EndSettings(c)
    PROVE  IInv'
<1> USE DEF IInv
<1>1. TypeOK'
  BY DEF TypeOK, StartSettings, EndSettings
<1>2. \A d \in Callers : (Writing(d)' <=> Writing(d)) /\ (InQueue(d)' <=> InQueue(d))
  BY DEF Writing, InQueue, Active, TypeOK, StartSettings, EndSettings
<1>3. UNCHANGED <<device, req, seen, plan, queue, edited>>
  BY DEF StartSettings, EndSettings
<1>4. \A i \in 1..Len(queue) : queue[i] \in Callers
  BY DEF TypeOK
<1>5. LockInv'
  BY <1>2, <1>3, <1>4 DEF LockInv, Holds
<1>6. PlanInv'
  BY <1>2, <1>3 DEF PlanInv
<1> QED BY <1>1, <1>5, <1>6

LEMMA StutterKeepsInvariant == IInv /\ UNCHANGED vars => IInv'
BY DEF IInv, vars, TypeOK, LockInv, PlanInv, Holds, InQueue, Writing

LEMMA StepKeepsInvariant == IInv /\ [Next]_vars => IInv'
<1> SUFFICES ASSUME IInv, [Next]_vars PROVE IInv'
  OBVIOUS
<1>1. ASSUME NEW c \in Callers, NEW r \in Request, Call(c, r) PROVE IInv'
  BY <1>1, CallKeepsInvariant
<1>2. ASSUME NEW c \in Callers, ReadAndPlan(c) PROVE IInv'
  BY <1>2, ReadAndPlanKeepsInvariant
<1>3. ASSUME NEW c \in Callers, Refuse(c) \/ ReadFails(c) PROVE IInv'
  <2>1. Holds(c) /\ Leave(c) /\ UNCHANGED <<device, writer, edits>>
    BY <1>3 DEF Refuse, ReadFails
  <2>2. device' \in Array /\ writer' \in Callers \cup {NoCaller}
    BY <2>1 DEF IInv, TypeOK
  <2> QED BY <2>1, <2>2, LeaveKeepsInvariant
<1>4. ASSUME NEW c \in Callers, StartPost(c) PROVE IInv'
  BY <1>4, StartPostKeepsInvariant
<1>5. ASSUME NEW c \in Callers, PostAccepted(c) PROVE IInv'
  BY <1>5, PostAcceptedKeepsInvariant
<1>6. ASSUME NEW c \in Callers, PostRejected(c) PROVE IInv'
  <2>1. Holds(c)
    BY <1>6 DEF PostRejected, IInv, LockInv, Writing
  <2>2. Leave(c) /\ edits' = edits /\ writer' = NoCaller /\ device' \in Array
    BY <1>6 DEF PostRejected, IInv, TypeOK
  <2> QED BY <2>1, <2>2, LeaveKeepsInvariant
<1>7. ASSUME NEW c \in Callers, PostUnanswered(c) PROVE IInv'
  <2>1. PICK w \in plan[c] : Accept(w)
    BY <1>7 DEF PostUnanswered, NextWrites
  <2>2. pc[c] = "posting" /\ Leave(c) /\ edits' = edits /\ writer' = NoCaller
    BY <1>7 DEF PostUnanswered
  <2>3. Holds(c) /\ device' \in Array
    BY <2>1, <2>2, PendingWrite, AcceptKeepsArray
  <2> QED BY <2>2, <2>3, LeaveKeepsInvariant
<1>8. ASSUME NEW c \in Callers, Finish(c) PROVE IInv'
  <2>1. Holds(c)
    BY <1>8 DEF Finish, IInv, LockInv, Writing
  <2>2. Leave(c) /\ UNCHANGED <<device, writer, edits>>
    BY <1>8 DEF Finish
  <2>3. device' \in Array /\ writer' \in Callers \cup {NoCaller}
    BY <2>2 DEF IInv, TypeOK
  <2> QED BY <2>1, <2>2, <2>3, LeaveKeepsInvariant
<1>9. ASSUME NEW c \in Callers, StartSettings(c) \/ EndSettings(c) PROVE IInv'
  BY <1>9, SettingsKeepsInvariant
<1>10. ASSUME NEW s \in Slots, NEW v \in WboxSlots, WboxEdit(s, v) PROVE IInv'
  BY <1>10, WboxEditKeepsInvariant
<1>11. CASE UNCHANGED vars
  BY <1>11, StutterKeepsInvariant
<1> QED BY <1>1, <1>2, <1>3, <1>4, <1>5, <1>6, <1>7, <1>8, <1>9, <1>10, <1>11
        DEF Next, CallerStep

THEOREM Invariance == Spec => []IInv
BY InitImpliesInvariant, StepKeepsInvariant, PTL DEF Spec

-----------------------------------------------------------------------------
(* What follows from it *)

\* The manager's state keeps its types, for any number of callers and slots.
THEOREM TypeCorrect == Spec => []TypeOK
<1>1. IInv => TypeOK
  BY DEF IInv
<1> QED BY <1>1, Invariance, PTL

\* _action_lock keeps its promise: a slot still to be written holds what the
\* plan was made from, unless the wBox app changed it.
THEOREM PlansStayFresh == Spec => []PlanIsFresh
<1>1. IInv => PlanIsFresh
  BY DEF IInv, PlanInv, PlanIsFresh
<1> QED BY <1>1, Invariance, PTL

\* The check against double booking never refuses a run.
THEOREM DoubleBookingNeverHappens == Spec => []NeverDoubleBooked
<1>1. IInv => NeverDoubleBooked
  <2> SUFFICES ASSUME IInv, NEW c \in Callers, pc[c] = "queued",
                      ~Insufficient(device, req[c]), NEW p \in PlansFor(device, req[c])
               PROVE  ~DoubleBooked(p)
    BY DEF NeverDoubleBooked
  <2>1. device \in Array /\ req[c] \in Request
    BY DEF IInv, TypeOK, PlanInv, InQueue, Active
  <2> QED BY <2>1, PlansAreSafe
<1> QED BY <1>1, Invariance, PTL

-----------------------------------------------------------------------------
(* What a step does to the device *)

\* The device changes by a write its caller planned, or by the wBox app.
LEMMA DeviceChanges ==
    ASSUME IInv, Next, device' # device
    PROVE  \/ \E c \in Callers :
                 /\ pc[c] = "posting" /\ edits' = edits
                 /\ \E w \in plan[c] : Accept(w)
                 /\ edited' = edited \/ edited' = [edited EXCEPT ![c] = {}]
           \/ \E s \in Slots, v \in WboxSlots : WboxEdit(s, v)
<1>1. ASSUME NEW c \in Callers, NEW r \in Request, Call(c, r) PROVE FALSE
  BY <1>1 DEF Call
<1>2. ASSUME NEW c \in Callers, StartSettings(c) PROVE FALSE
  BY <1>2 DEF StartSettings
<1>3. ASSUME NEW c \in Callers, CallerStep(c)
      PROVE  /\ pc[c] = "posting" /\ edits' = edits
             /\ \E w \in plan[c] : Accept(w)
             /\ edited' = edited \/ edited' = [edited EXCEPT ![c] = {}]
  <2>1. CASE PostAccepted(c)
    BY <2>1 DEF PostAccepted, NextWrites
  <2>2. CASE PostUnanswered(c)
    BY <2>2 DEF PostUnanswered, NextWrites, Leave
  <2>3. CASE \/ ReadAndPlan(c) \/ Refuse(c) \/ ReadFails(c) \/ StartPost(c)
             \/ PostRejected(c) \/ Finish(c) \/ EndSettings(c)
    BY <2>3 DEF ReadAndPlan, Refuse, ReadFails, StartPost, PostRejected, Finish,
                EndSettings
  <2> QED BY <1>3, <2>1, <2>2, <2>3 DEF CallerStep
<1> QED BY <1>1, <1>2, <1>3 DEF Next

\* A write of a caller only lands on a slot its request may write over, or on
\* one the wBox app has changed since the caller read the array.
LEMMA WritesArePermitted ==
    ASSUME IInv, NEW c \in Callers, pc[c] = "posting", NEW w \in plan[c]
    PROVE  w.slot \in edited[c] \/ MayWrite(req[c], device[w.slot])
BY PendingWrite DEF PlannedFor

\* A write of ours lands on somebody else's action only if that action was put
\* there with the wBox app after the run had read the array.
THEOREM ForeignActionsAreSafe == Spec => NeverClobbers
<1> DEFINE Permitted(s) ==
        device'[s] # device[s] /\ edits' = edits =>
           \E c \in Callers : /\ pc[c] = "posting"
                              /\ s \in edited[c] \/ MayWrite(req[c], device[s])
<1>1. IInv /\ [Next]_vars => [\A s \in Slots : Permitted(s)]_vars
  <2> SUFFICES ASSUME IInv, Next, NEW s \in Slots,
                      device'[s] # device[s], edits' = edits
               PROVE  \E c \in Callers :
                         /\ pc[c] = "posting"
                         /\ s \in edited[c] \/ MayWrite(req[c], device[s])
    BY DEF vars
  <2>1. ~\E r \in Slots, v \in WboxSlots : WboxEdit(r, v)
    BY DEF WboxEdit, IInv, TypeOK
  <2>2. PICK c \in Callers : pc[c] = "posting" /\ \E w \in plan[c] : Accept(w)
    BY <2>1, DeviceChanges
  <2>3. PICK w \in plan[c] : Accept(w)
    BY <2>2
  <2>4. s = w.slot
    BY <2>2, <2>3, AcceptKeepsArray
  <2> QED BY <2>2, <2>4, WritesArePermitted
<1> QED BY <1>1, Invariance, PTL DEF Spec, NeverClobbers

-----------------------------------------------------------------------------
(* Refinement of SlotOwnership *)

Exposed == UNION {edited[c] : c \in Callers}

LEMMA OnlyTheWriterIsExposed ==
    ASSUME IInv, NEW c \in Callers, Writing(c)
    PROVE  Exposed = edited[c]
<1>1. \A d \in Callers : d # c => edited[d] = {}
  BY OneWriter DEF IInv, PlanInv
<1> QED BY <1>1 DEF Exposed

LEMMA NobodyIsExposed ==
    ASSUME IInv, \A c \in Callers : ~Writing(c)
    PROVE  Exposed = {}
BY DEF IInv, PlanInv, Exposed

\* The abstract module reads a slot the way the manager does.
LEMMA SameReading ==
    /\ Ownership!Slot = Slot
    /\ \A a : Ownership!is_configured(a) <=> is_configured(a)
    /\ \A a : Ownership!IsCallback(a) <=> is_configured(a) /\ is_owned(a)
    /\ \A a : Ownership!IsNative(a)
                <=> is_configured(a) /\ a.action \in NATIVE_RELAY_ACTIONS
BY DEF Ownership!Slot, Slot, Ownership!TRIGGER_UNCONFIGURED, TRIGGER_UNCONFIGURED,
       Ownership!is_configured, is_configured, Ownership!IsCallback,
       Ownership!is_owned, is_owned, Ownership!ACTION_HTTP_GET, ACTION_HTTP_GET,
       Ownership!IsNative, Ownership!NATIVE_RELAY_ACTIONS, NATIVE_RELAY_ACTIONS

LEMMA WriteIsOwnershipStep ==
    ASSUME IInv, NEW c \in Callers, pc[c] = "posting", edits' = edits,
           NEW w \in plan[c], Accept(w),
           edited' = edited \/ edited' = [edited EXCEPT ![c] = {}]
    PROVE  Ownership!Next
<1>1. /\ Writing(c) /\ w.slot \in Slots /\ req[c] \in Request
      /\ w.slot \in edited[c] \/ MayWrite(req[c], device[w.slot])
  BY PendingWrite, WritesArePermitted DEF IInv, PlanInv, InQueue, Active
<1>2. /\ device' \in Array
      /\ \A s \in Slots \ {w.slot} : device'[s] = device[s]
      /\ device'[w.slot] \in Slot /\ MayStore(req[c], device'[w.slot])
  BY AcceptKeepsArray
<1>3. device' = [device EXCEPT ![w.slot] = device'[w.slot]]
  BY <1>1, <1>2 DEF IInv, TypeOK, Array
<1>4. Exposed = edited[c]
  BY <1>1, OnlyTheWriterIsExposed
<1>5. Exposed' = Exposed \/ Exposed' = {}
  <2>1. CASE edited' = edited
    BY <2>1 DEF Exposed
  <2>2. CASE edited' = [edited EXCEPT ![c] = {}]
    <3>1. \A d \in Callers : edited'[d] = {}
      BY <1>1, <2>2, OneWriter DEF IInv, TypeOK, PlanInv
    <3> QED BY <3>1 DEF Exposed
  <2> QED BY <2>1, <2>2
<1>6. Ownership!RunGoesOnOrEnds
  BY <1>5 DEF Ownership!RunGoesOnOrEnds, Exposed
<1>7. CASE req[c].op = "native"
  <2>1. \/ ~is_configured(device[w.slot]) \/ Ownership!IsNative(device[w.slot])
        \/ w.slot \in Exposed
    BY <1>1, <1>4, <1>7, SameReading DEF MayWrite
  <2>2. Ownership!IsNative(device'[w.slot]) \/ ~is_configured(device'[w.slot])
    BY <1>2, <1>7, SameReading DEF MayStore
  <2>3. Ownership!Rebind(w.slot)
    BY <1>2, <1>3, <1>6, <2>1, <2>2, SameReading
       DEF Ownership!Rebind, Ownership!Becomes, Exposed
  <2> QED BY <1>1, <2>3 DEF Ownership!Next
<1>8. CASE req[c].op # "native"
  <2>1. \/ ~is_configured(device[w.slot]) \/ Ownership!IsCallback(device[w.slot])
        \/ w.slot \in Exposed
    BY <1>1, <1>4, <1>8, SameReading DEF MayWrite
  <2>2. Ownership!IsCallback(device'[w.slot]) \/ ~is_configured(device'[w.slot])
    BY <1>2, <1>8, SameReading DEF MayStore
  <2>3. Ownership!Provision(w.slot)
    BY <1>2, <1>3, <1>6, <2>1, <2>2, SameReading
       DEF Ownership!Provision, Ownership!Becomes, Exposed
  <2> QED BY <1>1, <2>3 DEF Ownership!Next
<1> QED BY <1>7, <1>8

LEMMA EditIsOwnershipStep ==
    ASSUME IInv, NEW s \in Slots, NEW v \in WboxSlots, WboxEdit(s, v)
    PROVE  Ownership!Next
<1>1. v \in Slot /\ device' = [device EXCEPT ![s] = v] /\ edits' = edits + 1
  BY EnvironmentAssumption DEF WboxEdit
<1>2. \A c \in Callers :
         edited'[c] = IF Writing(c) THEN edited[c] \cup {s} ELSE edited[c]
  BY DEF WboxEdit
<1>3. Exposed' = Exposed \/ Exposed' = Exposed \cup {s}
  <2>1. CASE \E c \in Callers : Writing(c)
    <3>1. PICK c \in Callers : Writing(c)
      BY <2>1
    <3>2. Exposed = edited[c]
      BY <3>1, OnlyTheWriterIsExposed
    <3>3. edited'[c] = edited[c] \cup {s}
      BY <1>2, <3>1, Zenon
    <3>4. \A d \in Callers : d # c => edited'[d] = {}
      BY <1>2, <3>1, OneWriter DEF IInv, PlanInv
    <3>5. Exposed' = edited'[c]
      BY <3>4 DEF Exposed
    <3> QED BY <3>2, <3>3, <3>5
  <2>2. CASE \A c \in Callers : ~Writing(c)
    <3>1. \A c \in Callers : edited'[c] = edited[c]
      BY <1>2, <2>2, Zenon
    <3> QED BY <3>1 DEF Exposed
  <2> QED BY <2>1, <2>2
<1>4. Ownership!EditByOthers(s)
  BY <1>1, <1>3, SameReading DEF Ownership!EditByOthers, Ownership!Becomes, Exposed
<1> QED BY <1>4 DEF Ownership!Next

LEMMA QuietStepIsOwnershipStep ==
    ASSUME IInv, Next, device' = device
    PROVE  [Ownership!Next]_<<device, Exposed, edits>>
<1>1. ASSUME NEW s \in Slots, NEW v \in WboxSlots, WboxEdit(s, v)
      PROVE  Ownership!Next
  BY <1>1, EditIsOwnershipStep
<1>2. CASE edited' = edited /\ edits' = edits
  BY <1>2 DEF Exposed
<1>3. ASSUME NEW c \in Callers, edited' = [edited EXCEPT ![c] = {}], edits' = edits,
             Holds(c)
      PROVE  Ownership!EndRun
  <2>1. \A d \in Callers : d # c => ~Writing(d)
    BY <1>3 DEF IInv, LockInv, Holds
  <2>2. \A d \in Callers : edited'[d] = {}
    BY <1>3, <2>1 DEF IInv, TypeOK, PlanInv
  <2>3. Exposed' = {}
    BY <2>2 DEF Exposed
  <2> QED BY <1>3, <2>3 DEF Ownership!EndRun, Exposed
<1>4. ASSUME NEW c \in Callers, CallerStep(c)
      PROVE  \/ edited' = edited /\ edits' = edits
             \/ edited' = [edited EXCEPT ![c] = {}] /\ edits' = edits /\ Holds(c)
  <2>1. pc[c] \in {"writing", "posting"} => Holds(c)
    BY DEF IInv, LockInv, Writing
  <2> QED BY <1>4, <2>1 DEF CallerStep, ReadAndPlan, Refuse, ReadFails, StartPost,
            PostAccepted, PostRejected, PostUnanswered, Finish, EndSettings, Leave
<1>5. ASSUME NEW c \in Callers, StartSettings(c) \/ \E r \in Request : Call(c, r)
      PROVE  edited' = edited /\ edits' = edits
  BY <1>5 DEF StartSettings, Call
<1> QED BY <1>1, <1>2, <1>3, <1>4, <1>5 DEF Next, Ownership!Next

\* The manager, with its locks, plans, failures and half-honoured clears,
\* implements the ownership discipline of SlotOwnership.
THEOREM ManagerImplementsOwnership == Spec => OwnershipSpec
<1>1. Init => Ownership!Init
  BY DEF Init, Ownership!Init
<1>2. IInv /\ [Next]_vars => [Ownership!Next]_<<device, Exposed, edits>>
  <2> SUFFICES ASSUME IInv, [Next]_vars
               PROVE  [Ownership!Next]_<<device, Exposed, edits>>
    OBVIOUS
  <2>1. CASE UNCHANGED vars
    BY <2>1 DEF vars, Exposed
  <2>2. CASE Next /\ device' = device
    BY <2>2, QuietStepIsOwnershipStep
  <2>3. CASE Next /\ device' # device
    BY <2>3, DeviceChanges, WriteIsOwnershipStep, EditIsOwnershipStep
  <2> QED BY <2>1, <2>2, <2>3
<1> QED BY <1>1, <1>2, Invariance, PTL DEF Spec, OwnershipSpec, Ownership!Spec, Exposed

-----------------------------------------------------------------------------
(* How far a run has got *)

\* While nobody else touches the array, it is what the caller read with the part
\* of one plan it has sent so far carried out, and the rest is still to send.
Progress(c, p) ==
    /\ plan[c] \subseteq p
    /\ CarriedOut(p \ plan[c], seen[c], device)
    /\ ~KeepsParam => \A w \in p \ plan[c] : device[w.slot] = w.value

ProgressInv ==
    \A c \in Callers : Writing(c) /\ edited[c] = {} =>
        /\ ~Insufficient(seen[c], req[c])
        /\ \E p \in PlansFor(seen[c], req[c]) : Progress(c, p)

\* A step that ends every run, or leaves what the runs work on as it is.
LEMMA QuietStepKeepsProgress ==
    ASSUME ProgressInv, UNCHANGED <<device, seen, plan, edited>>,
           \A c \in Callers : Writing(c)' => Writing(c) /\ req'[c] = req[c]
    PROVE  ProgressInv'
<1> SUFFICES ASSUME NEW c \in Callers, Writing(c)', edited'[c] = {}
             PROVE  /\ ~Insufficient(seen[c], req'[c])
                    /\ \E p \in PlansFor(seen[c], req'[c]) : Progress(c, p)'
  BY DEF ProgressInv
<1>1. Writing(c) /\ req'[c] = req[c] /\ edited[c] = {}
  OBVIOUS
<1>2. \A p : Progress(c, p)' <=> Progress(c, p)
  BY DEF Progress
<1> QED BY <1>1, <1>2 DEF ProgressInv

LEMMA ReadAndPlanKeepsProgress ==
    ASSUME IInv, ProgressInv, NEW c \in Callers, ReadAndPlan(c)
    PROVE  ProgressInv'
<1>1. PICK p \in PlansFor(device, req[c]) : plan' = [plan EXCEPT ![c] = p]
  BY DEF ReadAndPlan
<1>2. /\ device \in Array /\ UNCHANGED <<device, req>>
      /\ plan'[c] = p /\ seen'[c] = device
      /\ ~Insufficient(device, req[c])
  BY <1>1 DEF IInv, TypeOK, ReadAndPlan, Acceptable
<1>3. Progress(c, p)'
  BY <1>2 DEF Progress, CarriedOut
<1>4. ASSUME NEW d \in Callers, Writing(d)' PROVE d = c
  <2> SUFFICES ASSUME d # c PROVE FALSE
    OBVIOUS
  <2>1. Writing(d) /\ Holds(c)
    BY <1>4 DEF Writing, ReadAndPlan, IInv, TypeOK
  <2> QED BY <2>1 DEF IInv, LockInv, Holds
<1> QED BY <1>1, <1>2, <1>3, <1>4 DEF ProgressInv

LEMMA PostAcceptedKeepsProgress ==
    ASSUME IInv, ProgressInv, NEW c \in Callers, PostAccepted(c)
    PROVE  ProgressInv'
<1>1. PICK w \in plan[c] : Accept(w) /\ plan' = [plan EXCEPT ![c] = @ \ {w}]
  BY DEF PostAccepted, NextWrites
<1>2. /\ pc[c] = "posting" /\ Writing(c) /\ UNCHANGED <<req, seen, edited>>
      /\ plan'[c] = plan[c] \ {w}
  BY <1>1, PendingWrite DEF PostAccepted, IInv, TypeOK
<1>3. \A d \in Callers : Writing(d)' => d = c
  <2>1. \A d \in Callers : Writing(d)' => Writing(d)
    BY <1>2 DEF PostAccepted, Writing, IInv, TypeOK
  <2> QED BY <1>2, <2>1, OneWriter DEF IInv
<1> SUFFICES ASSUME edited[c] = {}
             PROVE  /\ ~Insufficient(seen[c], req[c])
                    /\ \E p \in PlansFor(seen[c], req[c]) : Progress(c, p)'
  BY <1>2, <1>3 DEF ProgressInv
<1>4. PICK p \in PlansFor(seen[c], req[c]) : Progress(c, p)
  BY <1>2 DEF ProgressInv
<1>5. ~Insufficient(seen[c], req[c])
  BY <1>2 DEF ProgressInv
<1>6. seen[c] \in Array /\ req[c] \in Request
  BY <1>2 DEF IInv, PlanInv, InQueue, Writing, Active
<1>7. ~DoubleBooked(p) /\ w \in p /\ PlannedFor(req[c], seen[c], w) /\ w.slot \in Slots
  BY <1>2, <1>4, <1>5, <1>6, PlansAreSafe, PendingWrite DEF Progress
<1>8. p \ plan'[c] = (p \ plan[c]) \cup {w}
  BY <1>2, <1>4, <1>7 DEF Progress
<1>9. device' \in Array /\ \A s \in Slots \ {w.slot} : device'[s] = device[s]
  BY <1>1, <1>2, AcceptKeepsArray
<1>10. /\ IF w.clears THEN ~is_configured(device'[w.slot])
                      ELSE device'[w.slot] = w.value
       /\ ~KeepsParam => device'[w.slot] = w.value
  <2>1. PICK v \in Stored(w) : device' = [device EXCEPT ![w.slot] = v]
    BY <1>1 DEF Accept
  <2>2. device'[w.slot] = v
    BY <1>7, <2>1 DEF IInv, TypeOK, Array
  <2>3. w.value \in Slot
    BY <1>7 DEF PlannedFor, Write
  <2>4. v # w.value => v.trigger = w.value.trigger
    BY <2>3 DEF Stored, Slot
  <2>5. w.clears => ~is_configured(v)
    BY <1>7, <2>4 DEF PlannedFor, Blank, is_configured
  <2>6. ~w.clears \/ ~KeepsParam => v = w.value
    BY DEF Stored
  <2> QED BY <2>2, <2>5, <2>6
<1>11. \A v \in p \ plan[c] : v.slot # w.slot
  BY <1>1, <1>7 DEF DoubleBooked
<1>12. \A v \in p : v.slot \in Slots
  BY <1>5, <1>6, PlansAreSafe DEF Write
<1>13. \A v \in p \ plan[c] : device'[v.slot] = device[v.slot]
  BY <1>9, <1>11, <1>12
<1>14. CarriedOut(p \ plan'[c], seen[c], device')
  BY <1>4, <1>8, <1>9, <1>10, <1>13 DEF Progress, CarriedOut
<1>15. ~KeepsParam => \A v \in p \ plan'[c] : device'[v.slot] = v.value
  BY <1>4, <1>8, <1>10, <1>13 DEF Progress
<1>16. plan'[c] \subseteq p
  BY <1>2, <1>4 DEF Progress
<1>17. Progress(c, p)'
  BY <1>2, <1>14, <1>15, <1>16 DEF Progress
<1> QED BY <1>5, <1>17

LEMMA StepKeepsProgress == IInv /\ ProgressInv /\ [Next]_vars => ProgressInv'
<1> SUFFICES ASSUME IInv, ProgressInv, [Next]_vars PROVE ProgressInv'
  OBVIOUS
<1>1. ASSUME NEW c \in Callers, Holds(c), Leave(c) PROVE ProgressInv'
  BY <1>1, LeaveEndsWriting DEF IInv, ProgressInv
<1>2. ASSUME NEW c \in Callers, NEW r \in Request, Call(c, r) PROVE ProgressInv'
  <2>1. \A d \in Callers : Writing(d)' => Writing(d) /\ req'[d] = req[d]
    BY <1>2 DEF Call, Writing, IInv, TypeOK
  <2> QED BY <1>2, <2>1, QuietStepKeepsProgress DEF Call
<1>3. ASSUME NEW c \in Callers, ReadAndPlan(c) PROVE ProgressInv'
  BY <1>3, ReadAndPlanKeepsProgress
<1>4. ASSUME NEW c \in Callers, Refuse(c) \/ ReadFails(c) PROVE ProgressInv'
  BY <1>1, <1>4 DEF Refuse, ReadFails
<1>5. ASSUME NEW c \in Callers,
             StartPost(c) \/ StartSettings(c) \/ EndSettings(c)
      PROVE  ProgressInv'
  <2>1. \A d \in Callers : Writing(d)' => Writing(d) /\ req'[d] = req[d]
    BY <1>5 DEF StartPost, StartSettings, EndSettings, Writing, IInv, TypeOK
  <2> QED BY <1>5, <2>1, QuietStepKeepsProgress
          DEF StartPost, StartSettings, EndSettings
<1>6. ASSUME NEW c \in Callers, PostAccepted(c) PROVE ProgressInv'
  BY <1>6, PostAcceptedKeepsProgress
<1>7. ASSUME NEW c \in Callers, PostRejected(c) \/ PostUnanswered(c) \/ Finish(c)
      PROVE  ProgressInv'
  <2>1. Writing(c) /\ Leave(c)
    BY <1>7 DEF PostRejected, PostUnanswered, Finish, Writing
  <2>2. Holds(c)
    BY <2>1 DEF IInv, LockInv
  <2> QED BY <1>1, <2>1, <2>2
<1>8. ASSUME NEW s \in Slots, NEW v \in WboxSlots, WboxEdit(s, v) PROVE ProgressInv'
  <2>1. \A d \in Callers : Writing(d)' => s \in edited'[d]
    BY <1>8 DEF WboxEdit, Writing
  <2> QED BY <2>1 DEF ProgressInv
<1>9. CASE UNCHANGED vars
  BY <1>9, QuietStepKeepsProgress DEF vars, Writing
<1> QED BY <1>2, <1>3, <1>4, <1>5, <1>6, <1>7, <1>8, <1>9 DEF Next, CallerStep

LEMMA RunsMakeProgress == Spec => []ProgressInv
<1>1. Init => ProgressInv
  BY DEF Init, ProgressInv, Writing
<1> QED BY <1>1, StepKeepsProgress, Invariance, PTL DEF Spec

\* A run of ours by the time it is over, undisturbed.
LEMMA FinishedRun ==
    ASSUME IInv, ProgressInv, NEW c \in Callers, NEW op, Done(c, op)
    PROVE  /\ Writing(c) /\ seen[c] \in Array /\ device \in Array
           /\ req[c] \in Request /\ ~Insufficient(seen[c], req[c])
           /\ \E p \in PlansFor(seen[c], req[c]) :
                 /\ CarriedOut(p, seen[c], device)
                 /\ ~KeepsParam => \A w \in p : device[w.slot] = w.value
<1>1. Writing(c) /\ edited[c] = {} /\ plan[c] = {}
  BY DEF Done, Writing
<1>2. /\ seen[c] \in Array /\ device \in Array /\ req[c] \in Request
  BY <1>1 DEF IInv, TypeOK, PlanInv, InQueue, Active, Writing
<1>3. /\ ~Insufficient(seen[c], req[c])
      /\ \E p \in PlansFor(seen[c], req[c]) : Progress(c, p)
  BY <1>1 DEF ProgressInv
<1>4. \A p : p \ plan[c] = p
  BY <1>1
<1> QED BY <1>1, <1>2, <1>3, <1>4 DEF Progress

\* The same for a reconciliation, in terms of what it wants.
LEMMA FinishedSync ==
    ASSUME IInv, ProgressInv, NEW c \in Callers, Done(c, "sync")
    PROVE  /\ Writing(c) /\ seen[c] \in Array /\ device \in Array
           /\ req[c].want \in Wanted /\ Fits(seen[c], req[c].want)
           /\ \E p \in SyncPlans(seen[c], req[c].want) : CarriedOut(p, seen[c], device)
           /\ Established(device, req[c].want)
<1>1. req[c].op = "sync"
  BY DEF Done
<1>2. /\ Writing(c) /\ seen[c] \in Array /\ device \in Array
      /\ req[c] \in Request /\ ~Insufficient(seen[c], req[c])
      /\ \E p \in PlansFor(seen[c], req[c]) : CarriedOut(p, seen[c], device)
  BY FinishedRun
<1>3. req[c].want \in Wanted /\ Fits(seen[c], req[c].want)
  BY <1>1, <1>2, RequestKinds DEF Insufficient
<1>4. PlansFor(seen[c], req[c]) = SyncPlans(seen[c], req[c].want)
  BY <1>1 DEF PlansFor
<1> QED BY <1>2, <1>3, <1>4, ReconciliationEstablishes

\* A reconciliation that returns leaves exactly the wanted callbacks live, each
\* in one slot, whatever the array held and however many slots there are.
THEOREM SyncIsExact == Spec => []SyncEstablishes
<1>1. IInv /\ ProgressInv => SyncEstablishes
  <2> SUFFICES ASSUME IInv, ProgressInv, NEW c \in Callers, Done(c, "sync")
               PROVE  /\ Live(device) = {<<k, req[c].want[k]>> : k \in DOMAIN req[c].want}
                      /\ Cardinality(owned_actions(device))
                            = Cardinality(DOMAIN req[c].want)
    BY DEF SyncEstablishes
  <2> DEFINE want == req[c].want
  <2>1. device \in Array /\ want \in Wanted /\ Established(device, want)
    BY FinishedSync
  <2> HIDE DEF want
  <2>2. Live(device) = {<<k, want[k]>> : k \in DOMAIN want}
    <3>1. ASSUME NEW s \in owned_actions(device)
          PROVE  <<KeyOf(device[s]), device[s].param>> \in {<<k, want[k]>> : k \in DOMAIN want}
      BY <2>1 DEF Established
    <3>2. ASSUME NEW k \in DOMAIN want PROVE <<k, want[k]>> \in Live(device)
      BY <2>1 DEF Established, Live
    <3> QED BY <3>1, <3>2 DEF Live
  <2> QED BY <2>1, <2>2, EstablishedIsExact DEF want
<1> QED BY <1>1, Invariance, RunsMakeProgress, PTL

\* Running it again would write nothing.
THEOREM SyncNeedsNoRepeat == Spec => []SyncIsIdempotent
<1>1. IInv /\ ProgressInv => SyncIsIdempotent
  BY FinishedSync, EstablishedNeedsNothing DEF SyncIsIdempotent
<1> QED BY <1>1, Invariance, RunsMakeProgress, PTL

\* A wanted callback that was live when the run read the array is live at every
\* point of the run, so no press is lost to a reconciliation, failed or not.
THEOREM WantedNeverDrops == Spec => []WantedStaysLive
<1>1. IInv /\ ProgressInv => WantedStaysLive
  <2> SUFFICES ASSUME IInv, ProgressInv, NEW c \in Callers, Writing(c),
                      edited[c] = {}, req[c].op = "sync",
                      NEW k \in DOMAIN req[c].want \cap LiveKeys(seen[c])
               PROVE  k \in LiveKeys(device)
    BY DEF WantedStaysLive
  <2> DEFINE A == seen[c]
             want == req[c].want
             W(p) == p \ plan[c]
  <2>1. A \in Array /\ want \in Wanted
    BY RequestKinds DEF IInv, PlanInv, InQueue, Active, Writing
  <2>2. PICK p \in SyncPlans(A, want) : CarriedOut(W(p), A, device)
    BY DEF ProgressInv, Progress, PlansFor
  <2>3. PICK r \in owned_actions(A) : KeyOf(A[r]) = k
    BY DEF LiveKeys
  <2>4. W(p) \in SUBSET p
    OBVIOUS
  <2>5. KeyOf(A[r]) \in DOMAIN want
    BY <2>3
  <2> HIDE DEF A, want, W
  <2>6. \E s \in owned_actions(device) : KeyOf(device[s]) = KeyOf(A[r])
    BY <2>1, <2>2, <2>4, <2>5, WantedKeysStayLive
  <2> QED BY <2>3, <2>6 DEF LiveKeys
<1> QED BY <1>1, Invariance, RunsMakeProgress, PTL

\* A reconciliation is refused only for lack of room: the wanted callbacks and
\* what others own do exceed the array.
THEOREM RefusalsAreForLackOfRoom == Spec => []RefusalIsHonest
<1>1. IInv => RefusalIsHonest
  <2> SUFFICES ASSUME IInv, NEW c \in Callers, pc[c] = "queued", req[c].op = "sync",
                      Insufficient(device, req[c])
               PROVE  Cardinality(DOMAIN req[c].want)
                         + Cardinality(foreign_actions(device)) > Cardinality(Slots)
    BY DEF RefusalIsHonest
  <2>1. device \in Array /\ req[c].want \in Wanted
    BY RequestKinds DEF IInv, TypeOK, PlanInv, InQueue, Active
  <2>2. ~Fits(device, req[c].want)
    BY DEF Insufficient
  <2> QED BY <2>1, <2>2, RefusedWantsExceedTheArray
<1> QED BY <1>1, Invariance, PTL

\* A removal that returns leaves no slot of ours able to fire, and none with our
\* URL in it on firmware that does as it is told.
THEOREM RemovalIsComplete == Spec => []RemovalErases
<1>1. IInv /\ ProgressInv => RemovalErases
  <2> SUFFICES ASSUME IInv, ProgressInv, NEW c \in Callers, Done(c, "remove")
               PROVE  /\ owned_actions(device) = {}
                      /\ ~KeepsParam => \A s \in Slots : ~is_owned(device[s])
    BY DEF RemovalErases
  <2>1. PlansFor(seen[c], req[c]) = {RemovalPlan(seen[c])}
    BY DEF PlansFor, Done
  <2>2. /\ seen[c] \in Array
        /\ CarriedOut(RemovalPlan(seen[c]), seen[c], device)
        /\ ~KeepsParam => \A w \in RemovalPlan(seen[c]) : device[w.slot] = w.value
    BY <2>1, FinishedRun
  <2>3. ASSUME ~KeepsParam, NEW s \in Slots, is_owned(device[s]) PROVE FALSE
    <3>1. CASE is_owned(seen[c][s])
      <4> DEFINE w == ClearWrite(seen[c], s)
      <4>1. w \in RemovalPlan(seen[c])
        BY <3>1 DEF RemovalPlan
      <4>2. w.slot = s /\ w.value = Cleared(seen[c][s])
        BY DEF ClearWrite
      <4>3. device[s] = Cleared(seen[c][s])
        BY <2>2, <2>3, <4>1, <4>2
      <4>4. Cleared(seen[c][s]).action = ACTION_UNCONFIGURED
        BY <2>2 DEF Cleared, Array, Slot
      <4> QED BY <2>3, <4>3, <4>4 DEF is_owned, ACTION_UNCONFIGURED, ACTION_HTTP_GET
    <3>2. CASE ~is_owned(seen[c][s])
      <4>1. \A w \in RemovalPlan(seen[c]) : w.slot # s
        BY <2>2, <3>2, RemovalPlanOnlyClearsOwned
      <4> QED BY <2>2, <2>3, <3>2, <4>1 DEF CarriedOut
    <3> QED BY <3>1, <3>2
  <2> QED BY <2>2, <2>3, RemovalErasesOwned
<1> QED BY <1>1, Invariance, RunsMakeProgress, PTL

-----------------------------------------------------------------------------
(* Pacing.  A callback put into a free slot keeps the pacing that slot       *)
(* carries, so what follows is about devices whose free slots carry none: as *)
(* they left the factory, and as the wBox app leaves them.                   *)

FreeSlotsComeUnpaced ==
    \A a \in FactorySlots \cup WboxSlots : ~is_configured(a) => ~a.paced

Unpaced(A) == \A s \in free_slots(A) : ~A[s].paced

UnpacedInv == Unpaced(device) /\ \A c \in Callers : Writing(c) => Unpaced(seen[c])

\* Every write of ours that empties a slot takes its pacing along.
LEMMA WritesLeaveFreeSlotsUnpaced ==
    ASSUME IInv, UnpacedInv, NEW c \in Callers, pc[c] = "posting",
           NEW w \in plan[c], Accept(w)
    PROVE  Unpaced(device')
<1>1. device \in Array /\ PlannedFor(req[c], seen[c], w) /\ w.slot \in Slots
  BY PendingWrite DEF IInv, TypeOK
<1>2. PICK v \in Stored(w) : device' = [device EXCEPT ![w.slot] = v]
  BY DEF Accept
<1>3. w.value \in Slot
  BY <1>1 DEF PlannedFor, Write
<1>4. v # w.value => w.clears /\ v.paced = w.value.paced
  BY <1>3 DEF Stored, Slot
<1>5. ~is_configured(v) => ~v.paced
  BY <1>1, <1>4 DEF PlannedFor, Blank
<1>6. \A s \in Slots : device'[s] = IF s = w.slot THEN v ELSE device[s]
  BY <1>1, <1>2 DEF Array
<1> QED BY <1>5, <1>6 DEF UnpacedInv, Unpaced, free_slots

LEMMA StepKeepsUnpaced ==
    ASSUME FreeSlotsComeUnpaced, IInv, UnpacedInv, [Next]_vars
    PROVE  UnpacedInv'
<1>1. Unpaced(device')
  <2>1. CASE device' = device
    BY <2>1 DEF UnpacedInv
  <2>2. CASE device' # device
    <3>1. Next
      BY <2>2 DEF vars
    <3>2. ASSUME NEW c \in Callers, pc[c] = "posting", NEW w \in plan[c], Accept(w)
          PROVE  Unpaced(device')
      BY <3>2, WritesLeaveFreeSlotsUnpaced
    <3>3. ASSUME NEW s \in Slots, NEW v \in WboxSlots, WboxEdit(s, v)
          PROVE  Unpaced(device')
      <4>1. \A r \in Slots : device'[r] = IF r = s THEN v ELSE device[r]
        BY <3>3 DEF WboxEdit, IInv, TypeOK, Array
      <4> QED BY <4>1 DEF UnpacedInv, Unpaced, free_slots, FreeSlotsComeUnpaced
    <3> QED BY <2>2, <3>1, <3>2, <3>3, DeviceChanges
  <2> QED BY <2>1, <2>2
<1>2. ASSUME NEW c \in Callers, Writing(c)' PROVE Unpaced(seen'[c])
  <2>1. CASE Writing(c) /\ seen'[c] = seen[c]
    BY <2>1 DEF UnpacedInv
  <2>2. CASE ~(Writing(c) /\ seen'[c] = seen[c])
    <3>1. \A d \in Callers : ~Leave(d)
      <4> SUFFICES ASSUME NEW d \in Callers, Leave(d) PROVE FALSE
        OBVIOUS
      <4> QED BY <1>2, <2>2 DEF Leave, Writing, IInv, TypeOK
    <3>2. seen'[c] = device
      BY <1>2, <2>2, <3>1
         DEF Next, CallerStep, Call, ReadAndPlan, Refuse, ReadFails, StartPost,
             PostAccepted, PostRejected, PostUnanswered, Finish, StartSettings,
             EndSettings, WboxEdit, vars, Writing, IInv, TypeOK
    <3> QED BY <3>2 DEF UnpacedInv
  <2> QED BY <2>1, <2>2
<1> QED BY <1>1, <1>2 DEF UnpacedInv, Unpaced

\* What throttled the previous occupant of a slot does not rate-limit the
\* callback put there, on devices whose free slots carry no pacing.
THEOREM PacingStartsAfresh ==
    ASSUME FreeSlotsComeUnpaced
    PROVE  Spec => []PacingIsNotInherited
<1>1. Init => UnpacedInv
  <2> SUFFICES ASSUME Init PROVE UnpacedInv
    OBVIOUS
  <2>1. Unpaced(device)
    BY DEF Init, Unpaced, free_slots, FreeSlotsComeUnpaced
  <2>2. \A c \in Callers : ~Writing(c)
    BY DEF Init, Writing
  <2> QED BY <2>1, <2>2 DEF UnpacedInv
<1>2. IInv /\ UnpacedInv /\ [Next]_vars => UnpacedInv'
  BY StepKeepsUnpaced
<1>3. IInv /\ ProgressInv /\ UnpacedInv => PacingIsNotInherited
  <2> SUFFICES ASSUME IInv, ProgressInv, UnpacedInv, NEW c \in Callers,
                      Done(c, "sync"), NEW s \in owned_actions(device),
                      device[s].paced
               PROVE  s \in owned_actions(seen[c]) /\ KeyOf(seen[c][s]) = KeyOf(device[s])
    BY DEF PacingIsNotInherited
  <2>1. /\ Writing(c) /\ seen[c] \in Array /\ req[c].want \in Wanted
        /\ \E p \in SyncPlans(seen[c], req[c].want) : CarriedOut(p, seen[c], device)
    BY FinishedSync
  <2>2. \A r \in free_slots(seen[c]) : ~seen[c][r].paced
    BY <2>1 DEF UnpacedInv, Unpaced
  <2> QED BY <2>1, <2>2, PacingComesFromOneself
<1> QED BY <1>1, <1>2, <1>3, Invariance, RunsMakeProgress, PTL DEF Spec
=============================================================================
