------------------------- MODULE Coordinator_proofs -------------------------
(***************************************************************************)
(* Proofs about the two modules of coordinator.py: about Coordinator for   *)
(* any number of refreshes and writers, any settle window and any cadence, *)
(* and about Healing for any slots, callbacks and limit of the back-off.   *)
(***************************************************************************)
EXTENDS Coordinator, Healing, TLAPS

\* The payloads a refresh has tried to read.
Tried(j) ==
    CASE j.pc = "settings" -> {"actions"}
      [] j.pc = "network" -> {"actions", "settings"}
      [] j.pc \in {"heal", "publish"} -> Payloads
      [] OTHER -> {}

\* What a write was answered with, and what is owed, the device really had.
WritesAreStored ==
    \A w \in Writers :
        writer[w].pc = "stored" =>
            writer[w].version \in 1 .. dev[writer[w].payload]

OwedIsStored == \A p \in Payloads : owed[p] <= dev[p]

\* While a full refresh is owed it is asked for, every refresh in flight is a
\* full one, and none has read the payload from before the write.
Covers(j, p) == j.full /\ (p \in Tried(j) => j.tried[p] >= owed[p])

OwedIsPending ==
    \A p \in Payloads : owed[p] > landed[p] =>
        force /\ \A t \in InFlight : Covers(job[t], p)

IInv == TypeOK /\ WritesAreStored /\ OwedIsStored /\ OwedIsPending

LEMMA InitImpliesInvariant == Init => IInv
<1> SUFFICES ASSUME Init PROVE IInv
  OBVIOUS
<1> USE CoordinatorAssumption
<1>1. TypeOK
  <2>1. dev \in [Payloads -> Version \ {Unknown}] /\ data \in [Payloads -> Version]
    BY DEF Init, Version, Unknown
  <2>2. written \in [Overlaid -> Overlay \cup {None}]
    BY DEF Init
  <2>3. job \in [Tasks -> Job \cup {Idle}]
    BY DEF Init
  <2>4. sinceFull \in 0 .. Slow /\ faults \in 0 .. MaxFaults
    BY DEF Init
  <2>7. force \in BOOLEAN
    BY DEF Init
  <2>5. {acked, owed, landed} \subseteq [Payloads -> Version]
    BY DEF Init, Version, Unknown
  <2>6. writer = [w \in Writers |-> NoWrite]
    BY DEF Init
  <2> QED BY <2>1, <2>2, <2>3, <2>4, <2>5, <2>6, <2>7 DEF TypeOK
<1>2. WritesAreStored
  BY DEF Init, WritesAreStored, NoWrite
<1>3. OwedIsStored
  BY DEF Init, OwedIsStored, Unknown
<1>4. OwedIsPending
  BY DEF Init, OwedIsPending, Unknown
<1> QED BY <1>1, <1>2, <1>3, <1>4 DEF IInv

\* A record of a job in flight is told from Idle by its pc.
LEMMA JobTyped ==
    ASSUME TypeOK, NEW t \in Tasks, job[t].pc # "idle"
    PROVE  job[t] \in Job /\ t \in InFlight
BY DEF TypeOK, Idle, InFlight

LEMMA WriterTyped ==
    ASSUME TypeOK, NEW w \in Writers, writer[w] # NoWrite
    PROVE  writer[w] \in [pc : {"sent", "stored"}, payload : Payloads, version : Version]
BY DEF TypeOK
-----------------------------------------------------------------------------
(* Type correctness, action by action *)

LEMMA StartRefreshTyped ==
    ASSUME TypeOK, NEW t \in Tasks, StartRefresh(t)
    PROVE  TypeOK'
<1> DEFINE j == [pc |-> "state", full |-> FullDue, got |-> data,
                 tried |-> [p \in Payloads |-> Unknown], age |-> 0]
<1>1. FullDue \in BOOLEAN
  BY DEF FullDue, TypeOK
<1>2. j \in Job
  BY <1>1, CoordinatorAssumption DEF Job, TypeOK, Version, Unknown
<1>3. job' = [job EXCEPT ![t] = j]
  BY DEF StartRefresh
<1> HIDE DEF j
<1> QED BY <1>2, <1>3 DEF StartRefresh, TypeOK

LEMMA ReadTyped ==
    ASSUME TypeOK, NEW t \in Tasks,
           ReadState(t) \/ ReadInfo(t) \/ ReadPayload(t) \/ Heal(t)
    PROVE  TypeOK'
<1>1. CASE ReadState(t)
  BY <1>1, JobTyped DEF ReadState, TypeOK, Job
<1>2. CASE ReadInfo(t)
  BY <1>2, JobTyped DEF ReadInfo, TypeOK, Job
<1>3. CASE ReadPayload(t)
  <2> DEFINE p == job[t].pc
  <2>1. job[t] \in Job /\ p \in Payloads
    BY <1>3, JobTyped DEF ReadPayload, Payloads
  <2>2. After[p] \in {"settings", "network", "heal"}
    BY <2>1 DEF After, Payloads
  <2>3. faults' \in 0 .. MaxFaults
    <3>1. faults' = faults \/ (faults < MaxFaults /\ faults' = faults + 1)
      BY <1>3, Zenon DEF ReadPayload, Fault, MayFail
    <3> QED BY <3>1, CoordinatorAssumption DEF TypeOK
  <2>4. PICK answered \in BOOLEAN :
          job' = [job EXCEPT
                    ![t].pc = After[p],
                    ![t].tried[p] = dev[p],
                    ![t].got[p] = IF answered THEN dev[p] ELSE CarriedForward(t, p)]
    BY <1>3 DEF ReadPayload
  <2>5. CarriedForward(t, p) \in Version /\ dev[p] \in Version
    BY <2>1 DEF CarriedForward, Job, Version, Unknown, TypeOK
  <2>6. job' \in [Tasks -> Job \cup {Idle}]
    BY <2>1, <2>2, <2>4, <2>5 DEF Job, TypeOK
  <2> QED BY <1>3, <2>3, <2>6 DEF ReadPayload, TypeOK
<1>4. CASE Heal(t)
  BY <1>4, JobTyped DEF Heal, TypeOK, Job, Version, Unknown, Payloads
<1> QED BY <1>1, <1>2, <1>3, <1>4

LEMMA UnexpiredTyped ==
    ASSUME TypeOK
    PROVE  Unexpired \in [Overlaid -> Overlay \cup {None}]
BY DEF TypeOK, Unexpired

LEMMA EndRefreshTyped ==
    ASSUME TypeOK, NEW t \in Tasks,
           RefreshFails(t) \/ PublishState(t) \/ PublishFull(t)
    PROVE  TypeOK'
<1>1. CASE RefreshFails(t)
  BY <1>1, CoordinatorAssumption DEF RefreshFails, TypeOK, Fault, MayFail
<1>2. CASE PublishState(t)
  BY <1>2, JobTyped, UnexpiredTyped DEF PublishState, TypeOK, Job
<1>3. CASE PublishFull(t)
  BY <1>3, JobTyped, UnexpiredTyped DEF PublishFull, TypeOK, Job, Newest
<1> QED BY <1>1, <1>2, <1>3

LEMMA WriteTyped ==
    ASSUME TypeOK, WritesAreStored, NEW w \in Writers,
           \/ \E p \in Writable : SendWrite(w, p)
           \/ DeviceStores(w) \/ WriteAnswered(w) \/ WriteFails(w)
    PROVE  TypeOK'
<1> USE CoordinatorAssumption
<1>1. ASSUME NEW p \in Writable, SendWrite(w, p) PROVE TypeOK'
  BY <1>1 DEF SendWrite, TypeOK, Version, Unknown
<1>2. CASE DeviceStores(w)
  <2>1. writer[w] \in [pc : {"sent", "stored"}, payload : Payloads, version : Version]
    BY <1>2, WriterTyped DEF DeviceStores, NoWrite
  <2>2. dev[writer[w].payload] + 1 \in Version \ {Unknown}
    BY <2>1 DEF TypeOK, Version, Unknown
  <2> QED BY <1>2, <2>1, <2>2 DEF DeviceStores, TypeOK, Version
<1>3. CASE WriteAnswered(w)
  <2> DEFINE p == writer[w].payload
             v == writer[w].version
             o == [kind |-> "written", version |-> v, age |-> 0]
  <2>1. writer[w] \in [pc : {"sent", "stored"}, payload : Payloads, version : Version]
    BY <1>3, WriterTyped DEF WriteAnswered, NoWrite
  <2>2. p \in Payloads /\ v \in Version \ {Unknown}
    BY <1>3, <2>1 DEF WriteAnswered, WritesAreStored, TypeOK, Version, Unknown
  <2>3. o \in Overlay
    BY <2>2 DEF Overlay
  <2>4. written' = IF p \in Overlaid THEN [written EXCEPT ![p] = o] ELSE written
    BY <1>3 DEF WriteAnswered, Acknowledge
  <2> HIDE DEF o
  <2>5. written' \in [Overlaid -> Overlay \cup {None}]
    BY <2>3, <2>4 DEF TypeOK
  <2>6. {acked', owed', landed'} \subseteq [Payloads -> Version]
    BY <1>3, <2>2 DEF WriteAnswered, Acknowledge, TypeOK
  <2> QED BY <1>3, <2>5, <2>6 DEF WriteAnswered, Acknowledge, TypeOK
<1>4. CASE WriteFails(w)
  BY <1>4 DEF WriteFails, TypeOK, Fault, MayFail
<1> QED BY <1>1, <1>2, <1>3, <1>4

LEMMA EnvironmentTyped ==
    ASSUME TypeOK, Tick \/ \E p \in Writable : ChangedElsewhere(p)
    PROVE  TypeOK'
<1> USE CoordinatorAssumption
<1>1. ASSUME NEW p \in Writable, ChangedElsewhere(p) PROVE TypeOK'
  BY <1>1 DEF ChangedElsewhere, TypeOK, Version, Unknown
<1>2. CASE Tick
  <2>1. written' \in [Overlaid -> Overlay \cup {None}]
    BY <1>2 DEF Tick, TypeOK, Overlay, Older, None
  <2>2. job' \in [Tasks -> Job \cup {Idle}]
    BY <1>2 DEF Tick, TypeOK, Job, Older
  <2>3. sinceFull' \in 0 .. Slow
    BY <1>2 DEF Tick, TypeOK, Older
  <2> QED BY <1>2, <2>1, <2>2, <2>3 DEF Tick, TypeOK
<1> QED BY <1>1, <1>2

-----------------------------------------------------------------------------
(* The other conjuncts *)

LEMMA StepTyped ==
    ASSUME TypeOK, WritesAreStored, [Next]_vars
    PROVE  TypeOK'
<1>1. CASE \E t \in Tasks : RefreshStep(t) \/ RefreshFails(t)
  BY <1>1, StartRefreshTyped, ReadTyped, EndRefreshTyped DEF RefreshStep
<1>2. CASE \E w \in Writers :
              (\E p \in Writable : SendWrite(w, p)) \/ WriteStep(w) \/ WriteFails(w)
  BY <1>2, WriteTyped DEF WriteStep
<1>3. CASE Tick \/ \E p \in Writable : ChangedElsewhere(p)
  BY <1>3, EnvironmentTyped
<1>4. CASE UNCHANGED vars
  BY <1>4 DEF vars, TypeOK
<1> QED BY <1>1, <1>2, <1>3, <1>4 DEF Next

\* No step makes the device forget a change.
LEMMA DeviceMovesOn ==
    ASSUME TypeOK, [Next]_vars
    PROVE  \A p \in Payloads : dev'[p] >= dev[p]
<1>1. \/ dev' = dev
      \/ \E p \in Payloads : dev' = [dev EXCEPT ![p] = @ + 1]
  <2>1. CASE UNCHANGED vars
    BY <2>1 DEF vars
  <2>2. CASE \E t \in Tasks : RefreshStep(t) \/ RefreshFails(t)
    BY <2>2, Zenon
       DEF RefreshStep, StartRefresh, ReadState, ReadInfo, ReadPayload, Heal,
           PublishState, PublishFull, RefreshFails, Payloads
  <2>3. ASSUME NEW w \in Writers, DeviceStores(w)
        PROVE  \E p \in Payloads : dev' = [dev EXCEPT ![p] = @ + 1]
    <3>1. writer[w].payload \in Payloads
      BY <2>3, WriterTyped DEF DeviceStores, NoWrite
    <3> QED BY <2>3, <3>1 DEF DeviceStores
  <2>4. ASSUME NEW w \in Writers,
               (\E p \in Writable : SendWrite(w, p)) \/ WriteAnswered(w) \/ WriteFails(w)
        PROVE  dev' = dev
    BY <2>4 DEF SendWrite, WriteAnswered, Acknowledge, WriteFails
  <2>5. ASSUME NEW p \in Writable, ChangedElsewhere(p)
        PROVE  \E q \in Payloads : dev' = [dev EXCEPT ![q] = @ + 1]
    BY <2>5, CoordinatorAssumption DEF ChangedElsewhere
  <2>6. CASE Tick
    BY <2>6 DEF Tick
  <2> QED BY <2>1, <2>2, <2>3, <2>4, <2>5, <2>6 DEF Next, WriteStep
<1> QED BY <1>1 DEF TypeOK, Version

\* A write that goes on is as it was, or has just been sent or stored.
LEMMA WriterMoves ==
    ASSUME TypeOK, [Next]_vars, NEW w \in Writers, writer'[w] # NoWrite
    PROVE  \/ writer'[w] = writer[w]
           \/ DeviceStores(w)
           \/ \E p \in Writable : SendWrite(w, p)
<1>1. CASE UNCHANGED writer
  BY <1>1
<1>2. ASSUME NEW v \in Writers, v # w,
             \/ \E p \in Writable : SendWrite(v, p)
             \/ DeviceStores(v) \/ WriteAnswered(v) \/ WriteFails(v)
      PROVE  writer'[w] = writer[w]
  BY <1>2 DEF SendWrite, DeviceStores, WriteAnswered, Acknowledge, WriteFails, TypeOK
<1>3. CASE WriteAnswered(w) \/ WriteFails(w)
  BY <1>3 DEF WriteAnswered, Acknowledge, WriteFails, TypeOK
<1>4. CASE \E t \in Tasks : RefreshStep(t) \/ RefreshFails(t)
  BY <1>1, <1>4
     DEF RefreshStep, StartRefresh, ReadState, ReadInfo, ReadPayload, Heal,
         PublishState, PublishFull, RefreshFails
<1>5. CASE Tick \/ \E p \in Writable : ChangedElsewhere(p)
  BY <1>1, <1>5 DEF Tick, ChangedElsewhere
<1> QED BY <1>1, <1>2, <1>3, <1>4, <1>5 DEF Next, WriteStep, vars

LEMMA StepStored ==
    ASSUME TypeOK, WritesAreStored, [Next]_vars
    PROVE  WritesAreStored'
<1>1. ASSUME NEW w \in Writers, writer'[w].pc = "stored", writer'[w] = writer[w]
      PROVE  writer'[w].version \in 1 .. dev'[writer'[w].payload]
  <2>1. writer[w].payload \in Payloads
    BY <1>1, WriterTyped DEF NoWrite
  <2>2. dev'[writer[w].payload] >= dev[writer[w].payload]
    BY <2>1, DeviceMovesOn
  <2>3. /\ writer[w].version \in 1 .. dev[writer[w].payload]
        /\ dev[writer[w].payload] \in Nat /\ dev'[writer[w].payload] \in Nat
    BY <1>1, <2>1, StepTyped DEF WritesAreStored, TypeOK, Version
  <2> QED BY <1>1, <2>2, <2>3
<1>2. ASSUME NEW w \in Writers, DeviceStores(w)
      PROVE  writer'[w].version \in 1 .. dev'[writer'[w].payload]
  <2>1. writer[w] \in [pc : {"sent", "stored"}, payload : Payloads, version : Version]
    BY <1>2, WriterTyped DEF DeviceStores, NoWrite
  <2> QED BY <1>2, <2>1 DEF DeviceStores, TypeOK, Version
<1>3. ASSUME NEW w \in Writers, writer'[w].pc = "stored"
      PROVE  writer'[w] = writer[w] \/ DeviceStores(w)
  <2>1. ASSUME NEW p \in Writable, SendWrite(w, p) PROVE FALSE
    BY <1>3, <2>1 DEF SendWrite, TypeOK
  <2> QED BY <1>3, <2>1, WriterMoves DEF NoWrite
<1> QED BY <1>1, <1>2, <1>3 DEF WritesAreStored

LEMMA OwedChanges ==
    ASSUME TypeOK, WritesAreStored, [Next]_vars
    PROVE  \/ owed' = owed
           \/ \E w \in Writers : WriteAnswered(w)
<1>1. CASE \E t \in Tasks : RefreshStep(t) \/ RefreshFails(t)
  BY <1>1
     DEF RefreshStep, StartRefresh, ReadState, ReadInfo, ReadPayload, Heal,
         PublishState, PublishFull, RefreshFails
<1>2. ASSUME NEW w \in Writers,
             (\E p \in Writable : SendWrite(w, p)) \/ DeviceStores(w) \/ WriteFails(w)
      PROVE  owed' = owed
  BY <1>2 DEF SendWrite, DeviceStores, WriteFails
<1>3. CASE Tick \/ \E p \in Writable : ChangedElsewhere(p)
  BY <1>3 DEF Tick, ChangedElsewhere
<1> QED BY <1>1, <1>2, <1>3 DEF Next, WriteStep, vars

LEMMA AnswerTyped ==
    ASSUME TypeOK, WritesAreStored, NEW w \in Writers, WriteAnswered(w)
    PROVE  /\ writer[w].payload \in Payloads
           /\ writer[w].version \in 1 .. dev[writer[w].payload]
           /\ dev' = dev /\ job' = job /\ landed' = landed /\ force' = TRUE
           /\ owed' = IF InFlight = {}
                       THEN [owed EXCEPT ![writer[w].payload] = writer[w].version]
                       ELSE owed
<1>1. writer[w] \in [pc : {"sent", "stored"}, payload : Payloads, version : Version]
  BY WriterTyped DEF WriteAnswered, NoWrite
<1> QED BY <1>1 DEF WriteAnswered, Acknowledge, WritesAreStored

LEMMA StepOwedIsStored ==
    ASSUME TypeOK, WritesAreStored, OwedIsStored, [Next]_vars
    PROVE  OwedIsStored'
<1> SUFFICES ASSUME NEW p \in Payloads PROVE owed'[p] <= dev'[p]
  BY DEF OwedIsStored
<1>1. owed[p] <= dev[p] /\ owed[p] \in Nat /\ dev[p] \in Nat /\ dev'[p] \in Nat
  BY StepTyped DEF OwedIsStored, TypeOK, Version
<1>2. CASE owed' = owed
  BY <1>1, <1>2, DeviceMovesOn
<1>3. ASSUME NEW w \in Writers, WriteAnswered(w) PROVE owed'[p] <= dev'[p]
  <2>1. owed'[p] = owed[p] \/ (p = writer[w].payload /\ owed'[p] = writer[w].version)
    BY <1>3, AnswerTyped DEF TypeOK
  <2>2. writer[w].version \in 1 .. dev[writer[w].payload] /\ dev' = dev
    BY <1>3, AnswerTyped
  <2> QED BY <1>1, <2>1, <2>2
<1> QED BY <1>2, <1>3, OwedChanges

-----------------------------------------------------------------------------
(* What is owed stays pending *)

\* A refresh that goes on, or ends without publishing a full snapshot, and a
\* refresh that starts.
LEMMA PendingWhenJobsChange ==
    ASSUME OwedIsPending, UNCHANGED <<owed, landed, force>>,
           \A t \in InFlight', p \in Payloads :
               owed[p] > landed[p] /\ force /\ (t \in InFlight => Covers(job[t], p))
                   => Covers(job[t], p)'
    PROVE  OwedIsPending'
BY DEF OwedIsPending

LEMMA StartRefreshPending ==
    ASSUME TypeOK, OwedIsPending, NEW t \in Tasks, StartRefresh(t)
    PROVE  OwedIsPending'
<1>1. UNCHANGED <<owed, landed, force>>
  BY DEF StartRefresh
<1>2. ASSUME NEW u \in InFlight', NEW p \in Payloads, force,
             u \in InFlight => Covers(job[u], p)
      PROVE  Covers(job[u], p)'
  <2>1. CASE u = t
    BY <1>2, <2>1 DEF StartRefresh, Covers, Tried, FullDue, TypeOK
  <2>2. CASE u # t
    <3>1. u \in InFlight /\ job'[u] = job[u]
      BY <2>2 DEF StartRefresh, InFlight, TypeOK
    <3> QED BY <1>1, <1>2, <3>1 DEF Covers
  <2> QED BY <2>1, <2>2
<1> QED BY <1>1, <1>2, PendingWhenJobsChange

LEMMA ReadPending ==
    ASSUME TypeOK, OwedIsStored, OwedIsPending, NEW t \in Tasks,
           ReadState(t) \/ ReadInfo(t) \/ ReadPayload(t) \/ Heal(t)
    PROVE  OwedIsPending'
<1>1. UNCHANGED <<owed, landed, force>>
  BY DEF ReadState, ReadInfo, ReadPayload, Heal
<1>2. job[t] \in Job /\ t \in InFlight
  BY JobTyped DEF ReadState, ReadInfo, ReadPayload, Heal, Payloads
<1>3. ASSUME NEW u \in InFlight', NEW p \in Payloads, u # t, u \in InFlight => Covers(job[u], p)
      PROVE  Covers(job[u], p)'
  <2>1. u \in InFlight /\ job'[u] = job[u]
    BY <1>3 DEF ReadState, ReadInfo, ReadPayload, Heal, InFlight, TypeOK
  <2> QED BY <1>1, <1>3, <2>1 DEF Covers
<1>4. ASSUME NEW p \in Payloads, Covers(job[t], p)
      PROVE  Covers(job[t], p)'
  <2>1. CASE ReadState(t)
    BY <1>4, <2>1, <1>2 DEF ReadState, Covers, Tried, TypeOK, Job
  <2>2. CASE ReadInfo(t)
    BY <1>4, <2>2, <1>2 DEF ReadInfo, Covers, Tried, TypeOK, Job
  <2>3. CASE Heal(t)
    BY <1>4, <2>3, <1>2 DEF Heal, Covers, Tried, TypeOK, Job
  <2>4. CASE ReadPayload(t)
    <3> DEFINE q == job[t].pc
    <3>1. q \in Payloads /\ owed' = owed
      BY <2>4 DEF ReadPayload
    <3>2. PICK g \in [Payloads -> Version] :
            job'[t] = [job[t] EXCEPT !.pc = After[q], !.tried[q] = dev[q], !.got = g]
      <4>1. PICK answered \in BOOLEAN :
              job' = [job EXCEPT
                        ![t].pc = After[q],
                        ![t].tried[q] = dev[q],
                        ![t].got[q] = IF answered THEN dev[q] ELSE CarriedForward(t, q)]
        BY <2>4 DEF ReadPayload
      <4> DEFINE x == IF answered THEN dev[q] ELSE CarriedForward(t, q)
      <4>2. x \in Version
        BY <1>2, <3>1 DEF CarriedForward, Job, Version, Unknown, TypeOK
      <4>3. job' = [job EXCEPT ![t].pc = After[q], ![t].tried[q] = dev[q], ![t].got[q] = x]
        BY <4>1
      <4> HIDE DEF x
      <4>4. [job[t].got EXCEPT ![q] = x] \in [Payloads -> Version]
        BY <1>2, <4>2 DEF Job
      <4> QED BY <1>2, <4>3, <4>4 DEF TypeOK, Job
    <3>3. job'[t].full = job[t].full /\ job'[t].pc = After[q]
      BY <1>2, <3>2 DEF Job
    <3>4. job'[t].tried = [job[t].tried EXCEPT ![q] = dev[q]]
      BY <1>2, <3>2 DEF Job
    <3>5. Tried(job'[t]) \subseteq Tried(job[t]) \cup {q}
      BY <3>1, <3>3 DEF Tried, After, Payloads
    <3>6. dev[q] >= owed[q]
      BY <3>1 DEF OwedIsStored, TypeOK, Version
    <3>7. p \in Tried(job'[t]) => job'[t].tried[p] >= owed[p]
      BY <1>2, <1>4, <3>1, <3>4, <3>5, <3>6 DEF Covers, Job
    <3> QED BY <1>4, <3>1, <3>3, <3>7 DEF Covers
  <2> QED BY <2>1, <2>2, <2>3, <2>4
<1> QED BY <1>1, <1>2, <1>3, <1>4, PendingWhenJobsChange

\* A refresh that fails, or a relay-only one that ends, takes nothing away; a
\* full one that ends has read everything that was owed.
LEMMA EndRefreshPending ==
    ASSUME TypeOK, OwedIsPending, NEW t \in Tasks,
           RefreshFails(t) \/ PublishState(t) \/ PublishFull(t)
    PROVE  OwedIsPending'
<1>1. CASE RefreshFails(t) \/ PublishState(t)
  <2>1. UNCHANGED <<owed, landed, force>>
    BY <1>1 DEF RefreshFails, PublishState
  <2>2. ASSUME NEW u \in InFlight', NEW p \in Payloads, u \in InFlight => Covers(job[u], p)
        PROVE  Covers(job[u], p)'
    <3>1. u \in InFlight /\ job'[u] = job[u]
      BY <1>1, <2>2 DEF RefreshFails, PublishState, InFlight, TypeOK
    <3> QED BY <2>1, <2>2, <3>1 DEF Covers
  <2> QED BY <2>1, <2>2, PendingWhenJobsChange
<1>2. CASE PublishFull(t)
  <2> SUFFICES ASSUME NEW p \in Payloads PROVE ~(owed'[p] > landed'[p])
    BY DEF OwedIsPending
  <2>1. job[t] \in Job /\ t \in InFlight
    BY <1>2, JobTyped DEF PublishFull
  <2>2. owed' = owed /\ landed' = Newest(landed, job[t].tried)
    BY <1>2 DEF PublishFull
  <2>3. p \in Tried(job[t])
    BY <1>2 DEF PublishFull, Tried
  <2>4. /\ landed[p] \in Nat /\ owed[p] \in Nat /\ job[t].tried[p] \in Nat
    BY <2>1 DEF TypeOK, Job, Version
  <2>5. landed'[p] >= landed[p] /\ landed'[p] >= job[t].tried[p] /\ landed'[p] \in Nat
    BY <2>2, <2>4 DEF Newest
  <2>6. owed[p] > landed[p] => job[t].tried[p] >= owed[p]
    BY <2>1, <2>3 DEF OwedIsPending, Covers
  <2> QED BY <2>2, <2>4, <2>5, <2>6
<1> QED BY <1>1, <1>2

LEMMA WritePending ==
    ASSUME TypeOK, WritesAreStored, OwedIsPending, NEW w \in Writers, WriteAnswered(w)
    PROVE  OwedIsPending'
<1>1. /\ job' = job /\ landed' = landed /\ force' = TRUE
      /\ InFlight = {} \/ owed' = owed
  BY AnswerTyped
<1>2. InFlight' = InFlight
  BY <1>1 DEF InFlight
<1>3. CASE InFlight = {}
  BY <1>1, <1>2, <1>3 DEF OwedIsPending
<1>4. CASE owed' = owed
  BY <1>1, <1>2, <1>4 DEF OwedIsPending, Covers
<1> QED BY <1>1, <1>3, <1>4

LEMMA OtherStepPending ==
    ASSUME TypeOK, OwedIsPending,
           \/ \E w \in Writers :
                 (\E p \in Writable : SendWrite(w, p)) \/ DeviceStores(w) \/ WriteFails(w)
           \/ \E p \in Writable : ChangedElsewhere(p)
           \/ Tick
           \/ UNCHANGED vars
    PROVE  OwedIsPending'
<1>1. UNCHANGED <<owed, landed, force>>
  BY DEF SendWrite, DeviceStores, WriteFails, ChangedElsewhere, Tick, vars
<1>2. ASSUME NEW u \in InFlight', NEW p \in Payloads, u \in InFlight => Covers(job[u], p)
      PROVE  Covers(job[u], p)'
  <2>1. CASE job' = job
    BY <1>1, <1>2, <2>1 DEF InFlight, Covers
  <2>2. CASE Tick
    <3>1. u \in InFlight /\ u \in Tasks
      BY <1>2, <2>2 DEF Tick, InFlight
    <3>2. job[u] \in Job
      BY <3>1 DEF InFlight, TypeOK
    <3>3. job'[u] = [job[u] EXCEPT !.age = Older(@, Slow)]
      BY <2>2, <3>1 DEF Tick, InFlight
    <3>4. job'[u].full = job[u].full /\ job'[u].pc = job[u].pc /\ job'[u].tried = job[u].tried
      BY <3>2, <3>3 DEF Job
    <3>5. Tried(job'[u]) = Tried(job[u])
      BY <3>4 DEF Tried
    <3> QED BY <1>1, <1>2, <3>1, <3>4, <3>5 DEF Covers
  <2> QED BY <2>1, <2>2
          DEF SendWrite, DeviceStores, WriteFails, ChangedElsewhere, vars
<1> QED BY <1>1, <1>2, PendingWhenJobsChange

LEMMA StepKeepsInvariant ==
    ASSUME IInv, [Next]_vars
    PROVE  IInv'
<1>1. TypeOK' /\ WritesAreStored' /\ OwedIsStored'
  BY StepTyped, StepStored, StepOwedIsStored DEF IInv
<1>2. OwedIsPending'
  <2>1. ASSUME NEW t \in Tasks, RefreshStep(t) \/ RefreshFails(t)
        PROVE  OwedIsPending'
    BY <2>1, StartRefreshPending, ReadPending, EndRefreshPending DEF IInv, RefreshStep
  <2>2. ASSUME NEW w \in Writers, WriteAnswered(w)
        PROVE  OwedIsPending'
    BY <2>2, WritePending DEF IInv
  <2> QED BY <2>1, <2>2, OtherStepPending DEF IInv, Next, WriteStep
<1> QED BY <1>1, <1>2 DEF IInv

THEOREM Invariance == Spec => []IInv
BY InitImpliesInvariant, StepKeepsInvariant, PTL DEF Spec

-----------------------------------------------------------------------------
(* What follows from it *)

\* The coordinator's state keeps its types, for any number of refreshes and
\* writers in flight: what a write leaves in front of the snapshot is always
\* a payload the device answered with.
THEOREM TypeCorrect == Spec => []TypeOK
<1>1. IInv => TypeOK
  BY DEF IInv
<1> QED BY <1>1, Invariance, PTL

\* A full refresh asked for while none was in flight stays asked for until one
\* that read everything after the write has landed: no failure, no relay-only
\* cycle and no overlap of refreshes uses the request up.
THEOREM RequestsSurvive == Spec => []RequestSurvives
<1>1. IInv => RequestSurvives
  BY DEF IInv, OwedIsPending, RequestSurvives
<1> QED BY <1>1, Invariance, PTL

-----------------------------------------------------------------------------
(* Own writes stay in front *)

\* The lock of the writes is held once, what a write was answered with is
\* newer than what an earlier one left, and nothing is newer than the device.
OneLockedWrite ==
    \A v, w \in Writers : HasWriteLock(v) /\ HasWriteLock(w) => v = w

WritesAreWritable ==
    \A w \in Writers : writer[w] # NoWrite => writer[w].payload \in Writable

OverlayIsStored ==
    \A p \in Overlaid : written[p] # None => written[p].version <= dev[p]

AnswersAreNewest ==
    \A w \in Writers, p \in Overlaid :
        (/\ writer[w].pc = "stored" /\ writer[w].payload = p
         /\ HasWriteLock(w) /\ written[p] # None)
            => written[p].version < writer[w].version

OverlayInv == OneLockedWrite /\ WritesAreWritable /\ OverlayIsStored /\ AnswersAreNewest

Ages == [p \in Overlaid |->
            IF written[p] = None THEN None
            ELSE [written[p] EXCEPT !.age = Older(@, Settle)]]

\* All that can happen to the overlay.
LEMMA OverlaySteps ==
    ASSUME IInv, [Next]_vars
    PROVE  \/ written' \in {written, Unexpired, Ages}
           \/ \E w \in Writers : WriteAnswered(w)
<1>1. CASE \E t \in Tasks : RefreshStep(t) \/ RefreshFails(t)
  BY <1>1
     DEF RefreshStep, StartRefresh, ReadState, ReadInfo, ReadPayload, Heal,
         PublishState, PublishFull, RefreshFails
<1>2. ASSUME NEW w \in Writers,
             (\E p \in Writable : SendWrite(w, p)) \/ DeviceStores(w) \/ WriteFails(w)
      PROVE  written' = written
  BY <1>2 DEF SendWrite, DeviceStores, WriteFails
<1>3. CASE Tick \/ \E p \in Writable : ChangedElsewhere(p)
  BY <1>3 DEF Tick, ChangedElsewhere, Ages
<1> QED BY <1>1, <1>2, <1>3 DEF Next, WriteStep, vars

LEMMA OverlayAnswered ==
    ASSUME IInv, NEW w \in Writers, WriteAnswered(w), NEW p \in Overlaid
    PROVE  IF writer[w].payload = p
             THEN written'[p] # None /\ written'[p].version = writer[w].version
             ELSE written'[p] = written[p]
<1> DEFINE o == [kind |-> "written", version |-> writer[w].version, age |-> 0]
<1>1. /\ written' = IF writer[w].payload \in Overlaid
                      THEN [written EXCEPT ![writer[w].payload] = o] ELSE written
      /\ written \in [Overlaid -> Overlay \cup {None}]
  BY DEF WriteAnswered, Acknowledge, IInv, TypeOK
<1>2. o # None /\ o.version = writer[w].version
  BY DEF None
<1> HIDE DEF o
<1> QED BY <1>1, <1>2

\* An overlay is the one from before, whatever its age, or was just answered.
LEMMA OverlayMoves ==
    ASSUME IInv, [Next]_vars, NEW p \in Overlaid, written'[p] # None
    PROVE  \/ written[p] # None /\ written'[p].version = written[p].version
           \/ \E w \in Writers :
                /\ WriteAnswered(w) /\ writer[w].payload = p
                /\ written'[p].version = writer[w].version
<1>1. written[p] # None => written[p] \in Overlay
  BY DEF IInv, TypeOK
<1>2. CASE written' \in {written, Unexpired, Ages}
  BY <1>1, <1>2 DEF Unexpired, Ages, Overlay
<1>3. ASSUME NEW w \in Writers, WriteAnswered(w)
      PROVE  \/ written'[p] = written[p]
             \/ writer[w].payload = p /\ written'[p].version = writer[w].version
  BY <1>3, OverlayAnswered
<1> QED BY <1>2, <1>3, OverlaySteps

LEMMA LockStep ==
    ASSUME IInv, OneLockedWrite, WritesAreWritable, [Next]_vars
    PROVE  OneLockedWrite' /\ WritesAreWritable'
<1>1. ASSUME NEW w \in Writers, writer'[w] # NoWrite
      PROVE  \/ writer[w] # NoWrite /\ writer'[w].payload = writer[w].payload
             \/ \E p \in Writable : SendWrite(w, p)
  <2>1. ASSUME DeviceStores(w)
        PROVE  writer[w] # NoWrite /\ writer'[w].payload = writer[w].payload
    <3>1. writer[w] \in [pc : {"sent", "stored"}, payload : Payloads, version : Version]
      BY <2>1, WriterTyped DEF DeviceStores, NoWrite, IInv
    <3> QED BY <2>1, <3>1 DEF DeviceStores, IInv, TypeOK, NoWrite
  <2> QED BY <1>1, <2>1, WriterMoves DEF IInv
<1>2. ASSUME NEW w \in Writers, NEW p \in Writable, SendWrite(w, p)
      PROVE  /\ writer'[w].payload = p
             /\ p \in WriteLocked => \A x \in Writers : ~HasWriteLock(x)
             /\ \A x \in Writers \ {w} : writer'[x] = writer[x]
  BY <1>2 DEF SendWrite, IInv, TypeOK
<1>3. WritesAreWritable'
  BY <1>1, <1>2 DEF WritesAreWritable
<1>4. OneLockedWrite'
  <2> SUFFICES ASSUME NEW v \in Writers, NEW w \in Writers,
                      HasWriteLock(v)', HasWriteLock(w)', v # w
               PROVE  FALSE
    BY DEF OneLockedWrite
  <2>1. ASSUME NEW x \in Writers, HasWriteLock(x)'
        PROVE  HasWriteLock(x) \/ \E p \in Writable : SendWrite(x, p)
    BY <1>1, <2>1 DEF HasWriteLock
  <2>2. ASSUME NEW x \in Writers, NEW y \in Writers, x # y, NEW p \in Writable,
               SendWrite(x, p), HasWriteLock(x)', HasWriteLock(y)'
        PROVE  FALSE
    BY <1>2, <2>2 DEF HasWriteLock
  <2> QED BY <2>1, <2>2 DEF OneLockedWrite
<1> QED BY <1>3, <1>4

LEMMA OverlayStep ==
    ASSUME IInv, IInv', OverlayInv, [Next]_vars
    PROVE  OverlayInv'
<1>1. OneLockedWrite' /\ WritesAreWritable'
  BY LockStep DEF OverlayInv
<1>2. OverlayIsStored'
  <2> SUFFICES ASSUME NEW p \in Overlaid, written'[p] # None
               PROVE  written'[p].version <= dev'[p]
    BY DEF OverlayIsStored
  <2>1. p \in Payloads /\ dev[p] \in Nat /\ dev'[p] \in Nat /\ dev'[p] >= dev[p]
    BY DeviceMovesOn DEF Overlaid, Payloads, IInv, TypeOK, Version
  <2>2. written'[p].version \in Nat
    BY DEF IInv, TypeOK, Overlay, Version
  <2>3. written'[p].version <= dev[p]
    <3>1. CASE written[p] # None /\ written'[p].version = written[p].version
      BY <3>1 DEF OverlayInv, OverlayIsStored
    <3>2. ASSUME NEW w \in Writers, WriteAnswered(w), writer[w].payload = p,
                 written'[p].version = writer[w].version
          PROVE  written'[p].version <= dev[p]
      <4>1. writer[w].version \in 1 .. dev[writer[w].payload]
        BY <3>2, AnswerTyped DEF IInv
      <4> QED BY <2>1, <3>2, <4>1
    <3> QED BY <3>1, <3>2, OverlayMoves
  <2> QED BY <2>1, <2>2, <2>3
<1>3. AnswersAreNewest'
  <2> SUFFICES ASSUME NEW w \in Writers, NEW p \in Overlaid,
                      writer'[w].pc = "stored", writer'[w].payload = p,
                      HasWriteLock(w)', written'[p] # None
               PROVE  written'[p].version < writer'[w].version
    BY DEF AnswersAreNewest
  <2>1. CASE writer'[w] = writer[w]
    <3>1. HasWriteLock(w)
      BY <2>1 DEF HasWriteLock
    <3>2. ASSUME NEW v \in Writers, WriteAnswered(v), writer[v].payload = p
          PROVE  FALSE
      <4>1. HasWriteLock(v)
        BY <2>1, <3>1, <3>2 DEF HasWriteLock, WriteAnswered, NoWrite
      <4>2. v = w
        BY <3>1, <4>1 DEF OverlayInv, OneLockedWrite
      <4>3. writer'[w] = NoWrite
        BY <3>2, <4>2 DEF WriteAnswered, Acknowledge, IInv, TypeOK
      <4> QED BY <4>3 DEF NoWrite
    <3>3. written[p] # None /\ written'[p].version = written[p].version
      BY <3>2, OverlayMoves
    <3> QED BY <2>1, <3>1, <3>3 DEF OverlayInv, AnswersAreNewest
  <2>2. CASE DeviceStores(w)
    <3>1. writer[w] \in [pc : {"sent", "stored"}, payload : Payloads, version : Version]
      BY <2>2, WriterTyped DEF DeviceStores, NoWrite, IInv
    <3>2. writer'[w].version = dev[p] + 1 /\ written' = written
      BY <2>2, <3>1 DEF DeviceStores, IInv, TypeOK
    <3>3. written[p].version <= dev[p] /\ written[p].version \in Nat /\ dev[p] \in Nat
      BY <3>2 DEF OverlayInv, OverlayIsStored, IInv, TypeOK, Overlay, Version, Overlaid,
                  Payloads
    <3> QED BY <3>2, <3>3
  <2>3. ASSUME NEW q \in Writable, SendWrite(w, q) PROVE FALSE
    BY <2>3 DEF SendWrite, IInv, TypeOK
  <2> QED BY <2>1, <2>2, <2>3, WriterMoves DEF IInv, NoWrite
<1> QED BY <1>1, <1>2, <1>3 DEF OverlayInv

LEMMA OverlayInvariant == Spec => []OverlayInv
<1>1. Init => OverlayInv
  BY DEF Init, OverlayInv, OneLockedWrite, WritesAreWritable, OverlayIsStored,
         AnswersAreNewest, HasWriteLock, NoWrite
<1>2. IInv /\ IInv' /\ OverlayInv /\ [Next]_vars => OverlayInv'
  BY OverlayStep
<1> QED BY <1>1, <1>2, Invariance, PTL DEF Spec

\* A control goes on showing what was written until the write is Settle old,
\* or shows a later write.
HoldsFor(p) == written[p] # None /\ written[p].age < Settle => Shown(p)' >= Shown(p)

LEMMA StepHolds ==
    ASSUME IInv, IInv', OverlayInv, [Next]_vars, NEW p \in Overlaid,
           p \in Writable => p \in WriteLocked
    PROVE  HoldsFor(p)
<1> SUFFICES ASSUME written[p] # None, written[p].age < Settle
             PROVE  Shown(p)' >= Shown(p)
  BY DEF HoldsFor
<1>1. written[p] \in Overlay
  BY DEF IInv, TypeOK
<1>2. written'[p] # None
  <2>1. CASE written' \in {written, Unexpired, Ages}
    <3>1. ~Expired(written[p])
      BY <1>1, CoordinatorAssumption DEF Expired, Overlay
    <3>2. [written[p] EXCEPT !.age = Older(@, Settle)].kind = "written"
      BY <1>1 DEF Overlay
    <3>3. [written[p] EXCEPT !.age = Older(@, Settle)] # None
      BY <1>1, <3>2 DEF None
    <3> QED BY <2>1, <3>1, <3>3 DEF Unexpired, Ages
  <2>2. ASSUME NEW w \in Writers, WriteAnswered(w) PROVE written'[p] # None
    BY <2>2, OverlayAnswered
  <2> QED BY <2>1, <2>2, OverlaySteps
<1>3. written'[p].version >= written[p].version
  <2>1. written'[p].version \in Nat /\ written[p].version \in Nat
    BY <1>1, <1>2 DEF IInv, TypeOK, Overlay, Version
  <2>2. ASSUME NEW w \in Writers, WriteAnswered(w), writer[w].payload = p,
               written'[p].version = writer[w].version
        PROVE  written[p].version < written'[p].version
    <3>1. writer[w] # NoWrite /\ writer[w].pc = "stored"
      BY <2>2 DEF WriteAnswered, NoWrite
    <3>2. HasWriteLock(w)
      BY <2>2, <3>1 DEF OverlayInv, WritesAreWritable, HasWriteLock
    <3> QED BY <2>2, <3>1, <3>2 DEF OverlayInv, AnswersAreNewest
  <2> QED BY <1>2, <2>1, <2>2, OverlayMoves
<1> QED BY <1>2, <1>3 DEF Shown

\* What Home Assistant wrote into the settings stays what is shown until the
\* write is Settle old, whatever refreshes and writes are in flight and
\* whichever of them fail (coordinator.py:606-655, blebox_actions.py:681-693).
THEOREM SettingsHold == Spec => [][HoldsFor("settings")]_vars
<1>1. IInv /\ IInv' /\ OverlayInv /\ [Next]_vars => [HoldsFor("settings")]_vars
  BY StepHolds DEF Overlaid, WriteLocked
<1> QED BY <1>1, Invariance, OverlayInvariant, PTL DEF Spec

\* The same of every payload, as long as the access point, whose POST takes no
\* lock, is not written from Home Assistant: with two answers to its toggles
\* recorded out of order it does not hold (coordinator.py:75-91, 606-655).
THEOREM OwnWritesHold ==
    ASSUME Writable \cap Overlaid \subseteq WriteLocked
    PROVE  Spec => OwnWriteHolds
<1>1. IInv /\ IInv' /\ OverlayInv /\ [Next]_vars
        => [\A p \in Overlaid : HoldsFor(p)]_vars
  BY StepHolds
<1>2. (\A p \in Overlaid : HoldsFor(p))
        <=> \A p \in Overlaid :
              written[p] # None /\ written[p].age < Settle => Shown(p)' >= Shown(p)
  BY DEF HoldsFor
<1>3. IInv /\ IInv' /\ OverlayInv /\ [Next]_vars
        => [\A p \in Overlaid :
              written[p] # None /\ written[p].age < Settle => Shown(p)' >= Shown(p)]_vars
  BY <1>1, <1>2
<1> QED BY <1>3, Invariance, OverlayInvariant, PTL DEF Spec, OwnWriteHolds

-----------------------------------------------------------------------------
(* Refreshes that do not overlap *)

NoOverlap == \A s, t \in Tasks : s = t

\* What is published or read of an overlaid payload is no newer than the device,
\* and what the refresh in flight has is no older than what is published.
SnapshotInv ==
    /\ \A p \in Overlaid : data[p] <= dev[p]
    /\ \A t \in InFlight, p \in Overlaid :
            data[p] <= job[t].got[p] /\ job[t].got[p] <= dev[p]

\* All that can happen to what a refresh has read.
LEMMA ReadsMove ==
    ASSUME TypeOK, [Next]_vars, NEW t \in InFlight', NEW p \in Overlaid
    PROVE  \/ t \in InFlight /\ job'[t].got[p] = job[t].got[p]
           \/ job'[t].got[p] = data[p]
           \/ job'[t].got[p] = dev[p]
<1>1. t \in Tasks /\ p \in Payloads /\ p # "actions"
  BY DEF InFlight, Overlaid, Payloads
<1>2. CASE job'[t] = job[t]
  BY <1>2 DEF InFlight
<1>3. CASE StartRefresh(t)
  BY <1>1, <1>3 DEF StartRefresh, TypeOK
<1>4. CASE ReadState(t) \/ ReadInfo(t) \/ Heal(t)
  <2>1. job[t] \in Job /\ t \in InFlight
    BY <1>1, <1>4, JobTyped DEF ReadState, ReadInfo, Heal
  <2> QED BY <1>1, <1>4, <2>1 DEF ReadState, ReadInfo, Heal, Job, TypeOK
<1>5. CASE ReadPayload(t)
  <2> DEFINE q == job[t].pc
  <2>1. job[t] \in Job /\ t \in InFlight /\ q \in Payloads
    BY <1>1, <1>5, JobTyped DEF ReadPayload, Payloads
  <2>2. PICK answered \in BOOLEAN :
          job' = [job EXCEPT
                    ![t].pc = After[q],
                    ![t].tried[q] = dev[q],
                    ![t].got[q] = IF answered THEN dev[q] ELSE CarriedForward(t, q)]
    BY <1>5 DEF ReadPayload
  <2>3. job'[t].got = [job[t].got EXCEPT ![q] = IF answered THEN dev[q]
                                                ELSE CarriedForward(t, q)]
    BY <1>1, <2>1, <2>2 DEF TypeOK, Job
  <2>4. CASE p = q
    BY <1>1, <2>1, <2>3, <2>4 DEF CarriedForward, Job
  <2>5. CASE p # q
    BY <1>1, <2>1, <2>3, <2>5 DEF Job
  <2> QED BY <2>4, <2>5
<1>6. CASE Tick
  <2>1. t \in InFlight /\ job[t] \in Job
    BY <1>1, <1>6 DEF Tick, InFlight, TypeOK
  <2>2. job'[t] = [job[t] EXCEPT !.age = Older(@, Slow)]
    BY <1>1, <1>6, <2>1 DEF Tick, InFlight
  <2> QED BY <2>1, <2>2 DEF Job
<1>7. ASSUME NEW u \in Tasks, RefreshStep(u) \/ RefreshFails(u), u # t
      PROVE  job'[t] = job[t]
  BY <1>1, <1>7
     DEF RefreshStep, StartRefresh, ReadState, ReadInfo, ReadPayload, Heal,
         PublishState, PublishFull, RefreshFails, TypeOK
<1>8. CASE PublishState(t) \/ PublishFull(t) \/ RefreshFails(t)
  BY <1>1, <1>8 DEF PublishState, PublishFull, RefreshFails, InFlight, TypeOK
<1>9. ASSUME NEW w \in Writers,
             \/ \E q \in Writable : SendWrite(w, q)
             \/ DeviceStores(w) \/ WriteAnswered(w) \/ WriteFails(w)
      PROVE  job' = job
  BY <1>9 DEF SendWrite, DeviceStores, WriteAnswered, Acknowledge, WriteFails
<1>10. CASE UNCHANGED vars \/ \E q \in Writable : ChangedElsewhere(q)
  BY <1>2, <1>10 DEF vars, ChangedElsewhere
<1> QED BY <1>2, <1>3, <1>4, <1>5, <1>6, <1>7, <1>8, <1>9, <1>10
        DEF Next, RefreshStep, WriteStep

\* Only a refresh that has just ended changes the snapshot.
LEMMA SnapshotMoves ==
    ASSUME TypeOK, [Next]_vars
    PROVE  \/ data' = data
           \/ \E t \in InFlight : data' = job[t].got /\ job' = [job EXCEPT ![t] = Idle]
<1>1. ASSUME NEW t \in Tasks, PublishState(t) \/ PublishFull(t)
      PROVE  t \in InFlight /\ data' = job[t].got /\ job' = [job EXCEPT ![t] = Idle]
  BY <1>1, JobTyped DEF PublishState, PublishFull
<1>2. ASSUME NEW t \in Tasks,
             \/ StartRefresh(t) \/ ReadState(t) \/ ReadInfo(t) \/ ReadPayload(t)
             \/ Heal(t) \/ RefreshFails(t)
      PROVE  data' = data
  BY <1>2 DEF StartRefresh, ReadState, ReadInfo, ReadPayload, Heal, RefreshFails
<1>3. ASSUME NEW w \in Writers,
             \/ \E q \in Writable : SendWrite(w, q)
             \/ DeviceStores(w) \/ WriteAnswered(w) \/ WriteFails(w)
      PROVE  data' = data
  BY <1>3 DEF SendWrite, DeviceStores, WriteAnswered, Acknowledge, WriteFails
<1>4. CASE Tick \/ UNCHANGED vars \/ \E q \in Writable : ChangedElsewhere(q)
  BY <1>4 DEF Tick, vars, ChangedElsewhere
<1> QED BY <1>1, <1>2, <1>3, <1>4 DEF Next, RefreshStep, WriteStep

LEMMA SnapshotStep ==
    ASSUME NoOverlap, TypeOK, TypeOK', SnapshotInv, [Next]_vars
    PROVE  SnapshotInv' /\ \A p \in Overlaid : data'[p] >= data[p]
<1>1. \A p \in Overlaid : /\ p \in Payloads /\ dev[p] \in Nat /\ dev'[p] \in Nat
                          /\ data[p] \in Nat /\ data'[p] \in Nat /\ dev'[p] >= dev[p]
  BY DeviceMovesOn DEF Overlaid, Payloads, TypeOK, Version
<1>2. \A t \in InFlight : job[t] \in Job /\ t \in Tasks
  BY DEF InFlight, TypeOK
<1>3. \A t \in InFlight' : job'[t] \in Job /\ t \in Tasks
  BY DEF InFlight, TypeOK
<1>4. \A p \in Overlaid : data'[p] >= data[p] /\ data'[p] <= dev[p]
  BY <1>1, <1>2, SnapshotMoves DEF SnapshotInv
<1>5. \A p \in Overlaid : data'[p] <= dev'[p]
  BY <1>1, <1>4
<1>6. ASSUME NEW t \in InFlight', NEW p \in Overlaid
      PROVE  data'[p] <= job'[t].got[p] /\ job'[t].got[p] <= dev'[p]
  <2>1. data' = data
    <3>1. ASSUME NEW u \in InFlight, job' = [job EXCEPT ![u] = Idle] PROVE FALSE
      BY <1>2, <1>3, <3>1 DEF NoOverlap, InFlight, TypeOK
    <3> QED BY <3>1, SnapshotMoves
  <2>2. job'[t].got[p] \in Nat
    BY <1>1, <1>3 DEF Job, Version
  <2>3. data[p] <= job'[t].got[p] /\ job'[t].got[p] <= dev[p]
    <3>1. CASE t \in InFlight /\ job'[t].got[p] = job[t].got[p]
      BY <3>1 DEF SnapshotInv
    <3>2. CASE job'[t].got[p] \in {data[p], dev[p]}
      BY <1>1, <3>2 DEF SnapshotInv
    <3> QED BY <3>1, <3>2, ReadsMove
  <2> QED BY <1>1, <2>1, <2>2, <2>3
<1> QED BY <1>4, <1>5, <1>6 DEF SnapshotInv

\* As long as refreshes do not overlap, the settings and the network of the
\* snapshot never go back to an older payload, whichever reads fail and whatever
\* is written meanwhile (coordinator.py:689-719).
THEOREM SnapshotsNeverGoBack ==
    ASSUME NoOverlap
    PROVE  Spec => SnapshotNeverGoesBack
<1>1. Init => SnapshotInv
  BY DEF Init, SnapshotInv, InFlight, Overlaid, Payloads, Unknown
<1>2. TypeOK /\ TypeOK' /\ SnapshotInv /\ [Next]_vars
        => SnapshotInv' /\ [\A p \in Overlaid : data'[p] >= data[p]]_vars
  BY SnapshotStep
<1> QED BY <1>1, <1>2, TypeCorrect, PTL DEF Spec, SnapshotNeverGoesBack
-----------------------------------------------------------------------------
(* Healing.  The schedule of the repairs is stated on what has happened
   (situation, streak and waited), the code decides on its three
   attributes.  Agreement says that the attributes always tell that story. *)

(* The attributes are the history, as far as they are looked at: the count
   of skipped cycles is stale once nothing was found missing, and zero as
   long as no repair has failed. *)
Counted == attempt # {} => /\ waited = skipped
                           /\ failures = 0 => skipped = 0

Agreement ==
    /\ situation = attempt
    /\ streak = failures
    /\ Counted
    /\ cycle.pc = "repairing" => attempt # {} /\ skipped = 0

HealingInv == HealingTypeOK /\ Agreement

-----------------------------------------------------------------------------
(* What the operators return *)

LEMMA LesserBounds ==
    ASSUME NEW a \in Int, NEW b \in Int
    PROVE  Lesser(a, b) \in Int /\ Lesser(a, b) <= a /\ Lesser(a, b) <= b
                                /\ Lesser(a, b) \in {a, b}
BY SMT DEF Lesser

LEMMA DueBounds ==
    ASSUME NEW n \in Nat \ {0}
    PROVE  Due(n) \in Int /\ Due(n) <= MaxCycles
<1>1. 2 ^ (n - 1) \in Int
    BY SMT
<1>2. MaxCycles \in Int
    BY HealingAssumption
<1> QED
    BY <1>1, <1>2, LesserBounds DEF Due

LEMMA FailedBounds ==
    ASSUME NEW n \in 0 .. MaxCycles
    PROVE  /\ Failed(n) \in 1 .. MaxCycles
           /\ Failed(n) = Lesser(n + 1, MaxCycles)
BY HealingAssumption, SMT DEF Failed, Lesser

(* A report of the slots is one table. *)
LEMMA SeenIsATable ==
    ASSUME HealingTypeOK, cycle # Resting, cycle.read # {}
    PROVE  Seen \in Tables
<1>1. cycle.read \in AtMostOne(Reports)
    BY DEF HealingTypeOK, Cycle
<1>2. PICK r \in cycle.read : TRUE
    OBVIOUS
<1>3. (CHOOSE q \in cycle.read : TRUE) \in Reports
    BY <1>1, <1>2 DEF AtMostOne
<1> QED
    BY <1>3 DEF Seen, Reports

LEMMA KeyIsAnAttempt ==
    ASSUME NEW T \in Tables
    PROVE  Key(T) \in Attempts /\ Key(T) = [missing |-> Missing(T), layout |-> Layout(T)]
<1>1. Layout(T) \in Tables
    BY HealingAssumption DEF Layout, Tables, Contents
<1> QED
    BY <1>1 DEF Key, Attempts, Missing

LEMMA SingletonsAreAtMostOne ==
    ASSUME NEW S, NEW x \in S
    PROVE  {x} \in AtMostOne(S) /\ {} \in AtMostOne(S)
BY DEF AtMostOne

(* A run leaves a table and outcomes behind, wherever it broke off. *)
LEMMA RewriteKeepsTypes ==
    ASSUME HealingTypeOK, NEW U \in Tables, Rewrite(U)
    PROVE  table' \in Tables /\ told' \in [Slots -> Outcomes]
BY DEF HealingTypeOK, Rewrite, Outcomes

LEMMA RunsKeepTypes ==
    ASSUME HealingTypeOK, \/ (RunSucceeds \/ RunRefused) /\ UNCHANGED moves
                   \/ RunBreaksOff
    PROVE  /\ table' \in Tables /\ told' \in [Slots -> Outcomes]
           /\ moves' \in 0 .. MaxMoves
<1>1. CASE RunSucceeds /\ UNCHANGED moves
    <2>1. PICK U \in Provisioned(table) : Rewrite(U)
        BY <1>1 DEF RunSucceeds
    <2>2. U \in Tables
        BY DEF Provisioned
    <2> QED
        BY <1>1, <2>1, <2>2, RewriteKeepsTypes DEF HealingTypeOK
<1>2. CASE RunRefused /\ UNCHANGED moves
    BY <1>2 DEF RunRefused, HealingTypeOK
<1>3. CASE RunBreaksOff
    <2>1. PICK U \in Provisioned(table), done \in SUBSET Slots :
            Rewrite([s \in Slots |-> IF s \in done THEN U[s] ELSE table[s]])
        BY <1>3 DEF RunBreaksOff
    <2>2. U \in Tables
        BY DEF Provisioned
    <2>3. [s \in Slots |-> IF s \in done THEN U[s] ELSE table[s]] \in Tables
        BY <2>2 DEF HealingTypeOK, Tables
    <2>4. moves' \in 0 .. MaxMoves
        BY <1>3, HealingAssumption, SMT DEF RunBreaksOff, Move, HealingTypeOK
    <2> QED
        BY <2>1, <2>3, <2>4, RewriteKeepsTypes
<1> QED
    BY <1>1, <1>2, <1>3

LEMMA RaisedIsAtMostOne ==
    ASSUME NEW r
    PROVE  Raised(r) \in AtMostOne(Issues)
BY DEF Raised, AtMostOne, Issues

LEMMA UpdatedIsAtMostOne ==
    ASSUME cycle.read \in AtMostOne(Reports)
    PROVE  Updated \in AtMostOne(Issues)
<1>1. CASE cycle.read = {}
    <2>1. Updated = {}
        BY <1>1 DEF Updated
    <2> QED
        BY <2>1 DEF AtMostOne
<1>2. CASE cycle.read # {}
    <2>1. PICK r \in cycle.read : cycle.read = {r}
        BY <1>2 DEF AtMostOne
    <2>2. Updated = Raised(r)
        BY <2>1 DEF Updated
    <2> QED
        BY <2>2, RaisedIsAtMostOne
<1> QED
    BY <1>1, <1>2

-----------------------------------------------------------------------------
LEMMA HealingInitEstablishes == HealingInit => HealingInv
<1> SUFFICES ASSUME HealingInit PROVE HealingInv
    OBVIOUS
<1>1. /\ {} \in AtMostOne(Attempts) /\ {} \in AtMostOne(Issues)
      /\ 0 \in 0 .. MaxCycles /\ 0 \in 0 .. MaxMoves /\ 0 \in 0 .. MaxRestarts
    BY HealingAssumption, SMT DEF AtMostOne
<1>2. HealingTypeOK
    BY <1>1 DEF HealingInit, HealingTypeOK, Outcomes
<1>3. Agreement
    BY DEF HealingInit, Agreement, Counted, Resting
<1> QED
    BY <1>2, <1>3 DEF HealingInv

-----------------------------------------------------------------------------
(* Each step keeps HealingInv. *)

LEMMA DecidedKeepsType ==
    ASSUME HealingTypeOK, cycle # Resting, NEW pc \in {"read", "repairing", "healed"},
           Decided(pc)
    PROVE  cycle' \in Cycle /\ cycle'.pc = pc
<1>1. cycle \in Cycle
    BY DEF HealingTypeOK
<1>2. cycle' = [cycle EXCEPT !.pc = pc]
    BY DEF Decided
<1> QED
    BY <1>1, <1>2 DEF Cycle

LEMMA CycleIsUnderWay ==
    ASSUME NEW pc \in {"read", "repairing", "healed"}, cycle.pc = pc
    PROVE  cycle # Resting
BY DEF Resting

(* What every decision of a cycle leaves alone. *)
LEMMA DecisionsKeepTheRest ==
    ASSUME HealingTypeOK, UNCHANGED <<device, automatic, attempted, setup, issues, moves, restarts>>
    PROVE  /\ table' \in Tables /\ told' \in [Slots -> Outcomes]
           /\ reach' \in Outcomes \ {"never"}
           /\ automatic' \in BOOLEAN /\ attempted' \in BOOLEAN /\ setup' \in BOOLEAN
           /\ issues' \in AtMostOne(Issues)
           /\ moves' \in 0 .. MaxMoves /\ restarts' \in 0 .. MaxRestarts
BY DEF HealingTypeOK, device

LEMMA NothingToDoKeepsHealingInv ==
    ASSUME HealingInv, NothingToDo
    PROVE  HealingInv'
<1>1. cycle' \in Cycle /\ cycle'.pc = "healed"
    BY CycleIsUnderWay, DecidedKeepsType DEF NothingToDo, HealingInv
<1>2. HealingTypeOK'
    BY <1>1, DecisionsKeepTheRest DEF NothingToDo, HealingInv, HealingTypeOK, heal
<1>3. Agreement'
    BY <1>1 DEF NothingToDo, HealingInv, Agreement, Counted, heal, history
<1> QED
    BY <1>2, <1>3 DEF HealingInv

LEMMA NothingMissingKeepsHealingInv ==
    ASSUME HealingInv, NothingMissing
    PROVE  HealingInv'
<1>1. cycle' \in Cycle /\ cycle'.pc = "healed"
    BY CycleIsUnderWay, DecidedKeepsType DEF NothingMissing, HealingInv
<1>2. attempt' \in AtMostOne(Attempts) /\ failures' \in 0 .. MaxCycles
    BY HealingAssumption DEF NothingMissing, AtMostOne
<1>3. HealingTypeOK'
    BY <1>1, <1>2, DecisionsKeepTheRest DEF NothingMissing, HealingInv, HealingTypeOK
<1>4. Agreement'
    BY <1>1 DEF NothingMissing, Agreement, Counted
<1> QED
    BY <1>3, <1>4 DEF HealingInv

(* What the three decisions about something missing have in common. *)
LEMMA FindingIsAnAttempt ==
    ASSUME HealingTypeOK, Finding
    PROVE  /\ cycle # Resting
           /\ Key(Seen) \in Attempts
           /\ Key(Seen) = [missing |-> Missing(Seen), layout |-> Layout(Seen)]
<1>1. cycle # Resting
    BY CycleIsUnderWay DEF Finding
<1>2. Seen \in Tables
    BY <1>1, SeenIsATable DEF Finding, Watched
<1> QED
    BY <1>1, <1>2, KeyIsAnAttempt

LEMMA TryAnewKeepsHealingInv ==
    ASSUME HealingInv, TryAnew
    PROVE  HealingInv'
<1>1. Finding /\ HealingTypeOK /\ Agreement
    BY DEF TryAnew, HealingInv
<1>2. cycle # Resting /\ Key(Seen) \in Attempts
      /\ Key(Seen) = [missing |-> Missing(Seen), layout |-> Layout(Seen)]
    BY <1>1, FindingIsAnAttempt
<1>3. cycle' \in Cycle /\ cycle'.pc = "repairing"
    BY <1>1, <1>2, DecidedKeepsType DEF TryAnew
<1>4. attempt' \in AtMostOne(Attempts) /\ failures' \in 0 .. MaxCycles
      /\ skipped' \in 0 .. MaxCycles
    BY <1>2, SingletonsAreAtMostOne, HealingAssumption DEF TryAnew
<1>5. HealingTypeOK'
    BY <1>1, <1>3, <1>4, DecisionsKeepTheRest DEF TryAnew, HealingTypeOK
<1>6. situation' = attempt' /\ situation' # situation
    BY <1>1, <1>2 DEF TryAnew, Noted, Agreement
<1>7. streak' = failures' /\ waited' = 0
    BY <1>6 DEF TryAnew, Noted
<1>8. Agreement'
    BY <1>6, <1>7 DEF TryAnew, Agreement, Counted
<1> QED
    BY <1>5, <1>8 DEF HealingInv

(* A situation that was met before leaves the streak alone. *)
LEMMA SameSituationIsRemembered ==
    ASSUME HealingInv, Finding, attempt = {Key(Seen)}, NEW tried \in BOOLEAN, Noted(tried)
    PROVE  /\ situation' = attempt /\ streak' = failures
           /\ waited' = IF tried THEN 0 ELSE waited + 1
<1>1. situation' = {Key(Seen)}
    BY FindingIsAnAttempt DEF HealingInv, Noted
<1> QED
    BY <1>1 DEF HealingInv, Agreement, Noted

LEMMA TryAgainKeepsHealingInv ==
    ASSUME HealingInv, TryAgain
    PROVE  HealingInv'
<1>1. Finding /\ HealingTypeOK /\ Agreement /\ attempt = {Key(Seen)}
    BY DEF TryAgain, HealingInv
<1>2. cycle # Resting
    BY <1>1, FindingIsAnAttempt
<1>3. cycle' \in Cycle /\ cycle'.pc = "repairing"
    BY <1>1, <1>2, DecidedKeepsType DEF TryAgain
<1>4. skipped' = 0
    BY <1>1 DEF TryAgain, Agreement, Counted
<1>5. HealingTypeOK'
    BY <1>1, <1>3, <1>4, HealingAssumption, DecisionsKeepTheRest DEF TryAgain, HealingTypeOK
<1>6. situation' = attempt /\ streak' = failures /\ waited' = 0
    BY <1>1, SameSituationIsRemembered DEF TryAgain
<1>7. Agreement'
    BY <1>1, <1>4, <1>6 DEF TryAgain, Agreement, Counted
<1> QED
    BY <1>5, <1>7 DEF HealingInv

LEMMA SkipKeepsHealingInv ==
    ASSUME HealingInv, Skip
    PROVE  HealingInv'
<1>1. Finding /\ HealingTypeOK /\ Agreement /\ attempt = {Key(Seen)}
    BY DEF Skip, HealingInv
<1>2. cycle # Resting
    BY <1>1, FindingIsAnAttempt
<1>3. cycle' \in Cycle /\ cycle'.pc = "healed"
    BY <1>1, <1>2, DecidedKeepsType DEF Skip
<1>4. failures \in Nat \ {0} /\ skipped \in Nat
    BY <1>1 DEF Skip, HealingTypeOK
<1>5. skipped < Due(failures) /\ skipped' = skipped + 1
    BY DEF Skip
<1>6. Due(failures) \in Int /\ Due(failures) <= MaxCycles
    BY <1>4, DueBounds
<1>7. skipped' \in 0 .. MaxCycles
    BY <1>4, <1>5, <1>6, HealingAssumption, SMT
<1>8. HealingTypeOK'
    BY <1>1, <1>3, <1>7, DecisionsKeepTheRest DEF Skip, HealingTypeOK
<1>9. situation' = attempt /\ streak' = failures /\ waited' = waited + 1
    BY <1>1, SameSituationIsRemembered DEF Skip
<1>10. Agreement'
    BY <1>1, <1>3, <1>4, <1>5, <1>9 DEF Skip, Agreement, Counted
<1> QED
    BY <1>8, <1>10 DEF HealingInv

LEMMA RepairKeepsHealingInv ==
    ASSUME HealingInv, Repair
    PROVE  HealingInv'
<1>1. HealingTypeOK /\ Agreement /\ cycle.pc = "repairing"
    BY DEF Repair, HealingInv
<1>2. cycle # Resting
    BY <1>1, CycleIsUnderWay
<1>3. cycle' \in Cycle /\ cycle'.pc = "healed"
    BY <1>1, <1>2, DecidedKeepsType DEF Repair
<1>4. table' \in Tables /\ told' \in [Slots -> Outcomes] /\ moves' \in 0 .. MaxMoves
    BY <1>1, RunsKeepTypes DEF Repair
<1>5. failures' \in 0 .. MaxCycles /\ streak' = failures'
    <2>1. CASE failures' = 0 /\ streak' = 0
        BY <2>1, HealingAssumption
    <2>2. CASE failures' = Failed(failures) /\ streak' = Lesser(streak + 1, MaxCycles)
        <3>1. failures \in 0 .. MaxCycles /\ streak = failures
            BY <1>1 DEF HealingTypeOK, Agreement
        <3>2. Failed(failures) \in 1 .. MaxCycles
              /\ Failed(failures) = Lesser(failures + 1, MaxCycles)
            BY <3>1, FailedBounds
        <3>3. streak' = failures'
            BY <2>2, <3>1, <3>2
        <3> QED
            BY <2>2, <3>2, <3>3
    <2> QED
        BY <2>1, <2>2 DEF Repair
<1>6. HealingTypeOK'
    BY <1>1, <1>3, <1>4, <1>5 DEF Repair, HealingTypeOK
<1>7. Agreement'
    BY <1>1, <1>3, <1>5 DEF Repair, Agreement, Counted
<1> QED
    BY <1>6, <1>7 DEF HealingInv

LEMMA ReadActionsKeepsHealingInv ==
    ASSUME HealingInv, ReadActions
    PROVE  HealingInv'
<1>1. HealingTypeOK /\ Agreement
    BY DEF HealingInv
<1>2. [table |-> table, told |-> told] \in Reports
    BY <1>1 DEF HealingTypeOK, Reports
<1>3. PICK read \in {{[table |-> table, told |-> told]}, {}} :
        cycle' = [pc |-> "read", read |-> read]
    BY DEF ReadActions
<1>4. read \in AtMostOne(Reports)
    BY <1>2, SingletonsAreAtMostOne
<1>5. cycle' \in Cycle /\ cycle'.pc = "read"
    BY <1>3, <1>4 DEF Cycle
<1>6. moves' \in 0 .. MaxMoves
    BY <1>1, HealingAssumption, SMT DEF ReadActions, Move, HealingTypeOK
<1>7. HealingTypeOK'
    BY <1>1, <1>5, <1>6 DEF ReadActions, HealingTypeOK, device, heal
<1>8. Agreement'
    BY <1>1, <1>5 DEF ReadActions, Agreement, Counted, heal, history
<1> QED
    BY <1>7, <1>8 DEF HealingInv

LEMMA PublishKeepsHealingInv ==
    ASSUME HealingInv, Publish
    PROVE  HealingInv'
<1>1. HealingTypeOK /\ Agreement /\ cycle.pc = "healed"
    BY DEF HealingInv, Publish
<1>2. cycle # Resting
    BY <1>1, CycleIsUnderWay
<1>3. cycle.read \in AtMostOne(Reports)
    BY <1>1, <1>2 DEF HealingTypeOK, Cycle
<1>4. issues' \in AtMostOne(Issues)
    BY <1>3, UpdatedIsAtMostOne DEF Publish
<1>5. cycle' = Resting
    BY DEF Publish
<1>6. HealingTypeOK'
    BY <1>1, <1>4, <1>5 DEF Publish, HealingTypeOK, device, heal
<1>7. Agreement'
    BY <1>1, <1>5 DEF Publish, Agreement, Counted, heal, history, Resting
<1> QED
    BY <1>6, <1>7 DEF HealingInv

LEMMA SetupKeepsHealingInv ==
    ASSUME HealingInv, BeginSetupRun \/ EndSetupRun
    PROVE  HealingInv'
<1>1. HealingTypeOK /\ Agreement
    BY DEF HealingInv
<1>2. cycle' = cycle /\ UNCHANGED <<heal, history>>
    BY DEF BeginSetupRun, EndSetupRun
<1>3. table' \in Tables /\ told' \in [Slots -> Outcomes] /\ moves' \in 0 .. MaxMoves
    <2>1. CASE BeginSetupRun
        BY <1>1, <2>1 DEF BeginSetupRun, HealingTypeOK, device
    <2>2. CASE EndSetupRun
        BY <1>1, <2>2, RunsKeepTypes DEF EndSetupRun
    <2> QED
        BY <2>1, <2>2
<1>4. /\ reach' = reach /\ automatic' = automatic
      /\ attempted' \in BOOLEAN /\ setup' \in BOOLEAN
      /\ issues' = issues /\ restarts' = restarts
    BY <1>1 DEF BeginSetupRun, EndSetupRun, device, HealingTypeOK
<1>5. HealingTypeOK'
    BY <1>1, <1>2, <1>3, <1>4 DEF HealingTypeOK, heal
<1>6. Agreement'
    BY <1>1, <1>2 DEF Agreement, Counted, heal, history
<1> QED
    BY <1>5, <1>6 DEF HealingInv

LEMMA StartingOverKeepsHealingInv ==
    ASSUME HealingInv, Reload \/ Restart
    PROVE  HealingInv'
<1>1. HealingTypeOK /\ Agreement
    BY DEF HealingInv
<1>2. Fresh
    BY DEF Reload, Restart
<1>3. {} \in AtMostOne(Attempts) /\ {} \in AtMostOne(Issues)
    BY DEF AtMostOne
<1>4. restarts' \in 0 .. MaxRestarts
    BY <1>1, HealingAssumption, SMT DEF Reload, Restart, HealingTypeOK
<1>5. 0 \in 0 .. MaxCycles
    BY HealingAssumption, SMT
<1>6. table' = table /\ told' = told /\ reach' = reach /\ moves' = moves
      /\ automatic' \in BOOLEAN /\ issues' \in AtMostOne(Issues)
    BY <1>1, <1>3 DEF Reload, Restart, HealingTypeOK, device
<1>7. HealingTypeOK'
    BY <1>1, <1>2, <1>3, <1>4, <1>5, <1>6 DEF Fresh, HealingTypeOK
<1>8. Agreement'
    BY <1>2 DEF Fresh, Agreement, Counted, Resting
<1> QED
    BY <1>7, <1>8 DEF HealingInv

LEMMA EnvironmentKeepsHealingInv ==
    ASSUME HealingInv,
           \/ \E s \in Slots : Press(s) \/ \E c \in Others \cup {Free} : Edit(s, c)
           \/ NetworkChanges
    PROVE  HealingInv'
<1>1. HealingTypeOK /\ Agreement
    BY DEF HealingInv
<1>2. /\ automatic' = automatic /\ attempted' = attempted /\ setup' = setup
      /\ cycle' = cycle /\ issues' = issues /\ restarts' = restarts
      /\ UNCHANGED <<heal, history>>
    BY DEF Press, Edit, NetworkChanges
<1>3. moves' \in 0 .. MaxMoves
    BY <1>1, HealingAssumption, SMT DEF Press, Edit, NetworkChanges, Move, HealingTypeOK
<1>4. reach' \in Outcomes \ {"never"}
    BY <1>1 DEF Press, Edit, NetworkChanges, HealingTypeOK
<1>5. table' \in Tables
    <2>1. CASE \E s \in Slots, c \in Others \cup {Free} : Edit(s, c)
        BY <1>1, <2>1 DEF Edit, HealingTypeOK, Tables, Contents
    <2>2. CASE table' = table
        BY <1>1, <2>2 DEF HealingTypeOK
    <2> QED
        BY <2>1, <2>2 DEF Press, NetworkChanges
<1>6. told' \in [Slots -> Outcomes]
    BY <1>1 DEF Press, Edit, NetworkChanges, HealingTypeOK, Outcomes
<1>7. HealingTypeOK'
    BY <1>1, <1>2, <1>3, <1>4, <1>5, <1>6 DEF HealingTypeOK, heal
<1>8. Agreement'
    BY <1>1, <1>2 DEF Agreement, Counted, heal, history
<1> QED
    BY <1>7, <1>8 DEF HealingInv

LEMMA StepsKeepHealingInv == HealingInv /\ [HealingNext]_healing => HealingInv'
<1> SUFFICES ASSUME HealingInv, [HealingNext]_healing PROVE HealingInv'
    OBVIOUS
<1>1. CASE BeginSetupRun \/ EndSetupRun
    BY <1>1, SetupKeepsHealingInv
<1>2. CASE ReadActions
    BY <1>2, ReadActionsKeepsHealingInv
<1>3. CASE NothingToDo
    BY <1>3, NothingToDoKeepsHealingInv
<1>4. CASE NothingMissing
    BY <1>4, NothingMissingKeepsHealingInv
<1>5. CASE TryAnew
    BY <1>5, TryAnewKeepsHealingInv
<1>6. CASE TryAgain
    BY <1>6, TryAgainKeepsHealingInv
<1>7. CASE Skip
    BY <1>7, SkipKeepsHealingInv
<1>8. CASE Repair
    BY <1>8, RepairKeepsHealingInv
<1>9. CASE Publish
    BY <1>9, PublishKeepsHealingInv
<1>10. CASE Reload \/ Restart
    BY <1>10, StartingOverKeepsHealingInv
<1>11. CASE \/ \E s \in Slots : Press(s) \/ \E c \in Others \cup {Free} : Edit(s, c)
           \/ NetworkChanges
    BY <1>11, EnvironmentKeepsHealingInv
<1>12. CASE UNCHANGED healing
    BY <1>12 DEF HealingInv, HealingTypeOK, Agreement, Counted, healing, device, heal, history
<1> QED
    BY <1>1, <1>2, <1>3, <1>4, <1>5, <1>6, <1>7, <1>8, <1>9, <1>10, <1>11, <1>12
    DEF HealingNext, CycleStep, Decide

-----------------------------------------------------------------------------
(* The state of the slow cycle keeps its type: neither count outgrows the
   limit of the back-off, and at most one issue stands
   (coordinator.py:786-931). *)
THEOREM HealingTypeCorrect == HealingSpec => []HealingTypeOK
<1>1. HealingInv => HealingTypeOK
    BY DEF HealingInv
<1> QED
    BY <1>1, HealingInitEstablishes, StepsKeepHealingInv, PTL DEF HealingSpec

(* The attributes of the back-off always tell what happened since what is
   missing, or where, last changed (coordinator.py:854-931). *)
THEOREM AttributesAreTheHistory == HealingSpec => []Agreement
<1>1. HealingInv => Agreement
    BY DEF HealingInv
<1> QED
    BY <1>1, HealingInitEstablishes, StepsKeepHealingInv, PTL DEF HealingSpec

(* The step that decides *)

LEMMA DecisionsAreDue ==
    ASSUME HealingInv, [HealingNext]_healing, Deciding
    PROVE  cycle'.pc = "repairing"
                <=> ~Same \/ streak = 0 \/ waited >= Due(streak)
<1>1. HealingTypeOK /\ Agreement /\ Finding /\ cycle' # cycle /\ cycle' # Resting
    BY DEF HealingInv, Deciding
<1>2. cycle # Resting /\ Key(Seen) = [missing |-> Missing(Seen), layout |-> Layout(Seen)]
    BY <1>1, FindingIsAnAttempt
<1>3. Same <=> attempt = {Key(Seen)}
    BY <1>1, <1>2 DEF Same, Agreement
<1>4. streak = failures
    BY <1>1 DEF Agreement
<1>5. TryAnew \/ TryAgain \/ Skip
    BY <1>1, <1>2 DEF HealingNext, CycleStep, Decide, healing, BeginSetupRun, EndSetupRun,
        ReadActions, NothingToDo, NothingMissing, Repair, Publish, Reload, Restart,
        Fresh, Press, Edit, NetworkChanges, Finding
<1>6. CASE TryAnew
    <2>1. cycle'.pc = "repairing"
        BY <1>1, <1>2, <1>6, DecidedKeepsType DEF TryAnew
    <2> QED
        BY <1>3, <1>6, <2>1 DEF TryAnew
<1>7. CASE TryAgain
    <2>1. cycle'.pc = "repairing"
        BY <1>1, <1>2, <1>7, DecidedKeepsType DEF TryAgain
    <2>2. waited = skipped
        BY <1>1, <1>7 DEF TryAgain, Agreement, Counted
    <2>3. failures = 0 \/ skipped >= Due(failures)
        BY <1>7 DEF TryAgain
    <2> QED
        BY <1>4, <2>1, <2>2, <2>3
<1>8. CASE Skip
    <2>1. cycle'.pc = "healed"
        BY <1>1, <1>2, <1>8, DecidedKeepsType DEF Skip
    <2>2. waited = skipped /\ Same
        BY <1>1, <1>3, <1>8 DEF Skip, Agreement, Counted
    <2>3. failures \in Nat \ {0} /\ skipped \in Nat
        BY <1>1, <1>8 DEF Skip, HealingTypeOK
    <2>4. Due(failures) \in Int
        BY <2>3, DueBounds
    <2>5. ~(skipped >= Due(failures)) /\ failures # 0
        BY <1>8, <2>3, <2>4, SMT DEF Skip
    <2> QED
        BY <1>4, <2>1, <2>2, <2>5
<1> QED
    BY <1>5, <1>6, <1>7, <1>8

(* A cycle that finds callbacks missing repairs them at once when they, or
   the slots, are not what they were, and otherwise after leaving out
   min(2^(f-1), HEAL_BACKOFF_MAX_CYCLES) cycles for f failures in a row
   (coordinator.py:905-931). *)
THEOREM BackoffIsAsPromised == HealingSpec => RepairsAreDue
<1>1. HealingInv /\ [HealingNext]_healing
        => [Deciding => (cycle'.pc = "repairing"
                            <=> ~Same \/ streak = 0 \/ waited >= Due(streak))]_healing
    BY DecisionsAreDue
<1> QED
    BY <1>1, HealingInitEstablishes, StepsKeepHealingInv, PTL DEF HealingSpec, RepairsAreDue
=============================================================================
