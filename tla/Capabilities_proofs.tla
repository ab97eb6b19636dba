------------------------ MODULE Capabilities_proofs ------------------------
(***************************************************************************)
(* Type correctness of Capabilities, and that a device which is away at a  *)
(* start gets the entities its last full answer called for: for any shapes *)
(* it may have, in any order, and any number of failing reads and          *)
(* restarts.                                                               *)
(***************************************************************************)
EXTENDS Capabilities, FiniteSetTheorems, TLAPS

(* A relay-only cycle follows a full one. *)
LateIsFresh == poll # Idle /\ ~poll.full => fresh

(* Until a full refresh lands, the snapshot is what was remembered. *)
SeededFromCache == pc # "stopped" /\ ~fresh => snap = cache

(* A snapshot with an uptime stands on a remembered shape with one. *)
UptimeIsRemembered == \A s \in snap : s.uptime => \E c \in cache : c.uptime

(* What was remembered looks like the last full snapshot, or like one
   before it when that one lacked its uptime. *)
CacheFollows ==
    \A l \in last : \E c \in cache : IF blip THEN c.uptime
                                             ELSE Signature(c) = Signature(l)

IInv == TypeOK /\ LateIsFresh /\ SeededFromCache /\ UptimeIsRemembered /\ CacheFollows

-----------------------------------------------------------------------------
(* Sets of at most one element *)

LEMMA TheOne ==
    ASSUME NEW S, NEW X \in AtMostOne(S), X # {}
    PROVE  The(X) \in S /\ X = {The(X)}
<1>1. PICK x : x \in X
    OBVIOUS
<1>2. The(X) \in X
    BY <1>1 DEF The
<1> QED
    BY <1>2 DEF AtMostOne

LEMMA SingleOrNone ==
    ASSUME NEW S
    PROVE  {} \in AtMostOne(S) /\ \A x \in S : {x} \in AtMostOne(S)
BY DEF AtMostOne

LEMMA ShapesTyped == \A d \in Shapes : d \in Snapshot
BY CapabilitiesAssumption DEF CapabilitiesAssumption

LEMMA BoundsTyped == MaxChanges \in Nat /\ MaxFaults \in Nat /\ MaxRestarts \in Nat
BY CapabilitiesAssumption DEF CapabilitiesAssumption

-----------------------------------------------------------------------------
(* What the signature is good for *)

(* Two snapshots of one signature whose measurements are all numbers call
   for the same entities, and show the same firmware. *)
THEOREM SignatureDecidesEntities ==
    ASSUME NEW s, NEW t, Signature(s) = Signature(t)
    PROVE  /\ s.info = t.info /\ s.uptime = t.uptime
           /\ Legible(s) /\ Legible(t) => Entities(s) = Entities(t)
<1>1. /\ s.settings = t.settings /\ s.network = t.network
      /\ s.state.safety = t.state.safety /\ s.state.measured = t.state.measured
      /\ s.state.timed = t.state.timed /\ s.uptime = t.uptime /\ s.info = t.info
    BY DEF Signature
<1>2. ASSUME Legible(s), Legible(t) PROVE Entities(s) = Entities(t)
    <2>1. Sensors(s) = Sensors(t)
        BY <1>1, <1>2 DEF Legible, Sensors
    <2>2. BinarySensors(s) = BinarySensors(t)
        BY <1>1 DEF BinarySensors
    <2>3. Controls(s) = Controls(t)
        BY <1>1 DEF Controls, PerRelay
    <2> QED
        BY <2>1, <2>2, <2>3 DEF Entities
<1> QED
    BY <1>1, <1>2

-----------------------------------------------------------------------------
LEMMA InitEstablishes == Init => IInv
<1> SUFFICES ASSUME Init PROVE IInv
    OBVIOUS
<1>1. TypeOK
    <2>1. {} \in AtMostOne(Snapshot)
        BY SingleOrNone
    <2>2. sig = {Signature(s) : s \in cache}
        BY DEF Init
    <2>3. 0 \in 0 .. MaxChanges /\ 0 \in 0 .. MaxFaults /\ 0 \in 0 .. MaxRestarts
        BY BoundsTyped
    <2> QED
        BY <2>1, <2>2, <2>3 DEF Init, TypeOK, Identities
<1> QED
    BY <1>1 DEF Init, IInv, LateIsFresh, SeededFromCache, UptimeIsRemembered, CacheFollows

(* What a full refresh publishes, whichever of its reads failed. *)
FullAnswer(failing) ==
    [info |-> dev.info, state |-> poll.state,
     settings |-> IF "settings" \in failing THEN Before.settings ELSE dev.settings,
     network |-> IF "network" \in failing THEN Before.network ELSE dev.network,
     uptime |-> dev.uptime /\ "uptime" \notin failing]

LEMMA FullAnswerTyped ==
    ASSUME TypeOK, poll # Idle, NEW failing
    PROVE  FullAnswer(failing) \in Snapshot
<1>1. dev \in Snapshot
    BY ShapesTyped DEF TypeOK
<1>2. poll.state \in State
    BY DEF TypeOK
<1>3. Before.settings \in Settings /\ Before.network \in Network
    <2>1. CASE snap = {}
        BY <2>1 DEF Before, Blank, Settings, Network
    <2>2. CASE snap # {}
        <3>1. The(snap) \in Snapshot
            BY <2>2, TheOne DEF TypeOK
        <3> QED
            BY <2>2, <3>1 DEF Before, Snapshot
    <2> QED
        BY <2>1, <2>2
<1>4. /\ dev.info \in Identities /\ dev.settings \in Settings
      /\ dev.network \in Network /\ dev.uptime \in BOOLEAN
    BY <1>1 DEF Snapshot
<1> QED
    BY <1>2, <1>3, <1>4 DEF FullAnswer, Snapshot

LEMMA FullSteps ==
    ASSUME IInv, PublishFull
    PROVE  IInv'
<1> USE DEF IInv
<1>1. PICK failing \in SUBSET {"settings", "network", "uptime"} :
        /\ faults' = faults + Cardinality(failing) /\ faults' <= MaxFaults
        /\ IF Remember(FullAnswer(failing), snap) /\ sig # {Signature(FullAnswer(failing))}
            THEN cache' = {FullAnswer(failing)} /\ sig' = {Signature(FullAnswer(failing))}
            ELSE UNCHANGED <<cache, sig>>
        /\ Published(FullAnswer(failing))
        /\ last' = {FullAnswer(failing)}
        /\ blip' = (~FullAnswer(failing).uptime /\ \E s \in snap : s.uptime)
    BY DEF PublishFull, FullAnswer
<1> DEFINE new == FullAnswer(failing)
<1>2. /\ poll # Idle /\ UNCHANGED <<dev, up, changes, entities, restarts>>
      /\ pc \in {"starting", "running"} \/ pc \notin {"starting", "running"}
    BY DEF PublishFull, environment
<1>3. new \in Snapshot /\ new.uptime \in BOOLEAN
    BY <1>2, FullAnswerTyped DEF Snapshot
<1> HIDE DEF new
(* The shape is remembered unless the uptime alone went missing. *)
<1>4. Remember(new, snap) <=> ~blip'
    <2>1. CASE snap = {}
        BY <1>1, <2>1 DEF Remember, new
    <2>2. CASE snap # {}
        <3>1. snap = {The(snap)} /\ The(snap).uptime \in BOOLEAN
            BY <2>2, TheOne DEF TypeOK, Snapshot
        <3> QED
            BY <1>1, <1>3, <2>2, <3>1 DEF Remember, new
    <2> QED
        BY <2>1, <2>2
<1>5. cache' \in AtMostOne(Snapshot) /\ sig' = {Signature(s) : s \in cache'}
    <2>1. CASE cache' = {new} /\ sig' = {Signature(new)}
        BY <2>1, <1>3, SingleOrNone
    <2>2. CASE UNCHANGED <<cache, sig>>
        BY <2>2 DEF TypeOK
    <2> QED
        BY <1>1, <2>1, <2>2 DEF new
<1>6. ~blip' => \E c \in cache' : Signature(c) = Signature(new)
    <2>1. CASE sig = {Signature(new)}
        <3>1. cache' = cache
            BY <1>1, <2>1 DEF new
        <3>2. \E c \in cache : Signature(c) = Signature(new)
            BY <2>1 DEF TypeOK
        <3> QED
            BY <3>1, <3>2
    <2>2. CASE sig # {Signature(new)}
        BY <1>1, <1>4, <2>2 DEF new
    <2> QED
        BY <2>1, <2>2
<1>7. blip' => \E c \in cache' : c.uptime
    BY <1>1, <1>4 DEF UptimeIsRemembered, new
<1>8. CacheFollows'
    BY <1>1, <1>6, <1>7 DEF CacheFollows, new
<1>9. UptimeIsRemembered'
    <2>1. ASSUME new.uptime PROVE \E c \in cache' : c.uptime
        <3>1. ~blip'
            BY <1>1, <2>1 DEF new
        <3> QED
            BY <1>6, <2>1, <3>1, SignatureDecidesEntities
    <2>2. snap' \subseteq {new}
        BY <1>1 DEF Published, new
    <2> QED
        BY <2>1, <2>2 DEF UptimeIsRemembered
<1>10. LateIsFresh' /\ SeededFromCache'
    BY <1>1 DEF Published, LateIsFresh, SeededFromCache, Over
<1>11. TypeOK'
    <2>1. {new} \in AtMostOne(Snapshot) /\ {} \in AtMostOne(Snapshot)
        BY <1>3, SingleOrNone
    <2>2. new.info \in Identities
        BY <1>3 DEF Snapshot
    <2>3. faults' \in 0 .. MaxFaults
        <3>1. faults \in Nat /\ MaxFaults \in Nat
            BY BoundsTyped DEF TypeOK
        <3>2. Cardinality(failing) \in Nat
            <4>1. IsFiniteSet({} \cup {"settings"} \cup {"network"} \cup {"uptime"})
                BY FS_EmptySet, FS_AddElement, Zenon
            <4>2. failing \subseteq {} \cup {"settings"} \cup {"network"} \cup {"uptime"}
                OBVIOUS
            <4>3. IsFiniteSet(failing)
                BY <4>1, <4>2, FS_Subset
            <4> QED
                BY <4>3, FS_CardinalityType
        <3> QED
            BY <1>1, <3>1, <3>2
    <2>4. page' \in Identities
        BY <1>1, <2>2 DEF Published, TypeOK, new
    <2>5. snap' \in AtMostOne(Snapshot) /\ last' \in AtMostOne(Snapshot)
        BY <1>1, <2>1 DEF Published, new
    <2>6. blip' \in BOOLEAN /\ fresh' \in BOOLEAN
        BY <1>1 DEF Published, TypeOK
    <2>7. poll' = Idle /\ pc' \in {"stopped", "starting", "forwarding", "running"}
        BY <1>1 DEF Published, TypeOK, Over
    <2> QED
        BY <1>1, <1>2, <1>5, <2>3, <2>4, <2>5, <2>6, <2>7 DEF TypeOK, Published, Over
<1> QED
    BY <1>8, <1>9, <1>10, <1>11

-----------------------------------------------------------------------------
(* The other steps *)

(* Nothing an entry knows of the device changes. *)
LEMMA QuietSteps ==
    ASSUME IInv, ReadState \/ GoesOrComes \/ \E shape \in Shapes : DeviceChanges(shape)
    PROVE  IInv'
<1> USE DEF IInv
<1>1. UNCHANGED <<pc, cache, sig, snap, fresh, entities, page, faults, restarts, last, blip>>
    BY DEF ReadState, GoesOrComes, DeviceChanges
<1>2. /\ poll' = poll \/ (pc # "stopped" /\ poll' \in [pc : {"reading"}, full : BOOLEAN, state : State]
                           /\ (~poll'.full => fresh))
      /\ dev' \in Shapes /\ up' \in BOOLEAN /\ changes' \in 0 .. MaxChanges
    <2>1. CASE ReadState
        <3>1. dev.state \in State
            BY ShapesTyped DEF TypeOK, Snapshot
        <3>2. PICK full \in BOOLEAN :
                /\ full \/ fresh
                /\ poll' = [pc |-> "reading", full |-> full, state |-> dev.state]
            BY <2>1 DEF ReadState, TypeOK
        <3>3. pc # "stopped" /\ UNCHANGED environment
            BY <2>1 DEF ReadState, Polling
        <3> QED
            BY <3>1, <3>2, <3>3 DEF TypeOK, environment
    <2>2. CASE GoesOrComes
        BY <2>2 DEF GoesOrComes, TypeOK
    <2>3. CASE \E shape \in Shapes : DeviceChanges(shape)
        BY <2>3, BoundsTyped DEF DeviceChanges, TypeOK
    <2> QED
        BY <2>1, <2>2, <2>3
<1>3. sig' = {Signature(s) : s \in cache'}
    BY <1>1 DEF TypeOK
<1>4. TypeOK'
    BY <1>1, <1>2, <1>3 DEF TypeOK
<1>5. LateIsFresh'
    BY <1>1, <1>2 DEF LateIsFresh
<1>6. SeededFromCache' /\ UptimeIsRemembered' /\ CacheFollows'
    BY <1>1 DEF SeededFromCache, UptimeIsRemembered, CacheFollows
<1> QED
    BY <1>4, <1>5, <1>6

LEMMA StartSteps ==
    ASSUME IInv, Start
    PROVE  IInv'
<1> USE DEF IInv, Start, environment
<1>1. TypeOK'
    BY DEF TypeOK
<1>2. LateIsFresh' /\ SeededFromCache'
    BY DEF LateIsFresh, SeededFromCache, TypeOK
<1>3. UptimeIsRemembered' /\ CacheFollows'
    BY DEF UptimeIsRemembered, CacheFollows
<1> QED
    BY <1>1, <1>2, <1>3

(* The entry goes on, or stops, with what it remembers as it is. *)
LEMMA OtherSteps ==
    ASSUME IInv, RefreshFails \/ ForwardPlatforms \/ Restart
    PROVE  IInv'
<1> USE DEF IInv
<1>1. /\ UNCHANGED <<dev, up, changes, cache, sig, faults, last, blip>>
      /\ \/ UNCHANGED <<snap, fresh>> /\ pc # "stopped" /\ pc' # "stopped"
         \/ snap' = {} /\ fresh' = FALSE /\ pc' = "stopped"
      /\ poll' \in {Idle, poll}
    BY DEF RefreshFails, ForwardPlatforms, Restart, environment, TypeOK, Over, Polling
<1>2. sig' = {Signature(s) : s \in cache'}
    BY <1>1 DEF TypeOK
<1>3. TypeOK'
    <2>1. CASE RefreshFails
        BY <1>2, <2>1 DEF RefreshFails, TypeOK, environment, Over, Polling
    <2>2. CASE ForwardPlatforms
        <3>1. snap # {} => The(snap).info \in Identities
            BY TheOne DEF TypeOK, Snapshot
        <3>2. page' \in Identities
            BY <2>2, <3>1 DEF ForwardPlatforms, Identities
        <3>3. entities' # {} => snap # {}
            BY <2>2 DEF ForwardPlatforms, Created
        <3> QED
            BY <1>2, <2>2, <3>2, <3>3 DEF ForwardPlatforms, TypeOK, environment
    <2>3. CASE Restart
        <3>1. {} \in AtMostOne(Snapshot)
            BY SingleOrNone
        <3>2. restarts' \in 0 .. MaxRestarts
            BY <2>3, BoundsTyped DEF Restart, TypeOK
        <3> QED
            BY <1>2, <2>3, <3>1, <3>2 DEF Restart, TypeOK, environment, Identities
    <2> QED
        BY <2>1, <2>2, <2>3
<1>4. LateIsFresh'
    BY <1>1 DEF LateIsFresh, RefreshFails, ForwardPlatforms, Restart, Over
<1>5. SeededFromCache'
    BY <1>1 DEF SeededFromCache
<1>6. UptimeIsRemembered' /\ CacheFollows'
    BY <1>1 DEF UptimeIsRemembered, CacheFollows
<1> QED
    BY <1>3, <1>4, <1>5, <1>6

LEMMA RelaySteps ==
    ASSUME IInv, PublishState
    PROVE  IInv'
<1> USE DEF IInv
<1> DEFINE new == [The(snap) EXCEPT !.state = poll.state]
<1>1. /\ poll # Idle /\ ~poll.full /\ fresh
      /\ Published(new)
      /\ UNCHANGED <<dev, up, changes, cache, sig, entities, faults, restarts, last, blip>>
    BY DEF PublishState, environment, LateIsFresh
<1>2. snap # {} /\ The(snap) \in Snapshot /\ snap = {The(snap)} /\ poll.state \in State
    BY <1>1, TheOne DEF TypeOK
<1>3. new \in Snapshot /\ new.uptime = The(snap).uptime
    BY <1>2 DEF Snapshot
<1> HIDE DEF new
<1>4. snap' = {new} /\ fresh' = TRUE /\ poll' = Idle /\ pc' = Over
    BY <1>1, <1>2 DEF Published
<1>5. TypeOK'
    <2>1. snap' \in AtMostOne(Snapshot)
        BY <1>3, <1>4, SingleOrNone
    <2>2. page' \in Identities
        BY <1>1, <1>3 DEF Published, TypeOK, Snapshot
    <2>3. sig' = {Signature(s) : s \in cache'}
        BY <1>1 DEF TypeOK
    <2> QED
        BY <1>1, <1>4, <2>1, <2>2, <2>3 DEF TypeOK, Over
<1>6. UptimeIsRemembered'
    BY <1>1, <1>2, <1>3, <1>4 DEF UptimeIsRemembered
<1>7. LateIsFresh' /\ SeededFromCache' /\ CacheFollows'
    BY <1>1, <1>4 DEF LateIsFresh, SeededFromCache, CacheFollows
<1> QED
    BY <1>5, <1>6, <1>7

LEMMA StepKeeps == IInv /\ [Next]_vars => IInv'
<1> SUFFICES ASSUME IInv, [Next]_vars PROVE IInv'
    OBVIOUS
<1>1. CASE UNCHANGED vars
    <2>1. sig' = {Signature(s) : s \in cache'}
        BY <1>1 DEF vars, IInv, TypeOK
    <2> QED
        BY <1>1, <2>1 DEF vars, IInv, TypeOK, LateIsFresh, SeededFromCache,
                          UptimeIsRemembered, CacheFollows
<1> QED
    BY <1>1, QuietSteps, StartSteps, OtherSteps, RelaySteps, FullSteps DEF Next

LEMMA Invariant == Spec => []IInv
BY InitEstablishes, StepKeeps, PTL DEF Spec

-----------------------------------------------------------------------------
(* The state keeps its type: above all _cached_signature is the signature
   of what is stored, through every restart (coordinator.py:543-545, 767-789). *)
THEOREM TypeCorrect == Spec => []TypeOK
<1>1. IInv => TypeOK
    BY DEF IInv
<1> QED
    BY Invariant, <1>1, PTL

(* Whatever a device turned into, and whichever reads failed, an entry set
   up while it is away has what the last full answer called for
   (coordinator.py:293-322, 743-789). *)
THEOREM OfflineStartsAreComplete == Spec => []OfflineStartHasEntities
<1>1. IInv => OfflineStartHasEntities
    <2> SUFFICES ASSUME IInv, pc = "forwarding", ~fresh, last # {}
                 PROVE  /\ snap # {}
                        /\ blip => <<"uptime", 0>> \in Created
                        /\ ~blip => /\ The(snap).info = The(last).info
                                    /\ Legible(The(snap)) /\ Legible(The(last))
                                         => Created = Entities(The(last))
        BY DEF OfflineStartHasEntities
    <2>1. snap = cache
        BY DEF IInv, SeededFromCache
    <2>2. The(last) \in last
        BY TheOne DEF IInv, TypeOK
    <2>3. PICK c \in cache : IF blip THEN c.uptime ELSE Signature(c) = Signature(The(last))
        BY <2>2 DEF IInv, CacheFollows
    <2>4. snap = {c} /\ The(snap) = c
        BY <2>1, <2>3, TheOne DEF IInv, TypeOK
    <2>5. Created = Entities(c)
        BY <2>4 DEF Created
    <2>6. c.uptime => <<"uptime", 0>> \in Entities(c)
        BY DEF Entities, Sensors
    <2> QED
        BY <2>3, <2>4, <2>5, <2>6, SignatureDecidesEntities
<1> QED
    BY Invariant, <1>1, PTL
=============================================================================
