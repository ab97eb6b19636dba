----------------------- MODULE EntryLifecycle_proofs -----------------------
(***************************************************************************)
(* The two promises of the callback receiver, kept through any life of an  *)
(* entry: setups, unloads, reloads, removals and restarts at any moment,   *)
(* for any number of presses, any debounce and any time a device goes on   *)
(* retrying that is shorter.  And the lives themselves: one generation at  *)
(* a time, and a removal that leaves nothing behind.                       *)
(***************************************************************************)
EXTENDS EntryLifecycle, FiniteSetTheorems, WellFoundedInduction, TLAPS

(* A press that was heard and is still being retried was heard after it
   was made, and nothing has pushed its event further into the past. *)
HeardIsRecent ==
    \A p \in Presses :
        heard[p] = 1 /\ press[p].pc = "calling" => last[EventOf[p]] <= press[p].age

(* Only a dispatch restarts the debounce. *)
LastIsQuiet == last = quiet

RInv == ReceiverTypeOK /\ NoPressIsHeardTwice /\ HeardIsRecent /\ LastIsQuiet

(* What a step of an entry is to the receiver. *)
ReceiverStep ==
    \/ Register \/ Unregister \/ TimePasses
    \/ \E p \in Presses : \/ Press(p) \/ Lost(p)
                          \/ \E loaded \in BOOLEAN : Callback(p, loaded)

-----------------------------------------------------------------------------
LEMMA ConstantsTyped ==
    /\ \A p \in Presses : EventOf[p] \in Events
    /\ Debounce \in Nat \ {0} /\ RetryFor \in Nat /\ RetryFor < Debounce
BY CallbackReceiverAssumption DEF CallbackReceiverAssumption

LEMMA InitEstablishes == Init => RInv
<1> SUFFICES ASSUME Init PROVE RInv
    OBVIOUS
<1> USE DEF Init, ReceiverInit, LongAgo
<1>1. ReceiverTypeOK
    <2>1. last \in [Events -> 0 .. Debounce] /\ quiet \in [Events -> 0 .. Debounce]
        BY ConstantsTyped
    <2>2. heard \in [Presses -> Nat] /\ press \in [Presses -> Pressed \cup {Silent}]
        OBVIOUS
    <2> QED
        BY <2>1, <2>2 DEF ReceiverTypeOK
<1>2. NoPressIsHeardTwice /\ HeardIsRecent /\ LastIsQuiet
    BY DEF NoPressIsHeardTwice, HeardIsRecent, LastIsQuiet
<1> QED
    BY <1>1, <1>2 DEF RInv

(* The receiver sees no more of an entry than its token and runtime data. *)
LEMMA EntryStepsAreReceiverSteps == [Next]_vars => [ReceiverStep]_receiver
<1> SUFFICES ASSUME [Next]_vars PROVE [ReceiverStep]_receiver
    OBVIOUS
<1>1. CASE EntryStep
    <2>1. CASE BeginSetup
        BY <2>1 DEF BeginSetup, ReceiverStep
    <2>2. CASE FirstRefresh
        BY <2>2 DEF FirstRefresh
    <2>3. CASE FinishSetup
        BY <2>3 DEF FinishSetup
    <2>4. CASE BeginUnload
        BY <2>4 DEF BeginUnload
    <2>5. CASE Unloaded
        BY <2>5 DEF Unloaded, ReceiverStep
    <2>6. CASE EndUnload
        BY <2>6 DEF EndUnload
    <2>7. CASE RemoveUnloaded
        BY <2>7 DEF RemoveUnloaded
    <2>8. CASE Removed
        BY <2>8 DEF Removed
    <2> QED
        BY <1>1, <2>1, <2>2, <2>3, <2>4, <2>5, <2>6, <2>7, <2>8 DEF EntryStep
<1>2. CASE WaitTimesOut
    BY <1>2 DEF WaitTimesOut
<1>3. CASE \E new \in Options : SaveOptions(new)
    BY <1>3 DEF SaveOptions
<1>4. CASE PollAnswered("poll") \/ PollAnswered("service")
    BY <1>4 DEF PollAnswered
<1>5. CASE \E k \in Kinds : RunStep(k)
    BY <1>5 DEF RunStep, Read, Post, RunFails
<1>6. CASE AskRemoval
    BY <1>6 DEF AskRemoval
<1>7. CASE Restart
    BY <1>7 DEF Restart, ReceiverStep
<1>8. CASE GoesAway \/ ComesBack
    BY <1>8 DEF GoesAway, ComesBack
<1>9. CASE Calls
    <2>1. Loaded \in BOOLEAN
        BY DEF Loaded
    <2> QED
        BY <1>9, <2>1 DEF Calls, ReceiverStep
<1>10. CASE UNCHANGED vars
    BY <1>10 DEF vars
<1> QED
    BY <1>1, <1>2, <1>3, <1>4, <1>5, <1>6, <1>7, <1>8, <1>9, <1>10 DEF Next

-----------------------------------------------------------------------------
LEMMA ServedKeeps ==
    ASSUME ReceiverTypeOK, NEW p \in Presses, p \in Calling, Served(p)
    PROVE  /\ press' \in [Presses -> Pressed \cup {Silent}]
           /\ \A q \in Presses : press'[q].pc = "calling" => press'[q] = press[q]
BY DEF ReceiverTypeOK, Served, Pressed, Silent, Calling

LEMMA DispatchKeeps ==
    ASSUME RInv, NEW p \in Presses, NEW loaded \in BOOLEAN, Dispatched(p, loaded)
    PROVE  RInv'
<1> USE DEF RInv
<1>1. /\ p \in Calling /\ Served(p) /\ ~Duplicate(EventOf[p])
      /\ last' = [last EXCEPT ![EventOf[p]] = 0]
      /\ quiet' = [quiet EXCEPT ![EventOf[p]] = 0]
      /\ heard' = [heard EXCEPT ![p] = @ + 1]
      /\ token' = token
    BY DEF Dispatched
<1>2. heard[p] = 0
    (* Heard once, its event would be younger than the debounce. *)
    <2>1. heard[p] \in Nat /\ heard[p] <= 1 /\ press[p].pc = "calling"
        BY <1>1 DEF ReceiverTypeOK, NoPressIsHeardTwice, Calling
    <2>2. SUFFICES ASSUME heard[p] = 1 PROVE FALSE
        BY <2>1
    <2>3. press[p] \in Pressed
        BY <2>1 DEF ReceiverTypeOK, Silent
    <2>4. last[EventOf[p]] <= press[p].age /\ press[p].age \in 0 .. RetryFor
        BY <2>1, <2>2, <2>3 DEF HeardIsRecent, Pressed
    <2>5. last[EventOf[p]] \in Nat /\ ~(last[EventOf[p]] < Debounce)
        BY <1>1, ConstantsTyped DEF Duplicate, ReceiverTypeOK
    <2> QED
        BY <2>4, <2>5, ConstantsTyped
<1>3. ReceiverTypeOK'
    <2>1. press' \in [Presses -> Pressed \cup {Silent}]
        BY <1>1, ServedKeeps
    <2>2. last' \in [Events -> 0 .. Debounce] /\ quiet' \in [Events -> 0 .. Debounce]
        BY <1>1, ConstantsTyped DEF ReceiverTypeOK
    <2>3. heard' \in [Presses -> Nat]
        BY <1>1 DEF ReceiverTypeOK
    <2> QED
        BY <1>1, <2>1, <2>2, <2>3 DEF ReceiverTypeOK
<1>4. NoPressIsHeardTwice'
    BY <1>1, <1>2 DEF NoPressIsHeardTwice, ReceiverTypeOK
<1>5. HeardIsRecent'
    <2> SUFFICES ASSUME NEW q \in Presses, heard'[q] = 1, press'[q].pc = "calling"
                 PROVE  last'[EventOf[q]] <= press'[q].age
        BY DEF HeardIsRecent
    <2>1. press'[q] = press[q]
        BY <1>1, ServedKeeps
    <2>2. press[q].age \in Nat
        BY <2>1, ConstantsTyped DEF ReceiverTypeOK, Pressed, Silent
    <2>3. CASE EventOf[q] = EventOf[p]
        BY <1>1, <2>1, <2>2, <2>3, ConstantsTyped DEF ReceiverTypeOK
    <2>4. CASE EventOf[q] # EventOf[p]
        <3>1. heard[q] = 1 /\ press[q].pc = "calling"
            BY <1>1, <2>1, <2>4 DEF ReceiverTypeOK
        <3>2. last'[EventOf[q]] = last[EventOf[q]]
            BY <1>1, <2>4, ConstantsTyped DEF ReceiverTypeOK
        <3> QED
            BY <2>1, <3>1, <3>2 DEF HeardIsRecent
    <2> QED
        BY <2>3, <2>4
<1>6. LastIsQuiet'
    BY <1>1 DEF LastIsQuiet
<1> QED
    BY <1>3, <1>4, <1>5, <1>6

LEMMA TimeKeeps == RInv /\ TimePasses => RInv'
<1> SUFFICES ASSUME RInv, TimePasses PROVE RInv'
    OBVIOUS
<1> USE DEF RInv
<1>1. ReceiverTypeOK'
    <2>1. last' \in [Events -> 0 .. Debounce] /\ quiet' \in [Events -> 0 .. Debounce]
        BY ConstantsTyped DEF TimePasses, ReceiverTypeOK
    <2>2. press' \in [Presses -> Pressed \cup {Silent}]
        BY ConstantsTyped DEF TimePasses, ReceiverTypeOK, Calling, Pressed, Silent
    <2> QED
        BY <2>1, <2>2 DEF TimePasses, ReceiverTypeOK
<1>2. NoPressIsHeardTwice'
    BY DEF TimePasses, NoPressIsHeardTwice
<1>3. HeardIsRecent'
    <2> SUFFICES ASSUME NEW q \in Presses, heard'[q] = 1, press'[q].pc = "calling"
                 PROVE  last'[EventOf[q]] <= press'[q].age
        BY DEF HeardIsRecent
    <2>1. q \in Calling /\ heard[q] = 1 /\ press[q].pc = "calling"
        BY DEF TimePasses, Calling, ReceiverTypeOK
    <2>2. press[q] \in Pressed
        BY <2>1 DEF ReceiverTypeOK, Silent
    <2>3. press'[q].age = press[q].age + 1 /\ press[q].age \in Nat
        BY <2>1, <2>2, ConstantsTyped DEF TimePasses, Pressed
    <2>4. last[EventOf[q]] \in Nat /\ last[EventOf[q]] <= press[q].age
        BY <2>1, ConstantsTyped DEF HeardIsRecent, ReceiverTypeOK
    <2>5. last'[EventOf[q]] <= last[EventOf[q]] + 1
        BY <2>4, ConstantsTyped DEF TimePasses
    <2>6. last'[EventOf[q]] \in Nat
        BY <1>1, ConstantsTyped DEF ReceiverTypeOK
    <2> QED
        BY <2>3, <2>4, <2>5, <2>6
<1>4. LastIsQuiet'
    BY DEF TimePasses, LastIsQuiet
<1> QED
    BY <1>1, <1>2, <1>3, <1>4

LEMMA StepKeeps == RInv /\ [ReceiverStep]_receiver => RInv'
<1> SUFFICES ASSUME RInv, [ReceiverStep]_receiver PROVE RInv'
    OBVIOUS
<1>1. CASE Register
    <2>1. ReceiverTypeOK'
        BY <1>1, ConstantsTyped DEF Register, LongAgo, ReceiverTypeOK, RInv
    <2> QED
        BY <1>1, <2>1 DEF Register, LongAgo, RInv, NoPressIsHeardTwice, HeardIsRecent,
                          LastIsQuiet
<1>2. CASE Unregister
    BY <1>2 DEF Unregister, RInv, ReceiverTypeOK, NoPressIsHeardTwice, HeardIsRecent,
                LastIsQuiet
<1>3. CASE TimePasses
    BY <1>3, TimeKeeps
<1>4. ASSUME NEW p \in Presses, Press(p) PROVE RInv'
    <2>1. ReceiverTypeOK'
        BY <1>4, ConstantsTyped DEF Press, RInv, ReceiverTypeOK, Pressed
    <2>2. NoPressIsHeardTwice' /\ LastIsQuiet'
        BY <1>4 DEF Press, RInv, ReceiverTypeOK, NoPressIsHeardTwice, LastIsQuiet
    <2>3. HeardIsRecent'
        BY <1>4 DEF Press, RInv, ReceiverTypeOK, HeardIsRecent
    <2> QED
        BY <2>1, <2>2, <2>3 DEF RInv
<1>5. ASSUME NEW p \in Presses, Lost(p) PROVE RInv'
    BY <1>5 DEF Lost, RInv, ReceiverTypeOK, NoPressIsHeardTwice, HeardIsRecent,
                LastIsQuiet, Silent
<1>6. ASSUME NEW p \in Presses, NEW loaded \in BOOLEAN, Callback(p, loaded) PROVE RInv'
    <2>1. ASSUME Rejected(p, loaded) \/ Absorbed(p, loaded) PROVE RInv'
        <3>1. p \in Calling /\ Served(p) /\ UNCHANGED <<token, last, heard, quiet>>
            BY <2>1 DEF Rejected, Absorbed
        <3>2. /\ press' \in [Presses -> Pressed \cup {Silent}]
              /\ \A q \in Presses : press'[q].pc = "calling" => press'[q] = press[q]
            BY <3>1, ServedKeeps DEF RInv
        <3> QED
            BY <3>1, <3>2 DEF RInv, ReceiverTypeOK, NoPressIsHeardTwice, HeardIsRecent,
                              LastIsQuiet
    <2> QED
        BY <1>6, <2>1, DispatchKeeps DEF Callback
<1>7. CASE UNCHANGED receiver
    BY <1>7 DEF receiver, RInv, ReceiverTypeOK, NoPressIsHeardTwice, HeardIsRecent,
                LastIsQuiet
<1> QED
    BY <1>1, <1>2, <1>3, <1>4, <1>5, <1>6, <1>7 DEF ReceiverStep

LEMMA ReceiverInvariant == Spec => []RInv
<1>1. RInv /\ [Next]_vars => RInv'
    BY EntryStepsAreReceiverSteps, StepKeeps
<1> QED
    BY InitEstablishes, <1>1, PTL DEF Spec

-----------------------------------------------------------------------------
(* Whatever becomes of the entry, and however often the device retries a
   callback, one generation of it dispatches a press at most once: what the
   debounce of api.py:293-308 is for. *)
THEOREM EveryPressIsHeardOnce == Spec => []NoPressIsHeardTwice
<1>1. RInv => NoPressIsHeardTwice
    BY DEF RInv
<1> QED
    BY ReceiverInvariant, <1>1, PTL

(* A callback is only absorbed within the debounce of a press that was
   dispatched: absorbed retries do not add up to swallow a real press
   (api.py:293-308). *)
THEOREM RetriesDoNotSwallow == Spec => OnlyAPressSwallowsAPress
<1> DEFINE Fair == \A p \in Presses : Absorbed(p, TRUE) => quiet[EventOf[p]] < Debounce
<1>1. RInv => Fair
    BY DEF RInv, LastIsQuiet, Absorbed, Duplicate
<1>2. RInv /\ [Next]_vars => [Fair]_receiver
    BY <1>1
<1> QED
    BY ReceiverInvariant, <1>2, PTL DEF Spec, OnlyAPressSwallowsAPress

-----------------------------------------------------------------------------
(* What holds of a life of an entry at every step. *)

Generation == [options : Options, known : BOOLEAN]

(* The three shapes of a run. *)
Begun == [pc : {"begun"}, wanted : SUBSET Events]
Writers == [pc : {"writing"}, writes : Writes]
Runs == {NoRun} \cup Begun \cup Writers

(* At most one generation is alive, from its setup to the end of its
   unload, and what it says of the device is what is remembered. *)
OneGeneration ==
    /\ runtime = {} \/ \E data \in Generation : runtime = {data}
    /\ pc \in {"refreshing", "forwarding", "loaded", "unloading", "waiting"}
        => runtime # {}
    /\ pc = "waiting" => ~token
    /\ watching => ~remembered /\ \A data \in runtime : ~data.known
    /\ pc = "refreshing" /\ remembered => \A data \in runtime : data.known
    /\ entities => pc \in {"loaded", "unloading"}

(* Each reload that waits was asked for by options that were saved, but for
   the one that the first answer of the device asks for. *)
ReloadsHaveReasons == reloads <= saves + (IF remembered THEN 1 ELSE 0)

(* A run belongs to a live generation, is left over or is the removal's. *)
RunsHaveOwners ==
    /\ \A k \in Kinds : run[k].pc = "writing" => DOMAIN run[k].writes # {}
    /\ run["removal"] # NoRun => pc = "removing"
    /\ pc = "waiting" => run["poll"] = NoRun
    /\ pc \in {"unloaded", "removing", "removed"}
        => \A k \in {"setup", "poll", "service"} : run[k] = NoRun

(* The removal has still to read the device, or has yet to clear each slot
   that holds one of our callbacks, or there is none. *)
Erasing ==
    LET removal == run["removal"] IN
        \/ removal.pc = "begun"
        \/ /\ removal.pc = "writing"
           /\ Owned \subseteq DOMAIN removal.writes
           /\ \A s \in DOMAIN removal.writes : removal.writes[s] = Free
        \/ removal = NoRun /\ Owned = {}

RemovalGoesOn ==
    pc \in {"removing", "removed"} /\ options.cleanup /\ ~disturbed
        => run["left over"] = NoRun /\ Erasing

(* The types, each variable by itself. *)
StagesTyped ==
    /\ pc \in {"unloaded", "refreshing", "forwarding", "loaded", "unloading",
               "waiting", "removing", "removed"}
    /\ goal \in {"reload", "remove"}
    /\ options \in Options
    /\ reloads \in Nat
    /\ saves \in 0 .. MaxSaves /\ faults \in 0 .. MaxFaults
    /\ restarts \in 0 .. MaxRestarts

FlagsTyped ==
    /\ up \in BOOLEAN /\ remembered \in BOOLEAN /\ removing \in BOOLEAN
    /\ listening \in BOOLEAN /\ watching \in BOOLEAN /\ entities \in BOOLEAN
    /\ missed \in BOOLEAN /\ disturbed \in BOOLEAN

DeviceTyped == slots \in [Slots -> Contents] /\ run \in [Kinds -> Runs]

RegisteredWhileAlive ==
    /\ token => runtime # {}
    /\ listening => pc \in {"loaded", "unloading"}
    /\ watching => pc \in {"forwarding", "loaded", "unloading"} /\ ~entities
    /\ pc \in {"unloaded", "removing", "removed"} => runtime = {}

Typed == StagesTyped /\ FlagsTyped /\ DeviceTyped /\ RegisteredWhileAlive

LifeInv ==
    /\ Typed /\ OneGeneration /\ ReloadsHaveReasons
    /\ RunsHaveOwners /\ RemovalGoesOn

-----------------------------------------------------------------------------
LEMMA EntryConstants ==
    /\ Free \notin Events /\ Slots \subseteq Nat
    /\ Options \subseteq [auto : BOOLEAN, wanted : SUBSET Events, cleanup : BOOLEAN]
    /\ MaxSaves \in Nat /\ MaxFaults \in Nat /\ MaxRestarts \in Nat
BY EntryLifecycleAssumption DEF EntryLifecycleAssumption

(* What CHOOSE finds, where there is a least element to find. *)
LEMMA MinIsMember ==
    ASSUME NEW S \in SUBSET Nat, S # {}
    PROVE  Min(S) \in S
<1>1. PICK x \in S : \A y \in S : ~(<<y, x>> \in OpToRel(<, Nat))
    BY NatLessThanWellFounded, WFMin, Zenon
<1>2. \A y \in S : x <= y
    <2> SUFFICES ASSUME NEW y \in S PROVE x <= y
        OBVIOUS
    <2>1. ~(y < x)
        BY <1>1 DEF OpToRel
    <2> QED
        BY <2>1
<1> QED
    BY <1>2 DEF Min

LEMMA DataIsTheGeneration ==
    ASSUME OneGeneration, runtime # {}
    PROVE  runtime = {Data} /\ Data \in Generation
BY DEF OneGeneration, Data

LEMMA AtMostOne ==
    ASSUME NEW G, NEW S, S = {} \/ \E x \in G : S = {x}
    PROVE  Cardinality(S) <= 1 /\ S \subseteq G
<1>1. CASE S = {}
    BY <1>1, FS_EmptySet
<1>2. ASSUME NEW x \in G, S = {x} PROVE Cardinality(S) <= 1 /\ S \subseteq G
    BY <1>2, FS_Singleton
<1> QED
    BY <1>1, <1>2

LEMMA ShapesOfARun ==
    ASSUME NEW r \in Runs
    PROVE  /\ r.pc = "none" <=> r = NoRun
           /\ r.pc = "begun" => r \in Begun
           /\ r.pc = "writing" => r.writes \in Writes
           /\ r.pc \in {"none", "begun", "writing"}
BY DEF Runs, Begun, Writers, NoRun

LEMMA ProvisionTyped ==
    ASSUME NEW data \in Generation
    PROVE  Provision(data) \in {NoRun} \cup Begun
BY EntryConstants DEF Provision, Generation, Begun

LEMMA WritingTyped ==
    ASSUME NEW w \in Writes
    PROVE  /\ Writing(w) \in Runs
           /\ Writing(w).pc = "writing"
                => DOMAIN w # {} /\ Writing(w) = [pc |-> "writing", writes |-> w]
           /\ Writing(w).pc # "writing" => Writing(w) = NoRun /\ DOMAIN w = {}
BY DEF Writing, Runs, Writers, NoRun

LEMMA PlansAreWrites ==
    ASSUME NEW k, NEW wanted \in SUBSET Events, NEW plan \in PlansOf(k, wanted)
    PROVE  plan \in Writes
<1>1. CASE k = "removal"
    <2>1. plan = [s \in Owned |-> Free] /\ Owned \in SUBSET Slots
        BY <1>1 DEF PlansOf, Owned
    <2>2. plan \in [Owned -> Contents]
        BY <2>1 DEF Contents
    <2> QED
        BY <2>1, <2>2 DEF Writes
<1>2. CASE k # "removal"
    <2> DEFINE absent == wanted \ Present
               keepers == {Min({s \in Owned : slots[s] = e}) : e \in wanted \cap Present}
               S == Owned \ keepers
               Rank(s) == IF s \in Owned THEN <<1, s>> ELSE <<0, s>>
               Earlier(s, t) ==
                    Rank(s)[1] < Rank(t)[1] \/ (Rank(s)[1] = Rank(t)[1] /\ s < t)
               pool == S \cup (Slots \ Owned)
               T == {s \in pool :
                        Cardinality({t \in pool : Earlier(t, s)}) < Cardinality(absent)}
    <2>1. plan \in {[s \in T \cup S |-> IF s \in T THEN f[s] ELSE Free] :
                        f \in Bijection(T, absent)}
        BY <1>2 DEF PlansOf, Plans
    <2>2. S \subseteq Slots /\ T \subseteq Slots /\ absent \subseteq Events
        BY DEF Owned
    <2> HIDE DEF S, T, absent
    <2>3. PICK f \in [T -> absent] :
            plan = [s \in T \cup S |-> IF s \in T THEN f[s] ELSE Free]
        BY <2>1 DEF Bijection, Injection
    <2>4. plan \in [T \cup S -> Contents] /\ T \cup S \in SUBSET Slots
        BY <2>2, <2>3 DEF Contents
    <2> QED
        BY <2>4 DEF Writes
<1> QED
    BY <1>1, <1>2

LEMMA LifeIsTyped == LifeInv /\ ReceiverTypeOK => TypeOK
<1> SUFFICES ASSUME LifeInv, ReceiverTypeOK PROVE TypeOK
    OBVIOUS
<1>1. Cardinality(runtime) <= 1 /\ runtime \subseteq [options : Options, known : BOOLEAN]
    BY AtMostOne DEF LifeInv, OneGeneration, Generation
<1>2. reloads \in 0 .. MaxSaves + 1
    <2>1. reloads \in Nat /\ saves \in Nat /\ saves <= MaxSaves
        BY EntryConstants DEF LifeInv, Typed, StagesTyped
    <2>2. reloads <= saves \/ reloads <= saves + 1
        BY <2>1 DEF LifeInv, ReloadsHaveReasons
    <2> QED
        BY <2>1, <2>2, EntryConstants
<1>3. run \in [Kinds -> {NoRun} \cup [pc : {"begun"}, wanted : SUBSET Events]
                         \cup [pc : {"writing"}, writes : Writes]]
    BY DEF LifeInv, Typed, DeviceTyped, Runs, Begun, Writers
<1>4. {up, remembered, removing, listening, watching, entities, missed,
        disturbed} \subseteq BOOLEAN
    BY DEF LifeInv, Typed, FlagsTyped
<1> QED
    BY <1>1, <1>2, <1>3, <1>4
    DEF TypeOK, LifeInv, Typed, StagesTyped, DeviceTyped, RegisteredWhileAlive

LEMMA LifeStarts == Init => LifeInv
<1> SUFFICES ASSUME Init PROVE LifeInv
    OBVIOUS
<1> USE DEF Init
<1>1. StagesTyped /\ FlagsTyped
    <2>1. 0 \in 0 .. MaxSaves /\ 0 \in 0 .. MaxFaults /\ 0 \in 0 .. MaxRestarts
        BY EntryConstants
    <2>2. StagesTyped
        BY <2>1 DEF StagesTyped
    <2> QED
        BY <2>2 DEF FlagsTyped
<1>2. DeviceTyped
    BY DEF DeviceTyped, Contents, Runs
<1>3. RegisteredWhileAlive
    BY DEF RegisteredWhileAlive, ReceiverInit
<1>4. OneGeneration /\ ReloadsHaveReasons /\ RemovalGoesOn
    BY DEF OneGeneration, ReloadsHaveReasons, RemovalGoesOn
<1>5. RunsHaveOwners
    BY DEF RunsHaveOwners, Kinds, NoRun
<1> QED
    BY <1>1, <1>2, <1>3, <1>4, <1>5 DEF LifeInv, Typed

LEMMA BeginSetupLives == LifeInv /\ BeginSetup => LifeInv'
<1> SUFFICES ASSUME LifeInv, BeginSetup PROVE LifeInv'
    OBVIOUS
<1> USE DEF LifeInv, Typed, BeginSetup
<1>1. StagesTyped'
    BY DEF StagesTyped
<1>2. FlagsTyped'
    BY DEF FlagsTyped
<1>3. DeviceTyped'
    BY DEF DeviceTyped
<1>4. RegisteredWhileAlive'
    BY DEF RegisteredWhileAlive, Register
<1>5. OneGeneration'
    BY DEF StagesTyped, FlagsTyped, RegisteredWhileAlive, OneGeneration, Generation,
           Register
<1>6. ReloadsHaveReasons'
    BY DEF ReloadsHaveReasons
<1>7. RunsHaveOwners'
    BY DEF RunsHaveOwners
<1>8. RemovalGoesOn'
    BY DEF RemovalGoesOn
<1> QED
    BY <1>1, <1>2, <1>3, <1>4, <1>5, <1>6, <1>7, <1>8

LEMMA FirstRefreshLives == LifeInv /\ FirstRefresh => LifeInv'
<1> SUFFICES ASSUME LifeInv, FirstRefresh PROVE LifeInv'
    OBVIOUS
<1> USE DEF LifeInv, Typed, FirstRefresh, receiver
<1> DEFINE known == up \/ Data.known
<1>1. runtime = {Data} /\ Data \in Generation /\ known \in BOOLEAN
    BY DataIsTheGeneration DEF OneGeneration, FlagsTyped, Generation
<1>2. remembered => known
    BY <1>1 DEF OneGeneration
<1>3. /\ runtime' = {[Data EXCEPT !.known = known]} /\ remembered' = known
      /\ watching' = ~known /\ [Data EXCEPT !.known = known] \in Generation
    BY <1>1 DEF Watching, Generation
<1>4. run' = [run EXCEPT !["setup"] = Provision(Data)]
      /\ Provision(Data) \in {NoRun} \cup Begun
    BY <1>1, ProvisionTyped
<1> HIDE DEF known
<1>5. StagesTyped'
    BY DEF StagesTyped
<1>6. FlagsTyped'
    BY <1>1, <1>3 DEF FlagsTyped
<1>7. DeviceTyped'
    BY <1>4 DEF DeviceTyped, Runs, Kinds
<1>8. RegisteredWhileAlive'
    BY <1>3 DEF StagesTyped, RegisteredWhileAlive, OneGeneration
<1>9. OneGeneration'
    BY <1>1, <1>3 DEF OneGeneration, RegisteredWhileAlive, Generation
<1>10. ReloadsHaveReasons'
    BY <1>1, <1>2, <1>3 DEF StagesTyped, ReloadsHaveReasons, FlagsTyped
<1>11. RunsHaveOwners'
    BY <1>4 DEF DeviceTyped, RunsHaveOwners, NoRun, Begun, Kinds
<1>12. RemovalGoesOn'
    BY DEF RemovalGoesOn
<1> QED
    BY <1>5, <1>6, <1>7, <1>8, <1>9, <1>10, <1>11, <1>12

LEMMA FinishSetupLives == LifeInv /\ FinishSetup => LifeInv'
<1> SUFFICES ASSUME LifeInv, FinishSetup PROVE LifeInv'
    OBVIOUS
<1> USE DEF LifeInv, Typed, FinishSetup, receiver
<1>1. StagesTyped'
    BY DEF StagesTyped
<1>2. FlagsTyped'
    BY DataIsTheGeneration DEF FlagsTyped, OneGeneration, Generation
<1>3. DeviceTyped'
    BY DEF DeviceTyped
<1>4. RegisteredWhileAlive'
    BY DataIsTheGeneration DEF RegisteredWhileAlive, OneGeneration
<1>5. OneGeneration'
    BY DataIsTheGeneration DEF RegisteredWhileAlive, OneGeneration
<1>6. ReloadsHaveReasons'
    BY DEF ReloadsHaveReasons
<1>7. RunsHaveOwners'
    BY DEF RunsHaveOwners
<1>8. RemovalGoesOn'
    BY DEF RemovalGoesOn
<1> QED
    BY <1>1, <1>2, <1>3, <1>4, <1>5, <1>6, <1>7, <1>8

LEMMA BeginUnloadLives == LifeInv /\ BeginUnload => LifeInv'
<1> SUFFICES ASSUME LifeInv, BeginUnload PROVE LifeInv'
    OBVIOUS
<1> USE DEF LifeInv, Typed, BeginUnload, receiver
<1>1. StagesTyped'
    BY DEF StagesTyped
<1>2. FlagsTyped'
    BY DEF FlagsTyped
<1>3. DeviceTyped'
    BY DEF DeviceTyped
<1>4. RegisteredWhileAlive'
    BY DEF RegisteredWhileAlive
<1>5. OneGeneration'
    BY DEF RegisteredWhileAlive, OneGeneration
<1>6. ReloadsHaveReasons'
    BY DEF StagesTyped, ReloadsHaveReasons
<1>7. RunsHaveOwners'
    BY DEF RunsHaveOwners
<1>8. RemovalGoesOn'
    BY DEF RemovalGoesOn
<1> QED
    BY <1>1, <1>2, <1>3, <1>4, <1>5, <1>6, <1>7, <1>8

LEMMA UnloadedLives == LifeInv /\ Unloaded => LifeInv'
<1> SUFFICES ASSUME LifeInv, Unloaded PROVE LifeInv'
    OBVIOUS
<1> USE DEF LifeInv, Typed, Unloaded
<1>1. StagesTyped'
    BY DEF StagesTyped
<1>2. FlagsTyped'
    BY DEF FlagsTyped
<1>3. DeviceTyped'
    BY DEF DeviceTyped, Runs, Kinds
<1>4. RegisteredWhileAlive'
    BY DEF RegisteredWhileAlive, Unregister
<1>5. OneGeneration'
    BY DEF RegisteredWhileAlive, OneGeneration, Unregister
<1>6. ReloadsHaveReasons'
    BY DEF ReloadsHaveReasons
<1>7. RunsHaveOwners'
    BY DEF DeviceTyped, RunsHaveOwners, NoRun, Kinds
<1>8. RemovalGoesOn'
    BY DEF RemovalGoesOn, Kinds
<1> QED
    BY <1>1, <1>2, <1>3, <1>4, <1>5, <1>6, <1>7, <1>8

LEMMA EndUnloadLives == LifeInv /\ EndUnload => LifeInv'
<1> SUFFICES ASSUME LifeInv, EndUnload PROVE LifeInv'
    OBVIOUS
<1> USE DEF LifeInv, Typed, EndUnload, receiver
<1>1. StagesTyped'
    BY DEF StagesTyped, After
<1>2. FlagsTyped'
    BY DEF FlagsTyped
<1>3. DeviceTyped'
    BY DEF DeviceTyped, Runs, Begun, Kinds
<1>4. RegisteredWhileAlive'
    BY DEF RegisteredWhileAlive, OneGeneration, After
<1>5. OneGeneration'
    BY DEF RegisteredWhileAlive, OneGeneration, Generation, After
<1>6. ReloadsHaveReasons'
    BY DEF ReloadsHaveReasons
<1>7. RunsHaveOwners'
    BY DEF DeviceTyped, RunsHaveOwners, NoRun, Kinds, After
<1>8. RemovalGoesOn'
    BY DEF DeviceTyped, RemovalGoesOn, Erasing, After, TasksEnded, Kinds, NoRun
<1> QED
    BY <1>1, <1>2, <1>3, <1>4, <1>5, <1>6, <1>7, <1>8

LEMMA RemoveUnloadedLives == LifeInv /\ RemoveUnloaded => LifeInv'
<1> SUFFICES ASSUME LifeInv, RemoveUnloaded PROVE LifeInv'
    OBVIOUS
<1> USE DEF LifeInv, Typed, RemoveUnloaded, receiver
<1>1. StagesTyped'
    BY DEF StagesTyped
<1>2. FlagsTyped'
    BY DEF FlagsTyped
<1>3. DeviceTyped'
    BY DEF DeviceTyped, Runs, Begun, Kinds
<1>4. RegisteredWhileAlive'
    BY DEF RegisteredWhileAlive
<1>5. OneGeneration'
    BY DEF RegisteredWhileAlive, OneGeneration
<1>6. ReloadsHaveReasons'
    BY DEF ReloadsHaveReasons
<1>7. RunsHaveOwners'
    BY DEF DeviceTyped, RunsHaveOwners, NoRun, Kinds
<1>8. RemovalGoesOn'
    BY DEF DeviceTyped, RemovalGoesOn, Erasing, Kinds
<1> QED
    BY <1>1, <1>2, <1>3, <1>4, <1>5, <1>6, <1>7, <1>8

LEMMA RemovedLives == LifeInv /\ Removed => LifeInv'
<1> SUFFICES ASSUME LifeInv, Removed PROVE LifeInv'
    OBVIOUS
<1> USE DEF LifeInv, Typed, Removed, receiver
<1>1. StagesTyped'
    BY DEF StagesTyped
<1>2. FlagsTyped'
    BY DEF FlagsTyped
<1>3. DeviceTyped'
    BY DEF DeviceTyped
<1>4. RegisteredWhileAlive'
    BY DEF RegisteredWhileAlive
<1>5. OneGeneration'
    BY DEF RegisteredWhileAlive, OneGeneration
<1>6. ReloadsHaveReasons'
    BY DEF StagesTyped, ReloadsHaveReasons
<1>7. RunsHaveOwners'
    BY DEF RunsHaveOwners
<1>8. RemovalGoesOn'
    BY DEF DeviceTyped, RemovalGoesOn, Erasing, Owned
<1> QED
    BY <1>1, <1>2, <1>3, <1>4, <1>5, <1>6, <1>7, <1>8

LEMMA WaitTimesOutLives == LifeInv /\ WaitTimesOut => LifeInv'
<1> SUFFICES ASSUME LifeInv, WaitTimesOut PROVE LifeInv'
    OBVIOUS
<1> USE DEF LifeInv, Typed, WaitTimesOut, receiver
<1>1. StagesTyped'
    BY DEF StagesTyped, After
<1>2. FlagsTyped'
    BY DEF FlagsTyped
<1>3. DeviceTyped'
    BY DEF DeviceTyped, Runs, Begun, Kinds
<1>4. RegisteredWhileAlive'
    BY DEF RegisteredWhileAlive, OneGeneration, After
<1>5. OneGeneration'
    BY DEF RegisteredWhileAlive, OneGeneration, Generation, After
<1>6. ReloadsHaveReasons'
    BY DEF ReloadsHaveReasons
<1>7. RunsHaveOwners'
    BY DEF DeviceTyped, RunsHaveOwners, NoRun, Kinds, After
<1>8. RemovalGoesOn'
    BY DEF DeviceTyped, RemovalGoesOn, Erasing, After, Kinds
<1> QED
    BY <1>1, <1>2, <1>3, <1>4, <1>5, <1>6, <1>7, <1>8

LEMMA AskRemovalLives == LifeInv /\ AskRemoval => LifeInv'
<1> SUFFICES ASSUME LifeInv, AskRemoval PROVE LifeInv'
    OBVIOUS
<1> USE DEF LifeInv, Typed, AskRemoval, receiver
<1>1. StagesTyped'
    BY DEF StagesTyped
<1>2. FlagsTyped'
    BY DEF FlagsTyped
<1>3. DeviceTyped'
    BY DEF DeviceTyped
<1>4. RegisteredWhileAlive'
    BY DEF RegisteredWhileAlive
<1>5. OneGeneration'
    BY DEF OneGeneration
<1>6. ReloadsHaveReasons'
    BY DEF ReloadsHaveReasons
<1>7. RunsHaveOwners'
    BY DEF RunsHaveOwners
<1>8. RemovalGoesOn'
    BY DEF RemovalGoesOn, Erasing, Owned
<1> QED
    BY <1>1, <1>2, <1>3, <1>4, <1>5, <1>6, <1>7, <1>8

LEMMA RestartLives == LifeInv /\ Restart => LifeInv'
<1> SUFFICES ASSUME LifeInv, Restart PROVE LifeInv'
    OBVIOUS
<1> USE DEF LifeInv, Typed, Restart
<1>1. StagesTyped'
    BY EntryConstants DEF StagesTyped
<1>2. FlagsTyped'
    BY DEF FlagsTyped
<1>3. DeviceTyped'
    BY DEF DeviceTyped, Runs, Kinds
<1>4. RegisteredWhileAlive'
    BY DEF RegisteredWhileAlive, Unregister
<1>5. OneGeneration'
    BY DEF RegisteredWhileAlive, OneGeneration, Generation, Unregister
<1>6. ReloadsHaveReasons'
    BY DEF StagesTyped, ReloadsHaveReasons
<1>7. RunsHaveOwners'
    BY DEF DeviceTyped, RunsHaveOwners, NoRun, Kinds
<1>8. RemovalGoesOn'
    BY DEF RemovalGoesOn, Erasing, Owned, Kinds
<1> QED
    BY <1>1, <1>2, <1>3, <1>4, <1>5, <1>6, <1>7, <1>8

LEMMA GoesAwayLives == LifeInv /\ GoesAway => LifeInv'
<1> SUFFICES ASSUME LifeInv, GoesAway PROVE LifeInv'
    OBVIOUS
<1> USE DEF LifeInv, Typed, GoesAway, receiver
<1>1. StagesTyped'
    BY EntryConstants DEF StagesTyped
<1>2. FlagsTyped'
    BY DEF FlagsTyped
<1>3. DeviceTyped'
    BY DEF DeviceTyped
<1>4. RegisteredWhileAlive'
    BY DEF RegisteredWhileAlive
<1>5. OneGeneration'
    BY DEF OneGeneration
<1>6. ReloadsHaveReasons'
    BY DEF ReloadsHaveReasons
<1>7. RunsHaveOwners'
    BY DEF RunsHaveOwners
<1>8. RemovalGoesOn'
    BY DEF RemovalGoesOn, Erasing, Owned
<1> QED
    BY <1>1, <1>2, <1>3, <1>4, <1>5, <1>6, <1>7, <1>8

LEMMA ComesBackLives == LifeInv /\ ComesBack => LifeInv'
<1> SUFFICES ASSUME LifeInv, ComesBack PROVE LifeInv'
    OBVIOUS
<1> USE DEF LifeInv, Typed, ComesBack, receiver
<1>1. StagesTyped'
    BY DEF StagesTyped
<1>2. FlagsTyped'
    BY DEF FlagsTyped
<1>3. DeviceTyped'
    BY DEF DeviceTyped
<1>4. RegisteredWhileAlive'
    BY DEF RegisteredWhileAlive
<1>5. OneGeneration'
    BY DEF OneGeneration
<1>6. ReloadsHaveReasons'
    BY DEF ReloadsHaveReasons
<1>7. RunsHaveOwners'
    BY DEF RunsHaveOwners
<1>8. RemovalGoesOn'
    BY DEF RemovalGoesOn, Erasing, Owned
<1> QED
    BY <1>1, <1>2, <1>3, <1>4, <1>5, <1>6, <1>7, <1>8

LEMMA CallsLives == LifeInv /\ Calls => LifeInv'
<1> SUFFICES ASSUME LifeInv, Calls PROVE LifeInv'
    OBVIOUS
<1> USE DEF LifeInv, Typed, Calls, lifecycle
<1>0. token' = token
    BY DEF Press, Callback, Rejected, Absorbed, Dispatched, Lost, TimePasses
<1>1. StagesTyped'
    BY DEF StagesTyped
<1>2. FlagsTyped'
    BY DEF FlagsTyped
<1>3. DeviceTyped'
    BY DEF DeviceTyped
<1>4. RegisteredWhileAlive'
    BY <1>0 DEF RegisteredWhileAlive
<1>5. OneGeneration'
    BY <1>0 DEF OneGeneration
<1>6. ReloadsHaveReasons'
    BY DEF ReloadsHaveReasons
<1>7. RunsHaveOwners'
    BY DEF RunsHaveOwners
<1>8. RemovalGoesOn'
    BY DEF RemovalGoesOn, Erasing, Owned
<1> QED
    BY <1>1, <1>2, <1>3, <1>4, <1>5, <1>6, <1>7, <1>8

LEMMA SaveOptionsLives ==
    ASSUME LifeInv, NEW new \in Options, SaveOptions(new)
    PROVE  LifeInv'
<1> USE DEF LifeInv, Typed, SaveOptions, receiver
<1>1. StagesTyped'
    BY EntryConstants DEF StagesTyped
<1>2. FlagsTyped'
    BY EntryConstants DEF StagesTyped, FlagsTyped
<1>3. DeviceTyped' /\ RegisteredWhileAlive'
    BY DEF DeviceTyped, RegisteredWhileAlive
<1>4. OneGeneration'
    BY DEF OneGeneration
<1>5. ReloadsHaveReasons'
    BY DEF StagesTyped, ReloadsHaveReasons, FlagsTyped
<1>6. RunsHaveOwners'
    BY DEF RunsHaveOwners
<1>7. RemovalGoesOn'
    BY DEF StagesTyped, RemovalGoesOn, Erasing, Owned
<1> QED
    BY <1>1, <1>2, <1>3, <1>4, <1>5, <1>6, <1>7

LEMMA PollAnsweredLives ==
    ASSUME LifeInv, NEW kind \in {"poll", "service"}, PollAnswered(kind)
    PROVE  LifeInv'
<1> USE DEF LifeInv, Typed, PollAnswered, receiver
<1>1. /\ runtime = {Data} /\ Data \in Generation
      /\ [Data EXCEPT !.known = TRUE] \in Generation
    BY DataIsTheGeneration DEF Loaded, Generation
<1>2. pc \in {"forwarding", "loaded", "unloading"}
    BY DEF Polling, RegisteredWhileAlive
<1>3. run' = [run EXCEPT ![kind] = Provision(Data)] \/ run' = run
    BY DEF Provision
<1>4. Provision(Data) \in {NoRun} \cup Begun
    BY <1>1, ProvisionTyped
<1>5. StagesTyped' /\ FlagsTyped'
    <2>1. StagesTyped'
        BY DEF StagesTyped
    <2> QED
        BY <2>1 DEF FlagsTyped
<1>6. DeviceTyped'
    BY <1>3, <1>4 DEF DeviceTyped, Runs, Kinds
<1>7. RegisteredWhileAlive'
    BY <1>2 DEF RegisteredWhileAlive
<1>8. OneGeneration'
    BY <1>1, <1>2 DEF OneGeneration, RegisteredWhileAlive, Generation
<1>9. ReloadsHaveReasons'
    BY DEF StagesTyped, ReloadsHaveReasons, OneGeneration, FlagsTyped
<1>10. RunsHaveOwners'
    BY <1>2, <1>3, <1>4 DEF DeviceTyped, RunsHaveOwners, NoRun, Begun, Kinds
<1>11. RemovalGoesOn'
    BY <1>2 DEF RemovalGoesOn
<1> QED
    BY <1>5, <1>6, <1>7, <1>8, <1>9, <1>10, <1>11

(* What the steps of a run leave alone, and what is left to show of them. *)
LEMMA RunStepsLive ==
    ASSUME LifeInv, NEW k \in Kinds, RunStep(k), DeviceTyped', RunsHaveOwners',
           RemovalGoesOn'
    PROVE  LifeInv'
<1> USE DEF LifeInv, Typed, RunStep, Read, Post, RunFails, receiver
<1>1. UNCHANGED <<up, options, remembered, pc, goal, reloads, removing, runtime,
                  listening, watching, entities, saves, faults, restarts, missed,
                  token>>
    OBVIOUS
<1>2. disturbed' \in BOOLEAN
    BY DEF FlagsTyped
<1>3. StagesTyped' /\ FlagsTyped' /\ RegisteredWhileAlive'
    BY <1>1, <1>2 DEF StagesTyped, FlagsTyped, RegisteredWhileAlive
<1>4. OneGeneration' /\ ReloadsHaveReasons'
    BY <1>1 DEF OneGeneration, ReloadsHaveReasons
<1> QED
    BY <1>3, <1>4

(* Blanks written wherever one of our callbacks is left do for a removal. *)
LEMMA BlanksErase ==
    ASSUME NEW w \in Writes, Owned' \subseteq DOMAIN w, \A t \in DOMAIN w : w[t] = Free,
           run'["removal"] = Writing(w)
    PROVE  Erasing'
<1>1. CASE DOMAIN w = {}
    BY <1>1 DEF Writing, Erasing
<1>2. CASE DOMAIN w # {}
    <2>1. run'["removal"].pc = "writing" /\ run'["removal"].writes = w
        BY <1>2 DEF Writing
    <2> QED
        BY <2>1 DEF Erasing
<1> QED
    BY <1>1, <1>2

(* Only the removal's run goes on while nothing excuses it. *)
LEMMA RemovalIsAlone ==
    ASSUME LifeInv, pc \in {"removing", "removed"}, options.cleanup, ~disturbed,
           NEW k \in Kinds, run[k].pc # "none"
    PROVE  k = "removal" /\ run["left over"] = NoRun /\ Erasing
<1>1. run[k] # NoRun
    BY DEF NoRun
<1>2. run["left over"] = NoRun /\ Erasing
    BY DEF LifeInv, RemovalGoesOn
<1>3. \A q \in {"setup", "poll", "service"} : run[q] = NoRun
    BY DEF LifeInv, RunsHaveOwners
<1> QED
    BY <1>1, <1>2, <1>3 DEF Kinds

LEMMA ReadLives ==
    ASSUME LifeInv, NEW k \in Kinds, Read(k)
    PROVE  LifeInv'
<1> USE DEF LifeInv, Typed
<1>1. run[k] \in Begun /\ run[k].wanted \in SUBSET Events /\ run[k].pc = "begun"
    BY ShapesOfARun DEF Read, DeviceTyped, Begun
<1>2. PICK after \in Runs :
            /\ run' = [run EXCEPT ![k] = after]
            /\ \/ after = NoRun /\ PlansOf(k, run[k].wanted) = {}
               \/ \E plan \in PlansOf(k, run[k].wanted) :
                        plan \in Writes /\ after = Writing(plan)
    BY <1>1, PlansAreWrites, WritingTyped DEF Read, Runs
<1>3. slots' = slots /\ pc' = pc /\ options' = options /\ disturbed' = disturbed
    BY DEF Read
<1>4. DeviceTyped'
    BY <1>2, <1>3 DEF DeviceTyped
<1>5. RunsHaveOwners'
    <2>1. after.pc = "writing" => DOMAIN after.writes # {}
        BY <1>2, WritingTyped DEF NoRun
    <2>2. run[k] # NoRun
        BY <1>1 DEF NoRun
    <2> QED
        BY <1>2, <1>3, <2>1, <2>2 DEF RunsHaveOwners, DeviceTyped, Kinds
<1>6. RemovalGoesOn'
    <2> SUFFICES ASSUME pc \in {"removing", "removed"}, options.cleanup, ~disturbed
                 PROVE  run'["left over"] = NoRun /\ Erasing'
        BY <1>3 DEF RemovalGoesOn
    <2>1. k = "removal" /\ run["left over"] = NoRun
        BY <1>1, RemovalIsAlone
    <2>2. run'["left over"] = NoRun /\ run'["removal"] = after
        BY <1>2, <2>1 DEF DeviceTyped, Kinds
    <2>3. after = Writing([s \in Owned |-> Free]) /\ [s \in Owned |-> Free] \in Writes
        BY <1>2, <2>1 DEF PlansOf
    <2>4. Owned' = Owned
        BY <1>3 DEF Owned
    <2> QED
        BY <2>2, <2>3, <2>4, BlanksErase
<1> QED
    BY <1>4, <1>5, <1>6, RunStepsLive DEF RunStep

LEMMA PostLives ==
    ASSUME LifeInv, NEW k \in Kinds, Post(k)
    PROVE  LifeInv'
<1> USE DEF LifeInv, Typed
<1> DEFINE writes == run[k].writes
           filling == {s \in DOMAIN writes : writes[s] # Free}
           due == IF filling # {} THEN filling ELSE DOMAIN writes
           s == Min(due)
           rest == Restrict(writes, DOMAIN writes \ {s})
<1>1. run[k].pc = "writing" /\ writes \in Writes /\ DOMAIN writes # {}
    BY ShapesOfARun DEF Post, DeviceTyped, RunsHaveOwners
<1>2. DOMAIN writes \subseteq Slots /\ \A t \in DOMAIN writes : writes[t] \in Contents
    BY <1>1 DEF Writes
<1>3. s \in DOMAIN writes
    <2>1. due \in SUBSET Nat /\ due # {} /\ due \subseteq DOMAIN writes
        BY <1>1, <1>2, EntryConstants
    <2> QED
        BY <2>1, MinIsMember
<1>4. rest \in Writes /\ DOMAIN rest = DOMAIN writes \ {s}
      /\ \A t \in DOMAIN rest : rest[t] = writes[t]
    <2>1. rest = [t \in DOMAIN writes \ {s} |-> writes[t]]
        BY DEF Restrict
    <2>2. DOMAIN writes \ {s} \in SUBSET Slots
        BY <1>2
    <2>3. rest \in [DOMAIN writes \ {s} -> Contents]
        BY <1>2, <2>1
    <2> QED
        BY <2>1, <2>2, <2>3 DEF Writes
<1>5. slots' = [slots EXCEPT ![s] = writes[s]] /\ run' = [run EXCEPT ![k] = Writing(rest)]
    BY DEF Post
<1>6. pc' = pc /\ options' = options /\ disturbed' = disturbed
    BY DEF Post
<1> HIDE DEF writes, s, rest
<1>7. DeviceTyped'
    BY <1>2, <1>3, <1>4, <1>5, WritingTyped DEF DeviceTyped
<1>8. RunsHaveOwners'
    <2>1. Writing(rest).pc = "writing" => DOMAIN Writing(rest).writes # {}
        BY <1>4, WritingTyped
    <2>2. run[k] # NoRun
        BY <1>1 DEF NoRun
    <2> QED
        BY <1>5, <1>6, <2>1, <2>2 DEF RunsHaveOwners, DeviceTyped, Kinds
<1>9. RemovalGoesOn'
    <2> SUFFICES ASSUME pc \in {"removing", "removed"}, options.cleanup, ~disturbed
                 PROVE  run'["left over"] = NoRun /\ Erasing'
        BY <1>6 DEF RemovalGoesOn
    <2>1. k = "removal" /\ run["left over"] = NoRun /\ Erasing
        BY <1>1, RemovalIsAlone
    <2>2. Owned \subseteq DOMAIN writes /\ \A t \in DOMAIN writes : writes[t] = Free
        <3>1. run["removal"].pc = "writing" /\ writes = run["removal"].writes
            BY <1>1, <2>1 DEF writes
        <3>2. run["removal"] # NoRun
            BY <3>1 DEF NoRun
        <3> QED
            BY <2>1, <3>1, <3>2 DEF Erasing
    <2>3. Owned' \subseteq DOMAIN rest /\ \A t \in DOMAIN rest : rest[t] = Free
        BY <1>2, <1>3, <1>4, <1>5, <2>2, EntryConstants DEF Owned, DeviceTyped
    <2>4. run'["left over"] = NoRun /\ run'["removal"] = Writing(rest)
        BY <1>5, <2>1 DEF DeviceTyped, Kinds
    <2> QED
        BY <1>4, <2>3, <2>4, BlanksErase
<1> QED
    BY <1>7, <1>8, <1>9, RunStepsLive DEF RunStep

LEMMA RunFailsLives ==
    ASSUME LifeInv, NEW k \in Kinds, RunFails(k)
    PROVE  LifeInv'
<1> USE DEF LifeInv, Typed
<1>1. /\ run[k] # NoRun /\ run' = [run EXCEPT ![k] = NoRun]
      /\ disturbed' = (disturbed \/ k = "removal")
      /\ pc' = pc /\ options' = options /\ slots' = slots
    BY DEF RunFails
<1>2. DeviceTyped'
    BY <1>1 DEF DeviceTyped, Runs
<1>3. RunsHaveOwners'
    BY <1>1 DEF RunsHaveOwners, DeviceTyped, Kinds, NoRun
<1>4. RemovalGoesOn'
    <2> SUFFICES ASSUME pc \in {"removing", "removed"}, options.cleanup, ~disturbed,
                        k # "removal"
                 PROVE  FALSE
        BY <1>1 DEF RemovalGoesOn
    <2>1. run[k].pc # "none"
        BY <1>1, ShapesOfARun DEF DeviceTyped
    <2> QED
        BY <2>1, RemovalIsAlone
<1> QED
    BY <1>2, <1>3, <1>4, RunStepsLive DEF RunStep

LEMMA LifeStands == LifeInv /\ UNCHANGED vars => LifeInv'
<1> SUFFICES ASSUME LifeInv, UNCHANGED vars PROVE LifeInv'
    OBVIOUS
<1> USE DEF LifeInv, Typed, vars, lifecycle, receiver
<1>1. StagesTyped' /\ FlagsTyped'
    BY DEF StagesTyped, FlagsTyped
<1>2. DeviceTyped' /\ RegisteredWhileAlive'
    BY DEF DeviceTyped, RegisteredWhileAlive
<1>3. OneGeneration' /\ ReloadsHaveReasons' /\ RunsHaveOwners'
    BY DEF OneGeneration, ReloadsHaveReasons, RunsHaveOwners
<1>4. RemovalGoesOn'
    BY DEF RemovalGoesOn, Erasing, Owned
<1> QED
    BY <1>1, <1>2, <1>3, <1>4

LEMMA LifeGoesOn == LifeInv /\ [Next]_vars => LifeInv'
<1> SUFFICES ASSUME LifeInv, [Next]_vars PROVE LifeInv'
    OBVIOUS
<1>1. CASE EntryStep
    BY <1>1, BeginSetupLives, FirstRefreshLives, FinishSetupLives, BeginUnloadLives,
       UnloadedLives, EndUnloadLives, RemoveUnloadedLives, RemovedLives DEF EntryStep
<1>2. CASE WaitTimesOut
    BY <1>2, WaitTimesOutLives
<1>3. CASE \E new \in Options : SaveOptions(new)
    BY <1>3, SaveOptionsLives
<1>4. CASE PollAnswered("poll") \/ PollAnswered("service")
    BY <1>4, PollAnsweredLives
<1>5. CASE \E k \in Kinds : RunStep(k)
    BY <1>5, ReadLives, PostLives, RunFailsLives DEF RunStep
<1>6. CASE AskRemoval \/ Restart
    BY <1>6, AskRemovalLives, RestartLives
<1>7. CASE GoesAway \/ ComesBack
    BY <1>7, GoesAwayLives, ComesBackLives
<1>8. CASE Calls
    BY <1>8, CallsLives
<1>9. CASE UNCHANGED vars
    BY <1>9, LifeStands
<1> QED
    BY <1>1, <1>2, <1>3, <1>4, <1>5, <1>6, <1>7, <1>8, <1>9 DEF Next

LEMMA LifeInvariant == Spec => []LifeInv
BY LifeStarts, LifeGoesOn, PTL DEF Spec

-----------------------------------------------------------------------------
(* The state of an entry keeps its type, and what Home Assistant has
   registered for it (the token, the update listener, the polling without
   entities) belongs to a generation that is alive (__init__.py:85-163). *)
THEOREM TypeCorrect == Spec => []TypeOK
<1>1. RInv => ReceiverTypeOK
    BY DEF RInv
<1> QED
    BY ReceiverInvariant, LifeInvariant, <1>1, LifeIsTyped, PTL

(* A removal that cleans up leaves nothing of ours behind, whatever the
   number of slots and the plans of the runs before it (__init__.py:168-206,
   blebox_actions.py:961-976). *)
THEOREM RemovalIsComplete == Spec => []RemovalErases
<1>1. LifeInv => RemovalErases
    <2> SUFFICES ASSUME LifeInv, pc = "removed", options.cleanup, ~disturbed
                 PROVE  Present = {}
        BY DEF RemovalErases
    <2>1. run["removal"] = NoRun
        BY DEF LifeInv, RunsHaveOwners
    <2>2. Erasing
        BY DEF LifeInv, RemovalGoesOn
    <2>3. run["removal"].pc = "none"
        BY <2>1 DEF NoRun
    <2>4. Owned = {}
        BY <2>2, <2>3 DEF Erasing
    <2> QED
        BY <2>4 DEF Present
<1> QED
    BY LifeInvariant, <1>1, PTL
=============================================================================
