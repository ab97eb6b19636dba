------------------------- MODULE ActionSlots_proofs -------------------------
(***************************************************************************)
(* Facts about the slot array and the plans of ActionSlots, for every      *)
(* array and every desired set of callbacks.                               *)
(***************************************************************************)
EXTENDS ActionSlots, TLAPS, WellFoundedInduction, FiniteSetTheorems

\* A set of slots has a first element in array order.
LEMMA FirstExists ==
    ASSUME NEW S \in SUBSET Slots, S # {}
    PROVE  First(S) \in S /\ \A r \in S : First(S) <= r
<1>1. S \subseteq Nat
  BY SlotsAssumption
<1>2. PICK x \in S : \A y \in S : ~(<<y, x>> \in OpToRel(<, Nat))
  BY <1>1, NatLessThanWellFounded, WFMin, Zenon
<1>3. \A y \in S : x <= y
  <2> SUFFICES ASSUME NEW y \in S PROVE x <= y
    OBVIOUS
  <2>1. ~(y < x)
    BY <1>1, <1>2 DEF OpToRel
  <2> QED BY <1>1, <2>1
<1> QED BY <1>3 DEF First

\* The three accessors of ActionsState partition the array: a slot is free, or
\* ours, or somebody else's, and never two of those at once.
THEOREM AccessorsPartitionTheArray ==
    ASSUME NEW A \in Array
    PROVE  /\ free_slots(A) \cup owned_actions(A) \cup foreign_actions(A) = Slots
           /\ free_slots(A) \cap owned_actions(A) = {}
           /\ free_slots(A) \cap foreign_actions(A) = {}
           /\ owned_actions(A) \cap foreign_actions(A) = {}
BY DEF free_slots, owned_actions, foreign_actions

LEMMA WantedIsAFunction ==
    ASSUME NEW want \in Wanted
    PROVE  DOMAIN want \subseteq Keys /\ \A k \in DOMAIN want : want[k] \in OwnUrls
BY DEF Wanted

LEMMA CallbackTyped ==
    ASSUME NEW key \in Keys, NEW url \in OwnUrls, NEW paced \in BOOLEAN
    PROVE  /\ Callback(key, url, paced) \in Slot
           /\ is_configured(Callback(key, url, paced))
           /\ is_owned(Callback(key, url, paced))
           /\ KeyOf(Callback(key, url, paced)) = key
BY TriggersAssumption, ActionTypesAssumption
   DEF Callback, Slot, Keys, KeyOf, is_configured, is_owned, ACTION_HTTP_GET

\* An emptied slot: nothing triggers it and nothing throttles what comes next.
Blank(v) == ~is_configured(v) /\ ~v.paced

LEMMA ClearWriteTyped ==
    ASSUME NEW A \in Array, NEW s \in Slots
    PROVE  ClearWrite(A, s) \in Write /\ Blank(ClearWrite(A, s).value)
BY ActionTypesAssumption
   DEF ClearWrite, Cleared, Write, Array, Slot, is_configured, Blank, ACTION_UNCONFIGURED

\* What a plan of async_sync_http_actions may consist of.
SyncWriteOK(A, w) ==
    /\ w \in Write
    /\ w.slot \in free_slots(A) \cup owned_actions(A)
    /\ IF w.clears THEN Blank(w.value)
                   ELSE is_configured(w.value) /\ is_owned(w.value)

LEMMA UpdateWritesOK ==
    ASSUME NEW A \in Array, NEW want \in Wanted, NEW w \in UpdateWrites(A, want)
    PROVE  SyncWriteOK(A, w) /\ w.slot \in Paired(A, want)
<1>1. PICK s \in Paired(A, want) :
         w = [slot |-> s, clears |-> FALSE,
              value |-> Callback(KeyOf(A[s]), want[KeyOf(A[s])], A[s].paced)]
  BY DEF UpdateWrites
<1>2. /\ s \in owned_actions(A) /\ s \in Slots
      /\ KeyOf(A[s]) \in DOMAIN want
  BY <1>1 DEF Paired, Keepers, owned_actions
<1>3. KeyOf(A[s]) \in Keys /\ want[KeyOf(A[s])] \in OwnUrls
  BY <1>2, WantedIsAFunction
<1>4. A[s].paced \in BOOLEAN
  BY <1>2 DEF Array, Slot
<1>5. /\ Callback(KeyOf(A[s]), want[KeyOf(A[s])], A[s].paced) \in Slot
      /\ is_configured(Callback(KeyOf(A[s]), want[KeyOf(A[s])], A[s].paced))
      /\ is_owned(Callback(KeyOf(A[s]), want[KeyOf(A[s])], A[s].paced))
  BY <1>3, <1>4, CallbackTyped
<1> QED BY <1>1, <1>2, <1>5 DEF SyncWriteOK, Write

LEMMA NewWritesOK ==
    ASSUME NEW A \in Array, NEW want \in Wanted,
           NEW f \in Placements(A, want), NEW w \in NewWrites(A, want, f)
    PROVE  SyncWriteOK(A, w)
<1>1. PICK p \in Spent(A, want) :
         w = [slot |-> p[2], clears |-> FALSE,
              value |-> Callback(f[p], want[f[p]], p[1] = 0 /\ A[p[2]].paced)]
  BY DEF NewWrites
<1>2. p[2] \in free_slots(A) \cup owned_actions(A)
  BY <1>1 DEF Spent, Pool, Reclaimable
<1>3. p[2] \in Slots
  BY <1>2 DEF free_slots, owned_actions
<1>4. f[p] \in DOMAIN want
  BY <1>1 DEF Placements, Unheld
<1>5. f[p] \in Keys /\ want[f[p]] \in OwnUrls
  BY <1>4, WantedIsAFunction
<1>6. (p[1] = 0 /\ A[p[2]].paced) \in BOOLEAN
  OBVIOUS
<1>7. /\ Callback(f[p], want[f[p]], p[1] = 0 /\ A[p[2]].paced) \in Slot
      /\ is_configured(Callback(f[p], want[f[p]], p[1] = 0 /\ A[p[2]].paced))
      /\ is_owned(Callback(f[p], want[f[p]], p[1] = 0 /\ A[p[2]].paced))
  BY <1>5, <1>6, CallbackTyped
<1> QED BY <1>1, <1>2, <1>3, <1>7 DEF SyncWriteOK, Write

LEMMA StaleWritesOK ==
    ASSUME NEW A \in Array, NEW want \in Wanted, NEW w \in StaleWrites(A, want)
    PROVE  /\ SyncWriteOK(A, w)
           /\ w.slot \in Reclaimable(A, want) /\ <<1, w.slot>> \notin Spent(A, want)
<1>1. PICK s \in Reclaimable(A, want) :
         w = ClearWrite(A, s) /\ <<1, s>> \notin Spent(A, want)
  BY DEF StaleWrites
<1>2. s \in owned_actions(A) /\ s \in Slots
  BY <1>1 DEF Reclaimable, owned_actions
<1>3. w.slot = s /\ w.clears
  BY <1>1 DEF ClearWrite
<1> QED BY <1>1, <1>2, <1>3, ClearWriteTyped DEF SyncWriteOK

\* Every write of a reconciliation goes to a free slot or one of ours, and
\* leaves there a callback of ours or nothing.
THEOREM SyncPlansOnlyTouchFreeAndOwned ==
    ASSUME NEW A \in Array, NEW want \in Wanted,
           NEW p \in SyncPlans(A, want), NEW w \in p
    PROVE  SyncWriteOK(A, w)
<1>1. PICK f \in Placements(A, want) :
         p = UpdateWrites(A, want) \cup NewWrites(A, want, f) \cup StaleWrites(A, want)
  BY DEF SyncPlans
<1>2. CASE w \in UpdateWrites(A, want)
  BY <1>2, UpdateWritesOK
<1>3. CASE w \in NewWrites(A, want, f)
  BY <1>3, NewWritesOK
<1>4. CASE w \in StaleWrites(A, want)
  BY <1>4, StaleWritesOK
<1> QED BY <1>1, <1>2, <1>3, <1>4

LEMMA PoolsAreDisjoint ==
    ASSUME NEW A \in Array, NEW want \in Wanted
    PROVE  /\ free_slots(A) \cap Reclaimable(A, want) = {}
           /\ free_slots(A) \cap Paired(A, want) = {}
           /\ Reclaimable(A, want) \cap Paired(A, want) = {}
BY AccessorsPartitionTheArray DEF Reclaimable, Paired, Keepers

\* A spent entry of the pool is a free slot or a stale one of ours, and the slot
\* tells which.
LEMMA SpentEntries ==
    ASSUME NEW A \in Array, NEW want \in Wanted, NEW p \in Spent(A, want)
    PROVE  \/ p[1] = 0 /\ p[2] \in free_slots(A) /\ p = <<0, p[2]>>
           \/ p[1] = 1 /\ p[2] \in Reclaimable(A, want) /\ p = <<1, p[2]>>
BY DEF Spent, Pool

\* No reconciliation plans two writes for one slot, so the refusal of
\* _async_sync_locked that guards against it never happens.
THEOREM SyncPlansNeverDoubleBook ==
    ASSUME NEW A \in Array, NEW want \in Wanted, NEW plan \in SyncPlans(A, want)
    PROVE  ~DoubleBooked(plan)
<1>1. PICK f \in Placements(A, want) :
         plan = UpdateWrites(A, want) \cup NewWrites(A, want, f) \cup StaleWrites(A, want)
  BY DEF SyncPlans
<1> SUFFICES ASSUME NEW w \in plan, NEW v \in plan, w.slot = v.slot
             PROVE  w = v
  BY DEF DoubleBooked
<1>2. ASSUME NEW x \in UpdateWrites(A, want)
      PROVE  /\ x.slot \in Paired(A, want)
             /\ x = [slot |-> x.slot, clears |-> FALSE,
                     value |-> Callback(KeyOf(A[x.slot]), want[KeyOf(A[x.slot])],
                                        A[x.slot].paced)]
  BY DEF UpdateWrites
<1>3. ASSUME NEW x \in NewWrites(A, want, f)
      PROVE  \E p \in Spent(A, want) :
                /\ x.slot = p[2]
                /\ x = [slot |-> p[2], clears |-> FALSE,
                        value |-> Callback(f[p], want[f[p]],
                                           p[1] = 0 /\ A[p[2]].paced)]
  BY DEF NewWrites
<1>4. ASSUME NEW x \in StaleWrites(A, want)
      PROVE  /\ x = ClearWrite(A, x.slot)
             /\ x.slot \in Reclaimable(A, want)
             /\ <<1, x.slot>> \notin Spent(A, want)
  <2>1. PICK s \in Reclaimable(A, want) :
           x = ClearWrite(A, s) /\ <<1, s>> \notin Spent(A, want)
    BY DEF StaleWrites
  <2>2. x.slot = s
    BY <2>1 DEF ClearWrite
  <2> QED BY <2>1, <2>2
<1>5. ASSUME NEW x \in NewWrites(A, want, f), NEW y \in NewWrites(A, want, f),
             x.slot = y.slot
      PROVE  x = y
  <2>1. PICK p \in Spent(A, want) :
           /\ x.slot = p[2]
           /\ x = [slot |-> p[2], clears |-> FALSE,
                   value |-> Callback(f[p], want[f[p]], p[1] = 0 /\ A[p[2]].paced)]
    BY <1>3
  <2>2. PICK q \in Spent(A, want) :
           /\ y.slot = q[2]
           /\ y = [slot |-> q[2], clears |-> FALSE,
                   value |-> Callback(f[q], want[f[q]], q[1] = 0 /\ A[q[2]].paced)]
    BY <1>3
  <2>3. p[2] = q[2]
    BY <1>5, <2>1, <2>2
  <2>4. p = q
    BY <2>3, SpentEntries, PoolsAreDisjoint
  <2> QED BY <2>1, <2>2, <2>4
<1>6. ASSUME NEW x \in NewWrites(A, want, f)
      PROVE  x.slot \in free_slots(A) \cup Reclaimable(A, want)
  BY <1>3, SpentEntries
<1>7. ASSUME NEW x \in NewWrites(A, want, f), NEW y \in StaleWrites(A, want)
      PROVE  x.slot # y.slot
  <2>1. PICK p \in Spent(A, want) : x.slot = p[2]
    BY <1>3
  <2>2. y.slot \in Reclaimable(A, want) /\ <<1, y.slot>> \notin Spent(A, want)
    BY <1>4
  <2> QED BY <2>1, <2>2, SpentEntries, PoolsAreDisjoint
<1>8. ASSUME NEW x \in UpdateWrites(A, want),
             NEW y \in NewWrites(A, want, f) \cup StaleWrites(A, want)
      PROVE  x.slot # y.slot
  BY <1>2, <1>4, <1>6, PoolsAreDisjoint
<1>9. CASE w \in UpdateWrites(A, want)
  <2>1. v \in UpdateWrites(A, want)
    BY <1>1, <1>8, <1>9
  <2> QED BY <1>2, <1>9, <2>1
<1>10. CASE w \in NewWrites(A, want, f)
  <2>1. v \in NewWrites(A, want, f)
    BY <1>1, <1>7, <1>8, <1>10
  <2> QED BY <1>5, <1>10, <2>1
<1>11. CASE w \in StaleWrites(A, want)
  <2>1. v \in StaleWrites(A, want)
    BY <1>1, <1>7, <1>8, <1>11
  <2> QED BY <1>4, <1>11, <2>1
<1> QED BY <1>1, <1>9, <1>10, <1>11

\* What a rebind of a native action may write: an empty slot or a native relay
\* binding, turned into a native binding or emptied.
NativeWriteOK(A, w) ==
    /\ w \in Write
    /\ \/ ~is_configured(A[w.slot])
       \/ A[w.slot].action \in NATIVE_RELAY_ACTIONS
    /\ IF w.clears THEN Blank(w.value)
                   ELSE is_configured(w.value) /\ w.value.action \in NATIVE_RELAY_ACTIONS

LEMMA NativeBindingOK ==
    ASSUME NEW A, NEW s \in Slots, NEW v \in Slot,
           ~is_configured(A[s]) \/ A[s].action \in NATIVE_RELAY_ACTIONS,
           is_configured(v), v.action \in NATIVE_RELAY_ACTIONS
    PROVE  NativeWriteOK(A, [slot |-> s, clears |-> FALSE, value |-> v])
<1> DEFINE w == [slot |-> s, clears |-> FALSE, value |-> v]
<1>1. w.slot = s /\ w.value = v /\ w.clears = FALSE /\ w \in Write
  BY DEF Write
<1> HIDE DEF w
<1>2. NativeWriteOK(A, w)
  BY <1>1 DEF NativeWriteOK
<1> QED BY <1>2 DEF w

\* A rebind never edits an HTTP action or an action type the integration does
\* not know, and writes one slot at most.
THEOREM NativePlanOnlyTouchesFreeAndNative ==
    ASSUME NEW A \in Array, NEW key \in Keys,
           NEW action \in NATIVE_RELAY_ACTIONS \cap ActionTypes,
           NativeFits(A, key, action)
    PROVE  /\ \A w \in NativePlan(A, key, action) : NativeWriteOK(A, w)
           /\ ~DoubleBooked(NativePlan(A, key, action))
<1>1. CASE native_actions(A, key) # {}
  <2> DEFINE s == First(native_actions(A, key))
             w == RebindWrite(A, s, action)
  <2>1. native_actions(A, key) \in SUBSET Slots
    BY DEF native_actions
  <2>2. s \in native_actions(A, key)
    BY <1>1, <2>1, FirstExists
  <2>3. /\ s \in Slots /\ A[s] \in Slot
        /\ is_configured(A[s]) /\ A[s].action \in NATIVE_RELAY_ACTIONS
    BY <2>2 DEF native_actions, Array
  <2>4. NativePlan(A, key, action) = {w}
    BY <1>1 DEF NativePlan
  <2>5. CASE action = ACTION_UNCONFIGURED
    <3>1. w = ClearWrite(A, s)
      BY <2>5 DEF RebindWrite
    <3>2. w.slot = s /\ w.clears
      BY <3>1 DEF ClearWrite
    <3>3. w \in Write /\ Blank(w.value)
      BY <3>1, <2>3, ClearWriteTyped
    <3>4. NativeWriteOK(A, w)
      BY <2>3, <3>2, <3>3 DEF NativeWriteOK
    <3> HIDE DEF w
    <3> QED BY <2>4, <3>4 DEF DoubleBooked
  <2>6. CASE action # ACTION_UNCONFIGURED
    <3>1. w = [slot |-> s, clears |-> FALSE,
               value |-> [A[s] EXCEPT !.action = action, !.param = NoParam]]
      BY <2>6 DEF RebindWrite
    <3>2. [A[s] EXCEPT !.action = action, !.param = NoParam] \in Slot
      BY <2>3 DEF Slot
    <3>3. /\ is_configured([A[s] EXCEPT !.action = action, !.param = NoParam])
          /\ [A[s] EXCEPT !.action = action, !.param = NoParam].action = action
      BY <2>3 DEF Slot, is_configured
    <3>4. NativeWriteOK(A, w)
      BY <2>3, <3>1, <3>2, <3>3, NativeBindingOK
    <3> HIDE DEF w
    <3> QED BY <2>4, <3>4 DEF DoubleBooked
  <2> QED BY <2>5, <2>6
<1>2. CASE native_actions(A, key) = {} /\ action = ACTION_UNCONFIGURED
  BY <1>2 DEF NativePlan, DoubleBooked
<1>3. CASE native_actions(A, key) = {} /\ action # ACTION_UNCONFIGURED
  <2> DEFINE s == First(free_slots(A))
             v == [A[s] EXCEPT !.input = key[1], !.trigger = key[2],
                               !.action = action, !.param = NoParam]
             w == NewNativeWrite(A, s, key, action)
  <2>1. free_slots(A) # {} /\ free_slots(A) \in SUBSET Slots
    BY <1>3 DEF NativeFits, free_slots
  <2>2. s \in free_slots(A)
    BY <2>1, FirstExists
  <2>3. s \in Slots /\ A[s] \in Slot /\ ~is_configured(A[s])
    BY <2>2 DEF free_slots, Array
  <2>4. NativePlan(A, key, action) = {w}
    BY <1>3 DEF NativePlan
  <2>5. key[1] \in Inputs /\ key[2] \in Triggers /\ key[2] # TRIGGER_UNCONFIGURED
    BY TriggersAssumption DEF Keys
  <2>6. v \in Slot /\ is_configured(v) /\ v.action = action
    BY <2>3, <2>5 DEF Slot, is_configured
  <2>7. w = [slot |-> s, clears |-> FALSE, value |-> v]
    BY DEF NewNativeWrite
  <2> HIDE DEF s, v, w
  <2>8. NativeWriteOK(A, w)
    BY <2>3, <2>6, <2>7, NativeBindingOK
  <2> QED BY <2>4, <2>8 DEF DoubleBooked
<1> QED BY <1>1, <1>2, <1>3

\* A removal empties slots of ours, each once, and touches no other.
THEOREM RemovalPlanOnlyClearsOwned ==
    ASSUME NEW A \in Array
    PROVE  /\ \A w \in RemovalPlan(A) : /\ w \in Write /\ w.clears
                                        /\ is_owned(A[w.slot])
                                        /\ Blank(w.value)
           /\ ~DoubleBooked(RemovalPlan(A))
<1>1. ASSUME NEW w \in RemovalPlan(A)
      PROVE  /\ w = ClearWrite(A, w.slot) /\ w.slot \in Slots
             /\ w.clears /\ is_owned(A[w.slot])
  <2>1. PICK s \in Slots : w = ClearWrite(A, s) /\ is_owned(A[s])
    BY DEF RemovalPlan
  <2>2. w.slot = s /\ w.clears
    BY <2>1 DEF ClearWrite
  <2> QED BY <2>1, <2>2
<1>2. ~DoubleBooked(RemovalPlan(A))
  BY <1>1 DEF DoubleBooked
<1> QED BY <1>1, <1>2, ClearWriteTyped

-----------------------------------------------------------------------------
(* Counting: what fits, and that a reconciliation that fits places every     *)
(* callback                                                                  *)

LEMMA DisjointSetsAddUp ==
    ASSUME NEW S, NEW T, IsFiniteSet(S), IsFiniteSet(T), S \cap T = {}
    PROVE  /\ IsFiniteSet(S \cup T)
           /\ Cardinality(S \cup T) = Cardinality(S) + Cardinality(T)
<1>1. Cardinality(S \cap T) = 0
  BY FS_EmptySet
<1>2. Cardinality(S) \in Nat /\ Cardinality(T) \in Nat
  BY FS_CardinalityType
<1>3. /\ IsFiniteSet(S \cup T)
      /\ Cardinality(S \cup T) = Cardinality(S) + Cardinality(T) - Cardinality(S \cap T)
  BY FS_Union
<1> QED BY <1>1, <1>2, <1>3

LEMMA AccessorsAreFinite ==
    ASSUME NEW A \in Array, NEW want
    PROVE  /\ IsFiniteSet(free_slots(A)) /\ IsFiniteSet(owned_actions(A))
           /\ IsFiniteSet(foreign_actions(A))
           /\ IsFiniteSet(Paired(A, want)) /\ IsFiniteSet(Reclaimable(A, want))
<1>1. /\ free_slots(A) \in SUBSET Slots /\ owned_actions(A) \in SUBSET Slots
      /\ foreign_actions(A) \in SUBSET Slots
      /\ Paired(A, want) \in SUBSET Slots /\ Reclaimable(A, want) \in SUBSET Slots
  BY DEF free_slots, owned_actions, foreign_actions, Paired, Keepers, Reclaimable
<1>2. IsFiniteSet(Slots)
  BY SlotsAssumption
<1> QED BY <1>1, <1>2, FS_Subset

LEMMA WantedIsFinite ==
    ASSUME NEW want \in Wanted
    PROVE  IsFiniteSet(DOMAIN want)
<1>1. IsFiniteSet(Keys)
  BY KeysAssumption, FS_Product DEF Keys
<1>2. DOMAIN want \in SUBSET Keys
  BY WantedIsAFunction
<1> QED BY <1>1, <1>2, FS_Subset

\* No two slots that are kept serve the same key.
LEMMA KeepersAreDistinct ==
    ASSUME NEW A \in Array, NEW s \in Keepers(A), NEW r \in Keepers(A),
           KeyOf(A[s]) = KeyOf(A[r])
    PROVE  s = r
<1>1. s <= r /\ r <= s
  BY DEF Keepers
<1>2. s \in Nat /\ r \in Nat
  BY SlotsAssumption DEF Keepers, owned_actions
<1> QED BY <1>1, <1>2

\* As many callbacks are held already as there are slots kept for them.
LEMMA HeldKeysAreCounted ==
    ASSUME NEW A \in Array, NEW want, IsFiniteSet(DOMAIN want)
    PROVE  /\ IsFiniteSet(Unheld(A, want))
           /\ Cardinality(Unheld(A, want)) =
                 Cardinality(DOMAIN want) - Cardinality(Paired(A, want))
<1> DEFINE P == Paired(A, want)
           H == {KeyOf(A[s]) : s \in P}
           K == DOMAIN want
           key == [s \in P |-> KeyOf(A[s])]
<1>1. key \in Bijection(P, H)
  <2>1. \A s, r \in P : KeyOf(A[s]) = KeyOf(A[r]) => s = r
    BY KeepersAreDistinct DEF Paired
  <2> HIDE DEF P
  <2>2. key \in [P -> H]
    OBVIOUS
  <2>3. \A a, b \in P : key[a] = key[b] => a = b
    BY <2>1
  <2>4. \A h \in H : \E s \in P : key[s] = h
    OBVIOUS
  <2> QED BY <2>2, <2>3, <2>4 DEF Bijection, Injection, Surjection, IsInjective
<1>2. H \subseteq K /\ Unheld(A, want) = K \ H
  BY DEF Paired, Unheld
<1>3. IsFiniteSet(P)
  BY AccessorsAreFinite
<1> HIDE DEF P, H, K, key
<1>4. Cardinality(H) = Cardinality(P)
  BY <1>1, <1>3, FS_Bijection DEF ExistsBijection
<1>5. K \cap H = H /\ IsFiniteSet(K)
  BY <1>2 DEF K
<1>6. IsFiniteSet(K \ H) /\ Cardinality(K \ H) = Cardinality(K) - Cardinality(H)
  BY <1>5, FS_Difference
<1> QED BY <1>2, <1>4, <1>6 DEF P, K

\* A reconciliation keeps one slot for each callback it finds, so it needs
\* room for as many others as it frees besides: what fits does not depend on
\* which of our callbacks are there.
LEMMA CapacityIsExact ==
    ASSUME NEW A \in Array, NEW want, IsFiniteSet(DOMAIN want)
    PROVE  Fits(A, want) <=>
              Cardinality(DOMAIN want) <=
                 Cardinality(free_slots(A)) + Cardinality(owned_actions(A))
<1> DEFINE P == Paired(A, want)
           O == owned_actions(A)
<1>1. IsFiniteSet(free_slots(A)) /\ IsFiniteSet(O) /\ IsFiniteSet(P)
  BY AccessorsAreFinite
<1>2. O \cap P = P /\ Reclaimable(A, want) = O \ P
  BY DEF Reclaimable, Paired, Keepers
<1> HIDE DEF P, O
<1>3. Cardinality(O \ P) = Cardinality(O) - Cardinality(P)
  BY <1>1, <1>2, FS_Difference
<1>4. /\ Cardinality(DOMAIN want) \in Nat /\ Cardinality(P) \in Nat
      /\ Cardinality(O) \in Nat /\ Cardinality(free_slots(A)) \in Nat
  BY <1>1, FS_CardinalityType
<1>5. Cardinality(Unheld(A, want)) = Cardinality(DOMAIN want) - Cardinality(P)
  BY HeldKeysAreCounted DEF P
<1> QED BY <1>2, <1>3, <1>4, <1>5 DEF Fits, O

\* What does not fit really exceeds the array, whatever of ours is in it: the
\* refusal of _async_sync_locked is never our own stale callbacks' doing.
THEOREM RefusedWantsExceedTheArray ==
    ASSUME NEW A \in Array, NEW want \in Wanted, ~Fits(A, want)
    PROVE  Cardinality(DOMAIN want) + Cardinality(foreign_actions(A))
              > Cardinality(Slots)
<1> DEFINE E == free_slots(A)
           O == owned_actions(A)
           F == foreign_actions(A)
<1>1. IsFiniteSet(E) /\ IsFiniteSet(O) /\ IsFiniteSet(F)
  BY AccessorsAreFinite
<1>2. /\ Slots = (E \cup O) \cup F /\ E \cap O = {} /\ (E \cup O) \cap F = {}
  BY AccessorsPartitionTheArray
<1>3. IsFiniteSet(DOMAIN want)
  BY WantedIsFinite
<1>4. ~(Cardinality(DOMAIN want) <= Cardinality(E) + Cardinality(O))
  BY <1>3, CapacityIsExact
<1> HIDE DEF E, O, F
<1>5. /\ IsFiniteSet(E \cup O)
      /\ Cardinality(E \cup O) = Cardinality(E) + Cardinality(O)
  BY <1>1, <1>2, DisjointSetsAddUp
<1>6. Cardinality(Slots) = Cardinality(E \cup O) + Cardinality(F)
  BY <1>1, <1>2, <1>5, DisjointSetsAddUp
<1>7. /\ Cardinality(E) \in Nat /\ Cardinality(O) \in Nat /\ Cardinality(F) \in Nat
      /\ Cardinality(DOMAIN want) \in Nat
  BY <1>1, <1>3, FS_CardinalityType
<1> QED BY <1>4, <1>5, <1>6, <1>7 DEF F

LEMMA PoolIsCounted ==
    ASSUME NEW A \in Array, NEW want \in Wanted
    PROVE  /\ IsFiniteSet(Pool(A, want))
           /\ Cardinality(Pool(A, want)) =
                 Cardinality(free_slots(A)) + Cardinality(Reclaimable(A, want))
<1> DEFINE E == free_slots(A)
           R == Reclaimable(A, want)
<1>1. IsFiniteSet(E) /\ IsFiniteSet(R)
  BY AccessorsAreFinite
<1> HIDE DEF E, R
<1>2. /\ IsFiniteSet({0} \X E) /\ Cardinality({0} \X E) = Cardinality(E)
      /\ IsFiniteSet({1} \X R) /\ Cardinality({1} \X R) = Cardinality(R)
  <2>1. IsFiniteSet({0}) /\ Cardinality({0}) = 1 /\ IsFiniteSet({1}) /\ Cardinality({1}) = 1
    BY FS_Singleton
  <2>2. /\ IsFiniteSet({0} \X E)
        /\ Cardinality({0} \X E) = Cardinality({0}) * Cardinality(E)
    BY <1>1, <2>1, FS_Product
  <2>3. /\ IsFiniteSet({1} \X R)
        /\ Cardinality({1} \X R) = Cardinality({1}) * Cardinality(R)
    BY <1>1, <2>1, FS_Product
  <2>4. \A m \in Nat : 1 * m = m
    OBVIOUS
  <2>5. Cardinality(E) \in Nat /\ Cardinality(R) \in Nat
    BY <1>1, FS_CardinalityType
  <2>6. Cardinality({0} \X E) = Cardinality(E)
    BY <2>1, <2>2, <2>4, <2>5
  <2>7. Cardinality({1} \X R) = Cardinality(R)
    BY <2>1, <2>3, <2>4, <2>5
  <2> QED BY <2>2, <2>3, <2>6, <2>7
<1>3. ({0} \X E) \cap ({1} \X R) = {}
  OBVIOUS
<1> QED BY <1>2, <1>3, DisjointSetsAddUp DEF Pool, E, R

\* The pool is in a strict total order.
LEMMA PoolIsOrdered ==
    ASSUME NEW A \in Array, NEW want \in Wanted
    PROVE  \A p, q, r \in Pool(A, want) :
              /\ ~Before(p, p)
              /\ Before(p, q) /\ Before(q, r) => Before(p, r)
              /\ p # q => Before(p, q) \/ Before(q, p)
<1>1. free_slots(A) \subseteq Nat /\ Reclaimable(A, want) \subseteq Nat
  BY SlotsAssumption DEF free_slots, Reclaimable, owned_actions
<1>2. \A p \in Pool(A, want) : p[1] \in {0, 1} /\ p[2] \in Nat /\ p = <<p[1], p[2]>>
  BY <1>1 DEF Pool
<1> QED BY <1>2 DEF Before

\* Capacity is spent exactly: a plan that fits takes one entry of the pool for
\* each callback it has to place.  An entry's position in the pool is the number
\* of those before it, and the entries spent are the first positions.
LEMMA SpentMatchesUnheld ==
    ASSUME NEW A \in Array, NEW want \in Wanted, Fits(A, want)
    PROVE  /\ IsFiniteSet(Spent(A, want))
           /\ Cardinality(Spent(A, want)) = Cardinality(Unheld(A, want))
<1> DEFINE P == Pool(A, want)
           n == Cardinality(Unheld(A, want))
           N == Cardinality(P)
           Below(p) == {q \in P : Before(q, p)}
           place == [p \in P |-> Cardinality(Below(p))]
           S == Spent(A, want)
<1>1. IsFiniteSet(P) /\ N \in Nat
  BY PoolIsCounted, FS_CardinalityType
<1>2. n \in Nat /\ n <= N
  BY HeldKeysAreCounted, WantedIsFinite, PoolIsCounted, FS_CardinalityType DEF Fits
<1>3. \A p \in P : /\ IsFiniteSet(Below(p)) /\ place[p] = Cardinality(Below(p))
                   /\ place[p] \in 0..(N - 1)
  <2> SUFFICES ASSUME NEW p \in P
               PROVE  /\ IsFiniteSet(Below(p)) /\ place[p] = Cardinality(Below(p))
                      /\ place[p] \in 0..(N - 1)
    OBVIOUS
  <2>1. Below(p) \in SUBSET P /\ p \notin Below(p)
    BY PoolIsOrdered
  <2> HIDE DEF P, Below
  <2>2. /\ IsFiniteSet(Below(p)) /\ Cardinality(Below(p)) <= Cardinality(P)
        /\ Cardinality(P) # Cardinality(Below(p))
    BY <1>1, <2>1, FS_Subset
  <2>3. Cardinality(Below(p)) \in Nat
    BY <2>2, FS_CardinalityType
  <2> QED BY <1>1, <2>2, <2>3
<1>4. \A p, q \in P : Before(p, q) => place[p] < place[q]
  <2> SUFFICES ASSUME NEW p \in P, NEW q \in P, Before(p, q)
               PROVE  place[p] < place[q]
    OBVIOUS
  <2>1. Below(p) \in SUBSET Below(q) /\ p \in Below(q) /\ p \notin Below(p)
    BY PoolIsOrdered
  <2> HIDE DEF P, Below
  <2>2. /\ Cardinality(Below(p)) <= Cardinality(Below(q))
        /\ Cardinality(Below(q)) # Cardinality(Below(p))
    BY <1>3, <2>1, FS_Subset
  <2> QED BY <1>1, <1>3, <2>2
<1>5. \A p, q \in P : place[p] = place[q] => p = q
  <2> SUFFICES ASSUME NEW p \in P, NEW q \in P, place[p] = place[q], p # q
               PROVE  FALSE
    OBVIOUS
  <2>1. Before(p, q) \/ Before(q, p)
    BY PoolIsOrdered
  <2>2. place[p] < place[q] \/ place[q] < place[p]
    BY <1>4, <2>1
  <2>3. place[p] \in 0..(N - 1) /\ place[q] \in 0..(N - 1)
    BY <1>3
  <2> HIDE DEF place, N
  <2> QED BY <1>1, <2>2, <2>3
<1>6. S = {p \in P : place[p] < n}
  BY DEF Spent
<1>7. place \in [P -> 0..(N - 1)]
  BY <1>3
<1> HIDE DEF P, n, N, Below, place, S
<1>8. IsFiniteSet(0..(N - 1)) /\ Cardinality(0..(N - 1)) = N
  BY <1>1, FS_Interval
<1>9. \A i \in 0..(N - 1) : \E p \in P : place[p] = i
  <2>1. place \in Injection(P, 0..(N - 1))
    BY <1>5, <1>7 DEF Injection, IsInjective
  <2>2. place \in Surjection(P, 0..(N - 1))
    BY <1>8, <2>1, FS_Injection DEF N
  <2> QED BY <2>2 DEF Surjection
<1> DEFINE first == [p \in S |-> place[p]]
<1>10. first \in Bijection(S, 0..(n - 1))
  <2>1. first \in [S -> 0..(n - 1)]
    BY <1>1, <1>2, <1>6, <1>7
  <2>2. \A p, q \in S : first[p] = first[q] => p = q
    BY <1>5, <1>6
  <2>3. \A i \in 0..(n - 1) : \E p \in S : first[p] = i
    BY <1>1, <1>2, <1>6, <1>9
  <2> QED BY <2>1, <2>2, <2>3 DEF Bijection, Injection, Surjection, IsInjective
<1>11. S \in SUBSET P
  BY <1>6
<1>12. IsFiniteSet(S)
  BY <1>1, <1>11, FS_Subset
<1>13. Cardinality(0..(n - 1)) = n
  BY <1>2, FS_Interval
<1>14. Cardinality(0..(n - 1)) = Cardinality(S)
  BY <1>10, <1>12, FS_Bijection DEF ExistsBijection
<1> QED BY <1>12, <1>13, <1>14 DEF S, n

\* So every wanted callback that is not held yet gets a slot.
LEMMA EveryWantIsPlaced ==
    ASSUME NEW A \in Array, NEW want \in Wanted, Fits(A, want),
           NEW f \in Placements(A, want), NEW k \in Unheld(A, want)
    PROVE  \E p \in Spent(A, want) : f[p] = k
<1>1. f \in Injection(Spent(A, want), Unheld(A, want))
  BY DEF Placements, Injection, IsInjective
<1>2. IsFiniteSet(Unheld(A, want))
  BY WantedIsFinite, HeldKeysAreCounted
<1>3. f \in Surjection(Spent(A, want), Unheld(A, want))
  BY <1>1, <1>2, SpentMatchesUnheld, FS_Injection
<1> QED BY <1>3 DEF Surjection

-----------------------------------------------------------------------------
(* What carrying out a plan does to the array                                *)

\* B is A once the writes W were carried out over it.  Firmware may leave more
\* or less in a slot it was told to empty, but its trigger is gone.
CarriedOut(W, A, B) ==
    /\ B \in Array
    /\ \A w \in W : IF w.clears THEN ~is_configured(B[w.slot])
                                ELSE B[w.slot] = w.value
    /\ \A s \in Slots : (\A w \in W : w.slot # s) => B[s] = A[s]

\* Where the writes of a reconciliation go.
LEMMA SyncSlots ==
    ASSUME NEW A \in Array, NEW want \in Wanted, NEW f \in Placements(A, want)
    PROVE  /\ \A w \in UpdateWrites(A, want) :
                 /\ w.slot \in Paired(A, want) /\ ~w.clears
                 /\ w.value = Callback(KeyOf(A[w.slot]), want[KeyOf(A[w.slot])],
                                       A[w.slot].paced)
           /\ \A w \in NewWrites(A, want, f) : \E e \in Spent(A, want) :
                 /\ w.slot = e[2] /\ ~w.clears
                 /\ w.value = Callback(f[e], want[f[e]], e[1] = 0 /\ A[e[2]].paced)
           /\ \A w \in StaleWrites(A, want) :
                 /\ w.slot \in Reclaimable(A, want) /\ w.clears
                 /\ <<1, w.slot>> \notin Spent(A, want)
<1>1. \A s \in Paired(A, want) : s \in Slots
  BY DEF Paired, Keepers, owned_actions
<1>2. ASSUME NEW w \in StaleWrites(A, want)
      PROVE  /\ w.slot \in Reclaimable(A, want) /\ w.clears
             /\ <<1, w.slot>> \notin Spent(A, want)
  <2>1. PICK s \in Reclaimable(A, want) :
           w = ClearWrite(A, s) /\ <<1, s>> \notin Spent(A, want)
    BY DEF StaleWrites
  <2>2. w.slot = s /\ w.clears
    BY <2>1 DEF ClearWrite
  <2> QED BY <2>1, <2>2
<1> QED BY <1>1, <1>2 DEF UpdateWrites, NewWrites

LEMMA OnlyUpdatesRewriteKeptSlots ==
    ASSUME NEW A \in Array, NEW want \in Wanted, NEW f \in Placements(A, want),
           NEW w, w.slot \in Paired(A, want)
    PROVE  w \notin NewWrites(A, want, f) /\ w \notin StaleWrites(A, want)
<1>1. ASSUME w \in NewWrites(A, want, f) PROVE FALSE
  <2>1. PICK e \in Spent(A, want) : w.slot = e[2]
    BY <1>1, SyncSlots
  <2>2. e[2] \in free_slots(A) \cup Reclaimable(A, want)
    BY SpentEntries
  <2> QED BY <2>1, <2>2, PoolsAreDisjoint
<1>2. ASSUME w \in StaleWrites(A, want) PROVE FALSE
  <2>1. w.slot \in Reclaimable(A, want)
    BY <1>2, SyncSlots
  <2> QED BY <2>1, PoolsAreDisjoint
<1> QED BY <1>1, <1>2

\* A slot kept for a wanted callback is only ever rewritten in place: it is
\* live at every point of the plan.
LEMMA KeptSlotsStayLive ==
    ASSUME NEW A \in Array, NEW want \in Wanted, NEW p \in SyncPlans(A, want),
           NEW W \in SUBSET p, NEW B, CarriedOut(W, A, B),
           NEW s \in Paired(A, want)
    PROVE  s \in owned_actions(B) /\ KeyOf(B[s]) = KeyOf(A[s])
<1>1. PICK f \in Placements(A, want) :
         p = UpdateWrites(A, want) \cup NewWrites(A, want, f) \cup StaleWrites(A, want)
  BY DEF SyncPlans
<1>2. /\ s \in owned_actions(A) /\ s \in Slots /\ KeyOf(A[s]) \in DOMAIN want
      /\ A[s].paced \in BOOLEAN
  BY DEF Paired, Keepers, owned_actions, Array, Slot
<1>3. CASE \A w \in W : w.slot # s
  BY <1>2, <1>3 DEF CarriedOut, owned_actions
<1>4. CASE \E w \in W : w.slot = s
  <2>1. PICK w \in W : w.slot = s
    BY <1>4
  <2>2. w \notin NewWrites(A, want, f) /\ w \notin StaleWrites(A, want)
    BY <2>1, OnlyUpdatesRewriteKeptSlots
  <2>3. w \in UpdateWrites(A, want)
    BY <1>1, <2>2
  <2>4. B[s] = Callback(KeyOf(A[s]), want[KeyOf(A[s])], A[s].paced)
    BY <2>1, <2>3, SyncSlots DEF CarriedOut
  <2>5. KeyOf(A[s]) \in Keys /\ want[KeyOf(A[s])] \in OwnUrls
    BY <1>2, WantedIsAFunction
  <2> QED BY <1>2, <2>4, <2>5, CallbackTyped DEF owned_actions
<1> QED BY <1>3, <1>4

\* A wanted callback that was live stays live, however far the plan got.
THEOREM WantedKeysStayLive ==
    ASSUME NEW A \in Array, NEW want \in Wanted, NEW p \in SyncPlans(A, want),
           NEW W \in SUBSET p, NEW B, CarriedOut(W, A, B),
           NEW r \in owned_actions(A), KeyOf(A[r]) \in DOMAIN want
    PROVE  \E s \in owned_actions(B) : KeyOf(B[s]) = KeyOf(A[r])
<1> DEFINE same == {s \in owned_actions(A) : KeyOf(A[s]) = KeyOf(A[r])}
           s == First(same)
<1>1. same \in SUBSET Slots /\ same # {}
  BY DEF owned_actions
<1>2. s \in same /\ \A q \in same : s <= q
  BY <1>1, FirstExists
<1> HIDE DEF s
<1>3. s \in Paired(A, want) /\ KeyOf(A[s]) = KeyOf(A[r])
  BY <1>2 DEF Paired, Keepers
<1> QED BY <1>3, KeptSlotsStayLive

\* The plan that places the new callbacks as f says.
SyncPlan(A, want, f) ==
    UpdateWrites(A, want) \cup NewWrites(A, want, f) \cup StaleWrites(A, want)

\* What the array holds after the whole plan, slot by slot.
LEMMA SyncOutcome ==
    ASSUME NEW A \in Array, NEW want \in Wanted, NEW f \in Placements(A, want),
           NEW B, CarriedOut(SyncPlan(A, want, f), A, B)
    PROVE  /\ \A s \in Paired(A, want) :
                 B[s] = Callback(KeyOf(A[s]), want[KeyOf(A[s])], A[s].paced)
           /\ \A e \in Spent(A, want) :
                 B[e[2]] = Callback(f[e], want[f[e]], e[1] = 0 /\ A[e[2]].paced)
           /\ \A s \in owned_actions(B) :
                 s \in Paired(A, want) \/ \E e \in Spent(A, want) : e[2] = s
<1>1. ASSUME NEW s \in Paired(A, want)
      PROVE  B[s] = Callback(KeyOf(A[s]), want[KeyOf(A[s])], A[s].paced)
  <2> DEFINE v == Callback(KeyOf(A[s]), want[KeyOf(A[s])], A[s].paced)
             w == [slot |-> s, clears |-> FALSE, value |-> v]
  <2>1. s \in Slots /\ A[s] \in Slot /\ is_owned(A[s])
    BY DEF Paired, Keepers, owned_actions, Array
  <2>2. CASE A[s].param # want[KeyOf(A[s])] \/ A[s].tuned
    <3>1. w \in UpdateWrites(A, want)
      BY <2>2 DEF UpdateWrites
    <3>2. w \in SyncPlan(A, want, f) /\ w.slot = s /\ w.clears = FALSE /\ w.value = v
      BY <3>1 DEF SyncPlan
    <3> HIDE DEF w, v
    <3>3. B[s] = v
      BY <3>2 DEF CarriedOut
    <3> QED BY <3>3 DEF v
  <2>3. CASE ~(A[s].param # want[KeyOf(A[s])] \/ A[s].tuned)
    <3>1. A[s] = v
      BY <2>1, <2>3 DEF Slot, is_owned, Callback, KeyOf
    <3>2. \A u \in SyncPlan(A, want, f) : u.slot # s
      <4> SUFFICES ASSUME NEW u \in SyncPlan(A, want, f), u.slot = s PROVE FALSE
        OBVIOUS
      <4>1. u \notin NewWrites(A, want, f) /\ u \notin StaleWrites(A, want)
        BY OnlyUpdatesRewriteKeptSlots
      <4>2. u \notin UpdateWrites(A, want)
        BY <2>3 DEF UpdateWrites
      <4> QED BY <4>1, <4>2 DEF SyncPlan
    <3> QED BY <2>1, <3>1, <3>2 DEF CarriedOut
  <2> QED BY <2>2, <2>3
<1>2. ASSUME NEW e \in Spent(A, want)
      PROVE  B[e[2]] = Callback(f[e], want[f[e]], e[1] = 0 /\ A[e[2]].paced)
  <2> DEFINE v == Callback(f[e], want[f[e]], e[1] = 0 /\ A[e[2]].paced)
             w == [slot |-> e[2], clears |-> FALSE, value |-> v]
  <2>1. w \in NewWrites(A, want, f)
    BY DEF NewWrites
  <2>2. w \in SyncPlan(A, want, f) /\ w.slot = e[2] /\ w.clears = FALSE /\ w.value = v
    BY <2>1 DEF SyncPlan
  <2> HIDE DEF w, v
  <2>3. B[e[2]] = v
    BY <2>2 DEF CarriedOut
  <2> QED BY <2>3 DEF v
<1>3. ASSUME NEW s \in owned_actions(B), s \notin Paired(A, want),
             \A e \in Spent(A, want) : e[2] # s
      PROVE  FALSE
  <2>1. s \in Slots /\ is_configured(B[s]) /\ is_owned(B[s])
    BY DEF owned_actions
  <2>2. CASE s \in Reclaimable(A, want)
    <3>1. <<1, s>> \notin Spent(A, want)
      BY <1>3
    <3>2. ClearWrite(A, s) \in SyncPlan(A, want, f)
      BY <2>2, <3>1 DEF SyncPlan, StaleWrites
    <3>3. ClearWrite(A, s).slot = s /\ ClearWrite(A, s).clears
      BY DEF ClearWrite
    <3> QED BY <2>1, <3>2, <3>3 DEF CarriedOut
  <2>3. CASE s \notin Reclaimable(A, want)
    <3>1. ASSUME NEW u \in SyncPlan(A, want, f), u.slot = s PROVE FALSE
      <4>1. u \notin UpdateWrites(A, want) /\ u \notin StaleWrites(A, want)
        BY <1>3, <2>3, <3>1, SyncSlots
      <4>2. u \in NewWrites(A, want, f)
        BY <4>1 DEF SyncPlan
      <4>3. PICK e \in Spent(A, want) : u.slot = e[2]
        BY <4>2, SyncSlots
      <4> QED BY <1>3, <3>1, <4>3
    <3>2. B[s] = A[s]
      BY <2>1, <3>1 DEF CarriedOut
    <3>3. s \in owned_actions(A)
      BY <2>1, <3>2 DEF owned_actions
    <3> QED BY <1>3, <2>3, <3>3 DEF Reclaimable
  <2> QED BY <2>2, <2>3
<1> QED BY <1>1, <1>2, <1>3

\* The array is as the request wants it: each wanted key is served by one slot,
\* with the wanted URL and nothing of its old tuning, and no other key is.
Established(B, want) ==
    /\ \A s \in owned_actions(B) : /\ KeyOf(B[s]) \in DOMAIN want
                                   /\ B[s].param = want[KeyOf(B[s])]
                                   /\ ~B[s].tuned
    /\ \A s, r \in owned_actions(B) : KeyOf(B[s]) = KeyOf(B[r]) => s = r
    /\ \A k \in DOMAIN want : \E s \in owned_actions(B) : KeyOf(B[s]) = k

\* A slot that is live after the plan was kept, or got a new callback.
LEMMA LiveSlotsAfterSync ==
    ASSUME NEW A \in Array, NEW want \in Wanted, NEW f \in Placements(A, want),
           NEW B, CarriedOut(SyncPlan(A, want, f), A, B)
    PROVE  /\ \A s \in Paired(A, want) :
                 /\ s \in owned_actions(B) /\ KeyOf(B[s]) = KeyOf(A[s])
                 /\ KeyOf(A[s]) \in DOMAIN want /\ B[s].paced = A[s].paced
                 /\ B[s].param = want[KeyOf(A[s])] /\ ~B[s].tuned
           /\ \A e \in Spent(A, want) :
                 /\ e[2] \in owned_actions(B) /\ KeyOf(B[e[2]]) = f[e]
                 /\ f[e] \in Unheld(A, want)
                 /\ B[e[2]].paced = (e[1] = 0 /\ A[e[2]].paced)
                 /\ B[e[2]].param = want[f[e]] /\ ~B[e[2]].tuned
<1>1. ASSUME NEW s \in Paired(A, want)
      PROVE  /\ s \in owned_actions(B) /\ KeyOf(B[s]) = KeyOf(A[s])
             /\ KeyOf(A[s]) \in DOMAIN want /\ B[s].paced = A[s].paced
             /\ B[s].param = want[KeyOf(A[s])] /\ ~B[s].tuned
  <2>1. B[s] = Callback(KeyOf(A[s]), want[KeyOf(A[s])], A[s].paced)
    BY SyncOutcome
  <2>2. /\ s \in Slots /\ KeyOf(A[s]) \in DOMAIN want /\ A[s].paced \in BOOLEAN
    BY DEF Paired, Keepers, owned_actions, Array, Slot
  <2>3. KeyOf(A[s]) \in Keys /\ want[KeyOf(A[s])] \in OwnUrls
    BY <2>2, WantedIsAFunction
  <2>4. is_configured(B[s]) /\ is_owned(B[s]) /\ KeyOf(B[s]) = KeyOf(A[s])
    BY <2>1, <2>2, <2>3, CallbackTyped
  <2>5. /\ B[s].paced = A[s].paced
        /\ B[s].param = want[KeyOf(A[s])] /\ ~B[s].tuned
    BY <2>1 DEF Callback
  <2> QED BY <2>2, <2>4, <2>5 DEF owned_actions
<1>2. ASSUME NEW e \in Spent(A, want)
      PROVE  /\ e[2] \in owned_actions(B) /\ KeyOf(B[e[2]]) = f[e]
             /\ f[e] \in Unheld(A, want)
             /\ B[e[2]].paced = (e[1] = 0 /\ A[e[2]].paced)
             /\ B[e[2]].param = want[f[e]] /\ ~B[e[2]].tuned
  <2>1. B[e[2]] = Callback(f[e], want[f[e]], e[1] = 0 /\ A[e[2]].paced)
    BY SyncOutcome
  <2>2. e[2] \in Slots
    BY SpentEntries DEF free_slots, Reclaimable, owned_actions
  <2>3. f[e] \in Unheld(A, want)
    BY DEF Placements
  <2>4. f[e] \in Keys /\ want[f[e]] \in OwnUrls
    BY <2>3, WantedIsAFunction DEF Unheld
  <2>5. (e[1] = 0 /\ A[e[2]].paced) \in BOOLEAN
    OBVIOUS
  <2>6. is_configured(B[e[2]]) /\ is_owned(B[e[2]]) /\ KeyOf(B[e[2]]) = f[e]
    BY <2>1, <2>4, <2>5, CallbackTyped
  <2>7. /\ B[e[2]].paced = (e[1] = 0 /\ A[e[2]].paced)
        /\ B[e[2]].param = want[f[e]] /\ ~B[e[2]].tuned
    BY <2>1 DEF Callback
  <2> QED BY <2>2, <2>3, <2>6, <2>7 DEF owned_actions
<1> QED BY <1>1, <1>2

\* A reconciliation that fits and is carried out leaves the array as wanted.
THEOREM ReconciliationEstablishes ==
    ASSUME NEW A \in Array, NEW want \in Wanted, Fits(A, want),
           NEW p \in SyncPlans(A, want), NEW B, CarriedOut(p, A, B)
    PROVE  Established(B, want)
<1>1. PICK f \in Placements(A, want) : CarriedOut(SyncPlan(A, want, f), A, B)
  BY DEF SyncPlans, SyncPlan
<1>2. /\ \A s \in Paired(A, want) :
            /\ s \in owned_actions(B) /\ KeyOf(B[s]) = KeyOf(A[s])
            /\ KeyOf(A[s]) \in DOMAIN want
            /\ B[s].param = want[KeyOf(A[s])] /\ ~B[s].tuned
      /\ \A e \in Spent(A, want) :
            /\ e[2] \in owned_actions(B) /\ KeyOf(B[e[2]]) = f[e]
            /\ f[e] \in Unheld(A, want)
            /\ B[e[2]].param = want[f[e]] /\ ~B[e[2]].tuned
  BY <1>1, LiveSlotsAfterSync
<1>3. \A s \in owned_actions(B) :
         s \in Paired(A, want) \/ \E e \in Spent(A, want) : e[2] = s
  BY <1>1, SyncOutcome
<1>4. \A e \in Spent(A, want) : f[e] \in DOMAIN want
  BY <1>2 DEF Unheld
<1>5. \A e \in Spent(A, want), s \in Paired(A, want) : f[e] # KeyOf(A[s])
  BY <1>2 DEF Unheld
<1>6. ASSUME NEW s \in owned_actions(B), NEW r \in owned_actions(B),
             KeyOf(B[s]) = KeyOf(B[r])
      PROVE  s = r
  <2>1. CASE s \in Paired(A, want) /\ r \in Paired(A, want)
    BY <1>2, <1>6, <2>1, KeepersAreDistinct DEF Paired
  <2>2. CASE s \notin Paired(A, want) /\ r \notin Paired(A, want)
    <3>1. PICK e \in Spent(A, want) : e[2] = s
      BY <1>3, <2>2
    <3>2. PICK d \in Spent(A, want) : d[2] = r
      BY <1>3, <2>2
    <3>3. f[e] = f[d]
      BY <1>2, <1>6, <3>1, <3>2
    <3>4. e = d
      BY <3>3 DEF Placements
    <3> QED BY <3>1, <3>2, <3>4
  <2>3. CASE s \in Paired(A, want) /\ r \notin Paired(A, want)
    BY <1>2, <1>3, <1>5, <1>6, <2>3
  <2>4. CASE s \notin Paired(A, want) /\ r \in Paired(A, want)
    BY <1>2, <1>3, <1>5, <1>6, <2>4
  <2> QED BY <2>1, <2>2, <2>3, <2>4
<1>7. ASSUME NEW k \in DOMAIN want
      PROVE  \E s \in owned_actions(B) : KeyOf(B[s]) = k
  <2>1. CASE k \in Unheld(A, want)
    <3>1. PICK e \in Spent(A, want) : f[e] = k
      BY <2>1, EveryWantIsPlaced
    <3> QED BY <1>2, <3>1
  <2>2. CASE k \notin Unheld(A, want)
    <3>1. PICK s \in Paired(A, want) : KeyOf(A[s]) = k
      BY <2>2 DEF Unheld
    <3> QED BY <1>2, <3>1
  <2> QED BY <2>1, <2>2
<1>8. ASSUME NEW s \in owned_actions(B)
      PROVE  /\ KeyOf(B[s]) \in DOMAIN want
             /\ B[s].param = want[KeyOf(B[s])] /\ ~B[s].tuned
  BY <1>2, <1>3, <1>4
<1> QED BY <1>6, <1>7, <1>8 DEF Established

\* What throttled the previous occupant of a slot is gone.
LEMMA PacingComesFromOneself ==
    ASSUME NEW A \in Array, NEW want \in Wanted,
           \A s \in free_slots(A) : ~A[s].paced,
           NEW p \in SyncPlans(A, want), NEW B, CarriedOut(p, A, B),
           NEW s \in owned_actions(B), B[s].paced
    PROVE  s \in owned_actions(A) /\ KeyOf(A[s]) = KeyOf(B[s])
<1>1. PICK f \in Placements(A, want) : CarriedOut(SyncPlan(A, want, f), A, B)
  BY DEF SyncPlans, SyncPlan
<1>2. ~ \E e \in Spent(A, want) : e[2] = s
  <2> SUFFICES ASSUME NEW e \in Spent(A, want), e[2] = s PROVE FALSE
    OBVIOUS
  <2>1. e[1] = 0 /\ A[s].paced
    BY <1>1, LiveSlotsAfterSync
  <2>2. s \in free_slots(A)
    BY <2>1, SpentEntries
  <2> QED BY <2>1, <2>2
<1>3. s \in Paired(A, want)
  BY <1>1, <1>2, SyncOutcome
<1>4. KeyOf(B[s]) = KeyOf(A[s])
  BY <1>1, <1>3, LiveSlotsAfterSync
<1> QED BY <1>3, <1>4 DEF Paired, Keepers

\* Nothing missing, nothing stale, no duplicate: as many slots as callbacks.
LEMMA EstablishedIsExact ==
    ASSUME NEW B \in Array, NEW want \in Wanted, Established(B, want)
    PROVE  Cardinality(owned_actions(B)) = Cardinality(DOMAIN want)
<1> DEFINE O == owned_actions(B)
           K == DOMAIN want
           key == [s \in O |-> KeyOf(B[s])]
<1>1. key \in Bijection(O, K)
  <2>1. key \in [O -> K]
    BY DEF Established
  <2>2. \A s, r \in O : key[s] = key[r] => s = r
    BY DEF Established
  <2>3. \A k \in K : \E s \in O : key[s] = k
    BY DEF Established
  <2> QED BY <2>1, <2>2, <2>3 DEF Bijection, Injection, Surjection, IsInjective
<1>2. IsFiniteSet(O)
  BY AccessorsAreFinite
<1> HIDE DEF O, K, key
<1>3. Cardinality(K) = Cardinality(O)
  BY <1>1, <1>2, FS_Bijection DEF ExistsBijection
<1> QED BY <1>3 DEF O, K

\* Over an array that is as wanted a reconciliation plans no write at all.
THEOREM EstablishedNeedsNothing ==
    ASSUME NEW B \in Array, NEW want \in Wanted, Established(B, want)
    PROVE  SyncPlans(B, want) = {{}}
<1>1. Keepers(B) = owned_actions(B)
  <2>1. \A s \in owned_actions(B) : s \in Nat
    BY SlotsAssumption DEF owned_actions
  <2> QED BY <2>1 DEF Established, Keepers
<1>2. Paired(B, want) = owned_actions(B)
  BY <1>1 DEF Established, Paired
<1>3. Reclaimable(B, want) = {} /\ Unheld(B, want) = {}
  BY <1>2 DEF Established, Reclaimable, Unheld
<1>4. Fits(B, want)
  <2>1. /\ Cardinality(free_slots(B)) \in Nat
        /\ Cardinality(Reclaimable(B, want)) \in Nat
    BY AccessorsAreFinite, FS_CardinalityType
  <2> QED BY <1>3, <2>1, FS_EmptySet DEF Fits
<1>5. Spent(B, want) = {}
  BY <1>3, <1>4, SpentMatchesUnheld, FS_EmptySet
<1>6. StaleWrites(B, want) = {}
  BY <1>3 DEF StaleWrites
<1>7. UpdateWrites(B, want) = {}
  BY <1>2 DEF UpdateWrites, Established
<1>8. \A f \in Placements(B, want) : NewWrites(B, want, f) = {}
  BY <1>5 DEF NewWrites
<1>9. \E f : f \in Placements(B, want)
  <2>1. [e \in {} |-> e] \in Placements(B, want)
    BY <1>3, <1>5 DEF Placements
  <2> QED BY <2>1
<1> QED BY <1>6, <1>7, <1>8, <1>9 DEF SyncPlans

\* A removal that is carried out leaves no slot of ours able to fire.
LEMMA RemovalErasesOwned ==
    ASSUME NEW A \in Array, NEW B, CarriedOut(RemovalPlan(A), A, B)
    PROVE  owned_actions(B) = {}
<1> SUFFICES ASSUME NEW s \in Slots, is_configured(B[s]), is_owned(B[s])
             PROVE  FALSE
  BY DEF owned_actions
<1>1. CASE is_owned(A[s])
  <2>1. ClearWrite(A, s) \in RemovalPlan(A)
    BY <1>1 DEF RemovalPlan
  <2>2. ClearWrite(A, s).slot = s /\ ClearWrite(A, s).clears
    BY DEF ClearWrite
  <2> QED BY <2>1, <2>2 DEF CarriedOut
<1>2. CASE ~is_owned(A[s])
  <2>1. \A w \in RemovalPlan(A) : w.slot # s
    BY <1>2, RemovalPlanOnlyClearsOwned
  <2> QED BY <1>2, <2>1 DEF CarriedOut
<1> QED BY <1>1, <1>2
=============================================================================
