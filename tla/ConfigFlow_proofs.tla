------------------------- MODULE ConfigFlow_proofs -------------------------
(***************************************************************************)
(* That no flow ever costs a device its entry and no dialog an option: for *)
(* any devices, addresses, flows and dialogs, whatever moves meanwhile.    *)
(***************************************************************************)
EXTENDS ConfigFlow, ActionSlots_proofs, TLAPS

(* A flow is one of Flows and has a form and a device, or none yet. *)
FlowsTyped ==
    /\ flow = [f \in Flows |-> flow[f]]
    /\ \A f \in Flows : {"pc", "id"} \subseteq DOMAIN flow[f]

(* async_set_unique_id: no device is in two flows at once. *)
OneFlowPerDevice ==
    \A f, g \in Flows : flow[f].id = flow[g].id /\ flow[f].id # NoDevice => f = g

AfterTheProbe == {"confirm", "inputs", "events", "manual"}

(* A flow that got past the probe will create the entry of a device that
   has none: nothing but that flow could give it one. *)
FormsAreForNewDevices ==
    \A f \in Flows :
        flow[f].pc \in AfterTheProbe
            => flow[f].id # NoDevice /\ ~Configured(flow[f].id)

EntriesTyped == \A e \in entries : {"id", "host", "by"} \subseteq DOMAIN e

(* Configured, after the step. *)
ConfiguredThen(d) == \E e \in entries' : e.id = d

FInv == FlowsTyped /\ EntriesTyped /\ OneFlowPerDevice /\ FormsAreForNewDevices

(* Handing back a copy of the options needs there to be options. *)
OptionsTyped == options = [d \in DOMAIN options |-> options[d]]

OInv == SavedSectionsSurvive /\ OptionsTyped

(* What a form knows of the slots is what its probe found. *)
Counting == {"confirm", "inputs", "events"}

Counted(form) ==
    form.pc \in Counting =>
        /\ {"pc", "supports", "available", "enabled", "probed"} \subseteq DOMAIN form
        /\ \A A \in form.probed : A \in Array /\ form.available = Available(A)
        /\ form.supports => form.probed # {}

CInv == slots \in [Reports -> Tables] /\ \A f \in Flows : Counted(flow[f])

-----------------------------------------------------------------------------
LEMMA NoDeviceIsNone == \A d \in Devices : d # NoDevice
BY ConfigFlowAssumption DEF ConfigFlowAssumption

(* Following a device to another address configures the same devices. *)
LEMMA RelocatedKeeps ==
    ASSUME NEW d, NEW h, EntriesTyped
    PROVE  /\ \A e \in entries : \E k \in Relocated(d, h) : k.id = e.id /\ k.by = e.by
           /\ \A k \in Relocated(d, h) : /\ {"id", "host", "by"} \subseteq DOMAIN k
                                         /\ \E e \in entries : k.id = e.id
<1> DEFINE Moved(e) == IF e.id = d THEN [e EXCEPT !.host = h] ELSE e
<1>1. \A e \in entries : /\ Moved(e).id = e.id /\ Moved(e).by = e.by
                         /\ {"id", "host", "by"} \subseteq DOMAIN Moved(e)
    BY DEF EntriesTyped
<1>2. Relocated(d, h) = {Moved(e) : e \in entries}
    BY DEF Relocated
<1> HIDE DEF Moved
<1> QED
    BY <1>1, <1>2

LEMMA RelocatedKeepsTyped ==
    ASSUME NEW d, NEW h, EntriesTyped, entries' = Relocated(d, h)
    PROVE  EntriesTyped' /\ \A x : ConfiguredThen(x) => Configured(x)
BY RelocatedKeeps DEF EntriesTyped, Configured, ConfiguredThen

(* What a step of one flow must see to. *)
LEMMA FormKeeps ==
    ASSUME FInv, NEW f \in Flows, NEW form,
           flow' = [flow EXCEPT ![f] = form],
           {"pc", "id"} \subseteq DOMAIN form,
           form.id # NoDevice => ~InProgress(f, form.id),
           form.pc \in AfterTheProbe => form.id # NoDevice /\ ~ConfiguredThen(form.id),
           EntriesTyped',
           \A g \in Flows \ {f} : ConfiguredThen(flow[g].id) => Configured(flow[g].id)
    PROVE  FInv'
<1>1. flow'[f] = form /\ \A g \in Flows \ {f} : flow'[g] = flow[g]
    BY DEF FInv, FlowsTyped
<1>2. FlowsTyped'
    <2>1. flow' = [g \in Flows |-> flow'[g]]
        BY DEF FInv, FlowsTyped
    <2> QED
        BY <1>1, <2>1 DEF FInv, FlowsTyped
<1>3. OneFlowPerDevice'
    <2> SUFFICES ASSUME NEW g \in Flows, NEW k \in Flows,
                        flow'[g].id = flow'[k].id, flow'[g].id # NoDevice
                 PROVE  g = k
        BY DEF OneFlowPerDevice
    <2> QED
        BY <1>1 DEF FInv, OneFlowPerDevice, InProgress
<1>4. FormsAreForNewDevices'
    <2> SUFFICES ASSUME NEW g \in Flows, flow'[g].pc \in AfterTheProbe
                 PROVE  flow'[g].id # NoDevice /\ ~ConfiguredThen(flow'[g].id)
        BY DEF FormsAreForNewDevices, Configured, ConfiguredThen
    <2> QED
        BY <1>1 DEF FInv, FormsAreForNewDevices
<1> QED
    BY <1>2, <1>3, <1>4 DEF FInv

(* Steps that leave the entries alone. *)
LEMMA FormAloneKeeps ==
    ASSUME FInv, NEW f \in Flows, NEW form,
           flow' = [flow EXCEPT ![f] = form], UNCHANGED entries,
           {"pc", "id"} \subseteq DOMAIN form,
           form.id # NoDevice => ~InProgress(f, form.id),
           form.pc \in AfterTheProbe => form.id # NoDevice /\ ~Configured(form.id)
    PROVE  FInv'
<1>1. EntriesTyped' /\ \A x : ConfiguredThen(x) <=> Configured(x)
    BY DEF FInv, EntriesTyped, Configured, ConfiguredThen
<1> QED
    BY <1>1, FormKeeps

(* A flow that ends, or goes back to the first form, has no device. *)
LEMMA NoFormKeeps ==
    ASSUME FInv, NEW f \in Flows, NEW form,
           flow' = [flow EXCEPT ![f] = form], UNCHANGED entries,
           {"pc", "id"} \subseteq DOMAIN form, form.id = NoDevice,
           form.pc \notin AfterTheProbe
    PROVE  FInv'
BY FormAloneKeeps

(* A flow that goes on with its device. *)
LEMMA GoesOnKeeps ==
    ASSUME FInv, NEW f \in Flows, NEW form,
           flow' = [flow EXCEPT ![f] = form], UNCHANGED entries,
           flow[f].pc \in AfterTheProbe,
           {"pc", "id"} \subseteq DOMAIN form, form.id = flow[f].id
    PROVE  FInv'
<1>1. flow[f].id # NoDevice /\ ~Configured(flow[f].id)
    BY DEF FInv, FormsAreForNewDevices
<1>2. ~InProgress(f, flow[f].id)
    BY <1>1 DEF FInv, OneFlowPerDevice, InProgress
<1> QED
    BY <1>1, <1>2, FormAloneKeeps

LEMMA NothingKeeps ==
    ASSUME FInv, UNCHANGED <<flow, entries>>
    PROVE  FInv'
BY DEF FInv, FlowsTyped, EntriesTyped, OneFlowPerDevice, FormsAreForNewDevices, Configured

LEMMA InitEstablishes == Init => FInv /\ OInv
<1> SUFFICES ASSUME Init PROVE FInv /\ OInv
    OBVIOUS
<1>1. FlowsTyped /\ EntriesTyped
    BY DEF Init, FlowsTyped, EntriesTyped, Idle
<1>2. OneFlowPerDevice /\ FormsAreForNewDevices
    BY DEF Init, OneFlowPerDevice, FormsAreForNewDevices, AfterTheProbe, Idle
<1>3. OInv
    BY DEF Init, OInv, SavedSectionsSurvive, OptionsTyped
<1> QED
    BY <1>1, <1>2, <1>3 DEF FInv

-----------------------------------------------------------------------------
(* A step may only follow a device to another address, or add the entry of
   a new one. *)
LEMMA EntriesFollow ==
    ASSUME EntriesTyped, NEW d, NEW h, entries' = Relocated(d, h)
    PROVE  \A e \in entries : \E k \in entries' : k.id = e.id /\ k.by = e.by
BY RelocatedKeeps

Kept == \A e \in entries : \E k \in entries' : k.id = e.id /\ k.by = e.by

LEMMA IdleForm ==
    {"pc", "id"} \subseteq DOMAIN Idle /\ Idle.id = NoDevice /\ Idle.pc \notin AfterTheProbe
BY DEF Idle, AfterTheProbe

LEMMA EndsKeeps ==
    ASSUME FInv, NEW f \in Flows, Ends(f), UNCHANGED entries
    PROVE  FInv'
BY IdleForm, NoFormKeeps DEF Ends

LEMMA UserFormKeeps ==
    ASSUME FInv, NEW f \in Flows, UNCHANGED entries,
           Shows(f, [pc |-> "user", id |-> NoDevice])
    PROVE  FInv'
<1> DEFINE form == [pc |-> "user", id |-> NoDevice]
<1>1. /\ {"pc", "id"} \subseteq DOMAIN form /\ form.id = NoDevice
      /\ form.pc \notin AfterTheProbe
    BY DEF AfterTheProbe
<1>2. flow' = [flow EXCEPT ![f] = form]
    BY DEF Shows
<1> HIDE DEF form
<1> QED
    BY <1>1, <1>2, NoFormKeeps

LEMMA BeginKeeps ==
    ASSUME FInv, NEW f \in Flows,
           Begin(f) \/ \E h \in Hosts : SubmitUser(f, h)
    PROVE  FInv' /\ Kept
<1>1. ASSUME Shows(f, [pc |-> "user", id |-> NoDevice]), UNCHANGED entries PROVE FInv'
    BY <1>1, UserFormKeeps
<1>2. ASSUME NEW source, NEW h, Shows(f, Probing(source, h, NoDevice)), UNCHANGED entries
      PROVE  FInv'
    <2> DEFINE form == Probing(source, h, NoDevice)
    <2>1. /\ {"pc", "id"} \subseteq DOMAIN form /\ form.id = NoDevice
          /\ form.pc \notin AfterTheProbe
        BY DEF Probing, AfterTheProbe
    <2>2. flow' = [flow EXCEPT ![f] = form]
        BY <1>2 DEF Shows
    <2> HIDE DEF form
    <2> QED
        BY <1>2, <2>1, <2>2, NoFormKeeps
<1> QED
    BY <1>1, <1>2 DEF Begin, SubmitUser, Kept

LEMMA DhcpKeeps ==
    ASSUME FInv, NEW f \in Flows, NEW d \in Devices, DhcpOffer(f, d)
    PROVE  FInv' /\ Kept
<1>1. CASE Configured(d)
    <2>1. entries' = Relocated(d, host[d]) /\ UNCHANGED flow
        BY <1>1 DEF DhcpOffer
    <2>2. EntriesTyped' /\ \A x : ConfiguredThen(x) => Configured(x)
        BY <2>1, RelocatedKeepsTyped DEF FInv
    <2>3. FInv'
        BY <2>1, <2>2
        DEF FInv, FlowsTyped, OneFlowPerDevice, FormsAreForNewDevices, Configured,
            ConfiguredThen
    <2> QED
        BY <2>1, <2>3, EntriesFollow DEF FInv, Kept
<1>2. CASE ~Configured(d)
    <2>1. /\ flow' = [flow EXCEPT ![f] = Probing("dhcp", host[d], d)]
          /\ UNCHANGED entries /\ ~InProgress(f, d)
        BY <1>2 DEF DhcpOffer, Shows
    <2>2. /\ {"pc", "id"} \subseteq DOMAIN Probing("dhcp", host[d], d)
          /\ Probing("dhcp", host[d], d).id = d
          /\ Probing("dhcp", host[d], d).pc \notin AfterTheProbe
        BY DEF Probing, AfterTheProbe
    <2> QED
        BY <2>1, <2>2, FormAloneKeeps DEF Kept
<1> QED
    BY <1>1, <1>2

LEMMA ProbeKeeps ==
    ASSUME FInv, NEW f \in Flows, ProbeFails(f) \/ Probed(f)
    PROVE  FInv' /\ Kept
<1>1. CASE ProbeFails(f)
    <2>1. UNCHANGED entries /\ (Shows(f, [pc |-> "user", id |-> NoDevice]) \/ Ends(f))
        BY <1>1 DEF ProbeFails
    <2>2. ASSUME Shows(f, [pc |-> "user", id |-> NoDevice]) PROVE FInv'
        BY <2>1, <2>2, UserFormKeeps
    <2> QED
        BY <2>1, <2>2, EndsKeeps DEF Kept
<1>2. CASE Probed(f)
    <2>1. PICK d \in At(flow[f].host) :
            \/ /\ InProgress(f, d)
               /\ Ends(f) /\ UNCHANGED entries
            \/ /\ ~InProgress(f, d) /\ AlreadyConfigured(f, d)
               /\ entries' = Relocated(d, flow[f].host)
               /\ Ends(f)
            \/ /\ ~InProgress(f, d) /\ ~AlreadyConfigured(f, d)
               /\ UNCHANGED entries
               /\ Ends(f) \/ \E pc, supports : Shows(f, Form(pc, f, d, supports))
        BY <1>2 DEF Probed
    <2>2. d # NoDevice
        BY NoDeviceIsNone DEF At
    <2>3. ASSUME Ends(f), UNCHANGED entries PROVE FInv' /\ Kept
        BY <2>3, EndsKeeps DEF Kept
    <2>4. ASSUME Ends(f), entries' = Relocated(d, flow[f].host) PROVE FInv' /\ Kept
        <3>1. EntriesTyped' /\ \A x : ConfiguredThen(x) => Configured(x)
            BY <2>4, RelocatedKeepsTyped DEF FInv
        <3>2. FInv'
            BY <2>4, <3>1, IdleForm, FormKeeps DEF Ends
        <3> QED
            BY <2>4, <3>2, EntriesFollow DEF FInv, Kept
    <2>5. ASSUME NEW pc, NEW supports, Shows(f, Form(pc, f, d, supports)), UNCHANGED entries,
                 ~InProgress(f, d), ~Configured(d)
          PROVE  FInv' /\ Kept
        <3>1. /\ {"pc", "id"} \subseteq DOMAIN Form(pc, f, d, supports)
              /\ Form(pc, f, d, supports).id = d
            BY DEF Form
        <3>2. flow' = [flow EXCEPT ![f] = Form(pc, f, d, supports)]
            BY <2>5 DEF Shows
        <3>3. FInv'
            BY <2>2, <2>5, <3>1, <3>2, FormAloneKeeps
        <3> QED
            BY <2>5, <3>3 DEF Kept
    <2> QED
        BY <2>1, <2>3, <2>4, <2>5 DEF AlreadyConfigured
<1> QED
    BY <1>1, <1>2

LEMMA FormsKeep ==
    ASSUME FInv, NEW f \in Flows,
           \/ Proceed(f) \/ Close(f)
           \/ \E selected \in Selections : Refuse(f, selected) \/ ChooseManual(f, selected)
    PROVE  FInv' /\ Kept
<1>0. UNCHANGED entries
    BY DEF Proceed, Close, Refuse, ChooseManual
<1>1. {"pc", "id"} \subseteq DOMAIN flow[f] /\ flow = [g \in Flows |-> flow[g]]
    BY DEF FInv, FlowsTyped
<1>2. CASE Proceed(f)
    <2>1. flow' = [flow EXCEPT ![f] = [flow[f] EXCEPT !.pc = "events"]]
        BY <1>1, <1>2 DEF Proceed
    <2>2. flow[f].pc \in AfterTheProbe
        BY <1>2 DEF Proceed, AfterTheProbe
    <2>3. /\ {"pc", "id"} \subseteq DOMAIN [flow[f] EXCEPT !.pc = "events"]
          /\ [flow[f] EXCEPT !.pc = "events"].id = flow[f].id
        BY <1>1
    <2> QED
        BY <1>0, <2>1, <2>2, <2>3, GoesOnKeeps DEF Kept
<1>3. CASE Close(f)
    BY <1>0, <1>3, EndsKeeps DEF Close, Kept
<1>4. ASSUME NEW selected \in Selections, Refuse(f, selected) PROVE FInv'
    <2>1. flow' = [flow EXCEPT ![f] = [flow[f] EXCEPT !.enabled = selected]]
        BY <1>1, <1>4 DEF Refuse
    <2>2. flow[f].pc \in AfterTheProbe
        BY <1>4 DEF Refuse, Automatic, AfterTheProbe
    <2>3. /\ {"pc", "id"} \subseteq DOMAIN [flow[f] EXCEPT !.enabled = selected]
          /\ [flow[f] EXCEPT !.enabled = selected].id = flow[f].id
        BY <1>1
    <2> QED
        BY <1>0, <2>1, <2>2, <2>3, GoesOnKeeps
<1>5. ASSUME NEW selected \in Selections, ChooseManual(f, selected) PROVE FInv'
    <2> DEFINE form == [pc |-> "manual", id |-> flow[f].id, host |-> flow[f].host,
                        supports |-> flow[f].supports, selected |-> selected]
    <2>1. flow' = [flow EXCEPT ![f] = form]
        BY <1>5 DEF ChooseManual, Shows
    <2>2. flow[f].pc \in AfterTheProbe
        BY <1>5 DEF ChooseManual, AfterTheProbe
    <2>3. {"pc", "id"} \subseteq DOMAIN form /\ form.id = flow[f].id
        OBVIOUS
    <2> HIDE DEF form
    <2> QED
        BY <1>0, <2>1, <2>2, <2>3, GoesOnKeeps
<1> QED
    BY <1>0, <1>2, <1>3, <1>4, <1>5 DEF Kept

(* The entry that replaces those of its device replaces none. *)
LEMMA CreatesKeeps ==
    ASSUME FInv, NEW f \in Flows, NEW chosen, Creates(f, chosen),
           flow[f].pc \in AfterTheProbe
    PROVE  FInv' /\ Kept
<1> DEFINE d == flow[f].id
           new == [id |-> d, host |-> flow[f].host, supports |-> flow[f].supports, by |-> f]
<1>1. d # NoDevice /\ ~Configured(d)
    BY DEF FInv, FormsAreForNewDevices
<1>2. /\ entries' = {e \in entries : e.id # d} \cup {new}
      /\ flow' = [flow EXCEPT ![f] = Idle]
    BY DEF Creates, Ends
<1>3. entries \subseteq entries'
    BY <1>1, <1>2 DEF Configured
<1>4. new.id = d /\ {"id", "host", "by"} \subseteq DOMAIN new
    OBVIOUS
<1> HIDE DEF new
<1>5. EntriesTyped'
    BY <1>2, <1>4 DEF FInv, EntriesTyped
<1>6. \A g \in Flows \ {f} : ConfiguredThen(flow[g].id) => Configured(flow[g].id)
    <2> SUFFICES ASSUME NEW g \in Flows \ {f}, NEW e \in entries', e.id = flow[g].id
                 PROVE  Configured(flow[g].id)
        BY DEF ConfiguredThen
    <2>2. flow[g].id # d
        BY <1>1 DEF FInv, OneFlowPerDevice
    <2> QED
        BY <1>2, <1>4, <2>2 DEF Configured
<1>7. FInv'
    BY <1>2, <1>5, <1>6, IdleForm, FormKeeps
<1> QED
    BY <1>3, <1>7 DEF Kept

LEMMA FlowStepKeeps ==
    ASSUME FInv, NEW f \in Flows, FlowStep(f)
    PROVE  FInv' /\ Kept
<1>1. ASSUME NEW selected \in Selections, Admit(f, selected) PROVE FInv' /\ Kept
    BY <1>1, CreatesKeeps DEF Admit, Automatic, AfterTheProbe
<1>2. CASE SubmitManual(f)
    BY <1>2, CreatesKeeps DEF SubmitManual, AfterTheProbe
<1> QED
    BY <1>1, <1>2, BeginKeeps, DhcpKeeps, ProbeKeeps, FormsKeep DEF FlowStep

LEMMA StepKeeps ==
    ASSUME FInv, [Next]_vars
    PROVE  FInv' /\ Kept
<1>1. ASSUME UNCHANGED <<flow, entries>> PROVE FInv' /\ Kept
    BY <1>1, NothingKeeps DEF Kept
<1>2. ASSUME NEW f \in Flows, FlowStep(f) PROVE FInv' /\ Kept
    BY <1>2, FlowStepKeeps
<1>3. ASSUME NEW g \in Dialogs, DialogStep(g) PROVE UNCHANGED <<flow, entries>>
    BY <1>3 DEF DialogStep, Open, Choose, Back, Save, Writes, Done
<1>4. CASE \E d \in Devices : \/ \E h \in Hosts : Moves(d, h)
                             \/ \E A \in Tables : Edited(d, A)
    BY <1>1, <1>4 DEF Moves, Edited
<1>5. CASE UNCHANGED vars
    BY <1>1, <1>5 DEF vars
<1> QED
    BY <1>1, <1>2, <1>3, <1>4, <1>5 DEF Next

-----------------------------------------------------------------------------
(* The options *)

LEMMA OptionsStay ==
    ASSUME OInv, UNCHANGED <<options, saved>>
    PROVE  OInv'
BY DEF OInv, SavedSectionsSurvive, OptionsTyped

LEMMA FlowKeepsOptions ==
    ASSUME OInv, NEW f \in Flows, FlowStep(f)
    PROVE  OInv'
<1>1. ASSUME NEW chosen, Creates(f, chosen) PROVE OInv'
    <2>1. saved' = options'
        BY <1>1 DEF Creates
    <2>2. options' = [e \in DOMAIN options \cup {flow[f].id} |->
                        IF e = flow[f].id
                            THEN [events |-> chosen, advanced |-> Default] ELSE options[e]]
        BY <1>1 DEF Creates
    <2> QED
        BY <2>1, <2>2 DEF OInv, SavedSectionsSurvive, OptionsTyped
<1>2. CASE \/ \E selected \in Selections : Admit(f, selected)
           \/ SubmitManual(f)
    BY <1>1, <1>2 DEF Admit, SubmitManual
<1>3. CASE \/ Begin(f)
           \/ \E h \in Hosts : SubmitUser(f, h)
           \/ \E d \in Devices : DhcpOffer(f, d)
           \/ ProbeFails(f) \/ Probed(f) \/ Proceed(f) \/ Close(f)
           \/ \E selected \in Selections : Refuse(f, selected) \/ ChooseManual(f, selected)
    BY <1>3, OptionsStay
    DEF Begin, SubmitUser, DhcpOffer, ProbeFails, Probed, Proceed, Close, Refuse, ChooseManual
<1> QED
    BY <1>2, <1>3 DEF FlowStep

LEMMA DialogKeepsOptions ==
    ASSUME OInv, NEW g \in Dialogs, DialogStep(g)
    PROVE  OInv'
<1>1. CASE \/ \E d \in Devices : Open(g, d)
           \/ \E section \in Sections \cup {"urls"} : Choose(g, section)
           \/ Back(g)
    BY <1>1, OptionsStay DEF Open, Choose, Back
(* Merged replaces the section the history records. *)
<1>2. ASSUME NEW section, NEW value, Writes(g, section, value) PROVE OInv'
    <2> DEFINE d == dialog[g].id
    <2>1. /\ options' = [options EXCEPT ![d] = [options[d] EXCEPT ![section] = value]]
          /\ saved' = [saved EXCEPT ![d] = [saved[d] EXCEPT ![section] = value]]
        BY <1>2 DEF Writes, Merged, OInv, OptionsTyped, SavedSectionsSurvive
    <2>2. options = saved /\ options = [e \in DOMAIN options |-> options[e]]
        BY DEF OInv, SavedSectionsSurvive, OptionsTyped
    <2> HIDE DEF d
    <2>3. saved' = options'
        BY <2>1, <2>2
    <2>4. options' = [e \in DOMAIN options' |-> options'[e]]
        BY <2>1, <2>2
    <2> QED
        BY <2>3, <2>4 DEF OInv, SavedSectionsSurvive, OptionsTyped
<1>3. CASE Save(g)
    BY <1>2, <1>3 DEF Save
<1>4. CASE Done(g)
    <2>1. options' = options /\ saved' = saved
        BY <1>4 DEF Done, OInv, OptionsTyped
    <2> QED
        BY <2>1, OptionsStay
<1> QED
    BY <1>1, <1>3, <1>4 DEF DialogStep

LEMMA OptionsKeep ==
    ASSUME OInv, [Next]_vars
    PROVE  OInv'
<1>1. CASE \E d \in Devices : \/ \E h \in Hosts : Moves(d, h)
                             \/ \E A \in Tables : Edited(d, A)
    BY <1>1, OptionsStay DEF Moves, Edited
<1>2. CASE UNCHANGED vars
    BY <1>2, OptionsStay DEF vars
<1> QED
    BY <1>1, <1>2, FlowKeepsOptions, DialogKeepsOptions DEF Next

LEMMA Always == Spec => [](FInv /\ OInv)
<1>1. FInv /\ OInv /\ [Next]_vars => (FInv /\ OInv)'
    BY StepKeeps, OptionsKeep
<1> QED
    BY <1>1, InitEstablishes, PTL DEF Spec

-----------------------------------------------------------------------------
(* Counting slots *)

(* What a form offers is what fits, whatever of ours the slots hold already. *)
LEMMA FitsInExactly ==
    ASSUME NEW A \in Array, NEW K \in Selections
    PROVE  FitsIn(A, K) <=> Cardinality(K) <= Available(A)
<1>1. IsFiniteSet(K) /\ OwnUrls # {}
    BY ConfigFlowAssumption DEF ConfigFlowAssumption
<1>2. \A want \in [K -> OwnUrls] : Fits(A, want) <=> Cardinality(K) <= Available(A)
    <2> TAKE want \in [K -> OwnUrls]
    <2>1. DOMAIN want = K
        OBVIOUS
    <2> QED
        BY <1>1, <2>1, CapacityIsExact DEF Available
<1>3. PICK url : url \in OwnUrls
    BY <1>1
<1>4. [k \in K |-> url] \in [K -> OwnUrls]
    BY <1>3
<1> QED
    BY <1>2, <1>4 DEF FitsIn

LEMMA CountKeeps ==
    ASSUME FlowsTyped, CInv, NEW f \in Flows, NEW form,
           flow' = [flow EXCEPT ![f] = form], Counted(form), UNCHANGED slots
    PROVE  CInv'
<1>1. flow'[f] = form /\ \A g \in Flows \ {f} : flow'[g] = flow[g]
    BY DEF FlowsTyped
<1>2. \A g \in Flows : Counted(flow'[g])
    BY <1>1 DEF CInv
<1>3. \A g \in Flows : Counted(flow[g])'
    BY <1>2 DEF Counted
<1> QED
    BY <1>3 DEF CInv

LEMMA UncountedKeeps ==
    ASSUME FlowsTyped, CInv, NEW f \in Flows, NEW form,
           flow' = [flow EXCEPT ![f] = form], form.pc \notin Counting, UNCHANGED slots
    PROVE  CInv'
BY CountKeeps DEF Counted

LEMMA CountsStay ==
    ASSUME CInv, UNCHANGED <<flow, slots>>
    PROVE  CInv'
BY DEF CInv, Counted

LEMMA FormIsCounted ==
    ASSUME CInv, NEW f, NEW pc, NEW d, NEW supports \in MaySupport(d)
    PROVE  Counted(Form(pc, f, d, supports))
<1>1. CASE d \in Reports
    <2>1. slots[d] \in Array
        BY <1>1, ConfigFlowAssumption DEF CInv, ConfigFlowAssumption
    <2> QED
        BY <1>1, <2>1 DEF Form, Counted
<1>2. CASE d \notin Reports
    BY <1>2 DEF Form, Counted, MaySupport
<1> QED
    BY <1>1, <1>2

LEMMA FlowKeepsCounts ==
    ASSUME FlowsTyped, CInv, NEW f \in Flows, FlowStep(f)
    PROVE  CInv'
<1>0. UNCHANGED slots
    BY DEF FlowStep, Begin, SubmitUser, DhcpOffer, ProbeFails, Probed, Proceed, Admit,
           Refuse, ChooseManual, SubmitManual, Close, Creates
<1>1. ASSUME NEW form, Shows(f, form), form.pc \notin Counting PROVE CInv'
    BY <1>0, <1>1, UncountedKeeps DEF Shows
<1>2. ASSUME Ends(f) PROVE CInv'
    BY <1>0, <1>2, UncountedKeeps DEF Ends, Idle, Counting
<1>3. ASSUME NEW source, NEW h, NEW d, Shows(f, Probing(source, h, d)) PROVE CInv'
    <2>1. Probing(source, h, d).pc \notin Counting
        BY DEF Probing, Counting
    <2> QED
        BY <1>1, <1>3, <2>1
<1>4. ASSUME Shows(f, [pc |-> "user", id |-> NoDevice]) PROVE CInv'
    <2>1. [pc |-> "user", id |-> NoDevice].pc \notin Counting
        BY DEF Counting
    <2> QED
        BY <1>1, <1>4, <2>1
<1>5. CASE Begin(f) \/ \E h \in Hosts : SubmitUser(f, h)
    BY <1>3, <1>4, <1>5 DEF Begin, SubmitUser
<1>6. ASSUME NEW d \in Devices, DhcpOffer(f, d) PROVE CInv'
    BY <1>0, <1>3, <1>6, CountsStay DEF DhcpOffer
<1>7. CASE ProbeFails(f)
    BY <1>2, <1>4, <1>7 DEF ProbeFails
<1>8. CASE Probed(f)
    <2>1. PICK d \in At(flow[f].host) :
            \/ Ends(f)
            \/ \E pc \in Counting, supports \in MaySupport(d) :
                    Shows(f, Form(pc, f, d, supports))
        BY <1>8 DEF Probed, Counting
    <2>2. ASSUME NEW pc \in Counting, NEW supports \in MaySupport(d),
                 Shows(f, Form(pc, f, d, supports))
          PROVE  CInv'
        <3>1. /\ Counted(Form(pc, f, d, supports))
              /\ flow' = [flow EXCEPT ![f] = Form(pc, f, d, supports)]
            BY <2>2, FormIsCounted DEF Shows
        <3> QED
            BY <1>0, <3>1, CountKeeps
    <2> QED
        BY <1>2, <2>1, <2>2
<1>9. ASSUME Proceed(f) PROVE CInv'
    <2> DEFINE form == [flow[f] EXCEPT !.pc = "events"]
    <2>1. flow' = [flow EXCEPT ![f] = form]
        BY <1>9 DEF Proceed, FlowsTyped
    <2>2. Counted(flow[f]) /\ flow[f].pc \in Counting
        BY <1>9 DEF CInv, Proceed, Counting
    <2>3. Counted(form)
        BY <2>2 DEF Counted
    <2> HIDE DEF form
    <2> QED
        BY <1>0, <2>1, <2>3, CountKeeps
<1>10. ASSUME NEW selected \in Selections, Refuse(f, selected) PROVE CInv'
    <2> DEFINE form == [flow[f] EXCEPT !.enabled = selected]
    <2>1. flow' = [flow EXCEPT ![f] = form]
        BY <1>10 DEF Refuse, FlowsTyped
    <2>2. Counted(flow[f]) /\ flow[f].pc \in Counting
        BY <1>10 DEF CInv, Refuse, Automatic, Counting
    <2>3. Counted(form)
        BY <2>2 DEF Counted
    <2> HIDE DEF form
    <2> QED
        BY <1>0, <2>1, <2>3, CountKeeps
<1>11. ASSUME NEW selected \in Selections, ChooseManual(f, selected) PROVE CInv'
    <2> DEFINE form == [pc |-> "manual", id |-> flow[f].id, host |-> flow[f].host,
                        supports |-> flow[f].supports, selected |-> selected]
    <2>1. Shows(f, form) /\ form.pc \notin Counting
        BY <1>11 DEF ChooseManual, Counting
    <2> HIDE DEF form
    <2> QED
        BY <1>1, <2>1
<1>12. CASE \/ \E selected \in Selections : Admit(f, selected)
            \/ SubmitManual(f) \/ Close(f)
    BY <1>2, <1>12 DEF Admit, SubmitManual, Creates, Close
<1> QED
    BY <1>5, <1>6, <1>7, <1>8, <1>9, <1>10, <1>11, <1>12 DEF FlowStep

LEMMA CountsKeep ==
    ASSUME FlowsTyped, CInv, [Next]_vars
    PROVE  CInv'
<1>1. ASSUME NEW g \in Dialogs, DialogStep(g) PROVE CInv'
    BY <1>1, CountsStay DEF DialogStep, Open, Choose, Back, Save, Writes, Done
<1>2. ASSUME NEW d \in Devices, NEW h \in Hosts, Moves(d, h) PROVE CInv'
    BY <1>2, CountsStay DEF Moves
<1>3. ASSUME NEW d \in Devices, NEW A \in Tables, Edited(d, A) PROVE CInv'
    <2>1. slots' \in [Reports -> Tables] /\ UNCHANGED flow
        BY <1>3 DEF Edited, CInv
    <2> QED
        BY <2>1 DEF CInv, Counted
<1>4. CASE UNCHANGED vars
    BY <1>4, CountsStay DEF vars
<1> QED
    BY <1>1, <1>2, <1>3, <1>4, FlowKeepsCounts DEF Next

LEMMA CountsAlways == Spec => []CInv
<1>1. Init => CInv
    BY DEF Init, CInv, Counted, Counting, Idle
<1>2. FInv /\ CInv /\ [Next]_vars => CInv'
    BY CountsKeep DEF FInv
<1> QED
    BY <1>1, <1>2, Always, PTL DEF Spec

(* Automatic setup is admitted exactly when a reconciliation of the slots
   that were probed, which counts what it can reclaim, would not refuse it
   (config_flow.py:308-311, 377-378; blebox_actions.py:893). *)
THEOREM AdmissionIsExact == Spec => AdmissionIsHonest
<1>1. CInv /\ [Next]_vars =>
        [\A f \in Flows, selected \in Selections :
            /\ Admit(f, selected) => Enough(f, selected)
            /\ Refuse(f, selected) => ~Enough(f, selected)]_vars
    <2> SUFFICES ASSUME CInv, NEW f \in Flows, NEW selected \in Selections
                 PROVE  /\ Admit(f, selected) => Enough(f, selected)
                        /\ Refuse(f, selected) => ~Enough(f, selected)
        OBVIOUS
    <2>1. CASE flow[f].pc = "events" /\ flow[f].supports
        <3>1. /\ \A A \in flow[f].probed : A \in Array /\ flow[f].available = Available(A)
              /\ flow[f].probed # {}
            BY <2>1 DEF CInv, Counted, Counting
        <3>2. Enough(f, selected) <=> Cardinality(selected) <= flow[f].available
            BY <3>1, FitsInExactly DEF Enough
        <3>3. ASSUME Refuse(f, selected) PROVE ~(Cardinality(selected) <= flow[f].available)
            <4>1. Cardinality(selected) \in Nat
                BY ConfigFlowAssumption, FS_CardinalityType DEF ConfigFlowAssumption
            <4>2. flow[f].available \in Nat
                <5>1. PICK A \in flow[f].probed : A \in Array /\ flow[f].available = Available(A)
                    BY <3>1
                <5>2. free_slots(A) \in SUBSET Slots /\ owned_actions(A) \in SUBSET Slots
                    BY DEF free_slots, owned_actions
                <5>3. Cardinality(free_slots(A)) \in Nat /\ Cardinality(owned_actions(A)) \in Nat
                    BY <5>2, SlotsAssumption, FS_Subset, FS_CardinalityType
                <5> QED
                    BY <5>1, <5>3 DEF Available
            <4>3. Cardinality(selected) > flow[f].available
                BY <3>3 DEF Refuse
            <4> QED
                BY <4>1, <4>2, <4>3
        <3> QED
            BY <3>2, <3>3 DEF Admit
    <2>2. CASE ~(flow[f].pc = "events" /\ flow[f].supports)
        BY <2>2 DEF Admit, Refuse, Automatic
    <2> QED
        BY <2>1, <2>2
<1> QED
    BY <1>1, CountsAlways, PTL DEF Spec, AdmissionIsHonest

-----------------------------------------------------------------------------
(* No flow replaces, renames or drops the entry of a configured device, at
   whichever address it answers and however many flows are open for it
   (config_flow.py:180-258). *)
THEOREM NoEntryIsLost == Spec => EntriesAreKept
<1>1. FInv /\ OInv /\ [Next]_vars =>
        [\A e \in entries : \E k \in entries' : k.id = e.id /\ k.by = e.by]_vars
    BY StepKeeps DEF Kept
<1> QED
    BY <1>1, Always, PTL DEF Spec, EntriesAreKept

(* Every section has what was last saved in it, through any number of
   dialogs that are open on the same entry (config_flow.py:467-478, 610-634). *)
THEOREM SavesAreKept == Spec => []SavedSectionsSurvive
<1>1. OInv => SavedSectionsSurvive
    BY DEF OInv
<1> QED
    BY <1>1, Always, PTL
=============================================================================
