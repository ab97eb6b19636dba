----------------------------- MODULE ConfigFlow -----------------------------
(***************************************************************************)
(* How entries come about and change (config_flow.py): flows started by    *)
(* the user or by a discovery, on devices whose address may move, and the  *)
(* options dialogs of an entry.  A flow keeps what its probe found while   *)
(* the user fills in its forms.  Whether callbacks fit is a question about *)
(* the slots of ActionSlots.                                               *)
(***************************************************************************)
EXTENDS ActionSlots

CONSTANTS
    Devices,    \* BleBox devices
    Hosts,      \* addresses they may have
    Reports,    \* the devices whose action API names their inputs
    Tables,     \* slot arrays they may hold
    Flows,      \* config flows in progress at once
    Dialogs,    \* options dialogs open at once
    Selections, \* what may be selected of the inputs' events
    Settings,   \* values of the advanced section
    NoDevice,
    MaxMoves    \* bound on new addresses, edited slots and saved sections

ASSUME ConfigFlowAssumption ==
    /\ Reports \subseteq Devices /\ NoDevice \notin Devices
    /\ Tables \subseteq Array /\ OwnUrls # {}
    /\ \A K \in Selections : K \subseteq Keys /\ IsFiniteSet(K)
    /\ MaxMoves \in Nat

VARIABLES
    host,       \* the address of each device
    slots,      \* the slots of a device that reports its inputs
    entries,    \* config entries: device, host, supports_actions, and their flow
    options,    \* of the entry of each device: two sections
    flow,       \* flows in progress
    dialog,     \* options dialogs
    moves,
    saved       \* history: what was last saved in each section

vars == <<host, slots, entries, options, flow, dialog, moves, saved>>

Modes == {"automatic", "manual"}
Events == [mode : Modes, selected : Selections]
Options == [events : Events, advanced : Settings]
Sections == {"events", "advanced"}

Idle == [pc |-> "idle", id |-> NoDevice]
Forms == {"user", "probing", "confirm", "inputs", "events", "manual"}

At(h) == {d \in Devices : host[d] = h}

Init ==
    /\ host \in [Devices -> Hosts]
    /\ \A d, e \in Devices : host[d] = host[e] => d = e
    /\ slots \in [Reports -> Tables]
    /\ entries = {}
    /\ options = [d \in {} |-> {}]
    /\ flow = [f \in Flows |-> Idle]
    /\ dialog = [d \in Dialogs |-> Idle]
    /\ moves = 0
    /\ saved = [d \in {} |-> {}]

Move == moves < MaxMoves /\ moves' = moves + 1
Configured(d) == \E e \in entries : e.id = d

(* updates= of _abort_if_unique_id_configured. *)
Relocated(d, h) ==
    {IF e.id = d THEN [e EXCEPT !.host = h] ELSE e : e \in entries}

InProgress(f, d) == \E g \in Flows \ {f} : flow[g].id = d

Ends(f) == flow' = [flow EXCEPT ![f] = Idle]
Shows(f, form) == flow' = [flow EXCEPT ![f] = form]

-----------------------------------------------------------------------------
(* Entry points *)

Probing(source, h, d) == [pc |-> "probing", id |-> d, source |-> source, host |-> h]

Begin(f) ==
    /\ flow[f] = Idle
    /\ \/ Shows(f, [pc |-> "user", id |-> NoDevice])
       \/ \E d \in Devices : Shows(f, Probing("zeroconf", host[d], NoDevice))
    /\ UNCHANGED <<host, slots, entries, options, dialog, moves, saved>>

SubmitUser(f, h) ==
    /\ flow[f].pc = "user"
    /\ Shows(f, Probing("user", h, NoDevice))
    /\ UNCHANGED <<host, slots, entries, options, dialog, moves, saved>>

(* DHCP names the device: a configured one is followed without a probe. *)
DhcpOffer(f, d) ==
    /\ flow[f] = Idle /\ ~InProgress(f, d)
    /\ IF Configured(d)
        THEN entries' = Relocated(d, host[d]) /\ UNCHANGED flow
        ELSE Shows(f, Probing("dhcp", host[d], d)) /\ UNCHANGED entries
    /\ UNCHANGED <<host, slots, options, dialog, moves, saved>>

-----------------------------------------------------------------------------
(* The probe, and what each source does with its answer. *)

ProbeFails(f) ==
    /\ flow[f].pc = "probing"
    /\ IF flow[f].source = "user"
        THEN Shows(f, [pc |-> "user", id |-> NoDevice]) ELSE Ends(f)
    /\ UNCHANGED <<host, slots, entries, options, dialog, moves, saved>>

Available_FreeOnly(A) == Cardinality(free_slots(A))
Available(A) == Cardinality(free_slots(A)) + Cardinality(owned_actions(A))

(* A device may name its inputs and still not accept an HTTP action for them,
   and a firmware update changes that from one probe to the next. *)
MaySupport(d) == IF d \in Reports THEN BOOLEAN ELSE {FALSE}

(* What the forms work with; probed is history, a set of at most one. *)
Form(pc, f, d, supports) ==
    [pc |-> pc, id |-> d, host |-> flow[f].host, supports |-> supports, enabled |-> {},
     available |-> IF d \in Reports THEN Available(slots[d]) ELSE 0,
     probed |-> {slots[e] : e \in {d} \cap Reports}]

AlreadyConfigured_ByAddress(f, d) == \E e \in entries : e.id = d /\ e.host = flow[f].host
AlreadyConfigured(f, d) == Configured(d)

Probed(f) ==
    /\ flow[f].pc = "probing"
    /\ \E d \in At(flow[f].host) :
        \/ /\ InProgress(f, d)
           /\ Ends(f) /\ UNCHANGED entries
        \/ /\ ~InProgress(f, d) /\ AlreadyConfigured(f, d)
           /\ entries' = Relocated(d, flow[f].host)
           /\ Ends(f)
        \/ /\ ~InProgress(f, d) /\ ~AlreadyConfigured(f, d)
           /\ UNCHANGED entries
           /\ \E supports \in MaySupport(d) :
                CASE flow[f].source = "user" ->
                        Shows(f, Form(IF d \in Reports THEN "events" ELSE "inputs",
                                      f, d, supports))
                  [] flow[f].source # "user" /\ d \in Reports ->
                        Shows(f, Form("confirm", f, d, supports))
                  [] OTHER -> Ends(f)
    /\ UNCHANGED <<host, slots, options, dialog, moves, saved>>

-----------------------------------------------------------------------------
(* The forms after it *)

(* A discovery is confirmed, or the inputs are counted by hand. *)
Proceed(f) ==
    /\ flow[f].pc \in {"confirm", "inputs"}
    /\ flow' = [flow EXCEPT ![f].pc = "events"]
    /\ UNCHANGED <<host, slots, entries, options, dialog, moves, saved>>

(* The section advanced starts out with one value. *)
Default == CHOOSE v \in Settings : TRUE

(* The entry is created; Home Assistant has it replace one that is there. *)
Creates(f, chosen) ==
    LET d == flow[f].id IN
    /\ entries' = {e \in entries : e.id # d}
                    \cup {[id |-> d, host |-> flow[f].host,
                           supports |-> flow[f].supports, by |-> f]}
    /\ options' = [e \in DOMAIN options \cup {d} |->
                    IF e = d THEN [events |-> chosen, advanced |-> Default] ELSE options[e]]
    /\ saved' = options'
    /\ Ends(f)
    /\ UNCHANGED <<host, slots, dialog, moves>>

(* Automatic mode is only offered to a device that supports it. *)
Automatic(f, selected) ==
    /\ flow[f].pc = "events" /\ flow[f].supports /\ selected # {}

Admit(f, selected) ==
    /\ Automatic(f, selected)
    /\ Cardinality(selected) <= flow[f].available
    /\ Creates(f, [mode |-> "automatic", selected |-> selected])

(* The form is shown again, with what was selected. *)
Refuse(f, selected) ==
    /\ Automatic(f, selected)
    /\ Cardinality(selected) > flow[f].available
    /\ flow' = [flow EXCEPT ![f].enabled = selected]
    /\ UNCHANGED <<host, slots, entries, options, dialog, moves, saved>>

ChooseManual(f, selected) ==
    /\ flow[f].pc = "events" /\ selected # {}
    /\ Shows(f, [pc |-> "manual", id |-> flow[f].id, host |-> flow[f].host,
                 supports |-> flow[f].supports, selected |-> selected])
    /\ UNCHANGED <<host, slots, entries, options, dialog, moves, saved>>

SubmitManual(f) ==
    /\ flow[f].pc = "manual"
    /\ Creates(f, [mode |-> "manual", selected |-> flow[f].selected])

Close(f) ==
    /\ flow[f].pc \in Forms \ {"probing"}
    /\ Ends(f)
    /\ UNCHANGED <<host, slots, entries, options, dialog, moves, saved>>

-----------------------------------------------------------------------------
(* Options dialogs, several of which may be open on one entry. *)

Open(g, d) ==
    /\ dialog[g] = Idle /\ Configured(d)
    /\ dialog' = [dialog EXCEPT ![g] = [pc |-> "menu", id |-> d]]
    /\ UNCHANGED <<host, slots, entries, options, flow, moves, saved>>

(* A form is filled in from the options as they are; urls is only shown in
   manual mode, to which a menu drawn earlier may no longer belong. *)
Choose(g, section) ==
    /\ dialog[g].pc = "menu"
    /\ section = "urls" => options[dialog[g].id].events.mode = "manual"
    /\ dialog' = [dialog EXCEPT ![g].pc = section]
    /\ UNCHANGED <<host, slots, entries, options, flow, moves, saved>>

Back(g) ==
    /\ dialog[g].pc = "urls"
    /\ dialog' = [dialog EXCEPT ![g].pc = "menu"]
    /\ UNCHANGED <<host, slots, entries, options, flow, moves, saved>>

Merged_OnlyOwn(old, section, value) ==
    [events |-> IF section = "events" THEN value ELSE old.events,
     advanced |-> IF section = "advanced" THEN value ELSE Default]

Merged(old, section, value) == [old EXCEPT ![section] = value]

(* _async_save *)
Writes(g, section, value) ==
    LET d == dialog[g].id IN
    /\ dialog[g].pc = section
    /\ Move
    /\ options' = [options EXCEPT ![d] = Merged(@, section, value)]
    /\ saved' = [saved EXCEPT ![d][section] = value]
    /\ dialog' = [dialog EXCEPT ![g].pc = "menu"]
    /\ UNCHANGED <<host, slots, entries, flow>>

(* Automatic mode is offered as it was at setup; slots are not counted. *)
Save(g) ==
    \/ \E v \in Settings : Writes(g, "advanced", v)
    \/ \E v \in Events :
        /\ v.selected # {}
        /\ v.mode = "automatic" => \E e \in entries : e.id = dialog[g].id /\ e.supports
        /\ Writes(g, "events", v)

(* Hands back the options as they are by then, a copy of themselves. *)
Done(g) ==
    /\ dialog[g].pc = "menu"
    /\ options' = [options EXCEPT ![dialog[g].id] = options[dialog[g].id]]
    /\ dialog' = [dialog EXCEPT ![g] = Idle]
    /\ UNCHANGED <<host, slots, entries, flow, moves, saved>>

-----------------------------------------------------------------------------
(* A device gets another address, the wBox app edits a slot. *)
Moves(d, h) ==
    /\ Move
    /\ At(h) = {}
    /\ host' = [host EXCEPT ![d] = h]
    /\ UNCHANGED <<slots, entries, options, flow, dialog, saved>>

Edited(d, A) ==
    /\ d \in Reports /\ slots[d] # A
    /\ Move
    /\ slots' = [slots EXCEPT ![d] = A]
    /\ UNCHANGED <<host, entries, options, flow, dialog, saved>>

FlowStep(f) ==
    \/ Begin(f)
    \/ \E h \in Hosts : SubmitUser(f, h)
    \/ \E d \in Devices : DhcpOffer(f, d)
    \/ ProbeFails(f) \/ Probed(f)
    \/ Proceed(f)
    \/ \E selected \in Selections :
        Admit(f, selected) \/ Refuse(f, selected) \/ ChooseManual(f, selected)
    \/ SubmitManual(f)
    \/ Close(f)

DialogStep(g) ==
    \/ \E d \in Devices : Open(g, d)
    \/ \E section \in Sections \cup {"urls"} : Choose(g, section)
    \/ Back(g) \/ Save(g) \/ Done(g)

Next ==
    \/ \E f \in Flows : FlowStep(f)
    \/ \E g \in Dialogs : DialogStep(g)
    \/ \E d \in Devices : \/ \E h \in Hosts : Moves(d, h)
                          \/ \E A \in Tables : Edited(d, A)

Spec == Init /\ [][Next]_vars

-----------------------------------------------------------------------------
(* A device that is configured keeps its one entry, whichever flows for it
   are started before, beside or after, at whichever address: what they
   change is the address at most (config_flow.py:180-258). *)
EntriesAreKept ==
    [][\A e \in entries : \E k \in entries' : k.id = e.id /\ k.by = e.by]_vars

(* The slots a flow counted are enough for automatic setup exactly when a
   reconciliation of that array would not refuse it: nothing is counted
   twice, and our own stale callbacks are not counted against the user
   (config_flow.py:308-311, 377-378; blebox_actions.py:893). *)
FitsIn(A, selected) == \A want \in [selected -> OwnUrls] : Fits(A, want)

Enough(f, selected) == \A A \in flow[f].probed : FitsIn(A, selected)

AdmissionIsHonest ==
    [][\A f \in Flows, selected \in Selections :
        /\ Admit(f, selected) => Enough(f, selected)
        /\ Refuse(f, selected) => ~Enough(f, selected)]_vars

(* What was saved in one section of an options dialog is what the entry has
   until that section is saved again, whatever else is saved, viewed or
   closed, in that dialog or in another (config_flow.py:467-478, 610-634). *)
SavedSectionsSurvive == options = saved
=============================================================================
