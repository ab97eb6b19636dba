--------------------------- MODULE SettingsGroup ---------------------------
(***************************************************************************)
(* The controls backed by the device's settings (entity.py, select.py,     *)
(* light.py, number.py, switch.py): each writes a group of fields it only  *)
(* means to change one of, built from the settings shown when the user     *)
(* acts.  The relay list is replaced as a whole, and the backlight has one *)
(* colour that is the product of a hue and a level.  The refreshes in      *)
(* between are those of Coordinator, one at a time.                        *)
(***************************************************************************)
EXTENDS Integers, FiniteSets, Sequences

CONSTANTS
    Relays,     \* relay indices
    Calls,      \* service calls in flight at once
    Requests,   \* what the controls may be asked for
    Edits,      \* what the wBox app may write in their stead
    Limits,     \* the overload thresholds the device accepts, 0 apart
    Slips,      \* ties the backlight's doubles take the other way, as <<n, d>>
    Settle,     \* WRITE_SETTLE_S, in ticks
    MaxMoves    \* bound on the calls and on the changes made elsewhere

RestartStates == {"off", "on"}
Byte == 0 .. 255
Rgb == Byte \X Byte \X Byte

(* What a service call may ask for; a light names a colour, a level, or
   neither, and Unsaid stands for the one it does not name. *)
Unsaid == <<>>
Request ==
    [kind : {"restart"}, relay : Relays, value : RestartStates]
    \cup [kind : {"switch"}, value : 0 .. 1]
    \cup [kind : {"threshold"}, value : Nat]
    \cup [kind : {"light"}, rgb : Rgb \cup {Unsaid}, level : {<<b>> : b \in 1 .. 255} \cup {Unsaid}]
    \cup [kind : {"dark"}]

ASSUME SettingsGroupAssumption ==
    /\ IsFiniteSet(Calls) /\ Requests \cup Edits \subseteq Request
    /\ Limits \subseteq Nat
    /\ Settle \in Nat \ {0} /\ MaxMoves \in Nat

VARIABLES
    dev,        \* the settings the device holds
    snap,       \* the settings of the published snapshot
    overlay,    \* _written[WRITTEN_SETTINGS], a set of at most one
    force,      \* _force_full
    poll,       \* the refresh in flight
    call,       \* the service calls in flight
    queue,      \* _write_lock: its holder, then its waiters in order
    moves,      \* calls and changes made elsewhere so far
    asked       \* history: fields whose last write was acknowledged, and its value

vars == <<dev, snap, overlay, force, poll, call, queue, moves, asked>>

Settings == [relays : [Relays -> RestartStates], led : 0 .. 1, overload : Nat,
             lit : 0 .. 1, color : Rgb]

Fields == {<<"restart", r>> : r \in Relays}
            \cup {<<"led">>, <<"overload">>, <<"lit">>, <<"level">>, <<"hue">>}

Idle == [pc |-> "idle"]
Poll == [pc : {"reading", "read"}, full : BOOLEAN, got : Settings,
         outdated : SUBSET Fields]

TypeOK ==
    /\ {dev, snap} \subseteq Settings
    /\ Cardinality(overlay) <= 1
    /\ \A o \in overlay : o.set \in Settings /\ o.age \in 0 .. Settle
    /\ force \in BOOLEAN
    /\ poll \in Poll \cup {Idle}
    /\ moves \in 0 .. MaxMoves
    /\ DOMAIN asked \subseteq Fields
    /\ {queue[i] : i \in DOMAIN queue} = {c \in Calls : call[c] # Idle}
    /\ Len(queue) <= Cardinality(Calls)
    /\ \A i \in DOMAIN queue : call[queue[i]].pc = "stored" => i = 1

-----------------------------------------------------------------------------
(* The backlight: one colour, brightness inside it. *)

Brightest(rgb) == CHOOSE b \in {rgb[1], rgb[2], rgb[3]} :
                    \A i \in 1 .. 3 : rgb[i] <= b

(* round(n / d): to the nearest, a tie to the even one - or to the odd one,
   where the quotient of doubles misses the tie: 25 * (255 / 50) < 127.5. *)
Rounded(n, d) ==
    LET q == (2 * n + d) \div (2 * d)
        tie == (2 * n + d) % (2 * d) = 0
        odd == q % 2 = 1
    IN  IF tie /\ (IF <<n, d>> \in Slips THEN ~odd ELSE odd) THEN q - 1 ELSE q

AtMost(bound, n) == IF n > bound THEN bound ELSE n

Scaled(byte, n, d) == AtMost(255, Rounded(byte * n, d))
Rescaled(rgb, n, d) == <<Scaled(rgb[1], n, d), Scaled(rgb[2], n, d), Scaled(rgb[3], n, d)>>

(* No colour, an unreadable one and black are all black here: each has no
   rgb_color, and a brightness that counts as full. *)
Black == <<0, 0, 0>>
DefaultRgb == <<255, 255, 255>>

(* brightness and rgb_color. *)
Level(color) == Brightest(color)
Hue(color) == IF color = Black THEN Black ELSE Rescaled(color, 255, Level(color))

Base(q, color) ==
    IF q.rgb # Unsaid THEN q.rgb ELSE IF color = Black THEN DefaultRgb ELSE Hue(color)

LevelFor(q, color) ==
    IF q.level # Unsaid THEN q.level[1] ELSE IF color = Black THEN 255 ELSE Level(color)

Lit(q, color) ==
    IF q.rgb = Unsaid /\ q.level = Unsaid
        THEN IF color = Black THEN [lit |-> 1, color |-> DefaultRgb] ELSE [lit |-> 1]
        ELSE [lit |-> 1, color |-> Rescaled(Base(q, color), LevelFor(q, color), 255)]

-----------------------------------------------------------------------------
deep_merge(base, patch) ==
    [k \in DOMAIN base |-> IF k \in DOMAIN patch THEN patch[k] ELSE base[k]]

Written == CHOOSE o \in overlay : TRUE
Shown == IF overlay = {} THEN snap ELSE Written.set

(* What a control sends for q when it shows s. *)
Patch(q, s) ==
    CASE q.kind = "restart"   -> [relays |-> [s.relays EXCEPT ![q.relay] = q.value]]
      [] q.kind = "switch"    -> [led |-> q.value]
      [] q.kind = "threshold" -> [overload |-> q.value]
      [] q.kind = "light"     -> Lit(q, s.color)
      [] q.kind = "dark"      -> [lit |-> 0]

Basis_Snapshot == snap
Basis == Shown

(* ServiceValidationError, before anything is sent. *)
Acceptable(q) == q.kind = "threshold" => q.value = 0 \/ q.value \in Limits

(* The fields q means to change, and the value it asks for. *)
Wanted(q) ==
    CASE q.kind = "restart"   -> [f \in {<<"restart", q.relay>>} |-> q.value]
      [] q.kind = "switch"    -> [f \in {<<"led">>} |-> q.value]
      [] q.kind = "threshold" -> [f \in {<<"overload">>} |-> q.value]
      [] q.kind = "dark"      -> [f \in {<<"lit">>} |-> 0]
      [] q.kind = "light"     ->
            [f \in {<<"lit">>} \cup (IF q.rgb = Unsaid THEN {} ELSE {<<"hue">>})
                               \cup (IF q.level = Unsaid THEN {} ELSE {<<"level">>})
                |-> CASE f = <<"lit">> -> 1
                      [] f = <<"hue">> -> q.rgb
                      [] f = <<"level">> -> q.level[1]]

Field(s, f) ==
    CASE f[1] = "restart"  -> s.relays[f[2]]
      [] f[1] = "led"      -> s.led
      [] f[1] = "overload" -> s.overload
      [] f[1] = "lit"      -> s.lit
      [] f[1] = "level"    -> Level(s.color)
      [] f[1] = "hue"      -> Hue(s.color)

Holding(s, F) == {f \in F : Field(s, f) = asked[f]}
Only(F) == [f \in F |-> asked[f]]

Fresh ==
    [relays |-> [r \in Relays |-> "off"], led |-> 0, overload |-> 0,
     lit |-> 0, color |-> Black]

Init ==
    /\ dev = Fresh
    /\ snap = Fresh
    /\ overlay = {}
    /\ force = FALSE
    /\ poll = Idle
    /\ call = [c \in Calls |-> Idle]
    /\ queue = <<>>
    /\ moves = 0
    /\ asked = Only({})

Move == moves < MaxMoves /\ moves' = moves + 1

-----------------------------------------------------------------------------
(* Service calls: the patch is built before the lock is waited for. *)

Call(c, q) ==
    /\ call[c] = Idle /\ Acceptable(q)
    /\ Move
    /\ call' = [call EXCEPT ![c] =
                [pc |-> "called", request |-> q, patch |-> Patch(q, Basis),
                 alone |-> queue = <<>>]]
    /\ queue' = Append(queue, c)
    /\ UNCHANGED <<dev, snap, overlay, force, poll, asked>>

HasWriteLock(c) == queue # <<>> /\ Head(queue) = c

(* History: a full refresh that has read is outdated in what is stored
   now, and a relay-only one in what is answered now. *)
Outdated(p, full, F) ==
    IF p # Idle /\ p.pc = "read" /\ p.full = full
        THEN [p EXCEPT !.outdated = @ \cup F] ELSE p

Stores(c) ==
    /\ HasWriteLock(c) /\ call[c].pc = "called"
    /\ dev' = deep_merge(dev, call[c].patch)
    /\ call' = [call EXCEPT ![c] =
                [pc |-> "stored", request |-> @.request, patch |-> @.patch,
                 answer |-> dev', held |-> DOMAIN Wanted(@.request)]]
    /\ asked' = Only(Holding(dev', DOMAIN asked) \ DOMAIN Wanted(call[c].request))
    /\ poll' = Outdated(poll, TRUE, DOMAIN Wanted(call[c].request))
    /\ UNCHANGED <<snap, overlay, force, queue, moves>>

Leave(c) ==
    /\ call' = [call EXCEPT ![c] = Idle]
    /\ queue' = Tail(queue)

(* The device answers with its settings, or with nothing usable. *)
Answered(c) ==
    /\ HasWriteLock(c) /\ call[c].pc = "stored"
    /\ LET want == Wanted(call[c].request)
       IN  /\ asked' = [f \in DOMAIN asked \cup call[c].held |->
                            IF f \in call[c].held THEN want[f] ELSE asked[f]]
           /\ poll' = Outdated(poll, FALSE, DOMAIN want)
    /\ \E answer \in {call[c].answer, deep_merge(Shown, call[c].patch)} :
        overlay' = {[set |-> answer, age |-> 0]}
    /\ force' = TRUE
    /\ Leave(c)
    /\ UNCHANGED <<dev, snap, moves>>

WriteFails_KeepsLock(c) ==
    /\ HasWriteLock(c)
    /\ call' = [call EXCEPT ![c] = Idle]
    /\ UNCHANGED <<dev, snap, overlay, force, poll, queue, moves, asked>>

(* The request is refused, or it or its answer is lost. *)
WriteFails(c) ==
    /\ HasWriteLock(c)
    /\ Leave(c)
    /\ UNCHANGED <<dev, snap, overlay, force, poll, moves, asked>>

(* The wBox app writes what a control could. *)
ChangedElsewhere(q) ==
    /\ Acceptable(q) /\ Move
    /\ dev' = deep_merge(dev, Patch(q, dev))
    /\ asked' = Only(Holding(dev', DOMAIN asked))
    /\ call' = [c \in Calls |->
                IF call[c] # Idle /\ call[c].pc = "stored"
                    THEN [call[c] EXCEPT !.held = {f \in @ : Field(dev', f) = Field(dev, f)}]
                    ELSE call[c]]
    /\ UNCHANGED <<snap, overlay, force, poll, queue>>

-----------------------------------------------------------------------------
(* Refreshes: relay-only cycles keep the settings they started from. *)

Full_OnCadence(due) == due
Full(due) == force \/ due

StartPoll ==
    /\ poll = Idle
    /\ \E due \in BOOLEAN :
        LET full == Full(due) IN
        poll' = [pc |-> IF full THEN "reading" ELSE "read", full |-> full,
                 got |-> snap, outdated |-> {}]
    /\ UNCHANGED <<dev, snap, overlay, force, call, queue, moves, asked>>

(* A read that fails carries the settings before forward. *)
ReadSettings ==
    /\ poll # Idle /\ poll.pc = "reading"
    /\ \/ poll' = [poll EXCEPT !.pc = "read", !.got = dev]
       \/ poll' = [poll EXCEPT !.pc = "read", !.outdated = Fields]
    /\ UNCHANGED <<dev, snap, overlay, force, call, queue, moves, asked>>

Publish ==
    /\ poll # Idle /\ poll.pc = "read"
    /\ snap' = poll.got
    /\ overlay' = {o \in overlay : o.age < Settle}
    /\ force' = IF poll.full THEN FALSE ELSE force
    /\ poll' = Idle
    /\ asked' = IF poll.full \/ overlay' # overlay
                    THEN Only(DOMAIN asked \ poll.outdated) ELSE asked
    /\ UNCHANGED <<dev, call, queue, moves>>

Tick ==
    /\ overlay # {}
    /\ overlay' = {[o EXCEPT !.age = IF @ < Settle THEN @ + 1 ELSE @] : o \in overlay}
    /\ UNCHANGED <<dev, snap, force, poll, call, queue, moves, asked>>

PollStep == StartPoll \/ ReadSettings \/ Publish
CallStep(c) == Stores(c) \/ Answered(c)

Next ==
    \/ \E c \in Calls :
        \/ \E q \in Requests : Call(c, q)
        \/ CallStep(c) \/ WriteFails(c)
    \/ \E q \in Edits : ChangedElsewhere(q)
    \/ PollStep
    \/ Tick

Spec == Init /\ [][Next]_vars

-----------------------------------------------------------------------------
(* What the bytes of a colour lose.  A palette holds every colour the lights
   make out of its own; it is exact for the fields K when a light that sets
   one of them gets what it asked for, and a light that does not leaves the
   value it has, if that is one a light may have asked for. *)
Backlight == {<<"level">>, <<"hue">>}
Lights == {q \in Requests \cup Edits : q.kind = "light"}
Askable(f) == {Wanted(q)[f] : q \in {r \in Requests : f \in DOMAIN Wanted(r)}}

Exact(K, Palette) ==
    /\ Black \in Palette
    /\ \A q \in Lights, color \in Palette : "color" \in DOMAIN Lit(q, color) =>
        /\ Lit(q, color).color \in Palette
        /\ q \in Requests => \A f \in K \cap Backlight :
            IF f \in DOMAIN Wanted(q)
                THEN Field(Lit(q, color), f) = Wanted(q)[f]
                ELSE Field([color |-> color], f) \in Askable(f)
                        => Field(Lit(q, color), f) = Field([color |-> color], f)

-----------------------------------------------------------------------------
(* What a control was told it had written is what every control shows of
   that field - the level a light was given, not the product the device
   stores - until a client changes it, a write of a sibling sends an older
   value along, or a refresh that read before the write, or failed to
   read, lands (coordinator.py:606-655, entity.py:379-400, light.py:100-140). *)
AcknowledgedIsShown ==
    \A f \in DOMAIN asked : Field(Shown, f) = asked[f]

Storing(c) == call[c] # Idle /\ call[c].pc = "called" /\ call'[c] # Idle /\ call'[c].pc = "stored"

(* A control whose patch was built while no other write was under way
   leaves every acknowledged value of its siblings as it is on the device
   (select.py:120-139, light.py:115-140). *)
SiblingsSurvive ==
    [][\A c \in Calls : Storing(c) /\ call[c].alone
        => \A f \in DOMAIN asked \ DOMAIN Wanted(call[c].request) :
                Field(dev', f) = asked[f]]_vars

(* "sibling settings (default on-time, icon set) survive the write and the
   other relays keep their own configuration" (select.py:123-125), of any
   write.  The code does not keep this. *)
EverySiblingSurvives ==
    [][\A c \in Calls : Storing(c)
        => \A f \in DOMAIN asked \ DOMAIN Wanted(call[c].request) :
                Field(dev', f) = asked[f]]_vars
=============================================================================
