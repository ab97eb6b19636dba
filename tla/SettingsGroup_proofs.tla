------------------------ MODULE SettingsGroup_proofs ------------------------
(***************************************************************************)
(* Proofs about SettingsGroup for any relays, calls, requests and changes  *)
(* elsewhere.  The invariant has two parameters: the fields K it speaks    *)
(* of, and a palette P no light leaves.  How much the bytes of a colour    *)
(* keep (Exact) decides which fields a theorem can speak of.               *)
(***************************************************************************)
EXTENDS SettingsGroup, FiniteSetTheorems, TLAPS

-----------------------------------------------------------------------------
(* _rescale (light.py:63-69): what a division and its rounding return. *)
LEMMA QuotientIsNatural ==
    ASSUME NEW n \in Nat, NEW d \in Nat \ {0}
    PROVE  n \div d \in Nat
BY SMT

LEMMA NoQuotientNoRest ==
    ASSUME NEW n \in Nat \ {0}, NEW d \in Nat \ {0}, n % d = 0
    PROVE  n \div d # 0
BY SMT

(* Of naturals a natural, ties included: what is rounded down is not 0. *)
LEMMA RoundedIsNatural ==
    ASSUME NEW n \in Nat, NEW d \in Nat \ {0}
    PROVE  Rounded(n, d) \in Nat
<1> DEFINE q == (2 * n + d) \div (2 * d)
<1>1. 2 * n + d \in Nat \ {0} /\ 2 * d \in Nat \ {0}
  BY SMT
<1>2. q \in Nat
  BY <1>1, QuotientIsNatural
<1>3. (2 * n + d) % (2 * d) = 0 => q # 0
  BY <1>1, NoQuotientNoRest
<1>4. Rounded(n, d) = q \/ ((2 * n + d) % (2 * d) = 0 /\ Rounded(n, d) = q - 1)
  BY DEF Rounded
<1> HIDE DEF q
<1> QED BY <1>2, <1>3, <1>4

(* The brightest channel is no tie when the hue is taken to 255. *)
LEMMA TheBrightestIsNoTie ==
    ASSUME NEW L \in Nat \ {0}
    PROVE  /\ (2 * (L * 255) + L) \div (2 * L) = 255
           /\ (2 * (L * 255) + L) % (2 * L) = L
BY SMT

(* A channel at 255 takes the level, and no other one exceeds it. *)
LEMMA FullChannelTakesTheLevel ==
    ASSUME NEW b \in Nat
    PROVE  Rounded(255 * b, 255) = b
BY SMT DEF Rounded

LEMMA NoChannelExceedsTheLevel ==
    ASSUME NEW b \in Nat, NEW p \in Nat, p <= 255 * b
    PROVE  Rounded(p, 255) <= b
BY SMT DEF Rounded

LEMMA ProductsAreOrdered ==
    ASSUME NEW b \in Nat, NEW c \in 0 .. 255
    PROVE  c * b <= 255 * b /\ c * b \in Nat
BY SMT

(* brightness (light.py:101-104) is the greatest channel. *)
LEMMA OneIsTheMost ==
    ASSUME NEW a \in Int, NEW b \in Int, NEW c \in Int
    PROVE  \E m \in {a, b, c} : a <= m /\ b <= m /\ c <= m
<1>1. CASE a <= b /\ c <= b
  BY <1>1
<1>2. CASE a <= c /\ b <= c
  BY <1>2
<1>3. CASE b <= a /\ c <= a
  BY <1>3
<1> QED BY <1>1, <1>2, <1>3

LEMMA BrightestIs ==
    ASSUME NEW rgb \in Rgb
    PROVE  /\ Brightest(rgb) \in Byte
           /\ Brightest(rgb) \in {rgb[1], rgb[2], rgb[3]}
           /\ rgb[1] <= Brightest(rgb) /\ rgb[2] <= Brightest(rgb) /\ rgb[3] <= Brightest(rgb)
<1>1. rgb[1] \in Byte /\ rgb[2] \in Byte /\ rgb[3] \in Byte
  BY DEF Rgb
<1>2. \E b \in {rgb[1], rgb[2], rgb[3]} : \A i \in 1 .. 3 : rgb[i] <= b
  <2>1. \E b \in {rgb[1], rgb[2], rgb[3]} : rgb[1] <= b /\ rgb[2] <= b /\ rgb[3] <= b
    <3>2. rgb[1] \in Int /\ rgb[2] \in Int /\ rgb[3] \in Int
      BY <1>1 DEF Byte
    <3> QED BY <3>2, OneIsTheMost
  <2>2. \A i \in 1 .. 3 : i = 1 \/ i = 2 \/ i = 3
    BY SMT
  <2> QED BY <2>1, <2>2
<1>3. /\ Brightest(rgb) \in {rgb[1], rgb[2], rgb[3]}
      /\ \A i \in 1 .. 3 : rgb[i] <= Brightest(rgb)
  BY <1>2 DEF Brightest
<1> QED BY <1>1, <1>3

LEMMA BrightestOf ==
    ASSUME NEW rgb \in Rgb, NEW b \in {rgb[1], rgb[2], rgb[3]},
           rgb[1] <= b, rgb[2] <= b, rgb[3] <= b
    PROVE  Brightest(rgb) = b
<1>1. rgb[1] \in Int /\ rgb[2] \in Int /\ rgb[3] \in Int
  BY DEF Rgb, Byte
<1>2. b <= Brightest(rgb) /\ Brightest(rgb) <= b
  BY <1>1, BrightestIs
<1>3. Brightest(rgb) \in Int /\ b \in Int
  BY <1>1, BrightestIs DEF Byte
<1> QED BY <1>2, <1>3

(* Whatever is rescaled stays a colour: every channel is cut off at 255. *)
LEMMA ScaledIsAByte ==
    ASSUME NEW b \in Byte, NEW n \in Byte, NEW d \in Nat \ {0}
    PROVE  Scaled(b, n, d) \in Byte
<1>1. b * n \in Nat
  BY SMT DEF Byte
<1>2. Rounded(b * n, d) \in Nat
  BY <1>1, RoundedIsNatural
<1> HIDE DEF Rounded
<1> QED BY <1>2, SMT DEF Scaled, AtMost, Byte

LEMMA RescaledIsAColor ==
    ASSUME NEW rgb \in Rgb, NEW n \in Byte, NEW d \in Nat \ {0}
    PROVE  Rescaled(rgb, n, d) \in Rgb
<1>1. rgb[1] \in Byte /\ rgb[2] \in Byte /\ rgb[3] \in Byte
  BY DEF Rgb
<1> QED BY <1>1, ScaledIsAByte DEF Rescaled, Rgb

(* A colour that is not black has a level from 1, so rgb_color may divide
   by it (light.py:107-113). *)
LEMMA ColorsHaveALevel ==
    ASSUME NEW rgb \in Rgb, rgb # Black
    PROVE  Level(rgb) \in 1 .. 255
<1>1. rgb[1] \in Byte /\ rgb[2] \in Byte /\ rgb[3] \in Byte /\ rgb = <<rgb[1], rgb[2], rgb[3]>>
  BY DEF Rgb
<1>2. ~(rgb[1] = 0 /\ rgb[2] = 0 /\ rgb[3] = 0)
  BY <1>1 DEF Black
<1>3. Level(rgb) \in Byte /\ rgb[1] <= Level(rgb) /\ rgb[2] <= Level(rgb) /\ rgb[3] <= Level(rgb)
  BY BrightestIs DEF Level
<1> QED BY <1>1, <1>2, <1>3, SMT DEF Byte

LEMMA LevelIsAByte ==
    ASSUME NEW rgb \in Rgb
    PROVE  Level(rgb) \in Byte
BY BrightestIs DEF Level

LEMMA HueIsAColor ==
    ASSUME NEW rgb \in Rgb
    PROVE  Hue(rgb) \in Rgb
<1>1. CASE rgb = Black
  BY <1>1 DEF Hue
<1>2. CASE rgb # Black
  <2>1. Level(rgb) \in Nat \ {0} /\ 255 \in Byte
    BY <1>2, ColorsHaveALevel DEF Byte
  <2> QED BY <1>2, <2>1, RescaledIsAColor DEF Hue
<1> QED BY <1>1, <1>2

(* What a light is asked for, and what it makes of a colour. *)
LEMMA LightsAreTyped ==
    ASSUME NEW q \in Lights
    PROVE  /\ q.rgb = Unsaid \/ q.rgb \in Rgb
           /\ q.level = Unsaid \/ q.level[1] \in 1 .. 255
<1>1. q \in Request /\ q.kind = "light"
  BY SettingsGroupAssumption DEF Lights
<1>2. q \in [kind : {"light"}, rgb : Rgb \cup {Unsaid},
          level : {<<b>> : b \in 1 .. 255} \cup {Unsaid}]
  BY <1>1 DEF Request
<1> QED BY <1>2

LEMMA LitIsAColor ==
    ASSUME NEW q \in Lights, NEW color \in Rgb, "color" \in DOMAIN Lit(q, color)
    PROVE  Lit(q, color).color \in Rgb
<1>1. DefaultRgb \in Rgb
  BY DEF DefaultRgb, Rgb, Byte
<1>2. Base(q, color) \in Rgb
  <2>1. CASE q.rgb # Unsaid
    <3>1. q.rgb \in Rgb
      BY <2>1, LightsAreTyped
    <3> QED BY <2>1, <3>1 DEF Base
  <2>2. CASE q.rgb = Unsaid
    BY <1>1, <2>2, HueIsAColor DEF Base
  <2> QED BY <2>1, <2>2
<1>3. LevelFor(q, color) \in Byte
  BY LevelIsAByte, LightsAreTyped DEF LevelFor, Byte
<1>4. Rescaled(Base(q, color), LevelFor(q, color), 255) \in Rgb
  BY <1>2, <1>3, RescaledIsAColor
<1> QED BY <1>1, <1>4 DEF Lit

(* A hue is shown at full brightness (light.py:113): its brightest channel
   comes out as 255, ties or not. *)
LEMMA HuesAreBright ==
    ASSUME NEW rgb \in Rgb, rgb # Black
    PROVE  Level(Hue(rgb)) = 255
<1> DEFINE L == Level(rgb)
<1>1. L \in 1 .. 255 /\ L \in {rgb[1], rgb[2], rgb[3]}
  BY ColorsHaveALevel, BrightestIs DEF Level
<1>2. Hue(rgb) = <<Scaled(rgb[1], 255, L), Scaled(rgb[2], 255, L), Scaled(rgb[3], 255, L)>>
  BY DEF Hue, Rescaled
<1>3. Scaled(L, 255, L) = 255
  <2>1. (2 * (L * 255) + L) \div (2 * L) = 255
    BY <1>1, TheBrightestIsNoTie
  <2>2. (2 * (L * 255) + L) % (2 * L) # 0
    BY <1>1, TheBrightestIsNoTie
  <2>3. Rounded(L * 255, L) = 255
    BY <2>1, <2>2 DEF Rounded
  <2> QED BY <2>3 DEF Scaled, AtMost
<1>4. \A c \in Byte : Scaled(c, 255, L) \in Byte
  <2>1. L \in Nat \ {0} /\ 255 \in Byte
    BY <1>1 DEF Byte
  <2> QED BY <2>1, ScaledIsAByte
<1>5. rgb[1] \in Byte /\ rgb[2] \in Byte /\ rgb[3] \in Byte
  BY DEF Rgb
<1> HIDE DEF L
<1>6. /\ Scaled(rgb[1], 255, L) <= 255
      /\ Scaled(rgb[2], 255, L) <= 255
      /\ Scaled(rgb[3], 255, L) <= 255
  <2>1. \A c \in Byte : Scaled(c, 255, L) <= 255
    <3> TAKE c \in Byte
    <3>1. Scaled(c, 255, L) \in 0 .. 255
      BY <1>4 DEF Byte
    <3> QED BY <3>1, SMT
  <2> QED BY <1>5, <2>1
<1>7. 255 \in {Hue(rgb)[1], Hue(rgb)[2], Hue(rgb)[3]}
  BY <1>1, <1>2, <1>3
<1> QED BY <1>2, <1>6, <1>7, HueIsAColor, BrightestOf DEF Level

(* A colour at full brightness has the level it is scaled to: the level
   survives being folded into the bytes (light.py:128-131). *)
LEMMA BrightColorsTakeTheLevel ==
    ASSUME NEW rgb \in Rgb, Level(rgb) = 255, NEW b \in 0 .. 255
    PROVE  Level(Rescaled(rgb, b, 255)) = b
<1>1. rgb[1] \in Byte /\ rgb[2] \in Byte /\ rgb[3] \in Byte
  BY DEF Rgb
<1>2. \A c \in Byte : Scaled(c, b, 255) <= b /\ (c = 255 => Scaled(c, b, 255) = b)
  <2> TAKE c \in Byte
  <2>1. c * b <= 255 * b /\ c * b \in Nat /\ b \in Nat
    BY ProductsAreOrdered DEF Byte
  <2>2. Rounded(c * b, 255) <= b
    BY <2>1, NoChannelExceedsTheLevel
  <2>3. Rounded(c * b, 255) \in Nat
    BY <2>1, RoundedIsNatural
  <2>4. c = 255 => Rounded(c * b, 255) = b
    BY <2>1, FullChannelTakesTheLevel
  <2> HIDE DEF Rounded
  <2> QED BY <2>2, <2>3, <2>4, SMT DEF Scaled, AtMost
<1>3. Rescaled(rgb, b, 255) \in Rgb
  <2>1. b \in Byte /\ 255 \in Nat \ {0}
    BY DEF Byte
  <2> QED BY <2>1, RescaledIsAColor
<1>4. 255 \in {rgb[1], rgb[2], rgb[3]}
  BY BrightestIs DEF Level
<1> QED BY <1>1, <1>2, <1>3, <1>4, BrightestOf DEF Rescaled, Level

-----------------------------------------------------------------------------
(* Settings whose colour is in the palette P. *)
Tinted(P) == {s \in Settings : s.color \in P}

(* A payload that carries the group the field is in. *)
Bears(p, f) ==
    CASE f[1] = "restart"  -> "relays" \in DOMAIN p
      [] f[1] = "led"      -> "led" \in DOMAIN p
      [] f[1] = "overload" -> "overload" \in DOMAIN p
      [] f[1] = "lit"      -> "lit" \in DOMAIN p
      [] f[1] = "level"    -> "color" \in DOMAIN p
      [] f[1] = "hue"      -> "color" \in DOMAIN p

Payload(p, P) ==
    /\ "relays" \in DOMAIN p => p.relays \in [Relays -> RestartStates]
    /\ "led" \in DOMAIN p => p.led \in 0 .. 1
    /\ "overload" \in DOMAIN p => p.overload \in Nat
    /\ "lit" \in DOMAIN p => p.lit \in 0 .. 1
    /\ "color" \in DOMAIN p => p.color \in P

(* The cases of a field, and what each reads. *)
LEMMA FieldsAre ==
    ASSUME NEW f \in Fields
    PROVE  \/ \E r \in Relays : f = <<"restart", r>>
           \/ f \in {<<"led">>, <<"overload">>, <<"lit">>, <<"level">>, <<"hue">>}
BY DEF Fields

LEMMA FieldOf ==
    ASSUME NEW s
    PROVE  /\ \A r : Field(s, <<"restart", r>>) = s.relays[r]
           /\ Field(s, <<"led">>) = s.led
           /\ Field(s, <<"overload">>) = s.overload
           /\ Field(s, <<"lit">>) = s.lit
           /\ Field(s, <<"level">>) = Level(s.color)
           /\ Field(s, <<"hue">>) = Hue(s.color)
BY DEF Field

LEMMA BearsIs ==
    ASSUME NEW p
    PROVE  /\ \A r : Bears(p, <<"restart", r>>) <=> "relays" \in DOMAIN p
           /\ Bears(p, <<"led">>) <=> "led" \in DOMAIN p
           /\ Bears(p, <<"overload">>) <=> "overload" \in DOMAIN p
           /\ Bears(p, <<"lit">>) <=> "lit" \in DOMAIN p
           /\ Bears(p, <<"level">>) <=> "color" \in DOMAIN p
           /\ Bears(p, <<"hue">>) <=> "color" \in DOMAIN p
BY DEF Bears

(* deep_merge (entity.py:177-186): a group of the patch replaces the one it
   is merged into, every other group stays. *)
LEMMA MergedFields ==
    ASSUME NEW s \in Settings, NEW p
    PROVE  LET m == deep_merge(s, p) IN
           /\ m.relays = IF "relays" \in DOMAIN p THEN p.relays ELSE s.relays
           /\ m.led = IF "led" \in DOMAIN p THEN p.led ELSE s.led
           /\ m.overload = IF "overload" \in DOMAIN p THEN p.overload ELSE s.overload
           /\ m.lit = IF "lit" \in DOMAIN p THEN p.lit ELSE s.lit
           /\ m.color = IF "color" \in DOMAIN p THEN p.color ELSE s.color
BY DEF deep_merge, Settings

LEMMA MergeShowsThePatch ==
    ASSUME NEW s \in Settings, NEW p, NEW f \in Fields
    PROVE  Field(deep_merge(s, p), f) = IF Bears(p, f) THEN Field(p, f) ELSE Field(s, f)
<1>1. CASE \E r \in Relays : f = <<"restart", r>>
  BY <1>1, MergedFields, FieldOf, BearsIs
<1>2. CASE f \in {<<"led">>, <<"overload">>, <<"lit">>, <<"level">>, <<"hue">>}
  BY <1>2, MergedFields, FieldOf, BearsIs
<1> QED BY <1>1, <1>2, FieldsAre

LEMMA MergeIsTyped ==
    ASSUME NEW P \in SUBSET Rgb, NEW s \in Tinted(P), NEW p, Payload(p, P)
    PROVE  deep_merge(s, p) \in Tinted(P)
<1>1. s \in Settings /\ s.color \in P
  BY DEF Tinted
<1> DEFINE m == deep_merge(s, p)
<1>2. m.relays \in [Relays -> RestartStates] /\ m.led \in 0 .. 1 /\ m.overload \in Nat
      /\ m.lit \in 0 .. 1 /\ m.color \in P
  BY <1>1, MergedFields DEF Payload, Settings
<1>3. m = [relays |-> m.relays, led |-> m.led, overload |-> m.overload,
           lit |-> m.lit, color |-> m.color]
  BY <1>1 DEF deep_merge, Settings
<1> HIDE DEF m
<1>4. m \in Settings
  BY <1>2, <1>3 DEF Settings
<1> QED BY <1>2, <1>4 DEF Tinted, m

-----------------------------------------------------------------------------
(* The cases of a request. *)
LEMMA RequestsAre ==
    ASSUME NEW q \in Requests \cup Edits
    PROVE  \/ q.kind = "restart" /\ q.relay \in Relays /\ q.value \in RestartStates
           \/ q.kind = "switch" /\ q.value \in 0 .. 1
           \/ q.kind = "threshold" /\ q.value \in Nat
           \/ q.kind = "light" /\ q \in Lights
           \/ q.kind = "dark"
<1>1. q \in Request
  BY SettingsGroupAssumption
<1> QED BY <1>1 DEF Request, Lights

(* What a control sends is a payload the device accepts. *)
LEMMA PatchIsAPayload ==
    ASSUME NEW K, NEW P \in SUBSET Rgb, Exact(K, P),
           NEW q \in Requests \cup Edits, NEW s \in Tinted(P)
    PROVE  Payload(Patch(q, s), P)
<1>1. s \in Settings /\ s.color \in P
  BY DEF Tinted
<1>2. CASE q.kind = "restart"
  <2>1. [s.relays EXCEPT ![q.relay] = q.value] \in [Relays -> RestartStates]
    BY <1>1, <1>2, RequestsAre DEF Settings
  <2>2. Patch(q, s) = [relays |-> [s.relays EXCEPT ![q.relay] = q.value]]
    BY <1>2 DEF Patch
  <2> QED BY <2>1, <2>2 DEF Payload
<1>3. CASE q.kind \in {"switch", "threshold", "dark"}
  BY <1>3, RequestsAre DEF Patch, Payload
<1>4. CASE q.kind = "light"
  <2>1. q \in Lights /\ Patch(q, s) = Lit(q, s.color)
    BY <1>4 DEF Lights, Patch
  <2>2. "color" \in DOMAIN Lit(q, s.color) => Lit(q, s.color).color \in P
    BY <1>1, <2>1 DEF Exact
  <2>3. /\ DOMAIN Lit(q, s.color) \subseteq {"lit", "color"}
        /\ Lit(q, s.color).lit = 1
    BY DEF Lit
  <2> QED BY <2>1, <2>2, <2>3 DEF Payload
<1> QED BY <1>2, <1>3, <1>4, RequestsAre

LEMMA WantedFields ==
    ASSUME NEW q \in Requests
    PROVE  DOMAIN Wanted(q) \in SUBSET Fields
<1>1. CASE q.kind = "restart"
  BY <1>1, RequestsAre DEF Wanted, Fields
<1>2. CASE q.kind \in {"switch", "threshold", "dark"}
  BY <1>2 DEF Wanted, Fields
<1>3. CASE q.kind = "light"
  BY <1>3 DEF Wanted, Fields
<1> QED BY <1>1, <1>2, <1>3, RequestsAre

(* What a light puts into its payload. *)
LEMMA LitHas ==
    ASSUME NEW q, NEW color
    PROVE  /\ Lit(q, color).lit = 1 /\ "lit" \in DOMAIN Lit(q, color)
           /\ DOMAIN Lit(q, color) \subseteq {"lit", "color"}
           /\ q.rgb # Unsaid \/ q.level # Unsaid => "color" \in DOMAIN Lit(q, color)
BY DEF Lit

LEMMA LightWants ==
    ASSUME NEW q, q.kind = "light"
    PROVE  /\ DOMAIN Wanted(q) \subseteq {<<"lit">>, <<"hue">>, <<"level">>}
           /\ Wanted(q)[<<"lit">>] = 1
           /\ <<"hue">> \in DOMAIN Wanted(q) => q.rgb # Unsaid /\ Wanted(q)[<<"hue">>] = q.rgb
           /\ <<"level">> \in DOMAIN Wanted(q) <=> q.level # Unsaid
           /\ q.level # Unsaid => Wanted(q)[<<"level">>] = q.level[1]
BY DEF Wanted

(* What a control sends holds what it was asked for (select.py:132-139,
   light.py:115-136, number.py:82-97). *)
LEMMA PatchDoesWhatIsWanted ==
    ASSUME NEW K \in SUBSET Fields, NEW P \in SUBSET Rgb, Exact(K, P),
           NEW q \in Requests, NEW s \in Tinted(P), NEW f \in K \cap DOMAIN Wanted(q)
    PROVE  Bears(Patch(q, s), f) /\ Field(Patch(q, s), f) = Wanted(q)[f]
<1>1. s \in Settings /\ s.color \in P
  BY DEF Tinted
<1>2. CASE q.kind = "restart"
  <2>1. f = <<"restart", q.relay>> /\ Wanted(q)[f] = q.value
    BY <1>2 DEF Wanted
  <2>2. Patch(q, s) = [relays |-> [s.relays EXCEPT ![q.relay] = q.value]]
    BY <1>2 DEF Patch
  <2>3. [s.relays EXCEPT ![q.relay] = q.value][q.relay] = q.value
    BY <1>1, <1>2, RequestsAre DEF Settings
  <2> DEFINE p == Patch(q, s)
  <2>4. "relays" \in DOMAIN p /\ p.relays[q.relay] = q.value
    BY <2>2, <2>3
  <2> HIDE DEF p
  <2>5. Bears(p, f) /\ Field(p, f) = p.relays[q.relay]
    BY <2>1, <2>4, FieldOf, BearsIs
  <2> QED BY <2>1, <2>4, <2>5 DEF p
<1>3. CASE q.kind = "switch"
  BY <1>3, FieldOf, BearsIs DEF Wanted, Patch
<1>4. CASE q.kind = "threshold"
  BY <1>4, FieldOf, BearsIs DEF Wanted, Patch
<1>5. CASE q.kind = "dark"
  BY <1>5, FieldOf, BearsIs DEF Wanted, Patch
<1>6. CASE q.kind = "light"
  <2>1. q \in Lights /\ Patch(q, s) = Lit(q, s.color)
    BY <1>6 DEF Lights, Patch
  <2>2. CASE f = <<"lit">>
    BY <1>6, <2>1, <2>2, LitHas, LightWants, FieldOf, BearsIs
  <2>3. CASE f \in Backlight
    <3>1. "color" \in DOMAIN Lit(q, s.color)
      BY <1>6, <2>3, LightWants, LitHas DEF Backlight
    <3>2. Field(Lit(q, s.color), f) = Wanted(q)[f]
      BY <1>1, <2>1, <2>3, <3>1 DEF Exact, Backlight
    <3> QED BY <2>1, <2>3, <3>1, <3>2, BearsIs DEF Backlight
  <2> QED BY <1>6, <2>2, <2>3, LightWants DEF Backlight
<1> QED BY <1>2, <1>3, <1>4, <1>5, <1>6, RequestsAre

(* And it repeats the siblings in the groups it replaces as they are shown
   (select.py:123-125: the relay list is round-tripped; light.py:128-130). *)
LEMMA PatchKeepsSiblings ==
    ASSUME NEW K \in SUBSET Fields, NEW P \in SUBSET Rgb, Exact(K, P),
           NEW q \in Requests, NEW s \in Tinted(P), NEW f \in K \ DOMAIN Wanted(q),
           Bears(Patch(q, s), f), Field(s, f) \in Askable(f)
    PROVE  Field(Patch(q, s), f) = Field(s, f)
<1>1. s \in Settings /\ s.color \in P
  BY DEF Tinted
<1>2. CASE q.kind = "restart"
  <2>1. Patch(q, s) = [relays |-> [s.relays EXCEPT ![q.relay] = q.value]]
    BY <1>2 DEF Patch
  <2>2. PICK r \in Relays : f = <<"restart", r>>
    BY <2>1, BearsIs, FieldsAre
  <2>3. r # q.relay
    BY <1>2, <2>2 DEF Wanted
  <2>4. [s.relays EXCEPT ![q.relay] = q.value][r] = s.relays[r]
    BY <1>1, <2>3 DEF Settings
  <2> DEFINE p == Patch(q, s)
  <2>5. p.relays[r] = s.relays[r]
    BY <2>1, <2>4
  <2> HIDE DEF p
  <2>6. Field(p, f) = p.relays[r] /\ Field(s, f) = s.relays[r]
    BY <2>2, FieldOf
  <2> QED BY <2>5, <2>6 DEF p
<1>3. CASE q.kind = "switch"
  <2>1. f # <<"led">>
    BY <1>3 DEF Wanted
  <2> QED BY <1>3, <2>1, BearsIs, FieldsAre DEF Patch
<1>4. CASE q.kind = "threshold"
  <2>1. f # <<"overload">>
    BY <1>4 DEF Wanted
  <2> QED BY <1>4, <2>1, BearsIs, FieldsAre DEF Patch
<1>5. CASE q.kind = "dark"
  <2>1. f # <<"lit">>
    BY <1>5 DEF Wanted
  <2> QED BY <1>5, <2>1, BearsIs, FieldsAre DEF Patch
<1>6. CASE q.kind = "light"
  <2>1. q \in Lights /\ Patch(q, s) = Lit(q, s.color)
    BY <1>6 DEF Lights, Patch
  <2>2. f # <<"lit">>
    BY <1>6 DEF Wanted
  <2>3. f \in Backlight /\ "color" \in DOMAIN Lit(q, s.color)
    BY <2>1, <2>2, BearsIs, FieldsAre, LitHas DEF Backlight
  <2>4. Field([color |-> s.color], f) = Field(s, f)
    BY <2>3, FieldOf DEF Backlight
  <2> QED BY <1>1, <2>1, <2>3, <2>4 DEF Exact, Backlight
<1> QED BY <1>2, <1>3, <1>4, <1>5, <1>6, RequestsAre

-----------------------------------------------------------------------------
(* What the variables hold. *)
Overlays(P) == {[set |-> s, age |-> n] : s \in Tinted(P), n \in 0 .. Settle}
Polls(P) ==
    [pc : {"reading", "read"}, full : BOOLEAN, got : Tinted(P), outdated : SUBSET Fields]
Calleds(P) ==
    {[pc |-> "called", request |-> q, patch |-> Patch(q, s), alone |-> b] :
        q \in Requests, s \in Tinted(P), b \in BOOLEAN}
Storeds(P) ==
    {[pc |-> "stored", request |-> q, patch |-> Patch(q, s), answer |-> a, held |-> h] :
        q \in Requests, s \in Tinted(P), a \in Tinted(P), h \in SUBSET Fields}

Typed(P) ==
    /\ dev \in Tinted(P) /\ snap \in Tinted(P)
    /\ overlay \in {{o} : o \in Overlays(P)} \cup {{}}
    /\ force \in BOOLEAN
    /\ poll \in Polls(P) \cup {Idle}
    /\ call \in [Calls -> Calleds(P) \cup Storeds(P) \cup {Idle}]
    /\ moves \in 0 .. MaxMoves
    /\ DOMAIN asked \in SUBSET Fields

(* Every call in flight is queued once, and only the head has stored. *)
Queued ==
    /\ queue \in Seq(Calls)
    /\ \A i, j \in 1 .. Len(queue) : queue[i] = queue[j] => i = j
    /\ \A c \in Calls : call[c] # Idle <=> \E i \in 1 .. Len(queue) : queue[i] = c
    /\ \A i \in 1 .. Len(queue) : call[queue[i]].pc = "stored" => i = 1

(* The device has what was acknowledged, and a control may have asked it. *)
DevHolds(K) ==
    \A f \in DOMAIN asked \cap K : Field(dev, f) = asked[f] /\ asked[f] \in Askable(f)

(* It is shown, and in the snapshot once no full refresh is owed. *)
ShownHolds(K) == \A f \in DOMAIN asked \cap K : Field(Shown, f) = asked[f]

SnapHolds(K) == ~force => \A f \in DOMAIN asked \cap K : Field(snap, f) = asked[f]

(* A write that is stored and not yet answered: until somebody changes it,
   the device holds what it asked for, and the answer will say so, and what
   was acknowledged before. *)
StoredHolds(K) ==
    \A c \in Calls : call[c].pc = "stored" =>
        /\ call[c].held \subseteq DOMAIN Wanted(call[c].request)
        /\ \A f \in call[c].held \cap K : Field(dev, f) = Wanted(call[c].request)[f]
        /\ DOMAIN asked \cap DOMAIN Wanted(call[c].request) = {}
        /\ \A f \in DOMAIN asked \cap K : Field(call[c].answer, f) = asked[f]
        /\ \A f \in Fields : Bears(call[c].patch, f)
                => Field(call[c].answer, f) = Field(call[c].patch, f)

(* A relay-only refresh carries the snapshot it started from: no other
   refresh lands meanwhile. *)
RelayOnly == poll # Idle /\ ~poll.full => poll.pc = "read" /\ poll.got = snap

(* A refresh that has read shows what was acknowledged, or is outdated in
   it; a full one has read what a stored write holds. *)
PollHolds(K) ==
    poll # Idle /\ poll.pc = "read" =>
        /\ \A f \in (DOMAIN asked \cap K) \ poll.outdated : Field(poll.got, f) = asked[f]
        /\ poll.full => \A c \in Calls : call[c].pc = "stored" =>
            \A f \in (call[c].held \cap K) \ poll.outdated :
                Field(poll.got, f) = Wanted(call[c].request)[f]

(* A call made alone is still the head of the queue, and its patch has
   nothing out of date. *)
AloneHolds(K) ==
    \A c \in Calls : call[c].pc = "called" /\ call[c].alone =>
        /\ queue # <<>> /\ Head(queue) = c
        /\ \A f \in (DOMAIN asked \cap K) \ DOMAIN Wanted(call[c].request) :
            Bears(call[c].patch, f) => Field(call[c].patch, f) = asked[f]

(* The invariant, about the fields of K and the colours of P. *)
SettingsInv(K, P) ==
    /\ Typed(P) /\ Queued
    /\ DevHolds(K) /\ ShownHolds(K) /\ SnapHolds(K)
    /\ StoredHolds(K) /\ RelayOnly /\ PollHolds(K) /\ AloneHolds(K)

-----------------------------------------------------------------------------
LEMMA OnlyOne == ASSUME NEW x PROVE (CHOOSE o \in {x} : TRUE) = x
OBVIOUS

(* settings (coordinator.py:605-632): the overlay, or else the snapshot. *)
LEMMA ShownIs ==
    ASSUME NEW P, Typed(P)
    PROVE  /\ Shown \in Tinted(P)
           /\ overlay = {} => Shown = snap
           /\ \A o : overlay = {o} => Shown = o.set
<1>1. CASE overlay = {}
  BY <1>1 DEF Typed, Shown
<1>2. CASE overlay # {}
  <2>1. PICK o \in Overlays(P) : overlay = {o}
    BY <1>2 DEF Typed
  <2>2. Shown = o.set /\ o.set \in Tinted(P)
    BY <2>1, OnlyOne DEF Shown, Written, Overlays
  <2> QED BY <2>1, <2>2
<1> QED BY <1>1, <1>2

(* What a call in flight carries. *)
LEMMA CallsAre ==
    ASSUME NEW K \in SUBSET Fields, NEW P \in SUBSET Rgb, Exact(K, P), Typed(P),
           NEW c \in Calls, call[c].pc \in {"called", "stored"}
    PROVE  /\ call[c].request \in Requests
           /\ Payload(call[c].patch, P)
           /\ \E s \in Tinted(P) : call[c].patch = Patch(call[c].request, s)
           /\ \A f \in K \cap DOMAIN Wanted(call[c].request) :
                /\ Bears(call[c].patch, f)
                /\ Field(call[c].patch, f) = Wanted(call[c].request)[f]
           /\ call[c].pc = "called" => call[c] \in Calleds(P)
           /\ call[c].pc = "stored" => /\ call[c] \in Storeds(P)
                                       /\ call[c].answer \in Tinted(P)
                                       /\ call[c].held \in SUBSET Fields
<1>1. call[c] \in Calleds(P) \cup Storeds(P) \cup {Idle}
  BY DEF Typed
<1>2. call[c].pc = "called" => call[c] \in Calleds(P)
  BY <1>1 DEF Storeds, Idle
<1>3. call[c].pc = "stored" => call[c] \in Storeds(P)
  BY <1>1 DEF Calleds, Idle
<1>4. /\ call[c].request \in Requests
      /\ \E s \in Tinted(P) : call[c].patch = Patch(call[c].request, s)
  BY <1>2, <1>3 DEF Calleds, Storeds
<1>5. call[c].pc = "stored" => call[c].answer \in Tinted(P) /\ call[c].held \in SUBSET Fields
  BY <1>3 DEF Storeds
<1> QED BY <1>2, <1>3, <1>4, <1>5, PatchIsAPayload, PatchDoesWhatIsWanted

(* The queue, when a call joins and when its head leaves. *)
LEMMA QueueGrows ==
    ASSUME NEW S, NEW s \in Seq(S), NEW x \in S, NEW t, t = Append(s, x)
    PROVE  /\ t \in Seq(S) /\ Len(t) = Len(s) + 1 /\ t # <<>>
           /\ t[Len(s) + 1] = x /\ \A i \in 1 .. Len(s) : t[i] = s[i]
           /\ s = <<>> => Head(t) = x
           /\ s # <<>> => Head(t) = Head(s)
OBVIOUS

LEMMA QueueShrinks ==
    ASSUME NEW S, NEW s \in Seq(S), s # <<>>, NEW t, t = Tail(s)
    PROVE  /\ t \in Seq(S) /\ Len(t) = Len(s) - 1 /\ Len(s) \in Nat \ {0}
           /\ \A i \in 1 .. Len(t) : t[i] = s[i + 1]
           /\ Head(s) = s[1]
OBVIOUS

-----------------------------------------------------------------------------
(* Nothing has been acknowledged to begin with. *)
LEMMA InitEstablishes ==
    ASSUME NEW K \in SUBSET Fields, NEW P \in SUBSET Rgb, Exact(K, P), Init
    PROVE  SettingsInv(K, P)
<1>1. Fresh \in Tinted(P)
  BY DEF Exact, Fresh, Tinted, Settings, RestartStates, Black, Rgb, Byte
<1>2. DOMAIN asked = {}
  BY DEF Init, Only
<1>3. \A c \in Calls : call[c] = Idle /\ call[c].pc = "idle"
  BY DEF Init, Idle
<1>4. Typed(P)
  <2>1. call \in [Calls -> Calleds(P) \cup Storeds(P) \cup {Idle}]
    BY DEF Init
  <2>2. moves \in 0 .. MaxMoves
    BY SettingsGroupAssumption DEF Init
  <2> QED BY <1>1, <1>2, <2>1, <2>2 DEF Init, Typed
<1>5. Queued
  BY <1>3 DEF Init, Queued
<1>6. DevHolds(K) /\ ShownHolds(K) /\ SnapHolds(K)
  BY <1>2 DEF DevHolds, ShownHolds, SnapHolds
<1>7. StoredHolds(K) /\ AloneHolds(K)
  BY <1>3 DEF StoredHolds, AloneHolds
<1>8. RelayOnly /\ PollHolds(K)
  BY DEF Init, RelayOnly, PollHolds
<1> QED BY <1>4, <1>5, <1>6, <1>7, <1>8 DEF SettingsInv

-----------------------------------------------------------------------------
(* A control builds its patch from what is shown and queues for the lock
   (entity.py:379-392, blebox_actions.py:681-693). *)
LEMMA CallKeepsInv ==
    ASSUME NEW K \in SUBSET Fields, NEW P \in SUBSET Rgb, Exact(K, P), SettingsInv(K, P),
           NEW c \in Calls, NEW q \in Requests, Call(c, q)
    PROVE  SettingsInv(K, P)'
<1> DEFINE b == queue = <<>>
           r == [pc |-> "called", request |-> q, patch |-> Patch(q, Shown), alone |-> b]
<1>1. Typed(P) /\ Queued /\ DevHolds(K) /\ ShownHolds(K) /\ SnapHolds(K)
      /\ StoredHolds(K) /\ RelayOnly /\ PollHolds(K) /\ AloneHolds(K)
  BY DEF SettingsInv
<1>2. /\ call[c] = Idle /\ call' = [call EXCEPT ![c] = r] /\ queue' = Append(queue, c)
      /\ dev' = dev /\ snap' = snap /\ overlay' = overlay /\ force' = force
      /\ poll' = poll /\ asked' = asked
  BY DEF Call, Basis
<1>3. Shown \in Tinted(P) /\ Shown' = Shown
  BY <1>1, <1>2, ShownIs DEF Shown, Written
<1>4. r \in Calleds(P) /\ r.pc = "called" /\ r.request = q
      /\ r.patch = Patch(q, Shown) /\ (r.alone <=> queue = <<>>)
  <2>1. b \in BOOLEAN /\ (b <=> queue = <<>>)
    OBVIOUS
  <2> HIDE DEF b
  <2> QED BY <1>3, <2>1 DEF Calleds
<1> HIDE DEF r
<1>5. /\ call'[c] = r /\ \A d \in Calls \ {c} : call'[d] = call[d]
      /\ call' \in [Calls -> Calleds(P) \cup Storeds(P) \cup {Idle}]
  BY <1>1, <1>2, <1>4 DEF Typed
<1>6. Typed(P)'
  <2>1. moves' \in 0 .. MaxMoves
    BY <1>1, SettingsGroupAssumption DEF Call, Move, Typed
  <2> QED BY <1>1, <1>2, <1>5, <2>1 DEF Typed
<1>7. r # Idle /\ r.pc # "stored"
  BY <1>4 DEF Idle
<1>8. /\ queue' \in Seq(Calls) /\ Len(queue') = Len(queue) + 1 /\ queue' # <<>>
      /\ queue'[Len(queue) + 1] = c /\ \A i \in 1 .. Len(queue) : queue'[i] = queue[i]
      /\ queue = <<>> => Head(queue') = c
      /\ queue # <<>> => Head(queue') = Head(queue)
      /\ Len(queue) \in Nat
  BY <1>1, <1>2, QueueGrows DEF Queued
<1>9. Queued'
  <2>1. \A i \in 1 .. Len(queue) : queue[i] # c /\ queue[i] \in Calls
    BY <1>1, <1>2 DEF Queued
  <2>2. \A i \in 1 .. Len(queue') : i \in 1 .. Len(queue) \/ i = Len(queue) + 1
    BY <1>8
  <2>3. \A i, j \in 1 .. Len(queue') : queue'[i] = queue'[j] => i = j
    BY <1>1, <1>8, <2>1, <2>2 DEF Queued
  <2>4. \A d \in Calls : call'[d] # Idle <=> \E i \in 1 .. Len(queue') : queue'[i] = d
    <3> TAKE d \in Calls
    <3>1. CASE d = c
      <4>1. Len(queue) + 1 \in 1 .. Len(queue')
        BY <1>8
      <4> QED BY <1>5, <1>7, <1>8, <3>1, <4>1
    <3>2. CASE d # c
      <4>1. \A i \in 1 .. Len(queue) : i \in 1 .. Len(queue')
        BY <1>8
      <4>2. (\E i \in 1 .. Len(queue') : queue'[i] = d)
                <=> (\E i \in 1 .. Len(queue) : queue[i] = d)
        BY <1>8, <2>2, <3>2, <4>1
      <4> QED BY <1>1, <1>5, <3>2, <4>2 DEF Queued
    <3> QED BY <3>1, <3>2
  <2>5. \A i \in 1 .. Len(queue') : call'[queue'[i]].pc = "stored" => i = 1
    BY <1>1, <1>5, <1>7, <1>8, <2>1, <2>2 DEF Queued
  <2> QED BY <1>8, <2>3, <2>4, <2>5 DEF Queued
<1>10. DevHolds(K)' /\ ShownHolds(K)' /\ SnapHolds(K)' /\ RelayOnly'
  BY <1>1, <1>2, <1>3 DEF DevHolds, ShownHolds, SnapHolds, RelayOnly
<1>11. StoredHolds(K)' /\ PollHolds(K)'
  BY <1>1, <1>2, <1>5, <1>7 DEF StoredHolds, PollHolds
<1>12. AloneHolds(K)'
  <2> SUFFICES ASSUME NEW d \in Calls, call'[d].pc = "called", call'[d].alone
               PROVE  /\ queue' # <<>> /\ Head(queue') = d
                      /\ \A f \in (DOMAIN asked' \cap K) \ DOMAIN Wanted(call'[d].request) :
                            Bears(call'[d].patch, f) => Field(call'[d].patch, f) = asked'[f]
    BY DEF AloneHolds
  <2>1. CASE d # c
    BY <1>1, <1>2, <1>5, <1>8, <2>1 DEF AloneHolds
  <2>2. CASE d = c
    <3>1. queue = <<>> /\ Head(queue') = c
      BY <1>4, <1>5, <1>8, <2>2
    <3>2. ASSUME NEW f \in (DOMAIN asked \cap K) \ DOMAIN Wanted(q), Bears(Patch(q, Shown), f)
          PROVE  Field(Patch(q, Shown), f) = asked[f]
      <4>1. Field(Shown, f) = asked[f] /\ asked[f] \in Askable(f)
        BY <1>1, <3>2 DEF ShownHolds, DevHolds
      <4> QED BY <1>3, <3>2, <4>1, PatchKeepsSiblings
    <3> QED BY <1>2, <1>4, <1>5, <1>8, <2>2, <3>1, <3>2
  <2> QED BY <2>1, <2>2
<1> QED BY <1>6, <1>9, <1>10, <1>11, <1>12 DEF SettingsInv

(* What is left of the history when only fields that s holds are kept. *)
LEMMA HeldFieldsStay ==
    ASSUME NEW s, NEW F \in SUBSET Holding(s, DOMAIN asked), NEW a, a = Only(F)
    PROVE  /\ DOMAIN a = F /\ F \subseteq DOMAIN asked
           /\ \A f \in DOMAIN a : a[f] = asked[f] /\ Field(s, f) = asked[f]
BY DEF Only, Holding

(* The holder of _write_lock is the head of its queue. *)
LEMMA HolderIsHead ==
    ASSUME Queued, NEW c \in Calls, HasWriteLock(c)
    PROVE  /\ queue # <<>> /\ Len(queue) \in Nat \ {0} /\ queue[1] = c /\ call[c] # Idle
           /\ \A d \in Calls : call[d].pc = "stored" /\ call[d] # Idle => d = c
<1>1. /\ queue # <<>> /\ Len(queue) \in Nat \ {0} /\ queue[1] = c
  BY DEF HasWriteLock, Queued
<1>2. 1 \in 1 .. Len(queue)
  BY <1>1
<1> QED BY <1>1, <1>2 DEF Queued

(* The record of a stored call, taken apart and put together. *)
LEMMA StoredsAre ==
    ASSUME NEW P \in SUBSET Rgb, NEW r \in Storeds(P)
    PROVE  /\ r = [pc |-> "stored", request |-> r.request, patch |-> r.patch,
                   answer |-> r.answer, held |-> r.held]
           /\ r.request \in Requests /\ r.answer \in Tinted(P)
           /\ \E s \in Tinted(P) : r.patch = Patch(r.request, s)
BY DEF Storeds

LEMMA StoredsHave ==
    ASSUME NEW P \in SUBSET Rgb, NEW q \in Requests, NEW s \in Tinted(P), NEW a \in Tinted(P),
           NEW h \in SUBSET Fields
    PROVE  [pc |-> "stored", request |-> q, patch |-> Patch(q, s), answer |-> a, held |-> h]
                \in Storeds(P)
BY DEF Storeds

(* The device merges the patch and answers with all of its settings. *)
LEMMA StoresKeepsInv ==
    ASSUME NEW K \in SUBSET Fields, NEW P \in SUBSET Rgb, Exact(K, P), SettingsInv(K, P),
           NEW c \in Calls, Stores(c)
    PROVE  SettingsInv(K, P)'
<1> DEFINE q == call[c].request
           p == call[c].patch
           W == DOMAIN Wanted(q)
           r == [pc |-> "stored", request |-> q, patch |-> p, answer |-> dev', held |-> W]
<1>1. Typed(P) /\ Queued /\ DevHolds(K) /\ ShownHolds(K) /\ SnapHolds(K)
      /\ StoredHolds(K) /\ RelayOnly /\ PollHolds(K) /\ AloneHolds(K)
  BY DEF SettingsInv
<1>2. /\ HasWriteLock(c) /\ call[c].pc = "called"
      /\ dev' = deep_merge(dev, p) /\ call' = [call EXCEPT ![c] = r]
      /\ asked' = Only(Holding(dev', DOMAIN asked) \ W) /\ poll' = Outdated(poll, TRUE, W)
      /\ snap' = snap /\ overlay' = overlay /\ force' = force /\ queue' = queue
      /\ moves' = moves
  BY DEF Stores
<1>3. /\ q \in Requests /\ Payload(p, P) /\ W \in SUBSET Fields
      /\ \E s \in Tinted(P) : p = Patch(q, s)
      /\ \A f \in K \cap W : Bears(p, f) /\ Field(p, f) = Wanted(q)[f]
  BY <1>1, <1>2, CallsAre, WantedFields
<1>4. dev' \in Tinted(P)
  BY <1>1, <1>2, <1>3, MergeIsTyped DEF Typed
<1> HIDE DEF q, p, W
<1>5. r \in Storeds(P) /\ r.pc = "stored" /\ r # Idle
      /\ r.request = q /\ r.patch = p /\ r.answer = dev' /\ r.held = W
  <2>1. PICK s \in Tinted(P) : p = Patch(q, s)
    BY <1>3
  <2>2. r \in Storeds(P)
    BY <1>3, <1>4, <2>1, StoredsHave
  <2> QED BY <2>2 DEF Idle
<1>6. \A f \in Fields : Field(dev', f) = IF Bears(p, f) THEN Field(p, f) ELSE Field(dev, f)
  BY <1>1, <1>2, MergeShowsThePatch DEF Typed, Tinted
<1> HIDE DEF r
<1>7. call'[c] = r /\ (\A d \in Calls \ {c} : call'[d] = call[d])
      /\ call' \in [Calls -> Calleds(P) \cup Storeds(P) \cup {Idle}]
  BY <1>1, <1>2, <1>5 DEF Typed
<1>8. /\ poll' \in Polls(P) \cup {Idle} /\ (poll' = Idle <=> poll = Idle)
      /\ poll # Idle =>
            /\ poll'.pc = poll.pc /\ poll'.full = poll.full /\ poll'.got = poll.got
            /\ poll.outdated \subseteq poll'.outdated
            /\ poll.pc = "read" /\ poll.full => W \subseteq poll'.outdated
  <2>1. poll \in Polls(P) \cup {Idle} /\ (poll # Idle => poll.full \in BOOLEAN)
    BY <1>1 DEF Typed, Polls
  <2>2. CASE poll # Idle /\ poll.pc = "read" /\ poll.full
    <3>1. poll' = [poll EXCEPT !.outdated = poll.outdated \cup W] /\ poll \in Polls(P)
      BY <1>2, <2>1, <2>2 DEF Outdated
    <3> QED BY <1>3, <2>2, <3>1 DEF Polls, Idle
  <2>3. CASE ~(poll # Idle /\ poll.pc = "read" /\ poll.full)
    <3>1. poll' = poll
      BY <1>2, <2>1, <2>3 DEF Outdated
    <3> QED BY <2>1, <2>3, <3>1
  <2> QED BY <2>2, <2>3
<1>9. /\ DOMAIN asked' \subseteq DOMAIN asked /\ DOMAIN asked' \cap W = {}
      /\ \A f \in DOMAIN asked' : asked'[f] = asked[f] /\ Field(dev', f) = asked[f]
  <2>1. Holding(dev', DOMAIN asked) \ W \in SUBSET Holding(dev', DOMAIN asked)
    OBVIOUS
  <2> QED BY <1>2, <2>1, HeldFieldsStay
<1>10. DOMAIN asked \in SUBSET Fields
  BY <1>1 DEF Typed
<1>11. \A d \in Calls : call[d].pc = "stored" => d = c
  BY <1>1, <1>2, HolderIsHead DEF Idle
<1>12. Typed(P)'
  BY <1>1, <1>2, <1>4, <1>7, <1>8, <1>9 DEF Typed
<1>13. Queued'
  <2>1. call[c] # Idle /\ queue[1] = c
    BY <1>1, <1>2, HolderIsHead
  <2>2. \A d \in Calls : call'[d] # Idle <=> call[d] # Idle
    BY <1>5, <1>7, <2>1
  <2>3. \A i \in 1 .. Len(queue) : queue[i] \in Calls
    BY <1>1 DEF Queued
  <2>4. \A i \in 1 .. Len(queue) : call'[queue[i]].pc = "stored" => i = 1
    <3> TAKE i \in 1 .. Len(queue)
    <3>1. CASE queue[i] = c
      <4>1. 1 \in 1 .. Len(queue)
        BY <1>1, <1>2, HolderIsHead
      <4> QED BY <1>1, <2>1, <3>1, <4>1 DEF Queued
    <3>2. CASE queue[i] # c
      BY <1>1, <1>7, <2>3, <3>2 DEF Queued
    <3> QED BY <3>1, <3>2
  <2> QED BY <1>1, <1>2, <2>2, <2>4 DEF Queued
<1>14. DevHolds(K)'
  BY <1>1, <1>9 DEF DevHolds
<1>15. ShownHolds(K)'
  <2>1. Shown' = Shown
    BY <1>2 DEF Shown, Written
  <2> QED BY <1>1, <1>9, <2>1 DEF ShownHolds
<1>16. SnapHolds(K)' /\ RelayOnly'
  BY <1>1, <1>2, <1>8, <1>9 DEF SnapHolds, RelayOnly
<1>17. StoredHolds(K)'
  <2>1. \A d \in Calls : call'[d].pc = "stored" => d = c
    BY <1>7, <1>11
  <2>2. \A f \in W \cap K : Field(dev', f) = Wanted(q)[f]
    BY <1>3, <1>6
  <2>3. \A f \in DOMAIN asked' \cap K : Field(dev', f) = asked'[f]
    BY <1>9
  <2>4. \A f \in Fields : Bears(p, f) => Field(dev', f) = Field(p, f)
    BY <1>6
  <2> QED BY <1>5, <1>7, <1>9, <2>1, <2>2, <2>3, <2>4 DEF StoredHolds, W
<1>18. PollHolds(K)'
  <2> SUFFICES ASSUME poll' # Idle /\ poll'.pc = "read"
               PROVE  /\ \A f \in (DOMAIN asked' \cap K) \ poll'.outdated :
                            Field(poll'.got, f) = asked'[f]
                      /\ poll'.full => \A d \in Calls : call'[d].pc = "stored" =>
                            \A f \in (call'[d].held \cap K) \ poll'.outdated :
                                Field(poll'.got, f) = Wanted(call'[d].request)[f]
    BY DEF PollHolds
  <2>1. \A f \in (DOMAIN asked' \cap K) \ poll'.outdated : Field(poll'.got, f) = asked'[f]
    BY <1>1, <1>8, <1>9 DEF PollHolds
  <2>2. poll'.full => W \subseteq poll'.outdated
    BY <1>1, <1>8 DEF Typed, Polls
  <2>3. \A d \in Calls : call'[d].pc = "stored" => d = c
    BY <1>7, <1>11
  <2> QED BY <1>5, <1>7, <2>1, <2>2, <2>3
<1>19. AloneHolds(K)'
  <2>1. \A d \in Calls : call'[d].pc = "called" => d # c
    BY <1>5, <1>7
  <2>2. \A d \in Calls : call'[d].pc = "called" => call'[d] = call[d]
    BY <1>7, <2>1
  <2> SUFFICES ASSUME NEW d \in Calls, call'[d].pc = "called", call'[d].alone
               PROVE  /\ queue' # <<>> /\ Head(queue') = d
                      /\ \A f \in (DOMAIN asked' \cap K) \ DOMAIN Wanted(call'[d].request) :
                            Bears(call'[d].patch, f) => Field(call'[d].patch, f) = asked'[f]
    BY DEF AloneHolds
  <2>3. /\ queue # <<>> /\ Head(queue) = d
        /\ \A f \in (DOMAIN asked \cap K) \ DOMAIN Wanted(call'[d].request) :
                Bears(call'[d].patch, f) => Field(call'[d].patch, f) = asked[f]
    BY <1>1, <2>2 DEF AloneHolds
  <2> QED BY <1>2, <1>9, <2>3
<1> QED BY <1>12, <1>13, <1>14, <1>15, <1>16, <1>17, <1>18, <1>19 DEF SettingsInv

(* The holder of the lock leaves: no call is stored then, and none that
   waits was alone when it was made. *)
LEMMA LeavingIs ==
    ASSUME NEW K, NEW P, Typed(P), Queued, AloneHolds(K), NEW c \in Calls,
           HasWriteLock(c), Leave(c)
    PROVE  /\ call' \in [Calls -> Calleds(P) \cup Storeds(P) \cup {Idle}]
           /\ Queued'
           /\ \A d \in Calls : /\ call'[d].pc # "stored"
                               /\ call'[d].pc = "called" => ~call'[d].alone
<1>1. /\ call'[c] = Idle /\ (\A d \in Calls \ {c} : call'[d] = call[d])
      /\ call' \in [Calls -> Calleds(P) \cup Storeds(P) \cup {Idle}]
  BY DEF Leave, Typed
<1>2. /\ queue # <<>> /\ Len(queue) \in Nat \ {0} /\ queue[1] = c /\ Head(queue) = c
      /\ \A d \in Calls : call[d].pc = "stored" /\ call[d] # Idle => d = c
  BY HolderIsHead DEF HasWriteLock
<1>3. /\ queue' \in Seq(Calls) /\ Len(queue') = Len(queue) - 1
      /\ \A i \in 1 .. Len(queue') : queue'[i] = queue[i + 1]
  BY <1>2, QueueShrinks DEF Queued, Leave
<1>4. \A d \in Calls : /\ call'[d].pc # "stored"
                       /\ call'[d].pc = "called" => ~call'[d].alone
  <2> TAKE d \in Calls
  <2>1. CASE d = c
    BY <1>1, <2>1 DEF Idle
  <2>2. CASE d # c
    <3>1. call'[d] = call[d] /\ call[d].pc # "stored"
      BY <1>1, <1>2, <2>2 DEF Idle
    <3> QED BY <1>2, <2>2, <3>1 DEF AloneHolds
  <2> QED BY <2>1, <2>2
<1>5. Queued'
  <2>1. \A i \in 1 .. Len(queue') : i + 1 \in 1 .. Len(queue) /\ i + 1 # 1 /\ i \in Nat
    BY <1>2, <1>3
  <2>2. \A i, j \in 1 .. Len(queue') : queue'[i] = queue'[j] => i = j
    <3> TAKE i, j \in 1 .. Len(queue')
    <3>1. queue[i + 1] = queue[j + 1] => i + 1 = j + 1
      BY <2>1 DEF Queued
    <3>2. i \in Nat /\ j \in Nat
      BY <2>1
    <3> QED BY <1>3, <3>1, <3>2
  <2>3. \A i \in 1 .. Len(queue') : queue'[i] # c /\ queue'[i] \in Calls
    <3> TAKE i \in 1 .. Len(queue')
    <3>1. queue[i + 1] = queue[1] => i + 1 = 1
      BY <1>2, <2>1 DEF Queued
    <3>2. queue[i + 1] \in Calls
      BY <2>1 DEF Queued
    <3> QED BY <1>2, <1>3, <2>1, <3>1, <3>2
  <2>4. \A d \in Calls : call'[d] # Idle <=> \E i \in 1 .. Len(queue') : queue'[i] = d
    <3> TAKE d \in Calls
    <3>1. CASE d = c
      BY <1>1, <2>3, <3>1
    <3>2. CASE d # c
      <4>1. ASSUME NEW i \in 1 .. Len(queue), queue[i] = d
            PROVE  \E j \in 1 .. Len(queue') : queue'[j] = d
        <5>1. i - 1 \in 1 .. Len(queue') /\ (i - 1) + 1 = i
          BY <1>2, <1>3, <3>2, <4>1
        <5>2. queue'[i - 1] = d
          BY <1>3, <4>1, <5>1
        <5> QED BY <5>1, <5>2
      <4>2. ASSUME NEW j \in 1 .. Len(queue'), queue'[j] = d
            PROVE  \E i \in 1 .. Len(queue) : queue[i] = d
        BY <1>3, <2>1, <4>2
      <4>3. call'[d] = call[d]
        BY <1>1, <3>2
      <4> QED BY <4>1, <4>2, <4>3 DEF Queued
    <3> QED BY <3>1, <3>2
  <2> QED BY <1>3, <1>4, <2>2, <2>3, <2>4 DEF Queued
<1> QED BY <1>1, <1>4, <1>5

(* A write that fails acknowledges nothing (entity.py:52-80). *)
LEMMA WriteFailsKeepsInv ==
    ASSUME NEW K \in SUBSET Fields, NEW P \in SUBSET Rgb, Exact(K, P), SettingsInv(K, P),
           NEW c \in Calls, WriteFails(c)
    PROVE  SettingsInv(K, P)'
<1>1. Typed(P) /\ Queued /\ DevHolds(K) /\ ShownHolds(K) /\ SnapHolds(K)
      /\ StoredHolds(K) /\ RelayOnly /\ PollHolds(K) /\ AloneHolds(K)
  BY DEF SettingsInv
<1>2. /\ dev' = dev /\ snap' = snap /\ overlay' = overlay /\ force' = force
      /\ poll' = poll /\ moves' = moves /\ asked' = asked
  BY DEF WriteFails
<1>3. /\ call' \in [Calls -> Calleds(P) \cup Storeds(P) \cup {Idle}]
      /\ Queued'
      /\ \A d \in Calls : /\ call'[d].pc # "stored"
                          /\ call'[d].pc = "called" => ~call'[d].alone
  BY <1>1, LeavingIs DEF WriteFails
<1>4. Typed(P)'
  BY <1>1, <1>2, <1>3 DEF Typed
<1>5. Shown' = Shown
  BY <1>2 DEF Shown, Written
<1>6. DevHolds(K)' /\ ShownHolds(K)' /\ SnapHolds(K)' /\ RelayOnly'
  BY <1>1, <1>2, <1>5 DEF DevHolds, ShownHolds, SnapHolds, RelayOnly
<1>7. StoredHolds(K)' /\ AloneHolds(K)'
  BY <1>3 DEF StoredHolds, AloneHolds
<1>8. PollHolds(K)'
  BY <1>1, <1>2, <1>3 DEF PollHolds
<1> QED BY <1>3, <1>4, <1>6, <1>7, <1>8 DEF SettingsInv

(* The answer becomes the overlay, and a full refresh is asked for
   (entity.py:392-398). *)
LEMMA AnsweredKeepsInv ==
    ASSUME NEW K \in SUBSET Fields, NEW P \in SUBSET Rgb, Exact(K, P), SettingsInv(K, P),
           NEW c \in Calls, Answered(c)
    PROVE  SettingsInv(K, P)'
<1> DEFINE q == call[c].request
           p == call[c].patch
           H == call[c].held
           W == DOMAIN Wanted(q)
<1>1. Typed(P) /\ Queued /\ DevHolds(K) /\ ShownHolds(K) /\ SnapHolds(K)
      /\ StoredHolds(K) /\ RelayOnly /\ PollHolds(K) /\ AloneHolds(K)
  BY DEF SettingsInv
<1>2. /\ HasWriteLock(c) /\ call[c].pc = "stored" /\ Leave(c)
      /\ asked' = [f \in DOMAIN asked \cup H |-> IF f \in H THEN Wanted(q)[f] ELSE asked[f]]
      /\ poll' = Outdated(poll, FALSE, W)
      /\ dev' = dev /\ snap' = snap /\ force' = TRUE /\ moves' = moves
  BY DEF Answered
<1>3. PICK answer \in {call[c].answer, deep_merge(Shown, p)} :
            overlay' = {[set |-> answer, age |-> 0]}
  BY DEF Answered
<1>4. /\ q \in Requests /\ Payload(p, P) /\ W \in SUBSET Fields /\ H \in SUBSET Fields
      /\ call[c].answer \in Tinted(P)
      /\ \A f \in K \cap W : Bears(p, f) /\ Field(p, f) = Wanted(q)[f]
  BY <1>1, <1>2, CallsAre, WantedFields
<1>5. /\ H \subseteq W /\ DOMAIN asked \cap W = {}
      /\ \A f \in H \cap K : Field(dev, f) = Wanted(q)[f]
      /\ \A f \in DOMAIN asked \cap K : Field(call[c].answer, f) = asked[f]
      /\ \A f \in Fields : Bears(p, f) => Field(call[c].answer, f) = Field(p, f)
  BY <1>1, <1>2 DEF StoredHolds
<1>6. /\ call' \in [Calls -> Calleds(P) \cup Storeds(P) \cup {Idle}]
      /\ Queued'
      /\ \A d \in Calls : /\ call'[d].pc # "stored"
                          /\ call'[d].pc = "called" => ~call'[d].alone
  BY <1>1, <1>2, LeavingIs
<1>7. Shown \in Tinted(P)
  BY <1>1, ShownIs
<1>8. answer \in Tinted(P)
  BY <1>3, <1>4, <1>7, MergeIsTyped
<1>9. \A f \in Fields : Field(deep_merge(Shown, p), f)
                            = IF Bears(p, f) THEN Field(p, f) ELSE Field(Shown, f)
  BY <1>7, MergeShowsThePatch DEF Tinted
<1>10. \A f \in H : Wanted(q)[f] \in Askable(f)
  BY <1>4, <1>5 DEF Askable
<1> HIDE DEF q, p, H, W
<1>11. DOMAIN asked \in SUBSET Fields
  BY <1>1 DEF Typed
<1>12. /\ DOMAIN asked' = DOMAIN asked \cup H
       /\ \A f \in H : asked'[f] = Wanted(q)[f]
       /\ \A f \in DOMAIN asked : asked'[f] = asked[f] /\ f \notin H
  BY <1>2, <1>5
<1>13. /\ poll' \in Polls(P) \cup {Idle} /\ (poll' = Idle <=> poll = Idle)
       /\ poll # Idle =>
            /\ poll'.pc = poll.pc /\ poll'.full = poll.full /\ poll'.got = poll.got
            /\ poll.outdated \subseteq poll'.outdated
            /\ poll.pc = "read" /\ ~poll.full => W \subseteq poll'.outdated
  <2>1. poll \in Polls(P) \cup {Idle} /\ (poll # Idle => poll.full \in BOOLEAN)
    BY <1>1 DEF Typed, Polls
  <2>2. CASE poll # Idle /\ poll.pc = "read" /\ ~poll.full
    <3>1. poll' = [poll EXCEPT !.outdated = poll.outdated \cup W] /\ poll \in Polls(P)
      BY <1>2, <2>1, <2>2 DEF Outdated
    <3> QED BY <1>4, <2>2, <3>1 DEF Polls, Idle
  <2>3. CASE ~(poll # Idle /\ poll.pc = "read" /\ ~poll.full)
    <3>1. poll' = poll
      BY <1>2, <2>1, <2>3 DEF Outdated
    <3> QED BY <2>1, <2>3, <3>1
  <2> QED BY <2>2, <2>3
<1>14. \A f \in DOMAIN asked' \cap K : Field(answer, f) = asked'[f]
  <2> TAKE f \in DOMAIN asked' \cap K
  <2>1. CASE f \in H
    <3>1. Field(answer, f) = Field(p, f) /\ Field(p, f) = Wanted(q)[f]
      BY <1>3, <1>4, <1>5, <1>9, <2>1
    <3> QED BY <1>12, <2>1, <3>1
  <2>2. CASE f \in DOMAIN asked
    <3>1. Field(call[c].answer, f) = asked[f] /\ Field(Shown, f) = asked[f]
      BY <1>1, <1>5, <2>2 DEF ShownHolds
    <3>2. Field(deep_merge(Shown, p), f) = asked[f]
      BY <1>5, <1>9, <1>11, <2>2, <3>1
    <3> QED BY <1>3, <1>12, <2>2, <3>1, <3>2
  <2> QED BY <1>12, <2>1, <2>2
<1>15. Typed(P)'
  <2>1. 0 \in 0 .. Settle
    BY SettingsGroupAssumption
  <2>2. [set |-> answer, age |-> 0] \in Overlays(P)
    BY <1>8, <2>1 DEF Overlays
  <2>3. overlay' \in {{o} : o \in Overlays(P)}
    BY <1>3, <2>2
  <2> QED BY <1>1, <1>2, <1>4, <1>6, <1>11, <1>12, <1>13, <2>3 DEF Typed
<1>16. DevHolds(K)'
  BY <1>1, <1>2, <1>5, <1>10, <1>12 DEF DevHolds
<1>17. ShownHolds(K)'
  <2>1. Shown' = answer
    <3> DEFINE o == [set |-> answer, age |-> 0]
    <3>1. o.set = answer
      OBVIOUS
    <3> HIDE DEF o
    <3>2. overlay' = {o}
      BY <1>3 DEF o
    <3>3. Shown' = o.set
      BY <3>2, OnlyOne DEF Shown, Written
    <3> QED BY <3>1, <3>3
  <2> QED BY <1>14, <2>1 DEF ShownHolds
<1>18. SnapHolds(K)' /\ RelayOnly'
  BY <1>1, <1>2, <1>13 DEF SnapHolds, RelayOnly
<1>19. StoredHolds(K)' /\ AloneHolds(K)'
  BY <1>6 DEF StoredHolds, AloneHolds
<1>20. PollHolds(K)'
  <2> SUFFICES ASSUME poll' # Idle, poll'.pc = "read",
                      NEW f \in (DOMAIN asked' \cap K) \ poll'.outdated
               PROVE  Field(poll'.got, f) = asked'[f]
    BY <1>6 DEF PollHolds
  <2>1. CASE f \in DOMAIN asked
    BY <1>1, <1>12, <1>13, <2>1 DEF PollHolds
  <2>2. CASE f \in H
    <3>1. poll.full
      BY <1>5, <1>13, <2>2
    <3>2. Field(poll.got, f) = Wanted(q)[f]
      BY <1>1, <1>2, <1>13, <2>2, <3>1 DEF PollHolds, q, H
    <3> QED BY <1>12, <1>13, <2>2, <3>2
  <2> QED BY <1>12, <2>1, <2>2
<1> QED BY <1>6, <1>15, <1>16, <1>17, <1>18, <1>19, <1>20 DEF SettingsInv

(* A change elsewhere ends what is known of the fields it changes. *)
LEMMA ChangedElsewhereKeepsInv ==
    ASSUME NEW K \in SUBSET Fields, NEW P \in SUBSET Rgb, Exact(K, P), SettingsInv(K, P),
           NEW q \in Edits, ChangedElsewhere(q)
    PROVE  SettingsInv(K, P)'
<1>1. Typed(P) /\ Queued /\ DevHolds(K) /\ ShownHolds(K) /\ SnapHolds(K)
      /\ StoredHolds(K) /\ RelayOnly /\ PollHolds(K) /\ AloneHolds(K)
  BY DEF SettingsInv
<1>2. /\ dev' = deep_merge(dev, Patch(q, dev))
      /\ asked' = Only(Holding(dev', DOMAIN asked))
      /\ call' = [c \in Calls |->
                    IF call[c] # Idle /\ call[c].pc = "stored"
                        THEN [call[c] EXCEPT !.held = {f \in @ : Field(dev', f) = Field(dev, f)}]
                        ELSE call[c]]
      /\ snap' = snap /\ overlay' = overlay /\ force' = force /\ poll' = poll /\ queue' = queue
  BY DEF ChangedElsewhere
<1>3. dev' \in Tinted(P)
  BY <1>1, <1>2, PatchIsAPayload, MergeIsTyped DEF Typed
<1>4. /\ DOMAIN asked' \subseteq DOMAIN asked
      /\ \A f \in DOMAIN asked' : asked'[f] = asked[f] /\ Field(dev', f) = asked[f]
  BY <1>2, HeldFieldsStay
<1>5. \A c \in Calls : call[c].pc # "stored" => call'[c] = call[c]
  BY <1>2
<1>6. ASSUME NEW c \in Calls, call[c].pc = "stored"
      PROVE  /\ call'[c] \in Storeds(P) /\ call'[c].pc = "stored"
             /\ call'[c].request = call[c].request /\ call'[c].patch = call[c].patch
             /\ call'[c].answer = call[c].answer
             /\ call'[c].held \subseteq call[c].held
             /\ \A f \in call'[c].held : Field(dev', f) = Field(dev, f)
  <2> DEFINE h == {f \in call[c].held : Field(dev', f) = Field(dev, f)}
  <2>1. call[c] \in Storeds(P) /\ h \in SUBSET Fields
    BY <1>1, <1>6, CallsAre
  <2>2. call'[c] = [call[c] EXCEPT !.held = h]
    BY <1>2, <1>6 DEF Idle
  <2>3. h \subseteq call[c].held /\ \A f \in h : Field(dev', f) = Field(dev, f)
    OBVIOUS
  <2> HIDE DEF h
  <2>4. /\ call[c] = [pc |-> "stored", request |-> call[c].request, patch |-> call[c].patch,
                      answer |-> call[c].answer, held |-> call[c].held]
        /\ call[c].request \in Requests /\ call[c].answer \in Tinted(P)
        /\ \E s \in Tinted(P) : call[c].patch = Patch(call[c].request, s)
    BY <2>1, StoredsAre
  <2>5. call'[c] = [pc |-> "stored", request |-> call[c].request, patch |-> call[c].patch,
                    answer |-> call[c].answer, held |-> h]
    BY <2>2, <2>4
  <2>6. call'[c] \in Storeds(P)
    <3>1. PICK s \in Tinted(P) : call[c].patch = Patch(call[c].request, s)
      BY <2>4
    <3>2. call'[c] = [pc |-> "stored", request |-> call[c].request,
                      patch |-> Patch(call[c].request, s),
                      answer |-> call[c].answer, held |-> h]
      BY <2>5, <3>1
    <3>3. [pc |-> "stored", request |-> call[c].request,
           patch |-> Patch(call[c].request, s),
           answer |-> call[c].answer, held |-> h] \in Storeds(P)
      BY <2>1, <2>4, <3>1, StoredsHave
    <3> QED BY <3>2, <3>3
  <2> QED BY <2>3, <2>5, <2>6
<1>7. call' \in [Calls -> Calleds(P) \cup Storeds(P) \cup {Idle}]
  <2>1. \A c \in Calls : call'[c] \in Calleds(P) \cup Storeds(P) \cup {Idle}
    BY <1>1, <1>5, <1>6 DEF Typed
  <2> QED BY <1>2, <2>1
<1>8. \A c \in Calls : call'[c].pc = call[c].pc /\ (call'[c] = Idle <=> call[c] = Idle)
  <2> TAKE c \in Calls
  <2>1. CASE call[c].pc = "stored"
    BY <1>6, <2>1 DEF Idle
  <2>2. CASE call[c].pc # "stored"
    BY <1>5, <2>2
  <2> QED BY <2>1, <2>2
<1>9. Typed(P)'
  <2>1. moves' \in 0 .. MaxMoves
    BY <1>1, SettingsGroupAssumption DEF ChangedElsewhere, Move, Typed
  <2> QED BY <1>1, <1>2, <1>3, <1>4, <1>7, <2>1 DEF Typed
<1>10. Queued'
  BY <1>1, <1>2, <1>8 DEF Queued
<1>11. DevHolds(K)'
  BY <1>1, <1>4 DEF DevHolds
<1>12. ShownHolds(K)'
  <2>1. Shown' = Shown
    BY <1>2 DEF Shown, Written
  <2> QED BY <1>1, <1>4, <2>1 DEF ShownHolds
<1>13. SnapHolds(K)' /\ RelayOnly'
  BY <1>1, <1>2, <1>4 DEF SnapHolds, RelayOnly
<1>14. StoredHolds(K)'
  <2> SUFFICES ASSUME NEW c \in Calls, call'[c].pc = "stored"
               PROVE  /\ call'[c].held \subseteq DOMAIN Wanted(call'[c].request)
                      /\ \A f \in call'[c].held \cap K :
                            Field(dev', f) = Wanted(call'[c].request)[f]
                      /\ DOMAIN asked' \cap DOMAIN Wanted(call'[c].request) = {}
                      /\ \A f \in DOMAIN asked' \cap K : Field(call'[c].answer, f) = asked'[f]
                      /\ \A f \in Fields : Bears(call'[c].patch, f)
                            => Field(call'[c].answer, f) = Field(call'[c].patch, f)
    BY DEF StoredHolds
  <2>1. call[c].pc = "stored"
    BY <1>8
  <2> QED BY <1>1, <1>4, <1>6, <2>1 DEF StoredHolds
<1>15. PollHolds(K)'
  <2> SUFFICES ASSUME poll # Idle, poll.pc = "read"
               PROVE  /\ \A f \in (DOMAIN asked' \cap K) \ poll.outdated :
                            Field(poll.got, f) = asked'[f]
                      /\ poll.full => \A c \in Calls : call'[c].pc = "stored" =>
                            \A f \in (call'[c].held \cap K) \ poll.outdated :
                                Field(poll.got, f) = Wanted(call'[c].request)[f]
    BY <1>2 DEF PollHolds
  <2>1. \A f \in (DOMAIN asked' \cap K) \ poll.outdated : Field(poll.got, f) = asked'[f]
    BY <1>1, <1>4 DEF PollHolds
  <2>2. ASSUME poll.full, NEW c \in Calls, call'[c].pc = "stored",
               NEW f \in (call'[c].held \cap K) \ poll.outdated
        PROVE  Field(poll.got, f) = Wanted(call'[c].request)[f]
    <3>1. call[c].pc = "stored"
      BY <1>8, <2>2
    <3> QED BY <1>1, <1>6, <2>2, <3>1 DEF PollHolds
  <2> QED BY <2>1, <2>2
<1>16. AloneHolds(K)'
  <2> SUFFICES ASSUME NEW d \in Calls, call'[d].pc = "called", call'[d].alone
               PROVE  /\ queue' # <<>> /\ Head(queue') = d
                      /\ \A f \in (DOMAIN asked' \cap K) \ DOMAIN Wanted(call'[d].request) :
                            Bears(call'[d].patch, f) => Field(call'[d].patch, f) = asked'[f]
    BY DEF AloneHolds
  <2>1. call'[d] = call[d]
    BY <1>5, <1>8
  <2>2. /\ queue # <<>> /\ Head(queue) = d
        /\ \A f \in (DOMAIN asked \cap K) \ DOMAIN Wanted(call'[d].request) :
                Bears(call'[d].patch, f) => Field(call'[d].patch, f) = asked[f]
    BY <1>1, <2>1 DEF AloneHolds
  <2> QED BY <1>2, <1>4, <2>2
<1> QED BY <1>9, <1>10, <1>11, <1>12, <1>13, <1>14, <1>15, <1>16 DEF SettingsInv

-----------------------------------------------------------------------------
(* What the refreshes and the clock leave alone. *)
LEMMA CallsUntouched ==
    ASSUME NEW K, Queued, StoredHolds(K), AloneHolds(K),
           dev' = dev, call' = call, queue' = queue, asked' = asked
    PROVE  Queued' /\ StoredHolds(K)' /\ AloneHolds(K)'
BY DEF Queued, StoredHolds, AloneHolds

(* The full flag is taken once, before the requests (coordinator.py:660-667). *)
LEMMA StartPollKeepsInv ==
    ASSUME NEW K \in SUBSET Fields, NEW P \in SUBSET Rgb, Exact(K, P), SettingsInv(K, P), StartPoll
    PROVE  SettingsInv(K, P)'
<1>1. Typed(P) /\ Queued /\ DevHolds(K) /\ ShownHolds(K) /\ SnapHolds(K)
      /\ StoredHolds(K) /\ RelayOnly /\ PollHolds(K) /\ AloneHolds(K)
  BY DEF SettingsInv
<1>2. /\ dev' = dev /\ snap' = snap /\ overlay' = overlay /\ force' = force /\ call' = call
      /\ queue' = queue /\ moves' = moves /\ asked' = asked
  BY DEF StartPoll
<1>3. \/ poll' = [pc |-> "reading", full |-> TRUE, got |-> snap, outdated |-> {}]
      \/ ~force /\ poll' = [pc |-> "read", full |-> FALSE, got |-> snap, outdated |-> {}]
  <2>1. force \in BOOLEAN
    BY <1>1 DEF Typed
  <2>2. PICK due \in BOOLEAN :
            poll' = [pc |-> IF force \/ due THEN "reading" ELSE "read", full |-> force \/ due,
                     got |-> snap, outdated |-> {}]
    BY DEF StartPoll, Full
  <2>3. CASE force \/ due
    BY <2>1, <2>2, <2>3
  <2>4. CASE ~(force \/ due)
    BY <2>1, <2>2, <2>4
  <2> QED BY <2>3, <2>4
<1>4. poll' \in Polls(P)
  <2>1. snap \in Tinted(P) /\ {} \in SUBSET Fields
    BY <1>1 DEF Typed
  <2>2. CASE poll' = [pc |-> "reading", full |-> TRUE, got |-> snap, outdated |-> {}]
    BY <2>1, <2>2 DEF Polls
  <2>3. CASE poll' = [pc |-> "read", full |-> FALSE, got |-> snap, outdated |-> {}]
    BY <2>1, <2>3 DEF Polls
  <2> QED BY <1>3, <2>2, <2>3
<1>5. Typed(P)'
  BY <1>1, <1>2, <1>4 DEF Typed
<1>6. Queued' /\ StoredHolds(K)' /\ AloneHolds(K)'
  BY <1>1, <1>2, CallsUntouched
<1>7. Shown' = Shown
  BY <1>2 DEF Shown, Written
<1>8. DevHolds(K)' /\ ShownHolds(K)' /\ SnapHolds(K)'
  BY <1>1, <1>2, <1>7 DEF DevHolds, ShownHolds, SnapHolds
<1>9. RelayOnly' /\ PollHolds(K)'
  BY <1>1, <1>2, <1>3 DEF RelayOnly, PollHolds, SnapHolds
<1> QED BY <1>5, <1>6, <1>8, <1>9 DEF SettingsInv

(* A read, or a failed one that carries the old settings forward
   (coordinator.py:707-712). *)
LEMMA ReadSettingsKeepsInv ==
    ASSUME NEW K \in SUBSET Fields, NEW P \in SUBSET Rgb, Exact(K, P), SettingsInv(K, P),
           ReadSettings
    PROVE  SettingsInv(K, P)'
<1>1. Typed(P) /\ Queued /\ DevHolds(K) /\ ShownHolds(K) /\ SnapHolds(K)
      /\ StoredHolds(K) /\ RelayOnly /\ PollHolds(K) /\ AloneHolds(K)
  BY DEF SettingsInv
<1>2. /\ dev' = dev /\ snap' = snap /\ overlay' = overlay /\ force' = force /\ call' = call
      /\ queue' = queue /\ moves' = moves /\ asked' = asked
  BY DEF ReadSettings
<1>3. poll \in Polls(P) /\ poll.pc = "reading" /\ poll.full
  BY <1>1 DEF ReadSettings, Typed, RelayOnly, Polls
<1>4. /\ poll' \in Polls(P) /\ poll'.full
      /\ poll'.got = dev \/ poll'.outdated = Fields
  BY <1>1, <1>3 DEF ReadSettings, Polls, Typed
<1>5. Typed(P)'
  BY <1>1, <1>2, <1>4 DEF Typed
<1>6. Queued' /\ StoredHolds(K)' /\ AloneHolds(K)'
  BY <1>1, <1>2, CallsUntouched
<1>7. Shown' = Shown
  BY <1>2 DEF Shown, Written
<1>8. DevHolds(K)' /\ ShownHolds(K)' /\ SnapHolds(K)'
  BY <1>1, <1>2, <1>7 DEF DevHolds, ShownHolds, SnapHolds
<1>9. RelayOnly'
  BY <1>4 DEF RelayOnly
<1>10. PollHolds(K)'
  <2>1. CASE poll'.got = dev
    <3>1. \A f \in DOMAIN asked \cap K : Field(dev, f) = asked[f]
      BY <1>1 DEF DevHolds
    <3>2. \A c \in Calls : call[c].pc = "stored" =>
            \A f \in call[c].held \cap K : Field(dev, f) = Wanted(call[c].request)[f]
      BY <1>1 DEF StoredHolds
    <3> QED BY <1>2, <2>1, <3>1, <3>2 DEF PollHolds
  <2>2. CASE poll'.outdated = Fields
    BY <2>2 DEF PollHolds
  <2> QED BY <1>4, <2>1, <2>2
<1> QED BY <1>5, <1>6, <1>8, <1>9, <1>10 DEF SettingsInv

(* The snapshot is replaced and overlays expire in one step
   (coordinator.py:727-742). *)
LEMMA PublishKeepsInv ==
    ASSUME NEW K \in SUBSET Fields, NEW P \in SUBSET Rgb, Exact(K, P), SettingsInv(K, P), Publish
    PROVE  SettingsInv(K, P)'
<1>1. Typed(P) /\ Queued /\ DevHolds(K) /\ ShownHolds(K) /\ SnapHolds(K)
      /\ StoredHolds(K) /\ RelayOnly /\ PollHolds(K) /\ AloneHolds(K)
  BY DEF SettingsInv
<1>2. /\ poll # Idle /\ poll.pc = "read" /\ poll' = Idle /\ snap' = poll.got
      /\ overlay' = {o \in overlay : o.age < Settle}
      /\ force' = (IF poll.full THEN FALSE ELSE force)
      /\ asked' = (IF poll.full \/ overlay' # overlay
                    THEN Only(DOMAIN asked \ poll.outdated) ELSE asked)
      /\ dev' = dev /\ call' = call /\ queue' = queue /\ moves' = moves
  BY DEF Publish
<1>3. poll \in Polls(P) /\ poll.full \in BOOLEAN /\ poll.got \in Tinted(P)
  BY <1>1, <1>2 DEF Typed, Polls
<1>4. /\ DOMAIN asked' \subseteq DOMAIN asked
      /\ \A f \in DOMAIN asked' : asked'[f] = asked[f]
      /\ poll.full \/ overlay' # overlay => DOMAIN asked' \cap poll.outdated = {}
  BY <1>2 DEF Only
<1>5. \A f \in (DOMAIN asked' \cap K) \ poll.outdated : Field(poll.got, f) = asked'[f]
  BY <1>1, <1>2, <1>4 DEF PollHolds
<1>6. overlay' = overlay \/ overlay' = {}
  <2>1. \/ overlay = {}
        \/ \E o : overlay = {o}
    BY <1>1 DEF Typed
  <2> QED BY <1>2, <2>1
<1>7. Typed(P)'
  BY <1>1, <1>2, <1>3, <1>4, <1>6 DEF Typed
<1>8. Queued'
  BY <1>1, <1>2 DEF Queued
<1>9. DevHolds(K)'
  BY <1>1, <1>2, <1>4 DEF DevHolds
<1>10. ShownHolds(K)'
  <2>1. CASE overlay' # {}
    <3>1. PICK o : overlay = {o} /\ overlay' = {o}
      BY <1>1, <1>6, <2>1 DEF Typed
    <3>2. Shown' = Shown
      BY <3>1, OnlyOne DEF Shown, Written
    <3> QED BY <1>1, <1>4, <3>2 DEF ShownHolds
  <2>2. CASE overlay' = {}
    <3>1. Shown' = poll.got
      BY <1>2, <2>2 DEF Shown
    <3>2. CASE poll.full \/ overlay' # overlay
      BY <1>4, <1>5, <3>1, <3>2 DEF ShownHolds
    <3>3. CASE ~poll.full /\ overlay' = overlay
      <4>1. Shown = snap /\ poll.got = snap
        BY <1>1, <1>2, <2>2, <3>3 DEF Shown, RelayOnly
      <4> QED BY <1>1, <1>4, <3>1, <4>1 DEF ShownHolds
    <3> QED BY <1>3, <3>2, <3>3
  <2> QED BY <2>1, <2>2
<1>11. SnapHolds(K)'
  <2>1. CASE poll.full
    BY <1>2, <1>4, <1>5, <2>1 DEF SnapHolds
  <2>2. CASE ~poll.full
    <3>1. snap' = snap /\ force' = force
      BY <1>1, <1>2, <2>2 DEF RelayOnly
    <3> QED BY <1>1, <1>4, <3>1 DEF SnapHolds
  <2> QED BY <1>3, <2>1, <2>2
<1>12. StoredHolds(K)'
  <2> SUFFICES ASSUME NEW c \in Calls, call[c].pc = "stored"
               PROVE  /\ call[c].held \subseteq DOMAIN Wanted(call[c].request)
                      /\ \A f \in call[c].held \cap K :
                            Field(dev, f) = Wanted(call[c].request)[f]
                      /\ DOMAIN asked' \cap DOMAIN Wanted(call[c].request) = {}
                      /\ \A f \in DOMAIN asked' \cap K : Field(call[c].answer, f) = asked'[f]
                      /\ \A f \in Fields : Bears(call[c].patch, f)
                            => Field(call[c].answer, f) = Field(call[c].patch, f)
    BY <1>2 DEF StoredHolds
  <2> QED BY <1>1, <1>4 DEF StoredHolds
<1>13. RelayOnly' /\ PollHolds(K)'
  BY <1>2 DEF RelayOnly, PollHolds
<1>14. AloneHolds(K)'
  BY <1>1, <1>2, <1>4 DEF AloneHolds
<1> QED BY <1>7, <1>8, <1>9, <1>10, <1>11, <1>12, <1>13, <1>14 DEF SettingsInv

(* An overlay grows older (coordinator.py:89-91). *)
LEMMA TickKeepsInv ==
    ASSUME NEW K \in SUBSET Fields, NEW P \in SUBSET Rgb, Exact(K, P), SettingsInv(K, P), Tick
    PROVE  SettingsInv(K, P)'
<1>1. Typed(P) /\ Queued /\ DevHolds(K) /\ ShownHolds(K) /\ SnapHolds(K)
      /\ StoredHolds(K) /\ RelayOnly /\ PollHolds(K) /\ AloneHolds(K)
  BY DEF SettingsInv
<1>2. /\ dev' = dev /\ snap' = snap /\ force' = force /\ poll' = poll /\ call' = call
      /\ queue' = queue /\ moves' = moves /\ asked' = asked
  BY DEF Tick
<1>3. PICK o \in Overlays(P) : overlay = {o}
  BY <1>1 DEF Tick, Typed
<1> DEFINE n == [o EXCEPT !.age = IF @ < Settle THEN @ + 1 ELSE @]
<1>4. n \in Overlays(P) /\ n.set = o.set
  <2>1. PICK s \in Tinted(P), a \in 0 .. Settle : o = [set |-> s, age |-> a]
    BY <1>3 DEF Overlays
  <2>2. (IF a < Settle THEN a + 1 ELSE a) \in 0 .. Settle
    BY SettingsGroupAssumption
  <2>3. n = [set |-> s, age |-> IF a < Settle THEN a + 1 ELSE a]
    BY <2>1
  <2> QED BY <2>1, <2>2, <2>3 DEF Overlays
<1>5. overlay' = {n}
  BY <1>3 DEF Tick
<1> HIDE DEF n
<1>6. Typed(P)'
  BY <1>1, <1>2, <1>4, <1>5 DEF Typed
<1>7. Queued' /\ StoredHolds(K)' /\ AloneHolds(K)'
  BY <1>1, <1>2, CallsUntouched
<1>8. Shown' = Shown
  <2>1. Shown' = n.set /\ Shown = o.set
    BY <1>3, <1>5, OnlyOne DEF Shown, Written
  <2> QED BY <1>4, <2>1
<1>9. DevHolds(K)' /\ ShownHolds(K)' /\ SnapHolds(K)' /\ RelayOnly' /\ PollHolds(K)'
  BY <1>1, <1>2, <1>8 DEF DevHolds, ShownHolds, SnapHolds, RelayOnly, PollHolds
<1> QED BY <1>6, <1>7, <1>9 DEF SettingsInv

LEMMA StutteringKeepsInv ==
    ASSUME NEW K, NEW P, SettingsInv(K, P), UNCHANGED vars
    PROVE  SettingsInv(K, P)'
<1>1. Shown' = Shown
  BY DEF vars, Shown, Written
<1> QED BY <1>1 DEF vars, SettingsInv, Typed, Queued, DevHolds, ShownHolds, SnapHolds, StoredHolds,
          RelayOnly, PollHolds, AloneHolds

-----------------------------------------------------------------------------
(* The invariant is inductive. *)
LEMMA StepsKeepInv ==
    ASSUME NEW K \in SUBSET Fields, NEW P \in SUBSET Rgb, Exact(K, P), SettingsInv(K, P),
           [Next]_vars
    PROVE  SettingsInv(K, P)'
<1>1. CASE \E c \in Calls, q \in Requests : Call(c, q)
  BY <1>1, CallKeepsInv
<1>2. CASE \E c \in Calls : Stores(c)
  BY <1>2, StoresKeepsInv
<1>3. CASE \E c \in Calls : Answered(c)
  BY <1>3, AnsweredKeepsInv
<1>4. CASE \E c \in Calls : WriteFails(c)
  BY <1>4, WriteFailsKeepsInv
<1>5. CASE \E q \in Edits : ChangedElsewhere(q)
  BY <1>5, ChangedElsewhereKeepsInv
<1>6. CASE StartPoll
  BY <1>6, StartPollKeepsInv
<1>7. CASE ReadSettings
  BY <1>7, ReadSettingsKeepsInv
<1>8. CASE Publish
  BY <1>8, PublishKeepsInv
<1>9. CASE Tick
  BY <1>9, TickKeepsInv
<1>10. CASE UNCHANGED vars
  BY <1>10, StutteringKeepsInv
<1> QED BY <1>1, <1>2, <1>3, <1>4, <1>5, <1>6, <1>7, <1>8, <1>9, <1>10
        DEF Next, CallStep, PollStep

(* The property of the siblings, for the fields of K. *)
Spared(K) ==
    \A c \in Calls : Storing(c) /\ call[c].alone
        => \A f \in (DOMAIN asked \cap K) \ DOMAIN Wanted(call[c].request) :
                Field(dev', f) = asked[f]

(* The step the property of the siblings is about. *)
LEMMA OnlyStoresStores ==
    ASSUME NEW P, Typed(P), [Next]_vars, NEW c \in Calls, Storing(c)
    PROVE  Stores(c)
<1>1. call[c] # Idle /\ call[c].pc = "called" /\ call'[c] # Idle /\ call'[c].pc = "stored"
  BY DEF Storing
<1>2. call \in [Calls -> Calleds(P) \cup Storeds(P) \cup {Idle}]
  BY DEF Typed
<1>3. call' # call
  BY <1>1
<1>4. ASSUME NEW d \in Calls, NEW q \in Requests, Call(d, q)
      PROVE  FALSE
  <2>1. d # c /\ call'[c] = call[c]
    BY <1>1, <1>2, <1>4 DEF Call
  <2> QED BY <1>1, <2>1
<1>5. ASSUME NEW d \in Calls, Leave(d)
      PROVE  FALSE
  <2>1. call'[c] \in {Idle, call[c]}
    BY <1>2, <1>5 DEF Leave
  <2> QED BY <1>1, <2>1
<1>6. ASSUME NEW d \in Calls, Stores(d)
      PROVE  d = c
  <2>1. d # c => call'[c] = call[c]
    BY <1>2, <1>6 DEF Stores
  <2> QED BY <1>1, <2>1
<1>7. ASSUME NEW q \in Edits, ChangedElsewhere(q)
      PROVE  FALSE
  <2>1. call'[c] = call[c]
    BY <1>1, <1>7 DEF ChangedElsewhere
  <2> QED BY <1>1, <2>1
<1>8. ~PollStep /\ ~Tick /\ ~UNCHANGED vars
  BY <1>3 DEF PollStep, StartPoll, ReadSettings, Publish, Tick, vars
<1> QED BY <1>4, <1>5, <1>6, <1>7, <1>8 DEF Next, CallStep, Answered, WriteFails

LEMMA StoringSpares ==
    ASSUME NEW K \in SUBSET Fields, NEW P \in SUBSET Rgb, Exact(K, P), SettingsInv(K, P),
           [Next]_vars
    PROVE  Spared(K)
<1>1. Typed(P) /\ DevHolds(K) /\ AloneHolds(K)
  BY DEF SettingsInv
<1> SUFFICES ASSUME NEW c \in Calls, Storing(c), call[c].alone,
                    NEW f \in (DOMAIN asked \cap K) \ DOMAIN Wanted(call[c].request)
             PROVE  Field(dev', f) = asked[f]
  BY DEF Spared
<1>2. Stores(c)
  BY <1>1, OnlyStoresStores
<1>3. dev' = deep_merge(dev, call[c].patch) /\ call[c].pc = "called"
  BY <1>2 DEF Stores
<1>4. Field(dev', f) = IF Bears(call[c].patch, f) THEN Field(call[c].patch, f) ELSE Field(dev, f)
  BY <1>1, <1>3, MergeShowsThePatch DEF Typed, Tinted
<1>5. Field(dev, f) = asked[f]
  BY <1>1 DEF DevHolds
<1>6. Bears(call[c].patch, f) => Field(call[c].patch, f) = asked[f]
  BY <1>1, <1>3 DEF AloneHolds
<1> QED BY <1>4, <1>5, <1>6

-----------------------------------------------------------------------------
(* Where colours lose nothing.  Fields other than the two halves of the
   backlight never do. *)
LEMMA TypesAreAPalette ==
    /\ Black \in Rgb
    /\ \A q \in Lights, color \in Rgb :
        "color" \in DOMAIN Lit(q, color) => Lit(q, color).color \in Rgb
BY LitIsAColor DEF Black, Rgb, Byte

LEMMA PlainFieldsAreExact == Exact(Fields \ Backlight, Rgb)
BY TypesAreAPalette DEF Exact, Backlight

(* A colour is asked for at its full brightness, as the picker gives it. *)
Bright == \A q \in Requests : q.kind = "light" /\ q.rgb # Unsaid => Level(q.rgb) = 255

(* The level is exact over all colours: a hue is bright, one that is asked
   for is, and what is bright takes the level it is given. *)
LEMMA LevelsAreExact ==
    ASSUME Bright
    PROVE  Exact(Fields \ {<<"hue">>}, Rgb)
<1> DEFINE level == <<"level">>
<1> SUFFICES ASSUME NEW q \in Lights, NEW color \in Rgb, "color" \in DOMAIN Lit(q, color),
                    q \in Requests
             PROVE  IF level \in DOMAIN Wanted(q)
                        THEN Field(Lit(q, color), level) = Wanted(q)[level]
                        ELSE Field([color |-> color], level) \in Askable(level)
                                => Field(Lit(q, color), level) = Field([color |-> color], level)
  <2>1. \A f \in (Fields \ {<<"hue">>}) \cap Backlight : f = level
    BY DEF Backlight
  <2> QED BY <2>1, TypesAreAPalette DEF Exact
<1>1. Field(Lit(q, color), level) = Level(Lit(q, color).color)
      /\ Field([color |-> color], level) = Level(color)
  BY FieldOf
<1>2. q.kind = "light"
  BY DEF Lights
<1>3. Level(Black) = 0
  <2>1. Black \in Rgb /\ 0 \in {Black[1], Black[2], Black[3]}
        /\ Black[1] <= 0 /\ Black[2] <= 0 /\ Black[3] <= 0
    BY TypesAreAPalette DEF Black
  <2> QED BY <2>1, BrightestOf DEF Level
<1>4. 0 \notin Askable(level)
  <2> SUFFICES ASSUME NEW r \in Requests, level \in DOMAIN Wanted(r)
               PROVE  Wanted(r)[level] # 0
    BY DEF Askable
  <2>1. r.kind = "light"
    BY RequestsAre DEF Wanted
  <2>2. r \in Lights /\ r.level # Unsaid /\ Wanted(r)[level] = r.level[1]
    BY <2>1, LightWants DEF Lights
  <2> QED BY <2>2, LightsAreTyped
<1>5. CASE q.rgb = Unsaid /\ q.level = Unsaid
  <2>1. color = Black
    BY <1>5 DEF Lit
  <2>2. level \notin DOMAIN Wanted(q)
    BY <1>2, <1>5, LightWants
  <2> QED BY <1>1, <1>3, <1>4, <2>1, <2>2
<1>6. CASE q.rgb # Unsaid \/ q.level # Unsaid
  <2>1. Lit(q, color).color = Rescaled(Base(q, color), LevelFor(q, color), 255)
    BY <1>6 DEF Lit
  <2>2. Base(q, color) \in Rgb /\ Level(Base(q, color)) = 255
    <3>1. CASE q.rgb # Unsaid
      <4>1. q.rgb \in Rgb /\ Level(q.rgb) = 255
        BY <1>2, <3>1, LightsAreTyped DEF Bright
      <4> QED BY <3>1, <4>1 DEF Base
    <3>2. CASE q.rgb = Unsaid /\ color = Black
      <4>1. DefaultRgb \in Rgb /\ 255 \in {DefaultRgb[1], DefaultRgb[2], DefaultRgb[3]}
            /\ DefaultRgb[1] <= 255 /\ DefaultRgb[2] <= 255 /\ DefaultRgb[3] <= 255
        BY DEF DefaultRgb, Rgb, Byte
      <4> QED BY <3>2, <4>1, BrightestOf DEF Base, Level
    <3>3. CASE q.rgb = Unsaid /\ color # Black
      BY <3>3, HueIsAColor, HuesAreBright DEF Base
    <3> QED BY <3>1, <3>2, <3>3
  <2>3. LevelFor(q, color) \in 0 .. 255
    BY LevelIsAByte, LightsAreTyped DEF LevelFor, Byte
  <2>4. Field(Lit(q, color), level) = LevelFor(q, color)
    BY <1>1, <2>1, <2>2, <2>3, BrightColorsTakeTheLevel
  <2>5. CASE q.level # Unsaid
    BY <1>2, <2>4, <2>5, LightWants DEF LevelFor
  <2>6. CASE q.level = Unsaid
    <3>1. level \notin DOMAIN Wanted(q)
      BY <1>2, <2>6, LightWants
    <3>2. color # Black => LevelFor(q, color) = Level(color)
      BY <2>6 DEF LevelFor
    <3> QED BY <1>1, <1>3, <1>4, <2>4, <3>1, <3>2
  <2> QED BY <2>5, <2>6
<1> QED BY <1>5, <1>6

(* An injective sequence is no longer than its members are many. *)
LEMMA DistinctMembersAreFew ==
    ASSUME NEW S, IsFiniteSet(S), NEW s \in Seq(S),
           \A i, j \in 1 .. Len(s) : s[i] = s[j] => i = j
    PROVE  Len(s) <= Cardinality(S)
<1>1. Len(s) \in Nat /\ s \in [1 .. Len(s) -> S]
  OBVIOUS
<1>2. s \in Injection(1 .. Len(s), S)
  BY <1>1 DEF Injection, IsInjective
<1>3. Cardinality(1 .. Len(s)) <= Cardinality(S)
  BY <1>2, FS_Injection
<1>4. Cardinality(1 .. Len(s)) = Len(s)
  BY <1>1, FS_Interval
<1> QED BY <1>3, <1>4

(* The type invariant follows. *)
LEMMA InvImpliesTypeOK ==
    ASSUME NEW K, NEW P, SettingsInv(K, P)
    PROVE  TypeOK
<1>1. Typed(P) /\ Queued
  BY DEF SettingsInv
<1>2. {dev, snap} \subseteq Settings
  BY <1>1 DEF Typed, Tinted
<1>3. Cardinality(overlay) <= 1 /\ \A o \in overlay : o.set \in Settings /\ o.age \in 0 .. Settle
  <2>1. CASE overlay = {}
    <3>1. Cardinality(overlay) = 0
      BY <2>1, FS_EmptySet
    <3> QED BY <2>1, <3>1
  <2>2. CASE overlay # {}
    <3>1. PICK o \in Overlays(P) : overlay = {o}
      BY <1>1, <2>2 DEF Typed
    <3>2. o.set \in Settings /\ o.age \in 0 .. Settle
      BY DEF Overlays, Tinted
    <3>3. Cardinality(overlay) = 1
      BY <3>1, FS_Singleton
    <3> QED BY <3>1, <3>2, <3>3
  <2> QED BY <2>1, <2>2
<1>4. poll \in Poll \cup {Idle}
  BY <1>1 DEF Typed, Polls, Poll, Tinted
<1>5. DOMAIN queue = 1 .. Len(queue) /\ \A i \in 1 .. Len(queue) : queue[i] \in Calls
  BY <1>1 DEF Queued
<1>6. {queue[i] : i \in DOMAIN queue} = {c \in Calls : call[c] # Idle}
  BY <1>1, <1>5 DEF Queued
<1>7. Len(queue) <= Cardinality(Calls)
  BY <1>1, SettingsGroupAssumption, DistinctMembersAreFew DEF Queued
<1>8. \A i \in DOMAIN queue : call[queue[i]].pc = "stored" => i = 1
  BY <1>1, <1>5 DEF Queued
<1> QED BY <1>1, <1>2, <1>3, <1>4, <1>6, <1>7, <1>8 DEF TypeOK, Typed

-----------------------------------------------------------------------------
(* The state keeps its type, whatever colours are asked for: one overlay at
   most, and in the queue of _write_lock exactly the calls in flight, the
   stored one at its head (entity.py:379-400, blebox_actions.py:681-696). *)
THEOREM TypeCorrect == Spec => []TypeOK
<1>1. Exact({}, Rgb)
  BY TypesAreAPalette DEF Exact
<1>2. Init => SettingsInv({}, Rgb)
  BY <1>1, InitEstablishes
<1>3. SettingsInv({}, Rgb) /\ [Next]_vars => SettingsInv({}, Rgb)'
  BY <1>1, StepsKeepInv
<1>4. SettingsInv({}, Rgb) => TypeOK
  BY InvImpliesTypeOK
<1> QED BY <1>2, <1>3, <1>4, PTL DEF Spec

(* What a select, a switch, a number or the on/off of the backlight was told
   it had written is shown (coordinator.py:605-655), and a write built while
   no other was under way leaves it on the device (select.py:120-139,
   number.py:82-97, switch.py:96-107, light.py:115-140), whatever colours
   the lights are asked for meanwhile. *)
THEOREM PlainFieldsHold ==
    Spec => []ShownHolds(Fields \ Backlight) /\ [][Spared(Fields \ Backlight)]_vars
<1> DEFINE Held == SettingsInv(Fields \ Backlight, Rgb)
<1>1. Init => Held
  BY PlainFieldsAreExact, InitEstablishes
<1>2. Held /\ [Next]_vars => Held'
  BY PlainFieldsAreExact, StepsKeepInv
<1>3. Held => ShownHolds(Fields \ Backlight)
  BY DEF SettingsInv
<1>4. Held /\ [Next]_vars => [Spared(Fields \ Backlight)]_vars
  BY PlainFieldsAreExact, StoringSpares
<1> HIDE DEF Held
<1> QED BY <1>1, <1>2, <1>3, <1>4, PTL DEF Spec

(* The same with the level of the backlight among them, when colours are
   asked for at full brightness: the level is folded into the bytes of the
   colour and read back from them unharmed (light.py:101-131), also by a
   later write of the hue alone. *)
THEOREM LevelsHold ==
    ASSUME Bright
    PROVE  Spec => /\ []ShownHolds(Fields \ {<<"hue">>})
                   /\ [][Spared(Fields \ {<<"hue">>})]_vars
<1> DEFINE Held == SettingsInv(Fields \ {<<"hue">>}, Rgb)
<1>1. Init => Held
  BY LevelsAreExact, InitEstablishes
<1>2. Held /\ [Next]_vars => Held'
  BY LevelsAreExact, StepsKeepInv
<1>3. Held => ShownHolds(Fields \ {<<"hue">>})
  BY DEF SettingsInv
<1>4. Held /\ [Next]_vars => [Spared(Fields \ {<<"hue">>})]_vars
  BY LevelsAreExact, StoringSpares
<1> HIDE DEF Held
<1> QED BY <1>1, <1>2, <1>3, <1>4, PTL DEF Spec

(* AcknowledgedIsShown, the hue included, over colours that lose nothing:
   what a control was told it had written is what every control shows
   (coordinator.py:606-655, entity.py:379-400, light.py:100-140). *)
THEOREM AcknowledgedIsShownInAPalette ==
    ASSUME NEW Palette \in SUBSET Rgb, Exact(Fields, Palette)
    PROVE  Spec => []AcknowledgedIsShown
<1>1. Init => SettingsInv(Fields, Palette)
  BY InitEstablishes
<1>2. SettingsInv(Fields, Palette) /\ [Next]_vars => SettingsInv(Fields, Palette)'
  BY StepsKeepInv
<1>3. SettingsInv(Fields, Palette) => AcknowledgedIsShown
  <2> SUFFICES ASSUME SettingsInv(Fields, Palette) PROVE AcknowledgedIsShown
    OBVIOUS
  <2>1. DOMAIN asked \subseteq Fields /\ ShownHolds(Fields)
    BY DEF SettingsInv, Typed
  <2> QED BY <2>1 DEF ShownHolds, AcknowledgedIsShown
<1> QED BY <1>1, <1>2, <1>3, PTL DEF Spec

(* SiblingsSurvive over the same colours: a patch built while no other write
   was under way leaves every acknowledged value of its siblings as it is
   on the device (select.py:120-139, light.py:115-140). *)
THEOREM SiblingsSurviveInAPalette ==
    ASSUME NEW Palette \in SUBSET Rgb, Exact(Fields, Palette)
    PROVE  Spec => SiblingsSurvive
<1>1. Init => SettingsInv(Fields, Palette)
  BY InitEstablishes
<1>2. SettingsInv(Fields, Palette) /\ [Next]_vars => SettingsInv(Fields, Palette)'
  BY StepsKeepInv
<1>3. SettingsInv(Fields, Palette) /\ [Next]_vars
        => [\A c \in Calls : Storing(c) /\ call[c].alone
            => \A f \in DOMAIN asked \ DOMAIN Wanted(call[c].request) :
                    Field(dev', f) = asked[f]]_vars
  <2> SUFFICES ASSUME SettingsInv(Fields, Palette), [Next]_vars
               PROVE  \A c \in Calls : Storing(c) /\ call[c].alone
                        => \A f \in DOMAIN asked \ DOMAIN Wanted(call[c].request) :
                                Field(dev', f) = asked[f]
    OBVIOUS
  <2>1. DOMAIN asked \subseteq Fields
    BY DEF SettingsInv, Typed
  <2>2. Spared(Fields)
    BY StoringSpares
  <2> QED BY <2>1, <2>2 DEF Spared
<1> QED BY <1>1, <1>2, <1>3, PTL DEF Spec, SiblingsSurvive
=============================================================================
