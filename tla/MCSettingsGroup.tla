-------------------------- MODULE MCSettingsGroup --------------------------
(***************************************************************************)
(* Small instances of SettingsGroup: two relays, two hues and two levels   *)
(* whose products a byte can hold without loss - none of them meets a tie  *)
(* that doubles miss -, one refused threshold.                             *)
(***************************************************************************)
EXTENDS SettingsGroup

Light(rgb, level) == [kind |-> "light", rgb |-> rgb, level |-> level]
Orange == <<255, 128, 0>>

RestartRequests == [kind : {"restart"}, relay : Relays, value : {"on"}]

LightRequests ==
    {Light(Orange, Unsaid), Light(Unsaid, <<128>>), Light(Unsaid, Unsaid)}

AllRequests ==
    RestartRequests \cup LightRequests
    \cup {[kind |-> "dark"], [kind |-> "switch", value |-> 1]} \cup [kind : {"threshold"}, value : {5}]

SomeEdits ==
    {[kind |-> "restart", relay |-> 1, value |-> "on"], Light(DefaultRgb, <<64>>)}

(* Every colour these lights ever store, and that it loses nothing. *)
Palette ==
    {Black, DefaultRgb, Orange, <<128, 64, 0>>, <<64, 32, 0>>,
     <<128, 128, 128>>, <<64, 64, 64>>}

ASSUME PaletteIsExact == Exact(Fields, Palette)
=============================================================================
