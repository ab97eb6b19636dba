--------------------------- MODULE MCCapabilities ---------------------------
(***************************************************************************)
(* A small instance of Capabilities: a device with two relays, the same    *)
(* after an update that measures power, with the measurement not there     *)
(* yet, and with other settings and no uptime.                             *)
(***************************************************************************)
EXTENDS Capabilities

Plain ==
    [info |-> 1, network |-> {"apEnable"}, uptime |-> TRUE,
     settings |-> [keys |-> {"tunnel", "buttonsBacklight"}, power |-> {}, relays |-> 2],
     state |-> [safety |-> FALSE, measured |-> {}, readable |-> {}, timed |-> {}]]

Measuring ==
    [Plain EXCEPT
        !.info = 2,
        !.settings = [keys |-> {"tunnel"}, power |-> {"safetyValue"}, relays |-> 2],
        !.state = [safety |-> TRUE, measured |-> Measurements,
                   readable |-> Measurements, timed |-> {0}]]

NotYet == [Measuring EXCEPT !.state.readable = {"powerConsumption"}]

Downgraded == [Plain EXCEPT !.uptime = FALSE, !.network = {}]

FourShapes == {Plain, Measuring, NotYet, Downgraded}
=============================================================================
