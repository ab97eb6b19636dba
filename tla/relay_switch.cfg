CONSTANTS
    Relays = {0, 1}
    Bindings <- EitherRelay
    Tasks = {t1}
    Commands = {c1, c2}
    Settle = 1
    MaxMoves = 3
SPECIFICATION MCSpec
INVARIANTS TypeOK ConfirmedCommandIsShown
PROPERTIES FreshPollIsBelieved StalePollDoesNotResurrect
PROPERTIES SiblingsDoNotReact ShowsTheRelay
