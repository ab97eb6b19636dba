------------------------ MODULE RelaySwitch_proofs ------------------------
(***************************************************************************)
(* What the settle window of a command promises, for any number of relays, *)
(* commands and refreshes in flight, any bindings and any length of the    *)
(* window.                                                                 *)
(***************************************************************************)
EXTENDS RelaySwitch, TLAPS

(* The command lock: two commands in flight are for different relays. *)
OneCommandPerRelay ==
    \A c, d \in Commands :
        (cmd[c] # Idle /\ cmd[d] # Idle /\ cmd[c].relay = cmd[d].relay) => c = d

Executed(c, r) == cmd[c].pc = "executed" /\ cmd[c].relay = r

(* Until something else moves it, a relay is where the command put it that
   was executed and is not answered yet. *)
ExecutedIsTrue ==
    \A c \in Commands, r \in Relays :
        Executed(c, r) /\ r \notin moved => relay[r] = cmd[c].on

(* What a settle window stands for, a command merely sent included: such a
   command may still fail and leave the window as it was. *)
WindowIsTrue ==
    \A r \in Relays :
        (window[r] > 0 /\ r \notin moved /\ ~ \E c \in Commands : Executed(c, r))
            => state[r] = relay[r]

(* A callback on its way was a press once: there are no more of them than
   the bound of the model allows. *)
CallsArePresses == calls <= moves

IInv == TypeOK /\ CallsArePresses /\ OneCommandPerRelay /\ ExecutedIsTrue /\ WindowIsTrue

(* A refresh that has read, and that nothing has outdated since, holds what
   the relays are. *)
PollIsTrue ==
    \A t \in Tasks, r \in Relays :
        (job[t].pc = "read" /\ r \in job[t].current) => job[t].got[r] = relay[r]

(* The settle window closes as the quiet after its command grows. *)
WindowFits == \A r \in Relays : window[r] + quiet[r] <= Settle

PInv == PollIsTrue /\ WindowFits

(* No two refreshes are in flight at once. *)
NoOverlap == \A t, u \in Tasks : t = u

(* While refreshes do not overlap, a refresh that read a relay before its
   last command finds the window of that command open, as far as the quiet
   since its answer leaves it open. *)
StaleIsGuarded ==
    \A t \in Tasks, r \in Relays :
        (/\ job[t].pc = "read" /\ r \in job[t].before /\ quiet[r] < Settle
         /\ r \notin moved /\ ~ \E c \in Commands : Executed(c, r))
            => window[r] + quiet[r] = Settle

-----------------------------------------------------------------------------
LEMMA OutcomeType ==
    ASSUME NEW b, NEW v \in RelayState \cup {Unknown}
    PROVE  Outcome(b, v) \in RelayState \cup {Unknown}
BY DEF Outcome, Opposite, RelayState, On, Off, Unknown

LEMMA ShownType ==
    ASSUME TypeOK, NEW r \in Relays
    PROVE  Shown(r) \in RelayState \cup {Unknown}
BY DEF TypeOK, Shown

LEMMA PredictedType ==
    ASSUME TypeOK, NEW r \in Relays
    PROVE  Predicted(r) \in RelayState \cup {Unknown}
BY ShownType, OutcomeType DEF Predicted

(* A relay the device drives takes a definite position. *)
LEMMA DrivenOutcome ==
    ASSUME TypeOK, NEW r \in Driven
    PROVE  Outcome(bound, relay[r]) \in RelayState
<1>1. r \in Relays /\ bound.type # "other"
    BY DEF Driven
<1>2. bound.type \in {"on", "off", "toggle"} /\ relay[r] \in RelayState
    BY <1>1, RelaySwitchAssumption DEF TypeOK, RelaySwitchAssumption, Binding
<1> QED
    BY <1>2 DEF Outcome, Opposite, RelayState, On, Off, Unknown

LEMMA CommandTyped ==
    ASSUME TypeOK, NEW c \in Commands, cmd[c] # Idle
    PROVE  cmd[c] \in Cmd
BY DEF TypeOK

LEMMA JobTyped ==
    ASSUME TypeOK, NEW t \in Tasks, job[t] # Idle
    PROVE  job[t] \in Job
BY DEF TypeOK

LEMMA OutdatedType ==
    ASSUME TypeOK, NEW R \in SUBSET Relays
    PROVE  Outdated(R) \in [Tasks -> Job \cup {Idle}]
<1> SUFFICES ASSUME NEW t \in Tasks PROVE Outdated(R)[t] \in Job \cup {Idle}
    BY DEF Outdated
<1>1. CASE job[t].pc = "read"
    <2>1. job[t] # Idle
        BY <1>1 DEF Idle
    <2>2. job[t] \in Job
        BY <2>1, JobTyped
    <2>3. [job[t] EXCEPT !.current = @ \ R] \in Job
        BY <2>2 DEF Job
    <2> QED
        BY <1>1, <2>3 DEF Outdated
<1>2. CASE job[t].pc # "read"
    BY <1>2 DEF Outdated, TypeOK
<1> QED
    BY <1>1, <1>2

(* Observing a snapshot keeps a window only where it keeps the state too. *)
LEMMA ObserveKeeps ==
    ASSUME TypeOK, NEW got \in [Relays -> RelayState \cup {Unknown}], Observe(got)
    PROVE  /\ state' \in [Relays -> RelayState \cup {Unknown}]
           /\ window' \in [Relays -> 0 .. Settle]
           /\ \A r \in Relays :
                window'[r] > 0 => window'[r] = window[r] /\ state'[r] = state[r]
<1> DEFINE Taken == {r \in Relays : got[r] # Unknown /\ ~Ignored(r, got[r])}
<1>1. /\ state' = [r \in Relays |-> IF r \in Taken THEN got[r] ELSE state[r]]
      /\ window' = [r \in Relays |-> IF r \in Taken THEN 0 ELSE window[r]]
    BY DEF Observe
<1>2. state \in [Relays -> RelayState \cup {Unknown}] /\ window \in [Relays -> 0 .. Settle]
    BY DEF TypeOK
<1>3. 0 \in 0 .. Settle /\ Settle \in Nat
    BY RelaySwitchAssumption DEF RelaySwitchAssumption
<1> HIDE DEF Taken
<1> QED
    BY <1>1, <1>2, <1>3

LEMMA InitEstablishes == Init => IInv
<1> SUFFICES ASSUME Init PROVE IInv
    OBVIOUS
<1>1. Settle \in Nat \ {0} /\ MaxMoves \in Nat
    BY RelaySwitchAssumption DEF RelaySwitchAssumption
<1>2. TypeOK
    <2>1. /\ window \in [Relays -> 0 .. Settle] /\ quiet \in [Relays -> 0 .. Settle]
          /\ calls \in 0 .. MaxMoves /\ moves \in 0 .. MaxMoves
        BY <1>1 DEF Init
    <2>2. \A r \in Relays : window[r] > 0 => state[r] # Unknown
        BY DEF Init
    <2>3. /\ cmd \in [Commands -> Cmd \cup {Idle}] /\ job \in [Tasks -> Job \cup {Idle}]
          /\ state \in [Relays -> RelayState \cup {Unknown}]
        BY DEF Init
    <2>4. known \in SUBSET Bindings /\ polled \in [Relays -> RelayState \cup {Unknown}]
        BY DEF Init, FirstSnapshot
    <2> QED
        BY <2>1, <2>2, <2>3, <2>4 DEF Init, TypeOK
<1>3. CallsArePresses /\ OneCommandPerRelay /\ ExecutedIsTrue /\ WindowIsTrue
    BY DEF Init, CallsArePresses, OneCommandPerRelay, ExecutedIsTrue, WindowIsTrue, Executed, Idle
<1> QED
    BY <1>2, <1>3 DEF IInv

-----------------------------------------------------------------------------
(* Every step keeps the type, one operation at a time. *)

LEMMA CommandKeepsType ==
    ASSUME TypeOK, NEW c \in Commands,
           \/ \E r \in Relays, v \in RelayState : Command(c, r, v)
           \/ CommandStep(c) \/ CommandFails(c)
    PROVE  TypeOK'
<1>0. Settle \in Nat \ {0} /\ MaxMoves \in Nat
    BY RelaySwitchAssumption DEF RelaySwitchAssumption
<1>1. ASSUME NEW r \in Relays, NEW v \in RelayState, Command(c, r, v) PROVE TypeOK'
    <2>1. [pc |-> "sent", relay |-> r, on |-> v] \in Cmd
        BY DEF Cmd
    <2>2. cmd' \in [Commands -> Cmd \cup {Idle}]
        BY <1>1, <2>1 DEF Command, TypeOK
    <2>3. moves' \in 0 .. MaxMoves
        BY <1>0, <1>1 DEF Command, Move, TypeOK
    <2> QED
        BY <1>1, <2>2, <2>3 DEF Command, TypeOK
<1>2. CASE Execute(c)
    <2>1. cmd[c] # Idle
        <3>1. cmd[c].pc = "sent" /\ Idle.pc = "idle"
            BY <1>2 DEF Execute, Idle
        <3> QED
            BY <3>1
    <2>2. cmd[c] \in Cmd
        BY <2>1, CommandTyped
    <2>3. cmd[c].relay \in Relays /\ cmd[c].on \in RelayState
        BY <2>2 DEF Cmd
    <2>4. [cmd[c] EXCEPT !.pc = "executed"] \in Cmd
        BY <2>2 DEF Cmd
    <2>5. cmd' \in [Commands -> Cmd \cup {Idle}]
        BY <1>2, <2>4 DEF Execute, TypeOK
    <2>6. relay' \in [Relays -> RelayState] /\ moved' \in SUBSET Relays
        BY <1>2, <2>3 DEF Execute, TypeOK
    <2>7. ASSUME NEW t \in Tasks PROVE job'[t] \in Job \cup {Idle}
        <3>1. CASE job[t].pc = "read"
            <4>1. job[t] # Idle
                BY <3>1 DEF Idle
            <4>2. job[t] \in Job
                BY <4>1, JobTyped
            <4>3. [job[t] EXCEPT !.before = @ \cup {cmd[c].relay},
                                 !.current = @ \ {cmd[c].relay}] \in Job
                BY <4>2, <2>3 DEF Job
            <4> QED
                BY <1>2, <3>1, <4>3 DEF Execute
        <3>2. CASE job[t].pc # "read"
            BY <1>2, <3>2 DEF Execute, TypeOK
        <3> QED
            BY <3>1, <3>2
    <2>8. job' \in [Tasks -> Job \cup {Idle}]
        BY <1>2, <2>7 DEF Execute
    <2> QED
        BY <1>2, <2>5, <2>6, <2>8 DEF Execute, TypeOK
<1>3. CASE Answered(c)
    <2>1. cmd[c] # Idle
        BY <1>3 DEF Answered, Idle
    <2>2. cmd[c] \in Cmd
        BY <2>1, CommandTyped
    <2>3. cmd[c].relay \in Relays /\ cmd[c].on \in RelayState
        BY <2>2 DEF Cmd
    <2>4. state' = [state EXCEPT ![cmd[c].relay] = cmd[c].on]
        BY <1>3 DEF Answered, StateAfter
    <2>5. cmd' \in [Commands -> Cmd \cup {Idle}]
        BY <1>3 DEF Answered, TypeOK
    <2>6. /\ window' = [window EXCEPT ![cmd[c].relay] = Settle]
          /\ quiet' = [quiet EXCEPT ![cmd[c].relay] = 0]
        BY <1>3 DEF Answered
    <2>7. window' \in [Relays -> 0 .. Settle] /\ quiet' \in [Relays -> 0 .. Settle]
        BY <1>0, <2>3, <2>6 DEF TypeOK
    <2>8. state' \in [Relays -> RelayState \cup {Unknown}]
        BY <2>3, <2>4 DEF TypeOK
    <2>9. \A r \in Relays : window'[r] > 0 => state'[r] # Unknown
        BY <2>3, <2>4, <2>6 DEF TypeOK, RelayState, On, Off, Unknown
    <2> QED
        BY <1>3, <2>5, <2>7, <2>8, <2>9 DEF Answered, TypeOK
<1>4. CASE CommandFails(c)
    <2>1. cmd' \in [Commands -> Cmd \cup {Idle}]
        BY <1>4 DEF CommandFails, TypeOK
    <2>2. cmd[c] \in Cmd
        BY <1>4, CommandTyped DEF CommandFails
    <2>3. moved' \in SUBSET Relays
        BY <1>4, <2>2 DEF CommandFails, TypeOK, Cmd
    <2> QED
        BY <1>4, <2>1, <2>3 DEF CommandFails, TypeOK
<1> QED
    BY <1>1, <1>2, <1>3, <1>4 DEF CommandStep

LEMMA PressKeepsType ==
    ASSUME TypeOK, CallsArePresses,
           \/ Press \/ Callback \/ CallbackLost
           \/ \E r \in Relays : MovedElsewhere(r)
           \/ \E b \in Bindings : Rebound(b)
    PROVE  TypeOK'
<1>0. Settle \in Nat \ {0} /\ MaxMoves \in Nat
    BY RelaySwitchAssumption DEF RelaySwitchAssumption
<1>1. CASE Press
    <2>1. Driven \in SUBSET Relays
        BY DEF Driven
    <2>2. relay' \in [Relays -> RelayState]
        BY <1>1, DrivenOutcome DEF Press, TypeOK
    <2>3. job' \in [Tasks -> Job \cup {Idle}]
        BY <1>1, <2>1, OutdatedType DEF Press
    <2>4. moves' \in 0 .. MaxMoves
        BY <1>0, <1>1 DEF Press, Move, TypeOK
    <2>5. moved' \in SUBSET Relays
        BY <1>1, <2>1 DEF Press, TypeOK
    <2>6. calls' \in 0 .. MaxMoves
        BY <1>0, <1>1 DEF Press, Move, TypeOK, CallsArePresses
    <2> QED
        BY <1>1, <2>2, <2>3, <2>4, <2>5, <2>6 DEF Press, TypeOK
<1>2. CASE Callback
    <2>1. calls' \in 0 .. MaxMoves
        BY <1>0, <1>2 DEF Callback, Predict, TypeOK
    <2>2. state' \in [Relays -> RelayState \cup {Unknown}]
        BY <1>2, PredictedType DEF Callback, Predict, TypeOK
    <2>3. window' \in [Relays -> 0 .. Settle] /\ quiet' \in [Relays -> 0 .. Settle]
        BY <1>0, <1>2 DEF Callback, Predict, TypeOK
    <2>4. \A r \in Relays : window'[r] > 0 => state'[r] # Unknown
        BY <1>2 DEF Callback, Predict, TypeOK
    <2> QED
        BY <1>2, <2>1, <2>2, <2>3, <2>4 DEF Callback, Predict, TypeOK
<1>3. CASE CallbackLost
    BY <1>0, <1>3 DEF CallbackLost, TypeOK
<1>4. ASSUME NEW r \in Relays, MovedElsewhere(r) PROVE TypeOK'
    <2>1. relay' \in [Relays -> RelayState]
        BY <1>4 DEF MovedElsewhere, TypeOK, Opposite, RelayState
    <2>2. job' \in [Tasks -> Job \cup {Idle}]
        BY <1>4, OutdatedType DEF MovedElsewhere
    <2>3. moves' \in 0 .. MaxMoves
        BY <1>0, <1>4 DEF MovedElsewhere, Move, TypeOK
    <2>4. moved' \in SUBSET Relays
        BY <1>4 DEF MovedElsewhere, TypeOK
    <2> QED
        BY <1>4, <2>1, <2>2, <2>3, <2>4 DEF MovedElsewhere, TypeOK
<1>5. ASSUME NEW b \in Bindings, Rebound(b) PROVE TypeOK'
    <2>1. moves' \in 0 .. MaxMoves
        BY <1>0, <1>5 DEF Rebound, Move, TypeOK
    <2> QED
        BY <1>5, <2>1 DEF Rebound, TypeOK
<1> QED
    BY <1>1, <1>2, <1>3, <1>4, <1>5

LEMMA PollKeepsType ==
    ASSUME TypeOK, NEW t \in Tasks, PollStep(t) \/ PollFails(t)
    PROVE  TypeOK'
<1>1. CASE StartPoll(t)
    <2>1. [pc |-> "reading", table |-> known, got |-> polled,
           before |-> {}, current |-> {}] \in Job
        BY DEF Job, TypeOK
    <2>2. job' \in [Tasks -> Job \cup {Idle}]
        BY <1>1, <2>1 DEF StartPoll, TypeOK
    <2> QED
        BY <1>1, <2>2 DEF StartPoll, TypeOK
<1>2. CASE ReadPoll(t)
    <2>1. job[t] # Idle
        BY <1>2 DEF ReadPoll, Idle
    <2>2. job[t] \in Job
        BY <2>1, JobTyped
    <2>3. PICK table \in {job[t].table, {bound}, {}} :
            job' = [job EXCEPT ![t] =
                        [pc |-> "read", table |-> table, got |-> relay,
                         before |-> {}, current |-> Relays]]
        BY <1>2 DEF ReadPoll
    <2>4. table \in SUBSET Bindings
        BY <2>2 DEF Job, TypeOK
    <2>5. relay \in [Relays -> RelayState \cup {Unknown}]
        BY DEF TypeOK
    <2>6. [pc |-> "read", table |-> table, got |-> relay,
           before |-> {}, current |-> Relays] \in Job
        BY <2>4, <2>5 DEF Job
    <2>7. job' \in [Tasks -> Job \cup {Idle}]
        BY <2>3, <2>6 DEF TypeOK
    <2> QED
        BY <1>2, <2>7 DEF ReadPoll, TypeOK
<1>3. CASE Publish(t)
    <2>1. job[t] # Idle
        BY <1>3 DEF Publish, Idle
    <2>2. job[t] \in Job
        BY <2>1, JobTyped
    <2>3. /\ job[t].got \in [Relays -> RelayState \cup {Unknown}]
          /\ job[t].table \in SUBSET Bindings
        BY <2>2 DEF Job
    <2>4. job' \in [Tasks -> Job \cup {Idle}]
        BY <1>3 DEF Publish, TypeOK
    <2>5. Observe(job[t].got)
        BY <1>3 DEF Publish
    <2>6. /\ state' \in [Relays -> RelayState \cup {Unknown}]
          /\ window' \in [Relays -> 0 .. Settle]
          /\ \A r \in Relays :
                window'[r] > 0 => window'[r] = window[r] /\ state'[r] = state[r]
        BY <2>3, <2>5, ObserveKeeps
    <2>7. \A r \in Relays : window'[r] > 0 => state'[r] # Unknown
        BY <2>6 DEF TypeOK
    <2> QED
        BY <1>3, <2>3, <2>4, <2>6, <2>7 DEF Publish, TypeOK
<1>4. CASE PollFails(t)
    <2>1. job' \in [Tasks -> Job \cup {Idle}]
        BY <1>4 DEF PollFails, TypeOK
    <2>2. polled \in [Relays -> RelayState \cup {Unknown}]
        BY DEF TypeOK
    <2>3. CASE available
        <3>1. Observe(polled)
            BY <1>4, <2>3 DEF PollFails
        <3>2. /\ state' \in [Relays -> RelayState \cup {Unknown}]
              /\ window' \in [Relays -> 0 .. Settle]
              /\ \A r \in Relays :
                    window'[r] > 0 => window'[r] = window[r] /\ state'[r] = state[r]
            BY <2>2, <3>1, ObserveKeeps
        <3>3. \A r \in Relays : window'[r] > 0 => state'[r] # Unknown
            BY <3>2 DEF TypeOK
        <3> QED
            BY <1>4, <2>1, <3>2, <3>3 DEF PollFails, TypeOK
    <2>4. CASE ~available
        BY <1>4, <2>1, <2>4 DEF PollFails, TypeOK
    <2> QED
        BY <2>3, <2>4
<1> QED
    BY <1>1, <1>2, <1>3, <1>4 DEF PollStep

LEMMA TickKeepsType ==
    ASSUME TypeOK, Tick
    PROVE  TypeOK'
<1>0. Settle \in Nat \ {0}
    BY RelaySwitchAssumption DEF RelaySwitchAssumption
<1>1. window' \in [Relays -> 0 .. Settle] /\ quiet' \in [Relays -> 0 .. Settle]
    BY <1>0 DEF Tick, TypeOK
<1>2. \A r \in Relays : window'[r] > 0 => state'[r] # Unknown
    <2> SUFFICES ASSUME NEW r \in Relays, window'[r] > 0 PROVE state'[r] # Unknown
        OBVIOUS
    <2>1. window[r] \in 0 .. Settle /\ window'[r] = IF window[r] > 0 THEN window[r] - 1 ELSE 0
        BY DEF Tick, TypeOK
    <2>2. window[r] > 0
        BY <2>1
    <2> QED
        BY <2>2 DEF Tick, TypeOK
<1> QED
    BY <1>1, <1>2 DEF Tick, TypeOK

LEMMA TypeStep == TypeOK /\ CallsArePresses /\ [Next]_vars => TypeOK'
<1> SUFFICES ASSUME TypeOK, CallsArePresses, [Next]_vars PROVE TypeOK'
    OBVIOUS
<1>1. CASE \E c \in Commands :
            \/ \E r \in Relays, v \in RelayState : Command(c, r, v)
            \/ CommandStep(c) \/ CommandFails(c)
    BY <1>1, CommandKeepsType
<1>2. CASE \/ Press \/ Callback \/ CallbackLost
           \/ \E r \in Relays : MovedElsewhere(r)
           \/ \E b \in Bindings : Rebound(b)
    BY <1>2, PressKeepsType
<1>3. CASE \E t \in Tasks : PollStep(t) \/ PollFails(t)
    BY <1>3, PollKeepsType
<1>4. CASE Tick
    BY <1>4, TickKeepsType
<1>5. CASE UNCHANGED vars
    BY <1>5 DEF vars, TypeOK
<1> QED
    BY <1>1, <1>2, <1>3, <1>4, <1>5 DEF Next

LEMMA CallsStep == TypeOK /\ CallsArePresses /\ [Next]_vars => CallsArePresses'
<1> SUFFICES ASSUME calls \in Nat, moves \in Nat, calls <= moves, [Next]_vars
             PROVE  calls' <= moves'
    BY RelaySwitchAssumption DEF TypeOK, CallsArePresses, RelaySwitchAssumption
<1>1. ASSUME NEW c \in Commands, NEW r \in Relays, NEW v \in RelayState, Command(c, r, v)
      PROVE  calls' <= moves'
    BY <1>1 DEF Command, Move
<1>2. ASSUME NEW c \in Commands, CommandStep(c) \/ CommandFails(c)
      PROVE  calls' <= moves'
    BY <1>2 DEF CommandStep, Execute, Answered, CommandFails
<1>3. CASE Press
    BY <1>3 DEF Press, Move
<1>4. CASE Callback \/ CallbackLost
    BY <1>4 DEF Callback, Predict, CallbackLost
<1>5. ASSUME NEW r \in Relays, MovedElsewhere(r) PROVE calls' <= moves'
    <2>1. calls' = calls /\ moves' = moves + 1
        BY <1>5 DEF MovedElsewhere, Move
    <2> QED
        BY <2>1
<1>6. ASSUME NEW b \in Bindings, Rebound(b) PROVE calls' <= moves'
    <2>1. calls' = calls /\ moves' = moves + 1
        BY <1>6 DEF Rebound, Move
    <2> QED
        BY <2>1
<1>7. ASSUME NEW t \in Tasks, PollStep(t) \/ PollFails(t)
      PROVE  calls' <= moves'
    BY <1>7 DEF PollStep, StartPoll, ReadPoll, Publish, PollFails
<1>8. CASE Tick \/ UNCHANGED vars
    BY <1>8 DEF Tick, vars
<1> QED
    BY <1>1, <1>2, <1>3, <1>4, <1>5, <1>6, <1>7, <1>8 DEF Next

-----------------------------------------------------------------------------
(* Steps that leave the commands and the history of moves alone. *)
LEMMA NoCommandKeeps ==
    ASSUME OneCommandPerRelay, ExecutedIsTrue, WindowIsTrue,
           UNCHANGED <<cmd, relay, moved>>,
           \A r \in Relays : window'[r] > 0 => window[r] > 0 /\ state'[r] = state[r]
    PROVE  (OneCommandPerRelay /\ ExecutedIsTrue /\ WindowIsTrue)'
BY DEF OneCommandPerRelay, ExecutedIsTrue, WindowIsTrue, Executed

LEMMA CommandKeeps ==
    ASSUME IInv, NEW c \in Commands,
           \/ \E r \in Relays, v \in RelayState : Command(c, r, v)
           \/ CommandStep(c) \/ CommandFails(c)
    PROVE  (OneCommandPerRelay /\ ExecutedIsTrue /\ WindowIsTrue)'
<1>0. cmd \in [Commands -> Cmd \cup {Idle}] /\ Idle.pc = "idle"
    BY DEF IInv, TypeOK, Idle
<1>1. ASSUME NEW r \in Relays, NEW v \in RelayState, Command(c, r, v)
      PROVE  (OneCommandPerRelay /\ ExecutedIsTrue /\ WindowIsTrue)'
    <2>1. /\ cmd[c] = Idle
          /\ \A d \in Commands : ~HasCommandLock(d, r)
          /\ cmd' = [cmd EXCEPT ![c] = [pc |-> "sent", relay |-> r, on |-> v]]
          /\ UNCHANGED <<relay, moved, window, state>>
        BY <1>1 DEF Command
    <2>2. \A d \in Commands, s \in Relays : Executed(d, s)' <=> Executed(d, s)
        BY <1>0, <2>1 DEF Executed
    <2>3. OneCommandPerRelay'
        BY <1>0, <2>1 DEF IInv, OneCommandPerRelay, HasCommandLock
    <2>4. ExecutedIsTrue'
        <3> SUFFICES ASSUME NEW d \in Commands, NEW s \in Relays,
                            Executed(d, s), s \notin moved
                     PROVE  relay[s] = cmd'[d].on
            BY <2>1, <2>2 DEF ExecutedIsTrue
        <3>1. d # c
            BY <1>0, <2>1 DEF Executed
        <3> QED
            BY <1>0, <2>1, <3>1 DEF IInv, ExecutedIsTrue
    <2>5. WindowIsTrue'
        BY <2>1, <2>2 DEF IInv, WindowIsTrue
    <2> QED
        BY <2>3, <2>4, <2>5
<1>2. CASE Execute(c)
    <2> DEFINE r == cmd[c].relay
    <2>1. /\ cmd[c].pc = "sent"
          /\ relay' = [relay EXCEPT ![r] = cmd[c].on]
          /\ moved' = moved \ {r}
          /\ cmd' = [cmd EXCEPT ![c].pc = "executed"]
          /\ UNCHANGED <<state, window>>
        BY <1>2 DEF Execute
    <2>2. cmd[c] # Idle /\ cmd[c] \in Cmd
        BY <1>0, <2>1
    <2>3. r \in Relays /\ relay \in [Relays -> RelayState]
        BY <2>2 DEF Cmd, IInv, TypeOK
    <2>4. /\ cmd'[c].pc = "executed" /\ cmd'[c].relay = r /\ cmd'[c].on = cmd[c].on
          /\ \A d \in Commands : d # c => cmd'[d] = cmd[d]
        BY <1>0, <2>1, <2>2 DEF Cmd
    <2>5. OneCommandPerRelay'
        BY <2>2, <2>4 DEF IInv, OneCommandPerRelay
    <2>6. ExecutedIsTrue'
        <3> SUFFICES ASSUME NEW d \in Commands, NEW s \in Relays,
                            cmd'[d].pc = "executed", cmd'[d].relay = s, s \notin moved'
                     PROVE  relay'[s] = cmd'[d].on
            BY DEF ExecutedIsTrue, Executed
        <3>1. CASE d = c
            BY <2>1, <2>3, <2>4, <3>1
        <3>2. CASE d # c
            <4>1. cmd[d].pc = "executed" /\ cmd[d].relay = s
                BY <2>4, <3>2
            <4>2. cmd[d] # Idle
                BY <1>0, <4>1
            <4>3. s # r
                BY <2>2, <3>2, <4>1, <4>2 DEF IInv, OneCommandPerRelay
            <4>4. s \notin moved
                BY <2>1, <4>3
            <4>5. relay[s] = cmd[d].on
                BY <4>1, <4>4 DEF IInv, ExecutedIsTrue, Executed
            <4> QED
                BY <2>1, <2>3, <2>4, <3>2, <4>3, <4>5
        <3> QED
            BY <3>1, <3>2
    <2>7. WindowIsTrue'
        <3> SUFFICES ASSUME NEW s \in Relays, window[s] > 0, s \notin moved',
                            \A d \in Commands :
                                ~(cmd'[d].pc = "executed" /\ cmd'[d].relay = s)
                     PROVE  state[s] = relay'[s]
            BY <2>1 DEF WindowIsTrue, Executed
        <3>1. s # r
            BY <2>4
        <3>2. \A d \in Commands : ~Executed(d, s)
            BY <2>1, <2>4 DEF Executed
        <3>3. s \notin moved
            BY <2>1, <3>1
        <3>4. state[s] = relay[s]
            BY <3>2, <3>3 DEF IInv, WindowIsTrue
        <3> QED
            BY <2>1, <2>3, <3>1, <3>4
    <2> QED
        BY <2>5, <2>6, <2>7
<1>3. CASE Answered(c)
    <2> DEFINE r == cmd[c].relay
    <2>1. /\ cmd[c].pc = "executed"
          /\ state' = [state EXCEPT ![r] = cmd[c].on]
          /\ window' = [window EXCEPT ![r] = Settle]
          /\ cmd' = [cmd EXCEPT ![c] = Idle]
          /\ UNCHANGED <<relay, moved>>
        BY <1>3 DEF Answered, StateAfter
    <2>2. cmd[c] # Idle /\ cmd[c] \in Cmd
        BY <1>0, <2>1
    <2>3. r \in Relays /\ state \in [Relays -> RelayState \cup {Unknown}]
          /\ window \in [Relays -> 0 .. Settle]
        BY <2>2 DEF Cmd, IInv, TypeOK
    <2>4. cmd'[c] = Idle /\ \A d \in Commands : d # c => cmd'[d] = cmd[d]
        BY <1>0, <2>1
    <2>5. OneCommandPerRelay'
        BY <2>4 DEF IInv, OneCommandPerRelay
    <2>6. ExecutedIsTrue'
        BY <1>0, <2>1, <2>4 DEF IInv, ExecutedIsTrue, Executed
    <2>7. WindowIsTrue'
        <3> SUFFICES ASSUME NEW s \in Relays, window'[s] > 0, s \notin moved,
                            \A d \in Commands :
                                ~(cmd'[d].pc = "executed" /\ cmd'[d].relay = s)
                     PROVE  state'[s] = relay[s]
            BY <2>1 DEF WindowIsTrue, Executed
        <3>1. CASE s = r
            <4>1. relay[r] = cmd[c].on
                BY <2>1, <2>3, <3>1 DEF IInv, ExecutedIsTrue, Executed
            <4> QED
                BY <2>1, <2>3, <3>1, <4>1
        <3>2. CASE s # r
            <4>1. \A d \in Commands : ~Executed(d, s)
                BY <2>4, <3>2 DEF Executed
            <4>2. window[s] > 0
                BY <2>1, <2>3, <3>2
            <4>3. state[s] = relay[s]
                BY <4>1, <4>2 DEF IInv, WindowIsTrue
            <4> QED
                BY <2>1, <2>3, <3>2, <4>3
        <3> QED
            BY <3>1, <3>2
    <2> QED
        BY <2>5, <2>6, <2>7
<1>4. CASE CommandFails(c)
    <2> DEFINE r == cmd[c].relay
    <2>1. /\ moved' = IF cmd[c].pc = "executed" THEN moved \cup {r} ELSE moved
          /\ cmd' = [cmd EXCEPT ![c] = Idle]
          /\ UNCHANGED <<relay, state, window>>
        BY <1>4 DEF CommandFails
    <2>2. cmd'[c] = Idle /\ \A d \in Commands : d # c => cmd'[d] = cmd[d]
        BY <1>0, <2>1
    <2>3. OneCommandPerRelay'
        BY <2>2 DEF IInv, OneCommandPerRelay
    <2>4. moved \subseteq moved'
        BY <2>1
    <2>5. ExecutedIsTrue'
        BY <1>0, <2>1, <2>2, <2>4 DEF IInv, ExecutedIsTrue, Executed
    <2>6. WindowIsTrue'
        <3> SUFFICES ASSUME NEW s \in Relays, window[s] > 0, s \notin moved',
                            \A d \in Commands :
                                ~(cmd'[d].pc = "executed" /\ cmd'[d].relay = s)
                     PROVE  state[s] = relay[s]
            BY <2>1 DEF WindowIsTrue, Executed
        <3>1. ~Executed(c, s)
            BY <2>1 DEF Executed
        <3>2. \A d \in Commands : ~Executed(d, s)
            BY <2>2, <3>1 DEF Executed
        <3> QED
            BY <2>4, <3>2 DEF IInv, WindowIsTrue
    <2> QED
        BY <2>3, <2>5, <2>6
<1> QED
    BY <1>1, <1>2, <1>3, <1>4 DEF CommandStep

LEMMA PressKeeps ==
    ASSUME IInv,
           \/ Press \/ Callback \/ CallbackLost
           \/ \E r \in Relays : MovedElsewhere(r)
           \/ \E b \in Bindings : Rebound(b)
    PROVE  (OneCommandPerRelay /\ ExecutedIsTrue /\ WindowIsTrue)'
<1>1. ASSUME UNCHANGED <<cmd, state, window>>,
             NEW R \in SUBSET Relays, moved' = moved \cup R,
             \A r \in Relays \ R : relay'[r] = relay[r]
      PROVE  (OneCommandPerRelay /\ ExecutedIsTrue /\ WindowIsTrue)'
    BY <1>1 DEF IInv, OneCommandPerRelay, ExecutedIsTrue, WindowIsTrue, Executed
<1>2. CASE Press
    <2>1. Driven \in SUBSET Relays
        BY DEF Driven
    <2>2. \A r \in Relays \ Driven : relay'[r] = relay[r]
        BY <1>2 DEF Press
    <2> QED
        BY <1>1, <1>2, <2>1, <2>2 DEF Press
<1>3. CASE Callback
    <2>1. UNCHANGED <<cmd, relay, moved>>
        BY <1>3 DEF Callback, Predict
    <2>2. \A r \in Relays : window'[r] > 0 => window[r] > 0 /\ state'[r] = state[r]
        BY <1>3 DEF Callback, Predict
    <2> QED
        BY <2>1, <2>2, NoCommandKeeps DEF IInv
<1>4. CASE CallbackLost
    BY <1>4, NoCommandKeeps DEF CallbackLost, IInv
<1>5. ASSUME NEW r \in Relays, MovedElsewhere(r)
      PROVE  (OneCommandPerRelay /\ ExecutedIsTrue /\ WindowIsTrue)'
    <2>1. \A s \in Relays \ {r} : relay'[s] = relay[s]
        BY <1>5 DEF MovedElsewhere, IInv, TypeOK
    <2> QED
        BY <1>1, <1>5, <2>1 DEF MovedElsewhere
<1>6. ASSUME NEW b \in Bindings, Rebound(b)
      PROVE  (OneCommandPerRelay /\ ExecutedIsTrue /\ WindowIsTrue)'
    BY <1>6, NoCommandKeeps DEF Rebound, IInv
<1> QED
    BY <1>2, <1>3, <1>4, <1>5, <1>6

LEMMA PollKeeps ==
    ASSUME IInv, NEW t \in Tasks, PollStep(t) \/ PollFails(t)
    PROVE  (OneCommandPerRelay /\ ExecutedIsTrue /\ WindowIsTrue)'
<1>0. TypeOK
    BY DEF IInv
<1>1. ASSUME NEW got \in [Relays -> RelayState \cup {Unknown}], Observe(got),
             UNCHANGED <<cmd, relay, moved>>
      PROVE  (OneCommandPerRelay /\ ExecutedIsTrue /\ WindowIsTrue)'
    <2>1. \A r \in Relays : window'[r] > 0 => window'[r] = window[r] /\ state'[r] = state[r]
        BY <1>0, <1>1, ObserveKeeps
    <2> QED
        BY <1>1, <2>1, NoCommandKeeps DEF IInv
<1>2. CASE StartPoll(t)
    BY <1>2, NoCommandKeeps DEF StartPoll, IInv
<1>3. CASE ReadPoll(t)
    BY <1>3, NoCommandKeeps DEF ReadPoll, IInv
<1>4. CASE Publish(t)
    <2>1. job[t] # Idle
        BY <1>4 DEF Publish, Idle
    <2>2. job[t].got \in [Relays -> RelayState \cup {Unknown}]
        BY <1>0, <2>1, JobTyped DEF Job
    <2> QED
        BY <1>1, <1>4, <2>2 DEF Publish
<1>5. CASE PollFails(t)
    <2>1. polled \in [Relays -> RelayState \cup {Unknown}]
        BY <1>0 DEF TypeOK
    <2>2. CASE available
        BY <1>1, <1>5, <2>1, <2>2 DEF PollFails
    <2>3. CASE ~available
        BY <1>5, <2>3, NoCommandKeeps DEF PollFails, IInv
    <2> QED
        BY <2>2, <2>3
<1> QED
    BY <1>2, <1>3, <1>4, <1>5 DEF PollStep

LEMMA InductiveStep == IInv /\ [Next]_vars => IInv'
<1> SUFFICES ASSUME IInv, [Next]_vars PROVE IInv'
    OBVIOUS
<1>0. TypeOK' /\ CallsArePresses'
    BY TypeStep, CallsStep DEF IInv
<1> SUFFICES (OneCommandPerRelay /\ ExecutedIsTrue /\ WindowIsTrue)'
    BY <1>0 DEF IInv
<1>1. CASE \E c \in Commands :
            \/ \E r \in Relays, v \in RelayState : Command(c, r, v)
            \/ CommandStep(c) \/ CommandFails(c)
    BY <1>1, CommandKeeps
<1>2. CASE \/ Press \/ Callback \/ CallbackLost
           \/ \E r \in Relays : MovedElsewhere(r)
           \/ \E b \in Bindings : Rebound(b)
    BY <1>2, PressKeeps
<1>3. CASE \E t \in Tasks : PollStep(t) \/ PollFails(t)
    BY <1>3, PollKeeps
<1>4. CASE Tick
    <2>1. \A r \in Relays : window'[r] > 0 => window[r] > 0 /\ state'[r] = state[r]
        BY <1>4 DEF Tick
    <2> QED
        BY <1>4, <2>1, NoCommandKeeps DEF Tick, IInv
<1>5. CASE UNCHANGED vars
    BY <1>5, NoCommandKeeps DEF vars, IInv
<1> QED
    BY <1>1, <1>2, <1>3, <1>4, <1>5 DEF Next

LEMMA Always == Spec => []IInv
BY InitEstablishes, InductiveStep, PTL DEF Spec

-----------------------------------------------------------------------------
(* Refreshes in flight *)

LEMMA SettleTyped == Settle \in Nat \ {0}
BY RelaySwitchAssumption DEF RelaySwitchAssumption

LEMMA IdleIsIdle == Idle.pc = "idle"
BY DEF Idle

LEMMA PollsStayTrue ==
    ASSUME TypeOK, PollIsTrue, [Next]_vars
    PROVE  PollIsTrue'
<1>0. job \in [Tasks -> Job \cup {Idle}] /\ relay \in [Relays -> RelayState]
    BY DEF TypeOK
<1>1. ASSUME UNCHANGED <<job, relay>> PROVE PollIsTrue'
    BY <1>1 DEF PollIsTrue
(* Relays moved, and no refresh counts as current on them any more. *)
<1>2. ASSUME NEW R \in SUBSET Relays,
             \A r \in Relays \ R : relay'[r] = relay[r],
             \A t \in Tasks : job[t].pc # "read" => job'[t] = job[t],
             \A t \in Tasks : job[t].pc = "read" =>
                /\ job'[t].got = job[t].got
                /\ job'[t].current = job[t].current \ R
      PROVE  PollIsTrue'
    BY <1>2 DEF PollIsTrue
<1>3. ASSUME NEW R \in SUBSET Relays,
             \A r \in Relays \ R : relay'[r] = relay[r],
             job' = Outdated(R)
      PROVE  PollIsTrue'
    <2>1. \A t \in Tasks : job[t].pc # "read" => job'[t] = job[t]
        BY <1>3 DEF Outdated
    <2>2. ASSUME NEW t \in Tasks, job[t].pc = "read"
          PROVE  job'[t].got = job[t].got /\ job'[t].current = job[t].current \ R
        <3>1. job[t] \in Job
            BY <2>2, IdleIsIdle, JobTyped
        <3>2. job'[t] = [job[t] EXCEPT !.current = @ \ R]
            BY <1>3, <2>2 DEF Outdated
        <3> QED
            BY <3>1, <3>2 DEF Job
    <2> QED
        BY <1>2, <1>3, <2>1, <2>2
<1>4. ASSUME NEW c \in Commands, Execute(c) PROVE PollIsTrue'
    <2>1. cmd[c] \in Cmd
        <3>1. cmd[c].pc = "sent"
            BY <1>4 DEF Execute
        <3> QED
            BY <3>1, IdleIsIdle, CommandTyped
    <2>2. cmd[c].relay \in Relays
        BY <2>1 DEF Cmd
    <2>3. \A r \in Relays \ {cmd[c].relay} : relay'[r] = relay[r]
        BY <1>0, <1>4 DEF Execute
    <2>4. job' = [t \in Tasks |->
                    IF job[t].pc = "read"
                        THEN [job[t] EXCEPT !.before = @ \cup {cmd[c].relay},
                                            !.current = @ \ {cmd[c].relay}]
                        ELSE job[t]]
        BY <1>4 DEF Execute
    <2>5. \A t \in Tasks : job[t].pc # "read" => job'[t] = job[t]
        BY <2>4
    <2>6. ASSUME NEW t \in Tasks, job[t].pc = "read"
          PROVE  /\ job'[t].got = job[t].got
                 /\ job'[t].current = job[t].current \ {cmd[c].relay}
        <3>1. job[t] \in Job
            BY <2>6, IdleIsIdle, JobTyped
        <3>2. job'[t] = [job[t] EXCEPT !.before = @ \cup {cmd[c].relay},
                                       !.current = @ \ {cmd[c].relay}]
            BY <2>4, <2>6
        <3> QED
            BY <3>1, <3>2 DEF Job
    <2> QED
        BY <1>2, <2>2, <2>3, <2>5, <2>6
<1>5. ASSUME NEW c \in Commands,
             \/ \E r \in Relays, v \in RelayState : Command(c, r, v)
             \/ Answered(c) \/ CommandFails(c)
      PROVE  PollIsTrue'
    BY <1>1, <1>5 DEF Command, Answered, CommandFails
<1>6. CASE Press
    <2>1. \A r \in Relays \ Driven : relay'[r] = relay[r]
        BY <1>6 DEF Press
    <2>2. Driven \in SUBSET Relays /\ job' = Outdated(Driven)
        BY <1>6 DEF Press, Driven
    <2> QED
        BY <1>3, <2>1, <2>2
<1>7. CASE Callback \/ CallbackLost \/ Tick \/ UNCHANGED vars
    BY <1>1, <1>7 DEF Callback, Predict, CallbackLost, Tick, vars
<1>8. ASSUME NEW r \in Relays, MovedElsewhere(r) PROVE PollIsTrue'
    <2>1. \A s \in Relays \ {r} : relay'[s] = relay[s]
        BY <1>0, <1>8 DEF MovedElsewhere
    <2>2. job' = Outdated({r})
        BY <1>8 DEF MovedElsewhere
    <2> QED
        BY <1>3, <2>1, <2>2
<1>9. ASSUME NEW b \in Bindings, Rebound(b) PROVE PollIsTrue'
    BY <1>1, <1>9 DEF Rebound
<1>10. ASSUME NEW t \in Tasks, PollStep(t) \/ PollFails(t) PROVE PollIsTrue'
    <2>1. UNCHANGED relay /\ \A u \in Tasks : u # t => job'[u] = job[u]
        BY <1>0, <1>10 DEF PollStep, StartPoll, ReadPoll, Publish, PollFails
    <2>2. \A r \in Relays :
            (job'[t].pc = "read" /\ r \in job'[t].current) => job'[t].got[r] = relay[r]
        <3>1. CASE StartPoll(t)
            BY <1>0, <3>1 DEF StartPoll
        <3>2. CASE ReadPoll(t)
            BY <1>0, <3>2 DEF ReadPoll
        <3>3. CASE Publish(t) \/ PollFails(t)
            BY <1>0, <3>3, IdleIsIdle DEF Publish, PollFails
        <3> QED
            BY <1>10, <3>1, <3>2, <3>3 DEF PollStep
    <2> QED
        BY <2>1, <2>2 DEF PollIsTrue
<1> QED
    BY <1>4, <1>5, <1>6, <1>7, <1>8, <1>9, <1>10 DEF Next, CommandStep

LEMMA WindowsStayFitting ==
    ASSUME TypeOK, WindowFits, [Next]_vars
    PROVE  WindowFits'
<1>0. /\ window \in [Relays -> 0 .. Settle] /\ quiet \in [Relays -> 0 .. Settle]
      /\ Settle \in Nat \ {0}
    BY SettleTyped DEF TypeOK
<1>1. ASSUME UNCHANGED <<window, quiet>> PROVE WindowFits'
    BY <1>1 DEF WindowFits
<1>2. ASSUME NEW got \in [Relays -> RelayState \cup {Unknown}], Observe(got),
             UNCHANGED quiet
      PROVE  WindowFits'
    <2>1. \A r \in Relays : window'[r] = 0 \/ window'[r] = window[r]
        BY <1>2 DEF Observe, TypeOK
    <2> QED
        BY <1>0, <1>2, <2>1 DEF WindowFits
<1>3. ASSUME NEW c \in Commands,
             \/ \E r \in Relays, v \in RelayState : Command(c, r, v)
             \/ Execute(c) \/ CommandFails(c)
      PROVE  WindowFits'
    BY <1>1, <1>3 DEF Command, Execute, CommandFails
<1>4. ASSUME NEW c \in Commands, Answered(c) PROVE WindowFits'
    <2>1. /\ window' = [window EXCEPT ![cmd[c].relay] = Settle]
          /\ quiet' = [quiet EXCEPT ![cmd[c].relay] = 0]
        BY <1>4 DEF Answered
    <2> QED
        BY <1>0, <2>1 DEF WindowFits
<1>5. CASE Callback
    <2>1. \A r \in Relays :
            \/ window'[r] = 0 /\ quiet'[r] = Settle
            \/ window'[r] = window[r] /\ quiet'[r] = quiet[r]
        BY <1>5 DEF Callback, Predict
    <2> QED
        BY <1>0, <2>1 DEF WindowFits
<1>6. CASE \/ Press \/ CallbackLost \/ UNCHANGED vars
           \/ \E r \in Relays : MovedElsewhere(r)
           \/ \E b \in Bindings : Rebound(b)
    BY <1>1, <1>6 DEF Press, CallbackLost, vars, MovedElsewhere, Rebound
<1>7. ASSUME NEW t \in Tasks, PollStep(t) \/ PollFails(t) PROVE WindowFits'
    <2>1. CASE StartPoll(t) \/ ReadPoll(t)
        BY <1>1, <2>1 DEF StartPoll, ReadPoll
    <2>2. CASE Publish(t)
        <3>1. job[t].pc = "read" /\ Observe(job[t].got) /\ UNCHANGED quiet
            BY <2>2 DEF Publish
        <3>2. job[t].got \in [Relays -> RelayState \cup {Unknown}]
            BY <3>1, IdleIsIdle, JobTyped DEF Job
        <3> QED
            BY <1>2, <3>1, <3>2
    <2>3. CASE PollFails(t)
        <3>1. polled \in [Relays -> RelayState \cup {Unknown}]
            BY DEF TypeOK
        <3>2. CASE available
            BY <1>2, <2>3, <3>1, <3>2 DEF PollFails
        <3>3. CASE ~available
            BY <1>1, <2>3, <3>3 DEF PollFails
        <3> QED
            BY <3>2, <3>3
    <2> QED
        BY <1>7, <2>1, <2>2, <2>3 DEF PollStep
<1>8. CASE Tick
    <2> SUFFICES ASSUME NEW r \in Relays PROVE window'[r] + quiet'[r] <= Settle
        BY DEF WindowFits
    <2>1. /\ window'[r] = IF window[r] > 0 THEN window[r] - 1 ELSE 0
          /\ quiet'[r] = IF quiet[r] < Settle THEN quiet[r] + 1 ELSE Settle
        BY <1>8 DEF Tick
    <2>2. window[r] + quiet[r] <= Settle
        BY DEF WindowFits
    <2>3. window[r] \in 0 .. Settle /\ quiet[r] \in 0 .. Settle
        BY <1>0
    <2> QED
        BY <1>0, <2>1, <2>2, <2>3
<1> QED
    BY <1>3, <1>4, <1>5, <1>6, <1>7, <1>8 DEF Next, CommandStep

LEMMA StaleStaysGuarded ==
    ASSUME NoOverlap, TypeOK, StaleIsGuarded, [Next]_vars
    PROVE  StaleIsGuarded'
<1>0. /\ job \in [Tasks -> Job \cup {Idle}] /\ cmd \in [Commands -> Cmd \cup {Idle}]
      /\ window \in [Relays -> 0 .. Settle] /\ quiet \in [Relays -> 0 .. Settle]
      /\ Settle \in Nat \ {0}
    BY SettleTyped DEF TypeOK
<1> DEFINE Stale(t, r) ==
        /\ job[t].pc = "read" /\ r \in job[t].before /\ quiet[r] < Settle
        /\ r \notin moved /\ ~ \E c \in Commands : Executed(c, r)
<1> SUFFICES ASSUME NEW t \in Tasks, NEW r \in Relays, Stale(t, r)'
             PROVE  window'[r] + quiet'[r] = Settle
    BY DEF StaleIsGuarded
<1>1. Stale(t, r) => window[r] + quiet[r] = Settle
    BY DEF StaleIsGuarded
(* Nothing but a command makes a refresh stale on the relay. *)
<1>2. ASSUME UNCHANGED <<window, quiet>>, Stale(t, r)
      PROVE  window'[r] + quiet'[r] = Settle
    BY <1>1, <1>2
<1>3. ASSUME NEW R \in SUBSET Relays, job' = Outdated(R),
             UNCHANGED <<window, quiet, cmd>>, moved \subseteq moved'
      PROVE  window'[r] + quiet'[r] = Settle
    <2>1. job[t].pc = "read"
        BY <1>3 DEF Outdated
    <2>2. job[t] \in Job
        BY <2>1, IdleIsIdle, JobTyped
    <2>3. job'[t].before = job[t].before
        BY <1>3, <2>1, <2>2 DEF Outdated, Job
    <2>4. Stale(t, r)
        BY <1>3, <2>1, <2>3 DEF Executed
    <2> QED
        BY <1>2, <1>3, <2>4
<1>4. ASSUME NEW c \in Commands, NEW s \in Relays, NEW v \in RelayState, Command(c, s, v)
      PROVE  window'[r] + quiet'[r] = Settle
    <2>1. /\ cmd[c] = Idle /\ UNCHANGED <<window, quiet, job, moved>>
          /\ cmd' = [cmd EXCEPT ![c] = [pc |-> "sent", relay |-> s, on |-> v]]
        BY <1>4 DEF Command
    <2>2. \A d \in Commands : Executed(d, r) => Executed(d, r)'
        BY <1>0, <2>1, IdleIsIdle DEF Executed
    <2>3. Stale(t, r)
        BY <2>1, <2>2
    <2> QED
        BY <1>2, <2>1, <2>3
<1>5. ASSUME NEW c \in Commands, Execute(c)
      PROVE  window'[r] + quiet'[r] = Settle
    <2> DEFINE s == cmd[c].relay
    <2>1. /\ cmd[c].pc = "sent" /\ moved' = moved \ {s}
          /\ cmd' = [cmd EXCEPT ![c].pc = "executed"]
          /\ job' = [u \in Tasks |->
                    IF job[u].pc = "read"
                        THEN [job[u] EXCEPT !.before = @ \cup {s},
                                            !.current = @ \ {s}]
                        ELSE job[u]]
          /\ UNCHANGED <<window, quiet>>
        BY <1>5 DEF Execute
    <2>2. cmd[c] \in Cmd
        BY <2>1, IdleIsIdle, CommandTyped
    <2>3. /\ cmd'[c].pc = "executed" /\ cmd'[c].relay = s
          /\ \A d \in Commands : d # c => cmd'[d] = cmd[d]
        BY <1>0, <2>1, <2>2 DEF Cmd
    <2>4. r # s
        BY <2>3 DEF Executed
    <2>5. \A d \in Commands : Executed(d, r) => Executed(d, r)'
        BY <2>1, <2>3 DEF Executed
    <2>6. job[t].pc = "read"
        BY <2>1
    <2>7. job[t] \in Job
        BY <2>6, IdleIsIdle, JobTyped
    <2>8. job'[t].before = job[t].before \cup {s}
        BY <2>1, <2>6, <2>7 DEF Job
    <2>9. Stale(t, r)
        BY <2>1, <2>4, <2>5, <2>6, <2>8
    <2> QED
        BY <1>2, <2>1, <2>9
<1>6. ASSUME NEW c \in Commands, Answered(c)
      PROVE  window'[r] + quiet'[r] = Settle
    <2> DEFINE s == cmd[c].relay
    <2>1. /\ window' = [window EXCEPT ![s] = Settle]
          /\ quiet' = [quiet EXCEPT ![s] = 0]
          /\ cmd[c].pc = "executed" /\ cmd' = [cmd EXCEPT ![c] = Idle]
          /\ UNCHANGED <<job, moved>>
        BY <1>6 DEF Answered
    <2>2. CASE r = s
        BY <1>0, <2>1, <2>2
    <2>3. CASE r # s
        <3>1. \A d \in Commands : Executed(d, r) => Executed(d, r)'
            BY <1>0, <2>1, <2>3 DEF Executed
        <3>2. window'[r] = window[r] /\ quiet'[r] = quiet[r]
            BY <1>0, <2>1, <2>3
        <3> QED
            BY <1>1, <2>1, <3>1, <3>2
    <2> QED
        BY <2>2, <2>3
<1>7. ASSUME NEW c \in Commands, CommandFails(c)
      PROVE  window'[r] + quiet'[r] = Settle
    <2>1. /\ moved' = IF cmd[c].pc = "executed" THEN moved \cup {cmd[c].relay} ELSE moved
          /\ cmd' = [cmd EXCEPT ![c] = Idle]
          /\ UNCHANGED <<job, window, quiet>>
        BY <1>7 DEF CommandFails
    <2>2. ~Executed(c, r)
        BY <2>1 DEF Executed
    <2>3. \A d \in Commands : Executed(d, r) => Executed(d, r)'
        BY <1>0, <2>1, <2>2 DEF Executed
    <2>4. Stale(t, r)
        BY <2>1, <2>3
    <2> QED
        BY <1>2, <2>1, <2>4
<1>8. CASE Press
    <2>1. Driven \in SUBSET Relays
        BY DEF Driven
    <2> QED
        BY <1>3, <1>8, <2>1 DEF Press
<1>9. CASE Callback
    <2>1. /\ UNCHANGED <<job, cmd, moved>>
          /\ \/ quiet'[r] = Settle
             \/ window'[r] = window[r] /\ quiet'[r] = quiet[r]
        BY <1>9 DEF Callback, Predict
    <2>2. quiet'[r] < Settle
        OBVIOUS
    <2>3. window'[r] = window[r] /\ quiet'[r] = quiet[r]
        BY <1>0, <2>1, <2>2
    <2>4. Stale(t, r)
        BY <2>1, <2>3 DEF Executed
    <2> QED
        BY <1>1, <2>3, <2>4
<1>10. ASSUME UNCHANGED <<job, cmd, moved, window, quiet>>
       PROVE  window'[r] + quiet'[r] = Settle
    <2>1. Stale(t, r)
        BY <1>10 DEF Executed
    <2> QED
        BY <1>2, <1>10, <2>1
<1>11. ASSUME NEW s \in Relays, MovedElsewhere(s)
       PROVE  window'[r] + quiet'[r] = Settle
    BY <1>3, <1>11 DEF MovedElsewhere
(* The only refresh: it is not stale when it has just read or has ended. *)
<1>12. ASSUME NEW u \in Tasks, PollStep(u) \/ PollFails(u)
       PROVE  FALSE
    <2>1. u = t
        BY DEF NoOverlap
    <2>2. CASE StartPoll(t)
        BY <1>0, <2>2 DEF StartPoll
    <2>3. CASE ReadPoll(t)
        BY <1>0, <2>3 DEF ReadPoll
    <2>4. CASE Publish(t) \/ PollFails(t)
        BY <1>0, <2>4, IdleIsIdle DEF Publish, PollFails
    <2> QED
        BY <1>12, <2>1, <2>2, <2>3, <2>4 DEF PollStep
<1>13. CASE Tick
    <2>1. /\ UNCHANGED <<job, cmd, moved>>
          /\ window'[r] = IF window[r] > 0 THEN window[r] - 1 ELSE 0
          /\ quiet'[r] = IF quiet[r] < Settle THEN quiet[r] + 1 ELSE Settle
        BY <1>13 DEF Tick
    <2>2. quiet'[r] < Settle /\ window[r] \in 0 .. Settle /\ quiet[r] \in 0 .. Settle
        BY <1>0
    <2>3. quiet[r] < Settle /\ quiet'[r] = quiet[r] + 1
        BY <1>0, <2>1, <2>2
    <2>4. Stale(t, r)
        BY <2>1, <2>3 DEF Executed
    <2>5. window[r] + quiet[r] = Settle
        BY <1>1, <2>4
    <2> QED
        BY <1>0, <2>1, <2>2, <2>3, <2>5
<1>14. CASE \/ CallbackLost \/ UNCHANGED vars
            \/ \E b \in Bindings : Rebound(b)
    BY <1>10, <1>14 DEF CallbackLost, vars, Rebound
<1> QED
    BY <1>4, <1>5, <1>6, <1>7, <1>8, <1>9, <1>11, <1>12, <1>13, <1>14
    DEF Next, CommandStep

(* A refresh that has read and ends with the device available is published. *)
LEMMA OnlySuccessPublishes ==
    ASSUME TypeOK, Next, NEW t \in Tasks,
           job[t].pc = "read", job'[t] = Idle, available'
    PROVE  Publish(t)
<1>0. job[t] \in Job /\ job \in [Tasks -> Job \cup {Idle}]
    BY IdleIsIdle, JobTyped DEF TypeOK
<1>1. job' # job
    BY IdleIsIdle
<1>2. ASSUME NEW R \in SUBSET Relays, job' = Outdated(R) PROVE FALSE
    <2>1. job'[t] = [job[t] EXCEPT !.current = @ \ R]
        BY <1>2 DEF Outdated
    <2>2. job'[t].pc = "read"
        BY <1>0, <2>1 DEF Job
    <2> QED
        BY <2>2, IdleIsIdle
<1>3. ~ \E c \in Commands : Execute(c)
    <2> SUFFICES ASSUME NEW c \in Commands, Execute(c) PROVE FALSE
        OBVIOUS
    <2>1. job'[t] = [job[t] EXCEPT !.before = @ \cup {cmd[c].relay},
                                   !.current = @ \ {cmd[c].relay}]
        BY DEF Execute
    <2>2. job'[t].pc = "read"
        BY <1>0, <2>1 DEF Job
    <2> QED
        BY <2>2, IdleIsIdle
<1>4. ~Press
    BY <1>2 DEF Press, Driven
<1>5. ~ \E s \in Relays : MovedElsewhere(s)
    BY <1>2 DEF MovedElsewhere
<1>6. ~(\/ Callback \/ CallbackLost \/ Tick
        \/ \E b \in Bindings : Rebound(b))
    BY <1>1 DEF Callback, Predict, CallbackLost, Tick, Rebound
<1>7. ~ \E c \in Commands :
            \/ \E s \in Relays, v \in RelayState : Command(c, s, v)
            \/ Answered(c) \/ CommandFails(c)
    BY <1>1 DEF Command, Answered, CommandFails
<1>8. PICK u \in Tasks : PollStep(u) \/ PollFails(u)
    BY <1>3, <1>4, <1>5, <1>6, <1>7 DEF Next, CommandStep
<1>9. ~StartPoll(u) /\ ~ReadPoll(u)
    <2>1. ASSUME StartPoll(u) PROVE FALSE
        <3>1. job[u] = Idle /\ t # u
            BY <1>0, <2>1, IdleIsIdle DEF StartPoll
        <3> QED
            BY <1>0, <2>1, <3>1, IdleIsIdle DEF StartPoll
    <2>2. ASSUME ReadPoll(u) PROVE FALSE
        <3>1. job[u].pc = "reading" /\ t # u
            BY <1>0, <2>2 DEF ReadPoll
        <3> QED
            BY <1>0, <2>2, <3>1, IdleIsIdle DEF ReadPoll
    <2> QED
        BY <2>1, <2>2
<1>10. ~PollFails(u)
    BY DEF PollFails
<1>11. Publish(u)
    BY <1>8, <1>9, <1>10 DEF PollStep
<1>12. u = t
    BY <1>0, <1>11, IdleIsIdle DEF Publish
<1> QED
    BY <1>11, <1>12

LEMMA PollsAlways == Spec => []PInv
<1>1. Init => PInv
    BY SettleTyped, IdleIsIdle DEF Init, PInv, PollIsTrue, WindowFits
<1>2. IInv /\ PInv /\ [Next]_vars => PInv'
    BY PollsStayTrue, WindowsStayFitting DEF IInv, PInv
<1> QED
    BY <1>1, <1>2, Always, PTL DEF Spec

-----------------------------------------------------------------------------
(* The relays, their windows and the refreshes keep their types, and a
   window is only ever open on a state that is known. *)
THEOREM TypeCorrect == Spec => []TypeOK
<1>1. IInv => TypeOK
    BY DEF IInv
<1> QED
    BY <1>1, Always, PTL

(* Within the settle window of a command the entity shows where the relay
   is, whatever is polled, called back or sent to the other relays. *)
THEOREM CommandsAreShown == Spec => []ConfirmedCommandIsShown
<1>1. IInv => ConfirmedCommandIsShown
    <2> SUFFICES ASSUME IInv, NEW r \in Relays, window[r] > 0, r \notin moved,
                        ~Commanding(r)
                 PROVE  Shown(r) = relay[r]
        BY DEF ConfirmedCommandIsShown
    <2>1. \A c \in Commands : ~Executed(c, r)
        BY DEF Commanding, Executed, Idle
    <2>2. state[r] = relay[r]
        BY <2>1 DEF IInv, WindowIsTrue
    <2>3. state[r] # Unknown
        BY DEF IInv, TypeOK
    <2> QED
        BY <2>2, <2>3 DEF Shown
<1> QED
    BY <1>1, Always, PTL

(* The poll after a wrong prediction overrules it, and so does any poll no
   command has been answered for Settle before. *)
THEOREM FreshPollsAreBelieved == Spec => FreshPollIsBelieved
<1>1. IInv /\ PInv /\ [Next]_vars =>
        [\A t \in Tasks, r \in Relays :
            (/\ job[t].pc = "read" /\ job'[t] = Idle /\ available'
             /\ r \in job[t].current /\ quiet[r] >= Settle)
                => Shown(r)' = relay[r]]_vars
    <2> SUFFICES ASSUME IInv, PInv, Next, NEW t \in Tasks, NEW r \in Relays,
                        job[t].pc = "read", job'[t] = Idle, available',
                        r \in job[t].current, quiet[r] >= Settle
                 PROVE  Shown(r)' = relay[r]
        OBVIOUS
    <2>0. TypeOK
        BY DEF IInv
    <2>1. job[t] \in Job /\ job \in [Tasks -> Job \cup {Idle}]
        BY <2>0, IdleIsIdle, JobTyped DEF TypeOK
    <2>2. Publish(t)
        BY <2>0, OnlySuccessPublishes
    <2>3. job[t].got[r] = relay[r] /\ relay[r] \in RelayState
        BY <2>0 DEF PInv, PollIsTrue, TypeOK
    <2>4. window[r] = 0
        <3>1. window[r] + quiet[r] <= Settle
            BY DEF PInv, WindowFits
        <3>2. window[r] \in Nat /\ quiet[r] \in Nat /\ Settle \in Nat
            BY <2>0, SettleTyped DEF TypeOK
        <3> QED
            BY <3>1, <3>2
    <2>5. state'[r] = relay[r]
        <3>1. Observe(job[t].got)
            BY <2>2 DEF Publish
        <3>2. job[t].got[r] # Unknown
            BY <2>3 DEF RelayState, On, Off, Unknown
        <3>3. ~Ignored(r, job[t].got[r])
            BY <2>4 DEF Ignored
        <3> QED
            BY <2>3, <3>1, <3>2, <3>3 DEF Observe
    <2>6. relay[r] # Unknown
        BY <2>3 DEF RelayState, On, Off, Unknown
    <2> QED
        BY <2>5, <2>6 DEF Shown
<1> QED
    BY <1>1, Always, PollsAlways, PTL DEF Spec, FreshPollIsBelieved

(* "A poll in flight when a command lands must not resurrect the old state":
   for as long as refreshes do not overlap, whatever is sent, pressed,
   bound or lost meanwhile. *)
THEOREM StalePollsAreIgnored ==
    ASSUME NoOverlap
    PROVE  Spec => StalePollDoesNotResurrect
<1>1. Init => StaleIsGuarded
    BY IdleIsIdle DEF Init, StaleIsGuarded
<1>2. IInv /\ StaleIsGuarded /\ [Next]_vars => StaleIsGuarded'
    BY StaleStaysGuarded DEF IInv
<1>3. Spec => []StaleIsGuarded
    BY <1>1, <1>2, Always, PTL DEF Spec
<1>4. IInv /\ StaleIsGuarded /\ [Next]_vars =>
        [\A t \in Tasks, r \in Relays :
            (/\ job[t].pc = "read" /\ job'[t] = Idle /\ available'
             /\ r \in job[t].before /\ quiet[r] < Settle
             /\ r \notin moved /\ ~Commanding(r))
                => Shown(r)' = Shown(r)]_vars
    <2> SUFFICES ASSUME IInv, StaleIsGuarded, Next, NEW t \in Tasks, NEW r \in Relays,
                        job[t].pc = "read", job'[t] = Idle, available',
                        r \in job[t].before, quiet[r] < Settle,
                        r \notin moved, ~Commanding(r)
                 PROVE  Shown(r)' = Shown(r)
        OBVIOUS
    <2>0. TypeOK
        BY DEF IInv
    <2>1. Publish(t)
        BY <2>0, OnlySuccessPublishes
    <2>2. window[r] + quiet[r] = Settle
        BY IdleIsIdle DEF StaleIsGuarded, Commanding, Executed
    <2>3. window[r] > 0
        BY <2>0, <2>2, SettleTyped DEF TypeOK
    <2>4. state[r] # Unknown
        BY <2>0, <2>3 DEF TypeOK
    <2>5. state'[r] = state[r]
        <3>1. Observe(job[t].got)
            BY <2>1 DEF Publish
        <3>2. state[r] \in RelayState
            BY <2>0, <2>4 DEF TypeOK
        <3> QED
            BY <2>3, <2>4, <3>1, <3>2 DEF Observe, Ignored
    <2> QED
        BY <2>4, <2>5 DEF Shown
<1> QED
    BY <1>3, <1>4, Always, PTL DEF Spec, StalePollDoesNotResurrect

(* A relay no press moves is left alone: of a binding that the snapshot
   knows, the entities react that the device lets it drive and no others,
   relay 0 standing in for a slot that does not say. *)
THEOREM SiblingsAreLeftAlone == Spec => SiblingsDoNotReact
<1>1. IInv /\ [Next]_vars =>
        [calls' = calls - 1 /\ known = {bound}
            => \A r \in Relays \ Driven : Shown(r)' = Shown(r)]_vars
    <2> SUFFICES ASSUME IInv, Next, calls' = calls - 1, known = {bound},
                        NEW r \in Relays \ Driven
                 PROVE  Shown(r)' = Shown(r)
        OBVIOUS
    <2>0. calls \in Nat /\ bound \in Bindings /\ state \in [Relays -> RelayState \cup {Unknown}]
        BY SettleTyped DEF IInv, TypeOK
    <2>1. calls' # calls /\ calls' # calls + 1
        BY <2>0
    <2>2. Callback \/ CallbackLost
        BY <2>1 DEF Next, CommandStep, PollStep, Command, Execute, Answered,
                    CommandFails, Press, MovedElsewhere, Rebound, StartPoll,
                    ReadPoll, Publish, PollFails, Tick
    <2>3. CASE CallbackLost
        BY <2>3 DEF CallbackLost, Shown
    <2>4. CASE Callback
        <3>1. Predicted(r) = Unknown
            <4>1. CASE Targets(bound, r)
                <5>1. bound.type = "other"
                    BY <4>1 DEF Targets, Driven
                <5>2. (CHOOSE b \in known : TRUE) = bound
                    OBVIOUS
                <5> QED
                    BY <4>1, <5>1, <5>2 DEF Predicted, Outcome
            <4>2. CASE ~Targets(bound, r)
                BY <4>2 DEF Predicted
            <4> QED
                BY <4>1, <4>2
        <3>2. r \notin Foreseen
            BY <3>1 DEF Foreseen
        <3>3. state'[r] = state[r] /\ polled' = polled
            BY <2>4, <3>2 DEF Callback, Predict
        <3> QED
            BY <3>3 DEF Shown
    <2> QED
        BY <2>2, <2>3, <2>4
<1> QED
    BY <1>1, Always, PTL DEF Spec, SiblingsDoNotReact
=============================================================================
