---------------------------- MODULE ServerProofs ----------------------------
(***************************************************************************)
(* What holds of the listener for any clients and any limits: its counters *)
(* are what they count, it uses the throttle as the throttle is meant to   *)
(* be used, and a stop waits for what was in flight.                       *)
(***************************************************************************)
EXTENDS Server, ThrottleProofs

\* The sessions that keep a connection of the pool.
Holding == {c \in Clients : holds[c]}

\* The values of the variables that are not counters.
Values ==
    /\ pc \in [Clients -> Labels]
    /\ socket \in [Clients -> {"open", "cut"}]
    /\ holds \in [Clients -> BOOLEAN]
    /\ acceptor \in {"accept", "accepted", "join", "returned"}
    /\ drainer \in {"waiting", "check", "poll", "sweep", "done"}
    /\ {todo, promised, late} \subseteq SUBSET Clients
    /\ stopping \in BOOLEAN

\* The counters are what they count: handlers that run, statements between
\* the two ends of active(), connections in and out of the pool.
Counted ==
    /\ numClients = Cardinality(Handlers)
    /\ numActive = Cardinality(Active)
    /\ free \in Nat /\ free + Cardinality(Holding) = MaxOpen

\* Where a handler is says what it is doing in the throttle, and whether its
\* session has a connection.
Agreement ==
    \A c \in Clients :
       /\ pc[c] = "throttle" <=> at[c] \in {"try", "wait"}
       /\ at[c] = "in" => pc[c] \in {"connect", "run"}
       /\ pc[c] = "run" => holds[c]
       /\ holds[c] => pc[c] # "away"

\* Until the sweep nothing is cut, and what was promised is in flight or has
\* its answer to write; from then on only answers are left.
Promise ==
    /\ promised \subseteq Active \cup {c \in Clients : pc[c] = "answer"}
    /\ ~stopping => drainer = "waiting" /\ promised = {}
    /\ ~Drain => promised = {}
    /\ drainer \in {"waiting", "check", "poll"} =>
          \A c \in Clients : socket[c] = "open"
    /\ drainer \in {"sweep", "done"} => promised \cap Active = {}

ServerInv == ThrottleInv /\ Values /\ Counted /\ Agreement /\ Promise

-----------------------------------------------------------------------------
(* Counting *)

\* Any set of clients can be counted.
LEMMA ClientsFinite ==
    ASSUME NEW S \in SUBSET Clients
    PROVE  /\ IsFiniteSet(S) /\ Cardinality(S) \in Nat
           /\ Cardinality(S) <= Cardinality(Clients)
           /\ Cardinality(Clients) \in Nat
           /\ Cardinality(S) = 0 => S = {}
  BY QueriesAssumption, FS_Subset, FS_CardinalityType, FS_EmptySet

\* A client more, ...
LEMMA OneMore ==
    ASSUME NEW S \in SUBSET Clients, NEW c \in Clients \ S
    PROVE  Cardinality(S \cup {c}) = Cardinality(S) + 1
  BY ClientsFinite, FS_AddElement

\* ... or less.
LEMMA OneLess ==
    ASSUME NEW S \in SUBSET Clients, NEW c \in S
    PROVE  Cardinality(S \ {c}) = Cardinality(S) - 1
  BY ClientsFinite, FS_RemoveElement

\* The invariant says what TypeOK does.
LEMMA InvTypeOK == ServerInv => TypeOK
<1> SUFFICES ASSUME ServerInv PROVE TypeOK
  OBVIOUS
<1>1. /\ Cardinality(Handlers) \in 0..Cardinality(Clients)
      /\ Cardinality(Active) \in 0..Cardinality(Clients)
      /\ Cardinality(Holding) \in Nat
  BY ClientsFinite DEF Handlers, Active, Holding
<1>2. free \in 0..MaxOpen
  BY <1>1, ServerAssumption DEF ServerInv, Counted
<1> QED
  BY <1>1, <1>2 DEF ServerInv, Values, Counted, TypeOK

\* A socket is cut while its statement runs only if nothing was promised.
LEMMA InvDrain == ServerInv => DrainRespected
  BY DEF ServerInv, Values, Promise, DrainRespected, Active

-----------------------------------------------------------------------------
(* The server is a user of the throttle *)

\* A step of the server is a step of the throttle, or does not touch it.
LEMMA StepOfThrottle == [Next]_vars => [ThrottleNext]_throttleVars
<1> SUFFICES ASSUME [Next]_vars PROVE [ThrottleNext]_throttleVars
  OBVIOUS
<1> USE DEF throttleVars, ThrottleNext
<1>1. ASSUME NEW c \in Clients, HandlerStep(c) PROVE [ThrottleNext]_throttleVars
  BY <1>1 DEF HandlerStep, GetsSlot, WaitsForSlot, IsRefused, Connects, ConnectFails,
              Executed, GivesSlotBack
<1>2. ASSUME NEW c \in Clients, ClientStep(c) PROVE [ThrottleNext]_throttleVars
  BY <1>2 DEF ClientStep, Statement, Unthrottled, AnsweredAtOnce, Answers, Leaves
<1>3. CASE AcceptLoop \/ Accept \/ Stop \/ Stopped \/ UNCHANGED vars
  BY <1>3 DEF AcceptLoop, Accept, Refuse, Register, AcceptFails, Return, Stop,
              Stopped, vars
<1>4. CASE Drainer
  BY <1>4 DEF Drainer, CloseListener, CheckActive, PollFindsNone, DrainTimesOut,
              SweepEnds, ClosesSocket
<1>5. CASE Reload
  BY <1>5 DEF Reload
<1> QED
  BY <1>1, <1>2, <1>3, <1>4, <1>5 DEF Next

\* The listener uses the throttle as its specification allows, so what holds
\* of the throttle holds under the listener.
THEOREM UsesThrottle == Spec => ThrottleSpec
<1>1. Init => ThrottleInit
  BY DEF Init
<1>2. [Next]_vars => [ThrottleNext]_throttleVars
  BY StepOfThrottle
<1> QED
  BY <1>1, <1>2, PTL DEF Spec, ThrottleSpec

\* At most max_concurrent executions hold a slot of one generation of a rule,
\* however statements wait, fail and are cut off (throttle.go:183-203).
THEOREM SlotsAreBounded == Spec => []SlotsBounded
<1>1. ThrottleInv => SlotsBounded
  BY DEF ThrottleInv
<1> QED
  BY <1>1, UsesThrottle, ThrottleCorrect, PTL

-----------------------------------------------------------------------------
(* The invariant of the listener *)

\* The invariant holds at first.
LEMMA ServerInit == Init => ServerInv
<1> SUFFICES ASSUME Init PROVE ServerInv
  OBVIOUS
<1>1. ThrottleInv
  BY ThrottleInvInit DEF Init
<1>2. Values
  BY DEF Init, Values, Labels
<1>3. Handlers = {} /\ Active = {} /\ Holding = {}
  BY DEF Init, Handlers, Active, Holding, Registered, InHandler
<1>4. Counted
  BY <1>3, FS_EmptySet, ServerAssumption DEF Init, Counted
<1>5. Agreement /\ Promise
  BY DEF Init, ThrottleInit, Agreement, Promise
<1> QED
  BY <1>1, <1>2, <1>4, <1>5 DEF ServerInv

\* The steps that move no handler: the accept loop without its Register, the
\* drainer, signals and reloads.
Aside == \/ Accept \/ Refuse \/ AcceptFails \/ Return \/ Drainer \/ Stop \/ Reload
         \/ Stopped \/ UNCHANGED vars

\* The steps, by the goroutine that takes them.
LEMMA StepCases ==
    ASSUME [Next]_vars
    PROVE  \/ Aside
           \/ \E c \in Clients : Register(c) \/ HandlerStep(c) \/ ClientStep(c)
  BY DEF Next, AcceptLoop, Aside

\* The values keep their types.
LEMMA ValuesStep == ServerInv /\ [Next]_vars => Values'
<1> SUFFICES ASSUME ServerInv, [Next]_vars PROVE Values'
  OBVIOUS
<1> USE DEF ServerInv, Values, Labels, Registered, InHandler, Goto
<1>1. CASE Aside
  <2>1. CASE Drainer
    BY <2>1 DEF Drainer, CloseListener, CheckActive, PollFindsNone, DrainTimesOut,
                SweepEnds, ClosesSocket, StartSweep, Handlers, handlerVars
  <2> QED
    BY <1>1, <2>1 DEF Aside, Accept, Refuse, AcceptFails, Return, Stop, Stopped,
                      Reload, vars, handlerVars, stopVars, Active
<1>2. ASSUME NEW c \in Clients, Register(c) \/ ClientStep(c) PROVE Values'
  <2>1. ASSUME NEW l \in InHandler, Begins(c, l) PROVE Values'
    BY <2>1 DEF Begins, stopVars
  <2>2. CASE Register(c)
    BY <2>2 DEF Register
  <2>3. CASE (\E q \in Queries : Statement(c, q)) \/ Unthrottled(c)
    BY <2>1, <2>3 DEF Statement, Unthrottled
  <2>4. CASE AnsweredAtOnce(c) \/ Answers(c)
    BY <2>4 DEF AnsweredAtOnce, Answers, stopVars
  <2>5. CASE Leaves(c)
    BY <2>5 DEF Leaves
  <2> QED
    BY <1>2, <2>2, <2>3, <2>4, <2>5 DEF ClientStep
<1>3. ASSUME NEW c \in Clients, HandlerStep(c) PROVE Values'
  BY <1>3 DEF HandlerStep, GetsSlot, WaitsForSlot, IsRefused, Connects, ConnectFails,
              Executed, Returns, stopVars, handlerVars
<1> QED
  BY <1>1, <1>2, <1>3, StepCases

\* Handlers and the throttle stay in agreement.
LEMMA AgreementStep == ServerInv /\ [Next]_vars => Agreement'
<1> SUFFICES ASSUME ServerInv, [Next]_vars PROVE Agreement'
  OBVIOUS
<1> USE DEF ServerInv, ThrottleInv, ThrottleTypes, Values, Agreement, Goto, Enters
<1>1. CASE Aside
  <2>1. UNCHANGED <<pc, at, holds>>
    BY <1>1 DEF Aside, Accept, Refuse, AcceptFails, Return, Stop, Stopped, Reload,
                SetRules, Drainer, CloseListener, CheckActive, PollFindsNone,
                DrainTimesOut, SweepEnds, ClosesSocket, vars, handlerVars, throttleVars
  <2> QED
    BY <2>1
<1>2. ASSUME NEW c \in Clients, Register(c) PROVE Agreement'
  BY <1>2 DEF Register, throttleVars
<1>3. ASSUME NEW c \in Clients, ClientStep(c) PROVE Agreement'
  <2>1. ASSUME NEW q \in Queries, Statement(c, q) PROVE Agreement'
    <3>1. \/ at' = [at EXCEPT ![c] = "in"] /\ pc' = [pc EXCEPT ![c] = "connect"]
          \/ at' = [at EXCEPT ![c] = "try"] /\ pc' = [pc EXCEPT ![c] = "throttle"]
      BY <2>1 DEF Statement, Begins, Acquire, Unmatched, Untracked, LookedUp
    <3> QED
      BY <2>1, <3>1 DEF Statement, Begins
  <2>2. CASE Unthrottled(c)
    BY <2>2 DEF Unthrottled, Begins, throttleVars
  <2>3. CASE AnsweredAtOnce(c) \/ Answers(c) \/ Leaves(c)
    BY <2>3 DEF AnsweredAtOnce, Answers, Leaves, throttleVars
  <2> QED
    BY <1>3, <2>1, <2>2, <2>3 DEF ClientStep
<1>4. ASSUME NEW c \in Clients, HandlerStep(c) PROVE Agreement'
  <2>1. CASE GetsSlot(c) \/ WaitsForSlot(c) \/ IsRefused(c)
    BY <2>1 DEF GetsSlot, WaitsForSlot, IsRefused, TakeSlot, StartWaiting, Busy,
                Returns, handlerVars
  <2>2. CASE Connects(c)
    BY <2>2 DEF Connects, throttleVars
  <2>3. CASE ConnectFails(c) \/ \E keeps \in BOOLEAN : Executed(c, keeps)
    BY <2>3 DEF ConnectFails, Executed, Returns, GivesSlotBack, Release, throttleVars
  <2> QED
    BY <1>4, <2>1, <2>2, <2>3 DEF HandlerStep
<1> QED
  BY <1>1, <1>2, <1>3, <1>4, StepCases

\* How a step of one handler changes the sets that are counted.
LEMMA CountedStep == ServerInv /\ [Next]_vars => Counted'
<1> SUFFICES ASSUME ServerInv, [Next]_vars PROVE Counted'
  OBVIOUS
<1> USE DEF ServerInv, Values, Goto
<1>0. /\ Handlers \in SUBSET Clients /\ Active \in SUBSET Clients
      /\ Holding \in SUBSET Clients
      /\ Cardinality(Handlers) \in Nat /\ Cardinality(Active) \in Nat
      /\ Cardinality(Holding) \in Nat /\ MaxOpen \in Nat
  BY ClientsFinite, ServerAssumption DEF Handlers, Active, Holding
<1>1. CASE Aside
  <2>1. UNCHANGED <<pc, holds, free, numClients, numActive>>
    BY <1>1 DEF Aside, Accept, Refuse, AcceptFails, Return, Stop, Stopped, Reload,
                Drainer, CloseListener, CheckActive, PollFindsNone, DrainTimesOut,
                SweepEnds, ClosesSocket, vars, handlerVars
  <2> QED
    BY <2>1 DEF Counted, Handlers, Active, Holding
<1>2. ASSUME NEW c \in Clients, Register(c) PROVE Counted'
  <2>1. /\ Handlers' = Handlers \cup {c} /\ c \notin Handlers
        /\ Active' = Active /\ Holding' = Holding
    BY <1>2 DEF Register, Handlers, Active, Holding, Registered, InHandler
  <2> QED
    BY <1>0, <1>2, <2>1, OneMore DEF Register, Counted
<1>3. ASSUME NEW c \in Clients, NEW l \in {"throttle", "connect"}, Begins(c, l)
      PROVE  Counted'
  <2>1. /\ Active' = Active \cup {c} /\ c \notin Active
        /\ Handlers' = Handlers /\ Holding' = Holding
    BY <1>3 DEF Begins, Handlers, Active, Holding, Registered, InHandler
  <2> QED
    BY <1>0, <1>3, <2>1, OneMore DEF Begins, Counted
<1>4. ASSUME NEW c \in Clients, AnsweredAtOnce(c) \/ Answers(c) PROVE Counted'
  <2>1. Active' = Active /\ Handlers' = Handlers /\ Holding' = Holding
    BY <1>4 DEF AnsweredAtOnce, Answers, Handlers, Active, Holding, Registered, InHandler
  <2> QED
    BY <1>4, <2>1 DEF AnsweredAtOnce, Answers, Counted
<1>5. ASSUME NEW c \in Clients, Leaves(c) PROVE Counted'
  <2>1. /\ Handlers' = Handlers \ {c} /\ c \in Handlers
        /\ Active' = Active /\ Holding' = Holding \ {c}
    BY <1>5 DEF Leaves, Handlers, Active, Holding, Registered, InHandler
  <2>2. numClients' = Cardinality(Handlers') /\ numActive' = Cardinality(Active')
    BY <1>0, <1>5, <2>1, OneLess DEF Leaves, Counted
  <2>3. free' \in Nat /\ free' + Cardinality(Holding') = MaxOpen
    <3>1. CASE holds[c]
      <4>1. Cardinality(Holding') = Cardinality(Holding) - 1 /\ free' = free + 1
        BY <1>0, <1>5, <2>1, <3>1, OneLess DEF Leaves, Holding
      <4> QED
        BY <4>1, <1>0 DEF Counted
    <3>2. CASE ~holds[c]
      <4>1. Holding' = Holding /\ free' = free
        BY <1>5, <2>1, <3>2 DEF Leaves, Holding
      <4> QED
        BY <4>1, <1>0 DEF Counted
    <3> QED
      BY <3>1, <3>2
  <2> QED
    BY <2>2, <2>3 DEF Counted
<1>6. ASSUME NEW c \in Clients, GetsSlot(c) \/ WaitsForSlot(c) PROVE Counted'
  <2>1. Active' = Active /\ Handlers' = Handlers /\ Holding' = Holding
    BY <1>6 DEF GetsSlot, WaitsForSlot, Handlers, Active, Holding, Registered,
                InHandler, handlerVars
  <2> QED
    BY <1>6, <2>1 DEF GetsSlot, WaitsForSlot, Counted, handlerVars
<1>7. ASSUME NEW c \in Clients, Connects(c) PROVE Counted'
  <2>1. Active' = Active /\ Handlers' = Handlers /\ Holding' = Holding \cup {c}
    BY <1>7 DEF Connects, Handlers, Active, Holding, Registered, InHandler
  <2>2. CASE holds[c]
    <3>1. Holding' = Holding /\ free' = free
      BY <1>7, <2>1, <2>2 DEF Connects, Holding
    <3> QED
      BY <1>7, <2>1, <3>1 DEF Connects, Counted
  <2>3. CASE ~holds[c]
    <3>1. /\ Cardinality(Holding') = Cardinality(Holding) + 1
          /\ free > 0 /\ free' = free - 1
      BY <1>0, <1>7, <2>1, <2>3, OneMore DEF Connects, Holding
    <3> QED
      BY <1>0, <1>7, <2>1, <3>1 DEF Connects, Counted
  <2> QED
    BY <2>2, <2>3
<1>8. ASSUME NEW c \in Clients, pc[c] \in InHandler, Returns(c)
      PROVE  /\ Active' = Active \ {c} /\ c \in Active /\ Handlers' = Handlers
             /\ numClients' = Cardinality(Handlers') /\ numActive' = Cardinality(Active')
  <2>1. Active' = Active \ {c} /\ c \in Active /\ Handlers' = Handlers
    BY <1>8 DEF Returns, Handlers, Active, Registered, InHandler
  <2> QED
    BY <1>0, <1>8, <2>1, OneLess DEF Returns, Counted
<1>9. ASSUME NEW c \in Clients, IsRefused(c) \/ ConnectFails(c) PROVE Counted'
  <2>1. pc[c] \in InHandler /\ Returns(c) /\ UNCHANGED <<holds, free>>
    BY <1>9 DEF IsRefused, ConnectFails, InHandler
  <2>2. Holding' = Holding
    BY <2>1 DEF Holding
  <2> QED
    BY <1>8, <2>1, <2>2 DEF Counted
<1>10. ASSUME NEW c \in Clients, NEW keeps \in BOOLEAN, Executed(c, keeps)
       PROVE  Counted'
  <2>1. pc[c] \in InHandler /\ Returns(c) /\ holds[c]
    BY <1>10 DEF Executed, InHandler, Agreement
  <2>2. CASE keeps
    <3>1. Holding' = Holding /\ free' = free
      BY <1>10, <2>1, <2>2 DEF Executed, Holding
    <3> QED
      BY <1>8, <2>1, <3>1 DEF Counted
  <2>3. CASE ~keeps
    <3>1. Holding' = Holding \ {c} /\ c \in Holding /\ free' = free + 1
      BY <1>10, <2>1, <2>3 DEF Executed, Holding
    <3>2. Cardinality(Holding') = Cardinality(Holding) - 1
      BY <1>0, <3>1, OneLess
    <3> QED
      BY <1>0, <1>8, <2>1, <3>1, <3>2 DEF Counted
  <2> QED
    BY <2>2, <2>3
<1>11. ASSUME NEW c \in Clients, HandlerStep(c) PROVE Counted'
  BY <1>6, <1>7, <1>9, <1>10, <1>11 DEF HandlerStep
<1>12. ASSUME NEW c \in Clients, ClientStep(c) PROVE Counted'
  <2>1. ASSUME NEW q \in Queries, Statement(c, q) PROVE Counted'
    BY <1>3, <2>1 DEF Statement
  <2>2. CASE Unthrottled(c)
    BY <1>3, <2>2 DEF Unthrottled
  <2> QED
    BY <1>4, <1>5, <1>12, <2>1, <2>2 DEF ClientStep
<1> QED
  BY <1>1, <1>2, <1>11, <1>12, StepCases

\* The sweep begins when nothing is counted, or when nothing is promised.
LEMMA PromiseStep == ServerInv /\ [Next]_vars => Promise'
<1> SUFFICES ASSUME ServerInv, [Next]_vars PROVE Promise'
  OBVIOUS
<1> USE DEF ServerInv, Values, Goto, Promise
<1>0. numActive = 0 => Active = {}
  BY ClientsFinite DEF Counted, Active
<1>1. CASE Drainer
  <2>1. UNCHANGED <<pc, stopping>>
    BY <1>1 DEF Drainer, CloseListener, CheckActive, PollFindsNone, DrainTimesOut,
                SweepEnds, ClosesSocket, handlerVars
  <2>2. Active' = Active
    BY <2>1 DEF Active
  <2>3. CASE CloseListener
    BY <2>1, <2>2, <2>3 DEF CloseListener, handlerVars
  <2>4. CASE CheckActive \/ PollFindsNone
    BY <1>0, <2>1, <2>2, <2>4 DEF CheckActive, PollFindsNone, StartSweep, handlerVars
  <2>5. CASE DrainTimesOut
    BY <2>1, <2>2, <2>5 DEF DrainTimesOut, StartSweep, handlerVars
  <2>6. CASE SweepEnds
    BY <2>1, <2>2, <2>6 DEF SweepEnds, handlerVars
  <2>7. ASSUME NEW c \in Clients, ClosesSocket(c) PROVE Promise'
    BY <2>1, <2>2, <2>7 DEF ClosesSocket
  <2> QED
    BY <1>1, <2>3, <2>4, <2>5, <2>6, <2>7 DEF Drainer
<1>2. CASE Stop
  BY <1>2 DEF Stop, Active, handlerVars
<1>3. CASE Accept \/ Refuse \/ AcceptFails \/ Return \/ Reload \/ Stopped \/ UNCHANGED vars
  <2>1. UNCHANGED <<pc, socket, drainer, stopping, promised>>
    BY <1>3 DEF Accept, Refuse, AcceptFails, Return, Reload, Stopped, vars,
                handlerVars, stopVars
  <2> QED
    BY <2>1 DEF Active
<1>4. ASSUME NEW c \in Clients, Register(c) PROVE Promise'
  <2>1. Active' = Active
    BY <1>4 DEF Register, Active, InHandler
  <2> QED
    BY <1>4, <2>1 DEF Register, Active
<1>5. ASSUME NEW c \in Clients, ClientStep(c) PROVE Promise'
  <2>1. CASE (\E q \in Queries : Statement(c, q)) \/ Unthrottled(c)
    <3>1. PICK l \in InHandler : Begins(c, l)
      BY <2>1 DEF Statement, Unthrottled, InHandler
    <3>2. Active' = Active \cup {c} /\ c \notin promised
      BY <3>1 DEF Begins, Active, InHandler
    <3> QED
      BY <3>1, <3>2 DEF Begins, Active, InHandler, stopVars
  <2>2. CASE AnsweredAtOnce(c)
    BY <2>2 DEF AnsweredAtOnce, Active, InHandler, stopVars
  <2>3. CASE Answers(c)
    BY <2>3 DEF Answers, Active, InHandler
  <2>4. CASE Leaves(c)
    BY <2>4 DEF Leaves, Active, InHandler
  <2> QED
    BY <1>5, <2>1, <2>2, <2>3, <2>4 DEF ClientStep
<1>6. ASSUME NEW c \in Clients, HandlerStep(c) PROVE Promise'
  <2>1. UNCHANGED <<socket, drainer, stopping, promised>>
    BY <1>6 DEF HandlerStep, GetsSlot, WaitsForSlot, IsRefused, Connects, ConnectFails,
                Executed, Returns, stopVars, handlerVars
  <2>2. CASE GetsSlot(c) \/ WaitsForSlot(c) \/ Connects(c)
    <3>1. Active' = Active
      BY <2>2 DEF GetsSlot, WaitsForSlot, Connects, Active, InHandler, handlerVars
    <3> QED
      BY <2>1, <2>2, <3>1 DEF GetsSlot, WaitsForSlot, Connects, Active, handlerVars,
                              InHandler
  <2>3. CASE \/ IsRefused(c) \/ ConnectFails(c)
             \/ \E keeps \in BOOLEAN : Executed(c, keeps)
    <3>1. Active' = Active \ {c} /\ pc' = [pc EXCEPT ![c] = "answer"]
      BY <2>3 DEF IsRefused, ConnectFails, Executed, Returns, Active, InHandler
    <3> QED
      BY <2>1, <3>1
  <2> QED
    BY <1>6, <2>2, <2>3 DEF HandlerStep
<1> QED
  BY <1>1, <1>2, <1>3, <1>4, <1>5, <1>6, StepCases DEF Aside

\* The invariant is inductive, ...
LEMMA ServerStep == ServerInv /\ [Next]_vars => ServerInv'
<1> SUFFICES ASSUME ServerInv, [Next]_vars PROVE ServerInv'
  OBVIOUS
<1>1. ThrottleInv'
  BY StepOfThrottle, ThrottleStep DEF ServerInv
<1> QED
  BY <1>1, ValuesStep, AgreementStep, CountedStep, PromiseStep DEF ServerInv

\* ... and so always holds: types, the agreement of handlers with the
\* throttle, the counts of clients, statements and connections, and the promise.
THEOREM ServerCorrect == Spec => []ServerInv
  BY ServerInit, ServerStep, PTL DEF Spec

\* Whatever clients do and however they are cut off, the variables keep their
\* values: no counter runs away (proxy.go:154-159, 194-202).
THEOREM ServerTypeOK == Spec => []TypeOK
  BY ServerCorrect, InvTypeOK, PTL

\* The sockets of the statements in flight when a stop comes are closed under
\* them only when the drain has timed out (proxy.go:211-229).
THEOREM StopWaits == Spec => []DrainRespected
  BY ServerCorrect, InvDrain, PTL
=============================================================================
