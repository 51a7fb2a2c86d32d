------------------------------- MODULE Server -------------------------------
(***************************************************************************)
(* The listener of the proxy (internal/proxy/proxy.go): accepting clients  *)
(* up to a cap, one handler goroutine per client, and the graceful stop.   *)
(*                                                                         *)
(* A handler reads a command, takes a slot of the throttle and a           *)
(* connection of the pool, runs the statement, returns, and writes the     *)
(* answer: HandleQuery as the stop sees it.  What a statement means is in  *)
(* Multiplexing and Cache, and the throttle in Throttle, which this module *)
(* extends.  The pool is a number of free connections (Pool shows that it  *)
(* is one): a session keeps its connection in a transaction, so that one   *)
(* session may hold a connection and wait for a slot while another holds   *)
(* the slot and waits for a connection.                                    *)
(*                                                                         *)
(* The goroutines are the accept loop, one handler per client, the one     *)
(* that waits for ctx.Done() and drains, and a reload of the rules.  Each  *)
(* step is one channel operation, atomic access or call on a socket, with  *)
(* the steps that touch nothing but the handler's own session.             *)
(***************************************************************************)
EXTENDS Throttle

CONSTANTS
    MaxClients,  \* listen.max_connections, 0: no limit
    MaxOpen,     \* pool.max_open
    Drain        \* listen.drain_timeout > 0

ASSUME ServerAssumption ==
    MaxClients \in Nat /\ MaxOpen \in Nat /\ Drain \in BOOLEAN

VARIABLES
    pc,          \* where the handler of each client is
    socket,      \* its client socket: open, or cut by the drainer
    holds,       \* does its session hold a backend connection?
    free,        \* connections the pool has or may open
    numClients,  \* Server.numClients
    numActive,   \* Server.numActive
    acceptor,    \* the goroutine of Run: "accept"; "accepted", with a
                 \* connection in hand; "join"; "returned"
    drainer,     \* the goroutine that waits for ctx.Done()
    todo,        \* the sockets its Range has yet to visit
    stopping,    \* ctx is done
    promised,    \* history: in flight when a stop with a drain came, not
                 \* answered yet, and within the time of the drain
    late         \* history: registered after the Range had begun, and open

handlerVars == <<pc, socket, holds, free, numClients, numActive>>
stopVars == <<drainer, todo, stopping, promised, late>>
vars == <<throttleVars, handlerVars, acceptor, stopVars>>

\* The places of a handler: "idle" waits for the client, at first for its
\* handshake; "answer" has the result of a handler to write.
InHandler == {"throttle", "connect", "run"}
Registered == InHandler \cup {"idle", "answer"}
Labels == Registered \cup {"away"}

\* The client sockets: srv.clients, and what the WaitGroup waits for.
Handlers == {c \in Clients : pc[c] \in Registered}
Active == {c \in Clients : pc[c] \in InHandler}

Init ==
    /\ ThrottleInit
    /\ pc = [c \in Clients |-> "away"]
    /\ socket = [c \in Clients |-> "open"]
    /\ holds = [c \in Clients |-> FALSE]
    /\ free = MaxOpen
    /\ numClients = 0 /\ numActive = 0
    /\ acceptor = "accept" /\ drainer = "waiting" /\ todo = {}
    /\ stopping = FALSE /\ promised = {} /\ late = {}

Goto(c, l) == pc' = [pc EXCEPT ![c] = l]

-----------------------------------------------------------------------------
(* The accept loop of Run *)

ListenerOpen == drainer = "waiting"
Sweeping == drainer \in {"sweep", "done"}

Accept ==
    /\ acceptor = "accept" /\ ListenerOpen
    /\ acceptor' = "accepted"
    /\ UNCHANGED <<throttleVars, handlerVars, stopVars>>

AtLimit == MaxClients > 0 /\ numClients >= MaxClients

\* Mutant: the refused client is counted out, and was never counted in.
RefuseCountingOut ==
    /\ acceptor = "accepted" /\ AtLimit
    /\ acceptor' = "accept"
    /\ numClients' = numClients - 1
    /\ UNCHANGED <<throttleVars, pc, socket, holds, free, numActive, stopVars>>

\* Over max_connections: closed at once.
Refuse ==
    /\ acceptor = "accepted" /\ AtLimit
    /\ acceptor' = "accept"
    /\ UNCHANGED <<throttleVars, handlerVars, stopVars>>

\* Counted, stored, and given a handler.  ctx is not looked at.
Register(c) ==
    /\ acceptor = "accepted" /\ ~AtLimit /\ pc[c] = "away"
    /\ acceptor' = "accept"
    /\ Goto(c, "idle")
    /\ socket' = [socket EXCEPT ![c] = "open"]
    /\ numClients' = numClients + 1
    /\ late' = IF Sweeping THEN late \cup {c} ELSE late
    /\ UNCHANGED <<throttleVars, holds, free, numActive, drainer, todo,
                   stopping, promised>>

\* Accept fails on the closed listener: wait for the handlers.
AcceptFails ==
    /\ acceptor = "accept" /\ ~ListenerOpen
    /\ acceptor' = "join"
    /\ UNCHANGED <<throttleVars, handlerVars, stopVars>>

Return ==
    /\ acceptor = "join" /\ Handlers = {}
    /\ acceptor' = "returned"
    /\ UNCHANGED <<throttleVars, handlerVars, stopVars>>

-----------------------------------------------------------------------------
(* A handler: handle, HandleCommand, and the handlers of session.go *)

\* Mutant: the command is not counted.
BeginsUncounted(c, l) ==
    /\ pc[c] = "idle" /\ socket[c] = "open"
    /\ Goto(c, l)
    /\ UNCHANGED <<socket, holds, free, numClients, numActive, acceptor, stopVars>>

\* active(): a command has been read, and is counted until its handler
\* returns.
Begins(c, l) ==
    /\ pc[c] = "idle" /\ socket[c] = "open"
    /\ Goto(c, l)
    /\ numActive' = numActive + 1
    /\ UNCHANGED <<socket, holds, free, numClients, acceptor, stopVars>>

\* HandleQuery, up to the lookup of acquireSlot.
Statement(c, q) ==
    /\ Acquire(c, q)
    /\ Begins(c, IF at'[c] = "in" THEN "connect" ELSE "throttle")

\* A prepare, a field list or a change of database takes no slot.
Unthrottled(c) == Begins(c, "connect") /\ UNCHANGED throttleVars

\* A command that gets no further than the session: refused by the firewall,
\* answered from the cache, a ping.
AnsweredAtOnce(c) ==
    /\ pc[c] = "idle" /\ socket[c] = "open"
    /\ Goto(c, "answer")
    /\ UNCHANGED <<throttleVars, socket, holds, free, numClients, numActive,
                   acceptor, stopVars>>

\* The rest of acquireSlot, with what follows each step of it.
GetsSlot(c) ==
    /\ TakeSlot(c)
    /\ pc[c] = "throttle" /\ Goto(c, "connect")
    /\ UNCHANGED <<socket, holds, free, numClients, numActive, acceptor, stopVars>>

WaitsForSlot(c) ==
    /\ StartWaiting(c)
    /\ UNCHANGED <<handlerVars, acceptor, stopVars>>

\* The handler returns: its answer is to be written, and the statement is
\* counted as finished.
Returns(c) ==
    /\ Goto(c, "answer")
    /\ numActive' = numActive - 1
    /\ UNCHANGED <<socket, numClients, acceptor, stopVars>>

IsRefused(c) ==
    /\ Busy(c)
    /\ pc[c] = "throttle" /\ Returns(c)
    /\ UNCHANGED <<holds, free>>

\* The deferred release of the slot, if the statement has asked for one.
GivesSlotBack(c) ==
    IF at[c] = "in" THEN Release(c) ELSE UNCHANGED throttleVars

\* backend(): the connection the session has kept, or one of the pool.
Connects(c) ==
    /\ pc[c] = "connect" /\ (holds[c] \/ free > 0)
    /\ Goto(c, "run")
    /\ holds' = [holds EXCEPT ![c] = TRUE]
    /\ free' = IF holds[c] THEN free ELSE free - 1
    /\ UNCHANGED <<throttleVars, socket, numClients, numActive, acceptor, stopVars>>

\* Acquire fails: its timer, a backend that is down, or ctx.Done().
ConnectFails(c) ==
    /\ pc[c] = "connect" /\ ~holds[c]
    /\ GivesSlotBack(c)
    /\ Returns(c)
    /\ UNCHANGED <<holds, free>>

\* The backend has answered, or the connection was lost; the session parks
\* its connection unless it has to keep it.
Executed(c, keeps) ==
    /\ pc[c] = "run"
    /\ GivesSlotBack(c)
    /\ Returns(c)
    /\ holds' = [holds EXCEPT ![c] = keeps]
    /\ free' = IF keeps THEN free ELSE free + 1

\* The library writes what the handler returned.
Answers(c) ==
    /\ pc[c] = "answer" /\ socket[c] = "open"
    /\ Goto(c, "idle")
    /\ promised' = promised \ {c}
    /\ UNCHANGED <<throttleVars, socket, holds, free, numClients, numActive,
                   acceptor, drainer, todo, stopping, late>>

\* The handshake fails, the client has gone, or its socket was cut: a read or
\* a write fails, the session closes and the handler takes itself off the
\* books.  While a handler runs, nobody looks at the socket.
Leaves(c) ==
    /\ pc[c] \in {"idle", "answer"}
    /\ Goto(c, "away")
    /\ socket' = [socket EXCEPT ![c] = "open"]
    /\ holds' = [holds EXCEPT ![c] = FALSE]
    /\ free' = IF holds[c] THEN free + 1 ELSE free
    /\ numClients' = numClients - 1
    /\ todo' = todo \ {c} /\ promised' = promised \ {c} /\ late' = late \ {c}
    /\ UNCHANGED <<throttleVars, numActive, acceptor, drainer, stopping>>

-----------------------------------------------------------------------------
(* The stop: the goroutine that waits for ctx.Done(), and drainClients *)

\* SIGTERM or SIGINT.
Stop ==
    /\ ~stopping
    /\ stopping' = TRUE
    /\ promised' = IF Drain THEN Active ELSE {}
    /\ UNCHANGED <<throttleVars, handlerVars, acceptor, drainer, todo, late>>

CloseListener ==
    /\ stopping /\ drainer = "waiting"
    /\ drainer' = "check"
    /\ UNCHANGED <<throttleVars, handlerVars, acceptor, todo, stopping, promised, late>>

\* Mutant: only the sockets of statements in flight are closed.
StartSweepOfActive == drainer' = "sweep" /\ todo' = Active

\* The Range over srv.clients begins: it visits what is stored now.
StartSweep == drainer' = "sweep" /\ todo' = Handlers

\* Nothing to wait for, or start polling.
CheckActive ==
    /\ drainer = "check"
    /\ IF ~Drain \/ numActive = 0
       THEN StartSweep
       ELSE drainer' = "poll" /\ UNCHANGED todo
    /\ UNCHANGED <<throttleVars, handlerVars, acceptor, stopping,
                   promised, late>>

PollFindsNone ==
    /\ drainer = "poll" /\ numActive = 0
    /\ StartSweep
    /\ UNCHANGED <<throttleVars, handlerVars, acceptor, stopping,
                   promised, late>>

DrainTimesOut ==
    /\ drainer = "poll"
    /\ StartSweep
    /\ promised' = {}
    /\ UNCHANGED <<throttleVars, handlerVars, acceptor, stopping, late>>

\* One call of the Range's function: a socket that was stored when it began,
\* or, as sync.Map allows, one stored since.
ClosesSocket(c) ==
    /\ drainer = "sweep" /\ c \in todo \cup late
    /\ socket' = [socket EXCEPT ![c] = "cut"]
    /\ todo' = todo \ {c} /\ late' = late \ {c}
    /\ UNCHANGED <<throttleVars, pc, holds, free, numClients, numActive,
                   acceptor, drainer, stopping, promised>>

\* What was promised for the drain ends with it.
SweepEnds ==
    /\ drainer = "sweep" /\ todo = {}
    /\ drainer' = "done"
    /\ promised' = {}
    /\ UNCHANGED <<throttleVars, handlerVars, acceptor, todo, stopping, late>>

\* A reload while the server runs.
Reload ==
    /\ \E list \in RuleSets : SetRules(list)
    /\ UNCHANGED <<handlerVars, acceptor, stopVars>>

\* Run has returned: nothing is left to do.
Stopped == acceptor = "returned" /\ UNCHANGED vars

-----------------------------------------------------------------------------

AcceptLoop == Refuse \/ (\E c \in Clients : Register(c)) \/ AcceptFails \/ Return
Drainer == \/ CloseListener \/ CheckActive \/ PollFindsNone \/ DrainTimesOut
           \/ SweepEnds \/ \E c \in Clients : ClosesSocket(c)
HandlerStep(c) ==
    \/ GetsSlot(c) \/ WaitsForSlot(c) \/ IsRefused(c)
    \/ Connects(c) \/ ConnectFails(c) \/ \E keeps \in BOOLEAN : Executed(c, keeps)
ClientStep(c) ==
    \/ (\E q \in Queries : Statement(c, q)) \/ Unthrottled(c) \/ AnsweredAtOnce(c)
    \/ Answers(c) \/ Leaves(c)

Next ==
    \/ Accept \/ AcceptLoop \/ Drainer \/ Stop \/ Reload \/ Stopped
    \/ \E c \in Clients : HandlerStep(c) \/ ClientStep(c)

Spec == Init /\ [][Next]_vars

\* The goroutines of gora run on and its timers fire; the backend answers,
\* if only because max_query_time kills the statement.  Nothing is expected
\* of a client: it may stay idle for ever, or never read an answer.
FairSpec ==
    /\ Spec /\ WF_vars(AcceptLoop) /\ WF_vars(Drainer)
    /\ \A c \in Clients :
          WF_vars(HandlerStep(c)) /\ WF_vars(socket[c] # "open" /\ Leaves(c))

-----------------------------------------------------------------------------
(* Properties *)

\* The values of the variables.
TypeOK ==
    /\ pc \in [Clients -> Labels]
    /\ socket \in [Clients -> {"open", "cut"}]
    /\ holds \in [Clients -> BOOLEAN]
    /\ free \in 0..MaxOpen
    /\ numClients \in 0..Cardinality(Clients)
    /\ numActive \in 0..Cardinality(Clients)
    /\ acceptor \in {"accept", "accepted", "join", "returned"}
    /\ drainer \in {"waiting", "check", "poll", "sweep", "done"}
    /\ {todo, promised, late} \subseteq SUBSET Clients
    /\ stopping \in BOOLEAN

\* A statement that was in flight when the stop came is still running when
\* its client's socket is closed only if the drain has timed out (or there is
\* none): no handler is uncounted, and the statements that idle clients
\* begin during the drain do not end it early (proxy.go:213-229).
DrainRespected ==
    \A c \in promised \cap Active : socket[c] = "open"

\* Not a property of the code: a statement in flight when the stop came is
\* answered, if it finishes in time (README.md:149).  It is counted as
\* finished when its handler returns, before the answer is written.
AnswersDelivered ==
    \A c \in promised : socket[c] = "open"

\* A stop ends: slots, connections and answers that handlers wait for are
\* released, time out or fail, and Run returns.  The one thing it may wait
\* for is a client whose connection was accepted before the listener closed
\* and stored after the sockets were (proxy.go:169-176, 196-197).
StopEnds == stopping ~> (acceptor = "returned" \/ late # {})

\* Not a property of the code: a stop ends (service.go:31-34).
StopAlwaysEnds == stopping ~> acceptor = "returned"
=============================================================================
