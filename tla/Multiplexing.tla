---------------------------- MODULE Multiplexing ----------------------------
(***************************************************************************)
(* Sessions sharing backend connections (internal/proxy/session.go and     *)
(* safety.go, over the pools of internal/pool and the routing of           *)
(* internal/topology).                                                     *)
(*                                                                         *)
(* A connection carries what a MySQL session keeps on the server: session  *)
(* variables, the current database, an open transaction, temporary tables, *)
(* locks and user variables (dirt), prepared statements, the FOUND_ROWS    *)
(* counter; and the two labels gora puts on it, VarSig and BoundDB.  A     *)
(* handler holds the session's mutex from its first line to its last and   *)
(* is cut once, where it waits for the backend: Begin... routes, acquires  *)
(* and prepares a connection, the outcome of the statement is the second   *)
(* step.  Connections are in one place only (proved in PoolProofs), so the *)
(* pools are sets of parked connections here; their limits, waits and      *)
(* breaker are in Pool.                                                    *)
(*                                                                         *)
(* want is what a client directly connected to MySQL would have: the       *)
(* session gora promises to look like.                                     *)
(***************************************************************************)
EXTENDS Integers, Sequences, FiniteSets, SequencesExt

CONSTANTS Sessions,
          Conns,
          Replicas,          \* the nodes besides Primary
          Primary,
          None,
          Statements,        \* the statements clients send in this instance
          Databases,
          Refused,           \* the databases the server refuses
          Mux,               \* BOOLEAN: pool.multiplexing
          MaxTrackedSets,    \* maxTrackedSets
          Sticky,            \* BOOLEAN: routing.sticky_after_write > 0
          ResetUnsupported,  \* BOOLEAN: the server lacks COM_RESET_CONNECTION
          MaxLosses          \* bound on the connections lost under a session

ASSUME NodesAssumption     == Replicas \cap {Primary, None} = {} /\ Primary # None
ASSUME BoundsAssumption    == MaxTrackedSets \in Nat \ {0} /\ MaxLosses \in Nat
ASSUME DatabasesAssumption == Refused \subseteq Databases /\ None \notin Databases
ASSUME SwitchesAssumption  == {Mux, Sticky, ResetUnsupported} \subseteq BOOLEAN
ASSUME PlacesAssumption    == None \notin Sessions \cup Conns \cup Statements

Nodes == Replicas \cup {Primary}

VARIABLES sess,    \* the session structs
          wire,    \* the connections: server side state and gora's labels
          parked,  \* connections in the idle buffers of the pools
          want,    \* the session a direct connection would have
          losses   \* connections lost under a session so far

vars == <<sess, wire, parked, want, losses>>

-----------------------------------------------------------------------------
(* Statements *)

SetStatements == {"names latin1", "names utf8", "zone utc"}
Changing      == {"write", "insert", "temp table", "cte write"}
Companions    == {"found rows", "last id"}

\* statement.Classify.  "prepare" stands for COM_STMT_PREPARE, which
\* HandleStmtPrepare routes as a write, "init db" for COM_INIT_DB, and
\* "cte write" for WITH ... UPDATE, which stays unclassified.
Classify(k) ==
    CASE k \in {"select", "calc rows", "user variable"} \cup Companions -> "select"
      [] k \in {"write", "insert", "temp table", "prepare"}           -> "write"
      [] k \in {"begin", "commit", "rollback"}                        -> k
      [] k = "autocommit off"                                         -> "unsafe"
      [] OTHER                                                        -> "other"

\* pinDetectRe, userVarRe, and classifySet for a SET gora cannot replay.
Pins == {"temp table", "lock tables", "user variable", "autocommit off"}
\* holdDetectRe, and an insert id in the result.
Holds == {"calc rows", "insert"} \cup Companions
\* What leaves something behind that only a reset takes away.
Leaves == {"temp table", "lock tables", "user variable", "sql prepare"}

\* "use" is a USE statement sent as a query, for any of the databases.
DefaultVars == [names |-> "default", zone |-> "default"]

ApplySet(v, k) ==
    IF k = "zone utc" THEN [v EXCEPT !.zone = k] ELSE [v EXCEPT !.names = k]

Replay(sets) == FoldLeft(ApplySet, DefaultVars, sets)

-----------------------------------------------------------------------------
(* Connections *)

NoConnection ==
    [home |-> None, sig |-> <<>>, bound |-> None, vars |-> DefaultVars,
     db |-> None, tx |-> None, auto |-> TRUE, dirt |-> {}, stmts |-> {},
     calc |-> None]

Fresh(n) == [NoConnection EXCEPT !.home = n]

Open == {c \in Conns : wire[c].home # None}

\* COM_RESET_CONNECTION, and what is left of it in the ROLLBACK fallback.
ServerReset(w) ==
    IF ResetUnsupported THEN [w EXCEPT !.tx = None]
    ELSE [Fresh(w.home) EXCEPT !.db = w.db, !.sig = w.sig, !.bound = w.bound]

\* Pool.ResetConn when it succeeds: the labels are cleared with the state.
ResetConn(w) == [ServerReset(w) EXCEPT !.sig = <<>>, !.bound = None]

\* It fails, and the connection is discarded, when variables were applied
\* and the server cannot reset them.
Resettable(w) == ~(ResetUnsupported /\ w.sig # <<>>)

\* Pool.Release of c in state w, with p parked: reset and parked, or closed.
Released(w, p, c) ==
    IF Resettable(w)
    THEN wire' = [wire EXCEPT ![c] = ResetConn(w)] /\ parked' = p \cup {c}
    ELSE wire' = [wire EXCEPT ![c] = NoConnection] /\ parked' = p \ {c}

-----------------------------------------------------------------------------
(* Sessions *)

NewSession ==
    [run |-> None, conn |-> None, db |-> None, inTx |-> FALSE,
     pinned |-> FALSE, holdNext |-> FALSE, openStmts |-> 0, sets |-> <<>>,
     wrote |-> FALSE, arg |-> None]

NewWant ==
    [vars |-> DefaultVars, db |-> None, misdirected |-> FALSE, tx |-> FALSE,
     cut |-> FALSE, listed |-> FALSE]

\* The client is told that k failed.  misdirected: its last choice of a
\* database failed; cut: its transaction ended and it was not told; listed:
\* its last statement was a listing.
Told(v, k) ==
    [v EXCEPT !.listed = FALSE, !.misdirected = @ \/ k = "init db"]

Init ==
    /\ sess = [s \in Sessions |-> NewSession]
    /\ wire = [c \in Conns |-> NoConnection]
    /\ parked = {}
    /\ want = [s \in Sessions |-> NewWant]
    /\ losses = 0

\* Mutant: only prepared statements keep a connection.
TrustingReleasable(x, w) == ~x.pinned /\ x.openStmts = 0

\* releasable, for session x over the connections w.
Releasable(x, w) ==
    /\ ~x.pinned /\ ~x.inTx /\ x.openStmts = 0
    /\ x.conn # None => w[x.conn].tx = None /\ w[x.conn].auto

\* maybeRelease: what the session keeps, and whether its connection is parked.
LetsGo(x, w) == Mux /\ x.conn # None /\ Releasable(x, w) /\ ~x.holdNext

\* Mutant: the session still refers to the connection it has parked.
ClingingAfterRelease(x, w) ==
    IF Mux /\ x.conn # None /\ Releasable(x, w) THEN [x EXCEPT !.holdNext = FALSE] ELSE x

AfterRelease(x, w) ==
    IF LetsGo(x, w) THEN [x EXCEPT !.conn = None]
    ELSE IF Mux /\ x.conn # None /\ Releasable(x, w)
    THEN [x EXCEPT !.holdNext = FALSE]
    ELSE x

WriteBound(k) ==
    Classify(k) \in {"write", "begin", "commit", "rollback", "unsafe"}

\* Mutant: reads go to the replicas inside the sticky window too.
ForgetfulStickyActive(x) == FALSE

\* stickyActive: x.wrote is "lastWrite is inside the window", which a setup
\* without replicas or without a window has no use for.
StickyActive(x) == x.wrote

Arms(k) ==
    Sticky /\ Replicas # {} /\ Classify(k) \in {"write", "commit", "rollback"}

\* PickReader: some replica, in rotation and by health, or the primary.
Readers == Nodes

\* Mutant: a session with a connection stays where it is.
SettledRoute(s, k) ==
    LET x == sess[s] IN
    IF x.conn # None THEN {wire[x.conn].home}
    ELSE IF WriteBound(k) \/ x.inTx THEN {Primary}
    ELSE IF Classify(k) \in {"select", "other"} /\ ~StickyActive(x) THEN Readers
    ELSE {Primary}

\* route, for a statement of session s.
Route(s, k) ==
    LET x == sess[s] IN
    IF x.conn # None /\ (~Releasable(x, wire) \/ x.holdNext) THEN {wire[x.conn].home}
    ELSE IF WriteBound(k) \/ x.inTx THEN {Primary}
    ELSE IF Classify(k) \in {"select", "other"} /\ ~StickyActive(x) THEN Readers
    ELSE {Primary}

-----------------------------------------------------------------------------
(* What a statement does *)

\* To the connection.  LOCK TABLES commits the open transaction.
Executed(s, k, d, w) ==
    LET begun == IF w.auto \/ (Classify(k) # "select" /\ k \notin Changing) THEN w
                 ELSE [w EXCEPT !.tx = s]
        counted == IF Classify(k) = "select" /\ k # "last id"
                   THEN [begun EXCEPT !.calc = IF k = "calc rows" THEN s ELSE None]
                   ELSE begun
    IN  CASE k \in SetStatements          -> [w EXCEPT !.vars = ApplySet(@, k)]
          [] k = "begin"                  -> [w EXCEPT !.tx = s]
          [] k \in {"commit", "rollback"} -> [w EXCEPT !.tx = None]
          [] k = "autocommit off"         -> [w EXCEPT !.auto = FALSE]
          [] k = "use"                    -> [w EXCEPT !.db = d]
          [] k = "init db"                -> [w EXCEPT !.db = d, !.bound = d]
          [] k = "lock tables"            -> [w EXCEPT !.dirt = @ \cup {s}, !.tx = None]
          [] k = "prepare"                -> [w EXCEPT !.stmts = @ \cup {s}]
          [] k \in Leaves \ {"lock tables"} -> [counted EXCEPT !.dirt = @ \cup {s}]
          [] OTHER                        -> counted

\* To the session of a direct connection.
Wanted(s, k, d) ==
    LET v == [want[s] EXCEPT !.listed = (k = "calc rows")] IN
    CASE k \in SetStatements          -> [v EXCEPT !.vars = ApplySet(@, k)]
      [] k = "begin"                  -> [v EXCEPT !.tx = TRUE, !.cut = FALSE]
      [] k \in {"commit", "rollback", "lock tables"} -> [v EXCEPT !.tx = FALSE, !.cut = FALSE]
      [] k \in {"use", "init db"}     -> [v EXCEPT !.db = d, !.misdirected = FALSE]
      [] OTHER                        -> v

-----------------------------------------------------------------------------
(* backend and prepareConn *)

\* The first part of prepareConn: another session's variables are cleared.
Cleared(x, w) == IF w.sig # x.sets /\ w.sig # <<>> THEN ResetConn(w) ELSE w

\* Mutant: a connection bound to some database is left there.
ShyBound(x, w) ==
    IF x.db # None /\ w.bound = None THEN [w EXCEPT !.db = x.db, !.bound = x.db] ELSE w

\* Then the database, bound when the label differs.
Bound(x, w) ==
    IF x.db # None /\ w.bound # x.db THEN [w EXCEPT !.db = x.db, !.bound = x.db] ELSE w

\* Mutant: the tracked SETs are replayed over the other session's variables.
OverlaidPrepared(x, w) ==
    LET b == Bound(x, w) IN
    IF b.sig # x.sets
    THEN [b EXCEPT !.vars = FoldLeft(ApplySet, b.vars, x.sets), !.sig = x.sets]
    ELSE b

\* Then the tracked SETs are replayed and the connection labelled.
Prepared(x, w) ==
    LET b == Bound(x, Cleared(x, w)) IN
    IF b.sig # x.sets
    THEN [b EXCEPT !.vars = FoldLeft(ApplySet, b.vars, x.sets), !.sig = x.sets]
    ELSE b

\* Another session's variables cannot be cleared: that is no error of the
\* server, and the connection is discarded.
Clearable(x, w) == w.sig # x.sets /\ w.sig # <<>> => Resettable(w)

\* Where an error of the server can stop prepareConn: at the database, or
\* after some of the SETs.
StoppedAt(x, w) ==
    LET c == Cleared(x, w)
        b == Bound(x, c)
    IN  IF ~Clearable(x, w) THEN {}
        ELSE IF b # c /\ x.db \in Refused THEN {c}
        ELSE {[b EXCEPT !.vars = FoldLeft(ApplySet, b.vars, SubSeq(x.sets, 1, i))] :
                 i \in IF b.sig # x.sets THEN 0..(Len(x.sets) - 1) ELSE {}}

\* prepareConn succeeds if it can clear another session's variables and the
\* server does not refuse the database.
Preparable(x, w) ==
    /\ Clearable(x, w)
    /\ x.db \in Refused => w.bound = x.db

\* What Acquire on node n may return: a parked connection or a new one.
Acquirable(n) ==
    {c \in parked : wire[c].home = n} \cup (Conns \ Open)

FromPool(c, n) == IF wire[c].home = None THEN Fresh(n) ELSE wire[c]

\* The connections parked once s has let go of the one it moves away from.
ParkedByMove(s) == IF sess[s].conn = None THEN parked ELSE parked \cup {sess[s].conn}

Idle(s) == sess[s].run = None

\* The session already has a connection on the right node.
BeginAttached(s, k, d) ==
    /\ Idle(s)
    /\ sess[s].conn # None
    /\ k = "init db" \/ wire[sess[s].conn].home \in Route(s, k)
    /\ sess' = [sess EXCEPT ![s].run = k, ![s].arg = d,
                            ![s].db = IF k = "init db" THEN d ELSE @]
    /\ UNCHANGED <<wire, parked, want, losses>>

\* It needs one, and leaves the one it has to the pool.  A parked connection
\* that died or cannot be cleared is discarded and the next one tried:
\* ParkedLeaves.
BeginAcquires(s, k, d) ==
    LET x == sess[s] IN
    /\ Idle(s) /\ k # "init db"
    /\ \E n \in Route(s, k) :
          /\ x.conn # None => wire[x.conn].home # n
          /\ \E c \in Acquirable(n) :
                /\ Preparable(x, FromPool(c, n))
                /\ wire' = [wire EXCEPT ![c] = Prepared(x, FromPool(c, n))]
                /\ parked' = ParkedByMove(s) \ {c}
                /\ sess' = [sess EXCEPT ![s] = [x EXCEPT !.run = k, !.arg = d, !.conn = c]]
    /\ UNCHANGED <<want, losses>>

\* COM_INIT_DB with no connection attached: binding the database is the
\* verdict the client waits for, and the connection is let go at once.
SelectsDatabase(s, d) ==
    LET x == [sess[s] EXCEPT !.db = d] IN
    /\ Idle(s) /\ x.conn = None
    /\ \E n \in Route(s, "init db") : \E c \in Acquirable(n) :
          LET y == [x EXCEPT !.conn = c]
              m == [wire EXCEPT ![c] = Prepared(x, FromPool(c, n))]
          IN  /\ Preparable(x, FromPool(c, n))
              /\ wire' = m
              /\ sess' = [sess EXCEPT ![s] = AfterRelease(y, m)]
              /\ parked' = IF LetsGo(y, m) THEN parked \cup {c} ELSE parked \ {c}
    /\ want' = [want EXCEPT ![s] = Wanted(s, "init db", d)]
    /\ UNCHANGED losses

\* No connection to be had: the pool's cap, its breaker, a failed dial.
BeginFails(s, k, d) ==
    /\ Idle(s)
    /\ k = "init db" => sess[s].conn = None
    /\ sess[s].conn # None => \E n \in Route(s, k) : wire[sess[s].conn].home # n
    /\ parked' = ParkedByMove(s)
    /\ sess' = [sess EXCEPT ![s].conn = None, ![s].db = IF k = "init db" THEN d ELSE @]
    /\ want' = [want EXCEPT ![s] = Told(@, k)]
    /\ UNCHANGED <<wire, losses>>

\* The server refuses the database or a SET of the replay: the connection goes
\* back to the pool and the statement is not run.
BeginRefused(s, k, d) ==
    LET x == [sess[s] EXCEPT !.db = IF k = "init db" THEN d ELSE @] IN
    /\ Idle(s)
    /\ k = "init db" => x.conn = None
    /\ \E n \in Route(s, k) :
          /\ x.conn # None => wire[x.conn].home # n
          /\ \E c \in Acquirable(n) : \E w \in StoppedAt(x, FromPool(c, n)) :
                Released(w, ParkedByMove(s), c)
    /\ sess' = [sess EXCEPT ![s] = [x EXCEPT !.conn = None]]
    /\ want' = [want EXCEPT ![s] = Told(@, k)]
    /\ UNCHANGED losses

-----------------------------------------------------------------------------
(* The outcome of a statement *)

\* trackSet: a statement sent before is not recorded again.
TrackSet(x, k) ==
    IF k \notin SetStatements \/ k \in ToSet(x.sets) THEN x
    ELSE IF Len(x.sets) >= MaxTrackedSets THEN [x EXCEPT !.pinned = TRUE]
    ELSE [x EXCEPT !.sets = Append(@, k)]

\* trackSafety, with w the connection after the statement.
TrackSafety(x, k, w) ==
    [x EXCEPT !.inTx     = CASE k = "begin" -> TRUE
                             [] k \in {"commit", "rollback"} -> FALSE
                             [] OTHER -> @ \/ w.tx # None,
              !.wrote    = @ \/ Arms(k),
              !.pinned   = @ \/ k \in Pins,
              !.holdNext = @ \/ k \in Holds]

\* A query, COM_INIT_DB or COM_FIELD_LIST that succeeds ends with
\* maybeRelease; COM_STMT_PREPARE keeps the connection.
Succeeds(s) ==
    LET k == sess[s].run
        d == sess[s].arg
        c == sess[s].conn
        w == Executed(s, k, d, wire[c])
        y == [sess[s] EXCEPT !.run = None, !.arg = None]
        t == IF k = "prepare" THEN [y EXCEPT !.openStmts = @ + 1]
             ELSE IF k = "init db" THEN y
             ELSE TrackSafety(TrackSet(y, k), k, w)
        l == [w EXCEPT !.sig = IF t.sets # y.sets THEN t.sets ELSE @]
        m == [wire EXCEPT ![c] = l]
    IN  /\ ~Idle(s)
        /\ d \notin Refused
        /\ wire' = m
        /\ want' = [want EXCEPT ![s] = Wanted(s, k, d)]
        /\ IF k = "prepare"
           THEN sess' = [sess EXCEPT ![s] = t] /\ UNCHANGED parked
           ELSE /\ sess' = [sess EXCEPT ![s] = AfterRelease(t, m)]
                /\ parked' = IF LetsGo(t, m) THEN parked \cup {c} ELSE parked
        /\ UNCHANGED losses

\* The server answers with an error: the connection stays attached.
FailsInMySQL(s) ==
    /\ ~Idle(s)
    /\ sess' = [sess EXCEPT ![s].run = None, ![s].arg = None]
    /\ want' = [want EXCEPT ![s] = Told(@, sess[s].run)]
    /\ UNCHANGED <<wire, parked, losses>>

\* The connection breaks: finish discards it and the client is told, which
\* ends its transaction as far as it is concerned.
LosesConnection(s) ==
    /\ ~Idle(s)
    /\ losses < MaxLosses
    /\ losses' = losses + 1
    /\ wire' = [wire EXCEPT ![sess[s].conn] = NoConnection]
    /\ sess' = [sess EXCEPT ![s].run = None, ![s].arg = None,
                            ![s].conn = None]
    /\ want' = [want EXCEPT ![s] = [Told(@, sess[s].run) EXCEPT !.tx = FALSE, !.cut = FALSE]]
    /\ UNCHANGED <<parked>>

\* The pinger finds the connection of an idle session dead and drops it; the
\* client is not told, and a transaction it had open is cut.
PingerDrops(s) ==
    /\ Idle(s)
    /\ sess[s].conn # None
    /\ losses < MaxLosses
    /\ losses' = losses + 1
    /\ wire' = [wire EXCEPT ![sess[s].conn] = NoConnection]
    /\ sess' = [sess EXCEPT ![s].conn = None]
    /\ want' = [want EXCEPT ![s].cut = @ \/ want[s].tx, ![s].listed = FALSE]
    /\ UNCHANGED <<parked>>

-----------------------------------------------------------------------------
(* Prepared statements *)

\* What MySQL lets a client prepare.
StmtKinds == {"select", "calc rows", "user variable", "commit", "autocommit off"}
             \cup Companions \cup Changing \cup SetStatements

\* HandleStmtExecute runs on the connection of the handle.  Its safety is
\* tracked like a query's, but a SET is not recorded for replay, and the
\* connection is not let go.
ExecuteStmt(s) ==
    LET c == sess[s].conn IN
    /\ Idle(s) /\ c # None /\ sess[s].openStmts > 0
    /\ s \in wire[c].stmts
    /\ \E k \in StmtKinds \cap Statements :
          LET w == Executed(s, k, None, wire[c]) IN
          /\ wire' = [wire EXCEPT ![c] = w]
          /\ sess' = [sess EXCEPT ![s] = TrackSafety(@, k, w)]
          /\ want' = [want EXCEPT ![s] = Wanted(s, k, None)]
    /\ UNCHANGED <<parked, losses>>

\* The connection of the handle is gone: the error is taken for one of the
\* session's present connection, which is discarded.
ExecuteStaleStmt(s) ==
    LET c == sess[s].conn IN
    /\ Idle(s) /\ c # None /\ sess[s].openStmts > 0
    /\ s \notin wire[c].stmts
    /\ wire' = [wire EXCEPT ![c] = NoConnection]
    /\ sess' = [sess EXCEPT ![s].conn = None]
    /\ want' = [want EXCEPT ![s].listed = FALSE, ![s].tx = FALSE, ![s].cut = FALSE]
    /\ UNCHANGED <<parked, losses>>

\* COM_STMT_CLOSE of a handle whose connection is gone: likewise.
CloseStaleStmt(s) ==
    LET c == sess[s].conn IN
    /\ Idle(s) /\ sess[s].openStmts > 0
    /\ c # None => s \notin wire[c].stmts
    /\ wire' = IF c = None THEN wire ELSE [wire EXCEPT ![c] = NoConnection]
    /\ sess' = [sess EXCEPT ![s].conn = None, ![s].openStmts = @ - 1]
    /\ want' = [want EXCEPT ![s].listed = FALSE, ![s].cut = @ \/ want[s].tx]
    /\ UNCHANGED <<parked, losses>>

\* COM_STMT_CLOSE of the only handle of its session.
CloseStmt(s) ==
    LET c == sess[s].conn
        x == [sess[s] EXCEPT !.openStmts = @ - 1]
        m == [wire EXCEPT ![c].stmts = @ \ {s}]
    IN  /\ Idle(s) /\ sess[s].openStmts > 0
        /\ c # None /\ s \in wire[c].stmts
        /\ wire' = m
        /\ sess' = [sess EXCEPT ![s] = AfterRelease(x, m)]
        /\ parked' = IF LetsGo(x, m) THEN parked \cup {c} ELSE parked
        /\ UNCHANGED <<want, losses>>

-----------------------------------------------------------------------------
(* The end of a session, and what happens around it *)

\* Mutant: the connection of a session that ends is parked as it is.
UncleanGiveBack(s) ==
    /\ parked' = IF sess[s].conn = None THEN parked ELSE parked \cup {sess[s].conn}
    /\ UNCHANGED wire

\* The session's connection goes through Pool.Release.
GiveBack(s) ==
    LET c == sess[s].conn IN
    IF c = None THEN UNCHANGED <<wire, parked>> ELSE Released(wire[c], parked, c)

\* COM_RESET_CONNECTION: the client's session starts again, its database and
\* the sticky window apart.
ResetSession(s) ==
    /\ Idle(s)
    /\ GiveBack(s)
    /\ sess' = [sess EXCEPT ![s] = [NewSession EXCEPT !.db = sess[s].db,
                                                     !.wrote = sess[s].wrote]]
    /\ want' = [want EXCEPT ![s] = [NewWant EXCEPT !.db = want[s].db,
                                                  !.misdirected = want[s].misdirected]]
    /\ UNCHANGED losses

\* close, and the next client in the same place.
Disconnect(s) ==
    /\ Idle(s)
    /\ sess[s] # NewSession
    /\ GiveBack(s)
    /\ sess' = [sess EXCEPT ![s] = NewSession]
    /\ want' = [want EXCEPT ![s] = NewWant]
    /\ UNCHANGED losses

\* The sticky window of a session passes.
StickyPasses(s) ==
    /\ sess[s].wrote
    /\ sess' = [sess EXCEPT ![s].wrote = FALSE]
    /\ UNCHANGED <<wire, parked, want, losses>>

\* A parked connection is retired, or found dead and discarded.
ParkedLeaves(c) ==
    /\ c \in parked
    /\ parked' = parked \ {c}
    /\ wire' = [wire EXCEPT ![c] = NoConnection]
    /\ UNCHANGED <<sess, want, losses>>

-----------------------------------------------------------------------------
Begin(s, k, d) ==
    \/ BeginAttached(s, k, d) \/ BeginAcquires(s, k, d)
    \/ BeginFails(s, k, d) \/ BeginRefused(s, k, d)

\* A command of the client.  It prepares at most one statement at a time.
Command(s) ==
    \/ \E k \in Statements \ {"use", "init db", "prepare"} : Begin(s, k, None)
    \/ \E k \in Statements \cap {"use", "init db"}, d \in Databases : Begin(s, k, d)
    \/ "init db" \in Statements /\ \E d \in Databases : SelectsDatabase(s, d)
    \/ "prepare" \in Statements /\ sess[s].openStmts = 0 /\ Begin(s, "prepare", None)
    \/ ExecuteStmt(s) \/ ExecuteStaleStmt(s)
    \/ CloseStmt(s) \/ CloseStaleStmt(s)
    \/ ResetSession(s) \/ Disconnect(s)

Outcome(s) == Succeeds(s) \/ FailsInMySQL(s) \/ LosesConnection(s)

Next ==
    \/ \E s \in Sessions :
          \/ Command(s) \/ Outcome(s) \/ PingerDrops(s)
          \/ StickyPasses(s)
    \/ \E c \in Conns : ParkedLeaves(c)

Spec == Init /\ [][Next]_vars

-----------------------------------------------------------------------------
(* Properties *)

Running(s) == ~Idle(s)
Under(s)   == wire[sess[s].conn]

\* Every connection is parked, attached to one session, or closed, and a
\* session that runs a statement has one.
TypeOK ==
    /\ parked \subseteq Open
    /\ \A s \in Sessions :
          /\ sess[s].conn # None => sess[s].conn \in Open \ parked
          /\ Running(s) => sess[s].conn # None
          /\ \A t \in Sessions :
                sess[s].conn = sess[t].conn => s = t \/ sess[s].conn = None
    /\ losses \in 0..MaxLosses

\* "a false negative hands another client a connection carrying somebody
\* else's temporary table, lock or variable" (safety.go:14): a parked
\* connection holds nothing but what its two labels say.
ParkedConnectionsAreClean ==
    \A c \in parked :
       /\ wire[c].tx = None /\ wire[c].auto
       /\ wire[c].dirt = {} /\ wire[c].stmts = {}
       /\ wire[c].vars = Replay(wire[c].sig)
       /\ wire[c].bound \in {None, wire[c].db}

\* "Session settings ... gora tracks them and replays them" (README.md:33):
\* a statement runs under the variables its own session has set.
OwnVariables ==
    \A s \in Sessions : Running(s) => Under(s).vars = want[s].vars

\* "BoundDB is the database the connection is currently bound to"
\* (pool.go:37): a statement runs in the database its session selected last,
\* if the last COM_INIT_DB did not fail.
OwnDatabase ==
    \A s \in Sessions :
       /\ Running(s) /\ sess[s].run # "init db"
       /\ want[s].db # None /\ ~want[s].misdirected
       => Under(s).db = want[s].db

\* The statements of a transaction run in that transaction, on the server
\* and the connection where it was begun, and none runs in it after its end;
\* while its connection lives.
TransactionStays ==
    \A s \in Sessions : Running(s) /\ ~want[s].cut /\ Under(s).auto =>
       Under(s).tx = IF want[s].tx THEN s ELSE None

\* "reads go to them while writes go to the primary" (README.md:86): nothing
\* that changes data, or opens or ends a transaction, runs on a replica.
WritesOnPrimary ==
    \A s \in Sessions :
       Running(s) /\ sess[s].run \in Changing \cup {"begin", "commit", "rollback"}
       => Under(s).home = Primary

\* "After a session writes, its own reads stay on the primary for
\* routing.sticky_after_write" (README.md:87).
ReadsOwnWrites ==
    \A s \in Sessions :
       Running(s) /\ Classify(sess[s].run) = "select" /\ Sticky /\ sess[s].wrote
       => Under(s).home = Primary

\* "The companion statement (SELECT FOUND_ROWS(), ...) has to run on this
\* same connection" (session.go:354): it reads the counter of the listing
\* that its session ran just before.
CompanionSeesItsListing ==
    \A s \in Sessions :
       Running(s) /\ sess[s].run = "found rows" /\ want[s].listed
       => Under(s).calc = s

-----------------------------------------------------------------------------
(* Promises of the comments that TLC refutes (README.md says how) *)

\* "The client is waiting for a verdict on this database name"
\* (session.go:490): after a refusal the session stays where it was, as it
\* does on a direct connection.
RefusedDatabaseChangesNothing ==
    \A s \in Sessions :
       Running(s) /\ sess[s].run # "init db" /\ want[s].db # None
       => Under(s).db = want[s].db

\* "Sessions holding state - open transactions ... - keep their connection
\* attached and behave exactly like a direct connection would"
\* (session.go:40): no statement of a transaction runs outside it unless the
\* client was told that the transaction is gone.
TransactionNotCut ==
    \A s \in Sessions : Running(s) /\ want[s].tx => Under(s).tx = s
=============================================================================
