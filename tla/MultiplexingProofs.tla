------------------------- MODULE MultiplexingProofs -------------------------
(***************************************************************************)
(* What holds of sessions over shared connections for any sessions,        *)
(* connections, nodes and statements: a connection is in one place, and    *)
(* the statements of a transaction run in it.                              *)
(***************************************************************************)
EXTENDS Multiplexing, TLAPS, SequenceTheorems

SessFields == {"run", "conn", "db", "inTx", "pinned", "holdNext", "openStmts",
               "sets", "wrote", "arg"}
WireFields == {"home", "sig", "bound", "vars", "db", "tx", "auto", "dirt",
               "stmts", "calc"}
WantFields == {"vars", "db", "misdirected", "tx", "cut", "listed"}

IsSess(x) == DOMAIN x = SessFields
IsWire(w) == DOMAIN w = WireFields /\ w.auto \in BOOLEAN
IsWant(v) == DOMAIN v = WantFields

-----------------------------------------------------------------------------
(* What the operators on a connection keep *)

\* w is as open, and as deep in a transaction, as v.
SameTx(w, v) == w.home = v.home /\ w.tx = v.tx /\ w.auto = v.auto

\* Going through a reset ends a transaction, nothing else opens one.
Ended(w, v) == w.home = v.home /\ (v.tx = None => w.tx = None)

\* A new connection.
LEMMA FreshFacts ==
    ASSUME NEW n
    PROVE  /\ IsWire(Fresh(n)) /\ Fresh(n).home = n /\ Fresh(n).tx = None
           /\ Fresh(n).auto /\ Fresh(n).sig = <<>> /\ Fresh(n).bound = None
           /\ Fresh(n).dirt = {} /\ Fresh(n).stmts = {}
           /\ Fresh(n).vars = DefaultVars
  BY DEF Fresh, NoConnection, IsWire, WireFields

\* A reset ends the transaction and keeps the connection open.
LEMMA ResetFacts ==
    ASSUME NEW w, IsWire(w)
    PROVE  /\ IsWire(ResetConn(w)) /\ ResetConn(w).home = w.home
           /\ ResetConn(w).tx = None
<1>1. CASE ResetUnsupported
  BY <1>1 DEF ResetConn, ServerReset, IsWire, WireFields
<1>2. CASE ~ResetUnsupported
  BY <1>2, FreshFacts DEF ResetConn, ServerReset, IsWire, WireFields
<1> QED
  BY <1>1, <1>2

\* Clearing another session's variables may be a reset.
LEMMA ClearedFacts ==
    ASSUME NEW x, NEW w, IsWire(w)
    PROVE  IsWire(Cleared(x, w)) /\ Ended(Cleared(x, w), w)
  BY ResetFacts DEF Cleared, Ended

\* Binding a database is no matter of transactions.
LEMMA BoundFacts ==
    ASSUME NEW x, NEW w, IsWire(w)
    PROVE  IsWire(Bound(x, w)) /\ SameTx(Bound(x, w), w)
  BY DEF Bound, SameTx, IsWire, WireFields

\* Neither is the replay of the SETs.
LEMMA PreparedFacts ==
    ASSUME NEW x, NEW w, IsWire(w)
    PROVE  IsWire(Prepared(x, w)) /\ Ended(Prepared(x, w), w)
<1> DEFINE b == Bound(x, Cleared(x, w))
<1>1. IsWire(b) /\ Ended(b, w)
  BY ClearedFacts, BoundFacts DEF SameTx, Ended
<1>2. Prepared(x, w) = IF b.sig # x.sets
        THEN [b EXCEPT !.vars = FoldLeft(ApplySet, b.vars, x.sets), !.sig = x.sets]
        ELSE b
  BY DEF Prepared
<1> HIDE DEF b
<1> QED
  BY <1>1, <1>2 DEF IsWire, WireFields, Ended

\* An error on the way leaves the same kind of connection.
LEMMA StoppedFacts ==
    ASSUME NEW x, NEW w, IsWire(w), NEW r \in StoppedAt(x, w)
    PROVE  IsWire(r) /\ Ended(r, w)
<1> DEFINE c == Cleared(x, w)
           b == Bound(x, c)
<1>1. IsWire(c) /\ Ended(c, w) /\ IsWire(b) /\ Ended(b, w)
  BY ClearedFacts, BoundFacts DEF SameTx, Ended
<1>2. r = c \/ \E u : r = [b EXCEPT !.vars = u]
  BY DEF StoppedAt
<1> HIDE DEF b, c
<1> QED
  BY <1>1, <1>2 DEF IsWire, WireFields, Ended

\* What a statement does to a transaction, ...
TxAfter(s, k, w) ==
    IF k = "begin" THEN s
    ELSE IF k \in {"commit", "rollback", "lock tables"} THEN None
    ELSE w.tx

\* ... and that it leaves the rest of a connection alone, unless it is one of
\* the statements that are about it.
Ran(s, k, w, r) ==
    /\ IsWire(r) /\ r.home = w.home /\ r.sig = w.sig
    /\ r.auto \in BOOLEAN /\ (r.auto <=> w.auto /\ k # "autocommit off")
    /\ w.auto => r.tx = TxAfter(s, k, w)
    /\ k \notin SetStatements => r.vars = w.vars
    /\ k \notin {"use", "init db"} => r.db = w.db /\ r.bound = w.bound
    /\ k = "init db" => r.db = r.bound
    /\ k \notin Leaves => r.dirt = w.dirt
    /\ k # "prepare" => r.stmts = w.stmts
    /\ k = "prepare" => r.stmts = w.stmts \cup {s}

\* One case for each arm of Executed.
LEMMA ExecutedFacts ==
    ASSUME NEW s, NEW k, NEW d, NEW w, IsWire(w)
    PROVE  Ran(s, k, w, Executed(s, k, d, w))
<1> DEFINE r == Executed(s, k, d, w)
           begun == IF w.auto \/ (Classify(k) # "select" /\ k \notin Changing) THEN w
                    ELSE [w EXCEPT !.tx = s]
           counted == IF Classify(k) = "select" /\ k # "last id"
                   THEN [begun EXCEPT !.calc = IF k = "calc rows" THEN s ELSE None]
                   ELSE begun
           Same(v) == /\ IsWire(v) /\ v.home = w.home /\ v.sig = w.sig
                      /\ v.auto = w.auto /\ (w.auto => v.tx = w.tx)
                      /\ v.vars = w.vars /\ v.db = w.db /\ v.bound = w.bound
                      /\ v.dirt = w.dirt /\ v.stmts = w.stmts
<1> SUFFICES Ran(s, k, w, r)
  OBVIOUS
<1>1. Same(begun)
  BY DEF IsWire, WireFields
<1>2. Same(counted)
  <2> HIDE DEF begun
  <2> QED BY <1>1 DEF IsWire, WireFields
<1>3. r =
        CASE k \in SetStatements          -> [w EXCEPT !.vars = ApplySet(@, k)]
          [] k = "begin"                  -> [w EXCEPT !.tx = s]
          [] k \in {"commit", "rollback"} -> [w EXCEPT !.tx = None]
          [] k = "autocommit off"         -> [w EXCEPT !.auto = FALSE]
          [] k = "use"                    -> [w EXCEPT !.db = d]
          [] k = "init db"                -> [w EXCEPT !.db = d, !.bound = d]
          [] k = "lock tables"            -> [w EXCEPT !.dirt = @ \cup {s}, !.tx = None]
          [] k = "prepare"                -> [w EXCEPT !.stmts = @ \cup {s}]
          [] k \in Leaves \ {"lock tables"} -> [counted EXCEPT !.dirt = @ \cup {s}]
          [] OTHER                        -> counted
  BY DEF Executed
<1> HIDE DEF r, counted, begun
<1>4. CASE k \in SetStatements
  <2>1. r = [w EXCEPT !.vars = ApplySet(w.vars, k)]
    BY <1>3, <1>4 DEF SetStatements, Leaves
  <2> QED
    BY <2>1, <1>4 DEF IsWire, WireFields, TxAfter, SetStatements, Leaves, Ran
<1>5. CASE k = "begin"
  <2>1. r = [w EXCEPT !.tx = s]
    BY <1>3, <1>5 DEF SetStatements, Leaves
  <2> QED
    BY <2>1, <1>5 DEF IsWire, WireFields, TxAfter, SetStatements, Leaves, Ran
<1>6. CASE k \in {"commit", "rollback"}
  <2>1. r = [w EXCEPT !.tx = None]
    BY <1>3, <1>6 DEF SetStatements, Leaves
  <2> QED
    BY <2>1, <1>6 DEF IsWire, WireFields, TxAfter, SetStatements, Leaves, Ran
<1>7. CASE k = "autocommit off"
  <2>1. r = [w EXCEPT !.auto = FALSE]
    BY <1>3, <1>7 DEF SetStatements, Leaves
  <2> QED
    BY <2>1, <1>7 DEF IsWire, WireFields, TxAfter, SetStatements, Leaves, Ran
<1>8. CASE k = "use"
  <2>1. r = [w EXCEPT !.db = d]
    BY <1>3, <1>8 DEF SetStatements, Leaves
  <2> QED
    BY <2>1, <1>8 DEF IsWire, WireFields, TxAfter, SetStatements, Leaves, Ran
<1>9. CASE k = "init db"
  <2>1. r = [w EXCEPT !.db = d, !.bound = d]
    BY <1>3, <1>9 DEF SetStatements, Leaves
  <2> QED
    BY <2>1, <1>9 DEF IsWire, WireFields, TxAfter, SetStatements, Leaves, Ran
<1>10. CASE k = "lock tables"
  <2>1. PICK u : r = [w EXCEPT !.dirt = u, !.tx = None]
    BY <1>3, <1>10 DEF SetStatements, Leaves
  <2>2. /\ IsWire(r) /\ r.home = w.home /\ r.sig = w.sig
        /\ r.auto \in BOOLEAN /\ (r.auto <=> w.auto) /\ r.tx = None
        /\ r.vars = w.vars /\ r.db = w.db /\ r.bound = w.bound /\ r.stmts = w.stmts
    BY <2>1 DEF IsWire, WireFields
  <2>3. TxAfter(s, k, w) = None
    BY <1>10 DEF TxAfter
  <2> QED
    BY <2>2, <2>3, <1>10 DEF Leaves, Ran
<1>11. CASE k = "prepare"
  <2>1. r = [w EXCEPT !.stmts = w.stmts \cup {s}]
    BY <1>3, <1>11 DEF SetStatements, Leaves
  <2> QED
    BY <2>1, <1>11 DEF IsWire, WireFields, TxAfter, SetStatements, Leaves, Ran
<1>12. CASE k \in Leaves \ {"lock tables"}
  <2>1. r = [counted EXCEPT !.dirt = counted.dirt \cup {s}]
    BY <1>3, <1>12 DEF SetStatements, Leaves
  <2> QED
    BY <2>1, <1>2, <1>12 DEF IsWire, WireFields, TxAfter, SetStatements, Leaves, Ran
<1>13. CASE k \notin SetStatements \cup Leaves \cup
               {"begin", "commit", "rollback", "autocommit off", "use", "init db",
                "prepare"}
  <2>1. r = counted
    BY <1>3, <1>13 DEF SetStatements, Leaves
  <2> QED
    BY <2>1, <1>2, <1>13 DEF IsWire, WireFields, TxAfter, SetStatements, Leaves, Ran
<1> QED
  BY <1>4, <1>5, <1>6, <1>7, <1>8, <1>9, <1>10, <1>11, <1>12, <1>13

-----------------------------------------------------------------------------
(* What the operators on a session keep *)

\* A session that starts.
LEMMA NewSessionFacts ==
    /\ IsSess(NewSession) /\ NewSession.run = None /\ NewSession.conn = None
    /\ ~NewSession.pinned /\ NewSession.openStmts = 0 /\ NewSession.sets = <<>>
  BY DEF NewSession, IsSess, SessFields

\* Recording a SET.
LEMMA TrackSetFacts ==
    ASSUME NEW x, NEW k, IsSess(x)
    PROVE  LET t == TrackSet(x, k) IN
           /\ IsSess(t) /\ t.run = x.run /\ t.conn = x.conn
           /\ t.openStmts = x.openStmts /\ (x.pinned => t.pinned)
           /\ k \notin SetStatements => t = x
  BY DEF TrackSet, IsSess, SessFields

\* Noting what a statement leaves behind.
LEMMA TrackSafetyFacts ==
    ASSUME NEW x, NEW k, NEW w, IsSess(x)
    PROVE  LET t == TrackSafety(x, k, w) IN
           /\ IsSess(t) /\ t.run = x.run /\ t.conn = x.conn
           /\ t.openStmts = x.openStmts /\ t.sets = x.sets
           /\ t.pinned <=> x.pinned \/ k \in Pins
<1>1. \E a, b, c : TrackSafety(x, k, w) =
        [x EXCEPT !.inTx = a, !.wrote = b, !.pinned = x.pinned \/ k \in Pins, !.holdNext = c]
  BY DEF TrackSafety
<1> QED
  BY <1>1 DEF IsSess, SessFields

\* A session keeps its connection or lets it go.
LEMMA AfterReleaseFacts ==
    ASSUME NEW x, NEW m, IsSess(x)
    PROVE  LET y == AfterRelease(x, m) IN
           /\ IsSess(y) /\ y.run = x.run /\ (y.pinned <=> x.pinned)
           /\ y.openStmts = x.openStmts /\ y.sets = x.sets
           /\ y.conn = IF LetsGo(x, m) THEN None ELSE x.conn
  BY DEF AfterRelease, IsSess, SessFields

\* What a statement does to what the client may expect of its transaction.
WantsTx(v, k, r) ==
    /\ IsWant(r)
    /\ k = "begin" => r.tx /\ ~r.cut
    /\ k \in {"commit", "rollback", "lock tables"} => ~r.tx /\ ~r.cut
    /\ k \notin {"begin", "commit", "rollback", "lock tables"} =>
          (r.tx <=> v.tx) /\ (r.cut <=> v.cut)

\* One case for each arm of Wanted.
LEMMA WantedFacts ==
    ASSUME NEW s, NEW k, NEW d, IsWant(want[s])
    PROVE  WantsTx(want[s], k, Wanted(s, k, d))
<1> DEFINE v == [want[s] EXCEPT !.listed = (k = "calc rows")]
           r == Wanted(s, k, d)
<1>1. IsWant(v) /\ (v.tx <=> want[s].tx) /\ (v.cut <=> want[s].cut)
  BY DEF IsWant, WantFields
<1>2. r =
        CASE k \in SetStatements          -> [v EXCEPT !.vars = ApplySet(@, k)]
          [] k = "begin"                  -> [v EXCEPT !.tx = TRUE, !.cut = FALSE]
          [] k \in {"commit", "rollback", "lock tables"} -> [v EXCEPT !.tx = FALSE, !.cut = FALSE]
          [] k \in {"use", "init db"}     -> [v EXCEPT !.db = d, !.misdirected = FALSE]
          [] OTHER                        -> v
  BY DEF Wanted
<1> SUFFICES WantsTx(want[s], k, r)
  OBVIOUS
<1> HIDE DEF v, r
<1>3. CASE k \in SetStatements
  <2>1. r = [v EXCEPT !.vars = ApplySet(v.vars, k)]
    BY <1>2, <1>3 DEF SetStatements
  <2> QED
    BY <2>1, <1>1, <1>3 DEF IsWant, WantFields, SetStatements, WantsTx
<1>4. CASE k = "begin"
  <2>1. r = [v EXCEPT !.tx = TRUE, !.cut = FALSE]
    BY <1>2, <1>4 DEF SetStatements
  <2> QED
    BY <2>1, <1>1, <1>4 DEF IsWant, WantFields, WantsTx
<1>5. CASE k \in {"commit", "rollback", "lock tables"}
  <2>1. r = [v EXCEPT !.tx = FALSE, !.cut = FALSE]
    BY <1>2, <1>5 DEF SetStatements
  <2> QED
    BY <2>1, <1>1, <1>5 DEF IsWant, WantFields, WantsTx
<1>6. CASE k \in {"use", "init db"}
  <2>1. r = [v EXCEPT !.db = d, !.misdirected = FALSE]
    BY <1>2, <1>6 DEF SetStatements
  <2> QED
    BY <2>1, <1>1, <1>6 DEF IsWant, WantFields, WantsTx
<1>7. CASE k \notin SetStatements \cup
             {"begin", "commit", "rollback", "lock tables", "use", "init db"}
  <2>1. r = v
    BY <1>2, <1>7 DEF SetStatements
  <2> QED
    BY <2>1, <1>1, <1>7 DEF WantsTx
<1> QED
  BY <1>3, <1>4, <1>5, <1>6, <1>7

\* An error that the client is told ends no transaction.
LEMMA ToldFacts ==
    ASSUME NEW v, NEW k, IsWant(v)
    PROVE  /\ IsWant(Told(v, k)) /\ (Told(v, k).tx <=> v.tx)
           /\ Told(v, k).cut <=> v.cut
  BY DEF Told, IsWant, WantFields

-----------------------------------------------------------------------------
(* The invariant *)

Typed ==
    /\ DOMAIN sess = Sessions /\ DOMAIN want = Sessions /\ DOMAIN wire = Conns
    /\ \A s \in Sessions : IsSess(sess[s]) /\ IsWant(want[s])
    /\ \A c \in Conns : IsWire(wire[c])
    /\ parked \subseteq Conns
    /\ losses \in 0..MaxLosses

\* A parked connection is open and in no transaction.
ParkedFree(c) == wire[c].home # None /\ wire[c].tx = None

\* A session has a connection, which is open and in the transaction of the
\* client, or it has none and the client has no transaction to lose.
Attached(s) ==
    /\ sess[s].conn \in Conns \cup {None}
    /\ sess[s].run # None => sess[s].conn # None
    /\ sess[s].conn = None => ~want[s].tx \/ want[s].cut
    /\ sess[s].conn # None =>
          /\ wire[sess[s].conn].home # None
          /\ sess[s].conn \notin parked
          /\ ~want[s].cut /\ wire[sess[s].conn].auto =>
                /\ want[s].tx => wire[sess[s].conn].tx = s
                /\ ~want[s].tx => wire[sess[s].conn].tx = None

Alone ==
    \A s, t \in Sessions :
       sess[s].conn = sess[t].conn => s = t \/ sess[s].conn = None

PlaceInv ==
    /\ Typed
    /\ \A c \in parked : ParkedFree(c)
    /\ \A s \in Sessions : Attached(s)
    /\ Alone

\* The invariant says what TypeOK does, ...
LEMMA PlaceTypeOK == PlaceInv => TypeOK
  BY DEF PlaceInv, Typed, ParkedFree, Attached, Alone, TypeOK, Open, Running, Idle

\* ... and what TransactionStays does.
LEMMA PlaceTransactions == PlaceInv => TransactionStays
  BY DEF PlaceInv, Attached, TransactionStays, Running, Idle, Under

\* At first nothing is attached or parked.
LEMMA PlaceInit == Init => PlaceInv
<1> SUFFICES ASSUME Init PROVE PlaceInv
  OBVIOUS
<1>1. \A s \in Sessions : sess[s] = NewSession /\ want[s] = NewWant
  BY DEF Init
<1>2. IsWant(NewWant) /\ ~NewWant.tx
  BY DEF NewWant, IsWant, WantFields
<1>3. IsWire(NoConnection)
  BY DEF NoConnection, IsWire, WireFields
<1>4. Typed
  BY <1>1, <1>2, <1>3, NewSessionFacts, BoundsAssumption DEF Init, Typed
<1>5. \A s \in Sessions : sess[s].conn = None /\ sess[s].run = None /\ ~want[s].tx
  BY <1>1, <1>2, NewSessionFacts
<1> QED
  BY <1>4, <1>5 DEF Init, PlaceInv, Attached, Alone

\* The connections a step of s may touch: nobody else has them.
Reach(s) == {c \in Conns : \A t \in Sessions \ {s} : sess[t].conn # c}

\* A step of s, which leaves the other sessions and their connections alone.
OwnStep(s) ==
    /\ Typed'
    /\ \A t \in Sessions \ {s} : sess'[t] = sess[t] /\ want'[t] = want[t]
    /\ \A c \in Conns \ Reach(s) : wire'[c] = wire[c] /\ (c \in parked' => c \in parked)
    /\ \A c \in parked' \cap Reach(s) : ParkedFree(c)'
    /\ sess'[s].conn \in Reach(s) \cup {None}
    /\ Attached(s)'

\* Such a step keeps the invariant of the others.
LEMMA OwnStepKeeps ==
    ASSUME PlaceInv, NEW s \in Sessions, OwnStep(s)
    PROVE  PlaceInv'
<1>1. \A c \in parked' : ParkedFree(c)'
  BY DEF OwnStep, PlaceInv, ParkedFree, Typed
<1>2. ASSUME NEW t \in Sessions, t # s PROVE Attached(t)'
  <2>1. sess'[t] = sess[t] /\ want'[t] = want[t] /\ Attached(t)
    BY <1>2 DEF OwnStep, PlaceInv
  <2>2. sess[t].conn # None => sess[t].conn \in Conns \ Reach(s)
    BY <1>2, <2>1 DEF Attached, Reach
  <2>3. sess[t].conn # None =>
           wire'[sess[t].conn] = wire[sess[t].conn] /\ sess[t].conn \notin parked'
    BY <2>1, <2>2 DEF OwnStep, Attached
  <2> QED
    BY <2>1, <2>3 DEF Attached
<1>3. Alone'
  BY DEF OwnStep, PlaceInv, Alone, Reach
<1> QED
  BY <1>1, <1>2, <1>3 DEF OwnStep, PlaceInv

\* The connection of s is within its reach.
LEMMA OwnReach ==
    ASSUME PlaceInv, NEW s \in Sessions, sess[s].conn # None
    PROVE  sess[s].conn \in Reach(s) /\ sess[s].conn \in Conns
  BY DEF PlaceInv, Attached, Alone, Reach

\* So is what comes from a pool.
LEMMA Acquired ==
    ASSUME PlaceInv, NEW n, n # None, NEW c \in Acquirable(n)
    PROVE  /\ c \in Conns
           /\ \A t \in Sessions : sess[t].conn # c
           /\ \A t \in Sessions : c \in Reach(t)
           /\ IsWire(FromPool(c, n)) /\ FromPool(c, n).home = n
           /\ FromPool(c, n).tx = None
<1>1. c \in Conns /\ (c \in parked \/ wire[c].home = None)
  BY DEF Acquirable, Open, PlaceInv, Typed
<1>2. \A t \in Sessions : sess[t].conn # c
  BY <1>1, PlacesAssumption DEF PlaceInv, Attached
<1>3. /\ IsWire(FromPool(c, n)) /\ FromPool(c, n).home = n
      /\ FromPool(c, n).tx = None
  BY <1>1, FreshFacts DEF FromPool, Acquirable, Open, PlaceInv, Typed, ParkedFree
<1> QED
  BY <1>1, <1>2, <1>3 DEF Reach

\* A session is routed to a node, and away from its connection only if it may
\* let go of it.
LEMMA Routed ==
    ASSUME PlaceInv, NEW s \in Sessions, NEW k, NEW n \in Route(s, k),
           sess[s].conn # None => wire[sess[s].conn].home # n
    PROVE  /\ n # None
           /\ sess[s].conn # None =>
                 /\ wire[sess[s].conn].tx = None /\ wire[sess[s].conn].auto
                 /\ ~sess[s].pinned /\ sess[s].openStmts = 0
<1>1. n \in Nodes => n # None
  BY NodesAssumption DEF Nodes
<1>2. CASE sess[s].conn = None
  BY <1>1, <1>2 DEF Route, Readers, Nodes
<1>3. CASE sess[s].conn # None
  <2>1. Releasable(sess[s], wire) /\ ~sess[s].holdNext
    BY <1>3 DEF Route
  <2> QED
    BY <2>1, <1>1, <1>3 DEF Route, Readers, Nodes, Releasable
<1> QED
  BY <1>2, <1>3

\* It may then be parked, and the client has no transaction to lose.
LEMMA MovesAway ==
    ASSUME PlaceInv, NEW s \in Sessions,
           sess[s].conn # None => wire[sess[s].conn].tx = None /\ wire[sess[s].conn].auto
    PROVE  /\ ~want[s].tx \/ want[s].cut
           /\ ParkedByMove(s) \subseteq Conns
           /\ \A c \in ParkedByMove(s) : ParkedFree(c)
           /\ \A c \in Conns \ Reach(s) : c \in ParkedByMove(s) => c \in parked
<1>1. Attached(s) /\ s # None
  BY PlacesAssumption DEF PlaceInv
<1> QED
  BY <1>1, OwnReach DEF PlaceInv, Attached, ParkedByMove, ParkedFree, Typed

-----------------------------------------------------------------------------
(* One lemma for each action *)

\* A statement on the connection at hand.
LEMMA BeginAttachedKeeps ==
    ASSUME PlaceInv, NEW s \in Sessions, NEW k, NEW d, BeginAttached(s, k, d)
    PROVE  PlaceInv'
<1>1. /\ DOMAIN sess' = Sessions /\ IsSess(sess'[s]) /\ sess'[s].conn = sess[s].conn
      /\ \A t \in Sessions \ {s} : sess'[t] = sess[t]
  <2>1. PICK e : sess' = [sess EXCEPT ![s].run = k, ![s].arg = d, ![s].db = e]
    BY DEF BeginAttached
  <2> QED
    BY <2>1 DEF PlaceInv, Typed, IsSess, SessFields
<1>2. sess[s].conn # None /\ UNCHANGED <<wire, parked, want, losses>>
  BY DEF BeginAttached
<1>3. Typed'
  BY <1>1, <1>2 DEF PlaceInv, Typed
<1>4. Attached(s)'
  BY <1>1, <1>2 DEF PlaceInv, Attached
<1> QED
  BY <1>1, <1>2, <1>3, <1>4, OwnReach, OwnStepKeeps DEF OwnStep, PlaceInv, ParkedFree

\* A connection from a pool; the one at hand goes to its own.
LEMMA BeginAcquiresKeeps ==
    ASSUME PlaceInv, NEW s \in Sessions, NEW k, NEW d, BeginAcquires(s, k, d)
    PROVE  PlaceInv'
<1>1. PICK n \in Route(s, k) :
         /\ sess[s].conn # None => wire[sess[s].conn].home # n
         /\ \E c \in Acquirable(n) :
               /\ wire' = [wire EXCEPT ![c] = Prepared(sess[s], FromPool(c, n))]
               /\ parked' = ParkedByMove(s) \ {c}
               /\ sess' = [sess EXCEPT ![s] = [sess[s] EXCEPT !.run = k, !.arg = d, !.conn = c]]
  BY DEF BeginAcquires
<1>2. PICK c \in Acquirable(n) :
         /\ wire' = [wire EXCEPT ![c] = Prepared(sess[s], FromPool(c, n))]
         /\ parked' = ParkedByMove(s) \ {c}
         /\ sess' = [sess EXCEPT ![s] = [sess[s] EXCEPT !.run = k, !.arg = d, !.conn = c]]
  BY <1>1
<1>3. n # None /\ (~want[s].tx \/ want[s].cut) /\ UNCHANGED <<want, losses>>
  BY <1>1, Routed, MovesAway DEF BeginAcquires
<1>4. c \in Conns /\ c \in Reach(s) /\ sess[s].conn # c
  BY <1>2, <1>3, Acquired
<1>5. /\ DOMAIN sess' = Sessions /\ IsSess(sess'[s]) /\ sess'[s].conn = c
      /\ \A t \in Sessions \ {s} : sess'[t] = sess[t]
  BY <1>2 DEF PlaceInv, Typed, IsSess, SessFields
<1>6. /\ DOMAIN wire' = Conns /\ IsWire(wire'[c]) /\ wire'[c].home = n /\ wire'[c].tx = None
      /\ \A b \in Conns \ {c} : wire'[b] = wire[b]
  <2>1. /\ IsWire(Prepared(sess[s], FromPool(c, n)))
        /\ Ended(Prepared(sess[s], FromPool(c, n)), FromPool(c, n))
    BY <1>3, <1>2, Acquired, PreparedFacts
  <2> HIDE DEF Ended
  <2>2. wire'[c] = Prepared(sess[s], FromPool(c, n))
    BY <1>2, <1>4 DEF PlaceInv, Typed
  <2> QED
    BY <1>2, <1>3, <2>1, <2>2, Acquired DEF PlaceInv, Typed, Ended
<1>7. /\ parked' \subseteq Conns
      /\ \A b \in parked' : b # c /\ b \in ParkedByMove(s)
      /\ \A b \in parked' : ParkedFree(b)'
  BY <1>1, <1>2, <1>6, Routed, MovesAway DEF ParkedFree
<1>8. Typed'
  BY <1>3, <1>5, <1>6, <1>7 DEF PlaceInv, Typed
<1>9. Attached(s)'
  BY <1>2, <1>3, <1>4, <1>5, <1>6, <1>7, PlacesAssumption DEF Attached
<1>10. \A b \in Conns \ Reach(s) : b \in parked' => b \in parked
  BY <1>1, <1>7, Routed, MovesAway
<1> QED
  BY <1>3, <1>4, <1>5, <1>6, <1>7, <1>8, <1>9, <1>10, OwnStepKeeps DEF OwnStep

\* A connection from a pool that may go back at once.
LEMMA SelectsDatabaseKeeps ==
    ASSUME PlaceInv, NEW s \in Sessions, NEW d, SelectsDatabase(s, d)
    PROVE  PlaceInv'
<1> DEFINE x == [sess[s] EXCEPT !.db = d]
           y(c) == [x EXCEPT !.conn = c]
           m(c, n) == [wire EXCEPT ![c] = Prepared(x, FromPool(c, n))]
<1>1. PICK n \in Route(s, "init db") : \E c \in Acquirable(n) :
          /\ wire' = m(c, n)
          /\ sess' = [sess EXCEPT ![s] = AfterRelease(y(c), m(c, n))]
          /\ parked' = IF LetsGo(y(c), m(c, n)) THEN parked \cup {c} ELSE parked \ {c}
  BY DEF SelectsDatabase
<1>2. PICK c \in Acquirable(n) :
          /\ wire' = m(c, n)
          /\ sess' = [sess EXCEPT ![s] = AfterRelease(y(c), m(c, n))]
          /\ parked' = IF LetsGo(y(c), m(c, n)) THEN parked \cup {c} ELSE parked \ {c}
  BY <1>1
<1>3. /\ sess[s].conn = None /\ sess[s].run = None /\ losses' = losses
      /\ want' = [want EXCEPT ![s] = Wanted(s, "init db", d)]
  <2>1. /\ Idle(s) /\ x.conn = None /\ UNCHANGED losses
        /\ want' = [want EXCEPT ![s] = Wanted(s, "init db", d)]
    BY Zenon DEF SelectsDatabase
  <2>2. x.conn = sess[s].conn
    BY DEF PlaceInv, Typed, IsSess, SessFields
  <2> QED
    BY <2>1, <2>2 DEF Idle
<1>4. n # None /\ (~want[s].tx \/ want[s].cut)
  BY <1>1, <1>3, Routed, MovesAway
<1>5. c \in Conns /\ c \in Reach(s) /\ c # None
  BY <1>2, <1>4, Acquired, PlacesAssumption
<1>6. IsSess(y(c)) /\ y(c).conn = c /\ y(c).run = None
  BY <1>3 DEF PlaceInv, Typed, IsSess, SessFields
<1> HIDE DEF x
<1> DEFINE w == Prepared(x, FromPool(c, n))
<1>7. IsWire(w) /\ w.home = n /\ w.tx = None
  <2>1. /\ IsWire(FromPool(c, n)) /\ FromPool(c, n).home = n
        /\ FromPool(c, n).tx = None
    BY <1>2, <1>4, Acquired
  <2> QED
    BY <2>1, PreparedFacts DEF Ended
<1> HIDE DEF w
<1>8. /\ DOMAIN wire' = Conns /\ wire'[c] = w
      /\ \A b \in Conns \ {c} : wire'[b] = wire[b]
  BY <1>2, <1>5 DEF PlaceInv, Typed, w
<1> DEFINE z == y(c)
           mm == m(c, n)
<1>9. /\ sess' = [sess EXCEPT ![s] = AfterRelease(z, mm)] /\ IsSess(z)
      /\ z.conn = c /\ z.run = None
      /\ parked' = IF LetsGo(z, mm) THEN parked \cup {c} ELSE parked \ {c}
  BY <1>2, <1>6
<1> HIDE DEF y, m, z, mm
<1>10. /\ DOMAIN sess' = Sessions /\ IsSess(sess'[s]) /\ sess'[s].run = None
       /\ sess'[s].conn = IF LetsGo(z, mm) THEN None ELSE c
       /\ \A t \in Sessions \ {s} : sess'[t] = sess[t]
  BY <1>9, AfterReleaseFacts DEF PlaceInv, Typed
<1>11. /\ DOMAIN want' = Sessions /\ IsWant(want'[s]) /\ (~want'[s].tx \/ want'[s].cut)
       /\ \A t \in Sessions \ {s} : want'[t] = want[t]
  <2> DEFINE v == Wanted(s, "init db", d)
  <2>1. IsWant(v) /\ (v.tx <=> want[s].tx) /\ (v.cut <=> want[s].cut)
    <3>1. IsWant(want[s])
      BY DEF PlaceInv, Typed
    <3>2. WantsTx(want[s], "init db", v)
      BY <3>1, WantedFacts, Zenon
    <3> QED
      BY <3>2 DEF WantsTx
  <2> HIDE DEF v
  <2>2. want' = [want EXCEPT ![s] = v]
    BY <1>3 DEF v
  <2> QED
    BY <1>4, <2>1, <2>2 DEF PlaceInv, Typed
<1>12. /\ parked' \subseteq Conns /\ \A b \in parked' : ParkedFree(b)'
       /\ \A b \in Conns \ Reach(s) : b \in parked' => b \in parked
  BY <1>4, <1>5, <1>7, <1>8, <1>9 DEF PlaceInv, Typed, ParkedFree
<1>13. Typed'
  BY <1>3, <1>7, <1>8, <1>10, <1>11, <1>12 DEF PlaceInv, Typed
<1>14. Attached(s)'
  BY <1>4, <1>5, <1>7, <1>8, <1>9, <1>10, <1>11 DEF Attached
<1> QED
  BY <1>5, <1>8, <1>10, <1>11, <1>12, <1>13, <1>14, OwnStepKeeps DEF OwnStep

\* Steps that change nothing but s, what its client expects, and connections
\* within its reach.
SessChanges(s) ==
    /\ DOMAIN sess' = Sessions /\ IsSess(sess'[s])
    /\ \A t \in Sessions \ {s} : sess'[t] = sess[t]
WantChanges(s) ==
    /\ DOMAIN want' = Sessions /\ IsWant(want'[s])
    /\ \A t \in Sessions \ {s} : want'[t] = want[t]
WireChanges(s) ==
    /\ DOMAIN wire' = Conns /\ \A c \in Conns : IsWire(wire'[c])
    /\ \A c \in Conns \ Reach(s) : wire'[c] = wire[c] /\ (c \in parked' => c \in parked)
    /\ parked' \subseteq Conns /\ \A c \in parked' : ParkedFree(c)'

\* A session ends up without a connection.
LEMMA Detaches ==
    ASSUME PlaceInv, NEW s \in Sessions, SessChanges(s), WantChanges(s), WireChanges(s),
           sess'[s].conn = None, sess'[s].run = None, ~want'[s].tx \/ want'[s].cut,
           losses' \in 0..MaxLosses
    PROVE  PlaceInv'
<1>1. Typed'
  BY DEF PlaceInv, Typed, SessChanges, WantChanges, WireChanges
<1>2. Attached(s)'
  BY DEF Attached
<1>3. OwnStep(s)
  BY <1>1, <1>2 DEF OwnStep, SessChanges, WantChanges, WireChanges
<1> QED
  BY <1>3, OwnStepKeeps

\* A connection goes back to the pool, or is closed.
LEMMA ReleasedFacts ==
    ASSUME PlaceInv, NEW s \in Sessions, NEW c \in Reach(s), NEW w, NEW p \in SUBSET Conns,
           IsWire(w), w.home # None, Released(w, p, c),
           \A b \in p \ {c} : ParkedFree(b),
           \A b \in Conns \ Reach(s) : b \in p => b \in parked
    PROVE  WireChanges(s)
<1>1. c \in Conns
  BY DEF Reach
<1>2. IsWire(NoConnection)
  BY DEF NoConnection, IsWire, WireFields
<1>3. CASE Resettable(w)
  <2>1. wire' = [wire EXCEPT ![c] = ResetConn(w)] /\ parked' = p \cup {c}
    BY <1>3 DEF Released
  <2>2. IsWire(ResetConn(w)) /\ ResetConn(w).home = w.home /\ ResetConn(w).tx = None
    BY ResetFacts
  <2> QED
    BY <1>1, <2>1, <2>2 DEF WireChanges, PlaceInv, Typed, ParkedFree
<1>4. CASE ~Resettable(w)
  <2>1. wire' = [wire EXCEPT ![c] = NoConnection] /\ parked' = p \ {c}
    BY <1>4 DEF Released
  <2> QED
    BY <1>1, <1>2, <2>1 DEF WireChanges, PlaceInv, Typed, ParkedFree
<1> QED
  BY <1>3, <1>4

\* No connection; the one at hand has gone to the pool.
LEMMA BeginFailsKeeps ==
    ASSUME PlaceInv, NEW s \in Sessions, NEW k, NEW d, BeginFails(s, k, d)
    PROVE  PlaceInv'
<1>1. SessChanges(s) /\ sess'[s].conn = None /\ sess'[s].run = None
  <2>1. PICK e : sess' = [sess EXCEPT ![s].conn = None, ![s].db = e]
    BY DEF BeginFails
  <2>2. sess[s].run = None
    BY DEF BeginFails, Idle
  <2> QED
    BY <2>1, <2>2 DEF PlaceInv, Typed, IsSess, SessFields, SessChanges
<1>2. /\ ~want[s].tx \/ want[s].cut
      /\ ParkedByMove(s) \subseteq Conns
      /\ \A c \in ParkedByMove(s) : ParkedFree(c)
      /\ \A c \in Conns \ Reach(s) : c \in ParkedByMove(s) => c \in parked
  BY Routed, MovesAway DEF BeginFails
<1>3. WireChanges(s) /\ losses' \in 0..MaxLosses
  BY <1>2 DEF BeginFails, WireChanges, PlaceInv, Typed, ParkedFree
<1>4. WantChanges(s) /\ (~want'[s].tx \/ want'[s].cut)
  <2>1. want' = [want EXCEPT ![s] = Told(want[s], k)]
    BY DEF BeginFails
  <2>2. IsWant(want[s])
    BY DEF PlaceInv, Typed
  <2> QED
    BY <1>2, <2>1, <2>2, ToldFacts DEF PlaceInv, Typed, WantChanges
<1> QED
  BY <1>1, <1>3, <1>4, Detaches

\* The server refuses what prepareConn sends it.
LEMMA BeginRefusedKeeps ==
    ASSUME PlaceInv, NEW s \in Sessions, NEW k, NEW d, BeginRefused(s, k, d)
    PROVE  PlaceInv'
<1> DEFINE x == [sess[s] EXCEPT !.db = IF k = "init db" THEN d ELSE @]
<1>1. /\ Idle(s)
      /\ \E n \in Route(s, k) :
            /\ x.conn # None => wire[x.conn].home # n
            /\ \E c \in Acquirable(n) : \E w \in StoppedAt(x, FromPool(c, n)) :
                  Released(w, ParkedByMove(s), c)
      /\ sess' = [sess EXCEPT ![s] = [x EXCEPT !.conn = None]]
      /\ want' = [want EXCEPT ![s] = Told(want[s], k)]
      /\ UNCHANGED losses
  BY DEF BeginRefused
<1>2. IsSess(x) /\ x.conn = sess[s].conn /\ x.run = sess[s].run
  <2>1. \E e : x = [sess[s] EXCEPT !.db = e]
    OBVIOUS
  <2> HIDE DEF x
  <2> QED
    BY <2>1 DEF PlaceInv, Typed, IsSess, SessFields
<1> HIDE DEF x
<1>3. PICK n \in Route(s, k) :
         /\ sess[s].conn # None => wire[sess[s].conn].home # n
         /\ \E c \in Acquirable(n) : \E w \in StoppedAt(x, FromPool(c, n)) :
               Released(w, ParkedByMove(s), c)
  BY <1>1, <1>2
<1>4. PICK c \in Acquirable(n) : \E w \in StoppedAt(x, FromPool(c, n)) :
         Released(w, ParkedByMove(s), c)
  BY <1>3
<1>5. PICK w \in StoppedAt(x, FromPool(c, n)) : Released(w, ParkedByMove(s), c)
  BY <1>4
<1>6. /\ n # None /\ (~want[s].tx \/ want[s].cut)
      /\ ParkedByMove(s) \subseteq Conns
      /\ \A b \in ParkedByMove(s) : ParkedFree(b)
      /\ \A b \in Conns \ Reach(s) : b \in ParkedByMove(s) => b \in parked
  BY <1>3, Routed, MovesAway
<1>7. WireChanges(s)
  <2>1. c \in Reach(s) /\ IsWire(FromPool(c, n)) /\ FromPool(c, n).home = n
    BY <1>4, <1>6, Acquired
  <2>2. IsWire(w) /\ w.home # None
    BY <1>5, <1>6, <2>1, StoppedFacts DEF Ended
  <2> QED
    BY <1>5, <1>6, <2>1, <2>2, ReleasedFacts
<1>8. SessChanges(s) /\ sess'[s].conn = None /\ sess'[s].run = None
  BY <1>1, <1>2 DEF Idle, PlaceInv, Typed, IsSess, SessFields, SessChanges
<1>9. WantChanges(s) /\ (~want'[s].tx \/ want'[s].cut)
  <2>1. IsWant(want[s])
    BY DEF PlaceInv, Typed
  <2> QED
    BY <1>1, <1>6, <2>1, ToldFacts DEF PlaceInv, Typed, WantChanges
<1>10. losses' \in 0..MaxLosses
  BY <1>1 DEF PlaceInv, Typed
<1> QED
  BY <1>7, <1>8, <1>9, <1>10, Detaches

-----------------------------------------------------------------------------
(* The outcome of a statement *)

\* A session goes on with the connection it has, which has changed as far as
\* m says, or lets it go.
LEMMA GoesOn ==
    ASSUME PlaceInv, NEW s \in Sessions, NEW c, c = sess[s].conn, c # None,
           NEW w, IsWire(w), w.home # None,
           NEW m, m = [wire EXCEPT ![c] = w], wire' = m,
           NEW t, IsSess(t), t.conn = c,
           SessChanges(s), WantChanges(s),
           sess'[s].run = t.run, t.run = None,
           \/ sess'[s].conn = c /\ parked' = parked
           \/ /\ sess'[s].conn = IF LetsGo(t, m) THEN None ELSE c
              /\ parked' = IF LetsGo(t, m) THEN parked \cup {c} ELSE parked,
           ~want'[s].cut /\ w.auto =>
                /\ want'[s].tx => w.tx = s
                /\ ~want'[s].tx => w.tx = None,
           losses' = losses
    PROVE  PlaceInv'
<1>1. c \in Conns /\ c \in Reach(s) /\ c \notin parked /\ s # None
  BY OwnReach, PlacesAssumption DEF PlaceInv, Attached
<1>2. /\ DOMAIN wire' = Conns /\ wire'[c] = w
      /\ \A b \in Conns \ {c} : wire'[b] = wire[b]
  BY <1>1 DEF PlaceInv, Typed
<1>3. LetsGo(t, m) => w.tx = None /\ w.auto
  <2>1. m[t.conn] = w
    BY <1>1, <1>2
  <2> QED
    BY <2>1 DEF LetsGo, Releasable
<1>4. WireChanges(s)
  BY <1>1, <1>2, <1>3 DEF WireChanges, PlaceInv, Typed, ParkedFree
<1>5. losses' \in 0..MaxLosses
  BY DEF PlaceInv, Typed
<1>6. CASE sess'[s].conn = None
  <2>1. LetsGo(t, m)
    BY <1>6
  <2>2. ~want'[s].tx \/ want'[s].cut
    BY <2>1, <1>1, <1>3
  <2> QED
    BY <1>4, <1>5, <1>6, <2>2, Detaches
<1>7. CASE sess'[s].conn = c /\ parked' = parked
  <2>1. Typed'
    BY <1>4, <1>5 DEF PlaceInv, Typed, SessChanges, WantChanges, WireChanges
  <2>2. Attached(s)'
    BY <1>1, <1>2, <1>7 DEF Attached
  <2>3. OwnStep(s)
    BY <1>1, <1>4, <1>7, <2>1, <2>2 DEF OwnStep, SessChanges, WantChanges, WireChanges
  <2> QED
    BY <2>3, OwnStepKeeps
<1> QED
  BY <1>6, <1>7

\* A statement that succeeds leaves its connection in the transaction that the
\* client is in.
LEMMA ExecutedTx ==
    ASSUME PlaceInv, NEW s \in Sessions, sess[s].conn # None, NEW k, NEW d,
           NEW w, w = Executed(s, k, d, wire[sess[s].conn]),
           NEW v, v = Wanted(s, k, d)
    PROVE  /\ IsWire(w) /\ IsWant(v)
           /\ w.home # None
           /\ ~v.cut /\ w.auto => (v.tx => w.tx = s) /\ (~v.tx => w.tx = None)
<1> DEFINE u == wire[sess[s].conn]
<1>1. Attached(s) /\ IsWant(want[s]) /\ IsWire(u)
  BY OwnReach DEF PlaceInv, Typed
<1>2. Ran(s, k, u, w)
  BY <1>1, ExecutedFacts
<1>3. WantsTx(want[s], k, v)
  BY <1>1, WantedFacts
<1>4. /\ u.home # None
      /\ ~want[s].cut /\ u.auto => (want[s].tx => u.tx = s) /\ (~want[s].tx => u.tx = None)
  BY <1>1 DEF Attached
<1> HIDE DEF u
<1>5. IsWire(w) /\ w.home # None
  BY <1>2, <1>4 DEF Ran
<1>6. w.auto => u.auto /\ w.tx = TxAfter(s, k, u)
  BY <1>2 DEF Ran
<1>7. IsWant(v)
  BY <1>3 DEF WantsTx
<1>8. ASSUME ~v.cut, w.auto PROVE (v.tx => w.tx = s) /\ (~v.tx => w.tx = None)
  <2>1. CASE k = "begin"
    BY <1>3, <1>6, <1>8, <2>1 DEF WantsTx, TxAfter
  <2>2. CASE k \in {"commit", "rollback", "lock tables"}
    BY <1>3, <1>6, <1>8, <2>2 DEF WantsTx, TxAfter
  <2>3. CASE k \notin {"begin", "commit", "rollback", "lock tables"}
    BY <1>3, <1>4, <1>6, <1>8, <2>3 DEF WantsTx, TxAfter
  <2> QED
    BY <2>1, <2>2, <2>3
<1> QED
  BY <1>5, <1>7, <1>8

\* A statement ends and its connection is let go, or not.
LEMMA SucceedsKeeps ==
    ASSUME PlaceInv, NEW s \in Sessions, Succeeds(s)
    PROVE  PlaceInv'
<1> DEFINE k == sess[s].run
           d == sess[s].arg
           c == sess[s].conn
           w == Executed(s, k, d, wire[c])
           y == [sess[s] EXCEPT !.run = None, !.arg = None]
           t == IF k = "prepare" THEN [y EXCEPT !.openStmts = @ + 1]
                ELSE IF k = "init db" THEN y
                ELSE TrackSafety(TrackSet(y, k), k, w)
           l == [w EXCEPT !.sig = IF t.sets # y.sets THEN t.sets ELSE @]
           m == [wire EXCEPT ![c] = l]
<1>1. /\ ~Idle(s) /\ wire' = m /\ losses' = losses
      /\ want' = [want EXCEPT ![s] = Wanted(s, k, d)]
      /\ IF k = "prepare"
         THEN sess' = [sess EXCEPT ![s] = t] /\ UNCHANGED parked
         ELSE /\ sess' = [sess EXCEPT ![s] = AfterRelease(t, m)]
              /\ parked' = IF LetsGo(t, m) THEN parked \cup {c} ELSE parked
  BY Zenon DEF Succeeds
<1>2. c # None
  BY <1>1 DEF Idle, PlaceInv, Attached
<1>3. IsSess(y) /\ y.conn = c /\ y.run = None
  BY DEF PlaceInv, Typed, IsSess, SessFields
<1>4. IsSess(t) /\ t.conn = c /\ t.run = None
  <2> HIDE DEF y, w, c, k
  <2>1. CASE k = "prepare"
    BY <1>3, <2>1 DEF IsSess, SessFields
  <2>2. CASE k = "init db"
    BY <1>3, <2>2
  <2>3. CASE k \notin {"prepare", "init db"}
    <3>1. IsSess(TrackSet(y, k)) /\ TrackSet(y, k).conn = c /\ TrackSet(y, k).run = None
      BY <1>3, TrackSetFacts
    <3>2. t = TrackSafety(TrackSet(y, k), k, w)
      BY <2>3
    <3>3. /\ IsSess(TrackSafety(TrackSet(y, k), k, w))
          /\ TrackSafety(TrackSet(y, k), k, w).conn = c
          /\ TrackSafety(TrackSet(y, k), k, w).run = None
      <4> HIDE DEF t
      <4> QED
        BY <3>1, TrackSafetyFacts
    <3> HIDE DEF t
    <3> QED
      BY <3>2, <3>3
  <2> QED
    BY <2>1, <2>2, <2>3
<1> DEFINE v == Wanted(s, k, d)
<1>5. /\ IsWire(w) /\ IsWant(v) /\ w.home # None
      /\ ~v.cut /\ w.auto => (v.tx => w.tx = s) /\ (~v.tx => w.tx = None)
  BY <1>2, ExecutedTx
<1>6. l = [w EXCEPT !.sig = IF t.sets # y.sets THEN t.sets ELSE @]
  OBVIOUS
<1> HIDE DEF w, t, l, v, y
<1>7. IsWire(l) /\ l.home = w.home /\ l.tx = w.tx /\ (l.auto <=> w.auto)
  BY <1>5, <1>6 DEF IsWire, WireFields
<1>8. want' = [want EXCEPT ![s] = v]
  BY <1>1 DEF v
<1>9. WantChanges(s) /\ want'[s] = v
  BY <1>5, <1>8 DEF PlaceInv, Typed, WantChanges
<1>10. /\ m = [wire EXCEPT ![c] = l] /\ wire' = m
       /\ \/ sess' = [sess EXCEPT ![s] = t] /\ parked' = parked
          \/ /\ sess' = [sess EXCEPT ![s] = AfterRelease(t, m)]
             /\ parked' = IF LetsGo(t, m) THEN parked \cup {c} ELSE parked
  BY <1>1
<1> HIDE DEF m, k, d, c
<1>11. /\ SessChanges(s) /\ sess'[s].run = t.run
       /\ \/ sess'[s].conn = c /\ parked' = parked
          \/ /\ sess'[s].conn = IF LetsGo(t, m) THEN None ELSE c
             /\ parked' = IF LetsGo(t, m) THEN parked \cup {c} ELSE parked
  BY <1>4, <1>10, AfterReleaseFacts DEF PlaceInv, Typed, SessChanges
<1>12. c = sess[s].conn
  BY DEF c
<1>13. l.home # None /\ losses' = losses
  BY <1>1, <1>5, <1>7
<1>14. ~want'[s].cut /\ l.auto =>
          (want'[s].tx => l.tx = s) /\ (~want'[s].tx => l.tx = None)
  BY <1>5, <1>7, <1>9
<1> QED
  BY <1>2, <1>4, <1>7, <1>9, <1>10, <1>11, <1>12, <1>13, <1>14, GoesOn

\* A statement ends with an error of the server.
LEMMA FailsInMySQLKeeps ==
    ASSUME PlaceInv, NEW s \in Sessions, FailsInMySQL(s)
    PROVE  PlaceInv'
<1>1. /\ SessChanges(s) /\ sess'[s].run = None /\ sess'[s].conn = sess[s].conn
  BY DEF FailsInMySQL, PlaceInv, Typed, IsSess, SessFields, SessChanges
<1>2. sess[s].conn # None /\ UNCHANGED <<wire, parked, losses>>
  BY DEF FailsInMySQL, Idle, PlaceInv, Attached
<1>3. /\ WantChanges(s)
      /\ (want'[s].tx <=> want[s].tx) /\ (want'[s].cut <=> want[s].cut)
  <2>1. want' = [want EXCEPT ![s] = Told(want[s], sess[s].run)]
    BY DEF FailsInMySQL
  <2>2. IsWant(want[s])
    BY DEF PlaceInv, Typed
  <2> QED
    BY <2>1, <2>2, ToldFacts DEF PlaceInv, Typed, WantChanges
<1>4. Typed'
  BY <1>1, <1>2, <1>3 DEF PlaceInv, Typed, SessChanges, WantChanges
<1>5. Attached(s)'
  BY <1>1, <1>2, <1>3 DEF PlaceInv, Attached
<1>6. OwnStep(s)
  BY <1>1, <1>2, <1>3, <1>4, <1>5, OwnReach
     DEF OwnStep, SessChanges, WantChanges, PlaceInv, ParkedFree
<1> QED
  BY <1>6, OwnStepKeeps

\* The connection of a session is gone.
LEMMA DropFacts ==
    ASSUME PlaceInv, NEW s \in Sessions, sess[s].conn # None,
           wire' = [wire EXCEPT ![sess[s].conn] = NoConnection], parked' = parked
    PROVE  WireChanges(s)
<1>1. sess[s].conn \in Reach(s) /\ sess[s].conn \in Conns /\ sess[s].conn \notin parked
  BY OwnReach DEF PlaceInv, Attached
<1>2. IsWire(NoConnection)
  BY DEF NoConnection, IsWire, WireFields
<1> QED
  BY <1>1, <1>2 DEF WireChanges, PlaceInv, Typed, ParkedFree

\* The connection of a statement breaks.
LEMMA LosesConnectionKeeps ==
    ASSUME PlaceInv, NEW s \in Sessions, LosesConnection(s)
    PROVE  PlaceInv'
<1>1. SessChanges(s) /\ sess'[s].run = None /\ sess'[s].conn = None
  BY DEF LosesConnection, PlaceInv, Typed, IsSess, SessFields, SessChanges
<1>2. /\ wire' = [wire EXCEPT ![sess[s].conn] = NoConnection]
      /\ parked' = parked /\ sess[s].conn # None
  BY DEF LosesConnection, Idle, PlaceInv, Attached
<1>3. WireChanges(s)
  BY <1>2, DropFacts
<1>4. WantChanges(s) /\ ~want'[s].tx
  <2>1. want' = [want EXCEPT ![s] = [Told(want[s], sess[s].run) EXCEPT !.tx = FALSE, !.cut = FALSE]]
    BY DEF LosesConnection
  <2>2. IsWant(Told(want[s], sess[s].run))
    BY ToldFacts DEF PlaceInv, Typed
  <2> QED
    BY <2>1, <2>2 DEF PlaceInv, Typed, IsWant, WantFields, WantChanges
<1>5. losses' \in 0..MaxLosses
  BY BoundsAssumption DEF LosesConnection, PlaceInv, Typed
<1> QED
  BY <1>1, <1>3, <1>4, <1>5, Detaches

\* The pinger finds a dead connection.
LEMMA PingerDropsKeeps ==
    ASSUME PlaceInv, NEW s \in Sessions, PingerDrops(s)
    PROVE  PlaceInv'
<1>1. SessChanges(s) /\ sess'[s].run = None /\ sess'[s].conn = None
  BY DEF PingerDrops, Idle, PlaceInv, Typed, IsSess, SessFields, SessChanges
<1>2. WireChanges(s)
  BY DropFacts DEF PingerDrops
<1>3. WantChanges(s) /\ (~want'[s].tx \/ want'[s].cut)
  BY DEF PingerDrops, PlaceInv, Typed, IsWant, WantFields, WantChanges
<1>4. losses' \in 0..MaxLosses
  BY BoundsAssumption DEF PingerDrops, PlaceInv, Typed
<1> QED
  BY <1>1, <1>2, <1>3, <1>4, Detaches

-----------------------------------------------------------------------------
(* Prepared statements, and the end of a session *)

\* A prepared statement on its own connection.
LEMMA ExecuteStmtKeeps ==
    ASSUME PlaceInv, NEW s \in Sessions, ExecuteStmt(s)
    PROVE  PlaceInv'
<1> DEFINE c == sess[s].conn
<1>1. PICK k \in StmtKinds \cap Statements :
         LET w == Executed(s, k, None, wire[c]) IN
         /\ wire' = [wire EXCEPT ![c] = w]
         /\ sess' = [sess EXCEPT ![s] = TrackSafety(sess[s], k, w)]
         /\ want' = [want EXCEPT ![s] = Wanted(s, k, None)]
  BY Zenon DEF ExecuteStmt
<1>2. c # None /\ sess[s].run = None /\ UNCHANGED <<parked, losses>>
  BY DEF ExecuteStmt, Idle
<1> DEFINE w == Executed(s, k, None, wire[c])
           v == Wanted(s, k, None)
           t == TrackSafety(sess[s], k, w)
           m == [wire EXCEPT ![c] = w]
<1>3. /\ IsWire(w) /\ IsWant(v) /\ w.home # None
      /\ ~v.cut /\ w.auto => (v.tx => w.tx = s) /\ (~v.tx => w.tx = None)
  BY <1>2, ExecutedTx
<1>4. IsSess(sess[s])
  BY DEF PlaceInv, Typed
<1> HIDE DEF c
<1>5. c = sess[s].conn
  BY DEF c
<1>6. wire' = m /\ m = [wire EXCEPT ![c] = w]
  BY <1>1
<1>7. sess' = [sess EXCEPT ![s] = t] /\ want' = [want EXCEPT ![s] = v]
  BY <1>1
<1> HIDE DEF w, m, v
<1>8. IsSess(t) /\ t.conn = c /\ t.run = None
  BY <1>2, <1>4, <1>5, TrackSafetyFacts
<1> HIDE DEF t
<1>9. SessChanges(s) /\ sess'[s].run = None /\ sess'[s].conn = c
  BY <1>7, <1>8 DEF PlaceInv, Typed, SessChanges
<1>10. WantChanges(s) /\ want'[s] = v
  BY <1>3, <1>7 DEF PlaceInv, Typed, WantChanges
<1> QED
  BY <1>2, <1>3, <1>5, <1>6, <1>8, <1>9, <1>10, GoesOn

\* The connection of the handle is gone.
LEMMA ExecuteStaleStmtKeeps ==
    ASSUME PlaceInv, NEW s \in Sessions, ExecuteStaleStmt(s)
    PROVE  PlaceInv'
<1>1. SessChanges(s) /\ sess'[s].run = None /\ sess'[s].conn = None
  BY DEF ExecuteStaleStmt, Idle, PlaceInv, Typed, IsSess, SessFields, SessChanges
<1>2. WireChanges(s)
  BY DropFacts DEF ExecuteStaleStmt
<1>3. WantChanges(s) /\ ~want'[s].tx
  BY DEF ExecuteStaleStmt, PlaceInv, Typed, IsWant, WantFields, WantChanges
<1>4. losses' \in 0..MaxLosses
  BY DEF ExecuteStaleStmt, PlaceInv, Typed
<1> QED
  BY <1>1, <1>2, <1>3, <1>4, Detaches

\* Likewise.
LEMMA CloseStaleStmtKeeps ==
    ASSUME PlaceInv, NEW s \in Sessions, CloseStaleStmt(s)
    PROVE  PlaceInv'
<1>1. SessChanges(s) /\ sess'[s].run = None /\ sess'[s].conn = None
  BY DEF CloseStaleStmt, Idle, PlaceInv, Typed, IsSess, SessFields, SessChanges
<1>2. WireChanges(s)
  <2>1. CASE sess[s].conn = None
    <3>1. wire' = wire /\ parked' = parked
      BY <2>1 DEF CloseStaleStmt
    <3> QED
      BY <3>1 DEF WireChanges, PlaceInv, Typed, ParkedFree
  <2>2. CASE sess[s].conn # None
    BY <2>2, DropFacts DEF CloseStaleStmt
  <2> QED
    BY <2>1, <2>2
<1>3. WantChanges(s) /\ (~want'[s].tx \/ want'[s].cut)
  BY DEF CloseStaleStmt, PlaceInv, Typed, IsWant, WantFields, WantChanges
<1>4. losses' \in 0..MaxLosses
  BY DEF CloseStaleStmt, PlaceInv, Typed
<1> QED
  BY <1>1, <1>2, <1>3, <1>4, Detaches

\* The last handle is closed, and the connection let go.
LEMMA CloseStmtKeeps ==
    ASSUME PlaceInv, NEW s \in Sessions, CloseStmt(s)
    PROVE  PlaceInv'
<1> DEFINE c == sess[s].conn
           x == [sess[s] EXCEPT !.openStmts = @ - 1]
           w == [wire[c] EXCEPT !.stmts = @ \ {s}]
           m == [wire EXCEPT ![c].stmts = @ \ {s}]
<1>1. /\ Idle(s) /\ c # None /\ UNCHANGED <<want, losses>>
      /\ wire' = m
      /\ sess' = [sess EXCEPT ![s] = AfterRelease(x, m)]
      /\ parked' = IF LetsGo(x, m) THEN parked \cup {c} ELSE parked
  BY Zenon DEF CloseStmt
<1>2. IsSess(x) /\ x.conn = c /\ x.run = None
  BY <1>1 DEF Idle, PlaceInv, Typed, IsSess, SessFields
<1>3. Attached(s) /\ IsWant(want[s]) /\ c \in Conns /\ IsWire(wire[c])
  BY <1>1, OwnReach DEF PlaceInv, Typed
<1>4. IsWire(w) /\ w.home = wire[c].home /\ w.tx = wire[c].tx /\ (w.auto <=> wire[c].auto)
  BY <1>3 DEF IsWire, WireFields
<1>5. m = [wire EXCEPT ![c] = w]
  OBVIOUS
<1> HIDE DEF w, x
<1>6. /\ wire' = m /\ sess' = [sess EXCEPT ![s] = AfterRelease(x, m)]
      /\ parked' = IF LetsGo(x, m) THEN parked \cup {c} ELSE parked
  BY <1>1
<1> HIDE DEF m
<1>7. /\ SessChanges(s) /\ sess'[s].run = x.run
      /\ sess'[s].conn = IF LetsGo(x, m) THEN None ELSE c
  BY <1>2, <1>6, AfterReleaseFacts DEF PlaceInv, Typed, SessChanges
<1>8. WantChanges(s) /\ want'[s] = want[s]
  BY <1>1, <1>3 DEF PlaceInv, Typed, WantChanges
<1>9. /\ w.home # None
      /\ ~want'[s].cut /\ w.auto =>
            (want'[s].tx => w.tx = s) /\ (~want'[s].tx => w.tx = None)
  BY <1>1, <1>3, <1>4, <1>8 DEF Attached
<1>10. c = sess[s].conn /\ c # None /\ losses' = losses
  BY <1>1
<1> HIDE DEF c
<1> QED
  BY <1>2, <1>4, <1>5, <1>6, <1>7, <1>8, <1>9, <1>10, GoesOn

\* What a session has goes back to the pool.
LEMMA GiveBackFacts ==
    ASSUME PlaceInv, NEW s \in Sessions, GiveBack(s)
    PROVE  WireChanges(s)
<1>1. CASE sess[s].conn = None
  BY <1>1 DEF GiveBack, WireChanges, PlaceInv, Typed, ParkedFree
<1>2. CASE sess[s].conn # None
  <2>1. Released(wire[sess[s].conn], parked, sess[s].conn)
    BY <1>2 DEF GiveBack
  <2>2. /\ sess[s].conn \in Reach(s)
        /\ IsWire(wire[sess[s].conn]) /\ wire[sess[s].conn].home # None
    BY <1>2, OwnReach DEF PlaceInv, Typed, Attached
  <2>3. parked \subseteq Conns /\ \A b \in parked : ParkedFree(b)
    BY DEF PlaceInv, Typed
  <2> QED
    BY <2>1, <2>2, <2>3, ReleasedFacts
<1> QED
  BY <1>1, <1>2

\* The client resets its session.
LEMMA ResetSessionKeeps ==
    ASSUME PlaceInv, NEW s \in Sessions, ResetSession(s)
    PROVE  PlaceInv'
<1>1. SessChanges(s) /\ sess'[s].run = None /\ sess'[s].conn = None
  <2>1. PICK d, r : sess' = [sess EXCEPT ![s] = [NewSession EXCEPT !.db = d, !.wrote = r]]
    BY DEF ResetSession
  <2> QED
    BY <2>1, NewSessionFacts DEF PlaceInv, Typed, IsSess, SessFields, SessChanges
<1>2. WantChanges(s) /\ ~want'[s].tx
  <2>1. PICK d, r : want' = [want EXCEPT ![s] = [NewWant EXCEPT !.db = d, !.misdirected = r]]
    BY DEF ResetSession
  <2> QED
    BY <2>1 DEF NewWant, PlaceInv, Typed, IsWant, WantFields, WantChanges
<1>3. WireChanges(s)
  BY GiveBackFacts DEF ResetSession
<1>4. losses' \in 0..MaxLosses
  BY DEF ResetSession, PlaceInv, Typed
<1> QED
  BY <1>1, <1>2, <1>3, <1>4, Detaches

\* The client leaves.
LEMMA DisconnectKeeps ==
    ASSUME PlaceInv, NEW s \in Sessions, Disconnect(s)
    PROVE  PlaceInv'
<1>1. SessChanges(s) /\ sess'[s].run = None /\ sess'[s].conn = None
  BY NewSessionFacts DEF Disconnect, PlaceInv, Typed, SessChanges
<1>2. WantChanges(s) /\ ~want'[s].tx
  BY DEF Disconnect, NewWant, PlaceInv, Typed, IsWant, WantFields, WantChanges
<1>3. WireChanges(s)
  BY GiveBackFacts DEF Disconnect
<1>4. losses' \in 0..MaxLosses
  BY DEF Disconnect, PlaceInv, Typed
<1> QED
  BY <1>1, <1>2, <1>3, <1>4, Detaches

\* No connection is concerned.
LEMMA StickyPassesKeeps ==
    ASSUME PlaceInv, NEW s \in Sessions, StickyPasses(s)
    PROVE  PlaceInv'
<1>1. /\ SessChanges(s) /\ sess'[s].run = sess[s].run /\ sess'[s].conn = sess[s].conn
      /\ UNCHANGED <<wire, parked, want, losses>>
  BY DEF StickyPasses, PlaceInv, Typed, IsSess, SessFields, SessChanges
<1>2. Typed'
  BY <1>1 DEF PlaceInv, Typed, SessChanges
<1>3. Attached(s)'
  BY <1>1 DEF PlaceInv, Attached
<1>4. OwnStep(s)
  BY <1>1, <1>2, <1>3, OwnReach
     DEF OwnStep, SessChanges, PlaceInv, ParkedFree
<1> QED
  BY <1>4, OwnStepKeeps

\* A parked connection is closed.
LEMMA ParkedLeavesKeeps ==
    ASSUME PlaceInv, NEW c \in Conns, ParkedLeaves(c)
    PROVE  PlaceInv'
<1>1. IsWire(NoConnection)
  BY DEF NoConnection, IsWire, WireFields
<1>2. /\ c \in parked /\ parked' = parked \ {c} /\ UNCHANGED <<sess, want, losses>>
      /\ wire' = [wire EXCEPT ![c] = NoConnection]
  BY DEF ParkedLeaves
<1>3. Typed'
  BY <1>1, <1>2 DEF PlaceInv, Typed
<1>4. \A b \in parked' : ParkedFree(b)'
  BY <1>2 DEF PlaceInv, Typed, ParkedFree
<1>5. ASSUME NEW s \in Sessions PROVE Attached(s)'
  BY <1>2 DEF PlaceInv, Typed, Attached
<1>6. Alone'
  BY <1>2 DEF PlaceInv, Alone
<1> QED
  BY <1>3, <1>4, <1>5, <1>6 DEF PlaceInv

\* All steps.
LEMMA PlaceStep == PlaceInv /\ [Next]_vars => PlaceInv'
<1> SUFFICES ASSUME PlaceInv, [Next]_vars PROVE PlaceInv'
  OBVIOUS
<1>1. CASE UNCHANGED vars
  BY <1>1 DEF vars, PlaceInv, Typed, ParkedFree, Attached, Alone
<1>2. ASSUME NEW s \in Sessions, Command(s) PROVE PlaceInv'
  BY <1>2, BeginAttachedKeeps, BeginAcquiresKeeps, BeginFailsKeeps, BeginRefusedKeeps,
     SelectsDatabaseKeeps, ExecuteStmtKeeps, ExecuteStaleStmtKeeps, CloseStmtKeeps,
     CloseStaleStmtKeeps, ResetSessionKeeps, DisconnectKeeps DEF Command, Begin
<1>3. ASSUME NEW s \in Sessions, Outcome(s) PROVE PlaceInv'
  BY <1>3, SucceedsKeeps, FailsInMySQLKeeps, LosesConnectionKeeps DEF Outcome
<1>4. ASSUME NEW s \in Sessions, PingerDrops(s) \/ StickyPasses(s) PROVE PlaceInv'
  BY <1>4, PingerDropsKeeps, StickyPassesKeeps
<1>5. ASSUME NEW c \in Conns, ParkedLeaves(c) PROVE PlaceInv'
  BY <1>5, ParkedLeavesKeeps
<1> QED
  BY <1>1, <1>2, <1>3, <1>4, <1>5 DEF Next

\* The inductive invariant, for any sessions, connections, nodes, statements
\* and settings.
THEOREM PlacesCorrect == Spec => []PlaceInv
  BY PlaceInit, PlaceStep, PTL DEF Spec

\* No connection is attached to two sessions, or parked and attached; a
\* session that runs a statement has one (session.go:142-182, 285-300, 395-461).
THEOREM MultiplexingTypeOK == Spec => []TypeOK
  BY PlacesCorrect, PlaceTypeOK, PTL

\* The statements of a transaction run in that transaction and no others do,
\* whatever the session moves, loses, prepares or is refused in between
\* (session.go:142-182, 302-315, 390-461).
THEOREM TransactionsStay == Spec => []TransactionStays
  BY PlacesCorrect, PlaceTransactions, PTL

-----------------------------------------------------------------------------
(* What is parked is clean *)

\* The statements and servers for which it holds: of the others, TLC finds how
\* they leave something behind (README.md).
Tractable ==
    /\ ~ResetUnsupported
    /\ Statements \cap (SetStatements \cup {"use", "sql prepare"}) = {}

Plain(w) == w.vars = DefaultVars /\ w.sig = <<>> /\ w.bound \in {None, w.db}
Tidy(w)  == Plain(w) /\ w.auto /\ w.dirt = {} /\ w.stmts = {}

\* Whatever a session leaves on its connection is known to releasable.
Answers(x, s, w) ==
    /\ Plain(w)
    /\ w.dirt # {} => x.pinned
    /\ w.stmts \subseteq {s}
    /\ w.stmts # {} => x.openStmts = 1

Accountable(s) ==
    /\ sess[s].sets = <<>> /\ sess[s].openStmts \in {0, 1}
    /\ sess[s].run # None =>
          /\ sess[s].run \in Statements \cup {"prepare"}
          /\ sess[s].run = "prepare" => sess[s].openStmts = 0
    /\ sess[s].conn # None => Answers(sess[s], s, wire[sess[s].conn])

CleanInv ==
    /\ \A c \in parked : Tidy(wire[c])
    /\ \A s \in Sessions : Accountable(s)

\* Replaying nothing changes nothing.
LEMMA ReplayNothing == Replay(<<>>) = DefaultVars
<1> DEFINE step(f, S) == IF S = {} THEN DefaultVars
                         ELSE LET x == Max(S) IN ApplySet(f[S \ {x}], <<>>[x])
           IsIter(f) == f = [S \in SUBSET {} |-> step(f, S)]
           it == CHOOSE f : IsIter(f)
<1>1. DOMAIN <<>> = {}
  OBVIOUS
<1>2. FoldLeft(ApplySet, DefaultVars, <<>>) = it[DOMAIN <<>>]
  BY <1>1 DEF FoldLeft, MapThenFoldSet
<1>3. \E f : IsIter(f)
  <2>1. IsIter([S \in SUBSET {} |-> DefaultVars])
    OBVIOUS
  <2> QED
    BY <2>1
<1>4. IsIter(it)
  BY <1>3
<1>5. Replay(<<>>) = FoldLeft(ApplySet, DefaultVars, <<>>)
  BY DEF Replay
<1> QED
  BY <1>1, <1>2, <1>4, <1>5

\* The two invariants say what ParkedConnectionsAreClean does.
LEMMA CleanParked == PlaceInv /\ CleanInv => ParkedConnectionsAreClean
  BY ReplayNothing DEF PlaceInv, CleanInv, ParkedFree, Tidy, Plain, ParkedConnectionsAreClean

\* A new connection is tidy, ...
LEMMA TidyFresh == ASSUME NEW n PROVE Tidy(Fresh(n))
  BY FreshFacts DEF Tidy, Plain

\* ... and one that was reset, ...
LEMMA TidyReset ==
    ASSUME Tractable, NEW w PROVE Tidy(ResetConn(w))
<1> DEFINE f == Fresh(w.home)
           g == [f EXCEPT !.db = w.db, !.sig = w.sig, !.bound = w.bound]
<1>1. ResetConn(w) = [g EXCEPT !.sig = <<>>, !.bound = None]
  BY DEF Tractable, ResetConn, ServerReset
<1>2. /\ IsWire(f) /\ f.auto /\ f.dirt = {} /\ f.stmts = {} /\ f.vars = DefaultVars
  BY FreshFacts
<1> HIDE DEF f
<1>3. /\ IsWire(g) /\ g.auto /\ g.dirt = {} /\ g.stmts = {} /\ g.vars = DefaultVars
  BY <1>2 DEF IsWire, WireFields
<1> HIDE DEF g
<1> QED
  BY <1>1, <1>3 DEF IsWire, WireFields, Tidy, Plain

\* ... also when a database is bound, ...
LEMMA TidyBound ==
    ASSUME NEW x, NEW w, IsWire(w), Tidy(w)
    PROVE  IsWire(Bound(x, w)) /\ Tidy(Bound(x, w))
  BY DEF Bound, Tidy, Plain, IsWire, WireFields

\* ... and a session without SETs changes nothing else.
LEMMA TidyPrepared ==
    ASSUME NEW x, x.sets = <<>>, NEW w, IsWire(w), Tidy(w)
    PROVE  /\ Tidy(Prepared(x, w))
           /\ \A r \in StoppedAt(x, w) : Tidy(r)
<1>1. Cleared(x, w) = w
  BY DEF Cleared, Tidy, Plain
<1>2. Tidy(Bound(x, w))
  BY TidyBound
<1>3. Bound(x, w).sig = x.sets
  BY <1>2 DEF Tidy, Plain
<1>4. Prepared(x, w) = Bound(x, w)
  BY <1>1, <1>3 DEF Prepared
<1>5. \A r \in StoppedAt(x, w) : r = w
  BY <1>1, <1>3 DEF StoppedAt
<1> QED
  BY <1>2, <1>4, <1>5

\* What comes from a pool is tidy.
LEMMA TidyAcquired ==
    ASSUME PlaceInv, CleanInv, NEW n, NEW c \in Acquirable(n)
    PROVE  Tidy(FromPool(c, n))
  BY TidyFresh DEF Acquirable, FromPool, Open, PlaceInv, ParkedFree, CleanInv

\* So is what a session lets go of.
LEMMA TidyAway ==
    ASSUME CleanInv, NEW s \in Sessions, sess[s].conn # None,
           wire[sess[s].conn].auto, ~sess[s].pinned, sess[s].openStmts = 0
    PROVE  Tidy(wire[sess[s].conn])
  BY DEF CleanInv, Accountable, Answers, Tidy

\* What is parked when it moves.
LEMMA TidyMoved ==
    ASSUME PlaceInv, CleanInv, NEW s \in Sessions, NEW k, NEW n \in Route(s, k),
           sess[s].conn # None => wire[sess[s].conn].home # n
    PROVE  \A b \in ParkedByMove(s) : Tidy(wire[b])
<1>1. CASE sess[s].conn = None
  BY <1>1 DEF ParkedByMove, CleanInv
<1>2. CASE sess[s].conn # None
  BY <1>2, Routed, TidyAway DEF ParkedByMove, CleanInv
<1> QED
  BY <1>1, <1>2

\* A step of s.
LEMMA CleanOwn ==
    ASSUME PlaceInv, CleanInv, NEW s \in Sessions, Accountable(s)',
           \A t \in Sessions \ {s} : sess'[t] = sess[t],
           \A b \in Conns \ Reach(s) : wire'[b] = wire[b],
           \A b \in parked' : Tidy(wire'[b])
    PROVE  CleanInv'
<1>1. ASSUME NEW t \in Sessions, t # s PROVE Accountable(t)'
  <2>1. sess'[t] = sess[t] /\ Accountable(t)
    BY <1>1 DEF CleanInv
  <2>2. sess[t].conn # None => sess[t].conn \in Conns \ Reach(s)
    BY <1>1 DEF PlaceInv, Attached, Reach
  <2>3. sess[t].conn # None => wire'[sess[t].conn] = wire[sess[t].conn]
    BY <2>2
  <2> QED
    BY <2>1, <2>3 DEF Accountable
<1> QED
  BY <1>1 DEF CleanInv

\* At first nothing is parked.
LEMMA CleanInit == Init => CleanInv
<1> SUFFICES ASSUME Init, NEW s \in Sessions PROVE Accountable(s)
  BY DEF Init, CleanInv
<1>1. sess[s] = NewSession
  BY DEF Init
<1> QED
  BY <1>1, NewSessionFacts DEF Accountable

\* A statement on the connection at hand.
LEMMA CleanBeginAttached ==
    ASSUME PlaceInv, CleanInv, NEW s \in Sessions, NEW k \in Statements \cup {"prepare"},
           NEW d, BeginAttached(s, k, d), k = "prepare" => sess[s].openStmts = 0
    PROVE  CleanInv'
<1>1. PICK e : sess' = [sess EXCEPT ![s].run = k, ![s].arg = d, ![s].db = e]
  BY DEF BeginAttached
<1>2. /\ sess'[s].conn = sess[s].conn /\ sess'[s].run = k /\ sess'[s].sets = sess[s].sets
      /\ sess'[s].openStmts = sess[s].openStmts /\ (sess'[s].pinned <=> sess[s].pinned)
      /\ \A t \in Sessions \ {s} : sess'[t] = sess[t]
  BY <1>1 DEF PlaceInv, Typed, IsSess, SessFields
<1>3. UNCHANGED <<wire, parked>>
  BY DEF BeginAttached
<1>4. Accountable(s)'
  BY <1>2, <1>3 DEF CleanInv, Accountable, Answers
<1> QED
  BY <1>2, <1>3, <1>4, CleanOwn DEF CleanInv

\* A connection from a pool.
LEMMA CleanBeginAcquires ==
    ASSUME PlaceInv, CleanInv, NEW s \in Sessions, NEW k \in Statements \cup {"prepare"},
           NEW d, BeginAcquires(s, k, d), k = "prepare" => sess[s].openStmts = 0
    PROVE  CleanInv'
<1>1. PICK n \in Route(s, k) :
         /\ sess[s].conn # None => wire[sess[s].conn].home # n
         /\ \E c \in Acquirable(n) :
               /\ wire' = [wire EXCEPT ![c] = Prepared(sess[s], FromPool(c, n))]
               /\ parked' = ParkedByMove(s) \ {c}
               /\ sess' = [sess EXCEPT ![s] = [sess[s] EXCEPT !.run = k, !.arg = d, !.conn = c]]
  BY DEF BeginAcquires
<1>2. PICK c \in Acquirable(n) :
         /\ wire' = [wire EXCEPT ![c] = Prepared(sess[s], FromPool(c, n))]
         /\ parked' = ParkedByMove(s) \ {c}
         /\ sess' = [sess EXCEPT ![s] = [sess[s] EXCEPT !.run = k, !.arg = d, !.conn = c]]
  BY <1>1
<1>3. n # None /\ ParkedByMove(s) \subseteq Conns
  BY <1>1, Routed, MovesAway
<1>4. c \in Conns /\ c \in Reach(s) /\ IsWire(FromPool(c, n))
  BY <1>2, <1>3, Acquired
<1>5. Accountable(s)
  BY DEF CleanInv
<1>6. Tidy(Prepared(sess[s], FromPool(c, n)))
  BY <1>2, <1>4, <1>5, TidyAcquired, TidyPrepared DEF Accountable
<1>7. /\ sess'[s].conn = c /\ sess'[s].run = k /\ sess'[s].sets = sess[s].sets
      /\ sess'[s].openStmts = sess[s].openStmts
      /\ \A t \in Sessions \ {s} : sess'[t] = sess[t]
  BY <1>2 DEF PlaceInv, Typed, IsSess, SessFields
<1>8. /\ Tidy(wire'[c]) /\ \A b \in Conns \ {c} : wire'[b] = wire[b]
  BY <1>2, <1>4, <1>6 DEF PlaceInv, Typed
<1>9. \A b \in parked' : Tidy(wire'[b])
  BY <1>1, <1>2, <1>3, <1>8, TidyMoved
<1>10. Accountable(s)'
  BY <1>5, <1>7, <1>8 DEF Accountable, Answers, Tidy
<1> QED
  BY <1>4, <1>7, <1>8, <1>9, <1>10, CleanOwn

\* A session without a connection has nothing to account for.
LEMMA CleanDetaches ==
    ASSUME PlaceInv, CleanInv, NEW s \in Sessions, WireChanges(s),
           \A t \in Sessions \ {s} : sess'[t] = sess[t],
           sess'[s].conn = None, sess'[s].run = None,
           sess'[s].sets = <<>>, sess'[s].openStmts \in {0, 1},
           \A b \in parked' : Tidy(wire'[b])
    PROVE  CleanInv'
<1>1. Accountable(s)'
  BY DEF Accountable
<1> QED
  BY <1>1, CleanOwn DEF WireChanges

\* What is released is tidy.
LEMMA TidyReleased ==
    ASSUME Tractable, NEW p, NEW c, NEW w, Released(w, p, c), p \subseteq Conns,
           DOMAIN wire = Conns, c \in Conns, \A b \in p \ {c} : Tidy(wire[b])
    PROVE  \A b \in parked' : Tidy(wire'[b])
<1>1. Resettable(w)
  BY DEF Tractable, Resettable
<1>2. wire' = [wire EXCEPT ![c] = ResetConn(w)] /\ parked' = p \cup {c}
  BY <1>1 DEF Released
<1>3. Tidy(ResetConn(w))
  BY TidyReset
<1> QED
  BY <1>2, <1>3

\* A connection that may go back at once.
LEMMA CleanSelectsDatabase ==
    ASSUME PlaceInv, CleanInv, NEW s \in Sessions, NEW d, SelectsDatabase(s, d)
    PROVE  CleanInv'
<1> DEFINE x == [sess[s] EXCEPT !.db = d]
           y(c) == [x EXCEPT !.conn = c]
           m(c, n) == [wire EXCEPT ![c] = Prepared(x, FromPool(c, n))]
<1>1. PICK n \in Route(s, "init db") : \E c \in Acquirable(n) :
          /\ wire' = m(c, n)
          /\ sess' = [sess EXCEPT ![s] = AfterRelease(y(c), m(c, n))]
          /\ parked' = IF LetsGo(y(c), m(c, n)) THEN parked \cup {c} ELSE parked \ {c}
  BY DEF SelectsDatabase
<1>2. PICK c \in Acquirable(n) :
          /\ wire' = m(c, n)
          /\ sess' = [sess EXCEPT ![s] = AfterRelease(y(c), m(c, n))]
          /\ parked' = IF LetsGo(y(c), m(c, n)) THEN parked \cup {c} ELSE parked \ {c}
  BY <1>1
<1>3. Idle(s) /\ x.conn = None
  BY Zenon DEF SelectsDatabase
<1>4. /\ x.conn = sess[s].conn /\ x.sets = sess[s].sets /\ IsSess(x)
      /\ x.run = sess[s].run /\ x.openStmts = sess[s].openStmts
  BY DEF PlaceInv, Typed, IsSess, SessFields
<1>5. sess[s].conn = None /\ sess[s].run = None /\ Accountable(s)
  BY <1>3, <1>4 DEF Idle, CleanInv
<1>6. n # None
  BY <1>1, <1>5, Routed
<1>7. c \in Conns /\ c \in Reach(s) /\ IsWire(FromPool(c, n))
  BY <1>2, <1>6, Acquired
<1> HIDE DEF x
<1>8. /\ IsSess(y(c)) /\ y(c).conn = c /\ y(c).run = None /\ y(c).sets = <<>>
      /\ y(c).openStmts \in {0, 1}
  BY <1>4, <1>5 DEF IsSess, SessFields, Accountable
<1> DEFINE w == Prepared(x, FromPool(c, n))
<1>9. Tidy(w)
  BY <1>2, <1>4, <1>5, <1>7, TidyAcquired, TidyPrepared DEF Accountable
<1> HIDE DEF w
<1>10. /\ Tidy(wire'[c]) /\ \A b \in Conns \ {c} : wire'[b] = wire[b]
  BY <1>2, <1>7, <1>9 DEF PlaceInv, Typed, w
<1> DEFINE z == y(c)
           mm == m(c, n)
<1>11. /\ sess' = [sess EXCEPT ![s] = AfterRelease(z, mm)] /\ parked' \subseteq parked \cup {c}
       /\ IsSess(z) /\ z.conn = c /\ z.run = None /\ z.sets = <<>> /\ z.openStmts \in {0, 1}
  BY <1>2, <1>8
<1> HIDE DEF y, m, z, mm
<1>12. /\ sess'[s].run = None /\ sess'[s].sets = <<>> /\ sess'[s].openStmts \in {0, 1}
       /\ sess'[s].conn \in {None, c}
       /\ \A t \in Sessions \ {s} : sess'[t] = sess[t]
  <2> DEFINE q == AfterRelease(z, mm)
  <2>1. /\ q.run = None /\ q.sets = <<>> /\ q.openStmts = z.openStmts /\ q.conn \in {None, c}
    BY <1>11, AfterReleaseFacts
  <2>2. sess' = [sess EXCEPT ![s] = q]
    BY <1>11
  <2> HIDE DEF q
  <2> QED
    BY <1>11, <2>1, <2>2 DEF PlaceInv, Typed
<1>13. \A b \in parked' : Tidy(wire'[b])
  BY <1>10, <1>11 DEF PlaceInv, Typed, CleanInv
<1>14. Accountable(s)'
  BY <1>10, <1>12 DEF Accountable, Answers, Tidy
<1> QED
  BY <1>7, <1>10, <1>12, <1>13, <1>14, CleanOwn

\* No connection.
LEMMA CleanBeginFails ==
    ASSUME PlaceInv, CleanInv, NEW s \in Sessions, NEW k, NEW d, BeginFails(s, k, d)
    PROVE  CleanInv'
<1>1. PICK e : sess' = [sess EXCEPT ![s].conn = None, ![s].db = e]
  BY DEF BeginFails
<1>2. sess[s].run = None /\ wire' = wire /\ parked' = ParkedByMove(s) /\ Accountable(s)
  BY DEF BeginFails, Idle, CleanInv
<1>3. /\ sess'[s].conn = None /\ sess'[s].run = None /\ sess'[s].sets = sess[s].sets
      /\ sess'[s].openStmts = sess[s].openStmts
      /\ \A t \in Sessions \ {s} : sess'[t] = sess[t]
  BY <1>1, <1>2 DEF PlaceInv, Typed, IsSess, SessFields
<1>4. \A b \in ParkedByMove(s) : Tidy(wire[b])
  <2>1. CASE sess[s].conn = None
    BY <2>1 DEF ParkedByMove, CleanInv
  <2>2. CASE sess[s].conn # None
    BY <2>2, TidyMoved DEF BeginFails
  <2> QED
    BY <2>1, <2>2
<1>5. Accountable(s)'
  BY <1>2, <1>3 DEF Accountable
<1> QED
  BY <1>2, <1>3, <1>4, <1>5, CleanOwn

\* The server refuses the database.
LEMMA CleanBeginRefused ==
    ASSUME Tractable, PlaceInv, CleanInv, NEW s \in Sessions, NEW k, NEW d,
           BeginRefused(s, k, d)
    PROVE  CleanInv'
<1> DEFINE x == [sess[s] EXCEPT !.db = IF k = "init db" THEN d ELSE @]
<1>1. /\ Idle(s)
      /\ \E n \in Route(s, k) :
            /\ x.conn # None => wire[x.conn].home # n
            /\ \E c \in Acquirable(n) : \E w \in StoppedAt(x, FromPool(c, n)) :
                  Released(w, ParkedByMove(s), c)
      /\ sess' = [sess EXCEPT ![s] = [x EXCEPT !.conn = None]]
  BY DEF BeginRefused
<1>2. /\ IsSess(x) /\ x.conn = sess[s].conn /\ x.run = sess[s].run
      /\ x.sets = sess[s].sets /\ x.openStmts = sess[s].openStmts
  <2>1. \E e : x = [sess[s] EXCEPT !.db = e]
    OBVIOUS
  <2> HIDE DEF x
  <2> QED
    BY <2>1 DEF PlaceInv, Typed, IsSess, SessFields
<1> HIDE DEF x
<1>3. PICK n \in Route(s, k) :
         /\ sess[s].conn # None => wire[sess[s].conn].home # n
         /\ \E c \in Acquirable(n) : \E w \in StoppedAt(x, FromPool(c, n)) :
               Released(w, ParkedByMove(s), c)
  BY <1>1, <1>2
<1>4. PICK c \in Acquirable(n) : \E w \in StoppedAt(x, FromPool(c, n)) :
         Released(w, ParkedByMove(s), c)
  BY <1>3
<1>5. PICK w : Released(w, ParkedByMove(s), c)
  BY <1>4
<1>6. n # None /\ ParkedByMove(s) \subseteq Conns /\ DOMAIN wire = Conns
  BY <1>3, Routed, MovesAway DEF PlaceInv, Typed
<1>7. c \in Conns /\ c \in Reach(s)
  BY <1>4, <1>6, Acquired
<1>8. \A b \in ParkedByMove(s) : Tidy(wire[b])
  BY <1>3, TidyMoved
<1>9. \A b \in parked' : Tidy(wire'[b])
  BY <1>5, <1>6, <1>7, <1>8, TidyReleased
<1>10. \A b \in Conns \ Reach(s) : wire'[b] = wire[b]
  BY <1>5, <1>6, <1>7 DEF Released
<1>11. Accountable(s) /\ sess[s].run = None
  BY <1>1 DEF CleanInv, Idle
<1>12. /\ sess'[s].conn = None /\ sess'[s].run = None /\ sess'[s].sets = sess[s].sets
       /\ sess'[s].openStmts = sess[s].openStmts
       /\ \A t \in Sessions \ {s} : sess'[t] = sess[t]
  BY <1>1, <1>2, <1>11 DEF PlaceInv, Typed, IsSess, SessFields
<1>13. Accountable(s)'
  BY <1>11, <1>12 DEF Accountable
<1> QED
  BY <1>9, <1>10, <1>12, <1>13, CleanOwn

\* A statement leaves a connection accountable, with what the session notes of
\* it.
LEMMA AnswersExecuted ==
    ASSUME Tractable, NEW s, NEW k \in Statements \cup {"prepare"}, NEW d,
           NEW u, IsWire(u), NEW x, Answers(x, s, u),
           NEW w, w = Executed(s, k, d, u), NEW t,
           x.pinned \/ k \in Pins => t.pinned,
           t.openStmts = IF k = "prepare" THEN 1 ELSE x.openStmts
    PROVE  Answers(t, s, w)
<1>1. Ran(s, k, u, w)
  BY ExecutedFacts
<1>2. k \notin SetStatements /\ k # "use" /\ k # "sql prepare"
  BY DEF Tractable, SetStatements
<1>3. Plain(w)
  BY <1>1, <1>2 DEF Ran, Answers, Plain
<1>4. w.dirt # {} => t.pinned
  BY <1>1, <1>2 DEF Ran, Answers, Leaves, Pins
<1>5. w.stmts \subseteq {s} /\ (w.stmts # {} => t.openStmts = 1)
  BY <1>1 DEF Ran, Answers
<1> QED
  BY <1>3, <1>4, <1>5 DEF Answers

\* A session that goes on keeps or lets go a connection it answers for.
LEMMA CleanGoesOn ==
    ASSUME PlaceInv, CleanInv, NEW s \in Sessions, NEW c, c = sess[s].conn, c # None,
           NEW w, NEW m, m = [wire EXCEPT ![c] = w], wire' = m,
           NEW t, t.conn = c, Answers(t, s, w), t.run = None, t.sets = <<>>,
           t.openStmts \in {0, 1},
           \A r \in Sessions \ {s} : sess'[r] = sess[r],
           sess'[s].run = None, sess'[s].sets = <<>>,
           sess'[s].openStmts = t.openStmts, sess'[s].pinned <=> t.pinned,
           \/ sess'[s].conn = c /\ parked' = parked
           \/ /\ sess'[s].conn = IF LetsGo(t, m) THEN None ELSE c
              /\ parked' = IF LetsGo(t, m) THEN parked \cup {c} ELSE parked
    PROVE  CleanInv'
<1>1. c \in Conns /\ c \in Reach(s) /\ c \notin parked
  BY OwnReach DEF PlaceInv, Attached
<1>2. wire'[c] = w /\ m[c] = w /\ \A b \in Conns \ {c} : wire'[b] = wire[b]
  BY <1>1 DEF PlaceInv, Typed
<1>3. LetsGo(t, m) => Tidy(w)
  BY <1>2 DEF LetsGo, Releasable, Answers, Tidy
<1>4. \A b \in parked' : Tidy(wire'[b])
  BY <1>1, <1>2, <1>3 DEF PlaceInv, Typed, CleanInv
<1>5. Accountable(s)'
  BY <1>2 DEF Accountable, Answers
<1> QED
  BY <1>1, <1>2, <1>4, <1>5, CleanOwn

\* A statement ends.
LEMMA CleanSucceeds ==
    ASSUME Tractable, PlaceInv, CleanInv, NEW s \in Sessions, Succeeds(s)
    PROVE  CleanInv'
<1> DEFINE k == sess[s].run
           d == sess[s].arg
           c == sess[s].conn
           w == Executed(s, k, d, wire[c])
           y == [sess[s] EXCEPT !.run = None, !.arg = None]
           t == IF k = "prepare" THEN [y EXCEPT !.openStmts = @ + 1]
                ELSE IF k = "init db" THEN y
                ELSE TrackSafety(TrackSet(y, k), k, w)
           l == [w EXCEPT !.sig = IF t.sets # y.sets THEN t.sets ELSE @]
           m == [wire EXCEPT ![c] = l]
<1>1. /\ ~Idle(s) /\ wire' = m
      /\ IF k = "prepare"
         THEN sess' = [sess EXCEPT ![s] = t] /\ UNCHANGED parked
         ELSE /\ sess' = [sess EXCEPT ![s] = AfterRelease(t, m)]
              /\ parked' = IF LetsGo(t, m) THEN parked \cup {c} ELSE parked
  BY Zenon DEF Succeeds
<1>2. Accountable(s) /\ k # None /\ c # None /\ c \in Conns /\ IsWire(wire[c])
  BY <1>1 DEF Idle, PlaceInv, Typed, Attached, CleanInv
<1>3. /\ k \in Statements \cup {"prepare"}
      /\ Answers(sess[s], s, wire[c])
  BY <1>2 DEF Accountable
<1>4. k \notin SetStatements
  BY <1>3 DEF Tractable, SetStatements
<1>5. /\ IsSess(y) /\ y.conn = c /\ y.run = None /\ y.sets = <<>>
      /\ y.openStmts \in {0, 1} /\ y.openStmts = sess[s].openStmts
      /\ (k = "prepare" => y.openStmts = 0) /\ (y.pinned <=> sess[s].pinned)
  BY <1>2 DEF PlaceInv, Typed, IsSess, SessFields, Accountable
<1> HIDE DEF y
<1>6. /\ IsSess(t) /\ t.conn = c /\ t.run = None /\ t.sets = <<>>
      /\ t.openStmts = IF k = "prepare" THEN 1 ELSE y.openStmts
      /\ (y.pinned \/ k \in Pins => t.pinned)
  <2> HIDE DEF w, c, k
  <2>1. CASE k = "prepare"
    BY <1>5, <2>1 DEF IsSess, SessFields, Pins
  <2>2. CASE k = "init db"
    BY <1>5, <2>2 DEF Pins
  <2>3. CASE k \notin {"prepare", "init db"}
    <3>1. TrackSet(y, k) = y
      BY <1>4, <1>5, TrackSetFacts
    <3>2. t = TrackSafety(y, k, w)
      BY <2>3, <3>1
    <3>3. /\ IsSess(TrackSafety(y, k, w)) /\ TrackSafety(y, k, w).conn = c
          /\ TrackSafety(y, k, w).run = None /\ TrackSafety(y, k, w).sets = <<>>
          /\ TrackSafety(y, k, w).openStmts = y.openStmts
          /\ (TrackSafety(y, k, w).pinned <=> y.pinned \/ k \in Pins)
      <4> HIDE DEF t
      <4> QED
        BY <1>5, TrackSafetyFacts
    <3> HIDE DEF t
    <3> QED
      BY <2>3, <3>2, <3>3
  <2> QED
    BY <2>1, <2>2, <2>3
<1>7. l = [w EXCEPT !.sig = IF t.sets # y.sets THEN t.sets ELSE @]
  OBVIOUS
<1>8. w = Executed(s, k, d, wire[c])
  OBVIOUS
<1> HIDE DEF t, l, w
<1>9. /\ m = [wire EXCEPT ![c] = l] /\ wire' = m
      /\ \/ sess' = [sess EXCEPT ![s] = t] /\ parked' = parked
         \/ /\ sess' = [sess EXCEPT ![s] = AfterRelease(t, m)]
            /\ parked' = IF LetsGo(t, m) THEN parked \cup {c} ELSE parked
  BY <1>1
<1>10. Answers(t, s, w) /\ IsWire(w)
  <2>1. Answers(t, s, w)
    BY <1>2, <1>3, <1>5, <1>6, <1>8, AnswersExecuted
  <2>2. IsWire(w)
    BY <1>2, <1>8, ExecutedFacts DEF Ran
  <2> QED
    BY <2>1, <2>2
<1>11. Answers(t, s, l)
  BY <1>5, <1>6, <1>7, <1>10 DEF Answers, Plain, IsWire, WireFields
<1>12. c = sess[s].conn /\ c # None
  BY <1>2
<1> HIDE DEF m, k, d, c
<1>13. /\ \A r \in Sessions \ {s} : sess'[r] = sess[r]
       /\ sess'[s].run = None /\ sess'[s].sets = <<>>
       /\ sess'[s].openStmts = t.openStmts /\ (sess'[s].pinned <=> t.pinned)
       /\ \/ sess'[s].conn = c /\ parked' = parked
          \/ /\ sess'[s].conn = IF LetsGo(t, m) THEN None ELSE c
             /\ parked' = IF LetsGo(t, m) THEN parked \cup {c} ELSE parked
  BY <1>6, <1>9, AfterReleaseFacts DEF PlaceInv, Typed
<1>14. t.openStmts \in {0, 1}
  BY <1>5, <1>6
<1> QED
  BY <1>6, <1>9, <1>11, <1>12, <1>13, <1>14, CleanGoesOn

\* A statement ends with an error of the server.
LEMMA CleanFails ==
    ASSUME PlaceInv, CleanInv, NEW s \in Sessions, FailsInMySQL(s)
    PROVE  CleanInv'
<1>1. sess' = [sess EXCEPT ![s].run = None, ![s].arg = None] /\ UNCHANGED <<wire, parked>>
  BY DEF FailsInMySQL
<1>2. /\ sess'[s].run = None /\ sess'[s].conn = sess[s].conn
      /\ sess'[s].sets = sess[s].sets /\ sess'[s].openStmts = sess[s].openStmts
      /\ (sess'[s].pinned <=> sess[s].pinned)
      /\ \A t \in Sessions \ {s} : sess'[t] = sess[t]
  BY <1>1 DEF PlaceInv, Typed, IsSess, SessFields
<1>3. Accountable(s)'
  BY <1>1, <1>2 DEF CleanInv, Accountable, Answers
<1> QED
  BY <1>1, <1>2, <1>3, CleanOwn DEF CleanInv

\* A connection that is gone leaves the pools as they are.
LEMMA CleanDrops ==
    ASSUME PlaceInv, CleanInv, NEW s \in Sessions, sess[s].conn # None,
           wire' = [wire EXCEPT ![sess[s].conn] = NoConnection], parked' = parked
    PROVE  WireChanges(s) /\ \A b \in parked' : Tidy(wire'[b])
<1>1. sess[s].conn \in Conns /\ sess[s].conn \notin parked
  BY OwnReach DEF PlaceInv, Attached
<1> QED
  BY <1>1, DropFacts DEF PlaceInv, Typed, CleanInv

\* The connection of a statement breaks.
LEMMA CleanLoses ==
    ASSUME PlaceInv, CleanInv, NEW s \in Sessions, LosesConnection(s)
    PROVE  CleanInv'
<1>1. /\ sess' = [sess EXCEPT ![s].run = None, ![s].arg = None, ![s].conn = None]
      /\ wire' = [wire EXCEPT ![sess[s].conn] = NoConnection]
      /\ parked' = parked /\ sess[s].conn # None /\ Accountable(s)
  BY DEF LosesConnection, Idle, PlaceInv, Attached, CleanInv
<1>2. /\ sess'[s].run = None /\ sess'[s].conn = None
      /\ sess'[s].sets = sess[s].sets /\ sess'[s].openStmts = sess[s].openStmts
      /\ \A t \in Sessions \ {s} : sess'[t] = sess[t]
  BY <1>1 DEF PlaceInv, Typed, IsSess, SessFields
<1>3. WireChanges(s) /\ \A b \in parked' : Tidy(wire'[b])
  BY <1>1, CleanDrops
<1>4. sess'[s].sets = <<>> /\ sess'[s].openStmts \in {0, 1}
  BY <1>1, <1>2 DEF Accountable
<1> QED
  BY <1>2, <1>3, <1>4, CleanDetaches

\* The other ways in which an idle session loses its connection.
LEMMA CleanIdleDrops ==
    ASSUME PlaceInv, CleanInv, NEW s \in Sessions,
           PingerDrops(s) \/ ExecuteStaleStmt(s) \/ CloseStaleStmt(s)
    PROVE  CleanInv'
<1>1. PICK n \in {sess[s].openStmts, sess[s].openStmts - 1} :
         /\ sess' = [sess EXCEPT ![s].conn = None, ![s].openStmts = n]
         /\ n # sess[s].openStmts => sess[s].openStmts > 0
  <2>1. [sess EXCEPT ![s].conn = None] = [sess EXCEPT ![s].conn = None, ![s].openStmts = sess[s].openStmts]
    BY DEF PlaceInv, Typed, IsSess, SessFields
  <2> QED
    BY <2>1 DEF PingerDrops, ExecuteStaleStmt, CloseStaleStmt
<1>2. Accountable(s) /\ sess[s].run = None
  BY DEF PingerDrops, ExecuteStaleStmt, CloseStaleStmt, Idle, CleanInv
<1>3. /\ sess'[s].run = None /\ sess'[s].conn = None
      /\ sess'[s].sets = <<>> /\ sess'[s].openStmts = n
      /\ \A t \in Sessions \ {s} : sess'[t] = sess[t]
  BY <1>1, <1>2 DEF PlaceInv, Typed, IsSess, SessFields, Accountable
<1>4. n \in {0, 1}
  BY <1>1, <1>2 DEF Accountable
<1>5. WireChanges(s) /\ \A b \in parked' : Tidy(wire'[b])
  <2>1. CASE sess[s].conn = None
    <3>1. wire' = wire /\ parked' = parked
      BY <2>1 DEF PingerDrops, ExecuteStaleStmt, CloseStaleStmt
    <3> QED
      BY <3>1 DEF WireChanges, PlaceInv, Typed, ParkedFree, CleanInv
  <2>2. CASE sess[s].conn # None
    <3>1. wire' = [wire EXCEPT ![sess[s].conn] = NoConnection] /\ parked' = parked
      BY <2>2 DEF PingerDrops, ExecuteStaleStmt, CloseStaleStmt
    <3> QED
      BY <2>2, <3>1, CleanDrops
  <2> QED
    BY <2>1, <2>2
<1> QED
  BY <1>3, <1>4, <1>5, CleanDetaches

\* A prepared statement on its own connection.
LEMMA CleanExecuteStmt ==
    ASSUME Tractable, PlaceInv, CleanInv, NEW s \in Sessions, ExecuteStmt(s)
    PROVE  CleanInv'
<1> DEFINE c == sess[s].conn
<1>1. PICK k \in StmtKinds \cap Statements :
         LET w == Executed(s, k, None, wire[c]) IN
         /\ wire' = [wire EXCEPT ![c] = w]
         /\ sess' = [sess EXCEPT ![s] = TrackSafety(sess[s], k, w)]
  BY Zenon DEF ExecuteStmt
<1>2. /\ c # None /\ sess[s].run = None /\ parked' = parked
      /\ Accountable(s) /\ c \in Conns /\ IsWire(wire[c]) /\ IsSess(sess[s])
  BY OwnReach DEF ExecuteStmt, Idle, PlaceInv, Typed, CleanInv
<1>3. k \in Statements \cup {"prepare"} /\ k # "prepare"
  BY DEF StmtKinds, Companions, Changing, SetStatements
<1> DEFINE w == Executed(s, k, None, wire[c])
           t == TrackSafety(sess[s], k, w)
           m == [wire EXCEPT ![c] = w]
<1>4. /\ t.run = None /\ t.conn = c /\ t.openStmts = sess[s].openStmts
      /\ t.sets = sess[s].sets /\ (t.pinned <=> sess[s].pinned \/ k \in Pins)
  <2> HIDE DEF w
  <2> QED
    BY <1>2, TrackSafetyFacts
<1>5. sess' = [sess EXCEPT ![s] = t] /\ wire' = m /\ m = [wire EXCEPT ![c] = w]
  BY <1>1
<1>6. w = Executed(s, k, None, wire[c]) /\ c = sess[s].conn
  OBVIOUS
<1> HIDE DEF t, m, w, c
<1>7. Answers(sess[s], s, wire[c]) /\ sess[s].sets = <<>> /\ sess[s].openStmts \in {0, 1}
  BY <1>2, <1>6 DEF Accountable
<1>8. Answers(t, s, w)
  BY <1>2, <1>3, <1>4, <1>6, <1>7, AnswersExecuted
<1>9. sess'[s] = t /\ \A r \in Sessions \ {s} : sess'[r] = sess[r]
  BY <1>5 DEF PlaceInv, Typed
<1>10. /\ sess'[s].run = None /\ sess'[s].sets = <<>> /\ sess'[s].conn = c
       /\ sess'[s].openStmts = t.openStmts /\ (sess'[s].pinned <=> t.pinned)
       /\ t.run = None /\ t.sets = <<>> /\ t.openStmts \in {0, 1}
  BY <1>4, <1>7, <1>9
<1> QED
  BY <1>2, <1>4, <1>5, <1>6, <1>8, <1>9, <1>10, CleanGoesOn

\* The handle is closed.
LEMMA CleanCloseStmt ==
    ASSUME PlaceInv, CleanInv, NEW s \in Sessions, CloseStmt(s)
    PROVE  CleanInv'
<1> DEFINE c == sess[s].conn
           x == [sess[s] EXCEPT !.openStmts = @ - 1]
           w == [wire[c] EXCEPT !.stmts = @ \ {s}]
           m == [wire EXCEPT ![c].stmts = @ \ {s}]
<1>1. /\ Idle(s) /\ c # None /\ sess[s].openStmts > 0 /\ wire' = m
      /\ sess' = [sess EXCEPT ![s] = AfterRelease(x, m)]
      /\ parked' = IF LetsGo(x, m) THEN parked \cup {c} ELSE parked
  BY Zenon DEF CloseStmt
<1>2. Accountable(s) /\ c \in Conns /\ IsWire(wire[c])
  BY <1>1, OwnReach DEF PlaceInv, Typed, CleanInv
<1>3. /\ IsSess(x) /\ x.conn = c /\ x.run = None /\ x.sets = <<>>
      /\ x.openStmts = 0 /\ (x.pinned <=> sess[s].pinned)
  BY <1>1, <1>2 DEF Idle, PlaceInv, Typed, IsSess, SessFields, Accountable
<1>4. Answers(sess[s], s, wire[c])
  BY <1>1, <1>2 DEF Accountable
<1>5. Answers(x, s, w)
  <2>1. Plain(w) /\ w.dirt = wire[c].dirt /\ w.stmts = wire[c].stmts \ {s}
    BY <1>2, <1>4 DEF Answers, Plain, IsWire, WireFields
  <2> HIDE DEF w, x
  <2> QED
    BY <1>3, <1>4, <2>1 DEF Answers
<1>6. m = [wire EXCEPT ![c] = w] /\ c = sess[s].conn
  OBVIOUS
<1> HIDE DEF w, x
<1>7. /\ wire' = m /\ sess' = [sess EXCEPT ![s] = AfterRelease(x, m)]
      /\ parked' = IF LetsGo(x, m) THEN parked \cup {c} ELSE parked
      /\ c # None
  BY <1>1
<1> HIDE DEF m, c
<1>8. /\ \A r \in Sessions \ {s} : sess'[r] = sess[r]
      /\ sess'[s].run = None /\ sess'[s].sets = <<>>
      /\ sess'[s].openStmts = x.openStmts /\ (sess'[s].pinned <=> x.pinned)
      /\ sess'[s].conn = IF LetsGo(x, m) THEN None ELSE c
  BY <1>3, <1>7, AfterReleaseFacts DEF PlaceInv, Typed
<1>9. x.openStmts \in {0, 1}
  BY <1>3
<1> QED
  BY <1>3, <1>5, <1>6, <1>7, <1>8, <1>9, CleanGoesOn

\* What a session leaves at its end is reset.
LEMMA CleanEnds ==
    ASSUME Tractable, PlaceInv, CleanInv, NEW s \in Sessions,
           ResetSession(s) \/ Disconnect(s)
    PROVE  CleanInv'
<1> DEFINE Starts == /\ sess'[s].run = None /\ sess'[s].conn = None
                     /\ sess'[s].sets = <<>> /\ sess'[s].openStmts \in {0, 1}
                     /\ \A t \in Sessions \ {s} : sess'[t] = sess[t]
<1>1. ASSUME Disconnect(s) PROVE Starts
  BY <1>1, NewSessionFacts DEF Disconnect, PlaceInv, Typed
<1>2. ASSUME ResetSession(s) PROVE Starts
  <2>1. PICK d, r : sess' = [sess EXCEPT ![s] = [NewSession EXCEPT !.db = d, !.wrote = r]]
    BY <1>2 DEF ResetSession
  <2> QED
    BY <2>1, NewSessionFacts DEF PlaceInv, Typed, IsSess, SessFields
<1>3. GiveBack(s)
  BY DEF ResetSession, Disconnect
<1>4. WireChanges(s)
  BY <1>3, GiveBackFacts
<1>5. \A b \in parked' : Tidy(wire'[b])
  <2>1. CASE sess[s].conn = None
    BY <1>3, <2>1 DEF GiveBack, CleanInv
  <2>2. CASE sess[s].conn # None
    <3>1. Released(wire[sess[s].conn], parked, sess[s].conn) /\ sess[s].conn \in Conns
      BY <1>3, <2>2, OwnReach DEF GiveBack
    <3>2. parked \subseteq Conns /\ DOMAIN wire = Conns /\ \A b \in parked : Tidy(wire[b])
      BY DEF PlaceInv, Typed, CleanInv
    <3> QED
      BY <3>1, <3>2, TidyReleased
  <2> QED
    BY <2>1, <2>2
<1> QED
  BY <1>1, <1>2, <1>4, <1>5, CleanDetaches

\* Steps that concern no connection in use.
LEMMA CleanOthers ==
    ASSUME PlaceInv, CleanInv,
           \/ \E s \in Sessions : StickyPasses(s)
           \/ \E c \in Conns : ParkedLeaves(c)
           \/ UNCHANGED vars
    PROVE  CleanInv'
<1>1. ASSUME NEW s \in Sessions, StickyPasses(s) PROVE CleanInv'
  <2>1. sess' = [sess EXCEPT ![s].wrote = FALSE] /\ UNCHANGED <<wire, parked>>
    BY <1>1 DEF StickyPasses
  <2>2. /\ sess'[s].run = sess[s].run /\ sess'[s].conn = sess[s].conn
        /\ sess'[s].sets = sess[s].sets /\ sess'[s].openStmts = sess[s].openStmts
        /\ (sess'[s].pinned <=> sess[s].pinned)
        /\ \A t \in Sessions \ {s} : sess'[t] = sess[t]
    BY <2>1 DEF PlaceInv, Typed, IsSess, SessFields
  <2>3. Accountable(s)'
    BY <2>1, <2>2 DEF CleanInv, Accountable, Answers
  <2> QED
    BY <2>1, <2>2, <2>3, CleanOwn DEF CleanInv
<1>2. ASSUME NEW c \in Conns, ParkedLeaves(c) PROVE CleanInv'
  <2>1. /\ c \in parked /\ parked' = parked \ {c} /\ sess' = sess
        /\ wire' = [wire EXCEPT ![c] = NoConnection]
    BY <1>2 DEF ParkedLeaves
  <2>2. ASSUME NEW s \in Sessions PROVE Accountable(s)'
    <3>1. Accountable(s) /\ sess[s].conn # c
      BY <2>1, PlacesAssumption DEF CleanInv, PlaceInv, Attached
    <3>2. sess[s].conn # None => wire'[sess[s].conn] = wire[sess[s].conn]
      BY <2>1, <3>1, OwnReach DEF PlaceInv, Typed
    <3> QED
      BY <2>1, <3>1, <3>2 DEF Accountable
  <2> QED
    BY <2>1, <2>2 DEF PlaceInv, Typed, CleanInv
<1>3. CASE UNCHANGED vars
  BY <1>3 DEF vars, CleanInv, Accountable
<1> QED
  BY <1>1, <1>2, <1>3

\* All commands of a client.
LEMMA CleanCommand ==
    ASSUME Tractable, PlaceInv, CleanInv, NEW s \in Sessions, Command(s)
    PROVE  CleanInv'
<1>1. ASSUME NEW k \in Statements \cup {"prepare"}, NEW d, Begin(s, k, d),
             k = "prepare" => sess[s].openStmts = 0
      PROVE  CleanInv'
  BY <1>1, CleanBeginAttached, CleanBeginAcquires, CleanBeginFails, CleanBeginRefused DEF Begin
<1>2. ASSUME NEW k \in Statements \ {"use", "init db", "prepare"}, Begin(s, k, None)
      PROVE  CleanInv'
  BY <1>1, <1>2
<1>3. ASSUME NEW k \in Statements \cap {"use", "init db"}, NEW d \in Databases, Begin(s, k, d)
      PROVE  CleanInv'
  BY <1>1, <1>3
<1>4. ASSUME sess[s].openStmts = 0, Begin(s, "prepare", None)
      PROVE  CleanInv'
  BY <1>1, <1>4
<1> QED
  BY <1>2, <1>3, <1>4, CleanSelectsDatabase, CleanExecuteStmt, CleanIdleDrops,
     CleanCloseStmt, CleanEnds DEF Command

\* All steps.
LEMMA CleanStep == Tractable /\ PlaceInv /\ CleanInv /\ [Next]_vars => CleanInv'
<1> SUFFICES ASSUME Tractable, PlaceInv, CleanInv, [Next]_vars PROVE CleanInv'
  OBVIOUS
<1>1. ASSUME NEW s \in Sessions, Outcome(s) PROVE CleanInv'
  BY <1>1, CleanSucceeds, CleanFails, CleanLoses DEF Outcome
<1>2. ASSUME NEW s \in Sessions, PingerDrops(s) PROVE CleanInv'
  BY <1>2, CleanIdleDrops
<1> QED
  BY <1>1, <1>2, CleanCommand, CleanOthers DEF Next

\* With a server that can reset connections and clients that send neither SETs
\* that are replayed, nor USE or PREPARE as queries, a parked connection holds
\* nothing of any session: however its session left it (safety.go:14).
THEOREM ParkedAreClean == Tractable => (Spec => []ParkedConnectionsAreClean)
<1>1. ASSUME Tractable PROVE PlaceInv /\ CleanInv /\ [Next]_vars => PlaceInv' /\ CleanInv'
  BY <1>1, PlaceStep, CleanStep
<1>2. ASSUME Tractable PROVE Spec => [](PlaceInv /\ CleanInv)
  <2>1. PlaceInv /\ CleanInv /\ [Next]_vars => PlaceInv' /\ CleanInv'
    BY <1>1, <1>2
  <2> QED
    BY PlaceInit, CleanInit, <2>1, PTL DEF Spec
<1>3. ASSUME Tractable PROVE Spec => []ParkedConnectionsAreClean
  BY <1>2, <1>3, CleanParked, PTL
<1> QED
  BY <1>3

-----------------------------------------------------------------------------
(* Where statements run *)

\* Statements that neither keep a session on its connection for good nor
\* escape the classification, of clients whose connections are multiplexed:
\* TLC finds how the others write on a replica (README.md).
Unpinned ==
    /\ Mux
    /\ Statements \cap (Pins \cup SetStatements \cup {"cte write", "prepare"}) = {}

OnPrimary(k) == k \in Changing \cup {"begin", "commit", "rollback"}

\* A session in a transaction is on the primary; nothing else holds it.
Bounded(x) == ~x.pinned /\ x.openStmts = 0 /\ (x.holdNext => x.inTx)
Homed(x, w) ==
    /\ w.auto
    /\ w.tx # None => x.inTx
    /\ x.inTx => w.home = Primary

Directed(s) ==
    /\ Bounded(sess[s])
    /\ sess[s].conn # None => Homed(sess[s], wire[sess[s].conn])
    /\ sess[s].run # None =>
          /\ sess[s].run \in Statements
          /\ OnPrimary(sess[s].run) => wire[sess[s].conn].home = Primary
          /\ Classify(sess[s].run) = "select" /\ sess[s].wrote =>
                wire[sess[s].conn].home = Primary

RouteInv ==
    /\ \A c \in parked : wire[c].auto
    /\ \A s \in Sessions : Directed(s)

\* What statements need the primary, by their class.
LEMMA PrimaryIsWriteBound ==
    ASSUME Unpinned, NEW k \in Statements, OnPrimary(k)
    PROVE  WriteBound(k)
  BY DEF Unpinned, Pins, OnPrimary, Changing, WriteBound, Classify, Companions

\* A session that is not in a transaction is free to move; in one it stays on
\* the primary, and a write goes there in any case.
LEMMA RoutedHome ==
    ASSUME Unpinned, PlaceInv, RouteInv, NEW s \in Sessions, NEW k, NEW n \in Route(s, k)
    PROVE  /\ WriteBound(k) => n = Primary
           /\ sess[s].inTx => n = Primary
           /\ Classify(k) = "select" /\ sess[s].wrote => n = Primary
<1>1. Directed(s)
  BY DEF RouteInv
<1>2. CASE sess[s].conn # None /\ (~Releasable(sess[s], wire) \/ sess[s].holdNext)
  <2>1. sess[s].inTx
    BY <1>1, <1>2 DEF Directed, Bounded, Homed, Releasable
  <2> QED
    BY <1>1, <1>2, <2>1 DEF Route, Directed, Homed
<1>3. CASE ~(sess[s].conn # None /\ (~Releasable(sess[s], wire) \/ sess[s].holdNext))
  BY <1>3 DEF Route, StickyActive, WriteBound
<1> QED
  BY <1>2, <1>3

\* The invariant says what the two properties do.
LEMMA RouteProperties ==
    ASSUME PlaceInv, RouteInv PROVE WritesOnPrimary /\ ReadsOwnWrites
  BY DEF RouteInv, Directed, OnPrimary, WritesOnPrimary, ReadsOwnWrites, Running, Idle, Under

\* At first nobody is anywhere.
LEMMA RouteInit == Init => RouteInv
<1> SUFFICES ASSUME Init, NEW s \in Sessions PROVE Directed(s)
  BY DEF Init, RouteInv
<1>1. sess[s] = NewSession
  BY DEF Init
<1> QED
  BY <1>1 DEF Directed, Bounded, NewSession

\* A step of s.
LEMMA RouteOwn ==
    ASSUME PlaceInv, RouteInv, NEW s \in Sessions, Directed(s)',
           \A t \in Sessions \ {s} : sess'[t] = sess[t],
           \A b \in Conns \ Reach(s) : wire'[b] = wire[b],
           \A b \in parked' : wire'[b].auto
    PROVE  RouteInv'
<1>1. ASSUME NEW t \in Sessions, t # s PROVE Directed(t)'
  <2>1. sess'[t] = sess[t] /\ Directed(t) /\ Attached(t)
    BY <1>1 DEF RouteInv, PlaceInv
  <2>2. sess[t].conn # None => sess[t].conn \in Conns \ Reach(s)
    BY <1>1 DEF PlaceInv, Attached, Reach
  <2>3. sess[t].conn # None => wire'[sess[t].conn] = wire[sess[t].conn]
    BY <2>2
  <2> QED
    BY <2>1, <2>3 DEF Directed, Attached
<1> QED
  BY <1>1 DEF RouteInv

\* No reset turns autocommit off.
LEMMA AutoReset ==
    ASSUME NEW w, IsWire(w), w.auto PROVE ResetConn(w).auto
<1>1. CASE ResetUnsupported
  BY <1>1 DEF ResetConn, ServerReset, IsWire, WireFields
<1>2. CASE ~ResetUnsupported
  BY <1>2, FreshFacts DEF ResetConn, ServerReset, IsWire, WireFields
<1> QED
  BY <1>1, <1>2

\* Neither does the preparation of a connection.
LEMMA AutoPrepared ==
    ASSUME NEW x, NEW w, IsWire(w), w.auto
    PROVE  /\ Prepared(x, w).auto
           /\ \A r \in StoppedAt(x, w) : r.auto
<1> DEFINE c == Cleared(x, w)
           b == Bound(x, c)
<1>1. c.auto /\ b.auto /\ IsWire(b)
  BY AutoReset, ClearedFacts, BoundFacts DEF Cleared, SameTx
<1>2. Prepared(x, w) = IF b.sig # x.sets
        THEN [b EXCEPT !.vars = FoldLeft(ApplySet, b.vars, x.sets), !.sig = x.sets]
        ELSE b
  BY DEF Prepared
<1>3. \A r \in StoppedAt(x, w) : r = c \/ \E u : r = [b EXCEPT !.vars = u]
  BY DEF StoppedAt
<1> HIDE DEF c, b
<1> QED
  BY <1>1, <1>2, <1>3 DEF IsWire, WireFields

\* What comes from a pool has autocommit on.
LEMMA AutoAcquired ==
    ASSUME RouteInv, NEW n, NEW c \in Acquirable(n), PlaceInv
    PROVE  FromPool(c, n).auto
  BY FreshFacts DEF FromPool, Acquirable, Open, RouteInv, PlaceInv, ParkedFree

\* So has what goes back to one.
LEMMA AutoReleased ==
    ASSUME NEW p, NEW c, NEW w, IsWire(w), w.auto, Released(w, p, c), p \subseteq Conns,
           DOMAIN wire = Conns, c \in Conns, \A b \in p \ {c} : wire[b].auto
    PROVE  /\ \A b \in parked' : wire'[b].auto
           /\ \A b \in Conns \ {c} : wire'[b] = wire[b]
<1>1. CASE Resettable(w)
  <2>1. wire' = [wire EXCEPT ![c] = ResetConn(w)] /\ parked' = p \cup {c}
    BY <1>1 DEF Released
  <2> QED
    BY <2>1, AutoReset
<1>2. CASE ~Resettable(w)
  <2>1. wire' = [wire EXCEPT ![c] = NoConnection] /\ parked' = p \ {c}
    BY <1>2 DEF Released
  <2> QED
    BY <2>1
<1> QED
  BY <1>1, <1>2

\* And what a session moves away from.
LEMMA AutoMoved ==
    ASSUME RouteInv, NEW s \in Sessions
    PROVE  \A b \in ParkedByMove(s) : wire[b].auto
  BY DEF RouteInv, Directed, Homed, ParkedByMove

\* A statement on the connection at hand.
LEMMA RouteBeginAttached ==
    ASSUME Unpinned, PlaceInv, RouteInv, NEW s \in Sessions, NEW k \in Statements, NEW d,
           BeginAttached(s, k, d)
    PROVE  RouteInv'
<1> DEFINE c == sess[s].conn
<1>1. PICK e : sess' = [sess EXCEPT ![s].run = k, ![s].arg = d, ![s].db = e]
  BY DEF BeginAttached
<1>2. /\ sess'[s].conn = c /\ sess'[s].run = k /\ sess'[s].wrote = sess[s].wrote
      /\ sess'[s].openStmts = sess[s].openStmts /\ (sess'[s].pinned <=> sess[s].pinned)
      /\ (sess'[s].holdNext <=> sess[s].holdNext) /\ (sess'[s].inTx <=> sess[s].inTx)
      /\ \A t \in Sessions \ {s} : sess'[t] = sess[t]
  BY <1>1 DEF PlaceInv, Typed, IsSess, SessFields
<1>3. UNCHANGED <<wire, parked>> /\ (k = "init db" \/ wire[c].home \in Route(s, k))
  BY DEF BeginAttached
<1>4. OnPrimary(k) \/ (Classify(k) = "select" /\ sess[s].wrote) => wire[c].home = Primary
  <2>1. k = "init db" => ~OnPrimary(k) /\ Classify(k) # "select"
    BY DEF OnPrimary, Changing, Classify, Companions
  <2>2. CASE k = "init db"
    BY <2>1, <2>2
  <2>3. CASE k # "init db"
    <3>1. PICK n \in Route(s, k) : wire[c].home = n
      BY <1>3, <2>3
    <3>2. OnPrimary(k) => WriteBound(k)
      BY PrimaryIsWriteBound
    <3>3. /\ WriteBound(k) => n = Primary
          /\ Classify(k) = "select" /\ sess[s].wrote => n = Primary
      BY RoutedHome
    <3> QED
      BY <3>1, <3>2, <3>3
  <2> QED
    BY <2>2, <2>3
<1>5. Directed(s)'
  BY <1>2, <1>3, <1>4 DEF RouteInv, Directed, Bounded, Homed
<1> QED
  BY <1>2, <1>3, <1>5, RouteOwn DEF RouteInv

\* A connection from a pool.
LEMMA RouteBeginAcquires ==
    ASSUME Unpinned, PlaceInv, RouteInv, NEW s \in Sessions, NEW k \in Statements, NEW d,
           BeginAcquires(s, k, d)
    PROVE  RouteInv'
<1>1. PICK n \in Route(s, k) :
         /\ sess[s].conn # None => wire[sess[s].conn].home # n
         /\ \E c \in Acquirable(n) :
               /\ wire' = [wire EXCEPT ![c] = Prepared(sess[s], FromPool(c, n))]
               /\ parked' = ParkedByMove(s) \ {c}
               /\ sess' = [sess EXCEPT ![s] = [sess[s] EXCEPT !.run = k, !.arg = d, !.conn = c]]
  BY DEF BeginAcquires
<1>2. PICK c \in Acquirable(n) :
         /\ wire' = [wire EXCEPT ![c] = Prepared(sess[s], FromPool(c, n))]
         /\ parked' = ParkedByMove(s) \ {c}
         /\ sess' = [sess EXCEPT ![s] = [sess[s] EXCEPT !.run = k, !.arg = d, !.conn = c]]
  BY <1>1
<1>3. n # None /\ ParkedByMove(s) \subseteq Conns
  BY <1>1, Routed, MovesAway
<1>4. /\ c \in Conns /\ c \in Reach(s) /\ IsWire(FromPool(c, n)) /\ FromPool(c, n).auto
      /\ FromPool(c, n).home = n /\ FromPool(c, n).tx = None
  BY <1>2, <1>3, Acquired, AutoAcquired
<1> DEFINE w == Prepared(sess[s], FromPool(c, n))
<1>5. w.auto /\ w.home = n /\ w.tx = None
  BY <1>4, PreparedFacts, AutoPrepared DEF Ended
<1> HIDE DEF w
<1>6. /\ sess'[s].conn = c /\ sess'[s].run = k /\ sess'[s].wrote = sess[s].wrote
      /\ sess'[s].openStmts = sess[s].openStmts /\ (sess'[s].pinned <=> sess[s].pinned)
      /\ (sess'[s].holdNext <=> sess[s].holdNext) /\ (sess'[s].inTx <=> sess[s].inTx)
      /\ \A t \in Sessions \ {s} : sess'[t] = sess[t]
  BY <1>2 DEF PlaceInv, Typed, IsSess, SessFields
<1>7. wire'[c] = w /\ \A b \in Conns \ {c} : wire'[b] = wire[b]
  BY <1>2, <1>4 DEF PlaceInv, Typed, w
<1>8. \A b \in parked' : wire'[b].auto
  BY <1>2, <1>3, <1>7, AutoMoved
<1>9. Directed(s)'
  BY <1>5, <1>6, <1>7, RoutedHome, PrimaryIsWriteBound DEF RouteInv, Directed, Bounded, Homed
<1> QED
  BY <1>4, <1>6, <1>7, <1>8, <1>9, RouteOwn

\* A session that ends up without a connection.
LEMMA RouteDetaches ==
    ASSUME PlaceInv, RouteInv, NEW s \in Sessions, Bounded(sess'[s]),
           \A t \in Sessions \ {s} : sess'[t] = sess[t],
           sess'[s].conn = None, sess'[s].run = None,
           \A b \in Conns \ Reach(s) : wire'[b] = wire[b],
           \A b \in parked' : wire'[b].auto
    PROVE  RouteInv'
<1>1. Directed(s)'
  BY DEF Directed, Bounded
<1> QED
  BY <1>1, RouteOwn

\* No connection.
LEMMA RouteBeginFails ==
    ASSUME PlaceInv, RouteInv, NEW s \in Sessions, NEW k, NEW d, BeginFails(s, k, d)
    PROVE  RouteInv'
<1>1. PICK e : sess' = [sess EXCEPT ![s].conn = None, ![s].db = e]
  BY DEF BeginFails
<1>2. sess[s].run = None /\ wire' = wire /\ parked' = ParkedByMove(s) /\ Directed(s)
  BY DEF BeginFails, Idle, RouteInv
<1>3. /\ sess'[s].conn = None /\ sess'[s].run = None
      /\ sess'[s].openStmts = sess[s].openStmts /\ (sess'[s].pinned <=> sess[s].pinned)
      /\ (sess'[s].holdNext <=> sess[s].holdNext) /\ (sess'[s].inTx <=> sess[s].inTx)
      /\ \A t \in Sessions \ {s} : sess'[t] = sess[t]
  BY <1>1, <1>2 DEF PlaceInv, Typed, IsSess, SessFields
<1>4. Bounded(sess'[s])
  BY <1>2, <1>3 DEF Directed, Bounded
<1> QED
  BY <1>2, <1>3, <1>4, AutoMoved, RouteDetaches

\* The server refuses the database.
LEMMA RouteBeginRefused ==
    ASSUME PlaceInv, RouteInv, NEW s \in Sessions, NEW k, NEW d, BeginRefused(s, k, d)
    PROVE  RouteInv'
<1> DEFINE x == [sess[s] EXCEPT !.db = IF k = "init db" THEN d ELSE @]
<1>1. /\ Idle(s)
      /\ \E n \in Route(s, k) :
            /\ x.conn # None => wire[x.conn].home # n
            /\ \E c \in Acquirable(n) : \E w \in StoppedAt(x, FromPool(c, n)) :
                  Released(w, ParkedByMove(s), c)
      /\ sess' = [sess EXCEPT ![s] = [x EXCEPT !.conn = None]]
  BY DEF BeginRefused
<1>2. /\ IsSess(x) /\ x.conn = sess[s].conn /\ x.run = sess[s].run
      /\ (x.holdNext <=> sess[s].holdNext) /\ (x.inTx <=> sess[s].inTx)
      /\ (x.pinned <=> sess[s].pinned) /\ x.openStmts = sess[s].openStmts
  <2>1. \E e : x = [sess[s] EXCEPT !.db = e]
    OBVIOUS
  <2> HIDE DEF x
  <2> QED
    BY <2>1 DEF PlaceInv, Typed, IsSess, SessFields
<1> HIDE DEF x
<1>3. PICK n \in Route(s, k) :
         /\ sess[s].conn # None => wire[sess[s].conn].home # n
         /\ \E c \in Acquirable(n) : \E w \in StoppedAt(x, FromPool(c, n)) :
               Released(w, ParkedByMove(s), c)
  BY <1>1, <1>2
<1>4. PICK c \in Acquirable(n) : \E w \in StoppedAt(x, FromPool(c, n)) :
         Released(w, ParkedByMove(s), c)
  BY <1>3
<1>5. PICK w \in StoppedAt(x, FromPool(c, n)) : Released(w, ParkedByMove(s), c)
  BY <1>4
<1>6. n # None /\ ParkedByMove(s) \subseteq Conns /\ DOMAIN wire = Conns
  BY <1>3, Routed, MovesAway DEF PlaceInv, Typed
<1>7. /\ c \in Conns /\ c \in Reach(s) /\ IsWire(FromPool(c, n)) /\ FromPool(c, n).auto
  BY <1>4, <1>6, Acquired, AutoAcquired
<1>8. IsWire(w) /\ w.auto
  BY <1>5, <1>7, StoppedFacts, AutoPrepared
<1>9. \A b \in ParkedByMove(s) : wire[b].auto
  BY AutoMoved
<1>10. (\A b \in parked' : wire'[b].auto) /\ (\A b \in Conns \ {c} : wire'[b] = wire[b])
  BY <1>5, <1>6, <1>7, <1>8, <1>9, AutoReleased
<1>11. Directed(s) /\ sess[s].run = None
  BY <1>1 DEF RouteInv, Idle
<1>12. /\ sess'[s].conn = None /\ sess'[s].run = None
       /\ sess'[s].openStmts = sess[s].openStmts /\ (sess'[s].pinned <=> sess[s].pinned)
       /\ (sess'[s].holdNext <=> sess[s].holdNext) /\ (sess'[s].inTx <=> sess[s].inTx)
       /\ \A t \in Sessions \ {s} : sess'[t] = sess[t]
  BY <1>1, <1>2, <1>11 DEF PlaceInv, Typed, IsSess, SessFields
<1>13. Bounded(sess'[s])
  BY <1>11, <1>12 DEF Directed, Bounded
<1> QED
  BY <1>7, <1>10, <1>12, <1>13, RouteDetaches

\* Without a connection of its own a session has no handle to execute or close.
LEMMA NoHandles ==
    ASSUME RouteInv, NEW s \in Sessions
    PROVE  ~ExecuteStmt(s) /\ ~ExecuteStaleStmt(s) /\ ~CloseStmt(s) /\ ~CloseStaleStmt(s)
<1>1. sess[s].openStmts = 0
  BY DEF RouteInv, Directed, Bounded
<1> QED
  BY <1>1 DEF ExecuteStmt, ExecuteStaleStmt, CloseStmt, CloseStaleStmt

\* A session that may let its connection go does not hold it for the next
\* statement any more.
LEMMA AfterReleaseBounded ==
    ASSUME Mux, NEW x, NEW m, IsSess(x), x.conn # None, ~x.pinned, x.openStmts = 0,
           Homed(x, m[x.conn])
    PROVE  LET y == AfterRelease(x, m) IN
           /\ IsSess(y) /\ Bounded(y) /\ y.run = x.run /\ (y.inTx <=> x.inTx)
           /\ y.conn = IF LetsGo(x, m) THEN None ELSE x.conn
<1>1. CASE Releasable(x, m)
  BY <1>1 DEF AfterRelease, LetsGo, Bounded, Releasable, IsSess, SessFields
<1>2. CASE ~Releasable(x, m)
  <2>1. x.inTx
    BY <1>2 DEF Releasable, Homed
  <2> QED
    BY <1>2, <2>1 DEF AfterRelease, LetsGo, Bounded
<1> QED
  BY <1>1, <1>2

\* A session goes on with its connection, or parks it.
LEMMA RouteGoesOn ==
    ASSUME Mux, PlaceInv, RouteInv, NEW s \in Sessions, NEW c \in Conns, c \in Reach(s), c # None,
           NEW w, NEW m, m = [wire EXCEPT ![c] = w], wire' = m,
           NEW t, IsSess(t), t.conn = c, t.run = None, ~t.pinned, t.openStmts = 0,
           Homed(t, w), sess' = [sess EXCEPT ![s] = AfterRelease(t, m)],
           parked' \subseteq parked \cup {c}
    PROVE  RouteInv'
<1>1. m[c] = w /\ wire'[c] = w /\ \A b \in Conns \ {c} : wire'[b] = wire[b]
  BY DEF PlaceInv, Typed
<1> DEFINE q == AfterRelease(t, m)
<1>2. Homed(t, m[t.conn])
  BY <1>1
<1>3. Bounded(q) /\ q.run = None /\ (q.inTx <=> t.inTx) /\ q.conn \in {None, c}
  BY <1>2, AfterReleaseBounded
<1> HIDE DEF q
<1>4. sess'[s] = q /\ \A r \in Sessions \ {s} : sess'[r] = sess[r]
  BY DEF PlaceInv, Typed, q
<1>5. Directed(s)'
  BY <1>1, <1>3, <1>4 DEF Directed, Homed
<1>6. \A b \in parked' : wire'[b].auto
  BY <1>1 DEF Homed, RouteInv, PlaceInv, Typed
<1> QED
  BY <1>1, <1>4, <1>5, <1>6, RouteOwn

\* A connection that may go back at once.
LEMMA RouteSelectsDatabase ==
    ASSUME Unpinned, PlaceInv, RouteInv, NEW s \in Sessions, NEW d, SelectsDatabase(s, d)
    PROVE  RouteInv'
<1>0. \A n \in Route(s, "init db") : sess[s].inTx => n = Primary
  <2> SUFFICES ASSUME NEW k, NEW n \in Route(s, k), sess[s].inTx PROVE n = Primary
    OBVIOUS
  <2> QED
    BY RoutedHome
<1> DEFINE x == [sess[s] EXCEPT !.db = d]
           y(c) == [x EXCEPT !.conn = c]
           m(c, n) == [wire EXCEPT ![c] = Prepared(x, FromPool(c, n))]
<1>1. PICK n \in Route(s, "init db") : \E c \in Acquirable(n) :
          /\ wire' = m(c, n)
          /\ sess' = [sess EXCEPT ![s] = AfterRelease(y(c), m(c, n))]
          /\ parked' = IF LetsGo(y(c), m(c, n)) THEN parked \cup {c} ELSE parked \ {c}
  BY DEF SelectsDatabase
<1>2. PICK c \in Acquirable(n) :
          /\ wire' = m(c, n)
          /\ sess' = [sess EXCEPT ![s] = AfterRelease(y(c), m(c, n))]
          /\ parked' = IF LetsGo(y(c), m(c, n)) THEN parked \cup {c} ELSE parked \ {c}
  BY <1>1
<1>3. Idle(s) /\ x.conn = None
  BY Zenon DEF SelectsDatabase
<1>4. /\ x.conn = sess[s].conn /\ IsSess(x) /\ x.run = sess[s].run
      /\ x.openStmts = sess[s].openStmts /\ (x.pinned <=> sess[s].pinned)
      /\ (x.inTx <=> sess[s].inTx)
  BY DEF PlaceInv, Typed, IsSess, SessFields
<1>5. sess[s].conn = None /\ sess[s].run = None /\ Bounded(sess[s])
  BY <1>3, <1>4 DEF Idle, RouteInv, Directed
<1>6. n # None /\ (sess[s].inTx => n = Primary)
  <2>1. n # None
    BY <1>5, Routed
  <2>2. sess[s].inTx => n = Primary
    BY <1>0
  <2> QED
    BY <2>1, <2>2
<1>7. /\ c \in Conns /\ c \in Reach(s) /\ c # None /\ IsWire(FromPool(c, n))
      /\ FromPool(c, n).home = n /\ FromPool(c, n).tx = None /\ FromPool(c, n).auto
  BY <1>2, <1>6, Acquired, AutoAcquired, PlacesAssumption
<1> HIDE DEF x
<1>8. /\ IsSess(y(c)) /\ y(c).conn = c /\ y(c).run = None /\ y(c).openStmts = 0
      /\ ~y(c).pinned /\ (y(c).inTx <=> sess[s].inTx)
  BY <1>4, <1>5 DEF IsSess, SessFields, Bounded
<1> DEFINE w == Prepared(x, FromPool(c, n))
<1>9. w.auto /\ w.home = n /\ w.tx = None
  BY <1>7, PreparedFacts, AutoPrepared DEF Ended
<1> DEFINE z == y(c)
           mm == m(c, n)
<1>10. mm = [wire EXCEPT ![c] = w] /\ wire' = mm
  BY <1>2
<1>11. /\ sess' = [sess EXCEPT ![s] = AfterRelease(z, mm)] /\ parked' \subseteq parked \cup {c}
       /\ IsSess(z) /\ z.conn = c /\ z.run = None /\ z.openStmts = 0
       /\ ~z.pinned /\ (z.inTx <=> sess[s].inTx)
  BY <1>2, <1>8
<1> HIDE DEF y, m, z, mm, w
<1>12. Homed(z, w)
  BY <1>6, <1>9, <1>11 DEF Homed
<1> QED
  BY <1>7, <1>10, <1>11, <1>12, RouteGoesOn DEF Unpinned

\* What a statement leaves of a transaction is known to the session.
LEMMA TrackSafetyTx ==
    ASSUME NEW x, NEW k, NEW w, IsSess(x), ~x.pinned, k \notin Pins
    PROVE  LET t == TrackSafety(x, k, w) IN
           /\ ~t.pinned
           /\ k = "begin" => t.inTx
           /\ k \in {"commit", "rollback"} => ~t.inTx
           /\ k \notin {"begin", "commit", "rollback"} => (t.inTx <=> x.inTx \/ w.tx # None)
<1> DEFINE a == CASE k = "begin" -> TRUE
                  [] k \in {"commit", "rollback"} -> FALSE
                  [] OTHER -> x.inTx \/ w.tx # None
<1>1. \E b, c : TrackSafety(x, k, w) =
        [x EXCEPT !.inTx = a, !.wrote = b, !.pinned = x.pinned \/ k \in Pins, !.holdNext = c]
  BY DEF TrackSafety
<1>2. /\ k = "begin" => a
      /\ k \in {"commit", "rollback"} => ~a
      /\ k \notin {"begin", "commit", "rollback"} => (a <=> x.inTx \/ w.tx # None)
  OBVIOUS
<1> HIDE DEF a
<1>3. (TrackSafety(x, k, w).inTx <=> a) /\ ~TrackSafety(x, k, w).pinned
  BY <1>1 DEF IsSess, SessFields
<1> QED
  BY <1>2, <1>3

\* A statement ends.
LEMMA RouteSucceeds ==
    ASSUME Unpinned, PlaceInv, RouteInv, NEW s \in Sessions, Succeeds(s)
    PROVE  RouteInv'
<1> DEFINE k == sess[s].run
           d == sess[s].arg
           c == sess[s].conn
           w == Executed(s, k, d, wire[c])
           y == [sess[s] EXCEPT !.run = None, !.arg = None]
           t == IF k = "prepare" THEN [y EXCEPT !.openStmts = @ + 1]
                ELSE IF k = "init db" THEN y
                ELSE TrackSafety(TrackSet(y, k), k, w)
           l == [w EXCEPT !.sig = IF t.sets # y.sets THEN t.sets ELSE @]
           m == [wire EXCEPT ![c] = l]
<1>1. /\ ~Idle(s) /\ wire' = m
      /\ IF k = "prepare"
         THEN sess' = [sess EXCEPT ![s] = t] /\ UNCHANGED parked
         ELSE /\ sess' = [sess EXCEPT ![s] = AfterRelease(t, m)]
              /\ parked' = IF LetsGo(t, m) THEN parked \cup {c} ELSE parked
  BY Zenon DEF Succeeds
<1>2. /\ Directed(s) /\ k # None /\ c # None /\ c \in Conns /\ c \in Reach(s)
      /\ IsWire(wire[c])
  BY <1>1, OwnReach DEF Idle, PlaceInv, Typed, Attached, RouteInv
<1>3. /\ k \notin SetStatements \cup Pins \cup {"prepare"}
      /\ Homed(sess[s], wire[c]) /\ (OnPrimary(k) => wire[c].home = Primary)
  BY <1>2 DEF Directed, Unpinned
<1>4. /\ IsSess(y) /\ y.conn = c /\ y.run = None /\ y.openStmts = 0
      /\ ~y.pinned /\ (y.inTx <=> sess[s].inTx)
  BY <1>2 DEF PlaceInv, Typed, IsSess, SessFields, Directed, Bounded
<1>5. IsWire(w) /\ w.home = wire[c].home /\ w.auto /\ w.tx = TxAfter(s, k, wire[c])
  <2>1. Ran(s, k, wire[c], w)
    BY <1>2, ExecutedFacts
  <2> HIDE DEF w
  <2> QED
    BY <2>1, <1>3 DEF Ran, Homed, Pins
<1>6. /\ sess' = [sess EXCEPT ![s] = AfterRelease(t, m)]
      /\ parked' \subseteq parked \cup {c} /\ m = [wire EXCEPT ![c] = l] /\ wire' = m
  BY <1>1, <1>3
<1>7. l.home = w.home /\ l.auto /\ l.tx = w.tx
  <2> HIDE DEF w, t, y
  <2> QED
    BY <1>5 DEF IsWire, WireFields
<1> HIDE DEF y, w, l
<1>8. /\ IsSess(t) /\ t.conn = c /\ t.run = None /\ t.openStmts = 0 /\ ~t.pinned
      /\ (w.tx # None => t.inTx) /\ (t.inTx => w.home = Primary)
  <2>1. CASE k = "init db"
    <3>1. t = y
      BY <2>1
    <3>2. w.tx = wire[c].tx
      BY <1>5, <2>1 DEF TxAfter
    <3> HIDE DEF t, k, c
    <3> QED
      BY <1>3, <1>4, <1>5, <3>1, <3>2 DEF Homed
  <2>2. CASE k # "init db"
    <3>1. TrackSet(y, k) = y
      BY <1>3, <1>4, TrackSetFacts
    <3>2. t = TrackSafety(y, k, w)
      BY <2>2, <1>3, <3>1
    <3> HIDE DEF t, k, c
    <3>3. /\ IsSess(t) /\ t.conn = c /\ t.run = None /\ t.openStmts = 0
      BY <1>4, <3>2, TrackSafetyFacts
    <3>4. /\ ~t.pinned
          /\ k = "begin" => t.inTx
          /\ k \in {"commit", "rollback"} => ~t.inTx
          /\ k \notin {"begin", "commit", "rollback"} => (t.inTx <=> y.inTx \/ w.tx # None)
      BY <1>3, <1>4, <3>2, TrackSafetyTx
    <3> QED
      BY <1>3, <1>4, <1>5, <3>3, <3>4 DEF TxAfter, Homed, OnPrimary, Pins
  <2> QED
    BY <2>1, <2>2
<1> HIDE DEF t, m, c, k
<1>9. Homed(t, l)
  BY <1>7, <1>8 DEF Homed
<1> QED
  BY <1>2, <1>6, <1>8, <1>9, RouteGoesOn DEF Unpinned

\* A statement ends with an error of the server.
LEMMA RouteFails ==
    ASSUME PlaceInv, RouteInv, NEW s \in Sessions, FailsInMySQL(s)
    PROVE  RouteInv'
<1>1. sess' = [sess EXCEPT ![s].run = None, ![s].arg = None] /\ UNCHANGED <<wire, parked>>
  BY DEF FailsInMySQL
<1>2. /\ sess'[s].run = None /\ sess'[s].conn = sess[s].conn
      /\ sess'[s].openStmts = sess[s].openStmts /\ (sess'[s].pinned <=> sess[s].pinned)
      /\ (sess'[s].holdNext <=> sess[s].holdNext) /\ (sess'[s].inTx <=> sess[s].inTx)
      /\ \A t \in Sessions \ {s} : sess'[t] = sess[t]
  BY <1>1 DEF PlaceInv, Typed, IsSess, SessFields
<1>3. Directed(s)'
  BY <1>1, <1>2 DEF RouteInv, Directed, Bounded, Homed
<1> QED
  BY <1>1, <1>2, <1>3, RouteOwn DEF RouteInv

\* A connection breaks or is found dead.
LEMMA RouteLoses ==
    ASSUME PlaceInv, RouteInv, NEW s \in Sessions, LosesConnection(s) \/ PingerDrops(s)
    PROVE  RouteInv'
<1>1. /\ wire' = [wire EXCEPT ![sess[s].conn] = NoConnection]
      /\ parked' = parked /\ sess[s].conn # None /\ Directed(s)
  BY DEF LosesConnection, PingerDrops, Idle, PlaceInv, Attached, RouteInv
<1>2. \/ sess' = [sess EXCEPT ![s].run = None, ![s].arg = None, ![s].conn = None]
      \/ sess' = [sess EXCEPT ![s].conn = None] /\ sess[s].run = None
  BY DEF LosesConnection, PingerDrops, Idle
<1>3. /\ sess'[s].run = None /\ sess'[s].conn = None
      /\ sess'[s].openStmts = sess[s].openStmts /\ (sess'[s].pinned <=> sess[s].pinned)
      /\ (sess'[s].holdNext <=> sess[s].holdNext) /\ (sess'[s].inTx <=> sess[s].inTx)
      /\ \A t \in Sessions \ {s} : sess'[t] = sess[t]
  BY <1>2 DEF PlaceInv, Typed, IsSess, SessFields
<1>4. Bounded(sess'[s])
  BY <1>1, <1>3 DEF Directed, Bounded
<1>5. /\ sess[s].conn \in Reach(s) /\ sess[s].conn \in Conns /\ sess[s].conn \notin parked
  BY <1>1, OwnReach DEF PlaceInv, Attached
<1>6. /\ \A b \in Conns \ Reach(s) : wire'[b] = wire[b]
      /\ \A b \in parked' : wire'[b].auto
  BY <1>1, <1>5 DEF RouteInv, PlaceInv, Typed
<1> QED
  BY <1>3, <1>4, <1>6, RouteDetaches

\* A session starts again.
LEMMA RouteEnds ==
    ASSUME PlaceInv, RouteInv, NEW s \in Sessions, ResetSession(s) \/ Disconnect(s)
    PROVE  RouteInv'
<1> DEFINE Starts == /\ sess'[s].run = None /\ sess'[s].conn = None /\ Bounded(sess'[s])
                     /\ \A t \in Sessions \ {s} : sess'[t] = sess[t]
<1>1. ~NewSession.holdNext
  BY DEF NewSession
<1>2. ASSUME Disconnect(s) PROVE Starts
  BY <1>1, <1>2, NewSessionFacts DEF Disconnect, PlaceInv, Typed, Bounded
<1>3. ASSUME ResetSession(s) PROVE Starts
  <2>1. PICK d, r : sess' = [sess EXCEPT ![s] = [NewSession EXCEPT !.db = d, !.wrote = r]]
    BY <1>3 DEF ResetSession
  <2> QED
    BY <2>1, <1>1, NewSessionFacts DEF PlaceInv, Typed, IsSess, SessFields, Bounded
<1>4. GiveBack(s)
  BY DEF ResetSession, Disconnect
<1>5. /\ \A b \in Conns \ Reach(s) : wire'[b] = wire[b]
      /\ \A b \in parked' : wire'[b].auto
  <2>1. CASE sess[s].conn = None
    BY <1>4, <2>1 DEF GiveBack, RouteInv
  <2>2. CASE sess[s].conn # None
    <3>1. /\ Released(wire[sess[s].conn], parked, sess[s].conn)
          /\ sess[s].conn \in Conns /\ sess[s].conn \in Reach(s)
      BY <1>4, <2>2, OwnReach DEF GiveBack
    <3>2. /\ parked \subseteq Conns /\ DOMAIN wire = Conns /\ \A b \in parked : wire[b].auto
          /\ IsWire(wire[sess[s].conn]) /\ wire[sess[s].conn].auto
      BY <2>2, <3>1 DEF PlaceInv, Typed, RouteInv, Directed, Homed
    <3> QED
      BY <3>1, <3>2, AutoReleased
  <2> QED
    BY <2>1, <2>2
<1> QED
  BY <1>2, <1>3, <1>5, RouteDetaches

\* Steps that concern no connection in use.
LEMMA RouteOthers ==
    ASSUME PlaceInv, RouteInv,
           \/ \E s \in Sessions : StickyPasses(s)
           \/ \E c \in Conns : ParkedLeaves(c)
           \/ UNCHANGED vars
    PROVE  RouteInv'
<1>1. ASSUME NEW s \in Sessions, StickyPasses(s) PROVE RouteInv'
  <2>1. sess' = [sess EXCEPT ![s].wrote = FALSE] /\ UNCHANGED <<wire, parked>>
    BY <1>1 DEF StickyPasses
  <2>2. /\ sess'[s].run = sess[s].run /\ sess'[s].conn = sess[s].conn /\ ~sess'[s].wrote
        /\ sess'[s].openStmts = sess[s].openStmts /\ (sess'[s].pinned <=> sess[s].pinned)
        /\ (sess'[s].holdNext <=> sess[s].holdNext) /\ (sess'[s].inTx <=> sess[s].inTx)
        /\ \A t \in Sessions \ {s} : sess'[t] = sess[t]
    BY <2>1 DEF PlaceInv, Typed, IsSess, SessFields
  <2>3. Directed(s)'
    BY <2>1, <2>2 DEF RouteInv, Directed, Bounded, Homed
  <2> QED
    BY <2>1, <2>2, <2>3, RouteOwn DEF RouteInv
<1>2. ASSUME NEW c \in Conns, ParkedLeaves(c) PROVE RouteInv'
  <2>1. /\ c \in parked /\ parked' = parked \ {c} /\ sess' = sess
        /\ wire' = [wire EXCEPT ![c] = NoConnection]
    BY <1>2 DEF ParkedLeaves
  <2>2. ASSUME NEW s \in Sessions PROVE Directed(s)'
    <3>1. Directed(s) /\ Attached(s) /\ sess[s].conn # c
      BY <2>1, PlacesAssumption DEF RouteInv, PlaceInv, Attached
    <3>2. sess[s].conn # None => wire'[sess[s].conn] = wire[sess[s].conn]
      BY <2>1, <3>1, OwnReach DEF PlaceInv, Typed
    <3> QED
      BY <2>1, <3>1, <3>2 DEF Directed, Attached
  <2> QED
    BY <2>1, <2>2 DEF PlaceInv, Typed, RouteInv
<1>3. CASE UNCHANGED vars
  BY <1>3 DEF vars, RouteInv, Directed
<1> QED
  BY <1>1, <1>2, <1>3

\* All commands of a client.
LEMMA RouteCommand ==
    ASSUME Unpinned, PlaceInv, RouteInv, NEW s \in Sessions, Command(s)
    PROVE  RouteInv'
<1>1. ASSUME NEW k \in Statements, NEW d, Begin(s, k, d) PROVE RouteInv'
  BY <1>1, RouteBeginAttached, RouteBeginAcquires, RouteBeginFails, RouteBeginRefused DEF Begin
<1>2. ASSUME NEW k \in Statements \ {"use", "init db", "prepare"}, Begin(s, k, None)
      PROVE  RouteInv'
  BY <1>1, <1>2
<1>3. ASSUME NEW k \in Statements \cap {"use", "init db"}, NEW d \in Databases, Begin(s, k, d)
      PROVE  RouteInv'
  BY <1>1, <1>3
<1>4. "prepare" \notin Statements
  BY DEF Unpinned
<1> QED
  BY <1>2, <1>3, <1>4, RouteSelectsDatabase, NoHandles, RouteEnds DEF Command

\* All steps.
LEMMA RouteStep == Unpinned /\ PlaceInv /\ RouteInv /\ [Next]_vars => RouteInv'
<1> SUFFICES ASSUME Unpinned, PlaceInv, RouteInv, [Next]_vars PROVE RouteInv'
  OBVIOUS
<1>1. ASSUME NEW s \in Sessions, Outcome(s) PROVE RouteInv'
  BY <1>1, RouteSucceeds, RouteFails, RouteLoses DEF Outcome
<1>2. ASSUME NEW s \in Sessions, PingerDrops(s) PROVE RouteInv'
  BY <1>2, RouteLoses
<1> QED
  BY <1>1, <1>2, RouteCommand, RouteOthers DEF Next

\* The two invariants together.
LEMMA RouteHolds == Unpinned => (Spec => [](PlaceInv /\ RouteInv))
<1>1. ASSUME Unpinned PROVE PlaceInv /\ RouteInv /\ [Next]_vars => PlaceInv' /\ RouteInv'
  BY <1>1, PlaceStep, RouteStep
<1>2. ASSUME Unpinned PROVE Spec => [](PlaceInv /\ RouteInv)
  <2>1. PlaceInv /\ RouteInv /\ [Next]_vars => PlaceInv' /\ RouteInv'
    BY <1>1, <1>2
  <2> QED
    BY PlaceInit, RouteInit, <2>1, PTL DEF Spec
<1> QED
  BY <1>2

\* What changes data, or opens or ends a transaction, runs on the primary,
\* wherever the connection at hand is (session.go, route).
THEOREM WritesStayOnPrimary == Unpinned => (Spec => []WritesOnPrimary)
<1>1. ASSUME Unpinned PROVE Spec => []WritesOnPrimary
  <2>1. Spec => [](PlaceInv /\ RouteInv)
    BY <1>1, RouteHolds
  <2>2. PlaceInv /\ RouteInv => WritesOnPrimary
    BY RouteProperties
  <2> QED
    BY <2>1, <2>2, PTL
<1> QED
  BY <1>1

\* Inside the sticky window a session reads from the primary (session.go,
\* stickyActive).
THEOREM ReadsFollowWrites == Unpinned => (Spec => []ReadsOwnWrites)
<1>1. ASSUME Unpinned PROVE Spec => []ReadsOwnWrites
  <2>1. Spec => [](PlaceInv /\ RouteInv)
    BY <1>1, RouteHolds
  <2>2. PlaceInv /\ RouteInv => ReadsOwnWrites
    BY RouteProperties
  <2> QED
    BY <2>1, <2>2, PTL
<1> QED
  BY <1>1
-----------------------------------------------------------------------------
(* The database statements run in *)

\* Clients select their database with COM_INIT_DB only: a USE sent as a query
\* escapes the session and its label (README.md).
NoUse == "use" \notin Statements

\* The label of a connection is its database, or it has none.
Labelled(w) == w.bound \in {None, w.db}

Selecting(s) == sess[s].run # None /\ sess[s].run = "init db"

\* Unless it is selecting one, or could not select the last, a session has the
\* database its client asked for, and so has its connection.
Placed(s) ==
    /\ sess[s].run # None => sess[s].run # "use"
    /\ Selecting(s) => sess[s].db = sess[s].arg
    /\ ~Selecting(s) /\ ~want[s].misdirected =>
          /\ sess[s].db = want[s].db
          /\ sess[s].conn # None /\ sess[s].db # None =>
                wire[sess[s].conn].bound = sess[s].db

DbInv ==
    /\ \A c \in Conns : Labelled(wire[c])
    /\ \A s \in Sessions : Placed(s)

\* The invariant says what the property does.
LEMMA DbProperty ==
    ASSUME PlaceInv, DbInv PROVE OwnDatabase
<1> SUFFICES ASSUME NEW s \in Sessions, Running(s), sess[s].run # "init db",
                    want[s].db # None, ~want[s].misdirected
             PROVE  Under(s).db = want[s].db
  BY DEF OwnDatabase
<1>1. sess[s].conn # None /\ sess[s].conn \in Conns /\ Placed(s) /\ ~Selecting(s)
  BY DEF Running, Idle, PlaceInv, Attached, DbInv, Selecting
<1>2. /\ sess[s].db = want[s].db /\ wire[sess[s].conn].bound = want[s].db
      /\ Labelled(wire[sess[s].conn])
  BY <1>1 DEF Placed, DbInv
<1> QED
  BY <1>2 DEF Labelled, Under

\* At first no database is selected.
LEMMA DbInit == Init => DbInv
<1> SUFFICES ASSUME Init PROVE DbInv
  OBVIOUS
<1>1. NoConnection.bound = None
  BY DEF NoConnection
<1>2. ASSUME NEW s \in Sessions PROVE Placed(s)
  <2>1. sess[s] = NewSession /\ want[s] = NewWant
    BY DEF Init
  <2> QED
    BY <2>1 DEF Placed, Selecting, NewSession, NewWant
<1> QED
  BY <1>1, <1>2 DEF Init, DbInv, Labelled

\* A step of s.
LEMMA DbOwn ==
    ASSUME PlaceInv, DbInv, NEW s \in Sessions, Placed(s)',
           \A t \in Sessions \ {s} : sess'[t] = sess[t] /\ want'[t] = want[t],
           \A b \in Conns \ Reach(s) : wire'[b] = wire[b],
           \A b \in Conns : Labelled(wire'[b])
    PROVE  DbInv'
<1>1. ASSUME NEW t \in Sessions, t # s PROVE Placed(t)'
  <2>1. sess'[t] = sess[t] /\ want'[t] = want[t] /\ Placed(t) /\ Attached(t)
    BY <1>1 DEF DbInv, PlaceInv
  <2>2. sess[t].conn # None => sess[t].conn \in Conns \ Reach(s)
    BY <1>1 DEF PlaceInv, Attached, Reach
  <2>3. sess[t].conn # None => wire'[sess[t].conn] = wire[sess[t].conn]
    BY <2>2
  <2> QED
    BY <2>1, <2>3 DEF Placed, Selecting
<1>2. (\A b \in Conns : Labelled(wire[b]))'
  BY DEF Labelled
<1> QED
  BY <1>1, <1>2 DEF DbInv

\* A session that ends up without a connection.
LEMMA DbDetaches ==
    ASSUME PlaceInv, DbInv, NEW s \in Sessions,
           sess'[s].conn = None, sess'[s].run = None,
           ~want'[s].misdirected => sess'[s].db = want'[s].db,
           \A t \in Sessions \ {s} : sess'[t] = sess[t] /\ want'[t] = want[t],
           \A b \in Conns \ Reach(s) : wire'[b] = wire[b],
           \A b \in Conns : Labelled(wire'[b])
    PROVE  DbInv'
<1>1. Placed(s)'
  BY DEF Placed, Selecting
<1> QED
  BY <1>1, DbOwn

\* A session between two statements.
LEMMA DbIdle ==
    ASSUME DbInv, NEW s \in Sessions, sess[s].run = None, ~want[s].misdirected
    PROVE  /\ sess[s].db = want[s].db
           /\ sess[s].conn # None /\ sess[s].db # None =>
                 wire[sess[s].conn].bound = sess[s].db
  BY DEF DbInv, Placed, Selecting

\* A reset clears the label, ...
LEMMA LabelReset ==
    ASSUME NEW w, IsWire(w) PROVE Labelled(ResetConn(w))
<1>1. CASE ResetUnsupported
  BY <1>1 DEF ResetConn, ServerReset, IsWire, WireFields, Labelled
<1>2. CASE ~ResetUnsupported
  BY <1>2, FreshFacts DEF ResetConn, ServerReset, IsWire, WireFields, Labelled
<1> QED
  BY <1>1, <1>2

\* ... and closed connections and new ones have none.
LEMMA LabelNew ==
    /\ Labelled(NoConnection) /\ \A n : Labelled(Fresh(n))
  BY FreshFacts DEF NoConnection, Labelled

\* The preparation of a connection binds the database of the session.
LEMMA LabelPrepared ==
    ASSUME NEW x, NEW w, IsWire(w), Labelled(w)
    PROVE  /\ Labelled(Prepared(x, w))
           /\ x.db # None => Prepared(x, w).bound = x.db
           /\ \A r \in StoppedAt(x, w) : Labelled(r)
<1> DEFINE c == Cleared(x, w)
           b == Bound(x, c)
<1>1. Labelled(c) /\ IsWire(c)
  BY LabelReset, ClearedFacts DEF Cleared
<1>2. IsWire(b)
  BY <1>1, BoundFacts
<1>3. Prepared(x, w) = IF b.sig # x.sets
        THEN [b EXCEPT !.vars = FoldLeft(ApplySet, b.vars, x.sets), !.sig = x.sets]
        ELSE b
  BY DEF Prepared
<1>4. \A r \in StoppedAt(x, w) : r = c \/ \E u : r = [b EXCEPT !.vars = u]
  BY DEF StoppedAt
<1> HIDE DEF c
<1>5. Labelled(b) /\ (x.db # None => b.bound = x.db)
  BY <1>1 DEF Bound, Labelled, IsWire, WireFields
<1> HIDE DEF b
<1> QED
  BY <1>1, <1>2, <1>3, <1>4, <1>5 DEF IsWire, WireFields, Labelled

\* What comes from a pool carries its label.
LEMMA LabelAcquired ==
    ASSUME DbInv, NEW n, NEW c \in Conns
    PROVE  Labelled(FromPool(c, n))
  BY LabelNew DEF FromPool, DbInv

\* What goes back to one has none.
LEMMA LabelReleased ==
    ASSUME DbInv, NEW p, NEW c \in Conns, NEW w, IsWire(w), Released(w, p, c), DOMAIN wire = Conns
    PROVE  /\ \A b \in Conns : Labelled(wire'[b])
           /\ \A b \in Conns \ {c} : wire'[b] = wire[b]
<1>1. \/ wire' = [wire EXCEPT ![c] = ResetConn(w)]
      \/ wire' = [wire EXCEPT ![c] = NoConnection]
  BY DEF Released
<1> QED
  BY <1>1, LabelReset, LabelNew DEF DbInv

\* What a statement does to the database its client expects.
LEMMA WantedDb ==
    ASSUME NEW s, NEW k, NEW d, IsWant(want[s]), k # "use"
    PROVE  LET r == Wanted(s, k, d) IN
           /\ k = "init db" => r.db = d /\ ~r.misdirected
           /\ k # "init db" =>
                 r.db = want[s].db /\ (r.misdirected <=> want[s].misdirected)
<1> DEFINE v == [want[s] EXCEPT !.listed = (k = "calc rows")]
           r == Wanted(s, k, d)
<1>1. IsWant(v) /\ v.db = want[s].db /\ (v.misdirected <=> want[s].misdirected)
  BY DEF IsWant, WantFields
<1>2. r =
        CASE k \in SetStatements          -> [v EXCEPT !.vars = ApplySet(@, k)]
          [] k = "begin"                  -> [v EXCEPT !.tx = TRUE, !.cut = FALSE]
          [] k \in {"commit", "rollback", "lock tables"} -> [v EXCEPT !.tx = FALSE, !.cut = FALSE]
          [] k \in {"use", "init db"}     -> [v EXCEPT !.db = d, !.misdirected = FALSE]
          [] OTHER                        -> v
  BY DEF Wanted
<1> SUFFICES /\ k = "init db" => r.db = d /\ ~r.misdirected
             /\ k # "init db" =>
                   r.db = want[s].db /\ (r.misdirected <=> want[s].misdirected)
  OBVIOUS
<1> HIDE DEF v, r
<1>3. CASE k = "init db"
  <2>1. r = [v EXCEPT !.db = d, !.misdirected = FALSE]
    BY <1>2, <1>3 DEF SetStatements
  <2> QED
    BY <2>1, <1>1, <1>3 DEF IsWant, WantFields
<1>4. CASE k # "init db"
  <2>1. \/ r = v
        \/ \E u : r = [v EXCEPT !.vars = u]
        \/ r = [v EXCEPT !.tx = TRUE, !.cut = FALSE]
        \/ r = [v EXCEPT !.tx = FALSE, !.cut = FALSE]
    BY <1>2, <1>4 DEF SetStatements
  <2> QED
    BY <2>1, <1>1, <1>4 DEF IsWant, WantFields
<1> QED
  BY <1>3, <1>4

\* A client that is told of an error keeps its database, unless it was about
\* to change it.
LEMMA ToldDb ==
    ASSUME NEW v, NEW k, IsWant(v)
    PROVE  /\ Told(v, k).db = v.db
           /\ v.misdirected => Told(v, k).misdirected
           /\ k = "init db" => Told(v, k).misdirected
           /\ Told(v, k).misdirected => v.misdirected \/ k = "init db"
  BY DEF Told, IsWant, WantFields

\* Tracking a statement is no matter of databases.
LEMMA TrackDb ==
    ASSUME NEW x, NEW k, NEW w, IsSess(x)
    PROVE  TrackSafety(x, k, w).db = x.db /\ TrackSet(x, k).db = x.db
<1>1. \E a, b, c, e : TrackSafety(x, k, w) =
        [x EXCEPT !.inTx = a, !.wrote = b, !.pinned = c, !.holdNext = e]
  BY DEF TrackSafety
<1>2. TrackSet(x, k).db = x.db
  BY DEF TrackSet, IsSess, SessFields
<1> QED
  BY <1>1, <1>2 DEF IsSess, SessFields

\* Neither is the release of a connection.
LEMMA AfterReleaseDb ==
    ASSUME NEW x, NEW m, IsSess(x)
    PROVE  AfterRelease(x, m).db = x.db
  BY DEF AfterRelease, IsSess, SessFields

-----------------------------------------------------------------------------
\* A statement on the connection at hand.
LEMMA DbBeginAttached ==
    ASSUME PlaceInv, DbInv, NEW s \in Sessions, NEW k, k # None, k # "use", NEW d,
           BeginAttached(s, k, d)
    PROVE  DbInv'
<1>1. PICK e : /\ sess' = [sess EXCEPT ![s].run = k, ![s].arg = d, ![s].db = e]
               /\ e = IF k = "init db" THEN d ELSE sess[s].db
  <2>1. sess' = [sess EXCEPT ![s].run = k, ![s].arg = d,
                             ![s].db = IF k = "init db" THEN d ELSE @]
    BY DEF BeginAttached
  <2>2. k = "init db" => sess' = [sess EXCEPT ![s].run = k, ![s].arg = d, ![s].db = d]
    BY <2>1
  <2>3. k # "init db" =>
          sess' = [sess EXCEPT ![s].run = k, ![s].arg = d, ![s].db = sess[s].db]
    BY <2>1 DEF PlaceInv, Typed, IsSess, SessFields
  <2> QED
    BY <2>2, <2>3
<1>2. /\ sess'[s].conn = sess[s].conn /\ sess'[s].run = k /\ sess'[s].arg = d /\ sess'[s].db = e
      /\ \A t \in Sessions \ {s} : sess'[t] = sess[t]
  BY <1>1 DEF PlaceInv, Typed, IsSess, SessFields
<1>3. UNCHANGED <<wire, want>> /\ sess[s].run = None
  BY DEF BeginAttached, Idle
<1>4. Placed(s)'
  BY <1>1, <1>2, <1>3, DbIdle DEF Placed, Selecting
<1> QED
  BY <1>2, <1>3, <1>4, DbOwn DEF DbInv

\* A connection from a pool.
LEMMA DbBeginAcquires ==
    ASSUME PlaceInv, DbInv, NEW s \in Sessions, NEW k, k # None, k # "use", NEW d,
           BeginAcquires(s, k, d)
    PROVE  DbInv'
<1>1. PICK n \in Route(s, k) :
         /\ sess[s].conn # None => wire[sess[s].conn].home # n
         /\ \E c \in Acquirable(n) :
               /\ wire' = [wire EXCEPT ![c] = Prepared(sess[s], FromPool(c, n))]
               /\ sess' = [sess EXCEPT ![s] = [sess[s] EXCEPT !.run = k, !.arg = d, !.conn = c]]
  BY DEF BeginAcquires
<1>2. PICK c \in Acquirable(n) :
         /\ wire' = [wire EXCEPT ![c] = Prepared(sess[s], FromPool(c, n))]
         /\ sess' = [sess EXCEPT ![s] = [sess[s] EXCEPT !.run = k, !.arg = d, !.conn = c]]
  BY <1>1
<1>3. n # None /\ want' = want /\ sess[s].run = None /\ k # "init db"
  BY <1>1, Routed DEF BeginAcquires, Idle
<1>4. /\ c \in Conns /\ c \in Reach(s) /\ IsWire(FromPool(c, n))
  BY <1>2, <1>3, Acquired
<1> DEFINE w == Prepared(sess[s], FromPool(c, n))
<1>5. Labelled(w) /\ (sess[s].db # None => w.bound = sess[s].db)
  BY <1>4, LabelAcquired, LabelPrepared
<1>6. wire' = [wire EXCEPT ![c] = w]
  BY <1>2
<1> HIDE DEF w
<1>7. /\ sess'[s].conn = c /\ sess'[s].run = k /\ sess'[s].db = sess[s].db
      /\ \A t \in Sessions \ {s} : sess'[t] = sess[t]
  BY <1>2 DEF PlaceInv, Typed, IsSess, SessFields
<1>8. wire'[c] = w /\ \A b \in Conns \ {c} : wire'[b] = wire[b]
  BY <1>4, <1>6 DEF PlaceInv, Typed
<1>9. Placed(s)'
  BY <1>3, <1>5, <1>7, <1>8, DbIdle DEF Placed, Selecting
<1>10. \A b \in Conns : Labelled(wire'[b])
  BY <1>5, <1>8 DEF DbInv
<1> QED
  BY <1>3, <1>4, <1>7, <1>8, <1>9, <1>10, DbOwn

\* No connection.
LEMMA DbBeginFails ==
    ASSUME PlaceInv, DbInv, NEW s \in Sessions, NEW k, NEW d, BeginFails(s, k, d)
    PROVE  DbInv'
<1>1. /\ sess' = [sess EXCEPT ![s].conn = None, ![s].db = IF k = "init db" THEN d ELSE @]
      /\ want' = [want EXCEPT ![s] = Told(want[s], k)]
      /\ sess[s].run = None /\ wire' = wire
  BY DEF BeginFails, Idle
<1>2. /\ sess'[s].conn = None /\ sess'[s].run = None
      /\ k # "init db" => sess'[s].db = sess[s].db
      /\ \A t \in Sessions \ {s} : sess'[t] = sess[t]
  BY <1>1 DEF PlaceInv, Typed, IsSess, SessFields
<1>3. /\ want'[s] = Told(want[s], k) /\ IsWant(want[s])
      /\ \A t \in Sessions \ {s} : want'[t] = want[t]
  BY <1>1 DEF PlaceInv, Typed
<1>4. ~want'[s].misdirected => sess'[s].db = want'[s].db
  <2> DEFINE v == Told(want[s], k)
  <2>1. /\ v.db = want[s].db
        /\ want[s].misdirected \/ k = "init db" => v.misdirected
    BY <1>1, <1>2, <1>3, ToldDb
  <2> HIDE DEF v
  <2>2. want'[s].db = want[s].db
    BY <1>1, <1>2, <1>3, <2>1 DEF v
  <2>3. want[s].misdirected \/ k = "init db" => want'[s].misdirected
    BY <1>1, <1>2, <1>3, <2>1 DEF v
  <2> QED
    BY <1>1, <1>2, <1>3, <2>2, <2>3, DbIdle
<1> QED
  BY <1>1, <1>2, <1>3, <1>4, DbDetaches DEF DbInv

\* The server refuses the database.
LEMMA DbBeginRefused ==
    ASSUME PlaceInv, DbInv, NEW s \in Sessions, NEW k, NEW d, BeginRefused(s, k, d)
    PROVE  DbInv'
<1> DEFINE x == [sess[s] EXCEPT !.db = IF k = "init db" THEN d ELSE @]
<1>1. /\ Idle(s)
      /\ \E n \in Route(s, k) :
            /\ x.conn # None => wire[x.conn].home # n
            /\ \E c \in Acquirable(n) : \E w \in StoppedAt(x, FromPool(c, n)) :
                  Released(w, ParkedByMove(s), c)
      /\ sess' = [sess EXCEPT ![s] = [x EXCEPT !.conn = None]]
      /\ want' = [want EXCEPT ![s] = Told(want[s], k)]
  BY DEF BeginRefused
<1>2. /\ IsSess(x) /\ x.conn = sess[s].conn /\ x.run = sess[s].run
      /\ k # "init db" => x.db = sess[s].db
  BY DEF PlaceInv, Typed, IsSess, SessFields
<1> HIDE DEF x
<1>3. PICK n \in Route(s, k) :
         /\ sess[s].conn # None => wire[sess[s].conn].home # n
         /\ \E c \in Acquirable(n) : \E w \in StoppedAt(x, FromPool(c, n)) :
               Released(w, ParkedByMove(s), c)
  BY <1>1, <1>2
<1>4. PICK c \in Acquirable(n) : \E w \in StoppedAt(x, FromPool(c, n)) :
         Released(w, ParkedByMove(s), c)
  BY <1>3
<1>5. PICK w \in StoppedAt(x, FromPool(c, n)) : Released(w, ParkedByMove(s), c)
  BY <1>4
<1>6. n # None /\ DOMAIN wire = Conns
  BY <1>3, Routed DEF PlaceInv, Typed
<1>7. c \in Conns /\ c \in Reach(s) /\ IsWire(FromPool(c, n))
  BY <1>4, <1>6, Acquired
<1>8. IsWire(w)
  BY <1>5, <1>7, StoppedFacts
<1>9. (\A b \in Conns : Labelled(wire'[b])) /\ (\A b \in Conns \ {c} : wire'[b] = wire[b])
  BY <1>5, <1>6, <1>7, <1>8, LabelReleased
<1>10. sess[s].run = None
  BY <1>1 DEF Idle
<1>11. /\ sess'[s].conn = None /\ sess'[s].run = None
       /\ k # "init db" => sess'[s].db = sess[s].db
       /\ \A t \in Sessions \ {s} : sess'[t] = sess[t]
  BY <1>1, <1>2, <1>10 DEF PlaceInv, Typed, IsSess, SessFields
<1>12. /\ want'[s] = Told(want[s], k) /\ IsWant(want[s])
       /\ \A t \in Sessions \ {s} : want'[t] = want[t]
  BY <1>1 DEF PlaceInv, Typed
<1>13. ~want'[s].misdirected => sess'[s].db = want'[s].db
  <2> DEFINE v == Told(want[s], k)
  <2>1. /\ v.db = want[s].db
        /\ want[s].misdirected \/ k = "init db" => v.misdirected
    BY <1>10, <1>11, <1>12, ToldDb
  <2> HIDE DEF v
  <2>2. want'[s].db = want[s].db
    BY <1>10, <1>11, <1>12, <2>1 DEF v
  <2>3. want[s].misdirected \/ k = "init db" => want'[s].misdirected
    BY <1>10, <1>11, <1>12, <2>1 DEF v
  <2> QED
    BY <1>10, <1>11, <1>12, <2>2, <2>3, DbIdle
<1> QED
  BY <1>7, <1>9, <1>11, <1>12, <1>13, DbDetaches

\* A connection that may go back at once.
LEMMA DbSelects ==
    ASSUME PlaceInv, DbInv, NEW s \in Sessions, NEW d, SelectsDatabase(s, d)
    PROVE  DbInv'
<1> DEFINE x == [sess[s] EXCEPT !.db = d]
           y(c) == [x EXCEPT !.conn = c]
           m(c, n) == [wire EXCEPT ![c] = Prepared(x, FromPool(c, n))]
<1>1. PICK n \in Route(s, "init db") : \E c \in Acquirable(n) :
          /\ wire' = m(c, n)
          /\ sess' = [sess EXCEPT ![s] = AfterRelease(y(c), m(c, n))]
  BY DEF SelectsDatabase
<1>2. PICK c \in Acquirable(n) :
          /\ wire' = m(c, n)
          /\ sess' = [sess EXCEPT ![s] = AfterRelease(y(c), m(c, n))]
  BY <1>1
<1>3. /\ Idle(s) /\ x.conn = None
      /\ want' = [want EXCEPT ![s] = Wanted(s, "init db", d)]
  BY Zenon DEF SelectsDatabase
<1>4. x.conn = sess[s].conn /\ IsSess(x) /\ x.run = sess[s].run /\ x.db = d
  BY DEF PlaceInv, Typed, IsSess, SessFields
<1>5. sess[s].conn = None /\ sess[s].run = None
  BY <1>3, <1>4 DEF Idle
<1>6. n # None
  BY <1>5, Routed
<1>7. c \in Conns /\ c \in Reach(s) /\ c # None /\ IsWire(FromPool(c, n))
  BY <1>2, <1>6, Acquired, PlacesAssumption
<1> HIDE DEF x
<1>8. IsSess(y(c)) /\ y(c).conn = c /\ y(c).run = None /\ y(c).db = d
  BY <1>4, <1>5 DEF IsSess, SessFields
<1> DEFINE w == Prepared(x, FromPool(c, n))
<1>9. Labelled(w) /\ (d # None => w.bound = d)
  BY <1>4, <1>7, LabelAcquired, LabelPrepared
<1> DEFINE z == y(c)
           mm == m(c, n)
<1>10. mm = [wire EXCEPT ![c] = w] /\ wire' = mm
  BY <1>2
<1>11. /\ sess' = [sess EXCEPT ![s] = AfterRelease(z, mm)]
       /\ IsSess(z) /\ z.conn = c /\ z.run = None /\ z.db = d
  BY <1>2, <1>8
<1> HIDE DEF y, m, z, mm, w
<1>12. wire'[c] = w /\ \A b \in Conns \ {c} : wire'[b] = wire[b]
  BY <1>7, <1>10 DEF PlaceInv, Typed
<1>13. /\ sess'[s].conn \in {None, c} /\ sess'[s].run = None /\ sess'[s].db = d
       /\ \A t \in Sessions \ {s} : sess'[t] = sess[t]
  <2>1. /\ AfterRelease(z, mm).db = d /\ AfterRelease(z, mm).run = None
        /\ AfterRelease(z, mm).conn \in {None, c}
    BY <1>11, AfterReleaseFacts, AfterReleaseDb
  <2> QED
    BY <1>11, <2>1 DEF PlaceInv, Typed
<1>14. want'[s].db = d /\ \A t \in Sessions \ {s} : want'[t] = want[t]
  <2>1. IsWant(want[s]) /\ DOMAIN want = Sessions
    BY DEF PlaceInv, Typed
  <2>2. Wanted(s, "init db", d).db = d
    BY <2>1, WantedDb
  <2> QED
    BY <1>3, <2>1, <2>2
<1>15. Placed(s)'
  BY <1>9, <1>12, <1>13, <1>14 DEF Placed, Selecting
<1>16. \A b \in Conns : Labelled(wire'[b])
  BY <1>9, <1>12 DEF DbInv
<1> QED
  BY <1>7, <1>12, <1>13, <1>14, <1>15, <1>16, DbOwn

\* The connection has database d and says so.
BoundTo(w, d) == w.db = d /\ w.bound = d

\* Binding a database labels the connection with it.
LEMMA ExecutedBinds ==
    ASSUME NEW s, NEW k, k = "init db", NEW d, NEW w, IsWire(w)
    PROVE  BoundTo(Executed(s, k, d, w), d)
<1>1. Executed(s, k, d, w) = [w EXCEPT !.db = d, !.bound = d]
  BY DEF Executed, SetStatements, Leaves
<1> QED
  BY <1>1 DEF IsWire, WireFields, BoundTo

\* A statement ends.
LEMMA DbSucceeds ==
    ASSUME PlaceInv, DbInv, NEW s \in Sessions, Succeeds(s)
    PROVE  DbInv'
<1> DEFINE k == sess[s].run
           d == sess[s].arg
           c == sess[s].conn
           w == Executed(s, k, d, wire[c])
           y == [sess[s] EXCEPT !.run = None, !.arg = None]
           t == IF k = "prepare" THEN [y EXCEPT !.openStmts = @ + 1]
                ELSE IF k = "init db" THEN y
                ELSE TrackSafety(TrackSet(y, k), k, w)
           l == [w EXCEPT !.sig = IF t.sets # y.sets THEN t.sets ELSE @]
           m == [wire EXCEPT ![c] = l]
<1>1. /\ ~Idle(s) /\ wire' = m
      /\ want' = [want EXCEPT ![s] = Wanted(s, k, d)]
      /\ IF k = "prepare"
         THEN sess' = [sess EXCEPT ![s] = t] /\ UNCHANGED parked
         ELSE /\ sess' = [sess EXCEPT ![s] = AfterRelease(t, m)]
              /\ parked' = IF LetsGo(t, m) THEN parked \cup {c} ELSE parked
  BY Zenon DEF Succeeds
<1>2. /\ Placed(s) /\ k # None /\ c # None /\ c \in Conns /\ c \in Reach(s)
      /\ IsWire(wire[c]) /\ Labelled(wire[c]) /\ k # "use"
  BY <1>1, OwnReach DEF Idle, PlaceInv, Typed, Attached, DbInv, Placed
<1>3. IsSess(y) /\ y.conn = c /\ y.run = None /\ y.db = sess[s].db
  BY DEF PlaceInv, Typed, IsSess, SessFields
<1>4. /\ IsWire(w)
      /\ k # "init db" => w.db = wire[c].db /\ w.bound = wire[c].bound
      /\ k = "init db" => w.db = d /\ w.bound = d
  <2>1. Ran(s, k, wire[c], w)
    BY <1>2, ExecutedFacts
  <2>2. k = "init db" => w.db = d /\ w.bound = d
    <3>1. ASSUME k = "init db" PROVE BoundTo(w, d)
      BY <3>1, <1>2, ExecutedBinds
    <3> HIDE DEF w, k, d
    <3> QED
      BY <3>1 DEF BoundTo
  <2> HIDE DEF w
  <2> QED
    BY <2>1, <2>2, <1>2 DEF Ran
<1>5. l.db = w.db /\ l.bound = w.bound
  <2> HIDE DEF w, t, y
  <2> QED
    BY <1>4 DEF IsWire, WireFields
<1> HIDE DEF y, w, l
<1>6. IsSess(t) /\ t.conn = c /\ t.run = None /\ t.db = sess[s].db
  <2>1. CASE k = "prepare"
    BY <1>3, <2>1 DEF IsSess, SessFields
  <2>2. CASE k = "init db"
    BY <1>3, <2>2
  <2>3. CASE k \notin {"prepare", "init db"}
    <3>1. t = TrackSafety(TrackSet(y, k), k, w)
      BY <2>3
    <3> HIDE DEF t, k, c
    <3> DEFINE u == TrackSet(y, k)
    <3>2. IsSess(u) /\ u.run = None /\ u.conn = c /\ u.db = sess[s].db
      BY <1>3, TrackSetFacts, TrackDb
    <3> HIDE DEF u
    <3>3. /\ IsSess(TrackSafety(u, k, w)) /\ TrackSafety(u, k, w).run = None
          /\ TrackSafety(u, k, w).conn = c /\ TrackSafety(u, k, w).db = sess[s].db
      BY <3>2, TrackSafetyFacts, TrackDb
    <3> QED
      BY <3>1, <3>3 DEF u
  <2> QED
    BY <2>1, <2>2, <2>3
<1>7. wire'[c] = l /\ \A b \in Conns \ {c} : wire'[b] = wire[b]
  BY <1>1, <1>2 DEF PlaceInv, Typed
<1>8. sess' = [sess EXCEPT ![s] = t] \/ sess' = [sess EXCEPT ![s] = AfterRelease(t, m)]
  BY <1>1
<1> HIDE DEF t, m
<1>9. /\ sess'[s].conn \in {None, c} /\ sess'[s].run = None /\ sess'[s].db = sess[s].db
      /\ \A q \in Sessions \ {s} : sess'[q] = sess[q]
  <2>1. /\ AfterRelease(t, m).db = t.db /\ AfterRelease(t, m).run = None
        /\ AfterRelease(t, m).conn \in {None, c}
    BY <1>6, AfterReleaseFacts, AfterReleaseDb
  <2> HIDE DEF c
  <2> QED
    BY <1>6, <1>8, <2>1 DEF PlaceInv, Typed
<1>10. /\ k = "init db" => want'[s].db = d
       /\ k # "init db" => want'[s].db = want[s].db
                           /\ (want'[s].misdirected <=> want[s].misdirected)
       /\ \A q \in Sessions \ {s} : want'[q] = want[q]
  <2> DEFINE v == Wanted(s, k, d)
  <2>1. IsWant(want[s]) /\ DOMAIN want = Sessions
    BY DEF PlaceInv, Typed
  <2>2. /\ k = "init db" => v.db = d
        /\ k # "init db" => v.db = want[s].db /\ (v.misdirected <=> want[s].misdirected)
    BY <1>2, <2>1, WantedDb
  <2>3. want' = [want EXCEPT ![s] = v]
    BY <1>1
  <2> HIDE DEF v, k, d
  <2> QED
    BY <2>1, <2>2, <2>3
<1>11. Placed(s)'
  <2>1. CASE k = "init db"
    <3>1. sess[s].db = d
      BY <2>1, <1>2 DEF Placed, Selecting
    <3> QED
      BY <2>1, <3>1, <1>4, <1>5, <1>7, <1>9, <1>10 DEF Placed, Selecting
  <2>2. CASE k # "init db"
    BY <2>2, <1>2, <1>4, <1>5, <1>7, <1>9, <1>10 DEF Placed, Selecting
  <2> QED
    BY <2>1, <2>2
<1>12. \A b \in Conns : Labelled(wire'[b])
  BY <1>2, <1>4, <1>5, <1>7 DEF DbInv, Labelled
<1> QED
  BY <1>2, <1>7, <1>9, <1>10, <1>11, <1>12, DbOwn

\* A statement ends with an error of the server.
LEMMA DbFails ==
    ASSUME PlaceInv, DbInv, NEW s \in Sessions, FailsInMySQL(s)
    PROVE  DbInv'
<1>1. /\ sess' = [sess EXCEPT ![s].run = None, ![s].arg = None] /\ UNCHANGED wire
      /\ want' = [want EXCEPT ![s] = Told(want[s], sess[s].run)] /\ sess[s].run # None
  BY DEF FailsInMySQL, Idle
<1>2. /\ sess'[s].run = None /\ sess'[s].conn = sess[s].conn /\ sess'[s].db = sess[s].db
      /\ \A t \in Sessions \ {s} : sess'[t] = sess[t]
  BY <1>1 DEF PlaceInv, Typed, IsSess, SessFields
<1>3. /\ want'[s].db = want[s].db
      /\ want[s].misdirected \/ sess[s].run = "init db" => want'[s].misdirected
      /\ \A t \in Sessions \ {s} : want'[t] = want[t]
  <2> DEFINE v == Told(want[s], sess[s].run)
  <2>1. IsWant(want[s]) /\ DOMAIN want = Sessions
    BY DEF PlaceInv, Typed
  <2>2. /\ v.db = want[s].db
        /\ want[s].misdirected \/ sess[s].run = "init db" => v.misdirected
    BY <2>1, ToldDb
  <2>3. want' = [want EXCEPT ![s] = v]
    BY <1>1
  <2> HIDE DEF v
  <2> QED
    BY <2>1, <2>2, <2>3
<1>4. Placed(s)'
  <2>1. Placed(s)
    BY DEF DbInv
  <2> QED
    BY <1>1, <1>2, <1>3, <2>1 DEF Placed, Selecting
<1> QED
  BY <1>1, <1>2, <1>3, <1>4, DbOwn DEF DbInv

\* A connection breaks, is found dead, or is taken for one that is.
LEMMA DbLoses ==
    ASSUME PlaceInv, DbInv, NEW s \in Sessions,
           LosesConnection(s) \/ PingerDrops(s) \/ ExecuteStaleStmt(s) \/ CloseStaleStmt(s)
    PROVE  DbInv'
<1>1. /\ sess[s].conn # None \/ wire' = wire
      /\ wire' = wire \/ wire' = [wire EXCEPT ![sess[s].conn] = NoConnection]
  BY DEF LosesConnection, PingerDrops, ExecuteStaleStmt, CloseStaleStmt, Idle, PlaceInv, Attached
<1>2. \/ sess' = [sess EXCEPT ![s].run = None, ![s].arg = None, ![s].conn = None]
      \/ sess' = [sess EXCEPT ![s].conn = None] /\ sess[s].run = None
      \/ /\ sess' = [sess EXCEPT ![s].conn = None, ![s].openStmts = sess[s].openStmts - 1]
         /\ sess[s].run = None
  BY DEF LosesConnection, PingerDrops, ExecuteStaleStmt, CloseStaleStmt, Idle
<1>3. /\ sess'[s].run = None /\ sess'[s].conn = None /\ sess'[s].db = sess[s].db
      /\ \A t \in Sessions \ {s} : sess'[t] = sess[t]
  BY <1>2 DEF PlaceInv, Typed, IsSess, SessFields
<1>4. /\ want'[s].db = want[s].db
      /\ ~want'[s].misdirected => ~want[s].misdirected /\ ~Selecting(s)
      /\ \A t \in Sessions \ {s} : want'[t] = want[t]
  <2>0. IsWant(want[s]) /\ DOMAIN want = Sessions
    BY DEF PlaceInv, Typed
  <2>1. CASE LosesConnection(s)
    <3> DEFINE v == Told(want[s], sess[s].run)
    <3>1. want' = [want EXCEPT ![s] = [v EXCEPT !.tx = FALSE, !.cut = FALSE]]
      BY <2>1 DEF LosesConnection
    <3>2. /\ v.db = want[s].db /\ IsWant(v)
          /\ want[s].misdirected \/ sess[s].run = "init db" => v.misdirected
      BY <2>0, ToldDb, ToldFacts
    <3> HIDE DEF v
    <3> QED
      BY <2>0, <3>1, <3>2 DEF IsWant, WantFields, Selecting
  <2>2. CASE PingerDrops(s) \/ ExecuteStaleStmt(s) \/ CloseStaleStmt(s)
    <3>1. \/ \E u : want' = [want EXCEPT ![s].cut = u, ![s].listed = FALSE]
          \/ \E u : want' = [want EXCEPT ![s].listed = FALSE, ![s].cut = u]
          \/ want' = [want EXCEPT ![s].listed = FALSE, ![s].tx = FALSE, ![s].cut = FALSE]
      BY <2>2 DEF PingerDrops, ExecuteStaleStmt, CloseStaleStmt
    <3>2. ~Selecting(s)
      BY <2>2 DEF PingerDrops, ExecuteStaleStmt, CloseStaleStmt, Idle, Selecting
    <3> DEFINE Kept == /\ want'[s].db = want[s].db
                       /\ want'[s].misdirected <=> want[s].misdirected
                       /\ \A t \in Sessions \ {s} : want'[t] = want[t]
    <3>3. ASSUME NEW u, want' = [want EXCEPT ![s].cut = u, ![s].listed = FALSE] PROVE Kept
      BY <2>0, <3>3 DEF IsWant, WantFields
    <3>4. ASSUME NEW u, want' = [want EXCEPT ![s].listed = FALSE, ![s].cut = u] PROVE Kept
      BY <2>0, <3>4 DEF IsWant, WantFields
    <3>5. ASSUME want' = [want EXCEPT ![s].listed = FALSE, ![s].tx = FALSE, ![s].cut = FALSE]
          PROVE  Kept
      BY <2>0, <3>5 DEF IsWant, WantFields
    <3>6. Kept
      BY <3>1, <3>3, <3>4, <3>5
    <3> QED
      BY <3>2, <3>6
  <2> QED
    BY <2>1, <2>2
<1>5. sess[s].conn # None => sess[s].conn \in Reach(s) /\ sess[s].conn \in Conns
  BY OwnReach
<1>6. /\ \A b \in Conns \ Reach(s) : wire'[b] = wire[b]
      /\ \A b \in Conns : Labelled(wire'[b])
  BY <1>1, <1>5, LabelNew DEF DbInv, PlaceInv, Typed
<1>7. Placed(s)
  BY DEF DbInv
<1>8. ~want'[s].misdirected => sess'[s].db = want'[s].db
  BY <1>3, <1>4, <1>7 DEF Placed
<1> QED
  BY <1>3, <1>4, <1>6, <1>8, DbDetaches

\* A prepared statement is executed: none of them is about a database.
LEMMA DbExecuteStmt ==
    ASSUME PlaceInv, DbInv, NEW s \in Sessions, ExecuteStmt(s)
    PROVE  DbInv'
<1> DEFINE c == sess[s].conn
<1>1. PICK k \in StmtKinds \cap Statements :
         /\ wire' = [wire EXCEPT ![c] = Executed(s, k, None, wire[c])]
         /\ sess' = [sess EXCEPT ![s] = TrackSafety(sess[s], k, Executed(s, k, None, wire[c]))]
         /\ want' = [want EXCEPT ![s] = Wanted(s, k, None)]
  BY DEF ExecuteStmt
<1>2. sess[s].run = None /\ c # None /\ c \in Conns /\ c \in Reach(s) /\ IsWire(wire[c])
  BY OwnReach DEF ExecuteStmt, Idle, PlaceInv, Typed
<1>3. k \notin {"use", "init db"}
  BY DEF StmtKinds, Companions, Changing, SetStatements
<1> DEFINE w == Executed(s, k, None, wire[c])
<1>4. w.db = wire[c].db /\ w.bound = wire[c].bound
  <2>1. Ran(s, k, wire[c], w)
    BY <1>2, ExecutedFacts
  <2> QED
    BY <2>1, <1>3 DEF Ran
<1> DEFINE t == TrackSafety(sess[s], k, w)
<1>5. IsSess(t) /\ t.run = None /\ t.conn = c /\ t.db = sess[s].db
  BY <1>2, TrackSafetyFacts, TrackDb DEF PlaceInv, Typed
<1> DEFINE v == Wanted(s, k, None)
<1>6. v.db = want[s].db /\ (v.misdirected <=> want[s].misdirected)
  BY <1>3, WantedDb DEF PlaceInv, Typed
<1>7. /\ wire' = [wire EXCEPT ![c] = w] /\ sess' = [sess EXCEPT ![s] = t]
      /\ want' = [want EXCEPT ![s] = v]
  BY <1>1
<1> HIDE DEF w, t, v, c
<1>8. /\ wire'[c] = w /\ \A b \in Conns \ {c} : wire'[b] = wire[b]
      /\ sess'[s] = t /\ \A q \in Sessions \ {s} : sess'[q] = sess[q]
      /\ want'[s] = v /\ \A q \in Sessions \ {s} : want'[q] = want[q]
  BY <1>2, <1>7 DEF PlaceInv, Typed
<1>9. Placed(s)'
  <2>1. /\ sess'[s].run = None /\ sess'[s].conn = c /\ sess'[s].db = sess[s].db
        /\ want'[s].db = want[s].db /\ wire'[c].bound = wire[c].bound
    BY <1>4, <1>5, <1>6, <1>8
  <2>2. want'[s].misdirected <=> want[s].misdirected
    BY <1>6, <1>8
  <2> QED
    BY <2>1, <2>2, <1>2, DbIdle DEF Placed, Selecting, c
<1>10. \A b \in Conns : Labelled(wire'[b])
  BY <1>2, <1>4, <1>8 DEF DbInv, Labelled
<1> QED
  BY <1>2, <1>8, <1>9, <1>10, DbOwn

\* A prepared statement is closed.
LEMMA DbCloseStmt ==
    ASSUME PlaceInv, DbInv, NEW s \in Sessions, CloseStmt(s)
    PROVE  DbInv'
<1> DEFINE c == sess[s].conn
           x == [sess[s] EXCEPT !.openStmts = sess[s].openStmts - 1]
           m == [wire EXCEPT ![c].stmts = wire[c].stmts \ {s}]
<1>1. /\ sess[s].run = None /\ c # None /\ wire' = m /\ UNCHANGED want
      /\ sess' = [sess EXCEPT ![s] = AfterRelease(x, m)]
  BY DEF CloseStmt, Idle
<1>2. IsSess(x) /\ x.run = None /\ x.conn = c /\ x.db = sess[s].db
  BY <1>1 DEF PlaceInv, Typed, IsSess, SessFields
<1>3. c \in Conns /\ c \in Reach(s)
  BY <1>1, OwnReach
<1>4. /\ wire'[c].bound = wire[c].bound /\ wire'[c].db = wire[c].db
      /\ \A b \in Conns \ {c} : wire'[b] = wire[b]
  BY <1>1, <1>3 DEF PlaceInv, Typed, IsWire, WireFields
<1> HIDE DEF x, m
<1>5. /\ sess'[s].conn \in {None, c} /\ sess'[s].run = None /\ sess'[s].db = sess[s].db
      /\ \A q \in Sessions \ {s} : sess'[q] = sess[q]
  <2>1. /\ AfterRelease(x, m).db = sess[s].db /\ AfterRelease(x, m).run = None
        /\ AfterRelease(x, m).conn \in {None, c}
    BY <1>2, AfterReleaseFacts, AfterReleaseDb
  <2> HIDE DEF c
  <2> QED
    BY <1>1, <2>1 DEF PlaceInv, Typed
<1>6. Placed(s)'
  BY <1>1, <1>4, <1>5, DbIdle DEF Placed, Selecting
<1>7. \A b \in Conns : Labelled(wire'[b])
  BY <1>3, <1>4 DEF DbInv, Labelled
<1> QED
  BY <1>1, <1>3, <1>4, <1>5, <1>6, <1>7, DbOwn

\* A session starts again.
LEMMA DbEnds ==
    ASSUME PlaceInv, DbInv, NEW s \in Sessions, ResetSession(s) \/ Disconnect(s)
    PROVE  DbInv'
<1> DEFINE Starts == /\ sess'[s].run = None /\ sess'[s].conn = None
                     /\ ~want'[s].misdirected => sess'[s].db = want'[s].db
                     /\ \A t \in Sessions \ {s} : sess'[t] = sess[t] /\ want'[t] = want[t]
<1>0. DOMAIN sess = Sessions /\ DOMAIN want = Sessions
  BY DEF PlaceInv, Typed
<1>1. ASSUME Disconnect(s) PROVE Starts
  BY <1>0, <1>1 DEF Disconnect, NewSession, NewWant
<1>2. ASSUME ResetSession(s) PROVE Starts
  <2>1. /\ sess' = [sess EXCEPT ![s] = [NewSession EXCEPT !.db = sess[s].db,
                                                         !.wrote = sess[s].wrote]]
        /\ want' = [want EXCEPT ![s] = [NewWant EXCEPT !.db = want[s].db,
                                                      !.misdirected = want[s].misdirected]]
        /\ sess[s].run = None
    BY <1>2 DEF ResetSession, Idle
  <2>2. /\ sess'[s].run = None /\ sess'[s].conn = None /\ sess'[s].db = sess[s].db
        /\ \A t \in Sessions \ {s} : sess'[t] = sess[t]
    BY <2>1, <1>0, NewSessionFacts DEF IsSess, SessFields
  <2>3. /\ want'[s].db = want[s].db /\ (want'[s].misdirected <=> want[s].misdirected)
        /\ \A t \in Sessions \ {s} : want'[t] = want[t]
    BY <2>1, <1>0 DEF NewWant
  <2> QED
    BY <2>1, <2>2, <2>3, DbIdle
<1>3. GiveBack(s)
  BY DEF ResetSession, Disconnect
<1>4. /\ \A b \in Conns \ Reach(s) : wire'[b] = wire[b]
      /\ \A b \in Conns : Labelled(wire'[b])
  <2>1. CASE sess[s].conn = None
    BY <1>3, <2>1 DEF GiveBack, DbInv
  <2>2. CASE sess[s].conn # None
    <3>1. /\ Released(wire[sess[s].conn], parked, sess[s].conn)
          /\ sess[s].conn \in Conns /\ sess[s].conn \in Reach(s)
      BY <1>3, <2>2, OwnReach DEF GiveBack
    <3>2. DOMAIN wire = Conns /\ IsWire(wire[sess[s].conn])
      BY <2>2, <3>1 DEF PlaceInv, Typed
    <3> QED
      BY <3>1, <3>2, LabelReleased
  <2> QED
    BY <2>1, <2>2
<1> QED
  BY <1>1, <1>2, <1>4, DbDetaches

\* Steps that concern no connection in use.
LEMMA DbOthers ==
    ASSUME PlaceInv, DbInv,
           \/ \E s \in Sessions : StickyPasses(s)
           \/ \E c \in Conns : ParkedLeaves(c)
           \/ UNCHANGED vars
    PROVE  DbInv'
<1>1. ASSUME NEW s \in Sessions, StickyPasses(s) PROVE DbInv'
  <2>1. sess' = [sess EXCEPT ![s].wrote = FALSE] /\ UNCHANGED <<wire, want>>
    BY <1>1 DEF StickyPasses
  <2>2. /\ sess'[s].run = sess[s].run /\ sess'[s].conn = sess[s].conn
        /\ sess'[s].db = sess[s].db /\ sess'[s].arg = sess[s].arg
        /\ \A t \in Sessions \ {s} : sess'[t] = sess[t]
    BY <2>1 DEF PlaceInv, Typed, IsSess, SessFields
  <2>3. Placed(s)'
    BY <2>1, <2>2 DEF DbInv, Placed, Selecting
  <2> QED
    BY <2>1, <2>2, <2>3, DbOwn DEF DbInv
<1>2. ASSUME NEW c \in Conns, ParkedLeaves(c) PROVE DbInv'
  <2>1. /\ c \in parked /\ sess' = sess /\ want' = want
        /\ wire' = [wire EXCEPT ![c] = NoConnection]
    BY <1>2 DEF ParkedLeaves
  <2>2. ASSUME NEW s \in Sessions PROVE Placed(s)'
    <3>1. Placed(s) /\ Attached(s) /\ sess[s].conn # c
      BY <2>1, PlacesAssumption DEF DbInv, PlaceInv, Attached
    <3>2. sess[s].conn # None => wire'[sess[s].conn] = wire[sess[s].conn]
      BY <2>1, <3>1, OwnReach DEF PlaceInv, Typed
    <3> QED
      BY <2>1, <3>1, <3>2 DEF Placed, Selecting
  <2>3. \A b \in Conns : Labelled(wire'[b])
    BY <2>1, LabelNew DEF DbInv, PlaceInv, Typed
  <2> QED
    BY <2>2, <2>3 DEF DbInv, Labelled
<1>3. CASE UNCHANGED vars
  BY <1>3 DEF vars, DbInv, Placed, Selecting, Labelled
<1> QED
  BY <1>1, <1>2, <1>3

\* All commands of a client.
LEMMA DbCommand ==
    ASSUME NoUse, PlaceInv, DbInv, NEW s \in Sessions, Command(s)
    PROVE  DbInv'
<1>1. ASSUME NEW k \in Statements, NEW d, Begin(s, k, d) PROVE DbInv'
  <2>1. k # None /\ k # "use"
    BY PlacesAssumption DEF NoUse
  <2> QED
    BY <1>1, <2>1, DbBeginAttached, DbBeginAcquires, DbBeginFails, DbBeginRefused DEF Begin
<1>2. ASSUME NEW k \in Statements \ {"use", "init db", "prepare"}, Begin(s, k, None)
      PROVE  DbInv'
  BY <1>1, <1>2
<1>3. ASSUME NEW k \in Statements \cap {"use", "init db"}, NEW d \in Databases, Begin(s, k, d)
      PROVE  DbInv'
  BY <1>1, <1>3
<1>4. ASSUME "prepare" \in Statements, Begin(s, "prepare", None) PROVE DbInv'
  BY <1>1, <1>4
<1> QED
  BY <1>2, <1>3, <1>4, DbSelects, DbExecuteStmt, DbLoses, DbCloseStmt, DbEnds DEF Command

\* All steps.
LEMMA DbStep == NoUse /\ PlaceInv /\ DbInv /\ [Next]_vars => DbInv'
<1> SUFFICES ASSUME NoUse, PlaceInv, DbInv, [Next]_vars PROVE DbInv'
  OBVIOUS
<1>1. ASSUME NEW s \in Sessions, Outcome(s) PROVE DbInv'
  BY <1>1, DbSucceeds, DbFails, DbLoses DEF Outcome
<1>2. ASSUME NEW s \in Sessions, PingerDrops(s) PROVE DbInv'
  BY <1>2, DbLoses
<1> QED
  BY <1>1, <1>2, DbCommand, DbOthers DEF Next

\* A statement runs in the database its session selected last, whichever
\* connection it runs on and whoever had it before (pool.go, BoundDB).
THEOREM DatabaseIsOwn == NoUse => (Spec => []OwnDatabase)
<1>1. ASSUME NoUse PROVE PlaceInv /\ DbInv /\ [Next]_vars => PlaceInv' /\ DbInv'
  BY <1>1, PlaceStep, DbStep
<1>2. ASSUME NoUse PROVE Spec => []OwnDatabase
  <2>1. PlaceInv /\ DbInv /\ [Next]_vars => PlaceInv' /\ DbInv'
    BY <1>1, <1>2
  <2>2. PlaceInv /\ DbInv => OwnDatabase
    BY DbProperty
  <2> QED
    BY PlaceInit, DbInit, <2>1, <2>2, PTL DEF Spec
<1> QED
  BY <1>2

-----------------------------------------------------------------------------
(* The variables statements run under *)

Known == Statements \cap SetStatements

\* One SET for each variable, no more of them than are tracked, a server that
\* can take back half a replay, and no SET that is prepared: TLC finds how the
\* others leave a session with variables it did not ask for (README.md).
Settled ==
    /\ "prepare" \notin Statements
    /\ \A a, b \in Known : a # b =>
          "zone utc" \in {a, b} /\ MaxTrackedSets >= 2 /\ ~ResetUnsupported

\* What a session can have recorded.
SetLists ==
    {<<>>} \cup {<<a>> : a \in Known}
    \cup UNION {{<<a, b>> : b \in Known \ {a}} : a \in Known}

\* A connection has the variables its label says.
Honest(w) == w.vars = Replay(w.sig)

\* A session has recorded what its client expects, and its connection is
\* labelled with that.
Tracked(s) ==
    /\ sess[s].openStmts = 0
    /\ sess[s].run # None => sess[s].run \in Statements
    /\ sess[s].sets \in SetLists
    /\ want[s].vars = Replay(sess[s].sets)
    /\ sess[s].conn # None => wire[sess[s].conn].sig = sess[s].sets

VarsInv ==
    /\ \A c \in Conns : Honest(wire[c])
    /\ \A s \in Sessions : Tracked(s)

\* The invariant says what the property does.
LEMMA VarsProperty ==
    ASSUME PlaceInv, VarsInv PROVE OwnVariables
  BY DEF PlaceInv, Attached, VarsInv, Honest, Tracked, OwnVariables, Running, Idle, Under

\* A fold over a short sequence, by the function that FoldLeft is defined with.
LEMMA FoldShort ==
    ASSUME NEW v
    PROVE  /\ FoldLeft(ApplySet, v, <<>>) = v
           /\ \A a : FoldLeft(ApplySet, v, <<a>>) = ApplySet(v, a)
           /\ \A a, b : FoldLeft(ApplySet, v, <<a, b>>) = ApplySet(ApplySet(v, a), b)
<1> DEFINE step(q, f, S) == IF S = {} THEN v
                            ELSE LET x == Max(S) IN ApplySet(f[S \ {x}], q[x])
           IsIter(q, f) == f = [S \in SUBSET DOMAIN q |-> step(q, f, S)]
           it(q) == CHOOSE f : IsIter(q, f)
<1>1. ASSUME NEW q PROVE FoldLeft(ApplySet, v, q) = it(q)[DOMAIN q]
  BY DEF FoldLeft, MapThenFoldSet
<1>2. Max({1}) = 1 /\ Max({2}) = 2 /\ Max({1, 2}) = 2
  BY DEF Max
<1>3. /\ SUBSET {1} = {{}, {1}} /\ SUBSET {1, 2} = {{}, {1}, {2}, {1, 2}}
      /\ {1} \ {1} = {} /\ {2} \ {2} = {} /\ {1, 2} \ {2} = {1}
      /\ {1} # {} /\ {2} # {} /\ {1, 2} # {}
      /\ {1} # {2} /\ {1, 2} # {1} /\ {1, 2} # {2}
  OBVIOUS
<1>4. ASSUME NEW q, NEW f
      PROVE  /\ step(q, f, {}) = v
             /\ step(q, f, {1}) = ApplySet(f[{}], q[1])
             /\ step(q, f, {2}) = ApplySet(f[{}], q[2])
             /\ step(q, f, {1, 2}) = ApplySet(f[{1}], q[2])
  BY <1>2, <1>3
<1>5. ASSUME NEW q, NEW f, f = [S \in SUBSET DOMAIN q |-> f[S]],
             \A S \in SUBSET DOMAIN q : f[S] = step(q, f, S)
      PROVE  \A S \in SUBSET DOMAIN q : it(q)[S] = step(q, it(q), S)
  <2>1. IsIter(q, f)
    BY <1>5
  <2>2. IsIter(q, it(q))
    BY <2>1
  <2> DEFINE g == it(q)
  <2>3. g = [S \in SUBSET DOMAIN q |-> step(q, g, S)]
    BY <2>2
  <2> HIDE DEF g
  <2>4. \A S \in SUBSET DOMAIN q : g[S] = step(q, g, S)
    BY <2>3
  <2> QED
    BY <2>4 DEF g
<1> HIDE DEF step, it
<1>6. FoldLeft(ApplySet, v, <<>>) = v
  <2> DEFINE q == <<>>
             f == [S \in SUBSET DOMAIN q |-> v]
  <2>1. DOMAIN q = {} /\ SUBSET {} = {{}}
    OBVIOUS
  <2> HIDE DEF q
  <2>2. f[{}] = v /\ f = [S \in SUBSET DOMAIN q |-> f[S]]
    BY <2>1
  <2> HIDE DEF f
  <2>3. \A S \in SUBSET DOMAIN q : f[S] = step(q, f, S)
    BY <1>4, <2>1, <2>2
  <2>4. \A S \in SUBSET DOMAIN q : it(q)[S] = step(q, it(q), S)
    BY <1>5, <2>2, <2>3
  <2>5. it(q)[{}] = v
    BY <1>4, <2>1, <2>4
  <2> QED
    BY <1>1, <2>1, <2>5 DEF q
<1>7. ASSUME NEW a PROVE FoldLeft(ApplySet, v, <<a>>) = ApplySet(v, a)
  <2> DEFINE q == <<a>>
             f == [S \in SUBSET DOMAIN q |-> IF S = {} THEN v ELSE ApplySet(v, a)]
  <2>1. DOMAIN q = {1} /\ q[1] = a
    OBVIOUS
  <2> HIDE DEF q
  <2>2. f[{}] = v /\ f[{1}] = ApplySet(v, a) /\ f = [S \in SUBSET DOMAIN q |-> f[S]]
    BY <1>3, <2>1
  <2> HIDE DEF f
  <2>3. \A S \in SUBSET DOMAIN q : f[S] = step(q, f, S)
    <3>1. f[{}] = step(q, f, {}) /\ f[{1}] = step(q, f, {1})
      BY <1>4, <2>1, <2>2
    <3>2. \A S \in SUBSET DOMAIN q : S = {} \/ S = {1}
      BY <1>3, <2>1
    <3> QED
      BY <3>1, <3>2
  <2>4. \A S \in SUBSET DOMAIN q : it(q)[S] = step(q, it(q), S)
    BY <1>5, <2>2, <2>3
  <2>5. it(q)[{}] = v /\ it(q)[{1}] = ApplySet(v, a)
    BY <1>3, <1>4, <2>1, <2>4
  <2> QED
    BY <1>1, <2>1, <2>5 DEF q
<1>8. ASSUME NEW a, NEW b
      PROVE  FoldLeft(ApplySet, v, <<a, b>>) = ApplySet(ApplySet(v, a), b)
  <2> DEFINE q == <<a, b>>
             f == [S \in SUBSET DOMAIN q |->
                     IF S = {} THEN v ELSE IF S = {1} THEN ApplySet(v, a)
                     ELSE IF S = {2} THEN ApplySet(v, b)
                     ELSE ApplySet(ApplySet(v, a), b)]
  <2>1. DOMAIN q = {1, 2} /\ q[1] = a /\ q[2] = b
    OBVIOUS
  <2> HIDE DEF q
  <2>2. /\ f[{}] = v /\ f[{1}] = ApplySet(v, a) /\ f[{2}] = ApplySet(v, b)
        /\ f[{1, 2}] = ApplySet(ApplySet(v, a), b)
        /\ f = [S \in SUBSET DOMAIN q |-> f[S]]
    BY <1>3, <2>1
  <2> HIDE DEF f
  <2>3. \A S \in SUBSET DOMAIN q : f[S] = step(q, f, S)
    <3>1. f[{}] = step(q, f, {}) /\ f[{1}] = step(q, f, {1}) /\ f[{2}] = step(q, f, {2})
      BY <1>4, <2>1, <2>2
    <3>2. f[{1, 2}] = step(q, f, {1, 2})
      BY <1>4, <2>1, <2>2
    <3>3. \A S \in SUBSET DOMAIN q : S = {} \/ S = {1} \/ S = {2} \/ S = {1, 2}
      BY <1>3, <2>1
    <3> QED
      BY <3>1, <3>2, <3>3
  <2>4. \A S \in SUBSET DOMAIN q : it(q)[S] = step(q, it(q), S)
    BY <1>5, <2>2, <2>3
  <2>5. it(q)[{}] = v /\ it(q)[{1}] = ApplySet(v, a)
    BY <1>3, <1>4, <2>1, <2>4
  <2>6. it(q)[{1, 2}] = ApplySet(ApplySet(v, a), b)
    BY <1>3, <1>4, <2>1, <2>4, <2>5
  <2> QED
    BY <1>1, <2>1, <2>6 DEF q
<1> QED
  BY <1>6, <1>7, <1>8

\* The replay of the lists that occur.
LEMMA Replays ==
    /\ Replay(<<>>) = DefaultVars
    /\ \A a : Replay(<<a>>) = ApplySet(DefaultVars, a)
    /\ \A a, b : Replay(<<a, b>>) = ApplySet(ApplySet(DefaultVars, a), b)
  BY FoldShort DEF Replay

\* Appending to a sequence of one.
LEMMA AppendTwo ==
    ASSUME NEW a, NEW k PROVE Append(<<a>>, k) = <<a, k>>
<1> DEFINE q == <<a>>
           S == {a, k}
           p == Append(q, k)
           r == <<a, k>>
<1>1. q \in Seq(S) /\ k \in S /\ Len(q) = 1 /\ q[1] = a
  OBVIOUS
<1> HIDE DEF q, S
<1>2. Len(p) = Len(q) + 1 /\ p \in Seq(S)
  BY <1>1, AppendProperties
<1>3. \A i \in 1..Len(q) : p[i] = q[i]
  BY <1>1, AppendProperties
<1>4. p[Len(q) + 1] = k
  BY <1>1, AppendProperties
<1> HIDE DEF p
<1>5. p = [i \in 1..2 |-> p[i]] /\ p[1] = a /\ p[2] = k
  BY <1>1, <1>2, <1>3, <1>4
<1>6. r[1] = a /\ r[2] = k /\ r = [i \in 1..2 |-> r[i]]
  OBVIOUS
<1> HIDE DEF r
<1>7. \A i \in 1..2 : p[i] = r[i]
  BY <1>5, <1>6
<1>8. p = r
  BY <1>5, <1>6, <1>7
<1> QED
  BY <1>8 DEF p, q, r

\* A SET that was recorded changes nothing, and a new one is the next to be
\* replayed.
LEMMA SetAgain ==
    ASSUME Settled, NEW q \in SetLists, NEW k \in Known
    PROVE  /\ k \in ToSet(q) => ApplySet(Replay(q), k) = Replay(q)
           /\ k \notin ToSet(q) =>
                 /\ Len(q) < MaxTrackedSets
                 /\ Append(q, k) \in SetLists
                 /\ Replay(Append(q, k)) = ApplySet(Replay(q), k)
<1> DEFINE Good == /\ k \in ToSet(q) => ApplySet(Replay(q), k) = Replay(q)
                   /\ k \notin ToSet(q) =>
                         /\ Len(q) < MaxTrackedSets
                         /\ Append(q, k) \in SetLists
                         /\ Replay(Append(q, k)) = ApplySet(Replay(q), k)
<1>1. CASE q = <<>>
  <2>1. ToSet(q) = {} /\ Len(q) = 0 /\ Append(q, k) = <<k>>
    BY <1>1 DEF ToSet
  <2>2. <<k>> \in SetLists
    BY DEF SetLists
  <2> QED
    BY <1>1, <2>1, <2>2, Replays, BoundsAssumption
<1>2. ASSUME NEW a \in Known, q = <<a>> PROVE Good
  <2>1. ToSet(q) = {a} /\ Len(q) = 1 /\ Append(q, k) = <<a, k>>
    <3>1. DOMAIN q = {1} /\ q[1] = a /\ Len(q) = 1
      BY <1>2
    <3>2. ToSet(q) = {a}
      BY <3>1 DEF ToSet
    <3>3. Append(q, k) = <<a, k>>
      BY <1>2, AppendTwo
    <3> QED
      BY <3>1, <3>2, <3>3
  <2>2. k # a => <<a, k>> \in SetLists /\ MaxTrackedSets >= 2
    <3>1. ASSUME k # a PROVE <<a, k>> \in SetLists
      <4>1. <<a, k>> \in {<<a, b>> : b \in Known \ {a}}
        BY <3>1
      <4> QED
        BY <4>1 DEF SetLists
    <3>2. ASSUME k # a PROVE MaxTrackedSets >= 2
      BY <3>2 DEF Settled
    <3> QED
      BY <3>1, <3>2
  <2>3. ApplySet(ApplySet(DefaultVars, a), a) = ApplySet(DefaultVars, a)
    BY DEF ApplySet, DefaultVars
  <2> QED
    <3>1. Replay(q) = ApplySet(DefaultVars, a)
          /\ Replay(<<a, k>>) = ApplySet(ApplySet(DefaultVars, a), k)
      BY <1>2, Replays
    <3>2. k # a => Len(q) < MaxTrackedSets
      BY <2>1, <2>2, BoundsAssumption
    <3> HIDE DEF Good
    <3>3. k \in ToSet(q) => ApplySet(Replay(q), k) = Replay(q)
      BY <2>1, <2>3, <3>1
    <3>4. k \notin ToSet(q) => Append(q, k) \in SetLists
                               /\ Replay(Append(q, k)) = ApplySet(Replay(q), k)
      BY <2>1, <2>2, <3>1
    <3> QED
      BY <2>1, <3>2, <3>3, <3>4 DEF Good
<1>3. ASSUME NEW a \in Known, NEW b \in Known \ {a}, q = <<a, b>> PROVE Good
  <2>1. ToSet(q) = {a, b}
    <3>1. DOMAIN q = {1, 2} /\ q[1] = a /\ q[2] = b
      BY <1>3
    <3> QED
      BY <3>1 DEF ToSet
  <2>2. k \in {a, b}
    BY DEF Settled
  <2>3. "zone utc" \in {a, b}
    BY DEF Settled
  <2>4. ApplySet(ApplySet(ApplySet(DefaultVars, a), b), k) = ApplySet(ApplySet(DefaultVars, a), b)
    BY <2>2, <2>3 DEF ApplySet, DefaultVars
  <2> QED
    BY <1>3, <2>1, <2>2, <2>4, Replays
<1> QED
  BY <1>1, <1>2, <1>3 DEF SetLists

\* At first nothing is recorded.
LEMMA VarsInit == Init => VarsInv
<1> SUFFICES ASSUME Init PROVE VarsInv
  OBVIOUS
<1>1. Honest(NoConnection)
  BY Replays DEF NoConnection, Honest
<1>2. ASSUME NEW s \in Sessions PROVE Tracked(s)
  <2>1. sess[s] = NewSession /\ want[s] = NewWant
    BY DEF Init
  <2> QED
    BY <2>1, Replays DEF Tracked, NewSession, NewWant, SetLists
<1> QED
  BY <1>1, <1>2 DEF Init, VarsInv

\* A step of s.
LEMMA VarsOwn ==
    ASSUME PlaceInv, VarsInv, NEW s \in Sessions, Tracked(s)',
           \A t \in Sessions \ {s} : sess'[t] = sess[t] /\ want'[t] = want[t],
           \A b \in Conns \ Reach(s) : wire'[b] = wire[b],
           \A b \in Conns : Honest(wire'[b])
    PROVE  VarsInv'
<1>1. ASSUME NEW t \in Sessions, t # s PROVE Tracked(t)'
  <2>1. sess'[t] = sess[t] /\ want'[t] = want[t] /\ Tracked(t) /\ Attached(t)
    BY <1>1 DEF VarsInv, PlaceInv
  <2>2. sess[t].conn # None => sess[t].conn \in Conns \ Reach(s)
    BY <1>1 DEF PlaceInv, Attached, Reach
  <2>3. sess[t].conn # None => wire'[sess[t].conn] = wire[sess[t].conn]
    BY <2>2
  <2> QED
    BY <2>1, <2>3 DEF Tracked
<1>2. (\A b \in Conns : Honest(wire[b]))'
  BY DEF Honest
<1> QED
  BY <1>1, <1>2 DEF VarsInv

\* A session that ends up without a connection.
LEMMA VarsDetaches ==
    ASSUME PlaceInv, VarsInv, NEW s \in Sessions,
           sess'[s].conn = None, sess'[s].run = None, sess'[s].openStmts = 0,
           sess'[s].sets \in SetLists, want'[s].vars = Replay(sess'[s].sets),
           \A t \in Sessions \ {s} : sess'[t] = sess[t] /\ want'[t] = want[t],
           \A b \in Conns \ Reach(s) : wire'[b] = wire[b],
           \A b \in Conns : Honest(wire'[b])
    PROVE  VarsInv'
<1>1. Tracked(s)'
  BY DEF Tracked, SetLists, Known
<1> QED
  BY <1>1, VarsOwn

\* A reset that succeeds leaves the variables nobody set, under no label.
LEMMA HonestReset ==
    ASSUME NEW w, IsWire(w), Resettable(w), ResetUnsupported => Honest(w)
    PROVE  Honest(ResetConn(w)) /\ ResetConn(w).sig = <<>>
<1>1. CASE ResetUnsupported
  <2>1. w.sig = <<>> /\ Honest(w)
    BY <1>1 DEF Resettable
  <2>2. ResetConn(w).vars = w.vars /\ ResetConn(w).sig = <<>>
    BY <1>1 DEF ResetConn, ServerReset, IsWire, WireFields
  <2> QED
    BY <2>1, <2>2 DEF Honest
<1>2. CASE ~ResetUnsupported
  <2>1. ResetConn(w).vars = DefaultVars /\ ResetConn(w).sig = <<>>
    BY <1>2, FreshFacts DEF ResetConn, ServerReset, IsWire, WireFields
  <2> QED
    BY <2>1, Replays DEF Honest
<1> QED
  BY <1>1, <1>2

\* Closed connections and new ones have them too.
LEMMA HonestNew ==
    /\ Honest(NoConnection) /\ \A n : Honest(Fresh(n))
  BY FreshFacts, Replays DEF NoConnection, Honest

\* Before the replay a connection has the label of the session or none.
LEMMA HonestBound ==
    ASSUME NEW x, NEW w, IsWire(w), Honest(w), Clearable(x, w)
    PROVE  LET c == Cleared(x, w)
               b == Bound(x, c)
           IN  /\ Honest(c) /\ IsWire(c) /\ Honest(b) /\ IsWire(b)
               /\ b.sig # x.sets => b.sig = <<>>
<1> DEFINE c == Cleared(x, w)
           b == Bound(x, c)
<1>1. IsWire(c) /\ IsWire(b)
  BY ClearedFacts, BoundFacts
<1>2. Honest(c) /\ (c.sig # x.sets => c.sig = <<>>)
  BY HonestReset DEF Cleared, Clearable
<1>3. b.vars = c.vars /\ b.sig = c.sig
  <2> HIDE DEF c
  <2> QED
    BY <1>1 DEF Bound, IsWire, WireFields
<1> HIDE DEF c, b
<1>4. Honest(b) /\ (b.sig # x.sets => b.sig = <<>>)
  BY <1>2, <1>3 DEF Honest
<1> QED
  BY <1>1, <1>2, <1>4 DEF c, b

\* The preparation of a connection gives it the variables of the session.
LEMMA HonestPrepared ==
    ASSUME NEW x, NEW w, IsWire(w), Honest(w), Clearable(x, w)
    PROVE  Honest(Prepared(x, w)) /\ Prepared(x, w).sig = x.sets
<1> DEFINE b == Bound(x, Cleared(x, w))
<1>1. Honest(b) /\ IsWire(b) /\ (b.sig # x.sets => b.sig = <<>>)
  BY HonestBound
<1>2. Prepared(x, w) = IF b.sig # x.sets
        THEN [b EXCEPT !.vars = FoldLeft(ApplySet, b.vars, x.sets), !.sig = x.sets]
        ELSE b
  BY DEF Prepared
<1> HIDE DEF b
<1>3. CASE b.sig # x.sets
  <2>1. b.vars = DefaultVars
    BY <1>1, <1>3, Replays DEF Honest
  <2>2. Prepared(x, w).vars = FoldLeft(ApplySet, DefaultVars, x.sets)
        /\ Prepared(x, w).sig = x.sets
    BY <1>1, <1>2, <1>3, <2>1 DEF IsWire, WireFields
  <2>3. Prepared(x, w).vars = Replay(x.sets)
    BY <2>2 DEF Replay
  <2> QED
    BY <2>2, <2>3 DEF Honest
<1>4. CASE b.sig = x.sets
  BY <1>1, <1>2, <1>4
<1> QED
  BY <1>3, <1>4

\* If a server refuses half a replay and cannot reset, no half was made.
LEMMA HonestStopped ==
    ASSUME Settled, NEW x, x.sets \in SetLists, NEW w, IsWire(w), Honest(w),
           NEW r \in StoppedAt(x, w), ResetUnsupported
    PROVE  Honest(r)
<1> DEFINE c == Cleared(x, w)
           b == Bound(x, c)
           half(i) == [b EXCEPT !.vars = FoldLeft(ApplySet, b.vars, SubSeq(x.sets, 1, i))]
<1>1. Clearable(x, w)
  BY DEF StoppedAt
<1>2. Honest(c) /\ Honest(b) /\ IsWire(b)
  BY <1>1, HonestBound
<1>3. r = c \/ \E i \in 0..(Len(x.sets) - 1) : r = half(i)
  BY DEF StoppedAt
<1>4. Len(x.sets) \in {0, 1}
  <2>1. x.sets = <<>> \/ \E a : x.sets = <<a>>
    BY DEF SetLists, Settled
  <2>2. CASE x.sets = <<>>
    BY <2>2
  <2>3. ASSUME NEW a, x.sets = <<a>> PROVE Len(x.sets) = 1
    BY <2>3
  <2> QED
    BY <2>1, <2>2, <2>3
<1>5. ASSUME NEW i \in 0..(Len(x.sets) - 1) PROVE Honest(half(i))
  <2>1. i = 0
    <3>1. PICK n \in {0, 1} : n = Len(x.sets)
      BY <1>4
    <3>2. i \in 0..(n - 1)
      BY <3>1
    <3> QED
      BY <3>2
  <2>2. SubSeq(x.sets, 1, i) = <<>>
    BY <2>1
  <2> HIDE DEF b
  <2>3. FoldLeft(ApplySet, b.vars, SubSeq(x.sets, 1, i)) = b.vars
    BY <2>2, FoldShort
  <2>4. half(i) = [b EXCEPT !.vars = b.vars]
    BY <2>3
  <2> QED
    BY <2>4, <1>2 DEF IsWire, WireFields, Honest
<1> QED
  BY <1>2, <1>3, <1>5

\* What comes from a pool has the variables of its label.
LEMMA HonestAcquired ==
    ASSUME VarsInv, NEW n, NEW c \in Conns
    PROVE  Honest(FromPool(c, n))
  BY HonestNew DEF FromPool, VarsInv

\* So has what goes back to one.
LEMMA HonestReleased ==
    ASSUME VarsInv, NEW p, NEW c \in Conns, NEW w, IsWire(w), Released(w, p, c),
           ResetUnsupported => Honest(w), DOMAIN wire = Conns
    PROVE  /\ \A b \in Conns : Honest(wire'[b])
           /\ \A b \in Conns \ {c} : wire'[b] = wire[b]
<1>1. \/ Resettable(w) /\ wire' = [wire EXCEPT ![c] = ResetConn(w)]
      \/ wire' = [wire EXCEPT ![c] = NoConnection]
  BY DEF Released
<1> QED
  BY <1>1, HonestReset, HonestNew DEF VarsInv

\* What a statement does to the variables of a connection, ...
LEMMA ExecutedVars ==
    ASSUME NEW s, NEW k, NEW d, NEW w, IsWire(w)
    PROVE  /\ k \in SetStatements => Executed(s, k, d, w).vars = ApplySet(w.vars, k)
           /\ k \notin SetStatements => Executed(s, k, d, w).vars = w.vars
           /\ Executed(s, k, d, w).sig = w.sig
           /\ IsWire(Executed(s, k, d, w))
<1>1. ASSUME k \in SetStatements PROVE Executed(s, k, d, w).vars = ApplySet(w.vars, k)
  <2>1. Executed(s, k, d, w) = [w EXCEPT !.vars = ApplySet(w.vars, k)]
    BY <1>1 DEF Executed, SetStatements, Leaves
  <2> QED
    BY <2>1 DEF IsWire, WireFields
<1>2. Ran(s, k, w, Executed(s, k, d, w))
  BY ExecutedFacts
<1> QED
  BY <1>1, <1>2 DEF Ran

\* ... and to those its client expects.
LEMMA WantedVars ==
    ASSUME NEW s, NEW k, NEW d, IsWant(want[s])
    PROVE  /\ k \in SetStatements => Wanted(s, k, d).vars = ApplySet(want[s].vars, k)
           /\ k \notin SetStatements => Wanted(s, k, d).vars = want[s].vars
<1> DEFINE v == [want[s] EXCEPT !.listed = (k = "calc rows")]
           r == Wanted(s, k, d)
<1>1. IsWant(v) /\ v.vars = want[s].vars
  BY DEF IsWant, WantFields
<1>2. r =
        CASE k \in SetStatements          -> [v EXCEPT !.vars = ApplySet(@, k)]
          [] k = "begin"                  -> [v EXCEPT !.tx = TRUE, !.cut = FALSE]
          [] k \in {"commit", "rollback", "lock tables"} -> [v EXCEPT !.tx = FALSE, !.cut = FALSE]
          [] k \in {"use", "init db"}     -> [v EXCEPT !.db = d, !.misdirected = FALSE]
          [] OTHER                        -> v
  BY DEF Wanted
<1> HIDE DEF v, r
<1>3. CASE k \in SetStatements
  <2>1. r = [v EXCEPT !.vars = ApplySet(v.vars, k)]
    BY <1>2, <1>3 DEF SetStatements
  <2> QED
    BY <2>1, <1>1, <1>3 DEF IsWant, WantFields, r
<1>4. CASE k \notin SetStatements
  <2>1. \/ r = v
        \/ \E u : r = [v EXCEPT !.db = u, !.misdirected = FALSE]
        \/ r = [v EXCEPT !.tx = TRUE, !.cut = FALSE]
        \/ r = [v EXCEPT !.tx = FALSE, !.cut = FALSE]
    BY <1>2, <1>4 DEF SetStatements
  <2> QED
    BY <2>1, <1>1, <1>4 DEF IsWant, WantFields, r
<1> QED
  BY <1>3, <1>4

\* Being told of an error changes none of them.
LEMMA ToldVars ==
    ASSUME NEW v, NEW k, IsWant(v)
    PROVE  Told(v, k).vars = v.vars
  BY DEF Told, IsWant, WantFields

\* Recording a SET, or nothing.
LEMMA TrackSetVars ==
    ASSUME Settled, NEW x, IsSess(x), x.sets \in SetLists, NEW k \in Statements
    PROVE  LET t == TrackSet(x, k) IN
           /\ t.sets \in SetLists
           /\ k \in SetStatements => Replay(t.sets) = ApplySet(Replay(x.sets), k)
           /\ k \notin SetStatements => t.sets = x.sets
<1>1. CASE k \notin SetStatements \/ k \in ToSet(x.sets)
  <2>1. TrackSet(x, k) = x
    BY <1>1 DEF TrackSet
  <2>2. k \in SetStatements => ApplySet(Replay(x.sets), k) = Replay(x.sets)
    BY <1>1, SetAgain DEF Known
  <2> QED
    BY <2>1, <2>2
<1>2. CASE k \in SetStatements /\ k \notin ToSet(x.sets)
  <2>1. /\ Len(x.sets) < MaxTrackedSets /\ Append(x.sets, k) \in SetLists
        /\ Replay(Append(x.sets, k)) = ApplySet(Replay(x.sets), k)
    BY <1>2, SetAgain DEF Known
  <2>2. Len(x.sets) \in Nat
    <3>1. \/ x.sets = <<>>
          \/ \E a : x.sets = <<a>>
          \/ \E a, b : x.sets = <<a, b>>
      BY DEF SetLists
    <3> QED
      BY <3>1
  <2>3. TrackSet(x, k) = [x EXCEPT !.sets = Append(x.sets, k)]
    BY <1>2, <2>1, <2>2, BoundsAssumption DEF TrackSet
  <2>4. TrackSet(x, k).sets = Append(x.sets, k)
    BY <2>3 DEF IsSess, SessFields
  <2> QED
    BY <1>2, <2>1, <2>4
<1> QED
  BY <1>1, <1>2

-----------------------------------------------------------------------------
\* A statement on the connection at hand.
LEMMA VarsBeginAttached ==
    ASSUME PlaceInv, VarsInv, NEW s \in Sessions, NEW k \in Statements, NEW d,
           BeginAttached(s, k, d)
    PROVE  VarsInv'
<1>1. PICK e : sess' = [sess EXCEPT ![s].run = k, ![s].arg = d, ![s].db = e]
  BY DEF BeginAttached
<1>2. /\ sess'[s].conn = sess[s].conn /\ sess'[s].run = k /\ sess'[s].sets = sess[s].sets
      /\ sess'[s].openStmts = sess[s].openStmts
      /\ \A t \in Sessions \ {s} : sess'[t] = sess[t]
  BY <1>1 DEF PlaceInv, Typed, IsSess, SessFields
<1>3. UNCHANGED <<wire, want>>
  BY DEF BeginAttached
<1>4. Tracked(s)'
  <2>1. Tracked(s)
    BY DEF VarsInv
  <2> QED
    BY <2>1, <1>2, <1>3 DEF Tracked, SetLists, Known
<1> QED
  BY <1>2, <1>3, <1>4, VarsOwn DEF VarsInv

\* A connection from a pool.
LEMMA VarsBeginAcquires ==
    ASSUME PlaceInv, VarsInv, NEW s \in Sessions, NEW k \in Statements, NEW d,
           BeginAcquires(s, k, d)
    PROVE  VarsInv'
<1>1. PICK n \in Route(s, k) :
         /\ sess[s].conn # None => wire[sess[s].conn].home # n
         /\ \E c \in Acquirable(n) :
               /\ Preparable(sess[s], FromPool(c, n))
               /\ wire' = [wire EXCEPT ![c] = Prepared(sess[s], FromPool(c, n))]
               /\ sess' = [sess EXCEPT ![s] = [sess[s] EXCEPT !.run = k, !.arg = d, !.conn = c]]
  BY DEF BeginAcquires
<1>2. PICK c \in Acquirable(n) :
         /\ Preparable(sess[s], FromPool(c, n))
         /\ wire' = [wire EXCEPT ![c] = Prepared(sess[s], FromPool(c, n))]
         /\ sess' = [sess EXCEPT ![s] = [sess[s] EXCEPT !.run = k, !.arg = d, !.conn = c]]
  BY <1>1
<1>3. n # None /\ want' = want
  BY <1>1, Routed DEF BeginAcquires
<1>4. /\ c \in Conns /\ c \in Reach(s) /\ IsWire(FromPool(c, n))
  BY <1>2, <1>3, Acquired
<1> DEFINE w == Prepared(sess[s], FromPool(c, n))
<1>5. Honest(w) /\ w.sig = sess[s].sets
  BY <1>2, <1>4, HonestAcquired, HonestPrepared DEF Preparable
<1>6. wire' = [wire EXCEPT ![c] = w]
  BY <1>2
<1> HIDE DEF w
<1>7. /\ sess'[s].conn = c /\ sess'[s].run = k /\ sess'[s].sets = sess[s].sets
      /\ sess'[s].openStmts = sess[s].openStmts
      /\ \A t \in Sessions \ {s} : sess'[t] = sess[t]
  BY <1>2 DEF PlaceInv, Typed, IsSess, SessFields
<1>8. wire'[c] = w /\ \A b \in Conns \ {c} : wire'[b] = wire[b]
  BY <1>4, <1>6 DEF PlaceInv, Typed
<1>9. Tracked(s)'
  <2>1. Tracked(s)
    BY DEF VarsInv
  <2> QED
    BY <2>1, <1>3, <1>5, <1>7, <1>8 DEF Tracked, SetLists, Known
<1>10. \A b \in Conns : Honest(wire'[b])
  BY <1>5, <1>8 DEF VarsInv
<1> QED
  BY <1>3, <1>4, <1>7, <1>8, <1>9, <1>10, VarsOwn

\* What a session goes on with when it has no connection.
LEMMA VarsWithout ==
    ASSUME VarsInv, NEW s \in Sessions
    PROVE  /\ sess[s].openStmts = 0 /\ sess[s].sets \in SetLists
           /\ want[s].vars = Replay(sess[s].sets)
  BY DEF VarsInv, Tracked

\* No connection.
LEMMA VarsBeginFails ==
    ASSUME PlaceInv, VarsInv, NEW s \in Sessions, NEW k, NEW d, BeginFails(s, k, d)
    PROVE  VarsInv'
<1>1. /\ sess' = [sess EXCEPT ![s].conn = None, ![s].db = IF k = "init db" THEN d ELSE @]
      /\ want' = [want EXCEPT ![s] = Told(want[s], k)]
      /\ sess[s].run = None /\ wire' = wire
  BY DEF BeginFails, Idle
<1>2. /\ sess'[s].conn = None /\ sess'[s].run = None /\ sess'[s].sets = sess[s].sets
      /\ sess'[s].openStmts = sess[s].openStmts
      /\ \A t \in Sessions \ {s} : sess'[t] = sess[t]
  BY <1>1 DEF PlaceInv, Typed, IsSess, SessFields
<1>3. want'[s].vars = want[s].vars /\ \A t \in Sessions \ {s} : want'[t] = want[t]
  BY <1>1, ToldVars DEF PlaceInv, Typed
<1> QED
  BY <1>1, <1>2, <1>3, VarsWithout, VarsDetaches DEF VarsInv

\* The server refuses the database or a SET.
LEMMA VarsBeginRefused ==
    ASSUME Settled, PlaceInv, VarsInv, NEW s \in Sessions, NEW k, NEW d,
           BeginRefused(s, k, d)
    PROVE  VarsInv'
<1> DEFINE x == [sess[s] EXCEPT !.db = IF k = "init db" THEN d ELSE @]
<1>1. /\ Idle(s)
      /\ \E n \in Route(s, k) :
            /\ x.conn # None => wire[x.conn].home # n
            /\ \E c \in Acquirable(n) : \E w \in StoppedAt(x, FromPool(c, n)) :
                  Released(w, ParkedByMove(s), c)
      /\ sess' = [sess EXCEPT ![s] = [x EXCEPT !.conn = None]]
      /\ want' = [want EXCEPT ![s] = Told(want[s], k)]
  BY DEF BeginRefused
<1>2. /\ IsSess(x) /\ x.conn = sess[s].conn /\ x.run = sess[s].run
      /\ x.sets = sess[s].sets /\ x.openStmts = sess[s].openStmts
  BY DEF PlaceInv, Typed, IsSess, SessFields
<1> HIDE DEF x
<1>3. PICK n \in Route(s, k) :
         /\ sess[s].conn # None => wire[sess[s].conn].home # n
         /\ \E c \in Acquirable(n) : \E w \in StoppedAt(x, FromPool(c, n)) :
               Released(w, ParkedByMove(s), c)
  BY <1>1, <1>2
<1>4. PICK c \in Acquirable(n) : \E w \in StoppedAt(x, FromPool(c, n)) :
         Released(w, ParkedByMove(s), c)
  BY <1>3
<1>5. PICK w \in StoppedAt(x, FromPool(c, n)) : Released(w, ParkedByMove(s), c)
  BY <1>4
<1>6. n # None /\ DOMAIN wire = Conns
  BY <1>3, Routed DEF PlaceInv, Typed
<1>7. /\ c \in Conns /\ c \in Reach(s) /\ IsWire(FromPool(c, n))
      /\ Honest(FromPool(c, n))
  BY <1>4, <1>6, Acquired, HonestAcquired
<1>8. IsWire(w) /\ (ResetUnsupported => Honest(w))
  BY <1>2, <1>5, <1>7, StoppedFacts, HonestStopped, VarsWithout
<1>9. (\A b \in Conns : Honest(wire'[b])) /\ (\A b \in Conns \ {c} : wire'[b] = wire[b])
  BY <1>5, <1>6, <1>7, <1>8, HonestReleased
<1>10. /\ sess'[s].conn = None /\ sess'[s].run = None /\ sess'[s].sets = sess[s].sets
       /\ sess'[s].openStmts = sess[s].openStmts
       /\ \A t \in Sessions \ {s} : sess'[t] = sess[t]
  BY <1>1, <1>2 DEF Idle, PlaceInv, Typed, IsSess, SessFields
<1>11. want'[s].vars = want[s].vars /\ \A t \in Sessions \ {s} : want'[t] = want[t]
  BY <1>1, ToldVars DEF PlaceInv, Typed
<1> QED
  BY <1>7, <1>9, <1>10, <1>11, VarsWithout, VarsDetaches

\* A connection that may go back at once.
LEMMA VarsSelects ==
    ASSUME PlaceInv, VarsInv, NEW s \in Sessions, NEW d, SelectsDatabase(s, d)
    PROVE  VarsInv'
<1> DEFINE x == [sess[s] EXCEPT !.db = d]
           y(c) == [x EXCEPT !.conn = c]
           m(c, n) == [wire EXCEPT ![c] = Prepared(x, FromPool(c, n))]
<1>1. PICK n \in Route(s, "init db") : \E c \in Acquirable(n) :
          /\ Preparable(x, FromPool(c, n))
          /\ wire' = m(c, n)
          /\ sess' = [sess EXCEPT ![s] = AfterRelease(y(c), m(c, n))]
  BY DEF SelectsDatabase
<1>2. PICK c \in Acquirable(n) :
          /\ Preparable(x, FromPool(c, n))
          /\ wire' = m(c, n)
          /\ sess' = [sess EXCEPT ![s] = AfterRelease(y(c), m(c, n))]
  BY <1>1
<1>3. /\ Idle(s) /\ x.conn = None
      /\ want' = [want EXCEPT ![s] = Wanted(s, "init db", d)]
  BY Zenon DEF SelectsDatabase
<1>4. /\ x.conn = sess[s].conn /\ IsSess(x) /\ x.run = sess[s].run
      /\ x.sets = sess[s].sets /\ x.openStmts = sess[s].openStmts
  BY DEF PlaceInv, Typed, IsSess, SessFields
<1>5. sess[s].conn = None /\ sess[s].run = None
  BY <1>3, <1>4 DEF Idle
<1>6. n # None
  BY <1>5, Routed
<1>7. c \in Conns /\ c \in Reach(s) /\ c # None /\ IsWire(FromPool(c, n))
  BY <1>2, <1>6, Acquired, PlacesAssumption
<1> HIDE DEF x
<1>8. /\ IsSess(y(c)) /\ y(c).conn = c /\ y(c).run = None
      /\ y(c).sets = sess[s].sets /\ y(c).openStmts = sess[s].openStmts
  BY <1>4, <1>5 DEF IsSess, SessFields
<1> DEFINE w == Prepared(x, FromPool(c, n))
<1>9. Honest(w) /\ w.sig = sess[s].sets
  BY <1>2, <1>4, <1>7, HonestAcquired, HonestPrepared DEF Preparable
<1> DEFINE z == y(c)
           mm == m(c, n)
<1>10. mm = [wire EXCEPT ![c] = w] /\ wire' = mm
  BY <1>2
<1>11. /\ sess' = [sess EXCEPT ![s] = AfterRelease(z, mm)]
       /\ IsSess(z) /\ z.conn = c /\ z.run = None
       /\ z.sets = sess[s].sets /\ z.openStmts = sess[s].openStmts
  BY <1>2, <1>8
<1> HIDE DEF y, m, z, mm, w
<1>12. wire'[c] = w /\ \A b \in Conns \ {c} : wire'[b] = wire[b]
  BY <1>7, <1>10 DEF PlaceInv, Typed
<1>13. /\ sess'[s].conn \in {None, c} /\ sess'[s].run = None
       /\ sess'[s].sets = sess[s].sets /\ sess'[s].openStmts = sess[s].openStmts
       /\ \A t \in Sessions \ {s} : sess'[t] = sess[t]
  <2>1. /\ AfterRelease(z, mm).sets = sess[s].sets /\ AfterRelease(z, mm).run = None
        /\ AfterRelease(z, mm).conn \in {None, c}
        /\ AfterRelease(z, mm).openStmts = sess[s].openStmts
    BY <1>11, AfterReleaseFacts
  <2> QED
    BY <1>11, <2>1 DEF PlaceInv, Typed
<1>14. want'[s].vars = want[s].vars /\ \A t \in Sessions \ {s} : want'[t] = want[t]
  <2>1. IsWant(want[s]) /\ DOMAIN want = Sessions
    BY DEF PlaceInv, Typed
  <2>2. ASSUME NEW k, k = "init db" PROVE Wanted(s, k, d).vars = want[s].vars
    <3>1. k \notin SetStatements
      BY <2>2 DEF SetStatements
    <3> QED
      BY <2>1, <3>1, WantedVars
  <2> QED
    BY <1>3, <2>1, <2>2
<1>15. Tracked(s)'
  <2>1. Tracked(s)
    BY DEF VarsInv
  <2> QED
    BY <2>1, <1>9, <1>12, <1>13, <1>14 DEF Tracked, SetLists, Known
<1>16. \A b \in Conns : Honest(wire'[b])
  BY <1>9, <1>12 DEF VarsInv
<1> QED
  BY <1>7, <1>12, <1>13, <1>14, <1>15, <1>16, VarsOwn

\* A statement ends.
LEMMA VarsSucceeds ==
    ASSUME Settled, PlaceInv, VarsInv, NEW s \in Sessions, Succeeds(s)
    PROVE  VarsInv'
<1> DEFINE k == sess[s].run
           d == sess[s].arg
           c == sess[s].conn
           w == Executed(s, k, d, wire[c])
           y == [sess[s] EXCEPT !.run = None, !.arg = None]
           t == IF k = "prepare" THEN [y EXCEPT !.openStmts = @ + 1]
                ELSE IF k = "init db" THEN y
                ELSE TrackSafety(TrackSet(y, k), k, w)
           l == [w EXCEPT !.sig = IF t.sets # y.sets THEN t.sets ELSE @]
           m == [wire EXCEPT ![c] = l]
<1>1. /\ ~Idle(s) /\ wire' = m
      /\ want' = [want EXCEPT ![s] = Wanted(s, k, d)]
      /\ IF k = "prepare"
         THEN sess' = [sess EXCEPT ![s] = t] /\ UNCHANGED parked
         ELSE /\ sess' = [sess EXCEPT ![s] = AfterRelease(t, m)]
              /\ parked' = IF LetsGo(t, m) THEN parked \cup {c} ELSE parked
  BY Zenon DEF Succeeds
<1>2. /\ Tracked(s) /\ k # None /\ c # None /\ c \in Conns /\ c \in Reach(s)
      /\ IsWire(wire[c]) /\ Honest(wire[c]) /\ IsWant(want[s])
  BY <1>1, OwnReach DEF Idle, PlaceInv, Typed, Attached, VarsInv
<1>3. /\ k \in Statements /\ k # "prepare" /\ wire[c].sig = sess[s].sets
      /\ sess[s].sets \in SetLists /\ sess[s].openStmts = 0
      /\ want[s].vars = Replay(sess[s].sets)
  BY <1>2 DEF Tracked, Settled
<1>4. /\ IsSess(y) /\ y.conn = c /\ y.run = None /\ y.openStmts = 0
      /\ y.sets = sess[s].sets
  BY <1>3 DEF PlaceInv, Typed, IsSess, SessFields
<1>5. /\ k \in SetStatements => w.vars = ApplySet(wire[c].vars, k)
      /\ k \notin SetStatements => w.vars = wire[c].vars
      /\ w.sig = wire[c].sig /\ IsWire(w)
  BY <1>2, ExecutedVars
<1> DEFINE v == Wanted(s, k, d)
<1>6. /\ k \in SetStatements => v.vars = ApplySet(want[s].vars, k)
      /\ k \notin SetStatements => v.vars = want[s].vars
  BY <1>2, WantedVars
<1>7. /\ sess' = [sess EXCEPT ![s] = AfterRelease(t, m)]
      /\ wire' = [wire EXCEPT ![c] = l] /\ want' = [want EXCEPT ![s] = v]
  BY <1>1, <1>3
<1> HIDE DEF v
<1>8. l.vars = w.vars /\ l.sig = (IF t.sets # y.sets THEN t.sets ELSE w.sig)
  <2> HIDE DEF w, t, y
  <2> QED
    BY <1>5 DEF IsWire, WireFields
<1> HIDE DEF y, w, l
<1>9. /\ IsSess(t) /\ t.conn = c /\ t.run = None /\ t.openStmts = 0
      /\ t.sets \in SetLists
      /\ k \in SetStatements => Replay(t.sets) = ApplySet(Replay(sess[s].sets), k)
      /\ k \notin SetStatements => t.sets = sess[s].sets
  <2>1. CASE k = "init db"
    <3>1. t = y /\ k \notin SetStatements
      BY <2>1 DEF SetStatements
    <3> QED
      BY <1>3, <1>4, <3>1
  <2>2. CASE k # "init db"
    <3>1. t = TrackSafety(TrackSet(y, k), k, w)
      BY <2>2, <1>3
    <3> DEFINE u == TrackSet(y, k)
    <3>2. /\ IsSess(u) /\ u.run = None /\ u.conn = c /\ u.openStmts = 0
      BY <1>4, TrackSetFacts
    <3>3. /\ u.sets \in SetLists
          /\ k \in SetStatements => Replay(u.sets) = ApplySet(Replay(sess[s].sets), k)
          /\ k \notin SetStatements => u.sets = sess[s].sets
      BY <1>3, <1>4, TrackSetVars
    <3> HIDE DEF u
    <3>4. /\ IsSess(TrackSafety(u, k, w)) /\ TrackSafety(u, k, w).run = None
          /\ TrackSafety(u, k, w).conn = c /\ TrackSafety(u, k, w).openStmts = 0
          /\ TrackSafety(u, k, w).sets = u.sets
      BY <3>2, TrackSafetyFacts
    <3>5. t = TrackSafety(u, k, w)
      BY <3>1 DEF u
    <3> HIDE DEF t, k, c
    <3> QED
      BY <3>3, <3>4, <3>5
  <2> QED
    BY <2>1, <2>2
<1> HIDE DEF t, m, d
<1>10. l.sig = t.sets /\ l.vars = Replay(t.sets) /\ v.vars = Replay(t.sets)
  <2> HIDE DEF c, k
  <2> QED
    BY <1>2, <1>3, <1>4, <1>5, <1>6, <1>8, <1>9 DEF Honest
<1>11. wire'[c] = l /\ \A b \in Conns \ {c} : wire'[b] = wire[b]
  BY <1>2, <1>7 DEF PlaceInv, Typed
<1>12. want'[s] = v /\ \A q \in Sessions \ {s} : want'[q] = want[q]
  BY <1>7 DEF PlaceInv, Typed
<1>13. /\ sess'[s].conn \in {None, c} /\ sess'[s].run = None
       /\ sess'[s].sets = t.sets /\ sess'[s].openStmts = 0
       /\ \A q \in Sessions \ {s} : sess'[q] = sess[q]
  <2>1. /\ AfterRelease(t, m).sets = t.sets /\ AfterRelease(t, m).run = None
        /\ AfterRelease(t, m).conn \in {None, c} /\ AfterRelease(t, m).openStmts = 0
    BY <1>9, AfterReleaseFacts
  <2> HIDE DEF c
  <2> QED
    BY <1>7, <2>1 DEF PlaceInv, Typed
<1>14. Tracked(s)'
  BY <1>9, <1>10, <1>11, <1>12, <1>13 DEF Tracked, SetLists, Known
<1>15. \A b \in Conns : Honest(wire'[b])
  BY <1>10, <1>11 DEF VarsInv, Honest
<1> QED
  BY <1>2, <1>11, <1>12, <1>13, <1>14, <1>15, VarsOwn

\* A statement ends with an error of the server.
LEMMA VarsFails ==
    ASSUME PlaceInv, VarsInv, NEW s \in Sessions, FailsInMySQL(s)
    PROVE  VarsInv'
<1>1. /\ sess' = [sess EXCEPT ![s].run = None, ![s].arg = None] /\ UNCHANGED wire
      /\ want' = [want EXCEPT ![s] = Told(want[s], sess[s].run)]
  BY DEF FailsInMySQL
<1>2. /\ sess'[s].run = None /\ sess'[s].conn = sess[s].conn
      /\ sess'[s].sets = sess[s].sets /\ sess'[s].openStmts = sess[s].openStmts
      /\ \A t \in Sessions \ {s} : sess'[t] = sess[t]
  BY <1>1 DEF PlaceInv, Typed, IsSess, SessFields
<1>3. want'[s].vars = want[s].vars /\ \A t \in Sessions \ {s} : want'[t] = want[t]
  BY <1>1, ToldVars DEF PlaceInv, Typed
<1>4. Tracked(s)'
  <2>1. Tracked(s)
    BY DEF VarsInv
  <2> QED
    BY <2>1, <1>1, <1>2, <1>3 DEF Tracked, SetLists, Known
<1> QED
  BY <1>1, <1>2, <1>3, <1>4, VarsOwn DEF VarsInv

\* A connection breaks or is found dead.
LEMMA VarsLoses ==
    ASSUME PlaceInv, VarsInv, NEW s \in Sessions, LosesConnection(s) \/ PingerDrops(s)
    PROVE  VarsInv'
<1>1. sess[s].conn # None /\ wire' = [wire EXCEPT ![sess[s].conn] = NoConnection]
  BY DEF LosesConnection, PingerDrops, Idle, PlaceInv, Attached
<1>2. \/ sess' = [sess EXCEPT ![s].run = None, ![s].arg = None, ![s].conn = None]
      \/ sess' = [sess EXCEPT ![s].conn = None] /\ sess[s].run = None
  BY DEF LosesConnection, PingerDrops, Idle
<1>3. /\ sess'[s].run = None /\ sess'[s].conn = None /\ sess'[s].sets = sess[s].sets
      /\ sess'[s].openStmts = sess[s].openStmts
      /\ \A t \in Sessions \ {s} : sess'[t] = sess[t]
  BY <1>2 DEF PlaceInv, Typed, IsSess, SessFields
<1>4. want'[s].vars = want[s].vars /\ \A t \in Sessions \ {s} : want'[t] = want[t]
  <2>0. IsWant(want[s]) /\ DOMAIN want = Sessions
    BY DEF PlaceInv, Typed
  <2>1. CASE LosesConnection(s)
    <3> DEFINE v == Told(want[s], sess[s].run)
    <3>1. want' = [want EXCEPT ![s] = [v EXCEPT !.tx = FALSE, !.cut = FALSE]]
      BY <2>1 DEF LosesConnection
    <3>2. v.vars = want[s].vars /\ IsWant(v)
      BY <2>0, ToldVars, ToldFacts
    <3> HIDE DEF v
    <3> QED
      BY <2>0, <3>1, <3>2 DEF IsWant, WantFields
  <2>2. CASE PingerDrops(s)
    <3>1. PICK u : want' = [want EXCEPT ![s].cut = u, ![s].listed = FALSE]
      BY <2>2 DEF PingerDrops
    <3> QED
      BY <2>0, <3>1 DEF IsWant, WantFields
  <2> QED
    BY <2>1, <2>2
<1>5. sess[s].conn \in Reach(s) /\ sess[s].conn \in Conns
  BY <1>1, OwnReach
<1>6. /\ \A b \in Conns \ Reach(s) : wire'[b] = wire[b]
      /\ \A b \in Conns : Honest(wire'[b])
  BY <1>1, <1>5, HonestNew DEF VarsInv, PlaceInv, Typed
<1> QED
  BY <1>3, <1>4, <1>6, VarsWithout, VarsDetaches

\* Nothing was prepared.
LEMMA VarsNoHandles ==
    ASSUME VarsInv, NEW s \in Sessions
    PROVE  ~ExecuteStmt(s) /\ ~ExecuteStaleStmt(s) /\ ~CloseStmt(s) /\ ~CloseStaleStmt(s)
<1>1. sess[s].openStmts = 0
  BY DEF VarsInv, Tracked
<1> QED
  BY <1>1 DEF ExecuteStmt, ExecuteStaleStmt, CloseStmt, CloseStaleStmt

\* A session starts again.
LEMMA VarsEnds ==
    ASSUME PlaceInv, VarsInv, NEW s \in Sessions, ResetSession(s) \/ Disconnect(s)
    PROVE  VarsInv'
<1> DEFINE Starts == /\ sess'[s].run = None /\ sess'[s].conn = None
                     /\ sess'[s].openStmts = 0 /\ sess'[s].sets = <<>>
                     /\ want'[s].vars = DefaultVars
                     /\ \A t \in Sessions \ {s} : sess'[t] = sess[t] /\ want'[t] = want[t]
<1>0. DOMAIN sess = Sessions /\ DOMAIN want = Sessions
  BY DEF PlaceInv, Typed
<1>1. ASSUME Disconnect(s) PROVE Starts
  BY <1>0, <1>1 DEF Disconnect, NewSession, NewWant
<1>2. ASSUME ResetSession(s) PROVE Starts
  <2>1. /\ sess' = [sess EXCEPT ![s] = [NewSession EXCEPT !.db = sess[s].db,
                                                         !.wrote = sess[s].wrote]]
        /\ want' = [want EXCEPT ![s] = [NewWant EXCEPT !.db = want[s].db,
                                                      !.misdirected = want[s].misdirected]]
    BY <1>2 DEF ResetSession
  <2>2. /\ sess'[s].run = None /\ sess'[s].conn = None /\ sess'[s].openStmts = 0
        /\ sess'[s].sets = <<>> /\ \A t \in Sessions \ {s} : sess'[t] = sess[t]
    BY <2>1, <1>0, NewSessionFacts DEF IsSess, SessFields
  <2>3. want'[s].vars = DefaultVars /\ \A t \in Sessions \ {s} : want'[t] = want[t]
    BY <2>1, <1>0 DEF NewWant
  <2> QED
    BY <2>2, <2>3
<1>3. GiveBack(s)
  BY DEF ResetSession, Disconnect
<1>4. /\ \A b \in Conns \ Reach(s) : wire'[b] = wire[b]
      /\ \A b \in Conns : Honest(wire'[b])
  <2>1. CASE sess[s].conn = None
    BY <1>3, <2>1 DEF GiveBack, VarsInv
  <2>2. CASE sess[s].conn # None
    <3>1. /\ Released(wire[sess[s].conn], parked, sess[s].conn)
          /\ sess[s].conn \in Conns /\ sess[s].conn \in Reach(s)
      BY <1>3, <2>2, OwnReach DEF GiveBack
    <3>2. DOMAIN wire = Conns /\ IsWire(wire[sess[s].conn]) /\ Honest(wire[sess[s].conn])
      BY <2>2, <3>1 DEF PlaceInv, Typed, VarsInv
    <3> QED
      BY <3>1, <3>2, HonestReleased
  <2> QED
    BY <2>1, <2>2
<1>5. <<>> \in SetLists /\ Replay(<<>>) = DefaultVars
  BY Replays DEF SetLists
<1>6. Starts
  BY <1>1, <1>2
<1> QED
  BY <1>4, <1>5, <1>6, VarsDetaches

\* Steps that concern no connection in use.
LEMMA VarsOthers ==
    ASSUME PlaceInv, VarsInv,
           \/ \E s \in Sessions : StickyPasses(s)
           \/ \E c \in Conns : ParkedLeaves(c)
           \/ UNCHANGED vars
    PROVE  VarsInv'
<1>1. ASSUME NEW s \in Sessions, StickyPasses(s) PROVE VarsInv'
  <2>1. sess' = [sess EXCEPT ![s].wrote = FALSE] /\ UNCHANGED <<wire, want>>
    BY <1>1 DEF StickyPasses
  <2>2. /\ sess'[s].run = sess[s].run /\ sess'[s].conn = sess[s].conn
        /\ sess'[s].sets = sess[s].sets /\ sess'[s].openStmts = sess[s].openStmts
        /\ \A t \in Sessions \ {s} : sess'[t] = sess[t]
    BY <2>1 DEF PlaceInv, Typed, IsSess, SessFields
  <2>3. Tracked(s)'
    BY <2>1, <2>2 DEF VarsInv, Tracked, SetLists, Known
  <2> QED
    BY <2>1, <2>2, <2>3, VarsOwn DEF VarsInv
<1>2. ASSUME NEW c \in Conns, ParkedLeaves(c) PROVE VarsInv'
  <2>1. /\ c \in parked /\ sess' = sess /\ want' = want
        /\ wire' = [wire EXCEPT ![c] = NoConnection]
    BY <1>2 DEF ParkedLeaves
  <2>2. ASSUME NEW s \in Sessions PROVE Tracked(s)'
    <3>1. Tracked(s) /\ Attached(s) /\ sess[s].conn # c
      BY <2>1, PlacesAssumption DEF VarsInv, PlaceInv, Attached
    <3>2. sess[s].conn # None => wire'[sess[s].conn] = wire[sess[s].conn]
      BY <2>1, <3>1, OwnReach DEF PlaceInv, Typed
    <3> QED
      BY <2>1, <3>1, <3>2 DEF Tracked
  <2>3. \A b \in Conns : Honest(wire'[b])
    BY <2>1, HonestNew DEF VarsInv, PlaceInv, Typed
  <2> QED
    BY <2>2, <2>3 DEF VarsInv, Honest
<1>3. CASE UNCHANGED vars
  BY <1>3 DEF vars, VarsInv, Tracked, Honest
<1> QED
  BY <1>1, <1>2, <1>3

\* All commands of a client.
LEMMA VarsCommand ==
    ASSUME Settled, PlaceInv, VarsInv, NEW s \in Sessions, Command(s)
    PROVE  VarsInv'
<1>1. ASSUME NEW k \in Statements, NEW d, Begin(s, k, d) PROVE VarsInv'
  BY <1>1, VarsBeginAttached, VarsBeginAcquires, VarsBeginFails, VarsBeginRefused DEF Begin
<1>2. ASSUME NEW k \in Statements \ {"use", "init db", "prepare"}, Begin(s, k, None)
      PROVE  VarsInv'
  BY <1>1, <1>2
<1>3. ASSUME NEW k \in Statements \cap {"use", "init db"}, NEW d \in Databases, Begin(s, k, d)
      PROVE  VarsInv'
  BY <1>1, <1>3
<1>4. "prepare" \notin Statements
  BY DEF Settled
<1> QED
  BY <1>2, <1>3, <1>4, VarsSelects, VarsNoHandles, VarsEnds DEF Command

\* All steps.
LEMMA VarsStep == Settled /\ PlaceInv /\ VarsInv /\ [Next]_vars => VarsInv'
<1> SUFFICES ASSUME Settled, PlaceInv, VarsInv, [Next]_vars PROVE VarsInv'
  OBVIOUS
<1>1. ASSUME NEW s \in Sessions, Outcome(s) PROVE VarsInv'
  BY <1>1, VarsSucceeds, VarsFails, VarsLoses DEF Outcome
<1>2. ASSUME NEW s \in Sessions, PingerDrops(s) PROVE VarsInv'
  BY <1>2, VarsLoses
<1> QED
  BY <1>1, <1>2, VarsCommand, VarsOthers DEF Next

\* A statement runs under the variables its own session has set, whichever
\* connection it runs on and whoever had it before (session.go, prepareConn
\* and trackSet).
THEOREM VariablesAreOwn == Settled => (Spec => []OwnVariables)
<1>1. ASSUME Settled PROVE PlaceInv /\ VarsInv /\ [Next]_vars => PlaceInv' /\ VarsInv'
  BY <1>1, PlaceStep, VarsStep
<1>2. ASSUME Settled PROVE Spec => []OwnVariables
  <2>1. PlaceInv /\ VarsInv /\ [Next]_vars => PlaceInv' /\ VarsInv'
    BY <1>1, <1>2
  <2>2. PlaceInv /\ VarsInv => OwnVariables
    BY VarsProperty
  <2> QED
    BY PlaceInit, VarsInit, <2>1, <2>2, PTL DEF Spec
<1> QED
  BY <1>2
=============================================================================
