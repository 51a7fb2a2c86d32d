----------------------------- MODULE CacheProofs ----------------------------
(***************************************************************************)
(* What holds of the query cache for any sessions and any settings: its    *)
(* type invariant, and that one session at a time runs a cacheable query   *)
(* while the others wait for it.                                           *)
(***************************************************************************)
EXTENDS Cache, TLAPS

-----------------------------------------------------------------------------
(* The invariant *)

Fetching == {"miss", "lead", "wait", "alone", "read", "done", "store"}
Labels == Fetching \cup {"rows", "idle", "list", "count", "observe", "trigger", "kick"}

\* The fields of a session.
Fields == {"pc", "arg", "val", "late", "todo", "inTx", "dirty", "txWrites",
           "overflow", "unsafe", "calcPending", "known", "calc"}
SessionShape(x) == x = [f \in Fields |-> x[f]]

\* A session by itself: it has writes to invalidate while it does so and at no
\* other time, the key of what it fetches, and an answer when it stores one.
SessionOK(x) ==
    /\ SessionShape(x)
    /\ x.pc \in Labels
    /\ x.pc = "observe" => x.todo # <<>>
    /\ x.pc \notin {"observe", "trigger", "kick"} => x.todo = <<>>
    /\ x.txWrites \in Seq(Writes) /\ Len(x.txWrites) <= MaxTrackedTxWrites
    /\ x.pc \in {"store", "rows"} => x.val # None
    /\ x.pc \in Fetching => x.arg \in Keys

SessionsOK ==
    /\ sess = [s \in Sessions |-> sess[s]]
    /\ \A s \in Sessions : SessionOK(sess[s])

\* The sessions and the calls in flight: a leader is in the table, what is in
\* the table is a leader, and whoever waits has one that has yet to publish.
Leading == {"lead", "read", "done"}
Flight ==
    /\ inflight \in [Keys -> Sessions \cup {None}]
    /\ \A s \in Sessions : sess[s].pc \in Leading => inflight[sess[s].arg] = s
    /\ \A k \in Keys : inflight[k] # None =>
          sess[inflight[k]].pc \in Leading /\ sess[inflight[k]].arg = k
    /\ \A s \in Sessions : sess[s].pc = "wait" =>
          inflight[sess[s].arg] # None /\ sess[inflight[sess[s].arg]].pc # "done"

\* The rest of the state.
WarmerOK ==
    /\ warmer = [f \in {"pc", "val", "late", "pending", "kick"} |-> warmer[f]]
    /\ warmer.pc \in {"sleep", "debounce", "fetch", "warm"}

AdminOK ==
    /\ admin = [f \in {"pc", "had", "reloads"} |-> admin[f]]
    /\ admin.pc \in {"idle", "bind", "flush", "trigger", "kick", "config"}

RestOK ==
    /\ ver \in [Objects -> 0..MaxVersion]
    /\ WarmerOK /\ AdminOK
    /\ conf \in Confs

CacheInv == SessionsOK /\ Flight /\ RestOK

\* The invariant gives the type invariant of the runs ...
LEMMA InvTypeOK == CacheInv => TypeOK
<1> SUFFICES ASSUME CacheInv PROVE TypeOK
  OBVIOUS
<1>1. ASSUME NEW s \in Sessions
      PROVE  /\ sess[s].pc \in Filling \cup {"idle", "miss", "lead", "wait", "alone", "list",
                                         "count", "observe", "trigger", "kick"}
             /\ sess[s].pc = "observe" <=> sess[s].todo # <<>> /\ sess[s].pc \notin {"trigger", "kick"}
             /\ Len(sess[s].txWrites) <= MaxTrackedTxWrites
             /\ sess[s].pc \in Filling \ {"read", "done"} => sess[s].val # None
  BY DEF CacheInv, SessionsOK, SessionOK, Labels, Fetching, Filling
<1> QED
  BY <1>1 DEF CacheInv, Flight, RestOK, WarmerOK, AdminOK, TypeOK

\* ... and that there is one leader.
LEMMA InvSingleFlight == CacheInv => SingleFlight
<1> SUFFICES ASSUME CacheInv, NEW s \in Sessions
             PROVE  /\ sess[s].pc \in Leading => inflight[sess[s].arg] = s
                    /\ sess[s].pc = "wait" =>
                          /\ inflight[sess[s].arg] # None
                          /\ sess[inflight[sess[s].arg]].pc \in {"lead", "read"}
                          /\ sess[inflight[sess[s].arg]].arg = sess[s].arg
  BY DEF SingleFlight, Leading
<1>1. sess[s].pc = "wait" => sess[s].arg \in Keys
  BY DEF CacheInv, SessionsOK, SessionOK, Fetching
<1> QED
  BY <1>1 DEF CacheInv, Flight, Leading

-----------------------------------------------------------------------------
(* The updates of a session *)

\* A statement breaks a pending listing, whatever else it does.
LEMMA BrokenOK ==
    ASSUME NEW x, SessionOK(x)
    PROVE  /\ SessionOK(Broken(x)) /\ Broken(x).pc = x.pc
           /\ Broken(x).todo = x.todo /\ Broken(x).txWrites = x.txWrites
<1> DEFINE y == Broken(x)
<1>1. SessionShape(x)
  BY DEF SessionOK
<1>2. SessionShape(y)
  BY <1>1 DEF SessionShape, Broken
<1>3. /\ y.pc = x.pc /\ y.arg = x.arg /\ y.val = x.val
      /\ y.todo = x.todo /\ y.txWrites = x.txWrites
  BY <1>1 DEF SessionShape, Fields, Broken
<1>4. SessionOK(y)
  <2> HIDE DEF y
  <2> QED
    BY <1>2, <1>3 DEF SessionOK, Labels, Fetching
<1> QED
  BY <1>3, <1>4

\* A session that has nothing left to invalidate may end what it is doing.
LEMMA IdleOK ==
    ASSUME NEW x, SessionOK(x), x.todo = <<>>
    PROVE  SessionOK(Idle(x)) /\ Idle(x).pc = "idle"
<1> DEFINE y == Idle(x)
<1>1. SessionShape(x)
  BY DEF SessionOK
<1>2. SessionShape(y)
  BY <1>1 DEF SessionShape, Idle
<1>3. /\ y.pc = "idle" /\ y.arg = None /\ y.val = None
      /\ y.todo = x.todo /\ y.txWrites = x.txWrites
  BY <1>1 DEF SessionShape, Fields, Idle
<1>4. SessionOK(y)
  <2> HIDE DEF y
  <2> QED
    BY <1>2, <1>3 DEF SessionOK, Labels, Fetching
<1> QED
  BY <1>3, <1>4

\* It goes to a label whose conditions it meets.
LEMMA GotoOK ==
    ASSUME NEW x, SessionOK(x), x.todo = <<>>,
           NEW l \in Labels \ {"observe", "trigger", "kick"},
           l \in {"store", "rows"} => x.val # None, l \in Fetching => x.arg \in Keys
    PROVE  SessionOK([x EXCEPT !.pc = l]) /\ [x EXCEPT !.pc = l].pc = l /\ [x EXCEPT !.pc = l].arg = x.arg
<1> DEFINE y == [x EXCEPT !.pc = l]
<1>1. SessionShape(x)
  BY DEF SessionOK
<1>2. SessionShape(y)
  BY <1>1 DEF SessionShape
<1>3. /\ y.pc = l /\ y.arg = x.arg /\ y.val = x.val
      /\ y.todo = x.todo /\ y.txWrites = x.txWrites
  BY <1>1 DEF SessionShape, Fields
<1>4. SessionOK(y)
  <2> HIDE DEF y
  <2> QED
    BY <1>2, <1>3 DEF SessionOK, Labels, Fetching
<1> QED
  BY <1>3, <1>4

\* It starts to fetch a query, or runs a listing.
Fetches(x, l, q) == [x EXCEPT !.pc = l, !.arg = q]

\* The update keeps what has to hold of a session.
LEMMA FetchesOK ==
    ASSUME NEW x, SessionOK(x), x.todo = <<>>, NEW q \in Keys,
           NEW l \in Labels \ {"observe", "trigger", "kick", "store", "rows"}
    PROVE  SessionOK(Fetches(x, l, q)) /\ Fetches(x, l, q).pc = l
<1> DEFINE y == Fetches(x, l, q)
<1>1. SessionShape(x)
  BY DEF SessionOK
<1>2. SessionShape(y)
  BY <1>1 DEF SessionShape, Fetches
<1>3. y.pc = l /\ y.arg = q /\ y.todo = x.todo /\ y.txWrites = x.txWrites
  BY <1>1 DEF SessionShape, Fields, Fetches
<1>4. SessionOK(y)
  <2> HIDE DEF y
  <2> QED
    BY <1>2, <1>3 DEF SessionOK, Labels, Fetching
<1> QED
  BY <1>3, <1>4

\* A leader has its answer or an error.
Reads(x, v) == [x EXCEPT !.pc = "read", !.val = v]

\* A leader with an answer still leads, for the same key.
LEMMA ReadsOK ==
    ASSUME NEW x, SessionOK(x), x.pc = "lead", NEW v
    PROVE  /\ SessionOK(Reads(x, v))
           /\ Reads(x, v).pc = "read" /\ Reads(x, v).arg = x.arg
<1> DEFINE y == Reads(x, v)
<1>1. SessionShape(x)
  BY DEF SessionOK
<1>2. SessionShape(y)
  BY <1>1 DEF SessionShape, Reads
<1>3. /\ y.pc = "read" /\ y.arg = x.arg /\ y.val = v
      /\ y.todo = x.todo /\ y.txWrites = x.txWrites
  BY <1>1 DEF SessionShape, Fields, Reads
<1>4. SessionOK(y)
  <2> HIDE DEF y
  <2> QED
    BY <1>2, <1>3 DEF SessionOK, Labels, Fetching
<1> QED
  BY <1>3, <1>4

\* The rows of a listing are there.
Rows(x, v) == [x EXCEPT !.pc = "rows", !.val = v, !.calc = v]

\* A listing with its rows has something to store.
LEMMA RowsOK ==
    ASSUME NEW x, SessionOK(x), x.pc = "list", NEW v, v # None
    PROVE  /\ SessionOK(Rows(x, v))
           /\ Rows(x, v).pc = "rows"
<1> DEFINE y == Rows(x, v)
<1>1. SessionShape(x)
  BY DEF SessionOK
<1>2. SessionShape(y)
  BY <1>1 DEF SessionShape, Rows
<1>3. /\ y.pc = "rows" /\ y.arg = x.arg /\ y.val = v
      /\ y.todo = x.todo /\ y.txWrites = x.txWrites
  BY <1>1 DEF SessionShape, Fields, Rows
<1>4. SessionOK(y)
  <2> HIDE DEF y
  <2> QED
    BY <1>2, <1>3 DEF SessionOK, Labels, Fetching
<1> QED
  BY <1>3, <1>4

\* What a session keeps of a listing does not matter to the rest.
LEMMA KnownOK ==
    ASSUME NEW x, SessionOK(x), NEW v
    PROVE  SessionOK([x EXCEPT !.known = v]) /\ [x EXCEPT !.known = v].pc = x.pc
<1> DEFINE y == [x EXCEPT !.known = v]
<1>1. SessionShape(x)
  BY DEF SessionOK
<1>2. SessionShape(y)
  BY <1>1 DEF SessionShape
<1>3. /\ y.pc = x.pc /\ y.arg = x.arg /\ y.val = x.val
      /\ y.todo = x.todo /\ y.txWrites = x.txWrites
  BY <1>1 DEF SessionShape, Fields
<1>4. SessionOK(y)
  <2> HIDE DEF y
  <2> QED
    BY <1>2, <1>3 DEF SessionOK, Labels, Fetching
<1> QED
  BY <1>3, <1>4

\* Nor does the counter of its connection,
LEMMA CalcOK ==
    ASSUME NEW x, SessionOK(x), NEW v
    PROVE  SessionOK([x EXCEPT !.calc = v]) /\ [x EXCEPT !.calc = v].pc = x.pc
<1> DEFINE y == [x EXCEPT !.calc = v]
<1>1. SessionShape(x)
  BY DEF SessionOK
<1>2. SessionShape(y)
  BY <1>1 DEF SessionShape
<1>3. /\ y.pc = x.pc /\ y.arg = x.arg /\ y.val = x.val
      /\ y.todo = x.todo /\ y.txWrites = x.txWrites
  BY <1>1 DEF SessionShape, Fields
<1>4. SessionOK(y)
  <2> HIDE DEF y
  <2> QED
    BY <1>2, <1>3 DEF SessionOK, Labels, Fetching
<1> QED
  BY <1>3, <1>4

Pending(x) == [x EXCEPT !.calcPending = TRUE, !.known = None]

\* nor that it waits for the count.
LEMMA PendingOK ==
    ASSUME NEW x, SessionOK(x)
    PROVE  /\ SessionOK(Pending(x))
           /\ Pending(x).pc = x.pc
<1> DEFINE y == Pending(x)
<1>1. SessionShape(x)
  BY DEF SessionOK
<1>2. SessionShape(y)
  BY <1>1 DEF SessionShape, Pending
<1>3. /\ y.pc = x.pc /\ y.arg = x.arg /\ y.val = x.val
      /\ y.todo = x.todo /\ y.txWrites = x.txWrites
  BY <1>1 DEF SessionShape, Fields, Pending
<1>4. SessionOK(y)
  <2> HIDE DEF y
  <2> QED
    BY <1>2, <1>3 DEF SessionOK, Labels, Fetching
<1> QED
  BY <1>3, <1>4

\* Marking an answer as overtaken changes nothing else.
LEMMA LateOK ==
    ASSUME NEW x, SessionOK(x)
    PROVE  /\ SessionOK([x EXCEPT !.late = TRUE]) /\ [x EXCEPT !.late = TRUE].pc = x.pc
           /\ [x EXCEPT !.late = TRUE].arg = x.arg /\ [x EXCEPT !.late = TRUE].todo = x.todo
<1> DEFINE y == [x EXCEPT !.late = TRUE]
<1>1. SessionShape(x)
  BY DEF SessionOK
<1>2. SessionShape(y)
  BY <1>1 DEF SessionShape
<1>3. /\ y.pc = x.pc /\ y.arg = x.arg /\ y.val = x.val
      /\ y.todo = x.todo /\ y.txWrites = x.txWrites
  BY <1>1 DEF SessionShape, Fields
<1>4. SessionOK(y)
  <2> HIDE DEF y
  <2> QED
    BY <1>2, <1>3 DEF SessionOK, Labels, Fetching
<1> QED
  BY <1>3, <1>4

-----------------------------------------------------------------------------
(* Steps that no call in flight is part of *)

\* Sessions that differ from the present ones in neither label nor key.
Like(g) ==
    /\ g = [s \in Sessions |-> g[s]]
    /\ \A s \in Sessions : SessionOK(g[s]) /\ g[s].pc = sess[s].pc /\ g[s].arg = sess[s].arg

\* The present sessions are like themselves.
LEMMA LikeSelf == CacheInv => Like(sess)
  BY DEF CacheInv, SessionsOK, Like

\* So are the present ones with some answers marked as overtaken.
LEMMA LikeOvertaken ==
    ASSUME CacheInv, NEW T
    PROVE  Like(Overtaken(T)) /\ \A s \in Sessions : Overtaken(T)[s].todo = sess[s].todo
  BY LateOK DEF CacheInv, SessionsOK, Like, Overtaken

\* They keep the calls in flight, ...
LEMMA LikeKeeps ==
    ASSUME CacheInv, NEW g, Like(g), sess' = g, inflight' = inflight
    PROVE  SessionsOK' /\ Flight'
<1>1. SessionsOK'
  BY DEF Like, SessionsOK
<1>2. \A s \in Sessions : sess'[s].pc = sess[s].pc /\ sess'[s].arg = sess[s].arg
  BY DEF Like
<1>3. \A k \in Keys : inflight[k] # None => inflight[k] \in Sessions
  BY DEF CacheInv, Flight
<1>4. \A s \in Sessions : sess[s].pc \in Leading \cup {"wait"} => sess[s].arg \in Keys
  BY DEF CacheInv, SessionsOK, SessionOK, Leading, Fetching
<1> QED
  BY <1>1, <1>2, <1>3, <1>4 DEF CacheInv, Flight

\* ... and so does a session that leads no call and waits for none, before
\* and after the step.
Aloof == Labels \ {"lead", "read", "done", "wait"}

\* Its update disturbs neither a leader nor whoever waits for one.
LEMMA AloofKeeps ==
    ASSUME CacheInv, NEW g, Like(g), NEW s \in Sessions, NEW x, SessionOK(x),
           sess' = [g EXCEPT ![s] = x], inflight' = inflight,
           sess[s].pc \in Aloof, x.pc \in Aloof
    PROVE  SessionsOK' /\ Flight'
<1>1. /\ sess'[s] = x
      /\ \A t \in Sessions \ {s} : sess'[t] = g[t]
      /\ sess' = [t \in Sessions |-> sess'[t]]
  BY DEF Like
<1>2. SessionsOK'
  BY <1>1 DEF SessionsOK, Like
<1>3. \A t \in Sessions \ {s} : sess'[t].pc = sess[t].pc /\ sess'[t].arg = sess[t].arg
  BY <1>1 DEF Like
<1>4. \A k \in Keys : inflight[k] # None => inflight[k] \in Sessions \ {s}
  BY DEF CacheInv, Flight, Leading, Aloof
<1>5. \A t \in Sessions : sess[t].pc \in Leading \cup {"wait"} => sess[t].arg \in Keys
  BY DEF CacheInv, SessionsOK, SessionOK, Leading, Fetching
<1>6. \A t \in Sessions : sess'[t].pc \in Leading \cup {"wait"} => t # s
  BY <1>1 DEF Leading, Aloof
<1> QED
  BY <1>2, <1>3, <1>4, <1>5, <1>6 DEF CacheInv, Flight

-----------------------------------------------------------------------------
(* What a client asks for *)

\* A session between two statements has nothing to invalidate.
LEMMA StartsFacts ==
    ASSUME CacheInv, NEW s \in Sessions, sess[s].pc = "idle"
    PROVE  /\ SessionOK(sess[s]) /\ sess[s].todo = <<>>
           /\ SessionOK(Broken(sess[s])) /\ Broken(sess[s]).todo = <<>>
           /\ Broken(sess[s]).pc = "idle" /\ sess[s].pc \in Aloof
           /\ Broken(sess[s]).txWrites = sess[s].txWrites
<1>1. SessionOK(sess[s])
  BY DEF CacheInv, SessionsOK
<1>2. sess[s].todo = <<>> /\ sess[s].pc \in Aloof
  BY <1>1 DEF SessionOK, Aloof, Labels, Fetching
<1> QED
  BY <1>1, <1>2, BrokenOK

\* Reads and counts.
LEMMA ReadsKeep ==
    ASSUME CacheInv, NEW s \in Sessions, NEW q \in Keys,
           \/ ReadAlone(s, q) \/ LookupHit(s, q) \/ LookupMiss(s, q)
           \/ ListingHit(s) \/ ListingMiss(s) \/ CountKnown(s) \/ CountAsked(s)
    PROVE  SessionsOK' /\ Flight'
<1> DEFINE x == sess[s]
<1>1. x.pc = "idle" /\ UNCHANGED inflight
  BY DEF ReadAlone, LookupHit, LookupMiss, Looks, Starts, ListingHit, ListingMiss,
         CountKnown, CountAsked
<1>2. /\ SessionOK(x) /\ x.todo = <<>> /\ x.pc \in Aloof
      /\ SessionOK(Broken(x)) /\ Broken(x).todo = <<>> /\ Broken(x).pc = "idle"
  BY <1>1, StartsFacts
<1>3. \E y : SessionOK(y) /\ y.pc \in Aloof /\ sess' = [sess EXCEPT ![s] = y]
  <2>1. CASE ReadAlone(s, q)
    <3> DEFINE y == Fetches(Broken(x), "alone", q)
    <3>1. "alone" \in Labels \ {"observe", "trigger", "kick", "store", "rows"}
      BY DEF Labels, Fetching
    <3>2. SessionOK(y) /\ y.pc = "alone"
      BY <1>2, <3>1, FetchesOK
    <3>3. sess' = [sess EXCEPT ![s] = y]
      BY <2>1 DEF ReadAlone, Fetches
    <3> HIDE DEF y
    <3> QED
      BY <3>2, <3>3 DEF Aloof, Labels, Fetching
  <2>2. CASE LookupHit(s, q) \/ CountKnown(s)
    <3>1. sess' = [sess EXCEPT ![s] = Broken(x)]
      BY <2>2 DEF LookupHit, CountKnown
    <3> QED
      BY <1>2, <3>1 DEF Aloof, Labels, Fetching
  <2>3. CASE LookupMiss(s, q)
    <3> DEFINE y == Fetches(Broken(x), "miss", q)
    <3>1. "miss" \in Labels \ {"observe", "trigger", "kick", "store", "rows"}
      BY DEF Labels, Fetching
    <3>2. SessionOK(y) /\ y.pc = "miss"
      BY <1>2, <3>1, FetchesOK
    <3>3. sess' = [sess EXCEPT ![s] = y]
      BY <2>3 DEF LookupMiss, Fetches
    <3> HIDE DEF y
    <3> QED
      BY <3>2, <3>3 DEF Aloof, Labels, Fetching
  <2>4. CASE ListingHit(s)
    <3> DEFINE y == [Broken(x) EXCEPT !.known = mem.entries["listing"].count]
    <3>1. SessionOK(y) /\ y.pc = "idle"
      BY <1>2, KnownOK
    <3>2. sess' = [sess EXCEPT ![s] = y]
      BY <2>4 DEF ListingHit
    <3> HIDE DEF y
    <3> QED
      BY <3>1, <3>2 DEF Aloof, Labels, Fetching
  <2>5. CASE ListingMiss(s)
    <3> DEFINE y == Fetches(x, "list", "listing")
    <3>1. "list" \in Labels \ {"observe", "trigger", "kick", "store", "rows"}
      BY DEF Labels, Fetching
    <3>2. SessionOK(y) /\ y.pc = "list"
      BY <1>2, <3>1, FetchesOK DEF Keys
    <3>3. sess' = [sess EXCEPT ![s] = y]
      BY <2>5 DEF ListingMiss, Fetches, CacheInv, SessionsOK
    <3> HIDE DEF y
    <3> QED
      BY <3>2, <3>3 DEF Aloof, Labels, Fetching
  <2>6. CASE CountAsked(s)
    <3> DEFINE y == [x EXCEPT !.pc = "count"]
    <3>1. SessionOK(y) /\ y.pc = "count"
      BY <1>2, GotoOK DEF Labels, Fetching
    <3>2. sess' = [sess EXCEPT ![s] = y]
      BY <2>6 DEF CountAsked
    <3> HIDE DEF y
    <3> QED
      BY <3>1, <3>2 DEF Aloof, Labels, Fetching
  <2> QED
    BY <2>1, <2>2, <2>3, <2>4, <2>5, <2>6
<1> QED
  BY <1>1, <1>2, <1>3, LikeSelf, AloofKeeps

-----------------------------------------------------------------------------
(* Writes and transactions *)

\* What is remembered of the writes of a transaction has the maximal length.
Tracked(x) == x.txWrites \in Seq(Writes) /\ Len(x.txWrites) <= MaxTrackedTxWrites

\* A session with writes to invalidate ...
Observes(x, todo) == [x EXCEPT !.pc = "observe", !.todo = todo]

\* is as it has to be,
LEMMA ObservesOK ==
    ASSUME NEW x, SessionShape(x), Tracked(x), NEW todo, todo # <<>>
    PROVE  SessionOK(Observes(x, todo)) /\ Observes(x, todo).pc \in Aloof
<1> DEFINE y == Observes(x, todo)
<1>1. SessionShape(y)
  BY DEF SessionShape, Observes
<1>2. y.pc = "observe" /\ y.todo = todo /\ y.txWrites = x.txWrites
  BY DEF SessionShape, Fields, Observes
<1>3. SessionOK(y) /\ y.pc \in Aloof
  <2> HIDE DEF y
  <2> QED
    BY <1>1, <1>2 DEF SessionOK, Tracked, Labels, Fetching, Aloof
<1> QED
  BY <1>3

\* ... takes the next one, asks for a fetch, or is done.
LEMMA ProceedsOK ==
    ASSUME NEW x, SessionShape(x), Tracked(x), NEW refetch
    PROVE  SessionOK(Proceeds(x, refetch)) /\ Proceeds(x, refetch).pc \in Aloof
<1>1. CASE refetch
  <2> DEFINE y == [x EXCEPT !.pc = "trigger"]
  <2>1. SessionShape(y)
    BY DEF SessionShape
  <2>2. y.pc = "trigger" /\ y.todo = x.todo /\ y.txWrites = x.txWrites
    BY DEF SessionShape, Fields
  <2>3. SessionOK(y) /\ y.pc \in Aloof
    <3> HIDE DEF y
    <3> QED
      BY <2>1, <2>2 DEF SessionOK, Tracked, Labels, Fetching, Aloof
  <2>4. Proceeds(x, refetch) = y
    BY <1>1 DEF Proceeds
  <2> QED
    BY <2>3, <2>4
<1>2. CASE ~refetch /\ x.todo = <<>>
  <2> DEFINE y == Idle(x)
  <2>1. SessionShape(y)
    BY DEF SessionShape, Idle
  <2>2. y.pc = "idle" /\ y.todo = x.todo /\ y.txWrites = x.txWrites
    BY DEF SessionShape, Fields, Idle
  <2>3. SessionOK(y) /\ y.pc \in Aloof
    <3> HIDE DEF y
    <3> QED
      BY <1>2, <2>1, <2>2 DEF SessionOK, Tracked, Labels, Fetching, Aloof
  <2>4. Proceeds(x, refetch) = y
    BY <1>2 DEF Proceeds
  <2> QED
    BY <2>3, <2>4
<1>3. CASE ~refetch /\ x.todo # <<>>
  <2> DEFINE y == [x EXCEPT !.pc = "observe"]
  <2>1. SessionShape(y)
    BY DEF SessionShape
  <2>2. y.pc = "observe" /\ y.todo = x.todo /\ y.txWrites = x.txWrites
    BY DEF SessionShape, Fields
  <2>3. SessionOK(y) /\ y.pc \in Aloof
    <3> HIDE DEF y
    <3> QED
      BY <1>3, <2>1, <2>2 DEF SessionOK, Tracked, Labels, Fetching, Aloof
  <2>4. Proceeds(x, refetch) = y
    BY <1>3 DEF Proceeds
  <2> QED
    BY <2>3, <2>4
<1> QED
  BY <1>1, <1>2, <1>3

\* A write in a transaction is remembered while there is room for it.
Remembers(x, w) ==
    LET full == Len(x.txWrites) >= MaxTrackedTxWrites IN
    [Broken(x) EXCEPT
        !.dirty    = IF x.inTx THEN @ \cup Touches(w) ELSE @,
        !.overflow = @ \/ (~x.unsafe /\ x.inTx /\ full),
        !.txWrites = IF ~x.unsafe /\ x.inTx /\ ~full THEN Append(@, w) ELSE @]

\* What is remembered stays within the limit.
LEMMA RemembersOK ==
    ASSUME NEW x, SessionOK(x), x.pc = "idle", NEW w \in Writes
    PROVE  /\ SessionOK(Remembers(x, w)) /\ SessionShape(Remembers(x, w))
           /\ Remembers(x, w).pc = "idle" /\ Tracked(Remembers(x, w))
<1> DEFINE full == Len(x.txWrites) >= MaxTrackedTxWrites
           b == Broken(x)
           y == Remembers(x, w)
           tracked == IF ~x.unsafe /\ x.inTx /\ ~full THEN Append(x.txWrites, w)
                                                      ELSE x.txWrites
<1>1. /\ SessionOK(b) /\ SessionShape(b) /\ b.pc = "idle"
      /\ b.todo = x.todo /\ b.txWrites = x.txWrites /\ x.todo = <<>>
  BY BrokenOK DEF SessionOK
<1>2. SessionShape(y)
  <2>1. \E d, o, t : y = [b EXCEPT !.dirty = d, !.overflow = o, !.txWrites = t]
    BY DEF Remembers
  <2> QED
    BY <1>1, <2>1 DEF SessionShape
<1>3. y.pc = "idle" /\ y.todo = <<>> /\ y.txWrites = tracked
  <2>1. /\ DOMAIN b = Fields
        /\ "pc" \in Fields /\ "todo" \in Fields /\ "txWrites" \in Fields
    BY <1>1 DEF SessionShape, Fields
  <2>2. PICK d, o : y = [b EXCEPT !.dirty = d, !.overflow = o, !.txWrites = tracked]
    BY <1>1 DEF Remembers
  <2> HIDE DEF y, b, tracked
  <2> QED
    BY <1>1, <2>1, <2>2
<1>4. tracked \in Seq(Writes) /\ Len(tracked) <= MaxTrackedTxWrites
  <2>1. x.txWrites \in Seq(Writes) /\ Len(x.txWrites) <= MaxTrackedTxWrites
    BY DEF SessionOK
  <2>2. MaxTrackedTxWrites \in Nat
    BY BoundsAssumption
  <2>3. CASE tracked = x.txWrites
    BY <2>1, <2>3
  <2>4. CASE ~full /\ tracked = Append(x.txWrites, w)
    BY <2>1, <2>2, <2>4
  <2> QED
    BY <2>3, <2>4
<1>5. SessionOK(y) /\ Tracked(y)
  <2> HIDE DEF y, tracked
  <2> QED
    BY <1>2, <1>3, <1>4 DEF SessionOK, Tracked, Labels, Fetching
<1> QED
  BY <1>2, <1>3, <1>5

\* Writes: what follows is an invalidation, unless the cache is off.
LEMMA WriteKeeps ==
    ASSUME CacheInv, NEW s \in Sessions, NEW w \in Writes, Write(s, w)
    PROVE  SessionsOK' /\ Flight'
<1> DEFINE x == sess[s]
           y == Remembers(x, w)
           z == IF x.unsafe THEN y ELSE Observes(y, <<w>>)
<1>1. x.pc = "idle" /\ UNCHANGED inflight
  BY DEF Write, Starts
<1>2. SessionOK(x) /\ x.pc \in Aloof
  BY <1>1, StartsFacts
<1>3. SessionOK(y) /\ SessionShape(y) /\ y.pc = "idle" /\ Tracked(y)
  BY <1>1, <1>2, RemembersOK
<1>4. SessionOK(z) /\ z.pc \in Aloof
  <2>1. <<w>> # <<>>
    OBVIOUS
  <2> HIDE DEF y
  <2>2. CASE x.unsafe
    BY <1>3, <2>2 DEF Aloof, Labels, Fetching
  <2>3. CASE ~x.unsafe
    BY <1>3, <2>1, <2>3, ObservesOK
  <2> QED
    BY <2>2, <2>3
<1>5. sess' = [sess EXCEPT ![s] = z]
  BY DEF Write, Remembers, Observes
<1> HIDE DEF z
<1> QED
  BY <1>1, <1>2, <1>4, <1>5, LikeSelf, AloofKeeps

\* The end of a transaction forgets what was remembered of it.
Ended(x) == [x EXCEPT !.inTx = FALSE, !.dirty = {}, !.txWrites = <<>>,
                      !.overflow = FALSE]

\* A session that has ended its transaction remembers nothing.
LEMMA EndedOK ==
    ASSUME NEW x, SessionOK(x)
    PROVE  /\ SessionOK(Ended(x)) /\ SessionShape(Ended(x)) /\ Tracked(Ended(x))
           /\ Ended(x).pc = x.pc
<1> DEFINE y == Ended(x)
<1>1. SessionShape(x)
  BY DEF SessionOK
<1>2. SessionShape(y)
  BY <1>1 DEF SessionShape, Ended
<1>3. /\ y.pc = x.pc /\ y.todo = x.todo /\ y.txWrites = <<>>
      /\ y.val = x.val /\ y.arg = x.arg
  BY <1>1 DEF SessionShape, Fields, Ended
<1>4. <<>> \in Seq(Writes) /\ Len(<<>>) <= MaxTrackedTxWrites
  BY BoundsAssumption
<1>5. SessionOK(y) /\ Tracked(y)
  <2> HIDE DEF y
  <2> QED
    BY <1>2, <1>3, <1>4 DEF SessionOK, Tracked
<1> QED
  BY <1>2, <1>3, <1>5

\* The transaction's own fields do not matter to the rest.
LEMMA ControlFieldsOK ==
    ASSUME NEW x, SessionOK(x), NEW u, NEW v
    PROVE  /\ SessionOK([x EXCEPT !.inTx = u]) /\ [x EXCEPT !.inTx = u].pc = x.pc
           /\ SessionOK([x EXCEPT !.dirty = u]) /\ [x EXCEPT !.dirty = u].pc = x.pc
<1>1. SessionShape(x)
  BY DEF SessionOK
<1>2. SessionOK([x EXCEPT !.inTx = u]) /\ [x EXCEPT !.inTx = u].pc = x.pc
  <2> DEFINE y == [x EXCEPT !.inTx = u]
  <2>1. SessionShape(y)
    BY <1>1 DEF SessionShape
  <2>2. /\ y.pc = x.pc /\ y.arg = x.arg /\ y.val = x.val
        /\ y.todo = x.todo /\ y.txWrites = x.txWrites
    BY <1>1 DEF SessionShape, Fields
  <2>3. SessionOK(y)
    <3> HIDE DEF y
    <3> QED
      BY <2>1, <2>2 DEF SessionOK
  <2> QED
    BY <2>2, <2>3
<1>3. SessionOK([x EXCEPT !.dirty = u]) /\ [x EXCEPT !.dirty = u].pc = x.pc
  <2> DEFINE y == [x EXCEPT !.dirty = u]
  <2>1. SessionShape(y)
    BY <1>1 DEF SessionShape
  <2>2. /\ y.pc = x.pc /\ y.arg = x.arg /\ y.val = x.val
        /\ y.todo = x.todo /\ y.txWrites = x.txWrites
    BY <1>1 DEF SessionShape, Fields
  <2>3. SessionOK(y)
    <3> HIDE DEF y
    <3> QED
      BY <2>1, <2>2 DEF SessionOK
  <2> QED
    BY <2>2, <2>3
<1> QED
  BY <1>2, <1>3

\* autocommit = 0 turns the cache off.
Unsafe(x) == [x EXCEPT !.inTx = TRUE, !.unsafe = TRUE]

\* Nothing else of the session changes by it.
LEMMA UnsafeOK ==
    ASSUME NEW x, SessionOK(x)
    PROVE  SessionOK(Unsafe(x)) /\ Unsafe(x).pc = x.pc
<1> DEFINE y == Unsafe(x)
<1>1. SessionShape(x)
  BY DEF SessionOK
<1>2. SessionShape(y)
  BY <1>1 DEF SessionShape, Unsafe
<1>3. /\ y.pc = x.pc /\ y.arg = x.arg /\ y.val = x.val
      /\ y.todo = x.todo /\ y.txWrites = x.txWrites
  BY <1>1 DEF SessionShape, Fields, Unsafe
<1>4. SessionOK(y)
  <2> HIDE DEF y
  <2> QED
    BY <1>2, <1>3 DEF SessionOK
<1> QED
  BY <1>3, <1>4

\* The statements that open and close a transaction: a commit has something
\* to invalidate again, or is done.
LEMMA ControlKeeps ==
    ASSUME CacheInv, NEW s \in Sessions, NEW k, Control(s, k)
    PROVE  SessionsOK' /\ Flight'
<1> DEFINE x == Broken(sess[s])
           y == CASE k = "begin"          -> [x EXCEPT !.inTx = TRUE]
                  [] k = "restart"        -> [x EXCEPT !.dirty = {}]
                  [] k = "autocommit off" -> Unsafe(x)
                  [] k = "rollback" \/ (k = "commit" /\ Replay(x) = <<>>)
                                          -> [Ended(x) EXCEPT !.inTx = x.unsafe]
                  [] OTHER -> Observes(Ended(x), Replay(x))
<1>1. sess[s].pc = "idle" /\ UNCHANGED inflight
  BY DEF Control, Starts
<1>2. SessionOK(x) /\ x.pc = "idle" /\ sess[s].pc \in Aloof
  BY <1>1, StartsFacts
<1>3. sess' = [sess EXCEPT ![s] = y]
  BY DEF Control, Ended, Observes, Unsafe
<1>4. SessionOK(Ended(x)) /\ SessionShape(Ended(x)) /\ Tracked(Ended(x)) /\ Ended(x).pc = "idle"
  BY <1>2, EndedOK
<1>5. SessionOK(y) /\ y.pc \in Aloof
  <2> DEFINE e == Ended(x)
             r == Replay(x)
             u == x.unsafe
  <2>0. "idle" \in Aloof
    BY DEF Aloof, Labels, Fetching
  <2>1. /\ SessionOK([x EXCEPT !.inTx = TRUE]) /\ [x EXCEPT !.inTx = TRUE].pc = "idle"
        /\ SessionOK([x EXCEPT !.dirty = {}]) /\ [x EXCEPT !.dirty = {}].pc = "idle"
    <3> HIDE DEF x
    <3> QED
      BY <1>2, ControlFieldsOK
  <2>2. SessionOK([e EXCEPT !.inTx = u]) /\ [e EXCEPT !.inTx = u].pc = "idle"
    <3> HIDE DEF e, u
    <3>1. SessionOK(e) /\ e.pc = "idle"
      BY <1>4 DEF e
    <3> QED
      BY <3>1, ControlFieldsOK
  <2>3. SessionOK(Unsafe(x)) /\ Unsafe(x).pc = "idle"
    <3> HIDE DEF x
    <3> QED
      BY <1>2, UnsafeOK
  <2>4. r # <<>> => SessionOK(Observes(e, r)) /\ Observes(e, r).pc \in Aloof
    <3> HIDE DEF e, r
    <3>1. SessionShape(e) /\ Tracked(e)
      BY <1>4 DEF e
    <3> QED
      BY <3>1, ObservesOK
  <2> DEFINE a == [x EXCEPT !.inTx = TRUE]
             b == [x EXCEPT !.dirty = {}]
             c == Unsafe(x)
             d == [e EXCEPT !.inTx = u]
             f == Observes(e, r)
  <2>5. y = CASE k = "begin"          -> a
              [] k = "restart"        -> b
              [] k = "autocommit off" -> c
              [] k = "rollback" \/ (k = "commit" /\ r = <<>>) -> d
              [] OTHER                -> f
    OBVIOUS
  <2>6. /\ SessionOK(a) /\ a.pc \in Aloof /\ SessionOK(b) /\ b.pc \in Aloof
        /\ SessionOK(c) /\ c.pc \in Aloof /\ SessionOK(d) /\ d.pc \in Aloof
        /\ r # <<>> => SessionOK(f) /\ f.pc \in Aloof
    BY <2>0, <2>1, <2>2, <2>3, <2>4
  <2>7. k \in {"begin", "restart", "autocommit off", "rollback", "commit"}
    BY DEF Control
  <2> HIDE DEF a, b, c, d, f, r, y
  <2> QED
    BY <2>5, <2>6, <2>7
<1> HIDE DEF y, x
<1> QED
  BY <1>1, <1>2, <1>3, <1>5, LikeSelf, AloofKeeps

\* A prepared SELECT, and a new client.
LEMMA OthersKeep ==
    ASSUME CacheInv, NEW s \in Sessions, ExecuteStmt(s) \/ Disconnect(s)
    PROVE  SessionsOK' /\ Flight'
<1> DEFINE x == sess[s]
<1>1. x.pc = "idle" /\ UNCHANGED inflight
  BY DEF ExecuteStmt, Disconnect, Starts
<1>2. SessionOK(x) /\ x.pc \in Aloof
  BY <1>1, StartsFacts
<1>3. \E y : SessionOK(y) /\ y.pc = "idle" /\ sess' = [sess EXCEPT ![s] = y]
  <2>1. CASE ExecuteStmt(s)
    <3> DEFINE c == IF x.calcPending THEN OtherCount ELSE None
               y == [x EXCEPT !.calc = c]
    <3>1. SessionOK(y) /\ y.pc = "idle"
      <4> HIDE DEF c
      <4> QED
        BY <1>1, <1>2, CalcOK
    <3>2. sess' = [sess EXCEPT ![s] = y]
      BY <2>1 DEF ExecuteStmt
    <3> HIDE DEF y
    <3> QED
      BY <3>1, <3>2
  <2>2. CASE Disconnect(s)
    <3>1. SessionOK(NewSession) /\ NewSession.pc = "idle"
      <4>1. SessionShape(NewSession)
        BY DEF NewSession, SessionShape, Fields
      <4>2. Len(<<>>) <= MaxTrackedTxWrites /\ <<>> \in Seq(Writes)
        BY BoundsAssumption
      <4> QED
        BY <4>1, <4>2 DEF SessionOK, NewSession, Labels, Fetching
    <3>2. sess' = [sess EXCEPT ![s] = NewSession]
      BY <2>2 DEF Disconnect
    <3> QED
      BY <3>1, <3>2
  <2> QED
    BY <2>1, <2>2
<1>4. "idle" \in Aloof
  BY DEF Aloof, Labels, Fetching
<1> QED
  BY <1>1, <1>2, <1>3, <1>4, LikeSelf, AloofKeeps

-----------------------------------------------------------------------------
(* The calls in flight *)

\* A step of one session, seen by the others.
LEMMA OneMoves ==
    ASSUME CacheInv, NEW s \in Sessions, NEW x, SessionOK(x),
           sess' = [sess EXCEPT ![s] = x]
    PROVE  /\ SessionsOK' /\ sess'[s] = x
           /\ \A t \in Sessions \ {s} : sess'[t] = sess[t]
  BY DEF CacheInv, SessionsOK

\* What the invariant says of a leader, a waiter and the table.
LEMMA FlightFacts ==
    ASSUME CacheInv
    PROVE  /\ None \notin Sessions
           /\ \A s \in Sessions : SessionOK(sess[s])
           /\ \A s \in Sessions : sess[s].pc \in Fetching => sess[s].arg \in Keys
           /\ inflight \in [Keys -> Sessions \cup {None}]
           /\ \A s \in Sessions : sess[s].pc \in Leading => inflight[sess[s].arg] = s
           /\ \A k \in Keys : inflight[k] # None =>
                 /\ inflight[k] \in Sessions
                 /\ sess[inflight[k]].pc \in Leading /\ sess[inflight[k]].arg = k
           /\ \A s \in Sessions : sess[s].pc = "wait" =>
                 /\ inflight[sess[s].arg] # None
                 /\ sess[inflight[sess[s].arg]].pc # "done"
<1>1. None \notin Sessions
  BY SessionsAssumption
<1>2. \A s \in Sessions : SessionOK(sess[s])
  BY DEF CacheInv, SessionsOK
<1>3. \A s \in Sessions : sess[s].pc \in Fetching => sess[s].arg \in Keys
  BY <1>2 DEF SessionOK
<1> QED
  BY <1>1, <1>2, <1>3 DEF CacheInv, Flight

\* A session that fetches has nothing to invalidate.
LEMMA FetchFacts ==
    ASSUME CacheInv, NEW s \in Sessions, sess[s].pc \in Fetching \cup {"rows", "list", "count"}
    PROVE  SessionOK(sess[s]) /\ sess[s].todo = <<>>
<1>1. SessionOK(sess[s])
  BY FlightFacts
<1>2. sess[s].pc \notin {"observe", "trigger", "kick"}
  BY DEF Fetching
<1> QED
  BY <1>1, <1>2 DEF SessionOK

\* To wait for a leader that has yet to publish.
LEMMA JoinKeeps ==
    ASSUME CacheInv, NEW s \in Sessions, Join(s)
    PROVE  SessionsOK' /\ Flight'
<1> DEFINE l == inflight[sess[s].arg]
<1>1. /\ sess[s].pc = "miss" /\ l # None /\ UNCHANGED inflight
      /\ sess' = [sess EXCEPT ![s] = IF sess[l].pc = "done" THEN Idle(sess[s])
                                     ELSE [sess[s] EXCEPT !.pc = "wait"]]
  BY DEF Join
<1>2. SessionOK(sess[s]) /\ sess[s].todo = <<>> /\ sess[s].arg \in Keys
  BY <1>1, FetchFacts, FlightFacts DEF Fetching
<1>3. CASE sess[l].pc = "done"
  <2>1. SessionOK(Idle(sess[s])) /\ Idle(sess[s]).pc = "idle"
    BY <1>2, IdleOK
  <2>2. sess' = [sess EXCEPT ![s] = Idle(sess[s])]
    BY <1>1, <1>3
  <2>3. Idle(sess[s]).pc \in Aloof /\ sess[s].pc \in Aloof /\ inflight' = inflight
    BY <1>1, <2>1 DEF Aloof, Labels, Fetching
  <2> DEFINE y == Idle(sess[s])
  <2> HIDE DEF y
  <2> QED
    BY <2>1, <2>2, <2>3, LikeSelf, AloofKeeps DEF y
<1>4. CASE sess[l].pc # "done"
  <2> DEFINE x == [sess[s] EXCEPT !.pc = "wait"]
  <2>1. SessionOK(x) /\ x.pc = "wait" /\ x.arg = sess[s].arg
    BY <1>2, GotoOK DEF Labels, Fetching
  <2>2. sess' = [sess EXCEPT ![s] = x]
    BY <1>1, <1>4
  <2> HIDE DEF x
  <2>3. SessionsOK' /\ sess'[s] = x /\ \A t \in Sessions \ {s} : sess'[t] = sess[t]
    BY <2>1, <2>2, OneMoves
  <2>4. \A k \in Keys : inflight[k] # None => inflight[k] \in Sessions \ {s}
    BY <1>1, FlightFacts DEF Leading
  <2> QED
    BY <1>1, <1>2, <1>4, <2>1, <2>3, <2>4, FlightFacts DEF Flight, Leading, Fetching
<1> QED
  BY <1>3, <1>4

\* To lead a call that nobody leads.
LEMMA LeadKeeps ==
    ASSUME CacheInv, NEW s \in Sessions, Lead(s)
    PROVE  SessionsOK' /\ Flight'
<1> DEFINE x == [sess[s] EXCEPT !.pc = "lead"]
           k == sess[s].arg
<1>1. /\ sess[s].pc = "miss" /\ inflight[k] = None
      /\ inflight' = [inflight EXCEPT ![k] = s]
      /\ sess' = [sess EXCEPT ![s] = x]
  BY DEF Lead, CacheInv, SessionsOK
<1>2. SessionOK(sess[s]) /\ sess[s].todo = <<>> /\ k \in Keys
  BY <1>1, FetchFacts, FlightFacts DEF Fetching
<1>3. SessionOK(x) /\ x.pc = "lead" /\ x.arg = k
  BY <1>2, GotoOK DEF Labels, Fetching
<1> HIDE DEF x
<1>4. SessionsOK' /\ sess'[s] = x /\ \A t \in Sessions \ {s} : sess'[t] = sess[t]
  BY <1>1, <1>3, OneMoves
<1>5. /\ inflight' \in [Keys -> Sessions \cup {None}] /\ inflight'[k] = s
      /\ \A j \in Keys \ {k} : inflight'[j] = inflight[j]
  BY <1>1, <1>2, FlightFacts
<1>6. \A j \in Keys : inflight[j] # None => j # k /\ inflight[j] \in Sessions \ {s}
  BY <1>1, FlightFacts DEF Leading
<1>7. ASSUME NEW t \in Sessions, sess'[t].pc \in Leading
      PROVE  inflight'[sess'[t].arg] = t
  <2>1. CASE t = s
    BY <1>3, <1>4, <1>5, <2>1
  <2>2. CASE t # s
    <3>1. sess[t].arg \in Keys /\ inflight[sess[t].arg] = t
      BY <1>4, <1>7, <2>2, FlightFacts DEF Leading, Fetching
    <3> QED
      BY <1>4, <1>5, <1>6, <2>2, <3>1, FlightFacts
  <2> QED
    BY <2>1, <2>2
<1>8. ASSUME NEW j \in Keys, inflight'[j] # None
      PROVE  sess'[inflight'[j]].pc \in Leading /\ sess'[inflight'[j]].arg = j
  <2>1. CASE j = k
    BY <1>3, <1>4, <1>5, <2>1 DEF Leading
  <2>2. CASE j # k
    BY <1>4, <1>5, <1>6, <1>8, <2>2, FlightFacts
  <2> QED
    BY <2>1, <2>2
<1>9. ASSUME NEW t \in Sessions, sess'[t].pc = "wait"
      PROVE  inflight'[sess'[t].arg] # None /\ sess'[inflight'[sess'[t].arg]].pc # "done"
  <2>1. t # s /\ sess'[t] = sess[t] /\ sess[t].pc = "wait"
    BY <1>3, <1>4, <1>9
  <2>2. sess[t].arg \in Keys /\ inflight[sess[t].arg] # None
    BY <2>1, FlightFacts DEF Fetching
  <2>3. inflight'[sess'[t].arg] = inflight[sess[t].arg]
    BY <1>5, <1>6, <2>1, <2>2
  <2> QED
    BY <1>4, <1>6, <2>1, <2>2, <2>3, FlightFacts
<1> QED
  BY <1>4, <1>5, <1>7, <1>8, <1>9 DEF Flight

\* To stop waiting.
LEMMA GiveUpKeeps ==
    ASSUME CacheInv, NEW s \in Sessions, GiveUp(s)
    PROVE  SessionsOK' /\ Flight'
<1> DEFINE x == [sess[s] EXCEPT !.pc = "alone"]
<1>1. /\ sess[s].pc = "wait" /\ UNCHANGED inflight
      /\ sess' = [sess EXCEPT ![s] = x]
  BY DEF GiveUp, CacheInv, SessionsOK
<1>2. SessionOK(sess[s]) /\ sess[s].todo = <<>> /\ sess[s].arg \in Keys
  BY <1>1, FetchFacts, FlightFacts DEF Fetching
<1>3. SessionOK(x) /\ x.pc = "alone"
  BY <1>2, GotoOK DEF Labels, Fetching
<1> HIDE DEF x
<1>4. SessionsOK' /\ sess'[s] = x /\ \A t \in Sessions \ {s} : sess'[t] = sess[t]
  BY <1>1, <1>3, OneMoves
<1>5. \A k \in Keys : inflight[k] # None => inflight[k] \in Sessions \ {s}
  BY <1>1, FlightFacts DEF Leading
<1> QED
  BY <1>1, <1>3, <1>4, <1>5, FlightFacts DEF Flight, Leading, Fetching

\* A leader is answered: it goes on leading.
LEMMA LeaderAnsweredKeeps ==
    ASSUME CacheInv, NEW s \in Sessions, LeaderAnswered(s)
    PROVE  SessionsOK' /\ Flight'
<1>1. sess[s].pc = "lead" /\ UNCHANGED inflight
  BY DEF LeaderAnswered
<1>2. PICK v : sess' = [sess EXCEPT ![s] = Reads(sess[s], v)]
  BY DEF LeaderAnswered, Reads, CacheInv, SessionsOK
<1> DEFINE x == Reads(sess[s], v)
<1>3. SessionOK(x) /\ x.pc = "read" /\ x.arg = sess[s].arg
  BY <1>1, ReadsOK, FlightFacts
<1>4. sess' = [sess EXCEPT ![s] = x]
  BY <1>2
<1> HIDE DEF x
<1>5. SessionsOK' /\ sess'[s] = x /\ \A t \in Sessions \ {s} : sess'[t] = sess[t]
  BY <1>3, <1>4, OneMoves
<1>6. sess[s].arg \in Keys /\ inflight[sess[s].arg] = s
  BY <1>1, FlightFacts DEF Leading, Fetching
<1> QED
  BY <1>1, <1>3, <1>5, <1>6, FlightFacts DEF Flight, Leading, Fetching

\* Publishing releases whoever waits for the call, and nobody else.
LEMMA PublishKeeps ==
    ASSUME CacheInv, NEW s \in Sessions, Publish(s)
    PROVE  SessionsOK' /\ Flight'
<1> DEFINE x == [sess[s] EXCEPT !.pc = "done"]
           Waits(t) == sess[t].pc = "wait" /\ sess[t].arg = sess[s].arg
<1>1. /\ sess[s].pc = "read" /\ UNCHANGED inflight
      /\ sess' = [t \in Sessions |-> IF t = s THEN x
                                     ELSE IF Waits(t) THEN Idle(sess[t]) ELSE sess[t]]
  BY DEF Publish
<1>2. SessionOK(sess[s]) /\ sess[s].todo = <<>> /\ sess[s].arg \in Keys
  BY <1>1, FetchFacts, FlightFacts DEF Fetching
<1>3. SessionOK(x) /\ x.pc = "done" /\ x.arg = sess[s].arg
  BY <1>2, GotoOK DEF Labels, Fetching
<1>4. ASSUME NEW t \in Sessions, Waits(t)
      PROVE  SessionOK(Idle(sess[t])) /\ Idle(sess[t]).pc = "idle"
  BY <1>4, FetchFacts, IdleOK DEF Fetching
<1> HIDE DEF x
<1>5. /\ sess'[s] = x
      /\ \A t \in Sessions \ {s} : Waits(t) => sess'[t] = Idle(sess[t])
      /\ \A t \in Sessions \ {s} : ~Waits(t) => sess'[t] = sess[t]
  BY <1>1
<1>6. SessionsOK'
  <2>1. sess' = [t \in Sessions |-> sess'[t]]
    BY <1>1
  <2>2. \A t \in Sessions : SessionOK(sess'[t])
    BY <1>3, <1>4, <1>5, FlightFacts
  <2> QED
    BY <2>1, <2>2 DEF SessionsOK
<1>7. \A t \in Sessions \ {s} : sess'[t].pc \in Leading \cup {"wait"} =>
          sess'[t] = sess[t] /\ ~Waits(t)
  BY <1>4, <1>5 DEF Leading
<1>8. inflight[sess[s].arg] = s
  BY <1>1, FlightFacts DEF Leading
<1>9. \A k \in Keys : inflight[k] # None /\ inflight[k] # s =>
          inflight[k] \in Sessions \ {s} /\ sess'[inflight[k]] = sess[inflight[k]]
  BY <1>5, FlightFacts DEF Leading
<1>10. ASSUME NEW t \in Sessions, sess'[t].pc \in Leading
       PROVE  inflight[sess'[t].arg] = t
  <2>1. CASE t = s
    BY <1>3, <1>5, <1>8, <2>1
  <2>2. CASE t # s
    BY <1>7, <1>10, <2>2, FlightFacts
  <2> QED
    BY <2>1, <2>2
<1>11. ASSUME NEW k \in Keys, inflight[k] # None
       PROVE  sess'[inflight[k]].pc \in Leading /\ sess'[inflight[k]].arg = k
  <2>1. CASE inflight[k] = s
    BY <1>3, <1>5, <1>11, <2>1, FlightFacts DEF Leading
  <2>2. CASE inflight[k] # s
    BY <1>9, <1>11, <2>2, FlightFacts
  <2> QED
    BY <2>1, <2>2
<1>12. ASSUME NEW t \in Sessions, sess'[t].pc = "wait"
       PROVE  inflight[sess'[t].arg] # None /\ sess'[inflight[sess'[t].arg]].pc # "done"
  <2>1. t # s /\ sess'[t] = sess[t] /\ sess[t].arg # sess[s].arg /\ sess[t].pc = "wait"
    BY <1>3, <1>5, <1>7, <1>12
  <2>2. sess[t].arg \in Keys /\ inflight[sess[t].arg] # None
        /\ sess[inflight[sess[t].arg]].pc # "done"
    BY <2>1, FlightFacts DEF Fetching
  <2>3. inflight[sess[t].arg] # s
    BY <2>1, <2>2, FlightFacts
  <2> QED
    BY <1>9, <2>1, <2>2, <2>3
<1>13. inflight' \in [Keys -> Sessions \cup {None}]
  BY <1>1, FlightFacts
<1>14. inflight' = inflight
  BY <1>1
<1> QED
  BY <1>6, <1>10, <1>11, <1>12, <1>13, <1>14 DEF Flight

\* A call that has been published leaves the table: nobody waits for it.
LEMMA ForgetKeeps ==
    ASSUME CacheInv, NEW s \in Sessions, Forget(s)
    PROVE  SessionsOK' /\ Flight'
<1> DEFINE k == sess[s].arg
<1>1. /\ sess[s].pc = "done"
      /\ inflight' = [inflight EXCEPT ![k] = None]
      /\ sess' = [sess EXCEPT ![s] = IF sess[s].val = None THEN Idle(sess[s])
                                     ELSE [sess[s] EXCEPT !.pc = "store"]]
  BY DEF Forget
<1>2. SessionOK(sess[s]) /\ sess[s].todo = <<>> /\ k \in Keys
  BY <1>1, FetchFacts, FlightFacts DEF Fetching
<1>3. PICK x : SessionOK(x) /\ x.pc \in {"idle", "store"} /\ sess' = [sess EXCEPT ![s] = x]
  <2>1. SessionOK(Idle(sess[s])) /\ Idle(sess[s]).pc = "idle"
    BY <1>2, IdleOK
  <2>2. CASE sess[s].val = None
    BY <1>1, <2>1, <2>2
  <2>3. CASE sess[s].val # None
    <3> DEFINE y == [sess[s] EXCEPT !.pc = "store"]
    <3>1. SessionOK(y) /\ y.pc = "store"
      BY <1>2, <2>3, GotoOK DEF Labels, Fetching
    <3>2. sess' = [sess EXCEPT ![s] = y]
      BY <1>1, <2>3
    <3> HIDE DEF y
    <3> QED
      BY <3>1, <3>2
  <2> QED
    BY <2>2, <2>3
<1>4. SessionsOK' /\ sess'[s] = x /\ \A t \in Sessions \ {s} : sess'[t] = sess[t]
  BY <1>3, OneMoves
<1>5. /\ inflight' \in [Keys -> Sessions \cup {None}] /\ inflight'[k] = None
      /\ \A j \in Keys \ {k} : inflight'[j] = inflight[j]
  BY <1>1, <1>2, FlightFacts
<1>6. inflight[k] = s
  BY <1>1, FlightFacts DEF Leading
<1>7. \A j \in Keys \ {k} : inflight[j] # None => inflight[j] \in Sessions \ {s}
  BY <1>2, FlightFacts
<1>8. \A t \in Sessions : sess'[t].pc \in Leading \cup {"wait"} => t # s
  BY <1>3, <1>4 DEF Leading
<1>9. ASSUME NEW t \in Sessions, sess'[t].pc \in Leading
      PROVE  inflight'[sess'[t].arg] = t
  <2>1. t # s /\ sess'[t] = sess[t] /\ sess[t].arg \in Keys /\ inflight[sess[t].arg] = t
    BY <1>4, <1>8, <1>9, FlightFacts DEF Leading, Fetching
  <2> QED
    BY <1>5, <1>6, <2>1
<1>10. ASSUME NEW j \in Keys, inflight'[j] # None
       PROVE  sess'[inflight'[j]].pc \in Leading /\ sess'[inflight'[j]].arg = j
  BY <1>4, <1>5, <1>7, <1>10, FlightFacts
<1>11. ASSUME NEW t \in Sessions, sess'[t].pc = "wait"
       PROVE  inflight'[sess'[t].arg] # None /\ sess'[inflight'[sess'[t].arg]].pc # "done"
  <2>1. t # s /\ sess'[t] = sess[t] /\ sess[t].arg \in Keys /\ sess[t].pc = "wait"
    BY <1>4, <1>8, <1>11, FlightFacts DEF Fetching
  <2>2. sess[t].arg # k
    BY <1>1, <1>6, <2>1, FlightFacts
  <2> QED
    BY <1>4, <1>5, <1>7, <2>1, <2>2, FlightFacts
<1> QED
  BY <1>4, <1>5, <1>9, <1>10, <1>11 DEF Flight

-----------------------------------------------------------------------------
(* The other steps of a session *)

\* A step that changes one session, aloof before and after, and no call.
Alone(s) == \E x : /\ SessionOK(x) /\ x.pc \in Aloof
                   /\ sess' = [sess EXCEPT ![s] = x]

\* Such a step keeps the calls in flight.
LEMMA AloneKeeps ==
    ASSUME CacheInv, NEW s \in Sessions, sess[s].pc \in Aloof, Alone(s),
           UNCHANGED inflight
    PROVE  SessionsOK' /\ Flight'
  BY LikeSelf, AloofKeeps DEF Alone

\* An answer is never mistaken for none.
LEMMA AnswerIsSome ==
    ASSUME RestOK, NEW q \in Keys
    PROVE  Answer(q) # None
<1>1. Deps(q) \subseteq Objects
  BY DEF Keys, Deps, Objects
<1>2. ver \in [Objects -> Nat]
  BY DEF RestOK
<1>3. Answer(q) \in [Deps(q) -> Nat]
  BY <1>1, <1>2 DEF Answer
<1> QED
  BY <1>1, <1>3, NoneAssumption

\* Answers outside a call, and what is stored of them.
LEMMA AnswersKeep ==
    ASSUME CacheInv, NEW s \in Sessions,
           \/ AloneAnswered(s) \/ Store(s)
           \/ ListingAnswered(s) \/ StorePaired(s) \/ PairFoundRows(s)
    PROVE  SessionsOK' /\ Flight'
<1> DEFINE x == sess[s]
<1>1. x.pc \in {"alone", "store", "list", "rows", "count"} /\ UNCHANGED inflight
  BY DEF AloneAnswered, Store, ListingAnswered, StorePaired, PairFoundRows
<1>2. SessionOK(x) /\ x.todo = <<>>
  BY <1>1, FetchFacts DEF Fetching
<1>3. x.pc \in Aloof /\ "idle" \in Aloof /\ "rows" \in Aloof
  BY <1>1 DEF Aloof, Labels, Fetching
<1>4. SessionOK(Idle(x)) /\ Idle(x).pc = "idle"
  BY <1>2, IdleOK
<1>5. Alone(s)
  <2>1. CASE AloneAnswered(s) \/ Store(s)
    <3>1. sess' = [sess EXCEPT ![s] = Idle(x)]
      BY <2>1 DEF AloneAnswered, Store
    <3> QED
      BY <1>3, <1>4, <3>1 DEF Alone
  <2>2. CASE ListingAnswered(s)
    <3> DEFINE v == Answer("listing")
               r == Rows(x, v)
    <3>1. x.pc = "list" /\ (sess' = [sess EXCEPT ![s] = r]
                            \/ sess' = [sess EXCEPT ![s] = Idle(x)])
      BY <2>2 DEF ListingAnswered, Rows, CacheInv, SessionsOK
    <3>2. v # None
      BY AnswerIsSome DEF CacheInv, Keys
    <3>3. SessionOK(r) /\ r.pc = "rows"
      <4> HIDE DEF v
      <4> QED
        BY <1>2, <3>1, <3>2, RowsOK
    <3> HIDE DEF r
    <3> QED
      BY <1>3, <1>4, <3>1, <3>3 DEF Alone
  <2>3. CASE StorePaired(s)
    <3> DEFINE i == Idle(x)
               y == Pending(i)
    <3>1. sess' = [sess EXCEPT ![s] = y]
      BY <2>3 DEF StorePaired, Pending
    <3>2. SessionOK(y) /\ y.pc = "idle"
      <4>1. SessionOK(i) /\ i.pc = "idle"
        BY <1>4
      <4> HIDE DEF i
      <4> QED
        BY <4>1, PendingOK
    <3> HIDE DEF y
    <3> QED
      BY <1>3, <3>1, <3>2 DEF Alone
  <2>4. CASE PairFoundRows(s)
    <3> DEFINE b == Broken(x)
               y == [b EXCEPT !.pc = "idle"]
    <3>1. sess' = [sess EXCEPT ![s] = y]
      BY <2>4 DEF PairFoundRows
    <3>2. SessionOK(y) /\ y.pc = "idle"
      <4>1. SessionOK(b) /\ b.todo = <<>>
        BY <1>2, BrokenOK
      <4> HIDE DEF b
      <4> QED
        BY <4>1, GotoOK DEF Labels, Fetching
    <3> HIDE DEF y
    <3> QED
      BY <1>3, <3>1, <3>2 DEF Alone
  <2> QED
    BY <2>1, <2>2, <2>3, <2>4
<1> QED
  BY <1>1, <1>3, <1>5, AloneKeeps

\* A session that invalidates, or asks for a fetch.
LEMMA ObserverFacts ==
    ASSUME CacheInv, NEW s \in Sessions, sess[s].pc \in {"observe", "trigger", "kick"}
    PROVE  /\ SessionOK(sess[s]) /\ SessionShape(sess[s]) /\ Tracked(sess[s])
           /\ sess[s].pc \in Aloof
<1>1. SessionOK(sess[s])
  BY FlightFacts
<1> QED
  BY <1>1 DEF SessionOK, Tracked, Aloof, Labels, Fetching

\* Asking for a fetch: the session proceeds to its next write, or is done.
LEMMA TriggersKeep ==
    ASSUME CacheInv, NEW s \in Sessions, Trigger(s) \/ Kick(s)
    PROVE  SessionsOK' /\ Flight'
<1> DEFINE x == sess[s]
<1>1. x.pc \in {"trigger", "kick"} /\ UNCHANGED inflight
  BY DEF Trigger, Kick
<1>2. SessionOK(x) /\ SessionShape(x) /\ Tracked(x) /\ x.pc \in Aloof
  BY <1>1, ObserverFacts
<1>3. Alone(s)
  <2>1. CASE Trigger(s)
    <3> DEFINE y == [x EXCEPT !.pc = "kick"]
    <3>1. SessionShape(y)
      BY <1>2 DEF SessionShape
    <3>2. y.pc = "kick" /\ y.txWrites = x.txWrites
      BY <1>2 DEF SessionShape, Fields
    <3>3. SessionOK(y) /\ y.pc \in Aloof
      <4> HIDE DEF y
      <4> QED
        BY <1>2, <3>1, <3>2 DEF SessionOK, Tracked, Labels, Fetching, Aloof
    <3>4. sess' = [sess EXCEPT ![s] = y]
      BY <2>1 DEF Trigger
    <3> HIDE DEF y
    <3> QED
      BY <3>3, <3>4 DEF Alone
  <2>2. CASE Kick(s)
    <3>1. sess' = [sess EXCEPT ![s] = Proceeds(x, FALSE)]
      BY <2>2 DEF Kick
    <3> QED
      BY <1>2, <3>1, ProceedsOK DEF Alone
  <2> QED
    BY <2>1, <2>2
<1> QED
  BY <1>1, <1>2, <1>3, AloneKeeps

\* One write less to invalidate.
WithoutHead(x) == [x EXCEPT !.todo = Tail(@)]

\* Invalidating a write marks answers of other sessions, and changes nothing
\* else of them.
LEMMA InvalidateKeeps ==
    ASSUME CacheInv, NEW s \in Sessions, Invalidate(s)
    PROVE  SessionsOK' /\ Flight'
<1> DEFINE x == WithoutHead(sess[s])
           w == Head(sess[s].todo)
<1>1. sess[s].pc = "observe" /\ inflight' = inflight
  BY DEF Invalidate
<1>2. SessionShape(sess[s]) /\ Tracked(sess[s]) /\ sess[s].pc \in Aloof
  BY <1>1, ObserverFacts
<1>3. SessionShape(x) /\ Tracked(x)
  <2>1. SessionShape(x)
    BY <1>2 DEF SessionShape, WithoutHead
  <2>2. x.txWrites = sess[s].txWrites
    BY <1>2 DEF SessionShape, Fields, WithoutHead
  <2> HIDE DEF x
  <2> QED
    BY <1>2, <2>1, <2>2 DEF Tracked
<1>4. PICK g, r : Like(g) /\ sess' = [g EXCEPT ![s] = Proceeds(x, r)]
  <2>1. \/ sess' = [sess EXCEPT ![s] = Proceeds(x, FALSE)]
        \/ sess' = [Overtaken(Dropped(w)) EXCEPT
                      ![s] = Proceeds(x, Warmup /\ learned /\ HitsAutoload(w))]
    BY DEF Invalidate, WithoutHead
  <2> HIDE DEF x, w
  <2> QED
    BY <2>1, LikeSelf, LikeOvertaken
<1>5. SessionOK(Proceeds(x, r)) /\ Proceeds(x, r).pc \in Aloof
  <2> HIDE DEF x
  <2> QED
    BY <1>3, ProceedsOK
<1> DEFINE y == Proceeds(x, r)
<1>6. SessionOK(y) /\ y.pc \in Aloof /\ sess' = [g EXCEPT ![s] = y]
  BY <1>4, <1>5
<1> HIDE DEF y
<1> QED
  BY <1>1, <1>2, <1>4, <1>6, AloofKeeps

-----------------------------------------------------------------------------
(* Every step *)

\* Whatever a client asks for keeps sessions and calls in order.
LEMMA CommandKeeps ==
    ASSUME CacheInv, NEW s \in Sessions, Command(s)
    PROVE  SessionsOK' /\ Flight'
<1>1. CASE \E q \in Keys : ReadAlone(s, q) \/ LookupHit(s, q) \/ LookupMiss(s, q)
  BY <1>1, ReadsKeep
<1>2. CASE ListingHit(s) \/ ListingMiss(s) \/ CountKnown(s) \/ CountAsked(s)
  <2>1. "listing" \in Keys
    BY DEF Keys
  <2> QED
    BY <1>2, <2>1, ReadsKeep
<1>3. CASE \E w \in Writes : Write(s, w)
  BY <1>3, WriteKeeps
<1>4. CASE \E k \in Statements : Control(s, k)
  BY <1>4, ControlKeeps
<1>5. CASE ExecuteStmt(s) \/ Disconnect(s)
  BY <1>5, OthersKeep
<1> QED
  BY <1>1, <1>2, <1>3, <1>4, <1>5 DEF Command

\* So does whatever the goroutine of a session does by itself.
LEMMA ContinueKeeps ==
    ASSUME CacheInv, NEW s \in Sessions, Continue(s) \/ Answered(s)
    PROVE  SessionsOK' /\ Flight'
  BY JoinKeeps, LeadKeeps, GiveUpKeeps, PublishKeeps, ForgetKeeps, AnswersKeep,
     InvalidateKeeps, TriggersKeep, LeaderAnsweredKeeps DEF Continue, Answered

\* The warmer, the detection and a reload; the flush of a reload overtakes
\* whoever holds an answer.
LEMMA BackgroundKeeps ==
    ASSUME CacheInv, WarmerStep \/ DetectStep \/ ReloadRules \/ ReloadStep
    PROVE  SessionsOK' /\ Flight'
<1>1. CASE ReloadFlushes
  <2>1. sess' = Overtaken(Tags) /\ inflight' = inflight
    BY <1>1 DEF ReloadFlushes
  <2> QED
    BY <2>1, LikeOvertaken, LikeKeeps
<1>2. CASE ~ReloadFlushes
  <2>1. sess' = sess /\ inflight' = inflight
    BY <1>2 DEF WarmerStep, WarmerWakes, WarmerTakes, WarmerFetches, WarmerStores,
                DetectStep, DetectCompiles, DetectBinds, ReloadRules, ReloadStep,
                ReloadBinds, ReloadTriggers, ReloadConfigures
  <2> QED
    BY <2>1, LikeSelf, LikeKeeps
<1> QED
  BY <1>1, <1>2

\* Sessions and calls stay in order.
LEMMA SessionsStep ==
    CacheInv /\ [Next]_vars => SessionsOK' /\ Flight'
<1> SUFFICES ASSUME CacheInv, [Next]_vars PROVE SessionsOK' /\ Flight'
  OBVIOUS
<1>1. CASE \E s \in Sessions : Command(s) \/ Continue(s) \/ Answered(s)
  BY <1>1, CommandKeeps, ContinueKeeps
<1>2. CASE WarmerStep \/ DetectStep \/ ReloadRules \/ ReloadStep
  BY <1>2, BackgroundKeeps
<1>3. CASE UNCHANGED vars
  BY <1>3, LikeSelf, LikeKeeps DEF vars
<1> QED
  BY <1>1, <1>2, <1>3 DEF Next

\* A commit changes versions that may still change.
LEMMA CommittedOK ==
    ASSUME RestOK, NEW O, Room(O), Committed(O)
    PROVE  ver' \in [Objects -> 0..MaxVersion]
<1>1. MaxVersion \in Nat
  BY BoundsAssumption
<1>2. ver \in [Objects -> 0..MaxVersion]
  BY DEF RestOK
<1>3. ASSUME NEW o \in Objects PROVE (IF o \in O THEN ver[o] + 1 ELSE ver[o]) \in 0..MaxVersion
  <2>1. ver[o] \in 0..MaxVersion
    BY <1>2
  <2>2. o \in O => ver[o] < MaxVersion
    BY DEF Room
  <2> QED
    BY <1>1, <2>1, <2>2
<1> QED
  BY <1>3 DEF Committed

\* Versions stay within their bound.
LEMMA VersionsStep ==
    CacheInv /\ [Next]_vars => ver' \in [Objects -> 0..MaxVersion]
<1> SUFFICES ASSUME CacheInv, [Next]_vars PROVE ver' \in [Objects -> 0..MaxVersion]
  OBVIOUS
<1>1. RestOK /\ ver \in [Objects -> 0..MaxVersion]
  BY DEF CacheInv, RestOK
<1>2. CASE \E s \in Sessions, w \in Writes : Write(s, w)
  BY <1>1, <1>2, CommittedOK DEF Write
<1>3. CASE \E s \in Sessions, k \in Statements : Control(s, k)
  <2>1. PICK s \in Sessions, k \in Statements : Control(s, k)
    BY <1>3
  <2> DEFINE D == Broken(sess[s]).dirty
  <2>2. /\ k \in {"commit", "restart"} => Room(D)
        /\ Committed(IF k \in {"commit", "restart"} THEN D ELSE {})
    BY <2>1 DEF Control
  <2>3. Room({})
    BY DEF Room
  <2> HIDE DEF D
  <2> QED
    BY <1>1, <2>2, <2>3, CommittedOK
<1>4. CASE /\ ~\E s \in Sessions, w \in Writes : Write(s, w)
           /\ ~\E s \in Sessions, k \in Statements : Control(s, k)
  <2>1. ver' = ver
    <3>1. ASSUME NEW s \in Sessions, Command(s) PROVE ver' = ver
      BY <1>4, <3>1 DEF Command, ReadAlone, LookupHit, LookupMiss, ListingHit,
         ListingMiss, CountKnown, CountAsked, ExecuteStmt, Disconnect
    <3>2. ASSUME NEW s \in Sessions, Continue(s) PROVE ver' = ver
      BY <3>2 DEF Continue, Join, Lead, GiveUp, Publish, Forget, Store,
         StorePaired, Invalidate, Trigger, Kick
    <3>3. ASSUME NEW s \in Sessions, Answered(s) PROVE ver' = ver
      BY <3>3 DEF Answered, LeaderAnswered, AloneAnswered, ListingAnswered, PairFoundRows
    <3>4. CASE WarmerStep \/ DetectStep \/ ReloadRules \/ ReloadStep
      BY <3>4 DEF WarmerStep, WarmerWakes, WarmerTakes, WarmerFetches, WarmerStores,
         DetectStep, DetectCompiles, DetectBinds, ReloadRules, ReloadStep,
         ReloadBinds, ReloadFlushes, ReloadTriggers, ReloadConfigures
    <3> QED
      BY <3>1, <3>2, <3>3, <3>4 DEF Next, vars
  <2> QED
    BY <1>1, <2>1
<1> QED
  BY <1>2, <1>3, <1>4

\* The warmer keeps its labels.
LEMMA WarmerTypeStep == CacheInv /\ [Next]_vars => WarmerOK'
<1> SUFFICES ASSUME CacheInv, [Next]_vars PROVE WarmerOK'
  OBVIOUS
<1>1. WarmerOK
  BY DEF CacheInv, RestOK
<1>2. ASSUME NEW T PROVE OvertakenWarmer(T) = warmer \/ OvertakenWarmer(T) = [warmer EXCEPT !.late = TRUE]
  BY DEF OvertakenWarmer
<1>3. ASSUME warmer' = [warmer EXCEPT !.late = TRUE] PROVE WarmerOK'
  BY <1>1, <1>3 DEF WarmerOK
<1>4. ASSUME warmer' = [warmer EXCEPT !.pending = TRUE] PROVE WarmerOK'
  BY <1>1, <1>4 DEF WarmerOK
<1>5. ASSUME warmer' = [warmer EXCEPT !.kick = TRUE] PROVE WarmerOK'
  BY <1>1, <1>5 DEF WarmerOK
<1>6. ASSUME NEW s \in Sessions, Command(s) \/ Continue(s) \/ Answered(s) PROVE WarmerOK'
  <2>1. \/ warmer' = warmer \/ warmer' = [warmer EXCEPT !.pending = TRUE]
        \/ warmer' = [warmer EXCEPT !.kick = TRUE]
        \/ \E T : warmer' = OvertakenWarmer(T)
    <3>1. CASE Command(s)
      BY <3>1 DEF Command, ReadAlone, LookupHit, LookupMiss, ListingHit,
         ListingMiss, CountKnown, CountAsked, ExecuteStmt, Disconnect, Write, Control
    <3>2. CASE Continue(s)
      BY <3>2 DEF Continue, Join, Lead, GiveUp, Publish, Forget, Store,
         StorePaired, Invalidate, Trigger, Kick
    <3>3. CASE Answered(s)
      BY <3>3 DEF Answered, LeaderAnswered, AloneAnswered, ListingAnswered, PairFoundRows
    <3> QED
      BY <1>6, <3>1, <3>2, <3>3
  <2>2. warmer' = warmer => WarmerOK'
    BY <1>1 DEF WarmerOK
  <2> QED
    BY <1>2, <1>3, <1>4, <1>5, <2>1, <2>2
<1>7. CASE WarmerStep
  <2> DEFINE F == {"pc", "val", "late", "pending", "kick"}
  <2>1. /\ warmer' = [f \in F |-> warmer'[f]]
        /\ warmer'.pc \in {"sleep", "debounce", "fetch", "warm"}
    <3>1. CASE WarmerWakes
      BY <1>1, <3>1 DEF WarmerWakes, WarmerOK
    <3>2. CASE WarmerTakes
      BY <1>1, <3>2 DEF WarmerTakes, WarmerOK
    <3>3. CASE WarmerFetches
      BY <1>1, <3>3 DEF WarmerFetches, WarmerOK
    <3>4. CASE WarmerStores
      BY <1>1, <3>4 DEF WarmerStores, WarmerOK
    <3> QED
      BY <1>7, <3>1, <3>2, <3>3, <3>4 DEF WarmerStep
  <2> QED
    BY <2>1 DEF WarmerOK
<1>8. CASE DetectStep \/ ReloadRules \/ ReloadStep
  <2>1. \/ warmer' = warmer \/ warmer' = [warmer EXCEPT !.pending = TRUE]
        \/ warmer' = [warmer EXCEPT !.kick = TRUE]
        \/ \E T : warmer' = OvertakenWarmer(T)
    BY <1>8 DEF DetectStep, DetectCompiles, DetectBinds, ReloadRules, ReloadStep,
       ReloadBinds, ReloadFlushes, ReloadTriggers, ReloadConfigures
  <2>2. warmer' = warmer => WarmerOK'
    BY <1>1 DEF WarmerOK
  <2> QED
    BY <1>2, <1>3, <1>4, <1>5, <2>1, <2>2
<1>9. CASE UNCHANGED vars
  BY <1>1, <1>9 DEF WarmerOK, vars
<1> QED
  BY <1>6, <1>7, <1>8, <1>9 DEF Next

\* A reload keeps its labels, and brings settings that exist.
LEMMA ReloadTypeStep == CacheInv /\ [Next]_vars => AdminOK' /\ conf' \in Confs
<1> SUFFICES ASSUME CacheInv, [Next]_vars PROVE AdminOK' /\ conf' \in Confs
  OBVIOUS
<1>1. AdminOK /\ conf \in Confs
  BY DEF CacheInv, RestOK
<1>2. CASE ReloadRules \/ ReloadStep
  <2>1. CASE ReloadRules
    BY <1>1, <2>1 DEF ReloadRules, AdminOK
  <2>2. CASE ReloadBinds
    BY <1>1, <2>2 DEF ReloadBinds, AdminOK
  <2>3. CASE ReloadFlushes
    <3>1. PICK l \in {"trigger", "config"} : admin' = [admin EXCEPT !.pc = l]
      BY <2>3 DEF ReloadFlushes
    <3>2. conf' = conf
      BY <2>3 DEF ReloadFlushes
    <3> QED
      BY <1>1, <3>1, <3>2 DEF AdminOK
  <2>4. CASE ReloadTriggers
    <3>1. PICK l \in {"kick", "config"} : admin' = [admin EXCEPT !.pc = l]
      BY <2>4 DEF ReloadTriggers
    <3>2. conf' = conf
      BY <2>4 DEF ReloadTriggers
    <3> QED
      BY <1>1, <3>1, <3>2 DEF AdminOK
  <2>5. CASE ReloadConfigures
    BY <1>1, <2>5 DEF ReloadConfigures, AdminOK
  <2> QED
    BY <1>2, <2>1, <2>2, <2>3, <2>4, <2>5 DEF ReloadStep
<1>3. CASE ~(ReloadRules \/ ReloadStep)
  <2>1. admin' = admin /\ conf' = conf
    <3>1. ASSUME NEW s \in Sessions, Command(s) PROVE admin' = admin /\ conf' = conf
      BY <3>1 DEF Command, ReadAlone, LookupHit, LookupMiss, ListingHit,
         ListingMiss, CountKnown, CountAsked, ExecuteStmt, Disconnect, Write, Control
    <3>2. ASSUME NEW s \in Sessions, Continue(s) PROVE admin' = admin /\ conf' = conf
      BY <3>2 DEF Continue, Join, Lead, GiveUp, Publish, Forget, Store,
         StorePaired, Invalidate, Trigger, Kick
    <3>3. ASSUME NEW s \in Sessions, Answered(s) PROVE admin' = admin /\ conf' = conf
      BY <3>3 DEF Answered, LeaderAnswered, AloneAnswered, ListingAnswered, PairFoundRows
    <3>4. CASE WarmerStep \/ DetectStep
      BY <3>4 DEF WarmerStep, WarmerWakes, WarmerTakes, WarmerFetches, WarmerStores,
         DetectStep, DetectCompiles, DetectBinds
    <3> QED
      BY <1>3, <3>1, <3>2, <3>3, <3>4 DEF Next, vars
  <2> QED
    BY <1>1, <2>1 DEF AdminOK
<1> QED
  BY <1>2, <1>3

\* The invariant is inductive ...
LEMMA CacheStep == CacheInv /\ [Next]_vars => CacheInv'
<1> SUFFICES ASSUME CacheInv, [Next]_vars PROVE CacheInv'
  OBVIOUS
<1> QED
  BY SessionsStep, VersionsStep, WarmerTypeStep, ReloadTypeStep DEF CacheInv, RestOK

\* ... and holds at first.
LEMMA CacheInit == Init => CacheInv
<1> SUFFICES ASSUME Init PROVE CacheInv
  OBVIOUS
<1>1. SessionOK(NewSession) /\ NewSession.pc = "idle"
  <2>1. SessionShape(NewSession)
    BY DEF NewSession, SessionShape, Fields
  <2>2. Len(<<>>) <= MaxTrackedTxWrites /\ <<>> \in Seq(Writes)
    BY BoundsAssumption
  <2> QED
    BY <2>1, <2>2 DEF SessionOK, NewSession, Labels, Fetching
<1>2. sess = [s \in Sessions |-> NewSession]
  BY DEF Init
<1>3. SessionsOK
  BY <1>1, <1>2 DEF SessionsOK
<1>4. Flight
  BY <1>1, <1>2 DEF Init, Flight, Leading
<1>5. RestOK
  BY BoundsAssumption, ConfsAssumption DEF Init, RestOK, WarmerOK, AdminOK
<1> QED
  BY <1>3, <1>4, <1>5 DEF CacheInv

-----------------------------------------------------------------------------
(* The theorems *)

\* The invariant, for any sessions, statements and settings.
THEOREM CacheCorrect == Spec => []CacheInv
  BY CacheInit, CacheStep, PTL DEF Spec

\* Labels and values of the cache, its sessions, its warmer and its reloads.
THEOREM CacheTypeOK == Spec => []TypeOK
  BY CacheCorrect, InvTypeOK, PTL

\* However many sessions ask for a query at once, and whatever is invalidated,
\* stored or reloaded meanwhile, one of them runs it, and whoever waits has a
\* leader that has yet to publish (cache.go:321-386).
THEOREM OneLeader == Spec => []SingleFlight
  BY CacheCorrect, InvSingleFlight, PTL

=============================================================================
