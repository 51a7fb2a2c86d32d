-------------------------------- MODULE Cache --------------------------------
(***************************************************************************)
(* The query cache (internal/cache) and the sessions that fill it and      *)
(* invalidate it (internal/proxy/session.go), in front of one database.    *)
(*                                                                         *)
(* The database is a few objects with a version each, committed by every   *)
(* write; what a query answers is the versions of the objects it reads.    *)
(* Every critical section of the cache's mutex, every round trip to the    *)
(* backend and every channel operation is a step, so that reads, writes,   *)
(* the warmer, the detection of the table prefix and a reload interleave   *)
(* wherever the code lets them.                                            *)
(*                                                                         *)
(* A TTL may run out at any time: a lookup finds an entry or finds it      *)
(* expired.  Statistics, logging and a second database are left out, and   *)
(* so are the connections, which are in Multiplexing.                      *)
(***************************************************************************)
EXTENDS Integers, Sequences, FiniteSets, SequencesExt

CONSTANTS Sessions,
          None,
          Statements,            \* the statements clients send in this instance
          Confs,                 \* the cache sections a reload may bring
          FirstConf,
          AutoPrefix,            \* BOOLEAN: cache.table_prefix is "auto"
          Warmup,                \* BOOLEAN: cache.warmup
          AutoloadedTransients,  \* BOOLEAN: the site has transients that never expire
          Size,                  \* the size of the result of each query
          MaxTrackedTxWrites,    \* maxTrackedTxWrites
          MaxVersion,            \* bound on the writes to an object
          MaxReloads             \* bound on the reloads

ASSUME ConfsAssumption ==
    /\ FirstConf \in Confs
    /\ \A c \in Confs : c.maxEntries \in Nat \ {0} /\ c.maxBytes \in Nat
ASSUME SwitchesAssumption ==
    {AutoPrefix, Warmup, AutoloadedTransients} \subseteq BOOLEAN
ASSUME SessionsAssumption == IsFiniteSet(Sessions) /\ None \notin Sessions
ASSUME BoundsAssumption ==
    {MaxTrackedTxWrites, MaxVersion, MaxReloads} \subseteq Nat

-----------------------------------------------------------------------------
(* Statements: what they read, what they change, what classifies them *)

Objects == {"option", "transient", "term"}

\* What is read of some objects, a count, and an entry that holds both are
\* never taken for nothing.
ASSUME NoneAssumption ==
    \A O \in SUBSET Objects :
        /\ None \notin [O -> Nat] /\ None \notin [O -> Int]
        /\ None \notin [val : [O -> Nat], count : [{"term"} -> Int] \cup {None},
                        late : BOOLEAN]

\* The autoloaded options query, the read of a transient, a SELECT that a rule
\* matches, and a SQL_CALC_FOUND_ROWS listing that the rule matches.
Keys == {"alloptions", "transient read", "terms", "listing"}

\* Results are of some size.
ASSUME SizeAssumption == Size \in [Keys -> Nat]

Deps(q) ==
    CASE q = "alloptions"     -> {"option"} \cup
                                 (IF AutoloadedTransients THEN {"transient"} ELSE {})
      [] q = "transient read" -> {"transient"}
      [] OTHER                -> {"term"}

Tags == {"alloptions", "table options", "option transient", "table terms"}

\* classify and classifyPaired: the tags of a query.
TagsOf(q) ==
    CASE q = "alloptions"     -> {"alloptions", "table options"}
      [] q = "transient read" -> {"option transient", "table options"}
      [] OTHER                -> {"table terms"}

BuiltIn == {"alloptions", "transient read"}

Writes == {"set option", "set transient", "write options", "write terms",
           "multi table"}

\* The objects a write changes; "flush" stands for the writes of a transaction
\* with too many of them.
Touches(w) ==
    CASE w = "set option"    -> {"option"}
      [] w = "set transient" -> {"transient"}
      [] w = "write options" -> {"option", "transient"}
      [] w = "write terms"   -> {"term"}
      [] OTHER               -> Objects

\* InvalidateWrite: the tags whose entries a write drops.  extractOptionNames
\* finds the names in the first two, no name in the third; extractTable finds
\* no table in the last one, which flushes.
Dropped(w) ==
    CASE w = "set option"    -> {"alloptions"}
      [] w = "set transient" -> {"option transient"}
      [] w = "write options" -> {"table options"}
      [] w = "write terms"   -> {"table terms"}
      [] OTHER               -> Tags

\* The writes after which the snapshot has to be fetched again.
HitsAutoload(w) == w \notin {"set transient", "write terms"}

VARIABLES ver,       \* the version of each object, as committed
          mem,       \* the entries and their indexes, under Cache.mu
          inflight,  \* the leader of the call in flight for each key
          learned,   \* the alloptions query has been seen
          sess,      \* the sessions
          warmer,    \* the warmer goroutine, its pending map and its channel
          prefix,    \* the table prefix and its detection
          rules,     \* [raw |-> ..., bound |-> ...]: is the rule there
          conf,      \* the settings in force
          admin      \* the goroutine that reloads

vars == <<ver, mem, inflight, learned, sess, warmer, prefix, rules, conf, admin>>

-----------------------------------------------------------------------------
(* The entries *)

NoEntry == None
EmptyMem == [entries |-> [k \in Keys |-> NoEntry], lru |-> <<>>,
             byTag |-> [t \in Tags |-> {}], bytes |-> 0]

Cached(m) == {k \in Keys : m.entries[k] # NoEntry}

\* The list without the keys K: what SelectSeq makes of it, as a function that
\* can be reasoned about.
Without(list, K) ==
    LET kept[i \in 0..Len(list)] ==
            IF i = 0 THEN <<>>
            ELSE IF list[i] \in K THEN kept[i - 1] ELSE Append(kept[i - 1], list[i])
    IN  kept[Len(list)]

SumSizes(K) == MapThenSumSet(LAMBDA k : Size[k], K)

\* Mutant: the tag index keeps the entry.
TagKeepingRemoved(m, K) ==
    [entries |-> [k \in Keys |-> IF k \in K THEN NoEntry ELSE m.entries[k]],
     lru     |-> Without(m.lru, K),
     byTag   |-> m.byTag,
     bytes   |-> m.bytes - SumSizes(K)]

\* removeLocked, for the cached keys K.
Removed(m, K) ==
    [entries |-> [k \in Keys |-> IF k \in K THEN NoEntry ELSE m.entries[k]],
     lru     |-> Without(m.lru, K),
     byTag   |-> [t \in Tags |-> m.byTag[t] \ {k \in K : t \in TagsOf(k)}],
     bytes   |-> m.bytes - SumSizes(K)]

\* dropTagLocked, for the tags T.
DropTags(m, T) == Removed(m, UNION {m.byTag[t] : t \in T})

MoveToFront(m, k) ==
    [m EXCEPT !.lru = <<k>> \o Without(m.lru, {k})]

PushFront(m, k, e) ==
    [entries |-> [m.entries EXCEPT ![k] = e],
     lru     |-> <<k>> \o m.lru,
     byTag   |-> [t \in Tags |-> m.byTag[t] \cup
                                 (IF t \in TagsOf(k) THEN {k} ELSE {})],
     bytes   |-> m.bytes + Size[k]]

\* The list once k is at its front, cut at max_entries.
Ranked(m, k, c) ==
    LET list == <<k>> \o Without(m.lru, {k})
    IN  SubSeq(list, 1, IF Len(list) < c.maxEntries THEN Len(list) ELSE c.maxEntries)

\* Mutant: the byte budget is enforced before the new entry is there.
EarlyFitting(list, c) ==
    {list[i] : i \in {j \in 1..Len(list) :
        j = 1 \/ c.maxBytes = 0 \/ SumSizes({list[h] : h \in 2..j}) <= c.maxBytes}}

\* What of it fits the byte budget, which never takes the newest entry.
Fitting(list, c) ==
    {list[i] : i \in {j \in 1..Len(list) :
        j = 1 \/ c.maxBytes = 0 \/ SumSizes({list[h] : h \in 1..j}) <= c.maxBytes}}

\* insertLocked: the old entry of k goes, and from the back of the list what
\* is past the two bounds.
Inserted(m, k, e, c) ==
    PushFront(Removed(m, Cached(m) \ (Fitting(Ranked(m, k, c), c) \ {k})), k, e)

\* What the backend answers to q now.
Answer(q) == [o \in Deps(q) |-> ver[o]]

\* The counter that another statement leaves on a connection.
OtherCount == [o \in Deps("listing") |-> -1]

\* count is the total of a listing, once it is known.  late is a ghost: the
\* entry was read before, and stored after, an invalidation of its tags.
NewEntry(v, late) == [val |-> v, count |-> None, late |-> late]

-----------------------------------------------------------------------------
(* Sessions *)

NewSession ==
    [pc |-> "idle", arg |-> None, val |-> None, late |-> FALSE, todo |-> <<>>,
     inTx |-> FALSE, dirty |-> {}, txWrites |-> <<>>, overflow |-> FALSE,
     unsafe |-> FALSE, calcPending |-> FALSE, known |-> None, calc |-> None]

\* Labels at which a session holds an answer that it will store.
Filling == {"read", "done", "store", "rows"}

Init ==
    /\ ver = [o \in Objects |-> 0]
    /\ mem = EmptyMem
    /\ inflight = [k \in Keys |-> None]
    /\ learned = FALSE
    /\ sess = [s \in Sessions |-> NewSession]
    /\ warmer = [pc |-> "sleep", val |-> None, late |-> FALSE,
                 pending |-> FALSE, kick |-> FALSE]
    /\ prefix = [known |-> ~AutoPrefix, detect |-> "none", draft |-> FALSE]
    /\ rules = [raw |-> TRUE, bound |-> ~AutoPrefix]
    /\ conf = FirstConf
    /\ admin = [pc |-> "idle", had |-> FALSE, reloads |-> 0]

Active(x) == ~x.unsafe /\ ~x.inTx

\* classify for the settings and rules in force.
Cacheable(q) == IF q \in BuiltIn THEN conf.builtIns ELSE rules.bound

\* ready: the first caller starts the detection.
Ready == prefix.known
Detecting ==
    prefix' = IF prefix.known \/ prefix.detect # "none" THEN prefix
              ELSE [prefix EXCEPT !.detect = "running"]

\* A statement other than the count breaks a listing that waits for it; calc,
\* the counter of the connection, is of no interest after that.
Broken(x) == [x EXCEPT !.calcPending = FALSE, !.known = None, !.calc = None]
Idle(x)   == [x EXCEPT !.pc = "idle", !.arg = None, !.val = None, !.late = FALSE]

Starts(s, q) == sess[s].pc = "idle" /\ q \in Statements

\* An invalidation of the tags T overtakes the fills that hold an answer.
Overtaken(T) ==
    [s \in Sessions |->
        IF sess[s].pc \in Filling /\ TagsOf(sess[s].arg) \cap T # {}
        THEN [sess[s] EXCEPT !.late = TRUE] ELSE sess[s]]
OvertakenWarmer(T) ==
    IF warmer.pc = "warm" /\ TagsOf("alloptions") \cap T # {}
    THEN [warmer EXCEPT !.late = TRUE] ELSE warmer

-----------------------------------------------------------------------------
(* Get *)

\* A read that the cache has no part in: a session in a transaction or with
\* the cache disabled, a prefix still unknown, a query nothing matches.
ReadAlone(s, q) ==
    /\ Starts(s, q) /\ q \in Keys
    /\ ~Active(sess[s]) \/ ~Ready \/ ~Cacheable(q)
    /\ sess' = [sess EXCEPT ![s] = [Broken(@) EXCEPT !.pc = "alone", !.arg = q]]
    /\ IF Active(sess[s]) THEN Detecting ELSE UNCHANGED prefix
    /\ UNCHANGED <<ver, mem, inflight, learned, warmer, rules, conf, admin>>

Looks(s, q) ==
    /\ Starts(s, q) /\ q \in Keys \ {"listing"}
    /\ Active(sess[s]) /\ Ready /\ Cacheable(q)

LookupHit(s, q) ==
    /\ Looks(s, q)
    /\ q \in Cached(mem)
    /\ mem' = MoveToFront(mem, q)
    /\ sess' = [sess EXCEPT ![s] = Broken(@)]
    /\ UNCHANGED <<ver, inflight, learned, warmer, prefix, rules, conf, admin>>

\* No entry, or an expired one, which is dropped.
LookupMiss(s, q) ==
    /\ Looks(s, q)
    /\ mem' = Removed(mem, {q} \cap Cached(mem))
    /\ sess' = [sess EXCEPT ![s] = [Broken(@) EXCEPT !.pc = "miss", !.arg = q]]
    /\ UNCHANGED <<ver, inflight, learned, warmer, prefix, rules, conf, admin>>

\* Another session runs the query: wait for it, unless it has just finished.
Join(s) ==
    LET l == inflight[sess[s].arg] IN
    /\ sess[s].pc = "miss"
    /\ l # None
    /\ sess' = [sess EXCEPT ![s] = IF sess[l].pc = "done" THEN Idle(@)
                                   ELSE [@ EXCEPT !.pc = "wait"]]
    /\ UNCHANGED <<ver, mem, inflight, learned, warmer, prefix, rules, conf, admin>>

\* Mutant: the calls in flight are not looked at.
EagerLead(s) ==
    /\ sess[s].pc = "miss"
    /\ inflight' = [inflight EXCEPT ![sess[s].arg] = s]
    /\ sess' = [sess EXCEPT ![s].pc = "lead"]
    /\ UNCHANGED <<ver, mem, learned, warmer, prefix, rules, conf, admin>>

Lead(s) ==
    /\ sess[s].pc = "miss"
    /\ inflight[sess[s].arg] = None
    /\ inflight' = [inflight EXCEPT ![sess[s].arg] = s]
    /\ sess' = [sess EXCEPT ![s].pc = "lead"]
    /\ UNCHANGED <<ver, mem, learned, warmer, prefix, rules, conf, admin>>

\* Mutant: a wait without a time limit.
PatientGiveUp(s) == FALSE /\ UNCHANGED vars

\* sharedWait has passed.
GiveUp(s) ==
    /\ sess[s].pc = "wait"
    /\ sess' = [sess EXCEPT ![s].pc = "alone"]
    /\ UNCHANGED <<ver, mem, inflight, learned, warmer, prefix, rules, conf, admin>>

\* The backend answers the leader, with the rows or with an error.
LeaderAnswered(s) ==
    /\ sess[s].pc = "lead"
    /\ \E v \in {Answer(sess[s].arg), None} :
          sess' = [sess EXCEPT ![s].pc = "read", ![s].val = v]
    /\ UNCHANGED <<ver, mem, inflight, learned, warmer, prefix, rules, conf, admin>>

\* It answers a query run alone, which nobody stores.
AloneAnswered(s) ==
    /\ sess[s].pc = "alone"
    /\ sess' = [sess EXCEPT ![s] = Idle(@)]
    /\ UNCHANGED <<ver, mem, inflight, learned, warmer, prefix, rules, conf, admin>>

\* close(leader.done): whoever waits for the call has its answer.
Publish(s) ==
    /\ sess[s].pc = "read"
    /\ sess' = [t \in Sessions |->
                  IF t = s THEN [sess[s] EXCEPT !.pc = "done"]
                  ELSE IF sess[t].pc = "wait" /\ sess[t].arg = sess[s].arg
                  THEN Idle(sess[t]) ELSE sess[t]]
    /\ UNCHANGED <<ver, mem, inflight, learned, warmer, prefix, rules, conf, admin>>

\* Mutant: an error is stored like an answer.
ErrorStoringForget(s) ==
    /\ sess[s].pc = "done"
    /\ inflight' = [inflight EXCEPT ![sess[s].arg] = None]
    /\ sess' = [sess EXCEPT ![s].pc = "store"]
    /\ UNCHANGED <<ver, mem, learned, warmer, prefix, rules, conf, admin>>

\* The call leaves the table; an error is not stored.
Forget(s) ==
    /\ sess[s].pc = "done"
    /\ inflight' = [inflight EXCEPT ![sess[s].arg] = None]
    /\ sess' = [sess EXCEPT ![s] = IF @.val = None THEN Idle(@)
                                   ELSE [@ EXCEPT !.pc = "store"]]
    /\ UNCHANGED <<ver, mem, learned, warmer, prefix, rules, conf, admin>>

\* store, when the result is not too large.
Stored(q, v, late) ==
    IF Size[q] > conf.maxResult THEN UNCHANGED <<mem, learned>>
    ELSE /\ mem' = Inserted(mem, q, NewEntry(v, late), conf)
         /\ learned' = (learned \/ q = "alloptions")

Store(s) ==
    /\ sess[s].pc = "store"
    /\ Stored(sess[s].arg, sess[s].val, sess[s].late)
    /\ sess' = [sess EXCEPT ![s] = Idle(@)]
    /\ UNCHANGED <<ver, inflight, warmer, prefix, rules, conf, admin>>

-----------------------------------------------------------------------------
(* Paired listings *)

Pairs(s) == Active(sess[s]) /\ Ready /\ rules.bound

\* LookupPaired: the rows are served once their count is known, and the count
\* is kept for the statement that follows.
ListingHit(s) ==
    LET e == mem.entries["listing"] IN
    /\ Starts(s, "listing") /\ Pairs(s)
    /\ e # NoEntry /\ e.count # None
    /\ mem' = MoveToFront(mem, "listing")
    /\ sess' = [sess EXCEPT ![s] = [Broken(@) EXCEPT !.known = e.count]]
    /\ UNCHANGED <<ver, inflight, learned, warmer, prefix, rules, conf, admin>>

\* No entry, none with a count, or an expired one, which is dropped.
ListingMiss(s) ==
    LET e == mem.entries["listing"] IN
    /\ Starts(s, "listing") /\ Pairs(s)
    /\ mem' = Removed(mem, IF e # NoEntry /\ e.count # None THEN {"listing"} ELSE {})
    /\ sess' = [sess EXCEPT ![s].pc = "list", ![s].arg = "listing"]
    /\ UNCHANGED <<ver, inflight, learned, warmer, prefix, rules, conf, admin>>

\* The rows arrive, and the counter of the connection is theirs; or an error.
ListingAnswered(s) ==
    /\ sess[s].pc = "list"
    /\ \/ sess' = [sess EXCEPT ![s].pc = "rows", ![s].val = Answer("listing"),
                               ![s].calc = Answer("listing")]
       \/ sess' = [sess EXCEPT ![s] = Idle(@)]
    /\ UNCHANGED <<ver, mem, inflight, learned, warmer, prefix, rules, conf, admin>>

\* StorePaired; the connection stays attached for the count.
StorePaired(s) ==
    /\ sess[s].pc = "rows"
    /\ IF rules.bound THEN Stored("listing", sess[s].val, sess[s].late)
       ELSE UNCHANGED <<mem, learned>>
    /\ sess' = [sess EXCEPT ![s] = [Idle(@) EXCEPT !.calcPending = TRUE,
                                                   !.known = None]]
    /\ UNCHANGED <<ver, inflight, warmer, prefix, rules, conf, admin>>

\* SELECT FOUND_ROWS() after rows from memory is answered from memory.
CountKnown(s) ==
    /\ Starts(s, "found rows") /\ Active(sess[s])
    /\ sess[s].known # None
    /\ sess' = [sess EXCEPT ![s] = Broken(@)]
    /\ UNCHANGED <<ver, mem, inflight, learned, warmer, prefix, rules, conf, admin>>

\* Otherwise the backend is asked, and its counter completes the entry that
\* is there now: PairFoundRows.
CountAsked(s) ==
    /\ Starts(s, "found rows") /\ Active(sess[s])
    /\ sess[s].known = None /\ sess[s].calcPending
    /\ sess' = [sess EXCEPT ![s].pc = "count"]
    /\ UNCHANGED <<ver, mem, inflight, learned, warmer, prefix, rules, conf, admin>>

PairFoundRows(s) ==
    /\ sess[s].pc = "count"
    /\ \E answered \in BOOLEAN :
          mem' = IF answered /\ "listing" \in Cached(mem)
                 THEN [mem EXCEPT !.entries["listing"].count = sess[s].calc]
                 ELSE mem
    /\ sess' = [sess EXCEPT ![s] = [Broken(@) EXCEPT !.pc = "idle"]]
    /\ UNCHANGED <<ver, inflight, learned, warmer, prefix, rules, conf, admin>>

-----------------------------------------------------------------------------
(* Writes, transactions and invalidation *)

Committed(O) == ver' = [o \in Objects |-> IF o \in O THEN ver[o] + 1 ELSE ver[o]]
Room(O)      == \A o \in O : ver[o] < MaxVersion

\* The backend has run a write: in a transaction it is not visible yet, and
\* remembered for COMMIT.
Write(s, w) ==
    LET x == sess[s] IN
    /\ Starts(s, w) /\ w \in Writes
    /\ Room(Touches(w))
    /\ IF x.inTx THEN UNCHANGED ver ELSE Committed(Touches(w))
    /\ LET full == Len(x.txWrites) >= MaxTrackedTxWrites
           y == [Broken(x) EXCEPT
                   !.dirty    = IF x.inTx THEN @ \cup Touches(w) ELSE @,
                   !.overflow = @ \/ (~x.unsafe /\ x.inTx /\ full),
                   !.txWrites = IF ~x.unsafe /\ x.inTx /\ ~full
                                THEN Append(@, w) ELSE @]
       IN  sess' = [sess EXCEPT ![s] =
                       IF x.unsafe THEN y
                       ELSE [y EXCEPT !.pc = "observe", !.todo = <<w>>]]
    /\ UNCHANGED <<mem, inflight, learned, warmer, prefix, rules, conf, admin>>

\* Mutant: a commit is not invalidated again.
ForgetfulReplay(x) == <<>>

\* endTx: what a commit invalidates again.
Replay(x) == IF x.unsafe THEN <<>> ELSE IF x.overflow THEN <<"flush">> ELSE x.txWrites

\* The statements that open and close a transaction.  "restart" is a BEGIN in
\* an open transaction, which commits it; "autocommit off" disables the cache
\* of the session, whose statements are in a transaction from then on.
Control(s, k) ==
    LET x == Broken(sess[s])
        ended == [x EXCEPT !.inTx = FALSE, !.dirty = {}, !.txWrites = <<>>,
                           !.overflow = FALSE]
    IN  /\ Starts(s, k)
        /\ CASE k = "begin"          -> ~x.inTx
             [] k = "autocommit off" -> ~x.inTx
             [] OTHER                -> k \in {"commit", "rollback", "restart"} /\ x.inTx
        /\ k \in {"commit", "restart"} => Room(x.dirty)
        /\ Committed(IF k \in {"commit", "restart"} THEN x.dirty ELSE {})
        /\ sess' = [sess EXCEPT ![s] =
              CASE k = "begin"          -> [x EXCEPT !.inTx = TRUE]
                [] k = "restart"        -> [x EXCEPT !.dirty = {}]
                [] k = "autocommit off" -> [x EXCEPT !.inTx = TRUE, !.unsafe = TRUE]
                [] k = "rollback" \/ (k = "commit" /\ Replay(x) = <<>>)
                                        -> [ended EXCEPT !.inTx = x.unsafe]
                [] OTHER -> [ended EXCEPT !.pc = "observe", !.todo = Replay(x)]]
        /\ UNCHANGED <<mem, inflight, learned, warmer, prefix, rules, conf, admin>>

\* A prepared SELECT: the cache is bypassed, a pending listing is not broken,
\* and the counter of the connection is no longer the listing's.
ExecuteStmt(s) ==
    /\ Starts(s, "prepared select")
    /\ sess' = [sess EXCEPT ![s].calc = IF sess[s].calcPending THEN OtherCount ELSE None]
    /\ UNCHANGED <<ver, mem, inflight, learned, warmer, prefix, rules, conf, admin>>

\* The client leaves and the next one takes its place.
Disconnect(s) ==
    /\ sess[s].pc = "idle"
    /\ sess[s] # NewSession
    /\ sess' = [sess EXCEPT ![s] = NewSession]
    /\ UNCHANGED <<ver, mem, inflight, learned, warmer, prefix, rules, conf, admin>>

\* After an invalidation: ask for a fetch, take the next write, or be done.
Proceeds(x, refetch) ==
    IF refetch THEN [x EXCEPT !.pc = "trigger"]
    ELSE IF x.todo = <<>> THEN Idle(x) ELSE [x EXCEPT !.pc = "observe"]

\* InvalidateWrite for the next write of todo, or Flush.  A cache that does
\* not know the prefix has nothing to drop.
Invalidate(s) ==
    LET w == Head(sess[s].todo)
        x == [sess[s] EXCEPT !.todo = Tail(@)]
    IN  /\ sess[s].pc = "observe"
        /\ \/ /\ ~Ready /\ w # "flush"
              /\ Detecting
              /\ sess' = [sess EXCEPT ![s] = Proceeds(x, FALSE)]
              /\ UNCHANGED <<mem, warmer>>
           \/ /\ Ready \/ w = "flush"
              /\ mem' = DropTags(mem, Dropped(w))
              /\ sess' = [Overtaken(Dropped(w)) EXCEPT
                            ![s] = Proceeds(x, Warmup /\ learned /\ HitsAutoload(w))]
              /\ warmer' = OvertakenWarmer(Dropped(w))
              /\ UNCHANGED prefix
        /\ UNCHANGED <<ver, inflight, learned, rules, conf, admin>>

\* Warmer.Trigger, first the map, then the channel, which holds one kick.
Trigger(s) ==
    /\ sess[s].pc = "trigger"
    /\ warmer' = [warmer EXCEPT !.pending = TRUE]
    /\ sess' = [sess EXCEPT ![s].pc = "kick"]
    /\ UNCHANGED <<ver, mem, inflight, learned, prefix, rules, conf, admin>>

\* Mutant: a channel without a buffer takes the kick only from a warmer that
\* waits for it.
UnbufferedKick(s) ==
    /\ sess[s].pc = "kick"
    /\ warmer' = [warmer EXCEPT !.kick = (warmer.pc = "sleep")]
    /\ sess' = [sess EXCEPT ![s] = Proceeds(@, FALSE)]
    /\ UNCHANGED <<ver, mem, inflight, learned, prefix, rules, conf, admin>>

Kick(s) ==
    /\ sess[s].pc = "kick"
    /\ warmer' = [warmer EXCEPT !.kick = TRUE]
    /\ sess' = [sess EXCEPT ![s] = Proceeds(@, FALSE)]
    /\ UNCHANGED <<ver, mem, inflight, learned, prefix, rules, conf, admin>>

-----------------------------------------------------------------------------
(* The warmer *)

WarmerWakes ==
    /\ warmer.pc = "sleep" /\ warmer.kick
    /\ warmer' = [warmer EXCEPT !.pc = "debounce", !.kick = FALSE]
    /\ UNCHANGED <<ver, mem, inflight, learned, sess, prefix, rules, conf, admin>>

\* The debounce has passed: the batch is taken.
WarmerTakes ==
    /\ warmer.pc = "debounce"
    /\ warmer' = [warmer EXCEPT !.pc = IF warmer.pending THEN "fetch" ELSE "sleep",
                                !.pending = FALSE]
    /\ UNCHANGED <<ver, mem, inflight, learned, sess, prefix, rules, conf, admin>>

\* refetch: no connection or an error ends it.
WarmerFetches ==
    /\ warmer.pc = "fetch"
    /\ \/ warmer' = [warmer EXCEPT !.pc = "warm", !.val = Answer("alloptions")]
       \/ warmer' = [warmer EXCEPT !.pc = "sleep"]
    /\ UNCHANGED <<ver, mem, inflight, learned, sess, prefix, rules, conf, admin>>

\* Warm.
WarmerStores ==
    /\ warmer.pc = "warm"
    /\ IF Cacheable("alloptions") THEN Stored("alloptions", warmer.val, warmer.late)
       ELSE UNCHANGED <<mem, learned>>
    /\ warmer' = [warmer EXCEPT !.pc = "sleep", !.val = None, !.late = FALSE]
    /\ UNCHANGED <<ver, inflight, sess, prefix, rules, conf, admin>>

-----------------------------------------------------------------------------
(* The detection of the prefix *)

\* The options table is found and the rules compiled as they are now; or not.
DetectCompiles ==
    /\ prefix.detect = "running"
    /\ \/ prefix' = [prefix EXCEPT !.detect = "compiled", !.draft = rules.raw]
       \/ prefix' = [prefix EXCEPT !.detect = "none"]
    /\ UNCHANGED <<ver, mem, inflight, learned, sess, warmer, rules, conf, admin>>

DetectBinds ==
    /\ prefix.detect = "compiled"
    /\ prefix' = [known |-> TRUE, detect |-> "none", draft |-> FALSE]
    /\ rules' = [rules EXCEPT !.bound = prefix.draft]
    /\ UNCHANGED <<ver, mem, inflight, learned, sess, warmer, conf, admin>>

-----------------------------------------------------------------------------
(* A reload: SetRules, then SetConfig *)

ReloadRules ==
    /\ admin.pc = "idle" /\ admin.reloads < MaxReloads
    /\ \E r \in BOOLEAN : rules' = [rules EXCEPT !.raw = r]
    /\ admin' = [pc |-> "bind", had |-> Ready, reloads |-> admin.reloads + 1]
    /\ UNCHANGED <<ver, mem, inflight, learned, sess, warmer, prefix, conf>>

ReloadBinds ==
    /\ admin.pc = "bind"
    /\ rules' = IF admin.had THEN [rules EXCEPT !.bound = rules.raw] ELSE rules
    /\ admin' = [admin EXCEPT !.pc = "flush"]
    /\ UNCHANGED <<ver, mem, inflight, learned, sess, warmer, prefix, conf>>

ReloadFlushes ==
    /\ admin.pc = "flush"
    /\ mem' = DropTags(mem, Tags)
    /\ sess' = Overtaken(Tags)
    /\ warmer' = OvertakenWarmer(Tags)
    /\ admin' = [admin EXCEPT !.pc = IF Warmup /\ learned THEN "trigger" ELSE "config"]
    /\ UNCHANGED <<ver, inflight, learned, prefix, rules, conf>>

ReloadTriggers ==
    /\ admin.pc \in {"trigger", "kick"}
    /\ IF admin.pc = "trigger"
       THEN /\ warmer' = [warmer EXCEPT !.pending = TRUE]
            /\ admin' = [admin EXCEPT !.pc = "kick"]
       ELSE /\ warmer' = [warmer EXCEPT !.kick = TRUE]
            /\ admin' = [admin EXCEPT !.pc = "config"]
    /\ UNCHANGED <<ver, mem, inflight, learned, sess, prefix, rules, conf>>

ReloadConfigures ==
    /\ admin.pc = "config"
    /\ conf' \in Confs
    /\ admin' = [admin EXCEPT !.pc = "idle"]
    /\ UNCHANGED <<ver, mem, inflight, learned, sess, warmer, prefix, rules>>

-----------------------------------------------------------------------------
\* What a client asks for.
Command(s) ==
    \/ \E q \in Keys : ReadAlone(s, q) \/ LookupHit(s, q) \/ LookupMiss(s, q)
    \/ ListingHit(s) \/ ListingMiss(s) \/ CountKnown(s) \/ CountAsked(s)
    \/ \E w \in Writes : Write(s, w)
    \/ \E k \in Statements : Control(s, k)
    \/ ExecuteStmt(s) \/ Disconnect(s)

\* What its goroutine does on its own.
Continue(s) ==
    \/ Join(s) \/ Lead(s) \/ GiveUp(s) \/ Publish(s) \/ Forget(s) \/ Store(s)
    \/ StorePaired(s) \/ Invalidate(s) \/ Trigger(s) \/ Kick(s)

\* What takes the backend's answer.
Answered(s) ==
    LeaderAnswered(s) \/ AloneAnswered(s) \/ ListingAnswered(s) \/ PairFoundRows(s)

WarmerStep == WarmerWakes \/ WarmerTakes \/ WarmerFetches \/ WarmerStores
DetectStep == DetectCompiles \/ DetectBinds
ReloadStep == ReloadBinds \/ ReloadFlushes \/ ReloadTriggers \/ ReloadConfigures

Next ==
    \/ \E s \in Sessions : Command(s) \/ Continue(s) \/ Answered(s)
    \/ WarmerStep \/ DetectStep \/ ReloadRules \/ ReloadStep

Spec == Init /\ [][Next]_vars

\* Goroutines are scheduled and timers fire.  Nothing makes the backend answer
\* a session; it is assumed to answer the warmer, whose round trips nothing
\* bounds.
Fairness ==
    /\ \A s \in Sessions : WF_vars(Continue(s))
    /\ WF_vars(WarmerStep)
    /\ WF_vars(ReloadStep)

FairSpec == Spec /\ Fairness

-----------------------------------------------------------------------------
(* Properties *)

\* Labels and values of the state.
TypeOK ==
    /\ ver \in [Objects -> 0..MaxVersion]
    /\ inflight \in [Keys -> Sessions \cup {None}]
    /\ \A s \in Sessions :
          /\ sess[s].pc \in Filling \cup {"idle", "miss", "lead", "wait", "alone", "list",
                                         "count", "observe", "trigger", "kick"}
          /\ sess[s].pc = "observe" <=> sess[s].todo # <<>> /\ sess[s].pc \notin {"trigger", "kick"}
          /\ Len(sess[s].txWrites) <= MaxTrackedTxWrites
          /\ sess[s].pc \in Filling \ {"read", "done"} => sess[s].val # None
    /\ warmer.pc \in {"sleep", "debounce", "fetch", "warm"}
    /\ admin.pc \in {"idle", "bind", "flush", "trigger", "kick", "config"}
    /\ conf \in Confs

\* The four indexes of the cache agree: the list and the map hold the same
\* entries, the tag index holds exactly the entries that carry each tag (one it
\* lost would never be dropped by a write), and bytes is what they hold.
IndexesAgree ==
    /\ ToSet(mem.lru) = Cached(mem)
    /\ Len(mem.lru) = Cardinality(Cached(mem))
    /\ \A t \in Tags : mem.byTag[t] = {k \in Cached(mem) : t \in TagsOf(k)}
    /\ mem.bytes = SumSizes(Cached(mem))

\* "a smaller budget is enforced by the next insertion" (cache.go:175): after an
\* insertion both bounds in force hold, whatever a reload has made of them; a
\* single entry may exceed the bytes.
BudgetEnforced ==
    [][(\E k \in Keys : mem.entries[k] = NoEntry /\ mem'.entries[k] # NoEntry)
       => /\ Len(mem'.lru) <= conf.maxEntries
          /\ conf.maxBytes = 0 \/ mem'.bytes <= conf.maxBytes \/ Len(mem'.lru) = 1]_vars

\* "one of them executes it and the others wait for that result"
\* (cache.go:321): one session at a time runs a cacheable query as a leader, it
\* is the one the others find, and whoever waits has a leader that has yet to
\* publish.
SingleFlight ==
    \A s \in Sessions :
       /\ sess[s].pc \in {"lead", "read", "done"} => inflight[sess[s].arg] = s
       /\ sess[s].pc = "wait" =>
             LET l == inflight[sess[s].arg] IN
             /\ l # None
             /\ sess[l].pc \in {"lead", "read"}
             /\ sess[l].arg = sess[s].arg

\* The writes to o that are committed and that gora has yet to invalidate.
Unobserved(o) ==
    \E s \in Sessions : \E w \in ToSet(sess[s].todo) : o \in Touches(w)

Outdated(k) ==
    \E o \in Deps(k) : mem.entries[k].val[o] # ver[o] /\ ~Unobserved(o)

\* Write-driven invalidation (cache.go:12), with its transactions that write
\* under other sessions' fills, its replay at COMMIT, its overflow, its
\* attribution to names, the detection that lets writes pass and the warmer:
\* an entry can only be older than the database because its fill was overtaken
\* by the invalidation, or for the moment a write takes to be observed.
StaleOnlyIfOvertaken ==
    \A k \in Cached(mem) : Outdated(k) => mem.entries[k].late

\* "a stuck leader must not take every reader down with it" (cache.go:45): a
\* session that waits for another one stops waiting, even if the backend never
\* answers anybody.
WaitersReleased ==
    \A s \in Sessions : sess[s].pc = "wait" ~> sess[s].pc # "wait"

\* "gora refetches it in the background straight away" (README.md:70): no
\* request for a fetch is left in the map with the warmer asleep, although the
\* channel holds a single kick and drops the others.
WarmUpHappens == warmer.pending ~> warmer.pc = "fetch"

-----------------------------------------------------------------------------
(* Promises of the comments that TLC refutes (README.md says how) *)

\* "every write flowing through gora drops exactly the entries it can affect"
\* (cache.go:12): once its writes are observed, no entry is older than the
\* database.
WritesDropTheirEntries == \A k \in Cached(mem) : ~Outdated(k)

\* "serving rows with somebody else's count would silently corrupt" pages
\* (paired.go:18): a count is that of the execution that returned the rows.
CountBelongsToRows ==
    LET e == mem.entries["listing"] IN
    e # NoEntry /\ e.count # None => e.count = e.val

\* "Nothing is applied unless everything parses" and the rest is (service.go:283):
\* when a reload is over, the rules in force are those it read.
ReloadTakesEffect ==
    admin.pc \in {"idle", "config"} /\ Ready => rules.bound = rules.raw

=============================================================================
