------------------------------ MODULE Cluster ------------------------------
(***************************************************************************)
(* The cluster behind the proxy: the topology a running gora keeps         *)
(* (internal/topology), the replication manager that reconciles the MySQL  *)
(* servers and fails over (internal/replication), the one-shot commands    *)
(* that run in a process of their own (cmd/gora/cluster.go), and the state *)
(* file, the only thing the two processes share.                           *)
(*                                                                         *)
(* In the daemon two goroutines change the topology: the health loop       *)
(* (Topology.Run) and the manager's loop (Manager.Run).  Each step below   *)
(* is one statement sent to a server, one critical section of t.mu or      *)
(* s.mu, or one file operation.  Taken as one step: the two SET GLOBAL     *)
(* that open a new primary, the preparation of a node before its first     *)
(* STOP REPLICA, and the additions, then the removals, of one syncState.   *)
(* A statement that fails is a server that is lost around it: it leaves    *)
(* the server as it was, and the operation gives up there.                 *)
(*                                                                         *)
(* Replication is managed and a state file is configured.  Commands run    *)
(* one after the other.  Lag is what MaxReplicaLag makes of it: "fresh" is *)
(* a lag that is known and within the limit.  Of a node's pool the model   *)
(* keeps the idle connection a check is given (module Pool has the rest).  *)
(***************************************************************************)
EXTENDS Naturals, FiniteSets

CONSTANTS
    Nodes,         \* the MySQL servers that exist
    NoNode,        \* no server: an empty address
    Host,          \* the host in each node's address, which also has a port
    ConfPrimary,   \* backend.address
    ConfReplicas,  \* backend.replicas
    Automatic,     \* replication.failover: automatic
    LagLimited,    \* routing.max_replica_lag > 0
    Lifetime,      \* pool.max_lifetime > 0
    Commands,      \* the commands an operator may run: [verb, node]
    MaxCommands,   \* bound: commands run
    MaxFaults,     \* bound: servers lost, checks timed out, saves failed
    MaxCrashes     \* bound: crashes of the daemon

Verbs == {"promote", "add", "remove"}
Procs == {"daemon", "cli"}

ASSUME NodesAssumption ==
    /\ ConfPrimary \in Nodes /\ ConfReplicas \subseteq Nodes
    /\ ConfPrimary \notin ConfReplicas /\ NoNode \notin Nodes
ASSUME HostAssumption == DOMAIN Host = Nodes
ASSUME ModesAssumption == {Automatic, LagLimited, Lifetime} \subseteq BOOLEAN
ASSUME CommandsAssumption == Commands \subseteq [verb : Verbs, node : Nodes]
ASSUME BoundsAssumption == {MaxCommands, MaxFaults, MaxCrashes} \subseteq Nat

VARIABLES
    server,    \* each MySQL server: up, read-only, its source, and whether
               \* its replication threads run
    file,      \* the state file
    mem,       \* each process's State: the record as it last knew it
    topo,      \* each process's Topology: the primary and the replicas
    view,      \* what the daemon's last check said of each node
    parked,    \* the idle connection in each node's pool, if there is one
    health,    \* where the daemon's health loop stands
    job,       \* where each process's reconcile, promotion or command stands
    applying,  \* nodes whose SQL thread ran when the manager last looked
    downSince, \* Manager.downSince: "zero", "recent", "long" ago
    faults, crashes, commands

servers == <<server, faults>>
daemon  == <<view, parked, health>>
manager == <<applying, downSince>>
vars == <<server, file, mem, topo, view, parked, health, job,
          applying, downSince, faults, crashes, commands>>

Maybe == Nodes \cup {NoNode}
Record == [primary : Maybe, added : SUBSET Nodes, removed : SUBSET Nodes]

\* An empty record, and a file that does not exist: no save writes this one.
NoRecord == [primary |-> NoNode, added |-> {}, removed |-> {}]

-----------------------------------------------------------------------------
(* The topology as a value. *)

\* State.Members: (backend.replicas \cup Added) \ Removed.
Members(d) == (ConfReplicas \cup d.added) \ d.removed

\* Mutant: the promoted node stays among the replicas.
KeepingSwapped(t, n) ==
    [primary |-> n, replicas |-> t.replicas \cup {t.primary}]

\* Topology.Promote on the two fields it swaps.
Swapped(t, n) ==
    [primary |-> n, replicas |-> (t.replicas \ {n}) \cup {t.primary}]

\* New: the configured primary, the recorded members, and the recorded
\* promotion restored when its node is still one of them.
Built(d) ==
    LET t == [primary |-> ConfPrimary, replicas |-> Members(d)]
    IN  IF d.primary \in t.replicas THEN Swapped(t, d.primary) ELSE t

NodesOf(x) == topo[x].replicas \cup {topo[x].primary}

\* Mutant: the lag of a new node is the zero it starts as.
ZeroLagUnchecked == [up |-> TRUE, ro |-> FALSE, fresh |-> TRUE]

\* newNode: assumed reachable until a check says otherwise, lag unknown.
Unchecked == [up |-> TRUE, ro |-> FALSE, fresh |-> FALSE]

\* The views of a topology that was just built from d.
BuiltView(d) ==
    [n \in Nodes |->
        [Unchecked EXCEPT !.fresh = n = Built(d).primary /\ n # ConfPrimary]]

\* The lags Promote stores: 0 for the new primary, unknown for the old one.
SwappedView(n) ==
    [view EXCEPT ![topo["daemon"].primary].fresh = FALSE, ![n].fresh = TRUE]

\* topo.Promote(n) by process x, which holds t.mu.
TopoPromote(x, n) ==
    /\ topo' = [topo EXCEPT ![x] = Swapped(@, n)]
    /\ view' = IF x = "daemon" THEN SwappedView(n) ELSE view

-----------------------------------------------------------------------------
(* Routing: what sessions ask of the topology. *)

Eligible(n) == view[n].up /\ (LagLimited => view[n].fresh)

\* PickReader: an eligible replica, the primary when there is none.
Readers ==
    LET able == {r \in topo["daemon"].replicas : Eligible(r)}
    IN  IF able = {} THEN {topo["daemon"].primary} ELSE able

WritesAccepted ==
    LET p == topo["daemon"].primary IN view[p].up /\ ~view[p].ro

-----------------------------------------------------------------------------
(* The MySQL servers. *)

ServerDown(n) ==
    /\ faults < MaxFaults /\ server[n].up
    /\ server' = [server EXCEPT ![n].up = FALSE]
    /\ parked' = [parked EXCEPT ![n] = IF @ = "live" THEN "dead" ELSE @]
    /\ faults' = faults + 1
    /\ UNCHANGED <<file, mem, topo, view, health, job, manager, crashes, commands>>

\* read_only was set with SET PERSIST and the source is in the server's own
\* tables.  A server that was out of reach comes back as it went; one that was
\* restarted starts the replication it is configured for by itself.
ServerUp(n) ==
    /\ ~server[n].up
    /\ \E run \in {server[n].run, server[n].src # NoNode} :
          server' = [server EXCEPT ![n].up = TRUE, ![n].run = run]
    /\ UNCHANGED <<file, mem, topo, daemon, job, manager, faults, crashes, commands>>

\* A dead connection leaves the pool when a session that got it fails, or at
\* max_lifetime.
Drop(n) ==
    /\ parked[n] = "dead"
    /\ parked' = [parked EXCEPT ![n] = "none"]
    /\ UNCHANGED <<servers, file, mem, topo, view, health, job, manager, crashes, commands>>

-----------------------------------------------------------------------------
(* The health loop: check every node, wait, syncState, and again. *)

\* "wait": not asked yet; "asPrimary", "asReplica": read_only is read and so
\* is the node's role, the lag is being read; "done": checked, or no node.
Asked == [Nodes -> {"wait", "asPrimary", "asReplica", "done"}]

Round(ns) == [n \in Nodes |-> IF n \in ns THEN "wait" ELSE "done"]

Checking(n, stage) == health.pc = "check" /\ health.asked[n] = stage

Ask(n) ==
    health' = [health EXCEPT !.asked[n] =
                 IF n = topo["daemon"].primary THEN "asPrimary" ELSE "asReplica"]

\* check, up to the role: acquire a connection and read read_only.
CheckAsk(n) ==
    /\ Checking(n, "wait") /\ server[n].up /\ parked[n] # "dead"
    /\ view' = [view EXCEPT ![n].ro = server[n].ro]
    /\ parked' = [parked EXCEPT ![n] = "live"]
    /\ Ask(n)
    /\ UNCHANGED <<servers, file, mem, topo, job, manager, crashes, commands>>

\* revive trusts a connection parked within two ping intervals, and every
\* ReleaseClean parks it anew: a dead one is handed out unasked, read_only
\* cannot be read, and the check goes on.
CheckAskDead(n) ==
    /\ Checking(n, "wait") /\ parked[n] = "dead"
    /\ Ask(n)
    /\ UNCHANGED <<servers, file, mem, topo, view, parked, job, manager, crashes, commands>>

\* Mutant: the failure is counted and the lag forgotten, up stays.
LagOnlyMarkDown(n) ==
    /\ view' = [view EXCEPT ![n].fresh = FALSE]
    /\ health' = [health EXCEPT !.asked[n] = "done"]

MarkDown(n) ==
    /\ view' = [view EXCEPT ![n].up = FALSE, ![n].fresh = FALSE]
    /\ health' = [health EXCEPT !.asked[n] = "done"]

CheckFails(n) ==
    /\ Checking(n, "wait") /\ ~server[n].up /\ parked[n] # "dead"
    /\ MarkDown(n)
    /\ UNCHANGED <<servers, file, mem, topo, parked, job, manager, crashes, commands>>

\* The check goes through the pool the clients use: every connection busy for
\* longer than checkTimeout is a server that does not answer.
CheckTimesOut(n) ==
    /\ Checking(n, "wait") /\ server[n].up /\ faults < MaxFaults
    /\ MarkDown(n)
    /\ faults' = faults + 1
    /\ UNCHANGED <<server, file, mem, topo, parked, job, manager, crashes, commands>>

\* check, from the role on.  Seconds_Behind is NULL unless the server is
\* replicating from one that answers, and a dead connection tells no lag; the
\* node is marked up all the same.
LagReadable(n) ==
    /\ parked[n] = "live" /\ server[n].run
    /\ server[n].src # NoNode /\ server[server[n].src].up

CheckStore(n) ==
    /\ health.pc = "check" /\ health.asked[n] \in {"asPrimary", "asReplica"}
    /\ \E fresh \in IF health.asked[n] = "asPrimary" THEN {TRUE}
                    ELSE IF LagReadable(n) THEN BOOLEAN ELSE {FALSE} :
            view' = [view EXCEPT ![n].up = TRUE, ![n].fresh = fresh]
    /\ health' = [health EXCEPT !.asked[n] = "done"]
    /\ UNCHANGED <<servers, file, mem, topo, parked, job, manager, crashes, commands>>

\* The ticker fires and State.Load reads the file...
SyncRead ==
    /\ health.pc = "check" /\ \A n \in Nodes : health.asked[n] = "done"
    /\ health' = [health EXCEPT !.pc = "load", !.doc = file]
    /\ UNCHANGED <<servers, file, mem, topo, view, parked, job, manager, crashes, commands>>

\* ... replaces the record in memory with it, if there was a file, and adds
\* what Members lists and the topology lacks.
SyncLoad ==
    /\ health.pc = "load"
    /\ LET d      == IF health.doc = NoRecord THEN mem["daemon"] ELSE health.doc
           wanted == Members(d)
           new    == wanted \ NodesOf("daemon")
       IN  /\ mem' = [mem EXCEPT !["daemon"] = d]
           /\ topo' = [topo EXCEPT !["daemon"].replicas = @ \cup new]
           /\ view' = [n \in Nodes |-> IF n \in new THEN Unchecked ELSE view[n]]
           /\ health' = [health EXCEPT !.pc = "drop", !.doc = NoRecord,
                                       !.wanted = wanted]
    /\ UNCHANGED <<servers, file, parked, job, manager, crashes, commands>>

\* Mutant: the test for being listed is inverted.
ListedReplicas == topo["daemon"].replicas \cap health.wanted

UnlistedReplicas == topo["daemon"].replicas \ health.wanted

\* RemoveNode for every replica Members did not list; the primary is never
\* dropped.  The pool is closed.  What the last check said stays with the node,
\* for a reconcile that captured it.
SyncDrop ==
    /\ health.pc = "drop"
    /\ topo' = [topo EXCEPT !["daemon"].replicas = @ \ UnlistedReplicas]
    /\ parked' = [n \in Nodes |-> IF n \in UnlistedReplicas THEN "none" ELSE parked[n]]
    /\ health' = [health EXCEPT !.pc = "adopt", !.wanted = {}]
    /\ UNCHANGED <<servers, file, mem, view, job, manager, crashes, commands>>

\* A recorded primary this topology knows is adopted; one it does not know is
\* passed over in silence.  Then checkAll takes the nodes as they are now.
SyncAdopt ==
    /\ health.pc = "adopt"
    /\ LET p == mem["daemon"].primary
       IN  IF p \in topo["daemon"].replicas
           THEN TopoPromote("daemon", p)
           ELSE UNCHANGED <<topo, view>>
    /\ health' = [pc |-> "check", doc |-> NoRecord, wanted |-> {},
                  asked |-> Round(NodesOf("daemon"))]
    /\ UNCHANGED <<servers, file, mem, parked, job, manager, crashes, commands>>

-----------------------------------------------------------------------------
(* Jobs: the manager's reconcile and promotion, and the commands.          *)
(*                                                                         *)
(*   base   the primary captured at the start, then the promoted node:     *)
(*          what the others are pointed at                                 *)
(*   todo   nodes still to read, or to point at the new primary            *)
(*   other  the node being pointed at base                                 *)
(*   back   where its pointing returns to                                  *)

Idle == [pc |-> "idle", verb |-> "promote", node |-> NoNode, base |-> NoNode,
         other |-> NoNode, back |-> "idle", todo |-> {}, doc |-> NoRecord]

Quiet == UNCHANGED <<daemon, crashes>>

Go(x, pc) == job' = [job EXCEPT ![x].pc = pc]
Finish(x) == job' = [job EXCEPT ![x] = Idle]

\* An error in startReplication: logged by Reconcile and Promote, which go on;
\* the end of the command that adds a node.
GiveUp(x) ==
    IF job[x].back = "assign" THEN Finish(x) ELSE Go(x, job[x].back)

\* The manager's ticker: Reconcile captures the primary and the nodes.
Tick ==
    /\ job["daemon"].pc = "idle"
    /\ job' = [job EXCEPT !["daemon"] =
                 [Idle EXCEPT !.pc = "reads", !.todo = NodesOf("daemon"),
                              !.base = topo["daemon"].primary]]
    /\ UNCHANGED <<servers, file, mem, topo, manager, commands>> /\ Quiet

\* A command starts as a process of its own: it reads the file, builds a
\* topology, refuses what that topology makes meaningless.
Begin(c) ==
    LET t == Built(file) IN
    /\ job["cli"].pc = "idle" /\ commands < MaxCommands
    /\ CASE c.verb = "add"     -> c.node \notin t.replicas \cup {t.primary}
         [] c.verb = "remove"  -> c.node \in t.replicas
         [] c.verb = "promote" -> TRUE
    /\ mem' = [mem EXCEPT !["cli"] = file]
    /\ topo' = [topo EXCEPT !["cli"] = t]
    /\ job' = [job EXCEPT !["cli"] =
                 [Idle EXCEPT !.pc = CASE c.verb = "add"     -> "prepare"
                                       [] c.verb = "remove"  -> "assign"
                                       [] c.verb = "promote" -> "reads",
                              !.verb = c.verb, !.node = c.node,
                              !.base = t.primary,
                              !.todo = IF c.verb = "promote"
                                       THEN t.replicas \cup {t.primary} ELSE {}]]
    /\ commands' = commands + 1
    /\ UNCHANGED <<servers, file, manager>> /\ Quiet

\* sameHost: a source is recognised by its host alone, and no source is
\* nobody's.
Follows(n, p) == server[n].src # NoNode /\ Host[server[n].src] = Host[p]

\* Mutant: a node that follows nobody is nobody's stray.
FollowingStray(x, n) ==
    /\ n # job[x].base /\ server[n].up
    /\ server[n].src # NoNode /\ ~Follows(n, job[x].base)

\* A node that answers and follows anybody but the captured primary.
Stray(x, n) ==
    n # job[x].base /\ server[n].up /\ ~Follows(n, job[x].base)

\* One node of Reconcile: read its status, of which the SQL thread is kept; a
\* stray one is to be repointed.
ReadStatus(x) ==
    /\ job[x].pc = "reads"
    /\ \E n \in job[x].todo :
         /\ job' = [job EXCEPT ![x] =
              [@ EXCEPT !.todo = job[x].todo \ {n}, !.back = "reads",
                        !.other = IF Stray(x, n) THEN n ELSE NoNode,
                        !.pc = IF Stray(x, n) THEN "repoint" ELSE "reads"]]
         /\ applying' = IF x # "daemon" THEN applying
                        ELSE IF server[n].up /\ server[n].run
                        THEN applying \cup {n} ELSE applying \ {n}
    /\ UNCHANGED <<servers, file, mem, topo, downSince, commands>> /\ Quiet

\* One statement of a job to server n: where it succeeds the server changes
\* and the job goes on, where it fails the job takes its way out.
Exchange(x, n, succeeds, with, pc, Failed) ==
    /\ IF succeeds
       THEN server' = [server EXCEPT ![n] = with] /\ Go(x, pc)
       ELSE Failed /\ UNCHANGED server
    /\ UNCHANGED <<file, mem, topo, manager, faults, commands>> /\ Quiet

\* pointAt: refuse writes first...
Repoint(x) ==
    LET o == job[x].other IN
    /\ job[x].pc = "repoint"
    /\ Exchange(x, o, server[o].up, [server[o] EXCEPT !.ro = TRUE], "halt", GiveUp(x))

\* ... then follow, which is startReplication: STOP REPLICA, whose error does
\* not matter...
Halt(x) ==
    LET o == job[x].other IN
    /\ job[x].pc = "halt"
    /\ Exchange(x, o, server[o].up, [server[o] EXCEPT !.run = FALSE], "source", GiveUp(x))

\* ... CHANGE SOURCE, refused by a server that replicates...
Source(x) ==
    LET o == job[x].other IN
    /\ job[x].pc = "source"
    /\ Exchange(x, o, server[o].up /\ ~server[o].run,
                [server[o] EXCEPT !.src = job[x].base], "start", GiveUp(x))

\* ... and START REPLICA, refused by one that has no source.
Start(x) ==
    LET o == job[x].other IN
    /\ job[x].pc = "start"
    /\ Exchange(x, o, server[o].up /\ server[o].src # NoNode,
                [server[o] EXCEPT !.run = TRUE], job[x].back, GiveUp(x))

ReadsDone(x) == job[x].pc = "reads" /\ job[x].todo = {}

\* watchPrimary: an answering primary clears the clock, the first look at one
\* that does not starts it, and a short outage is waited out.
WatchUp ==
    /\ ReadsDone("daemon")
    /\ view[job["daemon"].base].up
    /\ downSince' = "zero"
    /\ Finish("daemon")
    /\ UNCHANGED <<servers, file, mem, topo, applying, commands>> /\ Quiet

WatchWait ==
    /\ ReadsDone("daemon")
    /\ ~view[job["daemon"].base].up /\ downSince # "long"
    /\ downSince' = "recent"
    /\ Finish("daemon")
    /\ UNCHANGED <<servers, file, mem, topo, applying, commands>> /\ Quiet


\* bestCandidate: reachable, and its SQL thread ran when its status was last
\* read; which of them is a matter of lag.
Candidates == {n \in topo["daemon"].replicas : view[n].up /\ n \in applying}

WatchFailover ==
    /\ ReadsDone("daemon")
    /\ ~view[job["daemon"].base].up /\ downSince = "long"
    /\ \/ /\ Automatic
          /\ \E n \in Candidates :
                job' = [job EXCEPT !["daemon"].pc = "reset", !["daemon"].node = n]
       \/ /\ ~Automatic \/ Candidates = {}
          /\ Finish("daemon")
    /\ UNCHANGED <<servers, file, mem, topo, manager, commands>> /\ Quiet

\* A command's nodes are never checked, so its primary is up: watchPrimary
\* does nothing there, and the command goes on to Promote.
WatchCommand ==
    /\ ReadsDone("cli")
    /\ Go("cli", "reset")
    /\ UNCHANGED <<servers, file, mem, topo, manager, commands>> /\ Quiet

\* failover_delay goes by.
Elapse ==
    /\ downSince = "recent"
    /\ downSince' = "long"
    /\ UNCHANGED <<servers, file, mem, topo, job, applying, commands>> /\ Quiet

\* Manager.Promote: refuse a node that is unknown, already the primary or
\* not answering; stop replication there...
Reset(x) ==
    LET n == job[x].node IN
    /\ job[x].pc = "reset"
    /\ Exchange(x, n, n \in topo[x].replicas /\ server[n].up,
                [server[n] EXCEPT !.run = FALSE], "forget", Finish(x))

\* ... forget its source with RESET REPLICA ALL, refused by a server that
\* replicates...
Forget(x) ==
    LET n == job[x].node IN
    /\ job[x].pc = "forget"
    /\ Exchange(x, n, server[n].up /\ ~server[n].run,
                [server[n] EXCEPT !.src = NoNode], "open", Finish(x))

\* Mutant: read_only is left as it was.
HalfOpen(x) ==
    /\ job[x].pc = "open"
    /\ Go(x, "switch")
    /\ UNCHANGED <<servers, file, mem, topo, manager, commands>> /\ Quiet

\* ... make it writable...
Open(x) ==
    LET n == job[x].node IN
    /\ job[x].pc = "open"
    /\ Exchange(x, n, server[n].up, [server[n] EXCEPT !.ro = FALSE], "switch", Finish(x))

\* ... send the writes to it...
Switch(x) ==
    LET n == job[x].node IN
    /\ job[x].pc = "switch"
    /\ IF n \in topo[x].replicas
       THEN /\ TopoPromote(x, n)
            /\ job' = [job EXCEPT ![x].pc = "assign", ![x].base = n]
       ELSE Finish(x) /\ UNCHANGED <<topo, view>>
    /\ UNCHANGED <<servers, file, mem, parked, health, manager, crashes, commands>>

\* ... and record it: SetPrimary, AddNode or RemoveNode on the record in
\* memory, whose other fields are whatever this process last read.
Assign(x) ==
    LET n == job[x].node IN
    /\ job[x].pc = "assign"
    /\ mem' = [mem EXCEPT ![x] =
         CASE job[x].verb = "promote" -> [@ EXCEPT !.primary = n]
           [] job[x].verb = "add"     -> [@ EXCEPT !.added = mem[x].added \cup {n},
                                                   !.removed = mem[x].removed \ {n}]
           [] job[x].verb = "remove"  -> [@ EXCEPT !.added = mem[x].added \ {n},
                                                   !.removed = mem[x].removed \cup {n}]]
    /\ Go(x, "marshal")
    /\ UNCHANGED <<servers, file, topo, manager, commands>> /\ Quiet

\* save takes s.mu again to marshal what is in memory by then...
Marshal(x) ==
    /\ job[x].pc = "marshal"
    /\ job' = [job EXCEPT ![x].pc = "write", ![x].doc = mem[x]]
    /\ UNCHANGED <<servers, file, mem, topo, manager, commands>> /\ Quiet

\* The nodes a promotion points at the new primary, as they are by then.
OtherNodes(x) == topo[x].replicas

\* A promotion goes on to the other nodes whether or not it was recorded.
AfterSave(x) ==
    IF job[x].verb = "promote"
    THEN job' = [job EXCEPT ![x] = [@ EXCEPT !.pc = "follow", !.doc = NoRecord,
                                            !.todo = OtherNodes(x)]]
    ELSE Finish(x)

\* ... and renames a whole new file over the old one.
Write(x) ==
    /\ job[x].pc = "write"
    /\ file' = job[x].doc
    /\ AfterSave(x)
    /\ UNCHANGED <<servers, mem, topo, manager, commands>> /\ Quiet

SaveFails(x) ==
    /\ job[x].pc = "write" /\ faults < MaxFaults
    /\ AfterSave(x)
    /\ faults' = faults + 1
    /\ UNCHANGED <<server, file, mem, topo, manager, commands>> /\ Quiet

Follow(x) ==
    /\ job[x].pc = "follow"
    /\ \/ \E o \in job[x].todo :
            job' = [job EXCEPT ![x] = [@ EXCEPT !.pc = "repoint", !.other = o,
                          !.back = "follow", !.todo = job[x].todo \ {o}]]
       \/ job[x].todo = {} /\ Finish(x)
    /\ UNCHANGED <<servers, file, mem, topo, manager, commands>> /\ Quiet

\* AddReplica on the servers: the primary and the node must answer, and the
\* node refuses writes from here on.  One with data of its own is refused,
\* unless it follows the primary already.
Prepare ==
    LET n == job["cli"].node
        p == job["cli"].base
    IN
    /\ job["cli"].pc = "prepare"
    /\ IF server[p].up /\ server[n].up
       THEN /\ server' = [server EXCEPT ![n].ro = TRUE]
            /\ \/ Go("cli", "seed")
               \/ IF Follows(n, p) THEN Go("cli", "assign") ELSE Finish("cli")
       ELSE Finish("cli") /\ UNCHANGED server
    /\ UNCHANGED <<file, mem, topo, manager, faults, commands>> /\ Quiet

\* Clone the primary when it has data, then startReplication.
Seed ==
    LET n == job["cli"].node
        p == job["cli"].base
    IN
    /\ job["cli"].pc = "seed"
    /\ \/ /\ server[n].up
          /\ job' = [job EXCEPT !["cli"] = [@ EXCEPT !.pc = "halt", !.other = n,
                                                    !.back = "assign"]]
       \/ /\ ~server[n].up \/ ~server[p].up
          /\ Finish("cli")
    /\ UNCHANGED <<servers, file, mem, topo, manager, commands>> /\ Quiet

-----------------------------------------------------------------------------
\* The daemon is killed and started again: all it knows is the file.
CrashRestart ==
    /\ crashes < MaxCrashes
    /\ crashes' = crashes + 1
    /\ mem' = [mem EXCEPT !["daemon"] = file]
    /\ topo' = [topo EXCEPT !["daemon"] = Built(file)]
    /\ view' = BuiltView(file) /\ parked' = [n \in Nodes |-> "none"]
    /\ health' = [pc |-> "check", doc |-> NoRecord, wanted |-> {},
                  asked |-> Round(LET t == Built(file) IN t.replicas \cup {t.primary})]
    /\ job' = [job EXCEPT !["daemon"] = Idle]
    /\ applying' = {} /\ downSince' = "zero"
    /\ UNCHANGED <<servers, file, commands>>

Init ==
    /\ server = [n \in Nodes |->
         [up |-> TRUE, ro |-> n \in ConfReplicas, run |-> n \in ConfReplicas,
          src |-> IF n \in ConfReplicas THEN ConfPrimary ELSE NoNode]]
    /\ file = NoRecord
    /\ mem = [x \in Procs |-> NoRecord]
    /\ topo = [x \in Procs |-> Built(NoRecord)]
    /\ view = BuiltView(NoRecord) /\ parked = [n \in Nodes |-> "none"]
    /\ health = [pc |-> "check", doc |-> NoRecord, wanted |-> {},
                 asked |-> Round(ConfReplicas \cup {ConfPrimary})]
    /\ job = [x \in Procs |-> Idle]
    /\ applying = {} /\ downSince = "zero"
    /\ faults = 0 /\ crashes = 0 /\ commands = 0

Sync == SyncRead \/ SyncLoad \/ SyncDrop \/ SyncAdopt

Check(n) == CheckAsk(n) \/ CheckAskDead(n) \/ CheckFails(n) \/ CheckStore(n)

\* The steps a promotion or a reconcile takes in either process.
Step(x) ==
    \/ ReadStatus(x) \/ Repoint(x) \/ Halt(x) \/ Source(x) \/ Start(x)
    \/ Reset(x) \/ Forget(x) \/ Open(x) \/ Switch(x)
    \/ Assign(x) \/ Marshal(x) \/ Write(x) \/ Follow(x)

Manage == Tick \/ WatchUp \/ WatchWait \/ WatchFailover \/ Step("daemon")

Command == WatchCommand \/ Prepare \/ Seed \/ Step("cli")

Next ==
    \/ \E n \in Nodes : ServerDown(n) \/ ServerUp(n) \/ CheckTimesOut(n)
    \/ \E n \in Nodes : Check(n) \/ Drop(n)
    \/ Sync
    \/ Manage \/ Elapse
    \/ \E c \in Commands : Begin(c)
    \/ Command
    \/ \E x \in Procs : SaveFails(x)
    \/ CrashRestart

\* The goroutines of the daemon are scheduled and a started command runs on;
\* with a lifetime, connections are retired.  Nothing brings a server back,
\* makes a session use a connection or an operator type.
Fairness ==
    /\ \A n \in Nodes : WF_vars(Check(n))
    /\ Lifetime => \A n \in Nodes : WF_vars(Drop(n))
    /\ WF_vars(Sync) /\ WF_vars(Manage) /\ WF_vars(Elapse) /\ WF_vars(Command)

Spec == Init /\ [][Next]_vars
FairSpec == Spec /\ Fairness

-----------------------------------------------------------------------------
(* Properties. *)

\* Every variable in its type; the primary is never one of its own replicas,
\* and the daemon checks only nodes it has.
TypeOK ==
    /\ server \in [Nodes -> [up : BOOLEAN, ro : BOOLEAN, src : Maybe, run : BOOLEAN]]
    /\ file \in Record /\ mem \in [Procs -> Record]
    /\ topo \in [Procs -> [primary : Nodes, replicas : SUBSET Nodes]]
    /\ \A x \in Procs : topo[x].primary \notin topo[x].replicas
    /\ view \in [Nodes -> [up : BOOLEAN, ro : BOOLEAN, fresh : BOOLEAN]]
    /\ parked \in [Nodes -> {"none", "live", "dead"}]
    /\ health \in [pc : {"check", "load", "drop", "adopt"}, doc : Record,
                   wanted : SUBSET Nodes, asked : Asked]
    /\ \A n \in Nodes \ NodesOf("daemon") : ~Checking(n, "wait")
    /\ job \in [Procs ->
         [pc : {"idle", "reads", "repoint", "halt", "source", "start", "reset",
                "forget", "open", "switch", "assign", "marshal", "write", "follow",
                "prepare", "seed"},
          verb : Verbs, node : Maybe, base : Maybe, other : Maybe,
          back : {"idle", "reads", "follow", "assign"}, todo : SUBSET Nodes,
          doc : Record]]
    /\ applying \subseteq Nodes /\ downSince \in {"zero", "recent", "long"}
    /\ faults \in 0..MaxFaults /\ crashes \in 0..MaxCrashes
    /\ commands \in 0..MaxCommands

\* The order Manager.Promote insists on: a node that becomes the recorded
\* primary is writable when it does, so that a crash never leaves gora writing
\* to a server that is still read-only (failover.go:10-14).
RecordedPrimaryIsWritable ==
    [][LET p == file'.primary
       IN  p \notin {file.primary, NoNode} => ~server[p].ro]_vars

\* A replica enters the read rotation only on a lag that was read from it:
\* not when it is added, not when it is demoted (membership.go:41-45,
\* topology.go:261-263).  A check begun while the node was the primary is let
\* through: it stores the primary's lag of 0 when it ends.
InRotation(n) == n # topo["daemon"].primary /\ n \in Readers

EligibleByItsLag ==
    [][LagLimited =>
         \A n \in Nodes :
            ~InRotation(n) /\ InRotation(n)' =>
                LagReadable(n) \/ Checking(n, "asPrimary")]_vars

\* Automatic failover does happen (manager.go:138-180): a primary that is
\* down is replaced as long as it stays down and some other member answers
\* and replicates, through crashes of the daemon at any point of a promotion.
\* A crash may also leave a member with its replication stopped: nothing
\* starts it again, and if it is the only one there is no failover.
CanTakeOver(n) ==
    /\ n \in topo["daemon"].replicas
    /\ server[n].up /\ server[n].run


\* The manager promotes a replica when the primary is gone for good
\* (manager.go:94-95): that the replica answers is enough.
AnsweringReplicaTakesOver ==
    Automatic =>
      \A p, r \in Nodes :
        LET Answers == r \in topo["daemon"].replicas /\ server[r].up
        IN  (topo["daemon"].primary = p /\ ~server[p].up /\ Answers)
            ~> (topo["daemon"].primary # p \/ server[p].up \/ ~Answers)

\* A node that cannot be reached is reported as down (health.go:36-46,
\* topology_test.go:175): the verdict comes, whatever the node's pool holds.
DeadNodeIsMarkedDown ==
    \A n \in Nodes :
        (n \in NodesOf("daemon") /\ ~server[n].up)
        ~> (~view[n].up \/ server[n].up \/ n \notin NodesOf("daemon"))

\* A running gora follows the file (membership.go:91-135): when commands,
\* faults and crashes are over, it has the members the file lists and the
\* primary it records, however the file and the memory were overwritten.
DaemonFollowsFile ==
    <>[]( /\ NodesOf("daemon") = Members(file) \cup {topo["daemon"].primary}
          /\ file.primary \in NodesOf("daemon") =>
                topo["daemon"].primary = file.primary )

\* A running gora picks up a promotion made on the command line without being
\* restarted (README.md:125-132): in the end the recorded primary, when it is
\* up, is where the writes go, and they are accepted.
PromotionTakesEffect ==
    <>[](LET p == file.primary
         IN  p # NoNode /\ server[p].up =>
                topo["daemon"].primary = p /\ WritesAccepted)

\* Reconcile and Promote point what follows the wrong server at the primary
\* (manager.go:123-133, failover.go:54-61), a node whose promotion was cut
\* short after its source was forgotten among them: in the end every replica
\* gora reads from has the node gora writes to as its source.  It is so where
\* no two servers share a host, which is all sameHost compares; and that its
\* replication runs is not promised (StoppedReplicaRestarts).
ReplicasFollowPrimary ==
    <>[](\A r \in topo["daemon"].replicas :
           server[r].up => server[r].src = topo["daemon"].primary)

\* Reconcile fixes what it can (manager.go:109): in the end every replica that
\* is up replicates.
StoppedReplicaRestarts ==
    <>[](\A r \in topo["daemon"].replicas : server[r].up => server[r].run)

\* A demoted primary becomes a replica of the new one as soon as it answers
\* again (topology.go:238-239, failover.go:54-56): in the end every server of
\* the cluster that is up follows the primary.
OldPrimaryRejoins ==
    <>[](\A n \in {ConfPrimary} \cup Members(file) :
           LET p == topo["daemon"].primary
           IN  n # p /\ server[n].up => server[n].src = p)

\* A node added stays added until a command removes it, a node removed stays
\* removed until a command adds it (state.go:15-24), whoever saves the file.
RecordedNodesStay ==
    [][LET Saving(verb) == job["cli"].pc = "write" /\ job["cli"].verb = verb
       IN  /\ Saving("remove") \/ file.added \subseteq file'.added
           /\ Saving("add") \/ file.removed \subseteq file'.removed]_vars

\* No server is told to replicate from itself (failover.go:57-61 points the
\* topology's replicas, which the promoted node has just left).
NobodyFollowsItself == \A n \in Nodes : server[n].src # n

=============================================================================
