---------------------------- MODULE ClusterProofs ----------------------------
(***************************************************************************)
(* What holds of the cluster for any servers, any configuration of it, any *)
(* commands, and any number of faults and crashes of the daemon: every     *)
(* variable has its type, the primary is never one of its own replicas,    *)
(* and a replica enters the read rotation only on a lag that was read from *)
(* it.                                                                     *)
(***************************************************************************)
EXTENDS Cluster, TLAPS

\* The configured primary is in every topology that is ever built, so that no
\* record lists it as an addition.
SpareRecord == {d \in Record : ConfPrimary \notin d.added}

Topology == {t \in [primary : Nodes, replicas : SUBSET Nodes] :
                t.primary \notin t.replicas}

Labels == {"idle", "reads", "repoint", "halt", "source", "start", "reset",
           "forget", "open", "switch", "assign", "marshal", "write", "follow",
           "prepare", "seed"}

Job == [pc : Labels, verb : Verbs, node : Maybe, base : Maybe, other : Maybe,
        back : {"idle", "reads", "follow", "assign"}, todo : SUBSET Nodes,
        doc : SpareRecord]

\* A command that changes the membership names a node, and the one it adds is
\* not the configured primary.  The daemon changes no membership.
JobOK(j) ==
    /\ j \in Job
    /\ j.verb # "promote" => j.node \in Nodes
    /\ j.verb = "add" => j.node # ConfPrimary

ServersOK ==
    /\ server \in [Nodes -> [up : BOOLEAN, ro : BOOLEAN, src : Maybe, run : BOOLEAN]]
    /\ faults \in 0..MaxFaults

RecordsOK == file \in SpareRecord /\ mem \in [Procs -> SpareRecord]

TopoOK == topo \in [Procs -> Topology]

ViewOK ==
    /\ view \in [Nodes -> [up : BOOLEAN, ro : BOOLEAN, fresh : BOOLEAN]]
    /\ parked \in [Nodes -> {"none", "live", "dead"}]

\* The daemon checks only nodes it has.
HealthOK ==
    /\ health \in [pc : {"check", "load", "drop", "adopt"}, doc : SpareRecord,
                   wanted : SUBSET Nodes, asked : Asked]
    /\ \A n \in Nodes \ NodesOf("daemon") : ~Checking(n, "wait")

JobsOK ==
    /\ DOMAIN job = Procs /\ job = [x \in Procs |-> job[x]]
    /\ \A x \in Procs : JobOK(job[x])
    /\ job["daemon"].verb = "promote"

CountersOK ==
    /\ applying \subseteq Nodes /\ downSince \in {"zero", "recent", "long"}
    /\ crashes \in 0..MaxCrashes /\ commands \in 0..MaxCommands

ClusterInv ==
    /\ ServersOK /\ RecordsOK /\ TopoOK /\ ViewOK
    /\ HealthOK /\ JobsOK /\ CountersOK

-----------------------------------------------------------------------------
(* Lemmas *)

\* The parts of the invariant are the type invariant.
LEMMA InvTypeOK == ClusterInv => TypeOK
<1> SUFFICES ASSUME ClusterInv PROVE TypeOK
  OBVIOUS
<1>1. SpareRecord \subseteq Record
  BY DEF SpareRecord
<1>2. file \in Record /\ mem \in [Procs -> Record]
  BY <1>1 DEF ClusterInv, RecordsOK
<1>3. /\ topo \in [Procs -> [primary : Nodes, replicas : SUBSET Nodes]]
      /\ \A x \in Procs : topo[x].primary \notin topo[x].replicas
  BY DEF ClusterInv, TopoOK, Topology
<1>4. health \in [pc : {"check", "load", "drop", "adopt"}, doc : Record,
                  wanted : SUBSET Nodes, asked : Asked]
  BY <1>1 DEF ClusterInv, HealthOK
<1>5. job \in [Procs ->
         [pc : Labels, verb : Verbs, node : Maybe, base : Maybe, other : Maybe,
          back : {"idle", "reads", "follow", "assign"}, todo : SUBSET Nodes,
          doc : Record]]
  <2>1. Job \subseteq
         [pc : Labels, verb : Verbs, node : Maybe, base : Maybe, other : Maybe,
          back : {"idle", "reads", "follow", "assign"}, todo : SUBSET Nodes,
          doc : Record]
    BY <1>1 DEF Job
  <2> QED
    BY <2>1 DEF ClusterInv, JobsOK, JobOK
<1> QED
  BY <1>2, <1>3, <1>4, <1>5
  DEF ClusterInv, ServersOK, ViewOK, HealthOK, CountersOK, TypeOK, Labels

\* An empty record is one.
LEMMA NoRecordOK == NoRecord \in SpareRecord
  BY DEF NoRecord, SpareRecord, Record, Maybe

\* A topology built from a record is one, and has the configured primary.
LEMMA BuiltOK ==
    ASSUME NEW d \in SpareRecord
    PROVE  /\ Members(d) \subseteq Nodes
           /\ Built(d) \in Topology
           /\ ConfPrimary \in Built(d).replicas \cup {Built(d).primary}
<1>1. /\ d.added \subseteq Nodes /\ ConfPrimary \notin d.added
  BY DEF SpareRecord, Record
<1>2. Members(d) \subseteq Nodes /\ ConfPrimary \notin Members(d)
  BY <1>1, NodesAssumption DEF Members
<1> DEFINE t == [primary |-> ConfPrimary, replicas |-> Members(d)]
<1>3. t \in Topology /\ t.primary = ConfPrimary /\ t.replicas = Members(d)
  BY <1>2, NodesAssumption DEF Topology
<1>4. CASE d.primary \in Members(d)
  <2>1. Built(d) = [primary |-> d.primary,
                    replicas |-> (Members(d) \ {d.primary}) \cup {ConfPrimary}]
    BY <1>4 DEF Built, Swapped
  <2> QED
    BY <2>1, <1>2, <1>4, NodesAssumption DEF Topology
<1>5. CASE d.primary \notin Members(d)
  BY <1>2, <1>3, <1>5 DEF Built
<1> QED
  BY <1>4, <1>5

\* A promotion swaps two nodes of a topology.
LEMMA SwappedOK ==
    ASSUME NEW t \in Topology, NEW n \in t.replicas
    PROVE  /\ Swapped(t, n) \in Topology
           /\ Swapped(t, n).primary = n
           /\ Swapped(t, n).replicas = (t.replicas \ {n}) \cup {t.primary}
  BY DEF Swapped, Topology

\* A job that has nothing to do.
LEMMA IdleOK == JobOK(Idle)
  BY NoRecordOK DEF JobOK, Idle, Job, Labels, Verbs, Maybe

\* One job moves.
LEMMA JobMoves ==
    ASSUME JobsOK, NEW x \in Procs, NEW j, JobOK(j), job' = [job EXCEPT ![x] = j],
           j.verb \in {job[x].verb, "promote"}
    PROVE  JobsOK'
  BY DEF JobsOK

\* A job goes on to another label.
LEMMA GoOK ==
    ASSUME JobsOK, NEW x \in Procs, NEW pc \in Labels, Go(x, pc)
    PROVE  JobsOK'
<1>1. /\ JobOK([job[x] EXCEPT !.pc = pc])
      /\ [job[x] EXCEPT !.pc = pc].verb = job[x].verb
  BY DEF JobsOK, JobOK, Job
<1>2. job' = [job EXCEPT ![x] = [job[x] EXCEPT !.pc = pc]]
  BY DEF Go
<1> QED
  BY <1>1, <1>2, JobMoves

\* A job ends.
LEMMA FinishOK ==
    ASSUME JobsOK, NEW x \in Procs, Finish(x)
    PROVE  JobsOK'
  BY IdleOK, JobMoves DEF Finish, Idle

\* A job whose pointing of a node failed ends or goes back.
LEMMA GiveUpOK ==
    ASSUME JobsOK, NEW x \in Procs, GiveUp(x)
    PROVE  JobsOK'
<1>1. job[x].back \in Labels
  BY DEF JobsOK, JobOK, Job, Labels
<1> QED
  BY <1>1, GoOK, FinishOK DEF GiveUp

\* A failover sends its job to a candidate.
LEMMA SentOK ==
    ASSUME NEW j, JobOK(j), j.verb = "promote", NEW n \in Nodes
    PROVE  LET k == [j EXCEPT !.pc = "reset", !.node = n]
           IN  JobOK(k) /\ k.verb = "promote"
  BY DEF JobOK, Job, Labels, Maybe

\* The steps of a job that send a statement.
Exchanges(x) ==
    \/ Repoint(x) \/ Halt(x) \/ Source(x) \/ Start(x)
    \/ Reset(x) \/ Forget(x) \/ Open(x)

\* They change the servers and the job, nothing else.
LEMMA ExchangeKeeps ==
    ASSUME NEW x \in Procs, Exchanges(x)
    PROVE  UNCHANGED <<file, mem, topo, manager, faults, commands, daemon, crashes>>
  BY DEF Exchanges, Repoint, Halt, Source, Start, Reset, Forget, Open, Exchange, Quiet

\* They end in one of three ways for the job...
LEMMA ExchangeMoves ==
    ASSUME JobsOK, NEW x \in Procs, Exchanges(x)
    PROVE  Finish(x) \/ GiveUp(x) \/ \E pc \in Labels : Go(x, pc)
<1>1. job[x].back \in Labels
  BY DEF JobsOK, JobOK, Job, Labels
<1> QED
  BY <1>1 DEF Exchanges, Repoint, Halt, Source, Start, Reset, Forget, Open, Exchange,
     Labels

\* ... and leave a server as it was, or change one field of it.
LEMMA ExchangeTypes ==
    ASSUME JobsOK, ServersOK, NEW x \in Procs, Exchanges(x)
    PROVE  server' \in [Nodes -> [up : BOOLEAN, ro : BOOLEAN, src : Maybe, run : BOOLEAN]]
<1>1. job[x].base \in Maybe /\ NoNode \in Maybe
  BY DEF JobsOK, JobOK, Job, Maybe
<1>2. CASE Repoint(x)
  BY <1>2 DEF Repoint, Exchange, ServersOK
<1>3. CASE Halt(x)
  BY <1>3 DEF Halt, Exchange, ServersOK
<1>4. CASE Source(x)
  BY <1>1, <1>4 DEF Source, Exchange, ServersOK
<1>5. CASE Start(x)
  BY <1>5 DEF Start, Exchange, ServersOK
<1>6. CASE Reset(x)
  BY <1>6 DEF Reset, Exchange, ServersOK
<1>7. CASE Forget(x)
  BY <1>1, <1>7 DEF Forget, Exchange, ServersOK
<1>8. CASE Open(x)
  BY <1>8 DEF Open, Exchange, ServersOK
<1> QED
  BY <1>2, <1>3, <1>4, <1>5, <1>6, <1>7, <1>8 DEF Exchanges

\* The steps that leave the jobs alone.
LEMMA JobsKept ==
    ASSUME JobsOK, UNCHANGED job
    PROVE  JobsOK'
  BY DEF JobsOK

-----------------------------------------------------------------------------
(* Each part of the invariant over one step *)

\* The jobs: a job keeps its verb and its node until it ends, except for the
\* candidate of a failover, which is a replica.
LEMMA JobsStep == ClusterInv /\ [Next]_vars => JobsOK'
<1> SUFFICES ASSUME ClusterInv, [Next]_vars PROVE JobsOK'
  OBVIOUS
<1> USE DEF ClusterInv, Labels
<1>job. ASSUME NEW x \in Procs PROVE JobOK(job[x]) /\ job[x] \in Job
  BY DEF JobsOK, JobOK
<1>procs. "daemon" \in Procs /\ "cli" \in Procs
  BY DEF Procs
<1>topo. ASSUME NEW x \in Procs
         PROVE  topo[x].primary \in Nodes /\ topo[x].replicas \subseteq Nodes
                /\ NodesOf(x) \subseteq Nodes
  BY DEF TopoOK, Topology, NodesOf
<1>mem. ASSUME NEW x \in Procs PROVE mem[x] \in SpareRecord
  BY DEF RecordsOK
<1>1. ASSUME NEW n \in Nodes,
             ServerDown(n) \/ ServerUp(n) \/ CheckTimesOut(n) \/ Check(n) \/ Drop(n)
      PROVE  JobsOK'
  BY <1>1, JobsKept DEF ServerDown, ServerUp, CheckTimesOut, Check, CheckAsk,
       CheckAskDead, CheckFails, CheckStore, Drop
<1>2. CASE Sync \/ Elapse
  BY <1>2, JobsKept DEF Sync, SyncRead, SyncLoad, SyncDrop, SyncAdopt, Elapse
<1>3. CASE Tick
  <2> DEFINE j == [Idle EXCEPT !.pc = "reads", !.todo = NodesOf("daemon"),
                               !.base = topo["daemon"].primary]
  <2>1. JobOK(j) /\ j.verb = "promote"
    BY IdleOK, <1>topo, <1>procs DEF JobOK, Job, Idle, Maybe, Verbs
  <2> QED
    BY <1>3, <1>procs, <2>1, JobMoves DEF Tick
<1>4. CASE WatchUp \/ WatchWait
  BY <1>4, <1>procs, FinishOK DEF WatchUp, WatchWait
<1>5. CASE WatchFailover
  <2>1. ASSUME NEW n \in Candidates,
               job' = [job EXCEPT !["daemon"].pc = "reset", !["daemon"].node = n]
        PROVE  JobsOK'
    <3> DEFINE j == [job["daemon"] EXCEPT !.pc = "reset", !.node = n]
    <3>1. n \in Nodes
      BY <1>topo, <1>procs DEF Candidates
    <3>2. JobOK(j) /\ j.verb = "promote"
      BY <1>job, <1>procs, <3>1, SentOK DEF JobsOK
    <3>3. job' = [job EXCEPT !["daemon"] = j]
      BY <2>1
    <3> QED
      BY <3>2, <3>3, <1>procs, JobMoves
  <2> QED
    BY <1>5, <2>1, <1>procs, FinishOK DEF WatchFailover
<1>6. CASE WatchCommand \/ Prepare \/ Seed
  <2> DEFINE j == [job["cli"] EXCEPT !.pc = "halt", !.other = job["cli"].node,
                                     !.back = "assign"]
  <2>1. JobOK(j) /\ j.verb = job["cli"].verb
    BY <1>job, <1>procs DEF JobOK, Job
  <2>2. ASSUME job' = [job EXCEPT !["cli"] = j] PROVE JobsOK'
    BY <2>1, <2>2, <1>procs, JobMoves
  <2> QED
    BY <1>6, <2>2, <1>procs, GoOK, FinishOK DEF WatchCommand, Prepare, Seed
<1>7. ASSUME NEW x \in Procs, ReadStatus(x) PROVE JobsOK'
  <2>1. PICK n \in job[x].todo :
          job' = [job EXCEPT ![x] =
            [@ EXCEPT !.todo = job[x].todo \ {n}, !.back = "reads",
                      !.other = IF Stray(x, n) THEN n ELSE NoNode,
                      !.pc = IF Stray(x, n) THEN "repoint" ELSE "reads"]]
    BY <1>7 DEF ReadStatus
  <2>2. PICK o \in Maybe, p \in {"repoint", "reads"} :
          job' = [job EXCEPT ![x] =
            [@ EXCEPT !.todo = job[x].todo \ {n}, !.back = "reads", !.other = o, !.pc = p]]
    BY <2>1, <1>job DEF Job, Maybe
  <2>3. PICK S \in SUBSET Nodes : S = job[x].todo \ {n}
    BY <1>job DEF Job
  <2> PICK k : k = [job[x] EXCEPT !.todo = S, !.back = "reads", !.other = o, !.pc = p]
    OBVIOUS
  <2>4. JobOK(k) /\ k.verb = job[x].verb
    BY <1>job DEF JobOK, Job
  <2>5. job' = [job EXCEPT ![x] = k]
    BY <2>2, <2>3
  <2> QED
    BY <2>4, <2>5, JobMoves
<1>8. ASSUME NEW x \in Procs,
             Exchanges(x) \/ Assign(x)
      PROVE  JobsOK'
  <2>1. CASE Exchanges(x)
    BY <2>1, ExchangeMoves, GoOK, GiveUpOK, FinishOK
  <2>2. CASE Assign(x)
    BY <2>2, GoOK DEF Assign, Labels
  <2> QED
    BY <1>8, <2>1, <2>2
<1>9. ASSUME NEW x \in Procs, Switch(x) PROVE JobsOK'
  <2>1. CASE job[x].node \in topo[x].replicas
    <3> DEFINE j == [job[x] EXCEPT !.pc = "assign", !.base = job[x].node]
    <3>1. JobOK(j) /\ j.verb = job[x].verb
      BY <1>job DEF JobOK, Job
    <3>2. job' = [job EXCEPT ![x] = j]
      BY <1>9, <2>1 DEF Switch
    <3> QED
      BY <3>1, <3>2, JobMoves
  <2>2. CASE job[x].node \notin topo[x].replicas
    BY <1>9, <2>2, FinishOK DEF Switch
  <2> QED
    BY <2>1, <2>2
<1>10. ASSUME NEW x \in Procs, Marshal(x) PROVE JobsOK'
  <2> DEFINE j == [job[x] EXCEPT !.pc = "write", !.doc = mem[x]]
  <2>1. JobOK(j) /\ j.verb = job[x].verb
    BY <1>job, <1>mem DEF JobOK, Job
  <2>2. job' = [job EXCEPT ![x] = j]
    BY <1>10 DEF Marshal
  <2> QED
    BY <2>1, <2>2, JobMoves
<1>11. ASSUME NEW x \in Procs, Write(x) \/ SaveFails(x) PROVE JobsOK'
  <2> DEFINE j == [job[x] EXCEPT !.pc = "follow", !.doc = NoRecord,
                                 !.todo = OtherNodes(x)]
  <2>1. JobOK(j) /\ j.verb = job[x].verb
    BY <1>job, <1>topo, NoRecordOK DEF JobOK, Job, OtherNodes
  <2>2. AfterSave(x)
    BY <1>11 DEF Write, SaveFails
  <2>3. job' = [job EXCEPT ![x] = j] \/ Finish(x)
    BY <2>2 DEF AfterSave
  <2> QED
    BY <2>1, <2>3, JobMoves, FinishOK
<1>12. ASSUME NEW x \in Procs, Follow(x) PROVE JobsOK'
  <2>1. ASSUME NEW o \in job[x].todo,
               job' = [job EXCEPT ![x] = [@ EXCEPT !.pc = "repoint", !.other = o,
                                            !.back = "follow", !.todo = job[x].todo \ {o}]]
        PROVE  JobsOK'
    <3>1. PICK S \in SUBSET Nodes : S = job[x].todo \ {o}
      BY <1>job DEF Job
    <3> PICK k : k = [job[x] EXCEPT !.todo = S, !.back = "follow", !.other = o,
                                    !.pc = "repoint"]
      OBVIOUS
    <3>2. JobOK(k) /\ k.verb = job[x].verb
      <4>1. o \in Maybe
        BY <1>job DEF Job, Maybe
      <4> QED
        BY <4>1, <1>job DEF JobOK, Job
    <3>3. job' = [job EXCEPT ![x] = k]
      BY <2>1, <3>1
    <3> QED
      BY <3>2, <3>3, JobMoves
  <2> QED
    BY <1>12, <2>1, FinishOK DEF Follow
<1>13. ASSUME NEW c \in Commands, Begin(c) PROVE JobsOK'
  <2>1. c.verb \in Verbs /\ c.node \in Nodes
    BY CommandsAssumption
  <2>2. Built(file).primary \in Nodes /\ Built(file).replicas \subseteq Nodes
    BY BuiltOK DEF RecordsOK, Topology
  <2>3. c.verb = "add" => c.node # ConfPrimary
    BY <1>13, BuiltOK DEF Begin, RecordsOK
  <2>4. PICK pc \in {"prepare", "assign", "reads"}, todo \in SUBSET Nodes :
          job' = [job EXCEPT !["cli"] =
             [Idle EXCEPT !.pc = pc, !.verb = c.verb, !.node = c.node,
                          !.base = Built(file).primary, !.todo = todo]]
    BY <1>13, <2>1, <2>2 DEF Begin, Verbs
  <2> DEFINE j == [Idle EXCEPT !.pc = pc, !.verb = c.verb, !.node = c.node,
                               !.base = Built(file).primary, !.todo = todo]
  <2>5. JobOK(j)
    BY IdleOK, <2>1, <2>2, <2>3 DEF JobOK, Job, Idle, Maybe
  <2>6. /\ DOMAIN job' = Procs /\ job' = [x \in Procs |-> job'[x]]
        /\ job'["cli"] = j /\ job'["daemon"] = job["daemon"]
    BY <2>4, <1>procs DEF JobsOK
  <2> HIDE DEF j
  <2> QED
    BY <2>5, <2>6, <1>procs DEF JobsOK, Procs
<1>14. CASE CrashRestart
  BY <1>14, <1>procs, IdleOK, JobMoves DEF CrashRestart, Idle
<1>15. CASE UNCHANGED vars
  BY <1>15, JobsKept DEF vars
<1>16. ASSUME NEW x \in Procs, Step(x) PROVE JobsOK'
  BY <1>7, <1>8, <1>9, <1>10, <1>11, <1>12, <1>16 DEF Step, Exchanges
<1> QED
  BY <1>1, <1>2, <1>3, <1>4, <1>5, <1>6, <1>11, <1>13, <1>14, <1>15, <1>16,
     <1>procs
  DEF Next, Manage, Command

\* The servers: what a job points a server at is a node or no node.
LEMMA ServersStep == ClusterInv /\ [Next]_vars => ServersOK'
<1> SUFFICES ASSUME ClusterInv, [Next]_vars PROVE ServersOK'
  OBVIOUS
<1> USE DEF ClusterInv
<1>procs. "daemon" \in Procs /\ "cli" \in Procs
  BY DEF Procs
<1>0. ASSUME UNCHANGED servers PROVE ServersOK'
  BY <1>0 DEF ServersOK, servers
<1>faults. ASSUME faults < MaxFaults, faults' = faults + 1, server' = server
           PROVE  ServersOK'
  BY <1>faults, BoundsAssumption DEF ServersOK
<1>1. ASSUME NEW n \in Nodes, ServerDown(n) \/ ServerUp(n) PROVE ServersOK'
  <2>1. PICK b \in BOOLEAN, r \in BOOLEAN :
          server' = [server EXCEPT ![n] = [server[n] EXCEPT !.up = b, !.run = r]]
    <3>1. ASSUME ServerDown(n)
          PROVE  server' = [server EXCEPT ![n] = [server[n] EXCEPT !.up = FALSE,
                                                                   !.run = server[n].run]]
      BY <3>1 DEF ServerDown, ServersOK
    <3>2. ASSUME ServerUp(n)
          PROVE  \E r \in BOOLEAN :
                   server' = [server EXCEPT ![n] = [server[n] EXCEPT !.up = TRUE, !.run = r]]
      BY <3>2 DEF ServerUp, ServersOK
    <3>3. server[n].run \in BOOLEAN
      BY DEF ServersOK
    <3> QED
      BY <1>1, <3>1, <3>2, <3>3
  <2>2. faults' = faults \/ (faults < MaxFaults /\ faults' = faults + 1)
    BY <1>1 DEF ServerDown, ServerUp
  <2>3. [server[n] EXCEPT !.up = b, !.run = r]
          \in [up : BOOLEAN, ro : BOOLEAN, src : Maybe, run : BOOLEAN]
    BY DEF ServersOK
  <2>4. server' \in [Nodes -> [up : BOOLEAN, ro : BOOLEAN, src : Maybe, run : BOOLEAN]]
    BY <2>1, <2>3 DEF ServersOK
  <2> QED
    BY <2>2, <2>4, BoundsAssumption DEF ServersOK
<1>2. ASSUME NEW n \in Nodes, CheckTimesOut(n) \/ Check(n) \/ Drop(n)
      PROVE  ServersOK'
  BY <1>2, <1>0, <1>faults DEF CheckTimesOut, Check, CheckAsk, CheckAskDead,
       CheckFails, CheckStore, Drop
<1>3. CASE Sync \/ Elapse \/ Tick \/ WatchUp \/ WatchWait \/ WatchFailover
           \/ WatchCommand \/ Seed
  BY <1>3, <1>0 DEF Sync, SyncRead, SyncLoad, SyncDrop, SyncAdopt, Elapse, Tick,
       WatchUp, WatchWait, WatchFailover, WatchCommand, Seed
<1>4. ASSUME NEW x \in Procs,
             ReadStatus(x) \/ Switch(x) \/ Assign(x) \/ Marshal(x) \/ Write(x)
             \/ SaveFails(x) \/ Follow(x)
      PROVE  ServersOK'
  BY <1>4, <1>0, <1>faults DEF ReadStatus, Switch, Assign, Marshal, Write, SaveFails,
       Follow
<1>5. ASSUME NEW x \in Procs, Exchanges(x) PROVE ServersOK'
  BY <1>5, ExchangeKeeps, ExchangeTypes DEF ServersOK
<1>7. CASE Prepare
  BY <1>7 DEF Prepare, ServersOK
<1>8. ASSUME NEW c \in Commands, Begin(c) PROVE ServersOK'
  BY <1>8, <1>0 DEF Begin
<1>9. CASE CrashRestart \/ UNCHANGED vars
  BY <1>9, <1>0 DEF CrashRestart, vars, servers
<1>10. ASSUME NEW x \in Procs, Step(x) PROVE ServersOK'
  BY <1>10, <1>4, <1>5 DEF Step, Exchanges
<1> QED
  BY <1>1, <1>2, <1>3, <1>4, <1>7, <1>8, <1>9, <1>10, <1>procs
  DEF Next, Manage, Command

\* The records: nobody ever adds the configured primary.
LEMMA RecordsStep == ClusterInv /\ [Next]_vars => RecordsOK'
<1> SUFFICES ASSUME ClusterInv, [Next]_vars PROVE RecordsOK'
  OBVIOUS
<1> USE DEF ClusterInv
<1>procs. "daemon" \in Procs /\ "cli" \in Procs
  BY DEF Procs
<1>job. ASSUME NEW x \in Procs PROVE JobOK(job[x]) /\ job[x].doc \in SpareRecord
  BY DEF JobsOK, JobOK, Job
<1>0. ASSUME UNCHANGED <<file, mem>> PROVE RecordsOK'
  BY <1>0 DEF RecordsOK
<1>1. ASSUME NEW n \in Nodes,
             ServerDown(n) \/ ServerUp(n) \/ CheckTimesOut(n) \/ Check(n) \/ Drop(n)
      PROVE  RecordsOK'
  BY <1>1, <1>0 DEF ServerDown, ServerUp, CheckTimesOut, Check, CheckAsk,
       CheckAskDead, CheckFails, CheckStore, Drop
<1>2. CASE SyncRead \/ SyncDrop \/ SyncAdopt \/ Elapse \/ Tick \/ WatchUp
           \/ WatchWait \/ WatchFailover \/ WatchCommand \/ Prepare \/ Seed
  BY <1>2, <1>0 DEF SyncRead, SyncDrop, SyncAdopt, Elapse, Tick, WatchUp, WatchWait,
       WatchFailover, WatchCommand, Prepare, Seed
<1>3. CASE SyncLoad
  <2>1. health.doc \in SpareRecord
    BY DEF HealthOK
  <2> QED
    BY <1>3, <2>1, <1>procs DEF SyncLoad, RecordsOK
<1>4. ASSUME NEW x \in Procs,
             ReadStatus(x) \/ Exchanges(x)
             \/ Switch(x) \/ Marshal(x) \/ SaveFails(x) \/ Follow(x)
      PROVE  RecordsOK'
  BY <1>4, <1>0, ExchangeKeeps DEF ReadStatus, Switch, Marshal,
       SaveFails, Follow
<1>5. ASSUME NEW x \in Procs, Write(x) PROVE RecordsOK'
  BY <1>5, <1>job DEF Write, RecordsOK
<1>6. ASSUME NEW x \in Procs, Assign(x) PROVE RecordsOK'
  <2> DEFINE n == job[x].node
  <2>1. /\ n \in Maybe /\ job[x].verb \in Verbs
        /\ job[x].verb # "promote" => n \in Nodes
        /\ job[x].verb = "add" => n # ConfPrimary
    BY <1>job DEF JobOK, Job
  <2>2. mem[x] \in SpareRecord
    BY DEF RecordsOK
  <2>3. CASE job[x].verb = "promote"
    <3>1. [mem[x] EXCEPT !.primary = n] \in SpareRecord
      BY <2>1, <2>2 DEF SpareRecord, Record
    <3> QED
      BY <1>6, <2>3, <3>1 DEF Assign, RecordsOK
  <2>4. CASE job[x].verb = "add"
    <3>1. [mem[x] EXCEPT !.added = mem[x].added \cup {n},
                        !.removed = mem[x].removed \ {n}] \in SpareRecord
      BY <2>1, <2>2, <2>4 DEF SpareRecord, Record
    <3> QED
      BY <1>6, <2>4, <3>1 DEF Assign, RecordsOK
  <2>5. CASE job[x].verb = "remove"
    <3>1. [mem[x] EXCEPT !.added = mem[x].added \ {n},
                        !.removed = mem[x].removed \cup {n}] \in SpareRecord
      BY <2>1, <2>2, <2>5 DEF SpareRecord, Record
    <3> QED
      BY <1>6, <2>5, <3>1 DEF Assign, RecordsOK
  <2> QED
    BY <2>1, <2>3, <2>4, <2>5 DEF Verbs
<1>7. ASSUME NEW c \in Commands, Begin(c) PROVE RecordsOK'
  BY <1>7, <1>procs DEF Begin, RecordsOK
<1>8. CASE CrashRestart
  BY <1>8, <1>procs DEF CrashRestart, RecordsOK
<1>9. CASE UNCHANGED vars
  BY <1>9, <1>0 DEF vars
<1>10. ASSUME NEW x \in Procs, Step(x) PROVE RecordsOK'
  BY <1>10, <1>4, <1>5, <1>6 DEF Step, Exchanges
<1> QED
  BY <1>1, <1>2, <1>3, <1>4, <1>7, <1>8, <1>9, <1>10, <1>procs
  DEF Next, Sync, Manage, Command

\* A promotion in a topology is of one of its replicas.
LEMMA PromoteOK ==
    ASSUME TopoOK, ViewOK, NEW x \in Procs, NEW n \in topo[x].replicas, TopoPromote(x, n)
    PROVE  /\ TopoOK'
           /\ view' \in [Nodes -> [up : BOOLEAN, ro : BOOLEAN, fresh : BOOLEAN]]
           /\ \A y \in Procs : NodesOf(y)' = NodesOf(y)
<1>1. topo[x] \in Topology /\ n \in Nodes
  BY DEF TopoOK, Topology
<1>2. topo' = [topo EXCEPT ![x] = Swapped(topo[x], n)]
  BY DEF TopoPromote
<1>3. TopoOK'
  BY <1>1, <1>2, SwappedOK DEF TopoOK
<1>4. view' \in [Nodes -> [up : BOOLEAN, ro : BOOLEAN, fresh : BOOLEAN]]
  <2>1. topo["daemon"].primary \in Nodes
    BY DEF TopoOK, Topology, Procs
  <2>2. SwappedView(n) \in [Nodes -> [up : BOOLEAN, ro : BOOLEAN, fresh : BOOLEAN]]
    BY <1>1, <2>1 DEF SwappedView, ViewOK
  <2> QED
    BY <2>2 DEF TopoPromote, ViewOK
<1>5. ASSUME NEW y \in Procs PROVE NodesOf(y)' = NodesOf(y)
  <2>1. CASE y = x
    <3>1. topo'[y] = Swapped(topo[x], n)
      BY <1>2, <2>1 DEF TopoOK
    <3>2. topo'[y].replicas \cup {topo'[y].primary} = topo[x].replicas \cup {topo[x].primary}
      BY <1>1, <3>1, SwappedOK
    <3> QED
      BY <2>1, <3>2 DEF NodesOf
  <2>2. CASE y # x
    BY <1>2, <2>2 DEF NodesOf, TopoOK
  <2> QED
    BY <2>1, <2>2
<1> QED
  BY <1>3, <1>4, <1>5

\* The topologies, and the nodes the daemon has: a check that waits is of one
\* of them.
LEMMA TopoStep == ClusterInv /\ [Next]_vars => TopoOK' /\ HealthOK'
<1> SUFFICES ASSUME ClusterInv, [Next]_vars PROVE TopoOK' /\ HealthOK'
  OBVIOUS
<1> USE DEF ClusterInv
<1>procs. "daemon" \in Procs /\ "cli" \in Procs
  BY DEF Procs
<1>file. file \in SpareRecord /\ \A x \in Procs : mem[x] \in SpareRecord
  BY DEF RecordsOK
<1>nodes. NodesOf("daemon") \subseteq Nodes /\ NodesOf("daemon")' = topo'["daemon"].replicas \cup {topo'["daemon"].primary}
  BY <1>procs DEF NodesOf, TopoOK, Topology
<1>0. ASSUME UNCHANGED <<topo, health>> PROVE TopoOK' /\ HealthOK'
  BY <1>0 DEF TopoOK, HealthOK, NodesOf, Checking
<1>asked. ASSUME NEW n \in Nodes, UNCHANGED topo,
                 NEW a \in {"asPrimary", "asReplica", "done"},
                 health' = [health EXCEPT !.asked[n] = a]
          PROVE  TopoOK' /\ HealthOK'
  <2>1. TopoOK' /\ NodesOf("daemon")' = NodesOf("daemon")
    BY <1>asked DEF TopoOK, NodesOf
  <2>2. [health.asked EXCEPT ![n] = a] \in Asked
    BY DEF HealthOK, Asked
  <2>3. health' = [health EXCEPT !.asked = [health.asked EXCEPT ![n] = a]]
    BY <1>asked
  <2>4. /\ health'.asked = [health.asked EXCEPT ![n] = a]
        /\ health'.pc = health.pc
    BY <2>3 DEF HealthOK
  <2> QED
    BY <2>1, <2>2, <2>3, <2>4 DEF HealthOK, Checking, Asked
<1>1. ASSUME NEW n \in Nodes, ServerDown(n) \/ ServerUp(n) \/ Drop(n)
      PROVE  TopoOK' /\ HealthOK'
  BY <1>1, <1>0 DEF ServerDown, ServerUp, Drop, daemon
<1>2. ASSUME NEW n \in Nodes, CheckTimesOut(n) \/ Check(n)
      PROVE  TopoOK' /\ HealthOK'
  <2>1. /\ UNCHANGED topo
        /\ \E a \in {"asPrimary", "asReplica", "done"} :
              health' = [health EXCEPT !.asked[n] = a]
    BY <1>2 DEF CheckTimesOut, Check, CheckAsk, CheckAskDead, CheckFails, CheckStore,
         MarkDown, Ask
  <2> QED
    BY <2>1, <1>asked
<1>moved. ASSUME NEW d \in SpareRecord, NEW W \in SUBSET Nodes, NEW A \in Asked,
                 NEW pc \in {"load", "drop", "adopt"},
                 health' = [pc |-> pc, doc |-> d, wanted |-> W, asked |-> A]
          PROVE  HealthOK'
  BY <1>moved DEF HealthOK, Checking
<1>shape. /\ health = [pc |-> health.pc, doc |-> health.doc, wanted |-> health.wanted,
                       asked |-> health.asked]
          /\ health.doc \in SpareRecord /\ health.wanted \in SUBSET Nodes
          /\ health.asked \in Asked
  BY DEF HealthOK
<1>3. CASE SyncRead
  <2>1. health' = [pc |-> "load", doc |-> file, wanted |-> health.wanted,
                   asked |-> health.asked]
    BY <1>3, <1>shape DEF SyncRead
  <2> QED
    BY <1>3, <2>1, <1>shape, <1>file, <1>moved DEF SyncRead, TopoOK
<1>4. CASE SyncLoad
  <2>1. PICK d \in SpareRecord :
          /\ health' = [health EXCEPT !.pc = "drop", !.doc = NoRecord,
                                      !.wanted = Members(d)]
          /\ topo' = [topo EXCEPT !["daemon"].replicas =
                        @ \cup (Members(d) \ NodesOf("daemon"))]
    BY <1>4, <1>shape, <1>file, <1>procs DEF SyncLoad
  <2>2. Members(d) \in SUBSET Nodes
    BY BuiltOK
  <2>3. health' = [pc |-> "drop", doc |-> NoRecord, wanted |-> Members(d),
                   asked |-> health.asked]
    BY <2>1, <1>shape
  <2>4. [topo["daemon"] EXCEPT !.replicas = @ \cup (Members(d) \ NodesOf("daemon"))]
          \in Topology
    BY <2>2, <1>procs DEF TopoOK, Topology, NodesOf
  <2>5. TopoOK'
    BY <2>1, <2>4, <1>procs DEF TopoOK
  <2> QED
    BY <2>2, <2>3, <2>5, <1>shape, NoRecordOK, <1>moved
<1>5. CASE SyncDrop
  <2>1. /\ health' = [pc |-> "adopt", doc |-> health.doc, wanted |-> {},
                      asked |-> health.asked]
        /\ topo' = [topo EXCEPT !["daemon"].replicas = @ \ UnlistedReplicas]
    BY <1>5, <1>shape DEF SyncDrop
  <2>2. [topo["daemon"] EXCEPT !.replicas = @ \ UnlistedReplicas] \in Topology
    BY <1>procs DEF TopoOK, Topology
  <2>3. TopoOK'
    BY <2>1, <2>2, <1>procs DEF TopoOK
  <2> QED
    BY <2>1, <2>3, <1>shape, <1>moved
<1>round. ASSUME NEW S \in SUBSET Nodes, TopoOK', S = NodesOf("daemon")',
                 health' = [pc |-> "check", doc |-> NoRecord, wanted |-> {},
                            asked |-> Round(S)]
          PROVE  HealthOK'
  <2>1. Round(S) \in Asked /\ \A n \in Nodes \ S : Round(S)[n] = "done"
    BY DEF Round, Asked
  <2> QED
    BY <2>1, <1>round, NoRecordOK DEF HealthOK, Checking
<1>6. CASE SyncAdopt
  <2>1. TopoOK' /\ NodesOf("daemon")' = NodesOf("daemon")
    <3>1. CASE mem["daemon"].primary \in topo["daemon"].replicas
      BY <1>6, <3>1, <1>procs, PromoteOK DEF SyncAdopt
    <3>2. CASE mem["daemon"].primary \notin topo["daemon"].replicas
      BY <1>6, <3>2 DEF SyncAdopt, TopoOK, NodesOf
    <3> QED
      BY <3>1, <3>2
  <2>2. health' = [pc |-> "check", doc |-> NoRecord, wanted |-> {},
                   asked |-> Round(NodesOf("daemon"))]
    BY <1>6 DEF SyncAdopt
  <2> QED
    BY <2>1, <2>2, <1>nodes, <1>round
<1>7. CASE Elapse \/ Tick \/ WatchUp \/ WatchWait \/ WatchFailover \/ WatchCommand
           \/ Prepare \/ Seed
  BY <1>7, <1>0 DEF Elapse, Tick, WatchUp, WatchWait, WatchFailover, WatchCommand,
       Prepare, Seed, Quiet, daemon
<1>8. ASSUME NEW x \in Procs,
             ReadStatus(x) \/ Exchanges(x)
             \/ Assign(x) \/ Marshal(x) \/ Write(x) \/ SaveFails(x) \/ Follow(x)
      PROVE  TopoOK' /\ HealthOK'
  BY <1>8, <1>0, ExchangeKeeps DEF ReadStatus, Assign, Marshal, Write,
       SaveFails, Follow, Quiet, daemon
<1>9. ASSUME NEW x \in Procs, Switch(x) PROVE TopoOK' /\ HealthOK'
  <2>1. UNCHANGED health
    BY <1>9 DEF Switch
  <2>2. CASE job[x].node \in topo[x].replicas
    <3>1. TopoOK' /\ NodesOf("daemon")' = NodesOf("daemon")
      BY <1>9, <2>2, <1>procs, PromoteOK DEF Switch
    <3> QED
      BY <3>1, <2>1 DEF HealthOK, Checking
  <2>3. CASE job[x].node \notin topo[x].replicas
    BY <1>9, <2>1, <2>3, <1>0 DEF Switch
  <2> QED
    BY <2>2, <2>3
<1>10. ASSUME NEW c \in Commands, Begin(c) PROVE TopoOK' /\ HealthOK'
  <2>1. UNCHANGED health /\ topo' = [topo EXCEPT !["cli"] = Built(file)]
    BY <1>10 DEF Begin, Quiet, daemon
  <2>2. TopoOK'
    BY <2>1, BuiltOK, <1>file, <1>procs DEF TopoOK
  <2>3. NodesOf("daemon")' = NodesOf("daemon")
    BY <2>1, <1>procs DEF NodesOf, TopoOK
  <2> QED
    BY <2>1, <2>2, <2>3 DEF HealthOK, Checking
<1>11. CASE CrashRestart
  <2>1. /\ topo' = [topo EXCEPT !["daemon"] = Built(file)]
        /\ health' = [pc |-> "check", doc |-> NoRecord, wanted |-> {},
                      asked |-> Round(Built(file).replicas \cup {Built(file).primary})]
    BY <1>11 DEF CrashRestart
  <2>2. TopoOK' /\ topo'["daemon"] = Built(file)
    BY <2>1, BuiltOK, <1>file, <1>procs DEF TopoOK
  <2>3. Built(file).replicas \cup {Built(file).primary} \in SUBSET Nodes
    BY BuiltOK, <1>file DEF Topology
  <2> QED
    BY <2>1, <2>2, <2>3, <1>nodes, <1>round
<1>12. CASE UNCHANGED vars
  BY <1>12, <1>0 DEF vars
<1>13. ASSUME NEW x \in Procs, Step(x) PROVE TopoOK' /\ HealthOK'
  BY <1>13, <1>8, <1>9 DEF Step, Exchanges
<1> QED
  BY <1>1, <1>2, <1>3, <1>4, <1>5, <1>6, <1>7, <1>8, <1>10, <1>11, <1>12, <1>13,
     <1>procs
  DEF Next, Sync, Manage, Command

\* What is known of each node, and the idle connections.
LEMMA ViewStep == ClusterInv /\ [Next]_vars => ViewOK'
<1> SUFFICES ASSUME ClusterInv, [Next]_vars PROVE ViewOK'
  OBVIOUS
<1> USE DEF ClusterInv
<1>procs. "daemon" \in Procs /\ "cli" \in Procs
  BY DEF Procs
<1>0. ASSUME UNCHANGED <<view, parked>> PROVE ViewOK'
  BY <1>0 DEF ViewOK
<1>server. \A n \in Nodes : server[n].ro \in BOOLEAN
  BY DEF ServersOK
<1>1. ASSUME NEW n \in Nodes,
             ServerDown(n) \/ ServerUp(n) \/ CheckTimesOut(n) \/ CheckAsk(n)
             \/ CheckAskDead(n) \/ CheckFails(n) \/ CheckStore(n) \/ Drop(n)
      PROVE  ViewOK'
  <2>1. ASSUME ServerDown(n) \/ Drop(n) PROVE ViewOK'
    BY <2>1 DEF ServerDown, Drop, ViewOK
  <2>2. ASSUME ServerUp(n) \/ CheckAskDead(n) PROVE ViewOK'
    BY <2>2, <1>0 DEF ServerUp, CheckAskDead, daemon
  <2>3. ASSUME CheckTimesOut(n) \/ CheckFails(n) PROVE ViewOK'
    <3>1. /\ view' = [view EXCEPT ![n].up = FALSE, ![n].fresh = FALSE]
          /\ UNCHANGED parked
      BY <2>3 DEF CheckTimesOut, CheckFails, MarkDown
    <3> QED
      BY <3>1 DEF ViewOK
  <2>4. ASSUME CheckAsk(n) PROVE ViewOK'
    BY <2>4, <1>server DEF CheckAsk, ViewOK
  <2>5. ASSUME CheckStore(n) PROVE ViewOK'
    <3>1. PICK fresh \in BOOLEAN : view' = [view EXCEPT ![n].up = TRUE, ![n].fresh = fresh]
      BY <2>5 DEF CheckStore
    <3> QED
      BY <2>5, <3>1 DEF CheckStore, ViewOK
  <2> QED
    BY <1>1, <2>1, <2>2, <2>3, <2>4, <2>5
<1>2. CASE SyncRead \/ Elapse \/ Tick \/ WatchUp \/ WatchWait \/ WatchFailover
           \/ WatchCommand \/ Prepare \/ Seed
  BY <1>2, <1>0 DEF SyncRead, Elapse, Tick, WatchUp, WatchWait, WatchFailover,
       WatchCommand, Prepare, Seed, Quiet, daemon
<1>3. CASE SyncLoad \/ SyncDrop
  <2>1. ASSUME SyncLoad PROVE ViewOK'
    <3>1. PICK new : view' = [n \in Nodes |-> IF n \in new THEN Unchecked ELSE view[n]]
      BY <2>1 DEF SyncLoad
    <3>2. UNCHANGED parked
      BY <2>1 DEF SyncLoad
    <3> QED
      BY <3>1, <3>2 DEF ViewOK, Unchecked
  <2>2. ASSUME SyncDrop PROVE ViewOK'
    <3>1. PICK old : parked' = [n \in Nodes |-> IF n \in old THEN "none" ELSE parked[n]]
      BY <2>2 DEF SyncDrop
    <3>2. UNCHANGED view
      BY <2>2 DEF SyncDrop
    <3> QED
      BY <3>1, <3>2 DEF ViewOK
  <2> QED
    BY <1>3, <2>1, <2>2
<1>4. CASE SyncAdopt
  <2>1. CASE mem["daemon"].primary \in topo["daemon"].replicas
    BY <1>4, <2>1, <1>procs, PromoteOK DEF SyncAdopt, ViewOK
  <2>2. CASE mem["daemon"].primary \notin topo["daemon"].replicas
    BY <1>4, <2>2, <1>0 DEF SyncAdopt
  <2> QED
    BY <2>1, <2>2
<1>5. ASSUME NEW x \in Procs,
             ReadStatus(x) \/ Exchanges(x)
             \/ Assign(x) \/ Marshal(x) \/ Write(x) \/ SaveFails(x) \/ Follow(x)
      PROVE  ViewOK'
  BY <1>5, <1>0, ExchangeKeeps DEF ReadStatus, Assign, Marshal, Write,
       SaveFails, Follow, Quiet, daemon
<1>6. ASSUME NEW x \in Procs, Switch(x) PROVE ViewOK'
  <2>1. CASE job[x].node \in topo[x].replicas
    BY <1>6, <2>1, PromoteOK DEF Switch, ViewOK
  <2>2. CASE job[x].node \notin topo[x].replicas
    BY <1>6, <2>2, <1>0 DEF Switch
  <2> QED
    BY <2>1, <2>2
<1>7. ASSUME NEW c \in Commands, Begin(c) PROVE ViewOK'
  BY <1>7, <1>0 DEF Begin, Quiet, daemon
<1>8. CASE CrashRestart
  BY <1>8 DEF CrashRestart, BuiltView, Unchecked, ViewOK
<1>9. CASE UNCHANGED vars
  BY <1>9, <1>0 DEF vars
<1>10. ASSUME NEW x \in Procs, Step(x) PROVE ViewOK'
  BY <1>10, <1>5, <1>6 DEF Step, Exchanges
<1> QED
  BY <1>1, <1>2, <1>3, <1>4, <1>5, <1>7, <1>8, <1>9, <1>10, <1>procs
  DEF Next, Check, Sync, Manage, Command

\* What the manager remembers, and the bounds.
LEMMA CountersStep == ClusterInv /\ [Next]_vars => CountersOK'
<1> SUFFICES ASSUME ClusterInv, [Next]_vars PROVE CountersOK'
  OBVIOUS
<1> USE DEF ClusterInv
<1>procs. "daemon" \in Procs /\ "cli" \in Procs
  BY DEF Procs
<1>0. ASSUME UNCHANGED <<applying, downSince, crashes, commands>> PROVE CountersOK'
  BY <1>0 DEF CountersOK
<1>1. ASSUME NEW n \in Nodes,
             ServerDown(n) \/ ServerUp(n) \/ CheckTimesOut(n) \/ Check(n) \/ Drop(n)
      PROVE  CountersOK'
  BY <1>1, <1>0 DEF ServerDown, ServerUp, CheckTimesOut, Check, CheckAsk,
       CheckAskDead, CheckFails, CheckStore, Drop, manager
<1>2. CASE Sync \/ Tick \/ WatchFailover \/ WatchCommand \/ Prepare \/ Seed
  BY <1>2, <1>0 DEF Sync, SyncRead, SyncLoad, SyncDrop, SyncAdopt, Tick,
       WatchFailover, WatchCommand, Prepare, Seed, Quiet, manager
<1>3. CASE Elapse \/ WatchUp \/ WatchWait
  BY <1>3 DEF Elapse, WatchUp, WatchWait, Quiet, CountersOK
<1>4. ASSUME NEW x \in Procs, ReadStatus(x) PROVE CountersOK'
  <2>1. job[x].todo \subseteq Nodes
    BY DEF JobsOK, JobOK, Job
  <2>2. applying' \subseteq Nodes
    BY <1>4, <2>1 DEF ReadStatus, CountersOK
  <2> QED
    BY <1>4, <2>2 DEF ReadStatus, Quiet, CountersOK
<1>5. ASSUME NEW x \in Procs,
             Exchanges(x) \/ Switch(x)
             \/ Assign(x) \/ Marshal(x) \/ Write(x) \/ SaveFails(x) \/ Follow(x)
      PROVE  CountersOK'
  BY <1>5, <1>0, ExchangeKeeps DEF Switch, Assign, Marshal, Write,
       SaveFails, Follow, Quiet, manager
<1>6. ASSUME NEW c \in Commands, Begin(c) PROVE CountersOK'
  BY <1>6, BoundsAssumption DEF Begin, Quiet, manager, CountersOK
<1>7. CASE CrashRestart
  BY <1>7, BoundsAssumption DEF CrashRestart, CountersOK
<1>8. CASE UNCHANGED vars
  BY <1>8, <1>0 DEF vars
<1>9. ASSUME NEW x \in Procs, Step(x) PROVE CountersOK'
  BY <1>9, <1>4, <1>5 DEF Step, Exchanges
<1> QED
  BY <1>1, <1>2, <1>3, <1>5, <1>6, <1>7, <1>8, <1>9, <1>procs
  DEF Next, Manage, Command

-----------------------------------------------------------------------------
(* The invariant *)

\* It holds at first: no file, no job, nothing known.
LEMMA ClusterInit == Init => ClusterInv
<1> SUFFICES ASSUME Init PROVE ClusterInv
  OBVIOUS
<1>built. Built(NoRecord) = [primary |-> ConfPrimary, replicas |-> ConfReplicas]
  BY NodesAssumption DEF Built, Members, NoRecord
<1>procs. "daemon" \in Procs
  BY DEF Procs
<1>1. ServersOK
  BY NodesAssumption, BoundsAssumption DEF Init, ServersOK, Maybe
<1>2. RecordsOK
  BY NoRecordOK DEF Init, RecordsOK
<1>3. TopoOK
  BY NoRecordOK, BuiltOK DEF Init, TopoOK
<1>4. ViewOK
  BY DEF Init, ViewOK, BuiltView, Unchecked
<1>5. HealthOK
  <2>1. NodesOf("daemon") = ConfReplicas \cup {ConfPrimary}
    BY <1>built, <1>procs DEF Init, NodesOf
  <2>2. /\ health = [pc |-> "check", doc |-> NoRecord, wanted |-> {},
                     asked |-> Round(ConfReplicas \cup {ConfPrimary})]
        /\ Round(ConfReplicas \cup {ConfPrimary}) \in Asked
    BY DEF Init, Round, Asked
  <2> QED
    BY <2>1, <2>2, NoRecordOK DEF HealthOK, Checking, Round
<1>6. JobsOK
  BY IdleOK, <1>procs DEF Init, JobsOK, Idle
<1>7. CountersOK
  BY BoundsAssumption DEF Init, CountersOK
<1> QED
  BY <1>1, <1>2, <1>3, <1>4, <1>5, <1>6, <1>7 DEF ClusterInv

\* Every step keeps it, group of variables by group.
LEMMA ClusterStep == ClusterInv /\ [Next]_vars => ClusterInv'
  BY JobsStep, ServersStep, RecordsStep, TopoStep, ViewStep, CountersStep
  DEF ClusterInv

\* It holds in every state that is reached: the daemon, its manager and its
\* checks, and the command line beside it.
THEOREM ClusterCorrect == Spec => []ClusterInv
  BY ClusterInit, ClusterStep, PTL DEF Spec

\* Every variable in its type; the primary is never one of its own replicas,
\* and the daemon checks only nodes it has, whatever the commands, the faults
\* and the crashes.
THEOREM ClusterTypeOK == Spec => []TypeOK
  BY ClusterCorrect, InvTypeOK, PTL

-----------------------------------------------------------------------------
(* Routing by lag *)

\* A replica of the daemon's that is up, on a lag that is known and within the
\* limit.
Able(n) == n \in topo["daemon"].replicas /\ view[n].up /\ view[n].fresh

\* With a limit on the lag, those are the replicas in rotation.
LEMMA RotationIsAble ==
    ASSUME NEW n \in Nodes, LagLimited
    PROVE  /\ TopoOK => (InRotation(n) <=> Able(n))
           /\ TopoOK' => (InRotation(n)' <=> Able(n)')
<1>1. ASSUME TopoOK PROVE InRotation(n) <=> Able(n)
  <2>1. topo["daemon"].primary \notin topo["daemon"].replicas
    BY <1>1 DEF TopoOK, Topology, Procs
  <2> QED
    BY <2>1 DEF InRotation, Readers, Eligible, Able
<1>2. ASSUME TopoOK' PROVE InRotation(n)' <=> Able(n)'
  <2>1. topo'["daemon"].primary \notin topo'["daemon"].replicas
    BY <1>2 DEF TopoOK, Topology, Procs
  <2> QED
    BY <2>1 DEF InRotation, Readers, Eligible, Able
<1> QED
  BY <1>1, <1>2

\* A promotion puts nobody in the rotation: the new primary leaves the replicas
\* and the old one joins them without a lag.
LEMMA PromoteRotatesNobody ==
    ASSUME TopoOK, ViewOK, NEW x \in Procs, NEW p \in topo[x].replicas,
           TopoPromote(x, p), NEW n \in Nodes, Able(n)'
    PROVE  Able(n)
<1>1. CASE x = "daemon"
  <2>1. topo["daemon"] \in Topology /\ p \in Nodes
    BY <1>1 DEF TopoOK, Topology, Procs
  <2>2. topo'["daemon"] = Swapped(topo["daemon"], p)
    BY <1>1 DEF TopoPromote, TopoOK, Procs
  <2>3. view' = SwappedView(p)
    BY <1>1 DEF TopoPromote
  <2>4. /\ n # p
        /\ n \in topo["daemon"].replicas \/ n = topo["daemon"].primary
    <3>1. Swapped(topo["daemon"], p).replicas
            = (topo["daemon"].replicas \ {p}) \cup {topo["daemon"].primary}
      BY <2>1, <1>1, SwappedOK
    <3>2. n \in (topo["daemon"].replicas \ {p}) \cup {topo["daemon"].primary}
      BY <2>2, <3>1 DEF Able
    <3>3. p \in topo["daemon"].replicas
      BY <1>1
    <3> QED
      BY <2>1, <3>2, <3>3 DEF Topology
  <2>5. n # topo["daemon"].primary
    BY <2>3, <2>4 DEF SwappedView, ViewOK, Able
  <2>6. view'[n] = view[n]
    BY <2>3, <2>4, <2>5 DEF SwappedView, ViewOK
  <2> QED
    BY <2>4, <2>5, <2>6 DEF Able
<1>2. CASE x # "daemon"
  BY <1>2 DEF TopoPromote, Able, TopoOK, Procs
<1> QED
  BY <1>1, <1>2

\* A replica that enters the rotation does so by a check that read its lag, or
\* that was begun while it was the primary.
LEMMA RotationStep ==
    ASSUME ClusterInv, [Next]_vars, NEW n \in Nodes, ~Able(n), Able(n)'
    PROVE  LagReadable(n) \/ Checking(n, "asPrimary")
<1> USE DEF ClusterInv
<1>procs. "daemon" \in Procs /\ "cli" \in Procs
  BY DEF Procs
<1>0. ~UNCHANGED <<topo, view>>
  BY DEF Able
<1>same. ASSUME UNCHANGED topo, view'[n] = view[n] PROVE FALSE
  BY <1>same DEF Able
<1>1. ASSUME NEW m \in Nodes,
             ServerDown(m) \/ ServerUp(m) \/ CheckAskDead(m) \/ Drop(m)
      PROVE  FALSE
  BY <1>1, <1>0 DEF ServerDown, ServerUp, CheckAskDead, Drop, daemon
<1>2. ASSUME NEW m \in Nodes, CheckTimesOut(m) \/ CheckFails(m) PROVE FALSE
  <2>1. /\ view' = [view EXCEPT ![m].up = FALSE, ![m].fresh = FALSE]
        /\ UNCHANGED topo
    BY <1>2 DEF CheckTimesOut, CheckFails, MarkDown
  <2> QED
    BY <2>1, <1>same DEF ViewOK, Able
<1>3. ASSUME NEW m \in Nodes, CheckAsk(m) PROVE FALSE
  <2>1. view' = [view EXCEPT ![m].ro = server[m].ro] /\ UNCHANGED topo
    BY <1>3 DEF CheckAsk
  <2>2. view'[n].up = view[n].up /\ view'[n].fresh = view[n].fresh
    BY <2>1 DEF ViewOK
  <2> QED
    BY <2>1, <2>2 DEF Able
<1>4. ASSUME NEW m \in Nodes, CheckStore(m)
      PROVE  LagReadable(n) \/ Checking(n, "asPrimary")
  <2>1. UNCHANGED topo /\ health.pc = "check" /\ health.asked[m] \in {"asPrimary", "asReplica"}
    BY <1>4 DEF CheckStore
  <2>2. PICK fresh \in IF health.asked[m] = "asPrimary" THEN {TRUE}
                       ELSE IF LagReadable(m) THEN BOOLEAN ELSE {FALSE} :
          view' = [view EXCEPT ![m].up = TRUE, ![m].fresh = fresh]
    BY <1>4 DEF CheckStore
  <2>3. n = m
    BY <2>1, <2>2, <1>same DEF ViewOK
  <2>4. view'[n].fresh = fresh
    BY <2>2, <2>3 DEF ViewOK
  <2>5. fresh
    BY <2>4 DEF Able
  <2> QED
    BY <2>1, <2>2, <2>3, <2>5 DEF Checking
<1>5. CASE SyncRead \/ Elapse \/ Tick \/ WatchUp \/ WatchWait \/ WatchFailover
           \/ WatchCommand \/ Prepare \/ Seed
  BY <1>5, <1>0 DEF SyncRead, Elapse, Tick, WatchUp, WatchWait, WatchFailover,
       WatchCommand, Prepare, Seed, Quiet, daemon
<1>6. CASE SyncLoad
  <2>1. PICK new :
          /\ topo' = [topo EXCEPT !["daemon"].replicas = @ \cup new]
          /\ view' = [m \in Nodes |-> IF m \in new THEN Unchecked ELSE view[m]]
    BY <1>6 DEF SyncLoad
  <2>2. n \in topo["daemon"].replicas \/ n \in new
    BY <2>1, <1>procs DEF Able, TopoOK, Topology
  <2>3. n \notin new
    BY <2>1 DEF Able, Unchecked
  <2> QED
    BY <2>1, <2>2, <2>3 DEF Able
<1>7. CASE SyncDrop
  <2>1. UNCHANGED view /\ topo' = [topo EXCEPT !["daemon"].replicas = @ \ UnlistedReplicas]
    BY <1>7 DEF SyncDrop
  <2>2. n \in topo["daemon"].replicas
    BY <2>1, <1>procs DEF Able, TopoOK, Topology
  <2> QED
    BY <2>1, <2>2 DEF Able
<1>8. CASE SyncAdopt
  <2>1. CASE mem["daemon"].primary \in topo["daemon"].replicas
    BY <1>8, <2>1, <1>procs, PromoteRotatesNobody DEF SyncAdopt
  <2>2. CASE mem["daemon"].primary \notin topo["daemon"].replicas
    BY <1>8, <2>2, <1>0 DEF SyncAdopt
  <2> QED
    BY <2>1, <2>2
<1>9. ASSUME NEW x \in Procs,
             ReadStatus(x) \/ Exchanges(x)
             \/ Assign(x) \/ Marshal(x) \/ Write(x) \/ SaveFails(x) \/ Follow(x)
      PROVE  FALSE
  BY <1>9, <1>0, ExchangeKeeps DEF ReadStatus, Assign, Marshal, Write,
       SaveFails, Follow, Quiet, daemon
<1>10. ASSUME NEW x \in Procs, Switch(x) PROVE FALSE
  <2>1. CASE job[x].node \in topo[x].replicas
    BY <1>10, <2>1, PromoteRotatesNobody DEF Switch
  <2>2. CASE job[x].node \notin topo[x].replicas
    BY <1>10, <2>2, <1>0 DEF Switch
  <2> QED
    BY <2>1, <2>2
<1>11. ASSUME NEW c \in Commands, Begin(c) PROVE FALSE
  <2>1. UNCHANGED view /\ topo' = [topo EXCEPT !["cli"] = Built(file)]
    BY <1>11 DEF Begin, Quiet, daemon
  <2> QED
    BY <2>1, <1>procs DEF Able, TopoOK
<1>12. CASE CrashRestart
  <2>1. topo' = [topo EXCEPT !["daemon"] = Built(file)] /\ view' = BuiltView(file)
    BY <1>12 DEF CrashRestart
  <2>2. topo'["daemon"] = Built(file) /\ Built(file) \in Topology
    BY <2>1, <1>procs, BuiltOK DEF TopoOK, RecordsOK
  <2>3. n # Built(file).primary
    BY <2>2 DEF Able, Topology
  <2> QED
    BY <2>1, <2>3 DEF Able, BuiltView, Unchecked
<1>13. CASE UNCHANGED vars
  BY <1>13, <1>0 DEF vars
<1>14. ASSUME NEW x \in Procs, Step(x) PROVE FALSE
  BY <1>14, <1>9, <1>10 DEF Step, Exchanges
<1> QED
  BY <1>1, <1>2, <1>3, <1>4, <1>5, <1>6, <1>7, <1>8, <1>9, <1>11, <1>12, <1>13,
     <1>14, <1>procs
  DEF Next, Check, Sync, Manage, Command

\* A replica enters the read rotation only on a lag that was read from it:
\* not when it is added, restored, demoted or found again after a crash.
THEOREM RotationByLag == Spec => EligibleByItsLag
<1>1. ClusterInv /\ [Next]_vars =>
        [LagLimited =>
           \A n \in Nodes :
              ~InRotation(n) /\ InRotation(n)' =>
                  LagReadable(n) \/ Checking(n, "asPrimary")]_vars
  <2> SUFFICES ASSUME ClusterInv, [Next]_vars, LagLimited, NEW n \in Nodes,
                      ~InRotation(n), InRotation(n)'
               PROVE  LagReadable(n) \/ Checking(n, "asPrimary")
    OBVIOUS
  <2>1. TopoOK /\ TopoOK'
    BY TopoStep DEF ClusterInv
  <2>2. ~Able(n) /\ Able(n)'
    BY <2>1, RotationIsAble
  <2> QED
    BY <2>2, RotationStep
<1> QED
  BY <1>1, ClusterCorrect, PTL DEF Spec, EligibleByItsLag

=============================================================================
