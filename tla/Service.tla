------------------------------ MODULE Service ------------------------------
(***************************************************************************)
(* The life of gora as a service (cmd/gora): processes that start, serve,  *)
(* are told to reload or to stop, and crash; the pid file they are found   *)
(* by; and the operators who edit config.yaml and conf.d and send the      *)
(* signals.                                                                *)
(*                                                                         *)
(* A process reads the configuration, looks at the pid file, writes its    *)
(* own, reads the drop-ins, starts the goroutine that watches for SIGHUP,  *)
(* and binds its port.  A reload reads both documents and puts them into   *)
(* force section after section.  The cache rules alone take two steps when *)
(* the table prefix is to be detected: a reload leaves them with the cache, *)
(* and a goroutine that has found the prefix compiles and installs them.   *)
(* An operator edits a copy of the configuration, renames it into place,   *)
(* looks for a running gora and signals it.  Each step is one call on a    *)
(* file, a signal, or one atomic store.                                    *)
(*                                                                         *)
(* A configuration is the table prefix, which needs a restart, and one     *)
(* value for the settings tagged hot.  A set of drop-ins is whether it     *)
(* validates, and which traffic sections use {prefix}.                     *)
(***************************************************************************)
EXTENDS Integers, Sequences, FiniteSets

CONSTANTS
    Processes,    \* process ids
    Operators,    \* who runs commands or an editor
    Hot,          \* values of the hot settings
    FirstHot,
    RuleDocs,     \* what conf.d may hold
    FirstRules,
    OverlappingStarts,  \* may two processes be between runningPID and
                        \* writePIDFile at once?
    MaxEdits,     \* bound: changes of the documents
    None          \* no process

\* The sections in the order apply stores them, and what each comes from.
Sections == <<"rewrites", "blocks", "throttles", "cache rules",
              "cache", "routing", "replication", "log level">>
TrafficSections == {"rewrites", "blocks", "throttles"}
RuleSections == TrafficSections \cup {"cache rules"}
SettingSections == {"cache", "routing", "replication", "log level"}

SectionSet == RuleSections \cup SettingSections

Prefixes == {"auto", "wp_"}
Config == [prefix : Prefixes, hot : Hot]
RuleDoc == [valid : BOOLEAN, uses : SUBSET TrafficSections]
Reading == [config : Config, rules : RuleDoc]

ASSUME ServiceAssumption ==
    /\ RuleDocs \subseteq RuleDoc
    /\ FirstRules \in RuleDocs /\ FirstHot \in Hot
    /\ OverlappingStarts \in BOOLEAN /\ MaxEdits \in Nat
    /\ None \notin Processes /\ None \notin Config /\ None \notin RuleDoc

VARIABLES
    config, tmp, confd, pidFile,      \* the files; tmp: config.yaml.tmp
    edits,       \* bound: how often the documents have changed
    phase,       \* how far each process is
    watcher,     \* has it called signal.Notify for SIGHUP: "no", "on", "off"
    hup,         \* is there a signal in its channel of one?
    stopping,    \* is its ctx done?
    step,        \* apply: 0 waits for a signal, 1 and 2 read the documents,
                 \* 2 + i stores section i
    reading,     \* the documents it is starting with or applying
    force,       \* the reading each section is from; of the cache rules it
                 \* is rawRules, which the prefix is not yet put into
    cacheRules,  \* the drop-ins of the compiled cache rules; None while the
                 \* table prefix is unknown, when nothing is cached
    draft,       \* what a detection has compiled and not yet installed
    behind,      \* history: processes with a detection, under way or done,
                 \* that compiled other rules than the last SetRules was given
    outcome,     \* what the log says of the last apply
    op,          \* where each operator is
    edited,      \* the configuration it is to write, and is the change hot?
    target,      \* the process it has found
    overtaken    \* history: processes whose configuration was changed after
                 \* they had read it and before they could be found

life == <<phase, watcher, hup, stopping>>
cache == <<cacheRules, draft, behind>>
apply == <<step, reading, force, outcome, cache>>
commands == <<edits, op, edited, target>>
vars == <<config, tmp, confd, pidFile, life, apply, commands, overtaken>>

FirstConfig == [prefix |-> "auto", hot |-> FirstHot]
FirstReading == [config |-> FirstConfig, rules |-> FirstRules]
From(r) == [s \in SectionSet |-> r]
NoEdit == [config |-> FirstConfig, hot |-> FALSE]

Init ==
    /\ config = FirstConfig /\ tmp = None /\ confd = FirstRules
    /\ pidFile = None /\ edits = 0 /\ overtaken = {}
    /\ phase = [p \in Processes |-> "none"]
    /\ watcher = [p \in Processes |-> "no"]
    /\ hup = [p \in Processes |-> FALSE]
    /\ stopping = [p \in Processes |-> FALSE]
    /\ step = [p \in Processes |-> 0]
    /\ reading = [p \in Processes |-> FirstReading]
    /\ force = [p \in Processes |-> From(FirstReading)]
    /\ cacheRules = [p \in Processes |-> None]
    /\ draft = [p \in Processes |-> None] /\ behind = {}
    /\ outcome = [p \in Processes |-> "ok"]
    /\ op = [o \in Operators |-> "idle"]
    /\ edited = [o \in Operators |-> NoEdit]
    /\ target = [o \in Operators |-> None]

-----------------------------------------------------------------------------
(* start, serve and the end of a process *)

Goto(p, l) == phase' = [phase EXCEPT ![p] = l]

\* config.Load.
Load(p) ==
    /\ phase[p] = "none"
    /\ Goto(p, "loaded")
    /\ reading' = [reading EXCEPT ![p].config = config]
    /\ UNCHANGED <<config, tmp, confd, pidFile, watcher, hup, stopping, step,
                   force, outcome, cache, commands, overtaken>>

\* runningPID: the process the file names, if it is alive.
Running == {p \in Processes : p = pidFile /\ phase[p] # "none"}

\* Nothing is left of a process but the files.
Gone(p) ==
    /\ Goto(p, "none")
    /\ watcher' = [watcher EXCEPT ![p] = "no"]
    /\ hup' = [hup EXCEPT ![p] = FALSE]
    /\ stopping' = [stopping EXCEPT ![p] = FALSE]
    /\ step' = [step EXCEPT ![p] = 0]
    /\ reading' = [reading EXCEPT ![p] = FirstReading]
    /\ force' = [force EXCEPT ![p] = From(FirstReading)]
    /\ outcome' = [outcome EXCEPT ![p] = "ok"]
    /\ cacheRules' = [cacheRules EXCEPT ![p] = None]
    /\ draft' = [draft EXCEPT ![p] = None] /\ behind' = behind \ {p}
    /\ overtaken' = overtaken \ {p}

\* start returns: the deferred removePIDFile, whatever the file says.
Exits(p) == Gone(p) /\ pidFile' = None /\ UNCHANGED <<config, tmp, confd, commands>>

\* Mutant: removePIDFile is deferred before runningPID is asked.
AlreadyRunningRemoves(p) ==
    /\ phase[p] = "loaded" /\ Running # {}
    /\ Exits(p)

AlreadyRunning(p) ==
    /\ phase[p] = "loaded" /\ Running # {}
    /\ Gone(p)
    /\ UNCHANGED <<config, tmp, confd, pidFile, commands>>

FindsNone(p) ==
    /\ phase[p] = "loaded" /\ Running = {}
    /\ OverlappingStarts \/ \A q \in Processes : phase[q] # "checked"
    /\ Goto(p, "checked")
    /\ UNCHANGED <<config, tmp, confd, pidFile, watcher, hup, stopping, apply,
                   commands, overtaken>>

\* writePIDFile, and signal.NotifyContext for SIGTERM.
Record(p) ==
    /\ phase[p] = "checked"
    /\ Goto(p, "recorded") /\ pidFile' = p
    /\ UNCHANGED <<config, tmp, confd, watcher, hup, stopping, apply, commands,
                   overtaken>>

\* ExpandPrefix: does a section compile with the prefix read with it?
Compiles(s, r) == s \in r.rules.uses => r.config.prefix # "auto"

\* serve, up to the goroutine that will watch for signals: the drop-ins are
\* read and compiled, and everything is built from them.  cache.New binds its
\* rules unless the prefix is to be detected.
Build(p) ==
    /\ phase[p] = "recorded"
    /\ LET r == [reading[p] EXCEPT !.rules = confd] IN
       /\ r.rules.valid /\ \A s \in SectionSet : Compiles(s, r)
       /\ reading' = [reading EXCEPT ![p] = r]
       /\ force' = [force EXCEPT ![p] = From(r)]
       /\ cacheRules' = [cacheRules EXCEPT ![p] =
                           IF r.config.prefix = "auto" THEN None ELSE r.rules]
    /\ draft' = [draft EXCEPT ![p] = None] /\ behind' = behind \ {p}
    /\ Goto(p, "built")
    /\ UNCHANGED <<config, tmp, confd, pidFile, watcher, hup, stopping, step,
                   outcome, commands, overtaken>>

\* serve returns an error: those documents, a certificate, a state file.
StartFails(p) == phase[p] = "recorded" /\ Exits(p)

\* srv.Run: the port is free, or it is not; with ctx done Listen fails too.
PortTaken == \E p \in Processes : phase[p] = "serving"

Listens(p) ==
    /\ phase[p] = "built" /\ ~PortTaken /\ ~stopping[p]
    /\ Goto(p, "serving")
    /\ UNCHANGED <<config, tmp, confd, pidFile, watcher, hup, stopping, apply,
                   commands, overtaken>>

ListenFails(p) ==
    /\ phase[p] = "built" /\ (PortTaken \/ stopping[p])
    /\ Exits(p)

\* SIGTERM, from gora stop or systemd.
Terminate(p) ==
    /\ phase[p] \in {"recorded", "built", "serving"} /\ ~stopping[p]
    /\ stopping' = [stopping EXCEPT ![p] = TRUE]
    /\ UNCHANGED <<config, tmp, confd, pidFile, phase, watcher, hup, apply,
                   commands, overtaken>>

\* The listener is closed; the drain of Server follows.
Drains(p) ==
    /\ phase[p] = "serving" /\ stopping[p]
    /\ Goto(p, "draining")
    /\ UNCHANGED <<config, tmp, confd, pidFile, watcher, hup, stopping, apply,
                   commands, overtaken>>

Drained(p) == phase[p] = "draining" /\ Exits(p)

\* kill -9, or a panic: the pid file stays.
Crash(p) ==
    /\ phase[p] # "none"
    /\ Gone(p)
    /\ UNCHANGED <<config, tmp, confd, pidFile, commands>>

-----------------------------------------------------------------------------
(* watchReloads and apply *)

Watch(p) ==
    /\ phase[p] \in {"built", "serving", "draining"} /\ watcher[p] = "no"
    /\ watcher' = [watcher EXCEPT ![p] = "on"]
    /\ UNCHANGED <<config, tmp, confd, pidFile, phase, hup, stopping, apply,
                   commands, overtaken>>

\* ctx is done: the deferred signal.Stop.
Unwatch(p) ==
    /\ watcher[p] = "on" /\ step[p] = 0 /\ stopping[p]
    /\ watcher' = [watcher EXCEPT ![p] = "off"]
    /\ hup' = [hup EXCEPT ![p] = FALSE]
    /\ UNCHANGED <<config, tmp, confd, pidFile, phase, stopping, apply,
                   commands, overtaken>>

TakeSignal(p) ==
    /\ watcher[p] = "on" /\ step[p] = 0 /\ hup[p]
    /\ hup' = [hup EXCEPT ![p] = FALSE]
    /\ step' = [step EXCEPT ![p] = 1]
    /\ overtaken' = overtaken \ {p}
    /\ UNCHANGED <<config, tmp, confd, pidFile, phase, watcher, stopping,
                   reading, force, outcome, cache, commands>>

\* apply returns, and logs how it went.
Ends(p, how) ==
    /\ step' = [step EXCEPT ![p] = 0]
    /\ outcome' = [outcome EXCEPT ![p] = how]

ReadConfig(p) ==
    /\ step[p] = 1
    /\ step' = [step EXCEPT ![p] = 2]
    /\ reading' = [reading EXCEPT ![p].config = config]
    /\ UNCHANGED <<config, tmp, confd, pidFile, life, force, outcome, cache,
                   commands, overtaken>>

ReadRules(p) ==
    /\ step[p] = 2
    /\ reading' = [reading EXCEPT ![p].rules = confd]
    /\ IF confd.valid
       THEN step' = [step EXCEPT ![p] = 3] /\ UNCHANGED outcome
       ELSE Ends(p, "failed")
    /\ UNCHANGED <<config, tmp, confd, pidFile, life, force, cache, commands,
                   overtaken>>

Section(p) == Sections[step[p] - 2]

\* Mutant: SetRules leaves the compiled rules alone.
NothingRebound(p) == UNCHANGED cache

\* Cache.SetRules: rawRules are replaced; they are bound only if the prefix is
\* known, and then no detection is under way.  While it is not, a detection
\* may have compiled the old ones already.
Rebound(p) ==
    /\ cacheRules' = IF cacheRules[p] = None THEN cacheRules
                     ELSE [cacheRules EXCEPT ![p] = reading[p].rules]
    /\ behind' = IF draft[p] \in {None, reading[p].rules} THEN behind \ {p}
                 ELSE behind \cup {p}
    /\ UNCHANGED draft

\* Mutant: the last section does not end the reload.
StoreRunsOn(p) ==
    /\ step[p] > 2 /\ Compiles(Section(p), reading[p])
    /\ force' = [force EXCEPT ![p][Section(p)] = reading[p]]
    /\ IF Section(p) = "cache rules" THEN Rebound(p) ELSE UNCHANGED cache
    /\ step' = [step EXCEPT ![p] = @ + 1] /\ UNCHANGED outcome
    /\ UNCHANGED <<config, tmp, confd, pidFile, life, reading, commands, overtaken>>

Store(p) ==
    /\ step[p] > 2 /\ Compiles(Section(p), reading[p])
    /\ force' = [force EXCEPT ![p][Section(p)] = reading[p]]
    /\ IF Section(p) = "cache rules" THEN Rebound(p) ELSE UNCHANGED cache
    /\ IF step[p] - 2 = Len(Sections)
       THEN Ends(p, "ok")
       ELSE step' = [step EXCEPT ![p] = @ + 1] /\ UNCHANGED outcome
    /\ UNCHANGED <<config, tmp, confd, pidFile, life, reading, commands, overtaken>>

\* A section that does not compile ends the reload.
Abandon(p) ==
    /\ step[p] > 2 /\ ~Compiles(Section(p), reading[p])
    /\ Ends(p, "failed")
    /\ UNCHANGED <<config, tmp, confd, pidFile, life, reading, force, cache,
                   commands, overtaken>>

-----------------------------------------------------------------------------
(* detectPrefix: a goroutine that the first statements start.  Until it has  *)
(* compiled it may fail, and a later statement starts another.               *)

\* The options table is found; bindPrefix compiles rawRules, ...
Detect(p) ==
    /\ phase[p] \in {"serving", "draining"}
    /\ cacheRules[p] = None /\ draft[p] = None
    /\ draft' = [draft EXCEPT ![p] = force[p]["cache rules"].rules]
    /\ UNCHANGED <<config, tmp, confd, pidFile, life, step, reading, force,
                   outcome, cacheRules, behind, commands, overtaken>>

\* ... and puts the patterns and the rules into force.
Bind(p) ==
    /\ draft[p] # None
    /\ cacheRules' = [cacheRules EXCEPT ![p] = draft[p]]
    /\ draft' = [draft EXCEPT ![p] = None]
    /\ UNCHANGED <<config, tmp, confd, pidFile, life, step, reading, force,
                   outcome, behind, commands, overtaken>>

-----------------------------------------------------------------------------
(* The operators *)

At(o, l) == op' = [op EXCEPT ![o] = l]

\* gora --set: the file is read, a copy of it edited and validated.
Set(o, c, hot) ==
    /\ op[o] = "idle" /\ edits < MaxEdits /\ edits' = edits + 1
    /\ At(o, "edited")
    /\ edited' = [edited EXCEPT ![o] = [config |-> c, hot |-> hot]]
    /\ UNCHANGED <<config, tmp, confd, pidFile, life, apply, target, overtaken>>

SetHot(o, v) == Set(o, [config EXCEPT !.hot = v], TRUE)
SetPrefix(o, v) == Set(o, [config EXCEPT !.prefix = v], FALSE)

\* writeConfig: the temporary file, which is always the same one, ...
WriteTmp(o) ==
    /\ op[o] = "edited"
    /\ At(o, "written")
    /\ tmp' = edited[o].config
    /\ UNCHANGED <<config, confd, pidFile, life, apply, edits, edited, target,
                   overtaken>>

\* ... and its rename, which fails if another command has renamed the file
\* away.  A hot setting asks for a reload.
Rename(o) ==
    /\ op[o] = "written"
    /\ edited' = [edited EXCEPT ![o] = NoEdit]
    /\ IF tmp = None
       THEN At(o, "idle") /\ UNCHANGED <<config, tmp, overtaken>>
       ELSE /\ At(o, IF edited[o].hot THEN "looks" ELSE "idle")
            /\ config' = tmp /\ tmp' = None
            /\ overtaken' = overtaken \cup
                            {p \in Processes : phase[p] \in {"loaded", "checked"}}
    /\ UNCHANGED <<confd, pidFile, life, apply, edits, target>>

\* A drop-in is added, changed or removed, and gora reload run.
EditRules(o, doc) ==
    /\ op[o] = "idle" /\ edits < MaxEdits /\ edits' = edits + 1
    /\ At(o, "looks")
    /\ confd' = doc
    /\ UNCHANGED <<config, tmp, pidFile, life, apply, edited, target, overtaken>>

Reload(o) ==
    /\ op[o] = "idle"
    /\ At(o, "looks")
    /\ UNCHANGED <<config, tmp, confd, pidFile, life, apply, edits, edited,
                   target, overtaken>>

Finds(o) ==
    /\ op[o] = "looks"
    /\ IF Running = {}
       THEN At(o, "idle") /\ UNCHANGED target
       ELSE At(o, "found") /\ target' = [target EXCEPT ![o] = pidFile]
    /\ UNCHANGED <<config, tmp, confd, pidFile, life, apply, edits, edited,
                   overtaken>>

\* Mutant: a channel without a buffer; a signal during a reload is dropped.
ReceivedWaiting(p) ==
    /\ watcher[p] = "on"
    /\ hup' = [hup EXCEPT ![p] = step[p] = 0]
    /\ UNCHANGED <<phase, watcher, stopping, apply, overtaken>>

\* SIGHUP: one more in the channel, if it is empty; without signal.Notify the
\* process ends.
Received(p) ==
    /\ watcher[p] = "on"
    /\ hup' = [hup EXCEPT ![p] = TRUE]
    /\ UNCHANGED <<phase, watcher, stopping, apply, overtaken>>

Dies(p) == phase[p] # "none" /\ watcher[p] # "on" /\ Gone(p)

NoProcess(p) == phase[p] = "none" /\ UNCHANGED <<life, apply, overtaken>>

Hangup(o) ==
    /\ op[o] = "found"
    /\ At(o, "idle") /\ target' = [target EXCEPT ![o] = None]
    /\ Received(target[o]) \/ Dies(target[o]) \/ NoProcess(target[o])
    /\ UNCHANGED <<config, tmp, confd, pidFile, edits, edited>>

-----------------------------------------------------------------------------

Starting(p) ==
    \/ Load(p) \/ AlreadyRunning(p) \/ FindsNone(p) \/ Record(p) \/ Build(p)
    \/ StartFails(p) \/ Listens(p) \/ ListenFails(p)
Ending(p) == Terminate(p) \/ Drains(p) \/ Drained(p) \/ Crash(p)
Watcher(p) ==
    \/ Watch(p) \/ Unwatch(p) \/ TakeSignal(p) \/ ReadConfig(p) \/ ReadRules(p)
    \/ Store(p) \/ Abandon(p)
Detection(p) == Detect(p) \/ Bind(p)
Command(o) ==
    \/ (\E v \in Hot : SetHot(o, v)) \/ (\E v \in Prefixes : SetPrefix(o, v))
    \/ (\E doc \in RuleDocs : EditRules(o, doc)) \/ Reload(o)
Completes(o) ==
    WriteTmp(o) \/ Rename(o) \/ Finds(o) \/ Hangup(o)

Next ==
    \/ \E p \in Processes : Starting(p) \/ Ending(p) \/ Watcher(p) \/ Detection(p)
    \/ \E o \in Operators : Command(o) \/ Completes(o)

Spec == Init /\ [][Next]_vars

\* The goroutine that reloads runs on, and a command that has begun ends.
\* Nothing obliges a process to start, to stop or to live, or a detection to
\* find the prefix: it takes a client and an answer of the backend.
FairSpec ==
    /\ Spec /\ \A p \in Processes : WF_vars(Watcher(p))
    /\ \A o \in Operators : WF_vars(Completes(o))

-----------------------------------------------------------------------------
(* Properties *)

Phases == {"none", "loaded", "checked", "recorded", "built", "serving", "draining"}

\* The values of the variables.
TypeOK ==
    /\ config \in Config /\ tmp \in Config \cup {None} /\ confd \in RuleDoc
    /\ pidFile \in Processes \cup {None} /\ edits \in 0..MaxEdits
    /\ phase \in [Processes -> Phases]
    /\ watcher \in [Processes -> {"no", "on", "off"}]
    /\ {hup, stopping} \subseteq [Processes -> BOOLEAN]
    /\ step \in [Processes -> 0..2 + Len(Sections)]
    /\ reading \in [Processes -> Reading]
    /\ force \in [Processes -> [SectionSet -> Reading]]
    /\ outcome \in [Processes -> {"ok", "failed"}]
    /\ {cacheRules, draft} \subseteq [Processes -> RuleDoc \cup {None}]
    /\ behind \subseteq Processes
    /\ op \in [Operators -> {"idle", "edited", "written", "looks", "found"}]
    /\ edited \in [Operators -> [config : Config, hot : BOOLEAN]]
    /\ target \in [Operators -> Processes \cup {None}]
    /\ overtaken \subseteq Processes

\* A reload never leaves a mixture of readings behind, whatever is edited
\* while it reads and stores, and however the detection of the table prefix
\* interleaves.  Outside apply every section is from one reading of the
\* documents; of the cache rules that says what the cache holds as rawRules,
\* and the ones it uses are compiled from those.  Two exceptions: the traffic
\* sections, after a reload that was refused; and the cache rules in use,
\* after a detection that compiled before a reload replaced rawRules and
\* installs later, which no reload rebinds until the next (traffic.go:36-46,
\* service.go:292-310, cache.go:158-197).
ReloadIsWhole ==
    \A p \in Processes : step[p] = 0 =>
        /\ \A s \in SectionSet :
              \/ force[p][s] = force[p]["log level"]
              \/ s \in TrafficSections /\ outcome[p] = "failed"
        /\ \/ cacheRules[p] \in {None, force[p]["log level"].rules}
           \/ p \in behind

\* Not a property of the code: the cache works with the rules of the last
\* reload, as soon as it works at all (cache.go:181-197).
CacheRulesAreReloaded ==
    \A p \in Processes :
        step[p] = 0 => cacheRules[p] \in {None, force[p]["cache rules"].rules}

\* Not a property of the code: a reload is all or nothing (service.go:281,
\* traffic.go:37).
ReloadIsAllOrNothing ==
    \A p \in Processes, s \in SectionSet :
        step[p] = 0 => force[p][s] = force[p]["log level"]

\* An edit is in force in the end: however signals, reads and further edits
\* interleave, a process that serves has the drop-ins and the hot settings of
\* the files, unless the log says that the last reload failed, or the edit
\* came after the process had read its configuration and before it could be
\* found.  The cache rules in use are those of the files too, except while
\* the table prefix is unknown, when none are, and after a detection that
\* overlapped the last reload, whose log says nothing of it
\* (service.go:265-276, settings.go:251-274, cache.go:158-197).
ReloadTakesEffect ==
    <>[](\A p \in Processes :
            phase[p] = "serving" /\ ~stopping[p] /\ outcome[p] = "ok"
              /\ p \notin overtaken
            => /\ \A s \in RuleSections : force[p][s].rules = confd
               /\ cacheRules[p] \in {None, confd} \/ p \in behind
               /\ \A s \in SettingSections : force[p][s].config.hot = config.hot)

\* gora stop and gora reload find the process that serves: the file names it
\* from before it binds the port until it has released it, through crashes,
\* failed starts and starts while another serves (service.go:52-60).
PidFileNamesServer ==
    \A p \in Processes : phase[p] = "serving" => pidFile = p

\* A reload never takes down an instance that is serving traffic
\* (service.go:246-248).
ReloadNeverKills ==
    [][\A o \in Operators, p \in Processes :
          Hangup(o) /\ phase[p] \in {"serving", "draining"} => phase'[p] # "none"]_vars

\* Not a property of the code: a setting that is not hot takes effect at the
\* next restart (config/settings.go:17-19).
PrefixNeedsRestart ==
    [][\A p \in Processes :
          phase[p] = "serving" /\ phase'[p] = "serving" =>
             \A s \in TrafficSections :
                force'[p][s].config.prefix = force[p][s].config.prefix]_vars

\* Not a property of the code with two operators: a command changes the one
\* setting it names (settings.go:16-21).
SetChangesOneSetting ==
    [][\A o \in Operators :
          Rename(o) => \/ config'.hot = config.hot
                       \/ config'.prefix = config.prefix]_vars
=============================================================================
