---------------------------- MODULE ServiceProofs ---------------------------
(***************************************************************************)
(* What holds of the service for any processes, operators and documents:   *)
(* a reload leaves no mixture behind, and the pid file names the process   *)
(* that serves as long as two starts do not overlap.                       *)
(***************************************************************************)
EXTENDS Service, TLAPS

-----------------------------------------------------------------------------
(* The sections *)

\* There are eight sections.
LEMMA NumSections == Len(Sections) = 8
  BY DEF Sections

\* The last one is not a traffic section.
LEMMA LogLevel == "log level" \in SectionSet \ TrafficSections
  BY DEF SectionSet, RuleSections, SettingSections, TrafficSections

\* Nor are the cache rules.
LEMMA CacheRules == "cache rules" \in SectionSet \ TrafficSections
  BY DEF SectionSet, RuleSections, SettingSections, TrafficSections

\* The order of apply: the traffic sections are the first three.
LEMMA SectionFacts ==
    /\ Len(Sections) = 8
    /\ \A i \in 1..8 : Sections[i] \in SectionSet
    /\ \A i \in 1..3 : Sections[i] \in TrafficSections
    /\ \A s \in TrafficSections : \E i \in 1..3 : Sections[i] = s
    /\ \A s \in SectionSet \ TrafficSections : \E i \in 4..8 : Sections[i] = s
    /\ \A i \in 4..8 : Sections[i] \notin TrafficSections
    /\ \A i, j \in 1..8 : Sections[i] = Sections[j] => i = j
    /\ "log level" \in SectionSet \ TrafficSections
    /\ Sections[8] = "log level"
<1> DEFINE S == Sections
<1>1. /\ S[1] = "rewrites" /\ S[2] = "blocks" /\ S[3] = "throttles"
      /\ S[4] = "cache rules" /\ S[5] = "cache" /\ S[6] = "routing"
      /\ S[7] = "replication" /\ S[8] = "log level" /\ Len(S) = 8
  BY DEF Sections
<1>2. SectionSet = {"rewrites", "blocks", "throttles", "cache rules", "cache",
                    "routing", "replication", "log level"}
  BY DEF SectionSet, RuleSections, TrafficSections, SettingSections
<1>3. \A i \in 1..8 : i \in {1, 2, 3, 4, 5, 6, 7, 8}
  OBVIOUS
<1>4. /\ \A i \in 1..3 : i \in {1, 2, 3}
      /\ \A i \in 4..8 : i \in {4, 5, 6, 7, 8}
  OBVIOUS
<1> HIDE DEF S
<1>5. \A i \in 1..8 : S[i] \in SectionSet
  BY <1>1, <1>2, <1>3
<1>6. \A i \in 1..3 : S[i] \in TrafficSections
  BY <1>1, <1>4 DEF TrafficSections
<1>7. \A s \in TrafficSections : \E i \in 1..3 : S[i] = s
  <2>1. \A s \in TrafficSections : s = S[1] \/ s = S[2] \/ s = S[3]
    BY <1>1 DEF TrafficSections
  <2>2. 1 \in 1..3 /\ 2 \in 1..3 /\ 3 \in 1..3
    OBVIOUS
  <2> QED
    BY <2>1, <2>2
<1>8. \A s \in SectionSet \ TrafficSections : \E i \in 4..8 : S[i] = s
  <2>1. \A s \in SectionSet \ TrafficSections :
          s = S[4] \/ s = S[5] \/ s = S[6] \/ s = S[7] \/ s = S[8]
    BY <1>1, <1>2 DEF TrafficSections
  <2>2. 4 \in 4..8 /\ 5 \in 4..8 /\ 6 \in 4..8 /\ 7 \in 4..8 /\ 8 \in 4..8
    OBVIOUS
  <2> QED
    BY <2>1, <2>2
<1>9. \A i \in 4..8 : S[i] \notin TrafficSections
  BY <1>1, <1>4 DEF TrafficSections
<1>10. \A i, j \in 1..8 : S[i] = S[j] => i = j
  <2> SUFFICES ASSUME NEW i \in 1..8, NEW j \in 1..8, S[i] = S[j] PROVE i = j
    OBVIOUS
  <2> DEFINE T == {1, 2, 3, 4, 5, 6, 7, 8}
  <2>1. i \in T /\ j \in T
    BY <1>3
  <2>2. \A k \in T : k # i => S[k] # S[i]
    <3>1. CASE i = 1 BY <1>1, <3>1
    <3>2. CASE i = 2 BY <1>1, <3>2
    <3>3. CASE i = 3 BY <1>1, <3>3
    <3>4. CASE i = 4 BY <1>1, <3>4
    <3>5. CASE i = 5 BY <1>1, <3>5
    <3>6. CASE i = 6 BY <1>1, <3>6
    <3>7. CASE i = 7 BY <1>1, <3>7
    <3>8. CASE i = 8 BY <1>1, <3>8
    <3> QED
      BY <2>1, <3>1, <3>2, <3>3, <3>4, <3>5, <3>6, <3>7, <3>8
  <2> QED
    BY <2>1, <2>2
<1>11. "log level" \in SectionSet \ TrafficSections
  BY <1>2 DEF TrafficSections
<1> QED
  BY <1>1, <1>5, <1>6, <1>7, <1>8, <1>9, <1>10, <1>11 DEF S

-----------------------------------------------------------------------------
(* Type correctness *)

\* Reading a document again gives a reading.
LEMMA ReadingTypes ==
    ASSUME NEW r \in Reading
    PROVE  /\ \A c \in Config : [r EXCEPT !.config = c] \in Reading
           /\ \A d \in RuleDoc : [r EXCEPT !.rules = d] \in Reading
           /\ From(r) \in [SectionSet -> Reading]
  BY DEF Reading, From

\* TypeOK by the tuples of variables that actions leave alone together.
FilesOK ==
    /\ config \in Config /\ tmp \in Config \cup {None} /\ confd \in RuleDoc
    /\ pidFile \in Processes \cup {None}

LifeOK ==
    /\ phase \in [Processes -> Phases]
    /\ watcher \in [Processes -> {"no", "on", "off"}]
    /\ hup \in [Processes -> BOOLEAN]
    /\ stopping \in [Processes -> BOOLEAN]

ApplyOK ==
    /\ step \in [Processes -> 0..10]
    /\ reading \in [Processes -> Reading]
    /\ force \in [Processes -> [SectionSet -> Reading]]
    /\ outcome \in [Processes -> {"ok", "failed"}]

CacheOK ==
    /\ cacheRules \in [Processes -> RuleDoc \cup {None}]
    /\ draft \in [Processes -> RuleDoc \cup {None}]
    /\ behind \subseteq Processes

Places == {"idle", "edited", "written", "looks", "found"}

CommandsOK ==
    /\ edits \in 0..MaxEdits
    /\ op \in [Operators -> Places]
    /\ edited \in [Operators -> [config : Config, hot : BOOLEAN]]
    /\ target \in [Operators -> Processes \cup {None}]

Typed ==
    /\ FilesOK /\ LifeOK /\ ApplyOK /\ CacheOK /\ CommandsOK
    /\ overtaken \subseteq Processes

\* Together the groups give the type invariant.
LEMMA TypeParts == Typed => TypeOK
<1> SUFFICES ASSUME Typed PROVE TypeOK
  OBVIOUS
<1>1. step \in [Processes -> 0..2 + Len(Sections)]
  <2>1. 2 + Len(Sections) = 10
    BY NumSections
  <2> QED
    BY <2>1 DEF Typed, ApplyOK
<1>2. /\ {hup, stopping} \subseteq [Processes -> BOOLEAN]
      /\ {cacheRules, draft} \subseteq [Processes -> RuleDoc \cup {None}]
      /\ behind \subseteq Processes
  BY DEF Typed, LifeOK, CacheOK
<1> QED
  BY <1>1, <1>2 DEF TypeOK, Typed, FilesOK, LifeOK, ApplyOK, CommandsOK, Places

\* What a process starts with.
LEMMA FirstTypes ==
    /\ FirstConfig \in Config /\ FirstReading \in Reading
    /\ From(FirstReading) \in [SectionSet -> Reading]
    /\ NoEdit \in [config : Config, hot : BOOLEAN]
    /\ RuleDocs \subseteq RuleDoc
  BY ServiceAssumption
     DEF FirstConfig, Config, Prefixes, FirstReading, Reading, From, NoEdit

\* The types hold at first.
LEMMA TypeInit == Init => Typed
  BY FirstTypes, ServiceAssumption
     DEF Init, Typed, FilesOK, LifeOK, ApplyOK, CacheOK, CommandsOK, Phases, Places

\* A group of variables that a step leaves alone keeps its types.
LEMMA Kept ==
    /\ FilesOK /\ UNCHANGED <<config, tmp, confd, pidFile>> => FilesOK'
    /\ LifeOK /\ UNCHANGED life => LifeOK'
    /\ ApplyOK /\ UNCHANGED apply => ApplyOK'
    /\ CacheOK /\ (UNCHANGED apply \/ UNCHANGED cache) => CacheOK'
    /\ CommandsOK /\ UNCHANGED commands => CommandsOK'
<1>1. FilesOK /\ UNCHANGED <<config, tmp, confd, pidFile>> => FilesOK'
  BY DEF FilesOK
<1>2. LifeOK /\ UNCHANGED life => LifeOK'
  BY DEF LifeOK, life
<1>3. ApplyOK /\ UNCHANGED apply => ApplyOK'
  BY DEF ApplyOK, apply
<1>4. CommandsOK /\ UNCHANGED commands => CommandsOK'
  BY DEF CommandsOK, commands
<1>5. CacheOK /\ (UNCHANGED apply \/ UNCHANGED cache) => CacheOK'
  BY DEF CacheOK, apply, cache
<1> QED
  BY <1>1, <1>2, <1>3, <1>4, <1>5

\* A process that moves on.
LEMMA GotoTypes ==
    ASSUME LifeOK, NEW p, NEW l \in Phases, Goto(p, l),
           UNCHANGED <<watcher, hup, stopping>>
    PROVE  LifeOK'
  BY DEF LifeOK, Goto

\* The end of a process keeps the types of everything it resets.
LEMMA GoneTypes ==
    ASSUME LifeOK, ApplyOK, CacheOK, overtaken \subseteq Processes, NEW p, Gone(p)
    PROVE  LifeOK' /\ ApplyOK' /\ CacheOK' /\ overtaken' \subseteq Processes
<1>1. /\ phase' \in [Processes -> Phases]
      /\ watcher' \in [Processes -> {"no", "on", "off"}]
  BY DEF LifeOK, Gone, Goto, Phases
<1>2. hup' \in [Processes -> BOOLEAN] /\ stopping' \in [Processes -> BOOLEAN]
  BY DEF LifeOK, Gone
<1>3. step' \in [Processes -> 0..10] /\ outcome' \in [Processes -> {"ok", "failed"}]
  <2>1. 0 \in 0..10
    OBVIOUS
  <2> QED
    BY <2>1, Zenon DEF ApplyOK, Gone
<1>4. /\ reading' \in [Processes -> Reading]
      /\ force' \in [Processes -> [SectionSet -> Reading]]
  BY FirstTypes DEF ApplyOK, Gone
<1>5. overtaken' \subseteq Processes
  BY DEF Gone
<1>6. CacheOK'
  BY DEF CacheOK, Gone
<1> QED
  BY <1>1, <1>2, <1>3, <1>4, <1>5, <1>6 DEF LifeOK, ApplyOK

\* The end of apply.
LEMMA EndsTypes ==
    ASSUME ApplyOK, NEW p, NEW how \in {"ok", "failed"}, Ends(p, how)
    PROVE  step' \in [Processes -> 0..10] /\ outcome' \in [Processes -> {"ok", "failed"}]
<1>1. step' \in [Processes -> 0..10]
  <2>1. 0 \in 0..10
    OBVIOUS
  <2> QED
    BY <2>1, Zenon DEF ApplyOK, Ends
<1>2. outcome' \in [Processes -> {"ok", "failed"}]
  BY DEF ApplyOK, Ends
<1> QED
  BY <1>1, <1>2

\* A process that starts keeps the types.
LEMMA StartingTypes ==
    ASSUME Typed, NEW p \in Processes, Starting(p) PROVE Typed'
<1> USE DEF Typed
<1>1. CASE Load(p)
  <2>1. LifeOK'
    BY <1>1, GotoTypes DEF Load, Phases
  <2>2. [reading[p] EXCEPT !.config = config] \in Reading
    BY ReadingTypes DEF ApplyOK, FilesOK
  <2>3. ApplyOK'
    BY <1>1, <2>2 DEF Load, ApplyOK
  <2> QED
    BY <1>1, <2>1, <2>3, Kept DEF Load
<1>2. CASE AlreadyRunning(p)
  BY <1>2, GoneTypes, Kept DEF AlreadyRunning
<1>3. CASE FindsNone(p)
  <2>1. LifeOK'
    BY <1>3, GotoTypes DEF FindsNone, Phases
  <2> QED
    BY <1>3, <2>1, Kept DEF FindsNone
<1>4. CASE Record(p)
  <2>1. LifeOK'
    BY <1>4, GotoTypes DEF Record, Phases
  <2>2. FilesOK'
    BY <1>4 DEF Record, FilesOK
  <2> QED
    BY <1>4, <2>1, <2>2, Kept DEF Record
<1>5. CASE Build(p)
  <2> DEFINE r == [reading[p] EXCEPT !.rules = confd]
  <2>1. LifeOK'
    BY <1>5, GotoTypes DEF Build, Phases
  <2>2. r \in Reading /\ From(r) \in [SectionSet -> Reading]
    BY ReadingTypes DEF ApplyOK, FilesOK
  <2>3. /\ reading' = [reading EXCEPT ![p] = r]
        /\ force' = [force EXCEPT ![p] = From(r)]
        /\ UNCHANGED <<step, outcome>>
    BY <1>5 DEF Build
  <2>4. /\ cacheRules' = [cacheRules EXCEPT ![p] =
                            IF r.config.prefix = "auto" THEN None ELSE r.rules]
        /\ draft' = [draft EXCEPT ![p] = None] /\ behind' = behind \ {p}
    BY <1>5 DEF Build
  <2> HIDE DEF r
  <2>5. ApplyOK'
    BY <2>2, <2>3 DEF ApplyOK
  <2>6. CacheOK'
    BY <2>2, <2>4 DEF CacheOK, Reading
  <2> QED
    BY <1>5, <2>1, <2>5, <2>6, Kept DEF Build
<1>6. CASE StartFails(p) \/ ListenFails(p)
  <2>1. Exits(p)
    BY <1>6 DEF StartFails, ListenFails
  <2>2. FilesOK'
    BY <2>1 DEF Exits, FilesOK
  <2> QED
    BY <2>1, <2>2, GoneTypes, Kept DEF Exits
<1>7. CASE Listens(p)
  <2>1. LifeOK'
    BY <1>7, GotoTypes DEF Listens, Phases
  <2> QED
    BY <1>7, <2>1, Kept DEF Listens
<1> QED
  BY <1>1, <1>2, <1>3, <1>4, <1>5, <1>6, <1>7 DEF Starting

\* So does one that ends,
LEMMA EndingTypes ==
    ASSUME Typed, NEW p \in Processes, Ending(p) PROVE Typed'
<1> USE DEF Typed
<1>1. CASE Terminate(p)
  <2>1. LifeOK'
    BY <1>1 DEF Terminate, LifeOK
  <2> QED
    BY <1>1, <2>1, Kept DEF Terminate
<1>2. CASE Drains(p)
  <2>1. LifeOK'
    BY <1>2, GotoTypes DEF Drains, Phases
  <2> QED
    BY <1>2, <2>1, Kept DEF Drains
<1>3. CASE Drained(p)
  <2>1. FilesOK'
    BY <1>3 DEF Drained, Exits, FilesOK
  <2> QED
    BY <1>3, <2>1, GoneTypes, Kept DEF Drained, Exits
<1>4. CASE Crash(p)
  BY <1>4, GoneTypes, Kept DEF Crash
<1> QED
  BY <1>1, <1>2, <1>3, <1>4 DEF Ending

\* so does its watcher,
LEMMA WatcherTypes ==
    ASSUME Typed, NEW p \in Processes, Watcher(p) PROVE Typed'
<1> USE DEF Typed
<1>1. CASE Watch(p)
  <2>1. LifeOK'
    BY <1>1 DEF Watch, LifeOK
  <2> QED
    BY <1>1, <2>1, Kept DEF Watch
<1>2. CASE Unwatch(p)
  <2>1. LifeOK'
    BY <1>2 DEF Unwatch, LifeOK
  <2> QED
    BY <1>2, <2>1, Kept DEF Unwatch
<1>3. CASE TakeSignal(p)
  <2>1. LifeOK'
    BY <1>3 DEF TakeSignal, LifeOK
  <2>2. ApplyOK'
    BY <1>3 DEF TakeSignal, ApplyOK
  <2> QED
    BY <1>3, <2>1, <2>2, Kept DEF TakeSignal
<1>4. CASE ReadConfig(p)
  <2>1. [reading[p] EXCEPT !.config = config] \in Reading
    BY ReadingTypes DEF ApplyOK, FilesOK
  <2>2. ApplyOK'
    BY <1>4, <2>1 DEF ReadConfig, ApplyOK
  <2> QED
    BY <1>4, <2>2, Kept DEF ReadConfig
<1>5. CASE ReadRules(p)
  <2>1. [reading[p] EXCEPT !.rules = confd] \in Reading
    BY ReadingTypes DEF ApplyOK, FilesOK
  <2>2. reading' \in [Processes -> Reading] /\ force' = force
    BY <1>5, <2>1 DEF ReadRules, ApplyOK
  <2>3. step' \in [Processes -> 0..10] /\ outcome' \in [Processes -> {"ok", "failed"}]
    <3>1. CASE confd.valid
      BY <1>5, <3>1 DEF ReadRules, ApplyOK
    <3>2. CASE ~confd.valid
      BY <1>5, <3>2, EndsTypes DEF ReadRules
    <3> QED
      BY <3>1, <3>2
  <2>4. ApplyOK'
    BY <2>2, <2>3 DEF ApplyOK
  <2> QED
    BY <1>5, <2>4, Kept DEF ReadRules
<1>6. CASE Store(p)
  <2> DEFINE s == Section(p)
  <2>1. /\ force' = [force EXCEPT ![p][s] = reading[p]] /\ reading' = reading
        /\ step[p] > 2
    BY <1>6 DEF Store
  <2> HIDE DEF s
  <2>2. force' \in [Processes -> [SectionSet -> Reading]]
    BY <2>1 DEF ApplyOK
  <2>3. step' \in [Processes -> 0..10] /\ outcome' \in [Processes -> {"ok", "failed"}]
    <3>1. CASE step[p] - 2 = Len(Sections)
      BY <1>6, <3>1, EndsTypes DEF Store
    <3>2. CASE step[p] - 2 # Len(Sections)
      <4>1. step[p] \in 3..9
        BY <2>1, <3>2, NumSections DEF ApplyOK
      <4>2. step' = [step EXCEPT ![p] = step[p] + 1] /\ outcome' = outcome
        BY <1>6, <3>2 DEF Store
      <4> QED
        BY <4>1, <4>2 DEF ApplyOK
    <3> QED
      BY <3>1, <3>2
  <2>4. ApplyOK'
    BY <2>1, <2>2, <2>3 DEF ApplyOK
  <2>5. CacheOK'
    <3>1. CASE UNCHANGED cache
      BY <3>1, Kept
    <3>2. CASE Rebound(p)
      <4>1. reading[p].rules \in RuleDoc
        BY DEF ApplyOK, Reading
      <4> QED
        BY <3>2, <4>1 DEF Rebound, CacheOK
    <3> QED
      BY <1>6, <3>1, <3>2 DEF Store
  <2> QED
    BY <1>6, <2>4, <2>5, Kept DEF Store
<1>7. CASE Abandon(p)
  <2>1. ApplyOK'
    BY <1>7, EndsTypes DEF Abandon, ApplyOK
  <2> QED
    BY <1>7, <2>1, Kept DEF Abandon
<1> QED
  BY <1>1, <1>2, <1>3, <1>4, <1>5, <1>6, <1>7 DEF Watcher

\* so does a detection of its prefix,
LEMMA DetectionTypes ==
    ASSUME Typed, NEW p \in Processes, Detection(p) PROVE Typed'
<1> USE DEF Typed
<1>1. ApplyOK'
  BY DEF Detection, Detect, Bind, ApplyOK
<1>2. CASE Detect(p)
  <2>1. force[p]["cache rules"] \in Reading
    BY CacheRules DEF ApplyOK
  <2>2. force[p]["cache rules"].rules \in RuleDoc
    BY <2>1 DEF Reading
  <2>3. CacheOK'
    BY <1>2, <2>2 DEF Detect, CacheOK
  <2> QED
    BY <1>1, <1>2, <2>3, Kept DEF Detect
<1>3. CASE Bind(p)
  <2>1. CacheOK'
    BY <1>3 DEF Bind, CacheOK
  <2> QED
    BY <1>1, <1>3, <2>1, Kept DEF Bind
<1> QED
  BY <1>2, <1>3 DEF Detection

\* so does an operator who begins a command,
LEMMA CommandTypes ==
    ASSUME Typed, NEW o \in Operators, Command(o) PROVE Typed'
<1> USE DEF Typed
<1>1. ASSUME NEW c \in Config, NEW hot \in BOOLEAN, Set(o, c, hot) PROVE Typed'
  <2>1. edits' \in 0..MaxEdits /\ op' \in [Operators -> Places] /\ target' = target
    BY <1>1, ServiceAssumption DEF Set, At, CommandsOK, Places
  <2>2. [config |-> c, hot |-> hot] \in [config : Config, hot : BOOLEAN]
    OBVIOUS
  <2>3. edited' = [edited EXCEPT ![o] = [config |-> c, hot |-> hot]]
    BY <1>1 DEF Set
  <2>4. CommandsOK'
    BY <2>1, <2>2, <2>3 DEF CommandsOK
  <2> QED
    BY <1>1, <2>4, Kept DEF Set
<1>2. ASSUME NEW v \in Hot, SetHot(o, v) PROVE Typed'
  <2>1. [config EXCEPT !.hot = v] \in Config
    BY DEF FilesOK, Config
  <2> QED
    BY <1>1, <1>2, <2>1 DEF SetHot
<1>3. ASSUME NEW v \in Prefixes, SetPrefix(o, v) PROVE Typed'
  <2>1. [config EXCEPT !.prefix = v] \in Config
    BY DEF FilesOK, Config
  <2> QED
    BY <1>1, <1>3, <2>1 DEF SetPrefix
<1>4. ASSUME NEW doc \in RuleDocs, EditRules(o, doc) PROVE Typed'
  <2>1. CommandsOK'
    BY <1>4, ServiceAssumption DEF EditRules, At, CommandsOK, Places
  <2>2. FilesOK'
    BY <1>4, FirstTypes DEF EditRules, FilesOK
  <2> QED
    BY <1>4, <2>1, <2>2, Kept DEF EditRules
<1>5. CASE Reload(o)
  <2>1. CommandsOK'
    BY <1>5 DEF Reload, At, CommandsOK, Places
  <2> QED
    BY <1>5, <2>1, Kept DEF Reload
<1> QED
  BY <1>2, <1>3, <1>4, <1>5 DEF Command

\* and one who goes on with it.
LEMMA CompletesTypes ==
    ASSUME Typed, NEW o \in Operators, Completes(o) PROVE Typed'
<1> USE DEF Typed
<1>1. CASE WriteTmp(o)
  <2>1. edited[o].config \in Config
    BY DEF CommandsOK
  <2>2. FilesOK'
    BY <1>1, <2>1 DEF WriteTmp, FilesOK
  <2>3. CommandsOK'
    BY <1>1 DEF WriteTmp, At, CommandsOK, Places
  <2> QED
    BY <1>1, <2>2, <2>3, Kept DEF WriteTmp
<1>2. CASE Rename(o)
  <2>1. config' \in Config /\ FilesOK'
    BY <1>2 DEF Rename, FilesOK
  <2>2. At(o, "looks") \/ At(o, "idle")
    BY <1>2 DEF Rename
  <2>3. op' \in [Operators -> Places]
    BY <2>2 DEF At, CommandsOK, Places
  <2>4. edited' = [edited EXCEPT ![o] = NoEdit] /\ UNCHANGED <<edits, target>>
    BY <1>2 DEF Rename
  <2>5. CommandsOK'
    BY <2>3, <2>4, FirstTypes DEF CommandsOK
  <2>6. overtaken' \subseteq Processes
    BY <1>2 DEF Rename
  <2> QED
    BY <1>2, <2>1, <2>5, <2>6, Kept DEF Rename
<1>3. CASE Finds(o)
  <2>1. CommandsOK'
    BY <1>3 DEF Finds, At, CommandsOK, FilesOK, Places
  <2> QED
    BY <1>3, <2>1, Kept DEF Finds
<1>4. CASE Hangup(o)
  <2>1. CommandsOK' /\ FilesOK'
    BY <1>4 DEF Hangup, At, CommandsOK, FilesOK, Places
  <2>2. CASE Received(target[o])
    <3>1. LifeOK'
      BY <2>2 DEF Received, LifeOK
    <3> QED
      BY <2>1, <2>2, <3>1, Kept DEF Received
  <2>3. CASE Dies(target[o])
    BY <2>1, <2>3, GoneTypes DEF Dies
  <2>4. CASE NoProcess(target[o])
    BY <2>1, <2>4, Kept DEF NoProcess
  <2> QED
    BY <1>4, <2>2, <2>3, <2>4 DEF Hangup
<1> QED
  BY <1>1, <1>2, <1>3, <1>4 DEF Completes

\* The types are inductive.
LEMMA TypeStep == Typed /\ [Next]_vars => Typed'
<1> SUFFICES ASSUME Typed, [Next]_vars PROVE Typed'
  OBVIOUS
<1>1. ASSUME NEW p \in Processes,
                   Starting(p) \/ Ending(p) \/ Watcher(p) \/ Detection(p)
            PROVE  Typed'
  BY <1>1, StartingTypes, EndingTypes, WatcherTypes, DetectionTypes
<1>2. ASSUME NEW o \in Operators, Command(o) \/ Completes(o) PROVE Typed'
  BY <1>2, CommandTypes, CompletesTypes
<1>3. CASE UNCHANGED vars
  BY <1>3, Kept DEF vars, Typed, commands
<1> QED
  BY <1>1, <1>2, <1>3 DEF Next

\* The variables keep their values through starts, signals and edits.
THEOREM ServiceTypeOK == Spec => []TypeOK
  BY TypeInit, TypeStep, TypeParts, PTL DEF Spec

-----------------------------------------------------------------------------
(* The pid file *)

\* A process whose pid file has been written and not yet removed.
Holding == {"recorded", "built", "serving", "draining"}

\* What makes PidFileNamesServer inductive: the file names whoever holds it,
\* and while a process is about to write it nobody else holds it or is about to.
PidInv ==
    /\ \A p \in Processes : phase[p] \in Holding => pidFile = p
    /\ \A p, q \in Processes :
          phase[p] = "checked" => /\ phase[q] \notin Holding
                                  /\ phase[q] = "checked" => q = p

\* Nobody holds the file at first.
LEMMA PidInit == Init => PidInv
  BY DEF Init, PidInv, Holding

\* The end of a process that leaves the file, or held it and removes it.
LEMMA PidGone ==
    ASSUME Typed, PidInv, NEW r, Gone(r),
           \/ pidFile' = pidFile
           \/ r \in Processes /\ phase[r] \in Holding
    PROVE  PidInv'
<1>1. \A p \in Processes : /\ p # r => phase'[p] = phase[p]
                           /\ p = r => phase'[p] = "none"
  BY DEF Gone, Goto, Typed, LifeOK
<1>2. \A p \in Processes : phase'[p] \in Holding =>
         p # r /\ phase[p] \in Holding /\ pidFile' = pidFile
  <2> SUFFICES ASSUME NEW p \in Processes, phase'[p] \in Holding
               PROVE  p # r /\ phase[p] \in Holding /\ pidFile' = pidFile
    OBVIOUS
  <2>1. p # r /\ phase[p] \in Holding
    BY <1>1 DEF Holding
  <2> QED
    BY <2>1 DEF PidInv
<1>3. \A p \in Processes : phase'[p] = "checked" => phase[p] = "checked"
  BY <1>1
<1> QED
  BY <1>2, <1>3 DEF PidInv

\* A process that moves from one phase with the file to another.
LEMMA PidMoves ==
    ASSUME Typed, PidInv, NEW r \in Processes, NEW l \in Holding,
           phase[r] \in Holding, Goto(r, l), pidFile' = pidFile
    PROVE  PidInv'
<1>1. \A p \in Processes : /\ p # r => phase'[p] = phase[p]
                           /\ p = r => phase'[p] \in Holding
  BY DEF Goto, Typed, LifeOK
<1>2. "checked" \notin Holding
  BY DEF Holding
<1> QED
  BY <1>1, <1>2 DEF PidInv

\* A step that touches neither phases nor file.
LEMMA PidSame == PidInv /\ UNCHANGED <<phase, pidFile>> => PidInv'
  BY DEF PidInv

\* A start takes the file only when nobody holds it.
LEMMA PidStarting ==
    ASSUME ~OverlappingStarts, Typed, PidInv, NEW r \in Processes, Starting(r)
    PROVE  PidInv'
<1>1. CASE Load(r)
  <2>1. \A p \in Processes : /\ p # r => phase'[p] = phase[p]
                             /\ p = r => phase'[p] = "loaded"
    BY <1>1 DEF Load, Goto, Typed, LifeOK
  <2>2. "loaded" \notin Holding /\ pidFile' = pidFile
    BY <1>1 DEF Load, Holding
  <2> QED
    BY <2>1, <2>2 DEF PidInv
<1>2. CASE AlreadyRunning(r)
  BY <1>2, PidGone DEF AlreadyRunning
<1>3. CASE FindsNone(r)
  <2>1. \A p \in Processes : /\ p # r => phase'[p] = phase[p]
                             /\ p = r => phase'[p] = "checked"
    BY <1>3 DEF FindsNone, Goto, Typed, LifeOK
  <2>2. \A q \in Processes : phase[q] # "checked"
    BY <1>3 DEF FindsNone
  <2>3. \A q \in Processes : phase[q] \notin Holding
    <3> SUFFICES ASSUME NEW q \in Processes, phase[q] \in Holding PROVE FALSE
      OBVIOUS
    <3>1. q = pidFile /\ phase[q] # "none"
      BY DEF PidInv, Holding
    <3> QED
      BY <1>3, <3>1 DEF FindsNone, Running
  <2>4. "checked" \notin Holding
    BY DEF Holding
  <2> QED
    BY <2>1, <2>2, <2>3, <2>4 DEF PidInv
<1>4. CASE Record(r)
  <2>1. \A p \in Processes : /\ p # r => phase'[p] = phase[p]
                             /\ p = r => phase'[p] = "recorded"
    BY <1>4 DEF Record, Goto, Typed, LifeOK
  <2>2. \A p \in Processes : phase[p] \notin Holding /\ (phase[p] = "checked" => p = r)
    BY <1>4 DEF Record, PidInv
  <2>3. pidFile' = r
    BY <1>4 DEF Record
  <2> QED
    BY <2>1, <2>2, <2>3 DEF PidInv
<1>5. CASE Build(r)
  BY <1>5, PidMoves DEF Build, Holding
<1>6. CASE StartFails(r) \/ ListenFails(r)
  BY <1>6, PidGone DEF StartFails, ListenFails, Exits, Holding
<1>7. CASE Listens(r)
  BY <1>7, PidMoves DEF Listens, Holding
<1> QED
  BY <1>1, <1>2, <1>3, <1>4, <1>5, <1>6, <1>7 DEF Starting

\* The invariant of the pid file is inductive.
LEMMA PidStep ==
    ASSUME ~OverlappingStarts, Typed, PidInv, [Next]_vars PROVE PidInv'
<1>1. ASSUME NEW r \in Processes, Starting(r) PROVE PidInv'
  BY <1>1, PidStarting
<1>2. ASSUME NEW r \in Processes, Ending(r) PROVE PidInv'
  <2>1. CASE Terminate(r)
    BY <2>1, PidSame DEF Terminate
  <2>2. CASE Drains(r)
    BY <2>2, PidMoves DEF Drains, Holding
  <2>3. CASE Drained(r) \/ Crash(r)
    BY <2>3, PidGone DEF Drained, Crash, Exits, Holding
  <2> QED
    BY <1>2, <2>1, <2>2, <2>3 DEF Ending
<1>3. ASSUME NEW r \in Processes, Watcher(r) PROVE PidInv'
  BY <1>3, PidSame DEF Watcher, Watch, Unwatch, TakeSignal, ReadConfig,
     ReadRules, Store, Abandon, life
<1>7. ASSUME NEW r \in Processes, Detection(r) PROVE PidInv'
  BY <1>7, PidSame DEF Detection, Detect, Bind, life
<1>4. ASSUME NEW o \in Operators, Command(o) PROVE PidInv'
  BY <1>4, PidSame DEF Command, SetHot, SetPrefix, Set, EditRules, Reload, life
<1>5. ASSUME NEW o \in Operators, Completes(o) PROVE PidInv'
  <2>1. CASE WriteTmp(o) \/ Rename(o) \/ Finds(o)
    BY <2>1, PidSame DEF WriteTmp, Rename, Finds, life
  <2>2. CASE Hangup(o)
    <3>1. pidFile' = pidFile
      BY <2>2 DEF Hangup
    <3>2. CASE Received(target[o]) \/ NoProcess(target[o])
      BY <3>1, <3>2, PidSame DEF Received, NoProcess, life
    <3>3. CASE Dies(target[o])
      BY <3>1, <3>3, PidGone DEF Dies
    <3> QED
      BY <2>2, <3>2, <3>3 DEF Hangup
  <2> QED
    BY <1>5, <2>1, <2>2 DEF Completes
<1>6. CASE UNCHANGED vars
  BY <1>6, PidSame DEF vars, life
<1> QED
  BY <1>1, <1>2, <1>3, <1>4, <1>5, <1>6, <1>7 DEF Next

\* The process that serves is the one the pid file names, if no process looks
\* at the file between another's look and its write (service.go:52-60).
THEOREM PidFileIsTheServers ==
    ASSUME ~OverlappingStarts PROVE Spec => []PidFileNamesServer
<1>1. PidInv => PidFileNamesServer
  BY DEF PidInv, PidFileNamesServer, Holding
<1>2. Init => PidInv
  BY PidInit
<1>3. Typed /\ PidInv /\ [Next]_vars => PidInv'
  BY PidStep
<1> QED
  BY <1>1, <1>2, <1>3, TypeInit, TypeStep, PTL DEF Spec

-----------------------------------------------------------------------------
(* Reloads *)

Idle(p) == phase[p] = "none" => watcher[p] = "no" /\ step[p] = 0

\* ReloadIsWhole, up to the first section that is stored.
Settled(p) ==
    step[p] <= 2 =>
        \A s \in SectionSet : \/ force[p][s] = force[p]["log level"]
                              \/ s \in TrafficSections /\ outcome[p] = "failed"

\* What makes it inductive: the sections that have been stored are from the
\* reading, and the settings and the cache rules still to come are alike.
Underway(p) ==
    step[p] > 2 =>
        /\ \A j \in 1..8 : j < step[p] - 2 => force[p][Sections[j]] = reading[p]
        /\ \A j \in 4..8 :
              j >= step[p] - 2 => force[p][Sections[j]] = force[p]["log level"]

WholeOf(p) == Idle(p) /\ Settled(p) /\ Underway(p)
WholeInv == \A p \in Processes : WholeOf(p)

\* At first nothing is under way.
LEMMA WholeInit == Init => WholeInv
<1> SUFFICES ASSUME Init, NEW p \in Processes PROVE WholeOf(p)
  BY DEF WholeInv
<1>1. step[p] = 0 /\ watcher[p] = "no" /\ force[p] = From(FirstReading)
  BY DEF Init
<1>2. \A s \in SectionSet : force[p][s] = FirstReading
  BY <1>1 DEF From
<1>3. ~(step[p] > 2)
  BY <1>1
<1>4. Settled(p)
  BY <1>2, LogLevel DEF Settled
<1> QED
  BY <1>1, <1>3, <1>4 DEF WholeOf, Idle, Underway

\* A process that a step does not touch.
LEMMA WholeSame ==
    ASSUME NEW q, WholeOf(q), phase'[q] = phase[q], watcher'[q] = watcher[q],
           step'[q] = step[q], reading'[q] = reading[q], force'[q] = force[q],
           outcome'[q] = outcome[q]
    PROVE  WholeOf(q)'
  BY DEF WholeOf, Idle, Settled, Underway

\* A process that moves on or is signalled, and does not reload by that.
LEMMA WholeMoves ==
    ASSUME NEW q, WholeOf(q), phase'[q] # "none",
           step'[q] = step[q], reading'[q] = reading[q], force'[q] = force[q],
           outcome'[q] = outcome[q]
    PROVE  WholeOf(q)'
  BY DEF WholeOf, Idle, Settled, Underway

\* A process that is gone has nothing under way.
LEMMA WholeGone ==
    ASSUME Typed, WholeInv, NEW r, Gone(r) PROVE WholeInv'
<1> SUFFICES ASSUME NEW q \in Processes PROVE WholeOf(q)'
  BY DEF WholeInv
<1>1. WholeOf(q)
  BY DEF WholeInv
<1>2. CASE q # r
  BY <1>1, <1>2, WholeSame DEF Gone, Goto, Typed, LifeOK, ApplyOK
<1>3. CASE q = r
  <2>1. step'[q] = 0 /\ watcher'[q] = "no" /\ force'[q] = From(FirstReading)
    BY <1>3 DEF Gone, Typed, LifeOK, ApplyOK
  <2>2. \A s \in SectionSet : force'[q][s] = FirstReading
    BY <2>1 DEF From
  <2>3. ~(step'[q] > 2)
    BY <2>1
  <2>4. Settled(q)'
    BY <2>2, LogLevel DEF Settled
  <2> QED
    BY <2>1, <2>3, <2>4 DEF WholeOf, Idle, Underway
<1> QED
  BY <1>2, <1>3

\* A start puts one reading into force.
LEMMA WholeStarting ==
    ASSUME Typed, WholeInv, NEW r \in Processes, Starting(r) PROVE WholeInv'
<1>1. CASE AlreadyRunning(r) \/ StartFails(r) \/ ListenFails(r)
  BY <1>1, WholeGone DEF AlreadyRunning, StartFails, ListenFails, Exits
<1>2. CASE ~(AlreadyRunning(r) \/ StartFails(r) \/ ListenFails(r))
  <2> SUFFICES ASSUME NEW q \in Processes PROVE WholeOf(q)'
    BY DEF WholeInv
  <2>1. WholeOf(q) /\ WholeOf(r)
    BY DEF WholeInv
  <2>2. CASE q # r
    <3>1. /\ phase'[q] = phase[q] /\ watcher'[q] = watcher[q]
          /\ step'[q] = step[q] /\ reading'[q] = reading[q]
          /\ force'[q] = force[q] /\ outcome'[q] = outcome[q]
      BY <1>2, <2>2 DEF Starting, Load, FindsNone, Record, Build, Listens,
         Goto, Typed, LifeOK, ApplyOK, apply
    <3> QED
      BY <2>1, <3>1, WholeSame
  <2>3. CASE q = r /\ Load(r)
    <3>1. /\ phase'[q] = "loaded" /\ step'[q] = 0 /\ force'[q] = force[q]
          /\ outcome'[q] = outcome[q] /\ step[q] = 0
      BY <2>1, <2>3 DEF Load, Goto, WholeOf, Idle, Typed, LifeOK, ApplyOK
    <3>2. ~(step'[q] > 2) /\ step[q] <= 2
      BY <3>1
    <3> QED
      BY <2>1, <3>1, <3>2 DEF WholeOf, Idle, Settled, Underway
  <2>4. CASE q = r /\ (FindsNone(r) \/ Record(r) \/ Listens(r))
    <3>1. /\ phase'[q] # "none" /\ step'[q] = step[q] /\ reading'[q] = reading[q]
          /\ force'[q] = force[q] /\ outcome'[q] = outcome[q]
      BY <2>4 DEF FindsNone, Record, Listens, Goto, Typed, LifeOK, apply
    <3> QED
      BY <2>1, <3>1, WholeMoves
  <2>5. CASE q = r /\ Build(r)
    <3> DEFINE n == [reading[r] EXCEPT !.rules = confd]
    <3>1. phase'[q] = "built"
      BY <2>5 DEF Build, Goto, Typed, LifeOK
    <3>2. reading'[q] = n /\ force'[q] = From(n) /\ step'[q] = step[q]
      BY <2>5 DEF Build, Typed, ApplyOK
    <3> HIDE DEF n
    <3>3. \A s \in SectionSet : force'[q][s] = n
      BY <3>2 DEF From
    <3>4. Settled(q)'
      BY <3>3, LogLevel DEF Settled
    <3>5. Underway(q)'
      <4>1. \A j \in 1..8 : force'[q][Sections[j]] = n
        BY <3>3, SectionFacts
      <4>2. \A j \in 4..8 : force'[q][Sections[j]] = n
        BY <4>1
      <4>3. force'[q]["log level"] = n
        BY <3>3, LogLevel
      <4> QED
        BY <3>2, <4>1, <4>2, <4>3 DEF Underway
    <3> QED
      BY <3>1, <3>4, <3>5 DEF WholeOf, Idle
  <2> QED
    BY <1>2, <2>2, <2>3, <2>4, <2>5 DEF Starting
<1> QED
  BY <1>1, <1>2

\* What one step of the reload does to the process that takes it.
LEMMA WholeWatcher ==
    ASSUME Typed, WholeInv, NEW r \in Processes, Watcher(r) PROVE WholeOf(r)'
<1>1. WholeOf(r)
  BY DEF WholeInv
<1>2. CASE Watch(r)
  <2>1. /\ phase'[r] # "none" /\ step'[r] = step[r] /\ reading'[r] = reading[r]
        /\ force'[r] = force[r] /\ outcome'[r] = outcome[r]
    BY <1>2 DEF Watch, apply
  <2> QED
    BY <1>1, <2>1, WholeMoves
<1>3. CASE Unwatch(r)
  <2>1. /\ phase[r] # "none" /\ phase' = phase
    BY <1>1, <1>3 DEF Unwatch, WholeOf, Idle
  <2>2. /\ step'[r] = step[r] /\ reading'[r] = reading[r]
        /\ force'[r] = force[r] /\ outcome'[r] = outcome[r]
    BY <1>3 DEF Unwatch, apply
  <2> QED
    BY <1>1, <2>1, <2>2, WholeMoves
<1>4. CASE TakeSignal(r)
  <2>1. phase[r] # "none" /\ phase' = phase
    BY <1>1, <1>4 DEF TakeSignal, WholeOf, Idle
  <2>2. step[r] = 0 /\ step'[r] = 1 /\ force' = force /\ outcome' = outcome
    BY <1>4 DEF TakeSignal, Typed, ApplyOK
  <2>3. step[r] <= 2 /\ ~(step'[r] > 2)
    BY <2>2
  <2> QED
    BY <1>1, <2>1, <2>2, <2>3 DEF WholeOf, Idle, Settled, Underway
<1>5. CASE ReadConfig(r)
  <2>1. step[r] = 1 /\ step'[r] = 2 /\ force' = force /\ outcome' = outcome
    BY <1>5 DEF ReadConfig, Typed, ApplyOK
  <2>2. step[r] <= 2 /\ ~(step'[r] > 2) /\ step[r] # 0
    BY <2>1
  <2>3. phase[r] # "none" /\ phase' = phase
    BY <1>1, <1>5, <2>2 DEF ReadConfig, WholeOf, Idle, life
  <2> QED
    BY <1>1, <2>1, <2>2, <2>3 DEF WholeOf, Idle, Settled, Underway
<1>6. CASE ReadRules(r)
  <2>1. step[r] = 2 /\ force' = force /\ phase' = phase
    BY <1>6 DEF ReadRules, life
  <2>2. step[r] <= 2 /\ step[r] # 0
    BY <2>1
  <2>3. phase[r] # "none"
    BY <1>1, <2>2 DEF WholeOf, Idle
  <2>4. CASE confd.valid
    <3>1. step'[r] = 3
      BY <1>6, <2>4 DEF ReadRules, Typed, ApplyOK
    <3>2. ~(step'[r] <= 2) /\ \A j \in 1..8 : ~(j < step'[r] - 2)
      BY <3>1
    <3>3. \A j \in 4..8 : force'[r][Sections[j]] = force'[r]["log level"]
      <4> SUFFICES ASSUME NEW j \in 4..8
                   PROVE  force[r][Sections[j]] = force[r]["log level"]
        BY <2>1
      <4>1. Sections[j] \in SectionSet /\ Sections[j] \notin TrafficSections
        <5>1. j \in 1..8
          OBVIOUS
        <5> QED
          BY <5>1, SectionFacts
      <4> QED
        BY <1>1, <2>2, <4>1 DEF WholeOf, Settled
    <3> QED
      BY <2>1, <2>3, <3>2, <3>3 DEF WholeOf, Idle, Settled, Underway
  <2>5. CASE ~confd.valid
    <3>1. step'[r] = 0 /\ outcome'[r] = "failed"
      BY <1>6, <2>5 DEF ReadRules, Ends, Typed, ApplyOK
    <3>2. ~(step'[r] > 2)
      BY <3>1
    <3> QED
      BY <1>1, <2>1, <2>2, <2>3, <3>1, <3>2 DEF WholeOf, Idle, Settled, Underway
  <2> QED
    BY <2>4, <2>5
<1>7. CASE Store(r)
  <2> DEFINE i == step[r] - 2
  <2>0. step[r] > 2
    BY <1>7 DEF Store
  <2>1. step[r] \in 3..10
    BY <2>0 DEF Typed, ApplyOK
  <2>2. i \in 1..8 /\ step[r] > 2 /\ step[r] # 0
    BY <2>1
  <2>3. Section(r) = Sections[i] /\ Sections[i] \in SectionSet
    BY <2>2, SectionFacts DEF Section
  <2>4. phase[r] # "none" /\ phase' = phase
    BY <1>1, <1>7, <2>2 DEF Store, WholeOf, Idle, life
  <2>5. force[r] \in [SectionSet -> Reading] /\ reading'[r] = reading[r]
    BY <1>7 DEF Store, Typed, ApplyOK
  <2>6. force'[r] = [force[r] EXCEPT ![Sections[i]] = reading[r]]
    BY <1>7, <2>3 DEF Store, Typed, ApplyOK
  <2>7. /\ force'[r][Sections[i]] = reading[r]
        /\ \A s \in SectionSet \ {Sections[i]} : force'[r][s] = force[r][s]
    BY <2>3, <2>5, <2>6
  <2>8. /\ \A j \in 1..8 : j < i => force[r][Sections[j]] = reading[r]
        /\ \A j \in 4..8 : j >= i => force[r][Sections[j]] = force[r]["log level"]
    BY <1>1, <2>2 DEF WholeOf, Underway
  <2>9. \A j \in 1..8 : j <= i => force'[r][Sections[j]] = reading[r]
    <3> SUFFICES ASSUME NEW j \in 1..8, j <= i
                 PROVE  force'[r][Sections[j]] = reading[r]
      OBVIOUS
    <3>1. Sections[j] \in SectionSet
      BY SectionFacts
    <3>2. CASE j = i
      BY <2>7, <3>2
    <3>3. CASE j # i
      <4>1. j < i
        BY <2>2, <3>3
      <4> QED
        BY <2>7, <2>8, <3>1, <4>1
    <3> QED
      BY <3>2, <3>3
  <2>10. CASE i = 8
    <3>1. step'[r] = 0
      BY <1>7, <2>10, NumSections DEF Store, Ends, Typed, ApplyOK
    <3>2. ~(step'[r] > 2)
      BY <3>1
    <3>3. \A j \in 1..8 : force'[r][Sections[j]] = reading[r]
      BY <2>9, <2>10
    <3>4. \A s \in SectionSet : force'[r][s] = reading[r]
      <4> SUFFICES ASSUME NEW s \in SectionSet PROVE \E j \in 1..8 : Sections[j] = s
        BY <3>3
      <4>1. (\E j \in 1..3 : Sections[j] = s) \/ (\E j \in 4..8 : Sections[j] = s)
        BY SectionFacts
      <4> QED
        BY <4>1
    <3>5. Settled(r)'
      BY <3>4, LogLevel DEF Settled
    <3> QED
      BY <2>4, <3>2, <3>5 DEF WholeOf, Idle, Underway
  <2>11. CASE i # 8
    <3>1. step'[r] = step[r] + 1
      BY <1>7, <2>11, NumSections DEF Store, Typed, ApplyOK
    <3>2. step'[r] - 2 = i + 1 /\ ~(step'[r] <= 2)
      BY <2>1, <3>1
    <3>3. force'[r]["log level"] = force[r]["log level"]
      <4>1. Sections[i] # "log level"
        <5>1. Sections[i] = Sections[8] => i = 8
          <6>1. 8 \in 1..8
            OBVIOUS
          <6> HIDE DEF i
          <6> QED
            BY <2>2, <6>1, SectionFacts
        <5>2. Sections[8] = "log level"
          BY SectionFacts
        <5> QED
          BY <2>11, <5>1, <5>2
      <4> QED
        BY <2>7, <4>1, LogLevel
    <3>4. ASSUME NEW j \in 4..8, j >= i + 1
          PROVE  force'[r][Sections[j]] = force'[r]["log level"]
      <4>1. j \in 1..8 /\ j # i /\ j >= i
        BY <2>2, <3>4
      <4>2. Sections[j] \in SectionSet /\ Sections[j] # Sections[i]
        BY <2>2, <4>1, SectionFacts
      <4> QED
        BY <2>7, <2>8, <3>3, <4>1, <4>2
    <3>5. ASSUME NEW j \in 1..8, j < i + 1
          PROVE  force'[r][Sections[j]] = reading'[r]
      <4>1. j <= i
        BY <2>2, <3>5
      <4> QED
        BY <2>5, <2>9, <4>1
    <3>6. Underway(r)'
      BY <3>2, <3>4, <3>5 DEF Underway
    <3> QED
      BY <2>4, <3>2, <3>6 DEF WholeOf, Idle, Settled
  <2> QED
    BY <2>10, <2>11
<1>8. CASE Abandon(r)
  <2> DEFINE i == step[r] - 2
  <2>1. step[r] \in 3..10
    BY <1>8 DEF Abandon, Typed, ApplyOK
  <2>2. i \in 1..8 /\ step[r] > 2 /\ step[r] # 0
    BY <2>1
  <2>3. phase[r] # "none" /\ phase' = phase
    BY <1>1, <1>8, <2>2 DEF Abandon, WholeOf, Idle, life
  <2>4. step'[r] = 0 /\ outcome'[r] = "failed" /\ force' = force
    BY <1>8 DEF Abandon, Ends, Typed, ApplyOK
  <2>5. Sections[i] \in TrafficSections
    BY <1>8 DEF Abandon, Compiles, Section, Typed, ApplyOK, Reading, RuleDoc
  <2>6. \A j \in 4..8 : j >= i
    <3>1. i \notin 4..8
      BY <2>5, SectionFacts
    <3> QED
      BY <2>2, <3>1
  <2>7. \A s \in SectionSet \ TrafficSections :
          force[r][s] = force[r]["log level"]
    <3> SUFFICES ASSUME NEW s \in SectionSet \ TrafficSections
                 PROVE  force[r][s] = force[r]["log level"]
      OBVIOUS
    <3>1. PICK j \in 4..8 : Sections[j] = s
      BY SectionFacts
    <3> QED
      BY <1>1, <2>2, <2>6, <3>1 DEF WholeOf, Underway
  <2>8. ~(step'[r] > 2)
    BY <2>4
  <2>9. Settled(r)'
    BY <2>4, <2>7 DEF Settled
  <2> QED
    BY <2>3, <2>8, <2>9 DEF WholeOf, Idle, Underway
<1> QED
  BY <1>2, <1>3, <1>4, <1>5, <1>6, <1>7, <1>8 DEF Watcher

\* The invariant of reloads is inductive.
LEMMA WholeStep ==
    ASSUME Typed, WholeInv, [Next]_vars PROVE WholeInv'
<1>1. ASSUME NEW r \in Processes, Starting(r) PROVE WholeInv'
  BY <1>1, WholeStarting
<1>2. ASSUME UNCHANGED <<phase, watcher, apply>> PROVE WholeInv'
  <2> SUFFICES ASSUME NEW q \in Processes PROVE WholeOf(q)'
    BY DEF WholeInv
  <2>1. WholeOf(q)
    BY DEF WholeInv
  <2> QED
    BY <1>2, <2>1, WholeSame DEF apply
<1>3. ASSUME NEW r \in Processes, Ending(r) PROVE WholeInv'
  <2>1. CASE Terminate(r)
    BY <1>2, <2>1 DEF Terminate
  <2>2. CASE Drains(r)
    <3> SUFFICES ASSUME NEW q \in Processes PROVE WholeOf(q)'
      BY DEF WholeInv
    <3>1. WholeOf(q) /\ UNCHANGED <<watcher, apply>>
      BY <2>2 DEF WholeInv, Drains
    <3>2. CASE q = r
      <4>1. phase'[q] # "none"
        BY <2>2, <3>2 DEF Drains, Goto, Typed, LifeOK
      <4> QED
        BY <3>1, <4>1, WholeMoves DEF apply
    <3>3. CASE q # r
      <4>1. phase'[q] = phase[q]
        BY <2>2, <3>3 DEF Drains, Goto, Typed, LifeOK
      <4> QED
        BY <3>1, <4>1, WholeSame DEF apply
    <3> QED
      BY <3>2, <3>3
  <2>3. CASE Drained(r) \/ Crash(r)
    BY <2>3, WholeGone DEF Drained, Crash, Exits
  <2> QED
    BY <1>3, <2>1, <2>2, <2>3 DEF Ending
<1>4. ASSUME NEW r \in Processes, Watcher(r) PROVE WholeInv'
  <2> SUFFICES ASSUME NEW q \in Processes PROVE WholeOf(q)'
    BY DEF WholeInv
  <2>1. CASE q = r
    BY <1>4, <2>1, WholeWatcher
  <2>2. CASE q # r
    <3>1. WholeOf(q)
      BY DEF WholeInv
    <3>2. phase'[q] = phase[q] /\ watcher'[q] = watcher[q]
      BY <1>4, <2>2 DEF Watcher, Watch, Unwatch, TakeSignal, ReadConfig,
         ReadRules, Store, Abandon, Typed, LifeOK, life
    <3>3. step'[q] = step[q] /\ outcome'[q] = outcome[q]
      BY <1>4, <2>2 DEF Watcher, Watch, Unwatch, TakeSignal, ReadConfig,
         ReadRules, Store, Abandon, Ends, Typed, ApplyOK, apply
    <3>4. reading'[q] = reading[q] /\ force'[q] = force[q]
      BY <1>4, <2>2 DEF Watcher, Watch, Unwatch, TakeSignal, ReadConfig,
         ReadRules, Store, Abandon, Typed, ApplyOK, apply
    <3> QED
      BY <3>1, <3>2, <3>3, <3>4, WholeSame
  <2> QED
    BY <2>1, <2>2
<1>5. ASSUME NEW o \in Operators, Command(o) PROVE WholeInv'
  BY <1>2, <1>5 DEF Command, SetHot, SetPrefix, Set, EditRules, Reload, life
<1>6. ASSUME NEW o \in Operators, Completes(o) PROVE WholeInv'
  <2>1. CASE WriteTmp(o) \/ Rename(o) \/ Finds(o)
    BY <1>2, <2>1 DEF WriteTmp, Rename, Finds, life
  <2>2. CASE Hangup(o)
    <3>1. CASE Received(target[o]) \/ NoProcess(target[o])
      BY <1>2, <3>1 DEF Received, NoProcess, life
    <3>2. CASE Dies(target[o])
      BY <3>2, WholeGone DEF Dies
    <3> QED
      BY <2>2, <3>1, <3>2 DEF Hangup
  <2> QED
    BY <1>6, <2>1, <2>2 DEF Completes
<1>7. ASSUME NEW r \in Processes, Detection(r) PROVE WholeInv'
  <2> SUFFICES ASSUME NEW q \in Processes PROVE WholeOf(q)'
    BY DEF WholeInv
  <2>1. UNCHANGED <<phase, watcher, step, reading, force, outcome>>
    BY <1>7 DEF Detection, Detect, Bind, life
  <2>2. WholeOf(q)
    BY DEF WholeInv
  <2> QED
    BY <2>1, <2>2, WholeSame
<1>8. CASE UNCHANGED vars
  BY <1>2, <1>8 DEF vars, life
<1> QED
  BY <1>1, <1>3, <1>4, <1>5, <1>6, <1>7, <1>8 DEF Next

-----------------------------------------------------------------------------
(* The cache rules in use *)

\* The drop-ins whose cache rules are the process's rawRules.
Raw(p) == force[p]["cache rules"].rules

\* What is in use, or compiled and to be installed, is compiled from rawRules,
\* unless a detection overlapped a reload.
BoundOf(p) ==
    p \notin behind => /\ cacheRules[p] \in {None, Raw(p)}
                       /\ draft[p] \in {None, Raw(p)}
BoundInv == \A p \in Processes : BoundOf(p)

\* At first nothing is bound.
LEMMA BoundInit == Init => BoundInv
  BY DEF Init, BoundInv, BoundOf

\* A process whose cache a step does not touch.
LEMMA BoundSame ==
    ASSUME NEW q, BoundOf(q), force'[q] = force[q], cacheRules'[q] = cacheRules[q],
           draft'[q] = draft[q], q \in behind => q \in behind'
    PROVE  BoundOf(q)'
  BY DEF BoundOf, Raw

\* A step that leaves every cache alone.
LEMMA BoundKept ==
    ASSUME BoundInv, UNCHANGED <<force, cache>> PROVE BoundInv'
  BY BoundSame DEF BoundInv, cache

\* A process that is gone has no cache.
LEMMA BoundGone ==
    ASSUME Typed, BoundInv, NEW r, Gone(r) PROVE BoundInv'
<1> SUFFICES ASSUME NEW q \in Processes PROVE BoundOf(q)'
  BY DEF BoundInv
<1>1. CASE q # r
  <2>1. force'[q] = force[q] /\ BoundOf(q)
    BY <1>1 DEF Gone, Typed, ApplyOK, BoundInv
  <2>2. /\ cacheRules'[q] = cacheRules[q] /\ draft'[q] = draft[q]
        /\ q \in behind => q \in behind'
    BY <1>1 DEF Gone, Typed, CacheOK
  <2> QED
    BY <2>1, <2>2, BoundSame
<1>2. CASE q = r
  <2>1. cacheRules'[q] = None /\ draft'[q] = None
    BY <1>2 DEF Gone, Typed, CacheOK
  <2> QED
    BY <2>1 DEF BoundOf
<1> QED
  BY <1>1, <1>2

\* cache.New binds the rules it is given, or none.
LEMMA BoundBuild ==
    ASSUME Typed, BoundInv, NEW r \in Processes, Build(r) PROVE BoundInv'
<1> SUFFICES ASSUME NEW q \in Processes PROVE BoundOf(q)'
  BY DEF BoundInv
<1> DEFINE n == [reading[r] EXCEPT !.rules = confd]
<1>1. /\ force' = [force EXCEPT ![r] = From(n)]
      /\ cacheRules' = [cacheRules EXCEPT ![r] =
                          IF n.config.prefix = "auto" THEN None ELSE n.rules]
      /\ draft' = [draft EXCEPT ![r] = None] /\ behind' = behind \ {r}
  BY DEF Build
<1> HIDE DEF n
<1>2. CASE q # r
  <2>1. force'[q] = force[q] /\ BoundOf(q)
    BY <1>1, <1>2 DEF Typed, ApplyOK, BoundInv
  <2>2. /\ cacheRules'[q] = cacheRules[q] /\ draft'[q] = draft[q]
        /\ q \in behind => q \in behind'
    BY <1>1, <1>2 DEF Typed, CacheOK
  <2> QED
    BY <2>1, <2>2, BoundSame
<1>3. CASE q = r
  <2>1. force'[q]["cache rules"] = n
    BY <1>1, <1>3, CacheRules DEF Typed, ApplyOK, From
  <2>2. cacheRules'[q] \in {None, n.rules} /\ draft'[q] = None
    BY <1>1, <1>3 DEF Typed, CacheOK
  <2> QED
    BY <2>1, <2>2 DEF BoundOf, Raw
<1> QED
  BY <1>2, <1>3

\* A reload that stores the cache rules rebinds them, or marks the detection
\* that will bind older ones; one that stores another section leaves them.
LEMMA BoundStore ==
    ASSUME Typed, BoundInv, NEW r \in Processes, Store(r) PROVE BoundInv'
<1> DEFINE s == Section(r)
<1> SUFFICES ASSUME NEW q \in Processes PROVE BoundOf(q)'
  BY DEF BoundInv
<1>1. /\ force' = [force EXCEPT ![r][s] = reading[r]] /\ step[r] > 2
      /\ s = "cache rules" => Rebound(r)
      /\ s # "cache rules" => UNCHANGED cache
  BY DEF Store
<1>2. s \in SectionSet
  <2>1. step[r] > 2 /\ step[r] \in 0..10
    BY <1>1 DEF Typed, ApplyOK
  <2>2. step[r] - 2 \in 1..8
    BY <2>1
  <2> QED
    BY <2>2, SectionFacts DEF Section
<1> HIDE DEF s
<1>3. CASE q # r
  <2>1. force'[q] = force[q] /\ BoundOf(q)
    BY <1>1, <1>3 DEF Typed, ApplyOK, BoundInv
  <2>2. /\ cacheRules'[q] = cacheRules[q] /\ draft'[q] = draft[q]
        /\ q \in behind => q \in behind'
    BY <1>1, <1>3 DEF Rebound, cache, Typed, CacheOK
  <2> QED
    BY <2>1, <2>2, BoundSame
<1>4. CASE q = r /\ s # "cache rules"
  <2>1. force'[q]["cache rules"] = force[q]["cache rules"]
    BY <1>1, <1>2, <1>4, CacheRules DEF Typed, ApplyOK
  <2> QED
    BY <1>1, <1>4, <2>1 DEF BoundInv, BoundOf, Raw, cache
<1>5. CASE q = r /\ s = "cache rules"
  <2>1. force'[q]["cache rules"] = reading[q]
    BY <1>1, <1>2, <1>5, CacheRules DEF Typed, ApplyOK
  <2>2. cacheRules'[q] \in {None, reading[q].rules}
    BY <1>1, <1>5 DEF Rebound, Typed, CacheOK
  <2>3. q \notin behind' => draft'[q] \in {None, reading[q].rules}
    BY <1>1, <1>5 DEF Rebound
  <2> QED
    BY <2>1, <2>2, <2>3 DEF BoundOf, Raw
<1> QED
  BY <1>3, <1>4, <1>5

\* A detection compiles rawRules and installs what it has compiled.
LEMMA BoundDetection ==
    ASSUME Typed, BoundInv, NEW r \in Processes, Detection(r) PROVE BoundInv'
<1> SUFFICES ASSUME NEW q \in Processes PROVE BoundOf(q)'
  BY DEF BoundInv
<1>1. force' = force /\ behind' = behind /\ BoundOf(q)
  BY DEF Detection, Detect, Bind, BoundInv
<1>2. \/ cacheRules'[q] = cacheRules[q] /\ draft'[q] \in {draft[q], Raw(q)}
      \/ cacheRules'[q] \in {cacheRules[q], draft[q]} /\ draft'[q] \in {draft[q], None}
  BY DEF Detection, Detect, Bind, Raw, Typed, CacheOK
<1> QED
  BY <1>1, <1>2 DEF BoundOf, Raw

\* The invariant of the cache rules is inductive.
LEMMA BoundStep ==
    ASSUME Typed, BoundInv, [Next]_vars PROVE BoundInv'
<1>1. ASSUME NEW r \in Processes, Starting(r) PROVE BoundInv'
  <2>1. CASE Load(r) \/ FindsNone(r) \/ Record(r) \/ Listens(r)
    BY <2>1, BoundKept DEF Load, FindsNone, Record, Listens, apply
  <2>2. CASE AlreadyRunning(r) \/ StartFails(r) \/ ListenFails(r)
    BY <2>2, BoundGone DEF AlreadyRunning, StartFails, ListenFails, Exits
  <2>3. CASE Build(r)
    BY <2>3, BoundBuild
  <2> QED
    BY <1>1, <2>1, <2>2, <2>3 DEF Starting
<1>2. ASSUME NEW r \in Processes, Ending(r) PROVE BoundInv'
  <2>1. CASE Terminate(r) \/ Drains(r)
    BY <2>1, BoundKept DEF Terminate, Drains, apply
  <2>2. CASE Drained(r) \/ Crash(r)
    BY <2>2, BoundGone DEF Drained, Crash, Exits
  <2> QED
    BY <1>2, <2>1, <2>2 DEF Ending
<1>3. ASSUME NEW r \in Processes, Watcher(r) PROVE BoundInv'
  <2>1. CASE Store(r)
    BY <2>1, BoundStore
  <2>2. CASE ~Store(r)
    BY <1>3, <2>2, BoundKept DEF Watcher, Watch, Unwatch, TakeSignal, ReadConfig,
       ReadRules, Abandon, apply
  <2> QED
    BY <2>1, <2>2
<1>4. ASSUME NEW r \in Processes, Detection(r) PROVE BoundInv'
  BY <1>4, BoundDetection
<1>5. ASSUME NEW o \in Operators, Command(o) PROVE BoundInv'
  BY <1>5, BoundKept DEF Command, SetHot, SetPrefix, Set, EditRules, Reload, apply
<1>6. ASSUME NEW o \in Operators, Completes(o) PROVE BoundInv'
  <2>1. CASE WriteTmp(o) \/ Rename(o) \/ Finds(o)
    BY <2>1, BoundKept DEF WriteTmp, Rename, Finds, apply
  <2>2. CASE Hangup(o)
    <3>1. CASE Received(target[o]) \/ NoProcess(target[o])
      BY <3>1, BoundKept DEF Received, NoProcess, apply
    <3>2. CASE Dies(target[o])
      BY <3>2, BoundGone DEF Dies
    <3> QED
      BY <2>2, <3>1, <3>2 DEF Hangup
  <2> QED
    BY <1>6, <2>1, <2>2 DEF Completes
<1>7. CASE UNCHANGED vars
  BY <1>7, BoundKept DEF vars, apply
<1> QED
  BY <1>1, <1>2, <1>3, <1>4, <1>5, <1>6, <1>7 DEF Next

\* Outside apply no process has sections from two readings of the documents,
\* but for the traffic sections after a reload that was refused, and none uses
\* cache rules that are not of that reading, but after a detection of the
\* prefix that compiled other ones before the reload (traffic.go:36-46,
\* service.go:292-310, cache.go:158-197).
THEOREM ReloadsAreWhole == Spec => []ReloadIsWhole
<1>1. Typed /\ WholeInv /\ BoundInv => ReloadIsWhole
  <2> SUFFICES ASSUME Typed, WholeInv, BoundInv, NEW p \in Processes, step[p] = 0
               PROVE  /\ \A s \in SectionSet :
                            \/ force[p][s] = force[p]["log level"]
                            \/ s \in TrafficSections /\ outcome[p] = "failed"
                      /\ \/ cacheRules[p] \in {None, force[p]["log level"].rules}
                         \/ p \in behind
    BY DEF ReloadIsWhole
  <2>1. step[p] <= 2 /\ Settled(p) /\ BoundOf(p)
    BY DEF WholeInv, WholeOf, BoundInv
  <2>2. force[p]["cache rules"] = force[p]["log level"]
    BY <2>1, CacheRules DEF Settled
  <2> QED
    BY <2>1, <2>2 DEF Settled, BoundOf, Raw
<1>2. Init => WholeInv /\ BoundInv
  BY WholeInit, BoundInit
<1>3. Typed /\ WholeInv /\ BoundInv /\ [Next]_vars => WholeInv' /\ BoundInv'
  BY WholeStep, BoundStep
<1> QED
  BY <1>1, <1>2, <1>3, TypeInit, TypeStep, PTL DEF Spec
=============================================================================
