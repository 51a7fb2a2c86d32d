--------------------------- MODULE ThrottleProofs ---------------------------
(***************************************************************************)
(* What holds of the throttle for any clients, any rules and any number of *)
(* reloads: a semaphore never has more tokens than its rule allows, and    *)
(* every token is that of an execution.                                    *)
(***************************************************************************)
EXTENDS Throttle, FiniteSetTheorems, TLAPS

\* The values of the variables: an execution that has looked up a semaphore
\* keeps it until it is done, and one that has not has none.
ThrottleTypes ==
    /\ rules \in [gen : 0..MaxReloads, list : RuleSets]
    /\ Tracked \subseteq Semaphore
    /\ taken \in [Tracked -> Nat]
    /\ at \in [Clients -> Stages]
    /\ sem \in [Clients -> Tracked \cup {None}]
    /\ \A c \in Clients : /\ at[c] \in {"try", "wait"} => sem[c] # None
                          /\ at[c] = "out" => sem[c] = None

ThrottleInv == ThrottleTypes /\ SlotsBounded

-----------------------------------------------------------------------------
(* Lemmas *)

\* A rule has one semaphore per generation and statement.
LEMMA SemOfType ==
    ASSUME ThrottleTypes, NEW q \in Queries, NEW s \in SemOf(q)
    PROVE  s \in Semaphore
<1>1. PICK i \in DOMAIN rules.list :
         s = [gen |-> rules.gen, rule |-> rules.list[i], digest |-> Digest[q]]
  BY DEF SemOf, Matching
<1>2. rules.gen \in 0..MaxReloads /\ rules.list \in Seq(Rule)
  BY RulesAssumption DEF ThrottleTypes
<1>3. rules.list[i] \in Rule
  BY <1>1, <1>2
<1>4. Digest[q] \in Digests
  BY QueriesAssumption
<1> QED
  BY <1>1, <1>2, <1>3, <1>4 DEF Semaphore

\* The executions that hold a slot of a semaphore can be counted.
LEMMA HoldersFinite ==
    ASSUME NEW s
    PROVE  /\ IsFiniteSet(Holders(s))
           /\ Cardinality(Holders(s)) \in Nat
  BY QueriesAssumption, FS_Subset, FS_CardinalityType DEF Holders

\* A rule allows at least one execution.
LEMMA RuleMax ==
    ASSUME NEW s \in Semaphore
    PROVE  s.rule.max \in Nat \ {0}
  BY DEF Semaphore, Rule

-----------------------------------------------------------------------------
(* The invariant *)

\* It holds at first.
LEMMA ThrottleInvInit == ThrottleInit => ThrottleInv
<1> SUFFICES ASSUME ThrottleInit PROVE ThrottleInv
  OBVIOUS
<1>1. DOMAIN taken = {}
  BY DEF ThrottleInit
<1>2. ThrottleTypes
  BY <1>1, RulesAssumption, LimitsAssumption DEF ThrottleInit, ThrottleTypes, Tracked, Stages
<1>3. SlotsBounded
  BY <1>1 DEF SlotsBounded, Tracked
<1> QED
  BY <1>2, <1>3 DEF ThrottleInv

\* A step of one client that leaves the tokens alone, does not change who
\* holds a slot.
LEMMA SameHolders ==
    ASSUME ThrottleInv, NEW c \in Clients, NEW stage \in Stages,
           NEW x \in Tracked \cup {None},
           UNCHANGED taken, Enters(c, stage, x),
           at[c] = "in" => sem[c] = None, stage = "in" => x = None
    PROVE  SlotsBounded'
<1>1. ASSUME NEW s \in Tracked PROVE Holders(s)' = Holders(s)
  <2>1. s # None
    BY <1>1, NoneAssumption DEF ThrottleInv, ThrottleTypes
  <2> QED
    BY <2>1 DEF Holders, Enters, ThrottleInv, ThrottleTypes
<1> QED
  BY <1>1 DEF SlotsBounded, Tracked, ThrottleInv

\* A slot that is taken was free, and has one holder more.
LEMMA TakeSlotStep ==
    ASSUME ThrottleInv, NEW c \in Clients, TakeSlot(c)
    PROVE  ThrottleInv'
<1> DEFINE x == sem[c]
<1>1. /\ x \in Tracked /\ x \in Semaphore /\ taken[x] \in Nat
      /\ taken[x] < x.rule.max
  BY RuleMax DEF TakeSlot, Full, ThrottleInv, ThrottleTypes, Tracked
<1>2. Tracked' = Tracked
  BY DEF TakeSlot, Tracked
<1>3. ThrottleTypes'
  BY <1>1, <1>2 DEF TakeSlot, Enters, ThrottleInv, ThrottleTypes, Stages, Tracked
<1>4. ASSUME NEW s \in Tracked
      PROVE  /\ taken'[s] = Cardinality(Holders(s)')
             /\ taken'[s] <= s.rule.max
  <2>1. CASE s = x
    <3>1. Holders(s)' = Holders(s) \cup {c} /\ c \notin Holders(s)
      BY <2>1 DEF Holders, TakeSlot, Enters, ThrottleInv, ThrottleTypes
    <3>2. Cardinality(Holders(s)') = Cardinality(Holders(s)) + 1
      BY <3>1, HoldersFinite, FS_AddElement
    <3>3. taken'[s] = taken[s] + 1
      BY <2>1, <1>1 DEF TakeSlot, Tracked, ThrottleInv, ThrottleTypes
    <3>4. x.rule.max \in Nat
      BY <1>1, RuleMax
    <3>5. taken[s] = Cardinality(Holders(s))
      BY <1>4 DEF ThrottleInv, SlotsBounded
    <3> QED
      BY <3>2, <3>3, <3>4, <3>5, <2>1, <1>1
  <2>2. CASE s # x
    <3>1. Holders(s)' = Holders(s)
      BY <2>2 DEF Holders, TakeSlot, Enters, ThrottleInv, ThrottleTypes
    <3>2. taken'[s] = taken[s]
      BY <2>2, <1>1, <1>4 DEF TakeSlot, Tracked, ThrottleInv, ThrottleTypes
    <3> QED
      BY <3>1, <3>2 DEF ThrottleInv, SlotsBounded
  <2> QED
    BY <2>1, <2>2
<1>5. SlotsBounded'
  BY <1>2, <1>4 DEF SlotsBounded
<1> QED
  BY <1>3, <1>5 DEF ThrottleInv

\* A slot that is given back has one holder less.
LEMMA ReleaseStep ==
    ASSUME ThrottleInv, NEW c \in Clients, Release(c)
    PROVE  ThrottleInv'
<1>0. PICK x : x = sem[c]
  OBVIOUS
<1> USE <1>0
<1>1. CASE x = None
  <2>1. UNCHANGED taken /\ Enters(c, "out", None) /\ UNCHANGED rules
    BY <1>1 DEF Release
  <2>2. SlotsBounded'
    BY <2>1, <1>1, SameHolders DEF Stages
  <2>3. ThrottleTypes'
    BY <2>1 DEF Enters, ThrottleInv, ThrottleTypes, Stages, Tracked
  <2> QED
    BY <2>2, <2>3 DEF ThrottleInv
<1>2. CASE x # None
  <2>1. x \in Tracked /\ taken[x] = Cardinality(Holders(x)) /\ c \in Holders(x)
    BY <1>2 DEF Release, ThrottleInv, ThrottleTypes, SlotsBounded, Holders
  <2>2. taken' = [taken EXCEPT ![x] = @ - 1] /\ Tracked' = Tracked
    BY <1>2 DEF Release, Tracked
  <2>3. /\ Holders(x)' = Holders(x) \ {c}
        /\ Cardinality(Holders(x)') = Cardinality(Holders(x)) - 1
    <3>1. Holders(x)' = Holders(x) \ {c}
      BY <1>2 DEF Holders, Release, Enters, ThrottleInv, ThrottleTypes
    <3> QED
      BY <3>1, <2>1, HoldersFinite, FS_RemoveElement
  <2>4. taken[x] - 1 \in Nat
    <3>1. Holders(x)' = Holders(x) \ {c}
      BY <2>3
    <3>2. IsFiniteSet(Holders(x) \ {c})
      BY HoldersFinite, FS_RemoveElement
    <3>3. Cardinality(Holders(x)') \in Nat
      BY <3>1, <3>2, FS_CardinalityType
    <3> QED
      BY <3>3, <2>1, <2>3
  <2>5. ThrottleTypes'
    BY <2>1, <2>2, <2>4 DEF Release, Enters, ThrottleInv, ThrottleTypes, Stages, Tracked
  <2>6. ASSUME NEW s \in Tracked
        PROVE  /\ taken'[s] = Cardinality(Holders(s)')
               /\ taken'[s] <= s.rule.max
    <3>0. taken[s] \in Nat /\ s.rule.max \in Nat
      BY RuleMax DEF ThrottleInv, ThrottleTypes
    <3>1. CASE s = x
      BY <3>0, <3>1, <2>1, <2>2, <2>3 DEF ThrottleInv, ThrottleTypes, SlotsBounded, Tracked
    <3>2. CASE s # x
      <4>1. Holders(s)' = Holders(s)
        BY <3>2, <1>2 DEF Holders, Release, Enters, ThrottleInv, ThrottleTypes
      <4> QED
        BY <4>1, <3>2, <2>1, <2>2 DEF ThrottleInv, ThrottleTypes, SlotsBounded, Tracked
    <3> QED
      BY <3>1, <3>2
  <2>7. SlotsBounded'
    BY <2>2, <2>6 DEF SlotsBounded
  <2> QED
    BY <2>5, <2>7 DEF ThrottleInv
<1> QED
  BY <1>1, <1>2

\* A lookup may add a semaphore, which is empty.
LEMMA LookedUpStep ==
    ASSUME ThrottleInv, NEW c \in Clients, NEW q \in Queries,
           at[c] = "out", LookedUp(c, q), UNCHANGED rules
    PROVE  ThrottleInv'
<1>1. PICK x \in SemOf(q) :
         /\ taken' = [t \in Tracked \cup {x} |-> IF t \in Tracked THEN taken[t] ELSE 0]
         /\ Enters(c, "try", x)
  BY DEF LookedUp
<1>2. x \in Semaphore /\ x # None
  BY SemOfType, NoneAssumption DEF ThrottleInv
<1>3. Tracked' = Tracked \cup {x}
  BY <1>1 DEF Tracked
<1>4. ThrottleTypes'
  BY <1>1, <1>2, <1>3 DEF Enters, ThrottleInv, ThrottleTypes, Stages
<1>5. ASSUME NEW s \in Tracked'
      PROVE  /\ taken'[s] = Cardinality(Holders(s)')
             /\ taken'[s] <= s.rule.max
  <2>1. Holders(s)' = Holders(s)
    BY <1>1 DEF Holders, Enters, ThrottleInv, ThrottleTypes
  <2>2. CASE s \in Tracked
    BY <2>1, <2>2, <1>1 DEF ThrottleInv, SlotsBounded
  <2>3. CASE s \notin Tracked
    <3>1. Holders(s) = {} /\ taken'[s] = 0
      BY <2>3, <1>1, <1>2, <1>3 DEF Holders, ThrottleInv, ThrottleTypes
    <3>2. s.rule.max \in Nat
      BY <2>3, <1>2, <1>3, RuleMax
    <3> QED
      BY <3>1, <3>2, <2>1, FS_EmptySet
  <2> QED
    BY <2>2, <2>3
<1> QED
  BY <1>4, <1>5 DEF ThrottleInv, SlotsBounded

\* The invariant is inductive.
LEMMA ThrottleStep == ThrottleInv /\ [ThrottleNext]_throttleVars => ThrottleInv'
<1> SUFFICES ASSUME ThrottleInv, [ThrottleNext]_throttleVars PROVE ThrottleInv'
  OBVIOUS
<1>1. ASSUME NEW c \in Clients, NEW q \in Queries, Acquire(c, q) PROVE ThrottleInv'
  <2>1. CASE Unmatched(c, q) \/ Untracked(c, q)
    <3>1. UNCHANGED <<taken, rules>> /\ Enters(c, "in", None) /\ at[c] = "out"
      BY <1>1, <2>1 DEF Acquire, Unmatched, Untracked
    <3>2. SlotsBounded'
      BY <3>1, SameHolders DEF Stages
    <3>3. ThrottleTypes'
      BY <3>1 DEF Enters, ThrottleInv, ThrottleTypes, Stages, Tracked
    <3> QED
      BY <3>2, <3>3 DEF ThrottleInv
  <2>2. CASE LookedUp(c, q)
    BY <1>1, <2>2, LookedUpStep DEF Acquire
  <2> QED
    BY <1>1, <2>1, <2>2 DEF Acquire
<1>2. ASSUME NEW c \in Clients, StartWaiting(c) PROVE ThrottleInv'
  <2>1. /\ UNCHANGED <<taken, rules>> /\ Enters(c, "wait", sem[c])
        /\ at[c] = "try" /\ sem[c] \in Tracked
    BY <1>2 DEF StartWaiting, ThrottleInv, ThrottleTypes
  <2>2. SlotsBounded'
    BY <2>1, SameHolders DEF Stages
  <2>3. ThrottleTypes'
    BY <2>1 DEF Enters, ThrottleInv, ThrottleTypes, Stages, Tracked
  <2> QED
    BY <2>2, <2>3 DEF ThrottleInv
<1>3. ASSUME NEW c \in Clients, Busy(c) PROVE ThrottleInv'
  <2>1. /\ UNCHANGED <<taken, rules>> /\ Enters(c, "out", None)
        /\ at[c] \in {"try", "wait"}
    BY <1>3 DEF Busy
  <2>2. SlotsBounded'
    BY <2>1, SameHolders DEF Stages
  <2>3. ThrottleTypes'
    BY <2>1 DEF Enters, ThrottleInv, ThrottleTypes, Stages, Tracked
  <2> QED
    BY <2>2, <2>3 DEF ThrottleInv
<1>4. ASSUME NEW list \in RuleSets, SetRules(list) PROVE ThrottleInv'
  <2>1. rules' \in [gen : 0..MaxReloads, list : RuleSets]
    BY <1>4, LimitsAssumption DEF SetRules, ThrottleInv, ThrottleTypes
  <2>2. ThrottleTypes'
    BY <2>1, <1>4 DEF SetRules, ThrottleInv, ThrottleTypes, Tracked
  <2>3. SlotsBounded'
    BY <1>4 DEF SetRules, ThrottleInv, SlotsBounded, Tracked, Holders
  <2> QED
    BY <2>2, <2>3 DEF ThrottleInv
<1>5. CASE UNCHANGED throttleVars
  BY <1>5 DEF throttleVars, ThrottleInv, ThrottleTypes, SlotsBounded, Tracked, Holders
<1> QED
  BY <1>1, <1>2, <1>3, <1>4, <1>5, TakeSlotStep, ReleaseStep DEF ThrottleNext

\* However executions wait, give up and finish, and however often the rules
\* are replaced under them, a semaphore has the tokens of the executions that
\* hold it, and no more than its rule allows (throttle.go:183-203).
THEOREM ThrottleCorrect == ThrottleSpec => []ThrottleInv
<1>1. ThrottleInit => ThrottleInv
  BY ThrottleInvInit
<1>2. ThrottleInv /\ [ThrottleNext]_throttleVars => ThrottleInv'
  BY ThrottleStep
<1> QED
  BY <1>1, <1>2, PTL DEF ThrottleSpec
=============================================================================
