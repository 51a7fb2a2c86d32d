------------------------------ MODULE Throttle ------------------------------
(***************************************************************************)
(* The per-statement throttle (internal/throttle): how many executions of  *)
(* one statement may run at once, under rules a reload replaces.           *)
(*                                                                         *)
(* A compiled rule, a limiter, has one semaphore per digest, made when the *)
(* digest is first seen.  An execution captures the semaphore it was given *)
(* and releases that one, whatever the rules are by then.  The value of    *)
(* the atomic pointer is a generation with the rules compiled for it, so   *)
(* that semaphores of the same rule before and after a reload differ.      *)
(***************************************************************************)
EXTENDS Integers, Sequences, FiniteSets

CONSTANTS
    Clients,     \* who executes statements: each one statement at a time
    Queries,     \* the texts of statements
    Digests,     \* their fingerprints
    Digest,      \* the fingerprint of each text: literals are left out
    RuleSets,    \* the sequences of rules a drop-in may hold
    FirstRules,  \* those at startup
    MaxDigests,  \* semaphores one rule keeps (4096)
    MaxReloads,  \* bound: generations after the first
    None         \* no semaphore, no statement

\* A rule as Validate accepts it.  wait: wait > 0.
Rule == [match : SUBSET Queries, max : Nat \ {0}, wait : BOOLEAN]

ASSUME QueriesAssumption ==
    Digest \in [Queries -> Digests] /\ IsFiniteSet(Clients)
ASSUME RulesAssumption == RuleSets \subseteq Seq(Rule) /\ FirstRules \in RuleSets
ASSUME LimitsAssumption == MaxDigests \in Nat /\ MaxReloads \in Nat

Semaphore == [gen : 0..MaxReloads, rule : Rule, digest : Digests]
ASSUME NoneAssumption == None \notin Semaphore

VARIABLES
    rules,    \* Limiter.rules: a generation and its list of limiters
    taken,    \* limiter.slots of all limiters: the tokens in the channel of
              \* each semaphore made so far
    at,       \* where each client is in Acquire
    sem       \* the semaphore it has looked up, or holds a slot of

throttleVars == <<rules, taken, at, sem>>

Tracked == DOMAIN taken

Stages == {"out", "try", "wait", "in"}

ThrottleInit ==
    /\ rules = [gen |-> 0, list |-> FirstRules]
    /\ taken = [s \in {} |-> 0]
    /\ at = [c \in Clients |-> "out"]
    /\ sem = [c \in Clients |-> None]

-----------------------------------------------------------------------------
(* Acquire *)

Matching(q) == {i \in DOMAIN rules.list : q \in rules.list[i].match}

\* The semaphore of a statement, if it has one: that of the first rule that
\* matches.
SemOf(q) ==
    {[gen |-> rules.gen, rule |-> rules.list[i], digest |-> Digest[q]] :
        i \in {j \in Matching(q) : \A k \in Matching(q) : j <= k}}

\* The semaphores of the same limiter.
Siblings(s) == {t \in Tracked : t.gen = s.gen /\ t.rule = s.rule}

Enters(c, stage, s) ==
    at' = [at EXCEPT ![c] = stage] /\ sem' = [sem EXCEPT ![c] = s]

\* No rule matches: run at once.
Unmatched(c, q) ==
    /\ Matching(q) = {}
    /\ Enters(c, "in", None)
    /\ UNCHANGED taken

\* A new shape past maxDigests is not throttled.
Untracked(c, q) ==
    /\ \E s \in SemOf(q) \ Tracked : Cardinality(Siblings(s)) >= MaxDigests
    /\ Enters(c, "in", None)
    /\ UNCHANGED taken

LookedUp(c, q) ==
    \E s \in SemOf(q) :
       /\ s \in Tracked \/ Cardinality(Siblings(s)) < MaxDigests
       /\ taken' = [t \in Tracked \cup {s} |->
                      IF t \in Tracked THEN taken[t] ELSE 0]
       /\ Enters(c, "try", s)

Acquire(c, q) ==
    /\ at[c] = "out"
    /\ Unmatched(c, q) \/ Untracked(c, q) \/ LookedUp(c, q)
    /\ UNCHANGED rules

Full(s) == taken[s] >= s.rule.max

\* Mutant: the wait ends with a slot whether there is one or not.
OvertakingTakeSlot(c) ==
    /\ at[c] \in {"try", "wait"}
    /\ at[c] = "wait" \/ ~Full(sem[c])
    /\ taken' = [taken EXCEPT ![sem[c]] = @ + 1]
    /\ Enters(c, "in", sem[c])
    /\ UNCHANGED rules

\* The send on the channel succeeds, at once or while waiting.
TakeSlot(c) ==
    /\ at[c] \in {"try", "wait"}
    /\ ~Full(sem[c])
    /\ taken' = [taken EXCEPT ![sem[c]] = @ + 1]
    /\ Enters(c, "in", sem[c])
    /\ UNCHANGED rules

StartWaiting(c) ==
    /\ at[c] = "try" /\ Full(sem[c]) /\ sem[c].rule.wait
    /\ Enters(c, "wait", sem[c])
    /\ UNCHANGED <<rules, taken>>

\* ErrBusy: at once without a wait, or when the timer fires.
Busy(c) ==
    /\ \/ at[c] = "try" /\ Full(sem[c]) /\ ~sem[c].rule.wait
       \/ at[c] = "wait"
    /\ Enters(c, "out", None)
    /\ UNCHANGED <<rules, taken>>

\* The release function: a receive from the captured channel.
Release(c) ==
    /\ at[c] = "in"
    /\ taken' = IF sem[c] = None THEN taken
                                  ELSE [taken EXCEPT ![sem[c]] = @ - 1]
    /\ Enters(c, "out", None)
    /\ UNCHANGED rules

-----------------------------------------------------------------------------
(* SetRules: a new list of limiters without semaphores. *)
SetRules(list) ==
    /\ rules.gen < MaxReloads
    /\ rules' = [gen |-> rules.gen + 1, list |-> list]
    /\ UNCHANGED <<taken, at, sem>>

ThrottleNext ==
    \/ \E c \in Clients :
          \/ \E q \in Queries : Acquire(c, q)
          \/ TakeSlot(c) \/ StartWaiting(c) \/ Busy(c) \/ Release(c)
    \/ \E list \in RuleSets : SetRules(list)

ThrottleSpec == ThrottleInit /\ [][ThrottleNext]_throttleVars

-----------------------------------------------------------------------------
(* Properties *)

Holders(s) == {c \in Clients : at[c] = "in" /\ sem[c] = s}

\* However executions wait, give up and finish, and however often the rules
\* are replaced under them, no more than max_concurrent executions of a
\* statement hold a slot of one generation of a rule; and when they are done
\* every slot is back (throttle.go:183-203).
SlotsBounded ==
    \A s \in Tracked : /\ taken[s] = Cardinality(Holders(s))
                       /\ taken[s] <= s.rule.max

\* Not a property of the code: at most max_concurrent copies of a statement
\* run at once (throttle.go:1), counted over all generations.  A reload
\* forgets the slots in use.
CopiesBounded ==
    \A s \in Tracked : s.gen = rules.gen =>
        Cardinality({c \in Clients : /\ at[c] = "in" /\ sem[c] # None
                                     /\ sem[c].digest = s.digest}) <= s.rule.max
=============================================================================
