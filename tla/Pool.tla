-------------------------------- MODULE Pool --------------------------------
(***************************************************************************)
(* The pool of backend connections of one node (internal/pool/pool.go).    *)
(*                                                                         *)
(* Every goroutine that touches the pool is a process with a label pc[p]:  *)
(* the borrowers (client sessions, health checks, the cache warmer), the   *)
(* prewarm goroutine, the keepalive loop and the caller of Close.  A step  *)
(* is what the code does between two points where another goroutine can    *)
(* get in: one channel operation, one atomic load or store, one network    *)
(* round trip.                                                             *)
(*                                                                         *)
(* openSem is the number of tokens in the semaphore channel, idle the      *)
(* content of the idle channel (first in, first out, capacity MaxOpen),    *)
(* live the connections that are open towards the backend.  A circuit      *)
(* breaker probe is a goroutine that only counts: probes says how many of  *)
(* them wait for their tick and how many are between their two stores.     *)
(*                                                                         *)
(* Time is abstracted to three facts about a connection: its lastPing is   *)
(* older than ping_interval (stale), it is older than max_lifetime (aged), *)
(* the server side is gone (dead).  The counters of Stat are left out.     *)
(***************************************************************************)
EXTENDS Integers, Sequences, FiniteSets

CONSTANTS Workers,          \* goroutines that borrow connections
          Conns,            \* identities of connections; reused once closed
          NoConn,           \* "holds no connection"
          MaxOpen,          \* pool.max_open
          MaxIdle,          \* pool.max_idle
          MinIdle,          \* pool.min_idle
          IdleTimeout,      \* BOOLEAN: pool.idle_timeout > 0
          MaxLifetime,      \* BOOLEAN: pool.max_lifetime > 0
          PingElapses,      \* BOOLEAN: connections get older than ping_interval
          BreakerFailures,  \* pool.breaker.failures, 0 disables the breaker
          MaxFaults         \* bound on failures of the backend and expiries

\* What config.go (validate, lines 531-563) accepts.
ASSUME CapAssumption     == MaxOpen \in Nat \ {0}
ASSUME IdleAssumption    == MaxIdle \in 0..MaxOpen /\ MinIdle \in 0..MaxOpen
ASSUME SwitchAssumption  == {IdleTimeout, MaxLifetime, PingElapses} \subseteq BOOLEAN
ASSUME BreakerAssumption == BreakerFailures \in Nat
ASSUME FaultsAssumption  == MaxFaults \in Nat
\* Finitely many goroutines and connections; the service goroutines are not
\* borrowers.
ASSUME ProcsAssumption   == /\ IsFiniteSet(Workers)
                            /\ "prewarm" \notin Workers
                            /\ "keepalive" \notin Workers
                            /\ "closer" \notin Workers
ASSUME ConnsAssumption   == IsFiniteSet(Conns) /\ NoConn \notin Conns

Procs == Workers \cup {"prewarm", "keepalive", "closer"}

VARIABLES openSem,       \* tokens in p.openSem
          idle,          \* content of p.idle
          live,          \* connections open towards the backend
          unseen,        \* history: connections that were parked when the
                         \* keepalive scan began and are still where they were
          pc,            \* where each process is
          conn,          \* the connection in the hands of each process
          ret,           \* where a process goes on after Discard or park
          warmLeft,      \* connections prewarm has yet to open
          scanLeft,      \* n of the keepalive loop
          breakerFails,  \* consecutive dial failures, up to BreakerFailures
          breakerOpen,
          probes,        \* [tick |-> ..., store |-> ...]: probe goroutines
          closed,        \* p.closed
          stop,          \* p.stop has been closed
          backendUp,     \* a dial succeeds
          dead,          \* open connections whose server side is gone
          stale,         \* lastPing older than ping_interval
          aged,          \* older than max_lifetime
          faults         \* failures of the backend and expiries so far

tokenVars   == <<openSem, idle, live, unseen>>
procVars    == <<pc, conn, ret>>
loopVars    == <<warmLeft, scanLeft>>
breakerVars == <<breakerFails, breakerOpen, probes>>
closeVars   == <<closed, stop>>
envVars     == <<backendUp, dead, stale, aged, faults>>
vars == <<tokenVars, procVars, loopVars, breakerVars, closeVars, envVars>>

\* Labels of a process that owns a connection, of one that owns a token of
\* the semaphore, and of one that owns neither.
ConnLabels  == {"revive", "leased", "reset", "trim", "park", "close",
                "check", "push"}
TokenLabels == ConnLabels \cup {"dial", "failed", "trip", "untoken"}
FreeLabels  == {"out", "fast", "token", "wait", "next", "tick", "scan",
                "open", "stop", "drain", "exit"}

Holders     == {p \in Procs : pc[p] \in TokenLabels}
ConnHolders == {p \in Procs : pc[p] \in ConnLabels}

Parked == {idle[i] : i \in 1..Len(idle)}

-----------------------------------------------------------------------------
Init ==
    /\ openSem = 0
    /\ idle = <<>>
    /\ live = {}
    /\ unseen = {}
    /\ pc = [p \in Procs |-> CASE p = "prewarm"   -> "next"
                               [] p = "keepalive" -> "tick"
                               [] p = "closer"    -> "open"
                               [] OTHER           -> "out"]
    /\ conn = [p \in Procs |-> NoConn]
    /\ ret = [p \in Procs |-> "out"]
    /\ warmLeft = MinIdle
    /\ scanLeft = 0
    /\ breakerFails = 0
    /\ breakerOpen = FALSE
    /\ probes = [tick |-> 0, store |-> 0]
    /\ closed = FALSE
    /\ stop = FALSE
    /\ backendUp = TRUE
    /\ dead = {}
    /\ stale = {}
    /\ aged = {}
    /\ faults = 0

Goto(p, l) == pc' = [pc EXCEPT ![p] = l]

\* Take the connection at the front of the idle channel.
PopIdle(p) ==
    /\ idle # <<>>
    /\ conn' = [conn EXCEPT ![p] = Head(idle)]
    /\ idle' = Tail(idle)
    /\ unseen' = unseen \ {Head(idle)}
    /\ UNCHANGED <<openSem, live>>

\* Mutant: the semaphore is not bounded by max_open.
UncappedTakeToken ==
    /\ openSem' = openSem + 1
    /\ UNCHANGED <<idle, live, unseen>>

\* Put a token in the semaphore channel; it blocks when the channel is full.
TakeToken ==
    /\ openSem < MaxOpen
    /\ openSem' = openSem + 1
    /\ UNCHANGED <<idle, live, unseen>>

\* Send conn[p] on the idle channel, or keep it for Discard when it is full.
PushIdle(p, next) ==
    \/ /\ Len(idle) < MaxOpen
       /\ idle' = Append(idle, conn[p])
       /\ conn' = [conn EXCEPT ![p] = NoConn]
       /\ Goto(p, next)
       /\ UNCHANGED <<openSem, live, unseen, ret>>
    \/ /\ Len(idle) >= MaxOpen
       /\ Goto(p, "close")
       /\ UNCHANGED <<tokenVars, conn, ret>>

-----------------------------------------------------------------------------
(* Acquire *)

\* With the breaker open Acquire returns ErrBackendDown at once.
AcquireRefused(w) ==
    /\ pc[w] = "out"
    /\ breakerOpen
    /\ UNCHANGED vars

AcquireStart(w) ==
    /\ pc[w] = "out"
    /\ ~breakerOpen
    /\ Goto(w, "fast")
    /\ UNCHANGED <<tokenVars, conn, ret, loopVars, breakerVars, closeVars, envVars>>

\* A parked connection is there, on the fast path or while waiting.
AcquireIdle(w) ==
    /\ pc[w] \in {"fast", "wait"}
    /\ PopIdle(w)
    /\ ret' = [ret EXCEPT ![w] = pc[w]]
    /\ Goto(w, "revive")
    /\ UNCHANGED <<loopVars, breakerVars, closeVars, envVars>>

AcquireNoIdle(w) ==
    /\ pc[w] = "fast"
    /\ idle = <<>>
    /\ Goto(w, "token")
    /\ UNCHANGED <<tokenVars, conn, ret, loopVars, breakerVars, closeVars, envVars>>

AcquireToken(w) ==
    /\ pc[w] \in {"token", "wait"}
    /\ TakeToken
    /\ ret' = [ret EXCEPT ![w] = "out"]
    /\ Goto(w, "dial")
    /\ UNCHANGED <<conn, loopVars, breakerVars, closeVars, envVars>>

AcquireSaturated(w) ==
    /\ pc[w] = "token"
    /\ openSem = MaxOpen
    /\ Goto(w, "wait")
    /\ UNCHANGED <<tokenVars, conn, ret, loopVars, breakerVars, closeVars, envVars>>

\* Mutant: the expired context is counted and the loop goes on.
EndlessAcquireTimeout(w) ==
    /\ pc[w] = "wait"
    /\ UNCHANGED vars

AcquireTimeout(w) ==
    /\ pc[w] = "wait"
    /\ Goto(w, "out")
    /\ UNCHANGED <<tokenVars, conn, ret, loopVars, breakerVars, closeVars, envVars>>

\* revive: an expired connection and one that does not answer the ping are
\* discarded.  A stale one may still be inside the trusted window, which is
\* twice the ping interval, and is then handed out without a ping.
Revive(w) ==
    /\ pc[w] = "revive"
    /\ \/ /\ conn[w] \in aged \/ (conn[w] \in stale /\ conn[w] \in dead)
          /\ Goto(w, "close")
          /\ UNCHANGED stale
       \/ /\ conn[w] \notin aged
          /\ Goto(w, "leased")
          /\ UNCHANGED stale
       \/ /\ conn[w] \notin aged
          /\ conn[w] \in stale \ dead
          /\ Goto(w, "leased")
          /\ stale' = stale \ {conn[w]}
    /\ UNCHANGED <<tokenVars, conn, ret, loopVars, breakerVars, closeVars,
                   backendUp, dead, aged, faults>>

-----------------------------------------------------------------------------
(* dial, the circuit breaker and its probe *)

DialOK(p) ==
    /\ pc[p] = "dial"
    /\ backendUp
    /\ \E c \in Conns \ live :
          /\ conn' = [conn EXCEPT ![p] = c]
          /\ live' = live \cup {c}
    /\ breakerFails' = 0
    /\ IF p = "prewarm"
       THEN Goto(p, "park") /\ ret' = [ret EXCEPT ![p] = "next"]
       ELSE Goto(p, "leased") /\ UNCHANGED ret
    /\ UNCHANGED <<openSem, idle, unseen, loopVars, breakerOpen, probes, closeVars,
                   envVars>>

DialFails(p) ==
    /\ pc[p] = "dial"
    /\ ~backendUp
    /\ Goto(p, "failed")
    /\ UNCHANGED <<tokenVars, conn, ret, loopVars, breakerVars, closeVars, envVars>>

\* Mutant: below the threshold the failed dial keeps its token.
LeakyCountFailure(p) ==
    /\ pc[p] = "failed"
    /\ breakerFails' = IF breakerFails < BreakerFailures
                       THEN breakerFails + 1 ELSE breakerFails
    /\ Goto(p, IF BreakerFailures > 0 /\ breakerFails' = BreakerFailures
               THEN "trip" ELSE ret[p])
    /\ UNCHANGED <<tokenVars, conn, ret, loopVars, breakerOpen, probes,
                   closeVars, envVars>>

\* recordDialFailure up to the comparison: the counter is only ever compared
\* with the threshold, so it stops there.
CountFailure(p) ==
    /\ pc[p] = "failed"
    /\ breakerFails' = IF breakerFails < BreakerFailures
                       THEN breakerFails + 1 ELSE breakerFails
    /\ Goto(p, IF BreakerFailures > 0 /\ breakerFails' = BreakerFailures
               THEN "trip" ELSE "untoken")
    /\ UNCHANGED <<tokenVars, conn, ret, loopVars, breakerOpen, probes,
                   closeVars, envVars>>

\* Mutant: a Store instead of the Swap, so every failure starts a probe.
StoringTrip(p) ==
    /\ pc[p] = "trip"
    /\ breakerOpen' = TRUE
    /\ probes' = [probes EXCEPT !.tick = @ + 1]
    /\ Goto(p, "untoken")
    /\ UNCHANGED <<tokenVars, conn, ret, loopVars, breakerFails, closeVars, envVars>>

\* breakerOpen.Swap(true): whoever finds it closed starts the probe.
Trip(p) ==
    /\ pc[p] = "trip"
    /\ breakerOpen' = TRUE
    /\ probes' = IF breakerOpen THEN probes
                 ELSE [probes EXCEPT !.tick = @ + 1]
    /\ Goto(p, "untoken")
    /\ UNCHANGED <<tokenVars, conn, ret, loopVars, breakerFails, closeVars, envVars>>

ProbeReaches ==
    /\ probes.tick > 0
    /\ backendUp
    /\ breakerFails' = 0
    /\ probes' = [tick |-> probes.tick - 1, store |-> probes.store + 1]
    /\ UNCHANGED <<tokenVars, procVars, loopVars, breakerOpen, closeVars, envVars>>

\* Mutant: the probe only clears the count of failures.
ForgetfulProbeCloses ==
    /\ probes.store > 0
    /\ probes' = [probes EXCEPT !.store = @ - 1]
    /\ UNCHANGED <<tokenVars, procVars, loopVars, breakerFails, breakerOpen,
                   closeVars, envVars>>

ProbeCloses ==
    /\ probes.store > 0
    /\ breakerOpen' = FALSE
    /\ probes' = [probes EXCEPT !.store = @ - 1]
    /\ UNCHANGED <<tokenVars, procVars, loopVars, breakerFails, closeVars, envVars>>

ProbeStopped ==
    /\ probes.tick > 0
    /\ stop
    /\ probes' = [probes EXCEPT !.tick = @ - 1]
    /\ UNCHANGED <<tokenVars, procVars, loopVars, breakerFails, breakerOpen,
                   closeVars, envVars>>

-----------------------------------------------------------------------------
(* Release, ReleaseClean, park, Discard *)

Release(w) ==
    /\ pc[w] = "leased"
    /\ ret' = [ret EXCEPT ![w] = "out"]
    /\ Goto(w, IF closed \/ conn[w] \in aged THEN "close" ELSE "reset")
    /\ UNCHANGED <<tokenVars, conn, loopVars, breakerVars, closeVars, envVars>>

\* The reset fails on a dead connection, and when the ROLLBACK fallback
\* cannot clear the variables of a live one.
ResetConn(w) ==
    /\ pc[w] = "reset"
    /\ \/ Goto(w, "close")
       \/ conn[w] \notin dead /\ Goto(w, "trim")
    /\ UNCHANGED <<tokenVars, conn, ret, loopVars, breakerVars, closeVars, envVars>>

TrimIdle(w) ==
    /\ pc[w] = "trim"
    /\ Goto(w, IF Len(idle) >= MaxIdle THEN "close" ELSE "park")
    /\ UNCHANGED <<tokenVars, conn, ret, loopVars, breakerVars, closeVars, envVars>>

ReleaseClean(w) ==
    /\ pc[w] = "leased"
    /\ ret' = [ret EXCEPT ![w] = "out"]
    /\ Goto(w, IF closed \/ conn[w] \in aged THEN "close" ELSE "park")
    /\ UNCHANGED <<tokenVars, conn, loopVars, breakerVars, closeVars, envVars>>

\* The borrower met a connection error and calls Discard itself.
Discard(w) ==
    /\ pc[w] = "leased"
    /\ ret' = [ret EXCEPT ![w] = "out"]
    /\ Goto(w, "close")
    /\ UNCHANGED <<tokenVars, conn, loopVars, breakerVars, closeVars, envVars>>

\* Mutant: the code falls through to Discard after the send.
FallThroughPark(p) ==
    /\ pc[p] = "park"
    /\ stale' = stale \ {conn[p]}
    /\ IF Len(idle) < MaxOpen THEN idle' = Append(idle, conn[p]) ELSE idle' = idle
    /\ Goto(p, "close")
    /\ UNCHANGED <<openSem, live, unseen, conn, ret, loopVars, breakerVars, closeVars,
                   backendUp, dead, aged, faults>>

Park(p) ==
    /\ pc[p] = "park"
    /\ stale' = stale \ {conn[p]}
    /\ PushIdle(p, ret[p])
    /\ UNCHANGED <<ret, loopVars, breakerVars, closeVars, backendUp, dead, aged, faults>>

\* Mutant: the socket is not closed.
ForgetfulCloseConn(p) ==
    /\ pc[p] = "close"
    /\ conn' = [conn EXCEPT ![p] = NoConn]
    /\ Goto(p, "untoken")
    /\ UNCHANGED <<tokenVars, ret, loopVars, breakerVars, closeVars, envVars>>

\* Discard, first the close of the socket, then the token.
CloseConn(p) ==
    /\ pc[p] = "close"
    /\ live' = live \ {conn[p]}
    /\ dead' = dead \ {conn[p]}
    /\ stale' = stale \ {conn[p]}
    /\ aged' = aged \ {conn[p]}
    /\ conn' = [conn EXCEPT ![p] = NoConn]
    /\ Goto(p, "untoken")
    /\ UNCHANGED <<openSem, idle, unseen, ret, loopVars, breakerVars, closeVars,
                   backendUp, faults>>

\* Receive from openSem: it blocks when there is no token.
ReleaseToken(p) ==
    /\ pc[p] = "untoken"
    /\ openSem > 0
    /\ openSem' = openSem - 1
    /\ Goto(p, ret[p])
    /\ UNCHANGED <<idle, live, unseen, conn, ret, loopVars, breakerVars, closeVars,
                   envVars>>

\* Mutant: the token is given back before the socket is closed.
TokenFirstDiscard(p) ==
    \/ /\ pc[p] = "close"
       /\ openSem > 0
       /\ openSem' = openSem - 1
       /\ Goto(p, "untoken")
       /\ UNCHANGED <<idle, live, unseen, conn, ret, loopVars, breakerVars,
                      closeVars, envVars>>
    \/ /\ conn[p] # NoConn
       /\ pc[p] = "untoken"
       /\ live' = live \ {conn[p]}
       /\ conn' = [conn EXCEPT ![p] = NoConn]
       /\ Goto(p, ret[p])
       /\ UNCHANGED <<openSem, idle, unseen, ret, loopVars, breakerVars, closeVars,
                      envVars>>
    \/ /\ conn[p] = NoConn
       /\ ReleaseToken(p)

DiscardStep(p) == CloseConn(p) \/ ReleaseToken(p)

-----------------------------------------------------------------------------
(* The prewarm goroutine *)

PrewarmToken ==
    /\ pc["prewarm"] = "next"
    /\ warmLeft > 0
    /\ TakeToken
    /\ warmLeft' = warmLeft - 1
    /\ ret' = [ret EXCEPT !["prewarm"] = "exit"]
    /\ Goto("prewarm", "dial")
    /\ UNCHANGED <<conn, scanLeft, breakerVars, closeVars, envVars>>

PrewarmDone ==
    /\ pc["prewarm"] = "next"
    /\ warmLeft = 0 \/ openSem = MaxOpen
    /\ Goto("prewarm", "exit")
    /\ UNCHANGED <<tokenVars, conn, ret, loopVars, breakerVars, closeVars, envVars>>

-----------------------------------------------------------------------------
(* The keepalive loop *)

\* Mutant: the scan leaves one connection out.
ShortKeepaliveTick ==
    /\ pc["keepalive"] = "tick"
    /\ scanLeft' = IF idle = <<>> THEN 0 ELSE Len(idle) - 1
    /\ unseen' = Parked
    /\ Goto("keepalive", "scan")
    /\ UNCHANGED <<openSem, idle, live, conn, ret, warmLeft, breakerVars, closeVars,
                   envVars>>

KeepaliveTick ==
    /\ pc["keepalive"] = "tick"
    /\ scanLeft' = Len(idle)
    /\ unseen' = Parked
    /\ Goto("keepalive", "scan")
    /\ UNCHANGED <<openSem, idle, live, conn, ret, warmLeft, breakerVars, closeVars,
                   envVars>>

KeepaliveStop ==
    /\ pc["keepalive"] = "tick"
    /\ stop
    /\ Goto("keepalive", "exit")
    /\ UNCHANGED <<tokenVars, conn, ret, loopVars, breakerVars, closeVars, envVars>>

KeepaliveTake ==
    /\ pc["keepalive"] = "scan"
    /\ scanLeft > 0
    /\ PopIdle("keepalive")
    /\ scanLeft' = scanLeft - 1
    /\ ret' = [ret EXCEPT !["keepalive"] = "scan"]
    /\ Goto("keepalive", "check")
    /\ UNCHANGED <<warmLeft, breakerVars, closeVars, envVars>>

KeepaliveScanned ==
    /\ pc["keepalive"] = "scan"
    /\ scanLeft = 0 \/ idle = <<>>
    /\ scanLeft' = 0
    /\ Goto("keepalive", "tick")
    /\ UNCHANGED <<tokenVars, conn, ret, warmLeft, breakerVars, closeVars, envVars>>

\* Retired, closed for idleness (pooledAt may be old enough or not), dropped
\* because the ping failed, or kept, with a ping when lastPing is old.
KeepaliveCheck ==
    LET c == conn["keepalive"] IN
    /\ pc["keepalive"] = "check"
    /\ \/ /\ \/ c \in aged
             \/ IdleTimeout /\ Len(idle) >= MinIdle
             \/ c \in stale /\ c \in dead
          /\ Goto("keepalive", "close")
          /\ UNCHANGED stale
       \/ /\ c \notin aged
          /\ c \notin stale \/ c \notin dead
          /\ Goto("keepalive", "push")
          /\ stale' = stale \ {c}
    /\ UNCHANGED <<tokenVars, conn, ret, loopVars, breakerVars, closeVars,
                   backendUp, dead, aged, faults>>

KeepalivePush ==
    /\ pc["keepalive"] = "push"
    /\ PushIdle("keepalive", "scan")
    /\ UNCHANGED <<loopVars, breakerVars, closeVars, envVars>>

-----------------------------------------------------------------------------
(* Close *)

CloseStart ==
    /\ pc["closer"] = "open"
    /\ closed' = TRUE
    /\ Goto("closer", "stop")
    /\ UNCHANGED <<tokenVars, conn, ret, loopVars, breakerVars, stop, envVars>>

CloseStop ==
    /\ pc["closer"] = "stop"
    /\ stop' = TRUE
    /\ Goto("closer", "drain")
    /\ UNCHANGED <<tokenVars, conn, ret, loopVars, breakerVars, closed, envVars>>

CloseTake ==
    /\ pc["closer"] = "drain"
    /\ PopIdle("closer")
    /\ ret' = [ret EXCEPT !["closer"] = "drain"]
    /\ Goto("closer", "close")
    /\ UNCHANGED <<loopVars, breakerVars, closeVars, envVars>>

CloseDone ==
    /\ pc["closer"] = "drain"
    /\ idle = <<>>
    /\ Goto("closer", "exit")
    /\ UNCHANGED <<tokenVars, conn, ret, loopVars, breakerVars, closeVars, envVars>>

-----------------------------------------------------------------------------
(* The environment: the backend, the network and the clock *)

BackendFails ==
    /\ backendUp
    /\ faults < MaxFaults
    /\ faults' = faults + 1
    /\ backendUp' = FALSE
    /\ dead' = live
    /\ UNCHANGED <<tokenVars, procVars, loopVars, breakerVars, closeVars, stale, aged>>

BackendRecovers ==
    /\ ~backendUp
    /\ backendUp' = TRUE
    /\ UNCHANGED <<tokenVars, procVars, loopVars, breakerVars, closeVars,
                   dead, stale, aged, faults>>

ConnectionDies(c) ==
    /\ c \in live \ dead
    /\ faults < MaxFaults
    /\ faults' = faults + 1
    /\ dead' = dead \cup {c}
    /\ UNCHANGED <<tokenVars, procVars, loopVars, breakerVars, closeVars,
                   backendUp, stale, aged>>

PingIntervalPasses(c) ==
    /\ PingElapses
    /\ c \in live \ stale
    /\ stale' = stale \cup {c}
    /\ UNCHANGED <<tokenVars, procVars, loopVars, breakerVars, closeVars,
                   backendUp, dead, aged, faults>>

LifetimePasses(c) ==
    /\ MaxLifetime
    /\ c \in live \ aged
    /\ faults < MaxFaults
    /\ faults' = faults + 1
    /\ aged' = aged \cup {c}
    /\ UNCHANGED <<tokenVars, procVars, loopVars, breakerVars, closeVars,
                   backendUp, dead, stale>>

-----------------------------------------------------------------------------
\* What a goroutine does on its own once it has entered the pool.
AcquireStep(w) ==
    \/ AcquireIdle(w) \/ AcquireNoIdle(w) \/ AcquireToken(w)
    \/ AcquireSaturated(w) \/ AcquireTimeout(w) \/ Revive(w)

DialStep(p) == DialOK(p) \/ DialFails(p) \/ CountFailure(p) \/ Trip(p)

ReturnStep(w) == ResetConn(w) \/ TrimIdle(w) \/ Park(w)

BorrowerStep(w) ==
    AcquireStep(w) \/ DialStep(w) \/ ReturnStep(w) \/ DiscardStep(w)

\* What the borrower decides.
BorrowerCall(w) ==
    \/ AcquireRefused(w) \/ AcquireStart(w)
    \/ Release(w) \/ ReleaseClean(w) \/ Discard(w)

PrewarmStep ==
    \/ PrewarmToken \/ PrewarmDone
    \/ DialStep("prewarm") \/ Park("prewarm") \/ DiscardStep("prewarm")

KeepaliveStep ==
    \/ KeepaliveTick \/ KeepaliveStop \/ KeepaliveTake \/ KeepaliveScanned
    \/ KeepaliveCheck \/ KeepalivePush \/ DiscardStep("keepalive")

CloseStep ==
    CloseStop \/ CloseTake \/ CloseDone \/ DiscardStep("closer")

ProbeStep == ProbeReaches \/ ProbeCloses \/ ProbeStopped

ClockStep == \E c \in Conns : PingIntervalPasses(c) \/ LifetimePasses(c)

EnvStep ==
    BackendFails \/ BackendRecovers \/ \E c \in Conns : ConnectionDies(c)

Next ==
    \/ \E w \in Workers : BorrowerCall(w) \/ BorrowerStep(w)
    \/ PrewarmStep \/ KeepaliveStep \/ CloseStart \/ CloseStep
    \/ ProbeStep \/ ClockStep \/ EnvStep

Spec == Init /\ [][Next]_vars

\* Goroutines are scheduled, timers fire and round trips end.  Nothing makes
\* a session give its connection back, or the backend come up again.
Fairness ==
    /\ \A w \in Workers : WF_vars(BorrowerStep(w))
    /\ WF_vars(PrewarmStep)
    /\ WF_vars(KeepaliveStep)
    /\ WF_vars(CloseStep)
    /\ WF_vars(ProbeStep)
    /\ \A c \in Conns : WF_vars(PingIntervalPasses(c))

FairSpec == Spec /\ Fairness

-----------------------------------------------------------------------------
(* The abstract allocator this pool implements *)

\* What a process has at a label, as the allocator sees it.
StageOf(l) == IF l \in ConnLabels THEN "conn"
              ELSE IF l \in TokenLabels THEN "slot" ELSE "free"

Stage == [p \in Procs |-> StageOf(pc[p])]

A == INSTANCE Allocator WITH stage <- Stage

-----------------------------------------------------------------------------
(* Properties *)

\* Type correctness of the pool's state.
TypeOK ==
    /\ openSem \in 0..MaxOpen
    /\ idle \in Seq(Conns)
    /\ live \subseteq Conns
    /\ unseen \subseteq Conns
    /\ pc \in [Procs -> TokenLabels \cup FreeLabels]
    /\ conn \in [Procs -> Conns \cup {NoConn}]
    /\ ret \in [Procs -> FreeLabels]
    /\ warmLeft \in 0..MinIdle
    /\ scanLeft \in Nat
    /\ breakerFails \in 0..BreakerFailures
    /\ breakerOpen \in BOOLEAN
    /\ probes \in [tick : Nat, store : Nat]
    /\ closed \in BOOLEAN
    /\ stop \in BOOLEAN
    /\ backendUp \in BOOLEAN
    /\ dead \in SUBSET Conns
    /\ stale \in SUBSET Conns
    /\ aged \in SUBSET Conns
    /\ faults \in 0..MaxFaults

\* "openSem holds one token per open backend connection (leased or idle)"
\* (pool.go:67): whatever order borrowers, prewarm, keepalive and Close get
\* in, the tokens are those of the parked connections plus one for each
\* goroutine that dials, holds or is discarding a connection.  So the receive
\* in Discard never blocks and no error path leaks a slot of the pool.
TokenAccounting == openSem = Len(idle) + Cardinality(Holders)

\* The pool implements the bounded allocator: whatever label a goroutine is
\* at, its steps amount to taking, filling, handing over or giving back one
\* slot, one at a time.
ImplementsAllocator == A!Spec

\* A connection is in one place: parked once, or in the hands of exactly one
\* goroutine, and it is open there.  Two sessions never talk over one socket.
ExclusiveOwnership ==
    /\ Parked \subseteq live
    /\ \A i, j \in 1..Len(idle) : idle[i] = idle[j] => i = j
    /\ \A p \in ConnHolders :
          /\ conn[p] \in live \ Parked
          /\ \A q \in ConnHolders : conn[p] = conn[q] => p = q

\* Every connection open towards the backend is parked or in somebody's
\* hands: none is lost while it still occupies the server.
NoLostConnection == live \subseteq Parked \cup {conn[p] : p \in ConnHolders}

\* "MaxOpen caps the total number of backend connections" (config.go:165):
\* the sockets really open, not the tokens, stay within the cap, which rests
\* on Discard closing the connection before it gives the token back.
CapRespected == Cardinality(live) <= MaxOpen

\* keepalive visits as many connections as were parked when it began, each
\* time taking the front one and parking it behind the others
\* (pool.go:546-591): although borrowers, prewarm and Close take from the
\* front and park at the back meanwhile, no connection that was there at the
\* beginning is still in its place when the scan has made its rounds, so a
\* dead or expired one does not stay parked unseen.
ScanReachesAll == scanLeft = 0 => unseen = {}

\* recordDialFailure and probe: a breaker that is open has exactly one probe
\* running that will close it, unless the pool was stopped, and a probe runs
\* only for an open breaker, however failures and recoveries interleave.
BreakerProbed ==
    /\ probes.tick + probes.store <= 1
    /\ breakerOpen /\ ~stop => probes.tick + probes.store = 1
    /\ probes.tick + probes.store > 0 => breakerOpen

\* An open breaker closes again, unless the pool is closed or the backend
\* goes down again: clients are never refused by a backend that is up.
BreakerRecovers == breakerOpen ~> (~breakerOpen \/ stop \/ ~backendUp)

\* Every Acquire ends, with a connection or with an error, even with all the
\* connections pinned by other sessions for ever.
AcquireEnds ==
    \A w \in Workers : pc[w] = "fast" ~> pc[w] \in {"leased", "out"}

\* A parked connection that is past max_lifetime, or whose server side is
\* gone, does not stay parked: the keepalive loop of an open pool visits every
\* parked connection and drops it, or a borrower takes it out.
UnfitConnectionLeaves ==
    \A c \in Conns :
       (c \in Parked /\ c \in dead \cup aged) ~> (c \notin Parked \/ closed)

\* "Close ... closes the parked connections" (pool.go:298): once Close has
\* returned and every goroutine has left the pool, nothing is parked.
ClosedPoolIsEmpty ==
    (/\ pc["closer"] = "exit"
     /\ \A p \in Procs : pc[p] \in {"out", "exit"})
    => idle = <<>>

\* "closing a pool means it stops handing connections out"
\* (topology/membership.go:55): after Close has returned, no borrower that
\* was outside the pool gets a connection.
ClosedPoolRefuses ==
    [][\A w \in Workers :
          pc["closer"] = "exit" /\ pc[w] = "out" => pc'[w] = "out"]_vars
=============================================================================
