----------------------------- MODULE PoolProofs -----------------------------
(***************************************************************************)
(* What holds of the pool for any number of borrowers, any max_open and    *)
(* any configuration: type correctness, that it implements Allocator, the  *)
(* ownership and the accounting of connections, the probe of the circuit   *)
(* breaker and the scan of the keepalive loop.                             *)
(***************************************************************************)
EXTENDS Pool, FiniteSetTheorems, TLAPS

\* A goroutine holds a connection exactly at the labels that say so.
HandsMatch == \A p \in Procs : conn[p] \in Conns <=> pc[p] \in ConnLabels

\* TypeOK in two halves: the provers treat Boolean variables apart.
FlagsOK == /\ breakerOpen \in BOOLEAN
           /\ closed \in BOOLEAN
           /\ stop \in BOOLEAN
           /\ backendUp \in BOOLEAN

DataOK == /\ openSem \in 0..MaxOpen
          /\ idle \in Seq(Conns)
          /\ live \subseteq Conns
          /\ unseen \subseteq Conns
          /\ pc \in [Procs -> TokenLabels \cup FreeLabels]
          /\ conn \in [Procs -> Conns \cup {NoConn}]
          /\ ret \in [Procs -> FreeLabels]
          /\ warmLeft \in 0..MinIdle
          /\ scanLeft \in Nat
          /\ breakerFails \in 0..BreakerFailures
          /\ probes \in [tick : Nat, store : Nat]
          /\ dead \in SUBSET Conns
          /\ stale \in SUBSET Conns
          /\ aged \in SUBSET Conns
          /\ faults \in 0..MaxFaults

TypeInv == DataOK /\ HandsMatch

Labels == TokenLabels \cup FreeLabels

-----------------------------------------------------------------------------
(* Facts about the sequences of parked connections *)

\* Taking the front of the idle channel shifts the others.
LEMMA TailFacts ==
    ASSUME NEW S, NEW s \in Seq(S), s # <<>>
    PROVE  /\ Tail(s) \in Seq(S)
           /\ Head(s) \in S
           /\ Len(s) \in Nat \ {0}
           /\ Len(Tail(s)) = Len(s) - 1
           /\ Head(s) = s[1]
           /\ \A i \in 1..Len(Tail(s)) : Tail(s)[i] = s[i + 1]
  OBVIOUS

\* Sending on the idle channel adds at the back.
LEMMA AppendFacts ==
    ASSUME NEW S, NEW s \in Seq(S), NEW e \in S
    PROVE  /\ Append(s, e) \in Seq(S)
           /\ Len(s) \in Nat
           /\ Len(Append(s, e)) = Len(s) + 1
           /\ \A i \in 1..Len(s) : Append(s, e)[i] = s[i]
           /\ Append(s, e)[Len(s) + 1] = e
  OBVIOUS

-----------------------------------------------------------------------------
(* Type correctness *)

\* A pool just made is well typed.
LEMMA TypeInit == Init => TypeInv
<1> SUFFICES ASSUME Init PROVE TypeInv
  OBVIOUS
<1> USE CapAssumption, IdleAssumption, BreakerAssumption, FaultsAssumption,
        ConnsAssumption DEF Init
<1>1. pc \in [Procs -> Labels]
  BY DEF Labels, FreeLabels
<1>2. DataOK
  BY <1>1 DEF DataOK, Labels, FreeLabels
<1>3. HandsMatch
  BY DEF HandsMatch, ConnLabels
<1> QED
  BY <1>2, <1>3 DEF TypeInv

\* A probe moves on or ends: what counts the probes stays two numbers.
LEMMA ProbesStep ==
    ASSUME probes \in [tick : Nat, store : Nat], ProbeStep
    PROVE  probes' \in [tick : Nat, store : Nat]
<1>1. probes.tick \in Nat /\ probes.store \in Nat
  OBVIOUS
<1>2. CASE ProbeReaches
  BY <1>1, <1>2 DEF ProbeReaches
<1>3. CASE ProbeCloses
  <2>1. /\ probes.store - 1 \in Nat
        /\ probes' = [probes EXCEPT !.store = probes.store - 1]
    BY <1>1, <1>3 DEF ProbeCloses
  <2> QED
    BY <2>1
<1>4. CASE ProbeStopped
  <2>1. /\ probes.tick - 1 \in Nat
        /\ probes' = [probes EXCEPT !.tick = probes.tick - 1]
    BY <1>1, <1>4 DEF ProbeStopped
  <2> QED
    BY <2>1
<1> QED
  BY <1>2, <1>3, <1>4 DEF ProbeStep

\* Every step of the code keeps the types, and the agreement between what a
\* goroutine holds and the label it is at.
LEMMA TypeStep == TypeInv /\ [Next]_vars => TypeInv'
<1> SUFFICES ASSUME TypeInv, [Next]_vars PROVE TypeInv'
  OBVIOUS
<1> USE CapAssumption, IdleAssumption, BreakerAssumption, FaultsAssumption,
        ConnsAssumption
<1> USE DEF TypeInv, DataOK, HandsMatch, Goto, ConnLabels, TokenLabels, FreeLabels,
        tokenVars, procVars, loopVars, breakerVars, closeVars, envVars
<1>1. ASSUME NEW w \in Workers, AcquireStart(w) \/ AcquireNoIdle(w)
             \/ AcquireSaturated(w) \/ AcquireTimeout(w)
      PROVE  TypeInv'
<2>1. CASE AcquireStart(w)
  BY <1>1, <2>1 DEF AcquireStart, Procs
<2>2. CASE AcquireNoIdle(w)
  BY <1>1, <2>2 DEF AcquireNoIdle, Procs
<2>3. CASE AcquireSaturated(w)
  BY <1>1, <2>3 DEF AcquireSaturated, Procs
<2>4. CASE AcquireTimeout(w)
  BY <1>1, <2>4 DEF AcquireTimeout, Procs
<2> QED
  BY <1>1, <2>1, <2>2, <2>3, <2>4
<1>2. ASSUME NEW w \in Workers, AcquireIdle(w)
      PROVE  TypeInv'
  BY <1>2, TailFacts DEF AcquireIdle, PopIdle, Procs
<1>3. ASSUME NEW w \in Workers, AcquireToken(w)
      PROVE  TypeInv'
  BY <1>3 DEF AcquireToken, TakeToken, Procs
<1>4. ASSUME NEW w \in Workers, Revive(w)
      PROVE  TypeInv'
  BY <1>4 DEF Revive, Procs
<1>5. ASSUME NEW p \in Procs, DialOK(p)
      PROVE  TypeInv'
  BY <1>5 DEF DialOK
<1>6. ASSUME NEW p \in Procs, DialFails(p) \/ CountFailure(p) \/ Trip(p)
      PROVE  TypeInv'
<2>1. CASE DialFails(p)
  BY <1>6, <2>1 DEF DialFails
<2>2. CASE CountFailure(p)
  BY <1>6, <2>2 DEF CountFailure
<2>3. CASE Trip(p)
  <3>1. probes' \in [tick : Nat, store : Nat]
    BY <2>3 DEF Trip
  <3> QED
    BY <1>6, <2>3, <3>1 DEF Trip
<2> QED
  BY <1>6, <2>1, <2>2, <2>3
<1>7. ASSUME NEW w \in Workers,
             Release(w) \/ ReleaseClean(w) \/ Discard(w) \/ ResetConn(w) \/ TrimIdle(w)
      PROVE  TypeInv'
<2>1. CASE Release(w)
  BY <1>7, <2>1 DEF Release, Procs
<2>2. CASE ReleaseClean(w)
  BY <1>7, <2>2 DEF ReleaseClean, Procs
<2>3. CASE Discard(w)
  BY <1>7, <2>3 DEF Discard, Procs
<2>4. CASE ResetConn(w)
  BY <1>7, <2>4 DEF ResetConn, Procs
<2>5. CASE TrimIdle(w)
  BY <1>7, <2>5 DEF TrimIdle, Procs
<2> QED
  BY <1>7, <2>1, <2>2, <2>3, <2>4, <2>5
<1>8. ASSUME NEW p \in Procs, Park(p)
      PROVE  TypeInv'
<2>1. conn[p] \in Conns /\ ret[p] \in FreeLabels
  BY <1>8 DEF Park
<2>2. Append(idle, conn[p]) \in Seq(Conns)
  BY <2>1, AppendFacts
<2> QED
  BY <1>8, <2>1, <2>2 DEF Park, PushIdle
<1>9. ASSUME NEW p \in Procs, CloseConn(p)
      PROVE  TypeInv'
  BY <1>9 DEF CloseConn
<1>10. ASSUME NEW p \in Procs, ReleaseToken(p)
       PROVE  TypeInv'
  BY <1>10 DEF ReleaseToken
<1>11. ASSUME PrewarmToken \/ PrewarmDone
       PROVE  TypeInv'
<2>1. CASE PrewarmToken
  BY <1>11, <2>1 DEF PrewarmToken, TakeToken, Procs
<2>2. CASE PrewarmDone
  BY <1>11, <2>2 DEF PrewarmDone, Procs
<2> QED
  BY <1>11, <2>1, <2>2
<1>12. ASSUME KeepaliveTick \/ KeepaliveStop \/ KeepaliveScanned
       PROVE  TypeInv'
<2>1. CASE KeepaliveTick
<3>1. Parked \subseteq Conns
  BY DEF Parked
<3> QED
  BY <1>12, <2>1, <3>1 DEF KeepaliveTick, Procs
<2>2. CASE KeepaliveStop
  BY <1>12, <2>2 DEF KeepaliveStop, Procs
<2>3. CASE KeepaliveScanned
  BY <1>12, <2>3 DEF KeepaliveScanned, Procs
<2> QED
  BY <1>12, <2>1, <2>2, <2>3
<1>13. ASSUME KeepaliveTake
       PROVE  TypeInv'
  BY <1>13, TailFacts DEF KeepaliveTake, PopIdle, Procs
<1>14. ASSUME KeepaliveCheck
       PROVE  TypeInv'
  BY <1>14 DEF KeepaliveCheck, Procs
<1>15. ASSUME KeepalivePush
       PROVE  TypeInv'
<2>1. "keepalive" \in Procs
  BY DEF Procs
<2>2. conn["keepalive"] \in Conns
  BY <1>15, <2>1 DEF KeepalivePush
<2>3. Append(idle, conn["keepalive"]) \in Seq(Conns)
  BY <2>2, AppendFacts
<2>4. CASE Len(idle) < MaxOpen /\ idle' = Append(idle, conn["keepalive"])
           /\ conn' = [conn EXCEPT !["keepalive"] = NoConn]
           /\ pc' = [pc EXCEPT !["keepalive"] = "scan"]
           /\ UNCHANGED <<openSem, live, unseen, ret>>
  BY <1>15, <2>1, <2>3, <2>4 DEF KeepalivePush
<2>5. CASE pc' = [pc EXCEPT !["keepalive"] = "close"]
           /\ UNCHANGED <<openSem, idle, live, unseen, conn, ret>>
  BY <1>15, <2>1, <2>5 DEF KeepalivePush
<2> QED
  BY <1>15, <2>4, <2>5 DEF KeepalivePush, PushIdle
<1>16. ASSUME CloseStart \/ CloseStop \/ CloseDone
       PROVE  TypeInv'
<2>1. CASE CloseStart
  BY <1>16, <2>1 DEF CloseStart, Procs
<2>2. CASE CloseStop
  BY <1>16, <2>2 DEF CloseStop, Procs
<2>3. CASE CloseDone
  BY <1>16, <2>3 DEF CloseDone, Procs
<2> QED
  BY <1>16, <2>1, <2>2, <2>3
<1>17. ASSUME CloseTake
       PROVE  TypeInv'
  BY <1>17, TailFacts DEF CloseTake, PopIdle, Procs
<1>18. ASSUME ProbeStep
       PROVE  TypeInv'
<2>1. probes' \in [tick : Nat, store : Nat]
  BY <1>18, ProbesStep
<2>2. breakerFails' \in 0..BreakerFailures
  BY <1>18 DEF ProbeStep, ProbeReaches, ProbeCloses, ProbeStopped
<2>3. UNCHANGED <<openSem, idle, live, unseen, pc, conn, ret, warmLeft,
                  scanLeft, dead, stale, aged, faults>>
  BY <1>18 DEF ProbeStep, ProbeReaches, ProbeCloses, ProbeStopped
<2> QED
  BY <2>1, <2>2, <2>3
<1>19. ASSUME ClockStep \/ EnvStep
       PROVE  TypeInv'
  BY <1>19 DEF ClockStep, EnvStep, PingIntervalPasses, LifetimePasses,
               BackendFails, BackendRecovers, ConnectionDies
<1>20. ASSUME UNCHANGED vars
       PROVE  TypeInv'
  BY <1>20 DEF vars
<1>21. {"prewarm", "keepalive", "closer"} \subseteq Procs /\ Workers \subseteq Procs
  BY DEF Procs
<1> QED
  BY <1>1, <1>2, <1>3, <1>4, <1>5, <1>6, <1>7, <1>8, <1>9, <1>10, <1>11, <1>12,
     <1>13, <1>14, <1>15, <1>16, <1>17, <1>18, <1>19, <1>20, <1>21
  DEF Next, BorrowerCall, BorrowerStep, AcquireStep, AcquireRefused, DialStep,
      ReturnStep, DiscardStep, PrewarmStep, KeepaliveStep, CloseStep

\* The switches of the pool are Booleans.
LEMMA FlagsStep == FlagsOK /\ [Next]_vars => FlagsOK'
<1> SUFFICES ASSUME FlagsOK, [Next]_vars PROVE FlagsOK'
  OBVIOUS
<1> USE DEF breakerVars, closeVars, envVars
<1> DEFINE Same == UNCHANGED <<breakerOpen, closed, stop, backendUp>>
           OneSet ==
             \/ breakerOpen' = TRUE /\ UNCHANGED <<closed, stop, backendUp>>
             \/ breakerOpen' = FALSE /\ UNCHANGED <<closed, stop, backendUp>>
             \/ closed' = TRUE /\ UNCHANGED <<breakerOpen, stop, backendUp>>
             \/ stop' = TRUE /\ UNCHANGED <<breakerOpen, closed, backendUp>>
             \/ backendUp' = FALSE /\ UNCHANGED <<breakerOpen, closed, stop>>
             \/ backendUp' = TRUE /\ UNCHANGED <<breakerOpen, closed, stop>>
<1>1. Same \/ OneSet
  <2>1. ASSUME NEW p, DialStep(p)
        PROVE  Same \/ OneSet
    BY <2>1 DEF DialStep, DialOK, DialFails, CountFailure, Trip
  <2>2. ASSUME NEW w, AcquireStep(w) \/ ReturnStep(w) \/ DiscardStep(w) \/ BorrowerCall(w)
        PROVE  Same
    BY <2>2 DEF AcquireStep, AcquireIdle, AcquireNoIdle, AcquireToken,
                AcquireSaturated, AcquireTimeout, Revive, ReturnStep, ResetConn,
                TrimIdle, Park, DiscardStep, CloseConn, ReleaseToken, BorrowerCall,
                AcquireRefused, AcquireStart, Release, ReleaseClean, Discard, vars
  <2>3. ASSUME KeepaliveStep \/ ClockStep \/ PrewarmToken \/ PrewarmDone \/ UNCHANGED vars
        PROVE  Same
    BY <2>3, <2>2 DEF KeepaliveStep, KeepaliveTick, KeepaliveStop, KeepaliveTake,
                KeepaliveScanned, KeepaliveCheck, KeepalivePush, ClockStep,
                PingIntervalPasses, LifetimePasses, PrewarmToken, PrewarmDone, vars
  <2>4. ASSUME ProbeStep \/ CloseStart \/ CloseStop \/ CloseTake \/ CloseDone \/ EnvStep
        PROVE  Same \/ OneSet
    BY <2>4 DEF ProbeStep, ProbeReaches, ProbeCloses, ProbeStopped, CloseStart,
                CloseStop, CloseTake, CloseDone, EnvStep, BackendFails,
                BackendRecovers, ConnectionDies
  <2> QED
    BY <2>1, <2>2, <2>3, <2>4 DEF Next, BorrowerStep, PrewarmStep, CloseStep, ReturnStep
<1> QED
  BY Zenon, <1>1 DEF FlagsOK

\* The pool's state is well typed, whatever the number of goroutines and the
\* configuration.
THEOREM TypeCorrect == Spec => []TypeOK
<1>1. Init => FlagsOK
  BY Zenon DEF Init, FlagsOK
<1>2. TypeInv /\ FlagsOK => TypeOK
  BY DEF TypeInv, DataOK, FlagsOK, TypeOK
<1> QED
  BY TypeInit, TypeStep, FlagsStep, <1>1, <1>2, PTL DEF Spec
-----------------------------------------------------------------------------
(* The pool implements the allocator *)

\* A process that goes to a label takes on what the label stands for.
LEMMA StageMove ==
    ASSUME TypeInv, NEW p \in Procs, NEW l, Goto(p, l)
    PROVE  Stage' = [Stage EXCEPT ![p] = StageOf(l)]
<1>1. pc \in [Procs -> Labels]
  BY DEF TypeInv, DataOK, Labels
<1> QED
  BY <1>1 DEF Stage, Goto

\* ... and nothing happens to the allocator when the labels agree.
LEMMA StageStays ==
    ASSUME TypeInv, NEW p \in Procs, NEW l, Goto(p, l),
           StageOf(l) = StageOf(pc[p])
    PROVE  Stage' = Stage
<1>1. pc \in [Procs -> Labels]
  BY DEF TypeInv, DataOK, Labels
<1> QED
  BY <1>1, StageMove DEF Stage

\* What the labels stand for.
LEMMA StageValues ==
    /\ \A l \in ConnLabels : StageOf(l) = "conn"
    /\ \A l \in {"dial", "failed", "trip", "untoken"} : StageOf(l) = "slot"
    /\ \A l \in FreeLabels : StageOf(l) = "free"
  BY DEF StageOf, ConnLabels, TokenLabels, FreeLabels

\* Every step of the code is a step of the allocator, or none.
LEMMA AllocatorStep == TypeInv /\ [Next]_vars => [A!Next]_(A!vars)
<1> SUFFICES ASSUME TypeInv, [Next]_vars PROVE [A!Next]_(A!vars)
  OBVIOUS
<1> USE DEF tokenVars, procVars
<1> DEFINE Quiet == UNCHANGED A!vars
           Moves(p) == \/ A!Reserve(p) \/ A!Open(p) \/ A!Take(p)
                       \/ A!Return(p) \/ A!Shut(p) \/ A!Free(p)
<1>0. /\ pc \in [Procs -> Labels]
      /\ ret \in [Procs -> FreeLabels]
      /\ \A p \in Procs : Stage[p] = StageOf(pc[p])
      /\ {"prewarm", "keepalive", "closer"} \subseteq Procs /\ Workers \subseteq Procs
  BY DEF TypeInv, DataOK, Labels, Stage, Procs
<1>1. ASSUME NEW p \in Procs, NEW l, Goto(p, l), StageOf(l) = StageOf(pc[p]),
             UNCHANGED <<openSem, idle, live, conn>>
      PROVE  Quiet
  BY <1>1, StageStays DEF A!vars
<1>2. ASSUME pc' = pc, UNCHANGED <<openSem, idle, live, conn>>
      PROVE  Quiet
  BY <1>2 DEF A!vars, Stage
<1>3. ASSUME NEW w \in Workers, AcquireStep(w)
      PROVE  Quiet \/ Moves(w)
  <2>1. CASE AcquireNoIdle(w) \/ AcquireSaturated(w) \/ AcquireTimeout(w)
    BY <2>1, <1>0, <1>1, StageValues
       DEF AcquireNoIdle, AcquireSaturated, AcquireTimeout, FreeLabels
  <2>2. CASE AcquireIdle(w)
    BY <2>2, <1>0, StageMove, StageValues
       DEF AcquireIdle, PopIdle, A!Take, A!Becomes, FreeLabels, ConnLabels
  <2>3. CASE AcquireToken(w)
    BY <2>3, <1>0, StageMove, StageValues
       DEF AcquireToken, TakeToken, A!Reserve, A!Becomes, FreeLabels
  <2>4. CASE Revive(w)
    BY <2>4, <1>0, <1>1, StageValues DEF Revive, ConnLabels
  <2> QED
    BY <1>3, <2>1, <2>2, <2>3, <2>4 DEF AcquireStep
<1>4. ASSUME NEW p \in Procs, DialStep(p)
      PROVE  Quiet \/ Moves(p)
  <2>1. CASE DialOK(p)
    <3>1. Stage' = [Stage EXCEPT ![p] = "conn"]
      BY <2>1, <1>0, StageMove, StageValues DEF DialOK, ConnLabels
    <3> QED
      BY <2>1, <3>1, <1>0, StageValues DEF DialOK, A!Open, A!Becomes
  <2>2. CASE DialFails(p) \/ CountFailure(p) \/ Trip(p)
    <3>1. PICK l \in {"failed", "trip", "untoken", pc[p]} : Goto(p, l)
      BY <2>2, <1>0 DEF DialFails, CountFailure, Trip, FreeLabels
    <3> QED
      BY <2>2, <1>0, <1>1, StageValues DEF DialFails, CountFailure, Trip
  <2> QED
    BY <1>4, <2>1, <2>2 DEF DialStep
<1>5. ASSUME NEW p \in Procs, PushIdle(p, ret[p]) \/ PushIdle(p, "scan"),
             pc[p] \in {"park", "push"}
      PROVE  Quiet \/ Moves(p)
  <2>1. PICK l \in FreeLabels : PushIdle(p, l)
    BY <1>5, <1>0 DEF FreeLabels
  <2>2. CASE Goto(p, l) /\ idle' = Append(idle, conn[p])
             /\ conn' = [conn EXCEPT ![p] = NoConn] /\ UNCHANGED <<openSem, live>>
    BY <1>5, <2>2, <1>0, StageMove, StageValues DEF A!Return, A!Becomes, ConnLabels
  <2>3. CASE Goto(p, "close") /\ UNCHANGED <<openSem, idle, live, conn>>
    BY <1>5, <2>3, <1>0, <1>1, StageValues DEF ConnLabels
  <2> QED
    BY <2>1, <2>2, <2>3 DEF PushIdle
<1>6. ASSUME NEW w \in Workers, ResetConn(w) \/ TrimIdle(w) \/ BorrowerCall(w)
      PROVE  Quiet
  <2>1. CASE ResetConn(w) \/ TrimIdle(w)
    BY <2>1, <1>0, <1>1, StageValues DEF ResetConn, TrimIdle, ConnLabels
  <2>2. CASE AcquireRefused(w)
    BY <2>2, <1>2 DEF AcquireRefused, vars
  <2>3. CASE AcquireStart(w)
    BY <2>3, <1>0, <1>1, StageValues DEF AcquireStart, FreeLabels
  <2>4. CASE Release(w) \/ ReleaseClean(w) \/ Discard(w)
    BY <2>4, <1>0, <1>1, StageValues DEF Release, ReleaseClean, Discard, ConnLabels
  <2> QED
    BY <1>6, <2>1, <2>2, <2>3, <2>4 DEF BorrowerCall
<1>7. ASSUME NEW p \in Procs, DiscardStep(p)
      PROVE  Moves(p)
  <2>1. CASE CloseConn(p)
    BY <2>1, <1>0, StageMove, StageValues DEF CloseConn, A!Shut, A!Becomes, ConnLabels
  <2>2. CASE ReleaseToken(p)
    BY <2>2, <1>0, StageMove, StageValues DEF ReleaseToken, A!Free, A!Becomes
  <2> QED
    BY <1>7, <2>1, <2>2 DEF DiscardStep
<1>8. ASSUME NEW p \in Procs, Park(p)
      PROVE  Quiet \/ Moves(p)
  BY <1>8, <1>5 DEF Park
<1>9. ASSUME PrewarmToken \/ PrewarmDone
      PROVE  Quiet \/ Moves("prewarm")
  <2>1. CASE PrewarmToken
    BY <2>1, <1>0, StageMove, StageValues
       DEF PrewarmToken, TakeToken, A!Reserve, A!Becomes, FreeLabels
  <2>2. CASE PrewarmDone
    BY <2>2, <1>0, <1>1, StageValues DEF PrewarmDone, FreeLabels
  <2> QED
    BY <1>9, <2>1, <2>2
<1>10. ASSUME KeepaliveStep
       PROVE  Quiet \/ Moves("keepalive")
  <2>1. CASE KeepaliveTick \/ KeepaliveStop \/ KeepaliveScanned
    BY <2>1, <1>0, <1>1, StageValues
       DEF KeepaliveTick, KeepaliveStop, KeepaliveScanned, FreeLabels
  <2>2. CASE KeepaliveTake
    BY <2>2, <1>0, StageMove, StageValues
       DEF KeepaliveTake, PopIdle, A!Take, A!Becomes, FreeLabels, ConnLabels
  <2>3. CASE KeepaliveCheck
    BY <2>3, <1>0, <1>1, StageValues DEF KeepaliveCheck, ConnLabels
  <2>4. CASE KeepalivePush
    BY <2>4, <1>0, <1>5 DEF KeepalivePush
  <2> QED
    BY <1>0, <1>7, <1>10, <2>1, <2>2, <2>3, <2>4 DEF KeepaliveStep
<1>11. ASSUME CloseStart \/ CloseStep
       PROVE  Quiet \/ Moves("closer")
  <2>1. CASE CloseStart \/ CloseStop \/ CloseDone
    BY <2>1, <1>0, <1>1, StageValues DEF CloseStart, CloseStop, CloseDone, FreeLabels
  <2>2. CASE CloseTake
    BY <2>2, <1>0, StageMove, StageValues
       DEF CloseTake, PopIdle, A!Take, A!Becomes, FreeLabels, ConnLabels
  <2> QED
    BY <1>0, <1>7, <1>11, <2>1, <2>2 DEF CloseStep
<1>12. ASSUME ProbeStep \/ ClockStep \/ EnvStep \/ UNCHANGED vars
       PROVE  Quiet
  BY <1>12, <1>2
     DEF ProbeStep, ProbeReaches, ProbeCloses, ProbeStopped, ClockStep, EnvStep,
         PingIntervalPasses, LifetimePasses, BackendFails, BackendRecovers,
         ConnectionDies, vars
<1>13. Quiet \/ \E p \in Procs : Moves(p)
  BY <1>0, <1>3, <1>4, <1>6, <1>7, <1>8, <1>9, <1>10, <1>11, <1>12
     DEF Next, BorrowerStep, ReturnStep, PrewarmStep
<1> QED
  BY <1>13 DEF A!Next

\* The pool implements the bounded allocator for any number of goroutines:
\* the breaker, prewarming, keepalive and Close add nothing to the ways in
\* which a slot or a connection changes hands.
THEOREM PoolImplementsAllocator == Spec => ImplementsAllocator
<1>1. Init => A!Init
  BY DEF Init, A!Init, Stage, StageOf, ConnLabels, TokenLabels
<1> QED
  BY <1>1, TypeInit, TypeStep, AllocatorStep, PTL DEF Spec, ImplementsAllocator, A!Spec
-----------------------------------------------------------------------------
(* Accounting and ownership, argued on the allocator *)

Slots   == {p \in Procs : Stage[p] # "free"}
Conners == {p \in Procs : Stage[p] = "conn"}

\* Where every open connection is, index by index of the idle channel.
Placement ==
    /\ \A i \in 1..Len(idle) : idle[i] \in live
    /\ \A i, j \in 1..Len(idle) : idle[i] = idle[j] => i = j
    /\ \A p \in Conners : conn[p] \in live
    /\ \A p \in Conners, i \in 1..Len(idle) : conn[p] # idle[i]
    /\ \A p, q \in Conners : conn[p] = conn[q] => p = q
    /\ \A c \in live : \/ \E i \in 1..Len(idle) : idle[i] = c
                       \/ \E p \in Conners : conn[p] = c

\* The slots in use and the open connections, counted.
Counts ==
    /\ openSem = Len(idle) + Cardinality(Slots)
    /\ Cardinality(live) = Len(idle) + Cardinality(Conners)

\* The inductive invariant.
IInv == TypeInv /\ Placement /\ Counts

\* What the labels say about a process is what the allocator says.
LEMMA SlotsAreHolders == TypeInv => Holders = Slots /\ ConnHolders = Conners
<1> SUFFICES ASSUME TypeInv PROVE Holders = Slots /\ ConnHolders = Conners
  OBVIOUS
<1>1. \A l \in Labels : /\ StageOf(l) # "free" <=> l \in TokenLabels
                        /\ StageOf(l) = "conn" <=> l \in ConnLabels
  BY DEF StageOf, Labels, TokenLabels, ConnLabels, FreeLabels
<1>2. \A p \in Procs : pc[p] \in Labels /\ Stage[p] = StageOf(pc[p])
  BY DEF TypeInv, DataOK, Labels, Stage
<1>3. \A p \in Procs : /\ Stage[p] # "free" <=> pc[p] \in TokenLabels
                       /\ Stage[p] = "conn" <=> pc[p] \in ConnLabels
  BY <1>1, <1>2
<1>4. Holders = Slots
  <2>1. ASSUME NEW p PROVE p \in Holders <=> p \in Slots
    BY <1>3 DEF Holders, Slots
  <2> QED
    BY <2>1
<1>5. ConnHolders = Conners
  <2>1. ASSUME NEW p PROVE p \in ConnHolders <=> p \in Conners
    BY <1>3 DEF ConnHolders, Conners
  <2> QED
    BY <2>1
<1> QED
  BY <1>4, <1>5

\* There are finitely many processes and connections.
LEMMA Finite ==
    TypeInv => IsFiniteSet(Slots) /\ IsFiniteSet(Conners) /\ IsFiniteSet(live)
<1>1. IsFiniteSet(Procs)
  <2>1. /\ IsFiniteSet(Workers \cup {"prewarm"})
        /\ IsFiniteSet((Workers \cup {"prewarm"}) \cup {"keepalive"})
        /\ IsFiniteSet(((Workers \cup {"prewarm"}) \cup {"keepalive"}) \cup {"closer"})
    BY FS_AddElement, ProcsAssumption
  <2>2. Procs = ((Workers \cup {"prewarm"}) \cup {"keepalive"}) \cup {"closer"}
    BY DEF Procs
  <2> QED
    BY <2>1, <2>2
<1>2. Slots \subseteq Procs /\ Conners \subseteq Procs
  BY DEF Slots, Conners
<1>3. TypeInv => live \subseteq Conns
  BY DEF TypeInv, DataOK
<1> QED
  BY <1>1, <1>2, <1>3, FS_Subset, ConnsAssumption

\* How the two sets of processes follow one step of the allocator.
LEMMA StageSets ==
    ASSUME NEW p \in Procs, NEW from, NEW to, A!Becomes(p, from, to)
    PROVE  /\ Slots' = IF to = "free" THEN Slots \ {p} ELSE Slots \cup {p}
           /\ Conners' = IF to = "conn" THEN Conners \cup {p} ELSE Conners \ {p}
           /\ p \in Slots <=> from # "free"
           /\ p \in Conners <=> from = "conn"
<1>1. /\ Stage[p] = from
      /\ \A q \in Procs : Stage'[q] = IF q = p THEN to ELSE Stage[q]
  BY DEF A!Becomes, Stage
<1> QED
  BY <1>1 DEF Slots, Conners

\* The allocator's steps keep the two counts, of tokens and of connections.
LEMMA CountsStep == TypeInv /\ Placement /\ Counts /\ [A!Next]_(A!vars) => Counts'
<1> SUFFICES ASSUME TypeInv, Placement, Counts, [A!Next]_(A!vars) PROVE Counts'
  OBVIOUS
<1>1. /\ IsFiniteSet(Slots) /\ IsFiniteSet(Conners) /\ IsFiniteSet(live)
      /\ Cardinality(Slots) \in Nat /\ Cardinality(Conners) \in Nat
      /\ Cardinality(live) \in Nat
  BY Finite, FS_CardinalityType
<1>2. idle \in Seq(Conns) /\ Len(idle) \in Nat /\ openSem \in Int
      /\ \A p \in Procs : conn[p] \in Conns \cup {NoConn}
  BY DEF TypeInv, DataOK
<1>3. CASE UNCHANGED A!vars
  BY <1>3 DEF A!vars, Counts, Slots, Conners
<1>4. ASSUME NEW p \in Procs, A!Reserve(p)
      PROVE  Counts'
  <2>1. Slots' = Slots \cup {p} /\ p \notin Slots /\ Conners' = Conners
    BY <1>4, StageSets DEF A!Reserve
  <2>2. Cardinality(Slots') = Cardinality(Slots) + 1
    BY <1>1, <2>1, FS_AddElement
  <2> QED
    BY <1>1, <1>2, <1>4, <2>1, <2>2 DEF A!Reserve, Counts
<1>5. ASSUME NEW p \in Procs, A!Open(p)
      PROVE  Counts'
  <2>1. Slots' = Slots /\ Conners' = Conners \cup {p} /\ p \notin Conners
    BY <1>5, StageSets DEF A!Open
  <2>2. PICK c \in Conns \ live : live' = live \cup {c}
    BY <1>5 DEF A!Open
  <2>3. /\ Cardinality(Conners') = Cardinality(Conners) + 1
        /\ Cardinality(live') = Cardinality(live) + 1
    BY <1>1, <2>1, <2>2, FS_AddElement
  <2> QED
    BY <1>1, <1>2, <1>5, <2>1, <2>3 DEF A!Open, Counts
<1>6. ASSUME NEW p \in Procs, A!Take(p)
      PROVE  Counts'
  <2>1. /\ Slots' = Slots \cup {p} /\ p \notin Slots
        /\ Conners' = Conners \cup {p} /\ p \notin Conners
    BY <1>6, StageSets DEF A!Take
  <2>2. Len(idle') = Len(idle) - 1
    BY <1>2, <1>6, TailFacts DEF A!Take
  <2>3. /\ Cardinality(Slots') = Cardinality(Slots) + 1
        /\ Cardinality(Conners') = Cardinality(Conners) + 1
    BY <1>1, <2>1, FS_AddElement
  <2> QED
    BY <1>1, <1>2, <1>6, <2>2, <2>3 DEF A!Take, Counts
<1>7. ASSUME NEW p \in Procs, A!Return(p)
      PROVE  Counts'
  <2>0. A!Becomes(p, "conn", "free")
    BY <1>7 DEF A!Return
  <2>1. /\ Slots' = Slots \ {p} /\ p \in Slots
        /\ Conners' = Conners \ {p} /\ p \in Conners
    BY <2>0, StageSets
  <2>2. conn[p] \in live /\ live \subseteq Conns
    BY <2>1 DEF Placement, TypeInv, DataOK
  <2>3. Len(idle') = Len(idle) + 1
    BY <1>2, <1>7, <2>2, AppendFacts DEF A!Return
  <2>4. /\ Cardinality(Slots') = Cardinality(Slots) - 1
        /\ Cardinality(Conners') = Cardinality(Conners) - 1
    BY <1>1, <2>1, FS_RemoveElement
  <2> QED
    BY <1>1, <1>2, <1>7, <2>3, <2>4 DEF A!Return, Counts
<1>8. ASSUME NEW p \in Procs, A!Shut(p)
      PROVE  Counts'
  <2>1. Slots' = Slots /\ Conners' = Conners \ {p} /\ p \in Conners
    BY <1>8, StageSets DEF A!Shut
  <2>2. conn[p] \in live
    BY <2>1 DEF Placement
  <2>3. /\ Cardinality(Conners') = Cardinality(Conners) - 1
        /\ Cardinality(live \ {conn[p]}) = Cardinality(live) - 1
    BY <1>1, <2>1, <2>2, FS_RemoveElement
  <2> QED
    BY <1>1, <1>2, <1>8, <2>1, <2>3 DEF A!Shut, Counts
<1>9. ASSUME NEW p \in Procs, A!Free(p)
      PROVE  Counts'
  <2>1. Slots' = Slots \ {p} /\ p \in Slots /\ Conners' = Conners
    BY <1>9, StageSets DEF A!Free
  <2>2. Cardinality(Slots') = Cardinality(Slots) - 1
    BY <1>1, <2>1, FS_RemoveElement
  <2> QED
    BY <1>1, <1>2, <1>9, <2>1, <2>2 DEF A!Free, Counts
<1> QED
  BY <1>3, <1>4, <1>5, <1>6, <1>7, <1>8, <1>9 DEF A!Next

\* The allocator's steps keep every connection in one place.
LEMMA PlacementStep == TypeInv /\ Placement /\ [A!Next]_(A!vars) => Placement'
<1> SUFFICES ASSUME TypeInv, Placement, [A!Next]_(A!vars) PROVE Placement'
  OBVIOUS
<1>1. /\ idle \in Seq(Conns) /\ Len(idle) \in Nat
      /\ conn \in [Procs -> Conns \cup {NoConn}]
      /\ live \subseteq Conns
      /\ Conners \subseteq Procs
  BY DEF TypeInv, DataOK, Conners
<1>2. CASE UNCHANGED A!vars
  BY <1>2 DEF A!vars, Placement, Conners
<1>3. ASSUME NEW p \in Procs, A!Reserve(p) \/ A!Free(p)
      PROVE  Placement'
  <2>1. Conners' = Conners
    BY <1>3, StageSets DEF A!Reserve, A!Free
  <2> QED
    BY <1>3, <2>1 DEF A!Reserve, A!Free, Placement
<1>4. ASSUME NEW p \in Procs, A!Open(p)
      PROVE  Placement'
  <2>1. Conners' = Conners \cup {p} /\ p \notin Conners
    BY <1>4, StageSets DEF A!Open
  <2>2. PICK c \in Conns \ live : live' = live \cup {c} /\ conn' = [conn EXCEPT ![p] = c]
    BY <1>4 DEF A!Open
  <2>3. \A q \in Procs : conn'[q] = IF q = p THEN c ELSE conn[q]
    BY <1>1, <2>2
  <2> QED
    BY <1>1, <1>4, <2>1, <2>2, <2>3 DEF A!Open, Placement
<1>5. ASSUME NEW p \in Procs, A!Take(p)
      PROVE  Placement'
  <2>1. Conners' = Conners \cup {p} /\ p \notin Conners
    BY <1>5, StageSets DEF A!Take
  <2>2. /\ Len(idle) \in Nat \ {0} /\ Len(idle') = Len(idle) - 1
        /\ \A i \in 1..Len(idle') : idle'[i] = idle[i + 1]
        /\ \A q \in Procs : conn'[q] = IF q = p THEN idle[1] ELSE conn[q]
        /\ live' = live
    BY <1>1, <1>5, TailFacts DEF A!Take
  <2>3. \A i \in 1..Len(idle') : i + 1 \in 1..Len(idle) /\ i + 1 # 1
    BY <2>2
  <2>4. 1 \in 1..Len(idle)
    BY <2>2
  <2>5. /\ \A i \in 1..Len(idle') : idle'[i] \in live'
        /\ \A i, j \in 1..Len(idle') : idle'[i] = idle'[j] => i = j
    <3>1. \A i \in 1..Len(idle') : idle'[i] \in live'
      BY <2>2, <2>3 DEF Placement
    <3>2. ASSUME NEW i \in 1..Len(idle'), NEW j \in 1..Len(idle'), idle'[i] = idle'[j]
          PROVE  i = j
      <4>1. idle[i + 1] = idle[j + 1]
        BY <2>2, <3>2
      <4>2. i + 1 = j + 1
        BY <2>3, <4>1 DEF Placement
      <4> QED
        BY <2>2, <4>2
    <3> QED
      BY <3>1, <3>2
  <2>6. /\ \A q \in Conners' : conn'[q] \in live'
        /\ \A q \in Conners', i \in 1..Len(idle') : conn'[q] # idle'[i]
        /\ \A q, r \in Conners' : conn'[q] = conn'[r] => q = r
    BY <1>1, <2>1, <2>2, <2>3, <2>4 DEF Placement
  <2>7. ASSUME NEW c \in live'
        PROVE  \/ \E i \in 1..Len(idle') : idle'[i] = c
               \/ \E q \in Conners' : conn'[q] = c
    <3>1. CASE \E q \in Conners : conn[q] = c
      BY <1>1, <2>1, <2>2, <3>1
    <3>2. CASE \E i \in 1..Len(idle) : idle[i] = c
      <4>1. PICK i \in 1..Len(idle) : idle[i] = c
        BY <3>2
      <4>2. CASE i = 1
        BY <1>5, <2>1, <2>2, <4>1, <4>2
      <4>3. CASE i # 1
        <5>1. i - 1 \in 1..Len(idle') /\ (i - 1) + 1 = i
          BY <2>2, <4>3
        <5> QED
          BY <2>2, <4>1, <5>1
      <4> QED
        BY <4>2, <4>3
    <3> QED
      BY <2>2, <2>7, <3>1, <3>2 DEF Placement
  <2> QED
    BY <2>5, <2>6, <2>7 DEF Placement
<1>6. ASSUME NEW p \in Procs, A!Return(p)
      PROVE  Placement'
  <2>1. Conners' = Conners \ {p} /\ p \in Conners
    BY <1>6, StageSets DEF A!Return
  <2>2. conn[p] \in live /\ conn[p] \in Conns
    BY <1>1, <2>1 DEF Placement
  <2>3. /\ Len(idle') = Len(idle) + 1
        /\ \A i \in 1..Len(idle) : idle'[i] = idle[i]
        /\ idle'[Len(idle) + 1] = conn[p]
        /\ \A q \in Conners' : conn'[q] = conn[q]
        /\ live' = live
    BY <1>1, <1>6, <2>1, <2>2, AppendFacts DEF A!Return
  <2>4. \A i \in 1..Len(idle') : i \in 1..Len(idle) \/ i = Len(idle) + 1
    BY <1>1, <2>3
  <2>5. Len(idle) + 1 \in 1..Len(idle') /\ 1..Len(idle) \subseteq 1..Len(idle')
    BY <1>1, <2>3
  <2>6. /\ \A i \in 1..Len(idle') : idle'[i] \in live'
        /\ \A i, j \in 1..Len(idle') : idle'[i] = idle'[j] => i = j
    BY <2>1, <2>2, <2>3, <2>4 DEF Placement
  <2>7. /\ \A q \in Conners' : conn'[q] \in live'
        /\ \A q \in Conners', i \in 1..Len(idle') : conn'[q] # idle'[i]
        /\ \A q, r \in Conners' : conn'[q] = conn'[r] => q = r
    BY <2>1, <2>3, <2>4 DEF Placement
  <2>8. ASSUME NEW c \in live'
        PROVE  \/ \E i \in 1..Len(idle') : idle'[i] = c
               \/ \E q \in Conners' : conn'[q] = c
    BY <2>1, <2>3, <2>5, <2>8 DEF Placement
  <2> QED
    BY <2>6, <2>7, <2>8 DEF Placement
<1>7. ASSUME NEW p \in Procs, A!Shut(p)
      PROVE  Placement'
  <2>1. Conners' = Conners \ {p} /\ p \in Conners
    BY <1>7, StageSets DEF A!Shut
  <2>2. /\ idle' = idle
        /\ live' = live \ {conn[p]}
        /\ \A q \in Conners' : conn'[q] = conn[q]
    BY <1>1, <1>7, <2>1 DEF A!Shut
  <2> QED
    BY <2>1, <2>2 DEF Placement
<1> QED
  BY <1>2, <1>3, <1>4, <1>5, <1>6, <1>7 DEF A!Next

-----------------------------------------------------------------------------
(* The invariants of the pool *)

\* The inductive invariant holds of a pool just made ...
LEMMA IInvInit == Init => IInv
<1> SUFFICES ASSUME Init PROVE IInv
  OBVIOUS
<1>1. TypeInv
  BY TypeInit
<1>2. \A p \in Procs : Stage[p] = "free"
  BY DEF Init, Stage, StageOf, ConnLabels, TokenLabels
<1>3. Slots = {} /\ Conners = {}
  BY <1>2 DEF Slots, Conners
<1>4. Placement
  BY <1>3 DEF Placement, Init
<1>5. Counts
  BY <1>3, FS_EmptySet DEF Counts, Init
<1> QED
  BY <1>1, <1>4, <1>5 DEF IInv

\* ... and is kept by every step of the code.
LEMMA IInvAlways == Spec => []IInv
<1>1. IInv /\ [Next]_vars => IInv'
  BY TypeStep, AllocatorStep, PlacementStep, CountsStep DEF IInv
<1> QED
  BY IInvInit, <1>1, PTL DEF Spec

\* The tokens are exactly those of the parked connections and of the
\* goroutines at work: a slot of the pool is neither lost nor freed twice.
THEOREM TokensAccounted == Spec => []TokenAccounting
<1>1. IInv => TokenAccounting
  BY SlotsAreHolders DEF IInv, Counts, TokenAccounting
<1> QED
  BY IInvAlways, <1>1, PTL

\* No two sessions ever talk over one connection, and a connection in use is
\* not parked at the same time.
THEOREM OwnershipExclusive == Spec => []ExclusiveOwnership
<1>1. IInv => ExclusiveOwnership
  BY SlotsAreHolders DEF IInv, Placement, ExclusiveOwnership, Parked
<1> QED
  BY IInvAlways, <1>1, PTL

\* No open connection is forgotten by every goroutine.
THEOREM NoConnectionLost == Spec => []NoLostConnection
<1>1. IInv => NoLostConnection
  BY SlotsAreHolders DEF IInv, Placement, NoLostConnection, Parked
<1> QED
  BY IInvAlways, <1>1, PTL

\* The connections open towards the backend never exceed max_open.
THEOREM CapHolds == Spec => []CapRespected
<1>1. IInv => CapRespected
  <2> SUFFICES ASSUME IInv PROVE CapRespected
    OBVIOUS
  <2>1. Conners \subseteq Slots
    BY DEF Conners, Slots
  <2>2. /\ Cardinality(Conners) <= Cardinality(Slots)
        /\ Cardinality(Conners) \in Nat /\ Cardinality(Slots) \in Nat
    BY <2>1, Finite, FS_Subset, FS_CardinalityType DEF IInv
  <2>3. openSem \in 0..MaxOpen /\ Len(idle) \in Nat /\ MaxOpen \in Nat
    BY CapAssumption DEF IInv, TypeInv, DataOK
  <2> QED
    BY <2>2, <2>3 DEF IInv, Counts, CapRespected
<1> QED
  BY IInvAlways, <1>1, PTL

-----------------------------------------------------------------------------
(* The circuit breaker *)

\* Whatever else the pool does, the breaker moves in one of five ways, or only
\* stop is closed.
BreakerMoves ==
    \/ UNCHANGED <<breakerOpen, probes, stop>>
    \/ UNCHANGED <<breakerOpen, probes>> /\ stop' = TRUE
    \/ /\ breakerOpen' = TRUE /\ UNCHANGED stop
       /\ IF breakerOpen THEN UNCHANGED probes
          ELSE probes' = [probes EXCEPT !.tick = @ + 1]
    \/ /\ UNCHANGED <<breakerOpen, stop>> /\ probes.tick > 0
       /\ probes' = [tick |-> probes.tick - 1, store |-> probes.store + 1]
    \/ /\ breakerOpen' = FALSE /\ UNCHANGED stop /\ probes.store > 0
       /\ probes' = [probes EXCEPT !.store = @ - 1]
    \/ /\ UNCHANGED <<breakerOpen, stop>> /\ stop /\ probes.tick > 0
       /\ probes' = [probes EXCEPT !.tick = @ - 1]

\* Only a failed dial opens the breaker, only the probe closes it, and no other
\* code of pool.go writes breakerOpen.
LEMMA BreakerStep == [Next]_vars => BreakerMoves
<1> SUFFICES ASSUME [Next]_vars PROVE BreakerMoves
  OBVIOUS
<1> USE DEF breakerVars, closeVars, envVars
<1>1. ASSUME NEW p, DialStep(p)
      PROVE  BreakerMoves
  BY <1>1 DEF DialStep, DialOK, DialFails, CountFailure, Trip, BreakerMoves
<1>2. ASSUME NEW w, AcquireStep(w) \/ ReturnStep(w) \/ DiscardStep(w) \/ BorrowerCall(w)
      PROVE  UNCHANGED <<breakerOpen, probes, stop>>
  BY <1>2 DEF AcquireStep, AcquireIdle, AcquireNoIdle, AcquireToken,
              AcquireSaturated, AcquireTimeout, Revive, ReturnStep, ResetConn,
              TrimIdle, Park, DiscardStep, CloseConn, ReleaseToken, BorrowerCall,
              AcquireRefused, AcquireStart, Release, ReleaseClean, Discard, vars
<1>3. ASSUME KeepaliveStep \/ ClockStep \/ EnvStep \/ PrewarmToken \/ PrewarmDone
             \/ CloseStart \/ CloseTake \/ CloseDone \/ UNCHANGED vars
      PROVE  UNCHANGED <<breakerOpen, probes, stop>>
  BY <1>3, <1>2 DEF KeepaliveStep, KeepaliveTick, KeepaliveStop, KeepaliveTake,
              KeepaliveScanned, KeepaliveCheck, KeepalivePush, ClockStep,
              PingIntervalPasses, LifetimePasses, EnvStep, BackendFails,
              BackendRecovers, ConnectionDies, PrewarmToken, PrewarmDone,
              CloseStart, CloseTake, CloseDone, vars
<1>4. ASSUME ProbeStep \/ CloseStop
      PROVE  BreakerMoves
  BY <1>4 DEF ProbeStep, ProbeReaches, ProbeCloses, ProbeStopped, CloseStop,
              BreakerMoves
<1> QED
  BY <1>1, <1>2, <1>3, <1>4
  DEF Next, BorrowerStep, PrewarmStep, CloseStep, ReturnStep, BreakerMoves

\* Each of those moves keeps one probe per open breaker.
LEMMA ProbedStep ==
    ASSUME BreakerProbed, BreakerMoves, probes \in [tick : Nat, store : Nat]
    PROVE  BreakerProbed'
  BY DEF BreakerProbed, BreakerMoves

\* An open breaker always has its one probe, so clients are not refused for
\* ever by a breaker that nobody will close.
THEOREM ProbeRuns == Spec => []BreakerProbed
<1>1. Init => BreakerProbed
  BY DEF Init, BreakerProbed
<1>2. TypeInv /\ BreakerProbed /\ [Next]_vars => BreakerProbed'
  BY BreakerStep, ProbedStep DEF TypeInv, DataOK
<1> QED
  BY TypeInit, TypeStep, <1>1, <1>2, PTL DEF Spec

-----------------------------------------------------------------------------
(* The keepalive scan *)

\* A connection the scan has yet to see is among the first scanLeft parked.
WithinReach == \A c \in unseen :
                  \E i \in 1..Len(idle) : i <= scanLeft /\ idle[i] = c

\* The ways in which the buffer, the scan and what it has yet to see move.
ScanMoves ==
    \/ UNCHANGED <<idle, unseen, scanLeft>>
    \/ \E c \in Conns : idle' = Append(idle, c) /\ UNCHANGED <<unseen, scanLeft>>
    \/ /\ idle # <<>> /\ idle' = Tail(idle) /\ unseen' = unseen \ {Head(idle)}
       /\ scanLeft' = scanLeft \/ (scanLeft > 0 /\ scanLeft' = scanLeft - 1)
    \/ /\ scanLeft' = Len(idle) /\ unseen' = Parked /\ UNCHANGED idle
    \/ /\ scanLeft = 0 \/ idle = <<>>
       /\ scanLeft' = 0 /\ UNCHANGED <<idle, unseen>>

\* Borrowers, prewarm and Close only take from the front and park at the back.
LEMMA ScanStep == TypeInv /\ [Next]_vars => ScanMoves
<1> SUFFICES ASSUME TypeInv, [Next]_vars PROVE ScanMoves
  OBVIOUS
<1> USE DEF tokenVars, loopVars
<1>0. ASSUME NEW p, PopIdle(p), UNCHANGED scanLeft
      PROVE  ScanMoves
  <2>1. idle # <<>> /\ idle' = Tail(idle) /\ unseen' = unseen \ {Head(idle)}
    BY <1>0 DEF PopIdle
  <2>2. scanLeft' = scanLeft
    BY <1>0
  <2> QED
    BY Zenon, <2>1, <2>2 DEF ScanMoves
<1>1. ASSUME NEW p \in Procs, pc[p] \in ConnLabels, NEW l, PushIdle(p, l),
             UNCHANGED scanLeft
      PROVE  ScanMoves
  <2>1. conn[p] \in Conns
    BY <1>1 DEF TypeInv, HandsMatch
  <2> QED
    BY <1>1, <2>1 DEF PushIdle, ScanMoves
<1>2. ASSUME NEW p \in Procs, Park(p)
      PROVE  ScanMoves
  BY <1>1, <1>2 DEF Park, ConnLabels
<1>3. ASSUME NEW p, DialStep(p) \/ DiscardStep(p) \/ BorrowerCall(p) \/ ResetConn(p)
                    \/ TrimIdle(p)
      PROVE  UNCHANGED <<idle, unseen, scanLeft>>
  BY <1>3 DEF DialStep, DialOK, DialFails, CountFailure, Trip, DiscardStep,
              CloseConn, ReleaseToken, BorrowerCall, AcquireRefused, AcquireStart,
              Release, ReleaseClean, Discard, ResetConn, TrimIdle, vars
<1>4. ASSUME NEW p, AcquireStep(p)
      PROVE  ScanMoves
  <2>1. CASE AcquireIdle(p)
    BY <1>0, <2>1 DEF AcquireIdle
  <2>2. CASE ~AcquireIdle(p)
    <3>1. UNCHANGED <<idle, unseen, scanLeft>>
      BY <1>4, <2>2 DEF AcquireStep, AcquireNoIdle, AcquireToken, TakeToken,
                        AcquireSaturated, AcquireTimeout, Revive
    <3> QED
      BY <3>1 DEF ScanMoves
  <2> QED
    BY <2>1, <2>2
<1>5. ASSUME KeepaliveStep
      PROVE  ScanMoves
  <2>1. CASE KeepalivePush
    BY <1>1, <2>1 DEF KeepalivePush, ConnLabels, Procs
  <2>2. CASE KeepaliveTick \/ KeepaliveStop \/ KeepaliveTake \/ KeepaliveScanned
    BY <2>2 DEF KeepaliveTick, KeepaliveStop, KeepaliveTake, KeepaliveScanned,
                PopIdle, ScanMoves
  <2>3. CASE KeepaliveCheck
    BY <2>3 DEF KeepaliveCheck, ScanMoves
  <2> QED
    BY <1>3, <1>5, <2>1, <2>2, <2>3 DEF KeepaliveStep, ScanMoves
<1>6. ASSUME CloseStart \/ CloseStop \/ CloseTake \/ CloseDone \/ PrewarmToken
             \/ PrewarmDone
      PROVE  ScanMoves
  <2>1. CASE CloseTake
    BY <1>0, <2>1 DEF CloseTake
  <2>2. CASE ~CloseTake
    <3>1. UNCHANGED <<idle, unseen, scanLeft>>
      BY <1>6, <2>2 DEF CloseStart, CloseStop, CloseDone, PrewarmToken, TakeToken,
                        PrewarmDone
    <3> QED
      BY <3>1 DEF ScanMoves
  <2> QED
    BY <2>1, <2>2
<1>7. ASSUME ProbeStep \/ ClockStep \/ EnvStep \/ UNCHANGED vars
      PROVE  ScanMoves
  BY <1>7 DEF ProbeStep, ProbeReaches, ProbeCloses, ProbeStopped, ClockStep,
              EnvStep, PingIntervalPasses, LifetimePasses, BackendFails,
              BackendRecovers, ConnectionDies, vars, ScanMoves
<1>8. Workers \subseteq Procs /\ "prewarm" \in Procs
  BY DEF Procs
<1> QED
  BY <1>2, <1>3, <1>4, <1>5, <1>6, <1>7, <1>8
  DEF Next, BorrowerStep, ReturnStep, PrewarmStep, CloseStep, ScanMoves

\* However the buffer moves, what the scan has yet to see stays within reach:
\* taking the front one brings every other one a place nearer.
LEMMA ReachStep ==
    ASSUME idle \in Seq(Conns), scanLeft \in Nat, WithinReach, ScanMoves
    PROVE  WithinReach'
<1>1. CASE \E c \in Conns : idle' = Append(idle, c) /\ UNCHANGED <<unseen, scanLeft>>
  <2>1. PICK c \in Conns : idle' = Append(idle, c) /\ UNCHANGED <<unseen, scanLeft>>
    BY <1>1
  <2>2. \A i \in 1..Len(idle) : i \in 1..Len(idle') /\ idle'[i] = idle[i]
    BY <2>1, AppendFacts
  <2> QED
    BY <2>1, <2>2 DEF WithinReach
<1>2. CASE /\ idle # <<>> /\ idle' = Tail(idle) /\ unseen' = unseen \ {Head(idle)}
           /\ scanLeft' = scanLeft \/ (scanLeft > 0 /\ scanLeft' = scanLeft - 1)
  <2> SUFFICES ASSUME NEW c \in unseen'
               PROVE  \E i \in 1..Len(idle') : i <= scanLeft' /\ idle'[i] = c
    BY DEF WithinReach
  <2>1. PICK i \in 1..Len(idle) : i <= scanLeft /\ idle[i] = c
    BY <1>2 DEF WithinReach
  <2>2. i # 1
    BY <1>2, <2>1, TailFacts
  <2>3. i - 1 \in 1..Len(idle') /\ i - 1 <= scanLeft'
    BY <1>2, <2>1, <2>2, TailFacts
  <2>4. idle'[i - 1] = c
    BY <1>2, <2>1, <2>3, TailFacts
  <2> QED
    BY <2>3, <2>4
<1>3. CASE scanLeft' = Len(idle) /\ unseen' = Parked /\ UNCHANGED idle
  BY <1>3 DEF WithinReach, Parked
<1>4. CASE /\ scanLeft = 0 \/ idle = <<>>
           /\ scanLeft' = 0 /\ UNCHANGED <<idle, unseen>>
  <2>1. unseen = {}
    BY <1>4 DEF WithinReach
  <2> QED
    BY <1>4, <2>1 DEF WithinReach
<1>5. CASE UNCHANGED <<idle, unseen, scanLeft>>
  BY <1>5 DEF WithinReach
<1> QED
  BY <1>1, <1>2, <1>3, <1>4, <1>5 DEF ScanMoves

\* The keepalive loop leaves no parked connection out, whatever the number of
\* borrowers that reorder the buffer while it scans.
THEOREM ScanIsComplete == Spec => []ScanReachesAll
<1>1. Init => WithinReach
  BY DEF Init, WithinReach
<1>2. TypeInv /\ WithinReach /\ [Next]_vars => WithinReach'
  BY ScanStep, ReachStep DEF TypeInv, DataOK
<1>3. WithinReach => ScanReachesAll
  BY DEF WithinReach, ScanReachesAll
<1> QED
  BY TypeInit, TypeStep, <1>1, <1>2, <1>3, PTL DEF Spec
=============================================================================
