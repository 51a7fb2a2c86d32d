----------------------------- MODULE Allocator -----------------------------
(***************************************************************************)
(* What a pool of backend connections promises: a bounded allocator.       *)
(*                                                                         *)
(* A process has nothing, or one of the MaxOpen slots of the pool, or a    *)
(* slot and the connection that fills it.  A connection that is open is in *)
(* the hands of one process or parked, and takes its slot with it.  There  *)
(* is no waiting, no timeout, no breaker and no clock here; Pool shows     *)
(* what the code adds to these six steps.                                  *)
(***************************************************************************)
EXTENDS Integers, Sequences

CONSTANTS Procs, Conns, NoConn, MaxOpen

VARIABLES openSem,  \* slots in use
          idle,     \* parked connections
          live,     \* connections open towards the backend
          stage,    \* "free", "slot" or "conn" for each process
          conn      \* the connection of each process

vars == <<openSem, idle, live, stage, conn>>

Init ==
    /\ openSem = 0
    /\ idle = <<>>
    /\ live = {}
    /\ stage = [p \in Procs |-> "free"]
    /\ conn = [p \in Procs |-> NoConn]

Becomes(p, from, to) ==
    stage[p] = from /\ stage' = [stage EXCEPT ![p] = to]

\* Take a slot of the pool.
Reserve(p) ==
    /\ Becomes(p, "free", "slot")
    /\ openSem < MaxOpen
    /\ openSem' = openSem + 1
    /\ UNCHANGED <<idle, live, conn>>

\* Fill the slot with a new connection.
Open(p) ==
    /\ Becomes(p, "slot", "conn")
    /\ \E c \in Conns \ live :
          live' = live \cup {c} /\ conn' = [conn EXCEPT ![p] = c]
    /\ UNCHANGED <<openSem, idle>>

\* Take over a parked connection, with its slot.
Take(p) ==
    /\ Becomes(p, "free", "conn")
    /\ idle # <<>>
    /\ conn' = [conn EXCEPT ![p] = Head(idle)]
    /\ idle' = Tail(idle)
    /\ UNCHANGED <<openSem, live>>

\* Park the connection, with its slot.
Return(p) ==
    /\ Becomes(p, "conn", "free")
    /\ idle' = Append(idle, conn[p])
    /\ conn' = [conn EXCEPT ![p] = NoConn]
    /\ UNCHANGED <<openSem, live>>

\* Close the connection, keeping the slot.
Shut(p) ==
    /\ Becomes(p, "conn", "slot")
    /\ live' = live \ {conn[p]}
    /\ conn' = [conn EXCEPT ![p] = NoConn]
    /\ UNCHANGED <<openSem, idle>>

\* Give the slot back.
Free(p) ==
    /\ Becomes(p, "slot", "free")
    /\ openSem' = openSem - 1
    /\ UNCHANGED <<idle, live, conn>>

Next ==
    \E p \in Procs : \/ Reserve(p) \/ Open(p) \/ Take(p)
                     \/ Return(p) \/ Shut(p) \/ Free(p)

Spec == Init /\ [][Next]_vars
=============================================================================
