------------------------------ MODULE SpinQueue ------------------------------
(***************************************************************************)
(* What osq_lock() and osq_unlock() promise the sleeping locks: of the     *)
(* CPUs that want to spin on a lock at most one is told that it may, the   *)
(* others wait or give up, and the one that may spin passes its turn on    *)
(* when it is done.                                                        *)
(***************************************************************************)
CONSTANTS CPUs,   \* the CPUs that spin
          Locks,  \* the sleeping locks, each with one queue
          None    \* no CPU, no lock

VARIABLES queued, \* the lock whose queue each CPU is in, or None
          turn    \* the CPU, if any, whose turn it is on each lock: a set

vars == <<queued, turn>>

Init ==
    /\ queued = [c \in CPUs |-> None]
    /\ turn = [l \in Locks |-> {}]

Enter(c, l) ==
    /\ queued[c] = None
    /\ queued' = [queued EXCEPT ![c] = l]
    /\ UNCHANGED turn

Take(c, l) ==
    /\ queued[c] = l
    /\ turn[l] = {}
    /\ turn' = [turn EXCEPT ![l] = {c}]
    /\ UNCHANGED queued

GiveUp(c, l) ==
    /\ queued[c] = l
    /\ c \notin turn[l]
    /\ queued' = [queued EXCEPT ![c] = None]
    /\ UNCHANGED turn

Release(c, l) ==
    /\ turn[l] = {c}
    /\ \/ turn' = [turn EXCEPT ![l] = {}]
       \/ \E d \in CPUs \ {c} : queued[d] = l /\ turn' = [turn EXCEPT ![l] = {d}]
    /\ queued' = [queued EXCEPT ![c] = None]

Next == \E c \in CPUs, l \in Locks :
            Enter(c, l) \/ Take(c, l) \/ GiveUp(c, l) \/ Release(c, l)

Spec == Init /\ [][Next]_vars
==============================================================================
