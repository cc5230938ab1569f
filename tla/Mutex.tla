------------------------------- MODULE Mutex -------------------------------
(***************************************************************************)
(* What a lock of the kernel promises its callers: at any moment a lock is *)
(* free or owned by one agent, and only the owner gives it back.  Both     *)
(* kinds of xv6 lock are shown to implement this specification: spin locks *)
(* (agents are CPUs, SpinLock.tla) and sleep locks (agents are processes,  *)
(* SleepLock.tla).                                                         *)
(***************************************************************************)
CONSTANTS Agent,    \* who may own a lock
          Lock,     \* the locks
          NoAgent   \* the owner of a free lock

VARIABLE owner

MutexInit == owner = [l \in Lock |-> NoAgent]

Take(a, l) ==
  /\ owner[l] = NoAgent
  /\ owner' = [owner EXCEPT ![l] = a]

Give(a, l) ==
  /\ owner[l] = a
  /\ owner' = [owner EXCEPT ![l] = NoAgent]

MutexNext == \E a \in Agent, l \in Lock : Take(a, l) \/ Give(a, l)

MutexSpec == MutexInit /\ [][MutexNext]_owner
=============================================================================
