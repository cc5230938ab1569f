----------------------------- MODULE MCSpinLock -----------------------------
(* Two CPUs; tickslock, which the timer handler takes before ptable.lock.   *)
EXTENDS SpinLock

CONSTANTS tickslock, ptable

MCMayNest == {<<tickslock, ptable>>}
=============================================================================
