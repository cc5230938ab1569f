---------------------------- MODULE MCBufCache ----------------------------
(***************************************************************************)
(* The block layer: the buffer cache and disk queue with more blocks than  *)
(* buffers, and the log with three processes that compete for its space.   *)
(* The two share no variable here, so a behaviour picks one of them        *)
(* (`sys`) and the other takes no step: each is explored as if alone.      *)
(* Processes and blocks are interchangeable: no operator of BufCache or    *)
(* Log chooses among them.                                                 *)
(***************************************************************************)
EXTENDS BufCache, TLC

CONSTANTS q, NoData, MAXOPBLOCKS, LOGSIZE, nlog

VARIABLES sys
VARIABLES home, head, logblk, cache, ldirty, lh, outstanding, committing, tail, boot, lpc, buf, wrote

\* Operations write one block of the MAXOPBLOCKS they reserve.
L == INSTANCE Log WITH Proc <- Proc \cup {q}, Val <- {0}, OpBlocks <- 1,
                       dirty <- ldirty, pc <- lpc

logVars == <<home, head, logblk, cache, ldirty, lh, outstanding, committing, tail, boot, lpc, buf, wrote>>

BlocksInit ==
  /\ sys \in {"cache", "log"}
  /\ Init /\ (sys = "log" => \A x, y \in Block : disk[x] = disk[y])
  /\ L!Init

Cache == sys = "cache" /\ Next /\ UNCHANGED <<sys, logVars>>
LogSpace == sys = "log" /\ L!Next /\ UNCHANGED <<sys, vars>>

BlocksNext == Cache \/ LogSpace

BlocksSpec == BlocksInit /\ [][BlocksNext]_<<sys, vars, logVars>>

Symmetry == Permutations(Proc) \cup Permutations(Block)
-----------------------------------------------------------------------------
(* Log: begin_op()'s reservation keeps log_write() from its panics and the *)
(* log inside its blocks, and sleepers have somebody to wait for.          *)
LogHolds == L!LogHolds
=============================================================================
