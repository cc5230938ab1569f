------------------------------- MODULE Journal -------------------------------
(***************************************************************************)
(* What a file system promises about crashes, without saying how: the      *)
(* blocks on the disk change all at once, to what the finished operations  *)
(* made of them, and only when no operation is half done.  A crash brings  *)
(* back the blocks of the last commit.  Log.tla implements this.           *)
(***************************************************************************)
CONSTANTS Proc, Block, Val

VARIABLES durable,   \* the blocks as a crash would leave them
          current,   \* the blocks as a reader sees them
          active     \* the processes inside an operation

journalVars == <<durable, current, active>>

JournalInit ==
  /\ durable \in [Block -> Val]
  /\ current = durable
  /\ active = {}

Begin(p) ==
  /\ p \notin active
  /\ active' = active \cup {p}
  /\ UNCHANGED <<durable, current>>

Write(p, b, v) ==
  /\ p \in active
  /\ current' = [current EXCEPT ![b] = v]
  /\ UNCHANGED <<durable, active>>

End(p) ==
  /\ p \in active
  /\ active' = active \ {p}
  /\ UNCHANGED <<durable, current>>

Commit ==
  /\ active = {}
  /\ durable' = current
  /\ UNCHANGED <<current, active>>

Crash ==
  /\ current' = durable
  /\ active' = {}
  /\ UNCHANGED durable

JournalNext ==
  \/ \E p \in Proc : Begin(p) \/ End(p)
  \/ \E p \in Proc, b \in Block, v \in Val : Write(p, b, v)
  \/ Commit
  \/ Crash

JournalSpec == JournalInit /\ [][JournalNext]_journalVars
=============================================================================
