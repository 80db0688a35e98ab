----------------------------- MODULE AtomicDisk -----------------------------
(***************************************************************************)
(* What the log promises to the file system: disk blocks that the calls    *)
(* between begin_op() and end_op() change in memory, and that reach the    *)
(* disk all at once, only while no call is in the middle of its changes.   *)
(* A crash takes the blocks back to the last such moment.                  *)
(***************************************************************************)
CONSTANTS Threads, Blocks, Values

VARIABLES
  stable,    \* what the blocks hold after a crash
  current,   \* what the file system calls see
  active     \* the threads between begin_op() and end_op()

advars == <<stable, current, active>>

ADInit ==
  /\ stable \in [Blocks -> Values]
  /\ current = stable
  /\ active = {}

Begin(t) ==
  /\ t \notin active
  /\ active' = active \cup {t}
  /\ UNCHANGED <<stable, current>>

Write(t, b, v) ==
  /\ t \in active
  /\ current' = [current EXCEPT ![b] = v]
  /\ UNCHANGED <<stable, active>>

End(t) ==
  /\ t \in active
  /\ active' = active \ {t}
  /\ UNCHANGED <<stable, current>>

Commit ==
  /\ active = {}
  /\ stable' = current
  /\ UNCHANGED <<current, active>>

Crash ==
  /\ current' = stable
  /\ active' = {}
  /\ UNCHANGED stable

ADNext ==
  \/ \E t \in Threads :
       Begin(t) \/ End(t) \/ \E b \in Blocks, v \in Values : Write(t, b, v)
  \/ Commit
  \/ Crash

ADSpec == ADInit /\ [][ADNext]_advars
=============================================================================
