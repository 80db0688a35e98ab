---------------------------- MODULE BlockStore ----------------------------
(* What the buffer cache promises its callers (bio.c, the interface comment *)
(* at its top): one copy of every block, used by one process at a time, that *)
(* only its user changes.                                                   *)
CONSTANTS Procs, NoProc, Blocks, Values
VARIABLES content, holder
svars == <<content, holder>>

Init ==
  /\ content \in [Blocks -> Values]
  /\ holder = [k \in Blocks |-> NoProc]

Get(p, k) ==
  /\ holder[k] = NoProc
  /\ holder' = [holder EXCEPT ![k] = p]
  /\ UNCHANGED content

Put(p, k, v) ==
  /\ holder[k] = p
  /\ content' = [content EXCEPT ![k] = v]
  /\ UNCHANGED holder

Release(p, k) ==
  /\ holder[k] = p
  /\ holder' = [holder EXCEPT ![k] = NoProc]
  /\ UNCHANGED content

Next == \E p \in Procs, k \in Blocks :
          Get(p, k) \/ Release(p, k) \/ (\E v \in Values : Put(p, k, v))

Spec == Init /\ [][Next]_svars
===========================================================================
