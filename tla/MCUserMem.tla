----------------------------- MODULE MCUserMem -----------------------------
\* Small instances of UserMem for TLC.
EXTENDS UserMem

ThreeSlots == 1 .. 3

\* Physical pages are alike: two states that differ only in which page is
\* used for what are explored once.  FramesOwned is part of the view, so that
\* a state with a shared or a lost page is never taken for one without.
Held(s) == <<s.dir # 0, [i \in DOMAIN s.pg |-> mem[s.pg[i]]]>>
UpToFrames ==
  <<Cardinality(free), life, {p \in Procs : kstack[p] # 0},
    [p \in Procs |-> <<Held(pgdir[p]), Held(new[p])>>],
    sz, stack_psize, pc, child, todo, execed, panicked, FramesOwned>>
=============================================================================
