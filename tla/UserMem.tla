------------------------------ MODULE UserMem ------------------------------
(***************************************************************************)
(* The user memory of xv6_lab3: page tables, physical pages, and the       *)
(* stacks that grow downwards from STACKBASE on page faults (vm.c, exec.c, *)
(* kalloc.c, growproc() and fork() of proc.c, the page fault of trap.c).   *)
(*                                                                         *)
(* Addresses and sizes are counted in pages.  An address space is the page *)
(* of its directory (its page tables counted in) and the mapped pages.     *)
(* Each kalloc() is one step, so that calls of several processes compete   *)
(* for the last pages; freeing an address space is one step.  Free pages   *)
(* are all alike, for kfree() fills them with junk, so kalloc() may as     *)
(* well hand out the lowest.                                               *)
(***************************************************************************)
EXTENDS Integers, Sequences, FiniteSets, FiniteSetsExt

CONSTANTS
  Procs,       \* slots of the process table, 1 .. n; the first one boots
  NFRAMES,     \* physical pages for kalloc()
  TOP,         \* KERNBASE / PGSIZE: user pages are 0 .. TOP - 1
  MaxSize,     \* BOUND: pages below which programs keep text, data and heap
  MinSize,     \* pages programs do not give back by sbrk()
  MaxStack     \* BOUND: pages programs use as stack

ASSUME UserMemConstants ==
  /\ 1 \in Procs /\ Procs \subseteq Nat \ {0}
  /\ NFRAMES \in Nat /\ NFRAMES >= 3
  /\ TOP \in Nat /\ MaxSize \in Nat \ {0} /\ MinSize \in Nat /\ MaxStack \in Nat \ {0}
  /\ MaxSize + MaxStack < TOP

Frames == 1 .. NFRAMES
Pages == 0 .. TOP - 1

\* What a page may hold: zeros, kfree()'s junk, a program's data.
Zeros == 0
Junk == 1
Data == 2

NoSpace == [dir |-> 0, pg |-> <<>>]

VARIABLES
  free,          \* kmem.freelist
  mem,           \* what each physical page holds
  life,          \* slot -> "free", "embryo", "live" or "zombie"
  kstack, pgdir, sz, stack_psize,      \* struct proc
  pc, child,     \* slot -> the call it is in; the slot its fork() fills
  new, todo,     \* slot -> the address space it builds; the pages still to come
  execed,        \* history: slot -> 1 since its process called exec()
  panicked

vars == <<free, mem, life, kstack, pgdir, sz, stack_psize, pc, child, new, todo, execed, panicked>>
proc == <<life, kstack, sz, stack_psize, execed>>

\* userinit(): the first process has initcode in page 0 and no stack of its
\* own; the rest of the table is zero.
Init ==
  /\ kstack = [p \in Procs |-> IF p = 1 THEN 1 ELSE 0]
  /\ pgdir = [p \in Procs |-> IF p = 1 THEN [dir |-> 2, pg |-> [i \in {0} |-> 3]] ELSE NoSpace]
  /\ free = Frames \ (1 .. 3)
  /\ mem = [f \in Frames |-> IF f = 3 THEN Data ELSE Junk]
  /\ life = [p \in Procs |-> IF p = 1 THEN "live" ELSE "free"]
  /\ sz = [p \in Procs |-> IF p = 1 THEN 1 ELSE 0]
  /\ stack_psize = [p \in Procs |-> 0]
  /\ pc = [p \in Procs |-> "user"]
  /\ child = [p \in Procs |-> 0]
  /\ new = [p \in Procs |-> NoSpace]
  /\ todo = [p \in Procs |-> <<>>]
  /\ execed = [p \in Procs |-> 0]
  /\ panicked = 0

-----------------------------------------------------------------------------
\* Physical pages and address spaces

Running(p, at) == life[p] = "live" /\ pc[p] = at

\* The first program, initcode.S, does nothing but call exec().
Booted(p) == p = 1 => execed[p] = 1

\* kalloc() hands out page f.
Kalloc(f) == f \in free /\ \A g \in free : f <= g

\* kfree() of the pages S.
Kfree(S) ==
  /\ free' = free \cup S
  /\ mem' = [f \in Frames |-> IF f \in S THEN Junk ELSE mem[f]]

\* The pages freevm(s) frees.
Freevm(s) == ({s.dir} \ {0}) \cup {s.pg[i] : i \in DOMAIN s.pg}

\* mappages() of page i at frame f.
Mapped(s, i, f) == [s EXCEPT !.pg = [j \in DOMAIN @ \cup {i} |-> IF j = i THEN f ELSE @[j]]]

\* deallocuvm(): the pages in S are unmapped.
Unmapped(s, S) == [s EXCEPT !.pg = [j \in DOMAIN @ \ S |-> @[j]]]

\* The pages lo .. hi - 1, in the order the loops of vm.c take them.
PageRange(lo, hi) == [i \in 1 .. hi - lo |-> lo + i - 1]

Panic == panicked' = 1 /\ UNCHANGED <<free, mem, proc, pgdir, pc, child, new, todo>>

\* The call of p is over: what it was building is forgotten.
Leave(p) ==
  /\ pc' = [pc EXCEPT ![p] = "user"]
  /\ child' = [child EXCEPT ![p] = 0]
  /\ new' = [new EXCEPT ![p] = NoSpace]
  /\ todo' = [todo EXCEPT ![p] = <<>>]

\* setupkvm(): the directory of a new address space, then on to `then'.
Setupkvm(p, then, pages) ==
  /\ \E f \in Frames :
       /\ Kalloc(f)
       /\ free' = free \ {f}
       /\ new' = [new EXCEPT ![p] = [NoSpace EXCEPT !.dir = f]]
  /\ pc' = [pc EXCEPT ![p] = then]
  /\ todo' = [todo EXCEPT ![p] = pages]
  /\ UNCHANGED <<mem, proc, pgdir, child, panicked>>

\* One turn of a loop that maps pages in new: page Head(todo), filled with v.
NextPage(p, v) ==
  \E f \in Frames :
    /\ Kalloc(f)
    /\ free' = free \ {f}
    /\ mem' = [mem EXCEPT ![f] = v]
    /\ new' = [new EXCEPT ![p] = Mapped(@, Head(todo[p]), f)]
    /\ todo' = [todo EXCEPT ![p] = Tail(@)]
    /\ UNCHANGED <<proc, pgdir, pc, child, panicked>>

-----------------------------------------------------------------------------
\* fork()

\* allocproc(): the first unused slot and a kernel stack for it.
ForkBegin(p) ==
  /\ Running(p, "user") /\ Booted(p)
  /\ \E np \in Procs, f \in Frames :
       /\ life[np] = "free" /\ \A q \in Procs : life[q] = "free" => np <= q
       /\ Kalloc(f)
       /\ free' = free \ {f}
       /\ kstack' = [kstack EXCEPT ![np] = f]
       /\ life' = [life EXCEPT ![np] = "embryo"]
       /\ child' = [child EXCEPT ![p] = np]
  /\ pc' = [pc EXCEPT ![p] = "fork_kvm"]
  /\ UNCHANGED <<mem, pgdir, sz, stack_psize, new, todo, execed, panicked>>

\* copyuvm() copies the pages below sz, then the stack_psize pages from the top.
PagesToCopy(p) == PageRange(0, sz[p]) \o PageRange(TOP - stack_psize[p], TOP)

ForkKvm(p) == Running(p, "fork_kvm") /\ Setupkvm(p, "fork_copy", PagesToCopy(p))

\* Mutant: the page of the parent is not copied into the new one.
CopyNothing(p, i) == Zeros
CopyOf(p, i) == mem[pgdir[p].pg[i]]

\* The page is there, and not copied yet.
CanCopy(p) == Head(todo[p]) \in DOMAIN pgdir[p].pg \ DOMAIN new[p].pg

ForkCopy(p) ==
  /\ Running(p, "fork_copy") /\ todo[p] # <<>>
  /\ CanCopy(p)
  /\ NextPage(p, CopyOf(p, Head(todo[p])))

\* "copyuvm: page not present", or "remap" when it is copied twice.
ForkPanics(p) ==
  /\ Running(p, "fork_copy") /\ todo[p] # <<>>
  /\ ~CanCopy(p)
  /\ Panic

\* The slot and its kernel stack go back when memory runs out.  Mutant: the
\* kernel stack does not.
FailFreesPages(p) == Freevm(new[p])
FailFrees(p) == Freevm(new[p]) \cup {kstack[child[p]]}

ForkFails(p) ==
  /\ Running(p, "fork_kvm") \/ (Running(p, "fork_copy") /\ todo[p] # <<>>)
  /\ free = {}
  /\ Kfree(FailFrees(p))
  /\ kstack' = [kstack EXCEPT ![child[p]] = 0]
  /\ life' = [life EXCEPT ![child[p]] = "free"]
  /\ Leave(p)
  /\ UNCHANGED <<pgdir, sz, stack_psize, execed, panicked>>

\* The child gets the copy and the size; its stack_psize stays what the slot
\* had before.
ForkDone(p) ==
  /\ Running(p, "fork_copy") /\ todo[p] = <<>>
  /\ pgdir' = [pgdir EXCEPT ![child[p]] = new[p]]
  /\ sz' = [sz EXCEPT ![child[p]] = sz[p]]
  /\ life' = [life EXCEPT ![child[p]] = "live"]
  /\ execed' = [execed EXCEPT ![child[p]] = 0]
  /\ Leave(p)
  /\ UNCHANGED <<free, mem, kstack, stack_psize, panicked>>

-----------------------------------------------------------------------------
\* exec()

\* A program of n pages of text and data, then one page of stack.
ExecKvm(p) ==
  /\ Running(p, "user")
  /\ \E n \in 1 .. MaxSize : Setupkvm(p, "exec", PageRange(0, n) \o <<TOP - 1>>)

ExecLoad(p) == Running(p, "exec") /\ todo[p] # <<>> /\ NextPage(p, Data)

\* Memory runs out, the file is no good, or there are too many arguments:
\* everything built is given back.
ExecFails(p) ==
  /\ Running(p, "exec")
  /\ Kfree(Freevm(new[p]))
  /\ Leave(p)
  /\ UNCHANGED <<proc, pgdir, panicked>>

\* Mutant: stack_psize is left as it was.
CommitStackKept(p) == stack_psize[p]
CommitStack(p) == 1

ExecCommit(p) ==
  /\ Running(p, "exec") /\ todo[p] = <<>>
  /\ pgdir' = [pgdir EXCEPT ![p] = new[p]]
  /\ sz' = [sz EXCEPT ![p] = Cardinality(DOMAIN new[p].pg) - 1]
  /\ stack_psize' = [stack_psize EXCEPT ![p] = CommitStack(p)]
  /\ execed' = [execed EXCEPT ![p] = 1]
  /\ Kfree(Freevm(pgdir[p]))
  /\ Leave(p)
  /\ UNCHANGED <<life, kstack, panicked>>

-----------------------------------------------------------------------------
\* sbrk()

\* growproc(n), n > 0.
GrowBegin(p) ==
  /\ Running(p, "user") /\ Booted(p)
  /\ \E to \in sz[p] + 1 .. MaxSize : todo' = [todo EXCEPT ![p] = PageRange(sz[p], to)]
  /\ pc' = [pc EXCEPT ![p] = "grow"]
  /\ UNCHANGED <<free, mem, proc, pgdir, child, new, panicked>>

\* One turn of the loop of allocuvm().
GrowMap(p) ==
  /\ Running(p, "grow")
  /\ Head(todo[p]) \notin DOMAIN pgdir[p].pg
  /\ \E f \in Frames :
       /\ Kalloc(f)
       /\ free' = free \ {f}
       /\ mem' = [mem EXCEPT ![f] = Zeros]
       /\ pgdir' = [pgdir EXCEPT ![p] = Mapped(@, Head(todo[p]), f)]

GrowPage(p) ==
  /\ GrowMap(p) /\ Len(todo[p]) > 1
  /\ todo' = [todo EXCEPT ![p] = Tail(@)]
  /\ UNCHANGED <<proc, pc, child, new, panicked>>

\* The last turn: growproc() sets the size that allocuvm() returns.
GrowDone(p) ==
  /\ GrowMap(p) /\ Len(todo[p]) = 1
  /\ sz' = [sz EXCEPT ![p] = Head(todo[p]) + 1]
  /\ Leave(p)
  /\ UNCHANGED <<life, kstack, stack_psize, execed, panicked>>

\* mappages() finds a page of the stack in the way: "remap".
GrowPanics(p) ==
  /\ Running(p, "grow") /\ free # {}
  /\ Head(todo[p]) \in DOMAIN pgdir[p].pg
  /\ Panic

\* Mutant: the old size is rounded down.
GrowUndoMore(p) == {i \in DOMAIN pgdir[p].pg : sz[p] - 1 <= i /\ i <= todo[p][Len(todo[p])]}
GrowUndo(p) == {i \in DOMAIN pgdir[p].pg : sz[p] <= i /\ i <= todo[p][Len(todo[p])]}

GrowFails(p) ==
  /\ Running(p, "grow") /\ free = {}
  /\ Kfree({pgdir[p].pg[i] : i \in GrowUndo(p)})
  /\ pgdir' = [pgdir EXCEPT ![p] = Unmapped(@, GrowUndo(p))]
  /\ Leave(p)
  /\ UNCHANGED <<proc, panicked>>

\* growproc(n), n < 0: deallocuvm() returns the new size, and growproc()
\* takes 0 for an error and keeps the old one.
Shrink(p) ==
  /\ Running(p, "user") /\ Booted(p)
  /\ \E to \in MinSize .. sz[p] - 1 :
       LET S == {i \in DOMAIN pgdir[p].pg : to <= i /\ i < sz[p]} IN
       /\ Kfree({pgdir[p].pg[i] : i \in S})
       /\ pgdir' = [pgdir EXCEPT ![p] = Unmapped(@, S)]
       /\ sz' = [sz EXCEPT ![p] = IF to = 0 THEN @ ELSE to]
  /\ UNCHANGED <<life, kstack, stack_psize, pc, child, new, todo, execed, panicked>>

-----------------------------------------------------------------------------
\* Programs

\* The lowest page of the stack that is mapped.
StackBottom(p) == Min({i \in Pages : \A j \in i .. TOP - 1 : j \in DOMAIN pgdir[p].pg} \cup {TOP})

\* A store to a mapped page.
Store(p, i) ==
  /\ Running(p, "user") /\ Booted(p) /\ i \in DOMAIN pgdir[p].pg
  /\ mem' = [mem EXCEPT ![pgdir[p].pg[i]] = Data]
  /\ UNCHANGED <<free, proc, pgdir, pc, child, new, todo, panicked>>

\* The program pushes past the bottom of its stack.  The fault handler
\* counts one more stack page and maps the one its count says, whatever the
\* address was.
Faults(p) == Running(p, "user") /\ Booted(p) /\ TOP - StackBottom(p) < MaxStack

\* The page the handler maps, and whether it can: allocuvm() refuses a page
\* that ends at KERNBASE or, after the count went past address 0, beyond it.
FaultPage(p) == TOP - (stack_psize[p] + 1)
CanGrowStack(p) == FaultPage(p) \in 0 .. TOP - 2 /\ free # {} /\ FaultPage(p) \notin DOMAIN pgdir[p].pg

PageFault(p) ==
  /\ Faults(p) /\ CanGrowStack(p)
  /\ \E f \in Frames :
       /\ Kalloc(f)
       /\ free' = free \ {f}
       /\ mem' = [mem EXCEPT ![f] = Zeros]
       /\ pgdir' = [pgdir EXCEPT ![p] = Mapped(@, FaultPage(p), f)]
  /\ stack_psize' = [stack_psize EXCEPT ![p] = @ + 1]
  /\ UNCHANGED <<life, kstack, sz, pc, child, new, todo, execed, panicked>>

\* "stack overflow", or "remap" when the page is there already.
PageFaultPanics(p) == Faults(p) /\ ~CanGrowStack(p) /\ Panic

Exit(p) ==
  /\ Running(p, "user") /\ p # 1
  /\ life' = [life EXCEPT ![p] = "zombie"]
  /\ UNCHANGED <<free, mem, kstack, pgdir, sz, stack_psize, pc, child, new, todo, execed, panicked>>

\* wait(): the memory of a zombie is freed; the slot keeps sz and stack_psize.
Reap(q) ==
  /\ life[q] = "zombie"
  /\ Kfree(Freevm(pgdir[q]) \cup {kstack[q]})
  /\ kstack' = [kstack EXCEPT ![q] = 0]
  /\ pgdir' = [pgdir EXCEPT ![q] = NoSpace]
  /\ life' = [life EXCEPT ![q] = "free"]
  /\ UNCHANGED <<sz, stack_psize, pc, child, new, todo, execed, panicked>>

-----------------------------------------------------------------------------
Step(p) ==
  \/ ForkBegin(p) \/ ForkKvm(p) \/ ForkCopy(p) \/ ForkPanics(p) \/ ForkFails(p) \/ ForkDone(p)
  \/ ExecKvm(p) \/ ExecLoad(p) \/ ExecFails(p) \/ ExecCommit(p)
  \/ GrowBegin(p) \/ GrowPage(p) \/ GrowPanics(p) \/ GrowFails(p) \/ GrowDone(p) \/ Shrink(p)
  \/ PageFault(p) \/ PageFaultPanics(p) \/ Exit(p) \/ Reap(p)
  \/ \E i \in Pages : Store(p, i)

Next ==
  \/ panicked = 0 /\ \E p \in Procs : Step(p)
  \/ panicked = 1 /\ UNCHANGED vars      \* panic() loops forever

Spec == Init /\ [][Next]_vars

-----------------------------------------------------------------------------
\* Properties

Spaces == [dir : 0 .. NFRAMES, pg : UNION {[D -> Frames] : D \in SUBSET Pages}]
PCs == {"user", "fork_kvm", "fork_copy", "exec", "grow"}

\* Every variable has its type.
TypeOK ==
  /\ free \subseteq Frames
  /\ mem \in [Frames -> {Zeros, Junk, Data}]
  /\ life \in [Procs -> {"free", "embryo", "live", "zombie"}]
  /\ kstack \in [Procs -> 0 .. NFRAMES]
  /\ pgdir \in [Procs -> Spaces] /\ new \in [Procs -> Spaces]
  /\ sz \in [Procs -> 0 .. MaxSize]
  /\ stack_psize \in [Procs -> Nat]
  /\ pc \in [Procs -> PCs]
  /\ child \in [Procs -> Procs \cup {0}]
  /\ todo \in [Procs -> Seq(Int)]
  /\ execed \in [Procs -> {0, 1}]
  /\ panicked \in {0, 1}

\* Where a physical page is used: as a kernel stack, a directory or a mapped
\* page of a process or of an address space being built.
Uses(f) ==
  {<<"kstack", p>> : p \in {q \in Procs : kstack[q] = f}}
  \cup {<<"dir", p>> : p \in {q \in Procs : pgdir[q].dir = f}}
  \cup {<<"newdir", p>> : p \in {q \in Procs : new[q].dir = f}}
  \cup (UNION {{<<"page", p, i>> : i \in {j \in DOMAIN pgdir[p].pg : pgdir[p].pg[j] = f}} : p \in Procs})
  \cup (UNION {{<<"newpage", p, i>> : i \in {j \in DOMAIN new[p].pg : new[p].pg[j] = f}} : p \in Procs})

\* Every physical page is free or in exactly one use, whichever calls fail
\* for lack of memory in the middle: none is lost, none is freed while in
\* use, and no two processes share one.
FramesOwned ==
  \A f \in Frames : IF f \in free THEN Uses(f) = {} ELSE Cardinality(Uses(f)) = 1

\* The stack_psize of a process that has called exec() is the number of its
\* stack pages, so the page fault handler maps the next page below the stack,
\* and outside sbrk() it has exactly the pages below sz and the stack.
StackCounted ==
  \A p \in Procs : life[p] = "live" /\ execed[p] = 1 /\ pc[p] # "grow" =>
    DOMAIN pgdir[p].pg = (0 .. sz[p] - 1) \cup (TOP - stack_psize[p] .. TOP - 1)

\* What page i of process p holds now, and after the step.
Holds(p, i) == mem[pgdir[p].pg[i]]

\* The memory of a process changes by its own stores only: the calls of other
\* processes, also those that fail, and its own sbrk() and page faults leave
\* every page it keeps alone, and it keeps every page it does not give back.
MemoryKept ==
  [][\A p \in Procs :
       life[p] = "live" /\ life'[p] = "live" /\ pgdir'[p].dir = pgdir[p].dir =>
         \A i \in DOMAIN pgdir[p].pg :
           \/ i \in DOMAIN pgdir'[p].pg /\ Holds(p, i)' = Holds(p, i)
           \/ Store(p, i)
           \/ i >= sz'[p] /\ i < MaxSize]_vars

\* The child of p that this step makes runnable has p's pages with p's data.
IsCopy(p, np) ==
  /\ DOMAIN pgdir'[np].pg = DOMAIN pgdir[p].pg
  /\ \A i \in DOMAIN pgdir[p].pg : Holds(np, i)' = Holds(p, i)

Born(p, np) == child[p] = np /\ life[np] = "embryo" /\ life'[np] = "live"

\* fork() in a process that has called exec() gives the child a complete copy
\* of the memory, stack included, although other processes take and free
\* pages while it is made.
ForkAfterExecCopies ==
  [][\A p, np \in Procs : Born(p, np) /\ execed[p] = 1 => IsCopy(p, np)]_vars

\* copyuvm(): "Given a parent process's page table, create a copy of it for a
\* child."
ForkCopies ==
  [][\A p, np \in Procs : Born(p, np) => IsCopy(p, np)]_vars

-----------------------------------------------------------------------------
\* The inductive invariant of UserMemProofs

\* The physical page at place i of an address space: its directory at -1, its
\* mapped pages; 0 when there is none.
Slot(s, i) == IF i = -1 THEN s.dir ELSE IF i \in DOMAIN s.pg THEN s.pg[i] ELSE 0

\* The physical page at each place where a process can hold one.
Kinds == {"kstack", "pgdir", "new"}
Places == -1 .. TOP - 1
At(k, p, i) ==
  CASE k = "kstack" -> IF i = -1 THEN kstack[p] ELSE 0
    [] k = "pgdir" -> Slot(pgdir[p], i)
    [] k = "new" -> Slot(new[p], i)

\* Two places hold different pages, none of them free, and every page that
\* is not free is somewhere.
Owned ==
  /\ \A k, l \in Kinds, p, q \in Procs, i, j \in Places :
       At(k, p, i) # 0 /\ At(k, p, i) = At(l, q, j) => k = l /\ p = q /\ i = j
  /\ \A k \in Kinds, p \in Procs, i \in Places : At(k, p, i) # 0 => At(k, p, i) \in Frames \ free
  /\ \A f \in Frames \ free : \E k \in Kinds, p \in Procs, i \in Places : At(k, p, i) = f

\* What the slots hold in each state of their process, and what the calls
\* under way are building.
LifeInv ==
  /\ \A p \in Procs :
       /\ life[p] = "free" <=> kstack[p] = 0
       /\ life[p] \in {"free", "embryo"} => pgdir[p] = NoSpace
       /\ life[p] \in {"live", "zombie"} => pgdir[p].dir # 0
       /\ pc[p] # "user" => life[p] = "live"
       /\ pc[p] \in {"fork_copy", "exec"} => new[p].dir # 0
       /\ pc[p] \notin {"fork_copy", "exec"} => new[p] = NoSpace
       /\ pc[p] \in {"fork_kvm", "fork_copy"} => child[p] \in Procs /\ life[child[p]] = "embryo"
       /\ pc[p] \notin {"fork_kvm", "fork_copy"} => child[p] = 0
  /\ \A p, q \in Procs : child[p] = child[q] /\ child[p] # 0 => p = q

\* exec() has mapped the pages below h of a program of n pages, or all of
\* them and the stack.
Loading(p, h, n) ==
  /\ Len(todo[p]) = n - h + 1
  /\ \A i \in 1 .. n - h : todo[p][i] = h + i - 1
  /\ todo[p][n - h + 1] = TOP - 1
  /\ DOMAIN new[p].pg = 0 .. h - 1

Loaded(p, n) == todo[p] = <<>> /\ DOMAIN new[p].pg = (0 .. n - 1) \cup {TOP - 1}

\* sbrk() has still to map the pages h .. to - 1.
Growing(p, h, to) ==
  /\ Len(todo[p]) = to - h
  /\ \A i \in 1 .. to - h : todo[p][i] = h + i - 1

TodoInv ==
  \A p \in Procs :
    /\ pc[p] = "exec" =>
         \E n \in 1 .. MaxSize : Loaded(p, n) \/ \E h \in 0 .. n : Loading(p, h, n)
    /\ pc[p] = "grow" => \E to \in 1 .. MaxSize : \E h \in sz[p] .. to - 1 : Growing(p, h, to)

\* The pages of a process that has called exec(), when it has h pages of
\* text, data and heap.
Layout(p, h) == DOMAIN pgdir[p].pg = (0 .. h - 1) \cup (TOP - stack_psize[p] .. TOP - 1)

StackInv ==
  \A p \in Procs : life[p] = "live" /\ execed[p] = 1 =>
    /\ stack_psize[p] \in 1 .. MaxStack
    /\ pc[p] # "grow" => Layout(p, sz[p])
    /\ pc[p] = "grow" => \E to \in 1 .. MaxSize : \E h \in sz[p] .. to - 1 : Growing(p, h, to) /\ Layout(p, h)

\* What copyuvm() has copied is still what the parent has.
CopyInv ==
  \A p \in Procs : pc[p] = "fork_copy" =>
    \A i \in DOMAIN new[p].pg : i \in DOMAIN pgdir[p].pg /\ mem[new[p].pg[i]] = mem[pgdir[p].pg[i]]

\* Every page of the parent is copied or still to come.
ComingInv ==
  \A p \in Procs : pc[p] = "fork_copy" /\ execed[p] = 1 =>
    \A i \in DOMAIN pgdir[p].pg : i \in DOMAIN new[p].pg \/ \E n \in 1 .. Len(todo[p]) : todo[p][n] = i

\* When no program gives back its last page.
KeptInv == MinSize # 0 => StackInv /\ ComingInv

IndInv == TypeOK /\ Owned /\ LifeInv /\ TodoInv /\ CopyInv /\ KeptInv
=============================================================================
