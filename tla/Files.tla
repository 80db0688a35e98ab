------------------------------- MODULE Files -------------------------------
(***************************************************************************)
(* Open files, inodes, directories and the file system calls of xv6_lab3:  *)
(* fs.c, file.c, sysfile.c, the descriptor half of fork() and exit() in    *)
(* proc.c, and the image mkfs.c writes.                                    *)
(*                                                                         *)
(* Each process runs one system call at a time.  A call is cut where it    *)
(* takes an inode's sleep lock: between two cuts it does not wait, so what *)
(* it does there is one step.  th[p] holds the kernel thread's locals: the *)
(* label it is at, the inode pointers it owns, the iput() calls it has     *)
(* still to make before it goes on, and what the call returned.            *)
(*                                                                         *)
(* An inode's content is a sequence of units: directory slots or values    *)
(* written by write(), BSIZE of them to a block.  begin_op()/end_op() and  *)
(* the blocks' way to the disk are the subject of Log and Buffers.         *)
(*                                                                         *)
(* A step that runs into panic() is not taken: the kernel stops there.     *)
(* That is how a full inode table, inode cache or disk ends a run here.    *)
(*                                                                         *)
(* open() and pipe() take entries of the file table before they look for a *)
(* descriptor and give them back when there is none: that use, during      *)
(* which another call may find the table full, is inside one step here.    *)
(***************************************************************************)
EXTENDS Integers, Sequences, FiniteSets

CONSTANTS NPROC,    \* processes
          NInodes,  \* inodes on the disk, sb.ninodes - 1
          NINODE,   \* entries of the inode cache
          NFILE,    \* entries of the open file table
          NOFILE,   \* descriptors of a process
          NBLOCKS,  \* data blocks
          BSIZE,    \* units in a block
          NDIRECT,  \* direct block addresses of an inode
          MAXFILE,  \* blocks of the longest file
          WMAX,     \* units one transaction of write() takes
          Longer,   \* names longer than DIRSIZ, and what DIRSIZ keeps of them
          Image     \* the files mkfs is given: records of name and data

ASSUME FilesAssumption ==
  /\ {NPROC, NInodes, NINODE, NFILE, NOFILE, BSIZE, NDIRECT, WMAX} \subseteq Nat \ {0}
  /\ NBLOCKS \in Nat
  /\ MAXFILE > NDIRECT
  /\ Len(Image) \in Nat /\ DOMAIN Image = 1..Len(Image) /\ Len(Image) < NInodes
  /\ \A k \in DOMAIN Image : Len(Image[k].data) \in 1..BSIZE
  /\ (Len(Image) + 2) % BSIZE # 0    \* see Mkfs
  /\ \A k \in DOMAIN Image : Image[k].name \in STRING
  /\ \A n \in DOMAIN Longer : Longer[n] \in STRING

VARIABLES inode,    \* dinodes: type, nlink, content, block addresses
          used,     \* the free map: blocks in use
          icache,   \* ref, valid and holder of the sleep lock, per inode
          ftable,   \* the open file table
          proc,     \* state, parent, cwd and ofile of each process
          th        \* the kernel thread of each process

disk == <<inode, used>>
vars == <<inode, used, icache, ftable, proc, th>>

Proc == 1..NPROC
Ino  == 1..NInodes
Blk  == 1..NBLOCKS
Fd   == 0..NOFILE-1
ROOTINO == 1

-----------------------------------------------------------------------------
(* Blocks and contents *)

Slot(n, i) == [name |-> n, inum |-> i]
NoSlot     == Slot("", 0)
NoInode    == [type |-> "free", nlink |-> 0, data |-> <<>>, blks |-> <<>>, ind |-> 0]

Blocks(n) == (n + BSIZE - 1) \div BSIZE

\* balloc(): the kth block free in the map u, in the order the map is scanned.
Balloc(u, k) == LET free == Blk \ u
                IN CHOOSE b \in free : Cardinality({c \in free : c < b}) = k - 1

\* bmap() for every block up to the nb-th of an inode: the blocks it has to
\* allocate, the indirect block first when address NDIRECT is first needed.
Bmap(u, ino, nb) ==
  LET old   == Len(ino.blks)
      needs == nb > NDIRECT /\ ino.ind = 0
      at    == NDIRECT - old + 1
      k     == nb - old + (IF needs THEN 1 ELSE 0)
      new   == [j \in 1..k |-> Balloc(u, j)]
  IN [fits |-> k <= Cardinality(Blk \ u) /\ nb <= MAXFILE,
      k    |-> k,
      ind  |-> IF needs THEN new[at] ELSE ino.ind,
      blks |-> ino.blks \o IF needs
                           THEN SubSeq(new, 1, at - 1) \o SubSeq(new, at + 1, k)
                           ELSE new]

\* writei() of the units us at offset off of an inode, with the free map u.
Writei(u, ino, off, us) ==
  LET len == IF off + Len(us) > Len(ino.data) THEN off + Len(us) ELSE Len(ino.data)
      m   == Bmap(u, ino, IF Blocks(len) > Len(ino.blks) THEN Blocks(len) ELSE Len(ino.blks))
  IN [fits |-> m.fits,
      used |-> IF m.fits THEN u \cup {Balloc(u, j) : j \in 1..m.k} ELSE u,
      ino  |-> IF m.fits
               THEN [ino EXCEPT !.blks = m.blks, !.ind = m.ind,
                                !.data = [j \in 1..len |-> IF j \in off+1..off+Len(us)
                                                           THEN us[j - off] ELSE ino.data[j]]]
               ELSE ino]

\* The blocks an inode's addresses name.
Addrs(ino) == {ino.blks[k] : k \in DOMAIN ino.blks} \cup ({ino.ind} \ {0})

\* itrunc(): the blocks it hands to bfree().  Mutant: not the indirect block.
ItruncData(ino) == {ino.blks[k] : k \in DOMAIN ino.blks}
Itrunc(ino) == Addrs(ino)

-----------------------------------------------------------------------------
(* Directories *)

\* Slots of a directory that hold a name.
Entries(i) == {k \in DOMAIN inode[i].data : inode[i].data[k].inum # 0}

\* dirlookup(): the slot of a name, 0 if there is none.
Find(i, n) == LET hits == {k \in Entries(i) : inode[i].data[k].name = n}
              IN IF hits = {} THEN 0 ELSE CHOOSE k \in hits : \A h \in hits : k <= h
Dirlookup(i, n) == IF Find(i, n) = 0 THEN 0 ELSE inode[i].data[Find(i, n)].inum

\* dirlink() of a name that is not there: the first free slot, or a new one.
Dirlink(u, i, n, inum) ==
  LET free == DOMAIN inode[i].data \ Entries(i)
      off  == IF free = {} THEN Len(inode[i].data)
              ELSE (CHOOSE k \in free : \A h \in free : k <= h) - 1
  IN Writei(u, inode[i], off, <<Slot(n, inum)>>)

Isdirempty(i) == \A k \in Entries(i) : k <= 2

\* skipelem(): a path element, cut to DIRSIZ.
Elem(n) == IF n \in DOMAIN Longer THEN Longer[n] ELSE n

-----------------------------------------------------------------------------
(* The inode cache: each operator is the cache after the call *)

CanIget(i) == \/ icache[i].ref > 0
              \/ Cardinality({j \in Ino : icache[j].ref > 0}) < NINODE
Idup(c, i)     == [c EXCEPT ![i].ref = @ + 1]
Iget(c, i)     == [c EXCEPT ![i] = [ref |-> @.ref + 1, valid |-> @.valid /\ @.ref > 0, lock |-> @.lock]]
Ilock(c, i, p) == [c EXCEPT ![i].lock = p, ![i].valid = TRUE]
Iunlock(c, i)  == [c EXCEPT ![i].lock = 0]
Visit(c, i)    == [c EXCEPT ![i].valid = TRUE]    \* ilock() and iunlock() in one step

\* The inode the next step of p locks, 0 if it locks none.
NextLock(p) ==
  LET t == th[p] IN
  IF t.puts # <<>> THEN IF t.dropping THEN 0 ELSE Head(t.puts)
  ELSE CASE t.pc \in {"namei", "nameiparent"} -> IF t.path = <<>> THEN 0 ELSE t.at
         [] t.pc \in {"open1", "create2", "unlink2", "link1", "linkbad", "chdir1", "exec1"} -> t.ip
         [] t.pc \in {"create1", "unlink1", "link2"} -> t.dp
         [] t.pc \in {"read", "write", "fstat"} -> ftable[t.f].ip
         [] OTHER -> 0

\* p may go on at a label: no iput() is owed, the lock it needs is free, and
\* ilock() does not panic.
At(p, labels) ==
  /\ th[p].pc \in labels
  /\ th[p].puts = <<>>
  /\ NextLock(p) # 0 => icache[NextLock(p)].lock = 0 /\ inode[NextLock(p)].type # "free"

\* iput()'s test for the last reference of an inode without links.  Mutant:
\* other references do not matter.
IsLastAnyRef(i) == icache[i].valid /\ inode[i].nlink = 0
IsLast(i) == icache[i].valid /\ inode[i].nlink = 0 /\ icache[i].ref = 1

\* iput(), first half: under the sleep lock, free an inode that has no links
\* and no other reference.
Iput(p) ==
  LET i    == Head(th[p].puts)
      last == IsLast(i)
  IN /\ th[p].puts # <<>> /\ ~th[p].dropping
     /\ icache[i].lock = 0
     /\ inode' = IF last THEN [inode EXCEPT ![i] = NoInode] ELSE inode
     /\ used' = IF last THEN used \ Itrunc(inode[i]) ELSE used
     /\ icache' = IF last THEN [icache EXCEPT ![i].valid = FALSE] ELSE icache
     /\ th' = [th EXCEPT ![p].dropping = TRUE]
     /\ UNCHANGED <<ftable, proc>>

\* iput(), second half: the sleep lock is released, the reference dropped.
Drop(p) ==
  /\ th[p].puts # <<>> /\ th[p].dropping
  /\ icache' = [icache EXCEPT ![Head(th[p].puts)].ref = @ - 1]
  /\ th' = [th EXCEPT ![p].puts = Tail(@), ![p].dropping = FALSE]
  /\ UNCHANGED <<inode, used, ftable, proc>>

-----------------------------------------------------------------------------
(* Kernel threads: each operator is the thread's locals after it *)

NoCall == [op |-> "none"]
NewThread == [pc |-> "user", call |-> NoCall, at |-> 0, path |-> <<>>, ip |-> 0, dp |-> 0,
              f |-> 0, done |-> 0, puts |-> <<>>, dropping |-> FALSE,
              ret |-> 0, buf |-> <<>>]

\* The call returns v once the iput() calls of puts are made.
Return(t, v, puts) ==
  [NewThread EXCEPT !.ret = v, !.puts = puts, !.buf = t.buf]

Goto(t, l, puts) == [t EXCEPT !.pc = l, !.puts = puts]

\* namex() sets out from the root or from the current directory.
Start(p, path) == IF path # <<>> /\ Head(path) = "/" THEN ROOTINO ELSE proc[p].cwd
Walk(p, t, path, l) ==
  [t EXCEPT !.pc = l, !.at = Start(p, path),
            !.path = IF path # <<>> /\ Head(path) = "/" THEN Tail(path) ELSE path]

\* namei() or nameiparent() returned inode i (0: failed); puts are its iput()s.
Found(t, i, puts) ==
  LET u == [t EXCEPT !.at = 0] IN
  IF t.pc = "namei"
  THEN IF i = 0 THEN Return(u, -1, puts)
       ELSE [Goto(u, CASE t.call.op = "open"  -> "open1"
                       [] t.call.op = "link"  -> "link1"
                       [] t.call.op = "chdir" -> "chdir1"
                       [] t.call.op = "exec"  -> "exec1", puts) EXCEPT !.ip = i]
  ELSE CASE i = 0 /\ t.call.op = "link" -> Goto(u, "linkbad", puts)
         [] i = 0 /\ t.call.op # "link" -> Return(u, -1, puts)
         [] OTHER -> [Goto(u, CASE t.call.op = "link"   -> "link2"
                                [] t.call.op = "unlink" -> "unlink1"
                                [] OTHER                -> "create1", puts)
                        EXCEPT !.dp = i, !.path = <<Elem(Head(t.path))>>]

\* namex() ran out of elements: a parent was asked for and there is none, or
\* the walk has arrived.  Mutant: the inode is not put.
NoElementKept(t) == IF t.pc = "nameiparent" THEN Found(t, 0, <<>>) ELSE Found(t, t.at, <<>>)
NoElement(t) == IF t.pc = "nameiparent" THEN Found(t, 0, <<t.at>>) ELSE Found(t, t.at, <<>>)

\* One turn of namex()'s loop: lock the directory, look the element up, unlock.
Namex(p) ==
  LET t      == th[p]
      d      == t.at
      dir    == inode[d].type = "dir"
      stop   == t.pc = "nameiparent" /\ Len(t.path) = 1
      next   == Dirlookup(d, Elem(Head(t.path)))
  IN /\ At(p, {"namei", "nameiparent"})
     /\ UNCHANGED <<disk, ftable, proc>>
     /\ \/ /\ t.path = <<>>                                 \* no element left
           /\ th' = [th EXCEPT ![p] = NoElement(t)]
           /\ UNCHANGED icache
        \/ /\ t.path # <<>> /\ dir /\ stop                    \* stop one level early
           /\ th' = [th EXCEPT ![p] = Found(t, d, <<>>)]
           /\ icache' = Visit(icache, d)
        \/ /\ t.path # <<>> /\ (dir => ~stop /\ next = 0)     \* no directory, no such name
           /\ th' = [th EXCEPT ![p] = Found(t, 0, <<d>>)]
           /\ icache' = Visit(icache, d)
        \/ /\ t.path # <<>> /\ dir /\ ~stop /\ next # 0 /\ CanIget(next)
           /\ th' = [th EXCEPT ![p].at = next, ![p].path = Tail(@), ![p].puts = <<d>>]
           /\ icache' = Iget(Visit(icache, d), next)

-----------------------------------------------------------------------------
(* Open files *)

NoFile == [ref |-> 0, type |-> "none", ip |-> 0, off |-> 0, r |-> FALSE, w |-> FALSE]

\* filealloc() and fdalloc(): the first free entry, or what says there is none.
FreeFile(ft) == IF \A f \in 1..NFILE : ft[f].ref > 0 THEN 0
                ELSE CHOOSE f \in 1..NFILE : ft[f].ref = 0 /\ \A g \in 1..f-1 : ft[g].ref > 0
FreeFd(of) == IF \A d \in Fd : of[d] # 0 THEN -1
              ELSE CHOOSE d \in Fd : of[d] = 0 /\ \A e \in 0..d-1 : of[e] # 0

\* argfd(): the open file a descriptor stands for, 0 if there is none.
Argfd(p, fd) == IF fd \in Fd THEN proc[p].ofile[fd] ELSE 0

\* fileclose(): the table after it, and the iput() it owes.
Fileclose(ft, f) == [ft EXCEPT ![f] = IF ft[f].ref > 1 THEN [ft[f] EXCEPT !.ref = ft[f].ref - 1] ELSE NoFile]
ClosePuts(f) == IF ftable[f].ref = 1 /\ ftable[f].type = "inode" THEN <<ftable[f].ip>> ELSE <<>>

\* sys_open() from ilock(ip) on, or with ip locked by create().
Open(p) ==
  LET t   == th[p]
      dir == t.pc = "open1" /\ inode[t.ip].type = "dir" /\ t.call.mode # "r"
      f   == FreeFile(ftable)
      fd  == FreeFd(proc[p].ofile)
  IN /\ At(p, {"open1", "open2"})
     /\ icache' = Iunlock(Visit(icache, t.ip), t.ip)
     /\ UNCHANGED <<disk>>
     /\ IF dir \/ f = 0 \/ fd = -1
        THEN /\ th' = [th EXCEPT ![p] = Return(t, -1, <<t.ip>>)]
             /\ UNCHANGED <<ftable, proc>>
        ELSE /\ th' = [th EXCEPT ![p] = Return(t, fd, <<>>)]
             /\ ftable' = [ftable EXCEPT ![f] = [ref |-> 1, type |-> "inode", ip |-> t.ip, off |-> 0,
                                                 r |-> t.call.mode # "w", w |-> t.call.mode # "r"]]
             /\ proc' = [proc EXCEPT ![p].ofile[fd] = f]

\* sys_dup(), sys_close() and a failing argfd().
Dup(p, fd) ==
  LET f == Argfd(p, fd)
      new == FreeFd(proc[p].ofile)
      done == f # 0 /\ new # -1
  IN /\ ftable' = IF done THEN [ftable EXCEPT ![f].ref = @ + 1] ELSE ftable
     /\ proc' = IF done THEN [proc EXCEPT ![p].ofile[new] = f] ELSE proc
     /\ th' = [th EXCEPT ![p] = Return(th[p], IF done THEN new ELSE -1, <<>>)]
     /\ UNCHANGED <<disk, icache>>

Close(p, fd) ==
  LET f == Argfd(p, fd) IN
  /\ ftable' = IF f = 0 THEN ftable ELSE Fileclose(ftable, f)
  /\ proc' = IF f = 0 THEN proc ELSE [proc EXCEPT ![p].ofile[fd] = 0]
  /\ th' = [th EXCEPT ![p] = IF f = 0 THEN Return(th[p], -1, <<>>)
                                      ELSE Return(th[p], 0, ClosePuts(f))]
  /\ UNCHANGED <<disk, icache>>

\* sys_pipe() with pipealloc(): two files and two descriptors, or neither.
\* It also fails when kalloc() has no page for the pipe.
Pipe(p) ==
  LET rf == FreeFile(ftable)
      ft == [ftable EXCEPT ![rf] = [NoFile EXCEPT !.ref = 1, !.type = "pipe", !.r = TRUE]]
      wf == FreeFile(ft)
      of == proc[p].ofile
      fd0 == FreeFd(of)
      of1 == [of EXCEPT ![fd0] = rf]
      fd1 == FreeFd(of1)
      Fits == IF rf = 0 \/ fd0 = -1 THEN FALSE ELSE wf # 0 /\ fd1 # -1
  IN /\ \/ /\ Fits
           /\ ftable' = [ft EXCEPT ![wf] = [NoFile EXCEPT !.ref = 1, !.type = "pipe", !.w = TRUE]]
           /\ proc' = [proc EXCEPT ![p].ofile = [of1 EXCEPT ![fd1] = wf]]
           /\ th' = [th EXCEPT ![p] = Return(th[p], 0, <<>>)]
        \/ /\ th' = [th EXCEPT ![p] = Return(th[p], -1, <<>>)]
           /\ UNCHANGED <<ftable, proc>>
     /\ UNCHANGED <<disk, icache>>

\* sys_read(), sys_write(), sys_fstat() up to the lock: argfd() and the checks
\* of fileread() and filewrite().  A pipe end is the subject of module Pipe.
\* A write of nothing does not enter the loop of filewrite(), nor lock.
FdCall(p, c) ==
  LET f    == Argfd(p, c.fd)
      fail == f = 0 \/ CASE c.op = "read"  -> ~ftable[f].r
                         [] c.op = "write" -> ~ftable[f].w
                         [] OTHER          -> ftable[f].type # "inode"
      none == c.op = "write" /\ Len(c.data) = 0
  IN /\ ~fail => ftable[f].type = "inode"
     /\ th' = [th EXCEPT ![p] = IF fail THEN Return(th[p], -1, <<>>)
                                ELSE IF none THEN Return(th[p], 0, <<>>)
                                ELSE [th[p] EXCEPT !.pc = c.op, !.call = c, !.f = f]]
     /\ UNCHANGED <<disk, icache, ftable, proc>>

\* The shared offset after n units.  Mutant: it stays.
AdvanceNot(off, n) == off
Advance(off, n) == off + n

Min2(a, b) == IF a < b THEN a ELSE b

\* readi(): up to n units from off on.
Readi(ino, off, n) == SubSeq(ino.data, off + 1, Min2(off + n, Len(ino.data)))

\* fileread(): under the inode lock, read from the shared offset and move it.
\* A device no driver is registered for fails.
Read(p) ==
  LET t   == th[p]
      f   == ftable[t.f]
      ino == inode[f.ip]
      got == Readi(ino, f.off, t.call.n)
  IN /\ At(p, {"read"})
     /\ icache' = Visit(icache, f.ip)
     /\ UNCHANGED <<disk, proc>>
     /\ IF ino.type = "dev" \/ f.off > Len(ino.data)
        THEN th' = [th EXCEPT ![p] = Return(t, -1, <<>>)] /\ UNCHANGED ftable
        ELSE /\ th' = [th EXCEPT ![p] = Return([t EXCEPT !.buf = got], Len(got), <<>>)]
             /\ ftable' = [ftable EXCEPT ![t.f].off = Advance(@, Len(got))]

\* One transaction of filewrite(): at most WMAX units, at the shared offset.
Write(p) ==
  LET t    == th[p]
      f    == ftable[t.f]
      ino  == inode[f.ip]
      us   == SubSeq(t.call.data, t.done + 1, Min2(t.done + WMAX, Len(t.call.data)))
      w    == Writei(used, ino, f.off, us)
      fail == ino.type = "dev" \/ f.off > Len(ino.data) \/ f.off + Len(us) > MAXFILE * BSIZE
      done == t.done + Len(us)
  IN /\ At(p, {"write"})
     /\ UNCHANGED proc
     /\ \/ /\ fail
           /\ th' = [th EXCEPT ![p] = Return(t, -1, <<>>)]
           /\ icache' = Visit(icache, f.ip)
           /\ UNCHANGED <<disk, ftable>>
        \/ /\ ~fail /\ w.fits
           /\ inode' = [inode EXCEPT ![f.ip] = w.ino]
           /\ used' = w.used
           /\ icache' = Visit(icache, f.ip)
           /\ ftable' = [ftable EXCEPT ![t.f].off = Advance(@, Len(us))]
           /\ th' = [th EXCEPT ![p] = IF done = Len(t.call.data) THEN Return(t, done, <<>>)
                                      ELSE [t EXCEPT !.done = done]]

\* stati(): the number, links and size of an inode.
Stati(i) == <<i, inode[i].nlink, Len(inode[i].data)>>

\* filestat(): what the inode's fields were under the lock.
Fstat(p) ==
  LET t == th[p]  i == ftable[t.f].ip IN
  /\ At(p, {"fstat"})
  /\ th' = [th EXCEPT ![p] = Return([t EXCEPT !.buf = Stati(i)], 0, <<>>)]
  /\ icache' = Visit(icache, i)
  /\ UNCHANGED <<disk, ftable, proc>>

-----------------------------------------------------------------------------
(* Names: create(), sys_mkdir(), sys_mknod(), sys_unlink(), sys_link(),     *)
(* sys_chdir() and the lookup of exec()                                     *)

TypeOf(op) == CASE op = "mkdir" -> "dir" [] op = "mknod" -> "dev" [] OTHER -> "file"

\* create() with the parent dp: the name exists.
CreateExisting(p) ==
  LET t == th[p]  ip == Dirlookup(t.dp, Head(t.path)) IN
  /\ At(p, {"create1"}) /\ ip # 0
  /\ CanIget(ip)
  /\ icache' = Iget(Visit(icache, t.dp), ip)
  /\ th' = [th EXCEPT ![p] = [Goto(t, "create2", <<t.dp>>) EXCEPT !.ip = ip, !.dp = 0]]
  /\ UNCHANGED <<disk, ftable, proc>>

\* The rest of that branch: only open(O_CREATE) of a file keeps the inode.
CreateKeep(p) ==
  LET t == th[p] IN
  /\ At(p, {"create2"})
  /\ IF t.call.op = "open" /\ inode[t.ip].type = "file"
     THEN /\ th' = [th EXCEPT ![p].pc = "open2"]
          /\ icache' = Ilock(icache, t.ip, p)
     ELSE /\ th' = [th EXCEPT ![p] = Return(t, -1, <<t.ip>>)]
          /\ icache' = Visit(icache, t.ip)
  /\ UNCHANGED <<disk, ftable, proc>>

\* ialloc(): the first free inode.
Ialloc == IF \A i \in Ino : inode[i].type # "free" THEN 0
          ELSE CHOOSE i \in Ino : inode[i].type = "free" /\ \A j \in 1..i-1 : inode[j].type # "free"

\* dp's link count with the ".." of a new directory.  Mutant: not counted.
DotDotUncounted(n, type) == n
DotDot(n, type) == n + (IF type = "dir" THEN 1 ELSE 0)

\* create() of a new name: allocate, initialise, write the dots of a directory
\* and the entry in dp, then unlock and put dp with the new inode locked.
CreateNew(p) ==
  LET t    == th[p]
      dp   == t.dp
      ip   == Ialloc
      type == TypeOf(t.call.op)
      bare == [NoInode EXCEPT !.type = type, !.nlink = 1]
      dots == IF type = "dir" THEN Writei(used, bare, 0, <<Slot(".", ip), Slot("..", dp)>>)
              ELSE [fits |-> TRUE, ino |-> bare, used |-> used]
      ent  == Dirlink(dots.used, dp, Head(t.path), ip)
  IN /\ At(p, {"create1"}) /\ Dirlookup(dp, Head(t.path)) = 0
     /\ ip # 0 /\ CanIget(ip) /\ dots.fits /\ ent.fits
     /\ icache[ip].lock = 0
     /\ inode' = [inode EXCEPT ![ip] = dots.ino,
                               ![dp] = [ent.ino EXCEPT !.nlink = DotDot(@, type)]]
     /\ used' = ent.used
     /\ icache' = Ilock(Iget(Visit(icache, dp), ip), ip, p)
     /\ th' = [th EXCEPT ![p] = [Goto(t, IF t.call.op = "open" THEN "open2" ELSE "made", <<dp>>)
                                   EXCEPT !.ip = ip, !.dp = 0]]
     /\ UNCHANGED <<ftable, proc>>

\* sys_mkdir() and sys_mknod() after create().
Made(p) ==
  LET t == th[p] IN
  /\ At(p, {"made"})
  /\ icache' = Iunlock(icache, t.ip)
  /\ th' = [th EXCEPT ![p] = Return(t, 0, <<t.ip>>)]
  /\ UNCHANGED <<disk, ftable, proc>>

\* sys_unlink(): lock the parent, find the name.
UnlinkFind(p) ==
  LET t == th[p]  n == Head(t.path)  ip == Dirlookup(t.dp, n) IN
  /\ At(p, {"unlink1"})
  /\ UNCHANGED <<disk, ftable, proc>>
  /\ \/ /\ n \in {".", ".."} \/ ip = 0
        /\ th' = [th EXCEPT ![p] = Return(t, -1, <<t.dp>>)]
        /\ icache' = Visit(icache, t.dp)
     \/ /\ n \notin {".", ".."} /\ ip # 0 /\ CanIget(ip)
        /\ icache' = Iget(Ilock(icache, t.dp, p), ip)
        /\ th' = [th EXCEPT ![p] = [Goto(t, "unlink2", <<>>) EXCEPT !.ip = ip]]

\* Lock the inode; a directory must be empty.  The entry is cleared, and a
\* directory's ".." no longer counts for the parent, which is unlocked and put.
UnlinkErase(p) ==
  LET t    == th[p]
      dir  == inode[t.ip].type = "dir"
      w    == Writei(used, inode[t.dp], Find(t.dp, Head(t.path)) - 1, <<NoSlot>>)
  IN /\ At(p, {"unlink2"})
     /\ UNCHANGED <<used, ftable, proc>>
     /\ inode[t.ip].nlink >= 1                    \* or panic("unlink: nlink < 1")
     /\ \/ /\ dir /\ ~Isdirempty(t.ip)
           /\ icache' = Visit(icache, t.ip)
           /\ th' = [th EXCEPT ![p] = [Goto(t, "unlinkbad", <<t.ip>>) EXCEPT !.ip = 0]]
           /\ UNCHANGED inode
        \/ /\ dir => Isdirempty(t.ip)
           /\ w.fits                                   \* or panic("unlink: writei")
           /\ inode' = [inode EXCEPT ![t.dp] = [w.ino EXCEPT !.nlink = @ - (IF dir THEN 1 ELSE 0)]]
           /\ icache' = Iunlock(Ilock(icache, t.ip, p), t.dp)
           /\ th' = [th EXCEPT ![p] = [Goto(t, "unlink3", <<t.dp>>) EXCEPT !.dp = 0]]

\* The link count goes down with the inode still locked since UnlinkErase.
UnlinkCount(p) ==
  LET t == th[p] IN
  /\ At(p, {"unlink3"})
  /\ inode' = [inode EXCEPT ![t.ip].nlink = @ - 1]
  /\ icache' = Iunlock(icache, t.ip)
  /\ th' = [th EXCEPT ![p] = Return(t, 0, <<t.ip>>)]
  /\ UNCHANGED <<used, ftable, proc>>

\* The bad: exit of sys_unlink() with dp locked.
UnlinkBad(p) ==
  LET t == th[p] IN
  /\ At(p, {"unlinkbad"})
  /\ icache' = Iunlock(icache, t.dp)
  /\ th' = [th EXCEPT ![p] = Return(t, -1, <<t.dp>>)]
  /\ UNCHANGED <<disk, ftable, proc>>

\* sys_link(): count the new link first, then look the new name's parent up.
\* Mutant: with the inode still locked.
LinkCountHolds(p) ==
  LET t == th[p]  new == t.call.new IN
  /\ At(p, {"link1"})
  /\ UNCHANGED <<used, ftable, proc>>
  /\ \/ /\ inode[t.ip].type = "dir"
        /\ th' = [th EXCEPT ![p] = Return(t, -1, <<t.ip>>)]
        /\ icache' = Visit(icache, t.ip)
        /\ UNCHANGED inode
     \/ /\ inode[t.ip].type # "dir" /\ CanIget(Start(p, new))
        /\ inode' = [inode EXCEPT ![t.ip].nlink = @ + 1]
        /\ icache' = Iget(Ilock(icache, t.ip, p), Start(p, new))
        /\ th' = [th EXCEPT ![p] = Walk(p, t, new, "nameiparent")]

LinkCount(p) ==
  LET t == th[p]  new == t.call.new IN
  /\ At(p, {"link1"})
  /\ UNCHANGED <<used, ftable, proc>>
  /\ \/ /\ inode[t.ip].type = "dir"
        /\ th' = [th EXCEPT ![p] = Return(t, -1, <<t.ip>>)]
        /\ icache' = Visit(icache, t.ip)
        /\ UNCHANGED inode
     \/ /\ inode[t.ip].type # "dir" /\ CanIget(Start(p, new))
        /\ inode' = [inode EXCEPT ![t.ip].nlink = @ + 1]
        /\ icache' = Iget(Visit(icache, t.ip), Start(p, new))
        /\ th' = [th EXCEPT ![p] = Walk(p, t, new, "nameiparent")]

\* dirlink() of the new name: if it is there, its inode is put with dp locked.
LinkEntry(p) ==
  LET t   == th[p]
      old == Dirlookup(t.dp, Head(t.path))
      w   == Dirlink(used, t.dp, Head(t.path), t.ip)
  IN /\ At(p, {"link2"})
     /\ UNCHANGED <<ftable, proc>>
     /\ \/ /\ old # 0 /\ CanIget(old)
           /\ icache' = Iget(Ilock(icache, t.dp, p), old)
           /\ th' = [th EXCEPT ![p] = Goto(t, "link3", <<old>>)]
           /\ UNCHANGED <<disk>>
        \/ /\ old = 0 /\ w.fits
           /\ inode' = [inode EXCEPT ![t.dp] = w.ino]
           /\ used' = w.used
           /\ icache' = Visit(icache, t.dp)
           /\ th' = [th EXCEPT ![p] = Return(t, 0, <<t.dp, t.ip>>)]

\* The name existed: unlock and put dp, then take the link count back.
LinkExists(p) ==
  LET t == th[p] IN
  /\ At(p, {"link3"})
  /\ icache' = Iunlock(icache, t.dp)
  /\ th' = [th EXCEPT ![p] = [Goto(t, "linkbad", <<t.dp>>) EXCEPT !.dp = 0]]
  /\ UNCHANGED <<disk, ftable, proc>>

LinkBad(p) ==
  LET t == th[p] IN
  /\ At(p, {"linkbad"})
  /\ inode' = [inode EXCEPT ![t.ip].nlink = @ - 1]
  /\ icache' = Visit(icache, t.ip)
  /\ th' = [th EXCEPT ![p] = Return(t, -1, <<t.ip>>)]
  /\ UNCHANGED <<used, ftable, proc>>

\* sys_chdir(): the old directory is put before cwd is assigned.
ChdirCheck(p) ==
  LET t == th[p] IN
  /\ At(p, {"chdir1"})
  /\ icache' = Visit(icache, t.ip)
  /\ th' = [th EXCEPT ![p] = IF inode[t.ip].type # "dir" THEN Return(t, -1, <<t.ip>>)
                             ELSE Goto(t, "chdir2", <<proc[p].cwd>>)]
  /\ UNCHANGED <<disk, ftable, proc>>

ChdirSet(p) ==
  LET t == th[p] IN
  /\ At(p, {"chdir2"})
  /\ proc' = [proc EXCEPT ![p].cwd = t.ip]
  /\ th' = [th EXCEPT ![p] = Return(t, 0, <<>>)]
  /\ UNCHANGED <<disk, icache, ftable>>

\* exec(): with the inode locked, read the program; anything else is refused.
Exec(p) ==
  LET t   == th[p]
      ino == inode[t.ip]
      elf == ino.type = "file" /\ ino.data # <<>> /\ ino.data[1] = "elf"
  IN /\ At(p, {"exec1"})
     /\ icache' = Visit(icache, t.ip)
     /\ th' = [th EXCEPT ![p] = Return(t, IF elf THEN 0 ELSE -1, <<t.ip>>)]
     /\ UNCHANGED <<disk, ftable, proc>>

-----------------------------------------------------------------------------
(* Processes: what fork(), exit() and wait() do with files *)

NoProc == [state |-> "unused", parent |-> 0, cwd |-> 0, ofile |-> [d \in Fd |-> 0]]

Unused == {q \in Proc : proc[q].state = "unused"}
Child  == CHOOSE q \in Unused : \A r \in Unused : q <= r

\* filedup() of every open file.  Mutant: the child's are not counted.
FiledupNone(of) == ftable
Filedup(of) == [f \in 1..NFILE |->
                 [ftable[f] EXCEPT !.ref = @ + Cardinality({d \in Fd : of[d] = f})]]

\* fork(): filedup() of every open file, idup() of the current directory.
Fork(p) ==
  LET of == proc[p].ofile IN
  /\ IF Unused = {}
     THEN /\ th' = [th EXCEPT ![p] = Return(NewThread, -1, <<>>)]
          /\ UNCHANGED <<icache, ftable, proc>>
     ELSE /\ ftable' = Filedup(of)
          /\ icache' = Idup(icache, proc[p].cwd)
          /\ proc' = [proc EXCEPT ![Child] = [state |-> "run", parent |-> p,
                                              cwd |-> proc[p].cwd, ofile |-> of]]
          /\ th' = [th EXCEPT ![p] = Return(NewThread, Child, <<>>), ![Child] = NewThread]
  /\ UNCHANGED disk

\* exit(): close every descriptor, put the current directory, become a zombie.
\* Wakeups and the children's hand-over to init are the subject of Proc.
Exit(p) ==
  LET open == {d \in Fd : proc[p].ofile[d] # 0}
      d    == CHOOSE e \in open : \A g \in open : e <= g
      f    == proc[p].ofile[d]
  IN /\ UNCHANGED <<disk, icache>>
     /\ \/ /\ At(p, {"exit"}) /\ open # {}
           /\ ftable' = Fileclose(ftable, f)
           /\ proc' = [proc EXCEPT ![p].ofile[d] = 0]
           /\ th' = [th EXCEPT ![p].puts = ClosePuts(f)]
        \/ /\ At(p, {"exit"}) /\ open = {}
           /\ th' = [th EXCEPT ![p] = Goto(@, "zombie", <<proc[p].cwd>>)]
           /\ proc' = [proc EXCEPT ![p].cwd = 0]
           /\ UNCHANGED ftable
        \/ /\ At(p, {"zombie"})
           /\ proc' = [proc EXCEPT ![p].state = "zombie"]
           /\ th' = [th EXCEPT ![p] = NewThread]
           /\ UNCHANGED ftable

\* wait(): reap a zombie child; wait for one while there are children.
Wait(p) ==
  LET kids == {q \in Proc : proc[q].state # "unused" /\ proc[q].parent = p} IN
  /\ UNCHANGED <<disk, icache, ftable>>
  /\ \/ /\ kids = {}
        /\ th' = [th EXCEPT ![p] = Return(NewThread, -1, <<>>)]
        /\ UNCHANGED proc
     \/ \E q \in kids :
          /\ proc[q].state = "zombie"
          /\ proc' = [proc EXCEPT ![q] = NoProc]
          /\ th' = [th EXCEPT ![p] = Return(NewThread, q, <<>>)]

-----------------------------------------------------------------------------
(* Entering the kernel *)

\* A call that starts with namei() or nameiparent().
PathCall(p, c) ==
  LET l == IF c.op \in {"link", "chdir", "exec"} \/ (c.op = "open" /\ ~c.create)
           THEN "namei" ELSE "nameiparent"
  IN /\ CanIget(Start(p, c.path))
     /\ icache' = Iget(icache, Start(p, c.path))
     /\ th' = [th EXCEPT ![p] = Walk(p, [NewThread EXCEPT !.call = c], c.path, l)]
     /\ UNCHANGED <<disk, ftable, proc>>

Idle(p) == /\ proc[p].state = "run"
           /\ th[p].pc = "user" /\ th[p].puts = <<>>

\* The system call c of process p.
Call(p, c) ==
  /\ Idle(p)
  /\ \/ c.op \in {"open", "mkdir", "mknod", "unlink", "link", "chdir", "exec"} /\ PathCall(p, c)
     \/ c.op \in {"read", "write", "fstat"} /\ FdCall(p, c)
     \/ c.op = "dup" /\ Dup(p, c.fd)
     \/ c.op = "close" /\ Close(p, c.fd)
     \/ c.op = "pipe" /\ Pipe(p)
     \/ c.op = "fork" /\ Fork(p)
     \/ c.op = "wait" /\ Wait(p)
     \/ /\ c.op = "exit"
        /\ th' = [th EXCEPT ![p] = [NewThread EXCEPT !.pc = "exit"]]
        /\ UNCHANGED <<disk, icache, ftable, proc>>

\* A step of the kernel on behalf of p.
Kernel(p) ==
  \/ Iput(p) \/ Drop(p) \/ Namex(p)
  \/ Open(p) \/ Read(p) \/ Write(p) \/ Fstat(p)
  \/ CreateExisting(p) \/ CreateKeep(p) \/ CreateNew(p) \/ Made(p)
  \/ UnlinkFind(p) \/ UnlinkErase(p) \/ UnlinkCount(p) \/ UnlinkBad(p)
  \/ LinkCount(p) \/ LinkEntry(p) \/ LinkExists(p) \/ LinkBad(p)
  \/ ChdirCheck(p) \/ ChdirSet(p) \/ Exec(p) \/ Exit(p)

-----------------------------------------------------------------------------
\* iappend() of n units to the first inode, on an empty disk: its data blocks
\* in order, the indirect block after the direct ones.
Iappend(n) == [k \in 1..Blocks(n) |-> IF k <= NDIRECT THEN k ELSE k + 1]

(* The image mkfs writes: the root directory and one file per argument, each
   with one link.  The size of the root is rounded up to a block, and by a
   whole block when it already fills its last one: the block of those empty
   slots is then not allocated, which the assumption on Image excludes. *)
Mkfs ==
  LET n     == Len(Image) + 2
      root  == [k \in 1..n |-> IF k = 1 THEN Slot(".", ROOTINO)
                               ELSE IF k = 2 THEN Slot("..", ROOTINO)
                               ELSE Slot(Image[k - 2].name, k - 1)]
      size  == ((n \div BSIZE) + 1) * BSIZE
      extra == IF Blocks(n) > NDIRECT THEN 1 ELSE 0
      meta  == Blocks(n) + extra
      ino   == [type |-> "file", nlink |-> 1, data |-> <<>>, blks |-> <<>>, ind |-> 0]
  IN /\ inode = [i \in Ino |->
          IF i = ROOTINO
          THEN [ino EXCEPT !.type = "dir", !.blks = Iappend(n),
                           !.ind = IF extra = 1 THEN NDIRECT + 1 ELSE 0,
                           !.data = [k \in 1..size |-> IF k <= n THEN root[k] ELSE NoSlot]]
          ELSE IF i - 1 \in DOMAIN Image
          THEN [ino EXCEPT !.data = Image[i - 1].data, !.blks = <<meta + i - 1>>]
          ELSE NoInode]
     /\ used = 1..(meta + Len(Image))

\* The first process runs in the root directory; its descriptors for the
\* console are left out.
Init ==
  /\ Mkfs
  /\ icache = [i \in Ino |-> [ref |-> IF i = ROOTINO THEN 1 ELSE 0, valid |-> FALSE, lock |-> 0]]
  /\ ftable = [f \in 1..NFILE |-> NoFile]
  /\ proc = [p \in Proc |-> IF p = 1 THEN [NoProc EXCEPT !.state = "run", !.cwd = ROOTINO]
                            ELSE NoProc]
  /\ th = [p \in Proc |-> NewThread]

-----------------------------------------------------------------------------
(* Properties *)

\* Every variable keeps its shape, and a directory's content is slots.
TypeOK ==
  /\ \A i \in Ino :
       /\ inode[i].type \in {"free", "dir", "file", "dev"} /\ inode[i].nlink \in Nat
       /\ inode[i].type = "dir" => \A k \in DOMAIN inode[i].data : inode[i].data[k].inum \in 0..NInodes
       /\ icache[i].ref \in Nat /\ icache[i].valid \in BOOLEAN /\ icache[i].lock \in 0..NPROC
  /\ used \subseteq Blk
  /\ \A f \in 1..NFILE : ftable[f].ref \in Nat /\ ftable[f].off \in 0..MAXFILE*BSIZE
  /\ \A p \in Proc : /\ proc[p].state \in {"unused", "run", "zombie"}
                      /\ proc[p].cwd \in 0..NInodes /\ proc[p].ofile \in [Fd -> 0..NFILE]

\* The pointers to inode i: open files, current directories (the old one is
\* in puts while chdir() drops it), and the locals of running calls.
Pointers(i) ==
       {<<"file", f, 0>> : f \in {g \in 1..NFILE : ftable[g].ref > 0 /\ ftable[g].ip = i}}
  \cup {<<"cwd", p, 0>> : p \in {q \in Proc : proc[q].cwd = i /\ th[q].pc # "chdir2"}}
  \cup {<<"ip", p, 0>> : p \in {q \in Proc : th[q].ip = i}}
  \cup {<<"dp", p, 0>> : p \in {q \in Proc : th[q].dp = i}}
  \cup {<<"at", p, 0>> : p \in {q \in Proc : th[q].at = i}}
  \cup UNION {{<<"put", p, k>> : k \in {j \in DOMAIN th[p].puts : th[p].puts[j] = i}} : p \in Proc}

\* "ip->ref tracks the number of in-memory pointers to the entry" (fs.c):
\* in every interleaving, no call leaks or loses a reference to an inode.
RefCounts == \A i \in Ino : icache[i].ref = Cardinality(Pointers(i))

\* ftable's reference counts are the descriptors of all processes: fork(),
\* dup(), close(), exit() and the failure paths of open() and pipe() agree.
FilesCounted ==
  \A f \in 1..NFILE :
    ftable[f].ref = Cardinality({pd \in Proc \X Fd : proc[pd[1]].ofile[pd[2]] = f})

\* The entries of a directory that follow its dots.
Named(d) == IF inode[d].type = "dir" THEN {k \in Entries(d) : k > 2} ELSE {}

\* A link() that has counted its link and has not made the entry yet, or has
\* not taken the count back.
Linking(t) == \/ t.pc \in {"link2", "link3", "linkbad"}
              \/ t.pc = "nameiparent" /\ t.call.op = "link"

\* What the link count of inode i is for: the root, the entries that name the
\* inode, its subdirectories with their "..", and half-done calls: an unlink()
\* that has erased an entry, and a link().
Links(i) ==
       {<<"root", 0, 0>> : r \in {i} \cap {ROOTINO}}
  \cup (UNION {{<<"name", d, k>> : k \in {e \in Named(d) : inode[d].data[e].inum = i}} : d \in Ino})
  \cup {<<"sub", 0, k>> : k \in {e \in Named(i) : inode[inode[i].data[e].inum].type = "dir"}}
  \cup {<<"unlink", p, 0>> : p \in {q \in Proc : th[q].pc = "unlink3" /\ th[q].ip = i}}
  \cup {<<"link", p, 0>> : p \in {q \in Proc : Linking(th[q]) /\ th[q].ip = i}}

\* No name outlives its inode: the link count covers every name on the disk
\* and every link or unlink that is half done, so iput() never frees an inode
\* that a directory still names.
NamesCounted == \A i \in Ino : inode[i].nlink >= Cardinality(Links(i))

\* balloc() and bfree() keep the free map exact: a block is marked in use iff
\* one inode, and only one, has it as a data or indirect block.
BlocksOwned ==
  /\ used = UNION {Addrs(inode[i]) : i \in Ino}
  /\ \A i, j \in Ino : i # j => Addrs(inode[i]) \cap Addrs(inode[j]) = {}
  /\ \A i \in Ino : Cardinality(Addrs(inode[i])) = Len(inode[i].blks) + (IF inode[i].ind = 0 THEN 0 ELSE 1)

\* The kernel's own consistency checks hold: ilock() never meets an inode that
\* is free on the disk, and unlink() never one that has no links.
ChecksHold ==
  \A p \in Proc :
    LET i == NextLock(p) IN
    i # 0 /\ th[p].puts = <<>> /\ icache[i].lock = 0 =>
      /\ inode[i].type # "free"
      /\ th[p].pc = "unlink2" => inode[i].nlink >= 1

\* p waits for an inode lock that q holds.
WaitsFor(p, q) == /\ NextLock(p) # 0 /\ icache[NextLock(p)].lock = q

\* Two calls wait for each other's inode lock, for ever.
Deadlocked == \E p, q \in Proc : WaitsFor(p, q) /\ WaitsFor(q, p)

\* Inodes nobody can reach: no link, no reference, and not freed.
Lost == {i \in Ino : inode[i].type # "free" /\ inode[i].nlink = 0 /\ icache[i].ref = 0}
-----------------------------------------------------------------------------
(* Any programs, and the inductive invariant behind FilesCounted and        *)
(* RefCounts                                                                *)

\* The calls a program can make.
Paths == Seq(STRING)
SysCalls ==
       [op : {"open"}, path : Paths, mode : {"r", "w", "rw"}, create : BOOLEAN]
  \cup [op : {"mkdir", "mknod", "unlink", "chdir", "exec"}, path : Paths]
  \cup [op : {"link"}, path : Paths, new : Paths]
  \cup [op : {"read"}, fd : Int, n : Nat]
  \cup [op : {"write"}, fd : Int, data : Seq(STRING \cup Int)]
  \cup [op : {"dup", "close", "fstat"}, fd : Int]
  \cup [op : {"pipe", "fork", "wait", "exit"}]

FilesNext == \E p \in Proc : Kernel(p) \/ \E c \in SysCalls : Call(p, c)
FilesSpec == Init /\ [][FilesNext]_vars

\* Every variable has its fields; a directory holds slots, the names of which
\* are any strings, those that the code itself writes among them.
DirSlots == [name : {"", ".", ".."}, inum : 0..NInodes] \cup [name : STRING, inum : 0..NInodes]
Puts == {<<>>} \cup {<<i>> : i \in Ino} \cup {<<i, j>> : i, j \in Ino}
IsInode(n) ==
  /\ DOMAIN n = DOMAIN NoInode
  /\ n.type \in {"free", "dir", "file", "dev"}
  /\ n.type = "dir" => n.data \in Seq(DirSlots)
IsFile(f) ==
  /\ DOMAIN f = DOMAIN NoFile
  /\ f.ref \in Nat /\ f.w \in BOOLEAN
  /\ f.ip \in 0..NInodes
  /\ f.ip # 0 <=> f.ref > 0 /\ f.type = "inode"
IsThread(t) ==
  /\ DOMAIN t = DOMAIN NewThread
  /\ t.at \in 0..NInodes /\ t.ip \in 0..NInodes /\ t.dp \in 0..NInodes
  /\ t.path \in Paths
  /\ t.puts \in Puts /\ t.dropping \in BOOLEAN
IsProc(s) ==
  /\ DOMAIN s = DOMAIN NoProc
  /\ s.state \in {"unused", "run", "zombie"}
  /\ s.cwd \in 0..NInodes
  /\ s.ofile \in [Fd -> 0..NFILE]
Shape ==
  /\ inode = [i \in Ino |-> inode[i]] /\ \A i \in Ino : IsInode(inode[i])
  /\ icache \in [Ino -> [ref : Nat, valid : BOOLEAN, lock : 0..NPROC]]
  /\ ftable = [f \in 1..NFILE |-> ftable[f]] /\ \A f \in 1..NFILE : IsFile(ftable[f])
  /\ proc = [p \in Proc |-> proc[p]] /\ \A p \in Proc : IsProc(proc[p])
  /\ th = [p \in Proc |-> th[p]] /\ \A p \in Proc : IsThread(th[p])

\* Which inode pointers a thread owns at each label.
HasAt(t) == t.pc \in {"namei", "nameiparent"}
HasIp(t) ==
  \/ t.pc \in {"open1", "open2", "create2", "made", "unlink2", "unlink3", "link1", "link2", "link3",
               "linkbad", "chdir1", "chdir2", "exec1"}
  \/ t.pc = "nameiparent" /\ t.call.op = "link"
HasDp(t) == t.pc \in {"create1", "unlink1", "unlink2", "unlinkbad", "link2", "link3"}

\* What a thread knows at each label.
Locals(t) ==
  /\ t.at # 0 <=> HasAt(t)
  /\ t.ip # 0 <=> HasIp(t)
  /\ t.dp # 0 <=> HasDp(t)
  /\ t.pc = "namei" => t.call.op \in {"open", "link", "chdir", "exec"}
  /\ t.pc = "nameiparent" => t.call.op \in {"open", "mkdir", "mknod", "unlink", "link"}
  /\ t.pc \in {"create1", "unlink1", "link2"} => t.path # <<>>
  /\ t.pc = "link1" => t.call.op = "link"
  /\ t.call.op = "link" => t.call.new \in Paths

\* An inode that is pointed to keeps its type.
Kinds(t) ==
  /\ t.dp # 0 => inode[t.dp].type = "dir"
  /\ t.pc = "open2" => inode[t.ip].type = "file"

\* The open file of a call is a descriptor's of its process.
Uses(t, s) ==
  t.pc \in {"read", "write", "fstat"} =>
    /\ t.f \in 1..NFILE
    /\ \E d \in Fd : s.ofile[d] = t.f
    /\ ftable[t.f].type = "inode"
    /\ t.pc = "write" => ftable[t.f].w

\* Only a running process is in the kernel and has files and a directory.
Lives(t, s) ==
  /\ s.state # "run" => t.pc = "user" /\ t.puts = <<>> /\ s.cwd = 0
  /\ s.state = "run" => (s.cwd = 0 <=> t.pc = "zombie")
  /\ s.state # "run" \/ t.pc = "zombie" => \A d \in Fd : s.ofile[d] = 0

ThreadsInv ==
  \A p \in Proc : Locals(th[p]) /\ Kinds(th[p]) /\ Uses(th[p], proc[p]) /\ Lives(th[p], proc[p])

\* An open file's inode is in use, and no directory when it can be written.
FilesInv ==
  \A f \in 1..NFILE : ftable[f].ip # 0 =>
    /\ inode[ftable[f].ip].type # "free"
    /\ ftable[f].w => inode[ftable[f].ip].type # "dir"

IndInv == Shape /\ ThreadsInv /\ FilesInv /\ FilesCounted /\ RefCounts

\* What BlocksOwned rests on: a free inode has no blocks, the content of the
\* others has a block for every unit, the indirect block is there when a block
\* address beyond the direct ones is, and offsets and lengths are numbers.
HasBlocks(n) ==
  /\ n.blks \in Seq(Nat) /\ n.ind \in Nat
  /\ n.type = "free" => n.blks = <<>> /\ n.ind = 0
  /\ n.ind = 0 => Len(n.blks) <= NDIRECT
  /\ Len(n.data) \in Nat /\ Blocks(Len(n.data)) <= Len(n.blks)
Offsets == \A f \in 1..NFILE : ftable[f].off \in Nat
Transfers(t) ==
  /\ t.pc = "read" => t.call.n \in Nat
  /\ t.pc = "write" => Len(t.call.data) \in Nat /\ t.done \in 0..Len(t.call.data)
  /\ t.pc # "write" => t.done = 0
BlocksInv ==
  /\ BlocksOwned
  /\ \A i \in Ino : HasBlocks(inode[i])
  /\ Offsets
  /\ \A p \in Proc : Transfers(th[p])

\* What NamesCounted rests on.  A directory begins with its dots.
Dots(n, i) ==
  n.type = "dir" =>
    /\ 2 \in DOMAIN n.data /\ n.data[1] = Slot(".", i)
    /\ n.data[2].name = ".." /\ n.data[2].inum # 0
CountsLinks(n) == n.nlink \in Int /\ (n.type = "free" => n.nlink = 0)

\* A directory has one name, in the directory that its ".." names.
OneParent ==
  \A d \in Ino : \A k \in Named(d) :
    LET e == inode[d].data[k].inum IN
    inode[e].type = "dir" =>
      /\ inode[e].data[2].inum = d
      /\ \A c \in Ino : \A j \in Named(c) : inode[c].data[j].inum = e => c = d /\ j = k

\* The inode whose sleep lock a thread holds between two steps.
Holds(t, i) == \/ t.pc \in {"unlink2", "unlinkbad", "link3"} /\ i = t.dp
               \/ t.pc \in {"open2", "made", "unlink3"} /\ i = t.ip

\* unlink() has found the name, which stays while the directory is locked, and
\* link() has made sure that the inode is no directory.
Knows(t) ==
  /\ t.pc = "unlink2" => /\ Head(t.path) \notin {".", ".."}
                         /\ Dirlookup(t.dp, Head(t.path)) = t.ip
  /\ Linking(t) => inode[t.ip].type # "dir"

NamesInv ==
  /\ NamesCounted /\ \A i \in Ino : IsFiniteSet(Links(i))
  /\ \A i \in Ino : Dots(inode[i], i) /\ CountsLinks(inode[i])
  /\ inode[ROOTINO].type = "dir" /\ inode[ROOTINO].data[2].inum = ROOTINO
  /\ OneParent
  /\ \A p \in Proc : Knows(th[p]) /\ \A i \in Ino : Holds(th[p], i) => icache[i].lock = p

\* A directory that has no name any more and whose parent, which its ".."
\* still names, is gone as well.
Cut(d) == /\ inode[d].type = "dir" /\ inode[inode[d].data[2].inum].type = "free"
          /\ \A c \in Ino : \A k \in Named(c) : inode[c].data[k].inum # d

\* A call is about to look ".." up in such a directory.
Strays(t) ==
  \/ t.pc \in {"namei", "nameiparent"} /\ t.path # <<>> /\ Elem(Head(t.path)) = ".." /\ Cut(t.at)
  \/ t.pc = "create1" /\ Head(t.path) = ".." /\ Cut(t.dp)
NoStray == \A p \in Proc : ~Strays(th[p])

\* The inodes that calls and current directories point to are in use.
InUse(t, s) ==
  /\ t.ip # 0 => inode[t.ip].type # "free"
  /\ t.at # 0 => inode[t.at].type # "free"
  /\ s.cwd # 0 /\ t.pc # "chdir2" => inode[s.cwd].type # "free"
LiveInv == \A p \in Proc : InUse(th[p], proc[p])
============================================================================
