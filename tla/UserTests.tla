----------------------------- MODULE UserTests -----------------------------
(***************************************************************************)
(* The file system tests of usertests.c and the user programs stressfs,    *)
(* init, ls and cat as clients of module Files.  A test is one program per *)
(* process it runs: a sequence of system calls, each with what the test    *)
(* demands of its result.  A loop of the test is cut to the few turns that *)
(* show what it tests, and the sizes it writes to a few units; four        *)
(* processes become two.  The checks hold in every interleaving of the     *)
(* processes' kernel threads, where the test sees one.                     *)
(***************************************************************************)
EXTENDS Files

CONSTANTS Tests,    \* the tests to run
          AnyCalls  \* the calls a free program chooses from

VARIABLES test,     \* the test that runs
          role,     \* the program of the test each process runs
          at        \* its next statement

allvars == <<vars, test, role, at>>

-----------------------------------------------------------------------------
(* System calls *)

open(path, mode)  == [op |-> "open", path |-> path, mode |-> mode, create |-> FALSE]
creat(path, mode) == [op |-> "open", path |-> path, mode |-> mode, create |-> TRUE]
mkdir(path)       == [op |-> "mkdir", path |-> path]
mknod(path)       == [op |-> "mknod", path |-> path]
unlink(path)      == [op |-> "unlink", path |-> path]
link(path, new)   == [op |-> "link", path |-> path, new |-> new]
chdir(path)       == [op |-> "chdir", path |-> path]
exec(path)        == [op |-> "exec", path |-> path]
close(fd)         == [op |-> "close", fd |-> fd]
dup(fd)           == [op |-> "dup", fd |-> fd]
read(fd, n)       == [op |-> "read", fd |-> fd, n |-> n]
write(fd, data)   == [op |-> "write", fd |-> fd, data |-> data]
fstat(fd)         == [op |-> "fstat", fd |-> fd]
pipe              == [op |-> "pipe"]
fork(r)           == [op |-> "fork", role |-> r]
wait              == [op |-> "wait"]
exit              == [op |-> "exit"]

(* What a test demands of a call's result *)

Ok(c)      == [calls |-> {c}, want |-> "ok"]               \* not negative
No(c)      == [calls |-> {c}, want |-> "error"]            \* -1
Run(c)     == [calls |-> {c}, want |-> "any"]              \* not looked at
Gives(c, d)== [calls |-> {c}, want |-> "data", data |-> d] \* these units
Mix(c, d)  == [calls |-> {c}, want |-> "mix", data |-> d]  \* these, in any order
List(c, d) == [calls |-> {c}, want |-> "names", data |-> d]\* each name once
One(cs)    == [calls |-> cs, want |-> "any"]               \* one of several calls

Count(s, v) == Cardinality({k \in DOMAIN s : s[k] = v})

Meets(stmt, ret, buf) ==
  CASE stmt.want = "ok"    -> ret >= 0
    [] stmt.want = "error" -> ret = -1
    [] stmt.want = "any"   -> TRUE
    [] stmt.want = "data"  -> ret = Len(stmt.data) /\ buf = stmt.data
    [] stmt.want = "mix"   -> /\ ret = Len(stmt.data)
                              /\ \A k \in DOMAIN buf : Count(buf, buf[k]) = Count(stmt.data, buf[k])
    [] stmt.want = "names" -> \A n \in stmt.data :
                                Cardinality({k \in DOMAIN buf : buf[k].inum # 0 /\ buf[k].name = n}) = 1

root == <<"/">>

-----------------------------------------------------------------------------
(* One process *)

iputtest == << << Ok(mkdir(<<"iputdir">>)), Ok(chdir(<<"iputdir">>)),
                  Ok(unlink(<<"..", "iputdir">>)), Ok(chdir(root)) >> >>

opentest == << << Ok(open(<<"echo">>, "r")), Run(close(0)), No(open(<<"doesnotexist">>, "r")) >> >>

writetest == << << Ok(creat(<<"small">>, "rw")),
                   Ok(write(0, <<"a">>)), Ok(write(0, <<"b">>)),
                   Ok(write(0, <<"a">>)), Ok(write(0, <<"b">>)),
                   Run(close(0)), Ok(open(<<"small">>, "r")),
                   Gives(read(0, 4), <<"a", "b", "a", "b">>),
                   Run(close(0)), Ok(unlink(<<"small">>)) >> >>

\* Write MAXFILE blocks, each numbered, and read them back.
writetest1 ==
  << << Ok(creat(<<"big">>, "rw")) >>
     \o [k \in 1..MAXFILE |-> Ok(write(0, [j \in 1..BSIZE |-> k]))]
     \o << Run(close(0)), Ok(open(<<"big">>, "r")) >>
     \o [k \in 1..MAXFILE |-> Gives(read(0, BSIZE), [j \in 1..BSIZE |-> k])]
     \o << Gives(read(0, BSIZE), <<>>), Run(close(0)), Ok(unlink(<<"big">>)) >> >>

createtest == << << Run(creat(<<"a0">>, "rw")), Run(close(0)),
                    Run(creat(<<"a1">>, "rw")), Run(close(0)),
                    Run(unlink(<<"a0">>)), Run(unlink(<<"a1">>)) >> >>

dirtest == << << Ok(mkdir(<<"dir0">>)), Ok(chdir(<<"dir0">>)), Ok(chdir(<<"..">>)),
                 Ok(unlink(<<"dir0">>)) >> >>

exectest == << << Ok(exec(<<"echo">>)) >> >>

unlinkread ==
  << << Ok(creat(<<"f">>, "rw")), Run(write(0, <<"h">>)), Run(close(0)),
        Ok(open(<<"f">>, "rw")), Ok(unlink(<<"f">>)),
        Run(creat(<<"f">>, "rw")), Run(write(1, <<"y">>)), Run(close(1)),
        Gives(read(0, 2), <<"h">>), Ok(write(0, <<"h", "h">>)),
        Run(close(0)), Run(unlink(<<"f">>)) >> >>

linktest ==
  << << Run(unlink(<<"lf1">>)), Run(unlink(<<"lf2">>)),
        Ok(creat(<<"lf1">>, "rw")), Ok(write(0, <<"h">>)), Run(close(0)),
        Ok(link(<<"lf1">>, <<"lf2">>)), Run(unlink(<<"lf1">>)),
        No(open(<<"lf1">>, "r")), Ok(open(<<"lf2">>, "r")),
        Gives(read(0, 2), <<"h">>), Run(close(0)),
        No(link(<<"lf2">>, <<"lf2">>)), Run(unlink(<<"lf2">>)),
        No(link(<<"lf2">>, <<"lf1">>)), No(link(<<".">>, <<"lf1">>)) >> >>

\* A directory that needs its indirect block, made of links to one file.
bigdir ==
  LET x == <<"x0", "x1", "x2", "x3", "x4">> IN
  << << Run(unlink(<<"bd">>)), Ok(creat(<<"bd">>, "r")), Run(close(0)) >>
     \o [k \in 1..5 |-> Ok(link(<<"bd">>, <<x[k]>>))]
     \o << Run(unlink(<<"bd">>)) >>
     \o [k \in 1..5 |-> Ok(unlink(<<x[k]>>))] >>

subdir ==
  << << Run(unlink(<<"ff">>)), Ok(mkdir(<<"dd">>)),
        Ok(creat(<<"dd", "ff">>, "rw")), Run(write(0, <<"f">>)), Run(close(0)),
        No(unlink(<<"dd">>)), Ok(mkdir(<<"/", "dd", "dd">>)),
        Ok(creat(<<"dd", "dd", "ff">>, "rw")), Run(write(0, <<"F">>)), Run(close(0)),
        Ok(open(<<"dd", "dd", "..", "ff">>, "r")), Gives(read(0, 2), <<"f">>), Run(close(0)),
        Ok(link(<<"dd", "dd", "ff">>, <<"dd", "dd", "ffff">>)),
        Ok(unlink(<<"dd", "dd", "ff">>)), No(open(<<"dd", "dd", "ff">>, "r")),
        Ok(chdir(<<"dd">>)), Ok(chdir(<<"dd", "..", "..", "dd">>)),
        Ok(chdir(<<"dd", "..", "..", "..", "dd">>)), Ok(chdir(<<".", "..">>)),
        Ok(open(<<"dd", "dd", "ffff">>, "r")), Gives(read(0, 2), <<"F">>), Run(close(0)),
        No(open(<<"dd", "dd", "ff">>, "r")),
        No(creat(<<"dd", "ff", "ff">>, "rw")), No(creat(<<"dd", "xx", "ff">>, "rw")),
        No(creat(<<"dd">>, "r")), No(open(<<"dd">>, "rw")), No(open(<<"dd">>, "w")),
        No(link(<<"dd", "ff", "ff">>, <<"dd", "dd", "xx">>)),
        No(link(<<"dd", "xx", "ff">>, <<"dd", "dd", "xx">>)),
        No(link(<<"dd", "ff">>, <<"dd", "dd", "ffff">>)),
        No(mkdir(<<"dd", "ff", "ff">>)), No(mkdir(<<"dd", "xx", "ff">>)),
        No(mkdir(<<"dd", "dd", "ffff">>)),
        No(unlink(<<"dd", "xx", "ff">>)), No(unlink(<<"dd", "ff", "ff">>)),
        No(chdir(<<"dd", "ff">>)), No(chdir(<<"dd", "xx">>)),
        Ok(unlink(<<"dd", "dd", "ffff">>)), Ok(unlink(<<"dd", "ff">>)),
        No(unlink(<<"dd">>)), Ok(unlink(<<"dd", "dd">>)), Ok(unlink(<<"dd">>)) >> >>

\* Writes that take several transactions.
bigwrite ==
  LET turn(n) == << Ok(creat(<<"bigwrite">>, "rw")),
                    Ok(write(0, [k \in 1..n |-> k])), Ok(write(0, [k \in 1..n |-> k])),
                    Run(close(0)), Run(unlink(<<"bigwrite">>)) >>
  IN << << Run(unlink(<<"bigwrite">>)) >> \o turn(WMAX - 1) \o turn(WMAX + 1) \o turn(2 * WMAX) >>

\* Writes that end inside a block, read back in other pieces.
bigfile ==
  << << Run(unlink(<<"bigfile">>)), Ok(creat(<<"bigfile">>, "rw")),
        Ok(write(0, <<1, 1, 1>>)), Ok(write(0, <<2, 2, 2>>)), Run(close(0)),
        Ok(open(<<"bigfile">>, "r")), Gives(read(0, 2), <<1, 1>>), Gives(read(0, 2), <<1, 2>>),
        Gives(read(0, 2), <<2, 2>>), Gives(read(0, 2), <<>>), Run(close(0)),
        Run(unlink(<<"bigfile">>)) >> >>

\* Names of DIRSIZ bytes and of one more.
fourteen ==
  LET n14 == "12345678901234"  n15 == "123456789012345" IN
  << << Ok(mkdir(<<n14>>)), Ok(mkdir(<<n14, n15>>)),
        Ok(creat(<<n15, n15, n15>>, "r")), Run(close(0)),
        Ok(open(<<n14, n14, n14>>, "r")), Run(close(0)),
        No(mkdir(<<n14, n14>>)), No(mkdir(<<n15, n14>>)) >> >>

rmdot == << << Ok(mkdir(<<"dots">>)), Ok(chdir(<<"dots">>)),
               No(unlink(<<".">>)), No(unlink(<<"..">>)), Ok(chdir(root)),
               No(unlink(<<"dots", ".">>)), No(unlink(<<"dots", "..">>)),
               Ok(unlink(<<"dots">>)) >> >>

dirfile ==
  << << Ok(creat(<<"dirfile">>, "r")), Run(close(0)), No(chdir(<<"dirfile">>)),
        No(open(<<"dirfile", "xx">>, "r")), No(creat(<<"dirfile", "xx">>, "r")),
        No(mkdir(<<"dirfile", "xx">>)), No(unlink(<<"dirfile", "xx">>)),
        No(link(<<"README">>, <<"dirfile", "xx">>)), Ok(unlink(<<"dirfile">>)),
        No(open(<<".">>, "rw")), Run(open(<<".">>, "r")), No(write(0, <<"x">>)), Run(close(0)) >> >>

\* Empty path names, in nested directories.
iref ==
  LET turn == << Ok(mkdir(<<"irefd">>)), Ok(chdir(<<"irefd">>)), Run(mkdir(<<>>)),
                 Run(link(<<"README">>, <<>>)), Run(creat(<<>>, "r")),
                 Run(creat(<<"xx">>, "r")), Run(close(0)), Run(unlink(<<"xx">>)) >>
  IN << turn \o turn \o << Run(chdir(root)) >> >>

-----------------------------------------------------------------------------
(* Several processes.  Program 1 is the test's, the others are its children's *)

exitiputtest == << << Ok(fork(2)), Run(wait) >>,
                   << Ok(mkdir(<<"iputdir">>)), Ok(chdir(<<"iputdir">>)),
                      Ok(unlink(<<"..", "iputdir">>)), Run(exit) >> >>

openiputtest == << << Ok(mkdir(<<"oidir">>)), Ok(fork(2)), Ok(unlink(<<"oidir">>)), Run(wait) >>,
                   << No(open(<<"oidir">>, "rw")), Run(exit) >> >>

sharedfd ==
  << << Run(unlink(<<"sharedfd">>)), Ok(creat(<<"sharedfd">>, "rw")), Run(fork(2)),
        Ok(write(0, <<"p", "p">>)), Ok(write(0, <<"p", "p">>)), Run(wait), Run(close(0)),
        Ok(open(<<"sharedfd">>, "r")),
        Mix(read(0, 9), <<"c", "c", "c", "c", "p", "p", "p", "p">>),
        Run(close(0)), Run(unlink(<<"sharedfd">>)) >>,
     << Ok(write(0, <<"c", "c">>)), Ok(write(0, <<"c", "c">>)), Run(exit) >> >>

fourfiles ==
  LET child(f, v) == << Ok(creat(<<f>>, "rw")), Ok(write(0, <<v, v>>)), Ok(write(0, <<v>>)), Run(exit) >>
      look(f, v)  == << Run(open(<<f>>, "r")), Gives(read(0, 4), <<v, v, v>>), Run(close(0)),
                        Run(unlink(<<f>>)) >>
  IN << << Run(unlink(<<"f0">>)), Ok(fork(2)), Run(unlink(<<"f1">>)), Ok(fork(3)), Run(wait), Run(wait) >>
        \o look("f0", 10) \o look("f1", 11),
        child("f0", 10), child("f1", 11) >>

createdelete ==
  LET child(n) == << Ok(creat(<<n[1]>>, "rw")), Run(close(0)), Ok(creat(<<n[2]>>, "rw")), Run(close(0)),
                     Ok(unlink(<<n[1]>>)), Run(exit) >>
      look(n)  == << No(open(<<n[1]>>, "r")), Ok(open(<<n[2]>>, "r")), Run(close(0)) >>
  IN << << Ok(fork(2)), Ok(fork(3)), Run(wait), Run(wait) >> \o look(<<"p1", "p2">>) \o look(<<"q1", "q2">>),
        child(<<"p1", "p2">>), child(<<"q1", "q2">>) >>

\* One turn of each kind.  In the first loop the parent links in turns 1 and 4
\* of these, the child in 1 and 6, and the others create; in the second the
\* child opens in 0 and 6, the parent in 1 and 4, and the others unlink.
concreate ==
  LET turn == <<0, 1, 2, 4, 6>>
      file == <<"C0", "C1", "C2", "C4", "C6">>
      make(k, links) == IF links THEN << Run(link(<<"C0">>, <<file[k]>>)) >>
                        ELSE << Ok(creat(<<file[k]>>, "rw")), Run(close(0)) >>
      look(k, opens) == IF opens THEN << Run(open(<<file[k]>>, "r")), Run(close(0)) >>
                        ELSE << Run(unlink(<<file[k]>>)) >>
      first(k)  == << Run(unlink(<<file[k]>>)), Run(fork(1 + k)) >> \o make(k, turn[k] % 3 = 1) \o << Run(wait) >>
      second(k) == << Ok(fork(6 + k)) >> \o look(k, turn[k] % 3 = 1) \o << Run(wait) >>
  IN << first(1) \o first(2) \o first(3) \o first(4) \o first(5)
        \o << Run(open(<<".">>, "r")), List(read(0, 99), {file[k] : k \in 1..5}), Run(close(0)) >>
        \o second(1) \o second(2) \o second(3) \o second(4) \o second(5) >>
     \o [k \in 1..5 |-> make(k, turn[k] % 5 = 1) \o << Run(exit) >>]
     \o [k \in 1..5 |-> look(k, turn[k] % 3 = 0) \o << Run(exit) >>]

linkunlink ==
  LET turn == << One({creat(<<"x">>, "rw"), link(<<"cat">>, <<"x">>), unlink(<<"x">>)}), Run(close(0)) >>
  IN << << Run(unlink(<<"x">>)), Ok(fork(2)) >> \o turn \o turn \o << Run(wait) >>,
        turn \o turn \o << Run(exit) >> >>

\* stressfs.c: a chain of processes, each with its own file.
stressfs ==
  LET body(f) == << Run(creat(<<f>>, "rw")), Run(write(0, <<"a">>)), Run(write(0, <<"a">>)), Run(close(0)),
                    Run(open(<<f>>, "r")), Gives(read(0, 1), <<"a">>), Gives(read(0, 1), <<"a">>),
                    Run(close(0)) >>
  IN << << Ok(fork(2)) >> \o body("stressfs0") \o << Run(wait) >>,
        body("stressfs1") \o << Run(wait), Run(exit) >> >>

\* init.c: the console's node and the three descriptors every program inherits.
init == << << No(open(<<"console">>, "rw")), Run(mknod(<<"console">>)), Ok(open(<<"console">>, "rw")),
              Ok(dup(0)), Ok(dup(0)), Ok(fork(2)), Run(wait) >>,
           << Run(exec(<<"sh">>)), Run(exit) >> >>

\* ls.c on a directory (each entry by stat() of ulib.c) while another process
\* creates and removes names in it, and cat.c on a file.
stat(path) == << Run(open(path, "r")), Run(fstat(1)), Run(close(1)) >>
ls == << << Ok(mkdir(<<"d">>)), Ok(fork(2)), Ok(open(<<"d">>, "r")), Ok(fstat(0)), Ok(read(0, 1)) >>
         \o stat(<<"d", ".">>) \o << Ok(read(0, 1)) >> \o stat(<<"d", "..">>)
         \o << Run(read(0, 1)) >> \o stat(<<"d", "f">>)
         \o << Run(close(0)), Run(wait) >>,
         << Ok(creat(<<"d", "f">>, "rw")), Ok(unlink(<<"d", "f">>)), Run(exit) >> >>

cat == << << Ok(open(<<"README">>, "r")), Gives(read(0, 2), <<"readme">>), Gives(read(0, 2), <<>>),
             Run(close(0)) >> >>

\* Two free programs that share an open file and a directory.
free ==
  << << Run(mkdir(<<"d">>)), Run(creat(<<"f">>, "rw")), Ok(fork(2)), One(AnyCalls), One(AnyCalls), Run(wait) >>,
     << One(AnyCalls), Run(exit) >> >>

Program ==
  [iputtest |-> iputtest, opentest |-> opentest, writetest |-> writetest, writetest1 |-> writetest1,
   createtest |-> createtest, dirtest |-> dirtest, exectest |-> exectest, unlinkread |-> unlinkread,
   linktest |-> linktest, bigdir |-> bigdir, subdir |-> subdir, bigwrite |-> bigwrite,
   bigfile |-> bigfile, fourteen |-> fourteen, rmdot |-> rmdot, dirfile |-> dirfile, iref |-> iref,
   exitiputtest |-> exitiputtest, openiputtest |-> openiputtest, sharedfd |-> sharedfd,
   fourfiles |-> fourfiles, createdelete |-> createdelete, concreate |-> concreate,
   linkunlink |-> linkunlink, stressfs |-> stressfs, init |-> init, ls |-> ls, cat |-> cat,
   free |-> free]

-----------------------------------------------------------------------------
(* Running a test *)

Stmt(p) == Program[test][role[p]][at[p]]

\* The next system call of p's program; fork() starts the child's program.
Step(p) ==
  /\ Idle(p) /\ at[p] <= Len(Program[test][role[p]])
  /\ \E c \in Stmt(p).calls :
       /\ Call(p, c)
       /\ at' = [q \in Proc |-> IF q = p THEN at[p] + 1
                                ELSE IF c.op = "fork" /\ Unused # {} /\ q = Child THEN 1 ELSE at[q]]
       /\ role' = IF c.op = "fork" /\ Unused # {} THEN [role EXCEPT ![Child] = c.role] ELSE role
  /\ UNCHANGED test

TestInit == /\ Init
            /\ test \in Tests
            /\ role = [p \in Proc |-> 1]
            /\ at = [p \in Proc |-> 1]

\* The test is over when its processes have run their programs; it hangs
\* when two of them wait for each other.
Finished == \A p \in Proc : /\ proc[p].state = "run" => Idle(p) /\ at[p] > Len(Program[test][role[p]])
Over == (Finished \/ Deadlocked) /\ UNCHANGED allvars

TestNext == \/ \E p \in Proc : Step(p) \/ (Kernel(p) /\ UNCHANGED <<test, role, at>>)
            \/ Over

Spec == TestInit /\ [][TestNext]_allvars

-----------------------------------------------------------------------------
(* Properties *)

\* Every call returns what the test demands of it, whatever the other
\* processes of the test are doing in the kernel at the time.
Expected ==
  \A p \in Proc :
    Idle(p) /\ at[p] > 1 =>
      Meets(Program[test][role[p]][at[p] - 1], th[p].ret, th[p].buf)

\* "another concurrent link/unlink/create test, to look for deadlocks"
\* (usertests.c): no two calls wait for each other's inode locks.
NoDeadlock == ~Deadlocked

\* create() or unlink() puts the directory while it holds an inode's lock.
PutsUnderLock(p) == th[p].pc \in {"open2", "made", "unlink3"} /\ th[p].puts # <<>>

\* The calls of these programs lock a directory before an inode in it, but for
\* iput(), which takes the directory's lock when create() and unlink() drop it
\* with the inode locked: of two calls that wait for each other's inode locks,
\* one is always there.
OnlyPutsDeadlock ==
  \A p, q \in Proc : WaitsFor(p, q) /\ WaitsFor(q, p) => PutsUnderLock(p) \/ PutsUnderLock(q)

\* "If that was the last reference and the inode has no links to it, free the
\* inode" (iput(), fs.c): an inode without links and references is free.
LastPutFrees == Lost = {}
============================================================================
