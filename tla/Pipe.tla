-------------------------------- MODULE Pipe --------------------------------
(***************************************************************************)
(* A pipe of xv6_lab3 (pipe.c) shared by processes that inherited its ends *)
(* by fork(): write, read, close and kill.                                 *)
(*                                                                         *)
(* pipewrite() and piperead() hold p->lock from their start, or from the   *)
(* return of their sleep, until they return or sleep again: that section   *)
(* is one step.  It is split where kill(), which does not take p->lock,    *)
(* can come in between: after the look at killed, before the sleep.        *)
(***************************************************************************)
EXTENDS Integers, Sequences, FiniteSets, FiniteSetsExt

CONSTANTS
  Procs,
  NoProc,
  Bytes,
  PIPESIZE,
  UINT,        \* 2^32: nread and nwrite count modulo this
  Written,     \* BOUND: the byte strings that write() calls are given
  MaxCount,    \* BOUND: bytes one read() asks for
  Killable     \* the processes that somebody kills

ASSUME PipeConstants ==
  /\ NoProc \notin Procs
  /\ PIPESIZE \in Nat \ {0}
  /\ UINT \in Nat /\ UINT % PIPESIZE = 0 /\ UINT > PIPESIZE
  /\ MaxCount \in Nat
  /\ Bytes # {} /\ Written \subseteq Seq(Bytes)
  /\ Killable \subseteq Procs

VARIABLES
  data, nread, nwrite, readopen, writeopen,    \* struct pipe
  lock,         \* the process that holds p->lock between two steps, or NoProc
  freed,        \* how often the page of the pipe was freed
  ends,         \* process -> the ends it has open, in {"r", "w"}
  pc, killed,   \* process -> where it is; 1 after kill()
  addr,         \* process -> the bytes its write() still has to put in
  handed        \* the bytes the last piperead() copied out

vars == <<data, nread, nwrite, readopen, writeopen, lock, freed, ends, pc, killed, addr, handed>>
pipe == <<data, nread, nwrite, readopen, writeopen>>

PCs == {"user", "write", "write_sleeps", "write_asleep", "read", "read_sleeps",
        "read_asleep", "close_r", "close_w", "gone"}

\* pipe() and fork() have left each process with some of the ends.
Init ==
  /\ data = [i \in 0 .. PIPESIZE - 1 |-> CHOOSE v \in Bytes : TRUE]
  /\ nread = 0 /\ nwrite = 0
  /\ readopen = 1 /\ writeopen = 1
  /\ lock = NoProc
  /\ freed = 0
  /\ ends \in [Procs -> SUBSET {"r", "w"}]
  /\ UNION {ends[p] : p \in Procs} = {"r", "w"}
  /\ pc = [p \in Procs |-> "user"]
  /\ killed = [p \in Procs |-> 0]
  /\ addr = [p \in Procs |-> <<>>]
  /\ handed = <<>>

-----------------------------------------------------------------------------
\* wakeup() on the program counters s of the processes asleep at `at'.
Awake(at) == IF at = "write_asleep" THEN "write" ELSE "read"
Wakeup(at, s) == [p \in Procs |-> IF s[p] = at THEN Awake(at) ELSE s[p]]
WakeReaders(s) == Wakeup("read_asleep", s)
WakeWriters(s) == Wakeup("write_asleep", s)

\* The buffer is full; the sum wraps as uint does.  Mutant: one byte late.
IsFullLate(w, r) == w = (r + PIPESIZE + 1) % UINT
IsFull(w, r) == w = (r + PIPESIZE) % UINT

\* How many bytes can go in before the while loop of pipewrite() stops at a
\* full buffer.
Room == Min({k \in 0 .. UINT : IsFull((nwrite + k) % UINT, nread)})

\* How many bytes there are for piperead()'s loop.
Used == Min({k \in 0 .. UINT : (nread + k) % UINT = nwrite})

\* write(fd, addr, n)
CallWrite(p) ==
  /\ pc[p] = "user" /\ "w" \in ends[p]
  /\ \E s \in Written : addr' = [addr EXCEPT ![p] = s]
  /\ pc' = [pc EXCEPT ![p] = "write"]
  /\ UNCHANGED <<pipe, lock, freed, ends, killed, handed>>

\* The bytes s go into the buffer.
PutBytes(s) ==
  /\ data' = [i \in 0 .. PIPESIZE - 1 |->
                LET k == (i - nwrite) % PIPESIZE
                IN IF k < Len(s) THEN s[k + 1] ELSE data[i]]
  /\ nwrite' = (nwrite + Len(s)) % UINT

\* pipewrite() puts in the rest of its bytes and returns n.  Mutant: the
\* readers are not woken.
WriteWakesNone(s) == s
WriteWakes(s) == WakeReaders(s)

WriteAll(p) ==
  /\ pc[p] = "write" /\ lock = NoProc
  /\ Len(addr[p]) <= Room
  /\ PutBytes(addr[p])
  /\ pc' = WriteWakes([pc EXCEPT ![p] = "user"])
  /\ addr' = [addr EXCEPT ![p] = <<>>]
  /\ UNCHANGED <<nread, readopen, writeopen, lock, freed, ends, killed, handed>>

\* pipewrite() puts in what fits, finds the buffer full, and gives up
\* because nobody can read or it was killed.
WriteFails(p) ==
  /\ pc[p] = "write" /\ lock = NoProc
  /\ Len(addr[p]) > Room
  /\ readopen = 0 \/ killed[p] = 1
  /\ PutBytes(SubSeq(addr[p], 1, Room))
  /\ pc' = [pc EXCEPT ![p] = "user"]
  /\ addr' = [addr EXCEPT ![p] = <<>>]
  /\ UNCHANGED <<nread, readopen, writeopen, lock, freed, ends, killed, handed>>

\* The same, but it will sleep, with p->lock still held.
WriteFull(p) ==
  /\ pc[p] = "write" /\ lock = NoProc
  /\ Len(addr[p]) > Room
  /\ readopen = 1 /\ killed[p] = 0
  /\ PutBytes(SubSeq(addr[p], 1, Room))
  /\ pc' = WakeReaders([pc EXCEPT ![p] = "write_sleeps"])
  /\ addr' = [addr EXCEPT ![p] = SubSeq(@, Room + 1, Len(@))]
  /\ lock' = p
  /\ UNCHANGED <<nread, readopen, writeopen, freed, ends, killed, handed>>

\* sleep(chan, &p->lock)
Sleep(p, from, to) ==
  /\ pc[p] = from
  /\ pc' = [pc EXCEPT ![p] = to]
  /\ lock' = NoProc
  /\ UNCHANGED <<pipe, freed, ends, killed, addr, handed>>

WriteSleeps(p) == Sleep(p, "write_sleeps", "write_asleep")

\* read(fd, addr, n)
CallRead(p) ==
  /\ pc[p] = "user" /\ "r" \in ends[p]
  /\ pc' = [pc EXCEPT ![p] = "read"]
  /\ UNCHANGED <<pipe, lock, freed, ends, killed, addr, handed>>

Empty == nread = nwrite

\* piperead() copies out up to n > 0 bytes.
ReadSome(p) ==
  /\ pc[p] = "read" /\ lock = NoProc
  /\ ~(Empty /\ writeopen = 1)
  /\ \E n \in 1 .. MaxCount : LET k == Min({n, Used}) IN
       /\ handed' = [i \in 1 .. k |-> data[(nread + i - 1) % PIPESIZE]]
       /\ nread' = (nread + k) % UINT
  /\ pc' = WakeWriters([pc EXCEPT ![p] = "user"])
  /\ UNCHANGED <<data, nwrite, readopen, writeopen, lock, freed, ends, killed, addr>>

ReadKilled(p) ==
  /\ pc[p] = "read" /\ lock = NoProc
  /\ Empty /\ writeopen = 1 /\ killed[p] = 1
  /\ pc' = [pc EXCEPT ![p] = "user"]
  /\ UNCHANGED <<pipe, lock, freed, ends, killed, addr, handed>>

ReadEmpty(p) ==
  /\ pc[p] = "read" /\ lock = NoProc
  /\ Empty /\ writeopen = 1 /\ killed[p] = 0
  /\ pc' = [pc EXCEPT ![p] = "read_sleeps"]
  /\ lock' = p
  /\ UNCHANGED <<pipe, freed, ends, killed, addr, handed>>

ReadSleeps(p) == Sleep(p, "read_sleeps", "read_asleep")

-----------------------------------------------------------------------------
\* fileclose(): the reference goes; the last one of an end closes the pipe's.
Last(p, e) == \A o \in Procs \ {p} : e \notin ends[o]

Close(p, e) ==
  /\ pc[p] = "user" /\ e \in ends[p]
  /\ ends' = [ends EXCEPT ![p] = @ \ {e}]
  /\ pc' = [pc EXCEPT ![p] = IF Last(p, e) THEN (IF e = "r" THEN "close_r" ELSE "close_w") ELSE @]
  /\ UNCHANGED <<pipe, lock, freed, killed, addr, handed>>

\* pipeclose() frees the page when the other end is closed too.  Mutant: it
\* looks at its own end only.
FreesAtOnce(other) == TRUE
Frees(other) == other = 0

\* Mutant: nobody is told that the end is closed.
CloseWakesNone(s) == s
CloseWakes(s) == WakeReaders(s)

PipeCloseWrite(p) ==
  /\ pc[p] = "close_w" /\ lock = NoProc
  /\ writeopen' = 0
  /\ freed' = IF Frees(readopen) THEN freed + 1 ELSE freed
  /\ pc' = CloseWakes([pc EXCEPT ![p] = "user"])
  /\ UNCHANGED <<data, nread, nwrite, readopen, lock, ends, killed, addr, handed>>

PipeCloseRead(p) ==
  /\ pc[p] = "close_r" /\ lock = NoProc
  /\ readopen' = 0
  /\ freed' = IF Frees(writeopen) THEN freed + 1 ELSE freed
  /\ pc' = WakeWriters([pc EXCEPT ![p] = "user"])
  /\ UNCHANGED <<data, nread, nwrite, writeopen, lock, ends, killed, addr, handed>>

\* kill() marks p and wakes it if it sleeps.
Kill(p) ==
  /\ p \in Killable /\ killed[p] = 0 /\ pc[p] # "gone"
  /\ killed' = [killed EXCEPT ![p] = 1]
  /\ pc' = [pc EXCEPT ![p] = IF @ \in {"write_asleep", "read_asleep"} THEN Awake(@) ELSE @]
  /\ UNCHANGED <<pipe, lock, freed, ends, addr, handed>>

\* exit() after every end is closed.
Exit(p) ==
  /\ pc[p] = "user" /\ ends[p] = {}
  /\ pc' = [pc EXCEPT ![p] = "gone"]
  /\ UNCHANGED <<pipe, lock, freed, ends, killed, addr, handed>>

-----------------------------------------------------------------------------
\* A killed process makes no further call: trap() sends it to exit(), which
\* closes what it has open.
Call(p) == killed[p] = 0 /\ (CallWrite(p) \/ CallRead(p))

KernelStep(p) ==
  \/ WriteAll(p) \/ WriteFails(p) \/ WriteFull(p) \/ WriteSleeps(p)
  \/ ReadSome(p) \/ ReadKilled(p) \/ ReadEmpty(p) \/ ReadSleeps(p)
  \/ PipeCloseWrite(p) \/ PipeCloseRead(p)

AllGone == \A p \in Procs : pc[p] = "gone"

Next ==
  \/ \E p \in Procs :
       \/ Call(p) \/ KernelStep(p) \/ Kill(p) \/ Exit(p)
       \/ \E e \in {"r", "w"} : Close(p, e)
  \/ AllGone /\ UNCHANGED vars

Spec == Init /\ [][Next]_vars

\* The kernel goes on with every call.  A program is trusted to do one thing:
\* a process that is not in a call does not keep its ends for ever.
Fairness ==
  \A p \in Procs :
    /\ SF_vars(KernelStep(p))
    /\ SF_vars(\E e \in {"r", "w"} : Close(p, e))

FairSpec == Spec /\ Fairness

-----------------------------------------------------------------------------
\* Properties

\* Every variable has its type; the page of the pipe is freed at most once.
TypeOK ==
  /\ data \in [0 .. PIPESIZE - 1 -> Bytes]
  /\ nread \in 0 .. UINT - 1 /\ nwrite \in 0 .. UINT - 1
  /\ readopen \in {0, 1} /\ writeopen \in {0, 1}
  /\ lock \in Procs \cup {NoProc}
  /\ freed \in {0, 1}
  /\ ends \in [Procs -> SUBSET {"r", "w"}]
  /\ pc \in [Procs -> PCs]
  /\ killed \in [Procs -> {0, 1}]
  /\ addr \in [Procs -> Seq(Bytes)]
  /\ handed \in UNION {[1 .. n -> Bytes] : n \in 0 .. PIPESIZE}

\* sleep(): "we can be guaranteed that we won't miss any wakeup".  A writer
\* asleep has a full pipe that may still be read, a reader asleep an empty
\* one that may still be written: no write, read or close leaves behind a
\* sleeper it should have woken.  The one exception is pipewrite() of a killed
\* process, which returns -1 without waking the readers of what it put in.
SleepersHaveReason ==
  \A p \in Procs :
    /\ pc[p] = "write_asleep" => IsFull(nwrite, nread) /\ readopen = 1
    /\ pc[p] = "read_asleep" => writeopen = 1 /\ (Empty \/ \E o \in Procs \ {p} : killed[o] = 1)

\* The page of the pipe is freed only when no process has an end open, is
\* inside a call or still has to close: no use after the free.
FreedIsUnused ==
  freed > 0 => \A p \in Procs : ends[p] = {} /\ pc[p] \in {"user", "gone"}

\* The ring buffer with its wrapping counters is a queue: bytes come out in
\* the order they went in, none lost, none twice, and a read comes back
\* empty only after the last writer is gone and everything has been read.
Queue == INSTANCE Fifo WITH
  Capacity <- PIPESIZE,
  q        <- [i \in 1 .. Used |-> data[(nread + i - 1) % PIPESIZE]],
  open     <- writeopen

IsFifo == Queue!FifoSpec

\* When nobody keeps the end it does not use, everybody who sleeps in a pipe
\* wakes up in the end.
SleepersWake ==
  \A p \in Procs :
    (pc[p] \in {"read_asleep", "write_asleep"} /\ \A o \in Procs : ends[o] # {"r", "w"})
      ~> pc[p] \notin {"read_asleep", "write_asleep"}

-----------------------------------------------------------------------------
\* The inductive invariant behind FreedIsUnused, SleepersHaveReason and IsFifo

\* p->lock is held between two steps only on the way into a sleep.
LockInv == \A p \in Procs : pc[p] \in {"write_sleeps", "read_sleeps"} <=> lock = p

\* Who is in a call has the end it is for; an end is open while somebody has
\* it or the one process that gave up the last reference has still to close
\* it; the page is freed when both ends are closed.
EndsInv ==
  /\ \A p \in Procs :
       /\ pc[p] \in {"write", "write_sleeps", "write_asleep"} => "w" \in ends[p]
       /\ pc[p] \in {"read", "read_sleeps", "read_asleep"} => "r" \in ends[p]
       /\ pc[p] = "gone" => ends[p] = {}
       /\ "w" \in ends[p] \/ pc[p] = "close_w" => writeopen = 1
       /\ "r" \in ends[p] \/ pc[p] = "close_r" => readopen = 1
  /\ \A p, o \in Procs :
       /\ pc[p] = "close_w" => "w" \notin ends[o] /\ (pc[o] = "close_w" => o = p)
       /\ pc[p] = "close_r" => "r" \notin ends[o] /\ (pc[o] = "close_r" => o = p)
  /\ freed = IF readopen = 0 /\ writeopen = 0 THEN 1 ELSE 0

\* How many bytes lie between two counters.
Ahead(w, r) == IF r <= w THEN w - r ELSE w + UINT - r

\* There are never more bytes than the buffer holds, and who is about to
\* sleep has the reason that SleepersHaveReason asks of who does.
QueueInv ==
  /\ Ahead(nwrite, nread) <= PIPESIZE
  /\ SleepersHaveReason
  /\ \A p \in Procs :
       /\ pc[p] = "write_sleeps" => IsFull(nwrite, nread) /\ readopen = 1
       /\ pc[p] = "read_sleeps" => Empty /\ writeopen = 1

IndInv == TypeOK /\ LockInv /\ EndsInv /\ QueueInv
=============================================================================
