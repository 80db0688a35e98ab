------------------------------- MODULE Shell -------------------------------
(***************************************************************************)
(* The shell of xv6_lab3 (sh.c): its parser, and the processes with their  *)
(* descriptors, pipes and waits by which runcmd() runs a parsed line.      *)
(*                                                                         *)
(* A line is a sequence of the tokens of gettoken(): a word "a", "<", ">", *)
(* ">>", "|", "&", ";", "(" and ")".  The parser works on positions in it, *)
(* and a word is known by its position.  Between two fork() or wait() the  *)
(* calls of a process concern its own descriptors: they are one step.      *)
(***************************************************************************)
EXTENDS Integers, Sequences, FiniteSets, FiniteSetsExt

CONSTANTS
  Lines,       \* BOUND: the lines typed first
  NextLines,   \* BOUND: the lines typed after it
  MAXARGS,
  NPROC,       \* BOUND: processes of the shell and of the commands it runs
  MaxLines     \* BOUND: lines typed in a run

ASSUME ShellAssumption ==
  /\ MAXARGS \in Nat \ {0} /\ NPROC \in Nat \ {0} /\ MaxLines \in Nat
  /\ \A s \in Lines \cup NextLines : \A i \in DOMAIN s :
       s[i] \in {"a", "<", ">", ">>", "|", "&", ";", "(", ")"}

-----------------------------------------------------------------------------
(* The parser.  A parse function takes the line and the position ps points  *)
(* at; it gives back the command and the position after it, or Panic.       *)
Panic == [cmd |-> [op |-> "panic"], ps |-> 0]
Parsed(cmd, ps) == [cmd |-> cmd, ps |-> ps]
Panics(r) == r.ps = 0

\* peek() and gettoken() at the end of the line see the NUL.
Token(s, ps) == IF ps <= Len(s) THEN s[ps] ELSE "nul"
Peek(s, ps, toks) == Token(s, ps) \in toks

execcmd(argv) == [op |-> "exec", argv |-> argv]
redircmd(cmd, file, fd) == [op |-> "redir", cmd |-> cmd, file |-> file, fd |-> fd]
pipecmd(left, right, at) == [op |-> "pipe", left |-> left, right |-> right, at |-> at]
listcmd(left, right) == [op |-> "list", left |-> left, right |-> right]
backcmd(cmd) == [op |-> "back", cmd |-> cmd]

\* The redirections of an EXEC are around it: the arguments go into the
\* innermost command, through the pointer parseexec() keeps.
RECURSIVE AddArg(_, _)
AddArg(cmd, q) ==
  IF cmd.op = "redir" THEN [cmd EXCEPT !.cmd = AddArg(@, q)]
  ELSE [cmd EXCEPT !.argv = Append(@, q)]

RECURSIVE Argc(_)
Argc(cmd) == IF cmd.op = "redir" THEN Argc(cmd.cmd) ELSE Len(cmd.argv)

\* Mutant: the last redirection is the innermost one.
RECURSIVE AroundInner(_, _, _)
AroundInner(cmd, file, fd) ==
  IF cmd.op = "redir" THEN [cmd EXCEPT !.cmd = AroundInner(@, file, fd)] ELSE redircmd(cmd, file, fd)

Around(cmd, file, fd) == redircmd(cmd, file, fd)

RECURSIVE parseredirs(_, _, _)
parseredirs(s, cmd, ps) ==
  IF ~Peek(s, ps, {"<", ">", ">>"}) THEN Parsed(cmd, ps)
  ELSE IF Token(s, ps + 1) # "a" THEN Panic
  ELSE parseredirs(s, Around(cmd, ps + 1, IF s[ps] = "<" THEN 0 ELSE 1), ps + 2)

\* The loop of parseexec() over the words of a command.
RECURSIVE parseargs(_, _, _)
parseargs(s, ret, ps) ==
  IF Peek(s, ps, {"|", ")", "&", ";", "nul"}) THEN Parsed(ret, ps)
  ELSE IF s[ps] # "a" \/ Argc(ret) + 1 >= MAXARGS THEN Panic
  ELSE LET r == parseredirs(s, AddArg(ret, ps), ps + 1) IN
       IF Panics(r) THEN Panic ELSE parseargs(s, r.cmd, r.ps)

RECURSIVE parseline(_, _), parsepipe(_, _), parseexec(_, _), parseblock(_, _), Backs(_, _, _)

parseblock(s, ps) ==
  LET r == parseline(s, ps + 1) IN
  IF Panics(r) \/ ~Peek(s, r.ps, {")"}) THEN Panic ELSE parseredirs(s, r.cmd, r.ps + 1)

parseexec(s, ps) ==
  IF Peek(s, ps, {"("}) THEN parseblock(s, ps)
  ELSE LET r == parseredirs(s, execcmd(<<>>), ps) IN
       IF Panics(r) THEN Panic ELSE parseargs(s, r.cmd, r.ps)

parsepipe(s, ps) ==
  LET l == parseexec(s, ps) IN
  IF Panics(l) \/ ~Peek(s, l.ps, {"|"}) THEN l
  ELSE LET r == parsepipe(s, l.ps + 1) IN
       IF Panics(r) THEN Panic ELSE Parsed(pipecmd(l.cmd, r.cmd, l.ps), r.ps)

\* The loop of parseline() over "&".
Backs(s, cmd, ps) ==
  IF Peek(s, ps, {"&"}) THEN Backs(s, backcmd(cmd), ps + 1) ELSE Parsed(cmd, ps)

parseline(s, ps) ==
  LET p == parsepipe(s, ps)
      l == IF Panics(p) THEN Panic ELSE Backs(s, p.cmd, p.ps)
  IN IF Panics(l) \/ ~Peek(s, l.ps, {";"}) THEN l
     ELSE LET r == parseline(s, l.ps + 1) IN
          IF Panics(r) THEN Panic ELSE Parsed(listcmd(l.cmd, r.cmd), r.ps)

\* parsecmd(): something left of the line is a syntax error.
parsecmd(s) ==
  LET r == parseline(s, 1) IN IF Panics(r) \/ r.ps <= Len(s) THEN Panic.cmd ELSE r.cmd

-----------------------------------------------------------------------------
VARIABLES
  prompt,   \* the shell is in getcmd()
  lines,    \* the lines typed so far
  proc,     \* the processes; 1 is the shell
  failed    \* fork() has failed

vars == <<prompt, lines, proc, failed>>

Procs == 1 .. NPROC
Fds == 0 .. 6                     \* BOUND: descriptors; runcmd() needs five
Closed == <<>>
Console == <<"console">>
File(file) == <<"file", file>>
End(n, at, end) == <<"pipe", n, at, end>>   \* of line n, for the "|" at that place

\* A process: where it is; the line and the command it runs; its descriptors;
\* its parent (0 is init); the wait() calls it makes before it goes on.
Unused == [state |-> "unused", job |-> 0, cmd |-> Panic.cmd, fd |-> [i \in Fds |-> Closed],
           parent |-> 0, waits |-> 0]
Sh == [Unused EXCEPT !.state = "sh", !.fd = [i \in Fds |-> IF i <= 2 THEN Console ELSE Closed]]

\* main() has opened the console until there are three descriptors.
Init ==
  /\ prompt = TRUE
  /\ lines = <<>>
  /\ proc = [p \in Procs |-> IF p = 1 THEN Sh ELSE Unused]
  /\ failed = FALSE

\* open() and dup() give the lowest descriptor that is free.
FreeFd(fd) == Min({i \in Fds : fd[i] = Closed})
Opened(fd, what) == [fd EXCEPT ![FreeFd(fd)] = what]
Close(fd, i) == [fd EXCEPT ![i] = Closed]

\* exit(): the descriptors are closed and the children go to init, which reaps
\* its children as they end (init.c).
Exited(p) ==
  [q \in Procs |->
     CASE q = p /\ proc[p].parent # 0 -> [Unused EXCEPT !.state = "zombie", !.parent = proc[p].parent]
       [] q = p \/ (proc[q].parent = p /\ proc[q].state = "zombie") -> Unused
       [] proc[q].parent = p /\ proc[q].state # "zombie" -> [proc[q] EXCEPT !.parent = 0]
       [] OTHER -> proc[q]]

\* fork1(): the process goes on as `after', its child runs c with descriptors
\* fd; without a free slot (the first is the shell's) the process ends.
Free == {q \in Procs \ {1} : proc[q].state = "unused"}
Fork1(p, after, n, c, fd) ==
  /\ failed' = (failed \/ Free = {})
  /\ proc' = IF Free = {} THEN Exited(p)
             ELSE [proc EXCEPT ![p] = after,
                     ![Min(Free)] = [Unused EXCEPT !.state = "run", !.job = n, !.cmd = c,
                                                   !.fd = fd, !.parent = p]]

-----------------------------------------------------------------------------
\* main(): the line is read; a child parses and runs it, and the shell waits.
\* (A line "cd ..." only changes the directory of the shell.)
Getcmd ==
  /\ prompt /\ Len(lines) < MaxLines
  /\ \E s \in IF lines = <<>> THEN Lines ELSE NextLines :
       /\ lines' = Append(lines, s) /\ prompt' = FALSE
       /\ Fork1(1, [proc[1] EXCEPT !.waits = 1], Len(lines'), parsecmd(s), proc[1].fd)

\* End of the input: the shell ends, and init starts another.
Eof ==
  /\ prompt
  /\ proc' = Exited(1) /\ prompt' = FALSE
  /\ UNCHANGED <<lines, failed>>

InitRestarts ==
  /\ proc[1].state = "unused"
  /\ proc' = [proc EXCEPT ![1] = Sh] /\ prompt' = TRUE
  /\ UNCHANGED <<lines, failed>>

\* Mutant: a process that runs a pipe waits once.
PipeWaitsOnce == 1

PipeWaits == 2

\* wait() for a child that has ended.
Wait(p) ==
  /\ proc[p].waits > 0
  /\ \E q \in Procs :
       /\ proc[q].state = "zombie" /\ proc[q].parent = p
       /\ proc' = [proc EXCEPT ![q] = Unused, ![p].waits = @ - 1]
  /\ prompt' = (prompt \/ p = 1)
  /\ UNCHANGED <<lines, failed>>

Running(p, op) == proc[p].state = "run" /\ proc[p].waits = 0 /\ proc[p].cmd.op = op
Becomes(s) == proc' = s /\ UNCHANGED <<prompt, lines, failed>>

\* runcmd() of what parsecmd() refused, of a command without words, and its end.
RunNothing(p) ==
  /\ Running(p, "panic") \/ Running(p, "exit") \/ (Running(p, "exec") /\ proc[p].cmd.argv = <<>>)
  /\ Becomes(Exited(p))

\* exec() succeeds, or runcmd() reports and exits.
RunExec(p) ==
  /\ Running(p, "exec") /\ proc[p].cmd.argv # <<>>
  /\ Becomes([proc EXCEPT ![p].state = "program"]) \/ Becomes(Exited(p))

\* Mutant: the file is opened before the descriptor is closed.
RedirectedLate(fd, i, file) == Close(Opened(fd, File(file)), i)

Redirected(fd, i, file) == Opened(Close(fd, i), File(file))

\* The file is opened, or runcmd() reports and exits.
RunRedir(p) ==
  LET c == proc[p].cmd IN
  /\ Running(p, "redir")
  /\ \/ Becomes([proc EXCEPT ![p].fd = Redirected(@, c.fd, c.file), ![p].cmd = c.cmd])
     \/ Becomes(Exited(p))

\* The left command in a child; then wait() and the right one.
RunList(p) ==
  LET c == proc[p].cmd IN
  /\ Running(p, "list")
  /\ Fork1(p, [proc[p] EXCEPT !.waits = 1, !.cmd = c.right], proc[p].job, c.left, proc[p].fd)
  /\ UNCHANGED <<prompt, lines>>

RunBack(p) ==
  /\ Running(p, "back")
  /\ Fork1(p, [proc[p] EXCEPT !.cmd = [op |-> "exit"]], proc[p].job, proc[p].cmd.cmd, proc[p].fd)
  /\ UNCHANGED <<prompt, lines>>

\* pipe(p), and the first child: the write end becomes its output.
CloseBoth(fd, p0, p1) == Close(Close(fd, p0), p1)

RunPipe(p) ==
  LET c == proc[p].cmd
      p0 == FreeFd(proc[p].fd)
      fd0 == Opened(proc[p].fd, End(proc[p].job, c.at, "r"))
      p1 == FreeFd(fd0)
      fd == Opened(fd0, End(proc[p].job, c.at, "w"))
  IN /\ Running(p, "pipe")
     /\ \/ /\ Fork1(p, [proc[p] EXCEPT !.state = "second", !.fd = fd],
                    proc[p].job, c.left, CloseBoth(Opened(Close(fd, 1), fd[p1]), p0, p1))
           /\ UNCHANGED <<prompt, lines>>
        \/ Becomes(Exited(p))                    \* pipe() failed

\* Mutant: the parent keeps the write end of the pipe open.
ParentFdsWrite(fd, p0, p1) == Close(fd, p0)

ParentFds(fd, p0, p1) == CloseBoth(fd, p0, p1)

\* The second child: the read end becomes its input.  The parent closes both
\* ends and waits for two children.
RunPipeSecond(p) ==
  LET c == proc[p].cmd
      fd == proc[p].fd
      p0 == CHOOSE i \in Fds : fd[i] = End(proc[p].job, c.at, "r")
      p1 == CHOOSE i \in Fds : fd[i] = End(proc[p].job, c.at, "w")
  IN /\ proc[p].state = "second"
     /\ Fork1(p, [proc[p] EXCEPT !.state = "run", !.cmd = [op |-> "exit"], !.waits = PipeWaits,
                                 !.fd = ParentFds(fd, p0, p1)],
              proc[p].job, c.right, CloseBoth(Opened(Close(fd, 0), fd[p0]), p0, p1))
     /\ UNCHANGED <<prompt, lines>>

-----------------------------------------------------------------------------
\* External: the programs.  Pipes (pipe.c): a reader gets to the end when no
\* write end is open; a writer gets rid of its bytes when a program reads them
\* or no read end is open.
HasOpen(what) == {p \in Procs : \E i \in Fds : proc[p].fd[i] = what}
OtherEnd(e) == [e EXCEPT ![4] = IF @ = "r" THEN "w" ELSE "r"]
IsPipe(e) == Len(e) = 4
InputEnds(p) == IsPipe(proc[p].fd[0]) => HasOpen(OtherEnd(proc[p].fd[0])) = {}
OutputGoes(p) == IsPipe(proc[p].fd[1]) =>
  LET readers == HasOpen(OtherEnd(proc[p].fd[1]))
  IN readers = {} \/ \E q \in readers : proc[q].state = "program"

\* A program that has read all its input and written all its output ends.
ProgramEnds(p) ==
  /\ proc[p].state = "program" /\ InputEnds(p) /\ OutputGoes(p)
  /\ Becomes(Exited(p))

\* A program can also end without.
ProgramQuits(p) ==
  /\ proc[p].state = "program"
  /\ Becomes(Exited(p))

Run(p) == \/ RunNothing(p) \/ RunExec(p) \/ RunRedir(p) \/ RunList(p) \/ RunBack(p)
          \/ RunPipe(p) \/ RunPipeSecond(p) \/ Wait(p)

\* The lines are typed and everything they started has ended.
Done ==
  /\ prompt /\ Len(lines) = MaxLines /\ Free = Procs \ {1}
  /\ UNCHANGED vars

Next ==
  \/ Getcmd \/ Eof \/ InitRestarts \/ Done
  \/ \E p \in Procs : Run(p) \/ ProgramEnds(p) \/ ProgramQuits(p)

Spec == Init /\ [][Next]_vars

(* Every process runs, init too, and a program ends once it has read its    *)
(* input to the end and its output is gone.                                 *)
Fairness ==
  /\ WF_vars(InitRestarts)
  /\ \A p \in Procs : WF_vars(Run(p)) /\ WF_vars(ProgramEnds(p))

FairSpec == Spec /\ Fairness

-----------------------------------------------------------------------------
(* The reference: the grammar by which a line is cut at its operators,      *)
(* weakest first, outside parentheses.  Bad marks what is not a command.    *)
Bad == [op |-> "panic"]
Count(s, i, j, t) == Cardinality({k \in i .. j : s[k] = t})
Outside(s, i, k) == Count(s, i, k - 1, "(") = Count(s, i, k - 1, ")")
Cuts(s, i, j, t) == {k \in i .. j : s[k] = t /\ Outside(s, i, k)}

\* Words and redirections from i to j around the command c.
Redirs(s, i, j) == {k \in i .. j : s[k] \in {"<", ">", ">>"}}
RECURSIVE Wrapped(_, _, _)
Wrapped(s, c, ks) ==
  IF ks = {} THEN c
  ELSE redircmd(Wrapped(s, c, ks \ {Max(ks)}), Max(ks) + 1, IF s[Max(ks)] = "<" THEN 0 ELSE 1)
Words(s, i, j) == {k \in i .. j : s[k] = "a" /\ (k = i \/ k - 1 \notin Redirs(s, i, j))}
RedirsHaveFiles(s, i, j) == \A k \in Redirs(s, i, j) : k < j /\ s[k + 1] = "a"
Ordered(S) == [n \in 1 .. Cardinality(S) |-> CHOOSE k \in S : Cardinality({m \in S : m <= k}) = n]

RECURSIVE Line(_, _, _), Back(_, _, _), Pipeline(_, _, _), Simple(_, _, _)
Line(s, i, j) ==
  LET cuts == Cuts(s, i, j, ";") IN
  IF cuts = {} THEN Back(s, i, j)
  ELSE listcmd(Back(s, i, Min(cuts) - 1), Line(s, Min(cuts) + 1, j))
Back(s, i, j) ==
  IF i <= j /\ s[j] = "&" THEN backcmd(Back(s, i, j - 1)) ELSE Pipeline(s, i, j)
Pipeline(s, i, j) ==
  LET cuts == Cuts(s, i, j, "|") IN
  IF cuts = {} THEN Simple(s, i, j)
  ELSE pipecmd(Simple(s, i, Min(cuts) - 1), Pipeline(s, Min(cuts) + 1, j), Min(cuts))
Simple(s, i, j) ==
  IF i <= j /\ s[i] = "("
  THEN LET ends == {k \in i .. j : s[k] = ")" /\ Outside(s, i, k + 1)}
           m == Min(ends)
       IN IF ends = {} THEN Bad
          ELSE IF RedirsHaveFiles(s, m + 1, j) /\ Words(s, m + 1, j) = {}
                  /\ \A k \in m + 1 .. j : s[k] \in {"a", "<", ">", ">>"}
          THEN Wrapped(s, Line(s, i + 1, m - 1), Redirs(s, m + 1, j)) ELSE Bad
  ELSE IF /\ \A k \in i .. j : s[k] \in {"a", "<", ">", ">>"}
          /\ RedirsHaveFiles(s, i, j) /\ Cardinality(Words(s, i, j)) < MAXARGS
  THEN Wrapped(s, execcmd(Ordered(Words(s, i, j))), Redirs(s, i, j)) ELSE Bad

RECURSIVE IsBad(_)
IsBad(c) ==
  CASE c.op = "panic" -> TRUE
    [] c.op = "exec" -> FALSE
    [] c.op \in {"redir", "back"} -> IsBad(c.cmd)
    [] c.op \in {"pipe", "list"} -> IsBad(c.left) \/ IsBad(c.right)

Meant(s) == LET c == Line(s, 1, Len(s)) IN IF IsBad(c) THEN Bad ELSE c

\* The programs of a command, each with the input and output it should get and
\* whether it runs in the background.
RECURSIVE Wiring(_, _, _, _, _)
Wiring(c, n, in, out, bg) ==
  CASE c.op = "panic" -> {}
    [] c.op = "exec" -> {<<c.argv, in, out, bg>>}
    [] c.op = "redir" -> IF c.fd = 0 THEN Wiring(c.cmd, n, File(c.file), out, bg)
                         ELSE Wiring(c.cmd, n, in, File(c.file), bg)
    [] c.op = "pipe" -> Wiring(c.left, n, in, End(n, c.at, "w"), bg)
                        \cup Wiring(c.right, n, End(n, c.at, "r"), out, bg)
    [] c.op = "list" -> Wiring(c.left, n, in, out, bg) \cup Wiring(c.right, n, in, out, bg)
    [] c.op = "back" -> Wiring(c.cmd, n, in, out, TRUE)
Wires(n) == Wiring(Meant(lines[n]), n, Console, Console, FALSE)

(* The types; a process has at most the two wait() calls of a pipe to make, *)
(* and the shell owes none when it prompts.                                 *)
TypeOK ==
  /\ prompt \in BOOLEAN /\ failed \in BOOLEAN
  /\ Len(lines) <= MaxLines /\ \A i \in DOMAIN lines : lines[i] \in Lines \cup NextLines
  /\ \A p \in Procs :
       /\ proc[p].state \in {"unused", "sh", "run", "second", "program", "zombie"}
       /\ proc[p].parent \in 0 .. NPROC /\ proc[p].waits \in 0 .. 2
       /\ proc[p].job \in 0 .. MaxLines
       /\ DOMAIN proc[p].fd = Fds
  /\ prompt => proc[1].state = "sh" /\ proc[1].waits = 0

(* parsecmd() builds the command that the grammar gives the line, and       *)
(* refuses the lines it does not have (sh.c, parsecmd and what it calls).   *)
ParsesGrammar == lines # <<>> => parsecmd(lines[Len(lines)]) = Meant(lines[Len(lines)])

(* A program starts with the input and output its place in the line gives   *)
(* it, and no other descriptor than the console for errors (sh.c, runcmd).  *)
Plumbed == \A p \in Procs : proc[p].state = "program" =>
  /\ \E bg \in BOOLEAN : <<proc[p].cmd.argv, proc[p].fd[0], proc[p].fd[1], bg>> \in Wires(proc[p].job)
  /\ proc[p].fd[2] = Console
  /\ \A i \in Fds : i > 2 => proc[p].fd[i] = Closed

(* When the shell prompts again only programs in the background still run,  *)
(* unless a fork() failed: every wait() was for the child it was meant for. *)
PromptAfterAll == prompt /\ ~failed => \A p \in Procs : proc[p].state = "program" =>
  <<proc[p].cmd.argv, proc[p].fd[0], proc[p].fd[1], TRUE>> \in Wires(proc[p].job)

(* The shell prompts again, and every process it started ends: no process   *)
(* keeps open an end of a pipe that another waits for.                      *)
LinesEnd == []<>(prompt /\ \A p \in Procs : p = 1 \/ proc[p].state = "unused")
=============================================================================
