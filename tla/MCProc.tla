------------------------------ MODULE MCProc ------------------------------
\* Small instances of Proc for TLC.
EXTENDS Proc

CONSTANTS c0, c1

OneCpu == {c0}
TwoCpus == {c0, c1}
OnlyZero == {0}
LowHigh == {-11, 0, 10}
AnyPid == 0 .. MaxPid

\* A shell and its first child; the next shell and init are not killed.
Family == {2, 3}

Anyone(calls) == [n \in 1 .. MaxPid |-> calls]

BornKilledCalls == Anyone({"fork", "exit", "kill"})
WaitpidCalls == Anyone({"fork", "exit", "waitpid"})
TableCalls == Anyone({"fork", "exit", "wait", "waitpid", "setpriority", "getpriority"})

\* A shell that forks, its child that sleeps, and the shell after it.
LiveCalls == <<{}, {"fork", "kill"}, {"sleep", "kill"}, {"kill"}>>
=============================================================================
