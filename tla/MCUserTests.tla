---------------------------- MODULE MCUserTests ----------------------------
(* Instances of UserTests: a small disk with three files on it. *)
EXTENDS UserTests

MCImage == << [name |-> "README", data |-> <<"readme">>],
              [name |-> "cat", data |-> <<"elf">>],
              [name |-> "echo", data |-> <<"elf">>] >>

MCLonger == [n \in {"123456789012345"} |-> "12345678901234"]

\* Calls on a shared descriptor, a directory and one name in it.
MCAnyCalls ==
  {creat(<<"d", "a">>, "rw"), unlink(<<"d", "a">>), unlink(<<"d">>), unlink(<<"f">>),
   link(<<"f">>, <<"d", "a">>), link(<<"f">>, <<"f">>), chdir(<<"d">>), mkdir(<<"d", "a">>), open(<<"..">>, "r"),
   write(0, <<"v", "v", "v">>), write(0, <<>>), read(0, 2), close(0), dup(0), pipe, fstat(0)}
============================================================================
