------------------------------ MODULE MCShell ------------------------------
\* Small instances of Shell for TLC.
EXTENDS Shell, SequencesExt

Tokens == {"a", "<", ">", ">>", "|", "&", ";", "(", ")"}
Joined(s, t, u) == s \o t \o u

\* All lines of up to three tokens, and longer ones put together of parts.
Parts == {<<"a">>, <<"a", "&">>, <<"a", "|", "a">>, <<"a", ">", "a">>, <<"<", "a", "a">>}
Blocks == {Joined(<<"(">>, s, <<")">>) : s \in Parts}
MCLines ==
  UNION {[1 .. n -> Tokens] : n \in 0 .. 3}
  \cup {Joined(s, <<t>>, u) : s \in Parts \cup Blocks, u \in Parts \cup Blocks, t \in {"|", ";"}}
  \cup {<<"(", "a", ")", "a">>, <<"a", ")", "(", "a">>, <<"(", "(", "a", ")", ">", "a", ")">>}
  \cup {<<"a", "a", "a", "a">>, <<"a", ">", "a", ">", "a">>, <<"(", "a", ";", "a", ")", ">", "a", "&">>,
        <<"a", "|", "a", "|", "a">>, <<"(", "a", "|", "a", ")", "&", ";", "a", "|", "a">>}
MCNextLines == {<<"a", "|", "a">>}
=============================================================================
