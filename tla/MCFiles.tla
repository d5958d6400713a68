------------------------------ MODULE MCFiles -------------------------------
(* Two threads of the first process and one of a process that it starts.   *)
EXTENDS Files, TLC

CONSTANTS t1, t2, t3

MCTask   == {t1, t2, t3}
MCProcOf == [t \in MCTask |-> IF t = t3 THEN 2 ELSE 1]

MCSymmetry == Permutations({t1, t2})

MCInitFiles == <<<<<<"etc", "hello">>, 2>>, <<<<"bin", "ls">>, 1>>>>

\* "/etc/hello", "hello", "..", "/dev/tty.serial", "/dev", "etc/",
\* "/etc//hello", "/bin/ls/x", "nope" and "/"
MCPaths ==
  {<<"", "etc", "hello">>, <<"hello">>, <<"..">>, Tty, <<"", "dev">>,
   <<"etc", "">>, <<"", "etc", "", "hello">>, <<"", "bin", "ls", "x">>,
   <<"nope">>, Slash}
=============================================================================
