---------------------------- MODULE MCProcessTree ----------------------------
(***************************************************************************)
(* A terminal, its wrapper and program, a fork and a stranger, two of      *)
(* which may end by themselves.  The pids of the launch's processes are    *)
(* told apart; the stranger gets the root's or the fork's once it is free. *)
(***************************************************************************)
EXTENDS ProcessTree

CONSTANTS Kid, Stranger

MCPids == 1..4

MCPidsFor ==
    [p \in Procs |-> CASE p = Terminal -> {1} [] p = Wrapper -> {2} [] p = Program -> {3}
                       [] p = Kid -> {4} [] OTHER -> {1, 4}]

TermKill == {<<[delay |-> 0, signal |-> "TERM"], [delay |-> 1, signal |-> "KILL"]>>}
=============================================================================
