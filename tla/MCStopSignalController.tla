----------------------- MODULE MCStopSignalController -----------------------
(***************************************************************************)
(* Small step sequences: immediate, delayed, mixed and empty ones.         *)
(***************************************************************************)
EXTENDS StopSignalController

S(delay, signal) == [delay |-> delay, signal |-> signal]

TermKill == <<S(0, "TERM"), S(2, "KILL")>>
DelayedTriple == <<S(1, "INT"), S(0, "TERM"), S(1, "KILL")>>
ImmediatePair == <<S(0, "INT"), S(0, "TERM")>>

AllConfigs == {TermKill, DelayedTriple, << >>}
ImmediateConfigs == {ImmediatePair}
=============================================================================
