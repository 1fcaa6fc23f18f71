----------------------------- MODULE MCTempDirs -----------------------------
(***************************************************************************)
(* Three hosts are enough for one that crashes, one that sweeps and one    *)
(* that uses the first one's pid again or sweeps as well, and two sessions *)
(* for a clean-up that could take the wrong directory; the names are       *)
(* interchangeable.                                                        *)
(***************************************************************************)
EXTENDS TempDirs, FiniteSets, TLC

CONSTANT MaxStarts  \* bound on hosts and sessions started, where there are two sessions

Symmetric == Permutations(Hosts) \cup Permutations(Sessions) \cup Permutations(Pids)

StartedHosts == {h \in Hosts : host[h] # "down"}
StartedSessions == {s \in Sessions : session[s].phase # "none"}

UsedPids == {pid[h] : h \in StartedHosts}
Created == {d \in Dirs : owner[d] # None}

(* Three hosts with one session, or two sessions in one host; two pids for    *)
(* any number of directories, or three for one.                              *)
FewStarts ==
    /\ \/ Cardinality(StartedSessions) <= 1
       \/ Cardinality(StartedHosts) + Cardinality(StartedSessions) <= MaxStarts
    /\ Cardinality(UsedPids) <= 2 \/ Cardinality(Created) <= 1
=============================================================================
