----------------------------- MODULE ProcessTree -----------------------------
(***************************************************************************)
(* The stop-signal controller together with the processes it signals: the  *)
(* terminal (a shell, or the emulator of an external terminal), the        *)
(* `op run` wrapper, the program and what it forks.  Every step of the     *)
(* controller is one of StopSignalController's, with the pids, the walks   *)
(* and the lookup tied to the process table.                               *)
(*                                                                         *)
(* The operating system is external: processes start, exit and orphan      *)
(* their children at any moment, and a free pid is used again, the one the *)
(* controller holds too.  Only the pids a walk has listed are not handed   *)
(* out until it has signalled them: it signals them in the same turn in    *)
(* which the listing comes back, and pids go round in a cycle of at least  *)
(* 32768.                                                                  *)
(***************************************************************************)
EXTENDS StopSignalController

CONSTANTS
    Terminal,   \* the terminal's own process, the root for integrated ones
    Wrapper,    \* op run
    Program,    \* what op run, or the terminal, runs
    Kids,       \* processes the program and its kids fork
    Others,     \* processes of someone else
    System,     \* the parent of terminals and orphans
    Consoles,   \* subset of {"integratedTerminal", "externalTerminal"}
    PidsFor,    \* process -> the pids it may get, a bound
    MaxExits    \* bound on the processes that end by themselves

Job == {Wrapper, Program} \cup Kids
Procs == Job \cup Others \cup {Terminal}

ASSUME ProcsAssumption ==
    /\ System \notin Procs /\ None \notin Procs
    /\ Terminal \notin Job \cup Others /\ Job \cap Others = {}
    /\ Wrapper \notin {Program} \cup Kids
    /\ Consoles \subseteq {"integratedTerminal", "externalTerminal"}
    /\ PidsFor \in [Procs -> SUBSET Pids]
    /\ MaxExits \in Nat

VARIABLES
    console,    \* the console of the launch
    life,       \* process -> "unborn", "alive" or "dead"
    pidOf,      \* process -> its pid while it lives
    parent,     \* process -> its parent, or System
    exits,      \* how many processes ended by themselves
    listed,     \* walks whose listing has come back: walk -> the pids to signal
    early,      \* history: walk -> the processes alive when its step began
    owner       \* history: the process that had pid when the controller learned it

os == <<life, pidOf, parent, exits>>
tree == <<console, os, listed, early, owner>>
allVars == <<vars, tree>>

Alive == {p \in Procs : life[p] = "alive"}

TreeInit ==
    /\ Init /\ sessionConfig # None
    /\ console \in Consoles
    /\ life = [p \in Procs |-> "unborn"]
    /\ pidOf = [p \in Procs |-> None]
    /\ parent = [p \in Procs |-> System]
    /\ exits = 0
    /\ listed = [w \in {} |-> {}]
    /\ early = [w \in {} |-> {}]
    /\ owner = None

-----------------------------------------------------------------------------
(* The process table. *)

TakenPids == {pidOf[p] : p \in Alive} \cup UNION {listed[w] : w \in DOMAIN listed}

Spawn(p, father) ==
    /\ life[p] = "unborn"
    /\ father \in Alive \cup {System}
    /\ life' = [life EXCEPT ![p] = "alive"]
    /\ \E n \in PidsFor[p] \ TakenPids : pidOf' = [pidOf EXCEPT ![p] = n]
    /\ parent' = [parent EXCEPT ![p] = father]
    /\ UNCHANGED exits

Unobserved == UNCHANGED <<vars, console, listed, early, owner>>

(* VS Code opens the terminal, which starts the wrapper, or the program       *)
(* itself when the request was left as it is.                                 *)
TerminalStarts == launches > 0 /\ Spawn(Terminal, System) /\ Unobserved
WrapperStarts == launchMarker # None /\ Spawn(Wrapper, Terminal) /\ Unobserved
ProgramStarts ==
    /\ launches > 0
    /\ Spawn(Program, IF launchMarker # None THEN Wrapper ELSE Terminal)
    /\ Unobserved

Forks(k, father) == Spawn(k, father) /\ Unobserved
OtherStarts(o, father) == Spawn(o, father) /\ Unobserved

(* The dead leave the table; their children get a new parent. *)
Bury(dead) ==
    /\ life' = [p \in Procs |-> IF p \in dead THEN "dead" ELSE life[p]]
    /\ pidOf' = [p \in Procs |-> IF p \in dead THEN None ELSE pidOf[p]]
    /\ parent' = [p \in Procs |-> IF p \in dead \/ parent[p] \in dead THEN System ELSE parent[p]]

Exits(p) ==
    /\ p \in Alive /\ exits < MaxExits
    /\ exits' = exits + 1
    /\ Bury({p}) /\ Unobserved

(* The process with pid n and those with an unbroken line of parents to it:   *)
(* the least set that holds the one and, with a process, its children.        *)
Below(n) ==
    LET Tree(procs) == /\ \A p \in Alive : pidOf[p] = n => p \in procs
                       /\ \A p \in Alive : parent[p] \in procs => p \in procs
    IN  {p \in Alive : \A procs \in SUBSET Alive : Tree(procs) => p \in procs}

PidsOf(procs) == {pidOf[p] : p \in procs}

-----------------------------------------------------------------------------
(* The controller's turns. *)

(* A history of who was there when a step began. *)
Remember ==
    early' = [w \in walks' |-> IF w \in walks THEN early[w] ELSE Alive]

OfController(action) == action /\ Remember /\ UNCHANGED <<console, os, listed>>

Elsewhere(action) == OfController(action) /\ UNCHANGED owner

Request == Elsewhere(RunInTerminalRequest)

(* An integrated terminal reports its shell, an external one no pid; where the *)
(* shell is left out, processId is that of the wrapped command.                *)
Response ==
    /\ OfController(RunInTerminalResponse)
    /\ \/ pid' = pid /\ UNCHANGED owner
       \/ /\ console = "integratedTerminal" /\ Terminal \in Alive
          /\ pid' = pidOf[Terminal] /\ owner' = Terminal
       \/ /\ Wrapper \in Alive
          /\ pid' = pidOf[Wrapper] /\ owner' = Wrapper

(* The adapter reports the exit of the program it started. *)
Exited == life[Program] = "dead" /\ Elsewhere(ExitedEvent)

(* pgrep -f finds the wrapper by its command line, and the emulator of an     *)
(* external terminal, which may carry the command too; whichever has the      *)
(* lowest pid comes first.                                                    *)
Matching ==
    {p \in Alive : \/ p = Wrapper
                   \/ p = Terminal /\ console = "externalTerminal"}

LookupEnds(s) ==
    /\ OfController(LookupReturns(s))
    /\ \/ phase'[s] = "lost" /\ UNCHANGED owner
       \/ /\ phase'[s] = "dispatched"
          /\ owner' \in Matching /\ pid' = pidOf[owner']

(* A bug: the root is signalled like the rest. *)
TargetsWithRoot(root) == PidsOf(Below(root))

(* A bug: only the children of the root are signalled. *)
ChildrenOnly(root) == PidsOf({p \in Alive : parent[p] \in Alive /\ pidOf[parent[p]] = root})

(* A bug: orphans are taken for the launch's own. *)
TargetsAndOrphans(root) ==
    PidsOf(Below(root) \cup {p \in Alive : parent[p] = System /\ p # Terminal}) \ {root}

Targets(root) == PidsOf(Below(root)) \ {root}

(* pidtree lists the tree of the root, or fails and counts as empty. *)
WalkLists(walk) ==
    /\ walk \in walks \ DOMAIN listed
    /\ \E pids \in {Targets(walk[3]), {}} :
            listed' = [w \in DOMAIN listed \cup {walk} |-> IF w = walk THEN pids ELSE listed[w]]
    /\ UNCHANGED <<vars, console, os, early, owner>>

SignalOf(walk) == Steps[walk[2]].signal

(* Then each pid is signalled; one that is gone is passed over. *)
Hit(walk) == {p \in Alive : pidOf[p] \in listed[walk]}

(* KILL ends a process, what it does on another signal is left to it. *)
WalkSignals(walk) ==
    /\ walk \in DOMAIN listed
    /\ WalkReturns(walk)
    /\ sent' = sent <=> listed[walk] = {}
    /\ IF Steps[walk[2]].signal = "KILL" THEN Bury(Hit(walk)) ELSE UNCHANGED <<life, pidOf, parent>>
    /\ listed' = [w \in DOMAIN listed \ {walk} |-> listed[w]]
    /\ Remember /\ UNCHANGED <<console, exits, owner>>

TreeNext ==
    \/ TerminalStarts \/ WrapperStarts \/ ProgramStarts
    \/ \E k \in Kids, father \in {Program} \cup Kids : Forks(k, father)
    \/ \E o \in Others, father \in Others \cup {System} : OtherStarts(o, father)
    \/ \E p \in Procs : Exits(p)
    \/ Request \/ Response \/ Exited \/ Elsewhere(AdapterExits) \/ Elsewhere(Tick)
    \/ \E s \in Stops : Elsewhere(Disconnect(s)) \/ LookupEnds(s)
    \/ \E t \in DOMAIN armed : Elsewhere(TimerFires(t[1], t[2]))
    \/ \E walk \in walks : WalkLists(walk) \/ WalkSignals(walk)

TreeSpec == TreeInit /\ [][TreeNext]_allVars

(* What Node, pgrep and pidtree do in the controller's turns: timers fire, time *)
(* goes on, lookups and both halves of a walk return.                           *)
NodeMoves ==
    \/ Elsewhere(Tick)
    \/ \E s \in Stops : LookupEnds(s)
    \/ \E t \in DOMAIN armed : Elsewhere(TimerFires(t[1], t[2]))
    \/ \E walk \in walks : WalkLists(walk) \/ WalkSignals(walk)

(* These go on while there is one to take: each brings the sequences nearer to  *)
(* their end, so none can starve another.  Nothing is assumed of processes,     *)
(* adapter and user.                                                            *)
TreeFairness == WF_allVars(NodeMoves)

FairTreeSpec == TreeSpec /\ TreeFairness

-----------------------------------------------------------------------------
(***************************************************************************)
(* Properties.                                                             *)
(***************************************************************************)

(* The root of a walk is still the process the controller learned of. *)
RootLives(walk) == owner \in Alive /\ pidOf[owner] = walk[3]

(* From the listing to the signals: the process that hosts the terminal is not  *)
(* among the signalled ones (README.md:202-203), whichever way the root was     *)
(* found and however the tree changes on the way.                               *)
HostIsSpared == \A walk \in DOMAIN listed : Terminal \notin Hit(walk)

(* While the root lives, a step signals no process outside the launch, though   *)
(* the pids of processes that end between steps are used again.                 *)
OutsidersAreSpared ==
    \A walk \in DOMAIN listed : RootLives(walk) => Hit(walk) \cap Others = {}

(* Each step walks the tree anew: a process that was there when the step began  *)
(* and still hangs below the root gets the step's signal (README.md:203-204).   *)
DescendantsAreSignalled ==
    \A walk \in DOMAIN listed : RootLives(walk) /\ listed[walk] # {} =>
        (early[walk] \cap Below(walk[3])) \ {owner} \subseteq Hit(walk)

KillToCome(s) == \E i \in Len(begun[s]) + 1..Last : Steps[i].signal = "KILL"
HangsBelowRoot == owner \in Alive /\ Program \in Below(pidOf[owner])
CutLoose == exits > 0 /\ ~HangsBelowRoot
KillFindsNothing == \E walk \in DOMAIN listed : SignalOf(walk) = "KILL" /\ listed[walk] = {}

(* A program that lets every other signal pass is ended by the KILL of the      *)
(* sequence, through the wrapper and whichever root was found, unless the       *)
(* adapter exits first, a process between them ends by itself, or pidtree fails *)
(* (README.md:170-197).                                                        *)
KillEndsProgram ==
    \A s \in Stops :
        phase[s] = "dispatched" /\ KillToCome(s) /\ Program \in Alive
            ~> Program \notin Alive \/ stopped \/ CutLoose \/ KillFindsNothing

=============================================================================
