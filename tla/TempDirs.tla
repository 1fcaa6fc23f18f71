------------------------------- MODULE TempDirs -------------------------------
(***************************************************************************)
(* The temp directories that hold env files: who creates them, who removes *)
(* them, and what a crash leaves behind.  Several extension hosts, one for *)
(* each VS Code window, share os.tmpdir().                                 *)
(*                                                                         *)
(* Inside one host all of this is synchronous, so a host that is busy with *)
(* a task does nothing else; but every file operation is an action, as the *)
(* other hosts run meanwhile and a host can crash between two of them.     *)
(* mkdtemp names are random: a name is used once.  A host of the model     *)
(* that never opens a session stands for any other process with a pid.     *)
(***************************************************************************)
EXTENDS Naturals

CONSTANTS
    Hosts,      \* runs of an extension host process, each at most once
    Sessions,   \* debug sessions
    Pids,       \* process ids; a dead host's can be used again
    MaxDirs,    \* bound on the directories created
    None        \* undefined

Dirs == 1..MaxDirs
Files == {"env", ".pid", "template"}

ASSUME ConstantsAssumption ==
    /\ MaxDirs \in Nat
    /\ None \notin Hosts \cup Sessions \cup Pids \cup Nat
    /\ None \notin [files: SUBSET Files, pid: Pids \cup {None}]

VARIABLES
    host,       \* host -> "down", "up" or "dead"
    pid,        \* host -> its process id
    active,     \* hosts whose extension is activated
    task,       \* host -> the synchronous work it is in the middle of
    registry,   \* host -> InMemoryTempDirRegistry.directories
    templates,  \* host -> directories of inject calls in flight
    session,    \* session -> its host, phase and the tracker's directories
    disk,       \* directory -> its files and what .pid says, or None
    owner,      \* history: directory -> the host that created it
    handed,     \* history: directories a rewrite has handed to its tracker
    removing,   \* history: directories whose removal has begun
    stuck,      \* history: directories whose removal failed
    due         \* history: host -> leftovers whose .pid its sweep can read

disks == <<disk, owner, removing, stuck>>
vars == <<host, pid, active, task, registry, templates, session, disks, handed, due>>

Idle == [kind |-> "idle", stage |-> "scan", session |-> None,
         todo |-> {}, dir |-> None, read |-> None]

Init ==
    /\ host = [h \in Hosts |-> "down"]
    /\ pid = [h \in Hosts |-> None]
    /\ active = {}
    /\ task = [h \in Hosts |-> Idle]
    /\ registry = [h \in Hosts |-> {}]
    /\ templates = [h \in Hosts |-> {}]
    /\ session = [s \in Sessions |-> [host |-> None, phase |-> "none", dirs |-> {}]]
    /\ disk = [d \in Dirs |-> None]
    /\ owner = [d \in Dirs |-> None]
    /\ handed = {} /\ removing = {} /\ stuck = {}
    /\ due = [h \in Hosts |-> {}]

OnDisk == {d \in Dirs : disk[d] # None}
IsPidAlive(p) == \E h \in Hosts : host[h] = "up" /\ pid[h] = p
Ready(h) == host[h] = "up" /\ task[h].kind = "idle"
Busy(h, kind, stage) ==
    host[h] = "up" /\ task[h].kind = kind /\ task[h].stage = stage

-----------------------------------------------------------------------------
(* removeDirectoryQuietly: rmSync unlinks the files in any order and then    *)
(* removes the directory.  A failure is swallowed and the caller goes on.    *)

RemovalOf(t, d) == [t EXCEPT !.stage = "remove", !.dir = d]

Unlink(h) ==
    /\ host[h] = "up" /\ task[h].stage = "remove"
    /\ LET d == task[h].dir IN
       /\ d \in OnDisk
       /\ \E f \in disk[d].files :
            disk' = [disk EXCEPT ![d].files = @ \ {f},
                                 ![d].pid = IF f = ".pid" THEN None ELSE @]
    /\ UNCHANGED <<host, pid, active, task, registry, templates, session, owner, handed,
                   removing, stuck, due>>

(* The history of a directory ends with it. *)
Gone(d) ==
    /\ disk' = [disk EXCEPT ![d] = None]
    /\ removing' = removing \ {d} /\ stuck' = stuck \ {d} /\ handed' = handed \ {d}

(* A bug: the whole registry is emptied. *)
UnregisteredAll(entries, d) == {}

(* registry.remove(directory) *)
Unregistered(entries, d) == entries \ {d}

RemovalEnds(h) ==
    /\ host[h] = "up" /\ task[h].stage = "remove"
    /\ LET d == task[h].dir IN
       /\ \/ d \in OnDisk /\ disk[d].files = {} /\ Gone(d)
          \/ d \in OnDisk /\ stuck' = stuck \cup {d} /\ UNCHANGED <<disk, removing, handed>>
          \/ d \notin OnDisk /\ UNCHANGED <<disk, removing, handed, stuck>>
       /\ registry' = IF task[h].kind # "clean" THEN registry
                      ELSE [registry EXCEPT ![h] = Unregistered(@, d)]
       /\ task' = [task EXCEPT ![h] =
            IF @.kind = "undo" THEN Idle
            ELSE [@ EXCEPT !.stage = "scan", !.dir = None, !.read = None]]
    /\ UNCHANGED <<host, pid, active, templates, session, owner, due>>

-----------------------------------------------------------------------------
(* Activation and its sweep. *)

(* What a sweep that starts now should find. *)
Leftovers == {d \in OnDisk : host[owner[d]] = "dead" /\ disk[d].pid # None}

Activate(h, p) ==
    /\ host[h] = "down" /\ ~IsPidAlive(p)
    /\ host' = [host EXCEPT ![h] = "up"]
    /\ pid' = [pid EXCEPT ![h] = p]
    /\ active' = active \cup {h}
    /\ \/ /\ task' = [task EXCEPT ![h] = [Idle EXCEPT !.kind = "sweep", !.todo = OnDisk]]
          /\ due' = [due EXCEPT ![h] = Leftovers]
       \/ UNCHANGED <<task, due>>
    /\ UNCHANGED <<registry, templates, session, disks, handed>>

(* A bug: a try around the whole loop, which the first entry ends. *)
RestNone(todo, d) == {}

(* The entries still to be looked at; one without an owner is passed over.   *)
Rest(todo, d) == todo \ {d}

(* A bug: a missing or empty .pid counts as a dead owner. *)
SaysNothing(d) == d \in OnDisk

SaysOwner(d) == d \in OnDisk /\ disk[d].pid # None

(* A .pid that is there and cannot be read passes its directory over, too.   *)
ReadPid(h) ==
    /\ Busy(h, "sweep", "scan")
    /\ \E d \in task[h].todo :
        \/ /\ task' = [task EXCEPT ![h] =
                IF SaysOwner(d)
                THEN [@ EXCEPT !.stage = "judge", !.todo = Rest(task[h].todo, d), !.dir = d,
                               !.read = IF d \in OnDisk THEN disk[d].pid ELSE None]
                ELSE [@ EXCEPT !.todo = Rest(task[h].todo, d)]]
           /\ UNCHANGED due
        \/ /\ task' = [task EXCEPT ![h].todo = Rest(@, d)]
           /\ due' = [due EXCEPT ![h] = @ \ {d}]
    /\ UNCHANGED <<host, pid, active, registry, templates, session, disks, handed>>

Judge(h) ==
    /\ Busy(h, "sweep", "judge")
    /\ IF IsPidAlive(task[h].read)
       THEN /\ task' = [task EXCEPT ![h].stage = "scan", ![h].dir = None, ![h].read = None]
            /\ UNCHANGED removing
       ELSE /\ task' = [task EXCEPT ![h].stage = "remove"]
            /\ removing' = removing \cup {task[h].dir}
    /\ UNCHANGED <<host, pid, active, registry, templates, session, disk, owner, stuck,
                   handed, due>>

SweepEnds(h) ==
    /\ Busy(h, "sweep", "scan") /\ task[h].todo = {}
    /\ task' = [task EXCEPT ![h] = Idle]
    /\ UNCHANGED <<host, pid, active, registry, templates, session, disks, handed, due>>

-----------------------------------------------------------------------------
(* A session and its tracker. *)

OpenSession(h, s) ==
    /\ Ready(h) /\ h \in active /\ session[s].phase = "none"
    /\ session' = [session EXCEPT ![s] = [host |-> h, phase |-> "live", dirs |-> {}]]
    /\ UNCHANGED <<host, pid, active, task, registry, templates, disks, handed, due>>

Fresh(d) == owner[d] = None /\ \A e \in 1..d - 1 : owner[e] # None

Create(h, d, files) ==
    /\ Fresh(d)
    /\ disk' = [disk EXCEPT ![d] = [files |-> files, pid |-> None]]
    /\ owner' = [owner EXCEPT ![d] = h]

(* A runInTerminal request with a non-empty env: mkdtemp, the env file, .pid *)
(* opened, .pid written.  With an empty env, or when mkdtemp fails, nothing  *)
(* is created and the request is passed on as it is.                         *)
MakeDir(h, s) ==
    /\ Ready(h) /\ session[s].host = h /\ session[s].phase # "exited"
    /\ \E d \in Dirs :
        /\ Create(h, d, {})
        /\ task' = [task EXCEPT ![h] =
            [Idle EXCEPT !.kind = "rewrite", !.stage = "made", !.session = s, !.dir = d]]
    /\ UNCHANGED <<host, pid, active, registry, templates, session, handed, removing,
                   stuck, due>>

AddFile(h, stage, next, f) ==
    /\ Busy(h, "rewrite", stage)
    /\ disk' = [disk EXCEPT ![task[h].dir].files = @ \cup {f}]
    /\ task' = [task EXCEPT ![h].stage = next]
    /\ UNCHANGED <<host, pid, active, registry, templates, session, owner, handed,
                   removing, stuck, due>>

WriteEnv(h) == AddFile(h, "made", "env", "env")
OpenPid(h) == AddFile(h, "env", "pid", ".pid")

(* A bug: the result of rewrite is not looked at. *)
WithAnyDir(entries, d) == entries \cup {d}

(* directories.push and registry.add, unless rewrite returned undefined. *)
WithDir(entries, d) == IF d = None THEN entries ELSE entries \cup {d}

HandOver(h, s, d) ==
    /\ session' = [session EXCEPT ![s].dirs = WithDir(@, d)]
    /\ registry' = [registry EXCEPT ![h] = WithDir(@, d)]

(* A bug: .pid is created but never filled. *)
RecordedNothing(h) == None

RecordedPid(h) == pid[h]

(* The rest of the turn reaches no other process, so it is one action. *)
WritePid(h) ==
    /\ Busy(h, "rewrite", "pid")
    /\ LET d == task[h].dir IN
       /\ disk' = [disk EXCEPT ![d].pid = RecordedPid(h)]
       /\ HandOver(h, task[h].session, d)
       /\ handed' = handed \cup {d}
    /\ task' = [task EXCEPT ![h] = Idle]
    /\ UNCHANGED <<host, pid, active, templates, owner, removing, stuck, due>>

(* A bug: the catch block leaves the directory where it is. *)
AbandonedBy(t) == Idle

UndoneBy(t) == [RemovalOf(t, t.dir) EXCEPT !.kind = "undo"]

(* A file operation throws: the directory is removed, the launch goes on     *)
(* without the wrapper.                                                      *)
RewriteFails(h) ==
    /\ host[h] = "up" /\ task[h].kind = "rewrite"
    /\ HandOver(h, task[h].session, None)
    /\ removing' = removing \cup {task[h].dir}
    /\ task' = [task EXCEPT ![h] = UndoneBy(@)]
    /\ UNCHANGED <<host, pid, active, templates, disk, owner, stuck, handed, due>>

(* onWillStopSession, and later onExit, clean the tracker's directories up.  *)
EndSession(h, s, from, to) ==
    /\ Ready(h) /\ session[s].host = h /\ session[s].phase \in from
    /\ session' = [session EXCEPT ![s].phase = to]
    /\ task' = [task EXCEPT ![h] = [Idle EXCEPT !.kind = "clean", !.session = s]]
    /\ UNCHANGED <<host, pid, active, registry, templates, disks, handed, due>>

StopSession(h, s) == EndSession(h, s, {"live"}, "stopped")
AdapterExits(h, s) == EndSession(h, s, {"live", "stopped"}, "exited")

(* cleanup() pops the directory pushed last. *)
CleanNext(h) ==
    /\ Busy(h, "clean", "scan")
    /\ LET s == task[h].session IN
       IF session[s].dirs = {}
       THEN /\ task' = [task EXCEPT ![h] = Idle]
            /\ UNCHANGED <<session, removing>>
       ELSE \E d \in session[s].dirs :
            /\ \A e \in session[s].dirs : e <= d
            /\ session' = [session EXCEPT ![s].dirs = @ \ {d}]
            /\ task' = [task EXCEPT ![h] = RemovalOf(@, d)]
            /\ removing' = removing \cup {d}
    /\ UNCHANGED <<host, pid, active, registry, templates, disk, owner, stuck, handed, due>>

-----------------------------------------------------------------------------
(* OpRunner.inject: a directory without .pid, across an await. *)

InjectStarts(h) ==
    /\ Ready(h) /\ h \in active
    /\ \E d \in Dirs :
        /\ Create(h, d, {"template"})
        /\ templates' = [templates EXCEPT ![h] = @ \cup {d}]
    /\ UNCHANGED <<host, pid, active, task, registry, session, handed, removing, stuck, due>>

InjectEnds(h, d) ==
    /\ Ready(h) /\ d \in templates[h]
    /\ \/ Gone(d)
       \/ stuck' = stuck \cup {d} /\ UNCHANGED <<disk, removing, handed>>
    /\ templates' = [templates EXCEPT ![h] = @ \ {d}]
    /\ UNCHANGED <<host, pid, active, task, registry, session, owner, due>>

-----------------------------------------------------------------------------
(* The end of a host. *)

Dies(h) ==
    /\ host' = [host EXCEPT ![h] = "dead"]
    /\ task' = [task EXCEPT ![h] = Idle]
    /\ registry' = [registry EXCEPT ![h] = {}]
    /\ templates' = [templates EXCEPT ![h] = {}]
    /\ active' = active \ {h}
    /\ session' = [s \in Sessions |->
            IF session[s].host = h THEN [host |-> h, phase |-> "exited", dirs |-> {}]
            ELSE session[s]]

(* registry.cleanup(): drain() empties the set before anything is removed. *)
Drain(h, kind) ==
    /\ task' = [task EXCEPT ![h] = [Idle EXCEPT !.kind = kind, !.todo = registry[h]]]
    /\ registry' = [registry EXCEPT ![h] = {}]

(* A termination signal cleans up; with a listener installed, Node does not  *)
(* end the process.                                                          *)
TerminationSignal(h) ==
    /\ Ready(h) /\ h \in active
    /\ Drain(h, "drain")
    /\ UNCHANGED <<host, pid, active, templates, session, disks, handed, due>>

Deactivate(h) ==
    /\ Ready(h) /\ h \in active
    /\ Drain(h, "drain")
    /\ active' = active \ {h}
    /\ UNCHANGED <<host, pid, templates, session, disks, handed, due>>

(* The exit event; after deactivate its handler does nothing. *)
Exit(h) ==
    /\ Ready(h)
    /\ \/ h \in active /\ Drain(h, "exit") /\ UNCHANGED <<host, templates, active, session>>
       \/ h \notin active /\ Dies(h)
    /\ UNCHANGED <<pid, disks, handed, due>>

DrainNext(h) ==
    /\ host[h] = "up" /\ task[h].kind \in {"drain", "exit"} /\ task[h].stage = "scan"
    /\ \E d \in task[h].todo :
        /\ task' = [task EXCEPT ![h] = [RemovalOf(@, d) EXCEPT !.todo = task[h].todo \ {d}]]
        /\ removing' = removing \cup {d}
    /\ UNCHANGED <<host, pid, active, registry, templates, session, disk, owner, stuck,
                   handed, due>>

DrainEnds(h) ==
    /\ host[h] = "up" /\ task[h].kind \in {"drain", "exit"}
    /\ task[h].stage = "scan" /\ task[h].todo = {}
    /\ \/ /\ task[h].kind = "drain"
          /\ task' = [task EXCEPT ![h] = Idle]
          /\ UNCHANGED <<host, active, registry, templates, session>>
       \/ task[h].kind = "exit" /\ Dies(h)
    /\ UNCHANGED <<pid, disks, handed, due>>

Crash(h) ==
    /\ host[h] = "up"
    /\ Dies(h)
    /\ UNCHANGED <<pid, disks, handed, due>>

SessionStep(h) ==
    \E s \in Sessions : OpenSession(h, s) \/ MakeDir(h, s) \/ StopSession(h, s) \/ AdapterExits(h, s)

TaskStep(h) ==
    \/ Unlink(h) \/ RemovalEnds(h)
    \/ ReadPid(h) \/ Judge(h) \/ SweepEnds(h)
    \/ WriteEnv(h) \/ OpenPid(h) \/ WritePid(h) \/ RewriteFails(h)
    \/ CleanNext(h) \/ DrainNext(h) \/ DrainEnds(h)

HostStep(h) ==
    \/ \E p \in Pids : Activate(h, p)
    \/ InjectStarts(h) \/ \E d \in Dirs : InjectEnds(h, d)
    \/ TerminationSignal(h) \/ Deactivate(h) \/ Exit(h) \/ Crash(h)

Next == \E h \in Hosts : HostStep(h) \/ SessionStep(h) \/ TaskStep(h)

Spec == Init /\ [][Next]_vars

-----------------------------------------------------------------------------
(***************************************************************************)
(* Properties.                                                             *)
(***************************************************************************)

Tasks == [kind: {"idle", "sweep", "rewrite", "undo", "clean", "drain", "exit"},
          stage: {"scan", "judge", "remove", "made", "env", "pid"},
          session: Sessions \cup {None}, todo: SUBSET Dirs,
          dir: Dirs \cup {None}, read: Pids \cup {None}]

(* The variables hold what the hosts' objects and the file system hold.      *)
TypeOK ==
    /\ host \in [Hosts -> {"down", "up", "dead"}]
    /\ pid \in [Hosts -> Pids \cup {None}]
    /\ active \subseteq Hosts
    /\ task \in [Hosts -> Tasks]
    /\ registry \in [Hosts -> SUBSET Dirs]
    /\ templates \in [Hosts -> SUBSET Dirs]
    /\ session \in [Sessions -> [host: Hosts \cup {None}, dirs: SUBSET Dirs,
                                 phase: {"none", "live", "stopped", "exited"}]]
    /\ \A d \in Dirs : disk[d] # None => disk[d] \in [files: SUBSET Files, pid: Pids \cup {None}]
    /\ owner \in [Dirs -> Hosts \cup {None}]
    /\ handed \subseteq Dirs /\ removing \subseteq Dirs /\ stuck \subseteq Dirs
    /\ due \in [Hosts -> SUBSET Dirs]

(* A sweep never takes a directory away from a host that is still running,   *)
(* however its reads interleave with that host's rewrite, with crashes and   *)
(* with pids that are used again (sweepStale, isPidAlive).                   *)
SweepSparesLive ==
    \A h \in Hosts : task[h].kind = "sweep" /\ task[h].stage = "remove" =>
        host[owner[task[h].dir]] = "dead"

(* A host between two events has no directory on disk that its clean-up      *)
(* would miss: each one is registered, or belongs to an inject call still    *)
(* running, or its removal failed.  What a terminal opens after deactivate   *)
(* is registered as well; exit no longer drains the registry, its session's  *)
(* end removes it.                                                           *)
CleanupFindsAll ==
    \A h \in Hosts : Ready(h) =>
        \A d \in OnDisk : owner[d] = h => d \in registry[h] \cup templates[h] \cup stuck

(* Nothing outlives its session: on a host between two events, every env     *)
(* file on disk is held by the tracker of a session that has not ended.      *)
NothingOutlivesItsSession ==
    \A h \in Hosts : Ready(h) =>
        \A d \in OnDisk \ stuck : owner[d] = h /\ "env" \in disk[d].files =>
            \E s \in Sessions : session[s].phase # "exited" /\ d \in session[s].dirs

Leftover(d) == d \in OnDisk /\ "env" \in disk[d].files /\ host[owner[d]] = "dead"
Sweepable(d) == disk[d].pid = pid[owner[d]]

(* An env file that a terminal was given stays sweepable: wherever its host  *)
(* crashes, the directory names that host, unless its removal had begun.     *)
HandedLeftoverIsSweepable ==
    \A d \in handed : Leftover(d) => Sweepable(d) \/ d \in removing

PidUsedAgain(d) == \E h \in Hosts \ {owner[d]} : pid[h] = pid[owner[d]]

(* A sweep that is through has removed every leftover it found, except where *)
(* .pid could not be read or the removal failed, unless the dead owner's pid *)
(* has been used again, or the sweep of another host had unlinked .pid       *)
(* already, and is still at it or has crashed.                               *)
SweepIsComplete ==
    \A h \in Hosts : host[h] = "up" /\ task[h].kind # "sweep" =>
        \A d \in due[h] :
            d \notin OnDisk \/ d \in stuck \/ disk[d].pid = None \/ PidUsedAgain(d)

=============================================================================
