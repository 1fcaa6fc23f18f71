------------------------ MODULE StopSignalController ------------------------
(***************************************************************************)
(* Signal on stop: the controller of one debug session.  DAP messages,     *)
(* timers, the pgrep lookup and the walks of the process tree all call     *)
(* into the same fields, and nothing awaits the lookups and walks.  An     *)
(* action is one turn of the event loop.                                   *)
(*                                                                         *)
(* Time is counted in ticks of one second: Tick lets every armed timer     *)
(* come one second closer.  A timer may fire late, never early.            *)
(***************************************************************************)
EXTENDS Naturals, Sequences

CONSTANTS
    Configs,         \* step sequences a session can be configured with
    Pids,            \* process ids the terminal or pgrep can report
    MaxStops,        \* bound on the disconnect requests that start a sequence
    MaxLaunches,     \* bound on the runInTerminal requests of the session
    MaxTimerDelay,   \* longest delay setTimeout honours (2^31 - 1 ms), in ticks
    MaxGap,          \* elapsed time is counted up to here
    None             \* undefined

Signals == {"TERM", "KILL", "INT", "HUP"}
Step == [delay: Nat, signal: Signals]

ASSUME ConstantsAssumption ==
    /\ Configs \subseteq Seq(Step)
    /\ MaxStops \in Nat /\ MaxLaunches \in Nat
    /\ MaxTimerDelay \in Nat /\ MaxGap \in Nat
    /\ None \notin Pids /\ None \notin Configs /\ None \notin Nat \X Nat

(* The stops of a session; each one that finds a terminal launch runs a      *)
(* sequence of its own over the same configured steps.                       *)
Stops == 1..MaxStops

VARIABLES
    sessionConfig,           \* the configured steps, or None
    pid,
    launchMarker,            \* number of the launch whose temp dir names it
    terminalLaunchObserved,
    programExited,
    pendingKillTimer,        \* handle of a timer <<stop, step>>, or None
    armed,                   \* the timers Node holds: handle -> ticks left
    phase,                   \* stop -> "none", "lookup", "dispatched" or "lost"
    walks,                   \* tree walks in flight: <<stop, step, root>>
    stopped,                 \* the debug adapter has exited
    launches,                \* runInTerminal requests so far
    answered,                \* runInTerminal responses so far
    since,                   \* history: ticks since the stop's last step began
    begun,                   \* history: stop -> steps begun, with the gap before
    sent                     \* history: stop -> steps whose signal was sent

fields == <<sessionConfig, pid, launchMarker, terminalLaunchObserved,
            programExited, pendingKillTimer>>
session == <<stopped, launches, answered>>
history == <<since, begun, sent>>
vars == <<fields, armed, phase, walks, session, history>>

Init ==
    /\ sessionConfig \in Configs \cup {None}
    /\ pid = None /\ launchMarker = None
    /\ terminalLaunchObserved = FALSE /\ programExited = FALSE
    /\ pendingKillTimer = None
    /\ armed = [t \in {} |-> 0]
    /\ phase = [s \in Stops |-> "none"]
    /\ walks = {}
    /\ stopped = FALSE /\ launches = 0 /\ answered = 0
    /\ since = [s \in Stops |-> 0]
    /\ begun = [s \in Stops |-> << >>]
    /\ sent = [s \in Stops |-> {}]

-----------------------------------------------------------------------------
(* Timers. *)

Disarm(timers, t) == [u \in DOMAIN timers \ {t} |-> timers[u]]

(* A bug: arming a timer first clears the one that is there. *)
ArmAlone(timers, t, ticks) == [u \in {t} |-> ticks]

Arm(timers, t, ticks) ==
    [u \in DOMAIN timers \cup {t} |-> IF u = t THEN ticks ELSE timers[u]]

(* A bug: seconds are passed where milliseconds are expected. *)
TimerTicksInSeconds(delay) == 0

(* setTimeout fires at once when the delay does not fit in 32 bits. *)
TimerTicks(delay) == IF delay > MaxTimerDelay THEN 0 ELSE delay

(* A bug: the handle is dropped, the timer is not cleared. *)
ForgetPendingKill ==
    /\ armed' = armed
    /\ pendingKillTimer' = None

CancelPendingKill ==
    /\ armed' = Disarm(armed, pendingKillTimer)
    /\ pendingKillTimer' = None

-----------------------------------------------------------------------------
(* dispatchSignalSequence.  Steps without a delay begin in the same turn, so *)
(* a call runs up to the next delayed step and arms a timer for it.          *)

Steps == sessionConfig
Last == Len(Steps)

DelayOf(i) == Steps[i].delay

RunsUpTo(i, next) ==
    /\ next <= Last => DelayOf(next) > 0
    /\ \A k \in i..next - 1 : DelayOf(k) = 0

(* Steps first..next - 1 begin: each starts a walk of the tree below root.   *)
(* The handle of the timer armed for the step next replaces the current one. *)
BeginSteps(s, first, next, root, timers, handle) ==
    /\ walks' = walks \cup {<<s, i, root>> : i \in first..next - 1}
    /\ begun' = [begun EXCEPT ![s] = @ \o
            [n \in 1..next - first |->
                [step |-> first + n - 1, gap |-> IF n = 1 THEN since[s] ELSE 0]]]
    /\ since' = IF next > first THEN [since EXCEPT ![s] = 0] ELSE since
    /\ IF next <= Last
       THEN /\ armed' = Arm(timers, <<s, next>>, TimerTicks(DelayOf(next)))
            /\ pendingKillTimer' = <<s, next>>
       ELSE /\ armed' = timers
            /\ pendingKillTimer' = handle

Dispatch(s, root) ==
    /\ \E next \in 1..Last + 1 :
            RunsUpTo(1, next) /\ BeginSteps(s, 1, next, root, armed, pendingKillTimer)
    /\ phase' = [phase EXCEPT ![s] = "dispatched"]

-----------------------------------------------------------------------------
(* Messages of the session, until its adapter has exited. *)

(* The tracker rewrote the request, and its temp dir names the launch, or    *)
(* the request had no env and is passed on as it is.                         *)
RunInTerminalRequest ==
    /\ ~stopped /\ launches < MaxLaunches
    /\ launches' = launches + 1
    /\ \/ launchMarker' = launches' /\ terminalLaunchObserved' = TRUE
       \/ UNCHANGED <<launchMarker, terminalLaunchObserved>>
    /\ UNCHANGED <<sessionConfig, pid, programExited, pendingKillTimer, armed, phase,
                   walks, stopped, answered, history>>

(* VS Code answers with a pid, or without one. *)
RunInTerminalResponse ==
    /\ ~stopped /\ answered < launches
    /\ answered' = answered + 1
    /\ IF sessionConfig = None THEN UNCHANGED <<terminalLaunchObserved, pid>>
       ELSE /\ terminalLaunchObserved' = TRUE
            /\ pid' \in Pids \cup {pid}
    /\ UNCHANGED <<sessionConfig, launchMarker, programExited, pendingKillTimer, armed,
                   phase, walks, stopped, launches, history>>

ExitedEvent ==
    /\ ~stopped /\ ~programExited
    /\ programExited' = TRUE
    /\ CancelPendingKill
    /\ UNCHANGED <<sessionConfig, pid, launchMarker, terminalLaunchObserved, phase, walks,
                   session, history>>

(* A bug: a terminal launch is taken to have a pid. *)
HasAnyPid == TRUE

HasPid == pid # None

(* A disconnect request that does not ask to detach.  Without a pid the      *)
(* program is looked up by its marker; without a marker a warning is shown.  *)
Disconnect(s) ==
    /\ ~stopped /\ ~programExited
    /\ phase[s] = "none" /\ \A r \in 1..s - 1 : phase[r] # "none"
    /\ sessionConfig \notin {None, << >>} /\ terminalLaunchObserved
    /\ \/ /\ HasPid
          /\ Dispatch(s, pid)
       \/ /\ ~HasPid
          /\ phase' = [phase EXCEPT ![s] = IF launchMarker = None THEN "lost" ELSE "lookup"]
          /\ UNCHANGED <<armed, pendingKillTimer, walks, history>>
    /\ UNCHANGED <<sessionConfig, pid, launchMarker, terminalLaunchObserved, programExited,
                   sent, session>>

AdapterExits ==
    /\ ~stopped
    /\ stopped' = TRUE
    /\ CancelPendingKill
    /\ UNCHANGED <<sessionConfig, pid, launchMarker, terminalLaunchObserved, programExited,
                   phase, walks, launches, answered, history>>

-----------------------------------------------------------------------------
(* Completions. *)

(* A bug: an exit during the lookup goes unnoticed. *)
DispatchAlways == TRUE

(* A lookup that finds a process uses it unless the program exited meanwhile. *)
DispatchAllowed == ~programExited

LookupReturns(s) ==
    /\ phase[s] = "lookup"
    /\ \/ /\ DispatchAllowed
          /\ \E found \in Pids : pid' = found /\ Dispatch(s, found)
       \/ /\ phase' = [phase EXCEPT ![s] = "lost"]
          /\ UNCHANGED <<pid, armed, pendingKillTimer, walks, since, begun>>
    /\ UNCHANGED <<sessionConfig, launchMarker, terminalLaunchObserved, programExited,
                   sent, session>>

(* A bug: a timer that finds no handle takes itself for cancelled. *)
FireIfTracked == ~programExited /\ pendingKillTimer # None

FireAllowed == ~programExited

(* A bug: the handle of the timer that fired is kept. *)
HandleKept(handle) == handle

HandleAfterFiring(handle) == None

(* The callback of a timer: the handle is dropped, whichever timer it names; *)
(* the step begins unless the program exited, and the next one is armed.     *)
TimerFires(s, i) ==
    /\ <<s, i>> \in DOMAIN armed /\ armed[<<s, i>>] = 0
    /\ \/ /\ FireAllowed
          /\ \E next \in i + 1..Last + 1 :
                /\ RunsUpTo(i + 1, next)
                /\ BeginSteps(s, i, next, pid, Disarm(armed, <<s, i>>),
                              HandleAfterFiring(pendingKillTimer))
       \/ /\ ~FireAllowed
          /\ armed' = Disarm(armed, <<s, i>>)
          /\ pendingKillTimer' = HandleAfterFiring(pendingKillTimer)
          /\ UNCHANGED <<walks, since, begun>>
    /\ UNCHANGED <<sessionConfig, pid, launchMarker, terminalLaunchObserved, programExited,
                   phase, sent, session>>

(* A walk found processes below its root and signals them, or found none. *)
WalkReturns(walk) ==
    /\ walk \in walks
    /\ walks' = walks \ {walk}
    /\ \/ sent' = [sent EXCEPT ![walk[1]] = @ \cup {walk[2]}]
       \/ UNCHANGED sent
    /\ UNCHANGED <<fields, armed, phase, session, since, begun>>

Tick ==
    /\ \E t \in DOMAIN armed : armed[t] > 0
    /\ armed' = [t \in DOMAIN armed |-> IF armed[t] > 0 THEN armed[t] - 1 ELSE 0]
    /\ since' = [s \in Stops |-> IF since[s] < MaxGap THEN since[s] + 1 ELSE since[s]]
    /\ UNCHANGED <<fields, phase, walks, session, begun, sent>>

Message ==
    \/ RunInTerminalRequest \/ RunInTerminalResponse
    \/ ExitedEvent \/ AdapterExits
    \/ \E s \in Stops : Disconnect(s)

Completion ==
    \/ \E s \in Stops : LookupReturns(s)
    \/ \E t \in DOMAIN armed : TimerFires(t[1], t[2])
    \/ \E walk \in walks : WalkReturns(walk)
    \/ Tick

Next == Message \/ Completion

Spec == Init /\ [][Next]_vars

(* Time passes, Node fires the timers that are due, and the pgrep and pidtree *)
(* children answer.  Nothing is assumed of the adapter or of the user.        *)
Fairness ==
    /\ WF_vars(Tick)
    /\ \A s \in Stops : WF_vars(LookupReturns(s))
    /\ \A s \in Stops : WF_vars(\E t \in DOMAIN armed : t[1] = s /\ TimerFires(t[1], t[2]))
    /\ WF_vars(\E walk \in walks : WalkReturns(walk))

FairSpec == Spec /\ Fairness

-----------------------------------------------------------------------------
(***************************************************************************)
(* Properties.                                                             *)
(***************************************************************************)

Timers == Stops \X (Nat \ {0})

(* The variables hold what the controller's fields and Node's queues hold.   *)
TypeOK ==
    /\ sessionConfig \in Configs \cup {None}
    /\ pid \in Pids \cup {None}
    /\ launchMarker \in 1..MaxLaunches \cup {None}
    /\ terminalLaunchObserved \in BOOLEAN /\ programExited \in BOOLEAN
    /\ pendingKillTimer \in Timers \cup {None}
    /\ DOMAIN armed \subseteq Timers /\ \A t \in DOMAIN armed : armed[t] \in Nat
    /\ phase \in [Stops -> {"none", "lookup", "dispatched", "lost"}]
    /\ walks \subseteq Stops \X (Nat \ {0}) \X Pids
    /\ stopped \in BOOLEAN
    /\ launches \in 0..MaxLaunches /\ answered \in 0..launches
    /\ since \in [Stops -> 0..MaxGap]
    /\ begun \in [Stops -> Seq([step: Nat, gap: Nat])]
    /\ sent \in [Stops -> SUBSET Nat]

(* The handle is never stale: whatever stops and firings interleave, a       *)
(* handle the controller holds names a timer that is still to fire, so       *)
(* cancelling it cancels something.                                          *)
HandleIsLive == pendingKillTimer # None => pendingKillTimer \in DOMAIN armed

StopsSoFar == {s \in Stops : phase[s] # "none"}

(* While the session was stopped at most once, the controller can cancel     *)
(* every timer it has armed: the one its handle names is the only one.       *)
SingleStopIsTracked ==
    StopsSoFar \subseteq {1} => DOMAIN armed \subseteq {pendingKillTimer}

(* A sequence never loses a step: until the program or the adapter exits,    *)
(* the step after the last one begun has a timer, even when a second stop    *)
(* has taken the handle over.                                                *)
RemainingStepsArmed ==
    ~programExited /\ ~stopped =>
        \A s \in Stops : phase[s] = "dispatched" /\ Len(begun[s]) < Last =>
            <<s, Len(begun[s]) + 1>> \in DOMAIN armed

(* The steps of a stop begin in the configured order, none twice and none    *)
(* left out, and no step begins before its delay since the one before it.    *)
(* README.md gives a delay in seconds and no limit: where a delay does not   *)
(* fit setTimeout's 32 bits of milliseconds its step begins at once.         *)
GraceIsKept ==
    \A s \in Stops : \A n \in 1..Len(begun[s]) :
        /\ begun[s][n].step = n
        /\ n > 1 => begun[s][n].gap >= DelayOf(n)

(* Once the adapter has reported that the program exited no further step     *)
(* begins, neither from a timer the controller has lost track of nor from a  *)
(* lookup that was in flight.                                                *)
NoStepAfterExit == [][programExited => begun' = begun]_vars

(* A stop runs all its steps in the end, unless the program or the adapter   *)
(* exits first or no process is found.                                       *)
StopCompletes ==
    \A s \in Stops :
        phase[s] \in {"lookup", "dispatched"} ~>
            \/ phase[s] = "lost" \/ programExited \/ stopped
            \/ phase[s] = "dispatched" /\ Len(begun[s]) = Last

(* parseSignalOnStop and README.md speak of an ordered sequence of signals;  *)
(* the walks of the steps are not awaited, so a later step's signal can be   *)
(* sent before an earlier one's.                                             *)
SignalsInOrder ==
    [][\A s \in Stops : \A i \in sent'[s] \ sent[s] : \A j \in sent[s] : j < i]_vars

=============================================================================
