--------------------------- MODULE StopSignalProofs ---------------------------
(***************************************************************************)
(* What the stop-signal controller guarantees for any step sequences, any  *)
(* number of stops and any interleaving of messages, timers and lookups.   *)
(***************************************************************************)
EXTENDS StopSignalController, SequenceTheorems, TLAPS

(* A stop that runs steps has steps and a root to walk from. *)
RunningOK ==
    \A s \in Stops :
        /\ phase[s] # "none" => sessionConfig \in Configs
        /\ phase[s] = "dispatched" => pid \in Pids
        /\ phase[s] # "dispatched" => begun[s] = << >>

(* Every armed timer is for the next step of a stop that runs its steps; so  *)
(* a stop has at most one timer.                                             *)
TimersOK ==
    \A t \in DOMAIN armed :
        /\ phase[t[1]] = "dispatched"
        /\ t[2] = Len(begun[t[1]]) + 1
        /\ t[2] <= Last

StepsInOrder ==
    \A s \in Stops : \A n \in 1..Len(begun[s]) : begun[s][n].step = n

StartedIsBounded == \A s \in Stops : phase[s] = "dispatched" => Len(begun[s]) <= Last

IInv ==
    /\ TypeOK /\ RunningOK /\ TimersOK /\ StepsInOrder /\ StartedIsBounded
    /\ HandleIsLive /\ SingleStopIsTracked /\ RemainingStepsArmed

-----------------------------------------------------------------------------
LEMMA StepsType ==
  ASSUME sessionConfig \in Configs
  PROVE  /\ Last \in Nat
         /\ \A i \in 1..Last : DelayOf(i) \in Nat
  <1>1. sessionConfig \in Seq(Step)
    BY ConstantsAssumption
  <1>2. Len(sessionConfig) \in Nat
    BY <1>1, LenProperties
  <1>3. \A i \in 1..Len(sessionConfig) : sessionConfig[i] \in Step
    BY <1>1, ElementOfSeq
  <1>4. \A i \in 1..Len(sessionConfig) : sessionConfig[i].delay \in Nat
    BY <1>3 DEF Step
  <1>5. QED BY <1>2, <1>4 DEF Last, Steps, DelayOf

LEMMA TimerTicksType ==
  ASSUME NEW delay \in Nat
  PROVE  TimerTicks(delay) \in Nat
  BY DEF TimerTicks

(* The fields of an entry of begun. *)
LEMMA EntryFields ==
  ASSUME NEW entry, NEW step, NEW gap, entry = [step |-> step, gap |-> gap]
  PROVE  entry.step = step /\ entry.gap = gap
  OBVIOUS

(* What beginning the steps first..next - 1 of stop s does to the history. *)
BegunAs(s, first, next) ==
    [begun EXCEPT ![s] = @ \o
        [n \in 1..next - first |->
            [step |-> first + n - 1, gap |-> IF n = 1 THEN since[s] ELSE 0]]]

LEMMA BegunAfter ==
  ASSUME NEW s \in Stops, NEW first \in Nat \ {0}, NEW next \in Nat, first <= next,
         begun \in [Stops -> Seq([step: Nat, gap: Nat])], since \in [Stops -> 0..MaxGap],
         Len(begun[s]) = first - 1,
         begun' = BegunAs(s, first, next)
  PROVE  /\ begun' \in [Stops -> Seq([step: Nat, gap: Nat])]
         /\ Len(begun'[s]) = next - 1
         /\ \A n \in 1..first - 1 : begun'[s][n] = begun[s][n]
         /\ \A n \in first..next - 1 :
               /\ begun'[s][n].step = n
               /\ begun'[s][n].gap = IF n = first THEN since[s] ELSE 0
         /\ \A r \in Stops \ {s} : begun'[r] = begun[r]
  <1> DEFINE Entry == [step: Nat, gap: Nat]
             added == [n \in 1..next - first |->
                [step |-> first + n - 1, gap |-> IF n = 1 THEN since[s] ELSE 0]]
  <1>1. MaxGap \in Nat /\ since[s] \in Nat
    BY ConstantsAssumption
  <1>2. added \in [1..next - first -> Entry] /\ next - first \in Nat
    BY <1>1
  <1>3. added \in Seq(Entry) /\ Len(added) = next - first
    BY <1>2, SeqDef
  <1>4. begun[s] \in Seq(Entry)
    OBVIOUS
  <1>0. begun' = [begun EXCEPT ![s] = begun[s] \o added]
    BY DEF BegunAs
  <1>5. begun'[s] = begun[s] \o added
    BY <1>0
  <1>6. /\ begun[s] \o added \in Seq(Entry)
        /\ Len(begun[s] \o added) = next - 1
        /\ \A n \in 1..next - 1 : (begun[s] \o added)[n] =
              IF n <= first - 1 THEN begun[s][n] ELSE added[n - (first - 1)]
    <2> HIDE DEF added, Entry
    <2>1. /\ begun[s] \o added \in Seq(Entry)
          /\ Len(begun[s] \o added) = Len(begun[s]) + Len(added)
          /\ \A n \in 1..Len(begun[s]) + Len(added) : (begun[s] \o added)[n] =
                IF n <= Len(begun[s]) THEN begun[s][n] ELSE added[n - Len(begun[s])]
      <3>1. PICK b, a : /\ b = begun[s] /\ a = added
                        /\ b \in Seq(Entry) /\ a \in Seq(Entry)
        BY <1>3, <1>4
      <3>2. /\ b \o a \in Seq(Entry) /\ Len(b \o a) = Len(b) + Len(a)
            /\ \A n \in 1..Len(b) + Len(a) :
                  (b \o a)[n] = IF n <= Len(b) THEN b[n] ELSE a[n - Len(b)]
        BY <3>1, ConcatProperties
      <3>3. QED BY <3>1, <3>2
    <2>2. Len(begun[s]) + Len(added) = next - 1
      BY <1>3
    <2>3. QED BY <2>1, <2>2
  <1>7. \A n \in first..next - 1 : added[n - (first - 1)] =
           [step |-> n, gap |-> IF n = first THEN since[s] ELSE 0]
    BY <1>2
  <1>8. \A r \in Stops \ {s} : begun'[r] = begun[r]
    BY <1>0
  <1>9. begun' \in [Stops -> Seq(Entry)]
    <2> HIDE DEF added, Entry
    <2>1. begun \in [Stops -> Seq(Entry)]
      BY DEF Entry
    <2>2. QED BY <1>0, <1>6, <2>1
  <1> HIDE DEF added
  <1>10. \A n \in first..next - 1 : begun'[s][n] =
           [step |-> n, gap |-> IF n = first THEN since[s] ELSE 0]
    <2> SUFFICES ASSUME NEW n \in first..next - 1
                 PROVE  begun'[s][n] = added[n - (first - 1)]
      BY <1>7
    <2>1. n \in 1..next - 1 /\ ~(n <= first - 1)
      OBVIOUS
    <2>2. QED BY <1>5, <1>6, <2>1
  <1>11. \A n \in 1..first - 1 : begun'[s][n] = begun[s][n]
    BY <1>5, <1>6
  <1>12. ASSUME NEW n \in first..next - 1
         PROVE  /\ begun'[s][n].step = n
                /\ begun'[s][n].gap = IF n = first THEN since[s] ELSE 0
    <2> DEFINE gap == IF n = first THEN since[s] ELSE 0
    <2>1. begun'[s][n] = [step |-> n, gap |-> gap]
      BY <1>10
    <2> HIDE DEF gap
    <2>2. begun'[s][n].step = n /\ begun'[s][n].gap = gap
      BY <2>1, EntryFields
    <2>3. QED BY <2>2 DEF gap
  <1>13. Len(begun'[s]) = next - 1
    BY <1>5, <1>6
  <1> HIDE DEF Entry
  <1>14. begun' \in [Stops -> Seq([step: Nat, gap: Nat])]
    BY <1>9 DEF Entry
  <1>15. QED BY <1>8, <1>11, <1>12, <1>13, <1>14

-----------------------------------------------------------------------------
(* Beginning the steps first..next - 1 of a stop keeps the invariant, when   *)
(* timers are the timers of the other stops and handle is live among them.   *)
LEMMA BeginStepsKeeps ==
  ASSUME IInv,
         NEW s \in Stops, NEW first \in Nat \ {0}, NEW next \in Nat, first <= next,
         NEW root \in Pids, NEW timers, NEW handle,
         sessionConfig \in Configs, next <= Last + 1,
         Len(begun[s]) = first - 1,
         DOMAIN timers = {t \in DOMAIN armed : t[1] # s},
         \A t \in DOMAIN timers : timers[t] = armed[t],
         handle # None => handle \in DOMAIN timers,
         BeginSteps(s, first, next, root, timers, handle),
         phase' = [phase EXCEPT ![s] = "dispatched"],
         pid' \in Pids,
         UNCHANGED <<sessionConfig, launchMarker, terminalLaunchObserved,
                     programExited, sent, session>>
  PROVE  IInv'
  <1> DEFINE Entry == [step: Nat, gap: Nat]
  <1>0. /\ TypeOK /\ RunningOK /\ TimersOK /\ StepsInOrder /\ StartedIsBounded
        /\ HandleIsLive /\ SingleStopIsTracked /\ RemainingStepsArmed
    BY DEF IInv
  <1>1. /\ begun' \in [Stops -> Seq(Entry)]
        /\ Len(begun'[s]) = next - 1
        /\ \A n \in 1..first - 1 : begun'[s][n] = begun[s][n]
        /\ \A n \in first..next - 1 : begun'[s][n].step = n
        /\ \A r \in Stops \ {s} : begun'[r] = begun[r]
    <2>1. /\ begun \in [Stops -> Seq(Entry)] /\ since \in [Stops -> 0..MaxGap]
          /\ begun' = BegunAs(s, first, next)
      BY <1>0 DEF BeginSteps, TypeOK, BegunAs
    <2>2. /\ begun' \in [Stops -> Seq([step: Nat, gap: Nat])]
          /\ Len(begun'[s]) = next - 1
          /\ \A n \in 1..first - 1 : begun'[s][n] = begun[s][n]
          /\ \A n \in first..next - 1 :
                /\ begun'[s][n].step = n
                /\ begun'[s][n].gap = IF n = first THEN since[s] ELSE 0
          /\ \A r \in Stops \ {s} : begun'[r] = begun[r]
      BY <2>1, BegunAfter
    <2>3. \A n \in first..next - 1 : begun'[s][n].step = n
      BY <2>2
    <2>4. begun' \in [Stops -> Seq(Entry)]
      BY <2>2
    <2> HIDE DEF Entry
    <2>5. QED BY <2>2, <2>3, <2>4
  <1>2. Last \in Nat /\ (\A i \in 1..Last : DelayOf(i) \in Nat) /\ Last' = Last
    BY StepsType DEF Last, Steps
  <1>3. MaxStops \in Nat /\ MaxGap \in Nat
    BY ConstantsAssumption
  <1>4. /\ phase' \in [Stops -> {"none", "lookup", "dispatched", "lost"}]
        /\ phase'[s] = "dispatched"
        /\ \A r \in Stops \ {s} : phase'[r] = phase[r]
    BY <1>0 DEF TypeOK
  <1>5. DOMAIN armed \subseteq Timers /\ <<s, next>> \in Timers
    BY <1>0 DEF TypeOK, Timers
  <1>6. /\ next <= Last => /\ DOMAIN armed' = DOMAIN timers \cup {<<s, next>>}
                           /\ armed'[<<s, next>>] = TimerTicks(DelayOf(next))
                           /\ pendingKillTimer' = <<s, next>>
        /\ ~(next <= Last) => /\ DOMAIN armed' = DOMAIN timers
                              /\ pendingKillTimer' = handle
        /\ \A t \in DOMAIN timers : t \in DOMAIN armed' /\ armed'[t] = timers[t]
    BY DEF BeginSteps, Arm
  <1>7. next <= Last => TimerTicks(DelayOf(next)) \in Nat
    BY <1>2, TimerTicksType
  <1>8. \A t \in DOMAIN armed' : t \in DOMAIN timers \/ (next <= Last /\ t = <<s, next>>)
    BY <1>6
  <1>9. TypeOK'
    <2>1. DOMAIN armed' \subseteq Timers /\ \A t \in DOMAIN armed' : armed'[t] \in Nat
      BY <1>0, <1>5, <1>6, <1>7, <1>8 DEF TypeOK
    <2>2. pendingKillTimer' \in Timers \cup {None}
      BY <1>5, <1>6
    <2>3. walks' \subseteq Stops \X (Nat \ {0}) \X Pids
      BY <1>0 DEF TypeOK, BeginSteps
    <2>4. since' \in [Stops -> 0..MaxGap]
      BY <1>0, <1>3 DEF TypeOK, BeginSteps
    <2>5. QED BY <1>0, <1>1, <1>4, <2>1, <2>2, <2>3, <2>4 DEF TypeOK, session, Timers
  <1>10. RunningOK'
    BY <1>0, <1>1, <1>4 DEF RunningOK
  <1>11. TimersOK'
    <2> SUFFICES ASSUME NEW t \in DOMAIN armed'
                 PROVE  /\ phase'[t[1]] = "dispatched"
                        /\ t[2] = Len(begun'[t[1]]) + 1
                        /\ t[2] <= Last
      BY <1>2 DEF TimersOK
    <2>1. CASE t \in DOMAIN timers
      <3>1. t \in DOMAIN armed /\ t[1] # s /\ t[1] \in Stops
        BY <2>1, <1>5 DEF Timers
      <3>2. QED BY <3>1, <1>0, <1>1, <1>4 DEF TimersOK
    <2>2. CASE next <= Last /\ t = <<s, next>>
      BY <2>2, <1>1, <1>4
    <2>3. QED BY <2>1, <2>2, <1>8
  <1>12. StepsInOrder'
    <2> SUFFICES ASSUME NEW r \in Stops, NEW n \in 1..Len(begun'[r])
                 PROVE  begun'[r][n].step = n
      BY DEF StepsInOrder
    <2>1. CASE r # s
      <3>1. begun'[r] = begun[r]
        BY <2>1, <1>1
      <3>2. QED BY <3>1, <1>0 DEF StepsInOrder
    <2>2. CASE r = s
      <3>1. n \in 1..next - 1
        BY <2>2, <1>1
      <3>2. CASE n < first
        <4>1. n \in 1..first - 1 /\ n \in 1..Len(begun[s])
          BY <3>1, <3>2
        <4>2. begun'[s][n] = begun[s][n]
          BY <4>1, <1>1
        <4>3. QED BY <2>2, <4>1, <4>2, <1>0 DEF StepsInOrder
      <3>3. CASE n >= first
        BY <2>2, <3>1, <3>3, <1>1
      <3>4. QED BY <3>1, <3>2, <3>3
    <2>3. QED BY <2>1, <2>2
  <1>13. StartedIsBounded'
    <2> SUFFICES ASSUME NEW r \in Stops, phase'[r] = "dispatched"
                 PROVE  Len(begun'[r]) <= Last
      BY <1>2 DEF StartedIsBounded
    <2>1. CASE r # s
      BY <2>1, <1>0, <1>1, <1>4 DEF StartedIsBounded
    <2>2. CASE r = s
      BY <2>2, <1>1, <1>2
    <2>3. QED BY <2>1, <2>2
  <1>14. HandleIsLive'
    BY <1>6 DEF HandleIsLive
  <1>15. SingleStopIsTracked'
    <2> SUFFICES ASSUME StopsSoFar' \subseteq {1}
                 PROVE  DOMAIN armed' \subseteq {pendingKillTimer'}
      BY DEF SingleStopIsTracked
    <2>1. s = 1
      BY <1>4 DEF StopsSoFar
    <2>2. ASSUME NEW t \in DOMAIN timers
          PROVE  FALSE
      <3>1. t \in DOMAIN armed /\ t[1] # s /\ t[1] \in Stops
        BY <2>2, <1>5 DEF Timers
      <3>2. phase'[t[1]] = "dispatched"
        BY <3>1, <1>0, <1>4 DEF TimersOK
      <3>3. t[1] = 1
        BY <3>1, <3>2 DEF StopsSoFar
      <3>4. QED BY <2>1, <3>1, <3>3
    <2>3. QED BY <2>2, <1>6, <1>8
  <1>16. RemainingStepsArmed'
    <2> SUFFICES ASSUME ~programExited, ~stopped, NEW r \in Stops,
                        phase'[r] = "dispatched", Len(begun'[r]) < Last
                 PROVE  <<r, Len(begun'[r]) + 1>> \in DOMAIN armed'
      BY <1>2 DEF RemainingStepsArmed, session
    <2>1. CASE r # s
      BY <2>1, <1>0, <1>1, <1>4, <1>6 DEF RemainingStepsArmed
    <2>2. CASE r = s
      BY <2>2, <1>1, <1>2, <1>6
    <2>3. QED BY <2>1, <2>2
  <1>17. QED BY <1>9, <1>10, <1>11, <1>12, <1>13, <1>14, <1>15, <1>16 DEF IInv

-----------------------------------------------------------------------------
LEMMA InitEstablishes == Init => IInv
  <1> SUFFICES ASSUME Init PROVE IInv
    OBVIOUS
  <1>1. MaxStops \in Nat /\ MaxLaunches \in Nat /\ MaxGap \in Nat
    BY ConstantsAssumption
  <1>2. DOMAIN armed = {} /\ (\A s \in Stops : phase[s] = "none" /\ begun[s] = << >>)
    BY DEF Init
  <1>3. TypeOK
    <2>1. begun \in [Stops -> Seq([step: Nat, gap: Nat])]
      BY EmptySeq DEF Init
    <2>2. since \in [Stops -> 0..MaxGap] /\ answered \in 0..launches /\ launches \in 0..MaxLaunches
      BY <1>1 DEF Init
    <2>3. /\ phase \in [Stops -> {"none", "lookup", "dispatched", "lost"}]
          /\ sent \in [Stops -> SUBSET Nat]
      BY DEF Init
    <2>4. QED BY <1>2, <2>1, <2>2, <2>3 DEF Init, TypeOK
  <1>4. RunningOK /\ TimersOK /\ StepsInOrder /\ StartedIsBounded /\ RemainingStepsArmed
    <2>1. \A s \in Stops : Len(begun[s]) = 0
      BY <1>2, EmptySeq
    <2>2. QED BY <1>2, <2>1
          DEF RunningOK, TimersOK, StepsInOrder, StartedIsBounded, RemainingStepsArmed
  <1>5. HandleIsLive /\ SingleStopIsTracked
    BY <1>2 DEF Init, HandleIsLive, SingleStopIsTracked
  <1>6. QED BY <1>3, <1>4, <1>5 DEF IInv

(* onExit and an exited event: the handle's timer is cancelled, and it is    *)
(* the only one while there was at most one stop.                            *)
LEMMA CancelKeeps ==
  ASSUME IInv, CancelPendingKill,
         programExited' \in BOOLEAN, stopped' \in BOOLEAN, programExited' \/ stopped',
         UNCHANGED <<sessionConfig, pid, launchMarker, terminalLaunchObserved, phase, walks,
                     launches, answered, history>>
  PROVE  IInv'
  <1>0. /\ TypeOK /\ RunningOK /\ TimersOK /\ StepsInOrder /\ StartedIsBounded
        /\ HandleIsLive /\ SingleStopIsTracked /\ RemainingStepsArmed
    BY DEF IInv
  <1>1. /\ DOMAIN armed' = DOMAIN armed \ {pendingKillTimer}
        /\ \A t \in DOMAIN armed' : armed'[t] = armed[t]
        /\ pendingKillTimer' = None
    BY DEF CancelPendingKill, Disarm
  <1>2. TypeOK'
    BY <1>0, <1>1 DEF TypeOK, history, Timers
  <1>3. RunningOK' /\ StepsInOrder' /\ StartedIsBounded'
    BY <1>0 DEF RunningOK, StepsInOrder, StartedIsBounded, Last, Steps, history
  <1>4. TimersOK'
    BY <1>0, <1>1 DEF TimersOK, Last, Steps, history
  <1>5. HandleIsLive'
    BY <1>1 DEF HandleIsLive
  <1>6. SingleStopIsTracked'
    BY <1>0, <1>1 DEF SingleStopIsTracked, StopsSoFar
  <1>7. RemainingStepsArmed'
    BY DEF RemainingStepsArmed
  <1>8. QED BY <1>2, <1>3, <1>4, <1>5, <1>6, <1>7 DEF IInv

(* Steps that leave the timers, the phases and what has begun alone. *)
LEMMA AsideKeeps ==
  ASSUME IInv, TypeOK', UNCHANGED <<sessionConfig, programExited, pendingKillTimer,
                                    stopped, armed, phase, begun>>,
         pid \in Pids => pid' \in Pids
  PROVE  IInv'
  BY DEF IInv, RunningOK, TimersOK, StepsInOrder, StartedIsBounded, HandleIsLive,
         SingleStopIsTracked, StopsSoFar, RemainingStepsArmed, Last, Steps

LEMMA RunInTerminalRequestKeeps == IInv /\ RunInTerminalRequest => IInv'
  <1> SUFFICES ASSUME IInv, RunInTerminalRequest PROVE IInv'
    OBVIOUS
  <1>1. TypeOK'
    <2>1. /\ TypeOK /\ MaxLaunches \in Nat
      BY ConstantsAssumption DEF IInv
    <2>2. launches' \in 0..MaxLaunches /\ launches' \in 1..MaxLaunches
          /\ answered \in 0..launches'
      BY <2>1 DEF TypeOK, RunInTerminalRequest
    <2>3. launchMarker' \in 1..MaxLaunches \cup {None} /\ terminalLaunchObserved' \in BOOLEAN
      BY <2>1, <2>2 DEF TypeOK, RunInTerminalRequest
    <2>4. QED BY <2>1, <2>2, <2>3 DEF TypeOK, RunInTerminalRequest, history, Timers
  <1>2. QED BY <1>1, AsideKeeps DEF RunInTerminalRequest, history

LEMMA RunInTerminalResponseKeeps == IInv /\ RunInTerminalResponse => IInv'
  <1> SUFFICES ASSUME IInv, RunInTerminalResponse PROVE IInv'
    OBVIOUS
  <1>1. TypeOK'
    <2>1. TypeOK
      BY DEF IInv
    <2>2. answered' \in 0..launches
      BY <2>1, ConstantsAssumption DEF TypeOK, RunInTerminalResponse
    <2>3. pid' \in Pids \cup {None} /\ terminalLaunchObserved' \in BOOLEAN
      BY <2>1 DEF TypeOK, RunInTerminalResponse
    <2>4. QED BY <2>1, <2>2, <2>3 DEF TypeOK, RunInTerminalResponse, history, Timers
  <1>2. pid \in Pids => pid' \in Pids
    BY DEF RunInTerminalResponse
  <1>3. QED BY <1>1, <1>2, AsideKeeps DEF RunInTerminalResponse, history

LEMMA WalkReturnsKeeps ==
  ASSUME IInv, NEW walk \in walks, WalkReturns(walk)
  PROVE  IInv'
  <1>1. walk[1] \in Stops /\ walk[2] \in Nat
    BY DEF IInv, TypeOK
  <1>2. sent' \in [Stops -> SUBSET Nat] /\ walks' \subseteq walks
    <2>1. sent \in [Stops -> SUBSET Nat]
      BY DEF IInv, TypeOK
    <2>2. QED BY <1>1, <2>1 DEF WalkReturns
  <1>3. TypeOK'
    BY <1>2 DEF IInv, TypeOK, WalkReturns, fields, session, Timers
  <1>4. QED BY <1>3, AsideKeeps DEF WalkReturns, fields, session

LEMMA ExitedEventKeeps == IInv /\ ExitedEvent => IInv'
  <1> SUFFICES ASSUME IInv, ExitedEvent PROVE IInv'
    OBVIOUS
  <1>1. QED BY CancelKeeps DEF ExitedEvent, session, IInv, TypeOK

LEMMA AdapterExitsKeeps == IInv /\ AdapterExits => IInv'
  <1> SUFFICES ASSUME IInv, AdapterExits PROVE IInv'
    OBVIOUS
  <1>1. QED BY CancelKeeps DEF AdapterExits, IInv, TypeOK

LEMMA TickKeeps == IInv /\ Tick => IInv'
  <1> SUFFICES ASSUME IInv, Tick PROVE IInv'
    OBVIOUS
  <1>1. DOMAIN armed' = DOMAIN armed
    BY DEF Tick
  <1>2. \A t \in DOMAIN armed' : armed'[t] \in Nat
    BY DEF IInv, TypeOK, Tick
  <1>3. since' \in [Stops -> 0..MaxGap]
    BY ConstantsAssumption DEF IInv, TypeOK, Tick
  <1>4. TypeOK'
    BY <1>1, <1>2, <1>3 DEF IInv, TypeOK, Tick, fields, session, Timers
  <1>5. QED BY <1>1, <1>4
        DEF IInv, RunningOK, TimersOK, StepsInOrder, StartedIsBounded, HandleIsLive,
            SingleStopIsTracked, StopsSoFar, RemainingStepsArmed, Last, Steps,
            Tick, fields, session

(* A stop that leaves "none" without running steps disturbs nothing. *)
LEMMA PhaseKeeps ==
  ASSUME IInv, NEW s \in Stops, NEW to \in {"lookup", "lost"},
         phase[s] # "dispatched", sessionConfig \in Configs,
         phase' = [phase EXCEPT ![s] = to],
         UNCHANGED <<fields, armed, walks, session, history>>
  PROVE  IInv'
  <1>0. /\ TypeOK /\ RunningOK /\ TimersOK /\ StepsInOrder /\ StartedIsBounded
        /\ HandleIsLive /\ SingleStopIsTracked /\ RemainingStepsArmed
    BY DEF IInv
  <1>1. /\ phase' \in [Stops -> {"none", "lookup", "dispatched", "lost"}]
        /\ phase'[s] = to
        /\ \A r \in Stops \ {s} : phase'[r] = phase[r]
    BY <1>0 DEF TypeOK
  <1>2. TypeOK'
    BY <1>0, <1>1 DEF TypeOK, fields, session, history, Timers
  <1>3. RunningOK'
    BY <1>0, <1>1 DEF RunningOK, fields, history
  <1>4. TimersOK'
    <2>1. \A t \in DOMAIN armed : t[1] \in Stops \ {s}
      BY <1>0 DEF TimersOK, TypeOK, Timers
    <2>2. QED BY <2>1, <1>0, <1>1 DEF TimersOK, Last, Steps, fields, history
  <1>5. StepsInOrder' /\ StartedIsBounded' /\ HandleIsLive'
    BY <1>0, <1>1
       DEF StepsInOrder, StartedIsBounded, HandleIsLive, Last, Steps, fields, history
  <1>6. SingleStopIsTracked'
    <2>1. StopsSoFar' \subseteq {1} => StopsSoFar \subseteq {1}
      BY <1>1 DEF StopsSoFar
    <2>2. QED BY <2>1, <1>0 DEF SingleStopIsTracked, fields
  <1>7. RemainingStepsArmed'
    BY <1>0, <1>1 DEF RemainingStepsArmed, Last, Steps, fields, session, history
  <1>8. QED BY <1>2, <1>3, <1>4, <1>5, <1>6, <1>7 DEF IInv

(* Dispatching the steps of a stop that has not run any. *)
LEMMA DispatchKeeps ==
  ASSUME IInv, NEW s \in Stops, NEW root \in Pids, phase[s] # "dispatched",
         sessionConfig \in Configs, Dispatch(s, root), pid' \in Pids,
         UNCHANGED <<sessionConfig, launchMarker, terminalLaunchObserved,
                     programExited, sent, session>>
  PROVE  IInv'
  <1> DEFINE first == 1
  <1>0. TypeOK /\ RunningOK /\ TimersOK /\ HandleIsLive
    BY DEF IInv
  <1>1. Last \in Nat
    BY StepsType
  <1>2. PICK next \in 1..Last + 1 :
           BeginSteps(s, first, next, root, armed, pendingKillTimer)
    BY DEF Dispatch
  <1>3. next \in Nat /\ first <= next /\ first \in Nat \ {0} /\ next <= Last + 1
    BY <1>1
  <1>4. Len(begun[s]) = first - 1
    BY <1>0, EmptySeq DEF RunningOK
  <1>5. DOMAIN armed = {t \in DOMAIN armed : t[1] # s}
    BY <1>0 DEF TimersOK
  <1>6. pendingKillTimer # None => pendingKillTimer \in DOMAIN armed
    BY <1>0 DEF HandleIsLive
  <1>7. phase' = [phase EXCEPT ![s] = "dispatched"]
    BY DEF Dispatch
  <1> HIDE DEF first
  <1>8. QED BY <1>2, <1>3, <1>4, <1>5, <1>6, <1>7, BeginStepsKeeps

LEMMA DisconnectKeeps ==
  ASSUME IInv, NEW s \in Stops, Disconnect(s)
  PROVE  IInv'
  <1>1. phase[s] = "none" /\ sessionConfig \in Configs
    BY DEF Disconnect, IInv, TypeOK
  <1>2. CASE HasPid /\ Dispatch(s, pid)
    <2>1. pid \in Pids /\ pid' \in Pids
      BY <1>2 DEF Disconnect, HasPid, IInv, TypeOK
    <2>2. QED BY <1>1, <1>2, <2>1, DispatchKeeps DEF Disconnect
  <1>3. CASE ~HasPid /\ UNCHANGED <<armed, pendingKillTimer, walks, history>>
             /\ phase' = [phase EXCEPT ![s] = IF launchMarker = None THEN "lost" ELSE "lookup"]
    <2>1. PICK to \in {"lookup", "lost"} : phase' = [phase EXCEPT ![s] = to]
      BY <1>3
    <2>2. UNCHANGED <<fields, armed, walks, session, history>>
      BY <1>3 DEF Disconnect, fields, history
    <2>3. QED BY <1>1, <2>1, <2>2, PhaseKeeps
  <1>4. QED BY <1>2, <1>3 DEF Disconnect

LEMMA LookupReturnsKeeps ==
  ASSUME IInv, NEW s \in Stops, LookupReturns(s)
  PROVE  IInv'
  <1>1. phase[s] = "lookup" /\ sessionConfig \in Configs
    BY DEF LookupReturns, IInv, TypeOK, RunningOK
  <1>2. CASE \E found \in Pids : pid' = found /\ Dispatch(s, found)
    <2>1. PICK found \in Pids : pid' = found /\ Dispatch(s, found)
      BY <1>2
    <2>2. QED BY <1>1, <2>1, DispatchKeeps DEF LookupReturns
  <1>3. CASE /\ phase' = [phase EXCEPT ![s] = "lost"]
             /\ UNCHANGED <<pid, armed, pendingKillTimer, walks, since, begun>>
    <2>1. UNCHANGED <<fields, armed, walks, session, history>>
      BY <1>3 DEF LookupReturns, fields, history
    <2>2. QED BY <1>1, <1>3, <2>1, PhaseKeeps
  <1>4. QED BY <1>2, <1>3 DEF LookupReturns

(* The timer that fires is the only one of its stop. *)
LEMMA FiringTimer ==
  ASSUME IInv, NEW t \in DOMAIN armed
  PROVE  /\ t[1] \in Stops /\ t[2] \in Nat \ {0} /\ t = <<t[1], t[2]>>
         /\ phase[t[1]] = "dispatched" /\ t[2] <= Last
         /\ Len(begun[t[1]]) = t[2] - 1
         /\ sessionConfig \in Configs /\ pid \in Pids /\ Last \in Nat
         /\ DOMAIN Disarm(armed, t) = DOMAIN armed \ {t}
         /\ DOMAIN Disarm(armed, t) = {u \in DOMAIN armed : u[1] # t[1]}
         /\ \A u \in DOMAIN Disarm(armed, t) : Disarm(armed, t)[u] = armed[u]
  <1>0. TypeOK /\ RunningOK /\ TimersOK
    BY DEF IInv
  <1>1. \A u \in DOMAIN armed : u[1] \in Stops /\ u[2] \in Nat \ {0} /\ u = <<u[1], u[2]>>
    BY <1>0 DEF TypeOK, Timers
  <1>2. \A u \in DOMAIN armed :
           phase[u[1]] = "dispatched" /\ u[2] = Len(begun[u[1]]) + 1 /\ u[2] <= Last
    BY <1>0 DEF TimersOK
  <1>3. sessionConfig \in Configs /\ pid \in Pids
    BY <1>0, <1>1, <1>2 DEF RunningOK
  <1>4. Last \in Nat
    BY <1>3, StepsType
  <1>5. \A u \in DOMAIN armed : u[1] = t[1] => u = t
    <2> SUFFICES ASSUME NEW u \in DOMAIN armed, u[1] = t[1]
                 PROVE  u = t
      OBVIOUS
    <2>1. u[2] = t[2]
      BY <1>2
    <2>2. QED BY <2>1, <1>1
  <1>6. /\ DOMAIN Disarm(armed, t) = DOMAIN armed \ {t}
        /\ \A u \in DOMAIN Disarm(armed, t) : Disarm(armed, t)[u] = armed[u]
    BY DEF Disarm
  <1>7. Len(begun[t[1]]) = t[2] - 1
    <2>1. begun[t[1]] \in Seq([step: Nat, gap: Nat])
      BY <1>0, <1>1 DEF TypeOK
    <2>2. Len(begun[t[1]]) \in Nat
      BY <2>1, LenProperties
    <2>3. t[2] = Len(begun[t[1]]) + 1
      BY <1>2
    <2>4. QED BY <2>2, <2>3
  <1>8. QED BY <1>1, <1>2, <1>3, <1>4, <1>5, <1>6, <1>7

LEMMA TimerFiresKeeps ==
  ASSUME IInv, NEW t \in DOMAIN armed, TimerFires(t[1], t[2])
  PROVE  IInv'
  <1> DEFINE s == t[1]
             i == t[2]
             others == Disarm(armed, t)
  <1>0. /\ TypeOK /\ RunningOK /\ TimersOK /\ StepsInOrder /\ StartedIsBounded
        /\ HandleIsLive /\ SingleStopIsTracked /\ RemainingStepsArmed
    BY DEF IInv
  <1>1. /\ s \in Stops /\ i \in Nat \ {0} /\ t = <<s, i>>
        /\ phase[s] = "dispatched" /\ i <= Last /\ Len(begun[s]) = i - 1
        /\ sessionConfig \in Configs /\ pid \in Pids /\ Last \in Nat
        /\ DOMAIN others = DOMAIN armed \ {t}
        /\ DOMAIN others = {u \in DOMAIN armed : u[1] # s}
        /\ \A u \in DOMAIN others : others[u] = armed[u]
    BY FiringTimer
  <1>9. CASE ~programExited
    <2>1. PICK next \in i + 1..Last + 1 : BeginSteps(s, i, next, pid, others, None)
      BY <1>1, <1>9 DEF TimerFires, FireAllowed, HandleAfterFiring
    <2>2. next \in Nat /\ i <= next /\ next <= Last + 1
      BY <1>1
    <2>4. phase' = [phase EXCEPT ![s] = "dispatched"] /\ pid' \in Pids
      BY <1>0, <1>1 DEF TimerFires, TypeOK
    <2>5. UNCHANGED <<sessionConfig, launchMarker, terminalLaunchObserved,
                      programExited, sent, session>>
      BY DEF TimerFires
    <2> HIDE DEF s, i, others
    <2>6. QED BY <1>1, <2>1, <2>2, <2>4, <2>5, BeginStepsKeeps
  <1>10. CASE programExited
    <2>1. /\ armed' = others /\ pendingKillTimer' = None
          /\ UNCHANGED <<sessionConfig, pid, launchMarker, terminalLaunchObserved,
                         programExited, phase, walks, sent, session, since, begun>>
      BY <1>1, <1>10 DEF TimerFires, FireAllowed, HandleAfterFiring
    <2> HIDE DEF others
    <2>2. TypeOK'
      BY <1>0, <1>1, <2>1 DEF TypeOK, session, Timers
    <2>3. RunningOK' /\ StepsInOrder' /\ StartedIsBounded'
      BY <1>0, <2>1 DEF RunningOK, StepsInOrder, StartedIsBounded, Last, Steps
    <2>4. TimersOK'
      BY <1>0, <1>1, <2>1 DEF TimersOK, Last, Steps
    <2>5. HandleIsLive'
      BY <2>1 DEF HandleIsLive
    <2>6. SingleStopIsTracked'
      <3>1. StopsSoFar \subseteq {1} => DOMAIN armed = {t}
        BY <1>0 DEF SingleStopIsTracked
      <3>2. QED BY <3>1, <1>1, <2>1 DEF SingleStopIsTracked, StopsSoFar
    <2>7. RemainingStepsArmed'
      BY <1>10, <2>1 DEF RemainingStepsArmed
    <2>8. QED BY <2>2, <2>3, <2>4, <2>5, <2>6, <2>7 DEF IInv
  <1>11. QED BY <1>9, <1>10

-----------------------------------------------------------------------------
LEMMA NextKeeps == IInv /\ [Next]_vars => IInv'
  <1> SUFFICES ASSUME IInv, [Next]_vars PROVE IInv'
    OBVIOUS
  <1>1. CASE RunInTerminalRequest
    BY <1>1, RunInTerminalRequestKeeps
  <1>2. CASE RunInTerminalResponse
    BY <1>2, RunInTerminalResponseKeeps
  <1>3. CASE ExitedEvent
    BY <1>3, ExitedEventKeeps
  <1>4. CASE AdapterExits
    BY <1>4, AdapterExitsKeeps
  <1>5. CASE \E s \in Stops : Disconnect(s)
    BY <1>5, DisconnectKeeps
  <1>6. CASE \E s \in Stops : LookupReturns(s)
    BY <1>6, LookupReturnsKeeps
  <1>7. CASE \E t \in DOMAIN armed : TimerFires(t[1], t[2])
    BY <1>7, TimerFiresKeeps
  <1>8. CASE \E walk \in walks : WalkReturns(walk)
    BY <1>8, WalkReturnsKeeps
  <1>9. CASE Tick
    BY <1>9, TickKeeps
  <1>10. CASE UNCHANGED vars
    <2>1. TypeOK'
      BY <1>10 DEF IInv, TypeOK, vars, fields, session, history, Timers
    <2>2. QED BY <1>10, <2>1, AsideKeeps DEF vars, fields, session, history
  <1>11. QED
    BY <1>1, <1>2, <1>3, <1>4, <1>5, <1>6, <1>7, <1>8, <1>9, <1>10
    DEF Next, Message, Completion

(* The controller's invariant: timers, handle and begun steps agree whatever *)
(* messages, lookups and timers interleave.                                  *)
THEOREM Invariance == Spec => []IInv
  <1>1. QED BY InitEstablishes, NextKeeps, PTL DEF Spec

(* The fields and queues always hold values of their types. *)
THEOREM TypeCorrect == Spec => []TypeOK
  <1>1. IInv => TypeOK
    BY DEF IInv
  <1>2. QED BY <1>1, Invariance, PTL

(* The controller's handle always names a timer that is still to fire, so a  *)
(* cancellation through it is never lost (cancelPendingKill).                *)
THEOREM HandleStaysLive == Spec => []HandleIsLive
  <1>1. IInv => HandleIsLive
    BY DEF IInv
  <1>2. QED BY <1>1, Invariance, PTL

(* Up to the second disconnect, the handle names the only timer there is.    *)
THEOREM SingleStopStaysTracked == Spec => []SingleStopIsTracked
  <1>1. IInv => SingleStopIsTracked
    BY DEF IInv
  <1>2. QED BY <1>1, Invariance, PTL

(* While program and adapter run, every sequence has its next step armed,    *)
(* for any number of overlapping stops.                                      *)
THEOREM NoStepIsLost == Spec => []RemainingStepsArmed
  <1>1. IInv => RemainingStepsArmed
    BY DEF IInv
  <1>2. QED BY <1>1, Invariance, PTL

(* After the program's exited event no timer and no lookup begins a step.    *)
THEOREM ExitEndsSequences == Spec => NoStepAfterExit
  <1>1. [Next]_vars => [programExited => begun' = begun]_vars
    <2> SUFFICES ASSUME Next, programExited
                 PROVE  begun' = begun
      OBVIOUS
    <2> USE DEF history
    <2>1. CASE Message
      BY <2>1 DEF Message, RunInTerminalRequest, RunInTerminalResponse, ExitedEvent,
                  AdapterExits, Disconnect
    <2>2. CASE \E s \in Stops : LookupReturns(s)
      BY <2>2 DEF LookupReturns, DispatchAllowed
    <2>3. CASE \E t \in DOMAIN armed : TimerFires(t[1], t[2])
      BY <2>3 DEF TimerFires, FireAllowed
    <2>4. CASE \E walk \in walks : WalkReturns(walk)
      BY <2>4 DEF WalkReturns
    <2>5. CASE Tick
      BY <2>5 DEF Tick
    <2>6. QED BY <2>1, <2>2, <2>3, <2>4, <2>5 DEF Next, Completion
  <1>2. QED BY <1>1, PTL DEF Spec, NoStepAfterExit

-----------------------------------------------------------------------------
(* The grace periods.  They need delays that setTimeout honours, and a bound *)
(* on the elapsed time that does not cut them off.                           *)

DelaysFit ==
    \A steps \in Configs : \A i \in 1..Len(steps) :
        steps[i].delay <= MaxTimerDelay /\ steps[i].delay <= MaxGap

(* What is left on a timer and what has passed since the last step make up   *)
(* the delay of the step the timer is for.                                   *)
GapsOK ==
    /\ \A t \in DOMAIN armed : t[2] > 1 => armed[t] + since[t[1]] >= DelayOf(t[2])
    /\ \A s \in Stops : \A n \in 1..Len(begun[s]) :
            n > 1 => begun[s][n].gap >= DelayOf(n)

LEMMA BeginStepsGaps ==
  ASSUME DelaysFit, IInv, GapsOK,
         NEW s \in Stops, NEW first \in Nat \ {0}, NEW next \in Nat, first <= next,
         NEW root, NEW timers, NEW handle,
         sessionConfig \in Configs, next <= Last + 1,
         Len(begun[s]) = first - 1,
         DOMAIN timers = {t \in DOMAIN armed : t[1] # s},
         \A t \in DOMAIN timers : timers[t] = armed[t],
         BeginSteps(s, first, next, root, timers, handle),
         sessionConfig' = sessionConfig,
         first = 1 \/ (first < next /\ since[s] >= DelayOf(first)),
         \A k \in first + 1..next - 1 : DelayOf(k) = 0
  PROVE  GapsOK'
  <1>1. /\ begun \in [Stops -> Seq([step: Nat, gap: Nat])]
        /\ since \in [Stops -> 0..MaxGap]
        /\ DOMAIN armed \subseteq Timers
    BY DEF IInv, TypeOK
  <1>2. /\ Len(begun'[s]) = next - 1
        /\ \A n \in 1..first - 1 : begun'[s][n] = begun[s][n]
        /\ \A n \in first..next - 1 :
              begun'[s][n].gap = IF n = first THEN since[s] ELSE 0
        /\ \A r \in Stops \ {s} : begun'[r] = begun[r]
    <2>1. begun' = BegunAs(s, first, next)
      BY DEF BeginSteps, BegunAs
    <2>2. /\ begun' \in [Stops -> Seq([step: Nat, gap: Nat])]
          /\ Len(begun'[s]) = next - 1
          /\ \A n \in 1..first - 1 : begun'[s][n] = begun[s][n]
          /\ \A n \in first..next - 1 :
                /\ begun'[s][n].step = n
                /\ begun'[s][n].gap = IF n = first THEN since[s] ELSE 0
          /\ \A r \in Stops \ {s} : begun'[r] = begun[r]
      BY <1>1, <2>1, BegunAfter
    <2>3. QED BY <2>2
  <1>3. /\ Last \in Nat
        /\ \A i \in 1..Last : DelayOf(i) \in Nat /\ DelayOf(i) <= MaxTimerDelay
        /\ \A i : DelayOf(i)' = DelayOf(i)
    <2>1. Last \in Nat /\ \A i \in 1..Last : DelayOf(i) \in Nat
      BY StepsType
    <2>2. \A i \in 1..Last : DelayOf(i) <= MaxTimerDelay
      BY DEF DelaysFit, DelayOf, Last, Steps
    <2>3. \A i : DelayOf(i)' = DelayOf(i)
      BY DEF DelayOf, Steps
    <2>4. QED BY <2>1, <2>2, <2>3
  <1>4. /\ \A r \in Stops \ {s} : since'[r] = since[r]
        /\ next > first => since'[s] = 0
    BY <1>1 DEF BeginSteps
  <1>5. /\ \A t \in DOMAIN armed' : t \in DOMAIN timers \/ (next <= Last /\ t = <<s, next>>)
        /\ \A t \in DOMAIN timers : armed'[t] = timers[t] \/ t = <<s, next>>
        /\ next <= Last => armed'[<<s, next>>] = TimerTicks(DelayOf(next))
    BY DEF BeginSteps, Arm
  <1>6. \A t \in DOMAIN armed' : t[2] > 1 => armed'[t] + since'[t[1]] >= DelayOf(t[2])
    <2> SUFFICES ASSUME NEW t \in DOMAIN armed', t[2] > 1
                 PROVE  armed'[t] + since'[t[1]] >= DelayOf(t[2])
      OBVIOUS
    <2>1. CASE t \in DOMAIN timers
      <3>1. t \in DOMAIN armed /\ t[1] \in Stops \ {s} /\ t # <<s, next>>
        BY <2>1, <1>1 DEF Timers
      <3>2. armed'[t] = armed[t] /\ since'[t[1]] = since[t[1]]
        BY <2>1, <3>1, <1>4, <1>5
      <3>3. QED BY <3>1, <3>2 DEF GapsOK
    <2>2. CASE next <= Last /\ t = <<s, next>>
      <3>1. next > first /\ next \in 1..Last /\ since'[s] = 0
        BY <2>2, <1>3, <1>4
      <3>2. TimerTicks(DelayOf(next)) = DelayOf(next)
        BY <3>1, <1>3, ConstantsAssumption DEF TimerTicks
      <3>3. QED BY <2>2, <3>1, <3>2, <1>3, <1>5
    <2>3. QED BY <2>1, <2>2, <1>5
  <1>7. ASSUME NEW r \in Stops, NEW n \in 1..Len(begun'[r]), n > 1
        PROVE  begun'[r][n].gap >= DelayOf(n)
    <2>1. CASE r # s
      <3>1. begun'[r] = begun[r]
        BY <2>1, <1>2
      <3>2. QED BY <3>1, <1>7 DEF GapsOK
    <2>2. CASE r = s
      <3>1. n \in 1..next - 1 /\ n \in 1..Last
        BY <2>2, <1>2, <1>3
      <3>2. CASE n < first
        <4>1. n \in 1..first - 1 /\ n \in 1..Len(begun[s])
          BY <3>1, <3>2
        <4>2. begun'[s][n] = begun[s][n]
          BY <4>1, <1>2
        <4>3. QED BY <2>2, <4>1, <4>2, <1>7 DEF GapsOK
      <3>3. CASE n = first
        <4>1. begun'[s][n].gap = since[s]
          BY <3>1, <3>3, <1>2
        <4>2. QED BY <2>2, <3>3, <4>1, <1>7
      <3>4. CASE n > first
        <4>1. n \in first..next - 1 /\ n \in first + 1..next - 1
          BY <3>1, <3>4
        <4>2. begun'[s][n].gap = 0
          BY <4>1, <3>4, <1>2
        <4>3. QED BY <2>2, <4>1, <4>2
      <3>5. QED BY <3>1, <3>2, <3>3, <3>4
    <2>3. QED BY <2>1, <2>2
  <1>8. QED BY <1>3, <1>6, <1>7 DEF GapsOK

(* Steps that begin nothing and at most disarm timers. *)
LEMMA AsideGaps ==
  ASSUME GapsOK, UNCHANGED <<sessionConfig, begun, since>>,
         DOMAIN armed' \subseteq DOMAIN armed,
         \A t \in DOMAIN armed' : armed'[t] = armed[t]
  PROVE  GapsOK'
  BY DEF GapsOK, DelayOf, Steps

LEMMA DispatchGaps ==
  ASSUME DelaysFit, IInv, GapsOK, NEW s \in Stops, NEW root, phase[s] # "dispatched",
         sessionConfig \in Configs, Dispatch(s, root), sessionConfig' = sessionConfig
  PROVE  GapsOK'
  <1> DEFINE first == 1
  <1>0. RunningOK /\ TimersOK
    BY DEF IInv
  <1>1. Last \in Nat
    BY StepsType
  <1>2. PICK next \in 1..Last + 1 :
           /\ \A k \in 1..next - 1 : DelayOf(k) = 0
           /\ BeginSteps(s, first, next, root, armed, pendingKillTimer)
    BY DEF Dispatch, RunsUpTo
  <1>3. /\ next \in Nat /\ first <= next /\ first \in Nat \ {0} /\ next <= Last + 1
        /\ \A k \in first + 1..next - 1 : DelayOf(k) = 0
    BY <1>1, <1>2
  <1>4. Len(begun[s]) = first - 1
    BY <1>0, EmptySeq DEF RunningOK
  <1>5. DOMAIN armed = {t \in DOMAIN armed : t[1] # s}
    BY <1>0 DEF TimersOK
  <1>6. first = 1
    OBVIOUS
  <1> HIDE DEF first
  <1>7. QED BY <1>2, <1>3, <1>4, <1>5, <1>6, BeginStepsGaps

LEMMA TimerFiresGaps ==
  ASSUME DelaysFit, IInv, GapsOK, NEW t \in DOMAIN armed, TimerFires(t[1], t[2])
  PROVE  GapsOK'
  <1> DEFINE s == t[1]
             i == t[2]
             others == Disarm(armed, t)
  <1>1. /\ s \in Stops /\ i \in Nat \ {0} /\ t = <<s, i>>
        /\ phase[s] = "dispatched" /\ i <= Last /\ Len(begun[s]) = i - 1
        /\ sessionConfig \in Configs /\ pid \in Pids /\ Last \in Nat
        /\ DOMAIN others = DOMAIN armed \ {t}
        /\ DOMAIN others = {u \in DOMAIN armed : u[1] # s}
        /\ \A u \in DOMAIN others : others[u] = armed[u]
    BY FiringTimer
  <1>2. since[s] \in Nat
    BY <1>1, ConstantsAssumption DEF IInv, TypeOK
  <1>9. CASE ~programExited
    <2>1. PICK next \in i + 1..Last + 1 :
             /\ \A k \in i + 1..next - 1 : DelayOf(k) = 0
             /\ BeginSteps(s, i, next, pid, others, None)
      BY <1>1, <1>9 DEF TimerFires, FireAllowed, HandleAfterFiring, RunsUpTo
    <2>2. next \in Nat /\ i <= next /\ i < next /\ next <= Last + 1
      BY <1>1
    <2>4. i = 1 \/ (i < next /\ since[s] >= DelayOf(i))
      <3>1. armed[t] = 0
        BY <1>1 DEF TimerFires
      <3>2. i > 1 => armed[t] + since[s] >= DelayOf(i)
        BY DEF GapsOK
      <3>3. QED BY <1>1, <1>2, <2>2, <3>1, <3>2
    <2>5. sessionConfig' = sessionConfig
      BY DEF TimerFires
    <2> HIDE DEF s, i, others
    <2>6. QED BY <1>1, <2>1, <2>2, <2>4, <2>5, BeginStepsGaps
  <1>10. CASE programExited
    <2>1. armed' = others /\ UNCHANGED <<sessionConfig, begun, since>>
      BY <1>1, <1>10 DEF TimerFires, FireAllowed
    <2> HIDE DEF others
    <2>2. QED BY <1>1, <2>1, AsideGaps
  <1>11. QED BY <1>9, <1>10

LEMMA TickGaps ==
  ASSUME DelaysFit, IInv, GapsOK, Tick
  PROVE  GapsOK'
  <1>1. /\ since \in [Stops -> 0..MaxGap] /\ MaxGap \in Nat
        /\ DOMAIN armed \subseteq Timers /\ \A t \in DOMAIN armed : armed[t] \in Nat
        /\ RunningOK /\ TimersOK
    BY ConstantsAssumption DEF IInv, TypeOK
  <1>2. /\ DOMAIN armed' = DOMAIN armed /\ UNCHANGED <<sessionConfig, begun>>
        /\ \A t \in DOMAIN armed :
              armed'[t] = IF armed[t] > 0 THEN armed[t] - 1 ELSE 0
        /\ \A s \in Stops :
              since'[s] = IF since[s] < MaxGap THEN since[s] + 1 ELSE since[s]
    BY DEF Tick, fields
  <1>3. ASSUME NEW t \in DOMAIN armed, t[2] > 1
        PROVE  armed'[t] + since'[t[1]] >= DelayOf(t[2])
    <2>1. t[1] \in Stops /\ t[2] \in Nat \ {0} /\ since[t[1]] \in 0..MaxGap
      BY <1>1 DEF Timers
    <2>2. phase[t[1]] = "dispatched" /\ t[2] <= Last
      BY <1>1 DEF TimersOK
    <2>3. sessionConfig \in Configs
      BY <1>1, <2>1, <2>2 DEF RunningOK
    <2>4. DelayOf(t[2]) \in Nat /\ DelayOf(t[2]) <= MaxGap
      <3>1. Last \in Nat /\ \A i \in 1..Last : DelayOf(i) \in Nat
        BY <2>3, StepsType
      <3>2. t[2] \in 1..Last
        BY <2>1, <2>2, <3>1
      <3>3. QED BY <2>3, <3>1, <3>2 DEF DelaysFit, DelayOf, Last, Steps
    <2>5. armed[t] + since[t[1]] >= DelayOf(t[2])
      BY <1>3 DEF GapsOK
    <2>6. armed[t] \in Nat
      BY <1>1
    <2>7. QED BY <1>1, <1>2, <2>1, <2>4, <2>5, <2>6
  <1>4. QED BY <1>2, <1>3 DEF GapsOK, DelayOf, Steps

LEMMA NextGaps ==
  ASSUME DelaysFit, IInv, GapsOK, [Next]_vars
  PROVE  GapsOK'
  <1>1. CASE RunInTerminalRequest \/ RunInTerminalResponse \/ UNCHANGED vars
    BY <1>1, AsideGaps
       DEF RunInTerminalRequest, RunInTerminalResponse, vars, fields, history
  <1>2. CASE ExitedEvent \/ AdapterExits
    <2>1. DOMAIN armed' \subseteq DOMAIN armed /\ \A t \in DOMAIN armed' : armed'[t] = armed[t]
      BY <1>2 DEF ExitedEvent, AdapterExits, CancelPendingKill, Disarm
    <2>2. QED BY <1>2, <2>1, AsideGaps DEF ExitedEvent, AdapterExits, history
  <1>3. CASE \E s \in Stops : Disconnect(s)
    <2>1. PICK s \in Stops : Disconnect(s)
      BY <1>3
    <2>2. phase[s] = "none" /\ sessionConfig \in Configs /\ sessionConfig' = sessionConfig
      BY <2>1 DEF Disconnect, IInv, TypeOK
    <2>3. CASE Dispatch(s, pid)
      BY <2>2, <2>3, DispatchGaps
    <2>4. CASE UNCHANGED <<armed, pendingKillTimer, walks, history>>
      BY <2>2, <2>4, AsideGaps DEF history
    <2>5. QED BY <2>1, <2>3, <2>4 DEF Disconnect
  <1>4. CASE \E s \in Stops : LookupReturns(s)
    <2>1. PICK s \in Stops : LookupReturns(s)
      BY <1>4
    <2>2. phase[s] = "lookup" /\ sessionConfig \in Configs /\ sessionConfig' = sessionConfig
      BY <2>1 DEF LookupReturns, IInv, TypeOK, RunningOK
    <2>3. CASE \E found \in Pids : Dispatch(s, found)
      BY <2>2, <2>3, DispatchGaps
    <2>4. CASE UNCHANGED <<armed, since, begun>>
      BY <2>2, <2>4, AsideGaps
    <2>5. QED BY <2>1, <2>3, <2>4 DEF LookupReturns
  <1>5. CASE \E t \in DOMAIN armed : TimerFires(t[1], t[2])
    BY <1>5, TimerFiresGaps
  <1>6. CASE \E walk \in walks : WalkReturns(walk)
    BY <1>6, AsideGaps DEF WalkReturns, fields
  <1>7. CASE Tick
    BY <1>7, TickGaps
  <1>8. QED
    BY <1>1, <1>2, <1>3, <1>4, <1>5, <1>6, <1>7 DEF Next, Message, Completion

(* If setTimeout can hold every configured delay, no signal step begins      *)
(* before its grace period has passed since the step before it, and the      *)
(* steps begin in their order (dispatchSignalSequence).                      *)
THEOREM GraceIsAlwaysKept ==
  ASSUME DelaysFit
  PROVE  Spec => []GraceIsKept
  <1>1. Init => GapsOK
    <2>1. ASSUME Init
          PROVE  DOMAIN armed = {} /\ \A s \in Stops : Len(begun[s]) = 0
      BY <2>1, EmptySeq DEF Init
    <2>2. QED BY <2>1 DEF GapsOK
  <1>2. IInv /\ GapsOK /\ [Next]_vars => GapsOK'
    BY NextGaps
  <1>3. IInv /\ GapsOK => GraceIsKept
    BY DEF IInv, StepsInOrder, GapsOK, GraceIsKept
  <1>4. QED BY <1>1, <1>2, <1>3, Invariance, PTL DEF Spec

=============================================================================
