---------------------------- MODULE LaunchMarkers ----------------------------
(***************************************************************************)
(* SECRET_RESOLVER_SIGNAL_ON_STOP from its text to the steps a session     *)
(* obeys: parseSignalOnStop in the resolver, and SessionConfigCodec, whose *)
(* build half runs in the resolver and whose parse half runs in the debug  *)
(* adapter tracker.                                                        *)
(*                                                                         *)
(* A marker text is a sequence of the tokens between its plus signs, a     *)
(* token a delay (or None) and a word; blanks are trimmed.  A token that   *)
(* STEP_PATTERN does not match has the word "?".                           *)
(***************************************************************************)
EXTENDS Integers, Sequences

CONSTANT None  \* undefined, null, or a field that is not there

DEFAULT_STEP_DELAY_SECONDS == 30
SIGNAL_NAMES == {"TERM", "KILL", "INT", "HUP"}
SignalStep == [delaySec: Nat, signal: SIGNAL_NAMES]

Word(text) == [delay |-> None, word |-> text]
ToUpperCase(word) ==
    CASE word = "term" -> "TERM" [] word = "kill" -> "KILL" [] word = "off" -> "OFF" [] OTHER -> word

(* A blank in the marker switches it off where the setting would switch it on. *)
EffectiveMarkerValue(marker, setting) == IF marker # None THEN marker ELSE setting

IsOff(value) ==
    value = None \/ (Len(value) = 1 /\ value[1].delay = None
                     /\ (value[1].word = "" \/ ToUpperCase(value[1].word) = "OFF"))

IsStep(token) == ToUpperCase(token.word) \in SIGNAL_NAMES

(* A bug: the default delay goes to every step that follows a delay. *)
DelayFromSecond(token, i) ==
    IF token.delay # None THEN token.delay
    ELSE IF i <= 2 THEN 0 ELSE DEFAULT_STEP_DELAY_SECONDS

DelaySec(token, i) ==
    IF token.delay # None THEN token.delay
    ELSE IF i = 1 THEN 0 ELSE DEFAULT_STEP_DELAY_SECONDS

(* The steps; none both for "off" and for "invalid", which is warned about. *)
ParseSignalOnStop(value) ==
    IF IsOff(value) \/ \E i \in DOMAIN value : ~IsStep(value[i]) THEN <<>>
    ELSE [i \in DOMAIN value |->
            [delaySec |-> DelaySec(value[i], i), signal |-> ToUpperCase(value[i].word)]]

-----------------------------------------------------------------------------
(* The __secretResolver field, or None. *)

(* A bug: without steps there is nothing to hand over. *)
BuildForSteps(signalOnStop, accountId) ==
    IF signalOnStop = <<>> THEN None ELSE [steps |-> signalOnStop, accountId |-> accountId]

Build(signalOnStop, accountId) ==
    IF signalOnStop = <<>> /\ accountId = None THEN None
    ELSE [steps |-> signalOnStop, accountId |-> accountId]

(* The field passes other extensions before it is read: a step can be broken. *)
IsSignalStep(step) == step.delaySec >= 0 /\ step.signal \in SIGNAL_NAMES

(* A bug: the steps that are no steps are left out. *)
ValidOnes(steps) == SelectSeq(steps, IsSignalStep)

ValidSteps(steps) == IF \A i \in DOMAIN steps : IsSignalStep(steps[i]) THEN steps ELSE <<>>

Parse(field) ==
    IF field = None THEN None
    ELSE LET steps == ValidSteps(field.steps)
             accountId == IF field.accountId = "" THEN None ELSE field.accountId
         IN Build(steps, accountId)
=============================================================================
