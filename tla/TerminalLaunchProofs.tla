------------------------- MODULE TerminalLaunchProofs -------------------------
(***************************************************************************)
(* What a launch hands to its session and its terminal, for any envs,      *)
(* accounts, marker texts and vaults: the stop-signal steps and the        *)
(* account pass the configuration, where another extension can break them; *)
(* no secret leaves a request without a warning; and the program sees      *)
(* every variable as it was meant.                                         *)
(*                                                                         *)
(* The first invariant, IInv, follows the field: it is what resolve built  *)
(* from the marker (Built), or that with a broken step, and what the       *)
(* tracker read is the parse of the one or the other.  The second, EnvInv, *)
(* follows the env from its sources to the file op run reads, with the     *)
(* theorems of FormatProofs for the texts it passes through.               *)
(***************************************************************************)
EXTENDS TerminalLaunch, FormatProofs

NoEnv == given.env = None /\ given.file = None
Effective == Marker!EffectiveMarkerValue(given.marker, given.setting)
Steps == Marker!ParseSignalOnStop(Effective)

(* The field of the configuration that resolve returns. *)
Built == IF NoEnv THEN None ELSE Marker!Build(Steps, given.account)

(* The field of a configuration that another extension has changed. *)
Changed == [steps |-> Append(Steps, Broken), accountId |-> given.account]

GivenOK ==
    /\ given.vault \in Vaults
    /\ given.marker \in MarkerTexts \cup {None}
    /\ given.setting \in Settings
    /\ given.account \in Accounts \cup {None}

ConfigOK ==
    /\ config # None =>
        /\ "field" \in DOMAIN config
        /\ config.field = IF touched THEN Changed ELSE Built
        /\ touched => ~NoEnv
    /\ touched \in BOOLEAN

SessionOK ==
    session # None =>
        /\ config # None
        /\ session.field = Marker!Parse(config.field)

RequestOK ==
    request # None =>
        /\ session # None
        /\ request.wrapped => request.account = AccountId

IInv == GivenOK /\ ConfigOK /\ SessionOK /\ RequestOK /\ SecretsLeaveOnlyWithAWarning

-----------------------------------------------------------------------------
(* The codec and the parser of markers. *)

(* The parser yields steps that the session's own check lets pass: a signal   *)
(* with a delay, which is a number from the text or one of the defaults.      *)
LEMMA ParsedSteps ==
    ASSUME NEW value, value # None => value \in Seq(Token)
    PROVE  /\ Marker!ParseSignalOnStop(value) \in Seq(Step)
           /\ \A i \in DOMAIN Marker!ParseSignalOnStop(value) :
                  Marker!IsSignalStep(Marker!ParseSignalOnStop(value)[i])
  <1>1. CASE Marker!ParseSignalOnStop(value) = <<>>
    BY <1>1
  <1>2. CASE Marker!ParseSignalOnStop(value) # <<>>
    <2> DEFINE Parsed(i) == [delaySec |-> Marker!DelaySec(value[i], i),
                             signal |-> Marker!ToUpperCase(value[i].word)]
    <2>1. /\ value \in Seq(Token)
          /\ \A i \in DOMAIN value : Marker!IsStep(value[i])
          /\ Marker!ParseSignalOnStop(value) = [i \in DOMAIN value |-> Parsed(i)]
      BY <1>2 DEF Marker!ParseSignalOnStop, Marker!IsOff
    <2>2. ASSUME NEW i \in DOMAIN value
          PROVE  /\ Marker!DelaySec(value[i], i) \in Nat
                 /\ Marker!ToUpperCase(value[i].word) \in Marker!SIGNAL_NAMES
      <3>1. value[i] \in Token
        BY <2>1
      <3>2. value[i].delay \in Nat \cup {None}
        BY <3>1 DEF Token
      <3> QED
        BY <2>1, <3>2 DEF Marker!DelaySec, Marker!DEFAULT_STEP_DELAY_SECONDS, Marker!IsStep
    <2>3. \A i \in DOMAIN value : Parsed(i) \in Step /\ Marker!IsSignalStep(Parsed(i))
      BY <2>2 DEF Step, Marker!IsSignalStep
    <2>4. DOMAIN value = 1..Len(value) /\ Len(value) \in Nat
      BY <2>1
    <2> HIDE DEF Parsed
    <2>5. [i \in 1..Len(value) |-> Parsed(i)] \in Seq(Step)
      BY <2>3, <2>4
    <2> QED
      BY <2>1, <2>3, <2>4, <2>5
  <1> QED
    BY <1>1, <1>2

(* The fields there can be; none of them is "no field". *)
Fields == [steps: Seq(Step), accountId: Accounts \cup {None}]

LEMMA FieldsAreSomething == None \notin Fields
  BY LaunchAssumption DEF Fields

(* What is read from an unchanged field is what it was built from. *)
LEMMA ParseOfBuild ==
    ASSUME NEW steps \in Seq(Step), \A i \in DOMAIN steps : Marker!IsSignalStep(steps[i]),
           NEW account \in Accounts \cup {None}
    PROVE  Marker!Parse(Marker!Build(steps, account)) = Marker!Build(steps, account)
  <1>1. [steps |-> steps, accountId |-> account] # None
    <2>1. [steps |-> steps, accountId |-> account] \in Fields
      BY DEF Fields
    <2> QED
      BY <2>1, FieldsAreSomething
  <1>2. (IF account = "" THEN None ELSE account) = account
    BY LaunchAssumption
  <1> QED
    BY <1>1, <1>2 DEF Marker!Parse, Marker!Build, Marker!ValidSteps

(* Of a changed field only the account is left.                               *)
LEMMA ParseOfChanged ==
    ASSUME NEW steps \in Seq(Step), NEW account \in Accounts \cup {None}
    PROVE  Marker!Parse([steps |-> Append(steps, Broken), accountId |-> account])
               = Marker!Build(<<>>, account)
  <1> DEFINE broken == Append(steps, Broken)
             field == [steps |-> broken, accountId |-> account]
  <1>1. /\ broken \in Seq(Step)
        /\ Len(steps) + 1 \in DOMAIN broken
        /\ broken[Len(steps) + 1] = Broken
    BY DEF Broken, Step, Marker!SIGNAL_NAMES
  <1>2. field # None
    <2>1. field \in Fields
      BY <1>1 DEF Fields
    <2> QED
      BY <2>1, FieldsAreSomething
  <1>3. Marker!ValidSteps(broken) = <<>>
    BY <1>1 DEF Marker!ValidSteps, Marker!IsSignalStep, Broken
  <1>4. (IF account = "" THEN None ELSE account) = account
    BY LaunchAssumption
  <1>5. field.steps = broken /\ field.accountId = account
    OBVIOUS
  <1> HIDE DEF broken, field
  <1>6. Marker!Parse(field) = Marker!Build(<<>>, account)
    BY <1>2, <1>3, <1>4, <1>5 DEF Marker!Parse
  <1> QED
    BY <1>6 DEF broken, field

LEMMA BrokenField ==
    ASSUME NEW steps, NEW account
    PROVE  WithBrokenStep([steps |-> steps, accountId |-> account])
               = [steps |-> Append(steps, Broken), accountId |-> account]
  BY DEF WithBrokenStep

(* The marker that counts for a launch has a text, if there is one.           *)
LEMMA EffectiveText ==
    ASSUME GivenOK
    PROVE  /\ Effective # None => Effective \in Seq(Token)
           /\ Steps \in Seq(Step)
           /\ \A i \in DOMAIN Steps : Marker!IsSignalStep(Steps[i])
           /\ Effective = None => Steps = <<>>
  <1>1. Effective # None => Effective \in Seq(Token)
    BY LaunchAssumption DEF GivenOK, Effective, Marker!EffectiveMarkerValue
  <1>2. Effective = None => Steps = <<>>
    BY DEF Steps, Marker!ParseSignalOnStop, Marker!IsOff
  <1> QED
    BY <1>1, <1>2, ParsedSteps DEF Steps

(* What the tracker can find in its session. *)
LEMMA SessionField ==
    ASSUME GivenOK, ConfigOK, SessionOK, session # None
    PROVE  session.field = IF touched THEN Marker!Build(<<>>, given.account) ELSE Built
  <1>1. given.account \in Accounts \cup {None}
    BY DEF GivenOK
  <1>2. Steps \in Seq(Step) /\ \A i \in DOMAIN Steps : Marker!IsSignalStep(Steps[i])
    BY EffectiveText
  <1>3. Marker!Parse(Changed) = Marker!Build(<<>>, given.account)
    BY <1>1, <1>2, ParseOfChanged DEF Changed
  <1>4. Marker!Parse(Built) = Built
    BY <1>1, <1>2, ParseOfBuild DEF Built, Marker!Parse
  <1> QED
    BY <1>3, <1>4 DEF ConfigOK, SessionOK

-----------------------------------------------------------------------------
(* The env of a request. *)

(* Where nothing is left for a file, the request only unsets; where a file    *)
(* holds the env, the request has none; where there is no file, a warning.    *)
LEMMA RequestWithoutSecrets ==
    ASSUME NEW requestEnv, RunInTerminal(requestEnv), GivenOK
    PROVE  SecretsLeaveOnlyWithAWarning'
  <1> DEFINE entries == BuildEnvFileEntries(requestEnv)
  <1>1. \A k \in DOMAIN requestEnv : requestEnv[k] # None => k \in DOMAIN entries
    BY DEF BuildEnvFileEntries, Defined, AddAll
  <1>2. given' = given
    BY DEF RunInTerminal
  <1>3. \/ request'.env = <<>>
        \/ request'.env = requestEnv /\ request'.warned = (entries # <<>>)
    BY DEF RunInTerminal, EnvLeft
  <1>4. \A s \in Refs : given.vault[s] # None
    BY EnvAssumption DEF GivenOK
  <1> HIDE DEF entries
  <1>5. CASE request'.env = <<>>
    <2>1. DOMAIN request'.env = {}
      BY <1>5
    <2> QED
      BY <1>2, <2>1 DEF SecretsLeaveOnlyWithAWarning, HasSecret
  <1>6. CASE request'.env = requestEnv /\ request'.warned = (entries # <<>>)
    <2>1. CASE entries # <<>>
      BY <1>6, <2>1 DEF SecretsLeaveOnlyWithAWarning
    <2>2. CASE entries = <<>>
      <3>1. DOMAIN entries = {}
        BY <2>2
      <3>2. \A k \in DOMAIN requestEnv : requestEnv[k] = None
        BY <1>1, <3>1
      <3> QED
        BY <1>2, <1>4, <1>6, <3>2 DEF SecretsLeaveOnlyWithAWarning, HasSecret
    <2> QED
      BY <2>1, <2>2
  <1> QED
    BY <1>3, <1>5, <1>6

-----------------------------------------------------------------------------
(* The invariant. *)

LEMMA InitIInv == Init => IInv
  <1> SUFFICES ASSUME Init PROVE IInv
    OBVIOUS
  <1>1. GivenOK
    BY DEF Init, GivenOK
  <1>2. config = None /\ session = None /\ request = None /\ touched = FALSE
    BY DEF Init
  <1> QED
    BY <1>1, <1>2
       DEF IInv, ConfigOK, SessionOK, RequestOK, SecretsLeaveOnlyWithAWarning, HasSecret

LEMMA NextIInv == IInv /\ [Next]_vars => IInv'
  <1> SUFFICES ASSUME IInv, [Next]_vars PROVE IInv'
    OBVIOUS
  <1> USE DEF IInv
  <1>1. CASE Resolve
    <2>1. given' = given /\ session' = session /\ request' = request /\ asked' = asked
          /\ touched' = FALSE /\ config = None
      BY <1>1 DEF Resolve
    <2>2. "field" \in DOMAIN config' /\ config'.field = Built
      BY <1>1 DEF Resolve, FieldOf, Built, NoEnv, Steps, Effective
    <2>3. Built' = Built /\ Changed' = Changed /\ NoEnv' = NoEnv
      BY <2>1 DEF Built, Changed, NoEnv, Steps, Effective
    <2>4. session = None /\ request = None
      BY <2>1 DEF SessionOK, RequestOK
    <2> QED
      BY <2>1, <2>2, <2>3, <2>4
         DEF GivenOK, ConfigOK, SessionOK, RequestOK, SecretsLeaveOnlyWithAWarning, HasSecret
  <1>2. CASE OtherExtension
    <2>1. given' = given /\ session' = session /\ request' = request /\ asked' = asked
          /\ touched' /\ config # None /\ session = None /\ ~touched
      BY <1>2 DEF OtherExtension
    <2>2. ~NoEnv /\ config.field = [steps |-> Steps, accountId |-> given.account]
      BY <1>2, <2>1 DEF OtherExtension, ConfigOK, Built, Marker!Build
    <2>3. "field" \in DOMAIN config' /\ config'.field = Changed
      <3>1. WithBrokenStep(config.field) = Changed
        BY <2>2, BrokenField DEF Changed
      <3>2. config' = [config EXCEPT !.field = Changed]
        BY <1>2, <3>1 DEF OtherExtension
      <3> QED
        BY <2>1, <3>2 DEF ConfigOK
    <2>4. Changed' = Changed /\ NoEnv' = NoEnv
      BY <2>1 DEF Changed, NoEnv, Steps, Effective
    <2> QED
      BY <2>1, <2>2, <2>3, <2>4
         DEF GivenOK, ConfigOK, SessionOK, RequestOK, SecretsLeaveOnlyWithAWarning, HasSecret
  <1>3. CASE CreateDebugAdapterTracker
    <2>1. given' = given /\ config' = config /\ request' = request /\ asked' = asked
          /\ touched' = touched /\ config # None /\ session = None
          /\ session'.field = Marker!Parse(config.field)
      BY <1>3 DEF CreateDebugAdapterTracker
    <2>2. Built' = Built /\ Changed' = Changed /\ NoEnv' = NoEnv
      BY <2>1 DEF Built, Changed, NoEnv, Steps, Effective
    <2>3. request = None
      BY <2>1 DEF RequestOK
    <2> QED
      BY <2>1, <2>2, <2>3
         DEF GivenOK, ConfigOK, SessionOK, RequestOK, SecretsLeaveOnlyWithAWarning, HasSecret
  <1>4. ASSUME NEW requestEnv, RunInTerminal(requestEnv)
        PROVE  IInv'
    <2>1. given' = given /\ config' = config /\ session' = session /\ touched' = touched
          /\ session # None
      BY <1>4 DEF RunInTerminal
    <2>2. Built' = Built /\ Changed' = Changed /\ NoEnv' = NoEnv /\ AccountId' = AccountId
      BY <2>1 DEF Built, Changed, NoEnv, Steps, Effective, AccountId
    <2>3. request'.wrapped => request'.account = AccountId
      BY <1>4 DEF RunInTerminal
    <2>4. SecretsLeaveOnlyWithAWarning'
      BY <1>4, RequestWithoutSecrets
    <2> QED
      BY <2>1, <2>2, <2>3, <2>4 DEF GivenOK, ConfigOK, SessionOK, RequestOK
  <1>5. CASE ProgramStarts \/ UNCHANGED vars
    <2>1. UNCHANGED <<given, config, session, asked, request, touched>>
      BY <1>5 DEF ProgramStarts, vars
    <2>2. Built' = Built /\ Changed' = Changed /\ NoEnv' = NoEnv /\ AccountId' = AccountId
      BY <2>1 DEF Built, Changed, NoEnv, Steps, Effective, AccountId
    <2> QED
      BY <2>1, <2>2
         DEF GivenOK, ConfigOK, SessionOK, RequestOK, SecretsLeaveOnlyWithAWarning, HasSecret
  <1> QED
    BY <1>1, <1>2, <1>3, <1>4, <1>5 DEF Next

(* What a launch hands over is what resolve built, or what became of it.      *)
THEOREM Invariance == Spec => []IInv
  BY InitIInv, NextIInv, PTL DEF Spec

-----------------------------------------------------------------------------
(* The properties. *)

(* The steps of a text that is made of steps only.                            *)
ParsedStep(token, i) ==
    [delaySec |-> Marker!DelaySec(token, i), signal |-> Marker!ToUpperCase(token.word)]

LEMMA ParsedText ==
    ASSUME NEW text, text # None, text # <<>>, DOMAIN text = 1..Len(text),
           \A i \in DOMAIN text : Marker!IsStep(text[i])
    PROVE  Marker!ParseSignalOnStop(text) = [i \in 1..Len(text) |-> ParsedStep(text[i], i)]
  <1>1. ~Marker!IsOff(text)
    <2>1. ASSUME Len(text) = 1
          PROVE  Marker!ToUpperCase(text[1].word) # "OFF" /\ text[1].word # ""
      <3>1. Marker!IsStep(text[1])
        BY <2>1
      <3> QED
        BY <3>1 DEF Marker!IsStep, Marker!SIGNAL_NAMES, Marker!ToUpperCase
    <2> QED
      BY <2>1 DEF Marker!IsOff
  <1> QED
    BY <1>1 DEF Marker!ParseSignalOnStop, ParsedStep

(* A text with a word that names no signal stands for no steps.               *)
LEMMA UnparsedText ==
    ASSUME NEW text, NEW i \in DOMAIN text, ~Marker!IsStep(text[i])
    PROVE  Marker!ParseSignalOnStop(text) = <<>>
  BY DEF Marker!ParseSignalOnStop

LEMMA WordsOfReadme ==
    /\ Marker!ToUpperCase("TERM") = "TERM" /\ Marker!ToUpperCase("term") = "TERM"
    /\ Marker!ToUpperCase("KILL") = "KILL" /\ Marker!ToUpperCase("kill") = "KILL"
    /\ Marker!ToUpperCase("INT") = "INT"
    /\ \A word \in {"off", "", "STOP", "?"} : Marker!ToUpperCase(word) \notin Marker!SIGNAL_NAMES
  BY DEF Marker!ToUpperCase, Marker!SIGNAL_NAMES

(* A word names a signal, or not, with a delay as without.                    *)
LEMMA StepOfWord ==
    ASSUME NEW word
    PROVE  Marker!IsStep(Word(word)) <=> Marker!ToUpperCase(word) \in Marker!SIGNAL_NAMES
  <1>1. Word(word).word = word
    BY DEF Word, Marker!Word
  <1> QED
    BY <1>1 DEF Marker!IsStep

LEMMA StepOfDelayedWord ==
    ASSUME NEW d, NEW word
    PROVE  Marker!IsStep(After(d, word)) <=> Marker!ToUpperCase(word) \in Marker!SIGNAL_NAMES
  <1>1. After(d, word).word = word
    BY DEF After
  <1> QED
    BY <1>1 DEF Marker!IsStep

(* The first step of a marker is sent at once, a later one after 30 s.        *)
LEMMA ReadsWord ==
    ASSUME NEW word
    PROVE  /\ ParsedStep(Word(word), 1) = Do(0, Marker!ToUpperCase(word))
           /\ ParsedStep(Word(word), 2) = Do(30, Marker!ToUpperCase(word))
           /\ ParsedStep(Word(word), 3) = Do(30, Marker!ToUpperCase(word))
  <1>1. Word(word).delay = None /\ Word(word).word = word
    BY DEF Word, Marker!Word
  <1> QED
    BY <1>1 DEF ParsedStep, Do, Marker!DelaySec, Marker!DEFAULT_STEP_DELAY_SECONDS

(* A delay that is given is obeyed, wherever the step stands.                 *)
LEMMA ReadsDelayedWord ==
    ASSUME NEW d \in Delays, NEW word, NEW i
    PROVE  ParsedStep(After(d, word), i) = Do(d, Marker!ToUpperCase(word))
  <1>1. After(d, word).delay = d /\ After(d, word).word = word
    BY DEF After
  <1>2. d # None
    BY ReadmeAssumption
  <1> QED
    BY <1>1, <1>2 DEF ParsedStep, Do, Marker!DelaySec

(* README.md's examples of a marker mean what the parser reads, whatever      *)
(* their delays.                                                              *)
THEOREM ParserReadsReadmeExamples ==
    \A example \in Examples : Marker!ParseSignalOnStop(example.text) = example.steps
  <1> DEFINE IsStep(token) == Marker!IsStep(token)
             Reads(text, steps) == text # None => Marker!ParseSignalOnStop(text) = steps
  <1>1. /\ \A word \in {"TERM", "KILL", "term"} : IsStep(Word(word))
        /\ \A d, word : word \in {"kill", "INT", "TERM"} => IsStep(After(d, word))
        /\ \A word \in {"off", "", "STOP", "?"} : ~IsStep(Word(word))
    <2>1. \A word \in {"TERM", "KILL", "INT", "term", "kill"} :
            Marker!ToUpperCase(word) \in Marker!SIGNAL_NAMES
      BY WordsOfReadme DEF Marker!SIGNAL_NAMES
    <2> QED
      BY <2>1, WordsOfReadme, StepOfWord, StepOfDelayedWord
  <1>2. ASSUME NEW a, IsStep(a) PROVE Reads(<<a>>, <<ParsedStep(a, 1)>>)
    <2>1. DOMAIN <<a>> = {1} /\ Len(<<a>>) = 1 /\ <<a>>[1] = a /\ <<a>> # <<>> /\ 1..1 = {1}
      OBVIOUS
    <2>2. \A i \in DOMAIN <<a>> : Marker!IsStep(<<a>>[i])
      BY <1>2, <2>1
    <2>3. Reads(<<a>>, [i \in 1..1 |-> ParsedStep(<<a>>[i], i)])
      BY <2>1, <2>2, ParsedText
    <2> QED
      BY <2>1, <2>3
  <1>3. ASSUME NEW a, NEW b, IsStep(a), IsStep(b)
        PROVE  Reads(<<a, b>>, <<ParsedStep(a, 1), ParsedStep(b, 2)>>)
    <2>1. /\ DOMAIN <<a, b>> = {1, 2} /\ Len(<<a, b>>) = 2
          /\ <<a, b>>[1] = a /\ <<a, b>>[2] = b
      OBVIOUS
    <2>2. Reads(<<a, b>>, [i \in 1..2 |-> ParsedStep(<<a, b>>[i], i)])
      BY <1>3, <2>1, ParsedText
    <2> QED
      BY <2>1, <2>2
  <1>4. ASSUME NEW a, NEW b, NEW c, IsStep(a), IsStep(b), IsStep(c)
        PROVE  Reads(<<a, b, c>>, <<ParsedStep(a, 1), ParsedStep(b, 2), ParsedStep(c, 3)>>)
    <2>1. /\ DOMAIN <<a, b, c>> = {1, 2, 3} /\ Len(<<a, b, c>>) = 3
          /\ <<a, b, c>>[1] = a /\ <<a, b, c>>[2] = b /\ <<a, b, c>>[3] = c
      OBVIOUS
    <2>2. Reads(<<a, b, c>>, [i \in 1..3 |-> ParsedStep(<<a, b, c>>[i], i)])
      BY <1>4, <2>1, ParsedText
    <2> QED
      BY <2>1, <2>2
  <1>5. ASSUME NEW a, ~IsStep(a) PROVE Reads(<<a>>, <<>>)
    <2>1. 1 \in DOMAIN <<a>> /\ <<a>>[1] = a
      OBVIOUS
    <2> QED
      BY <1>5, <2>1, UnparsedText
  <1>6. ASSUME NEW a, NEW b, ~IsStep(a) \/ ~IsStep(b) PROVE Reads(<<a, b>>, <<>>)
    <2>1. /\ 1 \in DOMAIN <<a, b>> /\ <<a, b>>[1] = a
          /\ 2 \in DOMAIN <<a, b>> /\ <<a, b>>[2] = b
      OBVIOUS
    <2> QED
      BY <1>6, <2>1, UnparsedText
  <1>7. /\ ParsedStep(Word("TERM"), 1) = Do(0, "TERM") /\ ParsedStep(Word("term"), 1) = Do(0, "TERM")
        /\ ParsedStep(Word("KILL"), 2) = Do(30, "KILL") /\ ParsedStep(Word("KILL"), 3) = Do(30, "KILL")
    BY WordsOfReadme, ReadsWord
  <1>8. \A d \in Delays : /\ ParsedStep(After(d, "kill"), 2) = Do(d, "KILL")
                          /\ ParsedStep(After(d, "INT"), 1) = Do(d, "INT")
                          /\ ParsedStep(After(d, "TERM"), 2) = Do(d, "TERM")
    BY WordsOfReadme, ReadsDelayedWord
  <1> HIDE DEF IsStep, Reads
  <1>9. Reads(<<Word("TERM"), Word("KILL")>>, <<Do(0, "TERM"), Do(30, "KILL")>>)
    BY <1>1, <1>3, <1>7
  <1>10. Reads(<<Word("term")>>, <<Do(0, "TERM")>>)
    BY <1>1, <1>2, <1>7
  <1>11. ASSUME NEW d \in Delays
         PROVE  Reads(<<Word("TERM"), After(d, "kill")>>, <<Do(0, "TERM"), Do(d, "KILL")>>)
    BY <1>1, <1>3, <1>7, <1>8
  <1>12. ASSUME NEW d \in Delays, NEW e \in Delays
         PROVE  Reads(<<After(d, "INT"), After(e, "TERM"), Word("KILL")>>,
                      <<Do(d, "INT"), Do(e, "TERM"), Do(30, "KILL")>>)
    <2>1. IsStep(After(d, "INT")) /\ IsStep(After(e, "TERM")) /\ IsStep(Word("KILL"))
      BY <1>1
    <2>2. Reads(<<After(d, "INT"), After(e, "TERM"), Word("KILL")>>,
                <<ParsedStep(After(d, "INT"), 1), ParsedStep(After(e, "TERM"), 2),
                  ParsedStep(Word("KILL"), 3)>>)
      BY <1>4, <2>1
    <2> QED
      BY <1>7, <1>8, <2>2
  <1>13. ASSUME NEW text \in {<<Word("off")>>, <<Word("")>>, <<Word("TERM"), Word("STOP")>>,
                              <<Word("TERM"), Word("off")>>, <<Word("?"), Word("KILL")>>}
         PROVE  Reads(text, <<>>)
    BY <1>1, <1>5, <1>6
  <1>14. \A text, steps : Example(text, steps).text = text /\ Example(text, steps).steps = steps
    BY DEF Example
  <1>15. ASSUME NEW example \in Examples PROVE Reads(example.text, example.steps)
    <2>1. CASE example \in PlainExamples
      BY <2>1, <1>9, <1>10, <1>14 DEF PlainExamples
    <2>2. CASE example \in DelayedExamples
      <3>1. PICK d \in Delays : example = Example(<<Word("TERM"), After(d, "kill")>>,
                                                  <<Do(0, "TERM"), Do(d, "KILL")>>)
        BY <2>2 DEF DelayedExamples
      <3> QED
        BY <3>1, <1>11, <1>14
    <2>3. CASE example \in ChainedExamples
      <3>1. PICK d \in Delays, e \in Delays :
              example = Example(<<After(d, "INT"), After(e, "TERM"), Word("KILL")>>,
                                <<Do(d, "INT"), Do(e, "TERM"), Do(30, "KILL")>>)
        BY <2>3 DEF ChainedExamples
      <3> QED
        BY <3>1, <1>12, <1>14
    <2>4. CASE example \in EmptyExamples
      <3>1. PICK text \in {<<Word("off")>>, <<Word("")>>, <<Word("TERM"), Word("STOP")>>,
                           <<Word("TERM"), Word("off")>>, <<Word("?"), Word("KILL")>>} :
              example = Example(text, <<>>)
        BY <2>4 DEF EmptyExamples
      <3> QED
        BY <3>1, <1>13, <1>14
    <2> QED
      BY <2>1, <2>2, <2>3, <2>4 DEF Examples
  <1> QED
    BY <1>15, ReadmeAssumption DEF Reads

(* A session obeys the steps of its own marker or setting, whole and in       *)
(* order, as README.md gives them, and never a field that launch.json brought *)
(* along.                                                                     *)
THEOREM SessionsObeyTheirMarker == Spec => []SessionObeysItsMarker
  <1>1. IInv => SessionObeysItsMarker
    <2> SUFFICES ASSUME IInv, session # None, ~touched
                 PROVE  LET steps == IF session.field = None THEN <<>> ELSE session.field.steps
                        IN IF NoEnv \/ Effective = None THEN steps = <<>>
                           ELSE \A example \in Examples :
                                    example.text = Effective => steps = example.steps
      BY DEF SessionObeysItsMarker, NoEnv, Effective, Marker!EffectiveMarkerValue
    <2>1. session.field = Built
      BY SessionField DEF IInv
    <2>2. Steps \in Seq(Step) /\ given.account \in Accounts \cup {None}
      BY EffectiveText DEF IInv, GivenOK
    <2>3. [steps |-> Steps, accountId |-> given.account] # None
      <3>1. [steps |-> Steps, accountId |-> given.account] \in Fields
        BY <2>2 DEF Fields
      <3> QED
        BY <3>1, FieldsAreSomething
    <2>4. (IF Built = None THEN <<>> ELSE Built.steps) = IF NoEnv THEN <<>> ELSE Steps
      BY <2>3 DEF Built, Marker!Build
    <2>5. Effective = None => Steps = <<>>
      BY EffectiveText DEF IInv
    <2>6. \A example \in Examples : example.text = Effective => Steps = example.steps
      BY ParserReadsReadmeExamples DEF Steps
    <2> QED
      BY <2>1, <2>4, <2>5, <2>6
  <1> QED
    BY <1>1, Invariance, PTL

(* A sequence with a step that another extension has broken is obeyed not at  *)
(* all; the account stays.                                                    *)
THEOREM SequencesAreWholeOrNone == Spec => []WholeSequenceOrNone
  <1>1. IInv => WholeSequenceOrNone
    BY SessionField DEF IInv, WholeSequenceOrNone, Marker!Build
  <1> QED
    BY <1>1, Invariance, PTL

(* op run reads the env file under the account the launch was resolved under, *)
(* whatever became of its stop signals.                                       *)
THEOREM AccountAlwaysReachesOpRun == Spec => []AccountReachesOpRun
  <1>1. IInv => AccountReachesOpRun
    <2> SUFFICES ASSUME IInv, request # None, request.wrapped
                 PROVE  request.account = IF NoEnv THEN None ELSE given.account
      BY DEF AccountReachesOpRun, NoEnv
    <2>1. request.account = AccountId /\ session # None
      BY DEF IInv, RequestOK
    <2>2. session.field = IF touched THEN Marker!Build(<<>>, given.account) ELSE Built
      BY <2>1, SessionField DEF IInv
    <2>3. Steps \in Seq(Step) /\ given.account \in Accounts \cup {None}
      BY EffectiveText DEF IInv, GivenOK
    <2>4. /\ [steps |-> Steps, accountId |-> given.account] # None
          /\ [steps |-> <<>>, accountId |-> given.account] # None
      <3>1. <<>> \in Seq(Step)
        OBVIOUS
      <3>2. /\ [steps |-> Steps, accountId |-> given.account] \in Fields
            /\ [steps |-> <<>>, accountId |-> given.account] \in Fields
        BY <2>3, <3>1 DEF Fields
      <3> QED
        BY <3>2, FieldsAreSomething
    <2>5. touched => ~NoEnv
      BY <2>1 DEF IInv, ConfigOK, SessionOK
    <2> QED
      BY <2>1, <2>2, <2>4, <2>5 DEF AccountId, Built, Marker!Build
  <1> QED
    BY <1>1, Invariance, PTL

(* No value of the vault leaves a request without the user being warned,      *)
(* whatever envs, values, requests and failing file operations.               *)
THEOREM NoSecretLeavesSilently == Spec => []SecretsLeaveOnlyWithAWarning
  BY Invariance, PTL DEF IInv

-----------------------------------------------------------------------------
(* A record and the entries that list it. *)

LEMMA SetAsText ==
    ASSUME NEW S, IsFiniteSet(S)
    PROVE  /\ SetToSeq(S) \in Text(S) /\ Range(SetToSeq(S)) = S
           /\ DOMAIN SetToSeq(S) = 1..Len(SetToSeq(S)) /\ Len(SetToSeq(S)) \in Nat
           /\ \A i, j \in DOMAIN SetToSeq(S) : SetToSeq(S)[i] = SetToSeq(S)[j] => i = j
  <1>1. PICK n \in Nat : n = Cardinality(S) /\ ExistsBijection(1..n, S)
    BY FS_CardinalityType
  <1>2. \E f \in [1..n -> S] : IsInjective(f)
    BY <1>1 DEF ExistsBijection, Bijection, Injection
  <1>3. PICK keys : keys = SetToSeq(S) /\ keys \in [1..n -> S] /\ IsInjective(keys)
    <2>1. SetToSeq(S) = CHOOSE f \in [1..n -> S] : IsInjective(f)
      BY <1>1 DEF SetToSeq
    <2>2. SetToSeq(S) \in [1..n -> S] /\ IsInjective(SetToSeq(S))
      BY <1>2, <2>1
    <2> QED
      BY <2>2
  <1>4. keys \in Seq(S) /\ Len(keys) = n /\ DOMAIN keys = 1..n
    BY <1>3
  <1>5. \A i, j \in DOMAIN keys : keys[i] = keys[j] => i = j
    BY <1>3 DEF IsInjective
  <1>6. Range(keys) = S
    <2>1. keys \in Injection(1..n, S)
      BY <1>3 DEF Injection
    <2>2. IsFiniteSet(1..n) /\ Cardinality(1..n) = n
      BY FS_Interval
    <2>3. keys \in Surjection(1..n, S)
      BY <1>1, <2>1, <2>2, FS_Injection
    <2>4. \A s \in S : \E i \in 1..n : keys[i] = s
      BY <2>3 DEF Surjection
    <2> QED
      BY <1>3, <1>4, <2>4 DEF Range
  <1> QED
    BY <1>3, <1>4, <1>5, <1>6 DEF Text

IsEnv(env) == env = [k \in DOMAIN env |-> env[k]] /\ IsFiniteSet(DOMAIN env)

LEMMA EntriesIndex ==
    ASSUME NEW env, IsEnv(env)
    PROVE  /\ DOMAIN Entries(env) = 1..Len(Entries(env)) /\ Len(Entries(env)) \in Nat
           /\ \A i \in DOMAIN Entries(env) :
                 /\ Entries(env)[i] = <<Entries(env)[i][1], env[Entries(env)[i][1]]>>
                 /\ Entries(env)[i][1] \in DOMAIN env
           /\ \A k \in DOMAIN env : \E i \in DOMAIN Entries(env) : Entries(env)[i][1] = k
           /\ \A i, j \in DOMAIN Entries(env) : Entries(env)[i][1] = Entries(env)[j][1] => i = j
  <1>1. PICK keys : /\ keys = SetToSeq(DOMAIN env) /\ keys \in Text(DOMAIN env)
                    /\ Range(keys) = DOMAIN env
                    /\ DOMAIN keys = 1..Len(keys) /\ Len(keys) \in Nat
                    /\ \A i, j \in DOMAIN keys : keys[i] = keys[j] => i = j
    BY SetAsText DEF IsEnv
  <1>2. PICK es : es = Entries(env) /\ es = [i \in 1..Len(keys) |-> <<keys[i], env[keys[i]]>>]
    BY <1>1 DEF Entries
  <1>3. DOMAIN es = 1..Len(keys) /\ Len(es) = Len(keys)
    BY <1>1, <1>2
  <1>4. \A i \in DOMAIN es : es[i] = <<keys[i], env[keys[i]]>> /\ es[i][1] = keys[i]
    BY <1>2, <1>3
  <1>5. \A i \in DOMAIN es : keys[i] \in DOMAIN env
    BY <1>1, <1>3 DEF Range
  <1>6. \A k \in DOMAIN env : \E i \in DOMAIN es : keys[i] = k
    BY <1>1, <1>3 DEF Range
  <1> QED
    BY <1>1, <1>2, <1>3, <1>4, <1>5, <1>6

LastOf(entries, k) == SelectLastInSeq(entries, LAMBDA e : e[1] = k)

LEMMA LastOfItsKey ==
    ASSUME NEW env, IsEnv(env), NEW i \in DOMAIN Entries(env), NEW k, k = Entries(env)[i][1]
    PROVE  LastOf(Entries(env), k) = i
  <1>1. PICK es : es = Entries(env)
    OBVIOUS
  <1>2. /\ DOMAIN es = 1..Len(es) /\ Len(es) \in Nat
        /\ \A j \in DOMAIN es : es[j][1] = es[i][1] => j = i
    BY <1>1, EntriesIndex
  <1>3. PICK I : I = {j \in 1..Len(es) : es[j][1] = k}
    OBVIOUS
  <1>4. I = {i}
    BY <1>1, <1>2, <1>3
  <1>5. i \in Nat /\ I \subseteq Nat /\ i \in I /\ \A j \in I : j <= i
    BY <1>1, <1>2, <1>4
  <1>6. Max(I) = i
    BY <1>5, GreatestOf
  <1>7. LastOf(es, k) = IF I # {} THEN Max(I) ELSE 0
    BY <1>3 DEF LastOf, SelectLastInSeq
  <1> QED
    BY <1>1, <1>4, <1>6, <1>7

(* A record is filled again from its own entries. *)
LEMMA RecordOfEntries ==
    ASSUME NEW env, IsEnv(env)
    PROVE  RecordOf(Entries(env)) = env
  <1>1. PICK es : es = Entries(env)
    OBVIOUS
  <1>2. {es[i][1] : i \in DOMAIN es} = DOMAIN env
    <2>1. \A i \in DOMAIN es : es[i][1] \in DOMAIN env
      BY <1>1, EntriesIndex
    <2>2. \A k \in DOMAIN env : \E i \in DOMAIN es : es[i][1] = k
      BY <1>1, EntriesIndex
    <2> QED
      BY <2>1, <2>2
  <1>3. RecordOf(es) = [k \in DOMAIN env |-> es[LastOf(es, k)][2]]
    BY <1>2 DEF RecordOf, LastOf
  <1>4. ASSUME NEW k \in DOMAIN env
        PROVE  es[LastOf(es, k)][2] = env[k]
    <2>1. PICK i \in DOMAIN es : es[i][1] = k
      BY <1>1, EntriesIndex
    <2>2. LastOf(es, k) = i
      BY <1>1, <2>1, LastOfItsKey
    <2>3. es[i] = <<es[i][1], env[es[i][1]]>>
      BY <1>1, EntriesIndex
    <2>4. es[i][2] = env[k]
      BY <2>1, <2>3
    <2> QED
      BY <2>2, <2>4
  <1> QED
    BY <1>1, <1>3, <1>4 DEF IsEnv

LEMMA EntriesType ==
    ASSUME NEW env, IsEnv(env), NEW E, \A k \in DOMAIN env : <<k, env[k]>> \in E
    PROVE  Entries(env) \in Text(E)
  <1>1. PICK es, n : es = Entries(env) /\ n = Len(es)
    OBVIOUS
  <1>2. DOMAIN es = 1..n /\ n \in Nat
    BY <1>1, EntriesIndex
  <1>3. \A i \in 1..n : es[i] \in E
    BY <1>1, <1>2, EntriesIndex
  <1>4. es = [i \in 1..n |-> es[i]]
    <2>1. es = [i \in DOMAIN SetToSeq(DOMAIN env) |->
                   <<SetToSeq(DOMAIN env)[i], env[SetToSeq(DOMAIN env)[i]]>>]
      BY <1>1 DEF Entries
    <2> QED
      BY <1>2, <2>1
  <1> QED
    BY <1>1, <1>2, <1>3, <1>4 DEF Text

-----------------------------------------------------------------------------
(* A user's file line by line. *)

LEMMA PlainLine ==
    ASSUME NEW C, NEW k \in Text(C), NEW o \in Text(C), NEW v \in Text(C), NEW n \in Text(C)
    PROVE  ((k ++ o) ++ v) ++ n = (k ++ (o ++ v)) ++ n
  BY CatAssoc

LEMMA ExportedLine ==
    ASSUME NEW C, NEW x \in Text(C), NEW b \in Text(C), NEW k \in Text(C), NEW o \in Text(C),
           NEW v \in Text(C), NEW n \in Text(C)
    PROVE  ((((x ++ b) ++ k) ++ (b ++ o)) ++ v) ++ n = (x ++ (b ++ ((k ++ b) ++ (o ++ v)))) ++ n
  <1>1. PICK kb, ov, bo : /\ kb = k ++ b /\ ov = o ++ v /\ bo = b ++ o
                          /\ kb \in Text(C) /\ ov \in Text(C) /\ bo \in Text(C)
    BY CatType
  <1>2. PICK xb, xbk : xb = x ++ b /\ xb \in Text(C) /\ xbk = xb ++ k /\ xbk \in Text(C)
    BY CatType
  <1>3. (xbk ++ bo) ++ v = xbk ++ (bo ++ v)
    BY <1>1, <1>2, CatAssoc
  <1>4. bo ++ v = b ++ ov
    BY <1>1, CatAssoc
  <1>5. xbk ++ (b ++ ov) = (xbk ++ b) ++ ov
    BY <1>1, <1>2, CatAssoc
  <1>6. xbk ++ b = xb ++ kb
    BY <1>1, <1>2, CatAssoc
  <1>7. (xb ++ kb) ++ ov = xb ++ (kb ++ ov)
    BY <1>1, <1>2, CatAssoc
  <1>8. PICK kbov : kbov = kb ++ ov /\ kbov \in Text(C)
    BY <1>1, CatType
  <1>9. xb ++ kbov = x ++ (b ++ kbov)
    BY <1>2, <1>8, CatAssoc
  <1>10. (xbk ++ bo) ++ v = x ++ (b ++ kbov)
    BY <1>3, <1>4, <1>5, <1>6, <1>7, <1>8, <1>9
  <1> QED
    BY <1>1, <1>2, <1>8, <1>10

LEMMA QuotedLine ==
    ASSUME NEW C, NEW b \in Text(C), NEW k \in Text(C), NEW o \in Text(C), NEW q \in Text(C),
           NEW v \in Text(C), NEW n \in Text(C)
    PROVE  (((b ++ k) ++ (o ++ q)) ++ v) ++ (q ++ n) = (b ++ (k ++ (o ++ (q ++ (v ++ q))))) ++ n
  <1>1. PICK bk, oq, vq : /\ bk = b ++ k /\ oq = o ++ q /\ vq = v ++ q
                          /\ bk \in Text(C) /\ oq \in Text(C) /\ vq \in Text(C)
    BY CatType
  <1>2. PICK bkoq : bkoq = bk ++ oq /\ bkoq \in Text(C)
    BY <1>1, CatType
  <1>3. PICK bkoqv : bkoqv = bkoq ++ v /\ bkoqv \in Text(C)
    BY <1>2, CatType
  <1>4. bkoqv ++ (q ++ n) = (bkoqv ++ q) ++ n
    BY <1>3, CatAssoc
  <1>5. bkoqv ++ q = bkoq ++ vq
    BY <1>1, <1>2, <1>3, CatAssoc
  <1>6. bkoq ++ vq = bk ++ (oq ++ vq)
    BY <1>1, <1>2, CatAssoc
  <1>7. PICK qvq : qvq = q ++ vq /\ qvq \in Text(C) /\ oq ++ vq = o ++ qvq
    BY <1>1, CatType, CatAssoc
  <1>8. PICK rest : rest = o ++ qvq /\ rest \in Text(C) /\ bk ++ rest = b ++ (k ++ rest)
    BY <1>1, <1>7, CatType, CatAssoc
  <1>9. bkoqv ++ (q ++ n) = (b ++ (k ++ rest)) ++ n
    BY <1>4, <1>5, <1>6, <1>7, <1>8
  <1> QED
    BY <1>1, <1>2, <1>3, <1>7, <1>8, <1>9

(* The line that TextOf writes for an entry. *)
FileLine(style, e) ==
    CASE style = "plain" -> e[1] \o <<"=">> \o e[2] \o <<"\n">>
      [] style = "exported" -> <<"export", Blank>> \o e[1] \o <<Blank, "=">> \o e[2] \o <<"\r", "\n">>
      [] style = "quoted" -> <<Blank>> \o e[1] \o <<"=", "'">> \o e[2] \o <<"'", "\n">>

LEMMA FileLineIsStyled ==
    ASSUME NEW C, FormatCharacters \subseteq C, NEW style \in {"plain", "exported", "quoted"},
           NEW e \in FileEntries(C, style)
    PROVE  FileLine(style, e) = StyledLine(style, e) ++ Ending(style)
  <1>1. PICK k, v : k = e[1] /\ v = e[2] /\ k \in Text(C) /\ v \in Text(C)
    BY FileEntryParts
  <1>2. /\ "=" \in C /\ "'" \in C /\ "\n" \in C /\ "\r" \in C /\ "export" \in C /\ Blank \in C
    BY DEF FormatCharacters, Spaces
  <1>3. PICK o, q, n, r, x, b :
           /\ o = One("=") /\ q = One("'") /\ n = One("\n") /\ r = One("\r") /\ x = One("export")
           /\ b = One(Blank)
           /\ o \in Text(C) /\ q \in Text(C) /\ n \in Text(C) /\ r \in Text(C) /\ x \in Text(C)
           /\ b \in Text(C)
    BY <1>2, OneType
  <1>4. CASE style = "plain"
    <2>1. FileLine(style, e) = ((k ++ o) ++ v) ++ n
      BY <1>1, <1>3, <1>4 DEF FileLine, ++, One
    <2>2. StyledLine(style, e) ++ Ending(style) = (k ++ (o ++ v)) ++ n
      BY <1>1, <1>3, <1>4 DEF StyledLine, Ending
    <2> QED
      BY <1>1, <1>3, <2>1, <2>2, PlainLine
  <1>5. CASE style = "exported"
    <2>1. FileLine(style, e) =
              (((<<"export", Blank>> ++ k) ++ <<Blank, "=">>) ++ v) ++ <<"\r", "\n">>
      BY <1>1, <1>5 DEF FileLine, ++
    <2>2. <<"export", Blank>> = x ++ b /\ <<Blank, "=">> = b ++ o /\ <<"\r", "\n">> = r ++ n
      BY <1>2, <1>3, PairIsCat
    <2>3. r ++ n \in Text(C)
      BY <1>3, CatType
    <2>4. StyledLine(style, e) ++ Ending(style) = (x ++ (b ++ ((k ++ b) ++ (o ++ v)))) ++ (r ++ n)
      BY <1>1, <1>3, <1>5 DEF StyledLine, Ending
    <2>5. ((((x ++ b) ++ k) ++ (b ++ o)) ++ v) ++ (r ++ n) =
              (x ++ (b ++ ((k ++ b) ++ (o ++ v)))) ++ (r ++ n)
      <3>1. /\ x \in Text(C) /\ b \in Text(C) /\ k \in Text(C) /\ o \in Text(C) /\ v \in Text(C)
            /\ r ++ n \in Text(C)
        BY <1>1, <1>3, <2>3
      <3> QED
        BY <3>1, ExportedLine
    <2> QED
      BY <2>1, <2>2, <2>4, <2>5
  <1>6. CASE style = "quoted"
    <2>1. FileLine(style, e) =
              (((<<Blank>> ++ k) ++ <<"=", "'">>) ++ v) ++ <<"'", "\n">>
      BY <1>1, <1>6 DEF FileLine, ++
    <2>2. <<Blank>> = b /\ <<"=", "'">> = o ++ q /\ <<"'", "\n">> = q ++ n
      BY <1>2, <1>3, PairIsCat DEF One
    <2>3. StyledLine(style, e) ++ Ending(style) = (b ++ (k ++ (o ++ (q ++ (v ++ q))))) ++ n
      BY <1>1, <1>3, <1>6 DEF StyledLine, Ending
    <2>4. (((b ++ k) ++ (o ++ q)) ++ v) ++ (q ++ n) = (b ++ (k ++ (o ++ (q ++ (v ++ q))))) ++ n
      <3>1. /\ b \in Text(C) /\ k \in Text(C) /\ o \in Text(C) /\ q \in Text(C) /\ v \in Text(C)
            /\ n \in Text(C)
        BY <1>1, <1>3
      <3> QED
        BY <3>1, QuotedLine
    <2> QED
      BY <2>1, <2>2, <2>3, <2>4
  <1> QED
    BY <1>4, <1>5, <1>6

LEMMA TextOfByLine ==
    ASSUME NEW C, FormatCharacters \subseteq C, NEW style \in {"plain", "exported", "quoted"},
           NEW env, Entries(env) \in Text(FileEntries(C, style))
    PROVE  TextOf(env, style) = Preamble(style) ++ FlatMap(StyleWriter(C, style), Entries(env))
  <1>1. PICK es : es = Entries(env) /\ es \in Text(FileEntries(C, style))
    OBVIOUS
  <1>2. \A i \in DOMAIN es : es[i] \in FileEntries(C, style)
    BY <1>1, LenProperties, ElementOfSeq DEF Text
  <1>3. ASSUME NEW i \in DOMAIN es
        PROVE  FileLine(style, es[i]) = StyleWriter(C, style)[es[i]]
    BY <1>2, FileLineIsStyled DEF StyleWriter
  <1>4. [i \in DOMAIN es |-> FileLine(style, es[i])] = Mapped(StyleWriter(C, style), es)
    BY <1>3 DEF Mapped
  <1>5. TextOf(env, style) =
            (IF style = "exported" THEN <<Bom>> ELSE <<"\n", "#", "A", "=", "x", "\n">>)
                \o FlattenSeq([i \in DOMAIN es |-> FileLine(style, es[i])])
    BY <1>1 DEF TextOf, FileLine
  <1> QED
    BY <1>1, <1>4, <1>5 DEF Preamble, FlatMap, ++, One

(* Each variable of the record can be declared in a file of that style. *)
Declares(env, C, style) ==
    IsEnv(env) /\ \A k \in DOMAIN env : <<k, env[k]>> \in FileEntries(C, style)

(* resolveLaunchConfig.ts:199-216: what a file is meant to declare is what     *)
(* FileEnv holds of it.                                                        *)
LEMMA FileIsRead ==
    ASSUME NEW C, FormatCharacters \subseteq C, NEW style \in {"plain", "exported", "quoted"},
           NEW env, Declares(env, C, style)
    PROVE  RecordOf(Parse(TextOf(env, style))) = env
  <1>1. PICK es : es = Entries(env) /\ es \in Text(FileEntries(C, style))
    BY EntriesType DEF Declares
  <1>2. TextOf(env, style) = Preamble(style) ++ FlatMap(StyleWriter(C, style), es)
    BY <1>1, TextOfByLine
  <1>3. Parse(TextOf(env, style)) = es
    BY <1>1, <1>2, ParseReadsWhatAFileDeclares
  <1> QED
    BY <1>1, <1>3, RecordOfEntries DEF Declares

(* Each variable of the record can be handed over in an env file. *)
Writable(env, C) == IsEnv(env) /\ \A k \in DOMAIN env : <<k, env[k]>> \in EnvEntries(C)

LEMMA WrittenFileIsRead ==
    ASSUME NEW C, FormatCharacters \subseteq C, NEW env, Writable(env, C)
    PROVE  RecordOf(OpReads(Format(Entries(env)))) = env
  <1>1. Entries(env) \in Text(EnvEntries(C))
    BY EntriesType DEF Writable
  <1>2. OpReads(Format(Entries(env))) = Entries(env)
    BY <1>1, OpReadsWhatFormatWrites
  <1> QED
    BY <1>2, RecordOfEntries DEF Writable

-----------------------------------------------------------------------------
(* What resolve makes of the two sources. *)

LEMMA OnKeysParts ==
    ASSUME NEW Value, NEW env, OnKeys(env, Value)
    PROVE  /\ IsEnv(env) /\ DOMAIN env \subseteq Keys
           /\ \A k \in DOMAIN env : env[k] \in Value
  <1>1. PICK names \in SUBSET Keys : env \in [names -> Value]
    BY DEF OnKeys
  <1>2. DOMAIN env = names /\ env = [k \in names |-> env[k]] /\ \A k \in names : env[k] \in Value
    BY <1>1
  <1>3. IsFiniteSet(names)
    BY EnvAssumption, FS_Subset
  <1> QED
    BY <1>1, <1>2, <1>3 DEF IsEnv

LEMMA OnKeysIf ==
    ASSUME NEW Value, NEW env, env = [k \in DOMAIN env |-> env[k]], DOMAIN env \subseteq Keys,
           \A k \in DOMAIN env : env[k] \in Value
    PROVE  OnKeys(env, Value)
  <1>1. env \in [DOMAIN env -> Value]
    OBVIOUS
  <1> QED
    BY <1>1 DEF OnKeys

LEMMA DefinedType ==
    ASSUME NEW Value, NEW env, OnKeys(env, Value \cup {None})
    PROVE  OnKeys(Defined(env), Value)
  <1>1. DOMAIN env \subseteq Keys /\ \A k \in DOMAIN env : env[k] \in Value \cup {None}
    BY OnKeysParts
  <1>2. PICK d : d = Defined(env)
    OBVIOUS
  <1>3. d = [k \in {j \in DOMAIN env : env[j] # None} |-> env[k]]
    BY <1>2 DEF Defined
  <1>4. DOMAIN d = {j \in DOMAIN env : env[j] # None} /\ \A k \in DOMAIN d : d[k] = env[k]
    BY <1>3
  <1>5. d = [k \in DOMAIN d |-> d[k]]
    BY <1>3, <1>4
  <1>6. DOMAIN d \subseteq Keys /\ \A k \in DOMAIN d : d[k] \in Value
    BY <1>1, <1>4
  <1> QED
    BY <1>2, <1>5, <1>6, OnKeysIf

LEMMA AddAllType ==
    ASSUME NEW Value, NEW env, OnKeys(env, Value), NEW other, OnKeys(other, Value)
    PROVE  OnKeys(AddAll(env, other), Value)
  <1>1. /\ DOMAIN env \subseteq Keys /\ \A k \in DOMAIN env : env[k] \in Value
        /\ DOMAIN other \subseteq Keys /\ \A k \in DOMAIN other : other[k] \in Value
    BY OnKeysParts
  <1>2. PICK all : all = AddAll(env, other)
    OBVIOUS
  <1>3. /\ DOMAIN all = DOMAIN env \cup DOMAIN other
        /\ \A k \in DOMAIN all : all[k] = IF k \in DOMAIN other THEN other[k] ELSE env[k]
        /\ all = [k \in DOMAIN all |-> all[k]]
    BY <1>2 DEF AddAll
  <1>4. DOMAIN all \subseteq Keys /\ \A k \in DOMAIN all : all[k] \in Value
    BY <1>1, <1>3
  <1> QED
    BY <1>2, <1>3, <1>4, OnKeysIf

LEMMA MoreValues ==
    ASSUME NEW Value, NEW More, Value \subseteq More, NEW env, OnKeys(env, Value)
    PROVE  OnKeys(env, More)
  <1>1. PICK names \in SUBSET Keys : env \in [names -> Value]
    BY DEF OnKeys
  <1>2. env \in [names -> More]
    BY <1>1
  <1> QED
    BY <1>1, <1>2 DEF OnKeys

LEMMA NothingOnKeys ==
    ASSUME NEW Value
    PROVE  OnKeys(<<>>, Value) /\ DOMAIN <<>> = {}
  <1>1. <<>> \in [{} -> Value]
    OBVIOUS
  <1> QED
    BY <1>1 DEF OnKeys

-----------------------------------------------------------------------------

(* An env with its references replaced by the values they name. *)
InPlace(env, vault) == [k \in DOMAIN env |-> IF IsOpRef(env[k]) THEN vault[env[k][1]] ELSE env[k]]

RefsOf(env) == {env[k][1] : k \in {j \in DOMAIN env : IsOpRef(env[j])}}

LEMMA RefsAreFinite ==
    ASSUME NEW env, IsEnv(env)
    PROVE  IsFiniteSet(RefsOf(env)) /\ RefsOf(env) \subseteq Refs
  <1>1. PICK S : S = {j \in DOMAIN env : IsOpRef(env[j])}
    OBVIOUS
  <1>2. IsFiniteSet(S)
    BY <1>1, FS_Subset DEF IsEnv
  <1>3. PICK f : f = [k \in S |-> env[k][1]]
    OBVIOUS
  <1>4. f \in Surjection(S, RefsOf(env))
    BY <1>1, <1>3 DEF Surjection, RefsOf
  <1>5. IsFiniteSet(RefsOf(env))
    BY <1>2, <1>4, FS_Surjection
  <1> QED
    BY <1>5 DEF RefsOf, IsOpRef

(* resolveLaunchConfig.ts:275-299: every reference gives way to its value, and *)
(* nothing else changes.                                                       *)
LEMMA ResolvedIsInPlace ==
    ASSUME NEW env, IsEnv(env), given.vault \in Vaults
    PROVE  Resolved(env) = InPlace(env, given.vault)
  <1>1. PICK refs : /\ refs = SetToSeq(RefsOf(env)) /\ refs \in Text(RefsOf(env))
                    /\ Range(refs) = RefsOf(env)
    BY RefsAreFinite, SetAsText
  <1>2. refs \in Text(Refs)
    BY <1>1, RefsAreFinite, TextOfMore
  <1>3. Knows(given.vault, Refs, Char)
    <2>1. "\n" \in Char
      BY EnvAssumption DEF FormatCharacters, Spaces
    <2>2. \A r \in Refs : given.vault[r] \in Text(Char)
      BY EnvAssumption DEF Text
    <2> QED
      BY <2>1, <2>2 DEF Knows
  <1>4. PICK values : /\ values = ParseOutput(Rendered(BuildTemplate(refs), given.vault), refs)
                      /\ values = [r \in RefsOf(env) |-> given.vault[r]]
    BY <1>1, <1>2, <1>3, TemplateReturnsTheValues
  <1>5. Resolved(env) = [k \in DOMAIN env |-> IF IsOpRef(env[k]) THEN values[env[k][1]] ELSE env[k]]
    BY <1>1, <1>4 DEF Resolved, RefsOf
  <1>6. \A k \in DOMAIN env : IsOpRef(env[k]) => values[env[k][1]] = given.vault[env[k][1]]
    BY <1>4 DEF RefsOf
  <1> QED
    BY <1>5, <1>6 DEF InPlace

LEMMA InPlaceType ==
    ASSUME NEW env, OnKeys(env, Seq(Char)), NEW vault \in Vaults
    PROVE  OnKeys(InPlace(env, vault), Seq(Char))
  <1>1. DOMAIN env \subseteq Keys /\ \A k \in DOMAIN env : env[k] \in Seq(Char)
    BY OnKeysParts
  <1>2. PICK e : e = InPlace(env, vault)
    OBVIOUS
  <1>3. /\ DOMAIN e = DOMAIN env /\ e = [k \in DOMAIN e |-> e[k]]
        /\ \A k \in DOMAIN e : e[k] = IF IsOpRef(env[k]) THEN vault[env[k][1]] ELSE env[k]
    BY <1>2 DEF InPlace
  <1>4. \A k \in DOMAIN e : e[k] \in Seq(Char)
    BY <1>1, <1>3, EnvAssumption DEF IsOpRef
  <1> QED
    BY <1>1, <1>2, <1>3, <1>4, OnKeysIf

LEMMA FileDeclares ==
    ASSUME NEW file \in FileEnvs, file # None, NEW style \in Styles
    PROVE  OnKeys(file, Seq(Char)) /\ Declares(file, Char, style)
  <1>1. OnKeys(file, Seq(Char)) /\ \A k \in DOMAIN file : Declarable(k, file[k], style)
    BY EnvAssumption
  <1>2. IsEnv(file) /\ DOMAIN file \subseteq Keys /\ \A k \in DOMAIN file : file[k] \in Seq(Char)
    BY <1>1, OnKeysParts
  <1>3. ASSUME NEW k \in DOMAIN file
        PROVE  <<k, file[k]>> \in FileEntries(Char, style)
    <2>1. k \in Text(Char) /\ file[k] \in Text(Char)
      BY <1>2, EnvAssumption DEF Text
    <2>2. VALID_KEY(k) /\ Range(file[k]) \cap {"\r", "\n"} = {}
          /\ (style # "quoted" => StripValueQuotes(file[k]) = file[k])
      BY <1>1 DEF Declarable
    <2>3. k \in ValidKeys(Char)
      BY <2>1, <2>2 DEF ValidKeys
    <2>4. file[k] \in Text(Inline(Char))
      BY <2>1, <2>2, RangeOfText DEF Inline
    <2>5. PICK v : v = file[k]
      OBVIOUS
    <2> QED
      BY <2>2, <2>3, <2>4, <2>5 DEF FileEntries
  <1> QED
    BY <1>1, <1>2, <1>3 DEF Declares

-----------------------------------------------------------------------------
(* The invariant: the env that resolve returns is the one that is meant, the  *)
(* tracker keeps it, and a wrapped request leaves the adapter's version of it *)
(* in the file and nothing in the request.                                    *)
Sources ==
    /\ given.file \in FileEnvs /\ given.style \in Styles /\ given.env \in LaunchEnvs
    /\ given.vault \in Vaults

ResolvedEnv ==
    config # None => "env" \in DOMAIN config /\ config.env = IF NoEnv THEN None ELSE Meant

SessionEnv ==
    session # None =>
        /\ config # None
        /\ session.launchEnv = IF NoEnv THEN <<>> ELSE Meant

HandedOver ==
    request # None =>
        /\ session # None
        /\ OnKeys(asked, Seq(Char) \cup {None})
        /\ request.wrapped =>
              /\ request.env = <<>>
              /\ disk = Format(Entries(BuildEnvFileEntries(asked)))
              /\ Formattable(DOMAIN BuildEnvFileEntries(asked))

Started ==
    program # None =>
        /\ request # None
        /\ request.wrapped =>
              program.env = AddAll(Defined(AddAll(program.own, <<>>)), BuildEnvFileEntries(asked))

EnvInv == Sources /\ ResolvedEnv /\ SessionEnv /\ HandedOver /\ Started

-----------------------------------------------------------------------------

LEMMA LaunchEnvType ==
    ASSUME Sources
    PROVE  OnKeys(LaunchEnv, Seq(Char))
  <1>1. CASE given.env = None
    BY <1>1, NothingOnKeys DEF LaunchEnv
  <1>2. CASE given.env # None
    <2>1. OnKeys(given.env, Seq(Char) \cup {None})
      BY <1>2, EnvAssumption DEF Sources
    <2> QED
      BY <1>2, <2>1, DefinedType DEF LaunchEnv
  <1> QED
    BY <1>1, <1>2

(* What the envFile is meant to declare. *)
FileMeant == IF given.file = None THEN <<>> ELSE given.file

LEMMA FileEnvIsMeant ==
    ASSUME Sources
    PROVE  FileEnv = FileMeant /\ OnKeys(FileMeant, Seq(Char))
  <1>1. CASE given.file = None
    BY <1>1, NothingOnKeys DEF FileEnv, FileMeant
  <1>2. CASE given.file # None
    <2>1. OnKeys(given.file, Seq(Char)) /\ Declares(given.file, Char, given.style)
      BY <1>2, FileDeclares DEF Sources
    <2>2. FormatCharacters \subseteq Char /\ given.style \in {"plain", "exported", "quoted"}
      BY EnvAssumption DEF Sources
    <2>3. RecordOf(Parse(TextOf(given.file, given.style))) = given.file
      BY <2>1, <2>2, FileIsRead
    <2> QED
      BY <1>2, <2>1, <2>3 DEF FileEnv, FileMeant
  <1> QED
    BY <1>1, <1>2

LEMMA MeantIsInPlace == Meant = InPlace(AddAll(FileMeant, LaunchEnv), given.vault)
  BY DEF Meant, InPlace, FileMeant

(* What resolve returns is what is meant. *)
LEMMA ResolvedIsMeant ==
    ASSUME Sources
    PROVE  Resolved(AddAll(FileEnv, LaunchEnv)) = Meant /\ OnKeys(Meant, Seq(Char))
  <1>1. PICK env : env = AddAll(FileMeant, LaunchEnv) /\ OnKeys(env, Seq(Char))
    BY LaunchEnvType, FileEnvIsMeant, AddAllType
  <1>2. IsEnv(env)
    BY <1>1, OnKeysParts
  <1>3. Resolved(env) = InPlace(env, given.vault)
    BY <1>2, ResolvedIsInPlace DEF Sources
  <1>4. OnKeys(InPlace(env, given.vault), Seq(Char))
    BY <1>1, InPlaceType DEF Sources
  <1> QED
    BY <1>1, <1>3, <1>4, FileEnvIsMeant, MeantIsInPlace

LEMMA MeantIsThere ==
    ASSUME Sources
    PROVE  Meant # None
  <1>1. OnKeys(Meant, Seq(Char) \cup {None})
    <2>1. Seq(Char) \subseteq Seq(Char) \cup {None} /\ OnKeys(Meant, Seq(Char))
      BY ResolvedIsMeant
    <2> QED
      BY <2>1, MoreValues
  <1> QED
    BY <1>1, EnvAssumption

(* The env that the tracker holds. *)
LEMMA LaunchEnvOfSession ==
    ASSUME Sources, SessionEnv, session # None
    PROVE  OnKeys(session.launchEnv, Seq(Char))
  BY ResolvedIsMeant, NothingOnKeys DEF SessionEnv

LEMMA RequestEnvType ==
    ASSUME Sources, SessionEnv, session # None, NEW requestEnv \in RequestEnvs
    PROVE  OnKeys(requestEnv, Seq(Char) \cup {None})
  <1>1. DOMAIN session.launchEnv \subseteq Keys
        /\ \A k \in DOMAIN session.launchEnv : session.launchEnv[k] \in Seq(Char)
    BY LaunchEnvOfSession, OnKeysParts
  <1>2. PICK choice \in [Keys -> {"absent", "forwarded", "own", "null"}] :
           requestEnv = [k \in {j \in Keys : IF choice[j] = "forwarded" THEN j \in DOMAIN session.launchEnv
                                             ELSE choice[j] # "absent"} |->
                            CASE choice[k] = "own" -> Own
                              [] choice[k] = "null" -> None
                              [] OTHER -> session.launchEnv[k]]
    BY DEF RequestEnvs
  <1>3. DOMAIN requestEnv \subseteq Keys /\ requestEnv = [k \in DOMAIN requestEnv |-> requestEnv[k]]
    BY <1>2
  <1>4. ASSUME NEW k \in DOMAIN requestEnv
        PROVE  requestEnv[k] \in Seq(Char) \cup {None}
    <2>1. /\ requestEnv[k] = CASE choice[k] = "own" -> Own
                               [] choice[k] = "null" -> None
                               [] OTHER -> session.launchEnv[k]
          /\ k \in Keys
          /\ IF choice[k] = "forwarded" THEN k \in DOMAIN session.launchEnv ELSE choice[k] # "absent"
      BY <1>2
    <2>2. choice[k] \in {"absent", "forwarded", "own", "null"}
      BY <2>1
    <2> QED
      BY <1>1, <2>1, <2>2, EnvAssumption
  <1> QED
    BY <1>3, <1>4, OnKeysIf

LEMMA EntriesOfRequest ==
    ASSUME Sources, SessionEnv, session # None, NEW requestEnv,
           OnKeys(requestEnv, Seq(Char) \cup {None})
    PROVE  OnKeys(BuildEnvFileEntries(requestEnv), Seq(Char))
  <1>1. Seq(Char) \subseteq Seq(Char) \cup {None}
    OBVIOUS
  <1>2. OnKeys(session.launchEnv, Seq(Char) \cup {None})
    BY <1>1, LaunchEnvOfSession, MoreValues
  <1>3. OnKeys(AddAll(session.launchEnv, requestEnv), Seq(Char) \cup {None})
    BY <1>2, AddAllType
  <1> QED
    BY <1>3, DefinedType DEF BuildEnvFileEntries

LEMMA EntriesAreRead ==
    ASSUME NEW env, OnKeys(env, Seq(Char)), Formattable(DOMAIN env)
    PROVE  RecordOf(OpReads(Format(Entries(env)))) = env
  <1>1. IsEnv(env) /\ DOMAIN env \subseteq Keys /\ \A k \in DOMAIN env : env[k] \in Seq(Char)
    BY OnKeysParts
  <1>2. ASSUME NEW k \in DOMAIN env
        PROVE  <<k, env[k]>> \in EnvEntries(Char)
    <2>1. k \in Text(Char) /\ env[k] \in Text(Char) /\ VALID_KEY(k)
      BY <1>1, EnvAssumption DEF Text, Formattable
    <2> QED
      BY <2>1 DEF EnvEntries, ValidKeys
  <1>3. Writable(env, Char)
    BY <1>1, <1>2 DEF Writable
  <1> QED
    BY <1>3, EnvAssumption, WrittenFileIsRead

-----------------------------------------------------------------------------
LEMMA InitEnvInv == Init => EnvInv
  <1> SUFFICES ASSUME Init PROVE EnvInv
    OBVIOUS
  <1>1. Sources
    BY DEF Init, Sources
  <1>2. config = None /\ session = None /\ request = None /\ program = None
    BY DEF Init
  <1> QED
    BY <1>1, <1>2 DEF EnvInv, ResolvedEnv, SessionEnv, HandedOver, Started

LEMMA NextEnvInv == EnvInv /\ [Next]_vars => EnvInv'
  <1> SUFFICES ASSUME EnvInv, [Next]_vars PROVE EnvInv'
    OBVIOUS
  <1>1. Sources /\ ResolvedEnv /\ SessionEnv /\ HandedOver /\ Started
    BY DEF EnvInv
  <1>2. given' = given
    BY DEF Next, Resolve, OtherExtension, CreateDebugAdapterTracker, RunInTerminal,
       ProgramStarts, vars
  <1>3. Sources' /\ NoEnv' = NoEnv /\ Meant' = Meant
    BY <1>1, <1>2 DEF Sources, NoEnv, Meant, LaunchEnv
  <1>4. CASE Resolve
    <2>1. /\ config = None /\ UNCHANGED <<session, asked, request, disk, program>>
          /\ "env" \in DOMAIN config'
          /\ config'.env = IF NoEnv THEN None ELSE Resolved(AddAll(FileEnv, LaunchEnv))
      BY <1>4 DEF Resolve, NoEnv
    <2>2. config'.env = IF NoEnv THEN None ELSE Meant
      BY <1>1, <2>1, ResolvedIsMeant
    <2>3. session = None /\ request = None /\ program = None
      BY <1>1, <2>1 DEF SessionEnv, HandedOver, Started
    <2> QED
      BY <1>3, <2>1, <2>2, <2>3 DEF EnvInv, ResolvedEnv, SessionEnv, HandedOver, Started
  <1>5. CASE OtherExtension
    <2>1. /\ config # None /\ session = None /\ UNCHANGED <<session, asked, request, disk, program>>
          /\ config' = [config EXCEPT !.field = WithBrokenStep(@)]
      BY <1>5 DEF OtherExtension
    <2>2. "env" \in DOMAIN config' /\ config'.env = config.env
      BY <1>1, <2>1 DEF ResolvedEnv
    <2>3. session = None /\ request = None /\ program = None
      BY <1>1, <2>1 DEF SessionEnv, HandedOver, Started
    <2> QED
      BY <1>1, <1>3, <2>1, <2>2, <2>3 DEF EnvInv, ResolvedEnv, SessionEnv, HandedOver, Started
  <1>6. CASE CreateDebugAdapterTracker
    <2>1. /\ config # None /\ session = None /\ UNCHANGED <<config, asked, request, disk, program>>
          /\ session'.launchEnv = IF config.env = None THEN <<>> ELSE config.env
      BY <1>6 DEF CreateDebugAdapterTracker
    <2>2. session'.launchEnv = IF NoEnv THEN <<>> ELSE Meant
      BY <1>1, <2>1, MeantIsThere DEF ResolvedEnv
    <2>3. request = None /\ program = None
      BY <1>1, <2>1 DEF SessionEnv, HandedOver, Started
    <2> QED
      BY <1>1, <1>3, <2>1, <2>2, <2>3 DEF EnvInv, ResolvedEnv, SessionEnv, HandedOver, Started
  <1>7. ASSUME NEW requestEnv \in RequestEnvs, session # None, RunInTerminal(requestEnv)
        PROVE  EnvInv'
    <2>1. /\ session # None /\ asked = None /\ UNCHANGED <<config, session, program>>
          /\ asked' = requestEnv
      BY <1>7 DEF RunInTerminal
    <2>2. OnKeys(requestEnv, Seq(Char) \cup {None})
      BY <1>1, <1>7, RequestEnvType
    <2>3. request = None /\ program = None
      <3>1. ~OnKeys(None, Seq(Char) \cup {None})
        BY EnvAssumption
      <3> QED
        BY <1>1, <2>1, <3>1 DEF HandedOver, Started
    <2>4. BuildEnvFileEntries(asked)' = BuildEnvFileEntries(requestEnv)
      BY <2>1 DEF BuildEnvFileEntries
    <2>5. request'.wrapped =>
              /\ request'.env = <<>>
              /\ disk' = Format(Entries(BuildEnvFileEntries(requestEnv)))
              /\ Formattable(DOMAIN BuildEnvFileEntries(requestEnv))
      BY <1>7 DEF RunInTerminal, EnvLeft
    <2> QED
      BY <1>1, <1>3, <2>1, <2>2, <2>3, <2>4, <2>5
         DEF EnvInv, ResolvedEnv, SessionEnv, HandedOver, Started
  <1>8. CASE ProgramStarts
    <2>1. /\ request # None /\ UNCHANGED <<config, session, asked, request, disk>>
      BY <1>8 DEF ProgramStarts
    <2>2. ASSUME request.wrapped
          PROVE  program'.env =
                     AddAll(Defined(AddAll(program'.own, <<>>)), BuildEnvFileEntries(asked))
      <3>1. /\ session # None /\ OnKeys(asked, Seq(Char) \cup {None})
            /\ request.env = <<>> /\ disk = Format(Entries(BuildEnvFileEntries(asked)))
            /\ Formattable(DOMAIN BuildEnvFileEntries(asked))
        BY <1>1, <2>1, <2>2 DEF HandedOver
      <3>2. OnKeys(BuildEnvFileEntries(asked), Seq(Char))
        BY <1>1, <3>1, EntriesOfRequest
      <3>3. RecordOf(OpReads(disk)) = BuildEnvFileEntries(asked)
        BY <3>1, <3>2, EntriesAreRead
      <3>4. PICK inherited \in Inherited :
               program' = [own |-> inherited,
                           env |-> AddAll(Defined(AddAll(inherited, <<>>)), BuildEnvFileEntries(asked))]
        BY <1>8, <2>2, <3>1, <3>3 DEF ProgramStarts
      <3> QED
        BY <3>4
    <2>3. BuildEnvFileEntries(asked)' = BuildEnvFileEntries(asked)
      BY <2>1 DEF BuildEnvFileEntries
    <2> QED
      BY <1>1, <1>3, <2>1, <2>2, <2>3 DEF EnvInv, ResolvedEnv, SessionEnv, HandedOver, Started
  <1>9. CASE UNCHANGED vars
    <2>1. UNCHANGED <<given, config, session, asked, request, disk, program>>
      BY <1>9 DEF vars
    <2>2. BuildEnvFileEntries(asked)' = BuildEnvFileEntries(asked)
      BY <2>1 DEF BuildEnvFileEntries
    <2> QED
      BY <1>1, <1>3, <2>1, <2>2 DEF EnvInv, ResolvedEnv, SessionEnv, HandedOver, Started
  <1> QED
    BY <1>4, <1>5, <1>6, <1>7, <1>8, <1>9 DEF Next

(* What a program sees with the file on top of its shell, and what it should. *)
OnTopOfShell(own, meant, launch, adapter, seen, expected) ==
    /\ DOMAIN launch = DOMAIN meant
    /\ \A k \in DOMAIN meant : launch[k] = meant[k] /\ meant[k] # None
    /\ seen = AddAll(Defined(AddAll(own, <<>>)), Defined(AddAll(launch, adapter)))
    /\ expected = Defined(AddAll(AddAll(own, meant), adapter))

SeenButUnset(own, adapter, seen, expected) ==
    /\ DOMAIN expected = {k \in DOMAIN seen :
           ~(k \in DOMAIN adapter /\ adapter[k] = None /\ k \in DOMAIN own)}
    /\ \A k \in DOMAIN expected : seen[k] = expected[k]

(* Of the adapter's entries, the launch env and the terminal's environment,   *)
(* the file on top of the shell gives what the three mean together.           *)
LEMMA FileOnTopOfShell ==
    ASSUME NEW own, NEW meant, NEW launch, NEW adapter, NEW seen, NEW expected,
           OnTopOfShell(own, meant, launch, adapter, seen, expected)
    PROVE  SeenButUnset(own, adapter, seen, expected)
  <1>0. /\ DOMAIN launch = DOMAIN meant
        /\ \A k \in DOMAIN meant : launch[k] = meant[k] /\ meant[k] # None
        /\ seen = AddAll(Defined(AddAll(own, <<>>)), Defined(AddAll(launch, adapter)))
        /\ expected = Defined(AddAll(AddAll(own, meant), adapter))
    BY DEF OnTopOfShell
  <1>1. DOMAIN <<>> = {}
    BY NothingOnKeys
  <1>2. PICK shell : shell = Defined(AddAll(own, <<>>))
    OBVIOUS
  <1>3. /\ DOMAIN shell = {k \in DOMAIN own : own[k] # None}
        /\ \A k \in DOMAIN shell : shell[k] = own[k]
    BY <1>1, <1>2 DEF Defined, AddAll
  <1>4. PICK file : file = Defined(AddAll(launch, adapter))
    OBVIOUS
  <1>5. /\ DOMAIN file = {k \in DOMAIN meant \cup DOMAIN adapter :
                             k \in DOMAIN adapter => adapter[k] # None}
        /\ \A k \in DOMAIN file : file[k] = IF k \in DOMAIN adapter THEN adapter[k] ELSE meant[k]
    BY <1>0, <1>4 DEF Defined, AddAll
  <1>6. /\ DOMAIN seen = DOMAIN shell \cup DOMAIN file
        /\ \A k \in DOMAIN seen : seen[k] = IF k \in DOMAIN file THEN file[k] ELSE shell[k]
    BY <1>0, <1>2, <1>4 DEF AddAll
  <1>7. PICK all : all = AddAll(AddAll(own, meant), adapter)
    OBVIOUS
  <1>8. /\ DOMAIN all = DOMAIN own \cup DOMAIN meant \cup DOMAIN adapter
        /\ \A k \in DOMAIN all : all[k] = IF k \in DOMAIN adapter THEN adapter[k]
                                          ELSE IF k \in DOMAIN meant THEN meant[k] ELSE own[k]
    BY <1>7 DEF AddAll
  <1>9. /\ DOMAIN expected = {k \in DOMAIN all : all[k] # None}
        /\ \A k \in DOMAIN expected : expected[k] = all[k]
    BY <1>0, <1>7 DEF Defined
  <1>10. ASSUME NEW k
         PROVE  k \in DOMAIN expected <=>
                    /\ k \in DOMAIN seen
                    /\ ~(k \in DOMAIN adapter /\ adapter[k] = None /\ k \in DOMAIN own)
    BY <1>0, <1>3, <1>5, <1>6, <1>8, <1>9
  <1>11. ASSUME NEW k \in DOMAIN expected
         PROVE  seen[k] = expected[k]
    BY <1>0, <1>3, <1>5, <1>6, <1>8, <1>9, <1>10
  <1> QED
    BY <1>10, <1>11 DEF SeenButUnset

LEMMA EnvInvIsEnough == EnvInv => ProgramSeesItsEnv
  <1> SUFFICES ASSUME EnvInv, program # None, request.wrapped
               PROVE  /\ DOMAIN Expected = DOMAIN program.env \ {k \in Keys : LosesUnset(k)}
                      /\ \A k \in DOMAIN Expected : program.env[k] = Expected[k]
    BY DEF ProgramSeesItsEnv
  <1>1. Sources /\ SessionEnv /\ HandedOver /\ Started
    BY DEF EnvInv
  <1>2. /\ request # None /\ session # None /\ OnKeys(asked, Seq(Char) \cup {None})
        /\ program.env = AddAll(Defined(AddAll(program.own, <<>>)), BuildEnvFileEntries(asked))
        /\ session.launchEnv = IF NoEnv THEN <<>> ELSE Meant
    BY <1>1 DEF Started, HandedOver, SessionEnv
  <1>3. DOMAIN Meant \subseteq Keys /\ \A k \in DOMAIN Meant : Meant[k] \in Seq(Char)
    BY <1>1, ResolvedIsMeant, OnKeysParts
  <1>4. NoEnv => DOMAIN Meant = {} /\ DOMAIN <<>> = {}
    BY NothingOnKeys DEF NoEnv, Meant, LaunchEnv, AddAll
  <1>5. PICK launch : launch = session.launchEnv
    OBVIOUS
  <1>6. /\ DOMAIN launch = DOMAIN Meant
        /\ \A k \in DOMAIN Meant : launch[k] = Meant[k] /\ Meant[k] # None
    BY <1>2, <1>3, <1>4, <1>5, EnvAssumption
  <1>7. program.env = AddAll(Defined(AddAll(program.own, <<>>)), Defined(AddAll(launch, asked)))
    BY <1>2, <1>5 DEF BuildEnvFileEntries
  <1>8. Expected = Defined(AddAll(AddAll(program.own, Meant), asked))
    BY DEF Expected
  <1>9. /\ DOMAIN Expected = {k \in DOMAIN program.env :
               ~(k \in DOMAIN asked /\ asked[k] = None /\ k \in DOMAIN program.own)}
        /\ \A k \in DOMAIN Expected : program.env[k] = Expected[k]
    <2>1. PICK own, meant, adapter, seen, expected :
              /\ own = program.own /\ meant = Meant /\ adapter = asked
              /\ seen = program.env /\ expected = Expected
      OBVIOUS
    <2>2. OnTopOfShell(own, meant, launch, adapter, seen, expected)
      BY <1>6, <1>7, <1>8, <2>1 DEF OnTopOfShell
    <2>3. SeenButUnset(own, adapter, seen, expected)
      BY <2>2, FileOnTopOfShell
    <2> QED
      BY <2>1, <2>3 DEF SeenButUnset
  <1>10. DOMAIN asked \subseteq Keys
    BY <1>2, OnKeysParts
  <1> QED
    BY <1>9, <1>10 DEF LosesUnset

(* Whatever the envs, the vault, the style of the envFile and the characters  *)
(* of the values: a program behind op run has every variable as it was meant. *)
THEOREM ProgramsSeeTheirEnv == Spec => []ProgramSeesItsEnv
  BY InitEnvInv, NextEnvInv, EnvInvIsEnough, PTL DEF Spec

===============================================================================
