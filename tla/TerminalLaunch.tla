----------------------------- MODULE TerminalLaunch -----------------------------
(***************************************************************************)
(* What becomes of one launch's env and of its stop signals on the way to  *)
(* the program: the env file and launch.json are merged, references        *)
(* resolved through op inject, the result handed to the debug session, the *)
(* adapter's runInTerminal request rewritten, and the program started by   *)
(* op run from the written file.  When launches, caches and failures meet  *)
(* is LaunchResolver's subject; here it is what the five text formats on   *)
(* the way do to a value.                                                  *)
(*                                                                         *)
(* A value is a sequence of characters, an op:// reference one character.  *)
(* The stop-signal marker, a variable of either source, is kept apart from *)
(* the others: stripping removes it before the program sees them.          *)
(***************************************************************************)
EXTENDS Dotenv, InjectTemplate

CONSTANTS
    None,
    Char,        \* the characters of names and values
    Keys,        \* names of variables
    FileEnvs,    \* what an envFile is meant to declare
    LaunchEnvs,  \* what launch.json's env holds; a value can be null
    Styles,      \* ways to write an envFile
    Refs,        \* op:// references
    Vaults,      \* reference -> value
    Own,         \* the value an adapter sets by itself
    Inherited,   \* environments of the terminal
    Accounts,    \* account ids a launch can be pinned to
    MarkerTexts, \* texts of the marker
    Settings,    \* secretResolver.signalOnStop
    Delays       \* delays in README.md's examples of a marker

Marker == INSTANCE LaunchMarkers

Token == [delay: Nat \cup {None}, word: STRING]
Step == [delaySec: Int, signal: Marker!SIGNAL_NAMES]

(* None is no value; op knows no account without an id, and an empty account  *)
(* variable or setting pins none.                                             *)
ASSUME LaunchAssumption ==
    /\ None \notin [steps: Seq(Step), accountId: Accounts \cup {None}]
    /\ "" \notin Accounts
    /\ (MarkerTexts \cup Settings) \ {None} \subseteq Seq(Token)

(* An environment, a function on some of the keys. *)
OnKeys(env, Value) == \E names \in SUBSET Keys : env \in [names -> Value]

(* An env file has one line for each entry, and a value keeps its quotes only *)
(* where it is quoted once more.                                              *)
Declarable(key, value, style) ==
    /\ VALID_KEY(key) /\ Range(value) \cap {"\r", "\n"} = {}
    /\ style # "quoted" => StripValueQuotes(value) = value

ASSUME EnvAssumption ==
    /\ FormatCharacters \cup Refs \subseteq Char
    /\ IsFiniteSet(Keys) /\ Keys \subseteq Seq(Char)
    /\ None \notin Seq(Char) /\ ~OnKeys(None, Seq(Char) \cup {None})
    /\ Own \in Seq(Char)
    /\ \A vault \in Vaults, r \in Refs : vault[r] \in Seq(Char)
    /\ Styles \subseteq {"plain", "exported", "quoted"}
    /\ \A file \in FileEnvs \ {None} :
          /\ OnKeys(file, Seq(Char))
          /\ \A style \in Styles, key \in DOMAIN file : Declarable(key, file[key], style)
    /\ \A env \in LaunchEnvs \ {None} : OnKeys(env, Seq(Char) \cup {None})

VARIABLES
    given,     \* envFile, launch.json, settings and vault
    config,    \* the DebugConfiguration that resolve returned
    session,   \* what the tracker's constructor read from it
    asked,     \* the env of the adapter's runInTerminal request
    request,   \* that request as VS Code receives it
    disk,      \* the text of the env file in the temp directory
    program,   \* the env of the started program
    touched    \* history: another extension changed the field

vars == <<given, config, session, asked, request, disk, program, touched>>

(* A session field that somebody wrote into launch.json. *)
Forged == [steps |-> <<[delaySec |-> 0, signal |-> "KILL"]>>, accountId |-> None]
Broken == [delaySec |-> -1, signal |-> "TERM"]

Defined(env) == [k \in {j \in DOMAIN env : env[j] # None} |-> env[k]]
Entries(env) == LET keys == SetToSeq(DOMAIN env) IN [i \in DOMAIN keys |-> <<keys[i], env[keys[i]]>>]

Init ==
    /\ \E file \in FileEnvs, style \in Styles, env \in LaunchEnvs, vault \in Vaults,
          marker \in MarkerTexts \cup {None}, setting \in Settings,
          field \in {None, Forged}, account \in Accounts \cup {None} :
            /\ marker # None => env # None \/ file # None
            /\ given = [file |-> file, style |-> style, env |-> env, vault |-> vault,
                        marker |-> marker, setting |-> setting, field |-> field, account |-> account]
    /\ config = None /\ session = None /\ asked = None /\ request = None
    /\ disk = None /\ program = None /\ touched = FALSE

-----------------------------------------------------------------------------
(* LaunchConfigResolver.resolve. *)

(* The user's file in one of the styles of its format. *)
TextOf(env, style) ==
    LET line(e) ==
            CASE style = "plain" -> e[1] \o <<"=">> \o e[2] \o <<"\n">>
              [] style = "exported" -> <<"export", Blank>> \o e[1] \o <<Blank, "=">> \o e[2] \o <<"\r", "\n">>
              [] style = "quoted" -> <<Blank>> \o e[1] \o <<"=", "'">> \o e[2] \o <<"'", "\n">>
        entries == Entries(env)
        first == IF style = "exported" THEN <<Bom>> ELSE <<"\n", "#", "A", "=", "x", "\n">>
    IN first \o FlattenSeq([i \in DOMAIN entries |-> line(entries[i])])

(* A record filled from entries in their order. *)
RecordOf(entries) ==
    [k \in {entries[i][1] : i \in DOMAIN entries} |->
        entries[SelectLastInSeq(entries, LAMBDA e : e[1] = k)][2]]

FileEnv == IF given.file = None THEN <<>> ELSE RecordOf(Parse(TextOf(given.file, given.style)))
LaunchEnv == IF given.env = None THEN <<>> ELSE Defined(given.env)

(* Entries of other win. *)
AddAll(env, other) ==
    [k \in DOMAIN env \cup DOMAIN other |-> IF k \in DOMAIN other THEN other[k] ELSE env[k]]

IsOpRef(value) == Len(value) = 1 /\ value[1] \in Refs

(* resolveFinalEnv, with an empty cache. *)
Resolved(env) ==
    LET refs == SetToSeq({env[k][1] : k \in {j \in DOMAIN env : IsOpRef(env[j])}})
        stdout == Rendered(BuildTemplate(refs), given.vault)
        values == ParseOutput(stdout, refs)
    IN [k \in DOMAIN env |-> IF IsOpRef(env[k]) THEN values[env[k][1]] ELSE env[k]]

(* A bug: the incoming field is kept where resolve sets none. *)
FieldOrGiven(field) == IF field = None THEN given.field ELSE field

(* The field is resolve's own; an incoming one is removed first. *)
FieldOf(field) == field

Resolve ==
    /\ config = None
    /\ config' =
        IF given.env = None /\ given.file = None THEN [env |-> None, field |-> FieldOf(None)]
        ELSE [env |-> Resolved(AddAll(FileEnv, LaunchEnv)),
              field |-> FieldOf(Marker!Build(
                            Marker!ParseSignalOnStop(Marker!EffectiveMarkerValue(given.marker, given.setting)),
                            given.account))]
    /\ touched' = FALSE
    /\ UNCHANGED <<given, session, asked, request, disk, program>>

(* The configuration passes the providers of other extensions. *)
WithBrokenStep(field) == [field EXCEPT !.steps = Append(@, Broken)]

OtherExtension ==
    /\ config # None /\ session = None /\ ~touched
    /\ config.field # None
    /\ config' = [config EXCEPT !.field = WithBrokenStep(@)]
    /\ touched' = TRUE
    /\ UNCHANGED <<given, session, asked, request, disk, program>>

-----------------------------------------------------------------------------
(* The tracker of the session. *)

CreateDebugAdapterTracker ==
    /\ config # None /\ session = None
    /\ session' = [field |-> Marker!Parse(config.field),
                   launchEnv |-> IF config.env = None THEN <<>> ELSE config.env]
    /\ UNCHANGED <<given, config, asked, request, disk, program, touched>>

(* A bug: the launch env wins over what the adapter has made of it. *)
LaunchEnvWins(requestEnv) == AddAll(Defined(requestEnv), session.launchEnv)

(* The adapter's entries win; null removes. *)
BuildEnvFileEntries(requestEnv) == Defined(AddAll(session.launchEnv, requestEnv))

(* A bug: the request keeps the env that the file now holds. *)
EnvKept(requestEnv) == requestEnv

EnvLeft(requestEnv) == <<>>

AccountId == IF session.field = None THEN None ELSE session.field.accountId

(* onDidSendMessage of a runInTerminal request.  The request is left as it is *)
(* when no entry is left for a file, and when the file cannot be made: a key  *)
(* that cannot be written, or any of the file operations throws, after which  *)
(* the directory is removed and the user warned.                              *)
RunInTerminal(requestEnv) ==
    LET entries == BuildEnvFileEntries(requestEnv) IN
    /\ session # None /\ asked = None
    /\ asked' = requestEnv
    /\ \/ /\ entries # <<>> /\ Formattable(DOMAIN entries)
          /\ disk' = Format(Entries(entries))
          /\ request' = [env |-> EnvLeft(requestEnv), wrapped |-> TRUE, warned |-> FALSE,
                         account |-> AccountId]
       \/ /\ request' = [env |-> requestEnv, wrapped |-> FALSE, warned |-> entries # <<>>,
                         account |-> None]
          /\ UNCHANGED disk
    /\ UNCHANGED <<given, config, session, program, touched>>

-----------------------------------------------------------------------------
(* The adapter, and the terminal. *)

RequestEnvs ==
    LET choices == [Keys -> {"absent", "forwarded", "own", "null"}]
        held(choice, k) == IF choice[k] = "forwarded" THEN k \in DOMAIN session.launchEnv
                           ELSE choice[k] # "absent"
        env(choice) == [k \in {j \in Keys : held(choice, j)} |->
                           CASE choice[k] = "own" -> Own
                             [] choice[k] = "null" -> None
                             [] OTHER -> session.launchEnv[k]]
    IN {env(choice) : choice \in choices}

(* VS Code adds and removes what the request says; op run puts the file on top. *)
ProgramStarts ==
    /\ request # None /\ program = None
    /\ \E inherited \in Inherited :
         LET shell == Defined(AddAll(inherited, request.env))
         IN program' = [own |-> inherited,
                        env |-> IF request.wrapped THEN AddAll(shell, RecordOf(OpReads(disk))) ELSE shell]
    /\ UNCHANGED <<given, config, session, asked, request, disk, touched>>

Next ==
    \/ Resolve \/ OtherExtension \/ CreateDebugAdapterTracker
    \/ session # None /\ \E requestEnv \in RequestEnvs : RunInTerminal(requestEnv)
    \/ ProgramStarts

Spec == Init /\ [][Next]_vars

-----------------------------------------------------------------------------
(***************************************************************************)
(* Properties.                                                             *)
(***************************************************************************)

(* What the user means by the two sources: launch.json wins, a reference is  *)
(* the value in the vault.                                                   *)
Meant ==
    LET env == AddAll(IF given.file = None THEN <<>> ELSE given.file, LaunchEnv)
    IN [k \in DOMAIN env |-> IF IsOpRef(env[k]) THEN given.vault[env[k][1]] ELSE env[k]]

(* The program's env by what launch.json, the adapter and the terminal say. *)
Expected == Defined(AddAll(AddAll(program.own, Meant), asked))

(* Unset by the adapter, and set in the terminal's own environment. *)
LosesUnset(k) == k \in DOMAIN asked /\ asked[k] = None /\ k \in DOMAIN program.own

(* Whatever characters a value holds and whichever formats it passes, the     *)
(* program behind op run has each variable exactly as it was meant: from the  *)
(* adapter's request, else launch.json, else the envFile, else the terminal.  *)
ProgramSeesItsEnv ==
    program # None /\ request.wrapped =>
        /\ DOMAIN Expected = DOMAIN program.env \ {k \in Keys : LosesUnset(k)}
        /\ \A k \in DOMAIN Expected : program.env[k] = Expected[k]

HasSecret(env) == \E k \in DOMAIN env : \E r \in Refs : env[k] = given.vault[r]

(* No value of the vault leaves the request behind the user's back: not by a  *)
(* request that is rewritten, nor by one that has nothing left for a file,    *)
(* only where the rewrite fails, and then the user is warned.                 *)
SecretsLeaveOnlyWithAWarning ==
    request # None /\ HasSecret(request.env) => request.warned

(* README.md:184-197, for any delays: the steps that a text stands for.       *)
Word(text) == Marker!Word(text)
After(delay, text) == [delay |-> delay, word |-> text]
Do(delay, name) == [delaySec |-> delay, signal |-> name]
Example(text, steps) == [text |-> text, steps |-> steps]
PlainExamples ==
    {Example(<<Word("TERM"), Word("KILL")>>, <<Do(0, "TERM"), Do(30, "KILL")>>),
     Example(<<Word("term")>>, <<Do(0, "TERM")>>)}
DelayedExamples ==
    {Example(<<Word("TERM"), After(d, "kill")>>, <<Do(0, "TERM"), Do(d, "KILL")>>) : d \in Delays}
ChainedExamples ==
    {Example(<<After(d, "INT"), After(e, "TERM"), Word("KILL")>>,
             <<Do(d, "INT"), Do(e, "TERM"), Do(30, "KILL")>>) : d, e \in Delays}
EmptyExamples ==
    {Example(text, <<>>) :
        text \in {<<Word("off")>>, <<Word("")>>, <<Word("TERM"), Word("STOP")>>,
                  <<Word("TERM"), Word("off")>>, <<Word("?"), Word("KILL")>>}}
Examples == PlainExamples \cup DelayedExamples \cup ChainedExamples \cup EmptyExamples

(* None is neither a text nor a delay. *)
ASSUME ReadmeAssumption ==
    /\ Delays \subseteq Nat \ {None}
    /\ \A example \in Examples : example.text # None

(* A session obeys the steps that README.md gives for its marker, or for the  *)
(* setting where the marker is not set, and never a field of launch.json.     *)
SessionObeysItsMarker ==
    session # None /\ ~touched =>
        LET effective == IF given.marker # None THEN given.marker ELSE given.setting
            steps == IF session.field = None THEN <<>> ELSE session.field.steps
        IN IF (given.env = None /\ given.file = None) \/ effective = None THEN steps = <<>>
           ELSE \A example \in Examples : example.text = effective => steps = example.steps

(* A sequence that another extension has broken is not obeyed in part: a KILL *)
(* must not come without the TERM before it.                                  *)
WholeSequenceOrNone ==
    session # None /\ touched =>
        session.field = IF given.account = None THEN None
                        ELSE [steps |-> <<>>, accountId |-> given.account]

(* op run reads references under the account the launch was resolved under,   *)
(* with or without stop signals and whatever became of those.                 *)
AccountReachesOpRun ==
    request # None /\ request.wrapped =>
        request.account = IF given.env = None /\ given.file = None THEN None ELSE given.account

(* runInTerminalEnvRewriter.ts:78-80: null entries, DAP's unset, "remove the  *)
(* variable".  They are left out of the file, but the request no longer holds *)
(* them either: a variable of the terminal's own environment stays set.       *)
UnsetReachesProgram ==
    program # None =>
        \A k \in DOMAIN asked : asked[k] = None => k \notin DOMAIN program.env
=============================================================================
