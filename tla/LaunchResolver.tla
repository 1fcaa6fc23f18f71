--------------------------- MODULE LaunchResolver ---------------------------
(***************************************************************************)
(* Resolution of launch configurations: several launches run concurrently  *)
(* in the extension host, each one a chain of awaited child processes, and *)
(* all of them share one SecretCache.                                      *)
(*                                                                         *)
(* An action is one turn of the JavaScript event loop: from the completion *)
(* of an awaited operation to the next real await.  A call of op is two    *)
(* actions: one when op reads the vault (LookupAnswers, InjectAnswers) and *)
(* one when its output reaches the extension (OpReturns); a cache clear, a *)
(* setting change, another launch or a cancellation can fall between them. *)
(***************************************************************************)
EXTENDS Naturals

CONSTANTS
    Launches,        \* debug launches, each of which runs at most once
    Requests,        \* launch configurations: [env, file], each a map or Unset
    EnvKeys,         \* names of environment variables
    Refs,            \* env values that start with op://
    Tags,            \* token tags
    Emails,          \* e-mail addresses, lower-cased
    Accounts,        \* 1Password accounts
    Plain,           \* env values that are none of the above
    OutsideDirs,     \* git subdirectories that are absolute or leave the workspace
    Settings,        \* the secretResolver.* settings, Empty when blank
    Patterns,        \* well-formed regular expressions over variable names
    DefaultPattern,  \* ^(OP_|SECRET_RESOLVER_)
    Strips,          \* the variable names each pattern matches
    AccountOf,       \* what `op account list` says of an e-mail (external)
    DefaultAccount,  \* the account op uses without --account (external)
    OpPaths,         \* op binaries the opPath setting can name
    Unset,           \* JavaScript's undefined or null
    Empty,           \* the empty string
    MaxDrops         \* bound on cache clears and opPath changes

Markers == {"TOKEN_TAG", "GIT_CONFIG", "EMAIL", "ACCOUNT_ID", "SANITIZE_VARS"}
EnvValues == Refs \cup Tags \cup Emails \cup Accounts \cup Plain
                  \cup OutsideDirs \cup Patterns \cup {Empty}
EnvMaps == [EnvKeys -> EnvValues \cup {Unset}]  \* Unset: no such variable

ASSUME ConstantsAssumption ==
    /\ Markers \subseteq EnvKeys
    /\ Requests \subseteq [env: EnvMaps \cup {Unset}, file: EnvMaps \cup {Unset}]
    /\ DefaultPattern \in Patterns /\ Strips \in [Patterns -> SUBSET EnvKeys]
    /\ Settings \in [Markers -> EnvValues]
    /\ AccountOf \in [Emails -> Accounts \cup {Unset}]
    /\ DefaultAccount \in Accounts
    /\ MaxDrops \in Nat
    /\ Unset \notin EnvValues \cup Requests

(***************************************************************************)
(* The tag, e-mail and account a launch names are strings the user typed:  *)
(* any value of the environment.                                           *)
(***************************************************************************)
Token == [owner: EnvValues, tag: EnvValues]
Value == [ref: Refs, owner: EnvValues, tag: EnvValues \cup {Unset},
          op: OpPaths, era: Nat]

(* What op resolves is never mistaken for what the user typed. *)
ASSUME ValueAssumption ==
    \A v \in EnvValues \cup {Unset} : v \notin Value /\ v \notin Token

ServedMaps == [Refs -> Value \cup {Unset}]

ExecStages == {"git", "accounts", "items", "credential", "inject"}
LookupStages == {"accounts", "items", "credential"}
OpStages == LookupStages \cup {"inject"}
Stages == ExecStages \cup {"idle", "envFile", "done"}
Outcomes == {"pending", "unchanged", "config", "error", "abortError", "cancelled"}

VARIABLES
    launch,    \* what each resolve() call holds in its locals, and its outcome
    cache,     \* SecretCache entries: key -> value
    opPath,    \* the secretResolver.opPath setting
    resolver,  \* the op binary of the provider's current resolver
    trusted,   \* vscode.workspace.isTrusted
    drops,     \* history: how many times the cache was dropped
    quietEra   \* history: drops as of the last one with no launch in flight

vars == <<launch, cache, opPath, resolver, trusted, drops, quietEra>>

NoEntries == [key \in {} |-> Unset]
NoEnv == [k \in EnvKeys |-> Unset]
NoValues == [r \in Refs |-> Unset]

IdleLaunch ==
    [pc |-> "idle", request |-> Unset, op |-> Unset, era |-> 0, env |-> NoEnv,
     email |-> Unset, account |-> Unset, tag |-> Unset, token |-> Unset,
     served |-> NoValues, replied |-> FALSE, reply |-> Unset,
     injected |-> NoValues, aborted |-> FALSE, outcome |-> "pending"]

Init ==
    /\ launch = [l \in Launches |-> IdleLaunch]
    /\ cache = NoEntries
    /\ opPath \in OpPaths
    /\ resolver = opPath
    /\ trusted \in BOOLEAN
    /\ drops = 0
    /\ quietEra = 0

-----------------------------------------------------------------------------
(* Cache keys: one namespace for each kind of entry. *)

(* A bug: the account is left out of the key. *)
RefKeyOfTag(account, tag, ref) == <<"resolved-ref", Unset, tag, ref>>

RefKey(account, tag, ref) == <<"resolved-ref", account, tag, ref>>
TokenKey(tag) == <<"token", Unset, Unset, tag>>
AccountKey(email) == <<"account", Unset, Unset, email>>

(* SecretCache.set for each entry of new; an entry that exists is replaced. *)
Store(entries, new) ==
    [key \in DOMAIN entries \cup DOMAIN new |->
        IF key \in DOMAIN new THEN new[key] ELSE entries[key]]

Cached(key) == IF key \in DOMAIN cache THEN cache[key] ELSE Unset

-----------------------------------------------------------------------------
(* Markers and sanitisation, as functions of the merged environment. *)

(* A bug: entries that are there already win. *)
AddMissing(map, other) ==
    [k \in DOMAIN map |-> IF map[k] # Unset THEN map[k] ELSE other[k]]

(* Entries of the second map win. *)
AddAll(map, other) ==
    [k \in DOMAIN map |-> IF other[k] # Unset THEN other[k] ELSE map[k]]

(* A blank setting reads as undefined. *)
Setting(marker) == IF Settings[marker] = Empty THEN Unset ELSE Settings[marker]

Effective(env, marker) ==
    IF env[marker] # Unset THEN env[marker] ELSE Setting(marker)

(* JavaScript truthiness of a marker value. *)
IsSet(value) == value \notin {Unset, Empty}

Stripped(env) ==
    LET source == Effective(env, "SANITIZE_VARS") IN
    IF source = Empty THEN {}
    ELSE IF source \in Patterns THEN Strips[source] ELSE Strips[DefaultPattern]

(* StringEnvMap.deleteIf over the matching names. *)
Sanitized(env) == [k \in EnvKeys |-> IF k \in Stripped(env) THEN Unset ELSE env[k]]

OpRefsOf(env) == {env[k] : k \in EnvKeys} \cap Refs

(* The refs a launch resolves, and the env of the configuration it returns. *)
KeptRefs(env) == OpRefsOf(Sanitized(env))
FinalEnv(x) ==
    LET kept == Sanitized(x.env)
        Served(v) == v \in Refs /\ x.served[v] # Unset
    IN [k \in EnvKeys |-> IF Served(kept[k]) THEN x.served[kept[k]] ELSE kept[k]]

-----------------------------------------------------------------------------
(* The synchronous stretches of resolve(): each takes the launch x as it is  *)
(* after an await and returns it as it is at the next one.                   *)

Ends(x, outcome) == [x EXCEPT !.pc = "done", !.outcome = outcome]

Missing(x) == {r \in KeptRefs(x.env) : x.served[r] = Unset}

Execs(x, stage) ==
    [x EXCEPT !.pc = stage, !.replied = FALSE, !.reply = Unset, !.injected = NoValues]

(* resolveAllRefs up to the inject call. *)
AfterToken(x, token) ==
    LET Lookup(r) == IF r \in KeptRefs(x.env)
                     THEN Cached(RefKey(x.account, x.tag, r)) ELSE Unset
        y == [x EXCEPT !.token = token, !.served = [r \in Refs |-> Lookup(r)]]
    IN IF Missing(y) = {} THEN Ends(y, "config") ELSE Execs(y, "inject")

(* A bug: a token that is not cached counts as no token. *)
AfterAccountUnlessCached(x, account) ==
    LET marker == Effective(x.env, "TOKEN_TAG")
        tag == IF IsSet(marker) THEN marker ELSE Unset
        y == [x EXCEPT !.account = account, !.tag = tag]
    IN AfterToken(y, IF tag = Unset THEN Unset ELSE Cached(TokenKey(tag)))

AfterAccount(x, account) ==
    LET marker == Effective(x.env, "TOKEN_TAG")
        tag == IF IsSet(marker) THEN marker ELSE Unset
        y == [x EXCEPT !.account = account, !.tag = tag]
    IN IF tag = Unset \/ OpRefsOf(x.env) = {} THEN AfterToken(y, Unset)
       ELSE IF TokenKey(tag) \in DOMAIN cache
            THEN AfterToken(y, Cached(TokenKey(tag)))
            ELSE Execs(y, "items")

AfterEmail(x, email) ==
    LET y == [x EXCEPT !.email = email] IN
    IF AccountKey(email) \in DOMAIN cache
    THEN AfterAccount(y, Cached(AccountKey(email)))
    ELSE Execs(y, "accounts")

AfterEnv(x, env) ==
    LET y == [x EXCEPT !.env = env]
        dir == Effective(env, "GIT_CONFIG")
        email == Effective(env, "EMAIL")
        id == Effective(env, "ACCOUNT_ID")
    IN IF IsSet(dir) THEN IF dir \in OutsideDirs THEN Ends(y, "error")
                          ELSE Execs(y, "git")
       ELSE IF IsSet(email) THEN AfterEmail(y, email)
       ELSE IF IsSet(id) THEN AfterAccount(y, id)
       ELSE AfterAccount(y, Unset)

-----------------------------------------------------------------------------
(* Launch actions. *)

EnvOf(request) == IF request.env = Unset THEN NoEnv ELSE request.env

Start(l, request) ==
    LET x == [IdleLaunch EXCEPT !.request = request, !.op = resolver, !.era = drops]
    IN /\ launch[l].pc = "idle"
       /\ launch' = [launch EXCEPT ![l] =
            IF request.env = Unset /\ request.file = Unset THEN Ends(x, "unchanged")
            ELSE IF ~trusted THEN Ends(x, "error")
            ELSE IF request.file # Unset THEN Execs(x, "envFile")
            ELSE AfterEnv(x, EnvOf(request))]
       /\ UNCHANGED <<cache, opPath, resolver, trusted, drops, quietEra>>

(* The env file was read, was missing (a warning, then an empty map) or      *)
(* could not be read.  The launch's own env wins over the file's.            *)
EnvFileReturns(l) ==
    /\ launch[l].pc = "envFile"
    /\ \E next \in {AfterEnv(launch[l], AddAll(file, EnvOf(launch[l].request))) :
                        file \in {launch[l].request.file, NoEnv}}
                   \cup {Ends(launch[l], "error")} :
            launch' = [launch EXCEPT ![l] = next]
    /\ UNCHANGED <<cache, opPath, resolver, trusted, drops, quietEra>>

(* git config answered with an e-mail, or failed. *)
GitReturns(l) ==
    /\ launch[l].pc = "git"
    /\ \E next \in {AfterEmail(launch[l], email) : email \in Emails}
                   \cup {Ends(launch[l], "error")} :
            launch' = [launch EXCEPT ![l] = next]
    /\ UNCHANGED <<cache, opPath, resolver, trusted, drops, quietEra>>

(* The account op works in when it is given --account or nothing (external). *)
Owner(account) == IF account = Unset THEN DefaultAccount ELSE account

(* What the vault holds for a ref when launch x asks with its token: a       *)
(* service-account token decides the account, whatever --account says        *)
(* (external).                                                               *)
VaultValue(x, ref) ==
    [ref |-> ref,
     owner |-> IF x.token = Unset THEN Owner(x.account) ELSE x.token.owner,
     tag |-> IF x.token = Unset THEN Unset ELSE x.token.tag,
     op |-> x.op, era |-> x.era]

(* What a lookup can answer (external): an account or none for the e-mail,   *)
(* an item or none for the tag, its credential or none.                      *)
Replies(x) ==
    CASE x.pc = "accounts" -> {IF x.email \in Emails THEN AccountOf[x.email] ELSE Unset}
      [] x.pc = "items" -> {Unset, Owner(x.account)}
      [] x.pc = "credential" -> {Unset, [owner |-> Owner(x.account), tag |-> x.tag]}

Waiting(x) == ~x.replied /\ ~x.aborted

LookupAnswers(l) ==
    /\ launch[l].pc \in LookupStages /\ Waiting(launch[l])
    /\ \E reply \in Replies(launch[l]) :
            launch' = [launch EXCEPT ![l].replied = TRUE, ![l].reply = reply]
    /\ UNCHANGED <<cache, opPath, resolver, trusted, drops, quietEra>>

(* op inject resolves some of the refs it was asked for (external). *)
InjectAnswers(l) ==
    LET x == launch[l] IN
    /\ x.pc = "inject" /\ Waiting(x)
    /\ \E got \in SUBSET Missing(x) :
            launch' = [launch EXCEPT ![l].replied = TRUE, ![l].injected =
                [r \in Refs |-> IF r \in got THEN VaultValue(x, r) ELSE Unset]]
    /\ UNCHANGED <<cache, opPath, resolver, trusted, drops, quietEra>>

Returned(l, stage) == launch[l].pc = stage /\ launch[l].replied

AccountsReturn(l) ==
    LET x == launch[l] IN
    /\ Returned(l, "accounts")
    /\ IF x.reply = Unset
       THEN /\ launch' = [launch EXCEPT ![l] = Ends(x, "error")]
            /\ UNCHANGED cache
       ELSE /\ launch' = [launch EXCEPT ![l] = AfterAccount(x, x.reply)]
            /\ cache' = Store(cache, [key \in {AccountKey(x.email)} |-> x.reply])
    /\ UNCHANGED <<opPath, resolver, trusted, drops, quietEra>>

ItemsReturn(l) ==
    /\ Returned(l, "items")
    /\ launch' = [launch EXCEPT ![l] =
            IF @.reply = Unset THEN Ends(@, "error") ELSE Execs(@, "credential")]
    /\ UNCHANGED <<cache, opPath, resolver, trusted, drops, quietEra>>

CredentialReturns(l) ==
    LET x == launch[l] IN
    /\ Returned(l, "credential")
    /\ IF x.reply = Unset
       THEN /\ launch' = [launch EXCEPT ![l] = Ends(x, "error")]
            /\ UNCHANGED cache
       ELSE /\ launch' = [launch EXCEPT ![l] = AfterToken(x, x.reply)]
            /\ cache' = Store(cache, [key \in {TokenKey(x.tag)} |-> x.reply])
    /\ UNCHANGED <<opPath, resolver, trusted, drops, quietEra>>

Answered(x) == {r \in Refs : x.injected[r] # Unset}

(* A bug: some answers are enough. *)
CompleteEnough(x) == Answered(x) # {}

(* One value missing fails the launch before anything is cached. *)
Complete(x) == Missing(x) \subseteq Answered(x)

InjectReturns(l) ==
    LET x == launch[l]
        fresh == [k \in {RefKey(x.account, x.tag, r) : r \in Answered(x)} |->
                    x.injected[k[4]]]
    IN /\ Returned(l, "inject")
       /\ IF Complete(x)
          THEN /\ cache' = Store(cache, fresh)
               /\ launch' = [launch EXCEPT ![l] =
                    Ends([x EXCEPT !.served = AddAll(x.served, x.injected)], "config")]
          ELSE /\ launch' = [launch EXCEPT ![l] = Ends(x, "error")]
               /\ UNCHANGED cache
       /\ UNCHANGED <<opPath, resolver, trusted, drops, quietEra>>

(* op is missing, exits with an error or prints no JSON; or, at any moment   *)
(* of an inject call, its template file cannot be made, written or removed.  *)
OpFails(l) ==
    /\ \/ launch[l].pc \in OpStages /\ Waiting(launch[l])
       \/ launch[l].pc = "inject"
    /\ launch' = [launch EXCEPT ![l] = Ends(@, "error")]
    /\ UNCHANGED <<cache, opPath, resolver, trusted, drops, quietEra>>

(* VS Code cancels the launch while resolve() runs. *)
Cancel(l) ==
    /\ launch[l].pc \notin {"idle", "done"} /\ ~launch[l].aborted
    /\ launch' = [launch EXCEPT ![l].aborted = TRUE]
    /\ UNCHANGED <<cache, opPath, resolver, trusted, drops, quietEra>>

(* A bug: the signal reaches op inject only. *)
AbortableInject == {"inject"}

(* Children that are handed the AbortSignal. *)
Abortable == {"git", "accounts", "items", "credential", "inject"}

AbortOutcome(stage) == IF stage = "inject" THEN "cancelled" ELSE "abortError"

(* The AbortSignal kills the running child, or one that starts after the     *)
(* cancellation; a child that has answered may or may not be gone already.   *)
ExecAborts(l) ==
    /\ launch[l].pc \in Abortable /\ launch[l].aborted
    /\ launch' = [launch EXCEPT ![l] = Ends(@, AbortOutcome(@.pc))]
    /\ UNCHANGED <<cache, opPath, resolver, trusted, drops, quietEra>>

-----------------------------------------------------------------------------
(* Session actions. *)

InFlight == \E l \in Launches : launch[l].pc \notin {"idle", "done"}

(* A bug: tokens and accounts are dropped, resolved refs stay. *)
ClearedLookups(entries) ==
    [key \in {k \in DOMAIN entries : k[1] = "resolved-ref"} |-> entries[key]]

Cleared(entries) == NoEntries

DropCache ==
    /\ drops < MaxDrops
    /\ cache' = Cleared(cache)
    /\ drops' = drops + 1
    /\ quietEra' = IF InFlight THEN quietEra ELSE drops + 1

ClearCache == DropCache /\ UNCHANGED <<launch, opPath, resolver, trusted>>

(* A bug: the resolver is built once. *)
KeepResolver(current, setting) == current

(* A bug: the old resolver is dropped and no new one is built. *)
DropResolver(current, setting) == Unset

RefreshResolver(current, setting) == setting

(* The opPath setting changes: the cache is cleared and the provider builds  *)
(* a resolver for the new binary; launches in flight keep the old one.       *)
ChangeOpPath ==
    /\ DropCache
    /\ opPath' \in OpPaths \ {opPath}
    /\ resolver' = RefreshResolver(resolver, opPath')
    /\ UNCHANGED <<launch, trusted>>

GrantTrust ==
    /\ ~trusted /\ trusted' = TRUE
    /\ UNCHANGED <<launch, cache, opPath, resolver, drops, quietEra>>

OpReturns(l) ==
    AccountsReturn(l) \/ ItemsReturn(l) \/ CredentialReturns(l) \/ InjectReturns(l)

LaunchStep(l) ==
    \/ \E request \in Requests : Start(l, request)
    \/ EnvFileReturns(l) \/ GitReturns(l) \/ LookupAnswers(l) \/ InjectAnswers(l) \/ OpReturns(l)
    \/ OpFails(l) \/ Cancel(l) \/ ExecAborts(l)

Next ==
    \/ \E l \in Launches : LaunchStep(l)
    \/ ClearCache \/ ChangeOpPath \/ GrantTrust

Spec == Init /\ [][Next]_vars

(* What the extension host itself runs: file reads end, output that a child  *)
(* wrote is delivered, an aborted child is reaped.  Nothing is assumed of op *)
(* (it may wait for a prompt for ever), of the user or of git.               *)
HostFairness ==
    \A l \in Launches : /\ WF_vars(EnvFileReturns(l))
                        /\ WF_vars(OpReturns(l))
                        /\ WF_vars(ExecAborts(l))

FairSpec == Spec /\ HostFairness

-----------------------------------------------------------------------------
(***************************************************************************)
(* Properties.                                                             *)
(***************************************************************************)

LaunchState ==
    [pc: Stages, request: Requests \cup {Unset}, op: OpPaths \cup {Unset}, era: Nat,
     env: EnvMaps, email: EnvValues \cup {Unset}, account: EnvValues \cup {Unset},
     tag: EnvValues \cup {Unset}, token: Token \cup {Unset}, served: ServedMaps,
     replied: BOOLEAN, reply: EnvValues \cup {Unset} \cup Token,
     injected: ServedMaps, aborted: BOOLEAN, outcome: Outcomes]

(* The variables hold what the code's locals, cache and settings hold.       *)
TypeOK ==
    /\ launch \in [Launches -> LaunchState]
    /\ opPath \in OpPaths /\ resolver \in OpPaths
    /\ trusted \in BOOLEAN
    /\ drops \in 0..MaxDrops /\ quietEra \in 0..drops

(* A value is what a launch scoped to this account and tag may see: it is    *)
(* the ref's, read with a token of exactly this tag, and without a tag read  *)
(* in exactly this account.                                                  *)
InScope(value, account, tag, ref) ==
    /\ value \in Value
    /\ value.ref = ref
    /\ value.tag = tag
    /\ tag = Unset => value.owner = Owner(account)

(* However launches, clears and setting changes interleave, every cached     *)
(* ref is filed under the scope it was read in, every token under its tag,   *)
(* and every account id is the one of its e-mail (resolverCache.ts).         *)
CacheTruthful ==
    /\ \A account, tag \in EnvValues \cup {Unset} : \A ref \in Refs :
          RefKey(account, tag, ref) \in DOMAIN cache =>
            InScope(cache[RefKey(account, tag, ref)], account, tag, ref)
    /\ \A tag \in EnvValues : TokenKey(tag) \in DOMAIN cache =>
          cache[TokenKey(tag)] \in Token /\ cache[TokenKey(tag)].tag = tag
    /\ \A email \in EnvValues : AccountKey(email) \in DOMAIN cache =>
          /\ email \in Emails
          /\ cache[AccountKey(email)] = AccountOf[email]
          /\ AccountOf[email] # Unset

Configured(l) == launch[l].outcome = "config"

(* A configuration that is returned holds, for every variable that names a   *)
(* ref, a value of that ref read under the launch's own account and tag,     *)
(* whichever launch read it and wherever it was cached meanwhile.            *)
ServedInScope ==
    \A l \in Launches : Configured(l) =>
        LET x == launch[l] IN
        \A k \in EnvKeys : x.env[k] \in Refs /\ FinalEnv(x)[k] \notin Refs \cup {Unset}
            => InScope(FinalEnv(x)[k], x.account, x.tag, x.env[k])

(* resolve() is all or nothing: no returned configuration still holds an     *)
(* op:// reference, even when op answered for only some of them.             *)
AllOrNothing ==
    \A l \in Launches : Configured(l) =>
        \A k \in EnvKeys : FinalEnv(launch[l])[k] \notin Refs

(* What a request says on its own: the environments it can mean, the e-mails  *)
(* and the accounts it can be resolved under, and its tag.                    *)
EnvsOf(request) ==
    {[k \in EnvKeys |-> IF EnvOf(request)[k] # Unset THEN EnvOf(request)[k] ELSE file[k]] :
        file \in {NoEnv} \cup ({request.file} \ {Unset})}

EmailsOf(env) ==
    IF IsSet(Effective(env, "GIT_CONFIG")) THEN Emails
    ELSE {Effective(env, "EMAIL")} \ {Unset, Empty}

AccountsOf(env) ==
    IF EmailsOf(env) # {} THEN {AccountOf[email] : email \in EmailsOf(env) \cap Emails} \ {Unset}
    ELSE {IF IsSet(Effective(env, "ACCOUNT_ID")) THEN Effective(env, "ACCOUNT_ID") ELSE Unset}

TagOf(env) == IF IsSet(Effective(env, "TOKEN_TAG")) THEN Effective(env, "TOKEN_TAG") ELSE Unset

(* The answer to a launch, as VS Code gets it.                                *)
AnswerOf(x) ==
    [outcome |-> x.outcome, env |-> IF x.outcome = "config" THEN FinalEnv(x) ELSE NoEnv]

(* Each ref that is kept gives way to a value of its scope, and nothing else  *)
(* changes.                                                                   *)
Resolves(final, env, account) ==
    \A k \in EnvKeys :
        LET value == Sanitized(env)[k] IN
        IF value \in Refs THEN InScope(final[k], account, TagOf(env), value) ELSE final[k] = value

Promised(request, answer, cancelled) ==
    /\ answer.outcome \in Outcomes \ {"pending"}
    /\ answer.outcome = "unchanged" <=> request.env = Unset /\ request.file = Unset
    /\ answer.outcome \in {"cancelled", "abortError"} => cancelled
    /\ answer.outcome = "config" =>
          \E env \in EnvsOf(request) : \E account \in AccountsOf(env) :
              Resolves(answer.env, env, account)

WithoutOp(answer) == answer.outcome \in {"unchanged", "error"}

(* Whatever else is in flight or cached: a launch is answered at most once,   *)
(* with an env that its own request determines up to the values op holds; it  *)
(* is told of a cancellation only when it was cancelled, and nothing runs in  *)
(* an untrusted workspace (resolveLaunchConfig.ts, configProvider.ts).        *)
Contract == INSTANCE LaunchContract
    WITH asked <- [l \in Launches |-> launch[l].request],
         answer <- [l \in Launches |-> AnswerOf(launch[l])],
         cancelled <- [l \in Launches |-> launch[l].aborted],
         None <- Unset, Pending <- AnswerOf(IdleLaunch)
ImplementsContract == Contract!Spec

CachedValues == {cache[k] : k \in {k \in DOMAIN cache : k[1] = "resolved-ref"}}

(* A clear, or a new opPath, with no launch in flight leaves nothing behind: *)
(* whatever is cached later was read by a launch that started after it.      *)
QuietDropIsComplete == \A value \in CachedValues : value.era >= quietEra

(* A launch that started after the last clear or opPath change ran the       *)
(* binary the setting names now, so what it caches was read by that binary.  *)
RunsConfiguredOp ==
    \A value \in CachedValues : value.era = drops => value.op = opPath

(* A cancelled launch ends although op may never answer: every child it      *)
(* waits for, or starts later, is handed the AbortSignal.                    *)
CancelledLaunchEnds ==
    \A l \in Launches : launch[l].aborted ~> launch[l].pc = "done"

(* README.md says Clear Cache drops every cached value so that the next      *)
(* launch fetches a fresh one: after a clear the cache would then hold only  *)
(* what launches started since have read.  An inject call in flight during   *)
(* the clear stores its older value afterwards.                              *)
FreshAfterDrop == \A value \in CachedValues : value.era = drops

(* resolverCache.ts says that launches pinned to different accounts cannot   *)
(* poison each other, so a launch would be served values of its own account. *)
(* Tokens are cached by tag alone: two accounts that use one tag share one.  *)
PinnedAccountServed ==
    \A l \in Launches : Configured(l) =>
        \A r \in Refs : launch[l].served[r] # Unset =>
            launch[l].served[r].owner = Owner(launch[l].account)

=============================================================================
