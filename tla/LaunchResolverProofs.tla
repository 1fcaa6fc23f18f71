------------------------ MODULE LaunchResolverProofs ------------------------
(***************************************************************************)
(* What the launch resolver guarantees for any launches, requests,         *)
(* settings and vault: the cache stays truthful, every configuration it    *)
(* returns is complete and served from its own scope, and resolve() keeps  *)
(* the promise of LaunchContract.                                          *)
(***************************************************************************)
EXTENDS LaunchResolver, TLAPS

(* Every value of a map is one that launch x may be served. *)
ServedOK(x, map) ==
    \A r \in Refs : map[r] # Unset => InScope(map[r], x.account, x.tag, r)

(* A launch that has left "idle" keeps its request and its op binary. *)
Running(x) == x \in LaunchState /\ x.op \in OpPaths /\ x.request \in Requests

(* The token in hand is one of the launch's tag; without a token there is no *)
(* tag, or nothing to resolve.                                               *)
TokenOK(x, token) ==
    /\ token \in Token \cup {Unset}
    /\ token # Unset => token.tag = x.tag
    /\ token = Unset => x.tag = Unset \/ OpRefsOf(x.env) = {}

AccountsOK(x) ==
    /\ x.email \in EnvValues
    /\ x.reply # Unset => x.email \in Emails /\ x.reply = AccountOf[x.email]

CredentialOK(x) ==
    /\ x.tag \in EnvValues
    /\ x.reply # Unset => x.reply \in Token /\ x.reply.tag = x.tag

InjectOK(x) ==
    /\ x.token # Unset => x.token.tag = x.tag
    /\ x.token = Unset => x.tag = Unset
    /\ ServedOK(x, x.served)
    /\ ServedOK(x, x.injected)

(* The inductive invariant of one launch: what its locals hold at each await. *)
LaunchInv(x) ==
    /\ x \in LaunchState
    /\ x.pc # "idle" => Running(x)
    /\ x.pc # "done" => x.outcome = "pending"
    /\ x.pc = "envFile" => x.request.file # Unset
    /\ x.pc = "accounts" => AccountsOK(x)
    /\ x.pc = "items" => x.tag \in EnvValues
    /\ x.pc = "credential" => CredentialOK(x)
    /\ x.pc = "inject" => InjectOK(x)
    /\ x.outcome = "config" => x.pc = "done" /\ Missing(x) = {} /\ ServedOK(x, x.served)

IInv ==
    /\ TypeOK
    /\ CacheTruthful
    /\ \A l \in Launches : LaunchInv(launch[l])

-----------------------------------------------------------------------------
(* A pending launch is one that has not ended. *)
Pending(x) == Running(x) /\ x.outcome = "pending"

LEMMA NoValuesType == NoValues \in ServedMaps /\ NoEnv \in EnvMaps
  BY DEF NoValues, ServedMaps, NoEnv, EnvMaps

(* An end without a configuration needs nothing of the launch. *)
LEMMA EndsInv ==
  ASSUME NEW x, Running(x),
         NEW outcome \in {"unchanged", "error", "abortError", "cancelled"}
  PROVE  LaunchInv(Ends(x, outcome))
  <1> DEFINE y == Ends(x, outcome)
  <1>0. outcome \in Outcomes /\ "done" \in Stages
    BY DEF Outcomes, Stages
  <1>1. y \in LaunchState /\ y.op = x.op /\ y.request = x.request
    BY <1>0 DEF Ends, Running, LaunchState
  <1>2. y.pc = "done" /\ y.outcome = outcome
    BY DEF Ends, Running, LaunchState
  <1>3. QED BY <1>1, <1>2 DEF LaunchInv, Running

(* What Execs changes and keeps. *)
LEMMA ExecsFields ==
  ASSUME NEW x, Running(x), NEW stage \in Stages
  PROVE  LET y == Execs(x, stage) IN
         /\ Running(y)
         /\ y.pc = stage /\ y.reply = Unset /\ y.injected = NoValues
         /\ y.request = x.request /\ y.env = x.env /\ y.email = x.email
         /\ y.account = x.account /\ y.tag = x.tag /\ y.token = x.token
         /\ y.served = x.served /\ y.outcome = x.outcome
  BY NoValuesType DEF Execs, Running, LaunchState

LEMMA KeptAreRefs ==
  ASSUME NEW env \in EnvMaps
  PROVE  KeptRefs(env) \subseteq OpRefsOf(env) /\ KeptRefs(env) \subseteq Refs
  <1>1. \A k \in EnvKeys : Sanitized(env)[k] \in {env[k], Unset}
    BY DEF Sanitized
  <1>2. Unset \notin Refs
    BY ConstantsAssumption DEF EnvValues
  <1>3. QED BY <1>1, <1>2 DEF KeptRefs, OpRefsOf


(* A configuration is only returned with every ref resolved and in scope. *)
LEMMA ConfigInv ==
  ASSUME NEW x, Running(x), Missing(x) = {}, ServedOK(x, x.served)
  PROVE  LaunchInv(Ends(x, "config"))
  <1> DEFINE y == Ends(x, "config")
  <1>1. y \in LaunchState /\ y.op = x.op /\ y.request = x.request
    <2>1. x \in LaunchState /\ "done" \in Stages /\ "config" \in Outcomes
      BY DEF Running, Stages, Outcomes
    <2>2. y \in LaunchState
      BY <2>1 DEF Ends, LaunchState
    <2>3. y.op = x.op /\ y.request = x.request
      BY <2>1 DEF Ends, LaunchState
    <2> QED
      BY <2>2, <2>3
  <1>2. /\ y.pc = "done" /\ y.outcome = "config" /\ y.env = x.env
        /\ y.account = x.account /\ y.tag = x.tag /\ y.served = x.served
    BY DEF Ends, Running, LaunchState
  <1>3. Missing(y) = {} /\ ServedOK(y, y.served)
    BY <1>2 DEF Missing, ServedOK
  <1>4. QED BY <1>1, <1>2, <1>3 DEF LaunchInv, Running

LEMMA AfterTokenInv ==
  ASSUME CacheTruthful, NEW x, Pending(x), NEW token, TokenOK(x, token)
  PROVE  LaunchInv(AfterToken(x, token))
  <1> DEFINE Lookup(r) == IF r \in KeptRefs(x.env)
                          THEN Cached(RefKey(x.account, x.tag, r)) ELSE Unset
             found == [r \in Refs |-> Lookup(r)]
             y == [x EXCEPT !.token = token, !.served = found]
  <1>0. x.account \in EnvValues \cup {Unset} /\ x.tag \in EnvValues \cup {Unset}
    BY DEF Pending, Running, LaunchState
  <1>1. \A r \in Refs : found[r] # Unset => InScope(found[r], x.account, x.tag, r)
    BY <1>0 DEF Cached, CacheTruthful
  <1>2. found \in ServedMaps
    BY <1>1 DEF ServedMaps, InScope
  <1>3. Running(y) /\ y.outcome = "pending"
    BY <1>2 DEF Pending, Running, LaunchState, TokenOK
  <1>4. /\ y.served = found /\ y.token = token /\ y.account = x.account
        /\ y.tag = x.tag /\ y.env = x.env
    BY DEF Pending, Running, LaunchState
  <1>5. ServedOK(y, y.served)
    BY <1>1, <1>4 DEF ServedOK
  <1>6. CASE Missing(y) = {}
    <2>1. AfterToken(x, token) = Ends(y, "config")
      BY <1>6 DEF AfterToken
    <2>2. QED BY <2>1, <1>3, <1>5, <1>6, ConfigInv
  <1>7. CASE Missing(y) # {}
    <2> DEFINE z == Execs(y, "inject")
    <2>1. AfterToken(x, token) = z
      BY <1>7 DEF AfterToken
    <2>2. /\ Running(z) /\ z.pc = "inject" /\ z.injected = NoValues
          /\ z.account = y.account /\ z.tag = y.tag /\ z.token = y.token
          /\ z.served = y.served /\ z.outcome = "pending"
      <3>1. "inject" \in Stages
        BY DEF Stages, ExecStages
      <3> HIDE DEF y
      <3>2. QED BY <3>1, <1>3, ExecsFields
    <2>3. x.env \in EnvMaps
      BY DEF Pending, Running, LaunchState
    <2>4. OpRefsOf(x.env) # {}
      BY <1>4, <1>7, <2>3, KeptAreRefs DEF Missing
    <2>5. InjectOK(z)
      BY <1>4, <1>5, <2>2, <2>4 DEF InjectOK, ServedOK, TokenOK, NoValues
    <2>6. QED BY <2>1, <2>2, <2>5 DEF LaunchInv, Running
  <1>8. QED BY <1>6, <1>7

LEMMA AfterAccountInv ==
  ASSUME CacheTruthful, NEW x, Pending(x), NEW account \in EnvValues \cup {Unset}
  PROVE  LaunchInv(AfterAccount(x, account))
  <1> DEFINE marker == Effective(x.env, "TOKEN_TAG")
             tag == IF IsSet(marker) THEN marker ELSE Unset
             y == [x EXCEPT !.account = account, !.tag = tag]
  <1>1. tag \in EnvValues \cup {Unset}
    <2>1. "TOKEN_TAG" \in Markers /\ "TOKEN_TAG" \in EnvKeys
      BY ConstantsAssumption DEF Markers
    <2>2. x.env["TOKEN_TAG"] \in EnvValues \cup {Unset}
      BY <2>1 DEF Pending, Running, LaunchState, EnvMaps
    <2>3. Settings["TOKEN_TAG"] \in EnvValues
      BY <2>1, ConstantsAssumption
    <2>4. marker \in EnvValues \cup {Unset}
      BY <2>2, <2>3 DEF Effective, Setting
    <2>5. QED BY <2>4
  <1>2. Pending(y) /\ y.tag = tag /\ y.env = x.env
    <2> HIDE DEF tag
    <2>1. x \in LaunchState
      BY DEF Pending, Running
    <2>2. y \in LaunchState
      BY <1>1, <2>1 DEF LaunchState
    <2>3. y.tag = tag /\ y.env = x.env
      BY <2>1 DEF LaunchState
    <2>4. y.op = x.op /\ y.request = x.request /\ y.outcome = x.outcome
      BY <2>1 DEF LaunchState
    <2> QED
      BY <2>2, <2>3, <2>4 DEF Pending, Running
  <1>3. CASE tag = Unset \/ OpRefsOf(x.env) = {}
    <2>1. AfterAccount(x, account) = AfterToken(y, Unset)
      BY <1>3 DEF AfterAccount
    <2>2. TokenOK(y, Unset)
      BY <1>2, <1>3 DEF TokenOK
    <2>3. QED BY <2>1, <2>2, <1>2, AfterTokenInv
  <1>4. CASE ~(tag = Unset \/ OpRefsOf(x.env) = {}) /\ TokenKey(tag) \in DOMAIN cache
    <2>1. AfterAccount(x, account) = AfterToken(y, Cached(TokenKey(tag)))
      BY <1>4 DEF AfterAccount
    <2>2. TokenOK(y, Cached(TokenKey(tag)))
      <3>1. /\ Cached(TokenKey(tag)) \in Token
            /\ Cached(TokenKey(tag)).tag = tag
        BY <1>1, <1>4 DEF Cached, CacheTruthful
      <3>2. Cached(TokenKey(tag)) # Unset
        BY <3>1, ValueAssumption
      <3>3. QED BY <3>1, <3>2, <1>2 DEF TokenOK
    <2>3. QED BY <2>1, <2>2, <1>2, AfterTokenInv
  <1>5. CASE ~(tag = Unset \/ OpRefsOf(x.env) = {}) /\ TokenKey(tag) \notin DOMAIN cache
    <2> DEFINE z == Execs(y, "items")
    <2>1. AfterAccount(x, account) = z
      BY <1>5 DEF AfterAccount
    <2>2. Running(z) /\ z.pc = "items" /\ z.tag = tag /\ z.outcome = "pending"
      <3>1. "items" \in Stages
        BY DEF Stages, ExecStages
      <3> HIDE DEF y, tag
      <3>2. QED BY <3>1, <1>2, ExecsFields DEF Pending
    <2>3. QED BY <1>1, <1>5, <2>1, <2>2 DEF LaunchInv, Running
  <1>6. QED BY <1>3, <1>4, <1>5

LEMMA AfterEmailInv ==
  ASSUME CacheTruthful, NEW x, Pending(x), NEW email \in EnvValues
  PROVE  LaunchInv(AfterEmail(x, email))
  <1> DEFINE y == [x EXCEPT !.email = email]
  <1>1. Pending(y) /\ y.email = email
    BY DEF Pending, Running, LaunchState
  <1> HIDE DEF y
  <1>2. CASE AccountKey(email) \in DOMAIN cache
    <2>1. AfterEmail(x, email) = AfterAccount(y, Cached(AccountKey(email)))
      BY <1>2 DEF AfterEmail, y
    <2>2. Cached(AccountKey(email)) \in EnvValues \cup {Unset}
      BY <1>2, ConstantsAssumption DEF Cached, CacheTruthful, EnvValues
    <2>3. QED BY <2>1, <2>2, <1>1, AfterAccountInv
  <1>3. CASE AccountKey(email) \notin DOMAIN cache
    <2> DEFINE z == Execs(y, "accounts")
    <2>1. AfterEmail(x, email) = z
      BY <1>3 DEF AfterEmail, y
    <2>2. "accounts" \in Stages
      BY DEF Stages, ExecStages
    <2>3. /\ Running(z) /\ z.pc = "accounts" /\ z.email = email
          /\ z.reply = Unset /\ z.outcome = "pending"
      BY <2>2, <1>1, ExecsFields DEF Pending
    <2>4. QED BY <2>1, <2>3 DEF LaunchInv, AccountsOK, Running
  <1>4. QED BY <1>2, <1>3

LEMMA EffectiveType ==
  ASSUME NEW env \in EnvMaps, NEW marker \in Markers
  PROVE  Effective(env, marker) \in EnvValues \cup {Unset}
  BY ConstantsAssumption DEF Effective, Setting, EnvMaps

LEMMA AfterEnvInv ==
  ASSUME CacheTruthful, NEW x, Pending(x), NEW env \in EnvMaps
  PROVE  LaunchInv(AfterEnv(x, env))
  <1> DEFINE y == [x EXCEPT !.env = env]
             dir == Effective(env, "GIT_CONFIG")
             email == Effective(env, "EMAIL")
             id == Effective(env, "ACCOUNT_ID")
  <1>1. Pending(y)
    BY DEF Pending, Running, LaunchState
  <1>2. email \in EnvValues \cup {Unset} /\ id \in EnvValues \cup {Unset}
    BY EffectiveType DEF Markers
  <1>3. AfterEnv(x, env) =
          IF IsSet(dir) THEN IF dir \in OutsideDirs THEN Ends(y, "error")
                             ELSE Execs(y, "git")
          ELSE IF IsSet(email) THEN AfterEmail(y, email)
          ELSE IF IsSet(id) THEN AfterAccount(y, id)
          ELSE AfterAccount(y, Unset)
    BY DEF AfterEnv
  <1> HIDE DEF y, dir, email, id
  <1>4. LaunchInv(Ends(y, "error"))
    BY <1>1, EndsInv DEF Pending
  <1>5. LaunchInv(Execs(y, "git"))
    <2>1. "git" \in Stages
      BY DEF Stages, ExecStages
    <2>2. QED BY <2>1, <1>1, ExecsFields DEF Pending, LaunchInv, Running
  <1>6. ASSUME IsSet(email) PROVE LaunchInv(AfterEmail(y, email))
    BY <1>1, <1>2, <1>6, AfterEmailInv DEF IsSet
  <1>7. LaunchInv(AfterAccount(y, id)) /\ LaunchInv(AfterAccount(y, Unset))
    BY <1>1, <1>2, AfterAccountInv
  <1>8. QED BY <1>3, <1>4, <1>5, <1>6, <1>7

-----------------------------------------------------------------------------
(* The actions.  Each step of launch l replaces launch[l] by a good launch. *)

LEMMA OneLaunch ==
  ASSUME IInv, NEW l \in Launches, NEW z, LaunchInv(z),
         launch' = [launch EXCEPT ![l] = z]
  PROVE  /\ launch' \in [Launches -> LaunchState]
         /\ \A m \in Launches : LaunchInv(launch'[m])
  <1>1. z \in LaunchState
    BY DEF LaunchInv
  <1>2. QED BY <1>1 DEF IInv, TypeOK

(* A launch that waits for something has its request and is not over. *)
LEMMA WaitingIsPending ==
  ASSUME IInv, NEW l \in Launches, launch[l].pc \notin {"idle", "done"}
  PROVE  Pending(launch[l]) /\ LaunchInv(launch[l])
  BY DEF IInv, LaunchInv, Pending

LEMMA StartInv ==
  ASSUME IInv, NEW l \in Launches, NEW request \in Requests, Start(l, request)
  PROVE  IInv'
  <1> DEFINE x == [IdleLaunch EXCEPT !.request = request, !.op = resolver, !.era = drops]
             z == IF request.env = Unset /\ request.file = Unset THEN Ends(x, "unchanged")
                  ELSE IF ~trusted THEN Ends(x, "error")
                  ELSE IF request.file # Unset THEN Execs(x, "envFile")
                  ELSE AfterEnv(x, EnvOf(request))
  <1>1. Pending(x) /\ x.request = request
    <2>1. "idle" \in Stages /\ "pending" \in Outcomes
      BY DEF Stages, Outcomes
    <2>2. resolver \in OpPaths /\ drops \in Nat
      BY ConstantsAssumption DEF IInv, TypeOK
    <2>3. x \in LaunchState
      BY <2>1, <2>2, NoValuesType DEF IdleLaunch, LaunchState
    <2>4. x.op = resolver /\ x.request = request /\ x.outcome = "pending"
      BY DEF IdleLaunch
    <2>5. QED BY <2>2, <2>3, <2>4 DEF Pending, Running
  <1>2. EnvOf(request) \in EnvMaps
    BY ConstantsAssumption, NoValuesType DEF EnvOf
  <1>3. launch' = [launch EXCEPT ![l] = z]
    BY DEF Start
  <1> HIDE DEF x
  <1>4. LaunchInv(Ends(x, "unchanged")) /\ LaunchInv(Ends(x, "error"))
    BY <1>1, EndsInv DEF Pending
  <1>5. request.file # Unset => LaunchInv(Execs(x, "envFile"))
    <2>1. "envFile" \in Stages
      BY DEF Stages
    <2>2. QED BY <2>1, <1>1, ExecsFields DEF Pending, LaunchInv, Running
  <1>6. LaunchInv(AfterEnv(x, EnvOf(request)))
    BY <1>1, <1>2, AfterEnvInv DEF IInv
  <1>7. LaunchInv(z)
    BY <1>4, <1>5, <1>6
  <1>8. UNCHANGED <<cache, opPath, resolver, trusted, drops, quietEra>>
    BY DEF Start
  <1> HIDE DEF z
  <1>9. QED BY <1>3, <1>7, <1>8, OneLaunch DEF IInv, TypeOK, CacheTruthful

LEMMA AddAllType ==
  ASSUME NEW map \in EnvMaps, NEW other \in EnvMaps
  PROVE  AddAll(map, other) \in EnvMaps
  BY DEF AddAll, EnvMaps

LEMMA EnvFileInv ==
  ASSUME IInv, NEW l \in Launches, EnvFileReturns(l)
  PROVE  IInv'
  <1> DEFINE x == launch[l]
  <1>1. Pending(x) /\ x.request \in Requests /\ x.request.file # Unset
    BY WaitingIsPending DEF EnvFileReturns, Pending, Running, LaunchInv
  <1>2. EnvOf(x.request) \in EnvMaps /\ x.request.file \in EnvMaps
    BY <1>1, ConstantsAssumption, NoValuesType DEF EnvOf
  <1>3. \A file \in {x.request.file, NoEnv} : AddAll(file, EnvOf(x.request)) \in EnvMaps
    BY <1>2, AddAllType, NoValuesType
  <1>4. \A file \in {x.request.file, NoEnv} :
          LaunchInv(AfterEnv(x, AddAll(file, EnvOf(x.request))))
    BY <1>1, <1>3, AfterEnvInv DEF IInv
  <1>5. LaunchInv(Ends(x, "error"))
    BY <1>1, EndsInv DEF Pending
  <1>6. PICK z : LaunchInv(z) /\ launch' = [launch EXCEPT ![l] = z]
    BY <1>4, <1>5 DEF EnvFileReturns
  <1>7. UNCHANGED <<cache, opPath, resolver, trusted, drops, quietEra>>
    BY DEF EnvFileReturns
  <1>8. QED BY <1>6, <1>7, OneLaunch DEF IInv, TypeOK, CacheTruthful

LEMMA GitInv ==
  ASSUME IInv, NEW l \in Launches, GitReturns(l)
  PROVE  IInv'
  <1> DEFINE x == launch[l]
  <1>1. Pending(x)
    BY WaitingIsPending DEF GitReturns
  <1>2. \A email \in Emails : LaunchInv(AfterEmail(x, email))
    BY <1>1, AfterEmailInv DEF IInv, EnvValues
  <1>3. LaunchInv(Ends(x, "error"))
    BY <1>1, EndsInv DEF Pending
  <1>4. PICK z : LaunchInv(z) /\ launch' = [launch EXCEPT ![l] = z]
    BY <1>2, <1>3 DEF GitReturns
  <1>5. UNCHANGED <<cache, opPath, resolver, trusted, drops, quietEra>>
    BY DEF GitReturns
  <1>6. QED BY <1>4, <1>5, OneLaunch DEF IInv, TypeOK, CacheTruthful

(* OpFails and ExecAborts end a waiting launch. *)
LEMMA EndingInv ==
  ASSUME IInv, NEW l \in Launches, OpFails(l) \/ ExecAborts(l)
  PROVE  IInv'
  <1>1. launch[l].pc \notin {"idle", "done"}
    BY DEF OpFails, ExecAborts, OpStages, LookupStages, Abortable
  <1>2. PICK outcome \in {"error", "abortError", "cancelled"} :
          launch' = [launch EXCEPT ![l] = Ends(launch[l], outcome)]
    BY DEF OpFails, ExecAborts, AbortOutcome, IInv, TypeOK
  <1>3. LaunchInv(Ends(launch[l], outcome))
    BY <1>1, WaitingIsPending, EndsInv DEF Pending
  <1>4. UNCHANGED <<cache, opPath, resolver, trusted, drops, quietEra>>
    BY DEF OpFails, ExecAborts
  <1>5. QED BY <1>2, <1>3, <1>4, OneLaunch DEF IInv, TypeOK, CacheTruthful

LEMMA OwnerType ==
  ASSUME NEW account \in EnvValues \cup {Unset}
  PROVE  Owner(account) \in EnvValues
  BY ConstantsAssumption DEF Owner, EnvValues

(* A lookup's answer: only the reply changes. *)
LEMMA LookupAnswersInv ==
  ASSUME IInv, NEW l \in Launches, LookupAnswers(l)
  PROVE  IInv'
  <1> DEFINE x == launch[l]
  <1>1. Pending(x) /\ LaunchInv(x) /\ x.pc \in LookupStages
    BY WaitingIsPending DEF LookupAnswers, LookupStages
  <1>2. PICK reply \in Replies(x) :
          launch' = [launch EXCEPT ![l].replied = TRUE, ![l].reply = reply]
    BY DEF LookupAnswers
  <1> DEFINE z == [x EXCEPT !.replied = TRUE, !.reply = reply]
  <1>3. launch' = [launch EXCEPT ![l] = z]
    BY <1>2 DEF IInv, TypeOK
  <1>4. x.tag \in EnvValues \cup {Unset} /\ Owner(x.account) \in EnvValues
    BY <1>1, OwnerType DEF Pending, Running, LaunchState
  <1>5. LaunchInv(z)
    <2>1. CASE x.pc = "accounts"
      <3>1. reply = IF x.email \in Emails THEN AccountOf[x.email] ELSE Unset
        BY <1>2, <2>1 DEF Replies
      <3>2. reply \in EnvValues \cup {Unset}
        BY <3>1, ConstantsAssumption DEF EnvValues
      <3>3. Running(z) /\ z.outcome = "pending"
        BY <1>1, <3>2 DEF Pending, Running, LaunchState
      <3>4. z.pc = "accounts" /\ z.email = x.email /\ z.reply = reply
        BY <1>1, <2>1 DEF Pending, Running, LaunchState
      <3>5. AccountsOK(z)
        BY <1>1, <2>1, <3>1, <3>4 DEF AccountsOK, LaunchInv
      <3>6. QED BY <3>3, <3>4, <3>5 DEF LaunchInv, Running
    <2>2. CASE x.pc = "items"
      <3>1. reply \in EnvValues \cup {Unset}
        BY <1>2, <1>4, <2>2 DEF Replies
      <3>2. Running(z) /\ z.outcome = "pending"
        BY <1>1, <3>1 DEF Pending, Running, LaunchState
      <3>3. z.pc = "items" /\ z.tag = x.tag
        BY <1>1, <2>2 DEF Pending, Running, LaunchState
      <3>4. QED BY <1>1, <2>2, <3>2, <3>3 DEF LaunchInv, Running
    <2>3. CASE x.pc = "credential"
      <3>1. x.tag \in EnvValues
        BY <1>1, <2>3 DEF LaunchInv, CredentialOK
      <3>2. reply # Unset => reply \in Token /\ reply.tag = x.tag
        BY <1>2, <1>4, <2>3, <3>1 DEF Replies, Token
      <3>3. Running(z) /\ z.outcome = "pending"
        BY <1>1, <3>2 DEF Pending, Running, LaunchState
      <3>4. z.pc = "credential" /\ z.tag = x.tag /\ z.reply = reply
        BY <1>1, <2>3 DEF Pending, Running, LaunchState
      <3>5. QED BY <3>1, <3>2, <3>3, <3>4 DEF LaunchInv, Running, CredentialOK
    <2>4. QED BY <1>1, <2>1, <2>2, <2>3 DEF LookupStages
  <1>6. UNCHANGED <<cache, opPath, resolver, trusted, drops, quietEra>>
    BY DEF LookupAnswers
  <1> HIDE DEF z
  <1>7. QED BY <1>3, <1>5, <1>6, OneLaunch DEF IInv, TypeOK, CacheTruthful

(* What op inject reads is in the scope of the launch that asked. *)
LEMMA InjectAnswersInv ==
  ASSUME IInv, NEW l \in Launches, InjectAnswers(l)
  PROVE  IInv'
  <1> DEFINE x == launch[l]
  <1>1. Pending(x) /\ LaunchInv(x) /\ x.pc = "inject"
    BY WaitingIsPending DEF InjectAnswers
  <1>2. PICK got \in SUBSET Missing(x) :
          launch' = [launch EXCEPT ![l].replied = TRUE, ![l].injected =
              [r \in Refs |-> IF r \in got THEN VaultValue(x, r) ELSE Unset]]
    BY DEF InjectAnswers
  <1> DEFINE map == [r \in Refs |-> IF r \in got THEN VaultValue(x, r) ELSE Unset]
             z == [x EXCEPT !.replied = TRUE, !.injected = map]
  <1>3. launch' = [launch EXCEPT ![l] = z]
    BY <1>2 DEF IInv, TypeOK
  <1>4. InjectOK(x)
    BY <1>1 DEF LaunchInv
  <1>5. ASSUME NEW r \in Refs PROVE InScope(VaultValue(x, r), x.account, x.tag, r)
    <2>1. /\ x.account \in EnvValues \cup {Unset} /\ x.tag \in EnvValues \cup {Unset}
          /\ x.token \in Token \cup {Unset} /\ x.op \in OpPaths /\ x.era \in Nat
      BY <1>1 DEF Pending, Running, LaunchState
    <2>2. Owner(x.account) \in EnvValues
      BY <2>1, OwnerType
    <2>3. CASE x.token = Unset
      BY <2>1, <2>2, <2>3, <1>4 DEF VaultValue, InScope, InjectOK, Value
    <2>4. CASE x.token # Unset
      <3>1. x.token.owner \in EnvValues /\ x.token.tag \in EnvValues /\ x.token.tag = x.tag
        BY <2>1, <2>4, <1>4 DEF Token, InjectOK
      <3>2. x.tag # Unset
        BY <3>1, ConstantsAssumption
      <3>3. QED BY <2>1, <2>4, <3>1, <3>2 DEF VaultValue, InScope, Value
    <2>5. QED BY <2>3, <2>4
  <1>6. map \in ServedMaps
    BY <1>5 DEF ServedMaps, InScope
  <1>7. \A r \in Refs : map[r] # Unset => InScope(map[r], x.account, x.tag, r)
    BY <1>5
  <1> HIDE DEF map
  <1>8. Running(z) /\ z.outcome = "pending" /\ z.pc = "inject"
    BY <1>1, <1>6 DEF Pending, Running, LaunchState
  <1>9. /\ z.account = x.account /\ z.tag = x.tag /\ z.token = x.token
        /\ z.served = x.served /\ z.injected = map
    BY <1>1, <1>6 DEF Pending, Running, LaunchState
  <1>10. InjectOK(z)
    BY <1>4, <1>7, <1>9 DEF InjectOK, ServedOK
  <1>11. LaunchInv(z)
    BY <1>8, <1>10 DEF LaunchInv, Running
  <1>12. UNCHANGED <<cache, opPath, resolver, trusted, drops, quietEra>>
    BY DEF InjectAnswers
  <1> HIDE DEF z
  <1>13. QED BY <1>3, <1>11, <1>12, OneLaunch DEF IInv, TypeOK, CacheTruthful

LEMMA AccountsReturnInv ==
  ASSUME IInv, NEW l \in Launches, AccountsReturn(l)
  PROVE  IInv'
  <1> DEFINE x == launch[l]
  <1>1. Pending(x) /\ LaunchInv(x) /\ x.pc = "accounts"
    BY WaitingIsPending DEF AccountsReturn, Returned
  <1>2. UNCHANGED <<opPath, resolver, trusted, drops, quietEra>>
    BY DEF AccountsReturn
  <1>3. CASE x.reply = Unset
    <2>1. launch' = [launch EXCEPT ![l] = Ends(x, "error")] /\ cache' = cache
      BY <1>3 DEF AccountsReturn
    <2>2. LaunchInv(Ends(x, "error"))
      BY <1>1, EndsInv DEF Pending
    <2>3. QED BY <2>1, <2>2, <1>2, OneLaunch DEF IInv, TypeOK, CacheTruthful
  <1>4. CASE x.reply # Unset
    <2>1. x.email \in Emails /\ x.reply = AccountOf[x.email] /\ x.reply \in EnvValues
      BY <1>1, <1>4, ConstantsAssumption DEF LaunchInv, AccountsOK, EnvValues
    <2>2. /\ launch' = [launch EXCEPT ![l] = AfterAccount(x, x.reply)]
          /\ cache' = Store(cache, [key \in {AccountKey(x.email)} |-> x.reply])
      BY <1>4 DEF AccountsReturn
    <2>3. LaunchInv(AfterAccount(x, x.reply))
      BY <1>1, <2>1, AfterAccountInv DEF IInv
    <2>4. CacheTruthful'
      BY <1>4, <2>1, <2>2 DEF IInv, CacheTruthful, AccountKey, RefKey, TokenKey, Store
    <2>5. QED BY <2>2, <2>3, <2>4, <1>2, OneLaunch DEF IInv, TypeOK
  <1>5. QED BY <1>3, <1>4

LEMMA ItemsReturnInv ==
  ASSUME IInv, NEW l \in Launches, ItemsReturn(l)
  PROVE  IInv'
  <1> DEFINE x == launch[l]
  <1>1. Pending(x) /\ LaunchInv(x) /\ x.pc = "items"
    BY WaitingIsPending DEF ItemsReturn, Returned
  <1>2. LaunchInv(Ends(x, "error"))
    BY <1>1, EndsInv DEF Pending
  <1>3. LaunchInv(Execs(x, "credential"))
    <2>1. "credential" \in Stages
      BY DEF Stages, ExecStages
    <2>2. LET z == Execs(x, "credential") IN
          /\ Running(z) /\ z.pc = "credential" /\ z.tag = x.tag /\ z.reply = Unset
          /\ z.outcome = "pending"
      BY <2>1, <1>1, ExecsFields DEF Pending
    <2>3. QED BY <2>2, <1>1 DEF LaunchInv, CredentialOK, Running
  <1>4. PICK z : LaunchInv(z) /\ launch' = [launch EXCEPT ![l] = z]
    BY <1>2, <1>3 DEF ItemsReturn, IInv, TypeOK
  <1>5. UNCHANGED <<cache, opPath, resolver, trusted, drops, quietEra>>
    BY DEF ItemsReturn
  <1>6. QED BY <1>4, <1>5, OneLaunch DEF IInv, TypeOK, CacheTruthful

LEMMA CredentialReturnsInv ==
  ASSUME IInv, NEW l \in Launches, CredentialReturns(l)
  PROVE  IInv'
  <1> DEFINE x == launch[l]
  <1>1. Pending(x) /\ LaunchInv(x) /\ x.pc = "credential"
    BY WaitingIsPending DEF CredentialReturns, Returned
  <1>2. UNCHANGED <<opPath, resolver, trusted, drops, quietEra>>
    BY DEF CredentialReturns
  <1>3. CASE x.reply = Unset
    <2>1. launch' = [launch EXCEPT ![l] = Ends(x, "error")] /\ cache' = cache
      BY <1>3 DEF CredentialReturns
    <2>2. LaunchInv(Ends(x, "error"))
      BY <1>1, EndsInv DEF Pending
    <2>3. QED BY <2>1, <2>2, <1>2, OneLaunch DEF IInv, TypeOK, CacheTruthful
  <1>4. CASE x.reply # Unset
    <2>1. x.tag \in EnvValues /\ x.reply \in Token /\ x.reply.tag = x.tag
      BY <1>1, <1>4 DEF LaunchInv, CredentialOK
    <2>2. /\ launch' = [launch EXCEPT ![l] = AfterToken(x, x.reply)]
          /\ cache' = Store(cache, [key \in {TokenKey(x.tag)} |-> x.reply])
      BY <1>4 DEF CredentialReturns
    <2>3. LaunchInv(AfterToken(x, x.reply))
      BY <1>1, <1>4, <2>1, AfterTokenInv DEF IInv, TokenOK
    <2>4. CacheTruthful'
      BY <2>1, <2>2 DEF IInv, CacheTruthful, AccountKey, RefKey, TokenKey, Store
    <2>5. QED BY <2>2, <2>3, <2>4, <1>2, OneLaunch DEF IInv, TypeOK
  <1>5. QED BY <1>3, <1>4

LEMMA InjectReturnsInv ==
  ASSUME IInv, NEW l \in Launches, InjectReturns(l)
  PROVE  IInv'
  <1> DEFINE x == launch[l]
             keys == {RefKey(x.account, x.tag, r) : r \in Answered(x)}
             fresh == [k \in keys |-> x.injected[k[4]]]
             y == [x EXCEPT !.served = AddAll(x.served, x.injected)]
  <1>1. Pending(x) /\ LaunchInv(x) /\ x.pc = "inject"
    BY WaitingIsPending DEF InjectReturns, Returned
  <1>2. UNCHANGED <<opPath, resolver, trusted, drops, quietEra>>
    BY DEF InjectReturns
  <1>3. CASE ~Complete(x)
    <2>1. launch' = [launch EXCEPT ![l] = Ends(x, "error")] /\ cache' = cache
      BY <1>3 DEF InjectReturns
    <2>2. LaunchInv(Ends(x, "error"))
      BY <1>1, EndsInv DEF Pending
    <2>3. QED BY <2>1, <2>2, <1>2, OneLaunch DEF IInv, TypeOK, CacheTruthful
  <1>4. CASE Complete(x)
    <2>1. launch' = [launch EXCEPT ![l] = Ends(y, "config")] /\ cache' = Store(cache, fresh)
      BY <1>4 DEF InjectReturns
    <2>2. InjectOK(x)
      BY <1>1 DEF LaunchInv
    <2>3. /\ x.served \in ServedMaps /\ x.injected \in ServedMaps /\ x.env \in EnvMaps
          /\ x.account \in EnvValues \cup {Unset} /\ x.tag \in EnvValues \cup {Unset}
      BY <1>1 DEF Pending, Running, LaunchState
    <2>4. AddAll(x.served, x.injected) \in ServedMaps
      BY <2>3 DEF AddAll, ServedMaps
    <2>5. /\ Running(y) /\ y.account = x.account /\ y.tag = x.tag /\ y.env = x.env
          /\ y.served = AddAll(x.served, x.injected)
      BY <1>1, <2>4 DEF Pending, Running, LaunchState
    <2>6. ServedOK(y, y.served)
      BY <2>2, <2>3, <2>5 DEF ServedOK, InjectOK, AddAll, ServedMaps
    <2>7. Missing(y) = {}
      <3>1. KeptRefs(x.env) \subseteq Refs
        BY <2>3, KeptAreRefs
      <3>2. \A r \in KeptRefs(x.env) : y.served[r] # Unset
        BY <1>4, <2>3, <2>5, <3>1 DEF Complete, Missing, Answered, AddAll, ServedMaps
      <3>3. QED BY <3>2, <2>5 DEF Missing
    <2>8. LaunchInv(Ends(y, "config"))
      BY <2>5, <2>6, <2>7, ConfigInv
    <2>9. CacheTruthful'
      <3>1. ASSUME NEW account \in EnvValues \cup {Unset},
                   NEW tag \in EnvValues \cup {Unset}, NEW ref \in Refs,
                   RefKey(account, tag, ref) \in DOMAIN cache'
            PROVE  InScope(cache'[RefKey(account, tag, ref)], account, tag, ref)
        <4> DEFINE key == RefKey(account, tag, ref)
        <4>1. CASE key \in keys
          <5>1. PICK r \in Answered(x) : key = RefKey(x.account, x.tag, r)
            BY <4>1
          <5>2. r = ref /\ account = x.account /\ tag = x.tag /\ key[4] = ref
            BY <5>1 DEF RefKey
          <5>3. cache'[key] = x.injected[ref]
            BY <2>1, <4>1, <5>2 DEF Store
          <5>4. QED BY <5>1, <5>2, <5>3, <2>2 DEF InjectOK, ServedOK, Answered
        <4>2. CASE key \notin keys
          <5>1. key \in DOMAIN cache /\ cache'[key] = cache[key]
            BY <2>1, <3>1, <4>2 DEF Store
          <5>2. QED BY <5>1 DEF IInv, CacheTruthful
        <4>3. QED BY <4>1, <4>2
      <3>2. \A v \in EnvValues : TokenKey(v) \notin keys /\ AccountKey(v) \notin keys
        BY DEF TokenKey, AccountKey, RefKey
      <3>3. \A k : k \notin keys /\ k \in DOMAIN cache'
                    => k \in DOMAIN cache /\ cache'[k] = cache[k]
        BY <2>1 DEF Store
      <3> HIDE DEF keys, fresh
      <3>4. QED BY <3>1, <3>2, <3>3 DEF IInv, CacheTruthful
    <2> HIDE DEF y
    <2>10. QED BY <2>1, <2>8, <2>9, <1>2, OneLaunch DEF IInv, TypeOK
  <1>5. QED BY <1>3, <1>4

LEMMA CancelInv ==
  ASSUME IInv, NEW l \in Launches, Cancel(l)
  PROVE  IInv'
  <1> DEFINE x == launch[l]
             z == [x EXCEPT !.aborted = TRUE]
  <1>1. Pending(x) /\ LaunchInv(x)
    BY WaitingIsPending DEF Cancel
  <1>2. launch' = [launch EXCEPT ![l] = z]
    BY DEF Cancel, IInv, TypeOK
  <1>3. Running(z)
    BY <1>1 DEF Pending, Running, LaunchState
  <1>4. /\ z.pc = x.pc /\ z.request = x.request /\ z.env = x.env /\ z.email = x.email
        /\ z.account = x.account /\ z.tag = x.tag /\ z.token = x.token
        /\ z.served = x.served /\ z.reply = x.reply /\ z.injected = x.injected
        /\ z.outcome = x.outcome
    BY <1>1 DEF Pending, Running, LaunchState
  <1> HIDE DEF z
  <1>5. LaunchInv(z)
    BY <1>1, <1>3, <1>4
    DEF LaunchInv, Pending, Running, AccountsOK, CredentialOK, InjectOK, ServedOK, Missing
  <1>6. UNCHANGED <<cache, opPath, resolver, trusted, drops, quietEra>>
    BY DEF Cancel
  <1>7. QED BY <1>2, <1>5, <1>6, OneLaunch DEF IInv, TypeOK, CacheTruthful

LEMMA SessionInv ==
  ASSUME IInv, ClearCache \/ ChangeOpPath \/ GrantTrust
  PROVE  IInv'
  <1>1. CASE ClearCache \/ ChangeOpPath
    <2>1. launch' = launch /\ trusted' = trusted /\ DropCache
      BY <1>1 DEF ClearCache, ChangeOpPath
    <2>2. CacheTruthful'
      BY <2>1 DEF DropCache, Cleared, NoEntries, CacheTruthful
    <2>3. drops' \in 0..MaxDrops /\ quietEra' \in 0..drops'
      BY <2>1, ConstantsAssumption DEF DropCache, IInv, TypeOK
    <2>4. opPath' \in OpPaths /\ resolver' \in OpPaths
      BY <1>1 DEF ClearCache, ChangeOpPath, RefreshResolver, IInv, TypeOK
    <2>5. QED BY <2>1, <2>2, <2>3, <2>4 DEF IInv, TypeOK
  <1>2. CASE GrantTrust
    BY <1>2 DEF GrantTrust, IInv, TypeOK, CacheTruthful
  <1>3. QED BY <1>1, <1>2

-----------------------------------------------------------------------------
LEMMA InitInv == Init => IInv
  <1> SUFFICES ASSUME Init PROVE IInv
    OBVIOUS
  <1>1. IdleLaunch \in LaunchState
    BY NoValuesType DEF IdleLaunch, LaunchState, Stages, Outcomes
  <1>2. IdleLaunch.pc = "idle" /\ IdleLaunch.outcome = "pending"
    BY DEF IdleLaunch
  <1>3. LaunchInv(IdleLaunch)
    BY <1>1, <1>2 DEF LaunchInv
  <1>4. CacheTruthful
    BY DEF Init, NoEntries, CacheTruthful
  <1>5. QED BY <1>1, <1>3, <1>4, ConstantsAssumption DEF Init, IInv, TypeOK

LEMMA NextInv == IInv /\ [Next]_vars => IInv'
  <1> SUFFICES ASSUME IInv, [Next]_vars PROVE IInv'
    OBVIOUS
  <1>1. ASSUME NEW l \in Launches, LaunchStep(l) PROVE IInv'
    BY <1>1, StartInv, EnvFileInv, GitInv, LookupAnswersInv, InjectAnswersInv,
       AccountsReturnInv, ItemsReturnInv, CredentialReturnsInv, InjectReturnsInv,
       EndingInv, CancelInv DEF LaunchStep, OpReturns
  <1>2. CASE UNCHANGED vars
    BY <1>2 DEF vars, IInv, TypeOK, CacheTruthful
  <1>3. QED BY <1>1, <1>2, SessionInv DEF Next

THEOREM Invariance == Spec => []IInv
  BY InitInv, NextInv, PTL DEF Spec

(* The variables always hold what the code's locals, cache and settings hold. *)
THEOREM TypeCorrect == Spec => []TypeOK
  <1>1. IInv => TypeOK
    BY DEF IInv
  <1>2. QED BY <1>1, Invariance, PTL

(* Whatever launches, clears and setting changes interleave, no entry of the *)
(* cache is filed under a scope it was not read in (resolverCache.ts).       *)
THEOREM CacheIsTruthful == Spec => []CacheTruthful
  <1>1. IInv => CacheTruthful
    BY DEF IInv
  <1>2. QED BY <1>1, Invariance, PTL

(* Every variable of a returned configuration that names a ref holds a value *)
(* of that ref, read under the launch's own account and tag.                 *)
THEOREM ServedFromOwnScope == Spec => []ServedInScope
  <1>1. IInv => ServedInScope
    <2> SUFFICES ASSUME IInv, NEW l \in Launches, Configured(l), NEW k \in EnvKeys,
                        launch[l].env[k] \in Refs,
                        FinalEnv(launch[l])[k] \notin Refs \cup {Unset}
                 PROVE  InScope(FinalEnv(launch[l])[k], launch[l].account,
                                launch[l].tag, launch[l].env[k])
      BY DEF ServedInScope
    <2> DEFINE x == launch[l]
    <2>1. ServedOK(x, x.served)
      BY DEF IInv, LaunchInv, Configured
    <2>2. Sanitized(x.env)[k] \in {x.env[k], Unset}
      BY DEF Sanitized
    <2>3. FinalEnv(x)[k] # Sanitized(x.env)[k]
      BY <2>2
    <2>4. Sanitized(x.env)[k] \in Refs /\ FinalEnv(x)[k] = x.served[Sanitized(x.env)[k]]
      BY <2>3 DEF FinalEnv
    <2>5. Sanitized(x.env)[k] = x.env[k]
      BY <2>2, <2>4, ConstantsAssumption DEF EnvValues
    <2>6. QED BY <2>1, <2>4, <2>5 DEF ServedOK
  <1>2. QED BY <1>1, Invariance, PTL

(* No configuration is returned with an op:// reference left in it. *)
THEOREM AllOrNothingHolds == Spec => []AllOrNothing
  <1>1. IInv => AllOrNothing
    <2> SUFFICES ASSUME IInv, NEW l \in Launches, Configured(l), NEW k \in EnvKeys,
                        FinalEnv(launch[l])[k] \in Refs
                 PROVE  FALSE
      BY DEF AllOrNothing
    <2> DEFINE x == launch[l]
               v == Sanitized(x.env)[k]
    <2>1. Missing(x) = {} /\ ServedOK(x, x.served)
      BY DEF IInv, LaunchInv, Configured
    <2>2. CASE v \in Refs
      <3>1. v \in KeptRefs(x.env)
        BY <2>2 DEF KeptRefs, OpRefsOf
      <3>2. x.served[v] # Unset /\ FinalEnv(x)[k] = x.served[v]
        BY <2>1, <2>2, <3>1 DEF Missing, FinalEnv
      <3>3. x.served[v] \in Value
        BY <2>1, <2>2, <3>2 DEF ServedOK, InScope
      <3>4. QED BY <3>2, <3>3, ValueAssumption DEF EnvValues
    <2>3. CASE v \notin Refs
      BY <2>3 DEF FinalEnv
    <2>4. QED BY <2>2, <2>3
  <1>2. QED BY <1>1, Invariance, PTL

-----------------------------------------------------------------------------
(* What clearing the cache and changing the op binary achieve while any       *)
(* launches run: a drop with nothing in flight is complete, and what is       *)
(* cached since the last drop was read by the configured binary.              *)

InFlightLaunch(x) == x.pc \notin {"idle", "done"}

(* Read under era and op, by a launch that counts as started in that era. *)
EraOK(era, op) ==
    /\ quietEra <= era /\ era <= drops
    /\ era = drops => op = opPath

(* Whatever a launch in flight has in hand, it read itself. *)
LaunchEra(x) ==
    InFlightLaunch(x) =>
        /\ EraOK(x.era, x.op)
        /\ \A r \in Refs : x.injected[r] # Unset =>
              x.injected[r].era = x.era /\ x.injected[r].op = x.op

CacheEra ==
    \A k \in DOMAIN cache : k[1] = "resolved-ref" => EraOK(cache[k].era, cache[k].op)

EraInv ==
    /\ resolver = opPath
    /\ CacheEra
    /\ \A l \in Launches : LaunchEra(launch[l])

-----------------------------------------------------------------------------
(* The synchronous stretches keep the launch's era and binary and forget     *)
(* what an earlier inject call answered.                                     *)

Tracked == {"pc", "op", "era", "injected"}

HasTracked(x) == Tracked \subseteq DOMAIN x

Continues(x, y) ==
    \/ y.pc = "done"
    \/ y.era = x.era /\ y.op = x.op /\ y.injected = NoValues

LEMMA StateIsTracked == ASSUME NEW x \in LaunchState PROVE HasTracked(x)
  BY DEF LaunchState, HasTracked, Tracked

LEMMA EndsContinues ==
  ASSUME NEW x, HasTracked(x), NEW outcome
  PROVE  Ends(x, outcome).pc = "done"
  BY DEF Ends, HasTracked, Tracked

LEMMA ExecsContinues ==
  ASSUME NEW x, HasTracked(x), NEW stage
  PROVE  Continues(x, Execs(x, stage))
  BY DEF Execs, HasTracked, Tracked, Continues

LEMMA AfterTokenContinues ==
  ASSUME NEW x, HasTracked(x), NEW token
  PROVE  Continues(x, AfterToken(x, token))
  <1> DEFINE Lookup(r) == IF r \in KeptRefs(x.env)
                          THEN Cached(RefKey(x.account, x.tag, r)) ELSE Unset
             found == [r \in Refs |-> Lookup(r)]
             y == [x EXCEPT !.token = token, !.served = found]
  <1>1. HasTracked(y) /\ y.era = x.era /\ y.op = x.op
    <2> HIDE DEF found
    <2>1. QED BY DEF HasTracked, Tracked
  <1>2. AfterToken(x, token) \in {Ends(y, "config"), Execs(y, "inject")}
    BY DEF AfterToken
  <1> HIDE DEF y
  <1>3. QED BY <1>1, <1>2, EndsContinues, ExecsContinues DEF Continues

LEMMA AfterAccountContinues ==
  ASSUME NEW x, HasTracked(x), NEW account
  PROVE  Continues(x, AfterAccount(x, account))
  <1> DEFINE marker == Effective(x.env, "TOKEN_TAG")
             tag == IF IsSet(marker) THEN marker ELSE Unset
             y == [x EXCEPT !.account = account, !.tag = tag]
  <1>1. HasTracked(y) /\ y.era = x.era /\ y.op = x.op
    <2> HIDE DEF tag
    <2>1. QED BY DEF HasTracked, Tracked
  <1>2. AfterAccount(x, account) \in
          {AfterToken(y, Unset), AfterToken(y, Cached(TokenKey(tag))), Execs(y, "items")}
    BY DEF AfterAccount
  <1> HIDE DEF y, tag
  <1>3. QED BY <1>1, <1>2, AfterTokenContinues, ExecsContinues DEF Continues

LEMMA AfterEmailContinues ==
  ASSUME NEW x, HasTracked(x), NEW email
  PROVE  Continues(x, AfterEmail(x, email))
  <1> DEFINE y == [x EXCEPT !.email = email]
  <1>1. HasTracked(y) /\ y.era = x.era /\ y.op = x.op
    BY DEF HasTracked, Tracked
  <1>2. AfterEmail(x, email) \in
          {AfterAccount(y, Cached(AccountKey(email))), Execs(y, "accounts")}
    BY DEF AfterEmail
  <1> HIDE DEF y
  <1>3. QED BY <1>1, <1>2, AfterAccountContinues, ExecsContinues DEF Continues

LEMMA AfterEnvContinues ==
  ASSUME NEW x, HasTracked(x), NEW env
  PROVE  Continues(x, AfterEnv(x, env))
  <1> DEFINE y == [x EXCEPT !.env = env]
             email == Effective(env, "EMAIL")
             id == Effective(env, "ACCOUNT_ID")
  <1>1. HasTracked(y) /\ y.era = x.era /\ y.op = x.op
    BY DEF HasTracked, Tracked
  <1>2. AfterEnv(x, env) \in
          {Ends(y, "error"), Execs(y, "git"), AfterEmail(y, email),
           AfterAccount(y, id), AfterAccount(y, Unset)}
    BY DEF AfterEnv
  <1> HIDE DEF y, email, id
  <1>3. QED
    BY <1>1, <1>2, EndsContinues, ExecsContinues, AfterEmailContinues, AfterAccountContinues
    DEF Continues

-----------------------------------------------------------------------------
(* The actions. *)

Settled == UNCHANGED <<opPath, resolver, drops, quietEra>>

(* A step of one launch that leaves the cache and the session alone. *)
LEMMA OneLaunchEra ==
  ASSUME EraInv, TypeOK, NEW l \in Launches, NEW z, LaunchEra(z),
         launch' = [launch EXCEPT ![l] = z], Settled
  PROVE  /\ resolver' = opPath'
         /\ \A m \in Launches : LaunchEra(launch[m])'
  <1>1. \A m \in Launches : launch'[m] = IF m = l THEN z ELSE launch[m]
    BY DEF TypeOK
  <1>2. QED BY <1>1 DEF EraInv, LaunchEra, EraOK, InFlightLaunch, Settled

LEMMA SameCacheEra ==
  ASSUME CacheEra, Settled, cache' = cache
  PROVE  CacheEra'
  BY DEF CacheEra, EraOK, Settled

LEMMA DoneEra == ASSUME NEW z, z.pc = "done" PROVE LaunchEra(z)
  BY DEF LaunchEra, InFlightLaunch

LEMMA ContinuesEra ==
  ASSUME NEW x, NEW z, InFlightLaunch(x), LaunchEra(x), Continues(x, z)
  PROVE  LaunchEra(z)
  BY DEF LaunchEra, InFlightLaunch, Continues, NoValues

(* A launch waits: it is in flight, with an era and a binary of its own. *)
LEMMA WaitingEra ==
  ASSUME EraInv, IInv, NEW l \in Launches, launch[l].pc \notin {"idle", "done"}
  PROVE  /\ InFlightLaunch(launch[l]) /\ LaunchEra(launch[l]) /\ HasTracked(launch[l])
  BY StateIsTracked DEF EraInv, InFlightLaunch, IInv, TypeOK

(* A launch starts in the current era, with the configured binary. *)
LEMMA StartEra ==
  ASSUME EraInv, IInv, NEW l \in Launches, NEW request \in Requests, Start(l, request)
  PROVE  EraInv'
  <1> DEFINE x == [IdleLaunch EXCEPT !.request = request, !.op = resolver, !.era = drops]
  <1>1. HasTracked(x) /\ x.era = drops /\ x.op = opPath
    BY DEF IdleLaunch, HasTracked, Tracked, EraInv
  <1>2. PICK z \in {Ends(x, "unchanged"), Ends(x, "error"), Execs(x, "envFile"),
                    AfterEnv(x, EnvOf(request))} : launch' = [launch EXCEPT ![l] = z]
    BY DEF Start
  <1> HIDE DEF x
  <1>3. Continues(x, z)
    BY <1>1, <1>2, EndsContinues, ExecsContinues, AfterEnvContinues DEF Continues
  <1>4. quietEra <= drops /\ drops <= drops
    BY ConstantsAssumption DEF IInv, TypeOK
  <1>5. LaunchEra(z)
    BY <1>1, <1>3, <1>4 DEF LaunchEra, InFlightLaunch, EraOK, Continues, NoValues
  <1>6. Settled /\ cache' = cache
    BY DEF Start, Settled
  <1>7. QED BY <1>2, <1>5, <1>6, OneLaunchEra, SameCacheEra DEF EraInv, IInv

(* Steps that go on with the launch, or end it, and cache nothing. *)
LEMMA GoesOnEra ==
  ASSUME EraInv, IInv, NEW l \in Launches, launch[l].pc \notin {"idle", "done"},
         NEW z, Continues(launch[l], z), launch' = [launch EXCEPT ![l] = z],
         Settled, cache' = cache
  PROVE  EraInv'
  <1>1. LaunchEra(z)
    BY WaitingEra, ContinuesEra
  <1>2. QED BY <1>1, OneLaunchEra, SameCacheEra DEF EraInv, IInv

LEMMA EnvFileEra ==
  ASSUME EraInv, IInv, NEW l \in Launches, EnvFileReturns(l)
  PROVE  EraInv'
  <1> DEFINE x == launch[l]
  <1>1. x.pc \notin {"idle", "done"} /\ Settled /\ cache' = cache
    BY DEF EnvFileReturns, Settled
  <1>2. \A env : Continues(x, AfterEnv(x, env))
    BY <1>1, WaitingEra, AfterEnvContinues
  <1>3. Continues(x, Ends(x, "error"))
    BY <1>1, WaitingEra, EndsContinues DEF Continues
  <1>4. PICK z : Continues(x, z) /\ launch' = [launch EXCEPT ![l] = z]
    BY <1>2, <1>3 DEF EnvFileReturns
  <1>5. QED BY <1>1, <1>4, GoesOnEra

LEMMA GitEra ==
  ASSUME EraInv, IInv, NEW l \in Launches, GitReturns(l)
  PROVE  EraInv'
  <1> DEFINE x == launch[l]
  <1>1. x.pc \notin {"idle", "done"} /\ Settled /\ cache' = cache
    BY DEF GitReturns, Settled
  <1>2. \A email : Continues(x, AfterEmail(x, email))
    BY <1>1, WaitingEra, AfterEmailContinues
  <1>3. Continues(x, Ends(x, "error"))
    BY <1>1, WaitingEra, EndsContinues DEF Continues
  <1>4. PICK z : Continues(x, z) /\ launch' = [launch EXCEPT ![l] = z]
    BY <1>2, <1>3 DEF GitReturns
  <1>5. QED BY <1>1, <1>4, GoesOnEra

LEMMA ItemsEra ==
  ASSUME EraInv, IInv, NEW l \in Launches, ItemsReturn(l)
  PROVE  EraInv'
  <1> DEFINE x == launch[l]
  <1>1. x.pc \notin {"idle", "done"} /\ Settled /\ cache' = cache
    BY DEF ItemsReturn, Returned, Settled
  <1>2. Continues(x, Execs(x, "credential"))
    BY <1>1, WaitingEra, ExecsContinues
  <1>3. Continues(x, Ends(x, "error"))
    BY <1>1, WaitingEra, EndsContinues DEF Continues
  <1>4. PICK z : Continues(x, z) /\ launch' = [launch EXCEPT ![l] = z]
    BY <1>2, <1>3 DEF ItemsReturn, IInv, TypeOK
  <1>5. QED BY <1>1, <1>4, GoesOnEra

LEMMA EndingEra ==
  ASSUME EraInv, IInv, NEW l \in Launches, OpFails(l) \/ ExecAborts(l)
  PROVE  EraInv'
  <1> DEFINE x == launch[l]
  <1>1. x.pc \notin {"idle", "done"}
    BY DEF OpFails, ExecAborts, OpStages, LookupStages, Abortable
  <1>2. \A outcome : Continues(x, Ends(x, outcome))
    BY <1>1, WaitingEra, EndsContinues DEF Continues
  <1>3. PICK z : Continues(x, z) /\ launch' = [launch EXCEPT ![l] = z]
    BY <1>2 DEF OpFails, ExecAborts, IInv, TypeOK
  <1>4. Settled /\ cache' = cache
    BY DEF OpFails, ExecAborts, Settled
  <1>5. QED BY <1>1, <1>3, <1>4, GoesOnEra

(* A lookup's answer and a cancellation leave era, binary and values alone. *)
LEMMA WaitsOnEra ==
  ASSUME EraInv, IInv, NEW l \in Launches, LookupAnswers(l) \/ Cancel(l)
  PROVE  EraInv'
  <1> DEFINE x == launch[l]
  <1>1. x.pc \notin {"idle", "done"} /\ Settled /\ cache' = cache
    BY DEF LookupAnswers, Cancel, LookupStages, Settled
  <1>2. PICK z : /\ launch' = [launch EXCEPT ![l] = z]
                 /\ z.pc = x.pc /\ z.era = x.era /\ z.op = x.op /\ z.injected = x.injected
    <2>1. x \in LaunchState
      BY DEF IInv, TypeOK
    <2>2. CASE Cancel(l)
      <3> DEFINE z == [x EXCEPT !.aborted = TRUE]
      <3>1. launch' = [launch EXCEPT ![l] = z]
        BY <2>2 DEF Cancel, IInv, TypeOK
      <3>2. z.pc = x.pc /\ z.era = x.era /\ z.op = x.op /\ z.injected = x.injected
        BY <2>1 DEF LaunchState
      <3>3. QED BY <3>1, <3>2
    <2>3. CASE LookupAnswers(l)
      <3>1. PICK reply : launch' = [launch EXCEPT ![l].replied = TRUE, ![l].reply = reply]
        BY <2>3 DEF LookupAnswers
      <3> DEFINE z == [x EXCEPT !.replied = TRUE, !.reply = reply]
      <3>2. launch' = [launch EXCEPT ![l] = z]
        BY <3>1 DEF IInv, TypeOK
      <3>3. z.pc = x.pc /\ z.era = x.era /\ z.op = x.op /\ z.injected = x.injected
        BY <2>1 DEF LaunchState
      <3>4. QED BY <3>2, <3>3
    <2>4. QED BY <2>2, <2>3
  <1>3. LaunchEra(z)
    BY <1>1, <1>2, WaitingEra DEF LaunchEra, InFlightLaunch
  <1>4. QED BY <1>1, <1>2, <1>3, OneLaunchEra, SameCacheEra DEF EraInv, IInv

(* What op inject answers carries the era and the binary of the launch. *)
LEMMA InjectAnswersEra ==
  ASSUME EraInv, IInv, NEW l \in Launches, InjectAnswers(l)
  PROVE  EraInv'
  <1> DEFINE x == launch[l]
  <1>1. x.pc \notin {"idle", "done"} /\ Settled /\ cache' = cache
    BY DEF InjectAnswers, Settled
  <1>2. PICK got : launch' = [launch EXCEPT ![l].replied = TRUE, ![l].injected =
                     [r \in Refs |-> IF r \in got THEN VaultValue(x, r) ELSE Unset]]
    BY DEF InjectAnswers
  <1> DEFINE map == [r \in Refs |-> IF r \in got THEN VaultValue(x, r) ELSE Unset]
             z == [x EXCEPT !.replied = TRUE, !.injected = map]
  <1>3. launch' = [launch EXCEPT ![l] = z]
    BY <1>2 DEF IInv, TypeOK
  <1>4. \A r \in Refs : map[r] # Unset => map[r].era = x.era /\ map[r].op = x.op
    BY DEF VaultValue
  <1> HIDE DEF map
  <1>5. z.era = x.era /\ z.op = x.op /\ z.injected = map
    BY <1>1, WaitingEra DEF HasTracked, Tracked
  <1>6. LaunchEra(z)
    BY <1>1, <1>4, <1>5, WaitingEra DEF LaunchEra
  <1> HIDE DEF z
  <1>7. QED BY <1>1, <1>3, <1>6, OneLaunchEra, SameCacheEra DEF EraInv, IInv

(* An entry that is stored leaves the refs cached before as they are, unless *)
(* it is for a ref itself.                                                   *)
LEMMA StoreEra ==
  ASSUME CacheEra, Settled, NEW new, cache' = Store(cache, new),
         \A k \in DOMAIN new : k[1] = "resolved-ref" => EraOK(new[k].era, new[k].op)
  PROVE  CacheEra'
  <1>1. \A k \in DOMAIN cache' : IF k \in DOMAIN new THEN cache'[k] = new[k]
                                 ELSE k \in DOMAIN cache /\ cache'[k] = cache[k]
    BY DEF Store
  <1>2. \A k \in DOMAIN cache' : k[1] = "resolved-ref" => EraOK(cache'[k].era, cache'[k].op)
    BY <1>1 DEF CacheEra
  <1>3. QED BY <1>2 DEF CacheEra, EraOK, Settled

LEMMA AccountsEra ==
  ASSUME EraInv, IInv, NEW l \in Launches, AccountsReturn(l) \/ CredentialReturns(l)
  PROVE  EraInv'
  <1> DEFINE x == launch[l]
  <1>1. x.pc \notin {"idle", "done"} /\ Settled
    BY DEF AccountsReturn, CredentialReturns, Returned, Settled
  <1>2. \A w : Continues(x, AfterAccount(x, w)) /\ Continues(x, AfterToken(x, w))
    BY <1>1, WaitingEra, AfterAccountContinues, AfterTokenContinues
  <1>3. Continues(x, Ends(x, "error"))
    BY <1>1, WaitingEra, EndsContinues DEF Continues
  <1>4. PICK z : Continues(x, z) /\ launch' = [launch EXCEPT ![l] = z]
    BY <1>2, <1>3 DEF AccountsReturn, CredentialReturns
  <1>5. LaunchEra(z)
    BY <1>1, <1>4, WaitingEra, ContinuesEra
  <1>6. CacheEra'
    <2>1. CASE cache' = cache
      BY <1>1, <2>1, SameCacheEra DEF EraInv
    <2>2. CASE cache' # cache
      <3>1. PICK key \in {AccountKey(x.email), TokenKey(x.tag)} :
              cache' = Store(cache, [k \in {key} |-> x.reply])
        BY <2>2 DEF AccountsReturn, CredentialReturns
      <3>2. key[1] # "resolved-ref"
        BY <3>1 DEF AccountKey, TokenKey
      <3>3. QED BY <1>1, <3>1, <3>2, StoreEra DEF EraInv
    <2>3. QED BY <2>1, <2>2
  <1>7. QED BY <1>1, <1>4, <1>5, <1>6, OneLaunchEra DEF EraInv, IInv

(* What inject answered is cached, by a launch that is still in flight. *)
LEMMA InjectReturnsEra ==
  ASSUME EraInv, IInv, NEW l \in Launches, InjectReturns(l)
  PROVE  EraInv'
  <1> DEFINE x == launch[l]
             keys == {RefKey(x.account, x.tag, r) : r \in Answered(x)}
             fresh == [k \in keys |-> x.injected[k[4]]]
             y == [x EXCEPT !.served = AddAll(x.served, x.injected)]
  <1>1. x.pc \notin {"idle", "done"} /\ Settled
    BY DEF InjectReturns, Returned, Settled
  <1>2. HasTracked(x) /\ HasTracked(y)
    BY <1>1, WaitingEra DEF HasTracked, Tracked
  <1>3. \A outcome : LaunchEra(Ends(x, outcome)) /\ LaunchEra(Ends(y, outcome))
    BY <1>2, EndsContinues, DoneEra
  <1>4. PICK z : LaunchEra(z) /\ launch' = [launch EXCEPT ![l] = z]
    BY <1>3 DEF InjectReturns
  <1>5. \A k \in keys : EraOK(fresh[k].era, fresh[k].op)
    <2> SUFFICES ASSUME NEW r \in Answered(x)
                 PROVE  EraOK(fresh[RefKey(x.account, x.tag, r)].era,
                              fresh[RefKey(x.account, x.tag, r)].op)
      OBVIOUS
    <2>1. r \in Refs /\ x.injected[r] # Unset
      BY DEF Answered
    <2>2. fresh[RefKey(x.account, x.tag, r)] = x.injected[r]
      BY DEF RefKey
    <2>3. /\ EraOK(x.era, x.op)
          /\ x.injected[r].era = x.era /\ x.injected[r].op = x.op
      BY <1>1, <2>1, WaitingEra DEF LaunchEra
    <2>4. QED BY <2>2, <2>3
  <1>6. cache' = cache \/ cache' = Store(cache, fresh)
    BY DEF InjectReturns
  <1> HIDE DEF keys
  <1>7. DOMAIN fresh = keys
    OBVIOUS
  <1> HIDE DEF fresh
  <1>8. CacheEra'
    BY <1>1, <1>5, <1>6, <1>7, SameCacheEra, StoreEra DEF EraInv
  <1>9. QED BY <1>1, <1>4, <1>8, OneLaunchEra DEF EraInv, IInv

(* A drop empties the cache; the launches it finds in flight are of an older *)
(* era from then on, and quietEra stays behind them.                         *)
LEMMA SessionEra ==
  ASSUME EraInv, IInv, ClearCache \/ ChangeOpPath \/ GrantTrust
  PROVE  EraInv'
  <1>1. CASE ClearCache \/ ChangeOpPath
    <2>1. launch' = launch /\ DropCache /\ resolver' = opPath'
      BY <1>1 DEF ClearCache, ChangeOpPath, RefreshResolver, EraInv
    <2>2. cache' = NoEntries /\ drops' = drops + 1
      BY <2>1 DEF DropCache, Cleared
    <2>3. CacheEra'
      BY <2>2 DEF CacheEra, NoEntries
    <2>4. ASSUME NEW l \in Launches, InFlightLaunch(launch[l])
          PROVE  EraOK(launch[l].era, launch[l].op)'
      <3>1. quietEra' = quietEra
        BY <2>1, <2>4 DEF DropCache, InFlight, InFlightLaunch
      <3>2. launch[l].era \in Nat /\ drops \in Nat
        BY ConstantsAssumption DEF IInv, TypeOK, LaunchState
      <3>3. quietEra <= launch[l].era /\ launch[l].era <= drops
        BY <2>4 DEF EraInv, LaunchEra, EraOK
      <3>4. quietEra' <= launch[l].era /\ launch[l].era <= drops' /\ launch[l].era # drops'
        BY <2>2, <3>1, <3>2, <3>3
      <3>5. QED BY <2>1, <3>4 DEF EraOK
    <2>5. \A l \in Launches : LaunchEra(launch[l])'
      BY <2>1, <2>4 DEF EraInv, LaunchEra, InFlightLaunch
    <2>6. QED BY <2>1, <2>3, <2>5 DEF EraInv
  <1>2. CASE GrantTrust
    BY <1>2 DEF GrantTrust, EraInv, CacheEra, LaunchEra, InFlightLaunch, EraOK
  <1>3. QED BY <1>1, <1>2

-----------------------------------------------------------------------------
LEMMA InitEra == Init => EraInv
  BY DEF Init, EraInv, CacheEra, LaunchEra, InFlightLaunch, IdleLaunch, NoEntries

LEMMA NextEra == EraInv /\ IInv /\ [Next]_vars => EraInv'
  <1> SUFFICES ASSUME EraInv, IInv, [Next]_vars PROVE EraInv'
    OBVIOUS
  <1>1. ASSUME NEW l \in Launches, LaunchStep(l) PROVE EraInv'
    BY <1>1, StartEra, EnvFileEra, GitEra, ItemsEra, EndingEra, WaitsOnEra,
       InjectAnswersEra, AccountsEra, InjectReturnsEra DEF LaunchStep, OpReturns
  <1>2. CASE UNCHANGED vars
    BY <1>2 DEF vars, EraInv, CacheEra, LaunchEra, InFlightLaunch, EraOK
  <1>3. QED BY <1>1, <1>2, SessionEra DEF Next

(* Eras and binaries of launches and cached refs stay in step. *)
THEOREM EraInvariance == Spec => []EraInv
  <1>1. Init /\ []IInv /\ [][Next]_vars => []EraInv
    BY InitEra, NextEra, PTL
  <1>2. QED BY <1>1, Invariance, PTL DEF Spec

(* However many launches run, a clear or a new opPath that finds none of     *)
(* them in flight leaves no value behind that was read before it.            *)
THEOREM QuietDropAlwaysComplete == Spec => []QuietDropIsComplete
  <1>1. EraInv => QuietDropIsComplete
    BY DEF EraInv, CacheEra, EraOK, QuietDropIsComplete, CachedValues
  <1>2. QED BY <1>1, EraInvariance, PTL

(* However many launches run and however often the setting changes, what a   *)
(* launch caches that started after the last change was read by the binary   *)
(* the setting names.                                                        *)
THEOREM AlwaysRunsConfiguredOp == Spec => []RunsConfiguredOp
  <1>1. EraInv => RunsConfiguredOp
    BY DEF EraInv, CacheEra, EraOK, RunsConfiguredOp, CachedValues
  <1>2. QED BY <1>1, EraInvariance, PTL

-----------------------------------------------------------------------------
(* What a launch takes from its own request: the resolver keeps the contract  *)
(* of LaunchContract.                                                         *)

NothingToDo(request) == request.env = Unset /\ request.file = Unset

EnvAgrees(x) == x.env \in EnvsOf(x.request)
AccountAgrees(x) == x.account \in AccountsOf(x.env) /\ x.tag = TagOf(x.env)

(* Stages at which the account is known. *)
AccountStages == {"items", "credential", "inject"}

(* What a launch holds is what its request says, as far as it has come. *)
RequestInv(x) ==
    /\ x.pc = "idle" => x = IdleLaunch
    /\ x.pc = "done" => x.outcome # "pending"
    /\ x.pc # "idle" => (x.outcome = "unchanged" <=> NothingToDo(x.request))
    /\ x.outcome \in {"cancelled", "abortError"} => x.aborted
    /\ x.pc \in ExecStages \/ x.outcome = "config" => EnvAgrees(x)
    /\ x.pc = "git" => IsSet(Effective(x.env, "GIT_CONFIG"))
    /\ x.pc = "accounts" => x.email \in EmailsOf(x.env)
    /\ x.pc \in AccountStages \/ x.outcome = "config" => AccountAgrees(x)

AllRequests == \A l \in Launches : RequestInv(launch[l])

HasLocals(x) ==
    {"pc", "request", "env", "email", "account", "tag", "aborted", "outcome"} \subseteq DOMAIN x

(* A launch with something to do, on its way to the next await. *)
Busy(x) == HasLocals(x) /\ x.outcome = "pending" /\ ~NothingToDo(x.request)

(* z is x at its next await, or at its end. *)
Goes(x, z) ==
    /\ RequestInv(z)
    /\ z.request = x.request /\ z.aborted = x.aborted
    /\ z.pc # "idle"

LEMMA EndsGoes ==
  ASSUME NEW x, Busy(x), NEW outcome \in {"error", "config", "abortError", "cancelled"},
         outcome = "config" => EnvAgrees(x) /\ AccountAgrees(x),
         outcome \in {"abortError", "cancelled"} => x.aborted
  PROVE  Goes(x, Ends(x, outcome))
  <1> DEFINE z == Ends(x, outcome)
  <1>1. /\ z.pc = "done" /\ z.outcome = outcome /\ z.request = x.request
        /\ z.aborted = x.aborted /\ z.env = x.env /\ z.account = x.account /\ z.tag = x.tag
    BY DEF Ends, Busy, HasLocals
  <1> HIDE DEF z
  <1>2. /\ z.pc # "idle" /\ z.pc \notin ExecStages \cup AccountStages
        /\ ~NothingToDo(z.request) /\ z.outcome # "unchanged"
    BY <1>1 DEF Busy, ExecStages, AccountStages
  <1>3. outcome = "config" => EnvAgrees(z) /\ AccountAgrees(z)
    BY <1>1 DEF EnvAgrees, AccountAgrees
  <1>4. z.outcome \in {"cancelled", "abortError"} => z.aborted
    BY <1>1
  <1>5. RequestInv(z)
    BY <1>1, <1>2, <1>3, <1>4 DEF RequestInv
  <1>6. QED BY <1>1, <1>2, <1>5 DEF Goes, z

LEMMA ExecsGoes ==
  ASSUME NEW x, Busy(x), NEW stage \in ExecStages \cup {"envFile"},
         stage \in ExecStages => EnvAgrees(x),
         stage = "git" => IsSet(Effective(x.env, "GIT_CONFIG")),
         stage = "accounts" => x.email \in EmailsOf(x.env),
         stage \in AccountStages => AccountAgrees(x)
  PROVE  Goes(x, Execs(x, stage))
  <1> DEFINE z == Execs(x, stage)
  <1>1. /\ z.pc = stage /\ z.outcome = "pending" /\ z.request = x.request
        /\ z.aborted = x.aborted /\ z.env = x.env /\ z.email = x.email
        /\ z.account = x.account /\ z.tag = x.tag
    BY DEF Execs, Busy, HasLocals
  <1> HIDE DEF z
  <1>2. stage # "idle" /\ stage # "done"
    BY DEF ExecStages
  <1>3. ~NothingToDo(z.request)
    BY <1>1 DEF Busy
  <1>4. /\ stage \in ExecStages => EnvAgrees(z)
        /\ stage \in AccountStages => AccountAgrees(z)
    BY <1>1 DEF EnvAgrees, AccountAgrees
  <1>5. RequestInv(z)
    BY <1>1, <1>2, <1>3, <1>4 DEF RequestInv
  <1>6. QED BY <1>1, <1>2, <1>5 DEF Goes, z

LEMMA AfterTokenGoes ==
  ASSUME NEW x, Busy(x), EnvAgrees(x), AccountAgrees(x), NEW token
  PROVE  Goes(x, AfterToken(x, token))
  <1> DEFINE Lookup(r) == IF r \in KeptRefs(x.env)
                          THEN Cached(RefKey(x.account, x.tag, r)) ELSE Unset
             found == [r \in Refs |-> Lookup(r)]
             y == [x EXCEPT !.token = token, !.served = found]
  <1>1. /\ HasLocals(y) /\ y.outcome = x.outcome /\ y.request = x.request
        /\ y.aborted = x.aborted /\ y.env = x.env /\ y.account = x.account /\ y.tag = x.tag
    <2> HIDE DEF found
    <2>1. QED BY DEF Busy, HasLocals
  <1>2. AfterToken(x, token) \in {Ends(y, "config"), Execs(y, "inject")}
    BY DEF AfterToken
  <1> HIDE DEF y
  <1>3. Busy(y) /\ EnvAgrees(y) /\ AccountAgrees(y)
    BY <1>1 DEF Busy, EnvAgrees, AccountAgrees
  <1>4. Goes(y, Ends(y, "config")) /\ Goes(y, Execs(y, "inject"))
    BY <1>3, EndsGoes, ExecsGoes DEF ExecStages
  <1>5. QED BY <1>1, <1>2, <1>4 DEF Goes

LEMMA AfterAccountGoes ==
  ASSUME NEW x, Busy(x), EnvAgrees(x), NEW account \in AccountsOf(x.env)
  PROVE  Goes(x, AfterAccount(x, account))
  <1> DEFINE marker == Effective(x.env, "TOKEN_TAG")
             tag == IF IsSet(marker) THEN marker ELSE Unset
             y == [x EXCEPT !.account = account, !.tag = tag]
  <1>1. /\ HasLocals(y) /\ y.outcome = x.outcome /\ y.request = x.request
        /\ y.aborted = x.aborted /\ y.env = x.env /\ y.account = account /\ y.tag = tag
    <2> HIDE DEF tag
    <2>1. QED BY DEF Busy, HasLocals
  <1>2. tag = TagOf(x.env)
    BY DEF TagOf
  <1>3. AfterAccount(x, account) \in
          {AfterToken(y, Unset), AfterToken(y, Cached(TokenKey(tag))), Execs(y, "items")}
    BY DEF AfterAccount
  <1> HIDE DEF y, tag
  <1>4. Busy(y) /\ EnvAgrees(y) /\ AccountAgrees(y)
    BY <1>1, <1>2 DEF Busy, EnvAgrees, AccountAgrees
  <1>5. Goes(y, Execs(y, "items")) /\ \A token : Goes(y, AfterToken(y, token))
    BY <1>4, ExecsGoes, AfterTokenGoes DEF ExecStages
  <1>6. QED BY <1>1, <1>3, <1>5 DEF Goes

LEMMA AfterEmailGoes ==
  ASSUME CacheTruthful, NEW x, Busy(x), EnvAgrees(x),
         NEW email \in EnvValues, email \in EmailsOf(x.env)
  PROVE  Goes(x, AfterEmail(x, email))
  <1> DEFINE y == [x EXCEPT !.email = email]
  <1>1. /\ HasLocals(y) /\ y.outcome = x.outcome /\ y.request = x.request
        /\ y.aborted = x.aborted /\ y.env = x.env /\ y.email = email
    BY DEF Busy, HasLocals
  <1>2. AfterEmail(x, email) = IF AccountKey(email) \in DOMAIN cache
                               THEN AfterAccount(y, Cached(AccountKey(email)))
                               ELSE Execs(y, "accounts")
    BY DEF AfterEmail
  <1> HIDE DEF y
  <1>3. Busy(y) /\ EnvAgrees(y)
    BY <1>1 DEF Busy, EnvAgrees
  <1>4. ASSUME AccountKey(email) \in DOMAIN cache
        PROVE  Cached(AccountKey(email)) \in AccountsOf(y.env)
    BY <1>1, <1>4 DEF Cached, CacheTruthful, AccountsOf
  <1>5. Goes(y, Execs(y, "accounts"))
    BY <1>1, <1>3, ExecsGoes DEF ExecStages, AccountStages
  <1>6. Goes(y, AfterEmail(x, email))
    BY <1>2, <1>3, <1>4, <1>5, AfterAccountGoes
  <1>7. QED BY <1>1, <1>6 DEF Goes

LEMMA AfterEnvGoes ==
  ASSUME CacheTruthful, NEW x, Busy(x), NEW env \in EnvMaps, env \in EnvsOf(x.request)
  PROVE  Goes(x, AfterEnv(x, env))
  <1> DEFINE y == [x EXCEPT !.env = env]
             dir == Effective(env, "GIT_CONFIG")
             email == Effective(env, "EMAIL")
             id == Effective(env, "ACCOUNT_ID")
  <1>1. /\ HasLocals(y) /\ y.outcome = x.outcome /\ y.request = x.request
        /\ y.aborted = x.aborted /\ y.env = env
    BY DEF Busy, HasLocals
  <1>2. AfterEnv(x, env) =
          IF IsSet(dir) THEN IF dir \in OutsideDirs THEN Ends(y, "error")
                             ELSE Execs(y, "git")
          ELSE IF IsSet(email) THEN AfterEmail(y, email)
          ELSE IF IsSet(id) THEN AfterAccount(y, id)
          ELSE AfterAccount(y, Unset)
    BY DEF AfterEnv
  <1>3. email \in EnvValues \cup {Unset}
    BY EffectiveType DEF Markers
  <1>4. ~IsSet(dir) /\ IsSet(email) => email \in EmailsOf(env)
    BY DEF EmailsOf, IsSet
  <1>5. ~IsSet(dir) /\ ~IsSet(email) => (IF IsSet(id) THEN id ELSE Unset) \in AccountsOf(env)
    <2> SUFFICES ASSUME ~IsSet(dir), ~IsSet(email)
                 PROVE  (IF IsSet(id) THEN id ELSE Unset) \in AccountsOf(env)
      OBVIOUS
    <2>1. EmailsOf(env) = {}
      BY DEF EmailsOf, IsSet
    <2>2. QED BY <2>1 DEF AccountsOf
  <1>6. Busy(y) /\ EnvAgrees(y)
    BY <1>1 DEF Busy, EnvAgrees
  <1>7. Goes(y, Ends(y, "error"))
    BY <1>6, EndsGoes
  <1>8. IsSet(dir) => Goes(y, Execs(y, "git"))
    BY <1>1, <1>6, ExecsGoes DEF ExecStages, AccountStages
  <1> HIDE DEF y, dir, email, id
  <1>9. ASSUME ~IsSet(dir), IsSet(email) PROVE Goes(y, AfterEmail(y, email))
    <2>1. email \in EnvValues
      BY <1>3, <1>9 DEF IsSet
    <2>2. QED BY <1>1, <1>4, <1>6, <1>9, <2>1, AfterEmailGoes
  <1>10. ASSUME ~IsSet(dir), ~IsSet(email)
         PROVE  Goes(y, AfterAccount(y, IF IsSet(id) THEN id ELSE Unset))
    BY <1>1, <1>5, <1>6, <1>10, AfterAccountGoes
  <1>11. Goes(y, AfterEnv(x, env))
    BY <1>2, <1>7, <1>8, <1>9, <1>10
  <1>12. QED BY <1>1, <1>11 DEF Goes

-----------------------------------------------------------------------------
(* The steps. *)

(* A configuration that is returned resolves the env that the launch holds. *)
LEMMA ConfigResolves ==
  ASSUME NEW x, LaunchInv(x), AccountAgrees(x), x.outcome = "config"
  PROVE  Resolves(FinalEnv(x), x.env, x.account)
  <1> SUFFICES ASSUME NEW k \in EnvKeys
               PROVE  LET v == Sanitized(x.env)[k] IN
                      IF v \in Refs THEN InScope(FinalEnv(x)[k], x.account, TagOf(x.env), v)
                      ELSE FinalEnv(x)[k] = v
    BY DEF Resolves
  <1> DEFINE v == Sanitized(x.env)[k]
  <1>1. Missing(x) = {} /\ ServedOK(x, x.served) /\ x.tag = TagOf(x.env)
    BY DEF LaunchInv, AccountAgrees
  <1>2. CASE v \in Refs
    <2>1. v \in KeptRefs(x.env)
      BY <1>2 DEF KeptRefs, OpRefsOf
    <2>2. x.served[v] # Unset
      BY <1>1, <2>1 DEF Missing
    <2>3. FinalEnv(x)[k] = x.served[v]
      BY <1>2, <2>2 DEF FinalEnv
    <2>4. InScope(x.served[v], x.account, x.tag, v)
      BY <1>1, <1>2, <2>2 DEF ServedOK
    <2>5. QED BY <1>1, <1>2, <2>3, <2>4
  <1>3. CASE v \notin Refs
    BY <1>3 DEF FinalEnv
  <1>4. QED BY <1>2, <1>3

(* Whatever a launch ends with, its request allows. *)
LEMMA EndIsPromised ==
  ASSUME NEW x, LaunchInv(x), RequestInv(x), x.pc = "done"
  PROVE  Promised(x.request, AnswerOf(x), x.aborted)
  <1>1. x.outcome \in Outcomes \ {"pending"}
    BY DEF LaunchInv, LaunchState, RequestInv
  <1>2. x.outcome = "unchanged" <=> x.request.env = Unset /\ x.request.file = Unset
    BY DEF RequestInv, NothingToDo
  <1>3. x.outcome \in {"cancelled", "abortError"} => x.aborted
    BY DEF RequestInv
  <1>4. ASSUME x.outcome = "config"
        PROVE  \E env \in EnvsOf(x.request) : \E account \in AccountsOf(env) :
                   Resolves(FinalEnv(x), env, account)
    <2>1. EnvAgrees(x) /\ AccountAgrees(x)
      BY <1>4 DEF RequestInv
    <2>2. Resolves(FinalEnv(x), x.env, x.account)
      BY <1>4, <2>1, ConfigResolves
    <2>3. QED BY <2>1, <2>2 DEF EnvAgrees, AccountAgrees
  <1>5. /\ AnswerOf(x).outcome = x.outcome
        /\ x.outcome = "config" => AnswerOf(x).env = FinalEnv(x)
    BY DEF AnswerOf
  <1>6. QED BY <1>1, <1>2, <1>3, <1>4, <1>5 DEF Promised

(* A launch has no answer until it ends. *)
LEMMA UnansweredUntilDone ==
  ASSUME NEW x, LaunchInv(x), x.pc # "done"
  PROVE  AnswerOf(x) = AnswerOf(IdleLaunch)
  BY DEF LaunchInv, AnswerOf, IdleLaunch

ContractStep == [Contract!Next]_(Contract!vars)

(* Launch l is answered, or no launch changes in what the contract is about. *)
LEMMA StepOfOne ==
  ASSUME IInv, AllRequests, NEW l \in Launches, launch[l].pc \notin {"idle", "done"},
         NEW z, Goes(launch[l], z),
         launch' = [launch EXCEPT ![l] = z], trusted' = trusted, IInv'
  PROVE  AllRequests' /\ ContractStep
  <1> DEFINE x == launch[l]
  <1>1. \A m \in Launches : launch'[m] = IF m = l THEN z ELSE launch[m]
    BY DEF IInv, TypeOK
  <1>2. RequestInv(z) /\ z.request = x.request /\ z.aborted = x.aborted /\ LaunchInv(z)
    BY <1>1 DEF Goes, IInv
  <1>3. AllRequests'
    <2>1. \A m \in Launches : RequestInv(launch'[m])
      BY <1>1, <1>2 DEF AllRequests
    <2>2. QED BY <2>1 DEF AllRequests, RequestInv, EnvAgrees, AccountAgrees
  <1>4. x.request \in Requests /\ LaunchInv(x)
    BY WaitingIsPending DEF Pending, Running
  <1>5. x.request # Unset /\ AnswerOf(x) = AnswerOf(IdleLaunch)
    BY <1>4, UnansweredUntilDone, ConstantsAssumption
  <1> DEFINE asked == [m \in Launches |-> launch[m].request]
             askedNext == [m \in Launches |-> launch'[m].request]
             cancelled == [m \in Launches |-> launch[m].aborted]
             cancelledNext == [m \in Launches |-> launch'[m].aborted]
             answer == [m \in Launches |-> AnswerOf(launch[m])]
             answerNext == [m \in Launches |-> AnswerOf(launch'[m])]
  <1>6. askedNext = asked /\ cancelledNext = cancelled
    BY <1>1, <1>2
  <1>7. answerNext = [answer EXCEPT ![l] = AnswerOf(z)] /\ answerNext[l] = AnswerOf(z)
    <2>1. launch'[l] = z /\ \A m \in Launches \ {l} : launch'[m] = launch[m]
      BY <1>1
    <2>2. \A m \in Launches : answerNext[m] = IF m = l THEN AnswerOf(z) ELSE answer[m]
      BY <2>1
    <2>3. QED BY <2>2
  <1>8. CASE z.pc = "done"
    <2>1. Promised(x.request, AnswerOf(z), x.aborted)
      BY <1>2, <1>8, EndIsPromised
    <2>2. Contract!Answer(l)
      BY <1>5, <1>6, <1>7, <2>1 DEF Contract!Answer, Contract!Open, Contract!Answers, AnswerOf
    <2>3. QED BY <1>3, <2>2 DEF ContractStep, Contract!Next
  <1>9. CASE z.pc # "done"
    <2>1. AnswerOf(z) = AnswerOf(x)
      BY <1>2, <1>5, <1>9, UnansweredUntilDone
    <2>2. answerNext = answer
      BY <1>7, <2>1
    <2>3. UNCHANGED Contract!vars
      BY <1>6, <2>2 DEF Contract!vars, AnswerOf
    <2>4. QED BY <1>3, <2>3 DEF ContractStep
  <1>10. QED BY <1>8, <1>9

LEMMA WaitingIsBusy ==
  ASSUME IInv, AllRequests, NEW l \in Launches, launch[l].pc \notin {"idle", "done"}
  PROVE  /\ Busy(launch[l]) /\ launch[l] \in LaunchState
         /\ LaunchInv(launch[l]) /\ RequestInv(launch[l])
  <1>1. Pending(launch[l]) /\ LaunchInv(launch[l]) /\ RequestInv(launch[l])
    BY WaitingIsPending DEF AllRequests
  <1>2. launch[l] \in LaunchState /\ launch[l].outcome = "pending"
    BY <1>1 DEF Pending, Running
  <1>3. HasLocals(launch[l])
    BY <1>2 DEF LaunchState, HasLocals
  <1>4. ~NothingToDo(launch[l].request)
    BY <1>1, <1>2 DEF RequestInv
  <1>5. QED BY <1>1, <1>2, <1>3, <1>4 DEF Busy

(* The launch's own env over the file's is one that the request can mean. *)
LEMMA FileEnv ==
  ASSUME NEW request \in Requests, request.file # Unset, NEW file \in {request.file, NoEnv}
  PROVE  /\ AddAll(file, EnvOf(request)) \in EnvMaps
         /\ AddAll(file, EnvOf(request)) \in EnvsOf(request)
  <1>1. file \in EnvMaps /\ EnvOf(request) \in EnvMaps
    BY ConstantsAssumption, NoValuesType DEF EnvOf
  <1>2. DOMAIN file = EnvKeys
    BY <1>1 DEF EnvMaps
  <1>3. AddAll(file, EnvOf(request)) =
          [k \in EnvKeys |-> IF EnvOf(request)[k] # Unset THEN EnvOf(request)[k] ELSE file[k]]
    BY <1>2 DEF AddAll
  <1>4. QED BY <1>1, <1>3, AddAllType DEF EnvsOf

LEMMA EnvFileRefines ==
  ASSUME IInv, AllRequests, IInv', NEW l \in Launches, EnvFileReturns(l)
  PROVE  AllRequests' /\ ContractStep
  <1> DEFINE x == launch[l]
  <1>1. x.pc = "envFile" /\ trusted' = trusted
    BY DEF EnvFileReturns
  <1>2. Busy(x) /\ x.request \in Requests /\ x.request.file # Unset
    BY <1>1, WaitingIsBusy DEF LaunchInv, Running
  <1>3. \A file \in {x.request.file, NoEnv} : Goes(x, AfterEnv(x, AddAll(file, EnvOf(x.request))))
    BY <1>2, FileEnv, AfterEnvGoes DEF IInv
  <1>4. Goes(x, Ends(x, "error"))
    BY <1>2, EndsGoes
  <1>5. PICK z : Goes(x, z) /\ launch' = [launch EXCEPT ![l] = z]
    BY <1>3, <1>4 DEF EnvFileReturns
  <1>6. QED BY <1>1, <1>5, StepOfOne

LEMMA GitRefines ==
  ASSUME IInv, AllRequests, IInv', NEW l \in Launches, GitReturns(l)
  PROVE  AllRequests' /\ ContractStep
  <1> DEFINE x == launch[l]
  <1>1. x.pc = "git" /\ trusted' = trusted
    BY DEF GitReturns
  <1>2. Busy(x) /\ EnvAgrees(x) /\ EmailsOf(x.env) = Emails
    BY <1>1, WaitingIsBusy DEF RequestInv, EmailsOf, ExecStages
  <1>3. \A email \in Emails : Goes(x, AfterEmail(x, email))
    BY <1>2, AfterEmailGoes DEF IInv, EnvValues
  <1>4. Goes(x, Ends(x, "error"))
    BY <1>2, EndsGoes
  <1>5. PICK z : Goes(x, z) /\ launch' = [launch EXCEPT ![l] = z]
    BY <1>3, <1>4 DEF GitReturns
  <1>6. QED BY <1>1, <1>5, StepOfOne

LEMMA AccountsRefines ==
  ASSUME IInv, AllRequests, IInv', NEW l \in Launches, AccountsReturn(l)
  PROVE  AllRequests' /\ ContractStep
  <1> DEFINE x == launch[l]
  <1>1. x.pc = "accounts" /\ trusted' = trusted
    BY DEF AccountsReturn, Returned
  <1>2. Busy(x) /\ EnvAgrees(x) /\ x.email \in EmailsOf(x.env) /\ AccountsOK(x)
    BY <1>1, WaitingIsBusy DEF RequestInv, LaunchInv, ExecStages
  <1>3. Goes(x, Ends(x, "error"))
    BY <1>2, EndsGoes
  <1>4. x.reply # Unset => x.reply \in AccountsOf(x.env)
    BY <1>2 DEF AccountsOK, AccountsOf
  <1>5. x.reply # Unset => Goes(x, AfterAccount(x, x.reply))
    BY <1>2, <1>4, AfterAccountGoes
  <1>6. PICK z : Goes(x, z) /\ launch' = [launch EXCEPT ![l] = z]
    BY <1>3, <1>5 DEF AccountsReturn
  <1>7. QED BY <1>1, <1>6, StepOfOne

LEMMA ItemsRefines ==
  ASSUME IInv, AllRequests, IInv', NEW l \in Launches, ItemsReturn(l)
  PROVE  AllRequests' /\ ContractStep
  <1> DEFINE x == launch[l]
  <1>1. x.pc = "items" /\ trusted' = trusted
    BY DEF ItemsReturn, Returned
  <1>2. Busy(x) /\ EnvAgrees(x) /\ AccountAgrees(x)
    BY <1>1, WaitingIsBusy DEF RequestInv, ExecStages, AccountStages
  <1>3. Goes(x, Ends(x, "error")) /\ Goes(x, Execs(x, "credential"))
    BY <1>2, EndsGoes, ExecsGoes DEF ExecStages
  <1>4. PICK z : Goes(x, z) /\ launch' = [launch EXCEPT ![l] = z]
    BY <1>3 DEF ItemsReturn, IInv, TypeOK
  <1>5. QED BY <1>1, <1>4, StepOfOne

LEMMA CredentialRefines ==
  ASSUME IInv, AllRequests, IInv', NEW l \in Launches, CredentialReturns(l)
  PROVE  AllRequests' /\ ContractStep
  <1> DEFINE x == launch[l]
  <1>1. x.pc = "credential" /\ trusted' = trusted
    BY DEF CredentialReturns, Returned
  <1>2. Busy(x) /\ EnvAgrees(x) /\ AccountAgrees(x)
    BY <1>1, WaitingIsBusy DEF RequestInv, ExecStages, AccountStages
  <1>3. Goes(x, Ends(x, "error")) /\ Goes(x, AfterToken(x, x.reply))
    BY <1>2, EndsGoes, AfterTokenGoes
  <1>4. PICK z : Goes(x, z) /\ launch' = [launch EXCEPT ![l] = z]
    BY <1>3 DEF CredentialReturns
  <1>5. QED BY <1>1, <1>4, StepOfOne

LEMMA InjectReturnsRefines ==
  ASSUME IInv, AllRequests, IInv', NEW l \in Launches, InjectReturns(l)
  PROVE  AllRequests' /\ ContractStep
  <1> DEFINE x == launch[l]
             y == [x EXCEPT !.served = AddAll(x.served, x.injected)]
  <1>1. x.pc = "inject" /\ trusted' = trusted
    BY DEF InjectReturns, Returned
  <1>2. Busy(x) /\ EnvAgrees(x) /\ AccountAgrees(x)
    BY <1>1, WaitingIsBusy DEF RequestInv, ExecStages, AccountStages
  <1>3. /\ HasLocals(y) /\ y.outcome = x.outcome /\ y.request = x.request
        /\ y.aborted = x.aborted /\ y.env = x.env /\ y.account = x.account /\ y.tag = x.tag
    BY <1>2 DEF Busy, HasLocals
  <1>4. PICK z \in {Ends(x, "error"), Ends(y, "config")} : launch' = [launch EXCEPT ![l] = z]
    BY DEF InjectReturns
  <1> HIDE DEF y
  <1>5. Busy(y) /\ EnvAgrees(y) /\ AccountAgrees(y)
    BY <1>2, <1>3 DEF Busy, EnvAgrees, AccountAgrees
  <1>6. Goes(x, Ends(x, "error")) /\ Goes(y, Ends(y, "config"))
    BY <1>2, <1>5, EndsGoes
  <1>7. Goes(x, z)
    BY <1>3, <1>4, <1>6 DEF Goes
  <1>8. QED BY <1>1, <1>4, <1>7, StepOfOne

LEMMA EndingRefines ==
  ASSUME IInv, AllRequests, IInv', NEW l \in Launches, OpFails(l) \/ ExecAborts(l)
  PROVE  AllRequests' /\ ContractStep
  <1> DEFINE x == launch[l]
  <1>1. x.pc \notin {"idle", "done"} /\ trusted' = trusted
    BY DEF OpFails, ExecAborts, OpStages, LookupStages, Abortable
  <1>2. PICK outcome \in {"error", "abortError", "cancelled"} :
          /\ launch' = [launch EXCEPT ![l] = Ends(x, outcome)]
          /\ outcome # "error" => x.aborted
    BY DEF OpFails, ExecAborts, AbortOutcome, IInv, TypeOK
  <1>3. Goes(x, Ends(x, outcome))
    BY <1>1, <1>2, WaitingIsBusy, EndsGoes
  <1>4. QED BY <1>1, <1>2, <1>3, StepOfOne

(* op has answered, and the launch does not know yet. *)
LEMMA AnswersRefine ==
  ASSUME IInv, AllRequests, IInv', NEW l \in Launches, LookupAnswers(l) \/ InjectAnswers(l)
  PROVE  AllRequests' /\ ContractStep
  <1> DEFINE x == launch[l]
  <1>1. x.pc \notin {"idle", "done"} /\ trusted' = trusted
    BY DEF LookupAnswers, InjectAnswers, LookupStages
  <1>2. x \in LaunchState /\ RequestInv(x)
    BY <1>1, WaitingIsBusy
  <1>3. PICK reply, injected :
          launch' = [launch EXCEPT ![l] =
                        [x EXCEPT !.replied = TRUE, !.reply = reply, !.injected = injected]]
    <2>1. CASE LookupAnswers(l)
      <3>1. PICK reply : launch' = [launch EXCEPT ![l].replied = TRUE, ![l].reply = reply]
        BY <2>1 DEF LookupAnswers
      <3>2. launch' = [launch EXCEPT ![l] = [x EXCEPT !.replied = TRUE, !.reply = reply]]
        BY <3>1 DEF IInv, TypeOK
      <3>3. [x EXCEPT !.replied = TRUE, !.reply = reply] =
              [x EXCEPT !.replied = TRUE, !.reply = reply, !.injected = x.injected]
        BY <1>2 DEF LaunchState
      <3>4. QED BY <3>2, <3>3
    <2>2. CASE InjectAnswers(l)
      <3>1. PICK injected : launch' = [launch EXCEPT ![l].replied = TRUE, ![l].injected = injected]
        BY <2>2 DEF InjectAnswers
      <3>2. launch' = [launch EXCEPT ![l] = [x EXCEPT !.replied = TRUE, !.injected = injected]]
        BY <3>1 DEF IInv, TypeOK
      <3>3. [x EXCEPT !.replied = TRUE, !.injected = injected] =
              [x EXCEPT !.replied = TRUE, !.reply = x.reply, !.injected = injected]
        BY <1>2 DEF LaunchState
      <3>4. QED BY <3>2, <3>3
    <2>3. QED BY <2>1, <2>2
  <1> DEFINE z == [x EXCEPT !.replied = TRUE, !.reply = reply, !.injected = injected]
  <1>4. /\ z.pc = x.pc /\ z.request = x.request /\ z.env = x.env /\ z.email = x.email
        /\ z.account = x.account /\ z.tag = x.tag /\ z.outcome = x.outcome
        /\ z.aborted = x.aborted
    BY <1>2 DEF LaunchState
  <1>5. launch' = [launch EXCEPT ![l] = z]
    BY <1>3
  <1> HIDE DEF z
  <1>6. RequestInv(z)
    BY <1>1, <1>2, <1>4 DEF RequestInv, EnvAgrees, AccountAgrees
  <1>7. Goes(x, z)
    BY <1>1, <1>4, <1>6 DEF Goes
  <1>8. QED BY <1>1, <1>5, <1>7, StepOfOne

LEMMA CancelRefines ==
  ASSUME IInv, AllRequests, IInv', NEW l \in Launches, Cancel(l)
  PROVE  AllRequests' /\ ContractStep
  <1> DEFINE x == launch[l]
             z == [x EXCEPT !.aborted = TRUE]
  <1>1. x.pc \notin {"idle", "done"} /\ trusted' = trusted
    BY DEF Cancel
  <1>2. /\ x \in LaunchState /\ LaunchInv(x) /\ RequestInv(x)
        /\ x.request \in Requests /\ x.outcome = "pending"
    BY <1>1, WaitingIsBusy DEF LaunchInv, Running
  <1>3. /\ z.pc = x.pc /\ z.request = x.request /\ z.env = x.env /\ z.email = x.email
        /\ z.account = x.account /\ z.tag = x.tag /\ z.outcome = x.outcome
        /\ z.aborted = TRUE
    BY <1>2 DEF LaunchState
  <1>4. launch' = [launch EXCEPT ![l] = z]
    BY DEF Cancel, IInv, TypeOK
  <1>5. AnswerOf(z) = AnswerOf(x)
    BY <1>2, <1>3 DEF AnswerOf
  <1> HIDE DEF z
  <1>6. RequestInv(z)
    BY <1>1, <1>2, <1>3 DEF RequestInv, EnvAgrees, AccountAgrees
  <1>7. launch'[l] = z /\ \A m \in Launches \ {l} : launch'[m] = launch[m]
    BY <1>4 DEF IInv, TypeOK
  <1>8. AllRequests'
    <2>1. \A m \in Launches : RequestInv(launch'[m])
      BY <1>6, <1>7 DEF AllRequests
    <2>2. QED BY <2>1 DEF AllRequests, RequestInv, EnvAgrees, AccountAgrees
  <1> DEFINE cancelled == [m \in Launches |-> launch[m].aborted]
             cancelledNext == [m \in Launches |-> launch'[m].aborted]
  <1>9. /\ [m \in Launches |-> launch'[m].request] = [m \in Launches |-> launch[m].request]
        /\ [m \in Launches |-> AnswerOf(launch'[m])] = [m \in Launches |-> AnswerOf(launch[m])]
        /\ cancelledNext = [cancelled EXCEPT ![l] = TRUE]
    <2>1. \A m \in Launches : /\ launch'[m].request = launch[m].request
                              /\ AnswerOf(launch'[m]) = AnswerOf(launch[m])
                              /\ cancelledNext[m] = IF m = l THEN TRUE ELSE cancelled[m]
      BY <1>3, <1>5, <1>7
    <2>2. QED BY <2>1
  <1>10. x.request # Unset /\ AnswerOf(x) = AnswerOf(IdleLaunch)
    BY <1>1, <1>2, UnansweredUntilDone, ConstantsAssumption
  <1>11. Contract!Cancel(l)
    BY <1>1, <1>9, <1>10 DEF Contract!Cancel, Contract!Open, AnswerOf
  <1>12. QED BY <1>8, <1>11 DEF ContractStep, Contract!Next

(* A launch starts: it is answered at once, or has something to do and is trusted. *)
LEMMA StartRefines ==
  ASSUME IInv, AllRequests, IInv', NEW l \in Launches, NEW request \in Requests,
         Start(l, request)
  PROVE  AllRequests' /\ ContractStep
  <1> DEFINE x == [IdleLaunch EXCEPT !.request = request, !.op = resolver, !.era = drops]
             z == IF NothingToDo(request) THEN Ends(x, "unchanged")
                  ELSE IF ~trusted THEN Ends(x, "error")
                  ELSE IF request.file # Unset THEN Execs(x, "envFile")
                  ELSE AfterEnv(x, EnvOf(request))
  <1>1. launch[l] = IdleLaunch
    BY DEF Start, AllRequests, RequestInv
  <1>2. launch' = [launch EXCEPT ![l] = z] /\ trusted' = trusted
    BY DEF Start, NothingToDo
  <1>3. HasLocals(x) /\ x.request = request /\ x.aborted = FALSE /\ x.outcome = "pending"
    BY DEF IdleLaunch, HasLocals
  <1> HIDE DEF x
  <1>4. NothingToDo(request) => Goes(x, Ends(x, "unchanged"))
    <2> SUFFICES ASSUME NothingToDo(request) PROVE Goes(x, Ends(x, "unchanged"))
      OBVIOUS
    <2> DEFINE y == Ends(x, "unchanged")
    <2>1. y.pc = "done" /\ y.outcome = "unchanged" /\ y.request = request /\ y.aborted = x.aborted
      BY <1>3 DEF Ends, HasLocals
    <2> HIDE DEF y
    <2>2. RequestInv(y)
      BY <2>1 DEF RequestInv, ExecStages, AccountStages
    <2>3. QED BY <1>3, <2>1, <2>2 DEF Goes, y
  <1>5. ~NothingToDo(request) => Busy(x)
    BY <1>3 DEF Busy
  <1>6. ~NothingToDo(request) => Goes(x, Ends(x, "error")) /\ Goes(x, Execs(x, "envFile"))
    BY <1>5, EndsGoes, ExecsGoes DEF ExecStages, AccountStages
  <1>7. request.file = Unset /\ ~NothingToDo(request) => Goes(x, AfterEnv(x, EnvOf(request)))
    <2> SUFFICES ASSUME request.file = Unset, ~NothingToDo(request)
                 PROVE  Goes(x, AfterEnv(x, EnvOf(request)))
      OBVIOUS
    <2>1. EnvOf(request) \in EnvMaps
      BY ConstantsAssumption, NoValuesType DEF EnvOf
    <2>2. EnvOf(request) =
            [k \in EnvKeys |-> IF EnvOf(request)[k] # Unset THEN EnvOf(request)[k] ELSE NoEnv[k]]
      BY <2>1 DEF EnvMaps, NoEnv
    <2>3. EnvOf(request) \in EnvsOf(request)
      BY <2>2 DEF EnvsOf
    <2>4. QED BY <1>3, <1>5, <2>1, <2>3, AfterEnvGoes DEF IInv
  <1>8. Goes(x, z)
    BY <1>4, <1>6, <1>7
  <1>9. launch'[l] = z /\ \A m \in Launches \ {l} : launch'[m] = launch[m]
    BY <1>2 DEF IInv, TypeOK
  <1>10. LaunchInv(z) /\ RequestInv(z) /\ z.request = request /\ z.aborted = FALSE
    BY <1>3, <1>8, <1>9 DEF IInv, Goes
  <1>11. z.pc = "done" => trusted \/ z.outcome \in {"unchanged", "error"}
    BY <1>3 DEF Ends, HasLocals
  <1>12. trusted \/ z.pc = "done"
    BY <1>3 DEF Ends, HasLocals
  <1> HIDE DEF z
  <1>13. AllRequests'
    <2>1. \A m \in Launches : RequestInv(launch'[m])
      BY <1>9, <1>10 DEF AllRequests
    <2>2. QED BY <2>1 DEF AllRequests, RequestInv, EnvAgrees, AccountAgrees
  <1> DEFINE asked == [m \in Launches |-> launch[m].request]
             askedNext == [m \in Launches |-> launch'[m].request]
             answer == [m \in Launches |-> AnswerOf(launch[m])]
             answerNext == [m \in Launches |-> AnswerOf(launch'[m])]
  <1>14. IdleLaunch.request = Unset /\ IdleLaunch.aborted = FALSE
    BY DEF IdleLaunch
  <1>15. askedNext = [asked EXCEPT ![l] = request] /\ asked[l] = Unset
    <2>1. \A m \in Launches : askedNext[m] = IF m = l THEN request ELSE asked[m]
      BY <1>9, <1>10
    <2>2. QED BY <1>1, <1>14, <2>1
  <1>16. [m \in Launches |-> launch'[m].aborted] = [m \in Launches |-> launch[m].aborted]
    BY <1>1, <1>9, <1>10, <1>14
  <1>17. answerNext = [answer EXCEPT ![l] = AnswerOf(z)] /\ answerNext[l] = AnswerOf(z)
    <2>1. \A m \in Launches : answerNext[m] = IF m = l THEN AnswerOf(z) ELSE answer[m]
      BY <1>9
    <2>2. QED BY <1>9, <2>1
  <1>18. CASE z.pc = "done"
    <2>1. Promised(request, AnswerOf(z), FALSE)
      BY <1>10, <1>18, EndIsPromised
    <2>2. trusted \/ WithoutOp(AnswerOf(z))
      BY <1>11, <1>18 DEF WithoutOp, AnswerOf
    <2>3. launch[l].aborted = FALSE
      BY <1>1, <1>14
    <2>4. Contract!Ask(l, request)
      BY <1>2, <1>15, <1>16, <1>17, <2>1, <2>2, <2>3 DEF Contract!Ask, Contract!Answers
    <2>5. QED BY <1>13, <2>4 DEF ContractStep, Contract!Next
  <1>19. CASE z.pc # "done"
    <2>1. AnswerOf(z) = AnswerOf(launch[l])
      BY <1>1, <1>10, <1>19, UnansweredUntilDone
    <2>2. answerNext = answer
      BY <1>17, <2>1
    <2>3. Contract!Ask(l, request)
      BY <1>2, <1>12, <1>15, <1>16, <1>19, <2>2 DEF Contract!Ask
    <2>4. QED BY <1>13, <2>3 DEF ContractStep, Contract!Next
  <1>20. QED BY <1>18, <1>19

(* Clears, setting changes and a grant of trust answer no launch. *)
LEMMA SessionRefines ==
  ASSUME AllRequests, ClearCache \/ ChangeOpPath \/ GrantTrust \/ UNCHANGED vars
  PROVE  AllRequests' /\ ContractStep
  <1>1. launch' = launch
    BY DEF ClearCache, ChangeOpPath, GrantTrust, vars
  <1>2. trusted' = trusted \/ trusted' = TRUE
    BY DEF ClearCache, ChangeOpPath, GrantTrust, vars
  <1>3. AllRequests'
    BY <1>1 DEF AllRequests, RequestInv, EnvAgrees, AccountAgrees
  <1>4. /\ [m \in Launches |-> launch'[m].request] = [m \in Launches |-> launch[m].request]
        /\ [m \in Launches |-> AnswerOf(launch'[m])] = [m \in Launches |-> AnswerOf(launch[m])]
        /\ [m \in Launches |-> launch'[m].aborted] = [m \in Launches |-> launch[m].aborted]
    BY <1>1
  <1>5. UNCHANGED Contract!vars \/ Contract!GrantTrust
    BY <1>2, <1>4 DEF Contract!vars, Contract!GrantTrust
  <1>6. QED BY <1>3, <1>5 DEF ContractStep, Contract!Next

LEMMA InitRefines == Init => AllRequests /\ Contract!Init
  <1> SUFFICES ASSUME Init PROVE AllRequests /\ Contract!Init
    OBVIOUS
  <1>1. /\ IdleLaunch.pc = "idle" /\ IdleLaunch.outcome = "pending"
        /\ IdleLaunch.request = Unset /\ IdleLaunch.aborted = FALSE
    BY DEF IdleLaunch
  <1>2. RequestInv(IdleLaunch)
    BY <1>1 DEF RequestInv, ExecStages, AccountStages
  <1>3. \A l \in Launches : launch[l] = IdleLaunch
    BY DEF Init
  <1>4. trusted \in BOOLEAN
    BY DEF Init
  <1>5. Contract!Init
    BY <1>1, <1>3, <1>4 DEF Contract!Init
  <1>6. QED BY <1>2, <1>3, <1>5 DEF AllRequests

LEMMA NextRefines == IInv /\ AllRequests /\ IInv' /\ [Next]_vars => AllRequests' /\ ContractStep
  <1> SUFFICES ASSUME IInv, AllRequests, IInv', [Next]_vars PROVE AllRequests' /\ ContractStep
    OBVIOUS
  <1>1. ASSUME NEW l \in Launches, LaunchStep(l) PROVE AllRequests' /\ ContractStep
    BY <1>1, StartRefines, EnvFileRefines, GitRefines, AccountsRefines, ItemsRefines,
       CredentialRefines, InjectReturnsRefines, EndingRefines, AnswersRefine, CancelRefines
    DEF LaunchStep, OpReturns
  <1>2. QED BY <1>1, SessionRefines DEF Next

(* However launches, clears, cancellations and setting changes interleave,   *)
(* resolve() keeps the promise of LaunchContract: each launch is answered at *)
(* most once, with what its own request allows.                              *)
THEOREM Refinement == Spec => ImplementsContract
  <1>1. Init /\ []IInv /\ [][Next]_vars => []AllRequests
    BY InitRefines, NextRefines, PTL
  <1>2. Init => Contract!Init
    BY InitRefines
  <1>3. IInv /\ AllRequests /\ IInv' /\ [Next]_vars => [Contract!Next]_(Contract!vars)
    BY NextRefines DEF ContractStep
  <1>4. QED BY <1>1, <1>2, <1>3, Invariance, PTL DEF Spec, ImplementsContract, Contract!Spec

=============================================================================
