-------------------------- MODULE MCLaunchResolver --------------------------
(***************************************************************************)
(* Two launches over requests that share the ref db but differ in account, *)
(* tag, envFile and sanitisation.                                          *)
(***************************************************************************)
EXTENDS LaunchResolver, TLC

CONSTANTS l1, l2, db, key, ci, ada, acctA, acctB, plain, outside, default, op1, op2

MCLaunches == {l1, l2}
MCRefs == {db, key}
MCTags == {ci}
MCEmails == {ada}
MCAccounts == {acctA, acctB}
MCPlain == {plain}
MCOutsideDirs == {outside}
MCPatterns == {default}
MCOpPaths == {op1, op2}

MCEnvKeys == Markers \cup {"DB", "KEY", "OP_REF"}
MCStrips == [p \in {default} |-> Markers \cup {"OP_REF"}]
MCAccountOf == [e \in {ada} |-> acctA]

NoSettings == [m \in Markers |-> Empty]
DefaultSettings == [NoSettings EXCEPT !["SANITIZE_VARS"] = default]

Map(some) == [k \in MCEnvKeys |-> IF k \in DOMAIN some THEN some[k] ELSE Unset]
Env(some) == [env |-> Map(some), file |-> Unset]

(* Pinned to account B by id; OP_REF names a ref that is stripped. *)
ById == Env("ACCOUNT_ID" :> acctB @@ "DB" :> db @@ "OP_REF" :> key)

(* Account A through git config, with a service-account token. *)
ByGit == Env("GIT_CONFIG" :> plain @@ "TOKEN_TAG" :> ci @@ "DB" :> db)

(* Account A by e-mail, a second ref from an env file, which also names DB. *)
ByEmail == [env |-> Map("EMAIL" :> ada @@ "DB" :> db), file |-> Map("KEY" :> key @@ "DB" :> key)]

(* Account B with the tag that ByGit uses for account A. *)
TaggedById == Env("ACCOUNT_ID" :> acctB @@ "TOKEN_TAG" :> ci @@ "DB" :> db)

(* A git subdirectory outside the workspace; no env at all. *)
BadDir == Env("GIT_CONFIG" :> outside @@ "DB" :> db)
Bare == [env |-> Unset, file |-> Unset]

AllRequests == {ById, ByGit, ByEmail, TaggedById, BadDir, Bare}
TaggedRequests == {ByGit, TaggedById}
UntaggedRequests == {ById, ByEmail}

Symmetric == Permutations(MCLaunches)
=============================================================================
