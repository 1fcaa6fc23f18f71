# Secret Resolver: TLA+ models, checks and proofs

Secret Resolver is a VS Code extension that resolves 1Password references
(`op://...`) in launch configurations. This directory models what is hard about
it: launches that share one cache across awaits, what five text formats do to a
secret on its way to the program, the stop-signal sequence of a debug session
among processes that come and go, temp directories with env files that have to
outlive neither their session nor a crash, and the script that cuts its releases.
The models are translated from the code in `src/` of the repository, not from
its documentation; where the two disagree, a run shows it (see
[Findings](#findings)). `PROJECT.json` names the source lines each definition
stands for.

## The system

| Component | Source | State it keeps | Operations |
|---|---|---|---|
| launch resolution | `resolveLaunchConfig.ts` | locals of each `resolve()` call, across awaits | `resolve`: env, markers, account, token, stripping, refs |
| account and token resolvers | `accountResolver.ts`, `gitRunner.ts`, `tokenResolver.ts` | none, they use the cache | `resolve` |
| op runner | `opRunner.ts` | a template directory for each `inject` call | `inject`, `listAccounts`, `listItems`, `getItemCredential`, `buildRunArgs` |
| caches | `resolverCache.ts`, `secretCache.ts` | encrypted entries under hashed keys, a session key | get, set, `clear` |
| provider and settings | `configProvider.ts`, `vscodeAdapters.ts` | the current resolver | resolve with an `AbortSignal`, `refreshResolver`, `read` |
| stop-signal controller | `stopSignalController.ts` | pid, launch marker, two flags, one timer handle | DAP messages, timer callbacks, signals |
| process lookup | `processTree.ts` | none | `pgrep` lookup, `pidtree` walk |
| debug adapter tracker | `debugAdapterProxy.ts` | the directories of its session | `onDidSendMessage`, `onWillReceiveMessage`, `onWillStopSession`, `onExit` |
| terminal env rewriter | `runInTerminalEnvRewriter.ts` | none | `rewrite`: merge, temp directory, env file, `.pid`, wrapper |
| dotenv files | `dotenv.ts` | none | `parse`, `format` |
| temp dir registry | `tempDirRegistry.ts` | the set of directories | `add`, `remove`, `cleanup`, `sweepStale` |
| extension | `extension.ts` | cache, registry | `activate`, `deactivate`, Clear Cache, settings and process events |
| session config codec | `sessionConfig.ts` | none | `build`, `parse` |
| release scripts | `scripts/`, `project.json` | the git work tree, branches and tags, `pkg/`, the shops | `release.ts`: bump, changelog, commit, tag; package; ship to three shops |

How they interact: VS Code calls the provider once for each launch. `resolve()`
awaits child processes (git, op) and reads and writes the one `SecretCache` of
the window between them; the Clear Cache command and the opPath listener clear
that cache at any moment. The configuration it returns carries the stop steps
and the account to the session, whose tracker sees every DAP message. The
tracker turns a `runInTerminal` request into `op run --env-file=...`, hands the
new directory to itself, to the registry and, as a launch marker, to the
controller, and forwards messages to the controller. Nothing awaits the
controller's lookups and walks. Windows share nothing but `os.tmpdir()`.

What is hard here: interleavings at every await over one cache; cancellation at
any of them; a timer handle shared by overlapping sequences; continuations that
resume after the program has gone; crashes between two file operations; pids
that are used again; values that contain the delimiters of the formats they pass;
a release script that breaks off between two of its git operations.
`PROJECT.json` lists each hazard at its line.

What makes each part correct:

- *cache and launches*: an entry is what its key says; a returned configuration
  is complete and of its own scope; a clear is complete; a cancelled launch ends;
- *stop signals*: steps run in order, none lost, none early, none after the exit;
- *signals and processes*: a step reaches the tree below its root as it was when
  the step began, never the process that hosts the terminal, and no outsider;
- *formats*: the program sees each variable exactly as it was meant, no secret
  leaves in a `runInTerminal` request unless the wrapper was given up and the user
  warned of it, and a session obeys its marker as a whole or not at all;
- *secret cache*: it behaves as a plain map that `clear` empties, and memory never
  holds an old key beside what it encrypted;
- *temp directories*: a sweep takes nothing from a live host and leaves nothing
  it can recognise; no env file outlives its session or escapes every clean-up;
- *releases*: a tag names its release, nothing is released twice, no minor release
  is lost from the changelog, and GitHub's release is made on the commit of its tag,
  wherever a run breaks off.

## Modules

`LaunchResolver` models several `resolve()` calls over one cache. An action is
one turn of the event loop, from the completion of an awaited operation to the
next real await. The stretches of synchronous code are operators (`AfterEnv`,
`AfterEmail`, `AfterAccount`, `AfterToken`) that take a launch as it is after an
await and return it as it is at the next, so a cache hit skips the await as it
does in the code. A call of op is two actions, the moment op reads the vault
and the moment its output arrives. Markers, settings, the env file and
sanitisation are functions from names to values. Values carry where they were
read (`owner`, `tag`, `op`) and when (`era`, the number of clears when the launch
started); `era`, `drops` and `quietEra` are history and guard nothing but the
bound `MaxDrops`. op and git are external: any answer, failure or silence.

`LaunchContract` is the abstract specification of `resolve()` as VS Code sees it,
without cache, stages, tokens or child processes: a launch is asked for, may be
cancelled, and gets at most one answer. `Promised` (in `LaunchResolver`) says which
answers a request allows whatever else is under way: an env that is one of those
the request can mean (`EnvsOf`: the env file, if it can be read, under the launch's
own env), stripped, with each remaining reference replaced by a value of an account
and tag the request allows (`AccountsOf`, `TagOf`) and nothing else changed. Nothing
runs in an untrusted workspace. `LaunchResolver` implements it under the mapping that
reads a launch's request, outcome, final env and `aborted` (`ImplementsContract`).

`SecretCache` models the cache that `LaunchResolver` takes for a map: entries
under HMAC names, values encrypted under a session key that `clear` overwrites
and replaces, and the buffers that stay in the heap until they are collected. The
cryptography is ideal. `CacheContract` is the abstract specification, a plain map
that `clear` empties; `SecretCache` implements it under the mapping that looks
each name up (`ImplementsContract`).

`TerminalLaunch` follows one launch from its sources to the program: the env file
is parsed and merged, references are resolved, the configuration carries env and
stop steps to the session, the adapter asks for a terminal, the request is
rewritten, and op run reads the written file. A rewrite that throws, in one of its
file operations or because a key does not fit a dotenv file, passes the request on as
it came, after a warning. It uses the formats on the
way, which are operators: `Dotenv` (`format`, `parse` and op run's reader),
`InjectTemplate` (the template of op inject and the reading of its output) and
`LaunchMarkers` (`parseSignalOnStop` and the session config codec). A value is a
sequence of characters, so that quotes, backslashes, dollars and newlines can
meet; texts are read by recursive functions, from the right, and by `FlattenSeq`,
which the proofs can unfold. `EnvAssumption` says what envs a launch can have:
names are texts, values are texts or `null`, and a variable of an env file has a
valid name and a value of one line, without quotes of its own unless the file
quotes it, since the file would not otherwise declare it. Between `build` and `parse` another extension may have changed the field.

`StopSignalController` models the controller of one session. Its first six
variables are the fields of the class. `armed` is what Node holds: the timers,
by stop and step, with the ticks left. `walks` and `phase` are the continuations
in flight. `since`, `begun` and `sent` are history. A tick is one second; a
timer may fire late, never early.

`ProcessTree` extends that module with the processes: the terminal, the
`op run` wrapper, the program, what it forks, and strangers. Its actions are the
controller's, with the pids, lookups and walks tied to the process table
(`Elsewhere`, `Response`, `LookupEnds`, `WalkLists`, `WalkSignals`), and the births
and deaths of processes at any moment in between; a walk is two actions, the
listing and the signals. The response to `runInTerminal` names the shell, nothing, or
(`processId`) the wrapped command. A free pid is used again, by any process. One assumption
about the system is in it: a pid that a walk has listed is not handed out until
the walk has signalled it, because it does so in the turn in which the listing
comes back and pids go round in a cycle of at least 32768. `early` and `owner`
are history.

`TempDirs` models several extension hosts on one temp directory. Everything a
host does there is synchronous except `inject`, so `task` says what it is in the
middle of, and a busy host does nothing else; yet every file operation is an
action, because other hosts run and crashes happen between them. `rmSync`
unlinks files in any order (the template directory of `inject`, in which no other
process finds a `.pid`, comes and goes in one action each). `.pid` exists empty
before it is filled, and a sweep may fail to read it. A dead host's pid can be used again.

`Release` models a run of `release.ts` as the list of git and file operations it
has still to do, and what its user does between two runs: discard, check out,
delete a half-made release branch, bump the version by hand where the script asks
for it, package, ship. Any operation can be the last of its run. Commits are records of
version, preview flag and changelog; branches and tags are names for them. `pkg`
holds the versions that the names of the `.vsix` files in `pkg/` say; git ignores that
directory, so it is the same under every checkout. `Package` adds the version of the
work tree to it, to an empty one if the user runs `clean` first. `Ship` uploads to
GitHub all that `pkg/` holds, and to the other shops the file of the version.

The modules whose names begin with `MC` give the constants their values for TLC,
those that end in `Proofs` hold the theorems. An operator marked *A bug* in a
component module is a variant of the definition after it, used to test that the
properties can fail: substituting it for that definition makes TLC report the
property that `PROJECT.json` names.

## Runs

| Run | Shows |
|---|---|
| `LaunchSafety` | `CacheTruthful`, `ServedInScope`, `AllOrNothing`, `QuietDropIsComplete`, `RunsConfiguredOp`, `TypeOK` and the refinement of `LaunchContract` for two launches, six requests, one clear or opPath change |
| `LaunchLiveness` | `CancelledLaunchEnds`, with op and git never obliged to answer |
| `SecretCache` | the cache refines `CacheContract`; `DumpShowsRecentOnly`, `TypeOK` |
| `TerminalPath` | `ProgramSeesItsEnv` and `SecretsLeaveOnlyWithAWarning` for every text up to two awkward characters; `SessionObeysItsMarker`, `WholeSequenceOrNone`, `AccountReachesOpRun` for README.md's examples of a marker |
| `StopSequences` | `HandleIsLive`, `SingleStopIsTracked`, `RemainingStepsArmed`, `GraceIsKept`, `NoStepAfterExit`, `TypeOK` and the liveness property `StopCompletes` for two stops over three step sequences |
| `TreeSignals` | `HostIsSpared`, `OutsidersAreSpared`, `DescendantsAreSignalled` and the liveness property `KillEndsProgram` for integrated and external terminals |
| `Dirs` | `SweepSparesLive`, `HandedLeftoverIsSweepable`, `SweepIsComplete`, `CleanupFindsAll`, `NothingOutlivesItsSession`, `TypeOK` |
| `Release` | `TagsAreReleases`, `PreviewInSync`, `ReleasedOnce`, `VersionsMoveForward`, `NextReleaseIsPossible`, `ChangelogKeepsReleases`, `ShippedFromItsTag` |
| `LaunchStale`, `LaunchToken`, `TerminalUnset`, `StopOrder` | a sentence of the documentation that the code does not keep |

All but `SecretCache` set `CHECK_DEADLOCK FALSE`: launches, sessions, hosts and
processes run at most once each and commits are bounded, so these models really
stop.

The bounds. *Launches*: two, since the entries of the cache are independent and
a third launch could only repeat what the second one does to the first; the six
requests cover every account kind, a tag shared by two accounts, an env file, a
ref that is stripped, a bad git directory and no env at all. `MaxDrops = 1`
lets a clear fall anywhere in both launches (0 in the liveness run, where
clears play no part). *Secret cache*: two names and two values, so that entries
can be told apart and overwritten, and three keys, so that an entry can survive
two clears if it survives one. *Formats*: an escape has two characters, so texts
of two show whatever an escape and its neighbour do to each other. To keep texts
and markers from multiplying, `Separate` checks every text with no marker, and
every marker with a few texts up to the request, on which it no longer depends.
*Stops*: two overlapping sequences, so that one takes the handle of the other;
sequences with a delayed step after an immediate one, with a delayed, an
immediate and a delayed one, and empty; delays of one and two ticks stand for any
two, `MaxTimerDelay` for 2^31 - 1 ms, and `MaxGap` is as long as the longest delay.
*Processes*: `TreeSignals` has one stop with TERM and a delayed KILL, a fork and a
stranger, and two processes that end by themselves (`MaxExits`): one to cut the
tree and one to free a pid. `PidsFor` tells the launch's own pids apart and gives
the stranger those of the terminal and of the fork, the two that matter: a root
and a target. *Hosts*: three with one session, so that one crashes, one sweeps and
one takes the first one's pid or sweeps as well, or one host with two sessions
(`MaxStarts`), so that the one's clean-up can meet the other's directories; two
directories, so that a sweep has something left after the first, and then two pids,
or one directory and three pids, so that two hosts can sweep the same leftover of a
third. *Releases*: seven commits are two runs
from main, or one from main, one from its release branch and a bump by hand.
Packaging and shipping change
nothing of that and are followed over four commits (`MaxPackaged`), enough for a release
that is begun twice and for a release and its patch: two files in `pkg/`, so that one is
left from before, and two things shipped, as a shop takes a version once. Hosts, sessions, pids and launches
are symmetric in the safety runs.

The fairness. `HostFairness`: a file read ends, a child's output is delivered,
an aborted child is reaped; all of that is the host's own event loop. Nothing is
assumed of op, which may wait for a prompt, of git or of the user. `Fairness` of
the controller: time passes, Node fires timers that are due, and `pgrep` and
`pidtree` answer, as neither waits for anything but the system. Nothing is
assumed of the adapter, the program or the user. `TreeFairness` asks less: as long
as one of these steps can be taken, one is; each brings the sequences nearer to
their end, so none can starve another. No process is assumed to exit.

## Findings

- `LaunchStale`: an `op inject` in flight during Clear Cache stores its older
  value afterwards, and the next launch is served it. With no launch in flight
  a clear is complete (`QuietDropIsComplete`).
- `LaunchToken`: a service-account token is cached by its tag alone, so launches
  pinned to different accounts share it, and the values with it. Values are still
  of the launch's own tag, and of its own account where there is no tag
  (`ServedInScope`).
- `TerminalUnset`: a variable that the adapter unsets is left out of the env file,
  but the rewritten request does not say so any more, and the program sees the
  value of the terminal's own environment. Without the wrapper it would not.
- `StopOrder`: tree walks are not awaited, so a later signal can overtake.

Some disagreements need no interleaving to see and have no run:

- README.md:297-299 says that for terminal-mode launches the env never touches the
  request, and README.md:306-307 that each one with an env is wrapped. When
  `mkdtempSync` or a write throws, or a key cannot be written
  (`runInTerminalEnvRewriter.ts:60-70`), the request goes on unwrapped, with the resolved
  values in its env. `RunInTerminal` does so; what holds is that the user is warned
  whenever a value leaves that way (`SecretsLeaveOnlyWithAWarning`);
- DEVELOPMENT.md:49-50 says that the ship targets publish the `.vsix` of the current
  version. `ship-github.ts` uploads every file of `pkg/` (`Ship`), which packaging adds
  to and only `clean` empties, so that an earlier or a `-dev` version packaged in the same
  checkout goes along. The workflow's checkout is fresh and holds one file;
- a cancellation during git, account or token lookup is shown as an error; only
  during inject is it silent;
- an empty `sanitizeVars` setting reads as not set and does not disable stripping;
- a delay above 2^31 - 1 ms fires at once (`GraceIsKept` is proved for the others);
- a crash between the env file and `.pid`, or inside a removal, leaves an env file
  no sweep recognises. From the moment a terminal is given the file until its
  removal begins a crash is harmless (`HandedLeftoverIsSweepable`);
- a sweep passes over a leftover whose `.pid` it cannot read, or whose `.pid` another host's sweep has already
  unlinked; if that host crashes before it unlinks the env file too, the file
  stays. `SweepIsComplete` speaks of the leftovers whose `.pid` could be read and
  is still there when the sweep ends;
- a process whose parent has ended is found below no root and gets no signal;
- for an external terminal the root is what `pgrep` lists first, the emulator or
  the wrapper, and the root is not signalled; README.md counts the wrapper among
  the signalled processes;
- a directory that a terminal gets after `deactivate` is registered in a registry that
  `exit` no longer drains; only the end of its session removes it, so `CleanupFindsAll`
  is no promise that the end of the host does;
- a release run that ends between the release commit and its tag leaves a commit
  that no later run tags;
- a repeated ship workflow fails at `gh release create`, before the other shops.

One more is a matter of reading: the pending step is cancelled when the adapter
exits, with the program still running, so that a program that ignores TERM is
never killed. README.md speaks of the program's exit only, a runtime test expects
the cancellation on either; `RemainingStepsArmed` and `KillEndsProgram` allow both.

## Proofs

Each proof module shows that an inductive invariant holds of the specification
and derives the properties from it, for every value of the constants.

`LaunchResolverProofs` proves `TypeOK`, `CacheTruthful`, `ServedInScope` and
`AllOrNothing`. They are not inductive: a value in the cache is right because
the launch that stored it was right while it waited. `IInv` therefore says of
every launch what its locals mean at its stage: the token it holds is of its own
tag, what op has answered and what it has taken from the cache so far is in its
scope, and one that has ended well has every ref it kept. The proof takes the
synchronous stretches one by one, each as a lemma that a good launch stays good,
and the actions cite them. Assumptions: `ConstantsAssumption` (which gives the
constants their types) and `ValueAssumption` (a value op returns is not a string
the user typed, so that an unresolved reference can be told from a resolved one).

Its last part adds to that invariant when and by which binary values were
read, and proves `QuietDropIsComplete` and `RunsConfiguredOp`. `EraInv` says that
a launch in flight has read whatever it has in hand in its own era and by its own
binary, that the eras of such launches and of the refs in the cache lie between
the last drop that met no launch and the present, and that whoever is of the
present era runs the configured binary. The bound of the drops, `MaxDrops`, is any
number.

The same module proves that `LaunchResolver` implements `LaunchContract`
(`Refinement`). A launch takes its env, e-mail and account from its request step by
step, and settings, lookups and the cache have a part in it, so `RequestInv` says
of each stage which of them it has by then and that each is one the request allows.
`IInv` supplies what it rests on: a cached account is the one of its e-mail, a
served value is in scope, and nothing kept is missing. Every action of a launch is then
an `Ask`, an `Answer`, a `Cancel` or a stutter (`StepOfOne`), and those of the
session are `GrantTrust` or a stutter.

`StopSignalProofs` proves `TypeOK`, `HandleIsLive`, `SingleStopIsTracked`,
`RemainingStepsArmed` and `NoStepAfterExit` under `ConstantsAssumption`, and
`GraceIsKept` under the further assumption, stated in the theorem, that every
configured delay fits `setTimeout` and the elapsed time is counted that far;
`IInv` says that the steps begun
are an initial part of the configured ones, that an armed timer is for the step
after it, and that the elapsed time and what is left of the timer together make
up at least its delay.

`SecretCacheProofs` proves `TypeOK`, `DumpShowsRecentOnly` and the refinement of
`CacheContract`, from `NoneAssumption`. The invariant says that the only key in
memory is the current one and that an entry is what was set last under its name,
so `Lookup` changes exactly where the abstract map does; collecting a buffer is a
stutter.

`ProcessTreeProofs` proves first that every step of `ProcessTree` is one of the
controller or leaves it alone (`TreeSpec => Spec`), so that what is proved of the
controller holds among processes too. Then it proves `HostIsSpared`,
`OutsidersAreSpared` and `DescendantsAreSignalled` for any processes, pids and
launches, under `ProcsAssumption` (the processes are distinct). None of the three
is inductive: a listing is made of the tree as it is, and what it is used on is the
tree some births and deaths later. `TreeInv` adds that pids are unique, that
parents are alive, that nobody in `early` has a parent who is not, and that a
listing is closed under the children who were there (`ListingsOK`). The root needs
an argument of its own: a walk may still name a pid that has become free, and must
not take a later terminal or wrapper for its root; `RootsAreSettled` says that
whoever a walk's root could name has been born. `Below` is the least set closed
under children, so each proof gives a closed set that leaves out the right
processes.

`TempDirsProofs` proves all six invariants of `TempDirs`, for any number of hosts,
sessions, pids and directories, under `ConstantsAssumption`. The hosts share the
disk and nothing else, so the proof is one of rely and guarantee. `Spares(h)` is what every
action of another host leaves `h`: its fields, its directories and what it
has read of a dead owner. `IInv` is a conjunction over the hosts: a removal
in progress is of the host's own directory or of one whose owner is dead
(`RemovalTask`), what a sweep has read is the pid the owner wrote, since `.pid` is
filled once and a host's pid is given away only after its death, and what is due to
a sweep is still to do, under removal, gone or stripped of its `.pid`. An action of
`h` then has to keep the conjuncts of `h` alone; the frame lemmas `DueKeeps`,
`WorkKeeps`, `QuietKeeps` and `OneDirKeeps` say for what an action must not touch.
The proof of `SweepIsComplete` found the case of two sweeps named under
[Findings](#findings), which two pids had not shown.

`ReleaseProofs` proves the seven invariants that `Release` checks, for any number of
commits, runs and interruptions, from `ReleaseAssumption`. Its invariant has four
layers, each on top of those before. `CoreInv`: what is left of a run is an end of
one of the two plans, and what the work tree, the branch and the tag hold follows
from where it begins; `TagsAreReleases`, `PreviewInSync` and
`VersionsMoveForward` follow from it. `OnceInv`: of what can still
be reached of a minor version, everything is the last commit of its branch or comes
before it, and where the branch is gone nothing is left unless there is a tag
(`BranchOrder`). `Reachable` is the least closed set, so each step's proof gives a
closed set that leaves out the right commits. With it come `ReleasedOnce` and
`ShippedFromItsTag`: what is shipped to GitHub has the version of a tag, and no other
commit that can be checked out has it. `AheadInv`: as long as no run broke off,
main is ahead of every branch and tag except while its own run is under way; this
is `NextReleaseIsPossible`. `LogInv`: the changelog of
main, and of every later branch and tag, holds the minor releases whose runs came
to their end; this is `ChangelogKeepsReleases`.

`FormatProofs` proves what the formats do to texts of any length over any
characters, where the run `TerminalPath` has two characters at most.
`UnescapedEscaped`: op run's reader undoes `formatValue`'s escapes.
`OpReadsWhatFormatWrites`: it reads from the file `format` writes the entries it
was written from. `ParseReadsWhatAFileDeclares`: `parse` reads every entry of an
env file in each of its styles. `TemplateReturnsTheValues`: `parseOutput` finds
for each reference its value, whatever lines that has; the sentinels carry a
fresh uuid, so the model takes it that no value holds one. All of these are
inductions over texts, and the provers cannot instantiate an induction theorem
for a predicate. They can for a set: `TextInduction` says that a set of texts
that holds the empty one and is closed under appending a character holds all of
them, and each lemma applies it to the set of the texts it is true of. A recursive
function on the positions of a text is shown to exist by the same induction, and
what it computes from the second position on is what it computes for the rest of
the text (`UnescapesShift`, `LinesShift`). What remains is algebra on
concatenations: `FlatMapCat` for escaping, filling in and flattening, one lemma for
each form a line can have, and the positions of the sentinels, each of which
occurs once.

`TerminalLaunchProofs` proves the five invariants that `TerminalPath` checks. Three do not
depend on how a text is written: `WholeSequenceOrNone`, `AccountReachesOpRun` and
`SecretsLeaveOnlyWithAWarning`, for any envs, accounts, marker texts and vaults, from
`LaunchAssumption` (no account has an empty id: `resolveLaunchAccount` pins none
for an empty variable or setting, and op's uuids are not empty).
`SessionObeysItsMarker` has README.md's examples on its right side;
`ParserReadsReadmeExamples` shows that `ParseSignalOnStop` reads each of them as
README.md says, whatever its delays (`ReadmeAssumption`: a delay is a number, and no
text stands for no marker). The invariant follows the session field from
what resolve built (`Built`) to the parse of it or of what another extension made
of it; two lemmas about the codec carry it, `ParseOfBuild` and `ParseOfChanged`.

`ProgramSeesItsEnv` speaks of the two ends of a launch only, its sources and what
the program sees, so its invariant, `EnvInv`, says what the env is in between:
the configuration holds the env that is meant, the references in it replaced
(`ResolvedEnv`), the tracker keeps it (`SessionEnv`), a rewritten request has an
empty env and the disk holds the file that `format` makes of it and of the adapter's
changes (`HandedOver`), and the program has the entries of that file on top of
its shell's (`Started`). The theorems of `FormatProofs` carry it over the
texts, `FileOnTopOfShell` over the order in which the three envs are merged. It holds from
`EnvAssumption` and `LaunchAssumption`, for any texts.

So every invariant that the passing runs check is a theorem, and so are the
two refinements (`ImplementsContract`) and the action properties. Only model-checked: the
liveness properties (`CancelledLaunchEnds`, `StopCompletes`, `KillEndsProgram`), as
fairness and ENABLED are out of the provers' reach, and what the four runs of
[Findings](#findings) refute.

## Not modelled

Logging, message texts and layout, the notifier and the icon generator: they keep
no state. Windows, which the tracker leaves alone. The vault changes only with a
clear, so which of two concurrent reads is newer is not asked. Of the release
scripts: the text of changelog entries, formatting with eslint and dprint, the
confirmation prompt, credentials, what is inside a `.vsix` file (a file that is packaged
on one commit and shipped on another of the same version is not told apart; the ship
targets depend on `package`, which packages what is checked out), nx's cache of `pkg/`,
`GITHUB_REF_NAME` in the
workflow, and a change of the major version. `DevVersion` and `Version` therefore
have no major part. A `processId` in the response to `runInTerminal` of a launch that
is not wrapped: VS Code reports the shell, and the program would be its own root.
