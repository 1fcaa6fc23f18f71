------------------------------- MODULE Release -------------------------------
(***************************************************************************)
(* Cutting and shipping a release: scripts/release.ts as the git and file  *)
(* operations it runs one after the other, any of which can be the last    *)
(* one (a failed command, a closed terminal), and what its user does until *)
(* the next run: discard, check out, delete a half-made release branch,    *)
(* bump the version by hand where the script asks for it, ship.            *)
(*                                                                         *)
(* The major version does not change.  A branch vM.N-dev is                *)
(* <<"branch", N>>, a tag vM.N.P is <<"tag", N, P>>.  The index is the     *)
(* working tree: the script adds what it writes before it commits.         *)
(***************************************************************************)
EXTENDS Integers, Sequences, FiniteSets

CONSTANTS
    FirstMinor,  \* main starts at this minor version
    Shops,       \* "github" and others, which do not differ
    MaxCommits,  \* bound on the commits
    MaxShips,    \* bound on what is shipped
    MaxFiles,    \* bound on what pkg/ holds
    None

(* The steps of a run of release.ts. *)
StepNames ==
    {"branch", "checkout", "write", "changelog", "commit", "tag", "writeNext", "commitNext",
     "checkoutMain", "takeChangelog", "writeMain", "commitMain"}

Versions == [minor: Nat, patch: Nat, dev: BOOLEAN]

ASSUME ReleaseAssumption ==
    /\ FirstMinor \in Nat /\ MaxCommits \in Nat /\ MaxShips \in Nat /\ MaxFiles \in Nat
    /\ None \notin [todo: Seq(StepNames), version: Versions]

VARIABLES
    commits,      \* package.json and CHANGELOG.md of each commit, and its parent
    refs,         \* branches and tags -> commit
    head,         \* the ref that is checked out
    work,         \* package.json and CHANGELOG.md in the working tree
    run,          \* the run of release.ts: what it has still to do
    pkg,          \* versions of the .vsix files in pkg/, which git ignores
    published,    \* <<shop, commit, files>> of what the shops have
    byHand,       \* history: commits that the user made
    interrupted   \* history: minor versions whose run from main did not finish

vars == <<commits, refs, head, work, run, pkg, published, byHand, interrupted>>

Main == <<"main">>
Branches == {r \in DOMAIN refs : r[1] = "branch"}

Version(minor, patch, dev) == [minor |-> minor, patch |-> patch, dev |-> dev]
DevVersion(minor, patch) == Version(minor, patch, TRUE)

(* compareTriples; a branch counts as patch -1. *)
Before(m1, p1, m2, p2) == m1 < m2 \/ (m1 = m2 /\ p1 < p2)

Init ==
    /\ commits = <<[version |-> DevVersion(FirstMinor, 0), preview |-> TRUE, log |-> {}, parent |-> 0]>>
    /\ refs = [r \in {Main} |-> 1]
    /\ head = Main
    /\ work = [version |-> DevVersion(FirstMinor, 0), preview |-> TRUE, log |-> {}]
    /\ run = None /\ pkg = {} /\ published = {} /\ byHand = {} /\ interrupted = {}

FilesOf(c) == [version |-> commits[c].version, preview |-> commits[c].preview, log |-> commits[c].log]
HeadCommit == refs[head]
Clean == work = FilesOf(HeadCommit)

-----------------------------------------------------------------------------
(* main() up to the confirmation. *)

(* A bug: the version is not compared with what has been released. *)
AlwaysAhead(v) == TRUE

(* detectBumpFromVersionState throws for a version that is not ahead. *)
AheadOfReleases(v) ==
    \A r \in DOMAIN refs \ {Main} :
        IF r[1] = "branch" THEN Before(r[2], -1, v.minor, v.patch)
        ELSE Before(r[2], r[3], v.minor, v.patch)

OnBranchPlan == <<"write", "changelog", "commit", "tag", "writeNext", "commitNext">>
MainPlan == <<"branch", "checkout">> \o OnBranchPlan
            \o <<"checkoutMain", "takeChangelog", "writeMain", "commitMain">>

Releasable ==
    /\ Clean
    /\ head = Main \/ head[1] = "branch"
    /\ work.version.dev
    /\ head = Main => AheadOfReleases(work.version)

Start ==
    /\ run = None /\ Releasable
    /\ run' = [todo |-> IF head = Main THEN MainPlan ELSE OnBranchPlan,
               version |-> [work.version EXCEPT !.dev = FALSE]]
    /\ UNCHANGED <<commits, refs, head, work, pkg, published, byHand, interrupted>>

FromMain == run.todo[Len(run.todo)] = "commitMain"

(* A command fails or the process ends: the script stops where it is. *)
Interrupted ==
    /\ run # None
    /\ interrupted' = IF FromMain THEN interrupted \cup {run.version.minor} ELSE interrupted
    /\ run' = None
    /\ UNCHANGED <<commits, refs, head, work, pkg, published, byHand>>

-----------------------------------------------------------------------------
(* The steps of a run. *)

Does(step) ==
    /\ run # None /\ run.todo[1] = step
    /\ run' = IF Len(run.todo) = 1 THEN None ELSE [run EXCEPT !.todo = Tail(@)]
    /\ UNCHANGED <<pkg, published, byHand, interrupted>>

ReleaseBranch == <<"branch", run.version.minor>>
ReleaseTag == <<"tag", run.version.minor, run.version.patch>>

WithRef(r, c) == [q \in DOMAIN refs \cup {r} |-> IF q = r THEN c ELSE refs[q]]

CreateBranch ==
    /\ Does("branch")
    /\ ReleaseBranch \notin DOMAIN refs
    /\ refs' = WithRef(ReleaseBranch, HeadCommit)
    /\ UNCHANGED <<commits, head, work>>

GitCheckout(r) == head' = r /\ work' = FilesOf(refs[r])

CheckoutBranch == Does("checkout") /\ GitCheckout(ReleaseBranch) /\ UNCHANGED <<commits, refs>>
CheckoutMain == Does("checkoutMain") /\ GitCheckout(Main) /\ UNCHANGED <<commits, refs>>

(* A bug: only the version is replaced. *)
WithVersionOnly(files, v) == [files EXCEPT !.version = v]

(* writeVersion: a prerelease version is a preview. *)
WithVersion(files, v) == [files EXCEPT !.version = v, !.preview = v.dev]

Writes(step, v) ==
    /\ Does(step)
    /\ work' = WithVersion(work, v)
    /\ UNCHANGED <<commits, refs, head>>

(* A bug: main stays on the minor version it has released. *)
SameMinor(v) == DevVersion(v.minor, v.patch + 1)

NextMinor(v) == DevVersion(v.minor + 1, 0)

(* A bug: the release branch goes back to the version before the release. *)
SamePatch(v) == DevVersion(v.minor, v.patch)

NextPatch(v) == DevVersion(v.minor, v.patch + 1)

WriteRelease == Writes("write", run.version)
WriteNext == Writes("writeNext", NextPatch(run.version))
WriteMain == Writes("writeMain", NextMinor(run.version))

(* A section for the version, unless there is one. *)
RegenerateChangelog ==
    /\ Does("changelog")
    /\ work' = [work EXCEPT !.log = @ \cup {<<work.version.minor, work.version.patch>>}]
    /\ UNCHANGED <<commits, refs, head>>

Commits(files) ==
    /\ Len(commits) < MaxCommits
    /\ commits' = Append(commits, [version |-> files.version, preview |-> files.preview,
                                   log |-> files.log, parent |-> HeadCommit])
    /\ refs' = WithRef(head, Len(commits) + 1)

CommitVersion ==
    /\ \E step \in {"commit", "commitNext", "commitMain"} : Does(step)
    /\ ~Clean
    /\ Commits(work)
    /\ UNCHANGED <<head, work>>

(* A bug: the tag is set on what was checked out before the release commit. *)
ParentOfHead == commits[HeadCommit].parent

Tagged == HeadCommit

CreateTag ==
    /\ Does("tag")
    /\ ReleaseTag \notin DOMAIN refs
    /\ refs' = WithRef(ReleaseTag, Tagged)
    /\ UNCHANGED <<commits, head, work>>

(* A bug: main keeps the changelog it has. *)
OwnLog == work.log

BranchLog == commits[refs[ReleaseBranch]].log

(* git checkout <branch> -- CHANGELOG.md *)
TakeChangelog ==
    /\ Does("takeChangelog")
    /\ work' = [work EXCEPT !.log = BranchLog]
    /\ UNCHANGED <<commits, refs, head>>

Step ==
    \/ CreateBranch \/ CheckoutBranch \/ WriteRelease \/ RegenerateChangelog
    \/ CreateTag \/ WriteNext \/ CheckoutMain \/ TakeChangelog \/ WriteMain
    \/ CommitVersion

-----------------------------------------------------------------------------
(* The user between two runs. *)

ByUser == run = None /\ UNCHANGED <<run, interrupted>>

Discard ==
    /\ ByUser /\ ~Clean
    /\ work' = FilesOf(HeadCommit)
    /\ UNCHANGED <<commits, refs, head, pkg, published, byHand>>

UserChecksOut(r) ==
    /\ ByUser /\ Clean /\ r \in DOMAIN refs \ {head}
    /\ GitCheckout(r)
    /\ UNCHANGED <<commits, refs, pkg, published, byHand>>

DeleteBranch(r) ==
    /\ ByUser /\ r \in Branches \ {head} /\ r[2] \in interrupted
    /\ refs' = [q \in DOMAIN refs \ {r} |-> refs[q]]
    /\ UNCHANGED <<commits, head, work, pkg, published, byHand>>

(* Where the script refuses and says so: an edit of the version alone. *)
BumpByHand ==
    /\ ByUser /\ Clean
    /\ \/ /\ head = Main /\ ~AheadOfReleases(work.version)
          /\ work' = [work EXCEPT !.version = DevVersion(@.minor + 1, 0)]
       \/ /\ head[1] = "branch" /\ ~work.version.dev
          /\ work' = [work EXCEPT !.version = DevVersion(@.minor, @.patch + 1)]
    /\ Commits(work')
    /\ byHand' = byHand \cup {Len(commits) + 1}
    /\ UNCHANGED <<head, pkg, published>>

(* vsce package --out pkg/: next to the files that are there, unless the user *)
(* has them removed (nx run clean).                                           *)
Package ==
    /\ ByUser
    /\ \E kept \in {pkg, {}} : pkg' = kept \cup {work.version}
    /\ Cardinality(pkg') <= MaxFiles
    /\ UNCHANGED <<commits, refs, head, work, published, byHand>>

(* assertPublishable *)
Publishable == Clean /\ ~work.version.dev

(* gh release create uploads all that is in pkg/, and --verify-tag wants the  *)
(* tag; the others get the .vsix of the version, which must be there.         *)
Uploads(shop, files) ==
    IF shop = "github"
    THEN files = pkg /\ <<"tag", work.version.minor, work.version.patch>> \in DOMAIN refs
    ELSE files = {work.version} /\ work.version \in pkg

(* A shop takes a version once. *)
Ship(shop) ==
    /\ ByUser /\ Publishable
    /\ Cardinality(published) < MaxShips
    /\ \A p \in published : p[1] = shop => commits[p[2]].version # work.version
    /\ \E files \in {pkg, {work.version}} :
          /\ Uploads(shop, files)
          /\ published' = published \cup {<<shop, HeadCommit, files>>}
    /\ UNCHANGED <<commits, refs, head, work, pkg, byHand>>

User ==
    \/ Discard \/ BumpByHand \/ Package
    \/ \E r \in DOMAIN refs : UserChecksOut(r) \/ DeleteBranch(r)
    \/ \E shop \in Shops : Ship(shop)

Next == Start \/ Interrupted \/ Step \/ User

Spec == Init /\ [][Next]_vars

-----------------------------------------------------------------------------
(***************************************************************************)
(* Properties.                                                             *)
(***************************************************************************)

(* A set of commits that holds what a branch or a tag names, and parents. *)
Closed(set) ==
    /\ \A r \in DOMAIN refs : refs[r] \in set
    /\ \A c \in set : commits[c].parent # 0 => commits[c].parent \in set

(* The commits that a branch or a tag leads to: the least such set. *)
Reachable ==
    {c \in DOMAIN commits : \A set \in SUBSET DOMAIN commits : c \in set \/ ~Closed(set)}

Triple(v) == <<v.minor, v.patch>>

(* Wherever runs were interrupted and repeated, a tag names a commit whose    *)
(* package.json has the tag's version, without -dev and not as a preview, and *)
(* whose changelog has its section.                                           *)
TagsAreReleases ==
    \A r \in DOMAIN refs : r[1] = "tag" =>
        /\ commits[refs[r]].version = Version(r[2], r[3], FALSE)
        /\ ~commits[refs[r]].preview
        /\ <<r[2], r[3]>> \in commits[refs[r]].log

(* DEVELOPMENT.md: the release automation keeps preview in sync with the      *)
(* version, also after the user has edited the version alone.                 *)
PreviewInSync ==
    \A c \in DOMAIN commits \ byHand : commits[c].preview = commits[c].version.dev

(* A release is never cut twice: two commits that a branch or a tag leads to  *)
(* do not both claim to be the same release, whichever runs broke off and     *)
(* whichever branches were deleted to start over.                             *)
ReleasedOnce ==
    \A c, d \in DOMAIN commits :
        c # d /\ ~commits[c].version.dev /\ commits[c].version = commits[d].version
            => c \notin Reachable \/ d \notin Reachable

(* Along every branch the version moves forward: -dev, release, next -dev.    *)
VersionsMoveForward ==
    \A c \in DOMAIN commits : commits[c].parent # 0 =>
        LET new == commits[c].version
            old == commits[commits[c].parent].version
        IN \/ Before(old.minor, old.patch, new.minor, new.patch)
           \/ Triple(old) = Triple(new) /\ old.dev /\ ~new.dev

(* A run from main that is not interrupted leaves main ready for the next     *)
(* one: a clean -dev version ahead of every release, whose branch is free.    *)
NextReleaseIsPossible ==
    run = None /\ head = Main /\ Clean /\ interrupted = {} =>
        Releasable /\ <<"branch", work.version.minor>> \notin DOMAIN refs

(* The changelog of a release tells of every minor release before it, apart   *)
(* from those whose run broke off before main took the changelog over.        *)
ChangelogKeepsReleases ==
    \A r, q \in DOMAIN refs :
        /\ r[1] = "tag" /\ q[1] = "tag"
        /\ q[2] < r[2] /\ q[3] = 0 /\ q[2] \notin interrupted
        => <<q[2], q[3]>> \in commits[refs[r]].log

(* Whatever is checked out when ship-github.ts runs, between two steps of a   *)
(* broken run too, it is the commit of the tag that the release is made for,  *)
(* so that the .vsix which nx packages just before is the tag's own.          *)
ShippedFromItsTag ==
    \A p \in published : p[1] = "github" =>
        LET v == commits[p[2]].version
            tag == <<"tag", v.minor, v.patch>>
        IN tag \in DOMAIN refs /\ refs[tag] = p[2]
=============================================================================
