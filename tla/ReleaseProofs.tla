---------------------------- MODULE ReleaseProofs ----------------------------
(***************************************************************************)
(* What cutting and shipping releases guarantees for any number of         *)
(* commits, releases and shops, wherever a run of the script breaks off.   *)
(*                                                                         *)
(* Four layers, each an inductive invariant on top of the ones before:     *)
(* what each step of a run finds (CoreInv), which commits of a release     *)
(* branch are still reachable (OnceInv), how far main is ahead (AheadInv)  *)
(* and what the changelogs hold (LogInv).                                  *)
(***************************************************************************)
EXTENDS Release, SequenceTheorems, TLAPS

Log == SUBSET (Nat \X Nat)
Files == [version: Versions, preview: BOOLEAN, log: Log]
Commit == [version: Versions, preview: BOOLEAN, log: Log, parent: Nat]

IsRef(r) == r = Main \/ r \in {"branch"} \X Nat \/ r \in {"tag"} \X Nat \X Nat

(* The steps in their order; a run from a release branch does those from     *)
(* "write" to "commitNext".                                                  *)
Order == <<"branch", "checkout", "write", "changelog", "commit", "tag", "writeNext",
           "commitNext", "checkoutMain", "takeChangelog", "writeMain", "commitMain">>

(* What is left of a run are the steps from the k-th to the last one. *)
RestOf(todo, k, last) ==
    /\ last = k + Len(todo) - 1 /\ Len(todo) >= 1
    /\ \A i \in 1..Len(todo) : todo[i] = Order[k + i - 1]

IsRest(todo) ==
    \/ \E k \in 1..12 : RestOf(todo, k, 12)
    \/ \E k \in 3..8 : RestOf(todo, k, 8)

Runs == [todo: Seq(StepNames), version: Versions]

Typed ==
    /\ commits \in Seq(Commit)
    /\ \A c \in DOMAIN commits : commits[c].parent \in DOMAIN commits \cup {0}
    /\ \A r \in DOMAIN refs : IsRef(r) /\ refs[r] \in DOMAIN commits
    /\ Main \in DOMAIN refs /\ head \in DOMAIN refs
    /\ work \in Files
    /\ run # None => run \in Runs /\ ~run.version.dev /\ IsRest(run.todo)

(* The commits of main are those with a version M.N.0-dev. *)
OnMain(c) == commits[c].version.dev /\ commits[c].version.patch = 0
Minor(c) == commits[c].version.minor

Lines ==
    /\ OnMain(refs[Main])
    /\ \A r \in Branches : Minor(refs[r]) = r[2]
    /\ \A c \in DOMAIN commits :
          commits[c].parent # 0 /\ ~OnMain(commits[c].parent) =>
            ~OnMain(c) /\ Minor(c) = Minor(commits[c].parent)

Doing(steps) == run.todo[1] \in steps
DevOf(v) == DevVersion(v.minor, v.patch)

(* What the step that is next finds. *)
InRun ==
    LET v == run.version
        at == commits[HeadCommit]
    IN
    /\ FromMain => v.patch = 0 /\ commits[refs[Main]].version = DevOf(v)
    /\ Doing({"branch", "checkout"}) => head = Main /\ Clean
    /\ Doing({"branch"}) => AheadOfReleases(v)
    /\ Doing({"checkout"}) => ReleaseBranch \in DOMAIN refs /\ refs[ReleaseBranch] = refs[Main]
    /\ Doing({"write", "changelog", "commit", "tag", "writeNext", "commitNext", "checkoutMain"})
         => head = ReleaseBranch
    /\ Doing({"write", "changelog", "commit"}) => at.version = DevOf(v)
    /\ Doing({"write"}) => Clean
    /\ Doing({"changelog", "commit"})
         => work.version = v /\ ~work.preview /\ at.log \subseteq work.log
    /\ Doing({"commit"}) => <<v.minor, v.patch>> \in work.log
    /\ Doing({"tag", "writeNext", "commitNext"})
         => at.version = v /\ ~at.preview /\ <<v.minor, v.patch>> \in at.log
    /\ Doing({"tag", "writeNext"}) => Clean
    /\ Doing({"commitNext"}) => work.version = NextPatch(v) /\ work.preview /\ work.log = at.log
    /\ Doing({"checkoutMain", "takeChangelog", "writeMain", "commitMain"})
         => /\ ReleaseBranch \in DOMAIN refs /\ ~OnMain(refs[ReleaseBranch])
            /\ <<v.minor, v.patch>> \in BranchLog
    /\ Doing({"takeChangelog", "writeMain", "commitMain"}) => head = Main
    /\ Doing({"writeMain", "commitMain"}) => work.log = BranchLog
    /\ Doing({"commitMain"}) => work.version = NextMinor(v) /\ work.preview

RunInv == run # None => InRun

CoreInv ==
    /\ Typed /\ Lines /\ RunInv
    /\ TagsAreReleases /\ PreviewInSync /\ VersionsMoveForward

-----------------------------------------------------------------------------
(* The plans. *)

LEMMA Plans ==
  /\ MainPlan \in Seq(StepNames) /\ Len(MainPlan) = 12
  /\ \A i \in 1..12 : MainPlan[i] = Order[i]
  /\ OnBranchPlan \in Seq(StepNames) /\ Len(OnBranchPlan) = 6
  /\ \A i \in 1..6 : OnBranchPlan[i] = Order[i + 2]
  <1> DEFINE first == <<"branch", "checkout">>
             last == <<"checkoutMain", "takeChangelog", "writeMain", "commitMain">>
  <1>1. /\ first \in Seq(StepNames) /\ Len(first) = 2
        /\ first[1] = "branch" /\ first[2] = "checkout"
    BY DEF StepNames
  <1>2. /\ last \in Seq(StepNames) /\ Len(last) = 4
        /\ last[1] = "checkoutMain" /\ last[2] = "takeChangelog"
        /\ last[3] = "writeMain" /\ last[4] = "commitMain"
    BY DEF StepNames
  <1>3. /\ OnBranchPlan \in Seq(StepNames) /\ Len(OnBranchPlan) = 6
        /\ OnBranchPlan[1] = "write" /\ OnBranchPlan[2] = "changelog"
        /\ OnBranchPlan[3] = "commit" /\ OnBranchPlan[4] = "tag"
        /\ OnBranchPlan[5] = "writeNext" /\ OnBranchPlan[6] = "commitNext"
    BY DEF OnBranchPlan, StepNames
  <1> DEFINE start == first \o OnBranchPlan
  <1>4. MainPlan = start \o last
    BY DEF MainPlan
  <1> HIDE DEF first, last
  <1>5. /\ start \in Seq(StepNames) /\ Len(start) = 8
        /\ \A i \in 1..8 : start[i] = IF i <= 2 THEN first[i] ELSE OnBranchPlan[i - 2]
    <2>1. /\ start \in Seq(StepNames) /\ Len(start) = Len(first) + Len(OnBranchPlan)
          /\ \A i \in 1..Len(first) + Len(OnBranchPlan) :
                start[i] = IF i <= Len(first) THEN first[i] ELSE OnBranchPlan[i - Len(first)]
      BY <1>1, <1>3, ConcatProperties
    <2>2. QED BY <1>1, <1>3, <2>1, SMTT(20)
  <1> HIDE DEF start
  <1>6. /\ MainPlan \in Seq(StepNames) /\ Len(MainPlan) = 12
        /\ \A i \in 1..12 : MainPlan[i] = IF i <= 8 THEN start[i] ELSE last[i - 8]
    <2>1. /\ MainPlan \in Seq(StepNames) /\ Len(MainPlan) = Len(start) + Len(last)
          /\ \A i \in 1..Len(start) + Len(last) :
                MainPlan[i] = IF i <= Len(start) THEN start[i] ELSE last[i - Len(start)]
      BY <1>2, <1>4, <1>5, ConcatProperties
    <2>2. QED BY <1>2, <1>5, <2>1
  <1>7. \A i \in 1..6 : OnBranchPlan[i] = Order[i + 2]
    BY <1>3 DEF Order
  <1>8. \A i \in 1..12 : MainPlan[i] = Order[i]
    BY <1>1, <1>2, <1>3, <1>5, <1>6 DEF Order
  <1>9. QED BY <1>3, <1>6, <1>7, <1>8

(* Which step follows which. *)
Pairs ==
    {<<"branch", "checkout">>, <<"checkout", "write">>, <<"write", "changelog">>,
     <<"changelog", "commit">>, <<"commit", "tag">>, <<"tag", "writeNext">>,
     <<"writeNext", "commitNext">>, <<"commitNext", "checkoutMain">>,
     <<"checkoutMain", "takeChangelog">>, <<"takeChangelog", "writeMain">>,
     <<"writeMain", "commitMain">>}

MainOnly ==
    {"branch", "checkout", "checkoutMain", "takeChangelog", "writeMain", "commitMain"}

ToMain(todo) == todo[Len(todo)] = "commitMain"

LEMMA RestFacts ==
  ASSUME NEW todo \in Seq(StepNames), IsRest(todo)
  PROVE  /\ Len(todo) >= 1
         /\ todo[1] \in MainOnly => ToMain(todo)
         /\ Len(todo) = 1 => todo[1] = IF ToMain(todo) THEN "commitMain" ELSE "commitNext"
         /\ Len(todo) # 1 =>
              /\ Tail(todo) \in Seq(StepNames) /\ IsRest(Tail(todo))
              /\ <<todo[1], Tail(todo)[1]>> \in Pairs
              /\ ToMain(Tail(todo)) <=> ToMain(todo)
  <1>1. PICK k \in 1..12, last \in {8, 12} :
            RestOf(todo, k, last) /\ k <= last /\ (last = 8 => k >= 3)
    BY DEF IsRest
  <1>2. last = k + Len(todo) - 1 /\ Len(todo) >= 1 /\ Len(todo) \in Nat
    BY <1>1 DEF RestOf
  <1>3. \A i \in 1..Len(todo) : todo[i] = Order[k + i - 1]
    BY <1>1 DEF RestOf
  <1>4. todo[1] = Order[k] /\ todo[Len(todo)] = Order[last]
    BY <1>2, <1>3
  <1>5. Order[last] = IF last = 12 THEN "commitMain" ELSE "commitNext"
    BY DEF Order
  <1>6. Order[k] \in MainOnly => last = 12
    <2> SUFFICES ASSUME last = 8 PROVE Order[k] \notin MainOnly
      OBVIOUS
    <2>1. k \in {3, 4, 5, 6, 7, 8}
      BY <1>1
    <2>2. QED BY <2>1 DEF Order, MainOnly
  <1>7. ASSUME Len(todo) # 1
        PROVE  /\ Tail(todo) \in Seq(StepNames) /\ IsRest(Tail(todo))
               /\ Tail(todo)[1] = Order[k + 1] /\ k + 1 <= last
               /\ ToMain(Tail(todo)) <=> ToMain(todo)
    <2>1. todo # <<>> /\ k + 1 <= last
      <3>0. \A n \in Nat : n >= 1 /\ n # 1 => n >= 2
        OBVIOUS
      <3>1. Len(todo) >= 2
        BY <1>2, <1>7, <3>0, Zenon
      <3>2. QED BY <1>2, <3>1
    <2>2. /\ Tail(todo) \in Seq(StepNames) /\ Len(Tail(todo)) = Len(todo) - 1
          /\ \A i \in 1..Len(Tail(todo)) : Tail(todo)[i] = todo[i + 1]
      BY <2>1
    <2>3. \A i \in 1..Len(Tail(todo)) : Tail(todo)[i] = Order[(k + 1) + i - 1]
      BY <1>2, <1>3, <2>2
    <2>4. RestOf(Tail(todo), k + 1, last)
      <3>1. Len(Tail(todo)) >= 1 /\ last = (k + 1) + Len(Tail(todo)) - 1
        BY <1>2, <1>7, <2>2
      <3>2. QED BY <2>3, <3>1 DEF RestOf
    <2>5. Tail(todo)[1] = Order[k + 1] /\ Tail(todo)[Len(Tail(todo))] = todo[Len(todo)]
      BY <1>2, <1>7, <2>2, <2>3
    <2>6. IsRest(Tail(todo))
      BY <1>1, <2>1, <2>4 DEF IsRest
    <2>7. QED BY <2>1, <2>2, <2>5, <2>6 DEF ToMain
  <1>8. ASSUME k + 1 <= last PROVE <<Order[k], Order[k + 1]>> \in Pairs
    <2>1. k \in {1, 2, 3, 4, 5, 6, 7, 8, 9, 10, 11}
      BY <1>1, <1>8
    <2>2. QED BY <2>1 DEF Pairs, Order
  <1>9. Len(todo) = 1 => k = last
    BY <1>2
  <1>10. QED
    BY <1>2, <1>4, <1>5, <1>6, <1>7, <1>8, <1>9 DEF ToMain

LEMMA PlansAreRests ==
  /\ MainPlan \in Seq(StepNames) /\ IsRest(MainPlan) /\ MainPlan[1] = "branch"
  /\ OnBranchPlan \in Seq(StepNames) /\ IsRest(OnBranchPlan) /\ OnBranchPlan[1] = "write"
  /\ ToMain(MainPlan) /\ ~ToMain(OnBranchPlan)
  <1>1. RestOf(MainPlan, 1, 12) /\ RestOf(OnBranchPlan, 3, 8)
    BY Plans DEF RestOf
  <1>2. IsRest(MainPlan) /\ IsRest(OnBranchPlan)
    BY <1>1 DEF IsRest
  <1>3. /\ MainPlan[1] = "branch" /\ MainPlan[12] = "commitMain"
        /\ OnBranchPlan[1] = "write" /\ OnBranchPlan[6] = "commitNext"
    BY Plans DEF Order
  <1>4. QED BY <1>2, <1>3, Plans DEF ToMain

(* One step of a run: the run is over, or the next step is the one planned. *)
LEMMA Advance ==
  ASSUME Typed, NEW step, Does(step)
  PROVE  /\ run # None /\ run \in Runs /\ ~run.version.dev /\ run.todo[1] = step
         /\ step \in MainOnly => FromMain
         /\ \/ run' = None /\ step = IF FromMain THEN "commitMain" ELSE "commitNext"
            \/ /\ run' # None /\ run' \in Runs /\ IsRest(run'.todo)
               /\ run'.version = run.version /\ (FromMain' <=> FromMain)
               /\ <<step, run'.todo[1]>> \in Pairs
  <1>1. run # None /\ run \in Runs /\ ~run.version.dev /\ IsRest(run.todo) /\ run.todo[1] = step
    BY DEF Does, Typed
  <1>2. run.todo \in Seq(StepNames)
    BY <1>1 DEF Runs
  <1>3. CASE Len(run.todo) = 1
    BY <1>1, <1>2, <1>3, RestFacts DEF Does, FromMain, ToMain
  <1>4. CASE Len(run.todo) # 1
    <2>1. run' = [run EXCEPT !.todo = Tail(run.todo)]
      BY <1>4 DEF Does
    <2>2. run'.todo = Tail(run.todo) /\ run'.version = run.version
      BY <1>1, <2>1 DEF Runs
    <2>3. Tail(run.todo) \in Seq(StepNames)
      BY <1>1, <1>2, <1>4, RestFacts
    <2>4. run' \in Runs
      BY <1>1, <2>1, <2>3 DEF Runs
    <2>5. run' # None
      BY <2>4, ReleaseAssumption DEF Runs
    <2>6. QED BY <1>1, <1>2, <1>4, <2>2, <2>4, <2>5, RestFacts DEF FromMain, ToMain
  <1>5. QED BY <1>3, <1>4

-----------------------------------------------------------------------------
(* The repository: what is checked out, what a commit and a new ref change. *)

LEMMA HeadFacts ==
  ASSUME Typed
  PROVE  /\ HeadCommit \in DOMAIN commits /\ HeadCommit # 0
         /\ \A c \in DOMAIN commits :
              /\ commits[c] \in Commit /\ FilesOf(c) \in Files
              /\ FilesOf(c).version = commits[c].version
              /\ FilesOf(c).preview = commits[c].preview
              /\ FilesOf(c).log = commits[c].log
  <1>1. HeadCommit \in DOMAIN commits /\ HeadCommit # 0
    BY DEF Typed, HeadCommit
  <1>2. \A c \in DOMAIN commits : commits[c] \in Commit
    BY DEF Typed
  <1>3. QED BY <1>1, <1>2 DEF Commit, FilesOf, Files

LEMMA VersionFields ==
  ASSUME NEW v \in Versions
  PROVE  /\ v.minor \in Nat /\ v.patch \in Nat /\ v.dev \in BOOLEAN
         /\ DevOf(v) \in Versions /\ NextPatch(v) \in Versions /\ NextMinor(v) \in Versions
         /\ DevOf(v).minor = v.minor /\ DevOf(v).patch = v.patch /\ DevOf(v).dev
         /\ NextPatch(v).minor = v.minor /\ NextPatch(v).patch = v.patch + 1 /\ NextPatch(v).dev
         /\ NextMinor(v).minor = v.minor + 1 /\ NextMinor(v).patch = 0 /\ NextMinor(v).dev
  BY DEF Versions, DevOf, NextPatch, NextMinor, DevVersion, Version

LEMMA WithVersionFields ==
  ASSUME NEW files \in Files, NEW v \in Versions
  PROVE  /\ WithVersion(files, v) \in Files
         /\ WithVersion(files, v).version = v /\ WithVersion(files, v).preview = v.dev
         /\ WithVersion(files, v).log = files.log
  BY DEF WithVersion, Files, Versions

LEMMA WithRefFacts ==
  ASSUME NEW r, NEW c, refs' = WithRef(r, c)
  PROVE  /\ DOMAIN refs' = DOMAIN refs \cup {r} /\ refs'[r] = c
         /\ \A q \in DOMAIN refs \ {r} : refs'[q] = refs[q]
  BY DEF WithRef

NewCommit == Len(commits) + 1

LEMMA CommitsFacts ==
  ASSUME Typed, NEW files \in Files, Commits(files)
  PROVE  /\ commits' \in Seq(Commit)
         /\ NewCommit \notin DOMAIN commits /\ NewCommit # 0
         /\ DOMAIN commits' = DOMAIN commits \cup {NewCommit}
         /\ \A c \in DOMAIN commits : commits'[c] = commits[c]
         /\ commits'[NewCommit].version = files.version
         /\ commits'[NewCommit].preview = files.preview
         /\ commits'[NewCommit].log = files.log
         /\ commits'[NewCommit].parent = HeadCommit
         /\ DOMAIN refs' = DOMAIN refs /\ refs'[head] = NewCommit
         /\ \A q \in DOMAIN refs \ {head} : refs'[q] = refs[q]
  <1> DEFINE new == [version |-> files.version, preview |-> files.preview,
                     log |-> files.log, parent |-> HeadCommit]
  <1>1. commits \in Seq(Commit) /\ Len(commits) \in Nat /\ DOMAIN commits = 1..Len(commits)
    BY DEF Typed
  <1>2. HeadCommit \in Nat
    BY <1>1, HeadFacts
  <1>3. new \in Commit
    BY <1>2 DEF Commit, Files
  <1>4. /\ new.version = files.version /\ new.preview = files.preview
        /\ new.log = files.log /\ new.parent = HeadCommit
    OBVIOUS
  <1>5. commits' = Append(commits, new) /\ refs' = WithRef(head, NewCommit)
    BY DEF Commits, NewCommit
  <1> HIDE DEF new
  <1>6. /\ commits' \in Seq(Commit) /\ Len(commits') = Len(commits) + 1
        /\ \A c \in 1..Len(commits) : commits'[c] = commits[c]
        /\ commits'[Len(commits) + 1] = new
    BY <1>1, <1>3, <1>5
  <1>7. DOMAIN commits' = 1..(Len(commits) + 1)
    BY <1>6
  <1>8. head \in DOMAIN refs
    BY DEF Typed
  <1>9. /\ NewCommit \notin DOMAIN commits /\ NewCommit # 0
        /\ DOMAIN commits' = DOMAIN commits \cup {NewCommit}
    BY <1>1, <1>7 DEF NewCommit
  <1>10. commits'[NewCommit] = new
    BY <1>6 DEF NewCommit
  <1>11. \A c \in DOMAIN commits : commits'[c] = commits[c]
    BY <1>1, <1>6
  <1>12. /\ DOMAIN refs' = DOMAIN refs /\ refs'[head] = NewCommit
         /\ \A q \in DOMAIN refs \ {head} : refs'[q] = refs[q]
    BY <1>5, <1>8, WithRefFacts
  <1>13. QED BY <1>4, <1>6, <1>9, <1>10, <1>11, <1>12

(* The history a step adds to, and the run apart from it. *)
HistoryInv == Lines /\ TagsAreReleases /\ PreviewInSync /\ VersionsMoveForward

RepoTyped ==
    /\ commits \in Seq(Commit)
    /\ \A c \in DOMAIN commits : commits[c].parent \in DOMAIN commits \cup {0}
    /\ \A r \in DOMAIN refs : IsRef(r) /\ refs[r] \in DOMAIN commits
    /\ Main \in DOMAIN refs

Earlier(old, new) ==
    \/ Before(old.minor, old.patch, new.minor, new.patch)
    \/ Triple(old) = Triple(new) /\ old.dev /\ ~new.dev

LEMMA SameRepo ==
  ASSUME CoreInv, UNCHANGED <<commits, refs, byHand>>
  PROVE  HistoryInv' /\ RepoTyped'
  BY DEF CoreInv, HistoryInv, Lines, TagsAreReleases, PreviewInSync, VersionsMoveForward,
     Branches, OnMain, Minor, Typed, RepoTyped

LEMMA RefKinds ==
  /\ Main[1] = "main"
  /\ \A r : IsRef(r) => \/ r = Main
                        \/ r[1] = "branch" /\ r[2] \in Nat /\ r = <<"branch", r[2]>>
                        \/ /\ r[1] = "tag" /\ r[2] \in Nat /\ r[3] \in Nat
                           /\ r = <<"tag", r[2], r[3]>>
  BY DEF Main, IsRef

(* A commit on main starts the next minor version, one on a release branch   *)
(* is a release or a later patch; both move the version forward.             *)
Advances(files) ==
    /\ \/ head = Main /\ files.version.dev /\ files.version.patch = 0
       \/ /\ head[1] = "branch" /\ files.version.minor = head[2]
          /\ ~(files.version.dev /\ files.version.patch = 0)
    /\ Earlier(commits[HeadCommit].version, files.version)

LEMMA CommitKeepsHistory ==
  ASSUME CoreInv, NEW files \in Files, Commits(files), Advances(files),
         byHand \subseteq byHand',
         files.preview = files.version.dev \/ NewCommit \in byHand'
  PROVE  HistoryInv' /\ RepoTyped'
  <1>0. /\ Typed /\ Lines
        /\ \/ head = Main /\ files.version.dev /\ files.version.patch = 0
           \/ /\ head[1] = "branch" /\ files.version.minor = head[2]
              /\ ~(files.version.dev /\ files.version.patch = 0)
        /\ Earlier(commits[HeadCommit].version, files.version)
    BY DEF CoreInv, Advances
  <1>a. PICK n : n = NewCommit
    OBVIOUS
  <1>b. /\ commits' \in Seq(Commit) /\ n \notin DOMAIN commits /\ n # 0
        /\ DOMAIN commits' = DOMAIN commits \cup {n}
        /\ \A c \in DOMAIN commits : commits'[c] = commits[c]
    BY <1>0, <1>a, CommitsFacts
  <1>c. /\ commits'[n].version = files.version /\ commits'[n].preview = files.preview
        /\ commits'[n].log = files.log /\ commits'[n].parent = HeadCommit
    BY <1>0, <1>a, CommitsFacts
  <1>d. /\ DOMAIN refs' = DOMAIN refs /\ refs'[head] = n
        /\ \A q \in DOMAIN refs \ {head} : refs'[q] = refs[q]
    BY <1>0, <1>a, CommitsFacts
  <1>e. files.preview = files.version.dev \/ n \in byHand'
    BY <1>a
  <1>1. HeadCommit \in DOMAIN commits /\ HeadCommit # 0 /\ head \in DOMAIN refs
    BY <1>0, HeadFacts DEF Typed
  <1>2. RepoTyped'
    BY <1>0, <1>1, <1>b, <1>c, <1>d DEF Typed, RepoTyped
  <1>3. \A c \in DOMAIN commits : (OnMain(c)' <=> OnMain(c)) /\ Minor(c)' = Minor(c)
    BY <1>b DEF OnMain, Minor
  <1>4. /\ OnMain(n)' <=> files.version.dev /\ files.version.patch = 0
        /\ Minor(n)' = files.version.minor
    BY <1>c DEF OnMain, Minor
  <1>5. ~(head = Main /\ head[1] = "branch") /\ head[1] # "tag"
    BY <1>0, RefKinds
  <1>6. OnMain(refs[Main])'
    <2>1. CASE head = Main
      BY <1>0, <1>4, <1>5, <1>d, <2>1 DEF OnMain
    <2>2. CASE head # Main
      BY <1>0, <1>3, <1>d, <2>2 DEF Typed, Lines, OnMain
    <2>3. QED BY <2>1, <2>2
  <1>7. ASSUME NEW r \in DOMAIN refs, r[1] = "branch" PROVE Minor(refs[r])' = r[2]
    <2>1. CASE r = head
      BY <1>0, <1>4, <1>5, <1>7, <1>d, <2>1, RefKinds DEF Minor
    <2>2. CASE r # head
      BY <1>0, <1>3, <1>7, <1>d, <2>2 DEF Typed, Lines, Branches, Minor
    <2>3. QED BY <2>1, <2>2
  <1>8. ASSUME NEW c \in DOMAIN commits', commits'[c].parent # 0, ~OnMain(commits[c].parent)'
        PROVE  ~OnMain(c)' /\ Minor(c)' = Minor(commits[c].parent)'
    <2>1. CASE c \in DOMAIN commits
      <3>1. commits'[c].parent = commits[c].parent /\ commits[c].parent \in DOMAIN commits
        BY <1>0, <1>8, <1>b, <2>1 DEF Typed
      <3>2. QED BY <1>0, <1>3, <1>8, <1>b, <2>1, <3>1 DEF Lines, OnMain, Minor
    <2>2. CASE c = n
      <3>1. commits'[c].parent = HeadCommit
        BY <1>c, <2>2
      <3>2. ~OnMain(HeadCommit)
        BY <1>1, <1>3, <1>8, <3>1 DEF OnMain
      <3>3. head # Main
        BY <1>0, <3>2 DEF Lines, HeadCommit
      <3>4. head[1] = "branch" /\ Minor(HeadCommit) = head[2]
        BY <1>0, <1>1, <3>3 DEF Lines, HeadCommit, Branches
      <3>5. Minor(commits[c].parent)' = Minor(HeadCommit)
        BY <1>1, <1>3, <3>1 DEF Minor
      <3>6. QED BY <1>0, <1>4, <2>2, <3>3, <3>4, <3>5
    <2>3. QED BY <1>b, <2>1, <2>2
  <1>9. Lines'
    BY <1>6, <1>7, <1>8, <1>d DEF Lines, Branches
  <1>10. TagsAreReleases'
    <2> SUFFICES ASSUME NEW r \in DOMAIN refs, r[1] = "tag"
                 PROVE  refs'[r] = refs[r] /\ commits'[refs[r]] = commits[refs[r]]
      BY <1>d DEF CoreInv, TagsAreReleases
    <2>1. QED BY <1>0, <1>5, <1>b, <1>d DEF Typed
  <1>11. PreviewInSync'
    BY <1>b, <1>c, <1>e DEF CoreInv, PreviewInSync
  <1>12. VersionsMoveForward'
    <2> SUFFICES ASSUME NEW c \in DOMAIN commits', commits'[c].parent # 0
                 PROVE  Earlier(commits[commits[c].parent].version, commits[c].version)'
      BY DEF VersionsMoveForward, Earlier, Before, Triple
    <2>1. CASE c \in DOMAIN commits
      <3>1. commits'[c].parent = commits[c].parent /\ commits[c].parent \in DOMAIN commits
        BY <1>0, <1>b, <2>1 DEF Typed
      <3>2. QED BY <1>b, <2>1, <3>1
            DEF CoreInv, VersionsMoveForward, Earlier, Before, Triple
    <2>2. CASE c = n
      BY <1>0, <1>1, <1>b, <1>c, <2>2 DEF Earlier, Before, Triple
    <2>3. QED BY <1>b, <2>1, <2>2
  <1>13. QED BY <1>2, <1>9, <1>10, <1>11, <1>12 DEF HistoryInv

(* A new branch of main's minor version, or a tag of a release. *)
LEMMA RefKeepsHistory ==
  ASSUME CoreInv, NEW r, IsRef(r), r \notin DOMAIN refs, refs' = WithRef(r, HeadCommit),
         UNCHANGED <<commits, byHand>>,
         r[1] = "branch" => Minor(HeadCommit) = r[2],
         r[1] = "tag" => /\ commits[HeadCommit].version = Version(r[2], r[3], FALSE)
                         /\ ~commits[HeadCommit].preview
                         /\ <<r[2], r[3]>> \in commits[HeadCommit].log
  PROVE  HistoryInv' /\ RepoTyped'
  <1>1. /\ DOMAIN refs' = DOMAIN refs \cup {r} /\ refs'[r] = HeadCommit
        /\ \A q \in DOMAIN refs : refs'[q] = refs[q]
    BY WithRefFacts, ZenonT(40)
  <1>2. HeadCommit \in DOMAIN commits
    BY HeadFacts DEF CoreInv
  <1>3. RepoTyped'
    BY <1>1, <1>2 DEF CoreInv, Typed, RepoTyped
  <1>4. Lines'
    BY <1>1 DEF CoreInv, Typed, Lines, Branches, OnMain, Minor
  <1>5. TagsAreReleases'
    BY <1>1 DEF CoreInv, TagsAreReleases
  <1>6. PreviewInSync' /\ VersionsMoveForward'
    BY DEF CoreInv, PreviewInSync, VersionsMoveForward
  <1>7. QED BY <1>3, <1>4, <1>5, <1>6 DEF HistoryInv

(* The parts of the invariant put together. *)
LEMMA CoreParts ==
  ASSUME HistoryInv', RepoTyped', (head \in DOMAIN refs)', (work \in Files)',
         (run # None => run \in Runs /\ ~run.version.dev /\ IsRest(run.todo))', RunInv'
  PROVE  CoreInv'
  BY DEF CoreInv, HistoryInv, RepoTyped, Typed

-----------------------------------------------------------------------------
(* The steps of a run. *)

(* What a step that is about to be taken knows, and where it leads. *)
LEMMA StepFacts ==
  ASSUME CoreInv, NEW step, Does(step)
  PROVE  /\ Typed /\ InRun /\ run.todo[1] = step
         /\ run.version \in Versions /\ ~run.version.dev
         /\ step \in MainOnly => FromMain
         /\ UNCHANGED <<published, byHand, interrupted>>
         /\ (run # None => run \in Runs /\ ~run.version.dev /\ IsRest(run.todo))'
         /\ \/ run' = None /\ step \in {"commitMain", "commitNext"}
            \/ /\ run' # None /\ run'.version = run.version /\ (FromMain' <=> FromMain)
               /\ <<step, run'.todo[1]>> \in Pairs
               /\ ReleaseBranch' = ReleaseBranch
  BY Advance DEF CoreInv, RunInv, Runs, Does, ReleaseBranch

(* The version of a run: the release, and the -dev version it starts from. *)
LEMMA RunVersion ==
  ASSUME run.version \in Versions, ~run.version.dev
  PROVE  /\ run.version = Version(run.version.minor, run.version.patch, FALSE)
         /\ IsRef(ReleaseBranch) /\ ReleaseBranch[1] = "branch"
         /\ ReleaseBranch[2] = run.version.minor /\ ReleaseBranch # Main
         /\ IsRef(ReleaseTag) /\ ReleaseTag[1] = "tag" /\ ReleaseTag # Main
         /\ ReleaseTag[2] = run.version.minor /\ ReleaseTag[3] = run.version.patch
  BY DEF Versions, Version, ReleaseBranch, ReleaseTag, IsRef, Main

LEMMA CreateBranchCore == ASSUME CoreInv, CreateBranch PROVE CoreInv'
  <1> DEFINE v == run.version
  <1>1. Does("branch")
    BY DEF CreateBranch
  <1>2. /\ Typed /\ InRun /\ FromMain /\ run.todo[1] = "branch" /\ v \in Versions /\ ~v.dev
        /\ run' # None /\ v' = v /\ FromMain' /\ run'.todo[1] = "checkout"
        /\ ReleaseBranch' = ReleaseBranch
    BY <1>1, StepFacts DEF Pairs, MainOnly
  <1>3. head = Main /\ Clean /\ commits[HeadCommit].version = DevOf(v) /\ v.patch = 0
    BY <1>2 DEF InRun, Doing, HeadCommit
  <1>4. /\ ReleaseBranch \notin DOMAIN refs /\ refs' = WithRef(ReleaseBranch, HeadCommit)
        /\ UNCHANGED <<commits, head, work, byHand>>
    BY <1>1, StepFacts DEF CreateBranch
  <1>5. HistoryInv' /\ RepoTyped'
    <2>1. /\ IsRef(ReleaseBranch) /\ ReleaseBranch[1] = "branch"
          /\ Minor(HeadCommit) = ReleaseBranch[2]
      <3>1. /\ IsRef(ReleaseBranch) /\ ReleaseBranch[1] = "branch"
            /\ ReleaseBranch[2] = v.minor
        BY <1>2, RunVersion
      <3>2. Minor(HeadCommit) = v.minor
        BY <1>2, <1>3, VersionFields DEF Minor
      <3>3. QED BY <3>1, <3>2
    <2>2. ReleaseBranch[1] # "tag"
      BY <2>1
    <2>3. QED BY <1>4, <2>1, <2>2, RefKeepsHistory
  <1>6. /\ DOMAIN refs' = DOMAIN refs \cup {ReleaseBranch} /\ refs'[ReleaseBranch] = HeadCommit
        /\ refs'[Main] = refs[Main] /\ Main \in DOMAIN refs
    <2>1. /\ DOMAIN refs' = DOMAIN refs \cup {ReleaseBranch} /\ refs'[ReleaseBranch] = HeadCommit
          /\ \A q \in DOMAIN refs \ {ReleaseBranch} : refs'[q] = refs[q]
      BY <1>4, WithRefFacts
    <2>2. Main \in DOMAIN refs /\ ReleaseBranch # Main
      BY <1>2, RunVersion DEF Typed
    <2>3. QED BY <2>1, <2>2
  <1>7. Clean'
    BY <1>3, <1>4, <1>6 DEF Clean, FilesOf, HeadCommit
  <1>8. RunInv'
    BY <1>2, <1>3, <1>4, <1>6, <1>7 DEF RunInv, InRun, Doing, HeadCommit
  <1>9. QED BY <1>1, <1>2, <1>4, <1>5, <1>6, <1>8, StepFacts, CoreParts DEF Typed

LEMMA CheckoutBranchCore == ASSUME CoreInv, CheckoutBranch PROVE CoreInv'
  <1> DEFINE v == run.version
  <1>1. Does("checkout")
    BY DEF CheckoutBranch
  <1>2. /\ Typed /\ InRun /\ FromMain /\ run.todo[1] = "checkout" /\ v \in Versions /\ ~v.dev
        /\ run' # None /\ v' = v /\ FromMain' /\ run'.todo[1] = "write"
        /\ ReleaseBranch' = ReleaseBranch
    BY <1>1, StepFacts DEF Pairs, MainOnly
  <1>3. /\ ReleaseBranch \in DOMAIN refs /\ refs[ReleaseBranch] = refs[Main]
        /\ commits[refs[Main]].version = DevOf(v) /\ v.patch = 0
    BY <1>2 DEF InRun, Doing
  <1>4. /\ head' = ReleaseBranch /\ work' = FilesOf(refs[ReleaseBranch])
        /\ UNCHANGED <<commits, refs, byHand>>
    BY <1>1, StepFacts DEF CheckoutBranch, GitCheckout
  <1>5. HistoryInv' /\ RepoTyped'
    BY <1>4, SameRepo
  <1>6. work' \in Files
    BY <1>2, <1>3, <1>4, HeadFacts DEF Typed
  <1>7. Clean'
    BY <1>4 DEF Clean, FilesOf, HeadCommit
  <1>8. RunInv'
    BY <1>2, <1>3, <1>4, <1>7 DEF RunInv, InRun, Doing, HeadCommit
  <1>9. QED BY <1>1, <1>3, <1>4, <1>5, <1>6, <1>8, StepFacts, CoreParts

LEMMA CheckoutMainCore == ASSUME CoreInv, CheckoutMain PROVE CoreInv'
  <1> DEFINE v == run.version
  <1>1. Does("checkoutMain")
    BY DEF CheckoutMain
  <1>2. /\ Typed /\ InRun /\ FromMain /\ run.todo[1] = "checkoutMain" /\ v \in Versions /\ ~v.dev
        /\ run' # None /\ v' = v /\ FromMain' /\ run'.todo[1] = "takeChangelog"
        /\ ReleaseBranch' = ReleaseBranch
    BY <1>1, StepFacts DEF Pairs, MainOnly
  <1>3. /\ ReleaseBranch \in DOMAIN refs /\ ~OnMain(refs[ReleaseBranch])
        /\ <<v.minor, v.patch>> \in BranchLog
        /\ commits[refs[Main]].version = DevOf(v) /\ v.patch = 0
    BY <1>2 DEF InRun, Doing
  <1>4. /\ head' = Main /\ work' = FilesOf(refs[Main])
        /\ UNCHANGED <<commits, refs, byHand>>
    BY <1>1, StepFacts DEF CheckoutMain, GitCheckout
  <1>5. HistoryInv' /\ RepoTyped'
    BY <1>4, SameRepo
  <1>6. work' \in Files
    BY <1>2, <1>4, HeadFacts DEF Typed
  <1>7. RunInv'
    BY <1>2, <1>3, <1>4 DEF RunInv, InRun, Doing, HeadCommit, BranchLog, OnMain
  <1>8. QED BY <1>1, <1>2, <1>4, <1>5, <1>6, <1>7, StepFacts, CoreParts DEF Typed

(* The files of the working tree are written, nothing is committed. *)
LEMMA WriteReleaseCore == ASSUME CoreInv, WriteRelease PROVE CoreInv'
  <1> DEFINE v == run.version
  <1>1. Does("write")
    BY DEF WriteRelease, Writes
  <1>2. /\ Typed /\ InRun /\ run.todo[1] = "write" /\ v \in Versions /\ ~v.dev
        /\ run' # None /\ v' = v /\ (FromMain' <=> FromMain) /\ run'.todo[1] = "changelog"
        /\ ReleaseBranch' = ReleaseBranch
    BY <1>1, StepFacts DEF Pairs
  <1>3. head = ReleaseBranch /\ Clean /\ commits[HeadCommit].version = DevOf(v)
    BY <1>2 DEF InRun, Doing
  <1>4. work' = WithVersion(work, v) /\ UNCHANGED <<commits, refs, head, byHand>>
    BY <1>1, StepFacts DEF WriteRelease, Writes
  <1>5. HistoryInv' /\ RepoTyped'
    BY <1>4, SameRepo
  <1>6. work' \in Files /\ work'.version = v /\ ~work'.preview /\ work'.log = work.log
    BY <1>2, <1>4, WithVersionFields DEF Typed
  <1>7. commits[HeadCommit].log \subseteq work'.log
    BY <1>2, <1>3, <1>6, HeadFacts DEF Clean
  <1>8. FromMain => v.patch = 0 /\ commits[refs[Main]].version = DevOf(v)
    BY <1>2 DEF InRun
  <1>9. RunInv'
    BY <1>2, <1>3, <1>4, <1>6, <1>7, <1>8 DEF RunInv, InRun, Doing, HeadCommit
  <1>10. QED BY <1>1, <1>2, <1>4, <1>5, <1>6, <1>9, StepFacts, CoreParts DEF Typed

LEMMA ChangelogCore == ASSUME CoreInv, RegenerateChangelog PROVE CoreInv'
  <1> DEFINE v == run.version
             entry == <<work.version.minor, work.version.patch>>
  <1>1. Does("changelog")
    BY DEF RegenerateChangelog
  <1>2. /\ Typed /\ InRun /\ run.todo[1] = "changelog" /\ v \in Versions /\ ~v.dev
        /\ run' # None /\ v' = v /\ (FromMain' <=> FromMain) /\ run'.todo[1] = "commit"
        /\ ReleaseBranch' = ReleaseBranch
    BY <1>1, StepFacts DEF Pairs
  <1>3. /\ head = ReleaseBranch /\ commits[HeadCommit].version = DevOf(v)
        /\ work.version = v /\ ~work.preview /\ commits[HeadCommit].log \subseteq work.log
    BY <1>2 DEF InRun, Doing
  <1>4. /\ work' = [work EXCEPT !.log = @ \cup {entry}]
        /\ UNCHANGED <<commits, refs, head, byHand>>
    BY <1>1, StepFacts DEF RegenerateChangelog
  <1>5. HistoryInv' /\ RepoTyped'
    BY <1>4, SameRepo
  <1>6. /\ work \in Files /\ entry \in Nat \X Nat
        /\ entry = <<v.minor, v.patch>>
    BY <1>2, <1>3, VersionFields DEF Typed
  <1> HIDE DEF entry
  <1>7. /\ work' \in Files /\ work'.version = v /\ ~work'.preview
        /\ work'.log = work.log \cup {entry}
    BY <1>3, <1>4, <1>6 DEF Files, Log
  <1>8. FromMain => v.patch = 0 /\ commits[refs[Main]].version = DevOf(v)
    BY <1>2 DEF InRun
  <1>9. RunInv'
    BY <1>2, <1>3, <1>4, <1>6, <1>7, <1>8 DEF RunInv, InRun, Doing, HeadCommit
  <1>10. QED BY <1>1, <1>2, <1>4, <1>5, <1>7, <1>9, StepFacts, CoreParts DEF Typed

LEMMA CreateTagCore == ASSUME CoreInv, CreateTag PROVE CoreInv'
  <1> DEFINE v == run.version
  <1>1. Does("tag")
    BY DEF CreateTag
  <1>2. /\ Typed /\ InRun /\ run.todo[1] = "tag" /\ v \in Versions /\ ~v.dev
        /\ run' # None /\ v' = v /\ (FromMain' <=> FromMain) /\ run'.todo[1] = "writeNext"
        /\ ReleaseBranch' = ReleaseBranch
    BY <1>1, StepFacts DEF Pairs
  <1>3. /\ head = ReleaseBranch /\ Clean /\ commits[HeadCommit].version = v
        /\ ~commits[HeadCommit].preview /\ <<v.minor, v.patch>> \in commits[HeadCommit].log
    BY <1>2 DEF InRun, Doing
  <1>4. /\ ReleaseTag \notin DOMAIN refs /\ refs' = WithRef(ReleaseTag, HeadCommit)
        /\ UNCHANGED <<commits, head, work, byHand>>
    BY <1>1, StepFacts DEF CreateTag, Tagged
  <1>5. HistoryInv' /\ RepoTyped'
    BY <1>2, <1>3, <1>4, RefKeepsHistory, RunVersion
  <1>6. /\ DOMAIN refs' = DOMAIN refs \cup {ReleaseTag} /\ refs'[head] = refs[head]
        /\ refs'[Main] = refs[Main] /\ Main \in DOMAIN refs /\ head \in DOMAIN refs
    <2>1. /\ DOMAIN refs' = DOMAIN refs \cup {ReleaseTag}
          /\ \A q \in DOMAIN refs \ {ReleaseTag} : refs'[q] = refs[q]
      BY <1>4, WithRefFacts
    <2>2. Main \in DOMAIN refs /\ head \in DOMAIN refs
      BY <1>2 DEF Typed
    <2>3. QED BY <1>4, <2>1, <2>2
  <1>7. Clean' /\ HeadCommit' = HeadCommit
    BY <1>3, <1>4, <1>6 DEF Clean, FilesOf, HeadCommit
  <1>8. FromMain => v.patch = 0 /\ commits[refs[Main]].version = DevOf(v)
    BY <1>2 DEF InRun
  <1>9. RunInv'
    BY <1>2, <1>3, <1>4, <1>6, <1>7, <1>8 DEF RunInv, InRun, Doing
  <1>10. QED BY <1>1, <1>2, <1>4, <1>5, <1>6, <1>9, StepFacts, CoreParts DEF Typed

LEMMA WriteNextCore == ASSUME CoreInv, WriteNext PROVE CoreInv'
  <1> DEFINE v == run.version
  <1>1. Does("writeNext")
    BY DEF WriteNext, Writes
  <1>2. /\ Typed /\ InRun /\ run.todo[1] = "writeNext" /\ v \in Versions /\ ~v.dev
        /\ run' # None /\ v' = v /\ (FromMain' <=> FromMain) /\ run'.todo[1] = "commitNext"
        /\ ReleaseBranch' = ReleaseBranch
    BY <1>1, StepFacts DEF Pairs
  <1>3. /\ head = ReleaseBranch /\ Clean /\ commits[HeadCommit].version = v
        /\ ~commits[HeadCommit].preview /\ <<v.minor, v.patch>> \in commits[HeadCommit].log
    BY <1>2 DEF InRun, Doing
  <1>4. work' = WithVersion(work, NextPatch(v)) /\ UNCHANGED <<commits, refs, head, byHand>>
    BY <1>1, StepFacts DEF WriteNext, Writes
  <1>5. HistoryInv' /\ RepoTyped'
    BY <1>4, SameRepo
  <1>6. /\ work' \in Files /\ work'.version = NextPatch(v) /\ work'.preview
        /\ work'.log = work.log
    <2>1. NextPatch(v) \in Versions /\ NextPatch(v).dev /\ work \in Files
      BY <1>2, VersionFields DEF Typed
    <2>2. QED BY <1>4, <2>1, WithVersionFields
  <1>7. work'.log = commits[HeadCommit].log
    BY <1>2, <1>3, <1>6, HeadFacts DEF Clean
  <1>8. FromMain => v.patch = 0 /\ commits[refs[Main]].version = DevOf(v)
    BY <1>2 DEF InRun
  <1>9. RunInv'
    BY <1>2, <1>3, <1>4, <1>6, <1>7, <1>8 DEF RunInv, InRun, Doing, HeadCommit
  <1>10. QED BY <1>1, <1>2, <1>4, <1>5, <1>6, <1>9, StepFacts, CoreParts DEF Typed

(* What a run from main knows of its release branch once it is back on main. *)
LEMMA OnMainAgain ==
  ASSUME CoreInv, run # None, run.todo[1] \in {"takeChangelog", "writeMain", "commitMain"}
  PROVE  /\ Typed /\ head = Main /\ ReleaseBranch \in DOMAIN refs
         /\ ~OnMain(refs[ReleaseBranch])
         /\ <<run.version.minor, run.version.patch>> \in BranchLog /\ BranchLog \in Log
  <1>1. Typed /\ InRun
    BY DEF CoreInv, RunInv
  <1>2. /\ head = Main /\ ReleaseBranch \in DOMAIN refs /\ ~OnMain(refs[ReleaseBranch])
        /\ <<run.version.minor, run.version.patch>> \in BranchLog
    BY <1>1 DEF InRun, Doing
  <1>3. commits[refs[ReleaseBranch]] \in Commit
    BY <1>1, <1>2, HeadFacts DEF Typed
  <1>4. QED BY <1>1, <1>2, <1>3 DEF BranchLog, Commit

LEMMA TakeChangelogCore == ASSUME CoreInv, TakeChangelog PROVE CoreInv'
  <1> DEFINE v == run.version
  <1>1. Does("takeChangelog")
    BY DEF TakeChangelog
  <1>2. /\ Typed /\ InRun /\ FromMain /\ run.todo[1] = "takeChangelog" /\ run # None
        /\ run' # None /\ v' = v /\ FromMain' /\ run'.todo[1] = "writeMain"
        /\ ReleaseBranch' = ReleaseBranch
    BY <1>1, StepFacts DEF Pairs, MainOnly, Does
  <1>3. /\ head = Main /\ ReleaseBranch \in DOMAIN refs /\ ~OnMain(refs[ReleaseBranch])
        /\ <<v.minor, v.patch>> \in BranchLog /\ BranchLog \in Log
    BY <1>2, OnMainAgain
  <1>4. work' = [work EXCEPT !.log = BranchLog] /\ UNCHANGED <<commits, refs, head, byHand>>
    BY <1>1, StepFacts DEF TakeChangelog
  <1>5. HistoryInv' /\ RepoTyped'
    BY <1>4, SameRepo
  <1>6. work' \in Files /\ work'.log = BranchLog
    BY <1>2, <1>3, <1>4 DEF Typed, Files
  <1>7. v.patch = 0 /\ commits[refs[Main]].version = DevOf(v)
    BY <1>2 DEF InRun
  <1>8. BranchLog' = BranchLog
    BY <1>2, <1>4 DEF BranchLog
  <1>9. RunInv'
    BY <1>2, <1>3, <1>4, <1>6, <1>7, <1>8 DEF RunInv, InRun, Doing, OnMain
  <1>10. QED BY <1>1, <1>2, <1>4, <1>5, <1>6, <1>9, StepFacts, CoreParts DEF Typed

LEMMA WriteMainCore == ASSUME CoreInv, WriteMain PROVE CoreInv'
  <1> DEFINE v == run.version
  <1>1. Does("writeMain")
    BY DEF WriteMain, Writes
  <1>2. /\ Typed /\ InRun /\ FromMain /\ run.todo[1] = "writeMain" /\ run # None
        /\ v \in Versions
        /\ run' # None /\ v' = v /\ FromMain' /\ run'.todo[1] = "commitMain"
        /\ ReleaseBranch' = ReleaseBranch
    BY <1>1, StepFacts DEF Pairs, MainOnly, Does
  <1>3. /\ head = Main /\ ReleaseBranch \in DOMAIN refs /\ ~OnMain(refs[ReleaseBranch])
        /\ <<v.minor, v.patch>> \in BranchLog
    BY <1>2, OnMainAgain
  <1>4. work' = WithVersion(work, NextMinor(v)) /\ UNCHANGED <<commits, refs, head, byHand>>
    BY <1>1, StepFacts DEF WriteMain, Writes
  <1>5. HistoryInv' /\ RepoTyped'
    BY <1>4, SameRepo
  <1>6. /\ work' \in Files /\ work'.version = NextMinor(v) /\ work'.preview
        /\ work'.log = work.log
    <2>1. NextMinor(v) \in Versions /\ NextMinor(v).dev /\ work \in Files
      BY <1>2, VersionFields DEF Typed
    <2>2. QED BY <1>4, <2>1, WithVersionFields
  <1>7. v.patch = 0 /\ commits[refs[Main]].version = DevOf(v) /\ work.log = BranchLog
    BY <1>2 DEF InRun, Doing
  <1>8. BranchLog' = BranchLog
    BY <1>2, <1>4 DEF BranchLog
  <1>9. RunInv'
    BY <1>2, <1>3, <1>4, <1>6, <1>7, <1>8 DEF RunInv, InRun, Doing, OnMain
  <1>10. QED BY <1>1, <1>2, <1>4, <1>5, <1>6, <1>9, StepFacts, CoreParts DEF Typed

(* A run commits the release, the next version of its branch, or main's.     *)
LEMMA CommitVersionAdvances ==
  ASSUME CoreInv, CommitVersion
  PROVE  /\ Commits(work) /\ work \in Files /\ Advances(work)
         /\ UNCHANGED <<head, work, byHand>>
         /\ work.preview = work.version.dev
  <1> DEFINE v == run.version
  <1>1. PICK step \in {"commit", "commitNext", "commitMain"} : Does(step)
    BY DEF CommitVersion
  <1>2. /\ Typed /\ InRun /\ run.todo[1] = step /\ v \in Versions /\ ~v.dev
        /\ step = "commitMain" => FromMain
    BY <1>1, StepFacts DEF MainOnly
  <1>3. /\ Commits(work) /\ work \in Files /\ UNCHANGED <<head, work, byHand>>
        /\ work.version \in Versions
    BY <1>1, <1>2, StepFacts DEF CommitVersion, Typed, Files
  <1>4. /\ v.minor \in Nat /\ v.patch \in Nat
        /\ DevOf(v).minor = v.minor /\ DevOf(v).patch = v.patch /\ DevOf(v).dev
        /\ NextPatch(v).minor = v.minor /\ NextPatch(v).patch = v.patch + 1 /\ NextPatch(v).dev
        /\ NextMinor(v).minor = v.minor + 1 /\ NextMinor(v).patch = 0 /\ NextMinor(v).dev
    BY <1>2, VersionFields
  <1>5. ReleaseBranch[1] = "branch" /\ ReleaseBranch[2] = v.minor
    BY <1>2, RunVersion
  <1>6. (work.preview <=> work.version.dev) => work.preview = work.version.dev
    BY <1>3 DEF Files, Versions
  <1>7. CASE step = "commit"
    <2>1. /\ head = ReleaseBranch /\ commits[HeadCommit].version = DevOf(v)
          /\ work.version = v /\ ~work.preview
      BY <1>2, <1>7 DEF InRun, Doing
    <2>2. Earlier(commits[HeadCommit].version, work.version)
      BY <1>2, <1>4, <2>1 DEF Earlier, Triple
    <2>3. QED BY <1>2, <1>3, <1>5, <1>6, <2>1, <2>2 DEF Advances
  <1>8. CASE step = "commitNext"
    <2>1. /\ head = ReleaseBranch /\ commits[HeadCommit].version = v
          /\ work.version = NextPatch(v) /\ work.preview
      BY <1>2, <1>8 DEF InRun, Doing
    <2>2. Earlier(commits[HeadCommit].version, work.version)
      BY <1>4, <2>1 DEF Earlier, Before
    <2>3. work.version.patch # 0
      BY <1>4, <2>1
    <2>4. QED BY <1>3, <1>4, <1>5, <1>6, <2>1, <2>2, <2>3 DEF Advances
  <1>9. CASE step = "commitMain"
    <2>1. /\ head = Main /\ commits[refs[Main]].version = DevOf(v)
          /\ work.version = NextMinor(v) /\ work.preview
      BY <1>2, <1>9 DEF InRun, Doing
    <2>2. Earlier(commits[HeadCommit].version, work.version)
      BY <1>4, <2>1 DEF Earlier, Before, HeadCommit
    <2>3. QED BY <1>3, <1>4, <1>6, <2>1, <2>2 DEF Advances
  <1>10. QED BY <1>7, <1>8, <1>9

LEMMA CommitVersionCore == ASSUME CoreInv, CommitVersion PROVE CoreInv'
  <1> DEFINE v == run.version
  <1>1. PICK step \in {"commit", "commitNext", "commitMain"} : Does(step)
    BY DEF CommitVersion
  <1>2. /\ Typed /\ InRun /\ run.todo[1] = step /\ run # None /\ v \in Versions /\ ~v.dev
        /\ (run # None => run \in Runs /\ ~run.version.dev /\ IsRest(run.todo))'
    BY <1>1, StepFacts DEF Does
  <1>3. run' # None =>
          /\ v' = v /\ (FromMain' <=> FromMain) /\ ReleaseBranch' = ReleaseBranch
          /\ run'.todo[1] = IF step = "commit" THEN "tag" ELSE "checkoutMain"
          /\ step \in {"commit", "commitNext"}
    BY <1>1, StepFacts DEF Pairs
  <1>4. /\ Commits(work) /\ work \in Files /\ Advances(work)
        /\ UNCHANGED <<head, work, byHand>> /\ work.preview = work.version.dev
    BY CommitVersionAdvances
  <1>5. HistoryInv' /\ RepoTyped'
    BY <1>4, CommitKeepsHistory
  <1>6. PICK n : n = NewCommit
    OBVIOUS
  <1>7. /\ commits'[n].version = work.version /\ commits'[n].preview = work.preview
        /\ commits'[n].log = work.log
        /\ DOMAIN refs' = DOMAIN refs /\ refs'[head] = n
        /\ \A q \in DOMAIN refs \ {head} : refs'[q] = refs[q]
        /\ \A c \in DOMAIN commits : commits'[c] = commits[c]
    BY <1>2, <1>4, <1>6, CommitsFacts
  <1>8. ReleaseBranch # Main
    BY <1>2, RunVersion
  <1>9. /\ Main \in DOMAIN refs /\ head \in DOMAIN refs /\ refs[Main] \in DOMAIN commits
        /\ FromMain => v.patch = 0 /\ commits[refs[Main]].version = DevOf(v)
    BY <1>2 DEF Typed, InRun
  <1>10. RunInv'
    <2>1. CASE step = "commit"
      <3>1. /\ head = ReleaseBranch /\ work.version = v /\ ~work.preview
            /\ <<v.minor, v.patch>> \in work.log
        BY <1>2, <2>1 DEF InRun, Doing
      <3>2. refs'[Main] = refs[Main] /\ commits'[refs[Main]] = commits[refs[Main]]
        BY <1>7, <1>8, <1>9, <3>1
      <3>3. work = [version |-> work.version, preview |-> work.preview, log |-> work.log]
        BY <1>4 DEF Files
      <3>4. Clean' /\ HeadCommit' = n
        BY <1>4, <1>7, <3>3 DEF Clean, FilesOf, HeadCommit
      <3>5. QED BY <1>3, <1>4, <1>7, <1>9, <2>1, <3>1, <3>2, <3>4 DEF RunInv, InRun, Doing
    <2>2. CASE step = "commitNext"
      <3>1. /\ head = ReleaseBranch /\ work.version = NextPatch(v)
            /\ <<v.minor, v.patch>> \in commits[HeadCommit].log
            /\ work.log = commits[HeadCommit].log
        BY <1>2, <2>2 DEF InRun, Doing
      <3>2. refs'[Main] = refs[Main] /\ commits'[refs[Main]] = commits[refs[Main]]
        BY <1>7, <1>8, <1>9, <3>1
      <3>3. commits'[refs'[ReleaseBranch]].log = work.log /\ ReleaseBranch \in DOMAIN refs'
        BY <1>7, <1>9, <3>1
      <3>4. ~(commits'[refs'[ReleaseBranch]].version.dev
              /\ commits'[refs'[ReleaseBranch]].version.patch = 0)
        BY <1>2, <1>7, <3>1, VersionFields
      <3>5. QED BY <1>3, <1>4, <1>9, <2>2, <3>1, <3>2, <3>3, <3>4
            DEF RunInv, InRun, Doing, BranchLog, OnMain
    <2>3. CASE step = "commitMain"
      BY <1>3, <2>3 DEF RunInv
    <2>4. QED BY <2>1, <2>2, <2>3
  <1>11. QED BY <1>2, <1>4, <1>5, <1>7, <1>9, <1>10, CoreParts

-----------------------------------------------------------------------------
(* Start, the end of a run, and the user between two runs. *)

LEMMA StartCore == ASSUME CoreInv, Start PROVE CoreInv'
  <1> DEFINE plan == IF head = Main THEN MainPlan ELSE OnBranchPlan
  <1>0. PICK v : v = [work.version EXCEPT !.dev = FALSE]
    OBVIOUS
  <1>1. /\ run' = [todo |-> plan, version |-> v] /\ Releasable
        /\ UNCHANGED <<commits, refs, head, work, byHand>>
    BY <1>0 DEF Start
  <1>2. Typed /\ Lines /\ work.version \in Versions
    BY DEF CoreInv, Typed, Files
  <1>3. /\ v \in Versions /\ ~v.dev /\ v.minor = work.version.minor
        /\ v.patch = work.version.patch
    BY <1>0, <1>2 DEF Versions
  <1>4. DevOf(v) = work.version
    BY <1>1, <1>2, <1>3 DEF Releasable, DevOf, DevVersion, Version, Versions
  <1>5. Clean /\ work.version = commits[HeadCommit].version
    BY <1>1, <1>2, HeadFacts DEF Releasable, Clean
  <1>6. HistoryInv' /\ RepoTyped'
    BY <1>1, SameRepo
  <1>7. /\ plan \in Seq(StepNames) /\ IsRest(plan)
        /\ plan[1] = IF head = Main THEN "branch" ELSE "write"
        /\ ToMain(plan) <=> head = Main
    BY PlansAreRests
  <1> HIDE DEF plan
  <1>8. (run # None => run \in Runs /\ ~run.version.dev /\ IsRest(run.todo))'
    BY <1>1, <1>3, <1>7 DEF Runs
  <1>9. run'.todo = plan /\ run'.version = v /\ (FromMain' <=> head = Main)
    BY <1>1, <1>7 DEF FromMain, ToMain
  <1>10. Clean'
    BY <1>1, <1>5 DEF Clean, FilesOf, HeadCommit
  <1>11. CASE head = Main
    <2>1. v.patch = 0
      BY <1>2, <1>3, <1>5, <1>11 DEF Lines, OnMain, HeadCommit
    <2>2. AheadOfReleases(v)'
      BY <1>1, <1>3, <1>11 DEF Releasable, AheadOfReleases
    <2>3. commits'[refs'[Main]].version = DevOf(v)
      BY <1>1, <1>4, <1>5, <1>11 DEF HeadCommit
    <2>4. RunInv'
      BY <1>1, <1>7, <1>9, <1>10, <1>11, <2>1, <2>2, <2>3
      DEF RunInv, InRun, Doing, AheadOfReleases
    <2>5. QED BY <1>1, <1>2, <1>6, <1>8, <2>4, CoreParts DEF Typed
  <1>12. CASE head # Main
    <2>1. head[1] = "branch"
      BY <1>1, <1>12 DEF Releasable
    <2>2. head = <<"branch", head[2]>> /\ head[2] = Minor(HeadCommit)
      BY <1>2, <1>12, <2>1, RefKinds DEF Typed, Lines, Branches, HeadCommit
    <2>3. (head = ReleaseBranch)'
      BY <1>1, <1>3, <1>5, <1>9, <2>2 DEF ReleaseBranch, Minor
    <2>4. (commits[HeadCommit].version)' = DevOf(v)
      BY <1>1, <1>4, <1>5 DEF HeadCommit
    <2>5. RunInv'
      BY <1>7, <1>9, <1>10, <1>12, <2>3, <2>4 DEF RunInv, InRun, Doing
    <2>6. QED BY <1>1, <1>2, <1>6, <1>8, <2>5, CoreParts DEF Typed
  <1>13. QED BY <1>11, <1>12

(* Where no run is under way, its invariant asks for nothing. *)
LEMMA IdleCore ==
  ASSUME HistoryInv', RepoTyped', (head \in DOMAIN refs)', (work \in Files)', run' = None
  PROVE  CoreInv'
  BY CoreParts DEF RunInv

LEMMA InterruptedCore == ASSUME CoreInv, Interrupted PROVE CoreInv'
  <1>1. run' = None /\ UNCHANGED <<commits, refs, head, work, byHand>>
    BY DEF Interrupted
  <1>2. HistoryInv' /\ RepoTyped'
    BY <1>1, SameRepo
  <1>3. QED BY <1>1, <1>2, IdleCore DEF CoreInv, Typed

LEMMA DiscardCore == ASSUME CoreInv, Discard PROVE CoreInv'
  <1>1. run' = None /\ work' = FilesOf(HeadCommit) /\ UNCHANGED <<commits, refs, head, byHand>>
    BY DEF Discard, ByUser
  <1>2. HistoryInv' /\ RepoTyped'
    BY <1>1, SameRepo
  <1>3. work' \in Files
    BY <1>1, HeadFacts DEF CoreInv
  <1>4. QED BY <1>1, <1>2, <1>3, IdleCore DEF CoreInv, Typed

LEMMA UserChecksOutCore ==
  ASSUME CoreInv, NEW r \in DOMAIN refs, UserChecksOut(r) PROVE CoreInv'
  <1>1. /\ run' = None /\ head' = r /\ work' = FilesOf(refs[r])
        /\ UNCHANGED <<commits, refs, byHand>>
    BY DEF UserChecksOut, ByUser, GitCheckout
  <1>2. HistoryInv' /\ RepoTyped'
    BY <1>1, SameRepo
  <1>3. work' \in Files
    BY <1>1, HeadFacts DEF CoreInv, Typed
  <1>4. QED BY <1>1, <1>2, <1>3, IdleCore

LEMMA ShippingCore ==
  ASSUME CoreInv, Package \/ \E shop \in Shops : Ship(shop) PROVE CoreInv'
  <1>1. run' = None /\ UNCHANGED <<commits, refs, head, work, byHand>>
    BY DEF Package, Ship, ByUser
  <1>2. HistoryInv' /\ RepoTyped'
    BY <1>1, SameRepo
  <1>3. QED BY <1>1, <1>2, IdleCore DEF CoreInv, Typed

LEMMA DeleteBranchCore ==
  ASSUME CoreInv, NEW r \in DOMAIN refs, DeleteBranch(r) PROVE CoreInv'
  <1>1. /\ run' = None /\ refs' = [q \in DOMAIN refs \ {r} |-> refs[q]]
        /\ r \in DOMAIN refs /\ r[1] = "branch" /\ r # head
        /\ UNCHANGED <<commits, head, work, byHand>>
    BY DEF DeleteBranch, ByUser, Branches
  <1>2. DOMAIN refs' = DOMAIN refs \ {r} /\ \A q \in DOMAIN refs' : refs'[q] = refs[q]
    BY <1>1
  <1>3. r # Main
    BY <1>1, RefKinds
  <1>4. RepoTyped' /\ (head \in DOMAIN refs)'
    BY <1>1, <1>2, <1>3 DEF CoreInv, Typed, RepoTyped
  <1>5. Lines'
    BY <1>1, <1>2, <1>3 DEF CoreInv, Typed, Lines, Branches, OnMain, Minor
  <1>6. TagsAreReleases' /\ PreviewInSync' /\ VersionsMoveForward'
    BY <1>1, <1>2 DEF CoreInv, TagsAreReleases, PreviewInSync, VersionsMoveForward
  <1>7. QED BY <1>1, <1>4, <1>5, <1>6, IdleCore DEF CoreInv, Typed, HistoryInv

LEMMA BumpByHandAdvances ==
  ASSUME CoreInv, BumpByHand
  PROVE  /\ work' \in Files /\ Commits(work') /\ run' = None /\ run = None /\ head' = head
         /\ byHand' = byHand \cup {NewCommit} /\ interrupted' = interrupted
         /\ published' = published
         /\ work'.log = commits[HeadCommit].log
         /\ \E files \in Files : files = work' /\ Advances(files)
  <1> DEFINE old == work.version
  <1>1. /\ run' = None /\ run = None /\ Clean /\ head' = head /\ Commits(work')
        /\ byHand' = byHand \cup {NewCommit} /\ interrupted' = interrupted
        /\ published' = published
    BY DEF BumpByHand, ByUser, NewCommit
  <1>2. /\ Typed /\ work \in Files /\ old \in Versions /\ old = commits[HeadCommit].version
        /\ work.log = commits[HeadCommit].log
    BY <1>1, HeadFacts DEF CoreInv, Typed, Files, Clean
  <1>3. old.minor \in Nat /\ old.patch \in Nat
    BY <1>2, VersionFields
  <1>4. PICK new \in Versions :
          /\ work' = [work EXCEPT !.version = new]
          /\ Before(old.minor, old.patch, new.minor, new.patch)
          /\ \/ head = Main /\ new.dev /\ new.patch = 0
             \/ /\ head[1] = "branch" /\ new.minor = old.minor
                /\ ~(new.dev /\ new.patch = 0)
    <2>1. CASE head = Main /\ work' = [work EXCEPT !.version = DevVersion(@.minor + 1, 0)]
      <3> DEFINE new == DevVersion(old.minor + 1, 0)
      <3>1. work' = [work EXCEPT !.version = new]
        BY <1>2, <2>1 DEF Files
      <3>2. new \in Versions /\ new.minor = old.minor + 1 /\ new.patch = 0 /\ new.dev
        BY <1>3 DEF DevVersion, Version, Versions
      <3> HIDE DEF new
      <3>3. Before(old.minor, old.patch, new.minor, new.patch)
        BY <1>3, <3>2 DEF Before
      <3>4. QED BY <2>1, <3>1, <3>2, <3>3
    <2>2. CASE /\ head[1] = "branch"
               /\ work' = [work EXCEPT !.version = DevVersion(@.minor, @.patch + 1)]
      <3> DEFINE new == DevVersion(old.minor, old.patch + 1)
      <3>1. work' = [work EXCEPT !.version = new]
        BY <1>2, <2>2 DEF Files
      <3>2. /\ new \in Versions /\ new.minor = old.minor /\ new.patch = old.patch + 1
            /\ new.patch # 0
        BY <1>3 DEF DevVersion, Version, Versions
      <3> HIDE DEF new
      <3>3. Before(old.minor, old.patch, new.minor, new.patch)
        BY <1>3, <3>2 DEF Before
      <3>4. QED BY <2>2, <3>1, <3>2, <3>3
    <2>3. QED BY <2>1, <2>2 DEF BumpByHand
  <1>5. work' \in Files /\ work'.version = new /\ work'.log = work.log
    BY <1>2, <1>4 DEF Files
  <1>6. head[1] = "branch" => new.minor = head[2]
    <2>1. ASSUME head[1] = "branch" PROVE old.minor = head[2]
      BY <1>2, <2>1 DEF CoreInv, Typed, Lines, Branches, Minor, HeadCommit
    <2>2. head = Main => head[1] # "branch"
      BY RefKinds
    <2>3. QED BY <1>4, <2>1, <2>2
  <1>7. Earlier(commits[HeadCommit].version, new)
    BY <1>2, <1>4 DEF Earlier
  <1>8. \E files \in Files : files = work' /\ Advances(files)
    <2>1. PICK files \in Files : files = work'
      BY <1>5
    <2>2. Advances(files)
      BY <1>4, <1>5, <1>6, <1>7, <2>1 DEF Advances
    <2>3. QED BY <2>1, <2>2
  <1>9. QED BY <1>1, <1>2, <1>5, <1>8

LEMMA BumpByHandCore == ASSUME CoreInv, BumpByHand PROVE CoreInv'
  <1>1. PICK files \in Files : files = work' /\ Advances(files)
    BY BumpByHandAdvances
  <1>2. /\ Commits(files) /\ run' = None /\ head' = head /\ work' \in Files
        /\ byHand \subseteq byHand' /\ NewCommit \in byHand'
    BY <1>1, BumpByHandAdvances
  <1>3. HistoryInv' /\ RepoTyped'
    BY <1>1, <1>2, CommitKeepsHistory
  <1>4. (head \in DOMAIN refs)'
    BY <1>2, CommitsFacts DEF CoreInv, Typed
  <1>5. QED BY <1>2, <1>3, <1>4, IdleCore

-----------------------------------------------------------------------------
LEMMA InitCore == Init => CoreInv
  <1> SUFFICES ASSUME Init PROVE CoreInv
    OBVIOUS
  <1> DEFINE dev == DevVersion(FirstMinor, 0)
             first == [version |-> dev, preview |-> TRUE, log |-> {}, parent |-> 0]
  <1>1. /\ commits = <<first>> /\ refs = [r \in {Main} |-> 1] /\ head = Main /\ run = None
        /\ work = [version |-> dev, preview |-> TRUE, log |-> {}] /\ byHand = {}
    BY DEF Init
  <1>2. dev \in Versions /\ dev.dev /\ dev.patch = 0
    BY ReleaseAssumption DEF DevVersion, Version, Versions
  <1> HIDE DEF dev
  <1>3. first \in Commit /\ first.version = dev /\ first.preview /\ first.parent = 0
    BY <1>2 DEF Commit, Log
  <1>4. work \in Files
    BY <1>1, <1>2 DEF Files, Log
  <1> HIDE DEF first
  <1>5. commits \in Seq(Commit) /\ DOMAIN commits = {1} /\ commits[1] = first
    BY <1>1, <1>3
  <1>6. DOMAIN refs = {Main} /\ refs[Main] = 1
    BY <1>1
  <1>7. Typed
    BY <1>1, <1>3, <1>4, <1>5, <1>6 DEF Typed, IsRef
  <1>8. Lines
    BY <1>2, <1>3, <1>5, <1>6, RefKinds DEF Lines, OnMain, Branches
  <1>9. TagsAreReleases /\ PreviewInSync /\ VersionsMoveForward
    <2>1. TagsAreReleases
      BY <1>6, RefKinds DEF TagsAreReleases
    <2>2. PreviewInSync
      <3>1. first.preview = dev.dev
        BY <1>2, <1>3 DEF Commit, Versions
      <3>2. QED BY <1>3, <1>5, <3>1 DEF PreviewInSync
    <2>3. VersionsMoveForward
      BY <1>3, <1>5 DEF VersionsMoveForward
    <2>4. QED BY <2>1, <2>2, <2>3
  <1>10. QED BY <1>1, <1>7, <1>8, <1>9 DEF CoreInv, RunInv

LEMMA NextCore == CoreInv /\ [Next]_vars => CoreInv'
  <1> SUFFICES ASSUME CoreInv, [Next]_vars PROVE CoreInv'
    OBVIOUS
  <1>1. CASE Step
    BY <1>1, CreateBranchCore, CheckoutBranchCore, WriteReleaseCore, ChangelogCore,
       CreateTagCore, WriteNextCore, CheckoutMainCore, TakeChangelogCore, WriteMainCore,
       CommitVersionCore DEF Step
  <1>2. CASE User
    BY <1>2, DiscardCore, BumpByHandCore, UserChecksOutCore, DeleteBranchCore,
       ShippingCore DEF User
  <1>3. CASE UNCHANGED vars
    <2>1. UNCHANGED <<commits, refs, byHand, head, work, run>>
      BY <1>3 DEF vars
    <2>2. HistoryInv' /\ RepoTyped'
      BY <2>1, SameRepo
    <2>3. RunInv'
      BY <2>1 DEF CoreInv, RunInv, InRun, Doing, FromMain, HeadCommit, ReleaseBranch, Clean,
        FilesOf, AheadOfReleases, BranchLog, OnMain
    <2>4. QED BY <2>1, <2>2, <2>3, CoreParts DEF CoreInv, Typed
  <1>4. QED BY <1>1, <1>2, <1>3, StartCore, InterruptedCore DEF Next

(* Every reachable state satisfies the first layer: the shape of the          *)
(* repository, what a run has done and has still to do, and what every commit,*)
(* branch and tag says.                                                      *)
THEOREM CoreInvariance == Spec => []CoreInv
  BY InitCore, NextCore, PTL DEF Spec

-----------------------------------------------------------------------------
(* What follows at once from the first layer. *)

(* Wherever runs broke off, a tag names a release commit: its version without *)
(* -dev, no preview, its section in the changelog.                           *)
THEOREM TagsAreAlwaysReleases == Spec => []TagsAreReleases
  BY CoreInvariance, PTL DEF CoreInv

(* A commit that release.ts made is a preview exactly when its version is a   *)
(* prerelease.                                                               *)
THEOREM PreviewStaysInSync == Spec => []PreviewInSync
  BY CoreInvariance, PTL DEF CoreInv

(* Along every branch the version moves forward.                             *)
THEOREM VersionsAlwaysMoveForward == Spec => []VersionsMoveForward
  BY CoreInvariance, PTL DEF CoreInv

-----------------------------------------------------------------------------
(* The steps, by what they do to the commits and the refs. *)

(* A step that only changes the working tree, what is checked out, what is   *)
(* shipped: a run that is under way stays so, for the same version.          *)
KeepsRepo ==
    /\ UNCHANGED <<commits, refs, interrupted>>
    /\ \/ run = None /\ run' = None
       \/ /\ run # None /\ run' # None /\ run'.version = run.version
          /\ (FromMain' <=> FromMain)

LEMMA OtherSteps ==
  ASSUME CoreInv,
         \/ CheckoutBranch \/ CheckoutMain \/ WriteRelease \/ RegenerateChangelog
         \/ WriteNext \/ TakeChangelog \/ WriteMain
  PROVE  KeepsRepo /\ published' = published
  <1>1. PICK step \in StepNames \ {"commitMain", "commitNext"} :
          Does(step) /\ UNCHANGED <<commits, refs>>
    BY DEF CheckoutBranch, CheckoutMain, WriteRelease, RegenerateChangelog, WriteNext,
       TakeChangelog, WriteMain, Writes, StepNames
  <1>2. run # None
    BY <1>1 DEF Does
  <1>3. QED BY <1>1, <1>2, StepFacts DEF KeepsRepo

LEMMA Effects ==
  ASSUME CoreInv, [Next]_vars
  PROVE  \/ Start \/ Interrupted \/ CreateBranch \/ CreateTag
         \/ CommitVersion \/ BumpByHand
         \/ \E r \in DOMAIN refs : DeleteBranch(r)
         \/ KeepsRepo /\ (published' = published \/ \E shop \in Shops : Ship(shop))
  <1>1. CASE Step
    BY <1>1, OtherSteps DEF Step
  <1>2. CASE User
    <2>1. Discard => KeepsRepo /\ published' = published
      BY DEF Discard, ByUser, KeepsRepo
    <2>2. \A r : UserChecksOut(r) => KeepsRepo /\ published' = published
      BY DEF UserChecksOut, ByUser, KeepsRepo
    <2>3. Package => KeepsRepo /\ published' = published
      BY DEF Package, ByUser, KeepsRepo
    <2>4. \A shop : Ship(shop) => KeepsRepo
      BY DEF Ship, ByUser, KeepsRepo
    <2>5. QED BY <1>2, <2>1, <2>2, <2>3, <2>4 DEF User
  <1>3. CASE UNCHANGED vars
    BY <1>3 DEF vars, KeepsRepo, FromMain
  <1>4. QED BY <1>1, <1>2, <1>3 DEF Next

(* A run creates the branch of main's minor version, later the tag.          *)
LEMMA CreateBranchEffect ==
  ASSUME CoreInv, CreateBranch
  PROVE  /\ head = Main /\ ReleaseBranch \notin DOMAIN refs /\ IsRef(ReleaseBranch)
         /\ ReleaseBranch[1] = "branch" /\ ReleaseBranch[2] = run.version.minor
         /\ ReleaseBranch # Main
         /\ Minor(refs[Main]) = run.version.minor /\ run.version.minor \in Nat
         /\ run.version.patch = 0 /\ AheadOfReleases(run.version)
         /\ FromMain /\ FromMain' /\ run # None /\ run' # None /\ run'.version = run.version
         /\ DOMAIN refs' = DOMAIN refs \cup {ReleaseBranch}
         /\ refs'[ReleaseBranch] = HeadCommit
         /\ \A q \in DOMAIN refs : refs'[q] = refs[q]
         /\ UNCHANGED <<commits, interrupted, published>>
  <1>1. Does("branch") /\ run # None
    BY DEF CreateBranch, Does
  <1>2. /\ Typed /\ InRun /\ FromMain /\ run.todo[1] = "branch"
        /\ run.version \in Versions /\ ~run.version.dev
        /\ run' # None /\ run'.version = run.version /\ FromMain'
        /\ UNCHANGED <<interrupted, published>>
    BY <1>1, StepFacts DEF Pairs, MainOnly
  <1>3. /\ head = Main /\ commits[refs[Main]].version = DevOf(run.version)
        /\ run.version.patch = 0 /\ AheadOfReleases(run.version)
    BY <1>2 DEF InRun, Doing
  <1>4. Minor(refs[Main]) = run.version.minor /\ run.version.minor \in Nat
    BY <1>2, <1>3, VersionFields DEF Minor
  <1>5. /\ ReleaseBranch \notin DOMAIN refs /\ refs' = WithRef(ReleaseBranch, HeadCommit)
        /\ commits' = commits
    BY DEF CreateBranch
  <1>6. /\ DOMAIN refs' = DOMAIN refs \cup {ReleaseBranch}
        /\ refs'[ReleaseBranch] = HeadCommit
        /\ \A q \in DOMAIN refs : refs'[q] = refs[q]
    BY <1>5, WithRefFacts
  <1>7. /\ IsRef(ReleaseBranch) /\ ReleaseBranch[1] = "branch" /\ ReleaseBranch # Main
        /\ ReleaseBranch[2] = run.version.minor
    BY <1>2, RunVersion
  <1>8. QED BY <1>1, <1>2, <1>3, <1>4, <1>5, <1>6, <1>7

LEMMA CreateTagEffect ==
  ASSUME CoreInv, CreateTag
  PROVE  /\ head = ReleaseBranch /\ ReleaseBranch \in DOMAIN refs
         /\ ReleaseBranch[1] = "branch" /\ ReleaseBranch[2] = run.version.minor
         /\ ReleaseBranch # Main
         /\ ReleaseTag \notin DOMAIN refs /\ ReleaseTag[1] = "tag" /\ ReleaseTag # Main
         /\ ReleaseTag[2] = run.version.minor /\ ReleaseTag[3] = run.version.patch
         /\ run.version.minor \in Nat /\ run.version.patch \in Nat
         /\ commits[HeadCommit].version = run.version
         /\ run # None /\ run' # None /\ run'.version = run.version /\ (FromMain' <=> FromMain)
         /\ DOMAIN refs' = DOMAIN refs \cup {ReleaseTag}
         /\ refs'[ReleaseTag] = HeadCommit
         /\ \A q \in DOMAIN refs : refs'[q] = refs[q]
         /\ UNCHANGED <<commits, interrupted, published>>
  <1>1. Does("tag") /\ run # None
    BY DEF CreateTag, Does
  <1>2. /\ Typed /\ InRun /\ run.todo[1] = "tag"
        /\ run.version \in Versions /\ ~run.version.dev
        /\ run' # None /\ run'.version = run.version /\ (FromMain' <=> FromMain)
        /\ UNCHANGED <<interrupted, published>>
    BY <1>1, StepFacts DEF Pairs
  <1>3. /\ head = ReleaseBranch /\ commits[HeadCommit].version = run.version
    BY <1>2 DEF InRun, Doing
  <1>4. /\ ReleaseTag \notin DOMAIN refs /\ refs' = WithRef(ReleaseTag, HeadCommit)
        /\ commits' = commits
    BY DEF CreateTag, Tagged
  <1>5. /\ DOMAIN refs' = DOMAIN refs \cup {ReleaseTag}
        /\ refs'[ReleaseTag] = HeadCommit
        /\ \A q \in DOMAIN refs : refs'[q] = refs[q]
    BY <1>4, WithRefFacts
  <1>6. /\ ReleaseBranch[1] = "branch" /\ ReleaseBranch # Main
        /\ ReleaseBranch[2] = run.version.minor
        /\ ReleaseTag[1] = "tag" /\ ReleaseTag # Main
        /\ ReleaseTag[2] = run.version.minor /\ ReleaseTag[3] = run.version.patch
        /\ run.version.minor \in Nat /\ run.version.patch \in Nat
    BY <1>2, RunVersion DEF Versions
  <1>7. ReleaseBranch \in DOMAIN refs
    BY <1>2, <1>3 DEF Typed
  <1>8. QED BY <1>1, <1>2, <1>3, <1>4, <1>5, <1>6, <1>7

LEMMA DeleteBranchEffect ==
  ASSUME NEW r, DeleteBranch(r)
  PROVE  /\ r \in DOMAIN refs /\ r[1] = "branch" /\ r[2] \in interrupted /\ r # Main
         /\ DOMAIN refs' = DOMAIN refs \ {r} /\ \A q \in DOMAIN refs' : refs'[q] = refs[q]
         /\ run = None /\ run' = None /\ UNCHANGED <<commits, interrupted, published>>
  <1>1. /\ run' = None /\ run = None /\ refs' = [q \in DOMAIN refs \ {r} |-> refs[q]]
        /\ r \in DOMAIN refs /\ r[1] = "branch" /\ r[2] \in interrupted
        /\ UNCHANGED <<commits, interrupted, published>>
    BY DEF DeleteBranch, ByUser, Branches
  <1>2. QED BY <1>1, RefKinds

(* What a new commit on what is checked out changes, by a run or by hand.    *)
NewOnHead(files, n) ==
    /\ files \in Files /\ Advances(files)
    /\ n \notin DOMAIN commits /\ n # 0 /\ DOMAIN commits' = DOMAIN commits \cup {n}
    /\ \A c \in DOMAIN commits : commits'[c] = commits[c]
    /\ commits'[n].version = files.version /\ commits'[n].log = files.log
    /\ commits'[n].parent = HeadCommit
    /\ head \in DOMAIN refs /\ HeadCommit \in DOMAIN commits
    /\ DOMAIN refs' = DOMAIN refs /\ refs'[head] = n
    /\ \A q \in DOMAIN refs \ {head} : refs'[q] = refs[q]
    /\ head' = head /\ UNCHANGED <<interrupted, published>>

LEMMA NewCommitEffect ==
  ASSUME CoreInv, CommitVersion \/ BumpByHand
  PROVE  \E files, n : NewOnHead(files, n) /\ (files = work \/ files = work')
  <1>1. Typed /\ head \in DOMAIN refs /\ HeadCommit \in DOMAIN commits
    BY HeadFacts DEF CoreInv, Typed
  <1>2. \E files \in Files : /\ Advances(files) /\ Commits(files)
                             /\ files = work \/ files = work'
                             /\ UNCHANGED <<head, interrupted, published>>
    <2>1. CASE CommitVersion
      BY <2>1, CommitVersionAdvances, StepFacts DEF CommitVersion
    <2>2. CASE BumpByHand
      BY <2>2, BumpByHandAdvances
    <2>3. QED BY <2>1, <2>2
  <1>3. PICK files \in Files : /\ Advances(files) /\ Commits(files)
                               /\ files = work \/ files = work'
                               /\ UNCHANGED <<head, interrupted, published>>
    BY <1>2
  <1>4. PICK n : n = NewCommit
    OBVIOUS
  <1>5. NewOnHead(files, n)
    BY <1>1, <1>3, <1>4, CommitsFacts DEF NewOnHead
  <1>6. QED BY <1>3, <1>5

-----------------------------------------------------------------------------
(* How far main is ahead: as long as no run broke off, of every branch and   *)
(* tag, except those that the run under way has just made.                   *)

RunOfMain(m) == run # None /\ FromMain /\ run.version.minor = m

AheadInv ==
    interrupted = {} =>
        \A r \in DOMAIN refs \ {Main} :
            \/ r[2] < Minor(refs[Main])
            \/ r[2] = Minor(refs[Main]) /\ RunOfMain(r[2])

LEMMA RefNumbers ==
  ASSUME CoreInv
  PROVE  /\ Main \in DOMAIN refs /\ refs[Main] \in DOMAIN commits /\ Minor(refs[Main]) \in Nat
         /\ \A r \in DOMAIN refs \ {Main} : r[2] \in Nat
  <1>1. /\ Main \in DOMAIN refs /\ refs[Main] \in DOMAIN commits
        /\ \A r \in DOMAIN refs : IsRef(r)
    BY DEF CoreInv, Typed
  <1>2. commits[refs[Main]].version \in Versions
    BY <1>1, HeadFacts DEF CoreInv, Commit
  <1>3. QED BY <1>1, <1>2, RefKinds DEF Minor, Versions

(* A run of release.ts: what it is for, and when it is over. *)
LEMMA RunEnds ==
  ASSUME CoreInv, CommitVersion
  PROVE  /\ run # None
         /\ \/ /\ run' # None /\ run'.version = run.version /\ (FromMain' <=> FromMain)
               /\ head # Main
            \/ run' = None /\ ~FromMain /\ head # Main
            \/ /\ run' = None /\ FromMain /\ head = Main
               /\ work.version = NextMinor(run.version) /\ work.log = BranchLog
               /\ Minor(refs[Main]) = run.version.minor /\ run.version \in Versions
               /\ run.version.patch = 0
               /\ ReleaseBranch \in DOMAIN refs /\ ~OnMain(refs[ReleaseBranch])
               /\ <<run.version.minor, run.version.patch>> \in BranchLog
  <1>1. PICK step \in {"commit", "commitNext", "commitMain"} : Does(step)
    BY DEF CommitVersion
  <1>2. /\ run # None /\ Typed /\ InRun /\ run.todo[1] = step
        /\ run.version \in Versions /\ ~run.version.dev
        /\ step = "commitMain" => FromMain
        /\ step # "commit" \/ run' # None
        /\ step # "commitMain" \/ run' = None
        /\ run' # None => run'.version = run.version /\ (FromMain' <=> FromMain)
    BY <1>1, StepFacts DEF MainOnly, Pairs, Does
  <1>3. CASE step = "commitMain"
    <2>1. /\ FromMain /\ run' = None /\ head = Main
          /\ work.version = NextMinor(run.version) /\ work.log = BranchLog
          /\ commits[refs[Main]].version = DevOf(run.version) /\ run.version.patch = 0
          /\ ReleaseBranch \in DOMAIN refs /\ ~OnMain(refs[ReleaseBranch])
          /\ <<run.version.minor, run.version.patch>> \in BranchLog
      BY <1>2, <1>3 DEF InRun, Doing
    <2>2. Minor(refs[Main]) = run.version.minor
      BY <1>2, <2>1, VersionFields DEF Minor
    <2>3. QED BY <1>2, <2>1, <2>2
  <1>4. CASE step # "commitMain"
    <2>1. head = ReleaseBranch
      BY <1>2, <1>4 DEF InRun, Doing
    <2>2. head # Main
      BY <1>2, <2>1, RunVersion
    <2>3. run' = None => ~FromMain
      BY <1>1, <1>2, <1>4, Advance
    <2>4. QED BY <1>2, <2>2, <2>3
  <1>5. QED BY <1>3, <1>4

(* A new commit: the minor version of main stays or is the next one. *)
LEMMA NewCommitMinors ==
  ASSUME CoreInv, NEW files, NEW n, NewOnHead(files, n)
  PROVE  /\ head # Main => Minor(refs[Main])' = Minor(refs[Main])
         /\ head = Main => Minor(refs[Main])' = files.version.minor
         /\ Minor(refs[Main]) <= Minor(refs[Main])'
         /\ Minor(refs[Main])' \in Nat
  <1>1. Main \in DOMAIN refs /\ refs[Main] \in DOMAIN commits /\ Minor(refs[Main]) \in Nat
    BY RefNumbers
  <1>2. head # Main => Minor(refs[Main])' = Minor(refs[Main])
    BY <1>1 DEF NewOnHead, Minor
  <1>3. head = Main => Minor(refs[Main])' = files.version.minor
    BY <1>1 DEF NewOnHead, Minor
  <1>4. files.version \in Versions /\ Earlier(commits[HeadCommit].version, files.version)
    BY DEF NewOnHead, Advances, Files
  <1>5. head = Main => /\ files.version.minor \in Nat
                       /\ Minor(refs[Main]) <= files.version.minor
    BY <1>1, <1>4 DEF Versions, Earlier, Before, Triple, Minor, HeadCommit
  <1>6. QED BY <1>1, <1>2, <1>3, <1>5

LEMMA NextAhead == CoreInv /\ AheadInv /\ [Next]_vars => AheadInv'
  <1> SUFFICES ASSUME CoreInv, AheadInv, [Next]_vars, interrupted' = {}
               PROVE  \A r \in DOMAIN refs' \ {Main} :
                        \/ r[2] < Minor(refs[Main])'
                        \/ r[2] = Minor(refs[Main])' /\ RunOfMain(r[2])'
    BY DEF AheadInv, RunOfMain
  <1>1. /\ Main \in DOMAIN refs /\ refs[Main] \in DOMAIN commits /\ Minor(refs[Main]) \in Nat
        /\ \A r \in DOMAIN refs \ {Main} : r[2] \in Nat
    BY RefNumbers
  <1>2. interrupted = {} =>
          \A r \in DOMAIN refs \ {Main} :
            \/ r[2] < Minor(refs[Main])
            \/ /\ r[2] = Minor(refs[Main])
               /\ run # None /\ FromMain /\ run.version.minor = r[2]
    BY DEF AheadInv, RunOfMain
  <1>3. CASE Start
    BY <1>2, <1>3 DEF Start, Minor
  <1>4. CASE Interrupted
    BY <1>2, <1>4 DEF Interrupted, Minor
  <1>5. CASE CreateBranch
    <2>1. Minor(refs[Main])' = Minor(refs[Main])
      BY <1>1, <1>5, CreateBranchEffect DEF Minor
    <2>2. QED BY <1>2, <1>5, <2>1, CreateBranchEffect DEF RunOfMain
  <1>6. CASE CreateTag
    <2>1. Minor(refs[Main])' = Minor(refs[Main])
      BY <1>1, <1>6, CreateTagEffect DEF Minor
    <2>2. QED BY <1>2, <1>6, <2>1, CreateTagEffect DEF RunOfMain
  <1>7. CASE CommitVersion
    <2>1. PICK files, n : NewOnHead(files, n) /\ (files = work \/ files = work')
      BY <1>7, NewCommitEffect
    <2>2. work' = work
      BY <1>7 DEF CommitVersion
    <2>3. /\ head # Main => Minor(refs[Main])' = Minor(refs[Main])
          /\ head = Main => Minor(refs[Main])' = work.version.minor
          /\ DOMAIN refs' = DOMAIN refs /\ interrupted' = interrupted
      BY <2>1, <2>2, NewCommitMinors DEF NewOnHead
    <2>4. CASE head # Main
      <3>1. /\ run # None
            /\ \/ run' # None /\ run'.version = run.version /\ (FromMain' <=> FromMain)
               \/ run' = None /\ ~FromMain
        BY <1>7, <2>4, RunEnds
      <3>2. QED BY <1>2, <2>3, <2>4, <3>1 DEF RunOfMain
    <2>5. CASE head = Main
      <3>1. /\ work.version = NextMinor(run.version)
            /\ Minor(refs[Main]) = run.version.minor /\ run.version \in Versions
        BY <1>7, <2>5, RunEnds
      <3>2. Minor(refs[Main])' = Minor(refs[Main]) + 1
        BY <2>3, <2>5, <3>1, VersionFields
      <3>3. QED BY <1>1, <1>2, <2>3, <3>2
    <2>6. QED BY <2>4, <2>5
  <1>8. CASE BumpByHand
    <2>1. PICK files, n : NewOnHead(files, n)
      BY <1>8, NewCommitEffect
    <2>2. /\ Minor(refs[Main]) <= Minor(refs[Main])' /\ Minor(refs[Main])' \in Nat
          /\ DOMAIN refs' = DOMAIN refs /\ interrupted' = interrupted
      BY <2>1, NewCommitMinors DEF NewOnHead
    <2>3. run = None
      BY <1>8, BumpByHandAdvances
    <2>4. QED BY <1>1, <1>2, <2>2, <2>3
  <1>9. CASE \E r \in DOMAIN refs : DeleteBranch(r)
    BY <1>9, DeleteBranchEffect
  <1>10. CASE KeepsRepo
    <2>1. Minor(refs[Main])' = Minor(refs[Main])
      BY <1>10 DEF KeepsRepo, Minor
    <2>2. QED BY <1>2, <1>10, <2>1 DEF KeepsRepo, RunOfMain
  <1>11. QED BY <1>3, <1>4, <1>5, <1>6, <1>7, <1>8, <1>9, <1>10, Effects

LEMMA InitAhead == Init => AheadInv
  BY DEF Init, AheadInv

LEMMA AheadGivesNext == CoreInv /\ AheadInv => NextReleaseIsPossible
  <1> SUFFICES ASSUME CoreInv, AheadInv, run = None, head = Main, Clean, interrupted = {}
               PROVE  Releasable /\ <<"branch", work.version.minor>> \notin DOMAIN refs
    BY DEF NextReleaseIsPossible
  <1>1. \A r \in DOMAIN refs \ {Main} : r[2] < Minor(refs[Main])
    BY DEF AheadInv, RunOfMain
  <1>2. HeadCommit = refs[Main] /\ Typed
    BY DEF HeadCommit, CoreInv
  <1>3. work.version = commits[refs[Main]].version
    BY <1>2, HeadFacts DEF Clean
  <1>4. work.version.minor = Minor(refs[Main]) /\ work.version.dev
    BY <1>3 DEF Minor, CoreInv, Lines, OnMain
  <1>5. AheadOfReleases(work.version)
    BY <1>1, <1>4 DEF AheadOfReleases, Before
  <1>6. <<"branch", work.version.minor>> \notin DOMAIN refs
    <2> SUFFICES ASSUME <<"branch", work.version.minor>> \in DOMAIN refs PROVE FALSE
      OBVIOUS
    <2>1. PICK b : b = <<"branch", work.version.minor>>
      OBVIOUS
    <2>2. b # Main /\ b[2] = work.version.minor
      BY <2>1, RefKinds
    <2>3. b[2] < Minor(refs[Main])
      BY <1>1, <2>1, <2>2
    <2>4. Minor(refs[Main]) \in Nat
      BY RefNumbers
    <2>5. QED BY <1>4, <2>2, <2>3, <2>4
  <1>7. QED BY <1>4, <1>5, <1>6 DEF Releasable

(* As long as no run breaks off, main is ready for the next release: a clean *)
(* checkout of main has a -dev version ahead of every release, and its       *)
(* release branch is free.                                                   *)
THEOREM NextReleaseStaysPossible == Spec => []NextReleaseIsPossible
  <1>1. Init => CoreInv /\ AheadInv
    BY InitCore, InitAhead
  <1>2. CoreInv /\ AheadInv /\ [Next]_vars => (CoreInv /\ AheadInv)'
    BY NextCore, NextAhead
  <1>3. QED BY <1>1, <1>2, AheadGivesNext, PTL DEF Spec

-----------------------------------------------------------------------------
(* What the changelogs hold. *)

(* The first release of a minor version, by a run that did not break off. *)
Kept(n) == <<"tag", n, 0>> \in DOMAIN refs /\ n \notin interrupted

(* A branch without a commit of its own: its run is under way or broke off. *)
BareBranches ==
    \A r \in Branches : OnMain(refs[r]) => r[2] \in interrupted \/ RunOfMain(r[2])

(* The first release is cut from the release branch only after that.        *)
FirstReleases ==
    run # None =>
        /\ ~FromMain /\ run.version.patch = 0 => run.version.minor \in interrupted
        /\ FromMain => \A r \in DOMAIN refs \ {Main} : r[2] <= run.version.minor

(* A release is in the changelog of main, once its run is over, and of every *)
(* later branch and tag.                                                     *)
KeptReleases ==
    \A n \in Nat : Kept(n) =>
        /\ <<n, 0>> \in commits[refs[Main]].log \/ RunOfMain(n)
        /\ \A r \in DOMAIN refs \ {Main} : r[2] > n => <<n, 0>> \in commits[refs[r]].log

LogInv == BareBranches /\ FirstReleases /\ KeptReleases

(* Nothing is asked of a step that leaves the repository and the run alone. *)
LEMMA KeepsRepoLog == CoreInv /\ LogInv /\ KeepsRepo => LogInv'
  <1> SUFFICES ASSUME CoreInv, LogInv, KeepsRepo PROVE LogInv'
    OBVIOUS
  <1>1. \A m : RunOfMain(m)' <=> RunOfMain(m)
    BY DEF KeepsRepo, RunOfMain
  <1>2. BareBranches'
    BY <1>1 DEF LogInv, BareBranches, KeepsRepo, Branches, OnMain
  <1>3. FirstReleases'
    BY DEF LogInv, FirstReleases, KeepsRepo
  <1>4. KeptReleases'
    BY <1>1 DEF LogInv, KeptReleases, Kept, KeepsRepo
  <1>5. QED BY <1>2, <1>3, <1>4 DEF LogInv

LEMMA StartLog == CoreInv /\ LogInv /\ Start => LogInv'
  <1> SUFFICES ASSUME CoreInv, LogInv, Start PROVE LogInv'
    OBVIOUS
  <1> DEFINE plan == IF head = Main THEN MainPlan ELSE OnBranchPlan
  <1>0. PICK v : v = [work.version EXCEPT !.dev = FALSE]
    OBVIOUS
  <1>1. /\ run = None /\ run' = [todo |-> plan, version |-> v] /\ Releasable
        /\ UNCHANGED <<commits, refs, interrupted>>
    BY <1>0 DEF Start
  <1>2. /\ Typed /\ Lines /\ work.version \in Versions /\ head \in DOMAIN refs
        /\ \A r \in DOMAIN refs : IsRef(r)
    BY DEF CoreInv, Typed, Files
  <1>3. /\ v.minor = work.version.minor /\ v.patch = work.version.patch
        /\ v.minor \in Nat /\ v.patch \in Nat
    BY <1>0, <1>2 DEF Versions
  <1>4. work.version = commits[HeadCommit].version /\ work.version.dev
    BY <1>1, <1>2, HeadFacts DEF Releasable, Clean
  <1>5. ToMain(plan) <=> head = Main
    BY PlansAreRests
  <1> HIDE DEF plan
  <1>6. run' # None /\ run'.version = v /\ (FromMain' <=> head = Main)
    <2>1. run' \in Runs
      BY <1>0, <1>1, <1>2, PlansAreRests DEF plan, Runs, Versions
    <2>2. run'.todo = plan /\ run'.version = v
      BY <1>1
    <2>3. QED BY <1>5, <2>1, <2>2, ReleaseAssumption DEF Runs, FromMain, ToMain
  <1>7. BareBranches'
    BY <1>1 DEF LogInv, BareBranches, Branches, OnMain, RunOfMain
  <1>8. FirstReleases'
    <2>1. ASSUME head # Main, v.patch = 0 PROVE v.minor \in interrupted
      <3>1. head \in Branches /\ OnMain(refs[head])
        BY <1>1, <1>2, <1>3, <1>4, <2>1 DEF Releasable, Branches, OnMain, HeadCommit
      <3>2. Minor(refs[head]) = head[2]
        BY <1>2, <3>1 DEF Lines
      <3>3. head[2] \in interrupted
        BY <1>1, <3>1 DEF LogInv, BareBranches, RunOfMain
      <3>4. QED BY <1>3, <1>4, <3>2, <3>3 DEF Minor, HeadCommit
    <2>2. ASSUME head = Main, NEW r \in DOMAIN refs \ {Main} PROVE r[2] <= v.minor
      <3>1. AheadOfReleases(work.version)
        BY <1>1, <2>2 DEF Releasable
      <3>2. r[2] < v.minor \/ r[2] = v.minor
        BY <1>3, <2>2, <3>1 DEF AheadOfReleases, Before
      <3>3. r[2] \in Nat
        BY RefNumbers
      <3>4. QED BY <1>3, <3>2, <3>3
    <2>3. QED BY <1>1, <1>6, <2>1, <2>2 DEF FirstReleases
  <1>9. KeptReleases'
    BY <1>1 DEF LogInv, KeptReleases, Kept, RunOfMain
  <1>10. QED BY <1>7, <1>8, <1>9 DEF LogInv

LEMMA InterruptedLog == CoreInv /\ LogInv /\ Interrupted => LogInv'
  <1> SUFFICES ASSUME CoreInv, LogInv, Interrupted PROVE LogInv'
    OBVIOUS
  <1>1. /\ run # None /\ run' = None /\ UNCHANGED <<commits, refs>>
        /\ interrupted' = IF FromMain THEN interrupted \cup {run.version.minor}
                          ELSE interrupted
    BY DEF Interrupted
  <1>2. BareBranches'
    BY <1>1 DEF LogInv, BareBranches, Branches, OnMain, RunOfMain
  <1>3. FirstReleases'
    BY <1>1 DEF FirstReleases
  <1>4. KeptReleases'
    BY <1>1 DEF LogInv, KeptReleases, Kept, RunOfMain
  <1>5. QED BY <1>2, <1>3, <1>4 DEF LogInv

(* The branch starts from main, with its changelog. *)
LEMMA CreateBranchLog == CoreInv /\ LogInv /\ CreateBranch => LogInv'
  <1> SUFFICES ASSUME CoreInv, LogInv, CreateBranch PROVE LogInv'
    OBVIOUS
  <1> DEFINE m == run.version.minor
  <1>1. /\ head = Main /\ ReleaseBranch[1] = "branch" /\ ReleaseBranch[2] = m /\ m \in Nat
        /\ FromMain /\ FromMain' /\ run # None /\ run' # None /\ run'.version = run.version
        /\ DOMAIN refs' = DOMAIN refs \cup {ReleaseBranch}
        /\ refs'[ReleaseBranch] = refs[Main]
        /\ \A q \in DOMAIN refs : refs'[q] = refs[q]
        /\ UNCHANGED <<commits, interrupted>>
    BY CreateBranchEffect DEF HeadCommit
  <1>2. /\ Main \in DOMAIN refs /\ \A r \in DOMAIN refs \ {Main} : r[2] \in Nat
    BY RefNumbers
  <1>3. \A q : RunOfMain(q)' <=> q = m
    BY <1>1 DEF RunOfMain
  <1>4. \A q : RunOfMain(q) <=> q = m
    BY <1>1 DEF RunOfMain
  <1>5. BareBranches'
    BY <1>1, <1>3, <1>4 DEF LogInv, BareBranches, Branches, OnMain
  <1>6. FirstReleases'
    BY <1>1 DEF LogInv, FirstReleases
  <1>7. KeptReleases'
    <2> SUFFICES ASSUME NEW n \in Nat, Kept(n)'
                 PROVE  /\ <<n, 0>> \in commits[refs'[Main]].log \/ n = m
                        /\ \A r \in DOMAIN refs' \ {Main} :
                              r[2] > n => <<n, 0>> \in commits[refs'[r]].log
      BY <1>1, <1>3 DEF KeptReleases
    <2>1. Kept(n)
      <3>1. PICK tag : tag = <<"tag", n, 0>>
        OBVIOUS
      <3>2. tag[1] = "tag"
        BY <3>1
      <3>3. QED BY <1>1, <3>1, <3>2 DEF Kept
    <2>2. /\ <<n, 0>> \in commits[refs[Main]].log \/ n = m
          /\ \A r \in DOMAIN refs \ {Main} : r[2] > n => <<n, 0>> \in commits[refs[r]].log
      BY <1>4, <2>1 DEF LogInv, KeptReleases
    <2>3. QED BY <1>1, <1>2, <2>2
  <1>8. QED BY <1>5, <1>6, <1>7 DEF LogInv

(* The first release of a run from main has no later release beside it.     *)
LEMMA CreateTagLog == CoreInv /\ LogInv /\ CreateTag => LogInv'
  <1> SUFFICES ASSUME CoreInv, LogInv, CreateTag PROVE LogInv'
    OBVIOUS
  <1> DEFINE v == run.version
  <1>1. /\ head = ReleaseBranch /\ ReleaseBranch \in DOMAIN refs /\ ReleaseBranch # Main
        /\ ReleaseBranch[2] = v.minor
        /\ ReleaseTag[1] = "tag" /\ ReleaseTag[2] = v.minor /\ ReleaseTag[3] = v.patch
        /\ v.minor \in Nat /\ v.patch \in Nat
        /\ run # None /\ run' # None /\ run'.version = v /\ (FromMain' <=> FromMain)
        /\ DOMAIN refs' = DOMAIN refs \cup {ReleaseTag}
        /\ refs'[ReleaseTag] = refs[ReleaseBranch]
        /\ \A q \in DOMAIN refs : refs'[q] = refs[q]
        /\ UNCHANGED <<commits, interrupted>>
    BY CreateTagEffect DEF HeadCommit
  <1>2. /\ Main \in DOMAIN refs /\ \A r \in DOMAIN refs \ {Main} : r[2] \in Nat
    BY RefNumbers
  <1>3. \A q : RunOfMain(q)' <=> RunOfMain(q)
    BY <1>1 DEF RunOfMain
  <1>4. BareBranches'
    BY <1>1, <1>3 DEF LogInv, BareBranches, Branches, OnMain
  <1>5. FirstReleases'
    BY <1>1 DEF LogInv, FirstReleases
  <1>6. KeptReleases'
    <2> SUFFICES ASSUME NEW n \in Nat, Kept(n)'
                 PROVE  /\ <<n, 0>> \in commits[refs'[Main]].log \/ RunOfMain(n)
                        /\ \A r \in DOMAIN refs' \ {Main} :
                              r[2] > n => <<n, 0>> \in commits[refs'[r]].log
      BY <1>1, <1>3 DEF KeptReleases
    <2>1. CASE Kept(n)
      <3>1. /\ <<n, 0>> \in commits[refs[Main]].log \/ RunOfMain(n)
            /\ \A r \in DOMAIN refs \ {Main} : r[2] > n => <<n, 0>> \in commits[refs[r]].log
        BY <2>1 DEF LogInv, KeptReleases
      <3>2. QED BY <1>1, <1>2, <3>1
    <2>2. CASE ~Kept(n)
      <3>1. PICK tag : tag = <<"tag", n, 0>>
        OBVIOUS
      <3>2. tag[2] = n /\ tag[3] = 0
        BY <3>1
      <3>3. tag = ReleaseTag /\ n \notin interrupted
        BY <1>1, <2>2, <3>1 DEF Kept
      <3>4. FromMain /\ n = v.minor
        BY <1>1, <3>2, <3>3 DEF LogInv, FirstReleases
      <3>5. \A r \in DOMAIN refs' \ {Main} : r[2] \in Nat /\ r[2] <= n
        BY <1>1, <1>2, <3>4 DEF LogInv, FirstReleases
      <3>6. QED BY <1>1, <3>4, <3>5 DEF RunOfMain
    <2>3. QED BY <2>1, <2>2
  <1>7. QED BY <1>4, <1>5, <1>6 DEF LogInv

LEMMA DeleteBranchLog ==
  ASSUME CoreInv, LogInv, NEW r, DeleteBranch(r) PROVE LogInv'
  <1>1. /\ DOMAIN refs' = DOMAIN refs \ {r} /\ \A q \in DOMAIN refs' : refs'[q] = refs[q]
        /\ run = None /\ run' = None /\ r # Main /\ UNCHANGED <<commits, interrupted>>
    BY DeleteBranchEffect
  <1>2. Main \in DOMAIN refs
    BY RefNumbers
  <1>3. BareBranches'
    BY <1>1 DEF LogInv, BareBranches, Branches, OnMain, RunOfMain
  <1>4. FirstReleases'
    BY <1>1 DEF FirstReleases
  <1>5. KeptReleases'
    BY <1>1, <1>2 DEF LogInv, KeptReleases, Kept, RunOfMain
  <1>6. QED BY <1>3, <1>4, <1>5 DEF LogInv

(* A commit on main or on a release branch that keeps what the changelog has. *)
LEMMA CommitKeepsLog ==
  ASSUME CoreInv, LogInv, NEW files, NEW n, NewOnHead(files, n),
         commits[HeadCommit].log \subseteq files.log,
         \/ /\ run # None /\ run' # None /\ run'.version = run.version
            /\ (FromMain' <=> FromMain)
         \/ run' = None /\ (run # None => ~FromMain)
  PROVE  LogInv'
  <1>1. /\ DOMAIN refs' = DOMAIN refs /\ refs'[head] = n
        /\ \A q \in DOMAIN refs \ {head} : refs'[q] = refs[q]
        /\ \A c \in DOMAIN commits : commits'[c] = commits[c]
        /\ commits'[n].log = files.log /\ commits'[n].version = files.version
        /\ head \in DOMAIN refs /\ interrupted' = interrupted
        /\ head = Main \/ ~(files.version.dev /\ files.version.patch = 0)
    BY DEF NewOnHead, Advances
  <1>2. Main \in DOMAIN refs /\ \A q \in DOMAIN refs : refs[q] \in DOMAIN commits
    BY DEF CoreInv, Typed
  <1>3. \A q : RunOfMain(q)' <=> RunOfMain(q)
    BY DEF RunOfMain
  <1>4. \A q \in DOMAIN refs : commits[refs[q]].log \subseteq commits'[refs'[q]].log
    BY <1>1, <1>2 DEF HeadCommit
  <1>5. BareBranches'
    <2> SUFFICES ASSUME NEW r \in DOMAIN refs, r[1] = "branch", OnMain(refs[r])'
                 PROVE  r[2] \in interrupted \/ RunOfMain(r[2])
      BY <1>1, <1>3 DEF BareBranches, Branches
    <2>1. r # Main
      BY RefKinds
    <2>2. r # head
      BY <1>1, <2>1 DEF OnMain
    <2>3. OnMain(refs[r])
      BY <1>1, <1>2, <2>2 DEF OnMain
    <2>4. QED BY <2>3 DEF LogInv, BareBranches, Branches
  <1>6. FirstReleases'
    BY <1>1 DEF LogInv, FirstReleases
  <1>7. KeptReleases'
    BY <1>1, <1>2, <1>3, <1>4 DEF LogInv, KeptReleases, Kept
  <1>8. QED BY <1>5, <1>6, <1>7 DEF LogInv

(* The last commit of a run from main: main takes over the branch's.        *)
LEMMA CommitMainLog ==
  ASSUME CoreInv, LogInv, NEW files, NEW n, NewOnHead(files, n),
         run # None, run' = None, FromMain, head = Main, files.log = BranchLog,
         run.version.minor \in Nat, run.version.patch = 0,
         ReleaseBranch \in DOMAIN refs, ~OnMain(refs[ReleaseBranch]),
         <<run.version.minor, run.version.patch>> \in BranchLog
  PROVE  LogInv'
  <1> DEFINE m == run.version.minor
  <1>1. /\ DOMAIN refs' = DOMAIN refs /\ refs'[Main] = n
        /\ \A q \in DOMAIN refs \ {Main} : refs'[q] = refs[q]
        /\ \A c \in DOMAIN commits : commits'[c] = commits[c]
        /\ commits'[n].log = BranchLog /\ interrupted' = interrupted
    BY DEF NewOnHead
  <1>2. /\ Main \in DOMAIN refs /\ \A q \in DOMAIN refs : IsRef(q) /\ refs[q] \in DOMAIN commits
    BY DEF CoreInv, Typed
  <1>3. \A q : ~RunOfMain(q)' /\ (RunOfMain(q) <=> q = m)
    BY DEF RunOfMain
  <1>4. ReleaseBranch[2] = m /\ ReleaseBranch # Main
    BY DEF ReleaseBranch, Main
  <1>5. BareBranches'
    <2> SUFFICES ASSUME NEW r \in DOMAIN refs, r[1] = "branch", OnMain(refs[r])'
                 PROVE  r[2] \in interrupted
      BY <1>1 DEF BareBranches, Branches
    <2>1. r # Main /\ r = <<"branch", r[2]>>
      BY <1>2, RefKinds
    <2>2. OnMain(refs[r])
      BY <1>1, <1>2, <2>1 DEF OnMain
    <2>3. r[2] # m
      BY <2>1, <2>2 DEF ReleaseBranch
    <2>4. QED BY <1>3, <2>2, <2>3 DEF LogInv, BareBranches, Branches
  <1>6. FirstReleases'
    BY DEF FirstReleases
  <1>7. KeptReleases'
    <2> SUFFICES ASSUME NEW k \in Nat, Kept(k)
                 PROVE  /\ <<k, 0>> \in BranchLog
                        /\ \A r \in DOMAIN refs \ {Main} :
                              r[2] > k => <<k, 0>> \in commits[refs[r]].log
      BY <1>1, <1>2 DEF KeptReleases, Kept
    <2>1. \A r \in DOMAIN refs \ {Main} : r[2] > k => <<k, 0>> \in commits[refs[r]].log
      BY DEF LogInv, KeptReleases
    <2>2. <<k, 0>> \in BranchLog
      <3>1. k <= m
        <4>1. PICK tag : tag = <<"tag", k, 0>>
          OBVIOUS
        <4>2. tag \in DOMAIN refs \ {Main} /\ tag[2] = k
          BY <4>1, RefKinds DEF Kept
        <4>3. QED BY <4>2 DEF LogInv, FirstReleases
      <3>2. CASE k = m
        BY <3>2
      <3>3. CASE k # m
        <4>1. ReleaseBranch[2] > k
          BY <1>4, <3>1, <3>3
        <4>2. QED BY <1>4, <2>1, <4>1 DEF BranchLog
      <3>4. QED BY <3>2, <3>3
    <2>3. QED BY <2>1, <2>2
  <1>8. QED BY <1>5, <1>6, <1>7 DEF LogInv

LEMMA CommitVersionLog == CoreInv /\ LogInv /\ CommitVersion => LogInv'
  <1> SUFFICES ASSUME CoreInv, LogInv, CommitVersion PROVE LogInv'
    OBVIOUS
  <1>1. work' = work
    BY DEF CommitVersion
  <1>2. PICK files, n : NewOnHead(files, n) /\ files = work
    BY <1>1, NewCommitEffect
  <1>3. CASE head = Main
    <2>1. /\ run # None /\ run' = None /\ FromMain /\ files.log = BranchLog
          /\ run.version \in Versions /\ run.version.patch = 0
          /\ ReleaseBranch \in DOMAIN refs /\ ~OnMain(refs[ReleaseBranch])
          /\ <<run.version.minor, run.version.patch>> \in BranchLog
      BY <1>2, <1>3, RunEnds
    <2>2. run.version.minor \in Nat
      BY <2>1 DEF Versions
    <2>3. QED BY <1>2, <1>3, <2>1, <2>2, CommitMainLog
  <1>4. CASE head # Main
    <2>1. \/ /\ run # None /\ run' # None /\ run'.version = run.version
             /\ (FromMain' <=> FromMain)
          \/ run' = None /\ (run # None => ~FromMain)
      BY <1>4, RunEnds
    <2>2. commits[HeadCommit].log \subseteq files.log
      <3>1. PICK step \in {"commit", "commitNext", "commitMain"} : Does(step)
        BY DEF CommitVersion
      <3>2. InRun /\ run.todo[1] = step
        BY <3>1, StepFacts
      <3>3. QED BY <1>2, <1>4, <3>2 DEF InRun, Doing
    <2>3. QED BY <1>2, <2>1, <2>2, CommitKeepsLog
  <1>5. QED BY <1>3, <1>4

LEMMA BumpByHandLog == CoreInv /\ LogInv /\ BumpByHand => LogInv'
  <1> SUFFICES ASSUME CoreInv, LogInv, BumpByHand PROVE LogInv'
    OBVIOUS
  <1>1. PICK files, n : NewOnHead(files, n) /\ (files = work \/ files = work')
    BY NewCommitEffect
  <1>2. /\ run = None /\ run' = None /\ work'.log = commits[HeadCommit].log /\ Clean
    BY BumpByHandAdvances DEF BumpByHand
  <1>3. work.log = commits[HeadCommit].log
    BY <1>2, HeadFacts DEF CoreInv, Clean
  <1>4. commits[HeadCommit].log \subseteq files.log
    BY <1>1, <1>2, <1>3
  <1>5. QED BY <1>1, <1>2, <1>4, CommitKeepsLog

LEMMA NextLog == CoreInv /\ LogInv /\ [Next]_vars => LogInv'
  BY Effects, StartLog, InterruptedLog, CreateBranchLog, CreateTagLog, DeleteBranchLog,
     CommitVersionLog, BumpByHandLog, KeepsRepoLog

LEMMA InitLog == Init => LogInv
  <1> SUFFICES ASSUME Init PROVE LogInv
    OBVIOUS
  <1>1. DOMAIN refs = {Main} /\ run = None
    BY DEF Init
  <1>2. BareBranches
    BY <1>1, RefKinds DEF BareBranches, Branches
  <1>3. FirstReleases
    BY <1>1 DEF FirstReleases
  <1>4. \A n : ~Kept(n)
    <2> SUFFICES ASSUME NEW n, Kept(n) PROVE FALSE
      OBVIOUS
    <2>1. PICK tag : tag = <<"tag", n, 0>>
      OBVIOUS
    <2>2. tag[1] = "tag" /\ tag = Main
      BY <1>1, <2>1 DEF Kept
    <2>3. QED BY <2>2, RefKinds
  <1>5. KeptReleases
    BY <1>4 DEF KeptReleases
  <1>6. QED BY <1>2, <1>3, <1>5 DEF LogInv

LEMMA LogGivesChangelog == CoreInv /\ LogInv => ChangelogKeepsReleases
  <1> SUFFICES ASSUME CoreInv, LogInv, NEW r \in DOMAIN refs, NEW q \in DOMAIN refs,
                      r[1] = "tag", q[1] = "tag", q[2] < r[2], q[3] = 0, q[2] \notin interrupted
               PROVE  <<q[2], q[3]>> \in commits[refs[r]].log
    BY DEF ChangelogKeepsReleases
  <1>1. /\ q = <<"tag", q[2], q[3]>> /\ q[2] \in Nat /\ r[2] \in Nat /\ r # Main
    BY RefKinds DEF CoreInv, Typed
  <1>2. Kept(q[2])
    BY <1>1 DEF Kept
  <1>3. QED BY <1>1, <1>2 DEF LogInv, KeptReleases

(* The changelog of a release tells of every minor release before it whose   *)
(* run did not break off.                                                    *)
THEOREM ChangelogAlwaysKeepsReleases == Spec => []ChangelogKeepsReleases
  <1>1. Init => CoreInv /\ LogInv
    BY InitCore, InitLog
  <1>2. CoreInv /\ LogInv /\ [Next]_vars => (CoreInv /\ LogInv)'
    BY NextCore, NextLog
  <1>3. QED BY <1>1, <1>2, LogGivesChangelog, PTL DEF Spec

-----------------------------------------------------------------------------
(* Which commits are still reachable. *)

(* What a release branch leads to is its last commit and earlier ones; where *)
(* the branch is gone, no commit of it is left unless it has a release.      *)
BranchOrder ==
    \A c \in Reachable : ~OnMain(c) =>
        \/ \E b \in DOMAIN refs :
              /\ b = <<"branch", Minor(c)>>
              /\ c = refs[b] \/ Earlier(commits[c].version, commits[refs[b]].version)
        \/ /\ <<"branch", Minor(c)>> \notin DOMAIN refs
           /\ \E r \in DOMAIN refs : r[1] = "tag" /\ r[2] = Minor(c)

PublishedTyped == \A p \in published : p[2] \in DOMAIN commits

OnceInv == BranchOrder /\ ReleasedOnce /\ PublishedTyped /\ ShippedFromItsTag

LEMMA ReachableIsClosed ==
  ASSUME Typed
  PROVE  /\ Reachable \subseteq DOMAIN commits
         /\ \A r \in DOMAIN refs : refs[r] \in Reachable
         /\ \A c \in Reachable : commits[c].parent # 0 => commits[c].parent \in Reachable
  BY DEF Typed, Reachable, Closed

LEMMA ReachableIsLeast ==
  ASSUME NEW set, set \subseteq DOMAIN commits', Closed(set)'
  PROVE  Reachable' \subseteq set
  BY DEF Reachable

(* A ref less, or one more for a commit that had one, makes none reachable. *)
LEMMA NoMoreReachable ==
  ASSUME Typed, commits' = commits,
         \A r \in DOMAIN refs' : refs'[r] \in Reachable
  PROVE  Reachable' \subseteq Reachable
  <1>1. PICK set : set = Reachable
    OBVIOUS
  <1>2. set \subseteq DOMAIN commits' /\ Closed(set)'
    BY <1>1, ReachableIsClosed DEF Closed
  <1>3. QED BY <1>1, <1>2, ReachableIsLeast

LEMMA NewReachable ==
  ASSUME Typed, NEW files, NEW n, NewOnHead(files, n)
  PROVE  Reachable' \subseteq Reachable \cup {n}
  <1>1. PICK set : set = Reachable \cup {n}
    OBVIOUS
  <1>2. /\ Reachable \subseteq DOMAIN commits
        /\ \A r \in DOMAIN refs : refs[r] \in Reachable
        /\ \A c \in Reachable : commits[c].parent # 0 => commits[c].parent \in Reachable
    BY ReachableIsClosed
  <1>3. set \subseteq DOMAIN commits'
    BY <1>1, <1>2 DEF NewOnHead
  <1>4. \A r \in DOMAIN refs' : refs'[r] \in set
    BY <1>1, <1>2 DEF NewOnHead
  <1>5. ASSUME NEW c \in set, commits'[c].parent # 0 PROVE commits'[c].parent \in set
    <2>1. CASE c = n
      BY <1>1, <1>2, <2>1 DEF NewOnHead, HeadCommit
    <2>2. CASE c # n
      BY <1>1, <1>2, <1>5, <2>2 DEF NewOnHead
    <2>3. QED BY <2>1, <2>2
  <1>6. Closed(set)'
    BY <1>4, <1>5 DEF Closed
  <1>7. QED BY <1>1, <1>3, <1>6, ReachableIsLeast

(* The commits of a release branch without a release go with the branch.    *)
LEMMA GoneWithItsBranch ==
  ASSUME CoreInv, NEW r, DeleteBranch(r),
         \A q \in DOMAIN refs' : q[1] = "tag" => q[2] # r[2]
  PROVE  \A c \in Reachable' : OnMain(c) \/ Minor(c) # r[2]
  <1> DEFINE left == {c \in Reachable : OnMain(c) \/ Minor(c) # r[2]}
  <1>1. PICK set : set = left
    OBVIOUS
  <1>2. Typed /\ Lines /\ TagsAreReleases
    BY DEF CoreInv
  <1>3. /\ r \in DOMAIN refs /\ r[1] = "branch" /\ DOMAIN refs' = DOMAIN refs \ {r}
        /\ \A q \in DOMAIN refs' : refs'[q] = refs[q]
        /\ commits' = commits
    BY DeleteBranchEffect
  <1>4. /\ Reachable \subseteq DOMAIN commits
        /\ \A q \in DOMAIN refs : refs[q] \in Reachable
        /\ \A c \in Reachable : commits[c].parent # 0 => commits[c].parent \in Reachable
    BY <1>2, ReachableIsClosed
  <1>5. ASSUME NEW q \in DOMAIN refs' PROVE refs'[q] \in set
    <2>1. q \in DOMAIN refs /\ q # r /\ refs'[q] = refs[q] /\ refs[q] \in Reachable
      BY <1>3, <1>4
    <2>2. CASE q = Main
      BY <1>1, <1>2, <2>1, <2>2 DEF Lines
    <2>3. CASE q[1] = "branch"
      <3>1. Minor(refs[q]) = q[2]
        BY <1>2, <2>1, <2>3 DEF Lines, Branches
      <3>2. q[2] # r[2]
        <4>1. q = <<"branch", q[2]>> /\ r = <<"branch", r[2]>>
          BY <1>2, <1>3, <2>1, <2>3, RefKinds DEF Typed
        <4>2. QED BY <2>1, <4>1
      <3>3. QED BY <1>1, <2>1, <3>1, <3>2
    <2>4. CASE q[1] = "tag"
      <3>1. Minor(refs[q]) = q[2]
        <4>1. commits[refs[q]].version = Version(q[2], q[3], FALSE)
          BY <1>2, <2>1, <2>4 DEF TagsAreReleases
        <4>2. QED BY <4>1 DEF Minor, Version
      <3>2. QED BY <1>1, <2>1, <2>4, <3>1
    <2>5. QED BY <1>2, <2>1, <2>2, <2>3, <2>4, RefKinds DEF Typed
  <1>6. ASSUME NEW c \in set, commits'[c].parent # 0 PROVE commits'[c].parent \in set
    <2>1. c \in Reachable /\ (OnMain(c) \/ Minor(c) # r[2])
      BY <1>1
    <2>2. /\ commits[c].parent \in Reachable
          /\ ~OnMain(commits[c].parent) => ~OnMain(c) /\ Minor(c) = Minor(commits[c].parent)
      BY <1>2, <1>3, <1>4, <1>6, <2>1 DEF Lines
    <2>3. QED BY <1>1, <1>3, <2>1, <2>2
  <1>7. set \subseteq DOMAIN commits' /\ Closed(set)'
    BY <1>1, <1>3, <1>4, <1>5, <1>6 DEF Closed
  <1>8. Reachable' \subseteq set
    BY <1>7, ReachableIsLeast
  <1>9. QED BY <1>1, <1>8

LEMMA EarlierIsTransitive ==
  ASSUME NEW a \in Versions, NEW b \in Versions, NEW c \in Versions,
         Earlier(a, b), Earlier(b, c)
  PROVE  Earlier(a, c) /\ a # c
  BY DEF Earlier, Before, Triple, Versions

LEMMA EarlierIsOther ==
  ASSUME NEW a \in Versions, NEW b \in Versions, Earlier(a, b)
  PROVE  a # b
  BY DEF Earlier, Before, Triple, Versions

LEMMA VersionsOfCommits ==
  ASSUME Typed
  PROVE  \A c \in DOMAIN commits :
            commits[c].version \in Versions /\ Minor(c) \in Nat
  <1>1. \A c \in DOMAIN commits : commits[c].version \in Versions
    BY HeadFacts DEF Commit
  <1>2. QED BY <1>1 DEF Minor, Versions

(* The commit on a release branch is later than all that leads to it.       *)
LEMMA LaterThanItsBranch ==
  ASSUME CoreInv, BranchOrder, NEW files, NEW n, NewOnHead(files, n), head # Main,
         NEW c \in Reachable, ~OnMain(c), Minor(c) = files.version.minor
  PROVE  Earlier(commits[c].version, files.version)
  <1>1. /\ Typed /\ files.version \in Versions
        /\ head[1] = "branch" /\ head[2] = files.version.minor /\ head \in DOMAIN refs
        /\ Earlier(commits[HeadCommit].version, files.version)
        /\ HeadCommit \in DOMAIN commits
    BY DEF CoreInv, NewOnHead, Advances, Files
  <1>2. head = <<"branch", Minor(c)>>
    BY <1>1, RefKinds DEF Typed
  <1>3. c = HeadCommit \/ Earlier(commits[c].version, commits[HeadCommit].version)
    BY <1>1, <1>2 DEF BranchOrder, HeadCommit
  <1>4. commits[c].version \in Versions /\ commits[HeadCommit].version \in Versions
    BY <1>1, VersionsOfCommits, ReachableIsClosed
  <1>5. QED BY <1>1, <1>3, <1>4, EarlierIsTransitive

(* The steps that add no commit. *)
LEMMA SameCommitsOnce ==
  ASSUME CoreInv, ReleasedOnce, commits' = commits, Reachable' \subseteq Reachable
  PROVE  ReleasedOnce'
  BY DEF ReleasedOnce

LEMMA CommitOnce ==
  ASSUME CoreInv, OnceInv, NEW files, NEW n, NewOnHead(files, n)
  PROVE  OnceInv'
  <1>1. /\ files \in Files /\ Advances(files)
        /\ n \notin DOMAIN commits /\ n # 0 /\ DOMAIN commits' = DOMAIN commits \cup {n}
        /\ \A c \in DOMAIN commits : commits'[c] = commits[c]
        /\ commits'[n].version = files.version
        /\ head \in DOMAIN refs /\ HeadCommit \in DOMAIN commits
        /\ DOMAIN refs' = DOMAIN refs /\ refs'[head] = n
        /\ \A q \in DOMAIN refs \ {head} : refs'[q] = refs[q]
        /\ published' = published
    BY DEF NewOnHead
  <1>2. /\ Typed /\ BranchOrder /\ ReleasedOnce /\ PublishedTyped /\ ShippedFromItsTag
        /\ \A r \in DOMAIN refs : IsRef(r) /\ refs[r] \in DOMAIN commits
    BY DEF CoreInv, OnceInv, Typed
  <1>3. Reachable' \subseteq Reachable \cup {n} /\ Reachable \subseteq DOMAIN commits
    BY <1>2, NewReachable, ReachableIsClosed
  <1>4. \A c \in DOMAIN commits : (OnMain(c)' <=> OnMain(c)) /\ Minor(c)' = Minor(c)
    BY <1>1 DEF OnMain, Minor
  <1>5. /\ Minor(n)' = files.version.minor
        /\ ~OnMain(n)' => /\ head # Main /\ head[1] = "branch"
                          /\ head = <<"branch", files.version.minor>>
    BY <1>1, <1>2, RefKinds DEF OnMain, Minor, Advances
  <1>6. ASSUME NEW c \in Reachable', ~OnMain(c)', c # n,
               head # <<"branch", Minor(c)>>
        PROVE  \/ \E b \in DOMAIN refs' :
                    /\ b = <<"branch", Minor(c)'>>
                    /\ \/ c = refs'[b]
                       \/ Earlier(commits'[c].version, commits'[refs'[b]].version)
               \/ /\ <<"branch", Minor(c)'>> \notin DOMAIN refs'
                  /\ \E r \in DOMAIN refs' : r[1] = "tag" /\ r[2] = Minor(c)'
    <2>1. c \in Reachable /\ c \in DOMAIN commits /\ ~OnMain(c) /\ Minor(c)' = Minor(c)
      BY <1>3, <1>4, <1>6
    <2>2. CASE \E b \in DOMAIN refs :
                  /\ b = <<"branch", Minor(c)>>
                  /\ c = refs[b] \/ Earlier(commits[c].version, commits[refs[b]].version)
      BY <1>1, <1>2, <1>6, <2>1, <2>2
    <2>3. CASE /\ <<"branch", Minor(c)>> \notin DOMAIN refs
               /\ \E r \in DOMAIN refs : r[1] = "tag" /\ r[2] = Minor(c)
      BY <1>1, <2>1, <2>3
    <2>4. QED BY <1>2, <2>1, <2>2, <2>3 DEF BranchOrder
  <1>7. ASSUME NEW c \in Reachable', ~OnMain(c)', c # n, head = <<"branch", Minor(c)>>
        PROVE  Earlier(commits'[c].version, commits'[n].version)
    <2>1. c \in Reachable /\ c \in DOMAIN commits /\ ~OnMain(c)
      BY <1>3, <1>4, <1>7
    <2>2. head # Main /\ head[1] = "branch" /\ head[2] = Minor(c)
      BY <1>7, RefKinds
    <2>3. files.version.minor = Minor(c)
      BY <1>1, <2>2 DEF Advances
    <2>4. QED BY <1>1, <1>2, <2>1, <2>2, <2>3, LaterThanItsBranch
  <1>8. BranchOrder'
    <2> SUFFICES ASSUME NEW c \in Reachable', ~OnMain(c)'
                 PROVE  \/ \E b \in DOMAIN refs' :
                             /\ b = <<"branch", Minor(c)'>>
                             /\ \/ c = refs'[b]
                                \/ Earlier(commits'[c].version, commits'[refs'[b]].version)
                        \/ /\ <<"branch", Minor(c)'>> \notin DOMAIN refs'
                           /\ \E r \in DOMAIN refs' : r[1] = "tag" /\ r[2] = Minor(c)'
      BY DEF BranchOrder, Earlier, Before, Triple
    <2>1. CASE c = n
      BY <1>1, <1>5, <2>1
    <2>2. CASE c # n /\ head = <<"branch", Minor(c)>>
      BY <1>1, <1>3, <1>4, <1>7, <2>2
    <2>3. CASE c # n /\ head # <<"branch", Minor(c)>>
      BY <1>6, <2>3
    <2>4. QED BY <2>1, <2>2, <2>3
  <1>9. ReleasedOnce'
    <2>1. ASSUME NEW c \in Reachable', c # n, n \in Reachable',
                 ~files.version.dev, commits'[c].version = files.version
          PROVE  FALSE
      <3>1. /\ c \in Reachable /\ c \in DOMAIN commits /\ commits[c].version = files.version
            /\ ~OnMain(c) /\ Minor(c) = files.version.minor
        BY <1>1, <1>3, <2>1 DEF OnMain, Minor
      <3>2. head # Main
        BY <1>1, <2>1, RefKinds DEF Advances
      <3>3. Earlier(commits[c].version, files.version)
        BY <1>2, <3>1, <3>2, LaterThanItsBranch
      <3>4. files.version \in Versions
        BY <1>1 DEF Files
      <3>5. QED BY <3>1, <3>3, <3>4, EarlierIsOther
    <2> SUFFICES ASSUME NEW c \in DOMAIN commits', NEW d \in DOMAIN commits',
                        c # d, ~commits'[c].version.dev,
                        commits'[c].version = commits'[d].version,
                        c \in Reachable', d \in Reachable'
                 PROVE  FALSE
      BY DEF ReleasedOnce
    <2>2. CASE c = n
      BY <1>1, <2>1, <2>2
    <2>3. CASE d = n
      BY <1>1, <2>1, <2>3
    <2>4. CASE c # n /\ d # n
      <3>1. c \in Reachable /\ d \in Reachable /\ c \in DOMAIN commits /\ d \in DOMAIN commits
        BY <1>3, <2>4
      <3>2. QED BY <1>1, <1>2, <3>1 DEF ReleasedOnce
    <2>5. QED BY <2>2, <2>3, <2>4
  <1>10. PublishedTyped'
    BY <1>1, <1>2 DEF PublishedTyped
  <1>11. ShippedFromItsTag'
    <2> SUFFICES ASSUME NEW p \in published
                 PROVE  LET v == commits'[p[2]].version IN
                        p[1] = "github" =>
                          LET tag == <<"tag", v.minor, v.patch>>
                          IN tag \in DOMAIN refs' /\ refs'[tag] = p[2]
      BY <1>1 DEF ShippedFromItsTag
    <2>1. p[2] \in DOMAIN commits /\ commits'[p[2]] = commits[p[2]]
      BY <1>1, <1>2 DEF PublishedTyped
    <2>2. PICK tag : tag = <<"tag", commits[p[2]].version.minor, commits[p[2]].version.patch>>
      OBVIOUS
    <2>3. tag # head
      <3>1. tag[1] = "tag"
        BY <2>2
      <3>2. QED BY <1>1, <3>1, RefKinds DEF Advances
    <2>4. QED BY <1>1, <1>2, <2>1, <2>2, <2>3 DEF ShippedFromItsTag
  <1>12. QED BY <1>8, <1>9, <1>10, <1>11 DEF OnceInv

(* A new branch or tag for a commit that is reachable already. *)
LEMMA NewRefOnce ==
  ASSUME CoreInv, OnceInv, NEW r, r \notin DOMAIN refs,
         DOMAIN refs' = DOMAIN refs \cup {r}, refs'[r] = HeadCommit,
         \A q \in DOMAIN refs : refs'[q] = refs[q],
         UNCHANGED <<commits, published>>, BranchOrder'
  PROVE  OnceInv'
  <1>1. Typed /\ head \in DOMAIN refs
    BY DEF CoreInv, Typed
  <1>2. Reachable' \subseteq Reachable
    <2>1. \A q \in DOMAIN refs : refs[q] \in Reachable
      BY <1>1, ReachableIsClosed
    <2>2. \A q \in DOMAIN refs' : refs'[q] \in Reachable
      BY <1>1, <2>1 DEF HeadCommit
    <2>3. QED BY <1>1, <2>2, NoMoreReachable
  <1>3. ReleasedOnce'
    BY <1>2, SameCommitsOnce DEF OnceInv
  <1>4. PublishedTyped' /\ ShippedFromItsTag'
    BY DEF OnceInv, PublishedTyped, ShippedFromItsTag
  <1>5. QED BY <1>3, <1>4 DEF OnceInv

LEMMA CreateBranchOnce == CoreInv /\ OnceInv /\ CreateBranch => OnceInv'
  <1> SUFFICES ASSUME CoreInv, OnceInv, CreateBranch PROVE OnceInv'
    OBVIOUS
  <1>1. PICK b : b = ReleaseBranch
    OBVIOUS
  <1>2. PICK m \in Nat : m = run.version.minor
    BY CreateBranchEffect
  <1>3. /\ b \notin DOMAIN refs /\ b = <<"branch", m>> /\ b[1] = "branch"
        /\ \A r \in DOMAIN refs \ {Main} :
              r[1] = "tag" => r[2] < m \/ (r[2] = m /\ r[3] < 0)
        /\ DOMAIN refs' = DOMAIN refs \cup {b} /\ refs'[b] = HeadCommit
        /\ \A q \in DOMAIN refs : refs'[q] = refs[q]
        /\ UNCHANGED <<commits, published>>
    BY <1>1, <1>2, CreateBranchEffect DEF ReleaseBranch, AheadOfReleases, Before
  <1>4. Typed /\ head \in DOMAIN refs /\ \A r \in DOMAIN refs : IsRef(r)
    BY DEF CoreInv, Typed
  <1>5. \A r \in DOMAIN refs : r[1] = "tag" => r[2] < m
    BY <1>3, <1>4, RefKinds
  <1>6. Reachable' \subseteq Reachable
    <2>1. \A q \in DOMAIN refs : refs[q] \in Reachable
      BY <1>4, ReachableIsClosed
    <2>2. \A q \in DOMAIN refs' : refs'[q] \in Reachable
      BY <1>3, <1>4, <2>1 DEF HeadCommit
    <2>3. QED BY <1>3, <1>4, <2>2, NoMoreReachable
  <1>7. BranchOrder'
    <2> SUFFICES ASSUME NEW c \in Reachable', ~OnMain(c)
                 PROVE  \/ \E q \in DOMAIN refs' :
                             /\ q = <<"branch", Minor(c)>>
                             /\ \/ c = refs'[q]
                                \/ Earlier(commits[c].version, commits[refs'[q]].version)
                        \/ /\ <<"branch", Minor(c)>> \notin DOMAIN refs'
                           /\ \E r \in DOMAIN refs' : r[1] = "tag" /\ r[2] = Minor(c)
      BY <1>3 DEF BranchOrder, Earlier, Before, Triple, OnMain, Minor
    <2>1. c \in Reachable
      BY <1>6
    <2>2. CASE \E q \in DOMAIN refs :
                  /\ q = <<"branch", Minor(c)>>
                  /\ c = refs[q] \/ Earlier(commits[c].version, commits[refs[q]].version)
      BY <1>3, <2>2
    <2>3. CASE /\ <<"branch", Minor(c)>> \notin DOMAIN refs
               /\ \E r \in DOMAIN refs : r[1] = "tag" /\ r[2] = Minor(c)
      <3>1. Minor(c) < m
        BY <1>5, <2>3
      <3>2. <<"branch", Minor(c)>> # b
        <4>1. PICK q : q = <<"branch", Minor(c)>>
          OBVIOUS
        <4>2. q[2] = Minor(c) /\ b[2] = m
          BY <1>3, <4>1
        <4>3. Minor(c) \in Nat
          BY <1>4, <2>1, VersionsOfCommits, ReachableIsClosed
        <4>4. QED BY <3>1, <4>1, <4>2, <4>3
      <3>3. QED BY <1>3, <2>3, <3>2
    <2>4. QED BY <2>1, <2>2, <2>3 DEF OnceInv, BranchOrder
  <1>8. QED BY <1>3, <1>7, NewRefOnce

LEMMA CreateTagOnce == CoreInv /\ OnceInv /\ CreateTag => OnceInv'
  <1> SUFFICES ASSUME CoreInv, OnceInv, CreateTag PROVE OnceInv'
    OBVIOUS
  <1>1. PICK t : t = ReleaseTag
    OBVIOUS
  <1>2. /\ t \notin DOMAIN refs /\ t[1] = "tag"
        /\ DOMAIN refs' = DOMAIN refs \cup {t} /\ refs'[t] = HeadCommit
        /\ \A q \in DOMAIN refs : refs'[q] = refs[q]
        /\ UNCHANGED <<commits, published>>
    BY <1>1, CreateTagEffect
  <1>3. Typed /\ head \in DOMAIN refs
    BY DEF CoreInv, Typed
  <1>4. Reachable' \subseteq Reachable
    <2>1. \A q \in DOMAIN refs : refs[q] \in Reachable
      BY <1>3, ReachableIsClosed
    <2>2. \A q \in DOMAIN refs' : refs'[q] \in Reachable
      BY <1>2, <1>3, <2>1 DEF HeadCommit
    <2>3. QED BY <1>2, <1>3, <2>2, NoMoreReachable
  <1>5. BranchOrder'
    <2> SUFFICES ASSUME NEW c \in Reachable', ~OnMain(c)
                 PROVE  \/ \E q \in DOMAIN refs' :
                             /\ q = <<"branch", Minor(c)>>
                             /\ \/ c = refs'[q]
                                \/ Earlier(commits[c].version, commits[refs'[q]].version)
                        \/ /\ <<"branch", Minor(c)>> \notin DOMAIN refs'
                           /\ \E r \in DOMAIN refs' : r[1] = "tag" /\ r[2] = Minor(c)
      BY <1>2 DEF BranchOrder, Earlier, Before, Triple, OnMain, Minor
    <2>1. c \in Reachable
      BY <1>4
    <2>2. CASE \E q \in DOMAIN refs :
                  /\ q = <<"branch", Minor(c)>>
                  /\ c = refs[q] \/ Earlier(commits[c].version, commits[refs[q]].version)
      BY <1>2, <2>2
    <2>3. CASE /\ <<"branch", Minor(c)>> \notin DOMAIN refs
               /\ \E r \in DOMAIN refs : r[1] = "tag" /\ r[2] = Minor(c)
      <3>1. <<"branch", Minor(c)>> # t
        <4>1. PICK q : q = <<"branch", Minor(c)>>
          OBVIOUS
        <4>2. q[1] = "branch"
          BY <4>1
        <4>3. QED BY <1>2, <4>1, <4>2
      <3>2. QED BY <1>2, <2>3, <3>1
    <2>4. QED BY <2>1, <2>2, <2>3 DEF OnceInv, BranchOrder
  <1>6. QED BY <1>2, <1>5, NewRefOnce

LEMMA DeleteBranchOnce ==
  ASSUME CoreInv, OnceInv, NEW r, DeleteBranch(r) PROVE OnceInv'
  <1>1. /\ r \in DOMAIN refs /\ r[1] = "branch" /\ DOMAIN refs' = DOMAIN refs \ {r}
        /\ \A q \in DOMAIN refs' : refs'[q] = refs[q]
        /\ UNCHANGED <<commits, published>>
    BY DeleteBranchEffect
  <1>2. Typed
    BY DEF CoreInv
  <1>3. Reachable' \subseteq Reachable
    <2>1. \A q \in DOMAIN refs' : refs'[q] \in Reachable
      BY <1>1, <1>2, ReachableIsClosed
    <2>2. QED BY <1>1, <1>2, <2>1, NoMoreReachable
  <1>4. r = <<"branch", r[2]>>
    BY <1>1, <1>2, RefKinds DEF Typed
  <1>5. BranchOrder'
    <2> SUFFICES ASSUME NEW c \in Reachable', ~OnMain(c)
                 PROVE  \/ \E q \in DOMAIN refs' :
                             /\ q = <<"branch", Minor(c)>>
                             /\ \/ c = refs'[q]
                                \/ Earlier(commits[c].version, commits[refs'[q]].version)
                        \/ /\ <<"branch", Minor(c)>> \notin DOMAIN refs'
                           /\ \E t \in DOMAIN refs' : t[1] = "tag" /\ t[2] = Minor(c)
      BY <1>1 DEF BranchOrder, Earlier, Before, Triple, OnMain, Minor
    <2>1. c \in Reachable
      BY <1>3
    <2>2. CASE Minor(c) = r[2]
      <3>1. \E t \in DOMAIN refs' : t[1] = "tag" /\ t[2] = r[2]
        BY <2>2, GoneWithItsBranch, <1>1 DEF OnMain, Minor
      <3>2. QED BY <1>1, <1>4, <2>2, <3>1
    <2>3. CASE Minor(c) # r[2]
      <3>1. <<"branch", Minor(c)>> # r
        <4>1. PICK q : q = <<"branch", Minor(c)>>
          OBVIOUS
        <4>2. q[2] = Minor(c)
          BY <4>1
        <4>3. QED BY <2>3, <4>1, <4>2
      <3>2. CASE \E q \in DOMAIN refs :
                    /\ q = <<"branch", Minor(c)>>
                    /\ c = refs[q] \/ Earlier(commits[c].version, commits[refs[q]].version)
        BY <1>1, <3>1, <3>2
      <3>3. CASE /\ <<"branch", Minor(c)>> \notin DOMAIN refs
                 /\ \E t \in DOMAIN refs : t[1] = "tag" /\ t[2] = Minor(c)
        BY <1>1, <3>3
      <3>4. QED BY <2>1, <3>2, <3>3 DEF OnceInv, BranchOrder
    <2>4. QED BY <2>2, <2>3
  <1>6. ReleasedOnce'
    BY <1>1, <1>3, SameCommitsOnce DEF OnceInv
  <1>7. PublishedTyped'
    BY <1>1 DEF OnceInv, PublishedTyped
  <1>8. ShippedFromItsTag'
    <2> SUFFICES ASSUME NEW p \in published
                 PROVE  LET v == commits[p[2]].version IN
                        p[1] = "github" =>
                          LET tag == <<"tag", v.minor, v.patch>>
                          IN tag \in DOMAIN refs' /\ refs'[tag] = p[2]
      BY <1>1 DEF ShippedFromItsTag
    <2>1. PICK tag : tag = <<"tag", commits[p[2]].version.minor, commits[p[2]].version.patch>>
      OBVIOUS
    <2>2. tag # r
      <3>1. tag[1] = "tag"
        BY <2>1
      <3>2. QED BY <1>1, <3>1
    <2>3. QED BY <1>1, <2>1, <2>2 DEF OnceInv, ShippedFromItsTag
  <1>9. QED BY <1>5, <1>6, <1>7, <1>8 DEF OnceInv

(* What is shipped is checked out and has the version of a tag: it is the    *)
(* commit of the tag, since no other has this version.                       *)
LEMMA ShipOnce ==
  ASSUME CoreInv, OnceInv, NEW shop \in Shops, Ship(shop) PROVE OnceInv'
  <1> DEFINE v == work.version
  <1>0. PICK files : Uploads(shop, files) /\ published' = published \cup {<<shop, HeadCommit, files>>}
    BY DEF Ship
  <1>1. /\ Clean /\ ~v.dev
        /\ shop = "github" => <<"tag", v.minor, v.patch>> \in DOMAIN refs
        /\ UNCHANGED <<commits, refs>>
    BY <1>0 DEF Ship, Publishable, Uploads
  <1>2. Typed /\ TagsAreReleases /\ head \in DOMAIN refs
    BY DEF CoreInv, Typed
  <1>3. HeadCommit \in DOMAIN commits /\ v = commits[HeadCommit].version
    BY <1>1, <1>2, HeadFacts DEF Clean
  <1>4. BranchOrder' /\ ReleasedOnce'
    BY <1>1 DEF OnceInv, BranchOrder, ReleasedOnce, Reachable, Closed, OnMain, Minor
  <1>5. PublishedTyped'
    BY <1>0, <1>1, <1>3 DEF OnceInv, PublishedTyped
  <1>6. shop = "github" => refs[<<"tag", v.minor, v.patch>>] = HeadCommit
    <2> SUFFICES ASSUME shop = "github"
                 PROVE  refs[<<"tag", v.minor, v.patch>>] = HeadCommit
      OBVIOUS
    <2>1. PICK tag : tag = <<"tag", v.minor, v.patch>>
      OBVIOUS
    <2>2. tag \in DOMAIN refs /\ tag[1] = "tag" /\ tag[2] = v.minor /\ tag[3] = v.patch
      BY <1>1, <2>1
    <2>3. /\ commits[refs[tag]].version = Version(v.minor, v.patch, FALSE)
          /\ refs[tag] \in DOMAIN commits
      BY <1>2, <2>2 DEF TagsAreReleases, Typed
    <2>4. v = Version(v.minor, v.patch, FALSE)
      BY <1>1, <1>2, <1>3, VersionsOfCommits DEF Versions, Version
    <2>5. refs[tag] \in Reachable /\ HeadCommit \in Reachable
      BY <1>2, <2>2, ReachableIsClosed DEF HeadCommit
    <2>6. refs[tag] = HeadCommit
      BY <1>1, <1>3, <2>3, <2>4, <2>5 DEF OnceInv, ReleasedOnce
    <2>7. QED BY <2>1, <2>6
  <1>7. ShippedFromItsTag'
    BY <1>0, <1>1, <1>3, <1>6 DEF OnceInv, ShippedFromItsTag
  <1>8. QED BY <1>4, <1>5, <1>7 DEF OnceInv

LEMMA SameRepoOnce ==
  ASSUME OnceInv, UNCHANGED <<commits, refs, published>> PROVE OnceInv'
  BY DEF OnceInv, BranchOrder, ReleasedOnce, PublishedTyped, ShippedFromItsTag, Reachable,
     Closed, OnMain, Minor, Earlier, Before, Triple

LEMMA NextOnce == CoreInv /\ OnceInv /\ [Next]_vars => OnceInv'
  <1> SUFFICES ASSUME CoreInv, OnceInv, [Next]_vars PROVE OnceInv'
    OBVIOUS
  <1>1. Start \/ Interrupted => UNCHANGED <<commits, refs, published>>
    BY DEF Start, Interrupted
  <1>2. KeepsRepo => UNCHANGED <<commits, refs>>
    BY DEF KeepsRepo
  <1>3. CommitVersion \/ BumpByHand => OnceInv'
    BY NewCommitEffect, CommitOnce
  <1>4. QED BY <1>1, <1>2, <1>3, Effects, CreateBranchOnce, CreateTagOnce, DeleteBranchOnce,
           ShipOnce, SameRepoOnce

LEMMA InitOnce == Init => OnceInv
  <1> SUFFICES ASSUME Init PROVE OnceInv
    OBVIOUS
  <1>1. CoreInv /\ DOMAIN commits = {1} /\ published = {} /\ DOMAIN refs = {Main}
        /\ refs[Main] = 1
    BY InitCore DEF Init
  <1>2. OnMain(1)
    BY <1>1 DEF CoreInv, Lines
  <1>3. \A c \in Reachable : OnMain(c)
    BY <1>1, <1>2 DEF Reachable
  <1>4. BranchOrder
    BY <1>3 DEF BranchOrder
  <1>5. QED BY <1>1, <1>4 DEF OnceInv, ReleasedOnce, PublishedTyped, ShippedFromItsTag

LEMMA OnceInvariance == Spec => []OnceInv
  <1>1. Init => CoreInv /\ OnceInv
    BY InitCore, InitOnce
  <1>2. CoreInv /\ OnceInv /\ [Next]_vars => (CoreInv /\ OnceInv)'
    BY NextCore, NextOnce
  <1>3. QED BY <1>1, <1>2, PTL DEF Spec

(* A release is never cut twice: of the commits that a branch or a tag leads *)
(* to, no two have the same version without -dev.                            *)
THEOREM ReleasesAreCutOnce == Spec => []ReleasedOnce
  BY OnceInvariance, PTL DEF OnceInv

(* ship-github.ts makes the release of a tag on that tag's own commit only.  *)
THEOREM GithubShipsFromTheTag == Spec => []ShippedFromItsTag
  BY OnceInvariance, PTL DEF OnceInv
=============================================================================
