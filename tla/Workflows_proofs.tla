--------------------------- MODULE Workflows_proofs ---------------------------
(******************************************************************************)
(* Theorems about the two workflows, for any number of pushes, commits, page  *)
(* sizes, versions, interferences and faults.                                 *)
(*                                                                            *)
(* A behaviour of MCWorkflows is one workflow's while the other stays where   *)
(* it starts; the safety part of each workflow's own specification is a       *)
(* projection of it (ReleaseProjection, UpdateProjection), so one invariant   *)
(* per workflow is proved, and proved from that workflow's own steps.         *)
(******************************************************************************)
EXTENDS MCWorkflows, Sequences, TLAPS

AllVersions == 0 .. UpdateCheck!Edited

-----------------------------------------------------------------------------
(* Projections *)

(* The first workflow of the composition takes only steps of ReleasePipeline. *)
LEMMA ReleaseStep ==
  ASSUME [PushOrRun \/ Update]_vars
  PROVE  [Release!Next]_(Release!vars)
BY DEF PushOrRun, Update, vars, release, Release!vars

LEMMA UpdateStep ==
  ASSUME [PushOrRun \/ Update]_vars
  PROVE  [UpdateCheck!Next]_(UpdateCheck!vars)
BY DEF PushOrRun, Update, vars, update, UpdateCheck!vars, UpdateCheck!outside,
       UpdateCheck!remote, UpdateCheck!local

(* Every behaviour of the two workflows is, as far as its pushes and runs go, *)
(* a behaviour of release-plz.yml.                                            *)
THEOREM ReleaseProjection == Spec => Release!Init /\ [][Release!Next]_(Release!vars)
<1>1. Init => Release!Init
  BY DEF Init
<1> QED
  BY <1>1, ReleaseStep, PTL DEF Spec

(* And, as far as the job and the branch go, one of update-check.yml.         *)
THEOREM UpdateProjection ==
  Spec => UpdateCheck!Init /\ [][UpdateCheck!Next]_(UpdateCheck!vars)
<1>1. Init => UpdateCheck!Init
  BY DEF Init
<1> QED
  BY <1>1, UpdateStep, PTL DEF Spec

-----------------------------------------------------------------------------
(* The update workflow *)

(* What a job knows about the branch at each of its steps, as long as nobody  *)
(* has interfered: first where it is, then that it holds the job's files.     *)
Looked == step \in {"update", "validate", "fetch", "compare", "push"}
Pushed == step \in {"list", "create", "done"}

UpdateInv ==
  /\ UpdateCheck!TypeOK
  /\ {upstream, base} \subseteq AllVersions
  /\ {main, worktree} \subseteq AllVersions
  /\ tracking <= fetched
  /\ ~disturbed => /\ Looked => tracking = branch
                   /\ Pushed => branch # 0 /\ commits[branch] = worktree
                   /\ step = "done" => pr

LEMMA UpdateInit == UpdateCheck!Init => UpdateInv
BY BoundsAssumption
   DEF UpdateCheck!Init, UpdateInv, UpdateCheck!TypeOK, UpdateCheck!Edited, AllVersions,
       Looked, Pushed

(* A commit pushed to the update branch becomes its last one.                 *)
LEMMA NewCommit ==
  ASSUME UpdateInv, NEW files \in AllVersions, commits' = Append(commits, files)
  PROVE  /\ commits' \in Seq(AllVersions)
         /\ Len(commits) \in Nat /\ Len(commits') = Len(commits) + 1
         /\ commits'[Len(commits')] = files
         /\ \A k \in 1 .. Len(commits) : commits'[k] = commits[k]
         /\ DOMAIN commits = 1 .. Len(commits) /\ DOMAIN commits' = 1 .. Len(commits')
BY DEF UpdateInv, UpdateCheck!TypeOK, AllVersions

LEMMA UpdateInductive ==
  ASSUME UpdateInv, [UpdateCheck!Next]_(UpdateCheck!vars)
  PROVE  UpdateInv'
<1> USE BoundsAssumption DEF UpdateInv, UpdateCheck!TypeOK, AllVersions, UpdateCheck!Edited,
        UpdateCheck!outside, UpdateCheck!remote, UpdateCheck!local
<1>1. CASE UNCHANGED UpdateCheck!vars
  BY <1>1 DEF UpdateCheck!vars, Looked, Pushed
<1>2. CASE UpdateCheck!Dispatch
  BY <1>2 DEF UpdateCheck!Dispatch, Looked, Pushed
<1>3. CASE UpdateCheck!Checkout
  BY <1>3 DEF UpdateCheck!Checkout, Looked, Pushed
<1>4. CASE UpdateCheck!Update
  BY <1>4 DEF UpdateCheck!Update, Looked, Pushed
<1>5. CASE UpdateCheck!Validate
  BY <1>5 DEF UpdateCheck!Validate, Looked, Pushed
<1>6. CASE UpdateCheck!Fetch
  BY <1>6 DEF UpdateCheck!Fetch, Looked, Pushed
<1>7. CASE UpdateCheck!FetchRefused
  BY <1>7 DEF UpdateCheck!FetchRefused, Looked, Pushed
<1>8. CASE UpdateCheck!Compare
  BY <1>8 DEF UpdateCheck!Compare, UpdateCheck!AlreadyContains, Looked, Pushed
<1>9. CASE UpdateCheck!ForcePush
  <2>1. CASE UpdateCheck!Lease
    <3>1. commits' = Append(commits, worktree) /\ branch' = Len(commits') /\ step' = "list"
      BY <1>9, <2>1 DEF UpdateCheck!ForcePush
    <3>2. UNCHANGED <<upstream, main, merged, pr, base, worktree, tracking, fetched, disturbed>>
      BY <1>9 DEF UpdateCheck!ForcePush
    <3>3. /\ commits' \in Seq(AllVersions) /\ Len(commits) \in Nat
          /\ Len(commits') = Len(commits) + 1 /\ commits'[Len(commits')] = worktree
          /\ DOMAIN commits = 1 .. Len(commits) /\ DOMAIN commits' = 1 .. Len(commits')
      BY <3>1, NewCommit
    <3>4. UpdateCheck!TypeOK'
      BY <3>1, <3>2, <3>3
    <3> QED
      BY <3>1, <3>2, <3>3, <3>4 DEF Looked, Pushed
  <2>2. CASE ~UpdateCheck!Lease
    BY <1>9, <2>2 DEF UpdateCheck!ForcePush, Looked, Pushed
  <2> QED
    BY <2>1, <2>2
<1>10. CASE UpdateCheck!ListRequests
  BY <1>10 DEF UpdateCheck!ListRequests, Looked, Pushed
<1>11. CASE UpdateCheck!CreateRequest
  BY <1>11 DEF UpdateCheck!CreateRequest, Looked, Pushed
<1>12. CASE UpdateCheck!StepFails
  BY <1>12 DEF UpdateCheck!StepFails, Looked, Pushed
<1>13. CASE UpdateCheck!Others
  <2> USE DEF UpdateCheck!Interfere
  <2>1. ASSUME NEW keep \in BOOLEAN, UpdateCheck!Merge(keep)
        PROVE  UpdateInv'
    <3>1. branch \in DOMAIN commits
      BY <2>1 DEF UpdateCheck!Merge
    <3>2. commits[branch] \in AllVersions
      BY <3>1
    <3> QED
      BY <2>1, <3>1, <3>2 DEF UpdateCheck!Merge
  <2>2. CASE UpdateCheck!CloseRequest
    BY <2>2 DEF UpdateCheck!CloseRequest
  <2>3. CASE UpdateCheck!DeleteBranch
    BY <2>3 DEF UpdateCheck!DeleteBranch
  <2>4. CASE UpdateCheck!PushByHand
    <3>1. commits' = Append(commits, UpdateCheck!Edited) /\ branch' = Len(commits') /\ disturbed'
      BY <2>4 DEF UpdateCheck!PushByHand
    <3>2. UNCHANGED <<upstream, main, merged, pr, step, base, worktree, tracking, fetched>>
      BY <2>4 DEF UpdateCheck!PushByHand
    <3>3. /\ commits' \in Seq(AllVersions) /\ Len(commits) \in Nat
          /\ Len(commits') = Len(commits) + 1
          /\ DOMAIN commits = 1 .. Len(commits) /\ DOMAIN commits' = 1 .. Len(commits')
      BY <3>1, NewCommit
    <3> QED
      BY <3>1, <3>2, <3>3
  <2>5. CASE UpdateCheck!Revert
    BY <2>5 DEF UpdateCheck!Revert
  <2> QED
    BY <1>13, <2>1, <2>2, <2>3, <2>4, <2>5 DEF UpdateCheck!Others
<1>14. CASE UpdateCheck!Publish
  BY <1>14 DEF UpdateCheck!Publish, Looked, Pushed
<1> QED
  BY <1>1, <1>2, <1>3, <1>4, <1>5, <1>6, <1>7, <1>8, <1>9, <1>10, <1>11, <1>12, <1>13, <1>14
  DEF UpdateCheck!Next, UpdateCheck!Job

LEMMA UpdateAlways == Spec => []UpdateInv
BY UpdateProjection, UpdateInit, UpdateInductive, PTL

(* update-check.yml: a job that reports a request and that nobody interfered  *)
(* with has left one open, for exactly the files it validated.                *)
THEOREM ReportedRequestsProposeFiles == Spec => []ReportedRequestProposesFiles
<1>1. UpdateInv => ReportedRequestProposesFiles
  BY DEF UpdateInv, Pushed, ReportedRequestProposesFiles,
         UpdateCheck!ReportedRequestProposesFiles
<1> QED
  BY <1>1, UpdateAlways, PTL

(* update-check.yml: --force-with-lease never removes a commit pushed after   *)
(* the job last looked at the branch.                                         *)
THEOREM NoUnseenCommitIsLost == Spec => UnseenCommitsSurvive
<1>1. ASSUME UpdateInv, [UpdateCheck!Next]_(UpdateCheck!vars)
      PROVE  [UpdateCheck!ForcePush /\ branch' # branch => branch <= fetched]_(UpdateCheck!vars)
  BY <1>1 DEF UpdateInv, UpdateCheck!ForcePush, UpdateCheck!Lease
<1> QED
  BY <1>1, UpdateProjection, UpdateAlways, PTL
  DEF UnseenCommitsSurvive, UpdateCheck!UnseenCommitsSurvive

-----------------------------------------------------------------------------
(* The release workflow *)

(* What the active run has established: its commit is verified after the      *)
(* verify job, and the one release-plz selects is that very commit once the   *)
(* guard has let the run pass.                                                *)
ReleaseInv ==
  /\ Release!TypeOK
  /\ job \in {"changes", "guard", "release", "pull_request"} => Release!Sha(running) \in verified
  /\ job = "release" /\ pushes[running].how \in Release!Merges =>
       Release!Selected(running) = Release!Sha(running)
  /\ published \subseteq verified

LEMMA ReleaseInit == Release!Init => ReleaseInv
BY DEF Release!Init, ReleaseInv, Release!TypeOK

(* A new push changes neither the commit of an earlier one nor its history.   *)
LEMMA HistoryStays ==
  ASSUME pushes \in Seq(Release!Push), NEW p \in DOMAIN pushes,
         NEW push \in Release!Push, pushes' = Append(pushes, push)
  PROVE  /\ pushes'[p] = pushes[p]
         /\ Release!Sha(p)' = Release!Sha(p)
         /\ Release!Selected(p)' = Release!Selected(p)
<1>1. \A q \in 1 .. p : q \in DOMAIN pushes /\ pushes'[q] = pushes[q]
  OBVIOUS
<1>2. p \in 1 .. p
  OBVIOUS
<1>3. \A q \in 1 .. p : /\ Release!Sha(q)' = Release!Sha(q)
                        /\ Release!PullRequest(q)' = Release!PullRequest(q)
  BY <1>1 DEF Release!Sha, Release!PullRequest
<1>4. {Release!Sha(q) : q \in 1 .. p}' = {Release!Sha(q) : q \in 1 .. p}
  BY <1>3
<1>5. {q \in 1 .. p : pushes[q].how \in {"merge", "fast_forward"}}'
        = {q \in 1 .. p : pushes[q].how \in {"merge", "fast_forward"}}
  BY <1>1
<1>6. Release!Ancestors(p)' = Release!Ancestors(p)
  BY <1>3, <1>4, <1>5 DEF Release!Ancestors
<1> QED
  BY <1>1, <1>2, <1>3, <1>6 DEF Release!Selected

(* check_release_commit: where the guard lets a run pass, release-plz selects *)
(* the commit of the push itself.                                             *)
LEMMA GuardSelects ==
  ASSUME pushes \in Seq(Release!Push), NEW p \in DOMAIN pushes,
         pushes[p].how \in Release!Merges, ~Release!Rejected(p)
  PROVE  Release!Selected(p) = Release!Sha(p)
<1> DEFINE n == IF pushes[p].commits < PageSize THEN pushes[p].commits ELSE PageSize
<1>1. pushes[p] \in Release!Push
  OBVIOUS
<1>2. pushes[p].commits \in 1 .. MaxCommits
  BY <1>1 DEF Release!Push
<1>3. n \in 1 .. pushes[p].commits
  BY <1>2, BoundsAssumption
<1>4. Release!PullRequest(p)[n] \in Release!Range(Release!PullRequest(p))
  BY <1>3 DEF Release!PullRequest, Release!Range
<1> QED
  BY <1>4 DEF Release!Selected, Release!Rejected

LEMMA ReleaseInductive ==
  ASSUME ReleaseInv, [Release!Next]_(Release!vars)
  PROVE  ReleaseInv'
<1> USE DEF ReleaseInv, Release!TypeOK
<1>0. \A p \in {pending, running} : p # 0 => p \in DOMAIN pushes
  OBVIOUS
<1>1. CASE UNCHANGED Release!vars
  <2>1. UNCHANGED <<pushes, pending, running, job, verified, published, replaced, ended>>
    BY <1>1 DEF Release!vars
  <2>2. Release!Sha(running)' = Release!Sha(running)
        /\ Release!Selected(running)' = Release!Selected(running)
    BY <2>1 DEF Release!Sha, Release!Selected, Release!Ancestors, Release!PullRequest
  <2> QED
    BY <2>1, <2>2
<1>2. ASSUME NEW push \in Release!Push, Release!PushToMain(push)
      PROVE  ReleaseInv'
  <2>1. /\ pushes' = Append(pushes, push) /\ pending' = Len(pushes) + 1
        /\ replaced' = replaced \cup ({pending} \ {0})
        /\ UNCHANGED <<running, job, verified, published, ended>>
    BY <1>2 DEF Release!PushToMain, Release!Waiting, Release!NewestWaits
  <2>2. Len(pushes) \in Nat /\ DOMAIN pushes = 1 .. Len(pushes)
    OBVIOUS
  <2>3. pushes' \in Seq(Release!Push) /\ DOMAIN pushes' = 1 .. (Len(pushes) + 1)
    BY <2>1
  <2>4. DOMAIN pushes' = DOMAIN pushes \cup {Len(pushes) + 1}
        /\ Len(pushes) + 1 \notin DOMAIN pushes /\ Len(pushes) + 1 # 0
    BY <2>2, <2>3
  <2>5. Release!TypeOK'
    BY <2>1, <2>3, <2>4
  <2>6. running # 0 => /\ pushes'[running] = pushes[running]
                       /\ Release!Sha(running)' = Release!Sha(running)
                       /\ Release!Selected(running)' = Release!Selected(running)
    BY <1>0, <2>1, HistoryStays
  <2> QED
    BY <2>1, <2>5, <2>6
<1>3. CASE Release!StartRun
  BY <1>3 DEF Release!StartRun
<1>4. CASE Release!Fail
  BY <1>4 DEF Release!Fail, Release!EndOfRun
<1>5. CASE Release!Verify
  BY <1>5 DEF Release!Verify, Release!Sha
<1>6. CASE Release!Changes
  <2>1. CASE Release!LockfileOnly(running)
    BY <1>6, <2>1 DEF Release!Changes, Release!EndOfRun
  <2>2. CASE ~Release!LockfileOnly(running)
    BY <1>6, <2>2 DEF Release!Changes, Release!Sha
  <2> QED
    BY <2>1, <2>2
<1>7. CASE Release!Guard
  <2>1. CASE Release!Rejected(running)
    BY <1>7, <2>1 DEF Release!Guard, Release!EndOfRun
  <2>2. CASE ~Release!Rejected(running)
    <3>1. job' = "release" /\ UNCHANGED <<pushes, pending, running, verified, published,
          replaced, ended>>
      BY <1>7, <2>2 DEF Release!Guard
    <3>2. running \in DOMAIN pushes
      BY <1>0, <1>7 DEF Release!Guard
    <3>3. pushes[running].how \in Release!Merges => Release!Selected(running) = Release!Sha(running)
      BY <2>2, <3>2, GuardSelects
    <3>4. Release!Sha(running)' = Release!Sha(running)
          /\ Release!Selected(running)' = Release!Selected(running)
      BY <3>1 DEF Release!Sha, Release!Selected, Release!Ancestors, Release!PullRequest
    <3> QED
      BY <1>7, <3>1, <3>3, <3>4 DEF Release!Guard
  <2> QED
    BY <2>1, <2>2
<1>8. CASE Release!Release
  BY <1>8 DEF Release!Release, Release!EndOfRun
<1>9. CASE Release!NoRelease
  BY <1>9 DEF Release!NoRelease, Release!Sha
<1>10. CASE Release!ReleasePullRequest
  BY <1>10 DEF Release!ReleasePullRequest, Release!EndOfRun
<1> QED
  BY <1>1, <1>2, <1>3, <1>4, <1>5, <1>6, <1>7, <1>8, <1>9, <1>10
  DEF Release!Next, Release!Pipeline

LEMMA ReleaseAlways == Spec => []ReleaseInv
BY ReleaseProjection, ReleaseInit, ReleaseInductive, PTL

(* release-plz.yml: release-plz publishes from no commit that the verify job  *)
(* of the same run has not validated, however the request was merged, however *)
(* many commits it had and however many of them release-plz looks at.         *)
THEOREM OnlyVerifiedIsPublished == Spec => []OnlyVerifiedPublished
<1>1. ReleaseInv => OnlyVerifiedPublished
  BY DEF ReleaseInv, OnlyVerifiedPublished, Release!OnlyVerifiedPublished
<1> QED
  BY <1>1, ReleaseAlways, PTL

(* Types of both: every push is in exactly one place of the queue, no ref of  *)
(* the update branch names a commit to come.                                  *)
THEOREM WorkflowTypes == Spec => []TypesOK
<1>1. ReleaseInv /\ UpdateInv => TypesOK
  BY DEF ReleaseInv, UpdateInv, TypesOK
<1> QED
  BY <1>1, ReleaseAlways, UpdateAlways, PTL
=============================================================================
