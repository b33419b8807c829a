--------------------------- MODULE UpdateWorkflow ---------------------------
(*****************************************************************************)
(* .github/workflows/update-check.yml: the weekly job that downloads the     *)
(* newest signed component, validates it, commits it to the update branch    *)
(* and opens a pull request.  Between its steps other people merge, close,   *)
(* delete or push, and upstream publishes.                                   *)
(*                                                                           *)
(* Files stand for the three generated paths: a component version, or an     *)
(* edit by hand.  A commit of the update branch is its place in `commits`.   *)
(*****************************************************************************)
EXTENDS Integers, Sequences

CONSTANTS
  MaxVersion,  \* bound on upstream's versions
  MaxEvents,   \* bound on what other people do
  MaxFaults    \* bound on failing steps

VARIABLES
  upstream,   \* the newest component
  main,       \* files on main
  commits,    \* files of every commit ever pushed to the update branch
  branch,     \* origin's update branch: a commit, or 0
  merged,     \* commits that are ancestors of main
  pr,         \* is a pull request open?
  step,       \* where the job is
  base,       \* files of the commit the job was started for
  worktree,   \* files the job has generated
  tracking,   \* refs/remotes/origin/<update branch>, or 0
  fetched,    \* how many commits existed when the job last looked
  disturbed,  \* did others act since the job started?
  events, faults

outside == <<upstream, main, merged, events>>
remote == <<commits, branch, pr>>
local == <<base, worktree, tracking, fetched>>
vars == <<outside, remote, local, step, disturbed, faults>>

Edited == MaxVersion + 1

Init ==
  /\ upstream = 0 /\ main = 0
  /\ commits = <<>> /\ branch = 0 /\ merged = {} /\ pr = FALSE
  /\ step = "idle"
  /\ base = 0 /\ worktree = 0 /\ tracking = 0 /\ fetched = 0
  /\ disturbed = FALSE
  /\ events = 0 /\ faults = 0

-----------------------------------------------------------------------------
(* The job *)

(* concurrency: no second job starts before the first has ended.              *)
Dispatch ==
  /\ step \in {"idle", "done"}
  /\ base' = main
  /\ step' = "checkout"
  /\ disturbed' = FALSE
  /\ UNCHANGED <<outside, remote, worktree, tracking, fetched, faults>>

(* fetch-depth: 0 fetches every branch.                                       *)
Checkout ==
  /\ step = "checkout"
  /\ tracking' = branch
  /\ fetched' = Len(commits)
  /\ step' = "update"
  /\ UNCHANGED <<outside, remote, base, worktree, disturbed, faults>>

(* chromium-crs update, and Detect Root Store changes.                        *)
Update ==
  /\ step = "update"
  /\ worktree' = upstream
  /\ step' = IF upstream = base THEN "idle" ELSE "validate"
  /\ UNCHANGED <<outside, remote, base, tracking, fetched, disturbed, faults>>

Validate ==
  /\ step = "validate"
  /\ step' = "fetch"
  /\ UNCHANGED <<outside, remote, local, disturbed, faults>>

(* git fetch || true: when the branch is gone, was rewritten or cannot be     *)
(* reached, the tracking ref stays as it was and the job goes on.             *)
Fetch ==
  /\ step = "fetch"
  /\ branch # 0
  /\ tracking' = branch
  /\ fetched' = Len(commits)
  /\ step' = "compare"
  /\ UNCHANGED <<outside, remote, base, worktree, disturbed, faults>>

FetchRefused ==
  /\ step = "fetch"
  /\ step' = "compare"
  /\ UNCHANGED <<outside, remote, local, disturbed, faults>>

BranchExists == tracking # 0
AlreadyContains == tracking # 0 /\ commits[tracking] = worktree

Compare ==
  /\ step = "compare"
  /\ step' = IF AlreadyContains THEN "list" ELSE "push"
  /\ UNCHANGED <<outside, remote, local, disturbed, faults>>

NoLease == TRUE
Lease == branch = tracking

(* A new commit on the job's base, whatever the branch held; a lease that     *)
(* does not hold fails the job.                                               *)
ForcePush ==
  /\ step = "push"
  /\ IF Lease
     THEN /\ commits' = Append(commits, worktree)
          /\ branch' = Len(commits')
          /\ step' = "list"
     ELSE /\ UNCHANGED <<commits, branch>>
          /\ step' = "idle"
  /\ UNCHANGED <<outside, pr, local, disturbed, faults>>

ListRequests ==
  /\ step = "list"
  /\ step' = IF pr THEN "done" ELSE "create"
  /\ UNCHANGED <<outside, remote, local, disturbed, faults>>

(* GitHub refuses a second request, one for a branch that is gone, and one    *)
(* without commits that main lacks.                                           *)
CreateAnyway ==
  /\ step = "create"
  /\ pr' = TRUE
  /\ step' = "done"
  /\ UNCHANGED <<outside, commits, branch, local, disturbed, faults>>

CreateRequest ==
  /\ step = "create"
  /\ IF ~pr /\ branch # 0 /\ branch \notin merged
     THEN pr' = TRUE /\ step' = "done"
     ELSE step' = "idle" /\ UNCHANGED pr
  /\ UNCHANGED <<outside, commits, branch, local, disturbed, faults>>

(* Any step may fail, or the 30 minutes run out.                              *)
StepFails ==
  /\ step \notin {"idle", "done"}
  /\ faults < MaxFaults
  /\ faults' = faults + 1
  /\ step' = "idle"
  /\ UNCHANGED <<outside, remote, local, disturbed>>

Job ==
  \/ Dispatch \/ Checkout \/ Update \/ Validate \/ Fetch \/ FetchRefused \/ Compare
  \/ ForcePush \/ ListRequests \/ CreateRequest

-----------------------------------------------------------------------------
(* Everybody else *)

Interfere ==
  /\ events < MaxEvents
  /\ events' = events + 1
  /\ disturbed' = TRUE
  /\ UNCHANGED <<upstream, local, step, faults>>

Merge(keep_branch) ==
  /\ pr
  /\ pr' = FALSE
  /\ main' = commits[branch]
  /\ merged' \in {merged, merged \cup {branch}}
  /\ branch' = IF keep_branch THEN branch ELSE 0
  /\ UNCHANGED commits
  /\ Interfere

CloseRequest ==
  /\ pr
  /\ pr' = FALSE
  /\ UNCHANGED <<main, merged, commits, branch>>
  /\ Interfere

DeleteBranch ==
  /\ branch # 0
  /\ branch' = 0
  /\ pr' = FALSE
  /\ UNCHANGED <<main, merged, commits>>
  /\ Interfere

PushByHand ==
  /\ commits' = Append(commits, Edited)
  /\ branch' = Len(commits')
  /\ UNCHANGED <<main, merged, pr>>
  /\ Interfere

Revert ==
  /\ main # 0
  /\ main' = 0
  /\ UNCHANGED <<merged, commits, branch, pr>>
  /\ Interfere

Others ==
  (\E keep \in BOOLEAN : Merge(keep)) \/ CloseRequest \/ DeleteBranch \/ PushByHand \/ Revert

Publish ==
  /\ upstream < MaxVersion
  /\ upstream' = upstream + 1
  /\ UNCHANGED <<main, merged, events, remote, local, step, disturbed, faults>>

Next == Job \/ StepFails \/ Others \/ Publish

(* The schedule starts the job every week, and each step of it ends.          *)
Spec == Init /\ [][Next]_vars /\ WF_vars(Job)

-----------------------------------------------------------------------------
(* Properties *)

(* Types: an open request has a branch, and no ref names a commit to come.    *)
TypeOK ==
  /\ commits \in Seq(0 .. Edited)
  /\ {branch, tracking, fetched} \subseteq 0 .. Len(commits)
  /\ merged \subseteq DOMAIN commits
  /\ step \in {"idle", "checkout", "update", "validate", "fetch", "compare", "push",
               "list", "create", "done"}
  /\ pr => branch # 0

(* A job nobody interfered with that reports a request has left one open, and *)
(* the request proposes exactly the files the job validated.                  *)
ReportedRequestProposesFiles ==
  step = "done" /\ ~disturbed => pr /\ commits[branch] = worktree

(* A commit somebody pushes to the update branch after the job has last       *)
(* looked at the branch is never pushed away.                                 *)
UnseenCommitsSurvive ==
  [][ForcePush /\ branch' # branch => branch <= fetched]_vars

(* Once upstream and people come to rest, its newest component is on main or  *)
(* in an open request for it.  Update requests are squashed: after a merge    *)
(* commit, a kept branch and a revert there is no commit left to propose.     *)
NewestGetsProposed ==
  <>[](merged # {} \/ main = upstream \/ (pr /\ commits[branch] = upstream))
=============================================================================
