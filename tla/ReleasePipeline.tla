--------------------------- MODULE ReleasePipeline ---------------------------
(*****************************************************************************)
(* .github/workflows/release-plz.yml with check-release-commit.py: every     *)
(* push to main starts a run, at most one run of the concurrency group is    *)
(* active and at most one waits.  A run verifies its commit, skips a push    *)
(* that changed only Cargo.lock, and otherwise lets release-plz publish.     *)
(*                                                                           *)
(* A commit is a pair: <<p, 0>> is the commit push p put on main, <<p, k>>   *)
(* the k-th commit of the release pull request that push p merged.           *)
(*****************************************************************************)
EXTENDS Integers, SequencesExt

CONSTANTS
  MaxPushes,    \* bound on pushes to main
  MaxCommits,   \* bound on the commits of a pull request
  PageSize      \* commits on the first page release-plz reads

VARIABLES
  main,       \* the pushes
  pending,    \* the push whose run waits, or 0
  running,    \* the push whose run is active, or 0
  job,        \* what the active run does next
  verified,   \* commits for which the verify job has succeeded
  published,  \* commits release-plz has published from
  replaced,   \* pushes whose waiting run was cancelled by a newer one
  ended       \* pushes whose run has ended

vars == <<main, pending, running, job, verified, published, replaced, ended>>

(* How a push reached main: directly, or as a merged release pull request.    *)
Merges == {"squash", "merge", "fast_forward"}
Push ==
  {push \in [how : {"direct"} \cup Merges, lockfile_only : BOOLEAN, commits : 1 .. MaxCommits] :
     push.how = "direct" => push.commits = 1}

PullRequest(p) == [k \in 1 .. main[p].commits |-> <<p, k>>]
Sha(p) == IF main[p].how = "fast_forward" THEN <<p, main[p].commits>> ELSE <<p, 0>>

(* git rev-list *)
Ancestors(p) ==
  {Sha(q) : q \in 1 .. p} \cup
  UNION {Range(PullRequest(q)) : q \in {r \in 1 .. p : main[r].how \in {"merge", "fast_forward"}}}

Init ==
  /\ main = <<>>
  /\ pending = 0
  /\ running = 0
  /\ job = "none"
  /\ verified = {}
  /\ published = {}
  /\ replaced = {}
  /\ ended = {}

-----------------------------------------------------------------------------
(* The concurrency group *)

NewestWaits(old, new) == new
OldestWaits(old, new) == IF old # 0 THEN old ELSE new
Waiting(old, new) == NewestWaits(old, new)

PushToMain(push) ==
  /\ Len(main) < MaxPushes
  /\ main' = Append(main, push)
  /\ LET new == Len(main) + 1
     IN /\ pending' = Waiting(pending, new)
        /\ replaced' = replaced \cup ({pending, new} \ {0, pending'})
  /\ UNCHANGED <<running, job, verified, published, ended>>

(* A start that leaves the run waiting. *)
StartAgain ==
  /\ running = 0
  /\ pending # 0
  /\ running' = pending
  /\ job' = "verify"
  /\ UNCHANGED <<main, pending, verified, published, replaced, ended>>

StartRun ==
  /\ running = 0
  /\ pending # 0
  /\ running' = pending
  /\ pending' = 0
  /\ job' = "verify"
  /\ UNCHANGED <<main, verified, published, replaced, ended>>

EndOfRun ==
  /\ running' = 0
  /\ job' = "none"
  /\ ended' = ended \cup {running}

(* A job fails, is cancelled or runs into its timeout; the others need it.    *)
Fail ==
  /\ job # "none"
  /\ EndOfRun
  /\ UNCHANGED <<main, pending, verified, published, replaced>>

-----------------------------------------------------------------------------
(* The jobs *)

Verify ==
  /\ job = "verify"
  /\ verified' = verified \cup {Sha(running)}
  /\ job' = "changes"
  /\ UNCHANGED <<main, pending, running, published, replaced, ended>>

(* The predecessor of the first push is missing.                              *)
LockfileOnly(p) == p > 1 /\ main[p].lockfile_only

Changes ==
  /\ job = "changes"
  /\ IF LockfileOnly(running)
     THEN EndOfRun
     ELSE job' = "guard" /\ UNCHANGED <<running, ended>>
  /\ UNCHANGED <<main, pending, verified, published, replaced>>

(* check_release_commit looks at every page of the pull request's commits;    *)
(* looking at the last commit only would miss the one release-plz selects.    *)
LastCommitRejected(p) ==
  /\ main[p].how \in Merges
  /\ LET c == Last(PullRequest(p)) IN c # Sha(p) /\ c \in Ancestors(p)
Rejected(p) ==
  /\ main[p].how \in Merges
  /\ \E c \in Range(PullRequest(p)) : c # Sha(p) /\ c \in Ancestors(p)

Guard ==
  /\ job = "guard"
  /\ IF Rejected(running)
     THEN EndOfRun
     ELSE job' = "release" /\ UNCHANGED <<running, ended>>
  /\ UNCHANGED <<main, pending, verified, published, replaced>>

(* release-plz switches to the last commit of the first page if the history   *)
(* has it; with release_always = false only a release pull request publishes. *)
Selected(p) ==
  LET c == PullRequest(p)[IF main[p].commits < PageSize THEN main[p].commits ELSE PageSize]
  IN IF c \in Ancestors(p) THEN c ELSE Sha(p)

Release ==
  /\ job = "release"
  /\ main[running].how \in Merges
  /\ published' = published \cup {Selected(running)}
  /\ EndOfRun
  /\ UNCHANGED <<main, pending, verified, replaced>>

(* Nothing to publish: releases_created is false.                             *)
NoRelease ==
  /\ job = "release"
  /\ job' = "pull_request"
  /\ UNCHANGED <<main, pending, running, verified, published, replaced, ended>>

ReleasePullRequest ==
  /\ job = "pull_request"
  /\ EndOfRun
  /\ UNCHANGED <<main, pending, verified, published, replaced>>

Pipeline ==
  StartRun \/ Fail \/ Verify \/ Changes \/ Guard \/ Release \/ NoRelease \/ ReleasePullRequest

Next == Pipeline \/ \E push \in Push : PushToMain(push)

(* GitHub starts a waiting run, and every job ends, if only by its timeout.   *)
Spec == Init /\ [][Next]_vars /\ WF_vars(Pipeline)

-----------------------------------------------------------------------------
(* Properties *)

(* Types: every push is in exactly one place of the queue.                    *)
TypeOK ==
  /\ main \in Seq(Push)
  /\ job \in {"none", "verify", "changes", "guard", "release", "pull_request"}
  /\ job = "none" <=> running = 0
  /\ LET queued == {pending, running} \ {0}
     IN /\ queued \cup replaced \cup ended = DOMAIN main
        /\ queued \cap (replaced \cup ended) = {} /\ replaced \cap ended = {}
        /\ pending # 0 => pending # running

(* release-plz publishes from no commit but those the same run's verify job   *)
(* has validated, however the release pull request was merged.                *)
OnlyVerifiedPublished == published \subseteq verified

(* However pushes and runs overlap, the newest push gets its run: once no     *)
(* more pushes arrive, a run of the tip of main ends.                         *)
TipGetsItsRun == <>[](main = <<>> \/ Len(main) \in ended)
=============================================================================
