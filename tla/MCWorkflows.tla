----------------------------- MODULE MCWorkflows -----------------------------
(******************************************************************************)
(* The two workflows of .github that keep state between runs.  A merged       *)
(* update request is one more push to main; neither workflow reads what the   *)
(* other one keeps, so any interleaving projects onto a behaviour of each:    *)
(* a behaviour here is of one workflow, and the other stays where it          *)
(* starts.                                                                    *)
(******************************************************************************)
EXTENDS Integers

CONSTANTS
  MaxPushes, MaxCommits, PageSize,   \* of ReleasePipeline
  MaxVersion, MaxEvents, MaxFaults   \* of UpdateWorkflow

ASSUME BoundsAssumption ==
  /\ {MaxPushes, MaxCommits, MaxVersion, MaxEvents, MaxFaults} \subseteq Nat
  /\ PageSize \in Nat \ {0}

VARIABLES
  workflow,  \* "release" or "update"
  pushes, pending, running, job, verified, published, replaced, ended,
  upstream, main, commits, branch, merged, pr, step, base, worktree, tracking, fetched,
  disturbed, events, faults

Release == INSTANCE ReleasePipeline WITH main <- pushes
release == <<pushes, pending, running, job, verified, published, replaced, ended>>

UpdateCheck == INSTANCE UpdateWorkflow
update == <<upstream, main, commits, branch, merged, pr, step, base, worktree, tracking,
            fetched, disturbed, events, faults>>

Init == workflow \in {"release", "update"} /\ Release!Init /\ UpdateCheck!Init

PushOrRun == workflow = "release" /\ Release!Next /\ UNCHANGED <<workflow, update>>
Update == workflow = "update" /\ UpdateCheck!Next /\ UNCHANGED <<workflow, release>>

(* The fairness of each workflow's own specification.                         *)
Pipeline == workflow = "release" /\ Release!Pipeline /\ UNCHANGED <<workflow, update>>
Job == workflow = "update" /\ UpdateCheck!Job /\ UNCHANGED <<workflow, release>>

vars == <<workflow, release, update>>
Spec == Init /\ [][PushOrRun \/ Update]_vars /\ WF_vars(Pipeline) /\ WF_vars(Job)

-----------------------------------------------------------------------------
(* The types of both workflows.                                               *)
TypesOK == Release!TypeOK /\ UpdateCheck!TypeOK

(* The properties of ReleasePipeline (release-plz.yml,                        *)
(* check-release-commit.py).                                                  *)
OnlyVerifiedPublished == Release!OnlyVerifiedPublished
TipGetsItsRun == Release!TipGetsItsRun

(* The properties of UpdateWorkflow (update-check.yml).                       *)
ReportedRequestProposesFiles == UpdateCheck!ReportedRequestProposesFiles
UnseenCommitsSurvive == UpdateCheck!UnseenCommitsSurvive
NewestGetsProposed == UpdateCheck!NewestGetsProposed
=============================================================================
