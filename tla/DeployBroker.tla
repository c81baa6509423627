---------------------------- MODULE DeployBroker ----------------------------
(***************************************************************************)
(* The deploy broker: each request pushes a commit to a build branch, waits *)
(* for its image, sets what ArgoCD shall run, and syncs it.  A thread per   *)
(* request, no lock between them: requests of one name share the branch,    *)
(* and all share the ArgoCD application.                                    *)
(***************************************************************************)
EXTENDS Integers, Sequences, FiniteSets, SequencesExt

CONSTANTS
    Requests,
    Commits,
    NoTag,         \* no image.tag override; not a number
    Watched,       \* of the Requests, those that deploy-broker-verify waits for
    MaxEvents      \* bound: steps that raise, restarts, and clears of image.tag

ASSUME DeployAssumption ==
    /\ Commits # {} /\ MaxEvents \in Nat /\ NoTag \notin Nat
    /\ "main" \notin Requests

VARIABLES   \* of the broker
    commit,     \* app_head_sha of each request
    bundled,    \* whether it comes with a Phalanx bundle
    pc,         \* where its thread is; "none" before it and "dead" after a restart
    status, tag,   \* of its record
    written,    \* it changed the application and has not synced it
    clear,      \* the endpoint: "idle" or "patched"
    events      \* steps that raised, restarts, and clears of image.tag

VARIABLES   \* of GitHub and ArgoCD
    branch,     \* head of the build branch
    runs,       \* the workflow runs, oldest first: their commit and state
    spec,       \* the Application: targetRevision (a request, or "main") and image.tag
    deployed    \* what was synced last

VARIABLES   \* of deploy-broker-verify, one per request
    viewer,     \* "none", "waiting", "succeeded", "failed" or "timeout"
    upToDate    \* whether it has reported all of the record's log

recordVars == <<status, tag>>
viewerVars == <<viewer, upToDate>>
githubVars == <<branch, runs>>
argocdVars == <<spec, deployed, written, clear>>
deployVars == <<commit, bundled, pc, recordVars, argocdVars, events, githubVars,
                viewerVars>>

Event == events < MaxEvents /\ events' = events + 1

DeployInit ==
    /\ commit \in [Requests -> Commits] /\ bundled \in [Requests -> BOOLEAN]
    /\ pc = [r \in Requests |-> "none"]
    /\ status = [r \in Requests |-> "none"]
    /\ tag = [r \in Requests |-> NoTag]
    /\ written = [r \in Requests |-> FALSE]
    /\ clear = "idle" /\ events = 0
    /\ branch = CHOOSE k \in Commits : TRUE    \* the commits are interchangeable
    /\ \E state \in {"success", "failure"} :
          runs = <<[commit |-> branch, state |-> state]>>
    /\ spec = [revision |-> "main", tag |-> NoTag] /\ deployed = spec
    /\ viewer = [r \in Requests |-> "none"] /\ upToDate = [r \in Requests |-> TRUE]

-----------------------------------------------------------------------------
(* A request and its record.                                               *)

\* start_deploy: the client polls the id it gets.
StartDeploy(r) ==
    /\ pc[r] = "none" /\ status[r] = "none"
    /\ status' = [status EXCEPT ![r] = "queued"]
    /\ pc' = [pc EXCEPT ![r] = "prepare"]
    /\ viewer' = [viewer EXCEPT ![r] = IF r \in Watched THEN "waiting" ELSE @]
    /\ UNCHANGED <<commit, bundled, tag, argocdVars, events, githubVars, upToDate>>

\* The thread of r goes from one program point to the next; most steps are logged.
Thread(r, from, to) == pc[r] = from /\ pc' = [pc EXCEPT ![r] = to]
Log(r) == upToDate' = [upToDate EXCEPT ![r] = r \notin Watched] /\ UNCHANGED viewer

\* The workspaces are cloned and the bundles imported, whose heads must be the
\* commits that were asked for.
Prepare(r) ==
    /\ Thread(r, "prepare", "push")
    /\ status' = [status EXCEPT ![r] = "running"]
    /\ Log(r)
    /\ UNCHANGED <<commit, bundled, tag, argocdVars, events, githubVars>>

\* git push --force; a push that changes the branch starts a workflow run.
PushBuild(r) ==
    /\ Thread(r, "push", "wait")
    /\ Log(r)
    /\ branch' = commit[r]
    /\ runs' = IF branch = commit[r] THEN runs
               ELSE Append(runs, [commit |-> commit[r], state |-> "running"])
    /\ UNCHANGED <<commit, bundled, status, tag, argocdVars, events>>

\* wait_for_build takes the newest run of this commit, whoever pushed what since.
Newest(runsOf) == CHOOSE i \in runsOf : \A j \in runsOf : j <= i
\* Mutant: the newest run of the branch is taken.
RunOfBranch(r) == DOMAIN runs

RunOf(r) == {i \in DOMAIN runs : runs[i].commit = commit[r]}

Built(r) ==
    /\ RunOf(r) # {} /\ runs[Newest(RunOf(r))].state = "success"
    /\ Thread(r, "wait", IF bundled[r] THEN "materialize" ELSE "patch")
    /\ tag' = [tag EXCEPT ![r] = Newest(RunOf(r))]
    /\ Log(r)
    /\ UNCHANGED <<commit, bundled, status, argocdVars, events, githubVars>>

\* The Phalanx branch is pushed, without force, and becomes the targetRevision.
Materialize(r) ==
    /\ Thread(r, "materialize", "patch")
    /\ spec' = [spec EXCEPT !.revision = r]
    /\ written' = [written EXCEPT ![r] = TRUE]
    /\ Log(r)
    /\ UNCHANGED <<commit, bundled, status, tag, deployed, clear, events, githubVars>>

\* set_image_tag rewrites the list of Helm parameters, with its own image.tag.
PatchTag(r) ==
    /\ Thread(r, "patch", "sync")
    /\ spec' = [spec EXCEPT !.tag = tag[r]]
    /\ written' = [written EXCEPT ![r] = TRUE]
    /\ UNCHANGED <<commit, bundled, recordVars, deployed, clear, events, githubVars,
                   viewerVars>>

Sync(r) ==
    /\ Thread(r, "sync", "verify")
    /\ deployed' = spec
    /\ written' = [written EXCEPT ![r] = FALSE]
    /\ Log(r)
    /\ UNCHANGED <<commit, bundled, status, tag, spec, clear, events, githubVars>>

Succeed(r) ==
    /\ Thread(r, "verify", "end")
    /\ status' = [status EXCEPT ![r] = "succeeded"]
    /\ UNCHANGED <<commit, bundled, tag, argocdVars, events, githubVars, viewerVars>>

\* A step raises: a build that failed or took too long (any build may), a Phalanx push
\* that is no fast-forward, a policy, an ArgoCD error, a check not answered by 200.
AtWork(r) == pc[r] \in {"prepare", "push", "wait", "materialize", "patch", "sync",
                        "verify"}
\* The error is logged, then the record says it failed.
Raise(r) ==
    /\ AtWork(r)
    /\ (pc[r] = "wait" /\ UNCHANGED events) \/ Event
    /\ pc' = [pc EXCEPT ![r] = "fail"]
    /\ Log(r)
    /\ UNCHANGED <<commit, bundled, status, tag, argocdVars, githubVars>>

DeployFails(r) ==
    /\ Thread(r, "fail", "end")
    /\ status' = [status EXCEPT ![r] = "failed"]
    /\ UNCHANGED <<commit, bundled, tag, argocdVars, events, githubVars, viewerVars>>

-----------------------------------------------------------------------------
(* The endpoint that clears the override, GitHub, and the daemon.           *)

ClearPatches ==
    /\ clear = "idle" /\ Event
    /\ clear' = "patched"
    /\ spec' = [spec EXCEPT !.tag = NoTag]
    /\ UNCHANGED <<commit, bundled, pc, recordVars, deployed, written, githubVars,
                   viewerVars>>

ClearSyncs ==
    /\ clear = "patched" /\ clear' = "idle"
    /\ deployed' = spec
    /\ UNCHANGED <<commit, bundled, pc, recordVars, spec, written, events, githubVars,
                   viewerVars>>

WorkflowEnds ==
    /\ \E i \in DOMAIN runs : \E state \in {"success", "failure"} :
         /\ runs[i].state = "running"
         /\ runs' = [runs EXCEPT ![i].state = state]
    /\ UNCHANGED <<commit, bundled, pc, recordVars, argocdVars, events, branch,
                   viewerVars>>

\* Threads are daemons and nothing resumes them.
Restart ==
    /\ Event
    /\ clear = "idle"
    /\ pc' = [r \in Requests |-> IF AtWork(r) \/ pc[r] = "fail" THEN "dead" ELSE pc[r]]
    /\ UNCHANGED <<commit, bundled, recordVars, argocdVars, githubVars, viewerVars>>

-----------------------------------------------------------------------------
(* deploy-broker-verify polls the record until it is terminal.             *)

Terminal == {"succeeded", "failed"}

Poll(r) ==
    /\ viewer[r] = "waiting"
    /\ upToDate' = [upToDate EXCEPT ![r] = TRUE]
    /\ viewer' = [viewer EXCEPT ![r] = IF status[r] \in Terminal THEN status[r] ELSE @]
    /\ UNCHANGED <<commit, bundled, pc, recordVars, argocdVars, events, githubVars>>

Deadline(r) ==
    /\ viewer[r] = "waiting" /\ status[r] \notin Terminal
    /\ viewer' = [viewer EXCEPT ![r] = "timeout"]
    /\ UNCHANGED <<commit, bundled, pc, recordVars, argocdVars, events, githubVars,
                   upToDate>>

ThreadStep(r) ==
    \/ Prepare(r) \/ PushBuild(r) \/ Built(r) \/ Materialize(r)
    \/ PatchTag(r) \/ Sync(r) \/ Succeed(r) \/ Raise(r) \/ DeployFails(r)

DeployNext ==
    \/ \E r \in Requests : StartDeploy(r) \/ ThreadStep(r) \/ Poll(r) \/ Deadline(r)
    \/ ClearPatches \/ ClearSyncs \/ WorkflowEnds \/ Restart

DeploySpec == DeployInit /\ [][DeployNext]_deployVars

\* Threads run, runs end, and deploy-broker-verify polls until its deadline.
DeployFairness ==
    /\ \A r \in Requests :
         /\ WF_deployVars(ThreadStep(r)) /\ WF_deployVars(Poll(r) \/ Deadline(r))
         /\ WF_deployVars(Deadline(r))
    /\ WF_deployVars(ClearSyncs) /\ WF_deployVars(WorkflowEnds)

FairDeploySpec == DeploySpec /\ DeployFairness

-----------------------------------------------------------------------------
Specs == [revision : Requests \union {"main"}, tag : {NoTag} \union DOMAIN runs]

\* A record is there before its thread.
DeployTypeOK ==
    /\ \A r \in Requests : pc[r] = "none" <=> status[r] = "none"
    /\ status \in [Requests -> {"none", "queued", "running"} \union Terminal]
    /\ upToDate \in [Requests -> BOOLEAN]
    /\ tag \in [Requests -> {NoTag} \union DOMAIN runs]
    /\ written \in [Requests -> BOOLEAN]
    /\ branch \in Commits
    /\ runs \in Seq([commit : Commits, state : {"running", "success", "failure"}])
    /\ spec \in Specs /\ deployed \in Specs
    /\ viewer \in [Requests -> {"none", "waiting", "timeout"} \union Terminal]
    /\ clear \in {"idle", "patched"}

\* A request deploys the image of its own commit, although others push other commits
\* to the same branch by force while it waits.
ImageOfCommit == \A r \in Requests :
    tag[r] # NoTag => runs[tag[r]] = [commit |-> commit[r], state |-> "success"]

\* What ArgoCD was told to run is what it runs, whatever requests interleave, unless
\* one is between its change and its sync, or ended there with an error.
ChangesAreSynced ==
    spec # deployed => clear = "patched" \/ \E r \in Requests : written[r]

\* When deploy-broker-verify reports the end of a request it has shown its whole log,
\* the error too.
ReportIsComplete == \A r \in Requests :
    viewer[r] \in Terminal => status[r] = viewer[r] /\ upToDate[r]

\* What the run checks of the broker: the types, and the three properties.
DeployInv == DeployTypeOK /\ ImageOfCommit /\ ChangesAreSynced /\ ReportIsComplete

Taken(r) == status[r] # "none"
DeployEnded(r) == status[r] \in Terminal \/ pc[r] = "dead"
Waits(r) == viewer[r] = "waiting"

\* A request ends, and its record says so, unless the daemon is restarted meanwhile.
RequestEnds == \A r \in Requests : Taken(r) ~> DeployEnded(r)

\* Who waits for a request is told of its end, or at least of the deadline.
ViewerEnds == \A r \in Requests : Waits(r) ~> ~Waits(r)
=============================================================================
