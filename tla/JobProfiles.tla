----------------------------- MODULE JobProfiles -----------------------------
(***************************************************************************)
(* The versions of a job's description, the run that compiles a profile    *)
(* for each of them, and the applications that wait for a profile.         *)
(*                                                                         *)
(* A description is frozen as a version when drafts of an import are       *)
(* confirmed (see JobImport) or the job is edited.  Candidates are matched *)
(* with the newest version; if it has no profile yet, the application      *)
(* waits, and the run that publishes the profile wakes it up.              *)
(*                                                                         *)
(* Who wants another run for a version reads the version, looks for an     *)
(* active run and commits, in three steps: neither row is locked, so a run *)
(* may begin or end in between.  The transactions in which a worker tells  *)
(* the version about its run are single steps.                             *)
(*                                                                         *)
(* A job description is one of a few texts.  Runs are as in Screening:     *)
(* active until one of their steps ends them; a failed or a blocked one    *)
(* may be taken up again by an administrator, much later.                  *)
(***************************************************************************)
EXTENDS Naturals

CONSTANTS
    Texts,        \* job descriptions
    Candidates,   \* candidates who are matched with the job
    MaxVersion,   \* bound: versions of the job
    MaxRevision,  \* bound: profiles of a version
    MaxAgain      \* bound: runs that people ask for again

ASSUME JobProfilesAssumption ==
    /\ Texts # {}
    /\ MaxVersion \in Nat \ {0} /\ MaxRevision \in Nat \ {0} /\ MaxAgain \in Nat

Versions == 1 .. MaxVersion
Revisions == 0 .. MaxRevision

VARIABLES
    deleted,     \* the job has been deleted
    version,     \* number |-> frozen job description and its profile
    again,       \* runs that people have asked for again
    command,     \* who wants another run |-> how far the transaction is
    routing,     \* candidate |-> how far it has been matched with the job
    application  \* candidate |-> its application

profileVars == <<deleted, version, again, command, routing, application>>

(***************************************************************************)
(* State                                                                   *)
(***************************************************************************)
NoRun == [active |-> FALSE, step |-> "freeze", revision |-> 0, reuse |-> FALSE,
          resumed |-> FALSE]

\* edited: frozen by an edit.  profile: there is an active profile.  compiled:
\* revisions so far; asked: that of the run the version refers to.  A run with
\* reuse only publishes a profile that is there.  failed: what an administrator
\* finds of failed runs, as <<revision, reuse>>; blocked: the revision of a blocked
\* one.  overtaken: it has been marked for a run that had already ended.
NoVersion == [text |-> CHOOSE t \in Texts : TRUE, edited |-> FALSE, status |-> "none",
              code |-> "none", profile |-> FALSE, compiled |-> 0, asked |-> 0,
              run |-> NoRun, failed |-> {}, blocked |-> 0, overtaken |-> FALSE]

\* A recruiter repairs the profile of a job; drafts are confirmed (JobImport)
\* whose description is a version; an application asks to have its version
\* compiled again.
Askers == {"recruiter", "import", "application"}

\* status: as it has been read; only publish: see reuse.  run: the one that has
\* been found, or a fresh one that is to be created.
NoCommand == [stage |-> "none", version |-> 1, status |-> "none", to |-> "queued",
              reuse |-> FALSE, fresh |-> FALSE, run |-> NoRun]

\* ready: the transaction has found the profile of the version.
NoRouting == [step |-> "none", version |-> 1, ready |-> FALSE]

NoApplication == [status |-> "none", version |-> 1]

Statuses == {"none", "queued", "processing", "ready", "review_required", "failed"}
Codes == {"none", "retry", "ready_retry", "review"}
Runs == [active : BOOLEAN, step : {"freeze", "compile", "ready"}, revision : Revisions,
         reuse : BOOLEAN, resumed : BOOLEAN]

ProfileTypeOK ==
    /\ deleted \in BOOLEAN /\ again \in 0 .. MaxAgain
    /\ version \in [Versions ->
         [text : Texts, edited : BOOLEAN, status : Statuses, code : Codes,
          profile : BOOLEAN, compiled : Revisions, asked : Revisions, run : Runs,
          failed : SUBSET (Revisions \X BOOLEAN), blocked : Revisions,
          overtaken : BOOLEAN]]
    /\ command \in [Askers ->
         [stage : {"none", "read", "found"}, version : Versions, status : Statuses,
          to : {"queued", "ready"}, reuse : BOOLEAN, fresh : BOOLEAN, run : Runs]]
    /\ routing \in [Candidates ->
         [step : {"none", "frozen", "publishing"}, version : Versions, ready : BOOLEAN]]
    /\ application \in [Candidates ->
         [status : {"none", "waiting", "started", "closed"}, version : Versions]]

ProfileInit ==
    /\ deleted = FALSE /\ again = 0
    /\ version = [v \in Versions |-> NoVersion]
    /\ command = [who \in Askers |-> NoCommand]
    /\ routing = [c \in Candidates |-> NoRouting]
    /\ application = [c \in Candidates |-> NoApplication]

(***************************************************************************)
(* Versions                                                                *)
(***************************************************************************)
\* mark_profile: the statuses from which it accepts a status; it raises an
\* error for all others.
MayBecome(from, to) ==
    CASE to = "ready" -> TRUE
      [] to = "processing" -> from \in {"queued", "processing"}
      [] to = "queued" -> from # "ready"
      [] to \in {"failed", "review_required"} -> from \in {"queued", "processing", to}

FreshRun(revision, reuse) ==
    [active |-> TRUE, step |-> "freeze", revision |-> revision, reuse |-> reuse,
     resumed |-> FALSE]

\* Variant: the version is marked and no run is created.
FrozenOnly(text, edited) ==
    [NoVersion EXCEPT !.text = text, !.edited = edited, !.status = "queued", !.asked = 1]

\* A version that is frozen, and its first run (enqueue_for_version)
Frozen(text, edited) ==
    [NoVersion EXCEPT !.text = text, !.edited = edited, !.status = "queued",
                      !.asked = 1, !.run = FreshRun(1, FALSE)]

Known == {v \in Versions : version[v].status # "none"}
Newest(v) == v \in Known /\ \A w \in Known : w <= v
NextVersion(v) == v \notin Known /\ \A w \in 1 .. v - 1 : w \in Known

\* The version with this description.
Same(text, edited) ==
    {v \in Known : version[v].text = text /\ version[v].edited = edited}

\* mark_profile and the like: only the version changes.
SetVersion(v, p) ==
    /\ version' = [version EXCEPT ![v] = p]
    /\ UNCHANGED <<deleted, again, command, routing, application>>

\* A person asks for another run.
AskedAgain(v, p) ==
    /\ again < MaxAgain /\ again' = again + 1
    /\ version' = [version EXCEPT ![v] = p]
    /\ UNCHANGED <<deleted, command, routing, application>>

\* The commands of the router lock the job when they begin, the confirmation of
\* drafts once it has written to it.
JobLocked == command["recruiter"].stage # "none" \/ command["import"].stage = "found"

Freeze(text, edited) ==
    /\ ~ deleted /\ ~ JobLocked /\ Same(text, edited) = {}
    /\ \E v \in Versions : NextVersion(v) /\ SetVersion(v, Frozen(text, edited))

\* JobEditingService.update: a description that an edit has frozen before
\* keeps its version, whatever has been frozen since.
Edit(text) == Known # {} /\ Freeze(text, TRUE)

\* _create_or_reuse_job and _update_requisition, for a draft that is confirmed
\* and whose description is new
Import(text) == Freeze(text, FALSE)

(***************************************************************************)
(* Another run for a version                                               *)
(***************************************************************************)
\* The transaction has read the version.
Reads(who, v, reuse) ==
    /\ command[who].stage = "none" /\ again < MaxAgain
    /\ again' = again + 1
    /\ command' = [command EXCEPT ![who] =
         [NoCommand EXCEPT !.stage = "read", !.version = v, !.status = version[v].status,
             !.reuse = reuse, !.run = IF reuse THEN FreshRun(version[v].asked, TRUE) ELSE @,
             !.to = IF who = "import" /\ version[v].profile THEN "ready" ELSE "queued"]]
    /\ UNCHANGED <<deleted, version, routing, application>>

\* request_profile_run("retry") for the newest version
CanRetryProfile(v) ==
    /\ ~ deleted /\ Newest(v)
    /\ version[v].status \in {"failed", "review_required"}
    /\ version[v].code = "ready_retry" => version[v].asked \in 1 .. version[v].compiled
RetryProfile(v) ==
    ~ JobLocked /\ CanRetryProfile(v) /\ Reads("recruiter", v, version[v].code = "ready_retry")

\* request_profile_run("regenerate"): there is a profile, and the status is not
\* what it ends with.
RegenerateProfile(v) ==
    /\ ~ JobLocked /\ ~ deleted /\ Newest(v) /\ version[v].profile
    /\ MayBecome(version[v].status, "queued")
    /\ Reads("recruiter", v, FALSE)

\* _update_requisition with a description that is there
ImportAgain(v) ==
    /\ ~ deleted /\ v \in Known /\ ~ version[v].edited
    /\ Reads("import", v, FALSE)

\* recover_job_profile for an application whose screening failed, with its own
\* version or the newest one (what it does to the application is in Screening)
RecoverProfileOf(c, v) ==
    /\ application[c].status = "started" /\ v \in Known
    /\ v = application[c].version \/ (Newest(v) /\ ~ version[v].profile)
    /\ MayBecome(version[v].status, "queued")
    /\ Reads("application", v, FALSE)

\* WorkflowQueue.active_run: the active run is used again, or there will be a
\* new one.  A confirmation has written to the job by then.
FindsRun(who) ==
    LET c == command[who]
        p == version[c.version]
        new == IF c.reuse THEN c.run ELSE FreshRun(p.compiled + 1, FALSE)
        found == [c EXCEPT !.stage = "found", !.fresh = ~ p.run.active,
                           !.run = IF p.run.active THEN p.run ELSE new]
    IN /\ c.stage = "read" /\ (who = "import" => ~ JobLocked)
       /\ \/ c.to = "ready" /\ command' = [command EXCEPT ![who].stage = "found"]
          \/ /\ c.to = "queued" /\ (p.compiled < MaxRevision \/ c.reuse)
             /\ command' = [command EXCEPT ![who] = found]
       /\ UNCHANGED <<deleted, version, again, routing, application>>

\* What a command makes of a version.  A column is written if its value differs
\* from the one that was read.
Marked(p, c) ==
    LET q == [p EXCEPT !.status = IF c.status = c.to THEN @ ELSE c.to]
    IN IF c.to = "ready" THEN q
       ELSE IF c.fresh THEN [q EXCEPT !.run = c.run, !.asked = c.run.revision]
       ELSE [q EXCEPT !.asked = c.run.revision,
               !.overtaken = @ \/ ~ p.run.active \/ p.run.revision # c.run.revision]

\* The unique index keeps a second active run out: the command is rolled back.
CommandClashes(who) ==
    LET c == command[who]
    IN c.to = "queued" /\ c.fresh /\ version[c.version].run.active

CommandEnds(who) ==
    LET c == command[who]
    IN /\ c.stage = "found"
       /\ command' = [command EXCEPT ![who] = NoCommand]
       /\ version' = IF CommandClashes(who) THEN version
                     ELSE [version EXCEPT ![c.version] = Marked(@, c)]
       /\ UNCHANGED <<deleted, again, routing, application>>

(***************************************************************************)
(* The run that compiles a profile                                         *)
(***************************************************************************)
Compiling(v, step) == version[v].run.active /\ version[v].run.step = step /\ ~ deleted

\* freeze_job_version
ProfileFreezes(v) ==
    /\ Compiling(v, "freeze") /\ MayBecome(version[v].status, "processing")
    /\ SetVersion(v, [version[v] EXCEPT !.status = "processing", !.code = "none",
                                        !.run.step = "compile"])

\* compile_and_publish_profile: a revision that is there is used again.  A run
\* that was blocked finds its activities blocked again.
ProfileCompiles(v) ==
    LET p == version[v]
    IN /\ Compiling(v, "compile") /\ ~ p.run.resumed
       /\ SetVersion(v, [p EXCEPT !.run.step = "ready",
                           !.compiled = IF p.run.revision > @ THEN p.run.revision ELSE @])

\* handle_job_profile_blocked
ProfileIsBlocked(v) ==
    LET p == version[v]
    IN /\ Compiling(v, "compile") /\ ~ p.run.reuse
       /\ MayBecome(p.status, "review_required")
       /\ SetVersion(v, [p EXCEPT !.status = "review_required", !.code = "review",
                                  !.run = NoRun, !.blocked = p.run.revision])

Waiting(c, v) == application[c].status = "waiting" /\ application[c].version = v

\* Variant: the active profile is not switched.
MarkedReady(p) == [p EXCEPT !.status = "ready", !.code = "none", !.run = NoRun]

PublishedReady(p) ==
    [p EXCEPT !.status = "ready", !.code = "none", !.profile = TRUE,
              !.asked = p.run.revision, !.run = NoRun]

\* mark_ready, which is possible from every status, with
\* release_applications_waiting_for_job_profile: each of the applications that
\* wait for this version is assessed, unless this fails for it.
ProfileBecomesReady(v) ==
    /\ Compiling(v, "ready")
    /\ version' = [version EXCEPT ![v] = PublishedReady(@)]
    /\ \E started \in SUBSET {c \in Candidates : Waiting(c, v)} :
         application' = [c \in Candidates |->
           IF c \in started THEN [application[c] EXCEPT !.status = "started"]
           ELSE application[c]]
    /\ UNCHANGED <<deleted, again, command, routing>>

\* Variant: a failure of the step that makes the profile is one of the last step.
LateCode(step) == IF step = "freeze" THEN "retry" ELSE "ready_retry"

FailedProfileCode(step) == IF step = "ready" THEN "ready_retry" ELSE "retry"

FailedProfile(p) ==
    [p EXCEPT !.status = "failed", !.code = FailedProfileCode(p.run.step),
              !.run = NoRun, !.failed = @ \cup {<<p.run.revision, p.run.reuse>>}]

\* handle_job_profile_transition: if the version cannot be marked as failed
\* neither is the run, which starts over and over.
ProfileFails(v) ==
    /\ version[v].run.active /\ MayBecome(version[v].status, "failed")
    /\ SetVersion(v, FailedProfile(version[v]))

\* retry_workflow and _resume_blocked_workflow: the administrator takes up a
\* run; the version is left as it is.
AdminRetriesProfile(v) ==
    /\ ~ version[v].run.active
    /\ \E old \in version[v].failed :
         AskedAgain(v, [version[v] EXCEPT !.run = FreshRun(old[1], old[2])])
AdminResumesProfile(v) ==
    /\ ~ version[v].run.active /\ version[v].blocked # 0
    /\ AskedAgain(v, [version[v] EXCEPT !.blocked = 0,
           !.run = [active |-> TRUE, step |-> "compile", revision |-> version[v].blocked,
                    reuse |-> FALSE, resumed |-> TRUE]])

(***************************************************************************)
(* Applications                                                            *)
(***************************************************************************)
\* list_open_job_routing_versions: the newest version of a job
RoutingFreezes(c) ==
    /\ routing[c].step = "none" /\ application[c].status = "none" /\ ~ deleted
    /\ \E v \in Versions : Newest(v) /\ routing' = [routing EXCEPT ![c] =
                             [NoRouting EXCEPT !.step = "frozen", !.version = v]]
    /\ UNCHANGED <<deleted, version, again, command, application>>

\* publish_routing: a version that is not the newest any more is skipped.
RoutingReads(c) ==
    LET v == routing[c].version
    IN /\ routing[c].step = "frozen"
       /\ routing' = [routing EXCEPT ![c] =
            IF Newest(v) /\ ~ deleted
            THEN [@ EXCEPT !.step = "publishing", !.ready = version[v].profile]
            ELSE NoRouting]
       /\ UNCHANGED <<deleted, version, again, command, application>>

\* create_from_candidate, with the profile that the transaction has read
Created(c) == [status |-> IF routing[c].ready THEN "started" ELSE "waiting",
               version |-> routing[c].version]

RoutingCommits(c) ==
    /\ routing[c].step = "publishing"
    /\ application' = [application EXCEPT ![c] = Created(c)]
    /\ routing' = [routing EXCEPT ![c] = NoRouting]
    /\ UNCHANGED <<deleted, version, again, command>>

\* retry_initial_assessment
RetryAssessment(c) ==
    /\ application[c].status = "waiting" /\ version[application[c].version].profile
    /\ application' = [application EXCEPT ![c].status = "started"]
    /\ UNCHANGED <<deleted, version, again, command, routing>>

\* soft_delete, which cancels the applications that have not got far
DeleteJob ==
    /\ ~ deleted /\ Known # {} /\ ~ JobLocked
    /\ deleted' = TRUE
    /\ application' = [c \in Candidates |->
         IF application[c].status = "waiting"
         THEN [application[c] EXCEPT !.status = "closed"] ELSE application[c]]
    /\ UNCHANGED <<version, again, command, routing>>

(***************************************************************************)
(* The specification                                                       *)
(***************************************************************************)
ProfileStep(v) ==
    \/ ProfileFreezes(v) \/ ProfileCompiles(v) \/ ProfileBecomesReady(v)
    \/ ProfileFails(v) \/ ProfileIsBlocked(v)

CommandBegins(v) ==
    \/ RetryProfile(v) \/ RegenerateProfile(v) \/ ImportAgain(v)
    \/ \E c \in Candidates : RecoverProfileOf(c, v)

RoutingStep(c) == RoutingFreezes(c) \/ RoutingReads(c) \/ RoutingCommits(c)

ProfileNext ==
    \/ \E text \in Texts : Edit(text) \/ Import(text)
    \/ \E v \in Versions :
         ProfileStep(v) \/ CommandBegins(v) \/ AdminRetriesProfile(v) \/ AdminResumesProfile(v)
    \/ \E who \in Askers : FindsRun(who) \/ CommandEnds(who)
    \/ \E c \in Candidates : RoutingStep(c) \/ RetryAssessment(c)
    \/ DeleteJob

\* Workers take up every active run and its steps are attempted a bounded
\* number of times.
ProfileFairness == \A v \in Versions : WF_profileVars(ProfileStep(v))

ProfileSpec == ProfileInit /\ [][ProfileNext]_profileVars /\ ProfileFairness

(***************************************************************************)
(* Properties                                                              *)
(***************************************************************************)
\* A command that reads an active run and is overtaken by its end leaves the
\* version marked as queued though no run will ever compile it, and the list
\* offers no retry.  Then the administrator finds a run of the version to take
\* up, or the version has a profile (active_run, enqueue_for_version,
\* retry_workflow).
LostWorkIsFound ==
    \A v \in Versions :
        version[v].status \in {"queued", "processing"} /\ ~ version[v].run.active
        => \/ version[v].profile
           \/ version[v].failed # {} \/ version[v].blocked # 0

\* The list of jobs offers to retry the profile of a newest version that failed
\* or waits for a person: once no run works on it the retry is accepted,
\* whatever runs have done to the version; unless a command has marked it for a
\* run that had ended (_job_view, request_profile_run).
RetryIsAccepted ==
    \A v \in Versions :
        /\ Newest(v) /\ ~ deleted /\ version[v].status \in {"failed", "review_required"}
        /\ ~ version[v].run.active /\ ~ version[v].overtaken
        => CanRetryProfile(v)

\* A run answers those who wait for its version: the application is assessed or
\* closed, or there is a profile and it shows that its assessment has not
\* started, or the version shows that it has failed or needs a person.
RunsAnswerWaiters ==
    \A c \in Candidates :
        LET waits == application[c].status = "waiting"
            awaited == version[application[c].version]
        IN (waits /\ awaited.run.active)
           ~> ~ waits \/ awaited.profile \/ awaited.status \in {"failed", "review_required"}
=============================================================================
