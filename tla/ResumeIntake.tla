---------------------------- MODULE ResumeIntake -----------------------------
(***************************************************************************)
(* From an uploaded PDF to an application: candidates, the submissions of  *)
(* their resumes, the import run and the routing run of a submission, and  *)
(* the person who decides what a submission is when an identity is         *)
(* already on file or a run has failed.  Every retry, correction and new   *)
(* upload is a submission of its own, and the candidate points at the one  *)
(* that is current and at the profile that was published last.             *)
(*                                                                         *)
(* Of a PDF the model keeps whether its text and its structure have been   *)
(* stored; whom it matches is any choice of candidates on file.  There is  *)
(* one job, so a candidate has at most one application that is not         *)
(* deleted; what goes on in it is the subject of Screening and Interviews. *)
(* Runs are as in Screening: active until one of their steps ends them.    *)
(***************************************************************************)
EXTENDS Naturals, FiniteSets

CONSTANTS
    Candidates,     \* candidate records that uploads may create
    Nobody,         \* no candidate
    MaxSubmission,  \* bound: the number of submissions
    MaxArchived     \* bound: the number of candidates that are archived

ASSUME IntakeAssumption ==
    /\ MaxSubmission \in Nat \ {0} /\ MaxArchived \in Nat
    /\ Nobody \notin Candidates

Submissions == 1 .. MaxSubmission

VARIABLES
    submission,  \* submission |-> its row and its two runs
    candidate,   \* candidate |-> its status and its two pointers; 0 is none
    application  \* candidate |-> the application to the job

vars == <<submission, candidate, application>>

(***************************************************************************)
(* State                                                                   *)
(***************************************************************************)
RunStates == {"none", "active", "completed", "failed", "blocked", "cancelled"}
Reviews == {"none", "match", "blocked", "ambiguous", "structure"}
RoutingOutcomes == {"none", "processing", "auto_matched", "manual_selected",
                    "manual_available", "failed"}
RecoveryCodes == {"none", "source", "parse", "structure", "structure_input",
                  "publish", "routing_manual", "routing_retry", "duplicate_blocked"}

NoImport == [state |-> "none", step |-> "parse"]
NoRouting == [state |-> "none", step |-> "freeze", profile |-> 0]

\* Of a run that is over only the state matters, and the input of a routing
\* that has failed, which an administrator may run again.
ImportOver(state) == [NoImport EXCEPT !.state = state]
RoutingOver(state) == [NoRouting EXCEPT !.state = state]

Unused == [status |-> "none", owner |-> Nobody, initial |-> FALSE,
           parsed |-> FALSE, structured |-> FALSE, published |-> FALSE,
           review |-> "none", match |-> Nobody, recovery |-> "none",
           routing |-> "none", import |-> NoImport, route |-> NoRouting]

NoApplication == [state |-> "none", resume |-> 0, profile |-> 0]

TypeOK ==
    /\ submission \in [Submissions ->
         [status : {"none", "queued", "extracting", "review_required", "failed", "completed"},
          owner : Candidates \cup {Nobody}, initial : BOOLEAN,
          parsed : BOOLEAN, structured : BOOLEAN, published : BOOLEAN,
          review : Reviews, match : Candidates \cup {Nobody},
          recovery : RecoveryCodes, routing : RoutingOutcomes,
          import : [state : RunStates, step : {"parse", "structure", "publish"}],
          route : [state : RunStates, step : {"freeze", "publish"},
                   profile : 0 .. MaxSubmission]]]
    /\ candidate \in [Candidates ->
         [status : {"none", "active", "archived"},
          current : 0 .. MaxSubmission, profile : 0 .. MaxSubmission]]
    /\ application \in [Candidates ->
         [state : {"none", "open", "deleted"},
          resume : 0 .. MaxSubmission, profile : 0 .. MaxSubmission]]

NoCandidate == [status |-> "none", current |-> 0, profile |-> 0]

Init ==
    /\ submission = [s \in Submissions |-> Unused]
    /\ candidate = [c \in Candidates |-> NoCandidate]
    /\ application = [c \in Candidates |-> NoApplication]

Exists(c) == c # Nobody /\ candidate[c].status # "none"
IsCurrent(s) == LET c == submission[s].owner IN Exists(c) /\ candidate[c].current = s
Settled(s) == submission[s].status \in {"review_required", "failed", "completed"}
Processing(s) == submission[s].status \in {"queued", "extracting"}
HasApplication(c) == application[c].state = "open"

\* The next submission row.
Next1(s) == submission[s].status = "none" /\ \A r \in 1 .. s - 1 : submission[r].status # "none"

(***************************************************************************)
(* What a transaction does to the rows                                     *)
(***************************************************************************)
\* complete_submission
Completed(p) == [p EXCEPT !.status = "completed", !.review = "none", !.match = Nobody,
                          !.recovery = "none"]

\* require_review
Reviewed(p, kind, code) ==
    [p EXCEPT !.status = "review_required", !.review = kind, !.recovery = code]

\* Variant: a recovery code outlives the outcome it was for.
RoutedKeepingCode(p, outcome, code) ==
    [p EXCEPT !.routing = outcome, !.recovery = IF code = "none" THEN @ ELSE code]

\* mark_routing
Routed(p, outcome, code) ==
    [p EXCEPT !.routing = outcome,
              !.recovery = IF code # "none" THEN code
                           ELSE IF outcome \in {"failed", "manual_available"} THEN @
                           ELSE "none"]

\* Variant: the outcome is marked and no run is created.
MarkOnly(p, profile) == Routed(p, "processing", "none")

\* enqueue_submission: an active routing run is used again.
QueueRouting(p, profile) ==
    [Routed(p, "processing", "none") EXCEPT
        !.route = IF @.state = "active" THEN @
                  ELSE [state |-> "active", step |-> "freeze", profile |-> profile]]

\* create_application_from_routing: an application that is there takes on the
\* submission, otherwise a new one is created.
Applied(s, profile) == [state |-> "open", resume |-> s, profile |-> profile]

\* Variant: an adopted submission stays with the candidate of its upload.
PublishedForOwner(p, c) == [Completed(p) EXCEPT !.published = TRUE]

\* A profile of submission p, which is number s, becomes the profile of
\* candidate c, and the submission is completed.
Published(p, c) == [Completed(p) EXCEPT !.owner = c, !.published = TRUE]

\* rebuild_applications: the candidate's application takes on the new resume;
\* without one the submission is routed.
Rebuild(s, c, p) ==
    IF HasApplication(c)
    THEN /\ submission' = [submission EXCEPT ![s] = Published(p, c)]
         /\ application' = [application EXCEPT ![c].resume = s, ![c].profile = s]
    ELSE /\ submission' = [submission EXCEPT ![s] = QueueRouting(Published(p, c), s)]
         /\ UNCHANGED application

(***************************************************************************)
(* Uploads and the commands that start a new version                       *)
(***************************************************************************)
\* A row of candidate c; "kept" is what it takes over from another one.
NewSubmission(c, kept) ==
    [Unused EXCEPT !.status = "queued", !.owner = c,
                   !.parsed = "parsed" \in kept, !.structured = "structured" \in kept,
                   !.import = [NoImport EXCEPT !.state = "active"]]

\* upload_resume_document: a first upload creates the candidate.
Upload(c, s) ==
    /\ candidate[c].status = "none" /\ Next1(s)
    /\ submission' = [submission EXCEPT ![s] = [NewSubmission(c, {}) EXCEPT !.initial = TRUE]]
    /\ candidate' = [candidate EXCEPT ![c] = [NoCandidate EXCEPT !.status = "active",
                                                                 !.current = s]]
    /\ UNCHANGED application

\* A new version is registered as the candidate's current submission.
Supersede(row, s) ==
    /\ Next1(s)
    /\ submission' = [submission EXCEPT ![s] = row]
    /\ candidate' = [candidate EXCEPT ![row.owner].current = s]
    /\ UNCHANGED application

\* prepare_replacement and the upload: whatever the old one's status.
CanReplace(old) ==
    /\ Exists(submission[old].owner)
    /\ candidate[submission[old].owner].status # "archived"
Replace(old, s) == CanReplace(old) /\ Supersede(NewSubmission(submission[old].owner, {}), s)

\* request_reparse, also for retry_candidate_intake and the administrator.
CanReparse(old) ==
    IsCurrent(old) /\ Settled(old) /\ submission[old].import.state # "active"
Reparse(old, s) == CanReparse(old) /\ Supersede(NewSubmission(submission[old].owner, {}), s)

\* request_manual_correction: the parsed text is taken over.
CanCorrect(old) == IsCurrent(old) /\ Settled(old) /\ submission[old].parsed
Correct(old, s) ==
    /\ CanCorrect(old)
    /\ Supersede(NewSubmission(submission[old].owner, {"parsed"}), s)

\* request_publish_retry: so is the structure.
CanRepublish(old) ==
    /\ IsCurrent(old) /\ submission[old].status = "failed"
    /\ submission[old].structured /\ submission[old].parsed
Republish(old, s) ==
    /\ CanRepublish(old)
    /\ Supersede(NewSubmission(submission[old].owner, {"parsed", "structured"}), s)

(***************************************************************************)
(* The import workflow                                                     *)
(***************************************************************************)
Importing(s, step) ==
    submission[s].import.state = "active" /\ submission[s].import.step = step

SetSubmission(s, p) ==
    /\ submission' = [submission EXCEPT ![s] = p]
    /\ UNCHANGED <<candidate, application>>

\* The steps that freeze and parse the document.
ImportParses(s) ==
    /\ Importing(s, "parse")
    /\ SetSubmission(s, [submission[s] EXCEPT !.status = "extracting", !.parsed = TRUE,
                                              !.import.step = "structure"])

ImportStructures(s) ==
    /\ Importing(s, "structure")
    /\ SetSubmission(s, [submission[s] EXCEPT !.structured = TRUE,
                                              !.import.step = "publish"])

\* transition_resume_document_blocked: the input of the structure step is
\* insufficient.  The step keeps that outcome if an administrator resumes it.
ImportIsBlocked(s) ==
    /\ Importing(s, "structure")
    /\ SetSubmission(s, [Reviewed(submission[s], "structure", "structure_input")
                           EXCEPT !.import = ImportOver("blocked")])

\* _resume_failure_recovery_code, by step
FailureCode(step) ==
    CASE step = "parse" -> {"source", "parse"}
      [] step = "structure" -> {"structure"}
      [] step = "publish" -> {"publish"}

\* transition_resume_document
Failed(p) ==
    {[p EXCEPT !.status = "failed", !.review = "none", !.recovery = code,
               !.import = ImportOver("failed")] : code \in FailureCode(p.import.step)}

ImportFails(s) ==
    /\ submission[s].import.state = "active"
    /\ \E p \in Failed(submission[s]) : SetSubmission(s, p)

\* find_matches compares with the profiles of candidates that are not archived,
\* the submission's own candidate included.
OnFile == {c \in Candidates : candidate[c].status = "active" /\ candidate[c].profile # 0}

\* _publish_persist of a first upload: a match is left to a person, otherwise
\* the profile is published and routed.  The current pointer does not move.
\* Whether the application of a match is in progress is left open.
ImportPublishes(s) ==
    LET p == [submission[s] EXCEPT !.import = ImportOver("completed")]
    IN /\ Importing(s, "publish") /\ p.initial
       /\ \/ /\ Cardinality(OnFile) > 1
             /\ SetSubmission(s, Reviewed(p, "ambiguous", "none"))
          \/ \E c \in OnFile :
               \/ SetSubmission(s, [Reviewed(p, "match", "none") EXCEPT !.match = c])
               \/ /\ HasApplication(c)
                  /\ SetSubmission(s, [Reviewed(p, "blocked", "duplicate_blocked")
                                         EXCEPT !.match = c])
          \/ /\ submission' = [submission EXCEPT ![s] = QueueRouting(Published(p, p.owner), s)]
             /\ candidate' = [candidate EXCEPT ![p.owner].profile = s]
             /\ UNCHANGED application

\* _publish_persist of a later version: no identity is compared; candidate and
\* applications take on this version even if it is not the current one any more.
ImportRepublishes(s) ==
    LET p == [submission[s] EXCEPT !.import = ImportOver("completed")]
    IN /\ Importing(s, "publish") /\ ~ p.initial
       /\ Rebuild(s, p.owner, p)
       /\ candidate' = [candidate EXCEPT ![p.owner].current = s, ![p.owner].profile = s]

(***************************************************************************)
(* Routing                                                                 *)
(***************************************************************************)
RoutingAt(s, step) == submission[s].route.state = "active" /\ submission[s].route.step = step

\* The freezing step, which compares the profile with the one of the request,
\* and the matching step.
RoutingMatches(s) ==
    /\ RoutingAt(s, "freeze")
    /\ candidate[submission[s].owner].profile = submission[s].route.profile
    /\ SetSubmission(s, [submission[s] EXCEPT !.route.step = "publish"])

\* handle_candidate_routing_transition, of any step that is to be tried again:
\* what another has made of the outcome meanwhile is overwritten.
RoutingIsRetried(s) ==
    /\ submission[s].route.state = "active"
    /\ SetSubmission(s, Routed(submission[s], "processing", "none"))

\* handle_candidate_routing_transition, of any step
RoutingFails(s) ==
    /\ submission[s].route.state = "active"
    /\ SetSubmission(s, [Routed(submission[s], "failed", "routing_retry")
                           EXCEPT !.route.state = "failed", !.route.step = "freeze"])

\* handle_candidate_routing_blocked: the matching step gives up.
RoutingIsBlocked(s) ==
    /\ RoutingAt(s, "freeze")
    /\ candidate[submission[s].owner].profile = submission[s].route.profile
    /\ SetSubmission(s, [Routed(submission[s], "manual_available", "routing_manual")
                           EXCEPT !.route = RoutingOver("blocked")])

\* publish_routing: the job matches, or is left to a person, or both for parts.
RoutingPublishes(s) ==
    LET p == [Completed(submission[s]) EXCEPT !.route = RoutingOver("completed")]
        c == p.owner
        matched == [application EXCEPT ![c] = Applied(s, submission[s].route.profile)]
    IN /\ RoutingAt(s, "publish")
       /\ \/ /\ submission' = [submission EXCEPT ![s] = Routed(p, "auto_matched", "none")]
             /\ application' = matched
          \/ /\ submission' = [submission EXCEPT
                                 ![s] = Routed(p, "manual_available", "routing_manual")]
             /\ application' \in {application, matched}
       /\ UNCHANGED candidate

\* retry_submission
CanRetryRouting(s) ==
    /\ IsCurrent(s) /\ submission[s].status = "completed"
    /\ submission[s].routing \in {"failed", "manual_available"}
    /\ candidate[submission[s].owner].profile # 0
RetryRouting(s) ==
    /\ CanRetryRouting(s)
    /\ SetSubmission(s, QueueRouting(submission[s], candidate[submission[s].owner].profile))

\* retry_workflow: the administrator runs a failed routing again with its input.
AdminRetriesRouting(s) ==
    /\ submission[s].route.state = "failed"
    /\ SetSubmission(s, [submission[s] EXCEPT !.route.state = "active", !.route.step = "freeze"])

\* manually_create_applications: with the candidate's profile, which may be
\* that of another submission.
CanSelectJobs(s) ==
    LET p == submission[s]
    IN /\ p.status \in {"completed", "review_required"}
       /\ p.review \notin {"match", "ambiguous", "blocked"}
       /\ Exists(p.owner) /\ candidate[p.owner].profile # 0
SelectJobs(s) ==
    LET c == submission[s].owner
    IN /\ CanSelectJobs(s)
       /\ submission' = [submission EXCEPT
                           ![s] = Routed(Completed(@), "manual_selected", "none")]
       /\ application' = [application EXCEPT ![c] = Applied(s, candidate[c].profile)]
       /\ UNCHANGED candidate

(***************************************************************************)
(* Decisions about a resume whose candidate is already on file             *)
(***************************************************************************)
\* _delete_unused_placeholder deletes the candidate of the upload; the foreign
\* key of another submission makes the transaction fail.
Referenced(c, s) == \E r \in Submissions \ {s} : submission[r].owner = c
Unneeded(c) == candidate[c].profile = 0 /\ application[c].state = "none"
CanDropPlaceholder(c, s) == Unneeded(c) => ~ Referenced(c, s)
Dropped(f, c) == IF Unneeded(c) THEN [f EXCEPT ![c] = NoCandidate] ELSE f

\* decide("discard_submission"), and the same of resolve_ambiguous_duplicate,
\* which leaves a placeholder alone whose current submission is another one.
CanDiscard(s) ==
    LET p == submission[s]
    IN /\ p.status = "review_required" /\ p.review \in {"match", "blocked", "ambiguous"}
       /\ Exists(p.owner)
       /\ p.review # "ambiguous" \/ IsCurrent(s) => CanDropPlaceholder(p.owner, s)
       /\ p.review # "ambiguous" => Exists(p.match)
Discard(s) ==
    LET c == submission[s].owner
    IN /\ CanDiscard(s)
       /\ submission' = [submission EXCEPT ![s] = [Completed(@) EXCEPT !.owner = Nobody]]
       /\ candidate' = IF submission[s].review # "ambiguous" \/ IsCurrent(s)
                       THEN Dropped(candidate, c) ELSE candidate
       /\ UNCHANGED application

\* decide("replace_resume"): the submission goes over to the candidate on file.
CanAdopt(s) ==
    LET p == submission[s]
    IN /\ p.status = "review_required" /\ p.review = "match"
       /\ Exists(p.owner) /\ Exists(p.match) /\ p.structured
       /\ p.owner # p.match => CanDropPlaceholder(p.owner, s)
Adopt(s) ==
    LET p == submission[s]
        adopted == [candidate EXCEPT ![p.match].current = s, ![p.match].profile = s]
    IN /\ CanAdopt(s)
       /\ Rebuild(s, p.match, p)
       /\ candidate' = IF p.owner = p.match THEN adopted ELSE Dropped(adopted, p.owner)

(***************************************************************************)
(* The end of a candidate                                                  *)
(***************************************************************************)
CancelImport(run) == IF run.state = "active" THEN ImportOver("cancelled") ELSE run
CancelRouting(run) == IF run.state = "active" THEN RoutingOver("cancelled") ELSE run

\* archive
Archive(c) ==
    /\ candidate[c].status = "active"
    /\ Cardinality({d \in Candidates : candidate[d].status = "archived"}) < MaxArchived
    /\ candidate' = [candidate EXCEPT ![c].status = "archived"]
    /\ application' = [application EXCEPT ![c].state = IF HasApplication(c) THEN "deleted" ELSE @]
    /\ submission' = [s \in Submissions |->
                        IF submission[s].owner = c
                        THEN [submission[s] EXCEPT !.import = CancelImport(@),
                                                   !.route = CancelRouting(@)]
                        ELSE submission[s]]

(***************************************************************************)
(* The specification                                                       *)
(***************************************************************************)
NewVersion(old, s) ==
    Replace(old, s) \/ Reparse(old, s) \/ Correct(old, s) \/ Republish(old, s)

ImportStep(s) ==
    \/ ImportParses(s) \/ ImportStructures(s) \/ ImportIsBlocked(s) \/ ImportFails(s)
    \/ ImportPublishes(s) \/ ImportRepublishes(s)

RoutingStep(s) ==
    \/ RoutingMatches(s) \/ RoutingIsRetried(s) \/ RoutingFails(s)
    \/ RoutingIsBlocked(s) \/ RoutingPublishes(s)

Decision(s) ==
    RetryRouting(s) \/ AdminRetriesRouting(s) \/ SelectJobs(s) \/ Discard(s) \/ Adopt(s)

Next ==
    \/ \E s \in Submissions :
         \/ \E c \in Candidates : Upload(c, s)
         \/ \E old \in Submissions : NewVersion(old, s)
         \/ ImportStep(s) \/ RoutingStep(s) \/ Decision(s)
    \/ \E c \in Candidates : Archive(c)

Spec == Init /\ [][Next]_vars

(***************************************************************************)
(* What the interface offers                                               *)
(***************************************************************************)
\* resume_recovery_plan
Plan(p) ==
    CASE p.recovery = "source" -> {"replace"}
      [] p.recovery = "parse" -> {"reparse", "replace"}
      [] p.recovery \in {"structure", "structure_input"} ->
           {"reparse", "replace"} \cup {a \in {"correct"} : p.parsed}
      [] p.recovery = "publish" ->
           {"reparse", "replace"} \cup {a \in {"correct"} : p.parsed}
               \cup {a \in {"republish"} : p.parsed /\ p.structured}
      [] p.recovery \in {"routing_manual", "routing_retry"} -> {"retry_routing", "select_jobs"}
      [] p.recovery = "duplicate_blocked" -> {"discard", "replace"}
      [] OTHER -> {}

\* _available_action_codes, and _duplicate_target_view for "adopt"
Offered(p) ==
    LET general == IF p.status \in {"completed", "review_required", "failed"}
                      /\ p.recovery = "none"
                   THEN {"reparse", "replace"} \cup {a \in {"correct"} : p.parsed} ELSE {}
        special == CASE p.status = "completed" ->
                          {"select_jobs"} \cup {a \in {"correct"} : p.parsed}
                     [] p.status = "review_required" /\ p.review = "match" ->
                          {"discard"} \cup {a \in {"adopt"} :
                              Exists(p.match) /\ candidate[p.match].status # "archived"}
                     [] p.status = "review_required" /\ p.review = "ambiguous" ->
                          {"discard", "resolve"}
                     [] p.status = "review_required" /\ p.review = "blocked" -> {"discard"}
                     [] OTHER -> {}
    IN Plan(p) \cup general \cup special

\* What can be carried out; the two decisions that resolve an ambiguous match
\* to a candidate are always refused.
Possible(s) ==
    {a \in {"replace"} : CanReplace(s)} \cup {a \in {"reparse"} : CanReparse(s)}
    \cup {a \in {"correct"} : CanCorrect(s)} \cup {a \in {"republish"} : CanRepublish(s)}
    \cup {a \in {"retry_routing"} : CanRetryRouting(s)}
    \cup {a \in {"select_jobs"} : CanSelectJobs(s)}
    \cup {a \in {"discard"} : CanDiscard(s)} \cup {a \in {"adopt"} : CanAdopt(s)}

(***************************************************************************)
(* Properties                                                              *)
(***************************************************************************)
\* What the list of resumes offers for a candidate's current submission can be
\* carried out, whatever runs and people have done to it before: no button
\* leads to a refusal.  Resolving an ambiguous match is left out, see Possible.
OfferedIsPossible ==
    \A s \in Submissions :
        IsCurrent(s) /\ candidate[submission[s].owner].status # "archived"
            => Offered(submission[s]) \ {"resolve"} \subseteq Possible(s)

\* A submission that shows as being processed or routed is being worked on:
\* it has an active run, or its candidate has been archived.
ProcessingHasRun ==
    \A s \in Submissions :
        LET p == submission[s]
            archived == Exists(p.owner) /\ candidate[p.owner].status = "archived"
        IN /\ Processing(s) => p.import.state = "active" \/ archived
           /\ p.routing = "processing" => p.route.state = "active" \/ archived

\* However submissions overtake each other and change their owner, a candidate
\* and its application only ever refer to submissions of that candidate, and
\* as a profile only to one that was published.
ReferencesAgree ==
    \A c \in Candidates :
        /\ \A s \in {candidate[c].current, candidate[c].profile,
                     application[c].resume, application[c].profile} \ {0} :
             submission[s].owner = c
        /\ \A s \in {candidate[c].profile, application[c].profile} \ {0} :
             submission[s].published
=============================================================================
