------------------------- MODULE ResumeIntakeProofs --------------------------
(* What holds of ResumeIntake for any number of candidates, submissions and  *)
(* archived candidates.                                                      *)
EXTENDS ResumeIntake, TLAPS

(***************************************************************************)
(* The inductive invariant                                                 *)
(***************************************************************************)
ImportRuns == [state : RunStates, step : {"parse", "structure", "publish"}]
RoutingRuns == [state : RunStates, step : {"freeze", "publish"}, profile : 0 .. MaxSubmission]
SubmissionRecords ==
    [status : {"none", "queued", "extracting", "review_required", "failed", "completed"},
     owner : Candidates \cup {Nobody}, initial : BOOLEAN,
     parsed : BOOLEAN, structured : BOOLEAN, published : BOOLEAN,
     review : Reviews, match : Candidates \cup {Nobody},
     recovery : RecoveryCodes, routing : RoutingOutcomes,
     import : ImportRuns, route : RoutingRuns]
CandidateRecords == [status : {"none", "active", "archived"},
                     current : 0 .. MaxSubmission, profile : 0 .. MaxSubmission]
ApplicationRecords == [state : {"none", "open", "deleted"},
                       resume : 0 .. MaxSubmission, profile : 0 .. MaxSubmission]

\* Of one submission: an import at work shows as such; what is published, routed
\* or under review for its identity is so in the right status.
Row(p) ==
    /\ p.status = "none" => p = Unused
    /\ p.import.state = "active" => p.status \in {"queued", "extracting"} /\ p.owner # Nobody
    /\ p.published => p.status = "completed" /\ p.owner # Nobody
    /\ p.route.state # "none" => p.published
    /\ p.routing \notin {"none", "manual_selected"} => p.published
    /\ p.review # "none" => p.status = "review_required"
    /\ p.review \in {"match", "ambiguous", "blocked"} => p.initial
    /\ p.route.state \in {"active", "failed"} <=> p.route.profile # 0

Rows == \A s \in Submissions : Row(submission[s])

\* An upload that is not published yet.
Fresh(s) == submission[s].initial /\ ~ submission[s].published

\* Owners exist; a candidate has one fresh upload at most, and while that is the
\* current submission, the candidate has no profile.  Whoever has an application
\* or a published submission has a profile.
Owners ==
    /\ \A s \in Submissions : submission[s].owner # Nobody =>
         candidate[submission[s].owner].status # "none"
    /\ \A r, s \in Submissions :
         Fresh(r) /\ Fresh(s) /\ submission[r].owner # Nobody
         /\ submission[r].owner = submission[s].owner => r = s
    /\ \A c \in Candidates : candidate[c].current # 0 /\ Fresh(candidate[c].current)
                             => candidate[c].profile = 0
    /\ \A s \in Submissions : submission[s].published =>
         candidate[submission[s].owner].profile # 0
    /\ \A c \in Candidates : application[c].state # "none" => candidate[c].profile # 0

\* A profile to be routed belongs to the candidate; a resume that an application
\* has taken on is completed.
Links ==
    /\ \A s \in Submissions : submission[s].route.profile # 0 =>
         /\ submission[submission[s].route.profile].owner = submission[s].owner
         /\ submission[submission[s].route.profile].published
    /\ \A c \in Candidates : application[c].resume # 0 =>
         submission[application[c].resume].status = "completed"

IInv == TypeOK /\ Rows /\ Owners /\ Links /\ ReferencesAgree /\ ProcessingHasRun

(***************************************************************************)
(* Rows                                                                    *)
(***************************************************************************)
LEMMA Bounds ==
  /\ Submissions \subseteq 1 .. MaxSubmission /\ 0 \notin Submissions
  /\ \A s \in 0 .. MaxSubmission : s # 0 => s \in Submissions
  /\ \A s \in Submissions : s \in 0 .. MaxSubmission
  /\ 0 \in 0 .. MaxSubmission
BY IntakeAssumption DEF Submissions

LEMMA TypeIs ==
  TypeOK <=> /\ submission \in [Submissions -> SubmissionRecords]
             /\ candidate \in [Candidates -> CandidateRecords]
             /\ application \in [Candidates -> ApplicationRecords]
BY DEF TypeOK, SubmissionRecords, ImportRuns, RoutingRuns, CandidateRecords, ApplicationRecords

LEMMA OverTyped ==
  ASSUME NEW state \in RunStates
  PROVE  /\ ImportOver(state) \in ImportRuns /\ ImportOver(state).state = state
         /\ RoutingOver(state) \in RoutingRuns /\ RoutingOver(state).state = state
         /\ RoutingOver(state).profile = 0
BY Bounds DEF ImportOver, RoutingOver, NoImport, NoRouting, ImportRuns, RoutingRuns, RunStates

\* What the row operators do to the fields that matter here.
LEMMA CompletedRow ==
  ASSUME NEW p \in SubmissionRecords
  PROVE  LET q == Completed(p)
         IN /\ q \in SubmissionRecords /\ q.status = "completed" /\ q.review = "none"
            /\ q.owner = p.owner /\ q.initial = p.initial /\ q.published = p.published
            /\ q.import = p.import /\ q.route = p.route /\ q.routing = p.routing
BY DEF Completed, SubmissionRecords, Reviews, RecoveryCodes

LEMMA ReviewedRow ==
  ASSUME NEW p \in SubmissionRecords, NEW kind \in Reviews, NEW code \in RecoveryCodes
  PROVE  LET q == Reviewed(p, kind, code)
         IN /\ q \in SubmissionRecords /\ q.status = "review_required" /\ q.review = kind
            /\ q.owner = p.owner /\ q.initial = p.initial /\ q.published = p.published
            /\ q.import = p.import /\ q.route = p.route /\ q.routing = p.routing
BY DEF Reviewed, SubmissionRecords

LEMMA RoutedRow ==
  ASSUME NEW p \in SubmissionRecords, NEW outcome \in RoutingOutcomes,
         NEW code \in RecoveryCodes
  PROVE  LET q == Routed(p, outcome, code)
         IN /\ q \in SubmissionRecords /\ q.routing = outcome
            /\ q.status = p.status /\ q.review = p.review
            /\ q.owner = p.owner /\ q.initial = p.initial /\ q.published = p.published
            /\ q.import = p.import /\ q.route = p.route
<1> DEFINE left == IF code # "none" THEN code
                   ELSE IF outcome \in {"failed", "manual_available"} THEN p.recovery
                   ELSE "none"
<1>1. left \in RecoveryCodes
  BY DEF SubmissionRecords, RecoveryCodes
<1>2. Routed(p, outcome, code) = [p EXCEPT !.routing = outcome, !.recovery = left]
  BY DEF Routed
<1> HIDE DEF left
<1> QED
  BY <1>1, <1>2 DEF SubmissionRecords

LEMMA QueuedRow ==
  ASSUME NEW p \in SubmissionRecords, NEW profile \in Submissions
  PROVE  LET q == QueueRouting(p, profile)
         IN /\ q \in SubmissionRecords /\ q.routing = "processing"
            /\ q.status = p.status /\ q.review = p.review
            /\ q.owner = p.owner /\ q.initial = p.initial /\ q.published = p.published
            /\ q.import = p.import /\ q.route.state = "active"
            /\ q.route.profile = IF p.route.state = "active" THEN p.route.profile ELSE profile
<1> DEFINE r == Routed(p, "processing", "none")
           new == [state |-> "active", step |-> "freeze", profile |-> profile]
           run == IF r.route.state = "active" THEN r.route ELSE new
           q == [r EXCEPT !.route = run]
<1>1. /\ r \in SubmissionRecords /\ r.routing = "processing"
      /\ r.status = p.status /\ r.review = p.review
      /\ r.owner = p.owner /\ r.initial = p.initial /\ r.published = p.published
      /\ r.import = p.import /\ r.route = p.route
  BY RoutedRow DEF RoutingOutcomes, RecoveryCodes
<1>2. new \in RoutingRuns /\ r.route \in RoutingRuns
  BY <1>1, Bounds DEF RoutingRuns, RunStates, SubmissionRecords
<1>3. run \in RoutingRuns /\ run.state = "active"
      /\ run.profile = IF p.route.state = "active" THEN p.route.profile ELSE profile
  BY <1>1, <1>2
<1>4. QueueRouting(p, profile) = q
  BY DEF QueueRouting
<1> HIDE DEF r, run
<1>5. /\ q \in SubmissionRecords /\ q.route = run /\ q.routing = r.routing
      /\ q.status = r.status /\ q.review = r.review /\ q.import = r.import
      /\ q.owner = r.owner /\ q.initial = r.initial /\ q.published = r.published
  BY <1>1, <1>3 DEF SubmissionRecords
<1> QED
  BY <1>1, <1>3, <1>4, <1>5

LEMMA PublishedRow ==
  ASSUME NEW p \in SubmissionRecords, NEW c \in Candidates
  PROVE  LET q == Published(p, c)
         IN /\ q \in SubmissionRecords /\ q.status = "completed" /\ q.review = "none"
            /\ q.owner = c /\ q.initial = p.initial /\ q.published
            /\ q.import = p.import /\ q.route = p.route /\ q.routing = p.routing
<1>1. /\ Completed(p) \in SubmissionRecords /\ Completed(p).status = "completed"
      /\ Completed(p).review = "none" /\ Completed(p).initial = p.initial
      /\ Completed(p).import = p.import /\ Completed(p).route = p.route
      /\ Completed(p).routing = p.routing
  BY CompletedRow
<1> DEFINE r == Completed(p)
<1> HIDE DEF r
<1> QED
  BY <1>1 DEF Published, r, SubmissionRecords

(***************************************************************************)
(* Steps that change one row and neither its owner nor its profile         *)
(***************************************************************************)
\* What shows as being processed or routed has an active run.
Alive(p) ==
    /\ p.status \in {"queued", "extracting"} => p.import.state = "active"
    /\ p.routing = "processing" => p.route.state = "active"

\* Row q in place of row p.
Follows(p, q) ==
    /\ q \in SubmissionRecords /\ Row(q) /\ Alive(q)
    /\ q.owner = p.owner /\ q.initial = p.initial /\ q.published = p.published
    /\ p.status = "completed" => q.status = "completed"

\* Submission x is one that candidate c has published.
IsProfileOf(x, c) ==
    x \in Submissions /\ submission[x].published /\ submission[x].owner = c

LEMMA RowMoves ==
  ASSUME IInv, NEW s \in Submissions, NEW q, Follows(submission[s], q),
         q.route.profile # 0 => IsProfileOf(q.route.profile, q.owner),
         submission' = [submission EXCEPT ![s] = q], UNCHANGED candidate,
         \/ UNCHANGED application
         \/ /\ q.status = "completed" /\ q.owner \in Candidates
            /\ candidate[q.owner].profile # 0
            /\ \E x \in Submissions : /\ IsProfileOf(x, q.owner)
                                     /\ application' = [application EXCEPT ![q.owner] =
                                                           Applied(s, x)]
  PROVE  IInv'
<1>1. /\ submission \in [Submissions -> SubmissionRecords]
      /\ candidate \in [Candidates -> CandidateRecords]
      /\ application \in [Candidates -> ApplicationRecords]
  BY TypeIs DEF IInv
<1>2. submission' \in [Submissions -> SubmissionRecords]
  BY <1>1 DEF Follows
<1>3. application' \in [Candidates -> ApplicationRecords]
  <2>1. \A x \in Submissions : Applied(s, x) \in ApplicationRecords
    BY Bounds DEF Applied, ApplicationRecords
  <2> QED
    BY <1>1, <2>1
<1>4. TypeOK'
  BY <1>1, <1>2, <1>3
     DEF TypeOK, SubmissionRecords, ImportRuns, RoutingRuns, CandidateRecords, ApplicationRecords
<1>5. /\ \A r \in Submissions : r # s => submission'[r] = submission[r]
      /\ submission'[s] = q
      /\ q.owner = submission[s].owner /\ q.initial = submission[s].initial
      /\ q.published = submission[s].published
      /\ submission[s].status = "completed" => q.status = "completed"
  BY <1>1 DEF Follows
<1>6. \A r \in Submissions : /\ submission'[r].owner = submission[r].owner
                             /\ submission'[r].initial = submission[r].initial
                             /\ submission'[r].published = submission[r].published
                             /\ submission[r].status = "completed" =>
                                  submission'[r].status = "completed"
  BY <1>5
<1>7. \A r \in Submissions : Fresh(r)' <=> Fresh(r)
  BY <1>6 DEF Fresh
<1>8. \A c \in Candidates :
         \/ application'[c] = application[c]
         \/ /\ c = q.owner /\ submission'[s].status = "completed" /\ candidate[c].profile # 0
            /\ \E x \in Submissions : IsProfileOf(x, c) /\ application'[c] = Applied(s, x)
  BY <1>1, <1>5
<1>9. Rows'
  BY <1>5 DEF Rows, Follows, IInv
<1>10. Owners'
  <2>1. \A c \in Candidates : candidate[c].current # 0 => candidate[c].current \in Submissions
    BY <1>1, Bounds DEF CandidateRecords
  <2>2. \A c \in Candidates : application'[c].state # "none" => candidate[c].profile # 0
    BY <1>8 DEF IInv, Owners
  <2> QED
    BY <1>6, <1>7, <2>1, <2>2 DEF IInv, Owners
<1>11. Links'
  <2>1. \A r \in Submissions : submission'[r].route.profile # 0 =>
           IsProfileOf(submission'[r].route.profile, submission[r].owner)
    <3>1. \A r \in Submissions : submission[r].route.profile \in 0 .. MaxSubmission
      BY <1>1 DEF SubmissionRecords, RoutingRuns
    <3> QED
      BY <3>1, <1>5, Bounds DEF IInv, Links, IsProfileOf
  <2>2. \A c \in Candidates : application'[c].resume # 0 =>
           submission'[application'[c].resume].status = "completed"
    <3>1. \A c \in Candidates : application[c].resume \in 0 .. MaxSubmission
      BY <1>1 DEF ApplicationRecords
    <3>2. ASSUME NEW c \in Candidates, application'[c].resume # 0
          PROVE  submission'[application'[c].resume].status = "completed"
      <4>1. CASE application'[c] = application[c]
        BY <4>1, <3>1, <3>2, <1>6, Bounds DEF IInv, Links
      <4>2. CASE \E x \in Submissions : application'[c] = Applied(s, x)
                 /\ submission'[s].status = "completed"
        BY <4>2 DEF Applied
      <4> QED
        BY <4>1, <4>2, <1>8
    <3> QED
      BY <3>2
  <2> QED
    BY <1>6, <2>1, <2>2 DEF Links, IsProfileOf
<1>12. ReferencesAgree'
  <2>1. \A c \in Candidates : /\ candidate[c].current \in 0 .. MaxSubmission
                              /\ candidate[c].profile \in 0 .. MaxSubmission
                              /\ application[c].resume \in 0 .. MaxSubmission
                              /\ application[c].profile \in 0 .. MaxSubmission
    BY <1>1 DEF CandidateRecords, ApplicationRecords
  <2> SUFFICES ASSUME NEW c \in Candidates
               PROVE  /\ \A t \in {candidate[c].current, candidate[c].profile,
                              application'[c].resume, application'[c].profile} \ {0} :
                           submission'[t].owner = c
                      /\ \A t \in {candidate[c].profile, application'[c].profile} \ {0} :
                           submission'[t].published
    BY DEF ReferencesAgree
  <2>2. CASE application'[c] = application[c]
    BY <1>6, <2>1, <2>2, Bounds DEF IInv, ReferencesAgree
  <2>3. CASE /\ c = q.owner
             /\ \E x \in Submissions : IsProfileOf(x, c) /\ application'[c] = Applied(s, x)
    BY <1>5, <1>6, <2>1, <2>3, Bounds DEF IInv, ReferencesAgree, Applied, IsProfileOf
  <2> QED
    BY <1>8, <2>2, <2>3
<1>13. ProcessingHasRun'
  <2> SUFFICES ASSUME NEW r \in Submissions
               PROVE  LET p == submission'[r]
                          archived == p.owner # Nobody /\ candidate[p.owner].status # "none"
                                      /\ candidate[p.owner].status = "archived"
                      IN /\ p.status \in {"queued", "extracting"}
                              => p.import.state = "active" \/ archived
                         /\ p.routing = "processing" => p.route.state = "active" \/ archived
    BY DEF ProcessingHasRun, Processing, Exists
  <2>1. CASE r = s
    BY <1>5, <2>1 DEF Follows, Alive
  <2>2. CASE r # s
    BY <1>5, <2>2 DEF IInv, ProcessingHasRun, Processing, Exists
  <2> QED
    BY <2>1, <2>2
<1> QED
  BY <1>4, <1>9, <1>10, <1>11, <1>12, <1>13 DEF IInv

LEMMA RowFacts ==
  ASSUME IInv, NEW s \in Submissions
  PROVE  /\ submission[s] \in SubmissionRecords /\ Row(submission[s])
         /\ submission[s].import \in ImportRuns /\ submission[s].route \in RoutingRuns
         /\ submission[s].route.profile # 0 =>
              IsProfileOf(submission[s].route.profile, submission[s].owner)
<1>1. submission[s] \in SubmissionRecords
  BY TypeIs DEF IInv
<1>2. submission[s].route \in RoutingRuns /\ submission[s].import \in ImportRuns
  BY <1>1 DEF SubmissionRecords
<1>3. submission[s].route.profile \in 0 .. MaxSubmission
  BY <1>2 DEF RoutingRuns
<1> QED
  BY <1>1, <1>2, <1>3, Bounds DEF IInv, Rows, Links, IsProfileOf

\* While it is imported, a submission is neither published nor routed.
LEMMA ImportFacts ==
  ASSUME IInv, NEW s \in Submissions, submission[s].import.state = "active"
  PROVE  LET p == submission[s]
         IN /\ p.status \in {"queued", "extracting"} /\ p.owner \in Candidates
            /\ ~ p.published /\ p.route.state = "none" /\ p.route.profile = 0
            /\ p.routing \in {"none", "manual_selected"} /\ p.review = "none"
BY RowFacts DEF Row, SubmissionRecords

\* A routed submission is published.
LEMMA RouteFacts ==
  ASSUME IInv, NEW s \in Submissions, submission[s].route.state # "none"
  PROVE  LET p == submission[s]
         IN /\ p.status = "completed" /\ p.owner \in Candidates /\ p.published
            /\ p.import.state # "active" /\ p.review = "none"
BY RowFacts DEF Row, SubmissionRecords

LEMMA NewRunTyped ==
  ASSUME NEW run \in ImportRuns, NEW step \in {"parse", "structure", "publish"}
  PROVE  /\ [run EXCEPT !.step = step] \in ImportRuns
         /\ [run EXCEPT !.step = step].state = run.state
BY DEF ImportRuns

\* The steps of an import that only work on the submission.
LEMMA ImportWorks ==
  ASSUME IInv, NEW s \in Submissions, ImportParses(s) \/ ImportStructures(s)
  PROVE  IInv'
<1> DEFINE p == submission[s]
<1>1. p \in SubmissionRecords /\ Row(p) /\ p.import \in ImportRuns
  BY RowFacts
<1>2. p.import.state = "active"
  BY DEF ImportParses, ImportStructures, Importing
<1>3. CASE ImportParses(s)
  <2> DEFINE run == [p.import EXCEPT !.step = "structure"]
             q == [p EXCEPT !.status = "extracting", !.parsed = TRUE, !.import = run]
  <2>1. run \in ImportRuns /\ run.state = "active"
    BY <1>1, <1>2, NewRunTyped
  <2>2. submission' = [submission EXCEPT ![s] = q] /\ UNCHANGED <<candidate, application>>
    BY <1>3 DEF ImportParses, SetSubmission
  <2> HIDE DEF run
  <2>3. /\ q \in SubmissionRecords /\ q.status = "extracting" /\ q.import.state = "active"
        /\ q.owner = p.owner /\ q.initial = p.initial /\ q.published = p.published
        /\ q.route = p.route /\ q.routing = p.routing /\ q.review = p.review
    BY <1>1, <2>1 DEF SubmissionRecords
  <2> HIDE DEF q
  <2>4. Follows(p, q)
    BY <1>1, <1>2, <2>3, ImportFacts DEF Follows, Row, Alive
  <2> QED
    BY <2>2, <2>3, <2>4, RowFacts, RowMoves
<1>4. CASE ImportStructures(s)
  <2> DEFINE run == [p.import EXCEPT !.step = "publish"]
             q == [p EXCEPT !.structured = TRUE, !.import = run]
  <2>1. run \in ImportRuns /\ run.state = "active"
    BY <1>1, <1>2, NewRunTyped
  <2>2. submission' = [submission EXCEPT ![s] = q] /\ UNCHANGED <<candidate, application>>
    BY <1>4 DEF ImportStructures, SetSubmission
  <2> HIDE DEF run
  <2>3. /\ q \in SubmissionRecords /\ q.status = p.status /\ q.import.state = "active"
        /\ q.owner = p.owner /\ q.initial = p.initial /\ q.published = p.published
        /\ q.route = p.route /\ q.routing = p.routing /\ q.review = p.review
    BY <1>1, <2>1 DEF SubmissionRecords
  <2> HIDE DEF q
  <2>4. Follows(p, q)
    BY <1>1, <1>2, <2>3, ImportFacts DEF Follows, Row, Alive
  <2> QED
    BY <2>2, <2>3, <2>4, RowFacts, RowMoves
<1> QED
  BY <1>3, <1>4

LEMMA OverRow ==
  ASSUME NEW p \in SubmissionRecords, NEW state \in RunStates
  PROVE  LET q == [p EXCEPT !.import = ImportOver(state)]
         IN /\ q \in SubmissionRecords /\ q.import.state = state /\ q.status = p.status
            /\ q.owner = p.owner /\ q.initial = p.initial /\ q.published = p.published
            /\ q.route = p.route /\ q.routing = p.routing /\ q.review = p.review
BY OverTyped DEF SubmissionRecords

\* The ends of an import that leave the submission to a person.
LEMMA ImportStops ==
  ASSUME IInv, NEW s \in Submissions, ImportIsBlocked(s) \/ ImportFails(s)
  PROVE  IInv'
<1> DEFINE p == submission[s]
<1>1. p \in SubmissionRecords /\ Row(p) /\ p.import \in ImportRuns
  BY RowFacts
<1>2. p.import.state = "active"
  BY DEF ImportIsBlocked, ImportFails, Importing
<1>3. CASE ImportIsBlocked(s)
  <2> DEFINE r == Reviewed(p, "structure", "structure_input")
             q == [r EXCEPT !.import = ImportOver("blocked")]
  <2>1. /\ r \in SubmissionRecords /\ r.status = "review_required" /\ r.review = "structure"
        /\ r.owner = p.owner /\ r.initial = p.initial /\ r.published = p.published
        /\ r.route = p.route /\ r.routing = p.routing
    BY <1>1, ReviewedRow DEF Reviews, RecoveryCodes
  <2> HIDE DEF r
  <2>2. /\ q \in SubmissionRecords /\ q.import.state = "blocked" /\ q.status = r.status
        /\ q.owner = r.owner /\ q.initial = r.initial /\ q.published = r.published
        /\ q.route = r.route /\ q.routing = r.routing /\ q.review = r.review
    BY <2>1, OverRow DEF RunStates
  <2>3. submission' = [submission EXCEPT ![s] = q] /\ UNCHANGED <<candidate, application>>
    BY <1>3 DEF ImportIsBlocked, SetSubmission, r
  <2> HIDE DEF q
  <2>4. Follows(p, q)
    BY <1>2, <2>1, <2>2, ImportFacts DEF Follows, Row, Alive
  <2> QED
    BY <2>1, <2>2, <2>3, <2>4, RowFacts, RowMoves
<1>4. CASE ImportFails(s)
  <2>1. PICK code \in FailureCode(p.import.step) :
           LET q == [p EXCEPT !.status = "failed", !.review = "none", !.recovery = code,
                              !.import = ImportOver("failed")]
           IN submission' = [submission EXCEPT ![s] = q] /\ UNCHANGED <<candidate, application>>
    BY <1>4 DEF ImportFails, Failed, SetSubmission
  <2> DEFINE q == [p EXCEPT !.status = "failed", !.review = "none", !.recovery = code,
                            !.import = ImportOver("failed")]
  <2>2. code \in RecoveryCodes
    BY <1>1 DEF FailureCode, RecoveryCodes, ImportRuns
  <2>3. /\ q \in SubmissionRecords /\ q.import.state = "failed" /\ q.status = "failed"
        /\ q.owner = p.owner /\ q.initial = p.initial /\ q.published = p.published
        /\ q.route = p.route /\ q.routing = p.routing /\ q.review = "none"
    BY <1>1, <2>2, OverTyped DEF SubmissionRecords, RunStates, Reviews
  <2> HIDE DEF q
  <2>4. Follows(p, q)
    BY <1>1, <1>2, <2>3, ImportFacts DEF Follows, Row, Alive
  <2>5. submission' = [submission EXCEPT ![s] = q] /\ UNCHANGED <<candidate, application>>
    BY <2>1 DEF q
  <2> QED
    BY <2>3, <2>4, <2>5, RowFacts, RowMoves
<1> QED
  BY <1>3, <1>4

\* A match on file leaves the submission to a person.
LEMMA ImportFindsMatches ==
  ASSUME IInv, NEW s \in Submissions, Importing(s, "publish"), submission[s].initial,
         NEW kind \in {"match", "ambiguous", "blocked"}, NEW code \in RecoveryCodes,
         NEW c \in Candidates \cup {Nobody},
         LET p == [submission[s] EXCEPT !.import = ImportOver("completed")]
         IN SetSubmission(s, [Reviewed(p, kind, code) EXCEPT !.match = c])
  PROVE  IInv'
<1> DEFINE p == submission[s]
           o == [p EXCEPT !.import = ImportOver("completed")]
           r == Reviewed(o, kind, code)
           q == [r EXCEPT !.match = c]
<1>1. p \in SubmissionRecords /\ Row(p) /\ p.import.state = "active"
  BY RowFacts DEF Importing
<1>2. /\ o \in SubmissionRecords /\ o.import.state = "completed"
      /\ o.owner = p.owner /\ o.initial = p.initial /\ o.published = p.published
      /\ o.route = p.route /\ o.routing = p.routing
  BY <1>1, OverRow DEF RunStates
<1>3. submission' = [submission EXCEPT ![s] = q] /\ UNCHANGED <<candidate, application>>
  BY DEF SetSubmission
<1> HIDE DEF o
<1>4. kind \in Reviews
  BY DEF Reviews
<1>5. /\ r \in SubmissionRecords /\ r.status = "review_required" /\ r.review = kind
      /\ r.owner = o.owner /\ r.initial = o.initial /\ r.published = o.published
      /\ r.import = o.import /\ r.route = o.route /\ r.routing = o.routing
  BY <1>2, <1>4, ReviewedRow
<1> HIDE DEF r
<1>6. /\ q \in SubmissionRecords /\ q.status = r.status /\ q.review = r.review
      /\ q.owner = r.owner /\ q.initial = r.initial /\ q.published = r.published
      /\ q.import = r.import /\ q.route = r.route /\ q.routing = r.routing
  BY <1>5 DEF SubmissionRecords
<1> HIDE DEF q
<1>7. Follows(p, q)
  BY <1>1, <1>2, <1>5, <1>6, ImportFacts DEF Follows, Row, Alive
<1> QED
  BY <1>2, <1>3, <1>5, <1>6, <1>7, RowFacts, RowMoves

\* The steps of a routing that only work on the submission.
LEMMA RoutingWorks ==
  ASSUME IInv, NEW s \in Submissions,
         RoutingMatches(s) \/ RoutingIsRetried(s) \/ RoutingFails(s)
  PROVE  IInv'
<1> DEFINE p == submission[s]
<1>1. p \in SubmissionRecords /\ Row(p) /\ p.route \in RoutingRuns /\ p.route.state = "active"
  BY RowFacts DEF RoutingMatches, RoutingIsRetried, RoutingFails, RoutingAt
<1>2. CASE RoutingMatches(s)
  <2> DEFINE run == [p.route EXCEPT !.step = "publish"]
             q == [p EXCEPT !.route = run]
  <2>1. run \in RoutingRuns /\ run.state = "active" /\ run.profile = p.route.profile
    BY <1>1 DEF RoutingRuns
  <2>2. submission' = [submission EXCEPT ![s] = q] /\ UNCHANGED <<candidate, application>>
    BY <1>2 DEF RoutingMatches, SetSubmission
  <2> HIDE DEF run
  <2>3. /\ q \in SubmissionRecords /\ q.route = run /\ q.status = p.status
        /\ q.owner = p.owner /\ q.initial = p.initial /\ q.published = p.published
        /\ q.import = p.import /\ q.routing = p.routing /\ q.review = p.review
    BY <1>1, <2>1 DEF SubmissionRecords
  <2> HIDE DEF q
  <2>4. Follows(p, q)
    BY <1>1, <2>1, <2>3, RouteFacts DEF Follows, Row, Alive
  <2> QED
    BY <2>1, <2>2, <2>3, <2>4, RowFacts, RowMoves
<1>3. CASE RoutingFails(s)
  <2> DEFINE r == Routed(p, "failed", "routing_retry")
             run == [r.route EXCEPT !.state = "failed", !.step = "freeze"]
             q == [r EXCEPT !.route = run]
  <2>1. /\ r \in SubmissionRecords /\ r.routing = "failed"
        /\ r.status = p.status /\ r.review = p.review
        /\ r.owner = p.owner /\ r.initial = p.initial /\ r.published = p.published
        /\ r.import = p.import /\ r.route = p.route
    BY <1>1, RoutedRow DEF RoutingOutcomes, RecoveryCodes
  <2>2. submission' = [submission EXCEPT ![s] = q] /\ UNCHANGED <<candidate, application>>
    BY <1>3 DEF RoutingFails, SetSubmission
  <2> HIDE DEF r
  <2>3. run \in RoutingRuns /\ run.state = "failed" /\ run.profile = p.route.profile
    BY <1>1, <2>1 DEF RoutingRuns, RunStates
  <2> HIDE DEF run
  <2>4. /\ q \in SubmissionRecords /\ q.route = run /\ q.status = r.status
        /\ q.owner = r.owner /\ q.initial = r.initial /\ q.published = r.published
        /\ q.import = r.import /\ q.routing = r.routing /\ q.review = r.review
    BY <2>1, <2>3 DEF SubmissionRecords
  <2> HIDE DEF q
  <2>5. Follows(p, q)
    BY <1>1, <2>1, <2>3, <2>4, RouteFacts DEF Follows, Row, Alive
  <2> QED
    BY <2>1, <2>2, <2>3, <2>4, <2>5, RowFacts, RowMoves
<1>4. CASE RoutingIsRetried(s)
  <2> DEFINE q == Routed(p, "processing", "none")
  <2>1. /\ q \in SubmissionRecords /\ q.routing = "processing"
        /\ q.status = p.status /\ q.review = p.review
        /\ q.owner = p.owner /\ q.initial = p.initial /\ q.published = p.published
        /\ q.import = p.import /\ q.route = p.route
    BY <1>1, RoutedRow DEF RoutingOutcomes, RecoveryCodes
  <2>2. submission' = [submission EXCEPT ![s] = q] /\ UNCHANGED <<candidate, application>>
    BY <1>4 DEF RoutingIsRetried, SetSubmission
  <2> HIDE DEF q
  <2>3. Follows(p, q)
    BY <1>1, <2>1, RouteFacts DEF Follows, Row, Alive
  <2> QED
    BY <1>1, <2>1, <2>2, <2>3, RowFacts, RowMoves
<1> QED
  BY <1>2, <1>3, <1>4

LEMMA RoutingOverRow ==
  ASSUME NEW p \in SubmissionRecords, NEW state \in RunStates
  PROVE  LET q == [p EXCEPT !.route = RoutingOver(state)]
         IN /\ q \in SubmissionRecords /\ q.route.state = state /\ q.route.profile = 0
            /\ q.status = p.status /\ q.review = p.review
            /\ q.owner = p.owner /\ q.initial = p.initial /\ q.published = p.published
            /\ q.import = p.import /\ q.routing = p.routing
BY OverTyped DEF SubmissionRecords

\* The ends of a routing: blocked, or with applications.
LEMMA RoutingEnds ==
  ASSUME IInv, NEW s \in Submissions, RoutingIsBlocked(s) \/ RoutingPublishes(s)
  PROVE  IInv'
<1> DEFINE p == submission[s]
<1>1. p \in SubmissionRecords /\ Row(p) /\ p.route.state = "active"
  BY RowFacts DEF RoutingIsBlocked, RoutingPublishes, RoutingAt
<1>2. CASE RoutingIsBlocked(s)
  <2> DEFINE r == Routed(p, "manual_available", "routing_manual")
             q == [r EXCEPT !.route = RoutingOver("blocked")]
  <2>1. /\ r \in SubmissionRecords /\ r.routing = "manual_available"
        /\ r.status = p.status /\ r.review = p.review
        /\ r.owner = p.owner /\ r.initial = p.initial /\ r.published = p.published
        /\ r.import = p.import
    BY <1>1, RoutedRow DEF RoutingOutcomes, RecoveryCodes
  <2>2. submission' = [submission EXCEPT ![s] = q] /\ UNCHANGED <<candidate, application>>
    BY <1>2 DEF RoutingIsBlocked, SetSubmission
  <2> HIDE DEF r
  <2>3. /\ q \in SubmissionRecords /\ q.route.state = "blocked" /\ q.route.profile = 0
        /\ q.status = r.status /\ q.review = r.review
        /\ q.owner = r.owner /\ q.initial = r.initial /\ q.published = r.published
        /\ q.import = r.import /\ q.routing = r.routing
    BY <2>1, RoutingOverRow DEF RunStates
  <2> HIDE DEF q
  <2>4. Follows(p, q)
    BY <1>1, <2>1, <2>3, RouteFacts DEF Follows, Row, Alive
  <2> QED
    BY <2>2, <2>3, <2>4, RowMoves
<1>3. CASE RoutingPublishes(s)
  <2> DEFINE d == Completed(p)
             o == [d EXCEPT !.route = RoutingOver("completed")]
             x == p.route.profile
  <2>1. /\ d \in SubmissionRecords /\ d.status = "completed" /\ d.review = "none"
        /\ d.owner = p.owner /\ d.initial = p.initial /\ d.published = p.published
        /\ d.import = p.import
    BY <1>1, CompletedRow
  <2>2. PICK outcome \in {"auto_matched", "manual_available"},
             code \in {"none", "routing_manual"} :
          /\ submission' = [submission EXCEPT ![s] = Routed(o, outcome, code)]
          /\ \/ application' = application
             \/ application' = [application EXCEPT ![o.owner] = Applied(s, x)]
          /\ candidate' = candidate
    BY <1>3 DEF RoutingPublishes
  <2> HIDE DEF d
  <2>3. /\ o \in SubmissionRecords /\ o.route.state = "completed" /\ o.route.profile = 0
        /\ o.status = d.status /\ o.review = d.review
        /\ o.owner = d.owner /\ o.initial = d.initial /\ o.published = d.published
        /\ o.import = d.import
    BY <2>1, RoutingOverRow DEF RunStates
  <2> HIDE DEF o
  <2> DEFINE q == Routed(o, outcome, code)
  <2>4. /\ q \in SubmissionRecords /\ q.routing = outcome
        /\ q.status = o.status /\ q.review = o.review
        /\ q.owner = o.owner /\ q.initial = o.initial /\ q.published = o.published
        /\ q.import = o.import /\ q.route = o.route
    BY <2>3, RoutedRow DEF RoutingOutcomes, RecoveryCodes
  <2> HIDE DEF q
  <2>5. Follows(p, q)
    BY <1>1, <2>1, <2>3, <2>4, RouteFacts DEF Follows, Row, Alive
  <2>6. p.owner \in Candidates /\ candidate[p.owner].profile # 0 /\ IsProfileOf(x, p.owner)
    BY <1>1, RowFacts, RouteFacts DEF IInv, Owners, Row
  <2>7. submission' = [submission EXCEPT ![s] = q]
    BY <2>2 DEF q
  <2>8. q.owner = p.owner /\ q.status = "completed" /\ q.route.profile = 0
        /\ candidate' = candidate
    BY <2>1, <2>2, <2>3, <2>4
  <2>9. \/ application' = application
        \/ \E y \in Submissions :
              /\ IsProfileOf(y, q.owner)
              /\ application' = [application EXCEPT ![q.owner] = Applied(s, y)]
    <3> DEFINE y == x
    <3>1. y \in Submissions
      BY <2>6 DEF IsProfileOf
    <3>2. IsProfileOf(y, q.owner)
      BY <2>6, <2>8
    <3>3. o.owner = q.owner
      BY <2>4
    <3> HIDE DEF y
    <3>4. application' = application
          \/ application' = [application EXCEPT ![q.owner] = Applied(s, y)]
      BY <2>2, <3>3 DEF y
    <3> QED
      BY <3>1, <3>2, <3>4
  <2> QED
    BY <2>5, <2>6, <2>7, <2>8, <2>9, RowMoves
<1> QED
  BY <1>2, <1>3

\* A candidate's profile is one that it has published.
LEMMA ProfileOf ==
  ASSUME IInv, NEW c \in Candidates, candidate[c].profile # 0
  PROVE  IsProfileOf(candidate[c].profile, c)
<1>1. candidate[c].profile \in 0 .. MaxSubmission
  BY TypeIs DEF IInv, CandidateRecords
<1> QED
  BY <1>1, Bounds DEF IInv, ReferencesAgree, IsProfileOf

\* The two retries of a routing.
LEMMA RoutingRetries ==
  ASSUME IInv, NEW s \in Submissions, RetryRouting(s) \/ AdminRetriesRouting(s)
  PROVE  IInv'
<1> DEFINE p == submission[s]
<1>1. p \in SubmissionRecords /\ Row(p) /\ p.route \in RoutingRuns
  BY RowFacts
<1>2. CASE RetryRouting(s)
  <2> DEFINE x == candidate[p.owner].profile
             q == QueueRouting(p, x)
  <2>1. /\ p.owner \in Candidates /\ x # 0 /\ p.status = "completed"
        /\ p.routing \in {"failed", "manual_available"}
    BY <1>1, <1>2 DEF RetryRouting, CanRetryRouting, IsCurrent, Exists, SubmissionRecords
  <2>2. IsProfileOf(x, p.owner)
    BY <2>1, ProfileOf
  <2>3. submission' = [submission EXCEPT ![s] = q] /\ UNCHANGED <<candidate, application>>
    BY <1>2 DEF RetryRouting, SetSubmission
  <2>4. /\ q \in SubmissionRecords /\ q.routing = "processing"
        /\ q.status = p.status /\ q.review = p.review
        /\ q.owner = p.owner /\ q.initial = p.initial /\ q.published = p.published
        /\ q.import = p.import /\ q.route.state = "active"
        /\ q.route.profile = IF p.route.state = "active" THEN p.route.profile ELSE x
    BY <1>1, <2>2, QueuedRow DEF IsProfileOf
  <2> HIDE DEF q
  <2>5. IsProfileOf(q.route.profile, q.owner) /\ q.route.profile # 0
    BY <1>1, <2>1, <2>2, <2>4, RowFacts DEF Row
  <2>6. Follows(p, q)
    BY <1>1, <2>1, <2>4, <2>5 DEF Follows, Row, Alive
  <2> QED
    BY <2>3, <2>5, <2>6, RowMoves
<1>3. CASE AdminRetriesRouting(s)
  <2> DEFINE run == [p.route EXCEPT !.state = "active", !.step = "freeze"]
             q == [p EXCEPT !.route = run]
  <2>1. p.route.state = "failed"
    BY <1>3 DEF AdminRetriesRouting
  <2>2. run \in RoutingRuns /\ run.state = "active" /\ run.profile = p.route.profile
    BY <1>1 DEF RoutingRuns, RunStates
  <2>3. submission' = [submission EXCEPT ![s] = q] /\ UNCHANGED <<candidate, application>>
    BY <1>3 DEF AdminRetriesRouting, SetSubmission
  <2> HIDE DEF run
  <2>4. /\ q \in SubmissionRecords /\ q.route = run /\ q.status = p.status
        /\ q.owner = p.owner /\ q.initial = p.initial /\ q.published = p.published
        /\ q.import = p.import /\ q.routing = p.routing /\ q.review = p.review
    BY <1>1, <2>2 DEF SubmissionRecords
  <2> HIDE DEF q
  <2>5. Follows(p, q)
    BY <1>1, <2>1, <2>2, <2>4, RouteFacts DEF Follows, Row, Alive
  <2> QED
    BY <2>2, <2>3, <2>4, <2>5, RowFacts, RowMoves
<1> QED
  BY <1>2, <1>3

\* A person chooses the job.
LEMMA JobsSelected ==
  ASSUME IInv, NEW s \in Submissions, SelectJobs(s)
  PROVE  IInv'
<1> DEFINE p == submission[s]
           d == Completed(p)
           q == Routed(d, "manual_selected", "none")
           x == candidate[p.owner].profile
<1>1. p \in SubmissionRecords /\ Row(p)
  BY RowFacts
<1>2. /\ p.owner \in Candidates /\ x # 0
      /\ p.status \in {"completed", "review_required"}
  BY <1>1 DEF SelectJobs, CanSelectJobs, Exists, SubmissionRecords
<1>3. IsProfileOf(x, p.owner)
  BY <1>2, ProfileOf
<1>4. /\ submission' = [submission EXCEPT ![s] = q] /\ candidate' = candidate
      /\ application' = [application EXCEPT ![p.owner] = Applied(s, x)]
  BY DEF SelectJobs
<1>5. /\ d \in SubmissionRecords /\ d.status = "completed" /\ d.review = "none"
      /\ d.owner = p.owner /\ d.initial = p.initial /\ d.published = p.published
      /\ d.import = p.import /\ d.route = p.route
  BY <1>1, CompletedRow
<1> HIDE DEF d
<1>6. /\ q \in SubmissionRecords /\ q.routing = "manual_selected"
      /\ q.status = d.status /\ q.review = d.review
      /\ q.owner = d.owner /\ q.initial = d.initial /\ q.published = d.published
      /\ q.import = d.import /\ q.route = d.route
  BY <1>5, RoutedRow DEF RoutingOutcomes, RecoveryCodes
<1> HIDE DEF q
<1>7. Follows(p, q)
  BY <1>1, <1>2, <1>5, <1>6 DEF Follows, Row, Alive
<1>8. /\ q.owner = p.owner /\ q.status = "completed"
      /\ q.route.profile # 0 => IsProfileOf(q.route.profile, q.owner)
  BY <1>5, <1>6, RowFacts
<1>9. \E y \in Submissions :
         /\ IsProfileOf(y, q.owner)
         /\ application' = [application EXCEPT ![q.owner] = Applied(s, y)]
  <2>1. x \in Submissions
    BY <1>3 DEF IsProfileOf
  <2> QED
    BY <1>3, <1>4, <1>8, <2>1
<1> QED
  BY <1>2, <1>4, <1>7, <1>8, <1>9, RowMoves

(***************************************************************************)
(* Steps that start a submission                                           *)
(***************************************************************************)
\* A new row s becomes candidate c's current submission: a later version, or
\* the upload that creates the candidate.
LEMMA RowStarts ==
  ASSUME IInv, NEW s \in Submissions, submission[s].status = "none",
         NEW c \in Candidates, NEW q \in SubmissionRecords, NEW k \in CandidateRecords,
         q.status = "queued", q.owner = c, q.import.state = "active", ~ q.published,
         q.route.state = "none", q.route.profile = 0, q.routing = "none", q.review = "none",
         k.status # "none", k.current = s, k.profile = candidate[c].profile,
         q.initial <=> candidate[c].status = "none",
         submission' = [submission EXCEPT ![s] = q],
         candidate' = [candidate EXCEPT ![c] = k], application' = application,
         candidate[c].status # "none" => k.status = candidate[c].status
  PROVE  IInv'
<1>1. /\ submission \in [Submissions -> SubmissionRecords]
      /\ candidate \in [Candidates -> CandidateRecords]
      /\ application \in [Candidates -> ApplicationRecords]
  BY TypeIs DEF IInv
<1>2. /\ submission' \in [Submissions -> SubmissionRecords]
      /\ candidate' \in [Candidates -> CandidateRecords]
      /\ application' \in [Candidates -> ApplicationRecords]
  BY <1>1
<1>3. TypeOK'
  BY <1>2
     DEF TypeOK, SubmissionRecords, ImportRuns, RoutingRuns, CandidateRecords, ApplicationRecords
<1>4. /\ \A r \in Submissions : r # s => submission'[r] = submission[r]
      /\ \A d \in Candidates : d # c => candidate'[d] = candidate[d]
      /\ submission'[s] = q /\ candidate'[c] = k /\ Nobody \notin Candidates
  BY <1>1, IntakeAssumption
<1>5. /\ submission[s].owner = Nobody /\ ~ submission[s].published
      /\ \A r \in Submissions : submission[r].owner \in Candidates \cup {Nobody}
  BY <1>1 DEF IInv, Rows, Row, Unused, SubmissionRecords
<1>6. \A d \in Candidates : /\ candidate[d].current \in 0 .. MaxSubmission
                            /\ candidate[d].profile \in 0 .. MaxSubmission
                            /\ application[d].resume \in 0 .. MaxSubmission
                            /\ application[d].profile \in 0 .. MaxSubmission
  BY <1>1 DEF CandidateRecords, ApplicationRecords
<1>7. \A d \in Candidates :
         \A t \in {candidate[d].current, candidate[d].profile,
                   application[d].resume, application[d].profile} \ {0} :
           t \in Submissions /\ t # s /\ submission[t].owner = d
  BY <1>4, <1>5, <1>6, Bounds DEF IInv, ReferencesAgree
<1>8. candidate[c].status = "none" => candidate[c].profile = 0
  <2> SUFFICES ASSUME candidate[c].profile # 0 PROVE candidate[c].status # "none"
    OBVIOUS
  <2>1. \E t \in Submissions : submission[t].owner = c
    BY <1>7
  <2> QED
    BY <2>1, <1>4 DEF IInv, Owners
<1>9. Rows'
  <2>1. Row(q)
    BY <1>4 DEF Row
  <2> QED
    BY <1>4, <2>1 DEF IInv, Rows
<1>10. Owners'
  <2>1. \A r \in Submissions : submission'[r].owner # Nobody =>
           candidate'[submission'[r].owner].status # "none"
    BY <1>4, <1>5 DEF IInv, Owners
  <2>2. \A r, t \in Submissions :
           /\ submission'[r].initial /\ ~ submission'[r].published
           /\ submission'[t].initial /\ ~ submission'[t].published
           /\ submission'[r].owner # Nobody /\ submission'[r].owner = submission'[t].owner
           => r = t
    BY <1>4, <1>5 DEF IInv, Owners, Fresh
  <2>3. \A d \in Candidates :
           /\ candidate'[d].current # 0
           /\ submission'[candidate'[d].current].initial
           /\ ~ submission'[candidate'[d].current].published
           => candidate'[d].profile = 0
    BY <1>4, <1>7, <1>8 DEF IInv, Owners, Fresh
  <2>4. \A r \in Submissions : submission'[r].published =>
           candidate'[submission'[r].owner].profile # 0
    BY <1>4, <1>5 DEF IInv, Owners
  <2>5. \A d \in Candidates : application[d].state # "none" => candidate'[d].profile # 0
    BY <1>4 DEF IInv, Owners
  <2> QED
    BY <2>1, <2>2, <2>3, <2>4, <2>5 DEF Owners, Fresh
<1>11. Links'
  <2>1. ASSUME NEW r \in Submissions, submission'[r].route.profile # 0
        PROVE  /\ submission'[submission'[r].route.profile].owner = submission'[r].owner
               /\ submission'[submission'[r].route.profile].published
    <3>1. r # s /\ submission'[r] = submission[r]
      BY <1>4, <2>1
    <3>2. submission[r].route.profile \in Submissions
      BY <3>1, <2>1, RowFacts DEF IsProfileOf
    <3> QED
      BY <3>1, <3>2, <2>1, <1>4, <1>5 DEF IInv, Links
  <2>2. \A d \in Candidates : application[d].resume # 0 =>
           submission'[application[d].resume].status = "completed"
    BY <1>4, <1>7 DEF IInv, Links
  <2> QED
    BY <2>1, <2>2 DEF Links
<1>12. ReferencesAgree'
  <2>1. ASSUME NEW d \in Candidates
        PROVE  /\ \A t \in {candidate'[d].current, candidate'[d].profile,
                       application[d].resume, application[d].profile} \ {0} :
                    submission'[t].owner = d
               /\ \A t \in {candidate'[d].profile, application[d].profile} \ {0} :
                    submission'[t].published
    <3>1. candidate'[d].profile = candidate[d].profile
      BY <1>4
    <3>2. candidate'[d].current \in {candidate[d].current, s}
          /\ (candidate'[d].current = s => d = c \/ s = candidate[d].current)
      BY <1>4
    <3> QED
      BY <1>4, <1>7, <3>1, <3>2 DEF IInv, ReferencesAgree
  <2> QED
    BY <2>1 DEF ReferencesAgree
<1>13. ProcessingHasRun'
  <2> SUFFICES ASSUME NEW r \in Submissions
               PROVE  LET p == submission'[r]
                          archived == p.owner # Nobody /\ candidate'[p.owner].status # "none"
                                      /\ candidate'[p.owner].status = "archived"
                      IN /\ p.status \in {"queued", "extracting"}
                              => p.import.state = "active" \/ archived
                         /\ p.routing = "processing" => p.route.state = "active" \/ archived
    BY DEF ProcessingHasRun, Processing, Exists
  <2>1. CASE r = s
    BY <1>4, <2>1
  <2>2. CASE r # s
    BY <1>4, <1>5, <2>2 DEF IInv, ProcessingHasRun, Processing, Exists
  <2> QED
    BY <2>1, <2>2
<1> QED
  BY <1>3, <1>9, <1>10, <1>11, <1>12, <1>13 DEF IInv

LEMMA NewRow ==
  ASSUME NEW c \in Candidates, NEW kept
  PROVE  LET q == NewSubmission(c, kept)
         IN /\ q \in SubmissionRecords
            /\ q.status = "queued" /\ q.owner = c /\ q.import.state = "active"
            /\ ~ q.published /\ q.route.state = "none" /\ q.route.profile = 0
            /\ q.routing = "none" /\ q.review = "none" /\ ~ q.initial
<1> DEFINE run == [NoImport EXCEPT !.state = "active"]
           parsed == "parsed" \in kept
           structured == "structured" \in kept
<1>1. run \in ImportRuns /\ run.state = "active"
  BY DEF NoImport, ImportRuns, RunStates
<1>2. NoRouting \in RoutingRuns /\ NoRouting.state = "none" /\ NoRouting.profile = 0
  BY Bounds DEF NoRouting, RoutingRuns, RunStates
<1>3. /\ Unused \in SubmissionRecords /\ ~ Unused.published /\ Unused.route = NoRouting
      /\ Unused.routing = "none" /\ Unused.review = "none" /\ ~ Unused.initial
  <2>1. NoImport \in ImportRuns
    BY DEF NoImport, ImportRuns, RunStates
  <2> HIDE DEF NoImport, NoRouting
  <2> QED
    BY <1>2, <2>1 DEF Unused, SubmissionRecords, Reviews, RecoveryCodes, RoutingOutcomes
<1>4. parsed \in BOOLEAN /\ structured \in BOOLEAN
  OBVIOUS
<1> DEFINE q == [Unused EXCEPT !.status = "queued", !.owner = c, !.parsed = parsed,
                               !.structured = structured, !.import = run]
<1>5. NewSubmission(c, kept) = q
  BY DEF NewSubmission
<1> HIDE DEF run, parsed, structured
<1>6. /\ q \in SubmissionRecords
      /\ q.status = "queued" /\ q.owner = c /\ q.import = run
      /\ q.published = Unused.published /\ q.route = Unused.route
      /\ q.routing = Unused.routing /\ q.review = Unused.review
      /\ q.initial = Unused.initial
  BY <1>1, <1>3, <1>4 DEF SubmissionRecords
<1> HIDE DEF q
<1> QED
  BY <1>1, <1>2, <1>3, <1>5, <1>6

\* The upload of a candidate's first resume.
LEMMA Uploads ==
  ASSUME IInv, NEW c \in Candidates, NEW s \in Submissions, Upload(c, s)
  PROVE  IInv'
<1> DEFINE n == NewSubmission(c, {})
           q == [n EXCEPT !.initial = TRUE]
           k == [NoCandidate EXCEPT !.status = "active", !.current = s]
<1>1. /\ submission[s].status = "none" /\ candidate[c].status = "none"
      /\ submission' = [submission EXCEPT ![s] = q]
      /\ candidate' = [candidate EXCEPT ![c] = k] /\ application' = application
  BY DEF Upload, Next1
<1>2. /\ n \in SubmissionRecords
      /\ n.status = "queued" /\ n.owner = c /\ n.import.state = "active"
      /\ ~ n.published /\ n.route.state = "none" /\ n.route.profile = 0
      /\ n.routing = "none" /\ n.review = "none"
  BY NewRow
<1> HIDE DEF n
<1>3. /\ q \in SubmissionRecords /\ q.status = n.status /\ q.owner = n.owner
      /\ q.import = n.import /\ q.published = n.published /\ q.route = n.route
      /\ q.routing = n.routing /\ q.review = n.review /\ q.initial
  BY <1>2 DEF SubmissionRecords
<1>4. k \in CandidateRecords /\ k.status = "active" /\ k.current = s /\ k.profile = 0
  BY Bounds DEF NoCandidate, CandidateRecords
<1>5. candidate[c].profile = 0
  <2> SUFFICES ASSUME candidate[c].profile # 0 PROVE FALSE
    OBVIOUS
  <2>1. \E t \in Submissions : submission[t].owner = c
    BY ProfileOf DEF IsProfileOf
  <2> QED
    BY <1>1, <2>1, IntakeAssumption DEF IInv, Owners
<1> HIDE DEF q, k
<1>6. /\ q.status = "queued" /\ q.owner = c /\ q.import.state = "active"
      /\ ~ q.published /\ q.route.state = "none" /\ q.route.profile = 0
      /\ q.routing = "none" /\ q.review = "none"
      /\ q.initial <=> candidate[c].status = "none"
  BY <1>1, <1>2, <1>3
<1>7. k.status # "none" /\ k.profile = candidate[c].profile
  BY <1>4, <1>5
<1> QED
  BY <1>1, <1>3, <1>4, <1>6, <1>7, RowStarts

\* A later version of a resume.
LEMMA Superseded ==
  ASSUME IInv, NEW s \in Submissions, NEW c \in Candidates, candidate[c].status # "none",
         NEW kept, Supersede(NewSubmission(c, kept), s)
  PROVE  IInv'
<1> DEFINE q == NewSubmission(c, kept)
           k == [candidate[c] EXCEPT !.current = s]
<1>1. /\ q \in SubmissionRecords
      /\ q.status = "queued" /\ q.owner = c /\ q.import.state = "active"
      /\ ~ q.published /\ q.route.state = "none" /\ q.route.profile = 0
      /\ q.routing = "none" /\ q.review = "none" /\ ~ q.initial
  BY NewRow
<1>2. /\ submission[s].status = "none"
      /\ submission' = [submission EXCEPT ![s] = q]
      /\ candidate' = [candidate EXCEPT ![q.owner].current = s] /\ application' = application
  BY DEF Supersede, Next1
<1> HIDE DEF q
<1>3. candidate' = [candidate EXCEPT ![c] = k]
  BY <1>1, <1>2
<1>4. candidate[c] \in CandidateRecords
  BY TypeIs DEF IInv
<1>5. /\ k \in CandidateRecords /\ k.status = candidate[c].status /\ k.current = s
      /\ k.profile = candidate[c].profile
  BY <1>4, Bounds DEF CandidateRecords
<1> HIDE DEF k
<1> QED
  BY <1>1, <1>2, <1>3, <1>5, RowStarts

LEMMA NewVersions ==
  ASSUME IInv, NEW old \in Submissions, NEW s \in Submissions, NewVersion(old, s)
  PROVE  IInv'
<1> DEFINE c == submission[old].owner
<1>1. c \in Candidates /\ candidate[c].status # "none"
  BY RowFacts DEF NewVersion, Replace, Reparse, Correct, Republish, CanReplace, CanReparse,
                  CanCorrect, CanRepublish, IsCurrent, Exists, SubmissionRecords
<1>2. PICK kept : Supersede(NewSubmission(c, kept), s)
  BY DEF NewVersion, Replace, Reparse, Correct, Republish
<1> HIDE DEF c
<1> QED
  BY <1>1, <1>2, Superseded

(***************************************************************************)
(* Steps that publish a profile                                            *)
(***************************************************************************)
\* Submission s becomes the profile of candidate c: its row,
ProfileRow(s, c) ==
    \E q \in SubmissionRecords :
        /\ Row(q) /\ Alive(q) /\ q.status = "completed" /\ q.owner = c /\ q.published
        /\ q.route.profile \in {0, s}
        /\ submission' = [submission EXCEPT ![s] = q]

\* the candidates, where another owner than c is deleted unless it has a profile,
ProfileCandidates(s, c) ==
    /\ candidate' \in [Candidates -> CandidateRecords]
    /\ candidate'[c].profile = s /\ candidate'[c].status = candidate[c].status
    /\ \/ candidate'[c].current = s
       \/ candidate'[c].current = candidate[c].current /\ Fresh(s) /\ submission[s].owner = c
    /\ \A d \in Candidates \ {c} :
          \/ /\ candidate'[d] = candidate[d]
             /\ d = submission[s].owner => candidate[d].profile # 0
          \/ /\ d = submission[s].owner /\ candidate'[d] = NoCandidate
             /\ Unneeded(d) /\ ~ Referenced(d, s)

\* and the application, which takes on the new profile or is left alone.
ProfileApplications(s, c) ==
    /\ application' \in [Candidates -> ApplicationRecords]
    /\ \A d \in Candidates : d # c => application'[d] = application[d]
    /\ \/ application'[c] = application[c]
       \/ application'[c].resume = s /\ application'[c].profile = s

LEMMA ProfileMoves ==
  ASSUME IInv, NEW s \in Submissions, NEW c \in Candidates,
         submission[s].owner \in Candidates, ~ submission[s].published,
         submission[s].status # "completed", candidate[c].status # "none",
         submission[s].owner # c => Fresh(s),
         ProfileRow(s, c), ProfileCandidates(s, c), ProfileApplications(s, c)
  PROVE  IInv'
<1> DEFINE o == submission[s].owner
<1> PICK q \in SubmissionRecords :
        /\ Row(q) /\ Alive(q) /\ q.status = "completed" /\ q.owner = c /\ q.published
        /\ q.route.profile \in {0, s}
        /\ submission' = [submission EXCEPT ![s] = q]
  BY DEF ProfileRow
<1> USE DEF ProfileCandidates, ProfileApplications
<1>1. /\ submission \in [Submissions -> SubmissionRecords]
      /\ candidate \in [Candidates -> CandidateRecords]
      /\ application \in [Candidates -> ApplicationRecords]
  BY TypeIs DEF IInv
<1>2. submission' \in [Submissions -> SubmissionRecords]
  BY <1>1
<1>3. TypeOK'
  BY <1>2
     DEF TypeOK, SubmissionRecords, ImportRuns, RoutingRuns, CandidateRecords, ApplicationRecords
<1>4. /\ \A r \in Submissions : r # s => submission'[r] = submission[r]
      /\ submission'[s] = q /\ Nobody \notin Candidates /\ s # 0
      /\ \A r \in Submissions : submission[r].owner \in Candidates \cup {Nobody}
  BY <1>1, IntakeAssumption, Bounds DEF SubmissionRecords
<1>5. \A d \in Candidates : /\ candidate[d].current \in 0 .. MaxSubmission
                            /\ candidate[d].profile \in 0 .. MaxSubmission
                            /\ application[d].resume \in 0 .. MaxSubmission
                            /\ application[d].profile \in 0 .. MaxSubmission
  BY <1>1 DEF CandidateRecords, ApplicationRecords
\* Nothing but the current pointer of o refers to s yet.
<1>6. \A d \in Candidates :
         /\ \A t \in {candidate[d].current, candidate[d].profile,
                      application[d].resume, application[d].profile} \ {0} :
              t \in Submissions /\ submission[t].owner = d
         /\ \A t \in {candidate[d].profile, application[d].profile} \ {0} :
              t # s /\ submission[t].published
         /\ application[d].resume # s
  BY <1>5, Bounds, <1>4 DEF IInv, ReferencesAgree, Links
\* A deleted candidate owns no other submission.
<1>7. \A r \in Submissions, d \in Candidates :
         r # s /\ submission[r].owner = d =>
            /\ candidate'[d].status = candidate[d].status
            /\ candidate[d].profile # 0 => candidate'[d].profile # 0
  <2> SUFFICES ASSUME NEW r \in Submissions, NEW d \in Candidates, r # s,
                      submission[r].owner = d
               PROVE  /\ candidate'[d].status = candidate[d].status
                      /\ candidate[d].profile # 0 => candidate'[d].profile # 0
    OBVIOUS
  <2>1. CASE d = c
    BY <1>4, <2>1
  <2>2. CASE d # c
    <3>1. Referenced(d, s)
      BY DEF Referenced
    <3> QED
      BY <2>2, <3>1
  <2> QED
    BY <2>1, <2>2
<1>8. Rows'
  BY <1>4 DEF IInv, Rows
<1>9. Owners'
  <2>1. ASSUME NEW r \in Submissions, submission'[r].owner # Nobody
        PROVE  candidate'[submission'[r].owner].status # "none"
    BY <1>4, <1>7, <2>1 DEF IInv, Owners
  <2>2. \A r, t \in Submissions :
           /\ submission'[r].initial /\ ~ submission'[r].published
           /\ submission'[t].initial /\ ~ submission'[t].published
           /\ submission'[r].owner # Nobody /\ submission'[r].owner = submission'[t].owner
           => r = t
    BY <1>4 DEF IInv, Owners, Fresh
  <2>3. ASSUME NEW d \in Candidates, candidate'[d].current # 0,
               submission'[candidate'[d].current].initial,
               ~ submission'[candidate'[d].current].published
        PROVE  candidate'[d].profile = 0
    <3>1. CASE d = c
      <4>1. candidate[c].current \in Submissions /\ candidate[c].current # s
            /\ Fresh(s) /\ o = c /\ candidate'[c].current = candidate[c].current
        BY <1>4, <1>6, <2>3, <3>1
      <4>2. Fresh(candidate[c].current) /\ submission[candidate[c].current].owner = c
        BY <1>4, <1>6, <2>3, <3>1, <4>1 DEF Fresh
      <4> QED
        BY <4>1, <4>2, <1>4 DEF IInv, Owners
    <3>2. CASE d # c /\ candidate'[d] = candidate[d]
      BY <1>4, <1>6, <2>3, <3>2 DEF IInv, Owners, Fresh
    <3>3. CASE candidate'[d] = NoCandidate
      BY <2>3, <3>3 DEF NoCandidate
    <3> QED
      BY <3>1, <3>2, <3>3
  <2>4. ASSUME NEW r \in Submissions, submission'[r].published
        PROVE  candidate'[submission'[r].owner].profile # 0
    <3>1. CASE r = s
      BY <1>4, <3>1
    <3>2. CASE r # s
      <4>1. submission[r].owner \in Candidates
        BY <1>4, <2>4, <3>2 DEF IInv, Rows, Row
      <4> QED
        BY <1>4, <1>7, <2>4, <3>2, <4>1 DEF IInv, Owners
    <3> QED
      BY <3>1, <3>2
  <2>5. ASSUME NEW d \in Candidates, application'[d].state # "none"
        PROVE  candidate'[d].profile # 0
    BY <1>4, <2>5 DEF IInv, Owners, Unneeded
  <2> QED
    BY <2>1, <2>2, <2>3, <2>4, <2>5 DEF Owners, Fresh
<1>10. Links'
  <2>1. ASSUME NEW r \in Submissions, submission'[r].route.profile # 0
        PROVE  /\ submission'[submission'[r].route.profile].owner = submission'[r].owner
               /\ submission'[submission'[r].route.profile].published
    <3>1. CASE r = s
      BY <1>4, <2>1, <3>1
    <3>2. CASE r # s
      <4>1. IsProfileOf(submission[r].route.profile, submission[r].owner)
        BY <1>4, <2>1, <3>2, RowFacts
      <4> QED
        BY <1>4, <3>2, <4>1 DEF IsProfileOf
    <3> QED
      BY <3>1, <3>2
  <2>2. ASSUME NEW d \in Candidates, application'[d].resume # 0
        PROVE  submission'[application'[d].resume].status = "completed"
    BY <1>4, <1>6, <2>2 DEF IInv, Links
  <2> QED
    BY <2>1, <2>2 DEF Links
<1>11. ReferencesAgree'
  <2>1. ASSUME NEW d \in Candidates
        PROVE  /\ \A t \in {candidate'[d].current, candidate'[d].profile,
                       application'[d].resume, application'[d].profile} \ {0} :
                    submission'[t].owner = d
               /\ \A t \in {candidate'[d].profile, application'[d].profile} \ {0} :
                    submission'[t].published
    <3>1. CASE d = c
      BY <1>4, <1>6, <3>1
    <3>2. CASE d # c /\ candidate'[d] = candidate[d]
      <4>1. candidate[d].current # s
        <5> SUFFICES ASSUME candidate[d].current = s PROVE FALSE
          OBVIOUS
        <5>1. d = o /\ Fresh(s) /\ candidate[d].profile # 0
          BY <1>4, <1>6, <3>2 DEF NoCandidate
        <5> QED
          BY <1>4, <5>1 DEF IInv, Owners
      <4> QED
        BY <1>4, <1>6, <3>2, <4>1
    <3>3. CASE d # c /\ candidate'[d] = NoCandidate
      BY <1>4, <1>6, <3>3 DEF NoCandidate
    <3> QED
      BY <3>1, <3>2, <3>3
  <2> QED
    BY <2>1 DEF ReferencesAgree
<1>12. ProcessingHasRun'
  <2> SUFFICES ASSUME NEW r \in Submissions
               PROVE  LET p == submission'[r]
                          archived == p.owner # Nobody /\ candidate'[p.owner].status # "none"
                                      /\ candidate'[p.owner].status = "archived"
                      IN /\ p.status \in {"queued", "extracting"}
                              => p.import.state = "active" \/ archived
                         /\ p.routing = "processing" => p.route.state = "active" \/ archived
    BY DEF ProcessingHasRun, Processing, Exists
  <2>1. CASE r = s
    BY <1>4, <2>1 DEF Alive
  <2>2. CASE r # s
    BY <1>4, <1>7, <2>2 DEF IInv, ProcessingHasRun, Processing, Exists
  <2> QED
    BY <2>1, <2>2
<1> QED
  BY <1>3, <1>8, <1>9, <1>10, <1>11, <1>12 DEF IInv

\* The row of a submission that is published with a routing run.
LEMMA RoutedProfile ==
  ASSUME NEW s \in Submissions, NEW c \in Candidates, NEW p \in SubmissionRecords,
         p.import.state # "active", p.route.state = "none"
  PROVE  LET q == QueueRouting(Published(p, c), s)
         IN /\ q \in SubmissionRecords /\ Row(q) /\ Alive(q)
            /\ q.status = "completed" /\ q.owner = c /\ q.published /\ q.route.profile = s
<1> DEFINE d == Published(p, c)
           q == QueueRouting(d, s)
<1>1. /\ d \in SubmissionRecords /\ d.status = "completed" /\ d.review = "none"
      /\ d.owner = c /\ d.published /\ d.import = p.import /\ d.route = p.route
  BY PublishedRow
<1> HIDE DEF d
<1>2. /\ q \in SubmissionRecords /\ q.routing = "processing"
      /\ q.status = d.status /\ q.review = d.review
      /\ q.owner = d.owner /\ q.published = d.published
      /\ q.import = d.import /\ q.route.state = "active"
      /\ q.route.profile = IF d.route.state = "active" THEN d.route.profile ELSE s
  BY <1>1, QueuedRow
<1> HIDE DEF q
<1>3. Row(q) /\ Alive(q)
  BY <1>1, <1>2, Bounds, IntakeAssumption DEF Row, Alive
<1> QED
  BY <1>1, <1>2, <1>3 DEF d, q

\* The row and the application after Rebuild.
LEMMA RebuiltProfile ==
  ASSUME IInv, NEW s \in Submissions, NEW c \in Candidates, NEW p \in SubmissionRecords,
         p.import.state # "active", p.route.state = "none", p.route.profile = 0,
         p.routing \in {"none", "manual_selected"}, Rebuild(s, c, p)
  PROVE  ProfileRow(s, c) /\ ProfileApplications(s, c)
<1>1. application \in [Candidates -> ApplicationRecords]
  BY TypeIs DEF IInv
<1>2. CASE HasApplication(c)
  <2> DEFINE q == Published(p, c)
             a == [application[c] EXCEPT !.resume = s, !.profile = s]
  <2>1. /\ q \in SubmissionRecords /\ q.status = "completed" /\ q.review = "none"
        /\ q.owner = c /\ q.published /\ q.import = p.import /\ q.route = p.route
        /\ q.routing = p.routing
    BY PublishedRow
  <2>2. /\ submission' = [submission EXCEPT ![s] = q]
        /\ application' = [application EXCEPT ![c].resume = s, ![c].profile = s]
    BY <1>2 DEF Rebuild
  <2>3. a \in ApplicationRecords /\ a.resume = s /\ a.profile = s
    BY <1>1, Bounds DEF ApplicationRecords
  <2>4. application' = [application EXCEPT ![c] = a]
    BY <1>1, <2>2
  <2> HIDE DEF q, a
  <2>5. Row(q) /\ Alive(q)
    BY <2>1, IntakeAssumption DEF Row, Alive
  <2>6. ProfileRow(s, c)
    BY <2>1, <2>2, <2>5 DEF ProfileRow
  <2>7. ProfileApplications(s, c)
    BY <1>1, <2>3, <2>4 DEF ProfileApplications
  <2> QED
    BY <2>6, <2>7
<1>3. CASE ~ HasApplication(c)
  BY <1>1, <1>3, RoutedProfile DEF Rebuild, ProfileRow, ProfileApplications
<1> QED
  BY <1>2, <1>3

\* A submission becomes the profile of its own candidate.
LEMMA OwnProfileMoves ==
  ASSUME IInv, NEW s \in Submissions, NEW c \in Candidates, NEW k \in CandidateRecords,
         submission[s].owner = c, ~ submission[s].published,
         submission[s].status # "completed",
         ProfileRow(s, c), ProfileApplications(s, c),
         candidate' = [candidate EXCEPT ![c] = k],
         k.profile = s, k.status = candidate[c].status,
         \/ k.current = s
         \/ k.current = candidate[c].current /\ Fresh(s)
  PROVE  IInv'
<1>1. candidate \in [Candidates -> CandidateRecords]
  BY TypeIs DEF IInv
<1>2. /\ candidate' \in [Candidates -> CandidateRecords] /\ candidate'[c] = k
      /\ \A d \in Candidates \ {c} : candidate'[d] = candidate[d]
  BY <1>1
<1>3. candidate[c].status # "none"
  BY IntakeAssumption DEF IInv, Owners
<1>4. ProfileCandidates(s, c)
  BY <1>2 DEF ProfileCandidates
<1> QED
  BY <1>3, <1>4, ProfileMoves

\* The end of an import by its last step.
LEMMA ImportEnds ==
  ASSUME IInv, NEW s \in Submissions, ImportPublishes(s) \/ ImportRepublishes(s)
  PROVE  IInv'
<1> DEFINE old == submission[s]
           p == [old EXCEPT !.import = ImportOver("completed")]
           c == old.owner
<1>1. old \in SubmissionRecords /\ Row(old) /\ old.import.state = "active"
  BY RowFacts DEF ImportPublishes, ImportRepublishes, Importing
<1>2. /\ c \in Candidates /\ ~ old.published /\ old.route.state = "none"
      /\ old.route.profile = 0 /\ old.status # "completed"
      /\ old.routing \in {"none", "manual_selected"}
  BY <1>1, ImportFacts
<1>3. /\ p \in SubmissionRecords /\ p.import.state = "completed" /\ p.owner = old.owner
      /\ p.route = old.route /\ p.routing = old.routing /\ p.initial = old.initial
  BY <1>1, OverRow DEF RunStates
<1>4. /\ candidate[c] \in CandidateRecords /\ s \in 0 .. MaxSubmission
      /\ candidate \in [Candidates -> CandidateRecords]
      /\ application \in [Candidates -> ApplicationRecords]
  BY <1>2, TypeIs, Bounds DEF IInv
<1>5. CASE ImportPublishes(s)
  <2>1. Importing(s, "publish") /\ submission[s].initial
    BY <1>5 DEF ImportPublishes
  <2>2. ASSUME NEW kind \in {"match", "ambiguous", "blocked"}, NEW code \in RecoveryCodes,
               NEW d \in Candidates \cup {Nobody},
               SetSubmission(s, [Reviewed(p, kind, code) EXCEPT !.match = d])
        PROVE  IInv'
    BY <2>1, <2>2, ImportFindsMatches
  <2>3. \/ SetSubmission(s, Reviewed(p, "ambiguous", "none"))
        \/ \E d \in OnFile :
             \/ SetSubmission(s, [Reviewed(p, "match", "none") EXCEPT !.match = d])
             \/ SetSubmission(s, [Reviewed(p, "blocked", "duplicate_blocked")
                                    EXCEPT !.match = d])
        \/ /\ submission' = [submission EXCEPT ![s] = QueueRouting(Published(p, p.owner), s)]
           /\ candidate' = [candidate EXCEPT ![p.owner].profile = s]
           /\ application' = application
    BY <1>5 DEF ImportPublishes
  <2> HIDE DEF p
  <2>4. CASE SetSubmission(s, Reviewed(p, "ambiguous", "none"))
    <3> DEFINE r == Reviewed(p, "ambiguous", "none")
    <3>1. r \in SubmissionRecords
      BY <1>3, ReviewedRow DEF Reviews, RecoveryCodes
    <3>2. r = [r EXCEPT !.match = r.match] /\ r.match \in Candidates \cup {Nobody}
      BY <3>1 DEF SubmissionRecords
    <3>3. SetSubmission(s, [r EXCEPT !.match = r.match])
      BY <2>4, <3>2
    <3> QED
      BY <2>2, <3>2, <3>3 DEF RecoveryCodes
  <2>5. CASE \E d \in OnFile :
               \/ SetSubmission(s, [Reviewed(p, "match", "none") EXCEPT !.match = d])
               \/ SetSubmission(s, [Reviewed(p, "blocked", "duplicate_blocked")
                                      EXCEPT !.match = d])
    <3>1. PICK d \in Candidates \cup {Nobody} :
             \/ SetSubmission(s, [Reviewed(p, "match", "none") EXCEPT !.match = d])
             \/ SetSubmission(s, [Reviewed(p, "blocked", "duplicate_blocked")
                                    EXCEPT !.match = d])
      BY <2>5 DEF OnFile
    <3>2. "none" \in RecoveryCodes /\ "duplicate_blocked" \in RecoveryCodes
      BY DEF RecoveryCodes
    <3>3. CASE SetSubmission(s, [Reviewed(p, "match", "none") EXCEPT !.match = d])
      BY <2>2, <3>2, <3>3
    <3>4. CASE SetSubmission(s, [Reviewed(p, "blocked", "duplicate_blocked")
                                   EXCEPT !.match = d])
      BY <2>2, <3>2, <3>4
    <3> QED
      BY <3>1, <3>3, <3>4
  <2>6. CASE /\ submission' = [submission EXCEPT
                                 ![s] = QueueRouting(Published(p, p.owner), s)]
             /\ candidate' = [candidate EXCEPT ![p.owner].profile = s]
             /\ application' = application
    <3> DEFINE q == QueueRouting(Published(p, c), s)
               k == [candidate[c] EXCEPT !.profile = s]
    <3>1. /\ q \in SubmissionRecords /\ Row(q) /\ Alive(q)
          /\ q.status = "completed" /\ q.owner = c /\ q.published /\ q.route.profile = s
      BY <1>2, <1>3, RoutedProfile
    <3>2. /\ k \in CandidateRecords /\ k.profile = s /\ k.status = candidate[c].status
          /\ k.current = candidate[c].current
      BY <1>4 DEF CandidateRecords
    <3>3. Fresh(s)
      BY <1>2, <2>1 DEF Fresh
    <3>4. candidate' = [candidate EXCEPT ![c] = k] /\ submission' = [submission EXCEPT ![s] = q]
      BY <1>3, <2>6
    <3> HIDE DEF q, k
    <3>5. ProfileRow(s, c)
      BY <3>1, <3>4 DEF ProfileRow
    <3>6. ProfileApplications(s, c)
      BY <1>4, <2>6 DEF ProfileApplications
    <3> QED
      BY <1>2, <3>2, <3>3, <3>4, <3>5, <3>6, OwnProfileMoves
  <2> QED
    BY <2>3, <2>4, <2>5, <2>6
<1>6. CASE ImportRepublishes(s)
  <2> DEFINE k == [candidate[c] EXCEPT !.current = s, !.profile = s]
  <2>1. Rebuild(s, c, p)
        /\ candidate' = [candidate EXCEPT ![c].current = s, ![c].profile = s]
    BY <1>3, <1>6 DEF ImportRepublishes
  <2>2. /\ k \in CandidateRecords /\ k.profile = s /\ k.status = candidate[c].status
        /\ k.current = s
    BY <1>4 DEF CandidateRecords
  <2>3. candidate' = [candidate EXCEPT ![c] = k]
    BY <1>4, <2>1
  <2> HIDE DEF k, p
  <2>4. ProfileRow(s, c) /\ ProfileApplications(s, c)
    BY <1>2, <1>3, <2>1, RebuiltProfile
  <2> QED
    BY <1>2, <2>2, <2>3, <2>4, OwnProfileMoves
<1> QED
  BY <1>5, <1>6

\* The submission of a match goes over to the candidate on file.
LEMMA Adopted ==
  ASSUME IInv, NEW s \in Submissions, Adopt(s)
  PROVE  IInv'
<1> DEFINE p == submission[s]
           c == p.match
           o == p.owner
           k == [candidate[c] EXCEPT !.current = s, !.profile = s]
           adopted == [candidate EXCEPT ![c] = k]
<1>1. p \in SubmissionRecords /\ Row(p)
  BY RowFacts
<1>2. /\ p.status = "review_required" /\ p.review = "match"
      /\ o \in Candidates /\ c \in Candidates /\ candidate[c].status # "none"
      /\ o # c => CanDropPlaceholder(o, s)
      /\ Rebuild(s, c, p)
  BY <1>1 DEF Adopt, CanAdopt, Exists, SubmissionRecords
<1>3. /\ ~ p.published /\ Fresh(s) /\ p.import.state # "active" /\ p.route.state = "none"
      /\ p.route.profile = 0 /\ p.routing \in {"none", "manual_selected"}
  BY <1>1, <1>2 DEF Row, Fresh
<1>4. /\ candidate \in [Candidates -> CandidateRecords] /\ candidate[c] \in CandidateRecords
      /\ s \in 0 .. MaxSubmission
  BY <1>2, TypeIs, Bounds DEF IInv
<1>5. k \in CandidateRecords /\ k.current = s /\ k.profile = s /\ k.status = candidate[c].status
  BY <1>4 DEF CandidateRecords
<1>6. candidate' = IF o = c THEN adopted ELSE Dropped(adopted, o)
  <2> DEFINE a == [candidate EXCEPT ![c].current = s, ![c].profile = s]
  <2>1. candidate' = IF o = c THEN a ELSE Dropped(a, o)
    BY DEF Adopt
  <2>2. a = adopted
    BY <1>2, <1>4
  <2> HIDE DEF a
  <2> QED
    BY <2>1, <2>2
<1> HIDE DEF k
<1>7. /\ adopted \in [Candidates -> CandidateRecords] /\ adopted[c] = k
      /\ \A d \in Candidates \ {c} : adopted[d] = candidate[d]
  BY <1>2, <1>4, <1>5
<1>8. NoCandidate \in CandidateRecords
  BY Bounds DEF NoCandidate, CandidateRecords
<1> HIDE DEF adopted
<1>9. ProfileCandidates(s, c)
  <2>1. CASE o = c \/ ~ Unneeded(o)
    <3>1. candidate' = adopted
      BY <1>6, <2>1 DEF Dropped
    <3>2. o # c => candidate[o].profile # 0
      BY <1>2, <2>1 DEF Unneeded, IInv, Owners
    <3> QED
      BY <1>5, <1>7, <3>1, <3>2 DEF ProfileCandidates
  <2>2. CASE o # c /\ Unneeded(o)
    <3>1. candidate' = [adopted EXCEPT ![o] = NoCandidate]
      BY <1>6, <2>2 DEF Dropped
    <3>2. ~ Referenced(o, s)
      BY <1>2, <2>2 DEF CanDropPlaceholder
    <3> QED
      BY <1>2, <1>5, <1>7, <1>8, <2>2, <3>1, <3>2 DEF ProfileCandidates
  <2> QED
    BY <2>1, <2>2
<1>10. ProfileRow(s, c) /\ ProfileApplications(s, c)
  BY <1>1, <1>2, <1>3, RebuiltProfile
<1> QED
  BY <1>2, <1>3, <1>9, <1>10, ProfileMoves

(***************************************************************************)
(* Steps that end a submission or a candidate                              *)
(***************************************************************************)
\* A discarded submission has no owner any more; the candidate of the upload
\* goes with it unless something else needs it.
LEMMA Discarded ==
  ASSUME IInv, NEW s \in Submissions, Discard(s)
  PROVE  IInv'
<1> DEFINE p == submission[s]
           c == p.owner
           d == Completed(p)
           q == [d EXCEPT !.owner = Nobody]
<1>1. p \in SubmissionRecords /\ Row(p)
  BY RowFacts
<1>2. /\ p.status = "review_required" /\ p.review \in {"match", "blocked", "ambiguous"}
      /\ c \in Candidates /\ Nobody \notin Candidates
      /\ submission' = [submission EXCEPT ![s] = q] /\ application' = application
      /\ \/ candidate' = candidate /\ candidate[c].current # s
         \/ /\ candidate' = Dropped(candidate, c)
            /\ Unneeded(c) => ~ Referenced(c, s)
  BY <1>1, IntakeAssumption
     DEF Discard, CanDiscard, CanDropPlaceholder, Exists, IsCurrent, SubmissionRecords
<1>3. /\ ~ p.published /\ Fresh(s) /\ p.import.state # "active" /\ p.route.state = "none"
      /\ p.route.profile = 0 /\ p.routing \in {"none", "manual_selected"}
  BY <1>1, <1>2 DEF Row, Fresh
<1>4. /\ d \in SubmissionRecords /\ d.status = "completed" /\ d.review = "none"
      /\ d.initial = p.initial /\ d.published = p.published
      /\ d.import = p.import /\ d.route = p.route /\ d.routing = p.routing
  BY <1>1, CompletedRow
<1> HIDE DEF d
<1>5. /\ q \in SubmissionRecords /\ q.status = d.status /\ q.review = d.review
      /\ q.owner = Nobody /\ q.published = d.published
      /\ q.import = d.import /\ q.route = d.route /\ q.routing = d.routing
  BY <1>4 DEF SubmissionRecords
<1> HIDE DEF q
<1>6. /\ submission \in [Submissions -> SubmissionRecords]
      /\ candidate \in [Candidates -> CandidateRecords]
      /\ application \in [Candidates -> ApplicationRecords]
      /\ NoCandidate \in CandidateRecords
  BY TypeIs, Bounds DEF IInv, NoCandidate, CandidateRecords
<1>7. /\ submission' \in [Submissions -> SubmissionRecords]
      /\ candidate' \in [Candidates -> CandidateRecords]
      /\ application' \in [Candidates -> ApplicationRecords]
  BY <1>2, <1>5, <1>6 DEF Dropped
<1>8. TypeOK'
  BY <1>7
     DEF TypeOK, SubmissionRecords, ImportRuns, RoutingRuns, CandidateRecords, ApplicationRecords
<1>9. /\ \A r \in Submissions : r # s => submission'[r] = submission[r]
      /\ submission'[s] = q
      /\ \A r \in Submissions : submission[r].owner \in Candidates \cup {Nobody}
  BY <1>2, <1>6 DEF SubmissionRecords
\* While it is current, the upload is all that the candidate has.
<1>10. candidate[c].current = s => Unneeded(c)
  BY <1>2, <1>3, Bounds DEF IInv, Owners, Unneeded
<1>11. \A b \in Candidates :
          \/ candidate'[b] = candidate[b] /\ candidate[b].current # s
          \/ /\ b = c /\ candidate'[b] = NoCandidate /\ Unneeded(b) /\ ~ Referenced(b, s)
  <2> SUFFICES ASSUME NEW b \in Candidates
               PROVE  \/ candidate'[b] = candidate[b] /\ candidate[b].current # s
                      \/ /\ b = c /\ candidate'[b] = NoCandidate
                         /\ Unneeded(b) /\ ~ Referenced(b, s)
    OBVIOUS
  <2>1. CASE b # c
    <3>1. candidate[b].current # s
      BY <1>2, <2>1, Bounds DEF IInv, ReferencesAgree
    <3> QED
      BY <1>2, <1>6, <2>1, <3>1 DEF Dropped
  <2>2. CASE b = c
    BY <1>2, <1>6, <1>10, <2>2 DEF Dropped
  <2> QED
    BY <2>1, <2>2
<1>12. \A b \in Candidates :
         /\ \A t \in {candidate[b].current, candidate[b].profile,
                      application[b].resume, application[b].profile} \ {0} :
              t \in Submissions /\ submission[t].owner = b
         /\ \A t \in {candidate[b].profile, application[b].profile} \ {0} :
              t # s /\ submission[t].published
         /\ application[b].resume # s
  <2>1. \A b \in Candidates : /\ candidate[b].current \in 0 .. MaxSubmission
                              /\ candidate[b].profile \in 0 .. MaxSubmission
                              /\ application[b].resume \in 0 .. MaxSubmission
                              /\ application[b].profile \in 0 .. MaxSubmission
    BY <1>6 DEF CandidateRecords, ApplicationRecords
  <2> QED
    BY <2>1, <1>2, <1>3, Bounds DEF IInv, ReferencesAgree, Links
\* A deleted candidate owns no other submission.
<1>13. \A r \in Submissions, b \in Candidates :
          r # s /\ submission[r].owner = b => candidate'[b] = candidate[b]
  BY <1>11 DEF Referenced
<1>14. Rows'
  <2>1. Row(q)
    BY <1>2, <1>3, <1>4, <1>5 DEF Row
  <2> QED
    BY <2>1, <1>9 DEF IInv, Rows
<1>15. Owners'
  <2>1. \A r \in Submissions : submission'[r].owner # Nobody =>
           candidate'[submission'[r].owner].status # "none"
    BY <1>5, <1>9, <1>13 DEF IInv, Owners
  <2>2. \A r, t \in Submissions :
           /\ submission'[r].initial /\ ~ submission'[r].published
           /\ submission'[t].initial /\ ~ submission'[t].published
           /\ submission'[r].owner # Nobody /\ submission'[r].owner = submission'[t].owner
           => r = t
    BY <1>5, <1>9 DEF IInv, Owners, Fresh
  <2>3. ASSUME NEW b \in Candidates, candidate'[b].current # 0,
               submission'[candidate'[b].current].initial,
               ~ submission'[candidate'[b].current].published
        PROVE  candidate'[b].profile = 0
    BY <1>9, <1>11, <1>12, <2>3 DEF IInv, Owners, Fresh, NoCandidate
  <2>4. ASSUME NEW r \in Submissions, submission'[r].published
        PROVE  candidate'[submission'[r].owner].profile # 0
    <3>1. r # s /\ submission[r].owner \in Candidates
      BY <1>3, <1>4, <1>5, <1>9, <2>4 DEF IInv, Rows, Row
    <3> QED
      BY <1>9, <1>13, <2>4, <3>1 DEF IInv, Owners
  <2>5. \A b \in Candidates : application[b].state # "none" => candidate'[b].profile # 0
    BY <1>11 DEF IInv, Owners, Unneeded
  <2> QED
    BY <1>2, <2>1, <2>2, <2>3, <2>4, <2>5 DEF Owners, Fresh
<1>16. Links'
  <2>1. ASSUME NEW r \in Submissions, submission'[r].route.profile # 0
        PROVE  /\ submission'[submission'[r].route.profile].owner = submission'[r].owner
               /\ submission'[submission'[r].route.profile].published
    <3>1. r # s
      BY <1>3, <1>4, <1>5, <1>9, <2>1
    <3>2. IsProfileOf(submission[r].route.profile, submission[r].owner)
      BY <1>9, <2>1, <3>1, RowFacts
    <3> QED
      BY <1>3, <1>9, <3>1, <3>2 DEF IsProfileOf
  <2>2. \A b \in Candidates : application[b].resume # 0 =>
           submission'[application[b].resume].status = "completed"
    BY <1>9, <1>12 DEF IInv, Links
  <2> QED
    BY <1>2, <2>1, <2>2 DEF Links
<1>17. ReferencesAgree'
  <2>1. ASSUME NEW b \in Candidates
        PROVE  /\ \A t \in {candidate'[b].current, candidate'[b].profile,
                       application[b].resume, application[b].profile} \ {0} :
                    submission'[t].owner = b
               /\ \A t \in {candidate'[b].profile, application[b].profile} \ {0} :
                    submission'[t].published
    <3>1. CASE candidate'[b] = candidate[b] /\ candidate[b].current # s
      BY <1>9, <1>12, <3>1
    <3>2. CASE candidate'[b] = NoCandidate
      BY <1>9, <1>12, <3>2 DEF NoCandidate
    <3> QED
      BY <1>11, <3>1, <3>2
  <2> QED
    BY <1>2, <2>1 DEF ReferencesAgree
<1>18. ProcessingHasRun'
  <2> SUFFICES ASSUME NEW r \in Submissions
               PROVE  LET x == submission'[r]
                          archived == x.owner # Nobody /\ candidate'[x.owner].status # "none"
                                      /\ candidate'[x.owner].status = "archived"
                      IN /\ x.status \in {"queued", "extracting"}
                              => x.import.state = "active" \/ archived
                         /\ x.routing = "processing" => x.route.state = "active" \/ archived
    BY DEF ProcessingHasRun, Processing, Exists
  <2>1. CASE r = s
    BY <1>3, <1>4, <1>5, <1>9, <2>1
  <2>2. CASE r # s
    BY <1>9, <1>13, <2>2 DEF IInv, ProcessingHasRun, Processing, Exists
  <2> QED
    BY <2>1, <2>2
<1> QED
  BY <1>8, <1>14, <1>15, <1>16, <1>17, <1>18 DEF IInv

\* Archiving a candidate ends its runs and its application.
LEMMA Archived ==
  ASSUME IInv, NEW c \in Candidates, Archive(c)
  PROVE  IInv'
<1> DEFINE Ended(p) == [p EXCEPT !.import = CancelImport(p.import),
                                 !.route = CancelRouting(p.route)]
           k == [candidate[c] EXCEPT !.status = "archived"]
           a == [application[c] EXCEPT !.state = IF HasApplication(c) THEN "deleted"
                                                 ELSE application[c].state]
<1>1. /\ submission \in [Submissions -> SubmissionRecords]
      /\ candidate \in [Candidates -> CandidateRecords]
      /\ application \in [Candidates -> ApplicationRecords]
  BY TypeIs DEF IInv
<1>2. /\ candidate[c].status = "active"
      /\ candidate' = [candidate EXCEPT ![c] = k]
      /\ application' = [application EXCEPT ![c] = a]
      /\ \A s \in Submissions :
           submission'[s] = IF submission[s].owner = c THEN Ended(submission[s])
                            ELSE submission[s]
  BY <1>1 DEF Archive
<1>3. submission' = [s \in Submissions |-> IF submission[s].owner = c
                                           THEN Ended(submission[s]) ELSE submission[s]]
  BY DEF Archive
<1>4. ASSUME NEW p \in SubmissionRecords
      PROVE  /\ Ended(p) \in SubmissionRecords /\ Ended(p).status = p.status
             /\ Ended(p).owner = p.owner /\ Ended(p).initial = p.initial
             /\ Ended(p).published = p.published /\ Ended(p).review = p.review
             /\ Ended(p).routing = p.routing
             /\ Ended(p).import = CancelImport(p.import)
             /\ Ended(p).route = CancelRouting(p.route)
  <2>1. p.import \in ImportRuns /\ p.route \in RoutingRuns
    BY DEF SubmissionRecords
  <2>2. CancelImport(p.import) \in ImportRuns /\ CancelRouting(p.route) \in RoutingRuns
    BY <2>1, OverTyped DEF CancelImport, CancelRouting, RunStates
  <2> DEFINE import == CancelImport(p.import)
             route == CancelRouting(p.route)
  <2> HIDE DEF import, route
  <2>3. LET q == [p EXCEPT !.import = import, !.route = route]
        IN /\ q \in SubmissionRecords /\ q.status = p.status
           /\ q.owner = p.owner /\ q.initial = p.initial
           /\ q.published = p.published /\ q.review = p.review
           /\ q.routing = p.routing /\ q.import = import /\ q.route = route
    BY <2>2 DEF SubmissionRecords, import, route
  <2> QED
    BY <2>3 DEF import, route
<1>5. ASSUME NEW p \in SubmissionRecords, p.status # "none", Row(p)
      PROVE  /\ Row(Ended(p)) /\ CancelRouting(p.route).profile \in {0, p.route.profile}
  <2>1. /\ CancelImport(p.import).state # "active"
        /\ CancelRouting(p.route).state = "none" <=> p.route.state = "none"
        /\ CancelRouting(p.route).state # "active"
        /\ CancelRouting(p.route).profile =
             IF p.route.state = "active" THEN 0 ELSE p.route.profile
        /\ p.route.state \in RunStates
        /\ p.route.state = "active" => CancelRouting(p.route).state = "cancelled"
        /\ p.route.state # "active" => CancelRouting(p.route).state = p.route.state
    BY OverTyped DEF CancelImport, CancelRouting, RunStates, SubmissionRecords, RoutingRuns
  <2> HIDE DEF Ended
  <2> QED
    BY <1>4, <1>5, <2>1 DEF Row
<1>6. /\ k \in CandidateRecords /\ k.status = "archived"
      /\ k.current = candidate[c].current /\ k.profile = candidate[c].profile
  BY <1>1 DEF CandidateRecords
<1>7. /\ a \in ApplicationRecords
      /\ a.resume = application[c].resume /\ a.profile = application[c].profile
      /\ a.state # "none" => application[c].state # "none"
  BY <1>1 DEF ApplicationRecords, HasApplication
<1> HIDE DEF Ended, k, a
<1>8. TypeOK'
  <2>1. submission' \in [Submissions -> SubmissionRecords]
    BY <1>1, <1>3, <1>4
  <2>2. /\ candidate' \in [Candidates -> CandidateRecords]
        /\ application' \in [Candidates -> ApplicationRecords]
    BY <1>1, <1>2, <1>6, <1>7
  <2> QED
    BY <2>1, <2>2
     DEF TypeOK, SubmissionRecords, ImportRuns, RoutingRuns, CandidateRecords, ApplicationRecords
<1>9. \A s \in Submissions :
        /\ submission'[s].status = submission[s].status
        /\ submission'[s].owner = submission[s].owner
        /\ submission'[s].initial = submission[s].initial
        /\ submission'[s].published = submission[s].published
        /\ submission'[s].routing = submission[s].routing
        /\ submission[s].owner # c => submission'[s] = submission[s]
  BY <1>1, <1>2, <1>4
<1>10. \A d \in Candidates :
        /\ d # c => candidate'[d] = candidate[d] /\ application'[d] = application[d]
        /\ candidate'[d].current = candidate[d].current
        /\ candidate'[d].profile = candidate[d].profile
        /\ application'[d].resume = application[d].resume
        /\ application'[d].profile = application[d].profile
        /\ application'[d].state # "none" => application[d].state # "none"
        /\ candidate[d].status # "none" => candidate'[d].status # "none"
        /\ d = c => candidate'[d].status = "archived"
  BY <1>1, <1>2, <1>6, <1>7
<1>11. ASSUME NEW s \in Submissions
       PROVE  /\ Row(submission'[s])
              /\ submission'[s].route.profile \in {0, submission[s].route.profile}
  <2>1. submission[s] \in SubmissionRecords /\ Row(submission[s])
    BY RowFacts
  <2>2. CASE submission[s].owner = c
    <3>1. submission[s].status # "none"
      BY <2>1, <2>2, IntakeAssumption DEF Row, Unused
    <3> QED
      BY <1>2, <1>4, <1>5, <2>1, <2>2, <3>1
  <2>3. CASE submission[s].owner # c
    BY <1>2, <2>1, <2>3
  <2> QED
    BY <2>2, <2>3
<1>12. Rows'
  BY <1>11 DEF Rows
<1>13. \A d \in Candidates : /\ candidate[d].current \in 0 .. MaxSubmission
                             /\ candidate[d].profile \in 0 .. MaxSubmission
                             /\ application[d].resume \in 0 .. MaxSubmission
                             /\ application[d].profile \in 0 .. MaxSubmission
  BY <1>1 DEF CandidateRecords, ApplicationRecords
<1>14. \A s \in Submissions : submission[s].owner \in Candidates \cup {Nobody}
  BY <1>1 DEF SubmissionRecords
<1>15. Owners'
  <2>1. \A s \in Submissions : submission'[s].owner # Nobody =>
           candidate'[submission'[s].owner].status # "none"
    BY <1>9, <1>10, <1>14 DEF IInv, Owners
  <2>2. \A r, s \in Submissions :
           /\ submission'[r].initial /\ ~ submission'[r].published
           /\ submission'[s].initial /\ ~ submission'[s].published
           /\ submission'[r].owner # Nobody /\ submission'[r].owner = submission'[s].owner
           => r = s
    BY <1>9 DEF IInv, Owners, Fresh
  <2>3. \A d \in Candidates :
           /\ candidate'[d].current # 0
           /\ submission'[candidate'[d].current].initial
           /\ ~ submission'[candidate'[d].current].published
           => candidate'[d].profile = 0
    BY <1>9, <1>10, <1>13, Bounds DEF IInv, Owners, Fresh
  <2>4. ASSUME NEW s \in Submissions, submission'[s].published
        PROVE  candidate'[submission'[s].owner].profile # 0
    <3>1. submission[s].owner \in Candidates
      BY <1>9, <1>14, <2>4 DEF IInv, Rows, Row
    <3> QED
      BY <1>9, <1>10, <2>4, <3>1 DEF IInv, Owners
  <2>5. \A d \in Candidates : application'[d].state # "none" => candidate'[d].profile # 0
    BY <1>10 DEF IInv, Owners
  <2> QED
    BY <2>1, <2>2, <2>3, <2>4, <2>5 DEF Owners, Fresh
<1>16. Links'
  <2>1. ASSUME NEW s \in Submissions, submission'[s].route.profile # 0
        PROVE  /\ submission'[submission'[s].route.profile].owner = submission'[s].owner
               /\ submission'[submission'[s].route.profile].published
    <3>1. submission'[s].route.profile = submission[s].route.profile
      BY <1>11, <2>1
    <3>2. IsProfileOf(submission[s].route.profile, submission[s].owner)
      BY <2>1, <3>1, RowFacts
    <3> QED
      BY <1>9, <3>1, <3>2 DEF IsProfileOf
  <2>2. \A d \in Candidates : application'[d].resume # 0 =>
           submission'[application'[d].resume].status = "completed"
    BY <1>9, <1>10, <1>13, Bounds DEF IInv, Links
  <2> QED
    BY <2>1, <2>2 DEF Links
<1>17. ReferencesAgree'
  <2>1. ASSUME NEW d \in Candidates
        PROVE  /\ \A t \in {candidate'[d].current, candidate'[d].profile,
                       application'[d].resume, application'[d].profile} \ {0} :
                    submission'[t].owner = d
               /\ \A t \in {candidate'[d].profile, application'[d].profile} \ {0} :
                    submission'[t].published
    BY <1>9, <1>10, <1>13, Bounds DEF IInv, ReferencesAgree
  <2> QED
    BY <2>1 DEF ReferencesAgree
<1>18. ProcessingHasRun'
  <2> SUFFICES ASSUME NEW s \in Submissions
               PROVE  LET p == submission'[s]
                          archived == p.owner # Nobody /\ candidate'[p.owner].status # "none"
                                      /\ candidate'[p.owner].status = "archived"
                      IN /\ p.status \in {"queued", "extracting"}
                              => p.import.state = "active" \/ archived
                         /\ p.routing = "processing" => p.route.state = "active" \/ archived
    BY DEF ProcessingHasRun, Processing, Exists
  <2>1. CASE submission[s].owner = c
    BY <1>9, <1>10, <2>1, IntakeAssumption
  <2>2. CASE submission[s].owner # c
    BY <1>9, <1>10, <1>14, <2>2 DEF IInv, ProcessingHasRun, Processing, Exists
  <2> QED
    BY <2>1, <2>2
<1> QED
  BY <1>8, <1>12, <1>15, <1>16, <1>17, <1>18 DEF IInv

LEMMA InitInv ==
  ASSUME Init
  PROVE  IInv
<1>1. NoImport \in ImportRuns /\ NoRouting \in RoutingRuns
      /\ NoImport.state = "none" /\ NoRouting.state = "none" /\ NoRouting.profile = 0
  BY Bounds DEF NoImport, NoRouting, ImportRuns, RoutingRuns, RunStates
<1>2. Unused \in SubmissionRecords /\ Row(Unused)
  <2>1. /\ Unused \in SubmissionRecords /\ ~ Unused.published /\ Unused.route = NoRouting
        /\ Unused.routing = "none" /\ Unused.review = "none" /\ Unused.import = NoImport
    <3> HIDE DEF NoImport, NoRouting
    <3> QED
      BY <1>1 DEF Unused, SubmissionRecords, Reviews, RecoveryCodes, RoutingOutcomes
  <2> QED
    BY <1>1, <2>1 DEF Row
<1>3. NoCandidate \in CandidateRecords /\ NoApplication \in ApplicationRecords
  BY Bounds DEF NoCandidate, NoApplication, CandidateRecords, ApplicationRecords
<1>4. TypeOK
  BY <1>2, <1>3, TypeIs DEF Init
<1>5. \A s \in Submissions : /\ submission[s].owner = Nobody /\ ~ submission[s].published
                             /\ submission[s].status = "none"
                             /\ submission[s].routing = "none"
                             /\ submission[s].route.profile = 0
  BY <1>1 DEF Init, Unused
<1>6. \A c \in Candidates : /\ candidate[c].current = 0 /\ candidate[c].profile = 0
                            /\ application[c].resume = 0 /\ application[c].profile = 0
                            /\ application[c].state = "none"
  BY DEF Init, NoCandidate, NoApplication
<1>7. Rows
  BY <1>2 DEF Rows, Init
<1>8. Owners
  BY <1>5, <1>6 DEF Owners
<1>9. Links /\ ReferencesAgree
  BY <1>5, <1>6 DEF Links, ReferencesAgree
<1>10. ProcessingHasRun
  BY <1>5 DEF ProcessingHasRun, Processing
<1> QED
  BY <1>4, <1>7, <1>8, <1>9, <1>10 DEF IInv

LEMMA NextInv ==
  ASSUME IInv, [Next]_vars
  PROVE  IInv'
<1>1. CASE UNCHANGED vars
  BY <1>1 DEF vars, IInv, TypeOK, Rows, Owners, Fresh, Links, ReferencesAgree,
              ProcessingHasRun, Processing, Exists
<1>2. ASSUME NEW s \in Submissions, NEW c \in Candidates, Upload(c, s)
      PROVE  IInv'
  BY <1>2, Uploads
<1>3. ASSUME NEW s \in Submissions, NEW old \in Submissions, NewVersion(old, s)
      PROVE  IInv'
  BY <1>3, NewVersions
<1>4. ASSUME NEW s \in Submissions, ImportStep(s)
      PROVE  IInv'
  BY <1>4, ImportWorks, ImportStops, ImportEnds DEF ImportStep
<1>5. ASSUME NEW s \in Submissions, RoutingStep(s)
      PROVE  IInv'
  BY <1>5, RoutingWorks, RoutingEnds DEF RoutingStep
<1>6. ASSUME NEW s \in Submissions, Decision(s)
      PROVE  IInv'
  BY <1>6, RoutingRetries, JobsSelected, Discarded, Adopted DEF Decision
<1>7. ASSUME NEW c \in Candidates, Archive(c)
      PROVE  IInv'
  BY <1>7, Archived
<1> QED
  BY <1>1, <1>2, <1>3, <1>4, <1>5, <1>6, <1>7 DEF Next

LEMMA Invariance ==
  Spec => []IInv
<1>1. Init => IInv
  BY InitInv
<1>2. IInv /\ [Next]_vars => IInv'
  BY NextInv
<1> QED
  BY <1>1, <1>2, PTL DEF Spec

(***************************************************************************)
(* What the rows tell                                                      *)
(***************************************************************************)
\* What a row tells the interface: a code fits the status and the outcomes it is
\* shown with, and what can be adopted has been structured.
Told(p) ==
    /\ p.status \in {"none", "queued", "extracting"} => p.recovery = "none"
    /\ p.recovery = "publish" => p.status = "failed"
    /\ p.recovery \in {"routing_manual", "routing_retry"}
         => p.routing \in {"failed", "manual_available"}
    /\ p.recovery = "duplicate_blocked" => p.review = "blocked"
    /\ p.import.state = "active" /\ p.import.step = "publish" => p.structured
    /\ p.review = "match" => p.structured

\* A match is a candidate with a profile, as the owner of a completed submission.
\* A candidate whose current submission is a fresh upload has no other one.
Known ==
    /\ \A s \in Submissions : submission[s].review \in {"match", "blocked"} =>
         /\ submission[s].match \in Candidates
         /\ candidate[submission[s].match].profile # 0
    /\ \A s \in Submissions : submission[s].status = "completed" /\ submission[s].owner # Nobody =>
         candidate[submission[s].owner].profile # 0
    /\ \A c \in Candidates : candidate[c].current # 0 /\ Fresh(candidate[c].current) =>
         \A r \in Submissions \ {candidate[c].current} : submission[r].owner # c

Tells == Known /\ \A s \in Submissions : Told(submission[s])

\* Row q in place of row s.  A candidate's current submission stays, or becomes
\* s; and if s is a fresh upload the candidate has no other one.
LEMMA TellsMove ==
  ASSUME IInv, Tells, NEW s \in Submissions, NEW q \in SubmissionRecords, Told(q),
         submission' = [submission EXCEPT ![s] = q],
         q.review \in {"match", "blocked"} =>
           q.match \in Candidates /\ candidate'[q.match].profile # 0,
         q.status = "completed" /\ q.owner # Nobody => candidate'[q.owner].profile # 0,
         \A d \in Candidates : candidate[d].profile # 0 => candidate'[d].profile # 0,
         \A d \in Candidates : candidate'[d].current # 0 =>
           \/ /\ candidate'[d].current # s /\ candidate'[d].current = candidate[d].current
              /\ q.owner = d => submission[s].owner = d
           \/ /\ candidate'[d].current = s
              /\ q.initial /\ ~ q.published =>
                   \A r \in Submissions \ {s} : submission[r].owner # d
  PROVE  Tells'
<1>1. /\ submission \in [Submissions -> SubmissionRecords]
      /\ candidate \in [Candidates -> CandidateRecords]
  BY TypeIs DEF IInv
<1>2. /\ submission'[s] = q
      /\ \A r \in Submissions : r # s => submission'[r] = submission[r]
  BY <1>1
<1>3. \A r \in Submissions : submission[r].owner \in Candidates \cup {Nobody}
  BY <1>1 DEF SubmissionRecords
<1>4. \A r \in Submissions : Told(submission'[r])
  BY <1>2 DEF Tells
<1>5. \A r \in Submissions : submission'[r].review \in {"match", "blocked"} =>
        /\ submission'[r].match \in Candidates
        /\ candidate'[submission'[r].match].profile # 0
  BY <1>2 DEF Tells, Known
<1>6. \A r \in Submissions : submission'[r].status = "completed" /\ submission'[r].owner # Nobody =>
        candidate'[submission'[r].owner].profile # 0
  BY <1>2, <1>3 DEF Tells, Known
<1>7. ASSUME NEW d \in Candidates, candidate'[d].current # 0,
             submission'[candidate'[d].current].initial,
             ~ submission'[candidate'[d].current].published,
             NEW r \in Submissions \ {candidate'[d].current}
      PROVE  submission'[r].owner # d
  <2>1. CASE /\ candidate'[d].current # s /\ candidate'[d].current = candidate[d].current
             /\ q.owner = d => submission[s].owner = d
    <3>1. candidate[d].current \in Submissions
      BY <1>1, <1>7, <2>1, Bounds DEF CandidateRecords
    <3>2. submission[r].owner # d
      BY <1>2, <1>7, <2>1, <3>1 DEF Tells, Known, Fresh
    <3> QED
      BY <1>2, <2>1, <3>2
  <2>2. CASE /\ candidate'[d].current = s
             /\ q.initial /\ ~ q.published =>
                  \A t \in Submissions \ {s} : submission[t].owner # d
    BY <1>2, <1>7, <2>2
  <2> QED
    BY <1>7, <2>1, <2>2
<1>8. Known'
  BY <1>5, <1>6, <1>7 DEF Known, Fresh
<1> QED
  BY <1>4, <1>8 DEF Tells

\* A step that leaves the candidates alone.
LEMMA TellsRow ==
  ASSUME IInv, Tells, NEW s \in Submissions, NEW q \in SubmissionRecords, Told(q),
         q.owner = submission[s].owner, q.initial = submission[s].initial,
         q.published = submission[s].published,
         submission' = [submission EXCEPT ![s] = q], candidate' = candidate,
         q.review \in {"match", "blocked"} =>
           q.match \in Candidates /\ candidate[q.match].profile # 0,
         q.status = "completed" /\ q.owner # Nobody => candidate[q.owner].profile # 0
  PROVE  Tells'
<1>1. \A d \in Candidates : candidate'[d].current # 0 =>
        \/ /\ candidate'[d].current # s /\ candidate'[d].current = candidate[d].current
           /\ q.owner = d => submission[s].owner = d
        \/ /\ candidate'[d].current = s
           /\ q.initial /\ ~ q.published =>
                \A r \in Submissions \ {s} : submission[r].owner # d
  BY DEF Tells, Known, Fresh
<1> QED
  BY <1>1, TellsMove

\* What the row operators do to the fields that matter here.
LEMMA CompletedSays ==
  ASSUME NEW p \in SubmissionRecords
  PROVE  Completed(p).recovery = "none"
BY DEF Completed, SubmissionRecords

LEMMA ReviewedSays ==
  ASSUME NEW p \in SubmissionRecords, NEW kind \in Reviews, NEW code \in RecoveryCodes
  PROVE  LET q == Reviewed(p, kind, code)
         IN q.recovery = code /\ q.structured = p.structured /\ q.match = p.match
BY DEF Reviewed, SubmissionRecords

LEMMA RoutedSays ==
  ASSUME NEW p \in SubmissionRecords, NEW outcome \in RoutingOutcomes,
         NEW code \in RecoveryCodes
  PROVE  LET q == Routed(p, outcome, code)
         IN /\ q.structured = p.structured /\ q.match = p.match
            /\ code # "none" => q.recovery = code
            /\ code = "none" /\ outcome \notin {"failed", "manual_available"} =>
                 q.recovery = "none"
BY DEF Routed, SubmissionRecords, RecoveryCodes

LEMMA QueuedSays ==
  ASSUME NEW p \in SubmissionRecords, NEW profile \in Submissions
  PROVE  QueueRouting(p, profile).recovery = "none"
<1> DEFINE r == Routed(p, "processing", "none")
           new == [state |-> "active", step |-> "freeze", profile |-> profile]
           run == IF r.route.state = "active" THEN r.route ELSE new
           q == [r EXCEPT !.route = run]
<1>1. r \in SubmissionRecords /\ r.recovery = "none"
  BY RoutedRow, RoutedSays DEF RoutingOutcomes, RecoveryCodes
<1>2. QueueRouting(p, profile) = q
  BY DEF QueueRouting
<1> HIDE DEF r, run
<1>3. q.recovery = r.recovery
  BY <1>1 DEF SubmissionRecords
<1> QED
  BY <1>1, <1>2, <1>3

LEMMA PublishedSays ==
  ASSUME NEW p \in SubmissionRecords, NEW c \in Candidates
  PROVE  Published(p, c).recovery = "none"
<1>1. Completed(p) \in SubmissionRecords /\ Completed(p).recovery = "none"
  BY CompletedRow, CompletedSays
<1> DEFINE r == Completed(p)
<1> HIDE DEF r
<1> QED
  BY <1>1 DEF Published, r, SubmissionRecords

\* A completed row without a code tells nothing wrong.
LEMMA CompletedTells ==
  ASSUME NEW q, q.status = "completed", q.review = "none", q.recovery = "none",
         q.import.state # "active"
  PROVE  Told(q)
BY DEF Told

\* The steps that start a submission.
LEMMA TellsStart ==
  ASSUME IInv, Tells, NEW s \in Submissions, submission[s].status = "none",
         NEW c \in Candidates, NEW q \in SubmissionRecords, NEW k \in CandidateRecords,
         q.status = "queued", q.owner = c, q.recovery = "none", q.review = "none",
         q.import.step = "parse", q.initial => candidate[c].status = "none",
         k.current = s, k.profile = candidate[c].profile,
         submission' = [submission EXCEPT ![s] = q],
         candidate' = [candidate EXCEPT ![c] = k]
  PROVE  Tells'
<1>1. candidate \in [Candidates -> CandidateRecords]
  BY TypeIs DEF IInv
<1>2. candidate'[c] = k /\ \A d \in Candidates : d # c => candidate'[d] = candidate[d]
  BY <1>1
<1>3. Told(q)
  BY DEF Told
<1>4. submission[s].owner = Nobody
  BY DEF IInv, Rows, Row, Unused
<1>5. \A d \in Candidates : candidate[d].current # 0 => candidate[d].current # s
  <2>1. \A d \in Candidates : candidate[d].current # 0 =>
           submission[candidate[d].current].owner = d
    BY DEF IInv, ReferencesAgree
  <2> QED
    BY <1>4, <2>1, IntakeAssumption
<1>6. \A r \in Submissions : q.initial => submission[r].owner # c
  BY IntakeAssumption DEF IInv, Owners
<1>7. \A d \in Candidates : candidate'[d].current # 0 =>
        \/ /\ candidate'[d].current # s /\ candidate'[d].current = candidate[d].current
           /\ q.owner = d => submission[s].owner = d
        \/ /\ candidate'[d].current = s
           /\ q.initial /\ ~ q.published =>
                \A r \in Submissions \ {s} : submission[r].owner # d
  BY <1>2, <1>5, <1>6
<1>8. \A d \in Candidates : candidate[d].profile # 0 => candidate'[d].profile # 0
  BY <1>2
<1> QED
  BY <1>3, <1>7, <1>8, TellsMove

\* What a new row tells besides what NewRow says of it.
LEMMA NewRowSays ==
  ASSUME NEW c \in Candidates, NEW kept
  PROVE  LET q == NewSubmission(c, kept)
         IN q.recovery = "none" /\ q.import.step = "parse"
<1> DEFINE run == [NoImport EXCEPT !.state = "active"]
           parsed == "parsed" \in kept
           structured == "structured" \in kept
<1>1. run.step = "parse"
  BY DEF NoImport
<1> DEFINE q == [Unused EXCEPT !.status = "queued", !.owner = c, !.parsed = parsed,
                               !.structured = structured, !.import = run]
<1>2. NewSubmission(c, kept) = q
  BY DEF NewSubmission
<1> HIDE DEF run, parsed, structured
<1>3. q.recovery = "none" /\ q.import = run
  BY DEF Unused
<1> QED
  BY <1>1, <1>2, <1>3

LEMMA TellsUpload ==
  ASSUME IInv, Tells, NEW c \in Candidates, NEW s \in Submissions, Upload(c, s)
  PROVE  Tells'
<1> DEFINE n == NewSubmission(c, {})
           q == [n EXCEPT !.initial = TRUE]
           k == [NoCandidate EXCEPT !.status = "active", !.current = s]
<1>1. /\ submission[s].status = "none" /\ candidate[c].status = "none"
      /\ submission' = [submission EXCEPT ![s] = q]
      /\ candidate' = [candidate EXCEPT ![c] = k]
  BY DEF Upload, Next1
<1>2. /\ n \in SubmissionRecords /\ n.status = "queued" /\ n.owner = c /\ n.review = "none"
      /\ n.recovery = "none" /\ n.import.step = "parse"
  BY NewRow, NewRowSays
<1> HIDE DEF n
<1>3. /\ q \in SubmissionRecords /\ q.status = n.status /\ q.owner = n.owner
      /\ q.review = n.review /\ q.recovery = n.recovery /\ q.import = n.import
  BY <1>2 DEF SubmissionRecords
<1>4. k \in CandidateRecords /\ k.current = s /\ k.profile = 0
  BY Bounds DEF NoCandidate, CandidateRecords
<1>5. candidate[c].profile = 0
  <2> SUFFICES ASSUME candidate[c].profile # 0 PROVE FALSE
    OBVIOUS
  <2>1. \E t \in Submissions : submission[t].owner = c
    BY ProfileOf DEF IsProfileOf
  <2> QED
    BY <1>1, <2>1, IntakeAssumption DEF IInv, Owners
<1> HIDE DEF q, k
<1>6. q.status = "queued" /\ q.owner = c /\ q.recovery = "none" /\ q.review = "none"
      /\ q.import.step = "parse" /\ k.profile = candidate[c].profile
  BY <1>2, <1>3, <1>4, <1>5
<1> QED
  BY <1>1, <1>3, <1>4, <1>6, TellsStart

LEMMA TellsNewVersion ==
  ASSUME IInv, Tells, NEW old \in Submissions, NEW s \in Submissions, NewVersion(old, s)
  PROVE  Tells'
<1> DEFINE c == submission[old].owner
<1>1. c \in Candidates
  BY RowFacts DEF NewVersion, Replace, Reparse, Correct, Republish, CanReplace, CanReparse,
                  CanCorrect, CanRepublish, IsCurrent, Exists, SubmissionRecords
<1>2. PICK kept : Supersede(NewSubmission(c, kept), s)
  BY DEF NewVersion, Replace, Reparse, Correct, Republish
<1> HIDE DEF c
<1> DEFINE q == NewSubmission(c, kept)
           k == [candidate[c] EXCEPT !.current = s]
<1>3. /\ q \in SubmissionRecords /\ q.status = "queued" /\ q.owner = c /\ q.review = "none"
      /\ ~ q.initial /\ q.recovery = "none" /\ q.import.step = "parse"
  BY <1>1, NewRow, NewRowSays
<1>4. /\ submission[s].status = "none"
      /\ submission' = [submission EXCEPT ![s] = q]
      /\ candidate' = [candidate EXCEPT ![q.owner].current = s]
  BY <1>2 DEF Supersede, Next1
<1> HIDE DEF q
<1>5. candidate' = [candidate EXCEPT ![c] = k]
  BY <1>3, <1>4
<1>6. candidate[c] \in CandidateRecords
  BY <1>1, TypeIs DEF IInv
<1>7. k \in CandidateRecords /\ k.current = s /\ k.profile = candidate[c].profile
  BY <1>6, Bounds DEF CandidateRecords
<1> HIDE DEF k
<1> QED
  BY <1>1, <1>3, <1>4, <1>5, <1>7, TellsStart

\* The steps of an import that leave the candidates alone.
LEMMA TellsImport ==
  ASSUME IInv, Tells, NEW s \in Submissions,
         ImportParses(s) \/ ImportStructures(s) \/ ImportIsBlocked(s) \/ ImportFails(s)
  PROVE  Tells'
<1> DEFINE p == submission[s]
<1>1. p \in SubmissionRecords /\ p.import \in ImportRuns /\ Told(p)
  BY RowFacts DEF Tells
<1>2. p.import.state = "active" /\ p.review = "none" /\ p.status \in {"queued", "extracting"}
  BY ImportFacts DEF ImportParses, ImportStructures, ImportIsBlocked, ImportFails, Importing
<1>3. p.recovery = "none"
  BY <1>1, <1>2 DEF Told
<1>4. CASE ImportParses(s)
  <2> DEFINE run == [p.import EXCEPT !.step = "structure"]
             q == [p EXCEPT !.status = "extracting", !.parsed = TRUE, !.import = run]
  <2>1. run \in ImportRuns /\ run.step = "structure"
    BY <1>1 DEF ImportRuns
  <2>2. submission' = [submission EXCEPT ![s] = q] /\ candidate' = candidate
    BY <1>4 DEF ImportParses, SetSubmission
  <2> HIDE DEF run
  <2>3. /\ q \in SubmissionRecords /\ q.status = "extracting" /\ q.import = run
        /\ q.owner = p.owner /\ q.initial = p.initial /\ q.published = p.published
        /\ q.review = p.review /\ q.recovery = p.recovery
    BY <1>1, <2>1 DEF SubmissionRecords
  <2> HIDE DEF q
  <2>4. Told(q)
    BY <1>2, <1>3, <2>1, <2>3 DEF Told
  <2> QED
    BY <1>2, <2>2, <2>3, <2>4, TellsRow
<1>5. CASE ImportStructures(s)
  <2> DEFINE run == [p.import EXCEPT !.step = "publish"]
             q == [p EXCEPT !.structured = TRUE, !.import = run]
  <2>1. run \in ImportRuns
    BY <1>1 DEF ImportRuns
  <2>2. submission' = [submission EXCEPT ![s] = q] /\ candidate' = candidate
    BY <1>5 DEF ImportStructures, SetSubmission
  <2> HIDE DEF run
  <2>3. /\ q \in SubmissionRecords /\ q.status = p.status /\ q.structured
        /\ q.owner = p.owner /\ q.initial = p.initial /\ q.published = p.published
        /\ q.review = p.review /\ q.recovery = p.recovery
    BY <1>1, <2>1 DEF SubmissionRecords
  <2> HIDE DEF q
  <2>4. Told(q)
    BY <1>2, <1>3, <2>3 DEF Told
  <2> QED
    BY <1>2, <2>2, <2>3, <2>4, TellsRow
<1>6. CASE ImportIsBlocked(s)
  <2> DEFINE r == Reviewed(p, "structure", "structure_input")
             q == [r EXCEPT !.import = ImportOver("blocked")]
  <2>1. /\ r \in SubmissionRecords /\ r.status = "review_required" /\ r.review = "structure"
        /\ r.owner = p.owner /\ r.initial = p.initial /\ r.published = p.published
        /\ r.recovery = "structure_input"
    <3>1. "structure" \in Reviews /\ "structure_input" \in RecoveryCodes
      BY DEF Reviews, RecoveryCodes
    <3>2. /\ r \in SubmissionRecords /\ r.status = "review_required" /\ r.review = "structure"
          /\ r.owner = p.owner /\ r.initial = p.initial /\ r.published = p.published
      BY <1>1, <3>1, ReviewedRow
    <3>3. r.recovery = "structure_input"
      BY <1>1, <3>1, ReviewedSays
    <3> QED
      BY <3>2, <3>3
  <2>2. submission' = [submission EXCEPT ![s] = q] /\ candidate' = candidate
    BY <1>6 DEF ImportIsBlocked, SetSubmission
  <2> HIDE DEF r
  <2>3. /\ q \in SubmissionRecords /\ q.import.state = "blocked" /\ q.status = r.status
        /\ q.owner = r.owner /\ q.initial = r.initial /\ q.published = r.published
        /\ q.review = r.review /\ q.recovery = r.recovery
    BY <2>1, OverTyped DEF SubmissionRecords, RunStates
  <2> HIDE DEF q
  <2>4. Told(q)
    BY <2>1, <2>3 DEF Told
  <2> QED
    BY <2>1, <2>2, <2>3, <2>4, TellsRow
<1>7. CASE ImportFails(s)
  <2>1. PICK code \in FailureCode(p.import.step) :
           LET q == [p EXCEPT !.status = "failed", !.review = "none", !.recovery = code,
                              !.import = ImportOver("failed")]
           IN submission' = [submission EXCEPT ![s] = q] /\ candidate' = candidate
    BY <1>7 DEF ImportFails, Failed, SetSubmission
  <2> DEFINE q == [p EXCEPT !.status = "failed", !.review = "none", !.recovery = code,
                            !.import = ImportOver("failed")]
  <2>2. code \in {"source", "parse", "structure", "publish"}
    BY <1>1 DEF FailureCode, ImportRuns
  <2>3. /\ q \in SubmissionRecords /\ q.import.state = "failed" /\ q.status = "failed"
        /\ q.owner = p.owner /\ q.initial = p.initial /\ q.published = p.published
        /\ q.review = "none" /\ q.recovery = code
    BY <1>1, <2>2, OverTyped DEF SubmissionRecords, RunStates, Reviews, RecoveryCodes
  <2> HIDE DEF q
  <2>4. Told(q)
    BY <2>2, <2>3 DEF Told
  <2>5. submission' = [submission EXCEPT ![s] = q] /\ candidate' = candidate
    BY <2>1 DEF q
  <2> QED
    BY <2>3, <2>4, <2>5, TellsRow
<1> QED
  BY <1>4, <1>5, <1>6, <1>7

\* The steps that make a submission the profile of candidate c; whoever owned it
\* before may be deleted.
LEMMA TellsProfile ==
  ASSUME IInv, Tells, NEW s \in Submissions, NEW c \in Candidates,
         NEW q \in SubmissionRecords, q.status = "completed", q.review = "none",
         q.recovery = "none", q.import.state # "active", q.owner = c, q.published,
         submission' = [submission EXCEPT ![s] = q],
         candidate'[c].profile # 0,
         \/ candidate'[c].current = s
         \/ candidate'[c].current = candidate[c].current /\ submission[s].owner = c,
         \A d \in Candidates \ {c} : \/ candidate'[d] = candidate[d]
                                     \/ candidate'[d] = NoCandidate /\ candidate[d].profile = 0
  PROVE  Tells'
<1>1. Told(q)
  BY CompletedTells
<1>2. \A d \in Candidates : candidate[d].profile # 0 => candidate'[d].profile # 0
  OBVIOUS
<1>3. \A d \in Candidates : candidate'[d].current # 0 =>
        \/ /\ candidate'[d].current # s /\ candidate'[d].current = candidate[d].current
           /\ q.owner = d => submission[s].owner = d
        \/ /\ candidate'[d].current = s
           /\ q.initial /\ ~ q.published =>
                \A r \in Submissions \ {s} : submission[r].owner # d
  BY DEF NoCandidate
<1> QED
  BY <1>1, <1>2, <1>3, TellsMove

\* The row that Rebuild writes.
LEMMA RebuildSays ==
  ASSUME NEW s \in Submissions, NEW c \in Candidates, NEW p \in SubmissionRecords,
         Rebuild(s, c, p)
  PROVE  \E q \in SubmissionRecords :
           /\ q.status = "completed" /\ q.review = "none" /\ q.recovery = "none"
           /\ q.import = p.import /\ q.owner = c /\ q.published
           /\ submission' = [submission EXCEPT ![s] = q]
<1> DEFINE d == Published(p, c)
           r == QueueRouting(d, s)
<1>1. /\ d \in SubmissionRecords /\ d.status = "completed" /\ d.review = "none"
      /\ d.recovery = "none" /\ d.import = p.import /\ d.owner = c /\ d.published
  BY PublishedRow, PublishedSays
<1>2. submission' = [submission EXCEPT ![s] = d] \/ submission' = [submission EXCEPT ![s] = r]
  BY DEF Rebuild
<1> HIDE DEF d
<1>3. /\ r \in SubmissionRecords /\ r.status = d.status /\ r.review = d.review
      /\ r.recovery = "none" /\ r.import = d.import /\ r.owner = d.owner
      /\ r.published = d.published
  BY <1>1, QueuedRow, QueuedSays
<1> HIDE DEF r
<1> QED
  BY <1>1, <1>2, <1>3

\* A match on file leaves the submission to a person.
LEMMA TellsMatch ==
  ASSUME IInv, Tells, NEW s \in Submissions, Importing(s, "publish"),
         NEW kind \in {"match", "ambiguous", "blocked"}, NEW code \in RecoveryCodes,
         code = IF kind = "blocked" THEN "duplicate_blocked" ELSE "none",
         NEW c \in Candidates \cup {Nobody},
         kind # "ambiguous" => c \in Candidates /\ candidate[c].profile # 0,
         LET p == [submission[s] EXCEPT !.import = ImportOver("completed")]
         IN SetSubmission(s, [Reviewed(p, kind, code) EXCEPT !.match = c])
  PROVE  Tells'
<1> DEFINE p == submission[s]
           o == [p EXCEPT !.import = ImportOver("completed")]
           r == Reviewed(o, kind, code)
           q == [r EXCEPT !.match = c]
<1>1. /\ p \in SubmissionRecords /\ p.structured
  BY RowFacts DEF Importing, Tells, Told
<1>2. /\ o \in SubmissionRecords /\ o.import.state = "completed" /\ o.owner = p.owner
      /\ o.initial = p.initial /\ o.published = p.published /\ o.structured = p.structured
  BY <1>1, OverTyped DEF RunStates, SubmissionRecords
<1>3. submission' = [submission EXCEPT ![s] = q] /\ candidate' = candidate
  BY DEF SetSubmission
<1> HIDE DEF o
<1>4. kind \in Reviews
  BY DEF Reviews
<1>5. /\ r \in SubmissionRecords /\ r.status = "review_required" /\ r.review = kind
      /\ r.owner = o.owner /\ r.initial = o.initial /\ r.published = o.published
      /\ r.import = o.import
  BY <1>2, <1>4, ReviewedRow
<1>6. r.recovery = code /\ r.structured = o.structured
  BY <1>2, <1>4, ReviewedSays
<1> HIDE DEF r
<1>7. /\ q \in SubmissionRecords /\ q.status = r.status /\ q.review = r.review
      /\ q.owner = r.owner /\ q.initial = r.initial /\ q.published = r.published
      /\ q.import = r.import /\ q.recovery = r.recovery /\ q.structured = r.structured
      /\ q.match = c
  BY <1>5 DEF SubmissionRecords
<1> HIDE DEF q
<1>8. Told(q)
  BY <1>1, <1>2, <1>5, <1>6, <1>7 DEF Told
<1> QED
  BY <1>2, <1>3, <1>5, <1>7, <1>8, TellsRow

\* The ends of an import.
LEMMA TellsImportEnds ==
  ASSUME IInv, Tells, NEW s \in Submissions, ImportPublishes(s) \/ ImportRepublishes(s)
  PROVE  Tells'
<1> DEFINE old == submission[s]
           p == [old EXCEPT !.import = ImportOver("completed")]
           c == old.owner
<1>1. old \in SubmissionRecords /\ old.import.state = "active" /\ c \in Candidates
  BY RowFacts, ImportFacts DEF ImportPublishes, ImportRepublishes, Importing
<1>2. p \in SubmissionRecords /\ p.import.state = "completed" /\ p.owner = c
  BY <1>1, OverRow DEF RunStates
<1>3. candidate \in [Candidates -> CandidateRecords] /\ s # 0
  BY TypeIs, Bounds DEF IInv
<1>4. CASE ImportPublishes(s)
  <2>1. /\ Importing(s, "publish")
        /\ \/ SetSubmission(s, Reviewed(p, "ambiguous", "none"))
           \/ \E d \in OnFile :
                \/ SetSubmission(s, [Reviewed(p, "match", "none") EXCEPT !.match = d])
                \/ SetSubmission(s, [Reviewed(p, "blocked", "duplicate_blocked")
                                       EXCEPT !.match = d])
           \/ /\ submission' = [submission EXCEPT
                                  ![s] = QueueRouting(Published(p, p.owner), s)]
              /\ candidate' = [candidate EXCEPT ![p.owner].profile = s]
    BY <1>4 DEF ImportPublishes
  <2>2. ASSUME NEW kind \in {"match", "ambiguous", "blocked"}, NEW code \in RecoveryCodes,
               code = IF kind = "blocked" THEN "duplicate_blocked" ELSE "none",
               NEW d \in Candidates \cup {Nobody},
               kind # "ambiguous" => d \in Candidates /\ candidate[d].profile # 0,
               SetSubmission(s, [Reviewed(p, kind, code) EXCEPT !.match = d])
        PROVE  Tells'
    BY <2>1, <2>2, TellsMatch
  <2>3. "none" \in RecoveryCodes /\ "duplicate_blocked" \in RecoveryCodes
    BY DEF RecoveryCodes
  <2> HIDE DEF p
  <2>4. CASE SetSubmission(s, Reviewed(p, "ambiguous", "none"))
    <3> DEFINE r == Reviewed(p, "ambiguous", "none")
    <3>1. r \in SubmissionRecords
      BY <1>2, ReviewedRow DEF Reviews, RecoveryCodes
    <3>2. r = [r EXCEPT !.match = r.match] /\ r.match \in Candidates \cup {Nobody}
      BY <3>1 DEF SubmissionRecords
    <3>3. SetSubmission(s, [r EXCEPT !.match = r.match])
      BY <2>4, <3>2
    <3> QED
      BY <2>2, <2>3, <3>2, <3>3
  <2>5. ASSUME NEW d \in OnFile,
               \/ SetSubmission(s, [Reviewed(p, "match", "none") EXCEPT !.match = d])
               \/ SetSubmission(s, [Reviewed(p, "blocked", "duplicate_blocked")
                                      EXCEPT !.match = d])
        PROVE  Tells'
    <3>1. d \in Candidates /\ candidate[d].profile # 0
      BY DEF OnFile
    <3>2. CASE SetSubmission(s, [Reviewed(p, "match", "none") EXCEPT !.match = d])
      BY <2>2, <2>3, <3>1, <3>2
    <3>3. CASE SetSubmission(s, [Reviewed(p, "blocked", "duplicate_blocked")
                                   EXCEPT !.match = d])
      BY <2>2, <2>3, <3>1, <3>3
    <3> QED
      BY <2>5, <3>2, <3>3
  <2>6. CASE /\ submission' = [submission EXCEPT
                                 ![s] = QueueRouting(Published(p, p.owner), s)]
             /\ candidate' = [candidate EXCEPT ![p.owner].profile = s]
    <3> DEFINE r == Published(p, c)
               q == QueueRouting(r, s)
    <3>1. /\ r \in SubmissionRecords /\ r.status = "completed" /\ r.review = "none"
          /\ r.import = p.import /\ r.owner = c /\ r.published
      BY <1>1, <1>2, PublishedRow
    <3>2. submission' = [submission EXCEPT ![s] = q]
      BY <1>2, <2>6
    <3> HIDE DEF r
    <3>3. /\ q \in SubmissionRecords /\ q.status = "completed" /\ q.review = "none"
          /\ q.import = p.import /\ q.owner = c /\ q.published
      BY <3>1, QueuedRow
    <3>4. q.recovery = "none"
      BY <3>1, QueuedSays
    <3> HIDE DEF q
    <3>5. /\ candidate'[c].profile = s /\ candidate'[c].current = candidate[c].current
          /\ \A d \in Candidates \ {c} : candidate'[d] = candidate[d]
      BY <1>1, <1>2, <1>3, <2>6 DEF CandidateRecords
    <3> QED
      BY <1>1, <1>2, <1>3, <3>2, <3>3, <3>4, <3>5, TellsProfile
  <2> QED
    BY <2>1, <2>4, <2>5, <2>6
<1>5. CASE ImportRepublishes(s)
  <2>1. Rebuild(s, c, p)
        /\ candidate' = [candidate EXCEPT ![c].current = s, ![c].profile = s]
    BY <1>2, <1>5 DEF ImportRepublishes
  <2> HIDE DEF p
  <2>2. PICK q \in SubmissionRecords :
           /\ q.status = "completed" /\ q.review = "none" /\ q.recovery = "none"
           /\ q.import = p.import /\ q.owner = c /\ q.published
           /\ submission' = [submission EXCEPT ![s] = q]
    BY <1>1, <1>2, <2>1, RebuildSays
  <2>3. /\ candidate'[c].profile = s /\ candidate'[c].current = s
        /\ \A d \in Candidates \ {c} : candidate'[d] = candidate[d]
    BY <1>1, <1>3, <2>1 DEF CandidateRecords
  <2>4. q.import.state # "active" /\ submission[s].owner = c
    BY <1>2, <2>2
  <2> QED
    BY <1>1, <1>3, <2>2, <2>3, <2>4, TellsProfile
<1> QED
  BY <1>4, <1>5

\* The steps of a routing.
LEMMA TellsRouting ==
  ASSUME IInv, Tells, NEW s \in Submissions, RoutingStep(s)
  PROVE  Tells'
<1> DEFINE p == submission[s]
<1>1. p \in SubmissionRecords /\ p.route \in RoutingRuns /\ Told(p)
  BY RowFacts DEF Tells
<1>2. p.route.state = "active"
  BY DEF RoutingStep, RoutingMatches, RoutingIsRetried, RoutingFails, RoutingIsBlocked,
         RoutingPublishes, RoutingAt
<1>3. /\ p.status = "completed" /\ p.owner \in Candidates /\ p.published
      /\ p.import.state # "active" /\ p.review = "none"
  BY <1>2, RouteFacts
<1>4. candidate[p.owner].profile # 0
  BY <1>3 DEF IInv, Owners
<1>5. CASE RoutingMatches(s)
  <2> DEFINE run == [p.route EXCEPT !.step = "publish"]
             q == [p EXCEPT !.route = run]
  <2>1. run \in RoutingRuns
    BY <1>1 DEF RoutingRuns
  <2>2. submission' = [submission EXCEPT ![s] = q] /\ candidate' = candidate
    BY <1>5 DEF RoutingMatches, SetSubmission
  <2> HIDE DEF run
  <2>3. /\ q \in SubmissionRecords /\ q.status = p.status /\ q.routing = p.routing
        /\ q.owner = p.owner /\ q.initial = p.initial /\ q.published = p.published
        /\ q.review = p.review /\ q.recovery = p.recovery /\ q.import = p.import
    BY <1>1, <2>1 DEF SubmissionRecords
  <2> HIDE DEF q
  <2>4. Told(q)
    BY <1>1, <1>3, <2>3 DEF Told
  <2> QED
    BY <1>3, <1>4, <2>2, <2>3, <2>4, TellsRow
<1>6. CASE RoutingFails(s)
  <2> DEFINE r == Routed(p, "failed", "routing_retry")
             run == [r.route EXCEPT !.state = "failed", !.step = "freeze"]
             q == [r EXCEPT !.route = run]
  <2>1. "failed" \in RoutingOutcomes /\ "routing_retry" \in RecoveryCodes
    BY DEF RoutingOutcomes, RecoveryCodes
  <2>2. /\ r \in SubmissionRecords /\ r.routing = "failed"
        /\ r.status = p.status /\ r.review = p.review
        /\ r.owner = p.owner /\ r.initial = p.initial /\ r.published = p.published
        /\ r.import = p.import /\ r.route = p.route
    BY <1>1, <2>1, RoutedRow
  <2>3. r.recovery = "routing_retry"
    BY <1>1, <2>1, RoutedSays
  <2>4. submission' = [submission EXCEPT ![s] = q] /\ candidate' = candidate
    BY <1>6 DEF RoutingFails, SetSubmission
  <2> HIDE DEF r
  <2>5. run \in RoutingRuns
    BY <1>1, <2>2 DEF RoutingRuns, RunStates
  <2> HIDE DEF run
  <2>6. /\ q \in SubmissionRecords /\ q.status = r.status /\ q.routing = r.routing
        /\ q.owner = r.owner /\ q.initial = r.initial /\ q.published = r.published
        /\ q.review = r.review /\ q.recovery = r.recovery /\ q.import = r.import
    BY <2>2, <2>5 DEF SubmissionRecords
  <2> HIDE DEF q
  <2>7. Told(q)
    BY <1>3, <2>2, <2>3, <2>6 DEF Told
  <2> QED
    BY <1>3, <1>4, <2>2, <2>4, <2>6, <2>7, TellsRow
<1>7. CASE RoutingIsBlocked(s)
  <2> DEFINE r == Routed(p, "manual_available", "routing_manual")
             q == [r EXCEPT !.route = RoutingOver("blocked")]
  <2>1. "manual_available" \in RoutingOutcomes /\ "routing_manual" \in RecoveryCodes
    BY DEF RoutingOutcomes, RecoveryCodes
  <2>2. /\ r \in SubmissionRecords /\ r.routing = "manual_available"
        /\ r.status = p.status /\ r.review = p.review
        /\ r.owner = p.owner /\ r.initial = p.initial /\ r.published = p.published
        /\ r.import = p.import
    BY <1>1, <2>1, RoutedRow
  <2>3. r.recovery = "routing_manual"
    BY <1>1, <2>1, RoutedSays
  <2>4. submission' = [submission EXCEPT ![s] = q] /\ candidate' = candidate
    BY <1>7 DEF RoutingIsBlocked, SetSubmission
  <2> HIDE DEF r
  <2>5. /\ q \in SubmissionRecords /\ q.status = r.status /\ q.routing = r.routing
        /\ q.owner = r.owner /\ q.initial = r.initial /\ q.published = r.published
        /\ q.review = r.review /\ q.recovery = r.recovery /\ q.import = r.import
    BY <2>2, OverTyped DEF SubmissionRecords, RunStates
  <2> HIDE DEF q
  <2>6. Told(q)
    BY <1>3, <2>2, <2>3, <2>5 DEF Told
  <2> QED
    BY <1>3, <1>4, <2>2, <2>4, <2>5, <2>6, TellsRow
<1>8. CASE RoutingPublishes(s)
  <2> DEFINE d == Completed(p)
             o == [d EXCEPT !.route = RoutingOver("completed")]
  <2>1. /\ d \in SubmissionRecords /\ d.status = "completed" /\ d.review = "none"
        /\ d.owner = p.owner /\ d.initial = p.initial /\ d.published = p.published
        /\ d.import = p.import
    BY <1>1, CompletedRow
  <2>2. PICK outcome \in RoutingOutcomes, code \in RecoveryCodes :
          /\ submission' = [submission EXCEPT ![s] = Routed(o, outcome, code)]
          /\ \/ outcome = "auto_matched" /\ code = "none"
             \/ outcome = "manual_available" /\ code = "routing_manual"
          /\ candidate' = candidate
    BY <1>8 DEF RoutingPublishes, RoutingOutcomes, RecoveryCodes
  <2> HIDE DEF d
  <2>3. /\ o \in SubmissionRecords /\ o.status = d.status /\ o.review = d.review
        /\ o.owner = d.owner /\ o.initial = d.initial /\ o.published = d.published
        /\ o.import = d.import
    BY <2>1, RoutingOverRow DEF RunStates
  <2> HIDE DEF o
  <2> DEFINE q == Routed(o, outcome, code)
  <2>4. /\ q \in SubmissionRecords /\ q.routing = outcome
        /\ q.status = o.status /\ q.review = o.review
        /\ q.owner = o.owner /\ q.initial = o.initial /\ q.published = o.published
        /\ q.import = o.import
    BY <2>3, RoutedRow
  <2>5. q.recovery = code
    BY <2>2, <2>3, RoutedSays
  <2>6. submission' = [submission EXCEPT ![s] = q]
    BY <2>2
  <2> HIDE DEF q
  <2>7. Told(q)
    BY <1>3, <2>1, <2>2, <2>3, <2>4, <2>5 DEF Told
  <2> QED
    <3>1. /\ q.owner = p.owner /\ q.initial = p.initial /\ q.published = p.published
          /\ q.review \notin {"match", "blocked"}
      BY <2>1, <2>3, <2>4
    <3>2. candidate[q.owner].profile # 0
      BY <1>4, <3>1
    <3> QED
      BY <2>2, <2>4, <2>6, <2>7, <3>1, <3>2, TellsRow
<1>9. CASE RoutingIsRetried(s)
  <2> DEFINE q == Routed(p, "processing", "none")
  <2>1. "processing" \in RoutingOutcomes /\ "none" \in RecoveryCodes
    BY DEF RoutingOutcomes, RecoveryCodes
  <2>2. /\ q \in SubmissionRecords /\ q.routing = "processing"
        /\ q.status = p.status /\ q.review = p.review
        /\ q.owner = p.owner /\ q.initial = p.initial /\ q.published = p.published
        /\ q.import = p.import
    BY <1>1, <2>1, RoutedRow
  <2>3. q.recovery = "none"
    BY <1>1, <2>1, RoutedSays
  <2>4. submission' = [submission EXCEPT ![s] = q] /\ candidate' = candidate
    BY <1>9 DEF RoutingIsRetried, SetSubmission
  <2> HIDE DEF q
  <2>5. Told(q)
    BY <1>3, <2>2, <2>3 DEF Told
  <2> QED
    BY <1>3, <1>4, <2>2, <2>4, <2>5, TellsRow
<1> QED
  BY <1>5, <1>6, <1>7, <1>8, <1>9 DEF RoutingStep

\* The retries of a routing and the choice of a job by a person.
LEMMA TellsRetries ==
  ASSUME IInv, Tells, NEW s \in Submissions,
         RetryRouting(s) \/ AdminRetriesRouting(s) \/ SelectJobs(s)
  PROVE  Tells'
<1> DEFINE p == submission[s]
<1>1. p \in SubmissionRecords /\ Row(p) /\ p.route \in RoutingRuns /\ Told(p)
  BY RowFacts DEF Tells
<1>2. CASE RetryRouting(s)
  <2> DEFINE x == candidate[p.owner].profile
             q == QueueRouting(p, x)
  <2>1. /\ p.owner \in Candidates /\ x # 0 /\ p.status = "completed" /\ p.review = "none"
        /\ p.import.state # "active"
    BY <1>1, <1>2
       DEF RetryRouting, CanRetryRouting, IsCurrent, Exists, SubmissionRecords, Row
  <2>2. x \in Submissions
    BY <2>1, ProfileOf DEF IsProfileOf
  <2>3. submission' = [submission EXCEPT ![s] = q] /\ candidate' = candidate
    BY <1>2 DEF RetryRouting, SetSubmission
  <2> HIDE DEF x
  <2>4. /\ q \in SubmissionRecords /\ q.status = p.status /\ q.review = p.review
        /\ q.owner = p.owner /\ q.initial = p.initial /\ q.published = p.published
        /\ q.import = p.import
    BY <1>1, <2>2, QueuedRow
  <2>5. q.recovery = "none"
    BY <1>1, <2>2, QueuedSays
  <2> HIDE DEF q
  <2>6. Told(q)
    BY <2>1, <2>4, <2>5, CompletedTells
  <2> QED
    BY <2>1, <2>3, <2>4, <2>6, TellsRow DEF x
<1>3. CASE AdminRetriesRouting(s)
  <2> DEFINE run == [p.route EXCEPT !.state = "active", !.step = "freeze"]
             q == [p EXCEPT !.route = run]
  <2>1. p.route.state = "failed"
    BY <1>3 DEF AdminRetriesRouting
  <2>2. /\ p.review = "none" /\ p.import.state # "active" /\ p.owner \in Candidates
        /\ candidate[p.owner].profile # 0
    BY <2>1, RouteFacts DEF IInv, Owners
  <2>3. run \in RoutingRuns
    BY <1>1 DEF RoutingRuns, RunStates
  <2>4. submission' = [submission EXCEPT ![s] = q] /\ candidate' = candidate
    BY <1>3 DEF AdminRetriesRouting, SetSubmission
  <2> HIDE DEF run
  <2>5. /\ q \in SubmissionRecords /\ q.status = p.status /\ q.routing = p.routing
        /\ q.owner = p.owner /\ q.initial = p.initial /\ q.published = p.published
        /\ q.review = p.review /\ q.recovery = p.recovery /\ q.import = p.import
    BY <1>1, <2>3 DEF SubmissionRecords
  <2> HIDE DEF q
  <2>6. Told(q)
    BY <1>1, <2>2, <2>5 DEF Told
  <2> QED
    BY <2>2, <2>4, <2>5, <2>6, TellsRow
<1>4. CASE SelectJobs(s)
  <2> DEFINE d == Completed(p)
             q == Routed(d, "manual_selected", "none")
  <2>1. /\ p.owner \in Candidates /\ candidate[p.owner].profile # 0
        /\ p.import.state # "active"
    BY <1>1, <1>4 DEF SelectJobs, CanSelectJobs, Exists, SubmissionRecords, Row
  <2>2. submission' = [submission EXCEPT ![s] = q] /\ candidate' = candidate
    BY <1>4 DEF SelectJobs
  <2>3. /\ d \in SubmissionRecords /\ d.status = "completed" /\ d.review = "none"
        /\ d.owner = p.owner /\ d.initial = p.initial /\ d.published = p.published
        /\ d.import = p.import
    BY <1>1, CompletedRow
  <2> HIDE DEF d
  <2>4. "manual_selected" \in RoutingOutcomes /\ "none" \in RecoveryCodes
    BY DEF RoutingOutcomes, RecoveryCodes
  <2>5. /\ q \in SubmissionRecords /\ q.status = d.status /\ q.review = d.review
        /\ q.owner = d.owner /\ q.initial = d.initial /\ q.published = d.published
        /\ q.import = d.import
    BY <2>3, <2>4, RoutedRow
  <2>6. q.recovery = "none"
    BY <2>3, <2>4, RoutedSays
  <2> HIDE DEF q
  <2>7. Told(q)
    BY <2>1, <2>3, <2>5, <2>6, CompletedTells
  <2> QED
    BY <2>1, <2>2, <2>3, <2>5, <2>7, TellsRow
<1> QED
  BY <1>2, <1>3, <1>4

\* The decisions about a duplicate.
LEMMA TellsDecided ==
  ASSUME IInv, Tells, NEW s \in Submissions, Discard(s) \/ Adopt(s)
  PROVE  Tells'
<1> DEFINE p == submission[s]
<1>1. p \in SubmissionRecords /\ Row(p)
  BY RowFacts
<1>2. candidate \in [Candidates -> CandidateRecords] /\ s # 0 /\ Nobody \notin Candidates
  BY TypeIs, Bounds, IntakeAssumption DEF IInv
<1>3. CASE Discard(s)
  <2> DEFINE c == p.owner
             d == Completed(p)
             q == [d EXCEPT !.owner = Nobody]
  <2>1. /\ p.status = "review_required" /\ p.review \in {"match", "blocked", "ambiguous"}
        /\ c \in Candidates /\ submission' = [submission EXCEPT ![s] = q]
        /\ \/ candidate' = candidate /\ candidate[c].current # s
           \/ candidate' = Dropped(candidate, c)
    BY <1>1, <1>3 DEF Discard, CanDiscard, Exists, IsCurrent, SubmissionRecords
  <2>2. Fresh(s) /\ p.import.state # "active"
    BY <1>1, <2>1 DEF Row, Fresh
  <2>3. /\ d \in SubmissionRecords /\ d.status = "completed" /\ d.review = "none"
        /\ d.import = p.import
    BY <1>1, CompletedRow
  <2>4. d.recovery = "none"
    BY <1>1, CompletedSays
  <2> HIDE DEF d
  <2>5. /\ q \in SubmissionRecords /\ q.status = d.status /\ q.review = d.review
        /\ q.owner = Nobody /\ q.recovery = d.recovery /\ q.import = d.import
    BY <2>3 DEF SubmissionRecords
  <2> HIDE DEF q
  <2>6. Told(q)
    BY <2>2, <2>3, <2>4, <2>5, CompletedTells
  <2>7. candidate[c].current = s => Unneeded(c)
    BY <1>2, <2>1, <2>2 DEF IInv, Owners, Unneeded
  <2>8. \A b \in Candidates :
           \/ candidate'[b] = candidate[b] /\ candidate[b].current # s
           \/ candidate'[b] = NoCandidate /\ candidate[b].profile = 0
    <3> SUFFICES ASSUME NEW b \in Candidates
                 PROVE  \/ candidate'[b] = candidate[b] /\ candidate[b].current # s
                        \/ candidate'[b] = NoCandidate /\ candidate[b].profile = 0
      OBVIOUS
    <3>1. CASE b # c
      <4>1. candidate[b].current # s
        BY <1>2, <2>1, <3>1 DEF IInv, ReferencesAgree
      <4> QED
        BY <1>2, <2>1, <3>1, <4>1 DEF Dropped
    <3>2. CASE b = c
      BY <1>2, <2>1, <2>7, <3>2 DEF Dropped, Unneeded
    <3> QED
      BY <3>1, <3>2
  <2>9. \A b \in Candidates : candidate[b].profile # 0 => candidate'[b].profile # 0
    BY <2>8
  <2>10. \A b \in Candidates : candidate'[b].current # 0 =>
           \/ /\ candidate'[b].current # s /\ candidate'[b].current = candidate[b].current
              /\ q.owner = b => submission[s].owner = b
           \/ /\ candidate'[b].current = s
              /\ q.initial /\ ~ q.published =>
                   \A r \in Submissions \ {s} : submission[r].owner # b
    BY <1>2, <2>5, <2>8 DEF NoCandidate
  <2> QED
    BY <2>1, <2>3, <2>5, <2>6, <2>9, <2>10, TellsMove
<1>4. CASE Adopt(s)
  <2> DEFINE c == p.match
             o == p.owner
             adopted == [candidate EXCEPT ![c].current = s, ![c].profile = s]
  <2>1. /\ o \in Candidates /\ c \in Candidates /\ p.status = "review_required"
        /\ Rebuild(s, c, p)
        /\ candidate' = IF o = c THEN adopted ELSE Dropped(adopted, o)
    BY <1>1, <1>4 DEF Adopt, CanAdopt, Exists, SubmissionRecords
  <2>2. p.import.state # "active"
    BY <1>1, <2>1 DEF Row
  <2>3. PICK q \in SubmissionRecords :
           /\ q.status = "completed" /\ q.review = "none" /\ q.recovery = "none"
           /\ q.import = p.import /\ q.owner = c /\ q.published
           /\ submission' = [submission EXCEPT ![s] = q]
    BY <1>1, <2>1, RebuildSays
  <2>4. /\ adopted[c].profile = s /\ adopted[c].current = s
        /\ \A d \in Candidates \ {c} : adopted[d] = candidate[d]
        /\ DOMAIN adopted = Candidates
    BY <1>2, <2>1 DEF CandidateRecords
  <2> HIDE DEF adopted
  <2>5. /\ candidate'[c] = adopted[c]
        /\ \A d \in Candidates \ {c} :
             \/ candidate'[d] = candidate[d]
             \/ candidate'[d] = NoCandidate /\ candidate[d].profile = 0
    BY <2>1, <2>4 DEF Dropped, Unneeded
  <2> QED
    <3>1. candidate'[c].profile # 0
      BY <1>2, <2>4, <2>5
    <3>2. candidate'[c].current = s
      BY <2>4, <2>5
    <3>3. q.import.state # "active"
      BY <2>2, <2>3
    <3> QED
      BY <2>1, <2>3, <2>5, <3>1, <3>2, <3>3, TellsProfile
<1> QED
  BY <1>3, <1>4

\* Archiving a candidate ends runs and changes nothing else that is told.
LEMMA TellsArchive ==
  ASSUME IInv, Tells, NEW c \in Candidates, Archive(c)
  PROVE  Tells'
<1>1. /\ submission \in [Submissions -> SubmissionRecords]
      /\ candidate \in [Candidates -> CandidateRecords]
  BY TypeIs DEF IInv
<1>2. /\ candidate' = [candidate EXCEPT ![c].status = "archived"]
      /\ \A s \in Submissions :
           submission'[s] = IF submission[s].owner = c
                            THEN [submission[s] EXCEPT
                                    !.import = CancelImport(submission[s].import),
                                    !.route = CancelRouting(submission[s].route)]
                            ELSE submission[s]
  BY <1>1 DEF Archive
<1>3. ASSUME NEW p \in SubmissionRecords, NEW import, NEW route
      PROVE  LET q == [p EXCEPT !.import = import, !.route = route]
             IN /\ q.status = p.status /\ q.owner = p.owner /\ q.initial = p.initial
                /\ q.published = p.published /\ q.review = p.review
                /\ q.match = p.match /\ q.recovery = p.recovery
                /\ q.structured = p.structured /\ q.routing = p.routing
                /\ q.import = import
  BY DEF SubmissionRecords
<1>4. \A s \in Submissions :
        /\ submission'[s].status = submission[s].status
        /\ submission'[s].owner = submission[s].owner
        /\ submission'[s].initial = submission[s].initial
        /\ submission'[s].published = submission[s].published
        /\ submission'[s].review = submission[s].review
        /\ submission'[s].match = submission[s].match
        /\ submission'[s].recovery = submission[s].recovery
        /\ submission'[s].structured = submission[s].structured
        /\ submission'[s].routing = submission[s].routing
        /\ submission'[s].import \in {submission[s].import, CancelImport(submission[s].import)}
  <2> TAKE s \in Submissions
  <2>1. submission[s] \in SubmissionRecords
    BY <1>1
  <2> DEFINE p == submission[s]
             i == CancelImport(p.import)
             t == CancelRouting(p.route)
             q == [p EXCEPT !.import = i, !.route = t]
  <2>2. submission'[s] = IF p.owner = c THEN q ELSE p
    BY <1>2
  <2>3. /\ q.status = p.status /\ q.owner = p.owner /\ q.initial = p.initial
        /\ q.published = p.published /\ q.review = p.review
        /\ q.match = p.match /\ q.recovery = p.recovery
        /\ q.structured = p.structured /\ q.routing = p.routing
        /\ q.import = i
    <3> HIDE DEF i, t
    <3> QED
      BY <2>1, <1>3
  <2> HIDE DEF q
  <2> QED
    BY <2>2, <2>3
<1>5. ASSUME NEW s \in Submissions, submission'[s].import.state = "active"
      PROVE  submission'[s].import = submission[s].import
  BY <1>4, <1>5, OverTyped DEF CancelImport, RunStates
<1>6. \A s \in Submissions : Told(submission'[s])
  BY <1>4, <1>5 DEF Tells, Told
<1>7. \A d \in Candidates : /\ candidate'[d].current = candidate[d].current
                            /\ candidate'[d].profile = candidate[d].profile
                            /\ candidate[d].current \in 0 .. MaxSubmission
  BY <1>1, <1>2 DEF CandidateRecords
<1>8. \A s \in Submissions : submission[s].owner \in Candidates \cup {Nobody}
  BY <1>1 DEF SubmissionRecords
<1>9. Known'
  <2>1. /\ \A s \in Submissions : submission'[s].review \in {"match", "blocked"} =>
             /\ submission'[s].match \in Candidates
             /\ candidate'[submission'[s].match].profile # 0
        /\ \A s \in Submissions :
             submission'[s].status = "completed" /\ submission'[s].owner # Nobody =>
               candidate'[submission'[s].owner].profile # 0
    BY <1>4, <1>7, <1>8 DEF Tells, Known
  <2>2. ASSUME NEW d \in Candidates, candidate'[d].current # 0,
               submission'[candidate'[d].current].initial,
               ~ submission'[candidate'[d].current].published,
               NEW r \in Submissions \ {candidate'[d].current}
        PROVE  submission'[r].owner # d
    <3>1. candidate[d].current \in Submissions
      BY <1>7, <2>2, Bounds
    <3> QED
      BY <1>4, <1>7, <2>2, <3>1 DEF Tells, Known, Fresh
  <2> QED
    BY <2>1, <2>2 DEF Known, Fresh
<1> QED
  BY <1>6, <1>9 DEF Tells

LEMMA InitTells ==
  ASSUME Init
  PROVE  Tells
<1>1. \A s \in Submissions :
        /\ submission[s].status = "none" /\ submission[s].recovery = "none"
        /\ submission[s].review = "none" /\ submission[s].import = NoImport
  BY DEF Init, Unused
<1>2. \A c \in Candidates : candidate[c].current = 0
  BY DEF Init, NoCandidate
<1>3. NoImport.state = "none"
  BY DEF NoImport
<1>4. \A s \in Submissions : Told(submission[s])
  BY <1>1, <1>3 DEF Told
<1> QED
  BY <1>1, <1>2, <1>4 DEF Tells, Known

LEMMA NextTells ==
  ASSUME IInv, Tells, [Next]_vars
  PROVE  Tells'
<1>1. CASE UNCHANGED vars
  BY <1>1 DEF vars, Tells, Told, Known, Fresh
<1>2. ASSUME NEW s \in Submissions, NEW c \in Candidates, Upload(c, s)
      PROVE  Tells'
  BY <1>2, TellsUpload
<1>3. ASSUME NEW s \in Submissions, NEW old \in Submissions, NewVersion(old, s)
      PROVE  Tells'
  BY <1>3, TellsNewVersion
<1>4. ASSUME NEW s \in Submissions, ImportStep(s)
      PROVE  Tells'
  BY <1>4, TellsImport, TellsImportEnds DEF ImportStep
<1>5. ASSUME NEW s \in Submissions, RoutingStep(s)
      PROVE  Tells'
  BY <1>5, TellsRouting
<1>6. ASSUME NEW s \in Submissions, Decision(s)
      PROVE  Tells'
  BY <1>6, TellsRetries, TellsDecided DEF Decision
<1>7. ASSUME NEW c \in Candidates, Archive(c)
      PROVE  Tells'
  BY <1>7, TellsArchive
<1> QED
  BY <1>1, <1>2, <1>3, <1>4, <1>5, <1>6, <1>7 DEF Next

\* What a current submission offers, given what its row tells.
LEMMA OffersFit ==
  ASSUME IInv, Tells
  PROVE  OfferedIsPossible
<1> SUFFICES ASSUME NEW s \in Submissions, IsCurrent(s),
                    candidate[submission[s].owner].status # "archived",
                    NEW a \in Offered(submission[s]) \ {"resolve"}
             PROVE  a \in Possible(s)
  BY DEF OfferedIsPossible
<1> DEFINE p == submission[s]
           c == p.owner
<1>1. /\ p \in SubmissionRecords /\ Row(p) /\ Told(p)
      /\ c \in Candidates /\ Exists(c) /\ candidate[c].current = s /\ s # 0
  BY RowFacts, Bounds DEF Tells, IsCurrent, Exists, SubmissionRecords
<1>2. "replace" \in Possible(s)
  BY <1>1 DEF Possible, CanReplace
<1>3. p.recovery # "none" => Settled(s)
  BY <1>1 DEF Told, Settled, SubmissionRecords
<1>4. Settled(s) => "reparse" \in Possible(s)
  BY <1>1 DEF Possible, CanReparse, Settled, Row
<1>5. Settled(s) /\ p.parsed => "correct" \in Possible(s)
  BY <1>1 DEF Possible, CanCorrect
<1>6. p.recovery = "publish" /\ p.parsed /\ p.structured => "republish" \in Possible(s)
  BY <1>1 DEF Possible, CanRepublish, Told
<1>7. p.status = "completed" => p.review = "none" /\ candidate[c].profile # 0
  BY <1>1, IntakeAssumption DEF Row, Tells, Known
<1>8. p.status = "completed" => "select_jobs" \in Possible(s)
  BY <1>1, <1>7 DEF Possible, CanSelectJobs
<1>9. p.recovery \in {"routing_manual", "routing_retry"} =>
        p.status = "completed" /\ "retry_routing" \in Possible(s)
  BY <1>1, <1>7 DEF Possible, CanRetryRouting, Told, Row
\* The placeholder of an upload under review has no other submission.
<1>10. p.review \in {"match", "blocked", "ambiguous"} => CanDropPlaceholder(c, s)
  <2>1. p.review \in {"match", "blocked", "ambiguous"} => Fresh(s)
    BY <1>1 DEF Row, Fresh
  <2> QED
    BY <1>1, <2>1 DEF Tells, Known, CanDropPlaceholder, Referenced
<1>11. p.review \in {"match", "blocked"} => Exists(p.match)
  <2> SUFFICES ASSUME p.review \in {"match", "blocked"} PROVE Exists(p.match)
    OBVIOUS
  <2>1. p.match \in Candidates /\ candidate[p.match].profile # 0
    BY DEF Tells, Known
  <2>2. IsProfileOf(candidate[p.match].profile, p.match)
    BY <2>1, ProfileOf
  <2> QED
    BY <2>1, <2>2, IntakeAssumption DEF IsProfileOf, IInv, Owners, Exists
<1>12. p.review \in {"match", "blocked", "ambiguous"} => "discard" \in Possible(s)
  BY <1>1, <1>10, <1>11 DEF Possible, CanDiscard, Row
<1>13. p.review = "match" => "adopt" \in Possible(s)
  BY <1>1, <1>10, <1>11 DEF Possible, CanAdopt, Row, Told
<1>14. p.recovery = "duplicate_blocked" => p.review = "blocked"
  BY <1>1 DEF Told
<1> HIDE DEF c
<1>15. a \in Plan(p) => a \in Possible(s)
  BY <1>2, <1>3, <1>4, <1>5, <1>6, <1>8, <1>9, <1>12, <1>14 DEF Plan
<1>16. a \notin Plan(p) => a \in Possible(s)
  <2> HIDE DEF p
  <2>1. p.status \in {"completed", "review_required", "failed"} => Settled(s)
    BY DEF Settled, p
  <2> QED
    BY <1>2, <1>4, <1>5, <1>8, <1>12, <1>13, <2>1 DEF Offered, p
<1> QED
  BY <1>15, <1>16

(***************************************************************************)
(* The theorems                                                            *)
(***************************************************************************)
\* The rows of submissions, candidates and applications are well formed,
\* whichever commands, runs and decisions have written them.
THEOREM IntakeTypeCorrect ==
  Spec => []TypeOK
<1>1. IInv => TypeOK
  BY DEF IInv
<1> QED
  BY <1>1, Invariance, PTL

\* A submission that shows as being processed or routed is being worked on.
THEOREM ProcessingIsWorkedOn ==
  Spec => []ProcessingHasRun
<1>1. IInv => ProcessingHasRun
  BY DEF IInv
<1> QED
  BY <1>1, Invariance, PTL

\* A candidate and its application only refer to submissions of that candidate,
\* and as a profile only to one that was published.
THEOREM ReferencesStayAgreed ==
  Spec => []ReferencesAgree
<1>1. IInv => ReferencesAgree
  BY DEF IInv
<1> QED
  BY <1>1, Invariance, PTL

\* Whatever runs and people have done to a candidate's current submission, what
\* the list of resumes offers for it can be carried out (_available_action_codes
\* and the guards of the commands behind it).
THEOREM OffersCanBeTaken ==
  Spec => []OfferedIsPossible
<1>1. Init => Tells
  BY InitTells
<1>2. IInv /\ Tells /\ [Next]_vars => Tells'
  BY NextTells
<1>3. IInv /\ Tells => OfferedIsPossible
  BY OffersFit
<1> QED
  BY <1>1, <1>2, <1>3, Invariance, PTL DEF Spec
=============================================================================
