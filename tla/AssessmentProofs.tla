--------------------------- MODULE AssessmentProofs ---------------------------
(***************************************************************************)
(* Hard screening: nobody is rejected without a rule that was shown to be  *)
(* broken, and the application tells what its published result tells, for  *)
(* every set of rules, policies and resumes, every answer of the model and *)
(* every order of retries and reviews.                                     *)
(*                                                                         *)
(* The first scoring: only a separated tail of the projects is filtered    *)
(* out, and the proofs of a capability share no work, for every resume,    *)
(* job and model.                                                          *)
(*                                                                         *)
(* The rounds after interviews: no path of the graph counts a unit of      *)
(* feedback twice, whatever results the first assessment froze, whatever   *)
(* the model judged of them and whatever the order of the lists; the       *)
(* changes of the scores are accounted for by what was said of them, and   *)
(* praise alone never lowers a score, a total or a recommendation.         *)
(*                                                                         *)
(* What is proved by induction on the size of a set, or on the rank of an  *)
(* anchor, takes a least counterexample (LeastNumber).                     *)
(***************************************************************************)
EXTENDS HardScreening, FirstScoring, TopologyScoring, FiniteSetTheorems,
        WellFoundedInduction, TLAPS

-----------------------------------------------------------------------------
(* Hard screening: types. *)

\* A function on some of the rules is a partial one.
LEMMA PartialIntro ==
    ASSUME NEW S, NEW D \in SUBSET Rules, NEW f \in [D -> S]
    PROVE  f \in Partial(S)
BY DEF Partial

\* And the other way round.
LEMMA PartialElim ==
    ASSUME NEW S, NEW f \in Partial(S)
    PROVE  DOMAIN f \in SUBSET Rules /\ f \in [DOMAIN f -> S]
<1>1. PICK D \in SUBSET Rules : f \in [D -> S]
  BY DEF Partial
<1> QED BY <1>1

\* What a sequence holds.
LEMMA ElementType ==
    ASSUME NEW S, NEW s \in Seq(S), NEW i \in 1..Len(s) PROVE s[i] \in S
OBVIOUS

\* Nothing has been said or judged of no run.
LEMMA NoRunType == NoRun \in Runs /\ Nothing \in Partial(Said)
<1>1. Nothing \in [{} -> Said] /\ NoRun.said \in [{} -> Said] /\ NoRun.verdicts \in [{} -> Verdict]
  BY DEF Nothing, NoRun, NoVerdicts
<1>2. Nothing \in Partial(Said) /\ NoRun.said \in Partial(Said) /\ NoRun.verdicts \in Partial(Verdict)
  BY <1>1, PartialIntro
<1>3. 0 \in 0..MaxAttempts
  BY HardScreeningConstants
<1> QED BY <1>2, <1>3 DEF NoRun, Runs

\* A status is one of three.
LEMMA OverallType == ASSUME NEW v PROVE Overall(v) \in Outcome
BY DEF Overall, Outcome

\* A rule that no model judges is met or broken only if the resume says so.
LEMMA DeterministicIsShown ==
    ASSUME run.resume \in Resumes, NEW r \in Rules, r \notin Semantic,
           NEW x, x.resume = run.resume
    PROVE  /\ Deterministic(r) \in Verdict
           /\ Deterministic(r).status \in {"passed", "failed"}
                => Shown(x, r) = Deterministic(r).status
<1>1. run.resume[r] \in Facts
  BY HardScreeningConstants
<1>2. Deterministic(r) \in Verdict
  BY DEF Deterministic, Manual, Decided, Verdict, Outcome, Reasons
<1>3. ASSUME Deterministic(r).status \in {"passed", "failed"}
      PROVE  Shown(x, r) = Deterministic(r).status
  <2>1. CASE run.resume[r] = "met"
    BY <1>3, <2>1 DEF Deterministic, Manual, Decided, Shown, Unmet
  <2>2. CASE run.resume[r] = "unmet"
    BY <1>3, <2>2 DEF Deterministic, Manual, Decided, Shown, Unmet
  <2>3. CASE run.resume[r] \in {"absent", "unclear"}
    BY <1>3, <2>3 DEF Deterministic, Manual, Decided, Shown, Unmet
  <2> QED BY <1>1, <2>1, <2>2, <2>3 DEF Facts
<1> QED BY <1>2, <1>3

\* What a model says of a rule counts if it can be found in the resume.
LEMMA JudgedIsShown ==
    ASSUME NEW said \in Said
    PROVE  /\ Judged(said) \in Verdict
           /\ Judged(said).status \in {"passed", "failed"}
                => said.located /\ Judged(said).status = said.status
BY DEF Judged, Manual, Decided, Quoted, Said, Verdict, Outcome, Reasons

\* A rule without a verdict of its own is left to a person.
LEMMA ManualType ==
    ASSUME NEW reason \in Reasons
    PROVE  Manual(reason) \in Verdict /\ Manual(reason).status = "manual_review"
BY DEF Manual, Verdict, Outcome

-----------------------------------------------------------------------------
(* Hard screening: the inductive invariant. *)

\* The verdicts of a run rest on what there is to show, once it has evaluated.
RestsOnFacts(x) ==
    /\ x.step # "freeze" => x.resume \in Resumes
    /\ x.step = "publish" =>
         /\ DOMAIN x.verdicts = x.rules
         /\ \A r \in x.rules : x.verdicts[r].status \in {"passed", "failed"}
                                 => Shown(x, r) = x.verdicts[r].status

Sound ==
    /\ RestsOnFacts(run) /\ RestsOnFacts(failed)
    /\ run.state = "completed" => run.step = "publish"
    /\ run.state = "active" => run.policy \in 1..Len(policies)
    /\ failed.state = "failed" => failed.policy \in 1..Len(policies)
    /\ app.status = "hard_screening_review" => app.policy \in 1..Len(policies)

\* One policy is bound to the application for good, there is a run exactly while
\* the application waits for it, and a result that is still open to runs and
\* reviews is one that nobody could conclude.
Agreed ==
    /\ app.status \in {"hard_screening_pending", "hard_screening_running"} <=> run.state = "active"
    /\ run.state = "active" => run.policy = app.policy
    /\ failed.state \in {"none", "failed"}
    /\ failed.state = "failed" => failed.policy = app.policy
    /\ app.status = "new" => failed.state = "none" /\ DOMAIN results = {}
    /\ 0 \notin DOMAIN results
    /\ app.status \notin {"closed_rejected", "submitted"} /\ app.policy \in DOMAIN results
         => Overall(results[app.policy].verdicts) = "manual_review"

HardInv == HardTypeOK /\ Sound /\ Agreed

\* The model was asked and the rules have been judged, one way or the other:
\* what happens to the run in Evaluate and ModelFails.
LEMMA EvaluatedKeepsInv ==
    ASSUME HardInv, At("evaluate"), NEW said \in Partial(Said), NEW verdicts,
           DOMAIN verdicts = run.rules, verdicts \in [run.rules -> Verdict],
           \A r \in run.rules : verdicts[r].status \in {"passed", "failed"} =>
               Shown([run EXCEPT !.step = "publish", !.said = said, !.verdicts = verdicts], r)
                 = verdicts[r].status,
           run' = [run EXCEPT !.step = "publish", !.said = said, !.verdicts = verdicts],
           UNCHANGED <<policies, resume, app, failed, results>>
    PROVE  HardInv'
<1>1. run \in Runs /\ run.state = "active" /\ run.step = "evaluate" /\ run.rules \in SUBSET Rules
  BY DEF HardInv, HardTypeOK, At, Runs
<1>2. verdicts \in Partial(Verdict)
  BY <1>1, PartialIntro
<1>3. run' \in Runs
  BY <1>1, <1>2 DEF Runs
<1>4. /\ run'.step = "publish" /\ run'.state = run.state /\ run'.policy = run.policy
      /\ run'.rules = run.rules /\ run'.resume = run.resume
      /\ run'.said = said /\ run'.verdicts = verdicts
  BY <1>1 DEF Runs
<1>5. RestsOnFacts(run')
  <2>1. ASSUME NEW r \in run.rules, verdicts[r].status \in {"passed", "failed"}
        PROVE  Shown(run', r) = verdicts[r].status
    BY <2>1
  <2> QED BY <1>1, <1>4, <2>1 DEF HardInv, Sound, RestsOnFacts
<1>6. HardTypeOK'
  BY <1>3 DEF HardInv, HardTypeOK
<1>7. Sound'
  BY <1>1, <1>4, <1>5 DEF HardInv, Sound
<1>8. Agreed'
  BY <1>1, <1>4 DEF HardInv, Agreed
<1> QED BY <1>6, <1>7, <1>8 DEF HardInv

\* The model has answered, or there is none, or it does not do as it was asked.
LEMMA EvaluateKeepsInv == ASSUME HardInv, Evaluate PROVE HardInv'
<1>1. run \in Runs /\ run.state = "active" /\ run.step = "evaluate" /\ run.rules \in SUBSET Rules
      /\ run.resume \in Resumes
  BY DEF Evaluate, HardInv, HardTypeOK, At, Runs, Sound, RestsOnFacts
<1>2. Asked \subseteq run.rules /\ Asked \subseteq Rules /\ Asked \subseteq Semantic
  BY <1>1 DEF Asked
<1> DEFINE After2(said, told) ==
      [run EXCEPT !.step = "publish", !.said = said, !.verdicts = RuleVerdicts(told)]
<1>3. ASSUME NEW said \in Partial(Said), NEW told \in [Asked -> Verdict],
             \A r \in Asked : told[r].status \in {"passed", "failed"} =>
                 r \in DOMAIN said /\ said[r].located /\ said[r].status = told[r].status,
             Evaluated(said, told)
      PROVE  HardInv'
  <2>1. RuleVerdicts(told) \in [run.rules -> Verdict]
    <3>1. ASSUME NEW r \in run.rules PROVE RuleVerdicts(told)[r] \in Verdict
      <4>1. CASE r \notin Semantic
        BY <1>1, <3>1, <4>1, DeterministicIsShown DEF RuleVerdicts
      <4>2. CASE r \in Semantic /\ r \in Asked
        BY <1>1, <1>3, <3>1, <4>2 DEF RuleVerdicts
      <4>3. CASE r \in Semantic /\ r \notin Asked
        <5>1. Manual("source_fact_missing") \in Verdict
          BY ManualType DEF Reasons
        <5> QED BY <1>1, <3>1, <4>3, <5>1 DEF RuleVerdicts
      <4> QED BY <4>1, <4>2, <4>3
    <3> QED BY <3>1 DEF RuleVerdicts
  <2>2. ASSUME NEW r \in run.rules, RuleVerdicts(told)[r].status \in {"passed", "failed"}
        PROVE  Shown(After2(said, told), r) = RuleVerdicts(told)[r].status
    <3>1. /\ After2(said, told).said = said /\ After2(said, told).resume = run.resume
      BY <1>1 DEF Runs
    <3>2. CASE r \notin Semantic
      <4>1. RuleVerdicts(told)[r] = Deterministic(r)
        BY <2>2, <3>2 DEF RuleVerdicts
      <4> HIDE DEF After2
      <4> QED BY <1>1, <2>2, <3>1, <3>2, <4>1, DeterministicIsShown
    <3>3. CASE r \in Semantic /\ r \in Asked
      <4>1. RuleVerdicts(told)[r] = told[r]
        BY <2>2, <3>3 DEF RuleVerdicts
      <4> HIDE DEF After2
      <4> QED BY <1>3, <2>2, <3>1, <3>3, <4>1 DEF Shown
    <3>4. CASE r \in Semantic /\ r \notin Asked
      <4>1. RuleVerdicts(told)[r].status = "manual_review"
        BY <2>2, <3>4 DEF RuleVerdicts, Manual
      <4> QED BY <2>2, <4>1
    <3> QED BY <3>2, <3>3, <3>4
  <2>3. At("evaluate")
    BY DEF Evaluate
  <2>4. UNCHANGED <<policies, resume, app, failed, results>>
        /\ run' = After2(said, told)
    BY <1>3 DEF Evaluated
  <2>5. DOMAIN RuleVerdicts(told) = run.rules
    BY DEF RuleVerdicts
  <2> DEFINE V == RuleVerdicts(told)
  <2>6. V \in [run.rules -> Verdict] /\ DOMAIN V = run.rules
    BY <2>1, <2>5
  <2>7. ASSUME NEW r \in run.rules, V[r].status \in {"passed", "failed"}
        PROVE  Shown([run EXCEPT !.step = "publish", !.said = said, !.verdicts = V], r) = V[r].status
    BY <2>2, <2>7
  <2>8. /\ run' = [run EXCEPT !.step = "publish", !.said = said, !.verdicts = V]
        /\ UNCHANGED <<policies, resume, app, failed, results>>
    BY <2>4
  <2> HIDE DEF V, After2
  <2> QED BY <1>3, <2>3, <2>6, <2>7, <2>8, EvaluatedKeepsInv
<1>4. CASE \E said \in [Asked -> Said] : Evaluated(said, [r \in Asked |-> Judged(said[r])])
  <2>1. PICK said \in [Asked -> Said] : Evaluated(said, [r \in Asked |-> Judged(said[r])])
    BY <1>4
  <2>2. said \in Partial(Said)
    BY <1>2, PartialIntro
  <2>3. [r \in Asked |-> Judged(said[r])] \in [Asked -> Verdict]
    BY JudgedIsShown
  <2>4. ASSUME NEW r \in Asked, Judged(said[r]).status \in {"passed", "failed"}
        PROVE  r \in DOMAIN said /\ said[r].located /\ said[r].status = Judged(said[r]).status
    BY <2>4, JudgedIsShown
  <2> QED BY <1>3, <2>1, <2>2, <2>3, <2>4
<1>5. CASE \E reason \in {"model_result_invalid", "model_configuration_required"} :
             Asked # {} /\ Evaluated(Nothing, [r \in Asked |-> Manual(reason)])
  <2>1. PICK reason \in {"model_result_invalid", "model_configuration_required"} :
          Evaluated(Nothing, [r \in Asked |-> Manual(reason)])
    BY <1>5
  <2>2. Manual(reason) \in Verdict /\ Manual(reason).status = "manual_review"
    BY ManualType DEF Reasons
  <2>3. [r \in Asked |-> Manual(reason)] \in [Asked -> Verdict]
    BY <2>2
  <2> QED BY <1>3, <2>1, <2>2, <2>3, NoRunType
<1> QED BY <1>4, <1>5 DEF Evaluate

\* The model cannot be reached, once more or for the last time.
LEMMA ModelFailsKeepsInv == ASSUME HardInv, ModelFails PROVE HardInv'
<1>1. run \in Runs /\ run.state = "active" /\ run.step = "evaluate" /\ run.rules \in SUBSET Rules
      /\ run.resume \in Resumes
  BY DEF ModelFails, HardInv, HardTypeOK, At, Runs, Sound, RestsOnFacts
<1>2. CASE run.attempts + 1 < MaxAttempts
  <2>1. run' = [run EXCEPT !.attempts = @ + 1] /\ UNCHANGED <<policies, resume, app, failed, results>>
    BY <1>2 DEF ModelFails
  <2>2. run.attempts + 1 \in 0..MaxAttempts
    BY <1>1, <1>2, HardScreeningConstants DEF Runs
  <2>3. run' \in Runs
    BY <1>1, <2>1, <2>2 DEF Runs
  <2>4. /\ run'.step = run.step /\ run'.state = run.state /\ run'.policy = run.policy
        /\ run'.resume = run.resume
    BY <1>1, <2>1 DEF Runs
  <2>5. HardTypeOK'
    BY <2>1, <2>3 DEF HardInv, HardTypeOK
  <2>6. RestsOnFacts(run')
    BY <1>1, <2>4 DEF RestsOnFacts
  <2>7. Sound'
    BY <1>1, <2>1, <2>4, <2>6 DEF HardInv, Sound
  <2>8. Agreed'
    BY <1>1, <2>1, <2>4 DEF HardInv, Agreed
  <2> QED BY <2>5, <2>7, <2>8 DEF HardInv
<1>3. CASE ~(run.attempts + 1 < MaxAttempts)
  <2> DEFINE V == [r \in run.rules |->
                     IF r \in Semantic THEN Manual("model_temporarily_unavailable")
                     ELSE Deterministic(r)]
             X == [run EXCEPT !.step = "publish", !.said = Nothing, !.verdicts = V]
  <2>1. Manual("model_temporarily_unavailable") \in Verdict
        /\ Manual("model_temporarily_unavailable").status = "manual_review"
    BY ManualType DEF Reasons
  <2>2. V \in [run.rules -> Verdict]
    BY <1>1, <2>1, DeterministicIsShown
  <2>3. ASSUME NEW r \in run.rules, V[r].status \in {"passed", "failed"}
        PROVE  Shown(X, r) = V[r].status
    <3>1. X.resume = run.resume
      BY <1>1 DEF Runs
    <3>2. r \notin Semantic /\ V[r] = Deterministic(r)
      BY <2>1, <2>3
    <3> HIDE DEF X, V
    <3> QED BY <1>1, <2>3, <3>1, <3>2, DeterministicIsShown
  <2>4. run' = X /\ UNCHANGED <<policies, resume, app, failed, results>>
    BY <1>3 DEF ModelFails
  <2>5. At("evaluate")
    BY DEF ModelFails
  <2> HIDE DEF V
  <2> QED BY <2>2, <2>3, <2>4, <2>5, EvaluatedKeepsInv, NoRunType
<1> QED BY <1>2, <1>3

\* The other steps of a run.
LEMMA RunKeepsInv == ASSUME HardInv, Freeze \/ PublishHard \/ Fail PROVE HardInv'
<1>0. run \in Runs /\ failed \in Runs /\ app.policy \in Nat
  BY DEF HardInv, HardTypeOK
<1>1. CASE Freeze
  <2>1. run.state = "active" /\ run.policy \in 1..Len(policies) /\ resume \in Resumes
    BY <1>1 DEF Freeze, At, HardInv, Sound, HardTypeOK
  <2>2. policies[run.policy].rules \in SUBSET Rules
    <3>1. policies \in Seq([enabled : BOOLEAN, rules : SUBSET Rules])
      BY DEF HardInv, HardTypeOK
    <3>2. policies[run.policy] \in [enabled : BOOLEAN, rules : SUBSET Rules]
      BY <2>1, <3>1, ElementType
    <3> QED BY <3>2
  <2>3. run' \in Runs
    BY <1>0, <1>1, <2>1, <2>2 DEF Freeze, Runs
  <2>4. run'.step = "evaluate" /\ run'.state = "active" /\ run'.policy = run.policy /\ run'.resume = resume
    BY <1>0, <1>1, <2>1 DEF Freeze, Runs
  <2>5. HardTypeOK'
    BY <1>1, <2>3 DEF HardInv, HardTypeOK, Freeze
  <2>6. Sound'
    <3>1. app'.status # "hard_screening_review"
      BY <1>1 DEF Freeze, HardInv, HardTypeOK
    <3> QED BY <1>1, <2>1, <2>4, <3>1 DEF HardInv, Sound, RestsOnFacts, Freeze
  <2>7. Agreed'
    BY <1>1, <2>1, <2>4 DEF HardInv, HardTypeOK, Agreed, Freeze
  <2> QED BY <2>5, <2>6, <2>7 DEF HardInv
<1>2. CASE PublishHard
  <2> DEFINE status == Overall(run.verdicts)
  <2>1. run.state = "active" /\ run.step = "publish" /\ app.status = "hard_screening_running"
    BY <1>2 DEF PublishHard, At
  <2>2. status \in Outcome
    BY OverallType
  <2>3. After(status) \in {"submitted", "closed_rejected", "hard_screening_review"}
        /\ (After(status) = "hard_screening_review" => status = "manual_review")
    BY <2>2 DEF After, Outcome
  <2>4. ReviewCode(run.verdicts) \in {"resume_source", "policy", "retryable", "review"}
    BY DEF ReviewCode
  <2>5. run' \in Runs /\ run'.state = "completed" /\ run'.step = "publish" /\ run'.policy = run.policy
        /\ run'.resume = run.resume /\ run'.rules = run.rules /\ run'.verdicts = run.verdicts
        /\ run'.said = run.said
    BY <1>0, <1>2, <2>1 DEF PublishHard, Runs
  <2>6. /\ app'.status = After(status) /\ app'.hard = status /\ app'.policy = app.policy
        /\ UNCHANGED <<policies, resume, failed>>
    BY <1>2 DEF PublishHard, HardInv, HardTypeOK
  <2>7. /\ results' = [p \in DOMAIN results \cup {run.policy} |->
                      IF p # run.policy THEN results[p]
                      ELSE [status |-> status, verdicts |-> run.verdicts]]
    BY <1>2 DEF PublishHard
  <2>8. app' \in [status : {"new", "hard_screening_pending", "hard_screening_running",
                          "hard_screening_review", "submitted", "closed_rejected"},
                hard : {"none", "pending", "running"} \cup Outcome,
                recovery : {"none", "resume_source", "policy", "retryable", "review",
                            "source_review", "publish_retryable"},
                policy : Nat, demanded : Nat]
    BY <1>2, <2>2, <2>3, <2>4 DEF PublishHard, HardInv, HardTypeOK
  <2>9. HardTypeOK'
    BY <1>0, <2>2, <2>5, <2>6, <2>7, <2>8 DEF HardInv, HardTypeOK, Runs
  <2>10. RestsOnFacts(run')
    BY <2>1, <2>5 DEF HardInv, Sound, RestsOnFacts, Shown
  <2>11. Sound'
    BY <2>1, <2>5, <2>6, <2>10 DEF HardInv, Sound, Agreed
  <2>12. Agreed'
    BY <1>0, <2>1, <2>3, <2>5, <2>6, <2>7 DEF HardInv, Sound, Agreed
  <2> QED BY <2>9, <2>11, <2>12 DEF HardInv
<1>3. CASE Fail
  <2>1. run.state = "active" /\ failed' = run' /\ UNCHANGED <<policies, resume, results>>
    BY <1>3 DEF Fail
  <2>2. run' \in Runs /\ run'.state = "failed" /\ run'.step = run.step /\ run'.policy = run.policy
        /\ run'.resume = run.resume /\ run'.rules = run.rules /\ run'.verdicts = run.verdicts
        /\ run'.said = run.said
    BY <1>0, <1>3 DEF Fail, Runs
  <2>3. FailureCode \in {"retryable", "source_review", "publish_retryable"}
    BY DEF FailureCode
  <2>4. HardTypeOK'
    BY <1>3, <2>1, <2>2, <2>3 DEF Fail, HardInv, HardTypeOK, Outcome
  <2>5. RestsOnFacts(run')
    BY <2>2 DEF HardInv, Sound, RestsOnFacts, Shown
  <2>6. app'.status = "hard_screening_review" /\ app'.policy = app.policy
    BY <1>3 DEF Fail, HardInv, HardTypeOK
  <2>7. Sound'
    BY <2>1, <2>2, <2>5, <2>6 DEF HardInv, Sound, Agreed
  <2>8. Agreed'
    BY <2>1, <2>2, <2>6 DEF HardInv, Agreed
  <2> QED BY <2>4, <2>7, <2>8 DEF HardInv
<1> QED BY <1>1, <1>2, <1>3

\* A run that is started over.
LEMMA StartedOver ==
    ASSUME NEW p \in Nat
    PROVE  LET x == [NoRun EXCEPT !.state = "active", !.policy = p]
           IN  x \in Runs /\ x.state = "active" /\ x.policy = p /\ x.step = "freeze"
<1>1. NoRun \in Runs /\ NoRun.step = "freeze"
  BY NoRunType DEF NoRun
<1> QED BY <1>1 DEF Runs

\* What is left of a question after a person's word is that word.
LEMMA ReviewedConcludes ==
    ASSUME NEW row, Overall(row.verdicts) = "manual_review", NEW status \in {"passed", "failed"}
    PROVE  Overall(Reviewed(row, status).verdicts) = status /\ Reviewed(row, status).status = status
BY DEF Overall, Reviewed

\* A review keeps the types.
LEMMA ReviewedType ==
    ASSUME NEW row \in [status : Outcome, verdicts : Partial(Verdict)],
           NEW status \in {"passed", "failed"}
    PROVE  Reviewed(row, status) \in [status : Outcome, verdicts : Partial(Verdict)]
<1>1. DOMAIN row.verdicts \in SUBSET Rules /\ row.verdicts \in [DOMAIN row.verdicts -> Verdict]
  BY PartialElim
<1>2. Reviewed(row, status).verdicts \in [DOMAIN row.verdicts -> Verdict]
  BY <1>1 DEF Reviewed, Verdict, Outcome, Reasons
<1>3. Reviewed(row, status).verdicts \in Partial(Verdict)
  BY <1>1, <1>2, PartialIntro
<1> QED BY <1>3 DEF Reviewed, Outcome

\* What people do.
LEMMA PeopleKeepInv ==
    ASSUME HardInv, SavePolicy \/ RepairResume \/ Enqueue \/ Retry \/ AdminRetry \/ Review
    PROVE  HardInv'
<1>0. /\ run \in Runs /\ failed \in Runs /\ app.policy \in Nat /\ Len(policies) \in Nat
      /\ policies \in Seq([enabled : BOOLEAN, rules : SUBSET Rules])
  BY DEF HardInv, HardTypeOK
<1>1. CASE SavePolicy
  <2>1. PICK c \in Contents, e \in BOOLEAN : policies' = Append(policies, [enabled |-> e, rules |-> c])
    BY <1>1 DEF SavePolicy
  <2>2. [enabled |-> e, rules |-> c] \in [enabled : BOOLEAN, rules : SUBSET Rules]
    BY HardScreeningConstants
  <2>3. policies' \in Seq([enabled : BOOLEAN, rules : SUBSET Rules])
        /\ Len(policies') = Len(policies) + 1
    BY <1>0, <2>1, <2>2
  <2>4. UNCHANGED <<resume, app, run, failed, results>>
    BY <1>1 DEF SavePolicy
  <2>5. HardTypeOK'
    BY <2>3, <2>4 DEF HardInv, HardTypeOK
  <2>6. Sound'
    BY <1>0, <2>3, <2>4 DEF HardInv, Sound, RestsOnFacts, Shown
  <2>7. Agreed'
    BY <2>4 DEF HardInv, Agreed
  <2> QED BY <2>5, <2>6, <2>7 DEF HardInv
<1>2. CASE RepairResume
  <2>1. UNCHANGED <<policies, app, run, failed, results>> /\ resume' \in Resumes
    BY <1>2 DEF RepairResume
  <2>2. HardTypeOK'
    BY <2>1 DEF HardInv, HardTypeOK
  <2>3. Sound'
    BY <2>1 DEF HardInv, Sound, RestsOnFacts, Shown
  <2>4. Agreed'
    BY <2>1 DEF HardInv, Agreed
  <2> QED BY <2>2, <2>3, <2>4 DEF HardInv
<1>3. CASE Enqueue
  <2>1. UNCHANGED <<policies, resume, failed, results>> /\ app.status = "new"
        /\ failed.state = "none" /\ DOMAIN results = {} /\ run.state # "active"
    BY <1>3 DEF Enqueue, HardInv, Agreed
  <2>2. CASE Usable(Latest)
    <3>1. Latest \in 1..Len(policies)
      BY <1>0, <2>2 DEF Usable, Latest
    <3>2. /\ app' = [app EXCEPT !.status = "hard_screening_pending", !.hard = "pending",
                                !.policy = Latest, !.demanded = Latest]
          /\ run' = [NoRun EXCEPT !.state = "active", !.policy = Latest]
      BY <1>3, <2>2 DEF Enqueue
    <3>3. run' \in Runs /\ run'.state = "active" /\ run'.policy = Latest /\ run'.step = "freeze"
      BY <1>0, <3>2, StartedOver DEF Latest
    <3>4. app'.status = "hard_screening_pending" /\ app'.policy = Latest
      BY <3>2 DEF HardInv, HardTypeOK
    <3>5. HardTypeOK'
      BY <1>0, <2>1, <3>1, <3>2, <3>3 DEF HardInv, HardTypeOK, Latest
    <3>6. Sound'
      BY <2>1, <3>1, <3>3, <3>4 DEF HardInv, Sound, RestsOnFacts
    <3>7. Agreed'
      BY <2>1, <3>3, <3>4 DEF HardInv, Agreed
    <3> QED BY <3>5, <3>6, <3>7 DEF HardInv
  <2>3. CASE ~Usable(Latest)
    <3>1. app' = [app EXCEPT !.status = "submitted"] /\ UNCHANGED run
      BY <1>3, <2>3 DEF Enqueue
    <3>2. app'.status = "submitted" /\ app'.policy = app.policy
      BY <3>1 DEF HardInv, HardTypeOK
    <3>3. HardTypeOK'
      BY <2>1, <3>1 DEF HardInv, HardTypeOK
    <3>4. Sound'
      BY <2>1, <3>1, <3>2 DEF HardInv, Sound, RestsOnFacts, Shown
    <3>5. Agreed'
      BY <2>1, <3>1, <3>2 DEF HardInv, Agreed
    <3> QED BY <3>3, <3>4, <3>5 DEF HardInv
  <2> QED BY <2>2, <2>3
<1>4. CASE Retry
  <2>1. app.status = "hard_screening_review" /\ UNCHANGED <<policies, resume, failed, results>>
    BY <1>4 DEF Retry
  <2>2. app'.status = "hard_screening_pending" /\ app'.policy = app.policy
    BY <1>4 DEF Retry, HardInv, HardTypeOK
  <2>3. run' \in Runs /\ run'.state = "active" /\ run'.policy = app.policy /\ RestsOnFacts(run')
    <3>1. CASE PublishOnly
      <4>1. run' = [failed EXCEPT !.state = "active"] /\ failed.state = "failed"
        BY <1>4, <3>1 DEF Retry, PublishOnly
      <4>2. run' \in Runs /\ run'.state = "active" /\ run'.policy = failed.policy
            /\ run'.step = failed.step /\ run'.rules = failed.rules /\ run'.resume = failed.resume
            /\ run'.said = failed.said /\ run'.verdicts = failed.verdicts
        BY <1>0, <4>1 DEF Runs
      <4>3. RestsOnFacts(run')
        BY <4>2 DEF HardInv, Sound, RestsOnFacts, Shown
      <4> QED BY <4>1, <4>2, <4>3 DEF HardInv, Agreed
    <3>2. CASE ~PublishOnly
      <4>1. run' = [NoRun EXCEPT !.state = "active", !.policy = app.policy]
        BY <1>4, <3>2 DEF Retry
      <4> QED BY <1>0, <4>1, StartedOver DEF RestsOnFacts
    <3> QED BY <3>1, <3>2
  <2>4. app' \in [status : {"new", "hard_screening_pending", "hard_screening_running",
                          "hard_screening_review", "submitted", "closed_rejected"},
                hard : {"none", "pending", "running"} \cup Outcome,
                recovery : {"none", "resume_source", "policy", "retryable", "review",
                            "source_review", "publish_retryable"},
                policy : Nat, demanded : Nat]
    BY <1>0, <1>4 DEF Retry, HardInv, HardTypeOK, Latest
  <2>5. HardTypeOK'
    BY <2>1, <2>3, <2>4 DEF HardInv, HardTypeOK
  <2>6. app.policy \in 1..Len(policies)
    BY <2>1 DEF HardInv, Sound
  <2>7. Sound'
    BY <2>1, <2>2, <2>3, <2>6 DEF HardInv, Sound
  <2>8. Agreed'
    BY <2>1, <2>2, <2>3 DEF HardInv, Agreed
  <2> QED BY <2>5, <2>7, <2>8 DEF HardInv
<1>5. CASE AdminRetry
  <2>1. UNCHANGED <<policies, resume, failed, results>> /\ app.status = "hard_screening_review"
        /\ failed.state = "failed"
    BY <1>5 DEF AdminRetry
  <2>2. app'.status = "hard_screening_pending" /\ app'.policy = app.policy
    BY <1>5 DEF AdminRetry, HardInv, HardTypeOK
  <2>3. run' \in Runs /\ run'.state = "active" /\ run'.policy = failed.policy /\ run'.step = "freeze"
    BY <1>0, <1>5, StartedOver DEF AdminRetry, Runs
  <2>4. HardTypeOK'
    BY <1>5, <2>1, <2>3 DEF AdminRetry, HardInv, HardTypeOK
  <2>5. Sound'
    BY <2>1, <2>2, <2>3 DEF HardInv, Sound, RestsOnFacts
  <2>6. Agreed'
    BY <2>1, <2>2, <2>3 DEF HardInv, Agreed
  <2> QED BY <2>4, <2>5, <2>6 DEF HardInv
<1>6. CASE Review
  <2>1. PICK status \in {"passed", "failed"} :
         /\ app' = [app EXCEPT !.status = After(status), !.hard = status, !.recovery = "none"]
         /\ results' = [p \in DOMAIN results |->
                       IF p = app.policy THEN Reviewed(results[p], status) ELSE results[p]]
    BY <1>6 DEF Review
  <2>2. UNCHANGED <<policies, resume, run, failed>> /\ app.status = "hard_screening_review"
    BY <1>6 DEF Review
  <2>3. app'.status = After(status) /\ app'.policy = app.policy
        /\ After(status) \in {"submitted", "closed_rejected"}
    BY <2>1 DEF HardInv, HardTypeOK, After
  <2>4. \A p \in DOMAIN results' : results'[p] \in [status : Outcome, verdicts : Partial(Verdict)]
    BY <2>1, ReviewedType DEF HardInv, HardTypeOK
  <2>5. app' \in [status : {"new", "hard_screening_pending", "hard_screening_running",
                          "hard_screening_review", "submitted", "closed_rejected"},
                hard : {"none", "pending", "running"} \cup Outcome,
                recovery : {"none", "resume_source", "policy", "retryable", "review",
                            "source_review", "publish_retryable"},
                policy : Nat, demanded : Nat]
    BY <2>1, <2>3 DEF HardInv, HardTypeOK, Outcome
  <2>6. HardTypeOK'
    BY <2>1, <2>2, <2>4, <2>5 DEF HardInv, HardTypeOK
  <2>7. Sound'
    BY <2>2, <2>3 DEF HardInv, Sound, RestsOnFacts, Shown
  <2>8. Agreed'
    BY <2>1, <2>2, <2>3 DEF HardInv, Agreed
  <2> QED BY <2>6, <2>7, <2>8 DEF HardInv
<1> QED BY <1>1, <1>2, <1>3, <1>4, <1>5, <1>6

\* The steps of a hard screening keep the invariant.
LEMMA HardInvIsKept == ASSUME HardInv, [HardNext]_hardVars PROVE HardInv'
<1>1. CASE Evaluate
  BY <1>1, EvaluateKeepsInv
<1>2. CASE ModelFails
  BY <1>2, ModelFailsKeepsInv
<1>3. CASE Freeze \/ PublishHard \/ Fail
  BY <1>3, RunKeepsInv
<1>4. CASE SavePolicy \/ RepairResume \/ Enqueue \/ Retry \/ AdminRetry \/ Review
  BY <1>4, PeopleKeepInv
<1>5. CASE UNCHANGED hardVars
  <2>1. HardTypeOK'
    BY <1>5 DEF hardVars, HardInv, HardTypeOK
  <2>2. Sound'
    BY <1>5 DEF hardVars, HardInv, Sound, RestsOnFacts, Shown
  <2>3. Agreed'
    BY <1>5 DEF hardVars, HardInv, Agreed
  <2> QED BY <2>1, <2>2, <2>3 DEF HardInv
<1> QED BY <1>1, <1>2, <1>3, <1>4, <1>5 DEF HardNext

\* It holds at the start.
LEMMA HardInvInitially == ASSUME HardInit PROVE HardInv
<1>1. PICK e \in BOOLEAN, c \in Contents : policies = <<[enabled |-> e, rules |-> c]>>
  BY DEF HardInit
<1>2. [enabled |-> e, rules |-> c] \in [enabled : BOOLEAN, rules : SUBSET Rules]
  BY HardScreeningConstants
<1>3. policies \in Seq([enabled : BOOLEAN, rules : SUBSET Rules])
  BY <1>1, <1>2
<1>4. HardTypeOK
  BY <1>3, NoRunType DEF HardInit, HardTypeOK
<1>5. NoRun.state = "none" /\ NoRun.step = "freeze"
  BY DEF NoRun
<1>6. Sound
  BY <1>5 DEF HardInit, Sound, RestsOnFacts
<1>7. Agreed
  BY <1>5 DEF HardInit, Agreed
<1> QED BY <1>4, <1>6, <1>7 DEF HardInv

\* Hard screening is what its declarations say.
THEOREM HardTypeCorrect == HardSpec => []HardTypeOK
<1>1. HardInv => HardTypeOK
  BY DEF HardInv
<1> QED BY <1>1, HardInvInitially, HardInvIsKept, PTL DEF HardSpec

\* No application is rejected without a rule that the resume was shown to break,
\* and none passes without every rule shown to be met, whatever the model says
\* and however often it fails (evaluate_hard_screening and the fallback of
\* HardScreeningActivityService).
THEOREM RejectionAlwaysHasGrounds == HardSpec => []RejectionHasGrounds
<1>1. HardInv => RejectionHasGrounds
  <2> SUFFICES ASSUME HardInv, run.state = "completed" PROVE
        /\ Overall(run.verdicts) = "failed" => \E r \in run.rules : Shown(run, r) = "failed"
        /\ Overall(run.verdicts) = "passed" => \A r \in run.rules : Shown(run, r) = "passed"
    BY DEF RejectionHasGrounds
  <2>1. /\ DOMAIN run.verdicts = run.rules
        /\ \A r \in run.rules : run.verdicts[r].status \in {"passed", "failed"}
                                 => Shown(run, r) = run.verdicts[r].status
    BY DEF HardInv, Sound, RestsOnFacts
  <2>2. \A r \in run.rules : run.verdicts[r].status \in Outcome
    <3>1. run.verdicts \in Partial(Verdict)
      BY DEF HardInv, HardTypeOK, Runs
    <3>2. run.verdicts \in [DOMAIN run.verdicts -> Verdict]
      BY <3>1, PartialElim
    <3> QED BY <2>1, <3>2 DEF Verdict
  <2>3. ASSUME Overall(run.verdicts) = "failed"
        PROVE  \E r \in run.rules : Shown(run, r) = "failed"
    <3>1. PICK r \in run.rules : run.verdicts[r].status = "failed"
      BY <2>1, <2>3 DEF Overall
    <3> QED BY <2>1, <3>1
  <2>4. ASSUME Overall(run.verdicts) = "passed", NEW r \in run.rules
        PROVE  Shown(run, r) = "passed"
    <3>1. run.verdicts[r].status = "passed"
      BY <2>1, <2>2, <2>4 DEF Overall, Outcome
    <3> QED BY <2>1, <3>1
  <2> QED BY <2>3, <2>4
<1> QED BY <1>1, HardInvInitially, HardInvIsKept, PTL DEF HardSpec

\* The application and its published result tell one story: what is added to
\* the invariant for those that are concluded.
LEMMA ConclusionIsKept ==
    ASSUME HardInv, ConclusionMatchesRules, [HardNext]_hardVars
    PROVE  ConclusionMatchesRules'
<1> DEFINE Concluded == {"closed_rejected", "submitted"}
<1>1. CASE PublishHard
  <2>1. /\ app'.status = After(Overall(run.verdicts)) /\ app'.hard = Overall(run.verdicts)
        /\ app'.policy = app.policy
    BY <1>1 DEF PublishHard, HardInv, HardTypeOK
  <2>2. run.policy = app.policy
    BY <1>1 DEF PublishHard, At, HardInv, Agreed
  <2>3. results'[run.policy] = [status |-> Overall(run.verdicts), verdicts |-> run.verdicts]
    BY <1>1 DEF PublishHard
  <2> QED BY <2>1, <2>2, <2>3 DEF ConclusionMatchesRules
<1>2. CASE Review
  <2>1. PICK status \in {"passed", "failed"} :
         /\ app' = [app EXCEPT !.status = After(status), !.hard = status, !.recovery = "none"]
         /\ results' = [p \in DOMAIN results |->
                       IF p = app.policy THEN Reviewed(results[p], status) ELSE results[p]]
    BY <1>2 DEF Review
  <2>2. app'.hard = status /\ app'.policy = app.policy
    BY <2>1 DEF HardInv, HardTypeOK
  <2>3. app.policy \in DOMAIN results => Overall(results[app.policy].verdicts) = "manual_review"
    BY <1>2 DEF Review, HardInv, Agreed
  <2> QED BY <2>1, <2>2, <2>3, ReviewedConcludes DEF ConclusionMatchesRules
<1>3. CASE Enqueue
  <2>1. DOMAIN results' = {}
    BY <1>3 DEF Enqueue, HardInv, Agreed
  <2> QED BY <2>1 DEF ConclusionMatchesRules
<1>4. CASE Freeze \/ Fail \/ Retry \/ AdminRetry
  <2>1. app'.status \in {"hard_screening_pending", "hard_screening_running", "hard_screening_review"}
    <3>1. CASE Freeze
      BY <3>1 DEF Freeze, HardInv, HardTypeOK
    <3>2. CASE Fail
      BY <3>2 DEF Fail, HardInv, HardTypeOK
    <3>3. CASE Retry
      BY <3>3 DEF Retry, HardInv, HardTypeOK
    <3>4. CASE AdminRetry
      BY <3>4 DEF AdminRetry, HardInv, HardTypeOK
    <3> QED BY <1>4, <3>1, <3>2, <3>3, <3>4
  <2> QED BY <2>1 DEF ConclusionMatchesRules
<1>5. CASE UNCHANGED <<app, results>>
  BY <1>5 DEF ConclusionMatchesRules
<1>6. CASE SavePolicy \/ RepairResume \/ Evaluate \/ ModelFails \/ UNCHANGED hardVars
  BY <1>5, <1>6 DEF SavePolicy, RepairResume, Evaluate, Evaluated, ModelFails, hardVars
<1> QED BY <1>1, <1>2, <1>3, <1>4, <1>6 DEF HardNext

\* Who passed has no rule that failed or is still open, and who was rejected has
\* one that failed (complete_workflow and review).
THEOREM ConclusionAlwaysMatches == HardSpec => []ConclusionMatchesRules
<1>1. HardInit => ConclusionMatchesRules
  BY DEF HardInit, ConclusionMatchesRules
<1> QED BY <1>1, HardInvInitially, HardInvIsKept, ConclusionIsKept, PTL DEF HardSpec

-----------------------------------------------------------------------------
(* Numbers. *)

\* A set of natural numbers has a least element.
LEMMA LeastNumber ==
    ASSUME NEW T \in SUBSET Nat, T # {}
    PROVE  \E n \in T : \A m \in T : n <= m
<1> DEFINE R == {p \in Nat \X Nat : p[1] < p[2]}
<1>1. IsWellFoundedOn(R, Nat)
  BY NatLessThanWellFounded DEF OpToRel
<1>0. ASSUME NEW m \in Nat, NEW n \in Nat, m < n PROVE <<m, n>> \in R
  <2>1. <<m, n>> \in Nat \X Nat /\ <<m, n>>[1] < <<m, n>>[2]
    BY <1>0
  <2> QED BY <2>1
<1> HIDE DEF R
<1>2. PICK n \in T : \A m \in T : <<m, n>> \notin R
  BY <1>1, WFMin
<1>3. \A m \in T : n <= m
  <2> SUFFICES ASSUME NEW m \in T, ~ n <= m PROVE FALSE
    OBVIOUS
  <2>1. m < n
    OBVIOUS
  <2> QED BY <1>0, <1>2, <2>1
<1> QED BY <1>3

\* And one of scores a greatest.
LEMMA GreatestScore ==
    ASSUME NEW N \in Nat, NEW S \in SUBSET (0..N), S # {}
    PROVE  \E m \in S : \A y \in S : y <= m
<1> DEFINE T == {N - x : x \in S}
<1>1. T \in SUBSET Nat /\ T # {}
  <2>1. \A x \in S : N - x \in Nat
    OBVIOUS
  <2> QED BY <2>1
<1>2. PICK n \in T : \A m \in T : n <= m
  <2> HIDE DEF T
  <2> QED BY <1>1, LeastNumber
<1>3. PICK x \in S : n = N - x
  BY <1>2
<1>4. \A y \in S : N - x <= N - y
  BY <1>2, <1>3
<1> QED BY <1>4

\* The best by two measures, of which the second only decides between equals.
HasFirst(S, f, g) == \E x \in S : \A y \in S : f[x] > f[y] \/ (f[x] = f[y] /\ g[x] <= g[y])

\* There is one.
LEMMA FirstInOrder ==
    ASSUME NEW N \in Nat, NEW S, S # {}, NEW f \in [S -> 0..N], NEW g \in [S -> Nat]
    PROVE  HasFirst(S, f, g)
<1> DEFINE F == {f[x] : x \in S}
<1>1. PICK m \in F : \A y \in F : y <= m
  <2>1. F \in SUBSET (0..N) /\ F # {}
    OBVIOUS
  <2> HIDE DEF F
  <2> QED BY <2>1, GreatestScore
<1> DEFINE best == {x \in S : f[x] = m}
<1>2. best # {}
  BY <1>1
<1> DEFINE G == {g[x] : x \in best}
<1>3. PICK n \in G : \A y \in G : n <= y
  <2>1. G \in SUBSET Nat /\ G # {}
    BY <1>2
  <2> HIDE DEF G
  <2> QED BY <2>1, LeastNumber
<1>4. PICK x \in best : g[x] = n
  BY <1>3
<1>5. ASSUME NEW y \in S PROVE f[x] > f[y] \/ (f[x] = f[y] /\ g[x] <= g[y])
  BY <1>1, <1>3, <1>4
<1> QED BY <1>4, <1>5 DEF HasFirst

\* A product of numbers is one.
LEMMA Product == ASSUME NEW a \in Nat, NEW b \in Nat PROVE a * b \in Nat
OBVIOUS

\* Division rounds down.
LEMMA Quotient ==
    ASSUME NEW s \in Int, NEW n \in Nat \ {0}
    PROVE  s \div n \in Int /\ n * (s \div n) <= s /\ s < n * (s \div n) + n
OBVIOUS

\* A quotient is between the bounds of what is divided.
LEMMA QuotientBetween ==
    ASSUME NEW s \in Int, NEW n \in Nat \ {0}, NEW lo \in Int, NEW hi \in Int,
           lo * n <= s, s <= hi * n
    PROVE  s \div n \in lo..hi
<1> DEFINE q == s \div n
<1>1. q \in Int /\ n * q <= s /\ s < n * q + n
  BY Quotient
<1> HIDE DEF q
<1>2. ~ q < lo
  <2> SUFFICES ASSUME q + 1 <= lo PROVE FALSE
    BY <1>1
  <2>1. n * (q + 1) <= n * lo
    BY <1>1
  <2> QED BY <1>1, <2>1
<1>3. ~ q > hi
  <2> SUFFICES ASSUME hi + 1 <= q PROVE FALSE
    BY <1>1
  <2>1. n * (hi + 1) <= n * q
    BY <1>1
  <2> QED BY <1>1, <2>1
<1> QED BY <1>1, <1>2, <1>3 DEF q

\* Nothing else is.
LEMMA QuotientIs ==
    ASSUME NEW s \in Int, NEW n \in Nat \ {0}, NEW k \in Int, n * k <= s, s < n * k + n
    PROVE  s \div n = k
<1>1. s \div n \in Int /\ n * (s \div n) <= s /\ s < n * (s \div n) + n
  BY Quotient
<1> DEFINE q == s \div n
<1> HIDE DEF q
<1>2. ~ q < k
  <2> SUFFICES ASSUME q + 1 <= k PROVE FALSE
    BY <1>1 DEF q
  <2>1. n * (q + 1) <= n * k
    BY <1>1 DEF q
  <2> QED BY <1>1, <2>1 DEF q
<1>3. ~ k < q
  <2> SUFFICES ASSUME k + 1 <= q PROVE FALSE
    BY <1>1 DEF q
  <2>1. n * (k + 1) <= n * q
    BY <1>1 DEF q
  <2> QED BY <1>1, <2>1 DEF q
<1> QED BY <1>1, <1>2, <1>3 DEF q

\* And it grows with it.
LEMMA QuotientGrows ==
    ASSUME NEW s \in Int, NEW t \in Int, s <= t, NEW n \in Nat \ {0}
    PROVE  s \div n <= t \div n
<1> DEFINE q == s \div n
           r == t \div n
<1>1. q \in Int /\ n * q <= s /\ r \in Int /\ t < n * r + n
  BY Quotient
<1> HIDE DEF q, r
<1> SUFFICES ASSUME r + 1 <= q PROVE FALSE
  BY <1>1 DEF q, r
<1>2. n * (r + 1) <= n * q
  BY <1>1
<1> QED BY <1>1, <1>2

-----------------------------------------------------------------------------
(* Sums: MapThenSumSet takes the elements of a set one by one. *)

Pick(s) == CHOOSE x \in s : TRUE
SumFrom(g, f, s) == IF s = {} THEN 0 ELSE f[Pick(s)] + g[s \ {Pick(s)}]

\* There is such a sum of every part of a finite set, built up by size.
LEMMA PartialSums ==
    ASSUME NEW S, IsFiniteSet(S), NEW f
    PROVE  \E g : g = [s \in SUBSET S |-> SumFrom(g, f, s)]
<1> DEFINE Upto(n) == {s \in SUBSET S : Cardinality(s) <= n}
           Sums(g, n) == g = [s \in Upto(n) |-> SumFrom(g, f, s)]
           Bad == {n \in Nat : ~ \E g : Sums(g, n)}
<1>1. ASSUME NEW s \in SUBSET S PROVE IsFiniteSet(s) /\ Cardinality(s) \in Nat
  BY FS_Subset, FS_CardinalityType
<1>2. ASSUME NEW s \in SUBSET S, s # {}
      PROVE  Pick(s) \in s /\ Cardinality(s \ {Pick(s)}) = Cardinality(s) - 1
  <2>1. Pick(s) \in s
    BY <1>2 DEF Pick
  <2> QED BY <1>1, <2>1, FS_RemoveElement
<1>3. ASSUME NEW n \in Nat, NEW g, Sums(g, n) PROVE \E h : Sums(h, n + 1)
  <2> DEFINE h == [s \in Upto(n + 1) |-> SumFrom(g, f, s)]
  <2>1. ASSUME NEW s \in Upto(n) PROVE h[s] = g[s]
    <3>1. s \in Upto(n + 1)
      BY <1>1
    <3> QED BY <1>3, <3>1
  <2>2. ASSUME NEW s \in Upto(n + 1) PROVE SumFrom(h, f, s) = SumFrom(g, f, s)
    <3>1. CASE s = {}
      BY <3>1 DEF SumFrom
    <3>2. CASE s # {}
      <4>1. s \ {Pick(s)} \in Upto(n)
        BY <1>1, <1>2, <3>2
      <4> HIDE DEF h
      <4> QED BY <2>1, <4>1, <3>2 DEF SumFrom
    <3> QED BY <3>1, <3>2
  <2>3. Sums(h, n + 1)
    BY <2>2
  <2> QED BY <2>3
<1>4. \E g : Sums(g, 0)
  <2> DEFINE h == [s \in Upto(0) |-> 0]
  <2>1. \A s \in Upto(0) : s = {}
    BY <1>1, FS_EmptySet
  <2>2. Sums(h, 0)
    BY <2>1 DEF SumFrom
  <2> QED BY <2>2
<1> HIDE DEF Sums
<1>5. Bad = {}
  <2> SUFFICES ASSUME Bad # {} PROVE FALSE
    OBVIOUS
  <2>1. PICK n \in Bad : \A m \in Bad : n <= m
    <3>1. Bad \in SUBSET Nat
      OBVIOUS
    <3> HIDE DEF Bad
    <3> QED BY <3>1, LeastNumber
  <2>2. n # 0
    BY <1>4
  <2>3. n - 1 \in Nat /\ n - 1 \notin Bad
    BY <2>1, <2>2
  <2> QED BY <1>3, <2>1, <2>3
<1>6. Cardinality(S) \in Nat /\ Upto(Cardinality(S)) = SUBSET S
  <2>1. \A s \in SUBSET S : Cardinality(s) <= Cardinality(S)
    BY FS_Subset
  <2> QED BY <1>1, <2>1
<1>7. PICK g : Sums(g, Cardinality(S))
  BY <1>5, <1>6
<1> QED BY <1>6, <1>7 DEF Sums

\* What is known of a sum: nothing sums up to 0, and one element of a set can be
\* set apart.
SumsUp(g, S, f) ==
    /\ g[{}] = 0
    /\ \A s \in SUBSET S : s # {} => g[s] = f[Pick(s)] + g[s \ {Pick(s)}]

\* SumOf is such a sum.
LEMMA SumIs ==
    ASSUME NEW S, IsFiniteSet(S), NEW f
    PROVE  \E g : SumsUp(g, S, f) /\ SumOf(S, f) = g[S]
<1> DEFINE g == CHOOSE g : g = [s \in SUBSET S |-> SumFrom(g, f, s)]
<1>1. g = [s \in SUBSET S |-> SumFrom(g, f, s)]
  BY PartialSums
<1>2. SumOf(S, f) = g[S]
  BY DEF SumOf, MapThenSumSet, MapThenFoldSet, SumFrom, Pick
<1> HIDE DEF g
<1>3. g[{}] = 0
  BY <1>1 DEF SumFrom
<1>4. ASSUME NEW s \in SUBSET S, s # {} PROVE g[s] = f[Pick(s)] + g[s \ {Pick(s)}]
  <2>1. g[s] = SumFrom(g, f, s)
    BY <1>1
  <2> QED BY <1>4, <2>1 DEF SumFrom
<1> QED BY <1>2, <1>3, <1>4 DEF SumsUp

\* What is true of nothing, and of a set if it is of the set without its Pick, is
\* true of every part of a finite set.
LEMMA PartByPart ==
    ASSUME NEW S, IsFiniteSet(S), NEW Good \in SUBSET SUBSET S, {} \in Good,
           \A s \in SUBSET S : s # {} /\ s \ {Pick(s)} \in Good => s \in Good
    PROVE  Good = SUBSET S
<1> DEFINE Bad == {n \in Nat : \E s \in SUBSET S : s \notin Good /\ Cardinality(s) = n}
<1>1. ASSUME NEW s \in SUBSET S PROVE IsFiniteSet(s) /\ Cardinality(s) \in Nat
  BY FS_Subset, FS_CardinalityType
<1>2. ASSUME Bad = {} PROVE Good = SUBSET S
  <2>1. ASSUME NEW s \in SUBSET S PROVE s \in Good
    <3>1. Cardinality(s) \in Nat
      BY <1>1
    <3> QED BY <1>2, <3>1
  <2> QED BY <2>1
<1>3. ASSUME Bad # {} PROVE FALSE
  <2>1. PICK n \in Bad : \A m \in Bad : n <= m
    <3>1. Bad \in SUBSET Nat
      OBVIOUS
    <3> HIDE DEF Bad
    <3> QED BY <1>3, <3>1, LeastNumber
  <2>2. PICK s \in SUBSET S : s \notin Good /\ Cardinality(s) = n
    OBVIOUS
  <2>3. s # {}
    BY <2>2
  <2> DEFINE rest == s \ {Pick(s)}
  <2>4. Pick(s) \in s
    BY <2>3 DEF Pick
  <2>5. Cardinality(rest) = n - 1 /\ n \in Nat
    BY <1>1, <2>2, <2>4, FS_RemoveElement
  <2>6. rest \in SUBSET S /\ rest \notin Good
    BY <2>2, <2>3
  <2>7. Cardinality(rest) \in Nat
    BY <1>1, <2>6
  <2> HIDE DEF rest
  <2>8. n - 1 \in Bad
    BY <2>5, <2>6, <2>7
  <2> HIDE DEF Bad
  <2> QED BY <2>1, <2>5, <2>8
<1> QED BY <1>2, <1>3

\* Numbers add up to a number.
LEMMA SumType ==
    ASSUME NEW S, IsFiniteSet(S), NEW f, \A x \in S : f[x] \in Int, NEW g, SumsUp(g, S, f)
    PROVE  \A s \in SUBSET S : g[s] \in Int
<1> DEFINE Good == {s \in SUBSET S : g[s] \in Int}
<1>1. {} \in Good
  BY DEF SumsUp
<1>2. ASSUME NEW s \in SUBSET S, s # {}, s \ {Pick(s)} \in Good PROVE s \in Good
  <2>1. Pick(s) \in s
    BY <1>2 DEF Pick
  <2>2. g[s] = f[Pick(s)] + g[s \ {Pick(s)}]
    BY <1>2 DEF SumsUp
  <2>3. f[Pick(s)] \in Int /\ g[s \ {Pick(s)}] \in Int
    BY <1>2, <2>1
  <2>4. g[s] \in Int
    BY <2>2, <2>3
  <2> QED BY <2>4
<1>3. Good = SUBSET S
  <2>1. Good \in SUBSET SUBSET S
    OBVIOUS
  <2>2. \A s \in SUBSET S : s # {} /\ s \ {Pick(s)} \in Good => s \in Good
    BY <1>2
  <2> HIDE DEF Good
  <2> QED BY <1>1, <2>1, <2>2, PartByPart
<1> QED BY <1>3

\* A sum is between as many times the least and the greatest.
LEMMA SumBounds ==
    ASSUME NEW S, IsFiniteSet(S), NEW lo \in Int, NEW hi \in Int,
           NEW f, \A x \in S : f[x] \in lo..hi, NEW g, SumsUp(g, S, f)
    PROVE  lo * Cardinality(S) <= g[S] /\ g[S] <= hi * Cardinality(S)
<1> DEFINE Good == {s \in SUBSET S : lo * Cardinality(s) <= g[s] /\ g[s] <= hi * Cardinality(s)}
<1>0. \A s \in SUBSET S : g[s] \in Int
  BY SumType
<1>1. {} \in Good
  BY FS_EmptySet DEF SumsUp
<1>2. ASSUME NEW s \in SUBSET S, s # {}, s \ {Pick(s)} \in Good PROVE s \in Good
  <2>1. Pick(s) \in s
    BY <1>2 DEF Pick
  <2>2. Cardinality(s) \in Nat /\ Cardinality(s \ {Pick(s)}) = Cardinality(s) - 1
    BY <2>1, FS_Subset, FS_CardinalityType, FS_RemoveElement
  <2> DEFINE n == Cardinality(s)
             before == g[s \ {Pick(s)}]
             one == f[Pick(s)]
  <2>3. g[s] = one + before /\ before \in Int /\ one \in lo..hi
    BY <1>0, <1>2, <2>1 DEF SumsUp
  <2>4. lo * (n - 1) <= before /\ before <= hi * (n - 1)
    BY <1>2, <2>2
  <2>5. n \in Nat
    BY <2>2
  <2> HIDE DEF n, before, one
  <2>6. lo * (n - 1) = lo * n - lo /\ hi * (n - 1) = hi * n - hi
    BY <2>5
  <2>7. lo * n <= g[s] /\ g[s] <= hi * n
    BY <2>3, <2>4, <2>5, <2>6
  <2> QED BY <2>7 DEF n
<1>3. Good = SUBSET S
  <2>1. Good \in SUBSET SUBSET S
    OBVIOUS
  <2>2. \A s \in SUBSET S : s # {} /\ s \ {Pick(s)} \in Good => s \in Good
    BY <1>2
  <2> HIDE DEF Good
  <2> QED BY <1>1, <2>1, <2>2, PartByPart
<1> QED BY <1>3

\* A sum grows with what is added.
LEMMA SumGrows ==
    ASSUME NEW S, IsFiniteSet(S),
           NEW f, \A x \in S : f[x] \in Int, NEW g, SumsUp(g, S, f),
           NEW e, \A x \in S : e[x] \in Int, NEW h, SumsUp(h, S, e),
           \A x \in S : f[x] <= e[x]
    PROVE  g[S] <= h[S]
<1> DEFINE Good == {s \in SUBSET S : g[s] <= h[s]}
<1>0. \A s \in SUBSET S : g[s] \in Int /\ h[s] \in Int
  BY SumType
<1>1. {} \in Good
  BY DEF SumsUp
<1>2. ASSUME NEW s \in SUBSET S, s # {}, s \ {Pick(s)} \in Good PROVE s \in Good
  <2>1. Pick(s) \in s
    BY <1>2 DEF Pick
  <2>2. /\ g[s] = f[Pick(s)] + g[s \ {Pick(s)}] /\ h[s] = e[Pick(s)] + h[s \ {Pick(s)}]
    BY <1>2 DEF SumsUp
  <2>3. /\ f[Pick(s)] \in Int /\ e[Pick(s)] \in Int /\ f[Pick(s)] <= e[Pick(s)]
        /\ g[s \ {Pick(s)}] \in Int /\ h[s \ {Pick(s)}] \in Int
        /\ g[s \ {Pick(s)}] <= h[s \ {Pick(s)}]
    BY <1>0, <1>2, <2>1
  <2> QED BY <2>2, <2>3
<1>3. Good = SUBSET S
  <2>1. Good \in SUBSET SUBSET S
    OBVIOUS
  <2>2. \A s \in SUBSET S : s # {} /\ s \ {Pick(s)} \in Good => s \in Good
    BY <1>2
  <2> HIDE DEF Good
  <2> QED BY <1>1, <2>1, <2>2, PartByPart
<1> QED BY <1>3

-----------------------------------------------------------------------------
(* Means. *)

\* A mean is between the least and the greatest.
LEMMA MeanBetween ==
    ASSUME NEW xs, IsFiniteSet(xs), xs # {}, NEW lo \in Int, NEW hi \in Int,
           NEW of, \A x \in xs : of[x] \in lo..hi
    PROVE  Mean(xs, of) \in lo..hi
<1>1. PICK g : SumsUp(g, xs, of) /\ SumOf(xs, of) = g[xs]
  BY SumIs
<1>2. g[xs] \in Int /\ lo * Cardinality(xs) <= g[xs] /\ g[xs] <= hi * Cardinality(xs)
  <2>1. \A x \in xs : of[x] \in Int
    OBVIOUS
  <2> QED BY <1>1, <2>1, SumType, SumBounds
<1>3. Cardinality(xs) \in Nat \ {0}
  BY FS_CardinalityType, FS_EmptySet
<1>4. Mean(xs, of) = g[xs] \div Cardinality(xs)
  BY <1>1 DEF Mean
<1> QED BY <1>2, <1>3, <1>4, QuotientBetween

\* It grows with them.
LEMMA MeanGrows ==
    ASSUME NEW xs, IsFiniteSet(xs), NEW f, NEW e,
           \A x \in xs : f[x] \in Int /\ e[x] \in Int /\ f[x] <= e[x]
    PROVE  Mean(xs, f) \in Int /\ Mean(xs, e) \in Int /\ Mean(xs, f) <= Mean(xs, e)
<1>1. CASE xs = {}
  BY <1>1 DEF Mean
<1>2. CASE xs # {}
  <2>1. PICK g : SumsUp(g, xs, f) /\ SumOf(xs, f) = g[xs]
    BY SumIs
  <2>2. PICK h : SumsUp(h, xs, e) /\ SumOf(xs, e) = h[xs]
    BY SumIs
  <2>3. g[xs] \in Int /\ h[xs] \in Int /\ g[xs] <= h[xs]
    BY <2>1, <2>2, SumType, SumGrows
  <2>4. Cardinality(xs) \in Nat \ {0}
    BY <1>2, FS_CardinalityType, FS_EmptySet
  <2>5. Mean(xs, f) = g[xs] \div Cardinality(xs) /\ Mean(xs, e) = h[xs] \div Cardinality(xs)
    BY <1>2, <2>1, <2>2 DEF Mean
  <2> QED BY <2>3, <2>4, <2>5, Quotient, QuotientGrows
<1> QED BY <1>1, <1>2

\* And the same numbers have the same mean.
LEMMA SameMean ==
    ASSUME NEW xs, IsFiniteSet(xs), NEW f, NEW e,
           \A x \in xs : f[x] \in Int /\ e[x] = f[x]
    PROVE  Mean(xs, f) \in Int /\ Mean(xs, e) = Mean(xs, f)
<1>1. Mean(xs, f) \in Int /\ Mean(xs, e) \in Int /\ Mean(xs, f) <= Mean(xs, e)
  BY MeanGrows
<1>2. Mean(xs, e) <= Mean(xs, f)
  BY MeanGrows
<1> QED BY <1>1, <1>2

-----------------------------------------------------------------------------
(* The best of some scores. *)

Scores(xs, of) == \A x \in xs : of[x] \in 0..Full
NoLower(xs, of, to) == \A x \in xs : of[x] <= to[x]
Topped(xs, of, zs, to) == \A x \in xs : \E z \in zs : of[x] <= to[z]

\* The scores of some of them.
LEMMA ScoresOfSome ==
    ASSUME NEW xs, NEW of, Scores(xs, of), NEW ys, ys \subseteq xs
    PROVE  Scores(ys, of)
BY DEF Scores

\* The scale has a length.
LEMMA FullIsNumber == Full \in Nat \ {0} /\ 0 \in 0..Full
BY DEF Full

\* A score is a number between nothing and all.
LEMMA ScoreIsNumber ==
    ASSUME NEW a \in 0..Full
    PROVE  a \in Nat /\ 0 <= a /\ a <= a /\ a <= Full
BY DEF Full

\* Scores are ordered.
LEMMA Ordered ==
    ASSUME NEW a \in 0..Full, NEW b \in 0..Full, NEW c \in 0..Full, a <= b, b <= c
    PROVE  a <= c
<1>1. a \in Nat /\ b \in Nat /\ c \in Nat
  BY ScoreIsNumber
<1> QED BY <1>1

\* The highest score is one, and no other is higher.
LEMMA TopIs ==
    ASSUME NEW xs, NEW of, Scores(xs, of)
    PROVE  /\ Top(xs, of) \in 0..Full
           /\ \A x \in xs : of[x] <= Top(xs, of)
           /\ xs # {} => \E x \in xs : of[x] = Top(xs, of)
<1>1. CASE xs = {}
  BY <1>1 DEF Top, Full
<1>2. CASE xs # {}
  <2> DEFINE S == {of[x] : x \in xs}
  <2>1. S \in SUBSET (0..Full) /\ S # {} /\ Full \in Nat
    <3>1. S \in SUBSET (0..Full)
      BY DEF Scores
    <3>2. S # {}
      BY <1>2
    <3> QED BY <3>1, <3>2, FullIsNumber
  <2>2. Top(xs, of) = Max(S)
    BY <1>2 DEF Top
  <2>3. \A x \in xs : of[x] \in S
    OBVIOUS
  <2>4. \A m \in S : m \in 0..Full /\ \E x \in xs : m = of[x]
    BY DEF Scores
  <2> HIDE DEF S
  <2>5. \E m \in S : \A y \in S : y <= m
    BY <2>1, GreatestScore
  <2>6. Max(S) \in S /\ \A y \in S : Max(S) >= y
    <3>1. PICK m \in S : \A y \in S : y <= m
      BY <2>5
    <3>2. \A y \in S : y \in Nat
      BY <2>4, ScoreIsNumber
    <3>3. \A y \in S : m >= y
      BY <3>1, <3>2
    <3> QED BY <3>3 DEF Max
  <2>7. \A x \in xs : of[x] <= Max(S)
    <3>1. \A y \in S : y \in Nat
      BY <2>4, ScoreIsNumber
    <3>2. \A y \in S : y <= Max(S)
      BY <2>6, <3>1
    <3> QED BY <2>3, <3>2
  <2> QED BY <2>2, <2>4, <2>6, <2>7
<1> QED BY <1>1, <1>2

\* The best has it; the others are all but that one.
LEMMA BestIs ==
    ASSUME NEW xs, xs # {}, NEW of, Scores(xs, of)
    PROVE  /\ Best(xs, of) \in xs /\ of[Best(xs, of)] = Top(xs, of)
           /\ Others(xs, of) = xs \ {Best(xs, of)}
<1>1. \E x \in xs : of[x] = Top(xs, of)
  BY TopIs
<1>2. Best(xs, of) \in xs /\ of[Best(xs, of)] = Top(xs, of)
  BY <1>1 DEF Best
<1> QED BY <1>2 DEF Others

\* Whatever they are, they are some of them.
LEMMA OthersAre ==
    ASSUME NEW xs, NEW of
    PROVE  Others(xs, of) \subseteq xs
BY DEF Others

\* Where every score is as high or higher, the best, the second and the third are.
LEMMA TopGrows ==
    ASSUME NEW xs, NEW of, Scores(xs, of), NEW zs, NEW to, Scores(zs, to),
           Topped(xs, of, zs, to)
    PROVE  Top(xs, of) <= Top(zs, to)
<1>1. Top(xs, of) \in 0..Full /\ Top(zs, to) \in 0..Full
  BY TopIs
<1>2. CASE xs = {}
  <2>1. Top(xs, of) = 0
    BY <1>2 DEF Top
  <2> QED BY <1>1, <2>1, ScoreIsNumber
<1>3. CASE xs # {}
  <2>1. PICK x \in xs : of[x] = Top(xs, of)
    BY <1>3, TopIs
  <2>2. PICK z \in zs : of[x] <= to[z]
    BY DEF Topped
  <2>3. to[z] <= Top(zs, to) /\ to[z] \in 0..Full
    BY TopIs DEF Scores
  <2> QED BY <1>1, <2>1, <2>2, <2>3, Ordered
<1> QED BY <1>2, <1>3

\* The second: one of the three that are above it here is not the best there.
LEMMA SecondGrows ==
    ASSUME NEW xs, NEW of, Scores(xs, of), NEW to, Scores(xs, to), NoLower(xs, of, to)
    PROVE  Top(Others(xs, of), of) <= Top(Others(xs, to), to)
<1> DEFINE b == Best(xs, of)
           d == Best(xs, to)
           ys == Others(xs, of)
           zs == Others(xs, to)
<1>1. ys \subseteq xs /\ zs \subseteq xs
  BY OthersAre
<1>2. Scores(ys, of) /\ Scores(zs, to)
  BY <1>1, ScoresOfSome
<1>3. ASSUME NEW x \in ys PROVE \E z \in zs : of[x] <= to[z]
  <2>1. xs # {}
    BY <1>1, <1>3
  <2>2. b \in xs /\ of[b] = Top(xs, of) /\ ys = xs \ {b}
    BY <2>1, BestIs
  <2>3. d \in xs /\ zs = xs \ {d}
    BY <2>1, BestIs
  <2> HIDE DEF b, d, ys, zs
  <2>4. x \in xs /\ of[x] <= of[b] /\ of[b] <= to[b] /\ of[x] <= to[x]
    BY <1>1, <2>2, TopIs DEF NoLower
  <2>5. of[x] \in 0..Full /\ of[b] \in 0..Full /\ to[b] \in 0..Full
    BY <2>2, <2>4 DEF Scores
  <2>6. of[x] <= to[b]
    BY <2>4, <2>5, Ordered
  <2> QED BY <2>2, <2>3, <2>4, <2>6
<1>4. Topped(ys, of, zs, to)
  BY <1>3 DEF Topped
<1> QED BY <1>2, <1>4, TopGrows

\* And the third.
LEMMA ThirdGrows ==
    ASSUME NEW xs, NEW of, Scores(xs, of), NEW to, Scores(xs, to), NoLower(xs, of, to)
    PROVE  Top(Others(Others(xs, of), of), of) <= Top(Others(Others(xs, to), to), to)
<1> DEFINE ys == Others(xs, of)
           zs == Others(xs, to)
           us == Others(ys, of)
           vs == Others(zs, to)
           b1 == Best(xs, of)
           b2 == Best(ys, of)
           d1 == Best(xs, to)
           d2 == Best(zs, to)
<1>1. ys \subseteq xs /\ zs \subseteq xs /\ us \subseteq ys /\ vs \subseteq zs
  BY OthersAre
<1>2. Scores(ys, of) /\ Scores(zs, to)
  BY <1>1, ScoresOfSome
<1>3. Scores(us, of) /\ Scores(vs, to)
  BY <1>1, <1>2, ScoresOfSome
<1>4. ASSUME NEW y \in us PROVE \E z \in vs : of[y] <= to[z]
  <2>1. ys # {} /\ xs # {}
    BY <1>1, <1>4
  <2>2. b1 \in xs /\ of[b1] = Top(xs, of) /\ ys = xs \ {b1}
    BY <2>1, BestIs
  <2>3. d1 \in xs /\ zs = xs \ {d1}
    BY <2>1, BestIs
  <2>4. b2 \in ys /\ of[b2] = Top(ys, of) /\ us = ys \ {b2}
    BY <1>2, <2>1, BestIs
  <2>5. zs # {}
    BY <2>2, <2>3, <2>4, <1>4
  <2>6. d2 \in zs /\ vs = zs \ {d2}
    BY <1>2, <2>5, BestIs
  <2>7. y \in ys /\ y \in xs
    BY <1>1, <1>4
  <2>8. of[y] <= of[b1] /\ of[y] <= of[b2]
    <3>1. of[y] <= Top(xs, of)
      BY <2>7, TopIs
    <3>2. of[y] <= Top(ys, of)
      BY <1>2, <2>7, TopIs
    <3> QED BY <2>2, <2>4, <3>1, <3>2
  <2> HIDE DEF ys, zs, us, vs, b1, b2, d1, d2
  <2>9. of[y] \in 0..Full /\ of[b1] \in 0..Full /\ of[b2] \in 0..Full
    BY <1>1, <2>2, <2>4, <2>7 DEF Scores
  <2>10. of[y] <= of[y]
    BY <2>9, ScoreIsNumber
  <2>11. b1 # b2 /\ y # b1 /\ y # b2
    BY <1>4, <2>2, <2>4
  <2>12. PICK z \in {y, b1, b2} : z # d1 /\ z # d2
    BY <2>11
  <2>13. z \in vs
    BY <1>1, <2>2, <2>3, <2>4, <2>6, <2>7, <2>12
  <2>14. of[y] <= of[z]
    BY <2>8, <2>10
  <2>15. z \in xs
    BY <1>1, <2>13
  <2>16. of[z] <= to[z] /\ of[z] \in 0..Full /\ to[z] \in 0..Full
    BY <2>15 DEF NoLower, Scores
  <2>17. of[y] <= to[z]
    BY <2>9, <2>14, <2>16, Ordered
  <2> QED BY <2>13, <2>17
<1>5. Topped(us, of, vs, to)
  BY <1>4 DEF Topped
<1> QED BY <1>3, <1>5, TopGrows

\* The three best are scores.
LEMMA TopsType ==
    ASSUME NEW xs, NEW of, Scores(xs, of)
    PROVE  /\ Top(xs, of) \in 0..Full
           /\ Top(Others(xs, of), of) \in 0..Full
           /\ Top(Others(Others(xs, of), of), of) \in 0..Full
<1>1. Others(xs, of) \subseteq xs /\ Others(Others(xs, of), of) \subseteq Others(xs, of)
  BY OthersAre
<1>2. Scores(Others(xs, of), of) /\ Scores(Others(Others(xs, of), of), of)
  BY <1>1, ScoresOfSome
<1> QED BY <1>2, TopIs

\* A score is full at most.
LEMMA LeastGrows ==
    ASSUME NEW s \in Nat, NEW t \in Nat, s <= t
    PROVE  Least(Full, s) \in 0..Full /\ Least(Full, t) \in 0..Full /\ Least(Full, s) <= Least(Full, t)
<1>1. Least(Full, s) \in 0..Full
  BY DEF Least, Full
<1>2. Least(Full, t) \in 0..Full
  BY DEF Least, Full
<1>3. Least(Full, s) <= Least(Full, t)
  BY DEF Least, Full
<1> QED BY <1>1, <1>2, <1>3

\* What is supported by others is still a score.
LEMMA SupportedType ==
    ASSUME NEW xs, NEW of, Scores(xs, of),
           NEW second \in Nat, NEW third \in Nat
    PROVE  Supported(xs, of, second, third) \in 0..Full
<1> DEFINE p == Top(xs, of)
           q == Top(Others(xs, of), of)
           r == Top(Others(Others(xs, of), of), of)
<1>1. p \in 0..Full /\ q \in 0..Full /\ r \in 0..Full
  BY TopsType
<1>2. Supported(xs, of, second, third)
        = Least(Full, p + (second * q) \div 100 + (third * r) \div 100)
  BY DEF Supported
<1> HIDE DEF p, q, r
<1> DEFINE s == second * q
           t == third * r
<1>3. s \in Nat /\ t \in Nat
  <2>1. q \in Nat /\ r \in Nat
    BY <1>1, ScoreIsNumber
  <2> QED BY <2>1, Product
<1> HIDE DEF s, t
<1> DEFINE k == p + s \div 100 + t \div 100
<1>4. k \in Nat /\ k <= k
  <2>1. p \in Nat
    BY <1>1, ScoreIsNumber
  <2>2. s \div 100 \in Nat
    BY <1>3
  <2>3. t \div 100 \in Nat
    BY <1>3
  <2> QED BY <2>1, <2>2, <2>3
<1> HIDE DEF k
<1>5. Least(Full, k) \in 0..Full
  BY <1>4, LeastGrows
<1> QED BY <1>2, <1>5 DEF k, s, t

-----------------------------------------------------------------------------
\* The mean of scores is one.
LEMMA MeanOfScores ==
    ASSUME NEW xs, IsFiniteSet(xs), NEW of, Scores(xs, of)
    PROVE  Mean(xs, of) \in 0..Full
<1>1. CASE xs = {}
  BY <1>1 DEF Mean, Full
<1>2. CASE xs # {}
  <2>1. 0 \in Int /\ Full \in Int
    BY DEF Full
  <2>2. \A x \in xs : of[x] \in 0..Full
    BY DEF Scores
  <2> QED BY <1>2, <2>1, <2>2, MeanBetween
<1> QED BY <1>1, <1>2

\* And it is no lower where none of them is.
LEMMA MeanOfScoresGrows ==
    ASSUME NEW xs, IsFiniteSet(xs), NEW of, Scores(xs, of), NEW to, Scores(xs, to),
           NoLower(xs, of, to)
    PROVE  Mean(xs, of) <= Mean(xs, to)
<1>1. \A x \in xs : of[x] \in Int /\ to[x] \in Int /\ of[x] <= to[x]
  BY ScoreIsNumber DEF Scores, NoLower
<1> QED BY <1>1, MeanGrows

-----------------------------------------------------------------------------
(* The parts of the total. *)

\* A share of two sums of scores.
LEMMA ShareGrows ==
    ASSUME NEW n \in Nat \ {0}, NEW s \in Int, NEW t \in Int, 0 <= s, s <= t, t <= Full * n
    PROVE  s \div n \in 0..Full /\ t \div n \in 0..Full /\ s \div n <= t \div n
<1>1. 0 \in Int /\ Full \in Int /\ 0 * n = 0 /\ Full * n \in Int
  BY DEF Full
<1>2. 0 * n <= s /\ s <= Full * n /\ 0 * n <= t
  BY <1>1
<1> QED BY <1>1, <1>2, QuotientBetween, QuotientGrows

AsGood(a, b, c, d, e, f) ==
    /\ a \in 0..Full /\ b \in 0..Full /\ c \in 0..Full
    /\ d \in 0..Full /\ e \in 0..Full /\ f \in 0..Full
    /\ a <= d /\ b <= e /\ c <= f
Weighs(u, v, w, n) ==
    u \in Nat /\ v \in Nat /\ w \in Nat /\ n \in Nat \ {0} /\ u + v + w = n
Shared(u, a, v, b, w, c, n) == (u * a + v * b + w * c) \div n

\* What three scores contribute by their weights.
LEMMA SharedGrows ==
    ASSUME NEW a, NEW b, NEW c, NEW d, NEW e, NEW f, AsGood(a, b, c, d, e, f),
           NEW u, NEW v, NEW w, NEW n, Weighs(u, v, w, n)
    PROVE  /\ Shared(u, a, v, b, w, c, n) \in 0..Full
           /\ Shared(u, d, v, e, w, f, n) \in 0..Full
           /\ Shared(u, a, v, b, w, c, n) <= Shared(u, d, v, e, w, f, n)
<1> DEFINE s == u * a + v * b + w * c
           t == u * d + v * e + w * f
<1>0. u \in Nat /\ v \in Nat /\ w \in Nat /\ n \in Nat \ {0} /\ u + v + w = n
  BY DEF Weighs
<1>1. Full \in Nat
  BY FullIsNumber
<1>2. ASSUME NEW k \in Nat, NEW x \in 0..Full, NEW y \in 0..Full, x <= y
      PROVE  k * x \in Nat /\ k * y \in Nat /\ k * Full \in Nat /\ k * x <= k * y /\ k * y <= k * Full
  <2>1. x \in Nat /\ y \in Nat /\ y <= Full
    BY ScoreIsNumber
  <2>2. k * x \in Nat /\ k * y \in Nat /\ k * Full \in Nat
    BY <1>1, <2>1
  <2>3. k * x <= k * y
    BY <1>2, <2>1
  <2>4. k * y <= k * Full
    BY <1>1, <2>1
  <2> QED BY <2>2, <2>3, <2>4
<1>3. u * a \in Nat /\ u * d \in Nat /\ u * Full \in Nat /\ u * a <= u * d /\ u * d <= u * Full
  BY <1>0, <1>2 DEF AsGood
<1>4. v * b \in Nat /\ v * e \in Nat /\ v * Full \in Nat /\ v * b <= v * e /\ v * e <= v * Full
  BY <1>0, <1>2 DEF AsGood
<1>5. w * c \in Nat /\ w * f \in Nat /\ w * Full \in Nat /\ w * c <= w * f /\ w * f <= w * Full
  BY <1>0, <1>2 DEF AsGood
<1>6. u * Full + v * Full + w * Full = Full * n
  BY <1>0, <1>1
<1>7. s \in Nat /\ t \in Nat /\ s <= t /\ t <= Full * n
  BY <1>3, <1>4, <1>5, <1>6
<1> HIDE DEF s, t
<1>8. s \in Int /\ t \in Int /\ 0 <= s
  BY <1>7
<1>9. s \div n \in 0..Full /\ t \div n \in 0..Full /\ s \div n <= t \div n
  BY <1>0, <1>7, <1>8, ShareGrows
<1> QED BY <1>9 DEF s, t, Shared

\* The weighted mean of the frameworks.
Weighted(a, b, c) == (20 * a + 50 * b + 30 * c) \div 100

\* And those of the frameworks.
LEMMA WeightedGrows ==
    ASSUME NEW a, NEW b, NEW c, NEW d, NEW e, NEW f, AsGood(a, b, c, d, e, f)
    PROVE  /\ Weighted(a, b, c) \in 0..Full /\ Weighted(d, e, f) \in 0..Full
           /\ Weighted(a, b, c) <= Weighted(d, e, f)
<1>1. Weighs(20, 50, 30, 100)
  BY DEF Weighs
<1>2. /\ Shared(20, a, 50, b, 30, c, 100) \in 0..Full
      /\ Shared(20, d, 50, e, 30, f, 100) \in 0..Full
      /\ Shared(20, a, 50, b, 30, c, 100) <= Shared(20, d, 50, e, 30, f, 100)
  BY <1>1, SharedGrows
<1> QED BY <1>2 DEF Shared, Weighted

ShareOf(of, f) == IF f \in DOMAIN of THEN of[f] ELSE 0

\* What the experience score is made of.
LEMMA ExperienceIs ==
    ASSUME NEW of, Scores(DOMAIN of, of)
    PROVE  /\ ShareOf(of, "problem_context") \in 0..Full
           /\ ShareOf(of, "solution_execution") \in 0..Full
           /\ ShareOf(of, "outcome_value") \in 0..Full
           /\ ExperienceScore(of) =
                Least(Full, (45 * Top(DOMAIN of, of)
                             + 55 * Weighted(ShareOf(of, "problem_context"),
                                             ShareOf(of, "solution_execution"),
                                             ShareOf(of, "outcome_value"))) \div 100)
<1>1. ASSUME NEW f PROVE ShareOf(of, f) \in 0..Full
  BY FullIsNumber DEF ShareOf, Scores
<1>2. ASSUME NEW f, f \in DOMAIN FrameworkWeight
      PROVE  (IF f \in DOMAIN of THEN FrameworkWeight[f] * of[f] ELSE 0)
               = FrameworkWeight[f] * ShareOf(of, f)
  <2>1. FrameworkWeight[f] \in Nat
    BY <1>2 DEF FrameworkWeight
  <2> QED BY <2>1 DEF ShareOf
<1>3. /\ FrameworkWeight["problem_context"] = 20
      /\ FrameworkWeight["solution_execution"] = 50
      /\ FrameworkWeight["outcome_value"] = 30
  BY DEF FrameworkWeight
<1>4. DOMAIN FrameworkWeight = {"problem_context", "solution_execution", "outcome_value"}
  BY DEF FrameworkWeight
<1> DEFINE share(f) == IF f \in DOMAIN of THEN FrameworkWeight[f] * of[f] ELSE 0
<1>5. /\ share("problem_context") = 20 * ShareOf(of, "problem_context")
      /\ share("solution_execution") = 50 * ShareOf(of, "solution_execution")
      /\ share("outcome_value") = 30 * ShareOf(of, "outcome_value")
  BY <1>2, <1>3, <1>4
<1>6. ExperienceScore(of) =
        Least(Full, (45 * Top(DOMAIN of, of)
                     + 55 * ((share("problem_context") + share("solution_execution")
                              + share("outcome_value")) \div 100)) \div 100)
  BY DEF ExperienceScore
<1> HIDE DEF share
<1>7. ExperienceScore(of) =
        Least(Full, (45 * Top(DOMAIN of, of)
                     + 55 * Weighted(ShareOf(of, "problem_context"),
                                     ShareOf(of, "solution_execution"),
                                     ShareOf(of, "outcome_value"))) \div 100)
  BY <1>5, <1>6 DEF Weighted
<1> QED BY <1>1, <1>7

\* The experience score is no lower where no framework is (aggregate_resume_score).
LEMMA ExperienceGrows ==
    ASSUME NEW of, Scores(DOMAIN of, of), NEW to, Scores(DOMAIN to, to),
           DOMAIN to = DOMAIN of, NoLower(DOMAIN of, of, to)
    PROVE  /\ ExperienceScore(of) \in 0..Full /\ ExperienceScore(to) \in 0..Full
           /\ ExperienceScore(of) <= ExperienceScore(to)
<1> DEFINE x == Weighted(ShareOf(of, "problem_context"), ShareOf(of, "solution_execution"),
                         ShareOf(of, "outcome_value"))
           y == Weighted(ShareOf(to, "problem_context"), ShareOf(to, "solution_execution"),
                         ShareOf(to, "outcome_value"))
           p == Top(DOMAIN of, of)
           q == Top(DOMAIN to, to)
<1>1. ASSUME NEW f PROVE ShareOf(of, f) <= ShareOf(to, f)
  BY DEF ShareOf, NoLower
<1>2. x \in 0..Full /\ y \in 0..Full /\ x <= y
  <2>1. AsGood(ShareOf(of, "problem_context"), ShareOf(of, "solution_execution"),
               ShareOf(of, "outcome_value"),
               ShareOf(to, "problem_context"), ShareOf(to, "solution_execution"),
               ShareOf(to, "outcome_value"))
    BY <1>1, ExperienceIs DEF AsGood
  <2> QED BY <2>1, WeightedGrows
<1>3. Topped(DOMAIN of, of, DOMAIN to, to)
  BY DEF NoLower, Topped
<1>4. p \in 0..Full /\ q \in 0..Full /\ p <= q
  BY <1>3, TopIs, TopGrows
<1>5. /\ ExperienceScore(of) = Least(Full, (45 * p + 55 * x) \div 100)
      /\ ExperienceScore(to) = Least(Full, (45 * q + 55 * y) \div 100)
  BY ExperienceIs
<1> HIDE DEF x, y, p, q
<1>6. Weighs(45, 55, 0, 100)
  BY DEF Weighs
<1>7. /\ Shared(45, p, 55, x, 0, x, 100) \in 0..Full
      /\ Shared(45, q, 55, y, 0, y, 100) \in 0..Full
      /\ Shared(45, p, 55, x, 0, x, 100) <= Shared(45, q, 55, y, 0, y, 100)
  <2>1. AsGood(p, x, x, q, y, y)
    BY <1>2, <1>4 DEF AsGood
  <2> QED BY <1>6, <2>1, SharedGrows
<1>8. x \in Nat /\ y \in Nat /\ p \in Nat /\ q \in Nat
  BY <1>2, <1>4, ScoreIsNumber
<1>9. /\ Shared(45, p, 55, x, 0, x, 100) = (45 * p + 55 * x) \div 100
      /\ Shared(45, q, 55, y, 0, y, 100) = (45 * q + 55 * y) \div 100
  BY <1>8 DEF Shared
<1> DEFINE h == (45 * p + 55 * x) \div 100
           k == (45 * q + 55 * y) \div 100
<1>10. h \in Nat /\ k \in Nat /\ h <= k
  BY <1>7, <1>9, ScoreIsNumber
<1> HIDE DEF h, k
<1>11. /\ Least(Full, h) \in 0..Full /\ Least(Full, k) \in 0..Full
       /\ Least(Full, h) <= Least(Full, k)
  BY <1>10, LeastGrows
<1> QED BY <1>5, <1>11 DEF h, k

\* The three best units, weighted.
Fits(b, c, w) == w \in {50, 80, 100} /\ (w # 100 => c = 0) /\ (w = 50 => b = 0)
TopShare(a, b, c, w) == (50 * a + 30 * b + 20 * c) \div w

\* And those of the units of the job.
LEMMA TopShareGrows ==
    ASSUME NEW a, NEW b, NEW c, NEW d, NEW e, NEW f, AsGood(a, b, c, d, e, f),
           NEW w, Fits(b, c, w), Fits(e, f, w)
    PROVE  /\ TopShare(a, b, c, w) \in 0..Full
           /\ TopShare(d, e, f, w) \in 0..Full
           /\ TopShare(a, b, c, w) <= TopShare(d, e, f, w)
<1> DEFINE v == IF w = 50 THEN 0 ELSE 30
           x == IF w = 100 THEN 20 ELSE 0
<1>0. /\ a \in Nat /\ b \in Nat /\ c \in Nat
      /\ d \in Nat /\ e \in Nat /\ f \in Nat
  BY ScoreIsNumber DEF AsGood
<1>1. Weighs(50, v, x, w)
  BY DEF Fits, Weighs
<1>2. 30 * b = v * b /\ 20 * c = x * c
  BY <1>0 DEF Fits
<1>3. 30 * e = v * e /\ 20 * f = x * f
  BY <1>0 DEF Fits
<1> HIDE DEF v, x
<1>4. /\ Shared(50, a, v, b, x, c, w) \in 0..Full
      /\ Shared(50, d, v, e, x, f, w) \in 0..Full
      /\ Shared(50, a, v, b, x, c, w) <= Shared(50, d, v, e, x, f, w)
  BY <1>1, SharedGrows
<1>5. TopShare(a, b, c, w) = Shared(50, a, v, b, x, c, w)
  BY <1>2 DEF Shared, TopShare
<1>6. TopShare(d, e, f, w) = Shared(50, d, v, e, x, f, w)
  BY <1>3 DEF Shared, TopShare
<1> QED BY <1>4, <1>5, <1>6

\* What preferred units add is less than what a better base takes from it.
Addition(b, m) == b + ((m * (Full - b)) \div Full) \div 10

\* So that a better base and better preferred units come to no less.
LEMMA AdditionGrows ==
    ASSUME NEW b \in 0..Full, NEW c \in 0..Full, NEW m \in 0..Full, NEW n \in 0..Full,
           b <= c, m <= n
    PROVE  Addition(b, m) \in Nat /\ Addition(c, n) \in Nat /\ Addition(b, m) <= Addition(c, n)
<1> DEFINE P == m * (Full - b)
           Q == n * (Full - c)
<1>a. b \in Nat /\ c \in Nat /\ m \in Nat /\ n \in Nat
  BY ScoreIsNumber
<1>b. b <= Full /\ c <= Full /\ m <= Full /\ Full \in Nat \ {0}
  BY ScoreIsNumber, FullIsNumber
<1>0. b \in Nat /\ c \in Nat /\ m \in Nat /\ n \in Nat /\ Full - b \in Nat /\ Full - c \in Nat
      /\ Full \in Nat \ {0} /\ m <= Full /\ c - b \in Nat
  BY <1>a, <1>b
<1>1. P \in Nat /\ Q \in Nat
  BY <1>0
<1>2. P <= Q + Full * (c - b)
  <2>1. m * (Full - b) = m * (Full - c) + m * (c - b)
    BY <1>0
  <2>2. m * (c - b) <= Full * (c - b)
    BY <1>0
  <2>3. m * (Full - c) <= n * (Full - c)
    BY <1>0
  <2>4. m * (Full - c) \in Nat /\ m * (c - b) \in Nat
    BY <1>0
  <2> QED BY <1>0, <1>1, <2>1, <2>2, <2>3, <2>4
<1> HIDE DEF P, Q
<1>3. P \div Full \in Nat /\ Q \div Full \in Nat /\ P \div Full <= Q \div Full + (c - b)
  <2> DEFINE r == c - b
             R == Q + Full * r
  <2>1. P \in Int /\ R \in Int /\ P <= R /\ r \in Nat
    BY <1>0, <1>1, <1>2
  <2>2. R \div Full = Q \div Full + r
    <3> DEFINE q == Q \div Full
    <3>1. q \in Int /\ Full * q <= Q /\ Q < Full * q + Full
      BY <1>0, <1>1, Quotient
    <3> HIDE DEF q, r
    <3>2. Full * (q + r) = Full * q + Full * r
      BY <1>0, <2>1, <3>1
    <3>3. Full * (q + r) <= R /\ R < Full * (q + r) + Full
      BY <1>0, <1>1, <2>1, <3>1, <3>2
    <3> HIDE DEF R
    <3>4. q + r \in Int
      BY <2>1, <3>1
    <3>5. R \div Full = q + r
      BY <1>0, <2>1, <3>3, <3>4, QuotientIs
    <3> QED BY <3>5 DEF q
  <2>3. P \div Full \in Nat /\ Q \div Full \in Nat
    BY <1>0, <1>1
  <2> HIDE DEF R
  <2>4. P \div Full <= R \div Full
    BY <1>0, <2>1, QuotientGrows
  <2> QED BY <2>2, <2>3, <2>4
<1>4. Addition(b, m) = b + (P \div Full) \div 10 /\ Addition(c, n) = c + (Q \div Full) \div 10
  BY DEF Addition, P, Q
<1> DEFINE p == P \div Full
           q == Q \div Full
<1> HIDE DEF p, q
<1>5. p \in Nat /\ q \in Nat /\ p <= q + (c - b)
  BY <1>3 DEF p, q
<1>6. Addition(b, m) = b + p \div 10 /\ Addition(c, n) = c + q \div 10
  BY <1>4 DEF p, q
<1> QED BY <1>0, <1>5, <1>6

\* The parts of the job score.
Weight(required) ==
    CASE Cardinality(required) = 1 -> TopWeight[1]
      [] Cardinality(required) = 2 -> TopWeight[1] + TopWeight[2]
      [] OTHER -> TopWeight[1] + TopWeight[2] + TopWeight[3]
Base(required, of) ==
    ((TopWeight[1] * Top(required, of) + TopWeight[2] * Top(Others(required, of), of)
      + TopWeight[3] * Top(Others(Others(required, of), of), of)) \div Weight(required)
     + Mean(required, of)) \div 2

\* What the job score is made of.
LEMMA JobScoreIs ==
    ASSUME NEW required, required # {}, NEW preferred, NEW of
    PROVE  JobScore(required, preferred, of)
             = Least(Full, Addition(Base(required, of), Mean(preferred, of)))
BY DEF JobScore, Addition, Base, Weight

\* What the required units are worth is no lower where none of them is.
LEMMA BaseGrows ==
    ASSUME NEW xs, IsFiniteSet(xs), xs # {}, NEW of, Scores(xs, of), NEW to, Scores(xs, to),
           NoLower(xs, of, to)
    PROVE  Base(xs, of) \in 0..Full /\ Base(xs, to) \in 0..Full /\ Base(xs, of) <= Base(xs, to)
<1> DEFINE a == Top(xs, of)
           b == Top(Others(xs, of), of)
           c == Top(Others(Others(xs, of), of), of)
           d == Top(xs, to)
           e == Top(Others(xs, to), to)
           f == Top(Others(Others(xs, to), to), to)
           m == Mean(xs, of)
           n == Mean(xs, to)
           w == Weight(xs)
           p == (50 * a + 30 * b + 20 * c) \div w
           q == (50 * d + 30 * e + 20 * f) \div w
<1>1. /\ a \in 0..Full /\ b \in 0..Full /\ c \in 0..Full
      /\ d \in 0..Full /\ e \in 0..Full /\ f \in 0..Full
  BY TopsType
<1>2. a <= d /\ b <= e /\ c <= f
  <2>1. Topped(xs, of, xs, to)
    BY DEF NoLower, Topped
  <2> QED BY <2>1, TopGrows, SecondGrows, ThirdGrows
<1>3. m \in 0..Full /\ n \in 0..Full /\ m <= n
  BY MeanOfScores, MeanOfScoresGrows
<1>4. Base(xs, of) = (p + m) \div 2 /\ Base(xs, to) = (q + n) \div 2
  BY DEF Base, TopWeight
<1>5. Cardinality(xs) \in Nat /\ Cardinality(xs) # 0
  BY FS_CardinalityType, FS_EmptySet
<1>6. ASSUME NEW g, Scores(xs, g)
      PROVE  /\ Cardinality(xs) = 1 => Top(Others(xs, g), g) = 0
                                       /\ Top(Others(Others(xs, g), g), g) = 0
             /\ Cardinality(xs) = 2 => Top(Others(Others(xs, g), g), g) = 0
  <2> DEFINE ys == Others(xs, g)
  <2>1. Best(xs, g) \in xs /\ ys = xs \ {Best(xs, g)}
    BY <1>6, BestIs
  <2>2. IsFiniteSet(ys) /\ Cardinality(ys) = Cardinality(xs) - 1
    BY <2>1, FS_RemoveElement
  <2>3. Scores(ys, g)
    BY <1>6, <2>1, ScoresOfSome
  <2> HIDE DEF ys
  <2>4. CASE ys = {}
    <3>1. Others(ys, g) = {}
      BY <2>4, OthersAre
    <3>2. Cardinality(ys) = 0
      BY <2>4, FS_EmptySet
    <3> QED BY <1>5, <2>2, <2>4, <3>1, <3>2 DEF ys, Top
  <2>5. CASE ys # {}
    <3>1. Best(ys, g) \in ys /\ Others(ys, g) = ys \ {Best(ys, g)}
      BY <2>3, <2>5, BestIs
    <3>2. IsFiniteSet(Others(ys, g)) /\ Cardinality(Others(ys, g)) = Cardinality(ys) - 1
      BY <2>2, <3>1, FS_RemoveElement
    <3>3. Cardinality(Others(ys, g)) \in Nat
      BY <3>2, FS_CardinalityType
    <3>4. Cardinality(xs) # 1
      BY <1>5, <2>2, <3>2, <3>3
    <3>5. Cardinality(xs) = 2 => Others(ys, g) = {}
      BY <1>5, <2>2, <3>2, <3>3, FS_EmptySet
    <3> QED BY <3>4, <3>5 DEF ys, Top
  <2> QED BY <2>4, <2>5
<1>7. p \in 0..Full /\ q \in 0..Full /\ p <= q
  <2>1. w \in {50, 80, 100} /\ (w < 100 => Cardinality(xs) \in {1, 2}) /\ (w < 80 => Cardinality(xs) = 1)
    BY DEF Weight, TopWeight
  <2>2. w < 100 => c = 0 /\ f = 0
    BY <1>6, <2>1
  <2>3. w < 80 => b = 0 /\ e = 0
    BY <1>6, <2>1
  <2>6. Fits(b, c, w) /\ Fits(e, f, w)
    BY <2>1, <2>2, <2>3 DEF Fits
  <2> HIDE DEF a, b, c, d, e, f, w
  <2>5. AsGood(a, b, c, d, e, f)
    BY <1>1, <1>2 DEF AsGood
  <2>4. TopShare(a, b, c, w) \in 0..Full /\ TopShare(d, e, f, w) \in 0..Full
        /\ TopShare(a, b, c, w) <= TopShare(d, e, f, w)
    BY <2>5, <2>6, TopShareGrows
  <2> QED BY <2>4 DEF TopShare
<1> HIDE DEF p, q, m, n
<1>8. Weighs(1, 1, 0, 2)
  BY DEF Weighs
<1>9. /\ Shared(1, p, 1, m, 0, m, 2) \in 0..Full /\ Shared(1, q, 1, n, 0, n, 2) \in 0..Full
      /\ Shared(1, p, 1, m, 0, m, 2) <= Shared(1, q, 1, n, 0, n, 2)
  <2>1. AsGood(p, m, m, q, n, n)
    BY <1>3, <1>7 DEF AsGood
  <2> QED BY <1>8, <2>1, SharedGrows
<1>10. p \in Nat /\ m \in Nat /\ q \in Nat /\ n \in Nat
  BY <1>3, <1>7, ScoreIsNumber
<1>11. Shared(1, p, 1, m, 0, m, 2) = (p + m) \div 2 /\ Shared(1, q, 1, n, 0, n, 2) = (q + n) \div 2
  BY <1>10 DEF Shared
<1> QED BY <1>4, <1>9, <1>11

\* The job score is no lower where no unit is (_aggregate_job).
LEMMA JobScoreGrows ==
    ASSUME NEW required, IsFiniteSet(required), NEW preferred, IsFiniteSet(preferred),
           NEW of, Scores(required, of), Scores(preferred, of),
           NEW to, Scores(required, to), Scores(preferred, to),
           NoLower(required, of, to), NoLower(preferred, of, to)
    PROVE  /\ JobScore(required, preferred, of) \in 0..Full
           /\ JobScore(required, preferred, to) \in 0..Full
           /\ JobScore(required, preferred, of) <= JobScore(required, preferred, to)
<1>1. CASE required = {}
  <2>1. JobScore(required, preferred, of) = 0 /\ JobScore(required, preferred, to) = 0
    BY <1>1 DEF JobScore
  <2> QED BY <2>1 DEF Full
<1>2. CASE required # {}
  <2> DEFINE b == Base(required, of)
             c == Base(required, to)
             m == Mean(preferred, of)
             n == Mean(preferred, to)
  <2>1. b \in 0..Full /\ c \in 0..Full /\ b <= c
    BY <1>2, BaseGrows
  <2>2. m \in 0..Full /\ n \in 0..Full /\ m <= n
    BY MeanOfScores, MeanOfScoresGrows
  <2>3. /\ JobScore(required, preferred, of) = Least(Full, Addition(b, m))
        /\ JobScore(required, preferred, to) = Least(Full, Addition(c, n))
    BY <1>2, JobScoreIs
  <2> HIDE DEF b, c, m, n
  <2>4. Addition(b, m) \in Nat /\ Addition(c, n) \in Nat /\ Addition(b, m) <= Addition(c, n)
    BY <2>1, <2>2, AdditionGrows
  <2> QED BY <2>3, <2>4, LeastGrows
<1> QED BY <1>1, <1>2

\* Nor is the total (score_candidate_profile).
LEMMA TotalGrows ==
    ASSUME NEW j \in 0..Full, NEW k \in 0..Full, NEW x \in 0..Full, NEW y \in 0..Full,
           j <= k, x <= y
    PROVE  /\ Total(j, x, EducationScore) \in 0..Full /\ Total(k, y, EducationScore) \in 0..Full
           /\ Total(j, x, EducationScore) <= Total(k, y, EducationScore)
<1> DEFINE z == EducationScore
<1>1. Weighs(50, 35, 15, 100)
  BY DEF Weighs
<1>2. z \in 0..Full /\ z <= z
  BY EducationConstant, ScoreIsNumber
<1> HIDE DEF z
<1>3. /\ Shared(50, j, 35, x, 15, z, 100) \in 0..Full
      /\ Shared(50, k, 35, y, 15, z, 100) \in 0..Full
      /\ Shared(50, j, 35, x, 15, z, 100) <= Shared(50, k, 35, y, 15, z, 100)
  <2>1. AsGood(j, x, z, k, y, z)
    BY <1>2 DEF AsGood
  <2> QED BY <1>1, <2>1, SharedGrows
<1> QED BY <1>3 DEF Shared, Total, z

\* Nor is the recommendation (compute_recommendation_level).
LEMMA LevelGrows ==
    ASSUME NEW s \in 0..Full, NEW t \in 0..Full, NEW j \in 0..Full, NEW k \in 0..Full,
           NEW x \in 0..Full, NEW y \in 0..Full, s <= t, j <= k, x <= y
    PROVE  Level(s, j, x) <= Level(t, k, y)
<1>1. /\ s \in Nat /\ t \in Nat /\ j \in Nat /\ k \in Nat /\ x \in Nat /\ y \in Nat
  BY ScoreIsNumber
<1> QED BY <1>1 DEF Level

-----------------------------------------------------------------------------
Assessment == [status : {"pending", "assessed", "skipped", "unassessed"}, degraded : BOOLEAN,
               units : SUBSET WorkUnits, heard : SUBSET WorkUnits,
               unit : [Indicators -> 0..5], score : [Indicators -> 0..Full]]

\* A project has its units, or none, and it has them only when it was assessed.
Assessed ==
    \A p \in Projects : project[p].units # {} =>
        project[p].units = UnitsOf(p) /\ project[p].status = "assessed"

FirstTyped ==
    /\ capabilities \in [JobUnits -> Seq(Capability)]
    /\ project \in [Projects -> Assessment]
    /\ Assessed
    /\ kept \subseteq Projects
    /\ DOMAIN levels \subseteq Types

-----------------------------------------------------------------------------
(* The scores of levels, indicators and frameworks. *)

\* A level has a score.
LEMMA LevelScoreType == \A l \in 0..5 : LevelScore[l] \in 0..Full
<1>1. \A l \in 0..5 : LevelScore[l] = <<0, 3500, 6000, 7700, 8700, 10000>>[l + 1]
  BY DEF LevelScore
<1>2. ASSUME NEW l \in 0..5
      PROVE  <<0, 3500, 6000, 7700, 8700, 10000>>[l + 1] \in {0, 3500, 6000, 7700, 8700, 10000}
  <2>1. l = 0 \/ l = 1 \/ l = 2 \/ l = 3 \/ l = 4 \/ l = 5
    OBVIOUS
  <2> QED BY <2>1
<1>3. {0, 3500, 6000, 7700, 8700, 10000} \subseteq 0..Full
  BY DEF Full
<1> QED BY <1>1, <1>2, <1>3

\* So has an indicator (aggregate_project_indicators).
LEMMA IndicatorScoreType ==
    ASSUME NEW heard, NEW unit \in 0..5, NEW whole \in 0..5
    PROVE  IndicatorScore(heard, unit, whole) \in 0..Full
<1> DEFINE local == [w \in heard |-> LevelScore[unit]]
           s == Supported(heard, local, 3, 2)
           l == LevelScore[whole]
<1>1. Scores(heard, local)
  BY LevelScoreType DEF Scores
<1>2. s \in 0..Full
  <2>1. 3 \in Nat /\ 2 \in Nat
    OBVIOUS
  <2> HIDE DEF local
  <2> QED BY <1>1, <2>1, SupportedType
<1>3. l \in 0..Full
  BY LevelScoreType
<1>4. IndicatorScore(heard, unit, whole) = Least(Full, (40 * s + 60 * l) \div 100)
  BY DEF IndicatorScore
<1> HIDE DEF s, l
<1>5. s \in Nat /\ l \in Nat
  BY <1>2, <1>3, ScoreIsNumber
<1> DEFINE k == (40 * s + 60 * l) \div 100
<1>6. k \in Nat /\ k <= k
  BY <1>5
<1> HIDE DEF k
<1>7. Least(Full, k) \in 0..Full
  BY <1>6, LeastGrows
<1> QED BY <1>4, <1>7 DEF k

\* And a framework of a project (aggregate_project_frameworks).
LEMMA FrameworkScoreType ==
    ASSUME FirstTyped, NEW p \in Projects, NEW f
    PROVE  FrameworkScore(p, f) \in 0..Full
<1> DEFINE is == {i \in Indicators : FrameworkOf[i] = f}
           scores == project[p].score
           best == Top(is, scores)
           others == Cardinality(is) - 1
           active == Cardinality({i \in is : scores[i] > 0})
           mean == Mean(Others(is, scores), scores)
<1>1. IsFiniteSet(is) /\ is \subseteq Indicators
  BY FirstScoringConstants, FS_Subset
<1>2. Scores(is, scores)
  BY <1>1 DEF Scores, FirstTyped, Assessment
<1>3. best \in 0..Full
  BY <1>2, TopIs
<1>4. mean \in 0..Full
  <2>1. Others(is, scores) \subseteq is
    BY OthersAre
  <2>2. IsFiniteSet(Others(is, scores)) /\ Scores(Others(is, scores), scores)
    BY <1>1, <1>2, <2>1, FS_Subset, ScoresOfSome
  <2> QED BY <2>2, MeanOfScores
<1>5. active \in Nat /\ active <= Cardinality(is) /\ Cardinality(is) \in Nat
  <2>1. {i \in is : scores[i] > 0} \subseteq is
    OBVIOUS
  <2> QED BY <1>1, <2>1, FS_Subset, FS_CardinalityType
<1>6. FrameworkScore(p, f) =
        IF active = 0 THEN 0
        ELSE IF others = 0 THEN best
        ELSE Least(Full, (80 * best + (8 * best * (active - 1)) \div others + 12 * mean) \div 100)
  BY DEF FrameworkScore
<1>7. active # 0 => others \in Nat
  BY <1>5
<1> HIDE DEF best, others, active, mean
<1>8. CASE active = 0
  BY <1>6, <1>8, FullIsNumber
<1>9. CASE active # 0 /\ others = 0
  BY <1>3, <1>6, <1>9
<1>10. CASE active # 0 /\ others # 0
  <2>1. best \in Nat /\ mean \in Nat /\ active - 1 \in Nat /\ others \in Nat \ {0}
    BY <1>3, <1>4, <1>5, <1>7, <1>10, ScoreIsNumber
  <2> DEFINE r == 8 * best * (active - 1)
  <2>2. r \in Nat
    <3>1. 8 * best \in Nat
      BY <2>1
    <3> QED BY <2>1, <3>1
  <2> HIDE DEF r
  <2>3. r \div others \in Nat
    BY <2>1, <2>2
  <2> DEFINE k == (80 * best + r \div others + 12 * mean) \div 100
  <2>4. k \in Nat /\ k <= k
    BY <2>1, <2>3
  <2> HIDE DEF k
  <2>5. Least(Full, k) \in 0..Full
    BY <2>4, LeastGrows
  <2> QED BY <1>6, <1>10, <2>5 DEF k, r
<1> QED BY <1>8, <1>9, <1>10

\* And a project (_project_score_points).
LEMMA PointsType ==
    ASSUME FirstTyped, NEW p \in Projects PROVE Points(p) \in 0..Full
<1> DEFINE fs == DOMAIN FrameworkWeight
           scores == [f \in fs |-> FrameworkScore(p, f)]
<1>1. IsFiniteSet(fs)
  <2>1. fs = {"problem_context"} \cup {"solution_execution"} \cup {"outcome_value"}
    BY DEF FrameworkWeight
  <2>2. IsFiniteSet({"problem_context"}) /\ IsFiniteSet({"solution_execution"})
        /\ IsFiniteSet({"outcome_value"})
    BY FS_Singleton
  <2>3. IsFiniteSet({"problem_context"} \cup {"solution_execution"})
    BY <2>2, FS_Union
  <2>4. IsFiniteSet({"problem_context"} \cup {"solution_execution"} \cup {"outcome_value"})
    BY <2>2, <2>3, FS_Union
  <2> QED BY <2>1, <2>4
<1>2. Scores(fs, scores)
  BY FrameworkScoreType DEF Scores
<1>3. Points(p) = Mean(fs, scores)
  BY DEF Points
<1> HIDE DEF fs, scores
<1> QED BY <1>1, <1>2, <1>3, MeanOfScores

-----------------------------------------------------------------------------
(* The filter. *)

\* What is filtered out is separated from the rest by the widest gap
\* (_filter_low_score_projects).
LEMMA KeptIsSeparated ==
    ASSUME FirstTyped, NEW p \in Projects \ Kept
    PROVE  /\ Complete(p)
           /\ \A q \in Kept : Complete(q) => Points(q) - Points(p) >= MinGap
           /\ Cardinality({q \in Kept : Complete(q)}) >= MinStable
<1> DEFINE complete == {q \in Projects : Complete(q)}
           points == [q \in complete |-> Points(q)]
           below(q) == {r \in complete : points[r] < points[q]}
           gap == [q \in complete |-> points[q] - Top(below(q), points)]
           splits == {q \in complete : /\ Cardinality(complete \ below(q)) >= MinStable
                                       /\ below(q) # {} /\ gap[q] >= MinGap}
           split == CHOOSE q \in splits : \A r \in splits :
                      gap[q] > gap[r] \/ (gap[q] = gap[r] /\ points[q] <= points[r])
<1>1. Kept = IF Cardinality(complete) < 3 \/ splits = {} THEN Projects
             ELSE Projects \ below(split)
  BY DEF Kept
<1>2. splits # {} /\ Kept = Projects \ below(split)
  <2> HIDE DEF complete, splits, below, split
  <2> QED BY <1>1
<1>3. ASSUME NEW q \in complete
      PROVE  /\ points[q] = Points(q) /\ points[q] \in Nat /\ points[q] \in 0..Full
             /\ Scores(below(q), points)
  BY PointsType, ScoreIsNumber DEF Scores
<1>4. ASSUME NEW q \in complete PROVE gap[q] \in 0..Full
  <2> DEFINE t == Top(below(q), points)
  <2>1. t \in 0..Full
    <3> HIDE DEF complete, points, below
    <3> QED BY <1>3, <1>4, TopIs
  <2>2. t <= points[q]
    <3> DEFINE x == points[q]
    <3>0. x \in Nat
      <4> HIDE DEF complete, points, below
      <4> QED BY <1>3, <1>4
    <3>1. CASE below(q) = {}
      <4>1. t = 0
        BY <3>1 DEF Top
      <4> HIDE DEF t, x
      <4>2. t <= x
        BY <3>0, <4>1
      <4> QED BY <4>2 DEF t, x
    <3>2. CASE below(q) # {}
      <4>1. PICK r \in below(q) : points[r] = t
        <5> HIDE DEF complete, points, below
        <5> QED BY <1>3, <1>4, <3>2, TopIs
      <4> DEFINE y == points[r]
      <4>2. r \in complete /\ y < x
        OBVIOUS
      <4>3. y \in Nat
        <5> HIDE DEF complete, points, below
        <5> QED BY <1>3, <4>2
      <4>4. y = t
        BY <4>1
      <4> HIDE DEF t, x, y
      <4>5. t <= x
        BY <3>0, <4>2, <4>3, <4>4
      <4> QED BY <4>5 DEF t, x
    <3> QED BY <3>1, <3>2
  <2>3. gap[q] = points[q] - t
    BY <1>4
  <2>4. points[q] \in 0..Full /\ points[q] \in Nat /\ t \in Nat
    BY <1>3, <1>4, <2>1, ScoreIsNumber
  <2> HIDE DEF t, gap, points
  <2> QED BY <2>2, <2>3, <2>4, FullIsNumber
<1>5. split \in splits
  <2> DEFINE f == [q \in splits |-> gap[q]]
             g == [q \in splits |-> points[q]]
  <2>1. splits \subseteq complete
    OBVIOUS
  <2>2. f \in [splits -> 0..Full]
    <3> HIDE DEF gap, complete, points
    <3> QED BY <1>4, <2>1
  <2>3. g \in [splits -> Nat]
    <3> HIDE DEF gap, complete, points
    <3> QED BY <1>3, <2>1
  <2>4. \E q \in splits : \A r \in splits :
          f[q] > f[r] \/ (f[q] = f[r] /\ g[q] <= g[r])
    <3>1. Full \in Nat
      BY FullIsNumber
    <3> HIDE DEF f, g, splits
    <3>2. splits # {}
      BY <1>2
    <3>3. HasFirst(splits, f, g)
      BY <2>2, <2>3, <3>1, <3>2, FirstInOrder
    <3> QED BY <3>3 DEF HasFirst
  <2> HIDE DEF gap, points, splits
  <2>5. \E q \in splits : \A r \in splits :
          gap[q] > gap[r] \/ (gap[q] = gap[r] /\ points[q] <= points[r])
    BY <2>4
  <2> QED BY <2>5
<1> HIDE DEF split
<1>6. p \in below(split) /\ split \in complete /\ gap[split] >= MinGap
      /\ Cardinality(complete \ below(split)) >= MinStable
  <2>1. p \in below(split)
    <3> HIDE DEF below
    <3> QED BY <1>2
  <2> HIDE DEF complete, points, gap, below
  <2> QED BY <1>5, <2>1
<1>7. Complete(p) /\ p \in complete
  BY <1>6
<1>8. points[p] <= Top(below(split), points)
  <2> HIDE DEF complete, points, below
  <2> QED BY <1>3, <1>6, TopIs
<1>9. ASSUME NEW q \in Kept, Complete(q) PROVE Points(q) - Points(p) >= MinGap
  <2>1. q \in complete /\ ~(points[q] < points[split])
    BY <1>2, <1>9
  <2>2. points[q] = Points(q) /\ points[p] = Points(p) /\ points[q] \in Nat /\ points[p] \in Nat
        /\ points[split] \in Nat
    <3> HIDE DEF complete, points
    <3> QED BY <1>3, <1>6, <1>7, <2>1
  <2>3. gap[split] = points[split] - Top(below(split), points)
    BY <1>6
  <2>4. Top(below(split), points) \in Nat
    <3>1. Top(below(split), points) \in 0..Full
      <4> HIDE DEF complete, points, below
      <4> QED BY <1>3, <1>6, TopIs
    <3> QED BY <3>1, ScoreIsNumber
  <2> DEFINE t == Top(below(split), points)
             x == points[q]
             y == points[p]
             z == points[split]
  <2>5. z - t >= MinGap /\ x \in Nat /\ y \in Nat /\ z \in Nat /\ t \in Nat /\ y <= t /\ ~(x < z)
    BY <1>6, <1>8, <2>1, <2>2, <2>3, <2>4
  <2> HIDE DEF t, x, y, z
  <2>6. x - y >= MinGap
    BY <2>5 DEF MinGap
  <2> QED BY <2>2, <2>6 DEF x, y
<1>10. {q \in Kept : Complete(q)} = complete \ below(split)
  <2> HIDE DEF below
  <2> QED BY <1>2
<1> QED BY <1>6, <1>7, <1>9, <1>10

-----------------------------------------------------------------------------
\* A project that was not assessed has an assessment that says so.
LEMMA NothingIsAnAssessment ==
    \A s \in {"pending", "skipped", "unassessed"}, d \in BOOLEAN :
        [NoAssessment EXCEPT !.status = s, !.degraded = d] \in Assessment
<1>1. 0 \in 0..5 /\ 0 \in 0..Full
  BY FullIsNumber
<1> QED BY <1>1 DEF NoAssessment, Assessment

\* An assessment replaces another one.
LEMMA AssessedTyped ==
    ASSUME FirstTyped, NEW p \in Projects, NEW a \in Assessment, Assess(p, a),
           a.units # {} => a.units = UnitsOf(p) /\ a.status = "assessed"
    PROVE  FirstTyped'
<1>1. project' = [project EXCEPT ![p] = a] /\ project \in [Projects -> Assessment]
  BY DEF Assess, FirstTyped
<1>2. project' \in [Projects -> Assessment]
  BY <1>1
<1>3. \A q \in Projects : project'[q] = IF q = p THEN a ELSE project[q]
  BY <1>1
<1>4. Assessed'
  BY <1>3 DEF Assessed, FirstTyped, UnitsOf
<1>5. UNCHANGED <<capabilities, kept, levels>>
  BY DEF Assess
<1> QED BY <1>2, <1>4, <1>5 DEF FirstTyped

\* What is extracted of a unit is a list of capabilities.
LEMMA ExtractedType ==
    ASSUME NEW u \in JobUnits, NEW list \in Seq(Capability), NEW invalid \in BOOLEAN
    PROVE  Extracted(u, list, invalid) \in Seq(Capability)
<1>1. Fallback(u) \in Seq(Capability)
  <2>1. [role |-> IF UnitRole[u] = "preferred" THEN "supporting" ELSE "core", focus |-> {}]
          \in Capability
    BY DEF Capability
  <2> QED BY <2>1 DEF Fallback
<1>2. <<>> \in Seq(Capability)
  OBVIOUS
<1>3. ASSUME list # <<>> PROVE [list EXCEPT ![1].role = "core"] \in Seq(Capability)
  <2>1. 1 \in DOMAIN list /\ list[1] \in Capability
    BY <1>3
  <2> DEFINE c == [list[1] EXCEPT !.role = "core"]
  <2>2. c \in Capability
    BY <2>1 DEF Capability
  <2>3. [list EXCEPT ![1].role = "core"] = [list EXCEPT ![1] = c]
    OBVIOUS
  <2> HIDE DEF c
  <2> QED BY <2>1, <2>2, <2>3
<1> QED BY <1>1, <1>2, <1>3 DEF Extracted

\* The types hold at first.
LEMMA FirstTypedInit == FirstInit => FirstTyped
<1> SUFFICES ASSUME FirstInit PROVE FirstTyped
  OBVIOUS
<1>1. NoAssessment \in Assessment
  <2>1. 0 \in 0..5 /\ 0 \in 0..Full
    BY FullIsNumber
  <2> QED BY <2>1 DEF NoAssessment, Assessment
<1>2. project \in [Projects -> Assessment] /\ \A p \in Projects : project[p] = NoAssessment
  BY <1>1 DEF FirstInit
<1>3. NoAssessment.units = {}
  BY DEF NoAssessment
<1>4. Assessed
  BY <1>2, <1>3 DEF Assessed
<1>5. capabilities \in [JobUnits -> Seq(Capability)]
  <2>1. <<>> \in Seq(Capability)
    OBVIOUS
  <2> QED BY <2>1 DEF FirstInit
<1> QED BY <1>2, <1>4, <1>5 DEF FirstTyped, FirstInit

\* And they go on holding.
LEMMA FirstTypedKept == FirstTyped /\ [FirstNext]_firstVars => FirstTyped'
<1> SUFFICES ASSUME FirstTyped, [FirstNext]_firstVars PROVE FirstTyped'
  OBVIOUS
<1>1. ASSUME UNCHANGED <<capabilities, project, kept, levels>> PROVE FirstTyped'
  BY <1>1 DEF FirstTyped, Assessed
<1>2. CASE UNCHANGED firstVars
  BY <1>1, <1>2 DEF firstVars
<1>3. CASE AssembleJob \/ PublishFirst \/ ScoringFails
  BY <1>1, <1>3 DEF AssembleJob, PublishFirst, ScoringFails
<1>4. CASE ExtractCapabilities
  <2>1. PICK answer \in Extractions, invalid \in BOOLEAN :
          capabilities' = [u \in JobUnits |-> Extracted(u, answer[u], invalid)]
    BY <1>4 DEF ExtractCapabilities
  <2>2. \A u \in JobUnits : answer[u] \in Seq(Capability)
    BY FirstScoringConstants
  <2>3. capabilities' \in [JobUnits -> Seq(Capability)]
    BY <2>1, <2>2, ExtractedType
  <2> QED BY <1>4, <2>3 DEF ExtractCapabilities, FirstTyped, Assessed
<1>5. CASE AssembleExperience
  <2>1. Kept \subseteq Projects
    BY DEF Kept
  <2> QED BY <1>5, <2>1 DEF AssembleExperience, FirstTyped, Assessed
<1>6. ASSUME NEW p \in Projects, AssessProject(p) PROVE FirstTyped'
  <2>1. PICK v \in Verdicts[p], heard \in SUBSET UnitsOf(p), answered \in BOOLEAN :
          LET unit == [i \in Indicators |-> IF heard # {} THEN v.unit[i] ELSE 0]
              whole == [i \in Indicators |-> IF answered THEN v.whole[i] ELSE 0]
          IN  Assess(p, [status |-> "assessed", degraded |-> heard # UnitsOf(p) \/ ~answered,
                         units |-> UnitsOf(p), heard |-> heard, unit |-> unit,
                         score |-> [i \in Indicators |->
                                      IndicatorScore(heard, unit[i], whole[i])]])
    BY <1>6 DEF AssessProject
  <2> DEFINE unit == [i \in Indicators |-> IF heard # {} THEN v.unit[i] ELSE 0]
             whole == [i \in Indicators |-> IF answered THEN v.whole[i] ELSE 0]
             scores == [i \in Indicators |-> IndicatorScore(heard, unit[i], whole[i])]
             a == [status |-> "assessed", degraded |-> heard # UnitsOf(p) \/ ~answered,
                   units |-> UnitsOf(p), heard |-> heard, unit |-> unit, score |-> scores]
  <2>2. Assess(p, a)
    BY <2>1
  <2>3. v \in [unit : [Indicators -> 0..5], whole : [Indicators -> 0..5]]
    BY FirstScoringConstants
  <2>4. unit \in [Indicators -> 0..5] /\ whole \in [Indicators -> 0..5]
    BY <2>3
  <2>5. scores \in [Indicators -> 0..Full]
    <3> HIDE DEF unit, whole
    <3> QED BY <2>4, IndicatorScoreType
  <2>6. UnitsOf(p) \subseteq WorkUnits /\ heard \subseteq WorkUnits
    BY DEF UnitsOf
  <2> HIDE DEF unit, whole, scores
  <2>7. a \in Assessment /\ a.units = UnitsOf(p) /\ a.status = "assessed"
    BY <2>4, <2>5, <2>6 DEF Assessment
  <2> HIDE DEF a
  <2> QED BY <2>2, <2>7, AssessedTyped
<1>7. ASSUME NEW p \in Projects, SkipProject(p) \/ ProjectExhausted(p) PROVE FirstTyped'
  <2>1. PICK s \in {"skipped", "unassessed"} :
          Assess(p, [NoAssessment EXCEPT !.status = s, !.degraded = TRUE])
    BY <1>7 DEF SkipProject, ProjectExhausted
  <2> DEFINE a == [NoAssessment EXCEPT !.status = s, !.degraded = TRUE]
  <2>2. a \in Assessment
    BY NothingIsAnAssessment
  <2>3. a.units = {}
    BY DEF NoAssessment
  <2>4. Assess(p, a)
    BY <2>1
  <2> HIDE DEF a
  <2> QED BY <2>2, <2>3, <2>4, AssessedTyped
<1>8. ASSUME NEW t \in Types, ScorePairs(t) PROVE FirstTyped'
  <2>1. PICK answer : levels' = [s \in DOMAIN levels \cup {t} |->
                        IF s \in DOMAIN levels THEN levels[s]
                        ELSE [e \in EvidenceOf(t) |->
                                IF Allowed(t, answer[e]) THEN answer[e] ELSE Unassessed]]
    BY <1>8 DEF ScorePairs
  <2>2. DOMAIN levels' = DOMAIN levels \cup {t}
    BY <2>1
  <2>3. UNCHANGED <<capabilities, project, kept>>
    BY <1>8 DEF ScorePairs
  <2> QED BY <2>2, <2>3 DEF FirstTyped, Assessed
<1>9. FirstNext => \/ ExtractCapabilities \/ AssembleExperience
                   \/ AssembleJob \/ PublishFirst \/ ScoringFails
                   \/ \E p \in Projects : AssessProject(p) \/ (SkipProject(p) \/ ProjectExhausted(p))
                   \/ \E t \in Types : ScorePairs(t)
  BY DEF FirstNext
<1> QED BY <1>2, <1>3, <1>4, <1>5, <1>6, <1>7, <1>8, <1>9

-----------------------------------------------------------------------------

\* Nothing that the tail was separated by changes after it was filtered out.
LEMMA TailSeparatedKept ==
    FirstTyped /\ TailIsSeparated /\ [FirstNext]_firstVars => TailIsSeparated'
<1> SUFFICES ASSUME FirstTyped, TailIsSeparated, [FirstNext]_firstVars PROVE TailIsSeparated'
  OBVIOUS
<1>1. ASSUME UNCHANGED <<project, kept>>, at \in {"pairs", "core", "published"}
      PROVE  TailIsSeparated'
  <2>1. \A p : Complete(p)' = Complete(p) /\ Points(p)' = Points(p)
    BY <1>1 DEF Complete, Points, FrameworkScore
  <2> QED BY <1>1, <2>1 DEF TailIsSeparated
<1>2. CASE AssembleExperience
  <2>1. UNCHANGED project /\ kept' = Kept
    BY <1>2 DEF AssembleExperience
  <2>2. \A p : Complete(p)' = Complete(p) /\ Points(p)' = Points(p)
    BY <2>1 DEF Complete, Points, FrameworkScore
  <2>3. ASSUME NEW p \in Projects \ Kept
        PROVE  /\ Complete(p)
               /\ \A q \in Kept : Complete(q) => Points(q) - Points(p) >= MinGap
               /\ Cardinality({q \in Kept : Complete(q)}) >= MinStable
    BY <2>3, KeptIsSeparated
  <2> QED BY <2>1, <2>2, <2>3 DEF TailIsSeparated
<1>3. CASE UNCHANGED firstVars
  <2>1. at \in {"pairs", "core", "published"} => TailIsSeparated'
    BY <1>1, <1>3 DEF firstVars
  <2>2. at' = at
    BY <1>3 DEF firstVars
  <2> QED BY <2>1, <2>2 DEF TailIsSeparated
<1>4. CASE AssembleJob \/ PublishFirst \/ \E t \in Types : ScorePairs(t)
  BY <1>1, <1>4 DEF AssembleJob, PublishFirst, ScorePairs
<1>5. CASE ExtractCapabilities \/ ScoringFails
           \/ \E p \in Projects : AssessProject(p) \/ SkipProject(p) \/ ProjectExhausted(p)
  <2>1. at' \in {"experience", "failed"}
    BY <1>5 DEF ExtractCapabilities, ScoringFails, AssessProject, SkipProject, ProjectExhausted, Assess
  <2> QED BY <2>1 DEF TailIsSeparated
<1> QED BY <1>2, <1>3, <1>4, <1>5 DEF FirstNext

\* The assessments of projects, the levels of evidence and what is kept have their
\* types in every assessment: a project has the units of its assessment exactly
\* when it was assessed (assess_resume_project, build_unassessed_resume_project).
THEOREM FirstTypeCorrect == FirstSpec => []FirstTyped
BY FirstTypedInit, FirstTypedKept, PTL DEF FirstSpec

\* Only a separated tail is ever filtered out of the resume.
THEOREM TailAlwaysSeparated == FirstSpec => []TailIsSeparated
<1> DEFINE I == FirstTyped /\ TailIsSeparated
<1>1. FirstInit => I
  BY FirstTypedInit DEF FirstInit, TailIsSeparated
<1>2. I /\ [FirstNext]_firstVars => I'
  BY FirstTypedKept, TailSeparatedKept
<1> QED BY <1>1, <1>2, PTL DEF FirstSpec

-----------------------------------------------------------------------------
(* Evidence and its scores. *)

\* Where evidence comes from: what of it is a unit, a project or a claim.
LEMMA EvidenceIs ==
    ASSUME FirstTyped, NEW t \in DOMAIN levels, NEW e \in EvidenceOf(t)
    PROVE  \/ t = "work_unit" /\ e \in WorkUnits /\ e \notin Projects /\ e \notin Claims
              /\ ProjectOf[e] \in kept /\ e \in project[ProjectOf[e]].units
           \/ t = "project_evidence" /\ e \in kept /\ e \in Projects /\ e \notin WorkUnits
              /\ e \notin Claims /\ project[e].units # {}
           \/ t = "skill_claim" /\ e \in Claims /\ e \notin WorkUnits /\ e \notin Projects
<1>1. t = "work_unit" \/ t = "project_evidence" \/ t = "skill_claim"
  BY DEF FirstTyped, Types
<1>2. CASE t = "work_unit"
  <2>1. PICK p \in kept : e \in project[p].units
    BY <1>2 DEF EvidenceOf
  <2>2. p \in Projects /\ project[p].units = UnitsOf(p)
    BY <2>1 DEF FirstTyped, Assessed
  <2>3. e \in WorkUnits /\ ProjectOf[e] = p
    BY <2>1, <2>2 DEF UnitsOf
  <2> QED BY <1>2, <2>1, <2>3, FirstScoringConstants
<1>3. CASE t = "project_evidence"
  <2>1. e \in kept /\ project[e].units # {}
    BY <1>3 DEF EvidenceOf
  <2>2. e \in Projects
    BY <2>1 DEF FirstTyped
  <2> QED BY <1>3, <2>1, <2>2, FirstScoringConstants
<1>4. CASE t = "skill_claim"
  <2>1. e \in Claims
    BY <1>4 DEF EvidenceOf
  <2> QED BY <1>4, <2>1, FirstScoringConstants
<1> QED BY <1>1, <1>2, <1>3, <1>4

\* Evidence is of one type, so its level is the one that was answered.
LEMMA RelevantIs ==
    ASSUME FirstTyped, NEW e \in Relevant
    PROVE  /\ e \in Evidence
           /\ LevelOf(e) \in 1..5
           /\ e \notin Claims => /\ OfProject(e) \in kept
                                 /\ project[OfProject(e)].status = "assessed"
           /\ e \in WorkUnits => ProjectOf[e] \in Projects /\ e \notin Projects
           /\ Footprint(e) = Work(e)
<1>1. PICK t \in DOMAIN levels : e \in EvidenceOf(t) /\ levels[t][e] \in 1..5
  BY DEF Relevant
<1>2. ASSUME NEW s \in DOMAIN levels, e \in EvidenceOf(s) PROVE s = t
  BY <1>1, <1>2, EvidenceIs
<1>3. LevelOf(e) \in 1..5
  <2> DEFINE s == CHOOSE s \in DOMAIN levels : e \in EvidenceOf(s)
  <2>1. s \in DOMAIN levels /\ e \in EvidenceOf(s)
    BY <1>1
  <2>2. s = t
    BY <1>2, <2>1
  <2>3. LevelOf(e) = levels[s][e]
    BY DEF LevelOf
  <2> HIDE DEF s
  <2> QED BY <1>1, <2>2, <2>3
<1>4. e \in Evidence
  BY <1>1, EvidenceIs DEF Evidence
<1>5. CASE e \in Claims
  <2>1. e \notin WorkUnits /\ e \notin Projects
    BY <1>1, <1>5, EvidenceIs
  <2> QED BY <1>3, <1>4, <1>5, <2>1 DEF Footprint, Work
<1>6. CASE e \in WorkUnits /\ e \notin Claims
  <2>1. e \notin Projects /\ ProjectOf[e] \in kept /\ project[ProjectOf[e]].units # {}
    BY <1>1, <1>6, EvidenceIs
  <2>2. ProjectOf[e] \in Projects /\ project[ProjectOf[e]].status = "assessed"
    BY <2>1 DEF FirstTyped, Assessed
  <2> QED BY <1>3, <1>4, <1>6, <2>1, <2>2 DEF Footprint, Work, OfProject
<1>7. CASE e \in Projects /\ e \notin WorkUnits /\ e \notin Claims
  <2>1. e \in kept /\ project[e].units # {}
    BY <1>1, <1>7, EvidenceIs
  <2>2. project[e].units = UnitsOf(e) /\ project[e].status = "assessed"
    BY <1>7, <2>1 DEF FirstTyped, Assessed
  <2> QED BY <1>3, <1>4, <1>7, <2>1, <2>2 DEF Footprint, Work, OfProject
<1>8. e \in Claims \/ (e \in WorkUnits /\ e \notin Claims)
      \/ (e \in Projects /\ e \notin WorkUnits /\ e \notin Claims)
  BY <1>4 DEF Evidence
<1> QED BY <1>5, <1>6, <1>7, <1>8

\* Every capability has a definition.
LEMMA DefinitionType ==
    ASSUME FirstTyped, NEW c \in AllCapabilities PROVE Definition(c) \in Capability
<1>1. PICK u \in JobUnits : c \in {<<u, n>> : n \in DOMAIN capabilities[u]}
  BY DEF AllCapabilities
<1>2. PICK n \in DOMAIN capabilities[u] : c = <<u, n>>
  BY <1>1
<1>3. capabilities[u] \in Seq(Capability)
  BY DEF FirstTyped
<1>4. capabilities[u][n] \in Capability
  BY <1>2, <1>3
<1>5. c[1] = u /\ c[2] = n
  BY <1>2
<1> QED BY <1>4, <1>5 DEF Definition

\* The quality of evidence is a score (_quality_score).
LEMMA QualityType ==
    ASSUME FirstTyped, NEW c \in AllCapabilities, NEW e \in Relevant, e \notin Claims
    PROVE  Quality(c, e) \in 0..Full
<1> DEFINE focus == Definition(c).focus
           scores == [i \in focus |->
                       IF e \in Projects THEN project[e].score[i]
                       ELSE IF e \in project[ProjectOf[e]].heard
                            THEN LevelScore[project[ProjectOf[e]].unit[i]] ELSE 0]
<1>1. focus \subseteq Indicators
  BY DefinitionType DEF Capability
<1>2. e \in Projects \/ ProjectOf[e] \in Projects
  BY RelevantIs DEF Evidence
<1>3. ASSUME NEW i \in focus PROVE scores[i] \in 0..Full
  <2>1. i \in Indicators
    BY <1>1, <1>3
  <2>2. \A p \in Projects : project[p].score[i] \in 0..Full /\ project[p].unit[i] \in 0..5
    BY <2>1 DEF FirstTyped, Assessment
  <2> QED BY <1>2, <2>2, LevelScoreType, FullIsNumber
<1>4. Scores(focus, scores)
  BY <1>3 DEF Scores
<1>5. Quality(c, e) = Supported(focus, scores, 5, 3)
  BY DEF Quality
<1>6. 5 \in Nat /\ 3 \in Nat
  OBVIOUS
<1> HIDE DEF focus, scores
<1> QED BY <1>4, <1>5, <1>6, SupportedType

\* So is what a pair is worth.
LEMMA PairScoreType ==
    ASSUME FirstTyped, NEW c \in AllCapabilities, NEW e \in Relevant
    PROVE  PairScore(c, e) \in 0..Full
<1> DEFINE l == LevelScore[LevelOf(e)]
           q == Quality(c, e)
<1>1. l \in 0..Full
  <2>1. LevelOf(e) \in 0..5
    BY RelevantIs
  <2> QED BY <2>1, LevelScoreType
<1>2. CASE e \in Claims \/ Definition(c).focus = {}
  BY <1>1, <1>2 DEF PairScore
<1>3. CASE ~(e \in Claims \/ Definition(c).focus = {})
  <2> DEFINE k == (60 * q) \div 100
             w == 4000 + k
  <2>1. q \in 0..Full
    BY <1>3, QualityType
  <2>2. PairScore(c, e) = (l * w) \div Full
    BY <1>3 DEF PairScore
  <2> HIDE DEF l, q
  <2>3. k \in Nat /\ k <= 6000
    <3>1. q \in Nat /\ q <= 10000
      BY <2>1 DEF Full
    <3> QED BY <3>1
  <2>4. w \in 0..Full
    <3> HIDE DEF k
    <3>1. w = 4000 + k
      OBVIOUS
    <3> HIDE DEF w
    <3>2. w \in Nat /\ w <= 10000
      BY <2>3, <3>1
    <3> QED BY <3>2 DEF Full
  <2> HIDE DEF w
  <2>5. l * w \in Nat /\ l * w <= Full * Full
    <3>1. l \in Nat /\ w \in Nat /\ l <= Full /\ w <= Full /\ Full \in Nat
      BY <1>1, <2>4, ScoreIsNumber, FullIsNumber
    <3>2. l * w <= Full * w
      BY <3>1
    <3>3. Full * w <= Full * Full
      BY <3>1
    <3>4. l * w \in Nat /\ Full * w \in Nat /\ Full * Full \in Nat
      BY <3>1
    <3> QED BY <3>2, <3>3, <3>4
  <2> DEFINE m == l * w
  <2>6. m \in Int /\ 0 * Full <= m /\ m <= Full * Full /\ Full \in Nat \ {0} /\ Full \in Int /\ 0 \in Int
    BY <2>5, FullIsNumber
  <2> HIDE DEF m
  <2>7. m \div Full \in 0..Full
    BY <2>6, QuotientBetween
  <2> QED BY <2>2, <2>7 DEF m
<1> QED BY <1>2, <1>3

-----------------------------------------------------------------------------
(* The proofs of a capability. *)

\* None of some evidence is stronger than e.
NoStronger(c, e, es) == \A f \in es : PairScore(c, e) >= PairScore(c, f)

\* The strongest of some evidence is one of them, and no other is stronger.
LEMMA StrongestIs ==
    ASSUME FirstTyped, NEW c \in AllCapabilities, NEW es \in SUBSET Relevant, es # {}
    PROVE  Strongest(c, es) \in es /\ NoStronger(c, Strongest(c, es), es)
<1> DEFINE f == [e \in es |-> PairScore(c, e)]
           g == [e \in es |-> Order[e]]
           s == Strongest(c, es)
<1>1. f \in [es -> 0..Full] /\ g \in [es -> Nat] /\ Full \in Nat
  BY PairScoreType, RelevantIs, FirstScoringConstants, FullIsNumber
<1>2. HasFirst(es, f, g)
  <2> HIDE DEF f, g
  <2> QED BY <1>1, FirstInOrder
<1>3. \E x \in es : \A y \in es : f[x] > f[y] \/ (f[x] = f[y] /\ g[x] <= g[y])
  <2> HIDE DEF f, g
  <2> QED BY <1>2 DEF HasFirst
<1>4. \E e \in es : \A x \in es :
        \/ PairScore(c, e) > PairScore(c, x)
        \/ PairScore(c, e) = PairScore(c, x) /\ Order[e] <= Order[x]
  BY <1>3
<1>5. s \in es /\ \A x \in es :
        \/ PairScore(c, s) > PairScore(c, x)
        \/ PairScore(c, s) = PairScore(c, x) /\ Order[s] <= Order[x]
  BY <1>4 DEF Strongest
<1> HIDE DEF s
<1>6. ASSUME NEW x \in es PROVE PairScore(c, s) >= PairScore(c, x)
  <2> DEFINE a == PairScore(c, s)
             b == PairScore(c, x)
  <2>1. a \in Nat /\ b \in Nat
    BY <1>5, PairScoreType, ScoreIsNumber
  <2>2. a > b \/ a = b
    BY <1>5
  <2> HIDE DEF a, b
  <2>3. a >= b
    BY <2>1, <2>2
  <2> QED BY <2>3 DEF a, b
<1> QED BY <1>5, <1>6 DEF s, NoStronger

\* What the property says of the proofs of one capability.
Independent(c, best) ==
    /\ \A e, f \in best : e # f => Work(e) \cap Work(f) = {}
    /\ \A e \in best \ Claims :
         OfProject(e) \in kept /\ project[OfProject(e)].status = "assessed"
    /\ \A e \in Relevant \ best :
         \/ \E f \in best : Overlap(e, f) /\ PairScore(c, f) >= PairScore(c, e)
         \/ Cardinality(best) = 3 /\ \A f \in best : PairScore(c, f) >= PairScore(c, e)

\* Overlaps are mutual.
LEMMA OverlapIsMutual == \A e, f : Overlap(e, f) <=> Overlap(f, e)
BY DEF Overlap

\* What is left does not overlap.
LEMMA ApartIs ==
    ASSUME NEW es, NEW e, NEW f
    PROVE  f \in Apart(es, e) <=> f \in es /\ f # e /\ ~Overlap(e, f)
BY DEF Apart

\* Of relevant evidence that does not overlap no two share work.
LEMMA ApartByWork ==
    ASSUME FirstTyped, NEW e \in Relevant, NEW f \in Relevant, ~Overlap(e, f)
    PROVE  Work(e) \cap Work(f) = {}
BY RelevantIs DEF Overlap

\* Three that differ are three.
LEMMA ThreeDistinct ==
    ASSUME NEW a, NEW b, NEW c, a # b, a # c, b # c
    PROVE  Cardinality({a, b, c}) = 3
<1>1. IsFiniteSet({a}) /\ Cardinality({a}) = 1
  BY FS_Singleton
<1>2. IsFiniteSet({a} \cup {b}) /\ Cardinality({a} \cup {b}) = 2
  BY <1>1, FS_AddElement
<1>3. Cardinality(({a} \cup {b}) \cup {c}) = 3
  BY <1>2, FS_AddElement
<1>4. {a, b, c} = ({a} \cup {b}) \cup {c}
  OBVIOUS
<1> QED BY <1>3, <1>4

\* The proofs that are chosen are independent (_aggregate_capabilities).
LEMMA ProofsIndependent ==
    ASSUME FirstTyped, NEW c \in AllCapabilities
    PROVE  Independent(c, {Proofs(c)[n] : n \in DOMAIN Proofs(c)})
<1> DEFINE best == {Proofs(c)[n] : n \in DOMAIN Proofs(c)}
           e1 == Strongest(c, Relevant)
           apart == Apart(Relevant, e1)
           e2 == Strongest(c, apart)
           more == Apart(apart, e2)
           e3 == Strongest(c, more)
<1>1. /\ Relevant = {} => best = {}
      /\ Relevant # {} /\ apart = {} => best = {e1}
      /\ Relevant # {} /\ apart # {} /\ more = {} => best = {e1, e2}
      /\ Relevant # {} /\ apart # {} /\ more # {} => best = {e1, e2, e3}
  <2>1. Proofs(c) = IF Relevant = {} THEN <<>>
                    ELSE IF apart = {} THEN <<e1>>
                    ELSE IF more = {} THEN <<e1, e2>>
                    ELSE <<e1, e2, e3>>
    BY DEF Proofs
  <2> HIDE DEF e1, e2, e3, apart, more
  <2> QED BY <2>1
<1>2. Relevant # {} => e1 \in Relevant /\ NoStronger(c, e1, Relevant)
  BY StrongestIs
<1>3. apart \subseteq Relevant /\ more \subseteq apart
  BY DEF Apart
<1>4. apart # {} => e2 \in apart /\ NoStronger(c, e2, apart)
  BY <1>3, StrongestIs
<1>5. more # {} => e3 \in more /\ NoStronger(c, e3, more)
  BY <1>3, StrongestIs
<1>6. \A f : f \in apart <=> f \in Relevant /\ f # e1 /\ ~Overlap(e1, f)
  BY ApartIs
<1>7. \A f : f \in more <=> f \in apart /\ f # e2 /\ ~Overlap(e2, f)
  BY ApartIs
<1> HIDE DEF best, e1, apart, e2, more, e3
<1>8. best \subseteq Relevant
  BY <1>1, <1>2, <1>3, <1>4, <1>5
<1>9. ASSUME NEW e \in best, NEW f \in best, e # f PROVE ~Overlap(e, f)
  BY <1>1, <1>2, <1>4, <1>5, <1>6, <1>7, <1>9, OverlapIsMutual
<1>10. ASSUME NEW e \in best, NEW f \in best, e # f PROVE Work(e) \cap Work(f) = {}
  BY <1>8, <1>9, <1>10, ApartByWork
<1>11. ASSUME NEW e \in best \ Claims
       PROVE  OfProject(e) \in kept /\ project[OfProject(e)].status = "assessed"
  BY <1>8, RelevantIs
<1>12. ASSUME NEW e \in Relevant \ best
       PROVE  \/ \E f \in best : Overlap(e, f) /\ PairScore(c, f) >= PairScore(c, e)
              \/ Cardinality(best) = 3 /\ \A f \in best : PairScore(c, f) >= PairScore(c, e)
  <2>1. e1 \in best /\ PairScore(c, e1) >= PairScore(c, e) /\ e # e1
    BY <1>1, <1>2 DEF NoStronger
  <2>2. CASE Overlap(e1, e)
    BY <2>1, <2>2, OverlapIsMutual
  <2>3. CASE ~Overlap(e1, e)
    <3>1. e \in apart
      BY <1>6, <2>1, <2>3
    <3>2. e2 \in best /\ PairScore(c, e2) >= PairScore(c, e) /\ e # e2
      BY <1>1, <1>4, <3>1 DEF NoStronger
    <3>3. CASE Overlap(e2, e)
      BY <3>2, <3>3, OverlapIsMutual
    <3>4. CASE ~Overlap(e2, e)
      <4>1. e \in more
        BY <1>7, <3>1, <3>2, <3>4
      <4>2. best = {e1, e2, e3} /\ PairScore(c, e3) >= PairScore(c, e)
        BY <1>1, <1>5, <3>1, <4>1 DEF NoStronger
      <4>3. e1 # e2 /\ e1 # e3 /\ e2 # e3
        BY <1>4, <1>5, <1>6, <1>7, <3>1, <4>1
      <4>4. Cardinality(best) = 3
        BY <4>2, <4>3, ThreeDistinct
      <4> QED BY <2>1, <3>2, <4>2, <4>4
    <3> QED BY <3>3, <3>4
  <2> QED BY <2>2, <2>3
<1> QED BY <1>10, <1>11, <1>12 DEF Independent, best

-----------------------------------------------------------------------------

\* Proofs stay independent as long as nothing that they rest on changes.
LEMMA IndependentStays ==
    ASSUME UNCHANGED <<capabilities, project, kept, levels>>
    PROVE  AllCapabilities' = AllCapabilities
           /\ \A c, best : Independent(c, best)' = Independent(c, best)
<1>1. AllCapabilities' = AllCapabilities /\ \A c : Definition(c)' = Definition(c)
  BY DEF AllCapabilities, Definition
<1>2. \A t : EvidenceOf(t)' = EvidenceOf(t)
  BY DEF EvidenceOf
<1>3. Relevant' = Relevant /\ \A e : LevelOf(e)' = LevelOf(e)
  BY <1>2 DEF Relevant, LevelOf
<1>4. \A c, e : Quality(c, e)' = Quality(c, e)
  BY <1>1 DEF Quality
<1>5. \A c, e : PairScore(c, e)' = PairScore(c, e)
  BY <1>1, <1>3, <1>4 DEF PairScore
<1>6. \A e, f : Overlap(e, f)' = Overlap(e, f)
  BY DEF Overlap, Footprint
<1> QED BY <1>1, <1>3, <1>5, <1>6 DEF Independent

\* And nothing that they rest on changes until the result is published.
LEMMA ProofsIndependentKept ==
    FirstTyped /\ ProofsAreIndependent /\ [FirstNext]_firstVars => ProofsAreIndependent'
<1> SUFFICES ASSUME FirstTyped, ProofsAreIndependent, [FirstNext]_firstVars
             PROVE  ProofsAreIndependent'
  OBVIOUS
<1>0. ProofsAreIndependent <=>
        (at \in {"core", "published"} => \A c \in AllCapabilities : Independent(c, Bests(c)))
  BY DEF ProofsAreIndependent, Independent
<1>1. ProofsAreIndependent' <=>
        (at' \in {"core", "published"} =>
           \A c \in AllCapabilities' : Independent(c, Bests(c))')
  BY DEF ProofsAreIndependent, Independent
<1>2. ASSUME UNCHANGED <<capabilities, project, kept, levels, proofs>>,
             at' \in {"core", "published"} => at \in {"core", "published"}
      PROVE  ProofsAreIndependent'
  <2>1. \A c : Bests(c)' = Bests(c)
    BY <1>2 DEF Bests
  <2>2. AllCapabilities' = AllCapabilities
        /\ \A c, best : Independent(c, best)' = Independent(c, best)
    BY <1>2, IndependentStays
  <2> QED BY <1>0, <1>1, <1>2, <2>1, <2>2
<1>3. CASE AssembleJob
  <2>1. UNCHANGED <<capabilities, project, kept, levels>>
        /\ proofs' = [c \in AllCapabilities |-> Proofs(c)]
    BY <1>3 DEF AssembleJob
  <2>2. AllCapabilities' = AllCapabilities
        /\ \A c, best : Independent(c, best)' = Independent(c, best)
    BY <2>1, IndependentStays
  <2>3. \A c \in AllCapabilities : Bests(c)' = {Proofs(c)[n] : n \in DOMAIN Proofs(c)}
    <3>1. \A c : Bests(c)' = {proofs'[c][n] : n \in DOMAIN proofs'[c]}
      BY DEF Bests
    <3>2. \A c \in AllCapabilities : proofs'[c] = Proofs(c)
      BY <2>1
    <3> QED BY <3>1, <3>2
  <2>4. \A c \in AllCapabilities : Independent(c, Bests(c))'
    BY <2>2, <2>3, ProofsIndependent
  <2> QED BY <1>1, <2>2, <2>4
<1>4. CASE PublishFirst \/ UNCHANGED firstVars
  <2>1. UNCHANGED <<capabilities, project, kept, levels, proofs>>
        /\ (at' \in {"core", "published"} => at \in {"core", "published"})
    BY <1>4 DEF PublishFirst, firstVars
  <2> QED BY <1>2, <2>1
<1>5. CASE ExtractCapabilities \/ AssembleExperience \/ ScoringFails
           \/ (\E p \in Projects : AssessProject(p) \/ SkipProject(p) \/ ProjectExhausted(p))
           \/ \E t \in Types : ScorePairs(t)
  <2>1. at' \notin {"core", "published"}
    BY <1>5 DEF ExtractCapabilities, AssembleExperience, ScoringFails, AssessProject,
                SkipProject, ProjectExhausted, Assess, ScorePairs
  <2> QED BY <1>1, <2>1
<1> QED BY <1>3, <1>4, <1>5 DEF FirstNext

\* Work is counted once in the scores of a capability, in every assessment.
THEOREM ProofsAlwaysIndependent == FirstSpec => []ProofsAreIndependent
<1> DEFINE I == FirstTyped /\ ProofsAreIndependent
<1>1. FirstInit => I
  BY FirstTypedInit DEF FirstInit, ProofsAreIndependent
<1>2. I /\ [FirstNext]_firstVars => I'
  BY FirstTypedKept, ProofsIndependentKept
<1> QED BY <1>1, <1>2, PTL DEF FirstSpec

-----------------------------------------------------------------------------
(* The rounds: the graph. *)

\* Ranks are numbers, and regions two.
LEMMA RankType == \A k \in DOMAIN Rank : Rank[k] \in Nat
BY DEF Rank

\* Every anchor has a rank.
LEMMA AnchorRank ==
    ASSUME NEW a \in Anchors PROVE Kind[a] \in DOMAIN Rank /\ Rank[Kind[a]] \in Nat
BY TopologyConstants, RankType

\* Every edge leads higher on its side.
LEMMA EdgesRise ==
    ASSUME NEW e \in Edges
    PROVE  e[1] \in Anchors /\ e[2] \in Anchors /\ e[2] \in Higher(e[1])
<1>1. CASE e \in Linked("work_unit_indicator", "project_indicator", {"project_id", "indicator_id"})
  BY <1>1 DEF Linked, OfKind, Higher, Region, Rank
<1>2. CASE e \in Linked("project_pao", "project_indicator", {"project_id"})
  BY <1>2 DEF Linked, OfKind, Higher, Region, Rank
<1>3. CASE e \in Linked("project_indicator", "project_framework", {"project_id"})
  BY <1>3 DEF Linked, OfKind, Higher, Region, Rank
<1>4. CASE e \in Linked("project_framework", "candidate_framework", {"framework_id"})
  BY <1>4 DEF Linked, OfKind, Higher, Region, Rank
<1>5. CASE e \in ClaimLinks
  BY <1>5 DEF ClaimLinks, OfKind, Higher, Region, Rank
<1>6. CASE e \in Linked("job_capability_evidence_pair", "job_capability", {"job_capability_id"})
  BY <1>6 DEF Linked, OfKind, Higher, Region, Rank
<1>7. CASE e \in Linked("job_capability", "job_unit", {"job_unit_id"})
  BY <1>7 DEF Linked, OfKind, Higher, Region, Rank
<1> QED BY <1>1, <1>2, <1>3, <1>4, <1>5, <1>6, <1>7 DEF Edges

\* What is above an anchor that is above another is above that one too.
LEMMA HigherIsTransitive ==
    ASSUME NEW a \in Anchors, NEW b \in Higher(a), NEW c \in Higher(b)
    PROVE  c \in Higher(a)
BY AnchorRank DEF Higher

\* Nothing is higher than itself.
LEMMA HigherIsStrict == ASSUME NEW a \in Anchors PROVE a \notin Higher(a)
BY AnchorRank DEF Higher

\* An ancestor's ancestors are one's own ancestors, and it is not one of them.
LEMMA AncestorsOfAncestors ==
    ASSUME NEW a \in Anchors, NEW b \in Ancestors[a]
    PROVE  Ancestors[b] \subseteq Ancestors[a] /\ b \notin Ancestors[b] /\ b \in Anchors
<1>1. b \in Higher(a) /\ b \in Anchors
  BY DEF Ancestors, Higher
<1>2. b \notin Ancestors[b]
  BY <1>1, HigherIsStrict DEF Ancestors
<1>3. ASSUME NEW c \in Ancestors[b] PROVE c \in Ancestors[a]
  <2>1. c \in Higher(a)
    BY <1>1, <1>3, HigherIsTransitive DEF Ancestors
  <2>2. ASSUME NEW S \in SUBSET Higher(a),
               \A e \in Edges : e[1] \in S \cup {a} => e[2] \in S
        PROVE  c \in S
    <3> DEFINE T == S \cap Higher(b)
    <3>1. b \in S
      BY <2>2 DEF Ancestors
    <3>2. ASSUME NEW e \in Edges, e[1] \in T \cup {b} PROVE e[2] \in T
      <4>1. e[1] \in S /\ e[2] \in S
        BY <3>1, <3>2, <2>2
      <4>2. e[2] \in Higher(e[1])
        BY EdgesRise
      <4>3. e[2] \in Higher(b)
        BY <1>1, <3>2, <4>2, HigherIsTransitive
      <4> QED BY <4>1, <4>3
    <3>3. T \in SUBSET Higher(b)
      OBVIOUS
    <3>4. c \in T
      BY <1>1, <1>3, <3>2, <3>3 DEF Ancestors
    <3> QED BY <3>4
  <2> QED BY <2>1, <2>2 DEF Ancestors
<1> QED BY <1>1, <1>2, <1>3

\* The graph is finite.
LEMMA AncestorsFinite ==
    ASSUME NEW a \in Anchors
    PROVE  IsFiniteSet(Ancestors[a]) /\ Cardinality(Ancestors[a]) \in Nat
<1>1. Ancestors[a] \subseteq Anchors
  BY DEF Ancestors, Higher
<1> QED BY <1>1, TopologyConstants, FS_Subset, FS_CardinalityType

\* The higher an anchor the fewer ancestors it has.
LEMMA FewerAbove ==
    ASSUME NEW a \in Anchors, NEW b \in Ancestors[a]
    PROVE  Cardinality(Ancestors[b]) < Cardinality(Ancestors[a])
<1>1. Ancestors[b] \subseteq Ancestors[a] /\ b \notin Ancestors[b] /\ b \in Anchors
  BY AncestorsOfAncestors
<1>2. Cardinality(Ancestors[b]) <= Cardinality(Ancestors[a])
      /\ (Cardinality(Ancestors[b]) = Cardinality(Ancestors[a]) => Ancestors[b] = Ancestors[a])
  BY <1>1, AncestorsFinite, FS_Subset
<1> QED BY <1>1, <1>2, AncestorsFinite

-----------------------------------------------------------------------------
(* What was said of one anchor. *)

\* What is selected has been judged; the scores are scores.
RoundTypes ==
    /\ base \in [Anchors -> 0..Full]
    /\ selected \subseteq DOMAIN rows
    /\ selected \subseteq Units \X Anchors
    /\ \A x \in DOMAIN rows : rows[x] \in AllJudgements

\* A rise is a number (_aggregate_target).
LEMMA RiseType ==
    ASSUME NEW before \in 0..Full, NEW support \in 0..Full, NEW judgement \in Positive
    PROVE  Rise(before, support, judgement) \in Nat
<1> DEFINE p == Pull[judgement]
           b == Bonus[judgement]
           more == Most(0, support - before)
           less == Least(before, support)
           rest == Full - before
<1>1. p \in Nat /\ b \in Nat
  BY DEF Positive, Pull, Bonus
<1>2. more \in Nat /\ less \in Nat /\ rest \in Nat
  <2>1. before \in Nat /\ support \in Nat /\ before <= Full /\ Full \in Nat \ {0}
    BY ScoreIsNumber, FullIsNumber
  <2> QED BY <2>1 DEF Most, Least
<1>3. Rise(before, support, judgement) = (p * more) \div 100 + (b * ((less * rest) \div Full)) \div 100
  BY DEF Rise
<1> HIDE DEF p, b, more, less, rest
<1>4. p * more \in Nat /\ less * rest \in Nat
  BY <1>1, <1>2, Product
<1>5. (less * rest) \div Full \in Nat
  BY <1>4, FullIsNumber
<1>6. b * ((less * rest) \div Full) \in Nat
  BY <1>1, <1>5, Product
<1>7. (p * more) \div 100 \in Nat /\ (b * ((less * rest) \div Full)) \div 100 \in Nat
  BY <1>4, <1>6
<1> QED BY <1>3, <1>7

\* A fall has a limit.
LEMMA FallType ==
    ASSUME NEW before \in 0..Full, NEW judgement \in Negative
    PROVE  Fall(before, judgement) \in 0..MaxFall
<1> DEFINE p == Pull[judgement]
           less == Most(0, before - Observed[judgement])
<1>1. p \in Nat /\ Observed[judgement] \in Nat
  BY DEF Negative, Pull, Observed
<1>2. less \in Nat
  <2>1. before \in Nat
    BY ScoreIsNumber
  <2> QED BY <1>1, <2>1 DEF Most
<1>3. Fall(before, judgement) = Least(MaxFall, (p * less) \div 100)
  BY DEF Fall
<1> HIDE DEF p, less
<1> DEFINE pulled == p * less
<1>4. pulled \in Nat
  BY <1>1, <1>2, Product
<1>5. Fall(before, judgement) = Least(MaxFall, pulled \div 100)
  BY <1>3
<1> HIDE DEF pulled
<1>6. pulled \div 100 \in Nat
  BY <1>4
<1> QED BY <1>5, <1>6 DEF Least, MaxFall

\* One that says the worst.
LEMMA WorstIs ==
    ASSUME NEW xs, xs # {}, \A x \in xs : rows[x] \in AllJudgements \ {"not_support"}
    PROVE  Worst(xs) \in xs
<1> DEFINE T == {Observed[rows[x]] : x \in xs}
<1>1. T \in SUBSET Nat /\ T # {}
  BY DEF AllJudgements, Observed
<1>2. PICK n \in T : \A m \in T : n <= m
  <2> HIDE DEF T
  <2> QED BY <1>1, LeastNumber
<1>3. PICK x \in xs : n = Observed[rows[x]]
  BY <1>2
<1>4. \A y \in xs : Observed[rows[x]] <= Observed[rows[y]]
  BY <1>2, <1>3
<1> QED BY <1>4 DEF Worst

Up(a) ==
    IF UnitsOn(a, Positive) = {} THEN 0
    ELSE Rise(base[a], Support(UnitsOn(a, Positive)),
              rows[Best(UnitsOn(a, Positive), Seen(UnitsOn(a, Positive)))])
Down(a) == IF UnitsOn(a, Negative) = {} THEN 0 ELSE Fall(base[a], rows[Worst(UnitsOn(a, Negative))])

\* The units in favour lift the score, those against it let it fall, to a limit.
LEMMA UpIsNumber ==
    ASSUME RoundTypes, NEW a \in Anchors PROVE Up(a) \in Nat
<1> DEFINE for == UnitsOn(a, Positive)
<1>1. CASE for = {}
  BY <1>1 DEF Up
<1>2. CASE for # {}
  <2>1. \A x \in for : rows[x] \in Positive
    BY DEF UnitsOn
  <2>2. Scores(for, Seen(for))
    <3>1. \A j \in Positive : Observed[j] \in 0..Full
      <4>1. \A j \in Positive : Observed[j] \in {6000, 7700, 8700}
        BY DEF Positive, Observed
      <4>2. {6000, 7700, 8700} \subseteq 0..Full
        BY DEF Full
      <4> QED BY <4>1, <4>2
    <3> HIDE DEF for
    <3>2. ASSUME NEW x \in for PROVE Seen(for)[x] \in 0..Full
      <4>1. Seen(for)[x] = Observed[rows[x]]
        BY DEF Seen
      <4> QED BY <2>1, <3>1, <4>1
    <3> QED BY <3>2 DEF Scores
  <2> HIDE DEF for
  <2>3. Best(for, Seen(for)) \in for
    BY <1>2, <2>2, BestIs
  <2>4. Support(for) \in 0..Full
    <3>1. 4 \in Nat /\ 2 \in Nat
      OBVIOUS
    <3> QED BY <2>2, <3>1, SupportedType DEF Support
  <2>5. base[a] \in 0..Full
    BY DEF RoundTypes
  <2>6. Rise(base[a], Support(for), rows[Best(for, Seen(for))]) \in Nat
    BY <2>1, <2>3, <2>4, <2>5, RiseType
  <2> QED BY <1>2, <2>6 DEF Up, for
<1> QED BY <1>1, <1>2

\* And the fall is limited.
LEMMA DownIsLimited ==
    ASSUME RoundTypes, NEW a \in Anchors PROVE Down(a) \in 0..MaxFall
<1> DEFINE against == UnitsOn(a, Negative)
<1>1. CASE against = {}
  BY <1>1 DEF Down, MaxFall
<1>2. CASE against # {}
  <2>1. \A x \in against : rows[x] \in Negative
    BY DEF UnitsOn
  <2>2. \A j \in Negative : j \in AllJudgements \ {"not_support"}
    BY DEF Negative, AllJudgements
  <2> HIDE DEF against
  <2>3. Worst(against) \in against
    BY <1>2, <2>1, <2>2, WorstIs
  <2>4. base[a] \in 0..Full
    BY DEF RoundTypes
  <2>5. Fall(base[a], rows[Worst(against)]) \in 0..MaxFall
    BY <2>1, <2>3, <2>4, FallType
  <2> QED BY <1>2, <2>5 DEF Down, against
<1> QED BY <1>1, <1>2

\* Clipping goes no further than what is clipped.
LEMMA ClipIs ==
    ASSUME NEW b \in 0..Full, NEW d \in Int
    PROVE  /\ Clip(b + d) \in 0..Full
           /\ d >= 0 => Clip(b + d) - b >= 0 /\ Clip(b + d) - b <= d
           /\ d <= 0 => Clip(b + d) - b <= 0 /\ Clip(b + d) - b >= d
<1>1. b \in Nat /\ b <= Full
  BY ScoreIsNumber
<1>2. Full \in Nat
  BY FullIsNumber
<1>3. Clip(b + d) \in 0..Full
  BY <1>1, <1>2 DEF Clip, Most, Least
<1>4. d >= 0 => Clip(b + d) - b >= 0 /\ Clip(b + d) - b <= d
  BY <1>1, <1>2 DEF Clip, Most, Least
<1>5. d <= 0 => Clip(b + d) - b <= 0 /\ Clip(b + d) - b >= d
  BY <1>1, <1>2 DEF Clip, Most, Least
<1> QED BY <1>3, <1>4, <1>5

\* What is said of an anchor lets it fall by a quarter at most; praise does not
\* let it fall, blame does not lift it, and silence does neither.
LEMMA DirectIs ==
    ASSUME RoundTypes, NEW a \in Anchors
    PROVE  /\ Direct(a) \in Int /\ Direct(a) >= 0 - MaxFall
           /\ UnitsOn(a, Negative) = {} => Direct(a) >= 0
           /\ UnitsOn(a, Positive) = {} => Direct(a) <= 0
<1> DEFINE d == Up(a) - Down(a)
           b == base[a]
<1>1. b \in 0..Full
  BY DEF RoundTypes
<1>2. Up(a) \in Nat /\ Down(a) \in Nat /\ Down(a) <= MaxFall /\ MaxFall \in Nat
  <2>1. Down(a) \in 0..MaxFall
    BY DownIsLimited
  <2>2. MaxFall \in Nat
    BY DEF MaxFall
  <2> QED BY <2>1, <2>2, UpIsNumber
<1>3. d \in Int /\ d >= 0 - MaxFall
  BY <1>2
<1>4. UnitsOn(a, Negative) = {} => d >= 0
  <2>1. UnitsOn(a, Negative) = {} => Down(a) = 0
    BY DEF Down
  <2> QED BY <1>2, <2>1
<1>5. UnitsOn(a, Positive) = {} => d <= 0
  <2>1. UnitsOn(a, Positive) = {} => Up(a) = 0
    BY DEF Up
  <2> QED BY <1>2, <2>1
<1>6. Direct(a) = Clip(b + d) - b
  <2>1. Direct(a) = Clip(base[a] + Up(a) - Down(a)) - base[a]
    BY DEF Direct, Up, Down
  <2>2. base[a] + Up(a) - Down(a) = b + d
    <3>1. b \in Int
      BY <1>1, ScoreIsNumber
    <3>2. Up(a) \in Int /\ Down(a) \in Int
      BY <1>2
    <3> QED BY <3>1, <3>2
  <2> QED BY <2>1, <2>2
<1> HIDE DEF b, d
<1>7. Clip(b + d) - b \in Int
  <2>1. Clip(b + d) \in Nat /\ b \in Nat
    BY <1>1, <1>3, ClipIs, ScoreIsNumber
  <2> QED BY <2>1
<1>8. /\ d >= 0 => Clip(b + d) - b >= 0 /\ Clip(b + d) - b <= d
      /\ d <= 0 => Clip(b + d) - b <= 0 /\ Clip(b + d) - b >= d
  BY <1>1, <1>3, ClipIs
<1> DEFINE k == Clip(b + d) - b
<1> HIDE DEF k
<1>9. k \in Int /\ (d >= 0 => k >= 0) /\ (d <= 0 => k <= 0 /\ k >= d)
  BY <1>7, <1>8 DEF k
<1>10. k >= 0 - MaxFall
  BY <1>2, <1>3, <1>9
<1> QED BY <1>3, <1>4, <1>5, <1>6, <1>9, <1>10 DEF k

-----------------------------------------------------------------------------
(* What the changes of all anchors are. *)

\* The change of an anchor from those of its children.
ChangeFrom(g, a) == Clip(base[a] + Mean(Children(a), g) + Direct(a)) - base[a]
UpToRank(n) == {a \in Anchors : Rank[Kind[a]] <= n}

\* Children are of a lower rank, and they are finitely many.
LEMMA ChildrenAre ==
    ASSUME NEW a \in Anchors
    PROVE  /\ IsFiniteSet(Children(a)) /\ Children(a) \subseteq Anchors
           /\ \A c \in Children(a) : Rank[Kind[c]] < Rank[Kind[a]] /\ a \in Ancestors[c]
<1>1. Children(a) \subseteq Anchors
  BY DEF Children
<1>2. IsFiniteSet(Children(a))
  BY <1>1, TopologyConstants, FS_Subset
<1>3. ASSUME NEW c \in Children(a) PROVE Rank[Kind[c]] < Rank[Kind[a]] /\ a \in Ancestors[c]
  <2> DEFINE e == <<c, a>>
  <2>1. e \in Edges /\ e[1] = c /\ e[2] = a
    BY <1>3 DEF Children
  <2> HIDE DEF e
  <2>2. c \in Anchors /\ a \in Higher(c)
    BY <2>1, EdgesRise
  <2>3. Rank[Kind[c]] < Rank[Kind[a]]
    BY <2>2, AnchorRank DEF Higher
  <2>4. a \in Ancestors[c]
    <3>1. ASSUME NEW S \in SUBSET Higher(c), \A d \in Edges : d[1] \in S \cup {c} => d[2] \in S
          PROVE  a \in S
      BY <2>1, <3>1
    <3> QED BY <2>2, <3>1 DEF Ancestors
  <2> QED BY <2>3, <2>4
<1> QED BY <1>1, <1>2, <1>3

\* What is true of an anchor if it is of its children is true of all anchors.
LEMMA ChildrenFirst ==
    ASSUME NEW Good \in SUBSET Anchors,
           \A a \in Anchors : Children(a) \subseteq Good => a \in Good
    PROVE  Good = Anchors
<1> DEFINE Bad == {n \in Nat : \E a \in Anchors : a \notin Good /\ Rank[Kind[a]] = n}
<1>1. ASSUME Bad = {} PROVE Good = Anchors
  <2>1. ASSUME NEW a \in Anchors PROVE a \in Good
    <3>1. Rank[Kind[a]] \in Nat
      BY AnchorRank
    <3> QED BY <1>1, <3>1
  <2> QED BY <2>1
<1>2. ASSUME Bad # {} PROVE FALSE
  <2>1. PICK n \in Bad : \A m \in Bad : n <= m
    <3>1. Bad \in SUBSET Nat
      OBVIOUS
    <3> HIDE DEF Bad
    <3> QED BY <1>2, <3>1, LeastNumber
  <2>2. PICK a \in Anchors : a \notin Good /\ Rank[Kind[a]] = n
    OBVIOUS
  <2>3. PICK c \in Children(a) : c \notin Good
    BY <2>2
  <2>4. c \in Anchors /\ Rank[Kind[c]] < n
    BY <2>2, ChildrenAre
  <2>5. Rank[Kind[c]] \in Nat /\ n \in Nat
    BY <2>4, AnchorRank
  <2>6. Rank[Kind[c]] \in Bad
    BY <2>3, <2>4, <2>5
  <2> HIDE DEF Bad
  <2> QED BY <2>1, <2>4, <2>5, <2>6
<1> QED BY <1>1, <1>2

\* A change takes a score to a score, whatever numbers it is made of.
LEMMA ChangeType ==
    ASSUME RoundTypes, NEW a \in Anchors, NEW g, \A c \in Children(a) : g[c] \in Int
    PROVE  ChangeFrom(g, a) \in Int /\ base[a] + ChangeFrom(g, a) \in 0..Full
<1> DEFINE m == Mean(Children(a), g)
           b == base[a]
           d == m + Direct(a)
<1>1. b \in 0..Full
  BY DEF RoundTypes
<1>2. m \in Int
  <2>1. IsFiniteSet(Children(a)) /\ \A c \in Children(a) : g[c] \in Int /\ g[c] = g[c]
    BY ChildrenAre
  <2> QED BY <2>1, SameMean
<1>3. Direct(a) \in Int
  BY DirectIs
<1>4. b \in Int
  BY <1>1, ScoreIsNumber
<1> HIDE DEF m, b
<1>5. d \in Int /\ b + m + Direct(a) = b + d
  BY <1>2, <1>3, <1>4
<1>6. ChangeFrom(g, a) = Clip(b + d) - b
  BY <1>5 DEF ChangeFrom, m, b
<1> HIDE DEF d
<1> DEFINE k == Clip(b + d)
<1>7. k \in 0..Full
  BY <1>1, <1>5, ClipIs
<1> HIDE DEF k
<1>8. k \in Int
  BY <1>7, ScoreIsNumber
<1>9. k - b \in Int /\ b + (k - b) = k
  BY <1>4, <1>8
<1> QED BY <1>6, <1>7, <1>9 DEF b, k

\* The changes are those that fit the changes of the children.
LEMMA ChangesAre ==
    ASSUME RoundTypes
    PROVE  /\ \A a \in Anchors : Changes[a] = ChangeFrom(Changes, a)
           /\ \A a \in Anchors : Changes[a] \in Int /\ base[a] + Changes[a] \in 0..Full
<1> DEFINE Step(g) == [a \in Anchors |-> ChangeFrom(g, a)]
           Zero == [a \in Anchors |-> 0]
           Numbers(g) == \A a \in Anchors : g[a] \in Int
           Settled(g, n) == Numbers(g) /\ \A a \in UpToRank(n) : Step(g)[a] = g[a]
<1>1. ASSUME NEW g, Numbers(g) PROVE Numbers(Step(g))
  <2>1. \A a \in Anchors : \A c \in Children(a) : g[c] \in Int
    BY <1>1, ChildrenAre
  <2> QED BY <2>1, ChangeType
<1>2. ASSUME NEW g, NEW n \in Nat, Settled(g, n) PROVE Settled(Step(g), n + 1)
  <2> DEFINE h == Step(g)
  <2>1. Numbers(g) /\ Numbers(h)
    BY <1>1, <1>2
  <2>2. ASSUME NEW a \in UpToRank(n + 1) PROVE Step(h)[a] = h[a]
    <3>1. a \in Anchors /\ Rank[Kind[a]] <= n + 1
      BY DEF UpToRank
    <3>2. IsFiniteSet(Children(a))
      BY <3>1, ChildrenAre
    <3>3. ASSUME NEW c \in Children(a) PROVE g[c] \in Int /\ h[c] = g[c]
      <4>1. c \in Anchors /\ Rank[Kind[c]] < Rank[Kind[a]]
        BY <3>1, ChildrenAre
      <4>2. Rank[Kind[c]] \in Nat /\ Rank[Kind[a]] \in Nat
        BY <3>1, <4>1, AnchorRank
      <4>3. c \in UpToRank(n)
        BY <3>1, <4>1, <4>2 DEF UpToRank
      <4> QED BY <1>2, <4>1, <4>3
    <3> HIDE DEF h
    <3>4. Mean(Children(a), h) = Mean(Children(a), g)
      BY <3>2, <3>3, SameMean
    <3>5. ChangeFrom(h, a) = ChangeFrom(g, a)
      BY <3>4 DEF ChangeFrom
    <3>6. h[a] = ChangeFrom(g, a)
      BY <3>1 DEF h
    <3> QED BY <3>1, <3>5, <3>6
  <2> QED BY <2>1, <2>2
<1>3. Settled(Zero, 0)
  <2>1. UpToRank(0) = {}
    <3>1. \A k \in DOMAIN Rank : Rank[k] > 0
      BY DEF Rank
    <3> QED BY <3>1, AnchorRank DEF UpToRank
  <2> QED BY <2>1
<1>4. \A a \in Anchors : a \in UpToRank(4)
  <2>1. \A k \in DOMAIN Rank : Rank[k] <= 4
    BY DEF Rank
  <2> QED BY <2>1, AnchorRank DEF UpToRank
<1> DEFINE F == Step(Step(Step(Step(Zero))))
<1> HIDE DEF Settled
<1>5. Settled(F, 4)
  <2> HIDE DEF Step, Zero
  <2>1. Settled(Step(Zero), 1)
    BY <1>2, <1>3
  <2>2. Settled(Step(Step(Zero)), 2)
    BY <1>2, <2>1
  <2>3. Settled(Step(Step(Step(Zero))), 3)
    BY <1>2, <2>2
  <2> QED BY <1>2, <2>3
<1>6. F = Step(F)
  <2> DEFINE G == Step(Step(Step(Zero)))
  <2>1. \A a \in Anchors : Step(F)[a] = F[a]
    BY <1>4, <1>5 DEF Settled
  <2> HIDE DEF G
  <2>2. F = Step(G)
    BY DEF F, G
  <2>3. \A a \in Anchors : ChangeFrom(F, a) = ChangeFrom(G, a)
    BY <2>1, <2>2
  <2>4. Step(F) = Step(G)
    BY <2>3
  <2> QED BY <2>2, <2>4
<1>7. \E g : g = Step(g)
  BY <1>6
<1>8. Changes = Step(Changes)
  <2>1. Changes = CHOOSE g : g = Step(g)
    BY DEF Changes, ChangeFrom
  <2> QED BY <1>7, <2>1
<1>9. \A a \in Anchors : Changes[a] = ChangeFrom(Changes, a)
  BY <1>8
<1> DEFINE Good == {a \in Anchors : Changes[a] \in Int}
<1>10. Good = Anchors
  <2>1. ASSUME NEW a \in Anchors, Children(a) \subseteq Good PROVE a \in Good
    <3>1. \A c \in Children(a) : Changes[c] \in Int
      BY <2>1
    <3>2. ChangeFrom(Changes, a) \in Int
      BY <3>1, ChangeType
    <3> QED BY <1>9, <3>2
  <2>2. Good \in SUBSET Anchors
    OBVIOUS
  <2> HIDE DEF Good
  <2> QED BY <2>1, <2>2, ChildrenFirst
<1>11. ASSUME NEW a \in Anchors PROVE Changes[a] \in Int /\ base[a] + Changes[a] \in 0..Full
  <2>1. \A c \in Children(a) : Changes[c] \in Int
    BY <1>10, ChildrenAre
  <2>2. ChangeFrom(Changes, a) \in Int /\ base[a] + ChangeFrom(Changes, a) \in 0..Full
    BY <2>1, ChangeType
  <2> QED BY <1>9, <2>2
<1> QED BY <1>9, <1>11

-----------------------------------------------------------------------------
(* What the changes of the children and an anchor's own units come to. *)

\* No change takes a score further than the scale is long.
LEMMA ChangeIsLimited ==
    ASSUME RoundTypes, NEW a \in Anchors
    PROVE  Changes[a] \in Int /\ 0 - Full <= Changes[a] /\ Changes[a] <= Full
<1> DEFINE b == base[a]
           c == Changes[a]
           k == b + c
<1>1. b \in 0..Full
  BY DEF RoundTypes
<1>2. c \in Int /\ k \in 0..Full
  BY ChangesAre
<1>3. b \in Nat /\ b <= Full /\ k \in Nat /\ k <= Full /\ Full \in Nat
  BY <1>1, <1>2, ScoreIsNumber, FullIsNumber
<1>4. k = b + c
  OBVIOUS
<1> HIDE DEF b, c, k
<1>5. 0 - Full <= c /\ c <= Full
  BY <1>2, <1>3, <1>4
<1> QED BY <1>2, <1>5 DEF c

\* The mean of the children's changes is between them and nothing.
LEMMA MeanAtLeast ==
    ASSUME RoundTypes, NEW a \in Anchors, NEW lo \in Int, lo <= 0,
           \A c \in Children(a) : lo <= Changes[c]
    PROVE  Mean(Children(a), Changes) \in Int /\ lo <= Mean(Children(a), Changes)
<1> DEFINE xs == Children(a)
<1>1. IsFiniteSet(xs) /\ \A c \in xs : c \in Anchors
  BY ChildrenAre
<1>2. \A c \in xs : Changes[c] \in Int /\ Changes[c] <= Full
  BY <1>1, ChangeIsLimited
<1>3. Full \in Int
  BY FullIsNumber
<1>4. \A c \in xs : Changes[c] \in lo..Full
  BY <1>2, <1>3
<1>5. CASE xs = {}
  BY <1>5 DEF Mean
<1>6. CASE xs # {}
  <2>1. Mean(xs, Changes) \in lo..Full
    BY <1>1, <1>3, <1>4, <1>6, MeanBetween
  <2> QED BY <1>3, <2>1
<1> QED BY <1>5, <1>6

\* And so it is from above.
LEMMA MeanAtMost ==
    ASSUME RoundTypes, NEW a \in Anchors, NEW hi \in Int, 0 <= hi,
           \A c \in Children(a) : Changes[c] <= hi
    PROVE  Mean(Children(a), Changes) \in Int /\ Mean(Children(a), Changes) <= hi
<1> DEFINE xs == Children(a)
           lo == 0 - Full
<1>1. IsFiniteSet(xs) /\ \A c \in xs : c \in Anchors
  BY ChildrenAre
<1>2. \A c \in xs : Changes[c] \in Int /\ lo <= Changes[c]
  BY <1>1, ChangeIsLimited
<1>3. lo \in Int
  BY FullIsNumber
<1> HIDE DEF lo
<1>4. \A c \in xs : Changes[c] \in lo..hi
  BY <1>2, <1>3
<1>5. CASE xs = {}
  BY <1>5 DEF Mean
<1>6. CASE xs # {}
  <2>1. Mean(xs, Changes) \in lo..hi
    BY <1>1, <1>3, <1>4, <1>6, MeanBetween
  <2> QED BY <1>3, <2>1
<1> QED BY <1>5, <1>6

\* A change is between what the mean and the units come to, and nothing.
LEMMA ChangeFollows ==
    ASSUME RoundTypes, NEW a \in Anchors, NEW m \in Int, m = Mean(Children(a), Changes),
           NEW d \in Int, d = m + Direct(a)
    PROVE  /\ d >= 0 => Changes[a] >= 0 /\ Changes[a] <= d
           /\ d <= 0 => Changes[a] <= 0 /\ Changes[a] >= d
<1> DEFINE b == base[a]
<1>1. b \in 0..Full
  BY DEF RoundTypes
<1>2. Direct(a) \in Int /\ b \in Int
  BY <1>1, DirectIs, ScoreIsNumber
<1>3. Changes[a] = Clip(b + m + Direct(a)) - b
  BY ChangesAre DEF ChangeFrom
<1> HIDE DEF b
<1>4. b + m + Direct(a) = b + d
  BY <1>2
<1>5. Changes[a] = Clip(b + d) - b
  BY <1>3, <1>4
<1> QED BY <1>1, <1>5, ClipIs

-----------------------------------------------------------------------------
(* The units that an anchor is charged to. *)

Own(a) == {u \in Units : \E x \in selected : x[1] = u /\ x[2] = a}

\* A unit of its own is none of any child: no path counts it twice.
LEMMA ChargedIs ==
    ASSUME RoundTypes, PathsCountOnce, NEW a \in Anchors
    PROVE  /\ IsFiniteSet(Charged(a)) /\ Cardinality(Charged(a)) \in Nat
           /\ Own(a) \subseteq Charged(a)
           /\ \A c \in Children(a) : Charged(c) \subseteq Charged(a) \ Own(a)
<1>1. IsFiniteSet(Units)
  BY TopologyConstants, FS_Interval DEF Units
<1>2. Charged(a) \subseteq Units
  BY DEF Charged
<1>3. IsFiniteSet(Charged(a)) /\ Cardinality(Charged(a)) \in Nat
  BY <1>1, <1>2, FS_Subset, FS_CardinalityType
<1>4. Own(a) \subseteq Charged(a)
  BY DEF Own, Charged
<1>5. ASSUME NEW c \in Children(a), NEW u \in Charged(c) PROVE u \in Charged(a) \ Own(a)
  <2>1. c \in Anchors /\ a \in Ancestors[c]
    BY ChildrenAre
  <2>2. PICK x \in selected : x[1] = u /\ (x[2] = c \/ c \in Ancestors[x[2]])
    BY DEF Charged
  <2>3. x[2] \in Anchors
    BY DEF RoundTypes
  <2>4. a \in Ancestors[x[2]]
    <3>1. CASE x[2] = c
      BY <2>1, <3>1
    <3>2. CASE c \in Ancestors[x[2]]
      <4>1. Ancestors[c] \subseteq Ancestors[x[2]]
        BY <2>3, <3>2, AncestorsOfAncestors
      <4> QED BY <2>1, <4>1
    <3> QED BY <2>2, <3>1, <3>2
  <2>5. u \in Charged(a)
    BY <2>2, <2>4 DEF Charged
  <2>6. u \notin Own(a)
    <3>1. SUFFICES ASSUME NEW y \in selected, y[1] = u, y[2] = a PROVE FALSE
      BY DEF Own
    <3> QED BY <2>2, <2>4, <3>1 DEF PathsCountOnce
  <2> QED BY <2>5, <2>6
<1> QED BY <1>3, <1>4, <1>5

\* Nothing of its own is said of an anchor that no unit is charged to directly.
LEMMA NothingOwn ==
    ASSUME RoundTypes, NEW a \in Anchors, Own(a) = {}
    PROVE  Direct(a) = 0
<1>1. UnitsOn(a, Positive) = {} /\ UnitsOn(a, Negative) = {}
  BY DEF UnitsOn, Own, RoundTypes
<1> QED BY <1>1, DirectIs

\* The account of every anchor.
InAccount(a) ==
    /\ 0 - MaxFall * Cardinality(Charged(a)) <= Changes[a]
    /\ Charged(a) = {} => Changes[a] = 0

\* An anchor is in account if its children are.
LEMMA ChangeInAccount ==
    ASSUME RoundTypes, PathsCountOnce, NEW a \in Anchors, \A c \in Children(a) : InAccount(c)
    PROVE  InAccount(a)
<1> DEFINE n == Cardinality(Charged(a))
           m == Mean(Children(a), Changes)
           d == m + Direct(a)
<1>1. n \in Nat /\ MaxFall \in Nat
  BY ChargedIs DEF MaxFall
<1>2. \A c \in Children(a) : c \in Anchors
  BY ChildrenAre
<1>3. Direct(a) \in Int /\ Direct(a) >= 0 - MaxFall
  BY DirectIs
\* What the children fall by, at least k of the units being none of theirs.
<1>4. ASSUME NEW k \in Nat, k <= n,
             \A c \in Children(a) : Cardinality(Charged(c)) <= n - k
      PROVE  m \in Int /\ 0 - MaxFall * (n - k) <= m
  <2> DEFINE lo == 0 - MaxFall * (n - k)
  <2>1. MaxFall * (n - k) \in Nat
    BY <1>1, <1>4, Product
  <2>2. lo \in Int /\ lo <= 0
    BY <2>1
  <2>3. ASSUME NEW c \in Children(a) PROVE lo <= Changes[c]
    <3> DEFINE s == Cardinality(Charged(c))
    <3>1. s \in Nat /\ s <= n - k
      BY <1>2, <1>4, ChargedIs
    <3>2. 0 - MaxFall * s <= Changes[c] /\ Changes[c] \in Int
      BY <1>2, ChangeIsLimited DEF InAccount
    <3> HIDE DEF s, n
    <3>3. MaxFall * s \in Nat /\ MaxFall * s <= MaxFall * (n - k)
      BY <1>1, <1>4, <3>1 DEF MaxFall
    <3> QED BY <2>1, <3>2, <3>3
  <2> HIDE DEF lo
  <2>4. m \in Int /\ lo <= m
    BY <2>2, <2>3, MeanAtLeast
  <2> QED BY <2>4 DEF lo
<1>5. 0 - MaxFall * n <= Changes[a]
  <2>1. CASE Own(a) = {}
    <3>1. \A c \in Children(a) : Cardinality(Charged(c)) <= n - 0
      <4>1. ASSUME NEW c \in Children(a) PROVE Cardinality(Charged(c)) <= n
        <5>1. Charged(c) \subseteq Charged(a) /\ IsFiniteSet(Charged(a))
          BY ChargedIs
        <5> QED BY <5>1, FS_Subset
      <4> QED BY <1>1, <4>1
    <3>2. m \in Int /\ 0 - MaxFall * (n - 0) <= m
      <4>1. 0 \in Nat /\ 0 <= n
        BY <1>1
      <4> HIDE DEF n, m
      <4> QED BY <1>4, <3>1, <4>1
    <3>3. Direct(a) = 0
      BY <2>1, NothingOwn
    <3> HIDE DEF n, m
    <3>4. d \in Int /\ d = m /\ n - 0 = n
      BY <1>1, <3>2, <3>3
    <3>5. /\ d >= 0 => Changes[a] >= 0
          /\ d <= 0 => Changes[a] >= d
      BY <3>2, <3>4, ChangeFollows DEF m
    <3>6. MaxFall * n \in Nat /\ Changes[a] \in Int
      BY <1>1, Product, ChangeIsLimited
    <3> HIDE DEF d
    <3>7. 0 - MaxFall * n <= d
      BY <3>2, <3>4
    <3> QED BY <3>4, <3>5, <3>6, <3>7
  <2>2. CASE Own(a) # {}
    <3>1. PICK u \in Own(a) : TRUE
      BY <2>2
    <3>2. u \in Charged(a) /\ IsFiniteSet(Charged(a))
      BY ChargedIs
    <3>3. IsFiniteSet(Charged(a) \ {u}) /\ Cardinality(Charged(a) \ {u}) = n - 1
      BY <3>2, FS_RemoveElement
    <3>4. ASSUME NEW c \in Children(a) PROVE Cardinality(Charged(c)) <= n - 1
      <4>1. Charged(c) \subseteq Charged(a) \ {u}
        BY ChargedIs, <3>1
      <4> QED BY <3>3, <4>1, FS_Subset
    <3>5. n - 1 \in Nat
      BY <3>3, FS_CardinalityType
    <3> HIDE DEF n, m
    <3>6. m \in Int /\ 0 - MaxFall * (n - 1) <= m
      <4>1. 1 \in Nat /\ 1 <= n
        BY <1>1, <3>5
      <4> QED BY <1>4, <3>4, <4>1
    <3>7. d \in Int /\ 0 - MaxFall * n <= d
      <4>1. MaxFall * (n - 1) = MaxFall * n - MaxFall
        BY <1>1 DEF MaxFall
      <4> QED BY <1>1, <1>3, <3>6, <4>1 DEF MaxFall
    <3>8. /\ d >= 0 => Changes[a] >= 0
          /\ d <= 0 => Changes[a] >= d
      BY <3>6, <3>7, ChangeFollows DEF m
    <3>9. MaxFall * n \in Nat /\ Changes[a] \in Int
      BY <1>1, Product, ChangeIsLimited
    <3> HIDE DEF d
    <3> QED BY <3>7, <3>8, <3>9
  <2> QED BY <2>1, <2>2
<1>6. ASSUME Charged(a) = {} PROVE Changes[a] = 0
  <2>1. Own(a) = {} /\ \A c \in Children(a) : Charged(c) = {}
    BY <1>6, ChargedIs
  <2>2. \A c \in Children(a) : Changes[c] = 0
    BY <2>1 DEF InAccount
  <2>3. m \in Int /\ 0 <= m
    BY <2>2, MeanAtLeast
  <2>4. m <= 0
    BY <2>2, MeanAtMost
  <2>5. Direct(a) = 0
    BY <2>1, NothingOwn
  <2> HIDE DEF m
  <2>6. d \in Int /\ d = 0
    BY <2>3, <2>4, <2>5
  <2>7. /\ d >= 0 => Changes[a] >= 0
        /\ d <= 0 => Changes[a] <= 0
    BY <2>3, <2>6, ChangeFollows DEF m
  <2>8. Changes[a] \in Int
    BY ChangeIsLimited
  <2> QED BY <2>6, <2>7, <2>8
<1> QED BY <1>5, <1>6 DEF InAccount

\* From the lowest anchors up, every one is in account.
LEMMA AllInAccount ==
    ASSUME RoundTypes, PathsCountOnce
    PROVE  \A a \in Anchors : InAccount(a)
<1> DEFINE Good == {a \in Anchors : InAccount(a)}
<1>1. Good = Anchors
  <2>1. ASSUME NEW a \in Anchors, Children(a) \subseteq Good PROVE a \in Good
    BY <2>1, ChangeInAccount
  <2>2. Good \in SUBSET Anchors
    OBVIOUS
  <2> HIDE DEF Good
  <2> QED BY <2>1, <2>2, ChildrenFirst
<1> QED BY <1>1

-----------------------------------------------------------------------------
(* The direction of the changes. *)

\* Where only praise was selected no change is a fall.
LEMMA PraiseLifts ==
    ASSUME RoundTypes, \A x \in selected : rows[x] \in Positive
    PROVE  \A a \in Anchors : 0 <= Changes[a]
<1> DEFINE Good == {a \in Anchors : 0 <= Changes[a]}
<1>1. ASSUME NEW a \in Anchors, Children(a) \subseteq Good PROVE a \in Good
  <2> DEFINE m == Mean(Children(a), Changes)
             d == m + Direct(a)
  <2>1. m \in Int /\ 0 <= m
    BY <1>1, MeanAtLeast
  <2>2. UnitsOn(a, Negative) = {}
    BY DEF UnitsOn, Positive, Negative
  <2>3. Direct(a) \in Int /\ Direct(a) >= 0
    BY <2>2, DirectIs
  <2> HIDE DEF m
  <2>4. d \in Int /\ d >= 0
    BY <2>1, <2>3
  <2>5. Changes[a] >= 0
    BY <2>1, <2>4, ChangeFollows DEF m
  <2>6. Changes[a] \in Int
    BY ChangeIsLimited
  <2> QED BY <2>5, <2>6
<1>2. Good \in SUBSET Anchors
  OBVIOUS
<1>3. Good = Anchors
  <2> HIDE DEF Good
  <2> QED BY <1>1, <1>2, ChildrenFirst
<1> QED BY <1>3

\* Where only blame was selected no change is a rise.
LEMMA BlameLowers ==
    ASSUME RoundTypes, \A x \in selected : rows[x] \in Negative
    PROVE  \A a \in Anchors : Changes[a] <= 0
<1> DEFINE Good == {a \in Anchors : Changes[a] <= 0}
<1>1. ASSUME NEW a \in Anchors, Children(a) \subseteq Good PROVE a \in Good
  <2> DEFINE m == Mean(Children(a), Changes)
             d == m + Direct(a)
  <2>1. m \in Int /\ m <= 0
    BY <1>1, MeanAtMost
  <2>2. UnitsOn(a, Positive) = {}
    BY DEF UnitsOn, Positive, Negative
  <2>3. Direct(a) \in Int /\ Direct(a) <= 0
    BY <2>2, DirectIs
  <2> HIDE DEF m
  <2>4. d \in Int /\ d <= 0
    BY <2>1, <2>3
  <2>5. Changes[a] <= 0
    BY <2>1, <2>4, ChangeFollows DEF m
  <2> QED BY <2>5
<1>2. Good \in SUBSET Anchors
  OBVIOUS
<1>3. Good = Anchors
  <2> HIDE DEF Good
  <2> QED BY <1>1, <1>2, ChildrenFirst
<1> QED BY <1>3

-----------------------------------------------------------------------------
(* The inductive invariant. *)

\* What has been looked at came before everything that has not.
InOrder ==
    \A x \in selected \cup masked : \A y \in ToSelect : First(x, y)

\* Nothing is kept or hidden before the selection begins, and only pairs that
\* were judged.
Bounded ==
    /\ parsed \subseteq Units /\ onWork \subseteq parsed
    /\ DOMAIN rows \subseteq Units \X Anchors
    /\ place \in {"load", "parse", "evaluate"} => selected = {} /\ masked = {}
    /\ selected \cup masked \subseteq Candidates

Inv == Bounded /\ InOrder /\ PathsCountOnce

\* The pairs that a step leaves alone while it changes neither what is judged
\* nor what is selected.
LEMMA SelectionUnchanged ==
    ASSUME Inv, UNCHANGED <<rows, selected, masked>>,
           place' \in {"score", "published"} => ToSelect = {} \/ place \in {"score", "published"}
    PROVE  InOrder' /\ PathsCountOnce' /\ (selected \cup masked \subseteq Candidates)'
<1>1. Candidates' = Candidates /\ ToSelect' = ToSelect
  BY DEF Candidates, ToSelect
<1>2. InOrder'
  BY <1>1 DEF Inv, InOrder, First
<1>3. (selected \cup masked \subseteq Candidates)'
  BY <1>1 DEF Inv, Bounded
<1>4. ASSUME Scored' PROVE (selected \cup masked = Candidates)'
  BY <1>1, <1>3, <1>4 DEF Scored, Inv, PathsCountOnce, ToSelect
<1> QED BY <1>2, <1>3, <1>4 DEF Inv, PathsCountOnce

\* What is added to the judgements before the selection concerns it in no way.
LEMMA NothingSelected ==
    ASSUME selected' = {}, masked' = {}, place' \notin {"score", "published"}
    PROVE  InOrder' /\ PathsCountOnce' /\ (selected \cup masked \subseteq Candidates)'
BY DEF InOrder, PathsCountOnce, Scored

\* What is asked for is a pair of a unit and an anchor.
LEMMA MatrixBound ==
    ASSUME Bounded, NEW s PROVE Matrix(s) \subseteq Units \X Anchors
BY TopologyConstants DEF Bounded, Matrix

\* An answer adds pairs that were asked for.
LEMMA AddBound ==
    ASSUME Bounded, NEW ps \in SUBSET (Units \X Anchors), NEW answer \in AnswersOn(ps), Add(answer)
    PROVE  DOMAIN rows' \subseteq Units \X Anchors
<1>1. DOMAIN answer \subseteq ps
  BY DEF AnswersOn
<1>2. DOMAIN rows' = DOMAIN rows \cup DOMAIN answer
  BY DEF Add
<1> QED BY <1>1, <1>2 DEF Bounded

\* One turn of the selection: the new pair came before all that are left, and
\* those before it have no descendants of it.
LEMMA SelectKeepsInv ==
    ASSUME Inv, Select PROVE Inv'
<1>1. PICK x \in ToSelect :
        /\ \A y \in ToSelect : First(x, y)
        /\ IF Hidden(x)
           THEN masked' = masked \cup {x} /\ UNCHANGED selected
           ELSE selected' = selected \cup {x} /\ UNCHANGED masked
  BY DEF Select
<1>2. UNCHANGED <<place, parsed, onWork, rows>> /\ place = "select"
  BY DEF Select
<1>3. Candidates' = Candidates
  BY <1>2 DEF Candidates
<1>4. (selected \cup masked)' = (selected \cup masked) \cup {x}
  BY <1>1
<1>5. ToSelect' = ToSelect \ {x}
  BY <1>3, <1>4 DEF ToSelect
<1>6. x \in Candidates /\ x \in Units \X Anchors
  BY <1>1 DEF Inv, Bounded, ToSelect, Candidates
<1>7. Bounded'
  BY <1>2, <1>3, <1>4, <1>6 DEF Inv, Bounded
<1>8. InOrder'
  <2>1. ASSUME NEW u \in (selected \cup masked)', NEW v \in ToSelect' PROVE First(u, v)'
    <3>1. First(u, v)
      BY <1>1, <1>4, <1>5, <2>1 DEF Inv, InOrder
    <3> QED BY <3>1 DEF First
  <2> QED BY <2>1 DEF InOrder
<1>9. ASSUME NEW u \in selected', NEW v \in selected', u[1] = v[1]
      PROVE  v[2] \notin Ancestors[u[2]]
  <2>1. CASE u \in selected /\ v \in selected
    BY <1>9, <2>1 DEF Inv, PathsCountOnce
  <2>2. CASE u = x /\ v = x
    <3>1. x[2] \in Anchors
      BY <1>6
    <3> QED BY <2>2, <3>1, HigherIsStrict DEF Ancestors
  <2>3. CASE u = x /\ v \in selected /\ v # x
    <3>1. SUFFICES ASSUME v[2] \in Ancestors[x[2]] PROVE FALSE
      BY <2>3
    <3>2. ~Hidden(x)
      BY <1>1, <1>4, <1>9, <2>3 DEF ToSelect
    <3>3. Region(v[2]) = Region(x[2])
      BY <1>6, <3>1 DEF Ancestors, Higher
    <3> QED BY <1>9, <2>3, <3>1, <3>2, <3>3 DEF Hidden
  <2>4. CASE v = x /\ u \in selected /\ u # x
    <3>1. SUFFICES ASSUME x[2] \in Ancestors[u[2]] PROVE FALSE
      BY <2>4
    <3>2. First(u, x)
      BY <1>1, <2>4 DEF Inv, InOrder
    <3>3. u \in Units \X Anchors
      BY <2>4 DEF Inv, Bounded, Candidates
    <3>4. Cardinality(Ancestors[x[2]]) < Cardinality(Ancestors[u[2]])
      BY <3>1, <3>3, FewerAbove
    <3>5. u[1] \in Nat /\ u[1] = x[1]
      BY <1>9, <2>4, <3>3, TopologyConstants DEF Units
    <3>6. Cardinality(Ancestors[u[2]]) \in Nat /\ Cardinality(Ancestors[x[2]]) \in Nat
      BY <1>6, <3>3, AncestorsFinite
    <3> QED BY <3>2, <3>4, <3>5, <3>6 DEF First
  <2> QED BY <1>1, <2>1, <2>2, <2>3, <2>4
<1>10. ASSUME NEW u \in masked'
       PROVE  \E v \in selected' : v[1] = u[1] /\ v[2] \in Ancestors[u[2]]
  <2>1. CASE u \in masked
    BY <1>1, <2>1 DEF Inv, PathsCountOnce
  <2>2. CASE u \notin masked
    <3>1. u = x /\ Hidden(x) /\ selected' = selected
      BY <1>1, <1>10, <2>2
    <3> QED BY <3>1 DEF Hidden
  <2> QED BY <2>1, <2>2
<1>11. ~Scored'
  BY <1>2 DEF Scored
<1> QED BY <1>7, <1>8, <1>9, <1>10, <1>11 DEF Inv, PathsCountOnce

\* The selection is empty at the start.
LEMMA InvInitially == ASSUME RoundInit PROVE Inv
BY DEF RoundInit, Inv, Bounded, InOrder, PathsCountOnce, Scored, Candidates, Units

\* The steps of a round keep the invariant.
LEMMA InvIsKept == ASSUME Inv, [RoundNext]_roundVars PROVE Inv'
<1> SUFFICES Bounded' /\ InOrder' /\ PathsCountOnce'
  BY DEF Inv
<1> USE DEF Inv
<1>1. CASE Load
  BY <1>1, SelectionUnchanged DEF Load, Bounded
<1>2. CASE Parse
  <2>1. parsed' \subseteq Units /\ onWork' \subseteq parsed'
    BY <1>2 DEF Parse
  <2> QED BY <1>2, <2>1, NothingSelected DEF Parse, Bounded
<1>3. CASE Ask
  <2>1. DOMAIN rows' \subseteq Units \X Anchors
    BY <1>3, MatrixBound, AddBound DEF Ask
  <2> QED BY <1>3, <2>1, NothingSelected DEF Ask, Bounded
<1>4. CASE Repair
  <2>1. Missing(side) \subseteq Units \X Anchors
    BY MatrixBound DEF Missing
  <2>2. DOMAIN rows' \subseteq Units \X Anchors
    BY <1>4, <2>1, AddBound DEF Repair
  <2> QED BY <1>4, <2>2, NothingSelected DEF Repair, Bounded
<1>5. CASE AskRaises
  <2>1. DOMAIN rows' \subseteq Units \X Anchors
    BY <1>5 DEF AskRaises, Bounded
  <2> QED BY <1>5, <2>1, NothingSelected DEF AskRaises, Bounded
<1>6. CASE NextSide
  BY <1>6, SelectionUnchanged DEF NextSide, Bounded
<1>7. CASE EndEvaluation
  BY <1>7, SelectionUnchanged DEF EndEvaluation, Bounded
<1>8. CASE Select
  BY <1>8, SelectKeepsInv
<1>9. CASE Score
  BY <1>9, SelectionUnchanged DEF Score, Bounded
<1>10. CASE PublishRound
  BY <1>10, SelectionUnchanged DEF PublishRound, Bounded
<1>11. CASE StartAgain
  BY <1>11, NothingSelected DEF StartAgain, Bounded
<1>12. CASE UNCHANGED roundVars
  BY <1>12, SelectionUnchanged DEF roundVars, Bounded
<1> QED BY <1>1, <1>2, <1>3, <1>4, <1>5, <1>6, <1>7, <1>8, <1>9, <1>10, <1>11, <1>12 DEF RoundNext

\* No path of the graph counts a unit of feedback twice, and none is lost
\* (select_non_overlapping_anchors).
THEOREM PathsCountOnceAlways == RoundSpec => []PathsCountOnce
<1>1. Inv => PathsCountOnce
  BY DEF Inv
<1> QED BY <1>1, InvInitially, InvIsKept, PTL DEF RoundSpec

-----------------------------------------------------------------------------
(* The matrix of judgements. *)

MatrixPairs == Matrix("experience") \cup Matrix("job")

\* Only what is asked for is judged, and everything of it where scores are made.
MatrixInv ==
    /\ side \in {"experience", "job"}
    /\ place \in {"load", "parse"} => DOMAIN rows = {}
    /\ DOMAIN rows \subseteq MatrixPairs
    /\ MatrixIsComplete

\* An answer to what is missing, or to everything, keeps to the matrix.
LEMMA AnswerKeepsToMatrix ==
    ASSUME MatrixInv, NEW ps \in SUBSET MatrixPairs, NEW answer \in AnswersOn(ps), Add(answer),
           UNCHANGED <<parsed, onWork, side, place>>, place = "evaluate"
    PROVE  MatrixInv'
<1>1. DOMAIN rows' \subseteq MatrixPairs
  BY DEF MatrixInv, AnswersOn, Add
<1>2. MatrixPairs' = MatrixPairs
  BY DEF MatrixPairs, Matrix
<1> QED BY <1>1, <1>2 DEF MatrixInv, MatrixIsComplete

\* A step that judges nothing, and that scores only what is complete.
LEMMA NothingJudged ==
    ASSUME MatrixInv, UNCHANGED <<parsed, onWork, rows>>, side' \in {"experience", "job"},
           place' \notin {"load", "parse"},
           place' \in {"select", "score", "published"}
             => parsed = {} \/ Covered \/ place \in {"select", "score", "published"}
    PROVE  MatrixInv'
<1>1. MatrixPairs' = MatrixPairs
  BY DEF MatrixPairs, Matrix
<1>2. Covered => MatrixPairs \subseteq DOMAIN rows
  BY DEF Covered, Missing, MatrixPairs
<1>3. MatrixIsComplete'
  BY <1>1, <1>2 DEF MatrixInv, MatrixIsComplete, MatrixPairs
<1> QED BY <1>1, <1>3 DEF MatrixInv

\* The steps of a round keep to the matrix.
LEMMA MatrixInvIsKept == ASSUME MatrixInv, [RoundNext]_roundVars PROVE MatrixInv'
<1>0. Matrix(side) \subseteq MatrixPairs
  BY DEF MatrixInv, MatrixPairs
<1>1. CASE Load
  BY <1>1 DEF Load, MatrixInv, MatrixIsComplete
<1>2. CASE Parse
  BY <1>2 DEF Parse, MatrixInv, MatrixIsComplete
<1>3. CASE Ask
  BY <1>0, <1>3, AnswerKeepsToMatrix DEF Ask
<1>4. CASE Repair
  BY <1>0, <1>4, AnswerKeepsToMatrix DEF Repair, Missing
<1>5. CASE AskRaises
  <2>1. DOMAIN rows' \subseteq DOMAIN rows /\ UNCHANGED <<parsed, onWork, side>>
    BY <1>5 DEF AskRaises
  <2>2. MatrixPairs' = MatrixPairs
    BY <2>1 DEF MatrixPairs, Matrix
  <2>3. place' \in {"evaluate", "failed"}
    BY <1>5 DEF AskRaises
  <2> QED BY <2>1, <2>2, <2>3 DEF MatrixInv, MatrixIsComplete
<1>6. CASE NextSide
  BY <1>6, NothingJudged DEF NextSide
<1>7. CASE EndEvaluation
  BY <1>7, NothingJudged DEF EndEvaluation, MatrixInv
<1>8. CASE Select
  BY <1>8, NothingJudged DEF Select, MatrixInv
<1>9. CASE Score
  BY <1>9, NothingJudged DEF Score, MatrixInv
<1>10. CASE PublishRound
  BY <1>10, NothingJudged DEF PublishRound, MatrixInv
<1>11. CASE StartAgain
  BY <1>11 DEF StartAgain, MatrixInv, MatrixIsComplete
<1>12. CASE UNCHANGED roundVars
  <2>1. MatrixPairs' = MatrixPairs
    BY <1>12 DEF roundVars, MatrixPairs, Matrix
  <2> QED BY <1>12, <2>1 DEF roundVars, MatrixInv, MatrixIsComplete, MatrixPairs, Matrix
<1> QED BY <1>1, <1>2, <1>3, <1>4, <1>5, <1>6, <1>7, <1>8, <1>9, <1>10, <1>11, <1>12 DEF RoundNext

\* Nothing is scored before every judgement that was asked for is there
\* (evaluate_anchor_batch and the coverage check of evaluate).
THEOREM MatrixIsAlwaysComplete == RoundSpec => []MatrixIsComplete
<1>1. RoundInit => MatrixInv
  BY DEF RoundInit, MatrixInv, MatrixIsComplete
<1>2. MatrixInv => MatrixIsComplete
  BY DEF MatrixInv
<1> QED BY <1>1, <1>2, MatrixInvIsKept, PTL DEF RoundSpec

-----------------------------------------------------------------------------
(* The assessment of the new scores. *)

\* Where no score is lower, neither the total nor the recommendation is.
LEMMA AssessmentGrows ==
    ASSUME NEW of \in [Anchors -> 0..Full], NEW to \in [Anchors -> 0..Full],
           \A a \in Anchors : of[a] <= to[a]
    PROVE  Sum(of) <= Sum(to) /\ Recommended(of) <= Recommended(to)
<1>1. ASSUME NEW k PROVE OfKind(k) \subseteq Anchors /\ IsFiniteSet(OfKind(k))
  <2>1. OfKind(k) \subseteq Anchors
    BY DEF OfKind
  <2> QED BY <2>1, TopologyConstants, FS_Subset
<1>2. Experience(of) \in 0..Full /\ Experience(to) \in 0..Full /\ Experience(of) <= Experience(to)
  <2> DEFINE fs == OfKind("candidate_framework")
             ids == {Field[f]["framework_id"] : f \in fs}
             row(id) == CHOOSE f \in fs : Field[f]["framework_id"] = id
             F == [id \in ids |-> of[row(id)]]
             T == [id \in ids |-> to[row(id)]]
  <2>1. ASSUME NEW id \in ids PROVE row(id) \in Anchors
    <3>1. \E f \in fs : Field[f]["framework_id"] = id
      OBVIOUS
    <3>2. row(id) \in fs
      BY <3>1
    <3> QED BY <1>1, <3>2
  <2>2. Experience(of) = ExperienceScore(F) /\ Experience(to) = ExperienceScore(T)
    BY DEF Experience, Frameworks
  <2>3. DOMAIN F = ids /\ DOMAIN T = ids
    OBVIOUS
  <2>4. Scores(ids, F) /\ Scores(ids, T) /\ NoLower(ids, F, T)
    <3> HIDE DEF ids, row
    <3> QED BY <2>1 DEF Scores, NoLower
  <2> HIDE DEF ids, F, T
  <2> QED BY <2>2, <2>3, <2>4, ExperienceGrows
<1>3. JobFit(of) \in 0..Full /\ JobFit(to) \in 0..Full /\ JobFit(of) <= JobFit(to)
  <2> DEFINE us == OfKind("job_unit")
             required == us \ PreferredUnits
             preferred == us \cap PreferredUnits
  <2>1. required \subseteq Anchors /\ IsFiniteSet(required)
    BY <1>1, FS_Subset
  <2>2. preferred \subseteq Anchors /\ IsFiniteSet(preferred)
    BY <1>1, FS_Subset
  <2>3. JobFit(of) = JobScore(required, preferred, of) /\ JobFit(to) = JobScore(required, preferred, to)
    BY DEF JobFit
  <2> HIDE DEF us, required, preferred
  <2>4. Scores(required, of) /\ Scores(required, to) /\ NoLower(required, of, to)
    BY <2>1 DEF Scores, NoLower
  <2>5. Scores(preferred, of) /\ Scores(preferred, to) /\ NoLower(preferred, of, to)
    BY <2>2 DEF Scores, NoLower
  <2> QED BY <2>1, <2>2, <2>3, <2>4, <2>5, JobScoreGrows
<1>4. Sum(of) \in 0..Full /\ Sum(to) \in 0..Full /\ Sum(of) <= Sum(to)
  BY <1>2, <1>3, TotalGrows DEF Sum
<1>5. Recommended(of) <= Recommended(to)
  BY <1>2, <1>3, <1>4, LevelGrows DEF Recommended
<1> QED BY <1>4, <1>5

-----------------------------------------------------------------------------
(* The scores of a round. *)

JudgementTypes ==
    /\ base \in [Anchors -> 0..Full]
    /\ \A x \in DOMAIN rows : rows[x] \in AllJudgements

ScoresInv == Inv /\ JudgementTypes /\ ChangesAreAccounted /\ DirectionKept

\* The types that the account needs.
LEMMA RoundTyped == ASSUME Inv, JudgementTypes PROVE RoundTypes
BY DEF Inv, Bounded, JudgementTypes, RoundTypes, Candidates

\* What is in account of the changes is of the scores.
LEMMA ScoresInAccount ==
    ASSUME Inv, JudgementTypes, NEW a \in Anchors
    PROVE  /\ base[a] - NewScores[a] <= MaxFall * Cardinality(Charged(a))
           /\ Charged(a) = {} => NewScores[a] = base[a]
<1> DEFINE n == Cardinality(Charged(a))
           b == base[a]
           c == Changes[a]
<1>1. InAccount(a) /\ n \in Nat
  BY RoundTyped, AllInAccount, ChargedIs DEF Inv
<1>2. c \in Int /\ b \in Int
  <2>1. b \in 0..Full
    BY DEF JudgementTypes
  <2> QED BY <2>1, RoundTyped, ChangesAre, ScoreIsNumber
<1>3. NewScores[a] = b + c
  BY DEF NewScores
<1>4. 0 - MaxFall * n <= c /\ (Charged(a) = {} => c = 0)
  BY <1>1 DEF InAccount
<1>5. MaxFall * n \in Nat
  <2>1. MaxFall \in Nat
    BY DEF MaxFall
  <2> QED BY <1>1, <2>1, Product
<1> HIDE DEF n, b, c
<1>6. b - (b + c) <= MaxFall * n /\ (c = 0 => b + c = b)
  BY <1>2, <1>4, <1>5
<1> QED BY <1>3, <1>4, <1>6 DEF n, b

\* And so is the direction.
LEMMA ScoresDirected ==
    ASSUME Inv, JudgementTypes
    PROVE  /\ NewScores \in [Anchors -> 0..Full]
           /\ (\A x \in selected : rows[x] \in Positive) =>
                 /\ \A a \in Anchors : NewScores[a] >= base[a]
                 /\ Sum(NewScores) >= Sum(base) /\ Recommended(NewScores) >= Recommended(base)
           /\ (\A x \in selected : rows[x] \in Negative) =>
                 /\ \A a \in Anchors : NewScores[a] <= base[a]
                 /\ Sum(NewScores) <= Sum(base) /\ Recommended(NewScores) <= Recommended(base)
<1>1. RoundTypes
  BY RoundTyped
<1>2. NewScores \in [Anchors -> 0..Full] /\ base \in [Anchors -> 0..Full]
  BY <1>1, ChangesAre DEF NewScores, RoundTypes
<1>3. ASSUME NEW a \in Anchors
      PROVE  /\ 0 <= Changes[a] => base[a] <= NewScores[a]
             /\ Changes[a] <= 0 => NewScores[a] <= base[a]
  <2> DEFINE b == base[a]
             c == Changes[a]
  <2>1. b \in 0..Full
    BY <1>2
  <2>2. b \in Int /\ c \in Int
    BY <1>1, <2>1, ChangesAre, ScoreIsNumber
  <2>3. NewScores[a] = b + c
    BY DEF NewScores
  <2> HIDE DEF b, c
  <2>4. (0 <= c => b <= b + c) /\ (c <= 0 => b + c <= b)
    BY <2>2
  <2> QED BY <2>3, <2>4 DEF b, c
<1>4. ASSUME \A x \in selected : rows[x] \in Positive
      PROVE  /\ \A a \in Anchors : base[a] <= NewScores[a]
             /\ Sum(base) <= Sum(NewScores) /\ Recommended(base) <= Recommended(NewScores)
  <2>1. \A a \in Anchors : base[a] <= NewScores[a]
    BY <1>1, <1>3, <1>4, PraiseLifts
  <2> QED BY <1>2, <2>1, AssessmentGrows
<1>5. ASSUME \A x \in selected : rows[x] \in Negative
      PROVE  /\ \A a \in Anchors : NewScores[a] <= base[a]
             /\ Sum(NewScores) <= Sum(base) /\ Recommended(NewScores) <= Recommended(base)
  <2>1. \A a \in Anchors : NewScores[a] <= base[a]
    BY <1>1, <1>3, <1>5, BlameLowers
  <2> QED BY <1>2, <2>1, AssessmentGrows
<1> QED BY <1>2, <1>4, <1>5

\* Until the scores are made there is nothing to account for.
LEMMA NotScored ==
    ASSUME ~Scored' PROVE ChangesAreAccounted' /\ DirectionKept'
BY DEF ChangesAreAccounted, DirectionKept

\* The step that makes them.
LEMMA ScoreAccounts ==
    ASSUME Inv, JudgementTypes, Score PROVE ChangesAreAccounted' /\ DirectionKept'
<1>1. CASE ~Scored'
  BY <1>1, NotScored
<1>2. CASE Scored'
  <2>1. score' = NewScores /\ UNCHANGED <<base, selected, rows>>
    BY <1>2 DEF Score, Scored
  <2>2. ASSUME NEW a \in Anchors PROVE Charged(a)' = Charged(a)
    BY <2>1 DEF Charged
  <2>3. ChangesAreAccounted'
    BY <2>1, <2>2, ScoresInAccount DEF ChangesAreAccounted
  <2>4. DirectionKept'
    BY <2>1, ScoresDirected DEF DirectionKept
  <2> QED BY <2>3, <2>4
<1> QED BY <1>1, <1>2

\* And those after it.
LEMMA ScoresUnchanged ==
    ASSUME ScoresInv, UNCHANGED <<base, score, selected, rows>>, Scored' => Scored
    PROVE  ChangesAreAccounted' /\ DirectionKept'
<1>1. CASE ~Scored'
  BY <1>1, NotScored
<1>2. CASE Scored'
  <2>1. ASSUME NEW a \in Anchors PROVE Charged(a)' = Charged(a)
    BY DEF Charged
  <2>2. ChangesAreAccounted'
    BY <1>2, <2>1 DEF ScoresInv, ChangesAreAccounted
  <2>3. DirectionKept'
    BY <1>2 DEF ScoresInv, DirectionKept
  <2> QED BY <2>2, <2>3
<1> QED BY <1>1, <1>2

\* What is added to the judgements is one.
LEMMA JudgementsAdded ==
    ASSUME JudgementTypes, NEW ps, NEW answer \in AnswersOn(ps), Add(answer), UNCHANGED base
    PROVE  JudgementTypes'
<1>1. PICK known \in SUBSET ps : answer \in [known -> Judgements]
  BY DEF AnswersOn
<1>2. ASSUME NEW x \in DOMAIN rows' PROVE rows'[x] \in AllJudgements
  <2>1. x \in DOMAIN rows \cup DOMAIN answer
        /\ rows'[x] = IF x \in DOMAIN rows THEN rows[x] ELSE answer[x]
    BY <1>2 DEF Add
  <2> QED BY <1>1, <2>1, TopologyConstants DEF JudgementTypes
<1> QED BY <1>2 DEF JudgementTypes

\* The types hold through the round.
LEMMA JudgementTypesKept == ASSUME JudgementTypes, [RoundNext]_roundVars PROVE JudgementTypes'
<1>1. CASE Load
  BY <1>1, TopologyConstants DEF Load, JudgementTypes
<1>2. CASE Ask
  <2>1. PICK answer \in AnswersOn(Matrix(side)) : Add(answer)
    BY <1>2 DEF Ask
  <2> QED BY <1>2, <2>1, JudgementsAdded DEF Ask
<1>3. CASE Repair
  <2>1. PICK answer \in AnswersOn(Missing(side)) : Add(answer)
    BY <1>3 DEF Repair
  <2> QED BY <1>3, <2>1, JudgementsAdded DEF Repair
<1>4. CASE AskRaises
  BY <1>4 DEF AskRaises, JudgementTypes
<1>5. CASE StartAgain
  BY <1>5 DEF StartAgain, JudgementTypes
<1>6. CASE Parse \/ NextSide \/ EndEvaluation \/ Select \/ Score \/ PublishRound \/ UNCHANGED roundVars
  BY <1>6 DEF Parse, NextSide, EndEvaluation, Select, Score, PublishRound, roundVars, JudgementTypes
<1> QED BY <1>1, <1>2, <1>3, <1>4, <1>5, <1>6 DEF RoundNext

\* The steps of a round keep the account.
LEMMA ScoresInvIsKept == ASSUME ScoresInv, [RoundNext]_roundVars PROVE ScoresInv'
<1>1. Inv' /\ JudgementTypes'
  BY InvIsKept, JudgementTypesKept DEF ScoresInv
<1>2. CASE Score
  BY <1>1, <1>2, ScoreAccounts DEF ScoresInv
<1>3. CASE PublishRound \/ UNCHANGED roundVars
  BY <1>1, <1>3, ScoresUnchanged DEF ScoresInv, PublishRound, roundVars, Scored
<1>4. CASE \/ Load \/ Parse \/ Ask \/ Repair \/ AskRaises \/ NextSide \/ EndEvaluation
           \/ Select \/ StartAgain
  <2>1. ~Scored'
    BY <1>4 DEF Load, Parse, Ask, Repair, AskRaises, NextSide, EndEvaluation, Select, StartAgain, Scored
  <2> QED BY <1>1, <2>1, NotScored DEF ScoresInv
<1> QED BY <1>2, <1>3, <1>4 DEF RoundNext

\* It holds at first.
LEMMA ScoresInvInitially == ASSUME RoundInit PROVE ScoresInv
<1>1. Inv
  BY InvInitially
<1>2. JudgementTypes
  <2>1. base = [a \in Anchors |-> 0] /\ DOMAIN rows = {}
    BY DEF RoundInit
  <2> QED BY <2>1, FullIsNumber DEF JudgementTypes
<1>3. ~Scored
  BY DEF RoundInit, Scored
<1> QED BY <1>1, <1>2, <1>3 DEF ScoresInv, ChangesAreAccounted, DirectionKept

\* No round takes more from a score than what was said of it accounts for, for every
\* graph and every round (_aggregate_target, propagate).
THEOREM ChangesAlwaysAccounted == RoundSpec => []ChangesAreAccounted
<1>1. ScoresInv => ChangesAreAccounted
  BY DEF ScoresInv
<1> QED BY <1>1, ScoresInvInitially, ScoresInvIsKept, PTL DEF RoundSpec

\* Praise alone never lowers a score, the total or the recommendation, and blame alone
\* never raises one, for every graph and every round.
THEOREM DirectionAlwaysKept == RoundSpec => []DirectionKept
<1>1. ScoresInv => DirectionKept
  BY DEF ScoresInv
<1> QED BY <1>1, ScoresInvInitially, ScoresInvIsKept, PTL DEF RoundSpec

-----------------------------------------------------------------------------
(* The types of a round. *)

\* An activity has calls left for as long as its round goes on.
CallsLeft == place # "failed" => asked < MaxAsked

RoundTypeInv == Inv /\ TypeOK /\ CallsLeft

\* What is added to the judgements is one that a model gives.
LEMMA AddTyped ==
    ASSUME TypeOK, NEW ps \in SUBSET (Units \X Anchors), NEW answer \in AnswersOn(ps), Add(answer)
    PROVE  /\ DOMAIN rows' \subseteq Units \X Anchors
           /\ \A x \in DOMAIN rows' : rows'[x] \in Judgements
           /\ DOMAIN rows \subseteq DOMAIN rows'
<1>1. PICK known \in SUBSET ps : answer \in [known -> Judgements]
  BY DEF AnswersOn
<1>2. DOMAIN rows' = DOMAIN rows \cup DOMAIN answer
  BY DEF Add
<1>3. ASSUME NEW x \in DOMAIN rows' PROVE rows'[x] \in Judgements
  <2>1. x \in DOMAIN rows \cup DOMAIN answer
        /\ rows'[x] = IF x \in DOMAIN rows THEN rows[x] ELSE answer[x]
    BY <1>3 DEF Add
  <2> QED BY <1>1, <2>1 DEF TypeOK
<1> QED BY <1>1, <1>2, <1>3 DEF TypeOK

\* The steps of a round keep the types.
LEMMA RoundTypeInvIsKept == ASSUME RoundTypeInv, [RoundNext]_roundVars PROVE RoundTypeInv'
<1>0. Inv' /\ Inv /\ Bounded /\ TypeOK /\ CallsLeft
  BY InvIsKept DEF RoundTypeInv, Inv
<1> SUFFICES TypeOK' /\ CallsLeft'
  BY <1>0 DEF RoundTypeInv
<1>1. CASE Load
  <2>1. base' \in [Anchors -> 0..Full] /\ score' = base' /\ UNCHANGED <<rows, selected, masked>>
    BY <1>1, TopologyConstants DEF Load
  <2> QED BY <1>0, <1>1, <2>1 DEF Load, TypeOK, CallsLeft
<1>2. CASE Parse
  <2>1. parsed' \subseteq Units /\ onWork' \subseteq parsed'
    BY <1>2 DEF Parse
  <2> QED BY <1>0, <1>2, <2>1 DEF Parse, TypeOK, CallsLeft
<1>3. CASE Ask
  <2>1. PICK answer \in AnswersOn(Matrix(side)) : Add(answer)
    BY <1>3 DEF Ask
  <2>2. Matrix(side) \in SUBSET (Units \X Anchors)
    BY <1>0, MatrixBound
  <2>3. /\ DOMAIN rows' \subseteq Units \X Anchors
        /\ \A x \in DOMAIN rows' : rows'[x] \in Judgements
        /\ DOMAIN rows \subseteq DOMAIN rows'
    BY <1>0, <2>1, <2>2, AddTyped
  <2> QED BY <1>0, <1>3, <2>3 DEF Ask, TypeOK, CallsLeft
<1>4. CASE Repair
  <2>1. PICK answer \in AnswersOn(Missing(side)) : Add(answer)
    BY <1>4 DEF Repair
  <2>2. Missing(side) \in SUBSET (Units \X Anchors)
    BY <1>0, MatrixBound DEF Missing
  <2>3. /\ DOMAIN rows' \subseteq Units \X Anchors
        /\ \A x \in DOMAIN rows' : rows'[x] \in Judgements
        /\ DOMAIN rows \subseteq DOMAIN rows'
    BY <1>0, <2>1, <2>2, AddTyped
  <2> QED BY <1>0, <1>4, <2>3 DEF Repair, TypeOK, CallsLeft
<1>5. CASE AskRaises
  <2>1. asked \in Nat /\ asked < MaxAsked /\ asked' = asked + 1 /\ MaxAsked \in Nat
    BY <1>0, <1>5, TopologyConstants DEF AskRaises, CallsLeft, TypeOK
  <2>2. asked' \in 0..MaxAsked
    BY <2>1
  <2>3. place' = IF asked' < MaxAsked THEN place ELSE "failed"
    BY <1>5 DEF AskRaises
  <2>4. place' \in {"evaluate", "failed"} /\ CallsLeft'
    BY <1>5, <2>3 DEF AskRaises, CallsLeft
  <2>5. selected' = {} /\ masked' = {}
    BY <1>0, <1>5 DEF AskRaises, Bounded
  <2>6. DOMAIN rows' \subseteq DOMAIN rows /\ \A x \in DOMAIN rows' : rows'[x] = rows[x]
    BY <1>5 DEF AskRaises
  <2>7. call' = "none" /\ UNCHANGED <<parsed, onWork, side, base, score>>
    BY <1>5 DEF AskRaises
  <2> QED BY <1>0, <2>2, <2>4, <2>5, <2>6, <2>7 DEF TypeOK
<1>6. CASE NextSide
  <2>1. asked' = 0 /\ 0 \in 0..MaxAsked /\ 0 < MaxAsked
    BY <1>6, TopologyConstants DEF NextSide
  <2> QED BY <1>0, <1>6, <2>1 DEF NextSide, TypeOK, CallsLeft
<1>7. CASE EndEvaluation
  BY <1>0, <1>7 DEF EndEvaluation, TypeOK, CallsLeft
<1>8. CASE Select
  <2>1. selected' \subseteq DOMAIN rows /\ masked' \subseteq DOMAIN rows
    BY <1>0, <1>8 DEF Select, TypeOK, ToSelect, Candidates
  <2> QED BY <1>0, <1>8, <2>1 DEF Select, TypeOK, CallsLeft
<1>9. CASE Score
  <2>1. \A x \in DOMAIN rows : rows[x] \in AllJudgements
    BY <1>0, TopologyConstants DEF TypeOK
  <2>2. JudgementTypes
    BY <1>0, <2>1 DEF TypeOK, JudgementTypes
  <2>3. NewScores \in [Anchors -> 0..Full]
    BY <1>0, <2>2, ScoresDirected
  <2>4. score' \in [Anchors -> 0..Full] /\ place' \in {"failed", "score"}
    BY <1>0, <1>9, <2>3 DEF Score, TypeOK
  <2>5. UNCHANGED <<parsed, onWork, side, asked, call, rows, selected, masked, base>>
        /\ place = "select"
    BY <1>9 DEF Score
  <2> QED BY <1>0, <2>4, <2>5 DEF TypeOK, CallsLeft
<1>10. CASE PublishRound
  BY <1>0, <1>10 DEF PublishRound, TypeOK, CallsLeft
<1>11. CASE StartAgain
  <2>1. asked' = 0 /\ 0 \in 0..MaxAsked /\ 0 < MaxAsked
    BY <1>11, TopologyConstants DEF StartAgain
  <2> QED BY <1>0, <1>11, <2>1 DEF StartAgain, TypeOK, CallsLeft
<1>12. CASE UNCHANGED roundVars
  BY <1>0, <1>12 DEF roundVars, TypeOK, CallsLeft
<1> QED BY <1>1, <1>2, <1>3, <1>4, <1>5, <1>6, <1>7, <1>8, <1>9, <1>10, <1>11, <1>12 DEF RoundNext

\* They hold at first.
LEMMA RoundTypeInvInitially == ASSUME RoundInit PROVE RoundTypeInv
<1>1. 0 \in 0..MaxAsked /\ 0 < MaxAsked
  BY TopologyConstants
<1>2. base \in [Anchors -> 0..Full] /\ score \in [Anchors -> 0..Full]
  BY FullIsNumber DEF RoundInit
<1>3. TypeOK /\ CallsLeft
  BY <1>1, <1>2 DEF RoundInit, TypeOK, CallsLeft
<1> QED BY <1>3, InvInitially DEF RoundTypeInv

\* Every score of every round is on the scale, feedback is judged only with the
\* judgements there are, what is selected was judged, and no evaluation is called
\* more often than its attempts allow.
THEOREM RoundTypeCorrect == RoundSpec => []TypeOK
<1>1. RoundTypeInv => TypeOK
  BY DEF RoundTypeInv
<1> QED BY <1>1, RoundTypeInvInitially, RoundTypeInvIsKept, PTL DEF RoundSpec

=============================================================================
