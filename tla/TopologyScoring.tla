-------------------------- MODULE TopologyScoring --------------------------
(***************************************************************************)
(* Incremental scoring after an interview.  The first assessment freezes a *)
(* graph of score anchors: the results its scores were computed from, with *)
(* an edge to each result they were aggregated into.  An interview round   *)
(* parses the feedback into units, lets a model judge every unit against   *)
(* every anchor (evaluate), keeps of each unit the highest anchors of each *)
(* path (select), turns the judgements into changes of scores and passes   *)
(* the changes up the graph (score), and publishes the new states of the   *)
(* same nodes, which are what the next round starts from.                  *)
(*                                                                         *)
(* A unit is its own proof footprint: the workflow never fills scenario_id. *)
(***************************************************************************)
EXTENDS ScoreRules

CONSTANTS
    Anchors,      \* result rows of the first assessment, one per anchor key
    Kind,         \* [Anchors -> anchorType]
    Field,        \* [Anchors -> [Fields -> value]], the row's "source"
    None,         \* the value of a field that the row does not have
    ListPlace,    \* [Anchors -> Nat], place of the anchor in the lists of the result
    Ordinal,      \* [Anchors -> Nat], of the persisted node: by its anchorId
    Described,    \* anchors for which a description was found
    PreferredUnits, \* job units whose aggregation_role is "preferred"
    NumUnits,     \* units the feedback may be parsed into
    Judgements,   \* the judgements a model gives here
    BaseScores,   \* the states of the nodes that a round may start from
    MaxAsked      \* max_attempts of an evaluation activity

Units == 1..NumUnits

\* Every aggregation leads from a kind to one of a higher rank.
Rank == [work_unit_indicator |-> 1, project_pao |-> 1, project_indicator |-> 2,
         project_framework |-> 3, candidate_framework |-> 4,
         skill_claim |-> 1, job_capability_evidence_pair |-> 2,
         job_capability |-> 3, job_unit |-> 4]
Fields == {"project_id", "indicator_id", "framework_id", "job_capability_id",
           "job_unit_id", "skill_claim_id", "evidence_type", "evidence_id"}
AllJudgements == {"partial", "support", "verified", "not_support",
                  "weak_contradiction", "contradicted", "strong_contradiction"}

ASSUME TopologyConstants ==
    /\ IsFiniteSet(Anchors)
    /\ Kind \in [Anchors -> DOMAIN Rank]
    /\ DOMAIN Field = Anchors
    /\ {ListPlace, Ordinal} \subseteq [Anchors -> Nat]
    /\ Described \subseteq Anchors
    /\ NumUnits \in Nat
    /\ Judgements \subseteq AllJudgements
    /\ BaseScores \subseteq [Anchors -> 0..Full]
    /\ MaxAsked \in Nat \ {0}

VARIABLES
    place,    \* the step of the round
    parsed,   \* units with isCapabilityEvaluation
    onWork,   \* those of them with isExperienceRelated
    side,     \* the side whose anchors are being judged
    asked,    \* calls of its activity that ended with an exception
    call,     \* the requests it has made: none, the first, the repair too
    rows,     \* [pairs judged so far -> judgement]
    selected, \* {<<unit, anchor>>} kept for scoring
    masked,   \* {<<unit, anchor>>} hidden by a higher anchor of the path
    base,     \* [Anchors -> score] of the previous assessment
    score     \* [Anchors -> score] of this round's result

roundVars == <<place, parsed, onWork, side, asked, call, rows, selected, masked, base, score>>

TypeOK ==
    /\ place \in {"load", "parse", "evaluate", "select", "score", "published", "failed"}
    /\ parsed \subseteq Units
    /\ onWork \subseteq parsed
    /\ side \in {"experience", "job"}
    /\ asked \in 0..MaxAsked
    /\ call \in {"none", "answered", "repaired"}
    /\ DOMAIN rows \subseteq Units \X Anchors
    /\ \A x \in DOMAIN rows : rows[x] \in Judgements
    /\ selected \subseteq DOMAIN rows
    /\ masked \subseteq DOMAIN rows
    /\ base \in [Anchors -> 0..Full]
    /\ score \in [Anchors -> 0..Full]

-----------------------------------------------------------------------------
(* The frozen graph. *)

OfKind(k) == {a \in Anchors : Kind[a] = k}

\* _link_by_shared_fields: the index keeps the last parent of a key.
Linked(children, parents, fields) ==
    {e \in OfKind(children) \X OfKind(parents) :
        /\ \A f \in fields : Field[e[1]][f] # None /\ Field[e[1]][f] = Field[e[2]][f]
        /\ \A p \in OfKind(parents) :
              (\A f \in fields : Field[p][f] = Field[e[2]][f]) => ListPlace[p] <= ListPlace[e[2]]}

\* _link_skill_claims_to_pairs: only claims that a pair already used.
ClaimLinks ==
    {e \in OfKind("skill_claim") \X OfKind("job_capability_evidence_pair") :
        /\ Field[e[2]]["evidence_type"] = "skill_claim"
        /\ Field[e[1]]["skill_claim_id"] # None
        /\ Field[e[1]]["skill_claim_id"] = Field[e[2]]["evidence_id"]}

\* build_v1_topology_snapshot: <<child, parent>>.
Edges ==
    Linked("work_unit_indicator", "project_indicator", {"project_id", "indicator_id"})
    \cup Linked("project_pao", "project_indicator", {"project_id"})
    \cup Linked("project_indicator", "project_framework", {"project_id"})
    \cup Linked("project_framework", "candidate_framework", {"framework_id"})
    \cup ClaimLinks
    \cup Linked("job_capability_evidence_pair", "job_capability", {"job_capability_id"})
    \cup Linked("job_capability", "job_unit", {"job_unit_id"})

Children(a) == {c \in Anchors : <<c, a>> \in Edges}

Region(a) ==
    IF Kind[a] \in {"work_unit_indicator", "project_pao", "project_indicator",
                    "project_framework", "candidate_framework"}
    THEN "experience" ELSE "job"

\* Edges lead to a kind of a higher rank on the same side.
Higher(a) == {b \in Anchors : Region(b) = Region(a) /\ Rank[Kind[b]] > Rank[Kind[a]]}

\* The ancestors of a node (collect_ancestors): what every upwards closed set
\* with its parents has.
Ancestors == [a \in Anchors |->
    {b \in Higher(a) : \A S \in SUBSET Higher(a) :
        (\A e \in Edges : e[1] \in S \cup {a} => e[2] \in S) => b \in S}]

\* A pair is old evidence: no interview can be that evidence.
Eligible(a) == Kind[a] # "job_capability_evidence_pair"

\* The pairs that have to be judged on each side (_anchor_evaluation_plans).
Matrix(s) ==
    (IF s = "experience" THEN onWork ELSE parsed)
        \X {a \in Described : Eligible(a) /\ Region(a) = s}

-----------------------------------------------------------------------------
(* What the judgements do to a score. *)

Positive == {"partial", "support", "verified"}
Negative == {"weak_contradiction", "contradicted", "strong_contradiction"}

Observed == [partial |-> 6000, support |-> 7700, verified |-> 8700,
             weak_contradiction |-> 6000, contradicted |-> 3500, strong_contradiction |-> 0]
Pull == [partial |-> 40, support |-> 70, verified |-> 80,
         weak_contradiction |-> 25, contradicted |-> 40, strong_contradiction |-> 40]
Bonus == [partial |-> 2, support |-> 4, verified |-> 5]
MaxFall == 2500   \* POST_INTERVIEW_MAX_NEGATIVE_DELTA

\* apply_round_update, upwards: towards the support, and a bonus for
\* confirming what the score already says.
Rise(before, support, judgement) ==
    (Pull[judgement] * Most(0, support - before)) \div 100
    + (Bonus[judgement] * ((Least(before, support) * (Full - before)) \div Full)) \div 100

\* Variant: the fall of one round is not limited.
FallUnlimited(before, judgement) ==
    (Pull[judgement] * Most(0, before - Observed[judgement])) \div 100

\* apply_round_update, downwards.
Fall(before, judgement) ==
    Least(MaxFall, (Pull[judgement] * Most(0, before - Observed[judgement])) \div 100)

UnitsOn(a, kinds) == {x \in selected : x[2] = a /\ rows[x] \in kinds}

\* What was observed; of the positive ones up to three count (_support_score).
Seen(xs) == [x \in xs |-> Observed[rows[x]]]
Support(xs) == Supported(xs, Seen(xs), 4, 2)

Worst(xs) == CHOOSE x \in xs : \A y \in xs : Observed[rows[x]] <= Observed[rows[y]]

\* aggregate_target_round_results and apply_round_update for one anchor.
Direct(a) ==
    LET for == UnitsOn(a, Positive)
        against == UnitsOn(a, Negative)
        up == IF for = {} THEN 0 ELSE Rise(base[a], Support(for), rows[Best(for, Seen(for))])
        down == IF against = {} THEN 0 ELSE Fall(base[a], rows[Worst(against)])
    IN  Clip(base[a] + up - down) - base[a]

\* Variant: a node takes the mean of its children's scores for its own.
ScoresOfChildren ==
    LET change[a \in Anchors] ==
          LET below == Children(a)
              mean == IF below = {} THEN base[a]
                      ELSE Mean(below, [c \in below |-> base[c] + change[c]])
          IN  Clip(mean + Direct(a)) - base[a]
    IN  change

\* The changes of all nodes, children first: a parent changes by the mean of
\* its children's changes and by what was said of itself.
Changes ==
    LET change[a \in Anchors] == Clip(base[a] + Mean(Children(a), change) + Direct(a)) - base[a]
    IN  change

\* apply_updates_and_aggregate.
NewScores == [a \in Anchors |-> base[a] + Changes[a]]

-----------------------------------------------------------------------------
(* The assessment's own scores, from the roots of the graph. *)

Frameworks(of) ==
    LET row(id) == CHOOSE f \in OfKind("candidate_framework") : Field[f]["framework_id"] = id
    IN  [id \in {Field[f]["framework_id"] : f \in OfKind("candidate_framework")} |-> of[row(id)]]

Experience(of) == ExperienceScore(Frameworks(of))
JobFit(of) == JobScore(OfKind("job_unit") \ PreferredUnits, OfKind("job_unit") \cap PreferredUnits, of)

\* _project_topology_result.  Recommended is what the scores recommend, before
\* a critical gap caps it.
Sum(of) == Total(JobFit(of), Experience(of), EducationScore)
Recommended(of) == Level(Sum(of), JobFit(of), Experience(of))

-----------------------------------------------------------------------------
(* The steps of a round. *)

\* _load_topology_snapshot: the states that the previous assessment published.
Load ==
    /\ place = "load"
    /\ base' \in BaseScores /\ score' = base'
    /\ place' = "parse"
    /\ UNCHANGED <<parsed, onWork, side, asked, call, rows, selected, masked>>

\* parse_interview_units: what of the feedback is about a capability, and of
\* that about experience.  A parser that is given up leaves no such unit.
Parse ==
    /\ place = "parse"
    /\ \E us \in SUBSET Units : \E ws \in SUBSET us : parsed' = us /\ onWork' = ws
    /\ place' = "evaluate"
    /\ UNCHANGED <<side, asked, call, rows, selected, masked, base, score>>

Missing(s) == Matrix(s) \ DOMAIN rows

\* Any rows of the matrix, each with some judgement: rows with other ids,
\* unknown judgements or repeated pairs have been dropped (_validated_rows).
AnswersOn(ps) == UNION {[known -> Judgements] : known \in SUBSET ps}

Add(answer) ==
    rows' = [x \in DOMAIN rows \cup DOMAIN answer |->
                IF x \in DOMAIN rows THEN rows[x] ELSE answer[x]]

\* The first request of evaluate_anchor_batch; an unusable response is none.
Ask ==
    /\ place = "evaluate" /\ call = "none" /\ Matrix(side) # {}
    /\ \E answer \in AnswersOn(Matrix(side)) : Add(answer)
    /\ call' = "answered"
    /\ UNCHANGED <<place, parsed, onWork, side, asked, selected, masked, base, score>>

\* The one request for the missing pairs only.
Repair ==
    /\ place = "evaluate" /\ call = "answered" /\ Missing(side) # {}
    /\ \E answer \in AnswersOn(Missing(side)) : Add(answer)
    /\ call' = "repaired"
    /\ UNCHANGED <<place, parsed, onWork, side, asked, selected, masked, base, score>>

\* The activity raises; what it was told is lost with it.  It is run again
\* until its attempts are spent.
AskRaises ==
    /\ place = "evaluate" /\ Matrix(side) # {}
    /\ call = "none" \/ (call = "answered" /\ Missing(side) # {})
    /\ asked' = asked + 1
    /\ rows' = [x \in DOMAIN rows \ Matrix(side) |-> rows[x]]
    /\ call' = "none"
    /\ place' = IF asked' < MaxAsked THEN place ELSE "failed"
    /\ UNCHANGED <<parsed, onWork, side, selected, masked, base, score>>

\* Anchors there are, but nobody can say what one of them means.
NoSemantics(s) ==
    /\ (IF s = "experience" THEN onWork ELSE parsed) # {}
    /\ \E a \in Anchors : Eligible(a) /\ Region(a) = s
    /\ Matrix(s) = {}

SideDone == \/ Matrix(side) = {} \/ call = "repaired"
            \/ call = "answered" /\ Missing(side) = {}

\* The experience side has its answers; the job side follows.
NextSide ==
    /\ place = "evaluate" /\ side = "experience" /\ parsed # {} /\ SideDone
    /\ place' = IF NoSemantics(side) THEN "failed" ELSE place
    /\ side' = "job"
    /\ asked' = 0
    /\ call' = "none"
    /\ UNCHANGED <<parsed, onWork, rows, selected, masked, base, score>>

\* Variant: what the repair left open is not looked at.
CoveredSomewhere == DOMAIN rows # {}

\* Every pair that was asked for has its judgement.
Covered ==
    /\ Matrix("experience") \cup Matrix("job") # {}
    /\ Missing("experience") \cup Missing("job") = {}

\* evaluate ends: an incomplete matrix is not scored.
EndEvaluation ==
    /\ place = "evaluate"
    /\ \/ parsed = {} /\ place' = "select"
       \/ /\ parsed # {} /\ side = "job" /\ SideDone
          /\ place' = IF ~NoSemantics("job") /\ Covered THEN "select" ELSE "failed"
    /\ UNCHANGED <<parsed, onWork, side, asked, call, rows, selected, masked, base, score>>

Candidates == {x \in DOMAIN rows : rows[x] # "not_support"}
ToSelect == Candidates \ (selected \cup masked)

\* The fewer ancestors the higher; the ordinal only orders one level.
First(x, y) ==
    LET up(z) == Cardinality(Ancestors[z[2]])
    IN  \/ x[1] < y[1]
        \/ x[1] = y[1] /\ up(x) < up(y)
        \/ x[1] = y[1] /\ up(x) = up(y) /\ Ordinal[x[2]] <= Ordinal[y[2]]

\* Variant: only the parents of an anchor hide it.
HiddenByParent(x) ==
    \E y \in selected : y[1] = x[1] /\ <<x[2], y[2]>> \in Edges

Hidden(x) ==
    \E y \in selected : /\ y[1] = x[1]
                        /\ Region(y[2]) = Region(x[2])
                        /\ y[2] \in Ancestors[x[2]]

\* One turn of the loop of select_non_overlapping_anchors.
Select ==
    /\ place = "select"
    /\ \E x \in ToSelect :
          /\ \A y \in ToSelect : First(x, y)
          /\ IF Hidden(x)
             THEN masked' = masked \cup {x} /\ UNCHANGED selected
             ELSE selected' = selected \cup {x} /\ UNCHANGED masked
    /\ UNCHANGED <<place, parsed, onWork, side, asked, call, rows, base, score>>

\* derive_anchor_updates and apply_updates_and_aggregate.
Score ==
    /\ place = "select" /\ ToSelect = {}
    /\ IF Candidates # {} /\ selected = {}
       THEN place' = "failed" /\ UNCHANGED score
       ELSE place' = "score" /\ score' = NewScores
    /\ UNCHANGED <<parsed, onWork, side, asked, call, rows, selected, masked, base>>

\* persist_successor: new states of the same nodes.
PublishRound ==
    /\ place = "score"
    /\ place' = "published"
    /\ UNCHANGED <<parsed, onWork, side, asked, call, rows, selected, masked, base, score>>

\* A person starts the failed round again: a new run, nothing of the old one.
StartAgain ==
    /\ place = "failed"
    /\ place' = "parse"
    /\ parsed' = {} /\ onWork' = {}
    /\ side' = "experience" /\ asked' = 0 /\ call' = "none"
    /\ rows' = [x \in {} |-> "not_support"]
    /\ selected' = {} /\ masked' = {}
    /\ UNCHANGED <<base, score>>

RoundInit ==
    /\ place = "load"
    /\ parsed = {} /\ onWork = {}
    /\ side = "experience" /\ asked = 0 /\ call = "none"
    /\ rows = [x \in {} |-> "not_support"]
    /\ selected = {} /\ masked = {}
    /\ base = [a \in Anchors |-> 0]
    /\ score = base

RoundNext ==
    \/ Load \/ Parse \/ Ask \/ Repair \/ AskRaises \/ NextSide \/ EndEvaluation
    \/ Select \/ Score \/ PublishRound \/ StartAgain

RoundSpec == RoundInit /\ [][RoundNext]_roundVars

-----------------------------------------------------------------------------

Scored == place \in {"score", "published"}

\* A judgement is never turned into a score while another one that was asked
\* for is missing: neither a partial answer, nor a repair that brings only a
\* part, nor an attempt that is thrown away leaves a gap behind
\* (evaluate_anchor_batch and the coverage check of evaluate).
MatrixIsComplete ==
    place \in {"select", "score", "published"} /\ parsed # {} =>
        DOMAIN rows = Matrix("experience") \cup Matrix("job")

\* One unit of feedback is counted once on every path of the graph, whatever
\* level its anchors are at and whatever their order in the lists: of two
\* anchors of which one is above the other the higher one is kept.  And it is
\* not lost: what is not kept is hidden by something that is.
PathsCountOnce ==
    /\ \A x, y \in selected : x[1] = y[1] => y[2] \notin Ancestors[x[2]]
    /\ \A x \in masked : \E y \in selected : y[1] = x[1] /\ y[2] \in Ancestors[x[2]]
    /\ Scored => selected \cup masked = Candidates

\* The units of feedback that reach an anchor: propagated_refs.
Charged(a) ==
    {u \in Units : \E x \in selected : x[1] = u /\ (x[2] = a \/ a \in Ancestors[x[2]])}

\* A score falls by at most a quarter for each unit of feedback it is charged
\* to, over all the anchors and levels the unit reaches; and what is charged
\* to no unit keeps the score of the previous assessment.
ChangesAreAccounted ==
    Scored => \A a \in Anchors :
        /\ base[a] - score[a] <= MaxFall * Cardinality(Charged(a))
        /\ Charged(a) = {} => score[a] = base[a]

\* Praise alone lowers no score, no total and no recommendation, blame alone
\* raises none: through confirmation bonuses, means over children, clipping
\* and the weights of the total.
DirectionKept ==
    Scored =>
        /\ (\A x \in selected : rows[x] \in Positive) =>
              /\ \A a \in Anchors : score[a] >= base[a]
              /\ Sum(score) >= Sum(base) /\ Recommended(score) >= Recommended(base)
        /\ (\A x \in selected : rows[x] \in Negative) =>
              /\ \A a \in Anchors : score[a] <= base[a]
              /\ Sum(score) <= Sum(base) /\ Recommended(score) <= Recommended(base)
=============================================================================
