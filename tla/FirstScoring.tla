---------------------------- MODULE FirstScoring ----------------------------
(***************************************************************************)
(* The first assessment of a candidate: what a model says of every project *)
(* of the resume becomes the experience score; what it says of every pair  *)
(* of a capability of the job and a piece of evidence becomes the job      *)
(* score.  Every project and every batch of pairs is an activity (see      *)
(* ActivityRunner): it is answered, in part or not at all, or all its      *)
(* attempts end with an exception and a result that says so stands in.     *)
(*                                                                         *)
(* All units of a project get the same levels here, and all capabilities   *)
(* the same levels for one piece of evidence; Verdicts and Answers bound   *)
(* what a model may say.                                                   *)
(***************************************************************************)
EXTENDS ScoreRules, Sequences

CONSTANTS
    Projects, WorkUnits,
    ProjectOf,    \* work unit |-> its project
    Claims,       \* skill claims of the resume
    StatementOf,  \* claim |-> the statement of the resume it is taken from
    Order,        \* evidence |-> place of its id in the order of ids
    Indicators, FrameworkOf, \* of the preset model
    JobUnits,
    UnitRole,     \* job unit |-> its scoring role
    Extractions,  \* lists of capabilities that a model may extract: [JobUnits -> ...]
    Verdicts,     \* project |-> what a model may say of it
    Answers       \* what a model may say of evidence: [Evidence -> level]

\* A level that a model did not give, or gave where it is not allowed.
Unassessed == 9

Evidence == WorkUnits \cup Projects \cup Claims
Capability == [role : {"core", "supporting"}, focus : SUBSET Indicators]

ASSUME FirstScoringConstants ==
    /\ WorkUnits \cap Projects = {}   \* ids of different kinds differ
    /\ Claims \cap (WorkUnits \cup Projects) = {}
    /\ \A c \in Claims : StatementOf[c] \notin WorkUnits
    /\ IsFiniteSet(Indicators)
    /\ ProjectOf \in [WorkUnits -> Projects]
    /\ Order \in [Evidence -> Nat]
    /\ FrameworkOf \in [Indicators -> DOMAIN FrameworkWeight]
    /\ UnitRole \in [JobUnits -> {"required", "preferred"}]
    /\ Extractions \subseteq [JobUnits -> Seq(Capability)]
    /\ Verdicts \in [Projects -> SUBSET [unit : [Indicators -> 0..5], whole : [Indicators -> 0..5]]]
    /\ Answers \subseteq [Evidence -> 0..5 \cup {Unassessed}]

VARIABLES
    at,           \* the step
    capabilities, \* job unit |-> its capabilities
    project,      \* project |-> its assessment
    kept,         \* the projects that are not filtered out
    levels,       \* type of evidence |-> evidence |-> level, once it is answered
    proofs,       \* capability |-> the evidence its score is made of
    result        \* what is published

firstVars == <<at, capabilities, project, kept, levels, proofs, result>>

Types == {"work_unit", "project_evidence", "skill_claim"}
NoAssessment ==
    [status |-> "pending", degraded |-> FALSE, units |-> {}, heard |-> {},
     unit |-> [i \in Indicators |-> 0], score |-> [i \in Indicators |-> 0]]
NoResult == [experience |-> 0, job |-> 0, level |-> 0]

FirstInit ==
    /\ at = "profile"
    /\ capabilities = [u \in JobUnits |-> <<>>]
    /\ project = [p \in Projects |-> NoAssessment]
    /\ kept = {}
    /\ levels = [t \in {} |-> {}]
    /\ proofs = [c \in {} |-> <<>>]
    /\ result = NoResult

-----------------------------------------------------------------------------
(* The capabilities of the job. *)

\* _fallback_capabilities
Fallback(u) ==
    <<[role |-> IF UnitRole[u] = "preferred" THEN "supporting" ELSE "core", focus |-> {}]>>

\* extract_job_unit_capabilities_batch: of one unit; none of the rows may be valid.
Extracted(u, rows, invalid) ==
    IF rows = <<>> THEN IF invalid \/ UnitRole[u] = "required" THEN Fallback(u) ELSE <<>>
    ELSE IF UnitRole[u] = "required" /\ \A i \in DOMAIN rows : rows[i].role # "core"
         THEN [rows EXCEPT ![1].role = "core"]
         ELSE rows

ExtractCapabilities ==
    /\ at = "profile"
    /\ \E answer \in Extractions, invalid \in BOOLEAN :
         capabilities' = [u \in JobUnits |-> Extracted(u, answer[u], invalid)]
    /\ at' = "experience"
    /\ UNCHANGED <<project, kept, levels, proofs, result>>

-----------------------------------------------------------------------------
(* The experience score. *)

LevelScore == [l \in 0..5 |-> <<0, 3500, 6000, 7700, 8700, 10000>>[l + 1]]

UnitsOf(p) == {w \in WorkUnits : ProjectOf[w] = p}
Assess(p, a) ==
    /\ at = "experience" /\ project[p].status = "pending"
    /\ project' = [project EXCEPT ![p] = a]
    /\ UNCHANGED <<at, capabilities, kept, levels, proofs, result>>

\* aggregate_project_indicators: what was said of up to three units, and of the
\* project as a whole.
IndicatorScore(heard, unit, whole) ==
    LET local == [w \in heard |-> LevelScore[unit]]
    IN  Least(Full, (40 * Supported(heard, local, 3, 2) + 60 * LevelScore[whole]) \div 100)

\* assess_resume_project: of units that the answer leaves out nothing is known;
\* without units there is nothing to ask (_skipped_project_assessment).
AssessProject(p) ==
    \E v \in Verdicts[p], heard \in SUBSET UnitsOf(p), answered \in BOOLEAN :
        LET unit == [i \in Indicators |-> IF heard # {} THEN v.unit[i] ELSE 0]
            whole == [i \in Indicators |-> IF answered THEN v.whole[i] ELSE 0]
        IN  /\ UnitsOf(p) # {}
            /\ Assess(p, [status |-> "assessed", degraded |-> heard # UnitsOf(p) \/ ~answered,
                          units |-> UnitsOf(p), heard |-> heard, unit |-> unit,
                          score |-> [i \in Indicators |->
                                       IndicatorScore(heard, unit[i], whole[i])]])
SkipProject(p) ==
    UnitsOf(p) = {} /\ Assess(p, [NoAssessment EXCEPT !.status = "skipped", !.degraded = TRUE])

\* build_unassessed_resume_project
ProjectExhausted(p) ==
    Assess(p, [NoAssessment EXCEPT !.status = "unassessed", !.degraded = TRUE])

\* aggregate_project_frameworks and hierarchical_score
FrameworkScore(p, f) ==
    LET is == {i \in Indicators : FrameworkOf[i] = f}
        score == project[p].score
        best == Top(is, score)
        others == Cardinality(is) - 1
        active == Cardinality({i \in is : score[i] > 0})
    IN  IF active = 0 THEN 0
        ELSE IF others = 0 THEN best
        ELSE Least(Full, (80 * best + (8 * best * (active - 1)) \div others
                          + 12 * Mean(Others(is, score), score)) \div 100)

\* _project_score_points: only of projects that were assessed in full.
Complete(p) == project[p].status = "assessed" /\ ~project[p].degraded
Points(p) ==
    Mean(DOMAIN FrameworkWeight, [f \in DOMAIN FrameworkWeight |-> FrameworkScore(p, f)])

MinStable == 2   \* MIN_STABLE_HIGH_PROJECTS
MinGap == 2500   \* LOW_SCORE_OUTLIER_GAP_POINTS

\* Variant: what is far below the best project is removed.
FarFromBest ==
    LET points == [p \in {q \in Projects : Complete(q)} |-> Points(p)]
    IN  {p \in Projects : Complete(p) => \A q \in DOMAIN points : points[q] - points[p] < MinGap}

\* _filter_low_score_projects: the tail below the widest gap leaves, the shorter
\* one of two.  A gap is the one below the projects that are as good as p.
Kept ==
    LET complete == {p \in Projects : Complete(p)}
        points == [p \in complete |-> Points(p)]
        below(p) == {q \in complete : points[q] < points[p]}
        gap == [p \in complete |-> points[p] - Top(below(p), points)]
        splits == {p \in complete : /\ Cardinality(complete \ below(p)) >= MinStable
                                    /\ below(p) # {} /\ gap[p] >= MinGap}
        split == CHOOSE p \in splits : \A q \in splits :
                    gap[p] > gap[q] \/ (gap[p] = gap[q] /\ points[p] <= points[q])
    IN  IF Cardinality(complete) < 3 \/ splits = {} THEN Projects ELSE Projects \ below(split)

\* assemble_resume_experience
AssembleExperience ==
    /\ at = "experience" /\ \A p \in Projects : project[p].status # "pending"
    /\ kept' = Kept
    /\ at' = "pairs"
    /\ UNCHANGED <<capabilities, project, levels, proofs, result>>

\* aggregate_candidate_frameworks: the three best projects.
CandidateFrameworks ==
    [f \in DOMAIN FrameworkWeight |->
        LET assessed == {p \in kept : project[p].status = "assessed"}
        IN  Supported(assessed, [p \in assessed |-> FrameworkScore(p, f)], 6, 4)]

-----------------------------------------------------------------------------
(* The job score. *)

\* build_scoring_evidence: what the filter removed is no evidence either.
EvidenceOf(type) ==
    CASE type = "work_unit" -> UNION {project[p].units : p \in kept}
      [] type = "project_evidence" -> {p \in kept : project[p].units # {}}
      [] type = "skill_claim" -> Claims

Allowed(type, l) == l = Unassessed \/ type # "skill_claim" \/ l <= 2

\* score_job_capability_pair_activity, and fallback_job_capability_pair_activity
\* when its attempts are spent.  A claim is worth two levels at most.
ScorePairs(type) ==
    /\ at = "pairs" /\ type \notin DOMAIN levels
    /\ \E answer \in Answers \cup {[e \in Evidence |-> Unassessed]} :
         levels' = [t \in DOMAIN levels \cup {type} |->
                      IF t \in DOMAIN levels THEN levels[t]
                      ELSE [e \in EvidenceOf(type) |->
                              IF Allowed(type, answer[e]) THEN answer[e] ELSE Unassessed]]
    /\ UNCHANGED <<at, capabilities, project, kept, proofs, result>>

AllCapabilities == UNION {{<<u, n>> : n \in DOMAIN capabilities[u]} : u \in JobUnits}
Definition(c) == capabilities[c[1]][c[2]]

\* _evidence_results: pairs that were not assessed, or found irrelevant, are none.
Relevant == {e \in UNION {EvidenceOf(t) : t \in DOMAIN levels} :
               \E t \in DOMAIN levels : e \in EvidenceOf(t) /\ levels[t][e] \in 1..5}
LevelOf(e) == LET t == CHOOSE t \in DOMAIN levels : e \in EvidenceOf(t) IN levels[t][e]

\* _quality_score
Quality(c, e) ==
    LET focus == Definition(c).focus
        score == [i \in focus |->
                    IF e \in Projects THEN project[e].score[i]
                    ELSE IF e \in project[ProjectOf[e]].heard
                         THEN LevelScore[project[ProjectOf[e]].unit[i]] ELSE 0]
    IN  Supported(focus, score, 5, 3)

PairScore(c, e) ==
    IF e \in Claims \/ Definition(c).focus = {} THEN LevelScore[LevelOf(e)]
    ELSE (LevelScore[LevelOf(e)] * (4000 + (60 * Quality(c, e)) \div 100)) \div Full

\* Variant: a project is evidence of its own.
FootprintById(e) == {e}

\* The footprint in _aggregate_capabilities: a project stands for all its units,
\* a claim for its statement.
Footprint(e) ==
    IF e \in Projects THEN project[e].units
    ELSE IF e \in Claims THEN {StatementOf[e]} ELSE {e}

Overlap(e, f) == Footprint(e) \cap Footprint(f) # {}

\* The first in the order in which pairs are tried, and what is left after e.
Strongest(c, es) ==
    CHOOSE e \in es : \A f \in es :
        \/ PairScore(c, e) > PairScore(c, f)
        \/ PairScore(c, e) = PairScore(c, f) /\ Order[e] <= Order[f]
Apart(es, e) == {f \in es \ {e} : ~Overlap(e, f)}

\* The best pairs of a capability that share no work, three at most.
Proofs(c) ==
    LET first == Strongest(c, Relevant)
        apart == Apart(Relevant, first)
        second == Strongest(c, apart)
        more == Apart(apart, second)
    IN  IF Relevant = {} THEN <<>>
        ELSE IF apart = {} THEN <<first>>
        ELSE IF more = {} THEN <<first, second>>
        ELSE <<first, second, Strongest(c, more)>>

\* _supplement_weight: evidence of another project counts twice as much.
OfProject(e) == IF e \in WorkUnits THEN ProjectOf[e] ELSE e
Supplement(first, e, n) ==
    IF {first, e} \cap Claims = {} /\ OfProject(first) # OfProject(e)
    THEN <<6, 4>>[n] ELSE <<3, 2>>[n]

\* _aggregate_capabilities
CapabilityScore(c) ==
    LET s == proofs[c]
        more(n) == IF Len(s) <= n THEN 0
                   ELSE (Supplement(s[1], s[n + 1], n) * PairScore(c, s[n + 1])) \div 100
    IN  IF s = <<>> THEN 0 ELSE Least(Full, PairScore(c, s[1]) + more(1) + more(2))

\* _core_score
CoreScore(cs, of) ==
    LET top == IF Cardinality(cs) = 1 THEN Top(cs, of)
               ELSE (65 * Top(cs, of) + 35 * Top(Others(cs, of), of)) \div 100
    IN  (top + Mean(cs, of)) \div 2

\* _aggregate_job_units
UnitScore(u) ==
    LET cs == {c \in AllCapabilities : c[1] = u}
        score == [c \in cs |-> CapabilityScore(c)]
        core == {c \in cs : Definition(c).role = "core"}
        base == CoreScore(core, score)
        supporting == Mean(cs \ core, score)
    IN  IF core = {} THEN supporting
        ELSE Least(Full, base + (15 * ((supporting * (Full - base)) \div Full)) \div 100)

\* assemble_job_capability_pair_activities
AssembleJob ==
    /\ at = "pairs" /\ DOMAIN levels = Types
    /\ proofs' = [c \in AllCapabilities |-> Proofs(c)]
    /\ at' = "core"
    /\ UNCHANGED <<capabilities, project, kept, levels, result>>

\* An error that a model's failure does not explain ends the run.
ScoringFails ==
    /\ at \in {"experience", "pairs"}
    /\ at' = "failed"
    /\ UNCHANGED <<capabilities, project, kept, levels, proofs, result>>

\* assemble_screening_core and its publication
PublishFirst ==
    LET units(role) == {u \in JobUnits : UnitRole[u] = role /\ capabilities[u] # <<>>}
        job == JobScore(units("required"), units("preferred"), [u \in JobUnits |-> UnitScore(u)])
        experience == ExperienceScore(CandidateFrameworks)
    IN  /\ at = "core"
        /\ result' = [experience |-> experience, job |-> job,
                      level |-> Level(Total(job, experience, EducationScore), job, experience)]
        /\ at' = "published"
        /\ UNCHANGED <<capabilities, project, kept, levels, proofs>>

FirstNext ==
    \/ ExtractCapabilities \/ AssembleExperience \/ AssembleJob \/ PublishFirst \/ ScoringFails
    \/ \E p \in Projects : AssessProject(p) \/ SkipProject(p) \/ ProjectExhausted(p)
    \/ \E t \in Types : ScorePairs(t)

FirstSpec == FirstInit /\ [][FirstNext]_firstVars

-----------------------------------------------------------------------------

Work(e) ==
    IF e \in Projects THEN UnitsOf(e) ELSE IF e \in Claims THEN {StatementOf[e]} ELSE {e}
Bests(c) == {proofs[c][n] : n \in DOMAIN proofs[c]}

\* Work is counted once in the score of a capability: its proofs share no work
\* unit and no statement, whether they are units, whole projects or claims, and none comes
\* from a project that was filtered out or never assessed.  What is left out is
\* no better than a proof that covers its work, or there are three better ones
\* (_aggregate_capabilities).
ProofsAreIndependent ==
    at \in {"core", "published"} => \A c \in AllCapabilities :
        /\ \A e, f \in Bests(c) : e # f => Work(e) \cap Work(f) = {}
        /\ \A e \in Bests(c) \ Claims :
             OfProject(e) \in kept /\ project[OfProject(e)].status = "assessed"
        /\ \A e \in Relevant \ Bests(c) :
             \/ \E f \in Bests(c) : Overlap(e, f) /\ PairScore(c, f) >= PairScore(c, e)
             \/ Cardinality(Bests(c)) = 3
                /\ \A f \in Bests(c) : PairScore(c, f) >= PairScore(c, e)

\* Only a tail is removed: every project that is filtered out was assessed in
\* full and is a quarter of the scale below every other one that was, of which
\* there are two at least.  A project that a failure touched is never removed
\* (_filter_low_score_projects).
TailIsSeparated ==
    at \in {"pairs", "core", "published"} => \A p \in Projects \ kept :
        /\ Complete(p)
        /\ \A q \in kept : Complete(q) => Points(q) - Points(p) >= MinGap
        /\ Cardinality({q \in kept : Complete(q)}) >= MinStable
=============================================================================
