---------------------------- MODULE MCAssessment ----------------------------
(***************************************************************************)
(* The three assessments that an application goes through: hard screening, *)
(* the first scoring, the rounds after interviews.  Each starts from what  *)
(* has been frozen for it, so that one at a time is looked at here: which  *)
(* names it.  (Screening and Interviews have what leads from one to the    *)
(* next.)                                                                  *)
(***************************************************************************)
EXTENDS HardScreening, FirstScoring, TopologyScoring

VARIABLE which

-----------------------------------------------------------------------------
(* Hard screening: a degree, a word, a rule that a model judges, and one of an
   older policy whose value nothing can be compared with. *)

MCRules == {"degree", "word", "semantic", "broken"}
MCResume(d, w, s) == [r \in MCRules |-> IF r = "degree" THEN d ELSE IF r = "word" THEN w
                                        ELSE IF r = "semantic" THEN s ELSE "met"]

MCContents == {{}, {"degree", "semantic"}, {"degree", "word", "broken"}}
MCResumes == {MCResume("met", "met", "met"), MCResume("unmet", "unmet", "absent"),
              MCResume("absent", "met", "met"), MCResume("unclear", "met", "unclear")}

-----------------------------------------------------------------------------
(* The first scoring: four projects, one of two units and one of none, and two claims of one
   statement, for a job with a required and a preferred unit. *)

MCOrder == [w1 |-> 4, w2 |-> 5, w3 |-> 6, w4 |-> 7,
            p1 |-> 1, p2 |-> 2, p3 |-> 3, p4 |-> 9, c |-> 8, d |-> 10]
MCStatementOf == [c |-> "s", d |-> "s"]
Core == [role |-> "core", focus |-> {"i1", "i3"}]
Supporting == [role |-> "supporting", focus |-> {}]
MCExtractions ==
    {[u1 |-> <<Supporting, Core>>, u2 |-> <<>>],
     [u1 |-> <<[Core EXCEPT !.role = "supporting"]>>, u2 |-> <<Supporting>>]}
Says(unit, whole) == [unit |-> [i \in {"i1", "i2", "i3", "i4"} |-> unit],
                      whole |-> [i \in {"i1", "i2", "i3", "i4"} |-> whole]]
MCAnswer == [w1 |-> 5, w2 |-> 3, w3 |-> 5, w4 |-> 2,
             p1 |-> 3, p2 |-> 5, p3 |-> 3, p4 |-> 0, c |-> 2, d |-> 4]

MCProjectOf == [w1 |-> "p1", w2 |-> "p1", w3 |-> "p2", w4 |-> "p3"]
MCFrameworkOf == [i1 |-> "solution_execution", i2 |-> "solution_execution",
                  i3 |-> "problem_context", i4 |-> "outcome_value"]
MCUnitRole == [u1 |-> "required", u2 |-> "preferred"]
MCAnswers == {MCAnswer}
MCVerdicts == [p1 |-> {Says(5, 5), Says(4, 2)}, p2 |-> {Says(5, 5)},
               p3 |-> {Says(2, 2), Says(3, 2)}, p4 |-> {}]

-----------------------------------------------------------------------------
(* The rounds: one project of two indicators of different frameworks, and a job
   with a required and a preferred unit. *)

MCAnchors == {"wu", "pi1", "pi2", "pf1", "pf2", "cf1", "cf2", "claim", "pair", "cap", "ju1", "ju2"}
MCKind == [wu |-> "work_unit_indicator", pi1 |-> "project_indicator",
           pi2 |-> "project_indicator", pf1 |-> "project_framework",
           pf2 |-> "project_framework", cf1 |-> "candidate_framework",
           cf2 |-> "candidate_framework", claim |-> "skill_claim",
           pair |-> "job_capability_evidence_pair", cap |-> "job_capability",
           ju1 |-> "job_unit", ju2 |-> "job_unit"]
Row(fs) == [f \in Fields |-> IF f \in DOMAIN fs THEN fs[f] ELSE None]
MCField ==
    [wu  |-> Row([project_id |-> "p", indicator_id |-> "i1"]),
     pi1 |-> Row([project_id |-> "p", indicator_id |-> "i1"]),
     pi2 |-> Row([project_id |-> "p", indicator_id |-> "i2"]),
     pf1 |-> Row([project_id |-> "p", framework_id |-> "solution_execution"]),
     pf2 |-> Row([project_id |-> "p", framework_id |-> "outcome_value"]),
     cf1 |-> Row([framework_id |-> "solution_execution"]),
     cf2 |-> Row([framework_id |-> "outcome_value"]),
     claim |-> Row([skill_claim_id |-> "c"]),
     pair |-> Row([evidence_type |-> "skill_claim", evidence_id |-> "c",
                   job_capability_id |-> "k"]),
     cap |-> Row([job_capability_id |-> "k", job_unit_id |-> "u1"]),
     ju1 |-> Row([job_unit_id |-> "u1"]),
     ju2 |-> Row([job_unit_id |-> "u2"])]
\* The order of the lists, and that of the ids: a job unit comes after its
\* capabilities.
MCListPlace == [wu |-> 1, pi1 |-> 3, pi2 |-> 4, pf1 |-> 5, pf2 |-> 6, cf1 |-> 9,
                cf2 |-> 10, claim |-> 12, pair |-> 2, cap |-> 7, ju1 |-> 8, ju2 |-> 11]
MCOrdinal == [cf2 |-> 1, cf1 |-> 2, cap |-> 3, pair |-> 4, ju1 |-> 5, ju2 |-> 6, pf2 |-> 7,
              pf1 |-> 8, pi1 |-> 9, pi2 |-> 10, claim |-> 11, wu |-> 12]
MCDescribed == {"wu", "pf2", "cap"}
MCPreferred == {"ju2"}
\* Nothing, everything, a good candidate, and a mixed one.
MCBases ==
    {[a \in MCAnchors |-> 0], [a \in MCAnchors |-> Full], [a \in MCAnchors |-> 7700],
     [a \in MCAnchors |-> IF a \in {"wu", "pf1", "cap", "cf1"} THEN 3500 ELSE 6000]}

-----------------------------------------------------------------------------

\* Hard screening while another machine is looked at.
HardRests == HardInit /\ policies = <<[enabled |-> FALSE, rules |-> {}]>> /\ resume = Unreadable

MCInit ==
    /\ which \in {"hard", "first", "rounds"}
    /\ HardInit /\ FirstInit /\ RoundInit
    /\ which # "hard" => HardRests

MCNext ==
    \/ which = "hard" /\ HardNext /\ UNCHANGED <<which, firstVars, roundVars>>
    \/ which = "first" /\ FirstNext /\ UNCHANGED <<which, hardVars, roundVars>>
    \/ which = "rounds" /\ RoundNext /\ UNCHANGED <<which, hardVars, firstVars>>

MCSpec == MCInit /\ [][MCNext]_<<which, hardVars, firstVars, roundVars>>
=============================================================================
