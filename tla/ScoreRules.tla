----------------------------- MODULE ScoreRules -----------------------------
(***************************************************************************)
(* How scores are put together: what the first assessment and the rounds   *)
(* after interviews have in common.  Scores are integers in units of       *)
(* 1/10000, rounded down after each operation where the code keeps         *)
(* floating point and rounds at the end.                                   *)
(***************************************************************************)
EXTENDS Integers, FiniteSets, FiniteSetsExt

CONSTANT EducationScore   \* of the candidate's degree, from the resume alone

Full == 10000

ASSUME EducationConstant == EducationScore \in 0..Full

Least(a, b) == IF a < b THEN a ELSE b
Most(a, b)  == IF a < b THEN b ELSE a
Clip(x)     == Most(0, Least(Full, x))

SumOf(xs, of) == MapThenSumSet(LAMBDA x : of[x], xs)
Mean(xs, of) == IF xs = {} THEN 0 ELSE SumOf(xs, of) \div Cardinality(xs)

\* The highest score; nothing is worth nothing.
Top(xs, of) == IF xs = {} THEN 0 ELSE Max({of[x] : x \in xs})

\* One that has it, and all but that one: the code sorts and takes from the front.
Best(xs, of) == LET top == Top(xs, of) IN CHOOSE x \in xs : of[x] = top
Others(xs, of) == LET best == Best(xs, of) IN {x \in xs : x # best}

\* The best of up to three, and a little (percents) for the others.
Supported(xs, of, second, third) ==
    LET others == Others(xs, of)
    IN  Least(Full, Top(xs, of) + (second * Top(others, of)) \div 100
                                + (third * Top(Others(others, of), of)) \div 100)

FrameworkWeight == [problem_context |-> 20, solution_execution |-> 50, outcome_value |-> 30]
TopWeight == <<50, 30, 20>>

\* aggregate_resume_score: the best of the frameworks and their weighted mean.
ExperienceScore(of) ==
    LET share(f) == IF f \in DOMAIN of THEN FrameworkWeight[f] * of[f] ELSE 0
        weighted == (share("problem_context") + share("solution_execution")
                     + share("outcome_value")) \div 100
    IN  Least(Full, (45 * Top(DOMAIN of, of) + 55 * weighted) \div 100)

\* _aggregate_job: the required units decide, preferred ones add a little.
JobScore(required, preferred, of) ==
    LET weight == CASE Cardinality(required) = 1 -> TopWeight[1]
                    [] Cardinality(required) = 2 -> TopWeight[1] + TopWeight[2]
                    [] OTHER -> TopWeight[1] + TopWeight[2] + TopWeight[3]
        others == Others(required, of)
        top == (TopWeight[1] * Top(required, of) + TopWeight[2] * Top(others, of)
                + TopWeight[3] * Top(Others(others, of), of)) \div weight
        base == (top + Mean(required, of)) \div 2
    IN  IF required = {} THEN 0
        ELSE Least(Full, base + ((Mean(preferred, of) * (Full - base)) \div Full) \div 10)

\* score_candidate_profile
Total(job, experience, education) == (50 * job + 35 * experience + 15 * education) \div 100

\* compute_recommendation_level, from 1 (strongly not recommended) to 5, as far as
\* the scores decide: a weak core capability makes 3 of 4 and 5 where it is shown.
Level(total, job, experience) ==
    IF total < 4000 \/ (job < 2500 /\ total < 5500) THEN 1
    ELSE IF total < 5500 \/ (job < 4000 /\ experience < 6500) THEN 2
    ELSE IF total >= 8000 /\ job >= 7200 /\ experience >= 8500 THEN 5
    ELSE IF total >= 6800 /\ job >= 5500 /\ experience >= 6500 THEN 4
    ELSE 3
=============================================================================
