----------------------------- MODULE HealthScore -----------------------------
(***************************************************************************)
(* The health score that the scheduler's job computes of a customer's      *)
(* stored events (backend/app/application/jobs/health_score.py), beside    *)
(* the thresholds of the alerts worker (backend/workers/alerts.py).        *)
(***************************************************************************)
EXTENDS Integers

\* What the job reads of a customer: whether there was a meeting and a usage
\* event in 30 days, the tickets in 30 days, any event in 14 days.
Activity == [meeting : BOOLEAN, usage : BOOLEAN, tickets : Nat, recent : BOOLEAN]

Points(a) ==
    70 + (IF a.meeting THEN 10 ELSE 0) + (IF a.usage THEN 10 ELSE 0)
       - 5 * a.tickets - (IF a.recent THEN 0 ELSE 10)

Score(a) == IF Points(a) < 0 THEN 0 ELSE IF Points(a) > 100 THEN 100 ELSE Points(a)

\* HEALTH_SCORE_AT_RISK
AtRisk(a) == Score(a) < 40

==============================================================================
