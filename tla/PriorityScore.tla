---------------------------- MODULE PriorityScore ----------------------------
(***************************************************************************)
(* The alert priority score v1, services/dataplane/src/dataplane/scoring.py:*)
(* pure functions of the rule severity, the severity the AI triage gave (or *)
(* Absent), the occurrence count and the status of the affected agent.      *)
(***************************************************************************)
EXTENDS Integers, Sequences

SEVERITIES == <<"low", "medium", "high", "critical">>

Severity == {"low", "medium", "high", "critical"}

\* ai_severity is None: triage has not completed.
Absent == "absent"

AGENT_STATUSES == {"healthy", "enrolled", "offline", "revoked", "none"}

TIER == [low |-> 0, medium |-> 1, high |-> 2, critical |-> 3]

POINTS == [low |-> 30, medium |-> 55, high |-> 80, critical |-> 100]

severity_tier(s) == TIER[s]

severity_points(s) == POINTS[s]

Higher(m, n) == IF m >= n THEN m ELSE n

\* Mutant of effective_ai_severity: the clamp is dropped.
effective_ai_severity_mutant(rule, ai) == ai

\* The AI may raise the severity freely and lower it by at most one tier.
effective_ai_severity(rule, ai) ==
    SEVERITIES[Higher(severity_tier(ai), severity_tier(rule) - 1) + 1]

\* round_half_up(0.85 * (s_rule + s_ai) / 2) in integer arithmetic.
severity_component(s_rule, s_ai) == (170 * (s_rule + s_ai) + 200) \div 400

occurrence_component(count) ==
    IF count = 1 THEN 0 ELSE IF count < 5 THEN 4 ELSE IF count < 20 THEN 7 ELSE 10

asset_component(status) ==
    IF status \in {"offline", "revoked"} THEN 5 ELSE IF status = "none" THEN 2 ELSE 0

Least(m, n) == IF m <= n THEN m ELSE n

\* The severity whose points count as S_ai: the rule's own when triage is absent.
scored_severity(rule, ai) == IF ai = Absent THEN rule ELSE effective_ai_severity(rule, ai)

compute_priority(rule, ai, count, status) ==
    Least(100, severity_component(severity_points(rule), severity_points(scored_severity(rule, ai)))
                 + occurrence_component(count) + asset_component(status))
=============================================================================
