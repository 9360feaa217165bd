---------------------------- MODULE TriageProofs ----------------------------
(***************************************************************************)
(* The priority score, for every input, and the triage of alerts, for      *)
(* every number of workers and alerts, every cap of the budget and every   *)
(* pattern of redeliveries and failures.                                   *)
(***************************************************************************)
EXTENDS Triage, FiniteSetTheorems, TLAPS

-----------------------------------------------------------------------------
(* The score *)

\* The effective AI severity is a severity, one tier below the rule at the
\* lowest and never below the model's answer.
LEMMA ClampTier ==
    ASSUME NEW rule \in Severity, NEW ai \in Severity
    PROVE  /\ effective_ai_severity(rule, ai) \in Severity
           /\ severity_tier(effective_ai_severity(rule, ai))
                = Higher(severity_tier(ai), severity_tier(rule) - 1)
    BY DEF Severity, SEVERITIES, effective_ai_severity, severity_tier, TIER, Higher

\* scored_severity is a severity.
LEMMA ScoredIsSeverity ==
    ASSUME NEW rule \in Severity, NEW ai \in Severity \cup {Absent}
    PROVE  scored_severity(rule, ai) \in Severity
    BY ClampTier, Zenon DEF scored_severity

\* Points are integers that grow with the tier.
LEMMA PointsMonotone ==
    ASSUME NEW s \in Severity, NEW t \in Severity
    PROVE  /\ severity_points(s) \in 30..100
           /\ severity_tier(s) \in 0..3
           /\ severity_tier(s) <= severity_tier(t) => severity_points(s) <= severity_points(t)
    BY DEF Severity, severity_points, severity_tier, TIER, POINTS

\* The rounding of _severity_component, and what follows from it.
LEMMA ComponentRounds ==
    ASSUME NEW a \in 30..100, NEW b \in 30..100
    PROVE  /\ severity_component(a, b) \in 26..85
           /\ 170 * (a + b) - 200 < 400 * severity_component(a, b)
           /\ 400 * severity_component(a, b) <= 170 * (a + b) + 200
    BY DEF severity_component

LEMMA ComponentRange ==
    \A a, b \in 30..100 : severity_component(a, b) \in 26..85
    BY DEF severity_component

LEMMA ComponentMonotone ==
    ASSUME NEW a \in 30..100, NEW b \in 30..100, NEW c \in 30..100, NEW d \in 30..100,
           a <= c, b <= d
    PROVE  severity_component(a, b) <= severity_component(c, d)
    BY DEF severity_component

LEMMA OtherComponents ==
    ASSUME NEW n \in Nat \ {0}, NEW s \in AGENT_STATUSES
    PROVE  /\ occurrence_component(n) \in 0..10
           /\ asset_component(s) \in 0..5
    BY DEF occurrence_component, asset_component, AGENT_STATUSES

\* Between the boundaries 2, 5 and 20 another occurrence leaves the score's
\* occurrence part as it is: these are the counts at which the alerter recomputes.
LEMMA CrossingsAreTierBoundaries ==
    ASSUME NEW n \in Nat \ {0}
    PROVE  occurrence_component(n + 1) # occurrence_component(n) <=> n + 1 \in {2, 5, 20}
    BY DEF occurrence_component

\* The cap at 100 keeps the order of sums.
LEMMA LeastMonotone ==
    ASSUME NEW m \in Int, NEW n \in Int, m <= n
    PROVE  Least(100, n) >= Least(100, m)
    BY DEF Least

\* A raised rule severity or AI severity does not lower the scored severity.
LEMMA ScoredMonotone ==
    ASSUME NEW r \in Severity, NEW s \in Severity, NEW a \in Severity \cup {Absent},
           NEW b \in Severity \cup {Absent},
           severity_tier(r) <= severity_tier(s),
           a = Absent <=> b = Absent,
           a # Absent => severity_tier(a) <= severity_tier(b)
    PROVE  severity_points(scored_severity(r, a)) <= severity_points(scored_severity(s, b))
<1>1. CASE a = Absent
    BY <1>1, PointsMonotone DEF scored_severity
<1>2. CASE a # Absent
    <2>1. a \in Severity /\ b \in Severity
        BY <1>2
    <2>2. severity_tier(effective_ai_severity(r, a)) <= severity_tier(effective_ai_severity(s, b))
        BY <1>2, <2>1, ClampTier, PointsMonotone DEF Higher
    <2>3. QED
        BY <1>2, <2>1, <2>2, ClampTier, PointsMonotone DEF scored_severity
<1>3. QED
    BY <1>1, <1>2

\* Facts about one computation that the theorems below share.
LEMMA Parts ==
    ASSUME NEW rule \in Severity, NEW ai \in Severity \cup {Absent},
           NEW n \in Nat \ {0}, NEW s \in AGENT_STATUSES
    PROVE  /\ severity_points(rule) \in 30..100
           /\ severity_points(scored_severity(rule, ai)) \in 30..100
           /\ severity_component(severity_points(rule), severity_points(scored_severity(rule, ai))) \in 26..85
           /\ occurrence_component(n) \in 0..10
           /\ asset_component(s) \in 0..5
<1>1. /\ severity_points(rule) \in 30..100
      /\ severity_points(scored_severity(rule, ai)) \in 30..100
    BY PointsMonotone, ScoredIsSeverity
<1>2. severity_component(severity_points(rule), severity_points(scored_severity(rule, ai))) \in 26..85
    BY <1>1, ComponentRange
<1>3. QED
    BY <1>1, <1>2, OtherComponents

\* Section 5.2 of the contract: every score lies between 26 and 100, for every number of
\* occurrences (scoring.py compute_priority).
THEOREM ScoreBounded ==
    ASSUME NEW rule \in Severity, NEW ai \in Severity \cup {Absent},
           NEW n \in Nat \ {0}, NEW s \in AGENT_STATUSES
    PROVE  compute_priority(rule, ai, n, s) \in 26..100
    BY Parts DEF compute_priority, Least

\* Section 2: the integer expression of _severity_component is 0.85 times the mean of the
\* two severities, rounded half up: the integer k with x - 1/2 < k <= x + 1/2, where
\* x = 85 * (S_rule + S_ai) / 200.
THEOREM ScoreRoundsHalfUp ==
    ASSUME NEW rule \in Severity, NEW ai \in Severity
    PROVE  LET sum == severity_points(rule) + severity_points(ai)
               k == severity_component(severity_points(rule), severity_points(ai))
           IN  170 * sum - 200 < 400 * k /\ 400 * k <= 170 * sum + 200
<1>1. severity_points(rule) \in 30..100 /\ severity_points(ai) \in 30..100
    BY PointsMonotone
<1> DEFINE a == severity_points(rule)
           b == severity_points(ai)
<1> HIDE DEF a, b
<1>2. a \in 30..100 /\ b \in 30..100
    BY <1>1 DEF a, b
<1>3. 170 * (a + b) - 200 < 400 * severity_component(a, b) /\ 400 * severity_component(a, b) <= 170 * (a + b) + 200
    BY <1>2 DEF severity_component
<1>4. QED
    BY <1>3, Zenon DEF a, b

\* Section 5.1: raising an input never lowers the score (scoring.py compute_priority).
THEOREM ScoreMonotonic ==
    ASSUME NEW r \in Severity, NEW s \in Severity, severity_tier(r) <= severity_tier(s),
           NEW a \in Severity \cup {Absent}, NEW b \in Severity \cup {Absent},
           a = Absent <=> b = Absent,
           a # Absent => severity_tier(a) <= severity_tier(b),
           NEW m \in Nat \ {0}, NEW n \in Nat \ {0}, m <= n,
           NEW t \in AGENT_STATUSES, NEW u \in AGENT_STATUSES,
           asset_component(t) <= asset_component(u)
    PROVE  compute_priority(r, a, m, t) <= compute_priority(s, b, n, u)
<1> DEFINE low  == severity_component(severity_points(r), severity_points(scored_severity(r, a)))
           high == severity_component(severity_points(s), severity_points(scored_severity(s, b)))
<1>1. low <= high
    <2>1. severity_points(scored_severity(r, a)) <= severity_points(scored_severity(s, b))
        BY ScoredMonotone
    <2>2. severity_points(r) <= severity_points(s)
        BY PointsMonotone
    <2>3. QED
        <3>1. /\ severity_points(r) \in 30..100 /\ severity_points(scored_severity(r, a)) \in 30..100
              /\ severity_points(s) \in 30..100 /\ severity_points(scored_severity(s, b)) \in 30..100
            BY Parts
        <3> QED BY <2>1, <2>2, <3>1, ComponentMonotone, ZenonT(60)
<1>2. low \in 26..85 /\ high \in 26..85
    BY Parts
<1>3. occurrence_component(m) <= occurrence_component(n)
    BY DEF occurrence_component
<1>4. /\ occurrence_component(m) \in 0..10 /\ occurrence_component(n) \in 0..10
      /\ asset_component(t) \in 0..5 /\ asset_component(u) \in 0..5
    BY OtherComponents
<1>5. /\ compute_priority(r, a, m, t) = Least(100, low + occurrence_component(m) + asset_component(t))
      /\ compute_priority(s, b, n, u) = Least(100, high + occurrence_component(n) + asset_component(u))
    BY DEF compute_priority
<1> HIDE DEF low, high
<1>6. QED
    BY <1>1, <1>2, <1>3, <1>4, <1>5, LeastMonotone, SMTT(40)

\* Section 5.3: no answer of the model buries an alert.
LEMMA ScoreClamped ==
    ASSUME NEW rule \in Severity, NEW ai \in Severity \cup {Absent},
           NEW n \in Nat \ {0}, NEW s \in AGENT_STATUSES
    PROVE  /\ compute_priority(rule, ai, n, s) >= FLOOR[rule]
           /\ compute_priority(rule, ai, n, s) + 11 >= compute_priority(rule, Absent, n, s)
<1> DEFINE scored == scored_severity(rule, ai)
           part == severity_component(severity_points(rule), severity_points(scored))
           base == severity_component(severity_points(rule), severity_points(rule))
<1>1. scored \in Severity /\ severity_tier(scored) >= severity_tier(rule) - 1
    <2>1. CASE ai = Absent
        BY <2>1, PointsMonotone DEF scored_severity
    <2>2. CASE ai # Absent
        BY <2>2, ClampTier, PointsMonotone DEF scored_severity, Higher
    <2>3. QED
        BY <2>1, <2>2
<1>2. scored_severity(rule, Absent) = rule
    BY DEF scored_severity
<1>3. /\ compute_priority(rule, ai, n, s) = Least(100, part + occurrence_component(n) + asset_component(s))
      /\ compute_priority(rule, Absent, n, s) = Least(100, base + occurrence_component(n) + asset_component(s))
    BY <1>2 DEF compute_priority
<1>4. part \in 26..85 /\ occurrence_component(n) \in 0..10 /\ asset_component(s) \in 0..5
    BY Parts
<1>5. base \in 26..85
    BY PointsMonotone, ComponentRange
<1>6. part >= FLOOR[rule] /\ part + 11 >= base /\ FLOOR[rule] \in 26..77
    <2> HIDE DEF scored
    <2> QED BY <1>1 DEF Severity, FLOOR, severity_component, severity_points, POINTS, severity_tier, TIER
<1> HIDE DEF part, base
<1>7. QED
    BY <1>3, <1>4, <1>5, <1>6 DEF Least

-----------------------------------------------------------------------------
(* The inductive invariant *)

\* Where a run of the graph stands.
RunInv ==
    \A w \in Workers :
        /\ pc[w] = "generate" => attempts[w] < MaxAttempts
        /\ pc[w] = "charge" => attempts[w] > 0
        /\ pc[w] = "budget" => attempts[w] = 0 /\ regenerations[w] = 0
        /\ pc[w] = "completed" => answer[w] # Invalid

\* The answers that a run which has passed the check of the budget may still charge.
Left(w) ==
    IF pc[w] = "generate" THEN Least(2 - regenerations[w], MaxAttempts - attempts[w])
    ELSE IF pc[w] = "charge" THEN 1 + Least(1 - regenerations[w], MaxAttempts - attempts[w])
    ELSE IF pc[w] = "validate" THEN Least(1 - regenerations[w], MaxAttempts - attempts[w])
    ELSE 0

PerRun == Least(2, MaxAttempts)

Places == Workers \X (1..PerRun)

\* One element for each of these answers, so that they are counted without a sum.
Chances == {c \in Places : c[2] <= Left(c[1])}

\* The answers that are used and not yet charged.
Charging == {c \in Places : c[2] = 1 /\ pc[c[1]] = "charge"}

BudgetInv ==
    /\ spent + Cardinality(Chances) <= DailyCap - 1 + Cardinality(Workers) * PerRun
    /\ used <= spent + Cardinality(Charging) + failures

TypeInv == TypeOK /\ RunInv

IInv == TypeInv /\ BudgetInv /\ ScoreUsesDisplayedSeverity

-----------------------------------------------------------------------------
(* Types *)

LEMMA PerRunType == PerRun \in 1..2 /\ PerRun <= MaxAttempts
    BY ConstantsAssumption DEF PerRun, Least

LEMMA NotSeverities == Invalid \notin Severity /\ Absent \notin Severity
    BY DEF Invalid, Absent, Severity

LEMMA TypeInit == Init => TypeInv
<1> SUFFICES ASSUME Init PROVE TypeInv
    OBVIOUS
<1>1. (CHOOSE a \in Alerts : TRUE) \in Alerts
    BY ConstantsAssumption
<1>2. TypeOK
    BY <1>1, ConstantsAssumption DEF Init, TypeOK, PC, AGENT_STATUSES
<1>3. RunInv
    BY DEF Init, RunInv
<1> QED BY <1>2, <1>3 DEF TypeInv

LEMMA TypeStep ==
    ASSUME TypeInv, [Next]_vars
    PROVE  TypeInv'
<1> USE ConstantsAssumption DEF TypeInv, TypeOK, RunInv, PC, Goto
<1>1. ASSUME NEW w \in Workers, NEW a \in Alerts, skip_terminal(w, a) PROVE TypeInv'
    BY <1>1 DEF skip_terminal, Delivered, row, budget, run
<1>2. ASSUME NEW w \in Workers, NEW a \in Alerts, assemble(w, a) PROVE TypeInv'
    BY <1>2 DEF assemble, Delivered, row, budget
<1>3. ASSUME NEW w \in Workers, check_budget(w) PROVE TypeInv'
    BY <1>3 DEF check_budget, row, budget, env
<1>4. ASSUME NEW w \in Workers, call_fails(w) PROVE TypeInv'
    BY <1>4 DEF call_fails, row, budget, env
<1>5. ASSUME NEW w \in Workers, call_answers(w) PROVE TypeInv'
    BY <1>5 DEF call_answers, row, env
<1>6. ASSUME NEW w \in Workers, charge(w) PROVE TypeInv'
    BY <1>6 DEF charge, row, env
<1>7. ASSUME NEW w \in Workers, validate(w) PROVE TypeInv'
    <2>1. CASE answer[w] # Invalid
        BY <1>7, <2>1 DEF validate, row, budget, env
    <2>2. CASE answer[w] = Invalid /\ regenerations[w] < 1 /\ attempts[w] < MaxAttempts
        <3>1. /\ pc' = [pc EXCEPT ![w] = "generate"]
              /\ regenerations' = [regenerations EXCEPT ![w] = regenerations[w] + 1]
              /\ UNCHANGED <<row, budget, alert, ctx_count, attempts, answer, env>>
            BY <1>7, <2>2 DEF validate
        <3>2. regenerations[w] + 1 \in 0..1
            BY <2>2
        <3>3. TypeOK'
            BY <3>1, <3>2 DEF row, budget, env
        <3>4. RunInv'
            BY <2>2, <3>1
        <3> QED BY <3>3, <3>4
    <2>3. CASE answer[w] = Invalid /\ ~ (regenerations[w] < 1 /\ attempts[w] < MaxAttempts)
        BY <1>7, <2>3 DEF validate, row, budget, env
    <2> QED BY <2>1, <2>2, <2>3
<1>8. ASSUME NEW w \in Workers, persist_completed(w) PROVE TypeInv'
    BY <1>8 DEF persist_completed, budget
<1>9. ASSUME NEW w \in Workers, persist_unavailable(w) PROVE TypeInv'
    BY <1>9 DEF persist_unavailable, budget
<1>10. ASSUME NEW w \in Workers, fail(w) PROVE TypeInv'
    BY <1>10 DEF fail, row, budget
<1>11. ASSUME NEW a \in Alerts, add_occurrence(a) PROVE TypeInv'
    BY <1>11 DEF add_occurrence, budget, run, env
<1>12. ASSUME NEW a \in Alerts, close(a) \/ reopen(a) PROVE TypeInv'
    <2>1. CASE close(a)
        BY <2>1 DEF close, budget, run
    <2>2. CASE reopen(a)
        BY <2>2 DEF reopen, budget, run
    <2> QED BY <1>12, <2>1, <2>2
<1>13. ASSUME agent_changes PROVE TypeInv'
    BY <1>13 DEF agent_changes, budget, run, AGENT_STATUSES
<1>14. ASSUME UNCHANGED vars PROVE TypeInv'
    BY <1>14 DEF vars, row, budget, run, env
<1> QED
    BY <1>1, <1>2, <1>3, <1>4, <1>5, <1>6, <1>7, <1>8, <1>9, <1>10, <1>11, <1>12, <1>13, <1>14
    DEF Next, WorkerStep

-----------------------------------------------------------------------------
(* The budget *)

\* There are as many places as the overshoot of BudgetBounded.
LEMMA PlacesCount ==
    /\ IsFiniteSet(Places) /\ Cardinality(Workers) \in Nat
    /\ Cardinality(Places) = Cardinality(Workers) * PerRun
<1>1. IsFiniteSet(1..PerRun) /\ Cardinality(1..PerRun) = PerRun
    <2>1. PerRun \in Int /\ PerRun >= 1
        BY PerRunType
    <2>2. IsFiniteSet(1..PerRun) /\ Cardinality(1..PerRun) = IF 1 > PerRun THEN 0 ELSE PerRun - 1 + 1
        BY <2>1, FS_Interval
    <2> QED BY <2>1, <2>2
<1>2. IsFiniteSet(Workers) /\ Cardinality(Workers) \in Nat
    BY ConstantsAssumption, FS_CardinalityType
<1>3. IsFiniteSet(Places) /\ Cardinality(Places) = Cardinality(Workers) * Cardinality(1..PerRun)
    BY <1>1, <1>2, FS_Product DEF Places
<1> QED BY <1>1, <1>2, <1>3

LEMMA Counted ==
    ASSUME NEW S \in SUBSET Places
    PROVE  IsFiniteSet(S) /\ Cardinality(S) \in Nat /\ Cardinality(S) <= Cardinality(Places)
    BY PlacesCount, FS_Subset, FS_CardinalityType

LEMMA Smaller ==
    ASSUME NEW S \in SUBSET Places, NEW T \in SUBSET S
    PROVE  Cardinality(T) <= Cardinality(S)
    BY Counted, FS_Subset

LEMMA PartsOfBudget ==
    /\ Chances \in SUBSET Places /\ Charging \in SUBSET Places
    /\ Cardinality(Chances) \in Nat /\ Cardinality(Charging) \in Nat
<1>1. Chances \in SUBSET Places /\ Charging \in SUBSET Places
    BY DEF Chances, Charging
<1> QED BY <1>1, Counted

LEMMA LeftType ==
    ASSUME TypeInv, NEW w \in Workers
    PROVE  Left(w) \in 0..PerRun /\ (pc[w] = "charge" => Left(w) > 0)
<1>1. /\ attempts[w] \in 0..MaxAttempts /\ regenerations[w] \in 0..1 /\ MaxAttempts \in Nat \ {0}
      /\ pc[w] = "charge" => attempts[w] > 0
    BY ConstantsAssumption DEF TypeInv, TypeOK, RunInv
<1>2. \A n \in 0..1 : \A k \in 0..MaxAttempts :
        /\ Least(2 - n, MaxAttempts - k) \in 0..PerRun
        /\ Least(1 - n, MaxAttempts - k) \in 0..PerRun
        /\ k > 0 => 1 + Least(1 - n, MaxAttempts - k) \in 1..PerRun
    BY <1>1 DEF Least, PerRun
<1> QED BY <1>1, <1>2, PerRunType DEF Left

\* No run may charge more after the step than before.
NoMoreLeft == \A w \in Workers : \A i \in 1..PerRun : i <= Left(w)' => i <= Left(w)

\* A step that neither uses nor charges an answer, and lets no run charge more.
LEMMA QuietBudget ==
    ASSUME TypeInv, BudgetInv, NoMoreLeft,
           \A w \in Workers : pc'[w] = "charge" <=> pc[w] = "charge",
           spent' = spent, used' = used, failures' = failures
    PROVE  BudgetInv'
<1>1. Chances' \in SUBSET Chances
    BY DEF Chances, Places, NoMoreLeft
<1>2. Charging' = Charging
    BY DEF Charging, Places
<1>3. Cardinality(Chances') <= Cardinality(Chances) /\ Chances' \in SUBSET Places
    BY <1>1, PartsOfBudget, Smaller
<1>4. Cardinality(Chances') \in Nat /\ Cardinality(Chances) \in Nat
    BY <1>3, PartsOfBudget, Counted
<1>5. spent \in Nat /\ DailyCap \in Nat /\ Cardinality(Workers) * PerRun \in Nat
    BY ConstantsAssumption, PlacesCount, Counted DEF TypeInv, TypeOK
<1> QED BY <1>2, <1>3, <1>4, <1>5 DEF BudgetInv

\* The check of the budget: whatever the runs may charge afterwards, there are no more
\* of them than workers, and the cap was not reached.
LEMMA BudgetCheck ==
    ASSUME TypeInv, BudgetInv, NEW w \in Workers, check_budget(w)
    PROVE  BudgetInv'
<1>1. Chances' \in SUBSET Places
    BY DEF Chances, Places
<1>2. /\ Cardinality(Chances') \in Nat /\ Cardinality(Chances') <= Cardinality(Places)
      /\ Cardinality(Places) \in Nat /\ Cardinality(Places) = Cardinality(Workers) * PerRun
    BY <1>1, Counted, PlacesCount
<1>3. \A v \in Workers : pc'[v] = "charge" <=> pc[v] = "charge"
    BY DEF check_budget, Goto, TypeInv, TypeOK
<1>4. Charging' = Charging
    BY <1>3 DEF Charging, Places
<1>5. /\ spent' = spent /\ used' = used /\ failures' = failures
      /\ spent \in Nat /\ DailyCap \in Nat
    BY ConstantsAssumption DEF check_budget, budget, env, TypeInv, TypeOK
<1>6. CASE spent < DailyCap
    BY <1>2, <1>4, <1>5, <1>6 DEF BudgetInv
<1>7. CASE ~ (spent < DailyCap)
    <2>1. NoMoreLeft
        BY <1>5, <1>7 DEF NoMoreLeft, Left, check_budget, Goto, TypeInv, TypeOK
    <2> QED BY <1>3, <1>5, <2>1, QuietBudget
<1> QED BY <1>6, <1>7

\* A charge uses up one chance of its run.
LEMMA BudgetCharge ==
    ASSUME TypeInv, BudgetInv, NEW w \in Workers, charge(w)
    PROVE  BudgetInv'
<1> DEFINE c == <<w, Left(w)>>
           d == <<w, 1>>
<1>1. Left(w) \in 1..PerRun /\ Left(w) \in Int
    BY LeftType, PerRunType DEF charge
<1>2. c \in Chances
    BY <1>1 DEF Chances, Places
<1>3. Chances' \in SUBSET (Chances \ {c})
    <2>1. \A v \in Workers \ {w} : Left(v)' = Left(v)
        BY DEF Left, charge, Goto, TypeInv, TypeOK
    <2>2. Left(w)' = Left(w) - 1
        <3>1. Least(1 - regenerations[w], MaxAttempts - attempts[w]) \in Int
            BY ConstantsAssumption DEF Least, TypeInv, TypeOK
        <3> QED BY <3>1 DEF Left, charge, Goto, TypeInv, TypeOK
    <2> SUFFICES ASSUME NEW x \in Places, x[2] <= Left(x[1])' PROVE x[2] <= Left(x[1]) /\ x # c
        BY DEF Chances, Places
    <2>3. x[1] \in Workers /\ x[2] \in Int
        BY PerRunType DEF Places
    <2> QED BY <1>1, <2>1, <2>2, <2>3
<1>4. Cardinality(Chances') + 1 <= Cardinality(Chances) /\ Cardinality(Chances') \in Nat
    <2>1. Cardinality(Chances \ {c}) = Cardinality(Chances) - 1
        BY <1>2, PartsOfBudget, Counted, FS_RemoveElement
    <2>2. Chances \ {c} \in SUBSET Places
        BY PartsOfBudget
    <2>3. Cardinality(Chances') <= Cardinality(Chances \ {c})
        BY <1>3, <2>2, Smaller
    <2>4. Chances' \in SUBSET Places
        BY <1>3, PartsOfBudget
    <2> QED BY <2>1, <2>3, <2>4, PartsOfBudget, Counted
<1>5. Charging' = Charging \ {d} /\ d \in Charging
    BY PerRunType DEF Charging, Places, charge, Goto, TypeInv, TypeOK
<1>6. Cardinality(Charging') = Cardinality(Charging) - 1
    BY <1>5, PartsOfBudget, Counted, FS_RemoveElement
<1>7. /\ spent' = spent + 1 /\ used' = used /\ failures' = failures
      /\ spent \in Nat /\ used \in Nat /\ failures \in Nat /\ DailyCap \in Nat
    BY ConstantsAssumption DEF charge, row, env, TypeInv, TypeOK
<1>8. Cardinality(Workers) * PerRun \in Nat
    BY PlacesCount, Counted
<1> HIDE DEF c, d
<1> QED BY <1>4, <1>6, <1>7, <1>8, PartsOfBudget DEF BudgetInv

\* An answer turns a chance of a call into one of a charge.
LEMMA BudgetAnswer ==
    ASSUME TypeInv, BudgetInv, NEW w \in Workers, call_answers(w)
    PROVE  BudgetInv'
<1> DEFINE d == <<w, 1>>
<1>1. \A v \in Workers : Left(v)' = Left(v)
    <2>1. \A v \in Workers \ {w} : Left(v)' = Left(v)
        BY DEF Left, call_answers, Goto, TypeInv, TypeOK
    <2>2. /\ Left(w) = Least(2 - regenerations[w], MaxAttempts - attempts[w])
          /\ Left(w)' = 1 + Least(1 - regenerations[w], MaxAttempts - (attempts[w] + 1))
        BY DEF Left, call_answers, Goto, TypeInv, TypeOK
    <2>3. attempts[w] \in Nat /\ regenerations[w] \in Nat /\ MaxAttempts \in Nat
        BY ConstantsAssumption DEF TypeInv, TypeOK
    <2>4. Left(w)' = Left(w)
        BY <2>2, <2>3 DEF Least
    <2> QED BY <2>1, <2>4
<1>2. Chances' = Chances
    BY <1>1 DEF Chances, Places
<1>3. Charging' = Charging \cup {d} /\ d \notin Charging
    BY PerRunType DEF Charging, Places, call_answers, Goto, TypeInv, TypeOK
<1>4. Cardinality(Charging') = Cardinality(Charging) + 1
    BY <1>3, PartsOfBudget, Counted, FS_AddElement
<1>5. /\ spent' = spent /\ used' = used + 1 /\ failures' = failures
      /\ spent \in Nat /\ used \in Nat /\ failures \in Nat
    BY DEF call_answers, row, env, TypeInv, TypeOK
<1> HIDE DEF d
<1> QED BY <1>2, <1>4, <1>5, PartsOfBudget DEF BudgetInv

\* A death may lose one charge.
LEMMA BudgetFail ==
    ASSUME TypeInv, BudgetInv, NEW w \in Workers, fail(w)
    PROVE  BudgetInv'
<1> DEFINE d == <<w, 1>>
<1>1. NoMoreLeft
    BY DEF NoMoreLeft, Left, fail, Goto, TypeInv, TypeOK
<1>2. Chances' \in SUBSET Chances
    BY <1>1 DEF Chances, Places, NoMoreLeft
<1>3. Cardinality(Chances') <= Cardinality(Chances) /\ Chances' \in SUBSET Places
    BY <1>2, PartsOfBudget, Smaller
<1>4. Cardinality(Chances') \in Nat
    BY <1>3, Counted
<1>5. Charging' = Charging \ {d}
    BY PerRunType DEF Charging, Places, fail, Goto, TypeInv, TypeOK
<1>6. Cardinality(Charging') >= Cardinality(Charging) - 1 /\ Cardinality(Charging') \in Nat
    <2>1. Cardinality(Charging') = IF d \in Charging THEN Cardinality(Charging) - 1 ELSE Cardinality(Charging)
        BY <1>5, PartsOfBudget, Counted, FS_RemoveElement
    <2>2. Charging' \in SUBSET Places
        BY <1>5, PartsOfBudget
    <2> QED BY <2>1, <2>2, PartsOfBudget, Counted
<1>7. /\ spent' = spent /\ used' = used /\ failures' = failures + 1
      /\ spent \in Nat /\ used \in Nat /\ failures \in Nat /\ DailyCap \in Nat
    BY ConstantsAssumption DEF fail, row, budget, TypeInv, TypeOK
<1>8. Cardinality(Workers) * PerRun \in Nat
    BY PlacesCount, Counted
<1> HIDE DEF d
<1> QED BY <1>3, <1>4, <1>6, <1>7, <1>8, PartsOfBudget DEF BudgetInv

LEMMA BudgetInit == Init => BudgetInv
<1> SUFFICES ASSUME Init PROVE BudgetInv
    OBVIOUS
<1>1. Chances = {} /\ Charging = {}
    BY PerRunType DEF Init, Chances, Charging, Places, Left
<1>2. Cardinality(Chances) = 0 /\ Cardinality(Charging) = 0
    BY <1>1, FS_EmptySet
<1>3. Cardinality(Workers) * PerRun \in Nat /\ DailyCap \in Nat \ {0}
    BY ConstantsAssumption, PlacesCount, Counted
<1> QED BY <1>2, <1>3 DEF Init, BudgetInv

LEMMA BudgetStep ==
    ASSUME TypeInv, BudgetInv, [Next]_vars
    PROVE  BudgetInv'
<1>1. ASSUME NEW w \in Workers, NEW a \in Alerts, skip_terminal(w, a) \/ assemble(w, a) PROVE BudgetInv'
    <2>1. NoMoreLeft /\ \A v \in Workers : pc'[v] = "charge" <=> pc[v] = "charge"
        BY <1>1 DEF NoMoreLeft, Left, skip_terminal, assemble, Delivered, Goto, run, TypeInv, TypeOK
    <2> QED BY <1>1, <2>1, QuietBudget DEF skip_terminal, assemble, budget
<1>2. ASSUME NEW w \in Workers, call_fails(w) PROVE BudgetInv'
    <2>1. /\ pc[w] = "generate" /\ attempts'[w] = attempts[w] + 1 /\ regenerations'[w] = regenerations[w]
          /\ pc'[w] \in {"generate", "unavailable"}
          /\ \A v \in Workers \ {w} : /\ pc'[v] = pc[v] /\ attempts'[v] = attempts[v]
                                        /\ regenerations'[v] = regenerations[v]
          /\ spent' = spent /\ used' = used /\ failures' = failures
        BY <1>2 DEF call_fails, Goto, budget, env, TypeInv, TypeOK
    <2>2. attempts[w] \in Nat /\ regenerations[w] \in Nat /\ MaxAttempts \in Nat /\ PerRun \in Nat
        BY ConstantsAssumption, PerRunType DEF TypeInv, TypeOK
    <2>3. \A i \in 1..PerRun : i <= Left(w)' => i <= Left(w)
        BY <2>1, <2>2 DEF Left, Least
    <2>4. NoMoreLeft
        BY <2>1, <2>3 DEF NoMoreLeft, Left
    <2> QED BY <2>1, <2>4, QuietBudget
<1>3. ASSUME NEW w \in Workers, validate(w) PROVE BudgetInv'
    <2>1. /\ pc[w] = "validate" /\ attempts'[w] = attempts[w]
          /\ \/ pc'[w] \in {"completed", "unavailable"}
             \/ /\ pc'[w] = "generate" /\ regenerations'[w] = regenerations[w] + 1
          /\ \A v \in Workers \ {w} : /\ pc'[v] = pc[v] /\ attempts'[v] = attempts[v]
                                        /\ regenerations'[v] = regenerations[v]
          /\ spent' = spent /\ used' = used /\ failures' = failures
        BY <1>3 DEF validate, Goto, budget, env, TypeInv, TypeOK
    <2>2. attempts[w] \in Nat /\ regenerations[w] \in Nat /\ MaxAttempts \in Nat /\ PerRun \in Nat
        BY ConstantsAssumption, PerRunType DEF TypeInv, TypeOK
    <2>3. \A i \in 1..PerRun : i <= Left(w)' => i <= Left(w)
        BY <2>1, <2>2 DEF Left, Least
    <2>4. NoMoreLeft
        BY <2>1, <2>3 DEF NoMoreLeft, Left
    <2> QED BY <2>1, <2>4, QuietBudget
<1>4. ASSUME NEW w \in Workers, persist_completed(w) \/ persist_unavailable(w) PROVE BudgetInv'
    <2>1. NoMoreLeft /\ \A v \in Workers : pc'[v] = "charge" <=> pc[v] = "charge"
        BY <1>4 DEF NoMoreLeft, Left, persist_completed, persist_unavailable, Goto, TypeInv, TypeOK
    <2> QED BY <1>4, <2>1, QuietBudget DEF persist_completed, persist_unavailable, budget
<1>5. ASSUME UNCHANGED <<budget, run, failures>> PROVE BudgetInv'
    <2>1. NoMoreLeft
        BY <1>5 DEF NoMoreLeft, Left, run
    <2> QED BY <1>5, <2>1, QuietBudget DEF budget, run
<1>6. ASSUME NEW a \in Alerts, add_occurrence(a) \/ close(a) \/ reopen(a) PROVE BudgetInv'
    BY <1>5, <1>6 DEF add_occurrence, close, reopen, env
<1>7. ASSUME agent_changes \/ UNCHANGED vars PROVE BudgetInv'
    BY <1>5, <1>7 DEF agent_changes, vars, env
<1> QED
    BY <1>1, <1>2, <1>3, <1>4, <1>6, <1>7, BudgetCheck, BudgetCharge, BudgetAnswer, BudgetFail
    DEF Next, WorkerStep

-----------------------------------------------------------------------------
(* The severity the score uses *)

LEMMA SeverityStep ==
    ASSUME TypeInv, ScoreUsesDisplayedSeverity, [Next]_vars
    PROVE  ScoreUsesDisplayedSeverity'
<1>1. ASSUME UNCHANGED <<triage_status, ai_severity, priority_inputs>>
      PROVE ScoreUsesDisplayedSeverity'
    BY <1>1 DEF ScoreUsesDisplayedSeverity
<1>2. ASSUME NEW w \in Workers, persist_completed(w) PROVE ScoreUsesDisplayedSeverity'
    <2>1. answer[w] \in Severity /\ answer[w] # Absent
        BY <1>2, NotSeverities DEF persist_completed, TypeInv, TypeOK, RunInv
    <2> QED BY <1>2, <2>1 DEF persist_completed, ScoreUsesDisplayedSeverity, TypeInv, TypeOK
<1>3. ASSUME NEW w \in Workers, persist_unavailable(w) PROVE ScoreUsesDisplayedSeverity'
    BY <1>3 DEF persist_unavailable, ScoreUsesDisplayedSeverity, TypeInv, TypeOK
<1>4. ASSUME NEW a \in Alerts, add_occurrence(a) PROVE ScoreUsesDisplayedSeverity'
    BY <1>4 DEF add_occurrence, ScoreUsesDisplayedSeverity, TypeInv, TypeOK
<1>5. ASSUME NEW w \in Workers, NEW a \in Alerts, skip_terminal(w, a) \/ assemble(w, a)
      PROVE ScoreUsesDisplayedSeverity'
    BY <1>1, <1>5 DEF skip_terminal, assemble, row
<1>6. ASSUME NEW w \in Workers,
             \/ check_budget(w) \/ call_fails(w) \/ call_answers(w) \/ charge(w)
             \/ validate(w) \/ fail(w)
      PROVE ScoreUsesDisplayedSeverity'
    BY <1>1, <1>6 DEF check_budget, call_fails, call_answers, charge, validate, fail, row
<1>7. ASSUME NEW a \in Alerts, close(a) \/ reopen(a) PROVE ScoreUsesDisplayedSeverity'
    BY <1>1, <1>7 DEF close, reopen
<1>8. ASSUME agent_changes \/ UNCHANGED vars PROVE ScoreUsesDisplayedSeverity'
    BY <1>1, <1>8 DEF agent_changes, vars, row
<1> QED
    BY <1>2, <1>3, <1>4, <1>5, <1>6, <1>7, <1>8 DEF Next, WorkerStep

-----------------------------------------------------------------------------
(* The theorems *)

\* The inductive invariant of triage: types, where a run stands, and what runs may
\* still charge to the budget.
THEOREM Invariant == Spec => []IInv
<1>1. Init => IInv
    BY TypeInit, BudgetInit DEF IInv, Init, ScoreUsesDisplayedSeverity
<1>2. IInv /\ [Next]_vars => IInv'
    BY TypeStep, BudgetStep, SeverityStep DEF IInv
<1> QED BY <1>1, <1>2, PTL DEF Spec

\* The day's use exceeds the cap by no more than two answers of each worker and the charges
\* that failures lost, for every number of workers, cap and limit of attempts (budget.py).
THEOREM BudgetBoundedHolds == Spec => []BudgetBounded
<1>1. IInv => BudgetBounded
    <2> SUFFICES ASSUME IInv PROVE BudgetBounded
        OBVIOUS
    <2>1. Charging \in SUBSET Chances
        <3> SUFFICES ASSUME NEW c \in Places, c[2] = 1, pc[c[1]] = "charge" PROVE c[2] <= Left(c[1])
            BY DEF Charging, Chances
        <3>1. c[1] \in Workers
            BY DEF Places
        <3> QED BY <3>1, LeftType, PerRunType DEF IInv
    <2>2. Cardinality(Charging) <= Cardinality(Chances)
        BY <2>1, PartsOfBudget, Smaller
    <2>3. /\ spent \in Nat /\ used \in Nat /\ failures \in Nat /\ DailyCap \in Nat
          /\ Cardinality(Workers) * PerRun \in Nat
        BY ConstantsAssumption, PlacesCount, Counted DEF IInv, TypeInv, TypeOK
    <2>4. BudgetInv
        BY DEF IInv
    <2> QED BY <2>2, <2>3, <2>4, PartsOfBudget DEF BudgetInv, BudgetBounded, PerRun
<1> QED BY <1>1, Invariant, PTL

\* A completed triage is the one the score uses, whatever alerter and triagers wrote
\* in between (persist.py).
THEOREM ScoreUsesDisplayedSeverityHolds == Spec => []ScoreUsesDisplayedSeverity
<1>1. IInv => ScoreUsesDisplayedSeverity
    BY DEF IInv
<1> QED BY <1>1, Invariant, PTL

\* No answer of the model buries an alert: the score it carries is at least that of one
\* tier below its rule (scoring.py effective_ai_severity).
THEOREM NotBuriedHolds == Spec => []NotBuried
<1>1. IInv => NotBuried
    <2> SUFFICES ASSUME IInv, NEW a \in Alerts
                 PROVE  /\ compute_priority(rule_severity[a], priority_inputs[a].ai,
                                            priority_inputs[a].count, priority_inputs[a].agent)
                              >= FLOOR[rule_severity[a]]
                        /\ compute_priority(rule_severity[a], priority_inputs[a].ai,
                                            priority_inputs[a].count, priority_inputs[a].agent) + 11
                              >= compute_priority(rule_severity[a], Absent,
                                                  priority_inputs[a].count, priority_inputs[a].agent)
        BY DEF NotBuried
    <2>1. /\ rule_severity[a] \in Severity
          /\ priority_inputs[a].ai \in Severity \cup {Absent}
          /\ priority_inputs[a].count \in Nat \ {0}
          /\ priority_inputs[a].agent \in AGENT_STATUSES
        BY ConstantsAssumption DEF IInv, TypeInv, TypeOK
    <2> QED BY <2>1, ScoreClamped
<1> QED BY <1>1, Invariant, PTL
=============================================================================
