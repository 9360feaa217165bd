-------------------------------- MODULE Triage --------------------------------
(***************************************************************************)
(* The AI triage of the alerts of one tenant during one day: the triager   *)
(* workers and their graph assemble -> generate -> validate -> persist     *)
(* (services/dataplane/src/dataplane/triage/graph.py, persist.py,          *)
(* budget.py, workers/triager.py), and what else writes the same rows: the *)
(* alerter that adds occurrences and analysts that close and reopen.       *)
(*                                                                         *)
(* The priority of a row is kept as the inputs it was computed from        *)
(* (priority_inputs); module PriorityScore is the function of them.  One   *)
(* answer of the model costs one unit of the token budget.                 *)
(***************************************************************************)
EXTENDS Integers, FiniteSets, PriorityScore

CONSTANTS
    Workers,        \* triager processes
    Alerts,         \* alerts published on pipe:alerts.triage
    RuleSeverities, \* severities of the rules that raised the alerts
    Answers,        \* severities the model may answer
    HasClient,      \* an API key is configured
    MaxAttempts,    \* max_attempts: model calls of one run
    DailyCap,       \* daily_token_cap
    MaxCount,       \* bound: occurrences of an alert
    MaxDuplicates,  \* bound: deliveries of a message already taken
    MaxFailures,    \* bound: handler runs that die
    MaxChanges      \* bound: changes of the agent status and analyst transitions

ASSUME ConstantsAssumption ==
    /\ IsFiniteSet(Workers)
    /\ Alerts # {}
    /\ RuleSeverities \subseteq Severity
    /\ Answers \subseteq Severity
    /\ HasClient \in BOOLEAN
    /\ MaxAttempts \in Nat \ {0}
    /\ DailyCap \in Nat \ {0}
    /\ MaxCount \in Nat \ {0}
    /\ MaxDuplicates \in Nat
    /\ MaxFailures \in Nat
    /\ MaxChanges \in Nat

\* An answer that does not parse or that validate_summary refuses.
Invalid == "invalid"

VARIABLES
    \* alerts
    rule_severity,
    open,              \* the alert is not closed
    occurrence_count,
    triage_status,
    ai_severity,
    priority_inputs,   \* [count, ai, agent] of the last computation
    \* assets
    agent_status,
    \* budget:triage:{tenant}:{day} in Redis, and what the model really used
    spent, used,
    \* the run of the graph of each worker
    pc, alert,
    ctx_count,         \* occurrence_count read by assemble
    attempts, regenerations, answer,
    \* the stream
    done,              \* messages whose handler returned
    duplicates, failures, changes

row == <<rule_severity, open, occurrence_count, triage_status, ai_severity, priority_inputs, agent_status>>
budget == <<spent, used>>
run == <<pc, alert, ctx_count, attempts, regenerations, answer>>
env == <<done, duplicates, failures, changes>>
vars == <<row, budget, run, env>>

PC == {"idle", "budget", "generate", "charge", "validate", "completed", "unavailable"}

Init ==
    /\ rule_severity \in [Alerts -> RuleSeverities]
    /\ open = [a \in Alerts |-> TRUE]
    /\ occurrence_count = [a \in Alerts |-> 1]
    /\ triage_status = [a \in Alerts |-> "pending"]
    /\ ai_severity = [a \in Alerts |-> Absent]
    /\ agent_status = "healthy"
    /\ priority_inputs = [a \in Alerts |-> [count |-> 1, ai |-> Absent, agent |-> agent_status]]
    /\ spent = 0
    /\ used = 0
    /\ pc = [w \in Workers |-> "idle"]
    /\ alert = [w \in Workers |-> CHOOSE a \in Alerts : TRUE]
    /\ ctx_count = [w \in Workers |-> 1]
    /\ attempts = [w \in Workers |-> 0]
    /\ regenerations = [w \in Workers |-> 0]
    /\ answer = [w \in Workers |-> Invalid]
    /\ done = {}
    /\ duplicates = 0
    /\ failures = 0
    /\ changes = 0

-----------------------------------------------------------------------------
(* The triage graph *)

\* The stream delivers a triage message: for the first time, again after its
\* handler died, or again although it is being handled or was handled.
Delivered(w, a) ==
    /\ pc[w] = "idle"
    /\ IF a \in done \/ \E v \in Workers : pc[v] # "idle" /\ alert[v] = a
       THEN duplicates < MaxDuplicates /\ duplicates' = duplicates + 1
       ELSE UNCHANGED duplicates

Goto(w, l) == pc' = [pc EXCEPT ![w] = l]

\* _node_assemble of an alert whose triage ended already: nothing to do.
skip_terminal(w, a) ==
    /\ triage_status[a] # "pending"
    /\ Delivered(w, a)
    /\ done' = done \cup {a}
    /\ UNCHANGED <<row, budget, run, failures, changes>>

\* _node_assemble reads the alert; without a client triage is unavailable.
assemble(w, a) ==
    /\ triage_status[a] = "pending"
    /\ Delivered(w, a)
    /\ alert' = [alert EXCEPT ![w] = a]
    /\ ctx_count' = [ctx_count EXCEPT ![w] = occurrence_count[a]]
    /\ attempts' = [attempts EXCEPT ![w] = 0]
    /\ regenerations' = [regenerations EXCEPT ![w] = 0]
    /\ answer' = [answer EXCEPT ![w] = Invalid]
    /\ Goto(w, IF HasClient THEN "budget" ELSE "unavailable")
    /\ UNCHANGED <<row, budget, done, failures, changes>>

\* TriageBudget.state, once before the first call.
check_budget(w) ==
    /\ pc[w] = "budget"
    /\ Goto(w, IF spent >= DailyCap THEN "unavailable" ELSE "generate")
    /\ UNCHANGED <<row, budget, alert, ctx_count, attempts, regenerations, answer, env>>

\* _node_generate: the call fails or times out.
call_fails(w) ==
    /\ pc[w] = "generate"
    /\ attempts' = [attempts EXCEPT ![w] = @ + 1]
    /\ Goto(w, IF attempts[w] + 1 >= MaxAttempts THEN "unavailable" ELSE "generate")
    /\ UNCHANGED <<row, budget, alert, ctx_count, regenerations, answer, env>>

\* _node_generate: the model answers, the tokens are used and metered.
call_answers(w) ==
    /\ pc[w] = "generate"
    /\ attempts' = [attempts EXCEPT ![w] = @ + 1]
    /\ \E s \in Answers \cup {Invalid} : answer' = [answer EXCEPT ![w] = s]
    /\ used' = used + 1
    /\ Goto(w, "charge")
    /\ UNCHANGED <<row, spent, alert, ctx_count, regenerations, env>>

\* TriageBudget.add.
charge(w) ==
    /\ pc[w] = "charge"
    /\ spent' = spent + 1
    /\ Goto(w, "validate")
    /\ UNCHANGED <<row, used, alert, ctx_count, attempts, regenerations, answer, env>>

\* Mutant of validate: an invalid answer is regenerated until it is valid.
validate_mutant(w) ==
    /\ pc[w] = "validate"
    /\ Goto(w, IF answer[w] # Invalid THEN "completed" ELSE "generate")
    /\ UNCHANGED <<row, budget, alert, ctx_count, attempts, regenerations, answer, env>>

\* _node_validate: an invalid answer is regenerated once, if an attempt is left.
validate(w) ==
    /\ pc[w] = "validate"
    /\ \/ /\ answer[w] # Invalid
          /\ Goto(w, "completed")
          /\ UNCHANGED regenerations
       \/ /\ answer[w] = Invalid
          /\ regenerations[w] < 1 /\ attempts[w] < MaxAttempts
          /\ regenerations' = [regenerations EXCEPT ![w] = @ + 1]
          /\ Goto(w, "generate")
       \/ /\ answer[w] = Invalid
          /\ ~ (regenerations[w] < 1 /\ attempts[w] < MaxAttempts)
          /\ Goto(w, "unavailable")
          /\ UNCHANGED regenerations
    /\ UNCHANGED <<row, budget, alert, ctx_count, attempts, answer, env>>

\* TriagePersister.persist_completed: the score is computed from the count that
\* assemble read and the agent status read now; the row is updated by its id.
persist_completed(w) ==
    LET a == alert[w] IN
    /\ pc[w] = "completed"
    /\ triage_status' = [triage_status EXCEPT ![a] = "completed"]
    /\ ai_severity' = [ai_severity EXCEPT ![a] = answer[w]]
    /\ priority_inputs' = [priority_inputs EXCEPT ![a] =
                             [count |-> ctx_count[w], ai |-> answer[w], agent |-> agent_status]]
    /\ done' = done \cup {a}
    /\ Goto(w, "idle")
    /\ UNCHANGED <<rule_severity, open, occurrence_count, agent_status, budget, alert, ctx_count, attempts,
                   regenerations, answer, duplicates, failures, changes>>

\* Mutant of persist_unavailable: the history is written, the status is not.
persist_unavailable_mutant(w) ==
    /\ pc[w] = "unavailable"
    /\ done' = done \cup {alert[w]}
    /\ Goto(w, "idle")
    /\ UNCHANGED <<row, budget, alert, ctx_count, attempts, regenerations, answer, duplicates,
                   failures, changes>>

\* TriagePersister.persist_unavailable: only the status and the attempts change.
persist_unavailable(w) ==
    /\ pc[w] = "unavailable"
    /\ triage_status' = [triage_status EXCEPT ![alert[w]] = "unavailable"]
    /\ done' = done \cup {alert[w]}
    /\ Goto(w, "idle")
    /\ UNCHANGED <<rule_severity, open, occurrence_count, ai_severity, priority_inputs, agent_status,
                   budget, alert, ctx_count, attempts, regenerations, answer, duplicates, failures, changes>>

\* The handler raises or its process dies; the message stays pending.
fail(w) ==
    /\ pc[w] # "idle"
    /\ failures < MaxFailures
    /\ failures' = failures + 1
    /\ Goto(w, "idle")
    /\ UNCHANGED <<row, budget, alert, ctx_count, attempts, regenerations, answer,
                   done, duplicates, changes>>

-----------------------------------------------------------------------------
(* The other writers of the row *)

\* Mutant of add_occurrence: the recomputation forgets the triage result.
add_occurrence_mutant(a) ==
    /\ open[a]
    /\ occurrence_count[a] < MaxCount
    /\ occurrence_count' = [occurrence_count EXCEPT ![a] = @ + 1]
    /\ priority_inputs' =
         IF occurrence_count'[a] \in {2, 5, 20}
         THEN [priority_inputs EXCEPT ![a] =
                 [count |-> occurrence_count'[a], ai |-> Absent, agent |-> agent_status]]
         ELSE priority_inputs
    /\ UNCHANGED <<rule_severity, open, triage_status, ai_severity, agent_status, budget, run, env>>

\* The alerter adds an occurrence and recomputes the priority at a tier
\* boundary, with the AI severity only if triage is completed.
add_occurrence(a) ==
    LET n == occurrence_count[a] + 1 IN
    /\ open[a]
    /\ n <= MaxCount
    /\ occurrence_count' = [occurrence_count EXCEPT ![a] = n]
    /\ priority_inputs' =
         IF n \in {2, 5, 20}
         THEN [priority_inputs EXCEPT ![a] =
                 [count |-> n,
                  ai    |-> IF triage_status[a] = "completed" THEN ai_severity[a] ELSE Absent,
                  agent |-> agent_status]]
         ELSE priority_inputs
    /\ UNCHANGED <<rule_severity, open, triage_status, ai_severity, agent_status, budget, run, env>>

\* The agent of the affected asset goes offline or comes back.
agent_changes ==
    /\ changes < MaxChanges
    /\ changes' = changes + 1
    /\ agent_status' \in {"healthy", "offline"} \ {agent_status}
    /\ UNCHANGED <<rule_severity, open, occurrence_count, triage_status, ai_severity, priority_inputs,
                   budget, run, done, duplicates, failures>>

\* api/alerts.py: close and reopen write the state and nothing of the priority.
close(a) ==
    /\ changes < MaxChanges
    /\ changes' = changes + 1
    /\ open[a]
    /\ open' = [open EXCEPT ![a] = FALSE]
    /\ UNCHANGED <<rule_severity, occurrence_count, triage_status, ai_severity, priority_inputs,
                   agent_status, budget, run, done, duplicates, failures>>

reopen(a) ==
    /\ changes < MaxChanges
    /\ changes' = changes + 1
    /\ ~ open[a]
    /\ open' = [open EXCEPT ![a] = TRUE]
    /\ UNCHANGED <<rule_severity, occurrence_count, triage_status, ai_severity, priority_inputs,
                   agent_status, budget, run, done, duplicates, failures>>

-----------------------------------------------------------------------------
WorkerStep(w) ==
    \/ \E a \in Alerts : skip_terminal(w, a) \/ assemble(w, a)
    \/ check_budget(w)
    \/ call_fails(w)
    \/ call_answers(w)
    \/ charge(w)
    \/ validate(w)
    \/ persist_completed(w)
    \/ persist_unavailable(w)

Next ==
    \/ \E w \in Workers : WorkerStep(w) \/ fail(w)
    \/ \E a \in Alerts : add_occurrence(a) \/ close(a) \/ reopen(a)
    \/ agent_changes

Spec == Init /\ [][Next]_vars

\* Workers run and are restarted, a model call ends within its timeout, and the
\* stream redelivers a message until its handler returns (StreamConsumer).
FairSpec == Spec /\ WF_vars(\E w \in Workers : WorkerStep(w))

-----------------------------------------------------------------------------
(* Properties *)

TypeOK ==
    /\ rule_severity \in [Alerts -> Severity]
    /\ open \in [Alerts -> BOOLEAN]
    /\ occurrence_count \in [Alerts -> 1..MaxCount]
    /\ triage_status \in [Alerts -> {"pending", "completed", "unavailable"}]
    /\ ai_severity \in [Alerts -> Severity \cup {Absent}]
    /\ priority_inputs \in [Alerts -> [count : 1..MaxCount, ai : Severity \cup {Absent},
                                       agent : AGENT_STATUSES]]
    /\ agent_status \in AGENT_STATUSES
    /\ spent \in Nat
    /\ used \in Nat
    /\ pc \in [Workers -> PC]
    /\ alert \in [Workers -> Alerts]
    /\ ctx_count \in [Workers -> 1..MaxCount]
    /\ attempts \in [Workers -> 0..MaxAttempts]
    /\ regenerations \in [Workers -> 0..1]
    /\ answer \in [Workers -> Severity \cup {Invalid}]
    /\ done \in SUBSET Alerts
    /\ duplicates \in 0..MaxDuplicates
    /\ failures \in 0..MaxFailures
    /\ changes \in 0..MaxChanges

\* The backstop of the budget (SEC-37): it is read once per run, so the day's
\* use can exceed the cap, by no more than the two answers (the second one the
\* regeneration) of each run that passed the check, and the answers whose charge
\* a failure lost.
BudgetBounded ==
    LET overshoot == Cardinality(Workers) * Least(2, MaxAttempts) IN
    /\ spent <= DailyCap - 1 + overshoot
    /\ used <= DailyCap - 1 + overshoot + failures

\* A completed triage shows in the score: it was computed from the AI severity
\* the row displays, whatever alerter and triagers wrote in between (AC-48).
ScoreUsesDisplayedSeverity ==
    \A a \in Alerts : triage_status[a] = "completed" =>
        ai_severity[a] # Absent /\ priority_inputs[a].ai = ai_severity[a]

\* The least score of an alert of each rule severity.
FLOOR == [low |-> 26, medium |-> 36, high |-> 57, critical |-> 77]

\* Section 5.3 of the contract: whatever the model answers to whichever run, the
\* score an alert carries is at least that of one tier below its rule, and within
\* 11 points of the score without triage (scoring.py effective_ai_severity).
NotBuried ==
    \A a \in Alerts :
        LET score(ai) == compute_priority(rule_severity[a], ai, priority_inputs[a].count,
                                          priority_inputs[a].agent)
        IN  /\ score(priority_inputs[a].ai) >= FLOOR[rule_severity[a]]
            /\ score(priority_inputs[a].ai) + 11 >= score(Absent)

\* Every alert that was published for triage leaves the pending state (AC-50).
EventuallyTriaged == \A a \in Alerts : <>(triage_status[a] # "pending")

=============================================================================
