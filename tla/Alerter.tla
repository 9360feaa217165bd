------------------------------- MODULE Alerter -------------------------------
(***************************************************************************)
(* The alerts of one tenant: the alerter workers that turn detection hits  *)
(* into alerts (services/dataplane/src/dataplane/workers/alerter.py), the  *)
(* analysts that move alerts through their states (api/alerts.py), and the *)
(* triagers that write their result and the priority to the same rows      *)
(* (triage/persist.py), over the tables of db/migrations/0005_alerts.sql.  *)
(*                                                                         *)
(* A hit is handled in one READ COMMITTED transaction.  Its statements are *)
(* grouped into three steps: the redelivery guard; the upsert, which locks *)
(* the dedup key or the open row, with the query for correlation           *)
(* candidates; and the remaining writes with the commit.  The variables    *)
(* are the committed rows: what a transaction has written so far is seen   *)
(* by the others only as locks.  A statement that meets a lock waits.      *)
(*                                                                         *)
(* A hit stands for a pair of an event and a rule, one pipe:detections     *)
(* message.  Delivery is that of module AtLeastOnce: a hit that is being   *)
(* handled, or was handled, may be delivered again.                        *)
(*                                                                         *)
(* Of a triage run only its read and its write of the row are steps here;  *)
(* module Triage has the run itself.                                       *)
(***************************************************************************)
EXTENDS Integers, FiniteSets, PriorityScore

CONSTANTS
    Workers,            \* alerter processes
    Triagers,           \* triager processes
    Hits,               \* detection hits published
    Malformed,          \* hits whose payload fails validation
    rule_id,            \* [Hits -> rules]
    entity_key,         \* [Hits -> entities]
    hostname,           \* [Hits -> hosts or NoHost]
    event_time,         \* [Hits -> Nat], in units of the windows
    NoHost,
    DedupWindow,        \* alert_dedup_window_minutes
    CorrelationWindow,  \* correlation_window_minutes
    MaxAlerts,          \* bound: rows of the alerts table
    MaxFaults,          \* bound: deliveries of a hit already taken and handler runs that die
    MaxTransitions      \* bound: analyst transitions

AlertIds == 1..MaxAlerts

ASSUME ConstantsAssumption ==
    /\ IsFiniteSet(Workers)
    /\ IsFiniteSet(Hits) /\ Hits # {} /\ Malformed \subseteq Hits
    /\ event_time \in [Hits -> Nat]
    /\ DedupWindow \in Nat
    /\ CorrelationWindow \in Nat
    /\ MaxAlerts \in Nat
    /\ MaxFaults \in Nat
    /\ MaxTransitions \in Nat

VARIABLES
    state,             \* alerts.state, "free" for an id not in the table
    origin,            \* the hit the alert was created for: its rule, entity, host
    occurrence_count,
    last_seen,
    scored_count,      \* priority_inputs.occurrence_count, written with priority_score
    triaged,           \* alerts whose triage_status is no longer pending
    group,             \* correlation_group_id; 0 is NULL, else the alert that opened it
    links,             \* alert_events: the hits linked to the alert
    triage,            \* alerts published on pipe:alerts.triage
    pc,                \* what each worker is doing
    hit,               \* the hit it handles
    alert,             \* the row its transaction inserted or updated
    expired,           \* the rows its transaction closed
    join,              \* the group its new alert joins, 0 for none
    related,           \* the correlation candidates without a group
    context,           \* the alert and the count each triager has read
    arrived,           \* history: hits counted while the run that wrote the priority
                       \* last waited for the model, 0 if the alerter wrote it last
    done,              \* hits whose handler has returned
    deadLettered,      \* hits stored in the dead-letter table
    duplicates, failures, transitions

rows == <<state, origin, occurrence_count, last_seen, scored_count, arrived, group, links>>
transaction == <<hit, alert, expired, join, related>>
counters == <<duplicates, failures, transitions>>
triager == <<triaged, context>>
vars == <<rows, triage, triager, pc, transaction, done, deadLettered, counters>>

Open == {a \in AlertIds : state[a] \in {"new", "acknowledged"}}

\* The columns of the index alerts_open_dedup_uq.
SameKey(h, k) == rule_id[h] = rule_id[k] /\ entity_key[h] = entity_key[k]

OpenFor(h) == {a \in Open : SameKey(origin[a], h)}

InTransaction(w) == pc[w] \in {"inserted", "updated"}

\* Rows locked by the transaction of worker w.
Locked(w) == IF pc[w] = "inserted" THEN expired[w]
             ELSE IF pc[w] = "updated" THEN {alert[w]} ELSE {}

\* Another worker than w holds the lock of a row, or of the key of hit h in the
\* unique index (it has inserted an open alert with this key).
RowBusy(w, a) == \E v \in Workers \ {w} : a \in Locked(v)
KeyBusy(w, h) == \E v \in Workers \ {w} : pc[v] = "inserted" /\ SameKey(hit[v], h)

\* An id that neither a row nor a running transaction uses.
Unused == {a \in AlertIds : state[a] = "free" /\ \A v \in Workers : InTransaction(v) => alert[v] # a}

\* The value of a column or variable that is not in use.
AnyHit == CHOOSE h \in Hits : TRUE
NoContext == [alert |-> 0, count |-> 0]

Init ==
    /\ state = [a \in AlertIds |-> "free"]
    /\ origin = [a \in AlertIds |-> AnyHit]
    /\ occurrence_count = [a \in AlertIds |-> 0]
    /\ last_seen = [a \in AlertIds |-> 0]
    /\ scored_count = [a \in AlertIds |-> 0]
    /\ arrived = [a \in AlertIds |-> 0]
    /\ group = [a \in AlertIds |-> 0]
    /\ links = [a \in AlertIds |-> {}]
    /\ triage = {}
    /\ triaged = {}
    /\ context = [t \in Triagers |-> NoContext]
    /\ pc = [w \in Workers |-> "idle"]
    /\ hit = [w \in Workers |-> AnyHit]
    /\ alert = [w \in Workers |-> 0]
    /\ expired = [w \in Workers |-> {}]
    /\ join = [w \in Workers |-> 0]
    /\ related = [w \in Workers |-> {}]
    /\ done = {}
    /\ deadLettered = {}
    /\ duplicates = 0
    /\ failures = 0
    /\ transitions = 0

-----------------------------------------------------------------------------
(* Alerter: handling a hit *)

\* The handler ends and its locals with it.
Leave(w) ==
    /\ pc' = [pc EXCEPT ![w] = "idle"]
    /\ hit' = [hit EXCEPT ![w] = AnyHit]
    /\ alert' = [alert EXCEPT ![w] = 0]
    /\ expired' = [expired EXCEPT ![w] = {}]
    /\ join' = [join EXCEPT ![w] = 0]
    /\ related' = [related EXCEPT ![w] = {}]

Linked(h) == \E a \in AlertIds : h \in links[a]

\* The stream delivers a hit: for the first time, again after its handler died,
\* or again although it is being handled or was handled.
Delivered(w, h) ==
    /\ pc[w] = "idle"
    /\ IF h \in done \/ \E v \in Workers : pc[v] # "idle" /\ hit[v] = h
       THEN duplicates + failures < MaxFaults /\ duplicates' = duplicates + 1
       ELSE UNCHANGED duplicates

insert_dead_letter(h) == deadLettered' = deadLettered \cup {h}

\* A payload that fails validation is stored in the dead-letter table.
handle_malformed(w, h) ==
    /\ h \in Malformed
    /\ Delivered(w, h)
    /\ insert_dead_letter(h)
    /\ done' = done \cup {h}
    /\ UNCHANGED <<rows, triage, triager, pc, transaction, failures, transitions>>

\* Mutant of handle_redelivered: any alert of the rule counts as a redelivery.
handle_redelivered_mutant(w, h) ==
    /\ h \notin Malformed
    /\ \E a \in AlertIds : state[a] # "free" /\ rule_id[origin[a]] = rule_id[h]
    /\ Delivered(w, h)
    /\ done' = done \cup {h}
    /\ UNCHANGED <<rows, triage, triager, pc, transaction, deadLettered, failures, transitions>>

\* The redelivery guard finds the event linked to an alert of the rule.
handle_redelivered(w, h) ==
    /\ h \notin Malformed
    /\ Linked(h)
    /\ Delivered(w, h)
    /\ done' = done \cup {h}
    /\ UNCHANGED <<rows, triage, triager, pc, transaction, deadLettered, failures, transitions>>

\* The redelivery guard finds nothing.
handle(w, h) ==
    /\ h \notin Malformed
    /\ ~ Linked(h)
    /\ Delivered(w, h)
    /\ pc' = [pc EXCEPT ![w] = "guarded"]
    /\ hit' = [hit EXCEPT ![w] = h]
    /\ UNCHANGED <<rows, triage, triager, alert, expired, join, related, done, deadLettered,
                   failures, transitions>>

\* The open alert of the key is still inside the dedup window of the hit.
InWindow(a, h) == last_seen[a] >= event_time[h] - DedupWindow

\* CORRELATION_CANDIDATES: open alerts of other rules on the same host.
Candidates(h) ==
    {c \in Open : /\ hostname[h] # NoHost
                  /\ hostname[origin[c]] = hostname[h]
                  /\ rule_id[origin[c]] # rule_id[h]
                  /\ last_seen[c] >= event_time[h] - CorrelationWindow}

\* _correlate: the group of the most recently seen candidate that has one, else
\* a new group, here named after the new alert.
JoinedGroup(a, h, g) ==
    LET grouped == {c \in Candidates(h) : group[c] # 0} IN
    \/ Candidates(h) = {} /\ g = 0
    \/ Candidates(h) # {} /\ grouped = {} /\ g = a
    \/ \E c \in grouped : /\ \A d \in grouped : last_seen[d] <= last_seen[c]
                          /\ g = group[c]

\* ALERT_UPSERT inserts: no alert of the key is open, or the open one is outside
\* the window and CLOSE_EXPIRED_OPEN_ALERT closes it first.  The conflicting row
\* stays locked between these statements, so the second attempt always inserts.
upsert_inserts(w) ==
    LET h == hit[w] IN
    /\ pc[w] = "guarded"
    /\ ~ KeyBusy(w, h)
    /\ \A a \in OpenFor(h) : ~ RowBusy(w, a) /\ ~ InWindow(a, h)
    /\ expired' = [expired EXCEPT ![w] = OpenFor(h)]
    /\ \E a \in Unused, g \in 0..MaxAlerts :
         /\ \A b \in Unused : a <= b
         /\ JoinedGroup(a, h, g)
         /\ alert' = [alert EXCEPT ![w] = a]
         /\ join' = [join EXCEPT ![w] = g]
    /\ related' = [related EXCEPT ![w] = {c \in Candidates(h) : group[c] = 0}]
    /\ pc' = [pc EXCEPT ![w] = "inserted"]
    /\ UNCHANGED <<rows, triage, triager, hit, done, deadLettered, counters>>

\* ALERT_UPSERT updates the open alert of the key.
upsert_updates(w) ==
    LET h == hit[w] IN
    /\ pc[w] = "guarded"
    /\ ~ KeyBusy(w, h)
    /\ \E a \in OpenFor(h) :
         /\ ~ RowBusy(w, a)
         /\ InWindow(a, h)
         /\ alert' = [alert EXCEPT ![w] = a]
    /\ pc' = [pc EXCEPT ![w] = "updated"]
    /\ UNCHANGED <<rows, triage, triager, hit, expired, join, related, done, deadLettered, counters>>

\* ASSIGN_CORRELATION_GROUP: a candidate that has a group by now keeps it.
assign_group(w) ==
    group' = [a \in AlertIds |-> IF a = alert[w] \/ (a \in related[w] /\ group[a] = 0)
                                 THEN join[w] ELSE group[a]]

\* The transaction that inserted links the event, assigns the group to the new
\* alert and to the candidates that still have none, and commits.
commit_insert(w) ==
    /\ pc[w] = "inserted"
    /\ \A c \in related[w] : ~ RowBusy(w, c)
    /\ state' = [a \in AlertIds |-> IF a = alert[w] THEN "new"
                                    ELSE IF a \in expired[w] THEN "closed" ELSE state[a]]
    /\ origin' = [origin EXCEPT ![alert[w]] = hit[w]]
    /\ occurrence_count' = [occurrence_count EXCEPT ![alert[w]] = 1]
    /\ last_seen' = [last_seen EXCEPT ![alert[w]] = event_time[hit[w]]]
    /\ scored_count' = [scored_count EXCEPT ![alert[w]] = 1]
    /\ arrived' = [arrived EXCEPT ![alert[w]] = 0]
    /\ assign_group(w)
    /\ links' = [links EXCEPT ![alert[w]] = {hit[w]}]
    /\ pc' = [pc EXCEPT ![w] = "committed"]
    /\ UNCHANGED <<triage, triager, transaction, done, deadLettered, counters>>

\* Mutant of commit_update: the event is linked and not counted.
commit_update_count_mutant(w) ==
    /\ pc[w] = "updated"
    /\ last_seen' = [last_seen EXCEPT ![alert[w]] = Higher(@, event_time[hit[w]])]
    /\ links' = [links EXCEPT ![alert[w]] = @ \cup {hit[w]}]
    /\ done' = done \cup {hit[w]}
    /\ Leave(w)
    /\ UNCHANGED <<state, origin, occurrence_count, scored_count, arrived, group, triage, triager, deadLettered, counters>>

\* Mutant of commit_update: the count before the update is compared with the tiers.
commit_update_tier_mutant(w) ==
    LET a == alert[w]
        n == occurrence_count[a] + 1
    IN
    /\ pc[w] = "updated"
    /\ occurrence_count' = [occurrence_count EXCEPT ![a] = n]
    /\ last_seen' = [last_seen EXCEPT ![a] = Higher(@, event_time[hit[w]])]
    /\ scored_count' = [scored_count EXCEPT ![a] = IF n - 1 \in {2, 5, 20} THEN n ELSE @]
    /\ arrived' = [arrived EXCEPT ![a] = IF n - 1 \in {2, 5, 20} THEN 0 ELSE @]
    /\ links' = [links EXCEPT ![a] = @ \cup {hit[w]}]
    /\ done' = done \cup {hit[w]}
    /\ Leave(w)
    /\ UNCHANGED <<state, origin, group, triage, triager, deadLettered, counters>>

\* The transaction that updated counts and links the event, recomputes the
\* priority when the count crosses a tier, and commits.
commit_update(w) ==
    LET a == alert[w]
        n == occurrence_count[a] + 1
    IN
    /\ pc[w] = "updated"
    /\ occurrence_count' = [occurrence_count EXCEPT ![a] = n]
    /\ last_seen' = [last_seen EXCEPT ![a] = Higher(@, event_time[hit[w]])]
    /\ scored_count' = [scored_count EXCEPT ![a] = IF n \in {2, 5, 20} THEN n ELSE @]
    /\ arrived' = [arrived EXCEPT ![a] = IF n \in {2, 5, 20} THEN 0 ELSE @]
    /\ links' = [links EXCEPT ![a] = @ \cup {hit[w]}]
    /\ done' = done \cup {hit[w]}
    /\ Leave(w)
    /\ UNCHANGED <<state, origin, group, triage, triager, deadLettered, counters>>

\* Mutant of publish: alerts that joined a correlation group are not published.
publish_mutant(w) ==
    /\ pc[w] = "committed"
    /\ triage' = IF join[w] = 0 THEN triage \cup {alert[w]} ELSE triage
    /\ done' = done \cup {hit[w]}
    /\ Leave(w)
    /\ UNCHANGED <<rows, triager, deadLettered, counters>>

\* After the commit the new alert is published for triage and the handler returns.
publish(w) ==
    /\ pc[w] = "committed"
    /\ triage' = triage \cup {alert[w]}
    /\ done' = done \cup {hit[w]}
    /\ Leave(w)
    /\ UNCHANGED <<rows, triager, deadLettered, counters>>

\* The handler raises or its process dies: a transaction not committed yet rolls
\* back, and the hit stays pending in the stream.
fail(w) ==
    /\ pc[w] # "idle"
    /\ duplicates + failures < MaxFaults
    /\ failures' = failures + 1
    /\ Leave(w)
    /\ UNCHANGED <<rows, triage, triager, done, deadLettered, duplicates, transitions>>

-----------------------------------------------------------------------------
(* Analysts: compare-and-set of the state, one statement per transaction *)

\* Mutant of transition: the update does not wait for the lock of the row.
transition_mutant(a, valid_from, to_state) ==
    /\ transitions < MaxTransitions
    /\ transitions' = transitions + 1
    /\ state[a] \in valid_from
    /\ state' = [state EXCEPT ![a] = to_state]
    /\ UNCHANGED <<origin, occurrence_count, last_seen, scored_count, arrived, group, links, triage,
                   triager, pc, transaction, done, deadLettered, duplicates, failures>>

\* _transition: the row is free to update and in one of the states valid_from.
transition(a, valid_from, to_state) ==
    /\ transitions < MaxTransitions
    /\ transitions' = transitions + 1
    /\ state[a] \in valid_from
    /\ \A w \in Workers : a \notin Locked(w)
    /\ state' = [state EXCEPT ![a] = to_state]
    /\ UNCHANGED <<origin, occurrence_count, last_seen, scored_count, arrived, group, links, triage,
                   triager, pc, transaction, done, deadLettered, duplicates, failures>>

acknowledge(a) == transition(a, {"new"}, "acknowledged")

close(a) == transition(a, {"new", "acknowledged"}, "closed")

\* Mutant of reopen: the unique index of open alerts does not exist.
reopen_mutant(a) == transition(a, {"closed"}, "new")

\* The unique index refuses a second open alert of the key, and waits for the
\* transaction that is inserting one.
reopen(a) ==
    /\ OpenFor(origin[a]) = {}
    /\ \A w \in Workers : pc[w] = "inserted" => ~ SameKey(hit[w], origin[a])
    /\ transition(a, {"closed"}, "new")

-----------------------------------------------------------------------------
(* Triagers: a read of the row, a model call of seconds, a write of the row *)

\* assemble_context reads the count of an alert that was published and whose
\* triage is pending; of any other the run is skipped.
assemble(t, a) ==
    /\ context[t] = NoContext
    /\ a \in triage \ triaged
    /\ context' = [context EXCEPT ![t] = [alert |-> a, count |-> occurrence_count[a]]]
    /\ UNCHANGED <<rows, triage, triaged, pc, transaction, done, deadLettered, counters>>

\* An UPDATE by id, whatever the state of the alert: it waits for the lock.
UpdatesRow(t) ==
    /\ context[t] # NoContext
    /\ \A w \in Workers : context[t].alert \notin Locked(w)
    /\ triaged' = triaged \cup {context[t].alert}
    /\ context' = [context EXCEPT ![t] = NoContext]

\* TriagePersister.persist_completed: the priority is computed from the count
\* that was read before the model call.
persist_completed(t) ==
    LET a == context[t].alert IN
    /\ UpdatesRow(t)
    /\ scored_count' = [scored_count EXCEPT ![a] = context[t].count]
    /\ arrived' = [arrived EXCEPT ![a] = occurrence_count[a] - context[t].count]
    /\ UNCHANGED <<state, origin, occurrence_count, last_seen, group, links, triage, pc,
                   transaction, done, deadLettered, counters>>

\* TriagePersister.persist_unavailable: the priority stays as it is.
persist_unavailable(t) ==
    /\ UpdatesRow(t)
    /\ UNCHANGED <<rows, triage, pc, transaction, done, deadLettered, counters>>

\* The run raises or its process dies; its message is delivered again.
triage_fails(t) ==
    /\ context[t] # NoContext
    /\ context' = [context EXCEPT ![t] = NoContext]
    /\ UNCHANGED <<rows, triage, triaged, pc, transaction, done, deadLettered, counters>>

-----------------------------------------------------------------------------
WorkerStep(w) ==
    \/ \E h \in Hits : handle_malformed(w, h) \/ handle_redelivered(w, h) \/ handle(w, h)
    \/ upsert_inserts(w)
    \/ upsert_updates(w)
    \/ commit_insert(w)
    \/ commit_update(w)
    \/ publish(w)

TriagerStep(t) ==
    \/ \E a \in AlertIds : assemble(t, a)
    \/ persist_completed(t)
    \/ persist_unavailable(t)
    \/ triage_fails(t)

Next ==
    \/ \E w \in Workers : WorkerStep(w) \/ fail(w)
    \/ \E a \in AlertIds : acknowledge(a) \/ close(a) \/ reopen(a)
    \/ \E t \in Triagers : TriagerStep(t)

Spec == Init /\ [][Next]_vars

\* Workers run and are restarted (compose.yaml: restart unless-stopped), and the
\* stream redelivers a hit until its handler returns (module StreamConsumer).
FairSpec == Spec /\ WF_vars(\E w \in Workers : WorkerStep(w))

-----------------------------------------------------------------------------
(* Properties *)

TypeOK ==
    /\ state \in [AlertIds -> {"free", "new", "acknowledged", "closed"}]
    /\ origin \in [AlertIds -> Hits]
    /\ occurrence_count \in [AlertIds -> Nat]
    /\ last_seen \in [AlertIds -> Nat]
    /\ scored_count \in [AlertIds -> Nat]
    /\ arrived \in [AlertIds -> Int]
    /\ group \in [AlertIds -> 0..MaxAlerts]
    /\ links \in [AlertIds -> SUBSET Hits]
    /\ triage \in SUBSET AlertIds
    /\ triaged \in SUBSET AlertIds
    /\ context \in [Triagers -> [alert : 0..MaxAlerts, count : Nat]]
    /\ pc \in [Workers -> {"idle", "guarded", "inserted", "updated", "committed"}]
    /\ hit \in [Workers -> Hits]
    /\ alert \in [Workers -> 0..MaxAlerts]
    /\ expired \in [Workers -> SUBSET AlertIds]
    /\ join \in [Workers -> 0..MaxAlerts]
    /\ related \in [Workers -> SUBSET AlertIds]
    /\ done \in SUBSET Hits
    /\ deadLettered \in SUBSET Hits
    /\ duplicates \in 0..MaxFaults
    /\ failures \in 0..MaxFaults
    /\ transitions \in 0..MaxTransitions

\* At most one open alert per rule and entity (AC-41/42), whatever workers
\* insert and analysts reopen concurrently.
OneOpenPerKey ==
    \A a, b \in Open : SameKey(origin[a], origin[b]) => a = b

\* occurrence_count never falls behind the linked events, and exceeds them by
\* at most the number of duplicate deliveries.
CountTracksLinks ==
    \A a \in AlertIds :
        /\ occurrence_count[a] >= Cardinality(links[a])
        /\ occurrence_count[a] <= Cardinality(links[a]) + duplicates

\* The occurrence tier in the stored priority lags the count by the hits that
\* were counted during the model call of the triage run that wrote it last, and
\* by no others: recomputing at 2, 5 and 20 (contract, section 3b) puts right
\* what a run wrote back late, and the priority is never ahead of the count.
PriorityTracksCount ==
    \A a \in AlertIds : state[a] # "free" =>
        /\ occurrence_component(scored_count[a] + arrived[a]) = occurrence_component(occurrence_count[a])
        /\ scored_count[a] <= occurrence_count[a]

\* An alert misses its triage message only if a handler died between the commit
\* and the XADD (the comment at the end of handle).
TriageMissedOnlyByFailure ==
    Cardinality({a \in AlertIds : /\ state[a] # "free"
                                 /\ a \notin triage
                                 /\ \A w \in Workers : ~ (pc[w] = "committed" /\ alert[w] = a)})
      <= failures

\* Closing ends counting: no hit is counted on or linked to a closed alert, also
\* by a transaction that found it open, until an analyst reopens it as new; its
\* priority is rewritten only by a triage run that had read it, which does not
\* look at the state (persist.py).  Its group may still be assigned.
ClosedTakesNoHits ==
    [][\A a \in AlertIds : state[a] = "closed" =>
         /\ state'[a] \in {"closed", "new"}
         /\ occurrence_count'[a] = occurrence_count[a]
         /\ links'[a] = links[a]
         /\ \/ scored_count'[a] = scored_count[a]
            \/ \E t \in Triagers : context[t] = [alert |-> a, count |-> scored_count'[a]]]_vars

\* Every hit ends linked to an alert of its rule and entity or in the dead-letter
\* table: no detection is lost between the stream and the queue.
EveryHitEnds ==
    <>(\A h \in Hits : \/ h \in deadLettered
                       \/ \E a \in AlertIds : h \in links[a] /\ SameKey(origin[a], h))
=============================================================================
