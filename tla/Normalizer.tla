------------------------------ MODULE Normalizer ------------------------------
(***************************************************************************)
(* The normalizer workers of one tenant                                    *)
(* (services/dataplane/src/dataplane/workers/normalizer.py): a batch of    *)
(* raw events becomes documents of the event store, messages on            *)
(* pipe:normalized and pipe:asset.observations, and dead-letter rows.      *)
(*                                                                         *)
(* Every run of the handler has a number.  It stands for the event_id the  *)
(* run gives to each event, a uuid4 drawn anew when a batch is redelivered.*)
(* A document is a pair of its _id and the run that stored it.  A batch    *)
(* that fails validation as a whole is a batch of one malformed event.     *)
(* Delivery is that of module AtLeastOnce.                                 *)
(***************************************************************************)
EXTENDS Integers, FiniteSets

CONSTANTS
    Workers,
    Batches,        \* messages of pipe:raw
    Events,
    events,         \* [Batches -> SUBSET Events]
    Malformed,      \* events that _normalize_one refuses
    source_event_id,\* [Events -> ids]: equal for an event its source sent twice
    month,          \* [Events -> months]: of event_time, or of ingest_time without one
    NoSourceId,     \* generic events without an id of their source
    HasHost,        \* events that name a host
    MaxRuns,        \* bound: runs of the handler
    MaxDuplicates,  \* bound: deliveries of a batch already taken
    MaxFailures     \* bound: runs that die, and runs with refused documents

Runs == 1..MaxRuns

ASSUME ConstantsAssumption ==
    /\ Batches # {}
    /\ events \in [Batches -> SUBSET Events]
    /\ IsFiniteSet(Events)
    /\ Malformed \subseteq Events
    /\ NoSourceId \subseteq Events
    /\ HasHost \subseteq Events
    /\ MaxRuns \in Nat
    /\ MaxDuplicates \in Nat
    /\ MaxFailures \in Nat

VARIABLES
    store,          \* the event store: set of <<_id, run>>
    normalized,     \* documents published on pipe:normalized
    observed,       \* documents whose host was published on pipe:asset.observations
    rows,           \* [Events -> Nat]: dead-letter rows of an event
    accepted, rejected, dropped,   \* usage counters of the day
    signal, step,   \* onboarding first_event: the Redis hash, the PG row
    pc, batch,
    run_no,         \* the run a worker is in
    created,        \* events stored by the run and not fanned out yet
    tally,          \* [stored, duplicates, refused]: what the bulk response said
    runs,           \* runs begun so far
    died,           \* runs that died before their end
    done, duplicates, failures

effects == <<store, normalized, observed, rows>>
usage == <<accepted, rejected, dropped>>
onboarding == <<signal, step>>
local == <<batch, run_no, created, tally>>
stream == <<runs, died, done, duplicates, failures>>
vars == <<effects, usage, onboarding, pc, local, stream>>

PC == {"idle", "deadletter", "reject", "bulk", "publish", "observe", "count", "mark", "onboard", "end"}

NoTally == [stored |-> 0, duplicates |-> 0, refused |-> 0]

Valid(b) == events[b] \ Malformed

\* The monthly index of the event and its derive_es_document_id, which is fresh
\* in every run for an event without a source id.
doc_id(e, r) == IF e \in NoSourceId THEN <<month[e], e, r>> ELSE <<month[e], source_event_id[e], 0>>

\* What the run makes of the event: its place in the store and its event_id.
doc(e, r) == <<doc_id(e, r), r>>

\* The _id is taken in the event store.
Exists(id) == \E r \in Runs : <<id, r>> \in store

Init ==
    /\ store = {}
    /\ normalized = {}
    /\ observed = {}
    /\ rows = [e \in Events |-> 0]
    /\ accepted = 0 /\ rejected = 0 /\ dropped = 0
    /\ signal = FALSE /\ step = FALSE
    /\ pc = [w \in Workers |-> "idle"]
    /\ batch = [w \in Workers |-> CHOOSE b \in Batches : TRUE]
    /\ run_no = [w \in Workers |-> 0]
    /\ created = [w \in Workers |-> {}]
    /\ tally = [w \in Workers |-> NoTally]
    /\ runs = 0
    /\ died = {}
    /\ done = {}
    /\ duplicates = 0
    /\ failures = 0

-----------------------------------------------------------------------------
Goto(w, l) == pc' = [pc EXCEPT ![w] = l]

\* The stream delivers a batch and the handler normalizes its events.
handle(w, b) ==
    /\ pc[w] = "idle"
    /\ runs < MaxRuns
    /\ IF b \in done \/ \E v \in Workers : pc[v] # "idle" /\ batch[v] = b
       THEN duplicates < MaxDuplicates /\ duplicates' = duplicates + 1
       ELSE UNCHANGED duplicates
    /\ runs' = runs + 1
    /\ batch' = [batch EXCEPT ![w] = b]
    /\ run_no' = [run_no EXCEPT ![w] = runs + 1]
    /\ created' = [created EXCEPT ![w] = {}]
    /\ tally' = [tally EXCEPT ![w] = NoTally]
    /\ Goto(w, IF events[b] \cap Malformed # {} THEN "deadletter" ELSE "bulk")
    /\ UNCHANGED <<effects, usage, onboarding, died, done, failures>>

\* _dead_letter_events: one row for each malformed event, in one transaction.
dead_letter_events(w) ==
    /\ pc[w] = "deadletter"
    /\ rows' = [e \in Events |-> IF e \in events[batch[w]] \cap Malformed THEN rows[e] + 1 ELSE rows[e]]
    /\ Goto(w, "reject")
    /\ UNCHANGED <<store, normalized, observed, usage, onboarding, local, stream>>

\* ... and the counter of rejected events; the handler returns if no event is left.
count_rejected(w) ==
    /\ pc[w] = "reject"
    /\ rejected' = rejected + Cardinality(events[batch[w]] \cap Malformed)
    /\ Goto(w, IF Valid(batch[w]) = {} THEN "end" ELSE "bulk")
    /\ UNCHANGED <<effects, accepted, dropped, onboarding, local, stream>>

\* Mutant of bulk: op_type=index, a document that exists is written again.
bulk_index_mutant(w) ==
    LET b == batch[w]  r == run_no[w] IN
    /\ pc[w] = "bulk"
    /\ store' = store \cup {doc(e, r) : e \in Valid(b)}
    /\ created' = [created EXCEPT ![w] = Valid(b)]
    /\ tally' = [tally EXCEPT ![w] = [NoTally EXCEPT !.stored = Cardinality(Valid(b))]]
    /\ Goto(w, "publish")
    /\ UNCHANGED <<normalized, observed, rows, usage, onboarding, batch, run_no, stream>>

\* es.bulk with op_type=create: of the events with the same _id one at most is
\* stored, and only if the _id is free; the others are conflicts (409), except
\* those the store refuses for another reason.
bulk(w) ==
    LET b == batch[w]
        r == run_no[w]
        Free(e) == ~ Exists(doc_id(e, r))
    IN
    /\ pc[w] = "bulk"
    /\ \E stored \in SUBSET {e \in Valid(b) : Free(e)} :
       \E refused \in SUBSET ({e \in Valid(b) : Free(e)} \ stored) :
         /\ \A e, x \in stored : doc_id(e, r) = doc_id(x, r) => e = x
         /\ \A e \in Valid(b) \ (stored \cup refused) :
              Free(e) => \E x \in stored : doc_id(e, r) = doc_id(x, r)
         /\ refused # {} => failures < MaxFailures
         /\ failures' = IF refused # {} THEN failures + 1 ELSE failures
         /\ store' = store \cup {doc(e, r) : e \in stored}
         /\ created' = [created EXCEPT ![w] = stored]
         /\ tally' = [tally EXCEPT ![w] =
              [stored     |-> Cardinality(stored),
               duplicates |-> Cardinality(Valid(b) \ (stored \cup refused)),
               refused    |-> Cardinality(refused)]]
    /\ Goto(w, "publish")
    /\ UNCHANGED <<normalized, observed, rows, usage, onboarding, batch, run_no, runs, died, done,
                   duplicates>>

\* Mutant of publish: a batch with refused documents is not fanned out.
publish_mutant(w) ==
    /\ pc[w] = "publish"
    /\ \/ /\ created[w] = {} \/ tally[w].refused > 0
          /\ Goto(w, "count")
          /\ UNCHANGED <<normalized, created>>
       \/ /\ tally[w].refused = 0
          /\ \E e \in created[w] :
               /\ normalized' = normalized \cup {doc(e, run_no[w])}
               /\ created' = [created EXCEPT ![w] = @ \ {e}]
               /\ Goto(w, "publish")
    /\ UNCHANGED <<store, observed, rows, usage, onboarding, batch, run_no, tally, stream>>

\* The fan-out: XADD pipe:normalized for the next stored event ...
publish(w) ==
    /\ pc[w] = "publish"
    /\ \/ /\ created[w] = {}
          /\ Goto(w, "count")
          /\ UNCHANGED normalized
       \/ \E e \in created[w] :
            /\ normalized' = normalized \cup {doc(e, run_no[w])}
            /\ Goto(w, "observe")
    /\ UNCHANGED <<store, observed, rows, usage, onboarding, local, stream>>

\* ... and the observation of its host on pipe:asset.observations.
observe(w) ==
    /\ pc[w] = "observe"
    /\ \E e \in created[w] :
         /\ doc(e, run_no[w]) \in normalized
         /\ observed' = IF e \in HasHost THEN observed \cup {doc(e, run_no[w])} ELSE observed
         /\ created' = [created EXCEPT ![w] = @ \ {e}]
    /\ Goto(w, "publish")
    /\ UNCHANGED <<store, normalized, rows, usage, onboarding, batch, run_no, tally, stream>>

\* The usage counters of accepted and duplicate events.
count(w) ==
    /\ pc[w] = "count"
    /\ accepted' = accepted + tally[w].stored
    /\ dropped' = dropped + tally[w].duplicates
    /\ Goto(w, IF tally[w].stored > 0 THEN "mark" ELSE "end")
    /\ UNCHANGED <<effects, rejected, onboarding, local, stream>>

\* _mark_first_event: HSETNX, and the PG row only if the field was not set.
mark_first_event(w) ==
    /\ pc[w] = "mark"
    /\ signal' = TRUE
    /\ Goto(w, IF signal THEN "end" ELSE "onboard")
    /\ UNCHANGED <<effects, usage, step, local, stream>>

mark_onboarding_step(w) ==
    /\ pc[w] = "onboard"
    /\ step' = TRUE
    /\ Goto(w, "end")
    /\ UNCHANGED <<effects, usage, signal, local, stream>>

\* Mutant of finish: refused documents do not fail the handler.
finish_mutant(w) ==
    /\ pc[w] = "end"
    /\ done' = done \cup {batch[w]}
    /\ Goto(w, "idle")
    /\ UNCHANGED <<effects, usage, onboarding, local, runs, died, duplicates, failures>>

\* The handler raises if the store refused documents, else it returns.
finish(w) ==
    /\ pc[w] = "end"
    /\ done' = IF tally[w].refused > 0 THEN done ELSE done \cup {batch[w]}
    /\ Goto(w, "idle")
    /\ UNCHANGED <<effects, usage, onboarding, local, runs, died, duplicates, failures>>

\* The process dies or a call raises (a bulk request whose response is lost
\* included): the batch stays pending in the stream.
fail(w) ==
    /\ pc[w] # "idle"
    /\ failures < MaxFailures
    /\ failures' = failures + 1
    /\ died' = died \cup {run_no[w]}
    /\ Goto(w, "idle")
    /\ UNCHANGED <<effects, usage, onboarding, local, runs, done, duplicates>>

WorkerStep(w) ==
    \/ \E b \in Batches : handle(w, b)
    \/ dead_letter_events(w)
    \/ count_rejected(w)
    \/ bulk(w)
    \/ publish(w)
    \/ observe(w)
    \/ count(w)
    \/ mark_first_event(w)
    \/ mark_onboarding_step(w)
    \/ finish(w)

Next == \E w \in Workers : WorkerStep(w) \/ fail(w)

Spec == Init /\ [][Next]_vars

-----------------------------------------------------------------------------
(* Properties *)

Docs == {doc(e, r) : e \in Events, r \in Runs}

\* Types: what the handler has not fanned out yet, it stored in this run, and the
\* bulk response accounts for every event sent (zip with strict=True).
TypeOK ==
    /\ store \subseteq Docs
    /\ normalized \subseteq Docs
    /\ observed \subseteq normalized
    /\ rows \in [Events -> Nat]
    /\ accepted \in Nat /\ rejected \in Nat /\ dropped \in Nat
    /\ signal \in BOOLEAN /\ step \in BOOLEAN
    /\ pc \in [Workers -> PC]
    /\ batch \in [Workers -> Batches]
    /\ run_no \in [Workers -> 0..runs]
    /\ created \in [Workers -> SUBSET Events]
    /\ tally \in [Workers -> [stored : Nat, duplicates : Nat, refused : Nat]]
    /\ runs \in 0..MaxRuns
    /\ died \subseteq 1..runs
    /\ done \subseteq Batches
    /\ duplicates \in 0..MaxDuplicates
    /\ failures \in 0..MaxFailures

\* AC-91 and design 4: once a batch is acknowledged, every event of it is stored
\* or has a dead-letter row; none is lost between the two.
StoredOrDeadLettered ==
    \A b \in done : \A e \in events[b] :
       IF e \in Malformed THEN rows[e] > 0 ELSE \E r \in Runs : Exists(doc_id(e, r))

\* AC-34: redeliveries, concurrent runs and events repeated inside a batch never
\* put two documents under one _id, so the detector sees an event of one source
\* id and month under one event_id only.
StoredOnce == \A d, x \in store : d[1] = x[1] => d = x

\* A stored document misses its fan-out only if the run that stored it died: a
\* run with refused documents still publishes the ones it stored.
UnpublishedOnlyByFailure ==
    \A d \in store \ normalized :
       \/ d[2] \in died
       \/ \E w \in Workers : pc[w] \in {"publish", "observe"} /\ run_no[w] = d[2]

=============================================================================
