--------------------------- MODULE StreamConsumer ---------------------------
(***************************************************************************)
(* The pipeline transport, packages/pipeline/src/soc_pipeline: one Redis   *)
(* stream, one consumer group on it, the producer that XADDs to it and the *)
(* StreamConsumer workers of the group (consumer.py).                      *)
(*                                                                         *)
(* Stream entries are numbered in XADD order.  An entry is in the group's  *)
(* pending-entries list (PEL) while timesDelivered is positive.  The name  *)
(* of the consumer that owns a PEL entry is not kept: XREADGROUP is only   *)
(* called with ">" and XAUTOCLAIM takes entries of every owner, so no step *)
(* of the code depends on it.                                              *)
(*                                                                         *)
(* Every await of the code at which another worker can run is a step:      *)
(* the read or claim of a batch, the XPENDING lookup, the handler, the     *)
(* dead-letter callback, the XACK.                                         *)
(***************************************************************************)
EXTENDS Integers, FiniteSets

CONSTANTS
    Consumers,            \* the workers of the consumer group
    MaxEntries,           \* bound: entries published in a behaviour
    MaxLen,               \* MAXLEN of the stream (approximate trim)
    BatchSize,            \* batch_size: COUNT of XREADGROUP and XAUTOCLAIM
    MaxDeliveryAttempts,  \* max_delivery_attempts
    Malformed,            \* entries whose envelope does not parse
    MaxCrashes            \* bound: worker crashes in a behaviour

Entries == 1..MaxEntries

ASSUME ConstantsAssumption ==
    /\ IsFiniteSet(Consumers)
    /\ MaxEntries \in Nat
    /\ MaxLen \in Nat \ {0}
    /\ BatchSize \in Nat \ {0}
    /\ MaxDeliveryAttempts \in Nat \ {0}
    /\ Malformed \subseteq Entries
    /\ MaxCrashes \in Nat

VARIABLES
    published,       \* entries XADDed so far are 1..published
    firstRetained,   \* entries below it were trimmed by MAXLEN
    lastDelivered,   \* the group's last-delivered-id
    timesDelivered,  \* PEL: times_delivered of a pending entry, 0 if not pending
    idle,            \* pending entries idle for min_idle_ms or longer
    pc,              \* what each worker is doing
    mode,            \* whether its batch comes from poll_once or claim_stuck_once
    batch,           \* entries of its batch not yet finished
    deliveryCount,   \* delivery_count of the entry it is processing
    crashes,
    \* history of the effects, which live outside Redis
    handled,         \* entries for which some handler run completed
    deadLettered,    \* entries handed to the dead-letter callback
    starts           \* handler runs begun for each entry

redis == <<published, firstRetained, lastDelivered, timesDelivered, idle>>
worker == <<pc, mode, batch, deliveryCount, crashes>>
effects == <<handled, deadLettered, starts>>
vars == <<redis, worker, effects>>

PC == {"idle", "inspect", "handle", "dead", "ack"}

Pending == {e \in Entries : timesDelivered[e] > 0}

\* The first n members of a set of entries, in stream order.
FirstN(S, n) == {e \in S : Cardinality({x \in S : x < e}) < n}

\* A batch is processed in stream order: the entry a worker is at.
AtEntry(c, e) == e \in batch[c] /\ \A x \in batch[c] : e <= x

Max(m, n) == IF m >= n THEN m ELSE n

Init ==
    /\ published = 0
    /\ firstRetained = 1
    /\ lastDelivered = 0
    /\ timesDelivered = [e \in Entries |-> 0]
    /\ idle = {}
    /\ pc = [c \in Consumers |-> "idle"]
    /\ mode = [c \in Consumers |-> "poll"]
    /\ batch = [c \in Consumers |-> {}]
    /\ deliveryCount = [c \in Consumers |-> 1]
    /\ crashes = 0
    /\ handled = {}
    /\ deadLettered = {}
    /\ starts = [e \in Entries |-> 0]

-----------------------------------------------------------------------------
(* Producer *)

\* StreamProducer.publish: XADD MAXLEN ~ maxlen.  An approximate trim removes
\* any number of the oldest entries as long as maxlen of them stay.
publish ==
    /\ published < MaxEntries
    /\ published' = published + 1
    /\ firstRetained' \in firstRetained .. Max(firstRetained, published' + 1 - MaxLen)
    /\ UNCHANGED <<lastDelivered, timesDelivered, idle, worker, effects>>

-----------------------------------------------------------------------------
(* Worker: taking a batch *)

\* poll_once: XREADGROUP ">" moves the group's cursor over the entries read,
\* which enter the PEL with times_delivered = 1.
Unread == {e \in Entries : e > lastDelivered /\ e >= firstRetained /\ e <= published}

poll_once(c) ==
    /\ pc[c] = "idle"
    /\ Unread # {}
    /\ LET read == FirstN(Unread, BatchSize) IN
       /\ lastDelivered' \in read
       /\ \A e \in read : e <= lastDelivered'
       /\ timesDelivered' = [e \in Entries |-> IF e \in read THEN 1 ELSE timesDelivered[e]]
       /\ batch' = [batch EXCEPT ![c] = read]
    /\ mode' = [mode EXCEPT ![c] = "poll"]
    /\ pc' = [pc EXCEPT ![c] = "inspect"]
    /\ UNCHANGED <<published, firstRetained, idle, deliveryCount, crashes, effects>>

\* Mutant of Claimable: entries that reached the limit are no longer claimed.
Claimable_mutant == {e \in Pending : \/ e < firstRetained
                                     \/ e \in idle /\ timesDelivered[e] < MaxDeliveryAttempts}

\* claim_stuck_once: XAUTOCLAIM from 0-0.  Redis drops the trimmed entries the
\* scan meets from the PEL and returns the idle ones with times_delivered
\* incremented and their idle time reset.
Claimable == {e \in Pending : e < firstRetained \/ e \in idle}

claim_stuck_once(c) ==
    /\ pc[c] = "idle"
    /\ Claimable # {}
    /\ LET scan    == FirstN(Claimable, BatchSize)
           claimed == {e \in scan : e >= firstRetained}
       IN
       /\ timesDelivered' = [e \in Entries |->
                               IF e \in claimed THEN timesDelivered[e] + 1
                               ELSE IF e \in scan THEN 0
                               ELSE timesDelivered[e]]
       /\ idle' = idle \ scan
       /\ batch' = [batch EXCEPT ![c] = claimed]
       /\ pc' = [pc EXCEPT ![c] = IF claimed = {} THEN "idle" ELSE "inspect"]
    /\ mode' = [mode EXCEPT ![c] = "claim"]
    /\ UNCHANGED <<published, firstRetained, lastDelivered, deliveryCount, crashes, effects>>

\* Passing of time: a pending entry has been idle for min_idle_ms.
IdleElapses(e) ==
    /\ e \in Pending \ idle
    /\ idle' = idle \cup {e}
    /\ UNCHANGED <<published, firstRetained, lastDelivered, timesDelivered, worker, effects>>

-----------------------------------------------------------------------------
(* Worker: processing the entries of its batch one after the other *)

\* The loops of poll_once and claim_stuck_once go on with the next entry.
Advance(c, e) ==
    /\ batch' = [batch EXCEPT ![c] = @ \ {e}]
    /\ pc' = [pc EXCEPT ![c] = IF batch[c] = {e} THEN "idle" ELSE "inspect"]

\* _delivery_count: XPENDING of the entry; 1 when the entry is not pending.
delivery_count(e) == IF timesDelivered[e] > 0 THEN timesDelivered[e] ELSE 1

\* The delivery_count argument poll_once and claim_stuck_once give to _process.
Observed(c, e) == IF mode[c] = "poll" THEN 1 ELSE delivery_count(e)

\* Mutant of Exhausted: the check of the limit is dropped.
Exhausted_mutant(c, e) == FALSE

\* claim_stuck_once: an entry at or over the limit is dead-lettered unprocessed.
Exhausted(c, e) == mode[c] = "claim" /\ Observed(c, e) >= MaxDeliveryAttempts

\* From taking the entry up to the call of the dead-letter callback: the entry
\* is exhausted, or _process finds its envelope malformed.
give_up(c) ==
    /\ pc[c] = "inspect"
    /\ \E e \in Entries :
         /\ AtEntry(c, e)
         /\ Exhausted(c, e) \/ e \in Malformed
         /\ deliveryCount' = [deliveryCount EXCEPT ![c] = Observed(c, e)]
    /\ pc' = [pc EXCEPT ![c] = "dead"]
    /\ UNCHANGED <<redis, mode, batch, crashes, effects>>

\* _process up to the call of the handler.
process(c) ==
    /\ pc[c] = "inspect"
    /\ \E e \in Entries :
         /\ AtEntry(c, e)
         /\ ~ Exhausted(c, e)
         /\ e \notin Malformed
         /\ deliveryCount' = [deliveryCount EXCEPT ![c] = Observed(c, e)]
         /\ starts' = [starts EXCEPT ![e] = @ + 1]
    /\ pc' = [pc EXCEPT ![c] = "handle"]
    /\ UNCHANGED <<redis, mode, batch, crashes, handled, deadLettered>>

\* The handler returns: its side effects are complete.
handler_returns(c) ==
    /\ pc[c] = "handle"
    /\ \E e \in Entries : AtEntry(c, e) /\ handled' = handled \cup {e}
    /\ pc' = [pc EXCEPT ![c] = "ack"]
    /\ UNCHANGED <<redis, mode, batch, deliveryCount, crashes, deadLettered, starts>>

\* Mutant of handler_raises: a failed entry is acked as if it had been handled.
handler_raises_mutant(c) ==
    /\ pc[c] = "handle"
    /\ pc' = [pc EXCEPT ![c] = "ack"]
    /\ UNCHANGED <<redis, mode, batch, deliveryCount, crashes, effects>>

\* The handler raises: dead-letter at the limit, else leave the entry pending.
handler_raises(c) ==
    /\ pc[c] = "handle"
    /\ \/ /\ deliveryCount[c] >= MaxDeliveryAttempts
          /\ pc' = [pc EXCEPT ![c] = "dead"]
          /\ UNCHANGED batch
       \/ /\ deliveryCount[c] < MaxDeliveryAttempts
          /\ \E e \in Entries : AtEntry(c, e) /\ Advance(c, e)
    /\ UNCHANGED <<redis, mode, deliveryCount, crashes, effects>>

\* The callback of the workers: one row, under the entry's tenant or the platform's.
dead_letter(e) == deadLettered' = deadLettered \cup {e}

\* _to_dead_letter: the callback has stored the entry.
to_dead_letter(c) ==
    /\ pc[c] = "dead"
    /\ \E e \in Entries : AtEntry(c, e) /\ dead_letter(e)
    /\ pc' = [pc EXCEPT ![c] = "ack"]
    /\ UNCHANGED <<redis, mode, batch, deliveryCount, crashes, handled, starts>>

\* _ack: XACK removes the entry from the PEL, whoever claimed it meanwhile.
ack(c) ==
    /\ pc[c] = "ack"
    /\ \E e \in Entries :
         /\ AtEntry(c, e)
         /\ timesDelivered' = [timesDelivered EXCEPT ![e] = 0]
         /\ idle' = idle \ {e}
         /\ Advance(c, e)
    /\ UNCHANGED <<published, firstRetained, lastDelivered, mode, deliveryCount, crashes, effects>>

\* The process dies, or an await outside the handler raises (the dead-letter
\* callback, a Redis call) and ends run(); it is restarted with an empty batch.
crash(c) ==
    /\ pc[c] # "idle"
    /\ crashes < MaxCrashes
    /\ crashes' = crashes + 1
    /\ pc' = [pc EXCEPT ![c] = "idle"]
    /\ batch' = [batch EXCEPT ![c] = {}]
    /\ UNCHANGED <<redis, mode, deliveryCount, effects>>

-----------------------------------------------------------------------------
WorkerStep(c) ==
    \/ poll_once(c)
    \/ claim_stuck_once(c)
    \/ give_up(c)
    \/ process(c)
    \/ handler_returns(c)
    \/ handler_raises(c)
    \/ to_dead_letter(c)
    \/ ack(c)

Next ==
    \/ publish
    \/ \E e \in Entries : IdleElapses(e)
    \/ \E c \in Consumers : WorkerStep(c) \/ crash(c)

Spec == Init /\ [][Next]_vars

\* Workers run and are restarted when they die (compose.yaml: restart
\* unless-stopped), a handler call ends, and time passes.
Fairness ==
    /\ \A c \in Consumers : WF_vars(WorkerStep(c))
    /\ \A e \in Entries : WF_vars(IdleElapses(e))

FairSpec == Spec /\ Fairness

-----------------------------------------------------------------------------
(* Properties *)

TypeOK ==
    /\ published \in 0..MaxEntries
    /\ firstRetained \in 1..(MaxEntries + 1)
    /\ lastDelivered \in 0..MaxEntries
    /\ timesDelivered \in [Entries -> Nat]
    /\ idle \in SUBSET Entries
    /\ pc \in [Consumers -> PC]
    /\ mode \in [Consumers -> {"poll", "claim"}]
    /\ batch \in [Consumers -> SUBSET Entries]
    /\ deliveryCount \in [Consumers -> Nat]
    /\ crashes \in 0..MaxCrashes
    /\ handled \in SUBSET Entries
    /\ deadLettered \in SUBSET Entries
    /\ starts \in [Entries -> Nat]

\* No message is lost silently (AC-91): an entry that was published is still
\* unread, or pending, or a handler run for it completed, or it is in the
\* dead-letter table, or the length cap of the stream dropped it.
NoSilentLoss ==
    \A e \in 1..published :
        \/ e > lastDelivered
        \/ e \in Pending
        \/ e \in handled \cup deadLettered
        \/ e < firstRetained

\* What makes NoSilentLoss inductive: the group cursor and the trim stay within
\* the stream, only delivered entries are pending or in a batch, and a worker
\* about to XACK an entry has completed its effect.
CursorsInStream ==
    /\ lastDelivered <= published
    /\ firstRetained <= published + 1
    /\ \A e \in Pending : e <= lastDelivered
    /\ \A c \in Consumers : \A e \in batch[c] : e <= lastDelivered

AckHasEffect ==
    \A c \in Consumers : \A e \in Entries :
        pc[c] = "ack" /\ AtEntry(c, e) => e \in handled \cup deadLettered

IInv == TypeOK /\ CursorsInStream /\ AckHasEffect /\ NoSilentLoss

\* The handler runs for an entry a bounded number of times, whatever crashes
\* and reclaims happen: the deliveries below max_delivery_attempts, and one
\* run for each other worker that had claimed the entry before its XACK and
\* finds it not pending in _delivery_count.
HandlerRunsBounded ==
    \A e \in Entries :
        starts[e] <= Max(1, MaxDeliveryAttempts - 1) + Cardinality(Consumers) - 1

\* Every published entry is eventually settled: its effect is complete and it
\* is out of the PEL, or it was trimmed.  A handler that fails or a worker that
\* dies only delays it (consumer.py: XAUTOCLAIM and the delivery limit).
EventuallySettled ==
    \A e \in Entries :
        e <= published ~> \/ e < firstRetained
                         \/ e \in (handled \cup deadLettered) \ Pending

\* The transport implements the at-least-once queue its users rely on.
Queue == INSTANCE AtLeastOnce WITH
            Messages <- Entries,
            sent     <- 1..published,
            effected <- handled \cup deadLettered,
            expired  <- 1..(firstRetained - 1),
            settled  <- {e \in 1..lastDelivered : e \notin Pending}

ImplementsAtLeastOnce == Queue!Spec
=============================================================================
