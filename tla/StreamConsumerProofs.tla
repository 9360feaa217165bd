------------------------ MODULE StreamConsumerProofs ------------------------
(***************************************************************************)
(* Proofs about StreamConsumer, for every set of workers, batch size,      *)
(* length cap and delivery limit.                                          *)
(***************************************************************************)
EXTENDS StreamConsumer, FiniteSetTheorems, TLAPS

\* A batch taken from a set of entries holds only members of that set.
LEMMA FirstNSubset == \A S, n : FirstN(S, n) \subseteq S
  BY DEF FirstN

\* A worker is at no more than one entry of its batch.
LEMMA AtEntryUnique ==
  ASSUME NEW c \in Consumers, TypeOK,
         NEW e \in Entries, NEW f \in Entries, AtEntry(c, e), AtEntry(c, f)
  PROVE  e = f
  BY ConstantsAssumption DEF ConstantsAssumption, AtEntry, TypeOK, Entries

\* The invariant holds initially.
LEMMA InitIInv == Init => IInv
  BY ConstantsAssumption
     DEF ConstantsAssumption, Init, IInv, TypeOK, CursorsInStream, AckHasEffect, NoSilentLoss,
         Pending, Entries, PC, AtEntry

\* Each step preserves the invariant.
LEMMA StepIInv == IInv /\ [Next]_vars => IInv'
  <1> SUFFICES ASSUME IInv, [Next]_vars PROVE IInv'
    OBVIOUS
  <1> USE ConstantsAssumption DEF ConstantsAssumption
  <1>0. Entries \subseteq Nat /\ Pending \subseteq Entries
    BY DEF Entries, Pending
  <1>1. CASE publish
    <2>1. TypeOK' /\ CursorsInStream'
      BY <1>1 DEF publish, worker, effects, IInv, TypeOK, CursorsInStream, Pending, Max, Entries
    <2>2. AckHasEffect'
      BY <1>1 DEF publish, worker, effects, IInv, AckHasEffect, AtEntry
    <2>3. NoSilentLoss'
      BY <1>1 DEF publish, effects, IInv, TypeOK, CursorsInStream, NoSilentLoss, Pending, Max, Entries
    <2> QED BY <2>1, <2>2, <2>3 DEF IInv
  <1>2. ASSUME NEW e \in Entries, IdleElapses(e) PROVE IInv'
    BY <1>2 DEF IdleElapses, worker, effects, IInv, TypeOK, CursorsInStream,
                AckHasEffect, NoSilentLoss, Pending, AtEntry
  <1>3. ASSUME NEW c \in Consumers, poll_once(c) PROVE IInv'
    <2> DEFINE read == FirstN(Unread, BatchSize)
    <2>1. read \subseteq Unread /\ Unread \subseteq Entries
      BY FirstNSubset DEF Unread
    <2>2. /\ lastDelivered' \in read
          /\ timesDelivered' = [e \in Entries |-> IF e \in read THEN 1 ELSE timesDelivered[e]]
          /\ batch' = [batch EXCEPT ![c] = read]
          /\ mode' = [mode EXCEPT ![c] = "poll"]
          /\ pc' = [pc EXCEPT ![c] = "inspect"]
          /\ \A e \in read : e <= lastDelivered'
          /\ UNCHANGED <<published, firstRetained, idle, deliveryCount, crashes, handled, deadLettered, starts>>
      BY <1>3 DEF poll_once, effects
    <2> HIDE DEF read
    <2>3. lastDelivered' \in Entries /\ lastDelivered' > lastDelivered /\ lastDelivered' <= published
      BY <2>1, <2>2 DEF Unread
    <2>4. TypeOK'
      <3>1. timesDelivered' \in [Entries -> Nat] /\ batch' \in [Consumers -> SUBSET Entries]
        BY <2>1, <2>2 DEF IInv, TypeOK
      <3>2. lastDelivered' \in 0..MaxEntries
        BY <2>3 DEF Entries
      <3> QED BY <3>1, <3>2, <2>2 DEF IInv, TypeOK, PC
    <2>5. CursorsInStream'
      BY <2>1, <2>2, <2>3, <1>0 DEF IInv, TypeOK, CursorsInStream, Pending, Entries
    <2>6. AckHasEffect'
      BY <2>2 DEF IInv, TypeOK, AckHasEffect, AtEntry
    <2>7. NoSilentLoss'
      <3> SUFFICES ASSUME NEW e \in 1..published,
                          ~ (e > lastDelivered'), e \notin Pending',
                          e \notin handled \cup deadLettered
                   PROVE  e < firstRetained
        BY <2>2 DEF NoSilentLoss
      <3>1. e \in Entries /\ e \notin read /\ e \notin Pending
        BY <2>2, <1>0 DEF Pending, IInv, TypeOK, Entries
      <3>2. CASE e <= lastDelivered
        BY <3>1, <3>2 DEF IInv, TypeOK, NoSilentLoss
      <3>3. CASE e > lastDelivered /\ e >= firstRetained
        \* the entries read are the first unread ones, so none is skipped
        <4> DEFINE below(x) == {y \in Unread : y < x}
        <4>1. e \in Unread /\ lastDelivered' \in Unread
          BY <3>1, <3>3, <2>1, <2>2 DEF Unread
        <4>2. e # lastDelivered' /\ e < lastDelivered'
          BY <3>1, <2>2, <2>3 DEF IInv, TypeOK, Entries
        <4>3. below(e) \subseteq below(lastDelivered') /\ IsFiniteSet(below(lastDelivered'))
          <5>1. below(e) \subseteq below(lastDelivered')
            BY <4>2, <2>3, <1>0 DEF Unread, Entries
          <5>2. IsFiniteSet(Entries)
            BY FS_Interval DEF Entries
          <5>3. below(lastDelivered') \subseteq Entries
            BY DEF Unread
          <5> QED BY <5>1, <5>2, <5>3, FS_Subset
        <4>4. Cardinality(below(e)) <= Cardinality(below(lastDelivered'))
          BY <4>3, FS_Subset
        <4>5. Cardinality(below(lastDelivered')) < BatchSize
          BY <2>2, <4>1 DEF read, FirstN
        <4>6. Cardinality(below(e)) \in Nat /\ Cardinality(below(lastDelivered')) \in Nat
          BY <4>3, FS_Subset, FS_CardinalityType
        <4>7. Cardinality(below(e)) < BatchSize
          BY <4>4, <4>5, <4>6
        <4>8. e \in read
          BY <4>7, <4>1 DEF read, FirstN
        <4> QED BY <4>8, <3>1
      <3> QED BY <3>2, <3>3 DEF IInv, TypeOK, Entries
    <2> QED BY <2>4, <2>5, <2>6, <2>7 DEF IInv
  <1>4. ASSUME NEW c \in Consumers, claim_stuck_once(c) PROVE IInv'
    <2> DEFINE scan    == FirstN(Claimable, BatchSize)
               claimed == {e \in scan : e >= firstRetained}
    <2>1. scan \subseteq Claimable /\ Claimable \subseteq Pending /\ claimed \subseteq scan
      BY FirstNSubset DEF Claimable
    <2>2. /\ timesDelivered' = [e \in Entries |->
                IF e \in claimed THEN timesDelivered[e] + 1
                ELSE IF e \in scan THEN 0 ELSE timesDelivered[e]]
          /\ idle' = idle \ scan
          /\ batch' = [batch EXCEPT ![c] = claimed]
          /\ pc' = [pc EXCEPT ![c] = IF claimed = {} THEN "idle" ELSE "inspect"]
          /\ mode' = [mode EXCEPT ![c] = "claim"]
          /\ UNCHANGED <<published, firstRetained, lastDelivered, deliveryCount, crashes,
                         handled, deadLettered, starts>>
      BY <1>4 DEF claim_stuck_once, effects
    <2>3. ASSUME NEW e \in scan, e \notin claimed PROVE e < firstRetained
      <3> HIDE DEF scan
      <3>1. e \in Nat
        BY <2>1, <1>0
      <3>3. firstRetained \in Nat
        BY DEF IInv, TypeOK
      <3>2. ~ (e >= firstRetained)
        BY <2>3
      <3> QED BY <3>1, <3>2, <3>3
    <2> HIDE DEF scan, claimed
    <2>4. TypeOK'
      BY <2>1, <2>2, <1>0 DEF IInv, TypeOK, PC
    <2>5. CursorsInStream'
      BY <2>1, <2>2, <1>0 DEF IInv, TypeOK, CursorsInStream, Pending
    <2>6. AckHasEffect'
      BY <2>2 DEF IInv, TypeOK, AckHasEffect, AtEntry
    <2>7. NoSilentLoss'
      BY <2>1, <2>2, <2>3, <1>0 DEF IInv, TypeOK, NoSilentLoss, Pending, Entries
    <2> QED BY <2>4, <2>5, <2>6, <2>7 DEF IInv
  <1>5. ASSUME NEW c \in Consumers, give_up(c) PROVE IInv'
    <2>1. TypeOK'
      BY <1>5 DEF give_up, redis, effects, IInv, TypeOK, Observed, delivery_count, PC
    <2>2. CursorsInStream' /\ AckHasEffect' /\ NoSilentLoss'
      BY <1>5 DEF give_up, redis, effects, IInv, TypeOK, CursorsInStream, AckHasEffect,
                  NoSilentLoss, Pending, AtEntry
    <2> QED BY <2>1, <2>2 DEF IInv
  <1>6. ASSUME NEW c \in Consumers, process(c) PROVE IInv'
    <2>1. TypeOK'
      BY <1>6 DEF process, redis, IInv, TypeOK, Observed, delivery_count, PC
    <2>2. CursorsInStream' /\ AckHasEffect' /\ NoSilentLoss'
      BY <1>6 DEF process, redis, IInv, TypeOK, CursorsInStream, AckHasEffect,
                  NoSilentLoss, Pending, AtEntry
    <2> QED BY <2>1, <2>2 DEF IInv
  <1>7. ASSUME NEW c \in Consumers, handler_returns(c) PROVE IInv'
    <2>1. PICK e \in Entries : AtEntry(c, e) /\ handled' = handled \cup {e}
      BY <1>7 DEF handler_returns
    <2>2. /\ pc' = [pc EXCEPT ![c] = "ack"]
          /\ UNCHANGED <<published, firstRetained, lastDelivered, timesDelivered, idle,
                         mode, batch, deliveryCount, crashes, deadLettered, starts>>
      BY <1>7 DEF handler_returns, redis
    <2>3. TypeOK' /\ CursorsInStream' /\ NoSilentLoss'
      BY <2>1, <2>2 DEF IInv, TypeOK, CursorsInStream, NoSilentLoss, Pending, PC
    <2>4. AckHasEffect'
      BY <2>1, <2>2, AtEntryUnique DEF IInv, TypeOK, AckHasEffect, AtEntry
    <2> QED BY <2>3, <2>4 DEF IInv
  <1>8. ASSUME NEW c \in Consumers, handler_raises(c) PROVE IInv'
    <2>1. TypeOK'
      BY <1>8 DEF handler_raises, redis, effects, IInv, TypeOK, Advance, PC
    <2>2. CursorsInStream' /\ NoSilentLoss'
      BY <1>8 DEF handler_raises, redis, effects, IInv, TypeOK, CursorsInStream,
                  NoSilentLoss, Pending, Advance
    <2>3. AckHasEffect'
      BY <1>8 DEF handler_raises, redis, effects, IInv, TypeOK, AckHasEffect, AtEntry, Advance
    <2> QED BY <2>1, <2>2, <2>3 DEF IInv
  <1>9. ASSUME NEW c \in Consumers, to_dead_letter(c) PROVE IInv'
    <2>1. PICK e \in Entries : AtEntry(c, e) /\ deadLettered' = deadLettered \cup {e}
      BY <1>9 DEF to_dead_letter, dead_letter
    <2>2. /\ pc' = [pc EXCEPT ![c] = "ack"]
          /\ UNCHANGED <<published, firstRetained, lastDelivered, timesDelivered, idle,
                         mode, batch, deliveryCount, crashes, handled, starts>>
      BY <1>9 DEF to_dead_letter, dead_letter, redis
    <2>3. TypeOK' /\ CursorsInStream' /\ NoSilentLoss'
      BY <2>1, <2>2 DEF IInv, TypeOK, CursorsInStream, NoSilentLoss, Pending, PC
    <2>4. AckHasEffect'
      BY <2>1, <2>2, AtEntryUnique DEF IInv, TypeOK, AckHasEffect, AtEntry
    <2> QED BY <2>3, <2>4 DEF IInv
  <1>10. ASSUME NEW c \in Consumers, ack(c) PROVE IInv'
    <2>1. PICK e \in Entries : /\ AtEntry(c, e)
                               /\ timesDelivered' = [timesDelivered EXCEPT ![e] = 0]
                               /\ idle' = idle \ {e}
                               /\ Advance(c, e)
      BY <1>10 DEF ack
    <2>2. /\ pc[c] = "ack"
          /\ UNCHANGED <<published, firstRetained, lastDelivered, mode, deliveryCount, crashes,
                         handled, deadLettered, starts>>
      BY <1>10 DEF ack, effects
    <2>3. e \in handled \cup deadLettered
      BY <2>1, <2>2 DEF IInv, AckHasEffect
    <2>4. TypeOK' /\ CursorsInStream'
      BY <2>1, <2>2 DEF IInv, TypeOK, CursorsInStream, Pending, Advance, PC
    <2>5. AckHasEffect'
      BY <2>1, <2>2 DEF IInv, TypeOK, AckHasEffect, AtEntry, Advance
    <2>6. NoSilentLoss'
      BY <2>1, <2>2, <2>3 DEF IInv, TypeOK, NoSilentLoss, Pending
    <2> QED BY <2>4, <2>5, <2>6 DEF IInv
  <1>11. ASSUME NEW c \in Consumers, crash(c) PROVE IInv'
    BY <1>11 DEF crash, redis, effects, IInv, TypeOK, CursorsInStream, AckHasEffect,
                 NoSilentLoss, Pending, AtEntry, PC
  <1>12. CASE UNCHANGED vars
    BY <1>12 DEF vars, redis, worker, effects, IInv, TypeOK, CursorsInStream, AckHasEffect,
                 NoSilentLoss, Pending, AtEntry
  <1> QED
    BY <1>1, <1>2, <1>3, <1>4, <1>5, <1>6, <1>7, <1>8, <1>9, <1>10, <1>11, <1>12
       DEF Next, WorkerStep

\* The inductive invariant holds in every reachable state.
THEOREM Invariant == Spec => []IInv
  BY InitIInv, StepIInv, PTL DEF Spec

\* The variables keep their types: times_delivered, the batches and the cursors
\* stay within the published stream.
THEOREM TypeCorrect == Spec => []TypeOK
  BY Invariant, PTL DEF IInv

\* No published entry is lost silently (AC-91), for every number of workers,
\* batch size, delivery limit and pattern of crashes and reclaims.
THEOREM NoLoss == Spec => []NoSilentLoss
  BY Invariant, PTL DEF IInv

-----------------------------------------------------------------------------
(* The transport implements the at-least-once queue *)

Settled == {e \in 1..lastDelivered : e \notin Pending}

\* A longer prefix of the stream contains a shorter one.
LEMMA PrefixMonotone ==
  \A m, n \in Nat : /\ m <= n => 1..(m - 1) \subseteq 1..(n - 1)
                    /\ m <= n + 1 => 1..(m - 1) \subseteq 1..n
  OBVIOUS

\* Every step of the transport is a step of the queue or leaves it unchanged.
LEMMA StepSimulation == IInv /\ [Next]_vars => [Queue!Next]_(Queue!vars)
  <1> SUFFICES ASSUME IInv, [Next]_vars PROVE [Queue!Next]_(Queue!vars)
    OBVIOUS
  <1> USE ConstantsAssumption DEF ConstantsAssumption
  <1>0. IInv'
    BY StepIInv
  <1>1. CASE publish
    <2>1. 1..published' = (1..published) \cup {published + 1}
      BY <1>1 DEF publish, IInv, TypeOK
    <2>2. published + 1 \in Entries \ (1..published)
      BY <1>1 DEF publish, IInv, TypeOK, Entries
    <2>0. /\ firstRetained \in Nat
          /\ firstRetained' \in Nat
          /\ published' \in Nat
          /\ firstRetained <= firstRetained'
          /\ firstRetained' <= published' + 1
      BY <1>0, <1>1 DEF publish, IInv, TypeOK, CursorsInStream, Max
    <2>3. 1..(firstRetained - 1) \subseteq 1..(firstRetained' - 1)
      BY <2>0, PrefixMonotone
    <2>4. 1..(firstRetained' - 1) \subseteq 1..published'
      BY <2>0, PrefixMonotone
    <2>5. UNCHANGED <<handled \cup deadLettered, {e \in 1..lastDelivered : e \notin Pending}>>
      BY <1>1 DEF publish, effects, Pending
    <2> QED BY <2>1, <2>2, <2>3, <2>4, <2>5 DEF Queue!Next, Queue!Send
  <1>2. ASSUME NEW e \in Entries, IdleElapses(e) PROVE UNCHANGED Queue!vars
    BY <1>2 DEF IdleElapses, effects, Queue!vars, Pending
  <1>3. ASSUME NEW c \in Consumers, poll_once(c) PROVE Queue!Settle
    <2>1. UNCHANGED <<published, firstRetained, handled, deadLettered>>
      BY <1>3 DEF poll_once, effects
    <2>2. Settled \subseteq Settled'
      <3> SUFFICES ASSUME NEW e \in Settled PROVE e \in Settled'
        OBVIOUS
      <3>1. e \in 1..lastDelivered /\ e \notin Pending /\ e \in Entries
        BY DEF Settled, IInv, TypeOK, Entries
      <3>2. e \notin FirstN(Unread, BatchSize)
        BY <3>1, FirstNSubset DEF Unread, IInv, TypeOK
      <3>3. timesDelivered'[e] = timesDelivered[e]
        BY <1>3, <3>1, <3>2 DEF poll_once
      <3>4. lastDelivered' \in Nat /\ lastDelivered' > lastDelivered
        BY <1>3, FirstNSubset DEF poll_once, Unread, Entries
      <3> QED BY <3>1, <3>3, <3>4 DEF Settled, Pending, IInv, TypeOK
    <2>3. Settled' \subseteq Settled \cup (handled \cup deadLettered) \cup 1..(firstRetained - 1)
      BY <1>0, <2>1 DEF Settled, IInv, TypeOK, NoSilentLoss, CursorsInStream
    <2> QED BY <2>1, <2>2, <2>3 DEF Queue!Settle, Settled
  <1>4. ASSUME NEW c \in Consumers, claim_stuck_once(c) PROVE Queue!Settle
    <2>1. UNCHANGED <<published, firstRetained, lastDelivered, handled, deadLettered>>
      BY <1>4 DEF claim_stuck_once, effects
    <2>2. Settled \subseteq Settled'
      <3> SUFFICES ASSUME NEW e \in Settled PROVE e \in Settled'
        OBVIOUS
      <3>1. e \in 1..lastDelivered /\ e \notin Pending /\ e \in Entries
        BY DEF Settled, IInv, TypeOK, Entries
      <3>2. e \notin FirstN(Claimable, BatchSize)
        BY <3>1, FirstNSubset DEF Claimable
      <3>3. timesDelivered'[e] = timesDelivered[e]
        BY <1>4, <3>1, <3>2 DEF claim_stuck_once
      <3> QED BY <3>1, <3>3, <2>1 DEF Settled, Pending
    <2>3. Settled' \subseteq Settled \cup (handled \cup deadLettered) \cup 1..(firstRetained - 1)
      BY <1>0, <2>1 DEF Settled, IInv, TypeOK, NoSilentLoss, CursorsInStream
    <2> QED BY <2>1, <2>2, <2>3 DEF Queue!Settle, Settled
  <1>5. ASSUME NEW c \in Consumers, give_up(c) \/ process(c) \/ handler_raises(c) \/ crash(c)
        PROVE  UNCHANGED Queue!vars
    BY <1>5 DEF give_up, process, handler_raises, crash, redis, effects, Queue!vars, Pending
  <1>6. ASSUME NEW c \in Consumers, handler_returns(c) \/ to_dead_letter(c)
        PROVE  Queue!Effect
    <2>1. UNCHANGED <<published, firstRetained, lastDelivered, timesDelivered>>
      BY <1>6 DEF handler_returns, to_dead_letter, dead_letter, redis
    <2>2. PICK e \in Entries :
             /\ AtEntry(c, e)
             /\ (handled \cup deadLettered)' = (handled \cup deadLettered) \cup {e}
      BY <1>6 DEF handler_returns, to_dead_letter, dead_letter
    <2>3. e \in 1..published
      BY <2>2 DEF AtEntry, IInv, TypeOK, CursorsInStream, Entries
    <2> QED BY <2>1, <2>2, <2>3 DEF Queue!Effect, Pending
  <1>7. ASSUME NEW c \in Consumers, ack(c) PROVE Queue!Settle
    <2>1. UNCHANGED <<published, firstRetained, lastDelivered, handled, deadLettered>>
      BY <1>7 DEF ack, effects
    <2>2. Settled \subseteq Settled'
      BY <1>7, <2>1 DEF ack, Settled, Pending, IInv, TypeOK
    <2>3. Settled' \subseteq Settled \cup (handled \cup deadLettered) \cup 1..(firstRetained - 1)
      BY <1>0, <2>1 DEF Settled, IInv, TypeOK, NoSilentLoss, CursorsInStream
    <2> QED BY <2>1, <2>2, <2>3 DEF Queue!Settle, Settled
  <1>8. CASE UNCHANGED vars
    BY <1>8 DEF vars, redis, effects, Queue!vars, Pending
  <1> QED
    BY <1>1, <1>2, <1>3, <1>4, <1>5, <1>6, <1>7, <1>8 DEF Next, WorkerStep, Queue!Next

\* StreamConsumer implements AtLeastOnce: an entry leaves the queue only with
\* its effect complete, however workers crash, stall and reclaim.
THEOREM Implementation == Spec => ImplementsAtLeastOnce
  <1>1. Init => Queue!Init
    BY ConstantsAssumption DEF ConstantsAssumption, Init, Queue!Init, Pending
  <1> QED
    BY <1>1, StepSimulation, Invariant, PTL DEF Spec, ImplementsAtLeastOnce, Queue!Spec

-----------------------------------------------------------------------------
(* The number of handler runs.  Every delivery of an entry is one chance to run
   the handler, held by the worker that took it until it looks at the entry.
   While the entry is pending, runs and open chances together are no more than
   its deliveries, and a claimed entry is run below the limit only; once it has
   left the PEL no chance is added, and the worker that settled it has none. *)

Attempts == Max(1, MaxDeliveryAttempts - 1)

\* Worker c has taken e and not looked at it yet.
Waiting(c, e) == e \in batch[c] /\ ~(AtEntry(c, e) /\ pc[c] \in {"handle", "dead", "ack"})

Waits(e) == {c \in Consumers : Waiting(c, e)}

\* ... those that took it with XREADGROUP, which run it whatever its deliveries.
Polled(e) == {c \in Consumers : Waiting(c, e) /\ mode[c] = "poll"}

RunsOK(e) ==
    /\ e > lastDelivered => starts[e] = 0
    /\ e \in Pending => /\ Consumers # {}
                        /\ starts[e] + Cardinality(Polled(e)) <= Attempts
                        /\ starts[e] + Cardinality(Waits(e)) <= timesDelivered[e]
    /\ e \notin Pending => starts[e] + Cardinality(Waits(e)) <= Attempts + Cardinality(Consumers) - 1

RunsInv ==
    /\ \A c \in Consumers : pc[c] = "idle" => batch[c] = {}
    /\ \A e \in Entries : RunsOK(e)

\* Cardinalities of sets of workers.
LEMMA Counts ==
  ASSUME NEW S \in SUBSET Consumers
  PROVE  IsFiniteSet(S) /\ Cardinality(S) \in Nat
  <1>1. IsFiniteSet(S)
    BY ConstantsAssumption, FS_Subset
  <1> QED BY <1>1, FS_CardinalityType

LEMMA CountsMonotone ==
  ASSUME NEW S \in SUBSET Consumers, NEW T \in SUBSET S
  PROVE  Cardinality(T) <= Cardinality(S)
  BY Counts, FS_Subset

LEMMA OneLess ==
  ASSUME NEW S \in SUBSET Consumers, NEW c \in S, NEW T \in SUBSET (S \ {c})
  PROVE  Cardinality(T) + 1 <= Cardinality(S)
  <1>1. IsFiniteSet(S) /\ Cardinality(S) \in Nat /\ Cardinality(T) \in Nat
    BY Counts
  <1>2. Cardinality(S \ {c}) = Cardinality(S) - 1
    BY <1>1, FS_RemoveElement
  <1>3. Cardinality(T) <= Cardinality(S \ {c})
    BY CountsMonotone
  <1> QED BY <1>1, <1>2, <1>3

LEMMA OneMore ==
  ASSUME NEW S \in SUBSET Consumers, NEW c \in Consumers, NEW T \in SUBSET (S \cup {c})
  PROVE  Cardinality(T) <= Cardinality(S) + 1
  <1>1. IsFiniteSet(S) /\ Cardinality(S) \in Nat /\ Cardinality(T) \in Nat
    BY Counts
  <1>2. Cardinality(S \cup {c}) = IF c \in S THEN Cardinality(S) ELSE Cardinality(S) + 1
    BY <1>1, FS_AddElement
  <1>3. Cardinality(T) <= Cardinality(S \cup {c}) /\ Cardinality(S \cup {c}) \in Nat
    BY CountsMonotone, Counts
  <1> QED BY <1>1, <1>2, <1>3

LEMMA WaitsType ==
  \A e : /\ Waits(e) \in SUBSET Consumers /\ Polled(e) \in SUBSET Waits(e)
         /\ Cardinality(Waits(e)) \in Nat /\ Cardinality(Polled(e)) \in Nat
  <1> TAKE e
  <1>1. Waits(e) \in SUBSET Consumers /\ Polled(e) \in SUBSET Waits(e)
    BY DEF Waits, Polled
  <1> QED BY <1>1, Counts

LEMMA AttemptsType == Attempts \in Nat \ {0} /\ MaxDeliveryAttempts - 1 <= Attempts
  BY ConstantsAssumption DEF Attempts, Max

\* A step that delivers, runs and settles nothing of entry e, and hands it to nobody.
LEMMA QuietEntry ==
  ASSUME TypeOK, NEW e \in Entries, RunsOK(e),
         lastDelivered' >= lastDelivered, lastDelivered' \in Nat,
         timesDelivered'[e] = timesDelivered[e], starts'[e] = starts[e],
         \A c \in Consumers : Waiting(c, e)' => Waiting(c, e) /\ mode'[c] = mode[c]
  PROVE  RunsOK(e)'
  <1>1. /\ Waits(e)' \in SUBSET Waits(e) /\ Polled(e)' \in SUBSET Polled(e)
        /\ Waits(e)' \in SUBSET Consumers /\ Polled(e)' \in SUBSET Consumers
    BY DEF Waits, Polled
  <1>2. Waits(e) \in SUBSET Consumers /\ Polled(e) \in SUBSET Consumers
    BY WaitsType
  <1>3. /\ Cardinality(Waits(e)') <= Cardinality(Waits(e))
        /\ Cardinality(Polled(e)') <= Cardinality(Polled(e))
    BY <1>1, <1>2, CountsMonotone
  <1>4. /\ Cardinality(Waits(e)) \in Nat /\ Cardinality(Polled(e)) \in Nat
        /\ Cardinality(Waits(e)') \in Nat /\ Cardinality(Polled(e)') \in Nat
        /\ Cardinality(Consumers) \in Nat
    BY <1>1, <1>2, Counts
  <1>5. (e \in Pending)' <=> e \in Pending
    BY DEF Pending
  <1>6. /\ starts[e] \in Nat /\ timesDelivered[e] \in Nat /\ lastDelivered \in Nat /\ e \in Nat
        /\ Attempts \in Nat
    <2>1. Attempts \in Nat
      BY AttemptsType
    <2>2. starts[e] \in Nat /\ timesDelivered[e] \in Nat
      BY DEF TypeOK
    <2>3. lastDelivered \in Nat /\ e \in Nat
      BY DEF TypeOK, Entries
    <2> QED BY <2>1, <2>2, <2>3
  <1>7. (e > lastDelivered)' => starts'[e] = 0
    BY <1>6 DEF RunsOK
  <1>8. (e \in Pending)' => /\ Consumers # {}
                            /\ starts'[e] + Cardinality(Polled(e)') <= Attempts
                            /\ starts'[e] + Cardinality(Waits(e)') <= timesDelivered'[e]
    BY <1>3, <1>4, <1>5, <1>6 DEF RunsOK
  <1>9. ~(e \in Pending)' =>
          starts'[e] + Cardinality(Waits(e)') <= Attempts + Cardinality(Consumers) - 1
    BY <1>3, <1>4, <1>5, <1>6 DEF RunsOK
  <1> QED BY <1>7, <1>8, <1>9 DEF RunsOK, Attempts

\* A worker that does nothing keeps its chances.
LEMMA Bystander ==
  ASSUME NEW c, NEW e, batch'[c] = batch[c], pc'[c] = pc[c]
  PROVE  Waiting(c, e)' <=> Waiting(c, e)
  BY DEF Waiting, AtEntry

\* A worker that goes on with its batch gains no chance.
LEMMA GoesOn ==
  ASSUME TypeOK, NEW c \in Consumers, NEW e \in Entries, Waiting(c, e)',
         \/ batch' = batch /\ pc[c] = "inspect"
         \/ batch' = batch /\ pc'[c] \in {"handle", "dead", "ack"}
         \/ \E f \in Entries : AtEntry(c, f) /\ batch' = [batch EXCEPT ![c] = @ \ {f}]
  PROVE  Waiting(c, e)
  <1>1. CASE batch' = batch /\ pc[c] = "inspect"
    BY <1>1 DEF Waiting
  <1>2. CASE batch' = batch /\ pc'[c] \in {"handle", "dead", "ack"}
    BY <1>2 DEF Waiting, AtEntry
  <1>3. ASSUME NEW f \in Entries, AtEntry(c, f), batch' = [batch EXCEPT ![c] = @ \ {f}]
        PROVE  Waiting(c, e)
    <2>1. e \in batch[c] /\ e # f
      BY <1>3 DEF Waiting, TypeOK
    <2>2. ~AtEntry(c, e)
      BY <1>3, <2>1, AtEntryUnique
    <2> QED BY <2>1, <2>2 DEF Waiting
  <1> QED BY <1>1, <1>2, <1>3

\* The entries of a batch are taken by a worker that had none.
LEMMA Takes ==
  ASSUME TypeOK, RunsInv, NEW c \in Consumers, NEW e \in Entries, pc[c] = "idle",
         \A v \in Consumers \ {c} : batch'[v] = batch[v] /\ pc'[v] = pc[v] /\ mode'[v] = mode[v]
  PROVE  /\ ~Waiting(c, e)
         /\ Waits(e)' \in SUBSET (Waits(e) \cup {c}) /\ c \notin Waits(e)
         /\ Waits(e)' \in SUBSET Consumers
         /\ Polled(e)' \in SUBSET (Polled(e) \cup {c}) /\ Polled(e)' \in SUBSET Consumers
         /\ mode'[c] # "poll" => Polled(e)' \in SUBSET Polled(e)
         /\ e \notin batch'[c] => Waits(e)' \in SUBSET Waits(e) /\ Polled(e)' \in SUBSET Polled(e)
  <1>1. ~Waiting(c, e)
    BY DEF RunsInv, Waiting
  <1>2. \A v \in Consumers \ {c} : Waiting(v, e)' <=> Waiting(v, e)
    BY Bystander
  <1>3. e \notin batch'[c] => ~Waiting(c, e)'
    BY DEF Waiting
  <1> QED BY <1>1, <1>2, <1>3 DEF Waits, Polled

LEMMA PollRuns ==
  ASSUME IInv, RunsInv, NEW c \in Consumers, poll_once(c)
  PROVE  \A e \in Entries : RunsOK(e)'
  <1> DEFINE read == FirstN(Unread, BatchSize)
  <1> SUFFICES ASSUME NEW e \in Entries PROVE RunsOK(e)'
    OBVIOUS
  <1>1. /\ pc[c] = "idle" /\ lastDelivered' \in read /\ batch' = [batch EXCEPT ![c] = read]
        /\ timesDelivered' = [x \in Entries |-> IF x \in read THEN 1 ELSE timesDelivered[x]]
        /\ mode' = [mode EXCEPT ![c] = "poll"] /\ pc' = [pc EXCEPT ![c] = "inspect"]
        /\ starts' = starts /\ \A x \in read : x <= lastDelivered'
    BY DEF poll_once, effects
  <1>2. TypeOK /\ RunsOK(e) /\ CursorsInStream
    BY DEF IInv, RunsInv
  <1>3. read \subseteq Unread /\ Unread \subseteq Entries
    BY FirstNSubset DEF Unread
  <1> HIDE DEF read
  <1>4. lastDelivered' > lastDelivered /\ lastDelivered' \in Nat /\ lastDelivered \in Nat /\ e \in Nat
    BY <1>1, <1>2, <1>3 DEF Unread, TypeOK, Entries
  <1>5. \A v \in Consumers \ {c} : batch'[v] = batch[v] /\ pc'[v] = pc[v] /\ mode'[v] = mode[v]
    BY <1>1, <1>2 DEF TypeOK
  <1>6. CASE e \notin read
    <2>1. e \notin batch'[c] /\ timesDelivered'[e] = timesDelivered[e]
      BY <1>1, <1>2, <1>6 DEF TypeOK
    <2>2. \A v \in Consumers : Waiting(v, e)' => Waiting(v, e) /\ mode'[v] = mode[v]
      <3>1. ~Waiting(c, e)'
        BY <2>1 DEF Waiting
      <3> QED BY <3>1, <1>5, Bystander
    <2> QED BY <1>1, <1>2, <1>4, <2>1, <2>2, QuietEntry
  <1>7. CASE e \in read
    <2>1. e > lastDelivered /\ e \notin Pending /\ e <= lastDelivered'
      BY <1>1, <1>2, <1>3, <1>4, <1>7 DEF Unread, CursorsInStream
    <2>2. starts'[e] = 0 /\ timesDelivered'[e] = 1 /\ (e \in Pending)'
      BY <1>1, <1>2, <1>7, <2>1 DEF RunsOK, Pending
    <2>3. Waits(e) = {}
      <3> SUFFICES ASSUME NEW v \in Consumers, Waiting(v, e) PROVE FALSE
        BY DEF Waits
      <3>1. e <= lastDelivered
        BY <1>2 DEF Waiting, CursorsInStream
      <3> QED BY <3>1, <2>1, <1>4
    <2>4. Waits(e)' \in SUBSET ({} \cup {c}) /\ Polled(e)' \in SUBSET ({} \cup {c})
      BY <1>1, <1>2, <1>5, <2>3, Takes, WaitsType
    <2>5. Cardinality({}) = 0 /\ {} \in SUBSET Consumers
      BY FS_EmptySet
    <2>6. Cardinality(Waits(e)') <= 1 /\ Cardinality(Polled(e)') <= 1
      BY <2>4, <2>5, OneMore
    <2>7. Cardinality(Waits(e)') \in Nat /\ Cardinality(Polled(e)') \in Nat
      BY <2>4, Counts
    <2>8. /\ starts'[e] + Cardinality(Polled(e)') <= Attempts
          /\ starts'[e] + Cardinality(Waits(e)') <= timesDelivered'[e]
      BY <2>2, <2>6, <2>7, AttemptsType
    <2>9. (e > lastDelivered)' => starts'[e] = 0
      BY <2>2
    <2> QED BY <2>2, <2>8, <2>9 DEF RunsOK, Attempts
  <1> QED BY <1>6, <1>7

LEMMA ClaimRuns ==
  ASSUME IInv, RunsInv, NEW c \in Consumers, claim_stuck_once(c)
  PROVE  \A e \in Entries : RunsOK(e)'
  <1> DEFINE scan    == FirstN(Claimable, BatchSize)
             claimed == {x \in scan : x >= firstRetained}
  <1> SUFFICES ASSUME NEW e \in Entries PROVE RunsOK(e)'
    OBVIOUS
  <1>1. /\ pc[c] = "idle" /\ batch' = [batch EXCEPT ![c] = claimed]
        /\ timesDelivered' = [x \in Entries |-> IF x \in claimed THEN timesDelivered[x] + 1
                                                ELSE IF x \in scan THEN 0 ELSE timesDelivered[x]]
        /\ mode' = [mode EXCEPT ![c] = "claim"]
        /\ pc' = [pc EXCEPT ![c] = IF claimed = {} THEN "idle" ELSE "inspect"]
        /\ starts' = starts /\ lastDelivered' = lastDelivered
    BY DEF claim_stuck_once, effects
  <1>2. TypeOK /\ RunsOK(e) /\ CursorsInStream
    BY DEF IInv, RunsInv
  <1>3. scan \subseteq Pending /\ claimed \subseteq scan
    BY FirstNSubset DEF Claimable
  <1> HIDE DEF scan, claimed
  <1>4. /\ starts[e] \in Nat /\ timesDelivered[e] \in Nat /\ Cardinality(Consumers) \in Nat
        /\ lastDelivered \in Nat /\ e \in Nat
    BY <1>2, Counts DEF TypeOK, Entries
  <1>5. \A v \in Consumers \ {c} : batch'[v] = batch[v] /\ pc'[v] = pc[v] /\ mode'[v] = mode[v]
    BY <1>1, <1>2 DEF TypeOK
  <1>6. CASE e \notin scan
    <2>1. e \notin batch'[c] /\ timesDelivered'[e] = timesDelivered[e]
      BY <1>1, <1>2, <1>3, <1>6 DEF TypeOK
    <2>2. \A v \in Consumers : Waiting(v, e)' => Waiting(v, e) /\ mode'[v] = mode[v]
      <3>1. ~Waiting(c, e)'
        BY <2>1 DEF Waiting
      <3> QED BY <3>1, <1>5, Bystander
    <2>3. lastDelivered' >= lastDelivered /\ lastDelivered' \in Nat
      BY <1>1, <1>4
    <2> QED BY <1>1, <1>2, <2>1, <2>2, <2>3, QuietEntry
  <1>7. CASE e \in scan
    <2>1. e \in Pending /\ e <= lastDelivered
      BY <1>2, <1>3, <1>7 DEF CursorsInStream
    <2>2. /\ starts[e] + Cardinality(Polled(e)) <= Attempts
          /\ starts[e] + Cardinality(Waits(e)) <= timesDelivered[e]
      BY <1>2, <2>1 DEF RunsOK
    <2>3. ~(e > lastDelivered')
      BY <1>1, <1>4, <2>1
    <2>4. mode'[c] = "claim"
      BY <1>1, <1>2 DEF TypeOK
    <2>5. /\ Waits(e)' \in SUBSET (Waits(e) \cup {c}) /\ c \notin Waits(e)
          /\ Waits(e)' \in SUBSET Consumers /\ Polled(e)' \in SUBSET Consumers
          /\ Polled(e)' \in SUBSET Polled(e)
          /\ e \notin batch'[c] => Waits(e)' \in SUBSET Waits(e)
      BY <1>1, <1>2, <1>5, <2>4, Takes
    <2>6. /\ Waits(e) \in SUBSET Consumers /\ Polled(e) \in SUBSET Consumers
          /\ Cardinality(Waits(e)) \in Nat /\ Cardinality(Polled(e)) \in Nat
          /\ Cardinality(Waits(e)') \in Nat /\ Cardinality(Polled(e)') \in Nat
      BY <2>5, WaitsType, Counts
    <2>7. /\ Cardinality(Polled(e)') <= Cardinality(Polled(e))
          /\ Cardinality(Waits(e)') <= Cardinality(Waits(e)) + 1
      BY <2>5, <2>6, CountsMonotone, OneMore
    <2>8. CASE e \in claimed
      <3>1. timesDelivered'[e] = timesDelivered[e] + 1 /\ (e \in Pending)'
        BY <1>1, <1>4, <2>8 DEF Pending
      <3>2. /\ starts'[e] + Cardinality(Polled(e)') <= Attempts
            /\ starts'[e] + Cardinality(Waits(e)') <= timesDelivered'[e]
        BY <1>1, <1>4, <2>2, <2>6, <2>7, <3>1, AttemptsType
      <3> QED BY <2>3, <3>1, <3>2 DEF RunsOK, Attempts
    <2>9. CASE e \notin claimed
      <3>1. timesDelivered'[e] = 0 /\ ~(e \in Pending)' /\ e \notin batch'[c]
        BY <1>1, <1>2, <1>7, <2>9 DEF Pending, TypeOK
      <3>2. Waits(e)' \in SUBSET (Consumers \ {c})
        BY <2>5, <3>1
      <3>3. Cardinality(Waits(e)') + 1 <= Cardinality(Consumers)
        BY <3>2, OneLess
      <3>4. starts'[e] + Cardinality(Waits(e)') <= Attempts + Cardinality(Consumers) - 1
        BY <1>1, <1>4, <2>2, <2>6, <3>3, AttemptsType
      <3> QED BY <2>3, <3>1, <3>4 DEF RunsOK, Attempts
    <2> QED BY <2>8, <2>9
  <1> QED BY <1>6, <1>7

\* A run begins: the worker's chance is spent, and a claimed entry is below the limit.
LEMMA ProcessRuns ==
  ASSUME IInv, RunsInv, NEW c \in Consumers, process(c)
  PROVE  \A e \in Entries : RunsOK(e)'
  <1>1. PICK f \in Entries : /\ AtEntry(c, f) /\ ~Exhausted(c, f)
                             /\ starts' = [starts EXCEPT ![f] = @ + 1]
    BY DEF process
  <1>2. /\ pc[c] = "inspect" /\ pc' = [pc EXCEPT ![c] = "handle"]
        /\ UNCHANGED <<lastDelivered, timesDelivered, mode, batch>>
    BY DEF process, redis
  <1>3. TypeOK /\ CursorsInStream
    BY DEF IInv
  <1>4. pc'[c] = "handle" /\ \A v \in Consumers \ {c} : batch'[v] = batch[v] /\ pc'[v] = pc[v]
    BY <1>2, <1>3 DEF TypeOK
  <1>5. \A e \in Entries : \A v \in Consumers : Waiting(v, e)' => Waiting(v, e) /\ mode'[v] = mode[v]
    BY <1>2, <1>3, <1>4, Bystander, GoesOn
  <1> SUFFICES ASSUME NEW e \in Entries PROVE RunsOK(e)'
    OBVIOUS
  <1>6. /\ starts[e] \in Nat /\ timesDelivered[e] \in Nat /\ Cardinality(Consumers) \in Nat
        /\ lastDelivered \in Nat /\ e \in Nat
    BY <1>3, Counts DEF TypeOK, Entries
  <1>7. RunsOK(e)
    BY DEF RunsInv
  <1>8. CASE e # f
    <2>1. starts'[e] = starts[e] /\ lastDelivered' >= lastDelivered /\ lastDelivered' \in Nat
      BY <1>1, <1>2, <1>3, <1>6, <1>8 DEF TypeOK
    <2> QED BY <1>2, <1>3, <1>5, <1>7, <2>1, QuietEntry
  <1>9. CASE e = f
    <2>1. Waiting(c, e) /\ ~Waiting(c, e)'
      BY <1>1, <1>2, <1>4, <1>9 DEF Waiting, AtEntry
    <2>2. /\ c \in Waits(e) /\ Waits(e) \in SUBSET Consumers /\ Polled(e) \in SUBSET Waits(e)
          /\ Waits(e)' \in SUBSET (Waits(e) \ {c}) /\ Waits(e)' \in SUBSET Consumers
          /\ Polled(e)' \in SUBSET (Polled(e) \ {c}) /\ Polled(e)' \in SUBSET Consumers
          /\ mode[c] = "poll" => c \in Polled(e)
          /\ Polled(e)' \in SUBSET (Waits(e) \ {c})
      BY <1>5, <2>1 DEF Waits, Polled
    <2>3. /\ Cardinality(Waits(e)) \in Nat /\ Cardinality(Polled(e)) \in Nat
          /\ Cardinality(Waits(e)') \in Nat /\ Cardinality(Polled(e)') \in Nat
      BY <2>2, Counts
    <2>4. /\ Cardinality(Waits(e)') + 1 <= Cardinality(Waits(e))
          /\ Cardinality(Polled(e)') + 1 <= Cardinality(Waits(e))
          /\ mode[c] = "poll" => Cardinality(Polled(e)') + 1 <= Cardinality(Polled(e))
      BY <2>2, OneLess
    <2>5. starts'[e] = starts[e] + 1
      BY <1>1, <1>3, <1>9 DEF TypeOK
    <2>6. (e \in Pending)' <=> e \in Pending
      BY <1>2 DEF Pending
    <2>7. ~(e > lastDelivered')
      <3>1. e <= lastDelivered
        BY <1>1, <1>3, <1>9 DEF AtEntry, CursorsInStream
      <3> QED BY <3>1, <1>2, <1>6
    <2>8. CASE e \in Pending
      <3>1. /\ starts[e] + Cardinality(Polled(e)) <= Attempts
            /\ starts[e] + Cardinality(Waits(e)) <= timesDelivered[e] /\ Consumers # {}
        BY <1>7, <2>8 DEF RunsOK
      <3>2. starts'[e] + Cardinality(Waits(e)') <= timesDelivered'[e]
        BY <1>2, <1>6, <2>3, <2>4, <2>5, <3>1
      <3>3. mode[c] # "poll" => timesDelivered[e] < MaxDeliveryAttempts
        <4>1. mode[c] # "poll" => mode[c] = "claim"
          BY <1>3 DEF TypeOK
        <4>2. timesDelivered[e] > 0
          BY <2>8 DEF Pending
        <4>3. mode[c] # "poll" => ~(timesDelivered[e] >= MaxDeliveryAttempts)
          BY <1>1, <1>9, <4>1, <4>2 DEF Exhausted, Observed, delivery_count
        <4>4. MaxDeliveryAttempts \in Nat
          BY ConstantsAssumption
        <4> QED BY <4>3, <4>4, <1>6
      <3>4. starts'[e] + Cardinality(Polled(e)') <= Attempts
        <4>1. CASE mode[c] = "poll"
          BY <1>6, <2>3, <2>4, <2>5, <3>1, <4>1, AttemptsType
        <4>2. CASE mode[c] # "poll"
          <5>1. MaxDeliveryAttempts \in Nat
            BY ConstantsAssumption
          <5> QED BY <1>6, <2>3, <2>4, <2>5, <3>1, <3>3, <4>2, <5>1, AttemptsType
        <4> QED BY <4>1, <4>2
      <3> QED BY <2>6, <2>7, <2>8, <3>1, <3>2, <3>4 DEF RunsOK, Attempts
    <2>9. CASE e \notin Pending
      <3>1. starts[e] + Cardinality(Waits(e)) <= Attempts + Cardinality(Consumers) - 1
        BY <1>7, <2>9 DEF RunsOK
      <3>2. starts'[e] + Cardinality(Waits(e)') <= Attempts + Cardinality(Consumers) - 1
        BY <1>6, <2>3, <2>4, <2>5, <3>1, AttemptsType
      <3> QED BY <2>6, <2>7, <2>9, <3>2 DEF RunsOK, Attempts
    <2> QED BY <2>8, <2>9
  <1> QED BY <1>8, <1>9

\* The XACK settles the entry; the chances of the other workers stay open.
LEMMA AckRuns ==
  ASSUME IInv, RunsInv, NEW c \in Consumers, ack(c)
  PROVE  \A e \in Entries : RunsOK(e)'
  <1>1. PICK f \in Entries : /\ AtEntry(c, f) /\ timesDelivered' = [timesDelivered EXCEPT ![f] = 0]
                             /\ Advance(c, f)
    BY DEF ack
  <1>2. pc[c] = "ack" /\ UNCHANGED <<lastDelivered, mode, starts>>
    BY DEF ack, effects
  <1>3. TypeOK /\ CursorsInStream
    BY DEF IInv
  <1>4. \A v \in Consumers \ {c} : batch'[v] = batch[v] /\ pc'[v] = pc[v]
    BY <1>1, <1>3 DEF Advance, TypeOK
  <1>5. \A e \in Entries : \A v \in Consumers : Waiting(v, e)' => Waiting(v, e) /\ mode'[v] = mode[v]
    BY <1>1, <1>2, <1>3, <1>4, Bystander, GoesOn DEF Advance
  <1> SUFFICES ASSUME NEW e \in Entries PROVE RunsOK(e)'
    OBVIOUS
  <1>6. /\ starts[e] \in Nat /\ timesDelivered[e] \in Nat /\ Cardinality(Consumers) \in Nat
        /\ lastDelivered \in Nat /\ e \in Nat
    BY <1>3, Counts DEF TypeOK, Entries
  <1>7. RunsOK(e)
    BY DEF RunsInv
  <1>8. CASE e # f \/ e \notin Pending
    <2>1. timesDelivered'[e] = timesDelivered[e]
      BY <1>1, <1>3, <1>6, <1>8 DEF TypeOK, Pending
    <2>2. lastDelivered' >= lastDelivered /\ lastDelivered' \in Nat
      BY <1>2, <1>6
    <2> QED BY <1>2, <1>3, <1>5, <1>7, <2>1, <2>2, QuietEntry
  <1>9. CASE e = f /\ e \in Pending
    <2>1. starts[e] + Cardinality(Polled(e)) <= Attempts
      BY <1>7, <1>9 DEF RunsOK
    <2>2. ~Waiting(c, e)
      BY <1>1, <1>2, <1>9 DEF Waiting
    <2>3. Waits(e)' \in SUBSET (Consumers \ {c})
      BY <1>5, <2>2 DEF Waits
    <2>4. Cardinality(Waits(e)') + 1 <= Cardinality(Consumers) /\ Cardinality(Waits(e)') \in Nat
      BY <2>3, OneLess, Counts
    <2>5. starts'[e] + Cardinality(Waits(e)') <= Attempts + Cardinality(Consumers) - 1
      BY <1>2, <1>6, <2>1, <2>4, WaitsType, AttemptsType
    <2>6. ~(e \in Pending)'
      BY <1>1, <1>3, <1>9 DEF Pending, TypeOK
    <2>7. ~(e > lastDelivered')
      <3>1. e <= lastDelivered
        BY <1>3, <1>9 DEF CursorsInStream
      <3> QED BY <3>1, <1>2, <1>6
    <2> QED BY <2>5, <2>6, <2>7 DEF RunsOK, Attempts
  <1> QED BY <1>8, <1>9

LEMMA InitRuns == Init => RunsInv
  <1> SUFFICES ASSUME Init PROVE RunsInv
    OBVIOUS
  <1>1. \A c \in Consumers : batch[c] = {}
    BY DEF Init
  <1>2. \A e \in Entries : starts[e] = 0 /\ e \notin Pending /\ Waits(e) = {}
    BY <1>1 DEF Init, Pending, Waits, Waiting
  <1>3. Cardinality({}) = 0 /\ Cardinality(Consumers) \in Nat
    BY FS_EmptySet, Counts
  <1>4. \A e \in Entries : starts[e] + Cardinality(Waits(e)) <= Attempts + Cardinality(Consumers) - 1
    BY <1>2, <1>3, AttemptsType
  <1> QED BY <1>1, <1>2, <1>4 DEF RunsInv, RunsOK

LEMMA StepRuns == IInv /\ RunsInv /\ [Next]_vars => RunsInv'
  <1> SUFFICES ASSUME IInv, RunsInv, [Next]_vars PROVE RunsInv'
    OBVIOUS
  <1>1. TypeOK
    BY DEF IInv
  <1>2. \A c \in Consumers : pc'[c] = "idle" => batch'[c] = {}
    <2>1. CASE publish \/ (\E e \in Entries : IdleElapses(e)) \/ UNCHANGED vars
      BY <2>1 DEF publish, IdleElapses, vars, worker, RunsInv
    <2>2. ASSUME NEW c \in Consumers, poll_once(c) \/ claim_stuck_once(c)
          PROVE  \A v \in Consumers : pc'[v] = "idle" => batch'[v] = {}
      BY <1>1, <2>2 DEF poll_once, claim_stuck_once, RunsInv, TypeOK
    <2>3. ASSUME NEW c \in Consumers, give_up(c) \/ process(c) \/ handler_returns(c) \/ to_dead_letter(c)
          PROVE  \A v \in Consumers : pc'[v] = "idle" => batch'[v] = {}
      BY <1>1, <2>3 DEF give_up, process, handler_returns, to_dead_letter, RunsInv, TypeOK
    <2>4. ASSUME NEW c \in Consumers, handler_raises(c) \/ ack(c) \/ crash(c)
          PROVE  \A v \in Consumers : pc'[v] = "idle" => batch'[v] = {}
      BY <1>1, <2>4 DEF handler_raises, ack, crash, Advance, RunsInv, TypeOK
    <2> QED BY <2>1, <2>2, <2>3, <2>4 DEF Next, WorkerStep
  <1>3. ASSUME lastDelivered' = lastDelivered, timesDelivered' = timesDelivered, starts' = starts,
               \A e \in Entries : \A c \in Consumers : Waiting(c, e)' => Waiting(c, e) /\ mode'[c] = mode[c]
        PROVE  \A e \in Entries : RunsOK(e)'
    <2>1. lastDelivered' >= lastDelivered /\ lastDelivered' \in Nat
      BY <1>1, <1>3 DEF TypeOK
    <2> QED BY <1>1, <1>3, <2>1, QuietEntry DEF RunsInv
  <1>4. CASE publish \/ (\E e \in Entries : IdleElapses(e)) \/ UNCHANGED vars
    <2>1. UNCHANGED <<lastDelivered, timesDelivered, starts, mode, batch, pc>>
      BY <1>4 DEF publish, IdleElapses, vars, redis, worker, effects
    <2>2. \A e \in Entries : RunsOK(e)'
      BY <1>3, <2>1, Bystander
    <2> QED BY <1>2, <2>2 DEF RunsInv
  <1>5. ASSUME NEW c \in Consumers,
               give_up(c) \/ handler_returns(c) \/ handler_raises(c) \/ to_dead_letter(c) \/ crash(c)
        PROVE  RunsInv'
    <2>1. /\ UNCHANGED <<lastDelivered, timesDelivered, starts, mode>>
          /\ \A v \in Consumers \ {c} : batch'[v] = batch[v] /\ pc'[v] = pc[v]
      BY <1>1, <1>5 DEF give_up, handler_returns, handler_raises, to_dead_letter, crash, Advance, redis,
         effects, TypeOK
    <2>2. ASSUME NEW e \in Entries, Waiting(c, e)' PROVE Waiting(c, e)
      <3>1. ~crash(c)
        BY <1>1, <2>2 DEF crash, Waiting, TypeOK
      <3>2. \/ batch' = batch /\ pc[c] = "inspect"
            \/ batch' = batch /\ pc'[c] \in {"handle", "dead", "ack"}
            \/ \E f \in Entries : AtEntry(c, f) /\ batch' = [batch EXCEPT ![c] = @ \ {f}]
        BY <1>1, <1>5, <3>1 DEF give_up, handler_returns, handler_raises, to_dead_letter, Advance, TypeOK
      <3> QED BY <1>1, <2>2, <3>2, GoesOn
    <2>3. \A e \in Entries : \A v \in Consumers : Waiting(v, e)' => Waiting(v, e) /\ mode'[v] = mode[v]
      BY <2>1, <2>2, Bystander
    <2> QED BY <1>2, <1>3, <2>1, <2>3 DEF RunsInv
  <1>6. ASSUME NEW c \in Consumers, poll_once(c) \/ claim_stuck_once(c) \/ process(c) \/ ack(c)
        PROVE  RunsInv'
    <2>1. \A e \in Entries : RunsOK(e)'
      BY <1>6, PollRuns, ClaimRuns, ProcessRuns, AckRuns
    <2> QED BY <1>2, <2>1 DEF RunsInv
  <1> QED BY <1>4, <1>5, <1>6 DEF Next, WorkerStep

\* The handler runs for an entry at most once per delivery below the limit and
\* once more for each other worker that holds it when it is settled, for every
\* number of workers, delivery limit and pattern of crashes (consumer.py _process).
THEOREM HandlerRunsBoundedHolds == Spec => []HandlerRunsBounded
  <1>1. IInv /\ RunsInv => HandlerRunsBounded
    <2> SUFFICES ASSUME IInv, RunsInv, NEW e \in Entries
                 PROVE  starts[e] <= Attempts + Cardinality(Consumers) - 1
      BY DEF HandlerRunsBounded, Attempts
    <2>1. starts[e] \in Nat /\ Cardinality(Consumers) \in Nat /\ RunsOK(e)
      BY Counts DEF IInv, TypeOK, RunsInv
    <2>2. CASE e \in Pending
      <3>1. Cardinality(Consumers) # 0
        <4>1. IsFiniteSet(Consumers) /\ Consumers # {}
          BY <2>1, <2>2, ConstantsAssumption DEF RunsOK
        <4> QED BY <4>1, FS_EmptySet
      <3>2. starts[e] + Cardinality(Polled(e)) <= Attempts
        BY <2>1, <2>2 DEF RunsOK
      <3> QED BY <2>1, <3>1, <3>2, WaitsType, AttemptsType
    <2>3. CASE e \notin Pending
      <3>1. starts[e] + Cardinality(Waits(e)) <= Attempts + Cardinality(Consumers) - 1
        BY <2>1, <2>3 DEF RunsOK
      <3> QED BY <2>1, <3>1, WaitsType, AttemptsType
    <2> QED BY <2>2, <2>3
  <1> QED
    BY <1>1, InitRuns, StepRuns, Invariant, PTL DEF Spec
=============================================================================
