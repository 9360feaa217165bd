--------------------------- MODULE NormalizerProofs ---------------------------
(***************************************************************************)
(* Proofs of the safety properties of Normalizer, for any number of        *)
(* workers, batches, events, runs, redeliveries and failures; and about    *)
(* Inventory, whose part begins with an instance of it.                    *)
(*                                                                         *)
(* A document is only ever looked at through its two components (DocParts) *)
(* and the store only grows, so the proofs rest on what a run knows at     *)
(* each of its steps: after the dead-letter transaction every malformed    *)
(* event of its batch has a row (RowInv), after the bulk request without   *)
(* refusals every valid one is in the store (BulkInv), and every document  *)
(* that is not published yet is still held by its run, which is alive      *)
(* (HeldInv).                                                              *)
(***************************************************************************)
EXTENDS Normalizer, AssetTables, FiniteSetTheorems, SequenceTheorems, TLAPS

(* Part of the type invariant that the other parts need. *)
TypeInv ==
    /\ pc \in [Workers -> PC]
    /\ batch \in [Workers -> Batches]
    /\ runs \in 0..MaxRuns
    /\ run_no \in [Workers -> 0..runs]
    /\ created \in [Workers -> SUBSET Events]
    /\ tally \in [Workers -> [stored : Nat, duplicates : Nat, refused : Nat]]
    /\ rows \in [Events -> Nat]
    /\ done \subseteq Batches

(* A worker in a run has the number of a run. *)
RunInv == \A w \in Workers : pc[w] # "idle" => run_no[w] \in Runs

(* Documents are pairs whose run has a number, and no two share an _id. *)
StoreInv ==
    /\ \A d \in store : d = <<d[1], d[2]>> /\ d[2] \in Runs
    /\ StoredOnce

AfterRows == {"reject", "bulk", "publish", "observe", "count", "mark", "onboard", "end"}

(* Past the dead-letter transaction, the malformed events of the batch have rows. *)
RowInv ==
    \A w \in Workers : pc[w] \in AfterRows =>
        \A e \in events[batch[w]] \cap Malformed : rows[e] > 0

AfterBulk == {"publish", "observe", "count", "mark", "onboard", "end"}

(* Past a bulk request that refused nothing, the valid events are stored. *)
BulkInv ==
    \A w \in Workers : pc[w] \in AfterBulk /\ tally[w].refused = 0 =>
        \A e \in Valid(batch[w]) : Exists(doc_id(e, run_no[w]))

(* A document that is not published is held by its run, unless that died. *)
Holds(w, d) ==
    /\ pc[w] \in {"publish", "observe"}
    /\ \E e \in created[w] : d = doc(e, run_no[w])

HeldInv == \A d \in store \ normalized : d[2] \in died \/ \E w \in Workers : Holds(w, d)

IInv == TypeInv /\ RunInv /\ StoreInv /\ RowInv /\ BulkInv /\ StoredOrDeadLettered /\ HeldInv

-----------------------------------------------------------------------------
(* The two components of a document: its _id and its run. *)
LEMMA DocParts ==
    \A e, r : doc(e, r) = <<doc_id(e, r), r>> /\ doc(e, r)[1] = doc_id(e, r) /\ doc(e, r)[2] = r
BY DEF doc

(* A finite set with as many elements as the empty set is empty: the bulk
   response that counts no refusal refused nothing. *)
LEMMA NoneRefused ==
    ASSUME NEW S \in SUBSET Events, Cardinality(S) = 0
    PROVE S = {}
<1>1. IsFiniteSet(S)
  BY ConstantsAssumption, FS_Subset
<1> QED
  BY <1>1, FS_EmptySet

LEMMA CountsAreNat ==
    ASSUME NEW S \in SUBSET Events
    PROVE Cardinality(S) \in Nat
<1>1. IsFiniteSet(S)
  BY ConstantsAssumption, FS_Subset
<1> QED
  BY <1>1, FS_CardinalityType

LEMMA EventsOfBatch ==
    \A b \in Batches : events[b] \in SUBSET Events /\ Valid(b) \in SUBSET Events
BY ConstantsAssumption DEF Valid

(* The initial state. *)
LEMMA InitInv == Init => IInv
<1> SUFFICES ASSUME Init PROVE IInv
  OBVIOUS
<1>1. TypeInv
  <2>1. (CHOOSE b \in Batches : TRUE) \in Batches
    BY ConstantsAssumption
  <2> QED
    BY <2>1, ConstantsAssumption DEF Init, TypeInv, PC, NoTally
<1> QED
  BY <1>1 DEF Init, IInv, RunInv, StoreInv, StoredOnce, RowInv, AfterRows, BulkInv, AfterBulk,
     StoredOrDeadLettered, HeldInv

-----------------------------------------------------------------------------
(* A step that stores and takes nothing: worker w moves on to label l. *)
LEMMA Moves ==
    ASSUME IInv, NEW w \in Workers, NEW l \in PC, Goto(w, l),
           UNCHANGED <<store, rows, batch, run_no, created, tally, runs, died, done>>,
           normalized \subseteq normalized',
           pc[w] # "idle",
           l \in AfterRows => pc[w] \in AfterRows,
           l \in AfterBulk => pc[w] \in AfterBulk \/ Valid(batch[w]) = {},
           pc[w] \in {"publish", "observe"} => l \in {"publish", "observe"} \/ created[w] = {}
    PROVE IInv'
<1>1. TypeInv'
  BY DEF IInv, TypeInv, Goto
<1>2. \A v \in Workers : pc'[v] = IF v = w THEN l ELSE pc[v]
  BY DEF IInv, TypeInv, Goto
<1>3. RunInv'
  BY <1>2 DEF IInv, RunInv
<1>4. StoreInv'
  BY DEF IInv, StoreInv, StoredOnce
<1>5. RowInv'
  BY <1>2 DEF IInv, RowInv
<1>6. BulkInv'
  BY <1>2 DEF IInv, BulkInv, Exists
<1>7. StoredOrDeadLettered'
  BY DEF IInv, StoredOrDeadLettered, Exists
<1>8. HeldInv'
  BY <1>2 DEF IInv, HeldInv, Holds
<1> QED
  BY <1>1, <1>3, <1>4, <1>5, <1>6, <1>7, <1>8 DEF IInv

(* A run begins: it has a fresh number and knows nothing yet. *)
LEMMA HandleInv ==
    ASSUME IInv, NEW w \in Workers, NEW b \in Batches, handle(w, b)
    PROVE IInv'
<1> DEFINE l == IF events[b] \cap Malformed # {} THEN "deadletter" ELSE "bulk"
<1>1. /\ pc[w] = "idle" /\ l \in PC
      /\ \A v \in Workers : /\ pc'[v] = IF v = w THEN l ELSE pc[v]
                            /\ batch'[v] = IF v = w THEN b ELSE batch[v]
                            /\ run_no'[v] = IF v = w THEN runs + 1 ELSE run_no[v]
                            /\ v # w => created'[v] = created[v] /\ tally'[v] = tally[v]
      /\ UNCHANGED <<store, normalized, rows, died, done>>
  BY DEF handle, Goto, effects, IInv, TypeInv, PC
<1>2. runs \in Nat /\ runs + 1 \in Runs
  BY ConstantsAssumption DEF handle, IInv, TypeInv, Runs
<1>3. TypeInv'
  <2>1. runs' \in 0..MaxRuns /\ run_no' \in [Workers -> 0..runs']
    BY <1>2, ConstantsAssumption DEF handle, IInv, TypeInv, Runs
  <2>2. pc' \in [Workers -> PC]
    BY <1>1 DEF handle, Goto, IInv, TypeInv
  <2>3. /\ batch' \in [Workers -> Batches] /\ created' \in [Workers -> SUBSET Events]
        /\ tally' \in [Workers -> [stored : Nat, duplicates : Nat, refused : Nat]]
    BY DEF handle, IInv, TypeInv, NoTally
  <2> QED
    BY <1>1, <2>1, <2>2, <2>3 DEF IInv, TypeInv
<1>4. RunInv'
  BY <1>1, <1>2 DEF IInv, RunInv
<1>5. StoreInv'
  BY <1>1 DEF IInv, StoreInv, StoredOnce
<1>6. RowInv'
  BY <1>1 DEF IInv, RowInv, AfterRows
<1>7. BulkInv'
  BY <1>1 DEF IInv, BulkInv, AfterBulk, Exists
<1>8. StoredOrDeadLettered'
  BY <1>1 DEF IInv, StoredOrDeadLettered, Exists
<1>9. HeldInv'
  BY <1>1 DEF IInv, HeldInv, Holds
<1> QED
  BY <1>3, <1>4, <1>5, <1>6, <1>7, <1>8, <1>9 DEF IInv

(* The dead-letter transaction adds rows and takes none away. *)
LEMMA DeadLetterInv ==
    ASSUME IInv, NEW w \in Workers, dead_letter_events(w)
    PROVE IInv'
<1>1. /\ pc[w] = "deadletter"
      /\ \A v \in Workers : pc'[v] = IF v = w THEN "reject" ELSE pc[v]
      /\ UNCHANGED <<store, normalized, batch, run_no, created, tally, runs, died, done>>
  BY DEF dead_letter_events, Goto, local, stream, IInv, TypeInv
<1>2. /\ rows' \in [Events -> Nat]
      /\ \A e \in Events : rows[e] > 0 => rows'[e] > 0
      /\ \A e \in events[batch[w]] \cap Malformed : rows'[e] > 0
  BY ConstantsAssumption DEF dead_letter_events, IInv, TypeInv
<1>3. TypeInv'
  BY <1>1, <1>2 DEF dead_letter_events, Goto, IInv, TypeInv, PC
<1>4. RunInv'
  BY <1>1 DEF IInv, RunInv
<1>5. StoreInv'
  BY <1>1 DEF IInv, StoreInv, StoredOnce
<1>6. RowInv'
  BY <1>1, <1>2, EventsOfBatch DEF IInv, TypeInv, RowInv
<1>7. BulkInv'
  BY <1>1 DEF IInv, BulkInv, AfterBulk, Exists
<1>8. StoredOrDeadLettered'
  BY <1>1, <1>2, EventsOfBatch DEF IInv, TypeInv, StoredOrDeadLettered, Exists
<1>9. HeldInv'
  BY <1>1 DEF IInv, HeldInv, Holds
<1> QED
  BY <1>3, <1>4, <1>5, <1>6, <1>7, <1>8, <1>9 DEF IInv

(* The bulk request: what it stores is free and of distinct ids, the run holds
   it, and what it neither stores nor refuses is in the store already. *)
LEMMA BulkKeeps ==
    ASSUME IInv, NEW w \in Workers, bulk(w)
    PROVE IInv'
<1> DEFINE r == run_no[w]
           sent == Valid(batch[w])
<1>0. PICK stored \in SUBSET {e \in sent : ~Exists(doc_id(e, r))} :
      \E refused \in SUBSET ({e \in sent : ~Exists(doc_id(e, r))} \ stored) :
         /\ \A e, x \in stored : doc_id(e, r) = doc_id(x, r) => e = x
         /\ \A e \in sent \ (stored \cup refused) :
              ~Exists(doc_id(e, r)) => \E x \in stored : doc_id(e, r) = doc_id(x, r)
         /\ store' = store \cup {doc(e, r) : e \in stored}
         /\ created' = [created EXCEPT ![w] = stored]
         /\ tally' = [tally EXCEPT ![w] =
              [stored     |-> Cardinality(stored),
               duplicates |-> Cardinality(sent \ (stored \cup refused)),
               refused    |-> Cardinality(refused)]]
  BY DEF bulk
<1>1. PICK refused \in SUBSET ({e \in sent : ~Exists(doc_id(e, r))} \ stored) :
         /\ \A e, x \in stored : doc_id(e, r) = doc_id(x, r) => e = x
         /\ \A e \in sent \ (stored \cup refused) :
              ~Exists(doc_id(e, r)) => \E x \in stored : doc_id(e, r) = doc_id(x, r)
         /\ store' = store \cup {doc(e, r) : e \in stored}
         /\ created' = [created EXCEPT ![w] = stored]
         /\ tally' = [tally EXCEPT ![w] =
              [stored     |-> Cardinality(stored),
               duplicates |-> Cardinality(sent \ (stored \cup refused)),
               refused    |-> Cardinality(refused)]]
  BY <1>0
<1>2. /\ pc[w] = "bulk"
      /\ \A v \in Workers : pc'[v] = IF v = w THEN "publish" ELSE pc[v]
      /\ UNCHANGED <<normalized, rows, batch, run_no, runs, died, done>>
  BY DEF bulk, Goto, IInv, TypeInv
<1>3. sent \in SUBSET Events /\ stored \in SUBSET Events /\ refused \in SUBSET Events
  BY EventsOfBatch DEF IInv, TypeInv
<1>4. r \in Runs
  BY <1>2 DEF IInv, RunInv
<1>5. \A v \in Workers : /\ created'[v] = IF v = w THEN stored ELSE created[v]
                         /\ v # w => tally'[v] = tally[v]
                         /\ v = w => tally'[v].refused = Cardinality(refused)
  BY <1>1 DEF IInv, TypeInv
<1>6. \A id : Exists(id) => Exists(id)'
  BY <1>1 DEF Exists
<1>7. \A e \in stored : Exists(doc_id(e, r))'
  <2> SUFFICES ASSUME NEW e \in stored PROVE Exists(doc_id(e, r))'
    OBVIOUS
  <2>1. doc(e, r) \in store'
    BY <1>1
  <2> QED
    BY <2>1, <1>2, <1>4, DocParts DEF Exists
<1>8. TypeInv'
  <2>1. /\ Cardinality(stored) \in Nat /\ Cardinality(sent \ (stored \cup refused)) \in Nat
        /\ Cardinality(refused) \in Nat
    BY <1>3, CountsAreNat
  <2>2. tally' \in [Workers -> [stored : Nat, duplicates : Nat, refused : Nat]]
    BY <2>1, <1>1 DEF IInv, TypeInv
  <2>3. created' \in [Workers -> SUBSET Events]
    BY <1>1, <1>3 DEF IInv, TypeInv
  <2>4. pc' \in [Workers -> PC]
    BY DEF bulk, Goto, IInv, TypeInv, PC
  <2> QED
    BY <1>2, <2>2, <2>3, <2>4 DEF IInv, TypeInv
<1>9. RunInv'
  BY <1>2 DEF IInv, RunInv
<1>10. StoreInv'
  <2>1. \A d \in store' : d \in store \/ \E e \in stored : d = doc(e, r)
    BY <1>1
  <2>2. \A d \in store' : d = <<d[1], d[2]>> /\ d[2] \in Runs
    BY <2>1, <1>4, DocParts DEF IInv, StoreInv
  <2>3. ASSUME NEW d \in store', NEW x \in store', d[1] = x[1]
        PROVE d = x
    <3>1. \A y \in store, e \in stored : y[1] # doc_id(e, r)
      BY DEF IInv, StoreInv, Exists
    <3>2. CASE d \in store /\ x \in store
      BY <3>2, <2>3 DEF IInv, StoreInv, StoredOnce
    <3>3. CASE d \in store /\ \E e \in stored : x = doc(e, r)
      BY <3>1, <3>3, <2>3, DocParts
    <3>4. CASE x \in store /\ \E e \in stored : d = doc(e, r)
      BY <3>1, <3>4, <2>3, DocParts
    <3>5. CASE (\E e \in stored : d = doc(e, r)) /\ \E e \in stored : x = doc(e, r)
      BY <3>5, <2>3, <1>1, DocParts
    <3> QED
      BY <2>1, <3>2, <3>3, <3>4, <3>5
  <2> QED
    BY <2>2, <2>3 DEF StoreInv, StoredOnce
<1>11. RowInv'
  BY <1>2 DEF IInv, RowInv, AfterRows
<1>12. BulkInv'
  <2> SUFFICES ASSUME NEW v \in Workers, pc'[v] \in AfterBulk, tally'[v].refused = 0,
                      NEW e \in Valid(batch[v])
               PROVE Exists(doc_id(e, run_no[v]))'
    BY <1>2 DEF BulkInv
  <2>1. CASE v # w
    <3>1. Exists(doc_id(e, run_no[v]))
      BY <2>1, <1>2, <1>5 DEF IInv, BulkInv
    <3> QED
      BY <3>1, <1>6, <1>2 DEF Exists
  <2>2. CASE v = w
    <3>1. refused = {}
      BY <2>2, <1>5, <1>3, NoneRefused
    <3>2. Exists(doc_id(e, r)) \/ \E x \in stored : doc_id(e, r) = doc_id(x, r)
      BY <3>1, <2>2, <1>1
    <3>3. Exists(doc_id(e, r))'
      BY <3>2, <1>2, <1>6, <1>7 DEF Exists
    <3> QED
      BY <3>3, <2>2, <1>2
  <2> QED
    BY <2>1, <2>2
<1>13. StoredOrDeadLettered'
  <2>1. \A b \in done : \A e \in events[b] :
           IF e \in Malformed THEN rows[e] > 0 ELSE \E q \in Runs : Exists(doc_id(e, q))'
    BY <1>6 DEF IInv, StoredOrDeadLettered
  <2> QED
    BY <2>1, <1>2 DEF StoredOrDeadLettered
<1>14. HeldInv'
  <2> SUFFICES ASSUME NEW d \in store' \ normalized', d[2] \notin died
               PROVE \E v \in Workers : Holds(v, d)'
    BY <1>2 DEF HeldInv
  <2>1. CASE d \in store
    <3>1. PICK v \in Workers : Holds(v, d)
      BY <2>1, <1>2 DEF IInv, HeldInv
    <3>2. v # w
      BY <3>1, <1>2 DEF Holds
    <3> QED
      BY <3>1, <3>2, <1>2, <1>5 DEF Holds
  <2>2. CASE d \notin store
    <3>1. \E e \in stored : d = doc(e, r)
      BY <2>2, <1>1
    <3> QED
      BY <3>1, <1>2, <1>5 DEF Holds
  <2> QED
    BY <2>1, <2>2
<1> QED
  BY <1>8, <1>9, <1>10, <1>11, <1>12, <1>13, <1>14 DEF IInv

(* The fan-out of an event ends with its observation; the run lets it go. *)
LEMMA ObserveInv ==
    ASSUME IInv, NEW w \in Workers, observe(w)
    PROVE IInv'
<1>1. PICK e \in created[w] : /\ doc(e, run_no[w]) \in normalized
                              /\ created' = [created EXCEPT ![w] = @ \ {e}]
  BY DEF observe
<1>2. /\ pc[w] = "observe"
      /\ \A v \in Workers : pc'[v] = IF v = w THEN "publish" ELSE pc[v]
      /\ UNCHANGED <<store, normalized, rows, batch, run_no, tally, runs, died, done>>
      /\ \A v \in Workers : created'[v] = IF v = w THEN created[v] \ {e} ELSE created[v]
  BY <1>1 DEF observe, Goto, stream, IInv, TypeInv
<1>3. TypeInv'
  <2>1. created' \in [Workers -> SUBSET Events]
    BY <1>1 DEF IInv, TypeInv
  <2>2. pc' \in [Workers -> PC]
    BY DEF observe, Goto, IInv, TypeInv, PC
  <2> QED
    BY <1>2, <2>1, <2>2 DEF IInv, TypeInv
<1>4. RunInv'
  BY <1>2 DEF IInv, RunInv
<1>5. StoreInv'
  BY <1>2 DEF IInv, StoreInv, StoredOnce
<1>6. RowInv'
  BY <1>2 DEF IInv, RowInv, AfterRows
<1>7. BulkInv'
  BY <1>2 DEF IInv, BulkInv, AfterBulk, Exists
<1>8. StoredOrDeadLettered'
  BY <1>2 DEF IInv, StoredOrDeadLettered, Exists
<1>9. HeldInv'
  <2> SUFFICES ASSUME NEW d \in store \ normalized, d[2] \notin died
               PROVE \E v \in Workers : Holds(v, d)'
    BY <1>2 DEF HeldInv
  <2>1. PICK v \in Workers : Holds(v, d)
    BY DEF IInv, HeldInv
  <2> QED
    BY <2>1, <1>1, <1>2 DEF Holds
<1> QED
  BY <1>3, <1>4, <1>5, <1>6, <1>7, <1>8, <1>9 DEF IInv

(* The handler returns: its batch is done only if nothing was refused. *)
LEMMA FinishInv ==
    ASSUME IInv, NEW w \in Workers, finish(w)
    PROVE IInv'
<1>1. /\ pc[w] = "end"
      /\ \A v \in Workers : pc'[v] = IF v = w THEN "idle" ELSE pc[v]
      /\ UNCHANGED <<store, normalized, rows, batch, run_no, created, tally, runs, died>>
  BY DEF finish, Goto, effects, local, IInv, TypeInv
<1>2. tally[w].refused \in Nat /\ batch[w] \in Batches /\ run_no[w] \in Runs
  BY <1>1 DEF IInv, TypeInv, RunInv
<1>3. done' = done \/ (tally[w].refused = 0 /\ done' = done \cup {batch[w]})
  BY <1>2 DEF finish
<1>4. TypeInv'
  BY <1>1, <1>2, <1>3 DEF finish, Goto, IInv, TypeInv, PC
<1>5. RunInv'
  BY <1>1 DEF IInv, RunInv
<1>6. StoreInv'
  BY <1>1 DEF IInv, StoreInv, StoredOnce
<1>7. RowInv'
  BY <1>1 DEF IInv, RowInv, AfterRows
<1>8. BulkInv'
  BY <1>1 DEF IInv, BulkInv, AfterBulk, Exists
<1>9. StoredOrDeadLettered'
  <2>1. tally[w].refused = 0 => \A e \in events[batch[w]] :
           IF e \in Malformed THEN rows[e] > 0 ELSE \E q \in Runs : Exists(doc_id(e, q))
    <3>1. \A e \in events[batch[w]] \cap Malformed : rows[e] > 0
      BY <1>1 DEF IInv, RowInv, AfterRows
    <3>2. tally[w].refused = 0 => \A e \in Valid(batch[w]) : Exists(doc_id(e, run_no[w]))
      BY <1>1 DEF IInv, BulkInv, AfterBulk
    <3> QED
      BY <3>1, <3>2, <1>2 DEF Valid
  <2>2. \A b \in done' : \A e \in events[b] :
           IF e \in Malformed THEN rows[e] > 0 ELSE \E q \in Runs : Exists(doc_id(e, q))
    BY <2>1, <1>3 DEF IInv, StoredOrDeadLettered
  <2> QED
    BY <2>2, <1>1 DEF StoredOrDeadLettered, Exists
<1>10. HeldInv'
  BY <1>1 DEF IInv, HeldInv, Holds
<1> QED
  BY <1>4, <1>5, <1>6, <1>7, <1>8, <1>9, <1>10 DEF IInv

(* A run dies: what it held stays unpublished, and its number says why. *)
LEMMA FailInv ==
    ASSUME IInv, NEW w \in Workers, fail(w)
    PROVE IInv'
<1>1. /\ pc[w] # "idle" /\ died' = died \cup {run_no[w]}
      /\ \A v \in Workers : pc'[v] = IF v = w THEN "idle" ELSE pc[v]
      /\ UNCHANGED <<store, normalized, rows, batch, run_no, created, tally, runs, done>>
  BY DEF fail, Goto, effects, local, IInv, TypeInv
<1>2. TypeInv'
  BY <1>1 DEF fail, Goto, IInv, TypeInv, PC
<1>3. RunInv'
  BY <1>1 DEF IInv, RunInv
<1>4. StoreInv'
  BY <1>1 DEF IInv, StoreInv, StoredOnce
<1>5. RowInv'
  BY <1>1 DEF IInv, RowInv, AfterRows
<1>6. BulkInv'
  BY <1>1 DEF IInv, BulkInv, AfterBulk, Exists
<1>7. StoredOrDeadLettered'
  BY <1>1 DEF IInv, StoredOrDeadLettered, Exists
<1>8. HeldInv'
  <2> SUFFICES ASSUME NEW d \in store \ normalized, d[2] \notin died'
               PROVE \E v \in Workers : Holds(v, d)'
    BY <1>1 DEF HeldInv
  <2>1. PICK v \in Workers : Holds(v, d)
    BY <1>1 DEF IInv, HeldInv
  <2>2. d[2] = run_no[v]
    BY <2>1, DocParts DEF Holds
  <2> QED
    BY <2>1, <2>2, <1>1 DEF Holds
<1> QED
  BY <1>2, <1>3, <1>4, <1>5, <1>6, <1>7, <1>8 DEF IInv

-----------------------------------------------------------------------------
LEMMA StepInv ==
    ASSUME IInv, NEW w \in Workers, WorkerStep(w)
    PROVE IInv'
<1>0. PC = {"idle", "deadletter", "reject", "bulk", "publish", "observe", "count", "mark", "onboard", "end"}
  BY DEF PC
<1>1. CASE \E b \in Batches : handle(w, b)
  BY <1>1, HandleInv
<1>2. CASE dead_letter_events(w)
  BY <1>2, DeadLetterInv
<1>3. CASE count_rejected(w)
  <2>1. CASE Valid(batch[w]) = {}
    <3>1. Goto(w, "end")
      BY <1>3, <2>1 DEF count_rejected
    <3> QED
      BY <3>1, <2>1, <1>0, <1>3, Moves DEF count_rejected, effects, local, stream, AfterRows,
         AfterBulk
  <2>2. CASE Valid(batch[w]) # {}
    <3>1. Goto(w, "bulk")
      BY <1>3, <2>2 DEF count_rejected
    <3> QED
      BY <3>1, <1>0, <1>3, Moves DEF count_rejected, effects, local, stream, AfterRows, AfterBulk
  <2> QED
    BY <2>1, <2>2
<1>4. CASE bulk(w)
  BY <1>4, BulkKeeps
<1>5. CASE publish(w)
  <2>1. CASE created[w] = {} /\ Goto(w, "count") /\ UNCHANGED normalized
    BY <2>1, <1>0, <1>5, Moves DEF publish, local, stream, AfterRows, AfterBulk
  <2>2. CASE \E e \in created[w] : normalized' = normalized \cup {doc(e, run_no[w])} /\ Goto(w, "observe")
    BY <2>2, <1>0, <1>5, Moves DEF publish, local, stream, AfterRows, AfterBulk
  <2> QED
    BY <1>5, <2>1, <2>2 DEF publish
<1>6. CASE observe(w)
  BY <1>6, ObserveInv
<1>7. CASE count(w)
  <2>1. Goto(w, "mark") \/ Goto(w, "end")
    BY <1>7 DEF count
  <2> QED
    BY <2>1, <1>0, <1>7, Moves DEF count, effects, local, stream, AfterRows, AfterBulk
<1>8. CASE mark_first_event(w)
  <2>1. Goto(w, "end") \/ Goto(w, "onboard")
    BY <1>8 DEF mark_first_event
  <2> QED
    BY <2>1, <1>0, <1>8, Moves DEF mark_first_event, effects, local, stream, AfterRows, AfterBulk
<1>9. CASE mark_onboarding_step(w)
  BY <1>0, <1>9, Moves DEF mark_onboarding_step, effects, local, stream, AfterRows, AfterBulk
<1>10. CASE finish(w)
  BY <1>10, FinishInv
<1> QED
  BY <1>1, <1>2, <1>3, <1>4, <1>5, <1>6, <1>7, <1>8, <1>9, <1>10 DEF WorkerStep

LEMMA NextInv == IInv /\ [Next]_vars => IInv'
<1> SUFFICES ASSUME IInv, [Next]_vars PROVE IInv'
  OBVIOUS
<1>1. CASE \E w \in Workers : WorkerStep(w)
  BY <1>1, StepInv
<1>2. CASE \E w \in Workers : fail(w)
  BY <1>2, FailInv
<1>3. CASE UNCHANGED vars
  BY <1>3 DEF vars, effects, local, stream, IInv, TypeInv, RunInv, StoreInv, StoredOnce, RowInv,
     BulkInv,
     StoredOrDeadLettered, Exists, HeldInv, Holds
<1> QED
  BY <1>1, <1>2, <1>3 DEF Next

(* What every run knows at each of its steps (the inductive invariant). *)
THEOREM Invariant == Spec => []IInv
BY InitInv, NextInv, PTL DEF Spec

(* Once a batch is acknowledged, every event of it is stored or has a dead-letter
   row, however often it was delivered and wherever its runs died or were refused
   (normalizer.py handle). *)
THEOREM StoredOrDeadLetteredHolds == Spec => []StoredOrDeadLettered
<1>1. IInv => StoredOrDeadLettered
  BY DEF IInv
<1> QED
  BY <1>1, Invariant, PTL

(* No two documents have the same _id: op_type=create makes redelivered,
   concurrent and repeated events one document (normalizer.py handle). *)
THEOREM StoredOnceHolds == Spec => []StoredOnce
<1>1. IInv => StoredOnce
  BY DEF IInv, StoreInv
<1> QED
  BY <1>1, Invariant, PTL

(* A stored document that was not published belongs to a run that died or is
   still in its fan-out; refused documents of the same request never keep it back
   (normalizer.py handle). *)
THEOREM UnpublishedOnlyByFailureHolds == Spec => []UnpublishedOnlyByFailure
<1>1. IInv => UnpublishedOnlyByFailure
  <2> SUFFICES ASSUME IInv, NEW d \in store \ normalized, d[2] \notin died
               PROVE \E w \in Workers : pc[w] \in {"publish", "observe"} /\ run_no[w] = d[2]
    BY DEF UnpublishedOnlyByFailure
  <2>1. PICK w \in Workers : Holds(w, d)
    BY DEF IInv, HeldInv
  <2> QED
    BY <2>1, DocParts DEF Holds
<1> QED
  BY <1>1, Invariant, PTL

-----------------------------------------------------------------------------
(***************************************************************************)
(* Proofs about Inventory, for every set of devices, assets, names,        *)
(* workers and enrollments in flight.  Inventory is an instance here, so   *)
(* its assumption about the constants is a hypothesis of each result.      *)
(*                                                                         *)
(* The matcher resolves an observation in one transaction and writes in    *)
(* another.  What it holds between them is true of the tables however old  *)
(* it is (WorkersHold), and current while nothing was committed since      *)
(* (FreshInv).  The enrollment that holds the lock has counted itself in   *)
(* already (CapInv).                                                       *)
(***************************************************************************)

CONSTANTS Enrollers, LogViews, MaxRare

VARIABLES worker, enroller, lock, dead_letters, revocations

Inv == INSTANCE Inventory

\* The instance's Cardinality is the one the theorems are about
LEMMA SameCardinality == ASSUME NEW S PROVE Inv!Cardinality(S) = Cardinality(S)
BY DEF Inv!Cardinality, Cardinality

Observation ==
    [device : Devices \cup {None}, machine : Machines, view : SUBSET {"host", "mac"}]

\* Types
Typed ==
    /\ asset \in [Inv!Assets -> Inv!AssetRow \cup {None}]
    /\ device \in [Devices -> Inv!DeviceRow \cup {None}]
    /\ identity \in [Inv!Identifiers -> Inv!Assets \cup {None}]
    /\ pin \in [Inv!Identifiers -> Inv!Assets \cup {None}]
    /\ worker \in [Workers -> [pc : {"idle", "resolved"}, obs : Observation \cup {None},
                               found : Inv!Assets \cup {None}, stale : BOOLEAN]]
    /\ enroller \in [Enrollers -> Machines \cup {None}]
    /\ lock \in Enrollers \cup {None}
    /\ strays \subseteq Inv!Assets
    /\ corrections \in Nat /\ silences \in Nat /\ revocations \in Nat

\* The identifiers of an observation as a set
Ids(o) ==
    ({o.device} \ {None})
    \cup (IF "host" \in o.view THEN {host_of[o.machine]} ELSE {})
    \cup (IF "mac" \in o.view THEN {mac_of[o.machine]} \ {None} ELSE {})

Resolved(w) == worker[w].pc = "resolved"

\* Rows point to assets that exist; a device that is not enrolled is bound to nothing
RowsExist ==
    /\ \A i \in Inv!Identifiers : identity[i] # None => identity[i] \in Inv!Existing
    /\ \A d \in Devices : device[d] = None => identity[d] = None

\* What a worker holds between its two halves, however old
WorkersHold ==
    \A w \in Workers : Resolved(w) =>
        /\ worker[w].obs \in Observation /\ Ids(worker[w].obs) # {}
        /\ worker[w].obs.device # None => device[worker[w].obs.device] # None
        /\ worker[w].found # None => worker[w].found \in Inv!Existing
        /\ worker[w].found = None => worker[w].obs.device = None

\* What it knows while nothing was committed since
FreshInv ==
    \A w \in Workers : Resolved(w) /\ ~worker[w].stale =>
        IF worker[w].found # None THEN worker[w].found \in Inv!Active \cup strays
        ELSE \A i \in Ids(worker[w].obs) : identity[i] = None

OnlyEnrolled ==
    /\ \A a \in Inv!Existing : asset[a].created_via = "agent_enrollment"
    /\ silences = 0
    /\ corrections = 0

Billable == {a \in Inv!Active : asset[a].agent_status # "revoked" /\ asset[a].recent}

CapInv ==
    /\ silences = 0 /\ corrections = 0 => \A a \in Inv!Existing : asset[a].recent
    /\ \A e \in Enrollers : enroller[e] # None => lock = e
    /\ OnlyEnrolled => Cardinality(Billable) + (IF lock = None THEN 0 ELSE 1) <= EndpointCap

InventoryInv ==
    /\ Typed /\ RowsExist /\ WorkersHold
    /\ Inv!PinsWin /\ Inv!DeviceRowAgrees
    /\ FreshInv /\ Inv!OverlapConfined
    /\ CapInv

-----------------------------------------------------------------------------
(* Identifiers and resolution *)

LEMMA IdsTyped ==
    ASSUME Inv!ConstantsAssumption,
           NEW o \in Observation
    PROVE  Ids(o) \subseteq Inv!Identifiers /\ None \notin Ids(o) /\ Ids(o) \cap Devices = {o.device} \ {None}
<1>1. o.machine \in Machines /\ o.device \in Devices \cup {None}
    BY DEF Observation
<1>2. host_of[o.machine] \in Inv!Names /\ {mac_of[o.machine]} \ {None} \subseteq Inv!Names
    BY <1>1 DEF Inv!Names
<1>3. QED
    BY <1>1, <1>2 DEF Ids, Inv!Identifiers, Inv!ConstantsAssumption

Elements(s) == {s[k] : k \in 1..Len(s)}

LEMMA ConcatElements ==
    ASSUME NEW S, NEW s \in Seq(S), NEW t \in Seq(S)
    PROVE  /\ s \o t \in Seq(S) /\ Len(s \o t) = Len(s) + Len(t)
           /\ Elements(s \o t) = Elements(s) \cup Elements(t)
<1> DEFINE st == s \o t
<1>1. /\ st \in Seq(S) /\ Len(st) = Len(s) + Len(t) /\ Len(s) \in Nat /\ Len(t) \in Nat
      /\ \A k \in 1..Len(s) + Len(t) : st[k] = IF k <= Len(s) THEN s[k] ELSE t[k - Len(s)]
    BY ConcatProperties, LenProperties
<1> HIDE DEF st
<1>2. ASSUME NEW x \in Elements(st) PROVE x \in Elements(s) \cup Elements(t)
    <2>0. PICK k \in 1..Len(st) : x = st[k]
        BY <1>2 DEF Elements
    <2>1. CASE k <= Len(s)
        <3>1. k \in 1..Len(s) /\ x = s[k]
            BY <1>1, <2>0, <2>1
        <3> QED BY <3>1 DEF Elements
    <2>2. CASE k > Len(s)
        BY <1>1, <2>0, <2>2 DEF Elements
    <2> QED BY <1>1, <2>1, <2>2
<1>3. ASSUME NEW x \in Elements(s) PROVE x \in Elements(st)
    <2>0. PICK k \in 1..Len(s) : x = s[k]
        BY <1>3 DEF Elements
    <2> QED BY <1>1, <2>0 DEF Elements
<1>4. ASSUME NEW x \in Elements(t) PROVE x \in Elements(st)
    <2>0. PICK k \in 1..Len(t) : x = t[k]
        BY <1>4 DEF Elements
    <2>1. /\ k + Len(s) \in 1..Len(s) + Len(t) /\ ~ (k + Len(s) <= Len(s))
          /\ (k + Len(s)) - Len(s) = k
        BY <1>1
    <2>2. st[k + Len(s)] = t[k]
        BY <1>1, <2>1
    <2> QED BY <1>1, <2>0, <2>1, <2>2 DEF Elements
<1>5. Elements(st) = Elements(s) \cup Elements(t)
    BY <1>2, <1>3, <1>4
<1> QED BY <1>1, <1>5 DEF st

LEMMA OneElement ==
    ASSUME NEW S, NEW x \in S
    PROVE  <<x>> \in Seq(S) /\ Len(<<x>>) = 1 /\ Elements(<<x>>) = {x}
BY DEF Elements

LEMMA NoElement ==
    ASSUME NEW S
    PROVE  <<>> \in Seq(S) /\ Len(<<>>) = 0 /\ Elements(<<>>) = {}
           /\ \A s \in Seq(S) : Elements(s) = {} => s = <<>>
<1>1. <<>> \in Seq(S) /\ Len(<<>>) = 0 /\ Elements(<<>>) = {}
    BY EmptySeq DEF Elements
<1>2. ASSUME NEW s \in Seq(S), s # <<>> PROVE s[1] \in Elements(s)
    BY <1>2, EmptySeq DEF Elements
<1> QED BY <1>1, <1>2

LEMMA Optional ==
    ASSUME NEW S, NEW x \in S, NEW c \in BOOLEAN, NEW s, s = IF c THEN <<x>> ELSE <<>>
    PROVE  s \in Seq(S) /\ Len(s) \in 0..1 /\ Elements(s) = (IF c THEN {x} ELSE {})
<1>1. CASE c
    BY <1>1, OneElement
<1>2. CASE ~c
    BY <1>2, NoElement
<1> QED BY <1>1, <1>2

LEMMA ThreeParts ==
    ASSUME NEW S, NEW s \in Seq(S), NEW t \in Seq(S), NEW u \in Seq(S),
           Len(s) \in 0..1, Len(t) \in 0..1, Len(u) \in 0..1
    PROVE  /\ s \o t \o u \in Seq(S) /\ Len(s \o t \o u) \in 0..3
           /\ Elements(s \o t \o u) = Elements(s) \cup Elements(t) \cup Elements(u)
<1> DEFINE st == s \o t
           stu == st \o u
<1>1. st \in Seq(S) /\ Len(st) = Len(s) + Len(t) /\ Elements(st) = Elements(s) \cup Elements(t)
    BY ConcatElements
<1> HIDE DEF st
<1>2. stu \in Seq(S) /\ Len(stu) = Len(st) + Len(u) /\ Elements(stu) = Elements(st) \cup Elements(u)
    BY <1>1, ConcatElements
<1> HIDE DEF stu
<1>3. Len(stu) \in 0..3
    <2>1. Len(st) = Len(s) + Len(t) /\ Len(stu) = Len(st) + Len(u)
        BY <1>1, <1>2
    <2> DEFINE x == Len(s)
               y == Len(t)
               z == Len(u)
    <2>2. x \in 0..1 /\ y \in 0..1 /\ z \in 0..1 /\ Len(stu) = x + y + z
        BY <2>1
    <2> HIDE DEF x, y, z
    <2> QED BY <2>2
<1> QED BY <1>1, <1>2, <1>3 DEF st, stu

\* The sequence has the identifiers of the set, at most three.
LEMMA IdsOfSequence ==
    ASSUME NEW o \in Observation
    PROVE  /\ Len(Inv!identifiers(o)) \in 0..3
           /\ Elements(Inv!identifiers(o)) = Ids(o)
           /\ Inv!identifiers(o) = <<>> <=> Ids(o) = {}
<1> DEFINE d == o.device
           h == host_of[o.machine]
           m == mac_of[o.machine]
           S == {d, h, m}
           D == IF d # None THEN <<d>> ELSE <<>>
           H == IF "host" \in o.view THEN <<h>> ELSE <<>>
           M == IF "mac" \in o.view /\ m # None THEN <<m>> ELSE <<>>
           ids == D \o H \o M
<1>1. Inv!identifiers(o) = ids
    BY DEF Inv!identifiers
<1>2. Ids(o) = (IF d # None THEN {d} ELSE {}) \cup (IF "host" \in o.view THEN {h} ELSE {})
               \cup (IF "mac" \in o.view /\ m # None THEN {m} ELSE {})
    BY DEF Ids
<1> HIDE DEF d, h, m
<1>3. d \in S /\ h \in S /\ m \in S
    OBVIOUS
<1> HIDE DEF S
<1>4. D \in Seq(S) /\ Len(D) \in 0..1 /\ Elements(D) = (IF d # None THEN {d} ELSE {})
    BY <1>3, Optional
<1>5. H \in Seq(S) /\ Len(H) \in 0..1 /\ Elements(H) = (IF "host" \in o.view THEN {h} ELSE {})
    BY <1>3, Optional
<1>6. M \in Seq(S) /\ Len(M) \in 0..1
      /\ Elements(M) = (IF "mac" \in o.view /\ m # None THEN {m} ELSE {})
    BY <1>3, Optional
<1> HIDE DEF D, H, M
<1>7. ids \in Seq(S) /\ Len(ids) \in 0..3 /\ Elements(ids) = Elements(D) \cup Elements(H) \cup Elements(M)
    BY <1>4, <1>5, <1>6, ThreeParts
<1> HIDE DEF ids
<1>8. Elements(ids) = Ids(o)
    BY <1>2, <1>4, <1>5, <1>6, <1>7
<1>9. ids = <<>> <=> Elements(ids) = {}
    BY <1>7, NoElement
<1> QED BY <1>1, <1>7, <1>8, <1>9

\* What _resolve answers: the asset of one of the identifiers; nothing only when no
\* identifier has one, as far as the observation does not carry a device.
LEMMA ResolveAnswers ==
    ASSUME NEW o \in Observation
    PROVE  /\ Inv!_resolve(o) # None => \E i \in Ids(o) : Inv!_resolve(o) = Inv!candidate_of(i)
           /\ Inv!_resolve(o) = None /\ o.device = None => \A i \in Ids(o) : Inv!candidate_of(i) = None
           /\ Inv!_resolve(o) = None /\ o.device # None => Inv!candidate_of(o.device) = None
<1> DEFINE ids == Inv!identifiers(o)
           fits(k) == /\ Inv!candidate_of(ids[k]) # None
                      /\ ids[k] \in Devices \/ ~Inv!other_device(o, Inv!candidate_of(ids[k]))
           matching == {k \in 1..Len(ids) : fits(k)}
           first == CHOOSE k \in matching : \A j \in matching : k <= j
<1>1. Inv!_resolve(o) = IF matching = {} THEN None ELSE Inv!candidate_of(ids[first])
    BY DEF Inv!_resolve
<1>2. Len(ids) \in 0..3 /\ {ids[k] : k \in 1..Len(ids)} = Ids(o)
    BY IdsOfSequence DEF Elements
<1> HIDE DEF ids
<1>3. ASSUME matching # {} PROVE first \in matching
    <2> HIDE DEF fits
    <2>1. matching \subseteq 1..3
        BY <1>2, SMTT(30)
    <2> HIDE DEF matching
    <2>2. \E k \in matching : \A j \in matching : k <= j
        <3>1. CASE 1 \in matching
            BY <2>1, <3>1
        <3>2. CASE 1 \notin matching /\ 2 \in matching
            BY <2>1, <3>2
        <3>3. CASE 1 \notin matching /\ 2 \notin matching
            <4>1. \A k \in matching : k = 3
                BY <2>1, <3>3
            <4> QED BY <1>3, <4>1
        <3> QED BY <3>1, <3>2, <3>3
    <2> QED BY <2>2
<1> HIDE DEF first
<1>4. Inv!_resolve(o) # None => \E i \in Ids(o) : Inv!_resolve(o) = Inv!candidate_of(i)
    BY <1>1, <1>2, <1>3
<1>5. ASSUME Inv!_resolve(o) = None PROVE matching = {}
    BY <1>1, <1>3, <1>5
<1>6. ASSUME Inv!_resolve(o) = None, o.device = None, NEW i \in Ids(o) PROVE Inv!candidate_of(i) = None
    <2>1. PICK k \in 1..Len(ids) : i = ids[k]
        BY <1>2
    <2> QED BY <1>5, <1>6, <2>1 DEF Inv!other_device
<1>7. ASSUME Inv!_resolve(o) = None, o.device # None PROVE Inv!candidate_of(o.device) = None
    <2>0. o.device \in Ids(o) /\ o.device \in Devices
        BY <1>7 DEF Ids, Observation
    <2>1. PICK k \in 1..Len(ids) : o.device = ids[k]
        BY <1>2, <2>0
    <2> QED BY <1>5, <1>7, <2>0, <2>1
<1> QED BY <1>4, <1>6, <1>7

-----------------------------------------------------------------------------
(* Preservation *)

LEMMA BillableFinite ==
    ASSUME Inv!ConstantsAssumption
    PROVE  /\ IsFiniteSet(Billable) /\ IsFiniteSet(Billable')
           /\ Cardinality(Billable) \in Nat /\ Cardinality(Billable') \in Nat
<1>1. IsFiniteSet(Inv!Assets)
    BY FS_Interval DEF Inv!Assets, Inv!ConstantsAssumption
<1>2. Billable \subseteq Inv!Assets /\ Billable' \subseteq Inv!Assets
    BY DEF Billable, Inv!Active, Inv!Existing
<1> QED BY <1>1, <1>2, FS_Subset, FS_CardinalityType

LEMMA InitHolds ==
    ASSUME Inv!ConstantsAssumption
    PROVE  Inv!Init => InventoryInv
<1> SUFFICES ASSUME Inv!Init PROVE InventoryInv
    OBVIOUS
<1> USE Inv!ConstantsAssumption DEF Inv!Init
<1>1. Inv!Existing = {} /\ Inv!Active = {} /\ Billable = {}
    BY DEF Inv!Existing, Inv!Active, Billable
<1>2. Typed
    BY DEF Typed, Inv!Idle
<1>3. RowsExist /\ Inv!PinsWin /\ Inv!DeviceRowAgrees /\ Inv!OverlapConfined
    BY <1>1 DEF RowsExist, Inv!PinsWin, Inv!DeviceRowAgrees, Inv!OverlapConfined,
       Inv!Identifiers
<1>4. WorkersHold /\ FreshInv
    BY DEF WorkersHold, FreshInv, Resolved, Inv!Idle
<1>5. CapInv
    BY <1>1, FS_EmptySet DEF CapInv
<1> QED BY <1>2, <1>3, <1>4, <1>5 DEF InventoryInv

\* Steps that write fields of rows: no row comes or goes, no asset changes its state or
\* loses its revocation, and none lapses unless the silence is counted.
AssetsKept ==
    /\ \A a \in Inv!Assets : asset'[a] = None <=> asset[a] = None
    /\ \A a \in Inv!Existing :
          /\ asset'[a].state = asset[a].state /\ asset'[a].created_via = asset[a].created_via
          /\ asset[a].agent_status = "revoked" => asset'[a].agent_status = "revoked"
          /\ silences' = 0 /\ asset[a].recent => asset'[a].recent

DevicesKept ==
    \A d \in Devices : /\ device'[d] = None <=> device[d] = None
                       /\ device[d] # None => device'[d].asset = device[d].asset

RestKept ==
    /\ UNCHANGED <<identity, pin, worker, enroller, lock, strays, corrections>>
    /\ silences' >= silences

LEMMA RowsOnly ==
    ASSUME Inv!ConstantsAssumption,
           InventoryInv, Typed', AssetsKept, DevicesKept, RestKept
    PROVE  InventoryInv'
<1> USE DEF AssetsKept, DevicesKept, RestKept
<1>1. Inv!Existing' = Inv!Existing
    BY DEF Inv!Existing
<1>2. Inv!Active' = Inv!Active
    BY <1>1 DEF Inv!Active, Inv!Existing
<1>3. RowsExist'
    BY <1>1 DEF InventoryInv, RowsExist
<1>4. WorkersHold'
    BY <1>1 DEF InventoryInv, WorkersHold, Resolved, Observation
<1>5. Inv!PinsWin'
    BY DEF InventoryInv, Inv!PinsWin
<1>6. Inv!DeviceRowAgrees'
    BY DEF InventoryInv, Inv!DeviceRowAgrees
<1>7. FreshInv'
    BY <1>2 DEF InventoryInv, FreshInv, Resolved
<1>8. Inv!OverlapConfined'
    BY <1>2 DEF InventoryInv, Inv!OverlapConfined
<1>9. silences' = 0 => silences = 0
    BY DEF InventoryInv, Typed
<1>10. silences' = 0 /\ corrections' = 0 => \A a \in Inv!Existing' : asset'[a].recent
    BY <1>1, <1>9 DEF InventoryInv, CapInv
<1>11. OnlyEnrolled' => OnlyEnrolled
    BY <1>1, <1>9 DEF OnlyEnrolled
<1>12. OnlyEnrolled => Billable' \subseteq Billable
    BY <1>2 DEF InventoryInv, CapInv, OnlyEnrolled, Billable, Inv!Active, Inv!Existing
<1>13. OnlyEnrolled' => Cardinality(Billable') <= Cardinality(Billable)
    BY <1>11, <1>12, BillableFinite, FS_Subset
<1>14. CapInv'
    BY <1>10, <1>11, <1>13, BillableFinite DEF InventoryInv, CapInv, Inv!ConstantsAssumption
<1> QED BY <1>3, <1>4, <1>5, <1>6, <1>7, <1>8, <1>14 DEF InventoryInv

LEMMA Step_handle_malformed ==
    ASSUME Inv!ConstantsAssumption,
           InventoryInv, NEW o, Inv!handle_malformed(o)
    PROVE  InventoryInv'
<1>1. UNCHANGED <<asset, device, silences, revocations>> /\ Typed'
    BY DEF InventoryInv, Typed, Inv!handle_malformed, Inv!tables, Inv!counts, Inv!enrolling
<1>2. RestKept
    BY <1>1 DEF RestKept, InventoryInv, Typed, Inv!handle_malformed, Inv!tables, Inv!counts,
       Inv!enrolling
<1>3. AssetsKept /\ DevicesKept
    BY <1>1 DEF AssetsKept, DevicesKept
<1> QED BY <1>1, <1>2, <1>3, RowsOnly

LEMMA Step_unchanged ==
    ASSUME Inv!ConstantsAssumption,
           InventoryInv, UNCHANGED Inv!vars
    PROVE  InventoryInv'
<1>1. UNCHANGED <<asset, device, silences, revocations>> /\ Typed'
    BY DEF InventoryInv, Typed, Inv!vars, Inv!tables, Inv!counts, Inv!enrolling
<1>2. RestKept
    BY <1>1 DEF RestKept, InventoryInv, Typed, Inv!vars, Inv!tables, Inv!counts, Inv!enrolling
<1>3. AssetsKept /\ DevicesKept
    BY <1>1 DEF AssetsKept, DevicesKept
<1> QED BY <1>1, <1>2, <1>3, RowsOnly

\* The asset of a device exists.
LEMMA DeviceHasAsset ==
    ASSUME Inv!ConstantsAssumption,
           InventoryInv, NEW d \in Devices, device[d] # None
    PROVE  device[d] \in Inv!DeviceRow /\ device[d].asset \in Inv!Existing /\ asset[device[d].asset] \in Inv!AssetRow
<1>1. device[d] \in Inv!DeviceRow /\ device[d].asset \in Inv!Assets
    BY DEF InventoryInv, Typed, Inv!DeviceRow
<1>2. device[d].asset = identity[d] /\ d \in Inv!Identifiers
    BY DEF InventoryInv, Inv!DeviceRowAgrees, Inv!Identifiers
<1>3. device[d].asset \in Inv!Existing
    BY <1>1, <1>2 DEF InventoryInv, RowsExist, Inv!ConstantsAssumption
<1> QED BY <1>1, <1>3 DEF InventoryInv, Typed, Inv!Existing

LEMMA Step_heartbeat ==
    ASSUME Inv!ConstantsAssumption,
           InventoryInv, NEW d \in Devices, Inv!heartbeat(d)
    PROVE  InventoryInv'
<1> DEFINE a == device[d].asset
<1>1. /\ device[d] \in Inv!DeviceRow /\ a \in Inv!Assets /\ asset[a] \in Inv!AssetRow
    BY DeviceHasAsset DEF Inv!heartbeat, Inv!Existing
<1>2. /\ device' = [device EXCEPT ![d].beat = "fresh"]
      /\ \/ asset' = asset
         \/ /\ asset[a].agent_status # "revoked"
            /\ asset' = [asset EXCEPT ![a].agent_status = "healthy", ![a].recent = TRUE]
      /\ UNCHANGED <<identity, pin, worker, enroller, lock, strays, corrections, silences, revocations>>
    BY DEF Inv!heartbeat, Inv!enrolling, Inv!counts
<1> HIDE DEF a
<1>3. device' \in [Devices -> Inv!DeviceRow \cup {None}]
    BY <1>1, <1>2 DEF InventoryInv, Typed, Inv!DeviceRow
<1>4. DevicesKept
    BY <1>1, <1>2 DEF InventoryInv, Typed, Inv!DeviceRow, DevicesKept, Inv!ConstantsAssumption
<1> DEFINE beaten == [asset[a] EXCEPT !.agent_status = "healthy", !.recent = TRUE]
<1>5. /\ beaten \in Inv!AssetRow /\ beaten.state = asset[a].state /\ beaten.created_via = asset[a].created_via
      /\ beaten.recent
    BY <1>1 DEF Inv!AssetRow, Inv!AgentStatus
<1>6. \/ asset' = asset
      \/ /\ asset[a].agent_status # "revoked" /\ asset' = [b \in Inv!Assets |-> asset'[b]]
         /\ asset'[a] = beaten /\ \A b \in Inv!Assets \ {a} : asset'[b] = asset[b]
    <2>1. DOMAIN asset = Inv!Assets
        BY DEF InventoryInv, Typed
    <2>2. ASSUME asset' = [asset EXCEPT ![a].agent_status = "healthy", ![a].recent = TRUE]
          PROVE  /\ asset' = [b \in Inv!Assets |-> asset'[b]]
                 /\ asset'[a] = beaten /\ \A b \in Inv!Assets \ {a} : asset'[b] = asset[b]
        BY <1>1, <2>1, <2>2 DEF beaten
    <2> QED BY <1>2, <2>2
<1> HIDE DEF beaten
<1>7. asset' \in [Inv!Assets -> Inv!AssetRow \cup {None}]
    BY <1>5, <1>6 DEF InventoryInv, Typed
<1>8. \A b \in Inv!Assets : asset'[b] = None <=> asset[b] = None
    BY <1>1, <1>5, <1>6 DEF InventoryInv, Typed, Inv!ConstantsAssumption
<1>9. AssetsKept
    BY <1>1, <1>5, <1>6, <1>8 DEF InventoryInv, Typed, Inv!Existing, AssetsKept
<1>10. Typed' /\ RestKept
    BY <1>2, <1>3, <1>7 DEF InventoryInv, Typed, RestKept
<1> QED BY <1>4, <1>9, <1>10, RowsOnly

LEMMA Step_MissHeartbeats ==
    ASSUME Inv!ConstantsAssumption,
           InventoryInv, NEW d \in Devices, Inv!MissHeartbeats(d)
    PROVE  InventoryInv'
<1>1. /\ device[d] # None /\ device' = [device EXCEPT ![d].beat = "late"] /\ silences' = silences + 1
      /\ UNCHANGED <<asset, identity, pin, worker, enroller, lock, strays, corrections, revocations>>
    BY DEF Inv!MissHeartbeats, Inv!enrolling
<1>2. device[d] \in Inv!DeviceRow
    BY <1>1, DeviceHasAsset
<1>3. device' \in [Devices -> Inv!DeviceRow \cup {None}]
    BY <1>1, <1>2 DEF InventoryInv, Typed, Inv!DeviceRow
<1>4. DevicesKept
    BY <1>1, <1>2 DEF InventoryInv, Typed, Inv!DeviceRow, DevicesKept, Inv!ConstantsAssumption
<1>5. Typed' /\ RestKept /\ AssetsKept
    BY <1>1, <1>3 DEF InventoryInv, Typed, RestKept, AssetsKept
<1> QED BY <1>4, <1>5, RowsOnly

LEMMA Step_revoke_device ==
    ASSUME Inv!ConstantsAssumption,
           InventoryInv, NEW d \in Devices, Inv!revoke_device(d)
    PROVE  InventoryInv'
<1> DEFINE a == device[d].asset
           off == [asset[a] EXCEPT !.agent_status = "revoked", !.billable = FALSE]
<1>1. /\ device[d] # None /\ device' = [device EXCEPT ![d].status = "revoked"]
      /\ asset' = [asset EXCEPT ![a].agent_status = "revoked", ![a].billable = FALSE]
      /\ revocations' = revocations + 1
      /\ UNCHANGED <<identity, pin, worker, enroller, lock, strays, corrections, silences>>
    BY DEF Inv!revoke_device, Inv!enrolling
<1>2. device[d] \in Inv!DeviceRow /\ a \in Inv!Assets /\ asset[a] \in Inv!AssetRow
    BY <1>1, DeviceHasAsset DEF Inv!Existing
<1> HIDE DEF a
<1>3. device' \in [Devices -> Inv!DeviceRow \cup {None}]
    BY <1>1, <1>2 DEF InventoryInv, Typed, Inv!DeviceRow
<1>4. DevicesKept
    BY <1>1, <1>2 DEF InventoryInv, Typed, Inv!DeviceRow, DevicesKept, Inv!ConstantsAssumption
<1>5. /\ off \in Inv!AssetRow /\ off.state = asset[a].state /\ off.created_via = asset[a].created_via
      /\ off.recent = asset[a].recent /\ off.agent_status = "revoked"
    BY <1>2 DEF Inv!AssetRow, Inv!AgentStatus
<1>6. /\ asset' = [b \in Inv!Assets |-> asset'[b]]
      /\ asset'[a] = off /\ \A b \in Inv!Assets \ {a} : asset'[b] = asset[b]
    BY <1>1, <1>2, ZenonT(60) DEF InventoryInv, Typed
<1> HIDE DEF off
<1>7. asset' \in [Inv!Assets -> Inv!AssetRow \cup {None}]
    BY <1>5, <1>6 DEF InventoryInv, Typed
<1>8. \A b \in Inv!Assets : asset'[b] = None <=> asset[b] = None
    BY <1>2, <1>5, <1>6 DEF Inv!ConstantsAssumption
<1>9. AssetsKept
    BY <1>2, <1>5, <1>6, <1>8 DEF Inv!Existing, AssetsKept
<1>10. Typed' /\ RestKept
    BY <1>1, <1>3, <1>7 DEF InventoryInv, Typed, RestKept
<1> QED BY <1>4, <1>9, <1>10, RowsOnly

\* The two jobs and a silence change one field of some assets.
LEMMA Step_rows ==
    ASSUME Inv!ConstantsAssumption,
           InventoryInv, Inv!job_agent_offline \/ Inv!job_billable_window \/ \E a \in Inv!Existing : Inv!Lapse(a)
    PROVE  InventoryInv'
<1>1. \A a \in Inv!Existing : asset[a] \in Inv!AssetRow
    BY DEF InventoryInv, Typed, Inv!Existing
<1>2. \/ silences' = silences
      \/ silences' = silences + 1
    BY DEF Inv!job_agent_offline, Inv!job_billable_window, Inv!Lapse, Inv!counts
<1>3. UNCHANGED <<identity, pin, device, worker, enroller, lock, strays, corrections, revocations>>
    BY DEF Inv!job_agent_offline, Inv!job_billable_window, Inv!Lapse, Inv!counts, Inv!enrolling
<1>4. /\ asset' = [a \in Inv!Assets |-> asset'[a]]
      /\ \A a \in Inv!Assets :
           \/ asset'[a] = asset[a]
           \/ /\ a \in Inv!Existing
              /\ \/ asset[a].agent_status # "revoked" /\ asset'[a] = [asset[a] EXCEPT !.agent_status = "offline"]
                 \/ asset'[a] = [asset[a] EXCEPT !.billable = FALSE]
                 \/ silences' = silences + 1 /\ asset'[a] = [asset[a] EXCEPT !.recent = FALSE]
    <2>1. CASE Inv!job_agent_offline
        BY <2>1 DEF Inv!job_agent_offline
    <2>2. CASE Inv!job_billable_window
        BY <2>2 DEF Inv!job_billable_window
    <2>3. CASE \E a \in Inv!Existing : Inv!Lapse(a)
        <3>1. PICK a \in Inv!Existing : Inv!Lapse(a)
            BY <2>3
        <3>2. DOMAIN asset = Inv!Assets /\ a \in Inv!Assets
            BY DEF InventoryInv, Typed, Inv!Existing
        <3>3. asset' = [asset EXCEPT ![a].recent = FALSE] /\ silences' = silences + 1
            BY <3>1 DEF Inv!Lapse
        <3>4. /\ asset' = [b \in Inv!Assets |-> asset'[b]]
              /\ asset'[a] = [asset[a] EXCEPT !.recent = FALSE]
              /\ \A b \in Inv!Assets \ {a} : asset'[b] = asset[b]
            BY <3>2, <3>3
        <3> QED BY <3>3, <3>4
    <2> QED BY <2>1, <2>2, <2>3
<1>5. ASSUME NEW a \in Inv!Existing
      PROVE  /\ asset'[a] \in Inv!AssetRow
             /\ asset'[a].state = asset[a].state /\ asset'[a].created_via = asset[a].created_via
             /\ asset[a].agent_status = "revoked" => asset'[a].agent_status = "revoked"
             /\ silences' = 0 /\ asset[a].recent => asset'[a].recent
    <2>0. a \in Inv!Assets /\ asset[a] \in Inv!AssetRow
        BY <1>1 DEF Inv!Existing
    <2>1. CASE asset'[a] = asset[a]
        BY <2>0, <2>1
    <2>2. CASE asset[a].agent_status # "revoked" /\ asset'[a] = [asset[a] EXCEPT !.agent_status = "offline"]
        BY <2>0, <2>2 DEF Inv!AssetRow, Inv!AgentStatus
    <2>3. CASE asset'[a] = [asset[a] EXCEPT !.billable = FALSE]
        <3>1. asset'[a] \in Inv!AssetRow
            <4>1. \A r \in Inv!AssetRow : [r EXCEPT !.billable = FALSE] \in Inv!AssetRow
                BY Zenon DEF Inv!AssetRow
            <4> QED BY <2>0, <2>3, <4>1
        <3>2. /\ asset'[a].state = asset[a].state /\ asset'[a].recent = asset[a].recent
              /\ asset'[a].created_via = asset[a].created_via
              /\ asset'[a].agent_status = asset[a].agent_status
            BY <2>0, <2>3 DEF Inv!AssetRow
        <3> QED BY <3>1, <3>2
    <2>4. CASE silences' = silences + 1 /\ asset'[a] = [asset[a] EXCEPT !.recent = FALSE]
        <3>1. silences' # 0
            BY <2>4 DEF InventoryInv, Typed
        <3> QED BY <2>0, <2>4, <3>1 DEF Inv!AssetRow
    <2> QED BY <1>4, <2>0, <2>1, <2>2, <2>3, <2>4
<1>6. asset' \in [Inv!Assets -> Inv!AssetRow \cup {None}] /\ \A a \in Inv!Assets : asset'[a] = None <=> asset[a] = None
    BY <1>1, <1>4, <1>5 DEF Inv!Existing, Inv!ConstantsAssumption
<1>7. Typed' /\ RestKept /\ DevicesKept
    BY <1>2, <1>3, <1>6 DEF InventoryInv, Typed, RestKept, DevicesKept
<1>8. AssetsKept
    BY <1>5, <1>6 DEF AssetsKept
<1> QED BY <1>7, <1>8, RowsOnly

-----------------------------------------------------------------------------
(* The dedup handler *)

\* A pinned identifier is bound to the asset of its pin: the matcher's candidate is the binding.
LEMMA CandidateIsBinding ==
    ASSUME InventoryInv, NEW i \in Inv!Identifiers
    PROVE  Inv!candidate_of(i) = identity[i] /\ (identity[i] = None => pin[i] = None)
BY DEF InventoryInv, Inv!PinsWin, Inv!candidate_of

LEMMA PublishedTyped ==
    ASSUME Inv!ConstantsAssumption,
           InventoryInv, NEW o \in Inv!Published
    PROVE  o \in Observation /\ (o.device # None => device[o.device] # None)
<1>1. CASE o \in [device : {None}, machine : Machines, view : LogViews]
    BY <1>1 DEF Observation, Inv!ConstantsAssumption
<1>2. CASE o \in {[device |-> d, machine |-> device[d].machine, view |-> {"host", "mac"}] :
                     d \in {f \in Devices : device[f] # None}}
    <2>1. PICK d \in Devices : /\ device[d] # None
                               /\ o = [device |-> d, machine |-> device[d].machine, view |-> {"host", "mac"}]
        BY <1>2
    <2>2. device[d].machine \in Machines
        BY <2>1, DeviceHasAsset DEF Inv!DeviceRow
    <2> QED BY <2>1, <2>2 DEF Observation
<1> QED BY <1>1, <1>2 DEF Inv!Published

\* An enrolled device is bound.
LEMMA EnrolledIsBound ==
    ASSUME Inv!ConstantsAssumption,
           InventoryInv, NEW d \in Devices, device[d] # None
    PROVE  d \in Inv!Identifiers /\ identity[d] # None
BY DeviceHasAsset DEF InventoryInv, Inv!DeviceRowAgrees, Inv!Existing, Inv!Identifiers,
   Inv!ConstantsAssumption

LEMMA Step_handle_resolve ==
    ASSUME Inv!ConstantsAssumption,
           InventoryInv, NEW w \in Workers, NEW o \in Inv!Published, Inv!handle_resolve(w, o)
    PROVE  InventoryInv'
<1> DEFINE new == [pc |-> "resolved", obs |-> o, found |-> Inv!_resolve(o), stale |-> FALSE]
<1>1. /\ worker' = [worker EXCEPT ![w] = new] /\ Inv!identifiers(o) # <<>>
      /\ UNCHANGED <<asset, identity, pin, device, enroller, lock, strays, corrections, silences, revocations>>
    BY DEF Inv!handle_resolve, Inv!tables, Inv!enrolling, Inv!counts
<1>2. o \in Observation /\ (o.device # None => device[o.device] # None)
    BY PublishedTyped
<1>3. Ids(o) # {} /\ Ids(o) \subseteq Inv!Identifiers
    BY <1>1, <1>2, IdsOfSequence, IdsTyped
<1>4. Inv!_resolve(o) # None => \E i \in Ids(o) : Inv!_resolve(o) = identity[i]
    BY <1>2, <1>3, ResolveAnswers, CandidateIsBinding
<1>5. Inv!_resolve(o) = None => o.device = None /\ \A i \in Ids(o) : identity[i] = None
    <2>1. ASSUME Inv!_resolve(o) = None, o.device # None PROVE FALSE
        <3>1. o.device \in Devices
            BY <1>2, <2>1 DEF Observation
        <3> QED BY <1>2, <2>1, <3>1, ResolveAnswers, CandidateIsBinding, EnrolledIsBound
    <2>2. ASSUME Inv!_resolve(o) = None, o.device = None, NEW i \in Ids(o) PROVE identity[i] = None
        BY <1>2, <1>3, <2>2, ResolveAnswers, CandidateIsBinding
    <2> QED BY <2>1, <2>2
<1>6. Inv!_resolve(o) # None => Inv!_resolve(o) \in Inv!Existing /\ Inv!_resolve(o) \in Inv!Active \cup strays
    BY <1>3, <1>4 DEF InventoryInv, RowsExist, Inv!OverlapConfined
<1>7. /\ new \in [pc : {"idle", "resolved"}, obs : Observation \cup {None},
                  found : Inv!Assets \cup {None}, stale : BOOLEAN]
      /\ new.pc = "resolved" /\ new.obs = o /\ new.found = Inv!_resolve(o)
    BY <1>2, <1>6 DEF Inv!Existing
<1> HIDE DEF new
<1>8. worker'[w] = new /\ \A v \in Workers \ {w} : worker'[v] = worker[v]
    BY <1>1 DEF InventoryInv, Typed
<1>9. Typed'
    BY <1>1, <1>7 DEF InventoryInv, Typed
<1>10. Inv!Existing' = Inv!Existing /\ Inv!Active' = Inv!Active /\ Billable' = Billable
    BY <1>1 DEF Inv!Existing, Inv!Active, Billable
<1>11. WorkersHold'
    BY <1>1, <1>2, <1>3, <1>5, <1>6, <1>7, <1>8, <1>10 DEF InventoryInv, WorkersHold, Resolved
<1>12. FreshInv'
    BY <1>1, <1>5, <1>6, <1>7, <1>8, <1>10 DEF InventoryInv, FreshInv, Resolved
<1>13. RowsExist' /\ Inv!PinsWin' /\ Inv!DeviceRowAgrees' /\ Inv!OverlapConfined'
    BY <1>1, <1>10 DEF InventoryInv, RowsExist, Inv!PinsWin, Inv!DeviceRowAgrees,
       Inv!OverlapConfined
<1>14. CapInv'
    BY <1>1, <1>10 DEF InventoryInv, CapInv, OnlyEnrolled
<1> QED BY <1>9, <1>11, <1>12, <1>13, <1>14 DEF InventoryInv

LEMMA Step_handle_abort ==
    ASSUME InventoryInv, NEW w \in Workers, Inv!handle_abort(w)
    PROVE  InventoryInv'
<1>1. /\ worker' = [worker EXCEPT ![w] = Inv!Idle]
      /\ UNCHANGED <<asset, identity, pin, device, enroller, lock, strays, corrections, silences, revocations>>
    BY DEF Inv!handle_abort, Inv!tables, Inv!enrolling, Inv!counts
<1>2. worker'[w].pc = "idle" /\ \A v \in Workers \ {w} : worker'[v] = worker[v]
    BY <1>1 DEF InventoryInv, Typed, Inv!Idle
<1>3. Typed'
    BY <1>1 DEF InventoryInv, Typed, Inv!Idle
<1>4. Inv!Existing' = Inv!Existing /\ Inv!Active' = Inv!Active /\ Billable' = Billable
    BY <1>1 DEF Inv!Existing, Inv!Active, Billable
<1>5. WorkersHold' /\ FreshInv'
    BY <1>1, <1>2, <1>4 DEF InventoryInv, WorkersHold, FreshInv, Resolved
<1>6. RowsExist' /\ Inv!PinsWin' /\ Inv!DeviceRowAgrees' /\ Inv!OverlapConfined'
    BY <1>1, <1>4 DEF InventoryInv, RowsExist, Inv!PinsWin, Inv!DeviceRowAgrees,
       Inv!OverlapConfined
<1>7. CapInv'
    BY <1>1, <1>4 DEF InventoryInv, CapInv, OnlyEnrolled
<1> QED BY <1>3, <1>5, <1>6, <1>7 DEF InventoryInv

\* A commit leaves the workers between their halves with what they read, marked as outdated.
LEMMA OutdatedWorkers ==
    ASSUME InventoryInv, NEW w, worker' = Inv!Outdate(w),
           Inv!Existing \subseteq Inv!Existing', \A d \in Devices : device[d] # None => device'[d] # None
    PROVE  /\ worker' \in [Workers -> [pc : {"idle", "resolved"}, obs : Observation \cup {None},
                                        found : Inv!Assets \cup {None}, stale : BOOLEAN]]
           /\ WorkersHold' /\ FreshInv'
<1>1. ASSUME NEW v \in Workers
      PROVE  /\ worker'[v] \in [pc : {"idle", "resolved"}, obs : Observation \cup {None},
                                 found : Inv!Assets \cup {None}, stale : BOOLEAN]
             /\ worker'[v].pc = "resolved" => /\ Resolved(v) /\ worker'[v].stale
                                              /\ worker'[v].obs = worker[v].obs
                                              /\ worker'[v].found = worker[v].found
    <2>1. worker[v] \in [pc : {"idle", "resolved"}, obs : Observation \cup {None},
                         found : Inv!Assets \cup {None}, stale : BOOLEAN]
        BY DEF InventoryInv, Typed
    <2>2. CASE v = w
        BY <2>2 DEF Inv!Outdate, Inv!Idle
    <2>3. CASE v # w /\ worker[v].pc = "resolved"
        <3>1. worker'[v] = [worker[v] EXCEPT !.stale = TRUE]
            BY <2>3 DEF Inv!Outdate
        <3> QED BY <2>1, <2>3, <3>1 DEF Resolved
    <2>4. CASE v # w /\ worker[v].pc # "resolved"
        BY <2>1, <2>4 DEF Inv!Outdate
    <2> QED BY <2>2, <2>3, <2>4
<1>2. WorkersHold'
    BY <1>1 DEF InventoryInv, WorkersHold, Resolved, Observation
<1>3. FreshInv'
    BY <1>1 DEF FreshInv, Resolved
<1>4. worker' = [v \in Workers |-> worker'[v]]
    BY DEF Inv!Outdate
<1> QED BY <1>1, <1>2, <1>3, <1>4

\* What the handler binds was unbound, is no device, and is among its identifiers.
LEMMA BindsOnlyNames ==
    ASSUME Inv!ConstantsAssumption,
           InventoryInv, NEW w \in Workers, Resolved(w), NEW a \in Inv!Assets
    PROVE  /\ Inv!bindable(worker[w].obs, a) \subseteq Inv!Identifiers \ Devices
           /\ \A i \in Inv!bindable(worker[w].obs, a) : identity[i] = None /\ pin[i] = None
           /\ \A i \in Ids(worker[w].obs) : identity[i] = None => i \in Inv!bindable(worker[w].obs, a)
<1> DEFINE o == worker[w].obs
<1>1. /\ o \in Observation /\ (o.device # None => device[o.device] # None)
    BY DEF InventoryInv, WorkersHold
<1> HIDE DEF o
<1>2. Inv!bindable(o, a) = {i \in Ids(o) : pin[i] \in {None, a} /\ identity[i] = None}
    BY <1>1, IdsOfSequence DEF Inv!bindable, Elements
<1>3. Ids(o) \subseteq Inv!Identifiers /\ Ids(o) \cap Devices = {o.device} \ {None}
    BY <1>1, IdsTyped
<1>4. \A i \in Ids(o) : identity[i] = None => pin[i] = None
    BY <1>3, CandidateIsBinding
<1>5. ASSUME NEW i \in Ids(o), identity[i] = None PROVE i \notin Devices
    <2>1. SUFFICES ASSUME i \in Devices PROVE FALSE
        OBVIOUS
    <2>2. i = o.device /\ device[i] # None
        BY <1>1, <1>3, <2>1
    <2> QED BY <1>5, <2>1, <2>2, EnrolledIsBound
<1>6. Inv!bindable(o, a) \subseteq Inv!Identifiers \ Devices
    BY <1>2, <1>3, <1>5
<1>7. \A i \in Inv!bindable(o, a) : identity[i] = None /\ pin[i] = None
    BY <1>2, <1>4
<1>8. \A i \in Ids(o) : identity[i] = None => i \in Inv!bindable(o, a)
    BY <1>2, <1>4
<1> QED BY <1>6, <1>7, <1>8 DEF o

LEMMA Step_handle_write ==
    ASSUME Inv!ConstantsAssumption,
           InventoryInv, NEW w \in Workers, Inv!handle_write(w)
    PROVE  InventoryInv'
<1> DEFINE o == worker[w].obs
           found == worker[w].found
           S == IF found = None THEN Inv!Unused ELSE {found}
<1>1. PICK a \in S :
         /\ asset' = IF found = None THEN Inv!create_asset(a, o) ELSE Inv!update_asset(a)
         /\ identity' = [i \in Inv!Identifiers |-> IF i \in Inv!bindable(o, a) THEN a ELSE identity[i]]
         /\ strays' = IF worker[w].stale THEN strays \cup ({a} \ Inv!Active) ELSE strays
    BY DEF Inv!handle_write
<1>2. /\ Resolved(w) /\ worker' = Inv!Outdate(w)
      /\ UNCHANGED <<pin, device, enroller, lock, corrections, silences, revocations>>
    BY DEF Inv!handle_write, Resolved, Inv!enrolling, Inv!counts
<1>3. /\ found # None => found \in Inv!Existing
      /\ found = None => o.device = None
      /\ Ids(o) # {} /\ worker[w].stale \in BOOLEAN /\ found \in Inv!Assets \cup {None}
    BY <1>2 DEF InventoryInv, WorkersHold, Typed
<1>4. a \in Inv!Assets /\ (found = None => asset[a] = None) /\ (found # None => a = found)
    BY <1>1, <1>3 DEF Inv!Unused, Inv!Existing
<1>5. /\ Inv!bindable(o, a) \subseteq Inv!Identifiers \ Devices
      /\ \A i \in Inv!bindable(o, a) : identity[i] = None /\ pin[i] = None
      /\ \A i \in Ids(o) : identity[i] = None => i \in Inv!bindable(o, a)
    BY <1>2, <1>4, BindsOnlyNames
<1>6. /\ identity' \in [Inv!Identifiers -> Inv!Assets \cup {None}]
      /\ \A i \in Inv!Identifiers : identity[i] # None => identity'[i] = identity[i]
      /\ \A i \in Inv!Identifiers : identity'[i] \in {identity[i], a}
      /\ \A i \in Inv!bindable(o, a) : identity'[i] = a
      /\ \A d \in Devices : identity'[d] = identity[d]
    BY <1>1, <1>4, <1>5 DEF InventoryInv, Typed, Inv!Identifiers
<1> HIDE DEF o, S
<1>7. /\ asset' \in [Inv!Assets -> Inv!AssetRow \cup {None}] /\ asset'[a] # None
      /\ \A b \in Inv!Assets \ {a} : asset'[b] = asset[b]
      /\ asset'[a].recent
      /\ found = None => asset'[a].state = "active" /\ asset'[a].created_via = "log_ingest"
      /\ found # None => /\ asset'[a].state = asset[a].state
                         /\ asset'[a].created_via = asset[a].created_via
                         /\ asset'[a].agent_status = asset[a].agent_status
    <2>1. CASE found = None
        <3> DEFINE n == Inv!NewAsset("none", TRUE, TRUE, "log_ingest")
        <3>1. asset' = [asset EXCEPT ![a] = n]
            BY <1>1, <1>3, <2>1 DEF Inv!create_asset
        <3>2. n \in Inv!AssetRow /\ n.state = "active" /\ n.created_via = "log_ingest" /\ n.recent
            BY DEF Inv!NewAsset, Inv!AssetRow, Inv!AgentStatus
        <3> HIDE DEF n
        <3>3. n # None
            BY <3>2 DEF Inv!ConstantsAssumption
        <3> QED BY <1>4, <2>1, <3>1, <3>2, <3>3 DEF InventoryInv, Typed
    <2>2. CASE found # None
        <3> DEFINE old == asset[a]
                   n == [old EXCEPT !.recent = TRUE,
                                    !.billable = IF old.agent_status = "revoked" THEN @ ELSE TRUE]
        <3>0. old \in Inv!AssetRow
            BY <1>3, <1>4, <2>2 DEF InventoryInv, Typed, Inv!Existing
        <3>1. /\ asset' = [b \in Inv!Assets |-> asset'[b]]
              /\ asset'[a] = n /\ \A b \in Inv!Assets \ {a} : asset'[b] = asset[b]
            <4>1. DOMAIN asset = Inv!Assets
                BY DEF InventoryInv, Typed
            <4> QED BY <1>1, <1>4, <2>2, <4>1 DEF Inv!update_asset
        <3> HIDE DEF old
        <3>2. /\ n \in Inv!AssetRow /\ n.state = old.state /\ n.created_via = old.created_via /\ n.recent
              /\ n.agent_status = old.agent_status
            BY <3>0 DEF Inv!AssetRow
        <3> HIDE DEF n
        <3>3. n # None
            BY <3>2 DEF Inv!ConstantsAssumption
        <3>4. asset' \in [Inv!Assets -> Inv!AssetRow \cup {None}]
            BY <3>1, <3>2 DEF InventoryInv, Typed
        <3> QED BY <1>4, <2>2, <3>1, <3>2, <3>3, <3>4 DEF old
    <2> QED BY <2>1, <2>2
<1>8. Inv!Existing' = Inv!Existing \cup {a}
    BY <1>4, <1>7 DEF Inv!Existing
<1>9. /\ found = None => Inv!Active' = Inv!Active \cup {a} /\ a \notin Inv!Active
      /\ found # None => Inv!Active' = Inv!Active
    <2>1. found # None => a \in Inv!Existing
        BY <1>3, <1>4
    <2> QED BY <1>4, <1>7, <1>8, <2>1 DEF Inv!Active, Inv!Existing
<1>10. Typed' /\ WorkersHold' /\ FreshInv'
    <2>1. /\ worker' \in [Workers -> [pc : {"idle", "resolved"}, obs : Observation \cup {None},
                                        found : Inv!Assets \cup {None}, stale : BOOLEAN]]
          /\ WorkersHold' /\ FreshInv'
        BY <1>2, <1>8, OutdatedWorkers
    <2>2. strays' \subseteq Inv!Assets
        BY <1>1, <1>4 DEF InventoryInv, Typed
    <2> QED BY <1>2, <1>6, <1>7, <2>1, <2>2 DEF InventoryInv, Typed
<1>11. RowsExist'
    BY <1>2, <1>6, <1>8 DEF InventoryInv, RowsExist
<1>12. Inv!PinsWin'
    BY <1>2, <1>6 DEF InventoryInv, Inv!PinsWin, Typed, Inv!ConstantsAssumption
<1>13. Inv!DeviceRowAgrees'
    BY <1>2, <1>6 DEF InventoryInv, Inv!DeviceRowAgrees
<1>14. Inv!OverlapConfined'
    <2>1. ~worker[w].stale => /\ found # None => found \in Inv!Active \cup strays
                              /\ found = None => \A i \in Ids(o) : identity[i] = None
        BY <1>2 DEF InventoryInv, FreshInv, o
    <2>2. \A i \in Inv!Identifiers : identity[i] # None => identity[i] \in Inv!Active \cup strays
        BY DEF InventoryInv, Inv!OverlapConfined
    <2>3. /\ strays \subseteq strays'
          /\ worker[w].stale => a \in Inv!Active \cup strays'
          /\ Inv!Active \subseteq Inv!Active' /\ Inv!Active' \subseteq Inv!Active \cup {a}
        BY <1>1, <1>9
    <2>4. a \in Inv!Active' \cup strays'
        BY <1>4, <1>9, <2>1, <2>3
    <2>5. \A i \in Inv!Identifiers : identity'[i] # None => identity'[i] \in Inv!Active' \cup strays'
        BY <1>6, <2>2, <2>3, <2>4
    <2>6. ASSUME corrections' = 0, NEW b \in Inv!Active' \ strays'
          PROVE  \E i \in Inv!Identifiers : identity'[i] = b
        <3>1. CASE b \in Inv!Active
            <4>1. PICK i \in Inv!Identifiers : identity[i] = b
                BY <1>2, <2>3, <2>6, <3>1 DEF InventoryInv, Inv!OverlapConfined
            <4>2. b # None
                BY <3>1 DEF Inv!Active, Inv!Existing, Inv!ConstantsAssumption
            <4> QED BY <1>6, <4>1, <4>2
        <3>2. CASE b \notin Inv!Active
            <4>1. b = a /\ found = None /\ ~worker[w].stale
                BY <1>9, <2>3, <2>6, <3>2
            <4>2. PICK i \in Ids(o) : identity[i] = None
                BY <1>3, <2>1, <4>1
            <4> QED BY <1>5, <1>6, <4>1, <4>2
        <3> QED BY <3>1, <3>2
    <2> QED BY <2>5, <2>6 DEF Inv!OverlapConfined
<1>15. CapInv'
    <2>1. silences' = 0 /\ corrections' = 0 => \A b \in Inv!Existing' : asset'[b].recent
        BY <1>2, <1>7, <1>8 DEF InventoryInv, CapInv, Inv!Existing
    <2>2. OnlyEnrolled' => found # None
        BY <1>7, <1>8 DEF OnlyEnrolled
    <2>3. ASSUME OnlyEnrolled' PROVE OnlyEnrolled /\ Billable' \subseteq Billable
        <3>1. found # None /\ a \in Inv!Existing /\ Inv!Active' = Inv!Active /\ Inv!Existing' = Inv!Existing
            BY <1>3, <1>4, <1>8, <1>9, <2>2, <2>3
        <3>2. \A b \in Inv!Existing : asset'[b].created_via = asset[b].created_via
                                  /\ asset'[b].agent_status = asset[b].agent_status
            BY <1>7, <3>1 DEF Inv!Existing
        <3>3. OnlyEnrolled
            BY <1>2, <2>3, <3>1, <3>2 DEF OnlyEnrolled
        <3>4. \A b \in Inv!Existing : asset[b].recent
            BY <3>3 DEF InventoryInv, CapInv, OnlyEnrolled
        <3> QED BY <3>1, <3>2, <3>3, <3>4 DEF Billable, Inv!Active
    <2>4. OnlyEnrolled' => Cardinality(Billable') <= Cardinality(Billable)
        BY <2>3, BillableFinite, FS_Subset
    <2> QED BY <1>2, <2>1, <2>3, <2>4, BillableFinite DEF InventoryInv, CapInv,
               Inv!ConstantsAssumption
<1> QED BY <1>10, <1>11, <1>12, <1>13, <1>14, <1>15 DEF InventoryInv

-----------------------------------------------------------------------------
(* Enrollment *)

LEMMA Step_enroll_count ==
    ASSUME Inv!ConstantsAssumption,
           InventoryInv, NEW e \in Enrollers, NEW m \in Machines, Inv!enroll_count(e, m)
    PROVE  InventoryInv'
<1>1. /\ enroller' = [enroller EXCEPT ![e] = m] /\ lock = None /\ lock' = e
      /\ UNCHANGED <<asset, identity, pin, device, worker, strays, corrections, silences, revocations>>
    BY DEF Inv!enroll_count, Inv!tables, Inv!counts
<1>2. Cardinality(Billable) < EndpointCap
    BY SameCardinality DEF Inv!enroll_count, Inv!billable_count, Billable
<1>3. Typed'
    BY <1>1 DEF InventoryInv, Typed
<1>4. Inv!Existing' = Inv!Existing /\ Inv!Active' = Inv!Active /\ Billable' = Billable
    BY <1>1 DEF Inv!Existing, Inv!Active, Billable
<1>5. WorkersHold' /\ FreshInv'
    BY <1>1, <1>4 DEF InventoryInv, WorkersHold, FreshInv, Resolved
<1>6. RowsExist' /\ Inv!PinsWin' /\ Inv!DeviceRowAgrees' /\ Inv!OverlapConfined'
    BY <1>1, <1>4 DEF InventoryInv, RowsExist, Inv!PinsWin, Inv!DeviceRowAgrees,
       Inv!OverlapConfined
<1>7. \A f \in Enrollers : enroller'[f] # None => lock' = f
    BY <1>1 DEF InventoryInv, CapInv, Typed, Inv!ConstantsAssumption
<1>8. Cardinality(Billable') + 1 <= EndpointCap
    BY <1>2, <1>4, BillableFinite DEF Inv!ConstantsAssumption
<1>9. CapInv'
    BY <1>1, <1>4, <1>7, <1>8, BillableFinite DEF InventoryInv, CapInv, Inv!ConstantsAssumption
<1> QED BY <1>3, <1>5, <1>6, <1>9 DEF InventoryInv

LEMMA Step_enroll_insert ==
    ASSUME Inv!ConstantsAssumption,
           InventoryInv, NEW e \in Enrollers, Inv!enroll_insert(e)
    PROVE  InventoryInv'
<1> DEFINE n == Inv!NewAsset("enrolled", FALSE, TRUE, "agent_enrollment")
<1>1. PICK a \in Inv!Unused, d \in Devices :
         /\ device[d] = None
         /\ asset' = [asset EXCEPT ![a] = n]
         /\ identity' = [identity EXCEPT ![d] = a]
         /\ device' = [device EXCEPT ![d] =
                [machine |-> enroller[e], asset |-> a, status |-> "active", beat |-> "none"]]
    BY DEF Inv!enroll_insert
<1>2. /\ enroller[e] # None /\ enroller' = [enroller EXCEPT ![e] = None] /\ lock' = None
      /\ worker' = Inv!Outdate(None)
      /\ UNCHANGED <<pin, strays, corrections, silences, revocations>>
    BY DEF Inv!enroll_insert, Inv!counts
<1> DEFINE row == [machine |-> enroller[e], asset |-> a, status |-> "active", beat |-> "none"]
<1>3. a \in Inv!Assets /\ asset[a] = None /\ a # None /\ d \in Inv!Identifiers
    BY DEF Inv!Unused, Inv!Existing, Inv!Identifiers, Inv!ConstantsAssumption
<1>4. n \in Inv!AssetRow /\ n.state = "active" /\ n.created_via = "agent_enrollment" /\ n.recent
    BY DEF Inv!NewAsset, Inv!AssetRow, Inv!AgentStatus
<1>5. row \in Inv!DeviceRow /\ row.asset = a
    BY <1>2, <1>3 DEF InventoryInv, Typed, Inv!DeviceRow
<1>6. n # None /\ row # None
    BY <1>4, <1>5 DEF Inv!ConstantsAssumption
<1> HIDE DEF n, row
<1>7. /\ asset' \in [Inv!Assets -> Inv!AssetRow \cup {None}] /\ asset'[a] = n
      /\ \A b \in Inv!Assets \ {a} : asset'[b] = asset[b]
    BY <1>1, <1>3, <1>4 DEF InventoryInv, Typed
<1>8. /\ device' \in [Devices -> Inv!DeviceRow \cup {None}] /\ device'[d] = row
      /\ \A f \in Devices \ {d} : device'[f] = device[f]
    BY <1>1, <1>5 DEF InventoryInv, Typed, row
<1>9. /\ identity' \in [Inv!Identifiers -> Inv!Assets \cup {None}] /\ identity'[d] = a /\ identity[d] = None
      /\ \A i \in Inv!Identifiers \ {d} : identity'[i] = identity[i]
    BY <1>1, <1>3 DEF InventoryInv, Typed, RowsExist
<1>10. Inv!Existing' = Inv!Existing \cup {a} /\ a \notin Inv!Existing
    BY <1>3, <1>6, <1>7 DEF Inv!Existing
<1>11. Inv!Active' = Inv!Active \cup {a}
    BY <1>4, <1>7, <1>10 DEF Inv!Active, Inv!Existing
<1>12. Typed' /\ WorkersHold' /\ FreshInv'
    <2>1. \A f \in Devices : device[f] # None => device'[f] # None
        BY <1>1, <1>8
    <2>2. /\ worker' \in [Workers -> [pc : {"idle", "resolved"}, obs : Observation \cup {None},
                                        found : Inv!Assets \cup {None}, stale : BOOLEAN]]
          /\ WorkersHold' /\ FreshInv'
        BY <1>2, <1>10, <2>1, OutdatedWorkers
    <2>3. enroller' \in [Enrollers -> Machines \cup {None}]
        BY <1>2 DEF InventoryInv, Typed
    <2> QED BY <1>2, <1>7, <1>8, <1>9, <2>2, <2>3 DEF InventoryInv, Typed
<1>13. \A i \in Inv!Identifiers : identity[i] # a
    BY <1>3, <1>10 DEF InventoryInv, RowsExist
<1>14. RowsExist'
    <2>1. \A i \in Inv!Identifiers : identity'[i] # None => identity'[i] \in Inv!Existing'
        BY <1>9, <1>10 DEF InventoryInv, RowsExist
    <2>2. \A f \in Devices : device'[f] = None => identity'[f] = None
        BY <1>6, <1>8, <1>9 DEF InventoryInv, RowsExist, Inv!Identifiers
    <2> QED BY <2>1, <2>2 DEF RowsExist
<1>15. Inv!PinsWin'
    <2>1. pin[d] = None
        BY <1>3, <1>9, CandidateIsBinding
    <2> QED BY <1>2, <1>9, <2>1 DEF InventoryInv, Inv!PinsWin
<1>16. Inv!DeviceRowAgrees'
    <2>1. \A f \in Devices : device'[f] # None => device'[f].asset = identity'[f]
        BY <1>5, <1>8, <1>9 DEF InventoryInv, Inv!DeviceRowAgrees, Inv!Identifiers
    <2>2. ASSUME corrections' = 0, NEW f \in Devices, NEW g \in Devices, identity'[f] = identity'[g]
          PROVE  f = g \/ identity'[f] = None
        <3>1. f \in Inv!Identifiers /\ g \in Inv!Identifiers
            BY DEF Inv!Identifiers
        <3>2. CASE f = d \/ g = d
            BY <1>9, <1>13, <2>2, <3>1, <3>2
        <3>3. CASE f # d /\ g # d
            BY <1>2, <1>9, <2>2, <3>1, <3>3 DEF InventoryInv, Inv!DeviceRowAgrees
        <3> QED BY <3>2, <3>3
    <2> QED BY <2>1, <2>2 DEF Inv!DeviceRowAgrees
<1>17. Inv!OverlapConfined'
    <2>1. \A i \in Inv!Identifiers : identity'[i] # None => identity'[i] \in Inv!Active' \cup strays'
        BY <1>2, <1>9, <1>11 DEF InventoryInv, Inv!OverlapConfined
    <2>2. ASSUME corrections' = 0, NEW b \in Inv!Active' \ strays'
          PROVE  \E i \in Inv!Identifiers : identity'[i] = b
        <3>1. CASE b \in Inv!Active
            <4>1. PICK i \in Inv!Identifiers : identity[i] = b
                BY <1>2, <2>2, <3>1 DEF InventoryInv, Inv!OverlapConfined
            <4>2. b # None
                BY <3>1 DEF Inv!Active, Inv!Existing, Inv!ConstantsAssumption
            <4> QED BY <1>9, <4>1, <4>2
        <3>2. CASE b = a
            BY <1>3, <1>9, <3>2
        <3> QED BY <1>11, <3>1, <3>2
    <2> QED BY <2>1, <2>2 DEF Inv!OverlapConfined
<1>18. CapInv'
    <2>1. lock = e
        BY <1>2 DEF InventoryInv, CapInv
    <2>2. silences' = 0 /\ corrections' = 0 => \A b \in Inv!Existing' : asset'[b].recent
        BY <1>2, <1>4, <1>7, <1>10 DEF InventoryInv, CapInv, Inv!Existing
    <2>3. \A f \in Enrollers : enroller'[f] # None => lock' = f
        BY <1>2, <2>1 DEF InventoryInv, CapInv, Typed
    <2>4. ASSUME OnlyEnrolled' PROVE OnlyEnrolled /\ Billable' \subseteq Billable \cup {a}
        BY <1>2, <1>7, <1>10, <1>11, <2>4 DEF OnlyEnrolled, Billable, Inv!Existing, Inv!Active
    <2>5. Cardinality(Billable \cup {a}) <= Cardinality(Billable) + 1 /\ IsFiniteSet(Billable \cup {a})
          /\ Cardinality(Billable \cup {a}) \in Nat
        <3>1. IsFiniteSet(Billable) /\ Cardinality(Billable) \in Nat
            BY BillableFinite
        <3>2. /\ IsFiniteSet(Billable \cup {a})
              /\ Cardinality(Billable \cup {a}) \in {Cardinality(Billable), Cardinality(Billable) + 1}
            BY <3>1, FS_AddElement
        <3> QED BY <3>1, <3>2
    <2>6. OnlyEnrolled' => Cardinality(Billable') <= Cardinality(Billable \cup {a})
        BY <2>4, <2>5, FS_Subset
    <2>7. OnlyEnrolled' => Cardinality(Billable) + 1 <= EndpointCap
        BY <2>1, <2>4 DEF InventoryInv, CapInv, Inv!ConstantsAssumption
    <2>8. OnlyEnrolled' => Cardinality(Billable') + 0 <= EndpointCap
        BY <2>5, <2>6, <2>7, BillableFinite DEF Inv!ConstantsAssumption
    <2> QED BY <1>2, <2>2, <2>3, <2>8 DEF CapInv
<1> QED BY <1>12, <1>14, <1>15, <1>16, <1>17, <1>18 DEF InventoryInv

-----------------------------------------------------------------------------
(* Manual corrections *)

LEMMA Step_merge_assets ==
    ASSUME Inv!ConstantsAssumption,
           InventoryInv, NEW s \in Inv!Active, NEW O \in SUBSET (Inv!Active \ {s}), Inv!merge_assets(s, O)
    PROVE  InventoryInv'
<1> DEFINE moved == {i \in Inv!Identifiers : identity[i] \in O}
           D == {d \in Devices : device[d] # None /\ device[d].asset \in O}
<1>1. /\ identity' = [i \in Inv!Identifiers |-> IF i \in moved THEN s ELSE identity[i]]
      /\ pin' = [i \in Inv!Identifiers |-> IF i \in moved THEN s ELSE pin[i]]
      /\ device' = [d \in Devices |-> IF d \in D THEN [device[d] EXCEPT !.asset = s] ELSE device[d]]
      /\ corrections' = corrections + 1 /\ worker' = Inv!Outdate(None)
      /\ UNCHANGED <<enroller, lock, strays, silences, revocations>>
    BY DEF Inv!merge_assets, Inv!pinned, Inv!moved_devices, Inv!enrolling
<1>2. PICK status \in Inv!merged_status(s, O) :
         asset' = [a \in Inv!Assets |->
             IF a = s THEN [asset[s] EXCEPT !.agent_status = status,
                                            !.recent = \E b \in O \cup {s} : asset[b].recent]
             ELSE IF a \in O THEN [asset[a] EXCEPT !.state = "merged", !.billable = FALSE]
             ELSE asset[a]]
    BY DEF Inv!merge_assets
<1>3. /\ s \in Inv!Existing /\ O \subseteq Inv!Existing /\ \A a \in Inv!Existing : asset[a] \in Inv!AssetRow /\ a \in Inv!Assets
    BY DEF Inv!Active, Inv!Existing, InventoryInv, Typed
<1>4. status \in Inv!AgentStatus
    BY <1>3 DEF Inv!merged_status, Inv!AssetRow, Inv!AgentStatus
<1>5. s \in Inv!Assets /\ s # None /\ asset[s].state = "active" /\ None \notin O
    BY <1>3 DEF Inv!Active, Inv!ConstantsAssumption
<1>6. /\ \A a \in Inv!Assets : asset'[a] \in Inv!AssetRow \cup {None} /\ (asset'[a] = None <=> asset[a] = None)
      /\ \A a \in Inv!Existing \ O : asset'[a].state = asset[a].state
    <2>1. asset'[s] \in Inv!AssetRow /\ asset'[s].state = asset[s].state
        <3> DEFINE recent == \E b \in O \cup {s} : asset[b].recent
        <3>1. asset'[s] = [asset[s] EXCEPT !.agent_status = status, !.recent = recent]
            BY <1>2, <1>5
        <3>2. recent \in BOOLEAN
            OBVIOUS
        <3> HIDE DEF recent
        <3> QED BY <1>3, <1>4, <3>1, <3>2 DEF Inv!AssetRow
    <2>2. ASSUME NEW a \in O PROVE asset'[a] \in Inv!AssetRow
        <3>1. asset'[a] = [asset[a] EXCEPT !.state = "merged", !.billable = FALSE]
            BY <1>2, <1>3
        <3> QED BY <1>3, <3>1 DEF Inv!AssetRow
    <2>3. \A a \in Inv!Assets : a # s /\ a \notin O => asset'[a] = asset[a]
        BY <1>2
    <2> QED BY <1>3, <2>1, <2>2, <2>3 DEF InventoryInv, Typed, Inv!Existing, Inv!ConstantsAssumption
<1>7. Inv!Existing' = Inv!Existing /\ Inv!Active \ O \subseteq Inv!Active' /\ s \in Inv!Active'
    BY <1>3, <1>5, <1>6 DEF Inv!Existing, Inv!Active
<1>8. \A d \in D : device'[d] \in Inv!DeviceRow /\ device'[d] # None /\ device'[d].asset = s
    <2> SUFFICES ASSUME NEW d \in D PROVE device'[d] \in Inv!DeviceRow /\ device'[d].asset = s
        BY DEF Inv!ConstantsAssumption 
    <2>1. device[d] \in Inv!DeviceRow
        BY DeviceHasAsset
    <2>2. device'[d] = [device[d] EXCEPT !.asset = s]
        BY <1>1
    <2> QED BY <1>5, <2>1, <2>2 DEF Inv!DeviceRow
<1>17. \A d \in Devices \ D : device'[d] = device[d]
    BY <1>1
<1>18. \A d \in Devices : device'[d] = None <=> device[d] = None
    BY <1>8, <1>17
<1> HIDE DEF D
<1>9. Typed' /\ WorkersHold' /\ FreshInv'
    <2>1. /\ worker' \in [Workers -> [pc : {"idle", "resolved"}, obs : Observation \cup {None},
                                        found : Inv!Assets \cup {None}, stale : BOOLEAN]]
          /\ WorkersHold' /\ FreshInv'
        <3>1. \A d \in Devices : device[d] # None => device'[d] # None
            BY <1>18
        <3>2. Inv!Existing \subseteq Inv!Existing'
            BY <1>7
        <3> QED BY <1>1, <3>1, <3>2, OutdatedWorkers
    <2>2. asset' \in [Inv!Assets -> Inv!AssetRow \cup {None}]
        <3>1. asset' = [a \in Inv!Assets |-> asset'[a]]
            BY <1>2
        <3> QED BY <1>6, <3>1
    <2>4. device' \in [Devices -> Inv!DeviceRow \cup {None}]
        <3>1. device' = [d \in Devices |-> device'[d]]
            BY <1>1
        <3> QED BY <1>8, <1>17, <3>1 DEF D, InventoryInv, Typed
    <2>3. identity' \in [Inv!Identifiers -> Inv!Assets \cup {None}] /\ pin' \in [Inv!Identifiers -> Inv!Assets \cup {None}]
        BY <1>1, <1>5 DEF InventoryInv, Typed
    <2> QED BY <1>1, <2>1, <2>2, <2>3, <2>4 DEF InventoryInv, Typed
<1>10. \A d \in Devices : device[d] # None => (d \in D <=> d \in moved)
    BY DEF D, InventoryInv, Inv!DeviceRowAgrees, Inv!Identifiers
<1>11. RowsExist'
    <2>1. \A i \in Inv!Identifiers : identity'[i] # None => identity'[i] \in Inv!Existing'
        BY <1>1, <1>3, <1>7 DEF InventoryInv, RowsExist
    <2>2. \A d \in Devices : device'[d] = None => identity'[d] = None
        <3> SUFFICES ASSUME NEW d \in Devices, device'[d] = None PROVE identity'[d] = None
            OBVIOUS
        <3>1. d \in Inv!Identifiers /\ identity[d] = None
            BY <1>18 DEF InventoryInv, RowsExist, Inv!Identifiers
        <3> QED BY <1>1, <1>5, <3>1
    <2> QED BY <2>1, <2>2 DEF RowsExist
<1>12. Inv!PinsWin'
    BY <1>1 DEF InventoryInv, Inv!PinsWin
<1>13. corrections' # 0
    BY <1>1 DEF InventoryInv, Typed
<1>14. Inv!DeviceRowAgrees'
    BY <1>1, <1>8, <1>17, <1>18, <1>10, <1>13 DEF InventoryInv, Inv!DeviceRowAgrees, Inv!Identifiers
<1>15. Inv!OverlapConfined'
    BY <1>1, <1>7, <1>13 DEF InventoryInv, Inv!OverlapConfined
<1>16. CapInv'
    BY <1>1, <1>13 DEF InventoryInv, CapInv, OnlyEnrolled
<1> QED BY <1>9, <1>11, <1>12, <1>14, <1>15, <1>16 DEF InventoryInv

LEMMA Step_split_asset ==
    ASSUME Inv!ConstantsAssumption,
           InventoryInv, NEW a \in Inv!Active, NEW I \in SUBSET {i \in Inv!Identifiers : identity[i] = a}, Inv!split_asset(a, I)
    PROVE  InventoryInv'
<1> DEFINE N(recent) == Inv!NewAsset(IF I \cap Devices # {} THEN asset[a].agent_status ELSE "none",
                                 FALSE, recent, "manual_split")
<1>1. PICK n \in Inv!Unused, recent \in {FALSE, asset[a].recent} :
         /\ identity' = [i \in Inv!Identifiers |-> IF i \in I THEN n ELSE identity[i]]
         /\ pin' = [i \in Inv!Identifiers |-> IF i \in I THEN n ELSE pin[i]]
         /\ device' = [d \in Devices |-> IF d \in I \cap Devices THEN [device[d] EXCEPT !.asset = n] ELSE device[d]]
         /\ asset' = [asset EXCEPT ![n] = N(recent),
                                   ![a].agent_status = IF I \cap Devices # {} THEN "none" ELSE @]
    BY DEF Inv!split_asset, Inv!pinned, Inv!moved_devices
<1>2. /\ corrections' = corrections + 1 /\ worker' = Inv!Outdate(None)
      /\ UNCHANGED <<enroller, lock, strays, silences, revocations>>
    BY DEF Inv!split_asset, Inv!enrolling
<1>3. /\ a \in Inv!Existing /\ asset[a] \in Inv!AssetRow /\ a \in Inv!Assets /\ asset[a].state = "active"
      /\ n \in Inv!Assets /\ asset[n] = None /\ n # None /\ n # a
    BY DEF Inv!Active, Inv!Existing, Inv!Unused, InventoryInv, Typed, Inv!ConstantsAssumption
<1>4. N(recent) \in Inv!AssetRow /\ N(recent).state = "active"
    BY <1>3 DEF Inv!NewAsset, Inv!AssetRow, Inv!AgentStatus
<1> DEFINE new == N(recent)
           old == [asset[a] EXCEPT !.agent_status = IF I \cap Devices # {} THEN "none" ELSE @]
<1>5. old \in Inv!AssetRow /\ old.state = "active"
    BY <1>3 DEF Inv!AssetRow, Inv!AgentStatus
<1>6. /\ asset' = [b \in Inv!Assets |-> asset'[b]]
      /\ asset'[n] = new /\ asset'[a] = old /\ \A b \in Inv!Assets \ {a, n} : asset'[b] = asset[b]
    <2>1. DOMAIN asset = Inv!Assets
        BY DEF InventoryInv, Typed
    <2> QED BY <1>1, <1>3, <2>1
<1> HIDE DEF N, new, old
<1>7. new \in Inv!AssetRow /\ new.state = "active" /\ new # None /\ old # None
    BY <1>4, <1>5 DEF new, Inv!ConstantsAssumption
<1>8. asset' \in [Inv!Assets -> Inv!AssetRow \cup {None}]
    BY <1>5, <1>6, <1>7 DEF InventoryInv, Typed
<1>9. Inv!Existing' = Inv!Existing \cup {n}
    BY <1>3, <1>6, <1>7 DEF Inv!Existing
<1>10. Inv!Active' = Inv!Active \cup {n}
    BY <1>3, <1>5, <1>6, <1>7, <1>9 DEF Inv!Active, Inv!Existing
<1>11. \A d \in I \cap Devices : /\ device[d] # None /\ device'[d] # None
                                  /\ device'[d] \in Inv!DeviceRow /\ device'[d].asset = n
    <2> SUFFICES ASSUME NEW d \in I \cap Devices
                 PROVE  device[d] # None /\ device'[d] \in Inv!DeviceRow /\ device'[d].asset = n
        BY DEF Inv!ConstantsAssumption 
    <2>1. device[d] # None
        BY <1>3 DEF InventoryInv, RowsExist, Inv!ConstantsAssumption
    <2>2. device[d] \in Inv!DeviceRow
        BY <2>1, DeviceHasAsset
    <2>3. device'[d] = [device[d] EXCEPT !.asset = n]
        BY <1>1
    <2> QED BY <1>3, <2>1, <2>2, <2>3 DEF Inv!DeviceRow
<1>19. \A d \in Devices \ I : device'[d] = device[d]
    BY <1>1
<1>20. \A d \in Devices : device'[d] = None <=> device[d] = None
    BY <1>11, <1>19
<1>12. Typed' /\ WorkersHold' /\ FreshInv'
    <2>1. /\ worker' \in [Workers -> [pc : {"idle", "resolved"}, obs : Observation \cup {None},
                                        found : Inv!Assets \cup {None}, stale : BOOLEAN]]
          /\ WorkersHold' /\ FreshInv'
        <3>1. \A d \in Devices : device[d] # None => device'[d] # None
            BY <1>20
        <3> QED BY <1>2, <1>9, <3>1, OutdatedWorkers
    <2>2. device' \in [Devices -> Inv!DeviceRow \cup {None}]
        <3>1. device' = [d \in Devices |-> device'[d]]
            BY <1>1
        <3> QED BY <1>11, <1>19, <3>1 DEF InventoryInv, Typed
    <2>3. identity' \in [Inv!Identifiers -> Inv!Assets \cup {None}] /\ pin' \in [Inv!Identifiers -> Inv!Assets \cup {None}]
        BY <1>1, <1>3 DEF InventoryInv, Typed
    <2> QED BY <1>2, <1>8, <2>1, <2>2, <2>3 DEF InventoryInv, Typed
<1>13. RowsExist'
    <2>1. \A i \in Inv!Identifiers : identity'[i] # None => identity'[i] \in Inv!Existing'
        BY <1>1, <1>9 DEF InventoryInv, RowsExist
    <2>2. ASSUME NEW d \in Devices, device'[d] = None PROVE identity'[d] = None
        <3>1. d \in Inv!Identifiers /\ identity[d] = None
            BY <1>20, <2>2 DEF InventoryInv, RowsExist, Inv!Identifiers
        <3>2. d \notin I
            BY <1>3, <3>1 DEF Inv!ConstantsAssumption
        <3> QED BY <1>1, <3>1, <3>2
    <2> QED BY <2>1, <2>2 DEF RowsExist
<1>14. Inv!PinsWin'
    BY <1>1 DEF InventoryInv, Inv!PinsWin
<1>15. corrections' # 0
    BY <1>2 DEF InventoryInv, Typed
<1>16. Inv!DeviceRowAgrees'
    BY <1>1, <1>11, <1>19, <1>20, <1>15 DEF InventoryInv, Inv!DeviceRowAgrees, Inv!Identifiers
<1>17. Inv!OverlapConfined'
    BY <1>1, <1>2, <1>10, <1>15 DEF InventoryInv, Inv!OverlapConfined
<1>18. CapInv'
    BY <1>2, <1>15 DEF InventoryInv, CapInv, OnlyEnrolled
<1> QED BY <1>12, <1>13, <1>14, <1>16, <1>17, <1>18 DEF InventoryInv

-----------------------------------------------------------------------------
LEMMA StepHolds ==
    ASSUME Inv!ConstantsAssumption
    PROVE  InventoryInv /\ [Inv!Next]_(Inv!vars) => InventoryInv'
<1> SUFFICES ASSUME InventoryInv, [Inv!Next]_(Inv!vars) PROVE InventoryInv'
    OBVIOUS
<1>1. CASE UNCHANGED Inv!vars
    BY <1>1, Step_unchanged
<1>2. CASE \E o \in Inv!Published : Inv!handle_malformed(o) \/ \E w \in Workers : Inv!handle_resolve(w, o)
    BY <1>2, Step_handle_malformed, Step_handle_resolve
<1>3. CASE \E w \in Workers : Inv!handle_write(w) \/ Inv!handle_abort(w)
    BY <1>3, Step_handle_write, Step_handle_abort
<1>4. CASE \E e \in Enrollers : (\E m \in Machines : Inv!enroll_count(e, m)) \/ Inv!enroll_insert(e)
    BY <1>4, Step_enroll_count, Step_enroll_insert
<1>5. CASE \E d \in Devices : Inv!heartbeat(d) \/ Inv!MissHeartbeats(d) \/ Inv!revoke_device(d)
    BY <1>5, Step_heartbeat, Step_MissHeartbeats, Step_revoke_device
<1>6. CASE Inv!job_agent_offline \/ Inv!job_billable_window \/ \E a \in Inv!Existing : Inv!Lapse(a)
    BY <1>6, Step_rows
<1>7. CASE \E a \in Inv!Active : \E O \in SUBSET (Inv!Active \ {a}) : Inv!merge_assets(a, O)
    BY <1>7, Step_merge_assets
<1>8. CASE \E a \in Inv!Active : \E I \in SUBSET {i \in Inv!Identifiers : identity[i] = a} : Inv!split_asset(a, I)
    BY <1>8, Step_split_asset
<1> QED BY <1>1, <1>2, <1>3, <1>4, <1>5, <1>6, <1>7, <1>8 DEF Inv!Next

(* The inductive invariant of enrollment, the matcher, corrections and revocation. *)
THEOREM InventoryInvariant ==
    ASSUME Inv!ConstantsAssumption
    PROVE  Inv!Spec => []InventoryInv
BY InitHolds, StepHolds, PTL DEF Inv!Spec

(* The matcher never undoes a manual correction: the asset an identifier is pinned to is the *)
(* one its identity row names (bind_identities and the merge and split handlers).            *)
THEOREM PinsWinHolds ==
    ASSUME Inv!ConstantsAssumption
    PROVE  Inv!Spec => []PinsWin
<1>1. Inv!PinsWin => PinsWin
    BY DEF Inv!PinsWin, PinsWin, Inv!Identifiers, Identifiers, Inv!Names, Names
<1>2. InventoryInv => PinsWin
    BY <1>1 DEF InventoryInv
<1> QED BY <1>2, InventoryInvariant, PTL

(* The row of a device and its device_id identity name the same asset, and without a manual  *)
(* correction no two devices share one (enroll, merge_assets, split_asset).                  *)
THEOREM DeviceRowAgreesHolds ==
    ASSUME Inv!ConstantsAssumption
    PROVE  Inv!Spec => []DeviceRowAgrees
<1>1. Inv!DeviceRowAgrees => DeviceRowAgrees
    BY DEF Inv!DeviceRowAgrees, DeviceRowAgrees
<1>2. InventoryInv => DeviceRowAgrees
    BY <1>1 DEF InventoryInv
<1> QED BY <1>2, InventoryInvariant, PTL

(* A write of the matcher on outdated reads harms at most the asset it makes or the merged   *)
(* one it writes to: the other identifiers are bound to active assets, and without a         *)
(* correction the other active assets are found by an identifier (AssetDeduper.handle).      *)
THEOREM OverlapConfinedHolds ==
    ASSUME Inv!ConstantsAssumption
    PROVE  Inv!Spec => []OverlapConfined
<1>1. Inv!OverlapConfined => OverlapConfined
    BY DEF Inv!OverlapConfined, OverlapConfined, Inv!Identifiers, Identifiers, Inv!Names, Names, Inv!Active, Active, Inv!Existing, Existing, Inv!Assets, Assets
<1>2. InventoryInv => OverlapConfined
    BY <1>1 DEF InventoryInv
<1> QED BY <1>2, InventoryInvariant, PTL

(* Concurrent enrollments do not exceed the endpoint cap, which each counts under the lock   *)
(* that it holds until it commits.                                                           *)
THEOREM EnrollmentsWithinCapHolds ==
    ASSUME Inv!ConstantsAssumption
    PROVE  Inv!Spec => []EnrollmentsWithinCap
<1>1. InventoryInv => Inv!EnrollmentsWithinCap
    <2>1. Inv!billable_count = Cardinality(Billable)
        BY SameCardinality DEF Inv!billable_count, Billable
    <2> QED BY <2>1, BillableFinite DEF InventoryInv, CapInv, OnlyEnrolled,
               Inv!EnrollmentsWithinCap, Inv!ConstantsAssumption
<1>2. Inv!EnrollmentsWithinCap => EnrollmentsWithinCap
    <2>1. Existing = Inv!Existing /\ Active = Inv!Active
        BY DEF Active, Inv!Active, Existing, Inv!Existing, Assets, Inv!Assets
    <2>2. billable_count = Inv!billable_count
        BY <2>1, SameCardinality DEF billable_count, Inv!billable_count
    <2> QED BY <2>1, <2>2 DEF EnrollmentsWithinCap, Inv!EnrollmentsWithinCap
<1>3. InventoryInv => EnrollmentsWithinCap
    BY <1>1, <1>2
<1> QED BY <1>3, InventoryInvariant, PTL
=============================================================================
