---------------------------- MODULE AlerterProofs ----------------------------
(***************************************************************************)
(* Proofs about Alerter, for every number of workers, hits, alerts,        *)
(* redeliveries, failures and transitions, and every window; and about     *)
(* Detector, whose part begins with an instance of it.                     *)
(***************************************************************************)
EXTENDS Alerter, RuleTables, FiniteSetTheorems, WellFoundedInduction, TLAPS

-----------------------------------------------------------------------------
(* The locks: who may open, close or count. *)

\* The row a transaction inserts is not in the table yet, and the transaction
\* has closed whatever was open under its key.
InserterOwnsKey ==
    \A w \in Workers : pc[w] = "inserted" =>
        /\ alert[w] \in AlertIds
        /\ state[alert[w]] = "free"
        /\ OpenFor(hit[w]) \subseteq expired[w]
        /\ expired[w] \subseteq Open

InsertersDiffer ==
    \A v, w \in Workers : v # w /\ pc[v] = "inserted" /\ pc[w] = "inserted" =>
        ~ SameKey(hit[v], hit[w]) /\ alert[v] # alert[w]

UpdaterOwnsRow == \A w \in Workers : pc[w] = "updated" => alert[w] \in Open

LocksDisjoint == \A v, w \in Workers : v # w => Locked(v) \cap Locked(w) = {}

LockInv == InserterOwnsKey /\ InsertersDiffer /\ UpdaterOwnsRow /\ LocksDisjoint /\ OneOpenPerKey

-----------------------------------------------------------------------------
(* The columns of a row. *)

FreeIsEmpty == \A a \in AlertIds : state[a] = "free" => occurrence_count[a] = 0 /\ links[a] = {}

UsedIsCounted == \A a \in AlertIds : state[a] # "free" => occurrence_count[a] \in Nat \ {0}

\* What a triager has read is not ahead of the row.
ReadBefore ==
    \A t \in Triagers : context[t] # NoContext => context[t].count <= occurrence_count[context[t].alert]

CountInv == FreeIsEmpty /\ UsedIsCounted /\ ReadBefore /\ PriorityTracksCount

-----------------------------------------------------------------------------
(* Counts, links and duplicates: the handlers that passed the redelivery   *)
(* guard and may still count, and the hits among theirs that are not       *)
(* linked yet.  Each handler beyond the first of a hit is a duplicate.     *)

Counting == {w \in Workers : pc[w] \in {"guarded", "inserted", "updated"}}

Uncounted == {h \in Hits : ~ Linked(h) /\ \E w \in Counting : hit[w] = h}

EveryCountPaid ==
    \A a \in AlertIds :
        occurrence_count[a] + Cardinality(Counting)
            <= Cardinality(links[a]) + duplicates + Cardinality(Uncounted)

LinksCounted == \A a \in AlertIds : Cardinality(links[a]) <= occurrence_count[a]

NothingOwed == Cardinality(Counting) <= duplicates + Cardinality(Uncounted)

LinkInv == LinksCounted /\ EveryCountPaid /\ NothingOwed

Missed == {a \in AlertIds : /\ state[a] # "free"
                            /\ a \notin triage
                            /\ \A w \in Workers : ~ (pc[w] = "committed" /\ alert[w] = a)}

-----------------------------------------------------------------------------
(* Types *)

\* A transaction past its upsert has a row.
RowChosen == \A w \in Workers : pc[w] \in {"inserted", "updated", "committed"} => alert[w] \in AlertIds

\* A triage run has an alert.
ContextChosen == \A t \in Triagers : context[t] # NoContext => context[t].alert \in AlertIds

TypeInv == TypeOK /\ RowChosen /\ ContextChosen

LEMMA AnyHitInHits == AnyHit \in Hits
    BY ConstantsAssumption DEF AnyHit

\* The handler's end resets its locals.
LEMMA LeaveTypes ==
    ASSUME TypeOK, NEW w \in Workers, Leave(w)
    PROVE  /\ pc' \in [Workers -> {"idle", "guarded", "inserted", "updated", "committed"}]
           /\ hit' \in [Workers -> Hits] /\ alert' \in [Workers -> 0..MaxAlerts]
           /\ expired' \in [Workers -> SUBSET AlertIds]
           /\ join' \in [Workers -> 0..MaxAlerts] /\ related' \in [Workers -> SUBSET AlertIds]
    BY AnyHitInHits, ConstantsAssumption DEF TypeOK, Leave

LEMMA DeliveredTypes ==
    ASSUME TypeOK, NEW w \in Workers, NEW h \in Hits, Delivered(w, h)
    PROVE  duplicates' \in 0..MaxFaults /\ pc[w] = "idle" /\ duplicates <= duplicates'
    BY ConstantsAssumption DEF TypeOK, Delivered

LEMMA TypeInit == Init => TypeInv
    BY AnyHitInHits, ConstantsAssumption DEF Init, TypeInv, RowChosen, ContextChosen, NoContext, TypeOK, AlertIds

LEMMA TypeStep == TypeInv /\ [Next]_vars => TypeInv'
  <1> SUFFICES ASSUME TypeOK, RowChosen, ContextChosen, [Next]_vars PROVE TypeOK' /\ RowChosen' /\ ContextChosen'
    BY DEF TypeInv
  <1> USE ConstantsAssumption
  <1>1. ASSUME NEW w \in Workers, NEW h \in Hits, handle_malformed(w, h) PROVE TypeOK'
    BY <1>1, DeliveredTypes DEF handle_malformed, insert_dead_letter, TypeOK, rows, triager, transaction
  <1>2. ASSUME NEW w \in Workers, NEW h \in Hits, handle_redelivered(w, h) PROVE TypeOK'
    BY <1>2, DeliveredTypes DEF handle_redelivered, TypeOK, rows, triager, transaction
  <1>3. ASSUME NEW w \in Workers, NEW h \in Hits, handle(w, h) PROVE TypeOK'
    BY <1>3, DeliveredTypes DEF handle, TypeOK, rows, triager
  <1>4. ASSUME NEW w \in Workers, upsert_inserts(w) PROVE TypeOK'
    <2>1. /\ alert' \in [Workers -> 0..MaxAlerts] /\ join' \in [Workers -> 0..MaxAlerts]
          /\ expired' \in [Workers -> SUBSET AlertIds] /\ related' \in [Workers -> SUBSET AlertIds]
      <3>1. PICK a \in Unused, g \in 0..MaxAlerts : /\ alert' = [alert EXCEPT ![w] = a]
                                                   /\ join' = [join EXCEPT ![w] = g]
        BY <1>4 DEF upsert_inserts
      <3>2. a \in 0..MaxAlerts
        BY <3>1 DEF Unused, AlertIds
      <3>3. alert' \in [Workers -> 0..MaxAlerts] /\ join' \in [Workers -> 0..MaxAlerts]
        BY <3>1, <3>2 DEF TypeOK
      <3>4. /\ expired' = [expired EXCEPT ![w] = OpenFor(hit[w])]
            /\ related' = [related EXCEPT ![w] = {c \in Candidates(hit[w]) : group[c] = 0}]
        BY <1>4 DEF upsert_inserts
      <3>5. OpenFor(hit[w]) \subseteq AlertIds /\ Candidates(hit[w]) \subseteq AlertIds
        BY DEF OpenFor, Candidates, Open
      <3> QED BY <3>3, <3>4, <3>5 DEF TypeOK
    <2> QED BY <1>4, <2>1 DEF upsert_inserts, TypeOK, rows, triager, counters
  <1>5. ASSUME NEW w \in Workers, upsert_updates(w) PROVE TypeOK'
    <2>1. alert' \in [Workers -> 0..MaxAlerts] /\ pc' \in [Workers -> {"idle", "guarded", "inserted", "updated", "committed"}]
      BY <1>5 DEF upsert_updates, TypeOK, OpenFor, Open, AlertIds
    <2> QED BY <1>5, <2>1 DEF upsert_updates, TypeOK, rows, triager, counters
  <1>6. ASSUME NEW w \in Workers, commit_insert(w) PROVE TypeOK'
    <2>1. /\ state' \in [AlertIds -> {"free", "new", "acknowledged", "closed"}]
          /\ group' \in [AlertIds -> 0..MaxAlerts]
      BY <1>6 DEF commit_insert, assign_group, TypeOK
    <2>2. /\ origin' \in [AlertIds -> Hits]
          /\ occurrence_count' \in [AlertIds -> Nat] /\ scored_count' \in [AlertIds -> Nat]
          /\ last_seen' \in [AlertIds -> Nat] /\ links' \in [AlertIds -> SUBSET Hits]
      BY <1>6 DEF commit_insert, TypeOK
    <2>3. arrived' \in [AlertIds -> Int]
      <3>1. arrived' = [arrived EXCEPT ![alert[w]] = 0] /\ arrived \in [AlertIds -> Int] /\ 0 \in Int
        BY <1>6 DEF commit_insert, TypeOK
      <3> QED BY <3>1
    <2> QED BY <1>6, <2>1, <2>2, <2>3 DEF commit_insert, TypeOK, triager, transaction, counters
  <1>7. ASSUME NEW w \in Workers, commit_update(w) PROVE TypeOK'
    <2>0. alert[w] \in AlertIds
      BY <1>7 DEF commit_update, RowChosen
    <2>1. occurrence_count' \in [AlertIds -> Nat]
      BY <1>7, <2>0 DEF commit_update, TypeOK
    <2>2. scored_count' \in [AlertIds -> Nat] /\ arrived' \in [AlertIds -> Int]
      BY <1>7, <2>0 DEF commit_update, TypeOK
    <2>3. last_seen' \in [AlertIds -> Nat]
      BY <1>7, <2>0 DEF commit_update, TypeOK, Higher
    <2>4. links' \in [AlertIds -> SUBSET Hits] /\ done' \in SUBSET Hits
      BY <1>7 DEF commit_update, TypeOK
    <2> QED BY <1>7, <2>1, <2>2, <2>3, <2>4, LeaveTypes DEF commit_update, TypeOK, triager, counters
  <1>8. ASSUME NEW w \in Workers, publish(w) PROVE TypeOK'
    BY <1>8, LeaveTypes DEF publish, RowChosen, TypeOK, rows, triager, counters
  <1>9. ASSUME NEW w \in Workers, fail(w) PROVE TypeOK'
    BY <1>9, LeaveTypes DEF fail, TypeOK, rows, triager
  <1>10. ASSUME NEW a \in AlertIds, NEW from, NEW to \in {"new", "acknowledged", "closed"}, transition(a, from, to)
         PROVE TypeOK'
    BY <1>10 DEF transition, TypeOK, triager, transaction
  <1>11. ASSUME UNCHANGED vars PROVE TypeOK'
    BY <1>11 DEF vars, rows, triager, transaction, counters, TypeOK
  <1>13. ASSUME NEW t \in Triagers, TriagerStep(t) PROVE TypeOK'
    <2>0. UpdatesRow(t) => /\ triaged' \in SUBSET AlertIds
                           /\ context' \in [Triagers -> [alert : 0..MaxAlerts, count : Nat]]
      BY DEF UpdatesRow, TypeOK, NoContext, ContextChosen
    <2>1. ASSUME NEW a \in AlertIds, assemble(t, a) PROVE TypeOK'
      <3>1. [alert |-> a, count |-> occurrence_count[a]] \in [alert : 0..MaxAlerts, count : Nat]
        BY DEF TypeOK, AlertIds
      <3> QED BY <2>1, <3>1 DEF assemble, TypeOK, rows, transaction, counters
    <2>2. ASSUME persist_completed(t) PROVE TypeOK'
      <3>1. context[t].alert \in AlertIds /\ context[t].count \in Nat
        BY <2>2 DEF persist_completed, UpdatesRow, ContextChosen, TypeOK
      <3>2. scored_count' \in [AlertIds -> Nat] /\ arrived' \in [AlertIds -> Int]
        BY <2>2, <3>1 DEF persist_completed, TypeOK
      <3> QED BY <2>0, <2>2, <3>2 DEF persist_completed, TypeOK, transaction, counters
    <2>3. ASSUME persist_unavailable(t) PROVE TypeOK'
      BY <2>0, <2>3 DEF persist_unavailable, TypeOK, rows, transaction, counters
    <2>4. ASSUME triage_fails(t) PROVE TypeOK'
      BY <2>4 DEF triage_fails, NoContext, TypeOK, rows, transaction, counters
    <2> QED BY <1>13, <2>1, <2>2, <2>3, <2>4 DEF TriagerStep
  <1>12. TypeOK'
    BY <1>13, <1>1, <1>2, <1>3, <1>4, <1>5, <1>6, <1>7, <1>8, <1>9, <1>10, <1>11
       DEF Next, WorkerStep, acknowledge, close, reopen
  <1>20. ASSUME NEW w \in Workers,
                (\E h \in Hits : handle_malformed(w, h) \/ handle_redelivered(w, h) \/ handle(w, h))
                \/ commit_insert(w)
         PROVE RowChosen'
    BY <1>20 DEF handle_malformed, handle_redelivered, handle, commit_insert, transaction,
       RowChosen, TypeOK
  <1>21. ASSUME NEW w \in Workers, upsert_inserts(w) \/ upsert_updates(w) PROVE RowChosen'
    BY <1>21 DEF upsert_inserts, upsert_updates, Unused, OpenFor, Open, RowChosen, TypeOK
  <1>22. ASSUME NEW w \in Workers, commit_update(w) \/ publish(w) \/ fail(w) PROVE RowChosen'
    <2>1. Leave(w)
      BY <1>22 DEF commit_update, publish, fail
    <2> QED BY <2>1 DEF Leave, RowChosen, TypeOK
  <1>23. ASSUME NEW a \in AlertIds, NEW from, NEW to, transition(a, from, to) PROVE RowChosen'
    BY <1>23 DEF transition, transaction, RowChosen
  <1>24. ASSUME UNCHANGED vars PROVE RowChosen'
    BY <1>24 DEF vars, transaction, RowChosen
  <1>26. ASSUME NEW t \in Triagers, TriagerStep(t) PROVE RowChosen' /\ ContextChosen'
    <2>1. pc' = pc /\ alert' = alert
      BY <1>26 DEF TriagerStep, assemble, persist_completed, persist_unavailable, triage_fails, transaction
    <2>2. RowChosen'
      BY <2>1 DEF RowChosen
    <2>3. ASSUME NEW u \in Triagers PROVE context'[u] = context[u] \/ context'[u] = NoContext \/ context'[u].alert \in AlertIds
      BY <1>26, <2>3 DEF TriagerStep, assemble, persist_completed, persist_unavailable, triage_fails, UpdatesRow, TypeOK
    <2> QED BY <2>2, <2>3 DEF ContextChosen
  <1>27. ASSUME context' = context PROVE ContextChosen'
    BY <1>27 DEF ContextChosen
  <1>28. ASSUME NEW w \in Workers, WorkerStep(w) \/ fail(w) PROVE context' = context
    BY <1>28 DEF WorkerStep, fail, handle_malformed, handle_redelivered, handle, upsert_inserts, upsert_updates,
       commit_insert, commit_update, publish, triager
  <1>29. ASSUME NEW a \in AlertIds, acknowledge(a) \/ close(a) \/ reopen(a) PROVE context' = context
    BY <1>29 DEF acknowledge, close, reopen, transition, triager
  <1>30. ContextChosen'
    BY <1>26, <1>27, <1>28, <1>29 DEF Next, vars, triager
  <1>25. RowChosen'
    BY <1>26, <1>20, <1>21, <1>22, <1>23, <1>24 DEF Next, WorkerStep, acknowledge, close, reopen
  <1> QED BY <1>12, <1>25, <1>30

-----------------------------------------------------------------------------
(* The locks *)

LEMMA KeyEquivalence ==
    ASSUME NEW h, NEW k, NEW l
    PROVE  /\ SameKey(h, k) => SameKey(k, h)
           /\ SameKey(h, k) /\ SameKey(k, l) => SameKey(h, l)
    BY DEF SameKey

\* Steps that leave the rows' states alone and take no lock.
LEMMA LockFrame ==
    ASSUME TypeOK, LockInv, state' = state, origin' = origin,
           \A w \in Workers : pc'[w] \in {"inserted", "updated"} =>
               pc'[w] = pc[w] /\ hit'[w] = hit[w] /\ alert'[w] = alert[w] /\ expired'[w] = expired[w]
    PROVE  LockInv'
  <1>1. Open' = Open
    BY DEF Open
  <1>2. \A w \in Workers : Locked(w)' \subseteq Locked(w)
    BY DEF Locked
  <1>3. InserterOwnsKey'
    BY <1>1 DEF LockInv, InserterOwnsKey, OpenFor
  <1>4. InsertersDiffer'
    BY DEF LockInv, InsertersDiffer
  <1>5. UpdaterOwnsRow'
    BY <1>1 DEF LockInv, UpdaterOwnsRow
  <1>6. LocksDisjoint'
    BY <1>2, Zenon DEF LockInv, LocksDisjoint
  <1>7. OneOpenPerKey'
    BY <1>1 DEF LockInv, OneOpenPerKey
  <1> QED BY <1>3, <1>4, <1>5, <1>6, <1>7 DEF LockInv

\* A transaction inserts: it holds its key and the rows it closes.
LEMMA LockInsert ==
    ASSUME TypeInv, LockInv, NEW w \in Workers, upsert_inserts(w)
    PROVE  LockInv'
  <1>1. PICK a \in Unused : alert' = [alert EXCEPT ![w] = a]
    BY DEF upsert_inserts
  <1>2. /\ state' = state /\ origin' = origin /\ hit' = hit
        /\ pc' = [pc EXCEPT ![w] = "inserted"] /\ pc[w] = "guarded"
        /\ expired' = [expired EXCEPT ![w] = OpenFor(hit[w])]
    BY DEF upsert_inserts, rows
  <1>3. /\ pc'[w] = "inserted" /\ alert'[w] = a /\ expired'[w] = OpenFor(hit[w])
        /\ \A v \in Workers \ {w} : pc'[v] = pc[v] /\ alert'[v] = alert[v] /\ expired'[v] = expired[v]
    BY <1>1, <1>2 DEF TypeInv, TypeOK
  <1>4. a \in AlertIds /\ state[a] = "free" /\ \A v \in Workers : InTransaction(v) => alert[v] # a
    BY DEF Unused
  <1>5. Open' = Open /\ OpenFor(hit[w]) \subseteq Open
    BY <1>2 DEF Open, OpenFor
  <1>6. \A v \in Workers : OpenFor(hit[v])' = OpenFor(hit[v])
    BY <1>2, <1>5 DEF OpenFor
  <1>7. InserterOwnsKey'
    BY <1>2, <1>3, <1>4, <1>5, <1>6 DEF LockInv, InserterOwnsKey
  <1>8. InsertersDiffer'
    <2>1. \A v \in Workers \ {w} : pc[v] = "inserted" => ~ SameKey(hit[v], hit[w])
      BY DEF upsert_inserts, KeyBusy
    <2> QED BY <1>2, <1>3, <1>4, <2>1, KeyEquivalence DEF LockInv, InsertersDiffer, InTransaction
  <1>9. UpdaterOwnsRow'
    BY <1>2, <1>3, <1>5 DEF LockInv, UpdaterOwnsRow
  <1>10. LocksDisjoint'
    <2>1. Locked(w)' = OpenFor(hit[w]) /\ \A v \in Workers \ {w} : Locked(v)' = Locked(v)
      BY <1>3 DEF Locked
    <2>2. \A v \in Workers \ {w} : Locked(v) \cap OpenFor(hit[w]) = {}
      BY DEF upsert_inserts, RowBusy
    <2> QED BY <2>1, <2>2 DEF LockInv, LocksDisjoint
  <1>11. OneOpenPerKey'
    BY <1>2, <1>5 DEF LockInv, OneOpenPerKey
  <1> QED BY <1>7, <1>8, <1>9, <1>10, <1>11 DEF LockInv

\* A transaction updates: it holds the open row.
LEMMA LockUpdate ==
    ASSUME TypeInv, LockInv, NEW w \in Workers, upsert_updates(w)
    PROVE  LockInv'
  <1>1. PICK a \in OpenFor(hit[w]) : ~ RowBusy(w, a) /\ alert' = [alert EXCEPT ![w] = a]
    BY DEF upsert_updates
  <1>2. /\ state' = state /\ origin' = origin /\ hit' = hit /\ expired' = expired
        /\ pc' = [pc EXCEPT ![w] = "updated"] /\ pc[w] = "guarded"
    BY DEF upsert_updates, rows
  <1>3. /\ pc'[w] = "updated" /\ alert'[w] = a
        /\ \A v \in Workers \ {w} : pc'[v] = pc[v] /\ alert'[v] = alert[v]
    BY <1>1, <1>2 DEF TypeInv, TypeOK
  <1>5. Open' = Open /\ a \in Open
    BY <1>1, <1>2 DEF Open, OpenFor
  <1>6. \A v \in Workers : OpenFor(hit[v])' = OpenFor(hit[v])
    BY <1>2, <1>5 DEF OpenFor
  <1>7. InserterOwnsKey'
    BY <1>2, <1>3, <1>5, <1>6 DEF LockInv, InserterOwnsKey
  <1>8. InsertersDiffer'
    BY <1>2, <1>3 DEF LockInv, InsertersDiffer
  <1>9. UpdaterOwnsRow'
    BY <1>2, <1>3, <1>5 DEF LockInv, UpdaterOwnsRow
  <1>10. LocksDisjoint'
    <2>1. Locked(w)' = {a} /\ \A v \in Workers \ {w} : Locked(v)' = Locked(v)
      BY <1>2, <1>3 DEF Locked
    <2>2. \A v \in Workers \ {w} : a \notin Locked(v)
      BY <1>1 DEF RowBusy
    <2> QED BY <2>1, <2>2 DEF LockInv, LocksDisjoint
  <1>11. OneOpenPerKey'
    BY <1>2, <1>5 DEF LockInv, OneOpenPerKey
  <1> QED BY <1>7, <1>8, <1>9, <1>10, <1>11 DEF LockInv

\* The commit of an insert: the new row is open, the rows of its key are closed.
LEMMA LockCommit ==
    ASSUME TypeInv, LockInv, NEW w \in Workers, commit_insert(w)
    PROVE  LockInv'
  <1>1. /\ pc[w] = "inserted" /\ pc' = [pc EXCEPT ![w] = "committed"]
        /\ hit' = hit /\ alert' = alert /\ expired' = expired
        /\ origin' = [origin EXCEPT ![alert[w]] = hit[w]]
        /\ state' = [a \in AlertIds |-> IF a = alert[w] THEN "new"
                                        ELSE IF a \in expired[w] THEN "closed" ELSE state[a]]
    BY DEF commit_insert, transaction
  <1>2. /\ alert[w] \in AlertIds /\ state[alert[w]] = "free"
        /\ OpenFor(hit[w]) \subseteq expired[w] /\ expired[w] \subseteq Open
    BY <1>1 DEF LockInv, InserterOwnsKey
  <1>3. /\ Open' = (Open \ expired[w]) \cup {alert[w]}
        /\ alert[w] \notin Open
    BY <1>1, <1>2 DEF Open
  <1>4. origin'[alert[w]] = hit[w] /\ \A a \in AlertIds \ {alert[w]} : origin'[a] = origin[a]
    BY <1>1, <1>2 DEF TypeInv, TypeOK
  <1>5. pc'[w] = "committed" /\ \A v \in Workers \ {w} : pc'[v] = pc[v]
    BY <1>1 DEF TypeInv, TypeOK
  <1>6. Locked(w) = expired[w] /\ Locked(w)' = {} /\ \A v \in Workers \ {w} : Locked(v)' = Locked(v)
    BY <1>1, <1>5 DEF Locked
  <1>7. \A v \in Workers \ {w} : Locked(v) \cap expired[w] = {}
    BY <1>6 DEF LockInv, LocksDisjoint
  <1>8. InserterOwnsKey'
    <2> SUFFICES ASSUME NEW v \in Workers, pc'[v] = "inserted"
                 PROVE  /\ alert[v] \in AlertIds /\ state'[alert[v]] = "free"
                        /\ OpenFor(hit[v])' \subseteq expired[v] /\ expired[v] \subseteq Open'
      BY <1>1 DEF InserterOwnsKey
    <2>1. v # w /\ pc[v] = "inserted"
      BY <1>5
    <2>2. /\ alert[v] \in AlertIds /\ state[alert[v]] = "free"
          /\ OpenFor(hit[v]) \subseteq expired[v] /\ expired[v] \subseteq Open
      BY <2>1 DEF LockInv, InserterOwnsKey
    <2>3. alert[v] # alert[w] /\ ~ SameKey(hit[w], hit[v])
      BY <1>1, <2>1 DEF LockInv, InsertersDiffer
    <2>4. state'[alert[v]] = "free"
      BY <1>1, <1>2, <2>2, <2>3 DEF Open
    <2>5. expired[v] \cap expired[w] = {}
      BY <1>7, <2>1 DEF Locked
    <2>6. OpenFor(hit[v])' \subseteq OpenFor(hit[v])
      BY <1>1, <1>3, <1>4, <2>3 DEF OpenFor, Open
    <2> QED BY <1>3, <2>2, <2>4, <2>5, <2>6
  <1>9. InsertersDiffer'
    BY <1>1, <1>5 DEF LockInv, InsertersDiffer
  <1>10. UpdaterOwnsRow'
    <2> SUFFICES ASSUME NEW v \in Workers, pc'[v] = "updated" PROVE alert[v] \in Open'
      BY <1>1 DEF UpdaterOwnsRow
    <2>1. v # w /\ pc[v] = "updated" /\ alert[v] \in Open
      BY <1>5 DEF LockInv, UpdaterOwnsRow
    <2>2. alert[v] \notin expired[w]
      BY <1>7, <2>1 DEF Locked
    <2> QED BY <1>3, <2>1, <2>2
  <1>11. LocksDisjoint'
    BY <1>6 DEF LockInv, LocksDisjoint
  <1>12. OneOpenPerKey'
    <2> SUFFICES ASSUME NEW a \in Open', NEW b \in Open', SameKey(origin'[a], origin'[b]) PROVE a = b
      BY DEF OneOpenPerKey
    <2>1. ASSUME NEW x \in Open', x # alert[w] PROVE x \in Open \ expired[w] /\ x \in AlertIds /\ origin'[x] = origin[x]
      BY <1>3, <1>4, <2>1 DEF Open
    <2>2. ASSUME NEW x \in Open', x # alert[w] PROVE ~ SameKey(origin'[x], hit[w])
      BY <1>2, <2>1, <2>2 DEF OpenFor
    <2>3. CASE a # alert[w] /\ b # alert[w]
      BY <2>1, <2>3 DEF LockInv, OneOpenPerKey
    <2> QED BY <1>4, <2>2, <2>3, KeyEquivalence
  <1> QED BY <1>8, <1>9, <1>10, <1>11, <1>12 DEF LockInv

\* An analyst changes a row that no transaction holds; what he opens is alone.
LEMMA LockTransition ==
    ASSUME TypeInv, LockInv, NEW a \in AlertIds, NEW from, NEW to, transition(a, from, to),
           \/ to = "acknowledged" /\ from = {"new"}
           \/ to = "closed" /\ from = {"new", "acknowledged"}
           \/ /\ to = "new" /\ from = {"closed"}
              /\ OpenFor(origin[a]) = {}
              /\ \A w \in Workers : pc[w] = "inserted" => ~ SameKey(hit[w], origin[a])
    PROVE  LockInv'
  <1>1. /\ state' = [state EXCEPT ![a] = to] /\ state[a] \in from
        /\ origin' = origin /\ pc' = pc /\ hit' = hit /\ alert' = alert /\ expired' = expired
        /\ \A w \in Workers : a \notin Locked(w)
    BY DEF transition, transaction
  <1>2. state'[a] = to /\ \A b \in AlertIds \ {a} : state'[b] = state[b]
    BY <1>1 DEF TypeInv, TypeOK
  <1>3. state[a] # "free" /\ \A b \in AlertIds : state[b] = "free" => state'[b] = "free"
    BY <1>1, <1>2
  <1>4. \A b \in AlertIds \ {a} : b \in Open' <=> b \in Open
    BY <1>2 DEF Open
  <1>5. \A w \in Workers : Locked(w)' = Locked(w)
    BY <1>1 DEF Locked
  <1>6. Open \subseteq AlertIds /\ Open' \subseteq AlertIds
    BY DEF Open
  <1>7. a \in Open' => a \in Open \/ (OpenFor(origin[a]) = {} /\ \A w \in Workers : pc[w] = "inserted" => ~ SameKey(hit[w], origin[a]))
    BY <1>1, <1>2 DEF Open
  <1>8. InserterOwnsKey'
    <2> SUFFICES ASSUME NEW w \in Workers, pc[w] = "inserted"
                 PROVE  /\ alert[w] \in AlertIds /\ state'[alert[w]] = "free"
                        /\ OpenFor(hit[w])' \subseteq expired[w] /\ expired[w] \subseteq Open'
      BY <1>1 DEF InserterOwnsKey
    <2>1. /\ alert[w] \in AlertIds /\ state[alert[w]] = "free"
          /\ OpenFor(hit[w]) \subseteq expired[w] /\ expired[w] \subseteq Open
      BY DEF LockInv, InserterOwnsKey
    <2>2. a \notin expired[w]
      BY <1>1 DEF Locked
    <2>3. expired[w] \subseteq Open'
      BY <1>4, <1>6, <2>1, <2>2
    <2>4. \A b \in OpenFor(hit[w])' : b \in Open' /\ SameKey(origin[b], hit[w])
      BY <1>1 DEF OpenFor
    <2>5. a \notin OpenFor(hit[w])'
      <3> SUFFICES ASSUME a \in OpenFor(hit[w])' PROVE FALSE
        OBVIOUS
      <3>1. a \in Open' /\ SameKey(origin[a], hit[w])
        BY <2>4
      <3>2. CASE a \in Open
        BY <2>1, <2>2, <3>1, <3>2 DEF OpenFor
      <3> QED BY <1>7, <3>1, <3>2, KeyEquivalence
    <2>6. OpenFor(hit[w])' \subseteq OpenFor(hit[w])
      BY <1>4, <1>6, <2>4, <2>5 DEF OpenFor
    <2> QED BY <1>3, <2>1, <2>3, <2>6
  <1>9. InsertersDiffer'
    BY <1>1 DEF LockInv, InsertersDiffer
  <1>10. UpdaterOwnsRow'
    BY <1>1, <1>4, <1>6 DEF LockInv, UpdaterOwnsRow, Locked
  <1>11. LocksDisjoint'
    BY <1>5 DEF LockInv, LocksDisjoint
  <1>12. OneOpenPerKey'
    <2> SUFFICES ASSUME NEW b \in Open', NEW c \in Open', SameKey(origin[b], origin[c]) PROVE b = c
      BY <1>1 DEF OneOpenPerKey
    <2>1. CASE a \in Open
      BY <1>4, <1>6, <2>1 DEF LockInv, OneOpenPerKey
    <2>2. CASE a \notin Open'
      BY <1>4, <1>6, <2>2 DEF LockInv, OneOpenPerKey
    <2>3. CASE a \notin Open /\ a \in Open'
      <3>1. ASSUME NEW d \in Open', d # a PROVE ~ SameKey(origin[d], origin[a])
        BY <1>4, <1>6, <1>7, <2>3, <3>1 DEF OpenFor
      <3>2. CASE b # a /\ c # a
        BY <1>4, <1>6, <3>2 DEF LockInv, OneOpenPerKey
      <3> QED BY <3>1, <3>2, KeyEquivalence
    <2> QED BY <2>1, <2>2, <2>3
  <1> QED BY <1>8, <1>9, <1>10, <1>11, <1>12 DEF LockInv

LEMMA LockInit == Init => LockInv
    BY DEF Init, LockInv, InserterOwnsKey, InsertersDiffer, UpdaterOwnsRow, LocksDisjoint,
       OneOpenPerKey, Locked, Open

LEMMA LockStep == TypeInv /\ LockInv /\ [Next]_vars => LockInv'
  <1> SUFFICES ASSUME TypeInv, LockInv, [Next]_vars PROVE LockInv'
    OBVIOUS
  <1>0. TypeOK
    BY DEF TypeInv
  <1>1. ASSUME NEW w \in Workers, NEW h \in Hits, handle_malformed(w, h) \/ handle_redelivered(w, h) PROVE LockInv'
    BY <1>0, <1>1, LockFrame DEF handle_malformed, handle_redelivered, rows, transaction
  <1>2. ASSUME NEW w \in Workers, NEW h \in Hits, handle(w, h) PROVE LockInv'
    BY <1>0, <1>2, LockFrame DEF handle, rows, TypeOK
  <1>3. ASSUME NEW w \in Workers, commit_update(w) \/ publish(w) \/ fail(w) PROVE LockInv'
    <2>1. Leave(w) /\ state' = state /\ origin' = origin
      BY <1>3 DEF commit_update, publish, fail, rows
    <2> QED BY <1>0, <2>1, LockFrame DEF Leave, TypeOK
  <1>4. ASSUME UNCHANGED vars PROVE LockInv'
    BY <1>0, <1>4, LockFrame DEF vars, rows, transaction
  <1>5. ASSUME NEW a \in AlertIds, acknowledge(a) \/ close(a) \/ reopen(a) PROVE LockInv'
    BY <1>5, LockTransition DEF acknowledge, close, reopen
  <1>6. ASSUME NEW t \in Triagers, TriagerStep(t) PROVE LockInv'
    BY <1>0, <1>6, LockFrame DEF TriagerStep, assemble, persist_completed, persist_unavailable, triage_fails,
       rows, transaction
  <1> QED BY <1>1, <1>2, <1>3, <1>4, <1>5, <1>6, LockInsert, LockUpdate, LockCommit DEF Next, WorkerStep

-----------------------------------------------------------------------------
(* Counts and scores *)

\* Between the tiers another occurrence leaves the component as it is.
LEMMA TierBoundaries ==
    ASSUME NEW n \in Nat \ {0}
    PROVE  n + 1 \in {2, 5, 20} \/ occurrence_component(n + 1) = occurrence_component(n)
    BY DEF occurrence_component

\* What a step may do to the rows: nothing to their counts, insert one, count one;
\* nothing to their priorities, or what a triage run writes.
CountsKept == UNCHANGED <<occurrence_count, links>> /\
              \A a \in AlertIds : state[a] = "free" <=> state'[a] = "free"

SameColumns(a) ==
    /\ occurrence_count'[a] = occurrence_count[a] /\ links'[a] = links[a]
    /\ scored_count'[a] = scored_count[a] /\ arrived'[a] = arrived[a]

Inserts(w) ==
    /\ alert[w] \in AlertIds /\ state[alert[w]] = "free" /\ state'[alert[w]] = "new"
    /\ occurrence_count'[alert[w]] = 1 /\ scored_count'[alert[w]] = 1 /\ arrived'[alert[w]] = 0
    /\ links'[alert[w]] = {hit[w]}
    /\ \A a \in AlertIds \ {alert[w]} : (state[a] = "free" <=> state'[a] = "free") /\ SameColumns(a)
    /\ context' = context

Counts(w) ==
    LET n == occurrence_count[alert[w]] + 1 IN
    /\ alert[w] \in AlertIds /\ alert[w] \in Open /\ state' = state
    /\ occurrence_count'[alert[w]] = n
    /\ scored_count'[alert[w]] = IF n \in {2, 5, 20} THEN n ELSE scored_count[alert[w]]
    /\ arrived'[alert[w]] = IF n \in {2, 5, 20} THEN 0 ELSE arrived[alert[w]]
    /\ links'[alert[w]] = links[alert[w]] \cup {hit[w]}
    /\ \A a \in AlertIds \ {alert[w]} : SameColumns(a)
    /\ context' = context

Scores(t) ==
    LET a == context[t].alert IN
    /\ context[t] # NoContext /\ a \in AlertIds
    /\ scored_count'[a] = context[t].count
    /\ arrived'[a] = occurrence_count[a] - context[t].count
    /\ \A b \in AlertIds \ {a} : SameColumns(b)

LEMMA InsertRows ==
    ASSUME TypeInv, LockInv, NEW w \in Workers, commit_insert(w) PROVE Inserts(w)
  <1>1. /\ alert[w] \in AlertIds /\ state[alert[w]] = "free" /\ expired[w] \subseteq Open
    BY DEF commit_insert, LockInv, InserterOwnsKey
  <1>2. state'[alert[w]] = "new" /\ \A a \in AlertIds \ {alert[w]} : state[a] = "free" <=> state'[a] = "free"
    BY <1>1 DEF commit_insert, Open
  <1> QED BY <1>1, <1>2 DEF commit_insert, Inserts, SameColumns, triager, TypeInv, TypeOK

LEMMA UpdateRows ==
    ASSUME TypeInv, LockInv, NEW w \in Workers, commit_update(w) PROVE Counts(w)
  <1>1. alert[w] \in AlertIds /\ alert[w] \in Open
    BY DEF commit_update, LockInv, UpdaterOwnsRow, Open
  <1> QED BY <1>1 DEF commit_update, Counts, SameColumns, triager, TypeInv, TypeOK

\* Every other step keeps the counts, and all but the write of a triage run keep
\* the priorities.
LEMMA OtherRows ==
    ASSUME TypeInv, [Next]_vars, \A w \in Workers : ~ commit_insert(w) /\ ~ commit_update(w)
    PROVE  CountsKept /\ (UNCHANGED <<scored_count, arrived>> \/ \E t \in Triagers : Scores(t))
  <1> DEFINE Kept == CountsKept /\ UNCHANGED <<scored_count, arrived>>
  <1>1. ASSUME NEW w \in Workers, WorkerStep(w) \/ fail(w) PROVE Kept
    BY <1>1 DEF WorkerStep, fail, handle_malformed, handle_redelivered, handle, upsert_inserts,
       upsert_updates, publish, rows, CountsKept
  <1>2. ASSUME NEW a \in AlertIds, acknowledge(a) \/ close(a) \/ reopen(a) PROVE Kept
    BY <1>2 DEF acknowledge, close, reopen, transition, CountsKept, TypeInv, TypeOK
  <1>3. ASSUME UNCHANGED vars PROVE Kept
    BY <1>3 DEF vars, rows, CountsKept
  <1>4. ASSUME NEW t \in Triagers, TriagerStep(t) PROVE CountsKept /\ (Kept \/ Scores(t))
    <2>1. ASSUME persist_completed(t) PROVE CountsKept /\ Scores(t)
      <3>1. context[t].alert \in AlertIds /\ context[t] # NoContext
        BY <2>1 DEF persist_completed, UpdatesRow, TypeInv, ContextChosen
      <3>2. CountsKept
        BY <2>1 DEF persist_completed, CountsKept
      <3>3. Scores(t)
        BY <2>1, <3>1 DEF persist_completed, Scores, SameColumns, TypeInv, TypeOK
      <3> QED BY <3>2, <3>3
    <2> QED BY <1>4, <2>1 DEF TriagerStep, assemble, persist_unavailable, triage_fails, rows, CountsKept
  <1> QED BY <1>1, <1>2, <1>3, <1>4 DEF Next

\* A run that reads finds the count of the row; no other step adds a context.
LEMMA ContextRead ==
    ASSUME TypeInv, [Next]_vars, NEW t \in Triagers
    PROVE  \/ context'[t] \in {context[t], NoContext}
           \/ \E a \in AlertIds : /\ context'[t] = [alert |-> a, count |-> occurrence_count[a]]
                                  /\ occurrence_count' = occurrence_count
  <1>1. ASSUME NEW w \in Workers, WorkerStep(w) \/ fail(w) PROVE context' = context
    BY <1>1 DEF WorkerStep, fail, handle_malformed, handle_redelivered, handle, upsert_inserts, upsert_updates,
       commit_insert, commit_update, publish, triager
  <1>2. ASSUME NEW a \in AlertIds, acknowledge(a) \/ close(a) \/ reopen(a) PROVE context' = context
    BY <1>2 DEF acknowledge, close, reopen, transition, triager
  <1>3. ASSUME NEW u \in Triagers, NEW a \in AlertIds, assemble(u, a)
        PROVE  \/ context'[t] = context[t]
               \/ /\ context'[t] = [alert |-> a, count |-> occurrence_count[a]]
                  /\ occurrence_count' = occurrence_count
    BY <1>3 DEF assemble, rows, TypeInv, TypeOK
  <1>4. ASSUME NEW u \in Triagers, persist_completed(u) \/ persist_unavailable(u) \/ triage_fails(u)
        PROVE  context'[t] \in {context[t], NoContext}
    BY <1>4 DEF persist_completed, persist_unavailable, triage_fails, UpdatesRow, TypeInv, TypeOK
  <1> QED BY <1>1, <1>2, <1>3, <1>4 DEF Next, TriagerStep, vars, triager

LEMMA CountInit == Init => CountInv
    BY DEF Init, CountInv, FreeIsEmpty, UsedIsCounted, ReadBefore, PriorityTracksCount

LEMMA CountStep == TypeInv /\ TypeInv' /\ LockInv /\ CountInv /\ [Next]_vars => CountInv'
  <1> SUFFICES ASSUME TypeInv, TypeInv', LockInv, CountInv, [Next]_vars PROVE CountInv'
    OBVIOUS
  <1>t. \A a \in AlertIds : occurrence_count[a] \in Nat /\ scored_count[a] \in Nat /\ arrived[a] \in Int
    BY DEF TypeInv, TypeOK
  <1>0. \A a \in AlertIds : occurrence_count[a] <= occurrence_count'[a]
    <2>1. ASSUME NEW w \in Workers, Inserts(w) PROVE \A a \in AlertIds : occurrence_count[a] <= occurrence_count'[a]
      BY <1>t, <2>1 DEF Inserts, SameColumns, CountInv, FreeIsEmpty
    <2>2. ASSUME NEW w \in Workers, Counts(w) PROVE \A a \in AlertIds : occurrence_count[a] <= occurrence_count'[a]
      BY <1>t, <2>2 DEF Counts, SameColumns
    <2> QED BY <1>t, <2>1, <2>2, InsertRows, UpdateRows, OtherRows DEF CountsKept
  <1>1. ReadBefore'
    <2> SUFFICES ASSUME NEW t \in Triagers, context'[t] # NoContext
                 PROVE  context'[t].count <= occurrence_count'[context'[t].alert]
      BY DEF ReadBefore
    <2>1. CASE context'[t] = context[t]
      <3>1. context[t].alert \in AlertIds /\ context[t].count \in Nat
            /\ context[t].count <= occurrence_count[context[t].alert]
        BY <2>1 DEF CountInv, ReadBefore, TypeInv, TypeOK, ContextChosen
      <3>2. occurrence_count'[context[t].alert] \in Nat
        BY <3>1 DEF TypeInv, TypeOK
      <3> QED BY <1>0, <1>t, <2>1, <3>1, <3>2
    <2>2. CASE \E a \in AlertIds : /\ context'[t] = [alert |-> a, count |-> occurrence_count[a]]
                                   /\ occurrence_count' = occurrence_count
      BY <1>t, <2>2
    <2> QED BY <2>1, <2>2, ContextRead
  <1>2. ASSUME CountsKept, UNCHANGED <<scored_count, arrived>>
        PROVE FreeIsEmpty' /\ UsedIsCounted' /\ PriorityTracksCount'
    BY <1>2 DEF CountsKept, CountInv, FreeIsEmpty, UsedIsCounted, PriorityTracksCount
  <1>3. ASSUME CountsKept, NEW t \in Triagers, Scores(t)
        PROVE FreeIsEmpty' /\ UsedIsCounted' /\ PriorityTracksCount'
    <2> DEFINE a == context[t].alert
    <2>1. a \in AlertIds /\ context[t].count \in Nat /\ context[t].count <= occurrence_count[a]
          /\ occurrence_count[a] \in Nat
      BY <1>3, <1>t DEF Scores, CountInv, ReadBefore, TypeInv, TypeOK
    <2>2. scored_count'[a] + arrived'[a] = occurrence_count'[a] /\ scored_count'[a] <= occurrence_count'[a]
      BY <1>3, <2>1 DEF Scores, CountsKept
    <2>3. FreeIsEmpty' /\ UsedIsCounted'
      BY <1>3 DEF CountsKept, CountInv, FreeIsEmpty, UsedIsCounted
    <2>4. ASSUME NEW b \in AlertIds, state'[b] # "free"
          PROVE  /\ occurrence_component(scored_count'[b] + arrived'[b]) = occurrence_component(occurrence_count'[b])
                 /\ scored_count'[b] <= occurrence_count'[b]
      BY <1>3, <2>2, <2>4 DEF Scores, SameColumns, CountsKept, CountInv, PriorityTracksCount
    <2> QED BY <2>3, <2>4 DEF PriorityTracksCount
  <1>4. ASSUME NEW w \in Workers, Inserts(w) PROVE FreeIsEmpty' /\ UsedIsCounted' /\ PriorityTracksCount'
    BY <1>4 DEF Inserts, SameColumns, CountInv, FreeIsEmpty, UsedIsCounted, PriorityTracksCount
  <1>5. ASSUME NEW w \in Workers, Counts(w) PROVE FreeIsEmpty' /\ UsedIsCounted' /\ PriorityTracksCount'
    <2> DEFINE a == alert[w]
    <2>1. a \in AlertIds /\ state[a] # "free" /\ state'[a] # "free"
      BY <1>5 DEF Counts, Open
    <2>2. occurrence_count[a] \in Nat \ {0} /\ scored_count[a] <= occurrence_count[a]
          /\ occurrence_component(scored_count[a] + arrived[a]) = occurrence_component(occurrence_count[a])
      BY <2>1 DEF CountInv, UsedIsCounted, PriorityTracksCount
    <2>3. occurrence_count'[a] \in Nat \ {0}
      BY <1>5, <2>2 DEF Counts
    <2>4. scored_count'[a] <= occurrence_count'[a]
      BY <1>5, <1>t, <2>1, <2>2 DEF Counts
    <2>5. occurrence_component(scored_count'[a] + arrived'[a]) = occurrence_component(occurrence_count'[a])
      <3>1. CASE occurrence_count[a] + 1 \in {2, 5, 20}
        BY <1>5, <2>2, <3>1 DEF Counts
      <3>2. CASE occurrence_count[a] + 1 \notin {2, 5, 20}
        BY <1>5, <2>2, <3>2, TierBoundaries DEF Counts
      <3> QED BY <3>1, <3>2
    <2> QED BY <1>5, <2>1, <2>3, <2>4, <2>5 DEF Counts, SameColumns, CountInv, FreeIsEmpty, UsedIsCounted,
               PriorityTracksCount
  <1>6. FreeIsEmpty' /\ UsedIsCounted' /\ PriorityTracksCount'
    BY <1>2, <1>3, <1>4, <1>5, InsertRows, UpdateRows, OtherRows
  <1> QED BY <1>1, <1>6 DEF CountInv

-----------------------------------------------------------------------------
(* Counts, links and duplicates *)

LEMMA CardSubset ==
    ASSUME NEW S, IsFiniteSet(S), NEW T, T \subseteq S
    PROVE  IsFiniteSet(T) /\ Cardinality(T) \in Nat /\ Cardinality(T) <= Cardinality(S)
    BY FS_Subset, FS_CardinalityType

LEMMA CardPlusOne ==
    ASSUME NEW S, IsFiniteSet(S), NEW x, NEW T, T \subseteq S \cup {x}
    PROVE  Cardinality(T) <= Cardinality(S) + 1
  <1>1. IsFiniteSet(S \cup {x}) /\ Cardinality(S \cup {x}) <= Cardinality(S) + 1 /\ Cardinality(S) \in Nat
        /\ Cardinality(S \cup {x}) \in Nat
    BY FS_AddElement, FS_CardinalityType
  <1> QED BY <1>1, CardSubset

LEMMA CountingWorkers == Counting \subseteq Workers /\ Counting' \subseteq Workers
    BY DEF Counting

\* The sets whose sizes the invariant compares are finite.
LEMMA FiniteSets1 ==
    ASSUME TypeOK
    PROVE  /\ IsFiniteSet(Counting) /\ IsFiniteSet(Uncounted) /\ \A a \in AlertIds : IsFiniteSet(links[a])
           /\ Cardinality(Counting) \in Nat /\ Cardinality(Uncounted) \in Nat /\ duplicates \in Nat
           /\ \A a \in AlertIds : Cardinality(links[a]) \in Nat /\ occurrence_count[a] \in Nat
  <1>1. Counting \subseteq Workers /\ Uncounted \subseteq Hits /\ \A a \in AlertIds : links[a] \subseteq Hits
    BY DEF Counting, Uncounted, TypeOK
  <1>2. duplicates \in Nat /\ \A a \in AlertIds : occurrence_count[a] \in Nat
    BY DEF TypeOK
  <1> QED BY <1>1, <1>2, CardSubset, ConstantsAssumption

\* Each uncounted hit has a handler of its own.
LEMMA UncountedFew ==
    ASSUME TypeOK PROVE Cardinality(Uncounted) <= Cardinality(Counting)
  <1> DEFINE f == [h \in Uncounted |-> CHOOSE w \in Counting : hit[w] = h]
  <1>1. \A h \in Uncounted : f[h] \in Counting /\ hit[f[h]] = h
    BY DEF Uncounted
  <1>2. f \in Injection(Uncounted, Counting)
    BY <1>1 DEF Injection, IsInjective
  <1> QED BY <1>2, FiniteSets1, FS_Injection

\* Handlers may join only with a duplicate or a hit nobody else handles.
DebtKept ==
    Cardinality(Counting)' + Cardinality(Uncounted) + duplicates
        <= Cardinality(Counting) + Cardinality(Uncounted)' + duplicates'

LEMMA DebtSame ==
    ASSUME TypeOK, TypeOK', Counting' = Counting, Uncounted' = Uncounted, duplicates <= duplicates'
    PROVE  DebtKept
    BY FiniteSets1 DEF DebtKept, TypeOK

\* One handler less, and at most its hit less among the uncounted.
LEMMA DebtLeaves ==
    ASSUME TypeOK, TypeOK', NEW w \in Counting, Counting' = Counting \ {w}, duplicates' = duplicates,
           Uncounted \subseteq Uncounted' \cup {hit[w]}
    PROVE  /\ DebtKept
           /\ Uncounted \subseteq Uncounted' =>
                Cardinality(Counting)' + Cardinality(Uncounted) + 1 <= Cardinality(Counting) + Cardinality(Uncounted)'
  <1>1. IsFiniteSet(Uncounted') /\ Cardinality(Uncounted)' \in Nat /\ Cardinality(Counting)' \in Nat
    BY FiniteSets1, ConstantsAssumption, CardSubset DEF TypeOK, Uncounted, Counting
  <1>2. Cardinality(Counting)' = Cardinality(Counting) - 1
    BY FiniteSets1, FS_RemoveElement
  <1>3. Cardinality(Uncounted) <= Cardinality(Uncounted)' + 1
    BY <1>1, CardPlusOne
  <1>4. Uncounted \subseteq Uncounted' => Cardinality(Uncounted) <= Cardinality(Uncounted)'
    BY <1>1, CardSubset
  <1> QED BY <1>1, <1>2, <1>3, <1>4, FiniteSets1 DEF DebtKept

\* The steps that neither count nor insert.
LEMMA DebtOther ==
    ASSUME TypeInv, TypeInv', [Next]_vars, \A w \in Workers : ~ commit_insert(w) /\ ~ commit_update(w)
    PROVE  DebtKept
  <1>0. TypeOK /\ TypeOK' /\ links' = links
    BY OtherRows DEF TypeInv, CountsKept
  <1>00. \A h \in Hits : Linked(h)' <=> Linked(h)
    BY <1>0 DEF Linked
  <1>1. ASSUME NEW w \in Workers, NEW h \in Hits, handle_malformed(w, h) \/ handle_redelivered(w, h) PROVE DebtKept
    <2>1. pc' = pc /\ hit' = hit /\ duplicates <= duplicates'
      BY <1>0, <1>1, DeliveredTypes DEF handle_malformed, handle_redelivered, transaction
    <2>2. Counting' = Counting
      BY <2>1 DEF Counting
    <2>3. Uncounted' = Uncounted
      BY <1>00, <2>1, <2>2 DEF Uncounted
    <2> QED BY <1>0, <2>1, <2>2, <2>3, DebtSame
  <1>2. ASSUME NEW w \in Workers, NEW h \in Hits, handle(w, h) PROVE DebtKept
    <2>1. /\ pc[w] = "idle" /\ pc'[w] = "guarded" /\ hit'[w] = h /\ ~ Linked(h)
          /\ \A v \in Workers \ {w} : pc'[v] = pc[v] /\ hit'[v] = hit[v]
      BY <1>0, <1>2 DEF handle, Delivered, TypeOK
    <2>2. Counting' = Counting \cup {w} /\ w \notin Counting
      BY <2>1 DEF Counting
    <2>3. Uncounted' = Uncounted \cup {h}
      <3>1. \A k \in Hits : (\E v \in Counting' : hit'[v] = k) <=> (k = h \/ \E v \in Counting : hit[v] = k)
        BY <2>1, <2>2, CountingWorkers
      <3> QED BY <1>00, <2>1, <3>1 DEF Uncounted
    <2>4. duplicates' = duplicates + 1 \/ (duplicates' = duplicates /\ h \notin Uncounted)
      BY <1>2 DEF handle, Delivered, Uncounted, Counting
    <2>5. Cardinality(Counting)' = Cardinality(Counting) + 1
      BY <1>0, <2>2, FiniteSets1, FS_AddElement
    <2>6. Cardinality(Uncounted)' = IF h \in Uncounted THEN Cardinality(Uncounted) ELSE Cardinality(Uncounted) + 1
      BY <1>0, <2>3, FiniteSets1, FS_AddElement
    <2> QED BY <1>0, <2>4, <2>5, <2>6, FiniteSets1 DEF DebtKept
  <1>3. ASSUME NEW w \in Workers, upsert_inserts(w) \/ upsert_updates(w) PROVE DebtKept
    <2>1. Counting' = Counting /\ hit' = hit /\ duplicates' = duplicates
      BY <1>0, <1>3 DEF upsert_inserts, upsert_updates, Counting, counters, TypeOK
    <2>2. Uncounted' = Uncounted
      BY <1>00, <2>1 DEF Uncounted
    <2> QED BY <1>0, <2>1, <2>2, DebtSame DEF TypeOK
  <1>4. ASSUME NEW w \in Workers, publish(w) \/ fail(w) PROVE DebtKept
    <2>1. duplicates' = duplicates /\ pc'[w] = "idle" /\ \A v \in Workers \ {w} : pc'[v] = pc[v] /\ hit'[v] = hit[v]
      BY <1>0, <1>4 DEF publish, fail, Leave, counters, TypeOK
    <2>2. Counting' = Counting \ {w}
      BY <2>1 DEF Counting
    <2>3. CASE w \in Counting
      <3>1. Uncounted \subseteq Uncounted' \cup {hit[w]}
        BY <1>00, <2>1, <2>2, CountingWorkers DEF Uncounted
      <3> QED BY <1>0, <2>1, <2>2, <2>3, <3>1, DebtLeaves
    <2>4. CASE w \notin Counting
      <3>1. Counting' = Counting
        BY <2>2, <2>4
      <3>2. Uncounted' = Uncounted
        BY <1>00, <2>1, <2>4, <3>1 DEF Uncounted, Counting
      <3> QED BY <1>0, <2>1, <3>1, <3>2, DebtSame DEF TypeOK
    <2> QED BY <2>3, <2>4
  <1>5. ASSUME pc' = pc /\ hit' = hit /\ duplicates' = duplicates PROVE DebtKept
    <2>1. Counting' = Counting
      BY <1>5 DEF Counting
    <2>2. Uncounted' = Uncounted
      BY <1>00, <1>5, <2>1 DEF Uncounted
    <2> QED BY <1>0, <1>5, <2>1, <2>2, DebtSame DEF TypeOK
  <1>6. ASSUME NEW a \in AlertIds, acknowledge(a) \/ close(a) \/ reopen(a) PROVE DebtKept
    BY <1>5, <1>6 DEF acknowledge, close, reopen, transition, transaction
  <1>7. ASSUME UNCHANGED vars PROVE DebtKept
    BY <1>5, <1>7 DEF vars, transaction, counters
  <1>8. ASSUME NEW t \in Triagers, TriagerStep(t) PROVE DebtKept
    BY <1>5, <1>8 DEF TriagerStep, assemble, persist_completed, persist_unavailable, triage_fails,
       transaction, counters
  <1> QED BY <1>1, <1>2, <1>3, <1>4, <1>6, <1>7, <1>8 DEF Next, WorkerStep

\* A commit ends the counting of its worker and links its hit.
LEMMA DebtCommit ==
    ASSUME TypeInv, TypeInv', NEW w \in Workers, pc[w] \in {"inserted", "updated"},
           pc'[w] \in {"committed", "idle"}, duplicates' = duplicates,
           \A v \in Workers \ {w} : pc'[v] = pc[v] /\ hit'[v] = hit[v],
           \A h \in Hits : Linked(h)' => Linked(h) \/ h = hit[w]
    PROVE  /\ DebtKept
           /\ Linked(hit[w]) =>
                Cardinality(Counting)' + Cardinality(Uncounted) + 1 <= Cardinality(Counting) + Cardinality(Uncounted)'
  <1>1. w \in Counting /\ Counting' = Counting \ {w}
    BY DEF Counting
  <1>2. ASSUME NEW h \in Uncounted, h # hit[w] PROVE h \in Uncounted'
    <2>1. h \in Hits /\ ~ Linked(h)' /\ \E v \in Counting : hit[v] = h
      BY <1>2 DEF Uncounted
    <2>2. PICK v \in Counting : hit[v] = h
      BY <2>1
    <2>3. v \in Counting' /\ hit'[v] = h
      BY <1>1, <1>2, <2>2, CountingWorkers
    <2> QED BY <2>1, <2>3 DEF Uncounted
  <1>3. Linked(hit[w]) => hit[w] \notin Uncounted
    BY DEF Uncounted
  <1>4. Uncounted \subseteq Uncounted' \cup {hit[w]} /\ (Linked(hit[w]) => Uncounted \subseteq Uncounted')
    BY <1>2, <1>3
  <1> QED BY <1>1, <1>4, DebtLeaves DEF TypeInv

LEMMA Shifted ==
    ASSUME NEW x \in Nat, NEW y \in Nat, NEW z \in Nat, x <= y + z PROVE 1 + x <= 1 + y + z
    OBVIOUS

\* One handler more is paid by a duplicate or by an uncounted hit.
LEMMA DebtArithmetic ==
    ASSUME NEW x \in Nat, NEW y \in Nat, NEW d \in Nat, NEW p \in Nat, NEW q \in Nat, NEW e \in Nat,
           p + y + d <= x + q + e, x <= d + y
    PROVE  p <= e + q
    OBVIOUS

LEMMA LinkInit == Init => LinkInv
  <1> SUFFICES ASSUME Init PROVE LinkInv
    OBVIOUS
  <1>1. Counting = {} /\ Uncounted = {}
    BY DEF Init, Counting, Uncounted
  <1> QED BY <1>1, FS_EmptySet DEF Init, LinkInv, LinksCounted, EveryCountPaid, NothingOwed

LEMMA LinkStep == TypeInv /\ TypeInv' /\ LockInv /\ CountInv /\ LinkInv /\ [Next]_vars => LinkInv'
  <1> SUFFICES ASSUME TypeInv, TypeInv', LockInv, CountInv, LinkInv, [Next]_vars PROVE LinkInv'
    OBVIOUS
  <1>0. TypeOK /\ TypeOK'
    BY DEF TypeInv
  <1> DEFINE c == Cardinality(Counting)
             u == Cardinality(Uncounted)
  <1>t. /\ c \in Nat /\ u \in Nat /\ duplicates \in Nat
        /\ \A a \in AlertIds : Cardinality(links[a]) \in Nat /\ occurrence_count[a] \in Nat /\ IsFiniteSet(links[a])
    BY <1>0, FiniteSets1
  <1>tt. c' \in Nat /\ u' \in Nat /\ duplicates' \in Nat
    BY <1>0, ConstantsAssumption, CardSubset DEF TypeOK, Counting, Uncounted
  <1>i. /\ \A a \in AlertIds : Cardinality(links[a]) <= occurrence_count[a]
        /\ \A a \in AlertIds : occurrence_count[a] + c <= Cardinality(links[a]) + duplicates + u
        /\ c <= duplicates + u
    BY DEF LinkInv, LinksCounted, EveryCountPaid, NothingOwed
  <1>g. ASSUME /\ \A a \in AlertIds : Cardinality(links'[a]) <= occurrence_count'[a]
               /\ \A a \in AlertIds : occurrence_count'[a] + c' <= Cardinality(links'[a]) + duplicates' + u'
               /\ c' <= duplicates' + u'
        PROVE LinkInv'
    BY <1>g DEF LinkInv, LinksCounted, EveryCountPaid, NothingOwed
  <1>d. ASSUME DebtKept PROVE c' + u + duplicates <= c + u' + duplicates'
    BY <1>d DEF DebtKept
  <1> HIDE DEF c, u
  <1>k. ASSUME DebtKept, NEW a \in AlertIds, occurrence_count'[a] = occurrence_count[a], links'[a] = links[a]
        PROVE  /\ Cardinality(links'[a]) <= occurrence_count'[a]
               /\ occurrence_count'[a] + c' <= Cardinality(links'[a]) + duplicates' + u'
    BY <1>d, <1>i, <1>k, <1>t, <1>tt
  <1>n. ASSUME DebtKept PROVE c' <= duplicates' + u'
    <2>1. c' + u + duplicates <= c + u' + duplicates' /\ c <= duplicates + u
      BY <1>d, <1>i, <1>n
    <2>2. c \in Nat /\ u \in Nat /\ duplicates \in Nat /\ c' \in Nat /\ u' \in Nat /\ duplicates' \in Nat
      BY <1>t, <1>tt
    <2> QED BY <2>1, <2>2, DebtArithmetic, ZenonT(60)
  <1>1. CASE \A w \in Workers : ~ commit_insert(w) /\ ~ commit_update(w)
    <2>1. DebtKept /\ occurrence_count' = occurrence_count /\ links' = links
      BY <1>1, DebtOther, OtherRows DEF CountsKept
    <2> QED BY <2>1, <1>g, <1>k, <1>n
  <1>2. ASSUME NEW w \in Workers, commit_insert(w) PROVE LinkInv'
    <2>1. Inserts(w)
      BY <1>2, InsertRows
    <2>2. \A h \in Hits : Linked(h)' => Linked(h) \/ h = hit[w]
      BY <2>1 DEF Inserts, SameColumns, Linked
    <2>3. DebtKept
      BY <1>0, <1>2, <2>2, DebtCommit DEF commit_insert, transaction, counters, TypeOK
    <2>4. Cardinality({hit[w]}) = 1
      BY FS_Singleton
    <2>5. ASSUME NEW a \in AlertIds
          PROVE  /\ Cardinality(links'[a]) <= occurrence_count'[a]
                 /\ occurrence_count'[a] + c' <= Cardinality(links'[a]) + duplicates' + u'
      <3>1. CASE a = alert[w]
        <4>1. occurrence_count'[a] = 1 /\ Cardinality(links'[a]) = 1
          BY <2>1, <2>4, <3>1 DEF Inserts
        <4>2. c' <= duplicates' + u'
          BY <1>n, <2>3
        <4>3. 1 + c' <= 1 + duplicates' + u'
          BY <4>2, <1>tt, Shifted, Zenon
        <4> QED BY <4>1, <4>3
      <3>2. CASE a # alert[w]
        BY <1>k, <2>1, <2>3, <3>2 DEF Inserts, SameColumns
      <3> QED BY <3>1, <3>2
    <2> QED BY <1>g, <1>n, <2>3, <2>5
  <1>3. ASSUME NEW w \in Workers, commit_update(w) PROVE LinkInv'
    <2>1. Counts(w)
      BY <1>3, UpdateRows
    <2>2. \A h \in Hits : Linked(h)' => Linked(h) \/ h = hit[w]
      BY <2>1 DEF Counts, SameColumns, Linked
    <2>3. DebtKept /\ (Linked(hit[w]) => c' + u + 1 <= c + u') /\ duplicates' = duplicates
      BY <1>0, <1>3, <2>2, DebtCommit DEF commit_update, Leave, counters, TypeOK, c, u
    <2>5. ASSUME NEW a \in AlertIds
          PROVE  /\ Cardinality(links'[a]) <= occurrence_count'[a]
                 /\ occurrence_count'[a] + c' <= Cardinality(links'[a]) + duplicates' + u'
      <3>1. CASE a = alert[w]
        <4> DEFINE l == Cardinality(links[a])
        <4>1. occurrence_count'[a] = occurrence_count[a] + 1
          BY <2>1, <3>1 DEF Counts
        <4>2. Cardinality(links'[a]) = IF hit[w] \in links[a] THEN l ELSE l + 1
          <5>1. links'[a] = links[a] \cup {hit[w]} /\ IsFiniteSet(links[a])
            BY <1>t, <2>1, <3>1 DEF Counts
          <5>2. Cardinality(links[a] \cup {hit[w]}) = IF hit[w] \in links[a] THEN l ELSE l + 1
            BY <5>1, FS_AddElement
          <5> QED BY <5>1, <5>2
        <4>3. hit[w] \in links[a] => Linked(hit[w])
          BY DEF Linked
        <4>4. l \in Nat /\ occurrence_count[a] \in Nat /\ l <= occurrence_count[a]
              /\ occurrence_count[a] + c <= l + duplicates + u
          BY <1>t, <1>i
        <4> HIDE DEF l
        <4> QED BY <1>d, <1>t, <1>tt, <2>3, <4>1, <4>2, <4>3, <4>4
      <3>2. CASE a # alert[w]
        BY <1>k, <2>1, <2>3, <3>2 DEF Counts, SameColumns
      <3> QED BY <3>1, <3>2
    <2> QED BY <1>g, <1>n, <2>3, <2>5
  <1> QED BY <1>1, <1>2, <1>3

-----------------------------------------------------------------------------
(* Triage messages *)

LEMMA MissedFinite == IsFiniteSet(Missed) /\ Cardinality(Missed) \in Nat
  <1>1. Missed \subseteq 1..MaxAlerts /\ IsFiniteSet(1..MaxAlerts)
    BY FS_Interval, ConstantsAssumption DEF Missed, AlertIds
  <1> QED BY <1>1, CardSubset

\* A step that adds no alert to the missed ones, or one with a failure.
LEMMA MissedBound ==
    ASSUME TypeOK, NEW x, Cardinality(Missed) <= failures,
           \/ Missed' \subseteq Missed /\ failures <= failures' /\ failures' \in Nat
           \/ Missed' \subseteq Missed \cup {x} /\ failures' = failures + 1
    PROVE  Cardinality(Missed') <= failures'
  <1>1. Cardinality(Missed) \in Nat /\ failures \in Nat /\ IsFiniteSet(Missed)
    BY MissedFinite DEF TypeOK
  <1>2. CASE Missed' \subseteq Missed /\ failures <= failures' /\ failures' \in Nat
    <2>1. Cardinality(Missed') <= Cardinality(Missed) /\ Cardinality(Missed') \in Nat
      BY <1>1, <1>2, CardSubset
    <2> QED BY <1>1, <1>2, <2>1
  <1>3. CASE Missed' \subseteq Missed \cup {x} /\ failures' = failures + 1
    <2>1. Cardinality(Missed') <= Cardinality(Missed) + 1
      BY <1>1, <1>3, CardPlusOne
    <2>2. Cardinality(Missed') \in Nat
      <3>1. IsFiniteSet(Missed \cup {x})
        BY <1>1, FS_AddElement
      <3> QED BY <1>3, <3>1, CardSubset
    <2> QED BY <1>1, <1>3, <2>1, <2>2
  <1> QED BY <1>2, <1>3

MissedInv == Cardinality(Missed) <= failures

LEMMA MissedInit == Init => MissedInv
  <1> SUFFICES ASSUME Init PROVE MissedInv
    OBVIOUS
  <1>1. Missed = {}
    BY DEF Init, Missed
  <1> QED BY <1>1, FS_EmptySet DEF Init, MissedInv

LEMMA MissedStep == TypeInv /\ TypeInv' /\ LockInv /\ MissedInv /\ [Next]_vars => MissedInv'
  <1> SUFFICES ASSUME TypeInv, TypeInv', LockInv, MissedInv, [Next]_vars PROVE MissedInv'
    OBVIOUS
  <1>0. TypeOK /\ TypeOK' /\ failures' \in Nat /\ failures \in Nat
    BY DEF TypeInv, TypeOK
  <1>k. ASSUME triage' = triage, failures' = failures,
               \A a \in AlertIds : state[a] = "free" => state'[a] = "free",
               \A v \in Workers : pc[v] = "committed" => pc'[v] = "committed" /\ alert'[v] = alert[v]
        PROVE MissedInv'
    <2>1. Missed' \subseteq Missed
      BY <1>k DEF Missed
    <2> QED BY <1>0, <1>k, <2>1, MissedBound DEF MissedInv
  <1>1. ASSUME NEW w \in Workers, NEW h \in Hits, handle_malformed(w, h) \/ handle_redelivered(w, h) PROVE MissedInv'
    BY <1>k, <1>1 DEF handle_malformed, handle_redelivered, rows, transaction
  <1>2. ASSUME NEW w \in Workers, NEW h \in Hits, handle(w, h) PROVE MissedInv'
    BY <1>k, <1>0, <1>2 DEF handle, Delivered, rows, TypeOK
  <1>3. ASSUME NEW w \in Workers, upsert_inserts(w) \/ upsert_updates(w) PROVE MissedInv'
    BY <1>k, <1>0, <1>3 DEF upsert_inserts, upsert_updates, rows, counters, TypeOK
  <1>4. ASSUME NEW w \in Workers, commit_insert(w) PROVE MissedInv'
    <2>1. Inserts(w)
      BY <1>4, InsertRows
    <2>2. /\ pc'[w] = "committed" /\ alert' = alert /\ triage' = triage /\ failures' = failures
          /\ \A v \in Workers : pc[v] = "committed" => pc'[v] = "committed"
      BY <1>0, <1>4 DEF commit_insert, transaction, counters, TypeOK
    <2>3. Missed' \subseteq Missed
      BY <2>1, <2>2 DEF Inserts, Missed
    <2> QED BY <1>0, <2>2, <2>3, MissedBound DEF MissedInv
  <1>5. ASSUME NEW w \in Workers, commit_update(w) PROVE MissedInv'
    BY <1>k, <1>0, <1>5 DEF commit_update, Leave, counters, TypeOK
  <1>6. ASSUME NEW w \in Workers, publish(w) PROVE MissedInv'
    <2>1. /\ state' = state /\ triage' = triage \cup {alert[w]} /\ failures' = failures
          /\ \A v \in Workers \ {w} : pc'[v] = pc[v] /\ alert'[v] = alert[v]
      BY <1>0, <1>6 DEF publish, Leave, rows, counters, TypeOK
    <2>2. Missed' \subseteq Missed
      BY <2>1 DEF Missed
    <2> QED BY <1>0, <2>1, <2>2, MissedBound DEF MissedInv
  <1>7. ASSUME NEW w \in Workers, fail(w) PROVE MissedInv'
    <2>1. /\ state' = state /\ triage' = triage /\ failures' = failures + 1
          /\ \A v \in Workers \ {w} : pc'[v] = pc[v] /\ alert'[v] = alert[v]
      BY <1>0, <1>7 DEF fail, Leave, rows, TypeOK
    <2>2. Missed' \subseteq Missed \cup {alert[w]}
      BY <2>1 DEF Missed
    <2> QED BY <1>0, <2>1, <2>2, MissedBound DEF MissedInv
  <1>8. ASSUME NEW a \in AlertIds, acknowledge(a) \/ close(a) \/ reopen(a) PROVE MissedInv'
    BY <1>k, <1>0, <1>8 DEF acknowledge, close, reopen, transition, transaction, TypeOK
  <1>9. ASSUME UNCHANGED vars PROVE MissedInv'
    BY <1>k, <1>9 DEF vars, rows, transaction, counters
  <1>10. ASSUME NEW t \in Triagers, TriagerStep(t) PROVE MissedInv'
    BY <1>k, <1>10 DEF TriagerStep, assemble, persist_completed, persist_unavailable, triage_fails,
       rows, transaction, counters
  <1> QED BY <1>1, <1>2, <1>3, <1>4, <1>5, <1>6, <1>7, <1>8, <1>9, <1>10 DEF Next, WorkerStep

-----------------------------------------------------------------------------
(* The theorems *)

IInv == TypeInv /\ LockInv /\ CountInv /\ LinkInv /\ MissedInv

\* The inductive invariant of the alerts table and its workers.
THEOREM Invariant == Spec => []IInv
  <1>1. Init => IInv
    BY TypeInit, LockInit, CountInit, LinkInit, MissedInit DEF IInv
  <1>2. IInv /\ [Next]_vars => IInv'
    <2> SUFFICES ASSUME IInv, [Next]_vars PROVE IInv'
      OBVIOUS
    <2>1. TypeInv'
      BY TypeStep DEF IInv
    <2> QED BY <2>1, LockStep, CountStep, LinkStep, MissedStep DEF IInv
  <1> QED BY <1>1, <1>2, PTL DEF Spec

\* Two alerts of one rule and entity are never open at once, whatever alerter
\* workers upsert and analysts reopen concurrently.
THEOREM OneOpenPerKeyHolds == Spec => []OneOpenPerKey
  <1>1. IInv => OneOpenPerKey
    BY DEF IInv, LockInv
  <1> QED BY <1>1, Invariant, PTL

\* The count never falls behind the linked events and runs ahead of them by at
\* most one for each duplicate delivery.
THEOREM CountTracksLinksHolds == Spec => []CountTracksLinks
  <1>1. IInv => CountTracksLinks
    <2> SUFFICES ASSUME IInv, NEW a \in AlertIds
                 PROVE  /\ occurrence_count[a] >= Cardinality(links[a])
                        /\ occurrence_count[a] <= Cardinality(links[a]) + duplicates
      BY DEF CountTracksLinks
    <2>1. TypeOK
      BY DEF IInv, TypeInv
    <2>2. /\ Cardinality(Counting) \in Nat /\ Cardinality(Uncounted) \in Nat /\ duplicates \in Nat
          /\ Cardinality(links[a]) \in Nat /\ occurrence_count[a] \in Nat
      BY <2>1, FiniteSets1
    <2>3. Cardinality(Uncounted) <= Cardinality(Counting)
      BY <2>1, UncountedFew
    <2>4. /\ Cardinality(links[a]) <= occurrence_count[a]
          /\ occurrence_count[a] + Cardinality(Counting)
                <= Cardinality(links[a]) + duplicates + Cardinality(Uncounted)
      BY DEF IInv, LinkInv, LinksCounted, EveryCountPaid
    <2> QED BY <2>2, <2>3, <2>4
  <1> QED BY <1>1, Invariant, PTL

\* The tier in the stored priority lags the count only by the hits counted during
\* the model call of the run that wrote it last: recomputing at the counts 2, 5
\* and 20 makes up for everything else, and the priority never runs ahead.
THEOREM PriorityTracksCountHolds == Spec => []PriorityTracksCount
  <1>1. IInv => PriorityTracksCount
    BY DEF IInv, CountInv
  <1> QED BY <1>1, Invariant, PTL

\* At most as many alerts miss their triage message as handlers died.
THEOREM TriageMissedOnlyByFailureHolds == Spec => []TriageMissedOnlyByFailure
  <1>1. IInv => TriageMissedOnlyByFailure
    BY DEF IInv, MissedInv, Missed, TriageMissedOnlyByFailure
  <1> QED BY <1>1, Invariant, PTL

\* No hit is counted on or linked to a closed alert until it is reopened, by no
\* worker that found it open either, and only a triage run that had read the alert
\* rewrites its priority.
THEOREM ClosedTakesNoHitsHolds == Spec => ClosedTakesNoHits
  <1> DEFINE P(a) == \/ scored_count'[a] = scored_count[a]
                     \/ \E t \in Triagers : context[t] = [alert |-> a, count |-> scored_count'[a]]
             A == \A a \in AlertIds : state[a] = "closed" =>
                     /\ state'[a] \in {"closed", "new"}
                     /\ occurrence_count'[a] = occurrence_count[a]
                     /\ links'[a] = links[a]
                     /\ P(a)
  <1>1. IInv /\ [Next]_vars => [A]_vars
    <2> SUFFICES ASSUME IInv, [Next]_vars, NEW a \in AlertIds, state[a] = "closed"
                 PROVE  /\ state'[a] \in {"closed", "new"}
                        /\ occurrence_count'[a] = occurrence_count[a]
                        /\ links'[a] = links[a] /\ P(a)
      OBVIOUS
    <2>0. TypeInv /\ LockInv
      BY DEF IInv
    <2>1. occurrence_count'[a] = occurrence_count[a] /\ links'[a] = links[a] /\ P(a)
      <3>1. ASSUME NEW w \in Workers, commit_insert(w) PROVE SameColumns(a)
        <4>1. alert[w] # a /\ Inserts(w)
          BY <2>0, <3>1, InsertRows DEF Inserts
        <4> QED BY <4>1 DEF Inserts
      <3>2. ASSUME NEW w \in Workers, commit_update(w) PROVE SameColumns(a)
        <4>1. alert[w] # a /\ Counts(w)
          BY <2>0, <3>2, UpdateRows DEF Counts, Open
        <4> QED BY <4>1 DEF Counts
      <3>3. ASSUME NEW t \in Triagers, Scores(t) PROVE P(a)
        <4>1. CASE context[t].alert = a
          <5>1. context[t] = [alert |-> context[t].alert, count |-> context[t].count]
            BY <2>0 DEF TypeInv, TypeOK
          <5> QED BY <3>3, <4>1, <5>1 DEF Scores
        <4>2. CASE context[t].alert # a
          BY <3>3, <4>2 DEF Scores, SameColumns
        <4> QED BY <4>1, <4>2
      <3>4. CASE \A w \in Workers : ~ commit_insert(w) /\ ~ commit_update(w)
        <4>1. CountsKept /\ (UNCHANGED <<scored_count, arrived>> \/ \E t \in Triagers : Scores(t))
          BY <2>0, <3>4, OtherRows
        <4> QED BY <3>3, <4>1 DEF CountsKept
      <3> QED BY <3>1, <3>2, <3>4 DEF SameColumns
    <2>2. state'[a] \in {"closed", "new"}
      <3>1. ASSUME NEW w \in Workers, WorkerStep(w) \/ fail(w) PROVE state'[a] \in {"closed", "new"}
        BY <3>1 DEF WorkerStep, fail, handle_malformed, handle_redelivered, handle, upsert_inserts,
           upsert_updates, commit_insert, commit_update, publish, rows
      <3>2. ASSUME NEW b \in AlertIds, acknowledge(b) \/ close(b) \/ reopen(b) PROVE state'[a] \in {"closed", "new"}
        BY <2>0, <3>2 DEF acknowledge, close, reopen, transition, TypeInv, TypeOK
      <3>3. ASSUME UNCHANGED vars PROVE state'[a] \in {"closed", "new"}
        BY <3>3 DEF vars, rows
      <3>4. ASSUME NEW t \in Triagers, TriagerStep(t) PROVE state'[a] \in {"closed", "new"}
        BY <3>4 DEF TriagerStep, assemble, persist_completed, persist_unavailable, triage_fails, rows
      <3> QED BY <3>1, <3>2, <3>3, <3>4 DEF Next
    <2> QED BY <2>1, <2>2
  <1> QED BY <1>1, Invariant, PTL DEF Spec, ClosedTakesNoHits

-----------------------------------------------------------------------------
(***************************************************************************)
(* Proofs about Detector, for every set of packs, rules, tenants,          *)
(* publishers, workers and messages, and every TTL.  Detector is an        *)
(* instance here, so its assumption about the constants is a hypothesis of *)
(* each result.                                                            *)
(*                                                                         *)
(* A transaction supersedes only packs that were committed before it       *)
(* (TxInv), so the last one to commit leaves its own pack active.  An      *)
(* overlay that differs from its row was read before the row changed, and  *)
(* so expires at most one TTL after the change (CacheInv).                 *)
(***************************************************************************)

CONSTANTS
    Tenants, Rules, docs, enabled_default, Publishers, ToggleInputs, Messages, event,
    Window, MinTenants, MinSamples, FractionNum, FractionDen, MaxTime, MaxPublications,
    MaxToggles, Nodes, node, Strings, casefold, StringTests, RE2, FieldKeys,
    MAX_TREE_DEPTH, MAX_LEAVES, MAX_CHILDREN, MAX_LIST_ENTRIES, MaxFailures

VARIABLES
    published_at, tx, begins, fetching, cache_disabled, cache_expires, cache_toggles,
    toggles_expire, samples, flagged, using, todo, decisions, queue, detections, toggled

Det == INSTANCE Detector

\* The instance's Cardinality and IsFiniteSet are those the theorems are about
LEMMA SameCardinality ==
    ASSUME NEW S PROVE Det!Cardinality(S) = Cardinality(S) /\ Det!IsFiniteSet(S) = IsFiniteSet(S)
<1>1. Det!Cardinality(S) = Cardinality(S)
    BY DEF Det!Cardinality, Cardinality
<1>2. Det!IsFiniteSet(S) = IsFiniteSet(S)
    BY DEF Det!IsFiniteSet, IsFiniteSet
<1> QED BY <1>1, <1>2

Toggle == {"none", "on", "off"}

\* Types
TablesTyped ==
    /\ clock \in Nat /\ begins \in Nat
    /\ status \in [Packs -> {"none", "active", "superseded"}]
    /\ published_at \in [Packs -> Nat]
    /\ rules \in [Packs -> SUBSET Rules]
    /\ toggles \in [Tenants -> [Rules -> Toggle]]
    /\ off_since \in [Tenants -> [Rules -> Nat]]
    /\ disabled \in SUBSET Rules
    /\ disabled_since \in [Rules -> Nat]
    /\ tx \in [Publishers -> [pack : Packs \cup {None}, at : Nat, superseding : SUBSET Packs, turn : Nat]]
    /\ pack \in [Detectors -> [version : Packs \cup {None}, rules : SUBSET Rules]]
    /\ fetching \in [Detectors -> Packs \cup {None}]

\* Types of what a worker holds
WorkerInv ==
    /\ cache_disabled \in [Detectors -> SUBSET Rules]
    /\ cache_expires \in [Detectors -> Nat]
    /\ cache_toggles \in [Detectors -> [Tenants -> [Rules -> Toggle]]]
    /\ toggles_expire \in [Detectors -> [Tenants -> Nat]]
    /\ pc \in [Detectors -> {"idle", "evaluate"}]
    /\ msg \in [Detectors -> Messages \cup {None}]
    /\ todo \in [Detectors -> SUBSET Rules]
    /\ hits \in [Detectors -> SUBSET Rules]
    /\ decisions \in [Detectors -> SUBSET Rules]
    /\ \A w \in Detectors : pc[w] = "evaluate" => msg[w] \in Messages

\* Transactions began before now and supersede packs that are there
TxInv ==
    /\ \A q \in Publishers : /\ tx[q].at <= begins
                             /\ \A p \in tx[q].superseding : status[p] # "none"
    /\ \A p \in Packs : published_at[p] <= begins

\* A version that a refresh reads has been committed
FetchInv == \A w \in Detectors : fetching[w] # None => status[fetching[w]] # "none"

\* An overlay that differs from the row was read before the row changed
CacheInv ==
    /\ \A w \in Detectors : cache_expires[w] <= clock + OverlayTTL
    /\ \A w \in Detectors, t \in Tenants : toggles_expire[w][t] <= clock + OverlayTTL
    /\ \A w \in Detectors, t \in Tenants, r \in Rules :
          cache_toggles[w][t][r] # toggles[t][r] => toggles_expire[w][t] <= off_since[t][r] + OverlayTTL
    /\ \A w \in Detectors, r \in Rules :
          r \in disabled \ cache_disabled[w] => cache_expires[w] <= disabled_since[r] + OverlayTTL

DetectorInv == TablesTyped /\ WorkerInv /\ TxInv /\ FetchInv /\ Det!ReaderFindsWholePack /\ CacheInv

-----------------------------------------------------------------------------
LEMMA Minimum ==
    ASSUME NEW S \in SUBSET Nat, S # {}
    PROVE  \E x \in S : \A y \in S : x <= y
<1>1. PICK x \in S : \A y \in S : ~ (<<y, x>> \in OpToRel(<, Nat))
    BY NatLessThanWellFounded, WFMin
<1>2. \A y \in S : ~ (y < x)
    BY <1>1 DEF OpToRel
<1> QED BY <1>2

\* The latest publication exists: no pack was published after the last begin
LEMMA ActivePackIsActive ==
    ASSUME TablesTyped, TxInv, Det!active_pack # None
    PROVE  Det!active_pack \in Det!ActivePacks
<1>1. Det!ActivePacks # {} /\ Det!ActivePacks \subseteq Packs
    BY DEF Det!active_pack, Det!ActivePacks
<1> DEFINE ages == {n \in Nat : \E p \in Det!ActivePacks : n = begins - published_at[p]}
<1>2. \A p \in Det!ActivePacks : published_at[p] \in Nat /\ begins - published_at[p] \in ages
    BY <1>1 DEF TablesTyped, TxInv
<1>3. ages # {} /\ ages \in SUBSET Nat
    BY <1>1, <1>2
<1> HIDE DEF ages
<1>4. PICK n \in ages : \A k \in ages : n <= k
    BY <1>3, Minimum
<1>5. PICK p \in Det!ActivePacks : n = begins - published_at[p]
    BY DEF ages
<1>6. \A o \in Det!ActivePacks : published_at[o] <= published_at[p]
    BY <1>2, <1>4, <1>5 DEF TablesTyped
<1> QED BY <1>1, <1>6 DEF Det!active_pack

LEMMA InitHolds ==
    ASSUME Det!DetectorAssumption
    PROVE  Det!Init => DetectorInv
<1> SUFFICES ASSUME Det!Init PROVE DetectorInv
    OBVIOUS
<1>1. Det!NoTx \in [pack : Packs \cup {None}, at : Nat, superseding : SUBSET Packs, turn : Nat]
    BY DEF Det!NoTx
<1>2. Det!NoPack \in [version : Packs \cup {None}, rules : SUBSET Rules] /\ Det!NoPack.version = None
    BY DEF Det!NoPack
<1>3. TablesTyped
    BY <1>1, <1>2 DEF Det!Init, TablesTyped, Toggle
<1>4. WorkerInv
    BY DEF Det!Init, WorkerInv, Toggle
<1>5. TxInv
    BY DEF Det!Init, TxInv, Det!NoTx
<1>6. FetchInv
    BY DEF Det!Init, FetchInv
<1>7. Det!ReaderFindsWholePack
    BY <1>2 DEF Det!Init, Det!ReaderFindsWholePack
<1>8. CacheInv
    BY DEF Det!Init, CacheInv, Det!DetectorAssumption
<1> QED BY <1>3, <1>4, <1>5, <1>6, <1>7, <1>8 DEF DetectorInv

-----------------------------------------------------------------------------
(* Steps that leave a part of the invariant alone *)

TablesKept == UNCHANGED <<status, published_at, rules, toggles, disabled, off_since, disabled_since>>

LEMMA FrameType ==
    ASSUME DetectorInv, TablesKept, UNCHANGED <<clock, begins, tx, pack, fetching>>
    PROVE  TablesTyped' /\ TxInv' /\ FetchInv' /\ Det!ReaderFindsWholePack'
<1>1. TablesTyped'
    BY DEF DetectorInv, TablesTyped, TablesKept
<1>2. TxInv'
    BY DEF DetectorInv, TxInv, TablesKept
<1>3. FetchInv'
    BY DEF DetectorInv, FetchInv, TablesKept
<1>4. Det!ReaderFindsWholePack'
    BY DEF DetectorInv, Det!ReaderFindsWholePack, TablesKept, Det!ActivePacks
<1> QED BY <1>1, <1>2, <1>3, <1>4

LEMMA FrameWorker ==
    ASSUME DetectorInv, UNCHANGED <<Det!caches, pc, msg, todo, hits, decisions>>
    PROVE  WorkerInv'
BY DEF DetectorInv, WorkerInv, Det!caches

LEMMA FrameCache ==
    ASSUME DetectorInv, UNCHANGED <<clock, Det!caches, toggles, disabled, off_since, disabled_since>>
    PROVE  CacheInv'
BY DEF DetectorInv, CacheInv, Det!caches

LEMMA Step_unchanged ==
    ASSUME DetectorInv, UNCHANGED Det!vars PROVE DetectorInv'
<1>1. UNCHANGED <<clock, begins, tx, pack, fetching, Det!caches, pc, msg, todo, hits, decisions>> /\ TablesKept
    BY DEF Det!vars, Det!publication, Det!tables, Det!handler, TablesKept
<1> QED BY <1>1, FrameType, FrameWorker, FrameCache DEF DetectorInv, TablesKept

-----------------------------------------------------------------------------
(* Publication and toggles *)

LEMMA Step_publish_begin ==
    ASSUME DetectorInv, NEW q \in Publishers, NEW p \in Packs, Det!publish_begin(q, p)
    PROVE  DetectorInv'
<1> DEFINE new == [pack |-> p, at |-> begins + 1, superseding |-> {}, turn |-> 0]
<1>1. /\ UNCHANGED <<clock, pack, fetching, Det!caches, pc, msg, todo, hits, decisions>> /\ TablesKept
      /\ begins' = begins + 1 /\ tx' = [tx EXCEPT ![q] = new]
    BY DEF Det!publish_begin, Det!tables, Det!handler, TablesKept
<1>2. /\ new \in [pack : Packs \cup {None}, at : Nat, superseding : SUBSET Packs, turn : Nat]
      /\ new.at = begins + 1 /\ new.superseding = {}
    BY DEF DetectorInv, TablesTyped
<1> HIDE DEF new
<1>3. TablesTyped'
    BY <1>1, <1>2 DEF DetectorInv, TablesTyped, TablesKept
<1>4. TxInv'
    BY <1>1, <1>2 DEF DetectorInv, TablesTyped, TxInv, TablesKept
<1>5. FetchInv' /\ Det!ReaderFindsWholePack'
    BY <1>1 DEF DetectorInv, FetchInv, Det!ReaderFindsWholePack, TablesKept, Det!ActivePacks
<1> QED BY <1>1, <1>3, <1>4, <1>5, FrameWorker, FrameCache DEF DetectorInv, TablesKept

LEMMA Step_publish_supersede ==
    ASSUME Det!DetectorAssumption,
           DetectorInv, NEW q \in Publishers, Det!publish_supersede(q)
    PROVE  DetectorInv'
<1> DEFINE n == Cardinality(Det!Rivals(q)) + 1
<1>1. /\ UNCHANGED <<clock, begins, pack, fetching, Det!caches, pc, msg, todo, hits, decisions>> /\ TablesKept
      /\ tx' = [tx EXCEPT ![q].superseding = Det!ActivePacks, ![q].turn = n]
    BY SameCardinality DEF Det!publish_supersede, Det!tables, Det!handler, TablesKept
<1>2. n \in Nat
    <2>1. Det!Rivals(q) \subseteq Publishers /\ IsFiniteSet(Publishers)
        BY SameCardinality DEF Det!Rivals, Det!DetectorAssumption
    <2>2. Cardinality(Det!Rivals(q)) \in Nat
        BY <2>1, FS_Subset, FS_CardinalityType
    <2> QED BY <2>2
<1> HIDE DEF n
<1>3. Det!ActivePacks \subseteq Packs /\ \A p \in Det!ActivePacks : status[p] # "none"
    BY DEF Det!ActivePacks
<1> DEFINE new == [tx[q] EXCEPT !.superseding = Det!ActivePacks, !.turn = n]
<1>4. tx[q] \in [pack : Packs \cup {None}, at : Nat, superseding : SUBSET Packs, turn : Nat]
    BY DEF DetectorInv, TablesTyped
<1>5. /\ new \in [pack : Packs \cup {None}, at : Nat, superseding : SUBSET Packs, turn : Nat]
      /\ new.at = tx[q].at /\ new.superseding = Det!ActivePacks
    BY <1>2, <1>3, <1>4
<1>6. DOMAIN tx = Publishers
    BY DEF DetectorInv, TablesTyped
<1>7. tx' = [o \in Publishers |-> tx'[o]] /\ tx'[q] = new /\ \A o \in Publishers \ {q} : tx'[o] = tx[o]
    BY <1>1, <1>6
<1> HIDE DEF new
<1>8. TablesTyped'
    BY <1>1, <1>5, <1>7 DEF DetectorInv, TablesTyped, TablesKept
<1>9. TxInv'
    BY <1>1, <1>3, <1>5, <1>7 DEF DetectorInv, TablesTyped, TxInv, TablesKept
<1>10. FetchInv' /\ Det!ReaderFindsWholePack'
    BY <1>1 DEF DetectorInv, FetchInv, Det!ReaderFindsWholePack, TablesKept, Det!ActivePacks
<1> QED BY <1>1, <1>8, <1>9, <1>10, FrameWorker, FrameCache DEF DetectorInv, TablesKept

LEMMA Step_publish_commit ==
    ASSUME Det!DetectorAssumption,
           DetectorInv, NEW q \in Publishers, Det!publish_commit(q)
    PROVE  DetectorInv'
<1> DEFINE p == tx[q].pack
<1>1. /\ UNCHANGED <<clock, begins, pack, fetching, Det!caches, pc, msg, todo, hits, decisions>>
      /\ UNCHANGED <<toggles, disabled, off_since, disabled_since>>
      /\ p # None /\ status[p] = "none"
      /\ status' = [o \in Packs |-> CASE o = p -> "active"
                                      [] o \in tx[q].superseding -> "superseded"
                                      [] OTHER -> status[o]]
      /\ published_at' = [published_at EXCEPT ![p] = tx[q].at]
      /\ rules' = [rules EXCEPT ![p] = pack_source[p].listed]
      /\ tx' = [tx EXCEPT ![q] = Det!NoTx]
    BY DEF Det!publish_commit, Det!handler
<1>2. /\ Det!NoTx \in [pack : Packs \cup {None}, at : Nat, superseding : SUBSET Packs, turn : Nat]
      /\ Det!NoTx.at = 0 /\ Det!NoTx.superseding = {}
    BY DEF Det!NoTx
<1>3. p \in Packs /\ tx[q].at \in Nat /\ tx[q].superseding \subseteq Packs /\ tx[q].at <= begins
      /\ \A o \in tx[q].superseding : status[o] # "none"
    BY <1>1 DEF DetectorInv, TablesTyped, TxInv
<1> HIDE DEF p
<1>4. /\ status' = [o \in Packs |-> status'[o]]
      /\ status'[p] = "active"
      /\ \A o \in Packs : status'[o] \in {"none", "active", "superseded"}
      /\ \A o \in Packs \ {p} : status'[o] # "none" <=> status[o] # "none"
    <2>1. status' = [o \in Packs |-> status'[o]] /\ status'[p] = "active"
        BY <1>1, <1>3
    <2>2. ASSUME NEW o \in Packs \ {p}
          PROVE  /\ status'[o] \in {"none", "active", "superseded"}
                 /\ status'[o] # "none" <=> status[o] # "none"
        <3>1. CASE o \in tx[q].superseding
            BY <1>1, <1>3, <3>1
        <3>2. CASE o \notin tx[q].superseding
            BY <1>1, <3>2 DEF DetectorInv, TablesTyped
        <3> QED BY <3>1, <3>2
    <2> QED BY <2>1, <2>2
<1>5. pack_source[p].listed \subseteq Rules
    BY <1>3 DEF Det!DetectorAssumption
<1>6. TablesTyped'
    BY <1>1, <1>2, <1>3, <1>4, <1>5 DEF DetectorInv, TablesTyped
<1>7. TxInv'
    <2>1. \A o \in Publishers : tx'[o] = IF o = q THEN Det!NoTx ELSE tx[o]
        BY <1>1 DEF DetectorInv, TablesTyped
    <2>2. \A o \in Packs : published_at'[o] = IF o = p THEN tx[q].at ELSE published_at[o]
        BY <1>1 DEF DetectorInv, TablesTyped
    <2>3. \A o \in Publishers : tx[o].superseding \subseteq Packs
        BY DEF DetectorInv, TablesTyped
    <2>4. \A o \in Packs : status[o] # "none" => status'[o] # "none"
        BY <1>4
    <2>5. ASSUME NEW o \in Publishers
          PROVE  tx'[o].at <= begins' /\ \A x \in tx'[o].superseding : status'[x] # "none"
        <3>1. CASE o = q
            BY <1>1, <1>2, <2>1, <3>1 DEF DetectorInv, TablesTyped
        <3>2. CASE o # q
            BY <1>1, <2>1, <2>3, <2>4, <3>2 DEF DetectorInv, TxInv
        <3> QED BY <3>1, <3>2
    <2>6. \A o \in Packs : published_at'[o] <= begins'
        BY <1>1, <1>3, <2>2 DEF DetectorInv, TxInv
    <2> QED BY <2>5, <2>6 DEF TxInv
<1>8. FetchInv'
    BY <1>1, <1>4 DEF DetectorInv, FetchInv, TablesTyped
<1>9. Det!ReaderFindsWholePack'
    <2>1. p \in Det!ActivePacks'
        BY <1>3, <1>4 DEF Det!ActivePacks
    <2>2. \A o \in Packs : rules'[o] = IF o = p THEN pack_source[p].listed ELSE rules[o]
        BY <1>1 DEF DetectorInv, TablesTyped
    <2>3. \A o \in Packs : status'[o] # "none" => rules'[o] = pack_source[o].listed
        BY <1>4, <2>2 DEF DetectorInv, Det!ReaderFindsWholePack
    <2> QED BY <1>1, <2>1, <2>3 DEF DetectorInv, Det!ReaderFindsWholePack
<1> QED BY <1>1, <1>6, <1>7, <1>8, <1>9, FrameWorker, FrameCache DEF DetectorInv

LEMMA Step_toggle_rule ==
    ASSUME Det!DetectorAssumption,
           DetectorInv, NEW i \in ToggleInputs, Det!toggle_rule(i[1], i[2], i[3])
    PROVE  DetectorInv'
<1> DEFINE t == i[1]  r == i[2]  v == i[3]
<1>1. t \in Tenants /\ r \in Rules /\ v \in Toggle
    BY DEF Toggle, Det!DetectorAssumption
<1>2. /\ UNCHANGED <<clock, begins, tx, pack, fetching, Det!caches, pc, msg, todo, hits, decisions>>
      /\ UNCHANGED <<status, published_at, rules, disabled, disabled_since>>
      /\ toggles' = [toggles EXCEPT ![t][r] = v]
      /\ off_since' = [off_since EXCEPT ![t][r] = clock]
    BY DEF Det!toggle_rule, Det!publication, Det!handler
<1> HIDE DEF t, r, v
<1>3. toggles' \in [Tenants -> [Rules -> Toggle]] /\ off_since' \in [Tenants -> [Rules -> Nat]]
    BY <1>1, <1>2 DEF DetectorInv, TablesTyped
<1>4. TablesTyped'
    BY <1>2, <1>3 DEF DetectorInv, TablesTyped
<1>5. TxInv' /\ FetchInv' /\ Det!ReaderFindsWholePack'
    BY <1>2 DEF DetectorInv, TxInv, FetchInv, Det!ReaderFindsWholePack, Det!ActivePacks
<1>6. \A u \in Tenants, s \in Rules :
          \/ toggles'[u][s] = toggles[u][s] /\ off_since'[u][s] = off_since[u][s]
          \/ off_since'[u][s] = clock
    BY <1>1, <1>2 DEF DetectorInv, TablesTyped
<1>7. CacheInv'
    BY <1>2, <1>6 DEF DetectorInv, CacheInv, Det!caches
<1> QED BY <1>2, <1>4, <1>5, <1>7, FrameWorker DEF DetectorInv

LEMMA Step_tick ==
    ASSUME Det!DetectorAssumption,
           DetectorInv, Det!tick PROVE DetectorInv'
<1>1. /\ UNCHANGED <<begins, tx, pack, fetching, Det!caches, pc, msg, todo, hits, decisions>> /\ TablesKept
      /\ clock' = clock + 1
    BY DEF Det!tick, Det!tables, Det!publication, Det!handler, TablesKept
<1>2. TablesTyped'
    BY <1>1 DEF DetectorInv, TablesTyped, TablesKept
<1>3. TxInv' /\ FetchInv' /\ Det!ReaderFindsWholePack'
    BY <1>1 DEF DetectorInv, TxInv, FetchInv, Det!ReaderFindsWholePack, TablesKept, Det!ActivePacks
<1>4. CacheInv'
    <2>1. \A x \in Nat : x <= clock + OverlayTTL => x <= clock' + OverlayTTL
        BY <1>1 DEF DetectorInv, TablesTyped, Det!DetectorAssumption
    <2> QED BY <1>1, <2>1 DEF DetectorInv, CacheInv, WorkerInv, TablesKept, Det!caches
<1> QED BY <1>1, <1>2, <1>3, <1>4, FrameWorker DEF DetectorInv

-----------------------------------------------------------------------------
(* A worker *)

LEMMA Step_refresh ==
    ASSUME DetectorInv, NEW w \in Detectors, Det!refresh(w)
    PROVE  DetectorInv'
<1>1. /\ UNCHANGED <<clock, begins, tx, pack, Det!caches, pc, msg, todo, hits, decisions>> /\ TablesKept
      /\ fetching' = [fetching EXCEPT ![w] = Det!active_pack] /\ Det!active_pack # None
    BY DEF Det!refresh, Det!tables, Det!publication, Det!handler, TablesKept
<1>2. Det!active_pack \in Packs /\ status[Det!active_pack] # "none"
    BY <1>1, ActivePackIsActive DEF DetectorInv, Det!ActivePacks
<1>3. TablesTyped'
    BY <1>1, <1>2 DEF DetectorInv, TablesTyped, TablesKept
<1>4. TxInv' /\ Det!ReaderFindsWholePack'
    BY <1>1 DEF DetectorInv, TxInv, Det!ReaderFindsWholePack, TablesKept, Det!ActivePacks
<1>5. FetchInv'
    BY <1>1, <1>2 DEF DetectorInv, TablesTyped, FetchInv, TablesKept
<1> QED BY <1>1, <1>3, <1>4, <1>5, FrameWorker, FrameCache DEF DetectorInv, TablesKept

LEMMA Step_install ==
    ASSUME Det!DetectorAssumption,
           DetectorInv, NEW w \in Detectors, Det!install(w)
    PROVE  DetectorInv'
<1> DEFINE new == [version |-> fetching[w], rules |-> Det!from_rows(rules[fetching[w]])]
<1>1. /\ UNCHANGED <<clock, begins, tx, Det!caches, pc, msg, todo, hits, decisions>> /\ TablesKept
      /\ fetching[w] # None /\ fetching' = [fetching EXCEPT ![w] = None] /\ pack' = [pack EXCEPT ![w] = new]
    BY DEF Det!install, Det!tables, Det!publication, Det!handler, TablesKept
<1>2. fetching[w] \in Packs /\ rules[fetching[w]] = pack_source[fetching[w]].listed
    BY <1>1 DEF DetectorInv, TablesTyped, FetchInv, Det!ReaderFindsWholePack
<1>3. /\ new \in [version : Packs \cup {None}, rules : SUBSET Rules]
      /\ new.rules = pack_source[new.version].listed \ RefusedAtLoad
    BY <1>2 DEF Det!from_rows, Det!DetectorAssumption
<1> HIDE DEF new
<1>4. TablesTyped'
    BY <1>1, <1>3 DEF DetectorInv, TablesTyped, TablesKept
<1>5. TxInv'
    BY <1>1 DEF DetectorInv, TxInv, TablesKept
<1>6. FetchInv'
    BY <1>1 DEF DetectorInv, TablesTyped, FetchInv, TablesKept
<1>7. Det!ReaderFindsWholePack'
    <2>1. \A v \in Detectors : pack'[v] = IF v = w THEN new ELSE pack[v]
        BY <1>1 DEF DetectorInv, TablesTyped
    <2> QED BY <1>1, <1>3, <2>1 DEF DetectorInv, Det!ReaderFindsWholePack, TablesKept,
               Det!ActivePacks
<1> QED BY <1>1, <1>4, <1>5, <1>6, <1>7, FrameWorker, FrameCache DEF DetectorInv, TablesKept

\* Steps of the handler that leave the tables, the pack and the caches alone
HandlerStep ==
    /\ TablesKept /\ UNCHANGED <<clock, begins, tx, pack, fetching, Det!caches>>
    /\ WorkerInv'

LEMMA HandlerStepHolds ==
    ASSUME DetectorInv, HandlerStep PROVE DetectorInv'
BY FrameType, FrameCache DEF DetectorInv, HandlerStep, TablesKept

LEMMA Step_handle ==
    ASSUME DetectorInv, NEW w \in Detectors, NEW m \in Messages, Det!handle(w, m)
    PROVE  DetectorInv'
<1>1. Det!candidates(w, m) \subseteq Rules
    BY DEF Det!candidates, DetectorInv, TablesTyped
<1>2. /\ msg' = [msg EXCEPT ![w] = m] /\ todo' = [todo EXCEPT ![w] = Det!candidates(w, m)]
      /\ hits' = [hits EXCEPT ![w] = {}] /\ decisions' = [decisions EXCEPT ![w] = {}]
      /\ pc' = [pc EXCEPT ![w] = "evaluate"] /\ UNCHANGED Det!caches
    BY DEF Det!handle
<1>3. WorkerInv'
    BY <1>1, <1>2 DEF DetectorInv, WorkerInv, Det!caches
<1>4. HandlerStep
    BY <1>3 DEF Det!handle, HandlerStep, TablesKept, Det!tables, Det!publication
<1> QED BY <1>4, HandlerStepHolds

LEMMA Step_skip ==
    ASSUME DetectorInv, NEW w \in Detectors, NEW m \in Messages, Det!skip(w, m)
    PROVE  DetectorInv'
<1>1. UNCHANGED <<Det!caches, pc, msg, todo, hits, decisions>>
    BY DEF Det!skip, Det!handler
<1>2. HandlerStep
    BY <1>1, FrameWorker DEF Det!skip, HandlerStep, TablesKept, Det!tables, Det!publication
<1> QED BY <1>2, HandlerStepHolds

LEMMA Step_publish_hit ==
    ASSUME DetectorInv, NEW w \in Detectors, NEW r \in Rules, Det!publish_hit(w, r)
    PROVE  DetectorInv'
<1>1. /\ UNCHANGED <<Det!caches, pc, msg, todo, decisions>>
      /\ hits' = [hits EXCEPT ![w] = @ \ {r}]
    BY DEF Det!publish_hit
<1>2. WorkerInv'
    BY <1>1 DEF DetectorInv, WorkerInv, Det!caches
<1>3. HandlerStep
    BY <1>2 DEF Det!publish_hit, HandlerStep, TablesKept, Det!tables, Det!publication
<1> QED BY <1>3, HandlerStepHolds

LEMMA Step_finish ==
    ASSUME DetectorInv, NEW w \in Detectors, Det!finish(w)
    PROVE  DetectorInv'
<1>1. /\ UNCHANGED <<Det!caches, todo, hits, decisions>>
      /\ pc' = [pc EXCEPT ![w] = "idle"] /\ msg' = [msg EXCEPT ![w] = None]
    BY DEF Det!finish
<1>2. WorkerInv'
    BY <1>1 DEF DetectorInv, WorkerInv, Det!caches
<1>3. HandlerStep
    BY <1>2 DEF Det!finish, HandlerStep, TablesKept, Det!tables, Det!publication
<1> QED BY <1>3, HandlerStepHolds

LEMMA Step_fail ==
    ASSUME DetectorInv, NEW w \in Detectors, Det!fail(w)
    PROVE  DetectorInv'
<1>1. /\ UNCHANGED Det!caches
      /\ pc' = [pc EXCEPT ![w] = "idle"] /\ msg' = [msg EXCEPT ![w] = None]
      /\ todo' = [todo EXCEPT ![w] = {}] /\ hits' = [hits EXCEPT ![w] = {}]
      /\ decisions' = [decisions EXCEPT ![w] = {}]
    BY DEF Det!fail
<1>2. WorkerInv'
    BY <1>1 DEF DetectorInv, WorkerInv, Det!caches
<1>3. HandlerStep
    BY <1>2 DEF Det!fail, HandlerStep, TablesKept, Det!tables, Det!publication
<1> QED BY <1>3, HandlerStepHolds

LEMMA Step_apply_runtime_disable ==
    ASSUME DetectorInv, NEW w \in Detectors, NEW r \in Rules, Det!apply_runtime_disable(w, r)
    PROVE  DetectorInv'
<1>1. /\ UNCHANGED <<clock, begins, tx, pack, fetching, cache_expires, cache_toggles, toggles_expire>>
      /\ UNCHANGED <<status, published_at, rules, toggles, off_since, pc, msg, todo, hits>>
      /\ disabled' = disabled \cup {r}
      /\ disabled_since' = [disabled_since EXCEPT ![r] = IF r \in disabled THEN @ ELSE clock]
      /\ cache_disabled' = [cache_disabled EXCEPT ![w] = @ \cup {r}]
      /\ decisions' = [decisions EXCEPT ![w] = @ \ {r}]
    BY DEF Det!apply_runtime_disable, Det!publication
<1>2. TablesTyped'
    BY <1>1 DEF DetectorInv, TablesTyped
<1>3. TxInv' /\ FetchInv' /\ Det!ReaderFindsWholePack'
    BY <1>1 DEF DetectorInv, TxInv, FetchInv, Det!ReaderFindsWholePack, Det!ActivePacks
<1>4. WorkerInv'
    BY <1>1 DEF DetectorInv, WorkerInv
<1>5. CacheInv'
    <2>1. \A s \in Rules : disabled_since'[s] = IF s = r /\ r \notin disabled THEN clock ELSE disabled_since[s]
        BY <1>1 DEF DetectorInv, TablesTyped
    <2>2. \A v \in Detectors : cache_disabled[v] \subseteq cache_disabled'[v]
        BY <1>1 DEF DetectorInv, WorkerInv
    <2>3. ASSUME NEW v \in Detectors, NEW s \in Rules, s \in disabled' \ cache_disabled'[v]
          PROVE  cache_expires'[v] <= disabled_since'[s] + OverlayTTL
        <3>1. CASE s \in disabled
            BY <1>1, <2>1, <2>2, <2>3, <3>1 DEF DetectorInv, CacheInv
        <3>2. CASE s \notin disabled
            BY <1>1, <2>1, <2>3, <3>2 DEF DetectorInv, CacheInv
        <3> QED BY <3>1, <3>2
    <2> QED BY <1>1, <2>3 DEF DetectorInv, CacheInv
<1> QED BY <1>2, <1>3, <1>4, <1>5 DEF DetectorInv

-----------------------------------------------------------------------------
(* evaluate: the rule it takes, the caches it fills *)

LEMMA EvaluatedRule ==
    ASSUME Det!DetectorAssumption,
           DetectorInv, NEW w \in Detectors, todo[w] # {}
    PROVE  (CHOOSE x \in todo[w] : \A y \in todo[w] : x <= y) \in Rules
<1>1. todo[w] \subseteq Rules /\ todo[w] \in SUBSET Nat
    BY DEF DetectorInv, WorkerInv, Det!DetectorAssumption
<1>2. \E x \in todo[w] : \A y \in todo[w] : x <= y
    BY <1>1, Minimum
<1> QED BY <1>1, <1>2

LEMMA FillCachesHolds ==
    ASSUME Det!DetectorAssumption,
           DetectorInv, NEW w \in Detectors, NEW t \in Tenants, NEW r, Det!FillCaches(w, t, r),
           UNCHANGED <<clock, toggles, disabled, off_since, disabled_since>>
    PROVE  /\ cache_disabled' \in [Detectors -> SUBSET Rules]
           /\ cache_expires' \in [Detectors -> Nat]
           /\ cache_toggles' \in [Detectors -> [Tenants -> [Rules -> Toggle]]]
           /\ toggles_expire' \in [Detectors -> [Tenants -> Nat]]
           /\ CacheInv'
<1> USE Det!DetectorAssumption
<1>1. clock \in Nat /\ clock + OverlayTTL \in Nat
    BY DEF DetectorInv, TablesTyped
<1>2. /\ cache_disabled' \in [Detectors -> SUBSET Rules] /\ cache_expires' \in [Detectors -> Nat]
      /\ \A v \in Detectors :
            \/ cache_disabled'[v] = cache_disabled[v] /\ cache_expires'[v] = cache_expires[v]
            \/ cache_disabled'[v] = disabled /\ cache_expires'[v] = clock + OverlayTTL
    <2>1. CASE clock >= cache_expires[w]
        BY <1>1, <2>1 DEF Det!FillCaches, Det!runtime_disabled, DetectorInv, TablesTyped, WorkerInv
    <2>2. CASE ~ (clock >= cache_expires[w])
        BY <1>1, <2>2 DEF Det!FillCaches, Det!runtime_disabled, DetectorInv, TablesTyped, WorkerInv
    <2> QED BY <2>1, <2>2
<1>3. /\ cache_toggles' \in [Detectors -> [Tenants -> [Rules -> Toggle]]]
      /\ toggles_expire' \in [Detectors -> [Tenants -> Nat]]
      /\ \A v \in Detectors, u \in Tenants :
            \/ cache_toggles'[v][u] = cache_toggles[v][u] /\ toggles_expire'[v][u] = toggles_expire[v][u]
            \/ cache_toggles'[v][u] = toggles[u] /\ toggles_expire'[v][u] = clock + OverlayTTL
    <2>1. CASE r \in Det!runtime_disabled(w)
        BY <2>1 DEF Det!FillCaches, DetectorInv, WorkerInv
    <2>2. CASE r \notin Det!runtime_disabled(w) /\ clock >= toggles_expire[w][t]
        <3>1. /\ cache_toggles' = [cache_toggles EXCEPT ![w][t] = toggles[t]]
              /\ toggles_expire' = [toggles_expire EXCEPT ![w][t] = clock + OverlayTTL]
            BY <2>2 DEF Det!FillCaches, Det!tenant_toggles
        <3> QED BY <1>1, <3>1 DEF DetectorInv, TablesTyped, WorkerInv
    <2>3. CASE r \notin Det!runtime_disabled(w) /\ ~ (clock >= toggles_expire[w][t])
        <3>1. /\ cache_toggles' = [cache_toggles EXCEPT ![w][t] = cache_toggles[w][t]]
              /\ toggles_expire' = [toggles_expire EXCEPT ![w][t] = toggles_expire[w][t]]
            BY <2>3 DEF Det!FillCaches, Det!tenant_toggles
        <3> QED BY <3>1 DEF DetectorInv, WorkerInv
    <2> QED BY <2>1, <2>2, <2>3
<1>4. CacheInv'
    <2>1. \A v \in Detectors : cache_expires'[v] <= clock' + OverlayTTL
        BY <1>1, <1>2 DEF DetectorInv, CacheInv
    <2>2. \A v \in Detectors, u \in Tenants : toggles_expire'[v][u] <= clock' + OverlayTTL
        <3> SUFFICES ASSUME NEW v \in Detectors, NEW u \in Tenants
                     PROVE  toggles_expire'[v][u] <= clock + OverlayTTL
            OBVIOUS
        <3>1. toggles_expire[v][u] <= clock + OverlayTTL
            BY DEF DetectorInv, CacheInv
        <3>2. toggles_expire'[v][u] \in {toggles_expire[v][u], clock + OverlayTTL}
            BY <1>3
        <3> QED BY <1>1, <3>1, <3>2
    <2>3. \A v \in Detectors, u \in Tenants, s \in Rules :
              cache_toggles'[v][u][s] # toggles'[u][s] =>
                  toggles_expire'[v][u] <= off_since'[u][s] + OverlayTTL
        BY <1>3 DEF DetectorInv, CacheInv
    <2>4. \A v \in Detectors, s \in Rules :
              s \in disabled' \ cache_disabled'[v] => cache_expires'[v] <= disabled_since'[s] + OverlayTTL
        BY <1>2 DEF DetectorInv, CacheInv
    <2> QED BY <2>1, <2>2, <2>3, <2>4 DEF CacheInv
<1> QED BY <1>2, <1>3, <1>4

LEMMA Step_evaluate ==
    ASSUME Det!DetectorAssumption,
           DetectorInv, NEW w \in Detectors, Det!evaluate(w)
    PROVE  DetectorInv'
<1> DEFINE r == CHOOSE x \in todo[w] : \A y \in todo[w] : x <= y
           t == tenant_of[msg[w]]
<1>1. /\ UNCHANGED <<clock, begins, tx, pack, fetching, pc, msg>> /\ TablesKept
      /\ pc[w] = "evaluate" /\ todo[w] # {}
      /\ Det!FillCaches(w, t, r) /\ todo' = [todo EXCEPT ![w] = @ \ {r}]
    BY DEF Det!evaluate, Det!tables, Det!publication, TablesKept
<1>2. r \in Rules
    BY <1>1, EvaluatedRule
<1>3. t \in Tenants
    BY <1>1 DEF DetectorInv, WorkerInv, Det!DetectorAssumption
<1>4. /\ hits' \in [Detectors -> SUBSET Rules]
      /\ decisions' \in [Detectors -> SUBSET Rules]
    <2>1. /\ \/ hits' = hits
             \/ hits' = [hits EXCEPT ![w] = @ \cup {r}]
             \/ hits' = [hits EXCEPT ![w] = @ \cup {}]
          /\ \/ decisions' = decisions
             \/ decisions' = [decisions EXCEPT ![w] = @ \cup {r}]
             \/ decisions' = [decisions EXCEPT ![w] = @ \cup {}]
        BY DEF Det!evaluate, Det!record
    <2> HIDE DEF r
    <2>2. hits \in [Detectors -> SUBSET Rules] /\ decisions \in [Detectors -> SUBSET Rules]
        BY DEF DetectorInv, WorkerInv
    <2>3. ASSUME NEW f \in [Detectors -> SUBSET Rules], NEW S \in SUBSET Rules
          PROVE  [f EXCEPT ![w] = @ \cup S] \in [Detectors -> SUBSET Rules]
        OBVIOUS
    <2>4. {} \in SUBSET Rules /\ {r} \in SUBSET Rules
        BY <1>2
    <2> QED BY <2>1, <2>2, <2>3, <2>4
<1> HIDE DEF r, t
<1>5. /\ cache_disabled' \in [Detectors -> SUBSET Rules]
      /\ cache_expires' \in [Detectors -> Nat]
      /\ cache_toggles' \in [Detectors -> [Tenants -> [Rules -> Toggle]]]
      /\ toggles_expire' \in [Detectors -> [Tenants -> Nat]]
      /\ CacheInv'
    BY <1>1, <1>3, FillCachesHolds DEF TablesKept
<1>6. WorkerInv'
    BY <1>1, <1>4, <1>5 DEF DetectorInv, WorkerInv
<1> QED BY <1>1, <1>5, <1>6, FrameType DEF DetectorInv

-----------------------------------------------------------------------------
LEMMA StepHolds ==
    ASSUME Det!DetectorAssumption
    PROVE  DetectorInv /\ [Det!Next]_(Det!vars) => DetectorInv'
<1> SUFFICES ASSUME DetectorInv, [Det!Next]_(Det!vars) PROVE DetectorInv'
    OBVIOUS
<1>1. CASE UNCHANGED Det!vars
    BY <1>1, Step_unchanged
<1>2. CASE \E q \in Publishers : \/ \E p \in Packs : Det!publish_begin(q, p)
                                 \/ Det!publish_supersede(q)
                                 \/ Det!publish_commit(q)
    BY <1>2, Step_publish_begin, Step_publish_supersede, Step_publish_commit
<1>3. CASE \E i \in ToggleInputs : Det!toggle_rule(i[1], i[2], i[3])
    BY <1>3, Step_toggle_rule
<1>4. CASE Det!tick
    BY <1>4, Step_tick
<1>5. CASE \E w \in Detectors : Det!WorkerStep(w) \/ Det!fail(w)
    <2>1. PICK w \in Detectors : Det!WorkerStep(w) \/ Det!fail(w)
        BY <1>5
    <2>2. CASE Det!refresh(w) \/ Det!install(w) \/ Det!evaluate(w) \/ Det!finish(w) \/ Det!fail(w)
        BY <2>2, Step_refresh, Step_install, Step_evaluate, Step_finish, Step_fail
    <2>3. CASE \E m \in Messages : Det!handle(w, m) \/ Det!skip(w, m)
        BY <2>3, Step_handle, Step_skip
    <2>4. CASE \E r \in Rules : Det!publish_hit(w, r) \/ Det!apply_runtime_disable(w, r)
        BY <2>4, Step_publish_hit, Step_apply_runtime_disable
    <2> QED BY <2>1, <2>2, <2>3, <2>4 DEF Det!WorkerStep
<1> QED BY <1>1, <1>2, <1>3, <1>4, <1>5 DEF Det!Next

(* The inductive invariant of publication, refresh, overlays and evaluation. *)
THEOREM DetectorInvariant ==
    ASSUME Det!DetectorAssumption
    PROVE  Det!Spec => []DetectorInv
BY InitHolds, StepHolds, PTL DEF Det!Spec

(* Publications that overlap or fail half way leave neither a reader without an active pack  *)
(* nor a reader or a detector with a part of one (publish, load_pack).                       *)
THEOREM ReaderFindsWholePackHolds ==
    ASSUME Det!DetectorAssumption
    PROVE  Det!Spec => []ReaderFindsWholePack
<1>1. Det!ReaderFindsWholePack => ReaderFindsWholePack
    BY DEF Det!ReaderFindsWholePack, ReaderFindsWholePack, Det!ActivePacks, ActivePacks
<1>2. DetectorInv => ReaderFindsWholePack
    BY <1>1 DEF DetectorInv
<1> QED BY <1>2, DetectorInvariant, PTL

-----------------------------------------------------------------------------
(* The action property *)

SwitchedOff(w, r) ==
    LET t == tenant_of[msg[w]] IN
    /\ toggles[t][r] = "off" => clock < off_since[t][r] + OverlayTTL
    /\ r \in disabled => clock < disabled_since[r] + OverlayTTL

\* Only evaluate finds hits
LEMMA HitsOfEvaluate ==
    ASSUME DetectorInv, [Det!Next]_(Det!vars), NEW w \in Detectors, NEW r \in hits'[w] \ hits[w]
    PROVE  /\ Det!evaluate(w)
           /\ r = CHOOSE x \in todo[w] : \A y \in todo[w] : x <= y
           /\ Det!is_enabled(w, tenant_of[msg[w]], r)
<1>0. r \in hits'[w] /\ r \notin hits[w] /\ hits \in [Detectors -> SUBSET Rules]
    BY DEF DetectorInv, WorkerInv
<1>1. ASSUME UNCHANGED Det!vars \/ Det!tick \/ \E i \in ToggleInputs : Det!toggle_rule(i[1], i[2], i[3]) PROVE FALSE
    BY <1>0, <1>1 DEF Det!vars, Det!handler, Det!tick, Det!toggle_rule
<1>2. ASSUME NEW q \in Publishers,
             Det!publish_supersede(q) \/ Det!publish_commit(q) \/ \E p \in Packs : Det!publish_begin(q, p)
      PROVE  FALSE
    BY <1>0, <1>2 DEF Det!handler, Det!publish_begin, Det!publish_supersede, Det!publish_commit
<1>6. ASSUME NEW v \in Detectors,
             \/ Det!refresh(v) \/ Det!install(v) \/ Det!finish(v)
             \/ \E m \in Messages : Det!skip(v, m)
             \/ \E s \in Rules : Det!apply_runtime_disable(v, s)
      PROVE  FALSE
    BY <1>0, <1>6 DEF Det!handler, Det!refresh, Det!install, Det!finish, Det!skip,
       Det!apply_runtime_disable
<1>7. ASSUME NEW v \in Detectors, Det!fail(v) \/ \E m \in Messages : Det!handle(v, m) PROVE FALSE
    BY <1>0, <1>7 DEF Det!fail, Det!handle
<1>8. ASSUME NEW v \in Detectors, NEW s \in Rules, Det!publish_hit(v, s) PROVE FALSE
    BY <1>0, <1>8 DEF Det!publish_hit
<1>3. PICK v \in Detectors : Det!evaluate(v)
    BY <1>1, <1>2, <1>6, <1>7, <1>8 DEF Det!Next, Det!WorkerStep
<1> DEFINE x == CHOOSE z \in todo[v] : \A y \in todo[v] : z <= y
<1>4. /\ hits' = hits \/ Det!is_enabled(v, tenant_of[msg[v]], x)
      /\ \/ hits' = hits
         \/ hits' = [hits EXCEPT ![v] = @ \cup {x}]
         \/ hits' = [hits EXCEPT ![v] = @ \cup {}]
    BY <1>3 DEF Det!evaluate
<1> HIDE DEF x
<1>5. v = w /\ r = x /\ Det!is_enabled(v, tenant_of[msg[v]], x)
    BY <1>4 DEF DetectorInv, WorkerInv
<1> QED BY <1>3, <1>5 DEF x

LEMMA HitsWithinTTL ==
    ASSUME Det!DetectorAssumption,
           DetectorInv, [Det!Next]_(Det!vars), NEW w \in Detectors, NEW r \in hits'[w] \ hits[w]
    PROVE  SwitchedOff(w, r)
<1> DEFINE t == tenant_of[msg[w]]
<1>1. Det!evaluate(w) /\ Det!is_enabled(w, t, r) /\ todo[w] # {} /\ pc[w] = "evaluate"
    BY HitsOfEvaluate DEF Det!evaluate
<1>2. r \in Rules
    BY <1>1, HitsOfEvaluate, EvaluatedRule
<1>3. t \in Tenants
    BY <1>1 DEF DetectorInv, WorkerInv, Det!DetectorAssumption
<1> HIDE DEF t
<1>4. /\ clock \in Nat /\ off_since[t][r] \in Nat /\ disabled_since[r] \in Nat
      /\ cache_expires[w] \in Nat /\ toggles_expire[w][t] \in Nat /\ OverlayTTL \in Nat
    BY <1>2, <1>3 DEF DetectorInv, TablesTyped, WorkerInv, Det!DetectorAssumption
<1>5. ASSUME toggles[t][r] = "off" PROVE clock < off_since[t][r] + OverlayTTL
    <2>1. Det!tenant_toggles(w, t)[r] # "off"
        BY <1>1 DEF Det!is_enabled
    <2>2. ~ (clock >= toggles_expire[w][t]) /\ cache_toggles[w][t][r] # toggles[t][r]
        BY <1>5, <2>1 DEF Det!tenant_toggles
    <2>3. toggles_expire[w][t] <= off_since[t][r] + OverlayTTL
        BY <1>2, <1>3, <2>2 DEF DetectorInv, CacheInv
    <2> QED BY <1>4, <2>2, <2>3
<1>6. ASSUME r \in disabled PROVE clock < disabled_since[r] + OverlayTTL
    <2>1. ~ (clock >= cache_expires[w]) /\ r \notin cache_disabled[w]
        BY <1>1, <1>6 DEF Det!is_enabled, Det!runtime_disabled
    <2>2. cache_expires[w] <= disabled_since[r] + OverlayTTL
        BY <1>2, <1>6, <2>1 DEF DetectorInv, CacheInv
    <2> QED BY <1>4, <2>1, <2>2
<1> QED BY <1>5, <1>6 DEF SwitchedOff, t

(* A hit of a rule that is switched off for the tenant, or disabled at run time, is found    *)
(* only while an overlay that was read before the change has not expired.                    *)
THEOREM SwitchedOffWithinTTLHolds ==
    ASSUME Det!DetectorAssumption
    PROVE  Det!Spec => SwitchedOffWithinTTL
<1>1. DetectorInv /\ [Det!Next]_(Det!vars) =>
          [\A w \in Detectors : \A r \in hits'[w] \ hits[w] :
              LET t == tenant_of[msg[w]] IN
              /\ toggles[t][r] = "off" => clock < off_since[t][r] + OverlayTTL
              /\ r \in disabled => clock < disabled_since[r] + OverlayTTL]_hits
    BY HitsWithinTTL DEF SwitchedOff
<1> QED BY <1>1, DetectorInvariant, PTL DEF Det!Spec, SwitchedOffWithinTTL
=============================================================================
