--------------------------- MODULE LifecycleProofs ---------------------------
(***************************************************************************)
(* Proofs about Lifecycle, for any number of replicas and tenants, any     *)
(* retention and calendar, and any number of failures.                     *)
(*                                                                         *)
(* A sweep looks at a tenant when it lists it and when it marks it; what   *)
(* carries the proofs over the steps between is that a listed tenant is    *)
(* condemned: while it is frozen, what the pipeline stores for it counts   *)
(* as late, and once it is converted its trial can never end again.        *)
(***************************************************************************)
EXTENDS Lifecycle, TLAPS

Pcs == Jobs \cup {"idle", "purge", "es", "redis", "mark", "expire", "delete", "release"}

ReplicaState ==
    [job : Jobs, pc : Pcs, outlived : BOOLEAN, todo : SUBSET Tenants, tenant : Tenants \cup {NoTenant},
     at : Nat, plan : [Tenants -> Plans], expired : SUBSET (Nat \X Nat)]

TenantRow == [status : {"active", "frozen", "purged"}, plan : Plans,
              trial_expires_at : Nat \cup {Never}, frozen_at : Nat \cup {Never}]

Tables == enrolled \cup alerted \cup {"llm_metering", "audit_log"}

TypeInv ==
    /\ now \in Nat
    /\ tenants \in [Tenants -> TenantRow]
    /\ rows \in [Tenants -> SUBSET Tables]
    /\ es \in [Tenants -> SUBSET Nat]
    /\ requires_name \in BOOLEAN /\ late \in [Tenants -> SUBSET Nat]
    /\ keys \in [Tenants -> BOOLEAN] /\ lost \in [Tenants -> BOOLEAN] /\ overlap \in [Tenants -> BOOLEAN]
    /\ lock \in [Jobs -> Replicas \cup {Free, Orphan}]
    /\ rep \in [Replicas -> ReplicaState]

(* A replica in a job whose lock did not expire under it holds that lock. *)
LockInv == \A r \in Replicas : rep[r].pc # "idle" /\ ~rep[r].outlived => lock[rep[r].job] = r

(* Where a replica is agrees with the job it is in, and only a cluster that
   accepts the wildcard lets a sweep of trial_purge past the indices. *)
PlaceOK(r) ==
    /\ rep[r].pc \in Jobs => rep[r].pc = rep[r].job
    /\ rep[r].pc \in {"purge", "es", "redis", "mark"} => rep[r].job = "trial_purge"
    /\ rep[r].pc \in {"expire", "delete"} => rep[r].job = "retention_purge"
    /\ rep[r].pc \in {"es", "redis", "mark", "delete"} => rep[r].tenant \in Tenants
    /\ rep[r].pc \in {"redis", "mark"} => ~requires_name

(* The sweep of r has listed t and is not done with it. *)
Sweeps(r, t) ==
    /\ rep[r].job = "trial_purge"
    /\ t \in rep[r].todo \/ (t = rep[r].tenant /\ rep[r].pc \in {"es", "redis", "mark"})

(* A listed tenant that is frozen is due still; one that is active was
   converted under the sweep, and no trial of it can end. *)
Condemned(t) ==
    /\ tenants[t].status = "frozen" => tenants[t].frozen_at # Never /\ tenants[t].frozen_at < now - PurgeAfter
    /\ tenants[t].status = "active" => tenants[t].trial_expires_at = Never /\ overlap[t]

SweepOK(r) == \A t \in Tenants : Sweeps(r, t) => Condemned(t)

(* The retained tables, and those the pipeline wrote to late. *)
LeftRows(t) == {"llm_metering", "audit_log"} \cup (IF late[t] = {} THEN {} ELSE alerted)

(* What a sweep has deleted of a tenant that is frozen comes back only by late
   writes of the pipeline. *)
EmptyOK(r) ==
    LET t == rep[r].tenant IN
    rep[r].pc \in {"es", "redis", "mark"} /\ tenants[t].status = "frozen" =>
        /\ "audit_log" \in rows[t] /\ rows[t] \subseteq LeftRows(t)
        /\ rep[r].pc \in {"redis", "mark"} => es[t] \subseteq late[t]
        /\ rep[r].pc = "mark" => (keys[t] => late[t] # {})

(* The indices a retention sweep is about to delete were past the retention
   when it read the clock. *)
ExpiredOK(r) ==
    /\ rep[r].at <= now
    /\ rep[r].pc = "delete" =>
         \A i \in rep[r].expired :
             rep[r].at - month_end_utc(i) > retention_days_for(rep[r].tenant, rep[r].plan[rep[r].tenant])

ReplicaInv == \A r \in Replicas : PlaceOK(r) /\ SweepOK(r) /\ EmptyOK(r) /\ ExpiredOK(r)

IInv == TypeInv /\ LockInv /\ ReplicaInv /\ PurgedKeepsRetained /\ DataLostOnlyByOverlap

-----------------------------------------------------------------------------
(* The calendar. *)

LEMMA Months ==
    ASSUME NEW day \in Nat, NEW k \in Nat, k = day \div MonthLength
    PROVE /\ index_of(day) \in Nat \X Nat
          /\ 12 * index_of(day)[1] + index_of(day)[2] = StartMonth + k
<1> DEFINE m == StartMonth - 1 + k
<1>1. m \in Nat
  BY LifecycleAssumption
<1>2. m \div 12 \in Nat /\ (m % 12) + 1 \in Nat /\ 12 * (m \div 12) + (m % 12) = m
  <2> HIDE DEF m
  <2> QED BY <1>1
<1>3. index_of(day) = <<m \div 12, (m % 12) + 1>>
  BY DEF index_of
<1>4. m + 1 = StartMonth + k
  BY LifecycleAssumption
<1> HIDE DEF m
<1> QED
  BY <1>1, <1>2, <1>3, <1>4, LifecycleAssumption

(* A day is before the end of the month its index is named after, December
   included. *)
LEMMA DayBeforeMonthEnd ==
    ASSUME NEW day \in Nat
    PROVE month_end_utc(index_of(day)) \in Int /\ day < month_end_utc(index_of(day))
<1> DEFINE k == day \div MonthLength
           i == index_of(day)
<1>1. MonthLength \in Nat \ {0} /\ StartMonth \in Nat
  BY LifecycleAssumption
<1>2. k \in Nat /\ day < (k + 1) * MonthLength
  BY <1>1
<1>3. i \in Nat \X Nat /\ 12 * i[1] + i[2] = StartMonth + k
  BY <1>2, Months
<1>4. i[1] \in Nat /\ i[2] \in Nat
  BY <1>3
<1> HIDE DEF k, i
<1>5. month_end_utc(i) = (k + 1) * MonthLength
  <2>1. CASE i[2] = 12
    <3>1. 12 * (i[1] + 1) + 1 - StartMonth = k + 1
      BY <2>1, <1>1, <1>2, <1>3, <1>4
    <3> QED
      BY <2>1, <3>1 DEF month_end_utc, first_of
  <2>2. CASE i[2] # 12
    <3>1. 12 * i[1] + (i[2] + 1) - StartMonth = k + 1
      BY <2>2, <1>1, <1>2, <1>3, <1>4
    <3> QED
      BY <2>2, <3>1 DEF month_end_utc, first_of
  <2> QED
    BY <2>1, <2>2
<1>6. (k + 1) * MonthLength \in Int
  BY <1>1, <1>2
<1> QED
  BY <1>2, <1>5, <1>6 DEF i

LEMMA RetentionType ==
    ASSUME NEW t \in Tenants, NEW p \in Plans
    PROVE retention_days_for(t, p) \in Nat
BY LifecycleAssumption DEF retention_days_for

-----------------------------------------------------------------------------
(* Moves of a replica. *)

Others(r) == \A s \in Replicas \ {r} : rep'[s] = rep[s]

LEMMA AtJobType == \A j \in Jobs : AtJob(j) \in ReplicaState
BY DEF AtJob, ReplicaState, Pcs, Plans

LEMMA NextJobType == \A j \in Jobs : next_job[j] \in Jobs
BY DEF next_job, Jobs

LEMMA FinishMoves ==
    ASSUME TypeInv, NEW r \in Replicas, Finish(r)
    PROVE /\ rep' \in [Replicas -> ReplicaState] /\ Others(r)
          /\ rep'[r].job = rep[r].job /\ rep'[r].pc = "release" /\ rep'[r].outlived = rep[r].outlived
          /\ rep'[r].todo = {} /\ rep'[r].at = 0
<1>1. rep[r] \in ReplicaState
  BY DEF TypeInv
<1>2. rep' = [rep EXCEPT ![r] = [AtJob(rep[r].job) EXCEPT !.pc = "release", !.outlived = rep[r].outlived]]
  BY DEF Finish, TypeInv
<1>3. [AtJob(rep[r].job) EXCEPT !.pc = "release", !.outlived = rep[r].outlived] \in ReplicaState
  BY <1>1 DEF AtJob, ReplicaState, Pcs, Plans
<1>4. rep'[r] = [AtJob(rep[r].job) EXCEPT !.pc = "release", !.outlived = rep[r].outlived]
  BY <1>2 DEF TypeInv
<1>5. /\ rep'[r].job = rep[r].job /\ rep'[r].pc = "release" /\ rep'[r].outlived = rep[r].outlived
      /\ rep'[r].todo = {} /\ rep'[r].at = 0
  BY <1>4 DEF AtJob
<1>6. rep' \in [Replicas -> ReplicaState] /\ Others(r)
  BY <1>2, <1>3 DEF TypeInv, Others
<1> QED
  BY <1>5, <1>6

LEMMA ProceedMoves ==
    ASSUME TypeInv, NEW r \in Replicas, Proceed(r)
    PROVE /\ rep' \in [Replicas -> ReplicaState] /\ Others(r)
          /\ rep'[r].pc = "idle" /\ rep'[r].todo = {} /\ rep'[r].at = 0
<1>1. rep[r] \in ReplicaState
  BY DEF TypeInv
<1>2. next_job[rep[r].job] \in Jobs
  BY <1>1, NextJobType DEF ReplicaState
<1>3. AtJob(next_job[rep[r].job]) \in ReplicaState
  BY <1>2, AtJobType
<1>4. rep'[r] = AtJob(next_job[rep[r].job])
  BY DEF Proceed, TypeInv
<1>5. rep'[r].pc = "idle" /\ rep'[r].todo = {} /\ rep'[r].at = 0
  BY <1>4 DEF AtJob
<1>6. rep' \in [Replicas -> ReplicaState] /\ Others(r)
  BY <1>3 DEF Proceed, TypeInv, Others
<1> QED
  BY <1>5, <1>6

LEMMA GotoMoves ==
    ASSUME TypeInv, NEW r \in Replicas, NEW l \in Pcs, Goto(r, l)
    PROVE /\ rep' \in [Replicas -> ReplicaState] /\ Others(r)
          /\ rep'[r] = [rep[r] EXCEPT !.pc = l]
          /\ rep'[r].pc = l /\ rep'[r].job = rep[r].job /\ rep'[r].outlived = rep[r].outlived
          /\ rep'[r].todo = rep[r].todo /\ rep'[r].tenant = rep[r].tenant
          /\ rep'[r].at = rep[r].at /\ rep'[r].plan = rep[r].plan /\ rep'[r].expired = rep[r].expired
<1>1. rep[r] \in ReplicaState
  BY DEF TypeInv
<1>2. rep'[r] = [rep[r] EXCEPT !.pc = l]
  BY DEF Goto, TypeInv
<1>3. [rep[r] EXCEPT !.pc = l] \in ReplicaState
  BY <1>1 DEF ReplicaState
<1>4. rep' \in [Replicas -> ReplicaState] /\ Others(r)
  BY <1>3 DEF Goto, TypeInv, Others
<1>5. /\ rep'[r].pc = l /\ rep'[r].job = rep[r].job /\ rep'[r].outlived = rep[r].outlived
      /\ rep'[r].todo = rep[r].todo /\ rep'[r].tenant = rep[r].tenant
      /\ rep'[r].at = rep[r].at /\ rep'[r].plan = rep[r].plan /\ rep'[r].expired = rep[r].expired
  BY <1>1, <1>2 DEF ReplicaState
<1> QED
  BY <1>2, <1>4, <1>5

(* Data may be deleted under the other replicas: nothing but the audit row
   comes back, of a tenant in use only what the overlap explains. *)
Shrinks ==
    /\ rows' \in [Tenants -> SUBSET Tables] /\ es' \in [Tenants -> SUBSET Nat]
    /\ keys' \in [Tenants -> BOOLEAN] /\ lost' \in [Tenants -> BOOLEAN]
    /\ late' = late
    /\ \A t \in Tenants : /\ rows'[t] \subseteq rows[t] \cup {"audit_log"}
                          /\ "audit_log" \in rows[t] => "audit_log" \in rows'[t]
                          /\ es'[t] \subseteq es[t]
                          /\ ~keys[t] => ~keys'[t]
                          /\ lost'[t] => lost[t] \/ (tenants[t].status = "active" => overlap[t])

(* One replica moves, data may shrink: the rest of the invariant follows from
   what the step says of that replica. *)
LEMMA Advance ==
    ASSUME IInv, NEW r \in Replicas, rep' \in [Replicas -> ReplicaState], Others(r),
           UNCHANGED <<now, tenants, overlap, requires_name>>, Shrinks,
           lock' \in [Jobs -> Replicas \cup {Free, Orphan}], LockInv',
           PlaceOK(r)', SweepOK(r)', EmptyOK(r)', ExpiredOK(r)'
    PROVE IInv'
<1>1. TypeInv'
  BY DEF IInv, TypeInv, Shrinks
<1>2. ASSUME NEW s \in Replicas, s # r
      PROVE PlaceOK(s)' /\ SweepOK(s)' /\ EmptyOK(s)' /\ ExpiredOK(s)'
  <2>1. rep'[s] = rep[s] /\ PlaceOK(s) /\ SweepOK(s) /\ EmptyOK(s) /\ ExpiredOK(s)
    BY <1>2 DEF Others, IInv, ReplicaInv
  <2>2. PlaceOK(s)'
    BY <2>1 DEF PlaceOK
  <2>3. SweepOK(s)'
    BY <2>1 DEF SweepOK, Sweeps, Condemned
  <2>4. EmptyOK(s)'
    BY <2>1 DEF EmptyOK, LeftRows, PlaceOK, Shrinks
  <2>5. ExpiredOK(s)'
    BY <2>1 DEF ExpiredOK
  <2> QED
    BY <2>2, <2>3, <2>4, <2>5
<1>3. ReplicaInv'
  BY <1>2 DEF ReplicaInv
<1>4. PurgedKeepsRetained'
  BY DEF IInv, PurgedKeepsRetained, Shrinks
<1>5. DataLostOnlyByOverlap'
  BY DEF IInv, DataLostOnlyByOverlap, Shrinks
<1> QED
  BY <1>1, <1>3, <1>4, <1>5 DEF IInv

LEMMA DataKept ==
    ASSUME TypeInv, UNCHANGED data
    PROVE Shrinks
BY DEF TypeInv, data, Shrinks

(* A replica that is idle or about to release its lock has no duties left. *)
LEMMA NoDuties ==
    ASSUME IInv, NEW r \in Replicas, rep'[r].pc \in {"idle", "release"}, rep'[r].todo = {}, rep'[r].at = 0,
           now' = now
    PROVE PlaceOK(r)' /\ SweepOK(r)' /\ EmptyOK(r)' /\ ExpiredOK(r)'
<1>1. PlaceOK(r)'
  BY DEF PlaceOK, Jobs
<1>2. SweepOK(r)'
  BY DEF SweepOK, Sweeps
<1>3. EmptyOK(r)'
  BY DEF EmptyOK
<1>4. ExpiredOK(r)'
  BY DEF IInv, TypeInv, ExpiredOK
<1> QED
  BY <1>1, <1>2, <1>3, <1>4

(* A replica stays in its job and its lock is left alone. *)
LEMMA LockKept ==
    ASSUME IInv, NEW r \in Replicas, Others(r), lock' = lock,
           rep[r].pc # "idle", rep'[r].job = rep[r].job, rep'[r].outlived = rep[r].outlived
    PROVE LockInv' /\ lock' \in [Jobs -> Replicas \cup {Free, Orphan}]
BY DEF IInv, TypeInv, LockInv, Others

(* A job ends, by itself or by an exception. *)
LEMMA Finishes ==
    ASSUME IInv, NEW r \in Replicas, Finish(r), rep[r].pc # "idle",
           UNCHANGED <<now, tenants, overlap, requires_name, lock>>, Shrinks
    PROVE IInv'
<1>1. TypeInv
  BY DEF IInv
<1>2. /\ rep' \in [Replicas -> ReplicaState] /\ Others(r)
      /\ rep'[r].job = rep[r].job /\ rep'[r].pc = "release" /\ rep'[r].outlived = rep[r].outlived
      /\ rep'[r].todo = {} /\ rep'[r].at = 0
  BY <1>1, FinishMoves
<1>3. PlaceOK(r)' /\ SweepOK(r)' /\ EmptyOK(r)' /\ ExpiredOK(r)'
  BY <1>2, NoDuties
<1>4. LockInv' /\ lock' \in [Jobs -> Replicas \cup {Free, Orphan}]
  BY <1>2, LockKept
<1> QED
  BY <1>2, <1>3, <1>4, Advance

-----------------------------------------------------------------------------
(* The lock. *)

LEMMA AcquireInv ==
    ASSUME IInv, NEW r \in Replicas, acquire_job_lock(r)
    PROVE IInv'
<1> DEFINE j == rep[r].job
<1>1. TypeInv /\ j \in Jobs /\ rep[r].pc = "idle" /\ UNCHANGED <<now, tenants, data, overlap, requires_name>>
  BY DEF IInv, TypeInv, ReplicaState, acquire_job_lock, frame
<1>2. Shrinks
  BY <1>1, DataKept
<1>3. \A s \in Replicas : rep[s].pc # "idle" /\ ~rep[s].outlived /\ rep[s].job = j => lock[j] = s
  BY DEF IInv, LockInv
<1>4. Free \notin Replicas /\ Orphan \notin Replicas
  BY LifecycleAssumption
<1>5. CASE lock[j] = Free /\ lock' = [lock EXCEPT ![j] = r] /\ Goto(r, j)
  <2>1. j \in Pcs
    BY <1>1 DEF Pcs
  <2>2. /\ rep' \in [Replicas -> ReplicaState] /\ Others(r)
        /\ rep'[r].pc = j /\ rep'[r].job = j /\ rep'[r].outlived = rep[r].outlived
        /\ rep'[r].todo = rep[r].todo /\ rep'[r].at = rep[r].at
    BY <1>1, <1>5, <2>1, GotoMoves
  <2>3. lock' \in [Jobs -> Replicas \cup {Free, Orphan}] /\ lock'[j] = r
        /\ \A k \in Jobs \ {j} : lock'[k] = lock[k]
    BY <1>1, <1>5 DEF TypeInv
  <2>4. LockInv'
    <3> SUFFICES ASSUME NEW s \in Replicas, rep'[s].pc # "idle", ~rep'[s].outlived
                 PROVE lock'[rep'[s].job] = s
      BY DEF LockInv
    <3>1. CASE s = r
      BY <3>1, <2>2, <2>3
    <3>2. CASE s # r
      <4>1. rep'[s] = rep[s] /\ rep[s].job \in Jobs
        BY <3>2, <2>2, <1>1 DEF Others, TypeInv, ReplicaState
      <4>2. rep[s].job # j
        BY <4>1, <1>3, <1>4, <1>5
      <4>3. lock[rep[s].job] = s
        BY <4>1 DEF IInv, LockInv
      <4> QED
        BY <4>1, <4>2, <4>3, <2>3
    <3> QED
      BY <3>1, <3>2
  <2>5. PlaceOK(r)' /\ SweepOK(r)' /\ EmptyOK(r)' /\ ExpiredOK(r)'
    <3>1. SweepOK(r) /\ ExpiredOK(r)
      BY DEF IInv, ReplicaInv
    <3>2. j \notin {"purge", "es", "redis", "mark", "expire", "delete"}
      BY <1>1 DEF Jobs
    <3>3. PlaceOK(r)'
      BY <2>2, <3>2 DEF PlaceOK
    <3>4. SweepOK(r)'
      BY <1>1, <2>2, <3>1, <3>2 DEF SweepOK, Sweeps, Condemned
    <3>5. EmptyOK(r)'
      BY <2>2, <3>2 DEF EmptyOK
    <3>6. ExpiredOK(r)'
      BY <1>1, <2>2, <3>1, <3>2 DEF ExpiredOK
    <3> QED
      BY <3>3, <3>4, <3>5, <3>6
  <2> QED
    BY <1>1, <1>2, <2>2, <2>3, <2>4, <2>5, Advance
<1>6. CASE Proceed(r) /\ (lock' = lock \/ (lock[j] = Free /\ lock' = [lock EXCEPT ![j] = Orphan]))
  <2>1. /\ rep' \in [Replicas -> ReplicaState] /\ Others(r)
        /\ rep'[r].pc = "idle" /\ rep'[r].todo = {} /\ rep'[r].at = 0
    BY <1>1, <1>6, ProceedMoves
  <2>2. lock' \in [Jobs -> Replicas \cup {Free, Orphan}]
        /\ \A k \in Jobs : lock'[k] = lock[k] \/ (k = j /\ lock[j] = Free)
    BY <1>1, <1>6 DEF TypeInv
  <2>3. LockInv'
    <3> SUFFICES ASSUME NEW s \in Replicas, rep'[s].pc # "idle", ~rep'[s].outlived
                 PROVE lock'[rep'[s].job] = s
      BY DEF LockInv
    <3>1. s # r
      BY <2>1
    <3>2. rep'[s] = rep[s] /\ rep[s].job \in Jobs
      BY <3>1, <2>1, <1>1 DEF Others, TypeInv, ReplicaState
    <3>3. lock[rep[s].job] = s
      BY <3>2 DEF IInv, LockInv
    <3> QED
      BY <3>2, <3>3, <2>2, <1>4
  <2>4. PlaceOK(r)' /\ SweepOK(r)' /\ EmptyOK(r)' /\ ExpiredOK(r)'
    BY <1>1, <2>1, NoDuties
  <2> QED
    BY <1>1, <1>2, <2>1, <2>2, <2>3, <2>4, Advance
<1> QED
  BY <1>5, <1>6 DEF acquire_job_lock

(* Compare and delete leaves the lock of another replica alone. *)
LEMMA ReleaseInv ==
    ASSUME IInv, NEW r \in Replicas, release_job_lock(r)
    PROVE IInv'
<1> DEFINE j == rep[r].job
<1>1. TypeInv /\ j \in Jobs /\ UNCHANGED <<now, tenants, data, overlap, requires_name>> /\ Proceed(r)
  BY DEF IInv, TypeInv, ReplicaState, release_job_lock, frame
<1>2. Shrinks
  BY <1>1, DataKept
<1>3. /\ rep' \in [Replicas -> ReplicaState] /\ Others(r)
      /\ rep'[r].pc = "idle" /\ rep'[r].todo = {} /\ rep'[r].at = 0
  BY <1>1, ProceedMoves
<1>4. lock' \in [Jobs -> Replicas \cup {Free, Orphan}]
      /\ \A k \in Jobs : lock'[k] = lock[k] \/ (k = j /\ lock[j] = r)
  <2>1. CASE lock' = [lock EXCEPT ![j] = IF @ = r THEN Free ELSE @]
    BY <1>1, <2>1 DEF TypeInv
  <2>2. CASE lock' = [lock EXCEPT ![j] = IF @ = r THEN Orphan ELSE @]
    BY <1>1, <2>2 DEF TypeInv
  <2> QED
    BY <2>1, <2>2 DEF release_job_lock
<1>5. LockInv'
  <2> SUFFICES ASSUME NEW s \in Replicas, rep'[s].pc # "idle", ~rep'[s].outlived
               PROVE lock'[rep'[s].job] = s
    BY DEF LockInv
  <2>1. s # r
    BY <1>3
  <2>2. rep'[s] = rep[s] /\ rep[s].job \in Jobs
    BY <2>1, <1>3, <1>1 DEF Others, TypeInv, ReplicaState
  <2>3. lock[rep[s].job] = s
    BY <2>2 DEF IInv, LockInv
  <2> QED
    BY <2>1, <2>2, <2>3, <1>4
<1>6. PlaceOK(r)' /\ SweepOK(r)' /\ EmptyOK(r)' /\ ExpiredOK(r)'
  BY <1>1, <1>3, NoDuties
<1> QED
  BY <1>1, <1>2, <1>3, <1>4, <1>5, <1>6, Advance

(* A lock expires: its owner, if it has one, is marked as outliving it. *)
LEMMA ExpiresInv ==
    ASSUME IInv, NEW j \in Jobs, lock_expires(j)
    PROVE IInv'
<1>1. TypeInv /\ UNCHANGED <<now, tenants, data, overlap, requires_name>> /\ lock' = [lock EXCEPT ![j] = Free]
  BY DEF IInv, lock_expires, frame
<1>2. Free \notin Replicas /\ Orphan \notin Replicas
  BY LifecycleAssumption
<1>3. lock' \in [Jobs -> Replicas \cup {Free, Orphan}] /\ \A k \in Jobs \ {j} : lock'[k] = lock[k]
  BY <1>1 DEF TypeInv
<1>4. CASE lock[j] = Orphan /\ rep' = rep
  <2>1. TypeInv'
    BY <1>1, <1>3, <1>4 DEF TypeInv, data
  <2>2. LockInv'
    BY <1>1, <1>2, <1>3, <1>4 DEF IInv, LockInv, TypeInv, ReplicaState
  <2>3. ReplicaInv'
    BY <1>1, <1>4 DEF IInv, ReplicaInv, PlaceOK, SweepOK, Sweeps, Condemned, EmptyOK, LeftRows, ExpiredOK, data
  <2>4. PurgedKeepsRetained' /\ DataLostOnlyByOverlap'
    BY <1>1 DEF IInv, PurgedKeepsRetained, DataLostOnlyByOverlap, data
  <2> QED
    BY <2>1, <2>2, <2>3, <2>4 DEF IInv
<1>5. ASSUME NEW r \in Replicas, lock[j] = r, rep' = [rep EXCEPT ![r].outlived = TRUE]
      PROVE IInv'
  <2>1. rep[r] \in ReplicaState
    BY <1>1 DEF TypeInv
  <2>2. rep'[r] = [rep[r] EXCEPT !.outlived = TRUE] /\ Others(r)
    BY <1>1, <1>5 DEF TypeInv, Others
  <2>3. [rep[r] EXCEPT !.outlived = TRUE] \in ReplicaState
    BY <2>1 DEF ReplicaState
  <2>4. rep' \in [Replicas -> ReplicaState]
    BY <1>1, <1>5, <2>3 DEF TypeInv
  <2>5. /\ rep'[r].pc = rep[r].pc /\ rep'[r].job = rep[r].job /\ rep'[r].outlived
        /\ rep'[r].todo = rep[r].todo /\ rep'[r].tenant = rep[r].tenant
        /\ rep'[r].at = rep[r].at /\ rep'[r].plan = rep[r].plan /\ rep'[r].expired = rep[r].expired
    BY <2>1, <2>2 DEF ReplicaState
  <2>6. LockInv'
    <3> SUFFICES ASSUME NEW s \in Replicas, rep'[s].pc # "idle", ~rep'[s].outlived
                 PROVE lock'[rep'[s].job] = s
      BY DEF LockInv
    <3>1. s # r
      BY <2>5
    <3>2. rep'[s] = rep[s] /\ rep[s].job \in Jobs
      BY <3>1, <2>2, <1>1 DEF Others, TypeInv, ReplicaState
    <3>3. lock[rep[s].job] = s
      BY <3>2 DEF IInv, LockInv
    <3> QED
      BY <3>1, <3>2, <3>3, <1>3, <1>5
  <2>7. PlaceOK(r) /\ SweepOK(r) /\ EmptyOK(r) /\ ExpiredOK(r)
    BY DEF IInv, ReplicaInv
  <2>8. PlaceOK(r)' /\ SweepOK(r)' /\ EmptyOK(r)' /\ ExpiredOK(r)'
    <3>1. PlaceOK(r)'
      BY <1>1, <2>5, <2>7 DEF PlaceOK
    <3>2. SweepOK(r)'
      BY <1>1, <2>5, <2>7 DEF SweepOK, Sweeps, Condemned
    <3>3. EmptyOK(r)'
      BY <1>1, <2>5, <2>7 DEF EmptyOK, LeftRows, data
    <3>4. ExpiredOK(r)'
      BY <1>1, <2>5, <2>7 DEF ExpiredOK
    <3> QED
      BY <3>1, <3>2, <3>3, <3>4
  <2> QED
    BY <1>1, <1>3, <2>2, <2>4, <2>6, <2>8, DataKept, Advance
<1> QED
  BY <1>4, <1>5 DEF lock_expires

LEMMA CrashInv ==
    ASSUME IInv, NEW r \in Replicas, crash(r)
    PROVE IInv'
<1>1. TypeInv /\ UNCHANGED <<now, tenants, data, overlap, requires_name>>
  BY DEF IInv, crash, frame
<1>2. "trial_freeze" \in Jobs
  BY DEF Jobs
<1>3. AtJob("trial_freeze") \in ReplicaState
  BY <1>2, AtJobType
<1>4. rep'[r] = AtJob("trial_freeze") /\ rep' \in [Replicas -> ReplicaState] /\ Others(r)
  BY <1>1, <1>3 DEF crash, TypeInv, Others
<1>5. rep'[r].pc = "idle" /\ rep'[r].todo = {} /\ rep'[r].at = 0
  BY <1>4 DEF AtJob
<1>6. lock' \in [Jobs -> Replicas \cup {Free, Orphan}] /\ \A k \in Jobs : lock'[k] = lock[k] \/ lock[k] = r
  BY <1>1 DEF crash, TypeInv
<1>7. LockInv'
  <2> SUFFICES ASSUME NEW s \in Replicas, rep'[s].pc # "idle", ~rep'[s].outlived
               PROVE lock'[rep'[s].job] = s
    BY DEF LockInv
  <2>1. s # r
    BY <1>5
  <2>2. rep'[s] = rep[s] /\ rep[s].job \in Jobs
    BY <2>1, <1>4, <1>1 DEF Others, TypeInv, ReplicaState
  <2>3. lock[rep[s].job] = s
    BY <2>2 DEF IInv, LockInv
  <2> QED
    BY <2>1, <2>2, <2>3, <1>6
<1>8. PlaceOK(r)' /\ SweepOK(r)' /\ EmptyOK(r)' /\ ExpiredOK(r)'
  BY <1>1, <1>5, NoDuties
<1> QED
  BY <1>1, <1>4, <1>6, <1>7, <1>8, DataKept, Advance

-----------------------------------------------------------------------------
(* The sweep of trial_purge. *)

LEMMA ListDueInv ==
    ASSUME IInv, NEW r \in Replicas, list_due(r)
    PROVE IInv'
<1>1. TypeInv /\ rep[r].pc = "trial_purge" /\ UNCHANGED <<now, tenants, data, lock, overlap, requires_name>>
  BY DEF IInv, list_due, frame
<1>2. Shrinks
  BY <1>1, DataKept
<1>3. CASE Finish(r)
  BY <1>1, <1>2, <1>3, Finishes
<1>4. CASE rep' = [rep EXCEPT ![r].pc = "purge", ![r].todo = {t \in Tenants : purge_due(t)}]
  <2> DEFINE due == {t \in Tenants : purge_due(t)}
             next == [rep[r] EXCEPT !.pc = "purge", !.todo = due]
  <2>1. rep[r] \in ReplicaState
    BY <1>1 DEF TypeInv
  <2>2. rep'[r] = next /\ Others(r)
    BY <1>1, <1>4 DEF TypeInv, Others
  <2>3. next \in ReplicaState
    BY <2>1 DEF ReplicaState, Pcs
  <2>4. rep' \in [Replicas -> ReplicaState]
    BY <1>1, <1>4, <2>3 DEF TypeInv
  <2>5. /\ rep'[r].pc = "purge" /\ rep'[r].job = rep[r].job /\ rep'[r].outlived = rep[r].outlived
        /\ rep'[r].todo = due /\ rep'[r].at = rep[r].at
    BY <2>1, <2>2 DEF ReplicaState
  <2>6. PlaceOK(r) /\ ExpiredOK(r)
    BY DEF IInv, ReplicaInv
  <2>7. PlaceOK(r)'
    BY <1>1, <2>5, <2>6 DEF PlaceOK, Jobs
  <2>8. SweepOK(r)'
    BY <1>1, <2>5 DEF SweepOK, Sweeps, Condemned, purge_due
  <2>9. EmptyOK(r)' /\ ExpiredOK(r)'
    BY <1>1, <2>5, <2>6 DEF EmptyOK, ExpiredOK
  <2>10. LockInv' /\ lock' \in [Jobs -> Replicas \cup {Free, Orphan}]
    BY <1>1, <2>2, <2>5, LockKept
  <2> QED
    BY <1>1, <1>2, <2>2, <2>4, <2>7, <2>8, <2>9, <2>10, Advance
<1> QED
  BY <1>3, <1>4 DEF list_due, Abort

LEMMA SweepDoneInv ==
    ASSUME IInv, NEW r \in Replicas, sweep_done(r)
    PROVE IInv'
<1>1. TypeInv /\ rep[r].pc # "idle" /\ UNCHANGED <<now, tenants, data, lock, overlap, requires_name>> /\ Finish(r)
  BY DEF IInv, sweep_done, frame
<1> QED
  BY <1>1, DataKept, Finishes

LEMMA Deletable == deletable = Tables \ {"llm_metering", "audit_log"} /\ "audit_log" \in Tables
BY DEF deletable, registry, Tables, enrolled, alerted

LEMMA PgInv ==
    ASSUME IInv, NEW r \in Replicas, NEW t \in Tenants, purge_tenant_pg(r, t)
    PROVE IInv'
<1>1. /\ TypeInv /\ rep[r].pc = "purge" /\ t \in rep[r].todo
      /\ UNCHANGED <<now, tenants, es, keys, late, lock, overlap, requires_name>>
  BY DEF IInv, purge_tenant_pg, frame
<1>2. PlaceOK(r) /\ SweepOK(r) /\ ExpiredOK(r)
  BY DEF IInv, ReplicaInv
<1>3. Condemned(t)
  BY <1>1, <1>2 DEF PlaceOK, SweepOK, Sweeps
<1>4. CASE Finish(r) /\ UNCHANGED <<rows, lost>>
  BY <1>1, <1>4, DataKept, Finishes DEF data
<1>5. CASE /\ rows' = [rows EXCEPT ![t] = (@ \ deletable) \cup {"audit_log"}]
           /\ lost' = [lost EXCEPT ![t] = @ \/ rows[t] \cap deletable # {}]
           /\ rep' = [rep EXCEPT ![r].pc = "es", ![r].tenant = t, ![r].todo = @ \ {t}]
  <2> DEFINE next == [rep[r] EXCEPT !.pc = "es", !.tenant = t, !.todo = @ \ {t}]
  <2>1. rep[r] \in ReplicaState
    BY <1>1 DEF TypeInv
  <2>2. rep'[r] = next /\ Others(r)
    BY <1>1, <1>5 DEF TypeInv, Others
  <2>3. next \in ReplicaState
    BY <2>1 DEF ReplicaState, Pcs
  <2>4. rep' \in [Replicas -> ReplicaState]
    BY <1>1, <1>5, <2>3 DEF TypeInv
  <2>5. /\ rep'[r].pc = "es" /\ rep'[r].job = rep[r].job /\ rep'[r].outlived = rep[r].outlived
        /\ rep'[r].todo = rep[r].todo \ {t} /\ rep'[r].tenant = t /\ rep'[r].at = rep[r].at
    BY <2>1, <2>2 DEF ReplicaState
  <2>6. /\ "audit_log" \in rows'[t] /\ rows'[t] \subseteq {"llm_metering", "audit_log"}
        /\ rows'[t] \subseteq rows[t] \cup {"audit_log"} /\ \A u \in Tenants \ {t} : rows'[u] = rows[u]
        /\ rows' \in [Tenants -> SUBSET Tables]
    BY <1>1, <1>5, Deletable DEF TypeInv
  <2>7. lost' \in [Tenants -> BOOLEAN] /\ \A u \in Tenants \ {t} : lost'[u] = lost[u]
    BY <1>1, <1>5 DEF TypeInv
  <2>8. Shrinks
    BY <1>1, <1>3, <2>6, <2>7 DEF Shrinks, TypeInv, Condemned
  <2>9. PlaceOK(r)'
    BY <1>1, <1>2, <2>5 DEF PlaceOK, Jobs
  <2>10. SweepOK(r)'
    BY <1>1, <1>2, <1>3, <2>5 DEF SweepOK, Sweeps, Condemned
  <2>11. EmptyOK(r)' /\ ExpiredOK(r)'
    BY <1>1, <1>2, <2>5, <2>6 DEF EmptyOK, LeftRows, ExpiredOK
  <2>12. LockInv' /\ lock' \in [Jobs -> Replicas \cup {Free, Orphan}]
    BY <1>1, <2>2, <2>5, LockKept
  <2> QED
    BY <1>1, <2>2, <2>4, <2>8, <2>9, <2>10, <2>11, <2>12, Advance
<1> QED
  BY <1>4, <1>5 DEF purge_tenant_pg, Abort

LEMMA EsInv ==
    ASSUME IInv, NEW r \in Replicas, purge_tenant_es(r)
    PROVE IInv'
<1> DEFINE t == rep[r].tenant
<1>1. TypeInv /\ rep[r].pc = "es" /\ UNCHANGED <<now, tenants, rows, keys, late, lock, overlap, requires_name>>
  BY DEF IInv, purge_tenant_es, frame
<1>2. PlaceOK(r) /\ SweepOK(r) /\ EmptyOK(r) /\ ExpiredOK(r)
  BY DEF IInv, ReplicaInv
<1>3. t \in Tenants /\ Condemned(t)
  BY <1>1, <1>2 DEF PlaceOK, SweepOK, Sweeps
<1>4. CASE Finish(r) /\ UNCHANGED <<es, lost>>
  BY <1>1, <1>4, DataKept, Finishes DEF data
<1>5. CASE /\ ~requires_name
           /\ es' = [es EXCEPT ![t] = {}]
           /\ lost' = [lost EXCEPT ![t] = @ \/ es[t] # {}]
           /\ Goto(r, "redis")
  <2>1. "redis" \in Pcs
    BY DEF Pcs
  <2>2. /\ rep' \in [Replicas -> ReplicaState] /\ Others(r)
        /\ rep'[r].pc = "redis" /\ rep'[r].job = rep[r].job /\ rep'[r].outlived = rep[r].outlived
        /\ rep'[r].todo = rep[r].todo /\ rep'[r].tenant = t /\ rep'[r].at = rep[r].at
    BY <1>1, <1>5, <2>1, GotoMoves
  <2>3. /\ es'[t] = {} /\ \A u \in Tenants \ {t} : es'[u] = es[u]
        /\ es' \in [Tenants -> SUBSET Nat]
    BY <1>1, <1>3, <1>5 DEF TypeInv
  <2>4. lost' \in [Tenants -> BOOLEAN] /\ \A u \in Tenants \ {t} : lost'[u] = lost[u]
    BY <1>1, <1>5 DEF TypeInv
  <2>5. Shrinks
    BY <1>1, <1>3, <2>3, <2>4 DEF Shrinks, TypeInv, Condemned
  <2>6. PlaceOK(r)'
    BY <1>1, <1>2, <1>5, <2>2 DEF PlaceOK, Jobs
  <2>7. SweepOK(r)'
    BY <1>1, <1>2, <1>3, <2>2 DEF SweepOK, Sweeps, Condemned
  <2>8. EmptyOK(r)' /\ ExpiredOK(r)'
    BY <1>1, <1>2, <2>2, <2>3 DEF EmptyOK, LeftRows, ExpiredOK
  <2>9. LockInv' /\ lock' \in [Jobs -> Replicas \cup {Free, Orphan}]
    BY <1>1, <2>2, LockKept
  <2> QED
    BY <1>1, <2>2, <2>5, <2>6, <2>7, <2>8, <2>9, Advance
<1> QED
  BY <1>4, <1>5 DEF purge_tenant_es, Abort

LEMMA RedisInv ==
    ASSUME IInv, NEW r \in Replicas, purge_tenant_redis(r)
    PROVE IInv'
<1> DEFINE t == rep[r].tenant
<1>1. TypeInv /\ rep[r].pc = "redis" /\ UNCHANGED <<now, tenants, rows, es, lost, late, lock, overlap, requires_name>>
  BY DEF IInv, purge_tenant_redis, frame
<1>2. PlaceOK(r) /\ SweepOK(r) /\ EmptyOK(r) /\ ExpiredOK(r)
  BY DEF IInv, ReplicaInv
<1>3. t \in Tenants
  BY <1>1, <1>2 DEF PlaceOK
<1>4. keys' = keys \/ keys' = [keys EXCEPT ![t] = FALSE]
  BY DEF purge_tenant_redis
<1>5. Shrinks
  BY <1>1, <1>3, <1>4 DEF Shrinks, TypeInv
<1>6. CASE Finish(r)
  BY <1>1, <1>5, <1>6, Finishes
<1>7. CASE keys' = [keys EXCEPT ![t] = FALSE] /\ Goto(r, "mark")
  <2>1. "mark" \in Pcs
    BY DEF Pcs
  <2>2. /\ rep' \in [Replicas -> ReplicaState] /\ Others(r)
        /\ rep'[r].pc = "mark" /\ rep'[r].job = rep[r].job /\ rep'[r].outlived = rep[r].outlived
        /\ rep'[r].todo = rep[r].todo /\ rep'[r].tenant = t /\ rep'[r].at = rep[r].at
    BY <1>1, <1>7, <2>1, GotoMoves
  <2>3. ~keys'[t]
    BY <1>1, <1>3, <1>7 DEF TypeInv
  <2>4. PlaceOK(r)'
    BY <1>1, <1>2, <2>2 DEF PlaceOK, Jobs
  <2>5. SweepOK(r)'
    BY <1>1, <1>2, <2>2 DEF SweepOK, Sweeps, Condemned
  <2>6. EmptyOK(r)' /\ ExpiredOK(r)'
    BY <1>1, <1>2, <2>2, <2>3 DEF EmptyOK, LeftRows, ExpiredOK
  <2>7. LockInv' /\ lock' \in [Jobs -> Replicas \cup {Free, Orphan}]
    BY <1>1, <2>2, LockKept
  <2> QED
    BY <1>1, <1>5, <2>2, <2>4, <2>5, <2>6, <2>7, Advance
<1> QED
  BY <1>6, <1>7 DEF purge_tenant_redis, Abort

-----------------------------------------------------------------------------
(* Steps that change the tenants' rows or the day.  A condemned tenant stays
   condemned and does not freeze again, so what was deleted stays deleted. *)
LEMMA Ages ==
    ASSUME IInv, TypeInv', LockInv', UNCHANGED <<data, requires_name>>, now <= now',
           \A t \in Tenants : Condemned(t) =>
               Condemned(t)' /\ (tenants'[t].status = "frozen" => tenants[t].status = "frozen"),
           \A s \in Replicas :
               rep'[s] = rep[s] \/ (PlaceOK(s)' /\ SweepOK(s)' /\ EmptyOK(s)' /\ ExpiredOK(s)'),
           PurgedKeepsRetained', DataLostOnlyByOverlap'
    PROVE IInv'
<1>1. ASSUME NEW s \in Replicas, rep'[s] = rep[s]
      PROVE PlaceOK(s)' /\ SweepOK(s)' /\ EmptyOK(s)' /\ ExpiredOK(s)'
  <2>1. PlaceOK(s) /\ SweepOK(s) /\ EmptyOK(s) /\ ExpiredOK(s) /\ rep[s] \in ReplicaState
    BY DEF IInv, ReplicaInv, TypeInv
  <2>2. PlaceOK(s)'
    BY <1>1, <2>1 DEF PlaceOK
  <2>3. SweepOK(s)'
    <3> SUFFICES ASSUME NEW t \in Tenants, Sweeps(s, t)'
                 PROVE Condemned(t)'
      BY DEF SweepOK
    <3>1. Sweeps(s, t)
      BY <1>1 DEF Sweeps
    <3> QED
      BY <3>1, <2>1 DEF SweepOK
  <2>4. EmptyOK(s)'
    <3> DEFINE t == rep[s].tenant
    <3> SUFFICES ASSUME rep[s].pc \in {"es", "redis", "mark"}, tenants'[t].status = "frozen"
                 PROVE /\ "audit_log" \in rows[t] /\ rows[t] \subseteq LeftRows(t)
                       /\ rep[s].pc \in {"redis", "mark"} => es[t] \subseteq late[t]
                       /\ rep[s].pc = "mark" => (keys[t] => late[t] # {})
      BY <1>1 DEF EmptyOK, LeftRows, data
    <3>1. t \in Tenants /\ Sweeps(s, t)
      BY <2>1 DEF PlaceOK, Sweeps
    <3>2. tenants[t].status = "frozen"
      BY <3>1, <2>1 DEF SweepOK
    <3> QED
      BY <3>2, <2>1 DEF EmptyOK
  <2>5. ExpiredOK(s)'
    <3>1. rep[s].at \in Nat /\ now \in Nat /\ now' \in Nat
      BY <2>1 DEF ReplicaState, IInv, TypeInv
    <3> QED
      BY <3>1, <1>1, <2>1 DEF ExpiredOK
  <2> QED
    BY <2>2, <2>3, <2>4, <2>5
<1>2. ReplicaInv'
  BY <1>1 DEF ReplicaInv
<1> QED
  BY <1>2 DEF IInv

LEMMA MarkInv ==
    ASSUME IInv, NEW r \in Replicas, purge_mark(r)
    PROVE IInv'
<1> DEFINE t == rep[r].tenant
<1>1. TypeInv /\ rep[r].pc = "mark" /\ UNCHANGED <<now, data, lock, overlap, requires_name>>
  BY DEF IInv, purge_mark, frame
<1>2. PlaceOK(r) /\ SweepOK(r) /\ EmptyOK(r) /\ ExpiredOK(r)
  BY DEF IInv, ReplicaInv
<1>3. t \in Tenants /\ tenants[t] \in TenantRow
  BY <1>1, <1>2 DEF PlaceOK, TypeInv
<1>4. CASE UNCHANGED tenants /\ Finish(r)
  BY <1>1, <1>4, DataKept, Finishes
<1>5. CASE mark_tenant_purged(t)
  <2> DEFINE marked == [tenants[t] EXCEPT !.status = IF @ = "frozen" THEN "purged" ELSE @]
  <2>1. tenants'[t] = marked /\ \A u \in Tenants \ {t} : tenants'[u] = tenants[u]
    BY <1>1, <1>3, <1>5 DEF mark_tenant_purged, TypeInv
  <2>2. marked \in TenantRow
    BY <1>3 DEF TenantRow
  <2>3. tenants' \in [Tenants -> TenantRow]
    BY <1>1, <1>3, <1>5, <2>2 DEF mark_tenant_purged, TypeInv
  <2>4. /\ tenants'[t].status = IF tenants[t].status = "frozen" THEN "purged" ELSE tenants[t].status
        /\ tenants'[t].frozen_at = tenants[t].frozen_at
        /\ tenants'[t].trial_expires_at = tenants[t].trial_expires_at
    BY <1>3, <2>1 DEF TenantRow
  <2>5. \A u \in Tenants : Condemned(u) =>
          Condemned(u)' /\ (tenants'[u].status = "frozen" => tenants[u].status = "frozen")
    BY <1>1, <2>1, <2>4 DEF Condemned
  <2>6. PurgedKeepsRetained'
    BY <1>1, <1>2, <2>1, <2>4, ZenonT(60) DEF IInv, PurgedKeepsRetained, PlaceOK, EmptyOK, LeftRows, data
  <2>7. DataLostOnlyByOverlap'
    BY <1>1, <2>1, <2>4 DEF IInv, DataLostOnlyByOverlap, data
  <2>8. /\ rep' \in [Replicas -> ReplicaState] /\ Others(r)
        /\ rep'[r].job = rep[r].job /\ rep'[r].outlived = rep[r].outlived
        /\ PlaceOK(r)' /\ SweepOK(r)' /\ EmptyOK(r)' /\ ExpiredOK(r)'
    <3>1. CASE Finish(r)
      BY <1>1, <3>1, FinishMoves, NoDuties
    <3>2. CASE Goto(r, "purge")
      <4>1. "purge" \in Pcs
        BY DEF Pcs
      <4>2. /\ rep' \in [Replicas -> ReplicaState] /\ Others(r)
            /\ rep'[r].pc = "purge" /\ rep'[r].job = rep[r].job /\ rep'[r].outlived = rep[r].outlived
            /\ rep'[r].todo = rep[r].todo /\ rep'[r].at = rep[r].at
        BY <1>1, <3>2, <4>1, GotoMoves
      <4>3. PlaceOK(r)'
        BY <1>1, <1>2, <4>2 DEF PlaceOK, Jobs
      <4>4. SweepOK(r)'
        <5> SUFFICES ASSUME NEW u \in Tenants, Sweeps(r, u)'
                     PROVE Condemned(u)'
          BY DEF SweepOK
        <5>1. Sweeps(r, u)
          BY <4>2 DEF Sweeps
        <5> QED
          BY <5>1, <1>2, <2>5 DEF SweepOK
      <4>5. EmptyOK(r)' /\ ExpiredOK(r)'
        BY <1>1, <1>2, <4>2 DEF EmptyOK, ExpiredOK
      <4> QED
        BY <4>2, <4>3, <4>4, <4>5
    <3> QED
      BY <1>5, <3>1, <3>2 DEF purge_mark, Abort
  <2>9. LockInv'
    BY <1>1, <2>8, LockKept
  <2>10. TypeInv'
    BY <1>1, <2>3, <2>8 DEF TypeInv, data
  <2>11. now <= now'
    BY <1>1 DEF TypeInv
  <2>12. \A s \in Replicas :
           rep'[s] = rep[s] \/ (PlaceOK(s)' /\ SweepOK(s)' /\ EmptyOK(s)' /\ ExpiredOK(s)')
    BY <2>8 DEF Others
  <2> QED
    BY <1>1, <2>5, <2>6, <2>7, <2>9, <2>10, <2>11, <2>12, Ages
<1> QED
  BY <1>4, <1>5 DEF purge_mark, Abort

(* A trial that is over is not condemned: it has not been listed. *)
LEMMA FreezeInv ==
    ASSUME IInv, NEW r \in Replicas, job_trial_freeze(r)
    PROVE IInv'
<1>1. TypeInv /\ rep[r].pc = "trial_freeze" /\ UNCHANGED <<now, data, lock, overlap, requires_name>> /\ Finish(r)
  BY DEF IInv, job_trial_freeze, frame
<1>2. \A t \in Tenants : tenants[t] \in TenantRow
  BY <1>1 DEF TypeInv
<1>3. \A t \in Tenants :
        tenants'[t] = IF trial_over(t) THEN [tenants[t] EXCEPT !.status = "frozen", !.frozen_at = now]
                      ELSE tenants[t]
  BY DEF job_trial_freeze
<1>4. \A t \in Tenants : tenants'[t] \in TenantRow
  BY <1>1, <1>2, <1>3, ZenonT(60) DEF TenantRow, TypeInv
<1>5. tenants' \in [Tenants -> TenantRow]
  BY <1>4 DEF job_trial_freeze
<1>6. \A t \in Tenants : trial_over(t) => tenants'[t].status = "frozen"
  BY <1>2, <1>3 DEF TenantRow
<1>7. \A t \in Tenants : Condemned(t) => ~trial_over(t)
  BY DEF Condemned, trial_over
<1>8. \A t \in Tenants : Condemned(t) =>
        Condemned(t)' /\ (tenants'[t].status = "frozen" => tenants[t].status = "frozen")
  BY <1>1, <1>3, <1>7 DEF Condemned
<1>9. PurgedKeepsRetained'
  BY <1>1, <1>3, <1>6 DEF IInv, PurgedKeepsRetained, data
<1>10. DataLostOnlyByOverlap'
  BY <1>1, <1>3, <1>6 DEF IInv, DataLostOnlyByOverlap, data
<1>11. /\ rep' \in [Replicas -> ReplicaState] /\ Others(r)
       /\ rep'[r].job = rep[r].job /\ rep'[r].outlived = rep[r].outlived
       /\ rep'[r].pc = "release" /\ rep'[r].todo = {} /\ rep'[r].at = 0
  BY <1>1, FinishMoves
<1>12. PlaceOK(r)' /\ SweepOK(r)' /\ EmptyOK(r)' /\ ExpiredOK(r)'
  BY <1>1, <1>11, NoDuties
<1>13. LockInv'
  BY <1>1, <1>11, LockKept
<1>14. TypeInv'
  BY <1>1, <1>5, <1>11 DEF TypeInv, data
<1>15. now <= now'
  BY <1>1 DEF TypeInv
<1>16. \A s \in Replicas :
         rep'[s] = rep[s] \/ (PlaceOK(s)' /\ SweepOK(s)' /\ EmptyOK(s)' /\ ExpiredOK(s)')
  BY <1>11, <1>12 DEF Others
<1> QED
  BY <1>1, <1>8, <1>9, <1>10, <1>13, <1>14, <1>15, <1>16, Ages

LEMMA PlanInv ==
    ASSUME IInv, NEW t \in Tenants, NEW p \in Plans, change_plan(t, p)
    PROVE IInv'
<1> DEFINE converts == p # "trial" /\ tenants[t].status = "frozen"
           changed == [tenants[t] EXCEPT !.plan = p,
                          !.trial_expires_at = IF p = "trial" THEN @ ELSE Never,
                          !.status = IF converts THEN "active" ELSE @]
<1>1. TypeInv /\ UNCHANGED <<now, data, lock, rep, requires_name>>
  BY DEF IInv, change_plan
<1>2. tenants[t] \in TenantRow
  BY <1>1 DEF TypeInv
<1>3. tenants'[t] = changed /\ \A u \in Tenants \ {t} : tenants'[u] = tenants[u]
  BY <1>1 DEF change_plan, TypeInv
<1>4. changed \in TenantRow
  BY <1>2 DEF TenantRow
<1>5. tenants' \in [Tenants -> TenantRow]
  BY <1>1, <1>3, <1>4 DEF change_plan, TypeInv
<1>6. /\ tenants'[t].status = IF converts THEN "active" ELSE tenants[t].status
      /\ tenants'[t].trial_expires_at = IF p = "trial" THEN tenants[t].trial_expires_at ELSE Never
      /\ tenants'[t].frozen_at = tenants[t].frozen_at
  BY <1>2, <1>3 DEF TenantRow
<1>7. /\ overlap' \in [Tenants -> BOOLEAN] /\ \A u \in Tenants : overlap[u] => overlap'[u]
      /\ converts /\ (Listed(t) \/ lost[t]) => overlap'[t]
  <2>1. overlap' = [overlap EXCEPT ![t] = @ \/ (converts /\ (Listed(t) \/ lost[t]))]
    BY DEF change_plan
  <2>2. overlap \in [Tenants -> BOOLEAN]
    BY <1>1 DEF TypeInv
  <2> HIDE DEF converts
  <2> QED
    BY <2>1, <2>2
<1>8. PurgedKeepsRetained'
  <2>1. \A u \in Tenants : tenants'[u].status = "purged" => tenants[u].status = "purged"
    BY <1>3, <1>6
  <2>2. UNCHANGED <<rows, es, keys, late, requires_name>>
    BY <1>1 DEF data
  <2> QED
    BY <2>1, <2>2 DEF IInv, PurgedKeepsRetained
<1>9. DataLostOnlyByOverlap'
  BY <1>1, <1>3, <1>6, <1>7 DEF IInv, DataLostOnlyByOverlap, data
<1>10. ASSUME NEW s \in Replicas
       PROVE PlaceOK(s)' /\ SweepOK(s)' /\ EmptyOK(s)' /\ ExpiredOK(s)'
  <2>1. PlaceOK(s) /\ SweepOK(s) /\ EmptyOK(s) /\ ExpiredOK(s)
    BY DEF IInv, ReplicaInv
  <2>2. PlaceOK(s)' /\ ExpiredOK(s)'
    BY <1>1, <2>1 DEF PlaceOK, ExpiredOK
  <2>3. SweepOK(s)'
    <3> SUFFICES ASSUME NEW u \in Tenants, Sweeps(s, u)
                 PROVE Condemned(u)'
      BY <1>1 DEF SweepOK, Sweeps
    <3>1. Condemned(u) /\ Listed(u)
      BY <2>1 DEF SweepOK, Sweeps, Listed
    <3>2. CASE u # t
      BY <3>1, <3>2, <1>1, <1>3, <1>7 DEF Condemned
    <3>3. CASE u = t
      BY <3>1, <3>3, <1>1, <1>6, <1>7 DEF Condemned
    <3> QED
      BY <3>2, <3>3
  <2>4. EmptyOK(s)'
    BY <1>1, <1>3, <1>6, <2>1 DEF PlaceOK, EmptyOK, LeftRows, data
  <2> QED
    BY <2>2, <2>3, <2>4
<1>11. TypeInv'
  BY <1>1, <1>5, <1>7 DEF TypeInv, data
<1>12. LockInv'
  BY <1>1 DEF IInv, LockInv
<1>13. ReplicaInv'
  BY <1>10 DEF ReplicaInv
<1> QED
  BY <1>8, <1>9, <1>11, <1>12, <1>13 DEF IInv

LEMMA TickInv ==
    ASSUME IInv, Tick
    PROVE IInv'
<1>1. TypeInv /\ now' = now + 1 /\ UNCHANGED <<tenants, data, lock, rep, overlap, requires_name>>
  BY DEF IInv, Tick, frame
<1>2. now \in Nat /\ now' \in Nat /\ now <= now'
  BY <1>1 DEF TypeInv
<1>3. TypeInv'
  BY <1>1, <1>2 DEF TypeInv, data
<1>4. LockInv' /\ PurgedKeepsRetained' /\ DataLostOnlyByOverlap'
  BY <1>1 DEF IInv, LockInv, PurgedKeepsRetained, DataLostOnlyByOverlap, data
<1>5. \A t \in Tenants : tenants[t].frozen_at \in Int
  BY <1>1 DEF TypeInv, TenantRow, Never
<1>6. \A t \in Tenants : tenants[t].frozen_at < now - PurgeAfter => tenants[t].frozen_at < now' - PurgeAfter
  BY <1>1, <1>2, <1>5, LifecycleAssumption
<1>7. \A t \in Tenants : Condemned(t) =>
        Condemned(t)' /\ (tenants'[t].status = "frozen" => tenants[t].status = "frozen")
  BY <1>1, <1>6 DEF Condemned
<1> QED
  BY <1>1, <1>2, <1>3, <1>4, <1>7, Ages

(* What is stored for a tenant that is purged, or frozen and listed by a sweep,
   counts as late. *)
LEMMA StoreInv ==
    ASSUME IInv, NEW t \in Tenants, NEW day \in 0..now, store(t, day)
    PROVE IInv'
<1>1. TypeInv /\ UNCHANGED <<now, tenants, lock, rep, lost, overlap, requires_name>>
  BY DEF IInv, store, frame
<1>2. day \in Nat
  BY <1>1 DEF TypeInv
<1>3. /\ \A u \in Tenants \ {t} : /\ rows'[u] = rows[u] /\ es'[u] = es[u]
                                  /\ keys'[u] = keys[u] /\ late'[u] = late[u]
      /\ rows' \in [Tenants -> SUBSET Tables] /\ es' \in [Tenants -> SUBSET Nat]
      /\ keys' \in [Tenants -> BOOLEAN] /\ late' \in [Tenants -> SUBSET Nat]
  BY <1>1, <1>2 DEF store, TypeInv, Tables
<1>4. /\ rows'[t] = rows[t] \cup alerted \cup {"llm_metering"} /\ es'[t] = es[t] \cup {day}
      /\ purging(t) => late'[t] = late[t] \cup {day}
  BY <1>1 DEF store, TypeInv
<1>5. ASSUME NEW s \in Replicas
      PROVE PlaceOK(s)' /\ SweepOK(s)' /\ EmptyOK(s)' /\ ExpiredOK(s)'
  <2>1. PlaceOK(s) /\ SweepOK(s) /\ EmptyOK(s) /\ ExpiredOK(s)
    BY DEF IInv, ReplicaInv
  <2>2. PlaceOK(s)' /\ ExpiredOK(s)'
    BY <1>1, <2>1 DEF PlaceOK, ExpiredOK
  <2>3. SweepOK(s)'
    BY <1>1, <2>1 DEF SweepOK, Sweeps, Condemned
  <2>4. EmptyOK(s)'
    <3> DEFINE u == rep[s].tenant
    <3> SUFFICES ASSUME rep[s].pc \in {"es", "redis", "mark"}, tenants[u].status = "frozen"
                 PROVE EmptyOK(s)'
      BY <1>1 DEF EmptyOK
    <3>1. u \in Tenants /\ Sweeps(s, u)
      BY <2>1 DEF PlaceOK, Sweeps
    <3>2. CASE u # t
      BY <1>1, <1>3, <2>1, <3>1, <3>2 DEF EmptyOK, LeftRows
    <3>3. CASE u = t
      <4>1. purging(t)
        BY <3>1, <3>3 DEF purging, Listed, Sweeps
      <4>2. rows[t] \subseteq LeftRows(t) /\ "audit_log" \in rows[t]
        BY <2>1, <3>3 DEF EmptyOK
      <4>3. late'[t] # {} /\ "audit_log" \in rows'[t] /\ rows'[t] \subseteq LeftRows(t)'
        BY <1>4, <4>1, <4>2 DEF LeftRows
      <4>4. rep[s].pc \in {"redis", "mark"} => es'[t] \subseteq late'[t]
        BY <1>4, <2>1, <3>3, <4>1 DEF EmptyOK
      <4> QED
        BY <1>1, <3>3, <4>3, <4>4 DEF EmptyOK
    <3> QED
      BY <3>2, <3>3
  <2> QED
    BY <2>2, <2>3, <2>4
<1>6. TypeInv'
  BY <1>1, <1>3 DEF TypeInv
<1>7. LockInv' /\ ReplicaInv'
  BY <1>1, <1>5 DEF IInv, LockInv, ReplicaInv
<1>8. PurgedKeepsRetained'
  <2> SUFFICES ASSUME NEW u \in Tenants, tenants[u].status = "purged"
               PROVE /\ ~requires_name /\ "audit_log" \in rows'[u] /\ rows'[u] \subseteq LeftRows(u)'
                     /\ es'[u] \subseteq late'[u] /\ (keys'[u] => late'[u] # {})
    BY <1>1 DEF PurgedKeepsRetained, LeftRows
  <2>1. /\ ~requires_name /\ "audit_log" \in rows[u] /\ rows[u] \subseteq LeftRows(u)
        /\ es[u] \subseteq late[u] /\ (keys[u] => late[u] # {})
    BY DEF IInv, PurgedKeepsRetained, LeftRows
  <2>2. CASE u # t
    BY <1>3, <2>1, <2>2 DEF LeftRows
  <2>3. CASE u = t
    <3>1. late'[t] = late[t] \cup {day}
      BY <1>4, <2>3 DEF purging
    <3> QED
      BY <1>4, <2>1, <2>3, <3>1 DEF LeftRows
  <2> QED
    BY <2>2, <2>3
<1>9. DataLostOnlyByOverlap'
  BY <1>1 DEF IInv, DataLostOnlyByOverlap
<1> QED
  BY <1>6, <1>7, <1>8, <1>9 DEF IInv

-----------------------------------------------------------------------------
(* The sweep of retention_purge. *)

LEMMA ListTenantsInv ==
    ASSUME IInv, NEW r \in Replicas, list_tenants(r)
    PROVE IInv'
<1>1. TypeInv /\ rep[r].pc = "retention_purge" /\ UNCHANGED <<now, tenants, data, lock, overlap, requires_name>>
  BY DEF IInv, list_tenants, frame
<1>2. Shrinks
  BY <1>1, DataKept
<1>3. CASE Finish(r)
  BY <1>1, <1>2, <1>3, Finishes
<1>4. CASE rep' = [rep EXCEPT ![r].pc = "expire", ![r].at = now, ![r].todo = tenant_rows,
                              ![r].plan = [t \in Tenants |-> tenants[t].plan]]
  <2> DEFINE next == [rep[r] EXCEPT !.pc = "expire", !.at = now, !.todo = tenant_rows,
                                    !.plan = [t \in Tenants |-> tenants[t].plan]]
  <2>1. rep[r] \in ReplicaState
    BY <1>1 DEF TypeInv
  <2>2. rep'[r] = next /\ Others(r)
    BY <1>1, <1>4 DEF TypeInv, Others
  <2>3. /\ tenant_rows \in SUBSET Tenants /\ now \in Nat
        /\ [t \in Tenants |-> tenants[t].plan] \in [Tenants -> Plans]
    BY <1>1 DEF tenant_rows, TypeInv, TenantRow
  <2>4. next \in ReplicaState
    BY <2>1, <2>3 DEF ReplicaState, Pcs
  <2>5. rep' \in [Replicas -> ReplicaState]
    BY <1>1, <1>4, <2>4 DEF TypeInv
  <2>6. /\ rep'[r].pc = "expire" /\ rep'[r].job = rep[r].job /\ rep'[r].outlived = rep[r].outlived
        /\ rep'[r].at = now
    BY <2>1, <2>2 DEF ReplicaState
  <2>7. rep[r].job = "retention_purge"
    BY <1>1 DEF IInv, ReplicaInv, PlaceOK, Jobs
  <2>8. PlaceOK(r)' /\ SweepOK(r)'
    BY <2>6, <2>7 DEF PlaceOK, Jobs, SweepOK, Sweeps
  <2>9. EmptyOK(r)' /\ ExpiredOK(r)'
    BY <1>1, <2>3, <2>6 DEF EmptyOK, ExpiredOK
  <2>10. LockInv' /\ lock' \in [Jobs -> Replicas \cup {Free, Orphan}]
    BY <1>1, <2>2, <2>6, LockKept
  <2> QED
    BY <1>1, <1>2, <2>2, <2>5, <2>8, <2>9, <2>10, Advance
<1> QED
  BY <1>3, <1>4 DEF list_tenants, Abort

LEMMA ListIndicesInv ==
    ASSUME IInv, NEW r \in Replicas, NEW t \in Tenants, list_indices(r, t)
    PROVE IInv'
<1> DEFINE found == select_expired_indices(es[t], retention_days_for(t, rep[r].plan[t]), rep[r].at)
<1>1. TypeInv /\ rep[r].pc = "expire" /\ UNCHANGED <<now, tenants, data, lock, overlap, requires_name>>
  BY DEF IInv, list_indices, frame
<1>2. Shrinks
  BY <1>1, DataKept
<1>3. rep[r] \in ReplicaState
  BY <1>1 DEF TypeInv
<1>4. rep[r].job = "retention_purge" /\ ExpiredOK(r)
  BY <1>1 DEF IInv, ReplicaInv, PlaceOK
<1>5. CASE Finish(r)
  BY <1>1, <1>2, <1>5, Finishes
<1>6. CASE rep' = [rep EXCEPT ![r].todo = @ \ {t}]
  <2> DEFINE next == [rep[r] EXCEPT !.todo = @ \ {t}]
  <2>1. rep'[r] = next /\ Others(r)
    BY <1>1, <1>6 DEF TypeInv, Others
  <2>2. next \in ReplicaState
    BY <1>3 DEF ReplicaState
  <2>3. rep' \in [Replicas -> ReplicaState]
    BY <1>1, <1>6, <2>2 DEF TypeInv
  <2>4. /\ rep'[r].pc = "expire" /\ rep'[r].job = rep[r].job /\ rep'[r].outlived = rep[r].outlived
        /\ rep'[r].at = rep[r].at
    BY <1>1, <1>3, <2>1 DEF ReplicaState
  <2>5. PlaceOK(r)' /\ SweepOK(r)'
    BY <1>4, <2>4 DEF PlaceOK, Jobs, SweepOK, Sweeps
  <2>6. EmptyOK(r)' /\ ExpiredOK(r)'
    BY <1>1, <1>4, <2>4 DEF EmptyOK, ExpiredOK
  <2>7. LockInv' /\ lock' \in [Jobs -> Replicas \cup {Free, Orphan}]
    BY <1>1, <2>1, <2>4, LockKept
  <2> QED
    BY <1>1, <1>2, <2>1, <2>3, <2>5, <2>6, <2>7, Advance
<1>7. CASE rep' = [rep EXCEPT ![r].pc = "delete", ![r].tenant = t, ![r].todo = @ \ {t}, ![r].expired = found]
  <2> DEFINE next == [rep[r] EXCEPT !.pc = "delete", !.tenant = t, !.todo = @ \ {t}, !.expired = found]
  <2>1. rep'[r] = next /\ Others(r)
    BY <1>1, <1>7 DEF TypeInv, Others
  <2>2. \A i \in found : /\ i \in Nat \X Nat
                         /\ rep[r].at - month_end_utc(i) > retention_days_for(t, rep[r].plan[t])
    <3> SUFFICES ASSUME NEW i \in found
                 PROVE /\ i \in Nat \X Nat
                       /\ rep[r].at - month_end_utc(i) > retention_days_for(t, rep[r].plan[t])
      OBVIOUS
    <3>1. PICK e \in es[t] : i = index_of(e)
      BY DEF select_expired_indices
    <3>2. e \in Nat /\ e \div MonthLength \in Nat
      BY <1>1, LifecycleAssumption DEF TypeInv
    <3>3. i \in Nat \X Nat
      BY <3>1, <3>2, Months
    <3>4. rep[r].at - month_end_utc(i) > retention_days_for(t, rep[r].plan[t])
      BY DEF select_expired_indices
    <3> QED
      BY <3>3, <3>4
  <2> HIDE DEF found
  <2>3. next \in ReplicaState
    BY <1>3, <2>2 DEF ReplicaState, Pcs
  <2>4. rep' \in [Replicas -> ReplicaState]
    BY <1>1, <1>7, <2>3 DEF TypeInv
  <2>5. /\ rep'[r].pc = "delete" /\ rep'[r].job = rep[r].job /\ rep'[r].outlived = rep[r].outlived
        /\ rep'[r].tenant = t /\ rep'[r].expired = found /\ rep'[r].at = rep[r].at
        /\ rep'[r].plan = rep[r].plan
    BY <1>3, <2>1 DEF ReplicaState
  <2>6. PlaceOK(r)' /\ SweepOK(r)'
    BY <1>4, <2>5 DEF PlaceOK, Jobs, SweepOK, Sweeps
  <2>7. EmptyOK(r)' /\ ExpiredOK(r)'
    BY <1>1, <1>4, <2>2, <2>5 DEF EmptyOK, ExpiredOK
  <2>8. LockInv' /\ lock' \in [Jobs -> Replicas \cup {Free, Orphan}]
    BY <1>1, <2>1, <2>5, LockKept
  <2> QED
    BY <1>1, <1>2, <2>1, <2>4, <2>6, <2>7, <2>8, Advance
<1> QED
  BY <1>5, <1>6, <1>7 DEF list_indices, Abort

LEMMA DeleteIndexInv ==
    ASSUME IInv, NEW r \in Replicas, NEW i \in rep[r].expired, delete_index(r, i)
    PROVE IInv'
<1> DEFINE t == rep[r].tenant
<1>1. TypeInv /\ rep[r].pc = "delete" /\ UNCHANGED <<now, tenants, rows, keys, lost, late, lock, overlap, requires_name>>
  BY DEF IInv, delete_index, frame
<1>2. rep[r] \in ReplicaState
  BY <1>1 DEF TypeInv
<1>3. rep[r].job = "retention_purge" /\ t \in Tenants /\ ExpiredOK(r)
  BY <1>1 DEF IInv, ReplicaInv, PlaceOK
<1>4. es' = es \/ es' = [es EXCEPT ![t] = {e \in @ : index_of(e) # i}]
  BY DEF delete_index
<1>5. Shrinks
  BY <1>1, <1>3, <1>4 DEF Shrinks, TypeInv
<1>6. CASE Finish(r)
  BY <1>1, <1>5, <1>6, Finishes
<1>7. CASE rep' = [rep EXCEPT ![r].expired = @ \ {i}]
  <2> DEFINE next == [rep[r] EXCEPT !.expired = @ \ {i}]
  <2>1. rep'[r] = next /\ Others(r)
    BY <1>1, <1>7 DEF TypeInv, Others
  <2>2. next \in ReplicaState
    BY <1>2 DEF ReplicaState
  <2>3. rep' \in [Replicas -> ReplicaState]
    BY <1>1, <1>7, <2>2 DEF TypeInv
  <2>4. /\ rep'[r].pc = "delete" /\ rep'[r].job = rep[r].job /\ rep'[r].outlived = rep[r].outlived
        /\ rep'[r].tenant = t /\ rep'[r].expired = rep[r].expired \ {i} /\ rep'[r].at = rep[r].at
        /\ rep'[r].plan = rep[r].plan
    BY <1>1, <1>2, <2>1 DEF ReplicaState
  <2>5. PlaceOK(r)' /\ SweepOK(r)'
    BY <1>3, <2>4 DEF PlaceOK, Jobs, SweepOK, Sweeps
  <2>6. EmptyOK(r)' /\ ExpiredOK(r)'
    BY <1>1, <1>3, <2>4 DEF EmptyOK, ExpiredOK
  <2>7. LockInv' /\ lock' \in [Jobs -> Replicas \cup {Free, Orphan}]
    BY <1>1, <2>1, <2>4, LockKept
  <2> QED
    BY <1>1, <1>5, <2>1, <2>3, <2>5, <2>6, <2>7, Advance
<1> QED
  BY <1>6, <1>7 DEF delete_index, Abort

LEMMA TenantDoneInv ==
    ASSUME IInv, NEW r \in Replicas, tenant_done(r)
    PROVE IInv'
<1>1. /\ TypeInv /\ rep[r].pc = "delete" /\ Goto(r, "expire")
      /\ UNCHANGED <<now, tenants, data, lock, overlap, requires_name>>
  BY DEF IInv, tenant_done, frame
<1>2. rep[r].job = "retention_purge" /\ ExpiredOK(r)
  BY <1>1 DEF IInv, ReplicaInv, PlaceOK
<1>3. "expire" \in Pcs
  BY DEF Pcs
<1>4. /\ rep' \in [Replicas -> ReplicaState] /\ Others(r)
      /\ rep'[r].pc = "expire" /\ rep'[r].job = rep[r].job /\ rep'[r].outlived = rep[r].outlived
      /\ rep'[r].at = rep[r].at
  BY <1>1, <1>3, GotoMoves
<1>5. PlaceOK(r)' /\ SweepOK(r)'
  BY <1>2, <1>4 DEF PlaceOK, Jobs, SweepOK, Sweeps
<1>6. EmptyOK(r)' /\ ExpiredOK(r)'
  BY <1>1, <1>2, <1>4 DEF EmptyOK, ExpiredOK
<1>7. LockInv' /\ lock' \in [Jobs -> Replicas \cup {Free, Orphan}]
  BY <1>1, <1>4, LockKept
<1> QED
  BY <1>1, <1>4, <1>5, <1>6, <1>7, DataKept, Advance

-----------------------------------------------------------------------------
LEMMA InitInv == Init => IInv
<1> SUFFICES ASSUME Init PROVE IInv
  OBVIOUS
<1>1. "trial_freeze" \in Jobs
  BY DEF Jobs
<1>2. rep \in [Replicas -> ReplicaState]
  BY <1>1, AtJobType DEF Init
<1>3. tenants \in [Tenants -> TenantRow]
  BY LifecycleAssumption DEF Init, TenantRow, Plans
<1>4. TypeInv
  BY <1>2, <1>3 DEF Init, TypeInv, Tables
<1>5. \A t \in Tenants : tenants[t].status = "active" /\ ~lost[t]
  BY DEF Init
<1>6. PurgedKeepsRetained /\ DataLostOnlyByOverlap
  BY <1>5 DEF PurgedKeepsRetained, DataLostOnlyByOverlap
<1>7. \A r \in Replicas : rep[r].pc = "idle" /\ rep[r].todo = {} /\ rep[r].at = 0 /\ now = 0
  BY DEF Init, AtJob
<1>8. LockInv
  BY <1>7 DEF LockInv
<1>9. ReplicaInv
  BY <1>7 DEF ReplicaInv, PlaceOK, Jobs, SweepOK, Sweeps, EmptyOK, ExpiredOK
<1> QED
  BY <1>4, <1>6, <1>8, <1>9 DEF IInv

LEMMA NextInv == IInv /\ [Next]_vars => IInv'
<1> SUFFICES ASSUME IInv, [Next]_vars PROVE IInv'
  OBVIOUS
<1>1. ASSUME NEW r \in Replicas, ReplicaStep(r)
      PROVE IInv'
  BY <1>1, AcquireInv, ReleaseInv, FreezeInv, ListDueInv, ListTenantsInv, SweepDoneInv, PgInv,
     ListIndicesInv, EsInv, RedisInv, MarkInv, DeleteIndexInv, TenantDoneInv DEF ReplicaStep
<1>2. CASE \E r \in Replicas : crash(r)
  BY <1>2, CrashInv
<1>3. CASE \E j \in Jobs : lock_expires(j)
  BY <1>3, ExpiresInv
<1>4. CASE \E t \in Tenants : \E p \in Plans : change_plan(t, p)
  BY <1>4, PlanInv
<1>5. CASE \E t \in Tenants : \E day \in 0..now : store(t, day)
  BY <1>5, StoreInv
<1>6. CASE Tick
  BY <1>6, TickInv
<1>7. CASE UNCHANGED vars
  <2>1. UNCHANGED <<requires_name, now, tenants, rows, es, keys, lock, rep, lost, late, overlap>>
    BY <1>7 DEF vars
  <2>2. TypeInv' /\ LockInv' /\ PurgedKeepsRetained' /\ DataLostOnlyByOverlap'
    BY <2>1 DEF IInv, TypeInv, LockInv, PurgedKeepsRetained, DataLostOnlyByOverlap
  <2>3. ReplicaInv'
    BY <2>1 DEF IInv, ReplicaInv, PlaceOK, SweepOK, Sweeps, Condemned, EmptyOK, LeftRows, ExpiredOK
  <2> QED
    BY <2>2, <2>3 DEF IInv
<1> QED
  BY <1>1, <1>2, <1>3, <1>4, <1>5, <1>6, <1>7 DEF Next

(* The lock, the duties of every sweep and what it has deleted so far (the
   inductive invariant). *)
THEOREM Invariant == Spec => []IInv
BY InitInv, NextInv, PTL DEF Spec

(* Two replicas are in one job only if one has outlived its lock: with the token
   compared on release, no crash, lost answer or late release lets a second one
   in (runner.py run_job_once). *)
THEOREM AloneUnlessOutlivedHolds == Spec => []AloneUnlessOutlived
<1>1. IInv => AloneUnlessOutlived
  BY DEF IInv, LockInv, AloneUnlessOutlived, Running
<1> QED
  BY <1>1, Invariant, PTL

(* A purged tenant has the rows of the retained tables left and what the pipeline
   stored late, although the sweep checks the tenant only when it lists and when
   it marks it; none is purged where wildcards are refused (tasks.py
   job_trial_purge). *)
THEOREM PurgedKeepsRetainedHolds == Spec => []PurgedKeepsRetained
<1>1. IInv => PurgedKeepsRetained
  BY DEF IInv
<1> QED
  BY <1>1, Invariant, PTL

(* A tenant in use lost data only by a conversion that met a sweep or followed an
   unfinished one (tasks.py job_trial_purge). *)
THEOREM DataLostOnlyByOverlapHolds == Spec => []DataLostOnlyByOverlap
<1>1. IInv => DataLostOnlyByOverlap
  BY DEF IInv
<1> QED
  BY <1>1, Invariant, PTL

-----------------------------------------------------------------------------
(* The steps that delete events of a tenant. *)
LEMMA WhoDeletes ==
    ASSUME [Next]_vars
    PROVE \/ es' = es \/ rep' = rep
          \/ \E r \in Replicas : purge_tenant_es(r)
          \/ \E r \in Replicas : \E i \in rep[r].expired : delete_index(r, i)
<1>1. ASSUME NEW r \in Replicas, ReplicaStep(r)
      PROVE es' = es \/ purge_tenant_es(r) \/ \E i \in rep[r].expired : delete_index(r, i)
  <2>1. CASE acquire_job_lock(r) \/ release_job_lock(r)
    BY <2>1 DEF acquire_job_lock, release_job_lock, data
  <2>2. CASE job_trial_freeze(r) \/ list_due(r) \/ list_tenants(r) \/ sweep_done(r) \/ tenant_done(r)
    BY <2>2 DEF job_trial_freeze, list_due, list_tenants, sweep_done, tenant_done, data
  <2>3. CASE \E t \in Tenants : purge_tenant_pg(r, t) \/ list_indices(r, t)
    BY <2>3 DEF purge_tenant_pg, list_indices, data
  <2>4. CASE purge_tenant_redis(r) \/ purge_mark(r)
    BY <2>4 DEF purge_tenant_redis, purge_mark, data
  <2> QED
    BY <1>1, <2>1, <2>2, <2>3, <2>4 DEF ReplicaStep
<1>2. CASE \E r \in Replicas : crash(r)
  BY <1>2 DEF crash, data
<1>3. CASE \E j \in Jobs : lock_expires(j)
  BY <1>3 DEF lock_expires, data
<1>4. CASE \E t \in Tenants : (\E p \in Plans : change_plan(t, p)) \/ \E day \in 0..now : store(t, day)
  BY <1>4 DEF change_plan, store, data
<1>5. CASE Tick \/ UNCHANGED vars
  BY <1>5 DEF Tick, vars, data
<1> QED
  BY <1>1, <1>2, <1>3, <1>4, <1>5 DEF Next

(* The retention sweep deletes no event younger than the retention it read,
   whatever was stored between its listing and its delete: an index holds only
   days before the end of its month (tasks.py select_expired_indices). *)
THEOREM RetentionKeepsHolds == Spec => RetentionKeeps
<1>1. ASSUME IInv, [Next]_vars, NEW r \in Replicas, rep[r].pc = "delete", rep'[r] # rep[r],
             NEW e \in es[rep[r].tenant] \ es'[rep[r].tenant]
      PROVE now - e > retention_days_for(rep[r].tenant, rep[r].plan[rep[r].tenant])
  <2> DEFINE t == rep[r].tenant
             kept == retention_days_for(t, rep[r].plan[t])
  <2>1. TypeInv /\ rep[r] \in ReplicaState /\ PlaceOK(r) /\ ExpiredOK(r)
    BY <1>1 DEF IInv, TypeInv, ReplicaInv
  <2>2. t \in Tenants /\ e \in Nat
    BY <1>1, <2>1 DEF PlaceOK, TypeInv
  <2>3. ~\E s \in Replicas : purge_tenant_es(s)
    <3> SUFFICES ASSUME NEW s \in Replicas, purge_tenant_es(s) PROVE FALSE
      OBVIOUS
    <3>1. s # r
      BY <1>1 DEF purge_tenant_es
    <3>2. rep' = [rep EXCEPT ![s].pc = "redis"] \/ Finish(s)
      BY DEF purge_tenant_es, Goto, Abort
    <3>3. rep'[r] = rep[r]
      BY <2>1, <3>1, <3>2 DEF Finish, TypeInv
    <3> QED
      BY <1>1, <3>3
  <2>4. es' # es /\ rep' # rep
    BY <1>1
  <2>5. PICK s \in Replicas : \E i \in rep[s].expired : delete_index(s, i)
    BY <1>1, <2>3, <2>4, WhoDeletes
  <2>6. PICK i \in rep[s].expired : delete_index(s, i)
    BY <2>5
  <2>7. s = r
    <3> SUFFICES ASSUME s # r PROVE FALSE
      OBVIOUS
    <3>1. rep' = [rep EXCEPT ![s].expired = @ \ {i}] \/ Finish(s)
      BY <2>6 DEF delete_index, Abort
    <3>2. rep'[r] = rep[r]
      BY <2>1, <3>1 DEF Finish, TypeInv
    <3> QED
      BY <1>1, <3>2
  <2>8. es' = [es EXCEPT ![t] = {x \in @ : index_of(x) # i}]
    BY <2>4, <2>6, <2>7 DEF delete_index
  <2>9. index_of(e) = i
    BY <1>1, <2>1, <2>2, <2>8 DEF TypeInv
  <2>10. rep[r].at - month_end_utc(i) > kept /\ rep[r].at <= now
    BY <1>1, <2>1, <2>6, <2>7 DEF ExpiredOK
  <2>11. month_end_utc(i) \in Int /\ e < month_end_utc(i)
    BY <2>2, <2>9, DayBeforeMonthEnd
  <2>12. rep[r].plan[t] \in Plans /\ rep[r].at \in Nat /\ now \in Nat
    BY <2>1, <2>2 DEF ReplicaState, TypeInv
  <2>13. kept \in Nat
    BY <2>2, <2>12, RetentionType
  <2> HIDE DEF kept, t
  <2>14. now - e > kept
    BY <2>2, <2>10, <2>11, <2>12, <2>13
  <2> QED
    BY <2>14 DEF kept, t
<1>2. IInv /\ [Next]_vars =>
        [\A r \in Replicas : rep[r].pc = "delete" /\ rep'[r] # rep[r] =>
           \A e \in es[rep[r].tenant] \ es'[rep[r].tenant] :
              now - e > retention_days_for(rep[r].tenant, rep[r].plan[rep[r].tenant])]_vars
  BY <1>1
<1> QED
  BY <1>2, Invariant, PTL DEF Spec, RetentionKeeps

=============================================================================
