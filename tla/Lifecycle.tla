----------------------------- MODULE Lifecycle -----------------------------
(***************************************************************************)
(* The end of a tenant's data: the jobs scheduler (jobs/runner.py and      *)
(* jobs/tasks.py) freezes trials that have expired, purges tenants that    *)
(* stay frozen and deletes events past their retention, while operators    *)
(* change plans (controlplane routes/internal.py) and the pipeline stores  *)
(* what was accepted, however late it gets to it.  Several replicas of the *)
(* scheduler run the same jobs one after another; a lock in Redis with a   *)
(* lifetime of its own keeps them apart.  A sweep reads which tenants are  *)
(* due, then deletes the data of one tenant after another in separate      *)
(* steps, none of which looks at the tenant again before the last.         *)
(*                                                                         *)
(* Time is counted in days from the start.  The intervals of the jobs are  *)
(* shorter than a day, so every job is due on every pass of the loop.      *)
(* Left out: the three jobs about assets and dead letters (two of them are *)
(* in Inventory), the audit rows other than the one of the purge, and the  *)
(* copies of the tenant's status and credentials in Redis, which requests  *)
(* write whatever the tenant's status is and which expire on their own     *)
(* (Access).                                                               *)
(***************************************************************************)
EXTENDS Integers, FiniteSets

CONSTANTS
    Replicas,          \* scheduler processes
    Tenants,
    TrialEnd,          \* [Tenants -> days]: trial_expires_at of a new tenant
    PlanRetention,     \* plan_config: retention_days of the plans that set it
    Override,          \* entitlement_overrides: retention_days of some tenants
    DefaultRetention,  \* default_retention_days
    PurgeAfter,        \* trial_purge_after_days
    MonthLength,       \* days of a month
    StartMonth,        \* month of the year of day 0
    MaxTime,           \* bound on the days
    MaxChanges,        \* bound on the changes of plan
    MaxEvents,         \* bound on the event days of a tenant
    MaxFaults          \* bound on failures, crashes and jobs that outlast their lock

Plans == {"trial", "paid"}

(* The owner of a lock: a replica, nobody, or one that will not delete it. *)
Free == "free"
Orphan == "orphan"

NoTenant == "none"

ASSUME LifecycleAssumption ==
    /\ {Free, Orphan} \cap Replicas = {} /\ NoTenant \notin Tenants
    /\ TrialEnd \in [Tenants -> Nat]
    /\ \E S \in SUBSET Plans : PlanRetention \in [S -> Nat]
    /\ \E S \in SUBSET Tenants : Override \in [S -> Nat]
    /\ {DefaultRetention, PurgeAfter, MaxTime, MaxChanges, MaxEvents, MaxFaults} \subseteq Nat
    /\ MonthLength \in Nat \ {0} /\ StartMonth \in 1..12

VARIABLES
    requires_name, \* action.destructive_requires_name of the Elasticsearch cluster
    now,
    tenants,   \* control.tenants
    rows,      \* [Tenants -> SUBSET tables]: tables with rows of the tenant
    es,        \* [Tenants -> SUBSET days]: the days of its stored events
    keys,      \* [Tenants -> BOOLEAN]: the pipeline's keys of the tenant in Redis
    lock,      \* lock:job:{name}
    rep,       \* the replicas
    changes, faults,
    lost,      \* the tenant had data that a purge deleted
    late,      \* days of the events stored for it when frozen and swept, or purged
    overlap    \* it was converted while a sweep held it or after data was lost

vars == <<requires_name, now, tenants, rows, es, keys, lock, rep, changes, faults, lost, late, overlap>>

data == <<rows, es, keys, lost, late>>

frame == <<requires_name, changes, overlap>>

Jobs == {"trial_freeze", "trial_purge", "retention_purge"}

(* build_jobs lists them in this order. *)
next_job == [trial_freeze |-> "trial_purge", trial_purge |-> "retention_purge", retention_purge |-> "trial_freeze"]

Never == -1

AtJob(job) == [job |-> job, pc |-> "idle", outlived |-> FALSE, todo |-> {}, tenant |-> NoTenant,
               at |-> 0, plan |-> [t \in Tenants |-> "trial"], expired |-> {}]

enrolled == {"devices", "enrollment_tokens", "assets"}

alerted == {"alert_events", "alerts", "correlation_groups"}

Init ==
    /\ requires_name \in BOOLEAN
    /\ now = 0
    /\ tenants = [t \in Tenants |-> [status |-> "active", plan |-> "trial",
                                     trial_expires_at |-> TrialEnd[t], frozen_at |-> Never]]
    /\ rows = [t \in Tenants |-> enrolled]
    /\ es = [t \in Tenants |-> {}]
    /\ keys = [t \in Tenants |-> FALSE]
    /\ lock = [j \in Jobs |-> Free]
    /\ rep = [r \in Replicas |-> AtJob("trial_freeze")]
    /\ changes = 0 /\ faults = 0
    /\ lost = [t \in Tenants |-> FALSE]
    /\ late = [t \in Tenants |-> {}]
    /\ overlap = [t \in Tenants |-> FALSE]

Fault == faults < MaxFaults /\ faults' = faults + 1

----------------------------------------------------------------------------
(* The loop of a replica and the lock of a job. *)

Running(r, j) == rep[r].job = j /\ rep[r].pc # "idle"

Goto(r, pc) == rep' = [rep EXCEPT ![r].pc = pc]

Proceed(r) == rep' = [rep EXCEPT ![r] = AtJob(next_job[rep[r].job])]

(* SET NX PX; a job whose lock is held elsewhere is skipped.  When the
   answer is lost the key is set and its token known to nobody. *)
acquire_job_lock(r) ==
    LET j == rep[r].job IN
    /\ rep[r].pc = "idle"
    /\ \/ lock[j] = Free /\ lock' = [lock EXCEPT ![j] = r] /\ Goto(r, j) /\ UNCHANGED faults
       \/ lock[j] # Free /\ Proceed(r) /\ UNCHANGED <<lock, faults>>
       \/ lock[j] = Free /\ Fault /\ lock' = [lock EXCEPT ![j] = Orphan] /\ Proceed(r)
    /\ UNCHANGED <<now, tenants, data, frame>>

release_job_lock_mutant(r) ==
    /\ rep[r].pc = "release"
    /\ lock' = [lock EXCEPT ![rep[r].job] = Free]
    /\ Proceed(r)
    /\ UNCHANGED <<now, tenants, data, faults, frame>>

(* Compare and delete, in the finally clause of run_job_once; the loop goes
   on to the next job whether or not an exception passed. *)
release_job_lock(r) ==
    LET j == rep[r].job IN
    /\ rep[r].pc = "release"
    /\ \/ lock' = [lock EXCEPT ![j] = IF @ = r THEN Free ELSE @] /\ UNCHANGED faults
       \/ Fault /\ lock' = [lock EXCEPT ![j] = IF @ = r THEN Orphan ELSE @]
    /\ Proceed(r)
    /\ UNCHANGED <<now, tenants, data, frame>>

(* The lifetime of a key ends, also while the job it was set for runs. *)
lock_expires(j) ==
    /\ \/ lock[j] = Orphan /\ UNCHANGED <<rep, faults>>
       \/ \E r \in Replicas : lock[j] = r /\ rep' = [rep EXCEPT ![r].outlived = TRUE] /\ Fault
    /\ lock' = [lock EXCEPT ![j] = Free]
    /\ UNCHANGED <<now, tenants, data, frame>>

(* A replica that stops leaves its lock behind and starts over. *)
crash(r) ==
    /\ rep[r].pc # "idle" /\ Fault
    /\ rep' = [rep EXCEPT ![r] = AtJob("trial_freeze")]
    /\ lock' = [j \in Jobs |-> IF lock[j] = r THEN Orphan ELSE lock[j]]
    /\ UNCHANGED <<now, tenants, data, frame>>

Finish(r) == rep' = [rep EXCEPT ![r] = [AtJob(@.job) EXCEPT !.pc = "release", !.outlived = rep[r].outlived]]

(* An exception in a job ends it; run_job_once releases the lock. *)
Abort(r) == Fault /\ Finish(r)

----------------------------------------------------------------------------
(* trial_freeze *)

(* FREEZE_EXPIRED_TRIALS_SQL *)
trial_over(t) == /\ tenants[t].status = "active" /\ tenants[t].plan = "trial"
                 /\ tenants[t].trial_expires_at # Never /\ tenants[t].trial_expires_at < now

job_trial_freeze(r) ==
    /\ rep[r].pc = "trial_freeze"
    /\ tenants' = [t \in Tenants |-> IF trial_over(t)
                                     THEN [tenants[t] EXCEPT !.status = "frozen", !.frozen_at = now]
                                     ELSE tenants[t]]
    /\ Finish(r)
    /\ UNCHANGED <<now, data, lock, faults, frame>>

----------------------------------------------------------------------------
(* trial_purge *)

purge_due_mutant(t) == tenants[t].frozen_at # Never /\ tenants[t].frozen_at < now - PurgeAfter

purge_due(t) == /\ tenants[t].status = "frozen"
                /\ tenants[t].frozen_at # Never
                /\ tenants[t].frozen_at < now - PurgeAfter

list_due(r) ==
    /\ rep[r].pc = "trial_purge"
    /\ \/ rep' = [rep EXCEPT ![r].pc = "purge", ![r].todo = {t \in Tenants : purge_due(t)}] /\ UNCHANGED faults
       \/ Abort(r)
    /\ UNCHANGED <<now, tenants, data, lock, frame>>

(* The tenants a sweep has listed are all dealt with. *)
sweep_done(r) ==
    /\ rep[r].pc \in {"purge", "expire"} /\ rep[r].todo = {}
    /\ Finish(r)
    /\ UNCHANGED <<now, tenants, data, lock, faults, frame>>

(* control.purge_registry, and the foreign keys that do not cascade; the
   other tables to delete are represented by alert_events. *)
registry == [x \in enrolled \cup alerted \cup {"llm_metering", "audit_log"} |->
                IF x \in {"llm_metering", "audit_log"} THEN "retain" ELSE "delete"]

references == {<<"devices", "assets">>, <<"devices", "enrollment_tokens">>, <<"alerts", "correlation_groups">>}

(* The place of a table in PURGE_TABLE_ORDER. *)
purge_order_mutant == [alert_events |-> 1, alerts |-> 2, correlation_groups |-> 3,
                       enrollment_tokens |-> 4, assets |-> 5, devices |-> 6]

purge_order == [alert_events |-> 1, alerts |-> 2, correlation_groups |-> 3,
                devices |-> 4, enrollment_tokens |-> 5, assets |-> 6]

(* ordered_purge_tables: a table that is not in the list comes first. *)
position(x) == IF x \in DOMAIN purge_order THEN purge_order[x] ELSE Never

deletable == {x \in DOMAIN registry : registry[x] = "delete"}

(* No DELETE of the transaction meets rows that still refer to those it deletes. *)
FKSafe(t) ==
    \A e \in references :
        {e[1], e[2]} \subseteq rows[t] /\ e[2] \in deletable =>
            e[1] \in deletable /\ position(e[1]) < position(e[2])

(* One transaction, which a violated foreign key rolls back. *)
purge_tenant_pg(r, t) ==
    /\ rep[r].pc = "purge" /\ t \in rep[r].todo
    /\ \/ /\ FKSafe(t)
          /\ rows' = [rows EXCEPT ![t] = (@ \ deletable) \cup {"audit_log"}]
          /\ lost' = [lost EXCEPT ![t] = @ \/ rows[t] \cap deletable # {}]
          /\ rep' = [rep EXCEPT ![r].pc = "es", ![r].tenant = t, ![r].todo = @ \ {t}]
          /\ UNCHANGED faults
       \/ ~FKSafe(t) /\ Finish(r) /\ UNCHANGED <<rows, lost, faults>>
       \/ Abort(r) /\ UNCHANGED <<rows, lost>>
    /\ UNCHANGED <<now, tenants, es, keys, late, lock, frame>>

(* The indices are deleted by a wildcard, which a cluster that requires names
   refuses every time; the sweep ends there. *)
purge_tenant_es(r) ==
    LET t == rep[r].tenant IN
    /\ rep[r].pc = "es"
    /\ \/ /\ ~requires_name
          /\ es' = [es EXCEPT ![t] = {}]
          /\ lost' = [lost EXCEPT ![t] = @ \/ es[t] # {}]
          /\ Goto(r, "redis")
          /\ UNCHANGED faults
       \/ requires_name /\ Finish(r) /\ UNCHANGED <<es, lost, faults>>
       \/ Abort(r) /\ UNCHANGED <<es, lost>>
    /\ UNCHANGED <<now, tenants, rows, keys, late, lock, frame>>

purge_tenant_redis(r) ==
    LET t == rep[r].tenant IN
    /\ rep[r].pc = "redis"
    /\ \/ keys' = [keys EXCEPT ![t] = FALSE] /\ Goto(r, "mark") /\ UNCHANGED faults
       \/ Abort(r) /\ keys' \in {keys, [keys EXCEPT ![t] = FALSE]}
    /\ UNCHANGED <<now, tenants, rows, es, lost, late, lock, frame>>

mark_tenant_purged_mutant(t) == tenants' = [tenants EXCEPT ![t].status = "purged"]

(* MARK_TENANT_PURGED_SQL *)
mark_tenant_purged(t) ==
    tenants' = [tenants EXCEPT ![t].status = IF @ = "frozen" THEN "purged" ELSE @]

(* The statement, and the delete of the status copy that may fail after it. *)
purge_mark(r) ==
    /\ rep[r].pc = "mark"
    /\ \/ mark_tenant_purged(rep[r].tenant) /\ Goto(r, "purge") /\ UNCHANGED faults
       \/ mark_tenant_purged(rep[r].tenant) /\ Abort(r)
       \/ UNCHANGED tenants /\ Abort(r)
    /\ UNCHANGED <<now, data, lock, frame>>

----------------------------------------------------------------------------
(* retention_purge.  A monthly index is named after a year and a month; year
   0 begins StartMonth - 1 months before day 0. *)

index_of(day) == LET m == StartMonth - 1 + day \div MonthLength IN <<m \div 12, (m % 12) + 1>>

first_of(year, month) == (12 * year + month - StartMonth) * MonthLength

month_end_utc_mutant(i) == IF i[2] = 12 THEN first_of(i[1], 1) ELSE first_of(i[1], i[2] + 1)

(* The first instant after the month. *)
month_end_utc(i) == IF i[2] = 12 THEN first_of(i[1] + 1, 1) ELSE first_of(i[1], i[2] + 1)

select_expired_indices(days, retention, at) ==
    {i \in {index_of(e) : e \in days} : at - month_end_utc(i) > retention}

retention_days_for(t, plan) ==
    IF t \in DOMAIN Override THEN Override[t]
    ELSE IF plan \in DOMAIN PlanRetention THEN PlanRetention[plan]
    ELSE DefaultRetention

(* ACTIVE_TENANTS_SQL *)
tenant_rows == {t \in Tenants : tenants[t].status \in {"active", "frozen"}}

(* The clock and the tenants with their plans are read once for the sweep. *)
list_tenants(r) ==
    /\ rep[r].pc = "retention_purge"
    /\ \/ /\ rep' = [rep EXCEPT ![r].pc = "expire", ![r].at = now,
                        ![r].todo = tenant_rows,
                        ![r].plan = [t \in Tenants |-> tenants[t].plan]]
          /\ UNCHANGED faults
       \/ Abort(r)
    /\ UNCHANGED <<now, tenants, data, lock, frame>>

(* A listing that fails passes over the tenant. *)
list_indices(r, t) ==
    /\ rep[r].pc = "expire" /\ t \in rep[r].todo
    /\ \/ /\ rep' = [rep EXCEPT ![r].pc = "delete", ![r].tenant = t, ![r].todo = @ \ {t},
               ![r].expired = select_expired_indices(es[t], retention_days_for(t, rep[r].plan[t]), rep[r].at)]
          /\ UNCHANGED faults
       \/ Fault /\ rep' = [rep EXCEPT ![r].todo = @ \ {t}]
       \/ Abort(r)
    /\ UNCHANGED <<now, tenants, data, lock, frame>>

(* An index that is no longer there makes the delete fail. *)
delete_index(r, i) ==
    LET t == rep[r].tenant IN
    /\ rep[r].pc = "delete" /\ i \in rep[r].expired
    /\ \/ /\ \E e \in es[t] : index_of(e) = i
          /\ es' = [es EXCEPT ![t] = {e \in @ : index_of(e) # i}]
          /\ \/ rep' = [rep EXCEPT ![r].expired = @ \ {i}] /\ UNCHANGED faults
             \/ Abort(r)
       \/ (\A e \in es[t] : index_of(e) # i) /\ Finish(r) /\ UNCHANGED <<es, faults>>
       \/ Abort(r) /\ UNCHANGED es
    /\ UNCHANGED <<now, tenants, rows, keys, lost, late, lock, frame>>

tenant_done(r) ==
    /\ rep[r].pc = "delete" /\ rep[r].expired = {}
    /\ Goto(r, "expire")
    /\ UNCHANGED <<now, tenants, data, lock, faults, frame>>

----------------------------------------------------------------------------
(* What goes on beside the jobs. *)

(* A sweep is about to delete data of the tenant. *)
Listed(t) == \E r \in Replicas : rep[r].job = "trial_purge" /\
                 (t \in rep[r].todo \/ (t = rep[r].tenant /\ rep[r].pc \in {"es", "redis", "mark"}))

(* A tenant not in use, with its data being deleted or deleted. *)
purging(t) == tenants[t].status = "purged" \/ (tenants[t].status = "frozen" /\ Listed(t))

(* UPDATE_TENANT_PLAN *)
change_plan(t, plan) ==
    LET converts == plan # "trial" /\ tenants[t].status = "frozen" IN
    /\ changes < MaxChanges /\ changes' = changes + 1
    /\ tenants' = [tenants EXCEPT ![t].plan = plan,
           ![t].trial_expires_at = IF plan = "trial" THEN @ ELSE Never,
           ![t].status = IF converts THEN "active" ELSE @]
    /\ overlap' = [overlap EXCEPT ![t] = @ \/ (converts /\ (Listed(t) \/ lost[t]))]
    /\ UNCHANGED <<requires_name, now, data, lock, rep, faults>>

(* The normalizer stores an event of some day; of what follows from it the
   most is taken: an alert, and its triage.  Only the API looks at the tenant's
   status: what it accepted waits in the streams and is stored all the same. *)
store(t, day) ==
    /\ Cardinality(es[t] \cup late[t] \cup {day}) <= MaxEvents
    /\ es' = [es EXCEPT ![t] = @ \cup {day}]
    /\ rows' = [rows EXCEPT ![t] = @ \cup alerted \cup {"llm_metering"}]
    /\ keys' = [keys EXCEPT ![t] = TRUE]
    /\ late' = [late EXCEPT ![t] = IF purging(t) THEN @ \cup {day} ELSE @]
    /\ UNCHANGED <<now, tenants, lock, rep, faults, lost, frame>>

Tick == now < MaxTime /\ now' = now + 1 /\ UNCHANGED <<tenants, data, lock, rep, faults, frame>>

ReplicaStep(r) ==
    \/ acquire_job_lock(r) \/ release_job_lock(r)
    \/ job_trial_freeze(r)
    \/ list_due(r) \/ list_tenants(r) \/ sweep_done(r)
    \/ \E t \in Tenants : purge_tenant_pg(r, t) \/ list_indices(r, t)
    \/ purge_tenant_es(r) \/ purge_tenant_redis(r) \/ purge_mark(r)
    \/ \E i \in rep[r].expired : delete_index(r, i)
    \/ tenant_done(r)

Next ==
    \/ \E r \in Replicas : ReplicaStep(r) \/ crash(r)
    \/ \E j \in Jobs : lock_expires(j)
    \/ \E t \in Tenants : \/ \E p \in Plans : change_plan(t, p)
                          \/ \E day \in 0..now : store(t, day)
    \/ Tick

Fairness ==
    /\ \A r \in Replicas : WF_vars(ReplicaStep(r))
    /\ \A j \in Jobs : WF_vars(lock[j] = Orphan /\ lock_expires(j))
    /\ WF_vars(Tick)

Spec == Init /\ [][Next]_vars /\ Fairness

----------------------------------------------------------------------------
(* Type correctness of the tenants, their data, the locks and the replicas. *)
TypeOK ==
    /\ now \in 0..MaxTime
    /\ tenants \in [Tenants -> [status : {"active", "frozen", "purged"}, plan : Plans,
                                trial_expires_at : Nat \cup {Never}, frozen_at : Nat \cup {Never}]]
    /\ rows \in [Tenants -> SUBSET DOMAIN registry]
    /\ es \in [Tenants -> SUBSET Nat]
    /\ requires_name \in BOOLEAN /\ late \in [Tenants -> SUBSET Nat]
    /\ keys \in [Tenants -> BOOLEAN] /\ lost \in [Tenants -> BOOLEAN] /\ overlap \in [Tenants -> BOOLEAN]
    /\ lock \in [Jobs -> Replicas \cup {Free, Orphan}]
    /\ changes \in 0..MaxChanges /\ faults \in 0..MaxFaults
    /\ \A r \in Replicas :
        /\ rep[r].job \in Jobs
        /\ rep[r].pc \in Jobs \cup {"idle", "purge", "es", "redis", "mark", "expire", "delete", "release"}
        /\ rep[r].todo \subseteq Tenants /\ rep[r].tenant \in Tenants \cup {NoTenant}
        /\ rep[r].outlived \in BOOLEAN

(* Two replicas are in the same job at once only if one of them has outlived its lock: *)
(* crashes, lost answers and late releases never let a second one in                   *)
(* (runner.py run_job_once, RELEASE_LOCK_LUA).                                         *)
AloneUnlessOutlived ==
    \A r, s \in Replicas, j \in Jobs :
        r # s /\ Running(r, j) /\ Running(s, j) => rep[r].outlived \/ rep[s].outlived

(* A tenant that is marked purged keeps the rows of the retained tables, the audit row *)
(* of the purge among them, and nothing else but what the pipeline stored for it while *)
(* it was frozen and under a sweep or after the purge, however the sweeps of several   *)
(* replicas, their failures and conversions interleave.  On a cluster that requires    *)
(* names no tenant gets so far (tasks.py job_trial_purge, ordered_purge_tables).       *)
PurgedKeepsRetained ==
    \A t \in Tenants : tenants[t].status = "purged" =>
        /\ ~requires_name
        /\ "audit_log" \in rows[t]
        /\ rows[t] \subseteq {"llm_metering", "audit_log"} \cup (IF late[t] = {} THEN {} ELSE alerted)
        /\ es[t] \subseteq late[t]
        /\ keys[t] => late[t] # {}

(* A tenant in use has lost data to a purge only if it was converted while a sweep had *)
(* already listed it, or after an unfinished sweep had deleted part of its data        *)
(* (tasks.py job_trial_purge, controlplane change_plan).                               *)
DataLostOnlyByOverlap ==
    \A t \in Tenants : tenants[t].status = "active" /\ lost[t] => overlap[t]

(* The retention sweep deletes no event that is younger than the retention it read for *)
(* the tenant, at the turn of the year and for events stored late too                  *)
(* (tasks.py select_expired_indices).                                                  *)
RetentionKeeps ==
    [][\A r \in Replicas : rep[r].pc = "delete" /\ rep'[r] # rep[r] =>
          \A e \in es[rep[r].tenant] \ es'[rep[r].tenant] : 
              now - e > retention_days_for(rep[r].tenant, rep[r].plan[rep[r].tenant])]_vars

(* Where the cluster accepts the wildcard, every tenant that freezes early enough is   *)
(* purged in the end or converted, whatever crashes or fails on the way: a sweep that   *)
(* did not finish is finished by a later one (tasks.py job_trial_purge).  The cluster   *)
(* the repository pins does not: see PurgedKeepsRetained.                               *)
TrialEnds ==
    \A t \in Tenants :
        (~requires_name /\ tenants[t].status = "frozen" /\ tenants[t].frozen_at < MaxTime - PurgeAfter)
            ~> tenants[t].status # "frozen"

=============================================================================
