---------------------------- MODULE Provisioning ----------------------------
(***************************************************************************)
(* Signup of one organisation (controlplane routes/signup.py) and the saga *)
(* that provisions its tenant (controlplane saga.py).  The control plane   *)
(* is a set of processes over one database.  A verification link is used   *)
(* once; the request that uses it marks the account, starts the saga and   *)
(* creates the tenant row in separate statements, and then leaves the      *)
(* remaining steps to a background task.  A process that starts runs every *)
(* saga that is still running, whoever else may be running it.             *)
(*                                                                         *)
(* Abstracted: the abuse controls and the password policy in front of the  *)
(* signup, which store nothing about the account; an error of a step or of *)
(* a statement is any of its causes.                                       *)
(***************************************************************************)
EXTENDS Integers, Sequences, FiniteSetsExt

CONSTANTS
    Processes,    \* processes of the control plane
    Tasks,        \* tasks that run the saga at once
    MaxTokens,    \* bound on verification links mailed
    MaxAttempts,  \* saga_step_max_attempts
    MaxFaults     \* bound on crashes and errors

ASSUME ProvisioningAssumption ==
    /\ Processes # {}
    /\ IsFiniteSet(Processes) /\ IsFiniteSet(Tasks)
    /\ MaxAttempts \in Nat \ {0}
    /\ {MaxTokens, MaxFaults} \subseteq Nat

STEP_ORDER ==
    <<"tenant_row", "rls_context", "es_index", "entitlements", "admin_user", "trial_expiry">>

VARIABLES
    account,   \* "none", "pending_verification" or "verified"
    tokens,    \* verification links mailed and neither used nor expired
    mailed,    \* links mailed so far
    saga,      \* its state, and whether its tenant_id is set
    steps,     \* its step rows: status and attempts
    tenant,    \* status of the tenant row, "none" while there is no row
    index,     \* the data plane has an index and an alias for the tenant
    admin,     \* the first admin user exists
    up,        \* processes that run
    verify,    \* [Processes -> the statement its verification request is at]
    task,      \* the tasks
    halfway,   \* a saga was left or loaded half started, or half failed
    raced,     \* two tasks ran the saga at once
    faults

vars == <<account, tokens, mailed, saga, steps, tenant, index, admin, up, verify, task,
          halfway, raced, faults>>

sagaRows == <<saga, steps, tenant, index, admin>>

Off == [pc |-> "off", proc |-> CHOOSE p \in Processes : TRUE, linked |-> FALSE,
        todo |-> {}, attempts |-> 0, done |-> FALSE]

Init ==
    /\ account = "none" /\ tokens = 0 /\ mailed = 0
    /\ saga = [state |-> "none", linked |-> FALSE]
    /\ steps = [i \in DOMAIN STEP_ORDER |-> [status |-> "pending", attempts |-> 0]]
    /\ tenant = "none" /\ index = FALSE /\ admin = FALSE
    /\ up = {CHOOSE p \in Processes : TRUE}
    /\ verify = [p \in Processes |-> "idle"]
    /\ task = [t \in Tasks |-> Off]
    /\ halfway = FALSE /\ raced = FALSE /\ faults = 0

Fault == faults < MaxFaults /\ faults' = faults + 1

----------------------------------------------------------------------------
(* The statements of queries.py that several operations use. *)

CONSUME_VERIFICATION == tokens > 0 /\ tokens' = tokens - 1

INSERT_TENANT == tenant' = IF tenant = "none" THEN "provisioning" ELSE tenant

INSERT_SAGA == saga' = IF saga.state = "none" THEN [saga EXCEPT !.state = "running"] ELSE saga

UPDATE_SAGA_TENANT == saga' = [saga EXCEPT !.linked = TRUE]

COMPLETE_SAGA(state) == saga' = [saga EXCEPT !.state = state]

MARK_SAGA_STEP(i, status, attempts) ==
    steps' = [steps EXCEPT ![i] = [status |-> status, attempts |-> attempts]]

----------------------------------------------------------------------------
(* Signup and verification. *)

send_verification_email ==
    mailed < MaxTokens /\ mailed' = mailed + 1 /\ tokens' = tokens + 1

signup ==
    /\ up # {} /\ account = "none"
    /\ account' = "pending_verification"
    /\ send_verification_email
    /\ UNCHANGED <<sagaRows, up, verify, task, halfway, raced, faults>>

resend_verification ==
    /\ up # {} /\ account = "pending_verification"
    /\ send_verification_email
    /\ UNCHANGED <<account, sagaRows, up, verify, task, halfway, raced, faults>>

(* Links expire after 24 hours. *)
token_expires ==
    /\ tokens > 0 /\ tokens' = tokens - 1
    /\ UNCHANGED <<account, mailed, sagaRows, up, verify, task, halfway, raced, faults>>

At(p, pc, to) == verify[p] = pc /\ verify' = [verify EXCEPT ![p] = to]

(* CONSUME_VERIFICATION: compare and set of one row. *)
verify_consume(p) ==
    /\ p \in up
    /\ At(p, "idle", "mark")
    /\ CONSUME_VERIFICATION
    /\ UNCHANGED <<account, mailed, sagaRows, up, task, halfway, raced, faults>>

verify_mark(p) ==
    /\ At(p, "mark", "saga")
    /\ account' = "verified"
    /\ UNCHANGED <<tokens, mailed, sagaRows, up, task, halfway, raced, faults>>

(* ensure_started, statement by statement. *)
ensure_saga(p) ==
    /\ At(p, "saga", IF saga.linked THEN "spawn" ELSE "tenant")
    /\ INSERT_SAGA
    /\ UNCHANGED <<account, tokens, mailed, steps, tenant, index, admin, up, task, halfway, raced, faults>>

(* One tenant per account: a second insert is an error of the request. *)
ensure_tenant(p) ==
    /\ At(p, "tenant", IF tenant = "none" THEN "link" ELSE "idle")
    /\ INSERT_TENANT
    /\ UNCHANGED <<account, tokens, mailed, saga, steps, index, admin, up, task, halfway, raced, faults>>

ensure_link(p) ==
    /\ At(p, "link", "step")
    /\ UPDATE_SAGA_TENANT
    /\ UNCHANGED <<account, tokens, mailed, steps, tenant, index, admin, up, task, halfway, raced, faults>>

ensure_step(p) ==
    /\ At(p, "step", "spawn")
    /\ MARK_SAGA_STEP(1, "done", 1)
    /\ UNCHANGED <<account, tokens, mailed, saga, tenant, index, admin, up, task, halfway, raced, faults>>

on == {t \in Tasks : task[t].pc # "off"}

start(t, p) == task' = [task EXCEPT ![t] = [Off EXCEPT !.pc = "load", !.proc = p]]

verify_spawn(p) ==
    /\ At(p, "spawn", "idle")
    /\ \E t \in Tasks \ on : start(t, p)
    /\ raced' = (raced \/ on # {})
    /\ UNCHANGED <<account, tokens, mailed, sagaRows, up, halfway, faults>>

(* A statement of the request fails: it is answered with an error.  What was *)
(* written stays; only a restart starts a task.                              *)
verify_fails(p) ==
    /\ verify[p] # "idle" /\ Fault
    /\ verify' = [verify EXCEPT ![p] = "idle"]
    /\ halfway' = (halfway \/ verify[p] # "mark")
    /\ UNCHANGED <<account, tokens, mailed, sagaRows, up, task, raced>>

----------------------------------------------------------------------------
(* ProvisioningSaga.run. *)

(* The loop takes the steps in order: the next one is the least of these. *)
Pending(rows) == {i \in DOMAIN rows : rows[i].status # "done"}

run_load(t) ==
    /\ task[t].pc = "load"
    /\ LET todo == Pending(steps)
       IN task' = [task EXCEPT ![t] = IF saga.state # "running" THEN Off
                     ELSE [@ EXCEPT !.pc = IF todo = {} THEN "complete" ELSE "exec",
                             !.linked = saga.linked, !.todo = todo,
                             !.attempts = IF todo = {} THEN 0 ELSE steps[Min(todo)].attempts]]
    /\ halfway' = (halfway \/ (saga.state = "running" /\ ~saga.linked))
    /\ UNCHANGED <<account, tokens, mailed, sagaRows, up, verify, raced, faults>>

(* What a step leaves behind; every step may be repeated. *)
provision_tenant == index' = TRUE

step_admin_user == admin' = TRUE

step_trial_expiry == tenant' = "active"

execute_step(step) ==
    /\ IF step = "es_index" THEN provision_tenant ELSE UNCHANGED index
    /\ IF step = "admin_user" THEN step_admin_user ELSE UNCHANGED admin
    /\ IF step = "trial_expiry" THEN step_trial_expiry ELSE UNCHANGED tenant

run_step(t) ==
    /\ task[t].pc = "exec"
    /\ LET step == STEP_ORDER[Min(task[t].todo)]
           tried == task[t].attempts + 1
       IN \/ /\ task[t].attempts < MaxAttempts /\ task[t].linked
             /\ execute_step(step)
             /\ task' = [task EXCEPT ![t].pc = "mark", ![t].attempts = tried, ![t].done = TRUE]
             /\ UNCHANGED faults
          \/ /\ task[t].attempts < MaxAttempts
             /\ IF task[t].linked THEN Fault ELSE UNCHANGED faults
             /\ task' = [task EXCEPT ![t].attempts = tried, ![t].done = FALSE,
                                     ![t].pc = IF tried < MaxAttempts THEN "exec" ELSE "mark"]
             /\ UNCHANGED <<index, admin, tenant>>
          \/ /\ task[t].attempts >= MaxAttempts
             /\ task' = [task EXCEPT ![t].pc = "mark", ![t].done = FALSE]
             /\ UNCHANGED <<index, admin, tenant, faults>>
    /\ UNCHANGED <<account, tokens, mailed, saga, steps, up, verify, halfway, raced>>

run_mark_mutant(t) ==
    /\ task[t].pc = "mark"
    /\ LET i == Min(task[t].todo)
           rest == task[t].todo \ {i}
       IN /\ MARK_SAGA_STEP(i, IF task[t].done THEN "done" ELSE "failed", task[t].attempts)
          /\ task' = [task EXCEPT ![t] = IF rest = {} THEN [@ EXCEPT !.pc = "complete"]
                        ELSE [@ EXCEPT !.pc = "exec", !.todo = rest, !.attempts = 0]]
    /\ UNCHANGED <<account, tokens, mailed, saga, tenant, index, admin, up, verify, halfway, raced, faults>>

(* The attempts of the next step are those of the rows that were loaded; a *)
(* step that is pending there has none.                                    *)
run_mark(t) ==
    /\ task[t].pc = "mark"
    /\ LET i == Min(task[t].todo)
           rest == task[t].todo \ {i}
       IN /\ MARK_SAGA_STEP(i, IF task[t].done THEN "done" ELSE "failed", task[t].attempts)
          /\ task' = [task EXCEPT ![t] =
                        IF ~task[t].done THEN [@ EXCEPT !.pc = "fail"]
                        ELSE IF rest = {} THEN [@ EXCEPT !.pc = "complete", !.todo = rest]
                        ELSE [@ EXCEPT !.pc = "exec", !.todo = rest, !.attempts = 0]]
    /\ UNCHANGED <<account, tokens, mailed, saga, tenant, index, admin, up, verify, halfway, raced, faults>>

run_complete(t) ==
    /\ task[t].pc = "complete"
    /\ COMPLETE_SAGA("succeeded")
    /\ task' = [task EXCEPT ![t] = Off]
    /\ UNCHANGED <<account, tokens, mailed, steps, tenant, index, admin, up, verify, halfway, raced, faults>>

(* _fail_terminally: the saga first, then the tenant, if the task knows one. *)
fail_saga(t) ==
    /\ task[t].pc = "fail"
    /\ COMPLETE_SAGA("failed")
    /\ task' = [task EXCEPT ![t] = IF task[t].linked THEN [@ EXCEPT !.pc = "fail_tenant"] ELSE Off]
    /\ UNCHANGED <<account, tokens, mailed, steps, tenant, index, admin, up, verify, halfway, raced, faults>>

fail_tenant_mutant(t) ==
    /\ task[t].pc = "fail_tenant"
    /\ task' = [task EXCEPT ![t] = Off]
    /\ UNCHANGED <<account, tokens, mailed, sagaRows, up, verify, halfway, raced, faults>>

fail_tenant(t) ==
    /\ task[t].pc = "fail_tenant"
    /\ tenant' = "provisioning_failed"
    /\ task' = [task EXCEPT ![t] = Off]
    /\ UNCHANGED <<account, tokens, mailed, saga, steps, index, admin, up, verify, halfway, raced, faults>>

(* A statement around a step fails: the exception ends the task, and nothing *)
(* but a restart runs the saga again.                                        *)
run_fails(t) ==
    /\ task[t].pc \in {"load", "mark", "complete", "fail", "fail_tenant"}
    /\ Fault
    /\ task' = [task EXCEPT ![t] = Off]
    /\ halfway' = TRUE
    /\ UNCHANGED <<account, tokens, mailed, sagaRows, up, verify, raced>>

----------------------------------------------------------------------------
(* Processes. *)

crash(p) ==
    /\ p \in up /\ Fault
    /\ up' = up \ {p}
    /\ verify' = [verify EXCEPT ![p] = "idle"]
    /\ task' = [t \in Tasks |-> IF task[t].proc = p THEN Off ELSE task[t]]
    /\ halfway' = \/ halfway
                  \/ verify[p] \in {"saga", "tenant", "link"}
                  \/ \E t \in Tasks : task[t].proc = p /\ task[t].pc = "fail_tenant"
    /\ UNCHANGED <<account, tokens, mailed, sagaRows, raced>>

(* The lifespan of the app: resume_running before it serves requests. *)
resume_running_mutant(p) ==
    /\ p \notin up /\ up' = up \cup {p}
    /\ UNCHANGED <<account, tokens, mailed, sagaRows, verify, task, halfway, raced, faults>>

resume_running(p) ==
    /\ p \notin up /\ up' = up \cup {p}
    /\ IF saga.state = "running"
       THEN /\ \E t \in Tasks \ on : start(t, p)
            /\ raced' = (raced \/ on # {})
       ELSE UNCHANGED <<task, raced>>
    /\ UNCHANGED <<account, tokens, mailed, sagaRows, verify, halfway, faults>>

VerifyStep(p) ==
    \/ verify_mark(p) \/ ensure_saga(p) \/ ensure_tenant(p) \/ ensure_link(p) \/ ensure_step(p)
    \/ verify_spawn(p)

TaskStep(t) ==
    run_load(t) \/ run_step(t) \/ run_mark(t) \/ run_complete(t) \/ fail_saga(t) \/ fail_tenant(t)

Next ==
    \/ signup \/ resend_verification \/ token_expires
    \/ \E p \in Processes :
          verify_consume(p) \/ VerifyStep(p) \/ verify_fails(p) \/ crash(p) \/ resume_running(p)
    \/ \E t \in Tasks : TaskStep(t) \/ run_fails(t)

(* The event loop runs every request and task; the supervisor restarts processes. *)
Fairness ==
    /\ \A p \in Processes : WF_vars(VerifyStep(p)) /\ WF_vars(resume_running(p))
    /\ \A t \in Tasks : WF_vars(TaskStep(t))

Spec == Init /\ [][Next]_vars /\ Fairness

----------------------------------------------------------------------------
(* Type correctness of the rows and of the tasks. *)
TaskRecords ==
    [pc : {"off", "load", "exec", "mark", "complete", "fail", "fail_tenant"}, proc : Processes,
     linked : BOOLEAN, todo : SUBSET (1..6), attempts : Nat, done : BOOLEAN]

TypeOK ==
    /\ account \in {"none", "pending_verification", "verified"}
    /\ tokens \in Nat /\ mailed \in Nat /\ faults \in Nat
    /\ saga \in [state : {"none", "running", "succeeded", "failed"}, linked : BOOLEAN]
    /\ steps \in [1..6 -> [status : {"pending", "done", "failed"}, attempts : Nat]]
    /\ tenant \in {"none", "provisioning", "active", "provisioning_failed"}
    /\ index \in BOOLEAN /\ admin \in BOOLEAN
    /\ up \subseteq Processes
    /\ verify \in [Processes -> {"idle", "mark", "saga", "tenant", "link", "step", "spawn"}]
    /\ task \in [Tasks -> TaskRecords]
    /\ halfway \in BOOLEAN /\ raced \in BOOLEAN

(* A tenant is active only when its index exists and its first admin user does, *)
(* whichever tasks ran which steps of the saga and were cut off where           *)
(* (saga.py run, STEP_ORDER).                                                   *)
ActiveIsProvisioned == tenant = "active" => index /\ admin

(* As long as no two tasks ran the saga at once and none was left half done, a  *)
(* saga that has ended tells the status of its tenant (saga.py run and          *)
(* _fail_terminally): tasks that were cut off before it and resumed included.   *)
OutcomeAgrees ==
    ~raced /\ ~halfway /\ on = {} =>
        /\ saga.state = "succeeded" => tenant = "active"
        /\ saga.state = "failed" => tenant = "provisioning_failed"

(* A verified account gets a tenant that is ready or reported as failed         *)
(* (signup.py provisioning_status), crashes between any two statements          *)
(* included, except for a saga that was left half started or half failed.       *)
VerifiedSettles ==
    account = "verified" ~> tenant \in {"active", "provisioning_failed"} \/ halfway

=============================================================================
