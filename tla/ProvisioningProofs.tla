---------------------------- MODULE ProvisioningProofs ----------------------------
(***************************************************************************)
(* Proofs about Provisioning: a tenant is active only with its index and   *)
(* its first admin user, and a saga that has ended agrees with its tenant. *)
(***************************************************************************)
EXTENDS Provisioning, TLAPS

----------------------------------------------------------------------------
(* The inductive invariant of ActiveIsProvisioned.  It speaks of any number of tasks *)
(* that run the saga at once, so it uses only what no task ever undoes: the index    *)
(* and the admin user stay.                                                          *)

(* What step i leaves behind, of the two steps a ready tenant needs. *)
Effect(i) == (i = 3 => index) /\ (i = 5 => admin)

DoneHasEffect == \A i \in 1..6 : steps[i].status = "done" => Effect(i)

(* A task left out only steps that it found done or has done. *)
PassedHaveEffect ==
    \A t \in Tasks : task[t].pc \in {"exec", "mark"} =>
        /\ task[t].todo # {}
        /\ \A i \in 1..6 \ task[t].todo : Effect(i)
        /\ task[t].pc = "mark" /\ task[t].done => Effect(Min(task[t].todo))

ReadyInv == TypeOK /\ DoneHasEffect /\ PassedHaveEffect /\ ActiveIsProvisioned

----------------------------------------------------------------------------
(* The inductive invariant of OutcomeAgrees, which holds while one task runs the     *)
(* saga at a time and none was left half done.                                       *)
Alone == \A t, u \in Tasks : task[t].pc # "off" /\ task[u].pc # "off" => t = u

Running ==
    \A t \in Tasks :
        /\ task[t].pc \notin {"off", "load", "fail_tenant"} => saga.state = "running"
        /\ task[t].pc \notin {"off", "load"} => task[t].linked

(* What a task has still to do is what is not done, up to the last step. *)
TodoExact ==
    \A t \in Tasks :
        /\ task[t].pc \in {"exec", "mark"} =>
              /\ 6 \in task[t].todo
              /\ \A i \in 1..6 \ task[t].todo : steps[i].status = "done"
        /\ task[t].pc \in {"exec", "mark", "fail", "fail_tenant"} => steps[6].status # "done"
        /\ task[t].pc = "mark" /\ task[t].done /\ Min(task[t].todo) = 6 => tenant = "active"
        /\ task[t].pc = "complete" => steps[6].status = "done"

(* The last step is the one that makes the tenant active. *)
LastStep ==
    steps[6].status = "done" => tenant = "active" /\ \A i \in 1..6 : steps[i].status = "done"

Ended ==
    /\ saga.state = "succeeded" => steps[6].status = "done"
    /\ saga.state = "failed" => tenant = "provisioning_failed" \/ \E t \in Tasks : task[t].pc = "fail_tenant"

SettleInv == ~raced /\ ~halfway => Alone /\ Running /\ TodoExact /\ LastStep /\ Ended

----------------------------------------------------------------------------
(* Steps and types. *)

(* Min is the least of the steps that are to do. *)
LEMMA MinStep ==
    ASSUME NEW S \in SUBSET (1..6), S # {}
    PROVE  Min(S) \in S /\ \A i \in S : Min(S) <= i
<1>1. \E i \in S : \A j \in S : i <= j
    <2>1. \A i \in S : i \in {1, 2, 3, 4, 5, 6}
        OBVIOUS
    <2>2. CASE 1 \in S
        BY <2>1, <2>2
    <2>3. CASE 1 \notin S /\ 2 \in S
        BY <2>1, <2>3
    <2>4. CASE 1 \notin S /\ 2 \notin S /\ 3 \in S
        BY <2>1, <2>4
    <2>5. CASE 1 \notin S /\ 2 \notin S /\ 3 \notin S /\ 4 \in S
        BY <2>1, <2>5
    <2>6. CASE 1 \notin S /\ 2 \notin S /\ 3 \notin S /\ 4 \notin S
        <3>1. \A i \in S : i \in {5, 6}
            BY <2>1, <2>6
        <3>2. CASE 5 \in S
            BY <3>1, <3>2
        <3>3. CASE 5 \notin S
            <4>1. \A i \in S : i = 6
                BY <3>1, <3>3
            <4>2. PICK i \in S : TRUE
                OBVIOUS
            <4>3. i <= i
                BY <4>1
            <4>4. QED
                BY <4>1, <4>3
        <3>4. QED
            BY <3>2, <3>3
    <2>7. QED
        BY <2>2, <2>3, <2>4, <2>5, <2>6
<1>2. QED
    BY <1>1 DEF Min

LEMMA OffTyped == Off \in TaskRecords /\ Off.pc = "off"
<1>1. (CHOOSE p \in Processes : TRUE) \in Processes
    BY ProvisioningAssumption DEF ProvisioningAssumption
<1>2. QED
    BY <1>1 DEF Off, TaskRecords

LEMMA InitTyped == Init => TypeOK
<1> SUFFICES ASSUME Init PROVE TypeOK
    OBVIOUS
<1>1. DOMAIN STEP_ORDER = 1..6
    BY DEF STEP_ORDER
<1>2. steps \in [1..6 -> [status : {"pending", "done", "failed"}, attempts : Nat]]
    BY <1>1 DEF Init
<1>3. task \in [Tasks -> TaskRecords]
    BY OffTyped DEF Init
<1>4. up \subseteq Processes
    BY ProvisioningAssumption DEF Init, ProvisioningAssumption
<1>5. QED
    BY <1>2, <1>3, <1>4 DEF Init, TypeOK

(* What the task's record becomes in each step of a task. *)
LEMMA LoadTyped ==
    ASSUME TypeOK, NEW t \in Tasks, run_load(t)
    PROVE  /\ \A u \in Tasks \ {t} : task'[u] = task[u]
           /\ \/ task'[t] = Off /\ saga.state # "running"
              \/ /\ saga.state = "running"
                 /\ task'[t] \in TaskRecords /\ task'[t].linked = saga.linked
                 /\ task'[t].todo = {i \in 1..6 : steps[i].status # "done"}
                 /\ task'[t].pc = (IF task'[t].todo = {} THEN "complete" ELSE "exec")
<1> DEFINE todo == Pending(steps)
           tries == IF todo = {} THEN 0 ELSE steps[Min(todo)].attempts
<1>1. todo = {i \in 1..6 : steps[i].status # "done"}
    BY DEF TypeOK, Pending
<1>2. tries \in Nat
    <2>1. CASE todo = {}
        BY <2>1
    <2>2. CASE todo # {}
        <3>1. Min(todo) \in 1..6
            BY <1>1, <2>2, MinStep
        <3>2. QED
            BY <2>2, <3>1 DEF TypeOK
    <2>3. QED
        BY <2>1, <2>2
<1>3. task[t] \in TaskRecords /\ saga.linked \in BOOLEAN /\ todo \in SUBSET (1..6)
    BY <1>1 DEF TypeOK
<1>4. task' = [task EXCEPT ![t] = IF saga.state # "running" THEN Off
                     ELSE [@ EXCEPT !.pc = IF todo = {} THEN "complete" ELSE "exec",
                             !.linked = saga.linked, !.todo = todo, !.attempts = tries]]
    BY DEF run_load
<1> HIDE DEF todo, tries
<1>5. \A u \in Tasks \ {t} : task'[u] = task[u]
    BY <1>4 DEF TypeOK
<1>6. CASE saga.state # "running"
    BY <1>4, <1>5, <1>6 DEF TypeOK
<1>7. CASE saga.state = "running"
    <2>1. task'[t] = [task[t] EXCEPT !.pc = IF todo = {} THEN "complete" ELSE "exec",
                             !.linked = saga.linked, !.todo = todo, !.attempts = tries]
        BY <1>4, <1>7 DEF TypeOK
    <2>2. task'[t] \in TaskRecords
        BY <1>2, <1>3, <2>1 DEF TaskRecords
    <2>3. QED
        BY <1>1, <1>3, <1>5, <1>7, <2>1, <2>2 DEF TaskRecords
<1>8. QED
    BY <1>6, <1>7

LEMMA StepTyped ==
    ASSUME TypeOK, NEW t \in Tasks, run_step(t)
    PROVE  /\ \A u \in Tasks \ {t} : task'[u] = task[u]
           /\ task'[t] \in TaskRecords /\ task'[t].pc \in {"exec", "mark"} /\ task[t].pc = "exec"
           /\ task'[t].todo = task[t].todo /\ task'[t].linked = task[t].linked
           /\ UNCHANGED <<saga, steps, raced, halfway>>
           /\ \/ /\ task'[t].pc = "mark" /\ task'[t].done /\ task[t].linked
                 /\ execute_step(STEP_ORDER[Min(task[t].todo)])
              \/ ~ task'[t].done /\ UNCHANGED <<index, admin, tenant>>
<1>1. task[t] \in TaskRecords /\ task[t].attempts \in Nat /\ task[t].attempts + 1 \in Nat
    BY DEF TypeOK, TaskRecords
<1>2. /\ \A u \in Tasks \ {t} : task'[u] = task[u]
      /\ UNCHANGED <<saga, steps, raced, halfway>> /\ task[t].pc = "exec"
    BY DEF run_step, TypeOK
<1>3. \/ /\ task'[t] = [task[t] EXCEPT !.pc = "mark", !.attempts = task[t].attempts + 1, !.done = TRUE]
         /\ task[t].linked /\ execute_step(STEP_ORDER[Min(task[t].todo)])
      \/ /\ \E pc \in {"exec", "mark"} :
               task'[t] = [task[t] EXCEPT !.attempts = task[t].attempts + 1, !.done = FALSE, !.pc = pc]
         /\ UNCHANGED <<index, admin, tenant>>
      \/ /\ task'[t] = [task[t] EXCEPT !.pc = "mark", !.done = FALSE]
         /\ UNCHANGED <<index, admin, tenant>>
    BY DEF run_step, TypeOK
<1>4. /\ task'[t] \in TaskRecords /\ task'[t].pc \in {"exec", "mark"}
      /\ task'[t].todo = task[t].todo /\ task'[t].linked = task[t].linked
    <2> DEFINE r == task[t]
               n == task[t].attempts + 1
    <2>1. r \in TaskRecords /\ n \in Nat
        BY <1>1
    <2> HIDE DEF r, n
    <2>2. \A p \in {"exec", "mark"}, b \in BOOLEAN :
            LET q == [r EXCEPT !.pc = p, !.attempts = n, !.done = b]
            IN  q \in TaskRecords /\ q.pc = p /\ q.todo = r.todo /\ q.linked = r.linked /\ q.done = b
        BY <2>1 DEF TaskRecords
    <2>3. LET q == [r EXCEPT !.pc = "mark", !.done = FALSE]
          IN  q \in TaskRecords /\ q.pc = "mark" /\ q.todo = r.todo /\ q.linked = r.linked
        BY <2>1 DEF TaskRecords
    <2>4. CASE task'[t] = [task[t] EXCEPT !.pc = "mark", !.attempts = task[t].attempts + 1, !.done = TRUE]
        BY <2>2, <2>4 DEF r, n
    <2>5. CASE \E pc \in {"exec", "mark"} :
                 task'[t] = [task[t] EXCEPT !.attempts = task[t].attempts + 1, !.done = FALSE, !.pc = pc]
        <3>1. PICK p \in {"exec", "mark"} :
                 task'[t] = [task[t] EXCEPT !.pc = p, !.attempts = task[t].attempts + 1, !.done = FALSE]
            BY <2>5
        <3> QED BY <2>2, <3>1, ZenonT(60) DEF r, n
    <2>6. CASE task'[t] = [task[t] EXCEPT !.pc = "mark", !.done = FALSE]
        BY <2>3, <2>6 DEF r
    <2> QED BY <1>3, <2>4, <2>5, <2>6
<1>5. \/ /\ task'[t].pc = "mark" /\ task'[t].done /\ task[t].linked
         /\ execute_step(STEP_ORDER[Min(task[t].todo)])
      \/ ~ task'[t].done /\ UNCHANGED <<index, admin, tenant>>
    <2>1. task[t] \in TaskRecords
        BY <1>1
    <2> QED BY <1>3, <2>1 DEF TaskRecords
<1>6. QED
    BY <1>2, <1>4, <1>5

LEMMA MarkTyped ==
    ASSUME TypeOK, NEW t \in Tasks, task[t].todo # {}, run_mark(t)
    PROVE  /\ \A u \in Tasks \ {t} : task'[u] = task[u]
           /\ task'[t] \in TaskRecords /\ task[t].pc = "mark" /\ task'[t].linked = task[t].linked
           /\ Min(task[t].todo) \in 1..6
           /\ steps' \in [1..6 -> [status : {"pending", "done", "failed"}, attempts : Nat]]
           /\ \A i \in 1..6 \ {Min(task[t].todo)} : steps'[i] = steps[i]
           /\ UNCHANGED <<saga, tenant, index, admin, raced, halfway>>
           /\ \/ /\ ~ task[t].done /\ task'[t].pc = "fail" /\ steps'[Min(task[t].todo)].status = "failed"
              \/ /\ task[t].done /\ steps'[Min(task[t].todo)].status = "done"
                 /\ task'[t].todo = task[t].todo \ {Min(task[t].todo)}
                 /\ task'[t].pc = (IF task'[t].todo = {} THEN "complete" ELSE "exec")
<1> DEFINE i == Min(task[t].todo)
           rest == task[t].todo \ {i}
           row == [status |-> IF task[t].done THEN "done" ELSE "failed", attempts |-> task[t].attempts]
<1>1. /\ task[t] \in TaskRecords /\ task[t].attempts \in Nat /\ task[t].todo \in SUBSET (1..6)
      /\ task[t].done \in BOOLEAN
    BY DEF TypeOK, TaskRecords
<1>2. i \in 1..6 /\ rest \in SUBSET (1..6)
    BY <1>1, MinStep
<1>3. row \in [status : {"pending", "done", "failed"}, attempts : Nat]
    BY <1>1
<1>4. /\ steps' = [steps EXCEPT ![i] = row]
      /\ task' = [task EXCEPT ![t] =
                    IF ~task[t].done THEN [@ EXCEPT !.pc = "fail"]
                    ELSE IF rest = {} THEN [@ EXCEPT !.pc = "complete", !.todo = rest]
                    ELSE [@ EXCEPT !.pc = "exec", !.todo = rest, !.attempts = 0]]
      /\ UNCHANGED <<saga, tenant, index, admin, raced, halfway>> /\ task[t].pc = "mark"
    BY DEF run_mark, MARK_SAGA_STEP
<1>5. row.status = (IF task[t].done THEN "done" ELSE "failed")
    OBVIOUS
<1> HIDE DEF i, rest, row
<1>6. /\ steps' \in [1..6 -> [status : {"pending", "done", "failed"}, attempts : Nat]]
      /\ steps'[i] = row /\ \A j \in 1..6 \ {i} : steps'[j] = steps[j]
    BY <1>2, <1>3, <1>4 DEF TypeOK
<1>7. /\ \A u \in Tasks \ {t} : task'[u] = task[u]
      /\ \/ ~ task[t].done /\ task'[t] = [task[t] EXCEPT !.pc = "fail"]
         \/ task[t].done /\ rest = {} /\ task'[t] = [task[t] EXCEPT !.pc = "complete", !.todo = rest]
         \/ task[t].done /\ rest # {} /\ task'[t] = [task[t] EXCEPT !.pc = "exec", !.todo = rest, !.attempts = 0]
    BY <1>4 DEF TypeOK
<1>8. task'[t] \in TaskRecords /\ task'[t].linked = task[t].linked
    <2>1. CASE task'[t] = [task[t] EXCEPT !.pc = "fail"]
        BY <1>1, <2>1 DEF TaskRecords
    <2>2. CASE task'[t] = [task[t] EXCEPT !.pc = "complete", !.todo = rest]
        BY <1>1, <1>2, <2>2 DEF TaskRecords
    <2>3. CASE task'[t] = [task[t] EXCEPT !.pc = "exec", !.todo = rest, !.attempts = 0]
        <3> DEFINE old == task[t]
        <3>0. old \in TaskRecords
            BY <1>1
        <3>1. task'[t] = [old EXCEPT !.pc = "exec", !.todo = rest, !.attempts = 0]
            BY <2>3
        <3> HIDE DEF old
        <3>2. [old EXCEPT !.pc = "exec"] \in TaskRecords
            BY <3>0 DEF TaskRecords
        <3>3. [old EXCEPT !.pc = "exec", !.todo = rest] \in TaskRecords
            BY <1>2, <3>2 DEF TaskRecords
        <3>4. [old EXCEPT !.pc = "exec", !.todo = rest, !.attempts = 0] \in TaskRecords
            BY <1>2, <3>3 DEF TaskRecords
        <3>5. task'[t].linked = old.linked
            BY <3>0, <3>1 DEF TaskRecords
        <3>6. QED
            BY <3>1, <3>4, <3>5 DEF old
    <2>4. QED
        BY <1>7, <2>1, <2>2, <2>3
<1>9. \/ ~ task[t].done /\ task'[t].pc = "fail"
      \/ /\ task[t].done /\ task'[t].todo = rest
         /\ task'[t].pc = (IF task'[t].todo = {} THEN "complete" ELSE "exec")
    <2>1. CASE ~ task[t].done /\ task'[t] = [task[t] EXCEPT !.pc = "fail"]
        BY <1>1, <2>1, SMTT(30) DEF TaskRecords
    <2>2. CASE task[t].done /\ rest = {} /\ task'[t] = [task[t] EXCEPT !.pc = "complete", !.todo = rest]
        BY <1>1, <2>2, SMTT(30) DEF TaskRecords
    <2>3. CASE /\ task[t].done /\ rest # {}
               /\ task'[t] = [task[t] EXCEPT !.pc = "exec", !.todo = rest, !.attempts = 0]
        <3>1. task'[t].todo = rest /\ task'[t].pc = "exec"
            BY <1>1, <2>3, SMTT(30) DEF TaskRecords
        <3>2. QED
            BY <2>3, <3>1
    <2>4. QED
        BY <1>7, <2>1, <2>2, <2>3
<1>10. QED
    BY <1>2, <1>4, <1>5, <1>6, <1>7, <1>8, <1>9 DEF i, rest

(* A task is started in a slot that was free. *)
LEMMA StartTyped ==
    ASSUME TypeOK, NEW t \in Tasks, NEW p \in Processes, start(t, p)
    PROVE  /\ \A u \in Tasks \ {t} : task'[u] = task[u]
           /\ task'[t] \in TaskRecords /\ task'[t].pc = "load"
<1>1. task'[t] = [Off EXCEPT !.pc = "load", !.proc = p]
    BY DEF start, TypeOK
<1>2. task'[t] \in TaskRecords /\ task'[t].pc = "load"
    BY <1>1, OffTyped DEF TaskRecords
<1>3. QED
    BY <1>2 DEF start, TypeOK

(* A task ends, or turns to the tenant of the saga it has failed. *)
LEMMA EndTyped ==
    ASSUME TypeOK, NEW t \in Tasks, run_complete(t) \/ fail_saga(t) \/ fail_tenant(t) \/ run_fails(t)
    PROVE  /\ \A u \in Tasks \ {t} : task'[u] = task[u]
           /\ task'[t] \in TaskRecords
           /\ task'[t] = Off \/ task'[t] = [task[t] EXCEPT !.pc = "fail_tenant"]
           /\ UNCHANGED <<account, tokens, mailed, steps, index, admin, up, verify, raced>>
<1>1. /\ \A u \in Tasks \ {t} : task'[u] = task[u]
      /\ task'[t] = Off \/ task'[t] = [task[t] EXCEPT !.pc = "fail_tenant"]
    BY DEF run_complete, fail_saga, fail_tenant, run_fails, TypeOK
<1>2. task[t] \in TaskRecords
    BY DEF TypeOK
<1>3. task'[t] \in TaskRecords
    BY <1>1, <1>2, OffTyped DEF TaskRecords
<1>4. UNCHANGED <<account, tokens, mailed, steps, index, admin, up, verify, raced>>
    BY DEF run_complete, fail_saga, fail_tenant, run_fails, sagaRows
<1>5. QED
    BY <1>1, <1>3, <1>4

LEMMA TaskDomain ==
    ASSUME TypeOK, [Next]_vars, \A t \in Tasks : task'[t] \in TaskRecords
    PROVE  task' \in [Tasks -> TaskRecords]
<1>1. task' = task \/ task' = [t \in Tasks |-> task'[t]]
    BY ZenonT(60) DEF TypeOK, vars, Next, signup, resend_verification, token_expires, verify_consume, VerifyStep,
           verify_mark, ensure_saga, ensure_tenant, ensure_link, ensure_step, verify_spawn, verify_fails,
           crash, resume_running, start, TaskStep, run_load, run_step, run_mark, run_complete, fail_saga,
           fail_tenant, run_fails
<1>2. QED
    BY <1>1 DEF TypeOK

(* The verification requests leave the tasks alone; the last of them starts one. *)
LEMMA VerifyTyped ==
    ASSUME TypeOK, NEW p \in Processes,
           verify_consume(p) \/ VerifyStep(p) \/ verify_fails(p) \/ crash(p) \/ resume_running(p)
    PROVE  TypeOK'
<1>1. verify' \in [Processes -> {"idle", "mark", "saga", "tenant", "link", "step", "spawn"}]
    BY DEF TypeOK, VerifyStep, verify_consume, verify_mark, ensure_saga, ensure_tenant, ensure_link, ensure_step,
           verify_spawn, verify_fails, crash, resume_running, At
<1>2. /\ account' \in {"none", "pending_verification", "verified"}
      /\ up' \subseteq Processes /\ index' = index /\ admin' = admin /\ mailed' = mailed
    BY DEF TypeOK, VerifyStep, verify_consume, verify_mark, ensure_saga, ensure_tenant, ensure_link, ensure_step,
           verify_spawn, verify_fails, crash, resume_running, sagaRows
<1>3. tokens' \in Nat /\ faults' \in Nat
    <2>1. CONSUME_VERIFICATION \/ tokens' = tokens
        BY DEF VerifyStep, verify_consume, verify_mark, ensure_saga, ensure_tenant, ensure_link, ensure_step,
               verify_spawn, verify_fails, crash, resume_running
    <2>0. Fault \/ faults' = faults
        BY DEF VerifyStep, verify_consume, verify_mark, ensure_saga, ensure_tenant, ensure_link, ensure_step,
               verify_spawn, verify_fails, crash, resume_running
    <2>2. tokens \in Nat /\ faults \in Nat
        BY DEF TypeOK
    <2>3. QED
        BY <2>0, <2>1, <2>2 DEF Fault, CONSUME_VERIFICATION
<1>4. /\ saga' \in [state : {"none", "running", "succeeded", "failed"}, linked : BOOLEAN]
      /\ tenant' \in {"none", "provisioning", "active", "provisioning_failed"}
    BY DEF TypeOK, VerifyStep, verify_consume, verify_mark, ensure_saga, ensure_tenant, ensure_link, ensure_step,
           verify_spawn, verify_fails, crash, resume_running, sagaRows, INSERT_SAGA, UPDATE_SAGA_TENANT, INSERT_TENANT
<1>5. steps' \in [1..6 -> [status : {"pending", "done", "failed"}, attempts : Nat]]
    <2>1. steps' = steps \/ steps' = [steps EXCEPT ![1] = [status |-> "done", attempts |-> 1]]
        BY DEF VerifyStep, verify_consume, verify_mark, ensure_saga, ensure_tenant, ensure_link, ensure_step,
               verify_spawn, verify_fails, crash, resume_running, sagaRows, MARK_SAGA_STEP
    <2>2. [status |-> "done", attempts |-> 1] \in [status : {"pending", "done", "failed"}, attempts : Nat]
        OBVIOUS
    <2>3. QED
        BY <2>1, <2>2 DEF TypeOK
<1>6. halfway' \in BOOLEAN /\ raced' \in BOOLEAN
    BY DEF TypeOK, VerifyStep, verify_consume, verify_mark, ensure_saga, ensure_tenant, ensure_link, ensure_step,
           verify_spawn, verify_fails, crash, resume_running, sagaRows
<1>7. task' \in [Tasks -> TaskRecords]
    <2>1. CASE task' = task
        BY <2>1 DEF TypeOK
    <2>2. CASE \E t \in Tasks : start(t, p)
        <3>1. PICK t \in Tasks : start(t, p)
            BY <2>2
        <3>2. \A u \in Tasks : task'[u] \in TaskRecords
            BY <3>1, StartTyped DEF TypeOK
        <3>3. QED
            BY <3>1, <3>2 DEF start, TypeOK
    <2>3. CASE crash(p)
        BY <2>3, OffTyped DEF crash, TypeOK
    <2>4. QED
        BY <2>1, <2>2, <2>3 DEF VerifyStep, verify_consume, verify_mark, ensure_saga, ensure_tenant,
           ensure_link, ensure_step, verify_spawn, verify_fails, resume_running
<1>8. QED
    BY <1>1, <1>2, <1>3, <1>4, <1>5, <1>6, <1>7 DEF TypeOK

LEMMA TypeStep ==
    ASSUME TypeOK, PassedHaveEffect, [Next]_vars
    PROVE  TypeOK'
<1>1. CASE UNCHANGED vars
    BY <1>1 DEF vars, TypeOK
<1>2. CASE signup \/ resend_verification \/ token_expires
    <2>1. tokens' \in Nat /\ mailed' \in Nat
        BY <1>2 DEF signup, resend_verification, token_expires, send_verification_email, TypeOK
    <2>2. QED
        BY <1>2, <2>1 DEF signup, resend_verification, token_expires, sagaRows, TypeOK
<1>3. ASSUME NEW p \in Processes,
             verify_consume(p) \/ VerifyStep(p) \/ verify_fails(p) \/ crash(p) \/ resume_running(p)
      PROVE TypeOK'
    BY <1>3, VerifyTyped
<1>4. ASSUME NEW t \in Tasks, TaskStep(t) \/ run_fails(t)
      PROVE TypeOK'
    <2>1. UNCHANGED <<account, tokens, mailed, up, verify>> /\ faults' \in Nat
        BY <1>4 DEF TaskStep, run_load, run_step, run_mark, run_complete, fail_saga, fail_tenant, run_fails,
                    Fault, TypeOK
    <2>2. task[t].pc = "mark" => task[t].todo # {}
        BY DEF PassedHaveEffect
    <2>3. \A u \in Tasks : task'[u] \in TaskRecords
        <3>0. \A u \in Tasks : task[u] \in TaskRecords
            BY DEF TypeOK
        <3>1. CASE run_load(t)
            BY <3>0, <3>1, LoadTyped, OffTyped
        <3>2. CASE run_step(t)
            BY <3>0, <3>2, StepTyped
        <3>3. CASE run_mark(t)
            <4>1. task[t].todo # {}
                BY <2>2, <3>3 DEF run_mark
            <4>2. QED
                BY <3>0, <3>3, <4>1, MarkTyped
        <3>4. CASE run_complete(t) \/ fail_saga(t) \/ fail_tenant(t) \/ run_fails(t)
            BY <3>0, <3>4, EndTyped
        <3>5. QED
            BY <1>4, <3>1, <3>2, <3>3, <3>4 DEF TaskStep
    <2>4. task' \in [Tasks -> TaskRecords]
        BY <2>3, TaskDomain
    <2>5. steps' \in [1..6 -> [status : {"pending", "done", "failed"}, attempts : Nat]]
        BY <1>4, <2>2, MarkTyped, StepTyped, EndTyped DEF TaskStep, run_mark, run_load, sagaRows, TypeOK
    <2>6. /\ saga' \in [state : {"none", "running", "succeeded", "failed"}, linked : BOOLEAN]
          /\ halfway' \in BOOLEAN /\ raced' \in BOOLEAN
        BY <1>4 DEF TaskStep, run_load, run_step, run_mark, run_complete, fail_saga, fail_tenant, run_fails,
                    COMPLETE_SAGA, sagaRows, TypeOK
    <2>7. /\ tenant' \in {"none", "provisioning", "active", "provisioning_failed"}
          /\ index' \in BOOLEAN /\ admin' \in BOOLEAN
        BY <1>4 DEF TaskStep, run_load, run_step, run_mark, run_complete, fail_saga, fail_tenant, run_fails,
                    execute_step, provision_tenant, step_admin_user, step_trial_expiry, sagaRows, TypeOK
    <2>8. QED
        BY <2>1, <2>4, <2>5, <2>6, <2>7 DEF TypeOK
<1>5. QED
    BY <1>1, <1>2, <1>3, <1>4 DEF Next

----------------------------------------------------------------------------
(* ActiveIsProvisioned. *)

(* The rows of the steps stay, and no task gets to a step. *)
LEMMA ReadyFrame ==
    ASSUME ReadyInv, TypeOK', UNCHANGED <<steps, index, admin>>,
           tenant' = tenant \/ tenant' # "active",
           \A t \in Tasks : task'[t] = task[t] \/ task'[t].pc \notin {"exec", "mark"}
    PROVE  ReadyInv'
<1>1. DoneHasEffect' /\ ActiveIsProvisioned'
    BY DEF ReadyInv, DoneHasEffect, ActiveIsProvisioned, Effect
<1>2. PassedHaveEffect'
    BY DEF ReadyInv, PassedHaveEffect, Effect
<1>3. QED
    BY <1>1, <1>2 DEF ReadyInv

LEMMA ReadyStart ==
    ASSUME ReadyInv, TypeOK', NEW t \in Tasks, NEW p \in Processes, start(t, p), UNCHANGED sagaRows
    PROVE  ReadyInv'
    BY StartTyped, ReadyFrame DEF ReadyInv, sagaRows

LEMMA ReadyVerify ==
    ASSUME ReadyInv, TypeOK', NEW p \in Processes,
           verify_consume(p) \/ VerifyStep(p) \/ verify_fails(p) \/ crash(p) \/ resume_running(p)
    PROVE  ReadyInv'
<1>1. CASE ensure_step(p)
    <2>1. UNCHANGED <<index, admin, tenant, task>> /\ steps' = [steps EXCEPT ![1] = [status |-> "done", attempts |-> 1]]
        BY <1>1 DEF ensure_step, MARK_SAGA_STEP
    <2>2. \A i \in 1..6 : i # 1 => steps'[i] = steps[i]
        BY <2>1 DEF ReadyInv, TypeOK
    <2>3. DoneHasEffect'
        BY <2>1, <2>2 DEF ReadyInv, DoneHasEffect, Effect
    <2>4. PassedHaveEffect' /\ ActiveIsProvisioned'
        BY <2>1 DEF ReadyInv, PassedHaveEffect, ActiveIsProvisioned, Effect
    <2>5. QED
        BY <2>3, <2>4 DEF ReadyInv
<1>2. CASE \E t \in Tasks : start(t, p) /\ UNCHANGED sagaRows
    BY <1>2, ReadyStart
<1>3. CASE crash(p)
    <2>1. \A t \in Tasks : task'[t] = task[t] \/ task'[t].pc = "off"
        BY <1>3, OffTyped DEF crash
    <2>2. QED
        BY <1>3, <2>1, ReadyFrame DEF crash, sagaRows
<1>4. CASE UNCHANGED <<steps, index, admin, task>> /\ (tenant' = tenant \/ tenant' = "provisioning")
    BY <1>4, ReadyFrame
<1>5. QED
    BY <1>1, <1>2, <1>3, <1>4 DEF VerifyStep, verify_consume, verify_mark, ensure_saga, ensure_tenant,
       ensure_link, verify_spawn, verify_fails, resume_running, sagaRows, INSERT_TENANT

LEMMA ReadyLoad ==
    ASSUME ReadyInv, TypeOK', NEW t \in Tasks, run_load(t)
    PROVE  ReadyInv'
<1>0. UNCHANGED sagaRows /\ TypeOK
    BY DEF run_load, ReadyInv
<1>1. DoneHasEffect' /\ ActiveIsProvisioned'
    BY <1>0 DEF ReadyInv, DoneHasEffect, ActiveIsProvisioned, Effect, sagaRows
<1>2. task'[t].pc \in {"exec", "mark"} =>
          /\ task'[t].pc = "exec" /\ task'[t].todo # {}
          /\ \A i \in 1..6 \ task'[t].todo : steps[i].status = "done"
    BY <1>0, LoadTyped, OffTyped
<1>3. \A u \in Tasks \ {t} : task'[u] = task[u]
    BY <1>0, LoadTyped
<1>4. \A i \in 1..6 : Effect(i)' <=> Effect(i)
    BY <1>0 DEF Effect, sagaRows
<1>5. \A i \in 1..6 : steps[i].status = "done" => Effect(i)
    BY DEF ReadyInv, DoneHasEffect
<1>6. PassedHaveEffect'
    <2> SUFFICES ASSUME NEW u \in Tasks, (task[u].pc \in {"exec", "mark"})'
                 PROVE  /\ (task[u].todo # {})'
                        /\ \A i \in 1..6 \ task'[u].todo : Effect(i)'
                        /\ (task[u].pc = "mark" /\ task[u].done => Effect(Min(task[u].todo)))'
        BY DEF PassedHaveEffect
    <2>1. CASE u = t
        BY <1>2, <1>4, <1>5, <2>1
    <2>2. CASE u # t
        BY <1>0, <1>3, <2>2 DEF ReadyInv, PassedHaveEffect, Effect, sagaRows
    <2>3. QED
        BY <2>1, <2>2
<1>7. QED
    BY <1>1, <1>6 DEF ReadyInv

LEMMA ReadyExec ==
    ASSUME ReadyInv, TypeOK', NEW t \in Tasks, run_step(t)
    PROVE  ReadyInv'
<1> DEFINE n == Min(task[t].todo)
<1>0. /\ TypeOK /\ steps' = steps /\ task[t].pc = "exec"
      /\ task'[t].todo = task[t].todo /\ task[t].todo # {} /\ task[t].todo \in SUBSET (1..6)
      /\ \A u \in Tasks \ {t} : task'[u] = task[u]
    BY StepTyped DEF ReadyInv, PassedHaveEffect, TypeOK, TaskRecords
<1>1. n \in task[t].todo /\ n \in 1..6 /\ \A i \in task[t].todo : n <= i
    BY <1>0, MinStep
<1>2. \A i \in 1..6 \ task[t].todo : Effect(i)
    BY <1>0 DEF ReadyInv, PassedHaveEffect
<1>3. /\ (index => index') /\ (admin => admin')
      /\ task'[t].done => Effect(n)' 
      /\ tenant' = tenant \/ n = 6
    <2>1. CASE UNCHANGED <<index, admin, tenant>> /\ ~ task'[t].done
        BY <2>1
    <2>2. CASE execute_step(STEP_ORDER[n])
        <3>1. /\ (index => index') /\ (STEP_ORDER[n] = "es_index" => index')
              /\ (admin => admin') /\ (STEP_ORDER[n] = "admin_user" => admin')
              /\ tenant' = tenant \/ STEP_ORDER[n] = "trial_expiry"
            BY <1>0, <2>2 DEF execute_step, provision_tenant, step_admin_user, step_trial_expiry, TypeOK
        <3>2. /\ STEP_ORDER[3] = "es_index" /\ STEP_ORDER[5] = "admin_user"
              /\ n # 6 => STEP_ORDER[n] # "trial_expiry"
            BY <1>1 DEF STEP_ORDER
        <3>3. n = 3 => STEP_ORDER[n] = "es_index"
            BY <3>2
        <3>4. n = 5 => STEP_ORDER[n] = "admin_user"
            BY <3>2
        <3>5. Effect(n)'
            <4>1. (n = 3 => index') /\ (n = 5 => admin')
                BY <3>1, <3>3, <3>4
            <4>2. n' = n
                BY <1>0
            <4>3. QED
                BY <4>1, <4>2 DEF Effect
        <3>6. QED
            BY <3>1, <3>2, <3>5
    <2>3. QED
        BY <1>0, <2>1, <2>2, StepTyped
<1>4. \A i \in 1..6 : Effect(i) => Effect(i)'
    BY <1>3 DEF Effect
<1>5. DoneHasEffect'
    BY <1>0, <1>4 DEF ReadyInv, DoneHasEffect
<1>6. ActiveIsProvisioned'
    <2>1. CASE n = 6
        <3>1. 3 \notin task[t].todo /\ 5 \notin task[t].todo
            BY <1>1, <2>1
        <3>2. Effect(3) /\ Effect(5)
            BY <1>2, <3>1
        <3>3. QED
            BY <1>3, <3>2 DEF Effect, ActiveIsProvisioned
    <2>2. CASE tenant' = tenant
        BY <1>3, <2>2 DEF ReadyInv, ActiveIsProvisioned
    <2>3. QED
        BY <1>3, <2>1, <2>2
<1>7. PassedHaveEffect'
    <2> SUFFICES ASSUME NEW u \in Tasks, (task[u].pc \in {"exec", "mark"})'
                 PROVE  /\ (task[u].todo # {})'
                        /\ \A i \in 1..6 \ task'[u].todo : Effect(i)'
                        /\ (task[u].pc = "mark" /\ task[u].done => Effect(Min(task[u].todo)))'
        BY DEF PassedHaveEffect
    <2>1. CASE u = t
        BY <1>0, <1>2, <1>3, <1>4, <2>1
    <2>2. CASE u # t
        <3>1. task'[u] = task[u] /\ task[u].todo \in SUBSET (1..6)
            BY <1>0, <2>2 DEF TypeOK, TaskRecords
        <3>2. task[u].todo # {} => Min(task[u].todo) \in 1..6
            BY <3>1, MinStep
        <3>3. QED
            BY <1>4, <3>1, <3>2 DEF ReadyInv, PassedHaveEffect
    <2>3. QED
        BY <2>1, <2>2
<1>8. QED
    BY <1>5, <1>6, <1>7 DEF ReadyInv

LEMMA ReadyMark ==
    ASSUME ReadyInv, TypeOK', NEW t \in Tasks, run_mark(t)
    PROVE  ReadyInv'
<1> DEFINE n == Min(task[t].todo)
<1>0. TypeOK /\ task[t].todo # {} /\ task[t].pc = "mark"
    BY DEF ReadyInv, PassedHaveEffect, run_mark
<1>1. /\ UNCHANGED <<index, admin, tenant>> /\ n \in 1..6
      /\ \A u \in Tasks \ {t} : task'[u] = task[u]
      /\ \A i \in 1..6 \ {n} : steps'[i] = steps[i]
    BY <1>0, MarkTyped
<1>2. /\ steps'[n].status = "done" => task[t].done
      /\ task'[t].pc \in {"exec", "mark"} =>
            /\ task[t].done /\ task'[t].todo = task[t].todo \ {n} /\ task'[t].todo # {}
            /\ task'[t].pc = "exec"
    BY <1>0, MarkTyped
<1>3. task[t].done => Effect(n)
    BY <1>0 DEF ReadyInv, PassedHaveEffect
<1>4. \A i : Effect(i)' <=> Effect(i)
    BY <1>1 DEF Effect
<1>5. DoneHasEffect' /\ ActiveIsProvisioned'
    BY <1>1, <1>2, <1>3, <1>4 DEF ReadyInv, DoneHasEffect, ActiveIsProvisioned
<1>6. PassedHaveEffect'
    <2> SUFFICES ASSUME NEW u \in Tasks, (task[u].pc \in {"exec", "mark"})'
                 PROVE  /\ (task[u].todo # {})'
                        /\ \A i \in 1..6 \ task'[u].todo : Effect(i)'
                        /\ (task[u].pc = "mark" /\ task[u].done => Effect(Min(task[u].todo)))'
        BY DEF PassedHaveEffect
    <2>1. CASE u = t
        <3>1. \A i \in 1..6 \ task[t].todo : Effect(i)
            BY <1>0 DEF ReadyInv, PassedHaveEffect
        <3>2. QED
            BY <1>2, <1>3, <1>4, <2>1, <3>1
    <2>2. CASE u # t
        BY <1>1, <1>4, <2>2 DEF ReadyInv, PassedHaveEffect
    <2>3. QED
        BY <2>1, <2>2
<1>7. QED
    BY <1>5, <1>6 DEF ReadyInv

LEMMA ReadyStep == ReadyInv /\ [Next]_vars => ReadyInv'
<1> SUFFICES ASSUME ReadyInv, [Next]_vars PROVE ReadyInv'
    OBVIOUS
<1>0. TypeOK /\ TypeOK'
    BY TypeStep DEF ReadyInv
<1>1. CASE UNCHANGED vars \/ signup \/ resend_verification \/ token_expires
    BY <1>0, <1>1, ReadyFrame DEF vars, signup, resend_verification, token_expires, sagaRows
<1>2. ASSUME NEW p \in Processes,
             verify_consume(p) \/ VerifyStep(p) \/ verify_fails(p) \/ crash(p) \/ resume_running(p)
      PROVE ReadyInv'
    BY <1>0, <1>2, ReadyVerify
<1>3. ASSUME NEW t \in Tasks, run_complete(t) \/ fail_saga(t) \/ fail_tenant(t) \/ run_fails(t)
      PROVE ReadyInv'
    <2>1. tenant' = tenant \/ tenant' # "active"
        BY <1>3 DEF run_complete, fail_saga, fail_tenant, run_fails, sagaRows
    <2>2. task'[t].pc \notin {"exec", "mark"}
        BY <1>0, <1>3, EndTyped, OffTyped DEF TypeOK, TaskRecords
    <2>3. QED
        BY <1>0, <1>3, <2>1, <2>2, EndTyped, ReadyFrame
<1>4. ASSUME NEW t \in Tasks, run_load(t) \/ run_step(t) \/ run_mark(t) PROVE ReadyInv'
    BY <1>0, <1>4, ReadyLoad, ReadyExec, ReadyMark
<1>5. QED
    BY <1>1, <1>2, <1>3, <1>4 DEF Next, TaskStep

LEMMA InitReady == Init => ReadyInv
<1> SUFFICES ASSUME Init PROVE ReadyInv
    OBVIOUS
<1>1. TypeOK
    BY InitTyped
<1>2. DoneHasEffect /\ ActiveIsProvisioned
    BY DEF Init, STEP_ORDER, DoneHasEffect, ActiveIsProvisioned
<1>3. PassedHaveEffect
    BY OffTyped DEF Init, PassedHaveEffect
<1>4. QED
    BY <1>1, <1>2, <1>3 DEF ReadyInv

(* A tenant is active only with its index and its first admin user, whichever tasks   *)
(* ran the saga, at once or one after the other (saga.py run).                        *)
THEOREM ActiveIsProvisionedHolds == Spec => []ActiveIsProvisioned
<1>1. Spec => []ReadyInv
    BY InitReady, ReadyStep, PTL DEF Spec
<1>2. ReadyInv => ActiveIsProvisioned
    BY DEF ReadyInv
<1>3. QED
    BY <1>1, <1>2, PTL

----------------------------------------------------------------------------
(* OutcomeAgrees. *)

(* Nothing that counts against the saga happens: no step is undone, the saga at most  *)
(* starts, the tenant row at most appears, tasks at most end.                         *)
LEMMA SettleFrame ==
    ASSUME SettleInv, TypeOK, raced => raced', halfway => halfway',
           saga'.state = saga.state \/ (saga.state = "none" /\ saga'.state = "running"),
           tenant' = tenant \/ tenant = "none",
           steps'[6] = steps[6], \A i \in 1..6 : steps[i].status = "done" => steps'[i].status = "done",
           \A t \in Tasks : \/ task'[t] = task[t]
                            \/ task'[t].pc = "off" /\ (task[t].pc = "fail_tenant" => halfway')
    PROVE  SettleInv'
<1> SUFFICES ASSUME ~raced', ~halfway'
             PROVE  Alone' /\ Running' /\ TodoExact' /\ LastStep' /\ Ended'
    BY DEF SettleInv
<1>1. Alone /\ Running /\ TodoExact /\ LastStep /\ Ended
    BY DEF SettleInv
<1>2. Alone'
    BY <1>1 DEF Alone
<1>3. Running'
    BY <1>1 DEF Running
<1>4. TodoExact'
    BY <1>1 DEF TodoExact
<1>5. LastStep'
    BY <1>1 DEF LastStep
<1>6. Ended'
    BY <1>1 DEF Ended
<1>7. QED
    BY <1>2, <1>3, <1>4, <1>5, <1>6

(* The same, where the rows of the saga stay. *)
LEMMA SettleQuiet ==
    ASSUME SettleInv, TypeOK, raced' = raced, halfway => halfway',
           UNCHANGED <<saga, steps>>, tenant' = tenant \/ tenant = "none",
           \A t \in Tasks : \/ task'[t] = task[t]
                            \/ task'[t].pc = "off" /\ (task[t].pc = "fail_tenant" => halfway')
    PROVE  SettleInv'
<1>1. raced => raced'
    OBVIOUS
<1>2. saga'.state = saga.state /\ steps'[6] = steps[6]
    OBVIOUS
<1>3. \A i \in 1..6 : steps[i].status = "done" => steps'[i].status = "done"
    OBVIOUS
<1>4. QED
    BY <1>1, <1>2, <1>3, SettleFrame

LEMMA SettleStart ==
    ASSUME SettleInv, TypeOK, NEW t \in Tasks \ on, NEW p \in Processes, start(t, p),
           UNCHANGED <<sagaRows, halfway>>, raced' = (raced \/ on # {})
    PROVE  SettleInv'
<1> SUFFICES ASSUME ~raced', ~halfway'
             PROVE  Alone' /\ Running' /\ TodoExact' /\ LastStep' /\ Ended'
    BY DEF SettleInv
<1>1. Alone /\ Running /\ TodoExact /\ LastStep /\ Ended
    BY DEF SettleInv, TypeOK
<1>2. \A u \in Tasks : task[u].pc = "off"
    BY DEF on, TypeOK
<1>3. task'[t].pc = "load" /\ \A u \in Tasks \ {t} : task'[u].pc = "off"
    BY <1>2, StartTyped
<1>4. Alone' /\ Running' /\ TodoExact'
    BY <1>3 DEF Alone, Running, TodoExact
<1>5. LastStep' /\ Ended'
    BY <1>1, <1>2 DEF LastStep, Ended, sagaRows
<1>6. QED
    BY <1>4, <1>5

LEMMA SettleVerify ==
    ASSUME SettleInv, TypeOK, NEW p \in Processes,
           verify_consume(p) \/ VerifyStep(p) \/ verify_fails(p) \/ crash(p) \/ resume_running(p)
    PROVE  SettleInv'
<1>1. CASE \E t \in Tasks \ on : start(t, p) /\ UNCHANGED <<sagaRows, halfway>> /\ raced' = (raced \/ on # {})
    BY <1>1, SettleStart
<1>2. CASE crash(p)
    <2>1. \A t \in Tasks : \/ task'[t] = task[t]
                           \/ task'[t].pc = "off" /\ (task[t].pc = "fail_tenant" => halfway')
        BY <1>2, OffTyped DEF crash
    <2>2. QED
        BY <1>2, <2>1, SettleQuiet DEF crash, sagaRows
<1>3. CASE ensure_step(p)
    <2>1. UNCHANGED <<saga, tenant, task, raced, halfway>> /\ steps' = [steps EXCEPT ![1] = [status |-> "done", attempts |-> 1]]
        BY <1>3 DEF ensure_step, MARK_SAGA_STEP
    <2>2. steps'[1].status = "done" /\ \A i \in 1..6 : i # 1 => steps'[i] = steps[i]
        BY <2>1 DEF TypeOK
    <2>3. steps'[6] = steps[6] /\ \A i \in 1..6 : steps[i].status = "done" => steps'[i].status = "done"
        BY <2>2
    <2>4. (raced => raced') /\ (halfway => halfway') /\ saga'.state = saga.state
        BY <2>1
    <2>5. QED
        BY <2>1, <2>3, <2>4, SettleFrame
<1>4. CASE ensure_saga(p) \/ ensure_link(p)
    <2>1. UNCHANGED <<steps, tenant, task, raced, halfway>>
        BY <1>4 DEF ensure_saga, ensure_link
    <2>2. saga'.state = saga.state \/ (saga.state = "none" /\ saga'.state = "running")
        <3>1. saga \in [state : {"none", "running", "succeeded", "failed"}, linked : BOOLEAN]
            BY DEF TypeOK
        <3>2. CASE ensure_saga(p)
            BY <3>1, <3>2 DEF ensure_saga, INSERT_SAGA
        <3>3. CASE ensure_link(p)
            BY <3>1, <3>3 DEF ensure_link, UPDATE_SAGA_TENANT
        <3>4. QED
            BY <1>4, <3>2, <3>3
    <2>3. (raced => raced') /\ (halfway => halfway') /\ steps'[6] = steps[6]
        BY <2>1
    <2>4. QED
        BY <2>1, <2>2, <2>3, SettleFrame
<1>5. CASE UNCHANGED <<saga, steps, task, raced>> /\ (halfway => halfway') /\ (tenant' = tenant \/ tenant = "none")
    BY <1>5, SettleQuiet
<1>6. CASE verify_spawn(p)
    BY <1>1, <1>6 DEF verify_spawn
<1>7. CASE resume_running(p)
    <2>1. CASE saga.state = "running"
        BY <1>1, <1>7, <2>1 DEF resume_running
    <2>2. CASE saga.state # "running"
        BY <1>5, <1>7, <2>2 DEF resume_running, sagaRows
    <2>3. QED
        BY <2>1, <2>2
<1>8. CASE verify_consume(p) \/ verify_mark(p) \/ verify_fails(p)
    BY <1>5, <1>8 DEF verify_consume, verify_mark, verify_fails, sagaRows
<1>9. CASE ensure_tenant(p)
    BY <1>5, <1>9 DEF ensure_tenant, INSERT_TENANT
<1>10. QED
    BY <1>2, <1>3, <1>4, <1>6, <1>7, <1>8, <1>9 DEF VerifyStep

(* While the task t runs, no other does. *)
LEMMA OthersOff ==
    ASSUME Alone, NEW t \in Tasks, task[t].pc # "off", \A u \in Tasks \ {t} : task'[u] = task[u]
    PROVE  \A u \in Tasks \ {t} : task[u].pc = "off" /\ task'[u].pc = "off"
    BY DEF Alone

LEMMA SettleLoad ==
    ASSUME SettleInv, TypeOK, NEW t \in Tasks, run_load(t)
    PROVE  SettleInv'
<1>0. /\ UNCHANGED <<sagaRows, raced>> /\ task[t].pc = "load"
      /\ halfway' = (halfway \/ (saga.state = "running" /\ ~saga.linked))
    BY DEF run_load
<1>1. \A u \in Tasks \ {t} : task'[u] = task[u]
    BY LoadTyped
<1>2. CASE task'[t] = Off
    <2>1. task'[t].pc = "off" /\ (halfway => halfway')
        BY <1>0, <1>2, OffTyped
    <2>2. QED
        BY <1>0, <1>1, <2>1, SettleQuiet DEF sagaRows
<1>3. CASE task'[t] # Off
    <2> SUFFICES ASSUME ~raced', ~halfway'
                 PROVE  Alone' /\ Running' /\ TodoExact' /\ LastStep' /\ Ended'
        BY DEF SettleInv
    <2>1. Alone /\ LastStep /\ Ended
        BY <1>0 DEF SettleInv, TypeOK
    <2>2. /\ saga.state = "running" /\ task'[t].linked
          /\ task'[t].todo = {i \in 1..6 : steps[i].status # "done"}
          /\ task'[t].pc = (IF task'[t].todo = {} THEN "complete" ELSE "exec")
        BY <1>0, <1>3, LoadTyped DEF TypeOK
    <2>3. \A u \in Tasks \ {t} : task'[u].pc = "off"
        BY <1>0, <1>1, <2>1, OthersOff
    <2>4. Alone'
        BY <2>3 DEF Alone
    <2>5. Running'
        BY <1>0, <2>2, <2>3 DEF Running, sagaRows
    <2>6. LastStep' /\ Ended'
        BY <1>0, <2>1, <2>2 DEF LastStep, Ended, sagaRows
    <2>7. CASE task'[t].todo = {}
        <3>1. steps[6].status = "done"
            BY <2>2, <2>7
        <3>2. TodoExact'
            BY <1>0, <2>2, <2>3, <2>7, <3>1 DEF TodoExact, sagaRows
        <3>3. QED
            BY <2>4, <2>5, <2>6, <3>2
    <2>8. CASE task'[t].todo # {}
        <3>1. steps[6].status # "done" /\ 6 \in task'[t].todo
            BY <2>1, <2>2, <2>8 DEF LastStep
        <3>2. \A i \in 1..6 \ task'[t].todo : steps[i].status = "done"
            BY <2>2
        <3>3. TodoExact'
            BY <1>0, <2>2, <2>3, <2>8, <3>1, <3>2 DEF TodoExact, sagaRows
        <3>4. QED
            BY <2>4, <2>5, <2>6, <3>3
    <2>9. QED
        BY <2>7, <2>8
<1>4. QED
    BY <1>2, <1>3

LEMMA SettleExec ==
    ASSUME SettleInv, TypeOK, NEW t \in Tasks, run_step(t)
    PROVE  SettleInv'
<1> SUFFICES ASSUME ~raced', ~halfway'
             PROVE  Alone' /\ Running' /\ TodoExact' /\ LastStep' /\ Ended'
    BY DEF SettleInv
<1>0. /\ UNCHANGED <<saga, steps, raced, halfway>> /\ task[t].pc = "exec"
      /\ task'[t].pc \in {"exec", "mark"} /\ task'[t].todo = task[t].todo /\ task'[t].linked = task[t].linked
      /\ \A u \in Tasks \ {t} : task'[u] = task[u]
    BY StepTyped
<1>1. Alone /\ Running /\ TodoExact /\ LastStep /\ Ended
    BY <1>0 DEF SettleInv
<1>2. \A u \in Tasks \ {t} : task'[u].pc = "off"
    BY <1>0, <1>1, OthersOff
<1>3. Alone'
    BY <1>2 DEF Alone
<1>4. Running'
    BY <1>0, <1>1, <1>2 DEF Running
<1>5. steps[6].status # "done" /\ saga.state = "running"
    BY <1>0, <1>1 DEF TodoExact, Running
<1>6. LastStep' /\ Ended'
    BY <1>0, <1>5, <1>1 DEF LastStep, Ended
<1>7. task'[t].done /\ Min(task[t].todo) = 6 => tenant' = "active"
    <2> SUFFICES ASSUME task'[t].done, Min(task[t].todo) = 6 PROVE tenant' = "active"
        OBVIOUS
    <2>1. execute_step(STEP_ORDER[6])
        BY StepTyped
    <2>2. STEP_ORDER[6] = "trial_expiry"
        BY DEF STEP_ORDER
    <2>3. QED
        BY <2>1, <2>2 DEF execute_step, step_trial_expiry
<1>8. TodoExact'
    BY <1>0, <1>1, <1>2, <1>5, <1>7 DEF TodoExact
<1>9. QED
    BY <1>3, <1>4, <1>6, <1>8

LEMMA SettleMark ==
    ASSUME SettleInv, ReadyInv, NEW t \in Tasks, run_mark(t)
    PROVE  SettleInv'
<1> DEFINE n == Min(task[t].todo)
<1> SUFFICES ASSUME ~raced', ~halfway'
             PROVE  Alone' /\ Running' /\ TodoExact' /\ LastStep' /\ Ended'
    BY DEF SettleInv
<1>0. TypeOK /\ task[t].todo # {} /\ task[t].pc = "mark" /\ task[t].todo \in SUBSET (1..6)
    BY DEF ReadyInv, PassedHaveEffect, run_mark, TypeOK, TaskRecords
<1>1. /\ UNCHANGED <<saga, tenant, raced, halfway>> /\ n \in 1..6
      /\ \A u \in Tasks \ {t} : task'[u] = task[u]
      /\ \A i \in 1..6 \ {n} : steps'[i] = steps[i]
      /\ task'[t].linked = task[t].linked
    BY <1>0, MarkTyped
<1>2. Alone /\ Running /\ TodoExact /\ LastStep /\ Ended
    BY <1>1 DEF SettleInv
<1>3. \A u \in Tasks \ {t} : task'[u].pc = "off"
    BY <1>0, <1>1, <1>2, OthersOff
<1>4. /\ steps[6].status # "done" /\ saga.state = "running" /\ task[t].linked
      /\ 6 \in task[t].todo /\ \A i \in 1..6 \ task[t].todo : steps[i].status = "done"
      /\ task[t].done /\ n = 6 => tenant = "active"
    BY <1>0, <1>2 DEF TodoExact, Running
<1>5. Alone'
    BY <1>3 DEF Alone
<1>6. CASE ~ task[t].done
    <2>1. task'[t].pc = "fail" /\ steps'[n].status = "failed"
        BY <1>0, <1>6, MarkTyped
    <2>2. steps'[6].status # "done"
        BY <1>1, <1>4, <2>1
    <2>3. Running'
        BY <1>1, <1>3, <1>4, <2>1 DEF Running
    <2>4. TodoExact'
        BY <1>3, <2>1, <2>2 DEF TodoExact
    <2>5. LastStep' /\ Ended'
        BY <1>1, <1>4, <2>2 DEF LastStep, Ended
    <2>6. QED
        BY <1>5, <2>3, <2>4, <2>5
<1>7. CASE task[t].done
    <2>1. /\ steps'[n].status = "done" /\ task'[t].todo = task[t].todo \ {n}
          /\ task'[t].pc = (IF task'[t].todo = {} THEN "complete" ELSE "exec")
        BY <1>0, <1>7, MarkTyped
    <2>2. Running'
        BY <1>1, <1>3, <1>4, <2>1 DEF Running
    <2>3. \A i \in 1..6 \ task'[t].todo : steps'[i].status = "done"
        BY <1>1, <1>4, <2>1
    <2>4. \A i \in task[t].todo : n <= i
        BY <1>0, MinStep
    <2>5. CASE n = 6
        <3>1. task'[t].todo = {}
            BY <1>0, <2>1, <2>4, <2>5
        <3>2. TodoExact'
            BY <1>3, <2>1, <2>5, <3>1 DEF TodoExact
        <3>3. LastStep' /\ Ended'
            BY <1>1, <1>4, <1>7, <2>3, <2>5, <3>1 DEF LastStep, Ended
        <3>4. QED
            BY <1>5, <2>2, <3>2, <3>3
    <2>6. CASE n # 6
        <3>1. 6 \in task'[t].todo /\ steps'[6].status # "done"
            BY <1>1, <1>4, <2>1, <2>6
        <3>2. TodoExact'
            BY <1>3, <2>1, <2>3, <3>1 DEF TodoExact
        <3>3. LastStep' /\ Ended'
            BY <1>1, <1>4, <3>1 DEF LastStep, Ended
        <3>4. QED
            BY <1>5, <2>2, <3>2, <3>3
    <2>7. QED
        BY <2>5, <2>6
<1>8. QED
    BY <1>6, <1>7

LEMMA SettleEnd ==
    ASSUME SettleInv, TypeOK, NEW t \in Tasks, run_complete(t) \/ fail_saga(t) \/ fail_tenant(t) \/ run_fails(t)
    PROVE  SettleInv'
<1> SUFFICES ASSUME ~raced', ~halfway'
             PROVE  Alone' /\ Running' /\ TodoExact' /\ LastStep' /\ Ended'
    BY DEF SettleInv
<1>0. ~ run_fails(t) /\ UNCHANGED halfway
    BY DEF run_complete, fail_saga, fail_tenant, run_fails
<1>1. UNCHANGED <<steps, raced>> /\ \A u \in Tasks \ {t} : task'[u] = task[u]
    BY EndTyped
<1>2. Alone /\ Running /\ TodoExact /\ LastStep /\ Ended
    BY <1>0, <1>1 DEF SettleInv
<1>3. task[t].pc # "off"
    BY <1>0 DEF run_complete, fail_saga, fail_tenant
<1>4. \A u \in Tasks \ {t} : task[u].pc = "off" /\ task'[u].pc = "off"
    BY <1>1, <1>2, <1>3, OthersOff
<1>5. Alone'
    BY <1>4 DEF Alone
<1>6. CASE run_complete(t)
    <2>1. saga'.state = "succeeded" /\ UNCHANGED tenant /\ task'[t].pc = "off" /\ task[t].pc = "complete"
        BY <1>6, OffTyped DEF run_complete, COMPLETE_SAGA, TypeOK
    <2>2. Running' /\ TodoExact'
        BY <1>4, <2>1 DEF Running, TodoExact
    <2>3. LastStep' /\ Ended'
        BY <1>1, <1>2, <2>1 DEF LastStep, Ended, TodoExact
    <2>4. QED
        BY <1>5, <2>2, <2>3
<1>7. CASE fail_saga(t)
    <2>1. task[t].linked /\ task[t].pc = "fail" /\ steps[6].status # "done"
        BY <1>2, <1>7 DEF fail_saga, Running, TodoExact
    <2>2. /\ saga'.state = "failed" /\ UNCHANGED tenant
          /\ task'[t] = [task[t] EXCEPT !.pc = "fail_tenant"]
        BY <1>7, <2>1 DEF fail_saga, COMPLETE_SAGA, TypeOK
    <2>3. task'[t].pc = "fail_tenant" /\ task'[t].linked
        BY <2>1, <2>2 DEF TypeOK, TaskRecords
    <2>4. Running' /\ TodoExact'
        BY <1>1, <1>4, <2>1, <2>3 DEF Running, TodoExact
    <2>5. LastStep' /\ Ended'
        BY <1>1, <2>1, <2>2, <2>3 DEF LastStep, Ended
    <2>6. QED
        BY <1>5, <2>4, <2>5
<1>8. CASE fail_tenant(t)
    <2>1. /\ UNCHANGED saga /\ tenant' = "provisioning_failed" /\ task'[t].pc = "off"
          /\ task[t].pc = "fail_tenant"
        BY <1>8, OffTyped DEF fail_tenant, TypeOK
    <2>2. Running' /\ TodoExact'
        BY <1>4, <2>1 DEF Running, TodoExact
    <2>3. LastStep' /\ Ended'
        BY <1>1, <1>2, <2>1 DEF LastStep, Ended, TodoExact
    <2>4. QED
        BY <1>5, <2>2, <2>3
<1>9. QED
    BY <1>0, <1>6, <1>7, <1>8

LEMMA SettleStep == SettleInv /\ ReadyInv /\ [Next]_vars => SettleInv'
<1> SUFFICES ASSUME SettleInv, ReadyInv, [Next]_vars PROVE SettleInv'
    OBVIOUS
<1>0. TypeOK
    BY DEF ReadyInv
<1>1. CASE UNCHANGED vars \/ signup \/ resend_verification \/ token_expires
    BY <1>0, <1>1, SettleQuiet DEF vars, signup, resend_verification, token_expires, sagaRows
<1>2. ASSUME NEW p \in Processes,
             verify_consume(p) \/ VerifyStep(p) \/ verify_fails(p) \/ crash(p) \/ resume_running(p)
      PROVE SettleInv'
    BY <1>0, <1>2, SettleVerify
<1>3. ASSUME NEW t \in Tasks, TaskStep(t) \/ run_fails(t) PROVE SettleInv'
    BY <1>0, <1>3, SettleLoad, SettleExec, SettleMark, SettleEnd DEF TaskStep
<1>4. QED
    BY <1>1, <1>2, <1>3 DEF Next

(* A saga that has ended agrees with the status of its tenant, as long as one task at *)
(* a time ran it and none was left half done (saga.py run, _fail_terminally).         *)
THEOREM OutcomeAgreesHolds == Spec => []OutcomeAgrees
<1>1. Init => SettleInv
    <2> SUFFICES ASSUME Init PROVE SettleInv
        OBVIOUS
    <2>1. Alone /\ Running /\ TodoExact
        BY OffTyped DEF Init, Alone, Running, TodoExact
    <2>2. LastStep /\ Ended
        BY DEF Init, STEP_ORDER, LastStep, Ended
    <2>3. QED
        BY <2>1, <2>2 DEF SettleInv
<1>2. SettleInv => OutcomeAgrees
    BY DEF SettleInv, OutcomeAgrees, on, Ended, LastStep
<1>3. Spec => [](ReadyInv /\ SettleInv)
    BY <1>1, InitReady, ReadyStep, SettleStep, PTL DEF Spec
<1>4. QED
    BY <1>2, <1>3, PTL

=============================================================================
