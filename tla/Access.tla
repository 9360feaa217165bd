------------------------------- MODULE Access -------------------------------
(***************************************************************************)
(* The status stores of the data plane (core/status_stores.py) and the     *)
(* credentials they guard.  A device, an ingest key and a tenant each have *)
(* a row in PostgreSQL, the truth, and a copy in Redis that every request  *)
(* reads first.  A request that finds no copy reads the row and writes the *)
(* copy with HSET and then EXPIRE; a change commits the row and then       *)
(* deletes the copy.  None of these steps is atomic with another, so a     *)
(* request may write a copy of a row that has changed since it read it.    *)
(*                                                                         *)
(* The device's certificate is renewed by the agent (agent renew.rs and    *)
(* identity.rs, dataplane api/enrollment.py): the row keeps the previous   *)
(* serial for a while, and the agent saves key, certificate and dates in   *)
(* separate files.                                                         *)
(*                                                                         *)
(* One entry is followed in a behaviour; entry says of which kind it is.   *)
(* Left out: the audit rows, the copy of the entitlements that the same    *)
(* changes delete, and that a sender which is told of its revocation stops *)
(* (Delivery): here it goes on, so that late requests are made at all.     *)
(* Time is counted in ticks; a request lasts at most Span of them.         *)
(***************************************************************************)
EXTENDS Integers, FiniteSets

CONSTANTS
    Requests,    \* requests in flight at once
    TTL,         \* cache_ttl_seconds
    Span,        \* bound on the ticks a request or a change lasts
    Overlap,     \* the 24 hours for which the previous serial is honoured
    MaxSerial,   \* bound on the certificates issued
    MaxChanges,  \* bound on the changes of the row's status
    MaxFaults    \* bound on failures

ASSUME AccessAssumption ==
    /\ IsFiniteSet(Requests)
    /\ {TTL, Span, Overlap, MaxSerial} \subseteq Nat \ {0}
    /\ Overlap >= Span
    /\ {MaxChanges, MaxFaults} \subseteq Nat

VARIABLES
    entry,      \* "device", "ingest_key" or "tenant"
    row,        \* the row in PostgreSQL
    cache,      \* the copy in Redis: its record, and the ticks it has left
    req,        \* the requests
    change,     \* the request or job that changes the row: "idle" or "delete"
    since,      \* ticks since the row last changed, by its status or by a renewal, capped
    changes,
    agent,      \* the credential the agent uses, the dates it knows, its files
    past,       \* the newest serial that is two thirds through its life
    issued,     \* serials issued
    lostExpire, \* a HSET was not followed by its EXPIRE
    failed,     \* an answer to a renewal was lost or its credential not installed
    faults

vars == <<entry, row, cache, req, change, since, changes, agent, past, issued, lostExpire, failed, faults>>

store == <<entry, row, change, since, changes, past, issued>>

NoSerial == 0

NoRecord == [status |-> "none", cert |-> NoSerial, prev |-> NoSerial, left |-> -1]

(* A key without an expiry lives until it is deleted. *)
Unexpiring == TTL + 1

NoCopy == [rec |-> NoRecord, ttl |-> Unexpiring]

Idle == [pc |-> "idle", op |-> "send", serial |-> NoSerial, rec |-> NoRecord,
         age |-> 0, late |-> FALSE, new |-> NoSerial, heard |-> TRUE]

Late == TTL + 2 * Span

(* A request is late if it begins so long after the last change of the row, and *)
(* ceases to be at the next one.                                               *)
onTime(q) == [q EXCEPT !.late = FALSE]

Init ==
    /\ entry \in {"device", "ingest_key", "tenant"}
    /\ row = [status |-> "active", cert |-> 1, prev |-> NoSerial, left |-> -1]
    /\ cache = NoCopy
    /\ req = [r \in Requests |-> Idle]
    /\ change = "idle" /\ since = 0 /\ changes = 0
    /\ agent = [client |-> 1, dates |-> 1, key |-> 1, cert |-> 1, ident |-> 1]
    /\ past = 0 /\ issued = 1
    /\ lostExpire = FALSE /\ failed = FALSE /\ faults = 0

Fault == faults < MaxFaults /\ faults' = faults + 1

Step(r, pc, to) == req[r].pc = pc /\ req' = [req EXCEPT ![r].pc = to]

----------------------------------------------------------------------------
(* The check every request starts with. *)

(* Renewals whose answer the agent waits for, and those not committed yet. *)
renewing == {r \in Requests : req[r].pc # "idle" /\ req[r].op = "renew" /\ req[r].heard}

uncommitted == {r \in Requests : req[r].op = "renew" /\ req[r].pc \in {"get", "pg", "hset", "expire", "decide", "commit"}}

due == agent.dates <= past

begin(r, op) ==
    /\ req[r].pc = "idle"
    /\ agent.client # NoSerial
    /\ op = "renew" => entry = "device" /\ due /\ renewing = {} /\ issued + Cardinality(uncommitted) < MaxSerial
    /\ req' = [req EXCEPT ![r] = [Idle EXCEPT !.pc = "get", !.op = op,
                   !.serial = agent.client, !.late = since >= Late]]
    /\ UNCHANGED <<store, cache, agent, lostExpire, failed, faults>>

cache_get(r) ==
    /\ req[r].pc = "get"
    /\ \/ /\ cache # NoCopy
          /\ req' = [req EXCEPT ![r].pc = "decide", ![r].rec = cache.rec]
          /\ UNCHANGED faults
       \/ /\ cache = NoCopy
          /\ req' = [req EXCEPT ![r].pc = "pg"]
          /\ UNCHANGED faults
       \/ /\ cache # NoCopy
          /\ Fault
          /\ req' = [req EXCEPT ![r].pc = "pg"]
    /\ UNCHANGED <<store, cache, agent, lostExpire, failed>>

pg_fetchrow(r) ==
    /\ req[r].pc = "pg"
    /\ \/ /\ req' = [req EXCEPT ![r].pc = "hset", ![r].rec = row]
          /\ UNCHANGED faults
       \/ /\ Fault
          /\ req' = [req EXCEPT ![r] = Idle]
    /\ UNCHANGED <<store, cache, agent, lostExpire, failed>>

(* HSET replaces every field and leaves the expiry of the key alone. *)
cache_hset(r) ==
    /\ \/ Step(r, "hset", "expire") /\ cache' = [cache EXCEPT !.rec = req[r].rec] /\ UNCHANGED faults
       \/ Step(r, "hset", "decide") /\ Fault /\ UNCHANGED cache
    /\ UNCHANGED <<store, agent, lostExpire, failed>>

cache_expire_mutant(r) ==
    /\ Step(r, "expire", "decide")
    /\ UNCHANGED <<store, cache, agent, lostExpire, failed, faults>>

cache_expire(r) ==
    /\ Step(r, "expire", "decide")
    /\ \/ /\ cache' = IF cache = NoCopy THEN NoCopy ELSE [cache EXCEPT !.ttl = TTL]
          /\ UNCHANGED <<lostExpire, faults>>
       \/ Fault /\ lostExpire' = TRUE /\ UNCHANGED cache
    /\ UNCHANGED <<store, agent, failed>>

(* The process that serves a request ends: the request gets no answer. *)
server_dies(r) ==
    /\ req[r].pc \notin {"idle", "answer"}
    /\ Fault
    /\ req' = [req EXCEPT ![r] = Idle]
    /\ lostExpire' = (lostExpire \/ req[r].pc = "expire")
    /\ failed' = (failed \/ req[r].op = "renew")
    /\ UNCHANGED <<store, cache, agent>>

serial_ok(rec, serial) ==
    \/ serial = rec.cert
    \/ serial = rec.prev /\ rec.left >= 0

verify_device(rec, serial) == rec.status = "active" /\ serial_ok(rec, serial)

verify_ingest_key(rec) == rec.status = "active"

(* A tenant that is abuse_frozen, frozen or not yet provisioned is refused; *)
(* require_writes_allowed refuses the frozen ones alike.                    *)
require_ingest_allowed(rec) == rec.status = "active"

accepts(rec, serial) ==
    /\ entry = "device" => verify_device(rec, serial)
    /\ entry = "ingest_key" => verify_ingest_key(rec)
    /\ entry = "tenant" => require_ingest_allowed(rec)

(* The agent hears DEVICE_REVOKED and stops all sending. *)
on_revoked(r) == agent' = IF req[r].heard THEN [agent EXCEPT !.client = NoSerial] ELSE agent

decide(r) ==
    /\ req[r].pc = "decide"
    /\ LET ok == accepts(req[r].rec, req[r].serial)
           renew == ok /\ req[r].op = "renew"
       IN req' = [req EXCEPT ![r] = IF renew THEN [@ EXCEPT !.pc = "commit"] ELSE Idle]
    /\ IF req[r].op = "renew" /\ req[r].rec.status # "active" THEN on_revoked(r) ELSE UNCHANGED agent
    /\ UNCHANGED <<store, cache, lostExpire, failed, faults>>

----------------------------------------------------------------------------
(* renew_credential behind the check. *)

renew_row_mutant(serial) ==
    [row EXCEPT !.cert = serial, !.left = Overlap]

renew_row(serial) ==
    [row EXCEPT !.cert = serial, !.prev = row.cert, !.left = Overlap]

renew_commit(r) ==
    /\ req[r].pc = "commit"
    /\ IF row.status = "active"
       THEN /\ row' = renew_row(issued + 1)
            /\ issued' = issued + 1
            /\ since' = 0
            /\ req' = [q \in Requests |->
                   IF q = r THEN [onTime(req[q]) EXCEPT !.pc = "invalidate", !.new = issued + 1]
                   ELSE onTime(req[q])]
            /\ UNCHANGED agent
       ELSE /\ req' = [req EXCEPT ![r] = Idle]
            /\ on_revoked(r)
            /\ UNCHANGED <<row, since, issued>>
    /\ UNCHANGED <<entry, cache, change, changes, past, lostExpire, failed, faults>>

invalidate_device(r) ==
    /\ Step(r, "invalidate", "answer")
    /\ \/ cache' = NoCopy /\ UNCHANGED faults
       \/ Fault /\ UNCHANGED cache
    /\ UNCHANGED <<store, agent, lostExpire, failed>>

----------------------------------------------------------------------------
(* The agent's side of a renewal. *)

(* The answer arrives: every file is written and the client rebuilt. *)
renew_if_due(r) ==
    /\ req[r].pc = "answer"
    /\ req' = [req EXCEPT ![r] = Idle]
    /\ agent' = IF req[r].heard
                THEN [client |-> req[r].new, dates |-> req[r].new, key |-> req[r].new,
                      cert |-> req[r].new, ident |-> req[r].new]
                ELSE agent
    /\ UNCHANGED <<store, cache, lostExpire, failed, faults>>

(* The agent gives up on a renewal that the server still works on, or whose *)
(* answer is lost.                                                          *)
transport_error(r) ==
    /\ r \in renewing
    /\ Fault
    /\ req' = [req EXCEPT ![r].heard = FALSE]
    /\ failed' = TRUE
    /\ UNCHANGED <<store, cache, agent, lostExpire>>

(* The answer arrives and n of the files are written; write_atomic may have *)
(* removed the next one.  The dates in memory are already the new ones.     *)
save_fails(r) ==
    /\ req[r].pc = "answer" /\ req[r].heard
    /\ Fault
    /\ \E n \in 0..3, removed \in BOOLEAN :
          LET file(i, old) == IF i <= n THEN req[r].new
                              ELSE IF i = n + 1 /\ removed THEN NoSerial ELSE old
          IN agent' = [agent EXCEPT !.dates = req[r].new, !.key = file(1, agent.key),
                           !.cert = file(2, agent.cert), !.ident = file(3, agent.ident)]
    /\ req' = [req EXCEPT ![r] = Idle]
    /\ failed' = TRUE
    /\ UNCHANGED <<store, cache, lostExpire>>

(* A restart reads the files back.  Without one of them the device counts as *)
(* not enrolled, and a key that does not fit its certificate builds no       *)
(* client: either way this identity sends nothing more.                      *)
agent_restarts ==
    /\ Fault
    /\ agent.client # NoSerial
    /\ agent' = [agent EXCEPT !.dates = agent.ident,
                     !.client = IF agent.key = agent.cert /\ agent.ident # NoSerial
                                THEN agent.cert ELSE NoSerial]
    /\ req' = [q \in Requests |-> [req[q] EXCEPT !.heard = @ /\ req[q].op # "renew"]]
    /\ failed' = (failed \/ renewing # {})
    /\ UNCHANGED <<store, cache, lostExpire>>

----------------------------------------------------------------------------
(* Changes of the row, and time. *)

(* The row is committed; the copy is deleted in a step of its own. *)
commit(kind, from, to) ==
    /\ entry = kind /\ row.status = from
    /\ change = "idle" /\ changes < MaxChanges
    /\ row' = [row EXCEPT !.status = to]
    /\ change' = "delete" /\ changes' = changes + 1 /\ since' = 0
    /\ req' = [r \in Requests |-> onTime(req[r])]
    /\ UNCHANGED <<entry, cache, agent, past, issued, lostExpire, failed, faults>>

revoke_device == commit("device", "active", "revoked")

revoke_ingest_key == commit("ingest_key", "active", "revoked")

(* abuse_frozen and the status of the tenant are followed one at a time. *)
abuse_freeze(frozen) ==
    IF frozen THEN commit("tenant", "active", "abuse_frozen")
    ELSE commit("tenant", "abuse_frozen", "active")

job_trial_freeze == commit("tenant", "active", "frozen")

(* A plan other than the trial reactivates a frozen tenant. *)
change_plan == commit("tenant", "frozen", "active")

(* A failure of the delete is logged, or ends the request. *)
delete_on_change ==
    /\ change = "delete" /\ change' = "idle"
    /\ \/ cache' = NoCopy /\ UNCHANGED faults
       \/ Fault /\ UNCHANGED cache
    /\ UNCHANGED <<entry, row, req, since, changes, agent, past, issued, lostExpire, failed>>

down(n) == IF n < 0 THEN n ELSE n - 1

Tick ==
    /\ \A r \in Requests : req[r].pc # "idle" => req[r].age < Span
    /\ change = "idle"
    /\ req' = [r \in Requests |-> IF req[r].pc = "idle" THEN req[r]
                ELSE [req[r] EXCEPT !.age = @ + 1, !.rec.left = down(@)]]
    /\ row' = [row EXCEPT !.left = down(@)]
    /\ cache' = IF cache.ttl = 1 THEN NoCopy
                ELSE [rec |-> [cache.rec EXCEPT !.left = down(@)],
                      ttl |-> IF cache.ttl = Unexpiring THEN cache.ttl ELSE cache.ttl - 1]
    /\ since' = IF since = Late THEN since ELSE since + 1
    /\ UNCHANGED <<entry, change, changes, agent, past, issued, lostExpire, failed, faults>>

(* renewal_due: 90 day certificates, renewed after 60: the overlap of the *)
(* last renewal is long over.                                             *)
grow_old ==
    /\ entry = "device" /\ past < agent.dates /\ agent.dates < MaxSerial
    /\ row.left < 0
    /\ past' = agent.dates
    /\ UNCHANGED <<entry, row, cache, req, change, since, changes, agent, issued,
                   lostExpire, failed, faults>>

ServerStep(r) ==
    \/ cache_get(r) \/ pg_fetchrow(r) \/ cache_hset(r) \/ cache_expire(r) \/ decide(r)
    \/ renew_commit(r) \/ invalidate_device(r) \/ renew_if_due(r)

Next ==
    \/ \E r \in Requests :
          \/ \E op \in {"send", "renew"} : begin(r, op)
          \/ ServerStep(r)
          \/ server_dies(r) \/ transport_error(r) \/ save_fails(r)
    \/ agent_restarts
    \/ revoke_device \/ revoke_ingest_key
    \/ \E frozen \in BOOLEAN : abuse_freeze(frozen)
    \/ job_trial_freeze \/ change_plan
    \/ delete_on_change
    \/ Tick
    \/ grow_old

Spec == Init /\ [][Next]_vars

----------------------------------------------------------------------------
(* Type correctness of the stores, the requests and the agent. *)
Records ==
    [status : {"none", "active", "abuse_frozen", "frozen", "revoked"}, cert : Nat,
     prev : Nat, left : -1..Overlap]

RequestRecords ==
    [pc : {"idle", "get", "pg", "hset", "expire", "decide", "commit", "invalidate", "answer"},
     op : {"send", "renew"}, serial : Nat, rec : Records,
     age : 0..Span, late : BOOLEAN, new : Nat, heard : BOOLEAN]

TypeOK ==
    /\ entry \in {"device", "ingest_key", "tenant"}
    /\ row \in Records
    /\ cache \in [rec : Records, ttl : 1..Unexpiring]
    /\ req \in [Requests -> RequestRecords]
    /\ change \in {"idle", "delete"} /\ since \in 0..Late /\ changes \in 0..MaxChanges
    /\ agent \in [client : Nat, dates : Nat, key : Nat, cert : Nat, ident : Nat]
    /\ past \in Nat /\ issued \in Nat
    /\ lostExpire \in BOOLEAN /\ failed \in BOOLEAN /\ faults \in 0..MaxFaults

(* A request that begins later than the TTL and the length of two requests after the *)
(* row was revoked or frozen is refused, whatever requests overlap the change and    *)
(* whether or not its delete of the copy succeeded, copies written late included,    *)
(* unless the EXPIRE of some HSET was lost (status_stores.py _cache_set).  One       *)
(* request writes the old copy back at its end; a second, which began before that,   *)
(* may still renew the copy's expiry at its own.                                     *)
LateRequestRefused ==
    lostExpire \/ \A r \in Requests :
        req[r].pc = "decide" /\ req[r].late /\ row.status # "active" =>
            ~accepts(req[r].rec, req[r].serial)

(* While every answer to a renewal reaches the agent and is installed, the row of an *)
(* active device honours the serial the agent presents (api/enrollment.py            *)
(* renew_credential).  The server decides by the copy, and may refuse that serial    *)
(* for a while: a request that read the row before the renewal writes the old copy   *)
(* back after invalidate_device.  It ends like the acceptance of a revoked device:   *)
(* a request that begins later than the TTL and two requests after the last renewal  *)
(* or change is served, unless the EXPIRE of some HSET was lost.                     *)
RenewalKeepsAccess ==
    entry = "device" /\ ~failed /\ row.status = "active" =>
        /\ serial_ok(row, agent.client)
        /\ lostExpire \/ \A r \in Requests :
              req[r].pc = "decide" /\ req[r].late => accepts(req[r].rec, req[r].serial)

=============================================================================
