---------------------------- MODULE AccessProofs ----------------------------
(***************************************************************************)
(* Proofs about Access, for every number of requests in flight, every TTL, *)
(* length of a request and overlap of serials; and about Sessions, whose   *)
(* part begins with an instance of it.                                     *)
(***************************************************************************)
EXTENDS Access, SessionTables, TLAPS

----------------------------------------------------------------------------
(* The copy in Redis: how long it may differ from the row. *)

OutOfDate(rec) == rec.status # "none" /\ (rec.status # row.status \/ rec.cert # row.cert)

(* A request that read the row as it was before a change began before the change. *)
FillIsOld ==
    \A r \in Requests : req[r].pc \in {"hset", "expire"} /\ OutOfDate(req[r].rec) => since <= req[r].age

(* A copy without an expiry will be given one ... *)
ExpiryFollows ==
    cache.rec.status # "none" /\ cache.ttl = Unexpiring =>
        lostExpire \/ \E r \in Requests : req[r].pc = "expire"

(* ... an old one by a request that began at most one Span after the change ... *)
RenewedEarly ==
    OutOfDate(cache.rec) => \A r \in Requests : req[r].pc = "expire" => since <= Span + req[r].age

(* ... and with an expiry it is gone when requests begin to count as late. *)
CopyEnds ==
    OutOfDate(cache.rec) /\ cache.ttl # Unexpiring => since + cache.ttl <= Late

LateMeansLate ==
    \A r \in Requests : req[r].late => since >= Late

LateSeesChange ==
    lostExpire \/ \A r \in Requests :
        req[r].late /\ req[r].pc \in {"hset", "expire", "decide"} => ~ OutOfDate(req[r].rec)

CopyInv ==
    /\ TypeOK /\ FillIsOld /\ ExpiryFollows /\ RenewedEarly /\ CopyEnds
    /\ LateMeansLate /\ LateSeesChange

----------------------------------------------------------------------------
(* The serial of the agent, as long as the device is active and no answer was lost. *)

Renewal(r) == req[r].pc # "idle" /\ req[r].op = "renew"

Issued(r) == req[r].pc \in {"invalidate", "answer"}

(* Only an active row was ever read. *)
ReadsActive ==
    entry = "device" /\ row.status = "active" =>
        /\ cache = NoCopy \/ cache.rec.status = "active"
        /\ \A r \in Requests : req[r].pc \in {"hset", "expire", "decide"} => req[r].rec.status = "active"

OnlyRenewalsCommit ==
    \A r \in Requests : req[r].pc \in {"commit", "invalidate", "answer"} => req[r].op = "renew"

OneRenewal ==
    ~failed => /\ \A r \in Requests : Renewal(r) => req[r].heard
               /\ \A r, q \in Requests : Renewal(r) /\ Renewal(q) => r = q

FilesAgree ==
    entry = "device" /\ ~failed /\ row.status = "active" =>
        /\ agent.client # NoSerial
        /\ agent.key = agent.client /\ agent.cert = agent.client /\ agent.ident = agent.client

SerialKnown ==
    entry = "device" /\ ~failed /\ row.status = "active" =>
        /\ \A r \in Requests : Issued(r) =>
              /\ req[r].new = row.cert /\ req[r].new # NoSerial
              /\ agent.client = row.prev
              /\ row.left + req[r].age >= Overlap
        /\ (\A r \in Requests : ~ Issued(r)) => agent.client = row.cert

SerialInv ==
    TypeOK /\ ReadsActive /\ OnlyRenewalsCommit /\ OneRenewal /\ FilesAgree /\ SerialKnown

----------------------------------------------------------------------------
(* Types. *)

LEMMA Constants ==
    /\ TTL \in Nat \ {0} /\ Span \in Nat \ {0} /\ Overlap \in Nat \ {0} /\ MaxSerial \in Nat \ {0}
    /\ Overlap >= Span /\ MaxChanges \in Nat /\ MaxFaults \in Nat
    BY AccessAssumption DEF AccessAssumption

LEMMA DefaultsTyped ==
    /\ NoRecord \in Records
    /\ NoCopy \in [rec : Records, ttl : 1..Unexpiring]
    /\ Idle \in RequestRecords
<1>1. NoRecord \in Records
    BY Constants DEF NoRecord, Records, NoSerial
<1>2. NoCopy \in [rec : Records, ttl : 1..Unexpiring]
    BY <1>1, Constants DEF NoCopy, Unexpiring
<1>3. Idle \in RequestRecords
    BY <1>1, Constants DEF Idle, RequestRecords, NoSerial
<1>4. QED
    BY <1>1, <1>2, <1>3

LEMMA InitTyped == Init => TypeOK
<1> SUFFICES ASSUME Init PROVE TypeOK
    OBVIOUS
<1>1. row \in Records
    BY Constants DEF Init, Records, NoSerial
<1>2. cache \in [rec : Records, ttl : 1..Unexpiring] /\ req \in [Requests -> RequestRecords]
    BY DefaultsTyped DEF Init
<1>3. agent \in [client : Nat, dates : Nat, key : Nat, cert : Nat, ident : Nat]
    BY DEF Init
<1>4. since \in 0..Late /\ changes \in 0..MaxChanges /\ faults \in 0..MaxFaults
    BY Constants DEF Init, Late
<1>5. entry \in {"device", "ingest_key", "tenant"} /\ change \in {"idle", "delete"}
    BY DEF Init
<1>6. lostExpire \in BOOLEAN /\ failed \in BOOLEAN
    BY DEF Init
<1>7. past \in Nat /\ issued \in Nat
    BY DEF Init
<1>8. QED
    BY <1>1, <1>2, <1>3, <1>4, <1>5, <1>6, <1>7 DEF TypeOK

LEMMA FaultTyped ==
    ASSUME TypeOK, Fault
    PROVE  faults' \in 0..MaxFaults
    BY Constants DEF TypeOK, Fault

LEMMA TypeRequest ==
    ASSUME TypeOK, NEW r \in Requests,
           \/ \E op \in {"send", "renew"} : begin(r, op)
           \/ ServerStep(r)
           \/ server_dies(r) \/ transport_error(r) \/ save_fails(r)
    PROVE  TypeOK'
<1> USE DefaultsTyped
<1>0. req[r] \in RequestRecords /\ req[r].rec \in Records /\ cache.rec \in Records
    BY DEF TypeOK, RequestRecords
<1>1. ASSUME NEW op \in {"send", "renew"}, begin(r, op) PROVE TypeOK'
    <2>1. [Idle EXCEPT !.pc = "get", !.op = op, !.serial = agent.client, !.late = since >= Late]
             \in RequestRecords
        <3>1. agent.client \in Nat /\ (since >= Late) \in BOOLEAN
            BY DEF TypeOK
        <3>2. QED
            BY <3>1 DEF RequestRecords
    <2>2. QED
        BY <1>1, <2>1 DEF begin, store, TypeOK
<1>2. CASE cache_get(r)
    <2>1. /\ [req[r] EXCEPT !.pc = "decide", !.rec = cache.rec] \in RequestRecords
          /\ [req[r] EXCEPT !.pc = "pg"] \in RequestRecords
        BY <1>0 DEF RequestRecords
    <2>2. req' \in [Requests -> RequestRecords]
        BY <1>2, <2>1 DEF cache_get, TypeOK
    <2>3. QED
        BY <1>2, <2>2, FaultTyped DEF cache_get, store, TypeOK
<1>3. CASE pg_fetchrow(r)
    <2>1. [req[r] EXCEPT !.pc = "hset", !.rec = row] \in RequestRecords
        BY <1>0 DEF TypeOK, RequestRecords
    <2>2. req' \in [Requests -> RequestRecords]
        BY <1>3, <2>1 DEF pg_fetchrow, TypeOK
    <2>3. QED
        BY <1>3, <2>2, FaultTyped DEF pg_fetchrow, store, TypeOK
<1>4. CASE cache_hset(r)
    <2>1. /\ [req[r] EXCEPT !.pc = "expire"] \in RequestRecords
          /\ [req[r] EXCEPT !.pc = "decide"] \in RequestRecords
        BY <1>0 DEF RequestRecords
    <2>2. req' \in [Requests -> RequestRecords]
        BY <1>4, <2>1 DEF cache_hset, Step, TypeOK
    <2>3. cache' \in [rec : Records, ttl : 1..Unexpiring]
        BY <1>0, <1>4 DEF cache_hset, TypeOK
    <2>4. QED
        BY <1>4, <2>2, <2>3, FaultTyped DEF cache_hset, store, TypeOK
<1>5. CASE cache_expire(r)
    <2>1. [req[r] EXCEPT !.pc = "decide"] \in RequestRecords
        BY <1>0 DEF RequestRecords
    <2>2. req' \in [Requests -> RequestRecords]
        BY <1>5, <2>1 DEF cache_expire, Step, TypeOK
    <2>3. cache' \in [rec : Records, ttl : 1..Unexpiring]
        BY <1>0, <1>5, Constants DEF cache_expire, TypeOK, Unexpiring
    <2>4. QED
        BY <1>5, <2>2, <2>3, FaultTyped DEF cache_expire, store, TypeOK
<1>6. CASE decide(r)
    <2>1. [req[r] EXCEPT !.pc = "commit"] \in RequestRecords
        BY <1>0 DEF RequestRecords
    <2>2. req' \in [Requests -> RequestRecords]
        BY <1>6, <2>1 DEF decide, TypeOK
    <2>3. agent' \in [client : Nat, dates : Nat, key : Nat, cert : Nat, ident : Nat]
        BY <1>6 DEF decide, on_revoked, TypeOK, NoSerial
    <2>4. QED
        BY <1>6, <2>2, <2>3 DEF decide, store, TypeOK
<1>7. CASE renew_commit(r)
    <2>1. /\ \A q \in Requests : onTime(req[q]) \in RequestRecords
          /\ [onTime(req[r]) EXCEPT !.pc = "invalidate", !.new = issued + 1] \in RequestRecords
        <3>1. issued + 1 \in Nat
            BY DEF TypeOK
        <3>2. \A q \in Requests : onTime(req[q]) \in RequestRecords
            BY DEF TypeOK, onTime, RequestRecords
        <3>3. \A q \in RequestRecords, n \in Nat :
                  [q EXCEPT !.pc = "invalidate", !.new = n] \in RequestRecords
            BY DEF RequestRecords
        <3>4. QED
            BY <3>1, <3>2, <3>3
    <2>2. req' \in [Requests -> RequestRecords]
        BY <1>7, <2>1 DEF renew_commit, TypeOK
    <2>3. agent' \in [client : Nat, dates : Nat, key : Nat, cert : Nat, ident : Nat]
        <3>1. agent' = agent \/ agent' = [agent EXCEPT !.client = NoSerial]
            BY <1>7 DEF renew_commit, on_revoked
        <3>2. QED
            BY <3>1 DEF TypeOK, NoSerial
    <2>4. row' \in Records /\ issued' \in Nat
        <3>1. issued + 1 \in Nat /\ row \in Records /\ Overlap \in -1..Overlap
            BY Constants DEF TypeOK
        <3>2. renew_row(issued + 1) \in Records
            BY <3>1 DEF renew_row, Records
        <3>3. QED
            BY <1>7, <3>1, <3>2 DEF renew_commit, TypeOK
    <2>5. since' \in 0..Late
        <3>1. since' = 0 \/ since' = since
            BY <1>7 DEF renew_commit
        <3>2. QED
            BY <3>1, Constants DEF TypeOK, Late
    <2>6. QED
        BY <1>7, <2>2, <2>3, <2>4, <2>5 DEF renew_commit, TypeOK
<1>8. CASE invalidate_device(r)
    <2>1. [req[r] EXCEPT !.pc = "answer"] \in RequestRecords
        BY <1>0 DEF RequestRecords
    <2>2. req' \in [Requests -> RequestRecords]
        BY <1>8, <2>1 DEF invalidate_device, Step, TypeOK
    <2>3. QED
        BY <1>8, <2>2, FaultTyped DEF invalidate_device, store, TypeOK
<1>9. CASE renew_if_due(r)
    <2>1. req' \in [Requests -> RequestRecords]
        BY <1>9 DEF renew_if_due, TypeOK
    <2>2. agent' \in [client : Nat, dates : Nat, key : Nat, cert : Nat, ident : Nat]
        BY <1>0, <1>9 DEF renew_if_due, TypeOK, RequestRecords
    <2>3. QED
        BY <1>9, <2>1, <2>2 DEF renew_if_due, store, TypeOK
<1>10. CASE server_dies(r)
    BY <1>10, FaultTyped DEF server_dies, store, TypeOK
<1>11. CASE transport_error(r)
    <2>1. [req[r] EXCEPT !.heard = FALSE] \in RequestRecords
        BY <1>0 DEF RequestRecords
    <2>2. QED
        BY <1>11, <2>1, FaultTyped DEF transport_error, store, TypeOK
<1>12. CASE save_fails(r)
    <2>1. req[r].new \in Nat
        BY <1>0 DEF RequestRecords
    <2>2. agent' \in [client : Nat, dates : Nat, key : Nat, cert : Nat, ident : Nat]
        <3>1. PICK n \in 0..3, removed \in BOOLEAN :
                 LET file(i, old) == IF i <= n THEN req[r].new
                                     ELSE IF i = n + 1 /\ removed THEN NoSerial ELSE old
                 IN agent' = [agent EXCEPT !.dates = req[r].new, !.key = file(1, agent.key),
                                  !.cert = file(2, agent.cert), !.ident = file(3, agent.ident)]
            BY <1>12 DEF save_fails
        <3> DEFINE file(i, old) == IF i <= n THEN req[r].new
                                   ELSE IF i = n + 1 /\ removed THEN NoSerial ELSE old
        <3>2. \A i \in 1..3, old \in Nat : file(i, old) \in Nat
            BY <2>1 DEF NoSerial
        <3>3. agent' = [agent EXCEPT !.dates = req[r].new, !.key = file(1, agent.key),
                            !.cert = file(2, agent.cert), !.ident = file(3, agent.ident)]
            BY <3>1
        <3>4. file(1, agent.key) \in Nat /\ file(2, agent.cert) \in Nat /\ file(3, agent.ident) \in Nat
            BY <3>2 DEF TypeOK
        <3> HIDE DEF file
        <3>5. QED
            BY <2>1, <3>3, <3>4 DEF TypeOK
    <2>3. QED
        BY <1>12, <2>2, FaultTyped DEF save_fails, store, TypeOK
<1>13. QED
    BY <1>1, <1>2, <1>3, <1>4, <1>5, <1>6, <1>7, <1>8, <1>9, <1>10, <1>11, <1>12 DEF ServerStep

(* The five changes of the row. *)
Commit == \E kind, from, to : commit(kind, from, to) /\ to \in {"active", "revoked", "abuse_frozen", "frozen"}
                              /\ (from = "active" \/ to = "active") /\ from # to /\ kind \in {"device", "ingest_key", "tenant"}
                              /\ (kind = "device" => to = "revoked")

LEMMA Changes ==
    ASSUME revoke_device \/ revoke_ingest_key \/ job_trial_freeze \/ change_plan
           \/ \E frozen \in BOOLEAN : abuse_freeze(frozen)
    PROVE  Commit
    BY DEF Commit, revoke_device, revoke_ingest_key, job_trial_freeze, change_plan, abuse_freeze

LEMMA TypeOther ==
    ASSUME TypeOK, agent_restarts \/ Commit \/ delete_on_change \/ Tick \/ grow_old
    PROVE  TypeOK'
<1> USE DefaultsTyped, Constants
<1>0. \A r \in Requests : req[r] \in RequestRecords
    BY DEF TypeOK
<1>1. CASE agent_restarts
    <2>1. \A q \in Requests : [req[q] EXCEPT !.heard = @ /\ req[q].op # "renew"] \in RequestRecords
        BY <1>0 DEF RequestRecords
    <2>2. req' \in [Requests -> RequestRecords]
        BY <1>1, <2>1 DEF agent_restarts
    <2>3. agent' \in [client : Nat, dates : Nat, key : Nat, cert : Nat, ident : Nat]
        BY <1>1 DEF agent_restarts, TypeOK, NoSerial
    <2>4. QED
        BY <1>1, <2>2, <2>3, FaultTyped DEF agent_restarts, store, TypeOK
<1>2. ASSUME NEW kind, NEW from, NEW to \in {"active", "revoked", "abuse_frozen", "frozen"},
             commit(kind, from, to)
      PROVE  TypeOK'
    <2>1. \A r \in Requests : onTime(req[r]) \in RequestRecords
        BY <1>0 DEF onTime, RequestRecords
    <2>2. req' \in [Requests -> RequestRecords]
        BY <1>2, <2>1 DEF commit
    <2>3. row' \in Records
        BY <1>2 DEF commit, TypeOK, Records
    <2>4. QED
        BY <1>2, <2>2, <2>3 DEF commit, TypeOK, Late
<1>3. CASE delete_on_change
    BY <1>3, FaultTyped DEF delete_on_change, TypeOK
<1>4. CASE Tick
    <2>1. \A rec \in Records : down(rec.left) \in -1..Overlap /\ [rec EXCEPT !.left = down(@)] \in Records
        BY DEF Records, down
    <2>2. ASSUME NEW r \in Requests, req[r].pc # "idle"
          PROVE  [req[r] EXCEPT !.age = @ + 1, !.rec.left = down(@)] \in RequestRecords
        <3>1. req[r].age + 1 \in 0..Span
            <4>1. req[r].age \in 0..Span
                BY <1>0 DEF RequestRecords
            <4>2. req[r].age < Span
                BY <1>4, <2>2 DEF Tick
            <4>3. QED
                BY <4>1, <4>2
        <3>2. req[r].rec \in Records
            BY <1>0 DEF RequestRecords
        <3>3. [req[r].rec EXCEPT !.left = down(@)] \in Records
            BY <2>1, <3>2
        <3>4. QED
            BY <1>0, <3>1, <3>3 DEF RequestRecords
    <2>3. req' \in [Requests -> RequestRecords]
        BY <1>0, <1>4, <2>2 DEF Tick
    <2>4. row' \in Records
        BY <1>4, <2>1 DEF Tick, TypeOK
    <2>5. cache' \in [rec : Records, ttl : 1..Unexpiring]
        <3>1. [cache.rec EXCEPT !.left = down(@)] \in Records
            BY <2>1 DEF TypeOK
        <3>2. QED
            <4>1. cache.ttl \in 1..Unexpiring
                BY DEF TypeOK
            <4>2. cache.ttl # 1 => cache.ttl - 1 \in 1..Unexpiring
                BY <4>1 DEF Unexpiring
            <4>3. QED
                BY <1>4, <3>1, <4>1, <4>2 DEF Tick
    <2>6. since' \in 0..Late
        <3>1. since \in 0..Late /\ Late \in Nat
            BY DEF TypeOK, Late
        <3>2. since' = since \/ (since # Late /\ since' = since + 1)
            BY <1>4 DEF Tick
        <3>3. QED
            BY <3>1, <3>2
    <2>7. QED
        BY <1>4, <2>3, <2>4, <2>5, <2>6 DEF Tick, TypeOK
<1>5. CASE grow_old
    BY <1>5 DEF grow_old, TypeOK
<1>6. QED
    BY <1>1, <1>2, <1>3, <1>4, <1>5 DEF Commit

LEMMA TypeStep == TypeOK /\ [Next]_vars => TypeOK'
<1> SUFFICES ASSUME TypeOK, [Next]_vars PROVE TypeOK'
    OBVIOUS
<1>1. CASE UNCHANGED vars
    BY <1>1 DEF vars, TypeOK
<1>2. CASE Next
    BY <1>2, TypeRequest, TypeOther, Changes DEF Next
<1>3. QED
    BY <1>1, <1>2

----------------------------------------------------------------------------
(* Steps of the copy's invariant. *)

(* What the arithmetic below uses of the types. *)
LEMMA Numbers ==
    ASSUME TypeOK
    PROVE  /\ since \in Nat /\ cache.ttl \in Nat /\ cache.ttl >= 1 /\ cache.ttl <= Unexpiring
           /\ \A r \in Requests : req[r].age \in Nat /\ req[r].age <= Span
           /\ Late = TTL + 2 * Span /\ Unexpiring = TTL + 1 /\ TTL \in Nat /\ Span \in Nat /\ TTL >= 1
           /\ Span >= 1
<1>1. since \in 0..Late /\ cache.ttl \in 1..Unexpiring
    BY DEF TypeOK
<1>2. \A r \in Requests : req[r].age \in 0..Span
    BY DEF TypeOK, RequestRecords
<1>3. QED
    BY <1>1, <1>2, Constants DEF Late, Unexpiring

(* A request moves on and leaves row, copy and clock alone; it does not begin to fill *)
(* the copy, and one that gives up its EXPIRE is recorded.                            *)
LEMMA RequestMoves ==
    ASSUME CopyInv, TypeOK', NEW r \in Requests, UNCHANGED <<cache, since>>, row'.status = row.status, row'.cert = row.cert,
           lostExpire => lostExpire',
           \A q \in Requests \ {r} : req'[q] = req[q],
           req'[r].late => req[r].late,
           req'[r].pc \notin {"hset", "expire"},
           req'[r].pc = "decide" => (req'[r].late /\ ~lostExpire' => ~ OutOfDate(req'[r].rec)),
           req[r].pc = "expire" => lostExpire'
    PROVE  CopyInv'
<1> USE DEF CopyInv, OutOfDate
<1>1. FillIsOld' /\ RenewedEarly' /\ CopyEnds'
    BY DEF FillIsOld, RenewedEarly, CopyEnds
<1>2. ExpiryFollows'
    BY DEF ExpiryFollows
<1>3. LateMeansLate' /\ LateSeesChange'
    BY DEF LateMeansLate, LateSeesChange
<1>4. QED
    BY <1>1, <1>2, <1>3

(* Nothing changes but whether the agent still listens. *)
LEMMA OnlyHeardChanges ==
    ASSUME CopyInv, TypeOK', UNCHANGED <<cache, since, lostExpire>>, row'.status = row.status, row'.cert = row.cert,
           \A q \in Requests : /\ req'[q].pc = req[q].pc /\ req'[q].rec = req[q].rec
                               /\ req'[q].age = req[q].age /\ req'[q].late = req[q].late
    PROVE  CopyInv'
<1> USE DEF CopyInv, OutOfDate
<1>1. FillIsOld' /\ RenewedEarly' /\ CopyEnds' /\ ExpiryFollows'
    BY DEF FillIsOld, RenewedEarly, CopyEnds, ExpiryFollows
<1>2. LateMeansLate' /\ LateSeesChange'
    BY DEF LateMeansLate, LateSeesChange
<1>3. QED
    BY <1>1, <1>2

(* A late request finds no old copy, unless an EXPIRE was lost. *)
LEMMA LateFindsNoCopy ==
    ASSUME CopyInv, NEW r \in Requests, req[r].late, ~lostExpire
    PROVE  ~ OutOfDate(cache.rec)
<1>1. SUFFICES ASSUME OutOfDate(cache.rec) PROVE FALSE
    OBVIOUS
<1>2. since >= Late
    BY DEF CopyInv, LateMeansLate
<1>3. CASE cache.ttl = Unexpiring
    <2>1. PICK q \in Requests : req[q].pc = "expire"
        BY <1>1, <1>3 DEF CopyInv, ExpiryFollows, OutOfDate
    <2>2. since <= Span + req[q].age
        BY <1>1, <1>2, <2>1 DEF CopyInv, RenewedEarly
    <2>3. QED
        BY <1>2, <2>2, Numbers DEF CopyInv
<1>4. CASE cache.ttl # Unexpiring
    <2>1. since + cache.ttl <= Late
        BY <1>1, <1>2, <1>4 DEF CopyInv, CopyEnds
    <2>2. QED
        BY <1>2, <2>1, Numbers DEF CopyInv
<1>5. QED
    BY <1>3, <1>4

(* The copy is deleted or expires. *)
LEMMA CopyDeleted ==
    ASSUME CopyInv, TypeOK', cache' = NoCopy, UNCHANGED <<since, lostExpire>>, row'.status = row.status, row'.cert = row.cert,
           \A q \in Requests : /\ req'[q].pc \in {"hset", "expire", "decide"} => req'[q].pc = req[q].pc
                               /\ req'[q].rec = req[q].rec
                               /\ req'[q].age = req[q].age /\ req'[q].late = req[q].late
    PROVE  CopyInv'
<1> USE DEF CopyInv, OutOfDate
<1>1. cache'.rec.status = "none"
    BY DEF NoCopy, NoRecord
<1>2. FillIsOld' /\ RenewedEarly' /\ CopyEnds' /\ ExpiryFollows'
    BY <1>1 DEF FillIsOld, RenewedEarly, CopyEnds, ExpiryFollows
<1>3. LateMeansLate' /\ LateSeesChange'
    BY DEF LateMeansLate, LateSeesChange
<1>4. QED
    BY <1>2, <1>3

LEMMA CopyBegin ==
    ASSUME CopyInv, TypeOK', NEW r \in Requests, NEW op \in {"send", "renew"}, begin(r, op)
    PROVE  CopyInv'
<1> USE DEF CopyInv, OutOfDate
<1>1. /\ req'[r].pc = "get" /\ req'[r].late = (since >= Late)
      /\ \A q \in Requests \ {r} : req'[q] = req[q]
      /\ req[r].pc = "idle" /\ UNCHANGED <<row, cache, since, lostExpire>>
    BY DEF begin, store, TypeOK, Idle
<1>3. FillIsOld' /\ RenewedEarly' /\ CopyEnds' /\ ExpiryFollows'
    BY <1>1 DEF FillIsOld, RenewedEarly, CopyEnds, ExpiryFollows
<1>4. LateMeansLate' /\ LateSeesChange'
    BY <1>1 DEF LateMeansLate, LateSeesChange
<1>5. QED
    BY <1>3, <1>4

LEMMA CopyGet ==
    ASSUME CopyInv, TypeOK', NEW r \in Requests, cache_get(r)
    PROVE  CopyInv'
<1>1. /\ \A q \in Requests \ {r} : req'[q] = req[q]
      /\ req'[r].late = req[r].late
      /\ \/ req'[r].pc = "decide" /\ req'[r].rec = cache.rec
         \/ req'[r].pc = "pg"
      /\ req[r].pc = "get" /\ UNCHANGED <<row, cache, since, lostExpire>>
    BY DEF cache_get, store, CopyInv, TypeOK, RequestRecords
<1>2. QED
    BY <1>1, LateFindsNoCopy, RequestMoves

LEMMA CopyFetch ==
    ASSUME CopyInv, TypeOK', NEW r \in Requests, pg_fetchrow(r)
    PROVE  CopyInv'
<1>0. req[r].pc = "pg" /\ UNCHANGED <<row, cache, since, lostExpire>>
    BY DEF pg_fetchrow, store
<1>1. CASE req' = [req EXCEPT ![r].pc = "hset", ![r].rec = row]
    <2> USE DEF CopyInv, OutOfDate
    <2>1. /\ req'[r].pc = "hset" /\ req'[r].rec = row /\ req'[r].late = req[r].late
          /\ \A q \in Requests \ {r} : req'[q] = req[q]
        BY <1>1 DEF TypeOK, RequestRecords
    <2>2. FillIsOld' /\ RenewedEarly' /\ CopyEnds' /\ ExpiryFollows'
        BY <1>0, <2>1 DEF FillIsOld, RenewedEarly, CopyEnds, ExpiryFollows
    <2>3. LateMeansLate' /\ LateSeesChange'
        BY <1>0, <2>1 DEF LateMeansLate, LateSeesChange
    <2>4. QED
        BY <2>2, <2>3
<1>2. CASE req' = [req EXCEPT ![r] = Idle]
    <2>1. req'[r].pc = "idle" /\ ~ req'[r].late /\ \A q \in Requests \ {r} : req'[q] = req[q]
        BY <1>2 DEF CopyInv, TypeOK, Idle
    <2>2. QED
        BY <1>0, <2>1, RequestMoves
<1>3. QED
    BY <1>1, <1>2 DEF pg_fetchrow

LEMMA CopyHset ==
    ASSUME CopyInv, TypeOK', NEW r \in Requests, cache_hset(r)
    PROVE  CopyInv'
<1>0. req[r].pc = "hset" /\ UNCHANGED <<row, since, lostExpire>>
    BY DEF cache_hset, Step, store
<1>1. CASE req' = [req EXCEPT ![r].pc = "expire"] /\ cache' = [cache EXCEPT !.rec = req[r].rec]
    <2> USE DEF CopyInv, OutOfDate
    <2>1. /\ req'[r].pc = "expire" /\ req'[r].rec = req[r].rec /\ req'[r].late = req[r].late
          /\ req'[r].age = req[r].age
          /\ \A q \in Requests \ {r} : req'[q] = req[q]
        BY <1>1 DEF TypeOK, RequestRecords
    <2>2. cache'.rec = req[r].rec /\ cache'.ttl = cache.ttl
        BY <1>1 DEF TypeOK
    <2>3. OutOfDate(req[r].rec) => since <= req[r].age
        BY <1>0 DEF FillIsOld
    <2>4. FillIsOld' /\ ExpiryFollows'
        BY <1>0, <2>1, <2>3 DEF FillIsOld, ExpiryFollows
    <2>5. RenewedEarly'
        <3> SUFFICES ASSUME OutOfDate(req[r].rec), NEW q \in Requests, req'[q].pc = "expire"
                     PROVE  since <= Span + req'[q].age
            BY <1>0, <2>2 DEF RenewedEarly
        <3>1. since <= req[r].age /\ req'[q].age = req[q].age
            BY <1>0, <2>1, <2>3
        <3>2. QED
            BY <3>1, Numbers
    <2>6. CopyEnds'
        <3> SUFFICES ASSUME OutOfDate(req[r].rec), cache.ttl # Unexpiring
                     PROVE  since + cache.ttl <= Late
            BY <1>0, <2>2 DEF CopyEnds
        <3>1. since <= req[r].age
            BY <1>0, <2>3
        <3>2. QED
            BY <3>1, Numbers
    <2>7. LateMeansLate' /\ LateSeesChange'
        BY <1>0, <2>1 DEF LateMeansLate, LateSeesChange
    <2>8. QED
        BY <2>4, <2>5, <2>6, <2>7
<1>2. CASE req' = [req EXCEPT ![r].pc = "decide"] /\ UNCHANGED cache
    <2>1. /\ req'[r].pc = "decide" /\ req'[r].rec = req[r].rec /\ req'[r].late = req[r].late
          /\ \A q \in Requests \ {r} : req'[q] = req[q]
        BY <1>2 DEF CopyInv, TypeOK, RequestRecords
    <2>2. QED
        BY <1>0, <1>2, <2>1, RequestMoves DEF CopyInv, LateSeesChange
<1>3. QED
    BY <1>1, <1>2 DEF cache_hset, Step

LEMMA CopyExpire ==
    ASSUME CopyInv, TypeOK', NEW r \in Requests, cache_expire(r)
    PROVE  CopyInv'
<1>0. /\ req[r].pc = "expire" /\ UNCHANGED <<row, since>>
      /\ req' = [req EXCEPT ![r].pc = "decide"]
    BY DEF cache_expire, Step, store
<1>1. /\ req'[r].pc = "decide" /\ req'[r].rec = req[r].rec /\ req'[r].late = req[r].late
      /\ req'[r].age = req[r].age
      /\ \A q \in Requests \ {r} : req'[q] = req[q]
    BY <1>0 DEF CopyInv, TypeOK, RequestRecords
<1>2. CASE cache' = (IF cache = NoCopy THEN NoCopy ELSE [cache EXCEPT !.ttl = TTL]) /\ UNCHANGED lostExpire
    <2> USE DEF CopyInv, OutOfDate
    <2>1. cache'.rec = cache.rec /\ (cache.rec.status # "none" => cache'.ttl = TTL)
        BY <1>2 DEF TypeOK, NoCopy, NoRecord
    <2>2. FillIsOld' /\ RenewedEarly'
        BY <1>0, <1>1, <2>1 DEF FillIsOld, RenewedEarly
    <2>3. ExpiryFollows'
        BY <2>1, Numbers DEF ExpiryFollows
    <2>4. CopyEnds'
        <3> SUFFICES ASSUME OutOfDate(cache.rec)
                     PROVE  since + TTL <= Late
            BY <1>0, <2>1 DEF CopyEnds
        <3>1. since <= Span + req[r].age
            BY <1>0 DEF RenewedEarly
        <3>2. QED
            BY <3>1, Numbers
    <2>5. LateMeansLate' /\ LateSeesChange'
        BY <1>0, <1>1, <1>2 DEF LateMeansLate, LateSeesChange
    <2>6. QED
        BY <2>2, <2>3, <2>4, <2>5
<1>3. CASE lostExpire' /\ UNCHANGED cache
    BY <1>0, <1>1, <1>3, RequestMoves
<1>4. QED
    BY <1>2, <1>3 DEF cache_expire

(* The steps behind the check. *)
LEMMA CopyBehind ==
    ASSUME CopyInv, TypeOK', NEW r \in Requests,
           \/ decide(r) \/ renew_if_due(r) \/ server_dies(r) \/ save_fails(r)
           \/ renew_commit(r) /\ row.status # "active"
    PROVE  CopyInv'
<1>1. /\ UNCHANGED <<cache, since, row>> /\ (lostExpire => lostExpire')
      /\ req[r].pc = "expire" => lostExpire'
    BY DEF decide, renew_commit, renew_if_due, server_dies, save_fails, store, CopyInv, TypeOK
<1>2. /\ \A q \in Requests \ {r} : req'[q] = req[q]
      /\ req'[r] = Idle \/ (req'[r].pc = "commit" /\ req'[r].late = req[r].late)
    <2> USE DEF CopyInv, TypeOK, RequestRecords
    <2>1. CASE decide(r)
        BY <2>1 DEF decide
    <2>2. CASE renew_commit(r) /\ row.status # "active"
        BY <2>2 DEF renew_commit
    <2>3. CASE renew_if_due(r) \/ server_dies(r) \/ save_fails(r)
        BY <2>3 DEF renew_if_due, server_dies, save_fails
    <2>4. QED
        BY <2>1, <2>2, <2>3
<1>3. /\ req'[r].late => req[r].late
      /\ req'[r].pc \notin {"hset", "expire", "decide"}
    BY <1>2 DEF Idle
<1>4. QED
    BY <1>1, <1>2, <1>3, RequestMoves

LEMMA CopyInvalidate ==
    ASSUME CopyInv, TypeOK', NEW r \in Requests, invalidate_device(r)
    PROVE  CopyInv'
<1>1. /\ req'[r].pc = "answer" /\ req'[r].rec = req[r].rec /\ req'[r].late = req[r].late
      /\ req'[r].age = req[r].age /\ req[r].pc = "invalidate"
      /\ \A q \in Requests \ {r} : req'[q] = req[q]
    BY DEF invalidate_device, Step, CopyInv, TypeOK, RequestRecords
<1>2. UNCHANGED <<row, since, lostExpire>> /\ (cache' = NoCopy \/ UNCHANGED cache)
    BY DEF invalidate_device, store
<1>3. CASE cache' = NoCopy
    BY <1>1, <1>2, <1>3, CopyDeleted
<1>4. CASE UNCHANGED cache
    BY <1>1, <1>2, <1>4, RequestMoves
<1>5. QED
    BY <1>2, <1>3, <1>4

LEMMA CopyUnheard ==
    ASSUME CopyInv, TypeOK', agent_restarts \/ \E r \in Requests : transport_error(r)
    PROVE  CopyInv'
<1>1. UNCHANGED <<row, cache, since, lostExpire>>
    BY DEF agent_restarts, transport_error, store
<1>2. \A q \in Requests : /\ req'[q].pc = req[q].pc /\ req'[q].rec = req[q].rec
                          /\ req'[q].age = req[q].age /\ req'[q].late = req[q].late
    BY DEF agent_restarts, transport_error, CopyInv, TypeOK, RequestRecords
<1>3. QED
    BY <1>1, <1>2, OnlyHeardChanges

(* The row changes: time starts anew, and no request is late. *)
LEMMA CopyChanged ==
    ASSUME CopyInv, TypeOK', since' = 0, UNCHANGED <<cache, lostExpire>>,
           \A q \in Requests : /\ req'[q].age = req[q].age /\ ~ req'[q].late
                               /\ req[q].pc = "expire" => req'[q].pc = "expire"
    PROVE  CopyInv'
<1> USE DEF CopyInv
<1>0. /\ \A q \in Requests : req'[q].age \in Nat
      /\ cache'.ttl \in Nat /\ cache'.ttl <= Unexpiring /\ since' = 0
    BY Numbers
<1>1. FillIsOld' /\ RenewedEarly'
    BY <1>0, Numbers DEF FillIsOld, RenewedEarly
<1>2. ExpiryFollows'
    BY DEF ExpiryFollows
<1>3. CopyEnds'
    BY <1>0, Numbers DEF CopyEnds
<1>4. LateMeansLate' /\ LateSeesChange'
    BY DEF LateMeansLate, LateSeesChange
<1>5. QED
    BY <1>1, <1>2, <1>3, <1>4

LEMMA CopyChange ==
    ASSUME CopyInv, TypeOK', Commit
    PROVE  CopyInv'
<1>1. PICK kind, from, to : commit(kind, from, to)
    BY DEF Commit
<1>2. since' = 0 /\ UNCHANGED <<cache, lostExpire>>
    BY <1>1 DEF commit
<1>3. \A q \in Requests : /\ req'[q].pc = req[q].pc /\ req'[q].age = req[q].age /\ ~ req'[q].late
    BY <1>1 DEF commit, onTime, CopyInv, TypeOK, RequestRecords
<1>4. QED
    BY <1>2, <1>3, CopyChanged

LEMMA RenewFields ==
    ASSUME TypeOK, NEW r \in Requests, renew_commit(r), row.status = "active"
    PROVE  \A q \in Requests : /\ req'[q].age = req[q].age /\ ~ req'[q].late
                               /\ req[q].pc = "expire" => req'[q].pc = "expire"
<1>1. req[r].pc = "commit"
    BY DEF renew_commit
<1>2. ASSUME NEW q \in Requests
      PROVE  /\ req'[q].age = req[q].age /\ ~ req'[q].late
             /\ req[q].pc = "expire" => req'[q].pc = "expire"
    <2>1. req[q] \in RequestRecords
        BY DEF TypeOK
    <2>2. CASE q = r
        <3>1. req'[q] = [onTime(req[q]) EXCEPT !.pc = "invalidate", !.new = issued + 1]
            BY <2>2 DEF renew_commit
        <3>2. QED
            BY <1>1, <2>1, <2>2, <3>1 DEF onTime, RequestRecords
    <2>3. CASE q # r
        <3>1. req'[q] = onTime(req[q])
            BY <2>3 DEF renew_commit
        <3>2. QED
            BY <2>1, <3>1 DEF onTime, RequestRecords
    <2>4. QED
        BY <2>2, <2>3
<1>3. QED
    BY <1>2

LEMMA CopyRenew ==
    ASSUME CopyInv, TypeOK', NEW r \in Requests, renew_commit(r), row.status = "active"
    PROVE  CopyInv'
<1>1. since' = 0 /\ UNCHANGED <<cache, lostExpire>> /\ req[r].pc = "commit"
    BY DEF renew_commit
<1>2. QED
    BY <1>1, RenewFields, CopyChanged DEF CopyInv

LEMMA CopyDeleteOnChange ==
    ASSUME CopyInv, TypeOK', delete_on_change
    PROVE  CopyInv'
<1>1. UNCHANGED <<row, req, since, lostExpire>> /\ (cache' = NoCopy \/ UNCHANGED cache)
    BY DEF delete_on_change
<1>2. CASE cache' = NoCopy
    BY <1>1, <1>2, CopyDeleted
<1>3. CASE UNCHANGED cache
    BY <1>1, <1>3, OnlyHeardChanges
<1>4. QED
    BY <1>1, <1>2, <1>3

LEMMA CopyTick ==
    ASSUME CopyInv, TypeOK', Tick
    PROVE  CopyInv'
<1> USE DEF CopyInv, OutOfDate
<1>1. row'.status = row.status /\ row'.cert = row.cert /\ lostExpire' = lostExpire
    BY DEF Tick, TypeOK, Records
<1>2. since' = (IF since = Late THEN since ELSE since + 1)
    BY DEF Tick
<1>3. \A q \in Requests : /\ req'[q].pc = req[q].pc /\ req'[q].rec.status = req[q].rec.status /\ req'[q].rec.cert = req[q].rec.cert
                          /\ req'[q].late = req[q].late
                          /\ req[q].pc # "idle" => req'[q].age = req[q].age + 1
    <2> SUFFICES ASSUME NEW q \in Requests
                 PROVE  /\ req'[q].pc = req[q].pc /\ req'[q].rec.status = req[q].rec.status /\ req'[q].rec.cert = req[q].rec.cert
                        /\ req'[q].late = req[q].late
                        /\ req[q].pc # "idle" => req'[q].age = req[q].age + 1
        OBVIOUS
    <2>1. CASE req[q].pc = "idle"
        BY <2>1 DEF Tick
    <2>2. CASE req[q].pc # "idle"
        <3>1. req'[q] = [req[q] EXCEPT !.age = @ + 1, !.rec.left = down(@)]
            BY <2>2 DEF Tick
        <3>2. req[q] \in RequestRecords /\ req[q].rec \in Records
            BY DEF TypeOK, RequestRecords
        <3>3. QED
            BY <3>1, <3>2 DEF RequestRecords, Records
    <2>3. QED
        BY <2>1, <2>2
<1>4. \/ cache'.rec.status = "none"
      \/ /\ cache'.rec.status = cache.rec.status /\ cache'.rec.cert = cache.rec.cert
         /\ cache.ttl # 1
         /\ cache'.ttl = (IF cache.ttl = Unexpiring THEN cache.ttl ELSE cache.ttl - 1)
    BY DEF Tick, TypeOK, Records, NoCopy, NoRecord
<1>5. LateMeansLate' /\ LateSeesChange'
    BY <1>1, <1>2, <1>3, Numbers DEF LateMeansLate, LateSeesChange
<1>6. FillIsOld'
    BY <1>1, <1>2, <1>3, Numbers DEF FillIsOld
<1>7. RenewedEarly'
    BY <1>1, <1>2, <1>3, <1>4, Numbers DEF RenewedEarly
<1>8. ExpiryFollows'
    BY <1>1, <1>3, <1>4, Numbers DEF ExpiryFollows
<1>9. CopyEnds'
    BY <1>1, <1>2, <1>4, Numbers DEF CopyEnds
<1>10. QED
    BY <1>5, <1>6, <1>7, <1>8, <1>9

LEMMA CopyStep == CopyInv /\ [Next]_vars => CopyInv'
<1> SUFFICES ASSUME CopyInv, [Next]_vars PROVE CopyInv'
    OBVIOUS
<1>0. TypeOK'
    BY TypeStep DEF CopyInv
<1>1. CASE UNCHANGED vars
    BY <1>0, <1>1, OnlyHeardChanges DEF vars
<1>2. ASSUME NEW r \in Requests, ServerStep(r) PROVE CopyInv'
    BY <1>0, <1>2, CopyGet, CopyFetch, CopyHset, CopyExpire, CopyBehind, CopyRenew, CopyInvalidate
       DEF ServerStep
<1>3. ASSUME NEW r \in Requests,
             (\E op \in {"send", "renew"} : begin(r, op)) \/ server_dies(r) \/ transport_error(r) \/ save_fails(r)
      PROVE CopyInv'
    BY <1>0, <1>3, CopyBegin, CopyBehind, CopyUnheard
<1>4. CASE agent_restarts \/ Commit \/ delete_on_change \/ Tick
    BY <1>0, <1>4, CopyUnheard, CopyChange, CopyDeleteOnChange, CopyTick
<1>5. CASE grow_old
    BY <1>0, <1>5, OnlyHeardChanges DEF grow_old
<1>6. QED
    BY <1>1, <1>2, <1>3, <1>4, <1>5, Changes DEF Next

LEMMA InitCopy == Init => CopyInv
<1> SUFFICES ASSUME Init PROVE CopyInv
    OBVIOUS
<1>1. TypeOK
    BY InitTyped
<1>2. FillIsOld /\ ExpiryFollows /\ RenewedEarly /\ CopyEnds
    BY DEF Init, FillIsOld, ExpiryFollows, RenewedEarly, CopyEnds, Idle, NoCopy,
       NoRecord, OutOfDate
<1>3. LateMeansLate /\ LateSeesChange
    BY DEF Init, LateMeansLate, LateSeesChange, Idle
<1>4. QED
    BY <1>1, <1>2, <1>3 DEF CopyInv

(* The copy in Redis never outlives a change by more than the TTL and the length of   *)
(* two requests (status_stores.py _cache_set, delete_on_change).                      *)
THEOREM LateRequestRefusedHolds == Spec => []LateRequestRefused
<1>1. Spec => []CopyInv
    BY InitCopy, CopyStep, PTL DEF Spec
<1>2. CopyInv => LateRequestRefused
    <2> SUFFICES ASSUME CopyInv, ~lostExpire, NEW r \in Requests, req[r].pc = "decide", req[r].late,
                        row.status # "active"
                 PROVE  ~ accepts(req[r].rec, req[r].serial)
        BY DEF LateRequestRefused
    <2>1. req[r].rec.status # "active"
        BY DEF CopyInv, LateSeesChange, OutOfDate
    <2>2. QED
        BY <2>1 DEF CopyInv, TypeOK, accepts, verify_device, verify_ingest_key,
           require_ingest_allowed
<1>3. QED
    BY <1>1, <1>2, PTL

----------------------------------------------------------------------------
(* Steps of the serial's invariant. *)

(* The agent and the row keep what the invariant says of them, and the requests too, *)
(* but for the one that moves, which issues nothing.                                 *)
LEMMA SerialFrame ==
    ASSUME SerialInv, TypeOK', NEW r \in Requests,
           UNCHANGED <<entry, row, agent>>, failed => failed',
           \/ cache' = NoCopy
           \/ cache'.rec = cache.rec /\ (cache = NoCopy => cache' = NoCopy)
           \/ cache'.rec = req[r].rec /\ req[r].pc = "hset",
           \A q \in Requests \ {r} : req'[q] = req[q],
           /\ req'[r].op = req[r].op /\ req'[r].heard = req[r].heard
           /\ req'[r].new = req[r].new /\ req'[r].age = req[r].age /\ req[r].pc # "idle"
           /\ req'[r].pc \in {"commit", "answer"} => req[r].op = "renew"
           /\ req'[r].pc # "invalidate"
           /\ \/ req'[r].rec = req[r].rec /\ req[r].pc \in {"hset", "expire", "decide"}
              \/ req'[r].rec = row
              \/ req'[r].rec = cache.rec /\ cache # NoCopy
              \/ req'[r].pc \notin {"hset", "expire", "decide"},
           Issued(r) => Issued(r)' \/ failed', Issued(r)' => Issued(r)
    PROVE  SerialInv'
<1> USE DEF SerialInv
<1>1. ReadsActive'
    BY DEF ReadsActive, Idle
<1>2. OnlyRenewalsCommit'
    BY DEF OnlyRenewalsCommit, Idle, Issued
<1>3. OneRenewal'
    BY DEF OneRenewal, Renewal, Idle
<1>4. FilesAgree'
    BY DEF FilesAgree
<1>5. SerialKnown'
    BY DEF SerialKnown, Issued, Idle
<1>6. QED
    BY <1>1, <1>2, <1>3, <1>4, <1>5

(* A request ends that issued nothing the agent still waits for. *)
LEMMA SerialEnds ==
    ASSUME SerialInv, TypeOK', NEW r \in Requests,
           UNCHANGED <<entry, row, cache, agent>>, failed => failed',
           req'[r] = Idle, \A q \in Requests \ {r} : req'[q] = req[q],
           Issued(r) => failed'
    PROVE  SerialInv'
<1> USE DEF SerialInv
<1>1. req'[r].pc = "idle"
    BY DEF Idle
<1>2. ~ Issued(r)'
    BY <1>1 DEF Issued
<1>3. ReadsActive' /\ OnlyRenewalsCommit'
    BY <1>1 DEF ReadsActive, OnlyRenewalsCommit
<1>4. OneRenewal'
    BY <1>1 DEF OneRenewal, Renewal
<1>5. FilesAgree'
    BY DEF FilesAgree
<1>6. SerialKnown'
    BY <1>2 DEF SerialKnown, Issued
<1>7. QED
    BY <1>3, <1>4, <1>5, <1>6

(* Once an answer was lost, only what was read matters. *)
LEMMA SerialFailed ==
    ASSUME SerialInv, TypeOK', failed', UNCHANGED <<entry, row, cache>>,
           \A q \in Requests : \/ req'[q] = Idle
                               \/ req'[q].pc = req[q].pc /\ req'[q].rec = req[q].rec /\ req'[q].op = req[q].op
    PROVE  SerialInv'
<1> USE DEF SerialInv
<1>1. ReadsActive' /\ OnlyRenewalsCommit'
    BY DEF ReadsActive, OnlyRenewalsCommit, Idle
<1>2. OneRenewal' /\ FilesAgree' /\ SerialKnown'
    BY DEF OneRenewal, FilesAgree, SerialKnown
<1>3. QED
    BY <1>1, <1>2

LEMMA SerialCheck ==
    ASSUME SerialInv, TypeOK', NEW r \in Requests,
           cache_get(r) \/ pg_fetchrow(r) \/ cache_hset(r) \/ cache_expire(r) \/ invalidate_device(r)
    PROVE  SerialInv'
<1>0. /\ UNCHANGED <<entry, row, agent, failed>>
      /\ req[r].pc # "idle" /\ req[r] \in RequestRecords
    BY DEF cache_get, pg_fetchrow, cache_hset, cache_expire, invalidate_device, Step, store,
       SerialInv, TypeOK
<1>1. \A q \in Requests \ {r} : req'[q] = req[q]
    BY DEF cache_get, pg_fetchrow, cache_hset, cache_expire, invalidate_device, Step, SerialInv,
       TypeOK
<1>2. CASE cache_get(r)
    <2>1. /\ UNCHANGED cache /\ req[r].pc = "get"
          /\ \/ req'[r] = [req[r] EXCEPT !.pc = "decide", !.rec = cache.rec] /\ cache # NoCopy
             \/ req'[r] = [req[r] EXCEPT !.pc = "pg"]
        BY <1>2 DEF cache_get, SerialInv, TypeOK
    <2>2. QED
        BY <1>0, <1>1, <2>1, SerialFrame DEF RequestRecords, Issued
<1>3. CASE pg_fetchrow(r)
    <2>1. /\ UNCHANGED cache /\ req[r].pc = "pg"
          /\ \/ req'[r] = [req[r] EXCEPT !.pc = "hset", !.rec = row]
             \/ req'[r] = Idle
        BY <1>3 DEF pg_fetchrow, SerialInv, TypeOK
    <2>2. CASE req'[r] = Idle
        BY <1>0, <1>1, <2>1, <2>2, SerialEnds DEF Issued
    <2>3. CASE req'[r] = [req[r] EXCEPT !.pc = "hset", !.rec = row]
        <3>1. /\ req'[r].op = req[r].op /\ req'[r].heard = req[r].heard /\ req'[r].new = req[r].new
              /\ req'[r].age = req[r].age /\ req'[r].pc = "hset" /\ req'[r].rec = row
            BY <1>0, <2>3 DEF RequestRecords
        <3>2. ~ Issued(r) /\ ~ Issued(r)'
            BY <2>1, <3>1 DEF Issued
        <3>3. QED
            BY <1>0, <1>1, <2>1, <3>1, <3>2, SerialFrame
    <2>4. QED
        BY <2>1, <2>2, <2>3
<1>4. CASE cache_hset(r)
    <2>1. /\ req[r].pc = "hset"
          /\ \/ req'[r] = [req[r] EXCEPT !.pc = "expire"] /\ cache' = [cache EXCEPT !.rec = req[r].rec]
             \/ req'[r] = [req[r] EXCEPT !.pc = "decide"] /\ UNCHANGED cache
        BY <1>4 DEF cache_hset, Step, SerialInv, TypeOK
    <2>2. cache'.rec = req[r].rec \/ UNCHANGED cache
        BY <2>1 DEF SerialInv, TypeOK
    <2>3. QED
        BY <1>0, <1>1, <2>1, <2>2, SerialFrame DEF RequestRecords, Issued
<1>5. CASE cache_expire(r)
    <2>1. /\ req[r].pc = "expire"
          /\ req'[r] = [req[r] EXCEPT !.pc = "decide"]
          /\ cache'.rec = cache.rec /\ (cache = NoCopy => cache' = NoCopy)
        BY <1>5 DEF cache_expire, Step, SerialInv, TypeOK
    <2>2. QED
        BY <1>0, <1>1, <2>1, SerialFrame DEF RequestRecords, Issued
<1>6. CASE invalidate_device(r)
    <2>1. /\ req[r].pc = "invalidate"
          /\ req'[r] = [req[r] EXCEPT !.pc = "answer"]
          /\ cache' = NoCopy \/ UNCHANGED cache
        BY <1>6 DEF invalidate_device, Step, SerialInv, TypeOK
    <2>2. QED
        BY <1>0, <1>1, <2>1, SerialFrame DEF RequestRecords, Issued, SerialInv, OnlyRenewalsCommit
<1>7. QED
    BY <1>2, <1>3, <1>4, <1>5, <1>6

LEMMA SerialBegin ==
    ASSUME SerialInv, TypeOK', NEW r \in Requests, NEW op \in {"send", "renew"}, begin(r, op)
    PROVE  SerialInv'
<1> USE DEF SerialInv
<1>1. /\ UNCHANGED <<entry, row, cache, agent, failed>> /\ req[r].pc = "idle"
      /\ req'[r].pc = "get" /\ req'[r].op = op /\ req'[r].heard
      /\ \A q \in Requests \ {r} : req'[q] = req[q]
      /\ op = "renew" => renewing = {}
    BY DEF begin, store, TypeOK, Idle
<1>2. ReadsActive' /\ OnlyRenewalsCommit' /\ FilesAgree'
    BY <1>1 DEF ReadsActive, OnlyRenewalsCommit, FilesAgree
<1>3. op = "renew" /\ ~failed => \A q \in Requests : ~ Renewal(q)
    BY <1>1 DEF renewing, OneRenewal, Renewal
<1>4. OneRenewal'
    BY <1>1, <1>3 DEF OneRenewal, Renewal
<1>5. SerialKnown'
    BY <1>1 DEF SerialKnown, Issued
<1>6. QED
    BY <1>2, <1>4, <1>5

LEMMA SerialDecide ==
    ASSUME SerialInv, TypeOK', NEW r \in Requests, decide(r)
    PROVE  SerialInv'
<1>0. UNCHANGED <<entry, row, cache, failed>> /\ req[r].pc = "decide" /\ req[r] \in RequestRecords
    BY DEF decide, store, SerialInv, TypeOK
<1>1. /\ \A q \in Requests \ {r} : req'[q] = req[q]
      /\ \/ req'[r] = Idle
         \/ req'[r] = [req[r] EXCEPT !.pc = "commit"] /\ req[r].op = "renew"
    BY DEF decide, SerialInv, TypeOK
<1>2. CASE UNCHANGED agent
    <2>1. CASE req'[r] = Idle
        BY <1>0, <1>1, <1>2, <2>1, SerialEnds DEF Issued
    <2>2. CASE req'[r] = [req[r] EXCEPT !.pc = "commit"] /\ req[r].op = "renew"
        <3>1. /\ req'[r].op = req[r].op /\ req'[r].heard = req[r].heard /\ req'[r].new = req[r].new
              /\ req'[r].age = req[r].age /\ req'[r].pc = "commit"
            BY <1>0, <2>2 DEF RequestRecords
        <3>2. ~ Issued(r) /\ ~ Issued(r)'
            BY <1>0, <3>1 DEF Issued
        <3>3. QED
            BY <1>0, <1>1, <1>2, <2>2, <3>1, <3>2, SerialFrame
    <2>3. QED
        BY <1>1, <2>1, <2>2
<1>3. CASE agent' # agent
    <2> USE DEF SerialInv
    <2>1. ~ (entry = "device" /\ row.status = "active")
        <3>1. req[r].rec.status # "active"
            BY <1>3 DEF decide
        <3>2. QED
            BY <1>0, <3>1 DEF ReadsActive
    <2>2. ReadsActive' /\ FilesAgree' /\ SerialKnown'
        BY <1>0, <2>1 DEF ReadsActive, FilesAgree, SerialKnown
    <2>3. OnlyRenewalsCommit' /\ OneRenewal'
        BY <1>0, <1>1 DEF OnlyRenewalsCommit, OneRenewal, Renewal, Idle, RequestRecords
    <2>4. QED
        BY <2>2, <2>3
<1>4. QED
    BY <1>2, <1>3

LEMMA SerialCommit ==
    ASSUME SerialInv, TypeOK', NEW r \in Requests, renew_commit(r)
    PROVE  SerialInv'
<1> USE DEF SerialInv
<1>0. /\ UNCHANGED <<entry, cache, failed>> /\ req[r].pc = "commit" /\ req[r] \in RequestRecords
      /\ req[r].op = "renew" /\ Renewal(r)
    BY DEF renew_commit, TypeOK, OnlyRenewalsCommit, Renewal
<1>1. CASE row.status # "active"
    <2>1. /\ row' = row /\ req'[r] = Idle /\ \A q \in Requests \ {r} : req'[q] = req[q]
        BY <1>1 DEF renew_commit, TypeOK
    <2>2. ReadsActive' /\ FilesAgree' /\ SerialKnown'
        BY <1>1, <2>1 DEF ReadsActive, FilesAgree, SerialKnown
    <2>3. OnlyRenewalsCommit' /\ OneRenewal'
        BY <1>0, <2>1 DEF OnlyRenewalsCommit, OneRenewal, Renewal, Idle
    <2>4. QED
        BY <2>2, <2>3
<1>2. CASE row.status = "active"
    <2>0. issued + 1 \in Nat /\ issued + 1 # NoSerial
        BY DEF TypeOK, NoSerial
    <2>1. /\ row' = renew_row(issued + 1) /\ agent' = agent
          /\ req'[r] = [onTime(req[r]) EXCEPT !.pc = "invalidate", !.new = issued + 1]
          /\ \A q \in Requests \ {r} : req'[q] = onTime(req[q])
        BY <1>2 DEF renew_commit
    <2>9. \A q \in Requests \ {r} :
             /\ req'[q].pc = req[q].pc /\ req'[q].rec = req[q].rec /\ req'[q].op = req[q].op
             /\ req'[q].heard = req[q].heard /\ req'[q].new = req[q].new /\ req'[q].age = req[q].age
        BY <2>1 DEF onTime, TypeOK, RequestRecords
    <2>2. /\ row'.status = "active" /\ row'.cert = issued + 1 /\ row'.prev = row.cert /\ row'.left = Overlap
        BY <1>2, <2>1 DEF renew_row, TypeOK, Records
    <2>3. /\ req'[r].pc = "invalidate" /\ req'[r].new = issued + 1 /\ req'[r].op = "renew"
          /\ req'[r].heard = req[r].heard /\ req'[r].age = req[r].age /\ req[r].age \in Nat
        BY <1>0, <2>1, Numbers DEF onTime, RequestRecords
    <2>4. ReadsActive' /\ OnlyRenewalsCommit' /\ FilesAgree'
        <3>0. req'[r].pc = "invalidate" /\ req'[r].op = "renew" /\ UNCHANGED <<entry, cache>>
            BY <1>0, <2>3
        <3>1. ReadsActive'
            BY <1>2, <2>9, <3>0 DEF ReadsActive
        <3>2. OnlyRenewalsCommit'
            BY <2>9, <3>0 DEF OnlyRenewalsCommit
        <3>3. FilesAgree'
            BY <1>0, <1>2, <2>1, <2>2 DEF FilesAgree
        <3>4. QED
            BY <3>1, <3>2, <3>3
    <2>5. OneRenewal'
        <3>1. \A q \in Requests : Renewal(q)' => Renewal(q)
            BY <1>0, <2>9 DEF Renewal
        <3>2. \A q \in Requests : req'[q].heard = req[q].heard
            BY <2>9, <2>3
        <3>3. QED
            BY <1>0, <3>1, <3>2 DEF OneRenewal
    <2>6. SerialKnown'
        <3> SUFFICES ASSUME entry = "device", ~failed
                     PROVE  /\ \A q \in Requests : Issued(q)' =>
                                  /\ req'[q].new = row'.cert /\ req'[q].new # NoSerial
                                  /\ agent.client = row'.prev
                                  /\ row'.left + req'[q].age >= Overlap
                            /\ (\A q \in Requests : ~ Issued(q)') => agent.client = row'.cert
            BY <1>0, <2>1 DEF SerialKnown
        <3>1. \A q \in Requests : q # r => ~ Issued(q) /\ ~ Issued(q)'
            BY <1>0, <2>9 DEF OneRenewal, Renewal, OnlyRenewalsCommit, Issued
        <3>2. ~ Issued(r) /\ Issued(r)'
            BY <1>0, <2>3 DEF Issued
        <3>3. agent.client = row.cert
            BY <1>2, <3>1, <3>2 DEF SerialKnown
        <3>4. row'.left + req'[r].age >= Overlap
            BY <2>2, <2>3, Constants
        <3>5. QED
            BY <2>0, <2>2, <2>3, <3>1, <3>2, <3>3, <3>4
    <2>7. QED
        BY <2>4, <2>5, <2>6
<1>3. QED
    BY <1>1, <1>2

LEMMA SerialInstalled ==
    ASSUME SerialInv, TypeOK', NEW r \in Requests, renew_if_due(r)
    PROVE  SerialInv'
<1> USE DEF SerialInv
<1>1. /\ UNCHANGED <<entry, row, cache, failed>> /\ req[r].pc = "answer"
      /\ req'[r] = Idle /\ \A q \in Requests \ {r} : req'[q] = req[q]
      /\ req[r].heard => agent' = [client |-> req[r].new, dates |-> req[r].new, key |-> req[r].new,
                                   cert |-> req[r].new, ident |-> req[r].new]
    BY DEF renew_if_due, store, TypeOK
<1>2. ReadsActive' /\ OnlyRenewalsCommit'
    BY <1>1 DEF ReadsActive, OnlyRenewalsCommit, Idle
<1>3. OneRenewal'
    BY <1>1 DEF OneRenewal, Renewal, Idle
<1>4. Renewal(r) /\ Issued(r)
    BY <1>1 DEF OnlyRenewalsCommit, Renewal, Issued
<1>5. ~failed => \A q \in Requests : ~ Issued(q)'
    BY <1>1, <1>4 DEF OneRenewal, Renewal, OnlyRenewalsCommit, Issued, Idle
<1>6. FilesAgree' /\ SerialKnown'
    BY <1>1, <1>4, <1>5 DEF FilesAgree, SerialKnown, OneRenewal
<1>7. QED
    BY <1>2, <1>3, <1>6

LEMMA SerialLost ==
    ASSUME SerialInv, TypeOK', NEW r \in Requests, server_dies(r) \/ transport_error(r) \/ save_fails(r)
    PROVE  SerialInv'
<1>1. UNCHANGED <<entry, row, cache>> /\ (failed => failed')
    BY DEF server_dies, transport_error, save_fails, store
<1>2. CASE transport_error(r) \/ save_fails(r)
    <2>1. failed' /\ \A q \in Requests : \/ req'[q] = Idle
                                         \/ /\ req'[q].pc = req[q].pc /\ req'[q].rec = req[q].rec
                                            /\ req'[q].op = req[q].op
        <3>1. req \in [Requests -> RequestRecords]
            BY DEF SerialInv, TypeOK
        <3>2. CASE transport_error(r)
            BY <3>1, <3>2 DEF transport_error, RequestRecords
        <3>3. CASE save_fails(r)
            BY <3>1, <3>3 DEF save_fails
        <3>4. QED
            BY <1>2, <3>2, <3>3
    <2>2. QED
        BY <1>1, <2>1, SerialFailed
<1>3. CASE server_dies(r)
    <2>1. /\ UNCHANGED agent /\ req'[r] = Idle /\ (req[r].op = "renew" => failed')
          /\ \A q \in Requests \ {r} : req'[q] = req[q]
        BY <1>3 DEF server_dies, SerialInv, TypeOK
    <2>2. Issued(r) => failed'
        BY <2>1 DEF Issued, SerialInv, OnlyRenewalsCommit
    <2>3. QED
        BY <1>1, <2>1, <2>2, SerialEnds
<1>4. QED
    BY <1>2, <1>3

LEMMA SerialRestart ==
    ASSUME SerialInv, TypeOK', agent_restarts
    PROVE  SerialInv'
<1>1. /\ UNCHANGED <<entry, row, cache>> /\ failed' = (failed \/ renewing # {})
      /\ \A q \in Requests : /\ req'[q].pc = req[q].pc /\ req'[q].rec = req[q].rec /\ req'[q].op = req[q].op
                             /\ req'[q].new = req[q].new /\ req'[q].age = req[q].age
    BY DEF agent_restarts, store, SerialInv, TypeOK, RequestRecords
<1>2. CASE failed'
    BY <1>1, <1>2, SerialFailed
<1>3. CASE ~failed'
    <2> USE DEF SerialInv
    <2>1. ~failed /\ \A q \in Requests : ~ Renewal(q)
        BY <1>1, <1>3 DEF TypeOK, renewing, OneRenewal, Renewal
    <2>2. ReadsActive' /\ OnlyRenewalsCommit'
        BY <1>1 DEF ReadsActive, OnlyRenewalsCommit
    <2>3. OneRenewal'
        BY <1>1, <2>1 DEF OneRenewal, Renewal
    <2>4. entry = "device" /\ row.status = "active" =>
            /\ agent'.client = agent.client /\ agent'.key = agent.key
            /\ agent'.cert = agent.cert /\ agent'.ident = agent.ident
        BY <2>1 DEF agent_restarts, FilesAgree, TypeOK
    <2>5. FilesAgree' /\ SerialKnown'
        BY <1>1, <2>1, <2>4 DEF FilesAgree, SerialKnown, Issued
    <2>6. QED
        BY <2>2, <2>3, <2>5
<1>4. QED
    BY <1>2, <1>3

LEMMA SerialChange ==
    ASSUME SerialInv, TypeOK', Commit
    PROVE  SerialInv'
<1> USE DEF SerialInv
<1>1. PICK kind, from, to : /\ commit(kind, from, to) /\ (from = "active" \/ to = "active") /\ from # to
                            /\ (kind = "device" => to = "revoked")
    BY DEF Commit
<1>2. /\ UNCHANGED <<entry, cache, agent, failed>> /\ entry = kind /\ row'.status = to
      /\ \A q \in Requests : /\ req'[q].pc = req[q].pc /\ req'[q].rec = req[q].rec /\ req'[q].op = req[q].op
                             /\ req'[q].heard = req[q].heard
    BY <1>1 DEF commit, onTime, TypeOK, Records, RequestRecords
<1>3. entry = "device" => row'.status # "active"
    BY <1>1, <1>2
<1>4. ReadsActive' /\ FilesAgree' /\ SerialKnown'
    BY <1>2, <1>3 DEF ReadsActive, FilesAgree, SerialKnown
<1>5. OnlyRenewalsCommit' /\ OneRenewal'
    BY <1>2 DEF OnlyRenewalsCommit, OneRenewal, Renewal
<1>6. QED
    BY <1>4, <1>5

LEMMA SerialTick ==
    ASSUME SerialInv, TypeOK', Tick
    PROVE  SerialInv'
<1> USE DEF SerialInv
<1>1. /\ UNCHANGED <<entry, agent, failed>> /\ row'.status = row.status /\ row'.cert = row.cert
      /\ row'.prev = row.prev /\ row'.left = down(row.left) /\ row.left \in Int
    <2>1. row' = [row EXCEPT !.left = down(@)] /\ UNCHANGED <<entry, agent, failed>>
        BY DEF Tick
    <2>2. row \in Records
        BY DEF TypeOK
    <2>3. row.left \in Int
        BY <2>2, Constants DEF Records
    <2>4. QED
        BY <2>1, <2>2, <2>3 DEF Records
<1>2. \A q \in Requests : /\ req'[q].pc = req[q].pc /\ req'[q].rec.status = req[q].rec.status
                          /\ req'[q].op = req[q].op /\ req'[q].heard = req[q].heard /\ req'[q].new = req[q].new
                          /\ req[q].age \in Nat /\ (req[q].pc # "idle" => req'[q].age = req[q].age + 1)
    <2> SUFFICES ASSUME NEW q \in Requests
                 PROVE  /\ req'[q].pc = req[q].pc /\ req'[q].rec.status = req[q].rec.status
                        /\ req'[q].op = req[q].op /\ req'[q].heard = req[q].heard /\ req'[q].new = req[q].new
                        /\ req[q].age \in Nat /\ (req[q].pc # "idle" => req'[q].age = req[q].age + 1)
        OBVIOUS
    <2>0. req[q].age \in Nat
        BY Numbers
    <2>1. CASE req[q].pc = "idle"
        BY <2>0, <2>1 DEF Tick
    <2>2. CASE req[q].pc # "idle"
        <3>1. req'[q] = [req[q] EXCEPT !.age = @ + 1, !.rec.left = down(@)]
            BY <2>2 DEF Tick
        <3>2. req[q] \in RequestRecords /\ req[q].rec \in Records
            BY DEF TypeOK, RequestRecords
        <3>3. QED
            BY <2>0, <3>1, <3>2 DEF RequestRecords, Records
    <2>3. QED
        BY <2>1, <2>2
<1>3. cache' = NoCopy \/ (cache # NoCopy /\ cache'.rec.status = cache.rec.status)
    <2>1. CASE cache = NoCopy
        <3>1. [NoRecord EXCEPT !.left = down(@)] = NoRecord
            BY DEF NoRecord, down
        <3>2. NoCopy.rec = NoRecord /\ NoCopy.ttl = Unexpiring
            BY DEF NoCopy
        <3>3. cache' = NoCopy \/ cache' = [rec |-> NoRecord, ttl |-> Unexpiring]
            BY <2>1, <3>1, <3>2 DEF Tick
        <3>4. QED
            BY <3>3 DEF NoCopy
    <2>2. CASE cache # NoCopy
        BY <2>2 DEF Tick, TypeOK, Records
    <2>3. QED
        BY <2>1, <2>2
<1>4. ReadsActive' /\ OnlyRenewalsCommit' /\ OneRenewal'
    BY <1>1, <1>2, <1>3 DEF ReadsActive, OnlyRenewalsCommit, OneRenewal, Renewal
<1>5. FilesAgree'
    BY <1>1 DEF FilesAgree
<1>6. \A q \in Requests : Issued(q) /\ row.left + req[q].age >= Overlap => row'.left + req'[q].age >= Overlap
    BY <1>1, <1>2, Constants DEF Issued, down
<1>7. SerialKnown'
    BY <1>1, <1>2, <1>6 DEF SerialKnown, Issued
<1>8. QED
    BY <1>4, <1>5, <1>7

LEMMA SerialOther ==
    ASSUME SerialInv, TypeOK', UNCHANGED vars \/ delete_on_change \/ grow_old
    PROVE  SerialInv'
<1>1. UNCHANGED <<entry, row, req, agent, failed>> /\ (cache' = NoCopy \/ UNCHANGED cache)
    BY DEF vars, delete_on_change, grow_old
<1>2. QED
    BY <1>1 DEF SerialInv, ReadsActive, OnlyRenewalsCommit, OneRenewal, Renewal, FilesAgree,
       SerialKnown, Issued

LEMMA SerialStep == SerialInv /\ [Next]_vars => SerialInv'
<1> SUFFICES ASSUME SerialInv, [Next]_vars PROVE SerialInv'
    OBVIOUS
<1>0. TypeOK'
    BY TypeStep DEF SerialInv
<1>1. ASSUME NEW r \in Requests, ServerStep(r) PROVE SerialInv'
    BY <1>0, <1>1, SerialCheck, SerialDecide, SerialCommit, SerialInstalled DEF ServerStep
<1>2. ASSUME NEW r \in Requests,
             (\E op \in {"send", "renew"} : begin(r, op)) \/ server_dies(r) \/ transport_error(r) \/ save_fails(r)
      PROVE SerialInv'
    BY <1>0, <1>2, SerialBegin, SerialLost
<1>3. CASE agent_restarts \/ Commit \/ Tick
    BY <1>0, <1>3, SerialRestart, SerialChange, SerialTick
<1>4. CASE UNCHANGED vars \/ delete_on_change \/ grow_old
    BY <1>0, <1>4, SerialOther
<1>5. QED
    BY <1>1, <1>2, <1>3, <1>4, Changes DEF Next

----------------------------------------------------------------------------
(* The serial a late request presents. *)

(* A certificate is installed or lost within the length of a request ... *)
RenewalRecent == \A r \in Requests : Issued(r) => since <= req[r].age

(* ... so a late request presents the newest. *)
LateSerial ==
    entry = "device" /\ ~failed /\ row.status = "active" =>
        \A r \in Requests : req[r].late /\ req[r].pc # "idle" => req[r].serial = row.cert

RecentInv == RenewalRecent /\ LateSerial

LEMMA RecentFrame ==
    ASSUME RecentInv, UNCHANGED <<entry, row, since>>, failed => failed',
           \A q \in Requests :
              \/ req'[q] = Idle
              \/ /\ req'[q].age = req[q].age /\ req'[q].late = req[q].late
                 /\ req'[q].serial = req[q].serial /\ (Issued(q)' => Issued(q))
                 /\ req'[q].pc = "idle" <=> req[q].pc = "idle"
    PROVE  RecentInv'
<1>1. Idle.pc = "idle"
    BY DEF Idle
<1>2. RenewalRecent'
    BY <1>1 DEF RecentInv, RenewalRecent, Issued
<1>3. LateSerial'
    BY <1>1 DEF RecentInv, LateSerial
<1>4. QED
    BY <1>2, <1>3 DEF RecentInv

(* A change resets the clock, and no request is late. *)
LEMMA RecentChanged ==
    ASSUME TypeOK', since' = 0, \A q \in Requests : ~ req'[q].late
    PROVE  RecentInv'
<1>1. \A q \in Requests : req'[q].age \in Nat
    BY DEF TypeOK, RequestRecords
<1>2. QED
    BY <1>1 DEF RecentInv, RenewalRecent, LateSerial

LEMMA RecentBegin ==
    ASSUME SerialInv, RecentInv, NEW r \in Requests, NEW op \in {"send", "renew"}, begin(r, op)
    PROVE  RecentInv'
<1>1. /\ UNCHANGED <<entry, row, since, failed>> /\ req'[r].pc = "get"
      /\ req'[r].late = (since >= Late) /\ req'[r].serial = agent.client
      /\ \A q \in Requests \ {r} : req'[q] = req[q]
    BY DEF begin, store, SerialInv, TypeOK, Idle
<1>2. RenewalRecent'
    BY <1>1 DEF RecentInv, RenewalRecent, Issued
<1>3. since >= Late => \A q \in Requests : ~ Issued(q)
    BY Numbers DEF SerialInv, RecentInv, RenewalRecent
<1>4. LateSerial'
    BY <1>1, <1>3 DEF RecentInv, LateSerial, SerialInv, SerialKnown
<1>5. QED
    BY <1>2, <1>4 DEF RecentInv

LEMMA RecentTick ==
    ASSUME TypeOK, RecentInv, Tick
    PROVE  RecentInv'
<1>1. UNCHANGED <<entry, failed>> /\ row'.status = row.status /\ row'.cert = row.cert
    BY DEF Tick, TypeOK, Records
<1>2. since' = since \/ since' = since + 1
    BY DEF Tick
<1>3. ASSUME NEW q \in Requests
      PROVE  /\ req'[q].pc = req[q].pc /\ req'[q].late = req[q].late /\ req'[q].serial = req[q].serial
             /\ req[q].pc # "idle" => req'[q].age = req[q].age + 1
    <2>1. CASE req[q].pc = "idle"
        BY <2>1 DEF Tick
    <2>2. CASE req[q].pc # "idle"
        <3>1. req'[q] = [req[q] EXCEPT !.age = @ + 1, !.rec.left = down(@)]
            BY <2>2 DEF Tick
        <3>2. req[q] \in RequestRecords
            BY DEF TypeOK
        <3>3. QED
            BY <3>1, <3>2 DEF RequestRecords
    <2>3. QED
        BY <2>1, <2>2
<1>4. RenewalRecent'
    BY <1>2, <1>3, Numbers DEF RecentInv, RenewalRecent, Issued
<1>5. LateSerial'
    BY <1>1, <1>3 DEF RecentInv, LateSerial
<1>6. QED
    BY <1>4, <1>5 DEF RecentInv

LEMMA RecentServer ==
    ASSUME SerialInv, TypeOK', RecentInv, NEW r \in Requests, ServerStep(r)
    PROVE  RecentInv'
<1>1. CASE renew_commit(r) /\ row.status = "active"
    <2>1. since' = 0
        BY <1>1 DEF renew_commit
    <2>2. \A q \in Requests : ~ req'[q].late
        BY <1>1, RenewFields DEF SerialInv
    <2>3. QED
        BY <2>1, <2>2, RecentChanged
<1>2. CASE ~ (renew_commit(r) /\ row.status = "active")
    <2>1. UNCHANGED <<entry, row, since, failed>>
        BY <1>2 DEF ServerStep, cache_get, pg_fetchrow, cache_hset, cache_expire, decide, renew_commit,
           invalidate_device, renew_if_due, Step, store
    <2>2. /\ \A q \in Requests \ {r} : req'[q] = req[q]
          /\ \/ req'[r] = Idle
             \/ /\ req'[r].age = req[r].age /\ req'[r].late = req[r].late
                /\ req'[r].serial = req[r].serial /\ (Issued(r)' => Issued(r))
                /\ req'[r].pc # "idle" /\ req[r].pc # "idle"
        <3> USE DEF SerialInv, TypeOK, RequestRecords, Issued
        <3>1. CASE cache_get(r)
            BY <3>1 DEF cache_get
        <3>2. CASE pg_fetchrow(r)
            BY <3>2 DEF pg_fetchrow
        <3>3. CASE cache_hset(r) \/ cache_expire(r)
            BY <3>3 DEF cache_hset, cache_expire, Step
        <3>4. CASE decide(r)
            BY <3>4 DEF decide
        <3>5. CASE renew_commit(r)
            BY <1>2, <3>5 DEF renew_commit
        <3>6. CASE invalidate_device(r)
            BY <3>6 DEF invalidate_device, Step
        <3>7. CASE renew_if_due(r)
            BY <3>7 DEF renew_if_due
        <3>8. QED
            BY <3>1, <3>2, <3>3, <3>4, <3>5, <3>6, <3>7 DEF ServerStep
    <2>3. QED
        BY <2>1, <2>2, RecentFrame DEF Issued
<1>3. QED
    BY <1>1, <1>2

LEMMA RecentFails ==
    ASSUME TypeOK, RecentInv,
           agent_restarts \/ \E r \in Requests : server_dies(r) \/ transport_error(r) \/ save_fails(r)
    PROVE  RecentInv'
<1>1. UNCHANGED <<entry, row, since>> /\ (failed => failed')
    BY DEF agent_restarts, server_dies, transport_error, save_fails, store
<1>2. \A q \in Requests :
         \/ req'[q] = Idle
         \/ /\ req'[q].age = req[q].age /\ req'[q].late = req[q].late
            /\ req'[q].serial = req[q].serial /\ req'[q].pc = req[q].pc
    <2> USE DEF TypeOK, RequestRecords
    <2>1. CASE agent_restarts
        BY <2>1 DEF agent_restarts
    <2>2. CASE \E r \in Requests : server_dies(r) \/ save_fails(r)
        <3>1. PICK r \in Requests : server_dies(r) \/ save_fails(r)
            BY <2>2
        <3>2. req' = [req EXCEPT ![r] = Idle]
            BY <3>1 DEF server_dies, save_fails
        <3>3. QED
            BY <3>2
    <2>3. CASE \E r \in Requests : transport_error(r)
        BY <2>3 DEF transport_error
    <2>4. QED
        BY <2>1, <2>2, <2>3
<1>3. QED
    BY <1>1, <1>2, RecentFrame DEF Issued

LEMMA RecentStep == SerialInv /\ RecentInv /\ [Next]_vars => RecentInv'
<1> SUFFICES ASSUME SerialInv, RecentInv, [Next]_vars PROVE RecentInv'
    OBVIOUS
<1>0. TypeOK /\ TypeOK'
    BY TypeStep DEF SerialInv
<1>1. ASSUME NEW r \in Requests, ServerStep(r) PROVE RecentInv'
    BY <1>0, <1>1, RecentServer
<1>2. ASSUME NEW r \in Requests,
             (\E op \in {"send", "renew"} : begin(r, op)) \/ server_dies(r) \/ transport_error(r) \/ save_fails(r)
      PROVE RecentInv'
    BY <1>0, <1>2, RecentBegin, RecentFails
<1>3. CASE Commit
    <2>1. PICK kind, from, to : commit(kind, from, to)
        BY <1>3 DEF Commit
    <2>2. since' = 0 /\ \A q \in Requests : ~ req'[q].late
        BY <1>0, <2>1 DEF commit, onTime, TypeOK, RequestRecords
    <2>3. QED
        BY <1>0, <2>2, RecentChanged
<1>4. CASE UNCHANGED vars \/ delete_on_change \/ grow_old
    <2>1. UNCHANGED <<entry, row, since, failed, req>>
        BY <1>4 DEF vars, delete_on_change, grow_old
    <2>2. QED
        BY <2>1, RecentFrame DEF Issued
<1>5. CASE agent_restarts \/ Tick
    BY <1>0, <1>5, RecentFails, RecentTick
<1>6. QED
    BY <1>1, <1>2, <1>3, <1>4, <1>5, Changes DEF Next

(* While no answer to a renewal is lost the row honours the agent's serial, since its  *)
(* overlap of serials outlasts every renewal, and the copy does so no later than the   *)
(* TTL and two requests after the renewal (api/enrollment.py renew_credential,         *)
(* status_stores.py verify_device).                                                    *)
THEOREM RenewalKeepsAccessHolds == Spec => []RenewalKeepsAccess
<1>1. Init => SerialInv /\ RecentInv
    <2> SUFFICES ASSUME Init PROVE SerialInv /\ RecentInv
        OBVIOUS
    <2>1. ReadsActive /\ OnlyRenewalsCommit /\ OneRenewal
        BY DEF Init, ReadsActive, OnlyRenewalsCommit, OneRenewal, Renewal, Idle
    <2>2. FilesAgree /\ SerialKnown
        BY DEF Init, FilesAgree, SerialKnown, Issued, Idle, NoSerial
    <2>3. RecentInv
        BY DEF Init, RecentInv, RenewalRecent, LateSerial, Issued, Idle
    <2>4. QED
        BY <2>1, <2>2, <2>3, InitTyped DEF SerialInv
<1>2. ASSUME SerialInv, entry = "device", ~failed, row.status = "active"
      PROVE  serial_ok(row, agent.client)
    <2>1. CASE \E r \in Requests : Issued(r)
        <3>1. PICK r \in Requests : Issued(r)
            BY <2>1
        <3>2. agent.client = row.prev /\ row.left + req[r].age >= Overlap /\ row.left \in Int
            BY <1>2, <3>1 DEF SerialInv, SerialKnown, TypeOK, Records
        <3>3. row.left >= 0
            BY <1>2, <3>2, Numbers, Constants DEF SerialInv
        <3>4. QED
            BY <3>2, <3>3 DEF serial_ok
    <2>2. CASE \A r \in Requests : ~ Issued(r)
        BY <1>2, <2>2 DEF SerialInv, SerialKnown, serial_ok
    <2>3. QED
        BY <2>1, <2>2
<1>3. ASSUME SerialInv, CopyInv, RecentInv, entry = "device", ~failed, row.status = "active", ~lostExpire,
             NEW r \in Requests, req[r].pc = "decide", req[r].late
      PROVE  accepts(req[r].rec, req[r].serial)
    <2>1. req[r].rec.status = "active"
        BY <1>3 DEF SerialInv, ReadsActive
    <2>2. req[r].rec.cert = row.cert
        BY <1>3, <2>1 DEF CopyInv, LateSeesChange, OutOfDate
    <2>3. req[r].serial = row.cert
        BY <1>3 DEF RecentInv, LateSerial
    <2>4. QED
        BY <1>3, <2>1, <2>2, <2>3 DEF accepts, verify_device, serial_ok
<1>4. SerialInv /\ CopyInv /\ RecentInv => RenewalKeepsAccess
    BY <1>2, <1>3 DEF RenewalKeepsAccess, CopyInv, TypeOK
<1>5. QED
    BY <1>1, <1>4, InitCopy, CopyStep, SerialStep, RecentStep, PTL DEF Spec

-----------------------------------------------------------------------------
(***************************************************************************)
(* Proofs about Sessions, for every set of users, roles, session ids,      *)
(* logins and requests in flight.  Sessions is an instance here, so its    *)
(* assumption about the constants is a hypothesis of each result.          *)
(*                                                                         *)
(* A live session is in its user's set or its login is about to put it     *)
(* there (LiveListed), so that a change that reads the set finds every     *)
(* session but those of logins that overlap it (LoginRow, StaleCovered).   *)
(***************************************************************************)

CONSTANTS Roles, Logins

VARIABLES invites, minted, members, login

Ses == INSTANCE Sessions

----------------------------------------------------------------------------
(* The inductive invariant. *)

UserRows == [state : {"none", "invited", "active", "deleted"}, role : Roles, pw : Nat]

LoginsTyped ==
    login \in [Logins -> [pc : {"idle", "hset", "sadd"}, user : Users, row : UserRows,
                          sid : SUBSET Sids, stale : BOOLEAN]]

RequestsTyped ==
    request \in [Changers -> [pc : {"idle", "update", "members", "delete"},
                              kind : {"role", "delete", "password"}, actor : Users,
                              sid : SUBSET Sids, target : Users, role : Roles, todo : SUBSET Sids]]

(* An admin changes others only. *)
ActorNotTarget ==
    \A q \in Changers :
        request[q].pc = "update" /\ request[q].kind # "password" => request[q].actor # request[q].target

(* Changers know only minted sessions, and the one that changes its own     *)
(* password belongs to the user whose password it is.                       *)
OwnSession ==
    \A q \in Changers :
        /\ request[q].sid \subseteq minted
        /\ request[q].pc # "delete" => request[q].todo = {}
        /\ request[q].kind = "password" => \A s \in request[q].sid :
              Ses!Live(s) => sess[s].user = request[q].target

(* A live session is in its user's set, or its login is about to put it there. *)
LiveListed ==
    \A s \in Sids : Ses!Live(s) =>
        /\ s \in minted
        /\ \/ <<sess[s].user, s>> \in members
           \/ \E l \in Logins : login[l].pc = "sadd" /\ login[l].user = sess[s].user /\ s \in login[l].sid

(* The request has changed user u and has not read the set yet. *)
WillRevoke(q, u) == request[q].pc = "members" /\ request[q].target = u

(* A login holds a row of an active user, and one that has changed since only *)
(* while the change will still find the login in flight, or has found it.     *)
LoginRow ==
    \A l \in Logins : login[l].pc = "hset" =>
        /\ login[l].row.state = "active"
        /\ login[l].row # users[login[l].user] =>
              login[l].stale \/ cut \/ \E q \in Changers : WillRevoke(q, login[l].user)

(* The request is yet to delete session s: StaleOnlyByOverlap without the *)
(* session that a change of its own password keeps.                       *)
Revoking(q, s) ==
    /\ request[q].target = sess[s].user
    /\ \/ request[q].pc = "members" /\ s \notin Ses!kept(request[q])
       \/ s \in request[q].todo

StaleCovered ==
    \A s \in Sids : Ses!Stale(s) => s \in overlapped \/ cut \/ \E q \in Changers : Revoking(q, s)

SessionsTyped == Ses!TypeOK /\ LoginsTyped /\ RequestsTyped

SessionsInv ==
    /\ SessionsTyped
    /\ ActorNotTarget /\ OwnSession /\ LiveListed /\ LoginRow /\ StaleCovered
    /\ Ses!AdminRemains

----------------------------------------------------------------------------
(* Every value the model gives a variable has its type. *)
LEMMA SessionDefaultsTyped ==
    ASSUME Ses!SessionsAssumption
    PROVE  /\ Ses!NoUser \in UserRows
           /\ Ses!NoSession \in [user : Users, role : Roles \cup {"none"}, pw : Nat]
           /\ Ses!NoLogin \in [pc : {"idle", "hset", "sadd"}, user : Users, row : UserRows,
                           sid : SUBSET Sids, stale : BOOLEAN]
           /\ Ses!NoRequest \in [pc : {"idle", "update", "members", "delete"},
                             kind : {"role", "delete", "password"}, actor : Users,
                             sid : SUBSET Sids, target : Users, role : Roles, todo : SUBSET Sids]
BY DEF Ses!SessionsAssumption, Ses!NoUser, Ses!NoSession, Ses!NoLogin, Ses!NoRequest, UserRows,
   Ses!SessionsAssumption

LEMMA SessionBounds ==
    ASSUME Ses!SessionsAssumption
    PROVE  MaxChanges \in Nat /\ MaxFaults \in Nat
BY DEF Ses!SessionsAssumption, Ses!SessionsAssumption

LEMMA InitSessionsInv ==
    ASSUME Ses!SessionsAssumption
    PROVE  Ses!Init => SessionsInv
<1> SUFFICES ASSUME Ses!Init PROVE SessionsInv
    OBVIOUS
<1>1. SessionsTyped
    <2>1. [Ses!NoUser EXCEPT !.state = "active"] \in UserRows
        BY SessionDefaultsTyped DEF UserRows
    <2>2. users \in [Users -> UserRows]
        BY <2>1, SessionDefaultsTyped DEF Ses!Init
    <2>3. sess \in [Sids -> [user : Users, role : Roles \cup {"none"}, pw : Nat]]
        BY SessionDefaultsTyped DEF Ses!Init
    <2>4. Ses!TypeOK
        <3>1. invites \subseteq Users /\ minted \subseteq Sids /\ overlapped \subseteq Sids
            BY DEF Ses!Init
        <3>2. members \subseteq Users \X Sids
            BY DEF Ses!Init
        <3>3. usurped \in BOOLEAN /\ cut \in BOOLEAN
            BY DEF Ses!Init
        <3>4. changes \in 0..MaxChanges /\ faults \in 0..MaxFaults
            BY SessionBounds DEF Ses!Init
        <3>5. QED
            BY <2>2, <2>3, <3>1, <3>2, <3>3, <3>4 DEF Ses!TypeOK, UserRows
    <2>5. QED
        BY <2>4, SessionDefaultsTyped DEF Ses!Init, SessionsTyped, LoginsTyped, RequestsTyped
<1>2. ActorNotTarget /\ OwnSession /\ LiveListed /\ LoginRow /\ StaleCovered
    BY DEF Ses!Init, ActorNotTarget, OwnSession, LiveListed, LoginRow, StaleCovered, Ses!Live,
       Ses!Stale,
           Ses!NoRequest, Ses!NoLogin
<1>3. Ses!AdminRemains
    BY DEF Ses!SessionsAssumption, Ses!Init, Ses!AdminRemains, Ses!admins, Ses!NoUser,
       Ses!SessionsAssumption
<1>4. QED
    BY <1>1, <1>2, <1>3 DEF SessionsInv

LEMMA Step_login_read ==
    ASSUME Ses!SessionsAssumption,
           SessionsInv, NEW l \in Logins, NEW u \in Users, Ses!login_read(l, u)
    PROVE  SessionsInv'
<1> USE Ses!SessionsAssumption, SessionDefaultsTyped, SessionBounds
    DEF Ses!SessionsAssumption, Ses!login_read, Ses!stores, Ses!history, SessionsInv
<1>1. SessionsTyped'
    <2>1. [Ses!NoLogin EXCEPT !.pc = "hset", !.user = u, !.row = users[u]] \in
             [pc : {"idle", "hset", "sadd"}, user : Users, row : UserRows,
              sid : SUBSET Sids, stale : BOOLEAN]
        BY DEF SessionsTyped, Ses!TypeOK, UserRows, Ses!NoLogin
    <2>2. LoginsTyped'
        BY <2>1 DEF SessionsTyped, LoginsTyped
    <2>3. QED
        BY <2>2 DEF SessionsTyped, Ses!TypeOK, RequestsTyped
<1>2. ActorNotTarget'
    BY DEF SessionsTyped, RequestsTyped, ActorNotTarget, Ses!may_change, Ses!NoRequest
<1>3. OwnSession'
    BY DEF SessionsTyped, Ses!TypeOK, RequestsTyped, LoginsTyped, OwnSession, LiveListed, Ses!Live,
       Ses!may_change, Ses!NoRequest
<1>4. LiveListed'
    BY DEF SessionsTyped, Ses!TypeOK, LoginsTyped, LiveListed, Ses!Live, Ses!NoLogin
<1>5. LoginRow'
    BY DEF SessionsTyped, Ses!TypeOK, LoginsTyped, RequestsTyped, LoginRow, WillRevoke, Ses!NoLogin,
       Ses!NoRequest, Ses!exists
<1>6. StaleCovered'
    BY DEF SessionsTyped, Ses!TypeOK, LoginsTyped, RequestsTyped, OwnSession, LiveListed, LoginRow,
       WillRevoke,
           StaleCovered, Ses!Stale, Revoking, Ses!kept, Ses!Live, Ses!NoRequest
<1>7. Ses!AdminRemains'
    BY DEF SessionsTyped, Ses!TypeOK, RequestsTyped, ActorNotTarget, Ses!AdminRemains, Ses!admins,
       Ses!exists
<1>8. QED
    BY <1>1, <1>2, <1>3, <1>4, <1>5, <1>6, <1>7

LEMMA Step_create_hset ==
    ASSUME SessionsInv, NEW l \in Logins, Ses!create_hset(l)
    PROVE  SessionsInv'
<1> USE DEF SessionsInv
<1>1. PICK s \in Sids \ minted :
        /\ minted' = minted \cup {s}
        /\ sess' = [sess EXCEPT ![s] = [user |-> login[l].user, role |-> login[l].row.role,
                                        pw |-> login[l].row.pw]]
        /\ login' = [login EXCEPT ![l].pc = "sadd", ![l].sid = {s}]
        /\ overlapped' = IF login[l].stale THEN overlapped \cup {s} ELSE overlapped
    BY DEF Ses!create_hset
<1>2. login[l].pc = "hset" /\ UNCHANGED <<users, invites, members, request, usurped, cut, changes, faults>>
    BY DEF Ses!create_hset
<1>3. SessionsTyped'
    <2>1. sess' \in [Sids -> [user : Users, role : Roles \cup {"none"}, pw : Nat]]
        BY <1>1 DEF SessionsTyped, Ses!TypeOK, LoginsTyped, UserRows
    <2>2. LoginsTyped'
        BY <1>1, ZenonT(60) DEF SessionsTyped, LoginsTyped
    <2>3. minted' \subseteq Sids /\ overlapped' \subseteq Sids
        BY <1>1 DEF SessionsTyped, Ses!TypeOK
    <2>4. QED
        BY <1>2, <2>1, <2>2, <2>3 DEF SessionsTyped, Ses!TypeOK, RequestsTyped
<1>4. ActorNotTarget' /\ Ses!AdminRemains'
    BY <1>2 DEF ActorNotTarget, Ses!AdminRemains, Ses!admins
<1>5. OwnSession' /\ LiveListed'
    <2>1. \A x \in Sids : x # s => sess'[x] = sess[x] /\ (Ses!Live(x)' <=> Ses!Live(x))
        BY <1>1 DEF SessionsTyped, Ses!TypeOK, Ses!Live
    <2>2. OwnSession'
        BY <1>1, <1>2, <2>1 DEF SessionsTyped, RequestsTyped, OwnSession
    <2>3. sess'[s].user = login[l].user
        BY <1>1 DEF SessionsTyped, Ses!TypeOK
    <2>4. login'[l].pc = "sadd" /\ login'[l].user = login[l].user /\ login'[l].sid = {s}
        BY <1>1 DEF SessionsTyped, LoginsTyped
    <2>5. \A k \in Logins : k # l => login'[k] = login[k]
        BY <1>1 DEF SessionsTyped, LoginsTyped
    <2>6. ASSUME NEW x \in Sids, Ses!Live(x)'
          PROVE  /\ x \in minted'
                 /\ \/ <<sess'[x].user, x>> \in members'
                    \/ \E k \in Logins : login'[k].pc = "sadd" /\ login'[k].user = sess'[x].user
                                         /\ x \in login'[k].sid
        <3>1. CASE x = s
            BY <1>1, <2>3, <2>4, <3>1
        <3>2. CASE x # s
            <4>1. Ses!Live(x) /\ sess'[x].user = sess[x].user
                BY <2>1, <2>6, <3>2
            <4>2. x \in minted
                BY <4>1 DEF LiveListed
            <4>3. CASE <<sess[x].user, x>> \in members
                BY <1>1, <1>2, <4>1, <4>2, <4>3
            <4>4. CASE <<sess[x].user, x>> \notin members
                <5>1. PICK k \in Logins : login[k].pc = "sadd" /\ login[k].user = sess[x].user /\ x \in login[k].sid
                    BY <4>1, <4>4 DEF LiveListed
                <5>2. k # l
                    BY <1>2, <5>1
                <5>3. QED
                    BY <1>1, <2>5, <4>1, <4>2, <5>1, <5>2
            <4>5. QED
                BY <4>3, <4>4
        <3>3. QED
            BY <3>1, <3>2
    <2>7. QED
        BY <2>2, <2>6 DEF LiveListed
<1>6. LoginRow'
    BY <1>1, <1>2 DEF SessionsTyped, LoginsTyped, LoginRow, WillRevoke
<1>7. ASSUME NEW x \in Sids, Ses!Stale(x)'
      PROVE  x \in overlapped' \/ cut' \/ \E q \in Changers : Revoking(q, x)'
    <2>1. CASE x = s
        <3>1. login[l].row # users[login[l].user]
            BY <1>1, <1>2, <1>7, <2>1 DEF SessionsTyped, Ses!TypeOK, LoginsTyped, UserRows,
               Ses!Stale, LoginRow
        <3>2. \A q \in Changers : WillRevoke(q, login[l].user) => Revoking(q, s)'
            BY <1>1, <1>2 DEF SessionsTyped, Ses!TypeOK, RequestsTyped, OwnSession, WillRevoke,
               Revoking, Ses!kept
        <3>3. QED
            BY <1>1, <1>2, <2>1, <3>1, <3>2 DEF LoginRow
    <2>2. CASE x # s
        <3>1. sess'[x] = sess[x] /\ Ses!Stale(x)
            BY <1>1, <1>2, <1>7, <2>2 DEF SessionsTyped, Ses!TypeOK, Ses!Stale, Ses!Live
        <3>2. QED
            BY <1>1, <1>2, <3>1 DEF StaleCovered, Revoking
    <2>3. QED
        BY <2>1, <2>2
<1>8. QED
    BY <1>3, <1>4, <1>5, <1>6, <1>7 DEF StaleCovered

LEMMA Step_create_sadd ==
    ASSUME Ses!SessionsAssumption,
           SessionsInv, NEW l \in Logins, Ses!create_sadd(l)
    PROVE  SessionsInv'
<1> USE Ses!SessionsAssumption, SessionDefaultsTyped, SessionBounds
    DEF Ses!SessionsAssumption, Ses!create_sadd, Ses!stores, Ses!history, SessionsInv
<1>1. SessionsTyped'
    BY DEF SessionsTyped, Ses!TypeOK, LoginsTyped, RequestsTyped, UserRows, Ses!isAdmin,
       Ses!may_change, Ses!exists, Ses!Fault, Ses!Live, Ses!admins
<1>2. ActorNotTarget'
    BY DEF SessionsTyped, RequestsTyped, ActorNotTarget, Ses!may_change, Ses!NoRequest
<1>3. OwnSession'
    BY DEF SessionsTyped, Ses!TypeOK, RequestsTyped, LoginsTyped, OwnSession, LiveListed, Ses!Live,
       Ses!may_change, Ses!NoRequest
<1>4. LiveListed'
    BY DEF SessionsTyped, Ses!TypeOK, LoginsTyped, LiveListed, Ses!Live, Ses!NoLogin
<1>5. LoginRow'
    BY DEF SessionsTyped, Ses!TypeOK, LoginsTyped, RequestsTyped, LoginRow, WillRevoke, Ses!NoLogin,
       Ses!NoRequest, Ses!exists
<1>6. StaleCovered'
    BY DEF SessionsTyped, Ses!TypeOK, LoginsTyped, RequestsTyped, OwnSession, LiveListed, LoginRow,
       WillRevoke,
           StaleCovered, Ses!Stale, Revoking, Ses!kept, Ses!Live, Ses!NoRequest
<1>7. Ses!AdminRemains'
    BY DEF SessionsTyped, Ses!TypeOK, RequestsTyped, ActorNotTarget, Ses!AdminRemains, Ses!admins,
       Ses!exists
<1>8. QED
    BY <1>1, <1>2, <1>3, <1>4, <1>5, <1>6, <1>7

LEMMA Step_logout ==
    ASSUME Ses!SessionsAssumption,
           SessionsInv, NEW s \in Sids, Ses!logout(s)
    PROVE  SessionsInv'
<1> USE Ses!SessionsAssumption, SessionDefaultsTyped, SessionBounds
    DEF Ses!SessionsAssumption, Ses!logout, Ses!stores, Ses!history, SessionsInv
<1>1. SessionsTyped'
    BY DEF SessionsTyped, Ses!TypeOK, LoginsTyped, RequestsTyped, UserRows, Ses!isAdmin,
       Ses!may_change, Ses!exists, Ses!Fault, Ses!Live, Ses!admins
<1>2. ActorNotTarget'
    BY DEF SessionsTyped, RequestsTyped, ActorNotTarget, Ses!may_change, Ses!NoRequest
<1>3. OwnSession'
    BY DEF SessionsTyped, Ses!TypeOK, RequestsTyped, LoginsTyped, OwnSession, LiveListed, Ses!Live,
       Ses!may_change, Ses!NoRequest
<1>4. LiveListed'
    BY DEF SessionsTyped, Ses!TypeOK, LoginsTyped, LiveListed, Ses!Live, Ses!NoLogin
<1>5. LoginRow'
    BY DEF SessionsTyped, Ses!TypeOK, LoginsTyped, RequestsTyped, LoginRow, WillRevoke, Ses!NoLogin,
       Ses!NoRequest, Ses!exists
<1>6. StaleCovered'
    BY DEF SessionsTyped, Ses!TypeOK, LoginsTyped, RequestsTyped, OwnSession, LiveListed, LoginRow,
       WillRevoke,
           StaleCovered, Ses!Stale, Revoking, Ses!kept, Ses!Live, Ses!NoRequest
<1>7. Ses!AdminRemains'
    BY DEF SessionsTyped, Ses!TypeOK, RequestsTyped, ActorNotTarget, Ses!AdminRemains, Ses!admins,
       Ses!exists
<1>8. QED
    BY <1>1, <1>2, <1>3, <1>4, <1>5, <1>6, <1>7

LEMMA Step_session_expires ==
    ASSUME Ses!SessionsAssumption,
           SessionsInv, NEW s \in Sids, Ses!session_expires(s)
    PROVE  SessionsInv'
<1> USE Ses!SessionsAssumption, SessionDefaultsTyped, SessionBounds
    DEF Ses!SessionsAssumption, Ses!session_expires, Ses!stores, Ses!history, SessionsInv
<1>1. SessionsTyped'
    BY DEF SessionsTyped, Ses!TypeOK, LoginsTyped, RequestsTyped, UserRows, Ses!isAdmin,
       Ses!may_change, Ses!exists, Ses!Fault, Ses!Live, Ses!admins
<1>2. ActorNotTarget'
    BY DEF SessionsTyped, RequestsTyped, ActorNotTarget, Ses!may_change, Ses!NoRequest
<1>3. OwnSession'
    BY DEF SessionsTyped, Ses!TypeOK, RequestsTyped, LoginsTyped, OwnSession, LiveListed, Ses!Live,
       Ses!may_change, Ses!NoRequest
<1>4. LiveListed'
    BY DEF SessionsTyped, Ses!TypeOK, LoginsTyped, LiveListed, Ses!Live, Ses!NoLogin
<1>5. LoginRow'
    BY DEF SessionsTyped, Ses!TypeOK, LoginsTyped, RequestsTyped, LoginRow, WillRevoke, Ses!NoLogin,
       Ses!NoRequest, Ses!exists
<1>6. StaleCovered'
    BY DEF SessionsTyped, Ses!TypeOK, LoginsTyped, RequestsTyped, OwnSession, LiveListed, LoginRow,
       WillRevoke,
           StaleCovered, Ses!Stale, Revoking, Ses!kept, Ses!Live, Ses!NoRequest
<1>7. Ses!AdminRemains'
    BY DEF SessionsTyped, Ses!TypeOK, RequestsTyped, ActorNotTarget, Ses!AdminRemains, Ses!admins,
       Ses!exists
<1>8. QED
    BY <1>1, <1>2, <1>3, <1>4, <1>5, <1>6, <1>7

LEMMA Step_create_user ==
    ASSUME Ses!SessionsAssumption,
           SessionsInv, NEW s \in Sids, NEW u \in Users, NEW role \in Roles, Ses!create_user(s, u, role)
    PROVE  SessionsInv'
<1> USE Ses!SessionsAssumption, SessionDefaultsTyped, SessionBounds
    DEF Ses!SessionsAssumption, Ses!create_user, Ses!stores, Ses!history, SessionsInv
<1>1. SessionsTyped'
    BY DEF SessionsTyped, Ses!TypeOK, LoginsTyped, RequestsTyped, UserRows, Ses!isAdmin,
       Ses!may_change, Ses!exists, Ses!Fault, Ses!Live, Ses!admins
<1>2. ActorNotTarget'
    BY DEF SessionsTyped, RequestsTyped, ActorNotTarget, Ses!may_change, Ses!NoRequest
<1>3. OwnSession'
    BY DEF SessionsTyped, Ses!TypeOK, RequestsTyped, LoginsTyped, OwnSession, LiveListed, Ses!Live,
       Ses!may_change, Ses!NoRequest
<1>4. LiveListed'
    BY DEF SessionsTyped, Ses!TypeOK, LoginsTyped, LiveListed, Ses!Live, Ses!NoLogin
<1>5. LoginRow'
    BY DEF SessionsTyped, Ses!TypeOK, LoginsTyped, RequestsTyped, LoginRow, WillRevoke, Ses!NoLogin,
       Ses!NoRequest, Ses!exists
<1>6. StaleCovered'
    BY SMTT(30) DEF SessionsTyped, Ses!TypeOK, LoginsTyped, RequestsTyped, OwnSession, LiveListed,
       LoginRow, WillRevoke,
           StaleCovered, Ses!Stale, Revoking, Ses!kept, Ses!Live, Ses!NoRequest
<1>7. Ses!AdminRemains'
    BY DEF SessionsTyped, Ses!TypeOK, RequestsTyped, ActorNotTarget, Ses!AdminRemains, Ses!admins,
       Ses!exists
<1>8. QED
    BY <1>1, <1>2, <1>3, <1>4, <1>5, <1>6, <1>7

LEMMA Step_change_begins ==
    ASSUME Ses!SessionsAssumption,
           SessionsInv, NEW q \in Changers, NEW s \in Sids, NEW kind \in {"role", "delete", "password"},
           NEW u \in Users, NEW role \in Roles, Ses!change_begins(q, s, kind, u, role)
    PROVE  SessionsInv'
<1> USE DEF SessionsInv
<1> DEFINE new == [pc |-> "update", kind |-> kind, actor |-> sess[s].user,
                   sid |-> {s}, target |-> u, role |-> role, todo |-> {}]
<1>1. /\ request[q].pc = "idle" /\ Ses!may_change(s, kind, u) /\ Ses!Live(s)
      /\ request' = [request EXCEPT ![q] = new]
      /\ changes < MaxChanges /\ changes' = changes + 1
      /\ UNCHANGED <<users, invites, sess, minted, members, login, overlapped, usurped, cut, faults>>
    BY DEF Ses!change_begins, Ses!stores, Ses!may_change, Ses!isAdmin
<1>2. request'[q] = new /\ \A p \in Changers : p # q => request'[p] = request[p]
    BY <1>1 DEF SessionsTyped, RequestsTyped
<1>3. SessionsTyped'
    BY <1>1, SessionBounds DEF SessionsTyped, Ses!TypeOK, LoginsTyped, RequestsTyped
<1>4. ActorNotTarget' /\ Ses!AdminRemains'
    BY <1>1, <1>2 DEF ActorNotTarget, Ses!may_change, Ses!AdminRemains, Ses!admins
<1>5. s \in minted /\ (kind = "password" => sess[s].user = u)
    BY <1>1 DEF LiveListed, Ses!may_change
<1>6. OwnSession'
    BY <1>1, <1>2, <1>5 DEF OwnSession, Ses!Live
<1>7. LiveListed' /\ LoginRow'
    BY <1>1, <1>2 DEF LiveListed, LoginRow, WillRevoke, Ses!Live
<1>8. \A p \in Changers, x \in Sids : Revoking(p, x) => Revoking(p, x)'
    BY <1>1, <1>2 DEF Revoking, OwnSession, Ses!kept
<1>9. StaleCovered'
    BY <1>1, <1>8 DEF StaleCovered, Ses!Stale, Ses!Live
<1>10. QED
    BY <1>3, <1>4, <1>6, <1>7, <1>9

LEMMA Step_accept_invite ==
    ASSUME Ses!SessionsAssumption,
           SessionsInv, NEW u \in Users, Ses!accept_invite(u)
    PROVE  SessionsInv'
<1> USE DEF SessionsInv
<1>1. /\ invites' \subseteq invites /\ faults' \in 0..MaxFaults
      /\ \/ UNCHANGED users
         \/ users[u].state = "invited" /\ users' = [users EXCEPT ![u].state = "active"]
      /\ UNCHANGED <<sess, minted, members, login, request, overlapped, usurped, cut, changes>>
    BY SessionBounds DEF Ses!accept_invite, Ses!Fault, SessionsTyped, Ses!TypeOK
<1>2. /\ users' \in [Users -> UserRows]
      /\ \A v \in Users : users'[v] = users[v] \/ users[v].state = "invited"
      /\ \A v \in Users : users'[v].role = users[v].role /\ users'[v].pw = users[v].pw
      /\ \A v \in Users : users[v].state = "active" => users'[v].state = "active"
    BY <1>1, SMTT(40) DEF SessionsTyped, Ses!TypeOK, UserRows
<1>3. SessionsTyped'
    BY <1>1, <1>2 DEF SessionsTyped, Ses!TypeOK, LoginsTyped, RequestsTyped, UserRows
<1>4. ActorNotTarget' /\ OwnSession' /\ LiveListed'
    BY <1>1 DEF ActorNotTarget, OwnSession, LiveListed, Ses!Live
<1>5. Ses!AdminRemains'
    <2>1. Ses!admins \subseteq Ses!admins'
        BY <1>2 DEF Ses!admins
    <2>2. QED
        BY <1>1, <2>1 DEF Ses!AdminRemains
<1>6. LoginRow'
    BY <1>1, <1>2 DEF SessionsTyped, LoginsTyped, LoginRow, WillRevoke
<1>7. \A s \in Sids : Ses!Stale(s)' => Ses!Stale(s)
    BY <1>1, <1>2 DEF SessionsTyped, Ses!TypeOK, Ses!Stale, Ses!Live
<1>8. StaleCovered'
    BY <1>1, <1>7 DEF StaleCovered, Revoking
<1>9. QED
    BY <1>3, <1>4, <1>5, <1>6, <1>8

LEMMA Step_change_update ==
    ASSUME Ses!SessionsAssumption,
           SessionsInv, NEW q \in Changers, Ses!change_update(q)
    PROVE  SessionsInv'
<1> USE DEF SessionsInv
<1> DEFINE r == request[q]
           u == request[q].target
<1>0. r.pc = "update" /\ u \in Users /\ UNCHANGED <<invites, minted, members, login, overlapped, cut, changes, faults>>
    BY DEF Ses!change_update, SessionsTyped, RequestsTyped
<1>1. CASE /\ r.kind # "password" /\ ~Ses!exists(u)
           /\ request' = [request EXCEPT ![q] = Ses!NoRequest]
           /\ UNCHANGED <<users, sess, usurped>>
    <2>1. SessionsTyped' /\ ActorNotTarget' /\ OwnSession'
        BY <1>0, <1>1, SessionDefaultsTyped
           DEF SessionsTyped, Ses!TypeOK, LoginsTyped, RequestsTyped, ActorNotTarget, OwnSession, Ses!NoRequest, Ses!Live
    <2>2. LiveListed' /\ LoginRow' /\ Ses!AdminRemains'
        BY <1>0, <1>1 DEF SessionsTyped, RequestsTyped, LiveListed, LoginRow, WillRevoke,
           Ses!AdminRemains, Ses!admins, Ses!Live
    <2>3. StaleCovered'
        BY <1>0, <1>1 DEF SessionsTyped, RequestsTyped, OwnSession, StaleCovered, Ses!Stale,
           Ses!Live, Revoking
    <2>4. QED
        BY <2>1, <2>2, <2>3
<1>2. CASE /\ r.kind # "password" /\ Ses!exists(u)
           /\ users' = IF r.kind = "role" THEN [users EXCEPT ![u].role = r.role]
                       ELSE [users EXCEPT ![u].state = "deleted"]
           /\ request' = [request EXCEPT ![q].pc = "members"]
           /\ usurped' = (usurped \/ r.actor \notin Ses!admins)
           /\ UNCHANGED sess
    <2>1. SessionsTyped' /\ ActorNotTarget' /\ OwnSession'
        <3>1. users' \in [Users -> UserRows]
            BY <1>0, <1>2 DEF SessionsTyped, Ses!TypeOK, RequestsTyped, UserRows
        <3>2. RequestsTyped'
            BY <1>2 DEF SessionsTyped, RequestsTyped
        <3>3. usurped' \in BOOLEAN
            BY <1>2
        <3>4. SessionsTyped'
            BY <1>0, <1>2, <3>1, <3>2, <3>3 DEF SessionsTyped, Ses!TypeOK, LoginsTyped, UserRows
        <3>5. QED
            BY <1>0, <1>2, <3>4 DEF SessionsTyped, RequestsTyped, ActorNotTarget, OwnSession,
               Ses!Live
    <2>2. LiveListed'
        BY <1>0, <1>2 DEF LiveListed, Ses!Live
    <2>3. \A v \in Users : v # u => users'[v] = users[v]
        BY <1>0, <1>2 DEF SessionsTyped, Ses!TypeOK
    <2>4. LoginRow'
        BY <1>0, <1>2, <2>3 DEF SessionsTyped, RequestsTyped, LoginsTyped, LoginRow, WillRevoke
    <2>5. ASSUME NEW s \in Sids, Ses!Stale(s)'
          PROVE  s \in overlapped' \/ cut' \/ \E p \in Changers : Revoking(p, s)'
        <3>1. CASE sess[s].user = u
            <4>1. Revoking(q, s)'
                BY <1>0, <1>2, <3>1 DEF SessionsTyped, RequestsTyped, Revoking, Ses!kept
            <4>2. QED
                BY <4>1
        <3>2. CASE sess[s].user # u
            <4>1. Ses!Stale(s)
                BY <1>2, <2>3, <2>5, <3>2 DEF SessionsTyped, Ses!TypeOK, Ses!Stale, Ses!Live
            <4>2. \A p \in Changers : Revoking(p, s) => Revoking(p, s)'
                BY <1>2, <3>2 DEF SessionsTyped, RequestsTyped, Revoking, Ses!kept
            <4>3. QED
                BY <1>0, <4>1, <4>2 DEF StaleCovered
        <3>3. QED
            BY <3>1, <3>2
    <2>6. Ses!AdminRemains'
        <3>1. CASE r.actor \in Ses!admins
            <4>1. r.actor # u
                BY <1>0, <1>2 DEF ActorNotTarget
            <4>2. r.actor \in Ses!admins'
                BY <2>3, <3>1, <4>1 DEF Ses!admins
            <4>3. QED
                BY <4>2 DEF Ses!AdminRemains
        <3>2. CASE r.actor \notin Ses!admins
            BY <1>2, <3>2 DEF Ses!AdminRemains
        <3>3. QED
            BY <3>1, <3>2
    <2>7. QED
        BY <2>1, <2>2, <2>4, <2>5, <2>6 DEF StaleCovered
<1>3. CASE /\ r.kind = "password"
           /\ users' = [users EXCEPT ![u].pw = @ + 1]
           /\ sess' = [s \in Sids |-> IF s \in r.sid /\ Ses!Live(s)
                          THEN [sess[s] EXCEPT !.pw = users[u].pw + 1] ELSE sess[s]]
           /\ request' = [request EXCEPT ![q].pc = "members"]
           /\ UNCHANGED usurped
    <2>0. users[u].pw \in Nat /\ \A v \in Users : v # u => users'[v] = users[v]
        BY <1>0, <1>3 DEF SessionsTyped, Ses!TypeOK
    <2>1. SessionsTyped'
        <3>1. sess' \in [Sids -> [user : Users, role : Roles \cup {"none"}, pw : Nat]]
            BY <1>3, <2>0 DEF SessionsTyped, Ses!TypeOK
        <3>2. users' \in [Users -> UserRows]
            <4>1. [users[u] EXCEPT !.pw = @ + 1] \in UserRows
                <5>1. users[u] \in UserRows /\ users[u].pw + 1 \in Nat
                    BY <1>0, <2>0 DEF SessionsTyped, Ses!TypeOK, UserRows
                <5> HIDE DEF u
                <5>2. QED
                    BY <5>1 DEF UserRows
            <4>2. users' = [users EXCEPT ![u] = [users[u] EXCEPT !.pw = @ + 1]]
                BY <1>0, <1>3 DEF SessionsTyped, Ses!TypeOK
            <4>3. QED
                BY <4>1, <4>2 DEF SessionsTyped, Ses!TypeOK, UserRows
        <3>3. RequestsTyped'
            BY <1>3 DEF SessionsTyped, RequestsTyped
        <3>4. QED
            BY <1>0, <1>3, <3>1, <3>2, <3>3 DEF SessionsTyped, Ses!TypeOK, LoginsTyped, UserRows
    <2>2. \A s \in Sids : /\ Ses!Live(s)' => Ses!Live(s)
                          /\ sess'[s].user = sess[s].user /\ sess'[s].role = sess[s].role
                          /\ s \notin r.sid => sess'[s] = sess[s]
                          /\ s \in r.sid /\ Ses!Live(s)' =>
                                sess'[s].user = u /\ sess'[s].pw = users'[u].pw
        <3>1. SUFFICES ASSUME NEW s \in Sids
                       PROVE  /\ Ses!Live(s)' => Ses!Live(s)
                              /\ sess'[s].user = sess[s].user /\ sess'[s].role = sess[s].role
                              /\ s \notin r.sid => sess'[s] = sess[s]
                              /\ s \in r.sid /\ Ses!Live(s)' =>
                                    sess'[s].user = u /\ sess'[s].pw = users'[u].pw
            OBVIOUS
        <3>2. CASE s \in r.sid /\ Ses!Live(s)
            <4>1. sess'[s] = [sess[s] EXCEPT !.pw = users[u].pw + 1]
                BY <1>3, <3>2
            <4>2. sess[s].user = u
                BY <1>3, <3>2 DEF OwnSession
            <4>3. users'[u].pw = users[u].pw + 1
                BY <1>0, <1>3 DEF SessionsTyped, Ses!TypeOK
            <4>4. QED
                BY <3>2, <4>1, <4>2, <4>3 DEF SessionsTyped, Ses!TypeOK
        <3>3. CASE ~ (s \in r.sid /\ Ses!Live(s))
            <4>1. sess'[s] = sess[s]
                BY <1>3, <3>3
            <4>2. Ses!Live(s)' <=> Ses!Live(s)
                BY <4>1 DEF Ses!Live
            <4>3. QED
                BY <3>3, <4>1, <4>2
        <3>4. QED
            BY <3>2, <3>3
    <2>3. ActorNotTarget' /\ Ses!AdminRemains'
        <3>1. Ses!admins' = Ses!admins
            BY <1>0, <1>3 DEF SessionsTyped, Ses!TypeOK, Ses!admins
        <3>2. QED
            BY <1>0, <1>3, <3>1 DEF SessionsTyped, RequestsTyped, ActorNotTarget, Ses!AdminRemains
    <2>4. OwnSession'
        <3>1. \A p \in Changers : /\ request'[p].sid = request[p].sid /\ request'[p].todo = request[p].todo
                                  /\ request'[p].kind = request[p].kind /\ request'[p].target = request[p].target
                                  /\ request'[p].pc = request[p].pc \/ request[p].pc = "update"
            BY <1>0, <1>3 DEF SessionsTyped, RequestsTyped
        <3>2. \A p \in Changers : request[p].sid \subseteq Sids
            BY DEF SessionsTyped, RequestsTyped
        <3>3. QED
            BY <1>0, <2>2, <3>1, <3>2 DEF OwnSession
    <2>5. LiveListed'
        BY <1>0, <2>2 DEF LiveListed
    <2>6. LoginRow'
        BY <1>0, <1>3, <2>0 DEF SessionsTyped, RequestsTyped, LoginsTyped, LoginRow, WillRevoke
    <2>7. ASSUME NEW s \in Sids, Ses!Stale(s)'
          PROVE  s \in overlapped' \/ cut' \/ \E p \in Changers : Revoking(p, s)'
        <3>1. CASE sess[s].user = u /\ s \notin r.sid
            <4>1. Revoking(q, s)'
                BY <1>0, <1>3, <2>2, <3>1 DEF SessionsTyped, RequestsTyped, Revoking, Ses!kept
            <4>2. QED
                BY <4>1
        <3>2. CASE sess[s].user # u \/ s \in r.sid
            <4>1. Ses!Stale(s)
                <5>1. CASE s \in r.sid
                    <6>1. users'[u].state = users[u].state /\ users'[u].role = users[u].role
                        BY <1>0, <1>3 DEF SessionsTyped, Ses!TypeOK
                    <6>2. QED
                        BY <2>2, <2>7, <5>1, <6>1 DEF Ses!Stale
                <5>2. CASE s \notin r.sid /\ sess[s].user # u
                    BY <2>0, <2>2, <2>7, <5>2 DEF SessionsTyped, Ses!TypeOK, Ses!Stale
                <5>3. QED
                    BY <3>2, <5>1, <5>2
            <4>2. \A p \in Changers : Revoking(p, s) => Revoking(p, s)'
                BY <1>0, <1>3, <2>2 DEF SessionsTyped, RequestsTyped, OwnSession, Revoking, Ses!kept
            <4>3. QED
                BY <1>0, <4>1, <4>2 DEF StaleCovered
        <3>3. QED
            BY <3>1, <3>2
    <2>8. QED
        BY <2>1, <2>3, <2>4, <2>5, <2>6, <2>7 DEF StaleCovered
<1>4. QED
    BY <1>1, <1>2, <1>3 DEF Ses!change_update

LEMMA Step_revoke_members ==
    ASSUME SessionsInv, NEW q \in Changers, Ses!revoke_members(q)
    PROVE  SessionsInv'
<1> USE DEF SessionsInv
<1> DEFINE r == request[q]
           missed == {l \in Logins : login[l].pc # "idle" /\ login[l].user = request[q].target}
           found == {s \in Sids : <<request[q].target, s>> \in members} \ Ses!kept(request[q])
<1>1. /\ r.pc = "members"
      /\ request' = [request EXCEPT ![q].pc = "delete", ![q].todo = found]
      /\ login' = [l \in Logins |-> IF l \in missed THEN [login[l] EXCEPT !.stale = TRUE] ELSE login[l]]
      /\ overlapped' = overlapped \cup UNION {login[l].sid : l \in missed}
      /\ UNCHANGED <<users, invites, sess, minted, members, usurped, cut, changes, faults>>
    BY DEF Ses!revoke_members, Ses!stores
<1>2. \A l \in Logins : /\ login'[l].pc = login[l].pc /\ login'[l].user = login[l].user
                        /\ login'[l].row = login[l].row /\ login'[l].sid = login[l].sid
                        /\ login[l].stale \/ l \in missed => login'[l].stale
    BY <1>1 DEF SessionsTyped, LoginsTyped
<1>3. SessionsTyped'
    <2>1. overlapped' \subseteq Sids
        BY <1>1 DEF SessionsTyped, Ses!TypeOK, LoginsTyped
    <2>2. LoginsTyped'
        BY <1>1 DEF SessionsTyped, LoginsTyped
    <2>3. RequestsTyped'
        <3>1. found \in SUBSET Sids
            OBVIOUS
        <3> HIDE DEF found
        <3>2. [request[q] EXCEPT !.pc = "delete", !.todo = found] \in
                 [pc : {"idle", "update", "members", "delete"},
                  kind : {"role", "delete", "password"}, actor : Users,
                  sid : SUBSET Sids, target : Users, role : Roles, todo : SUBSET Sids]
            BY <3>1 DEF SessionsTyped, RequestsTyped
        <3>3. request' = [request EXCEPT ![q] = [request[q] EXCEPT !.pc = "delete", !.todo = found]]
            BY <1>1 DEF SessionsTyped, RequestsTyped
        <3>4. QED
            BY <3>2, <3>3 DEF SessionsTyped, RequestsTyped
    <2>4. QED
        BY <1>1, <2>1, <2>2, <2>3 DEF SessionsTyped, Ses!TypeOK
<1>4. ActorNotTarget' /\ Ses!AdminRemains'
    BY <1>1 DEF SessionsTyped, RequestsTyped, ActorNotTarget, Ses!AdminRemains, Ses!admins
<1>5. OwnSession'
    BY <1>1 DEF SessionsTyped, RequestsTyped, OwnSession, Ses!Live
<1>6. LiveListed'
    BY <1>1, <1>2 DEF LiveListed, Ses!Live
<1>7. LoginRow'
    <2> SUFFICES ASSUME NEW l \in Logins, login'[l].pc = "hset"
                 PROVE  /\ login'[l].row.state = "active"
                        /\ login'[l].row # users'[login'[l].user] =>
                              login'[l].stale \/ cut' \/ \E p \in Changers : WillRevoke(p, login[l].user)'
        BY <1>2 DEF LoginRow
    <2>1. CASE login[l].user = r.target
        BY <1>1, <1>2, <2>1 DEF LoginRow
    <2>2. CASE login[l].user # r.target
        BY <1>1, <1>2, <2>2 DEF SessionsTyped, RequestsTyped, LoginRow, WillRevoke
    <2>3. QED
        BY <2>1, <2>2
<1>8. ASSUME NEW s \in Sids, Ses!Stale(s)'
      PROVE  s \in overlapped' \/ cut' \/ \E p \in Changers : Revoking(p, s)'
    <2>1. Ses!Stale(s)
        BY <1>1, <1>8 DEF Ses!Stale, Ses!Live
    <2>2. ASSUME NEW p \in Changers, Revoking(p, s), p # q
          PROVE  Revoking(p, s)'
        BY <1>1, <2>2 DEF SessionsTyped, RequestsTyped, Revoking, Ses!kept
    <2>3. ASSUME Revoking(q, s), ~ Revoking(q, s)'
          PROVE  s \in overlapped'
        <3>1. r.target = sess[s].user /\ s \notin Ses!kept(r)
            BY <1>1, <2>3 DEF Revoking, OwnSession
        <3>2. <<r.target, s>> \notin members
            BY <1>1, <2>3, <3>1 DEF SessionsTyped, RequestsTyped, Revoking
        <3>3. PICK l \in Logins : login[l].pc = "sadd" /\ login[l].user = sess[s].user /\ s \in login[l].sid
            BY <2>1, <3>1, <3>2 DEF LiveListed, Ses!Stale
        <3>4. QED
            BY <1>1, <3>1, <3>3
    <2>4. QED
        BY <1>1, <2>1, <2>2, <2>3 DEF StaleCovered
<1>9. QED
    BY <1>3, <1>4, <1>5, <1>6, <1>7, <1>8 DEF StaleCovered

LEMMA Step_revoke_delete ==
    ASSUME Ses!SessionsAssumption,
           SessionsInv, NEW q \in Changers, Ses!revoke_delete(q)
    PROVE  SessionsInv'
<1> USE DEF SessionsInv
<1>0. request[q].pc = "delete" /\ UNCHANGED <<users, invites, minted, login, Ses!history>>
    BY DEF Ses!revoke_delete
<1>1. CASE /\ request[q].todo = {}
           /\ request' = [request EXCEPT ![q] = Ses!NoRequest]
           /\ UNCHANGED <<sess, members>>
    <2>1. SessionsTyped' /\ ActorNotTarget' /\ OwnSession'
        BY <1>0, <1>1, SessionDefaultsTyped
           DEF SessionsTyped, Ses!TypeOK, LoginsTyped, RequestsTyped, ActorNotTarget, OwnSession, Ses!NoRequest, Ses!Live, Ses!history
    <2>2. LiveListed' /\ LoginRow' /\ Ses!AdminRemains'
        BY <1>0, <1>1
           DEF SessionsTyped, RequestsTyped, LiveListed, LoginRow, WillRevoke, Ses!AdminRemains, Ses!admins, Ses!Live, Ses!history
    <2>3. StaleCovered'
        BY <1>0, <1>1 DEF SessionsTyped, RequestsTyped, OwnSession, StaleCovered, Ses!Stale,
           Ses!Live, Revoking, Ses!history
    <2>4. QED
        BY <2>1, <2>2, <2>3
<1>2. ASSUME NEW s \in request[q].todo,
             sess' = [sess EXCEPT ![s] = Ses!NoSession],
             members' = members \ {<<request[q].target, s>>},
             request' = [request EXCEPT ![q].todo = @ \ {s}]
      PROVE  SessionsInv'
    <2>0. s \in Sids /\ ~ Ses!Live(s)' /\ \A x \in Sids : x # s => sess'[x] = sess[x] /\ (Ses!Live(x)' <=> Ses!Live(x))
        BY <1>2 DEF SessionsTyped, Ses!TypeOK, RequestsTyped, Ses!Live
    <2>1. SessionsTyped'
        <3>1. sess' \in [Sids -> [user : Users, role : Roles \cup {"none"}, pw : Nat]]
            BY <1>2, SessionDefaultsTyped DEF SessionsTyped, Ses!TypeOK
        <3>2. RequestsTyped'
            BY <1>2 DEF SessionsTyped, RequestsTyped
        <3>3. members' \subseteq Users \X Sids
            BY <1>2 DEF SessionsTyped, Ses!TypeOK
        <3>4. QED
            BY <1>0, <3>1, <3>2, <3>3 DEF SessionsTyped, Ses!TypeOK, LoginsTyped, Ses!history
    <2>2. ActorNotTarget' /\ OwnSession'
        BY <1>0, <1>2, <2>0 DEF SessionsTyped, RequestsTyped, ActorNotTarget, OwnSession
    <2>3. LiveListed'
        BY <1>0, <1>2, <2>0 DEF LiveListed
    <2>4. LoginRow' /\ Ses!AdminRemains'
        BY <1>0, <1>2 DEF SessionsTyped, RequestsTyped, LoginRow, WillRevoke, Ses!AdminRemains,
           Ses!admins, Ses!history
    <2>5. ASSUME NEW x \in Sids, Ses!Stale(x)'
          PROVE  x \in overlapped' \/ cut' \/ \E p \in Changers : Revoking(p, x)'
        <3>1. x # s /\ Ses!Stale(x)
            BY <1>0, <2>0, <2>5 DEF Ses!Stale
        <3>2. \A p \in Changers : Revoking(p, x) => Revoking(p, x)'
            BY <1>0, <1>2, <2>0, <3>1 DEF SessionsTyped, RequestsTyped, Revoking, Ses!kept
        <3>3. QED
            BY <1>0, <3>1, <3>2 DEF StaleCovered, Ses!history
    <2>6. QED
        BY <2>1, <2>2, <2>3, <2>4, <2>5 DEF StaleCovered
<1>3. QED
    BY <1>1, <1>2 DEF Ses!revoke_delete

LEMMA Step_change_fails ==
    ASSUME Ses!SessionsAssumption,
           SessionsInv, NEW q \in Changers, Ses!change_fails(q)
    PROVE  SessionsInv'
<1> USE DEF SessionsInv
<1>1. /\ request[q].pc # "idle" /\ faults' \in 0..MaxFaults
      /\ cut' = (cut \/ request[q].pc # "update")
      /\ request' = [request EXCEPT ![q] = Ses!NoRequest]
      /\ UNCHANGED <<users, invites, sess, minted, members, login, overlapped, usurped, changes>>
    BY SessionBounds DEF Ses!change_fails, Ses!stores, Ses!Fault, SessionsTyped, Ses!TypeOK
<1>2. request'[q] = Ses!NoRequest /\ \A p \in Changers : p # q => request'[p] = request[p]
    BY <1>1 DEF SessionsTyped, RequestsTyped
<1>3. SessionsTyped'
    BY <1>1, SessionDefaultsTyped DEF SessionsTyped, Ses!TypeOK, LoginsTyped, RequestsTyped
<1>4. ActorNotTarget' /\ OwnSession'
    BY <1>1, <1>2 DEF ActorNotTarget, OwnSession, Ses!NoRequest, Ses!Live
<1>5. LiveListed' /\ Ses!AdminRemains'
    BY <1>1 DEF LiveListed, Ses!Live, Ses!AdminRemains, Ses!admins
<1>6. CASE request[q].pc = "update"
    <2>0. \A p \in Changers, x \in Users : WillRevoke(p, x) => WillRevoke(p, x)'
        BY <1>1, <1>2, <1>6 DEF WillRevoke
    <2>1. LoginRow'
        BY <1>1, <2>0 DEF SessionsTyped, LoginsTyped, LoginRow
    <2>2. \A p \in Changers, x \in Sids : Revoking(p, x) => Revoking(p, x)'
        BY <1>1, <1>2, <1>6 DEF Revoking, OwnSession
    <2>3. StaleCovered'
        BY <1>1, <2>2 DEF StaleCovered, Ses!Stale, Ses!Live
    <2>4. QED
        BY <1>3, <1>4, <1>5, <2>1, <2>3
<1>7. CASE request[q].pc # "update"
    <2>1. cut'
        BY <1>1, <1>7
    <2>2. LoginRow' /\ StaleCovered'
        BY <1>1, <2>1 DEF LoginRow, StaleCovered
    <2>3. QED
        BY <1>3, <1>4, <1>5, <2>2
<1>8. QED
    BY <1>6, <1>7

----------------------------------------------------------------------------
LEMMA StepSessionsInv ==
    ASSUME Ses!SessionsAssumption
    PROVE  SessionsInv /\ [Ses!Next]_(Ses!vars) => SessionsInv'
<1> SUFFICES ASSUME SessionsInv, [Ses!Next]_(Ses!vars) PROVE SessionsInv'
    OBVIOUS
<1>1. CASE Ses!Next
    BY <1>1, Step_login_read, Step_create_hset, Step_create_sadd, Step_logout, Step_session_expires,
       Step_create_user, Step_change_begins, Step_accept_invite, Step_change_update,
       Step_revoke_members, Step_revoke_delete, Step_change_fails DEF Ses!Next
<1>2. CASE UNCHANGED Ses!vars
    <2>1. SessionsTyped' /\ ActorNotTarget' /\ OwnSession'
        BY <1>2 DEF Ses!vars, SessionsInv, SessionsTyped, Ses!TypeOK, LoginsTyped, RequestsTyped,
           ActorNotTarget, OwnSession, Ses!Live
    <2>2. LiveListed' /\ LoginRow' /\ StaleCovered' /\ Ses!AdminRemains'
        BY <1>2 DEF Ses!vars, SessionsInv, LiveListed, LoginRow, WillRevoke, StaleCovered,
           Ses!Stale, Ses!Live, Revoking,
                    Ses!AdminRemains, Ses!admins
    <2>3. QED
        BY <2>1, <2>2 DEF SessionsInv
<1>3. QED
    BY <1>1, <1>2

(* The inductive invariant holds for every number of users, sessions and requests. *)
THEOREM SessionsInvariant ==
    ASSUME Ses!SessionsAssumption
    PROVE  Ses!Spec => []SessionsInv
<1>1. QED
    BY InitSessionsInv, StepSessionsInv, PTL DEF Ses!Spec

(* A session outlives a change of its user only while the change is revoking it, by  *)
(* an overlapping login, or after a revocation that was cut off (sessions.py          *)
(* revoke_all_for_user).                                                              *)
THEOREM StaleOnlyByOverlapHolds ==
    ASSUME Ses!SessionsAssumption
    PROVE  Ses!Spec => []StaleOnlyByOverlap
<1>1. \A s : Stale(s) => Ses!Stale(s)
    BY DEF Stale, Ses!Stale, Live, Ses!Live, NoSession, Ses!NoSession
<1>2. SessionsInv => StaleOnlyByOverlap
    BY <1>1 DEF SessionsInv, StaleCovered, StaleOnlyByOverlap, Revoking
<1>3. QED
    BY <1>2, SessionsInvariant, PTL

(* The tenant keeps an active admin unless a change commits that was authorised by a  *)
(* user who no longer is one (users.py patch_user, delete_user).                      *)
THEOREM AdminRemainsHolds ==
    ASSUME Ses!SessionsAssumption
    PROVE  Ses!Spec => []AdminRemains
<1>1. Ses!AdminRemains => AdminRemains
    BY DEF Ses!AdminRemains, AdminRemains, Ses!admins, admins
<1>2. SessionsInv => AdminRemains
    BY <1>1 DEF SessionsInv
<1>3. QED
    BY <1>2, SessionsInvariant, PTL

=============================================================================
