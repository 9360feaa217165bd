------------------------------ MODULE Inventory ------------------------------
(***************************************************************************)
(* The asset inventory of one tenant: the asset-dedup workers              *)
(* (workers/asset_dedup.py), enrollment, heartbeat and revocation          *)
(* (api/enrollment.py), manual merge and split (api/assets.py) and the     *)
(* jobs billable_window and agent_offline (jobs/tasks.py).                 *)
(*                                                                         *)
(* A machine has a host name (with its OS family), perhaps a MAC address,  *)
(* and a device_id for every enrollment.  A transaction is atomic where    *)
(* its row locks make it so: merge, split, heartbeat, revoke and the write *)
(* half of the dedup handler.  Observations reach a worker late and more   *)
(* than once: it may handle any that has been published.  The handler resolves the asset with plain   *)
(* reads first, and anything may commit between the two halves.  Enrollment*)
(* counts and inserts under an advisory lock that only enrollments take.   *)
(***************************************************************************)
EXTENDS AssetTables, Sequences

CONSTANTS
    Workers,        \* asset-dedup consumers
    Enrollers,      \* concurrent POST /v1/agent/enroll
    LogViews,       \* what a log line may carry of a machine: SUBSET {"host", "mac"}
    MaxRare         \* bound: merges, splits, revocations, devices that send heartbeats,
                    \* periods of silence and malformed observations, together

ASSUME ConstantsAssumption ==
    /\ EndpointCap \in Nat
    /\ MaxAssets \in Nat
    /\ MaxRare \in Nat
    /\ LogViews \subseteq SUBSET {"host", "mac"}
    /\ Devices \cap Names = {}
    /\ None \notin Identifiers \cup Assets \cup Enrollers \cup AssetRow \cup DeviceRow

VARIABLES
    worker,     \* [Workers -> [pc, obs, found, stale]]
    enroller,   \* [Enrollers -> None, or the machine of a transaction past its count]
    lock,       \* the advisory lock of enrollments: an enroller or None
    dead_letters,
    revocations

tables == <<asset, identity, pin, device>>
enrolling == <<enroller, lock>>
counts == <<corrections, silences, revocations>>
vars == <<tables, worker, enrolling, dead_letters, strays, counts>>

-----------------------------------------------------------------------------
\* What a behaviour has used of MaxRare
Spent ==
    corrections + silences + revocations + Cardinality(dead_letters)
    + Cardinality({d \in Devices : device[d] # None /\ device[d].beat # "none"})

Unused == Assets \ Existing

\* AssetObservation.identifiers(): strongest first
identifiers(o) ==
    (IF o.device # None THEN <<o.device>> ELSE <<>>)
    \o (IF "host" \in o.view THEN <<host_of[o.machine]>> ELSE <<>>)
    \o (IF "mac" \in o.view /\ mac_of[o.machine] # None THEN <<mac_of[o.machine]>> ELSE <<>>)

\* The pin of an identifier, and only without one its automatic binding
candidate_of(i) == IF pin[i] # None THEN pin[i] ELSE identity[i]

\* An asset bound to a device other than the observation's is not a candidate
other_device(o, a) ==
    /\ o.device # None
    /\ \E d \in Devices \ {o.device} : identity[d] = a

_resolve(o) ==
    LET ids == identifiers(o)
        fits(k) == /\ candidate_of(ids[k]) # None
                   /\ ids[k] \in Devices \/ ~other_device(o, candidate_of(ids[k]))
        matching == {k \in 1..Len(ids) : fits(k)}
    IN  IF matching = {} THEN None
        ELSE candidate_of(ids[CHOOSE k \in matching : \A j \in matching : k <= j])

\* The mutant binds only the identifier of the device
bindable_mutant(o, a) == {i \in {o.device} \cap Devices : pin[i] \in {None, a} /\ identity[i] = None}

\* Identifiers that _bind_identities gives to asset a: neither pinned nor bound elsewhere
bindable(o, a) ==
    {i \in {identifiers(o)[k] : k \in 1..Len(identifiers(o))} :
        pin[i] \in {None, a} /\ identity[i] = None}

-----------------------------------------------------------------------------
NewAsset(status, billable, recent, via) ==
    [state |-> "active", agent_status |-> status, billable |-> billable,
     recent |-> recent, created_via |-> via]

Idle == [pc |-> "idle", obs |-> None, found |-> None, stale |-> FALSE]

Init ==
    /\ asset = [a \in Assets |-> None]
    /\ identity = [i \in Identifiers |-> None]
    /\ pin = [i \in Identifiers |-> None]
    /\ device = [d \in Devices |-> None]
    /\ worker = [w \in Workers |-> Idle]
    /\ enroller = [e \in Enrollers |-> None]
    /\ lock = None
    /\ dead_letters = {}
    /\ strays = {}
    /\ corrections = 0
    /\ silences = 0
    /\ revocations = 0

\* A commit outdates what every worker between its two halves has read
Outdate(w) ==
    [v \in Workers |-> IF v = w THEN Idle
                       ELSE IF worker[v].pc = "resolved" THEN [worker[v] EXCEPT !.stale = TRUE]
                       ELSE worker[v]]

-----------------------------------------------------------------------------
(* AssetDeduper.handle: an observation without identifier is dead-lettered; *)
(* the others are resolved, and then written.                               *)

\* The normalizer publishes an observation for every stored event that names a host,
\* and enrollment tries to publish one; an agent's carries its device_id
Published ==
    [device : {None}, machine : Machines, view : LogViews]
    \cup {[device |-> d, machine |-> device[d].machine, view |-> {"host", "mac"}] :
             d \in {f \in Devices : device[f] # None}}

handle_malformed(o) ==
    /\ Spent < MaxRare
    /\ identifiers(o) = <<>>
    /\ dead_letters' = dead_letters \cup {o}
    /\ UNCHANGED <<tables, worker, enrolling, strays, counts>>

handle_resolve(w, o) ==
    /\ worker[w].pc = "idle"
    /\ identifiers(o) # <<>>
    /\ worker' = [worker EXCEPT ![w] =
           [pc |-> "resolved", obs |-> o, found |-> _resolve(o), stale |-> FALSE]]
    /\ UNCHANGED <<tables, enrolling, dead_letters, strays, counts>>

\* UPDATE_ASSET_SQL: a revoked asset keeps its billable flag, any other becomes billable
update_asset(a) ==
    [asset EXCEPT ![a].recent = TRUE,
                  ![a].billable = IF asset[a].agent_status = "revoked" THEN @ ELSE TRUE]

\* _create_asset
create_asset(a, o) ==
    [asset EXCEPT ![a] =
        NewAsset(IF o.device # None THEN "enrolled" ELSE "none", TRUE, TRUE,
                 IF o.device # None THEN "agent_enrollment" ELSE "log_ingest")]

handle_write(w) ==
    LET o == worker[w].obs IN
    /\ worker[w].pc = "resolved"
    /\ \E a \in IF worker[w].found = None THEN Unused ELSE {worker[w].found} :
         /\ a \in Unused => \A b \in Unused : a <= b
         /\ asset' = IF worker[w].found = None THEN create_asset(a, o) ELSE update_asset(a)
         /\ identity' = [i \in Identifiers |-> IF i \in bindable(o, a) THEN a ELSE identity[i]]
         /\ strays' = IF worker[w].stale THEN strays \cup ({a} \ Active) ELSE strays
    /\ worker' = Outdate(w)
    /\ UNCHANGED <<pin, device, enrolling, dead_letters, counts>>

\* The transaction fails, or the process dies before it commits
handle_abort(w) ==
    /\ worker[w].pc = "resolved"
    /\ worker' = [worker EXCEPT ![w] = Idle]
    /\ UNCHANGED <<tables, enrolling, dead_letters, strays, counts>>

-----------------------------------------------------------------------------
(* Enrollment, once its token and its CSR are accepted (module Access).    *)
(* At the cap the transaction ends without a row.                          *)

\* The mutant counts without the lock
enroll_count_mutant(e, m) ==
    /\ enroller[e] = None
    /\ billable_count < EndpointCap
    /\ enroller' = [enroller EXCEPT ![e] = m]
    /\ UNCHANGED <<lock, tables, worker, dead_letters, strays, counts>>

\* pg_advisory_xact_lock and the count under it
enroll_count(e, m) ==
    /\ enroller[e] = None
    /\ lock = None
    /\ billable_count < EndpointCap
    /\ enroller' = [enroller EXCEPT ![e] = m]
    /\ lock' = e
    /\ UNCHANGED <<tables, worker, dead_letters, strays, counts>>

enroll_insert(e) ==
    /\ enroller[e] # None
    /\ \E a \in Unused, d \in Devices :
         /\ \A b \in Unused : a <= b
         /\ device[d] = None
         /\ asset' = [asset EXCEPT ![a] = NewAsset("enrolled", FALSE, TRUE, "agent_enrollment")]
         /\ identity' = [identity EXCEPT ![d] = a]
         /\ device' = [device EXCEPT ![d] =
                [machine |-> enroller[e], asset |-> a, status |-> "active", beat |-> "none"]]
    /\ enroller' = [enroller EXCEPT ![e] = None]
    /\ lock' = None
    /\ worker' = Outdate(None)
    /\ UNCHANGED <<pin, dead_letters, strays, counts>>

-----------------------------------------------------------------------------
(* Heartbeats, revocation and the jobs                                     *)

heartbeat(d) ==
    /\ device[d] # None
    /\ device[d].beat # "none" \/ Spent < MaxRare
    /\ device[d].status = "active"
    /\ device' = [device EXCEPT ![d].beat = "fresh"]
    /\ LET a == device[d].asset IN
       asset' = IF asset[a].agent_status = "revoked" THEN asset
                ELSE [asset EXCEPT ![a].agent_status = "healthy", ![a].recent = TRUE]
    /\ UNCHANGED <<identity, pin, worker, enrolling, dead_letters, strays, counts>>

\* Three heartbeats of a device are missed
MissHeartbeats(d) ==
    /\ device[d] # None
    /\ device[d].beat = "fresh"
    /\ Spent < MaxRare
    /\ device' = [device EXCEPT ![d].beat = "late"]
    /\ silences' = silences + 1
    /\ UNCHANGED <<asset, identity, pin, worker, enrolling, dead_letters, strays,
                   corrections, revocations>>

revoke_device(d) ==
    /\ Spent < MaxRare
    /\ device[d] # None
    /\ device[d].status = "active"
    /\ device' = [device EXCEPT ![d].status = "revoked"]
    /\ asset' = [asset EXCEPT ![device[d].asset].agent_status = "revoked",
                              ![device[d].asset].billable = FALSE]
    /\ revocations' = revocations + 1
    /\ UNCHANGED <<identity, pin, worker, enrolling, dead_letters, strays,
                   corrections, silences>>

job_agent_offline ==
    /\ asset' = [a \in Assets |->
           IF /\ a \in Existing
              /\ asset[a].agent_status \in {"enrolled", "healthy"}
              /\ \E d \in Devices : /\ device[d] # None
                                    /\ device[d].asset = a
                                    /\ device[d].status = "active"
                                    /\ device[d].beat = "late"
           THEN [asset[a] EXCEPT !.agent_status = "offline"] ELSE asset[a]]
    /\ asset' # asset
    /\ UNCHANGED <<identity, pin, device, worker, enrolling, dead_letters, strays, counts>>

\* billable_window_days pass without a sign of the asset
Lapse(a) ==
    /\ a \in Existing
    /\ asset[a].recent
    /\ Spent < MaxRare
    /\ asset' = [asset EXCEPT ![a].recent = FALSE]
    /\ silences' = silences + 1
    /\ UNCHANGED <<identity, pin, device, worker, enrolling, dead_letters, strays,
                   corrections, revocations>>

job_billable_window ==
    /\ asset' = [a \in Assets |->
           IF a \in Existing /\ ~asset[a].recent THEN [asset[a] EXCEPT !.billable = FALSE]
           ELSE asset[a]]
    /\ asset' # asset
    /\ UNCHANGED <<identity, pin, device, worker, enrolling, dead_letters, strays, counts>>

-----------------------------------------------------------------------------
(* Manual corrections                                                      *)

\* The mutant keeps an existing pin (ON CONFLICT DO NOTHING)
pinned_mutant(I, a) == [i \in Identifiers |-> IF i \in I /\ pin[i] = None THEN a ELSE pin[i]]

\* Pins for the identifiers in I, replacing the pins they had
pinned(I, a) == [i \in Identifiers |-> IF i \in I THEN a ELSE pin[i]]

\* The mutant leaves the device rows behind
moved_devices_mutant(D, a) == device

\* The devices in D move to asset a
moved_devices(D, a) ==
    [d \in Devices |-> IF d \in D THEN [device[d] EXCEPT !.asset = a] ELSE device[d]]

\* A survivor without agent takes the status of another asset that has one
merged_status(s, O) ==
    IF asset[s].agent_status # "none" THEN {asset[s].agent_status}
    ELSE LET theirs == {asset[o].agent_status : o \in O} \ {"none"} IN
         IF theirs = {} THEN {"none"} ELSE theirs

merge_assets(s, O) ==
    /\ O # {}
    /\ s \in Active \ O
    /\ O \subseteq Active
    /\ LET moved == {i \in Identifiers : identity[i] \in O} IN
         /\ identity' = [i \in Identifiers |-> IF i \in moved THEN s ELSE identity[i]]
         /\ pin' = pinned(moved, s)
    /\ device' = moved_devices({d \in Devices : device[d] # None /\ device[d].asset \in O}, s)
    /\ \E status \in merged_status(s, O) :
         asset' = [a \in Assets |->
             IF a = s THEN [asset[s] EXCEPT !.agent_status = status,
                                            !.recent = \E b \in O \cup {s} : asset[b].recent]
             ELSE IF a \in O THEN [asset[a] EXCEPT !.state = "merged", !.billable = FALSE]
             ELSE asset[a]]
    /\ corrections' = corrections + 1
    /\ worker' = Outdate(None)
    /\ UNCHANGED <<enrolling, dead_letters, strays, silences, revocations>>

\* last_seen of the new asset is the latest of its identities, never later than the asset's
split_asset(a, I) ==
    /\ a \in Active
    /\ I # {}
    /\ \A i \in I : identity[i] = a
    /\ \E n \in Unused, recent \in {FALSE, asset[a].recent} :
         /\ \A b \in Unused : n <= b
         /\ identity' = [i \in Identifiers |-> IF i \in I THEN n ELSE identity[i]]
         /\ pin' = pinned(I, n)
         /\ device' = moved_devices(I \cap Devices, n)
         /\ asset' = [asset EXCEPT
                ![n] = NewAsset(IF I \cap Devices # {} THEN asset[a].agent_status ELSE "none",
                                FALSE, recent, "manual_split"),
                ![a].agent_status = IF I \cap Devices # {} THEN "none" ELSE @]
    /\ corrections' = corrections + 1
    /\ worker' = Outdate(None)
    /\ UNCHANGED <<enrolling, dead_letters, strays, silences, revocations>>

-----------------------------------------------------------------------------
Next ==
    \/ \E o \in Published :
         \/ handle_malformed(o)
         \/ \E w \in Workers : handle_resolve(w, o)
    \/ \E w \in Workers : handle_write(w) \/ handle_abort(w)
    \/ \E e \in Enrollers :
         \/ \E m \in Machines : enroll_count(e, m)
         \/ enroll_insert(e)
    \/ \E d \in Devices : heartbeat(d) \/ MissHeartbeats(d) \/ revoke_device(d)
    \/ job_agent_offline
    \/ job_billable_window
    \/ \E a \in Existing : Lapse(a)
    \/ /\ Spent < MaxRare
       /\ \E a \in Active :
            \/ \E O \in SUBSET (Active \ {a}) : merge_assets(a, O)
            \/ \E I \in SUBSET {i \in Identifiers : identity[i] = a} : split_asset(a, I)

Spec == Init /\ [][Next]_vars

-----------------------------------------------------------------------------
TypeOK ==
    /\ asset \in [Assets -> AssetRow \cup {None}]
    /\ device \in [Devices -> DeviceRow \cup {None}]
    /\ identity \in [Identifiers -> Assets \cup {None}]
    /\ pin \in [Identifiers -> Assets \cup {None}]
    /\ \A w \in Workers : worker[w].obs \in Published \cup {None}
    /\ lock \in Enrollers \cup {None}

=============================================================================
