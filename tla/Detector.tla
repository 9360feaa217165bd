------------------------------ MODULE Detector ------------------------------
(***************************************************************************)
(* Detection: the publication of rule packs (rulepub/publish.py), the      *)
(* tenant's rule toggles (api/rules.py) and the detector workers           *)
(* (workers/detector.py, detector_pack.py, detector_engine.py), which      *)
(* share the tables rule_packs, rules, rule_toggles and                    *)
(* rule_runtime_disables.                                                  *)
(*                                                                         *)
(* The variables of the tables are what is committed.  A publication is a  *)
(* transaction of three steps.  The clock counts buckets of the failure    *)
(* window; a query is shorter than one.  A worker's poll task and its      *)
(* message handler share the pack under one lock (fetching).               *)
(***************************************************************************)
EXTENDS RuleTables, RuleCompiler

CONSTANTS
    Tenants,
    Rules,                \* rule ids, numbers in their order
    docs,                 \* [Rules -> rule document]
    enabled_default,      \* [Packs -> SUBSET Rules]: manifest entries enabled
    Publishers,
    ToggleInputs,         \* requests <<tenant, rule, "on" or "off">>
    Messages, event,      \* pipe:normalized: the event of a message
    Window, MinTenants, MinSamples,
    FractionNum, FractionDen,     \* disable_fraction
    MaxTime, MaxPublications, MaxToggles, MaxFailures   \* bounds

ASSUME DetectorAssumption ==
    /\ Rules \subseteq Nat
    /\ {OverlayTTL, Window, MinSamples, FractionNum, FractionDen} \subseteq Nat \ {0}
    /\ MinTenants \in Nat /\ MinTenants >= 2
    /\ {MaxTime, MaxPublications, MaxToggles, MaxFailures} \subseteq Nat
    /\ IsFiniteSet(Publishers) /\ None \notin Packs /\ None \notin Messages
    /\ \A p \in Packs : pack_source[p].listed \subseteq Rules
    /\ \A m \in Messages : tenant_of[m] \in Tenants
    /\ ToggleInputs \subseteq Tenants \X Rules \X {"on", "off"}

VARIABLES
    published_at,  \* rule_packs.published_at: order of the transactions' begins
    tx,            \* of each publisher: [pack, at, superseding, turn], pack None outside
    begins,        \* transactions begun
    fetching,      \* version whose rules a refresh is reading, None outside
    cache_disabled, cache_expires,      \* EnablementCache, runtime disables
    cache_toggles, toggles_expire,      \* EnablementCache, toggles by tenant
    samples,       \* FailureTracker: [Detectors -> [Rules -> [time -> [evals, errors, tenants]]]]
    flagged,       \* FailureTracker._flagged
    pc, using, todo, decisions,  \* the handler of each worker
    queue,         \* messages not acknowledged
    detections,    \* pipe:detections
    toggled, failures

tables == <<status, published_at, rules, toggles, disabled, off_since, disabled_since>>
publication == <<tx, begins>>
caches == <<cache_disabled, cache_expires, cache_toggles, toggles_expire>>
tracker == <<samples, flagged>>
handler == <<pc, msg, using, todo, hits, decisions>>
vars == <<clock, tables, publication, pack, fetching, caches, tracker, handler,
          queue, detections, toggled, failures>>

Time == 0..MaxTime
NoPack == [version |-> None, rules |-> {}]
NoTx == [pack |-> None, at |-> 0, superseding |-> {}, turn |-> 0]
NoSamples == [b \in Time |-> [evals |-> 0, errors |-> 0, tenants |-> {}]]

Init ==
    /\ clock = 0
    /\ status = [p \in Packs |-> "none"]
    /\ published_at = [p \in Packs |-> 0]
    /\ rules = [p \in Packs |-> {}]
    /\ toggles = [t \in Tenants |-> [r \in Rules |-> "none"]]
    /\ disabled = {}
    /\ tx = [q \in Publishers |-> NoTx]
    /\ begins = 0
    /\ off_since = [t \in Tenants |-> [r \in Rules |-> 0]]
    /\ disabled_since = [r \in Rules |-> 0]
    /\ pack = [w \in Detectors |-> NoPack]
    /\ fetching = [w \in Detectors |-> None]
    /\ cache_disabled = [w \in Detectors |-> {}]
    /\ cache_expires = [w \in Detectors |-> 0]
    /\ cache_toggles = [w \in Detectors |-> [t \in Tenants |-> toggles[t]]]
    /\ toggles_expire = [w \in Detectors |-> [t \in Tenants |-> 0]]
    /\ samples = [w \in Detectors |-> [r \in Rules |-> NoSamples]]
    /\ flagged = [w \in Detectors |-> {}]
    /\ pc = [w \in Detectors |-> "idle"]
    /\ msg = [w \in Detectors |-> None]
    /\ using = [w \in Detectors |-> NoPack]
    /\ todo = [w \in Detectors |-> {}]
    /\ hits = [w \in Detectors |-> {}]
    /\ decisions = [w \in Detectors |-> {}]
    /\ queue = Messages
    /\ detections = {}
    /\ toggled = 0
    /\ failures = 0

-----------------------------------------------------------------------------
(* Publication and toggles *)

\* SQL_ACTIVE_PACK_VERSION: the active pack that was published last.
active_pack ==
    IF ActivePacks = {} THEN None
    ELSE CHOOSE p \in ActivePacks : \A o \in ActivePacks : published_at[o] <= published_at[p]

\* The command line: publish runs only after validate has accepted the whole pack.
Publishable == {p \in Packs : load_pack(pack_source[p], docs)}

\* publish_pack: a validated pack whose version does not exist yet.
publish_begin(q, p) ==
    /\ tx[q] = NoTx
    /\ begins < MaxPublications
    /\ status[p] = "none"
    /\ p \in Publishable
    /\ begins' = begins + 1
    /\ tx' = [tx EXCEPT ![q] = [pack |-> p, at |-> begins + 1, superseding |-> {}, turn |-> 0]]
    /\ UNCHANGED <<clock, tables, pack, fetching, caches, tracker, handler, queue,
                   detections, toggled, failures>>

\* Transactions that hold or wait for a row that q's UPDATE is about.
Rivals(q) == {o \in Publishers \ {q} : tx[o].turn > 0 /\ tx[o].superseding \cap ActivePacks # {}}

\* Mutant of publish_supersede: without the transaction the update is visible at once.
publish_supersede_mutant(q) ==
    /\ tx[q].pack # None /\ tx[q].turn = 0
    /\ tx' = [tx EXCEPT ![q].superseding = ActivePacks, ![q].turn = Cardinality(Rivals(q)) + 1]
    /\ status' = [p \in Packs |-> IF p \in ActivePacks THEN "superseded" ELSE status[p]]
    /\ UNCHANGED <<clock, published_at, rules, toggles, disabled, off_since, disabled_since,
                   begins, pack, fetching, caches, tracker, handler, queue, detections,
                   toggled, failures>>

\* SQL_SUPERSEDE_ACTIVE: the rows committed as active when the statement starts.  A row
\* another transaction has updated makes this one wait for its turn.
publish_supersede(q) ==
    /\ tx[q].pack # None /\ tx[q].turn = 0
    /\ tx' = [tx EXCEPT ![q].superseding = ActivePacks, ![q].turn = Cardinality(Rivals(q)) + 1]
    /\ UNCHANGED <<clock, tables, begins, pack, fetching, caches, tracker, handler, queue,
                   detections, toggled, failures>>

\* SQL_INSERT_PACK, SQL_INSERT_RULE, the audit row, and the commit.  A transaction that
\* fails, or meets a pack row with its version, rolls back: one that never commits.
publish_commit(q) ==
    LET p == tx[q].pack IN
    /\ p # None /\ tx[q].turn > 0
    /\ \A o \in Rivals(q) : tx[o].turn > tx[q].turn \/ tx[o].superseding \cap tx[q].superseding = {}
    /\ status[p] = "none"
    /\ status' = [o \in Packs |-> CASE o = p -> "active"
                                    [] o \in tx[q].superseding -> "superseded"
                                    [] OTHER -> status[o]]
    /\ published_at' = [published_at EXCEPT ![p] = tx[q].at]
    /\ rules' = [rules EXCEPT ![p] = pack_source[p].listed]
    /\ tx' = [tx EXCEPT ![q] = NoTx]
    /\ UNCHANGED <<clock, toggles, disabled, off_since, disabled_since, begins, pack, fetching,
                   caches, tracker, handler, queue, detections, toggled, failures>>

\* toggle_rule: only a rule of the active pack.
toggle_rule(t, r, value) ==
    /\ toggled < MaxToggles
    /\ active_pack # None /\ r \in rules[active_pack]
    /\ toggles[t][r] # value
    /\ toggles' = [toggles EXCEPT ![t][r] = value]
    /\ off_since' = [off_since EXCEPT ![t][r] = clock]
    /\ toggled' = toggled + 1
    /\ UNCHANGED <<clock, status, published_at, rules, disabled, disabled_since, publication,
                   pack, fetching, caches, tracker, handler, queue, detections, failures>>

\* No query is under way while the clock advances.
tick ==
    /\ clock < MaxTime
    /\ clock' = clock + 1
    /\ UNCHANGED <<tables, publication, pack, fetching, caches, tracker, handler, queue,
                   detections, toggled, failures>>

-----------------------------------------------------------------------------
(* A worker: its pack *)

\* PackManager.refresh, first query: the active version differs from the loaded one.
refresh(w) ==
    /\ fetching[w] = None
    /\ active_pack # None
    /\ active_pack # pack[w].version
    /\ fetching' = [fetching EXCEPT ![w] = active_pack]
    /\ UNCHANGED <<clock, tables, publication, pack, caches, tracker, handler, queue,
                   detections, toggled, failures>>

\* LoadedPack.from_rows: a rule that does not compile is left out.
from_rows(rows) == rows \ RefusedAtLoad

\* Mutant of install: the loaded version stays what it was.
install_mutant(w) ==
    /\ fetching[w] # None
    /\ pack[w].version = None
    /\ pack' = [pack EXCEPT ![w] = [version |-> fetching[w],
                                    rules |-> from_rows(rules[fetching[w]])]]
    /\ fetching' = [fetching EXCEPT ![w] = None]
    /\ UNCHANGED <<clock, tables, publication, caches, tracker, handler, queue, detections,
                   toggled, failures>>

\* Second query and swap of the pack.
install(w) ==
    /\ fetching[w] # None
    /\ pack' = [pack EXCEPT ![w] = [version |-> fetching[w],
                                    rules |-> from_rows(rules[fetching[w]])]]
    /\ fetching' = [fetching EXCEPT ![w] = None]
    /\ UNCHANGED <<clock, tables, publication, caches, tracker, handler, queue, detections,
                   toggled, failures>>

(* A worker: its handler *)

\* LoadedPack.candidates and the schema gate: rules for the event's class and version.
candidates(w, m) == {r \in pack[w].rules : applies_to(docs[r], event[m])}

\* The stream delivers a message and ensure_loaded finds a pack.
handle(w, m) ==
    /\ pc[w] = "idle"
    /\ m \in queue
    /\ \A v \in Detectors : msg[v] # m
    /\ pack[w].version # None
    /\ msg' = [msg EXCEPT ![w] = m]
    /\ using' = [using EXCEPT ![w] = pack[w]]
    /\ todo' = [todo EXCEPT ![w] = candidates(w, m)]
    /\ hits' = [hits EXCEPT ![w] = {}]
    /\ decisions' = [decisions EXCEPT ![w] = {}]
    /\ pc' = [pc EXCEPT ![w] = "evaluate"]
    /\ UNCHANGED <<clock, tables, publication, pack, fetching, caches, tracker, queue,
                   detections, toggled, failures>>

\* No pack was ever published: the message is acknowledged unevaluated.
skip(w, m) ==
    /\ pc[w] = "idle"
    /\ m \in queue
    /\ \A v \in Detectors : msg[v] # m
    /\ pack[w].version = None /\ fetching[w] = None /\ active_pack = None
    /\ queue' = queue \ {m}
    /\ UNCHANGED <<clock, tables, publication, pack, fetching, caches, tracker, handler,
                   detections, toggled, failures>>

\* EnablementCache.runtime_disabled: read again when the time is over.
runtime_disabled(w) == IF clock >= cache_expires[w] THEN disabled ELSE cache_disabled[w]

\* Mutant of tenant_toggles: an overlay is used once more at the moment it expires.
tenant_toggles_mutant(w, t) ==
    IF clock > toggles_expire[w][t] \/ toggles_expire[w][t] = 0 THEN toggles[t] ELSE cache_toggles[w][t]

\* EnablementCache.tenant_toggles.
tenant_toggles(w, t) == IF clock >= toggles_expire[w][t] THEN toggles[t] ELSE cache_toggles[w][t]

\* EnablementCache.is_enabled: a runtime disable beats any toggle, a toggle the default.
is_enabled(w, t, r) ==
    /\ r \notin runtime_disabled(w)
    /\ \/ tenant_toggles(w, t)[r] = "on"
       \/ tenant_toggles(w, t)[r] = "none" /\ r \in enabled_default[using[w].version]

\* What is_enabled leaves in the caches: the toggles are not read for a disabled rule.
FillCaches(w, t, r) ==
    /\ cache_disabled' = [cache_disabled EXCEPT ![w] = runtime_disabled(w)]
    /\ cache_expires' = [cache_expires EXCEPT ![w] = IF clock >= @ THEN clock + OverlayTTL ELSE @]
    /\ IF r \in runtime_disabled(w) THEN UNCHANGED <<cache_toggles, toggles_expire>>
       ELSE /\ cache_toggles' = [cache_toggles EXCEPT ![w][t] = tenant_toggles(w, t)]
            /\ toggles_expire' = [toggles_expire EXCEPT ![w][t] =
                                    IF clock >= @ THEN clock + OverlayTTL ELSE @]

\* FailureTracker.record: the counts of the window, this evaluation included.
InWindow == {b \in Time : b >= clock - Window /\ b <= clock}

Total(s, f(_)) ==
    LET sum[b \in -1..MaxTime] == IF b = -1 THEN 0
                                  ELSE sum[b - 1] + IF b \in InWindow THEN f(s[b]) ELSE 0
    IN  sum[MaxTime]

Evals(x) == x.evals
Errors(x) == x.errors

OverThreshold(s) ==
    /\ Total(s, Evals) >= MinSamples
    /\ Total(s, Errors) * FractionDen >= Total(s, Evals) * FractionNum
    /\ Cardinality(UNION {s[b].tenants : b \in InWindow}) >= MinTenants

record(w, r, t, error) ==
    LET s == [samples[w][r] EXCEPT ![clock] =
                [evals |-> @.evals + 1,
                 errors |-> @.errors + IF error THEN 1 ELSE 0,
                 tenants |-> @.tenants \cup IF error THEN {t} ELSE {}]]
        decides == error /\ r \notin flagged[w] /\ OverThreshold(s)
    IN  /\ samples' = [samples EXCEPT ![w][r] = s]
        /\ flagged' = [flagged EXCEPT ![w] = @ \cup IF decides THEN {r} ELSE {}]
        /\ decisions' = [decisions EXCEPT ![w] = @ \cup IF decides THEN {r} ELSE {}]

\* evaluate_event, the next rule: its gates, its evaluation (which fails only this
\* rule), the tracker.
evaluate(w) ==
    /\ pc[w] = "evaluate"
    /\ todo[w] # {}
    /\ LET r == CHOOSE x \in todo[w] : \A y \in todo[w] : x <= y
           t == tenant_of[msg[w]]
           e == event[msg[w]]
       IN
       /\ FillCaches(w, t, r)
       /\ todo' = [todo EXCEPT ![w] = @ \ {r}]
       /\ \/ /\ ~ is_enabled(w, t, r)
             /\ UNCHANGED <<tracker, hits, decisions>>
          \/ /\ is_enabled(w, t, r)
             /\ may_time_out(docs[r], e)
             /\ record(w, r, t, TRUE)
             /\ UNCHANGED hits
          \/ /\ is_enabled(w, t, r)
             /\ record(w, r, t, FALSE)
             /\ hits' = [hits EXCEPT ![w] = @ \cup
                           IF matches_condition(docs[r], e) THEN {r} ELSE {}]
    /\ UNCHANGED <<clock, tables, publication, pack, fetching, pc, msg, using, queue,
                   detections, toggled, failures>>

\* One XADD to pipe:detections for each hit (detection_payload).
publish_hit(w, r) ==
    /\ pc[w] = "evaluate" /\ todo[w] = {}
    /\ r \in hits[w]
    /\ detections' = detections \cup
          {[message |-> msg[w], rule |-> r, pack |-> using[w].version,
            key |-> entity_key(docs[r], event[msg[w]])]}
    /\ hits' = [hits EXCEPT ![w] = @ \ {r}]
    /\ UNCHANGED <<clock, tables, publication, pack, fetching, caches, tracker, pc, msg, using,
                   todo, decisions, queue, toggled, failures>>

\* _apply_runtime_disable: the row (ON CONFLICT DO NOTHING), then the local cache.
apply_runtime_disable(w, r) ==
    /\ pc[w] = "evaluate" /\ todo[w] = {} /\ hits[w] = {}
    /\ r \in decisions[w]
    /\ disabled' = disabled \cup {r}
    /\ disabled_since' = [disabled_since EXCEPT ![r] = IF r \in disabled THEN @ ELSE clock]
    /\ cache_disabled' = [cache_disabled EXCEPT ![w] = @ \cup {r}]
    /\ decisions' = [decisions EXCEPT ![w] = @ \ {r}]
    /\ UNCHANGED <<clock, status, published_at, rules, toggles, off_since, publication, pack,
                   fetching, cache_expires, cache_toggles, toggles_expire, tracker, pc, msg,
                   using, todo, hits, queue, detections, toggled, failures>>

\* The handler returns and the message is acknowledged.
finish(w) ==
    /\ pc[w] = "evaluate" /\ todo[w] = {} /\ hits[w] = {} /\ decisions[w] = {}
    /\ queue' = queue \ {msg[w]}
    /\ pc' = [pc EXCEPT ![w] = "idle"]
    /\ msg' = [msg EXCEPT ![w] = None]
    /\ using' = [using EXCEPT ![w] = NoPack]
    /\ UNCHANGED <<clock, tables, publication, pack, fetching, caches, tracker, todo,
                   hits, decisions, detections, toggled, failures>>

\* A query or an XADD raises: the message stays pending, the worker's memory stays.
fail(w) ==
    /\ pc[w] = "evaluate"
    /\ failures < MaxFailures
    /\ failures' = failures + 1
    /\ pc' = [pc EXCEPT ![w] = "idle"]
    /\ msg' = [msg EXCEPT ![w] = None]
    /\ using' = [using EXCEPT ![w] = NoPack]
    /\ todo' = [todo EXCEPT ![w] = {}]
    /\ hits' = [hits EXCEPT ![w] = {}]
    /\ decisions' = [decisions EXCEPT ![w] = {}]
    /\ UNCHANGED <<clock, tables, publication, pack, fetching, caches, tracker, queue,
                   detections, toggled>>

-----------------------------------------------------------------------------
WorkerStep(w) ==
    \/ refresh(w)
    \/ install(w)
    \/ \E m \in Messages : handle(w, m) \/ skip(w, m)
    \/ evaluate(w)
    \/ \E r \in Rules : publish_hit(w, r) \/ apply_runtime_disable(w, r)
    \/ finish(w)

Next ==
    \/ \E q \in Publishers : \/ \E p \in Packs : publish_begin(q, p)
                             \/ publish_supersede(q)
                             \/ publish_commit(q)
    \/ \E i \in ToggleInputs : toggle_rule(i[1], i[2], i[3])
    \/ tick
    \/ \E w \in Detectors : WorkerStep(w) \/ fail(w)

Spec == Init /\ [][Next]_vars

\* The poll task of a worker runs every poll interval and its queries end.
FairSpec == Spec /\ \A w \in Detectors : WF_vars(refresh(w)) /\ WF_vars(install(w))

-----------------------------------------------------------------------------
(* Properties *)

TypeOK ==
    /\ clock \in Time
    /\ status \in [Packs -> {"none", "active", "superseded"}]
    /\ rules \in [Packs -> SUBSET Rules]
    /\ toggles \in [Tenants -> [Rules -> {"none", "on", "off"}]]
    /\ disabled \subseteq Rules
    /\ pack \in [Detectors -> [version : Packs \cup {None}, rules : SUBSET Rules]]
    /\ fetching \in [Detectors -> Packs \cup {None}]
    /\ flagged \in [Detectors -> SUBSET Rules]
    /\ pc \in [Detectors -> {"idle", "evaluate"}]
    /\ msg \in [Detectors -> Messages \cup {None}]
    /\ queue \subseteq Messages

\* AC-39: every detector ends with the pack that was published last.
PackEventuallyLoaded ==
    <>[](active_pack # None => \A w \in Detectors : pack[w].version = active_pack)
=============================================================================
