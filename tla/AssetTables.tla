----------------------------- MODULE AssetTables -----------------------------
(***************************************************************************)
(* The tables of the asset inventory of one tenant and what has to be true *)
(* of them: assets, asset_identities, asset_identity_pins and devices      *)
(* (migrations/0004_tenantdata_core.sql).  Inventory has the transactions  *)
(* that write them.                                                        *)
(***************************************************************************)
EXTENDS Integers, FiniteSets

CONSTANTS
    Machines,
    Devices,        \* device_ids the server may hand out
    host_of,        \* [Machines -> host names]
    mac_of,         \* [Machines -> MAC addresses or None]
    EndpointCap,    \* entitlements.endpoint_cap
    None,
    MaxAssets       \* bound: assets ever created

VARIABLES
    asset,       \* [Assets -> AssetRow \cup {None}]
    identity,    \* asset_identities: [Identifiers -> Assets \cup {None}]
    pin,         \* asset_identity_pins: [Identifiers -> Assets \cup {None}]
    device,      \* devices: [Devices -> DeviceRow \cup {None}]
    strays,      \* history: assets the matcher created, or wrote after they were merged away,
                 \* on reads that another commit had outdated
    corrections, \* merges and splits made by hand
    silences     \* assets and devices that ceased to be seen

Assets == 1..MaxAssets

Names == {host_of[m] : m \in Machines} \cup ({mac_of[m] : m \in Machines} \ {None})

Identifiers == Devices \cup Names

AgentStatus == {"enrolled", "healthy", "offline", "revoked", "none"}

AssetRow ==
    [state : {"active", "merged"}, agent_status : AgentStatus, billable : BOOLEAN,
     recent : BOOLEAN, created_via : {"agent_enrollment", "log_ingest", "manual_split"}]

DeviceRow ==
    [machine : Machines, asset : Assets, status : {"active", "revoked"},
     beat : {"none", "fresh", "late"}]

Existing == {a \in Assets : asset[a] # None}

Active == {a \in Existing : asset[a].state = "active"}

\* _BILLABLE_COUNT_SQL
billable_count ==
    Cardinality({a \in Active : asset[a].agent_status # "revoked" /\ asset[a].recent})

-----------------------------------------------------------------------------
\* A manual correction is never undone by the matcher: the asset an identifier is
\* pinned to is the one its identity row names, whatever merges, splits and
\* observations follow (asset_dedup.py:10-12, assets.py:248-265 and 382-402).
PinsWin == \A i \in Identifiers : pin[i] # None => identity[i] = pin[i]

\* The row of a device and its device_id identity name the same asset, so that a
\* heartbeat or a revocation changes the asset the console shows for the device;
\* and without a manual correction two devices never share an asset (AC-23).
DeviceRowAgrees ==
    /\ \A d \in Devices : device[d] # None => device[d].asset = identity[d]
    /\ corrections = 0 =>
         \A d, f \in Devices : identity[d] = identity[f] => d = f \/ identity[d] = None

\* A write half that runs on outdated reads harms at most the asset it makes, or the
\* merged one it writes to: every identifier is bound to an active asset or to such a
\* stray, and without a correction every other active asset is still found by one of
\* its identifiers (asset_dedup.py:177-205).
OverlapConfined ==
    /\ \A i \in Identifiers : identity[i] # None => identity[i] \in Active \cup strays
    /\ corrections = 0 =>
         \A a \in Active \ strays : \E i \in Identifiers : identity[i] = a

\* While all assets come from enrollments, none has lapsed and none was corrected,
\* concurrent enrollments do not exceed the endpoint cap (AC-14, enrollment.py:288-303).
EnrollmentsWithinCap ==
    /\ \A a \in Existing : asset[a].created_via = "agent_enrollment"
    /\ silences = 0
    /\ corrections = 0
    => billable_count <= EndpointCap

==============================================================================
