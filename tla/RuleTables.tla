----------------------------- MODULE RuleTables -----------------------------
(***************************************************************************)
(* The tables rule_packs, rules, rule_toggles and rule_runtime_disables    *)
(* (migrations/0006_rules_dlq_metering.sql), what each detector worker     *)
(* holds of them, and what has to be true of the two.  Detector has the    *)
(* publications, the toggles and the workers.                              *)
(***************************************************************************)
EXTENDS Integers

CONSTANTS
    Detectors,            \* detector workers
    Packs, pack_source,   \* [Packs -> pack directory]
    RefusedAtLoad,        \* rules this build of the detector cannot compile
    tenant_of,            \* the tenant of a message
    OverlayTTL,
    None

VARIABLES
    clock,
    status,     \* rule_packs.status: [Packs -> {"none", "active", "superseded"}]
    rules,      \* rows of tenantdata.rules: [Packs -> SUBSET Rules]
    toggles,    \* rule_toggles: [Tenants -> [Rules -> {"none", "on", "off"}]]
    disabled,   \* rule_runtime_disables
    off_since, disabled_since,  \* history: when a row last took its present value
    pack,       \* PackManager._pack: [version, rules], version None before the first
    msg,        \* the message each worker handles
    hits        \* the rules it has found to match

ActivePacks == {p \in Packs : status[p] = "active"}

-----------------------------------------------------------------------------
\* SEC-27: publications that overlap, and one that fails half way, never leave a
\* reader without an active pack or with a part of one, and no detector holds one.
ReaderFindsWholePack ==
    /\ (\E p \in Packs : status[p] # "none") => ActivePacks # {}
    /\ \A p \in Packs : status[p] # "none" => rules[p] = pack_source[p].listed
    /\ \A w \in Detectors : pack[w].version # None =>
          pack[w].rules = pack_source[pack[w].version].listed \ RefusedAtLoad

\* AC-38, SEC-28(c): a hit of a rule that is switched off for the tenant, or disabled
\* at run time, is only found while an overlay read before the change has not expired.
SwitchedOffWithinTTL ==
    [][\A w \in Detectors : \A r \in hits'[w] \ hits[w] :
          LET t == tenant_of[msg[w]] IN
          /\ toggles[t][r] = "off" => clock < off_since[t][r] + OverlayTTL
          /\ r \in disabled => clock < disabled_since[r] + OverlayTTL]_hits

=============================================================================
