---------------------------- MODULE RuleCompiler ----------------------------
(***************************************************************************)
(* The rule language of a pack: compiling a rule document and evaluating   *)
(* it on an event (services/dataplane/src/dataplane/rulepub/compiler.py),  *)
(* and the validation of a whole pack (packio.py).                         *)
(*                                                                         *)
(* A scalar is [type, v] with type "str", "num" or "bool"; an event maps   *)
(* the field paths it has to scalars (or to a value of type "null" or      *)
(* "object").  A condition tree is a set of Nodes: node[n] is a leaf       *)
(* [kind, field, op, values] or [kind, children].  Strings are model       *)
(* values; folding and the string tests are relations between them.        *)
(***************************************************************************)
EXTENDS Integers, FiniteSets, Sequences, TLC

CONSTANTS
    Nodes, node,
    Strings, casefold,    \* [Strings -> Strings]
    StringTests,          \* op name -> pairs <<haystack, needle>> that pass it
    RE2,                  \* patterns of the allowed subset that compile
    FieldKeys,            \* paths fields.<key> of generic events
    MAX_TREE_DEPTH, MAX_LEAVES, MAX_CHILDREN, MAX_LIST_ENTRIES

ASSUME BoundsAssumption ==
    {MAX_TREE_DEPTH, MAX_LEAVES, MAX_CHILDREN, MAX_LIST_ENTRIES} \subseteq Nat \ {0}

Unresolved == [type |-> "unresolved", v |-> 0]

\* resolve_path: absent, null, object and array values do not resolve.
resolve_path(event, path) ==
    IF path \in DOMAIN event /\ event[path].type \in {"str", "num", "bool"}
    THEN event[path] ELSE Unresolved

\* _scalar_equals: no coercion between types.
scalar_equals(x, y) == x.type = y.type /\ x.v = y.v

IsStr(x) == x.type = "str"

CaseOps == {"icontains", "istartswith", "iendswith"}
StringOps == CaseOps \cup {"contains", "startswith", "endswith"}
NumericOps == {"gt", "gte", "lt", "lte"}

\* _ENVELOPE_MATCHABLE and _CLASS_MATCHABLE: the paths a rule may name.
EnvelopeMatchable ==
    {"activity", "event_time", "time_inferred", "source_type", "source_event_id", "severity_hint",
     "host.hostname", "host.os_family", "host.os_name", "host.os_version", "host.ip", "host.mac",
     "source.vendor", "source.product", "source.agent_version"}
UserFields == {"user.name", "user.domain", "user.uid"}
ProcessFields == {"process.pid", "process.name", "process.exe_path"}
ClassMatchable ==
    [process_activity |-> UserFields \cup ProcessFields \cup
        {"process.cmd_line", "process.sha256", "process.created_time", "parent.pid",
         "parent.name", "parent.exe_path", "exit_code"},
     network_activity |-> UserFields \cup ProcessFields \cup
        {"direction", "protocol", "src.ip", "src.port", "dst.ip", "dst.port", "dst.hostname",
         "bytes_sent", "bytes_received"},
     authentication |-> UserFields \cup
        {"status", "logon_type", "src_ip", "session_id", "failure_reason"},
     generic |-> FieldKeys \cup {"message", "category", "raw_truncated"}]

\* validate_field_path.  The paths of tenants, ids and raw data are in neither set.
validate_field_path(path, class) == path \in EnvelopeMatchable \cup ClassMatchable[class]

\* _validate_re2_subset: length, forbidden constructs, and a pattern that compiles.
validate_re2_subset(pattern) == pattern \in RE2

\* What _check_string_value, _string_or_list and _check_scalar_value accept as the
\* values of an operator (a scalar is a list of one).
ValuesFit(n) ==
    LET vs == node[n].values IN
    /\ node[n].op = "exists" => vs = {}
    /\ node[n].op # "exists" => vs # {} /\ Cardinality(vs) <= MAX_LIST_ENTRIES
    /\ node[n].op \in {"equals", "iequals", "regex"} \cup NumericOps => Cardinality(vs) = 1
    /\ node[n].op \in StringOps \cup {"iequals", "iin", "regex"} => \A x \in vs : IsStr(x)
    /\ node[n].op \in NumericOps => \A x \in vs : x.type = "num"
    /\ node[n].op = "regex" => \A x \in vs : validate_re2_subset(x.v)

\* _compile_leaf, its checks: known operator, allowed field, fitting values.
leaf_compiles(n, class) ==
    /\ node[n].op \in StringOps \cup NumericOps \cup
                      {"exists", "equals", "iequals", "in", "iin", "regex"}
    /\ validate_field_path(node[n].field, class)
    /\ ValuesFit(n)

\* _compile_leaf, the predicate: an unresolved field fails every operator.
leaf_holds(n, event) ==
    LET x    == resolve_path(event, node[n].field)
        op   == node[n].op
        vs   == node[n].values
        Num(y) == CASE op = "gt"  -> x.v > y.v
                    [] op = "gte" -> x.v >= y.v
                    [] op = "lt"  -> x.v < y.v
                    [] op = "lte" -> x.v <= y.v
    IN  CASE op = "exists" -> x # Unresolved
          [] op \in {"equals", "in"} -> \E y \in vs : scalar_equals(x, y)
          [] op \in {"iequals", "iin"} ->
                IsStr(x) /\ \E y \in vs : casefold[x.v] = casefold[y.v]
          [] op \in CaseOps ->
                IsStr(x) /\ \E y \in vs : <<casefold[x.v], casefold[y.v]>> \in StringTests[op]
          [] op \in (StringOps \ CaseOps) \cup {"regex"} ->
                IsStr(x) /\ \E y \in vs : <<x.v, y.v>> \in StringTests[op]
          [] op \in NumericOps -> x.type = "num" /\ \E y \in vs : Num(y)

leaves_of[n \in Nodes] ==
    IF node[n].kind = "leaf" THEN {n} ELSE UNION {leaves_of[c] : c \in node[n].children}

\* _compile_node: one key of field, all, any and not; depth and children bounded.
node_compiles(class) ==
    LET ok[n \in Nodes, d \in 1..(MAX_TREE_DEPTH + 1)] ==
          /\ d <= MAX_TREE_DEPTH
          /\ IF node[n].kind = "leaf" THEN leaf_compiles(n, class)
             ELSE /\ node[n].children # {}
                  /\ Cardinality(node[n].children) <= IF node[n].kind = "not" THEN 1 ELSE MAX_CHILDREN
                  /\ \A c \in node[n].children : ok[c, d + 1]
    IN  ok

\* The predicate _compile_node returns.
node_holds(event) ==
    LET holds[n \in Nodes] ==
          CASE node[n].kind = "leaf" -> leaf_holds(n, event)
            [] node[n].kind = "not"  -> \A c \in node[n].children : ~ holds[c]
            [] node[n].kind = "all"  -> \A c \in node[n].children : holds[c]
            [] node[n].kind = "any"  -> \E c \in node[n].children : holds[c]
    IN  holds

\* schema_version_applies: same major, not older than the rule's minimum.
schema_version_applies(min, v) ==
    /\ v[1] = min[1]
    /\ v[2] > min[2] \/ (v[2] = min[2] /\ v[3] >= min[3])

\* compile_rule.  doc.wellformed: keys, id, semver, severity and technique formats.
compile_rule(doc) ==
    /\ doc.wellformed
    /\ Len(doc.entity) \in 1..4
    /\ \A i \in DOMAIN doc.entity : validate_field_path(doc.entity[i], doc.event_class)
    /\ node_compiles(doc.event_class)[doc.condition, 1]
    /\ Cardinality(leaves_of[doc.condition]) <= MAX_LEAVES

\* CompiledRule.applies_to: class and schema version of the event.
applies_to(doc, event) ==
    event.class = doc.event_class /\ schema_version_applies(doc.min_schema, event.schema)

\* CompiledRule.matches_condition.
matches_condition(doc, event) == node_holds(event.fields)[doc.condition]

\* CompiledRule.evaluate: the gates and the condition, what a fixture checks.
rule_matches(doc, event) == applies_to(doc, event) /\ matches_condition(doc, event)

\* _regex_search_guarded: a regex on a string may run into its time limit.
may_time_out(doc, event) ==
    \E n \in leaves_of[doc.condition] :
        node[n].op = "regex" /\ IsStr(resolve_path(event.fields, node[n].field))

\* fold_entity_value: folded string, decimal number, "true" or "false", or "".
fold_entity_value(x) ==
    CASE x.type = "str"  -> casefold[x.v]
      [] x.type = "num"  -> ToString(x.v)
      [] x.type = "bool" -> IF x.v THEN "true" ELSE "false"
      [] OTHER           -> ""

\* CompiledRule.entity_key: the folded values in their declared order.
entity_key(doc, event) ==
    [i \in DOMAIN doc.entity |-> fold_entity_value(resolve_path(event.fields, doc.entity[i]))]

-----------------------------------------------------------------------------
(* packio.py.  A pack is [wellformed, listed, files, fixtures]: the manifest's
   rules, the rule files of the directory, and the cases of each rule, with the
   events a rule must match and must not match. *)

\* _validate_fixture and run_rule_fixture.
fixture_passes(doc, fixture) ==
    /\ fixture.must_match # {} /\ fixture.must_not_match # {}
    /\ \A e \in fixture.must_match : rule_matches(doc, e)
    /\ \A e \in fixture.must_not_match :
          e.class = doc.event_class /\ ~ rule_matches(doc, e)

\* _parse_manifest: keys and versions, a list of distinct rules that is not empty.
parse_manifest(pack) == pack.wellformed /\ pack.listed # {}

\* load_pack: one bad rule rejects the pack.
load_pack(pack, docs) ==
    /\ parse_manifest(pack)
    /\ pack.files = pack.listed
    /\ \A r \in pack.listed :
          /\ r \in DOMAIN pack.fixtures
          /\ compile_rule(docs[r])
          /\ fixture_passes(docs[r], pack.fixtures[r])
=============================================================================
