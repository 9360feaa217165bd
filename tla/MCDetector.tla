----------------------------- MODULE MCDetector -----------------------------
(* Rules 1 and 2 are ordinary, 3 has a regex, 4 names a field outside the allowlist.
   Pack "v3" is refused.  Two tenants send an event that all rules of its class match. *)
EXTENDS Detector

Str(s) == [type |-> "str", v |-> s]
Leaf(f, o, vs) == [kind |-> "leaf", field |-> f, op |-> o, values |-> vs]

MCNodes == 1..7
MCnode == <<Leaf("process.name", "iequals", {Str("cmd")}),
            [kind |-> "all", children |-> {3, 4}],
            Leaf("user.name", "exists", {}),
            [kind |-> "not", children |-> {5}],
            Leaf("user.name", "istartswith", {Str("svc")}),
            Leaf("process.name", "regex", {Str("cm")}),
            Leaf("tenant_id", "exists", {})>>
MCStrings == {"cmd", "CMD", "svc", "cm", "bob"}
MCcasefold == [s \in MCStrings |-> IF s = "CMD" THEN "cmd" ELSE s]
MCTests == [o \in {"contains", "startswith", "endswith", "icontains", "istartswith",
                   "iendswith", "regex"} |->
              {<<s, s>> : s \in MCStrings} \cup
              IF o \in {"endswith", "iendswith"} THEN {} ELSE {<<"cmd", "cm">>}]

Doc(n) == [wellformed |-> TRUE, event_class |-> "process_activity", min_schema |-> <<1, 0, 0>>,
           entity |-> <<"process.name", "user.name">>, condition |-> n]
MCdocs == <<Doc(1), Doc(2), Doc(6), Doc(7)>>

Event(c, f) == [class |-> c, schema |-> <<1, 1, 0>>, fields |-> f]
Run == Event("process_activity", [x \in {"process.name", "user.name"} |->
                         IF x = "process.name" THEN Str("cmd") ELSE Str("bob")])
Other == Event("process_activity", [x \in {"user.name"} |-> Str("svc")])

Cases == [must_match |-> {Run}, must_not_match |-> {Other}]
Source(S) == [wellformed |-> TRUE, listed |-> S, files |-> S, fixtures |-> [r \in S |-> Cases]]
MCPacks == {"v1", "v2", "v3"}
MCsource == [p \in MCPacks |-> CASE p = "v1" -> Source({3})
                                 [] p = "v2" -> Source({2, 3})
                                 [] p = "v3" -> Source({1, 4})]
MCdefault == [p \in MCPacks |-> {1, 2, 3}]
MCToggles == {<<"b", 3, "off">>}
MCevent == <<Run, Run, Other>>
MCtenant == <<"a", "b", "b">>
=============================================================================
