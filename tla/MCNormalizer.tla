----------------------------- MODULE MCNormalizer -----------------------------
(***************************************************************************)
(* Normalizer on small instances.  Batch b1 holds a malformed event, an    *)
(* event and its repetition; batch b2 holds a resent copy of that event    *)
(* and an event without a source id.                                       *)
(***************************************************************************)
EXTENDS Normalizer, TLC

MCBatches == {"b1", "b2"}
MCEvents == {"bad", "login", "repeat", "resent", "anonymous"}
MCevents == "b1" :> {"bad", "login", "repeat"} @@ "b2" :> {"resent", "anonymous"}
MCsource == [e \in MCEvents |-> IF e \in {"login", "repeat", "resent"} THEN "id" ELSE e]
MCmonth == [e \in MCEvents |-> 1]
===============================================================================
