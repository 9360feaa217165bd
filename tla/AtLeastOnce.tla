----------------------------- MODULE AtLeastOnce -----------------------------
(***************************************************************************)
(* What the pipeline transport promises to its users (ADR-0004): a message *)
(* leaves the queue only when its effect is complete (its handler returned *)
(* or it was stored in the dead-letter table) or when the length cap of    *)
(* the stream dropped it.  The effect of one message may take place more   *)
(* than once, and even after the message was settled.                      *)
(***************************************************************************)
CONSTANT Messages

VARIABLES
    sent,      \* messages published
    effected,  \* messages handled or dead-lettered at least once
    expired,   \* messages dropped by the length cap of the stream
    settled    \* messages the queue will not deliver again

vars == <<sent, effected, expired, settled>>

TypeOK ==
    /\ sent \subseteq Messages
    /\ effected \subseteq sent
    /\ expired \subseteq sent
    /\ settled \subseteq sent

Init ==
    /\ sent = {}
    /\ effected = {}
    /\ expired = {}
    /\ settled = {}

\* Publishing a message may push old ones out of the stream.
Send ==
    /\ \E m \in Messages \ sent : sent' = sent \cup {m}
    /\ expired \subseteq expired'
    /\ expired' \subseteq sent'
    /\ UNCHANGED <<effected, settled>>

Effect ==
    /\ \E m \in sent : effected' = effected \cup {m}
    /\ UNCHANGED <<sent, expired, settled>>

Settle ==
    /\ settled \subseteq settled'
    /\ settled' \subseteq settled \cup effected \cup expired
    /\ UNCHANGED <<sent, effected, expired>>

Next == Send \/ Effect \/ Settle

Spec == Init /\ [][Next]_vars
=============================================================================
