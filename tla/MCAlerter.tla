------------------------------ MODULE MCAlerter ------------------------------
(***************************************************************************)
(* Alerter on small instances.                                             *)
(***************************************************************************)
EXTENDS Alerter, TLC

CONSTANTS h1, h2, h3, h4

\* Rule r1 fires for one user at 1 and at 4 (in units of 30 minutes): taken in
\* this order the second hit finds the window expired, in the other order the
\* first is a late event of an open alert.  Rule r2 fires on the same host.  The
\* fourth hit is malformed.
MCRule == h1 :> "r1" @@ h2 :> "r1" @@ h3 :> "r2" @@ h4 :> "r2"
MCEntity == [h \in {h1, h2, h3, h4} |-> "u"]
MCHost == [h \in {h1, h2, h3, h4} |-> "host"]
MCTime == h1 :> 1 @@ h2 :> 4 @@ h3 :> 1 @@ h4 :> 1
=============================================================================
