---------------------------- MODULE MCLifecycle ----------------------------
(* Instance of Lifecycle: one trial that ends on day 0 in the last month of a
   year; months of one day, the trial's retention shorter than that of the
   paid plan, which has none configured. *)
EXTENDS Lifecycle

MCTrialEnd == [t \in Tenants |-> 0]

MCPlanRetention == [p \in {"trial"} |-> 0]

MCOverride == [t \in {} |-> 0]

=============================================================================
