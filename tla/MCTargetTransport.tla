---------------------------- MODULE MCTargetTransport ----------------------------
EXTENDS TargetTransport

MCPlans == {CapturePlan, SnapshotPlan, ServicePlan, PreflightPlan}

=============================================================================
