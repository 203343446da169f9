------------------------------- MODULE MCRunPlan -------------------------------
EXTENDS RunPlan
=============================================================================
