------------------------------ MODULE MCMission ------------------------------
EXTENDS ProgressInvariant
=============================================================================
