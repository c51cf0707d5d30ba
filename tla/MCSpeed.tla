------------------------------ MODULE MCSpeed ------------------------------
EXTENDS SpeedScale
=============================================================================
