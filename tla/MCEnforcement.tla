---------------------------- MODULE MCEnforcement ----------------------------
EXTENDS Enforcement, TLC

CONSTANTS s1, s2

\* s1 uses up the budget of its profile, and with it the budget of all.
Profiles == [s \in Sessions |-> IF s = s1 THEN 1 ELSE 0]
Uses == [s \in Sessions |-> IF s = s1 THEN 1 ELSE 0]
=============================================================================
