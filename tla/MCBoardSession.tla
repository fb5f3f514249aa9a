--------------------------- MODULE MCBoardSession ---------------------------
EXTENDS BoardSession, TLC

CONSTANTS tool, scan, commission, commission2

\* Two commissions are interchangeable in the safety runs.
OwnerSymmetry == Permutations(Owners)
=============================================================================
