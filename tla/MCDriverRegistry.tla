----------------------- MODULE MCDriverRegistry -----------------------
EXTENDS DriverRegistry, TLC

CONSTANTS pilot, mcp

\* The callers of perform_read are interchangeable.
ToolSymmetry == Permutations(Tools)
=============================================================================
