----------------------- MODULE MCCommissionRunner -----------------------
EXTENDS CommissionRunner

\* read_<slug> and set_<slug> are all a protocol class decides about a tool.
ReadOrSet == {"sensor", "output"}
=============================================================================
