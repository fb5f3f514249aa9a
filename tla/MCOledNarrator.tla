------------------------ MODULE MCOledNarrator ------------------------
EXTENDS OledNarrator
=============================================================================
