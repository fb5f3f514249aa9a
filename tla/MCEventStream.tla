------------------------ MODULE MCEventStream ------------------------
EXTENDS EventStream

CONSTANTS oled, shtc3
======================================================================
