----------------------- MODULE MCCommissionService -----------------------
EXTENDS CommissionService

CONSTANTS ldr, dht, buzzer
=============================================================================
