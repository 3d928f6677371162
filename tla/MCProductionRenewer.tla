------------------------- MODULE MCProductionRenewer -------------------------
EXTENDS ProductionRenewer
=============================================================================
