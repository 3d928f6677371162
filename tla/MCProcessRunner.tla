--------------------------- MODULE MCProcessRunner ---------------------------
EXTENDS ProcessRunner
=============================================================================
