---------------------------- MODULE MCProcessScan ----------------------------
EXTENDS ProcessScan
=============================================================================
