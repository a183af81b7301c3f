------------------------------ MODULE MCEvtRequest ------------------------------
EXTENDS EvtRequest
=============================================================================
