------------------------------ MODULE MCStream ------------------------------
EXTENDS StreamProps

CONSTANTS x, y

MCAccounts == <<x, y>>
=============================================================================
