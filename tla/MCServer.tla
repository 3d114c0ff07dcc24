------------------------------ MODULE MCServer ------------------------------
EXTENDS Server

CONSTANTS r1, r2
=============================================================================
