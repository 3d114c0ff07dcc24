------------------------------- MODULE MCExec -------------------------------
EXTENDS Exec

CONSTANT c1

MCKinds == [c \in Calls |-> {"sync", "pipe", "tty"}]
=============================================================================
