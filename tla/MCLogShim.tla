------------------------------ MODULE MCLogShim ------------------------------
EXTENDS LogShim

\* The command ends with an error, or killed by a signal.
MCCodes == {7, -1}

\* One stream overflows the read buffer, the other only competes for the mutex.
MCMaxItems == [s \in Streams |-> IF s = "stdout" THEN 3 ELSE 1]

\* Enough to lose one item of each stream.
MCOneItem == [s \in Streams |-> 1]
=============================================================================
