------------------------------ MODULE MCLWLock ------------------------------
\* LWLock for three processes.
EXTENDS LWLock
=============================================================================
