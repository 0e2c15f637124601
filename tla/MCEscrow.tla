------------------------------ MODULE MCEscrow ------------------------------
\* Escrow at the ends of its ranges.
EXTENDS Escrow
=============================================================================
