------------------------------ MODULE MCOutbox ------------------------------
EXTENDS Outbox

CONSTANTS r1, r2

=============================================================================
