----------------------------- MODULE MCCitadeld -----------------------------
EXTENDS Citadeld

CONSTANTS b1, b2

MCBinders == {b1, b2}
=============================================================================
