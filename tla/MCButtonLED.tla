----------------------------- MODULE MCButtonLED -----------------------------
EXTENDS ButtonLED
=============================================================================
