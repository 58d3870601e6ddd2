----------------------------- MODULE MCLogNotify -----------------------------
EXTENDS LogNotify
=============================================================================
