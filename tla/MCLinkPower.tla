----------------------------- MODULE MCLinkPower -----------------------------
EXTENDS LinkPower
=============================================================================
