----------------------------- MODULE MCGcmCore ------------------------------
EXTENDS GcmCore, TLC
=============================================================================
