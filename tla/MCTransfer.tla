----------------------------- MODULE MCTransfer -----------------------------
EXTENDS Transfer

CONSTANTS l1, l2
MCLayers == <<l1, l2>>
=============================================================================
