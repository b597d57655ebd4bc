---------------------------- MODULE MCOwnerChannel ----------------------------
EXTENDS OwnerChannel
=============================================================================
