-------------------------- MODULE MCSeedanceQueue --------------------------
EXTENDS SeedanceQueue
=============================================================================
