-------------------------- MODULE MCDocumentStore --------------------------
EXTENDS DocumentStore

CONSTANTS d1, d2
=============================================================================
