------------------------- MODULE MCPersistenceTest -------------------------
EXTENDS PersistenceTest

AllFaults == KnownFaults
=============================================================================
