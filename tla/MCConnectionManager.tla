------------------------ MODULE MCConnectionManager ------------------------
EXTENDS ConnectionManager, TLC
=============================================================================
