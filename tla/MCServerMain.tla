---------------------------- MODULE MCServerMain -----------------------------
EXTENDS ServerMain
=============================================================================
