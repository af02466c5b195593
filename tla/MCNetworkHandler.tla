--------------------------- MODULE MCNetworkHandler ---------------------------
EXTENDS NetworkHandler
=============================================================================
