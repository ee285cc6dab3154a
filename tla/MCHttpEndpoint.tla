--------------------------- MODULE MCHttpEndpoint ---------------------------
EXTENDS HttpExchange
=============================================================================
