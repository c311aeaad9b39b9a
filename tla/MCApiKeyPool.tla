---------------------------- MODULE MCApiKeyPool ----------------------------
EXTENDS ApiKeyPool, TLC
=============================================================================
