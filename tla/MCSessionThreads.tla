-------------------------- MODULE MCSessionThreads --------------------------
EXTENDS SessionThreads
=============================================================================
