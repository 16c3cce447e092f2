------------------------------- MODULE MCThreads -------------------------------
EXTENDS Threads
=============================================================================
