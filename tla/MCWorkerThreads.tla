-------------------------- MODULE MCWorkerThreads --------------------------
EXTENDS WorkerThreads
=============================================================================
