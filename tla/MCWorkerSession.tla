-------------------------- MODULE MCWorkerSession ---------------------------
EXTENDS WorkerSession
=============================================================================
