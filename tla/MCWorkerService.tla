-------------------------- MODULE MCWorkerService --------------------------
EXTENDS WorkerService
=============================================================================
