--------------------------- MODULE MCWorkerPool ---------------------------
EXTENDS WorkerPool
CONSTANTS w1, w2, w3
=============================================================================
