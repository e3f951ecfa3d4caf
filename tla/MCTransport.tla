----------------------------- MODULE MCTransport -----------------------------
\* Instances of Transport small enough to enumerate.  Nothing is symmetric in
\* a liveness check, so the workers are told apart.
EXTENDS Transport
=============================================================================
