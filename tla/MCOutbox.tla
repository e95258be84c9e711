------------------------------- MODULE MCOutbox -------------------------------
EXTENDS Outbox, TLC

CONSTANTS e1, e2, p1, p2

\* Rows and publishers are interchangeable; used in the run without liveness.
Symmetry == Permutations(Events) \cup Permutations(Publishers)
=============================================================================
