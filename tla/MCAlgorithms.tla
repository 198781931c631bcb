---------------------------- MODULE MCAlgorithms ----------------------------
EXTENDS Algorithms
\* Early, on-time, ordinary and extreme durations.
MCHours == {-2, 0, 1, 3, 8}
=============================================================================
