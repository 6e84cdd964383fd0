------------------------------ MODULE MCQueue ------------------------------
EXTENDS Queue, TLC
CONSTANTS a, b, c

\* A queue of three items, and one of them alone.
TwoLists == {<<a, b, c>>, <<b>>}
=============================================================================
