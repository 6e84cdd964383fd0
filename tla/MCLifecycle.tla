---------------------------- MODULE MCLifecycle ----------------------------
EXTENDS Lifecycle
CONSTANTS a, b, s1, s2, s3, s4, r1, r2, t1, t2, t3
=============================================================================
