---------------------------- MODULE MCDlnaBackend ----------------------------
\* Three tracks on a renderer that others use too.
EXTENDS DlnaBackend, TLC

CONSTANTS u1, u2, u3
MCUrls == {u1, u2, u3}
Symmetry == Permutations(MCUrls)
=============================================================================
