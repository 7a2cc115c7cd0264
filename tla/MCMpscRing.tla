----------------------------- MODULE MCMpscRing -----------------------------
\* Instances of MpscRing for TLC.
EXTENDS MpscRing, TLC

CONSTANTS p1, p2

TwoProducers == {p1, p2}
Symmetry2 == Permutations(TwoProducers)
AllModes == {Pop, Batch, Wait, Timed}
=============================================================================
