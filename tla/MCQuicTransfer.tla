--------------------------- MODULE MCQuicTransfer ---------------------------
EXTENDS QuicTransfer, TLC

Alike == Permutations(Packets)
=============================================================================
