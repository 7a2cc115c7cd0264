---------------------------- MODULE MCQuicBuffers ----------------------------
EXTENDS QuicBuffers, TLC

Alike == Permutations(Conns) \cup Permutations(Slots) \cup Permutations(Buffers)
=============================================================================
