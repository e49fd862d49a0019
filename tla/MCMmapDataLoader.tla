-------------------------- MODULE MCMmapDataLoader --------------------------
(* MmapDataLoader for TLC: model values for the buffers, which are alike. *)
EXTENDS MmapDataLoader, TLC

CONSTANTS b1, b2, b3

MCBuffers == {b1, b2, b3}
MCPages == 1 .. 5
MCConfigs == {"UseMlock", "UseMadvise"}
BufferSymmetry == Permutations(MCBuffers)
=============================================================================
