---------------------------- MODULE MCComponents ----------------------------
(* Values for Components; those of the serializer are MCSerializer's.       *)
EXTENDS Components, MCSerializer

\* Bitset: nothing, a bit on each side of the byte boundary and of the mask of
\* the constructor, everything.
MCValues == {{}, {0, 3, 8, 10}, 0..63}

\* Resampler: ratios of both kinds.
MCRatios == {<<1, 2>>, <<3, 2>>, <<2, 1>>, <<2, 3>>}
=============================================================================
