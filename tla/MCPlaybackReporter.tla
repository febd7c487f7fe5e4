------------------------- MODULE MCPlaybackReporter -------------------------
EXTENDS PlaybackReporter

CONSTANTS s1, s2

MCSessions == {s1, s2}
=============================================================================
