----------------------- MODULE MCPlaybackCoordinator -----------------------
EXTENDS PlaybackCoordinator

CONSTANTS s1, s2

MCReportSessions == {s1, s2}
MCOneSession     == {s1}
=============================================================================
