-------------------------- MODULE MCStreamSessions --------------------------
\* StreamSessions on small sets for TLC.
EXTENDS StreamSessions, TLC
=============================================================================
