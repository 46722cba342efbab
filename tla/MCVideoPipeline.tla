--------------------------- MODULE MCVideoPipeline ---------------------------
\* VideoPipeline on small water marks and queues for TLC.
EXTENDS VideoPipeline
=============================================================================
