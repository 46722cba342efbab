---------------------------- MODULE MCTileStream ----------------------------
\* TileStream on a few tiles and devices for TLC: the configurations give the
\* constants their values.
EXTENDS TileStream
=============================================================================
