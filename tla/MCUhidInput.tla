---------------------------- MODULE MCUhidInput ----------------------------
\* UhidInput for TLC: one device, whose keyboard has a modifier and two keys, of which
\* a report has room for one.
EXTENDS UhidInput
=============================================================================
