---------------------------- MODULE MCDeviceList ----------------------------
\* DeviceList on small sets for TLC: one phone that moves between two addresses.
EXTENDS DeviceList, TLC
=============================================================================
