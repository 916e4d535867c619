--------------------------- MODULE MCDeviceLocks ---------------------------
EXTENDS DeviceLocks
=============================================================================
