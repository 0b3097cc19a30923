------------------------------ MODULE MCDrivePath ------------------------------
\* Commands are fresh for 3 ticks instead of 50, /joy takes up to one, and the
\* controller's clock is one tick ahead of the multiplexer's.
EXTENDS DrivePath
=============================================================================
