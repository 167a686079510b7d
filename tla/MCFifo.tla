------------------------------- MODULE MCFifo -------------------------------
\* Instance of Fifo for TLC: three consumers, elements of two values.
EXTENDS Fifo
=============================================================================
