----------------------------- MODULE MCInterrupts -----------------------------
\* One line of the slave beside the timer and the keyboard; reads, calls that
\* return, exits and numbers out of the table.
EXTENDS InterruptsHistory
=============================================================================
