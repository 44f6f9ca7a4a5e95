---------------------------- MODULE MCRepetition ----------------------------
\* Constant values for the runs of Repetition.
EXTENDS Repetition
=============================================================================
