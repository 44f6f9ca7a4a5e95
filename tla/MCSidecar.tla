----------------------------- MODULE MCSidecar -----------------------------
\* Constant values for the runs of Sidecar.
EXTENDS Sidecar
=============================================================================
