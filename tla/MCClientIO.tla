----------------------------- MODULE MCClientIO -----------------------------
EXTENDS ClientIO

\* Listeners for IRC clients and for the control channel.
ForBoth == {"unknown", "control"}

Both == BOOLEAN
=============================================================================
