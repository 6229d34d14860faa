------------------------------- MODULE MCDbuf -------------------------------
EXTENDS Dbuf

\* One letter is enough to tell a line from an empty one.
OneLetter == {"a"}
=============================================================================
