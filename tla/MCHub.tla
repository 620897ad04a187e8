------------------------------- MODULE MCHub -------------------------------
EXTENDS Hub

\* The state without its histories: no guard reads them, and neither does the
\* refinement mapping, so states that differ in them alone need not be told
\* apart when the refinement is checked.
WithoutHistory == << cli, sends, up, conn, buf, busy, subs, audience, content, down >>

=============================================================================
