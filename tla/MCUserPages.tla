---------------------------- MODULE MCUserPages ----------------------------
\* Small instances of the pages for users and bans.
EXTENDS UserPagesProperties
CONSTANTS u, v

NoConn == {}
NoUserOf == [x \in NoConn |-> u]
=============================================================================
