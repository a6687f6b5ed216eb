------------------------------- MODULE MCBans -------------------------------
\* Small instances of the bans.
EXTENDS BansProperties
CONSTANTS u, v, c

UserOfOne == [x \in {c} |-> u]
=============================================================================
