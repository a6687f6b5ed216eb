--------------------------- MODULE MCMessageCache ---------------------------
\* Small instances of the message cache.
EXTENDS MessageCacheProperties
CONSTANTS u, v, a, b, public

TwoUsers == {u, v}
MoreChat == [k \in Kind |-> IF k = "chat" THEN 3 ELSE 1]
BothKinds == [k \in Kind |-> IF k = "chat" THEN 3 ELSE 2]
=============================================================================
