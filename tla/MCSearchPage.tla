---------------------------- MODULE MCSearchPage ----------------------------
\* Small instances of the search page.
EXTENDS SearchPageProperties
CONSTANTS hello, general, other

\* The first message says hello; the second was written in another channel.
HelloFirst == [k \in Word |-> IF k = NoKeyword THEN Message ELSE {1}]
SecondOther == [m \in Message |-> IF m = 2 THEN other ELSE general]
=============================================================================
