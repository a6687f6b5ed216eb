--------------------------- MODULE MCChannelPage ---------------------------
\* Small instances of the page for the channels.
EXTENDS ChannelPageProperties
CONSTANTS general, tech

TwoChannels == <<general, tech>>
=============================================================================
