----------------------------- MODULE MCChannels -----------------------------
\* Small instances of the channels.
EXTENDS ChannelsProperties
CONSTANTS a, b, general, tech, help
=============================================================================
