---------------------------- MODULE MCRateLimit ----------------------------
\* Small instances of the rate limiter.
EXTENDS RateLimitProperties
CONSTANTS u, v, a, b
=============================================================================
