----------------------------- MODULE MCRtspStream -----------------------------
\* Small instances of RtspStream: two pushers, a queue of two frames.
EXTENDS RtspStream
===============================================================================
