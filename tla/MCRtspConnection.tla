-------------------------- MODULE MCRtspConnection --------------------------
\* Small instances of RtspConnection.
EXTENDS RtspConnection
=============================================================================
