---------------------------- MODULE MCRtcSession ----------------------------
\* RtcSession for TLC: the configurations give every constant its value.
EXTENDS RtcSession
=============================================================================
