----------------------------- MODULE MC_WsRelay -----------------------------
\* WsRelay with two frames from each peer, of two kinds or close.
EXTENDS WsRelay
=============================================================================
