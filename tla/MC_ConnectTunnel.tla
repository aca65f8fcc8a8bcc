-------------------------- MODULE MC_ConnectTunnel --------------------------
\* ConnectTunnel with a few tunnels beside the desktop's commands.
EXTENDS ConnectTunnel
=============================================================================
