------------------------- MODULE MC_ProxyLifecycle -------------------------
\* ProxyLifecycle with three starts and two overlapping stops on two ports.
EXTENDS ProxyLifecycle
=============================================================================
