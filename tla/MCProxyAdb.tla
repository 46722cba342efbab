----------------------------- MODULE MCProxyAdb -----------------------------
\* ProxyAdb on a few proxies and devices for TLC.
EXTENDS ProxyAdb, TLC

Interchangeable == Permutations(Proxies)
=============================================================================
