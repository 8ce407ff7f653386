------------------------------ MODULE MCSwapped ------------------------------
EXTENDS Daemon

\* A card of NetworkManager's, which brings it up again whenever it comes back.
MCWorlds == [coexist: BOOLEAN, assume: {FALSE}, monitor: {TRUE}, probes: {TRUE},
             manager: {TRUE}]
=============================================================================
