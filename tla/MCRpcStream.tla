----------------------------- MODULE MCRpcStream -----------------------------
EXTENDS RpcStream

CONSTANTS s1, f1

MCSubscribers == {s1}
MCFilters     == {f1}
=============================================================================
