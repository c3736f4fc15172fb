---------------------------- MODULE MCRpcClient -----------------------------
EXTENDS RpcClient

CONSTANTS matchengine, marketprice

\* Two of the gateway's backend clients.
MCClients == {matchengine, marketprice}
=============================================================================
