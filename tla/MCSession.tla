----------------------------- MODULE MCSession -----------------------------
(* A small instance of Session for TLC.                                    *)
EXTENDS Session

CONSTANTS alice, bob, coin1

MCMints == {WSOL_MINT, Key("USDC")}
MCConfigs == {Key("config"), Key("nextConfig")}
MCVenues == {Program("Stub"), Program("Jupiter")}
=============================================================================
