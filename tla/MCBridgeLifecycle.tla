------------------------- MODULE MCBridgeLifecycle -------------------------
EXTENDS BridgeLifecycle

=============================================================================
