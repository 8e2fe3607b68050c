---------------------------- MODULE MCCapabilities ----------------------------
EXTENDS Capabilities
=============================================================================
