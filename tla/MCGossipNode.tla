---------------------------- MODULE MCGossipNode ----------------------------
\* Instances of GossipNode for TLC
EXTENDS GossipNode
=============================================================================
