---------------------------- MODULE MCAgentOrder ----------------------------
EXTENDS AgentOrder
=============================================================================
