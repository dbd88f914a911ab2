---------------------------- MODULE MCAgentChat ----------------------------
EXTENDS AgentChat
=============================================================================
