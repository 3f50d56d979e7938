--------------------------- MODULE MCAgentTurns ---------------------------
EXTENDS AgentTurns
=============================================================================
