---------------------------- MODULE MCAgentProxy ----------------------------
EXTENDS AgentProxy

\* One page sends a second message, which needs the session of the first; three
\* messages are enough for a session that is found under the id of another.
MCMaxMessages == [p \in Pages |-> IF p = "page" THEN 2 ELSE 1]
=============================================================================
