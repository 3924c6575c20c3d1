---------------------------- MODULE MCAgentStreams ----------------------------
EXTENDS AgentStreams

CONSTANT s1

One == {s1}

\* All at most the low mark; and some over the agent's low mark, or over the high mark.
Small == {1, 2}
Mixed == {1, 3, 4}
=============================================================================
