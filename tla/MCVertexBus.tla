----------------------------- MODULE MCVertexBus -----------------------------
\* Six messages: one under way when the helper dies, two stalls, the third, one
\* before and one after.
EXTENDS VertexBus
=============================================================================
