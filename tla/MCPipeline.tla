----------------------------- MODULE MCPipeline -----------------------------
EXTENDS Pipeline, TLC
=============================================================================
