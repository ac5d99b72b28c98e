----------------------------- MODULE MCPipeline -----------------------------
EXTENDS Pipeline

CONSTANTS i1, i2

MCImages == {i1, i2}
=============================================================================
