----------------------------- MODULE MCToolLoop -----------------------------
EXTENDS ToolLoop, TLC
=============================================================================
