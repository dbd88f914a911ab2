------------------------- MODULE MCPromptPackEditor -------------------------
EXTENDS PromptPackEditor
=============================================================================
