---------------------------- MODULE MCReplInput -----------------------------
EXTENDS ReplInput
=============================================================================
