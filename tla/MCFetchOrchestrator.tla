------------------------- MODULE MCFetchOrchestrator -------------------------
EXTENDS FetchOrchestrator, TLC

CONSTANTS c1, c2, a1, a2

Alike == Permutations(Calls) \union Permutations(Accounts)
=============================================================================
