----------------------------- MODULE MCFetchPool ------------------------------
EXTENDS FetchPool, TLC

FetcherSymmetry == Permutations(Fetchers)
===============================================================================
