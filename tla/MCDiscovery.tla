----------------------------- MODULE MCDiscovery ------------------------------
EXTENDS Discovery, TLC

\* All items are of one content: a provider may dedupe them or not.
OneContent == [i \in Items |-> "a"]

RequestSymmetry == Permutations(Requests)
===============================================================================
