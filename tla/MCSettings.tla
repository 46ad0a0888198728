------------------------------ MODULE MCSettings ------------------------------
EXTENDS Routing

\* AllDebrid has no usenet; "work" is a second account.
EntryNames == <<"alldebrid", "torbox", "work">>
Types == {"alldebrid", "torbox"}
Services == [t \in Types |-> IF t = "torbox" THEN Kinds ELSE Kinds \ {"usenet"}]

\* Usenet is what the kinds of a provider are switched for.
UsenetToggles == {[k \in {"usenet"} |-> on] : on \in BOOLEAN}

RequestSymmetry == Permutations(Requests)
===============================================================================
