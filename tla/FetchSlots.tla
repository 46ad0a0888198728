------------------------------ MODULE FetchSlots ------------------------------
(***************************************************************************)
(* What the importer's activeFetches map promises its callers, without the *)
(* goroutines behind it: a bounded set of named slots.  A download takes a *)
(* slot only while one is free and only once, gives it back by itself, and *)
(* a restart of the process empties the map.                               *)
(***************************************************************************)
EXTENDS Naturals, FiniteSets

CONSTANTS Names,        \* who can hold a slot: the download ids
          Limit         \* max_concurrent_downloads

VARIABLE holders        \* the names holding a slot

Init == holders = {}

Take(n) ==
  /\ n \notin holders
  /\ Cardinality(holders) < Limit
  /\ holders' = holders \cup {n}

Give(n) ==
  /\ n \in holders
  /\ holders' = holders \ {n}

Reset == holders' = {}

Next == (\E n \in Names : Take(n) \/ Give(n)) \/ Reset

Spec == Init /\ [][Next]_holders
===============================================================================
