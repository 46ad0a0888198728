----------------------------- MODULE MCListing -----------------------------
(* Three rows: the fewest the mass-vanish guard looks at.                  *)
EXTENDS Listing
=============================================================================
