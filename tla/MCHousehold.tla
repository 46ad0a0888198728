------------------------------ MODULE MCHousehold -----------------------------
EXTENDS Household, TLC

UserSymmetry == Permutations(Users)
===============================================================================
