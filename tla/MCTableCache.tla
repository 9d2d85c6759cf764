---------------------------- MODULE MCTableCache ----------------------------
EXTENDS TableCache, TLC

TableSymmetry == Permutations(Tables)
=============================================================================
