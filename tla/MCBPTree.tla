------------------------------ MODULE MCBPTree ------------------------------
(* Small trees for TLC.  Nodes is at least the number of nodes a tree over  *)
(* Keys can have, so that calloc fails only where MaxFailures lets it.      *)
EXTENDS BPTreeCheck

FiveKeys == 1..5
SixKeys == 1..6
TenKeys == 1..10
NineNodes == 1..9
ThirteenNodes == 1..13

\* Row offsets are only stored and compared.
OffsetSymmetry == Permutations(Offsets)
=============================================================================
