---------------------------- MODULE BPTreeCheck ----------------------------
(***************************************************************************)
(* The properties of the B+ tree that follow its pointers: bptree_validate,*)
(* the leaf chain, and the leaf a search ends in.  Each is a function of   *)
(* the node it starts from, by recursion along the pointers, as in the     *)
(* code; the field of a zeroed node is NULL.                               *)
(***************************************************************************)
EXTENDS BPTree

\* What has_lower and has_upper leave out.
NoBound == -1
Bounds == Nat \cup {NoBound}

-----------------------------------------------------------------------------
\* bptree_validate and what it calls.
validate_node[n \in Nodes] ==
    [expected_parent \in Nodes \cup {Null} |-> [lower \in Bounds |-> [upper \in Bounds |->
        /\ parent[n] = expected_parent
        /\ Len(keys[n]) <= MaxKeys
        /\ \A i \in 2..Len(keys[n]) : keys[n][i - 1] < keys[n][i]
        /\ IF is_leaf[n]
           THEN \A i \in 1..Len(keys[n]) :
                  /\ lower # NoBound => lower <= keys[n][i]
                  /\ upper # NoBound => keys[n][i] < upper
           ELSE /\ Len(children[n]) > Len(keys[n])
                /\ \A i \in 1..(Len(keys[n]) + 1) :
                     LET child_lower == IF i > 1 THEN keys[n][i - 1] ELSE lower
                         child_upper == IF i <= Len(keys[n]) THEN keys[n][i] ELSE upper
                     IN /\ NoBound \notin {child_lower, child_upper} => child_lower < child_upper
                        /\ validate_node[children[n][i]][n][child_lower][child_upper]]]]

LeafDepths[n \in Nodes] ==
    IF is_leaf[n] THEN {0}
    ELSE {d + 1 : d \in UNION {LeafDepths[c] : c \in ToSet(children[n])}}

find_leftmost_leaf[n \in Nodes] ==
    IF is_leaf[n] THEN n
    ELSE IF children[n] = <<>> THEN Null
    ELSE find_leftmost_leaf[children[n][1]]

ChainFrom[n \in Nodes] ==
    <<n>> \o (IF next[n] = Null THEN <<>> ELSE ChainFrom[next[n]])

\* The leaves the loop over the chain meets.
LeafChain == IF root = Null THEN <<>> ELSE ChainFrom[find_leftmost_leaf[root]]
KeysAlong(chain) == FlattenSeq([i \in DOMAIN chain |-> keys[chain[i]]])

TreeIsValid ==
    validate_node[root][Null][NoBound][NoBound] /\ Cardinality(LeafDepths[root]) = 1

bptree_validate_TreeOnly == root # Null => TreeIsValid

bptree_validate ==
    IF root = Null
    THEN key_count = 0
    ELSE /\ TreeIsValid
         /\ LET chain == LeafChain
                chain_keys == KeysAlong(chain)
            IN /\ \A i \in DOMAIN chain : is_leaf[chain[i]]
               /\ \A i \in 2..Len(chain_keys) : chain_keys[i - 1] < chain_keys[i]
               /\ Len(chain_keys) = key_count

\* The leaf the loop of find_leaf_node ends in, for a search made now.
FindLeaf[n \in Nodes] ==
    [k \in Nat |->
        IF is_leaf[n] THEN n
        ELSE IF children[n] = <<>> THEN Null
        ELSE FindLeaf[children[n][CHOOSE i \in 1..Len(children[n]) :
                                     IsChildSlot(keys[n], k, i)]][k]]
CanFind(k) == root # Null /\ k \in ToSet(keys[FindLeaf[root][k]])

\* The rows the leaf chain holds.
RowsInChain == UNION {RowsOf(n) : n \in ToSet(LeafChain)}

-----------------------------------------------------------------------------
\* Between calls the tree passes its own validation: parent pointers, key order,
\* separator ranges, leaf depth, leaf chain and key_count (bptree_validate).
AlwaysValid == pc = "idle" => bptree_validate

\* Every call returns: the descent reaches a leaf and the way up reaches the root.
CallsReturn == pc # "idle" ~> pc = "idle"

\* Whatever allocations fail, a step never drops a key from the leaf chain or changes
\* its offset; only bptree_destroy empties it (the splits, insert_into_leaf).
ChainKeepsRows ==
    [][{pc, pc'} \cap {"destroy"} = {} => RowsInChain \subseteq RowsInChain']_vars

\* Whatever allocations failed before, a tree that passes bptree_validate answers
\* every search from its leaf chain: the check misses no lost subtree.
ValidateIsSound ==
    (pc = "idle" /\ root # Null /\ bptree_validate) =>
        \A row \in RowsInChain : CanFind(row[1])
=============================================================================
