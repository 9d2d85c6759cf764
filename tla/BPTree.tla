------------------------------- MODULE BPTree -------------------------------
(***************************************************************************)
(* The in-memory B+ tree of src/bptree.c: bptree_insert, bptree_search and *)
(* bptree_destroy over a heap of nodes.  A call is a sequence of steps:    *)
(* one per level of the descent, one for the leaf and one per call of      *)
(* insert_into_parent on the way up, so the recursion of the code is the   *)
(* loop of the pc "parent".  calloc may fail at every create_node.         *)
(***************************************************************************)
EXTENDS Integers, Sequences, FiniteSets, SequencesExt

CONSTANTS Order,         \* BPTREE_ORDER, 64 in the code
          Keys,          \* the uint64_t ids callers use
          Offsets,       \* the row offsets callers use
          Nodes,         \* the addresses calloc can return
          Null,          \* the NULL pointer, and "no offset"
          MaxFailures    \* bounds how often calloc fails while Nodes last

ASSUME OrderAssumption == Order \in Nat /\ Order >= 3
ASSUME KeysAssumption == Keys \subseteq Nat
ASSUME NullAssumption == Null \notin Nodes /\ Null \notin Offsets
ASSUME FailuresAssumption == MaxFailures \in Nat

VARIABLES used,      \* the nodes allocated and not freed
          is_leaf, keys, offsets, children, parent, next,   \* BPTreeNode, field by field
          root, key_count,                                  \* BPTree
          failures,  \* how often calloc has failed while Nodes lasted
          pc,        \* "idle", or where the running call is
          call,      \* its arguments
          node,      \* the cursor: find_leaf_node's node, then insert_into_parent's left
          separator, right,   \* the other arguments of insert_into_parent
          doomed,    \* the nodes destroy_node has still to free
          result     \* what the last call returned

heap == <<used, is_leaf, keys, offsets, children, parent, next>>
tree == <<root, key_count>>
frame == <<call, node, separator, right>>
vars == <<heap, tree, failures, pc, frame, doomed, result>>

MaxKeys == Order - 1
NoCall == [op |-> "none", key |-> 0, row_offset |-> Null]
NoResult == [op |-> "init", key |-> 0, status |-> "OK", offset |-> Null]

Init ==
    /\ used = {}
    /\ is_leaf = [n \in Nodes |-> FALSE]
    /\ keys = [n \in Nodes |-> <<>>]
    /\ offsets = [n \in Nodes |-> <<>>]
    /\ children = [n \in Nodes |-> <<>>]
    /\ parent = [n \in Nodes |-> Null]
    /\ next = [n \in Nodes |-> Null]
    /\ root = Null /\ key_count = 0 /\ failures = 0
    /\ pc = "idle" /\ call = NoCall
    /\ node = Null /\ separator = 0 /\ right = Null /\ doomed = {}
    /\ result = NoResult

-----------------------------------------------------------------------------
\* create_node: a zeroed node, or NULL.
Fresh == CHOOSE n \in Nodes : n \notin used
CanAllocate == used # Nodes
OutOfMemory ==
    \/ used = Nodes /\ failures' = failures
    \/ failures < MaxFailures /\ failures' = failures + 1

HasRoom_OneTooMany(n) == Len(keys[n]) <= MaxKeys

\* key_count < BPTREE_MAX_KEYS: the node takes one more key without a split.
HasRoom(n) == Len(keys[n]) < MaxKeys

Half_AllButOne(total_keys) == total_keys - 1

\* left_count and split_index: what a split leaves in the old node.
Half(total_keys) == total_keys \div 2

IsChildSlot_SeparatorGoesLeft(s, k, i) ==
    /\ \A j \in 1..(i - 1) : s[j] < k
    /\ i <= Len(s) => k <= s[i]

\* The index (from 1) of the child find_leaf_node takes for k.
IsChildSlot(s, k, i) ==
    /\ \A j \in 1..(i - 1) : s[j] <= k
    /\ i <= Len(s) => k < s[i]

\* The index (from 1) at which a leaf stores, or would insert, k.
IsLeafSlot(s, k, i) ==
    /\ \A j \in 1..(i - 1) : s[j] < k
    /\ i <= Len(s) => k <= s[i]

Holds_NeverLast(s, k, i) == i < Len(s) /\ s[i] = k

\* The leaf already stores k at that index.
Holds(s, k, i) == i <= Len(s) /\ s[i] = k

Return(op, k, status, offset) ==
    /\ pc' = "idle" /\ call' = NoCall
    /\ node' = Null /\ separator' = 0 /\ right' = Null
    /\ result' = [op |-> op, key |-> k, status |-> status, offset |-> offset]

InsertFails ==
    /\ Return("insert", call.key, "INDEX_ERROR", Null)
    /\ UNCHANGED <<heap, tree, doomed>>

-----------------------------------------------------------------------------
\* bptree_insert on an empty tree allocates the root leaf at once ...
InsertFirst(k, o) ==
    /\ pc = "idle" /\ root = Null /\ CanAllocate
    /\ used' = used \cup {Fresh}
    /\ is_leaf' = [is_leaf EXCEPT ![Fresh] = TRUE]
    /\ keys' = [keys EXCEPT ![Fresh] = <<k>>]
    /\ offsets' = [offsets EXCEPT ![Fresh] = <<o>>]
    /\ UNCHANGED <<children, parent, next, failures, doomed>>
    /\ root' = Fresh /\ key_count' = 1
    /\ Return("insert", k, "OK", Null)

InsertFirstOutOfMemory(k) ==
    /\ pc = "idle" /\ root = Null /\ OutOfMemory
    /\ Return("insert", k, "INDEX_ERROR", Null)
    /\ UNCHANGED <<heap, tree, doomed>>

\* ... otherwise it looks for the leaf first.
CallInsert(k, o) ==
    /\ pc = "idle" /\ root # Null
    /\ pc' = "descend" /\ node' = root
    /\ call' = [op |-> "insert", key |-> k, row_offset |-> o]
    /\ UNCHANGED <<heap, tree, failures, doomed, separator, right, result>>

SearchEmpty(k) ==
    /\ pc = "idle" /\ root = Null
    /\ Return("search", k, "OK", Null)
    /\ UNCHANGED <<heap, tree, failures, doomed>>

CallSearch(k) ==
    /\ pc = "idle" /\ root # Null
    /\ pc' = "descend" /\ node' = root
    /\ call' = [op |-> "search", key |-> k, row_offset |-> Null]
    /\ UNCHANGED <<heap, tree, failures, doomed, separator, right, result>>

\* One iteration of the loop of find_leaf_node.
Descend ==
    /\ pc = "descend" /\ ~is_leaf[node]
    /\ \E i \in 1..Len(children[node]) :
          /\ IsChildSlot(keys[node], call.key, i)
          /\ node' = children[node][i]
    /\ UNCHANGED <<heap, tree, failures, doomed, pc, call, separator, right, result>>

\* The loop over the leaf's keys stops at the first one equal to the key.
SearchLeaf ==
    /\ pc = "descend" /\ is_leaf[node] /\ call.op = "search"
    /\ LET leaf_keys == keys[node]
       IN \/ \E i \in 1..Len(leaf_keys) :
                /\ leaf_keys[i] = call.key
                /\ \A j \in 1..(i - 1) : leaf_keys[j] # call.key
                /\ Return("search", call.key, "OK", offsets[node][i])
          \/ /\ \A i \in 1..Len(leaf_keys) : leaf_keys[i] # call.key
             /\ Return("search", call.key, "OK", Null)
    /\ UNCHANGED <<heap, tree, failures, doomed>>

AtInsertLeaf == pc = "descend" /\ is_leaf[node] /\ call.op = "insert"

\* insert_into_leaf and split_leaf_and_insert both refuse a key the leaf holds.
InsertDuplicate ==
    /\ AtInsertLeaf
    /\ \E i \in 1..Len(keys[node]) :
          IsLeafSlot(keys[node], call.key, i) /\ Holds(keys[node], call.key, i)
    /\ InsertFails
    /\ UNCHANGED failures

InsertIntoLeaf ==
    /\ AtInsertLeaf /\ HasRoom(node)
    /\ \E i \in 1..(Len(keys[node]) + 1) :
          /\ IsLeafSlot(keys[node], call.key, i)
          /\ ~Holds(keys[node], call.key, i)
          /\ keys' = [keys EXCEPT ![node] = InsertAt(@, i, call.key)]
          /\ offsets' = [offsets EXCEPT ![node] = InsertAt(@, i, call.row_offset)]
    /\ UNCHANGED <<used, is_leaf, children, parent, next, root, failures, doomed>>
    /\ key_count' = key_count + 1
    /\ Return("insert", call.key, "OK", Null)

LinkedAfter_LosesRest(leaf, new_leaf) == [next EXCEPT ![leaf] = new_leaf]

\* The leaf chain with new_leaf linked in behind leaf.
LinkedAfter(leaf, new_leaf) == [next EXCEPT ![new_leaf] = next[leaf], ![leaf] = new_leaf]

\* split_leaf_and_insert: the new leaf joins the leaf chain before any parent knows it.
SplitLeaf ==
    /\ AtInsertLeaf /\ ~HasRoom(node) /\ CanAllocate
    /\ \E i \in 1..(Len(keys[node]) + 1) :
          /\ IsLeafSlot(keys[node], call.key, i)
          /\ ~Holds(keys[node], call.key, i)
          /\ LET temp_keys == InsertAt(keys[node], i, call.key)
                 temp_offsets == InsertAt(offsets[node], i, call.row_offset)
                 total_keys == Len(keys[node]) + 1
                 left_count == Half(total_keys)
             IN /\ keys' = [keys EXCEPT
                      ![node] = SubSeq(temp_keys, 1, left_count),
                      ![Fresh] = SubSeq(temp_keys, left_count + 1, total_keys)]
                /\ offsets' = [offsets EXCEPT
                      ![node] = SubSeq(temp_offsets, 1, left_count),
                      ![Fresh] = SubSeq(temp_offsets, left_count + 1, total_keys)]
                /\ separator' = temp_keys[left_count + 1]
    /\ used' = used \cup {Fresh}
    /\ is_leaf' = [is_leaf EXCEPT ![Fresh] = TRUE]
    /\ next' = LinkedAfter(node, Fresh)
    /\ parent' = [parent EXCEPT ![Fresh] = parent[node]]
    /\ right' = Fresh /\ pc' = "parent"
    /\ UNCHANGED <<children, tree, failures, doomed, call, node, result>>

SplitLeafOutOfMemory ==
    /\ AtInsertLeaf /\ ~HasRoom(node) /\ OutOfMemory
    /\ \E i \in 1..(Len(keys[node]) + 1) :
          IsLeafSlot(keys[node], call.key, i) /\ ~Holds(keys[node], call.key, i)
    /\ InsertFails

-----------------------------------------------------------------------------
(* insert_into_parent(tree, left = node, separator, right).                *)

InsertSucceeds ==
    /\ key_count' = key_count + 1
    /\ Return("insert", call.key, "OK", Null)

NewRoot ==
    /\ pc = "parent" /\ parent[node] = Null /\ CanAllocate
    /\ used' = used \cup {Fresh}
    /\ keys' = [keys EXCEPT ![Fresh] = <<separator>>]
    /\ children' = [children EXCEPT ![Fresh] = <<node, right>>]
    /\ parent' = [parent EXCEPT ![node] = Fresh, ![right] = Fresh]
    /\ root' = Fresh
    /\ UNCHANGED <<is_leaf, offsets, next, failures, doomed>>
    /\ InsertSucceeds

\* left_child_index (from 1): the first child of p that is the left node.
IsLeftChildIndex(p, i) ==
    /\ children[p][i] = node
    /\ \A j \in 1..(i - 1) : children[p][j] # node

GivenParent_Left(p) == [parent EXCEPT ![right] = node]

\* The parent pointers once right hangs below p.
GivenParent(p) == [parent EXCEPT ![right] = p]

InsertIntoInternalNode ==
    /\ pc = "parent" /\ parent[node] # Null
    /\ LET p == parent[node]
       IN /\ HasRoom(p)
          /\ \E i \in 1..Len(children[p]) :
                /\ IsLeftChildIndex(p, i)
                /\ keys' = [keys EXCEPT ![p] = InsertAt(@, i, separator)]
                /\ children' = [children EXCEPT ![p] = InsertAt(@, i + 1, right)]
          /\ parent' = GivenParent(p)
    /\ UNCHANGED <<used, is_leaf, offsets, next, root, failures, doomed>>
    /\ InsertSucceeds

TempChildren_NewNode(p, i) == InsertAt(children[p], i + 1, Fresh)

\* temp_children: the children of p with right behind the i-th.
TempChildren(p, i) == InsertAt(children[p], i + 1, right)

\* The children a split of an internal node moves to the new node.
RightChildren(temp_children, split_index) ==
    SubSeq(temp_children, split_index + 2, Len(temp_children))

Adopted_LeftOnly(p, new_node, left_part, right_part) ==
    [n \in Nodes |-> IF n = new_node THEN parent[p]
                     ELSE IF n \in ToSet(left_part) THEN p
                     ELSE parent[n]]

\* The parent pointers once p and new_node have been given their children.
Adopted(p, new_node, left_part, right_part) ==
    [n \in Nodes |-> IF n \in ToSet(right_part) THEN new_node
                     ELSE IF n = new_node THEN parent[p]
                     ELSE IF n \in ToSet(left_part) THEN p
                     ELSE parent[n]]

\* split_internal_and_insert: the middle key moves up, p becomes the next left node.
SplitInternal ==
    /\ pc = "parent" /\ parent[node] # Null /\ CanAllocate
    /\ LET p == parent[node]
       IN /\ ~HasRoom(p)
          /\ \E i \in 1..Len(children[p]) :
                /\ IsLeftChildIndex(p, i)
                /\ LET temp_keys == InsertAt(keys[p], i, separator)
                       temp_children == TempChildren(p, i)
                       total_keys == Len(keys[p]) + 1
                       split_index == Half(total_keys)
                       left_part == SubSeq(temp_children, 1, split_index + 1)
                       right_part == RightChildren(temp_children, split_index)
                   IN /\ keys' = [keys EXCEPT
                            ![p] = SubSeq(temp_keys, 1, split_index),
                            ![Fresh] = SubSeq(temp_keys, split_index + 2, total_keys)]
                      /\ children' = [children EXCEPT ![p] = left_part, ![Fresh] = right_part]
                      /\ parent' = Adopted(p, Fresh, left_part, right_part)
                      /\ separator' = temp_keys[split_index + 1]
          /\ node' = p
    /\ used' = used \cup {Fresh} /\ right' = Fresh
    /\ UNCHANGED <<is_leaf, offsets, next, tree, failures, doomed, pc, call, result>>

\* The error returns: no memory for a new root, a parent that does not know its
\* child ("parent-child relationship is broken"), no memory for a second internal node.
InsertIntoParentFails ==
    /\ pc = "parent"
    /\ IF parent[node] # Null /\ node \notin ToSet(children[parent[node]])
       THEN failures' = failures
       ELSE /\ parent[node] # Null => ~HasRoom(parent[node])
            /\ OutOfMemory
    /\ InsertFails

-----------------------------------------------------------------------------
(* bptree_destroy.  The order in which destroy_node frees the nodes cannot  *)
(* be seen; what matters is that each is read and freed once.              *)

DestroyEmpty ==
    /\ pc = "idle" /\ root = Null
    /\ key_count' = 0
    /\ Return("destroy", 0, "OK", Null)
    /\ UNCHANGED <<heap, root, failures, doomed>>

CallDestroy ==
    /\ pc = "idle" /\ root # Null
    /\ pc' = "destroy" /\ doomed' = {root}
    /\ result' = [op |-> "destroy", key |-> 0, status |-> "OK", offset |-> Null]
    /\ UNCHANGED <<heap, tree, failures, frame>>

ChildrenToFree_AllButLast(n) == {children[n][i] : i \in 1..(Len(children[n]) - 1)}

ChildrenToFree_AndNext(n) == (ToSet(children[n]) \cup {next[n]}) \ {Null}

\* The loop of destroy_node over the children of an internal node.
ChildrenToFree(n) == ToSet(children[n])

DestroyNode ==
    /\ pc = "destroy" /\ doomed # {}
    /\ LET n == CHOOSE n \in doomed : TRUE
       IN /\ doomed' = (doomed \ {n}) \cup ChildrenToFree(n)
          /\ used' = used \ {n}
          /\ is_leaf' = [is_leaf EXCEPT ![n] = FALSE]
          /\ keys' = [keys EXCEPT ![n] = <<>>]
          /\ offsets' = [offsets EXCEPT ![n] = <<>>]
          /\ children' = [children EXCEPT ![n] = <<>>]
          /\ parent' = [parent EXCEPT ![n] = Null]
          /\ next' = [next EXCEPT ![n] = Null]
    /\ UNCHANGED <<tree, failures, pc, frame, result>>

DestroyReturns ==
    /\ pc = "destroy" /\ doomed = {}
    /\ root' = Null /\ key_count' = 0 /\ pc' = "idle"
    /\ UNCHANGED <<heap, failures, doomed, frame, result>>

Call ==
    \/ \E k \in Keys :
          \/ \E o \in Offsets : InsertFirst(k, o) \/ CallInsert(k, o)
          \/ InsertFirstOutOfMemory(k)
          \/ SearchEmpty(k)
          \/ CallSearch(k)
    \/ DestroyEmpty \/ CallDestroy

Step ==
    \/ Descend \/ SearchLeaf
    \/ InsertDuplicate \/ InsertIntoLeaf \/ SplitLeaf \/ SplitLeafOutOfMemory
    \/ NewRoot \/ InsertIntoInternalNode \/ SplitInternal \/ InsertIntoParentFails
    \/ DestroyNode \/ DestroyReturns

Next == Call \/ Step

Spec == Init /\ [][Next]_vars

\* The code of a call runs to its return; callers need not call.
FairSpec == Spec /\ WF_vars(Step)
-----------------------------------------------------------------------------
HeapTypeOK ==
    /\ used \subseteq Nodes
    /\ is_leaf \in [Nodes -> BOOLEAN]
    /\ keys \in [Nodes -> Seq(Keys)]
    /\ offsets \in [Nodes -> Seq(Offsets)]
    /\ children \in [Nodes -> Seq(Nodes)]
    /\ parent \in [Nodes -> Nodes \cup {Null}]
    /\ next \in [Nodes -> Nodes \cup {Null}]
    /\ root \in Nodes \cup {Null}
    /\ key_count \in Nat
    /\ failures \in 0..MaxFailures
    /\ doomed \subseteq Nodes

CallTypeOK ==
    /\ pc \in {"idle", "descend", "parent", "destroy"}
    /\ call \in [op : {"none", "insert", "search"}, key : Nat,
                 row_offset : Offsets \cup {Null}]
    /\ node \in Nodes \cup {Null}
    /\ right \in Nodes \cup {Null}
    /\ separator \in Nat
    /\ result \in [op : {"init", "insert", "search", "destroy"}, key : Nat,
                   status : {"OK", "INDEX_ERROR"}, offset : Offsets \cup {Null}]

\* Every field, argument and result has its C type, and failures its bound.
TypeOK == HeapTypeOK /\ CallTypeOK

\* No insert or split ever writes past an array of a node: keys[BPTREE_MAX_KEYS],
\* row_offsets[BPTREE_MAX_KEYS], children[BPTREE_MAX_CHILDREN] (insert_into_leaf,
\* insert_into_internal_node, the two splits).
WithinArrays ==
    \A n \in Nodes :
        /\ Len(keys[n]) <= MaxKeys
        /\ Len(offsets[n]) <= MaxKeys
        /\ Len(children[n]) <= Order

\* Whatever allocations fail, insert_into_parent never meets a left node its parent
\* does not know: its "parent-child relationship is broken" return is dead code.
RelationshipHolds ==
    (pc = "parent" /\ parent[node] # Null) => node \in ToSet(children[parent[node]])

\* bptree_destroy frees a node at most once: it never reaches one already freed, nor one
\* by two ways, so that the set of the nodes still to be freed stands for the calls of
\* destroy_node that are pending; also in a tree that failed splits have left subtrees
\* outside of (destroy_node).
FreedOnce ==
    \A n \in doomed :
        /\ n \in used
        /\ IsInjective(children[n]) /\ ChildrenToFree(n) \cap doomed = {}
        /\ \A m \in doomed : m # n => ChildrenToFree(m) \cap ChildrenToFree(n) = {}

\* Every node but the root keeps the share a split gives it, which is what makes
\* the descent logarithmic; bptree_validate does not look at it
\* (left_count, split_index and right_key_count of the two splits).
WellFilled ==
    \A n \in used \ {root} :
        Len(keys[n]) >= (IF is_leaf[n] THEN Order \div 2
                         ELSE Order - (Order \div 2) - 1)

\* When no allocation ever failed bptree_destroy leaves nothing behind (create_node,
\* destroy_node).
NothingLeaks == (pc = "idle" /\ root = Null) => used = {}

-----------------------------------------------------------------------------
(* The tree as a map.                                                       *)

Leaves == {n \in used : is_leaf[n]}
RowsOf(n) == {<<keys[n][i], offsets[n][i]>> : i \in DOMAIN keys[n]}
Rows == UNION {RowsOf(n) : n \in Leaves}

\* A split puts the new key into a leaf before the call has succeeded.
Pending == IF pc = "parent" THEN {call.key} ELSE {}

\* The map the leaves hold between calls; destroy takes it away at once.
Contents ==
    [k \in IF pc = "destroy" THEN {} ELSE {row[1] : row \in Rows} \ Pending |->
        (CHOOSE row \in Rows : row[1] = k)[2]]

Promise == INSTANCE IndexMap WITH
    map <- Contents, NoOffset <- Null, MayFail <- MaxFailures > 0

\* A call that reports OK on an absent key stores it with its offset, a search finds
\* exactly the stored keys, and a refused call changes nothing: every call of the
\* tree is one step of the map (bptree_insert, bptree_search, bptree_destroy).
ImplementsIndexMap == Promise!Spec

-----------------------------------------------------------------------------
(* What TypeOK and WithinArrays need to be inductive.                      *)

\* The arguments and cursor of a running call.
CallOK ==
    /\ pc \in {"descend", "parent"} =>
          /\ root \in Nodes /\ node \in Nodes
          /\ call.key \in Keys
          /\ call.op = "insert" => call.row_offset \in Offsets
    /\ pc = "parent" => separator \in Keys /\ right \in Nodes

\* A leaf has one offset per key, an internal node one child more than keys, and
\* the memory calloc returns is zeroed.
NodeShape ==
    \A n \in Nodes :
        /\ Len(keys[n]) <= MaxKeys
        /\ is_leaf[n] => children[n] = <<>> /\ Len(offsets[n]) = Len(keys[n])
        /\ ~is_leaf[n] => offsets[n] = <<>>
        /\ children[n] # <<>> => Len(children[n]) = Len(keys[n]) + 1
        /\ n \notin used =>
              ~is_leaf[n] /\ keys[n] = <<>> /\ children[n] = <<>>

TypeInv == TypeOK /\ CallOK /\ NodeShape
=============================================================================
