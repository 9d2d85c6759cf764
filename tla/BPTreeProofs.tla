---------------------------- MODULE BPTreeProofs ----------------------------
(***************************************************************************)
(* Types, shape and links of the tree, for every order, set of keys and    *)
(* pattern of failing allocations: no array overflows, insert_into_parent  *)
(* finds the left node among the children of its parent, bptree_destroy    *)
(* frees no node twice, and nodes stay filled.                             *)
(*                                                                         *)
(* Then that the tree is a map while memory lasts: every call is one step  *)
(* of IndexMap, and bptree_destroy leaves nothing behind.  The heart of it *)
(* is which keys a search takes to which node.  Each node has a set of     *)
(* such keys; the children of a node divide its set by the rule of         *)
(* find_leaf_node, the leaves have disjoint sets, and a node holds keys of *)
(* its own set only.  Between the split of a node and the call of          *)
(* insert_into_parent that hangs up the new one, the parent still sends    *)
(* the keys of both to the left one.                                       *)
(*                                                                         *)
(* Last, whatever allocations fail: the leaf chain loses no row, and a     *)
(* tree whose chain stores as many keys as are counted has its keys        *)
(* divided like that, so that bptree_validate says yes to every tree no    *)
(* insertion was given up in, and only to trees that find all their rows.  *)
(* The properties follow pointers by recursion.  What it recurs on is a    *)
(* level for the children and a rank for the next pointers; with these     *)
(* each recursive function is known to satisfy its own equation.           *)
(***************************************************************************)
EXTENDS BPTreeCheck, DataProofs, FiniteSetTheorems

\* The node create_node returns was not in use.
LEMMA FreshIsNew ==
  ASSUME used \subseteq Nodes, CanAllocate
  PROVE  Fresh \in Nodes /\ Fresh \notin used
BY DEF Fresh, CanAllocate

-----------------------------------------------------------------------------
LEMMA InitTypeInv == Init => TypeInv
<1> SUFFICES ASSUME Init PROVE TypeInv
  OBVIOUS
<1> USE DEF Init
<1>1. TypeOK
  BY FailuresAssumption, EmptySeq DEF TypeOK, HeapTypeOK, CallTypeOK, NoCall, NoResult
<1>2. CallOK
  BY DEF CallOK
<1>3. NodeShape
  BY OrderAssumption, EmptySeq DEF NodeShape, MaxKeys
<1> QED BY <1>1, <1>2, <1>3 DEF TypeInv

\* Returning from a call leaves no call behind to be typed.
LEMMA ReturnTyped ==
  ASSUME NEW op \in {"insert", "search", "destroy"}, NEW k \in Nat,
         NEW status \in {"OK", "INDEX_ERROR"}, NEW o \in Offsets \cup {Null},
         Return(op, k, status, o)
  PROVE  CallTypeOK' /\ CallOK'
<1>1. pc' = "idle"
  BY DEF Return
<1> QED BY <1>1 DEF Return, NoCall, CallTypeOK, CallOK

\* A refused insert changes nothing but the count of failures.
LEMMA FailureTyped ==
  ASSUME TypeInv, call.key \in Nat, InsertFails, failures' \in 0..MaxFailures
  PROVE  TypeInv'
<1>1. Return("insert", call.key, "INDEX_ERROR", Null)
  BY DEF InsertFails
<1>2. CallTypeOK' /\ CallOK'
  BY <1>1, ReturnTyped
<1>4. HeapTypeOK'
  BY DEF InsertFails, TypeInv, TypeOK, HeapTypeOK, heap, tree
<1>3. NodeShape'
  BY DEF InsertFails, TypeInv, NodeShape, heap
<1> QED BY <1>2, <1>3, <1>4 DEF TypeInv, TypeOK

LEMMA OutOfMemoryTyped ==
  ASSUME failures \in 0..MaxFailures, OutOfMemory
  PROVE  failures' \in 0..MaxFailures
BY FailuresAssumption DEF OutOfMemory

LEMMA TypeInvStep == TypeInv /\ [Next]_vars => TypeInv'
<1> SUFFICES ASSUME TypeInv, [Next]_vars PROVE TypeInv'
  OBVIOUS
<1> USE OrderAssumption, KeysAssumption, FailuresAssumption, NullAssumption
<1> USE DEF TypeInv, TypeOK, heap, tree, frame
<1>1. ASSUME NEW k \in Keys, NEW o \in Offsets, InsertFirst(k, o)
      PROVE  TypeInv'
  <2>1. Fresh \in Nodes /\ Fresh \notin used
    BY <1>1, FreshIsNew DEF InsertFirst, HeapTypeOK
  <2>2. Return("insert", k, "OK", Null) /\ k \in Nat
    BY <1>1 DEF InsertFirst
  <2>3. HeapTypeOK' /\ CallTypeOK' /\ CallOK'
    <3>1. CallTypeOK' /\ CallOK'
      BY <2>2, ReturnTyped
    <3>2. HeapTypeOK'
      BY <1>1, <2>1 DEF InsertFirst, HeapTypeOK
    <3> QED BY <3>1, <3>2
  <2>4. NodeShape'
    <3>1. Len(<<k>>) = 1 /\ Len(<<o>>) = 1 /\ 1 <= MaxKeys
      BY DEF MaxKeys
    <3>2. children[Fresh] = <<>>
      BY <2>1 DEF NodeShape
    <3> QED BY <1>1, <2>1, <3>1, <3>2 DEF InsertFirst, NodeShape, HeapTypeOK
  <2> QED BY <2>3, <2>4
<1>2. ASSUME NEW k \in Keys, InsertFirstOutOfMemory(k)
      PROVE  TypeInv'
  <2>1. Return("insert", k, "INDEX_ERROR", Null) /\ k \in Nat
    BY <1>2 DEF InsertFirstOutOfMemory
  <2>2. CallTypeOK' /\ CallOK'
    BY <2>1, ReturnTyped
  <2>4. HeapTypeOK'
    BY <1>2, OutOfMemoryTyped DEF InsertFirstOutOfMemory, HeapTypeOK
  <2>3. NodeShape'
    BY <1>2 DEF InsertFirstOutOfMemory, NodeShape
  <2> QED BY <2>2, <2>3, <2>4
<1>3. ASSUME NEW k \in Keys, NEW o \in Offsets, CallInsert(k, o)
      PROVE  TypeInv'
  BY <1>3 DEF CallInsert, HeapTypeOK, CallTypeOK, CallOK, NodeShape
<1>4. ASSUME NEW k \in Keys, SearchEmpty(k)
      PROVE  TypeInv'
  BY <1>4 DEF SearchEmpty, Return, NoCall, HeapTypeOK, CallTypeOK, CallOK, NodeShape
<1>5. ASSUME NEW k \in Keys, CallSearch(k)
      PROVE  TypeInv'
  BY <1>5 DEF CallSearch, HeapTypeOK, CallTypeOK, CallOK, NodeShape
<1>6. CASE DestroyEmpty
  BY <1>6 DEF DestroyEmpty, Return, NoCall, HeapTypeOK, CallTypeOK, CallOK, NodeShape
<1>7. CASE CallDestroy
  BY <1>7 DEF CallDestroy, HeapTypeOK, CallTypeOK, CallOK, NodeShape
<1>8. CASE Descend
  <2>1. PICK i \in 1..Len(children[node]) : node' = children[node][i]
    BY <1>8 DEF Descend
  <2>2. node \in Nodes /\ node' \in Nodes
    BY <1>8, <2>1, ElementOfSeq DEF Descend, HeapTypeOK, CallTypeOK, CallOK
  <2> QED BY <1>8, <2>2 DEF Descend, HeapTypeOK, CallTypeOK, CallOK, NodeShape
<1>9. CASE SearchLeaf
  <2>1. node \in Nodes /\ call.key \in Nat
    BY <1>9 DEF SearchLeaf, CallOK
  <2>2. PICK o \in Offsets \cup {Null} : Return("search", call.key, "OK", o)
    <3>1. \A i \in 1..Len(keys[node]) : offsets[node][i] \in Offsets
      BY <1>9, <2>1, ElementOfSeq DEF SearchLeaf, HeapTypeOK, NodeShape
    <3> QED BY <1>9, <3>1 DEF SearchLeaf
  <2>3. CallTypeOK' /\ CallOK'
    BY <2>1, <2>2, ReturnTyped
  <2>5. HeapTypeOK'
    BY <1>9 DEF SearchLeaf, HeapTypeOK
  <2>4. NodeShape'
    BY <1>9 DEF SearchLeaf, NodeShape
  <2> QED BY <2>3, <2>4, <2>5
<1>10. CASE InsertDuplicate
  <2>1. call.key \in Nat /\ InsertFails /\ failures' \in 0..MaxFailures
    BY <1>10 DEF InsertDuplicate, AtInsertLeaf, CallOK, HeapTypeOK, CallTypeOK
  <2> QED BY <2>1, FailureTyped
<1>11. CASE InsertIntoLeaf
  <2>1. node \in Nodes /\ call.key \in Keys /\ call.row_offset \in Offsets
        /\ is_leaf[node] /\ Len(keys[node]) < MaxKeys
    BY <1>11 DEF InsertIntoLeaf, AtInsertLeaf, CallOK, HasRoom
  <2>2. PICK i \in 1..(Len(keys[node]) + 1) :
           /\ keys' = [keys EXCEPT ![node] = InsertAt(@, i, call.key)]
           /\ offsets' = [offsets EXCEPT ![node] = InsertAt(@, i, call.row_offset)]
    BY <1>11 DEF InsertIntoLeaf
  <2>3. keys[node] \in Seq(Keys) /\ offsets[node] \in Seq(Offsets)
        /\ Len(offsets[node]) = Len(keys[node])
    BY <2>1 DEF HeapTypeOK, NodeShape
  <2>4. /\ InsertAt(keys[node], i, call.key) \in Seq(Keys)
        /\ Len(InsertAt(keys[node], i, call.key)) = Len(keys[node]) + 1
        /\ InsertAt(offsets[node], i, call.row_offset) \in Seq(Offsets)
        /\ Len(InsertAt(offsets[node], i, call.row_offset)) = Len(keys[node]) + 1
    <3>1. i \in 1..(Len(offsets[node]) + 1)
      BY <2>3
    <3> QED BY <2>1, <2>3, <3>1, InsertAtProperties, SMTT(30)
  <2>5. Return("insert", call.key, "OK", Null)
    BY <1>11 DEF InsertIntoLeaf
  <2>6. CallTypeOK' /\ CallOK'
    BY <2>1, <2>5, ReturnTyped
  <2>8. HeapTypeOK'
    BY <1>11, <2>1, <2>2, <2>4 DEF InsertIntoLeaf, HeapTypeOK
  <2>7. NodeShape'
    BY <1>11, <2>1, <2>2, <2>3, <2>4, LenProperties, SMTT(30) DEF InsertIntoLeaf, NodeShape, MaxKeys, HeapTypeOK
  <2> QED BY <2>6, <2>7, <2>8
<1>12. CASE SplitLeaf
  <2> DEFINE left_count == (Len(keys[node]) + 1) \div 2
             total_keys == Len(keys[node]) + 1
  <2>1. node \in Nodes /\ call.key \in Keys /\ call.row_offset \in Offsets
        /\ is_leaf[node] /\ Len(keys[node]) = MaxKeys
    <3>1. node \in Nodes /\ ~(Len(keys[node]) < MaxKeys)
      BY <1>12 DEF SplitLeaf, AtInsertLeaf, CallOK, HasRoom
    <3>2. Len(keys[node]) \in Nat /\ Len(keys[node]) <= MaxKeys
      BY <3>1, LenProperties DEF HeapTypeOK, NodeShape
    <3>3. Len(keys[node]) = MaxKeys
      BY <3>1, <3>2 DEF MaxKeys
    <3> QED BY <1>12, <3>3 DEF SplitLeaf, AtInsertLeaf, CallOK
  <2>2. Fresh \in Nodes /\ Fresh \notin used /\ Fresh # node
    BY <1>12, <2>1, FreshIsNew DEF SplitLeaf, HeapTypeOK, NodeShape
  <2>3. total_keys \in Nat /\ left_count \in 1..MaxKeys /\ total_keys - left_count \in 1..MaxKeys
    BY <2>1 DEF MaxKeys
  <2>4. keys[node] \in Seq(Keys) /\ offsets[node] \in Seq(Offsets)
        /\ Len(offsets[node]) = Len(keys[node]) /\ children[node] = <<>>
    BY <2>1 DEF HeapTypeOK, NodeShape
  <2>5. PICK i \in 1..total_keys :
           /\ keys' = [keys EXCEPT
                 ![node] = SubSeq(InsertAt(keys[node], i, call.key), 1, left_count),
                 ![Fresh] = SubSeq(InsertAt(keys[node], i, call.key), left_count + 1, total_keys)]
           /\ offsets' = [offsets EXCEPT
                 ![node] = SubSeq(InsertAt(offsets[node], i, call.row_offset), 1, left_count),
                 ![Fresh] = SubSeq(InsertAt(offsets[node], i, call.row_offset),
                                   left_count + 1, total_keys)]
           /\ separator' = InsertAt(keys[node], i, call.key)[left_count + 1]
    BY <1>12 DEF SplitLeaf, Half
  <2> DEFINE temp_keys == InsertAt(keys[node], i, call.key)
             temp_offsets == InsertAt(offsets[node], i, call.row_offset)
  <2>6. temp_keys \in Seq(Keys) /\ Len(temp_keys) = total_keys
    BY <2>1, <2>4, <2>5, InsertAtProperties
  <2>7. temp_offsets \in Seq(Offsets) /\ Len(temp_offsets) = total_keys
    <3>1. i \in 1..(Len(offsets[node]) + 1)
      BY <2>4, <2>5
    <3>2. /\ InsertAt(offsets[node], i, call.row_offset) \in Seq(Offsets)
          /\ Len(InsertAt(offsets[node], i, call.row_offset)) = Len(offsets[node]) + 1
      BY <2>1, <2>4, <3>1, InsertAtProperties
    <3> QED BY <2>4, <3>2
  <2> HIDE DEF temp_keys, temp_offsets, left_count, total_keys
  <2>8. temp_keys[left_count + 1] \in Keys
    <3>1. left_count + 1 \in 1..Len(temp_keys)
      BY <2>3, <2>6 DEF MaxKeys
    <3> QED BY <2>6, <3>1, ElementOfSeq
  <2>9. /\ SubSeq(temp_keys, 1, left_count) \in Seq(Keys)
        /\ Len(SubSeq(temp_keys, 1, left_count)) = left_count
        /\ SubSeq(temp_keys, left_count + 1, total_keys) \in Seq(Keys)
        /\ Len(SubSeq(temp_keys, left_count + 1, total_keys)) = total_keys - left_count
    BY <2>3, <2>6, SubSeqTyped DEF MaxKeys
  <2>10. /\ SubSeq(temp_offsets, 1, left_count) \in Seq(Offsets)
         /\ Len(SubSeq(temp_offsets, 1, left_count)) = left_count
         /\ SubSeq(temp_offsets, left_count + 1, total_keys) \in Seq(Offsets)
         /\ Len(SubSeq(temp_offsets, left_count + 1, total_keys)) = total_keys - left_count
    BY <2>3, <2>7, SubSeqTyped DEF MaxKeys
  <2>11. /\ keys' = [keys EXCEPT
               ![node] = SubSeq(temp_keys, 1, left_count),
               ![Fresh] = SubSeq(temp_keys, left_count + 1, total_keys)]
         /\ offsets' = [offsets EXCEPT
               ![node] = SubSeq(temp_offsets, 1, left_count),
               ![Fresh] = SubSeq(temp_offsets, left_count + 1, total_keys)]
         /\ separator' = temp_keys[left_count + 1]
    BY <2>5 DEF temp_keys, temp_offsets, left_count, total_keys
  <2>12. HeapTypeOK'
    <3>1. keys' \in [Nodes -> Seq(Keys)] /\ offsets' \in [Nodes -> Seq(Offsets)]
      BY <2>9, <2>10, <2>11 DEF HeapTypeOK
    <3>2. parent' \in [Nodes -> Nodes \cup {Null}] /\ next' \in [Nodes -> Nodes \cup {Null}]
      BY <1>12, <2>1, <2>2 DEF SplitLeaf, HeapTypeOK, LinkedAfter
    <3> QED BY <1>12, <2>2, <3>1, <3>2 DEF SplitLeaf, HeapTypeOK
  <2>13. CallTypeOK' /\ CallOK'
    BY <1>12, <2>1, <2>2, <2>8, <2>11 DEF SplitLeaf, AtInsertLeaf, CallTypeOK, CallOK
  <2>14. NodeShape'
    <3>1. \A n \in Nodes \ {node, Fresh} :
             keys'[n] = keys[n] /\ offsets'[n] = offsets[n] /\ is_leaf'[n] = is_leaf[n]
      BY <1>12, <2>1, <2>2, <2>11, ZenonT(40) DEF SplitLeaf, HeapTypeOK
    <3>2. /\ Len(keys'[node]) = left_count /\ Len(offsets'[node]) = left_count
          /\ Len(keys'[Fresh]) = total_keys - left_count
          /\ Len(offsets'[Fresh]) = total_keys - left_count
      BY <2>1, <2>2, <2>9, <2>10, <2>11 DEF HeapTypeOK
    <3>3. is_leaf'[node] /\ is_leaf'[Fresh] /\ node \in used /\ children[Fresh] = <<>>
      BY <1>12, <2>1, <2>2 DEF SplitLeaf, HeapTypeOK, NodeShape
    <3>4. used' = used \cup {Fresh} /\ children' = children
      BY <1>12 DEF SplitLeaf
    <3> QED BY <2>3, <2>4, <3>1, <3>2, <3>3, <3>4, SMTT(30) DEF NodeShape
  <2> QED BY <2>12, <2>13, <2>14
<1>13. CASE SplitLeafOutOfMemory
  <2>1. call.key \in Nat /\ InsertFails /\ failures' \in 0..MaxFailures
    BY <1>13, OutOfMemoryTyped DEF SplitLeafOutOfMemory, AtInsertLeaf, CallOK, HeapTypeOK, CallTypeOK
  <2> QED BY <2>1, FailureTyped
<1>14. CASE NewRoot
  <2>1. node \in Nodes /\ right \in Nodes /\ separator \in Keys /\ call.key \in Nat
    BY <1>14 DEF NewRoot, CallOK
  <2>2. Fresh \in Nodes /\ Fresh \notin used
    BY <1>14, FreshIsNew DEF NewRoot, HeapTypeOK
  <2>3. Return("insert", call.key, "OK", Null)
    BY <1>14 DEF NewRoot, InsertSucceeds
  <2>4. CallTypeOK' /\ CallOK'
    BY <2>1, <2>3, ReturnTyped
  <2>5. HeapTypeOK'
    <3>1. <<separator>> \in Seq(Keys) /\ <<node, right>> \in Seq(Nodes)
      BY <2>1
    <3>2. /\ keys' \in [Nodes -> Seq(Keys)] /\ children' \in [Nodes -> Seq(Nodes)]
          /\ parent' \in [Nodes -> Nodes \cup {Null}]
      BY <1>14, <2>1, <2>2, <3>1 DEF NewRoot, HeapTypeOK
    <3>3. /\ used' = used \cup {Fresh} /\ root' = Fresh /\ key_count' = key_count + 1
          /\ UNCHANGED <<is_leaf, offsets, next, failures, doomed>>
      BY <1>14 DEF NewRoot, InsertSucceeds
    <3> QED BY <2>2, <3>2, <3>3 DEF HeapTypeOK
  <2>6. NodeShape'
    <3>1. Len(<<separator>>) = 1 /\ Len(<<node, right>>) = 2 /\ 1 <= MaxKeys
      BY DEF MaxKeys
    <3>2. offsets[Fresh] = <<>> /\ ~is_leaf[Fresh]
      BY <2>2 DEF NodeShape
    <3>3. /\ used' = used \cup {Fresh} /\ is_leaf' = is_leaf /\ offsets' = offsets
          /\ keys' = [keys EXCEPT ![Fresh] = <<separator>>]
          /\ children' = [children EXCEPT ![Fresh] = <<node, right>>]
      BY <1>14 DEF NewRoot
    <3>4. keys'[Fresh] = <<separator>> /\ children'[Fresh] = <<node, right>>
      BY <2>2, <3>3 DEF HeapTypeOK
    <3>5. \A n \in Nodes \ {Fresh} : keys'[n] = keys[n] /\ children'[n] = children[n]
      BY <2>2, <3>3 DEF HeapTypeOK
    <3> QED BY <2>2, <3>1, <3>2, <3>3, <3>4, <3>5 DEF NodeShape
  <2> QED BY <2>4, <2>5, <2>6
<1>15. CASE InsertIntoInternalNode
  <2> DEFINE p == parent[node]
  <2>1. node \in Nodes /\ right \in Nodes /\ separator \in Keys /\ call.key \in Nat
    BY <1>15 DEF InsertIntoInternalNode, CallOK
  <2>2. p \in Nodes /\ Len(keys[p]) < MaxKeys
    BY <1>15, <2>1 DEF InsertIntoInternalNode, HeapTypeOK, HasRoom
  <2>3. PICK i \in 1..Len(children[p]) :
           /\ keys' = [keys EXCEPT ![p] = InsertAt(@, i, separator)]
           /\ children' = [children EXCEPT ![p] = InsertAt(@, i + 1, right)]
    BY <1>15 DEF InsertIntoInternalNode
  <2>4. Return("insert", call.key, "OK", Null) /\ key_count' = key_count + 1
        /\ parent' = [parent EXCEPT ![right] = p]
        /\ UNCHANGED <<used, is_leaf, offsets, next, root, failures, doomed>>
    BY <1>15 DEF InsertIntoInternalNode, InsertSucceeds, GivenParent
  <2> HIDE DEF p
  <2>5. keys[p] \in Seq(Keys) /\ children[p] \in Seq(Nodes)
    BY <2>2 DEF HeapTypeOK
  <2>6. Len(children[p]) = Len(keys[p]) + 1 /\ ~is_leaf[p] /\ children[p] # <<>>
    BY <2>2, <2>3, <2>5, LenProperties, EmptySeq DEF NodeShape
  <2>7. /\ InsertAt(keys[p], i, separator) \in Seq(Keys)
        /\ Len(InsertAt(keys[p], i, separator)) = Len(keys[p]) + 1
    <3>1. i \in 1..(Len(keys[p]) + 1)
      BY <2>3, <2>6
    <3> QED BY <2>1, <2>5, <3>1, InsertAtProperties
  <2>8. /\ InsertAt(children[p], i + 1, right) \in Seq(Nodes)
        /\ Len(InsertAt(children[p], i + 1, right)) = Len(children[p]) + 1
    <3>1. i + 1 \in 1..(Len(children[p]) + 1)
      BY <2>3, <2>5, LenProperties
    <3> QED BY <2>1, <2>5, <3>1, InsertAtProperties
  <2>9. CallTypeOK' /\ CallOK'
    BY <2>1, <2>4, ReturnTyped
  <2>10. HeapTypeOK'
    <3>1. keys' \in [Nodes -> Seq(Keys)] /\ children' \in [Nodes -> Seq(Nodes)]
      BY <2>2, <2>3, <2>7, <2>8 DEF HeapTypeOK
    <3>2. parent' \in [Nodes -> Nodes \cup {Null}]
      BY <2>1, <2>2, <2>4 DEF HeapTypeOK
    <3>3. /\ key_count' = key_count + 1
          /\ used' = used /\ is_leaf' = is_leaf /\ offsets' = offsets /\ next' = next
          /\ root' = root /\ failures' = failures /\ doomed' = doomed
      BY <2>4
    <3>4. /\ used' \subseteq Nodes /\ is_leaf' \in [Nodes -> BOOLEAN]
          /\ offsets' \in [Nodes -> Seq(Offsets)] /\ next' \in [Nodes -> Nodes \cup {Null}]
      BY <3>3 DEF HeapTypeOK
    <3>5. /\ root' \in Nodes \cup {Null} /\ key_count' \in Nat
          /\ failures' \in 0..MaxFailures /\ doomed' \subseteq Nodes
      BY <3>3 DEF HeapTypeOK
    <3> QED BY <3>1, <3>2, <3>4, <3>5 DEF HeapTypeOK
  <2>11. NodeShape'
    <3>1. \A n \in Nodes \ {p} : keys'[n] = keys[n] /\ children'[n] = children[n]
      BY <2>2, <2>3 DEF HeapTypeOK
    <3>2. Len(keys'[p]) = Len(keys[p]) + 1 /\ Len(children'[p]) = Len(children[p]) + 1
      BY <2>2, <2>3, <2>7, <2>8 DEF HeapTypeOK
    <3>3. p \in used
      BY <2>2, <2>6 DEF NodeShape
    <3>4. Len(keys[p]) \in Nat /\ MaxKeys \in Nat
      BY <2>5, LenProperties DEF MaxKeys
    <3>5. children'[p] # <<>>
      BY <2>5, <2>6, <3>2, <3>4, EmptySeq
    <3>6. UNCHANGED <<used, is_leaf, offsets>>
      BY <2>4
    <3> DEFINE Shaped(n) ==
                /\ Len(keys[n]) <= MaxKeys
                /\ is_leaf[n] => children[n] = <<>> /\ Len(offsets[n]) = Len(keys[n])
                /\ ~is_leaf[n] => offsets[n] = <<>>
                /\ children[n] # <<>> => Len(children[n]) = Len(keys[n]) + 1
                /\ n \notin used =>
                      ~is_leaf[n] /\ keys[n] = <<>> /\ children[n] = <<>>
    <3>7. \A n \in Nodes : Shaped(n)
      BY DEF NodeShape
    <3>8. \A n \in Nodes \ {p} : Shaped(n)'
      BY <3>1, <3>6, <3>7
    <3>9. \A n \in {p} : Shaped(n)'
      <4>1. Len(keys'[p]) <= MaxKeys /\ Len(children'[p]) = Len(keys'[p]) + 1
        BY <2>2, <2>6, <3>2, <3>4, <3>7
      <4>2. offsets[p] = <<>>
        BY <2>2, <2>6, <3>7
      <4>3. ~is_leaf'[p] /\ offsets'[p] = <<>> /\ p \in used'
        BY <2>6, <3>3, <3>6, <4>2
      <4> QED BY <4>1, <4>3
    <3> QED BY <3>8, <3>9 DEF NodeShape
  <2> QED BY <2>9, <2>10, <2>11
<1>16. CASE SplitInternal
  <2> DEFINE p == parent[node]
             total_keys == Len(keys[p]) + 1
             split_index == total_keys \div 2
  <2>1. node \in Nodes /\ right \in Nodes /\ separator \in Keys /\ call.key \in Keys
        /\ root \in Nodes /\ (call.op = "insert" => call.row_offset \in Offsets)
    BY <1>16 DEF SplitInternal, CallOK
  <2>2. p \in Nodes /\ Len(keys[p]) = MaxKeys
    <3>1. p \in Nodes /\ ~(Len(keys[p]) < MaxKeys)
      BY <1>16, <2>1 DEF SplitInternal, HeapTypeOK, HasRoom
    <3>2. Len(keys[p]) \in Nat /\ Len(keys[p]) <= MaxKeys
      BY <3>1, LenProperties DEF HeapTypeOK, NodeShape
    <3> QED BY <3>1, <3>2 DEF MaxKeys
  <2>3. Fresh \in Nodes /\ Fresh \notin used
    BY <1>16, FreshIsNew DEF SplitInternal, HeapTypeOK
  <2>4. PICK i \in 1..Len(children[p]) :
           LET temp_keys == InsertAt(keys[p], i, separator)
               temp_children == InsertAt(children[p], i + 1, right)
               left_part == SubSeq(temp_children, 1, split_index + 1)
               right_part == RightChildren(temp_children, split_index)
           IN /\ keys' = [keys EXCEPT
                    ![p] = SubSeq(temp_keys, 1, split_index),
                    ![Fresh] = SubSeq(temp_keys, split_index + 2, total_keys)]
              /\ children' = [children EXCEPT ![p] = left_part, ![Fresh] = right_part]
              /\ parent' = Adopted(p, Fresh, left_part, right_part)
              /\ separator' = temp_keys[split_index + 1]
    BY <1>16 DEF SplitInternal, Half, TempChildren
  <2>5. /\ node' = p /\ right' = Fresh /\ used' = used \cup {Fresh}
        /\ UNCHANGED <<is_leaf, offsets, next, root, key_count, failures, doomed, pc, call, result>>
    BY <1>16 DEF SplitInternal
  <2> DEFINE temp_keys == InsertAt(keys[p], i, separator)
             temp_children == InsertAt(children[p], i + 1, right)
             left_keys == SubSeq(temp_keys, 1, split_index)
             right_keys == SubSeq(temp_keys, split_index + 2, total_keys)
             left_part == SubSeq(temp_children, 1, split_index + 1)
             right_part == RightChildren(temp_children, split_index)
  <2>6. /\ keys' = [keys EXCEPT ![p] = left_keys, ![Fresh] = right_keys]
        /\ children' = [children EXCEPT ![p] = left_part, ![Fresh] = right_part]
        /\ parent' = Adopted(p, Fresh, left_part, right_part)
        /\ separator' = temp_keys[split_index + 1]
    BY <2>4
  <2> HIDE DEF p
  <2>7. keys[p] \in Seq(Keys) /\ children[p] \in Seq(Nodes)
    BY <2>2 DEF HeapTypeOK
  <2>8. Len(children[p]) = Len(keys[p]) + 1 /\ ~is_leaf[p]
    <3>1. i \in 1..Len(children[p])
      BY <2>4
    <3>2. children[p] # <<>>
      BY <2>7, <3>1, LenProperties, EmptySeq
    <3> QED BY <2>2, <3>2 DEF NodeShape
  <2>9. /\ total_keys \in Nat /\ split_index \in Nat
        /\ 1 <= split_index /\ split_index + 1 <= total_keys
        /\ total_keys = MaxKeys + 1
    BY <2>2 DEF MaxKeys
  <2>10. temp_keys \in Seq(Keys) /\ Len(temp_keys) = total_keys
    <3>1. i \in 1..(Len(keys[p]) + 1)
      BY <2>4, <2>8
    <3>2. /\ InsertAt(keys[p], i, separator) \in Seq(Keys)
          /\ Len(InsertAt(keys[p], i, separator)) = Len(keys[p]) + 1
      BY <2>1, <2>7, <3>1, InsertAtProperties
    <3> QED BY <3>2
  <2>11. temp_children \in Seq(Nodes) /\ Len(temp_children) = total_keys + 1
    <3>1. i + 1 \in 1..(Len(children[p]) + 1)
      BY <2>4, <2>7, LenProperties
    <3>2. temp_children \in Seq(Nodes) /\ Len(temp_children) = Len(children[p]) + 1
      BY <2>1, <2>7, <3>1, InsertAtProperties, SMTT(30)
    <3> QED BY <2>8, <3>2
  <2> HIDE DEF temp_keys, temp_children, total_keys, split_index
  <2>12. /\ left_keys \in Seq(Keys) /\ Len(left_keys) = split_index
         /\ right_keys \in Seq(Keys) /\ Len(right_keys) = total_keys - split_index - 1
    BY <2>9, <2>10, SubSeqTyped
  <2>13. /\ left_part \in Seq(Nodes) /\ Len(left_part) = split_index + 1
         /\ right_part \in Seq(Nodes) /\ Len(right_part) = total_keys - split_index
    BY <2>9, <2>11, SubSeqTyped DEF RightChildren
  <2>14. temp_keys[split_index + 1] \in Keys
    BY <2>9, <2>10, ElementOfSeq
  <2> HIDE DEF left_keys, right_keys, left_part, right_part
  <2>15. p # Fresh
    BY <2>2, <2>3, <2>4, <2>7, LenProperties, EmptySeq DEF NodeShape
  <2>16. HeapTypeOK'
    <3>1. keys' \in [Nodes -> Seq(Keys)] /\ children' \in [Nodes -> Seq(Nodes)]
      BY <2>2, <2>3, <2>6, <2>12, <2>13 DEF HeapTypeOK
    <3>2. parent[p] \in Nodes \cup {Null} /\ \A n \in Nodes : parent[n] \in Nodes \cup {Null}
      BY <2>2 DEF HeapTypeOK
    <3>3. parent' \in [Nodes -> Nodes \cup {Null}]
      BY <2>2, <2>3, <2>6, <3>2 DEF Adopted
    <3>4. /\ used' = used \cup {Fresh} /\ is_leaf' = is_leaf /\ offsets' = offsets
          /\ next' = next /\ root' = root /\ key_count' = key_count
          /\ failures' = failures /\ doomed' = doomed
      BY <2>5
    <3> QED BY <2>3, <3>1, <3>3, <3>4 DEF HeapTypeOK
  <2>17. CallTypeOK' /\ CallOK'
    BY <1>16, <2>1, <2>2, <2>3, <2>5, <2>6, <2>14 DEF CallTypeOK, CallOK, SplitInternal
  <2>18. NodeShape'
    <3>1. \A n \in Nodes \ {p, Fresh} : keys'[n] = keys[n] /\ children'[n] = children[n]
      BY <2>2, <2>3, <2>6 DEF HeapTypeOK
    <3>2. /\ keys'[p] = left_keys /\ children'[p] = left_part
          /\ keys'[Fresh] = right_keys /\ children'[Fresh] = right_part
      BY <2>2, <2>3, <2>6, <2>15 DEF HeapTypeOK
    <3>3. ~is_leaf[Fresh] /\ offsets[Fresh] = <<>>
      BY <2>3 DEF NodeShape
    <3>4. p \in used
      BY <2>2, <2>4, <2>7, LenProperties, EmptySeq DEF NodeShape
    <3>5. UNCHANGED <<is_leaf, offsets>> /\ used' = used \cup {Fresh}
      BY <2>5
    <3>6. Len(<<>>) = 0 /\ split_index \in Nat /\ MaxKeys \in Nat
      BY <2>9 DEF MaxKeys
    <3>7. /\ Len(keys'[p]) <= MaxKeys /\ Len(children'[p]) = Len(keys'[p]) + 1
          /\ Len(keys'[Fresh]) <= MaxKeys /\ Len(children'[Fresh]) = Len(keys'[Fresh]) + 1
      BY <2>9, <2>12, <2>13, <3>2, <3>6
    <3>8. ~is_leaf'[p] /\ ~is_leaf'[Fresh] /\ offsets'[p] = <<>> /\ offsets'[Fresh] = <<>>
      BY <2>2, <2>8, <3>3, <3>5 DEF NodeShape
    <3>9. /\ p \in used' /\ Fresh \in used'
          /\ \A n \in Nodes \ {p, Fresh} : n \notin used' => n \notin used
      BY <3>4, <3>5
    <3> QED BY <3>1, <3>5, <3>7, <3>8, <3>9 DEF NodeShape
  <2> QED BY <2>16, <2>17, <2>18
<1>17. CASE InsertIntoParentFails
  <2>1. call.key \in Nat /\ InsertFails /\ failures' \in 0..MaxFailures
    BY <1>17, OutOfMemoryTyped DEF InsertIntoParentFails, CallOK, HeapTypeOK, CallTypeOK
  <2> QED BY <2>1, FailureTyped
<1>18. CASE DestroyNode
  <2>1. PICK n \in doomed : n = (CHOOSE m \in doomed : TRUE)
    BY <1>18 DEF DestroyNode
  <2>2. n \in Nodes /\ ChildrenToFree(n) \subseteq Nodes
    BY <2>1, ElementOfSeq, LenProperties DEF HeapTypeOK, ChildrenToFree, ToSet
  <2>3. TypeOK'
    BY <1>18, <2>1, <2>2, EmptySeq DEF DestroyNode, HeapTypeOK, CallTypeOK
  <2>4. NodeShape'
    BY <1>18, <2>1, <2>2, EmptySeq DEF DestroyNode, NodeShape, HeapTypeOK, MaxKeys
  <2>5. CallOK'
    BY <1>18 DEF DestroyNode, CallOK
  <2> QED BY <2>3, <2>4, <2>5
<1>19. CASE DestroyReturns
  BY <1>19 DEF DestroyReturns, HeapTypeOK, CallTypeOK, CallOK, NodeShape
<1>20. CASE UNCHANGED vars
  BY <1>20 DEF vars, HeapTypeOK, CallTypeOK, CallOK, NodeShape
<1> QED
  BY <1>1, <1>2, <1>3, <1>4, <1>5, <1>6, <1>7, <1>8, <1>9, <1>10, <1>11, <1>12, <1>13,
     <1>14, <1>15, <1>16, <1>17, <1>18, <1>19, <1>20 DEF Next, Call, Step

\* Every field and every call keeps its type, whatever the callers do and whichever
\* allocations fail (src/bptree.c).
THEOREM TypeCorrect == Spec => []TypeInv
<1>1. Init => TypeInv
  BY InitTypeInv
<1>2. TypeInv /\ [Next]_vars => TypeInv'
  BY TypeInvStep
<1> QED BY <1>1, <1>2, PTL DEF Spec

\* No insert or split writes past keys[], row_offsets[] or children[] of a node, for
\* every order and every heap (insert_into_leaf, insert_into_internal_node, the splits).
THEOREM ArraysNeverOverflow == Spec => []WithinArrays
<1>1. Init => TypeInv
  BY InitTypeInv
<1>2. TypeInv /\ [Next]_vars => TypeInv'
  BY TypeInvStep
<1>3. TypeInv => WithinArrays
  <2> SUFFICES ASSUME TypeInv, NEW n \in Nodes
               PROVE  /\ Len(keys[n]) <= MaxKeys
                      /\ Len(offsets[n]) <= MaxKeys
                      /\ Len(children[n]) <= Order
    BY DEF WithinArrays
  <2>1. Len(keys[n]) \in Nat /\ Len(offsets[n]) \in Nat /\ Len(children[n]) \in Nat
    BY LenProperties DEF TypeInv, TypeOK, HeapTypeOK
  <2>2. Len(<<>>) = 0
    OBVIOUS
  <2> QED BY <2>1, <2>2, OrderAssumption DEF TypeInv, NodeShape, MaxKeys
<1> QED BY <1>1, <1>2, <1>3, PTL DEF Spec

-----------------------------------------------------------------------------
(* The links.  A failed split leaves nodes that know a parent which does   *)
(* not know them.  What saves the code is that no call can come to such a  *)
(* node: calls start at the root and follow child arrays, and every node   *)
(* in a child array has the owner of that array as its parent.             *)

Kids(n) == ToSet(children[n])

\* The nodes that every set with the root and the children of its members contains.
IsClosed(T) == root \in T /\ \A m \in T : Kids(m) \subseteq T
Reached(n) == n \in Nodes /\ \A T \in SUBSET Nodes : IsClosed(T) => n \in T

\* A node in a child array has the owner of the array as its parent ...
KidsKnowParent == \A m \in Nodes : \A c \in Kids(m) : parent[c] = m

\* ... and is in it once.
KidsDiffer == \A m \in Nodes : IsInjective(children[m])

\* Freed memory is neither pointed to by a child array nor points to a parent.
OnlyUsed ==
    /\ \A m \in Nodes : Kids(m) \subseteq used
    /\ \A m \in Nodes \ used : parent[m] = Null

RootIsTop == pc # "destroy" /\ root # Null => root \in used /\ parent[root] = Null

CursorReached == pc \in {"descend", "parent"} => Reached(node)

\* The node insert_into_parent has to hang up hangs nowhere yet.
RightIsLoose ==
    pc = "parent" => right \in used /\ right # root /\ \A m \in Nodes : right \notin Kids(m)

\* destroy_node is called for nodes whose parent is gone.
DoomedAreLoose ==
    IF pc = "destroy" THEN doomed \subseteq used /\ \A m \in Nodes : Kids(m) \cap doomed = {}
    ELSE doomed = {}

LinkInv ==
    /\ TypeInv
    /\ KidsKnowParent /\ KidsDiffer /\ OnlyUsed /\ RootIsTop
    /\ CursorReached /\ RightIsLoose /\ DoomedAreLoose

-----------------------------------------------------------------------------
\* Inserting a new element at a position keeps the elements apart.
LEMMA InsertAtInjective ==
  ASSUME NEW S, NEW s \in Seq(S), NEW i \in 1..(Len(s) + 1), NEW e \in S,
         IsInjective(s), e \notin ToSet(s)
  PROVE  /\ IsInjective(InsertAt(s, i, e))
         /\ ToSet(InsertAt(s, i, e)) = ToSet(s) \cup {e}
<1> DEFINE t == InsertAt(s, i, e)
<1>1. /\ t \in Seq(S) /\ Len(t) = Len(s) + 1
      /\ \A j \in 1..(Len(s) + 1) : t[j] = IF j < i THEN s[j] ELSE IF j = i THEN e ELSE s[j - 1]
  <2>1. t \in Seq(S) /\ InsertsAt(t, s, i, e)
    BY InsertAtInserts
  <2> QED BY <2>1 DEF InsertsAt
<1>2. DOMAIN s = 1..Len(s) /\ Len(s) \in Nat /\ DOMAIN t = 1..(Len(s) + 1)
  BY <1>1, LenProperties
<1>3. \A j \in 1..Len(s) : s[j] # e
  BY <1>2 DEF ToSet
<1> HIDE DEF t
<1>4. \A j \in 1..(Len(s) + 1) :
         \/ j < i /\ j \in 1..Len(s) /\ t[j] = s[j]
         \/ j = i /\ t[j] = e
         \/ i < j /\ j - 1 \in 1..Len(s) /\ t[j] = s[j - 1]
  BY <1>1, <1>2
<1>5. \A a, b \in 1..Len(s) : s[a] = s[b] => a = b
  BY <1>2 DEF IsInjective
<1>6. IsInjective(t)
  <2> SUFFICES ASSUME NEW a \in 1..(Len(s) + 1), NEW b \in 1..(Len(s) + 1), t[a] = t[b]
               PROVE  a = b
    BY <1>2 DEF IsInjective
  <2>1. CASE a = i
    BY <2>1, <1>3, <1>4
  <2>2. CASE b = i
    BY <2>2, <1>3, <1>4
  <2>3. CASE a < i /\ b < i
    BY <2>3, <1>4, <1>5
  <2>4. CASE i < a /\ i < b
    <3>1. a - 1 \in 1..Len(s) /\ b - 1 \in 1..Len(s) /\ s[a - 1] = s[b - 1]
      BY <2>4, <1>4
    <3>2. a - 1 = b - 1
      BY <3>1, <1>5
    <3> QED BY <3>2
  <2>5. CASE a < i /\ i < b
    <3>1. a \in 1..Len(s) /\ b - 1 \in 1..Len(s) /\ s[a] = s[b - 1]
      BY <2>5, <1>4
    <3>2. a = b - 1
      BY <3>1, <1>5
    <3> QED BY <3>2, <2>5
  <2>6. CASE i < a /\ b < i
    <3>1. a - 1 \in 1..Len(s) /\ b \in 1..Len(s) /\ s[a - 1] = s[b]
      BY <2>6, <1>4
    <3>2. a - 1 = b
      BY <3>1, <1>5
    <3> QED BY <3>2, <2>6
  <2> QED BY <2>1, <2>2, <2>3, <2>4, <2>5, <2>6
<1>7. ToSet(t) \subseteq ToSet(s) \cup {e}
  BY <1>2, <1>4 DEF ToSet
<1>8. e \in ToSet(t)
  <2>1. i \in 1..(Len(s) + 1) /\ t[i] = e
    BY <1>1
  <2> QED BY <2>1, <1>2 DEF ToSet
<1>9. ASSUME NEW j \in 1..Len(s) PROVE s[j] \in ToSet(t)
  <2>1. CASE j < i
    <3>1. j \in 1..(Len(s) + 1) /\ t[j] = s[j]
      BY <2>1, <1>1, <1>2
    <3> QED BY <3>1, <1>2 DEF ToSet
  <2>2. CASE ~(j < i)
    <3>1. j + 1 \in 1..(Len(s) + 1) /\ ~(j + 1 < i) /\ j + 1 # i /\ (j + 1) - 1 = j
      BY <2>2, <1>2
    <3>2. t[j + 1] = s[j]
      BY <3>1, <1>1
    <3> QED BY <3>1, <3>2, <1>2 DEF ToSet
  <2> QED BY <2>1, <2>2
<1>10. ToSet(s) \subseteq ToSet(t)
  BY <1>2, <1>9 DEF ToSet
<1> QED BY <1>6, <1>7, <1>8, <1>10 DEF t

\* Cutting a sequence without repetitions in two keeps its elements apart (the loops that
\* fill the two halves of a split).
LEMMA CutInTwo ==
  ASSUME NEW S, NEW s \in Seq(S), NEW k \in Nat, k <= Len(s), IsInjective(s)
  PROVE  LET front == SubSeq(s, 1, k)
             back == SubSeq(s, k + 1, Len(s))
         IN /\ IsInjective(front) /\ IsInjective(back)
            /\ ToSet(front) \cap ToSet(back) = {}
            /\ ToSet(front) \cup ToSet(back) \subseteq ToSet(s)
<1> DEFINE front == SubSeq(s, 1, k)
           back == SubSeq(s, k + 1, Len(s))
           len == Len(s)
<1>1. len \in Nat /\ DOMAIN s = 1..len /\ \A j \in 1..len : s[j] \in S
  BY LenProperties, ElementOfSeq
<1>2. front \in Seq(S) /\ Len(front) = k /\ \A j \in 1..k : front[j] = s[j]
  <2>1. \A j \in 1..k : s[j] \in S
    BY <1>1
  <2>2. /\ front \in Seq(S) /\ Len(front) = IF 1 <= k THEN k - 1 + 1 ELSE 0
        /\ \A j \in 1..(k - 1 + 1) : front[j] = s[1 + j - 1]
    BY <2>1, SubSeqProperties
  <2> QED BY <2>2
<1>3. /\ back \in Seq(S) /\ Len(back) = len - k
      /\ \A j \in 1..(len - k) : back[j] = s[k + j]
  <2>1. \A j \in (k + 1)..len : s[j] \in S
    BY <1>1
  <2>2. /\ back \in Seq(S) /\ Len(back) = IF k + 1 <= len THEN len - (k + 1) + 1 ELSE 0
        /\ \A j \in 1..(len - (k + 1) + 1) : back[j] = s[k + 1 + j - 1]
    BY <2>1, <1>1, SubSeqProperties
  <2>3. Len(back) = len - k
    <3>1. Len(back) = IF k + 1 <= len THEN len - (k + 1) + 1 ELSE 0
      BY <2>2
    <3> HIDE DEF back, len
    <3>2. k <= len
      BY DEF len
    <3> QED BY <1>1, <3>1, <3>2
  <2>4. \A j \in 1..(len - k) : back[j] = s[k + j]
    <3> TAKE j \in 1..(len - k)
    <3>1. j \in 1..(len - (k + 1) + 1) /\ k + 1 + j - 1 = k + j
      BY <1>1
    <3> QED BY <3>1, <2>2
  <2> QED BY <2>2, <2>3, <2>4
<1>4. DOMAIN front = 1..k /\ DOMAIN back = 1..(len - k)
  BY <1>2, <1>3, LenProperties
<1>5. \A a, b \in 1..len : s[a] = s[b] => a = b
  BY <1>1 DEF IsInjective
<1> HIDE DEF front, back, len
<1>6. IsInjective(front)
  <2>1. \A a \in 1..k : a \in 1..len
    BY <1>1 DEF len
  <2> QED BY <1>2, <1>4, <1>5, <2>1 DEF IsInjective
<1>7. \A a \in 1..(len - k) : k + a \in 1..len
  BY <1>1
<1>8. IsInjective(back)
  <2> SUFFICES ASSUME NEW a \in 1..(len - k), NEW b \in 1..(len - k), back[a] = back[b]
               PROVE  a = b
    BY <1>4 DEF IsInjective
  <2>1. k + a = k + b
    BY <1>3, <1>5, <1>7
  <2> QED BY <2>1
<1>9. ToSet(front) \cap ToSet(back) = {}
  <2> SUFFICES ASSUME NEW a \in 1..k, NEW b \in 1..(len - k), front[a] = back[b]
               PROVE  FALSE
    BY <1>4 DEF ToSet
  <2>1. a \in 1..len /\ k + b \in 1..len /\ s[a] = s[k + b]
    BY <1>1, <1>2, <1>3, <1>7 DEF len
  <2>2. a = k + b
    BY <2>1, <1>5
  <2> QED BY <2>2
<1>10. ToSet(front) \subseteq ToSet(s)
  <2>1. \A a \in 1..k : a \in 1..len
    BY <1>1 DEF len
  <2> QED BY <2>1, <1>1, <1>2, <1>4 DEF ToSet
<1>11. ToSet(back) \subseteq ToSet(s)
  BY <1>1, <1>3, <1>4, <1>7 DEF ToSet
<1> QED BY <1>6, <1>8, <1>9, <1>10, <1>11 DEF front, back, len

-----------------------------------------------------------------------------
LEMMA KidsAreNodes ==
  ASSUME TypeInv, NEW m \in Nodes
  PROVE  Kids(m) \subseteq Nodes
<1>1. children[m] \in Seq(Nodes)
  BY DEF TypeInv, TypeOK, HeapTypeOK
<1>2. \A i \in 1..Len(children[m]) : children[m][i] \in Nodes
  BY <1>1, ElementOfSeq
<1> QED BY <1>1, <1>2, LenProperties DEF Kids, ToSet

\* A node reached from the root, other than the root, is in the child array of a node that
\* is reached as well, its parent.
LEMMA ReachedFromParent ==
  ASSUME TypeInv, KidsKnowParent, root \in Nodes, NEW n, Reached(n), n # root
  PROVE  parent[n] \in Nodes /\ n \in Kids(parent[n]) /\ Reached(parent[n])
<1>1. n \in Nodes
  BY DEF Reached
<1>2. PICK m \in Nodes : n \in Kids(m) /\ Reached(m)
  <2> SUFFICES ASSUME \A m \in Nodes : n \in Kids(m) => ~Reached(m) PROVE FALSE
    OBVIOUS
  <2> DEFINE T == {m \in Nodes : Reached(m) /\ m # n}
  <2>1. root \in T
    BY DEF IsClosed, Reached
  <2>2. \A m \in T : Kids(m) \subseteq T
    <3> SUFFICES ASSUME NEW m \in T, NEW c \in Kids(m) PROVE c \in T
      OBVIOUS
    <3>1. c # n
      OBVIOUS
    <3>2. \A U \in SUBSET Nodes : IsClosed(U) => c \in U
      BY DEF Reached, IsClosed
    <3>3. c \in Nodes
      BY KidsAreNodes
    <3> QED BY <3>1, <3>2, <3>3 DEF Reached
  <2>3. n \in T
    BY <2>1, <2>2 DEF Reached, IsClosed
  <2> QED BY <2>3
<1> QED BY <1>2 DEF KidsKnowParent

\* Which nodes are reached depends on the root and the child arrays alone.
LEMMA SameReached ==
  ASSUME UNCHANGED <<children, root>>, NEW n
  PROVE  Reached(n) <=> Reached(n)'
BY DEF Reached, IsClosed, Kids

LEMMA RootReached ==
  ASSUME root \in Nodes
  PROVE  Reached(root)
BY DEF Reached, IsClosed

\* A reached node is in use.
LEMMA ReachedUsed ==
  ASSUME TypeInv, OnlyUsed, root \in used, NEW n, Reached(n)
  PROVE  n \in used
<1>1. used \in SUBSET Nodes
  BY DEF TypeInv, TypeOK, HeapTypeOK
<1>2. IsClosed(used)
  BY <1>1 DEF IsClosed, OnlyUsed
<1> QED BY <1>1, <1>2 DEF Reached

-----------------------------------------------------------------------------
\* A step that leaves the nodes and their links alone.
LEMMA LinksStay ==
  ASSUME LinkInv, TypeInv',
         UNCHANGED <<used, children, parent, root, doomed>>,
         pc # "destroy", pc' # "destroy",
         pc' # "idle" => root # Null /\ Reached(node'),
         pc' # "parent"
  PROVE  LinkInv'
<1> USE DEF LinkInv
<1>1. KidsKnowParent' /\ KidsDiffer' /\ OnlyUsed'
  BY DEF KidsKnowParent, KidsDiffer, OnlyUsed, Kids
<1>2. RootIsTop'
  BY DEF RootIsTop
<1>3. CursorReached'
  <2>1. SUFFICES ASSUME pc' \in {"descend", "parent"} PROVE Reached(node)'
    BY DEF CursorReached
  <2>2. \A n : Reached(n) <=> Reached(n)'
    BY SameReached
  <2>3. Reached(node')
    BY <2>1
  <2> QED BY <2>3 DEF Reached, IsClosed, Kids
<1>4. RightIsLoose' /\ DoomedAreLoose'
  BY DEF RightIsLoose, DoomedAreLoose
<1> QED BY <1>1, <1>2, <1>3, <1>4

LEMMA FailureKeepsLinks ==
  ASSUME LinkInv, TypeInv', InsertFails, pc # "destroy"
  PROVE  LinkInv'
BY LinksStay DEF InsertFails, Return, heap, tree

\* The first leaf becomes the root.
LEMMA FirstKeepsLinks ==
  ASSUME LinkInv, TypeInv', NEW k \in Keys, NEW o \in Offsets, InsertFirst(k, o)
  PROVE  LinkInv'
<1> USE DEF LinkInv
<1>1. Fresh \in Nodes /\ Fresh \notin used
  BY FreshIsNew DEF InsertFirst, TypeInv, TypeOK, HeapTypeOK
<1>2. /\ used' = used \cup {Fresh} /\ root' = Fresh /\ pc = "idle" /\ pc' = "idle"
      /\ UNCHANGED <<children, parent, doomed>>
  BY DEF InsertFirst, Return
<1>3. KidsKnowParent' /\ KidsDiffer' /\ OnlyUsed'
  BY <1>2 DEF KidsKnowParent, KidsDiffer, OnlyUsed, Kids
<1>4. RootIsTop'
  BY <1>1, <1>2 DEF RootIsTop, OnlyUsed
<1>5. CursorReached' /\ RightIsLoose' /\ DoomedAreLoose'
  BY <1>2 DEF CursorReached, RightIsLoose, DoomedAreLoose
<1> QED BY <1>3, <1>4, <1>5

\* A leaf split makes a node that hangs nowhere and changes no child array.
LEMMA SplitLeafKeepsLinks ==
  ASSUME LinkInv, TypeInv', SplitLeaf
  PROVE  LinkInv'
<1> USE DEF LinkInv
<1>1. /\ used' = used \cup {Fresh} /\ parent' = [parent EXCEPT ![Fresh] = parent[node]]
      /\ right' = Fresh /\ pc = "descend" /\ pc' = "parent"
      /\ UNCHANGED <<children, root, doomed, node>>
  BY DEF SplitLeaf, AtInsertLeaf, tree
<1>2. Fresh \in Nodes /\ Fresh \notin used
  BY FreshIsNew DEF SplitLeaf, TypeInv, TypeOK, HeapTypeOK
<1>3. \A m \in Nodes : Fresh \notin Kids(m) /\ Kids(m)' = Kids(m)
  BY <1>1, <1>2 DEF OnlyUsed, Kids
<1>4. parent \in [Nodes -> Nodes \cup {Null}] /\ root \in Nodes
  BY <1>1 DEF TypeInv, TypeOK, HeapTypeOK, CallOK
<1>5. KidsKnowParent'
  BY <1>1, <1>2, <1>3, <1>4, KidsAreNodes DEF KidsKnowParent
<1>6. KidsDiffer'
  BY <1>1 DEF KidsDiffer
<1>7. OnlyUsed'
  BY <1>1, <1>2, <1>3, <1>4 DEF OnlyUsed
<1>8. root \in used /\ parent[root] = Null
  BY <1>1, <1>4, NullAssumption DEF RootIsTop
<1>9. RootIsTop'
  BY <1>1, <1>2, <1>4, <1>8 DEF RootIsTop
<1>10. CursorReached'
  <2>1. Reached(node)
    BY <1>1 DEF CursorReached
  <2>2. \A n : Reached(n) <=> Reached(n)'
    BY <1>1, SameReached
  <2> QED BY <1>1, <2>1, <2>2 DEF CursorReached, Reached, IsClosed, Kids
<1>11. RightIsLoose'
  BY <1>1, <1>2, <1>3, <1>8 DEF RightIsLoose
<1>12. DoomedAreLoose'
  BY <1>1 DEF DoomedAreLoose
<1> QED BY <1>5, <1>6, <1>7, <1>9, <1>10, <1>11, <1>12

\* insert_into_parent without a parent is called for the root.
LEMMA NewRootKeepsLinks ==
  ASSUME LinkInv, TypeInv', NewRoot
  PROVE  LinkInv'
<1> USE DEF LinkInv
<1>1. /\ used' = used \cup {Fresh} /\ root' = Fresh /\ pc = "parent" /\ pc' = "idle"
      /\ children' = [children EXCEPT ![Fresh] = <<node, right>>]
      /\ parent' = [parent EXCEPT ![node] = Fresh, ![right] = Fresh]
      /\ parent[node] = Null /\ UNCHANGED doomed
  BY DEF NewRoot, InsertSucceeds, Return
<1>2. Fresh \in Nodes /\ Fresh \notin used
  BY FreshIsNew DEF NewRoot, TypeInv, TypeOK, HeapTypeOK
<1>3. /\ parent \in [Nodes -> Nodes \cup {Null}] /\ children \in [Nodes -> Seq(Nodes)]
      /\ root \in Nodes /\ right \in Nodes /\ node \in Nodes
  BY <1>1 DEF TypeInv, TypeOK, HeapTypeOK, CallOK
<1>4. /\ right \in used /\ right # root /\ \A m \in Nodes : right \notin Kids(m)
      /\ Reached(node) /\ root \in used
  BY <1>1, <1>3, NullAssumption DEF RightIsLoose, CursorReached, RootIsTop
<1>5. node = root
  BY <1>1, <1>3, <1>4, ReachedFromParent, NullAssumption
<1>6. node # right /\ Fresh # node /\ Fresh # right
  BY <1>2, <1>4, <1>5
<1>7. \A m \in Nodes : node \notin Kids(m) /\ Fresh \notin Kids(m)
  BY <1>1, <1>2, NullAssumption DEF KidsKnowParent, OnlyUsed
<1>8. \A m \in Nodes \ {Fresh} : children'[m] = children[m] /\ Kids(m)' = Kids(m)
  BY <1>1, <1>3 DEF Kids
<1>9. children'[Fresh] = <<node, right>>
  BY <1>1, <1>2, <1>3
<1>10. \A m \in {Fresh} : Kids(m)' = {node, right}
  <2>1. DOMAIN <<node, right>> = {1, 2} /\ <<node, right>>[1] = node /\ <<node, right>>[2] = right
    OBVIOUS
  <2> HIDE DEF LinkInv
  <2> QED BY <1>9, <2>1 DEF Kids, ToSet
<1>11. KidsKnowParent'
  <2>1. \A m \in Nodes \ {Fresh} : \A c \in Kids(m) : c \in Nodes /\ parent'[c] = parent[c]
    BY <1>1, <1>2, <1>3, <1>4, <1>7, KidsAreNodes
  <2>2. parent'[node] = Fresh /\ parent'[right] = Fresh
    BY <1>1, <1>3, <1>6
  <2> QED BY <1>8, <1>10, <2>1, <2>2 DEF KidsKnowParent
<1>12. KidsDiffer'
  <2>1. IsInjective(<<node, right>>)
    BY <1>6 DEF IsInjective
  <2> QED BY <1>8, <1>9, <2>1 DEF KidsDiffer
<1>13. OnlyUsed'
  <2>1. \A m \in Nodes : Kids(m)' \subseteq used'
    BY <1>1, <1>4, <1>5, <1>8, <1>10 DEF OnlyUsed
  <2>2. \A m \in Nodes \ used' : parent'[m] = Null
    BY <1>1, <1>3, <1>4, <1>5 DEF OnlyUsed
  <2> QED BY <2>1, <2>2 DEF OnlyUsed
<1>14. RootIsTop'
  <2>1. parent'[Fresh] = Null
    BY <1>1, <1>2, <1>3, <1>6 DEF OnlyUsed
  <2> QED BY <1>1, <2>1 DEF RootIsTop
<1>15. CursorReached' /\ RightIsLoose' /\ DoomedAreLoose'
  BY <1>1 DEF CursorReached, RightIsLoose, DoomedAreLoose
<1> QED BY <1>11, <1>12, <1>13, <1>14, <1>15

\* The new child of a node with room, and its parent pointer, belong together.
LEMMA InternalKeepsLinks ==
  ASSUME LinkInv, TypeInv', InsertIntoInternalNode
  PROVE  LinkInv'
<1> USE DEF LinkInv
<1> DEFINE p == parent[node]
<1>1. /\ pc = "parent" /\ pc' = "idle" /\ p # Null
      /\ parent' = [parent EXCEPT ![right] = p]
      /\ UNCHANGED <<used, root, doomed>>
  BY DEF InsertIntoInternalNode, InsertSucceeds, Return, GivenParent
<1>2. PICK i \in 1..Len(children[p]) :
         children' = [children EXCEPT ![p] = InsertAt(@, i + 1, right)]
  BY DEF InsertIntoInternalNode
<1>3. /\ parent \in [Nodes -> Nodes \cup {Null}] /\ children \in [Nodes -> Seq(Nodes)]
      /\ root \in Nodes /\ right \in Nodes /\ node \in Nodes
  BY <1>1 DEF TypeInv, TypeOK, HeapTypeOK, CallOK
<1>4. p \in Nodes
  BY <1>1, <1>3
<1> HIDE DEF p
<1>5. /\ right \in used /\ right # root /\ \A m \in Nodes : right \notin Kids(m)
      /\ root \in used /\ parent[root] = Null
  BY <1>1, <1>3, NullAssumption DEF RightIsLoose, RootIsTop
<1>6. /\ IsInjective(InsertAt(children[p], i + 1, right))
      /\ ToSet(InsertAt(children[p], i + 1, right)) = Kids(p) \cup {right}
  <2>1. i + 1 \in 1..(Len(children[p]) + 1) /\ children[p] \in Seq(Nodes)
    BY <1>2, <1>3, <1>4, LenProperties
  <2>2. IsInjective(children[p]) /\ right \notin ToSet(children[p])
    BY <1>4, <1>5 DEF KidsDiffer, Kids
  <2> QED BY <2>1, <2>2, <1>3, InsertAtInjective DEF Kids
<1>7. /\ \A m \in Nodes \ {p} : children'[m] = children[m] /\ Kids(m)' = Kids(m)
      /\ \A m \in {p} : Kids(m)' = Kids(m) \cup {right} /\ IsInjective(children'[m])
  BY <1>2, <1>3, <1>4, <1>6 DEF Kids
<1>8. KidsKnowParent'
  <2>1. \A m \in Nodes : \A c \in Kids(m) : parent'[c] = m
    BY <1>1, <1>3, <1>5, KidsAreNodes DEF KidsKnowParent
  <2>2. parent'[right] = p
    BY <1>1, <1>3
  <2>3. \A m \in Nodes \ {p} : \A c \in Kids(m)' : parent'[c] = m
    BY <1>7, <2>1
  <2>4. \A m \in {p} : \A c \in Kids(m)' : parent'[c] = m
    BY <1>4, <1>7, <2>1, <2>2
  <2> QED BY <2>3, <2>4 DEF KidsKnowParent
<1>9. KidsDiffer'
  BY <1>7 DEF KidsDiffer
<1>10. OnlyUsed'
  <2>1. \A m \in Nodes \ {p} : Kids(m)' \subseteq used'
    BY <1>1, <1>7 DEF OnlyUsed
  <2>2. \A m \in {p} : Kids(m)' \subseteq used'
    BY <1>1, <1>4, <1>5, <1>7 DEF OnlyUsed
  <2>3. \A m \in Nodes \ used' : parent'[m] = Null
    BY <1>1, <1>3, <1>5 DEF OnlyUsed
  <2> QED BY <2>1, <2>2, <2>3 DEF OnlyUsed
<1>11. RootIsTop'
  BY <1>1, <1>3, <1>5 DEF RootIsTop
<1>12. CursorReached' /\ RightIsLoose' /\ DoomedAreLoose'
  BY <1>1 DEF CursorReached, RightIsLoose, DoomedAreLoose
<1> QED BY <1>8, <1>9, <1>10, <1>11, <1>12

\* An internal split deals out the children of the node, and the new one, between the node
\* and its new sibling, gives each its parent, and goes on with the node, which is still
\* reached from the root.
LEMMA SplitInternalKeepsLinks ==
  ASSUME LinkInv, TypeInv', SplitInternal
  PROVE  LinkInv'
<1> USE DEF LinkInv
<1> DEFINE p == parent[node]
           total_keys == Len(keys[p]) + 1
           split_index == total_keys \div 2
<1>1. /\ pc = "parent" /\ pc' = "parent" /\ p # Null /\ ~HasRoom(p)
      /\ used' = used \cup {Fresh} /\ right' = Fresh /\ node' = p
      /\ UNCHANGED <<root, doomed>>
  BY DEF SplitInternal, tree
<1>2. PICK i \in 1..Len(children[p]) :
         LET temp_children == InsertAt(children[p], i + 1, right)
             left_part == SubSeq(temp_children, 1, split_index + 1)
             right_part == RightChildren(temp_children, split_index)
         IN /\ children' = [children EXCEPT ![p] = left_part, ![Fresh] = right_part]
            /\ parent' = Adopted(p, Fresh, left_part, right_part)
  BY DEF SplitInternal, Half, TempChildren
<1> DEFINE temp_children == InsertAt(children[p], i + 1, right)
           left_part == SubSeq(temp_children, 1, split_index + 1)
           right_part == SubSeq(temp_children, split_index + 2, Len(temp_children))
<1>3. /\ children' = [children EXCEPT ![p] = left_part, ![Fresh] = right_part]
      /\ parent' = Adopted(p, Fresh, left_part, right_part)
  BY <1>2 DEF RightChildren
<1>4. /\ parent \in [Nodes -> Nodes \cup {Null}] /\ children \in [Nodes -> Seq(Nodes)]
      /\ root \in Nodes /\ right \in Nodes /\ node \in Nodes
  BY <1>1 DEF TypeInv, TypeOK, HeapTypeOK, CallOK
<1>5. p \in Nodes
  BY <1>1, <1>4
<1>6. Fresh \in Nodes /\ Fresh \notin used
  BY FreshIsNew DEF SplitInternal, TypeInv, TypeOK, HeapTypeOK
<1> HIDE DEF p
<1>7. /\ right \in used /\ right # root /\ \A m \in Nodes : right \notin Kids(m)
      /\ root \in used /\ parent[root] = Null /\ Reached(node)
  BY <1>1, <1>4, NullAssumption DEF RightIsLoose, RootIsTop, CursorReached
<1>8. node \in Kids(p) /\ Reached(p) /\ p \in used
  <2>1. node # root
    BY <1>1, <1>7 DEF p
  <2>2. node \in Kids(p) /\ Reached(p)
    BY <1>4, <1>7, <2>1, ReachedFromParent DEF p
  <2> QED BY <1>7, <2>2, ReachedUsed
<1>9. /\ temp_children \in Seq(Nodes) /\ IsInjective(temp_children)
      /\ ToSet(temp_children) = Kids(p) \cup {right}
      /\ Len(temp_children) = Len(children[p]) + 1
  <2>1. i + 1 \in 1..(Len(children[p]) + 1) /\ children[p] \in Seq(Nodes)
    BY <1>2, <1>4, <1>5, LenProperties
  <2>2. IsInjective(children[p]) /\ right \notin ToSet(children[p])
    BY <1>5, <1>7 DEF KidsDiffer, Kids
  <2>3. IsInjective(temp_children) /\ ToSet(temp_children) = Kids(p) \cup {right}
    BY <2>1, <2>2, <1>4, InsertAtInjective DEF Kids
  <2>4. /\ InsertAt(children[p], i + 1, right) \in Seq(Nodes)
        /\ Len(InsertAt(children[p], i + 1, right)) = Len(children[p]) + 1
    <3> DEFINE s == children[p]
               k == i + 1
    <3>1. s \in Seq(Nodes) /\ k \in 1..(Len(s) + 1) /\ right \in Nodes
      BY <2>1, <1>4
    <3> HIDE DEF s, k
    <3>2. InsertAt(s, k, right) \in Seq(Nodes) /\ Len(InsertAt(s, k, right)) = Len(s) + 1
      BY <3>1, InsertAtProperties
    <3> QED BY <3>2 DEF s, k
  <2> QED BY <2>3, <2>4
<1>10. split_index \in Nat /\ split_index + 1 <= Len(temp_children)
  <2>1. children[p] # <<>> /\ Len(children[p]) \in Nat
    BY <1>2, <1>4, <1>5, LenProperties, EmptySeq
  <2>2. Len(children[p]) = Len(keys[p]) + 1
    BY <1>5, <2>1 DEF TypeInv, NodeShape
  <2>3. Len(keys[p]) \in Nat
    BY <1>5, LenProperties DEF TypeInv, TypeOK, HeapTypeOK
  <2>4. total_keys \in Nat /\ Len(temp_children) = total_keys + 1
    BY <1>9, <2>2, <2>3
  <2> HIDE DEF total_keys, temp_children
  <2> QED BY <2>4
<1> HIDE DEF temp_children, split_index
<1>11. /\ IsInjective(left_part) /\ IsInjective(right_part)
       /\ ToSet(left_part) \cap ToSet(right_part) = {}
       /\ ToSet(left_part) \cup ToSet(right_part) \subseteq Kids(p) \cup {right}
  <2> DEFINE k == split_index + 1
  <2>1. k + 1 = split_index + 2 /\ k \in Nat /\ k <= Len(temp_children)
    BY <1>10
  <2>2. LET front == SubSeq(temp_children, 1, k)
            back == SubSeq(temp_children, k + 1, Len(temp_children))
        IN /\ IsInjective(front) /\ IsInjective(back)
           /\ ToSet(front) \cap ToSet(back) = {}
           /\ ToSet(front) \cup ToSet(back) \subseteq ToSet(temp_children)
    <3> HIDE DEF k
    <3> QED BY <2>1, <1>9, CutInTwo
  <2> QED BY <1>9, <2>1, <2>2
<1> HIDE DEF left_part, right_part
<1>12. p # Fresh /\ node # Fresh /\ right # Fresh /\ root # Fresh
       /\ \A m \in Nodes : Fresh \notin Kids(m)
  <2>1. node \in used
    BY <1>5, <1>8 DEF OnlyUsed
  <2>2. \A m \in Nodes : Fresh \notin Kids(m)
    BY <1>6 DEF OnlyUsed
  <2>3. p # Fresh /\ right # Fresh /\ root # Fresh
    BY <1>6, <1>7, <1>8
  <2> QED BY <1>6, <2>1, <2>2, <2>3
<1>13. /\ \A m \in Nodes \ {p, Fresh} : children'[m] = children[m] /\ Kids(m)' = Kids(m)
       /\ \A m \in {p} : children'[m] = left_part /\ Kids(m)' = ToSet(left_part)
       /\ \A m \in {Fresh} : children'[m] = right_part /\ Kids(m)' = ToSet(right_part)
  BY <1>3, <1>4, <1>5, <1>6, <1>12 DEF Kids
<1>14. \A n \in Nodes :
          parent'[n] = IF n \in ToSet(right_part) THEN Fresh
                       ELSE IF n = Fresh THEN parent[p]
                       ELSE IF n \in ToSet(left_part) THEN p
                       ELSE parent[n]
  BY <1>3 DEF Adopted
<1>15. \A m \in Nodes : m # p => Kids(m) \cap (ToSet(left_part) \cup ToSet(right_part)) = {}
  BY <1>5, <1>7, <1>11 DEF KidsKnowParent
<1>16. ToSet(left_part) \cup ToSet(right_part) \subseteq Nodes
  BY <1>4, <1>5, <1>11, KidsAreNodes
<1>17. KidsKnowParent'
  <2>1. \A m \in Nodes \ {p, Fresh} : \A c \in Kids(m)' : parent'[c] = m
    <3> SUFFICES ASSUME NEW m \in Nodes \ {p, Fresh}, NEW c \in Kids(m) PROVE parent'[c] = m
      BY <1>13
    <3>1. c \in Nodes /\ c # Fresh /\ c \notin ToSet(left_part) \cup ToSet(right_part)
      BY <1>12, <1>15, KidsAreNodes
    <3>2. parent[c] = m
      BY DEF KidsKnowParent
    <3> QED BY <1>14, <3>1, <3>2
  <2>2. \A m \in {p} : \A c \in Kids(m)' : parent'[c] = m
    <3> SUFFICES ASSUME NEW c \in ToSet(left_part) PROVE parent'[c] = p
      BY <1>13
    <3>1. c \in Nodes /\ c \notin ToSet(right_part) /\ c # Fresh
      BY <1>5, <1>11, <1>12, <1>16
    <3> QED BY <1>14, <3>1
  <2>3. \A m \in {Fresh} : \A c \in Kids(m)' : parent'[c] = m
    BY <1>13, <1>14, <1>16
  <2> QED BY <2>1, <2>2, <2>3 DEF KidsKnowParent
<1>18. KidsDiffer'
  BY <1>11, <1>13 DEF KidsDiffer
<1>19. OnlyUsed'
  <2>1. Kids(p) \cup {right} \subseteq used
    BY <1>5, <1>7 DEF OnlyUsed
  <2>2. \A m \in Nodes \ {p, Fresh} : Kids(m)' \subseteq used'
    BY <1>1, <1>13 DEF OnlyUsed
  <2>3. \A m \in {p} : Kids(m)' \subseteq used'
    BY <1>1, <1>11, <1>13, <2>1
  <2>4. \A m \in {Fresh} : Kids(m)' \subseteq used'
    BY <1>1, <1>11, <1>13, <2>1
  <2>5. \A m \in Nodes \ used' : parent'[m] = Null
    <3> SUFFICES ASSUME NEW m \in Nodes, m \notin used, m # Fresh PROVE parent'[m] = Null
      BY <1>1
    <3>1. m \notin ToSet(left_part) \cup ToSet(right_part)
      BY <1>11, <2>1
    <3> QED BY <1>14, <3>1 DEF OnlyUsed
  <2> QED BY <2>2, <2>3, <2>4, <2>5 DEF OnlyUsed
<1>20. RootIsTop'
  <2>1. root \notin Kids(p)
    BY <1>4, <1>5, <1>7, NullAssumption DEF KidsKnowParent
  <2>2. root \notin ToSet(left_part) \cup ToSet(right_part)
    BY <1>7, <1>11, <2>1
  <2>3. parent'[root] = Null
    BY <1>4, <1>7, <1>12, <1>14, <2>2
  <2> QED BY <1>1, <1>7, <2>3 DEF RootIsTop
<1>21. CursorReached'
  <2>1. \A m \in {p} : Reached(m)'
    <3> SUFFICES ASSUME NEW T \in SUBSET Nodes, root \in T,
                        \A m \in T : Kids(m)' \subseteq T
                 PROVE  p \in T
      BY <1>1, <1>5 DEF Reached, IsClosed
    <3> SUFFICES ASSUME p \notin T PROVE FALSE
      OBVIOUS
    <3> DEFINE U == T \ {Fresh}
    <3>1. U \in SUBSET Nodes /\ root \in U
      BY <1>12
    <3>2. \A m \in U : Kids(m) \subseteq U
      BY <1>12, <1>13
    <3>3. p \in U
      BY <1>8, <3>1, <3>2 DEF Reached, IsClosed
    <3> QED BY <3>3
  <2> QED BY <1>1, <2>1 DEF CursorReached, Reached, IsClosed, Kids
<1>22. RightIsLoose'
  <2>1. \A m \in Nodes : Fresh \notin Kids(m)'
    BY <1>5, <1>11, <1>12, <1>13
  <2> QED BY <1>1, <1>12, <2>1 DEF RightIsLoose
<1>23. DoomedAreLoose'
  BY <1>1 DEF DoomedAreLoose
<1> QED BY <1>17, <1>18, <1>19, <1>20, <1>21, <1>22, <1>23

\* Freeing a node whose parent is gone leaves its children without one.
LEMMA DestroyNodeKeepsLinks ==
  ASSUME LinkInv, TypeInv', DestroyNode
  PROVE  LinkInv'
<1> USE DEF LinkInv
<1>1. PICK n \in doomed :
         /\ doomed' = (doomed \ {n}) \cup Kids(n)
         /\ used' = used \ {n}
         /\ children' = [children EXCEPT ![n] = <<>>]
         /\ parent' = [parent EXCEPT ![n] = Null]
         /\ pc = "destroy" /\ pc' = "destroy"
  BY DEF DestroyNode, ChildrenToFree, Kids
<1>2. /\ parent \in [Nodes -> Nodes \cup {Null}] /\ children \in [Nodes -> Seq(Nodes)]
      /\ n \in Nodes
  BY DEF TypeInv, TypeOK, HeapTypeOK
<1>3. doomed \subseteq used /\ \A m \in Nodes : Kids(m) \cap doomed = {}
  BY <1>1 DEF DoomedAreLoose
<1>4. /\ \A m \in Nodes \ {n} : children'[m] = children[m] /\ Kids(m)' = Kids(m)
      /\ children'[n] = <<>> /\ Kids(n)' = {}
  BY <1>1, <1>2 DEF Kids, ToSet
<1>5. KidsKnowParent'
  <2>1. \A m \in Nodes \ {n} : \A c \in Kids(m) : c \in Nodes /\ parent'[c] = m
    BY <1>1, <1>2, <1>3, KidsAreNodes DEF KidsKnowParent
  <2> QED BY <1>4, <2>1 DEF KidsKnowParent
<1>6. KidsDiffer'
  <2>1. IsInjective(<<>>)
    BY DEF IsInjective
  <2> QED BY <1>4, <2>1 DEF KidsDiffer
<1>7. OnlyUsed'
  <2>1. \A m \in Nodes : Kids(m)' \subseteq used'
    BY <1>1, <1>3, <1>4 DEF OnlyUsed
  <2>2. \A m \in Nodes \ used' : parent'[m] = Null
    BY <1>1, <1>2 DEF OnlyUsed
  <2> QED BY <2>1, <2>2 DEF OnlyUsed
<1>8. DoomedAreLoose'
  <2>1. doomed' \subseteq used'
    <3>1. Kids(n) \subseteq used /\ n \notin Kids(n)
      BY <1>2, <1>3 DEF OnlyUsed
    <3> QED BY <1>1, <1>3, <3>1
  <2>2. \A m \in Nodes : Kids(m)' \cap doomed' = {}
    <3> SUFFICES ASSUME NEW m \in Nodes \ {n}, NEW c \in Kids(m), c \in doomed' PROVE FALSE
      BY <1>4
    <3>1. c \in Kids(n)
      BY <1>1, <1>3
    <3> QED BY <1>2, <3>1 DEF KidsKnowParent
  <2> QED BY <1>1, <2>1, <2>2 DEF DoomedAreLoose
<1>9. RootIsTop' /\ CursorReached' /\ RightIsLoose'
  BY <1>1 DEF RootIsTop, CursorReached, RightIsLoose
<1> QED BY <1>5, <1>6, <1>7, <1>8, <1>9
-----------------------------------------------------------------------------
LEMMA LinkInvInit == Init => LinkInv
<1> SUFFICES ASSUME Init PROVE LinkInv
  OBVIOUS
<1>1. TypeInv
  BY InitTypeInv
<1>2. \A m \in Nodes : children[m] = <<>> /\ Kids(m) = {} /\ parent[m] = Null
  BY DEF Init, Kids, ToSet
<1>3. KidsKnowParent /\ OnlyUsed
  BY <1>2 DEF KidsKnowParent, OnlyUsed
<1>4. KidsDiffer
  BY <1>2 DEF KidsDiffer, IsInjective
<1>5. RootIsTop /\ CursorReached /\ RightIsLoose /\ DoomedAreLoose
  BY DEF Init, RootIsTop, CursorReached, RightIsLoose, DoomedAreLoose
<1> QED BY <1>1, <1>3, <1>4, <1>5 DEF LinkInv

\* Every step of every call keeps the links in step.
LEMMA LinkInvStep == LinkInv /\ [Next]_vars => LinkInv'
<1> SUFFICES ASSUME LinkInv, [Next]_vars PROVE LinkInv'
  OBVIOUS
<1> USE DEF LinkInv
<1>1. TypeInv'
  BY TypeInvStep
<1>2. ASSUME NEW k \in Keys, NEW o \in Offsets, InsertFirst(k, o) PROVE LinkInv'
  BY <1>1, <1>2, FirstKeepsLinks
<1>3. ASSUME NEW k \in Keys, NEW o \in Offsets, CallInsert(k, o) PROVE LinkInv'
  <2>1. /\ UNCHANGED <<used, children, parent, root, doomed>>
        /\ pc = "idle" /\ pc' = "descend" /\ root # Null /\ node' = root
    BY <1>3 DEF CallInsert, heap, tree
  <2>2. Reached(node')
    BY <2>1, RootReached DEF TypeInv, TypeOK, HeapTypeOK
  <2> QED BY <1>1, <2>1, <2>2, LinksStay
<1>4. ASSUME NEW k \in Keys, InsertFirstOutOfMemory(k) PROVE LinkInv'
  BY <1>1, <1>4, LinksStay DEF InsertFirstOutOfMemory, Return, heap, tree
<1>5. ASSUME NEW k \in Keys, SearchEmpty(k) PROVE LinkInv'
  BY <1>1, <1>5, LinksStay DEF SearchEmpty, Return, heap, tree
<1>6. ASSUME NEW k \in Keys, CallSearch(k) PROVE LinkInv'
  <2>1. /\ UNCHANGED <<used, children, parent, root, doomed>>
        /\ pc = "idle" /\ pc' = "descend" /\ root # Null /\ node' = root
    BY <1>6 DEF CallSearch, heap, tree
  <2>2. Reached(node')
    BY <2>1, RootReached DEF TypeInv, TypeOK, HeapTypeOK
  <2> QED BY <1>1, <2>1, <2>2, LinksStay
<1>7. CASE DestroyEmpty
  BY <1>1, <1>7, LinksStay DEF DestroyEmpty, Return, heap
<1>8. CASE CallDestroy
  <2>1. /\ UNCHANGED <<used, children, parent, root>> /\ root # Null
        /\ pc = "idle" /\ pc' = "destroy" /\ doomed' = {root}
    BY <1>8 DEF CallDestroy, heap, tree
  <2>2. root \in used /\ parent[root] = Null /\ root \in Nodes
    BY <2>1 DEF RootIsTop, TypeInv, TypeOK, HeapTypeOK
  <2>3. KidsKnowParent' /\ KidsDiffer' /\ OnlyUsed'
    BY <2>1 DEF KidsKnowParent, KidsDiffer, OnlyUsed, Kids
  <2>4. \A m \in Nodes : root \notin Kids(m)
    BY <2>2, NullAssumption DEF KidsKnowParent
  <2>5. DoomedAreLoose'
    BY <2>1, <2>2, <2>4 DEF DoomedAreLoose, Kids
  <2>6. RootIsTop' /\ CursorReached' /\ RightIsLoose'
    BY <2>1 DEF RootIsTop, CursorReached, RightIsLoose
  <2> QED BY <1>1, <2>3, <2>5, <2>6
<1>9. CASE Descend
  <2>1. /\ UNCHANGED <<used, children, parent, root, doomed>>
        /\ pc = "descend" /\ pc' = "descend"
    BY <1>9 DEF Descend, heap, tree
  <2>2. PICK i \in 1..Len(children[node]) : node' = children[node][i]
    BY <1>9 DEF Descend
  <2>3. root # Null /\ node \in Nodes /\ Reached(node)
    BY <2>1, NullAssumption DEF TypeInv, CallOK, CursorReached
  <2>4. node' \in Kids(node)
    BY <2>2, <2>3, LenProperties DEF Kids, ToSet, TypeInv, TypeOK, HeapTypeOK
  <2>5. node' \in Nodes
    BY <2>3, <2>4, KidsAreNodes
  <2>6. Reached(node')
    BY <2>3, <2>4, <2>5 DEF Reached, IsClosed
  <2> QED BY <1>1, <2>1, <2>3, <2>6, LinksStay
<1>10. CASE SearchLeaf
  <2>1. UNCHANGED <<used, children, parent, root, doomed>> /\ pc = "descend" /\ pc' = "idle"
    BY <1>10 DEF SearchLeaf, Return, heap, tree
  <2> QED BY <1>1, <2>1, LinksStay
<1>11. CASE InsertDuplicate \/ SplitLeafOutOfMemory \/ InsertIntoParentFails
  <2>1. InsertFails /\ pc # "destroy"
    BY <1>11 DEF InsertDuplicate, SplitLeafOutOfMemory, InsertIntoParentFails, AtInsertLeaf
  <2> QED BY <1>1, <2>1, FailureKeepsLinks
<1>12. CASE InsertIntoLeaf
  <2>1. UNCHANGED <<used, children, parent, root, doomed>> /\ pc = "descend" /\ pc' = "idle"
    BY <1>12 DEF InsertIntoLeaf, AtInsertLeaf, Return
  <2> QED BY <1>1, <2>1, LinksStay
<1>13. CASE SplitLeaf
  BY <1>1, <1>13, SplitLeafKeepsLinks
<1>14. CASE NewRoot
  BY <1>1, <1>14, NewRootKeepsLinks
<1>15. CASE InsertIntoInternalNode
  BY <1>1, <1>15, InternalKeepsLinks
<1>16. CASE SplitInternal
  BY <1>1, <1>16, SplitInternalKeepsLinks
<1>17. CASE DestroyNode
  BY <1>1, <1>17, DestroyNodeKeepsLinks
<1>18. CASE DestroyReturns
  <2>1. /\ UNCHANGED <<used, children, parent, doomed>> /\ root' = Null
        /\ pc = "destroy" /\ pc' = "idle" /\ doomed = {}
    BY <1>18 DEF DestroyReturns, heap
  <2>2. KidsKnowParent' /\ KidsDiffer' /\ OnlyUsed'
    BY <2>1 DEF KidsKnowParent, KidsDiffer, OnlyUsed, Kids
  <2>3. RootIsTop' /\ CursorReached' /\ RightIsLoose' /\ DoomedAreLoose'
    BY <2>1 DEF RootIsTop, CursorReached, RightIsLoose, DoomedAreLoose
  <2> QED BY <1>1, <2>2, <2>3
<1>19. CASE UNCHANGED vars
  <2>1. UNCHANGED <<used, children, parent, root, doomed, pc, node, right>>
    BY <1>19 DEF vars, heap, tree, frame
  <2>2. KidsKnowParent' /\ KidsDiffer' /\ OnlyUsed'
    BY <2>1 DEF KidsKnowParent, KidsDiffer, OnlyUsed, Kids
  <2>3. RootIsTop' /\ RightIsLoose' /\ DoomedAreLoose'
    BY <2>1 DEF RootIsTop, RightIsLoose, DoomedAreLoose, Kids
  <2>4. CursorReached'
    BY <2>1 DEF CursorReached, Reached, IsClosed, Kids
  <2> QED BY <1>1, <2>2, <2>3, <2>4
<1> QED BY <1>2, <1>3, <1>4, <1>5, <1>6, <1>7, <1>8, <1>9, <1>10, <1>11, <1>12, <1>13,
           <1>14, <1>15, <1>16, <1>17, <1>18, <1>19 DEF Next, Call, Step

\* Only nodes the root reaches are ever worked on, and those have their parents right,
\* whatever allocations failed (insert_into_parent, split_internal_and_insert).
THEOREM LinksInvariant == Spec => []LinkInv
BY LinkInvInit, LinkInvStep, PTL DEF Spec

\* insert_into_parent never takes its "parent-child relationship is broken" return, for
\* every order, every number of nodes and every pattern of failed allocations.
THEOREM RelationshipAlwaysHolds == Spec => []RelationshipHolds
<1>1. LinkInv => RelationshipHolds
  <2> SUFFICES ASSUME LinkInv, pc = "parent", parent[node] # Null
               PROVE  node \in Kids(parent[node])
    BY DEF RelationshipHolds, Kids
  <2>1. TypeInv /\ KidsKnowParent /\ Reached(node)
    BY DEF LinkInv, CursorReached
  <2>2. root \in Nodes
    BY <2>1 DEF TypeInv, CallOK
  <2>3. node # root
    BY <2>2, NullAssumption DEF LinkInv, RootIsTop
  <2> QED BY <2>1, <2>2, <2>3, ReachedFromParent
<1> QED BY <1>1, LinksInvariant, PTL

\* bptree_destroy frees no node twice, and none it does not own, also in a tree that failed
\* splits have left nodes outside of.
THEOREM NothingFreedTwice == Spec => []FreedOnce
<1>1. LinkInv => FreedOnce
  <2> SUFFICES ASSUME LinkInv, NEW n \in doomed
               PROVE  /\ n \in used
                      /\ IsInjective(children[n]) /\ Kids(n) \cap doomed = {}
                      /\ \A m \in doomed : m # n => Kids(m) \cap Kids(n) = {}
    BY DEF FreedOnce, ChildrenToFree, Kids
  <2>1. doomed \subseteq used /\ \A m \in Nodes : Kids(m) \cap doomed = {}
    BY DEF LinkInv, DoomedAreLoose
  <2>2. used \subseteq Nodes
    BY DEF LinkInv, TypeInv, TypeOK, HeapTypeOK
  <2>3. doomed \subseteq Nodes
    BY <2>1, <2>2
  <2>4. \A m \in doomed : m # n => Kids(m) \cap Kids(n) = {}
    BY <2>3 DEF LinkInv, KidsKnowParent
  <2> QED BY <2>1, <2>3, <2>4 DEF LinkInv, KidsDiffer
<1> QED BY <1>1, LinksInvariant, PTL

-----------------------------------------------------------------------------
(* How full the nodes are.                                                 *)

Filled(n) ==
    Len(keys[n]) >= (IF is_leaf[n] THEN Order \div 2 ELSE Order - (Order \div 2) - 1)

\* The left node of insert_into_parent is filled also when it is the root, which is about
\* to lose its privilege; destroy_node takes the root first.
FillInv ==
    /\ WellFilled
    /\ pc = "parent" => Filled(node)
    /\ pc = "destroy" => root \in doomed \/ root \notin used

LEMMA Halves ==
  /\ Order \div 2 \in Nat /\ Order - (Order \div 2) >= Order \div 2
  /\ Order - (Order \div 2) - 1 \in Nat /\ Order - (Order \div 2) - 1 <= Order \div 2
  /\ Half(MaxKeys + 1) = Order \div 2
<1>1. MaxKeys + 1 = Order
  BY OrderAssumption DEF MaxKeys
<1> QED BY <1>1, OrderAssumption DEF Half

\* Both parts of a full leaf that is split are filled.
LEMMA SplitLeafFills ==
  ASSUME LinkInv, FillInv, TypeInv', SplitLeaf
  PROVE  FillInv'
<1> DEFINE n == Len(keys[node])
           h == Half(n + 1)
<1>1. /\ pc' = "parent" /\ UNCHANGED <<node, root>> /\ node \in Nodes /\ is_leaf[node]
      /\ used' = used \cup {Fresh} /\ is_leaf' = [is_leaf EXCEPT ![Fresh] = TRUE]
      /\ keys \in [Nodes -> Seq(Keys)] /\ is_leaf \in [Nodes -> BOOLEAN]
      /\ offsets \in [Nodes -> Seq(Offsets)] /\ call.key \in Keys
      /\ ~HasRoom(node) /\ n <= MaxKeys /\ used \subseteq Nodes
  BY DEF SplitLeaf, AtInsertLeaf, LinkInv, TypeInv, TypeOK, HeapTypeOK, CallOK, NodeShape, tree
<1>2. Fresh \in Nodes /\ Fresh \notin used /\ node \in used /\ node # Fresh
  <2>1. Fresh \in Nodes /\ Fresh \notin used
    BY FreshIsNew DEF SplitLeaf, LinkInv, TypeInv, TypeOK, HeapTypeOK
  <2>2. node \in used
    BY <1>1 DEF LinkInv, TypeInv, NodeShape
  <2> QED BY <2>1, <2>2
<1>3. n \in Nat /\ n = MaxKeys /\ MaxKeys \in Nat
  <2>1. n \in Nat
    BY <1>1, LenProperties
  <2>2. ~(n < MaxKeys) /\ n <= MaxKeys
    BY <1>1 DEF HasRoom
  <2>3. MaxKeys \in Nat
    BY OrderAssumption DEF MaxKeys
  <2> HIDE DEF n, MaxKeys
  <2> QED BY <2>1, <2>2, <2>3
<1>4. h = Order \div 2
  BY <1>3, Halves
<1>5. PICK i \in 1..(n + 1) :
         LET temp_keys == InsertAt(keys[node], i, call.key)
         IN keys' = [keys EXCEPT ![node] = SubSeq(temp_keys, 1, h),
                                 ![Fresh] = SubSeq(temp_keys, h + 1, n + 1)]
  BY DEF SplitLeaf
<1> DEFINE t == InsertAt(keys[node], i, call.key)
<1>6. t \in Seq(Keys) /\ Len(t) = Order
  <2> DEFINE s == keys[node]
  <2>1. s \in Seq(Keys) /\ i \in 1..(Len(s) + 1) /\ Len(s) + 1 = Order
    BY <1>1, <1>3, OrderAssumption DEF MaxKeys
  <2> HIDE DEF s
  <2>2. InsertAt(s, i, call.key) \in Seq(Keys) /\ Len(InsertAt(s, i, call.key)) = Len(s) + 1
    BY <1>1, <2>1, InsertAtProperties
  <2> QED BY <2>1, <2>2 DEF s
<1>7. n + 1 = Order
  BY <1>3, OrderAssumption DEF MaxKeys
<1> HIDE DEF t, h, n
<1> DEFINE half == Order \div 2
           low == SubSeq(t, 1, half)
           high == SubSeq(t, half + 1, Order)
<1>8. half \in Nat /\ half <= Order /\ Order - half >= half /\ Order \in Nat
  BY Halves, OrderAssumption
<1>9. keys' = [keys EXCEPT ![node] = low, ![Fresh] = high]
  BY <1>4, <1>5, <1>7 DEF t
<1> HIDE DEF half
<1>10. Len(low) >= half /\ Len(high) >= half
  <2>1. Len(low) = IF 1 <= half THEN half - 1 + 1 ELSE 0
    BY <1>6, <1>8, SubSeqTyped
  <2>2. Len(high) = IF half + 1 <= Order THEN Order - (half + 1) + 1 ELSE 0
    <3> DEFINE d == half + 1
    <3>1. d \in Nat /\ 1 <= d
      BY <1>8
    <3> HIDE DEF d
    <3>2. Len(SubSeq(t, d, Order)) = IF d <= Order THEN Order - d + 1 ELSE 0
      BY <1>6, <1>8, <3>1, SubSeqTyped
    <3> QED BY <3>2 DEF d
  <2> QED BY <1>8, <2>1, <2>2
<1> HIDE DEF low, high
<1>11. \A m \in used : m # node =>
          keys'[m] = keys[m] /\ is_leaf'[m] = is_leaf[m]
  BY <1>1, <1>2, <1>9
<1>12. \A m \in {node, Fresh} : Len(keys'[m]) >= half /\ is_leaf'[m]
  BY <1>1, <1>2, <1>9, <1>10
<1>13. WellFilled'
  <2> SUFFICES ASSUME NEW m \in used', m # root
               PROVE  Len(keys'[m]) >= (IF is_leaf'[m] THEN half ELSE Order - half - 1)
    BY <1>1 DEF WellFilled, half
  <2>1. CASE m \in {node, Fresh}
    BY <1>12, <2>1
  <2>2. CASE m \notin {node, Fresh}
    <3>1. m \in used /\ m # root
      BY <1>1, <2>2
    <3>2. Len(keys[m]) >= (IF is_leaf[m] THEN half ELSE Order - half - 1)
      BY <3>1 DEF FillInv, WellFilled, half
    <3> QED BY <1>11, <2>2, <3>1, <3>2
  <2> QED BY <2>1, <2>2
<1>14. Len(keys'[node]) >= half /\ is_leaf'[node]
  BY <1>12
<1> QED BY <1>1, <1>13, <1>14 DEF FillInv, Filled, half

\* So are both parts of a full internal node, which give up the middle key.
LEMMA SplitInternalFills ==
  ASSUME LinkInv, FillInv, TypeInv', SplitInternal
  PROVE  FillInv'
<1> DEFINE p == parent[node]
           n == Len(keys[p])
           h == Half(n + 1)
<1>1. /\ pc' = "parent" /\ node' = p /\ UNCHANGED <<root, is_leaf>> /\ p \in Nodes
      /\ used' = used \cup {Fresh} /\ used \subseteq Nodes
      /\ keys \in [Nodes -> Seq(Keys)] /\ children \in [Nodes -> Seq(Nodes)]
      /\ separator \in Keys /\ ~HasRoom(p) /\ n <= MaxKeys
  BY DEF SplitInternal, LinkInv, TypeInv, TypeOK, HeapTypeOK, CallOK, NodeShape, tree
<1>2. PICK i \in 1..Len(children[p]) :
         LET temp_keys == InsertAt(keys[p], i, separator)
         IN keys' = [keys EXCEPT ![p] = SubSeq(temp_keys, 1, h),
                                 ![Fresh] = SubSeq(temp_keys, h + 2, n + 1)]
  BY DEF SplitInternal
<1>3. children[p] # <<>> /\ Len(children[p]) \in Nat /\ n \in Nat
  BY <1>1, <1>2, LenProperties, EmptySeq
<1>4. Len(children[p]) = n + 1 /\ ~is_leaf[p]
  BY <1>1, <1>3 DEF LinkInv, TypeInv, NodeShape
<1>5. p \in used /\ Fresh \in Nodes /\ Fresh \notin used /\ ~is_leaf[Fresh]
  <2>1. Fresh \in Nodes /\ Fresh \notin used
    BY FreshIsNew DEF SplitInternal, LinkInv, TypeInv, TypeOK, HeapTypeOK
  <2>2. p \in used
    BY <1>1, <1>3 DEF LinkInv, TypeInv, NodeShape
  <2> QED BY <2>1, <2>2 DEF LinkInv, TypeInv, NodeShape
<1>6. n = MaxKeys /\ n + 1 = Order
  BY <1>1, <1>3, OrderAssumption DEF HasRoom, MaxKeys
<1>7. h = Order \div 2
  BY <1>6, Halves
<1> DEFINE t == InsertAt(keys[p], i, separator)
<1>8. t \in Seq(Keys) /\ Len(t) = Order
  <2> DEFINE s == keys[p]
  <2>1. s \in Seq(Keys) /\ i \in 1..(Len(s) + 1) /\ Len(s) + 1 = Order
    BY <1>1, <1>4, <1>6
  <2> HIDE DEF s
  <2>2. InsertAt(s, i, separator) \in Seq(Keys) /\ Len(InsertAt(s, i, separator)) = Len(s) + 1
    BY <1>1, <2>1, InsertAtProperties
  <2> QED BY <2>1, <2>2 DEF s
<1> HIDE DEF t, h, n, p
<1> DEFINE half == Order \div 2
           low == SubSeq(t, 1, half)
           high == SubSeq(t, half + 2, Order)
<1>9. /\ half \in Nat /\ half <= Order /\ Order \in Nat
      /\ Order - half - 1 \in Nat /\ Order - half - 1 <= half
  BY Halves, OrderAssumption
<1>10. keys' = [keys EXCEPT ![p] = low, ![Fresh] = high]
  BY <1>2, <1>6, <1>7 DEF t
<1> HIDE DEF half
<1>11. Len(low) >= Order - half - 1 /\ Len(high) >= Order - half - 1
  <2>1. Len(low) = IF 1 <= half THEN half - 1 + 1 ELSE 0
    BY <1>8, <1>9, SubSeqTyped
  <2>2. Len(high) = IF half + 2 <= Order THEN Order - (half + 2) + 1 ELSE 0
    <3> DEFINE d == half + 2
    <3>1. d \in Nat /\ 1 <= d
      BY <1>9
    <3> HIDE DEF d
    <3>2. Len(SubSeq(t, d, Order)) = IF d <= Order THEN Order - d + 1 ELSE 0
      BY <1>8, <1>9, <3>1, SubSeqTyped
    <3> QED BY <3>2 DEF d
  <2> QED BY <1>9, <2>1, <2>2
<1> HIDE DEF low, high
<1>12. \A m \in used : m # p => keys'[m] = keys[m]
  BY <1>1, <1>5, <1>10
<1>13. \A m \in {p, Fresh} : Len(keys'[m]) >= Order - half - 1 /\ ~is_leaf'[m]
  BY <1>1, <1>4, <1>5, <1>10, <1>11
<1>14. WellFilled'
  <2> SUFFICES ASSUME NEW m \in used', m # root
               PROVE  Len(keys'[m]) >= (IF is_leaf'[m] THEN half ELSE Order - half - 1)
    BY <1>1 DEF WellFilled, half
  <2>1. CASE m \in {p, Fresh}
    BY <1>13, <2>1
  <2>2. CASE m \notin {p, Fresh}
    <3>1. m \in used /\ m # root
      BY <1>1, <2>2
    <3>2. Len(keys[m]) >= (IF is_leaf[m] THEN half ELSE Order - half - 1)
      BY <3>1 DEF FillInv, WellFilled, half
    <3> QED BY <1>1, <1>12, <2>2, <3>1, <3>2
  <2> QED BY <2>1, <2>2
<1>15. \A m \in {p} : Filled(m)'
  BY <1>13 DEF Filled, half
<1> QED BY <1>1, <1>14, <1>15 DEF FillInv, Filled

\* A node that takes one more key stays filled.
LEMMA GrowthFills ==
  ASSUME LinkInv, FillInv, TypeInv', NEW p \in Nodes, NEW i, NEW k \in Keys,
         i \in 1..(Len(keys[p]) + 1), keys' = [keys EXCEPT ![p] = InsertAt(@, i, k)],
         UNCHANGED <<used, is_leaf, root>>
  PROVE  WellFilled'
<1>1. keys \in [Nodes -> Seq(Keys)] /\ used \subseteq Nodes
  BY DEF LinkInv, TypeInv, TypeOK, HeapTypeOK
<1>2. Len(InsertAt(keys[p], i, k)) = Len(keys[p]) + 1 /\ Len(keys[p]) \in Nat
  <2> DEFINE s == keys[p]
  <2>1. s \in Seq(Keys) /\ i \in 1..(Len(s) + 1) /\ Len(s) \in Nat
    BY <1>1, LenProperties
  <2> HIDE DEF s
  <2>2. Len(InsertAt(s, i, k)) = Len(s) + 1
    BY <2>1, InsertAtProperties
  <2> QED BY <2>1, <2>2 DEF s
<1> SUFFICES ASSUME NEW m \in used, m # root
             PROVE  Len(keys'[m]) >=
                       (IF is_leaf[m] THEN Order \div 2 ELSE Order - (Order \div 2) - 1)
  BY DEF WellFilled
<1>3. Len(keys[m]) >= (IF is_leaf[m] THEN Order \div 2 ELSE Order - (Order \div 2) - 1)
  BY DEF FillInv, WellFilled
<1>4. CASE m = p
  <2>1. Len(keys'[m]) = Len(keys[p]) + 1
    BY <1>1, <1>2, <1>4
  <2> QED BY <1>2, <1>3, <1>4, <2>1, Halves
<1>5. CASE m # p
  <2>1. keys'[m] = keys[m]
    BY <1>1, <1>5
  <2> QED BY <1>3, <2>1
<1> QED BY <1>4, <1>5

LEMMA FillInvStep == LinkInv /\ LinkInv' /\ FillInv /\ [Next]_vars => FillInv'
<1> SUFFICES ASSUME LinkInv, LinkInv', FillInv, [Next]_vars PROVE FillInv'
  OBVIOUS
<1>0. TypeInv /\ TypeInv' /\ keys \in [Nodes -> Seq(Keys)] /\ is_leaf \in [Nodes -> BOOLEAN]
      /\ used \subseteq Nodes
  BY DEF LinkInv, TypeInv, TypeOK, HeapTypeOK
<1>1. ASSUME UNCHANGED <<keys, is_leaf, used, root>>, pc # "destroy", pc' # "parent",
             pc' # "destroy"
      PROVE  FillInv'
  BY <1>1 DEF FillInv, WellFilled
<1>2. ASSUME NEW k \in Keys, NEW o \in Offsets, InsertFirst(k, o) PROVE FillInv'
  <2>1. /\ keys' = [keys EXCEPT ![Fresh] = <<k>>] /\ is_leaf' = [is_leaf EXCEPT ![Fresh] = TRUE]
        /\ used' = used \cup {Fresh} /\ root' = Fresh /\ root = Null /\ pc' = "idle" /\ CanAllocate
    BY <1>2 DEF InsertFirst, Return
  <2>2. Fresh \in Nodes /\ Fresh \notin used
    BY <1>0, <2>1, FreshIsNew DEF TypeInv, TypeOK, HeapTypeOK
  <2>3. \A m \in used' : m # root' =>
           m \in used /\ m # root /\ keys'[m] = keys[m] /\ is_leaf'[m] = is_leaf[m]
    BY <1>0, <2>1, <2>2, NullAssumption
  <2> QED BY <2>1, <2>3 DEF FillInv, WellFilled
<1>3. ASSUME NEW k \in Keys, InsertFirstOutOfMemory(k) \/ SearchEmpty(k) PROVE FillInv'
  <2>1. UNCHANGED <<keys, is_leaf, used, root>> /\ pc = "idle" /\ pc' = "idle"
    BY <1>3 DEF InsertFirstOutOfMemory, SearchEmpty, Return, heap, tree
  <2> QED BY <1>1, <2>1
<1>4. ASSUME NEW k \in Keys, CallSearch(k) \/ \E o \in Offsets : CallInsert(k, o) PROVE FillInv'
  <2>1. UNCHANGED <<keys, is_leaf, used, root>> /\ pc = "idle" /\ pc' = "descend"
    BY <1>4 DEF CallSearch, CallInsert, heap, tree
  <2> QED BY <1>1, <2>1
<1>5. CASE DestroyEmpty
  <2>1. UNCHANGED <<keys, is_leaf, used, root>> /\ pc = "idle" /\ pc' = "idle"
    BY <1>5 DEF DestroyEmpty, Return, heap
  <2> QED BY <1>1, <2>1
<1>6. CASE CallDestroy
  <2>1. UNCHANGED <<keys, is_leaf, used, root>> /\ pc' = "destroy" /\ doomed' = {root}
    BY <1>6 DEF CallDestroy, heap, tree
  <2> QED BY <2>1 DEF FillInv, WellFilled
<1>7. CASE Descend \/ SearchLeaf \/ InsertDuplicate \/ SplitLeafOutOfMemory
  <2>1. /\ UNCHANGED <<keys, is_leaf, used, root>> /\ pc = "descend"
        /\ pc' \in {"idle", "descend"}
    BY <1>7 DEF Descend, SearchLeaf, InsertDuplicate, SplitLeafOutOfMemory, InsertFails,
                AtInsertLeaf, Return, heap, tree
  <2> QED BY <1>1, <2>1
<1>8. CASE InsertIntoLeaf
  <2>1. /\ UNCHANGED <<is_leaf, used, root>> /\ pc' = "idle" /\ node \in Nodes /\ call.key \in Keys
    BY <1>0, <1>8 DEF InsertIntoLeaf, AtInsertLeaf, Return, TypeInv, CallOK
  <2>2. PICK i \in 1..(Len(keys[node]) + 1) :
           keys' = [keys EXCEPT ![node] = InsertAt(@, i, call.key)]
    BY <1>8 DEF InsertIntoLeaf
  <2>3. WellFilled'
    BY <1>0, <2>1, <2>2, GrowthFills
  <2> QED BY <2>1, <2>3 DEF FillInv
<1>9. CASE SplitLeaf
  BY <1>0, <1>9, SplitLeafFills
<1>10. CASE NewRoot
  <2>1. /\ keys' = [keys EXCEPT ![Fresh] = <<separator>>] /\ UNCHANGED is_leaf
        /\ used' = used \cup {Fresh} /\ root' = Fresh /\ pc = "parent" /\ pc' = "idle"
        /\ parent[node] = Null /\ CanAllocate
    BY <1>10 DEF NewRoot, InsertSucceeds, Return
  <2>2. Fresh \in Nodes /\ Fresh \notin used /\ root \in Nodes
    BY <1>0, <2>1, FreshIsNew DEF TypeInv, TypeOK, HeapTypeOK, CallOK
  <2>3. node = root
    BY <1>0, <2>1, <2>2, NullAssumption, ReachedFromParent DEF LinkInv, CursorReached
  <2>4. \A m \in used : keys'[m] = keys[m] /\ Filled(m)
    BY <1>0, <2>1, <2>2, <2>3 DEF FillInv, WellFilled, Filled
  <2> QED BY <2>1, <2>4 DEF FillInv, WellFilled, Filled
<1>11. CASE InsertIntoInternalNode
  <2> DEFINE p == parent[node]
  <2>1. UNCHANGED <<is_leaf, used, root>> /\ pc' = "idle" /\ p \in Nodes /\ separator \in Keys
    BY <1>0, <1>11 DEF InsertIntoInternalNode, InsertSucceeds, Return, TypeInv, TypeOK,
                       HeapTypeOK, CallOK
  <2>2. PICK i \in 1..Len(children[p]) :
           keys' = [keys EXCEPT ![p] = InsertAt(@, i, separator)]
    BY <1>11 DEF InsertIntoInternalNode
  <2>3. i \in 1..(Len(keys[p]) + 1)
    <3>1. children[p] \in Seq(Nodes)
      BY <2>1, <1>0 DEF TypeInv, TypeOK, HeapTypeOK
    <3>2. children[p] # <<>>
      BY <2>2, <3>1, EmptySeq
    <3>3. Len(children[p]) = Len(keys[p]) + 1
      BY <1>0, <2>1, <3>2 DEF TypeInv, NodeShape
    <3> QED BY <3>3
  <2> HIDE DEF p
  <2>4. WellFilled'
    BY <1>0, <2>1, <2>2, <2>3, GrowthFills
  <2> QED BY <2>1, <2>4 DEF FillInv
<1>12. CASE SplitInternal
  BY <1>0, <1>12, SplitInternalFills
<1>13. CASE InsertIntoParentFails
  <2>1. UNCHANGED <<keys, is_leaf, used, root>> /\ pc = "parent" /\ pc' = "idle"
    BY <1>13 DEF InsertIntoParentFails, InsertFails, Return, heap, tree
  <2> QED BY <1>1, <2>1
<1>14. CASE DestroyNode
  <2>1. PICK n \in doomed :
           /\ doomed' = (doomed \ {n}) \cup ChildrenToFree(n) /\ used' = used \ {n}
           /\ keys' = [keys EXCEPT ![n] = <<>>] /\ is_leaf' = [is_leaf EXCEPT ![n] = FALSE]
           /\ UNCHANGED root /\ pc = "destroy" /\ pc' = "destroy"
    BY <1>14 DEF DestroyNode, tree
  <2>2. \A m \in used' : m \in used /\ keys'[m] = keys[m] /\ is_leaf'[m] = is_leaf[m]
    BY <1>0, <2>1
  <2> QED BY <2>1, <2>2 DEF FillInv, WellFilled
<1>15. CASE DestroyReturns
  <2>1. /\ UNCHANGED <<keys, is_leaf, used>> /\ pc = "destroy" /\ doomed = {} /\ pc' = "idle"
    BY <1>15 DEF DestroyReturns, heap
  <2> QED BY <2>1 DEF FillInv, WellFilled
<1>16. CASE UNCHANGED vars
  <2>1. UNCHANGED <<keys, is_leaf, used, root, pc, node, doomed>>
    BY <1>16 DEF vars, heap, tree, frame
  <2> QED BY <2>1 DEF FillInv, WellFilled, Filled
<1> QED BY <1>2, <1>3, <1>4, <1>5, <1>6, <1>7, <1>8, <1>9, <1>10, <1>11, <1>12, <1>13, <1>14,
           <1>15, <1>16 DEF Next, Call, Step

\* WellFilled: for every order and whatever allocations fail, no node but the root ever has
\* fewer keys than a split leaves it (left_count, split_index and right_key_count).
THEOREM NodesStayFilled == Spec => []WellFilled
<1>1. Init => FillInv
  BY DEF Init, FillInv, WellFilled
<1>2. FillInv => WellFilled
  BY DEF FillInv
<1> QED BY <1>1, <1>2, FillInvStep, LinksInvariant, PTL DEF Spec

-----------------------------------------------------------------------------
(* The arrays of one node: what inserting a key and splitting do to the    *)
(* rule of find_leaf_node, to the order of the keys and to the rows.       *)

Sorted(s) == \A i, j \in DOMAIN s : i < j => s[i] <= s[j]
Ascending(s) == \A i, j \in DOMAIN s : i < j => s[i] < s[j]

-----------------------------------------------------------------------------
(* The rule of find_leaf_node.                                             *)

\* Elements of a sequence of numbers.
LEMMA NatSeq ==
  ASSUME NEW s \in Seq(Nat)
  PROVE  /\ Len(s) \in Nat /\ DOMAIN s = 1..Len(s)
         /\ \A i \in 1..Len(s) : s[i] \in Nat
         /\ ToSet(s) = {s[i] : i \in 1..Len(s)}
<1>1. Len(s) \in Nat /\ DOMAIN s = 1..Len(s) /\ \A i \in 1..Len(s) : s[i] \in Nat
  BY LenProperties, ElementOfSeq
<1> QED BY <1>1 DEF ToSet

LEMMA NatInsertAt ==
  ASSUME NEW s \in Seq(Nat), NEW i \in 1..(Len(s) + 1), NEW e \in Nat
  PROVE  /\ InsertAt(s, i, e) \in Seq(Nat)
         /\ Len(InsertAt(s, i, e)) = Len(s) + 1
         /\ DOMAIN InsertAt(s, i, e) = 1..(Len(s) + 1)
         /\ \A j \in 1..(Len(s) + 1) :
               InsertAt(s, i, e)[j] = IF j < i THEN s[j]
                                      ELSE IF j = i THEN e ELSE s[j - 1]
<1> DEFINE S == Nat
           t == InsertAt(s, i, e)
<1>1. s \in Seq(S) /\ e \in S
  OBVIOUS
<1> HIDE DEF S
<1>2. /\ t \in Seq(S) /\ Len(t) = Len(s) + 1
      /\ \A j \in 1..(Len(s) + 1) :
            t[j] = IF j < i THEN s[j] ELSE IF j = i THEN e ELSE s[j - 1]
  BY <1>1, InsertAtProperties
<1>3. DOMAIN t = 1..(Len(s) + 1)
  BY <1>2, LenProperties
<1> QED BY <1>2, <1>3 DEF S

\* A key goes to at most one child.
LEMMA OneSlot ==
  ASSUME NEW s \in Seq(Nat), NEW k \in Nat,
         NEW i \in 1..(Len(s) + 1), NEW j \in 1..(Len(s) + 1),
         IsChildSlot(s, k, i), IsChildSlot(s, k, j)
  PROVE  i = j
<1>1. Len(s) \in Nat /\ \A a \in 1..Len(s) : s[a] \in Nat
  BY NatSeq
<1>2. ASSUME NEW a \in 1..(Len(s) + 1), NEW b \in 1..(Len(s) + 1), a < b,
             IsChildSlot(s, k, a), IsChildSlot(s, k, b)
      PROVE  FALSE
  <2>1. a \in 1..Len(s) /\ a \in 1..(b - 1)
    BY <1>1, <1>2
  <2>2. k < s[a] /\ s[a] <= k
    BY <1>2, <2>1 DEF IsChildSlot
  <2> QED BY <1>1, <2>1, <2>2
<1>3. ~(i < j) /\ ~(j < i)
  BY <1>2
<1> QED BY <1>1, <1>3

\* A separator put where its own search leads divides the keys of that child, and no others
\* (insert_into_internal_node).
LEMMA SlotsAfterInsert ==
  ASSUME NEW s \in Seq(Nat), NEW sep \in Nat, NEW i \in 1..(Len(s) + 1), IsChildSlot(s, sep, i),
         NEW k \in Nat, NEW j \in 1..(Len(s) + 2)
  PROVE  IsChildSlot(InsertAt(s, i, sep), k, j) <=>
            \/ j < i /\ IsChildSlot(s, k, j)
            \/ j = i /\ IsChildSlot(s, k, i) /\ k < sep
            \/ j = i + 1 /\ IsChildSlot(s, k, i) /\ sep <= k
            \/ j > i + 1 /\ IsChildSlot(s, k, j - 1)
<1> DEFINE t == InsertAt(s, i, sep)
           len == Len(s)
<1>1. len \in Nat /\ \A a \in 1..len : s[a] \in Nat
  BY NatSeq
<1>2. /\ Len(t) = len + 1
      /\ \A a \in 1..(len + 1) : t[a] = IF a < i THEN s[a] ELSE IF a = i THEN sep ELSE s[a - 1]
  BY InsertAtProperties
<1>3. (\A a \in 1..(i - 1) : s[a] <= sep) /\ (i <= len => sep < s[i])
  BY DEF IsChildSlot
<1> DEFINE Old(b) == (\A a \in 1..(b - 1) : s[a] <= k) /\ (b <= len => k < s[b])
           New == (\A a \in 1..(j - 1) : t[a] <= k) /\ (j <= len + 1 => k < t[j])
<1>4. SUFFICES New <=> \/ j < i /\ Old(j)
                       \/ j = i /\ Old(i) /\ k < sep
                       \/ j = i + 1 /\ Old(i) /\ sep <= k
                       \/ j > i + 1 /\ Old(j - 1)
  BY <1>2 DEF IsChildSlot
<1> HIDE DEF t, len
<1>6. i \in 1..(len + 1) /\ j \in 1..(len + 2)
  BY DEF len
<1>7. CASE j < i
  <2>1. (\A a \in 1..(j - 1) : t[a] = s[a]) /\ t[j] = s[j] /\ j <= len
    BY <1>1, <1>2, <1>6, <1>7
  <2>2. (\A a \in 1..(j - 1) : t[a] <= k) <=> (\A a \in 1..(j - 1) : s[a] <= k)
    BY <2>1
  <2>3. (j <= len + 1 => k < t[j]) <=> (j <= len => k < s[j])
    BY <1>1, <1>6, <2>1
  <2>4. New <=> Old(j)
    BY <2>2, <2>3
  <2> HIDE DEF New, Old
  <2> QED BY <1>6, <1>7, <2>4
<1>8. CASE j = i
  <2>1. (\A a \in 1..(i - 1) : t[a] = s[a]) /\ t[i] = sep
    BY <1>1, <1>2, <1>6
  <2>2. New <=> (\A a \in 1..(i - 1) : s[a] <= k) /\ k < sep
    <3>1. i <= len + 1 /\ (j <= len + 1 => k < t[j]) <=> k < sep
      BY <1>1, <1>6, <1>8, <2>1
    <3>2. (\A a \in 1..(j - 1) : t[a] <= k) <=> (\A a \in 1..(i - 1) : s[a] <= k)
      BY <1>8, <2>1
    <3> QED BY <3>1, <3>2, <1>1, <1>6
  <2>3. k < sep => (i <= len => k < s[i])
    BY <1>1, <1>3, <1>6
  <2>4. New <=> Old(i) /\ k < sep
    BY <2>2, <2>3
  <2> HIDE DEF New, Old
  <2> QED BY <1>6, <1>8, <2>4
<1>9. CASE j = i + 1
  <2>1. /\ \A a \in 1..(i - 1) : t[a] = s[a]
        /\ t[i] = sep /\ (i <= len => t[i + 1] = s[i])
    BY <1>1, <1>2, <1>6
  <2>2. (\A a \in 1..(j - 1) : t[a] <= k) <=> (\A a \in 1..(i - 1) : s[a] <= k) /\ sep <= k
    <3>1. \A a \in 1..(j - 1) : a \in 1..(i - 1) \/ a = i
      BY <1>6, <1>9
    <3>2. i \in 1..(j - 1) /\ \A a \in 1..(i - 1) : a \in 1..(j - 1)
      BY <1>6, <1>9
    <3> QED BY <2>1, <3>1, <3>2
  <2>3. (j <= len + 1 => k < t[j]) <=> (i <= len => k < s[i])
    BY <1>1, <1>6, <1>9, <2>1
  <2>4. New <=> Old(i) /\ sep <= k
    BY <2>2, <2>3
  <2> HIDE DEF New, Old
  <2> QED BY <1>6, <1>9, <2>4
<1>10. CASE j > i + 1
  <2>1. i <= len /\ j - 1 \in 1..(len + 1)
    BY <1>1, <1>6, <1>10
  <2>2. /\ \A a \in 1..(i - 1) : t[a] = s[a]
        /\ t[i] = sep
        /\ \A a \in (i + 1)..(len + 1) : t[a] = s[a - 1]
    BY <1>1, <1>2, <1>6
  <2>3. ASSUME Old(j - 1) PROVE New
    <3>1. \A a \in 1..(j - 2) : s[a] <= k
      BY <1>1, <1>6, <2>3
    <3>2. s[i] <= k /\ sep < s[i]
      BY <1>3, <1>6, <1>10, <2>1, <3>1
    <3>3. sep <= k
      BY <1>1, <1>6, <2>1, <3>2
    <3>4. \A a \in 1..(j - 1) : t[a] <= k
      <4> TAKE a \in 1..(j - 1)
      <4>1. CASE a < i
        <5>1. a \in 1..(i - 1) /\ a \in 1..(j - 2)
          BY <4>1, <1>6, <1>10
        <5>2. t[a] = s[a] /\ s[a] <= k
          BY <5>1, <2>2, <3>1
        <5> QED BY <5>2
      <4>2. CASE a = i
        BY <4>2, <2>2, <3>3
      <4>3. CASE a > i
        <5>1. a \in (i + 1)..(len + 1) /\ a - 1 \in 1..(j - 2)
          BY <4>3, <1>1, <1>6, <2>1
        <5> QED BY <5>1, <2>2, <3>1
      <4> QED BY <4>1, <4>2, <4>3, <1>6
    <3>5. j <= len + 1 => k < t[j]
      <4>1. j <= len + 1 => t[j] = s[j - 1] /\ j - 1 <= len
        BY <1>1, <1>6, <1>10, <2>2
      <4>2. j - 1 <= len => k < s[j - 1]
        BY <2>3
      <4> QED BY <4>1, <4>2
    <3> QED BY <3>4, <3>5
  <2>4. ASSUME New PROVE Old(j - 1)
    <3>1. \A a \in 1..(j - 1) : t[a] <= k
      BY <2>4
    <3>2. ASSUME NEW a \in 1..(j - 1 - 1) PROVE s[a] <= k
      <4>1. CASE a < i
        BY <4>1, <1>6, <2>2, <3>1, SMTT(30)
      <4>2. CASE a >= i
        <5>1. a + 1 \in (i + 1)..(len + 1) /\ a + 1 \in 1..(j - 1) /\ (a + 1) - 1 = a
          BY <4>2, <1>1, <1>6, <2>1
        <5>2. t[a + 1] = s[a] /\ t[a + 1] <= k
          BY <5>1, <2>2, <3>1
        <5> QED BY <5>2
      <4> QED BY <4>1, <4>2, <1>6
    <3>3. j - 1 <= len => k < s[j - 1]
      <4>1. j - 1 <= len => j <= len + 1 /\ j \in (i + 1)..(len + 1)
        BY <1>1, <1>6, <1>10
      <4> QED BY <4>1, <2>2, <2>4
    <3> QED BY <3>2, <3>3
  <2>5. New <=> Old(j - 1)
    BY <2>3, <2>4
  <2> HIDE DEF New, Old
  <2> QED BY <2>5, <1>6, <1>10
<1>11. j < i \/ j = i \/ j = i + 1 \/ j > i + 1
  BY <1>6
<1> QED BY <1>7, <1>8, <1>9, <1>10, <1>11 DEF t

\* A part of a sequence of numbers is ordered as the sequence is.
LEMMA PartOrdered ==
  ASSUME NEW s \in Seq(Nat), NEW a \in Nat, NEW b \in Nat, 1 <= a, b <= Len(s)
  PROVE  /\ SubSeq(s, a, b) \in Seq(Nat)
         /\ Sorted(s) => Sorted(SubSeq(s, a, b))
         /\ Ascending(s) => Ascending(SubSeq(s, a, b))
         /\ ToSet(SubSeq(s, a, b)) = {s[j] : j \in a..b}
<1> DEFINE q == SubSeq(s, a, b)
<1>1. /\ q \in Seq(Nat) /\ Len(q) = IF a <= b THEN b - a + 1 ELSE 0
      /\ \A j \in 1..(b - a + 1) : q[j] = s[a + j - 1]
  BY SubSeqTyped
<1>2. Len(s) \in Nat /\ DOMAIN s = 1..Len(s)
  BY NatSeq
<1>3. DOMAIN q = 1..Len(q)
  BY <1>1, LenProperties
<1> HIDE DEF q
<1>4. \A j \in DOMAIN q : q[j] = s[a + j - 1] /\ a + j - 1 \in DOMAIN s /\ a + j - 1 \in a..b
  <2>1. \A j \in DOMAIN q : j \in 1..(b - a + 1)
    BY <1>1, <1>3
  <2>2. \A j \in 1..(b - a + 1) : a + j - 1 \in 1..Len(s) /\ a + j - 1 \in a..b
    BY <1>2
  <2> QED BY <1>1, <1>2, <2>1, <2>2
<1>5. \A i, j \in DOMAIN q : i < j => a + i - 1 < a + j - 1
  BY <1>1, <1>3
<1>6. Sorted(s) => Sorted(q)
  BY <1>4, <1>5 DEF Sorted
<1>7. Ascending(s) => Ascending(q)
  BY <1>4, <1>5 DEF Ascending
<1>8. \A j \in a..b : j - a + 1 \in DOMAIN q /\ q[j - a + 1] = s[j]
  BY <1>1, <1>3
<1>9. ToSet(q) = {s[j] : j \in a..b}
  BY <1>4, <1>8 DEF ToSet
<1> QED BY <1>1, <1>6, <1>7, <1>9 DEF q

\* When the middle key of a node moves up, the keys below it go where they went in the old
\* node, those above it where they went in the new one (split_internal_and_insert).
LEMMA SlotsAfterCut ==
  ASSUME NEW t \in Seq(Nat), Sorted(t), NEW h \in Nat, h + 1 <= Len(t), NEW k \in Nat
  PROVE  /\ \A j \in 1..(h + 1) :
               IsChildSlot(t, k, j) <=> k < t[h + 1] /\ IsChildSlot(SubSeq(t, 1, h), k, j)
         /\ \A j \in 1..(Len(t) - h) :
               IsChildSlot(t, k, h + 1 + j) <=>
                  t[h + 1] <= k /\ IsChildSlot(SubSeq(t, h + 2, Len(t)), k, j)
<1> DEFINE len == Len(t)
           mid == t[h + 1]
<1>1. len \in Nat /\ DOMAIN t = 1..len /\ \A a \in 1..len : t[a] \in Nat
  BY NatSeq
<1>2. \A a, b \in 1..len : a <= b => t[a] <= t[b]
  <2>1. \A a, b \in 1..len : a < b => t[a] <= t[b]
    BY <1>1 DEF Sorted
  <2>2. \A a \in 1..len : t[a] <= t[a]
    BY <1>1
  <2>3. \A a, b \in 1..len : a <= b => a < b \/ a = b
    BY <1>1
  <2> QED BY <2>1, <2>2, <2>3
<1>3. /\ Len(SubSeq(t, 1, h)) = h
      /\ \A a \in 1..h : SubSeq(t, 1, h)[a] = t[a]
  <2>1. /\ Len(SubSeq(t, 1, h)) = IF 1 <= h THEN h - 1 + 1 ELSE 0
        /\ \A j \in 1..(h - 1 + 1) : SubSeq(t, 1, h)[j] = t[1 + j - 1]
    BY <1>1, SubSeqTyped
  <2> QED BY <2>1
<1>4. /\ Len(SubSeq(t, h + 2, len)) = len - h - 1
      /\ \A a \in 1..(len - h - 1) : SubSeq(t, h + 2, len)[a] = t[h + 1 + a]
  <2> DEFINE c == h + 2
  <2>1. c \in Nat /\ 1 <= c
    OBVIOUS
  <2>0. len \in Nat /\ len <= Len(t)
    BY <1>1
  <2> HIDE DEF c, len
  <2>2. /\ Len(SubSeq(t, c, len)) = IF c <= len THEN len - c + 1 ELSE 0
        /\ \A j \in 1..(len - c + 1) : SubSeq(t, c, len)[j] = t[c + j - 1]
    BY <2>0, <2>1, SubSeqTyped, SMTT(30)
  <2>3. h + 1 <= len
    BY DEF len
  <2>4. Len(SubSeq(t, c, len)) = len - h - 1
    BY <1>1, <2>2, <2>3 DEF c
  <2>5. \A a \in 1..(len - h - 1) : SubSeq(t, c, len)[a] = t[h + 1 + a]
    <3> TAKE a \in 1..(len - h - 1)
    <3>1. a \in 1..(len - c + 1) /\ c + a - 1 = h + 1 + a
      BY <1>1 DEF c
    <3> QED BY <2>2, <3>1
  <2> QED BY <2>4, <2>5 DEF c
<1>5. h + 1 \in 1..len /\ mid \in Nat
  BY <1>1
<1> HIDE DEF len, mid
<1>6. ASSUME NEW j \in 1..(h + 1)
      PROVE  /\ IsChildSlot(t, k, j) <=> (\A a \in 1..(j - 1) : t[a] <= k) /\ k < t[j]
             /\ IsChildSlot(SubSeq(t, 1, h), k, j)
                   <=> (\A a \in 1..(j - 1) : t[a] <= k) /\ (j <= h => k < t[j])
  <2>1. j <= len
    BY <1>1, <1>5
  <2>2. \A a \in 1..(j - 1) : a \in 1..h
    OBVIOUS
  <2> QED BY <1>3, <2>1, <2>2 DEF IsChildSlot, len
<1>7. ASSUME NEW j \in 1..(h + 1)
      PROVE  IsChildSlot(t, k, j) <=> k < mid /\ IsChildSlot(SubSeq(t, 1, h), k, j)
  <2>1. j \in 1..len /\ t[j] \in Nat /\ t[j] <= mid /\ (j = h + 1 => t[j] = mid)
    BY <1>1, <1>2, <1>5 DEF mid
  <2>2. k < t[j] <=> k < mid /\ (j <= h => k < t[j])
    BY <1>5, <2>1
  <2> QED BY <1>6, <2>2
<1>8. ASSUME NEW j \in 1..(len - h)
      PROVE  /\ IsChildSlot(t, k, h + 1 + j) <=>
                   (\A a \in 1..(h + j) : t[a] <= k) /\ (j <= len - h - 1 => k < t[h + 1 + j])
             /\ IsChildSlot(SubSeq(t, h + 2, len), k, j) <=>
                   /\ \A a \in 1..(j - 1) : t[h + 1 + a] <= k
                   /\ j <= len - h - 1 => k < t[h + 1 + j]
  <2>1. (h + 1 + j) - 1 = h + j /\ (h + 1 + j <= len <=> j <= len - h - 1)
    BY <1>1
  <2>2. \A a \in 1..(j - 1) : a \in 1..(len - h - 1)
    BY <1>1
  <2>3. IsChildSlot(t, k, h + 1 + j) <=>
           (\A a \in 1..(h + j) : t[a] <= k) /\ (j <= len - h - 1 => k < t[h + 1 + j])
    BY <2>1 DEF IsChildSlot, len
  <2>4. IsChildSlot(SubSeq(t, h + 2, len), k, j) <=>
           /\ \A a \in 1..(j - 1) : t[h + 1 + a] <= k
           /\ j <= len - h - 1 => k < t[h + 1 + j]
    <3>1. j <= len - h - 1 => j \in 1..(len - h - 1)
      BY <1>1
    <3> QED BY <1>4, <2>2, <3>1 DEF IsChildSlot
  <2> QED BY <2>3, <2>4
<1>9. ASSUME NEW j \in 1..(len - h)
      PROVE  (\A a \in 1..(h + j) : t[a] <= k) <=>
                mid <= k /\ \A a \in 1..(j - 1) : t[h + 1 + a] <= k
  <2>1. ASSUME \A a \in 1..(h + j) : t[a] <= k
        PROVE  mid <= k /\ \A a \in 1..(j - 1) : t[h + 1 + a] <= k
    <3>1. h + 1 \in 1..(h + j) /\ \A a \in 1..(j - 1) : h + 1 + a \in 1..(h + j)
      BY <1>1
    <3> QED BY <2>1, <3>1 DEF mid
  <2>2. ASSUME mid <= k, \A a \in 1..(j - 1) : t[h + 1 + a] <= k, NEW a \in 1..(h + j)
        PROVE  t[a] <= k
    <3>1. CASE a <= h + 1
      <4>1. a \in 1..len /\ t[a] \in Nat /\ t[a] <= mid
        BY <1>1, <1>2, <1>5, <3>1 DEF mid
      <4> QED BY <1>5, <2>2, <4>1
    <3>2. CASE a > h + 1
      <4>1. a - h - 1 \in 1..(j - 1) /\ h + 1 + (a - h - 1) = a
        BY <3>2
      <4> QED BY <2>2, <4>1
    <3> QED BY <3>1, <3>2
  <2> QED BY <2>1, <2>2
<1>10. ASSUME NEW j \in 1..(len - h)
       PROVE  IsChildSlot(t, k, h + 1 + j) <=>
                 mid <= k /\ IsChildSlot(SubSeq(t, h + 2, len), k, j)
  BY <1>8, <1>9
<1> QED BY <1>7, <1>10 DEF len, mid

\* Adding a key where it belongs keeps a node in order.
LEMMA AscendingAfterInsert ==
  ASSUME NEW s \in Seq(Nat), Ascending(s), NEW e \in Nat, NEW i \in 1..(Len(s) + 1),
         IsLeafSlot(s, e, i), ~Holds(s, e, i)
  PROVE  Ascending(InsertAt(s, i, e))
<1> DEFINE t == InsertAt(s, i, e)
           len == Len(s)
<1>1. len \in Nat /\ DOMAIN s = 1..len /\ \A a \in 1..len : s[a] \in Nat
  BY NatSeq
<1>2. /\ Len(t) = len + 1
      /\ \A a \in 1..(len + 1) : t[a] = IF a < i THEN s[a] ELSE IF a = i THEN e ELSE s[a - 1]
  BY NatInsertAt
<1>3. DOMAIN t = 1..(len + 1)
  BY NatInsertAt
<1>4. (\A a \in 1..(i - 1) : s[a] < e) /\ (i <= len => e < s[i])
  BY <1>1 DEF IsLeafSlot, Holds
<1>5. \A a, b \in 1..len : a < b => s[a] < s[b]
  BY <1>1 DEF Ascending
<1>6. i \in 1..(len + 1)
  OBVIOUS
<1> HIDE DEF t, len
<1>7. ASSUME NEW a \in 1..(len + 1), NEW b \in 1..(len + 1), a < b PROVE t[a] < t[b]
  <2>1. CASE b < i
    <3>1. a \in 1..len /\ b \in 1..len /\ t[a] = s[a] /\ t[b] = s[b]
      BY <2>1, <1>1, <1>2, <1>6, <1>7
    <3> QED BY <3>1, <1>5, <1>7
  <2>2. CASE b = i
    BY <2>2, <1>1, <1>2, <1>4, <1>6, <1>7
  <2>3. CASE a > i
    <3>1. a - 1 \in 1..len /\ b - 1 \in 1..len /\ a - 1 < b - 1
          /\ t[a] = s[a - 1] /\ t[b] = s[b - 1]
      <4>1. a - 1 \in 1..len /\ b - 1 \in 1..len /\ ~(a < i) /\ a # i /\ ~(b < i) /\ b # i
        BY <2>3, <1>1, <1>6, <1>7
      <4> QED BY <4>1, <1>2, <1>7
    <3> QED BY <3>1, <1>5
  <2>4. CASE b > i /\ a <= i
    <3>1. b - 1 \in 1..len /\ i \in 1..len /\ i <= b - 1 /\ t[b] = s[b - 1]
      BY <2>4, <1>1, <1>2, <1>6
    <3>2. s[i] <= s[b - 1] /\ e < s[i] /\ s[i] \in Nat /\ s[b - 1] \in Nat
      BY <3>1, <1>1, <1>4, <1>5
    <3>3. CASE a = i
      BY <3>1, <3>2, <3>3, <1>2
    <3>4. CASE a < i
      <4>2. a \in 1..(i - 1) /\ a \in 1..len /\ t[a] = s[a]
        BY <3>1, <3>4, <1>1, <1>2, <1>6
      <4>3. s[a] < e /\ s[a] \in Nat
        BY <4>2, <1>1, <1>4
      <4> QED BY <3>1, <3>2, <4>2, <4>3, SMTT(30)
    <3> QED BY <2>4, <3>3, <3>4, <1>6
  <2> QED BY <2>1, <2>2, <2>3, <2>4, <1>6, <1>7
<1> QED BY <1>3, <1>7 DEF Ascending, t

\* The two parts of a sequence cut in two, element by element.
LEMMA TwoParts ==
  ASSUME NEW S, NEW s \in Seq(S), NEW h \in Nat, h + 1 <= Len(s)
  PROVE  /\ DOMAIN SubSeq(s, 1, h + 1) = 1..(h + 1)
         /\ \A j \in 1..(h + 1) : SubSeq(s, 1, h + 1)[j] = s[j]
         /\ DOMAIN SubSeq(s, h + 2, Len(s)) = 1..(Len(s) - (h + 1))
         /\ \A j \in 1..(Len(s) - (h + 1)) : SubSeq(s, h + 2, Len(s))[j] = s[h + 1 + j]
<1> DEFINE len == Len(s)
           c == h + 1
           d == h + 2
           front == SubSeq(s, 1, c)
           back == SubSeq(s, d, len)
<1>1. len \in Nat /\ c \in Nat /\ d \in Nat /\ 1 <= c /\ 1 <= d /\ c <= len
      /\ len <= Len(s) /\ c <= Len(s) /\ d = c + 1
  BY LenProperties
<1> HIDE DEF len, c, d
<1>2. /\ front \in Seq(S) /\ Len(front) = IF 1 <= c THEN c - 1 + 1 ELSE 0
      /\ \A j \in 1..(c - 1 + 1) : front[j] = s[1 + j - 1]
  BY <1>1, SubSeqTyped
<1>3. /\ back \in Seq(S) /\ Len(back) = IF d <= len THEN len - d + 1 ELSE 0
      /\ \A j \in 1..(len - d + 1) : back[j] = s[d + j - 1]
  BY <1>1, SubSeqTyped
<1> HIDE DEF front, back
<1>4. DOMAIN front = 1..Len(front) /\ DOMAIN back = 1..Len(back)
  BY <1>2, <1>3, LenProperties
<1>5. DOMAIN front = 1..c /\ \A j \in 1..c : front[j] = s[j]
  BY <1>1, <1>2, <1>4
<1>6. DOMAIN back = 1..(len - c) /\ \A j \in 1..(len - c) : back[j] = s[c + j]
  <2>1. Len(back) = len - c
    BY <1>1, <1>3
  <2>2. \A j \in 1..(len - c) : j \in 1..(len - d + 1) /\ d + j - 1 = c + j
    BY <1>1
  <2> QED BY <1>3, <1>4, <2>1, <2>2
<1> QED BY <1>5, <1>6 DEF front, back, len, c, d

\* The two parts of a sequence cut in two have its elements.
LEMMA BothParts ==
  ASSUME NEW S, NEW s \in Seq(S), NEW h \in Nat, h + 1 <= Len(s)
  PROVE  ToSet(SubSeq(s, 1, h + 1)) \cup ToSet(SubSeq(s, h + 2, Len(s))) = ToSet(s)
<1> DEFINE len == Len(s)
           c == h + 1
           front == SubSeq(s, 1, h + 1)
           back == SubSeq(s, h + 2, Len(s))
<1>1. len \in Nat /\ DOMAIN s = 1..len /\ c \in Nat /\ 1 <= c /\ c <= len
  BY LenProperties
<1>2. /\ DOMAIN front = 1..c /\ \A j \in 1..c : front[j] = s[j]
      /\ DOMAIN back = 1..(len - c) /\ \A j \in 1..(len - c) : back[j] = s[c + j]
  BY TwoParts
<1> HIDE DEF len, c, front, back
<1>3. \A j \in 1..c : j \in 1..len
  BY <1>1
<1>4. \A j \in 1..(len - c) : c + j \in 1..len
  BY <1>1
<1>5. \A j \in 1..len : j \in 1..c \/ (j - c \in 1..(len - c) /\ c + (j - c) = j)
  BY <1>1
<1>6. ToSet(front) \subseteq ToSet(s)
  BY <1>1, <1>2, <1>3 DEF ToSet
<1>7. ToSet(back) \subseteq ToSet(s)
  BY <1>1, <1>2, <1>4 DEF ToSet
<1>8. ToSet(s) \subseteq ToSet(front) \cup ToSet(back)
  <2> SUFFICES ASSUME NEW j \in 1..len PROVE s[j] \in ToSet(front) \cup ToSet(back)
    BY <1>1 DEF ToSet
  <2>1. CASE j \in 1..c
    BY <2>1, <1>2 DEF ToSet
  <2>2. CASE j - c \in 1..(len - c) /\ c + (j - c) = j
    BY <2>2, <1>2 DEF ToSet
  <2> QED BY <2>1, <2>2, <1>5
<1> QED BY <1>6, <1>7, <1>8 DEF front, back

\* The two parts of a leaf's keys belong on the two sides of the first key of the second.
LEMMA PartsFit ==
  ASSUME NEW t \in Seq(Nat), Ascending(t), NEW h \in Nat, 1 <= h, h + 1 <= Len(t),
         NEW D, ToSet(t) \subseteq D
  PROVE  /\ Ascending(SubSeq(t, 1, h)) /\ Ascending(SubSeq(t, h + 1, Len(t)))
         /\ Ascending(SubSeq(t, h + 2, Len(t)))
         /\ ToSet(SubSeq(t, 1, h)) \subseteq {k \in D : k < t[h + 1]}
         /\ ToSet(SubSeq(t, h + 1, Len(t))) \subseteq {k \in D : t[h + 1] <= k}
         /\ ToSet(SubSeq(t, h + 2, Len(t))) \subseteq {k \in D : t[h + 1] <= k}
         /\ {k \in D : k < t[h + 1]} # {} /\ t[h + 1] \in {k \in D : t[h + 1] <= k}
         /\ t[h + 1] \in Nat
<1> DEFINE len == Len(t)
           b == h + 1
           c == h + 2
<1>1. /\ len \in Nat /\ DOMAIN t = 1..len /\ \A a \in 1..len : t[a] \in Nat
      /\ \A a \in 1..len : t[a] \in ToSet(t)
  BY NatSeq
<1>2. /\ b \in Nat /\ c \in Nat /\ 1 <= b /\ 1 <= c /\ b <= len /\ h <= len
      /\ len <= Len(t) /\ h <= Len(t) /\ 1 \in Nat
  BY <1>1
<1>3. \A a, e \in 1..len : a < e => t[a] < t[e]
  BY <1>1 DEF Ascending
<1> HIDE DEF len, b, c
<1>4. Ascending(SubSeq(t, 1, h)) /\ ToSet(SubSeq(t, 1, h)) = {t[j] : j \in 1..h}
  BY <1>2, PartOrdered
<1>5. Ascending(SubSeq(t, b, len)) /\ ToSet(SubSeq(t, b, len)) = {t[j] : j \in b..len}
  BY <1>1, <1>2, PartOrdered
<1>6. Ascending(SubSeq(t, c, len)) /\ ToSet(SubSeq(t, c, len)) = {t[j] : j \in c..len}
  BY <1>1, <1>2, PartOrdered
<1>7. b \in 1..len /\ t[b] \in Nat /\ t[b] \in D
  BY <1>1, <1>2
<1>8. \A j \in 1..h : t[j] \in D /\ t[j] < t[b]
  <2>1. \A j \in 1..h : j \in 1..len /\ j < b
    BY <1>1, <1>2 DEF b
  <2> QED BY <1>1, <1>3, <1>7, <2>1
<1>9. \A j \in b..len : t[j] \in D /\ t[b] <= t[j]
  <2>1. \A j \in b..len : j \in 1..len /\ (j = b \/ b < j)
    BY <1>1, <1>2
  <2> QED BY <1>1, <1>3, <1>7, <2>1, SMTT(30)
<1>10. \A j \in c..len : j \in b..len
  BY <1>1, <1>2 DEF b, c
<1>11. 1 \in 1..h
  OBVIOUS
<1>12. ToSet(SubSeq(t, 1, h)) \subseteq {k \in D : k < t[b]}
  BY <1>4, <1>8
<1>13. ToSet(SubSeq(t, b, len)) \subseteq {k \in D : t[b] <= k}
  BY <1>5, <1>9
<1>14. ToSet(SubSeq(t, c, len)) \subseteq {k \in D : t[b] <= k}
  BY <1>6, <1>9, <1>10
<1>15. {k \in D : k < t[b]} # {} /\ t[b] \in {k \in D : t[b] <= k}
  BY <1>7, <1>8, <1>11
<1> QED BY <1>4, <1>5, <1>6, <1>7, <1>12, <1>13, <1>14, <1>15 DEF b, c, len

\* A key whose place in a node is not taken by itself is not in the node.
LEMMA NotThere ==
  ASSUME NEW s \in Seq(Nat), Ascending(s), NEW e \in Nat, NEW i \in 1..(Len(s) + 1),
         IsLeafSlot(s, e, i), ~Holds(s, e, i)
  PROVE  \A j \in 1..Len(s) : s[j] # e
<1> DEFINE len == Len(s)
<1>1. len \in Nat /\ DOMAIN s = 1..len /\ \A a \in 1..len : s[a] \in Nat
  BY NatSeq
<1>2. (\A a \in 1..(i - 1) : s[a] < e) /\ (i <= len => e < s[i])
  BY <1>1 DEF IsLeafSlot, Holds
<1>3. \A a, b \in 1..len : a < b => s[a] < s[b]
  BY <1>1 DEF Ascending
<1> SUFFICES ASSUME NEW j \in 1..len PROVE s[j] # e
  OBVIOUS
<1> HIDE DEF len
<1>4. CASE j < i
  <2>1. j \in 1..(i - 1)
    BY <1>1, <1>4
  <2> QED BY <1>1, <1>2, <2>1
<1>5. CASE j = i
  <2>1. e < s[j] /\ s[j] \in Nat
    BY <1>1, <1>2, <1>5
  <2> QED BY <2>1
<1>6. CASE i < j
  <2>1. i \in 1..len
    BY <1>1, <1>6
  <2>2. e < s[i] /\ s[i] < s[j] /\ s[i] \in Nat /\ s[j] \in Nat
    BY <1>1, <1>2, <1>3, <1>6, <2>1
  <2> QED BY <2>2
<1> QED BY <1>4, <1>5, <1>6, <1>1

-----------------------------------------------------------------------------
(* The rows of a leaf.                                                     *)

PairsOf(ks, os) == {<<ks[i], os[i]>> : i \in 1..Len(ks)}

\* What an insertion adds to a node.
LEMMA ElementsAfterInsert ==
  ASSUME NEW s \in Seq(Nat), NEW i \in 1..(Len(s) + 1), NEW e \in Nat
  PROVE  ToSet(InsertAt(s, i, e)) = ToSet(s) \cup {e}
<1> DEFINE t == InsertAt(s, i, e)
           len == Len(s)
<1>1. len \in Nat /\ DOMAIN s = 1..len /\ i \in 1..(len + 1)
  BY NatSeq
<1>2. \A j \in 1..(len + 1) : t[j] = IF j < i THEN s[j] ELSE IF j = i THEN e ELSE s[j - 1]
  BY NatInsertAt
<1>0. DOMAIN t = 1..(len + 1)
  BY NatInsertAt
<1> HIDE DEF t, len
<1>3. \A j \in 1..(len + 1) :
         t[j] = e \/ (j \in 1..len /\ t[j] = s[j]) \/ (j - 1 \in 1..len /\ t[j] = s[j - 1])
  BY <1>1, <1>2
<1>4. \A j \in 1..len : t[j] = s[j] \/ (j + 1 \in 1..(len + 1) /\ t[j + 1] = s[j])
  <2> TAKE j \in 1..len
  <2>1. CASE j < i
    BY <2>1, <1>1, <1>2
  <2>2. CASE j >= i
    <3>1. j + 1 \in 1..(len + 1) /\ ~(j + 1 < i) /\ j + 1 # i /\ (j + 1) - 1 = j
      BY <2>2, <1>1
    <3> QED BY <3>1, <1>2
  <2> QED BY <2>1, <2>2, <1>1
<1>5. \A j \in 1..len : j \in 1..(len + 1)
  BY <1>1
<1>6. t[i] = e
  BY <1>1, <1>2
<1>7. ToSet(t) = {t[j] : j \in 1..(len + 1)} /\ ToSet(s) = {s[j] : j \in 1..len}
  BY <1>0, <1>1 DEF ToSet
<1> QED BY <1>1, <1>3, <1>4, <1>5, <1>6, <1>7 DEF t

LEMMA InsertAtElements ==
  ASSUME NEW S, NEW s \in Seq(S), NEW i \in 1..(Len(s) + 1), NEW e \in S, NEW len \in Nat, len = Len(s)
  PROVE  /\ Len(InsertAt(s, i, e)) = len + 1
         /\ \A j \in 1..(len + 1) :
               InsertAt(s, i, e)[j] = IF j < i THEN s[j] ELSE IF j = i THEN e ELSE s[j - 1]
<1> DEFINE t == InsertAt(s, i, e)
<1>1. InsertsAt(t, s, i, e)
  BY InsertAtInserts
<1> HIDE DEF t
<1>2. Len(t) = len + 1 /\ \A j \in 1..(len + 1) : t[j] = IF j < i THEN s[j] ELSE IF j = i THEN e ELSE s[j - 1]
  BY <1>1 DEF InsertsAt
<1> QED BY <1>2 DEF t

LEMMA PairsAfterInsert ==
  ASSUME NEW S, NEW ks \in Seq(Nat), NEW os \in Seq(S), Len(os) = Len(ks),
         NEW i \in 1..(Len(ks) + 1), NEW k \in Nat, NEW o \in S
  PROVE  /\ Len(InsertAt(os, i, o)) = Len(InsertAt(ks, i, k))
         /\ PairsOf(InsertAt(ks, i, k), InsertAt(os, i, o)) = PairsOf(ks, os) \cup {<<k, o>>}
<1> DEFINE t == InsertAt(ks, i, k)
           u == InsertAt(os, i, o)
           len == Len(ks)
<1>1. len \in Nat /\ i \in 1..(len + 1)
  BY NatSeq
<1>2. /\ Len(t) = len + 1
      /\ \A j \in 1..(len + 1) : t[j] = IF j < i THEN ks[j] ELSE IF j = i THEN k ELSE ks[j - 1]
  <2>1. InsertsAt(t, ks, i, k)
    BY InsertAtInserts
  <2> HIDE DEF t
  <2> QED BY <2>1 DEF InsertsAt
<1>3. /\ Len(u) = len + 1
      /\ \A j \in 1..(len + 1) : u[j] = IF j < i THEN os[j] ELSE IF j = i THEN o ELSE os[j - 1]
  <2>1. i \in 1..(Len(os) + 1)
    BY <1>1
  <2>2. len = Len(os) /\ len \in Nat
    BY <1>1
  <2> HIDE DEF len
  <2>3. Len(InsertAt(os, i, o)) = len + 1
    BY <2>1, <2>2, InsertAtElements
  <2>4. \A j \in 1..(len + 1) :
           InsertAt(os, i, o)[j] = IF j < i THEN os[j] ELSE IF j = i THEN o ELSE os[j - 1]
    <3> HIDE DEF t, u
    <3>1. \A v, a, b : v \in Seq(S) /\ a \in 1..(Len(v) + 1) /\ b \in S /\ len = Len(v) =>
             \A j \in 1..(len + 1) :
                InsertAt(v, a, b)[j] = IF j < a THEN v[j] ELSE IF j = a THEN b ELSE v[j - 1]
      BY <2>2, InsertAtElements
    <3> QED BY <2>1, <2>2, <3>1
  <2> QED BY <2>3, <2>4
<1> HIDE DEF t, u, len
<1>4. \A j \in 1..(len + 1) :
         \/ t[j] = k /\ u[j] = o
         \/ j \in 1..len /\ t[j] = ks[j] /\ u[j] = os[j]
         \/ j - 1 \in 1..len /\ t[j] = ks[j - 1] /\ u[j] = os[j - 1]
  BY <1>1, <1>2, <1>3
<1>5. \A j \in 1..len :
         \/ j \in 1..(len + 1) /\ t[j] = ks[j] /\ u[j] = os[j]
         \/ j + 1 \in 1..(len + 1) /\ t[j + 1] = ks[j] /\ u[j + 1] = os[j]
  <2> TAKE j \in 1..len
  <2>1. CASE j < i
    BY <2>1, <1>1, <1>2, <1>3
  <2>2. CASE j >= i
    <3>1. j + 1 \in 1..(len + 1) /\ ~(j + 1 < i) /\ j + 1 # i /\ (j + 1) - 1 = j
      BY <2>2, <1>1
    <3> QED BY <3>1, <1>2, <1>3
  <2> QED BY <2>1, <2>2, <1>1
<1>6. t[i] = k /\ u[i] = o
  BY <1>1, <1>2, <1>3
<1>7. /\ PairsOf(t, u) = {<<t[j], u[j]>> : j \in 1..(len + 1)}
      /\ PairsOf(ks, os) = {<<ks[j], os[j]>> : j \in 1..len}
  BY <1>2 DEF PairsOf, len
<1>8. PairsOf(t, u) \subseteq PairsOf(ks, os) \cup {<<k, o>>}
  BY <1>4, <1>7
<1>9. PairsOf(ks, os) \subseteq PairsOf(t, u)
  BY <1>5, <1>7
<1>10. <<k, o>> \in PairsOf(t, u)
  BY <1>1, <1>6, <1>7
<1> QED BY <1>2, <1>3, <1>8, <1>9, <1>10 DEF t, u

LEMMA PairsAfterCut ==
  ASSUME NEW S, NEW ks \in Seq(Nat), NEW os \in Seq(S), Len(os) = Len(ks),
         NEW c \in Nat, c <= Len(ks)
  PROVE  PairsOf(SubSeq(ks, 1, c), SubSeq(os, 1, c))
            \cup PairsOf(SubSeq(ks, c + 1, Len(ks)), SubSeq(os, c + 1, Len(ks)))
         = PairsOf(ks, os)
<1> DEFINE len == Len(ks)
           d == c + 1
<1>1. len \in Nat /\ d \in Nat /\ 1 <= d /\ c <= len /\ len <= Len(ks) /\ len <= Len(os)
  BY NatSeq
<1> HIDE DEF len, d
<1>2. /\ Len(SubSeq(ks, 1, c)) = c
      /\ \A j \in 1..c : SubSeq(ks, 1, c)[j] = ks[j] /\ SubSeq(os, 1, c)[j] = os[j]
  <2>1. /\ Len(SubSeq(ks, 1, c)) = IF 1 <= c THEN c - 1 + 1 ELSE 0
        /\ \A j \in 1..(c - 1 + 1) : SubSeq(ks, 1, c)[j] = ks[1 + j - 1]
    BY SubSeqTyped
  <2>2. \A j \in 1..(c - 1 + 1) : SubSeq(os, 1, c)[j] = os[1 + j - 1]
    BY SubSeqTyped
  <2> QED BY <2>1, <2>2
<1>3. /\ Len(SubSeq(ks, d, len)) = IF d <= len THEN len - d + 1 ELSE 0
      /\ \A j \in 1..(len - d + 1) : /\ SubSeq(ks, d, len)[j] = ks[d + j - 1]
                                     /\ SubSeq(os, d, len)[j] = os[d + j - 1]
  <2>1. /\ Len(SubSeq(ks, d, len)) = IF d <= len THEN len - d + 1 ELSE 0
        /\ \A j \in 1..(len - d + 1) : SubSeq(ks, d, len)[j] = ks[d + j - 1]
    <3> DEFINE r == SubSeq(ks, d, len)
               K == Nat
    <3>1. ks \in Seq(K) /\ d \in Nat /\ len \in Nat /\ 1 <= d /\ len <= Len(ks)
      BY <1>1
    <3> HIDE DEF K
    <3>2. /\ Len(r) = IF d <= len THEN len - d + 1 ELSE 0
          /\ \A j \in 1..(len - d + 1) : r[j] = ks[d + j - 1]
      BY <3>1, SubSeqTyped, SMTT(30)
    <3> QED BY <3>2
  <2>2. \A j \in 1..(len - d + 1) : SubSeq(os, d, len)[j] = os[d + j - 1]
    <3> DEFINE r == SubSeq(os, d, len)
    <3>1. os \in Seq(S) /\ d \in Nat /\ len \in Nat /\ 1 <= d /\ len <= Len(os)
      BY <1>1
    <3>2. \A j \in 1..(len - d + 1) : r[j] = os[d + j - 1]
      BY <3>1, SubSeqTyped
    <3> QED BY <3>2
  <2> QED BY <2>1, <2>2
<1>4. Len(SubSeq(ks, d, len)) = len - c
  BY <1>1, <1>3 DEF d
<1>5. \A j \in 1..(len - c) : /\ c + j \in 1..len
                              /\ SubSeq(ks, d, len)[j] = ks[c + j]
                              /\ SubSeq(os, d, len)[j] = os[c + j]
  <2> TAKE j \in 1..(len - c)
  <2>1. j \in 1..(len - d + 1) /\ d + j - 1 = c + j /\ c + j \in 1..len
    BY <1>1 DEF d
  <2> QED BY <2>1, <1>3
<1> DEFINE front == PairsOf(SubSeq(ks, 1, c), SubSeq(os, 1, c))
           back == PairsOf(SubSeq(ks, d, len), SubSeq(os, d, len))
           all == PairsOf(ks, os)
<1>6. /\ front = {<<ks[j], os[j]>> : j \in 1..c}
      /\ back = {<<ks[c + j], os[c + j]>> : j \in 1..(len - c)}
      /\ all = {<<ks[j], os[j]>> : j \in 1..len}
  BY <1>2, <1>4, <1>5 DEF PairsOf, len
<1> HIDE DEF front, back, all
<1>7. \A j \in 1..c : j \in 1..len
  BY <1>1
<1>8. \A j \in 1..len : j \in 1..c \/ (j - c \in 1..(len - c) /\ c + (j - c) = j)
  BY <1>1
<1>9. front \subseteq all /\ back \subseteq all
  BY <1>5, <1>6, <1>7
<1>10. all \subseteq front \cup back
  BY <1>6, <1>8
<1> QED BY <1>9, <1>10 DEF front, back, all, d, len

-----------------------------------------------------------------------------
\* The nodes by which all others hang.
Tops == IF pc = "destroy" THEN doomed
        ELSE ({root} \cup IF pc = "parent" THEN {right} ELSE {}) \ {Null}

\* Every allocated node hangs by one of them: it is in each set that has these and the
\* children of its members.
HoldsAll(T) == Tops \subseteq T /\ \A m \in T : Kids(m) \subseteq T
AllHang == \A T \in SUBSET Nodes : HoldsAll(T) => used \subseteq T

\* A split has stored the row of the call.
NewRowStored == pc = "parent" => <<call.key, call.row_offset>> \in Rows

\* The keys a parent sends to a child.
Part(dom, c) == IF pc = "parent" /\ c = node THEN dom[node] \cup dom[right] ELSE dom[c]

\* dom[n] is the set of the keys for which a search comes to n: none for a node that is not
\* allocated, or that an earlier tree has left behind.
Divided(dom) ==
    \A m \in Nodes : \A i \in DOMAIN children[m] :
        Part(dom, children[m][i]) = {k \in dom[m] : IsChildSlot(keys[m], k, i)}

\* Every child of a node a search can come to gets some key.
Peopled(dom) ==
    \A m \in Nodes : \A i \in DOMAIN children[m] :
        dom[m] # {} => dom[children[m][i]] # {}

KeysAtHome(dom) ==
    \A n \in Nodes : dom[n] # {} => Ascending(keys[n]) /\ ToSet(keys[n]) \subseteq dom[n]

LeavesApart(dom) ==
    \A a, b \in Nodes : is_leaf[a] /\ is_leaf[b] /\ a # b => dom[a] \cap dom[b] = {}

\* The leaf chain goes from lower keys to higher ones.
Before(D, E) == \A k \in D : \A l \in E : k < l
LeavesInOrder(dom) ==
    \A a \in Nodes : is_leaf[a] /\ dom[a] # {} /\ next[a] # Null =>
        is_leaf[next[a]] /\ dom[next[a]] # {} /\ Before(dom[a], dom[next[a]])

\* The arguments of insert_into_parent fit.
SeparatorFits(dom) ==
    /\ dom[node] # {} /\ \A k \in dom[node] : k < separator
    /\ separator \in dom[right] /\ \A k \in dom[right] : separator <= k

Routes(dom) ==
    /\ dom \in [Nodes -> SUBSET Nat] /\ \A n \in Nodes \ used : dom[n] = {}
    /\ root # Null => Part(dom, root) = Nat
    /\ Divided(dom) /\ Peopled(dom) /\ KeysAtHome(dom)
    /\ LeavesApart(dom) /\ LeavesInOrder(dom)
    /\ pc = "descend" => call.key \in dom[node]
    /\ pc = "parent" => SeparatorFits(dom)

\* Only leaves are in the leaf chain, and an internal node has children.
OnlyLeavesLink == \A n \in Nodes : ~is_leaf[n] => next[n] = Null
InnerHaveKids == \A n \in used : ~is_leaf[n] => children[n] # <<>>
WholeInv == OnlyLeavesLink /\ InnerHaveKids

RouteInv ==
    /\ LinkInv /\ WholeInv /\ AllHang
    /\ pc # "destroy" => NewRowStored /\ \E dom : Routes(dom)

-----------------------------------------------------------------------------
\* While memory lasts no call fails for want of it.
LEMMA MemoryLasts ==
  ASSUME TypeInv, MaxFailures = 0, CanAllocate
  PROVE  ~OutOfMemory
<1>1. failures = 0
  BY DEF TypeInv, TypeOK, HeapTypeOK
<1> QED BY <1>1 DEF OutOfMemory, CanAllocate

\* What a step of insert_into_parent starts from when the left node has a parent.
LEMMA ParentKnows ==
  ASSUME LinkInv, pc = "parent", NEW p, p = parent[node], p # Null
  PROVE  /\ p \in Nodes /\ p \in used /\ Reached(p) /\ node \in Kids(p)
         /\ p # node /\ p # right /\ p \notin Kids(p) /\ ~is_leaf[p]
         /\ root \in Nodes /\ root # node /\ right \in Nodes /\ right # node /\ node \in Nodes
         /\ \A m \in Nodes : node \in Kids(m) => m = p
<1> USE DEF LinkInv
<1>1. /\ root \in Nodes /\ node \in Nodes /\ right \in Nodes /\ p \in Nodes
      /\ parent[root] = Null /\ root \in used /\ Reached(node)
      /\ right # root /\ \A m \in Nodes : right \notin Kids(m)
  BY NullAssumption DEF TypeInv, TypeOK, HeapTypeOK, CallOK, RootIsTop, CursorReached, RightIsLoose
<1>2. root # node
  BY <1>1
<1>3. node \in Kids(p) /\ Reached(p)
  BY <1>1, <1>2, ReachedFromParent
<1>4. p \in used
  BY <1>1, <1>3, ReachedUsed
<1>5. p # right
  <2>1. CASE p = root
    BY <1>1, <2>1
  <2>2. CASE p # root
    <3>1. parent[p] \in Nodes /\ p \in Kids(parent[p])
      BY <1>1, <1>3, <2>2, ReachedFromParent
    <3> QED BY <1>1, <3>1
  <2> QED BY <2>1, <2>2
<1>6. p \notin Kids(p)
  <2> SUFFICES ASSUME p \in Kids(p) PROVE FALSE
    OBVIOUS
  <2> DEFINE T == Nodes \ {p}
  <2>1. parent[p] = p
    BY <1>1 DEF KidsKnowParent
  <2>2. root \in T
    BY <1>1, <2>1, NullAssumption
  <2>3. \A m \in T : Kids(m) \subseteq T
    BY <2>1, KidsAreNodes DEF KidsKnowParent
  <2> QED BY <1>3, <2>2, <2>3 DEF Reached, IsClosed
<1>7. ~is_leaf[p]
  <2>1. children[p] # <<>>
    BY <1>3 DEF Kids, ToSet
  <2> QED BY <1>1, <2>1 DEF TypeInv, NodeShape
<1> QED BY <1>1, <1>2, <1>3, <1>4, <1>5, <1>6, <1>7 DEF KidsKnowParent

\* insert_into_parent does not fail while memory lasts.
LEMMA NoParentFailure ==
  ASSUME LinkInv, MaxFailures = 0, CanAllocate
  PROVE  ~InsertIntoParentFails
<1>1. ~OutOfMemory
  BY MemoryLasts DEF LinkInv
<1>2. pc = "parent" /\ parent[node] # Null => node \in ToSet(children[parent[node]])
  BY ParentKnows DEF Kids
<1> QED BY <1>1, <1>2 DEF InsertIntoParentFails

\* The children of a node with one more among them.
LEMMA NewKid ==
  ASSUME LinkInv, NEW p \in Nodes, NEW i \in 1..Len(children[p]), right \in Nodes,
         right \notin Kids(p)
  PROVE  /\ InsertAt(children[p], i + 1, right) \in Seq(Nodes)
         /\ Len(InsertAt(children[p], i + 1, right)) = Len(children[p]) + 1
         /\ \A j \in 1..(Len(children[p]) + 1) :
               InsertAt(children[p], i + 1, right)[j] =
                  IF j < i + 1 THEN children[p][j] ELSE IF j = i + 1 THEN right ELSE children[p][j - 1]
         /\ ToSet(InsertAt(children[p], i + 1, right)) = Kids(p) \cup {right}
<1> DEFINE s == children[p]
           k == i + 1
<1>1. s \in Seq(Nodes) /\ k \in 1..(Len(s) + 1) /\ IsInjective(s) /\ right \notin ToSet(s)
  BY LenProperties DEF LinkInv, TypeInv, TypeOK, HeapTypeOK, KidsDiffer, Kids
<1> HIDE DEF s, k
<1>2. InsertAt(s, k, right) \in Seq(Nodes) /\ Len(InsertAt(s, k, right)) = Len(s) + 1
  BY <1>1, InsertAtProperties
<1>3. \A j \in 1..(Len(s) + 1) :
         InsertAt(s, k, right)[j] = IF j < k THEN s[j] ELSE IF j = k THEN right ELSE s[j - 1]
  BY <1>1, InsertAtProperties
<1>4. ToSet(InsertAt(s, k, right)) = ToSet(s) \cup {right}
  BY <1>1, InsertAtInjective
<1> QED BY <1>2, <1>3, <1>4 DEF s, k, Kids

-----------------------------------------------------------------------------
(* Every node hangs.                                                       *)

\* A step that changes neither the nodes nor what they hang by.
LEMMA HangingStays ==
  ASSUME AllHang, UNCHANGED <<used, children>>, Tops' = Tops
  PROVE  AllHang'
BY DEF AllHang, HoldsAll, Kids

LEMMA SplitLeafHangs ==
  ASSUME LinkInv, AllHang, SplitLeaf
  PROVE  AllHang'
<1>1. /\ used' = used \cup {Fresh} /\ right' = Fresh /\ pc = "descend" /\ pc' = "parent"
      /\ UNCHANGED <<children, root>> /\ Fresh \in Nodes
  BY FreshIsNew DEF SplitLeaf, AtInsertLeaf, tree, LinkInv, TypeInv, TypeOK, HeapTypeOK
<1>2. Tops' = Tops \cup {Fresh}
  BY <1>1, NullAssumption DEF Tops
<1> SUFFICES ASSUME NEW T \in SUBSET Nodes, HoldsAll(T)' PROVE used' \subseteq T
  BY DEF AllHang
<1>3. HoldsAll(T) /\ Fresh \in T
  BY <1>1, <1>2 DEF HoldsAll, Kids
<1> QED BY <1>1, <1>3 DEF AllHang

LEMMA NewRootHangs ==
  ASSUME LinkInv, AllHang, NewRoot
  PROVE  AllHang'
<1> USE DEF LinkInv
<1>1. /\ used' = used \cup {Fresh} /\ root' = Fresh /\ pc = "parent" /\ pc' = "idle"
      /\ children' = [children EXCEPT ![Fresh] = <<node, right>>] /\ parent[node] = Null
  BY DEF NewRoot, InsertSucceeds, Return
<1>2. /\ Fresh \in Nodes /\ Fresh \notin used /\ children \in [Nodes -> Seq(Nodes)]
      /\ root \in Nodes
  BY <1>1, FreshIsNew DEF NewRoot, TypeInv, TypeOK, HeapTypeOK, CallOK
<1>3. node = root
  BY <1>1, <1>2, NullAssumption, ReachedFromParent DEF CursorReached
<1> SUFFICES ASSUME NEW T \in SUBSET Nodes, HoldsAll(T)' PROVE used' \subseteq T
  BY DEF AllHang
<1>4. Fresh \in T
  BY <1>1, <1>2, NullAssumption DEF HoldsAll, Tops
<1>5. node \in T /\ right \in T
  <2>1. \A m \in {Fresh} : Kids(m)' = ToSet(<<node, right>>)
    BY <1>1, <1>2 DEF Kids
  <2>2. ToSet(<<node, right>>) = {node, right}
    BY DEF ToSet
  <2>3. \A m \in {Fresh} : Kids(m)' \subseteq T
    BY <1>4 DEF HoldsAll
  <2> QED BY <2>1, <2>2, <2>3
<1>6. \A m \in T : Kids(m) \subseteq T
  <2>1. children[Fresh] = <<>>
    BY <1>2 DEF TypeInv, NodeShape
  <2>2. \A m \in {Fresh} : Kids(m) = {}
    BY <2>1 DEF Kids, ToSet
  <2>3. \A m \in T \ {Fresh} : Kids(m) = Kids(m)'
    BY <1>1, <1>2 DEF Kids
  <2> QED BY <2>2, <2>3 DEF HoldsAll
<1>7. Tops \subseteq T
  BY <1>1, <1>3, <1>5 DEF Tops
<1> QED BY <1>1, <1>4, <1>6, <1>7 DEF AllHang, HoldsAll

LEMMA InternalHangs ==
  ASSUME LinkInv, AllHang, InsertIntoInternalNode
  PROVE  AllHang'
<1> DEFINE p == parent[node]
<1>1. /\ pc = "parent" /\ pc' = "idle" /\ p # Null /\ UNCHANGED <<used, root>>
  BY DEF InsertIntoInternalNode, InsertSucceeds, Return
<1>2. PICK i \in 1..Len(children[p]) :
         children' = [children EXCEPT ![p] = InsertAt(@, i + 1, right)]
  BY DEF InsertIntoInternalNode
<1> HIDE DEF p
<1>3. p \in Nodes /\ Reached(p) /\ root \in Nodes /\ right \in Nodes
  BY <1>1, ParentKnows DEF p
<1>4. children \in [Nodes -> Seq(Nodes)]
  BY DEF LinkInv, TypeInv, TypeOK, HeapTypeOK
<1>5. ToSet(InsertAt(children[p], i + 1, right)) = Kids(p) \cup {right}
  BY <1>1, <1>2, <1>3, <1>4, NewKid DEF LinkInv, RightIsLoose
<1>6. /\ \A m \in Nodes : Kids(m) \subseteq Kids(m)'
      /\ \A m \in {p} : right \in Kids(m)'
  BY <1>2, <1>3, <1>4, <1>5 DEF Kids
<1> SUFFICES ASSUME NEW T \in SUBSET Nodes, HoldsAll(T)' PROVE used' \subseteq T
  BY DEF AllHang
<1>7. root \in T /\ \A m \in T : Kids(m) \subseteq T
  <2>1. root \in T
    BY <1>1, <1>3, NullAssumption DEF HoldsAll, Tops
  <2> QED BY <2>1, <1>6 DEF HoldsAll
<1>8. p \in T
  BY <1>3, <1>7 DEF Reached, IsClosed
<1>9. right \in T
  BY <1>6, <1>8 DEF HoldsAll
<1>10. Tops \subseteq T
  BY <1>1, <1>7, <1>9 DEF Tops
<1> QED BY <1>1, <1>7, <1>10 DEF AllHang, HoldsAll

LEMMA SplitInternalHangs ==
  ASSUME LinkInv, AllHang, SplitInternal
  PROVE  AllHang'
<1> DEFINE p == parent[node]
           h == Half(Len(keys[p]) + 1)
<1>1. /\ pc = "parent" /\ pc' = "parent" /\ p # Null /\ UNCHANGED root /\ right' = Fresh
      /\ used' = used \cup {Fresh} /\ CanAllocate
  BY DEF SplitInternal, tree
<1>2. PICK i \in 1..Len(children[p]) :
         LET temp == InsertAt(children[p], i + 1, right)
         IN children' = [children EXCEPT ![p] = SubSeq(temp, 1, h + 1),
                                         ![Fresh] = SubSeq(temp, h + 2, Len(temp))]
  BY DEF SplitInternal, RightChildren, TempChildren
<1> DEFINE temp == InsertAt(children[p], i + 1, right)
           left_part == SubSeq(temp, 1, h + 1)
           right_part == SubSeq(temp, h + 2, Len(temp))
<1>3. children' = [children EXCEPT ![p] = left_part, ![Fresh] = right_part]
  BY <1>2
<1>4. /\ p \in Nodes /\ p \in used /\ Reached(p) /\ root \in Nodes /\ right \in Nodes
      /\ root \in used
  BY <1>1, ParentKnows, NullAssumption DEF LinkInv, RootIsTop
<1>5. Fresh \in Nodes /\ Fresh \notin used /\ children \in [Nodes -> Seq(Nodes)]
  BY <1>1, FreshIsNew DEF LinkInv, TypeInv, TypeOK, HeapTypeOK
<1>6. /\ temp \in Seq(Nodes) /\ ToSet(temp) = Kids(p) \cup {right}
      /\ Len(temp) = Len(keys[p]) + 2 /\ Len(keys[p]) \in Nat
  <2>1. /\ temp \in Seq(Nodes) /\ ToSet(temp) = Kids(p) \cup {right}
        /\ Len(temp) = Len(children[p]) + 1
    BY <1>1, <1>4, NewKid DEF LinkInv, RightIsLoose
  <2>2. children[p] # <<>> /\ Len(children[p]) \in Nat
    BY <1>2, <1>4, <1>5, LenProperties, EmptySeq
  <2>3. Len(children[p]) = Len(keys[p]) + 1
    BY <1>4, <2>2 DEF LinkInv, TypeInv, NodeShape
  <2>4. Len(keys[p]) \in Nat
    BY <1>4, LenProperties DEF LinkInv, TypeInv, TypeOK, HeapTypeOK
  <2> HIDE DEF p, temp
  <2> QED BY <2>1, <2>3, <2>4
<1>7. h \in Nat /\ h + 1 <= Len(temp)
  <2> DEFINE total_keys == Len(keys[p]) + 1
  <2>1. total_keys \in Nat /\ Len(temp) = total_keys + 1
    BY <1>6
  <2> HIDE DEF total_keys, temp
  <2>2. h = total_keys \div 2
    BY DEF Half, total_keys
  <2> HIDE DEF h
  <2> QED BY <2>1, <2>2
<1> HIDE DEF p, h, temp
<1>8. ToSet(left_part) \cup ToSet(right_part) = ToSet(temp)
  BY <1>6, <1>7, BothParts
<1> HIDE DEF left_part, right_part
<1>9. p # Fresh /\ root # Fresh
  BY <1>4, <1>5
<1>10. /\ \A m \in Nodes \ {p, Fresh} : Kids(m)' = Kids(m)
       /\ \A m \in {p} : Kids(m)' = ToSet(left_part)
       /\ \A m \in {Fresh} : Kids(m)' = ToSet(right_part) /\ Kids(m) = {}
  <2>1. children[Fresh] = <<>>
    BY <1>5 DEF LinkInv, TypeInv, NodeShape
  <2>2. \A m \in {Fresh} : Kids(m) = {}
    BY <2>1 DEF Kids, ToSet
  <2> QED BY <1>3, <1>4, <1>5, <1>9, <2>2 DEF Kids
<1> SUFFICES ASSUME NEW T \in SUBSET Nodes, HoldsAll(T)' PROVE used' \subseteq T
  BY DEF AllHang
<1>11. root \in T /\ Fresh \in T
  BY <1>1, <1>4, <1>5, NullAssumption DEF HoldsAll, Tops
<1>12. ToSet(right_part) \subseteq T
  BY <1>10, <1>11 DEF HoldsAll
<1>13. p \in T => Kids(p) \cup {right} \subseteq T
  <2>1. p \in T => ToSet(left_part) \subseteq T
    BY <1>10 DEF HoldsAll
  <2> QED BY <1>6, <1>8, <1>12, <2>1
<1>14. \A m \in T : Kids(m) \subseteq T
  BY <1>10, <1>13 DEF HoldsAll
<1>15. p \in T
  BY <1>4, <1>11, <1>14 DEF Reached, IsClosed
<1>16. Tops \subseteq T
  BY <1>1, <1>11, <1>13, <1>15 DEF Tops
<1> QED BY <1>1, <1>11, <1>14, <1>16 DEF AllHang, HoldsAll

LEMMA DestroyNodeHangs ==
  ASSUME LinkInv, AllHang, DestroyNode
  PROVE  AllHang'
<1>1. PICK n \in doomed :
         /\ doomed' = (doomed \ {n}) \cup Kids(n)
         /\ used' = used \ {n}
         /\ children' = [children EXCEPT ![n] = <<>>]
         /\ pc = "destroy" /\ pc' = "destroy"
  BY DEF DestroyNode, ChildrenToFree, Kids
<1>2. children \in [Nodes -> Seq(Nodes)] /\ n \in Nodes
  BY DEF LinkInv, TypeInv, TypeOK, HeapTypeOK
<1> SUFFICES ASSUME NEW T \in SUBSET Nodes, HoldsAll(T)' PROVE used' \subseteq T
  BY DEF AllHang
<1> DEFINE U == T \cup {n}
<1>3. doomed \subseteq U /\ Kids(n) \subseteq U
  BY <1>1 DEF HoldsAll, Tops
<1>4. \A m \in T \ {n} : Kids(m) \subseteq U
  <2>1. \A m \in T \ {n} : Kids(m)' = Kids(m)
    BY <1>1, <1>2 DEF Kids
  <2> QED BY <2>1 DEF HoldsAll
<1>5. HoldsAll(U)
  BY <1>1, <1>3, <1>4 DEF HoldsAll, Tops
<1> QED BY <1>1, <1>2, <1>5 DEF AllHang

\* While memory lasts no allocated node is ever out of reach.
LEMMA AllHangStep ==
  ASSUME LinkInv, AllHang, MaxFailures = 0, CanAllocate, [Next]_vars
  PROVE  AllHang'
<1> USE DEF LinkInv
<1>0. ~OutOfMemory
  BY MemoryLasts
<1>1. ASSUME NEW k \in Keys, NEW o \in Offsets, InsertFirst(k, o) PROVE AllHang'
  <2>1. /\ used' = used \cup {Fresh} /\ root' = Fresh /\ UNCHANGED children
        /\ pc = "idle" /\ root = Null /\ pc' = "idle"
    BY <1>1 DEF InsertFirst, Return
  <2>2. Tops = {} /\ HoldsAll({})
    BY <2>1 DEF Tops, HoldsAll
  <2>3. used = {}
    BY <2>2 DEF AllHang
  <2>4. Fresh \in Nodes
    BY FreshIsNew DEF TypeInv, TypeOK, HeapTypeOK
  <2>5. Tops' = {Fresh}
    BY <2>1, <2>4, NullAssumption DEF Tops
  <2> QED BY <2>1, <2>3, <2>5 DEF AllHang, HoldsAll
<1>2. ASSUME NEW k \in Keys, NEW o \in Offsets, CallInsert(k, o) PROVE AllHang'
  <2>1. UNCHANGED <<used, children, root>> /\ pc = "idle" /\ pc' = "descend"
    BY <1>2 DEF CallInsert, heap, tree
  <2> QED BY <2>1, HangingStays DEF Tops
<1>3. ASSUME NEW k \in Keys, SearchEmpty(k) \/ CallSearch(k) PROVE AllHang'
  <2>1. UNCHANGED <<used, children, root>> /\ pc = "idle" /\ pc' \in {"idle", "descend"}
    BY <1>3 DEF CallSearch, SearchEmpty, Return, heap, tree
  <2> QED BY <2>1, HangingStays DEF Tops
<1>4. ASSUME NEW k \in Keys, InsertFirstOutOfMemory(k) PROVE AllHang'
  BY <1>0, <1>4 DEF InsertFirstOutOfMemory
<1>5. CASE DestroyEmpty
  <2>1. UNCHANGED <<used, children, root>> /\ pc = "idle" /\ pc' = "idle"
    BY <1>5 DEF DestroyEmpty, Return, heap
  <2> QED BY <2>1, HangingStays DEF Tops
<1>6. CASE CallDestroy
  <2>1. /\ UNCHANGED <<used, children, root>> /\ root # Null
        /\ pc = "idle" /\ pc' = "destroy" /\ doomed' = {root}
    BY <1>6 DEF CallDestroy, heap, tree
  <2> QED BY <2>1, HangingStays DEF Tops
<1>7. CASE Descend \/ SearchLeaf \/ InsertIntoLeaf \/ InsertDuplicate
  <2>1. /\ UNCHANGED <<used, children, root>> /\ pc = "descend"
        /\ pc' \in {"idle", "descend"}
    BY <1>7 DEF Descend, SearchLeaf, InsertIntoLeaf, InsertDuplicate, InsertFails, AtInsertLeaf,
                Return, heap, tree
  <2> QED BY <2>1, HangingStays DEF Tops
<1>8. CASE SplitLeaf
  BY <1>8, SplitLeafHangs
<1>9. CASE SplitLeafOutOfMemory
  BY <1>0, <1>9 DEF SplitLeafOutOfMemory
<1>10. CASE NewRoot
  BY <1>10, NewRootHangs
<1>11. CASE InsertIntoInternalNode
  BY <1>11, InternalHangs
<1>12. CASE SplitInternal
  BY <1>12, SplitInternalHangs
<1>13. CASE InsertIntoParentFails
  BY <1>13, NoParentFailure
<1>14. CASE DestroyNode
  BY <1>14, DestroyNodeHangs
<1>15. CASE DestroyReturns
  <2>1. /\ UNCHANGED <<used, children>> /\ root' = Null /\ doomed = {}
        /\ pc = "destroy" /\ pc' = "idle"
    BY <1>15 DEF DestroyReturns, heap
  <2> QED BY <2>1, HangingStays DEF Tops
<1>16. CASE UNCHANGED vars
  <2>1. UNCHANGED <<used, children, root, right, doomed, pc>>
    BY <1>16 DEF vars, heap, tree, frame
  <2> QED BY <2>1, HangingStays DEF Tops
<1> QED BY <1>1, <1>2, <1>3, <1>4, <1>5, <1>6, <1>7, <1>8, <1>9, <1>10, <1>11, <1>12, <1>13,
           <1>14, <1>15, <1>16 DEF Next, Call, Step

-----------------------------------------------------------------------------
(* The way of each key.                                                    *)

LEMMA KeysAreNumbers ==
  ASSUME TypeInv, NEW n \in Nodes
  PROVE  /\ keys[n] \in Seq(Nat)
         /\ Len(keys[n]) \in Nat /\ DOMAIN keys[n] = 1..Len(keys[n])
         /\ DOMAIN children[n] = 1..Len(children[n]) /\ Len(children[n]) \in Nat
<1>1. keys[n] \in Seq(Keys) /\ children[n] \in Seq(Nodes)
  BY DEF TypeInv, TypeOK, HeapTypeOK
<1>2. Len(keys[n]) \in Nat /\ DOMAIN keys[n] = 1..Len(keys[n])
  BY <1>1, LenProperties
<1>3. \A i \in 1..Len(keys[n]) : keys[n][i] \in Nat
  BY <1>1, ElementOfSeq, KeysAssumption
<1>4. keys[n] = [i \in 1..Len(keys[n]) |-> keys[n][i]]
  BY <1>1, LenProperties
<1>5. keys[n] \in Seq(Nat)
  BY <1>2, <1>3, <1>4, IsASeq
<1> QED BY <1>1, <1>2, <1>5, LenProperties

\* A node whose array of children is empty has none.
LEMMA NoKids ==
  ASSUME NEW n, children[n] = <<>>
  PROVE  Kids(n) = {} /\ DOMAIN children[n] = {}
BY DEF Kids, ToSet

LEMMA WholeInvInit == Init => WholeInv
BY DEF Init, WholeInv, OnlyLeavesLink, InnerHaveKids

LEMMA WholeInvStep ==
  ASSUME LinkInv, TypeInv', WholeInv, [Next]_vars
  PROVE  WholeInv'
<1> USE DEF WholeInv, OnlyLeavesLink, InnerHaveKids
<1>1. ASSUME UNCHANGED heap PROVE WholeInv'
  BY <1>1 DEF heap
<1>2. /\ is_leaf \in [Nodes -> BOOLEAN] /\ next \in [Nodes -> Nodes \cup {Null}]
      /\ children \in [Nodes -> Seq(Nodes)] /\ used \subseteq Nodes
  BY DEF LinkInv, TypeInv, TypeOK, HeapTypeOK
<1>3. CanAllocate => Fresh \in Nodes /\ Fresh \notin used /\ ~is_leaf[Fresh]
  BY <1>2, FreshIsNew DEF LinkInv, TypeInv, NodeShape
<1>4. ASSUME UNCHANGED <<is_leaf, next>>, NEW T \in SUBSET Nodes, used' \subseteq used \cup T,
             \A n \in T : children'[n] # <<>>, \A n \in Nodes \ T : children'[n] = children[n]
      PROVE  WholeInv'
  BY <1>2, <1>4
<1>5. ASSUME NEW k \in Keys, NEW o \in Offsets, InsertFirst(k, o) PROVE WholeInv'
  BY <1>2, <1>3, <1>5 DEF InsertFirst
<1>6. ASSUME NEW k \in Keys,
             \/ InsertFirstOutOfMemory(k) \/ SearchEmpty(k) \/ CallSearch(k)
             \/ \E o \in Offsets : CallInsert(k, o)
      PROVE  WholeInv'
  BY <1>1, <1>6 DEF InsertFirstOutOfMemory, SearchEmpty, CallSearch, CallInsert
<1>7. CASE DestroyEmpty \/ CallDestroy \/ Descend \/ SearchLeaf \/ InsertDuplicate \/ DestroyReturns
  BY <1>1, <1>7 DEF DestroyEmpty, CallDestroy, Descend, SearchLeaf, InsertDuplicate, DestroyReturns,
                    InsertFails
<1>8. CASE SplitLeafOutOfMemory \/ InsertIntoParentFails
  BY <1>1, <1>8 DEF SplitLeafOutOfMemory, InsertIntoParentFails, InsertFails
<1>9. CASE InsertIntoLeaf
  BY <1>9 DEF InsertIntoLeaf
<1>10. CASE SplitLeaf
  <2>1. /\ is_leaf[node] /\ node \in Nodes /\ CanAllocate /\ used' = used \cup {Fresh}
        /\ is_leaf' = [is_leaf EXCEPT ![Fresh] = TRUE] /\ UNCHANGED children
        /\ next' = [next EXCEPT ![Fresh] = next[node], ![node] = Fresh]
    BY <1>10 DEF SplitLeaf, AtInsertLeaf, LinkedAfter, LinkInv, TypeInv, CallOK
  <2>2. \A n \in Nodes : ~is_leaf'[n] => ~is_leaf[n] /\ n # Fresh /\ n # node
    BY <1>2, <1>3, <2>1
  <2>3. \A n \in Nodes : n # Fresh /\ n # node => next'[n] = next[n]
    BY <1>2, <2>1
  <2>4. OnlyLeavesLink'
    BY <2>2, <2>3
  <2>5. InnerHaveKids'
    BY <1>2, <1>3, <2>1, <2>2
  <2> QED BY <2>4, <2>5
<1>11. CASE NewRoot
  <2> DEFINE f == Fresh
  <2>1. /\ children' = [children EXCEPT ![f] = <<node, right>>] /\ UNCHANGED <<is_leaf, next>>
        /\ used' = used \cup {f} /\ f \in Nodes
    BY <1>3, <1>11 DEF NewRoot
  <2>2. <<node, right>> # <<>>
    OBVIOUS
  <2> HIDE DEF f
  <2> QED BY <1>2, <1>4, <2>1, <2>2
<1>12. CASE InsertIntoInternalNode
  <2> DEFINE p == parent[node]
  <2>1. PICK i \in 1..Len(children[p]) : children' = [children EXCEPT ![p] = InsertAt(@, i + 1, right)]
    BY <1>12 DEF InsertIntoInternalNode
  <2>2. /\ p # Null /\ pc = "parent" /\ UNCHANGED <<used, is_leaf, next>>
    BY <1>12 DEF InsertIntoInternalNode
  <2>3. p \in Nodes /\ right \in Nodes /\ right \notin Kids(p)
    BY <2>2, ParentKnows DEF LinkInv, RightIsLoose
  <2> HIDE DEF p
  <2>4. InsertAt(children[p], i + 1, right) # <<>>
    <3>1. /\ InsertAt(children[p], i + 1, right) \in Seq(Nodes)
          /\ Len(InsertAt(children[p], i + 1, right)) = Len(children[p]) + 1
      BY <2>3, NewKid
    <3>2. Len(children[p]) \in Nat
      BY <1>2, <2>3, LenProperties
    <3> QED BY <3>1, <3>2, EmptySeq
  <2> QED BY <1>2, <1>4, <2>1, <2>2, <2>3, <2>4
<1>13. CASE SplitInternal
  <2> DEFINE p == parent[node]
             f == Fresh
             h == Half(Len(keys[p]) + 1)
  <2>1. PICK i \in 1..Len(children[p]) :
           LET c == InsertAt(children[p], i + 1, right)
           IN children' = [children EXCEPT ![p] = SubSeq(c, 1, h + 1),
                                           ![f] = SubSeq(c, h + 2, Len(c))]
    BY <1>13 DEF SplitInternal, RightChildren, TempChildren
  <2>2. /\ p # Null /\ pc = "parent" /\ UNCHANGED <<is_leaf, next>> /\ CanAllocate
        /\ used' = used \cup {f} /\ ~HasRoom(p)
    BY <1>13 DEF SplitInternal
  <2>3. p \in Nodes /\ right \in Nodes /\ right \notin Kids(p) /\ p \in used
    BY <2>2, ParentKnows DEF LinkInv, RightIsLoose
  <2>4. f \in Nodes /\ f # p
    BY <1>3, <2>2, <2>3
  <2> DEFINE c == InsertAt(children[p], i + 1, right)
             n == Len(keys[p])
             m == Len(children[p])
  <2>5. n \in Nat /\ m \in Nat /\ n >= MaxKeys /\ m = n + 1 /\ MaxKeys >= 2 /\ MaxKeys \in Nat
    <3>1. n \in Nat /\ m \in Nat
      BY <2>3, KeysAreNumbers DEF LinkInv
    <3>2. children[p] # <<>> /\ ~(n < MaxKeys)
      BY <2>1, <2>2, EmptySeq DEF HasRoom
    <3> HIDE DEF p, n, m
    <3>3. m = n + 1
      BY <2>3, <3>2 DEF LinkInv, TypeInv, NodeShape, n, m
    <3> QED BY <3>1, <3>2, <3>3, OrderAssumption DEF MaxKeys
  <2>6. c \in Seq(Nodes) /\ Len(c) = m + 1
    <3> HIDE DEF p
    <3> QED BY <2>3, NewKid
  <2>7. h \in Nat /\ h + 2 <= n + 2 /\ 1 <= h
    <3>1. h = (n + 1) \div 2
      BY DEF Half
    <3> HIDE DEF n, h
    <3> QED BY <2>5, <3>1
  <2> HIDE DEF p, f, h, c, n, m
  <2>8. children' = [children EXCEPT ![p] = SubSeq(c, 1, h + 1), ![f] = SubSeq(c, h + 2, Len(c))]
    BY <2>1 DEF c
  <2>9. SubSeq(c, 1, h + 1) # <<>> /\ SubSeq(c, h + 2, Len(c)) # <<>>
    <3>1. h + 2 <= Len(c) /\ Len(c) \in Nat
      BY <2>5, <2>6, <2>7
    <3>2. Len(SubSeq(c, 1, h + 1)) = h + 1 /\ Len(SubSeq(c, h + 2, Len(c))) = Len(c) - (h + 2) + 1
      BY <2>6, <2>7, <3>1, SubSeqTyped
    <3> DEFINE len == Len(c)
    <3>5. len \in Nat /\ h + 2 <= len
      BY <3>1
    <3> HIDE DEF len
    <3>6. h + 1 # 0 /\ len - (h + 2) + 1 # 0
      BY <2>7, <3>5
    <3>3. Len(SubSeq(c, 1, h + 1)) # 0 /\ Len(SubSeq(c, h + 2, Len(c))) # 0
      BY <3>2, <3>6 DEF len
    <3>4. Len(<<>>) = 0
      OBVIOUS
    <3> QED BY <3>3, <3>4
  <2>10. /\ children'[p] # <<>> /\ children'[f] # <<>>
         /\ \A q \in Nodes \ {p, f} : children'[q] = children[q]
    BY <1>2, <2>3, <2>4, <2>8, <2>9
  <2> DEFINE T == {p, f}
  <2>11. used' \subseteq used \cup T /\ T \in SUBSET Nodes
    BY <2>2, <2>3, <2>4
  <2>12. /\ \A q \in T : children'[q] # <<>>
         /\ \A q \in Nodes \ T : children'[q] = children[q]
    BY <2>10
  <2> HIDE DEF T
  <2> QED BY <1>4, <2>2, <2>11, <2>12
<1>14. CASE DestroyNode
  <2>1. PICK n \in doomed :
           /\ used' = used \ {n} /\ is_leaf' = [is_leaf EXCEPT ![n] = FALSE]
           /\ children' = [children EXCEPT ![n] = <<>>] /\ next' = [next EXCEPT ![n] = Null]
    BY <1>14 DEF DestroyNode
  <2> QED BY <1>2, <2>1
<1>15. CASE UNCHANGED vars
  BY <1>1, <1>15 DEF vars
<1> QED BY <1>5, <1>6, <1>7, <1>8, <1>9, <1>10, <1>11, <1>12, <1>13, <1>14, <1>15 DEF Next, Call, Step

\* Steps that change no node and call no insert_into_parent.
LEMMA RoutesStay ==
  ASSUME NEW dom, Routes(dom), UNCHANGED <<used, keys, children, next, root, is_leaf>>,
         pc # "parent", pc' # "parent", pc' = "descend" => call'.key \in dom[node']
  PROVE  Routes(dom)'
<1>1. Divided(dom)' /\ Peopled(dom)'
  BY DEF Routes, Divided, Peopled, Part
<1>2. KeysAtHome(dom)' /\ LeavesApart(dom)' /\ LeavesInOrder(dom)'
  BY DEF Routes, KeysAtHome, LeavesApart, LeavesInOrder
<1> QED BY <1>1, <1>2 DEF Routes, Part

\* find_leaf_node takes a key to the child that it belongs to.
LEMMA DescendKeepsRoutes ==
  ASSUME LinkInv, NEW dom, Routes(dom), Descend
  PROVE  Routes(dom)'
<1>1. /\ UNCHANGED <<used, keys, children, next, root, is_leaf, call>>
      /\ pc = "descend" /\ pc' = "descend" /\ call.key \in dom[node] /\ node \in Nodes
      /\ call.key \in Nat
  BY DEF Descend, heap, tree, Routes, LinkInv, TypeInv, TypeOK, CallTypeOK, CallOK
<1>2. PICK i \in 1..Len(children[node]) :
         IsChildSlot(keys[node], call.key, i) /\ node' = children[node][i]
  BY DEF Descend
<1>3. i \in DOMAIN children[node]
  BY <1>1, KeysAreNumbers DEF LinkInv
<1>4. dom[children[node][i]] = {k \in dom[node] : IsChildSlot(keys[node], k, i)}
  BY <1>1, <1>3 DEF Routes, Divided, Part
<1>5. call'.key \in dom[node']
  BY <1>1, <1>2, <1>4
<1> QED BY <1>1, <1>5, RoutesStay

\* Where the new key goes in its leaf.
LEMMA NewKeyFits ==
  ASSUME LinkInv, NEW dom, Routes(dom), AtInsertLeaf,
         NEW i \in 1..(Len(keys[node]) + 1), IsLeafSlot(keys[node], call.key, i),
         ~Holds(keys[node], call.key, i)
  PROVE  LET temp == InsertAt(keys[node], i, call.key) IN
         /\ temp \in Seq(Nat) /\ Len(temp) = Len(keys[node]) + 1 /\ Ascending(temp)
         /\ DOMAIN temp = 1..Len(temp) /\ Len(keys[node]) \in Nat
         /\ ToSet(temp) \subseteq dom[node]
<1>1. /\ node \in Nodes /\ call.key \in Nat /\ call.key \in dom[node] /\ TypeInv
      /\ ToSet(keys[node]) \subseteq dom[node]
  BY KeysAssumption DEF AtInsertLeaf, LinkInv, TypeInv, CallOK, Routes, KeysAtHome
<1>2. keys[node] \in Seq(Nat) /\ Len(keys[node]) \in Nat /\ Ascending(keys[node])
  BY <1>1, KeysAreNumbers DEF Routes, KeysAtHome
<1>3. Ascending(InsertAt(keys[node], i, call.key))
  BY <1>1, <1>2, AscendingAfterInsert
<1>4. /\ InsertAt(keys[node], i, call.key) \in Seq(Nat)
      /\ Len(InsertAt(keys[node], i, call.key)) = Len(keys[node]) + 1
      /\ DOMAIN InsertAt(keys[node], i, call.key) = 1..(Len(keys[node]) + 1)
  BY <1>1, <1>2, NatInsertAt, ZenonT(40)
<1>5. ToSet(InsertAt(keys[node], i, call.key)) = ToSet(keys[node]) \cup {call.key}
  BY <1>1, <1>2, ElementsAfterInsert
<1> QED BY <1>1, <1>2, <1>3, <1>4, <1>5

LEMMA LeafKeepsRoutes ==
  ASSUME LinkInv, NEW dom, Routes(dom), InsertIntoLeaf
  PROVE  Routes(dom)'
<1>1. /\ UNCHANGED <<used, children, next, root, is_leaf>>
      /\ AtInsertLeaf /\ is_leaf[node] /\ node \in Nodes
      /\ pc = "descend" /\ pc' = "idle" /\ keys \in [Nodes -> Seq(Keys)]
  BY DEF InsertIntoLeaf, AtInsertLeaf, Return, LinkInv, TypeInv, TypeOK, HeapTypeOK, CallOK
<1>2. PICK i \in 1..(Len(keys[node]) + 1) :
         /\ IsLeafSlot(keys[node], call.key, i) /\ ~Holds(keys[node], call.key, i)
         /\ keys' = [keys EXCEPT ![node] = InsertAt(@, i, call.key)]
  BY DEF InsertIntoLeaf
<1>3. \A n \in Nodes : keys'[n] = IF n = node THEN InsertAt(keys[node], i, call.key) ELSE keys[n]
  BY <1>1, <1>2
<1>4. /\ Ascending(InsertAt(keys[node], i, call.key))
      /\ ToSet(InsertAt(keys[node], i, call.key)) \subseteq dom[node]
  BY <1>1, <1>2, NewKeyFits
<1>6. KeysAtHome(dom)'
  BY <1>3, <1>4 DEF Routes, KeysAtHome
<1>7. Divided(dom)' /\ Peopled(dom)'
  <2>1. DOMAIN children[node] = {}
    BY <1>1, NoKids DEF LinkInv, TypeInv, NodeShape
  <2>2. \A m \in Nodes : m # node => keys'[m] = keys[m]
    BY <1>3
  <2>3. \A m \in Nodes : \A j \in DOMAIN children[m] :
           dom[children[m][j]] = {k \in dom[m] : IsChildSlot(keys[m], k, j)}
    BY <1>1 DEF Routes, Divided, Part
  <2>4. \A m \in Nodes : \A j \in DOMAIN children[m] :
           dom[children[m][j]] = {k \in dom[m] : IsChildSlot(keys'[m], k, j)}
    BY <2>1, <2>2, <2>3
  <2> QED BY <1>1, <2>4 DEF Routes, Divided, Peopled, Part
<1>8. LeavesApart(dom)' /\ LeavesInOrder(dom)'
  BY <1>1 DEF Routes, LeavesApart, LeavesInOrder
<1> QED BY <1>1, <1>6, <1>7, <1>8 DEF Routes, Part

\* The first leaf takes every key.
LEMMA FirstKeepsRoutes ==
  ASSUME LinkInv, OnlyLeavesLink, NEW k \in Keys, NEW o \in Offsets, InsertFirst(k, o)
  PROVE  \E dom : Routes(dom)'
<1>1. /\ keys' = [keys EXCEPT ![Fresh] = <<k>>] /\ used' = used \cup {Fresh}
      /\ root' = Fresh /\ UNCHANGED <<children, next>> /\ pc = "idle" /\ pc' = "idle"
  BY DEF InsertFirst, Return
<1> DEFINE f == Fresh
<1>2. /\ f \in Nodes /\ f \notin used /\ keys \in [Nodes -> Seq(Keys)] /\ ~is_leaf[f]
      /\ children[f] = <<>> /\ next[f] = Null
  BY FreshIsNew
     DEF InsertFirst, LinkInv, TypeInv, TypeOK, HeapTypeOK, NodeShape, OnlyLeavesLink
<1>3. keys'[f] = <<k>> /\ root' = f /\ used' = used \cup {f}
  BY <1>1, <1>2
<1> HIDE DEF f
<1> PICK dom \in [Nodes -> SUBSET Nat] : \A n \in Nodes : dom[n] = IF n = f THEN Nat ELSE {}
  <2> WITNESS [n \in Nodes |-> IF n = f THEN Nat ELSE {}] \in [Nodes -> SUBSET Nat]
  <2> QED OBVIOUS
<1>4. Ascending(<<k>>) /\ ToSet(<<k>>) = {k} /\ k \in Nat
  BY KeysAssumption DEF Ascending, ToSet
<1>5. KeysAtHome(dom)'
  <2>1. \A n \in Nodes : dom[n] # {} => Ascending(keys'[n]) /\ ToSet(keys'[n]) \subseteq dom[n]
    BY <1>3, <1>4
  <2> QED BY <2>1 DEF KeysAtHome
<1>6. LeavesApart(dom)' /\ LeavesInOrder(dom)'
  BY <1>1, <1>2 DEF LeavesApart, LeavesInOrder
<1>7. Divided(dom)' /\ Peopled(dom)'
  <2>1. \A m \in Nodes : \A i \in DOMAIN children[m] :
           m # f /\ children[m][i] \in Nodes \ {f}
    <3> TAKE m \in Nodes
    <3> TAKE i \in DOMAIN children[m]
    <3>1. m # f
      BY <1>2, NoKids
    <3>2. children[m][i] \in Kids(m)
      BY DEF Kids, ToSet
    <3>3. children[m][i] \in Nodes /\ children[m][i] \in used
      BY <3>2, KidsAreNodes DEF LinkInv, OnlyUsed
    <3> QED BY <1>2, <3>1, <3>3
  <2>2. \A m \in Nodes : \A i \in DOMAIN children[m] :
           dom[m] = {} /\ dom[children[m][i]] = {}
    BY <2>1
  <2>3. \A m \in Nodes : \A i \in DOMAIN children[m] :
           dom[children[m][i]] = {l \in dom[m] : IsChildSlot(keys'[m], l, i)}
    BY <2>2
  <2> QED BY <1>1, <2>2, <2>3 DEF Divided, Peopled, Part
<1>8. \A n \in Nodes \ used' : dom[n] = {}
  BY <1>3
<1>9. dom[root'] = Nat
  BY <1>2, <1>3
<1>10. Routes(dom)'
  BY <1>1, <1>5, <1>6, <1>7, <1>8, <1>9 DEF Routes, Part
<1> QED BY <1>10

\* The parts of a node that is split, before its parent knows of the second.
LEMMA SplitLeafKeepsRoutes ==
  ASSUME LinkInv, NEW dom, Routes(dom), SplitLeaf
  PROVE  \E d : Routes(d)'
<1>1. /\ UNCHANGED <<children, root, node>> /\ AtInsertLeaf /\ is_leaf[node] /\ node \in Nodes
      /\ pc = "descend" /\ pc' = "parent" /\ right' = Fresh /\ ~HasRoom(node)
      /\ is_leaf' = [is_leaf EXCEPT ![Fresh] = TRUE]
      /\ keys \in [Nodes -> Seq(Keys)] /\ is_leaf \in [Nodes -> BOOLEAN] /\ root \in Nodes
  BY DEF SplitLeaf, AtInsertLeaf, tree, LinkInv, TypeInv, TypeOK, HeapTypeOK, CallOK
<1> DEFINE h == Half(Len(keys[node]) + 1)
<1>2. PICK i \in 1..(Len(keys[node]) + 1) :
         /\ IsLeafSlot(keys[node], call.key, i) /\ ~Holds(keys[node], call.key, i)
         /\ LET temp == InsertAt(keys[node], i, call.key)
            IN /\ keys' = [keys EXCEPT ![node] = SubSeq(temp, 1, h),
                                       ![Fresh] = SubSeq(temp, h + 1, Len(keys[node]) + 1)]
               /\ separator' = temp[h + 1]
  BY DEF SplitLeaf
<1> DEFINE temp == InsertAt(keys[node], i, call.key)
           f == Fresh
           left_keys == SubSeq(temp, 1, h)
           right_keys == SubSeq(temp, h + 1, Len(temp))
<1>3. /\ temp \in Seq(Nat) /\ Len(temp) = Len(keys[node]) + 1 /\ Ascending(temp)
      /\ DOMAIN temp = 1..Len(temp) /\ Len(keys[node]) \in Nat /\ ToSet(temp) \subseteq dom[node]
  BY <1>1, <1>2, NewKeyFits
<1>4. keys' = [keys EXCEPT ![node] = left_keys, ![f] = right_keys] /\ separator' = temp[h + 1]
  BY <1>2, <1>3
<1>5. f \in Nodes /\ f \notin used /\ node \in used /\ root # f /\ node # f
  <2>1. f \in Nodes /\ f \notin used
    BY FreshIsNew DEF SplitLeaf, LinkInv, TypeInv, TypeOK, HeapTypeOK
  <2>2. node \in used
    BY <1>1 DEF LinkInv, TypeInv, NodeShape
  <2>3. root \in used
    BY <1>1, NullAssumption DEF LinkInv, RootIsTop
  <2> QED BY <2>1, <2>2, <2>3
<1>6. right' = f /\ \A n \in Nodes : is_leaf'[n] = (n = f \/ is_leaf[n])
  BY <1>1, <1>5
<1>7. h \in Nat /\ 1 <= h /\ h + 1 <= Len(temp)
  <2> DEFINE total_keys == Len(keys[node]) + 1
  <2>1. Len(keys[node]) >= MaxKeys
    BY <1>1, <1>3, OrderAssumption DEF HasRoom, MaxKeys
  <2>2. total_keys \in Nat /\ total_keys >= 3 /\ Len(temp) = total_keys
    BY <1>3, <2>1, OrderAssumption DEF MaxKeys
  <2>3. h = total_keys \div 2
    BY DEF Half
  <2> HIDE DEF total_keys, h, temp
  <2> QED BY <2>2, <2>3
<1> HIDE DEF h, temp, f
<1>8. \A n \in Nodes : keys'[n] = IF n = f THEN right_keys ELSE IF n = node THEN left_keys ELSE keys[n]
  BY <1>1, <1>4, <1>5
<1> DEFINE mid == temp[h + 1]
           low == {k \in dom[node] : k < mid}
           high == {k \in dom[node] : mid <= k}
<1>9. /\ Ascending(left_keys) /\ Ascending(right_keys)
      /\ ToSet(left_keys) \subseteq low /\ ToSet(right_keys) \subseteq high
      /\ low # {} /\ mid \in high /\ mid \in Nat
  BY <1>3, <1>7, PartsFit
<1> HIDE DEF left_keys, right_keys, mid
<1>10. separator' = mid
  BY <1>4 DEF mid
<1>11. /\ dom \in [Nodes -> SUBSET Nat] /\ dom[root] = Nat
       /\ \A m \in Nodes : \A j \in DOMAIN children[m] :
             dom[children[m][j]] = {k \in dom[m] : IsChildSlot(keys[m], k, j)}
       /\ \A m \in Nodes : \A j \in DOMAIN children[m] : dom[m] # {} => dom[children[m][j]] # {}
       /\ \A n \in Nodes : dom[n] # {} => Ascending(keys[n]) /\ ToSet(keys[n]) \subseteq dom[n]
       /\ \A a, b \in Nodes : is_leaf[a] /\ is_leaf[b] /\ a # b => dom[a] \cap dom[b] = {}
       /\ \A n \in Nodes \ used : dom[n] = {}
  <2>1. /\ dom \in [Nodes -> SUBSET Nat] /\ dom[root] = Nat /\ Divided(dom)
        /\ \A n \in Nodes \ used : dom[n] = {}
    BY <1>1, NullAssumption DEF Routes, Part
  <2>2. \A m \in Nodes : \A j \in DOMAIN children[m] :
           dom[children[m][j]] = {k \in dom[m] : IsChildSlot(keys[m], k, j)}
    BY <1>1, <2>1 DEF Divided, Part
  <2>3. Peopled(dom) /\ KeysAtHome(dom) /\ LeavesApart(dom)
    BY DEF Routes
  <2> QED BY <2>1, <2>2, <2>3 DEF Peopled, KeysAtHome, LeavesApart
<1>12. low \cup high = dom[node] /\ low \cap high = {} /\ dom[node] \subseteq Nat
  <2>1. dom[node] \subseteq Nat /\ mid \in Nat
    BY <1>1, <1>9, <1>11
  <2>2. \A k \in dom[node] : k < mid \/ mid <= k
    BY <2>1
  <2>3. \A k \in dom[node] : ~(k < mid /\ mid <= k)
    BY <2>1
  <2> QED BY <2>1, <2>2, <2>3
<1>21. low \subseteq Nat /\ high \subseteq Nat
  BY <1>12
<1> HIDE DEF low, high
<1> PICK d \in [Nodes -> SUBSET Nat] :
         \A n \in Nodes : d[n] = IF n = node THEN low ELSE IF n = f THEN high ELSE dom[n]
  <2> DEFINE split == [n \in Nodes |-> IF n = node THEN low ELSE IF n = f THEN high ELSE dom[n]]
  <2>1. \A n \in Nodes : split[n] = IF n = node THEN low ELSE IF n = f THEN high ELSE dom[n]
    OBVIOUS
  <2>2. split \in [Nodes -> SUBSET Nat]
    BY <1>11, <1>21
  <2> QED BY <2>1, <2>2
<1>13. \A n \in Nodes : n # f => (IF n = node THEN d[node] \cup d[f] ELSE d[n]) = dom[n]
  BY <1>1, <1>5, <1>12
<1>15. KeysAtHome(d)'
  <2>1. \A n \in Nodes : d[n] # {} => Ascending(keys'[n]) /\ ToSet(keys'[n]) \subseteq d[n]
    BY <1>5, <1>8, <1>9, <1>11
  <2> QED BY <2>1 DEF KeysAtHome
<1>16. LeavesApart(d)'
  <2>1. \A a, b \in Nodes : is_leaf'[a] /\ is_leaf'[b] /\ a # b => d[a] \cap d[b] = {}
    <3> SUFFICES ASSUME NEW a \in Nodes, NEW b \in Nodes, is_leaf'[a], is_leaf'[b], a # b
                 PROVE  d[a] \cap d[b] = {}
      OBVIOUS
    <3>1. CASE a \in {node, f} /\ b \in {node, f}
      BY <3>1, <1>5, <1>12
    <3>5. d[node] = low /\ d[f] = high /\ \A n \in Nodes \ {node, f} : d[n] = dom[n]
      BY <1>1, <1>5
    <3>6. \A n \in Nodes \ {node, f} : is_leaf'[n] => dom[node] \cap dom[n] = {}
      BY <1>1, <1>6, <1>11
    <3>2. CASE a \in {node, f} /\ b \notin {node, f}
      BY <3>2, <3>5, <3>6, <1>12
    <3>3. CASE a \notin {node, f} /\ b \in {node, f}
      BY <3>3, <3>5, <3>6, <1>12
    <3>4. CASE a \notin {node, f} /\ b \notin {node, f}
      BY <3>4, <1>6, <1>11
    <3> QED BY <3>1, <3>2, <3>3, <3>4
  <2> QED BY <2>1 DEF LeavesApart
<1>17. Divided(d)' /\ Peopled(d)'
  <2>1. \A m \in Nodes : m \in {node, f} => DOMAIN children[m] = {}
    BY <1>1, <1>5, NoKids DEF LinkInv, TypeInv, NodeShape
  <2>2. \A m \in Nodes : \A j \in DOMAIN children[m] :
           (IF children[m][j] = node THEN d[node] \cup d[f] ELSE d[children[m][j]])
              = {k \in d[m] : IsChildSlot(keys'[m], k, j)}
    <3> SUFFICES ASSUME NEW m \in Nodes, NEW j \in DOMAIN children[m]
                 PROVE  (IF children[m][j] = node THEN d[node] \cup d[f] ELSE d[children[m][j]])
                           = {k \in d[m] : IsChildSlot(keys'[m], k, j)}
      OBVIOUS
    <3>1. m \notin {node, f} /\ d[m] = dom[m] /\ keys'[m] = keys[m]
      BY <1>8, <2>1
    <3>2. children[m][j] \in Kids(m) /\ Kids(m) \subseteq Nodes /\ Kids(m) \subseteq used
      BY KidsAreNodes DEF Kids, ToSet, LinkInv, OnlyUsed
    <3>3. children[m][j] \in Nodes /\ children[m][j] # f
      BY <3>2, <1>5
    <3>4. (IF children[m][j] = node THEN d[node] \cup d[f] ELSE d[children[m][j]])
             = dom[children[m][j]]
      BY <3>3, <1>13
    <3> QED BY <3>1, <3>4, <1>11
  <2>3. \A m \in Nodes : \A j \in DOMAIN children[m] : d[m] # {} => d[children[m][j]] # {}
    <3> SUFFICES ASSUME NEW m \in Nodes, NEW j \in DOMAIN children[m], d[m] # {}
                 PROVE  d[children[m][j]] # {}
      OBVIOUS
    <3>1. dom[m] # {}
      BY <2>1
    <3>2. children[m][j] \in Kids(m) /\ Kids(m) \subseteq Nodes /\ Kids(m) \subseteq used
      BY KidsAreNodes DEF Kids, ToSet, LinkInv, OnlyUsed
    <3>3. children[m][j] \in Nodes /\ children[m][j] # f
      BY <3>2, <1>5
    <3> QED BY <1>9, <1>11, <3>1, <3>3
  <2>4. Divided(d)'
    BY <1>1, <1>6, <2>2 DEF Divided, Part
  <2>5. Peopled(d)'
    BY <1>1, <2>3 DEF Peopled
  <2> QED BY <2>4, <2>5
<1>18. SeparatorFits(d)'
  <2>1. d[node] = low /\ d[f] = high
    BY <1>1, <1>5
  <2>2. (\A k \in low : k < mid) /\ (\A k \in high : mid <= k)
    BY DEF low, high
  <2> QED BY <1>1, <1>6, <1>9, <1>10, <2>1, <2>2 DEF SeparatorFits
<1>19. (IF root = node THEN d[node] \cup d[f] ELSE d[root]) = Nat
  BY <1>1, <1>5, <1>11, <1>13
<1>22. LeavesInOrder(d)'
  <2>1. /\ next' = [next EXCEPT ![Fresh] = next[node], ![node] = Fresh]
        /\ next \in [Nodes -> Nodes \cup {Null}]
    BY DEF SplitLeaf, LinkedAfter, LinkInv, TypeInv, TypeOK, HeapTypeOK
  <2>2. \A n \in Nodes : next'[n] = IF n = node THEN f ELSE IF n = f THEN next[node] ELSE next[n]
    BY <1>1, <1>5, <2>1 DEF f
  <2>3. \A a \in Nodes : is_leaf[a] /\ dom[a] # {} /\ next[a] # Null =>
           /\ next[a] \in Nodes /\ next[a] # f
           /\ is_leaf[next[a]] /\ dom[next[a]] # {} /\ Before(dom[a], dom[next[a]])
    BY <1>5, <1>11, <2>1 DEF Routes, LeavesInOrder
  <2>4. d[node] = low /\ d[f] = high /\ \A n \in Nodes \ {node, f} : d[n] = dom[n]
    BY <1>1, <1>5
  <2>5. Before(low, high) /\ low \subseteq dom[node] /\ high \subseteq dom[node]
    <3>1. \A k \in low : k \in Nat /\ k < mid
      BY <1>21 DEF low
    <3>2. \A k \in high : k \in Nat /\ mid <= k
      BY <1>21 DEF high
    <3>3. \A k \in low : \A l \in high : k < l
      BY <1>9, <3>1, <3>2
    <3> QED BY <1>12, <3>3 DEF Before
  <2>6. low # {} /\ high # {} /\ dom[node] # {}
    BY <1>9, <2>5
  <2>7. \A a \in Nodes : is_leaf'[a] /\ d[a] # {} /\ next'[a] # Null =>
           is_leaf'[next'[a]] /\ d[next'[a]] # {} /\ Before(d[a], d[next'[a]])
    <3> SUFFICES ASSUME NEW a \in Nodes, is_leaf'[a], d[a] # {}, next'[a] # Null
                 PROVE  is_leaf'[next'[a]] /\ d[next'[a]] # {} /\ Before(d[a], d[next'[a]])
      OBVIOUS
    <3>1. CASE a = node
      BY <1>1, <1>5, <1>6, <2>2, <2>4, <2>5, <2>6, <3>1
    <3>2. CASE a = f
      <4>1. next'[a] = next[node] /\ next[node] # Null
        BY <1>5, <2>2, <3>2
      <4>2. next[node] \in Nodes /\ dom[next[node]] # {} /\ Before(dom[node], dom[next[node]])
            /\ next[node] # f /\ is_leaf[next[node]]
        BY <1>1, <2>3, <2>6, <4>1
      <4>3. next[node] # node
        <5>1. PICK k \in dom[node] : TRUE
          BY <2>6
        <5>2. k \in Nat /\ ~(k < k)
          BY <1>12
        <5> QED BY <4>2, <5>1, <5>2 DEF Before
      <4> QED BY <1>6, <2>4, <2>5, <3>2, <4>1, <4>2, <4>3 DEF Before
    <3>3. CASE a \notin {node, f}
      <4>1. next'[a] = next[a] /\ is_leaf[a] /\ d[a] = dom[a]
        BY <1>6, <2>2, <2>4, <3>3
      <4>2. next[a] \in Nodes /\ next[a] # f /\ is_leaf[next[a]] /\ dom[next[a]] # {}
            /\ Before(dom[a], dom[next[a]])
        BY <2>3, <4>1
      <4>3. CASE next[a] = node
        BY <1>1, <1>6, <2>4, <2>5, <2>6, <4>1, <4>2, <4>3 DEF Before
      <4>4. CASE next[a] # node
        BY <1>6, <2>4, <4>1, <4>2, <4>4
      <4> QED BY <4>3, <4>4
    <3> QED BY <3>1, <3>2, <3>3
  <2> QED BY <2>7 DEF LeavesInOrder
<1>23. \A n \in Nodes \ used' : d[n] = {}
  <2>1. used' = used \cup {f}
    BY DEF SplitLeaf, f
  <2> QED BY <1>5, <1>11, <2>1
<1>20. Routes(d)'
  BY <1>1, <1>6, <1>12, <1>15, <1>16, <1>17, <1>18, <1>19, <1>22, <1>23 DEF Routes, Part
<1> QED BY <1>20

\* The old root and the new node become the two children of the new root.
LEMMA NewRootKeepsRoutes ==
  ASSUME LinkInv, NEW dom, Routes(dom), NewRoot
  PROVE  \E d : Routes(d)'
<1>1. /\ keys' = [keys EXCEPT ![Fresh] = <<separator>>]
      /\ children' = [children EXCEPT ![Fresh] = <<node, right>>]
      /\ root' = Fresh /\ UNCHANGED is_leaf /\ pc = "parent" /\ pc' = "idle"
      /\ parent[node] = Null /\ CanAllocate
  BY DEF NewRoot, InsertSucceeds, Return
<1> DEFINE f == Fresh
<1>2. /\ node \in Nodes /\ right \in Nodes /\ root \in Nodes /\ right # root /\ separator \in Nat
      /\ root \in used /\ right \in used /\ parent[root] = Null
      /\ keys \in [Nodes -> Seq(Keys)] /\ children \in [Nodes -> Seq(Nodes)]
      /\ \A m \in Nodes : right \notin Kids(m)
  BY <1>1, KeysAssumption, NullAssumption
     DEF LinkInv, TypeInv, TypeOK, HeapTypeOK, CallOK, RootIsTop, RightIsLoose
<1>3. node = root
  BY <1>1, <1>2, ReachedFromParent, NullAssumption DEF LinkInv, CursorReached
<1>4. f \in Nodes /\ f \notin used /\ f # node /\ f # right
  BY <1>1, <1>2, <1>3, FreshIsNew DEF LinkInv, TypeInv, TypeOK, HeapTypeOK
<1>5. ~is_leaf[f] /\ keys[f] = <<>>
  BY <1>4 DEF LinkInv, TypeInv, NodeShape
<1>6. root' = f
  BY <1>1
<1>7. \A n \in Nodes : /\ keys'[n] = IF n = f THEN <<separator>> ELSE keys[n]
                       /\ children'[n] = IF n = f THEN <<node, right>> ELSE children[n]
  BY <1>1, <1>2, <1>4
<1>8. \A m \in Nodes : \A j \in DOMAIN children[m] :
         children[m][j] \in Nodes /\ children[m][j] # f /\ children[m][j] # node
  <2> SUFFICES ASSUME NEW m \in Nodes, NEW j \in DOMAIN children[m]
               PROVE  children[m][j] \in Nodes \ {f, node}
    OBVIOUS
  <2>1. children[m][j] \in Kids(m)
    BY DEF Kids, ToSet
  <2>2. children[m][j] \in Nodes /\ children[m][j] \in used
    BY <2>1, KidsAreNodes DEF LinkInv, OnlyUsed
  <2>3. parent[children[m][j]] = m
    BY <2>1 DEF LinkInv, KidsKnowParent
  <2> QED BY <1>2, <1>3, <1>4, <2>2, <2>3, NullAssumption
<1> HIDE DEF f
<1>9. /\ dom \in [Nodes -> SUBSET Nat] /\ dom[node] \cup dom[right] = Nat
      /\ \A m \in Nodes : \A j \in DOMAIN children[m] :
            dom[children[m][j]] = {k \in dom[m] : IsChildSlot(keys[m], k, j)}
      /\ \A m \in Nodes : \A j \in DOMAIN children[m] : dom[m] # {} => dom[children[m][j]] # {}
      /\ \A n \in Nodes : dom[n] # {} => Ascending(keys[n]) /\ ToSet(keys[n]) \subseteq dom[n]
      /\ \A n \in Nodes \ used : dom[n] = {}
      /\ \A a, b \in Nodes : is_leaf[a] /\ is_leaf[b] /\ a # b => dom[a] \cap dom[b] = {}
      /\ dom[node] # {} /\ \A k \in dom[node] : k < separator
      /\ dom[right] # {} /\ \A k \in dom[right] : separator <= k
  <2>1. \A m \in Nodes : \A j \in DOMAIN children[m] :
           dom[children[m][j]] = {k \in dom[m] : IsChildSlot(keys[m], k, j)}
    BY <1>8 DEF Routes, Divided, Part
  <2> QED BY <1>1, <1>2, <1>3, <2>1, NullAssumption
          DEF Routes, Peopled, KeysAtHome, LeavesApart, Part, SeparatorFits
<1> PICK d \in [Nodes -> SUBSET Nat] : \A n \in Nodes : d[n] = IF n = f THEN Nat ELSE dom[n]
  <2> DEFINE new == [n \in Nodes |-> IF n = f THEN Nat ELSE dom[n]]
  <2>1. \A n \in Nodes : new[n] = IF n = f THEN Nat ELSE dom[n]
    OBVIOUS
  <2>2. new \in [Nodes -> SUBSET Nat]
    BY <1>9
  <2> QED BY <2>1, <2>2
<1>10. d[node] = dom[node] /\ d[right] = dom[right] /\ d[f] = Nat
  BY <1>2, <1>4
<1>11. ToSet(<<separator>>) = {separator} /\ Ascending(<<separator>>)
  BY DEF ToSet, Ascending
<1>13. KeysAtHome(d)'
  <2>1. \A n \in Nodes : d[n] # {} => Ascending(keys'[n]) /\ ToSet(keys'[n]) \subseteq d[n]
    <3> TAKE n \in Nodes
    <3>1. CASE n = f
      <4>1. keys'[n] = <<separator>> /\ d[n] = Nat
        BY <1>7, <1>10, <3>1
      <4> QED BY <1>2, <1>11, <4>1
    <3>2. CASE n # f
      <4>1. keys'[n] = keys[n] /\ d[n] = dom[n]
        BY <1>7, <3>2
      <4> QED BY <1>9, <4>1
    <3> QED BY <3>1, <3>2
  <2> QED BY <2>1 DEF KeysAtHome
<1>14. LeavesApart(d)'
  BY <1>1, <1>5, <1>9 DEF LeavesApart
<1>15. Divided(d)' /\ Peopled(d)'
  <2>1. \A k \in Nat : /\ IsChildSlot(<<separator>>, k, 1) <=> k < separator
                       /\ IsChildSlot(<<separator>>, k, 2) <=> separator <= k
    BY <1>2 DEF IsChildSlot
  <2>2. /\ dom[node] = {k \in Nat : IsChildSlot(<<separator>>, k, 1)}
        /\ dom[right] = {k \in Nat : IsChildSlot(<<separator>>, k, 2)}
    <3>1. dom[node] \subseteq Nat /\ dom[right] \subseteq Nat
      BY <1>2, <1>9
    <3>2. \A k \in Nat : ~(k < separator /\ separator <= k)
      BY <1>2
    <3>3. dom[node] = {k \in Nat : k < separator} /\ dom[right] = {k \in Nat : separator <= k}
      BY <1>9, <3>1, <3>2
    <3> QED BY <2>1, <3>3
  <2>3. \A m \in Nodes : \A j \in DOMAIN children'[m] :
           d[children'[m][j]] = {k \in d[m] : IsChildSlot(keys'[m], k, j)}
    <3> SUFFICES ASSUME NEW m \in Nodes, NEW j \in DOMAIN children'[m]
                 PROVE  d[children'[m][j]] = {k \in d[m] : IsChildSlot(keys'[m], k, j)}
      OBVIOUS
    <3>1. CASE m = f
      <4>1. children'[m] = <<node, right>> /\ keys'[m] = <<separator>> /\ d[m] = Nat
        BY <1>7, <1>10, <3>1
      <4>2. (j = 1 /\ children'[m][j] = node) \/ (j = 2 /\ children'[m][j] = right)
        <5>1. j \in 1..2
          BY <4>1
        <5>2. j = 1 \/ j = 2
          BY <5>1
        <5>3. children'[m][1] = node /\ children'[m][2] = right
          BY <4>1
        <5> QED BY <5>2, <5>3
      <4> QED BY <1>10, <2>2, <4>1, <4>2
    <3>2. CASE m # f
      <4>1. children'[m] = children[m] /\ keys'[m] = keys[m] /\ d[m] = dom[m]
        BY <1>7, <3>2
      <4>2. d[children[m][j]] = dom[children[m][j]]
        BY <1>8, <4>1
      <4> QED BY <1>9, <4>1, <4>2
    <3> QED BY <3>1, <3>2
  <2>4. \A m \in Nodes : \A j \in DOMAIN children'[m] : d[m] # {} => d[children'[m][j]] # {}
    <3> SUFFICES ASSUME NEW m \in Nodes, NEW j \in DOMAIN children'[m], d[m] # {}
                 PROVE  d[children'[m][j]] # {}
      OBVIOUS
    <3>1. CASE m = f
      <4>1. children'[m] = <<node, right>>
        BY <1>7, <3>1
      <4>2. j \in 1..2
        BY <4>1
      <4>3. children'[m][j] \in {node, right}
        BY <4>1, <4>2
      <4> QED BY <1>9, <1>10, <4>3
    <3>2. CASE m # f
      <4>1. children'[m] = children[m] /\ d[m] = dom[m]
        BY <1>7, <3>2
      <4>2. d[children[m][j]] = dom[children[m][j]]
        BY <1>8, <4>1
      <4> QED BY <1>9, <4>1, <4>2
    <3> QED BY <3>1, <3>2
  <2> QED BY <1>1, <2>3, <2>4 DEF Divided, Peopled, Part
<1>17. LeavesInOrder(d)'
  <2>1. \A a \in Nodes : is_leaf[a] => d[a] = dom[a]
    BY <1>5
  <2>2. next' = next /\ next \in [Nodes -> Nodes \cup {Null}]
    BY DEF NewRoot, LinkInv, TypeInv, TypeOK, HeapTypeOK
  <2>3. \A a \in Nodes : is_leaf[a] /\ dom[a] # {} /\ next[a] # Null =>
           /\ next[a] \in Nodes /\ next[a] # f
           /\ is_leaf[next[a]] /\ dom[next[a]] # {} /\ Before(dom[a], dom[next[a]])
    BY <1>4, <1>9, <2>2 DEF Routes, LeavesInOrder
  <2> QED BY <1>1, <2>1, <2>2, <2>3 DEF LeavesInOrder
<1>18. \A n \in Nodes \ used' : d[n] = {}
  <2>1. used' = used \cup {f}
    BY DEF NewRoot, f
  <2> QED BY <1>9, <2>1
<1>16. Routes(d)'
  BY <1>1, <1>6, <1>10, <1>13, <1>14, <1>15, <1>17, <1>18 DEF Routes, Part
<1> QED BY <1>16

\* The keys of D that find_leaf_node takes to the child at j.
Bound(D, s, j) == {k \in D : IsChildSlot(s, k, j)}

NoneEmpty(dom, s, n) == \A j \in 1..n : dom[s[j]] # {}

\* Once insert_into_parent has put the separator and the new node into the arrays of the
\* parent, the children divide its keys again.
LEMMA PartsAfterInsert ==
  ASSUME LinkInv, NEW dom, Routes(dom), pc = "parent", NEW p, p = parent[node],
         p # Null, NEW i \in 1..Len(children[p]), IsLeftChildIndex(p, i)
  PROVE  LET temp_keys == InsertAt(keys[p], i, separator)
             temp_children == InsertAt(children[p], i + 1, right)
         IN /\ temp_keys \in Seq(Nat) /\ Len(temp_keys) = Len(keys[p]) + 1
            /\ Ascending(temp_keys) /\ ToSet(temp_keys) \subseteq dom[p]
            /\ temp_children \in Seq(Nodes) /\ Len(temp_children) = Len(keys[p]) + 2
            /\ ToSet(temp_children) = Kids(p) \cup {right}
            /\ \A j \in 1..(Len(keys[p]) + 2) : dom[temp_children[j]] = Bound(dom[p], temp_keys, j)
            /\ NoneEmpty(dom, temp_children, Len(keys[p]) + 2)
<1> DEFINE temp_keys == InsertAt(keys[p], i, separator)
           temp_children == InsertAt(children[p], i + 1, right)
           n == Len(keys[p])
<1>1. /\ p \in Nodes /\ right \in Nodes /\ node \in Nodes /\ right # node
      /\ right \notin Kids(p) /\ children[p][i] = node
  BY ParentKnows DEF LinkInv, RightIsLoose, IsLeftChildIndex
<1>2. /\ separator \in Nat /\ keys[p] \in Seq(Nat) /\ n \in Nat
      /\ children[p] \in Seq(Nodes) /\ Len(children[p]) \in Nat
      /\ DOMAIN children[p] = 1..Len(children[p]) /\ IsInjective(children[p])
  BY <1>1, KeysAreNumbers, KeysAssumption
     DEF LinkInv, TypeInv, CallOK, TypeOK, HeapTypeOK, KidsDiffer
<1>3. Len(children[p]) = n + 1 /\ i \in 1..(n + 1)
  <2>1. children[p] # <<>>
    BY <1>2, EmptySeq
  <2> QED BY <1>1, <2>1 DEF LinkInv, TypeInv, NodeShape
<1>4. /\ dom \in [Nodes -> SUBSET Nat] /\ SeparatorFits(dom)
      /\ \A j \in 1..(n + 1) : Part(dom, children[p][j]) = {k \in dom[p] : IsChildSlot(keys[p], k, j)}
  BY <1>1, <1>2, <1>3 DEF Routes, Divided
<1>5. dom[node] \cup dom[right] = {k \in dom[p] : IsChildSlot(keys[p], k, i)}
  BY <1>1, <1>3, <1>4 DEF Part
<1>6. separator \in dom[p] /\ IsChildSlot(keys[p], separator, i)
  BY <1>4, <1>5 DEF SeparatorFits
<1>7. /\ dom[node] = {k \in dom[p] : IsChildSlot(keys[p], k, i) /\ k < separator}
      /\ dom[right] = {k \in dom[p] : IsChildSlot(keys[p], k, i) /\ separator <= k}
  <2>1. dom[p] \subseteq Nat
    BY <1>1, <1>4
  <2>2. \A k \in dom[p] : ~(k < separator /\ separator <= k)
    BY <1>2, <2>1
  <2>3. (\A k \in dom[node] : k < separator) /\ (\A k \in dom[right] : separator <= k)
    BY <1>4 DEF SeparatorFits
  <2> QED BY <1>5, <2>2, <2>3
<1>8. \A j \in 1..(n + 1) : j # i =>
         dom[children[p][j]] = {k \in dom[p] : IsChildSlot(keys[p], k, j)}
  <2>1. \A j \in 1..(n + 1) : j # i => children[p][j] # node
    BY <1>1, <1>2, <1>3 DEF IsInjective
  <2> QED BY <1>4, <2>1 DEF Part
<1>9. /\ temp_children \in Seq(Nodes) /\ Len(temp_children) = n + 2
      /\ ToSet(temp_children) = Kids(p) \cup {right}
      /\ \A j \in 1..(n + 2) :
            temp_children[j] = IF j < i + 1 THEN children[p][j]
                               ELSE IF j = i + 1 THEN right ELSE children[p][j - 1]
  <2>1. /\ temp_children \in Seq(Nodes) /\ Len(temp_children) = Len(children[p]) + 1
        /\ ToSet(temp_children) = Kids(p) \cup {right}
        /\ \A j \in 1..(Len(children[p]) + 1) :
              temp_children[j] = IF j < i + 1 THEN children[p][j]
                                 ELSE IF j = i + 1 THEN right ELSE children[p][j - 1]
    BY <1>1, NewKid
  <2>2. Len(children[p]) + 1 = n + 2
    BY <1>2, <1>3
  <2> HIDE DEF temp_children, n
  <2> QED BY <2>1, <2>2
<1>10. /\ temp_keys \in Seq(Nat) /\ Len(temp_keys) = n + 1
       /\ ToSet(temp_keys) = ToSet(keys[p]) \cup {separator}
  <2> DEFINE s == keys[p]
  <2>1. s \in Seq(Nat) /\ i \in 1..(Len(s) + 1)
    BY <1>2, <1>3
  <2> HIDE DEF s
  <2>2. InsertAt(s, i, separator) \in Seq(Nat) /\ Len(InsertAt(s, i, separator)) = Len(s) + 1
    BY <1>2, <2>1, NatInsertAt
  <2>3. ToSet(InsertAt(s, i, separator)) = ToSet(s) \cup {separator}
    BY <1>2, <2>1, ElementsAfterInsert
  <2> QED BY <2>2, <2>3 DEF s
<1>11. \A k \in Nat : \A j \in 1..(n + 2) :
          IsChildSlot(temp_keys, k, j) <=>
             \/ j < i /\ IsChildSlot(keys[p], k, j)
             \/ j = i /\ IsChildSlot(keys[p], k, i) /\ k < separator
             \/ j = i + 1 /\ IsChildSlot(keys[p], k, i) /\ separator <= k
             \/ j > i + 1 /\ IsChildSlot(keys[p], k, j - 1)
  BY <1>2, <1>3, <1>6, SlotsAfterInsert
<1>12. Ascending(temp_keys)
  <2>1. PICK k \in dom[node] : k < separator /\ IsChildSlot(keys[p], k, i) /\ k \in Nat
    BY <1>1, <1>4, <1>7 DEF SeparatorFits
  <2>2. \A a \in 1..(i - 1) : keys[p][a] \in Nat /\ keys[p][a] <= k
    <3>1. \A a \in 1..(i - 1) : a \in 1..n
      BY <1>2, <1>3
    <3> QED BY <1>2, <2>1, <3>1, NatSeq DEF IsChildSlot
  <2>3. \A a \in 1..(i - 1) : keys[p][a] < separator
    BY <1>2, <2>1, <2>2
  <2>4. i <= n => keys[p][i] \in Nat /\ separator < keys[p][i]
    <3>1. i <= n => i \in 1..n
      BY <1>2, <1>3
    <3> QED BY <1>2, <1>6, <3>1, NatSeq DEF IsChildSlot
  <2>5. IsLeafSlot(keys[p], separator, i) /\ ~Holds(keys[p], separator, i)
    <3>1. i <= n => separator <= keys[p][i] /\ keys[p][i] # separator
      BY <1>2, <2>4
    <3> QED BY <2>3, <3>1 DEF IsLeafSlot, Holds
  <2>6. Ascending(keys[p])
    BY <1>1, <1>6 DEF Routes, KeysAtHome
  <2> QED BY <1>2, <1>3, <2>5, <2>6, AscendingAfterInsert
<1>13. ToSet(temp_keys) \subseteq dom[p]
  BY <1>1, <1>6, <1>10 DEF Routes, KeysAtHome
<1> HIDE DEF temp_keys, temp_children, n
<1>14. ASSUME NEW j \in 1..(n + 2)
       PROVE  dom[temp_children[j]] = {k \in dom[p] : IsChildSlot(temp_keys, k, j)}
  <2>0. dom[p] \subseteq Nat
    BY <1>1, <1>4
  <2>1. CASE j < i
    <3>1. j \in 1..(n + 1) /\ j # i /\ temp_children[j] = children[p][j]
      BY <1>2, <1>3, <1>9, <2>1
    <3>2. \A k \in Nat : IsChildSlot(temp_keys, k, j) <=> IsChildSlot(keys[p], k, j)
      BY <1>3, <1>11, <2>1
    <3> QED BY <1>8, <2>0, <3>1, <3>2
  <2>2. CASE j = i
    <3>1. temp_children[j] = node
      BY <1>1, <1>3, <1>9, <2>2
    <3>2. \A k \in Nat : IsChildSlot(temp_keys, k, j) <=>
             IsChildSlot(keys[p], k, i) /\ k < separator
      BY <1>3, <1>11, <2>2
    <3> QED BY <1>7, <2>0, <3>1, <3>2
  <2>3. CASE j = i + 1
    <3>1. temp_children[j] = right
      BY <1>3, <1>9, <2>3
    <3>2. \A k \in Nat : IsChildSlot(temp_keys, k, j) <=>
             IsChildSlot(keys[p], k, i) /\ separator <= k
      BY <1>3, <1>11, <2>3
    <3> QED BY <1>7, <2>0, <3>1, <3>2
  <2>4. CASE j > i + 1
    <3>1. j - 1 \in 1..(n + 1) /\ j - 1 # i /\ temp_children[j] = children[p][j - 1]
      BY <1>2, <1>3, <1>9, <2>4
    <3>2. \A k \in Nat : IsChildSlot(temp_keys, k, j) <=> IsChildSlot(keys[p], k, j - 1)
      BY <1>3, <1>11, <2>4
    <3> QED BY <1>8, <2>0, <3>1, <3>2
  <2> QED BY <2>1, <2>2, <2>3, <2>4, <1>3
<1>15. \A j \in 1..(n + 2) : dom[temp_children[j]] = Bound(dom[p], temp_keys, j)
  BY <1>14 DEF Bound
<1>16. ASSUME NEW j \in 1..(n + 2)
       PROVE  dom[temp_children[j]] # {}
  <2>1. \A m \in 1..(n + 1) : dom[children[p][m]] # {}
    BY <1>1, <1>2, <1>3, <1>6 DEF Routes, Peopled
  <2>2. dom[right] # {}
    BY <1>4 DEF SeparatorFits
  <2>3. CASE j < i + 1
    <3>1. j \in 1..(n + 1) /\ temp_children[j] = children[p][j]
      BY <1>2, <1>3, <1>9, <2>3
    <3> QED BY <2>1, <3>1
  <2>4. CASE j = i + 1
    BY <1>3, <1>9, <2>2, <2>4
  <2>5. CASE j > i + 1
    <3>1. j - 1 \in 1..(n + 1) /\ temp_children[j] = children[p][j - 1]
      BY <1>2, <1>3, <1>9, <2>5
    <3> QED BY <2>1, <3>1
  <2> QED BY <2>3, <2>4, <2>5, <1>3
<1>17. NoneEmpty(dom, temp_children, n + 2)
  BY <1>16 DEF NoneEmpty
<1> QED BY <1>9, <1>10, <1>12, <1>13, <1>15, <1>17 DEF temp_keys, temp_children, n

\* The parent has room.
LEMMA InternalKeepsRoutes ==
  ASSUME LinkInv, NEW dom, Routes(dom), InsertIntoInternalNode
  PROVE  Routes(dom)'
<1> DEFINE p == parent[node]
<1>1. /\ pc = "parent" /\ pc' = "idle" /\ p # Null /\ UNCHANGED <<used, root, is_leaf, next>>
  BY DEF InsertIntoInternalNode, InsertSucceeds, Return
<1>2. PICK i \in 1..Len(children[p]) :
         /\ IsLeftChildIndex(p, i)
         /\ keys' = [keys EXCEPT ![p] = InsertAt(@, i, separator)]
         /\ children' = [children EXCEPT ![p] = InsertAt(@, i + 1, right)]
  BY DEF InsertIntoInternalNode
<1> DEFINE temp_keys == InsertAt(keys[p], i, separator)
           temp_children == InsertAt(children[p], i + 1, right)
           n == Len(keys[p])
<1>3. p = parent[node]
  OBVIOUS
<1> HIDE DEF p
<1>4. /\ p \in Nodes /\ root # node /\ root \in Nodes
      /\ \A m \in Nodes : node \in Kids(m) => m = p
  BY <1>1, <1>3, ParentKnows
<1>5. /\ Ascending(temp_keys) /\ ToSet(temp_keys) \subseteq dom[p]
      /\ temp_children \in Seq(Nodes) /\ Len(temp_children) = n + 2
      /\ \A j \in 1..(n + 2) : dom[temp_children[j]] = Bound(dom[p], temp_keys, j)
      /\ \A j \in 1..(n + 2) : dom[temp_children[j]] # {}
  <2>1. p = parent[node] /\ p # Null /\ pc = "parent" /\ IsLeftChildIndex(p, i)
    BY <1>1, <1>2, <1>3
  <2>2. Ascending(temp_keys) /\ ToSet(temp_keys) \subseteq dom[p]
    BY ONLY LinkInv, Routes(dom), i \in 1..Len(children[p]), <2>1, PartsAfterInsert
  <2>3. temp_children \in Seq(Nodes) /\ Len(temp_children) = n + 2
    BY ONLY LinkInv, Routes(dom), i \in 1..Len(children[p]), <2>1, PartsAfterInsert
  <2>4. \A j \in 1..(n + 2) : dom[temp_children[j]] = Bound(dom[p], temp_keys, j)
    BY ONLY LinkInv, Routes(dom), i \in 1..Len(children[p]), <2>1, PartsAfterInsert, SMTT(30)
  <2>5. \A j \in 1..(n + 2) : dom[temp_children[j]] # {}
    <3>1. NoneEmpty(dom, temp_children, n + 2)
      BY ONLY LinkInv, Routes(dom), i \in 1..Len(children[p]), <2>1, PartsAfterInsert
    <3> QED BY <3>1 DEF NoneEmpty
  <2> QED BY <2>2, <2>3, <2>4, <2>5
<1>6. \A m \in Nodes : /\ keys'[m] = IF m = p THEN temp_keys ELSE keys[m]
                       /\ children'[m] = IF m = p THEN temp_children ELSE children[m]
  <2>1. keys \in [Nodes -> Seq(Keys)] /\ children \in [Nodes -> Seq(Nodes)]
    BY DEF LinkInv, TypeInv, TypeOK, HeapTypeOK
  <2> QED BY <1>2, <1>4, <2>1
<1>7. DOMAIN temp_children = 1..(n + 2)
  BY <1>5, LenProperties
<1> HIDE DEF temp_keys, temp_children, n
<1>9. KeysAtHome(dom)'
  <2>1. \A m \in Nodes : dom[m] # {} => Ascending(keys'[m]) /\ ToSet(keys'[m]) \subseteq dom[m]
    BY <1>4, <1>5, <1>6 DEF Routes, KeysAtHome
  <2> QED BY <2>1 DEF KeysAtHome
<1>10. LeavesApart(dom)' /\ LeavesInOrder(dom)'
  BY <1>1 DEF Routes, LeavesApart, LeavesInOrder
<1>11. Divided(dom)' /\ Peopled(dom)'
  <2>1. \A m \in Nodes \ {p} : \A j \in DOMAIN children[m] :
           dom[children[m][j]] = {k \in dom[m] : IsChildSlot(keys[m], k, j)}
    <3>1. \A m \in Nodes \ {p} : \A j \in DOMAIN children[m] : children[m][j] # node
      BY <1>4 DEF Kids, ToSet
    <3> QED BY <3>1 DEF Routes, Divided, Part
  <2>2. \A m \in Nodes : \A j \in DOMAIN children'[m] :
           dom[children'[m][j]] = {k \in dom[m] : IsChildSlot(keys'[m], k, j)}
    <3> TAKE m \in Nodes
    <3>1. CASE m = p
      <4>1. children'[m] = temp_children /\ keys'[m] = temp_keys
        BY <1>6, <3>1
      <4> QED BY <1>5, <1>7, <3>1, <4>1 DEF Bound
    <3>2. CASE m # p
      <4>1. children'[m] = children[m] /\ keys'[m] = keys[m]
        BY <1>6, <3>2
      <4> QED BY <2>1, <3>2, <4>1
    <3> QED BY <3>1, <3>2
  <2>3. \A m \in Nodes : \A j \in DOMAIN children'[m] :
           dom[m] # {} => dom[children'[m][j]] # {}
    <3> TAKE m \in Nodes
    <3>1. CASE m = p
      <4>1. children'[m] = temp_children
        BY <1>6, <3>1
      <4> QED BY <1>5, <1>7, <4>1
    <3>2. CASE m # p
      <4>1. children'[m] = children[m]
        BY <1>6, <3>2
      <4> QED BY <4>1 DEF Routes, Peopled
    <3> QED BY <3>1, <3>2
  <2> QED BY <1>1, <2>2, <2>3 DEF Divided, Peopled, Part
<1>12. dom \in [Nodes -> SUBSET Nat] /\ dom[root] = Nat
  BY <1>1, <1>4, NullAssumption DEF Routes, Part
<1>13. Routes(dom)'
  BY <1>1, <1>9, <1>10, <1>11, <1>12 DEF Routes, Part
<1> QED BY <1>13

\* The parent is split in turn: it keeps the keys below the middle one, the new node gets
\* the others, and the grandparent does not know of it yet.
LEMMA SplitInternalKeepsRoutes ==
  ASSUME LinkInv, NEW dom, Routes(dom), SplitInternal
  PROVE  \E d : Routes(d)'
<1> DEFINE p == parent[node]
           n == Len(keys[p])
           h == Half(n + 1)
<1>1. /\ pc = "parent" /\ pc' = "parent" /\ p # Null /\ ~HasRoom(p) /\ node' = p
      /\ right' = Fresh /\ UNCHANGED <<root, is_leaf, next>> /\ CanAllocate
      /\ used' = used \cup {Fresh}
  BY DEF SplitInternal, tree
<1>2. PICK i \in 1..Len(children[p]) :
         /\ IsLeftChildIndex(p, i)
         /\ LET temp_keys == InsertAt(keys[p], i, separator)
                temp_children == InsertAt(children[p], i + 1, right)
            IN /\ keys' = [keys EXCEPT
                     ![p] = SubSeq(temp_keys, 1, h),
                     ![Fresh] = SubSeq(temp_keys, h + 2, n + 1)]
               /\ children' = [children EXCEPT
                     ![p] = SubSeq(temp_children, 1, h + 1),
                     ![Fresh] = SubSeq(temp_children, h + 2, Len(temp_children))]
               /\ separator' = temp_keys[h + 1]
  BY DEF SplitInternal, RightChildren, TempChildren
<1> DEFINE f == Fresh
           t == InsertAt(keys[p], i, separator)
           c == InsertAt(children[p], i + 1, right)
           left_keys == SubSeq(t, 1, h)
           right_keys == SubSeq(t, h + 2, Len(t))
           left_part == SubSeq(c, 1, h + 1)
           right_part == SubSeq(c, h + 2, Len(c))
<1>3. /\ p \in Nodes /\ p \in used /\ p # node /\ p # right /\ p \notin Kids(p) /\ ~is_leaf[p]
      /\ root # node /\ root \in Nodes /\ root \in used /\ right \in used
      /\ \A m \in Nodes : node \in Kids(m) => m = p
  BY <1>1, ParentKnows, NullAssumption DEF LinkInv, RootIsTop, RightIsLoose
<1>4. /\ t \in Seq(Nat) /\ Len(t) = n + 1 /\ Ascending(t) /\ ToSet(t) \subseteq dom[p]
      /\ c \in Seq(Nodes) /\ Len(c) = n + 2 /\ ToSet(c) = Kids(p) \cup {right}
      /\ \A j \in 1..(n + 2) : dom[c[j]] = Bound(dom[p], t, j)
      /\ \A j \in 1..(n + 2) : dom[c[j]] # {}
  <2>1. p = parent[node] /\ p # Null /\ pc = "parent" /\ IsLeftChildIndex(p, i)
    BY <1>1, <1>2
  <2> HIDE DEF p
  <2>2. /\ t \in Seq(Nat) /\ Len(t) = n + 1 /\ Ascending(t) /\ ToSet(t) \subseteq dom[p]
    BY ONLY LinkInv, Routes(dom), i \in 1..Len(children[p]), <2>1, PartsAfterInsert
  <2>3. c \in Seq(Nodes) /\ Len(c) = n + 2
    BY ONLY LinkInv, Routes(dom), i \in 1..Len(children[p]), <2>1, PartsAfterInsert
  <2>4. ToSet(c) = Kids(p) \cup {right}
    BY ONLY LinkInv, Routes(dom), i \in 1..Len(children[p]), <2>1, PartsAfterInsert
  <2>5. \A j \in 1..(n + 2) : dom[c[j]] = Bound(dom[p], t, j)
    BY ONLY LinkInv, Routes(dom), i \in 1..Len(children[p]), <2>1, PartsAfterInsert, SMTT(30)
  <2>6. \A j \in 1..(n + 2) : dom[c[j]] # {}
    <3>1. NoneEmpty(dom, c, n + 2)
      BY ONLY LinkInv, Routes(dom), i \in 1..Len(children[p]), <2>1, PartsAfterInsert
    <3> QED BY <3>1 DEF NoneEmpty
  <2> QED BY <2>2, <2>3, <2>4, <2>5, <2>6
<1>5. n \in Nat /\ n >= MaxKeys
  BY <1>1, <1>3, KeysAreNumbers, OrderAssumption DEF LinkInv, HasRoom, MaxKeys
<1>6. f \in Nodes /\ f \notin used /\ ~is_leaf[f] /\ children[f] = <<>>
  BY <1>1, FreshIsNew DEF LinkInv, TypeInv, TypeOK, HeapTypeOK, NodeShape
<1>7. f # p /\ f # root /\ right' = f
  BY <1>1, <1>3, <1>6
<1>8. \A m \in Nodes :
         /\ keys'[m] = IF m = f THEN right_keys ELSE IF m = p THEN left_keys ELSE keys[m]
         /\ children'[m] = IF m = f THEN right_part ELSE IF m = p THEN left_part ELSE children[m]
  <2>1. keys \in [Nodes -> Seq(Keys)] /\ children \in [Nodes -> Seq(Nodes)]
    BY DEF LinkInv, TypeInv, TypeOK, HeapTypeOK
  <2>2. /\ keys' = [keys EXCEPT ![p] = left_keys, ![f] = right_keys]
        /\ children' = [children EXCEPT ![p] = left_part, ![f] = right_part]
    BY <1>2, <1>4
  <2> HIDE DEF left_keys, right_keys, left_part, right_part, f, p
  <2> QED BY <1>3, <1>6, <1>7, <2>1, <2>2
<1>9. separator' = t[h + 1]
  BY <1>2
<1>10. h \in Nat /\ 1 <= h /\ h + 1 <= n + 1
  <2> DEFINE total_keys == n + 1
  <2>1. total_keys \in Nat /\ total_keys >= 3
    BY <1>5, OrderAssumption DEF MaxKeys
  <2>2. h = total_keys \div 2
    BY DEF Half
  <2> HIDE DEF total_keys, h, n
  <2>3. h \in Nat /\ 1 <= h /\ h + 1 <= total_keys
    BY <2>1, <2>2
  <2> QED BY <2>3 DEF total_keys
<1>11. node' = p /\ pc' = "parent"
  BY <1>1
<1> HIDE DEF h, t, c, f, p, n
<1>12. h + 1 <= Len(t) /\ h + 1 <= Len(c) /\ Len(c) - (h + 1) = Len(t) - h
  BY <1>4, <1>5, <1>10
<1> DEFINE mid == t[h + 1]
           low == {k \in dom[p] : k < mid}
           high == {k \in dom[p] : mid <= k}
<1>13. /\ Ascending(left_keys) /\ Ascending(right_keys)
       /\ ToSet(left_keys) \subseteq low /\ ToSet(right_keys) \subseteq high
       /\ low # {} /\ mid \in high /\ mid \in Nat
  BY <1>4, <1>10, <1>12, PartsFit
<1>14. \A k \in Nat :
          /\ \A j \in 1..(h + 1) :
                IsChildSlot(t, k, j) <=> k < mid /\ IsChildSlot(left_keys, k, j)
          /\ \A j \in 1..(Len(t) - h) :
                IsChildSlot(t, k, h + 1 + j) <=> mid <= k /\ IsChildSlot(right_keys, k, j)
  <2>1. Sorted(t)
    <3>1. \A a \in DOMAIN t : t[a] \in Nat
      BY <1>4, NatSeq
    <3> QED BY <1>4, <3>1 DEF Sorted, Ascending
  <2> QED BY <1>4, <1>10, <1>12, <2>1, SlotsAfterCut
<1>15. /\ DOMAIN left_part = 1..(h + 1) /\ \A j \in 1..(h + 1) : left_part[j] = c[j]
       /\ DOMAIN right_part = 1..(Len(t) - h)
       /\ \A j \in 1..(Len(t) - h) : right_part[j] = c[h + 1 + j]
  <2>1. /\ DOMAIN left_part = 1..(h + 1) /\ \A j \in 1..(h + 1) : left_part[j] = c[j]
        /\ DOMAIN right_part = 1..(Len(c) - (h + 1))
        /\ \A j \in 1..(Len(c) - (h + 1)) : right_part[j] = c[h + 1 + j]
    BY <1>4, <1>10, <1>12, TwoParts
  <2> QED BY <1>12, <2>1
<1> HIDE DEF left_keys, right_keys, left_part, right_part, mid
<1>16. separator' = mid
  BY <1>9 DEF mid
<1>17. /\ dom \in [Nodes -> SUBSET Nat] /\ dom[root] = Nat
       /\ \A m \in Nodes \ {p} : \A j \in DOMAIN children[m] :
             dom[children[m][j]] = {k \in dom[m] : IsChildSlot(keys[m], k, j)}
       /\ \A m \in Nodes : \A j \in DOMAIN children[m] : dom[m] # {} => dom[children[m][j]] # {}
       /\ \A m \in Nodes : dom[m] # {} => Ascending(keys[m]) /\ ToSet(keys[m]) \subseteq dom[m]
       /\ \A m \in Nodes \ used : dom[m] = {}
       /\ \A a, b \in Nodes : is_leaf[a] /\ is_leaf[b] /\ a # b => dom[a] \cap dom[b] = {}
  <2>1. \A m \in Nodes \ {p} : \A j \in DOMAIN children[m] : children[m][j] # node
    BY <1>3 DEF Kids, ToSet
  <2> QED BY <1>3, <2>1, NullAssumption DEF Routes, Divided, Peopled, KeysAtHome, LeavesApart, Part
<1>18. low \cup high = dom[p] /\ dom[p] \subseteq Nat
  <2>1. dom[p] \subseteq Nat
    BY <1>3, <1>17
  <2>2. \A k \in dom[p] : k < mid \/ mid <= k
    BY <1>13, <2>1
  <2> QED BY <2>1, <2>2
<1>19. low \subseteq Nat /\ high \subseteq Nat
  BY <1>18
<1>20. \A j \in 1..(n + 2) : c[j] \in Nodes /\ c[j] # p /\ c[j] # f
  <2>1. \A j \in 1..(n + 2) : c[j] \in Kids(p) \cup {right}
    <3>1. DOMAIN c = 1..(n + 2)
      BY <1>4, LenProperties
    <3>2. \A j \in 1..(n + 2) : c[j] \in ToSet(c)
      BY <3>1 DEF ToSet
    <3> QED BY <1>4, <3>2
  <2>2. Kids(p) \cup {right} \subseteq used /\ used \subseteq Nodes
    BY <1>3 DEF LinkInv, OnlyUsed, TypeInv, TypeOK, HeapTypeOK
  <2> QED BY <1>3, <1>6, <2>1, <2>2
<1> PICK d \in [Nodes -> SUBSET Nat] :
         \A m \in Nodes : d[m] = IF m = p THEN low ELSE IF m = f THEN high ELSE dom[m]
  <2> DEFINE new == [m \in Nodes |-> IF m = p THEN low ELSE IF m = f THEN high ELSE dom[m]]
  <2> HIDE DEF low, high
  <2>1. \A m \in Nodes : new[m] = IF m = p THEN low ELSE IF m = f THEN high ELSE dom[m]
    OBVIOUS
  <2>2. new \in [Nodes -> SUBSET Nat]
    BY <1>17, <1>19
  <2> QED BY <2>1, <2>2
<1>21. d[p] = low /\ d[f] = high /\ \A m \in Nodes \ {p, f} : d[m] = dom[m]
  BY <1>3, <1>6, <1>7
<1>23. KeysAtHome(d)'
  <2>1. \A m \in Nodes : d[m] # {} => Ascending(keys'[m]) /\ ToSet(keys'[m]) \subseteq d[m]
    <3> HIDE DEF low, high
    <3> QED BY <1>3, <1>6, <1>7, <1>8, <1>13, <1>17, <1>21
  <2> QED BY <2>1 DEF KeysAtHome
<1>24. LeavesApart(d)'
  <2>1. \A a \in Nodes : is_leaf'[a] => d[a] = dom[a]
    BY <1>1, <1>3, <1>6, <1>21
  <2> QED BY <1>1, <1>17, <2>1 DEF LeavesApart
<1>25. Divided(d)'
  <2>1. \A j \in DOMAIN left_part :
           d[left_part[j]] = {k \in low : IsChildSlot(left_keys, k, j)}
    <3> TAKE j \in DOMAIN left_part
    <3>1. j \in 1..(h + 1) /\ j \in 1..(n + 2) /\ left_part[j] = c[j]
      BY <1>4, <1>5, <1>10, <1>15, SMTT(30)
    <3>2. d[c[j]] = dom[c[j]] /\ dom[c[j]] = {k \in dom[p] : IsChildSlot(t, k, j)}
      BY <1>4, <1>20, <1>21, <3>1 DEF Bound
    <3> QED BY <1>14, <1>18, <3>1, <3>2
  <2>2. \A j \in DOMAIN right_part :
           d[right_part[j]] = {k \in high : IsChildSlot(right_keys, k, j)}
    <3> TAKE j \in DOMAIN right_part
    <3>1. j \in 1..(Len(t) - h) /\ h + 1 + j \in 1..(n + 2) /\ right_part[j] = c[h + 1 + j]
      <4>1. j \in 1..(Len(t) - h) /\ right_part[j] = c[h + 1 + j]
        BY <1>15
      <4>2. Len(t) = n + 1 /\ n \in Nat /\ h \in Nat
        BY <1>4, <1>5, <1>10
      <4>3. h + 1 + j \in 1..(n + 2)
        BY ONLY <4>1, <4>2
      <4> QED BY <4>1, <4>3
    <3>2. d[c[h + 1 + j]] = dom[c[h + 1 + j]]
          /\ dom[c[h + 1 + j]] = {k \in dom[p] : IsChildSlot(t, k, h + 1 + j)}
      BY <1>4, <1>20, <1>21, <3>1 DEF Bound
    <3> QED BY <1>14, <1>18, <3>1, <3>2
  <2>3. ASSUME NEW m \in Nodes \ {p, f}, NEW j \in DOMAIN children[m]
        PROVE  (IF children[m][j] = p THEN d[p] \cup d[f] ELSE d[children[m][j]])
                  = {k \in d[m] : IsChildSlot(keys[m], k, j)}
    <3>1. children[m][j] \in Kids(m) /\ Kids(m) \subseteq Nodes /\ Kids(m) \subseteq used
      BY KidsAreNodes DEF Kids, ToSet, LinkInv, OnlyUsed
    <3>2. children[m][j] \in Nodes /\ children[m][j] # f
      BY <1>6, <3>1
    <3>3. (IF children[m][j] = p THEN d[p] \cup d[f] ELSE d[children[m][j]])
             = dom[children[m][j]]
      BY <1>18, <1>21, <3>2
    <3> QED BY <1>17, <1>21, <3>3
  <2> HIDE DEF low, high
  <2>4. \A m \in Nodes : \A j \in DOMAIN children'[m] :
           (IF children'[m][j] = p THEN d[p] \cup d[f] ELSE d[children'[m][j]])
              = {k \in d[m] : IsChildSlot(keys'[m], k, j)}
    <3> TAKE m \in Nodes
    <3>1. CASE m = p
      <4>1. children'[m] = left_part /\ keys'[m] = left_keys /\ d[m] = low
        BY <1>7, <1>8, <1>21, <3>1
      <4>2. \A j \in DOMAIN left_part : left_part[j] # p
        <5> TAKE j \in DOMAIN left_part
        <5>1. j \in 1..(h + 1) /\ left_part[j] = c[j]
          BY <1>15
        <5>2. j \in 1..(n + 2)
          BY <5>1, <1>5, <1>10
        <5> QED BY <1>20, <5>1, <5>2
      <4> QED BY <2>1, <4>1, <4>2
    <3>2. CASE m = f
      <4>1. children'[m] = right_part /\ keys'[m] = right_keys /\ d[m] = high
        BY <1>7, <1>8, <1>21, <3>2
      <4>2. \A j \in DOMAIN right_part : right_part[j] # p
        <5> TAKE j \in DOMAIN right_part
        <5>1. j \in 1..(Len(t) - h) /\ right_part[j] = c[h + 1 + j]
          BY <1>15
        <5>2. h + 1 + j \in 1..(n + 2)
          BY <5>1, <1>4, <1>5, <1>10, SMTT(30)
        <5> QED BY <1>20, <5>1, <5>2
      <4> QED BY <2>2, <4>1, <4>2
    <3>3. CASE m \notin {p, f}
      <4>1. children'[m] = children[m] /\ keys'[m] = keys[m]
        BY <1>8, <3>3
      <4> QED BY <2>3, <3>3, <4>1
    <3> QED BY <3>1, <3>2, <3>3
  <2> QED BY <1>7, <1>11, <2>4 DEF Divided, Part
<1>29. Peopled(d)'
  <2>1. d[p] # {} /\ d[f] # {}
    <3> HIDE DEF low, high
    <3> QED BY <1>13, <1>21
  <2>2. \A j \in 1..(n + 2) : d[c[j]] # {}
    BY <1>4, <1>20, <1>21
  <2>3. ASSUME NEW m \in Nodes, NEW j \in DOMAIN children'[m], d[m] # {}
        PROVE  d[children'[m][j]] # {}
    <3>1. CASE m = p
      <4>1. children'[m] = left_part
        BY <1>7, <1>8, <3>1
      <4>2. j \in 1..(h + 1) /\ left_part[j] = c[j]
        BY <1>15, <4>1
      <4>3. j \in 1..(n + 2)
        BY <4>2, <1>5, <1>10
      <4> QED BY <2>2, <4>1, <4>2, <4>3
    <3>2. CASE m = f
      <4>1. children'[m] = right_part
        BY <1>7, <1>8, <3>2
      <4>2. j \in 1..(Len(t) - h) /\ right_part[j] = c[h + 1 + j]
        BY <1>15, <4>1
      <4>3. h + 1 + j \in 1..(n + 2)
        BY <4>2, <1>4, <1>5, <1>10, SMTT(30)
      <4> QED BY <2>2, <4>1, <4>2, <4>3
    <3>3. CASE m \notin {p, f}
      <4>1. children'[m] = children[m] /\ d[m] = dom[m]
        BY <1>8, <1>21, <3>3
      <4>2. children[m][j] \in Kids(m) /\ Kids(m) \subseteq Nodes
        BY <4>1, KidsAreNodes DEF Kids, ToSet, LinkInv
      <4>3. dom[children[m][j]] # {} /\ children[m][j] \in Nodes
        BY <1>17, <2>3, <4>1, <4>2
      <4>4. children[m][j] \in {p, f} \/ d[children[m][j]] = dom[children[m][j]]
        BY <1>21, <4>3
      <4> QED BY <2>1, <4>1, <4>3, <4>4
    <3> QED BY <3>1, <3>2, <3>3
  <2> HIDE DEF low, high
  <2> QED BY <2>3 DEF Peopled
<1>30. LeavesInOrder(d)'
  <2>1. \A a \in Nodes : is_leaf[a] => d[a] = dom[a]
    BY <1>3, <1>6, <1>21
  <2>2. next' = next /\ next \in [Nodes -> Nodes \cup {Null}]
    BY <1>1 DEF LinkInv, TypeInv, TypeOK, HeapTypeOK
  <2>3. \A a \in Nodes : is_leaf[a] /\ dom[a] # {} /\ next[a] # Null =>
           /\ next[a] \in Nodes /\ is_leaf[next[a]]
           /\ dom[next[a]] # {} /\ Before(dom[a], dom[next[a]])
    BY <2>2 DEF Routes, LeavesInOrder
  <2> HIDE DEF low, high
  <2> QED BY <1>1, <2>1, <2>2, <2>3 DEF LeavesInOrder
<1>31. \A m \in Nodes \ used' : d[m] = {}
  <2>1. used' = used \cup {f}
    BY <1>1 DEF f
  <2> HIDE DEF low, high
  <2> QED BY <1>3, <1>17, <1>21, <2>1
<1>26. SeparatorFits(d)'
  <2>1. (\A k \in low : k < mid) /\ (\A k \in high : mid <= k)
    OBVIOUS
  <2> HIDE DEF low, high
  <2> QED BY <1>7, <1>11, <1>13, <1>16, <1>21, <2>1 DEF SeparatorFits
<1>27. (IF root = p THEN d[p] \cup d[f] ELSE d[root]) = Nat
  BY <1>3, <1>7, <1>17, <1>18, <1>21
<1>28. Routes(d)'
  BY <1>1, <1>7, <1>11, <1>23, <1>24, <1>25, <1>26, <1>27, <1>29, <1>30, <1>31 DEF Routes, Part
<1> QED BY <1>28

-----------------------------------------------------------------------------
(* The rows in the leaves.                                                  *)

\* A leaf in use is one of the leaves.
LEMMA AllLeaves ==
  ASSUME TypeInv
  PROVE  Leaves = {n \in Nodes : is_leaf[n]}
BY DEF Leaves, TypeInv, TypeOK, HeapTypeOK, NodeShape

LEMMA RowsArePairs ==
  ASSUME TypeInv, NEW n \in Nodes
  PROVE  RowsOf(n) = PairsOf(keys[n], offsets[n])
<1>1. DOMAIN keys[n] = 1..Len(keys[n])
  BY KeysAreNumbers
<1> QED BY <1>1 DEF RowsOf, PairsOf

LEMMA NewRowsArePairs ==
  ASSUME TypeInv', NEW n \in Nodes
  PROVE  RowsOf(n)' = PairsOf(keys'[n], offsets'[n])
<1>1. keys'[n] \in Seq(Keys)
  BY DEF TypeInv, TypeOK, HeapTypeOK
<1>2. DOMAIN keys'[n] = 1..Len(keys'[n])
  BY <1>1, LenProperties
<1> QED BY <1>2 DEF RowsOf, PairsOf

\* A step that leaves the leaves alone.
LEMMA RowsStay ==
  ASSUME Leaves' = Leaves,
         \A n \in Leaves : keys'[n] = keys[n] /\ offsets'[n] = offsets[n]
  PROVE  Rows' = Rows
<1>1. \A n \in Leaves : RowsOf(n)' = RowsOf(n)
  BY DEF RowsOf
<1> QED BY <1>1 DEF Rows

\* insert_into_parent stores no row and loses none.
LEMMA ParentKeepsLeaves ==
  ASSUME LinkInv, TypeInv', NewRoot \/ InsertIntoInternalNode \/ SplitInternal
  PROVE  Leaves' = Leaves /\ \A n \in Leaves : keys'[n] = keys[n] /\ offsets'[n] = offsets[n]
<1>1. /\ keys \in [Nodes -> Seq(Keys)] /\ UNCHANGED <<is_leaf, offsets>> /\ pc = "parent"
  BY DEF LinkInv, TypeInv, TypeOK, HeapTypeOK, NewRoot, InsertIntoInternalNode, SplitInternal
<1>2. Leaves' = Leaves
  BY <1>1, AllLeaves DEF LinkInv, Leaves, TypeInv, TypeOK, HeapTypeOK, NodeShape
<1>3. ASSUME NewRoot PROVE \A n \in Leaves : keys'[n] = keys[n]
  <2>1. keys' = [keys EXCEPT ![Fresh] = <<separator>>] /\ Fresh \notin used
    BY <1>3, FreshIsNew DEF NewRoot, LinkInv, TypeInv, TypeOK, HeapTypeOK
  <2> QED BY <1>1, <2>1 DEF Leaves, LinkInv, TypeInv, TypeOK, HeapTypeOK
<1>4. ASSUME InsertIntoInternalNode PROVE \A n \in Leaves : keys'[n] = keys[n]
  <2> DEFINE p == parent[node]
  <2>1. p # Null
    BY <1>4 DEF InsertIntoInternalNode
  <2>2. ~is_leaf[p]
    BY <1>1, <2>1, ParentKnows
  <2>3. PICK i : keys' = [keys EXCEPT ![p] = InsertAt(@, i, separator)]
    BY <1>4 DEF InsertIntoInternalNode
  <2> QED BY <1>1, <2>2, <2>3 DEF Leaves, LinkInv, TypeInv, TypeOK, HeapTypeOK
<1>5. ASSUME SplitInternal PROVE \A n \in Leaves : keys'[n] = keys[n]
  <2> DEFINE p == parent[node]
  <2>1. p # Null /\ Fresh \notin used
    BY <1>5, FreshIsNew DEF SplitInternal, LinkInv, TypeInv, TypeOK, HeapTypeOK
  <2>2. ~is_leaf[p]
    BY <1>1, <2>1, ParentKnows
  <2>3. PICK a, b : keys' = [keys EXCEPT ![p] = a, ![Fresh] = b]
    BY <1>5 DEF SplitInternal
  <2> QED BY <1>1, <2>1, <2>2, <2>3 DEF Leaves, LinkInv, TypeInv, TypeOK, HeapTypeOK
<1>6. \A n \in Leaves : keys'[n] = keys[n] /\ offsets'[n] = offsets[n]
  BY <1>1, <1>3, <1>4, <1>5
<1> QED BY <1>2, <1>6

LEMMA ParentKeepsRows ==
  ASSUME LinkInv, TypeInv', NewRoot \/ InsertIntoInternalNode \/ SplitInternal
  PROVE  Rows' = Rows
BY ParentKeepsLeaves, RowsStay

\* An insertion into a leaf stores the row of the call there.
LEMMA LeafGainsRow ==
  ASSUME LinkInv, TypeInv', InsertIntoLeaf
  PROVE  /\ node \in Leaves /\ Leaves' = Leaves
         /\ \A m \in Leaves \ {node} : RowsOf(m)' = RowsOf(m)
         /\ \A m \in {node} : RowsOf(m)' = RowsOf(m) \cup {<<call.key, call.row_offset>>}
<1>1. /\ AtInsertLeaf /\ is_leaf[node] /\ node \in Nodes /\ UNCHANGED <<used, is_leaf>>
      /\ call.key \in Nat /\ call.row_offset \in Offsets
      /\ keys \in [Nodes -> Seq(Keys)] /\ offsets \in [Nodes -> Seq(Offsets)]
  BY KeysAssumption
     DEF InsertIntoLeaf, AtInsertLeaf, LinkInv, TypeInv, TypeOK, HeapTypeOK, CallOK
<1>2. PICK i \in 1..(Len(keys[node]) + 1) :
         /\ keys' = [keys EXCEPT ![node] = InsertAt(@, i, call.key)]
         /\ offsets' = [offsets EXCEPT ![node] = InsertAt(@, i, call.row_offset)]
  BY DEF InsertIntoLeaf
<1>3. node \in Leaves /\ Leaves' = Leaves /\ Leaves \subseteq Nodes
  BY <1>1, AllLeaves DEF LinkInv, Leaves
<1> DEFINE row == <<call.key, call.row_offset>>
<1>4. \A m \in Leaves \ {node} : RowsOf(m)' = RowsOf(m)
  <2>1. \A m \in Leaves \ {node} : keys'[m] = keys[m] /\ offsets'[m] = offsets[m]
    BY <1>1, <1>2, <1>3
  <2> QED BY <2>1 DEF RowsOf
<1>5. \A m \in {node} : RowsOf(m)' = RowsOf(m) \cup {row}
  <2>1. /\ keys[node] \in Seq(Nat) /\ offsets[node] \in Seq(Offsets)
        /\ Len(offsets[node]) = Len(keys[node])
    BY <1>1, KeysAreNumbers DEF LinkInv, TypeInv, NodeShape
  <2>2. PairsOf(InsertAt(keys[node], i, call.key), InsertAt(offsets[node], i, call.row_offset))
           = PairsOf(keys[node], offsets[node]) \cup {row}
    BY <1>1, <2>1, PairsAfterInsert
  <2>3. /\ \A m \in {node} : RowsOf(m)' = PairsOf(keys'[m], offsets'[m])
        /\ RowsOf(node) = PairsOf(keys[node], offsets[node])
    BY <1>1, RowsArePairs, NewRowsArePairs DEF LinkInv
  <2>4. \A m \in {node} : /\ keys'[m] = InsertAt(keys[node], i, call.key)
                          /\ offsets'[m] = InsertAt(offsets[node], i, call.row_offset)
    BY <1>1, <1>2
  <2> QED BY <2>2, <2>3, <2>4
<1> QED BY <1>3, <1>4, <1>5

\* It stores the row and no other.
LEMMA LeafStoresRow ==
  ASSUME LinkInv, TypeInv', InsertIntoLeaf
  PROVE  Rows' = Rows \cup {<<call.key, call.row_offset>>}
<1> DEFINE row == <<call.key, call.row_offset>>
<1>3. node \in Leaves /\ Leaves' = Leaves
  BY LeafGainsRow
<1>4. \A m \in Leaves \ {node} : RowsOf(m)' = RowsOf(m)
  BY LeafGainsRow
<1>5. \A m \in {node} : RowsOf(m)' = RowsOf(m) \cup {row}
  BY LeafGainsRow
<1> HIDE DEF row
<1>6. \A n \in Leaves : RowsOf(n)' \subseteq Rows \cup {row} /\ RowsOf(n) \subseteq Rows'
  BY <1>3, <1>4, <1>5 DEF Rows
<1>7. row \in Rows'
  BY <1>3, <1>5 DEF Rows
<1>8. Rows' \subseteq Rows \cup {row} /\ Rows \subseteq Rows'
  BY <1>3, <1>6 DEF Rows
<1> QED BY <1>7, <1>8 DEF row

\* The split of a leaf shares its rows and the row of the call between it and the new leaf.
LEMMA SplitSharesRows ==
  ASSUME LinkInv, TypeInv', SplitLeaf
  PROVE  /\ node \in Leaves /\ Leaves' = Leaves \cup {Fresh} /\ Fresh \notin Leaves
         /\ \A m \in Leaves \ {node} : RowsOf(m)' = RowsOf(m)
         /\ \A m \in {node} : \A q \in {Fresh} :
               RowsOf(m)' \cup RowsOf(q)' = RowsOf(m) \cup {<<call.key, call.row_offset>>}
<1> DEFINE n == Len(keys[node])
           h == Half(n + 1)
<1>1. /\ AtInsertLeaf /\ is_leaf[node] /\ node \in Nodes
      /\ used' = used \cup {Fresh} /\ is_leaf' = [is_leaf EXCEPT ![Fresh] = TRUE]
      /\ call.key \in Nat /\ call.row_offset \in Offsets
      /\ keys \in [Nodes -> Seq(Keys)] /\ offsets \in [Nodes -> Seq(Offsets)]
      /\ is_leaf \in [Nodes -> BOOLEAN]
  BY KeysAssumption DEF SplitLeaf, AtInsertLeaf, LinkInv, TypeInv, TypeOK, HeapTypeOK, CallOK
<1>2. PICK i \in 1..(n + 1) :
         LET temp_keys == InsertAt(keys[node], i, call.key)
             temp_offsets == InsertAt(offsets[node], i, call.row_offset)
         IN /\ keys' = [keys EXCEPT ![node] = SubSeq(temp_keys, 1, h),
                                    ![Fresh] = SubSeq(temp_keys, h + 1, n + 1)]
            /\ offsets' = [offsets EXCEPT ![node] = SubSeq(temp_offsets, 1, h),
                                          ![Fresh] = SubSeq(temp_offsets, h + 1, n + 1)]
  BY DEF SplitLeaf
<1> DEFINE f == Fresh
           t == InsertAt(keys[node], i, call.key)
           u == InsertAt(offsets[node], i, call.row_offset)
           row == <<call.key, call.row_offset>>
<1>3. f \in Nodes /\ f \notin used /\ node \in used /\ node # f
  <2>1. f \in Nodes /\ f \notin used
    BY FreshIsNew DEF SplitLeaf, LinkInv, TypeInv, TypeOK, HeapTypeOK
  <2>2. node \in used
    BY <1>1 DEF LinkInv, TypeInv, NodeShape
  <2> QED BY <2>1, <2>2
<1>4. node \in Leaves /\ Leaves' = Leaves \cup {f} /\ Leaves \subseteq Nodes /\ f \notin Leaves
  BY <1>1, <1>3 DEF Leaves, LinkInv, TypeInv, TypeOK, HeapTypeOK
<1>5. /\ keys[node] \in Seq(Nat) /\ offsets[node] \in Seq(Offsets) /\ n \in Nat
      /\ Len(offsets[node]) = n
  BY <1>1, KeysAreNumbers DEF LinkInv, TypeInv, NodeShape
<1>6. /\ t \in Seq(Nat) /\ Len(t) = n + 1 /\ u \in Seq(Offsets) /\ Len(u) = Len(t)
      /\ PairsOf(t, u) = PairsOf(keys[node], offsets[node]) \cup {row}
  <2>1. t \in Seq(Nat) /\ Len(t) = n + 1
    <3> DEFINE s == keys[node]
    <3>1. s \in Seq(Nat) /\ i \in 1..(Len(s) + 1)
      BY <1>5
    <3> HIDE DEF s
    <3>2. InsertAt(s, i, call.key) \in Seq(Nat) /\ Len(InsertAt(s, i, call.key)) = Len(s) + 1
      BY <1>1, <3>1, NatInsertAt
    <3> QED BY <3>2 DEF s
  <2>2. Len(u) = Len(t) /\ PairsOf(t, u) = PairsOf(keys[node], offsets[node]) \cup {row}
    BY <1>1, <1>5, PairsAfterInsert
  <2>3. u \in Seq(Offsets)
    <3> DEFINE s == offsets[node]
    <3>1. s \in Seq(Offsets) /\ i \in 1..(Len(s) + 1)
      BY <1>5
    <3> HIDE DEF s
    <3>2. InsertAt(s, i, call.row_offset) \in Seq(Offsets)
      BY <1>1, <3>1, InsertAtProperties
    <3> QED BY <3>2 DEF s
  <2> QED BY <2>1, <2>2, <2>3
<1>7. h \in Nat /\ h <= n + 1
  <2>1. h = (n + 1) \div 2
    BY DEF Half
  <2> HIDE DEF h, n
  <2> QED BY <1>5, <2>1
<1> HIDE DEF h, t, u, n
<1>8. PairsOf(SubSeq(t, 1, h), SubSeq(u, 1, h))
         \cup PairsOf(SubSeq(t, h + 1, n + 1), SubSeq(u, h + 1, n + 1)) = PairsOf(t, u)
  BY <1>6, <1>7, PairsAfterCut
<1>9. /\ \A m \in {node} : keys'[m] = SubSeq(t, 1, h) /\ offsets'[m] = SubSeq(u, 1, h)
      /\ \A m \in {f} : /\ keys'[m] = SubSeq(t, h + 1, n + 1)
                        /\ offsets'[m] = SubSeq(u, h + 1, n + 1)
      /\ \A m \in Leaves \ {node} : keys'[m] = keys[m] /\ offsets'[m] = offsets[m]
  <2>1. /\ keys' = [keys EXCEPT ![node] = SubSeq(t, 1, h), ![f] = SubSeq(t, h + 1, n + 1)]
        /\ offsets' = [offsets EXCEPT ![node] = SubSeq(u, 1, h), ![f] = SubSeq(u, h + 1, n + 1)]
    BY <1>2 DEF t, u
  <2> HIDE DEF f
  <2> QED BY <1>1, <1>3, <1>4, <2>1
<1>10. \A m \in Leaves \ {node} : RowsOf(m)' = RowsOf(m)
  BY <1>9 DEF RowsOf
<1>11. \A m \in {node} : \A q \in {f} : RowsOf(m)' \cup RowsOf(q)' = RowsOf(m) \cup {row}
  <2>1. /\ \A m \in {node} : RowsOf(m)' = PairsOf(keys'[m], offsets'[m])
        /\ \A q \in {f} : RowsOf(q)' = PairsOf(keys'[q], offsets'[q])
        /\ RowsOf(node) = PairsOf(keys[node], offsets[node])
    BY <1>1, <1>3, RowsArePairs, NewRowsArePairs DEF LinkInv
  <2> QED BY <1>6, <1>8, <1>9, <2>1
<1> QED BY <1>4, <1>10, <1>11

\* So it stores that row and no other.
LEMMA SplitStoresRow ==
  ASSUME LinkInv, TypeInv', SplitLeaf
  PROVE  Rows' = Rows \cup {<<call.key, call.row_offset>>}
<1> DEFINE f == Fresh
           row == <<call.key, call.row_offset>>
<1>4. node \in Leaves /\ Leaves' = Leaves \cup {f} /\ f \notin Leaves
  BY SplitSharesRows
<1>10. \A m \in Leaves \ {node} : RowsOf(m)' = RowsOf(m)
  BY SplitSharesRows
<1>11. \A m \in {node} : \A q \in {f} : RowsOf(m)' \cup RowsOf(q)' = RowsOf(m) \cup {row}
  BY SplitSharesRows
<1> HIDE DEF row, f
<1>12. \A m \in Leaves' : RowsOf(m)' \subseteq Rows \cup {row}
  <2>1. \A m \in {node} : \A q \in {f} :
           RowsOf(m)' \subseteq Rows \cup {row} /\ RowsOf(q)' \subseteq Rows \cup {row}
    BY <1>4, <1>11 DEF Rows
  <2>2. \A m \in Leaves \ {node} : RowsOf(m)' \subseteq Rows
    BY <1>10 DEF Rows
  <2> QED BY <1>4, <2>1, <2>2
<1>13. \A m \in Leaves : RowsOf(m) \subseteq Rows'
  <2>1. \A m \in {node} : \A q \in {f} : RowsOf(m)' \subseteq Rows' /\ RowsOf(q)' \subseteq Rows'
    BY <1>4 DEF Rows
  <2>2. \A m \in {node} : RowsOf(m) \subseteq Rows'
    BY <1>11, <2>1
  <2>3. \A m \in Leaves \ {node} : RowsOf(m) \subseteq Rows'
    BY <1>4, <1>10 DEF Rows
  <2> QED BY <2>2, <2>3
<1>14. row \in Rows'
  <2>1. \A m \in {node} : \A q \in {f} : RowsOf(m)' \subseteq Rows' /\ RowsOf(q)' \subseteq Rows'
    BY <1>4 DEF Rows
  <2> QED BY <1>11, <2>1
<1>15. Rows' \subseteq Rows \cup {row} /\ Rows \subseteq Rows'
  BY <1>12, <1>13 DEF Rows
<1> QED BY <1>14, <1>15 DEF row

\* A search can come to every allocated node.
LEMMA AllPeopled ==
  ASSUME LinkInv, AllHang, pc # "destroy", NEW dom, Routes(dom)
  PROVE  \A n \in used : dom[n] # {}
<1> DEFINE T == {n \in Nodes : dom[n] # {}}
<1>1. Tops \subseteq T
  <2>1. ASSUME root # Null PROVE root \in T
    <3>1. root \in Nodes /\ Part(dom, root) = Nat /\ 0 \in Nat
      BY <2>1 DEF LinkInv, TypeInv, TypeOK, HeapTypeOK, Routes
    <3>2. pc = "parent" => dom[node] # {}
      BY DEF Routes, SeparatorFits
    <3> QED BY <3>1, <3>2 DEF Part
  <2>2. ASSUME pc = "parent" PROVE right \in T
    BY <2>2 DEF LinkInv, TypeInv, CallOK, Routes, SeparatorFits
  <2> QED BY <2>1, <2>2 DEF Tops
<1>2. \A m \in T : Kids(m) \subseteq T
  <2> SUFFICES ASSUME NEW m \in T, NEW c \in Kids(m) PROVE c \in T
    OBVIOUS
  <2>1. c \in Nodes
    BY KidsAreNodes DEF LinkInv
  <2>2. PICK i \in DOMAIN children[m] : c = children[m][i]
    BY DEF Kids, ToSet
  <2> QED BY <2>1, <2>2 DEF Routes, Peopled
<1>3. HoldsAll(T) /\ T \in SUBSET Nodes
  BY <1>1, <1>2 DEF HoldsAll
<1> QED BY <1>3 DEF AllHang

\* The leaves hold one row per key.
LEMMA RowsAreAMap ==
  ASSUME LinkInv, AllHang, pc # "destroy", NEW dom, Routes(dom)
  PROVE  /\ \A r, q \in Rows : r[1] = q[1] => r = q
         /\ \A r \in Rows : \E k \in Nat, o \in Offsets : r = <<k, o>>
<1>4. TypeInv /\ \A n \in Leaves : dom[n] # {}
  BY AllPeopled DEF LinkInv, Leaves
<1>1. ASSUME NEW r \in Rows
      PROVE  \E n \in Leaves : \E i \in 1..Len(keys[n]) :
                /\ r = <<keys[n][i], offsets[n][i]>> /\ r[1] = keys[n][i]
                /\ keys[n][i] \in Nat /\ offsets[n][i] \in Offsets /\ keys[n][i] \in dom[n]
  <2>1. PICK n \in Leaves : r \in RowsOf(n)
    BY DEF Rows
  <2>2. n \in Nodes /\ is_leaf[n]
    BY <1>4, AllLeaves
  <2>3. /\ keys[n] \in Seq(Nat) /\ offsets[n] \in Seq(Offsets)
        /\ DOMAIN keys[n] = 1..Len(keys[n]) /\ Len(offsets[n]) = Len(keys[n])
    BY <1>4, <2>2, KeysAreNumbers DEF TypeInv, TypeOK, HeapTypeOK, NodeShape
  <2>4. PICK i \in 1..Len(keys[n]) : r = <<keys[n][i], offsets[n][i]>>
    BY <2>1, <2>3 DEF RowsOf
  <2>5. offsets[n][i] \in Offsets /\ keys[n][i] \in Nat
    BY <2>3, NatSeq, ElementOfSeq
  <2>6. keys[n][i] \in dom[n]
    BY <1>4, <2>2, <2>3 DEF Routes, KeysAtHome, ToSet
  <2> QED BY <2>4, <2>5, <2>6
<1>2. ASSUME NEW r \in Rows, NEW q \in Rows, r[1] = q[1] PROVE r = q
  <2>1. PICK n \in Leaves : \E i \in 1..Len(keys[n]) :
           r = <<keys[n][i], offsets[n][i]>> /\ r[1] = keys[n][i] /\ keys[n][i] \in dom[n]
    BY <1>1
  <2>2. PICK m \in Leaves : \E j \in 1..Len(keys[m]) :
           q = <<keys[m][j], offsets[m][j]>> /\ q[1] = keys[m][j] /\ keys[m][j] \in dom[m]
    BY <1>1
  <2>6. PICK i \in 1..Len(keys[n]) :
           r = <<keys[n][i], offsets[n][i]>> /\ r[1] = keys[n][i] /\ keys[n][i] \in dom[n]
    BY <2>1
  <2>7. PICK j \in 1..Len(keys[m]) :
           q = <<keys[m][j], offsets[m][j]>> /\ q[1] = keys[m][j] /\ keys[m][j] \in dom[m]
    BY <2>2
  <2>3. n \in Nodes /\ is_leaf[n] /\ m \in Nodes /\ is_leaf[m]
    BY <1>4, AllLeaves
  <2>4. n = m
    BY <1>2, <2>3, <2>6, <2>7 DEF Routes, LeavesApart
  <2>5. i = j
    <3>1. /\ DOMAIN keys[n] = 1..Len(keys[n]) /\ Len(keys[n]) \in Nat
          /\ \A a \in 1..Len(keys[n]) : keys[n][a] \in Nat
      BY <1>4, <2>3, KeysAreNumbers, NatSeq
    <3>2. \A a, b \in 1..Len(keys[n]) : a < b => keys[n][a] < keys[n][b]
      BY <1>4, <2>3, <3>1 DEF Routes, KeysAtHome, Ascending
    <3>3. keys[n][i] = keys[n][j]
      BY <1>2, <2>4, <2>6, <2>7
    <3>4. j \in 1..Len(keys[n])
      BY <2>4
    <3>5. ~(i < j) /\ ~(j < i)
      BY <3>1, <3>2, <3>3, <3>4
    <3> QED BY <3>1, <3>4, <3>5
  <2> QED BY <2>4, <2>5, <2>6, <2>7
<1>3. \A r \in Rows : \E k \in Nat, o \in Offsets : r = <<k, o>>
  BY <1>1
<1> QED BY <1>2, <1>3

\* The leaf a search comes to has the row of its key, if there is one.
LEMMA RightLeaf ==
  ASSUME LinkInv, AllHang, NEW dom, Routes(dom), pc = "descend", is_leaf[node]
  PROVE  \A o : <<call.key, o>> \in Rows <=>
            \E i \in 1..Len(keys[node]) : keys[node][i] = call.key /\ offsets[node][i] = o
<1>1. node \in Nodes /\ node \in Leaves /\ call.key \in dom[node]
  BY AllLeaves DEF LinkInv, TypeInv, CallOK, Routes
<1>2. \A n \in Nodes : DOMAIN keys[n] = 1..Len(keys[n])
  BY KeysAreNumbers DEF LinkInv
<1>3. ASSUME NEW o, <<call.key, o>> \in Rows
      PROVE  \E i \in 1..Len(keys[node]) : keys[node][i] = call.key /\ offsets[node][i] = o
  <2>1. PICK n \in Leaves : <<call.key, o>> \in RowsOf(n)
    BY <1>3 DEF Rows
  <2>2. n \in Nodes /\ is_leaf[n]
    BY AllLeaves DEF LinkInv
  <2>3. PICK i \in 1..Len(keys[n]) : keys[n][i] = call.key /\ offsets[n][i] = o
    BY <1>2, <2>1, <2>2 DEF RowsOf
  <2>4. call.key \in dom[n]
    BY <1>2, <2>2, <2>3, AllPeopled DEF Routes, KeysAtHome, ToSet, Leaves
  <2>5. n = node
    BY <1>1, <2>2, <2>4 DEF Routes, LeavesApart
  <2> QED BY <2>3, <2>5
<1>4. ASSUME NEW o, NEW i \in 1..Len(keys[node]), keys[node][i] = call.key, offsets[node][i] = o
      PROVE  <<call.key, o>> \in Rows
  <2>1. <<call.key, o>> \in RowsOf(node)
    BY <1>1, <1>2, <1>4 DEF RowsOf
  <2> QED BY <1>1, <2>1 DEF Rows
<1> QED BY <1>3, <1>4

\* What an insertion stores was not there.
LEMMA NewKey ==
  ASSUME LinkInv, AllHang, NEW dom, Routes(dom), InsertIntoLeaf \/ SplitLeaf
  PROVE  \A r \in Rows : r[1] # call.key
<1>1. AtInsertLeaf /\ pc = "descend" /\ is_leaf[node] /\ node \in Nodes /\ call.key \in Nat
  BY KeysAssumption DEF InsertIntoLeaf, SplitLeaf, AtInsertLeaf, LinkInv, TypeInv, CallOK
<1>2. PICK i \in 1..(Len(keys[node]) + 1) :
         IsLeafSlot(keys[node], call.key, i) /\ ~Holds(keys[node], call.key, i)
  BY DEF InsertIntoLeaf, SplitLeaf
<1>3. keys[node] \in Seq(Nat) /\ Ascending(keys[node])
  BY <1>1, KeysAreNumbers, AllPeopled DEF LinkInv, Routes, KeysAtHome, TypeInv, NodeShape
<1>4. \A j \in 1..Len(keys[node]) : keys[node][j] # call.key
  BY <1>1, <1>2, <1>3, NotThere
<1> SUFFICES ASSUME NEW r \in Rows, r[1] = call.key PROVE FALSE
  OBVIOUS
<1>5. PICK k \in Nat, o \in Offsets : r = <<k, o>>
  BY <1>1, RowsAreAMap
<1>6. <<call.key, o>> \in Rows
  BY <1>5
<1> QED BY <1>1, <1>4, <1>6, RightLeaf

-----------------------------------------------------------------------------
(* The invariant.                                                           *)

Routed == NewRowStored /\ \E dom : Routes(dom)

\* The tree with no node.
Bare == TypeInv /\ used = {} /\ root = Null /\ pc = "idle"

LEMMA BareIsRouted == Bare => Routed
<1> SUFFICES ASSUME Bare PROVE Routed
  OBVIOUS
<1>1. \A n \in Nodes : keys[n] = <<>> /\ children[n] = <<>> /\ ~is_leaf[n]
  BY DEF Bare, TypeInv, NodeShape
<1>3. NewRowStored
  BY DEF NewRowStored, Bare
<1> PICK dom \in [Nodes -> SUBSET Nat] : \A n \in Nodes : dom[n] = {}
  <2>1. [n \in Nodes |-> {}] \in [Nodes -> SUBSET Nat]
    OBVIOUS
  <2> QED BY <2>1
<1>4. /\ Divided(dom) /\ Peopled(dom) /\ KeysAtHome(dom)
      /\ LeavesApart(dom) /\ LeavesInOrder(dom)
  <2>1. \A n \in Nodes : DOMAIN children[n] = {} /\ ToSet(keys[n]) = {}
    BY <1>1, NoKids DEF ToSet
  <2> QED BY <1>1, <2>1 DEF Divided, Peopled, KeysAtHome, LeavesApart, LeavesInOrder
<1>5. Routes(dom)
  BY <1>4 DEF Routes, Bare
<1> QED BY <1>3, <1>5 DEF Routed

LEMMA RouteInvInit == Init => RouteInv
<1> SUFFICES ASSUME Init PROVE RouteInv
  OBVIOUS
<1>1. LinkInv
  BY LinkInvInit
<1>2. AllHang
  BY DEF Init, AllHang
<1>3. Bare
  BY <1>1 DEF Init, Bare, LinkInv
<1>4. WholeInv
  BY WholeInvInit
<1> QED BY <1>1, <1>2, <1>3, <1>4, BareIsRouted DEF RouteInv, Routed

LEMMA RouteInvStep ==
  ASSUME RouteInv, MaxFailures = 0, CanAllocate, [Next]_vars
  PROVE  RouteInv'
<1> USE DEF RouteInv
<1>0. ~OutOfMemory
  BY MemoryLasts DEF LinkInv
<1>1. LinkInv' /\ TypeInv'
  BY LinkInvStep DEF LinkInv
<1>2. AllHang'
  BY AllHangStep
<1>20. WholeInv'
  BY <1>1, WholeInvStep DEF RouteInv
<1> SUFFICES ASSUME pc' # "destroy" PROVE Routed'
  BY <1>1, <1>2, <1>20 DEF Routed
<1>3. ASSUME UNCHANGED <<used, keys, children, next, root, is_leaf>>, pc # "destroy", pc # "parent",
             pc' # "parent",
             pc' = "descend" => \A dom : Routes(dom) => call'.key \in dom[node']
      PROVE  Routed'
  <2>1. PICK dom : Routes(dom)
    BY <1>3
  <2>2. Routes(dom)'
    BY <1>3, <2>1, RoutesStay
  <2>3. NewRowStored'
    BY <1>3 DEF NewRowStored
  <2> QED BY <2>2, <2>3 DEF Routed
<1>4. ASSUME NEW k \in Keys, NEW o \in Offsets, InsertFirst(k, o) PROVE Routed'
  <2>1. pc = "idle" /\ pc' = "idle"
    BY <1>4 DEF InsertFirst, Return
  <2>2. \E dom : Routes(dom)'
    BY <1>4, <2>1, FirstKeepsRoutes DEF WholeInv
  <2> QED BY <2>1, <2>2 DEF Routed, NewRowStored
<1>5. ASSUME NEW k \in Keys, CallSearch(k) \/ \E o \in Offsets : CallInsert(k, o) PROVE Routed'
  <2>1. /\ UNCHANGED <<used, keys, children, next, root, is_leaf>> /\ pc = "idle" /\ pc' = "descend"
        /\ node' = root /\ call'.key = k /\ root # Null
    BY <1>5 DEF CallInsert, CallSearch, heap, tree
  <2>2. \A dom : Routes(dom) => call'.key \in dom[node']
    BY <2>1, KeysAssumption DEF Routes, Part
  <2> QED BY <2>1, <2>2, <1>3
<1>6. ASSUME NEW k \in Keys, InsertFirstOutOfMemory(k) PROVE Routed'
  BY <1>0, <1>6 DEF InsertFirstOutOfMemory
<1>7. ASSUME (\E k \in Keys : SearchEmpty(k)) \/ DestroyEmpty PROVE Routed'
  <2>1. UNCHANGED <<used, keys, children, next, root, is_leaf>> /\ pc = "idle" /\ pc' = "idle"
    BY <1>7 DEF SearchEmpty, DestroyEmpty, Return, heap, tree
  <2> QED BY <2>1, <1>3
<1>8. CASE CallDestroy \/ DestroyNode
  BY <1>8 DEF CallDestroy, DestroyNode
<1>9. CASE Descend
  <2>1. PICK dom : Routes(dom)
    BY <1>9 DEF Descend
  <2>2. Routes(dom)'
    BY <1>9, <2>1, DescendKeepsRoutes
  <2>3. NewRowStored'
    BY <1>9 DEF NewRowStored, Descend, heap
  <2> QED BY <2>2, <2>3 DEF Routed
<1>10. CASE SearchLeaf \/ InsertDuplicate
  <2>1. UNCHANGED <<used, keys, children, next, root, is_leaf>> /\ pc = "descend" /\ pc' = "idle"
    BY <1>10 DEF SearchLeaf, InsertDuplicate, InsertFails, AtInsertLeaf, Return, heap, tree
  <2> QED BY <2>1, <1>3
<1>11. CASE InsertIntoLeaf
  <2>1. pc = "descend" /\ pc' = "idle"
    BY <1>11 DEF InsertIntoLeaf, AtInsertLeaf, Return
  <2>2. PICK dom : Routes(dom)
    BY <2>1
  <2>3. Routes(dom)'
    BY <1>11, <2>1, <2>2, LeafKeepsRoutes
  <2> QED BY <2>1, <2>3 DEF Routed, NewRowStored
<1>12. CASE SplitLeaf
  <2>1. pc = "descend" /\ pc' = "parent" /\ UNCHANGED call
    BY <1>12 DEF SplitLeaf, AtInsertLeaf
  <2>2. \E dom : Routes(dom)'
    BY <1>12, <2>1, SplitLeafKeepsRoutes
  <2>3. Rows' = Rows \cup {<<call.key, call.row_offset>>}
    BY <1>1, <1>12, SplitStoresRow
  <2> QED BY <2>1, <2>2, <2>3 DEF Routed, NewRowStored
<1>13. CASE SplitLeafOutOfMemory
  BY <1>0, <1>13 DEF SplitLeafOutOfMemory
<1>14. CASE NewRoot
  <2>1. pc = "parent" /\ pc' = "idle"
    BY <1>14 DEF NewRoot, InsertSucceeds, Return
  <2>2. \E dom : Routes(dom)'
    BY <1>14, <2>1, NewRootKeepsRoutes
  <2> QED BY <2>1, <2>2 DEF Routed, NewRowStored
<1>15. CASE InsertIntoInternalNode
  <2>1. pc = "parent" /\ pc' = "idle"
    BY <1>15 DEF InsertIntoInternalNode, InsertSucceeds, Return
  <2>2. PICK dom : Routes(dom)
    BY <2>1
  <2>3. Routes(dom)'
    BY <1>15, <2>1, <2>2, InternalKeepsRoutes
  <2> QED BY <2>1, <2>3 DEF Routed, NewRowStored
<1>16. CASE SplitInternal
  <2>1. pc = "parent" /\ pc' = "parent" /\ UNCHANGED call
    BY <1>16 DEF SplitInternal
  <2>2. \E dom : Routes(dom)'
    BY <1>16, <2>1, SplitInternalKeepsRoutes
  <2>3. Rows' = Rows
    BY <1>1, <1>16, ParentKeepsRows
  <2> QED BY <2>1, <2>2, <2>3 DEF Routed, NewRowStored
<1>17. CASE InsertIntoParentFails
  BY <1>17, NoParentFailure
<1>18. CASE DestroyReturns
  <2>1. /\ UNCHANGED used /\ root' = Null /\ doomed = {} /\ pc = "destroy" /\ pc' = "idle"
    BY <1>18 DEF DestroyReturns, heap
  <2>2. Tops = {} /\ HoldsAll({})
    BY <2>1 DEF Tops, HoldsAll
  <2>3. used = {}
    BY <2>2 DEF AllHang
  <2>4. Bare'
    BY <1>1, <2>1, <2>3 DEF Bare
  <2>5. Bare' => Routed'
    BY BareIsRouted, PTL
  <2> QED BY <2>4, <2>5
<1>19. CASE UNCHANGED vars
  <2>1. /\ UNCHANGED <<used, is_leaf, keys, offsets, children, next, root, pc, call, node, separator,
                       right>>
    BY <1>19 DEF vars, heap, tree, frame
  <2>2. PICK dom : Routes(dom)
    BY <2>1
  <2>3. Routes(dom)'
    BY <2>1, <2>2 DEF Routes, Divided, Peopled, KeysAtHome, LeavesApart, LeavesInOrder,
                      SeparatorFits, Part
  <2>4. NewRowStored'
    BY <2>1 DEF NewRowStored, Rows, RowsOf, Leaves
  <2> QED BY <2>3, <2>4 DEF Routed
<1> QED BY <1>4, <1>5, <1>6, <1>7, <1>8, <1>9, <1>10, <1>11, <1>12, <1>13, <1>14, <1>15, <1>16,
           <1>17, <1>18, <1>19 DEF Next, Call, Step

\* While calloc never fails: the keys divide among the nodes, in order, every allocated node
\* hangs in the tree, and a split has stored the row of its call (bptree.c as a whole).
THEOREM RoutesInvariant ==
  ASSUME MaxFailures = 0
  PROVE  Spec /\ []CanAllocate => []RouteInv
<1>1. RouteInv /\ CanAllocate /\ [Next]_vars => RouteInv'
  BY RouteInvStep
<1> QED BY <1>1, RouteInvInit, PTL DEF Spec

\* NothingLeaks, while calloc never fails: bptree_destroy leaves no node behind.
THEOREM DestroyFreesAll ==
  ASSUME MaxFailures = 0
  PROVE  Spec /\ []CanAllocate => []NothingLeaks
<1>1. RouteInv => NothingLeaks
  <2> SUFFICES ASSUME RouteInv, pc = "idle", root = Null PROVE used = {}
    BY DEF NothingLeaks
  <2>1. Tops = {} /\ HoldsAll({})
    BY DEF Tops, HoldsAll
  <2> QED BY <2>1 DEF RouteInv, AllHang
<1> QED BY <1>1, RoutesInvariant, PTL

-----------------------------------------------------------------------------
(* The tree as the map of IndexMap.                                         *)

KeysOf(R) == {row[1] : row \in R}
MapOf(D, R) == [k \in D |-> (CHOOSE row \in R : row[1] = k)[2]]
OnePerKey(R) == \A r, q \in R : r[1] = q[1] => r = q

LEMMA ContentsAsMap ==
  /\ pc # "destroy" => Contents = MapOf(KeysOf(Rows) \ Pending, Rows)
  /\ pc = "destroy" => Contents = Promise!NoRows
<1>1. pc # "destroy" => Contents = MapOf(KeysOf(Rows) \ Pending, Rows)
  BY DEF Contents, MapOf, KeysOf
<1>2. pc = "destroy" => Contents = Promise!NoRows
  BY DEF Contents, Promise!NoRows
<1> QED BY <1>1, <1>2

LEMMA MapValue ==
  ASSUME NEW R, OnePerKey(R), NEW k, NEW o, <<k, o>> \in R, NEW D, k \in D
  PROVE  MapOf(D, R)[k] = o
<1> DEFINE found == CHOOSE row \in R : row[1] = k
<1>1. \A row \in R : row[1] = k => row = <<k, o>>
  BY DEF OnePerKey
<1>2. found = <<k, o>>
  BY <1>1
<1>3. MapOf(D, R)[k] = found[2]
  BY DEF MapOf
<1> HIDE DEF found
<1> QED BY <1>2, <1>3

\* A new row whose key does not count yet changes nothing ...
LEMMA PendingRow ==
  ASSUME NEW R, OnePerKey(R), \A r \in R : \E a, b : r = <<a, b>>,
         NEW k, NEW o, \A r \in R : r[1] # k
  PROVE  /\ OnePerKey(R \cup {<<k, o>>})
         /\ MapOf(KeysOf(R \cup {<<k, o>>}) \ {k}, R \cup {<<k, o>>}) = MapOf(KeysOf(R), R)
<1> DEFINE Q == R \cup {<<k, o>>}
<1>1. OnePerKey(Q)
  BY DEF OnePerKey
<1>2. KeysOf(Q) \ {k} = KeysOf(R)
  BY DEF KeysOf
<1>3. ASSUME NEW x \in KeysOf(R) PROVE MapOf(KeysOf(R), Q)[x] = MapOf(KeysOf(R), R)[x]
  <2>1. PICK y : <<x, y>> \in R
    BY <1>3 DEF KeysOf
  <2>2. MapOf(KeysOf(R), R)[x] = y
    BY <2>1, MapValue
  <2>3. MapOf(KeysOf(R), Q)[x] = y
    BY <1>1, <2>1, MapValue
  <2> QED BY <2>2, <2>3
<1> HIDE DEF Q
<1>4. MapOf(KeysOf(R), Q) = MapOf(KeysOf(R), R)
  BY <1>3 DEF MapOf
<1> QED BY <1>1, <1>2, <1>4 DEF Q

\* ... and counts for its key when the call has succeeded.
LEMMA CountedRow ==
  ASSUME NEW R, OnePerKey(R), \A r \in R : \E a, b : r = <<a, b>>,
         NEW k, NEW o, <<k, o>> \in R
  PROVE  MapOf(KeysOf(R), R) =
            [x \in DOMAIN MapOf(KeysOf(R) \ {k}, R) \cup {k} |->
                IF x = k THEN o ELSE MapOf(KeysOf(R) \ {k}, R)[x]]
<1>1. DOMAIN MapOf(KeysOf(R) \ {k}, R) \cup {k} = KeysOf(R)
  BY DEF MapOf, KeysOf
<1>2. MapOf(KeysOf(R), R)[k] = o
  BY <1>1, MapValue
<1>3. \A x \in KeysOf(R) \ {k} : MapOf(KeysOf(R), R)[x] = MapOf(KeysOf(R) \ {k}, R)[x]
  BY DEF MapOf
<1> QED BY <1>1, <1>2, <1>3 DEF MapOf

\* What RouteInv says of the rows while the tree is not being destroyed.
LEMMA RoutedRows ==
  ASSUME RouteInv, pc # "destroy"
  PROVE  OnePerKey(Rows) /\ \A r \in Rows : \E k \in Nat, o \in Offsets : r = <<k, o>>
<1>1. PICK dom : Routes(dom)
  BY DEF RouteInv
<1> QED BY <1>1, RowsAreAMap DEF RouteInv, LinkInv, OnePerKey

\* A tree without a root has no rows.
LEMMA NoRootNoRows ==
  ASSUME RouteInv, pc = "idle", root = Null
  PROVE  Rows = {} /\ Contents = Promise!NoRows
<1>1. Tops = {} /\ HoldsAll({})
  BY DEF Tops, HoldsAll
<1>2. used = {}
  BY <1>1 DEF RouteInv, AllHang
<1>3. Rows = {}
  BY <1>2 DEF Rows, Leaves
<1> QED BY <1>3 DEF Contents, Promise!NoRows, Pending

\* The map of the tree depends on the leaves and on the row that does not count yet.
LEMMA SameContents ==
  ASSUME UNCHANGED <<is_leaf, used, keys, offsets>>, pc # "destroy", pc' # "destroy",
         Pending' = Pending
  PROVE  Contents' = Contents
<1>1. Rows' = Rows
  BY DEF Rows, RowsOf, Leaves
<1> QED BY <1>1 DEF Contents

\* A call that ends in insert_into_parent stores the row of its split.
LEMMA ParentInserts ==
  ASSUME RouteInv, pc = "parent", pc' = "idle", Rows' = Rows, InsertSucceeds
  PROVE  Promise!Next
<1> DEFINE k == call.key
           o == call.row_offset
<1>1. OnePerKey(Rows) /\ \A r \in Rows : \E a \in Nat, b \in Offsets : r = <<a, b>>
  BY RoutedRows
<1>2. <<k, o>> \in Rows /\ k \in Keys
  BY DEF RouteInv, NewRowStored, LinkInv, TypeInv, CallOK
<1>3. o \in Offsets
  BY <1>1, <1>2
<1>4. Contents = MapOf(KeysOf(Rows) \ {k}, Rows) /\ Contents' = MapOf(KeysOf(Rows), Rows)
  BY DEF Contents, MapOf, KeysOf, Pending
<1>5. Contents' = [x \in DOMAIN Contents \cup {k} |-> IF x = k THEN o ELSE Contents[x]]
  <2>1. \A r \in Rows : \E a, b : r = <<a, b>>
    BY <1>1
  <2> HIDE DEF k, o
  <2> QED BY <1>1, <1>2, <1>4, <2>1, CountedRow
<1>6. k \notin DOMAIN Contents
  BY <1>4 DEF MapOf
<1>7. result' = Promise!Result("insert", k, "OK", Null)
  BY DEF InsertSucceeds, Return, Promise!Result
<1>8. Promise!Insert(k, o)
  BY <1>5, <1>6, <1>7 DEF Promise!Insert
<1> QED BY <1>2, <1>3, <1>8 DEF Promise!Next

\* A search answers from the map.
LEMMA SearchIsPromised ==
  ASSUME RouteInv, SearchLeaf
  PROVE  Promise!Next
<1>1. /\ UNCHANGED <<is_leaf, used, keys, offsets>> /\ pc = "descend" /\ pc' = "idle"
      /\ is_leaf[node] /\ LinkInv /\ node \in Nodes
  BY DEF SearchLeaf, Return, heap, RouteInv, LinkInv, TypeInv, CallOK
<1> DEFINE k == call.key
<1>2. k \in Keys /\ Contents' = Contents
  BY <1>1, SameContents DEF RouteInv, LinkInv, TypeInv, CallOK, Pending
<1>3. Contents = MapOf(KeysOf(Rows), Rows)
  BY <1>1 DEF Contents, MapOf, KeysOf, Pending
<1>4. OnePerKey(Rows) /\ \A r \in Rows : \E a \in Nat, b \in Offsets : r = <<a, b>>
  BY <1>1, RoutedRows
<1>5. PICK dom : Routes(dom)
  BY <1>1 DEF RouteInv
<1>6. \A o : <<k, o>> \in Rows <=>
         \E i \in 1..Len(keys[node]) : keys[node][i] = k /\ offsets[node][i] = o
  BY <1>1, <1>5, RightLeaf DEF RouteInv
<1>7. CASE \E i \in 1..Len(keys[node]) : keys[node][i] = k
                /\ result' = Promise!Result("search", k, "OK", offsets[node][i])
  <2>1. PICK i \in 1..Len(keys[node]) : keys[node][i] = k
                /\ result' = Promise!Result("search", k, "OK", offsets[node][i])
    BY <1>7
  <2> DEFINE o == offsets[node][i]
  <2>2. <<k, o>> \in Rows
    BY <1>6, <2>1
  <2>3. o \in Offsets
    BY <1>4, <2>2
  <2>4. k \in DOMAIN Contents /\ Contents[k] = o
    <3>1. k \in KeysOf(Rows)
      BY <2>2 DEF KeysOf
    <3>2. MapOf(KeysOf(Rows), Rows)[k] = o
      BY <1>4, <2>2, <3>1, MapValue
    <3> QED BY <1>3, <3>1, <3>2 DEF MapOf
  <2>5. Promise!Search(k)
    BY <1>2, <2>1, <2>3, <2>4 DEF Promise!Search
  <2> QED BY <1>2, <2>5 DEF Promise!Next
<1>8. CASE /\ \A i \in 1..Len(keys[node]) : keys[node][i] # k
           /\ result' = Promise!Result("search", k, "OK", Null)
  <2>1. k \notin KeysOf(Rows)
    <3> SUFFICES ASSUME NEW r \in Rows, r[1] = k PROVE FALSE
      BY DEF KeysOf
    <3>1. PICK o : r = <<k, o>>
      BY <1>4
    <3> QED BY <1>6, <1>8, <3>1
  <2>2. k \notin DOMAIN Contents
    BY <1>3, <2>1 DEF MapOf
  <2>3. Promise!Search(k)
    BY <1>2, <1>8, <2>2 DEF Promise!Search
  <2> QED BY <1>2, <2>3 DEF Promise!Next
<1> QED BY <1>7, <1>8 DEF SearchLeaf, Return, Promise!Result

\* A refused key is in the map.
LEMMA DuplicateIsPromised ==
  ASSUME RouteInv, InsertDuplicate
  PROVE  Promise!Next
<1> DEFINE k == call.key
<1>1. /\ UNCHANGED <<is_leaf, used, keys, offsets>> /\ pc = "descend" /\ pc' = "idle"
      /\ is_leaf[node] /\ LinkInv
      /\ result' = Promise!Result("insert", k, "INDEX_ERROR", Null)
  BY DEF InsertDuplicate, InsertFails, AtInsertLeaf, Return, heap, RouteInv, Promise!Result
<1>2. k \in Keys /\ Contents' = Contents
  BY <1>1, SameContents DEF LinkInv, TypeInv, CallOK, Pending
<1>3. PICK i \in 1..Len(keys[node]) : keys[node][i] = k
  BY DEF InsertDuplicate, Holds
<1>4. PICK dom : Routes(dom)
  BY <1>1 DEF RouteInv
<1>5. <<k, offsets[node][i]>> \in Rows
  BY <1>1, <1>3, <1>4, RightLeaf DEF RouteInv
<1>6. k \in DOMAIN Contents
  BY <1>1, <1>5 DEF Contents, Pending
<1>7. Promise!Refuse(k)
  BY <1>1, <1>2, <1>6 DEF Promise!Refuse
<1> QED BY <1>2, <1>7 DEF Promise!Next

\* What the two ways of storing a row in a leaf have in common.
LEMMA StoredRow ==
  ASSUME RouteInv, TypeInv', InsertIntoLeaf \/ SplitLeaf
  PROVE  LET R == Rows \cup {<<call.key, call.row_offset>>}
         IN /\ Rows' = R /\ OnePerKey(R) /\ \A r \in R : \E a, b : r = <<a, b>>
            /\ call.key \in Keys /\ call.row_offset \in Offsets
            /\ MapOf(KeysOf(R) \ {call.key}, R) = Contents
            /\ call.key \notin DOMAIN Contents
<1>1. pc = "descend" /\ LinkInv /\ call.op = "insert"
  BY DEF InsertIntoLeaf, SplitLeaf, AtInsertLeaf, RouteInv
<1>2. call.key \in Keys /\ call.row_offset \in Offsets
  BY <1>1 DEF LinkInv, TypeInv, CallOK
<1> DEFINE k == call.key
           o == call.row_offset
           R == Rows \cup {<<k, o>>}
<1>3. Rows' = R
  BY <1>1, LeafStoresRow, SplitStoresRow
<1>4. OnePerKey(Rows) /\ \A r \in Rows : \E a, b : r = <<a, b>>
  BY <1>1, RoutedRows
<1>5. \A r \in Rows : r[1] # k
  <2>1. PICK dom : Routes(dom)
    BY <1>1 DEF RouteInv
  <2> QED BY <1>1, <2>1, NewKey DEF RouteInv
<1>6. Contents = MapOf(KeysOf(Rows), Rows)
  BY <1>1 DEF Contents, MapOf, KeysOf, Pending
<1> HIDE DEF k, o
<1>7. OnePerKey(R) /\ MapOf(KeysOf(R) \ {k}, R) = Contents
  BY <1>4, <1>5, <1>6, PendingRow
<1>8. k \notin DOMAIN Contents
  BY <1>5, <1>6 DEF MapOf, KeysOf
<1>9. \A r \in R : \E a, b : r = <<a, b>>
  BY <1>4
<1> QED BY <1>2, <1>3, <1>7, <1>8, <1>9 DEF k, o

LEMMA LeafInserts ==
  ASSUME RouteInv, TypeInv', InsertIntoLeaf
  PROVE  Promise!Next
<1> DEFINE k == call.key
           o == call.row_offset
           R == Rows \cup {<<k, o>>}
<1>1. /\ Rows' = R /\ OnePerKey(R) /\ \A r \in R : \E a, b : r = <<a, b>>
      /\ k \in Keys /\ o \in Offsets
      /\ MapOf(KeysOf(R) \ {k}, R) = Contents /\ k \notin DOMAIN Contents
  BY StoredRow
<1>2. pc' = "idle" /\ result' = Promise!Result("insert", k, "OK", Null)
  BY DEF InsertIntoLeaf, Return, Promise!Result
<1>3. Contents' = MapOf(KeysOf(R), R)
  BY <1>1, <1>2 DEF Contents, MapOf, KeysOf, Pending
<1>4. <<k, o>> \in R
  OBVIOUS
<1> HIDE DEF R, k, o
<1>5. Contents' = [x \in DOMAIN Contents \cup {k} |-> IF x = k THEN o ELSE Contents[x]]
  BY <1>1, <1>3, <1>4, CountedRow, SMTT(30)
<1>6. Promise!Insert(k, o)
  BY <1>1, <1>2, <1>5 DEF Promise!Insert
<1> QED BY <1>1, <1>6 DEF Promise!Next

\* The split of a leaf does not show until insert_into_parent succeeds.
LEMMA SplitIsSilent ==
  ASSUME RouteInv, TypeInv', SplitLeaf
  PROVE  UNCHANGED result /\ Contents' = Contents
<1> DEFINE k == call.key
           R == Rows \cup {<<k, call.row_offset>>}
<1>1. Rows' = R /\ MapOf(KeysOf(R) \ {k}, R) = Contents
  BY StoredRow
<1>2. pc' = "parent" /\ UNCHANGED <<result, call>>
  BY DEF SplitLeaf
<1>3. Pending' = {k}
  BY <1>2 DEF Pending
<1> HIDE DEF R, k
<1>4. Contents' = MapOf(KeysOf(R) \ {k}, R)
  BY <1>1, <1>2, <1>3 DEF Contents, MapOf, KeysOf
<1> QED BY <1>1, <1>2, <1>4

\* Every step of the code is a step of the map, or none.
LEMMA MapStep ==
  ASSUME RouteInv, RouteInv', MaxFailures = 0, CanAllocate, [Next]_vars
  PROVE  [Promise!Next]_(Promise!vars)
<1>0. ~OutOfMemory /\ LinkInv /\ TypeInv'
  BY MemoryLasts DEF RouteInv, LinkInv
<1>1. ASSUME UNCHANGED result, Contents' = Contents PROVE [Promise!Next]_(Promise!vars)
  BY <1>1 DEF Promise!vars
<1>2. ASSUME NEW k \in Keys, NEW o \in Offsets, InsertFirst(k, o) PROVE Promise!Next
  <2>1. /\ keys' = [keys EXCEPT ![Fresh] = <<k>>] /\ offsets' = [offsets EXCEPT ![Fresh] = <<o>>]
        /\ is_leaf' = [is_leaf EXCEPT ![Fresh] = TRUE] /\ used' = used \cup {Fresh}
        /\ pc = "idle" /\ pc' = "idle" /\ root = Null /\ CanAllocate
        /\ result' = Promise!Result("insert", k, "OK", Null)
    BY <1>2 DEF InsertFirst, Return, Promise!Result
  <2>2. Contents = Promise!NoRows
    BY <2>1, NoRootNoRows
  <2>3. used = {} /\ Fresh \in Nodes /\ keys \in [Nodes -> Seq(Keys)]
        /\ offsets \in [Nodes -> Seq(Offsets)] /\ is_leaf \in [Nodes -> BOOLEAN]
    <3>1. Tops = {} /\ HoldsAll({})
      BY <2>1 DEF Tops, HoldsAll
    <3> QED BY <1>0, <2>1, <3>1, FreshIsNew DEF RouteInv, AllHang, LinkInv, TypeInv, TypeOK, HeapTypeOK
  <2>4. Leaves' = {Fresh}
    BY <2>1, <2>3 DEF Leaves
  <2>5. \A n \in {Fresh} : RowsOf(n)' = {<<k, o>>}
    <3>1. \A n \in {Fresh} : keys'[n] = <<k>> /\ offsets'[n] = <<o>>
      BY <2>1, <2>3
    <3>2. DOMAIN <<k>> = {1} /\ <<k>>[1] = k /\ <<o>>[1] = o
      OBVIOUS
    <3> QED BY <3>1, <3>2 DEF RowsOf
  <2>6. Rows' = {<<k, o>>}
    BY <2>4, <2>5 DEF Rows
  <2> DEFINE R == {<<k, o>>}
  <2>7. OnePerKey(R) /\ \A r \in R : \E a, b : r = <<a, b>>
    BY DEF OnePerKey
  <2>8. Contents' = MapOf(KeysOf(R), R)
    BY <2>1, <2>6 DEF Contents, MapOf, KeysOf, Pending
  <2>9. DOMAIN Contents = {} /\ KeysOf(R) = {k}
    BY <2>2 DEF Promise!NoRows, KeysOf
  <2>10. MapOf(KeysOf(R), R)[k] = o
    <3>1. <<k, o>> \in R /\ k \in KeysOf(R)
      BY <2>9
    <3> HIDE DEF R
    <3> QED BY <2>7, <3>1, MapValue
  <2>11. Contents' = [x \in DOMAIN Contents \cup {k} |-> IF x = k THEN o ELSE Contents[x]]
    BY <2>8, <2>9, <2>10 DEF MapOf
  <2>12. Promise!Insert(k, o)
    BY <2>1, <2>9, <2>11 DEF Promise!Insert
  <2> QED BY <2>12 DEF Promise!Next
<1>3. ASSUME NEW k \in Keys, InsertFirstOutOfMemory(k) PROVE FALSE
  BY <1>0, <1>3 DEF InsertFirstOutOfMemory
<1>4. ASSUME NEW k \in Keys, CallSearch(k) \/ \E o \in Offsets : CallInsert(k, o)
      PROVE  [Promise!Next]_(Promise!vars)
  <2>1. /\ UNCHANGED <<is_leaf, used, keys, offsets, result>> /\ pc = "idle" /\ pc' = "descend"
    BY <1>4 DEF CallSearch, CallInsert, heap
  <2>2. Contents' = Contents
    BY <2>1, SameContents DEF Pending
  <2> QED BY <1>1, <2>1, <2>2
<1>5. ASSUME NEW k \in Keys, SearchEmpty(k) PROVE Promise!Next
  <2>1. /\ UNCHANGED <<is_leaf, used, keys, offsets>> /\ pc = "idle" /\ pc' = "idle" /\ root = Null
        /\ result' = Promise!Result("search", k, "OK", Null)
    BY <1>5 DEF SearchEmpty, Return, heap, Promise!Result
  <2>2. Contents' = Contents /\ Contents = Promise!NoRows
    BY <2>1, SameContents, NoRootNoRows DEF Pending
  <2>3. DOMAIN Contents = {}
    BY <2>2 DEF Promise!NoRows
  <2>4. Promise!Search(k)
    BY <2>1, <2>2, <2>3 DEF Promise!Search
  <2> QED BY <2>4 DEF Promise!Next
<1>6. CASE DestroyEmpty
  <2>1. /\ UNCHANGED <<is_leaf, used, keys, offsets>> /\ pc = "idle" /\ pc' = "idle" /\ root = Null
        /\ result' = Promise!Result("destroy", 0, "OK", Null)
    BY <1>6 DEF DestroyEmpty, Return, heap, Promise!Result
  <2>2. Contents' = Promise!NoRows
    BY <2>1, SameContents, NoRootNoRows DEF Pending
  <2>3. Promise!Destroy
    BY <2>1, <2>2 DEF Promise!Destroy
  <2> QED BY <2>3 DEF Promise!Next
<1>7. CASE CallDestroy
  <2>1. pc' = "destroy" /\ result' = Promise!Result("destroy", 0, "OK", Null)
    BY <1>7 DEF CallDestroy, Promise!Result
  <2>2. Contents' = Promise!NoRows
    BY <2>1 DEF Contents, Promise!NoRows
  <2>3. Promise!Destroy
    BY <2>1, <2>2 DEF Promise!Destroy
  <2> QED BY <2>3 DEF Promise!Next
<1>8. CASE Descend
  <2>1. UNCHANGED <<is_leaf, used, keys, offsets, result, pc>> /\ pc = "descend"
    BY <1>8 DEF Descend, heap
  <2>2. Contents' = Contents
    BY <2>1, SameContents DEF Pending
  <2> QED BY <1>1, <2>1, <2>2
<1>9. CASE SearchLeaf
  BY <1>9, SearchIsPromised
<1>10. CASE InsertDuplicate
  BY <1>10, DuplicateIsPromised
<1>11. CASE InsertIntoLeaf
  BY <1>0, <1>11, LeafInserts
<1>12. CASE SplitLeaf
  BY <1>0, <1>1, <1>12, SplitIsSilent
<1>13. CASE SplitLeafOutOfMemory
  BY <1>0, <1>13 DEF SplitLeafOutOfMemory
<1>14. CASE NewRoot \/ InsertIntoInternalNode
  <2>1. pc = "parent" /\ pc' = "idle" /\ InsertSucceeds
    BY <1>14 DEF NewRoot, InsertIntoInternalNode, InsertSucceeds, Return
  <2>2. Rows' = Rows
    BY <1>0, <1>14, ParentKeepsRows
  <2> QED BY <2>1, <2>2, ParentInserts
<1>15. CASE SplitInternal
  <2>1. pc = "parent" /\ pc' = "parent" /\ UNCHANGED <<call, result>>
    BY <1>15 DEF SplitInternal
  <2>2. Rows' = Rows
    BY <1>0, <1>15, ParentKeepsRows
  <2>3. Contents' = Contents
    BY <2>1, <2>2 DEF Contents, Pending
  <2> QED BY <1>1, <2>1, <2>3
<1>16. CASE InsertIntoParentFails
  BY <1>0, <1>16, NoParentFailure
<1>17. CASE DestroyNode
  <2>1. pc = "destroy" /\ pc' = "destroy" /\ UNCHANGED result
    BY <1>17 DEF DestroyNode
  <2>2. Contents' = Contents
    BY <2>1 DEF Contents
  <2> QED BY <1>1, <2>1, <2>2
<1>18. CASE DestroyReturns
  <2>1. pc = "destroy" /\ UNCHANGED <<result, used>> /\ doomed = {} /\ pc' = "idle"
    BY <1>18 DEF DestroyReturns, heap
  <2>2. Tops = {} /\ HoldsAll({})
    BY <2>1 DEF Tops, HoldsAll
  <2>3. used' = {}
    BY <2>1, <2>2 DEF RouteInv, AllHang
  <2>4. Contents' = Contents
    <3>1. Rows' = {}
      BY <2>3 DEF Rows, Leaves
    <3> QED BY <2>1, <3>1 DEF Contents, Pending
  <2> QED BY <1>1, <2>1, <2>4
<1>19. CASE UNCHANGED vars
  <2>1. UNCHANGED <<is_leaf, used, keys, offsets, result, pc, call>>
    BY <1>19 DEF vars, heap, frame
  <2>2. Contents' = Contents
    BY <2>1 DEF Contents, Pending, Rows, RowsOf, Leaves
  <2> QED BY <1>1, <2>1, <2>2
<1> QED BY <1>2, <1>3, <1>4, <1>5, <1>6, <1>7, <1>8, <1>9, <1>10, <1>11, <1>12, <1>13, <1>14,
           <1>15, <1>16, <1>17, <1>18, <1>19 DEF Next, Call, Step

\* ImplementsIndexMap, while calloc never fails: bptree_insert, bptree_search and
\* bptree_destroy are the calls of a map from ids to row offsets, whatever order the ids
\* come in and however the nodes split.
THEOREM TreeIsTheMap ==
  ASSUME MaxFailures = 0
  PROVE  Spec /\ []CanAllocate => ImplementsIndexMap
<1>1. Init => Promise!Init
  <2> SUFFICES ASSUME Init PROVE Promise!Init
    OBVIOUS
  <2>1. RouteInv
    BY RouteInvInit
  <2>2. Contents = Promise!NoRows
    BY <2>1, NoRootNoRows DEF Init
  <2> QED BY <2>2 DEF Init, NoResult, Promise!Init, Promise!Result
<1>2. RouteInv /\ RouteInv' /\ CanAllocate /\ [Next]_vars => [Promise!Next]_(Promise!vars)
  BY MapStep
<1> QED BY <1>1, <1>2, RoutesInvariant, PTL DEF Spec, ImplementsIndexMap, Promise!Spec

-----------------------------------------------------------------------------
(* How high a node stands over the leaves, and how far it is from the end  *)
(* of the chain: what the functions that follow the pointers recur on.     *)

\* lvl counts the levels below every node, also below those a failed split has lost.
Leveled(lvl) ==
    /\ \A n \in Nodes : is_leaf[n] => lvl[n] = 0
    /\ \A m \in Nodes : \A c \in Kids(m) : lvl[m] = lvl[c] + 1
    /\ pc = "parent" => lvl[right] = lvl[node]
LevelInv == \E B \in Nat : \E lvl \in [Nodes -> 0..B] : Leveled(lvl)

\* Every next pointer, also one of a lost leaf to freed memory, leads down in rk.
RanksLinks(rk) == \A n \in Nodes : next[n] # Null => rk[next[n]] < rk[n]
RankInv == \E B \in Nat : \E rk \in [Nodes -> 1..B] : RanksLinks(rk)

LEMMA FirstKidLower ==
  ASSUME TypeInv, NEW B \in Nat, NEW lvl \in [Nodes -> 0..B], Leveled(lvl), NEW n \in Nodes
  PROVE  \A i \in DOMAIN children[n] : children[n][i] \in Nodes /\ lvl[children[n][i]] < lvl[n]
<1> SUFFICES ASSUME NEW i \in DOMAIN children[n]
             PROVE  children[n][i] \in Nodes /\ lvl[children[n][i]] < lvl[n]
  OBVIOUS
<1>1. children[n] \in Seq(Nodes)
  BY DEF TypeInv, TypeOK, HeapTypeOK
<1>2. children[n][i] \in Nodes /\ children[n][i] \in Kids(n)
  BY <1>1 DEF Kids, ToSet
<1> DEFINE a == lvl[n]
           b == lvl[children[n][i]]
<1>3. a = b + 1 /\ b \in Nat
  BY <1>2 DEF Leveled
<1> HIDE DEF a, b
<1>4. b < a
  BY <1>3
<1> QED BY <1>2, <1>4 DEF a, b

\* find_leftmost_leaf, unfolded once.
LeftmostSteps ==
    /\ find_leftmost_leaf \in [Nodes -> Nodes \cup {Null}]
    /\ \A n \in Nodes : find_leftmost_leaf[n] =
          IF is_leaf[n] THEN n
          ELSE IF children[n] = <<>> THEN Null
          ELSE find_leftmost_leaf[children[n][1]]

LEMMA LeftmostSolved == TypeInv /\ LevelInv => LeftmostSteps
<1> SUFFICES ASSUME TypeInv, LevelInv PROVE LeftmostSteps
  OBVIOUS
<1>1. PICK B \in Nat : \E lvl \in [Nodes -> 0..B] : Leveled(lvl)
  BY DEF LevelInv
<1>2. PICK lvl \in [Nodes -> 0..B] : Leveled(lvl)
  BY <1>1
<1> DEFINE V == Nodes \cup {Null}
           E(n, h) == IF is_leaf[n] THEN n
                      ELSE IF children[n] = <<>> THEN Null ELSE h[children[n][1]]
           G == [nh \in Nodes \X [Nodes -> V] |-> E(nh[1], nh[2])]
<1>3. ASSUME NEW n \in Nodes, children[n] # <<>>
      PROVE  children[n][1] \in Nodes /\ lvl[children[n][1]] < lvl[n]
  <2>1. children[n] \in Seq(Nodes)
    BY DEF TypeInv, TypeOK, HeapTypeOK
  <2>2. 1 \in DOMAIN children[n]
    BY <2>1, <1>3
  <2> QED BY <1>2, <2>2, FirstKidLower
<1>4. ASSUME NEW n \in Nodes, NEW h \in [Nodes -> V] PROVE E(n, h) \in V
  BY <1>3
<1>5. ASSUME NEW n \in Nodes, NEW h \in [Nodes -> V], NEW k \in [Nodes -> V],
             \A m \in Nodes : lvl[m] < lvl[n] => h[m] = k[m]
      PROVE  E(n, h) = E(n, k)
  BY <1>3, <1>5
<1>6. \A n \in Nodes : \A h \in [Nodes -> V] : G[<<n, h>>] = E(n, h)
  OBVIOUS
<1> HIDE DEF E, G, V
<1>7. FallsBy(G, Nodes, V, lvl)
  BY <1>4, <1>5, <1>6 DEF FallsBy
<1>8. Null \in V
  BY DEF V
<1>9. PICK f : Solves(f, G, Nodes, V)
  <2>1. \E f : Solves(f, G, Nodes, V)
    BY <1>7, <1>8, RankRecursion
  <2> QED BY <2>1
<1>10. f \in [Nodes -> V] /\ \A n \in Nodes : f[n] = E(n, f)
  BY <1>6, <1>9 DEF Solves
<1> DEFINE Is(g) == g = [n \in Nodes |-> IF is_leaf[n] THEN n
                                         ELSE IF children[n] = <<>> THEN Null
                                         ELSE g[children[n][1]]]
           found == CHOOSE g : Is(g)
<1>11. Is(f)
  BY <1>10 DEF E
<1>12. Is(found)
  BY <1>11
<1>13. find_leftmost_leaf = found
  BY DEF find_leftmost_leaf
<1>14. \A n \in Nodes : found[n] = E(n, found)
  <2> HIDE DEF found
  <2> QED BY <1>12 DEF E
<1>15. found \in [Nodes -> V]
  <2> DEFINE T == {n \in Nodes : found[n] \in V}
  <2>1. ASSUME NEW n \in Nodes, \A m \in Nodes : lvl[m] < lvl[n] => m \in T PROVE n \in T
    <3> HIDE DEF found
    <3>1. E(n, found) \in V
      BY <1>3, <2>1 DEF E, V
    <3> QED BY <3>1, <1>14
  <2>2. lvl \in [Nodes -> Nat]
    OBVIOUS
  <2>3. Nodes \subseteq T
    <3> HIDE DEF T
    <3> QED BY <2>1, <2>2, RankInduct
  <2>4. found = [n \in Nodes |-> found[n]]
    <3> HIDE DEF found
    <3> QED BY <1>12
  <2> HIDE DEF found
  <2> QED BY <2>3, <2>4
<1> HIDE DEF found
<1> QED BY <1>13, <1>14, <1>15 DEF LeftmostSteps, E, V

\* ChainFrom, unfolded once.
ChainSteps ==
    /\ ChainFrom \in [Nodes -> Seq(Nodes)]
    /\ \A n \in Nodes : ChainFrom[n] =
          <<n>> \o (IF next[n] = Null THEN <<>> ELSE ChainFrom[next[n]])

LEMMA ChainSolved == TypeInv /\ RankInv => ChainSteps
<1> SUFFICES ASSUME TypeInv, RankInv PROVE ChainSteps
  OBVIOUS
<1>1. PICK B \in Nat : \E rk \in [Nodes -> 1..B] : RanksLinks(rk)
  BY DEF RankInv
<1>2. PICK rk \in [Nodes -> 1..B] : RanksLinks(rk)
  BY <1>1
<1> DEFINE V == Seq(Nodes)
           E(n, h) == <<n>> \o (IF next[n] = Null THEN <<>> ELSE h[next[n]])
           G == [nh \in Nodes \X [Nodes -> V] |-> E(nh[1], nh[2])]
<1>3. ASSUME NEW n \in Nodes, next[n] # Null PROVE next[n] \in Nodes /\ rk[next[n]] < rk[n]
  BY <1>2, <1>3 DEF RanksLinks, TypeInv, TypeOK, HeapTypeOK
<1>4. ASSUME NEW n \in Nodes, NEW h \in [Nodes -> V] PROVE E(n, h) \in V
  BY <1>3
<1>5. ASSUME NEW n \in Nodes, NEW h \in [Nodes -> V], NEW k \in [Nodes -> V],
             \A m \in Nodes : rk[m] < rk[n] => h[m] = k[m]
      PROVE  E(n, h) = E(n, k)
  BY <1>3, <1>5
<1>6. \A n \in Nodes : \A h \in [Nodes -> V] : G[<<n, h>>] = E(n, h)
  OBVIOUS
<1> HIDE DEF E, G, V
<1>7. FallsBy(G, Nodes, V, rk)
  BY <1>4, <1>5, <1>6 DEF FallsBy
<1>8. <<>> \in V
  BY DEF V
<1>9. PICK f : Solves(f, G, Nodes, V)
  <2>1. rk \in [Nodes -> 0..B]
    OBVIOUS
  <2>2. \E f : Solves(f, G, Nodes, V)
    BY <1>7, <1>8, <2>1, RankRecursion
  <2> QED BY <2>2
<1>10. f \in [Nodes -> V] /\ \A n \in Nodes : f[n] = E(n, f)
  BY <1>6, <1>9 DEF Solves
<1> DEFINE Is(g) == g = [n \in Nodes |->
                            <<n>> \o (IF next[n] = Null THEN <<>> ELSE g[next[n]])]
           found == CHOOSE g : Is(g)
<1>11. Is(f)
  BY <1>10 DEF E
<1>12. Is(found)
  BY <1>11
<1>13. ChainFrom = found
  BY DEF ChainFrom
<1>14. \A n \in Nodes : found[n] = E(n, found)
  <2> HIDE DEF found
  <2> QED BY <1>12 DEF E
<1>15. found \in [Nodes -> V]
  <2> DEFINE T == {n \in Nodes : found[n] \in V}
  <2>1. ASSUME NEW n \in Nodes, \A m \in Nodes : rk[m] < rk[n] => m \in T PROVE n \in T
    <3> HIDE DEF found
    <3>1. E(n, found) \in V
      BY <1>3, <2>1 DEF E, V
    <3> QED BY <3>1, <1>14
  <2>2. rk \in [Nodes -> Nat]
    OBVIOUS
  <2>3. Nodes \subseteq T
    <3> HIDE DEF T
    <3> QED BY <2>1, <2>2, RankInduct
  <2>4. found = [n \in Nodes |-> found[n]]
    <3> HIDE DEF found
    <3> QED BY <1>12
  <2> HIDE DEF found
  <2> QED BY <2>3, <2>4
<1> HIDE DEF found
<1> QED BY <1>13, <1>14, <1>15 DEF ChainSteps, E, V

-----------------------------------------------------------------------------
(* The leaf chain.                                                         *)

\* From every one of its nodes on, ch lists a leaf and then the leaf it links to.
Linked(ch) ==
    \A i \in 1..Len(ch) :
        is_leaf[ch[i]] /\ next[ch[i]] = IF i < Len(ch) THEN ch[i + 1] ELSE Null

\* L holds whatever hangs below the root (or is about to), and ch every leaf of it
\* in the order of the chain.
Chained(L, ch) ==
    /\ ch \in Seq(Nodes) /\ ch # <<>> /\ IsInjective(ch)
    /\ ch[1] = find_leftmost_leaf[root]
    /\ Linked(ch)
    /\ L \subseteq Nodes /\ HoldsAll(L) /\ \A n \in L : is_leaf[n] => n \in ToSet(ch)

ChainInv ==
    /\ LinkInv /\ WholeInv /\ LevelInv /\ RankInv
    /\ pc # "destroy" /\ root # Null => \E L, ch : Chained(L, ch)

\* The chain of the code is the one the invariant speaks of.
LEMMA TheChain == 
  ASSUME ChainInv, root # Null, NEW L, NEW ch, Chained(L, ch)
  PROVE  LeafChain = ch
<1>1. ChainSteps
  BY ChainSolved DEF ChainInv, LinkInv
<1> DEFINE n == Len(ch)
           Rest(i) == [j \in 1..(n - i + 1) |-> ch[i + j - 1]]
           S == {i \in 1..n : ChainFrom[ch[i]] = Rest(i)}
<1>2. ch \in Seq(Nodes) /\ n \in Nat /\ n >= 1
  BY DEF Chained
<1>3. ASSUME NEW i \in 1..n, \A j \in (i + 1)..n : j \in S PROVE i \in S
  <2>1. ch[i] \in Nodes
    BY <1>2
  <2>2. CASE i < n
    <3>1. i + 1 \in S /\ i + 1 \in 1..n
      BY <1>2, <1>3, <2>2
    <3>2. next[ch[i]] = ch[i + 1] /\ ch[i + 1] \in Nodes
      BY <1>2, <2>2, <3>1 DEF Chained, Linked
    <3>3. ChainFrom[ch[i]] = <<ch[i]>> \o ChainFrom[ch[i + 1]]
      BY <1>1, <2>1, <3>2, NullAssumption DEF ChainSteps
    <3>4. ChainFrom[ch[i + 1]] = Rest(i + 1)
      BY <3>1
    <3>5. Rest(i + 1) \in Seq(Nodes) /\ Len(Rest(i + 1)) = n - i
      <4>1. Rest(i + 1) \in [1..(n - i) -> Nodes]
        BY <1>2
      <4>2. n - i \in Nat
        BY <1>2
      <4> HIDE DEF Rest
      <4> QED BY <4>1, <4>2, FunctionIsSeq
    <3>6. <<ch[i]>> \o Rest(i + 1) = Rest(i)
      <4> DEFINE b == Rest(i + 1)
                 m == n - i
                 t == <<ch[i]>> \o b
      <4>1. m \in Nat /\ n - i + 1 = m + 1
        BY <1>2
      <4>2. b \in Seq(Nodes) /\ Len(b) = m
        BY <3>5
      <4>3. \A j \in 1..m : b[j] = Rest(i)[j + 1]
        BY <1>2
      <4>4. Rest(i) = [j \in 1..(m + 1) |-> Rest(i)[j]] /\ Rest(i)[1] = ch[i]
        BY <1>2
      <4> HIDE DEF b, m, Rest
      <4>5. /\ t \in Seq(Nodes) /\ Len(t) = m + 1 /\ t[1] = ch[i]
            /\ \A j \in 1..m : t[j + 1] = b[j]
        BY <2>1, <4>2, ConsAt
      <4> HIDE DEF t
      <4>6. ASSUME NEW j \in 1..(m + 1) PROVE t[j] = Rest(i)[j]
        <5>1. CASE j = 1
          BY <4>4, <4>5, <5>1
        <5>2. CASE j # 1
          <6> DEFINE x == j - 1
          <6>1. x \in 1..m /\ x + 1 = j
            BY <4>1, <5>2
          <6> HIDE DEF x
          <6> QED BY <4>3, <4>5, <6>1
        <5> QED BY <5>1, <5>2
      <4>7. t = [j \in 1..(m + 1) |-> t[j]]
        BY <4>1, <4>5, LenProperties
      <4> QED BY <4>4, <4>6, <4>7 DEF t, b
    <3> QED BY <3>3, <3>4, <3>6
  <2>3. CASE i = n
    <3>1. next[ch[i]] = Null
      BY <2>3, <1>2 DEF Chained, Linked
    <3>2. ChainFrom[ch[i]] = <<ch[i]>>
      <4>1. ChainFrom[ch[i]] = <<ch[i]>> \o <<>>
        BY <1>1, <2>1, <3>1 DEF ChainSteps
      <4> QED BY <4>1, <2>1
    <3>3. Rest(i) = [j \in 1..1 |-> ch[i + j - 1]]
      BY <1>2, <2>3
    <3>4. Rest(i) = <<ch[i]>>
      BY <1>2, <2>3, <3>3
    <3> QED BY <3>2, <3>4
  <2> QED BY <1>2, <2>2, <2>3
<1>4. 1 \in S
  <2> HIDE DEF S
  <2>1. \A i \in 1..n : i \in S
    BY <1>2, <1>3, DownTo
  <2> QED BY <1>2, <2>1
<1>5. Rest(1) = ch
  <2>1. n - 1 + 1 = n /\ \A j \in 1..n : 1 + j - 1 = j
    BY <1>2
  <2>2. ch = [j \in 1..n |-> ch[j]]
    BY <1>2
  <2> HIDE DEF n
  <2>3. \A j \in 1..n : Rest(1)[j] = ch[j]
    BY <2>1
  <2> QED BY <2>1, <2>2, <2>3
<1>6. LeafChain = ChainFrom[ch[1]]
  BY DEF LeafChain, Chained
<1> QED BY <1>4, <1>5, <1>6

\* The first child of a node stays its first when another is put behind it.
LEMMA FirstKidStays ==
  ASSUME LinkInv, NEW p \in Nodes, NEW i \in 1..Len(children[p]), right \in Nodes,
         right \notin Kids(p)
  PROVE  LET temp == InsertAt(children[p], i + 1, right)
         IN /\ temp \in Seq(Nodes) /\ Len(temp) \in Nat /\ Len(temp) >= 2
            /\ temp[1] = children[p][1] /\ ToSet(temp) = Kids(p) \cup {right}
<1> DEFINE n == Len(children[p])
           temp == InsertAt(children[p], i + 1, right)
<1>1. n \in Nat
  BY KeysAreNumbers DEF LinkInv
<1>2. /\ temp \in Seq(Nodes) /\ Len(temp) = n + 1 /\ ToSet(temp) = Kids(p) \cup {right}
      /\ \A j \in 1..(n + 1) : temp[j] = IF j < i + 1 THEN children[p][j]
                                         ELSE IF j = i + 1 THEN right ELSE children[p][j - 1]
  BY NewKid
<1>3. i \in 1..n
  OBVIOUS
<1> HIDE DEF n, temp
<1>4. 1 \in 1..(n + 1) /\ 1 < i + 1 /\ n + 1 >= 2 /\ n + 1 \in Nat
  BY <1>1, <1>3
<1> QED BY <1>2, <1>4 DEF temp

\* insert_into_internal_node gives the parent one more child, never a new first one.
GainsKid(p, kids) ==
    /\ kids \in Seq(Nodes) /\ kids # <<>> /\ kids[1] = children[p][1]
    /\ ToSet(kids) = Kids(p) \cup {right}
    /\ children' = [children EXCEPT ![p] = kids]

LEMMA InternalGains ==
  ASSUME LinkInv, InsertIntoInternalNode
  PROVE  \E kids : GainsKid(parent[node], kids)
<1> DEFINE p == parent[node]
<1>1. PICK i \in 1..Len(children[p]) : children' = [children EXCEPT ![p] = InsertAt(@, i + 1, right)]
  BY DEF InsertIntoInternalNode
<1>2. p # Null /\ pc = "parent"
  BY DEF InsertIntoInternalNode
<1>3. p \in Nodes /\ right \in Nodes /\ right \notin Kids(p) /\ children \in [Nodes -> Seq(Nodes)]
  BY <1>2, ParentKnows DEF LinkInv, RightIsLoose, TypeInv, TypeOK, HeapTypeOK
<1> DEFINE temp == InsertAt(children[p], i + 1, right)
<1> HIDE DEF p
<1>4. /\ temp \in Seq(Nodes) /\ Len(temp) >= 2 /\ temp[1] = children[p][1]
      /\ ToSet(temp) = Kids(p) \cup {right}
  BY <1>3, FirstKidStays
<1>5. children' = [children EXCEPT ![p] = temp]
  BY <1>1, <1>3
<1> HIDE DEF temp
<1>6. temp # <<>>
  BY <1>4
<1>7. GainsKid(p, temp)
  BY <1>4, <1>5, <1>6 DEF GainsKid
<1> QED BY <1>7 DEF p

\* split_internal_and_insert shares the children, the new one among them, between the
\* parent, which keeps its first, and a new node.
SharesKids(p, left_part, right_part) ==
    /\ left_part \in Seq(Nodes) /\ left_part # <<>> /\ left_part[1] = children[p][1]
    /\ right_part \in Seq(Nodes)
    /\ ToSet(left_part) \cup ToSet(right_part) = Kids(p) \cup {right}
    /\ children' = [children EXCEPT ![p] = left_part, ![Fresh] = right_part]

LEMMA SplitShares ==
  ASSUME LinkInv, SplitInternal
  PROVE  \E left_part, right_part : SharesKids(parent[node], left_part, right_part)
<1> DEFINE p == parent[node]
           h == Half(Len(keys[p]) + 1)
<1>1. PICK i \in 1..Len(children[p]) :
         LET temp == InsertAt(children[p], i + 1, right)
         IN children' = [children EXCEPT ![p] = SubSeq(temp, 1, h + 1),
                                         ![Fresh] = SubSeq(temp, h + 2, Len(temp))]
  BY DEF SplitInternal, RightChildren, TempChildren
<1>2. p # Null /\ pc = "parent"
  BY DEF SplitInternal
<1>3. p \in Nodes /\ right \in Nodes /\ right \notin Kids(p) /\ children \in [Nodes -> Seq(Nodes)]
  BY <1>2, ParentKnows DEF LinkInv, RightIsLoose, TypeInv, TypeOK, HeapTypeOK
<1> DEFINE temp == InsertAt(children[p], i + 1, right)
           left_part == SubSeq(temp, 1, h + 1)
           right_part == SubSeq(temp, h + 2, Len(temp))
           len == Len(temp)
           kl == Len(keys[p])
<1>4. children' = [children EXCEPT ![p] = left_part, ![Fresh] = right_part]
  BY <1>1
<1>5. kl \in Nat /\ len = kl + 2
  <2>1. kl \in Nat /\ Len(children[p]) \in Nat
    BY <1>3, KeysAreNumbers DEF LinkInv
  <2>2. children[p] # <<>>
    BY <1>1, EmptySeq
  <2>3. Len(children[p]) = kl + 1
    BY <1>3, <2>2 DEF LinkInv, TypeInv, NodeShape
  <2>4. len = Len(children[p]) + 1
    <3> HIDE DEF p
    <3> QED BY <1>3, NewKid
  <2> HIDE DEF kl, len, p
  <2> QED BY <2>1, <2>3, <2>4
<1>6. h \in Nat /\ h + 1 <= len
  <2>1. h = (kl + 1) \div 2
    BY DEF Half
  <2> HIDE DEF h, len, kl
  <2> QED BY <1>5, <2>1
<1> HIDE DEF p, kl
<1>7. /\ temp \in Seq(Nodes) /\ Len(temp) >= 2 /\ temp[1] = children[p][1]
      /\ ToSet(temp) = Kids(p) \cup {right} /\ len \in Nat
  BY <1>3, FirstKidStays
<1> HIDE DEF h, temp
<1>8. ToSet(left_part) \cup ToSet(right_part) = ToSet(temp)
  BY <1>6, <1>7, BothParts
<1>9. /\ left_part \in Seq(Nodes) /\ Len(left_part) = h + 1 /\ right_part \in Seq(Nodes)
      /\ left_part[1] = temp[1]
  <2>1. /\ left_part \in Seq(Nodes) /\ Len(left_part) = h + 1
        /\ DOMAIN left_part = 1..(h + 1) /\ \A j \in 1..(h + 1) : left_part[j] = temp[j]
    BY <1>6, <1>7, TwoParts, SubSeqTyped
  <2>2. right_part \in Seq(Nodes)
    BY <1>6, <1>7, SubSeqTyped
  <2>3. 1 \in 1..(h + 1)
    BY <1>6
  <2> QED BY <2>1, <2>2, <2>3
<1> HIDE DEF left_part, right_part
<1>10. left_part # <<>>
  BY <1>6, <1>9
<1>11. SharesKids(p, left_part, right_part)
  BY <1>4, <1>7, <1>8, <1>9, <1>10 DEF SharesKids
<1> QED BY <1>11 DEF p

\* Where the new node stands before it is allocated: nowhere.
LEMMA FreshIsLoose ==
  ASSUME LinkInv, CanAllocate
  PROVE  /\ Fresh \in Nodes /\ Fresh \notin used /\ ~is_leaf[Fresh] /\ children[Fresh] = <<>>
         /\ \A m \in Nodes : Fresh \notin Kids(m)
<1>1. Fresh \in Nodes /\ Fresh \notin used
  BY FreshIsNew DEF LinkInv, TypeInv, TypeOK, HeapTypeOK
<1> QED BY <1>1 DEF LinkInv, TypeInv, NodeShape, OnlyUsed

LEMMA LevelsStay ==
  ASSUME LevelInv, UNCHANGED <<is_leaf, children>>,
         pc' = "parent" => pc = "parent" /\ UNCHANGED <<right, node>>
  PROVE  LevelInv'
<1>1. \A m \in Nodes : Kids(m)' = Kids(m)
  BY DEF Kids
<1> QED BY <1>1 DEF LevelInv, Leveled

LEMMA LeafKeepsLevels ==
  ASSUME LinkInv, LevelInv, CanAllocate, UNCHANGED children,
         is_leaf' = [is_leaf EXCEPT ![Fresh] = TRUE],
         pc' = "parent" => right' = Fresh /\ node' \in used /\ is_leaf[node']
  PROVE  LevelInv'
<1>1. PICK B \in Nat : \E lvl \in [Nodes -> 0..B] : Leveled(lvl)
  BY DEF LevelInv
<1>2. PICK lvl \in [Nodes -> 0..B] : Leveled(lvl)
  BY <1>1
<1> DEFINE f == Fresh
<1>12. PICK new : new = [lvl EXCEPT ![f] = 0]
  OBVIOUS
<1>3. /\ f \in Nodes /\ f \notin used /\ children[f] = <<>> /\ \A m \in Nodes : f \notin Kids(m)
  BY FreshIsLoose
<1>4. /\ is_leaf \in [Nodes -> BOOLEAN] /\ used \subseteq Nodes
      /\ \A m \in Nodes : Kids(m) \subseteq Nodes
  BY KidsAreNodes DEF LinkInv, TypeInv, TypeOK, HeapTypeOK
<1>5. Kids(f) = {} /\ \A m \in Nodes : Kids(m)' = Kids(m)
  BY <1>3, NoKids DEF Kids
<1> HIDE DEF f
<1>6. new \in [Nodes -> 0..B]
  BY <1>3, <1>12
<1>7. \A n \in Nodes : new[n] = IF n = f THEN 0 ELSE lvl[n]
  BY <1>3, <1>12
<1>8. \A n \in Nodes : is_leaf'[n] => new[n] = 0
  BY <1>2, <1>4, <1>7 DEF Leveled, f
<1>9. ASSUME NEW m \in Nodes, NEW c \in Kids(m)' PROVE new[m] = new[c] + 1
  <2>1. c \in Kids(m) /\ c # f /\ m # f /\ c \in Nodes
    BY <1>3, <1>4, <1>5, <1>9
  <2> QED BY <1>2, <1>7, <2>1 DEF Leveled
<1>10. pc' = "parent" => new[right'] = new[node']
  BY <1>2, <1>3, <1>4, <1>7 DEF Leveled, f
<1>11. Leveled(new)'
  BY <1>8, <1>9, <1>10 DEF Leveled
<1> QED BY <1>6, <1>11 DEF LevelInv

LEMMA NewRootKeepsLevels ==
  ASSUME LinkInv, LevelInv, NewRoot
  PROVE  LevelInv'
<1>1. PICK B \in Nat : \E lvl \in [Nodes -> 0..B] : Leveled(lvl)
  BY DEF LevelInv
<1>2. PICK lvl \in [Nodes -> 0..B] : Leveled(lvl)
  BY <1>1
<1> DEFINE f == Fresh
<1>11. PICK new : new = [lvl EXCEPT ![f] = lvl[node] + 1]
  OBVIOUS
<1>3. /\ f \in Nodes /\ ~is_leaf[f] /\ \A m \in Nodes : f \notin Kids(m)
      /\ UNCHANGED is_leaf /\ children' = [children EXCEPT ![f] = <<node, right>>]
      /\ pc = "parent" /\ pc' = "idle"
  BY FreshIsLoose DEF NewRoot, InsertSucceeds, Return
<1>4. /\ is_leaf \in [Nodes -> BOOLEAN] /\ node \in used /\ right \in used /\ used \subseteq Nodes
      /\ \A m \in Nodes : Kids(m) \subseteq Nodes /\ children \in [Nodes -> Seq(Nodes)]
      /\ f \notin used
  <2>1. node \in used
    <3>1. Reached(node) /\ root \in used
      BY <1>3, NullAssumption DEF LinkInv, CursorReached, RootIsTop, TypeInv, CallOK
    <3> QED BY <3>1, ReachedUsed DEF LinkInv
  <2> QED BY <1>3, <2>1, KidsAreNodes, FreshIsLoose DEF LinkInv, TypeInv, TypeOK, HeapTypeOK, RightIsLoose, NewRoot
<1>5. \A m \in Nodes : Kids(m)' = IF m = f THEN {node, right} ELSE Kids(m)
  <2>1. ToSet(<<node, right>>) = {node, right}
    BY DEF ToSet
  <2> QED BY <1>3, <1>4, <2>1 DEF Kids
<1> HIDE DEF f
<1>6. new \in [Nodes -> 0..(B + 1)] /\ B + 1 \in Nat
  <2> DEFINE a == lvl[node]
  <2>1. a \in 0..B /\ 0..B \subseteq 0..(B + 1)
    BY <1>4
  <2> HIDE DEF a
  <2>2. a + 1 \in 0..(B + 1) /\ B + 1 \in Nat
    BY <2>1
  <2>3. new = [lvl EXCEPT ![f] = a + 1]
    BY <1>11 DEF a
  <2>4. lvl \in [Nodes -> 0..(B + 1)]
    BY <2>1
  <2> QED BY <1>3, <2>2, <2>3, <2>4
<1>7. \A n \in Nodes : new[n] = IF n = f THEN lvl[node] + 1 ELSE lvl[n]
  BY <1>3, <1>11
<1>8. \A n \in Nodes : is_leaf'[n] => new[n] = 0
  BY <1>2, <1>3, <1>7 DEF Leveled
<1>9. ASSUME NEW m \in Nodes, NEW c \in Kids(m)' PROVE new[m] = new[c] + 1
  <2>1. lvl[right] = lvl[node]
    BY <1>2, <1>3 DEF Leveled
  <2>2. node # f /\ right # f /\ node \in Nodes /\ right \in Nodes
    BY <1>4
  <2>3. CASE m = f
    <3>1. c \in {node, right}
      BY <1>5, <1>9, <2>3
    <3>2. new[c] = lvl[node]
      BY <1>7, <2>1, <2>2, <3>1
    <3> QED BY <1>7, <2>3, <3>2
  <2>4. CASE m # f
    <3>1. c \in Kids(m) /\ c # f /\ c \in Nodes
      BY <1>3, <1>4, <1>5, <1>9, <2>4
    <3> QED BY <1>2, <1>7, <2>4, <3>1 DEF Leveled
  <2> QED BY <2>3, <2>4
<1>10. Leveled(new)'
  BY <1>3, <1>8, <1>9 DEF Leveled
<1> QED BY <1>6, <1>10 DEF LevelInv

LEMMA InternalKeepsLevels ==
  ASSUME LinkInv, LevelInv, InsertIntoInternalNode
  PROVE  LevelInv'
<1>1. PICK B \in Nat : \E lvl \in [Nodes -> 0..B] : Leveled(lvl)
  BY DEF LevelInv
<1>2. PICK lvl \in [Nodes -> 0..B] : Leveled(lvl)
  BY <1>1
<1> DEFINE p == parent[node]
<1>3. PICK kids : GainsKid(p, kids)
  BY InternalGains
<1>4. pc = "parent" /\ pc' = "idle" /\ UNCHANGED is_leaf /\ p # Null
  BY DEF InsertIntoInternalNode, InsertSucceeds, Return
<1>5. p \in Nodes /\ node \in Kids(p) /\ children \in [Nodes -> Seq(Nodes)]
  BY <1>4, ParentKnows DEF LinkInv, TypeInv, TypeOK, HeapTypeOK
<1> HIDE DEF p
<1>6. \A m \in Nodes : Kids(m)' = IF m = p THEN Kids(p) \cup {right} ELSE Kids(m)
  BY <1>3, <1>5 DEF GainsKid, Kids
<1>7. lvl[p] = lvl[node] + 1 /\ lvl[right] = lvl[node]
  BY <1>2, <1>4, <1>5 DEF Leveled
<1>8. \A m \in Nodes : \A c \in Kids(m)' : lvl[m] = lvl[c] + 1
  BY <1>2, <1>6, <1>7 DEF Leveled
<1>9. Leveled(lvl)'
  BY <1>2, <1>4, <1>8 DEF Leveled
<1> QED BY <1>9 DEF LevelInv

LEMMA SplitInternalKeepsLevels ==
  ASSUME LinkInv, LevelInv, SplitInternal
  PROVE  LevelInv'
<1>1. PICK B \in Nat : \E lvl \in [Nodes -> 0..B] : Leveled(lvl)
  BY DEF LevelInv
<1>2. PICK lvl \in [Nodes -> 0..B] : Leveled(lvl)
  BY <1>1
<1> DEFINE p == parent[node]
           f == Fresh
<1>14. PICK new : new = [lvl EXCEPT ![f] = lvl[p]]
  OBVIOUS
<1>3. PICK left_part, right_part : SharesKids(p, left_part, right_part)
  BY SplitShares
<1>4. /\ pc = "parent" /\ UNCHANGED is_leaf /\ p # Null /\ node' = p /\ right' = f
      /\ f \in Nodes /\ ~is_leaf[f] /\ f \notin used /\ \A m \in Nodes : f \notin Kids(m)
  BY FreshIsLoose DEF SplitInternal
<1>5. /\ p \in Nodes /\ p \in used /\ node \in Kids(p) /\ right \in used
      /\ children \in [Nodes -> Seq(Nodes)] /\ \A m \in Nodes : Kids(m) \subseteq Nodes
      /\ used \subseteq Nodes
  BY <1>4, ParentKnows, KidsAreNodes DEF LinkInv, TypeInv, TypeOK, HeapTypeOK, RightIsLoose
<1>6. children' = [children EXCEPT ![p] = left_part, ![f] = right_part]
  BY <1>3 DEF SharesKids
<1> HIDE DEF p, f
<1>7. \A m \in Nodes : Kids(m)' \subseteq IF m \in {p, f} THEN Kids(p) \cup {right} ELSE Kids(m)
  BY <1>3, <1>4, <1>5, <1>6 DEF SharesKids, Kids
<1>8. lvl[p] = lvl[node] + 1 /\ lvl[right] = lvl[node]
  BY <1>2, <1>4, <1>5 DEF Leveled
<1>9. new \in [Nodes -> 0..B] /\ \A n \in Nodes : new[n] = IF n = f THEN lvl[p] ELSE lvl[n]
  BY <1>4, <1>5, <1>14
<1>10. ASSUME NEW m \in Nodes, NEW c \in Kids(m)' PROVE new[m] = new[c] + 1
  <2>1. CASE m \in {p, f}
    <3>1. c \in Kids(p) \cup {right}
      BY <1>7, <1>10, <2>1
    <3>2. lvl[p] = lvl[c] + 1
      BY <1>2, <1>5, <1>8, <3>1 DEF Leveled
    <3>3. c # f /\ c \in Nodes
      BY <1>4, <1>5, <3>1
    <3> QED BY <1>9, <2>1, <3>2, <3>3, <1>5
  <2>2. CASE m \notin {p, f}
    <3>1. c \in Kids(m) /\ c # f /\ c \in Nodes
      BY <1>4, <1>5, <1>7, <1>10, <2>2
    <3> QED BY <1>2, <1>9, <2>2, <3>1 DEF Leveled
  <2> QED BY <2>1, <2>2
<1>11. \A n \in Nodes : is_leaf'[n] => new[n] = 0
  BY <1>2, <1>4, <1>9 DEF Leveled
<1>12. new[right'] = new[node']
  BY <1>4, <1>5, <1>9
<1>13. Leveled(new)'
  BY <1>10, <1>11, <1>12 DEF Leveled
<1> QED BY <1>9, <1>13 DEF LevelInv

LEMMA DestroyKeepsLevels ==
  ASSUME LinkInv, LevelInv, DestroyNode
  PROVE  LevelInv'
<1>1. PICK B \in Nat : \E lvl \in [Nodes -> 0..B] : Leveled(lvl)
  BY DEF LevelInv
<1>2. PICK lvl \in [Nodes -> 0..B] : Leveled(lvl)
  BY <1>1
<1>3. PICK n \in doomed : /\ children' = [children EXCEPT ![n] = <<>>]
                          /\ is_leaf' = [is_leaf EXCEPT ![n] = FALSE]
                          /\ pc' = "destroy"
  BY DEF DestroyNode
<1>4. children \in [Nodes -> Seq(Nodes)] /\ is_leaf \in [Nodes -> BOOLEAN] /\ n \in Nodes
  BY DEF LinkInv, TypeInv, TypeOK, HeapTypeOK
<1>5. \A m \in Nodes : Kids(m)' \subseteq Kids(m)
  <2>1. \A m \in Nodes \ {n} : Kids(m)' = Kids(m)
    BY <1>3, <1>4 DEF Kids
  <2>2. \A m \in {n} : Kids(m)' = {}
    BY <1>3, <1>4 DEF Kids, ToSet
  <2> QED BY <2>1, <2>2
<1>6. \A m \in Nodes : is_leaf'[m] => is_leaf[m]
  BY <1>3, <1>4
<1>7. Leveled(lvl)'
  BY <1>2, <1>3, <1>5, <1>6 DEF Leveled
<1> QED BY <1>7 DEF LevelInv

LEMMA LevelInvInit == Init => LevelInv
<1> SUFFICES ASSUME Init PROVE LevelInv
  OBVIOUS
<1> DEFINE lvl == [n \in Nodes |-> 0]
<1>1. \A m \in Nodes : Kids(m) = {}
  BY DEF Init, Kids, ToSet
<1>2. lvl \in [Nodes -> 0..0] /\ Leveled(lvl)
  BY <1>1 DEF Leveled, Init
<1> HIDE DEF lvl
<1> QED BY <1>2 DEF LevelInv

\* Every way from a node down to a leaf has the same length, at every step of every call.
LEMMA LevelInvStep ==
  ASSUME LinkInv, LevelInv, [Next]_vars
  PROVE  LevelInv'
<1>1. ASSUME NEW k \in Keys, NEW o \in Offsets, InsertFirst(k, o) PROVE LevelInv'
  <2>1. /\ CanAllocate /\ UNCHANGED children /\ is_leaf' = [is_leaf EXCEPT ![Fresh] = TRUE]
        /\ pc' = "idle"
    BY <1>1 DEF InsertFirst, Return
  <2> QED BY <2>1, LeafKeepsLevels
<1>2. ASSUME NEW k \in Keys,
             \/ InsertFirstOutOfMemory(k) \/ SearchEmpty(k) \/ CallSearch(k)
             \/ \E o \in Offsets : CallInsert(k, o)
      PROVE  LevelInv'
  <2>1. UNCHANGED <<is_leaf, children>> /\ pc' # "parent"
    BY <1>2 DEF InsertFirstOutOfMemory, SearchEmpty, CallSearch, CallInsert, Return, heap
  <2> QED BY <2>1, LevelsStay
<1>3. CASE DestroyEmpty \/ CallDestroy \/ Descend \/ SearchLeaf \/ InsertDuplicate \/ DestroyReturns
  <2>1. UNCHANGED <<is_leaf, children>> /\ pc' # "parent"
    BY <1>3 DEF DestroyEmpty, CallDestroy, Descend, SearchLeaf, InsertDuplicate, DestroyReturns,
                InsertFails, Return, heap
  <2> QED BY <2>1, LevelsStay
<1>4. CASE SplitLeafOutOfMemory \/ InsertIntoParentFails \/ InsertIntoLeaf
  <2>1. UNCHANGED <<is_leaf, children>> /\ pc' # "parent"
    BY <1>4 DEF SplitLeafOutOfMemory, InsertIntoParentFails, InsertIntoLeaf, InsertFails, Return, heap
  <2> QED BY <2>1, LevelsStay
<1>5. CASE SplitLeaf
  <2>1. /\ CanAllocate /\ UNCHANGED children /\ is_leaf' = [is_leaf EXCEPT ![Fresh] = TRUE]
        /\ right' = Fresh /\ node' = node /\ is_leaf[node] /\ pc = "descend"
    BY <1>5 DEF SplitLeaf, AtInsertLeaf
  <2>2. node \in used
    BY <2>1 DEF LinkInv, TypeInv, CallOK, NodeShape
  <2> QED BY <2>1, <2>2, LeafKeepsLevels
<1>6. CASE NewRoot
  BY <1>6, NewRootKeepsLevels
<1>7. CASE InsertIntoInternalNode
  BY <1>7, InternalKeepsLevels
<1>8. CASE SplitInternal
  BY <1>8, SplitInternalKeepsLevels
<1>9. CASE DestroyNode
  BY <1>9, DestroyKeepsLevels
<1>10. CASE UNCHANGED vars
  <2>1. UNCHANGED <<is_leaf, children, pc, right, node>>
    BY <1>10 DEF vars, heap, frame
  <2> QED BY <2>1, LevelsStay
<1> QED BY <1>1, <1>2, <1>3, <1>4, <1>5, <1>6, <1>7, <1>8, <1>9, <1>10 DEF Next, Call, Step

\* Where no first child changes, the leftmost leaf does not either.
KeepsFirstKids(X) ==
    \A n \in X :
        /\ is_leaf'[n] <=> is_leaf[n]
        /\ (children'[n] = <<>>) <=> (children[n] = <<>>)
        /\ children[n] # <<>> => children'[n][1] = children[n][1] /\ children[n][1] \in X

LEMMA LeftmostKept ==
  ASSUME TypeInv, LevelInv, TypeInv', LevelInv', NEW X \in SUBSET Nodes, KeepsFirstKids(X)
  PROVE  \A n \in X : find_leftmost_leaf'[n] = find_leftmost_leaf[n]
<1>1. LeftmostSteps
  BY LeftmostSolved
<1>2. LeftmostSteps'
  <2>1. (TypeInv /\ LevelInv => LeftmostSteps)'
    BY LeftmostSolved, PTL
  <2> QED BY <2>1
<1>3. PICK B \in Nat : \E lvl \in [Nodes -> 0..B] : Leveled(lvl)
  BY DEF LevelInv
<1>4. PICK lvl \in [Nodes -> 0..B] : Leveled(lvl)
  BY <1>3
<1> DEFINE T == {n \in Nodes : n \in X => find_leftmost_leaf'[n] = find_leftmost_leaf[n]}
<1>5. ASSUME NEW n \in Nodes, \A m \in Nodes : lvl[m] < lvl[n] => m \in T PROVE n \in T
  <2> SUFFICES ASSUME n \in X PROVE find_leftmost_leaf'[n] = find_leftmost_leaf[n]
    OBVIOUS
  <2>1. CASE is_leaf[n] \/ children[n] = <<>>
    BY <1>1, <1>2, <2>1 DEF LeftmostSteps, KeepsFirstKids
  <2>2. CASE ~is_leaf[n] /\ children[n] # <<>>
    <3> DEFINE c == children[n][1]
    <3>1. 1 \in DOMAIN children[n]
      BY <2>2 DEF TypeInv, TypeOK, HeapTypeOK
    <3>2. c \in Nodes /\ lvl[c] < lvl[n]
      BY <1>4, <3>1, FirstKidLower
    <3>3. c \in X /\ children'[n][1] = c /\ ~is_leaf'[n] /\ children'[n] # <<>>
      BY <2>2 DEF KeepsFirstKids
    <3>4. find_leftmost_leaf'[c] = find_leftmost_leaf[c]
      BY <1>5, <3>2, <3>3
    <3>5. find_leftmost_leaf[n] = find_leftmost_leaf[c]
      BY <1>1, <2>2 DEF LeftmostSteps
    <3>6. find_leftmost_leaf'[n] = find_leftmost_leaf'[c]
      BY <1>2, <3>3 DEF LeftmostSteps
    <3> QED BY <3>4, <3>5, <3>6
  <2> QED BY <2>1, <2>2
<1>6. Nodes \subseteq T
  <2> HIDE DEF T
  <2>1. lvl \in [Nodes -> Nat]
    OBVIOUS
  <2> QED BY <1>5, <2>1, RankInduct
<1> QED BY <1>6

LEMMA ChainStays ==
  ASSUME LinkInv, LevelInv, TypeInv', LevelInv', root # Null, NEW L, NEW ch, Chained(L, ch),
         UNCHANGED <<is_leaf, children, next, root>>, Tops' \subseteq Tops
  PROVE  Chained(L, ch)'
<1>1. root \in Nodes /\ children \in [Nodes -> Seq(Nodes)]
  BY DEF LinkInv, TypeInv, TypeOK, HeapTypeOK
<1>2. KeepsFirstKids(Nodes)
  BY <1>1 DEF KeepsFirstKids
<1>3. find_leftmost_leaf'[root] = find_leftmost_leaf[root]
  BY <1>1, <1>2, LeftmostKept DEF LinkInv
<1>4. \A m \in Nodes : Kids(m)' = Kids(m)
  BY DEF Kids
<1>5. HoldsAll(L)'
  BY <1>4 DEF Chained, HoldsAll
<1> QED BY <1>3, <1>5 DEF Chained, Linked

\* What the cursor has reached is among what hangs, so a leaf there is in the chain.
LEMMA ReachedHangs ==
  ASSUME NEW L, NEW ch, Chained(L, ch), root \in Nodes, root # Null, pc # "destroy",
         NEW n, Reached(n)
  PROVE  n \in L /\ root \in L /\ L \subseteq Nodes
<1>1. root \in L /\ L \subseteq Nodes /\ \A m \in L : Kids(m) \subseteq L
  BY DEF Chained, HoldsAll, Tops
<1> QED BY <1>1 DEF Reached, IsClosed

\* The first kids of allocated nodes are allocated.
LEMMA UsedFirstKids ==
  ASSUME LinkInv, NEW n \in Nodes, children[n] # <<>>
  PROVE  children[n][1] \in used
<1>1. children[n] \in Seq(Nodes)
  BY DEF LinkInv, TypeInv, TypeOK, HeapTypeOK
<1>2. children[n][1] \in Kids(n)
  BY <1>1 DEF Kids, ToSet
<1> QED BY <1>2 DEF LinkInv, OnlyUsed

LEMMA FirstChains ==
  ASSUME LinkInv, TypeInv', LevelInv', NEW k \in Keys, NEW o \in Offsets, InsertFirst(k, o),
         OnlyLeavesLink, NEW f, f = Fresh
  PROVE  Chained({f}, <<f>>)'
<1>1. /\ f \in Nodes /\ f \notin used /\ ~is_leaf[f] /\ children[f] = <<>> /\ next[f] = Null
  BY FreshIsLoose DEF InsertFirst, OnlyLeavesLink
<1>2. /\ is_leaf' = [is_leaf EXCEPT ![f] = TRUE] /\ UNCHANGED <<children, next>>
      /\ root' = f /\ pc' = "idle" /\ is_leaf \in [Nodes -> BOOLEAN]
  BY DEF InsertFirst, Return, LinkInv, TypeInv, TypeOK, HeapTypeOK
<1>3. LeftmostSteps'
  <2>1. (TypeInv /\ LevelInv => LeftmostSteps)'
    BY LeftmostSolved, PTL
  <2> QED BY <2>1
<1>4. find_leftmost_leaf'[f] = f
  BY <1>1, <1>2, <1>3 DEF LeftmostSteps
<1>5. HoldsAll({f})'
  <2>1. \A m \in {f} : Kids(m)' = {}
    BY <1>1, <1>2 DEF Kids, ToSet
  <2>2. Tops' = {f}
    BY <1>1, <1>2, NullAssumption DEF Tops
  <2> QED BY <2>1, <2>2 DEF HoldsAll
<1>6. Linked(<<f>>)'
  BY <1>1, <1>2 DEF Linked
<1>7. <<f>> \in Seq(Nodes) /\ <<f>> # <<>> /\ IsInjective(<<f>>) /\ ToSet(<<f>>) = {f} /\ <<f>>[1] = f
  BY <1>1 DEF IsInjective, ToSet
<1> QED BY <1>1, <1>2, <1>4, <1>5, <1>6, <1>7 DEF Chained

LEMMA NewRootChains ==
  ASSUME LinkInv, LevelInv, TypeInv', LevelInv', NEW L, NEW ch, Chained(L, ch), NewRoot,
         NEW f, f = Fresh
  PROVE  Chained(L \cup {f}, ch)'
<1>1. /\ pc = "parent" /\ pc' = "idle" /\ parent[node] = Null /\ UNCHANGED <<is_leaf, next>>
      /\ root' = f /\ children' = [children EXCEPT ![f] = <<node, right>>]
  BY DEF NewRoot, InsertSucceeds, Return
<1>2. /\ f \in Nodes /\ f \notin used /\ ~is_leaf[f] /\ \A m \in Nodes : f \notin Kids(m)
      /\ children \in [Nodes -> Seq(Nodes)] /\ used \subseteq Nodes
  BY FreshIsLoose DEF NewRoot, LinkInv, TypeInv, TypeOK, HeapTypeOK
<1>3. /\ root \in Nodes /\ root \in used /\ root # Null /\ Reached(node) /\ right \in Nodes
      /\ node \in Nodes
  BY <1>1, NullAssumption DEF LinkInv, TypeInv, CallOK, RootIsTop, CursorReached
<1>4. node = root
  BY <1>1, <1>3, NullAssumption, ReachedFromParent DEF LinkInv
<1>5. KeepsFirstKids(used)
  <2>1. \A n \in used : children'[n] = children[n]
    BY <1>1, <1>2
  <2>2. \A n \in used : children[n] # <<>> => children[n][1] \in used
    BY <1>2, UsedFirstKids
  <2> QED BY <1>1, <2>1, <2>2 DEF KeepsFirstKids
<1>6. find_leftmost_leaf'[root] = find_leftmost_leaf[root]
  BY <1>2, <1>3, <1>5, LeftmostKept DEF LinkInv
<1>7. LeftmostSteps'
  <2>1. (TypeInv /\ LevelInv => LeftmostSteps)'
    BY LeftmostSolved, PTL
  <2> QED BY <2>1
<1>8. find_leftmost_leaf'[f] = find_leftmost_leaf'[node]
  <2>1. children'[f] = <<node, right>> /\ ~is_leaf'[f]
    BY <1>1, <1>2
  <2>2. <<node, right>> # <<>> /\ <<node, right>>[1] = node
    OBVIOUS
  <2> QED BY <1>2, <1>7, <2>1, <2>2 DEF LeftmostSteps
<1>9. node \in L /\ right \in L /\ L \subseteq Nodes
  <2>1. right \in Tops
    BY <1>1, <1>3, NullAssumption DEF Tops
  <2>2. node \in L /\ L \subseteq Nodes
    BY <1>1, <1>3, ReachedHangs
  <2> QED BY <2>1, <2>2 DEF Chained, HoldsAll
<1>10. HoldsAll(L \cup {f})'
  <2>1. \A m \in L \ {f} : Kids(m)' = Kids(m)
    BY <1>1, <1>2, <1>9 DEF Kids
  <2>2. \A m \in {f} : Kids(m)' = {node, right}
    <3>1. ToSet(<<node, right>>) = {node, right}
      BY DEF ToSet
    <3> QED BY <1>1, <1>2, <3>1 DEF Kids
  <2>3. Tops' = {f}
    BY <1>1, <1>2, NullAssumption DEF Tops
  <2>4. \A m \in L : Kids(m) \subseteq L
    BY DEF Chained, HoldsAll
  <2> QED BY <1>9, <2>1, <2>2, <2>3, <2>4 DEF HoldsAll
<1> QED BY <1>1, <1>2, <1>4, <1>6, <1>8, <1>9, <1>10 DEF Chained, Linked

LEMMA InternalChains ==
  ASSUME LinkInv, LevelInv, TypeInv', LevelInv', NEW L, NEW ch, Chained(L, ch),
         InsertIntoInternalNode
  PROVE  Chained(L, ch)'
<1> DEFINE p == parent[node]
<1>1. /\ pc = "parent" /\ pc' = "idle" /\ p # Null /\ UNCHANGED <<is_leaf, next, root>>
  BY DEF InsertIntoInternalNode, InsertSucceeds, Return
<1>2. PICK kids : GainsKid(p, kids)
  BY InternalGains
<1>3. /\ p \in Nodes /\ Reached(p) /\ root \in Nodes /\ root # Null /\ right \in Nodes
      /\ children \in [Nodes -> Seq(Nodes)] /\ node \in Kids(p)
  BY <1>1, ParentKnows, NullAssumption DEF LinkInv, TypeInv, TypeOK, HeapTypeOK
<1>4. children[p] # <<>> /\ \A n \in Nodes : children[n] # <<>> => children[n][1] \in Nodes
  <2>1. children[p] # <<>>
    BY <1>3, NoKids
  <2>2. \A n \in Nodes : children[n] # <<>> => children[n][1] \in Nodes
    BY UsedFirstKids DEF LinkInv, TypeInv, TypeOK, HeapTypeOK
  <2> QED BY <2>1, <2>2
<1> HIDE DEF p
<1>5. KeepsFirstKids(Nodes)
  BY <1>1, <1>2, <1>3, <1>4 DEF KeepsFirstKids, GainsKid
<1>6. find_leftmost_leaf'[root] = find_leftmost_leaf[root]
  BY <1>3, <1>5, LeftmostKept DEF LinkInv
<1>7. right \in L /\ L \subseteq Nodes
  <2>1. right \in Tops
    BY <1>1, <1>3, NullAssumption DEF Tops
  <2> QED BY <2>1 DEF Chained, HoldsAll
<1>8. HoldsAll(L)'
  <2>1. \A m \in L : Kids(m)' \subseteq Kids(m) \cup {right}
    BY <1>2, <1>3, <1>7 DEF Kids, GainsKid
  <2>2. Tops' \subseteq Tops
    BY <1>1 DEF Tops
  <2> QED BY <1>7, <2>1, <2>2 DEF HoldsAll, Chained
<1> QED BY <1>1, <1>6, <1>7, <1>8 DEF Chained, Linked

LEMMA SplitInternalChains ==
  ASSUME LinkInv, LevelInv, TypeInv', LevelInv', NEW L, NEW ch, Chained(L, ch), SplitInternal,
         NEW f, f = Fresh
  PROVE  Chained(L \cup {f}, ch)'
<1> DEFINE p == parent[node]
<1>1. /\ pc = "parent" /\ p # Null /\ UNCHANGED <<is_leaf, next, root, pc>> /\ right' = f
  BY DEF SplitInternal, tree
<1>2. PICK left_part, right_part : SharesKids(p, left_part, right_part)
  BY SplitShares
<1>3. /\ p \in Nodes /\ Reached(p) /\ root \in Nodes /\ root # Null /\ right \in Nodes
      /\ children \in [Nodes -> Seq(Nodes)] /\ node \in Kids(p) /\ p \in used /\ root \in used
  BY <1>1, ParentKnows, NullAssumption DEF LinkInv, TypeInv, TypeOK, HeapTypeOK, RootIsTop
<1>4. f \in Nodes /\ f \notin used /\ ~is_leaf[f] /\ used \subseteq Nodes
  BY FreshIsLoose DEF SplitInternal, LinkInv, TypeInv, TypeOK, HeapTypeOK
<1>5. children[p] # <<>> /\ \A n \in used : children[n] # <<>> => children[n][1] \in used
  BY <1>3, <1>4, NoKids, UsedFirstKids
<1> HIDE DEF p
<1>6. /\ children' = [children EXCEPT ![p] = left_part, ![f] = right_part]
      /\ left_part # <<>> /\ left_part[1] = children[p][1]
      /\ ToSet(left_part) \cup ToSet(right_part) = Kids(p) \cup {right}
  BY <1>2 DEF SharesKids
<1>7. KeepsFirstKids(used)
  <2>1. \A n \in used : children'[n] = IF n = p THEN left_part ELSE children[n]
    BY <1>3, <1>4, <1>6
  <2> QED BY <1>1, <1>5, <1>6, <2>1 DEF KeepsFirstKids
<1>8. find_leftmost_leaf'[root] = find_leftmost_leaf[root]
  BY <1>3, <1>4, <1>7, LeftmostKept DEF LinkInv
<1>9. right \in L /\ p \in L /\ root \in L /\ L \subseteq Nodes
  <2>1. right \in Tops
    BY <1>1, <1>3, NullAssumption DEF Tops
  <2>2. p \in L /\ root \in L /\ L \subseteq Nodes
    BY <1>1, <1>3, ReachedHangs
  <2> QED BY <2>1, <2>2 DEF Chained, HoldsAll
<1>10. HoldsAll(L \cup {f})'
  <2>1. \A m \in L \ {p, f} : Kids(m)' = Kids(m)
    BY <1>3, <1>4, <1>6, <1>9 DEF Kids
  <2>2. \A m \in {p, f} : Kids(m)' \subseteq Kids(p) \cup {right}
    <3>1. p # f
      BY <1>3, <1>4
    <3> QED BY <1>3, <1>4, <1>6, <3>1 DEF Kids
  <2>3. Tops' \subseteq {root, f}
    BY <1>1 DEF Tops
  <2>4. \A m \in L : Kids(m) \subseteq L
    BY DEF Chained, HoldsAll
  <2> QED BY <1>9, <2>1, <2>2, <2>3, <2>4 DEF HoldsAll
<1> QED BY <1>1, <1>4, <1>8, <1>9, <1>10 DEF Chained, Linked

\* A leaf linked in behind the one at pos: the list of leaves with one more in it.
LEMMA LinkedAtPos ==
  ASSUME NEW ch \in Seq(Nodes), IsInjective(ch), Linked(ch), NEW pos \in 1..Len(ch),
         NEW f \in Nodes, f \notin ToSet(ch), next \in [Nodes -> Nodes \cup {Null}],
         is_leaf \in [Nodes -> BOOLEAN], is_leaf' = [is_leaf EXCEPT ![f] = TRUE],
         next' = [next EXCEPT ![f] = next[ch[pos]], ![ch[pos]] = f]
  PROVE  Linked(InsertAt(ch, pos + 1, f))'
<1> DEFINE n == Len(ch)
           new == InsertAt(ch, pos + 1, f)
<1>1. n \in Nat /\ pos \in 1..n /\ \A i \in 1..n : ch[i] \in Nodes /\ ch[i] # f
  BY LenProperties, ElementOfSeq DEF ToSet
<1>2. Len(new) = n + 1
  BY <1>1, InsertAtElements
<1>3. \A j \in 1..(n + 1) :
         new[j] = IF j < pos + 1 THEN ch[j] ELSE IF j = pos + 1 THEN f ELSE ch[j - 1]
  BY <1>1, InsertAtElements
<1>4. \A i \in 1..n : i # pos => ch[i] # ch[pos]
  BY DEF IsInjective
<1>5. \A i \in 1..n : is_leaf[ch[i]] /\ next[ch[i]] = IF i < n THEN ch[i + 1] ELSE Null
  BY DEF Linked
<1>6. /\ \A i \in 1..n : is_leaf'[ch[i]]
      /\ \A i \in 1..n : i # pos => next'[ch[i]] = next[ch[i]]
      /\ is_leaf'[f] /\ next'[f] = next[ch[pos]] /\ next'[ch[pos]] = f
  BY <1>1, <1>4, <1>5
<1> HIDE DEF n, new
<1>7. ASSUME NEW i \in 1..(n + 1)
      PROVE  is_leaf'[new[i]] /\ next'[new[i]] = IF i < n + 1 THEN new[i + 1] ELSE Null
  <2>1. CASE i < pos
    <3>1. i \in 1..n /\ i + 1 \in 1..(n + 1) /\ i < n /\ i < n + 1 /\ i # pos /\ i < pos + 1
          /\ i + 1 < pos + 1
      BY <1>1, <2>1
    <3> QED BY <1>3, <1>5, <1>6, <3>1
  <2>2. CASE i = pos
    <3>1. i < pos + 1 /\ i + 1 = pos + 1 /\ i + 1 \in 1..(n + 1) /\ i < n + 1
      BY <1>1, <2>2
    <3>2. new[i] = ch[pos]
      BY <1>3, <2>2, <3>1
    <3>3. ~(pos + 1 < pos + 1)
      BY <1>1
    <3>4. new[i + 1] = f
      BY <1>3, <3>1, <3>3
    <3> QED BY <1>1, <1>6, <3>1, <3>2, <3>4
  <2>3. CASE i = pos + 1
    <3>1. ~(pos + 1 < pos + 1) /\ (i < n + 1 <=> pos < n)
      BY <1>1, <2>3
    <3>2. new[i] = f
      BY <1>3, <2>3, <3>1
    <3>3. next'[f] = IF pos < n THEN ch[pos + 1] ELSE Null
      BY <1>1, <1>5, <1>6
    <3>4. pos < n => new[i + 1] = ch[pos + 1]
      <4>1. pos < n => i + 1 \in 1..(n + 1) /\ ~(i + 1 < pos + 1) /\ i + 1 # pos + 1
                       /\ (i + 1) - 1 = pos + 1
        BY <1>1, <2>3
      <4> DEFINE j == i + 1
      <4>2. pos < n => new[j] = ch[j - 1]
        BY <1>3, <4>1
      <4> QED BY <4>1, <4>2
    <3> QED BY <1>6, <3>1, <3>2, <3>3, <3>4
  <2>4. CASE i > pos + 1
    <3> DEFINE h == i - 1
    <3>1. /\ h \in 1..n /\ h # pos /\ ~(i < pos + 1) /\ i # pos + 1 /\ (i < n + 1 <=> h < n)
          /\ h + 1 = i
      BY <1>1, <2>4
    <3>2. new[i] = ch[h]
      BY <1>3, <3>1
    <3>3. h < n => new[i + 1] = ch[i]
      <4>1. h < n => i + 1 \in 1..(n + 1) /\ ~(i + 1 < pos + 1) /\ i + 1 # pos + 1
                     /\ (i + 1) - 1 = i
        BY <1>1, <2>4
      <4> DEFINE j == i + 1
      <4>2. h < n => new[j] = ch[j - 1]
        BY <1>3, <4>1
      <4> QED BY <4>1, <4>2
    <3> HIDE DEF h
    <3>4. next'[ch[h]] = IF h < n THEN ch[h + 1] ELSE Null
      BY <1>5, <1>6, <3>1
    <3>5. is_leaf'[ch[h]]
      BY <1>6, <3>1
    <3> QED BY <3>1, <3>2, <3>3, <3>4, <3>5
  <2> QED BY <1>1, <2>1, <2>2, <2>3, <2>4
<1>8. \A i \in 1..Len(new) :
         is_leaf'[new[i]] /\ next'[new[i]] = IF i < Len(new) THEN new[i + 1] ELSE Null
  <2> TAKE i \in 1..Len(new)
  <2>1. i \in 1..(n + 1)
    BY <1>2
  <2>2. is_leaf'[new[i]] /\ next'[new[i]] = IF i < n + 1 THEN new[i + 1] ELSE Null
    BY <1>7, <2>1
  <2> QED BY <1>2, <2>2
<1>9. Linked(new)'
  BY <1>8 DEF Linked
<1> QED BY <1>9 DEF new

LEMMA SplitLeafChains ==
  ASSUME LinkInv, LevelInv, TypeInv', LevelInv', NEW L, NEW ch, Chained(L, ch), SplitLeaf,
         NEW f, f = Fresh
  PROVE  \E pos \in 1..Len(ch) :
            /\ ch[pos] = node /\ f \notin ToSet(ch)
            /\ Chained(L \cup {f}, InsertAt(ch, pos + 1, f))'
<1>1. /\ pc = "descend" /\ pc' = "parent" /\ is_leaf[node] /\ right' = f
      /\ UNCHANGED <<children, root>> /\ is_leaf' = [is_leaf EXCEPT ![f] = TRUE]
      /\ next' = [next EXCEPT ![f] = next[node], ![node] = f]
  BY DEF SplitLeaf, AtInsertLeaf, tree, LinkedAfter
<1>2. /\ f \in Nodes /\ f \notin used /\ ~is_leaf[f] /\ used \subseteq Nodes
      /\ children[f] = <<>>
  BY FreshIsLoose DEF SplitLeaf, LinkInv, TypeInv, TypeOK, HeapTypeOK
<1>3. /\ root \in Nodes /\ root \in used /\ root # Null /\ Reached(node)
      /\ is_leaf \in [Nodes -> BOOLEAN] /\ next \in [Nodes -> Nodes \cup {Null}]
  BY <1>1, NullAssumption DEF LinkInv, TypeInv, CallOK, RootIsTop, CursorReached, TypeOK, HeapTypeOK
<1>4. node \in L /\ root \in L /\ L \subseteq Nodes
  BY <1>1, <1>3, ReachedHangs
<1>5. PICK pos \in 1..Len(ch) : ch[pos] = node
  <2>1. node \in ToSet(ch)
    BY <1>1, <1>4 DEF Chained
  <2>2. ch \in Seq(Nodes)
    BY DEF Chained
  <2> QED BY <2>1, <2>2 DEF ToSet
<1>6. /\ ch \in Seq(Nodes) /\ ch # <<>> /\ IsInjective(ch) /\ Linked(ch)
      /\ ch[1] = find_leftmost_leaf[root]
  BY DEF Chained
<1>7. f \notin ToSet(ch)
  <2>1. \A i \in 1..Len(ch) : is_leaf[ch[i]]
    BY <1>6 DEF Linked
  <2> QED BY <1>2, <1>6, <2>1 DEF ToSet
<1> DEFINE new == InsertAt(ch, pos + 1, f)
<1>8. Linked(new)'
  BY <1>1, <1>2, <1>3, <1>5, <1>6, <1>7, LinkedAtPos
<1>9. pos + 1 \in 1..(Len(ch) + 1) /\ 1 < pos + 1 /\ Len(ch) \in Nat /\ 1 \in 1..(Len(ch) + 1)
  BY <1>6, LenProperties
<1>10. new \in Seq(Nodes) /\ new # <<>> /\ new[1] = ch[1]
  <2>4. new \in Seq(Nodes)
    BY <1>2, <1>6, <1>9, InsertAtInserts
  <2>1. /\ Len(new) = Len(ch) + 1
        /\ \A j \in 1..(Len(ch) + 1) : new[j] = IF j < pos + 1 THEN ch[j]
                                             ELSE IF j = pos + 1 THEN f ELSE ch[j - 1]
    BY <1>2, <1>6, <1>9, InsertAtElements
  <2>3. new[1] = ch[1]
    <3> HIDE DEF new
    <3> QED BY <1>9, <2>1
  <2>2. Len(new) # 0
    BY <1>9, <2>1
  <2> HIDE DEF new
  <2> QED BY <2>2, <2>3, <2>4
<1>11. IsInjective(new) /\ ToSet(new) = ToSet(ch) \cup {f}
  BY <1>2, <1>6, <1>7, <1>9, InsertAtInjective
<1> HIDE DEF new
<1>12. KeepsFirstKids(used)
  <2>1. \A n \in used : children[n] # <<>> => children[n][1] \in used
    BY <1>2, UsedFirstKids
  <2>2. \A n \in used : is_leaf'[n] = is_leaf[n]
    BY <1>1, <1>2, <1>3
  <2> QED BY <1>1, <2>1, <2>2 DEF KeepsFirstKids
<1>13. find_leftmost_leaf'[root] = find_leftmost_leaf[root]
  BY <1>2, <1>3, <1>12, LeftmostKept DEF LinkInv
<1>14. HoldsAll(L \cup {f})'
  <2>1. \A m \in L \cup {f} : Kids(m)' = Kids(m)
    BY <1>1 DEF Kids
  <2>2. \A m \in {f} : Kids(m) = {}
    BY <1>2, NoKids
  <2>3. Tops' \subseteq {root, f} /\ \A m \in L : Kids(m) \subseteq L
    BY <1>1 DEF Tops, Chained, HoldsAll
  <2> QED BY <1>4, <2>1, <2>2, <2>3 DEF HoldsAll
<1>15. \A n \in L \cup {f} : is_leaf'[n] => n \in ToSet(new)
  BY <1>1, <1>2, <1>3, <1>4, <1>11 DEF Chained
<1>16. Chained(L \cup {f}, new)'
  BY <1>1, <1>2, <1>4, <1>6, <1>8, <1>10, <1>11, <1>13, <1>14, <1>15 DEF Chained
<1> QED BY <1>5, <1>7, <1>16 DEF new

-----------------------------------------------------------------------------
(* Every link leads to a lower rank, and a split finds room between two.   *)

LEMMA RanksFall ==
  ASSUME RankInv, UNCHANGED next
  PROVE  RankInv'
BY DEF RankInv, RanksLinks

LEMMA DestroyKeepsRanks ==
  ASSUME LinkInv, RankInv, DestroyNode
  PROVE  RankInv'
<1>1. PICK n \in doomed : next' = [next EXCEPT ![n] = Null]
  BY DEF DestroyNode
<1>2. next \in [Nodes -> Nodes \cup {Null}]
  BY DEF LinkInv, TypeInv, TypeOK, HeapTypeOK
<1>3. \A m \in Nodes : next'[m] # Null => next'[m] = next[m]
  BY <1>1, <1>2
<1> QED BY <1>3 DEF RankInv, RanksLinks

LEMMA SplitKeepsRanks ==
  ASSUME LinkInv, RankInv, SplitLeaf, NEW L, NEW ch, Chained(L, ch), NEW f, f = Fresh,
         NEW pos \in 1..Len(ch), ch[pos] = node, f \notin ToSet(ch)
  PROVE  RankInv'
<1>1. PICK B \in Nat : \E rk \in [Nodes -> 1..B] : RanksLinks(rk)
  BY DEF RankInv
<1>2. PICK rk \in [Nodes -> 1..B] : RanksLinks(rk)
  BY <1>1
<1>3. PICK new : new = [n \in Nodes |-> IF n = f THEN 2 * rk[node] - 1
                                        ELSE IF n \in ToSet(ch) THEN 2 * rk[n]
                                        ELSE 2 * rk[n] + 2 * B]
  OBVIOUS
<1>4. next' = [next EXCEPT ![f] = next[node], ![node] = f] /\ f \in Nodes
  BY FreshIsLoose DEF SplitLeaf, LinkedAfter
<1>5. /\ next \in [Nodes -> Nodes \cup {Null}] /\ ch \in Seq(Nodes) /\ node \in Nodes
      /\ node \in ToSet(ch) /\ node # f
  <2>1. ch \in Seq(Nodes) /\ next \in [Nodes -> Nodes \cup {Null}]
    BY DEF LinkInv, TypeInv, TypeOK, HeapTypeOK, Chained
  <2>2. node \in Nodes /\ node \in ToSet(ch)
    BY <2>1, ElementOfSeq DEF ToSet
  <2> QED BY <2>1, <2>2
<1>6. \A n \in ToSet(ch) : next[n] # Null => next[n] \in ToSet(ch)
  <2>1. \A i \in 1..Len(ch) : next[ch[i]] = IF i < Len(ch) THEN ch[i + 1] ELSE Null
    BY DEF Chained, Linked
  <2>2. Len(ch) \in Nat /\ ToSet(ch) = {ch[i] : i \in 1..Len(ch)}
    BY <1>5, LenProperties DEF ToSet
  <2>3. \A i \in 1..Len(ch) : i < Len(ch) => i + 1 \in 1..Len(ch)
    BY <2>2
  <2> QED BY <2>1, <2>2, <2>3
<1> DEFINE r(n) == rk[n]
           s(n) == new[n]
<1>7. \A n \in Nodes : r(n) \in 1..B
  OBVIOUS
<1>8. \A n \in Nodes : s(n) = IF n = f THEN 2 * r(node) - 1
                              ELSE IF n \in ToSet(ch) THEN 2 * r(n) ELSE 2 * r(n) + 2 * B
  BY <1>3
<1>9. \A n \in Nodes : next[n] # Null => next[n] \in Nodes /\ r(next[n]) < r(n)
  BY <1>2, <1>5 DEF RanksLinks
<1>10. new = [n \in Nodes |-> s(n)]
  BY <1>3
<1> HIDE DEF r, s
<1>11. \A n \in Nodes : s(n) \in 1..(4 * B)
  <2> TAKE n \in Nodes
  <2> DEFINE a == r(n)
             b == r(node)
  <2>1. a \in 1..B /\ b \in 1..B /\ B \in Nat
    BY <1>5, <1>7
  <2>2. s(n) \in {2 * b - 1, 2 * a, 2 * a + 2 * B}
    BY <1>8
  <2> HIDE DEF a, b
  <2>3. (2 * b - 1 \in 1..(4 * B)) /\ (2 * a \in 1..(4 * B)) /\ (2 * a + 2 * B \in 1..(4 * B))
    BY <2>1
  <2> QED BY <2>2, <2>3
<1>12. ASSUME NEW n \in Nodes, next'[n] # Null PROVE s(next'[n]) < s(n)
  <2> DEFINE b == r(node)
  <2>1. b \in 1..B
    BY <1>5, <1>7
  <2>2. CASE n = f
    <3> DEFINE m == next[node]
               c == r(m)
    <3>1. next'[n] = m
      BY <1>4, <1>5, <2>2
    <3>2. m \in Nodes /\ m \in ToSet(ch) /\ c < b /\ m # f
      BY <1>5, <1>6, <1>9, <1>12, <3>1
    <3>3. s(m) = 2 * c /\ s(n) = 2 * b - 1 /\ c \in 1..B
      BY <1>7, <1>8, <2>2, <3>2
    <3> HIDE DEF m, c, b
    <3>4. 2 * c < 2 * b - 1
      BY <2>1, <3>2, <3>3
    <3> QED BY <3>1, <3>3, <3>4
  <2>3. CASE n = node
    <3>1. next'[n] = f
      BY <1>4, <1>5, <2>3
    <3>2. s(n) = 2 * b /\ s(f) = 2 * b - 1
      BY <1>4, <1>5, <1>8, <2>3
    <3> HIDE DEF b
    <3>3. 2 * b - 1 < 2 * b
      BY <2>1
    <3> QED BY <3>1, <3>2, <3>3
  <2>4. CASE n # f /\ n # node
    <3> DEFINE m == next[n]
               a == r(n)
               c == r(m)
    <3>1. next'[n] = m
      BY <1>4, <1>5, <2>4
    <3>2. m \in Nodes /\ c < a /\ a \in 1..B /\ c \in 1..B
      BY <1>7, <1>9, <1>12, <3>1
    <3>3. CASE n \in ToSet(ch)
      <4>1. m \in ToSet(ch) /\ m # f
        BY <1>6, <1>12, <3>1, <3>3
      <4>2. s(m) = 2 * c /\ s(n) = 2 * a
        BY <1>8, <2>4, <3>2, <3>3, <4>1
      <4> HIDE DEF m, a, c
      <4>3. 2 * c < 2 * a
        BY <3>2
      <4> QED BY <3>1, <4>2, <4>3
    <3>4. CASE n \notin ToSet(ch)
      <4>1. s(n) = 2 * a + 2 * B
        BY <1>8, <2>4, <3>4
      <4>2. s(m) \in {2 * b - 1, 2 * c, 2 * c + 2 * B}
        BY <1>8, <3>2
      <4> HIDE DEF m, a, b, c
      <4>3. 2 * b - 1 < 2 * a + 2 * B /\ 2 * c < 2 * a + 2 * B /\ 2 * c + 2 * B < 2 * a + 2 * B
        BY <2>1, <3>2
      <4> QED BY <3>1, <4>1, <4>2, <4>3
    <3> QED BY <3>3, <3>4
  <2> QED BY <2>2, <2>3, <2>4
<1>13. new \in [Nodes -> 1..(4 * B)]
  BY <1>10, <1>11
<1>14. RanksLinks(new)'
  <2>1. \A n \in Nodes : new[n] = s(n)
    BY <1>10
  <2>2. \A n \in Nodes : next'[n] # Null => next'[n] \in Nodes
    BY <1>4, <1>5
  <2> QED BY <1>12, <2>1, <2>2 DEF RanksLinks
<1>15. 4 * B \in Nat
  OBVIOUS
<1> QED BY <1>13, <1>14, <1>15 DEF RankInv

LEMMA RankInvInit == Init => RankInv
<1> SUFFICES ASSUME Init PROVE RankInv
  OBVIOUS
<1> DEFINE rk == [n \in Nodes |-> 1]
<1>1. rk \in [Nodes -> 1..1] /\ RanksLinks(rk)
  BY DEF RanksLinks, Init
<1> HIDE DEF rk
<1> QED BY <1>1 DEF RankInv

-----------------------------------------------------------------------------
(* One step of the chain.                                                  *)

\* The steps that leave every node as it is.
Quiet ==
    /\ UNCHANGED <<used, is_leaf, keys, offsets, children, next, root, key_count>>
    /\ Tops' \subseteq Tops
    /\ pc' = "parent" => pc = "parent" /\ UNCHANGED <<node, separator, right>>
    /\ pc = "parent" /\ pc' # "parent" => InsertIntoParentFails

Writes == InsertIntoLeaf \/ SplitLeaf \/ NewRoot \/ InsertIntoInternalNode \/ SplitInternal

LEMMA QuietOrWrites ==
  ASSUME [Next]_vars, root # Null, pc # "destroy", pc' # "destroy"
  PROVE  Quiet \/ Writes
<1>1. ASSUME NEW k \in Keys,
             \/ InsertFirstOutOfMemory(k) \/ SearchEmpty(k) \/ DestroyEmpty \/ CallDestroy
             \/ DestroyReturns \/ DestroyNode \/ \E o \in Offsets : InsertFirst(k, o)
      PROVE  FALSE
  BY <1>1 DEF InsertFirst, InsertFirstOutOfMemory, SearchEmpty, DestroyEmpty, CallDestroy,
              DestroyReturns, DestroyNode
<1>2. ASSUME NEW k \in Keys, CallSearch(k) \/ \E o \in Offsets : CallInsert(k, o) PROVE Quiet
  BY <1>2 DEF CallSearch, CallInsert, Quiet, heap, tree, Tops
<1>3. CASE Descend \/ SearchLeaf
  BY <1>3 DEF Descend, SearchLeaf, Return, Quiet, heap, tree, Tops
<1>4. CASE InsertDuplicate \/ SplitLeafOutOfMemory
  BY <1>4 DEF InsertDuplicate, SplitLeafOutOfMemory, InsertFails, AtInsertLeaf, Return, Quiet, heap,
              tree, Tops
<1>5. CASE InsertIntoParentFails
  BY <1>5 DEF InsertIntoParentFails, InsertFails, Return, Quiet, heap, tree, Tops
<1>6. CASE UNCHANGED vars
  BY <1>6 DEF vars, heap, tree, frame, Quiet, Tops
<1>7. CASE DestroyEmpty \/ CallDestroy \/ DestroyReturns \/ DestroyNode
  BY <1>7 DEF DestroyEmpty, CallDestroy, DestroyReturns, DestroyNode
<1> QED BY <1>1, <1>2, <1>3, <1>4, <1>5, <1>6, <1>7 DEF Next, Call, Step, Writes

\* How the chain goes on: as it is, or with a new leaf behind the one that was split.
LEMMA ChainGoesOn ==
  ASSUME LinkInv, LevelInv, TypeInv', LevelInv', root # Null, NEW L, NEW ch, Chained(L, ch),
         Quiet \/ Writes, NEW f, f = Fresh
  PROVE  IF SplitLeaf
         THEN \E pos \in 1..Len(ch) :
                 /\ ch[pos] = node /\ f \notin ToSet(ch)
                 /\ Chained(L \cup {f}, InsertAt(ch, pos + 1, f))'
         ELSE \E M : Chained(M, ch)'
<1>1. CASE SplitLeaf
  BY <1>1, SplitLeafChains
<1> SUFFICES ASSUME ~SplitLeaf PROVE \E M : Chained(M, ch)'
  BY <1>1
<1>2. CASE Quiet
  <2>1. Chained(L, ch)'
    BY <1>2, ChainStays DEF Quiet
  <2> QED BY <2>1
<1>3. CASE InsertIntoLeaf
  <2>1. /\ UNCHANGED <<is_leaf, children, next, root>> /\ Tops' \subseteq Tops
    BY <1>3 DEF InsertIntoLeaf, Return, AtInsertLeaf, Tops
  <2>2. Chained(L, ch)'
    BY <2>1, ChainStays
  <2> QED BY <2>2
<1>4. CASE NewRoot
  <2>1. Chained(L \cup {f}, ch)'
    BY <1>4, NewRootChains
  <2> QED BY <2>1
<1>5. CASE InsertIntoInternalNode
  <2>1. Chained(L, ch)'
    BY <1>5, InternalChains
  <2> QED BY <2>1
<1>6. CASE SplitInternal
  <2>1. Chained(L \cup {f}, ch)'
    BY <1>6, SplitInternalChains
  <2> QED BY <2>1
<1> QED BY <1>2, <1>3, <1>4, <1>5, <1>6 DEF Writes

\* Where there is no tree yet, only the first insertion makes one.
LEMMA OnlyFirst ==
  ASSUME [Next]_vars, root = Null, root' # Null, pc # "destroy", pc' # "destroy", TypeInv
  PROVE  \E k \in Keys : \E o \in Offsets : InsertFirst(k, o)
<1>1. pc \in {"idle", "destroy"}
  BY NullAssumption DEF TypeInv, CallOK, TypeOK, CallTypeOK
<1>2. CASE Step
  BY <1>1, <1>2 DEF Step, Descend, SearchLeaf, InsertDuplicate, InsertIntoLeaf, SplitLeaf,
      SplitLeafOutOfMemory, NewRoot, InsertIntoInternalNode, SplitInternal, InsertIntoParentFails,
      DestroyNode, DestroyReturns, AtInsertLeaf
<1>3. ASSUME NEW k \in Keys,
             \/ InsertFirstOutOfMemory(k) \/ SearchEmpty(k) \/ CallSearch(k)
             \/ \E o \in Offsets : CallInsert(k, o)
      PROVE  FALSE
  BY <1>3 DEF InsertFirstOutOfMemory, SearchEmpty, CallSearch, CallInsert, tree
<1>4. CASE DestroyEmpty \/ CallDestroy
  BY <1>4 DEF DestroyEmpty, CallDestroy
<1>5. CASE UNCHANGED vars
  BY <1>5 DEF vars, tree
<1> QED BY <1>2, <1>3, <1>4, <1>5 DEF Next, Call

LEMMA ChainInvInit == Init => ChainInv
<1> SUFFICES ASSUME Init PROVE ChainInv
  OBVIOUS
<1>1. root = Null
  BY DEF Init
<1> QED BY <1>1, LinkInvInit, WholeInvInit, LevelInvInit, RankInvInit DEF ChainInv

LEMMA RankInvStep ==
  ASSUME ChainInv, [Next]_vars
  PROVE  RankInv'
<1> USE DEF ChainInv
<1>1. ASSUME NEW k \in Keys,
             \/ InsertFirstOutOfMemory(k) \/ SearchEmpty(k) \/ CallSearch(k)
             \/ \E o \in Offsets : CallInsert(k, o) \/ InsertFirst(k, o)
      PROVE  UNCHANGED next
  BY <1>1 DEF InsertFirstOutOfMemory, SearchEmpty, CallSearch, CallInsert, InsertFirst, heap
<1>2. CASE \/ DestroyEmpty \/ CallDestroy \/ Descend \/ SearchLeaf \/ InsertDuplicate
           \/ DestroyReturns \/ SplitLeafOutOfMemory \/ InsertIntoParentFails
  BY <1>2, RanksFall DEF DestroyEmpty, CallDestroy, Descend, SearchLeaf, InsertDuplicate,
      DestroyReturns, SplitLeafOutOfMemory, InsertIntoParentFails, InsertFails, heap
<1>3. CASE InsertIntoLeaf \/ NewRoot \/ InsertIntoInternalNode \/ SplitInternal
  BY <1>3, RanksFall DEF InsertIntoLeaf, NewRoot, InsertIntoInternalNode, SplitInternal
<1>4. CASE SplitLeaf
  <2>1. /\ root # Null /\ pc = "descend" /\ pc' = "parent"
        /\ [Next]_vars
    BY <1>4, NullAssumption DEF SplitLeaf, AtInsertLeaf, LinkInv, TypeInv, CallOK
  <2>2. PICK L, ch : Chained(L, ch)
    BY <2>1
  <2>3. PICK f : f = Fresh
    OBVIOUS
  <2>4. TypeInv' /\ LevelInv'
    BY TypeInvStep, LevelInvStep DEF LinkInv
  <2>5. PICK pos \in 1..Len(ch) : ch[pos] = node /\ f \notin ToSet(ch)
    BY <1>4, <2>2, <2>3, <2>4, SplitLeafChains
  <2> QED BY <1>4, <2>2, <2>3, <2>5, SplitKeepsRanks
<1>5. CASE DestroyNode
  BY <1>5, DestroyKeepsRanks
<1>6. CASE UNCHANGED vars
  BY <1>6, RanksFall DEF vars, heap
<1> QED BY <1>1, <1>2, <1>3, <1>4, <1>5, <1>6, RanksFall DEF Next, Call, Step

LEMMA ChainInvStep ==
  ASSUME ChainInv, [Next]_vars
  PROVE  ChainInv'
<1>1. LinkInv' /\ TypeInv'
  BY LinkInvStep DEF ChainInv, LinkInv
<1>2. WholeInv' /\ LevelInv' /\ RankInv'
  BY <1>1, WholeInvStep, LevelInvStep, RankInvStep DEF ChainInv
<1>3. ASSUME pc' # "destroy", root' # Null PROVE (\E L, ch : Chained(L, ch))'
  <2>1. PICK f : f = Fresh
    OBVIOUS
  <2>2. pc # "destroy"
    <3>1. CASE pc = "destroy"
      BY <1>3, <3>1 DEF Next, Call, Step, InsertFirst, InsertFirstOutOfMemory, SearchEmpty, CallSearch,
          CallInsert, DestroyEmpty, CallDestroy, Descend, SearchLeaf, InsertDuplicate, InsertIntoLeaf,
          SplitLeaf, SplitLeafOutOfMemory, NewRoot, InsertIntoInternalNode, SplitInternal,
          InsertIntoParentFails, DestroyNode, DestroyReturns, AtInsertLeaf, vars
    <3> QED BY <3>1
  <2>3. CASE root = Null
    <3>1. PICK k \in Keys, o \in Offsets : InsertFirst(k, o)
      BY <1>3, <2>2, <2>3, OnlyFirst DEF ChainInv, LinkInv
    <3>2. Chained({f}, <<f>>)'
      BY <1>1, <1>2, <2>1, <3>1, FirstChains DEF ChainInv, WholeInv
    <3> QED BY <3>2
  <2>4. CASE root # Null
    <3>1. PICK L, ch : Chained(L, ch)
      BY <2>2, <2>4 DEF ChainInv
    <3>2. Quiet \/ Writes
      BY <1>3, <2>2, <2>4, QuietOrWrites
    <3>3. IF SplitLeaf
          THEN \E pos \in 1..Len(ch) : Chained(L \cup {f}, InsertAt(ch, pos + 1, f))'
          ELSE \E M : Chained(M, ch)'
      BY <1>1, <1>2, <2>1, <2>4, <3>1, <3>2, ChainGoesOn DEF ChainInv
    <3> QED BY <3>3
  <2> QED BY <2>3, <2>4
<1> QED BY <1>1, <1>2, <1>3 DEF ChainInv

\* Whatever allocations fail: the leaf chain begins at the leftmost leaf, repeats no leaf and
\* has every leaf below the root; all leaves are equally deep and no next pointer leads back.
THEOREM ChainInvariant == Spec => []ChainInv
<1>1. ChainInv /\ [Next]_vars => ChainInv'
  BY ChainInvStep
<1> QED BY <1>1, ChainInvInit, PTL DEF Spec

-----------------------------------------------------------------------------
(* No row is lost.                                                         *)

\* The chain of the code is the list the invariant knows.
ChainIs == \A L, ch : Chained(L, ch) => LeafChain = ch

LEMMA ChainKnown == ChainInv /\ root # Null => ChainIs
<1> SUFFICES ASSUME ChainInv, root # Null, NEW L, NEW ch, Chained(L, ch) PROVE LeafChain = ch
  BY DEF ChainIs
<1> QED BY TheChain

LEMMA ChainedLeaves ==
  ASSUME LinkInv, NEW L, NEW ch, Chained(L, ch)
  PROVE  ToSet(ch) \subseteq Leaves /\ ToSet(ch) \subseteq Nodes
<1>1. ch \in Seq(Nodes) /\ \A i \in 1..Len(ch) : is_leaf[ch[i]]
  BY DEF Chained, Linked
<1>2. \A n \in ToSet(ch) : n \in Nodes /\ is_leaf[n]
  BY <1>1, ElementOfSeq DEF ToSet
<1> QED BY <1>2, AllLeaves DEF LinkInv

\* The theorem for one step.
LEMMA ChainKeepsRowsStep ==
  ASSUME ChainInv, ChainInv', [Next]_vars, pc # "destroy", pc' # "destroy"
  PROVE  RowsInChain \subseteq RowsInChain'
<1>1. CASE root = Null
  <2>1. LeafChain = <<>>
    BY <1>1 DEF LeafChain
  <2>2. RowsInChain = {}
    BY <2>1 DEF RowsInChain, ToSet
  <2> QED BY <2>2
<1>2. CASE root # Null
  <2>1. PICK L, ch : Chained(L, ch)
    BY <1>2 DEF ChainInv
  <2>2. PICK f : f = Fresh
    OBVIOUS
  <2>3. Quiet \/ Writes
    BY <1>2, QuietOrWrites
  <2>4. root' # Null
    <3>1. CASE NewRoot
      BY <3>1, FreshIsLoose, NullAssumption DEF NewRoot, ChainInv
    <3> QED BY <1>2, <2>3, <3>1 DEF Quiet, Writes, InsertIntoLeaf, SplitLeaf, InsertIntoInternalNode,
                                    SplitInternal, tree
  <2>5. RowsInChain = UNION {RowsOf(n) : n \in ToSet(ch)}
    <3>1. LeafChain = ch
      BY <1>2, <2>1, TheChain
    <3> QED BY <3>1 DEF RowsInChain
  <2>6. ChainIs'
    <3>1. (ChainInv /\ root # Null => ChainIs)'
      BY ChainKnown, PTL
    <3> QED BY <2>4, <3>1
  <2>7. /\ LinkInv /\ TypeInv' /\ LevelInv /\ LevelInv'
        /\ ToSet(ch) \subseteq Leaves /\ ToSet(ch) \subseteq Nodes
    BY <2>1, ChainedLeaves DEF ChainInv, LinkInv
  <2>8. CASE SplitLeaf
    <3>1. PICK pos \in 1..Len(ch) :
             /\ ch[pos] = node /\ f \notin ToSet(ch)
             /\ Chained(L \cup {f}, InsertAt(ch, pos + 1, f))'
      BY <1>2, <2>1, <2>2, <2>3, <2>7, <2>8, ChainGoesOn
    <3>2. ToSet(InsertAt(ch, pos + 1, f)) = ToSet(ch) \cup {f}
      <4>1. f \in Nodes
        BY <2>2, <2>7, <2>8, FreshIsLoose DEF SplitLeaf
      <4>2. ch \in Seq(Nodes) /\ IsInjective(ch)
        BY <2>1 DEF Chained
      <4>3. pos + 1 \in 1..(Len(ch) + 1)
        BY <4>2, LenProperties
      <4> QED BY <3>1, <4>1, <4>2, <4>3, InsertAtInjective
    <3>3. LeafChain' = InsertAt(ch, pos + 1, f)
      <4>1. PICK new : new = InsertAt(ch, pos + 1, f)
        OBVIOUS
      <4>2. PICK M : Chained(M, new)'
        BY <3>1, <4>1
      <4>3. LeafChain' = new
        BY <2>6, <4>2 DEF ChainIs
      <4> QED BY <4>1, <4>3
    <3>4. RowsInChain' = UNION {RowsOf(n)' : n \in ToSet(ch) \cup {f}}
      BY <3>2, <3>3 DEF RowsInChain
    <3>5. /\ \A m \in Leaves \ {node} : RowsOf(m)' = RowsOf(m)
          /\ \A m \in {node} : \A q \in {f} :
                RowsOf(m)' \cup RowsOf(q)' = RowsOf(m) \cup {<<call.key, call.row_offset>>}
      BY <2>2, <2>7, <2>8, SplitSharesRows
    <3>6. \A m \in {node} : \A q \in {f} : RowsOf(m) \subseteq RowsOf(m)' \cup RowsOf(q)'
      BY <3>5
    <3>7. \A n \in ToSet(ch) : RowsOf(n) \subseteq RowsInChain'
      <4>1. ASSUME NEW n \in ToSet(ch), n = node PROVE RowsOf(n) \subseteq RowsInChain'
        <5>1. \A q \in {f} : RowsOf(n) \subseteq RowsOf(n)' \cup RowsOf(q)'
          BY <3>6, <4>1
        <5>2. \A q \in {f} : RowsOf(q)' \subseteq RowsInChain'
          BY <3>4
        <5>3. RowsOf(n)' \subseteq RowsInChain'
          BY <3>4
        <5> QED BY <5>1, <5>2, <5>3
      <4>2. ASSUME NEW n \in ToSet(ch), n # node PROVE RowsOf(n) \subseteq RowsInChain'
        <5>1. RowsOf(n)' = RowsOf(n)
          BY <2>7, <3>5, <4>2
        <5>2. RowsOf(n)' \subseteq RowsInChain'
          BY <3>4
        <5> QED BY <5>1, <5>2
      <4> QED BY <4>1, <4>2
    <3> QED BY <2>5, <3>7
  <2>9. CASE ~SplitLeaf
    <3>1. PICK M : Chained(M, ch)'
      BY <1>2, <2>1, <2>2, <2>3, <2>7, <2>9, ChainGoesOn
    <3>2. LeafChain' = ch
      BY <2>6, <3>1 DEF ChainIs
    <3>3. RowsInChain' = UNION {RowsOf(n)' : n \in ToSet(ch)}
      BY <3>2 DEF RowsInChain
    <3>4. \A n \in ToSet(ch) : RowsOf(n) \subseteq RowsOf(n)'
      <4>1. CASE Quiet
        BY <4>1 DEF Quiet, RowsOf
      <4>2. CASE InsertIntoLeaf
        <5>1. /\ \A m \in Leaves \ {node} : RowsOf(m)' = RowsOf(m)
              /\ \A m \in {node} : RowsOf(m)' = RowsOf(m) \cup {<<call.key, call.row_offset>>}
          BY <2>7, <4>2, LeafGainsRow
        <5>2. \A m \in Leaves : RowsOf(m) \subseteq RowsOf(m)'
          BY <5>1
        <5> QED BY <2>7, <5>2
      <4>3. CASE NewRoot \/ InsertIntoInternalNode \/ SplitInternal
        <5>1. \A n \in Leaves : keys'[n] = keys[n] /\ offsets'[n] = offsets[n]
          BY <2>7, <4>3, ParentKeepsLeaves
        <5>2. \A n \in Leaves : RowsOf(n)' = RowsOf(n)
          BY <5>1 DEF RowsOf
        <5> QED BY <2>7, <5>2
      <4> QED BY <2>3, <2>9, <4>1, <4>2, <4>3 DEF Writes
    <3> QED BY <2>5, <3>3, <3>4
  <2> QED BY <2>8, <2>9
<1> QED BY <1>1, <1>2

\* ChainKeepsRows: whatever allocations fail, no step but bptree_destroy drops a row from the
\* leaf chain, also none of a call that fails half way (the splits, insert_into_leaf).
THEOREM ChainNeverLosesRows == Spec => ChainKeepsRows
<1>1. ChainInv /\ ChainInv' /\ [Next]_vars =>
         [{pc, pc'} \cap {"destroy"} = {} => RowsInChain \subseteq RowsInChain']_vars
  BY ChainKeepsRowsStep
<1> QED BY <1>1, ChainInvariant, PTL DEF Spec, ChainKeepsRows

-----------------------------------------------------------------------------
(* The keys of the chain, and those that are counted.                      *)

\* The keys the chain stores, and those the running call has put there or counted.
Stored(ch) == Len(KeysAlong(ch))
Counted == key_count + (IF pc = "parent" THEN 1 ELSE 0)

LEMMA KeysOnChain ==
  ASSUME TypeInv, NEW ch \in Seq(Nodes)
  PROVE  /\ [i \in DOMAIN ch |-> keys[ch[i]]] \in Seq(Seq(Nat))
         /\ Len([i \in DOMAIN ch |-> keys[ch[i]]]) = Len(ch)
         /\ Len(ch) \in Nat /\ DOMAIN ch = 1..Len(ch)
<1> DEFINE n == Len(ch)
           s == [i \in DOMAIN ch |-> keys[ch[i]]]
<1>1. n \in Nat /\ DOMAIN ch = 1..n /\ \A i \in 1..n : ch[i] \in Nodes
  BY LenProperties, ElementOfSeq
<1>2. \A i \in 1..n : keys[ch[i]] \in Seq(Nat)
  BY <1>1, KeysAreNumbers
<1>3. s \in [1..n -> Seq(Nat)]
  BY <1>1, <1>2
<1> HIDE DEF s
<1>4. s \in Seq(Seq(Nat)) /\ Len(s) = n
  BY <1>1, <1>3, FunctionIsSeq
<1> QED BY <1>1, <1>4 DEF s

\* The same, to be read of the next state.
ChainHasKeys ==
    \A c \in Seq(Nodes) : /\ [i \in DOMAIN c |-> keys[c[i]]] \in Seq(Seq(Nat))
                          /\ Len([i \in DOMAIN c |-> keys[c[i]]]) = Len(c)

LEMMA KeysOnChains == TypeInv => ChainHasKeys
BY KeysOnChain DEF ChainHasKeys

LEMMA StoredKept ==
  ASSUME NEW ch \in Seq(Nodes), \A n \in ToSet(ch) : keys'[n] = keys[n]
  PROVE  Stored(ch)' = Stored(ch)
<1>1. \A i \in DOMAIN ch : keys'[ch[i]] = keys[ch[i]]
  BY DEF ToSet
<1>2. [i \in DOMAIN ch |-> keys'[ch[i]]] = [i \in DOMAIN ch |-> keys[ch[i]]]
  BY <1>1
<1> QED BY <1>2 DEF Stored, KeysAlong

LEMMA LeafCounts ==
  ASSUME LinkInv, TypeInv', NEW L, NEW ch, Chained(L, ch), InsertIntoLeaf
  PROVE  Stored(ch)' = Stored(ch) + 1
<1>1. /\ is_leaf[node] /\ pc = "descend" /\ node \in Nodes /\ root \in Nodes /\ Reached(node)
      /\ keys \in [Nodes -> Seq(Keys)] /\ call.key \in Nat
  BY KeysAssumption DEF InsertIntoLeaf, AtInsertLeaf, LinkInv, TypeInv, CallOK, TypeOK, HeapTypeOK, CursorReached
<1>2. PICK j \in 1..(Len(keys[node]) + 1) :
         keys' = [keys EXCEPT ![node] = InsertAt(@, j, call.key)]
  BY DEF InsertIntoLeaf
<1>3. ch \in Seq(Nodes) /\ IsInjective(ch) /\ node \in ToSet(ch)
  BY <1>1, ReachedHangs, NullAssumption DEF Chained
<1>4. PICK pos \in 1..Len(ch) : ch[pos] = node
  BY <1>3 DEF ToSet
<1> DEFINE s == [i \in DOMAIN ch |-> keys[ch[i]]]
           t == [i \in DOMAIN ch |-> keys'[ch[i]]]
<1>5. s \in Seq(Seq(Nat)) /\ Len(s) = Len(ch) /\ DOMAIN ch = 1..Len(ch)
  BY <1>3, KeysOnChain DEF LinkInv
<1>6. t \in Seq(Seq(Nat)) /\ Len(t) = Len(ch)
  <2>1. ChainHasKeys'
    <3>1. (TypeInv => ChainHasKeys)'
      BY KeysOnChains, PTL
    <3> QED BY <3>1
  <2> QED BY <1>3, <2>1 DEF ChainHasKeys
<1>7. Len(t[pos]) = Len(s[pos]) + 1
  <2>1. Len(InsertAt(keys[node], j, call.key)) = Len(keys[node]) + 1
    <3> DEFINE q == keys[node]
    <3>1. q \in Seq(Nat) /\ j \in 1..(Len(q) + 1)
      BY <1>1, KeysAreNumbers DEF LinkInv
    <3> HIDE DEF q
    <3>2. Len(InsertAt(q, j, call.key)) = Len(q) + 1
      BY <1>1, <3>1, NatInsertAt
    <3> QED BY <3>2 DEF q
  <2>2. keys'[node] = InsertAt(keys[node], j, call.key)
    BY <1>1, <1>2
  <2> QED BY <1>4, <1>5, <2>1, <2>2
<1>8. \A i \in 1..Len(s) : i # pos => t[i] = s[i]
  <2>1. \A i \in 1..Len(ch) : i # pos => ch[i] # node
    BY <1>3, <1>4, <1>5 DEF IsInjective
  <2>2. \A i \in 1..Len(ch) : i # pos => keys'[ch[i]] = keys[ch[i]]
    BY <1>1, <1>2, <1>3, <2>1, ElementOfSeq
  <2> QED BY <1>5, <2>2
<1>9. Stored(ch) = Len(FlattenSeq(s)) /\ Stored(ch)' = Len(FlattenSeq(t))
  BY DEF Stored, KeysAlong
<1> HIDE DEF s, t
<1>10. pos \in 1..Len(s) /\ Len(t) = Len(s)
  BY <1>5, <1>6
<1> QED BY <1>5, <1>6, <1>7, <1>8, <1>9, <1>10, OnePartGrows

LEMMA SplitCounts ==
  ASSUME LinkInv, TypeInv', NEW ch \in Seq(Nodes), SplitLeaf, NEW f, f = Fresh, f \notin ToSet(ch),
         NEW pos \in 1..Len(ch), ch[pos] = node, IsInjective(ch)
  PROVE  Stored(InsertAt(ch, pos + 1, f))' = Stored(ch) + 1
<1> DEFINE n == Len(keys[node])
           h == Half(n + 1)
           new == InsertAt(ch, pos + 1, f)
           m == Len(ch)
<1>1. /\ node \in Nodes /\ call.key \in Nat /\ keys \in [Nodes -> Seq(Keys)]
      /\ f \in Nodes /\ f # node
  <2>1. node \in Nodes /\ call.key \in Nat /\ keys \in [Nodes -> Seq(Keys)] /\ is_leaf[node]
    BY KeysAssumption DEF SplitLeaf, AtInsertLeaf, LinkInv, TypeInv, CallOK, TypeOK, HeapTypeOK
  <2>2. f \in Nodes /\ ~is_leaf[f]
    BY FreshIsLoose DEF SplitLeaf
  <2> QED BY <2>1, <2>2
<1>2. PICK j \in 1..(n + 1) :
         LET temp == InsertAt(keys[node], j, call.key)
         IN keys' = [keys EXCEPT ![node] = SubSeq(temp, 1, h), ![f] = SubSeq(temp, h + 1, n + 1)]
  BY DEF SplitLeaf
<1> DEFINE temp == InsertAt(keys[node], j, call.key)
           a == SubSeq(temp, 1, h)
           b == SubSeq(temp, h + 1, n + 1)
<1>3. keys[node] \in Seq(Nat) /\ n \in Nat
  BY <1>1, KeysAreNumbers DEF LinkInv
<1>4. temp \in Seq(Nat) /\ Len(temp) = n + 1
  <2> DEFINE q == keys[node]
  <2>1. q \in Seq(Nat) /\ j \in 1..(Len(q) + 1)
    BY <1>3
  <2> HIDE DEF q
  <2>2. InsertAt(q, j, call.key) \in Seq(Nat) /\ Len(InsertAt(q, j, call.key)) = Len(q) + 1
    BY <1>1, <2>1, NatInsertAt
  <2> QED BY <2>2 DEF q
<1>5. h \in Nat /\ h <= n + 1 /\ h + 1 <= n + 1 + 1
  <2>1. h = (n + 1) \div 2
    BY DEF Half
  <2> HIDE DEF h, n
  <2> QED BY <1>3, <2>1
<1>6. Len(a) + Len(b) = n + 1
  <2> HIDE DEF temp, n, h
  <2>1. 1 <= 1 /\ h <= Len(temp) /\ 1 \in Nat
    BY <1>4, <1>5
  <2>2. Len(a) = IF 1 <= h THEN h - 1 + 1 ELSE 0
    BY <1>4, <1>5, <2>1, SubSeqTyped
  <2> DEFINE lo == h + 1
             hi == n + 1
  <2>3. lo \in Nat /\ hi \in Nat /\ 1 <= lo /\ hi <= Len(temp)
    BY <1>3, <1>4, <1>5
  <2>4. Len(b) = IF lo <= hi THEN hi - lo + 1 ELSE 0
    <3> HIDE DEF lo, hi
    <3>1. Len(SubSeq(temp, lo, hi)) = IF lo <= hi THEN hi - lo + 1 ELSE 0
      BY <1>4, <2>3, SubSeqTyped
    <3> QED BY <3>1 DEF lo, hi
  <2> HIDE DEF a, b
  <2> QED BY <1>3, <1>5, <2>2, <2>4
<1>7. keys' = [keys EXCEPT ![node] = a, ![f] = b]
  BY <1>2
<1> HIDE DEF a, b, temp, h
<1>8. keys'[node] = a /\ keys'[f] = b /\ \A x \in Nodes : x # node /\ x # f => keys'[x] = keys[x]
  BY <1>1, <1>7
<1>9. /\ m \in Nat /\ pos \in 1..m /\ \A i \in 1..m : ch[i] \in Nodes /\ ch[i] # f
      /\ \A i \in 1..m : i # pos => ch[i] # node
  BY LenProperties, ElementOfSeq DEF ToSet, IsInjective
<1>10. /\ Len(new) = m + 1 /\ new \in Seq(Nodes)
       /\ \A i \in 1..(m + 1) :
            new[i] = IF i < pos + 1 THEN ch[i] ELSE IF i = pos + 1 THEN f ELSE ch[i - 1]
  <2>1. pos + 1 \in 1..(Len(ch) + 1)
    BY <1>9
  <2>2. new \in Seq(Nodes)
    BY <1>1, <2>1, InsertAtInserts
  <2>3. /\ Len(new) = m + 1
        /\ \A i \in 1..(m + 1) :
            new[i] = IF i < pos + 1 THEN ch[i] ELSE IF i = pos + 1 THEN f ELSE ch[i - 1]
    <3>1. m \in Nat /\ m = Len(ch) /\ pos + 1 \in 1..(Len(ch) + 1) /\ f \in Nodes
      BY <1>1, <1>9, <2>1
    <3> HIDE DEF m
    <3> QED BY <3>1, InsertAtElements
  <2> QED BY <2>2, <2>3
<1> DEFINE s == [i \in DOMAIN ch |-> keys[ch[i]]]
           t == [i \in DOMAIN new |-> keys'[new[i]]]
<1>11. s \in Seq(Seq(Nat)) /\ Len(s) = m /\ DOMAIN ch = 1..m
  BY KeysOnChain DEF LinkInv
<1>12. t \in Seq(Seq(Nat)) /\ Len(t) = m + 1 /\ DOMAIN new = 1..(m + 1)
  <2>1. ChainHasKeys'
    <3>1. (TypeInv => ChainHasKeys)'
      BY KeysOnChains, PTL
    <3> QED BY <3>1
  <2> HIDE DEF new
  <2>2. t \in Seq(Seq(Nat)) /\ Len(t) = Len(new)
    BY <1>10, <2>1 DEF ChainHasKeys
  <2> QED BY <1>10, <2>2, LenProperties
<1>13. Stored(ch) = Len(FlattenSeq(s)) /\ Stored(new)' = Len(FlattenSeq(t))
  BY DEF Stored, KeysAlong
<1> HIDE DEF n, m, new
<1>14. s[pos] = keys[node] /\ \A i \in 1..m : s[i] = keys[ch[i]]
  BY <1>9, <1>11
<1>15. \A i \in 1..(m + 1) : t[i] = keys'[new[i]]
  BY <1>12
<1> HIDE DEF s, t
<1>16. t[pos] = a /\ t[pos + 1] = b
  <2>1. pos \in 1..(m + 1) /\ pos < pos + 1 /\ pos + 1 \in 1..(m + 1) /\ ~(pos + 1 < pos + 1)
    BY <1>9
  <2>2. new[pos] = ch[pos] /\ new[pos + 1] = f
    BY <1>10, <2>1
  <2> QED BY <1>8, <1>15, <2>1, <2>2
<1>17. \A i \in 1..m : i < pos => t[i] = s[i]
  <2>1. ASSUME NEW i \in 1..m, i < pos PROVE t[i] = s[i]
    <3>1. i \in 1..(m + 1) /\ i < pos + 1 /\ i # pos
      BY <1>9, <2>1
    <3>2. new[i] = ch[i]
      BY <1>10, <3>1
    <3> QED BY <1>8, <1>9, <1>14, <1>15, <3>1, <3>2
  <2> QED BY <2>1
<1>18. \A i \in 1..m : i > pos => t[i + 1] = s[i]
  <2>1. ASSUME NEW i \in 1..m, i > pos PROVE t[i + 1] = s[i]
    <3> DEFINE k == i + 1
    <3>1. k \in 1..(m + 1) /\ ~(k < pos + 1) /\ k # pos + 1 /\ k - 1 = i /\ i # pos
      BY <1>9, <2>1
    <3> HIDE DEF k
    <3>2. new[k] = ch[i]
      BY <1>10, <3>1
    <3>3. t[k] = s[i]
      BY <1>8, <1>9, <1>14, <1>15, <3>1, <3>2
    <3> QED BY <3>3 DEF k
  <2> QED BY <2>1
<1>19. Parted(t, s, pos)
  <2>1. Len(t[pos]) + Len(t[pos + 1]) = Len(s[pos]) + 1
    BY <1>6, <1>14, <1>16 DEF n
  <2> QED BY <1>11, <1>12, <1>17, <1>18, <2>1 DEF Parted
<1>20. pos \in 1..Len(s)
  BY <1>9, <1>11
<1> QED BY <1>11, <1>12, <1>13, <1>19, <1>20, OnePartSplits DEF new

\* One step keeps what the chain stores in step with what is counted, unless it gives
\* an insertion up after its split: then a key stays that nobody counts.
CountMoves ==
  \E d \in {0, 1} :
     /\ Stored(LeafChain)' = Stored(LeafChain) + d
     /\ \/ Counted' = Counted + d
        \/ InsertIntoParentFails /\ d = 0 /\ Counted = Counted' + 1

LEMMA ChainCounts ==
  ASSUME ChainInv, ChainInv', [Next]_vars, root # Null, pc # "destroy", pc' # "destroy"
  PROVE  CountMoves /\ root' # Null
<1>1. PICK L, ch : Chained(L, ch)
  BY DEF ChainInv
<1>2. PICK f : f = Fresh
  OBVIOUS
<1>3. Quiet \/ Writes
  BY QuietOrWrites
<1>4. root' # Null
  <2>1. CASE NewRoot
    BY <2>1, FreshIsLoose, NullAssumption DEF NewRoot, ChainInv
  <2> QED BY <1>3, <2>1 DEF Quiet, Writes, InsertIntoLeaf, SplitLeaf, InsertIntoInternalNode,
                            SplitInternal, tree
<1>5. ChainIs'
  <2>1. (ChainInv /\ root # Null => ChainIs)'
    BY ChainKnown, PTL
  <2> QED BY <1>4, <2>1
<1>6. Stored(LeafChain) = Stored(ch)
  BY <1>1, TheChain
<1>7. /\ LinkInv /\ TypeInv' /\ LevelInv /\ LevelInv' /\ ToSet(ch) \subseteq Leaves
      /\ ch \in Seq(Nodes) /\ IsInjective(ch) /\ key_count \in Nat
  BY <1>1, ChainedLeaves DEF ChainInv, LinkInv, Chained, TypeInv, TypeOK, HeapTypeOK
<1>8. CASE SplitLeaf
  <2>1. PICK pos \in 1..Len(ch) :
           /\ ch[pos] = node /\ f \notin ToSet(ch)
           /\ Chained(L \cup {f}, InsertAt(ch, pos + 1, f))'
    BY <1>1, <1>2, <1>3, <1>7, <1>8, ChainGoesOn
  <2>2. PICK new : new = InsertAt(ch, pos + 1, f)
    OBVIOUS
  <2>3. PICK M : Chained(M, new)'
    BY <2>1, <2>2
  <2>4. LeafChain' = new
    BY <1>5, <2>3 DEF ChainIs
  <2>5. Stored(InsertAt(ch, pos + 1, f))' = Stored(ch) + 1
    BY <1>2, <1>7, <1>8, <2>1, SplitCounts
  <2>6. Stored(LeafChain)' = Stored(ch) + 1
    BY <2>2, <2>4, <2>5 DEF Stored
  <2>7. Counted' = Counted + 1
    BY <1>7, <1>8 DEF Counted, SplitLeaf, AtInsertLeaf, tree
  <2> QED BY <1>4, <1>6, <2>6, <2>7 DEF CountMoves
<1>9. CASE ~SplitLeaf
  <2>1. PICK M : Chained(M, ch)'
    BY <1>1, <1>2, <1>3, <1>7, <1>9, ChainGoesOn
  <2>2. LeafChain' = ch
    BY <1>5, <2>1 DEF ChainIs
  <2>3. Stored(LeafChain)' = Stored(ch)'
    BY <2>2 DEF Stored
  <2>4. Stored(ch) \in Nat
    <3>1. KeysAlong(ch) \in Seq(Nat)
      BY <1>7, KeysOnChain, FlattenAppend DEF KeysAlong, LinkInv
    <3> QED BY <3>1, LenProperties DEF Stored
  <2>5. CASE InsertIntoLeaf
    <3>1. Stored(ch)' = Stored(ch) + 1
      BY <1>1, <1>7, <2>5, LeafCounts
    <3>2. Counted' = Counted + 1
      BY <1>7, <2>5 DEF Counted, InsertIntoLeaf, AtInsertLeaf, Return
    <3> QED BY <1>4, <1>6, <2>3, <3>1, <3>2 DEF CountMoves
  <2>6. CASE Quiet
    <3>1. Stored(ch)' = Stored(ch)
      BY <1>7, <2>6, StoredKept DEF Quiet
    <3>2. CASE pc = "parent" /\ pc' # "parent"
      <4>1. InsertIntoParentFails /\ Counted = Counted' + 1
        BY <1>7, <2>6, <3>2 DEF Quiet, Counted
      <4>2. Stored(ch)' = Stored(ch) + 0
        BY <2>4, <3>1
      <4> QED BY <1>4, <1>6, <2>3, <4>1, <4>2 DEF CountMoves
    <3>3. CASE ~(pc = "parent" /\ pc' # "parent")
      <4>1. Counted' = Counted + 0
        BY <1>7, <2>6, <3>3 DEF Quiet, Counted
      <4>2. Stored(ch)' = Stored(ch) + 0
        BY <2>4, <3>1
      <4> QED BY <1>4, <1>6, <2>3, <4>1, <4>2 DEF CountMoves
    <3> QED BY <3>2, <3>3
  <2>7. CASE NewRoot \/ InsertIntoInternalNode \/ SplitInternal
    <3>1. Stored(ch)' = Stored(ch)
      <4>1. \A n \in Leaves : keys'[n] = keys[n]
        BY <1>7, <2>7, ParentKeepsLeaves
      <4> QED BY <1>7, <4>1, StoredKept
    <3>2. Counted' = Counted + 0
      BY <1>7, <2>7 DEF NewRoot, InsertIntoInternalNode, SplitInternal, InsertSucceeds, Return, tree,
                        Counted
    <3>3. Stored(ch)' = Stored(ch) + 0
      BY <2>4, <3>1
    <3> QED BY <1>4, <1>6, <2>3, <3>2, <3>3 DEF CountMoves
  <2> QED BY <1>3, <1>9, <2>5, <2>6, <2>7 DEF Writes
<1> QED BY <1>8, <1>9

\* As long as no insertion is given up half way, the keys go on being divided.
LEMMA RoutesGoOn ==
  ASSUME LinkInv, NEW dom, Routes(dom), [Next]_vars, root # Null, pc # "destroy", pc' # "destroy",
         ~InsertIntoParentFails
  PROVE  \E d : Routes(d)'
<1>1. ASSUME NEW k \in Keys,
             \/ InsertFirstOutOfMemory(k) \/ SearchEmpty(k) \/ DestroyEmpty \/ CallDestroy
             \/ DestroyReturns \/ DestroyNode \/ \E o \in Offsets : InsertFirst(k, o)
      PROVE  FALSE
  BY <1>1 DEF InsertFirst, InsertFirstOutOfMemory, SearchEmpty, DestroyEmpty, CallDestroy,
              DestroyReturns, DestroyNode
<1>2. ASSUME NEW k \in Keys, CallSearch(k) \/ \E o \in Offsets : CallInsert(k, o)
      PROVE  \E d : Routes(d)'
  <2>1. /\ UNCHANGED <<used, keys, children, next, root, is_leaf>> /\ pc = "idle" /\ pc' = "descend"
        /\ node' = root /\ call'.key = k
    BY <1>2 DEF CallInsert, CallSearch, heap, tree
  <2>2. call'.key \in dom[node']
    BY <2>1, KeysAssumption DEF Routes, Part
  <2>3. Routes(dom)'
    BY <2>1, <2>2, RoutesStay
  <2> QED BY <2>3
<1>3. CASE Descend
  <2>1. Routes(dom)'
    BY <1>3, DescendKeepsRoutes
  <2> QED BY <2>1
<1>4. CASE SearchLeaf \/ InsertDuplicate \/ SplitLeafOutOfMemory
  <2>1. UNCHANGED <<used, keys, children, next, root, is_leaf>> /\ pc = "descend" /\ pc' = "idle"
    BY <1>4 DEF SearchLeaf, InsertDuplicate, SplitLeafOutOfMemory, InsertFails, AtInsertLeaf, Return,
                heap, tree
  <2>2. Routes(dom)'
    BY <2>1, RoutesStay
  <2> QED BY <2>2
<1>5. CASE InsertIntoLeaf
  <2>1. Routes(dom)'
    BY <1>5, LeafKeepsRoutes
  <2> QED BY <2>1
<1>6. CASE InsertIntoInternalNode
  <2>1. Routes(dom)'
    BY <1>6, InternalKeepsRoutes
  <2> QED BY <2>1
<1>7. CASE SplitLeaf \/ NewRoot \/ SplitInternal
  BY <1>7, SplitLeafKeepsRoutes, NewRootKeepsRoutes, SplitInternalKeepsRoutes
<1>8. CASE UNCHANGED vars
  <2>1. UNCHANGED <<used, is_leaf, keys, children, next, root, pc, call, node, separator, right>>
    BY <1>8 DEF vars, heap, tree, frame
  <2>2. Routes(dom)'
    BY <2>1 DEF Routes, Divided, Peopled, KeysAtHome, LeavesApart, LeavesInOrder, SeparatorFits, Part
  <2> QED BY <2>2
<1>9. CASE DestroyEmpty \/ CallDestroy \/ DestroyReturns \/ DestroyNode
  BY <1>9 DEF DestroyEmpty, CallDestroy, DestroyReturns, DestroyNode
<1> QED BY <1>1, <1>2, <1>3, <1>4, <1>5, <1>6, <1>7, <1>8, <1>9 DEF Next, Call, Step

\* The chain never stores fewer keys than are counted, and where it stores no more the
\* keys are divided among the nodes: nothing is lost.
CountInv ==
    /\ ChainInv
    /\ pc # "destroy" /\ root = Null => key_count = 0
    /\ pc # "destroy" /\ root # Null =>
          /\ Stored(LeafChain) \in Nat /\ Stored(LeafChain) >= Counted
          /\ Stored(LeafChain) = Counted => \E dom : Routes(dom)

LEMMA CountInvInit == Init => CountInv
BY ChainInvInit DEF CountInv, Init

\* What the first insertion stores.
LEMMA FirstCounts ==
  ASSUME ChainInv, ChainInv', NEW k \in Keys, NEW o \in Offsets, InsertFirst(k, o)
  PROVE  Stored(LeafChain)' = 1 /\ Counted' = 1
<1>1. PICK f : f = Fresh
  OBVIOUS
<1>2. Chained({f}, <<f>>)'
  BY <1>1, FirstChains DEF ChainInv, WholeInv, LinkInv
<1>3. f \in Nodes /\ root' = f /\ keys' = [keys EXCEPT ![f] = <<k>>] /\ key_count' = 1 /\ pc' = "idle"
  BY <1>1, FreshIsLoose DEF InsertFirst, ChainInv, Return
<1>4. ChainIs'
  <2>1. (ChainInv /\ root # Null => ChainIs)'
    BY ChainKnown, PTL
  <2> QED BY <1>3, <2>1, NullAssumption
<1>5. LeafChain' = <<f>>
  BY <1>2, <1>4 DEF ChainIs
<1> DEFINE s == [i \in DOMAIN <<f>> |-> keys'[<<f>>[i]]]
<1>6. s = Append(<<>>, <<k>>)
  <2>1. keys'[f] = <<k>>
    BY <1>3 DEF ChainInv, LinkInv, TypeInv, TypeOK, HeapTypeOK
  <2>2. DOMAIN <<f>> = 1..1 /\ <<f>>[1] = f
    OBVIOUS
  <2>3. s = [i \in 1..1 |-> <<k>>]
    BY <2>1, <2>2
  <2> QED BY <2>3
<1>7. FlattenSeq(s) = FlattenSeq(<<>>) \o <<k>> /\ FlattenSeq(<<>>) = <<>>
  <2>1. <<>> \in Seq(Seq(Nat)) /\ <<k>> \in Seq(Nat)
    BY KeysAssumption
  <2> HIDE DEF s
  <2> QED BY <1>6, <2>1, FlattenAppend
<1>8. Stored(LeafChain)' = Len(FlattenSeq(s))
  BY <1>5 DEF Stored, KeysAlong
<1> HIDE DEF s
<1>9. Len(FlattenSeq(s)) = 1
  BY <1>7
<1> QED BY <1>3, <1>8, <1>9 DEF Counted

LEMMA CountedIsNat == TypeInv => Counted \in Nat
<1> SUFFICES ASSUME TypeInv PROVE Counted \in Nat
  OBVIOUS
<1>1. key_count \in Nat
  BY DEF TypeInv, TypeOK, HeapTypeOK
<1>2. CASE pc = "parent"
  BY <1>1, <1>2 DEF Counted
<1>3. CASE pc # "parent"
  BY <1>1, <1>3 DEF Counted
<1> QED BY <1>2, <1>3

LEMMA CountInvStep ==
  ASSUME CountInv, [Next]_vars
  PROVE  CountInv'
<1>1. ChainInv /\ ChainInv' /\ LinkInv /\ TypeInv
  BY ChainInvStep DEF CountInv, ChainInv, LinkInv
<1> SUFFICES ASSUME pc' # "destroy"
             PROVE  /\ root' = Null => key_count' = 0
                    /\ root' # Null =>
                         /\ Stored(LeafChain)' \in Nat /\ Stored(LeafChain)' >= Counted'
                         /\ Stored(LeafChain)' = Counted' => \E dom : Routes(dom)'
  BY <1>1 DEF CountInv
<1>2. CASE pc = "destroy"
  <2>1. root' = Null /\ key_count' = 0
    BY <1>2 DEF Next, Call, Step, InsertFirst, InsertFirstOutOfMemory, SearchEmpty, CallSearch,
        CallInsert, DestroyEmpty, CallDestroy, Descend, SearchLeaf, InsertDuplicate, InsertIntoLeaf,
        SplitLeaf, SplitLeafOutOfMemory, NewRoot, InsertIntoInternalNode, SplitInternal,
        InsertIntoParentFails, DestroyNode, DestroyReturns, AtInsertLeaf, vars
  <2> QED BY <2>1
<1>3. CASE pc # "destroy" /\ root # Null
  <2>1. CountMoves /\ root' # Null
    BY <1>1, <1>3, ChainCounts
  <2>2. PICK d \in {0, 1} :
           /\ Stored(LeafChain)' = Stored(LeafChain) + d
           /\ \/ Counted' = Counted + d
              \/ InsertIntoParentFails /\ d = 0 /\ Counted = Counted' + 1
    BY <2>1 DEF CountMoves
  <2> DEFINE a == Stored(LeafChain)
             b == Counted
             c == Counted'
             e == Stored(LeafChain)'
  <2>3. a \in Nat /\ a >= b /\ (a = b => \E dom : Routes(dom))
    BY <1>3 DEF CountInv
  <2>4. b \in Nat /\ c \in Nat
    <3>1. (TypeInv => Counted \in Nat)'
      BY CountedIsNat, PTL
    <3>2. TypeInv'
      BY <1>1 DEF ChainInv, LinkInv
    <3> QED BY <1>1, <3>1, <3>2, CountedIsNat
  <2>5. e = a + d /\ (c = b + d \/ (InsertIntoParentFails /\ d = 0 /\ b = c + 1))
    BY <2>2
  <2> HIDE DEF a, b, c, e
  <2>6. e \in Nat /\ e >= c
    BY <2>3, <2>4, <2>5
  <2>7. ASSUME e = c PROVE \E dom : Routes(dom)'
    <3>1. a = b
      BY <2>3, <2>4, <2>5, <2>7
    <3>2. PICK dom : Routes(dom)
      BY <2>3, <3>1
    <3>3. CASE InsertIntoParentFails
      <4>1. pc = "parent" /\ pc' = "idle" /\ UNCHANGED key_count
        BY <3>3 DEF InsertIntoParentFails, InsertFails, Return, tree
      <4>2. b = c + 1
        BY <1>1, <4>1 DEF b, c, Counted, LinkInv, TypeInv, TypeOK, HeapTypeOK
      <4>3. d = 0 \/ d = 1
        OBVIOUS
      <4>4. c = a + d
        BY <2>5, <2>7
      <4> QED BY <2>3, <2>4, <3>1, <4>2, <4>3, <4>4
    <3>4. CASE ~InsertIntoParentFails
      BY <1>1, <1>3, <3>2, <3>4, RoutesGoOn
    <3> QED BY <3>3, <3>4
  <2> QED BY <2>1, <2>6, <2>7 DEF c, e
<1>4. CASE pc # "destroy" /\ root = Null /\ root' # Null
  <2>1. PICK k \in Keys, o \in Offsets : InsertFirst(k, o)
    BY <1>1, <1>4, OnlyFirst
  <2>2. Stored(LeafChain)' = 1 /\ Counted' = 1
    BY <1>1, <2>1, FirstCounts
  <2>3. \E dom : Routes(dom)'
    BY <1>1, <2>1, FirstKeepsRoutes DEF ChainInv, WholeInv
  <2> QED BY <1>4, <2>2, <2>3
<1>5. CASE pc # "destroy" /\ root = Null /\ root' = Null
  <2>1. key_count = 0 /\ pc \in {"idle", "destroy"}
    BY <1>1, <1>5, NullAssumption DEF CountInv, TypeInv, CallOK, TypeOK, CallTypeOK
  <2>2. ASSUME Call PROVE key_count' = 0
    <3>1. ASSUME NEW k \in Keys, NEW o \in Offsets, InsertFirst(k, o) PROVE FALSE
      BY <1>1, <1>5, <3>1, FreshIsLoose, NullAssumption DEF InsertFirst
    <3>2. ASSUME NEW k \in Keys, NEW o \in Offsets, CallInsert(k, o) PROVE FALSE
      BY <1>5, <3>2 DEF CallInsert
    <3>3. ASSUME NEW k \in Keys,
                 InsertFirstOutOfMemory(k) \/ SearchEmpty(k) \/ CallSearch(k)
          PROVE  key_count' = 0
      BY <2>1, <3>3 DEF InsertFirstOutOfMemory, SearchEmpty, CallSearch, tree
    <3>4. ASSUME DestroyEmpty PROVE key_count' = 0
      BY <3>4 DEF DestroyEmpty
    <3>5. ASSUME CallDestroy PROVE key_count' = 0
      BY <1>5, <3>5 DEF CallDestroy
    <3> QED BY <2>2, <3>1, <3>2, <3>3, <3>4, <3>5 DEF Call
  <2>3. ASSUME UNCHANGED vars PROVE key_count' = 0
    BY <2>1, <2>3 DEF vars, tree
  <2>4. ASSUME Step PROVE key_count' = 0
    BY <1>5, <2>1, <2>4 DEF Step, Descend, SearchLeaf, InsertDuplicate, InsertIntoLeaf,
        SplitLeaf, SplitLeafOutOfMemory, NewRoot, InsertIntoInternalNode, SplitInternal,
        InsertIntoParentFails, DestroyNode, DestroyReturns, AtInsertLeaf
  <2>5. key_count' = 0
    BY <2>2, <2>3, <2>4 DEF Next
  <2> QED BY <1>5, <2>5
<1> QED BY <1>2, <1>3, <1>4, <1>5

-----------------------------------------------------------------------------
(* The leaf a search ends in.                                              *)

\* A key goes to at least one child.
LEMMA ASlot ==
  ASSUME NEW s \in Seq(Nat), NEW k \in Nat
  PROVE  \E i \in 1..(Len(s) + 1) : IsChildSlot(s, k, i)
<1> SUFFICES ASSUME \A i \in 1..(Len(s) + 1) : ~IsChildSlot(s, k, i) PROVE FALSE
  OBVIOUS
<1> DEFINE m == Len(s)
           S == {n \in Nat : n <= m => \A j \in 1..n : s[j] <= k}
<1>1. m \in Nat /\ m = Len(s) /\ \A j \in 1..m : s[j] \in Nat
  BY NatSeq
<1> HIDE DEF m
<1>2. 0 \in S
  OBVIOUS
<1>3. ASSUME NEW n \in 1..m, n - 1 \in S PROVE n \in S
  <2>1. n - 1 \in Nat /\ n - 1 <= m /\ n <= m /\ n \in Nat
    BY <1>1
  <2>2. \A j \in 1..(n - 1) : s[j] <= k
    BY <1>3, <2>1
  <2>3. s[n] <= k
    <3>1. n \in 1..(Len(s) + 1)
      BY <1>1, <2>1
    <3>2. ~(k < s[n])
      BY <1>1, <2>1, <2>2, <3>1 DEF IsChildSlot
    <3> QED BY <1>1, <3>2
  <2>4. \A j \in 1..n : j \in 1..(n - 1) \/ j = n
    BY <2>1
  <2> QED BY <2>1, <2>2, <2>3, <2>4
<1>4. m \in S
  <2> HIDE DEF S
  <2>1. \A n \in 0..m : n \in S
    BY <1>1, <1>2, <1>3, UpTo
  <2> QED BY <1>1, <2>1
<1>5. IsChildSlot(s, k, m + 1)
  <2>1. \A j \in 1..m : s[j] <= k
    BY <1>1, <1>4
  <2> DEFINE x == m + 1
  <2>2. x - 1 = m /\ ~(x <= m)
    BY <1>1
  <2> HIDE DEF x
  <2>3. IsChildSlot(s, k, x)
    BY <1>1, <2>1, <2>2 DEF IsChildSlot
  <2> QED BY <2>3 DEF x
<1> QED BY <1>1, <1>5

\* The index of the child find_leaf_node takes at n for k.
Slot(n, k) == CHOOSE i \in 1..Len(children[n]) : IsChildSlot(keys[n], k, i)

LEMMA SlotIsTaken ==
  ASSUME TypeInv, NEW n \in Nodes, NEW k \in Nat, children[n] # <<>>
  PROVE  /\ Slot(n, k) \in 1..Len(children[n]) /\ IsChildSlot(keys[n], k, Slot(n, k))
         /\ Slot(n, k) \in DOMAIN children[n] /\ children[n][Slot(n, k)] \in Nodes
<1>1. children[n] \in Seq(Nodes) /\ Len(children[n]) = Len(keys[n]) + 1 /\ keys[n] \in Seq(Nat)
  BY KeysAreNumbers DEF TypeInv, TypeOK, HeapTypeOK, NodeShape
<1>2. \E i \in 1..Len(children[n]) : IsChildSlot(keys[n], k, i)
  <2> DEFINE q == keys[n]
  <2>1. \E i \in 1..(Len(q) + 1) : IsChildSlot(q, k, i)
    <3>1. q \in Seq(Nat)
      BY <1>1
    <3> HIDE DEF q
    <3> QED BY <3>1, ASlot
  <2> QED BY <1>1, <2>1
<1>3. Slot(n, k) \in 1..Len(children[n]) /\ IsChildSlot(keys[n], k, Slot(n, k))
  BY <1>2 DEF Slot
<1>4. Slot(n, k) \in DOMAIN children[n]
  BY <1>1, <1>3
<1> QED BY <1>1, <1>3, <1>4

\* FindLeaf, unfolded once.
FindSteps ==
    /\ FindLeaf \in [Nodes -> [Nat -> Nodes \cup {Null}]]
    /\ \A n \in Nodes : FindLeaf[n] =
          [k \in Nat |-> IF is_leaf[n] THEN n
                         ELSE IF children[n] = <<>> THEN Null
                         ELSE FindLeaf[children[n][Slot(n, k)]][k]]

LEMMA FindSolved == TypeInv /\ LevelInv => FindSteps
<1> SUFFICES ASSUME TypeInv, LevelInv PROVE FindSteps
  OBVIOUS
<1>1. PICK B \in Nat : \E lvl \in [Nodes -> 0..B] : Leveled(lvl)
  BY DEF LevelInv
<1>2. PICK lvl \in [Nodes -> 0..B] : Leveled(lvl)
  BY <1>1
<1> DEFINE V == [Nat -> Nodes \cup {Null}]
           E(n, h) == [k \in Nat |-> IF is_leaf[n] THEN n
                                     ELSE IF children[n] = <<>> THEN Null
                                     ELSE h[children[n][Slot(n, k)]][k]]
           G == [nh \in Nodes \X [Nodes -> V] |-> E(nh[1], nh[2])]
<1>3. ASSUME NEW n \in Nodes, NEW k \in Nat, children[n] # <<>>
      PROVE  children[n][Slot(n, k)] \in Nodes /\ lvl[children[n][Slot(n, k)]] < lvl[n]
  <2>1. Slot(n, k) \in DOMAIN children[n]
    BY <1>3, SlotIsTaken
  <2> QED BY <1>2, <2>1, FirstKidLower
<1>4. ASSUME NEW n \in Nodes, NEW h \in [Nodes -> V] PROVE E(n, h) \in V
  <2>1. ASSUME NEW k \in Nat, children[n] # <<>>
        PROVE  h[children[n][Slot(n, k)]][k] \in Nodes \cup {Null}
    BY <1>3, <2>1
  <2> QED BY <2>1
<1>5. ASSUME NEW n \in Nodes, NEW h \in [Nodes -> V], NEW g \in [Nodes -> V],
             \A m \in Nodes : lvl[m] < lvl[n] => h[m] = g[m]
      PROVE  E(n, h) = E(n, g)
  <2>1. ASSUME NEW k \in Nat, children[n] # <<>>
        PROVE  h[children[n][Slot(n, k)]][k] = g[children[n][Slot(n, k)]][k]
    BY <1>3, <1>5, <2>1
  <2> QED BY <2>1
<1>6. \A n \in Nodes : \A h \in [Nodes -> V] : G[<<n, h>>] = E(n, h)
  OBVIOUS
<1> HIDE DEF E, G, V
<1>7. FallsBy(G, Nodes, V, lvl)
  BY <1>4, <1>5, <1>6 DEF FallsBy
<1>8. [k \in Nat |-> Null] \in V
  BY DEF V
<1>9. PICK f : Solves(f, G, Nodes, V)
  <2> DEFINE none == [k \in Nat |-> Null]
  <2>1. none \in V
    BY <1>8
  <2> HIDE DEF none
  <2>2. \E f : Solves(f, G, Nodes, V)
    BY <1>7, <2>1, RankRecursion
  <2> QED BY <2>2
<1>10. f \in [Nodes -> V] /\ \A n \in Nodes : f[n] = E(n, f)
  BY <1>6, <1>9 DEF Solves
<1> DEFINE Is(g) ==
             g = [n \in Nodes |-> [k \in Nat |->
                    IF is_leaf[n] THEN n
                    ELSE IF children[n] = <<>> THEN Null
                    ELSE g[children[n][CHOOSE i \in 1..Len(children[n]) :
                                          IsChildSlot(keys[n], k, i)]][k]]]
           found == CHOOSE g : Is(g)
<1>11. Is(f)
  BY <1>10 DEF E, Slot
<1>12. Is(found)
  BY <1>11
<1>13. FindLeaf = found
  BY DEF FindLeaf
<1>14. \A n \in Nodes : found[n] = E(n, found)
  <2> HIDE DEF found
  <2> QED BY <1>12 DEF E, Slot
<1>15. found \in [Nodes -> V]
  <2> DEFINE T == {n \in Nodes : found[n] \in V}
  <2>1. ASSUME NEW n \in Nodes, \A m \in Nodes : lvl[m] < lvl[n] => m \in T PROVE n \in T
    <3> HIDE DEF found
    <3>1. ASSUME NEW k \in Nat, children[n] # <<>>
          PROVE  found[children[n][Slot(n, k)]][k] \in Nodes \cup {Null}
      BY <1>3, <2>1, <3>1 DEF V
    <3>2. E(n, found) \in V
      BY <3>1 DEF E, V
    <3> QED BY <3>2, <1>14
  <2>2. lvl \in [Nodes -> Nat]
    OBVIOUS
  <2>3. Nodes \subseteq T
    <3> HIDE DEF T
    <3> QED BY <2>1, <2>2, RankInduct
  <2>4. found = [n \in Nodes |-> found[n]]
    <3> HIDE DEF found
    <3> QED BY <1>12
  <2> HIDE DEF found
  <2> QED BY <2>3, <2>4
<1> HIDE DEF found
<1> QED BY <1>13, <1>14, <1>15 DEF FindSteps, E, V

\* Where the keys are divided, a search for a key ends in the leaf that has it.
LEMMA FindsItsLeaf ==
  ASSUME TypeInv, WholeInv, LevelInv, NEW dom, Routes(dom), pc # "parent",
         NEW n \in Nodes, NEW k \in dom[n]
  PROVE  LET m == FindLeaf[n][k] IN m \in Nodes /\ is_leaf[m] /\ k \in dom[m]
<1>1. PICK B \in Nat : \E lvl \in [Nodes -> 0..B] : Leveled(lvl)
  BY DEF LevelInv
<1>2. PICK lvl \in [Nodes -> 0..B] : Leveled(lvl)
  BY <1>1
<1>3. FindSteps
  BY FindSolved
<1> DEFINE Home(a, b) == b \in Nodes /\ is_leaf[b] /\ k \in dom[b]
           T == {a \in Nodes : k \in dom[a] => Home(a, FindLeaf[a][k])}
<1>4. k \in Nat /\ dom \in [Nodes -> SUBSET Nat]
  BY DEF Routes
<1>5. ASSUME NEW a \in Nodes, \A m \in Nodes : lvl[m] < lvl[a] => m \in T PROVE a \in T
  <2> SUFFICES ASSUME k \in dom[a] PROVE Home(a, FindLeaf[a][k])
    OBVIOUS
  <2>1. FindLeaf[a][k] = IF is_leaf[a] THEN a
                         ELSE IF children[a] = <<>> THEN Null
                         ELSE FindLeaf[children[a][Slot(a, k)]][k]
    BY <1>3, <1>4 DEF FindSteps
  <2>2. CASE is_leaf[a]
    BY <2>1, <2>2
  <2>3. CASE ~is_leaf[a]
    <3>1. children[a] # <<>>
      BY <2>3 DEF Routes, WholeInv, InnerHaveKids
    <3> DEFINE i == Slot(a, k)
               c == children[a][i]
    <3>2. i \in DOMAIN children[a] /\ IsChildSlot(keys[a], k, i) /\ c \in Nodes
      BY <1>4, <3>1, SlotIsTaken
    <3>3. lvl[c] < lvl[a]
      BY <1>2, <3>2, FirstKidLower
    <3>4. k \in dom[c]
      <4>1. Part(dom, c) = {x \in dom[a] : IsChildSlot(keys[a], x, i)}
        BY <3>2 DEF Routes, Divided
      <4>2. Part(dom, c) = dom[c]
        BY DEF Part
      <4> HIDE DEF c, i
      <4> QED BY <3>2, <4>1, <4>2
    <3>5. c \in T
      BY <1>5, <3>2, <3>3
    <3>6. FindLeaf[a][k] = FindLeaf[c][k]
      BY <2>1, <2>3, <3>1
    <3> HIDE DEF c
    <3> QED BY <3>4, <3>5, <3>6
  <2> QED BY <2>2, <2>3
<1>6. Nodes \subseteq T
  <2>1. lvl \in [Nodes -> Nat]
    OBVIOUS
  <2> HIDE DEF T
  <2> QED BY <1>5, <2>1, RankInduct
<1> QED BY <1>6

\* Every leaf of the chain has some keys.
LEMMA ChainPeopled ==
  ASSUME TypeInv, WholeInv, LevelInv, NEW dom, Routes(dom), pc # "parent", root \in Nodes,
         NEW L, NEW ch, Chained(L, ch)
  PROVE  \A i \in 1..Len(ch) : dom[ch[i]] # {}
<1>1. PICK B \in Nat : \E lvl \in [Nodes -> 0..B] : Leveled(lvl)
  BY DEF LevelInv
<1>2. PICK lvl \in [Nodes -> 0..B] : Leveled(lvl)
  BY <1>1
<1>3. LeftmostSteps
  BY LeftmostSolved
<1> DEFINE T == {a \in Nodes : dom[a] # {} =>
                    find_leftmost_leaf[a] \in Nodes /\ dom[find_leftmost_leaf[a]] # {}}
<1>4. ASSUME NEW a \in Nodes, \A m \in Nodes : lvl[m] < lvl[a] => m \in T PROVE a \in T
  <2> SUFFICES ASSUME dom[a] # {}
               PROVE  find_leftmost_leaf[a] \in Nodes /\ dom[find_leftmost_leaf[a]] # {}
    OBVIOUS
  <2>1. CASE is_leaf[a]
    BY <1>3, <2>1 DEF LeftmostSteps
  <2>2. CASE ~is_leaf[a]
    <3>1. children[a] # <<>> /\ children[a] \in Seq(Nodes)
      BY <2>2 DEF Routes, WholeInv, InnerHaveKids, TypeInv, TypeOK, HeapTypeOK
    <3>2. 1 \in DOMAIN children[a]
      BY <3>1
    <3> DEFINE c == children[a][1]
    <3>3. c \in Nodes /\ lvl[c] < lvl[a] /\ dom[c] # {}
      BY <1>2, <3>2, FirstKidLower DEF Routes, Peopled
    <3>4. c \in T
      BY <1>4, <3>3
    <3>5. find_leftmost_leaf[a] = find_leftmost_leaf[c]
      BY <1>3, <2>2, <3>1 DEF LeftmostSteps
    <3> HIDE DEF c
    <3> QED BY <3>3, <3>4, <3>5
  <2> QED BY <2>1, <2>2
<1>5. Nodes \subseteq T
  <2>1. lvl \in [Nodes -> Nat]
    OBVIOUS
  <2> HIDE DEF T
  <2> QED BY <1>4, <2>1, RankInduct
<1>6. dom[root] # {}
  BY NullAssumption DEF Routes, Part
<1> DEFINE m == Len(ch)
           S == {j \in Nat : j < m => dom[ch[j + 1]] # {}}
<1>7. m \in Nat /\ m >= 1 /\ \A i \in 1..m : ch[i] \in Nodes
  BY LenProperties, ElementOfSeq DEF Chained
<1>8. 0 \in S
  <2>1. dom[find_leftmost_leaf[root]] # {}
    BY <1>5, <1>6
  <2>2. ch[0 + 1] = ch[1] /\ ch[1] = find_leftmost_leaf[root]
    BY DEF Chained
  <2> QED BY <2>1, <2>2
<1>9. ASSUME NEW j \in Nat, j \in S PROVE j + 1 \in S
  <2> SUFFICES ASSUME j + 1 < m PROVE dom[ch[j + 1 + 1]] # {}
    OBVIOUS
  <2> DEFINE i == j + 1
  <2>1. i \in 1..m /\ i < m /\ i + 1 \in 1..m /\ j < m
    BY <1>7
  <2>2. dom[ch[i]] # {}
    BY <1>9, <2>1
  <2>3. is_leaf[ch[i]] /\ next[ch[i]] = ch[i + 1]
    <3> HIDE DEF i
    <3> QED BY <2>1 DEF Chained, Linked
  <2>4. ch[i] \in Nodes /\ ch[i + 1] \in Nodes
    BY <1>7, <2>1
  <2>5. next[ch[i]] # Null
    BY <2>3, <2>4, NullAssumption
  <2> HIDE DEF i
  <2>6. dom[ch[i + 1]] # {}
    BY <2>2, <2>3, <2>4, <2>5 DEF Routes, LeavesInOrder
  <2> QED BY <2>6 DEF i
<1>10. \A j \in Nat : j \in S
  <2> HIDE DEF S
  <2> QED BY <1>8, <1>9, NatInduct
<1>11. ASSUME NEW i \in 1..m PROVE dom[ch[i]] # {}
  <2> DEFINE j == i - 1
  <2>1. j \in Nat /\ j < m /\ j + 1 = i
    BY <1>7
  <2>2. j \in S
    BY <1>10, <2>1
  <2> HIDE DEF j
  <2> QED BY <2>1, <2>2
<1> QED BY <1>11

\* Whatever allocations fail, the chain stores at least key_count keys, and just as many only
\* if every one is where its search leads (bptree_insert).
THEOREM CountInvariant == Spec => []CountInv
<1> QED BY CountInvInit, CountInvStep, PTL DEF Spec

\* ValidateIsSound: whatever allocations failed before, a tree that passes bptree_validate
\* finds every row of its leaf chain (bptree_validate, find_leaf_node).
THEOREM ValidTreeFindsAll == Spec => []ValidateIsSound
<1>1. CountInv => ValidateIsSound
  <2> SUFFICES ASSUME CountInv, pc = "idle", root # Null, bptree_validate,
                      NEW row \in RowsInChain
               PROVE  CanFind(row[1])
    BY DEF ValidateIsSound
  <2>1. /\ ChainInv /\ LinkInv /\ TypeInv /\ WholeInv /\ LevelInv /\ root \in Nodes
    BY DEF CountInv, ChainInv, LinkInv, TypeInv, TypeOK, HeapTypeOK
  <2>2. Stored(LeafChain) = Counted
    <3>1. Len(KeysAlong(LeafChain)) = key_count
      BY DEF bptree_validate
    <3>2. Counted = key_count + 0 /\ key_count \in Nat
      BY <2>1 DEF Counted, TypeInv, TypeOK, HeapTypeOK
    <3> QED BY <3>1, <3>2 DEF Stored
  <2>3. PICK dom : Routes(dom)
    BY <2>2 DEF CountInv
  <2>4. PICK L, ch : Chained(L, ch)
    BY <2>1 DEF ChainInv
  <2>5. LeafChain = ch
    BY <2>1, <2>4, TheChain
  <2>6. PICK n \in ToSet(ch) : row \in RowsOf(n)
    BY <2>5 DEF RowsInChain
  <2>7. PICK i \in 1..Len(ch) : n = ch[i]
    BY <2>4, <2>6 DEF Chained, ToSet
  <2>8. dom[n] # {} /\ is_leaf[n] /\ n \in Nodes
    <3>1. \A j \in 1..Len(ch) : dom[ch[j]] # {}
      BY <2>1, <2>3, <2>4, ChainPeopled
    <3>2. ch \in Seq(Nodes) /\ is_leaf[ch[i]]
      BY <2>4 DEF Chained, Linked
    <3> QED BY <2>7, <3>1, <3>2, ElementOfSeq
  <2>9. row[1] \in ToSet(keys[n]) /\ row[1] \in dom[n]
    <3>1. row[1] \in ToSet(keys[n])
      BY <2>6 DEF RowsOf, ToSet
    <3> QED BY <2>3, <2>8, <3>1 DEF Routes, KeysAtHome
  <2> DEFINE k == row[1]
             m == FindLeaf[root][k]
  <2>10. k \in dom[root]
    BY <2>1, <2>3, <2>8, <2>9 DEF Routes, Part
  <2>11. m \in Nodes /\ is_leaf[m] /\ k \in dom[m]
    BY <2>1, <2>3, <2>10, FindsItsLeaf
  <2>12. m = n
    <3> HIDE DEF m, k
    <3> QED BY <2>3, <2>8, <2>9, <2>11 DEF Routes, LeavesApart, k
  <2> QED BY <2>9, <2>12 DEF CanFind
<1> QED BY <1>1, CountInvariant, PTL

-----------------------------------------------------------------------------
(* bptree_validate of a tree from which no insertion was given up half way. *)

\* No key has been stored that is not counted.
ExactInv ==
    /\ CountInv
    /\ pc # "destroy" /\ root # Null => Stored(LeafChain) = Counted

LEMMA ExactInvInit == Init => ExactInv
BY CountInvInit DEF ExactInv, Init

LEMMA ExactInvStep ==
  ASSUME ExactInv, ~InsertIntoParentFails, [Next]_vars
  PROVE  ExactInv'
<1>1. CountInv /\ CountInv' /\ ChainInv /\ ChainInv' /\ LinkInv /\ TypeInv
  BY CountInvStep DEF ExactInv, CountInv, ChainInv, LinkInv
<1> SUFFICES ASSUME pc' # "destroy", root' # Null
             PROVE  Stored(LeafChain)' = Counted'
  BY <1>1 DEF ExactInv
<1>2. CASE pc = "destroy"
  <2>1. root' = Null
    BY <1>2 DEF Next, Call, Step, InsertFirst, InsertFirstOutOfMemory, SearchEmpty, CallSearch,
        CallInsert, DestroyEmpty, CallDestroy, Descend, SearchLeaf, InsertDuplicate, InsertIntoLeaf,
        SplitLeaf, SplitLeafOutOfMemory, NewRoot, InsertIntoInternalNode, SplitInternal,
        InsertIntoParentFails, DestroyNode, DestroyReturns, AtInsertLeaf, vars
  <2> QED BY <2>1
<1>3. CASE pc # "destroy" /\ root # Null
  <2>1. CountMoves
    BY <1>1, <1>3, ChainCounts
  <2>2. PICK d \in {0, 1} : Stored(LeafChain)' = Stored(LeafChain) + d /\ Counted' = Counted + d
    BY <2>1 DEF CountMoves
  <2> QED BY <1>3, <2>2 DEF ExactInv
<1>4. CASE pc # "destroy" /\ root = Null
  <2>1. PICK k \in Keys, o \in Offsets : InsertFirst(k, o)
    BY <1>1, <1>4, OnlyFirst
  <2> QED BY <1>1, <2>1, FirstCounts
<1> QED BY <1>2, <1>3, <1>4

\* Ascending sequences put end to end.
LEMMA ConcatAscends ==
  ASSUME NEW s \in Seq(Nat), NEW t \in Seq(Nat), Ascending(s), Ascending(t),
         \A x \in ToSet(s) : \A y \in ToSet(t) : x < y
  PROVE  s \o t \in Seq(Nat) /\ Ascending(s \o t) /\ ToSet(s \o t) = ToSet(s) \cup ToSet(t)
<1> DEFINE m == Len(s)
           n == Len(t)
           u == s \o t
<1>1. /\ m \in Nat /\ n \in Nat /\ DOMAIN s = 1..m /\ DOMAIN t = 1..n
      /\ \A i \in 1..m : s[i] \in Nat
      /\ \A i \in 1..n : t[i] \in Nat
  BY NatSeq
<1>2. /\ u \in Seq(Nat) /\ Len(u) = m + n
      /\ \A j \in 1..(m + n) : u[j] = IF j <= m THEN s[j] ELSE t[j - m]
  BY ConcatProperties
<1>3. DOMAIN u = 1..(m + n)
  BY <1>2, NatSeq
<1>4. /\ \A i \in 1..m : s[i] \in ToSet(s)
      /\ \A i \in 1..n : t[i] \in ToSet(t)
  BY <1>1 DEF ToSet
<1>5. ToSet(s) = {s[i] : i \in 1..m} /\ ToSet(t) = {t[i] : i \in 1..n}
      /\ ToSet(u) = {u[i] : i \in 1..(m + n)}
  BY <1>1, <1>3 DEF ToSet
<1> HIDE DEF m, n, u
<1>6. ASSUME NEW i \in 1..(m + n), NEW j \in 1..(m + n), i < j PROVE u[i] < u[j]
  <2>1. CASE j <= m
    <3>1. i \in 1..m /\ j \in 1..m /\ i <= m
      BY <1>1, <1>6, <2>1
    <3>2. s[i] < s[j]
      BY <1>1, <1>6, <3>1 DEF Ascending
    <3> QED BY <1>2, <2>1, <3>1, <3>2
  <2>2. CASE ~(j <= m) /\ i <= m
    <3>1. i \in 1..m /\ j - m \in 1..n
      BY <1>1, <2>2
    <3>2. s[i] < t[j - m]
      BY <1>4, <3>1
    <3> QED BY <1>2, <2>2, <3>2
  <2>3. CASE ~(j <= m) /\ ~(i <= m)
    <3>1. i - m \in 1..n /\ j - m \in 1..n /\ i - m < j - m
      BY <1>1, <1>6, <2>3
    <3>2. t[i - m] < t[j - m]
      BY <1>1, <3>1 DEF Ascending
    <3> QED BY <1>2, <2>3, <3>2
  <2> QED BY <2>1, <2>2, <2>3
<1>7. Ascending(u)
  BY <1>3, <1>6 DEF Ascending
<1>8. ASSUME NEW x \in ToSet(u) PROVE x \in ToSet(s) \cup ToSet(t)
  <2>1. PICK j \in 1..(m + n) : x = u[j]
    BY <1>5
  <2>2. CASE j <= m
    BY <1>1, <1>2, <1>4, <2>1, <2>2
  <2>3. CASE ~(j <= m)
    <3>1. j - m \in 1..n
      BY <1>1, <2>3
    <3> QED BY <1>2, <1>4, <2>1, <2>3, <3>1
  <2> QED BY <2>2, <2>3
<1>9. ASSUME NEW x \in ToSet(s) PROVE x \in ToSet(u)
  <2>1. PICK i \in 1..m : x = s[i]
    BY <1>5
  <2>2. i \in 1..(m + n) /\ i <= m
    BY <1>1
  <2> QED BY <1>2, <1>5, <2>1, <2>2
<1>10. ASSUME NEW x \in ToSet(t) PROVE x \in ToSet(u)
  <2>1. PICK i \in 1..n : x = t[i]
    BY <1>5
  <2> DEFINE j == i + m
  <2>2. j \in 1..(m + n) /\ ~(j <= m) /\ j - m = i
    BY <1>1
  <2> HIDE DEF j
  <2> QED BY <1>2, <1>5, <2>1, <2>2
<1>11. ToSet(u) = ToSet(s) \cup ToSet(t)
  BY <1>8, <1>9, <1>10
<1> QED BY <1>2, <1>7, <1>11 DEF u

\* The keys of the chain ascend.
LEMMA ChainAscends ==
  ASSUME TypeInv, WholeInv, LevelInv, NEW dom, Routes(dom), pc # "parent", root \in Nodes,
         NEW L, NEW ch, Chained(L, ch)
  PROVE  KeysAlong(ch) \in Seq(Nat) /\ Ascending(KeysAlong(ch))
<1> DEFINE n == Len(ch)
           s == [i \in DOMAIN ch |-> keys[ch[i]]]
<1>1. /\ s \in Seq(Seq(Nat)) /\ Len(s) = n /\ n \in Nat /\ ch \in Seq(Nodes)
      /\ \A i \in 1..n : s[i] = keys[ch[i]] /\ ch[i] \in Nodes
      /\ \A i \in 1..n : s[i] \in Seq(Nat)
  <2>1. ch \in Seq(Nodes)
    BY DEF Chained
  <2>2. s \in Seq(Seq(Nat)) /\ Len(s) = n /\ n \in Nat /\ DOMAIN ch = 1..n
    BY <2>1, KeysOnChain
  <2>3. \A i \in 1..n : s[i] = keys[ch[i]] /\ ch[i] \in Nodes
    BY <2>1, <2>2, ElementOfSeq
  <2>4. \A i \in 1..n : s[i] \in Seq(Nat)
    <3> HIDE DEF s
    <3> QED BY <2>3, KeysAreNumbers
  <2> QED BY <2>1, <2>2, <2>3, <2>4
<1>2. \A i \in 1..n : /\ is_leaf[ch[i]] /\ dom[ch[i]] # {}
                      /\ i < n => next[ch[i]] = ch[i + 1]
  BY ChainPeopled DEF Chained, Linked
<1>3. dom \in [Nodes -> SUBSET Nat]
  BY DEF Routes
<1>4. \A i \in 1..n : Ascending(s[i]) /\ ToSet(s[i]) \subseteq dom[ch[i]]
  <2> HIDE DEF s, n
  <2> QED BY <1>1, <1>2 DEF Routes, KeysAtHome
<1>5. \A i \in 1..n : i < n => Before(dom[ch[i]], dom[ch[i + 1]])
  <2> SUFFICES ASSUME NEW i \in 1..n, i < n PROVE Before(dom[ch[i]], dom[ch[i + 1]])
    OBVIOUS
  <2>1. i + 1 \in 1..n
    BY <1>1
  <2>2. ch[i + 1] \in Nodes /\ next[ch[i]] = ch[i + 1] /\ is_leaf[ch[i]] /\ dom[ch[i]] # {} /\ ch[i] \in Nodes
    <3> HIDE DEF n, s
    <3> QED BY <1>1, <1>2, <2>1
  <2>3. next[ch[i]] # Null
    BY <2>2, NullAssumption
  <2> QED BY <2>2, <2>3 DEF Routes, LeavesInOrder
<1>6. KeysAlong(ch) = FlattenSeq(s)
  BY DEF KeysAlong
<1>7. PICK f : Flattens(f, s, Nat)
  BY <1>1, FlattenSteps
<1> HIDE DEF s, n
<1>8. /\ f \in [0..n -> Seq(Nat)] /\ f[0] = <<>> /\ FlattenSeq(s) = f[n]
      /\ \A i \in 1..n : f[i] = f[i - 1] \o s[i]
  BY <1>1, <1>7 DEF Flattens
<1> DEFINE Low(x, i) == i < n => \A y \in dom[ch[i + 1]] : x < y
           S == {i \in 0..n : Ascending(f[i]) /\ \A x \in ToSet(f[i]) : Low(x, i)}
<1>9. 0 \in S
  <2>1. Ascending(<<>>) /\ ToSet(<<>>) = {}
    BY DEF Ascending, ToSet
  <2> QED BY <1>1, <1>8, <2>1
<1>10. ASSUME NEW i \in 1..n, i - 1 \in S PROVE i \in S
  <2> DEFINE a == f[i - 1]
             b == s[i]
             c == f[i]
  <2>0. i - 1 \in 0..n
    BY <1>1
  <2>1. a \in Seq(Nat) /\ b \in Seq(Nat) /\ c = a \o b
    BY <1>1, <1>8, <2>0
  <2>2. \A x \in ToSet(a) : \A y \in dom[ch[i]] : x < y
    <3>1. i - 1 < n /\ (i - 1) + 1 = i
      BY <1>1
    <3>2. \A x \in ToSet(a) : Low(x, i - 1)
      BY <1>10
    <3> QED BY <3>1, <3>2
  <2>3. Ascending(a) /\ Ascending(b) /\ ToSet(b) \subseteq dom[ch[i]]
    BY <1>4, <1>10
  <2> HIDE DEF a, b, c
  <2>4. Ascending(c) /\ ToSet(c) = ToSet(a) \cup ToSet(b)
    BY <2>1, <2>2, <2>3, ConcatAscends
  <2>5. ASSUME NEW x \in ToSet(c), i < n, NEW y \in dom[ch[i + 1]] PROVE x < y
    <3>0. ch[i] \in Nodes /\ ch[i + 1] \in Nodes
      <4>1. i + 1 \in 1..n
        BY <1>1, <2>5
      <4> QED BY <1>1, <4>1
    <3>1. Before(dom[ch[i]], dom[ch[i + 1]])
      BY <1>5, <2>5
    <3>2. CASE x \in ToSet(b)
      BY <2>3, <3>1, <3>2 DEF Before
    <3>3. CASE x \in ToSet(a)
      <4>1. PICK z \in dom[ch[i]] : TRUE
        BY <1>2
      <4>2. x < z /\ z < y
        BY <2>2, <3>1, <3>3, <4>1 DEF Before
      <4>3. x \in Nat /\ z \in Nat /\ y \in Nat
        <5>1. x \in Nat
          BY <2>1, <3>3, NatSeq
        <5> QED BY <1>3, <3>0, <5>1
      <4> QED BY <4>2, <4>3
    <3> QED BY <2>4, <3>2, <3>3
  <2>6. \A x \in ToSet(c) : Low(x, i)
    BY <2>5
  <2>7. i \in 0..n
    BY <1>1
  <2> QED BY <2>4, <2>6, <2>7 DEF c
<1>11. n \in S
  <2> HIDE DEF S
  <2>1. \A i \in 0..n : i \in S
    BY <1>1, <1>9, <1>10, UpTo
  <2> QED BY <1>1, <2>1
<1> QED BY <1>1, <1>6, <1>8, <1>11

-----------------------------------------------------------------------------
(* The depth of the leaves.                                                *)

\* LeafDepths, unfolded once.
DepthSteps ==
    /\ LeafDepths \in [Nodes -> SUBSET Nat]
    /\ \A n \in Nodes : LeafDepths[n] =
          IF is_leaf[n] THEN {0} ELSE {d + 1 : d \in UNION {LeafDepths[c] : c \in Kids(n)}}

LEMMA KidsLower ==
  ASSUME TypeInv, NEW B \in Nat, NEW lvl \in [Nodes -> 0..B], Leveled(lvl), NEW n \in Nodes
  PROVE  \A c \in Kids(n) : c \in Nodes /\ lvl[c] < lvl[n]
<1> SUFFICES ASSUME NEW c \in Kids(n) PROVE c \in Nodes /\ lvl[c] < lvl[n]
  OBVIOUS
<1>1. PICK i \in DOMAIN children[n] : c = children[n][i]
  BY DEF Kids, ToSet
<1> QED BY <1>1, FirstKidLower

LEMMA DepthsSolved == TypeInv /\ LevelInv => DepthSteps
<1> SUFFICES ASSUME TypeInv, LevelInv PROVE DepthSteps
  OBVIOUS
<1>1. PICK B \in Nat : \E lvl \in [Nodes -> 0..B] : Leveled(lvl)
  BY DEF LevelInv
<1>2. PICK lvl \in [Nodes -> 0..B] : Leveled(lvl)
  BY <1>1
<1> DEFINE V == SUBSET Nat
           E(n, h) == IF is_leaf[n] THEN {0}
                      ELSE {d + 1 : d \in UNION {h[c] : c \in Kids(n)}}
           G == [nh \in Nodes \X [Nodes -> V] |-> E(nh[1], nh[2])]
<1>3. ASSUME NEW n \in Nodes
      PROVE  \A c \in Kids(n) : c \in Nodes /\ lvl[c] < lvl[n]
  BY <1>2, KidsLower
<1>4. ASSUME NEW n \in Nodes, NEW h \in [Nodes -> V] PROVE E(n, h) \in V
  <2>1. \A c \in Kids(n) : h[c] \subseteq Nat
    BY <1>3
  <2>2. UNION {h[c] : c \in Kids(n)} \subseteq Nat
    BY <2>1
  <2>3. \A d \in UNION {h[c] : c \in Kids(n)} : d + 1 \in Nat
    BY <2>2
  <2> QED BY <2>3
<1>5. ASSUME NEW n \in Nodes, NEW h \in [Nodes -> V], NEW k \in [Nodes -> V],
             \A m \in Nodes : lvl[m] < lvl[n] => h[m] = k[m]
      PROVE  E(n, h) = E(n, k)
  <2>1. \A c \in Kids(n) : h[c] = k[c]
    BY <1>3, <1>5
  <2>2. {h[c] : c \in Kids(n)} = {k[c] : c \in Kids(n)}
    BY <2>1
  <2> QED BY <2>2
<1>6. \A n \in Nodes : \A h \in [Nodes -> V] : G[<<n, h>>] = E(n, h)
  OBVIOUS
<1> HIDE DEF E, G, V
<1>7. FallsBy(G, Nodes, V, lvl)
  BY <1>4, <1>5, <1>6 DEF FallsBy
<1>8. {} \in V
  BY DEF V
<1>9. PICK f : Solves(f, G, Nodes, V)
  <2>1. \E f : Solves(f, G, Nodes, V)
    BY <1>7, <1>8, RankRecursion
  <2> QED BY <2>1
<1>10. f \in [Nodes -> V] /\ \A n \in Nodes : f[n] = E(n, f)
  BY <1>6, <1>9 DEF Solves
<1> DEFINE Is(g) == g = [n \in Nodes |->
                           IF is_leaf[n] THEN {0}
                           ELSE {d + 1 : d \in UNION {g[c] : c \in ToSet(children[n])}}]
           found == CHOOSE g : Is(g)
<1>11. Is(f)
  BY <1>10 DEF E, Kids
<1>12. Is(found)
  BY <1>11
<1>13. LeafDepths = found
  BY DEF LeafDepths
<1>14. \A n \in Nodes : found[n] = E(n, found)
  <2> HIDE DEF found
  <2> QED BY <1>12 DEF E, Kids
<1>15. found \in [Nodes -> V]
  <2> DEFINE T == {n \in Nodes : found[n] \in V}
  <2>1. ASSUME NEW n \in Nodes, \A m \in Nodes : lvl[m] < lvl[n] => m \in T PROVE n \in T
    <3> HIDE DEF found
    <3>1. \A c \in Kids(n) : found[c] \subseteq Nat
      BY <1>3, <2>1 DEF V
    <3>2. UNION {found[c] : c \in Kids(n)} \subseteq Nat
      BY <3>1
    <3>3. \A d \in UNION {found[c] : c \in Kids(n)} : d + 1 \in Nat
      BY <3>2
    <3>4. E(n, found) \in V
      BY <3>3 DEF E, V
    <3> QED BY <3>4, <1>14
  <2>2. lvl \in [Nodes -> Nat]
    OBVIOUS
  <2>3. Nodes \subseteq T
    <3> HIDE DEF T
    <3> QED BY <2>1, <2>2, RankInduct
  <2>4. found = [n \in Nodes |-> found[n]]
    <3> HIDE DEF found
    <3> QED BY <1>12
  <2> HIDE DEF found
  <2> QED BY <2>3, <2>4
<1> HIDE DEF found
<1> QED BY <1>13, <1>14, <1>15 DEF DepthSteps, E, V

\* All the leaves below the root are as deep as each other.
LEMMA LeavesEquallyDeep ==
  ASSUME TypeInv, WholeInv, LevelInv, NEW dom, Routes(dom), pc # "parent", root \in Nodes
  PROVE  Cardinality(LeafDepths[root]) = 1
<1>1. PICK B \in Nat : \E lvl \in [Nodes -> 0..B] : Leveled(lvl)
  BY DEF LevelInv
<1>2. PICK lvl \in [Nodes -> 0..B] : Leveled(lvl)
  BY <1>1
<1>3. DepthSteps
  BY DepthsSolved
<1> DEFINE T == {n \in Nodes : dom[n] # {} => LeafDepths[n] = {lvl[n]}}
<1>4. ASSUME NEW n \in Nodes, \A m \in Nodes : lvl[m] < lvl[n] => m \in T PROVE n \in T
  <2> SUFFICES ASSUME dom[n] # {} PROVE LeafDepths[n] = {lvl[n]}
    OBVIOUS
  <2>1. CASE is_leaf[n]
    <3>1. lvl[n] = 0
      BY <1>2, <2>1 DEF Leveled
    <3> QED BY <1>3, <2>1, <3>1 DEF DepthSteps
  <2>2. CASE ~is_leaf[n]
    <3>1. children[n] # <<>> /\ children[n] \in Seq(Nodes)
      BY <2>2 DEF Routes, WholeInv, InnerHaveKids, TypeInv, TypeOK, HeapTypeOK
    <3>2. Kids(n) # {}
      <4>1. 1 \in DOMAIN children[n]
        BY <3>1
      <4> QED BY <4>1 DEF Kids, ToSet
    <3>3. ASSUME NEW c \in Kids(n)
          PROVE  LeafDepths[c] = {lvl[c]} /\ lvl[c] + 1 = lvl[n] /\ lvl[c] \in Nat
      <4>1. c \in Nodes /\ lvl[c] < lvl[n]
        BY <1>2, KidsLower
      <4>2. dom[c] # {}
        BY DEF Kids, ToSet, Routes, Peopled
      <4>3. LeafDepths[c] = {lvl[c]}
        BY <1>4, <4>1, <4>2
      <4> QED BY <1>2, <4>1, <4>3 DEF Leveled
    <3>4. LeafDepths[n] = {d + 1 : d \in UNION {LeafDepths[c] : c \in Kids(n)}}
      BY <1>3, <2>2 DEF DepthSteps
    <3>5. ASSUME NEW x \in LeafDepths[n] PROVE x = lvl[n]
      <4>0. PICK d \in UNION {LeafDepths[c] : c \in Kids(n)} : x = d + 1
        BY <3>4
      <4>1. PICK c \in Kids(n) : d \in LeafDepths[c]
        BY <4>0
      <4>2. d = lvl[c]
        BY <3>3, <4>1
      <4> QED BY <3>3, <4>0, <4>2
    <3>6. lvl[n] \in LeafDepths[n]
      <4>1. PICK c \in Kids(n) : TRUE
        BY <3>2
      <4>2. lvl[c] \in LeafDepths[c] /\ lvl[c] + 1 = lvl[n]
        BY <3>3
      <4> QED BY <3>4, <4>2
    <3> QED BY <3>5, <3>6
  <2> QED BY <2>1, <2>2
<1>5. Nodes \subseteq T
  <2>1. lvl \in [Nodes -> Nat]
    OBVIOUS
  <2> HIDE DEF T
  <2> QED BY <1>4, <2>1, RankInduct
<1>6. dom[root] # {}
  BY NullAssumption DEF Routes, Part
<1> QED BY <1>5, <1>6, FS_Singleton

-----------------------------------------------------------------------------
(* validate_node.                                                          *)

\* What validate_node asks of n, with h for its recursive calls.
ChildFits(h, n, lower, upper, i) ==
    LET child_lower == IF i > 1 THEN keys[n][i - 1] ELSE lower
        child_upper == IF i <= Len(keys[n]) THEN keys[n][i] ELSE upper
    IN /\ NoBound \notin {child_lower, child_upper} => child_lower < child_upper
       /\ h[children[n][i]][n][child_lower][child_upper]

NodeFits(h, n, expected_parent, lower, upper) ==
    /\ parent[n] = expected_parent
    /\ Len(keys[n]) <= MaxKeys
    /\ \A i \in 2..Len(keys[n]) : keys[n][i - 1] < keys[n][i]
    /\ IF is_leaf[n]
       THEN \A i \in 1..Len(keys[n]) :
              /\ lower # NoBound => lower <= keys[n][i]
              /\ upper # NoBound => keys[n][i] < upper
       ELSE /\ Len(children[n]) > Len(keys[n])
            /\ \A i \in 1..(Len(keys[n]) + 1) : ChildFits(h, n, lower, upper, i)

Parents == Nodes \cup {Null}
Verdicts == [Parents -> [Bounds -> [Bounds -> BOOLEAN]]]

\* validate_node, unfolded once.
ValidSteps ==
    /\ validate_node \in [Nodes -> Verdicts]
    /\ \A n \in Nodes, p \in Parents, lower, upper \in Bounds :
          validate_node[n][p][lower][upper] <=> NodeFits(validate_node, n, p, lower, upper)

LEMMA FitsAlike ==
  ASSUME TypeInv, NEW B \in Nat, NEW lvl \in [Nodes -> 0..B], Leveled(lvl),
         NEW n \in Nodes, NEW h, NEW g, \A m \in Nodes : lvl[m] < lvl[n] => h[m] = g[m],
         NEW p, NEW lower, NEW upper
  PROVE  NodeFits(h, n, p, lower, upper) <=> NodeFits(g, n, p, lower, upper)
<1>1. ASSUME ~is_leaf[n], Len(children[n]) > Len(keys[n]), NEW i \in 1..(Len(keys[n]) + 1)
      PROVE  ChildFits(h, n, lower, upper, i) <=> ChildFits(g, n, lower, upper, i)
  <2>1. children[n] \in Seq(Nodes) /\ Len(keys[n]) \in Nat /\ Len(children[n]) \in Nat
    BY KeysAreNumbers, LenProperties DEF TypeInv, TypeOK, HeapTypeOK
  <2>2. i \in 1..Len(children[n])
    BY <1>1, <2>1
  <2>3. i \in DOMAIN children[n]
    BY <2>1, <2>2
  <2>4. h[children[n][i]] = g[children[n][i]]
    BY <2>3, FirstKidLower
  <2> QED BY <2>4 DEF ChildFits
<1> QED BY <1>1 DEF NodeFits

LEMMA ValidSolved == TypeInv /\ LevelInv => ValidSteps
<1> SUFFICES ASSUME TypeInv, LevelInv PROVE ValidSteps
  OBVIOUS
<1>1. PICK B \in Nat : \E lvl \in [Nodes -> 0..B] : Leveled(lvl)
  BY DEF LevelInv
<1>2. PICK lvl \in [Nodes -> 0..B] : Leveled(lvl)
  BY <1>1
<1> DEFINE E(n, h) == [p \in Parents |-> [lower \in Bounds |-> [upper \in Bounds |->
                          NodeFits(h, n, p, lower, upper)]]]
           G == [nh \in Nodes \X [Nodes -> Verdicts] |-> E(nh[1], nh[2])]
<1>3. ASSUME NEW n, NEW h PROVE E(n, h) \in Verdicts
  <2>1. \A p, lower, upper : NodeFits(h, n, p, lower, upper) \in BOOLEAN
    BY DEF NodeFits
  <2> QED BY <2>1 DEF Verdicts
<1>4. ASSUME NEW n \in Nodes, NEW h, NEW g, \A m \in Nodes : lvl[m] < lvl[n] => h[m] = g[m]
      PROVE  E(n, h) = E(n, g)
  <2>1. ASSUME NEW p, NEW lower, NEW upper
        PROVE  NodeFits(h, n, p, lower, upper) = NodeFits(g, n, p, lower, upper)
    <3>1. NodeFits(h, n, p, lower, upper) <=> NodeFits(g, n, p, lower, upper)
      BY <1>2, <1>4, FitsAlike
    <3>2. NodeFits(h, n, p, lower, upper) \in BOOLEAN /\ NodeFits(g, n, p, lower, upper) \in BOOLEAN
      BY DEF NodeFits
    <3> QED BY <3>1, <3>2
  <2> QED BY <2>1
<1>5. \A n \in Nodes : \A h \in [Nodes -> Verdicts] : G[<<n, h>>] = E(n, h)
  OBVIOUS
<1> HIDE DEF E, G
<1>6. FallsBy(G, Nodes, Verdicts, lvl)
  BY <1>3, <1>4, <1>5 DEF FallsBy
<1>7. PICK f : Solves(f, G, Nodes, Verdicts)
  <2>1. PICK v : v = E(CHOOSE n : TRUE, CHOOSE h : TRUE)
    OBVIOUS
  <2>2. v \in Verdicts
    BY <1>3, <2>1
  <2>3. \E f : Solves(f, G, Nodes, Verdicts)
    BY <1>6, <2>2, RankRecursion
  <2> QED BY <2>3
<1>8. f \in [Nodes -> Verdicts] /\ \A n \in Nodes : f[n] = E(n, f)
  BY <1>5, <1>7 DEF Solves
<1> DEFINE Is(g) == g = [n \in Nodes |->
              [expected_parent \in Nodes \cup {Null} |-> [lower \in Bounds |-> [upper \in Bounds |->
                /\ parent[n] = expected_parent
                /\ Len(keys[n]) <= MaxKeys
                /\ \A i \in 2..Len(keys[n]) : keys[n][i - 1] < keys[n][i]
                /\ IF is_leaf[n]
                   THEN \A i \in 1..Len(keys[n]) :
                          /\ lower # NoBound => lower <= keys[n][i]
                          /\ upper # NoBound => keys[n][i] < upper
                   ELSE /\ Len(children[n]) > Len(keys[n])
                        /\ \A i \in 1..(Len(keys[n]) + 1) :
                             LET child_lower == IF i > 1 THEN keys[n][i - 1] ELSE lower
                                 child_upper == IF i <= Len(keys[n]) THEN keys[n][i] ELSE upper
                             IN /\ NoBound \notin {child_lower, child_upper} => child_lower < child_upper
                                /\ g[children[n][i]][n][child_lower][child_upper]]]]]
           found == CHOOSE g : Is(g)
<1>9. \A g : Is(g) <=> g = [n \in Nodes |-> E(n, g)]
  <2> TAKE g
  <2> QED BY DEF E, NodeFits, ChildFits, Parents
<1>10. validate_node = found
  BY DEF validate_node
<1> HIDE DEF Is
<1>11. Is(f)
  <2>1. f = [n \in Nodes |-> E(n, f)]
    BY <1>8
  <2> QED BY <1>9, <2>1
<1>12. Is(found)
  BY <1>11
<1> HIDE DEF found
<1>13. found = [n \in Nodes |-> E(n, found)]
  BY <1>9, <1>12
<1>14. \A n \in Nodes : found[n] = E(n, found)
  BY <1>13
<1>15. found \in [Nodes -> Verdicts]
  BY <1>3, <1>13
<1>16. ASSUME NEW n \in Nodes, NEW p \in Parents, NEW lower \in Bounds, NEW upper \in Bounds
       PROVE  found[n][p][lower][upper] <=> NodeFits(found, n, p, lower, upper)
  <2>0. E(n, found)[p][lower][upper] = NodeFits(found, n, p, lower, upper)
    BY DEF E
  <2>1. found[n][p][lower][upper] = NodeFits(found, n, p, lower, upper)
    BY <1>14, <2>0
  <2> QED BY <2>1
<1> QED BY <1>10, <1>15, <1>16 DEF ValidSteps

-----------------------------------------------------------------------------
\* The keys between two bounds.
Between(lower, upper) ==
    {k \in Nat : (lower # NoBound => lower <= k) /\ (upper # NoBound => k < upper)}

\* Which keys the rule of find_leaf_node takes to the child at i, when they ascend.
LEMMA SlotBetween ==
  ASSUME NEW s \in Seq(Nat), Ascending(s), NEW i \in 1..(Len(s) + 1), NEW k \in Nat
  PROVE  IsChildSlot(s, k, i) <=> (i > 1 => s[i - 1] <= k) /\ (i <= Len(s) => k < s[i])
<1> DEFINE m == Len(s)
<1>1. m \in Nat /\ m = Len(s) /\ DOMAIN s = 1..m /\ \A j \in 1..m : s[j] \in Nat
  BY NatSeq
<1> HIDE DEF m
<1>2. ASSUME i > 1, s[i - 1] <= k, NEW j \in 1..(i - 1) PROVE s[j] <= k
  <2> DEFINE h == i - 1
  <2>1. h \in 1..m /\ j \in 1..m /\ (j = h \/ j < h)
    BY <1>1, <1>2
  <2>2. s[h] <= k
    BY <1>2
  <2> HIDE DEF h
  <2>3. CASE j < h
    <3>1. s[j] < s[h]
      BY <1>1, <2>1, <2>3 DEF Ascending
    <3>2. s[j] \in Nat /\ s[h] \in Nat
      BY <1>1, <2>1
    <3> QED BY <2>2, <3>1, <3>2
  <2> QED BY <2>1, <2>2, <2>3
<1>3. ASSUME i > 1, \A j \in 1..(i - 1) : s[j] <= k PROVE s[i - 1] <= k
  <2>1. i - 1 \in 1..(i - 1)
    BY <1>1, <1>3
  <2> QED BY <1>3, <2>1
<1>4. ~(i > 1) => \A j \in 1..(i - 1) : FALSE
  BY <1>1
<1> QED BY <1>2, <1>3, <1>4 DEF IsChildSlot

\* A part of the keys between two bounds is the keys between the bounds of that child.
LEMMA PartBetween ==
  ASSUME NEW s \in Seq(Nat), Ascending(s), NEW i \in 1..(Len(s) + 1),
         NEW lower \in Bounds, NEW upper \in Bounds, ToSet(s) \subseteq Between(lower, upper)
  PROVE  LET child_lower == IF i > 1 THEN s[i - 1] ELSE lower
             child_upper == IF i <= Len(s) THEN s[i] ELSE upper
         IN /\ child_lower \in Bounds /\ child_upper \in Bounds
            /\ {k \in Between(lower, upper) : IsChildSlot(s, k, i)}
                  = Between(child_lower, child_upper)
<1> DEFINE m == Len(s)
           cl == IF i > 1 THEN s[i - 1] ELSE lower
           cu == IF i <= Len(s) THEN s[i] ELSE upper
<1>1. /\ m \in Nat /\ m = Len(s) /\ i \in 1..(m + 1)
      /\ \A j \in 1..m : s[j] \in Nat /\ s[j] \in Between(lower, upper)
  BY NatSeq
<1> HIDE DEF m
<1>2. i > 1 => i - 1 \in 1..m
  BY <1>1
<1>3. i <= Len(s) => i \in 1..m
  BY <1>1
<1>4. cl \in Bounds /\ cu \in Bounds
  BY <1>1, <1>2, <1>3 DEF Bounds
<1>5. /\ i > 1 => s[i - 1] \in Nat /\ (lower # NoBound => lower <= s[i - 1])
      /\ i <= Len(s) => s[i] \in Nat /\ (upper # NoBound => s[i] < upper)
  BY <1>1, <1>2, <1>3 DEF Between
<1>6. /\ lower # NoBound => lower \in Nat
      /\ upper # NoBound => upper \in Nat
  BY DEF Bounds
<1>7. ASSUME NEW k \in Nat
      PROVE  (k \in Between(lower, upper) /\ IsChildSlot(s, k, i)) <=> k \in Between(cl, cu)
  <2>1. IsChildSlot(s, k, i) <=> (i > 1 => s[i - 1] <= k) /\ (i <= Len(s) => k < s[i])
    BY <1>7, SlotBetween
  <2> DEFINE x == s[i - 1]
             y == s[i]
             up == i > 1
             in == i <= Len(s)
  <2>2. /\ up => x \in Nat /\ (lower # NoBound => lower <= x)
        /\ in => y \in Nat /\ (upper # NoBound => y < upper)
    BY <1>5
  <2>3. IsChildSlot(s, k, i) <=> (up => x <= k) /\ (in => k < y)
    BY <2>1
  <2>4. cl = (IF up THEN x ELSE lower) /\ cu = (IF in THEN y ELSE upper)
    OBVIOUS
  <2> HIDE DEF x, y, cl, cu, up, in
  <2>5. /\ (lower # NoBound => lower <= k) /\ (up => x <= k) <=> (cl # NoBound => cl <= k)
    BY <1>6, <1>7, <2>2, <2>4 DEF NoBound
  <2>6. /\ (upper # NoBound => k < upper) /\ (in => k < y) <=> (cu # NoBound => k < cu)
    BY <1>6, <1>7, <2>2, <2>4 DEF NoBound
  <2> QED BY <2>3, <2>5, <2>6 DEF Between
<1>8. Between(lower, upper) \subseteq Nat /\ Between(cl, cu) \subseteq Nat
  BY DEF Between
<1> HIDE DEF cl, cu
<1>9. {k \in Between(lower, upper) : IsChildSlot(s, k, i)} = Between(cl, cu)
  BY <1>7, <1>8
<1> QED BY <1>4, <1>9 DEF cl, cu

\* The keys of a child are those between its bounds, and there are some.
LEMMA ChildBetween ==
  ASSUME LinkInv, NEW dom, Routes(dom), pc # "parent", NEW n \in Nodes, dom[n] # {},
         children[n] # <<>>, NEW lower \in Bounds, NEW upper \in Bounds,
         dom[n] = Between(lower, upper), NEW i \in 1..(Len(keys[n]) + 1)
  PROVE  LET c == children[n][i]
             child_lower == IF i > 1 THEN keys[n][i - 1] ELSE lower
             child_upper == IF i <= Len(keys[n]) THEN keys[n][i] ELSE upper
         IN /\ i \in DOMAIN children[n] /\ c \in Nodes /\ parent[c] = n
            /\ child_lower \in Bounds /\ child_upper \in Bounds
            /\ dom[c] # {} /\ dom[c] = Between(child_lower, child_upper)
            /\ NoBound \notin {child_lower, child_upper} => child_lower < child_upper
<1> DEFINE s == keys[n]
           c == children[n][i]
           cl == IF i > 1 THEN s[i - 1] ELSE lower
           cu == IF i <= Len(s) THEN s[i] ELSE upper
<1>1. /\ s \in Seq(Nat) /\ children[n] \in Seq(Nodes) /\ Len(children[n]) = Len(s) + 1
  BY KeysAreNumbers DEF LinkInv, TypeInv, TypeOK, HeapTypeOK, NodeShape
<1>2. i \in DOMAIN children[n] /\ c \in Nodes
  BY <1>1
<1>3. parent[c] = n
  BY <1>2 DEF LinkInv, KidsKnowParent, Kids, ToSet
<1>4. Ascending(s) /\ ToSet(s) \subseteq Between(lower, upper)
  BY DEF Routes, KeysAtHome
<1>5. dom[c] # {}
  BY <1>2 DEF Routes, Peopled
<1>6. dom[c] = {k \in dom[n] : IsChildSlot(s, k, i)}
  <2>1. Part(dom, c) = {k \in dom[n] : IsChildSlot(s, k, i)}
    BY <1>2 DEF Routes, Divided
  <2>2. Part(dom, c) = dom[c]
    BY DEF Part
  <2> QED BY <2>1, <2>2
<1>7. cl \in Bounds /\ cu \in Bounds /\ dom[c] = Between(cl, cu)
  <2>1. /\ cl \in Bounds /\ cu \in Bounds
        /\ {k \in Between(lower, upper) : IsChildSlot(s, k, i)} = Between(cl, cu)
    <3>1. i \in 1..(Len(s) + 1)
      OBVIOUS
    <3> HIDE DEF s
    <3> QED BY <1>1, <1>4, <3>1, PartBetween
  <2> HIDE DEF s, c, cl, cu
  <2> QED BY <1>6, <2>1
<1>8. NoBound \notin {cl, cu} => cl < cu
  <2> HIDE DEF cl, cu, c
  <2>1. PICK k : k \in Between(cl, cu)
    BY <1>5, <1>7
  <2> QED BY <1>7, <2>1 DEF Between, Bounds
<1> QED BY <1>2, <1>3, <1>5, <1>7, <1>8

\* validate_node finds nothing wrong with a node a search can come to.
LEMMA NodesAreValid ==
  ASSUME LinkInv, WholeInv, LevelInv, NEW dom, Routes(dom), pc # "parent"
  PROVE  \A n \in Nodes : \A lower, upper \in Bounds :
            dom[n] # {} /\ dom[n] = Between(lower, upper) =>
                validate_node[n][parent[n]][lower][upper]
<1>1. PICK B \in Nat : \E lvl \in [Nodes -> 0..B] : Leveled(lvl)
  BY DEF LevelInv
<1>2. PICK lvl \in [Nodes -> 0..B] : Leveled(lvl)
  BY <1>1
<1>3. TypeInv /\ ValidSteps
  BY ValidSolved DEF LinkInv
<1> DEFINE Valid(n) == \A lower, upper \in Bounds :
               dom[n] # {} /\ dom[n] = Between(lower, upper) =>
                   validate_node[n][parent[n]][lower][upper]
           T == {n \in Nodes : Valid(n)}
<1>4. ASSUME NEW n \in Nodes, \A m \in Nodes : lvl[m] < lvl[n] => m \in T PROVE n \in T
  <2> SUFFICES ASSUME NEW lower \in Bounds, NEW upper \in Bounds,
                      dom[n] # {}, dom[n] = Between(lower, upper)
               PROVE  validate_node[n][parent[n]][lower][upper]
    OBVIOUS
  <2>1. parent[n] \in Parents
    BY <1>3 DEF TypeInv, TypeOK, HeapTypeOK, Parents
  <2>2. Len(keys[n]) <= MaxKeys
    BY <1>3 DEF TypeInv, NodeShape
  <2>3. Ascending(keys[n]) /\ ToSet(keys[n]) \subseteq Between(lower, upper)
    BY DEF Routes, KeysAtHome
  <2>4. /\ Len(keys[n]) \in Nat /\ DOMAIN keys[n] = 1..Len(keys[n])
        /\ \A i \in 1..Len(keys[n]) : keys[n][i] \in Nat /\ keys[n][i] \in ToSet(keys[n])
    <3> DEFINE q == keys[n]
    <3>1. q \in Seq(Nat)
      BY <1>3, KeysAreNumbers
    <3> HIDE DEF q
    <3>2. /\ Len(q) \in Nat /\ DOMAIN q = 1..Len(q)
          /\ \A i \in 1..Len(q) : q[i] \in Nat /\ q[i] \in ToSet(q)
      BY <3>1, NatSeq DEF ToSet
    <3> QED BY <3>2 DEF q
  <2>5. \A i \in 2..Len(keys[n]) : keys[n][i - 1] < keys[n][i]
    <3> DEFINE q == keys[n]
               m == Len(q)
    <3>1. m \in Nat /\ DOMAIN q = 1..m /\ Ascending(q)
      BY <2>3, <2>4
    <3> HIDE DEF q, m
    <3>2. ASSUME NEW i \in 2..m PROVE q[i - 1] < q[i]
      <4>1. i - 1 \in 1..m /\ i \in 1..m /\ i - 1 < i
        BY <3>1
      <4> QED BY <3>1, <4>1 DEF Ascending
    <3> QED BY <3>2 DEF q, m
  <2>6. CASE is_leaf[n]
    <3>1. \A i \in 1..Len(keys[n]) : /\ lower # NoBound => lower <= keys[n][i]
                                     /\ upper # NoBound => keys[n][i] < upper
      BY <2>3, <2>4 DEF Between
    <3>2. NodeFits(validate_node, n, parent[n], lower, upper)
      BY <2>2, <2>5, <2>6, <3>1 DEF NodeFits
    <3> QED BY <1>3, <2>1, <3>2 DEF ValidSteps
  <2>7. CASE ~is_leaf[n]
    <3>1. children[n] # <<>>
      BY <2>7 DEF Routes, WholeInv, InnerHaveKids
    <3>2. Len(children[n]) > Len(keys[n])
      <4>1. Len(children[n]) = Len(keys[n]) + 1
        BY <1>3, <3>1 DEF TypeInv, NodeShape
      <4> QED BY <2>4, <4>1
    <3>3. ASSUME NEW i \in 1..(Len(keys[n]) + 1)
          PROVE  ChildFits(validate_node, n, lower, upper, i)
      <4> DEFINE c == children[n][i]
                 cl == IF i > 1 THEN keys[n][i - 1] ELSE lower
                 cu == IF i <= Len(keys[n]) THEN keys[n][i] ELSE upper
      <4>1. /\ i \in DOMAIN children[n] /\ c \in Nodes /\ parent[c] = n
            /\ cl \in Bounds /\ cu \in Bounds
            /\ dom[c] # {} /\ dom[c] = Between(cl, cu)
            /\ NoBound \notin {cl, cu} => cl < cu
        BY <3>1, ChildBetween
      <4>2. c \in T
        BY <1>2, <1>3, <1>4, <4>1, FirstKidLower
      <4>3. validate_node[c][n][cl][cu]
        <5> HIDE DEF c, cl, cu
        <5> QED BY <4>1, <4>2
      <4> QED BY <4>1, <4>3 DEF ChildFits
    <3>4. NodeFits(validate_node, n, parent[n], lower, upper)
      BY <2>2, <2>5, <2>7, <3>2, <3>3 DEF NodeFits
    <3> QED BY <1>3, <2>1, <3>4 DEF ValidSteps
  <2> QED BY <2>6, <2>7
<1>5. Nodes \subseteq T
  <2>1. lvl \in [Nodes -> Nat]
    OBVIOUS
  <2> HIDE DEF T
  <2> QED BY <1>4, <2>1, RankInduct
<1> QED BY <1>5

\* What bptree_validate checks between two calls.
LEMMA ExactIsValid == ExactInv => AlwaysValid
<1> SUFFICES ASSUME ExactInv, pc = "idle" PROVE bptree_validate
  BY DEF AlwaysValid
<1>1. CountInv /\ ChainInv /\ LinkInv /\ TypeInv /\ WholeInv /\ LevelInv /\ key_count \in Nat
  BY DEF ExactInv, CountInv, ChainInv, LinkInv, TypeInv, TypeOK, HeapTypeOK
<1>2. CASE root = Null
  BY <1>1, <1>2 DEF CountInv, bptree_validate
<1>3. CASE root # Null
  <2>1. root \in Nodes /\ parent[root] = Null
    BY <1>1, <1>3 DEF LinkInv, RootIsTop, TypeInv, TypeOK, HeapTypeOK
  <2>2. Stored(LeafChain) = Counted
    BY <1>3 DEF ExactInv
  <2>3. PICK dom : Routes(dom)
    BY <1>1, <1>3, <2>2 DEF CountInv
  <2>4. PICK L, ch : Chained(L, ch)
    BY <1>1, <1>3 DEF ChainInv
  <2>5. LeafChain = ch
    BY <1>1, <1>3, <2>4, TheChain
  <2>6. validate_node[root][Null][NoBound][NoBound]
    <3>1. dom[root] = Nat
      BY <1>3, <2>3 DEF Part, Routes
    <3>2. NoBound \in Bounds /\ Between(NoBound, NoBound) = Nat
      BY DEF Between, Bounds
    <3>3. 0 \in dom[root]
      BY <3>1
    <3> QED BY <1>1, <2>1, <2>3, <3>1, <3>2, <3>3, NodesAreValid
  <2>7. Cardinality(LeafDepths[root]) = 1
    BY <1>1, <2>1, <2>3, LeavesEquallyDeep
  <2>8. \A i \in DOMAIN ch : is_leaf[ch[i]]
    <3>1. ch \in Seq(Nodes) /\ Linked(ch)
      BY <2>4 DEF Chained
    <3> QED BY <3>1, LenProperties DEF Linked
  <2>9. \A i \in 2..Len(KeysAlong(ch)) : KeysAlong(ch)[i - 1] < KeysAlong(ch)[i]
    <3> DEFINE q == KeysAlong(ch)
               m == Len(q)
    <3>1. q \in Seq(Nat) /\ Ascending(q)
      BY <1>1, <2>1, <2>3, <2>4, ChainAscends
    <3>2. m \in Nat /\ DOMAIN q = 1..m
      BY <3>1, NatSeq
    <3> HIDE DEF q, m
    <3>3. ASSUME NEW i \in 2..m PROVE q[i - 1] < q[i]
      <4>1. i - 1 \in 1..m /\ i \in 1..m /\ i - 1 < i
        BY <3>2
      <4> QED BY <3>1, <3>2, <4>1 DEF Ascending
    <3> QED BY <3>3 DEF q, m
  <2>10. Len(KeysAlong(ch)) = key_count
    <3>1. Counted = key_count + 0
      BY DEF Counted
    <3> QED BY <1>1, <2>2, <2>5, <3>1 DEF Stored
  <2> QED BY <1>3, <2>5, <2>6, <2>7, <2>8, <2>9, <2>10 DEF bptree_validate, TreeIsValid
<1> QED BY <1>2, <1>3

\* AlwaysValid: as long as no insertion is given up after its leaf has been split the tree
\* passes bptree_validate between calls; other failed allocations do no harm
\* (insert_into_parent).
THEOREM ValidUnlessGivenUp == Spec /\ [][~InsertIntoParentFails]_vars => []AlwaysValid
<1>1. ExactInv /\ [Next]_vars /\ [~InsertIntoParentFails]_vars => ExactInv'
  <2> SUFFICES ASSUME ExactInv, [Next]_vars, [~InsertIntoParentFails]_vars PROVE ExactInv'
    OBVIOUS
  <2>1. CASE ~InsertIntoParentFails
    BY <2>1, ExactInvStep
  <2>2. CASE UNCHANGED vars
    <3>1. ~InsertIntoParentFails
      BY <2>2 DEF InsertIntoParentFails, InsertFails, Return, vars
    <3> QED BY <3>1, ExactInvStep
  <2> QED BY <2>1, <2>2
<1> QED BY <1>1, ExactInvInit, ExactIsValid, PTL DEF Spec

\* AlwaysValid, while calloc never fails.
THEOREM ValidWhileMemoryLasts ==
  ASSUME MaxFailures = 0
  PROVE  Spec /\ []CanAllocate => []AlwaysValid
<1>1. LinkInv /\ CanAllocate => ~InsertIntoParentFails
  BY NoParentFailure
<1>2. Spec => []LinkInv
  BY LinksInvariant
<1>3. Spec /\ []CanAllocate => [][~InsertIntoParentFails]_vars
  BY <1>1, <1>2, PTL
<1> QED BY <1>3, ValidUnlessGivenUp, PTL
=============================================================================
