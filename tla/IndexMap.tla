------------------------------ MODULE IndexMap ------------------------------
(***************************************************************************)
(* What the id index promises its callers (include/bptree.h): a partial    *)
(* map from ids to row offsets.  An insert adds a new key or is refused    *)
(* with INDEX_ERROR and changes nothing; a search answers from the map.    *)
(* One step is one complete call, seen from outside the module.            *)
(***************************************************************************)
EXTENDS Integers

CONSTANTS Keys,      \* the ids
          Offsets,   \* the row offsets
          NoOffset,  \* what a call that found no row reports
          MayFail    \* TRUE iff a call may also be refused for lack of memory

VARIABLES map,       \* the keys stored, each with its row offset
          result     \* what the last call returned

vars == <<map, result>>

Result(op, key, status, offset) ==
    [op |-> op, key |-> key, status |-> status, offset |-> offset]

NoRows == [k \in {} |-> NoOffset]

Init ==
    /\ map = NoRows
    /\ result = Result("init", 0, "OK", NoOffset)

Insert(k, o) ==
    /\ result' = Result("insert", k, "OK", NoOffset)
    /\ k \notin DOMAIN map
    /\ map' = [x \in DOMAIN map \cup {k} |-> IF x = k THEN o ELSE map[x]]

Refuse(k) ==
    /\ result' = Result("insert", k, "INDEX_ERROR", NoOffset)
    /\ k \in DOMAIN map \/ MayFail
    /\ map' = map

Search(k) ==
    /\ \E o \in Offsets \cup {NoOffset} :
          /\ result' = Result("search", k, "OK", o)
          /\ o = IF k \in DOMAIN map THEN map[k] ELSE NoOffset
    /\ map' = map

Destroy ==
    /\ result' = Result("destroy", 0, "OK", NoOffset)
    /\ map' = NoRows

Next ==
    \/ \E k \in Keys : Refuse(k) \/ Search(k) \/ \E o \in Offsets : Insert(k, o)
    \/ Destroy

Spec == Init /\ [][Next]_vars
=============================================================================
