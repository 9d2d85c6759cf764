------------------------------ MODULE IdTable ------------------------------
(***************************************************************************)
(* What a table with an id column promises the user of the engine: every   *)
(* INSERT stores one row under the largest id plus one, rows stay, and a   *)
(* SELECT answers from the rows stored, in whichever process it runs.      *)
(* docs/workOrder.md:677-678 and :821-824 say so.                          *)
(***************************************************************************)
EXTENDS Integers

CONSTANTS MaxId,        \* the largest id
          StoredBefore  \* the sets of ids the table may hold at the start

VARIABLES rows,   \* the ids of the rows stored
          reply   \* the last answer any process printed

vars == <<rows, reply>>

Reply(op, id, status, found) ==
    [op |-> op, id |-> id, status |-> status, found |-> found]

NextId == IF rows = {} THEN 1 ELSE 1 + (CHOOSE m \in rows : \A i \in rows : i <= m)

Init == rows \in StoredBefore /\ reply = Reply("none", 0, "OK", {})

Insert ==
    /\ NextId <= MaxId
    /\ rows' = rows \cup {NextId}
    /\ reply' = Reply("insert", NextId, "OK", {})

\* The row is stored, but the process dies or reports an error before it says so.
StoreUnanswered ==
    /\ NextId <= MaxId
    /\ rows' = rows \cup {NextId}
    /\ \/ reply' = reply
       \/ \E error \in {"INDEX_ERROR", "STORAGE_ERROR"} :
             reply' = Reply("insert", NextId, error, {})

Select ==
    /\ reply'.op = "select"
    /\ reply' = Reply("select", reply'.id, "OK", {reply'.id} \cap rows)
    /\ rows' = rows

Scan == reply' = Reply("scan", 0, "OK", rows) /\ rows' = rows

Refuse == reply'.status # "OK" /\ reply'.found = {} /\ rows' = rows

Next == Insert \/ StoreUnanswered \/ Select \/ Scan \/ Refuse

Spec == Init /\ [][Next]_vars
=============================================================================
