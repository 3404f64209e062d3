---------------------------- MODULE SequenceList ----------------------------
(***************************************************************************)
(* What vras/src/linkedList.h promises: a list is a sequence of data       *)
(* pointers that it owns, indexed from 0, and a pointer leaves the list    *)
(* only by way of the list's delete function.  `call` is the last call     *)
(* made, with what it returned or passed to the delete function.           *)
(***************************************************************************)
EXTENDS Naturals, SequencesExt

CONSTANTS Datum,      \* the data pointers
          Index,      \* the indices that callers pass
          NULL

VARIABLES items, call

listVars == <<items, call>>

Call(op, idx, datum, out) == [op |-> op, idx |-> idx, datum |-> datum, out |-> out]

Init == items = <<>> /\ call = Call("none", 0, NULL, <<>>)

Fresh(d) == d \notin ToSet(items)

InsertedAt(position, d) == items' = InsertAt(items, position, d)

AppendCall(d) ==
    /\ Fresh(d) /\ InsertedAt(Len(items) + 1, d)
    /\ call' = Call("append", 0, d, <<>>)

\* Behind the item idx; into an empty list whatever idx is.
InsertAfterCall(idx, d) ==
    /\ Fresh(d)
    /\ IF items = <<>> THEN InsertedAt(1, d)
       ELSE IF idx < Len(items) THEN InsertedAt(idx + 2, d)
       ELSE UNCHANGED items
    /\ call' = Call("insertAfter", idx, d, <<>>)

InsertBeforeCall(idx, d) ==
    /\ Fresh(d)
    /\ IF idx < Len(items) THEN InsertedAt(idx + 1, d) ELSE UNCHANGED items
    /\ call' = Call("insertBefore", idx, d, <<>>)

\* So that d becomes item idx; into an empty list whatever idx is.
InsertAsCall(idx, d) ==
    /\ Fresh(d)
    /\ IF items = <<>> THEN InsertedAt(1, d)
       ELSE IF idx <= Len(items) THEN InsertedAt(idx + 1, d)
       ELSE UNCHANGED items
    /\ call' = Call("insertAs", idx, d, <<>>)

GetCall(idx) ==
    /\ call' = Call("get", idx, NULL,
                    IF idx < Len(items) THEN <<items[idx + 1]>> ELSE <<>>)
    /\ UNCHANGED items

RemoveCall(idx) ==
    IF idx < Len(items)
    THEN /\ items' = RemoveAt(items, idx + 1)
         /\ call' = Call("remove", idx, NULL, <<items[idx + 1]>>)
    ELSE UNCHANGED items /\ call' = Call("remove", idx, NULL, <<>>)

DeleteCall == items' = <<>> /\ call' = Call("delete", 0, NULL, items)

Next == \/ \E d \in Datum : AppendCall(d)
        \/ \E d \in Datum, idx \in Index :
            \/ InsertAfterCall(idx, d) \/ InsertBeforeCall(idx, d)
            \/ InsertAsCall(idx, d)
        \/ \E idx \in Index : GetCall(idx) \/ RemoveCall(idx)
        \/ DeleteCall

Spec == Init /\ [][Next]_listVars
=============================================================================
