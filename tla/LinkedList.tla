----------------------------- MODULE LinkedList -----------------------------
(***************************************************************************)
(* vras/src/linkedList.c, pointer by pointer.  The assembler keeps its     *)
(* lines, macros, tokens, labels and statements in such lists, and each    *)
(* list owns the data it is given.  The walk from the start of the list    *)
(* to an index is NodeAt; a freed node holds Freed in every field, so that *)
(* a pointer to it that is left somewhere shows.                           *)
(***************************************************************************)
EXTENDS Naturals, SequencesExt

CONSTANTS Node,      \* the heap's cells for struct ll_node
          Datum,     \* the data pointers
          Index,     \* the indices that callers pass
          NULL, Freed

ASSUME NodeAssumption ==
    NULL \notin Node \cup Datum /\ Freed \notin Node \cup Datum \cup {NULL}
ASSUME IndexAssumption == Index \subseteq Nat

VARIABLES head,      \* struct ll_head, and the fields of all nodes
          call       \* the last call made, and what it gave back

llVars == <<head, call>>

Live(l)  == {n \in Node : l.next[n] # Freed}
Owned(l) == {l.data[n] : n \in Live(l)}

Call(op, idx, datum, out) == [op |-> op, idx |-> idx, datum |-> datum, out |-> out]

-----------------------------------------------------------------------------
\* `if (p != NULL) p->field = value;`
Store(field, p, value) == IF p = NULL THEN field ELSE [field EXCEPT ![p] = value]

\* The node reached from the start by idx steps; NULL behind the end.
NodeAt(l, idx) ==
    LET cur[i \in 0..idx] ==
            IF i = 0 THEN l.start
            ELSE IF cur[i - 1] = NULL THEN NULL ELSE l.next[cur[i - 1]]
    IN cur[idx]

\* A new node n with datum d between the nodes before and after.
Linked(l, n, d, before, after) ==
    [start |-> l.start, end |-> l.end, len |-> l.len + 1,
     next  |-> [Store(l.next, before, n) EXCEPT ![n] = after],
     prev  |-> [Store(l.prev, after, n) EXCEPT ![n] = before],
     data  |-> [l.data EXCEPT ![n] = d]]

Appended(l, n, d) ==
    IF l.start = NULL
    THEN [Linked(l, n, d, NULL, NULL) EXCEPT !.start = n, !.end = n]
    ELSE [Linked(l, n, d, l.end, NULL) EXCEPT !.end = n]

\* Mutant: a node behind the last one does not become the end.
InsertedAfter_StaleEnd(l, n, idx, d) ==
    LET cur == NodeAt(l, idx)
    IN IF l.start = NULL THEN Appended(l, n, d)
       ELSE IF cur = NULL THEN l
       ELSE Linked(l, n, d, cur, l.next[cur])

InsertedAfter(l, n, idx, d) ==
    LET cur == NodeAt(l, idx)
    IN IF l.start = NULL THEN Appended(l, n, d)
       ELSE IF cur = NULL THEN l
       ELSE [Linked(l, n, d, cur, l.next[cur]) EXCEPT
                !.end = IF l.next[cur] = NULL THEN n ELSE @]

InsertedBefore(l, n, idx, d) ==
    LET cur == NodeAt(l, idx)
    IN IF cur = NULL THEN l
       ELSE [Linked(l, n, d, l.prev[cur], cur) EXCEPT
                !.start = IF l.prev[cur] = NULL THEN n ELSE @]

\* Mutant: the position behind the last item is not told apart.
InsertedAs_NoAppend(l, n, idx, d) ==
    IF l.len = 0 THEN Appended(l, n, d) ELSE InsertedBefore(l, n, idx, d)

InsertedAs(l, n, idx, d) ==
    IF l.len = 0 \/ l.len = idx
    THEN Appended(l, n, d)
    ELSE InsertedBefore(l, n, idx, d)

\* Mutant: the successor keeps its pointer to the node that is freed.
Unlinked_StalePrev(l, cur) ==
    LET before == l.prev[cur]
        after  == l.next[cur]
    IN [start |-> IF before # NULL THEN l.start ELSE after,
        end   |-> IF after # NULL THEN l.end ELSE before,
        len   |-> l.len - 1,
        next  |-> [Store(l.next, before, after) EXCEPT ![cur] = Freed],
        prev  |-> [l.prev EXCEPT ![cur] = Freed],
        data  |-> [l.data EXCEPT ![cur] = Freed]]

\* The body of ll_remove: the neighbours are joined and the node is freed.
Unlinked(l, cur) ==
    LET before == l.prev[cur]
        after  == l.next[cur]
    IN [start |-> IF before # NULL THEN l.start ELSE after,
        end   |-> IF after # NULL THEN l.end ELSE before,
        len   |-> l.len - 1,
        next  |-> [Store(l.next, before, after) EXCEPT ![cur] = Freed],
        prev  |-> [Store(l.prev, after, before) EXCEPT ![cur] = Freed],
        data  |-> [l.data EXCEPT ![cur] = Freed]]

Removed(l, idx) ==
    IF NodeAt(l, idx) = NULL THEN l ELSE Unlinked(l, NodeAt(l, idx))

\* What ll_remove passes to the list's delete function.
Released(l, idx) ==
    IF NodeAt(l, idx) = NULL THEN <<>> ELSE <<l.data[NodeAt(l, idx)]>>

-----------------------------------------------------------------------------
Nowhere == [n \in Node |-> Freed]

Init ==
    /\ head = [start |-> NULL, end |-> NULL, len |-> 0,
               next |-> Nowhere, prev |-> Nowhere, data |-> Nowhere]
    /\ call = Call("none", 0, NULL, <<>>)

\* calloc returns any free cell; callers pass data that no node holds.
Allocatable(n, d) == n \in Node \ Live(head) /\ d \in Datum \ Owned(head)

ll_append(n, d) ==
    /\ Allocatable(n, d)
    /\ head' = Appended(head, n, d)
    /\ call' = Call("append", 0, d, <<>>)

ll_insertAfter(n, idx, d) ==
    /\ Allocatable(n, d)
    /\ head' = InsertedAfter(head, n, idx, d)
    /\ call' = Call("insertAfter", idx, d, <<>>)

ll_insertBefore(n, idx, d) ==
    /\ Allocatable(n, d)
    /\ head' = InsertedBefore(head, n, idx, d)
    /\ call' = Call("insertBefore", idx, d, <<>>)

ll_insertAs(n, idx, d) ==
    /\ Allocatable(n, d)
    /\ head' = InsertedAs(head, n, idx, d)
    /\ call' = Call("insertAs", idx, d, <<>>)

ll_get(idx) ==
    /\ call' = Call("get", idx, NULL, Released(head, idx))
    /\ UNCHANGED head

ll_remove(idx) ==
    /\ head' = Removed(head, idx)
    /\ call' = Call("remove", idx, NULL, Released(head, idx))

\* while (head->len > 0) ll_remove(head, 0);
ll_delete ==
    LET after[i \in 0..head.len] ==
            IF i = 0 THEN head ELSE Removed(after[i - 1], 0)
        released[i \in 0..head.len] ==
            IF i = 0 THEN <<>> ELSE released[i - 1] \o Released(after[i - 1], 0)
    IN /\ head' = after[head.len]
       /\ call' = Call("delete", 0, NULL, released[head.len])

Next == \/ \E n \in Node, d \in Datum : ll_append(n, d)
        \/ \E n \in Node, idx \in Index, d \in Datum :
            \/ ll_insertAfter(n, idx, d)
            \/ ll_insertBefore(n, idx, d)
            \/ ll_insertAs(n, idx, d)
        \/ \E idx \in Index : ll_get(idx) \/ ll_remove(idx)
        \/ ll_delete

Spec == Init /\ [][Next]_llVars

-----------------------------------------------------------------------------
\* Every pointer is to a live node or NULL: nothing in the list, and nothing a
\* walk can meet, points to a node that ll_remove has freed.
TypeOK ==
    LET Pointer == Live(head) \cup {NULL}
    IN /\ {head.start, head.end} \subseteq Pointer
       /\ head.len \in Nat
       /\ \A n \in Live(head) :
            /\ {head.next[n], head.prev[n]} \subseteq Pointer
            /\ head.data[n] \in Datum
       /\ \A n \in Node \ Live(head) : head.prev[n] = Freed /\ head.data[n] = Freed

Forward  == [i \in 1..head.len |-> NodeAt(head, i - 1)]
Backward == [i \in 1..head.len |->
                NodeAt([start |-> head.end, next |-> head.prev], i - 1)]

\* The walk over `next` from the start (every lookup) and the walk over `prev`
\* from the end (the copy of an included file, main.c:529) visit the same len
\* nodes, in opposite orders, and no live node is outside of them.
BothWays ==
    /\ Forward = Reverse(Backward)
    /\ ToSet(Forward) = Live(head)
    /\ NodeAt(head, head.len) = NULL

AsSequence == [i \in 1..head.len |-> head.data[Forward[i]]]

\* Seen by its callers the list is a sequence: every operation, at every index
\* and on the empty list, changes the sequence and returns or releases what
\* SequenceList says.
Abstract == INSTANCE SequenceList WITH items <- AsSequence

IsSequence == Abstract!Spec
=============================================================================
