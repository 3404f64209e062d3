-------------------------- MODULE LinkedListProofs --------------------------
(***************************************************************************)
(* The doubly linked list is the sequence that its callers take it for:    *)
(* for any number of nodes, any data and any indices.                      *)
(***************************************************************************)
EXTENDS LinkedList, NaturalMinimum, SequenceTheorems

-----------------------------------------------------------------------------
(* The inductive invariant: the nodes that a walk from the start visits,   *)
(* in this order, are chained both ways, end at the end of the list, and   *)
(* are the only ones that are not free.                                    *)

ListType ==
    [start : Node \cup {NULL}, end : Node \cup {NULL}, len : Nat,
     next : [Node -> Node \cup {NULL, Freed}], prev : [Node -> Node \cup {NULL, Freed}],
     data : [Node -> Datum \cup {Freed}]]

Ends(l, c) ==
    /\ l.start = IF l.len = 0 THEN NULL ELSE c[1]
    /\ l.end = IF l.len = 0 THEN NULL ELSE c[l.len]

Links(l, c) ==
    \A i \in 1..l.len :
        /\ l.next[c[i]] = IF i = l.len THEN NULL ELSE c[i + 1]
        /\ l.prev[c[i]] = IF i = 1 THEN NULL ELSE c[i - 1]
        /\ l.data[c[i]] \in Datum

RestFreed(l, c) ==
    \A n \in Node : (\A i \in 1..l.len : c[i] # n) =>
        l.next[n] = Freed /\ l.prev[n] = Freed /\ l.data[n] = Freed

\* c numbers the nodes of the list l from its start to its end.
Chained(l, c) ==
    /\ l \in ListType
    /\ c \in [1..l.len -> Node]
    /\ \A i, j \in 1..l.len : c[i] = c[j] => i = j
    /\ Ends(l, c) /\ Links(l, c) /\ RestFreed(l, c)

Chain(l) == [i \in 1..l.len |-> NodeAt(l, i - 1)]
Items(l, c) == [i \in 1..l.len |-> l.data[c[i]]]

ChainInv == Chained(head, Chain(head))

-----------------------------------------------------------------------------
(* Walking.                                                                *)

\* Along pointers that lead from each node of c to the next, NodeAt finds the
\* node with the number of the index, and NULL behind the last.
LEMMA WalkAlong ==
    ASSUME NEW l, NEW m \in Nat, NEW c \in [1..m -> Node],
           l.start = IF m = 0 THEN NULL ELSE c[1],
           \A i \in 1..m : l.next[c[i]] = IF i = m THEN NULL ELSE c[i + 1],
           NEW idx \in Nat
    PROVE  NodeAt(l, idx) = IF idx < m THEN c[idx + 1] ELSE NULL
<1> DEFINE step(f) == [i \in 0..idx |->
                         IF i = 0 THEN l.start
                         ELSE IF f[i - 1] = NULL THEN NULL ELSE l.next[f[i - 1]]]
           cur == CHOOSE f : f = step(f)
           walk == [i \in 0..idx |-> IF i < m THEN c[i + 1] ELSE NULL]
<1>1. NodeAt(l, idx) = cur[idx]
    BY DEF NodeAt
<1>2. walk = step(walk)
    <2> SUFFICES ASSUME NEW i \in 0..idx
                 PROVE  walk[i] = IF i = 0 THEN l.start
                                  ELSE IF walk[i - 1] = NULL THEN NULL
                                  ELSE l.next[walk[i - 1]]
        OBVIOUS
    <2>1. CASE i = 0
        BY <2>1
    <2>2. CASE i # 0
        <3>1. i - 1 \in 0..idx
            BY <2>2
        <3>2. CASE i - 1 < m
            <4>1. walk[i - 1] = c[i] /\ i \in 1..m /\ c[i] # NULL
                BY <2>2, <3>1, <3>2, NodeAssumption
            <4> HIDE DEF walk
            <4>2. l.next[walk[i - 1]] = IF i = m THEN NULL ELSE c[i + 1]
                BY <4>1
            <4> QED BY <2>2, <4>1, <4>2 DEF walk
        <3>3. CASE ~(i - 1 < m)
            BY <2>2, <3>1, <3>3
        <3> QED BY <3>2, <3>3
    <2> QED BY <2>1, <2>2
<1>3. cur = step(cur)
    <2> HIDE DEF step, walk
    <2> QED BY <1>2
<1> HIDE DEF cur
<1>4. \A i \in 0..idx : cur[i] = walk[i]
    <2> DEFINE wrong == {i \in 0..idx : cur[i] # walk[i]}
    <2>1. SUFFICES ASSUME wrong # {} PROVE FALSE
        OBVIOUS
    <2>2. Min(wrong) \in wrong /\ \A j \in wrong : Min(wrong) <= j
        <3>1. wrong \subseteq Nat
            OBVIOUS
        <3> HIDE DEF wrong
        <3> QED BY <2>1, <3>1, MinIsLeast
    <2>3. PICK i \in wrong : \A j \in wrong : i <= j
        BY <2>2
    <2>4. CASE i = 0
        BY <1>2, <1>3, <2>3, <2>4
    <2>5. CASE i # 0
        <3>1. i - 1 \in 0..idx /\ i \in 0..idx
            BY <2>3, <2>5
        <3>2. cur[i - 1] = walk[i - 1]
            BY <2>3, <3>1
        <3>3. cur[i] = IF cur[i - 1] = NULL THEN NULL ELSE l.next[cur[i - 1]]
            BY <1>3, <2>5, <3>1
        <3>4. walk[i] = IF walk[i - 1] = NULL THEN NULL ELSE l.next[walk[i - 1]]
            <4> HIDE DEF walk
            <4> QED BY <1>2, <2>5, <3>1
        <3> HIDE DEF walk
        <3> QED BY <2>3, <3>2, <3>3, <3>4
    <2> QED BY <2>4, <2>5
<1> QED BY <1>1, <1>4

\* From the start and from the end.
LEMMA WalkChain ==
    ASSUME NEW l, NEW c, Chained(l, c), NEW idx \in Nat
    PROVE  /\ NodeAt(l, idx) = IF idx < l.len THEN c[idx + 1] ELSE NULL
           /\ NodeAt([start |-> l.end, next |-> l.prev], idx)
                = IF idx < l.len THEN c[l.len - idx] ELSE NULL
<1>1. l.len \in Nat /\ c \in [1..l.len -> Node]
    BY DEF Chained, ListType
<1>2. NodeAt(l, idx) = IF idx < l.len THEN c[idx + 1] ELSE NULL
    <2>1. l.start = IF l.len = 0 THEN NULL ELSE c[1]
        BY DEF Chained, Ends
    <2>2. \A i \in 1..l.len : l.next[c[i]] = IF i = l.len THEN NULL ELSE c[i + 1]
        BY DEF Chained, Links
    <2> QED BY <1>1, <2>1, <2>2, WalkAlong
<1> DEFINE back == [i \in 1..l.len |-> c[l.len + 1 - i]]
           mirror == [start |-> l.end, next |-> l.prev]
<1>3. back \in [1..l.len -> Node]
    BY <1>1
<1>4. mirror.start = IF l.len = 0 THEN NULL ELSE back[1]
    BY <1>1 DEF Chained, Ends
<1>5. ASSUME NEW i \in 1..l.len
      PROVE  mirror.next[back[i]] = IF i = l.len THEN NULL ELSE back[i + 1]
    <2>1. /\ l.len + 1 - i \in 1..l.len
          /\ i # l.len => l.len + 1 - (i + 1) = (l.len + 1 - i) - 1 /\ i + 1 \in 1..l.len
        BY <1>1
    <2>2. l.prev[c[l.len + 1 - i]]
            = IF l.len + 1 - i = 1 THEN NULL ELSE c[(l.len + 1 - i) - 1]
        BY <2>1 DEF Chained, Links
    <2> QED BY <1>1, <2>1, <2>2
<1>6. NodeAt(mirror, idx) = IF idx < l.len THEN back[idx + 1] ELSE NULL
    <2> HIDE DEF back, mirror
    <2> QED BY <1>1, <1>3, <1>4, <1>5, WalkAlong
<1>7. idx < l.len => back[idx + 1] = c[l.len - idx]
    BY <1>1
<1> QED BY <1>2, <1>6, <1>7

\* So the numbering is the one that a walk gives.
LEMMA ChainIsWalk ==
    ASSUME NEW l, NEW c, Chained(l, c)
    PROVE  Chain(l) = c
<1>1. l.len \in Nat /\ c \in [1..l.len -> Node]
    BY DEF Chained, ListType
<1>2. \A i \in 1..l.len : NodeAt(l, i - 1) = c[i]
    <2> SUFFICES ASSUME NEW i \in 1..l.len PROVE NodeAt(l, i - 1) = c[i]
        OBVIOUS
    <2>1. i - 1 \in Nat /\ i - 1 < l.len /\ (i - 1) + 1 = i
        BY <1>1
    <2> QED BY <2>1, WalkChain
<1> QED BY <1>1, <1>2 DEF Chain

\* The nodes of the chain are the live ones.
LEMMA LiveNodes ==
    ASSUME NEW l, NEW c, Chained(l, c)
    PROVE  /\ \A i \in 1..l.len : c[i] \in Live(l)
           /\ \A n \in Live(l) : \E i \in 1..l.len : c[i] = n
<1>1. l.len \in Nat /\ c \in [1..l.len -> Node]
    BY DEF Chained, ListType
<1>2. ASSUME NEW i \in 1..l.len
      PROVE  c[i] \in Live(l)
    <2>1. c[i] \in Node /\ (i # l.len => c[i + 1] \in Node)
        BY <1>1
    <2>2. l.next[c[i]] = IF i = l.len THEN NULL ELSE c[i + 1]
        BY DEF Chained, Links
    <2> QED BY <2>1, <2>2, NodeAssumption DEF Live
<1>3. ASSUME NEW n \in Live(l)
      PROVE  \E i \in 1..l.len : c[i] = n
    BY DEF Chained, RestFreed, Live
<1> QED BY <1>2, <1>3

-----------------------------------------------------------------------------
(* A node more.  Every insertion is Grown, behind the first k nodes.       *)

Grown(l, n, d, k, c) ==
    LET before == IF k = 0 THEN NULL ELSE c[k]
        after  == IF k = l.len THEN NULL ELSE c[k + 1]
    IN [Linked(l, n, d, before, after) EXCEPT
           !.start = IF k = 0 THEN n ELSE @, !.end = IF k = l.len THEN n ELSE @]

\* s with v behind its first k elements.
Inserted(s, m, k, v) ==
    [i \in 1..m + 1 |-> IF i <= k THEN s[i] ELSE IF i = k + 1 THEN v ELSE s[i - 1]]

LEMMA GrownChained ==
    ASSUME NEW l, NEW c, Chained(l, c),
           NEW n \in Node \ Live(l), NEW d \in Datum, NEW k \in 0..l.len
    PROVE  /\ Chained(Grown(l, n, d, k, c), Inserted(c, l.len, k, n))
           /\ Grown(l, n, d, k, c).len = l.len + 1
           /\ Items(Grown(l, n, d, k, c), Inserted(c, l.len, k, n))
                = Inserted(Items(l, c), l.len, k, d)
<1> DEFINE before == IF k = 0 THEN NULL ELSE c[k]
           after == IF k = l.len THEN NULL ELSE c[k + 1]
           g == Grown(l, n, d, k, c)
           w == Inserted(c, l.len, k, n)
<1>1. /\ l.len \in Nat /\ c \in [1..l.len -> Node] /\ n \in Node
      /\ l.next \in [Node -> Node \cup {NULL, Freed}]
      /\ l.prev \in [Node -> Node \cup {NULL, Freed}]
      /\ l.data \in [Node -> Datum \cup {Freed}]
      /\ l.start \in Node \cup {NULL} /\ l.end \in Node \cup {NULL}
    BY DEF Chained, ListType
<1>2. \A i \in 1..l.len : c[i] # n
    BY LiveNodes
<1>3. before \in Node \cup {NULL} /\ after \in Node \cup {NULL}
    BY <1>1
<1>4. /\ g.start = IF k = 0 THEN n ELSE l.start
      /\ g.end = IF k = l.len THEN n ELSE l.end
      /\ g.len = l.len + 1
      /\ g.next = [Store(l.next, before, n) EXCEPT ![n] = after]
      /\ g.prev = [Store(l.prev, after, n) EXCEPT ![n] = before]
      /\ g.data = [l.data EXCEPT ![n] = d]
      /\ g = [start |-> g.start, end |-> g.end, len |-> g.len,
              next |-> g.next, prev |-> g.prev, data |-> g.data]
    <2> DEFINE new == Linked(l, n, d, before, after)
    <2>1. g = [new EXCEPT !.start = IF k = 0 THEN n ELSE @,
                          !.end = IF k = l.len THEN n ELSE @]
        BY DEF Grown
    <2>2. new = [start |-> l.start, end |-> l.end, len |-> l.len + 1,
                 next |-> [Store(l.next, before, n) EXCEPT ![n] = after],
                 prev |-> [Store(l.prev, after, n) EXCEPT ![n] = before],
                 data |-> [l.data EXCEPT ![n] = d]]
        BY DEF Linked
    <2> HIDE DEF g, new, before, after
    <2> QED BY <2>1, <2>2
<1> HIDE DEF g
<1>5. \A p \in Node :
        /\ g.next[p] = IF p = n THEN after ELSE IF p = before THEN n ELSE l.next[p]
        /\ g.prev[p] = IF p = n THEN before ELSE IF p = after THEN n ELSE l.prev[p]
        /\ g.data[p] = IF p = n THEN d ELSE l.data[p]
    <2> HIDE DEF before, after
    <2> QED BY <1>1, <1>3, <1>4, NodeAssumption DEF Store
<1>6. g \in ListType
    <2>1. /\ g.next \in [Node -> Node \cup {NULL, Freed}]
          /\ g.prev \in [Node -> Node \cup {NULL, Freed}]
          /\ g.data \in [Node -> Datum \cup {Freed}]
        <3> HIDE DEF before, after
        <3> QED BY <1>1, <1>3, <1>4 DEF Store
    <2>2. g.len \in Nat /\ g.start \in Node \cup {NULL} /\ g.end \in Node \cup {NULL}
        BY <1>1, <1>4
    <2> QED BY <1>4, <2>1, <2>2 DEF ListType
<1>7. w \in [1..g.len -> Node]
    BY <1>1, <1>4 DEF Inserted
<1>8. \A i \in 1..l.len + 1 :
        w[i] = IF i <= k THEN c[i] ELSE IF i = k + 1 THEN n ELSE c[i - 1]
    BY DEF Inserted
<1> HIDE DEF w
<1>9. \A i, j \in 1..g.len : w[i] = w[j] => i = j
    <2> SUFFICES ASSUME NEW i \in 1..l.len + 1, NEW j \in 1..l.len + 1, w[i] = w[j]
                 PROVE  i = j
        BY <1>4
    <2>1. \A h, e \in 1..l.len : c[h] = c[e] => h = e
        BY DEF Chained
    <2>2. /\ i <= k => i \in 1..l.len /\ w[i] = c[i]
          /\ i = k + 1 => w[i] = n
          /\ i > k + 1 => i - 1 \in 1..l.len /\ w[i] = c[i - 1]
        BY <1>1, <1>8
    <2>3. /\ j <= k => j \in 1..l.len /\ w[j] = c[j]
          /\ j = k + 1 => w[j] = n
          /\ j > k + 1 => j - 1 \in 1..l.len /\ w[j] = c[j - 1]
        BY <1>1, <1>8
    <2>4. CASE i <= k
        BY <1>1, <1>2, <2>1, <2>2, <2>3, <2>4
    <2>5. CASE i = k + 1
        BY <1>1, <1>2, <2>2, <2>3, <2>5
    <2>6. CASE i > k + 1
        BY <1>1, <1>2, <2>1, <2>2, <2>3, <2>6
    <2> QED BY <1>1, <2>4, <2>5, <2>6
<1>10. Ends(g, w)
    BY <1>1, <1>4, <1>8 DEF Chained, Ends
<1>11. Links(g, w)
    <2> SUFFICES ASSUME NEW i \in 1..l.len + 1
                 PROVE  /\ g.next[w[i]] = IF i = l.len + 1 THEN NULL ELSE w[i + 1]
                        /\ g.prev[w[i]] = IF i = 1 THEN NULL ELSE w[i - 1]
                        /\ g.data[w[i]] \in Datum
        BY <1>4 DEF Links
    <2>1. \A j \in 1..l.len :
            /\ l.next[c[j]] = IF j = l.len THEN NULL ELSE c[j + 1]
            /\ l.prev[c[j]] = IF j = 1 THEN NULL ELSE c[j - 1]
            /\ l.data[c[j]] \in Datum
        BY DEF Chained, Links
    <2>2. \A j, h \in 1..l.len : c[j] = c[h] => j = h
        BY DEF Chained
    <2>3. CASE i <= k
        <3>1. i \in 1..l.len /\ w[i] = c[i] /\ c[i] \in Node /\ c[i] # n
            BY <1>1, <1>2, <1>8, <2>3
        <3>2. c[i] = before <=> i = k
            BY <1>1, <2>2, <2>3, <3>1, NodeAssumption
        <3>3. c[i] # after
            BY <1>1, <2>2, <2>3, <3>1, NodeAssumption
        <3>4. w[i + 1] = IF i = k THEN n ELSE c[i + 1]
            BY <1>1, <1>8, <2>3
        <3>5. i # 1 => w[i - 1] = c[i - 1]
            BY <1>1, <1>8, <2>3
        <3> HIDE DEF before, after
        <3> QED BY <1>1, <1>5, <2>1, <2>3, <3>1, <3>2, <3>3, <3>4, <3>5
    <2>4. CASE i = k + 1
        <3>1. w[i] = n
            BY <1>8, <2>4
        <3>2. i # l.len + 1 => w[i + 1] = c[k + 1]
            BY <1>1, <1>8, <2>4
        <3>3. i # 1 => w[i - 1] = c[k]
            BY <1>1, <1>8, <2>4
        <3> QED BY <1>1, <1>5, <2>4, <3>1, <3>2, <3>3
    <2>5. CASE i > k + 1
        <3>1. i - 1 \in 1..l.len /\ w[i] = c[i - 1] /\ c[i - 1] \in Node /\ c[i - 1] # n
            BY <1>1, <1>2, <1>8, <2>5
        <3>2. c[i - 1] = after <=> i - 1 = k + 1
            BY <1>1, <2>2, <2>5, <3>1, NodeAssumption
        <3>3. c[i - 1] # before
            BY <1>1, <2>2, <2>5, <3>1, NodeAssumption
        <3>4. i # l.len + 1 => w[i + 1] = c[i]
            BY <1>1, <1>8, <2>5
        <3>5. w[i - 1] = IF i - 1 = k + 1 THEN n ELSE c[i - 2]
            BY <1>1, <1>8, <2>5
        <3>6. /\ l.next[c[i - 1]] = IF i - 1 = l.len THEN NULL ELSE c[i]
              /\ l.prev[c[i - 1]] = IF i - 1 = 1 THEN NULL ELSE c[i - 2]
              /\ l.data[c[i - 1]] \in Datum
            BY <2>1, <3>1
        <3> HIDE DEF before, after
        <3> QED BY <1>1, <1>5, <2>5, <3>1, <3>2, <3>3, <3>4, <3>5, <3>6
    <2> QED BY <1>1, <2>3, <2>4, <2>5
<1>12. RestFreed(g, w)
    <2> SUFFICES ASSUME NEW p \in Node, \A i \in 1..l.len + 1 : w[i] # p
                 PROVE  g.next[p] = Freed /\ g.prev[p] = Freed /\ g.data[p] = Freed
        BY <1>4 DEF RestFreed
    <2>1. p # n
        BY <1>1, <1>8
    <2>2. \A i \in 1..l.len : c[i] # p
        <3> SUFFICES ASSUME NEW i \in 1..l.len PROVE c[i] # p
            OBVIOUS
        <3>1. CASE i <= k
            BY <1>1, <1>8, <3>1
        <3>2. CASE i > k
            <4>1. i + 1 \in 1..l.len + 1 /\ w[i + 1] = c[i]
                BY <1>1, <1>8, <3>2
            <4> QED BY <4>1
        <3> QED BY <1>1, <3>1, <3>2
    <2>3. p # before /\ p # after
        BY <1>1, <2>2, NodeAssumption
    <2>4. l.next[p] = Freed /\ l.prev[p] = Freed /\ l.data[p] = Freed
        BY <2>2 DEF Chained, RestFreed
    <2> HIDE DEF before, after
    <2> QED BY <1>5, <2>1, <2>3, <2>4
<1>13. Chained(g, w)
    BY <1>6, <1>7, <1>9, <1>10, <1>11, <1>12 DEF Chained
<1>14. Items(g, w) = Inserted(Items(l, c), l.len, k, d)
    <2>1. ASSUME NEW i \in 1..l.len + 1
          PROVE  g.data[w[i]] = IF i <= k THEN Items(l, c)[i]
                                ELSE IF i = k + 1 THEN d ELSE Items(l, c)[i - 1]
        <3>1. \A j \in 1..l.len : Items(l, c)[j] = g.data[c[j]]
            BY <1>1, <1>2, <1>5 DEF Items
        <3>2. CASE i <= k
            BY <1>1, <1>8, <3>1, <3>2
        <3>3. CASE i = k + 1
            BY <1>1, <1>5, <1>8, <3>3
        <3>4. CASE i > k + 1
            <4>1. i - 1 \in 1..l.len /\ w[i] = c[i - 1]
                BY <1>1, <1>8, <3>4
            <4> QED BY <1>1, <3>1, <3>4, <4>1
        <3> QED BY <1>1, <3>2, <3>3, <3>4
    <2> QED BY <1>4, <2>1 DEF Items, Inserted
<1> QED BY <1>4, <1>13, <1>14 DEF g, w

-----------------------------------------------------------------------------
(* A node less.                                                            *)

\* s, of m elements, without the k-th.
Without(s, m, k) == [i \in 1..m - 1 |-> IF i < k THEN s[i] ELSE s[i + 1]]

LEMMA UnlinkedChained ==
    ASSUME NEW l, NEW c, Chained(l, c), NEW k \in 1..l.len
    PROVE  /\ Chained(Unlinked(l, c[k]), Without(c, l.len, k))
           /\ Unlinked(l, c[k]).len = l.len - 1
           /\ Items(Unlinked(l, c[k]), Without(c, l.len, k))
                = Without(Items(l, c), l.len, k)
<1> DEFINE before == IF k = 1 THEN NULL ELSE c[k - 1]
           after == IF k = l.len THEN NULL ELSE c[k + 1]
           g == Unlinked(l, c[k])
           w == Without(c, l.len, k)
<1>1. /\ l.len \in Nat /\ c \in [1..l.len -> Node] /\ c[k] \in Node
      /\ l.next \in [Node -> Node \cup {NULL, Freed}]
      /\ l.prev \in [Node -> Node \cup {NULL, Freed}]
      /\ l.data \in [Node -> Datum \cup {Freed}]
      /\ l.start \in Node \cup {NULL} /\ l.end \in Node \cup {NULL}
    BY DEF Chained, ListType
<1>2. \A i, j \in 1..l.len : c[i] = c[j] => i = j
    BY DEF Chained
<1>3. \A j \in 1..l.len :
        /\ l.next[c[j]] = IF j = l.len THEN NULL ELSE c[j + 1]
        /\ l.prev[c[j]] = IF j = 1 THEN NULL ELSE c[j - 1]
        /\ l.data[c[j]] \in Datum
    BY DEF Chained, Links
<1>4. /\ before \in Node \cup {NULL} /\ after \in Node \cup {NULL}
      /\ before # c[k] /\ after # c[k]
    BY <1>1, <1>2, NodeAssumption
<1>5. l.prev[c[k]] = before /\ l.next[c[k]] = after
    BY <1>3
<1>6. /\ g.start = IF before # NULL THEN l.start ELSE after
      /\ g.end = IF after # NULL THEN l.end ELSE before
      /\ g.len = l.len - 1
      /\ g.next = [Store(l.next, before, after) EXCEPT ![c[k]] = Freed]
      /\ g.prev = [Store(l.prev, after, before) EXCEPT ![c[k]] = Freed]
      /\ g.data = [l.data EXCEPT ![c[k]] = Freed]
      /\ g = [start |-> g.start, end |-> g.end, len |-> g.len,
              next |-> g.next, prev |-> g.prev, data |-> g.data]
    <2> HIDE DEF before, after
    <2> QED BY <1>5 DEF Unlinked
<1> HIDE DEF g
<1>7. \A p \in Node :
        /\ g.next[p] = IF p = c[k] THEN Freed ELSE IF p = before THEN after ELSE l.next[p]
        /\ g.prev[p] = IF p = c[k] THEN Freed ELSE IF p = after THEN before ELSE l.prev[p]
        /\ g.data[p] = IF p = c[k] THEN Freed ELSE l.data[p]
    <2> HIDE DEF before, after
    <2> QED BY <1>1, <1>4, <1>6, NodeAssumption DEF Store
<1>8. g \in ListType
    <2>1. /\ g.next \in [Node -> Node \cup {NULL, Freed}]
          /\ g.prev \in [Node -> Node \cup {NULL, Freed}]
          /\ g.data \in [Node -> Datum \cup {Freed}]
        <3> HIDE DEF before, after
        <3>1. /\ Store(l.next, before, after) \in [Node -> Node \cup {NULL, Freed}]
              /\ Store(l.prev, after, before) \in [Node -> Node \cup {NULL, Freed}]
            BY <1>1, <1>4 DEF Store
        <3> QED BY <1>1, <1>6, <3>1
    <2>2. g.len \in Nat /\ g.start \in Node \cup {NULL} /\ g.end \in Node \cup {NULL}
        BY <1>1, <1>4, <1>6
    <2> QED BY <1>6, <2>1, <2>2 DEF ListType
<1>9. w \in [1..g.len -> Node]
    BY <1>1, <1>6 DEF Without
<1>10. \A i \in 1..l.len - 1 :
        /\ w[i] = IF i < k THEN c[i] ELSE c[i + 1]
        /\ i \in 1..l.len /\ i + 1 \in 1..l.len
    BY <1>1 DEF Without
<1> HIDE DEF w
<1>11. \A i, j \in 1..g.len : w[i] = w[j] => i = j
    <2> SUFFICES ASSUME NEW i \in 1..l.len - 1, NEW j \in 1..l.len - 1, w[i] = w[j]
                 PROVE  i = j
        BY <1>6
    <2>1. CASE i < k
        BY <1>1, <1>2, <1>10, <2>1
    <2>2. CASE i >= k
        BY <1>1, <1>2, <1>10, <2>2
    <2> QED BY <2>1, <2>2
<1>12. Ends(g, w)
    <2>1. before = NULL <=> k = 1
        BY <1>1, NodeAssumption
    <2>2. after = NULL <=> k = l.len
        BY <1>1, NodeAssumption
    <2>3. l.start = c[1] /\ l.end = c[l.len]
        BY <1>1 DEF Chained, Ends
    <2>4. l.len = 1 => k = 1
        BY <1>1
    <2>5. g.start = IF g.len = 0 THEN NULL ELSE w[1]
        BY <1>1, <1>6, <1>10, <2>1, <2>3, <2>4
    <2>6. g.end = IF g.len = 0 THEN NULL ELSE w[g.len]
        <3>1. CASE k = l.len
            <4>1. l.len # 1 => l.len - 1 \in 1..l.len - 1 /\ w[l.len - 1] = c[l.len - 1]
                BY <1>1, <1>10, <3>1
            <4> QED BY <1>1, <1>6, <2>2, <3>1, <4>1
        <3>2. CASE k # l.len
            <4>1. l.len - 1 \in 1..l.len - 1 /\ w[l.len - 1] = c[l.len]
                <5>1. k \in Nat /\ 1 <= k /\ k <= l.len - 1
                    BY <1>1, <3>2
                <5>2. l.len - 1 \in 1..l.len - 1 /\ (l.len - 1) + 1 = l.len
                    BY <1>1, <5>1
                <5> QED BY <1>1, <1>10, <5>1, <5>2
            <4> QED BY <1>1, <1>6, <2>2, <2>3, <3>2, <4>1
        <3> QED BY <3>1, <3>2
    <2> QED BY <2>5, <2>6 DEF Ends
<1>13. Links(g, w)
    <2> SUFFICES ASSUME NEW i \in 1..l.len - 1
                 PROVE  /\ g.next[w[i]] = IF i = l.len - 1 THEN NULL ELSE w[i + 1]
                        /\ g.prev[w[i]] = IF i = 1 THEN NULL ELSE w[i - 1]
                        /\ g.data[w[i]] \in Datum
        BY <1>6 DEF Links
    <2>1. CASE i < k
        <3>1. w[i] = c[i] /\ i \in 1..l.len /\ c[i] \in Node /\ c[i] # c[k]
            BY <1>1, <1>2, <1>10, <2>1
        <3>2. c[i] = before <=> i = k - 1
            BY <1>1, <1>2, <2>1, <3>1, NodeAssumption
        <3>3. c[i] # after
            BY <1>1, <1>2, <2>1, <3>1, NodeAssumption
        <3>4. i # l.len - 1 => w[i + 1] = IF i = k - 1 THEN c[k + 1] ELSE c[i + 1]
            BY <1>1, <1>10, <2>1
        <3>5. i # 1 => w[i - 1] = c[i - 1]
            BY <1>1, <1>10, <2>1
        <3>6. /\ i = k - 1 /\ i = l.len - 1 => after = NULL
              /\ i = k - 1 /\ i # l.len - 1 => after = c[k + 1]
              /\ i # k - 1 => i # l.len - 1
            BY <1>1, <2>1
        <3> HIDE DEF before, after
        <3> QED BY <1>1, <1>3, <1>7, <2>1, <3>1, <3>2, <3>3, <3>4, <3>5, <3>6
    <2>2. CASE i >= k
        <3>1. w[i] = c[i + 1] /\ i + 1 \in 1..l.len /\ c[i + 1] \in Node /\ c[i + 1] # c[k]
            BY <1>1, <1>2, <1>10, <2>2
        <3>2. c[i + 1] = after <=> i = k
            BY <1>1, <1>2, <2>2, <3>1, NodeAssumption
        <3>3. c[i + 1] # before
            BY <1>1, <1>2, <2>2, <3>1, NodeAssumption
        <3>4. i # l.len - 1 => w[i + 1] = c[i + 2]
            BY <1>1, <1>10, <2>2
        <3>5. i # 1 => w[i - 1] = IF i = k THEN c[k - 1] ELSE c[i]
            BY <1>1, <1>10, <2>2
        <3>6. /\ i = k /\ i = 1 => before = NULL
              /\ i = k /\ i # 1 => before = c[k - 1]
              /\ i # k => i # 1
            BY <1>1, <2>2
        <3>7. /\ l.next[c[i + 1]] = IF i = l.len - 1 THEN NULL ELSE c[i + 2]
              /\ l.prev[c[i + 1]] = c[i]
              /\ l.data[c[i + 1]] \in Datum
            <4>1. (i + 1) - 1 = i /\ (i + 1) + 1 = i + 2 /\ i + 1 # 1
                BY <1>1
            <4>2. i + 1 = l.len <=> i = l.len - 1
                BY <1>1
            <4> QED BY <1>3, <3>1, <4>1, <4>2
        <3> HIDE DEF before, after
        <3> QED BY <1>1, <1>7, <2>2, <3>1, <3>2, <3>3, <3>4, <3>5, <3>6, <3>7
    <2> QED BY <1>1, <2>1, <2>2
<1>14. RestFreed(g, w)
    <2> SUFFICES ASSUME NEW p \in Node, \A i \in 1..l.len - 1 : w[i] # p
                 PROVE  g.next[p] = Freed /\ g.prev[p] = Freed /\ g.data[p] = Freed
        BY <1>6 DEF RestFreed
    <2>1. CASE p = c[k]
        BY <1>1, <1>7, <2>1
    <2>2. CASE p # c[k]
        <3>1. \A i \in 1..l.len : c[i] # p
            <4> SUFFICES ASSUME NEW i \in 1..l.len, c[i] = p PROVE FALSE
                OBVIOUS
            <4>1. i # k
                BY <2>2
            <4>2. CASE i < k
                <5>1. i \in 1..l.len - 1 /\ w[i] = c[i]
                    BY <1>1, <1>10, <4>2
                <5> QED BY <5>1
            <4>3. CASE i > k
                <5>1. i - 1 \in 1..l.len - 1 /\ ~(i - 1 < k) /\ (i - 1) + 1 = i
                    BY <1>1, <4>3
                <5>2. w[i - 1] = c[i]
                    BY <1>10, <5>1
                <5> QED BY <5>1, <5>2
            <4> QED BY <1>1, <4>1, <4>2, <4>3
        <3>2. p # before /\ p # after
            BY <1>1, <3>1, NodeAssumption
        <3>3. l.next[p] = Freed /\ l.prev[p] = Freed /\ l.data[p] = Freed
            BY <3>1 DEF Chained, RestFreed
        <3> HIDE DEF before, after
        <3> QED BY <1>7, <2>2, <3>2, <3>3
    <2> QED BY <2>1, <2>2
<1>15. Chained(g, w)
    BY <1>8, <1>9, <1>11, <1>12, <1>13, <1>14 DEF Chained
<1>16. Items(g, w) = Without(Items(l, c), l.len, k)
    <2>1. ASSUME NEW i \in 1..l.len - 1
          PROVE  g.data[w[i]] = IF i < k THEN Items(l, c)[i] ELSE Items(l, c)[i + 1]
        <3>1. \A j \in 1..l.len : j # k => Items(l, c)[j] = g.data[c[j]]
            BY <1>1, <1>2, <1>7 DEF Items
        <3>2. CASE i < k
            BY <1>1, <1>10, <3>1, <3>2
        <3>3. CASE i >= k
            BY <1>1, <1>10, <3>1, <3>3
        <3> QED BY <1>1, <3>2, <3>3
    <2> QED BY <1>6, <2>1 DEF Items, Without
<1> QED BY <1>6, <1>15, <1>16 DEF g, w

-----------------------------------------------------------------------------
(* The operations, in terms of a node more and a node less.                *)

LEMMA AppendedIsGrown ==
    ASSUME NEW l, NEW c, Chained(l, c), NEW n, NEW d
    PROVE  Appended(l, n, d) = Grown(l, n, d, l.len, c)
<1>1. l.len \in Nat /\ c \in [1..l.len -> Node]
    BY DEF Chained, ListType
<1>2. /\ l.start = IF l.len = 0 THEN NULL ELSE c[1]
      /\ l.end = IF l.len = 0 THEN NULL ELSE c[l.len]
    BY DEF Chained, Ends
<1>3. l.start = NULL <=> l.len = 0
    BY <1>1, <1>2, NodeAssumption
<1>4. CASE l.len = 0
    <2> DEFINE r == Linked(l, n, d, NULL, NULL)
    <2>1. Appended(l, n, d) = [r EXCEPT !.start = n, !.end = n]
        BY <1>3, <1>4 DEF Appended
    <2>2. Grown(l, n, d, l.len, c) = [r EXCEPT !.start = n, !.end = n]
        BY <1>4 DEF Grown
    <2> QED BY <2>1, <2>2
<1>5. CASE l.len # 0
    <2> DEFINE r == Linked(l, n, d, l.end, NULL)
    <2>1. Appended(l, n, d) = [r EXCEPT !.end = n]
        BY <1>3, <1>5 DEF Appended
    <2>2. Grown(l, n, d, l.len, c) = [r EXCEPT !.start = r.start, !.end = n]
        BY <1>2, <1>5 DEF Grown
    <2>3. r = [start |-> r.start, end |-> r.end, len |-> r.len,
               next |-> r.next, prev |-> r.prev, data |-> r.data]
        BY DEF Linked
    <2> HIDE DEF r
    <2> QED BY <2>1, <2>2, <2>3
<1> QED BY <1>4, <1>5

\* Where a node goes, or that it goes nowhere.
LEMMA InsertedAfterIsGrown ==
    ASSUME NEW l, NEW c, Chained(l, c), NEW n, NEW d, NEW idx \in Nat
    PROVE  InsertedAfter(l, n, idx, d) =
             IF l.len = 0 THEN Grown(l, n, d, 0, c)
             ELSE IF idx < l.len THEN Grown(l, n, d, idx + 1, c) ELSE l
<1>1. l.len \in Nat /\ c \in [1..l.len -> Node]
    BY DEF Chained, ListType
<1>2. l.start = NULL <=> l.len = 0
    BY <1>1, NodeAssumption DEF Chained, Ends
<1>3. NodeAt(l, idx) = IF idx < l.len THEN c[idx + 1] ELSE NULL
    BY WalkChain
<1>4. CASE l.len = 0
    BY <1>2, <1>4, AppendedIsGrown DEF InsertedAfter
<1>5. CASE l.len # 0 /\ ~(idx < l.len)
    BY <1>2, <1>3, <1>5 DEF InsertedAfter
<1>6. CASE l.len # 0 /\ idx < l.len
    <2> DEFINE k == idx + 1
               r == Linked(l, n, d, c[k], l.next[c[k]])
    <2>1. k \in 1..l.len /\ c[k] # NULL
        BY <1>1, <1>6, NodeAssumption
    <2>2. l.next[c[k]] = IF k = l.len THEN NULL ELSE c[k + 1]
        BY <2>1 DEF Chained, Links
    <2>3. l.next[c[k]] = NULL <=> k = l.len
        <3>1. k # l.len => c[k + 1] \in Node
            BY <1>1, <2>1
        <3> QED BY <2>2, <3>1, NodeAssumption
    <2>4. InsertedAfter(l, n, idx, d)
            = [r EXCEPT !.end = IF l.next[c[k]] = NULL THEN n ELSE @]
        BY <1>2, <1>3, <1>6, <2>1 DEF InsertedAfter
    <2>5. Grown(l, n, d, k, c)
            = [r EXCEPT !.start = r.start, !.end = IF l.next[c[k]] = NULL THEN n ELSE @]
        <3> HIDE DEF k
        <3>1. k # 0
            BY <2>1
        <3> QED BY <2>2, <2>3, <3>1 DEF Grown
    <2>6. r = [start |-> r.start, end |-> r.end, len |-> r.len,
               next |-> r.next, prev |-> r.prev, data |-> r.data]
        BY DEF Linked
    <2> HIDE DEF r
    <2> QED BY <1>6, <2>4, <2>5, <2>6
<1> QED BY <1>4, <1>5, <1>6

LEMMA InsertedBeforeIsGrown ==
    ASSUME NEW l, NEW c, Chained(l, c), NEW n, NEW d, NEW idx \in Nat
    PROVE  InsertedBefore(l, n, idx, d) =
             IF idx < l.len THEN Grown(l, n, d, idx, c) ELSE l
<1>1. l.len \in Nat /\ c \in [1..l.len -> Node]
    BY DEF Chained, ListType
<1>2. NodeAt(l, idx) = IF idx < l.len THEN c[idx + 1] ELSE NULL
    BY WalkChain
<1>3. CASE ~(idx < l.len)
    BY <1>2, <1>3 DEF InsertedBefore
<1>4. CASE idx < l.len
    <2> DEFINE k == idx + 1
               r == Linked(l, n, d, l.prev[c[k]], c[k])
    <2>1. k \in 1..l.len /\ c[k] # NULL
        BY <1>1, <1>4, NodeAssumption
    <2>2. l.prev[c[k]] = IF idx = 0 THEN NULL ELSE c[idx]
        <3>1. k - 1 = idx /\ (k = 1 <=> idx = 0)
            OBVIOUS
        <3> HIDE DEF k
        <3>2. l.prev[c[k]] = IF k = 1 THEN NULL ELSE c[k - 1]
            BY <2>1 DEF Chained, Links
        <3> QED BY <3>1, <3>2
    <2>3. l.prev[c[k]] = NULL <=> idx = 0
        <3>1. idx # 0 => c[idx] \in Node
            BY <1>1, <1>4
        <3> QED BY <2>2, <3>1, NodeAssumption
    <2>4. InsertedBefore(l, n, idx, d)
            = [r EXCEPT !.start = IF l.prev[c[k]] = NULL THEN n ELSE @]
        BY <1>2, <1>4, <2>1 DEF InsertedBefore
    <2>5. Grown(l, n, d, idx, c)
            = [r EXCEPT !.start = IF l.prev[c[k]] = NULL THEN n ELSE @, !.end = r.end]
        <3>1. idx # l.len /\ k = idx + 1
            BY <1>4
        <3> HIDE DEF k
        <3> QED BY <2>2, <2>3, <3>1 DEF Grown
    <2>6. r = [start |-> r.start, end |-> r.end, len |-> r.len,
               next |-> r.next, prev |-> r.prev, data |-> r.data]
        BY DEF Linked
    <2> HIDE DEF r
    <2> QED BY <1>4, <2>4, <2>5, <2>6
<1> QED BY <1>3, <1>4

LEMMA InsertedAsIsGrown ==
    ASSUME NEW l, NEW c, Chained(l, c), NEW n, NEW d, NEW idx \in Nat
    PROVE  InsertedAs(l, n, idx, d) =
             IF l.len = 0 THEN Grown(l, n, d, 0, c)
             ELSE IF idx <= l.len THEN Grown(l, n, d, idx, c) ELSE l
<1>1. l.len \in Nat
    BY DEF Chained, ListType
<1> QED BY <1>1, AppendedIsGrown, InsertedBeforeIsGrown DEF InsertedAs

LEMMA RemovedIsUnlinked ==
    ASSUME NEW l, NEW c, Chained(l, c), NEW idx \in Nat
    PROVE  /\ Removed(l, idx) = IF idx < l.len THEN Unlinked(l, c[idx + 1]) ELSE l
           /\ Released(l, idx) = IF idx < l.len THEN <<Items(l, c)[idx + 1]>> ELSE <<>>
<1>1. l.len \in Nat /\ c \in [1..l.len -> Node]
    BY DEF Chained, ListType
<1>2. NodeAt(l, idx) = IF idx < l.len THEN c[idx + 1] ELSE NULL
    BY WalkChain
<1>3. idx < l.len => idx + 1 \in 1..l.len /\ c[idx + 1] # NULL
    BY <1>1, NodeAssumption
<1>4. idx < l.len => Items(l, c)[idx + 1] = l.data[c[idx + 1]]
    BY <1>3 DEF Items
<1> QED BY <1>2, <1>3, <1>4 DEF Removed, Released

-----------------------------------------------------------------------------
(* Deleting.  ll_delete removes the first node as long as there is one.    *)

\* What holds of 0 and of the successor of each number below m holds up to m.
LEMMA UpTo ==
    ASSUME NEW m \in Nat, NEW S, 0 \in S, \A i \in 0..m - 1 : i \in S => i + 1 \in S
    PROVE  \A i \in 0..m : i \in S
<1> DEFINE T == {i \in 0..m : i \notin S}
<1>1. SUFFICES ASSUME T # {} PROVE FALSE
    OBVIOUS
<1>2. Min(T) \in T /\ \A j \in T : Min(T) <= j
    <2>1. T \subseteq Nat
        OBVIOUS
    <2> HIDE DEF T
    <2> QED BY <1>1, <2>1, MinIsLeast
<1>3. PICK k \in T : \A j \in T : k <= j
    BY <1>2
<1>4. k - 1 \in 0..m - 1 /\ k - 1 \notin T /\ (k - 1) + 1 = k
    BY <1>3
<1> QED BY <1>3, <1>4

\* The lists that ll_delete goes through, as a function of the number of removals.
AfterStep(l, f) ==
    [i \in 0..l.len |-> IF i = 0 THEN l ELSE Removed(f[i - 1], 0)]

LEMMA AfterExists ==
    ASSUME NEW l, l.len \in Nat
    PROVE  \E f : f = AfterStep(l, f)
<1> DEFINE upTo(k, f) == f = [i \in 0..k |-> IF i = 0 THEN l ELSE Removed(f[i - 1], 0)]
           S == {k \in 0..l.len : \E f : upTo(k, f)}
<1>1. 0 \in S
    <2> DEFINE f == [i \in 0..0 |-> l]
    <2>1. upTo(0, f)
        OBVIOUS
    <2> HIDE DEF upTo, f
    <2> QED BY <2>1
<1>2. ASSUME NEW k \in 0..l.len - 1, k \in S
      PROVE  k + 1 \in S
    <2>1. PICK f : upTo(k, f)
        BY <1>2
    <2> DEFINE g == [i \in 0..k + 1 |-> IF i <= k THEN f[i] ELSE Removed(f[k], 0)]
    <2>2. \A i \in 0..k : f[i] = IF i = 0 THEN l ELSE Removed(f[i - 1], 0)
        BY <2>1
    <2>3. ASSUME NEW i \in 0..k + 1
          PROVE  g[i] = IF i = 0 THEN l ELSE Removed(g[i - 1], 0)
        <3>1. CASE i = 0
            BY <2>2, <3>1
        <3>2. CASE i # 0 /\ i <= k
            <4>1. i - 1 \in 0..k + 1 /\ i - 1 <= k /\ i \in 0..k
                BY <3>2
            <4> QED BY <2>2, <3>2, <4>1
        <3>3. CASE i = k + 1
            <4>1. i - 1 = k /\ k \in 0..k + 1 /\ i # 0 /\ ~(i <= k)
                BY <3>3
            <4> QED BY <4>1
        <3> QED BY <3>1, <3>2, <3>3
    <2>4. upTo(k + 1, g)
        <3>1. g = [i \in 0..k + 1 |-> g[i]]
            OBVIOUS
        <3> HIDE DEF g
        <3> QED BY <2>3, <3>1
    <2> HIDE DEF upTo, g
    <2> QED BY <2>4
<1>3. \A k \in 0..l.len : k \in S
    <2> HIDE DEF S
    <2> QED BY <1>1, <1>2, UpTo
<1>4. l.len \in S
    BY <1>3
<1> QED BY <1>4 DEF AfterStep

\* The last len - i elements of s.
From(s, m, i) == [j \in 1..m - i |-> s[j + i]]

LEMMA RemovedFirst ==
    ASSUME NEW l, NEW c, Chained(l, c), NEW m \in Nat, NEW i \in 0..m - 1,
           NEW r, Chained(r, From(c, m, i)), r.len = m - i,
           Items(r, From(c, m, i)) = From(Items(l, c), m, i)
    PROVE  /\ Chained(Removed(r, 0), From(c, m, i + 1))
           /\ Removed(r, 0).len = m - (i + 1)
           /\ Items(Removed(r, 0), From(c, m, i + 1)) = From(Items(l, c), m, i + 1)
           /\ Released(r, 0) = <<Items(l, c)[i + 1]>>
<1> DEFINE w == From(c, m, i)
<1>1. 0 < r.len /\ 1 \in 1..r.len /\ 0 + 1 = 1 /\ 0 \in Nat
    BY DEF From
<1>2. Removed(r, 0) = Unlinked(r, w[1]) /\ Released(r, 0) = <<Items(r, w)[1]>>
    <2> HIDE DEF w
    <2> QED BY <1>1, RemovedIsUnlinked DEF w
<1>3. /\ Chained(Unlinked(r, w[1]), Without(w, r.len, 1))
      /\ Unlinked(r, w[1]).len = r.len - 1
      /\ Items(Unlinked(r, w[1]), Without(w, r.len, 1)) = Without(Items(r, w), r.len, 1)
    BY <1>1, UnlinkedChained
<1>4. ASSUME NEW s
      PROVE  Without(From(s, m, i), m - i, 1) = From(s, m, i + 1)
    <2>1. (m - i) - 1 = m - (i + 1) /\ m - i \in Nat
        OBVIOUS
    <2>2. \A j \in 1..m - (i + 1) :
            ~(j < 1) /\ j + 1 \in 1..m - i /\ (j + 1) + i = j + (i + 1)
        BY <2>1
    <2>3. \A j \in 1..m - (i + 1) : From(s, m, i)[j + 1] = s[j + (i + 1)]
        BY <2>2 DEF From
    <2> QED BY <2>1, <2>2, <2>3 DEF Without, From
<1>5. Items(r, w)[1] = Items(l, c)[i + 1]
    BY <1>1 DEF From
<1>6. r.len - 1 = m - (i + 1)
    OBVIOUS
<1> QED BY <1>2, <1>3, <1>4, <1>5, <1>6

LEMMA AfterRemovals ==
    ASSUME NEW l, NEW c, Chained(l, c), NEW after, after = AfterStep(l, after),
           NEW i \in 0..l.len
    PROVE  /\ Chained(after[i], From(c, l.len, i))
           /\ after[i].len = l.len - i
           /\ Items(after[i], From(c, l.len, i)) = From(Items(l, c), l.len, i)
<1> DEFINE good(k) == /\ Chained(after[k], From(c, l.len, k))
                      /\ after[k].len = l.len - k
                      /\ Items(after[k], From(c, l.len, k)) = From(Items(l, c), l.len, k)
           S == {k \in 0..l.len : good(k)}
<1>1. l.len \in Nat /\ c \in [1..l.len -> Node]
    BY DEF Chained, ListType
<1>2. after[0] = l /\ \A k \in 0..l.len - 1 : after[k + 1] = Removed(after[k], 0)
    <2>1. \A k \in 0..l.len : after[k] = IF k = 0 THEN l ELSE Removed(after[k - 1], 0)
        BY DEF AfterStep
    <2>2. \A k \in 0..l.len - 1 : k + 1 \in 0..l.len /\ k + 1 # 0 /\ (k + 1) - 1 = k
        BY <1>1
    <2> QED BY <1>1, <2>1, <2>2
<1>3. 0 \in S
    <2>1. From(c, l.len, 0) = c
        BY <1>1 DEF From
    <2>2. From(Items(l, c), l.len, 0) = Items(l, c)
        BY <1>1 DEF From, Items
    <2>3. good(0)
        BY <1>1, <1>2, <2>1, <2>2
    <2> QED BY <1>1, <2>3
<1>4. ASSUME NEW k \in 0..l.len - 1, k \in S
      PROVE  k + 1 \in S
    <2>1. good(k)
        BY <1>4
    <2>2. good(k + 1)
        BY <1>1, <1>2, <2>1, RemovedFirst
    <2> HIDE DEF good
    <2> QED BY <1>1, <2>2
<1>5. \A k \in 0..l.len : k \in S
    <2> HIDE DEF S
    <2> QED BY <1>1, <1>3, <1>4, UpTo
<1> HIDE DEF good
<1>6. good(i)
    BY <1>5
<1> QED BY <1>6 DEF good

\* The data that the removals hand over, one by one, are those of the list.
FirstOf(s, i) == [j \in 1..i |-> s[j]]

LEMMA FrontGrows ==
    ASSUME NEW S, NEW s \in Seq(S), NEW i \in 0..Len(s) - 1
    PROVE  FirstOf(s, i) \o <<s[i + 1]>> = FirstOf(s, i + 1)
<1>1. Len(s) \in Nat /\ \A j \in 1..Len(s) : s[j] \in S
    BY LenProperties, ElementOfSeq
<1>2. FirstOf(s, i) \in Seq(S) /\ Len(FirstOf(s, i)) = i
    <2>1. FirstOf(s, i) \in [1..i -> S] /\ i \in Nat
        BY <1>1 DEF FirstOf
    <2> QED BY <2>1, SeqDef
<1>3. FirstOf(s, i + 1) \in Seq(S) /\ Len(FirstOf(s, i + 1)) = i + 1
    <2>1. FirstOf(s, i + 1) \in [1..i + 1 -> S] /\ i + 1 \in Nat
        BY <1>1 DEF FirstOf
    <2> QED BY <2>1, SeqDef
<1>4. <<s[i + 1]>> \in Seq(S) /\ Len(<<s[i + 1]>>) = 1
    BY <1>1
<1>5. /\ FirstOf(s, i) \o <<s[i + 1]>> \in Seq(S)
      /\ Len(FirstOf(s, i) \o <<s[i + 1]>>) = i + 1
      /\ \A j \in 1..i + 1 : (FirstOf(s, i) \o <<s[i + 1]>>)[j]
                                = IF j <= i THEN FirstOf(s, i)[j] ELSE <<s[i + 1]>>[j - i]
    BY <1>2, <1>4, ConcatProperties
<1>6. \A j \in 1..i + 1 : (FirstOf(s, i) \o <<s[i + 1]>>)[j] = FirstOf(s, i + 1)[j]
    <2> SUFFICES ASSUME NEW j \in 1..i + 1
                 PROVE  (FirstOf(s, i) \o <<s[i + 1]>>)[j] = s[j]
        BY DEF FirstOf
    <2>1. CASE j <= i
        BY <1>5, <2>1 DEF FirstOf
    <2>2. CASE j = i + 1
        <3>1. ~(j <= i) /\ j - i = 1 /\ <<s[i + 1]>>[1] = s[j]
            BY <1>1, <2>2
        <3> QED BY <1>5, <3>1
    <2>3. j <= i \/ j = i + 1
        BY <1>1
    <2> QED BY <2>1, <2>2, <2>3
<1> QED BY <1>3, <1>5, <1>6, SeqEqual

ReleasedStep(l, after, f) ==
    [i \in 0..l.len |-> IF i = 0 THEN <<>> ELSE f[i - 1] \o Released(after[i - 1], 0)]

LEMMA ReleasedInOrder ==
    ASSUME NEW l, NEW c, Chained(l, c), NEW after, after = AfterStep(l, after)
    PROVE  LET fronts == [i \in 0..l.len |-> FirstOf(Items(l, c), i)]
           IN  /\ fronts = ReleasedStep(l, after, fronts)
               /\ \A f : f = ReleasedStep(l, after, f) => f[l.len] = Items(l, c)
<1> DEFINE items == Items(l, c)
           fronts == [i \in 0..l.len |-> FirstOf(items, i)]
<1>1. l.len \in Nat /\ items \in Seq(Datum) /\ Len(items) = l.len
    <2>1. l.len \in Nat /\ items \in [1..l.len -> Datum]
        BY DEF Chained, ListType, Links, Items
    <2> HIDE DEF items
    <2> QED BY <2>1, SeqDef
<1>2. \A i \in 0..l.len - 1 : Released(after[i], 0) = <<items[i + 1]>>
    <2> SUFFICES ASSUME NEW i \in 0..l.len - 1
                 PROVE  Released(after[i], 0) = <<items[i + 1]>>
        OBVIOUS
    <2>1. i \in 0..l.len
        BY <1>1
    <2>2. /\ Chained(after[i], From(c, l.len, i)) /\ after[i].len = l.len - i
          /\ Items(after[i], From(c, l.len, i)) = From(Items(l, c), l.len, i)
        BY <2>1, AfterRemovals
    <2> QED BY <1>1, <2>2, RemovedFirst
<1> HIDE DEF items
<1>3. \A i \in 0..l.len - 1 :
         FirstOf(items, i) \o Released(after[i], 0) = FirstOf(items, i + 1)
    BY <1>1, <1>2, FrontGrows
<1>4. FirstOf(items, 0) = <<>>
    BY DEF FirstOf
<1>5. fronts = ReleasedStep(l, after, fronts)
    <2> SUFFICES ASSUME NEW i \in 0..l.len
                 PROVE  fronts[i] = IF i = 0 THEN <<>>
                                    ELSE fronts[i - 1] \o Released(after[i - 1], 0)
        BY DEF ReleasedStep
    <2>1. CASE i = 0
        BY <1>4, <2>1
    <2>2. CASE i # 0
        <3>1. i - 1 \in 0..l.len - 1 /\ i - 1 \in 0..l.len /\ (i - 1) + 1 = i
            BY <1>1, <2>2
        <3>2. fronts[i - 1] = FirstOf(items, i - 1) /\ fronts[i] = FirstOf(items, i)
            BY <3>1
        <3> QED BY <1>3, <2>2, <3>1, <3>2
    <2> QED BY <2>1, <2>2
<1>6. ASSUME NEW f, f = ReleasedStep(l, after, f)
      PROVE  f[l.len] = items
    <2> DEFINE S == {i \in 0..l.len : f[i] = FirstOf(items, i)}
    <2>1. f[0] = <<>> /\ \A i \in 0..l.len - 1 : f[i + 1] = f[i] \o Released(after[i], 0)
        <3>1. \A i \in 0..l.len :
                f[i] = IF i = 0 THEN <<>> ELSE f[i - 1] \o Released(after[i - 1], 0)
            BY <1>6 DEF ReleasedStep
        <3>2. \A i \in 0..l.len - 1 : i + 1 \in 0..l.len /\ i + 1 # 0 /\ (i + 1) - 1 = i
            BY <1>1
        <3>3. ASSUME NEW i \in 0..l.len - 1
              PROVE  f[i + 1] = f[i] \o Released(after[i], 0)
            <4>1. f[i + 1] = IF i + 1 = 0 THEN <<>>
                             ELSE f[(i + 1) - 1] \o Released(after[(i + 1) - 1], 0)
                BY <3>1, <3>2
            <4> QED BY <3>2, <4>1
        <3>4. f[0] = <<>>
            <4>1. 0 \in 0..l.len
                BY <1>1
            <4> QED BY <3>1, <4>1
        <3> QED BY <3>3, <3>4
    <2>2. 0 \in S
        BY <1>1, <1>4, <2>1
    <2>3. ASSUME NEW i \in 0..l.len - 1, i \in S
          PROVE  i + 1 \in S
        <3>1. f[i] = FirstOf(items, i)
            BY <2>3
        <3>2. f[i + 1] = FirstOf(items, i) \o Released(after[i], 0)
            BY <2>1, <3>1
        <3>3. i + 1 \in 0..l.len
            BY <1>1
        <3> QED BY <1>3, <3>2, <3>3
    <2>4. \A i \in 0..l.len : i \in S
        <3> HIDE DEF S
        <3> QED BY <1>1, <2>2, <2>3, UpTo
    <2>5. f[l.len] = FirstOf(items, l.len)
        BY <1>1, <2>4
    <2>6. FirstOf(items, l.len) = items
        BY <1>1 DEF FirstOf
    <2> QED BY <2>5, <2>6
<1> QED BY <1>5, <1>6 DEF items

LEMMA Deleted ==
    ASSUME NEW c, Chained(head, c), ll_delete
    PROVE  /\ Chained(head', From(c, head.len, head.len))
           /\ head'.len = 0
           /\ call' = Call("delete", 0, NULL, Items(head, c))
<1> DEFINE after == CHOOSE f : f = AfterStep(head, f)
           released == CHOOSE f : f = ReleasedStep(head, after, f)
<1>1. head' = after[head.len] /\ call' = Call("delete", 0, NULL, released[head.len])
    BY DEF ll_delete, AfterStep, ReleasedStep
<1>2. head.len \in Nat /\ head.len \in 0..head.len /\ head.len - head.len = 0
    BY DEF Chained, ListType
<1>3. after = AfterStep(head, after)
    BY <1>2, AfterExists
<1> HIDE DEF after
<1>4. released = ReleasedStep(head, after, released)
    <2>1. \E f : f = ReleasedStep(head, after, f)
        BY <1>3, ReleasedInOrder
    <2> QED BY <2>1
<1> HIDE DEF released
<1>5. released[head.len] = Items(head, c)
    BY <1>3, <1>4, ReleasedInOrder
<1>6. Chained(after[head.len], From(c, head.len, head.len)) /\ after[head.len].len = 0
    BY <1>2, <1>3, AfterRemovals
<1> QED BY <1>1, <1>5, <1>6

-----------------------------------------------------------------------------
(* The same on the sequences of data.                                      *)

LEMMA ItemsType ==
    ASSUME NEW l, NEW c, Chained(l, c)
    PROVE  Items(l, c) \in Seq(Datum) /\ Len(Items(l, c)) = l.len /\ l.len \in Nat
<1>1. l.len \in Nat /\ Items(l, c) \in [1..l.len -> Datum]
    BY DEF Chained, ListType, Links, Items
<1> HIDE DEF Items
<1> QED BY <1>1, SeqDef

\* A sequence over S, as a function on its indices.
LEMMA SeqOfFunction ==
    ASSUME NEW S, NEW m \in Nat, NEW f \in [1..m -> S]
    PROVE  f \in Seq(S) /\ Len(f) = m
BY SeqDef

LEMMA FunctionOfSeq ==
    ASSUME NEW S, NEW s \in Seq(S)
    PROVE  s \in [1..Len(s) -> S] /\ Len(s) \in Nat
OBVIOUS

LEMMA Joined ==
    ASSUME NEW S, NEW p \in Nat, NEW q \in Nat,
           NEW a \in [1..p -> S], NEW b \in [1..q -> S]
    PROVE  /\ a \o b \in [1..p + q -> S]
           /\ \A i \in 1..p : (a \o b)[i] = a[i]
           /\ \A i \in 1..q : (a \o b)[p + i] = b[i]
<1>1. a \in Seq(S) /\ Len(a) = p /\ b \in Seq(S) /\ Len(b) = q
    BY SeqOfFunction
<1>2. /\ a \o b \in Seq(S) /\ Len(a \o b) = Len(a) + Len(b)
      /\ \A i \in 1..Len(a) + Len(b) :
            (a \o b)[i] = IF i <= Len(a) THEN a[i] ELSE b[i - Len(a)]
    BY <1>1, ConcatProperties
<1>3. a \o b \in [1..p + q -> S]
    <2>1. a \o b \in Seq(S) /\ Len(a \o b) = p + q
        BY <1>1, <1>2
    <2> QED BY <2>1, FunctionOfSeq
<1>4. ASSUME NEW i \in 1..p
      PROVE  (a \o b)[i] = a[i]
    BY <1>1, <1>2
<1>5. ASSUME NEW i \in 1..q
      PROVE  (a \o b)[p + i] = b[i]
    <2>1. p + i \in 1..p + q /\ ~(p + i <= p) /\ (p + i) - p = i
        OBVIOUS
    <2> QED BY <1>1, <1>2, <2>1
<1> QED BY <1>3, <1>4, <1>5

\* The first k elements of a sequence, and the others.
LEMMA PartsOf ==
    ASSUME NEW S, NEW s \in Seq(S), NEW k \in 0..Len(s)
    PROVE  /\ SubSeq(s, 1, k) \in [1..k -> S]
           /\ \A i \in 1..k : SubSeq(s, 1, k)[i] = s[i]
           /\ SubSeq(s, k + 1, Len(s)) \in [1..Len(s) - k -> S]
           /\ \A i \in 1..Len(s) - k : SubSeq(s, k + 1, Len(s))[i] = s[k + i]
<1>1. PICK m \in Nat : m = Len(s) /\ \A i \in 1..m : s[i] \in S
    BY LenProperties, ElementOfSeq
<1>2. k \in Nat /\ k <= m
    BY <1>1
<1>3. SubSeq(s, 1, k) \in [1..k -> S] /\ \A i \in 1..k : SubSeq(s, 1, k)[i] = s[i]
    <2>1. \A i \in 1..k : s[i] \in S
        BY <1>1, <1>2
    <2>2. /\ SubSeq(s, 1, k) \in Seq(S)
          /\ Len(SubSeq(s, 1, k)) = IF 1 <= k THEN k - 1 + 1 ELSE 0
          /\ \A i \in 1..k - 1 + 1 : SubSeq(s, 1, k)[i] = s[1 + i - 1]
        BY <1>2, <2>1, SubSeqProperties
    <2>3. Len(SubSeq(s, 1, k)) = k
        BY <1>2, <2>2
    <2>4. SubSeq(s, 1, k) \in [1..k -> S]
        BY <2>2, <2>3, FunctionOfSeq
    <2>5. k - 1 + 1 = k /\ \A i \in 1..k : 1 + i - 1 = i
        BY <1>2
    <2> QED BY <2>2, <2>4, <2>5
<1>4. /\ SubSeq(s, k + 1, m) \in [1..m - k -> S]
      /\ \A i \in 1..m - k : SubSeq(s, k + 1, m)[i] = s[k + i]
    <2>1. PICK a \in Int : a = k + 1
        BY <1>2
    <2>2. \A i \in a..m : s[i] \in S
        BY <1>1, <1>2, <2>1
    <2>3. /\ SubSeq(s, a, m) \in Seq(S)
          /\ Len(SubSeq(s, a, m)) = IF a <= m THEN m - a + 1 ELSE 0
          /\ \A i \in 1..m - a + 1 : SubSeq(s, a, m)[i] = s[a + i - 1]
        BY <2>2, SubSeqProperties
    <2>4. m - a + 1 = m - k /\ (~(a <= m) => m - k = 0)
        BY <1>2, <2>1
    <2>5. Len(SubSeq(s, a, m)) = m - k
        BY <2>3, <2>4
    <2>6. SubSeq(s, a, m) \in [1..m - k -> S]
        BY <2>3, <2>5, FunctionOfSeq
    <2>7. ASSUME NEW i \in 1..m - k
          PROVE  SubSeq(s, a, m)[i] = s[k + i]
        <3>1. SubSeq(s, a, m)[i] = s[a + i - 1]
            BY <2>3, <2>4
        <3>2. a + i - 1 = k + i
            BY <1>2, <2>1
        <3> QED BY <3>1, <3>2
    <2> QED BY <2>1, <2>6, <2>7
<1> QED BY <1>1, <1>3, <1>4

LEMMA InsertAtIsInserted ==
    ASSUME NEW S, NEW s \in Seq(S), NEW v \in S, NEW k \in 0..Len(s)
    PROVE  InsertAt(s, k + 1, v) = Inserted(s, Len(s), k, v)
<1> DEFINE m == Len(s)
<1>1. m \in Nat /\ k \in Nat /\ k <= m /\ k + 1 \in Nat
    BY LenProperties
<1>2. PICK q \in Nat : q = m - k
    BY <1>1
<1>3. PICK front \in [1..k -> S], back \in [1..q -> S] :
          /\ front = SubSeq(s, 1, k) /\ \A i \in 1..k : front[i] = s[i]
          /\ back = SubSeq(s, k + 1, m) /\ \A i \in 1..q : back[i] = s[k + i]
    <2>1. /\ SubSeq(s, 1, k) \in [1..k -> S]
          /\ \A i \in 1..k : SubSeq(s, 1, k)[i] = s[i]
          /\ SubSeq(s, k + 1, m) \in [1..m - k -> S]
          /\ \A i \in 1..m - k : SubSeq(s, k + 1, m)[i] = s[k + i]
        BY PartsOf
    <2> HIDE DEF m
    <2> QED BY <1>2, <2>1
<1>4. PICK last \in [1..1 -> S] : last = <<v>> /\ \A i \in 1..1 : last[i] = v
    <2>1. <<v>> \in [1..1 -> S] /\ \A i \in 1..1 : <<v>>[i] = v
        OBVIOUS
    <2> QED BY <2>1
<1> HIDE DEF m
<1>5. PICK p \in Nat : p = k + 1
    BY <1>1
<1>6. PICK most \in [1..p -> S] :
          /\ most = front \o last
          /\ \A i \in 1..k : most[i] = s[i]
          /\ most[p] = v
    <2>0. PICK j \in Nat, one \in Nat : j = k /\ one = 1
        BY <1>1
    <2>1. PICK f \in [1..j -> S], l \in [1..one -> S] : f = front /\ l = last
        BY <2>0
    <2>2. f \o l \in [1..j + one -> S]
        BY Joined
    <2>3. \A i \in 1..j : (f \o l)[i] = f[i]
        BY Joined
    <2>4. \A i \in 1..one : (f \o l)[j + i] = l[i]
        BY Joined
    <2>5. front \o l \in [1..p -> S]
        BY <1>5, <2>0, <2>1, <2>2
    <2>6. \A i \in 1..k : (front \o l)[i] = s[i]
        BY <1>3, <2>0, <2>1, <2>3
    <2>7. (front \o l)[p] = v
        <3>1. 1 \in 1..one /\ j + 1 = p /\ l[1] = v
            BY <1>4, <1>5, <2>0, <2>1
        <3> QED BY <2>1, <2>4, <3>1
    <2> QED BY <2>1, <2>5, <2>6, <2>7
<1>7. /\ most \o back \in [1..p + q -> S]
      /\ \A i \in 1..p : (most \o back)[i] = most[i]
      /\ \A i \in 1..q : (most \o back)[p + i] = back[i]
    <2>1. most \o back \in [1..p + q -> S]
        BY Joined
    <2>2. \A i \in 1..p : (most \o back)[i] = most[i]
        BY Joined
    <2>3. \A i \in 1..q : (most \o back)[p + i] = back[i]
        BY Joined
    <2> QED BY <2>1, <2>2, <2>3
<1>8. ASSUME NEW i \in 1..m + 1
      PROVE  (most \o back)[i] = IF i <= k THEN s[i] ELSE IF i = k + 1 THEN v ELSE s[i - 1]
    <2>1. CASE i <= k
        <3>1. i \in 1..p /\ i \in 1..k
            BY <1>1, <1>5, <2>1
        <3>2. (most \o back)[i] = s[i]
            BY <1>6, <1>7, <3>1
        <3> QED BY <2>1, <3>2
    <2>2. CASE i = p
        <3>1. i \in 1..p /\ ~(i <= k) /\ i = k + 1
            BY <1>1, <1>5, <2>2
        <3>2. (most \o back)[i] = v
            BY <1>6, <1>7, <2>2, <3>1
        <3> QED BY <3>1, <3>2
    <2>3. CASE i > p
        <3>1. PICK j \in 1..q : i = p + j /\ k + j = i - 1
            <4>1. i - p \in 1..q
                BY <1>1, <1>2, <1>5, <2>3
            <4> QED BY <1>1, <1>5, <4>1
        <3>2. (most \o back)[i] = back[j] /\ back[j] = s[k + j]
            BY <1>3, <1>7, <3>1
        <3>3. ~(i <= k) /\ ~(i = k + 1)
            BY <1>1, <1>5, <2>3
        <3> QED BY <3>1, <3>2, <3>3
    <2>4. i <= k \/ i = p \/ i > p
        BY <1>1, <1>5
    <2> QED BY <2>1, <2>2, <2>3, <2>4
<1>9. most \o back = Inserted(s, m, k, v)
    <2>1. p + q = m + 1
        BY <1>1, <1>2, <1>5
    <2>2. most \o back \in [1..m + 1 -> S]
        BY <1>7, <2>1
    <2> QED BY <1>8, <2>2 DEF Inserted
<1>10. InsertAt(s, k + 1, v) = most \o back
    <2>1. (k + 1) - 1 = k
        BY <1>1
    <2>2. InsertAt(s, k + 1, v) = SubSeq(s, 1, k) \o <<v>> \o SubSeq(s, k + 1, m)
        BY <2>1 DEF InsertAt, m
    <2> QED BY <1>3, <1>4, <1>6, <2>2
<1> QED BY <1>9, <1>10 DEF m

LEMMA RemoveAtIsWithout ==
    ASSUME NEW S, NEW s \in Seq(S), NEW k \in 1..Len(s)
    PROVE  RemoveAt(s, k) = Without(s, Len(s), k)
<1> DEFINE m == Len(s)
<1>1. m \in Nat /\ k \in Nat /\ 1 <= k /\ k <= m
    BY LenProperties
<1>2. PICK p \in Nat, q \in Nat : p = k - 1 /\ q = m - k
    BY <1>1
<1>3. PICK front \in [1..p -> S] : front = SubSeq(s, 1, p) /\ \A i \in 1..p : front[i] = s[i]
    <2>1. p \in 0..m
        BY <1>1, <1>2
    <2>2. SubSeq(s, 1, p) \in [1..p -> S] /\ \A i \in 1..p : SubSeq(s, 1, p)[i] = s[i]
        BY <2>1, PartsOf
    <2> QED BY <2>2
<1>4. PICK back \in [1..q -> S] : back = SubSeq(s, k + 1, m) /\ \A i \in 1..q : back[i] = s[k + i]
    <2>1. k \in 0..m
        BY <1>1
    <2>2. /\ SubSeq(s, k + 1, m) \in [1..m - k -> S]
          /\ \A i \in 1..m - k : SubSeq(s, k + 1, m)[i] = s[k + i]
        BY <2>1, PartsOf
    <2> HIDE DEF m
    <2> QED BY <1>2, <2>2
<1> HIDE DEF m
<1>5. /\ front \o back \in [1..p + q -> S]
      /\ \A i \in 1..p : (front \o back)[i] = front[i]
      /\ \A i \in 1..q : (front \o back)[p + i] = back[i]
    <2>1. front \o back \in [1..p + q -> S]
        BY Joined
    <2>2. \A i \in 1..p : (front \o back)[i] = front[i]
        BY Joined
    <2>3. \A i \in 1..q : (front \o back)[p + i] = back[i]
        BY Joined
    <2> QED BY <2>1, <2>2, <2>3
<1>6. ASSUME NEW i \in 1..m - 1
      PROVE  (front \o back)[i] = IF i < k THEN s[i] ELSE s[i + 1]
    <2>1. CASE i < k
        <3>1. i \in 1..p
            BY <1>1, <1>2, <2>1
        <3> QED BY <1>3, <1>5, <2>1, <3>1
    <2>2. CASE ~(i < k)
        <3>1. PICK j \in 1..q : i = p + j /\ k + j = i + 1
            <4>1. i - p \in 1..q
                BY <1>1, <1>2, <2>2
            <4> QED BY <1>1, <1>2, <4>1
        <3>2. (front \o back)[i] = back[j] /\ back[j] = s[k + j]
            BY <1>4, <1>5, <3>1
        <3> QED BY <2>2, <3>1, <3>2
    <2> QED BY <2>1, <2>2
<1>7. front \o back = Without(s, m, k)
    <2>1. p + q = m - 1
        BY <1>1, <1>2
    <2>2. front \o back \in [1..m - 1 -> S]
        BY <1>5, <2>1
    <2> QED BY <1>6, <2>2 DEF Without
<1>8. RemoveAt(s, k) = front \o back
    <2>1. RemoveAt(s, k) = SubSeq(s, 1, p) \o SubSeq(s, k + 1, m)
        BY <1>2 DEF RemoveAt, m
    <2> QED BY <1>3, <1>4, <2>1
<1> QED BY <1>7, <1>8 DEF m

-----------------------------------------------------------------------------
(* The steps, on the list and on the sequence that its callers see.        *)

Seen == Items(head, Chain(head))

\* The numbering of the new list is the one that its walk gives.
LEMMA NewChain ==
    ASSUME NEW c, Chained(head', c)
    PROVE  ChainInv' /\ Seen' = Items(head', c)
<1>1. Chain(head') = c
    BY ChainIsWalk
<1> QED BY <1>1 DEF ChainInv, Seen

LEMMA GrowStep ==
    ASSUME ChainInv, NEW n \in Node \ Live(head), NEW d \in Datum,
           NEW k \in 0..head.len, head' = Grown(head, n, d, k, Chain(head))
    PROVE  ChainInv' /\ Seen' = InsertAt(Seen, k + 1, d)
<1> DEFINE c == Chain(head)
           w == Inserted(c, head.len, k, n)
<1>1. Chained(head, c)
    BY DEF ChainInv
<1> HIDE DEF c
<1>2. Chained(head', w) /\ Items(head', w) = Inserted(Items(head, c), head.len, k, d)
    BY <1>1, GrownChained DEF c
<1>3. Inserted(Items(head, c), head.len, k, d) = InsertAt(Items(head, c), k + 1, d)
    <2>1. Items(head, c) \in Seq(Datum) /\ Len(Items(head, c)) = head.len
        BY <1>1, ItemsType
    <2> QED BY <2>1, InsertAtIsInserted
<1> HIDE DEF w
<1> QED BY <1>2, <1>3, NewChain DEF c, Seen

LEMMA ShrinkStep ==
    ASSUME ChainInv, NEW k \in 1..head.len, head' = Unlinked(head, Chain(head)[k])
    PROVE  ChainInv' /\ Seen' = RemoveAt(Seen, k)
<1> DEFINE c == Chain(head)
           w == Without(c, head.len, k)
<1>1. Chained(head, c)
    BY DEF ChainInv
<1> HIDE DEF c
<1>2. Chained(head', w) /\ Items(head', w) = Without(Items(head, c), head.len, k)
    BY <1>1, UnlinkedChained DEF c
<1>3. Without(Items(head, c), head.len, k) = RemoveAt(Items(head, c), k)
    <2>1. Items(head, c) \in Seq(Datum) /\ Len(Items(head, c)) = head.len
        BY <1>1, ItemsType
    <2> QED BY <2>1, RemoveAtIsWithout
<1> HIDE DEF w
<1> QED BY <1>2, <1>3, NewChain DEF c, Seen

LEMMA StayStep ==
    ASSUME ChainInv, head' = head
    PROVE  ChainInv' /\ Seen' = Seen
BY DEF ChainInv, Seen

LEMMA SeenType ==
    ASSUME ChainInv
    PROVE  /\ head.len \in Nat /\ Seen \in Seq(Datum) /\ Len(Seen) = head.len
           /\ Seen = <<>> <=> head.len = 0
<1>1. head.len \in Nat /\ Seen \in Seq(Datum) /\ Len(Seen) = head.len
    BY ItemsType DEF ChainInv, Seen
<1>2. Seen = <<>> <=> Len(Seen) = 0
    BY <1>1, EmptySeq
<1> QED BY <1>1, <1>2

\* What a call does to the sequence, in the terms of SequenceList.
LEMMA AppendStep ==
    ASSUME ChainInv, NEW n \in Node, NEW d \in Datum, ll_append(n, d)
    PROVE  ChainInv' /\ Seen' = InsertAt(Seen, Len(Seen) + 1, d)
<1>1. head' = Grown(head, n, d, head.len, Chain(head)) /\ n \in Node \ Live(head)
    BY AppendedIsGrown DEF ll_append, Allocatable, ChainInv
<1>2. head.len \in 0..head.len /\ Len(Seen) = head.len
    BY SeenType
<1> QED BY <1>1, <1>2, GrowStep

LEMMA InsertAfterStep ==
    ASSUME ChainInv, NEW n \in Node, NEW d \in Datum, NEW idx \in Nat,
           ll_insertAfter(n, idx, d)
    PROVE  /\ ChainInv'
           /\ IF Seen = <<>> THEN Seen' = InsertAt(Seen, 1, d)
              ELSE IF idx < Len(Seen) THEN Seen' = InsertAt(Seen, idx + 2, d)
              ELSE Seen' = Seen
<1>1. n \in Node \ Live(head) /\ head' = InsertedAfter(head, n, idx, d)
    BY DEF ll_insertAfter, Allocatable
<1>2. head' = IF head.len = 0 THEN Grown(head, n, d, 0, Chain(head))
              ELSE IF idx < head.len THEN Grown(head, n, d, idx + 1, Chain(head))
              ELSE head
    BY <1>1, InsertedAfterIsGrown DEF ChainInv
<1>3. head.len \in Nat /\ Len(Seen) = head.len /\ (Seen = <<>> <=> head.len = 0)
    BY SeenType
<1>4. CASE head.len = 0
    <2>1. 0 \in 0..head.len /\ 0 + 1 = 1
        BY <1>3
    <2> QED BY <1>1, <1>2, <1>3, <1>4, <2>1, GrowStep
<1>5. CASE head.len # 0 /\ idx < head.len
    <2>1. idx + 1 \in 0..head.len /\ (idx + 1) + 1 = idx + 2
        BY <1>3, <1>5
    <2>2. head' = Grown(head, n, d, idx + 1, Chain(head))
        BY <1>2, <1>5
    <2>3. ChainInv' /\ Seen' = InsertAt(Seen, (idx + 1) + 1, d)
        BY <1>1, <2>1, <2>2, GrowStep
    <2> QED BY <1>3, <1>5, <2>1, <2>3
<1>6. CASE head.len # 0 /\ ~(idx < head.len)
    BY <1>2, <1>3, <1>6, StayStep
<1> QED BY <1>4, <1>5, <1>6

LEMMA InsertBeforeStep ==
    ASSUME ChainInv, NEW n \in Node, NEW d \in Datum, NEW idx \in Nat,
           ll_insertBefore(n, idx, d)
    PROVE  /\ ChainInv'
           /\ IF idx < Len(Seen) THEN Seen' = InsertAt(Seen, idx + 1, d)
              ELSE Seen' = Seen
<1>1. n \in Node \ Live(head) /\ head' = InsertedBefore(head, n, idx, d)
    BY DEF ll_insertBefore, Allocatable
<1>2. head' = IF idx < head.len THEN Grown(head, n, d, idx, Chain(head)) ELSE head
    BY <1>1, InsertedBeforeIsGrown DEF ChainInv
<1>3. head.len \in Nat /\ Len(Seen) = head.len
    BY SeenType
<1>4. CASE idx < head.len
    <2>1. idx \in 0..head.len
        BY <1>3, <1>4
    <2> QED BY <1>1, <1>2, <1>3, <1>4, <2>1, GrowStep
<1>5. CASE ~(idx < head.len)
    BY <1>2, <1>3, <1>5, StayStep
<1> QED BY <1>4, <1>5

LEMMA InsertAsStep ==
    ASSUME ChainInv, NEW n \in Node, NEW d \in Datum, NEW idx \in Nat,
           ll_insertAs(n, idx, d)
    PROVE  /\ ChainInv'
           /\ IF Seen = <<>> THEN Seen' = InsertAt(Seen, 1, d)
              ELSE IF idx <= Len(Seen) THEN Seen' = InsertAt(Seen, idx + 1, d)
              ELSE Seen' = Seen
<1>1. n \in Node \ Live(head) /\ head' = InsertedAs(head, n, idx, d)
    BY DEF ll_insertAs, Allocatable
<1>2. head' = IF head.len = 0 THEN Grown(head, n, d, 0, Chain(head))
              ELSE IF idx <= head.len THEN Grown(head, n, d, idx, Chain(head)) ELSE head
    BY <1>1, InsertedAsIsGrown DEF ChainInv
<1>3. head.len \in Nat /\ Len(Seen) = head.len /\ (Seen = <<>> <=> head.len = 0)
    BY SeenType
<1>4. CASE head.len = 0
    <2>1. 0 \in 0..head.len /\ 0 + 1 = 1
        BY <1>3
    <2> QED BY <1>1, <1>2, <1>3, <1>4, <2>1, GrowStep
<1>5. CASE head.len # 0 /\ idx <= head.len
    <2>1. idx \in 0..head.len
        BY <1>3, <1>5
    <2> QED BY <1>1, <1>2, <1>3, <1>5, <2>1, GrowStep
<1>6. CASE head.len # 0 /\ ~(idx <= head.len)
    BY <1>2, <1>3, <1>6, StayStep
<1> QED BY <1>4, <1>5, <1>6

\* What ll_get returns and ll_remove passes on.
LEMMA ReleasedIsItem ==
    ASSUME ChainInv, NEW idx \in Nat
    PROVE  Released(head, idx) = IF idx < Len(Seen) THEN <<Seen[idx + 1]>> ELSE <<>>
BY SeenType, RemovedIsUnlinked DEF ChainInv, Seen

LEMMA RemoveStep ==
    ASSUME ChainInv, NEW idx \in Nat, ll_remove(idx)
    PROVE  /\ ChainInv'
           /\ IF idx < Len(Seen) THEN Seen' = RemoveAt(Seen, idx + 1) ELSE Seen' = Seen
<1>1. head' = IF idx < head.len THEN Unlinked(head, Chain(head)[idx + 1]) ELSE head
    BY RemovedIsUnlinked DEF ll_remove, ChainInv
<1>2. head.len \in Nat /\ Len(Seen) = head.len
    BY SeenType
<1>3. CASE idx < head.len
    <2>1. idx + 1 \in 1..head.len
        BY <1>2, <1>3
    <2> QED BY <1>1, <1>2, <1>3, <2>1, ShrinkStep
<1>4. CASE ~(idx < head.len)
    BY <1>1, <1>2, <1>4, StayStep
<1> QED BY <1>3, <1>4

LEMMA DeleteStep ==
    ASSUME ChainInv, ll_delete
    PROVE  ChainInv' /\ Seen' = <<>> /\ call' = Call("delete", 0, NULL, Seen)
<1>1. /\ Chained(head', From(Chain(head), head.len, head.len)) /\ head'.len = 0
      /\ call' = Call("delete", 0, NULL, Seen)
    BY Deleted DEF ChainInv, Seen
<1>2. ChainInv'
    BY <1>1, NewChain
<1>3. Seen' = <<>>
    <2>1. Seen' = Items(head', From(Chain(head), head.len, head.len))
        BY <1>1, NewChain
    <2> QED BY <1>1, <2>1 DEF Items
<1> QED BY <1>1, <1>2, <1>3

LEMMA InitChain ==
    ASSUME Init
    PROVE  ChainInv /\ Seen = <<>>
<1> DEFINE c == [i \in 1..0 |-> NULL]
<1>1. head.start = NULL /\ head.end = NULL /\ head.len = 0
    BY DEF Init
<1>2. \A n \in Node : head.next[n] = Freed /\ head.prev[n] = Freed /\ head.data[n] = Freed
    BY DEF Init, Nowhere
<1>3. head \in ListType
    BY DEF Init, Nowhere, ListType
<1>4. c \in [1..head.len -> Node] /\ \A i \in 1..head.len : FALSE
    BY <1>1
<1>5. Chained(head, c)
    <2> HIDE DEF c
    <2> QED BY <1>1, <1>2, <1>3, <1>4 DEF Chained, Ends, Links, RestFreed
<1>6. ChainInv
    BY <1>5, ChainIsWalk DEF ChainInv
<1>7. Seen = <<>>
    BY <1>1, <1>6, SeenType
<1> QED BY <1>6, <1>7

LEMMA NextChain ==
    ASSUME ChainInv, [Next]_llVars
    PROVE  ChainInv'
<1>1. ASSUME NEW n \in Node, NEW d \in Datum, ll_append(n, d)
      PROVE  ChainInv'
    BY <1>1, AppendStep
<1>2. ASSUME NEW n \in Node, NEW idx \in Index, NEW d \in Datum,
             \/ ll_insertAfter(n, idx, d) \/ ll_insertBefore(n, idx, d)
             \/ ll_insertAs(n, idx, d)
      PROVE  ChainInv'
    BY <1>2, IndexAssumption, InsertAfterStep, InsertBeforeStep, InsertAsStep
<1>3. ASSUME NEW idx \in Index, ll_get(idx) \/ ll_remove(idx)
      PROVE  ChainInv'
    <2>1. CASE ll_get(idx)
        BY <2>1, StayStep DEF ll_get
    <2>2. CASE ll_remove(idx)
        BY <2>2, IndexAssumption, RemoveStep
    <2> QED BY <1>3, <2>1, <2>2
<1>4. CASE ll_delete
    BY <1>4, DeleteStep
<1>5. CASE UNCHANGED llVars
    BY <1>5, StayStep DEF llVars
<1> QED BY <1>1, <1>2, <1>3, <1>4, <1>5 DEF Next

\* Of every list that calls can make, the walk from the start numbers the live
\* nodes (the next and prev fields that linkedList.c writes).
THEOREM ChainInvariant == Spec => []ChainInv
<1>1. Init => ChainInv
    BY InitChain
<1>2. ChainInv /\ [Next]_llVars => ChainInv'
    BY NextChain
<1> QED BY <1>1, <1>2, PTL DEF Spec

-----------------------------------------------------------------------------
(* What follows for the pointers.                                          *)

LEMMA ChainTyped ==
    ASSUME ChainInv
    PROVE  TypeOK
<1> DEFINE c == Chain(head)
<1>1. Chained(head, c)
    BY DEF ChainInv
<1> HIDE DEF c
<1>2. head.len \in Nat /\ \A i \in 1..head.len : c[i] \in Live(head)
    BY <1>1, LiveNodes DEF Chained, ListType
<1>3. {head.start, head.end} \subseteq Live(head) \cup {NULL}
    BY <1>1, <1>2 DEF Chained, Ends
<1>4. ASSUME NEW n \in Live(head)
      PROVE  /\ {head.next[n], head.prev[n]} \subseteq Live(head) \cup {NULL}
             /\ head.data[n] \in Datum
    <2>1. PICK i \in 1..head.len : c[i] = n
        BY <1>1, LiveNodes
    <2>2. /\ head.next[n] = IF i = head.len THEN NULL ELSE c[i + 1]
          /\ head.prev[n] = IF i = 1 THEN NULL ELSE c[i - 1]
          /\ head.data[n] \in Datum
        BY <1>1, <2>1 DEF Chained, Links
    <2>3. /\ i # head.len => c[i + 1] \in Live(head)
          /\ i # 1 => c[i - 1] \in Live(head)
        BY <1>2
    <2> QED BY <2>2, <2>3
<1>5. \A n \in Node \ Live(head) : head.prev[n] = Freed /\ head.data[n] = Freed
    BY <1>1, <1>2 DEF Chained, RestFreed
<1> QED BY <1>2, <1>3, <1>4, <1>5 DEF TypeOK

LEMMA ChainBothWays ==
    ASSUME ChainInv
    PROVE  BothWays
<1> DEFINE c == Chain(head)
           m == head.len
<1>1. Chained(head, c)
    BY DEF ChainInv
<1> HIDE DEF c
<1>2. m \in Nat /\ c \in [1..m -> Node]
    BY <1>1 DEF Chained, ListType
<1>3. Forward = c
    BY DEF Forward, Chain, c
<1>4. \A i \in 1..m : Backward[i] = c[m + 1 - i]
    <2> SUFFICES ASSUME NEW i \in 1..m
                 PROVE  NodeAt([start |-> head.end, next |-> head.prev], i - 1)
                          = c[m + 1 - i]
        BY DEF Backward
    <2>1. i - 1 \in Nat /\ i - 1 < m /\ m - (i - 1) = m + 1 - i
        BY <1>2
    <2> QED BY <1>1, <2>1, WalkChain
<1>5. Forward = Reverse(Backward)
    <2>1. Len(Backward) = m
        <3>1. DOMAIN Backward = 1..m
            BY DEF Backward
        <3>2. \A i \in 1..m : Backward[i] \in Node
            BY <1>2, <1>4
        <3>3. Backward \in [1..m -> Node]
            BY <3>1, <3>2 DEF Backward
        <3> QED BY <1>2, <3>3, SeqOfFunction
    <2>2. \A i \in 1..m : (m - i) + 1 \in 1..m /\ m + 1 - ((m - i) + 1) = i
        BY <1>2
    <2>3. \A i \in 1..m : Backward[(m - i) + 1] = c[i]
        BY <1>4, <2>2
    <2>4. Reverse(Backward) = [i \in 1..m |-> Backward[(m - i) + 1]]
        BY <2>1 DEF Reverse
    <2> HIDE DEF m
    <2> QED BY <1>2, <1>3, <2>3, <2>4
<1>6. ToSet(Forward) = Live(head)
    <2>1. ToSet(Forward) = {c[i] : i \in 1..m}
        BY <1>2, <1>3 DEF ToSet
    <2> QED BY <1>1, <2>1, LiveNodes
<1>7. NodeAt(head, m) = NULL
    <2>1. NodeAt(head, m) = IF m < head.len THEN c[m + 1] ELSE NULL
        BY <1>1, <1>2, WalkChain
    <2>2. ~(m < head.len)
        BY <1>2
    <2> QED BY <2>1, <2>2
<1> QED BY <1>5, <1>6, <1>7 DEF BothWays

\* No call leaves a pointer to a node that ll_remove has freed, in the list or in
\* a live node (linkedList.c:97-134).
THEOREM TypeInvariant == Spec => []TypeOK
<1>1. ChainInv => TypeOK
    BY ChainTyped
<1> QED BY <1>1, ChainInvariant, PTL

\* The walks over next and over prev visit the same nodes in opposite orders, and
\* none that is live is outside of them, so that the copy of an included file
\* backwards (main.c:529) and its release (linkedList.c:119-134) miss no item.
THEOREM WalkedBothWays == Spec => []BothWays
<1>1. ChainInv => BothWays
    BY ChainBothWays
<1> QED BY <1>1, ChainInvariant, PTL

-----------------------------------------------------------------------------
(* The list implements SequenceList.                                       *)

LEMMA SeenIsSequence == AsSequence = Seen /\ AsSequence' = Seen'
BY DEF AsSequence, Seen, Items, Chain, Forward

\* A datum that no node holds is not in the sequence.
LEMMA FreshDatum ==
    ASSUME ChainInv, NEW n, NEW d, Allocatable(n, d)
    PROVE  Abstract!Fresh(d)
<1> DEFINE c == Chain(head)
<1>1. Chained(head, c)
    BY DEF ChainInv
<1> HIDE DEF c
<1>2. \A i \in 1..head.len : head.data[c[i]] # d
    BY <1>1, LiveNodes DEF Allocatable, Owned
<1>3. ASSUME NEW i \in DOMAIN Seen
      PROVE  Seen[i] # d
    BY <1>2 DEF Seen, Items, c
<1> QED BY <1>3, SeenIsSequence DEF Abstract!Fresh, Abstract!ToSet

LEMMA SameOperators ==
    /\ \A s, i, e : Abstract!InsertAt(s, i, e) = InsertAt(s, i, e)
    /\ \A s, i : Abstract!RemoveAt(s, i) = RemoveAt(s, i)
    /\ \A op, idx, d, out : Abstract!Call(op, idx, d, out) = Call(op, idx, d, out)
BY DEF Abstract!InsertAt, InsertAt, Abstract!RemoveAt, RemoveAt, Abstract!Call, Call

LEMMA NextAbstract ==
    ASSUME ChainInv, [Next]_llVars
    PROVE  [Abstract!Next]_Abstract!listVars
<1> USE SeenIsSequence, SameOperators
<1>1. ASSUME NEW n \in Node, NEW d \in Datum, ll_append(n, d)
      PROVE  Abstract!AppendCall(d)
    <2>1. Seen' = InsertAt(Seen, Len(Seen) + 1, d)
        BY <1>1, AppendStep
    <2>2. Abstract!Fresh(d) /\ call' = Call("append", 0, d, <<>>)
        BY <1>1, FreshDatum DEF ll_append
    <2> QED BY <2>1, <2>2 DEF Abstract!AppendCall, Abstract!InsertedAt
<1>2. ASSUME NEW n \in Node, NEW idx \in Index, NEW d \in Datum, ll_insertAfter(n, idx, d)
      PROVE  Abstract!InsertAfterCall(idx, d)
    <2>1. IF Seen = <<>> THEN Seen' = InsertAt(Seen, 1, d)
          ELSE IF idx < Len(Seen) THEN Seen' = InsertAt(Seen, idx + 2, d)
          ELSE Seen' = Seen
        BY <1>2, IndexAssumption, InsertAfterStep
    <2>2. Abstract!Fresh(d) /\ call' = Call("insertAfter", idx, d, <<>>)
        BY <1>2, FreshDatum DEF ll_insertAfter
    <2> QED BY <2>1, <2>2 DEF Abstract!InsertAfterCall, Abstract!InsertedAt
<1>3. ASSUME NEW n \in Node, NEW idx \in Index, NEW d \in Datum, ll_insertBefore(n, idx, d)
      PROVE  Abstract!InsertBeforeCall(idx, d)
    <2>1. IF idx < Len(Seen) THEN Seen' = InsertAt(Seen, idx + 1, d) ELSE Seen' = Seen
        BY <1>3, IndexAssumption, InsertBeforeStep
    <2>2. Abstract!Fresh(d) /\ call' = Call("insertBefore", idx, d, <<>>)
        BY <1>3, FreshDatum DEF ll_insertBefore
    <2> QED BY <2>1, <2>2 DEF Abstract!InsertBeforeCall, Abstract!InsertedAt
<1>4. ASSUME NEW n \in Node, NEW idx \in Index, NEW d \in Datum, ll_insertAs(n, idx, d)
      PROVE  Abstract!InsertAsCall(idx, d)
    <2>1. IF Seen = <<>> THEN Seen' = InsertAt(Seen, 1, d)
          ELSE IF idx <= Len(Seen) THEN Seen' = InsertAt(Seen, idx + 1, d)
          ELSE Seen' = Seen
        BY <1>4, IndexAssumption, InsertAsStep
    <2>2. Abstract!Fresh(d) /\ call' = Call("insertAs", idx, d, <<>>)
        BY <1>4, FreshDatum DEF ll_insertAs
    <2> QED BY <2>1, <2>2 DEF Abstract!InsertAsCall, Abstract!InsertedAt
<1>5. ASSUME NEW idx \in Index, ll_get(idx)
      PROVE  Abstract!GetCall(idx)
    <2>1. Seen' = Seen
        BY <1>5, StayStep DEF ll_get
    <2>2. call' = Call("get", idx, NULL,
                       IF idx < Len(Seen) THEN <<Seen[idx + 1]>> ELSE <<>>)
        BY <1>5, IndexAssumption, ReleasedIsItem DEF ll_get
    <2> QED BY <2>1, <2>2 DEF Abstract!GetCall
<1>6. ASSUME NEW idx \in Index, ll_remove(idx)
      PROVE  Abstract!RemoveCall(idx)
    <2>1. IF idx < Len(Seen) THEN Seen' = RemoveAt(Seen, idx + 1) ELSE Seen' = Seen
        BY <1>6, IndexAssumption, RemoveStep
    <2>2. call' = Call("remove", idx, NULL,
                       IF idx < Len(Seen) THEN <<Seen[idx + 1]>> ELSE <<>>)
        BY <1>6, IndexAssumption, ReleasedIsItem DEF ll_remove
    <2> QED BY <2>1, <2>2 DEF Abstract!RemoveCall
<1>7. ASSUME ll_delete
      PROVE  Abstract!DeleteCall
    BY <1>7, DeleteStep DEF Abstract!DeleteCall
<1>8. CASE UNCHANGED llVars
    <2>1. Seen' = Seen /\ call' = call
        BY <1>8, StayStep DEF llVars
    <2> QED BY <2>1 DEF Abstract!listVars
<1>9. CASE Next
    <2>1. Abstract!Next
        BY <1>1, <1>2, <1>3, <1>4, <1>5, <1>6, <1>7, <1>9 DEF Next, Abstract!Next
    <2> QED BY <2>1
<1> QED BY <1>8, <1>9

\* Every call on a list does to the sequence of its items, and returns or releases,
\* what SequenceList says, for lists of any length and any index.
THEOREM ListIsSequence == Spec => IsSequence
<1>1. Init => Abstract!Init
    BY InitChain, SeenIsSequence, SameOperators DEF Init, Abstract!Init
<1>2. ChainInv /\ [Next]_llVars => [Abstract!Next]_Abstract!listVars
    BY NextAbstract
<1> QED BY <1>1, <1>2, ChainInvariant, PTL DEF Spec, IsSequence, Abstract!Spec
=============================================================================
