----------------------------- MODULE HeapProofs -----------------------------
(***************************************************************************)
(* The heap for every start address and every set of sizes: the chain of   *)
(* nodes stays whole, free merges all there is to merge, the monitor       *)
(* counts every node, and malloc and free implement Allocator.             *)
(***************************************************************************)
EXTENDS Heap, TLAPS

\* The four fields of the node n.
Is(n, size, prev, next, used) ==
    n \in Record /\ n.size = size /\ n.prev = prev /\ n.next = next /\ n.used = used

\* A whole heap of any nodes.
LEMMA NodeTypes ==
    ASSUME HeapInv
    PROVE  /\ NULL \notin DOMAIN nodes
           /\ \A a \in DOMAIN nodes :
                /\ a \in Nat /\ nodes[a] \in Record
                /\ nodes[a].size \in Nat /\ nodes[a].prev \in Nat /\ nodes[a].next \in Nat
                /\ nodes[a].used \in BOOLEAN
                /\ a < End(a) /\ End(a) \in Nat /\ End(a) = a + 1 + nodes[a].size
  <1>1. NULL \notin DOMAIN nodes
    BY HeapAssumption DEF HeapInv, Chained, NULL
  <1>2. DOMAIN nodes \subseteq Nat /\ nodes \in [DOMAIN nodes -> Record]
    BY DEF HeapInv, HeapTypeOK
  <1>3. ASSUME NEW a \in DOMAIN nodes
        PROVE  /\ a \in Nat /\ nodes[a] \in Record
               /\ nodes[a].size \in Nat /\ nodes[a].prev \in Nat /\ nodes[a].next \in Nat
               /\ nodes[a].used \in BOOLEAN
    BY <1>2 DEF Record
  <1>. QED BY <1>1, <1>3 DEF End

\* What an assignment to some of its fields makes of a header.
LEMMA RecordChanges ==
    ASSUME NEW r \in Record, NEW size \in Nat, NEW next \in Nat
    PROVE  /\ Is([r EXCEPT !.size = size, !.next = next], size, r.prev, next, r.used)
           /\ Is([r EXCEPT !.next = next, !.size = size, !.used = TRUE], size, r.prev, next, TRUE)
BY DEF Is, Record

\* Back changes no more than the back pointer of one node.
LEMMA BackAll ==
    ASSUME NEW ns, \A b \in DOMAIN ns : ns[b] \in Record, NULL \notin DOMAIN ns,
           ns = [b \in DOMAIN ns |-> ns[b]],
           NEW a, a = NULL \/ a \in DOMAIN ns, NEW p \in Nat
    PROVE  /\ DOMAIN Back(ns, a, p) = DOMAIN ns
           /\ \A b \in DOMAIN ns :
                Is(Back(ns, a, p)[b], ns[b].size, IF b = a THEN p ELSE ns[b].prev,
                   ns[b].next, ns[b].used)
  <1>1. CASE a = NULL
    BY <1>1 DEF Back, Is
  <1>2. CASE a # NULL
    <2>1. a \in DOMAIN ns
      BY <1>2
    <2>2. Back(ns, a, p) = [ns EXCEPT ![a].prev = p]
      BY <1>2 DEF Back
    <2>3. ASSUME NEW b \in DOMAIN ns
          PROVE  Is(Back(ns, a, p)[b], ns[b].size, IF b = a THEN p ELSE ns[b].prev,
                    ns[b].next, ns[b].used)
      <3>1. CASE b = a
        BY <2>1, <2>2, <3>1 DEF Is, Record
      <3>2. CASE b # a
        BY <2>1, <2>2, <3>2 DEF Is
      <3>. QED BY <3>1, <3>2
    <2>. QED BY <2>1, <2>2, <2>3
  <1>. QED BY <1>1, <1>2

LEMMA SplitNodes ==
    ASSUME HeapInv, SplitNode, NEW a, a = walk.node, NEW new, new = a + 1 + walk.size
    PROVE  /\ a \in DOMAIN nodes /\ new \in Nat /\ new \notin DOMAIN nodes
           /\ a < new /\ new < End(a) /\ walk.size \in Nat /\ Spare - 1 \in Nat
           /\ DOMAIN nodes' = DOMAIN nodes \cup {new}
           /\ nodes' = [b \in DOMAIN nodes' |-> nodes'[b]]
           /\ Is(nodes'[a], walk.size, nodes[a].prev, new, TRUE)
           /\ Is(nodes'[new], Spare - 1, a, nodes[a].next, FALSE)
           /\ \A b \in DOMAIN nodes : b # a =>
                Is(nodes'[b], nodes[b].size, IF b = nodes[a].next THEN new ELSE nodes[b].prev,
                   nodes[b].next, nodes[b].used)
  <1>1. a \in DOMAIN nodes /\ a \in Nat /\ walk.size \in Nat
    BY NodeTypes DEF HeapInv, HeapTypeOK, SplitNode, NULL
  <1>2. Spare \in Int /\ Spare >= 4 /\ Spare - 1 \in Nat /\ Spare = nodes[a].size - walk.size
    BY <1>1, NodeTypes DEF SplitNode, Spare
  <1>3. new \in Nat /\ a < new /\ new < End(a)
    BY <1>1, <1>2, NodeTypes
  <1>4. new \notin DOMAIN nodes
    BY <1>1, <1>3, NodeTypes DEF HeapInv, NodesApart
  <1>5. nodes[a].next = NULL \/ nodes[a].next \in DOMAIN nodes
    BY <1>1 DEF HeapInv, Chained
  <1>6. nodes[a].next # a
    BY <1>1, NodeTypes DEF HeapInv, Chained
  <1>. DEFINE back == Back(nodes, nodes[a].next, new)
              half == Header(Spare - 1, a, nodes[a].next, FALSE)
              all == With(back, new, half)
  <1>7. DOMAIN back = DOMAIN nodes /\ \A b \in DOMAIN nodes :
            Is(back[b], nodes[b].size, IF b = nodes[a].next THEN new ELSE nodes[b].prev,
               nodes[b].next, nodes[b].used)
    <2>1. nodes = [b \in DOMAIN nodes |-> nodes[b]]
      BY DEF HeapInv, HeapTypeOK
    <2>. HIDE DEF half, all, back
    <2>2. \A b \in DOMAIN nodes : nodes[b] \in Record
      BY NodeTypes
    <2>3. NULL \notin DOMAIN nodes
      BY NodeTypes
    <2>. QED BY ONLY <1>3, <1>5, <2>1, <2>2, <2>3, BackAll DEF back
  <1>8. nodes' = [all EXCEPT ![a] = [@ EXCEPT !.next = new, !.size = walk.size, !.used = TRUE]]
    BY DEF SplitNode
  <1>9. Is(half, Spare - 1, a, nodes[a].next, FALSE)
    BY <1>1, <1>2, NodeTypes DEF Is, Header, Record
  <1>. HIDE DEF back, half
  <1>10. /\ DOMAIN all = DOMAIN nodes \cup {new} /\ all[new] = half
         /\ \A b \in DOMAIN nodes : all[b] = back[b]
    BY <1>4, <1>7 DEF With
  <1>. HIDE DEF all
  <1>11. /\ DOMAIN nodes' = DOMAIN nodes \cup {new}
         /\ nodes' = [b \in DOMAIN nodes' |-> nodes'[b]]
         /\ nodes'[a] = [all[a] EXCEPT !.next = new, !.size = walk.size, !.used = TRUE]
         /\ \A b \in DOMAIN nodes' : b # a => nodes'[b] = all[b]
    BY <1>1, <1>8, <1>10
  <1>12. Is(nodes'[a], walk.size, nodes[a].prev, new, TRUE)
    <2>1. all[a] = back[a] /\ back[a] \in Record /\ back[a].prev = nodes[a].prev
      BY <1>1, <1>6, <1>7, <1>10 DEF Is
    <2>2. nodes'[a] = [back[a] EXCEPT !.next = new, !.size = walk.size, !.used = TRUE]
      BY <1>11, <2>1
    <2>3. back[a] \in Record /\ walk.size \in Nat /\ new \in Nat
      BY <1>1, <1>3, <2>1
    <2>. QED BY ONLY <2>1, <2>2, <2>3 DEF Is, Record
  <1>13. Is(nodes'[new], Spare - 1, a, nodes[a].next, FALSE)
    BY <1>3, <1>9, <1>10, <1>11, <1>1 DEF Is
  <1>14. ASSUME NEW b \in DOMAIN nodes, b # a
         PROVE  Is(nodes'[b], nodes[b].size, IF b = nodes[a].next THEN new ELSE nodes[b].prev,
                   nodes[b].next, nodes[b].used)
    BY <1>7, <1>10, <1>11, <1>14 DEF Is
  <1>. QED BY <1>1, <1>2, <1>3, <1>4, <1>11, <1>12, <1>13, <1>14 DEF Is

LEMMA MergeNodes ==
    ASSUME HeapInv, MergeNode,
           NEW a, a = walk.node, NEW p, p = nodes[a].prev, NEW n, n = nodes[a].next
    PROVE  /\ a \in DOMAIN nodes /\ p \in DOMAIN nodes /\ p < a /\ End(p) = a
           /\ n = NULL \/ (n \in DOMAIN nodes /\ a < n)
           /\ ~nodes[a].used /\ ~nodes[p].used
           /\ DOMAIN nodes' = DOMAIN nodes \ {a}
           /\ nodes' = [b \in DOMAIN nodes' |-> nodes'[b]]
           /\ Is(nodes'[p], nodes[p].size + nodes[a].size + 1, nodes[p].prev, n, FALSE)
           /\ \A b \in DOMAIN nodes' : b # p =>
                Is(nodes'[b], nodes[b].size, IF b = n THEN p ELSE nodes[b].prev,
                   nodes[b].next, nodes[b].used)
  <1>1. a \in DOMAIN nodes /\ p # NULL /\ ~nodes[a].used /\ ~nodes[p].used
    BY DEF HeapInv, HeapTypeOK, MergeNode, BothFree, NULL
  <1>2. p \in DOMAIN nodes /\ nodes[p].next = a
    BY <1>1 DEF HeapInv, Chained
  <1>3. nodes[p].next = End(p) /\ p < a /\ p # a
    BY <1>1, <1>2, NodeTypes DEF HeapInv, Chained
  <1>4. n = NULL \/ (n \in DOMAIN nodes /\ a < n)
    BY <1>1, NodeTypes DEF HeapInv, Chained
  <1>. DEFINE joined == [nodes EXCEPT ![p].size = @ + nodes[a].size + 1, ![p].next = n]
              rest == Without(joined, a)
  <1>5. /\ DOMAIN joined = DOMAIN nodes
        /\ joined[p] = [nodes[p] EXCEPT !.size = @ + nodes[a].size + 1, !.next = n]
        /\ \A b \in DOMAIN nodes : b # p => joined[b] = nodes[b]
    BY <1>2 DEF HeapInv, HeapTypeOK
  <1>6. Is(joined[p], nodes[p].size + nodes[a].size + 1, nodes[p].prev, n, FALSE)
    <2>1. n \in Nat /\ nodes[p].size + nodes[a].size + 1 \in Nat /\ nodes[p] \in Record
      BY <1>1, <1>2, NodeTypes
    <2>. HIDE DEF joined
    <2>2. Is(joined[p], nodes[p].size + nodes[a].size + 1, nodes[p].prev, n, nodes[p].used)
      BY ONLY <1>5, <1>2, <2>1 DEF Is, Record
    <2>. QED BY <1>1, <2>1, <2>2 DEF Is, Record
  <1>. HIDE DEF joined
  <1>7. DOMAIN rest = DOMAIN nodes \ {a} /\ \A b \in DOMAIN nodes \ {a} : rest[b] = joined[b]
    BY <1>5 DEF Without
  <1>8. rest = [b \in DOMAIN rest |-> rest[b]]
    BY DEF Without
  <1>9. nodes' = Back(rest, n, p)
    BY DEF MergeNode, joined
  <1>. HIDE DEF rest
  <1>10. \A b \in DOMAIN rest : rest[b] \in Record
    BY <1>5, <1>6, <1>7, NodeTypes DEF Is
  <1>11. NULL \notin DOMAIN rest /\ (n = NULL \/ n \in DOMAIN rest) /\ p \in Nat
    BY <1>2, <1>4, <1>7, NodeTypes
  <1>12. /\ DOMAIN nodes' = DOMAIN rest
         /\ \A b \in DOMAIN rest :
                Is(nodes'[b], rest[b].size, IF b = n THEN p ELSE rest[b].prev,
                   rest[b].next, rest[b].used)
    BY ONLY <1>8, <1>9, <1>10, <1>11, BackAll
  <1>13. nodes' = [b \in DOMAIN nodes' |-> nodes'[b]]
    BY <1>8, <1>9 DEF Back
  <1>14. Is(nodes'[p], nodes[p].size + nodes[a].size + 1, nodes[p].prev, n, FALSE)
    <2>1. p \in DOMAIN rest /\ rest[p] = joined[p] /\ p # n
      <3>1. p # n
        BY <1>1, <1>2, <1>3, <1>4, NodeTypes
      <3>. QED BY ONLY <1>2, <1>3, <1>7, <3>1
    <2>. QED BY <1>6, <1>12, <2>1 DEF Is
  <1>15. ASSUME NEW b \in DOMAIN nodes', b # p
         PROVE  Is(nodes'[b], nodes[b].size, IF b = n THEN p ELSE nodes[b].prev,
                   nodes[b].next, nodes[b].used)
    BY <1>5, <1>7, <1>12, <1>15 DEF Is
  <1>. QED BY <1>1, <1>2, <1>3, <1>4, <1>7, <1>12, <1>13, <1>14, <1>15 DEF Is

LEMMA AppendNodes ==
    ASSUME HeapInv, AppendNode, NEW a, a = walk.node, NEW new, new = End(a)
    PROVE  /\ a \in DOMAIN nodes /\ new \in Nat /\ new \notin DOMAIN nodes /\ a < new
           /\ nodes[a].next = NULL /\ walk.size \in Nat
           /\ DOMAIN nodes' = DOMAIN nodes \cup {new}
           /\ nodes' = [b \in DOMAIN nodes' |-> nodes'[b]]
           /\ Is(nodes'[a], nodes[a].size, nodes[a].prev, new, nodes[a].used)
           /\ Is(nodes'[new], walk.size, a, NULL, TRUE)
           /\ \A b \in DOMAIN nodes : b # a => nodes'[b] = nodes[b]
  <1>1. a \in DOMAIN nodes /\ nodes[a].next = NULL /\ walk.size \in Nat
    BY DEF HeapInv, HeapTypeOK, AppendNode, NULL
  <1>2. new \in Nat /\ a < new
    BY <1>1, NodeTypes
  <1>3. new \notin DOMAIN nodes
    BY <1>1, <1>2, NodeTypes DEF HeapInv, Chained
  <1>. DEFINE last == Header(walk.size, a, NULL, TRUE)
              all == With(nodes, new, last)
  <1>4. Is(last, walk.size, a, NULL, TRUE)
    BY <1>1, NodeTypes DEF Is, Header, Record, NULL
  <1>5. nodes' = [all EXCEPT ![a].next = new]
    BY DEF AppendNode
  <1>. HIDE DEF last
  <1>6. DOMAIN all = DOMAIN nodes \cup {new} /\ all[new] = last
        /\ \A b \in DOMAIN nodes : all[b] = nodes[b]
    BY <1>3 DEF With
  <1>. HIDE DEF all
  <1>7. /\ DOMAIN nodes' = DOMAIN nodes \cup {new}
        /\ nodes' = [b \in DOMAIN nodes' |-> nodes'[b]]
        /\ nodes'[a] = [nodes[a] EXCEPT !.next = new]
        /\ nodes'[new] = last
        /\ \A b \in DOMAIN nodes : b # a => nodes'[b] = nodes[b]
    BY <1>1, <1>2, <1>3, <1>5, <1>6, NodeTypes
  <1>8. Is(nodes'[a], nodes[a].size, nodes[a].prev, new, nodes[a].used)
    BY <1>1, <1>2, <1>7, NodeTypes DEF Is, Record
  <1>. QED BY <1>1, <1>2, <1>3, <1>4, <1>7, <1>8

-----------------------------------------------------------------------------
\* Blocks handed out: those that were, and the new one.
LEMMA HeldAll ==
    ASSUME HeapInv, NEW a \in Nat, NEW size \in Nat, held' = With(held, a + 1, size)
    PROVE  /\ DOMAIN held' = DOMAIN held \cup {a + 1} /\ held'[a + 1] = size
           /\ \A b \in DOMAIN held : b # a + 1 => held'[b] = held[b]
           /\ DOMAIN held' \subseteq Nat /\ held' \in [DOMAIN held' -> Nat]
BY DEF With, HeapInv, HeapTypeOK

\* A block in a node nobody held: the used nodes are still the blocks held.
LEMMA UsedKept ==
    ASSUME HeapInv, NEW a \in Nat, NEW size \in Nat, held' = With(held, a + 1, size),
           a \notin DOMAIN nodes \/ ~nodes[a].used,
           a \in DOMAIN nodes', nodes'[a].used, size <= nodes'[a].size,
           \A b \in DOMAIN nodes : b # a =>
             /\ b \in DOMAIN nodes' /\ nodes'[b].used = nodes[b].used
             /\ nodes'[b].size = nodes[b].size,
           \A b \in DOMAIN nodes' : nodes'[b].used => b = a \/ b \in DOMAIN nodes
    PROVE  UsedIsHeld'
  <1>1. /\ DOMAIN held' = DOMAIN held \cup {a + 1} /\ held'[a + 1] = size
        /\ \A b \in DOMAIN held : b # a + 1 => held'[b] = held[b]
    BY HeldAll
  <1>2. ASSUME NEW b \in DOMAIN held
        PROVE  /\ b \in Nat /\ b - 1 \in DOMAIN nodes /\ nodes[b - 1].used
               /\ held[b] <= nodes[b - 1].size /\ b - 1 # a
    BY DEF HeapInv, HeapTypeOK, UsedIsHeld
  <1>3. ASSUME NEW b \in DOMAIN held'
        PROVE  b - 1 \in DOMAIN nodes' /\ nodes'[b - 1].used /\ held'[b] <= nodes'[b - 1].size
    <2>1. CASE b = a + 1
      <3>1. b - 1 = a
        BY <2>1
      <3>. QED BY <1>1, <2>1, <3>1
    <2>2. CASE b \in DOMAIN held /\ b # a + 1
      BY <1>1, <1>2, <2>2
    <2>. QED BY <1>1, <2>1, <2>2
  <1>4. ASSUME NEW b \in DOMAIN nodes', nodes'[b].used
        PROVE  b + 1 \in DOMAIN held'
    BY <1>1, <1>4 DEF HeapInv, UsedIsHeld
  <1>. QED BY <1>3, <1>4 DEF UsedIsHeld

LEMMA RestingType ==
    ASSUME walk' = Resting
    PROVE  /\ walk' \in [call : {"none", "malloc", "free", "monitor"}, node : Nat,
                          size : Nat, used : Nat, total : Nat]
           /\ walk'.node = NULL /\ walk'.call = "none"
BY DEF Resting, NULL

\* What the invariant says of the chain, field by field.
LEMMA ChainFacts ==
    ASSUME HeapInv
    PROVE  /\ \A b \in DOMAIN nodes : b >= Start
           /\ \A b \in DOMAIN nodes : nodes[b].prev = NULL => b = Start
           /\ \A b \in DOMAIN nodes : nodes[b].prev # NULL =>
                nodes[b].prev \in DOMAIN nodes /\ nodes[nodes[b].prev].next = b
           /\ \A b, c \in DOMAIN nodes : nodes[b].next = NULL => c <= b
           /\ \A b \in DOMAIN nodes : nodes[b].next # NULL =>
                /\ nodes[b].next \in DOMAIN nodes /\ nodes[nodes[b].next].prev = b
                /\ nodes[b].next = b + 1 + nodes[b].size /\ b < nodes[b].next
           /\ \A b, c \in DOMAIN nodes : b < c => b + 1 + nodes[b].size <= c
BY NodeTypes DEF HeapInv, Chained, NodesApart, End

LEMMA SplitKeeps ==
    ASSUME HeapInv, SplitNode, NEW a, a = walk.node, NEW new, new = a + 1 + walk.size
    PROVE  HeapInv'
  <1>1. /\ a \in DOMAIN nodes /\ new \in Nat /\ new \notin DOMAIN nodes
        /\ a < new /\ new < End(a) /\ walk.size \in Nat /\ Spare - 1 \in Nat
        /\ DOMAIN nodes' = DOMAIN nodes \cup {new}
        /\ nodes' = [b \in DOMAIN nodes' |-> nodes'[b]]
        /\ Is(nodes'[a], walk.size, nodes[a].prev, new, TRUE)
        /\ Is(nodes'[new], Spare - 1, a, nodes[a].next, FALSE)
        /\ \A b \in DOMAIN nodes : b # a =>
             Is(nodes'[b], nodes[b].size, IF b = nodes[a].next THEN new ELSE nodes[b].prev,
                nodes[b].next, nodes[b].used)
    BY SplitNodes
  <1>2. held' = With(held, a + 1, walk.size) /\ walk' = Resting /\ first' = first /\ first # NULL
        /\ ~nodes[a].used /\ Spare = nodes[a].size - walk.size
    BY DEF SplitNode, Handed, Fits, Spare
  <1>3. /\ a \in Nat /\ nodes[a].size \in Nat /\ End(a) = a + 1 + nodes[a].size
        /\ nodes'[a].prev = nodes[a].prev /\ nodes'[a].next = new /\ nodes'[a].used
        /\ nodes'[new].prev = a /\ nodes'[new].next = nodes[a].next /\ ~nodes'[new].used
        /\ nodes'[a].size = walk.size /\ nodes'[new].size = nodes[a].size - walk.size - 1
        /\ \A b \in DOMAIN nodes : b # a =>
             /\ nodes'[b].size = nodes[b].size /\ nodes'[b].next = nodes[b].next
             /\ nodes'[b].used = nodes[b].used
             /\ b = nodes[a].next => nodes'[b].prev = new
             /\ b # nodes[a].next => nodes'[b].prev = nodes[b].prev
    BY <1>1, <1>2, NodeTypes DEF Is
  <1>4. HeapTypeOK'
    <2>1. DOMAIN nodes' \subseteq Nat /\ nodes' \in [DOMAIN nodes' -> Record]
      BY <1>1, NodeTypes DEF Is
    <2>. QED BY <1>1, <1>2, <2>1, HeldAll, RestingType, NodeTypes DEF HeapInv, HeapTypeOK
  <1>5. new + 1 + nodes'[new].size = a + 1 + nodes[a].size /\ a + 1 + nodes'[a].size = new
    BY <1>1, <1>3
  <1>6. ASSUME NEW b \in DOMAIN nodes', NEW c \in DOMAIN nodes', b < c
        PROVE  b + 1 + nodes'[b].size <= c
    BY <1>1, <1>3, <1>5, <1>6, ChainFacts, NodeTypes
  <1>7. ASSUME NEW b \in DOMAIN nodes'
        PROVE  /\ b >= Start
               /\ IF nodes'[b].prev = NULL THEN b = Start
                  ELSE nodes'[b].prev \in DOMAIN nodes' /\ nodes'[nodes'[b].prev].next = b
               /\ IF nodes'[b].next = NULL THEN \A c \in DOMAIN nodes' : c <= b
                  ELSE /\ nodes'[b].next = b + 1 + nodes'[b].size /\ nodes'[b].next \in DOMAIN nodes'
                       /\ nodes'[nodes'[b].next].prev = b
    <2>1. CASE b = new
      BY <1>1, <1>3, <1>5, <2>1, NodeTypes, HeapAssumption, ChainFacts DEF NULL
    <2>2. CASE b = a
      BY <1>1, <1>3, <1>5, <2>2, NodeTypes, HeapAssumption, ChainFacts DEF NULL
    <2>3. CASE b \in DOMAIN nodes /\ b # a
      BY <1>1, <1>3, <1>5, <2>3, NodeTypes, HeapAssumption, ChainFacts DEF NULL
    <2>. QED BY <1>1, <2>1, <2>2, <2>3
  <1>8. Chained' /\ NodesApart'
    BY <1>1, <1>2, <1>6, <1>7 DEF Chained, NodesApart, End, HeapInv
  <1>9. UsedIsHeld'
    BY <1>1, <1>2, <1>3, UsedKept
  <1>. QED BY <1>2, <1>4, <1>8, <1>9, RestingType DEF HeapInv, WalkStarted

LEMMA FirstKeeps ==
    ASSUME HeapInv, FirstNode
    PROVE  HeapInv'
  <1>1. DOMAIN nodes = {} /\ walk.size \in Nat /\ Start \in Nat /\ Start > 0
    BY HeapAssumption DEF HeapInv, HeapTypeOK, Chained, FirstNode
  <1>2. first' = Start /\ held' = With(held, Start + 1, walk.size) /\ walk' = Resting
    BY DEF FirstNode, Handed
  <1>3. /\ DOMAIN nodes' = {Start} /\ nodes' = [b \in DOMAIN nodes' |-> nodes'[b]]
        /\ nodes'[Start] = Header(walk.size, NULL, NULL, TRUE)
    BY <1>1 DEF FirstNode, With
  <1>4. /\ nodes'[Start] \in Record /\ nodes'[Start].size = walk.size
        /\ nodes'[Start].prev = NULL /\ nodes'[Start].next = NULL /\ nodes'[Start].used
    BY <1>1, <1>3 DEF Header, Record, NULL
  <1>5. DOMAIN nodes' \subseteq Nat /\ nodes' \in [DOMAIN nodes' -> Record]
    BY <1>1, <1>3, <1>4
  <1>6. HeapTypeOK'
    BY <1>1, <1>2, <1>5, HeldAll, RestingType DEF HeapInv, HeapTypeOK
  <1>7. Chained' /\ NodesApart'
    <2>1. DOMAIN nodes' = {Start} /\ first' # NULL /\ \A b \in DOMAIN nodes' : b = Start
      BY <1>1, <1>2, <1>3 DEF NULL
    <2>. QED BY ONLY <1>1, <1>2, <1>4, <2>1 DEF Chained, NodesApart
  <1>8. UsedIsHeld'
    <2>1. /\ \A b \in DOMAIN nodes : FALSE
          /\ \A b \in DOMAIN nodes' : b = Start
          /\ Start \in DOMAIN nodes'
      BY <1>1, <1>3
    <2>2. walk.size <= nodes'[Start].size
      BY <1>1, <1>4
    <2>. QED BY <1>1, <1>2, <1>4, <2>1, <2>2, UsedKept
  <1>. QED BY <1>2, <1>6, <1>7, <1>8, RestingType DEF HeapInv, WalkStarted

LEMMA TakeKeeps ==
    ASSUME HeapInv, TakeNode, NEW a, a = walk.node
    PROVE  HeapInv'
  <1>1. /\ a \in DOMAIN nodes /\ walk.size \in Nat /\ ~nodes[a].used /\ walk.size <= nodes[a].size
        /\ first' = first /\ held' = With(held, a + 1, walk.size) /\ walk' = Resting
    BY DEF TakeNode, HeapInv, HeapTypeOK, NULL, Fits, Handed
  <1>2. DOMAIN nodes' = DOMAIN nodes /\ nodes' \in [DOMAIN nodes' -> Record]
    BY <1>1, NodeTypes DEF TakeNode, HeapInv, HeapTypeOK, Record
  <1>3. /\ nodes'[a].used
        /\ \A b \in DOMAIN nodes :
             /\ nodes'[b].size = nodes[b].size /\ nodes'[b].prev = nodes[b].prev
             /\ nodes'[b].next = nodes[b].next /\ (b # a => nodes'[b].used = nodes[b].used)
    BY <1>1, NodeTypes DEF TakeNode, HeapInv, HeapTypeOK, Record
  <1>4. HeapTypeOK'
    BY <1>1, <1>2, HeldAll, RestingType, NodeTypes DEF HeapInv, HeapTypeOK
  <1>5. Chained' /\ NodesApart'
    BY <1>1, <1>2, <1>3 DEF HeapInv, Chained, NodesApart, End
  <1>6. UsedIsHeld'
    BY <1>1, <1>2, <1>3, NodeTypes, UsedKept
  <1>. QED BY <1>1, <1>4, <1>5, <1>6, RestingType DEF HeapInv, WalkStarted

LEMMA AppendKeeps ==
    ASSUME HeapInv, AppendNode, NEW a, a = walk.node, NEW new, new = End(a)
    PROVE  HeapInv'
  <1>1. /\ a \in DOMAIN nodes /\ new \in Nat /\ new \notin DOMAIN nodes /\ a < new
        /\ nodes[a].next = NULL /\ walk.size \in Nat
        /\ DOMAIN nodes' = DOMAIN nodes \cup {new}
        /\ nodes' = [b \in DOMAIN nodes' |-> nodes'[b]]
        /\ Is(nodes'[a], nodes[a].size, nodes[a].prev, new, nodes[a].used)
        /\ Is(nodes'[new], walk.size, a, NULL, TRUE)
        /\ \A b \in DOMAIN nodes : b # a => nodes'[b] = nodes[b]
    BY AppendNodes
  <1>2. held' = With(held, new + 1, walk.size) /\ walk' = Resting /\ first' = first /\ first # NULL
        /\ new = a + 1 + nodes[a].size
    BY DEF AppendNode, Handed, End
  <1>3. /\ a \in Nat /\ nodes[a].size \in Nat
        /\ nodes'[a].prev = nodes[a].prev /\ nodes'[a].next = new /\ nodes'[a].used = nodes[a].used
        /\ nodes'[new].prev = a /\ nodes'[new].next = NULL /\ nodes'[new].used
        /\ nodes'[a].size = nodes[a].size /\ nodes'[new].size = walk.size
    BY <1>1, <1>2, NodeTypes DEF Is
  <1>4. HeapTypeOK'
    <2>1. DOMAIN nodes' \subseteq Nat /\ nodes' \in [DOMAIN nodes' -> Record]
      BY <1>1, NodeTypes DEF Is
    <2>. QED BY <1>1, <1>2, <2>1, HeldAll, RestingType, NodeTypes DEF HeapInv, HeapTypeOK
  <1>5. ASSUME NEW b \in DOMAIN nodes', NEW c \in DOMAIN nodes', b < c
        PROVE  b + 1 + nodes'[b].size <= c
    BY <1>1, <1>2, <1>3, <1>5, ChainFacts, NodeTypes
  <1>6. ASSUME NEW b \in DOMAIN nodes'
        PROVE  /\ b >= Start
               /\ IF nodes'[b].prev = NULL THEN b = Start
                  ELSE nodes'[b].prev \in DOMAIN nodes' /\ nodes'[nodes'[b].prev].next = b
               /\ IF nodes'[b].next = NULL THEN \A c \in DOMAIN nodes' : c <= b
                  ELSE /\ nodes'[b].next = b + 1 + nodes'[b].size /\ nodes'[b].next \in DOMAIN nodes'
                       /\ nodes'[nodes'[b].next].prev = b
    <2>1. CASE b = new
      BY <1>1, <1>3, <2>1, NodeTypes, HeapAssumption, ChainFacts DEF NULL
    <2>2. CASE b = a
      BY <1>1, <1>2, <1>3, <2>2, NodeTypes, HeapAssumption, ChainFacts DEF NULL
    <2>3. CASE b \in DOMAIN nodes /\ b # a
      BY <1>1, <1>3, <2>3, NodeTypes, HeapAssumption, ChainFacts DEF NULL
    <2>. QED BY <1>1, <2>1, <2>2, <2>3
  <1>7. Chained' /\ NodesApart'
    BY <1>1, <1>2, <1>5, <1>6 DEF Chained, NodesApart, End, HeapInv
  <1>8. UsedIsHeld'
    BY <1>1, <1>2, <1>3, UsedKept
  <1>. QED BY <1>2, <1>4, <1>7, <1>8, RestingType DEF HeapInv, WalkStarted

LEMMA FreeKeeps ==
    ASSUME HeapInv, Free
    PROVE  /\ HeapInv'
           /\ DOMAIN nodes' = DOMAIN nodes
           /\ \A b \in DOMAIN nodes : nodes'[b].next = nodes[b].next
  <1>1. PICK h \in DOMAIN held : /\ nodes' = [nodes EXCEPT ![h - 1].used = FALSE]
                                /\ held' = Without(held, h)
    BY DEF Free
  <1>2. walk' = [Resting EXCEPT !.call = "free", !.node = first] /\ first' = first
    BY DEF Free
  <1>3. h \in Nat /\ h - 1 \in DOMAIN nodes
    BY DEF HeapInv, HeapTypeOK, UsedIsHeld
  <1>4. DOMAIN nodes' = DOMAIN nodes /\ nodes' \in [DOMAIN nodes' -> Record]
    BY <1>1, <1>3, NodeTypes DEF HeapInv, HeapTypeOK, Record
  <1>5. /\ ~nodes'[h - 1].used
        /\ \A b \in DOMAIN nodes :
             /\ nodes'[b].size = nodes[b].size /\ nodes'[b].prev = nodes[b].prev
             /\ nodes'[b].next = nodes[b].next /\ (b # h - 1 => nodes'[b].used = nodes[b].used)
    BY <1>1, <1>3, NodeTypes DEF HeapInv, HeapTypeOK, Record
  <1>6. /\ DOMAIN held' = DOMAIN held \ {h}
        /\ \A b \in DOMAIN held' : held'[b] = held[b]
        /\ held' \in [DOMAIN held' -> Nat] /\ DOMAIN held' \subseteq Nat
    BY <1>1 DEF Without, HeapInv, HeapTypeOK
  <1>7. first # NULL /\ first \in DOMAIN nodes /\ first \in Nat
    BY <1>3, NodeTypes DEF HeapInv, Chained
  <1>8. /\ walk'.call = "free" /\ walk'.node = first
        /\ walk' \in [call : {"none", "malloc", "free", "monitor"}, node : Nat,
                      size : Nat, used : Nat, total : Nat]
    BY <1>2, <1>7 DEF Resting
  <1>9. HeapTypeOK'
    <2>1. first' \in {NULL, Start} /\ DOMAIN nodes' \subseteq Nat
      BY <1>2, <1>4 DEF HeapInv, HeapTypeOK
    <2>2. walk'.node # NULL => walk'.node \in DOMAIN nodes'
      BY <1>4, <1>7, <1>8
    <2>. QED BY <1>4, <1>6, <1>8, <2>1, <2>2 DEF HeapTypeOK
  <1>10. Chained' /\ NodesApart'
    BY <1>2, <1>4, <1>5 DEF HeapInv, Chained, NodesApart, End
  <1>11. UsedIsHeld'
    <2>1. ASSUME NEW b \in DOMAIN held'
          PROVE  b - 1 \in DOMAIN nodes' /\ nodes'[b - 1].used /\ held'[b] <= nodes'[b - 1].size
      <3>1. b \in DOMAIN held /\ b # h /\ b \in Nat /\ held'[b] = held[b]
        BY <1>6, <2>1 DEF HeapInv, HeapTypeOK
      <3>2. b - 1 \in DOMAIN nodes /\ nodes[b - 1].used /\ held[b] <= nodes[b - 1].size
        BY <3>1 DEF HeapInv, UsedIsHeld
      <3>3. b - 1 # h - 1
        BY <1>3, <3>1
      <3>. QED BY <1>4, <1>5, <3>1, <3>2, <3>3
    <2>2. ASSUME NEW b \in DOMAIN nodes', nodes'[b].used
          PROVE  b + 1 \in DOMAIN held'
      <3>1. b # h - 1
        BY <1>5, <2>2
      <3>2. nodes[b].used /\ b \in DOMAIN nodes /\ b \in Nat
        BY <1>4, <1>5, <2>2, <3>1, NodeTypes
      <3>3. b + 1 \in DOMAIN held
        BY <3>2 DEF HeapInv, UsedIsHeld
      <3>4. b + 1 # h
        BY <1>3, <3>1, <3>2
      <3>. QED BY <1>6, <3>3, <3>4
    <2>. QED BY <2>1, <2>2 DEF UsedIsHeld
  <1>. QED BY <1>4, <1>5, <1>8, <1>9, <1>10, <1>11 DEF HeapInv, WalkStarted

LEMMA MergeKeeps ==
    ASSUME HeapInv, MergeNode,
           NEW a, a = walk.node, NEW p, p = nodes[a].prev, NEW n, n = nodes[a].next
    PROVE  HeapInv'
  <1>1. /\ a \in DOMAIN nodes /\ p \in DOMAIN nodes /\ p < a /\ End(p) = a
        /\ n = NULL \/ (n \in DOMAIN nodes /\ a < n)
        /\ ~nodes[a].used /\ ~nodes[p].used
        /\ DOMAIN nodes' = DOMAIN nodes \ {a}
    BY MergeNodes
  <1>0. /\ nodes' = [b \in DOMAIN nodes' |-> nodes'[b]]
        /\ Is(nodes'[p], nodes[p].size + nodes[a].size + 1, nodes[p].prev, n, FALSE)
        /\ \A b \in DOMAIN nodes' : b # p =>
             Is(nodes'[b], nodes[b].size, IF b = n THEN p ELSE nodes[b].prev,
                nodes[b].next, nodes[b].used)
    BY MergeNodes
  <1>2. /\ walk' = [walk EXCEPT !.node = n] /\ first' = first /\ held' = held
        /\ walk.call = "free" /\ n = nodes[a].next
    BY DEF MergeNode
  <1>3. /\ a \in Nat /\ p \in Nat /\ nodes[a].size \in Nat /\ nodes[p].size \in Nat
        /\ a = p + 1 + nodes[p].size
        /\ nodes'[p].size = nodes[p].size + nodes[a].size + 1
        /\ nodes'[p].prev = nodes[p].prev /\ nodes'[p].next = n /\ ~nodes'[p].used
        /\ \A b \in DOMAIN nodes' : b # p =>
             /\ nodes'[b].size = nodes[b].size /\ nodes'[b].next = nodes[b].next
             /\ nodes'[b].used = nodes[b].used
             /\ b = n => nodes'[b].prev = p
             /\ b # n => nodes'[b].prev = nodes[b].prev
    BY <1>0, <1>1, <1>2, NodeTypes DEF Is
  <1>11. /\ \A b \in DOMAIN nodes : b >= Start
         /\ \A b \in DOMAIN nodes : nodes[b].prev = NULL => b = Start
         /\ \A b \in DOMAIN nodes : nodes[b].prev # NULL =>
              nodes[b].prev \in DOMAIN nodes /\ nodes[nodes[b].prev].next = b
         /\ \A b, c \in DOMAIN nodes : nodes[b].next = NULL => c <= b
         /\ \A b \in DOMAIN nodes : nodes[b].next # NULL =>
              /\ nodes[b].next \in DOMAIN nodes /\ nodes[nodes[b].next].prev = b
              /\ nodes[b].next = b + 1 + nodes[b].size /\ b < nodes[b].next
         /\ \A b, c \in DOMAIN nodes : b < c => b + 1 + nodes[b].size <= c
    BY ChainFacts
  <1>12. /\ NULL \notin DOMAIN nodes
         /\ \A b \in DOMAIN nodes : b \in Nat /\ nodes[b].size \in Nat
    BY NodeTypes
  <1>4. HeapTypeOK'
    <2>1. DOMAIN nodes' \subseteq Nat /\ nodes' \in [DOMAIN nodes' -> Record]
      BY <1>0, <1>1, NodeTypes DEF Is
    <2>2. /\ walk'.call = "free" /\ walk'.node = n
          /\ walk' \in [call : {"none", "malloc", "free", "monitor"}, node : Nat,
                        size : Nat, used : Nat, total : Nat]
      BY <1>1, <1>2, NodeTypes DEF HeapInv, HeapTypeOK
    <2>. QED BY <1>1, <1>2, <2>1, <2>2, NodeTypes DEF HeapInv, HeapTypeOK
  <1>5. p + 1 + nodes'[p].size = a + 1 + nodes[a].size
    BY ONLY <1>3
  <1>6. ASSUME NEW b \in DOMAIN nodes', NEW c \in DOMAIN nodes', b < c
        PROVE  b + 1 + nodes'[b].size <= c
    <2>1. b \in DOMAIN nodes /\ c \in DOMAIN nodes /\ b # a /\ c # a /\ b \in Nat /\ c \in Nat
      BY <1>1, NodeTypes
    <2>2. /\ b + 1 + nodes[b].size <= c
          /\ a < c => a + 1 + nodes[a].size <= c
          /\ c < a => p >= c
      BY ONLY <1>1, <1>3, <1>6, <1>11, <1>12, <2>1
    <2>. QED BY ONLY <1>3, <1>5, <1>6, <2>1, <2>2
  <1>7. ASSUME NEW b \in DOMAIN nodes'
        PROVE  /\ b >= Start
               /\ IF nodes'[b].prev = NULL THEN b = Start
                  ELSE nodes'[b].prev \in DOMAIN nodes' /\ nodes'[nodes'[b].prev].next = b
               /\ IF nodes'[b].next = NULL THEN \A c \in DOMAIN nodes' : c <= b
                  ELSE /\ nodes'[b].next = b + 1 + nodes'[b].size /\ nodes'[b].next \in DOMAIN nodes'
                       /\ nodes'[nodes'[b].next].prev = b
    <2>1. CASE b = p
      BY ONLY <1>1, <1>2, <1>3, <1>5, <1>7, <1>11, <1>12, <2>1, HeapAssumption DEF NULL
    <2>2. CASE b = n /\ b # p
      BY ONLY <1>1, <1>2, <1>3, <1>7, <1>11, <1>12, <2>2, HeapAssumption DEF NULL
    <2>3. CASE b # n /\ b # p
      BY ONLY <1>1, <1>2, <1>3, <1>7, <1>11, <1>12, <2>3, HeapAssumption DEF NULL
    <2>. QED BY <1>1, <2>1, <2>2, <2>3
  <1>8. Start \in DOMAIN nodes' /\ first' = Start /\ first # NULL
    <2>1. first # NULL /\ first = Start /\ Start \in DOMAIN nodes
      BY <1>1 DEF HeapInv, HeapTypeOK, Chained
    <2>. QED BY ONLY <1>1, <1>2, <1>3, <1>11, <1>12, <2>1, HeapAssumption
  <1>9. Chained' /\ NodesApart'
    BY <1>1, <1>2, <1>6, <1>7, <1>8 DEF Chained, NodesApart, End
  <1>10. UsedIsHeld'
    BY <1>1, <1>2, <1>3 DEF HeapInv, UsedIsHeld
  <1>. QED BY <1>2, <1>4, <1>8, <1>9, <1>10 DEF HeapInv, WalkStarted

\* The steps of a walk change nothing but the walk.
LEMMA WalkKeeps ==
    ASSUME HeapInv, UNCHANGED <<first, nodes, held>>,
           walk' \in [call : {"none", "malloc", "free", "monitor"}, node : Nat,
                      size : Nat, used : Nat, total : Nat],
           walk'.node # NULL => walk'.node \in DOMAIN nodes,
           walk'.call = "malloc" /\ walk'.node = NULL => first = NULL
    PROVE  HeapInv'
BY DEF HeapInv, HeapTypeOK, Chained, NodesApart, UsedIsHeld, WalkStarted, End

\* What the walk says of the nodes it has passed: unused neighbours are left to it,
\* and its count reaches to where it is.
Counted ==
    walk.call = "monitor" =>
        /\ first # NULL
        /\ walk.node # NULL => walk.used + walk.total = walk.node - Start
HeapIInv == HeapInv /\ Merged /\ Counted /\ MonitorCountsAll

LEMMA WalkSteps ==
    ASSUME HeapInv,
           Malloc \/ NextNode \/ PassNode \/ Freed \/ Monitor \/ CountNode \/ Monitored
    PROVE  HeapInv'
  <1>1. walk.call = "malloc" /\ first # NULL => walk.node # NULL
    BY DEF HeapInv, WalkStarted
  <1>2. first # NULL => first \in DOMAIN nodes
    BY DEF HeapInv, Chained
  <1>3. walk.node # NULL => walk.node \in DOMAIN nodes
    BY DEF HeapInv, HeapTypeOK
  <1>4. first \in Nat /\ Requests \subseteq Nat
    BY HeapAssumption DEF HeapInv, HeapTypeOK, NULL
  <1>5. CASE Malloc
    <2>1. PICK size \in Requests : walk' = [Resting EXCEPT !.call = "malloc", !.node = first, !.size = size]
      BY <1>5 DEF Malloc
    <2>2. /\ walk' \in [call : {"none", "malloc", "free", "monitor"}, node : Nat,
                        size : Nat, used : Nat, total : Nat]
          /\ walk'.node = first
      BY <1>4, <2>1 DEF Resting
    <2>. QED BY <1>2, <1>5, <2>2, WalkKeeps DEF Malloc
  <1>6. CASE NextNode \/ PassNode \/ CountNode
    <2>1. walk.node \in DOMAIN nodes
      BY <1>1, <1>3, <1>6 DEF NextNode, PassNode, CountNode
    <2>2. /\ nodes[walk.node].next \in Nat /\ nodes[walk.node].size \in Nat
          /\ nodes[walk.node].next # NULL => nodes[walk.node].next \in DOMAIN nodes
      BY <2>1, NodeTypes, ChainFacts
    <2>3. CASE NextNode \/ PassNode
      <3>1. walk' = [walk EXCEPT !.node = nodes[walk.node].next]
        BY <2>3 DEF NextNode, PassNode
      <3>2. /\ walk' \in [call : {"none", "malloc", "free", "monitor"}, node : Nat,
                          size : Nat, used : Nat, total : Nat]
            /\ walk'.node = nodes[walk.node].next /\ walk'.call = walk.call
        BY <2>2, <3>1 DEF HeapInv, HeapTypeOK
      <3>. QED BY <2>2, <2>3, <3>2, WalkKeeps DEF NextNode, PassNode
    <2>4. CASE CountNode
      <3>1. /\ walk' \in [call : {"none", "malloc", "free", "monitor"}, node : Nat,
                          size : Nat, used : Nat, total : Nat]
            /\ walk'.node = nodes[walk.node].next /\ walk'.call = "monitor"
        <4>. DEFINE size == nodes[walk.node].size + 1
                    used == IF nodes[walk.node].used THEN walk.used + size ELSE walk.used
                    total == IF nodes[walk.node].used THEN walk.total ELSE walk.total + size
        <4>1. used \in Nat /\ total \in Nat
          BY <2>2 DEF HeapInv, HeapTypeOK
        <4>2. /\ walk' = [walk EXCEPT !.node = nodes[walk.node].next, !.used = used, !.total = total]
              /\ walk.call = "monitor"
          BY <2>4 DEF CountNode
        <4>. HIDE DEF used, total
        <4>. QED BY <2>2, <4>1, <4>2 DEF HeapInv, HeapTypeOK
      <3>. QED BY <2>2, <2>4, <3>1, WalkKeeps DEF CountNode
    <2>. QED BY <1>6, <2>3, <2>4
  <1>7. CASE Freed \/ Monitored
    BY <1>7, WalkKeeps, RestingType DEF Freed, Monitored
  <1>8. CASE Monitor
    <2>1. /\ walk' \in [call : {"none", "malloc", "free", "monitor"}, node : Nat,
                        size : Nat, used : Nat, total : Nat]
          /\ walk'.node = first /\ walk'.call = "monitor"
      BY <1>4, <1>8 DEF Monitor, Resting
    <2>. QED BY <1>2, <1>8, <2>1, WalkKeeps DEF Monitor
  <1>. QED BY <1>5, <1>6, <1>7, <1>8

LEMMA HeapInvStep ==
    ASSUME HeapInv, HeapNext
    PROVE  HeapInv'
  <1>. DEFINE a == walk.node
  <1>1. CASE FirstNode
    BY <1>1, FirstKeeps
  <1>2. CASE SplitNode
    BY <1>2, SplitKeeps
  <1>3. CASE TakeNode
    BY <1>3, TakeKeeps
  <1>4. CASE AppendNode
    BY <1>4, AppendKeeps
  <1>5. CASE Free
    BY <1>5, FreeKeeps
  <1>6. CASE MergeNode
    BY <1>6, MergeKeeps
  <1>7. CASE Malloc \/ NextNode \/ PassNode \/ Freed \/ Monitor \/ CountNode \/ Monitored
    BY <1>7, WalkSteps
  <1>. QED BY <1>1, <1>2, <1>3, <1>4, <1>5, <1>6, <1>7 DEF HeapNext

LEMMA HeapInvInit ==
    ASSUME HeapInit
    PROVE  HeapInv
  <1>1. DOMAIN nodes = {} /\ DOMAIN held = {}
    BY DEF HeapInit
  <1>2. nodes = [b \in {} |-> {}] /\ held = [b \in {} |-> {}]
    BY DEF HeapInit
  <1>3. /\ walk \in [call : {"none", "malloc", "free", "monitor"}, node : Nat,
                      size : Nat, used : Nat, total : Nat]
        /\ walk.node = NULL /\ walk.call = "none" /\ first = NULL
    BY DEF HeapInit, Resting, NULL
  <1>4. HeapTypeOK
    BY <1>1, <1>2, <1>3 DEF HeapTypeOK
  <1>. QED BY <1>1, <1>3, <1>4 DEF HeapInv, Chained, NodesApart, UsedIsHeld, WalkStarted

\* Splitting, taking and appending leave no two unused neighbours that were not there.
LEMMA MergedMalloc ==
    ASSUME HeapInv, Merged, FirstNode \/ SplitNode \/ TakeNode \/ AppendNode
    PROVE  Merged'
  <1>1. ASSUME NEW b \in DOMAIN nodes, ~nodes[b].used, nodes[b].next # NULL
        PROVE  nodes[nodes[b].next].used /\ nodes[b].next \in DOMAIN nodes
    BY <1>1, ChainFacts DEF Merged, FirstNode, SplitNode, TakeNode, AppendNode
  <1>2. CASE FirstNode
    <2>1. DOMAIN nodes = {}
      BY <1>2 DEF HeapInv, Chained, FirstNode
    <2>2. DOMAIN nodes' = {Start} /\ nodes'[Start] = Header(walk.size, NULL, NULL, TRUE)
      BY <1>2, <2>1 DEF FirstNode, With
    <2>3. nodes'[Start].used
      BY <2>2 DEF Header
    <2>. QED BY <2>2, <2>3 DEF Merged
  <1>3. CASE SplitNode
    <2>1. PICK a, new : a = walk.node /\ new = a + 1 + walk.size
      OBVIOUS
    <2>2. /\ a \in DOMAIN nodes /\ new \notin DOMAIN nodes
          /\ DOMAIN nodes' = DOMAIN nodes \cup {new}
          /\ Is(nodes'[a], walk.size, nodes[a].prev, new, TRUE)
          /\ Is(nodes'[new], Spare - 1, a, nodes[a].next, FALSE)
          /\ \A b \in DOMAIN nodes : b # a =>
               Is(nodes'[b], nodes[b].size, IF b = nodes[a].next THEN new ELSE nodes[b].prev,
                  nodes[b].next, nodes[b].used)
      BY <1>3, <2>1, SplitNodes
    <2>3. /\ nodes'[a].used /\ nodes'[new].next = nodes[a].next /\ ~nodes[a].used
          /\ \A b \in DOMAIN nodes : b # a =>
               nodes'[b].next = nodes[b].next /\ nodes'[b].used = nodes[b].used
      BY <1>3, <2>1, <2>2 DEF Is, SplitNode, Fits
    <2>4. ASSUME NEW b \in DOMAIN nodes', ~nodes'[b].used, nodes'[b].next # NULL
          PROVE  nodes'[nodes'[b].next].used
      <3>1. CASE b = new
        BY <1>1, <2>2, <2>3, <2>4, <3>1
      <3>2. CASE b \in DOMAIN nodes /\ b # a
        BY <1>1, <2>2, <2>3, <2>4, <3>2
      <3>. QED BY <2>2, <2>3, <2>4, <3>1, <3>2
    <2>. QED BY <2>4 DEF Merged
  <1>4. CASE TakeNode
    <2>1. walk.node \in DOMAIN nodes
      BY <1>4 DEF TakeNode, HeapInv, HeapTypeOK, NULL
    <2>2. /\ DOMAIN nodes' = DOMAIN nodes
          /\ \A b \in DOMAIN nodes :
               nodes'[b].next = nodes[b].next /\ (nodes'[b].used = nodes[b].used \/ nodes'[b].used = TRUE)
      BY <1>4, <2>1, NodeTypes DEF TakeNode, HeapInv, HeapTypeOK, Record
    <2>. QED BY <1>1, <2>2 DEF Merged
  <1>5. CASE AppendNode
    <2>1. PICK a, new : a = walk.node /\ new = End(a)
      OBVIOUS
    <2>2. /\ a \in DOMAIN nodes /\ new \notin DOMAIN nodes
          /\ DOMAIN nodes' = DOMAIN nodes \cup {new}
          /\ Is(nodes'[a], nodes[a].size, nodes[a].prev, new, nodes[a].used)
          /\ Is(nodes'[new], walk.size, a, NULL, TRUE)
          /\ \A b \in DOMAIN nodes : b # a => nodes'[b] = nodes[b]
      BY <1>5, <2>1, AppendNodes
    <2>3. nodes'[a].next = new /\ nodes'[a].used = nodes[a].used /\ nodes'[new].used
      BY <2>2 DEF Is
    <2>4. ASSUME NEW b \in DOMAIN nodes', ~nodes'[b].used, nodes'[b].next # NULL
          PROVE  nodes'[nodes'[b].next].used
      <3>1. CASE b = a
        BY <2>3, <3>1
      <3>2. CASE b \in DOMAIN nodes /\ b # a
        BY <1>1, <2>2, <2>3, <2>4, <3>2
      <3>. QED BY <2>2, <2>3, <2>4, <3>1, <3>2
    <2>. QED BY <2>4 DEF Merged
  <1>. QED BY <1>2, <1>3, <1>4, <1>5

LEMMA MergedStep ==
    ASSUME HeapInv, Merged, HeapNext
    PROVE  Merged'
  <1>1. CASE FirstNode \/ SplitNode \/ TakeNode \/ AppendNode
    BY <1>1, MergedMalloc
  <1>2. CASE Malloc \/ NextNode \/ Freed \/ Monitor \/ CountNode \/ Monitored
    <2>1. (walk.call # "free" \/ walk.node = NULL) /\ nodes' = nodes
      BY <1>2 DEF Malloc, NextNode, Freed, Monitor, CountNode, Monitored
    <2>. QED BY <2>1 DEF Merged
  <1>3. CASE PassNode
    <2>1. PICK a \in DOMAIN nodes : a = walk.node /\ ~BothFree(a)
      BY <1>3 DEF PassNode, HeapInv, HeapTypeOK
    <2>2. walk'.node = nodes[a].next /\ walk'.call = "free" /\ nodes' = nodes
      BY <1>3, <2>1 DEF PassNode, HeapInv, HeapTypeOK
    <2>3. ASSUME NEW b \in DOMAIN nodes, ~nodes[b].used, nodes[b].next # NULL, ~nodes[nodes[b].next].used
          PROVE  nodes[a].next # NULL /\ nodes[a].next <= nodes[b].next
      <3>1. a <= nodes[b].next /\ nodes[b].next \in DOMAIN nodes /\ nodes[nodes[b].next].prev = b
        BY <2>1, <2>3, ChainFacts DEF Merged
      <3>2. a # nodes[b].next
        BY <2>1, <2>3, <3>1, NodeTypes DEF BothFree
      <3>3. a < nodes[b].next
        BY <3>1, <3>2, NodeTypes
      <3>. QED BY <3>1, <3>3, ChainFacts, NodeTypes
    <2>. QED BY <2>2, <2>3 DEF Merged
  <1>4. CASE Free
    <2>1. /\ HeapInv' /\ DOMAIN nodes' = DOMAIN nodes
          /\ \A b \in DOMAIN nodes : nodes'[b].next = nodes[b].next
      BY <1>4, FreeKeeps
    <2>2. first # NULL /\ walk'.call = "free" /\ walk'.node = first
      <3>1. DOMAIN nodes # {}
        BY <1>4 DEF Free, HeapInv, UsedIsHeld
      <3>. QED BY <1>4, <3>1 DEF Free, Resting, HeapInv, Chained
    <2>3. ASSUME NEW b \in DOMAIN nodes', nodes'[b].next # NULL
          PROVE  first <= nodes'[b].next
      BY <2>1, <2>2, <2>3, ChainFacts, HeapAssumption DEF HeapInv, HeapTypeOK
    <2>. QED BY <2>2, <2>3 DEF Merged
  <1>5. CASE MergeNode
    <2>1. PICK a, p, n : a = walk.node /\ p = nodes[a].prev /\ n = nodes[a].next
      OBVIOUS
    <2>2. /\ a \in DOMAIN nodes /\ p \in DOMAIN nodes /\ p < a /\ End(p) = a
          /\ n = NULL \/ (n \in DOMAIN nodes /\ a < n)
          /\ DOMAIN nodes' = DOMAIN nodes \ {a}
          /\ Is(nodes'[p], nodes[p].size + nodes[a].size + 1, nodes[p].prev, n, FALSE)
          /\ \A b \in DOMAIN nodes' : b # p =>
               Is(nodes'[b], nodes[b].size, IF b = n THEN p ELSE nodes[b].prev,
                  nodes[b].next, nodes[b].used)
      BY <1>5, <2>1, MergeNodes
    <2>3. /\ nodes'[p].next = n /\ ~nodes[p].used
          /\ \A b \in DOMAIN nodes' : b # p =>
               nodes'[b].next = nodes[b].next /\ nodes'[b].used = nodes[b].used
      BY <1>5, <2>1, <2>2 DEF Is, MergeNode, BothFree
    <2>4. walk'.node = n /\ walk'.call = "free"
      BY <1>5, <2>1 DEF MergeNode, HeapInv, HeapTypeOK
    <2>5. ASSUME NEW b \in DOMAIN nodes', ~nodes'[b].used, nodes'[b].next # NULL,
                 ~nodes'[nodes'[b].next].used
          PROVE  n # NULL /\ n <= nodes'[b].next
      <3>1. CASE b = p
        BY <2>2, <2>3, <2>5, <3>1, NodeTypes
      <3>2. CASE b # p
        <4>1. b \in DOMAIN nodes /\ b # a /\ ~nodes[b].used /\ nodes'[b].next = nodes[b].next
          BY <2>2, <2>3, <2>5, <3>2
        <4>2. nodes[b].next \in DOMAIN nodes /\ nodes[nodes[b].next].prev = b
          BY <2>5, <4>1, ChainFacts
        <4>3. nodes[b].next # a
          BY <2>1, <3>2, <4>2
        <4>4. ~nodes[nodes[b].next].used
          BY <2>2, <2>3, <2>5, <4>1, <4>2, <4>3
        <4>5. a <= nodes[b].next
          BY <2>1, <2>5, <4>1, <4>4 DEF Merged
        <4>6. a < nodes[b].next
          BY <2>2, <4>2, <4>3, <4>5, NodeTypes
        <4>. QED BY <2>1, <2>2, <4>1, <4>2, <4>6, ChainFacts, NodeTypes
      <3>. QED BY <3>1, <3>2
    <2>. QED BY <2>4, <2>5 DEF Merged
  <1>. QED BY <1>1, <1>2, <1>3, <1>4, <1>5 DEF HeapNext

LEMMA CountedStep ==
    ASSUME HeapInv, Counted, HeapNext
    PROVE  Counted' /\ MonitorCountsAll'
  <1>1. CASE CountNode
    <2>1. PICK a \in DOMAIN nodes : a = walk.node
      BY <1>1 DEF CountNode, HeapInv, HeapTypeOK
    <2>2. a \in Nat /\ nodes[a].size \in Nat /\ Start \in Nat
      BY NodeTypes, HeapAssumption
    <2>3. walk.used \in Nat /\ walk.total \in Nat /\ walk.used + walk.total = a - Start /\ first # NULL
      BY <1>1, <2>1 DEF CountNode, Counted, HeapInv, HeapTypeOK
    <2>4. /\ walk'.node = nodes[a].next
          /\ walk'.used + walk'.total = walk.used + walk.total + nodes[a].size + 1
      <3>. DEFINE size == nodes[walk.node].size + 1
      <3>1. walk' = [walk EXCEPT !.node = nodes[@].next,
                                 !.used = IF nodes[walk.node].used THEN @ + size ELSE @,
                                 !.total = IF nodes[walk.node].used THEN @ ELSE @ + size]
        BY <1>1 DEF CountNode
      <3>2. CASE nodes[walk.node].used
        BY <2>1, <2>2, <2>3, <3>1, <3>2 DEF HeapInv, HeapTypeOK
      <3>3. CASE ~nodes[walk.node].used
        BY <2>1, <2>2, <2>3, <3>1, <3>3 DEF HeapInv, HeapTypeOK
      <3>. QED BY <3>2, <3>3
    <2>5. walk'.used + walk'.total = a + 1 + nodes[a].size - Start
      BY <2>2, <2>3, <2>4
    <2>6. nodes' = nodes /\ first' = first
      BY <1>1 DEF CountNode
    <2>7. CASE nodes[a].next = NULL
      <3>1. End(a)' = a + 1 + nodes[a].size
        BY <2>6 DEF End
      <3>2. nodes'[a].next = NULL /\ a \in DOMAIN nodes' /\ walk'.node = NULL /\ first' # NULL
        BY <2>3, <2>4, <2>6, <2>7
      <3>3. MonitorCountsAll'
        BY <2>5, <2>6, <3>1, <3>2, <2>2 DEF MonitorCountsAll, End
      <3>. QED BY <3>2, <3>3 DEF Counted
    <2>8. CASE nodes[a].next # NULL
      <3>1. walk'.node = a + 1 + nodes[a].size /\ walk'.node # NULL /\ first' # NULL
        BY <2>3, <2>4, <2>6, <2>8, ChainFacts
      <3>2. walk'.used + walk'.total = walk'.node - Start
        BY <2>2, <2>5, <3>1
      <3>. QED BY <3>1, <3>2 DEF Counted, MonitorCountsAll
    <2>. QED BY <2>7, <2>8
  <1>2. CASE Monitor
    <2>1. /\ walk'.node = first /\ walk'.used = 0 /\ walk'.total = 0
          /\ first' = first /\ first # NULL /\ first = Start /\ Start \in Nat
      BY <1>2, HeapAssumption DEF Monitor, Resting, HeapInv, HeapTypeOK
    <2>. QED BY <2>1 DEF Counted, MonitorCountsAll
  <1>3. CASE HeapNext /\ ~CountNode /\ ~Monitor
    <2>1. walk'.call # "monitor"
      <3>1. CASE Malloc
        BY <3>1 DEF Malloc, Resting
      <3>2. CASE FirstNode \/ SplitNode \/ TakeNode \/ AppendNode \/ Freed \/ Monitored
        <4>1. walk' = Resting
          BY <3>2 DEF FirstNode, SplitNode, TakeNode, AppendNode, Handed, Freed, Monitored
        <4>. QED BY <4>1 DEF Resting
      <3>3. CASE NextNode \/ PassNode \/ MergeNode
        BY <3>3 DEF NextNode, PassNode, MergeNode, HeapInv, HeapTypeOK
      <3>4. CASE Free
        BY <3>4 DEF Free, Resting
      <3>. QED BY <1>3, <3>1, <3>2, <3>3, <3>4 DEF HeapNext
    <2>. QED BY <2>1 DEF Counted, MonitorCountsAll
  <1>. QED BY <1>1, <1>2, <1>3

LEMMA HeapAlways == HeapSpec => []HeapIInv
  <1>1. HeapInit => HeapIInv
    <2>1. HeapInit => DOMAIN nodes = {} /\ walk.call = "none"
      BY DEF HeapInit, Resting
    <2>. QED BY <2>1, HeapInvInit DEF HeapIInv, Merged, Counted, MonitorCountsAll
  <1>2. HeapIInv /\ [HeapNext]_heapVars => HeapIInv'
    <2>1. HeapIInv /\ HeapNext => HeapIInv'
      BY HeapInvStep, MergedStep, CountedStep DEF HeapIInv
    <2>2. HeapIInv /\ UNCHANGED heapVars => HeapIInv'
      BY DEF HeapIInv, HeapInv, HeapTypeOK, Chained, NodesApart, UsedIsHeld, WalkStarted, End,
             Merged, Counted, MonitorCountsAll, heapVars
    <2>. QED BY <2>1, <2>2
  <1>. QED BY <1>1, <1>2, PTL DEF HeapSpec

\* After any calls of malloc and free the nodes are one chain from the start to the end
\* with no gap, no header lies in a block, and the used nodes are the blocks held
\* (heap.c:27-122).
THEOREM HeapStaysWhole == HeapSpec => []HeapInv
BY HeapAlways, PTL DEF HeapIInv

\* free leaves no two unused nodes side by side (heap.c:104-120).
THEOREM FreedIsMerged == HeapSpec => []Merged
BY HeapAlways, PTL DEF HeapIInv

\* heap_monitor counts every node once (heap.c:175-195).
THEOREM MonitorIsRight == HeapSpec => []MonitorCountsAll
BY HeapAlways, PTL DEF HeapIInv
-----------------------------------------------------------------------------
\* A block put into a node that nobody held is apart from all others.
LEMMA Gives ==
    ASSUME HeapInv, HeapInv', NEW a \in Nat, NEW size \in Nat,
           held' = With(held, a + 1, size), a \notin DOMAIN nodes \/ ~nodes[a].used
    PROVE  Promise!Give
  <1>1. /\ DOMAIN held' = DOMAIN held \cup {a + 1} /\ held'[a + 1] = size
        /\ \A b \in DOMAIN held : b # a + 1 => held'[b] = held[b]
    BY HeldAll
  <1>2. a + 1 \notin DOMAIN held
    <2>1. ASSUME a + 1 \in DOMAIN held PROVE FALSE
      <3>1. (a + 1) - 1 = a
        OBVIOUS
      <3>. QED BY <2>1, <3>1 DEF HeapInv, UsedIsHeld
    <2>. QED BY <2>1
  <1>3. ASSUME NEW b \in DOMAIN held'
        PROVE  /\ b - 1 \in DOMAIN nodes' /\ held'[b] <= nodes'[b - 1].size
               /\ b \in Nat /\ b - 1 \in Nat /\ nodes'[b - 1].size \in Nat /\ held'[b] \in Nat
    BY DEF HeapInv, UsedIsHeld, HeapTypeOK, Record
  <1>4. ASSUME NEW b \in DOMAIN held', NEW c \in DOMAIN held', b < c
        PROVE  b + held'[b] <= c
    <2>1. (b - 1) + 1 + nodes'[b - 1].size <= c - 1
      BY <1>3, <1>4 DEF HeapInv, NodesApart, End
    <2>. QED BY <1>3, <2>1
  <1>5. a + 1 >= Start
    <2>1. (a + 1) - 1 \in DOMAIN nodes' /\ (a + 1) - 1 = a
      BY <1>1, <1>3
    <2>. QED BY <2>1, HeapAssumption DEF HeapInv, Chained
  <1>6. ASSUME NEW b \in DOMAIN held
        PROVE  held'[b] = held[b] /\ Promise!Apart(a + 1, held'[a + 1], b, held[b])
    <2>1. b # a + 1 /\ b \in DOMAIN held' /\ a + 1 \in DOMAIN held' /\ held'[b] = held[b] /\ b \in Nat
      BY <1>1, <1>2, <1>3
    <2>2. b < a + 1 \/ a + 1 < b
      BY <2>1
    <2>. QED BY <1>4, <2>1, <2>2 DEF Promise!Apart
  <1>. QED BY <1>1, <1>2, <1>5, <1>6 DEF Promise!Give

\* malloc and free give what an allocator promises: every block handed out is apart
\* from all blocks that are held, for any start and any sizes (heap.c:27-122).
THEOREM HeapKeepsItsPromise == HeapSpec => HeapKeepsPromise
  <1>1. HeapInit => Promise!AllocatorInit
    BY DEF HeapInit, Promise!AllocatorInit
  <1>2. HeapInv /\ HeapInv' /\ [HeapNext]_heapVars => [Promise!AllocatorNext]_held
    <2>. SUFFICES ASSUME HeapInv, HeapInv', [HeapNext]_heapVars
                  PROVE  [Promise!AllocatorNext]_held
      OBVIOUS
    <2>1. CASE FirstNode
      <3>1. held' = With(held, Start + 1, walk.size) /\ Start \in Nat /\ walk.size \in Nat
            /\ Start \notin DOMAIN nodes
        BY <2>1, HeapAssumption DEF FirstNode, Handed, HeapInv, HeapTypeOK, Chained
      <3>. QED BY <3>1, Gives DEF Promise!AllocatorNext
    <2>2. CASE SplitNode \/ TakeNode
      <3>1. held' = With(held, walk.node + 1, walk.size) /\ ~nodes[walk.node].used
        BY <2>2 DEF SplitNode, TakeNode, Handed, Fits
      <3>2. walk.node \in Nat /\ walk.size \in Nat
        BY DEF HeapInv, HeapTypeOK
      <3>. QED BY <3>1, <3>2, Gives DEF Promise!AllocatorNext
    <2>3. CASE AppendNode
      <3>1. PICK a, new : a = walk.node /\ new = End(a)
        OBVIOUS
      <3>2. new \in Nat /\ new \notin DOMAIN nodes /\ walk.size \in Nat
        BY <2>3, <3>1, AppendNodes
      <3>3. held' = With(held, new + 1, walk.size)
        BY <2>3, <3>1 DEF AppendNode, Handed
      <3>. QED BY <3>2, <3>3, Gives DEF Promise!AllocatorNext
    <2>4. CASE Free
      BY <2>4 DEF Free, Without, Promise!AllocatorNext, Promise!TakeBack
    <2>5. CASE UNCHANGED held
      BY <2>5
    <2>6. CASE \/ Malloc \/ NextNode \/ MergeNode \/ PassNode \/ Freed
               \/ Monitor \/ CountNode \/ Monitored
      BY <2>6 DEF Malloc, NextNode, MergeNode, PassNode, Freed, Monitor, CountNode, Monitored
    <2>. QED BY <2>1, <2>2, <2>3, <2>4, <2>5, <2>6 DEF HeapNext, heapVars
  <1>. QED BY <1>1, <1>2, HeapStaysWhole, PTL DEF HeapSpec, HeapKeepsPromise, Promise!AllocatorSpec
=============================================================================
