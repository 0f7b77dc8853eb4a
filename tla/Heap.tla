-------------------------------- MODULE Heap --------------------------------
(***************************************************************************)
(* bdk/mem/heap.c.  Addresses and sizes are in units of sizeof(hnode_t),   *)
(* to which every size is aligned.  The walk along the chain is one step   *)
(* per node.  Nothing bounds the heap from above, as in the code.          *)
(***************************************************************************)
EXTENDS Integers

CONSTANTS
    Start,      \* the address heap_init is given
    Requests    \* the sizes asked for

ASSUME HeapAssumption == Start \in Nat /\ Start > 0 /\ Requests \subseteq Nat

VARIABLES
    first,      \* heap->first
    nodes,      \* the headers on the chain, by address
    held,       \* history: the lengths of the blocks handed out, by address
    walk        \* the call that is under way

heapVars == <<first, nodes, held, walk>>

NULL == 0
Resting == [call |-> "none", node |-> NULL, size |-> 0, used |-> 0, total |-> 0]
Header(size, prev, next, used) == [used |-> used, size |-> size, prev |-> prev, next |-> next]
End(a) == a + 1 + nodes[a].size
With(f, a, v) == [ b \in DOMAIN f \cup {a} |-> IF b = a THEN v ELSE f[b] ]
Without(f, a) == [ b \in DOMAIN f \ {a} |-> f[b] ]
\* The chain with the back pointer of the node at a, if there is one, set to p.
Back(ns, a, p) == IF a = NULL THEN ns ELSE [ns EXCEPT ![a].prev = p]
-----------------------------------------------------------------------------
Malloc ==
    /\ walk.call = "none"
    /\ \E size \in Requests :
          walk' = [Resting EXCEPT !.call = "malloc", !.node = first, !.size = size]
    /\ UNCHANGED <<first, nodes, held>>

\* The block at a, for the size asked for.
Handed(a) ==
    /\ held' = With(held, a + 1, walk.size)
    /\ walk' = Resting

FirstNode ==
    /\ walk.call = "malloc" /\ first = NULL
    /\ first' = Start
    /\ nodes' = With(nodes, Start, Header(walk.size, NULL, NULL, TRUE))
    /\ Handed(Start)

Fits == ~nodes[walk.node].used /\ walk.size <= nodes[walk.node].size
Spare == nodes[walk.node].size - walk.size

SplitNodeLoose ==    \* mutant: the header of the new node is not counted
    LET a == walk.node
        new == a + 1 + walk.size
    IN /\ walk.call = "malloc" /\ first # NULL /\ a # NULL /\ Fits /\ Spare >= 4
       /\ nodes' = [With(Back(nodes, nodes[a].next, new), new,
                         Header(Spare, a, nodes[a].next, FALSE))
                      EXCEPT ![a] = [@ EXCEPT !.next = new, !.size = walk.size, !.used = TRUE]]
       /\ Handed(a)
       /\ UNCHANGED first
\* An unused node that leaves room for a node of its own.
SplitNode ==
    LET a == walk.node
        new == a + 1 + walk.size
    IN /\ walk.call = "malloc" /\ first # NULL /\ a # NULL /\ Fits /\ Spare >= 4
       /\ nodes' = [With(Back(nodes, nodes[a].next, new), new,
                         Header(Spare - 1, a, nodes[a].next, FALSE))
                      EXCEPT ![a] = [@ EXCEPT !.next = new, !.size = walk.size, !.used = TRUE]]
       /\ Handed(a)
       /\ UNCHANGED first

\* An unused node that is just enough is used whole.
TakeNode ==
    LET a == walk.node
    IN /\ walk.call = "malloc" /\ first # NULL /\ a # NULL /\ Fits /\ Spare < 4
       /\ nodes' = [nodes EXCEPT ![a].used = TRUE]
       /\ Handed(a)
       /\ UNCHANGED first

NextNode ==
    /\ walk.call = "malloc" /\ first # NULL /\ walk.node # NULL /\ ~Fits
    /\ nodes[walk.node].next # NULL
    /\ walk' = [walk EXCEPT !.node = nodes[@].next]
    /\ UNCHANGED <<first, nodes, held>>

AppendNode ==
    LET a == walk.node
    IN /\ walk.call = "malloc" /\ first # NULL /\ a # NULL /\ ~Fits /\ nodes[a].next = NULL
       /\ nodes' = [With(nodes, End(a), Header(walk.size, a, NULL, TRUE)) EXCEPT ![a].next = End(a)]
       /\ Handed(End(a))
       /\ UNCHANGED first

Free ==
    /\ walk.call = "none"
    /\ \E b \in DOMAIN held :
          /\ nodes' = [nodes EXCEPT ![b - 1].used = FALSE]
          /\ held' = Without(held, b)
    /\ walk' = [Resting EXCEPT !.call = "free", !.node = first]
    /\ UNCHANGED first

BothFree(a) == ~nodes[a].used /\ nodes[a].prev # NULL /\ ~nodes[nodes[a].prev].used
MergeNodeSkips ==    \* mutant: the walk goes on behind the next node
    LET a == walk.node
        p == nodes[a].prev
        n == nodes[a].next
    IN /\ walk.call = "free" /\ a # NULL /\ BothFree(a)
       /\ nodes' = Back(Without([nodes EXCEPT ![p].size = @ + nodes[a].size + 1, ![p].next = n], a), n, p)
       /\ walk' = [walk EXCEPT !.node = IF n = NULL THEN NULL ELSE nodes[n].next]
       /\ UNCHANGED <<first, held>>
MergeNode ==
    LET a == walk.node
        p == nodes[a].prev
        n == nodes[a].next
    IN /\ walk.call = "free" /\ a # NULL /\ BothFree(a)
       /\ nodes' = Back(Without([nodes EXCEPT ![p].size = @ + nodes[a].size + 1, ![p].next = n], a), n, p)
       /\ walk' = [walk EXCEPT !.node = n]
       /\ UNCHANGED <<first, held>>
PassNode ==
    /\ walk.call = "free" /\ walk.node # NULL /\ ~BothFree(walk.node)
    /\ walk' = [walk EXCEPT !.node = nodes[@].next]
    /\ UNCHANGED <<first, nodes, held>>
Freed ==
    /\ walk.call = "free" /\ walk.node = NULL
    /\ walk' = Resting
    /\ UNCHANGED <<first, nodes, held>>

\* heap_monitor, on a heap that has been used.
Monitor ==
    /\ walk.call = "none" /\ first # NULL
    /\ walk' = [Resting EXCEPT !.call = "monitor", !.node = first]
    /\ UNCHANGED <<first, nodes, held>>
CountNode ==
    LET size == nodes[walk.node].size + 1
    IN /\ walk.call = "monitor" /\ walk.node # NULL
       /\ walk' = [walk EXCEPT !.node = nodes[@].next,
                               !.used = IF nodes[walk.node].used THEN @ + size ELSE @,
                               !.total = IF nodes[walk.node].used THEN @ ELSE @ + size]
       /\ UNCHANGED <<first, nodes, held>>
Monitored ==
    /\ walk.call = "monitor" /\ walk.node = NULL
    /\ walk' = Resting
    /\ UNCHANGED <<first, nodes, held>>

HeapInit == first = NULL /\ nodes = <<>> /\ held = <<>> /\ walk = Resting
HeapNext ==
    \/ Malloc \/ FirstNode \/ SplitNode \/ TakeNode \/ NextNode \/ AppendNode
    \/ Free \/ MergeNode \/ PassNode \/ Freed
    \/ Monitor \/ CountNode \/ Monitored
HeapSpec == HeapInit /\ [][HeapNext]_heapVars
-----------------------------------------------------------------------------
Record == [used : BOOLEAN, size : Nat, prev : Nat, next : Nat]
HeapTypeOK ==
    /\ first \in {NULL, Start}
    /\ DOMAIN nodes \subseteq Nat /\ nodes \in [DOMAIN nodes -> Record]
    /\ DOMAIN held \subseteq Nat /\ held \in [DOMAIN held -> Nat]
    /\ walk \in [call : {"none", "malloc", "free", "monitor"}, node : Nat,
                 size : Nat, used : Nat, total : Nat]
    /\ walk.node # NULL => walk.node \in DOMAIN nodes

\* The chain leads from the start to the end with no gap, and back.
Chained ==
    /\ first = NULL <=> DOMAIN nodes = {}
    /\ first # NULL => first \in DOMAIN nodes
    /\ \A a \in DOMAIN nodes :
          /\ a >= Start
          /\ IF nodes[a].prev = NULL THEN a = Start
             ELSE nodes[a].prev \in DOMAIN nodes /\ nodes[nodes[a].prev].next = a
          /\ IF nodes[a].next = NULL THEN \A b \in DOMAIN nodes : b <= a
             ELSE /\ nodes[a].next = End(a) /\ End(a) \in DOMAIN nodes
                  /\ nodes[End(a)].prev = a
\* No header lies in a block.
NodesApart == \A a, b \in DOMAIN nodes : a < b => End(a) <= b
\* The used nodes are the blocks held, and long enough for them.
UsedIsHeld ==
    /\ \A b \in DOMAIN held :
          b - 1 \in DOMAIN nodes /\ nodes[b - 1].used /\ held[b] <= nodes[b - 1].size
    /\ \A a \in DOMAIN nodes : nodes[a].used => a + 1 \in DOMAIN held
WalkStarted == walk.call = "malloc" /\ walk.node = NULL => first = NULL
HeapInv == HeapTypeOK /\ Chained /\ NodesApart /\ UsedIsHeld /\ WalkStarted

\* Two unused nodes are never left side by side: free merges all there are,
\* whichever order blocks come back in (heap.c:104-120).
Merged ==
    \A a \in DOMAIN nodes :
        ~nodes[a].used /\ nodes[a].next # NULL /\ ~nodes[nodes[a].next].used
            => walk.call = "free" /\ walk.node # NULL /\ walk.node <= nodes[a].next

\* What heap_monitor counts is the whole heap, no node twice and none missed.
MonitorCountsAll ==
    walk.call = "monitor" /\ walk.node = NULL =>
        \E last \in DOMAIN nodes :
            nodes[last].next = NULL /\ walk.used + walk.total = End(last) - Start

\* The heap keeps what an allocator promises.
Promise == INSTANCE Allocator WITH Start <- Start, held <- held
HeapKeepsPromise == Promise!AllocatorSpec
=============================================================================
