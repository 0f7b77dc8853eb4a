----------------------------- MODULE Allocator -----------------------------
(***************************************************************************)
(* What malloc and free promise: a block of the length asked for, apart    *)
(* from every block that is held.                                          *)
(***************************************************************************)
EXTENDS Naturals

CONSTANT Start    \* the first address of the region
VARIABLE held     \* the blocks handed out: their lengths by their addresses

Apart(a, m, b, n) == a + m <= b \/ b + n <= a

Give ==
    \E a \in DOMAIN held' \ DOMAIN held :
        /\ DOMAIN held' = DOMAIN held \cup {a}
        /\ a >= Start /\ held'[a] \in Nat
        /\ \A b \in DOMAIN held : held'[b] = held[b] /\ Apart(a, held'[a], b, held[b])
TakeBack ==
    \E a \in DOMAIN held :
        /\ DOMAIN held' = DOMAIN held \ {a}
        /\ \A b \in DOMAIN held' : held'[b] = held[b]

AllocatorInit == DOMAIN held = {}
AllocatorNext == Give \/ TakeBack
AllocatorSpec == AllocatorInit /\ [][AllocatorNext]_held
=============================================================================
