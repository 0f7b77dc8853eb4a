---------------------------- MODULE CardService ----------------------------
(***************************************************************************)
(* What the program above gets from its storage: one attempt to mount it,  *)
(* transfers that move their sectors in order or start over, a speed level *)
(* that is lowered one at a time until the storage works again or none is  *)
(* left, and an end after which nothing follows.                           *)
(***************************************************************************)
EXTENDS Naturals

CONSTANTS
    Top,        \* the level a session begins with; 0 is none
    Sectors     \* the parts of a transfer

VARIABLES
    stage,      \* off, mounting, idle, moving or recovering
    level,      \* the speed level of the next attempt
    mounted,
    moved,      \* what the transfer has moved since it last started over
    fresh,      \* it has not started over yet
    result      \* what the last call returned, "gone" at the end

serviceVars == <<stage, level, mounted, moved, fresh, result>>

ServiceInit ==
    /\ stage = "off" /\ level = Top /\ ~mounted
    /\ moved = {} /\ fresh = TRUE /\ result = "none"

Open ==
    /\ stage = "off" /\ stage' = "mounting"
    /\ UNCHANGED <<level, mounted, moved, fresh, result>>
Opened ==
    /\ stage = "mounting" /\ stage' = "idle"
    /\ mounted' /\ result' = "ok"
    /\ UNCHANGED <<level, moved, fresh>>

Begin ==
    /\ stage = "idle" /\ mounted /\ stage' = "moving"
    /\ moved' = {} /\ fresh'
    /\ UNCHANGED <<level, mounted, result>>
Move ==
    /\ stage = "moving"
    /\ \E n \in 1 .. Sectors :
          /\ moved = 1 .. n - 1 /\ moved' = 1 .. n
          /\ IF n = Sectors THEN stage' = "idle" /\ result' = "ok" ELSE UNCHANGED <<stage, result>>
    /\ UNCHANGED <<level, mounted, fresh>>

\* The first new attempt is at the same level, each later one at a lower one.
Recover ==
    /\ stage = "moving" /\ stage' = "recovering"
    /\ IF fresh THEN UNCHANGED level ELSE level > 0 /\ level' = level - 1
    /\ UNCHANGED <<mounted, moved, fresh, result>>
\* Only a mount and the first new attempt go down several levels.
Slow ==
    /\ stage = "mounting" \/ (stage = "recovering" /\ fresh)
    /\ level > 0 /\ level' = level - 1
    /\ UNCHANGED <<stage, mounted, moved, fresh, result>>
Resume ==
    /\ stage = "recovering" /\ level > 0 /\ stage' = "moving"
    /\ moved' = {} /\ ~fresh'
    /\ UNCHANGED <<level, mounted, result>>

\* The level is kept, or set back when there is no card any more.  The first
\* new attempt is not given up while there is a level left.
GiveUp ==
    /\ stage \in {"mounting", "moving", "recovering"} /\ stage' = "idle"
    /\ result' = "failed" /\ level' \in {level, Top}
    /\ stage = "recovering" /\ fresh => level' = Top \/ level = 0
    /\ UNCHANGED <<mounted, moved, fresh>>

Close ==
    /\ stage = "idle" /\ result # "gone"
    /\ ~mounted' /\ result' = "gone"
    /\ level' = IF level = 0 THEN Top ELSE level
    /\ UNCHANGED <<stage, moved, fresh>>

ServiceNext ==
    \/ Open \/ Opened \/ Begin \/ Move \/ Recover \/ Slow \/ Resume \/ GiveUp \/ Close
ServiceSpec == ServiceInit /\ [][ServiceNext]_serviceVars

\* A transfer counts its sectors in order, and one that has started over is at a
\* level that is left.
ServiceInv ==
    stage = "moving" =>
        /\ \E n \in 0 .. Sectors - 1 : moved = 1 .. n
        /\ ~fresh => level > 0
=============================================================================
