------------------------------ MODULE Custody ------------------------------
(***************************************************************************)
(* What a clean installation owes the owner of the card.  Each file that   *)
(* is theirs has a live copy and may have a saved one.  A saved copy may   *)
(* be overwritten only while there is a live one to make it from, the live *)
(* copies may go only once all are saved, the saved ones only once all are *)
(* live again; and the work may stop after any step, to be begun anew.     *)
(* A file excused, by an error nobody looked at, is out of custody, and    *)
(* that file alone.                                                        *)
(***************************************************************************)
VARIABLES
    owned,      \* the files of the owner
    live,       \* those with a whole copy where they belong
    saved,      \* those with a whole copy set aside
    phase,      \* rest, saving, wiping, restoring or forgetting
    excused     \* those out of custody

custodyVars == <<owned, live, saved, phase, excused>>

CustodyInit ==
    /\ live = owned /\ saved = {}
    /\ phase = "rest" /\ excused = {}

\* The files in custody before and after a step.
InCustody == owned \ excused'
SameLive == live' \cap InCustody = live \cap InCustody
SameSaved == saved' \cap InCustody = saved \cap InCustody

Save(f) ==
    /\ phase = "saving" /\ f \in live
    /\ saved' \cap InCustody \in {(saved \ {f}) \cap InCustody, (saved \cup {f}) \cap InCustody}
    /\ SameLive
Wipe(f) ==
    /\ phase = "wiping"
    /\ live' \cap InCustody = (live \ {f}) \cap InCustody /\ SameSaved
Restore(f) ==
    /\ phase = "restoring" /\ f \in saved
    /\ live' \cap InCustody \in {(live \ {f}) \cap InCustody, (live \cup {f}) \cap InCustody}
    /\ SameSaved
Forget(f) ==
    /\ phase = "forgetting"
    /\ saved' \cap InCustody = (saved \ {f}) \cap InCustody /\ SameLive
Handle(f) ==
    /\ Save(f) \/ Wipe(f) \/ Restore(f) \/ Forget(f)
    /\ phase' = phase

\* The next phase, or the end: the work is done, broken off, or out of power.
Turn ==
    /\ \/ phase = "rest" /\ phase' = "saving"
       \/ phase = "saving" /\ InCustody \subseteq saved /\ phase' = "wiping"
       \/ phase = "wiping" /\ phase' = "restoring"
       \/ phase = "restoring" /\ InCustody \subseteq live /\ phase' = "forgetting"
       \/ phase # "rest" /\ phase' = "rest"
    /\ SameLive /\ SameSaved

\* Only files out of custody, or just excused, change.
Elsewhere == phase' = phase /\ SameLive /\ SameSaved

CustodyNext ==
    /\ owned' = owned /\ excused \subseteq excused'
    /\ (\E f \in InCustody : Handle(f)) \/ Turn \/ Elsewhere
CustodySpec == CustodyInit /\ [][CustodyNext]_custodyVars

\* No file in custody is ever without a whole copy.
NothingLost == owned \ excused \subseteq live \cup saved

\* Why: each phase begins with what it needs.
CustodyInv ==
    /\ owned \ excused \subseteq live \cup saved
    /\ phase \in {"wiping", "restoring"} => owned \ excused \subseteq saved
    /\ phase = "forgetting" => owned \ excused \subseteq live
=============================================================================
