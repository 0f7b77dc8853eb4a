------------------------------- MODULE MCFat -------------------------------
(* Volumes for FatFs: a small FAT32 and a small exFAT volume, blank, and with
   two files that were written in turns, so that both are in pieces, or with a
   file still open. *)
EXTENDS FatFs, TLC

A == [stem |-> "A", long |-> FALSE]
L == [stem |-> "L", long |-> TRUE]
M == [stem |-> "L2", long |-> TRUE]
D == [stem |-> "D", long |-> FALSE]
MCPaths == { <<A>>, <<L>>, <<D>>, <<D, L>>, <<D, A>> }
MCDirs == { <<D>> }

Sectors == { FatSect(c) : c \in 0 .. (Ent - 1) }
Blank(type, fats) ==
    LET dat == [ x \in { <<"dat", i>> : i \in 0 .. (Ent - 3) } |-> ZeroSect ]
        fat == [ x \in Sectors \cup { <<"fat2", f[2]>> : f \in Sectors } |->
                   [ c \in (x[2] * PerFat) .. (x[2] * PerFat + PerFat - 1) |->
                       IF c = 2 THEN EOC ELSE 0 ] ]
        first == IF type = "exfat" THEN [ZeroSect EXCEPT ![1] = [t |-> "x81"]] ELSE ZeroSect
        disk == [ x \in DOMAIN dat \cup DOMAIN fat \cup {BitSect, InfoSect} |->
                    IF x = <<"dat", 0>> THEN first
                    ELSE IF x \in DOMAIN dat THEN dat[x]
                    ELSE IF x \in DOMAIN fat THEN fat[x]
                    ELSE IF x = BitSect THEN {2}
                    ELSE <<[t |-> "info", free |-> BAD, last |-> 2]>> ]
    IN [type |-> type, fats |-> fats, csize |-> 1, root |-> 2, disk |-> disk,
        win |-> <<>>, winsect |-> NoSect, wflag |-> FALSE, free |-> BAD, last |-> BAD, fsi |-> FALSE,
        obj |-> Root, dp |-> NoDir, buf |-> <<Zero, Zero, Zero>>, res |-> "ok", val |-> 0,
        got |-> <<>>, data |-> <<>>, found |-> <<>>, at |-> NoSect, changed |-> FALSE,
        fil |-> NoFile, trace |-> <<>>, torn |-> {}, left |-> 0]

Units(n, v) == [ i \in 1 .. n |-> Unit(v) ]
\* A volume after some calls, each with its arguments.
RECURSIVE After(_, _)
After(s, made) ==
    IF made = <<>> THEN s
    ELSE After([Lib(Head(made)[1], s, Head(made)[2]) EXCEPT !.trace = <<>>, !.torn = {}], Tail(made))

Append1(p, v) ==
    << <<"f_open", <<p, {"w", "open", "append"}>> >>, <<"f_write", <<Units(SS, v)>> >>, <<"f_close", <<>> >> >>
\* A and L get a sector each in turns.
InTurns == Append1(<<A>>, 101) \o Append1(<<L>>, 102) \o Append1(<<A>>, 103)
\* A is being written while D is made, so that it breaks behind its second
\* cluster, and has not been saved.
Broken ==
    << <<"f_open", <<<<A>>, {"r", "w", "always"}>> >>, <<"f_write", <<Units(2 * SS, 101)>> >>,
       <<"f_mkdir", <<<<D>>, 0>> >>, <<"f_write", <<Units(SS + 1, 103)>> >> >>

\* A is being written over.
Over == InTurns \o << <<"f_open", <<<<A>>, {"r", "w", "always"}>> >>, <<"f_write", <<Units(SS + 2, 104)>> >> >>
\* A directory with a file.
Tree ==
    << <<"f_mkdir", <<<<D>>, 0>> >>, <<"f_open", <<<<D, L>>, {"w", "new"}>> >>, <<"f_write", <<Units(SS, 105)>> >>,
       <<"f_close", <<>> >> >>

Wanted(f) == [ p \in MCPaths |-> IF p \in DOMAIN f THEN f[p] ELSE None ]
Calls == { [made |-> <<>>, open |-> <<>>, want |-> Wanted(<<>>)],
           [made |-> Broken, open |-> <<A>>,
            want |-> Wanted(<<A>> :> Data(Units(2 * SS, 101) \o Units(SS + 1, 103)) @@ <<D>> :> ADir)],
           [made |-> Over, open |-> <<A>>,
            want |-> Wanted(<<A>> :> Data(Units(SS + 2, 104)) @@ <<L>> :> Data(Units(SS, 102)))],
           [made |-> Tree, open |-> <<>>,
            want |-> Wanted(<<D>> :> ADir @@ <<D, L>> :> Data(Units(SS, 105)))] }
\* Each type of volume with the files that matter to it.
MCVolumes ==
    { [fs |-> After(Blank(v[1], v[2]), <<<<"f_mount", <<>>>>>> \o v[3].made), open |-> v[3].open, want |-> v[3].want] :
        v \in { <<"fat32", IF c.made = <<>> THEN 2 ELSE 1, c>> : c \in {c \in Calls : c.made # Broken} }
              \cup { <<"exfat", 1, c>> : c \in {c \in Calls : c.made # <<>>} } }
=============================================================================
