------------------------------- MODULE FatFs -------------------------------
(***************************************************************************)
(* A program using FatFs on a medium that may fail and lose power: one     *)
(* action per call of the library.  A call runs to its end with no fault,  *)
(* with its k-th access to the medium failing, or until power goes after   *)
(* some of its sector writes.                                              *)
(*                                                                         *)
(* want[p] is what the calls so far have put at a path, kept[p] what has   *)
(* been made safe there: by f_sync, f_close, or a call that changes a      *)
(* directory, when it succeeds.  Unsure is where a fault or unsaved work   *)
(* leaves it open.                                                         *)
(***************************************************************************)
EXTENDS FatLib

CONSTANTS
    Paths,       \* the paths the program uses; all that exist are among them
    Dirs,        \* those it makes directories at
    Volumes,     \* the volumes it may find: the library's view, contents, and
                 \* the path of the file that is open
    Writes,      \* the lengths of the writes
    Places,      \* the positions sought
    MaxCalls,    \* of the calls but f_readdir, which a listing bounds
    MaxFaults, MaxAccess

VARIABLES
    fs,      \* the volume and the library's view of it
    file,    \* the open file
    path,    \* its path
    dirh,    \* the open directory: where f_readdir is, and what it has given
    want, kept,
    phase,   \* "on", or "off" after a power cut
    calls, faults,
    scars,   \* history: what a fault may have left half done on the medium
    lapses   \* history: what has gone wrong otherwise

vars == <<fs, file, path, dirh, want, kept, phase, calls, faults, scars, lapses>>

None == [kind |-> "none", data |-> <<>>]
ADir == [kind |-> "dir", data |-> <<>>]
Data(d) == [kind |-> "file", data |-> d]
Unsure == [kind |-> "unsure", data |-> <<>>]
Unit(v) == [t |-> "data", v |-> v]
Gap == Unit(0)     \* what f_lseek leaves behind: anything
Shut == [open |-> FALSE, obj |-> Root, dp |-> NoDir, seen |-> {}, there |-> {}]

\* What lasts from call to call; the rest of s is local to a call.
Settled(s) ==
    [s EXCEPT !.obj = Root, !.dp = NoDir, !.buf = <<Zero, Zero, Zero>>, !.val = 0, !.res = "ok",
              !.got = <<>>, !.data = <<>>, !.found = <<>>, !.at = NoSect, !.changed = FALSE,
              !.fil = NoFile, !.trace = <<>>, !.torn = {}, !.left = 0]
-----------------------------------------------------------------------------
(* Observing a volume. *)
\* What a stat and a read of the whole file say.
Found(a, r) ==
    IF a.res \in {"nofile", "nopath"} THEN None
    ELSE IF a.res # "ok" THEN Unsure
    ELSE IF a.obj.isdir THEN ADir
    ELSE IF r.res = "ok" THEN Data(r.data) ELSE Unsure

Matches(d, w) ==
    w.kind = "unsure" \/ (d.kind = w.kind /\ Len(d.data) = Len(w.data)
                          /\ \A i \in 1 .. Len(w.data) : w.data[i] = Gap \/ d.data[i] = w.data[i])

\* The paths, each with what a stat says of it.
Looks(s) == { [path |-> p, stat |-> FStat(s, p)] : p \in Paths }
Holds(s, l, w) ==
    \E r \in { IF o.res = "ok" THEN FRead(o, o.fil.obj.size) ELSE o : o \in {FOpen(s, l.path, {"r"})} } :
        Matches(Found(l.stat, r), w)

EmptyPath == <<>>
\* The object an entry describes, and the clusters it has.
Object(a) ==
    IF a.res # "ok" THEN Root
    ELSE IF a.type = "exfat" THEN InitAllocInfo(Root, a.buf)
    ELSE [Root EXCEPT !.sclust = Entry(a).clst, !.size = Entry(a).size]
RECURSIVE Chain(_, _, _)
Chain(next, c, n) ==
    IF n = 0 \/ c \notin Clusters THEN {} ELSE {c} \cup Chain(next, next[c], n - 1)
ClustersOf(s, o, from) ==
    UNION { Chain(next, from, Ent) :
              next \in { [ c \in Clusters |-> GetFat([s EXCEPT !.obj = o], c).val ] } }
\* The objects, the root among them, each with its clusters.
Owners(s) ==
    { [path |-> x.path, first |-> x.obj.sclust,
        clusters |-> ClustersOf(s, x.obj, IF x.path = EmptyPath THEN s.root ELSE x.obj.sclust)] :
          x \in {[path |-> EmptyPath, obj |-> Root]}
                \cup { [path |-> l.path, obj |-> Object(l.stat)] : l \in { k \in Looks(s) : k.stat.res = "ok" } } }
Marked(s) ==
    IF s.type = "exfat" THEN MoveWindow(s, BitSect).win
    ELSE { c \in Clusters : GetFat(s, c).val # 0 }
-----------------------------------------------------------------------------
(* One call.  Do is the call, ps the paths it concerns, Says(a, p) what is
   there when it has returned with a.  Saves says what a success leaves on the
   medium: "entry" what the call did, "file" the open file, "later" nothing
   yet.  Marks(a) is what stays half done when a fault or a cut meets it. *)
Able == phase = "on" /\ calls < MaxCalls
Loaded == [fs EXCEPT !.fil = file]

Returns(a, ps, Says(_, _), saves) ==
    /\ fs' = Settled(a) /\ file' = a.fil
    /\ path' = IF ~a.fil.open THEN <<>> ELSE IF file.open THEN path ELSE CHOOSE p \in ps : TRUE
    /\ want' = [ p \in Paths |-> IF p \in ps THEN Says(a, p) ELSE want[p] ]
    /\ kept' = [ p \in Paths |->
                   IF p \notin ps \/ (saves # "file" /\ Says(a, p) = want[p]) THEN kept[p]
                   ELSE IF a.res = "ok" /\ saves \in {"entry", "file"} THEN Says(a, p)
                   ELSE IF Says(a, p) = want[p] THEN kept[p] ELSE Unsure ]
    /\ dirh' = [dirh EXCEPT !.there = { p \in @ : p \notin ps \/ Says(a, p) = want[p] }]
    /\ calls' = calls + 1 /\ UNCHANGED phase

(* Scars: torn, directories (by first cluster) whose table is not changed at once, for
   an entry set lies across two sectors or a cluster is linked before it is cleared; ends,
   files whose entry leads to clusters that are free; twins, names of one file;
   wild, any cluster may have been freed. *)
Whole == [torn |-> {}, ends |-> {}, twins |-> {}, wild |-> FALSE]
NoMarks(a) == Whole
\* A call on one of two twins may free what the other has; a rename hands on
\* what its first name is marked with.
Partners(ps) == { q \in Paths : \E p \in ps : {p, q} \in scars.twins }
Inherited(ps) ==
    [scars EXCEPT !.ends = @ \cup Partners(ps) \cup (IF ps \cap @ = {} THEN {} ELSE ps),
                  !.twins = @ \cup { {p, q} : p \in ps, q \in Partners(ps) \ ps }]
Scarred(a, ps, m) ==
    [torn |-> scars.torn \cup a.torn,
     ends |-> Inherited(ps).ends \cup m.ends, twins |-> Inherited(ps).twins \cup m.twins,
     wild |-> scars.wild \/ m.wild]
\* f_sync and f_close put the end of a file right.
Healed(ps, saves, m) ==
    [Inherited(ps) EXCEPT !.ends =
        (IF saves = "file" THEN @ \ (ps \ UNION Inherited(ps).twins) ELSE @) \cup m.ends]
Off == phase' = "off" /\ file' = NoFile /\ dirh' = Shut /\ path' = <<>>

\* A call without a fault.
Works(a, ps, Says(_, _), saves, Marks(_)) ==
    /\ Returns(a, ps, Says, saves) /\ UNCHANGED <<faults, lapses>>
    /\ scars' = Healed(ps, IF a.res = "ok" THEN saves ELSE "later", Marks(a))
\* An access to the medium has failed.
Fails(a, ps, Says(_, _), saves, Marks(_)) ==
    /\ Returns(a, ps, LAMBDA b, p : IF b.res = "ok" THEN Says(b, p) ELSE Unsure, saves)
    /\ faults' = faults + 1 /\ UNCHANGED lapses
    /\ scars' = IF a.res = "ok" THEN Healed(ps, saves, Marks(a)) ELSE Scarred(a, ps, Marks(a))
\* Power goes after some sector writes of the call, the last of them or not.
CutIn(a, ps, marks) ==
    /\ faults < MaxFaults /\ faults' = faults + 1
    /\ \E j \in 1 .. Len(a.trace) : fs' = [fs EXCEPT !.disk = a.trace[j]]
    /\ scars' = Scarred(a, ps, marks)
    /\ kept' = [ p \in Paths |-> IF p \in ps THEN Unsure ELSE kept[p] ]
    /\ want' = [ p \in Paths |-> Unsure ]
    /\ Off /\ UNCHANGED <<calls, lapses>>
\* Or between two calls.
CutBetween ==
    /\ phase = "on" /\ faults < MaxFaults /\ faults' = faults + 1
    /\ want' = [ p \in Paths |-> Unsure ]
    /\ Off /\ UNCHANGED <<fs, kept, calls, scars, lapses>>

Call(Do(_), ps, Says(_, _), saves, Marks(_)) ==
    /\ Able
    /\ \E k \in 0 .. MaxAccess : \E a \in {Do([Loaded EXCEPT !.left = k])} :
          \/ k = 0 /\ Works(a, ps, Says, saves, Marks)
          \/ k = 0 /\ CutIn(a, ps, Marks(a))
          \/ k > 0 /\ a.left = 0 /\ faults < MaxFaults /\ Fails(a, ps, Says, saves, Marks)

\* What a call that failed without a fault leaves is what was there.
IfOk(a, new, old) == IF a.res = "ok" THEN new ELSE old
-----------------------------------------------------------------------------
(* Calls on paths. *)
Idle(p) == ~(file.open /\ path = p)
Junk == IF fs.type = "exfat" THEN 0 .. 2 ELSE {0}
Below(p) == { q \in Paths : Len(q) > Len(p) /\ SubSeq(q, 1, Len(p)) = p }

Unlink ==
    \E p \in Paths, junk \in Junk \ {2} :
        /\ Idle(p)
        /\ Call(LAMBDA s : FUnlink(s, p, junk), {p},
                LAMBDA a, q : IfOk(a, None, want[q]), "entry", NoMarks)

Mkdir ==
    \E p \in Dirs, junk \in Junk :
        Call(LAMBDA s : FMkdir(s, p, junk), {p}, LAMBDA a, q : IfOk(a, ADir, want[q]), "entry",
             LAMBDA a : [Whole EXCEPT !.wild = junk = 2 /\ a.res # "ok"])

\* Files, and directories that are empty.
Rename ==
    \E p, q \in Paths :
        /\ p # q /\ Idle(p) /\ Idle(q) /\ (p \in Dirs <=> q \in Dirs)
        /\ q \notin Below(p) /\ \A r \in Below(p) : want[r] = None
        /\ Call(LAMBDA s : FRename(s, p, q), {p, q},
                LAMBDA a, r : IfOk(a, IF r = p THEN None ELSE want[p], want[r]), "entry",
                LAMBDA a : [Whole EXCEPT !.twins = {{p, q}}])

Chmod ==
    \E p \in Paths :
        Idle(p) /\ Call(LAMBDA s : FChmod(s, p, TRUE), {p}, LAMBDA a, q : want[q], "later", NoMarks)
Utime ==
    \E p \in Paths :
        Idle(p) /\ Call(LAMBDA s : FUtime(s, p, 1), {p}, LAMBDA a, q : want[q], "later", NoMarks)
Stat ==
    \E p \in Paths : Call(LAMBDA s : FStat(s, p), {}, LAMBDA a, q : want[q], "later", NoMarks)
\* A scan that fails leaves a wrong count behind.
Getfree == Call(FGetfree, {}, LAMBDA a, q : want[q], "later", NoMarks)
-----------------------------------------------------------------------------
(* The open file. *)
Modes == { {"r"}, {"r", "w", "always"}, {"w", "new"}, {"r", "w", "open", "append"} }
OpenFile ==
    \E p \in Paths \ Dirs, m \in Modes :
        /\ ~file.open
        /\ Call(LAMBDA s : FOpen(s, p, m), {p},
                LAMBDA a, q : IfOk(a, IF want[q].kind = "none" \/ "always" \in m THEN Data(<<>>)
                                      ELSE want[q], want[q]), "later", NoMarks)

\* What is in the file after a write of n units tagged v at a position.
Put(w, at, n, v) ==
    LET len == IF at + n > Len(w.data) THEN at + n ELSE Len(w.data)
    IN IF w.kind # "file" THEN w
       ELSE Data([ i \in 1 .. len |-> IF i \in (at + 1) .. (at + n) THEN Unit(v)
                                      ELSE IF i <= Len(w.data) THEN w.data[i] ELSE Gap ])
Write ==
    \E n \in Writes :
        /\ file.open
        /\ Call(LAMBDA s : FWrite(s, [ i \in 1 .. n |-> Unit(calls + 1) ]), {path},
                LAMBDA a, q : IF a.res = "ok" THEN Put(want[q], file.fptr, n, calls + 1)
                              ELSE IF a.res = "denied" THEN want[q] ELSE Unsure, "later", NoMarks)

\* A read is right when it gives what was written.
Read ==
    \E n \in Writes :
        LET len == Least(n, file.obj.size - file.fptr)
            due == IF want[path].kind = "file"
                   THEN Data(SubSeq(want[path].data, file.fptr + 1, file.fptr + len)) ELSE Unsure
        IN /\ Able /\ file.open
           /\ \E a \in {FRead(Loaded, n)} :
                 /\ fs' = Settled(a) /\ file' = a.fil
                 /\ lapses' = lapses \cup (IF a.res = "ok" /\ ~Matches(Data(a.data), due)
                                          THEN {"misread"} ELSE {})
           /\ calls' = calls + 1
           /\ UNCHANGED <<path, dirh, want, kept, phase, faults, scars>>

Seek ==
    \E ofs \in Places :
        file.open /\ Call(LAMBDA s : FLseek(s, ofs), {path},
                          LAMBDA a, q : IF a.res = "ok" /\ a.fil.obj.size > file.obj.size
                                        THEN Put(want[q], a.fil.obj.size, 0, 0)
                                        ELSE IfOk(a, want[q], Unsure), "later", NoMarks)

\* The clusters are free at once, the entry says so at the next f_sync.
Truncate ==
    file.open /\ Call(FTruncate, {path},
                      LAMBDA a, q : IF a.res = "denied" \/ want[q].kind # "file"
                                       \/ Len(want[q].data) <= file.fptr
                                    THEN want[q]
                                    ELSE IfOk(a, Data(SubSeq(want[q].data, 1, file.fptr)), Unsure),
                      "later",
                      LAMBDA a : [Whole EXCEPT !.ends = IF file.fptr < file.obj.size THEN {path} ELSE {}])

\* The entry is written: what is in the file is kept from here on.
Sync == file.open /\ Call(FSync, {path}, LAMBDA a, q : want[q], "file", NoMarks)
Close == file.open /\ Call(FClose, {path}, LAMBDA a, q : want[q], "file", NoMarks)
-----------------------------------------------------------------------------
(* The open directory. *)
In(p) == { q \in Paths : Len(q) = Len(p) + 1 /\ SubSeq(q, 1, Len(p)) = p /\ want[q].kind \in {"file", "dir"} }
Opendir ==
    \E p \in {EmptyPath} \cup Dirs :
        /\ Able /\ ~dirh.open
        /\ \E a \in {FOpendir(Loaded, p)} :
              /\ fs' = Settled(a)
              /\ dirh' = IF a.res = "ok"
                         THEN [open |-> TRUE, obj |-> a.obj, dp |-> a.dp, seen |-> {}, there |-> In(p)]
                         ELSE Shut
        /\ calls' = calls + 1
        /\ UNCHANGED <<file, path, want, kept, phase, faults, scars, lapses>>
\* Every object that has been there all the time is met.
Readdir ==
    LET missed == { p \in dirh.there : p[Len(p)] \notin dirh.seen }
    IN /\ phase = "on" /\ dirh.open
       /\ \E a \in {FReaddir([Loaded EXCEPT !.obj = dirh.obj, !.dp = dirh.dp])} :
             /\ fs' = Settled(a)
             /\ dirh' = IF a.res = "ok" /\ a.found # <<>>
                        THEN [dirh EXCEPT !.obj = a.obj, !.dp = a.dp, !.seen = @ \cup {a.found}] ELSE Shut
             /\ lapses' = lapses \cup (IF a.res = "ok" /\ a.found = <<>> /\ missed # {}
                                      THEN {"missed"} ELSE {})
       /\ UNCHANGED <<file, path, want, kept, phase, calls, faults, scars>>
-----------------------------------------------------------------------------
Init ==
    /\ \E v \in Volumes :
          /\ fs = Settled(v.fs) /\ file = v.fs.fil /\ path = v.open /\ want = v.want
          /\ kept = [ p \in Paths |-> IF p = v.open THEN Unsure ELSE want[p] ]
    /\ dirh = Shut
    /\ phase = "on" /\ calls = 0 /\ faults = 0 /\ scars = Whole /\ lapses = {}
Next ==
    \/ Unlink \/ Mkdir \/ Rename \/ Chmod \/ Utime \/ Stat \/ Getfree
    \/ OpenFile \/ Write \/ Read \/ Seek \/ Truncate \/ Sync \/ Close
    \/ Opendir \/ Readdir \/ CutBetween
Spec == Init /\ [][Next]_vars
-----------------------------------------------------------------------------
FatTypeOK ==
    /\ fs.type \in {"fat32", "exfat"} /\ phase \in {"on", "off"}
    /\ fs.free \in (0 .. (Ent - 2)) \cup {BAD} /\ file.err \in {"ok", "disk", "int"}
    /\ path \in Paths \cup {EmptyPath} /\ (path # EmptyPath <=> file.open)
    /\ scars.torn \subseteq Clusters \cup {0} /\ scars.ends \subseteq Paths
    /\ scars.twins \subseteq SUBSET Paths /\ scars.wild \in BOOLEAN /\ lapses \subseteq {"misread", "missed"}

\* The volume as a program finds it: after a power cut, mounted again.
View == IF phase = "on" THEN {fs} ELSE {FMount(fs)}

\* In a directory whose table a fault may have left half changed.
Torn(l) == l.path \in Dirs /\ Object(l.stat).sclust \in scars.torn
Above(d, p) == Len(d) < Len(p) /\ SubSeq(p, 1, Len(d)) = d
Scathed(ls, p) == 0 \in scars.torn \/ \E d \in ls : Above(d.path, p) /\ Torn(d)

\* What a call puts at a path is there for the next calls, whatever sectors
\* are only in the window, and no call changes what is at another path, not
\* even one that failed at an access to the medium
\* (ff.c: f_open, f_write, f_unlink, f_mkdir, f_rename, f_close).
ReadBack ==
    phase = "on" /\ ~file.open /\ ~scars.wild
        => \A ls \in {Looks(fs)} : \A l \in ls : Holds(fs, l, want[l.path]) \/ Scathed(ls, l.path)

\* Whatever call is cut or has an access fail, and if power goes then: what a
\* successful f_sync, f_close, f_unlink, f_mkdir or f_rename has saved is there
\* when the volume is mounted again, for every path that call does not name
\* (ff.c:1072-1152, 4231).  A directory whose table was being written in two steps
\* may lose what is in it, and nothing else is lost (ff.c:1792, 2297); an f_mkdir
\* that gives back its cluster through an object nobody filled in may free any.
Survives ==
    ~scars.wild =>
        \A s \in {FMount(fs)} : \A ls \in {Looks(s)} :
            \A l \in ls : Holds(s, l, kept[l.path]) \/ Scathed(ls, l.path)

\* The objects whose chain is to be right: not those in a directory that may be half
\* changed, nor that directory itself; and f_truncate saves the entry later than the
\* table, so that a file may keep an end that is free.
Linked(os) ==
    { o \in os : /\ o.path \notin scars.ends /\ ~(o.path \in Dirs /\ o.first \in scars.torn)
                 /\ o.path = EmptyPath \/ 0 \notin scars.torn
                 /\ \A d \in os : d.path \in Dirs /\ Above(d.path, o.path) => d.first \notin scars.torn }
\* No cluster belongs to two objects, on the medium a fault leaves and in what
\* the library sees.  f_rename says of itself that a cut can cause it (ff.c:5301):
\* then it is its two names that share, and no third.
NoCrossLink(os) ==
    \A o, q \in os : o.path # q.path /\ {o.path, q.path} \notin scars.twins => o.clusters \cap q.clusters = {}
\* Every cluster an entry leads to is marked in use: the order of the writes
\* leaves clusters nobody owns at worst (ff.c:1446-1632).
NothingDangles(os, marked) == \A o \in os : o.clusters \subseteq marked

\* Whatever is cut or fails, a cluster has one owner and no owner's chain runs into
\* a cluster that is marked free (the order of writes of ff.c:1072, 1792, 5301).
ChainsSound ==
    ~file.open /\ ~scars.wild =>
        \A s \in View : \A os \in { Linked(all) : all \in {Owners(s)} } :
            NoCrossLink(os) /\ NothingDangles(os, Marked(s))

\* With no fault, clusters in use are owned by an object, and the count of free
\* ones is right once it is known (ff.c:1480, 1625, 4938).
NothingLost ==
    phase = "on" /\ ~file.open /\ faults = 0
        => \A m \in {Marked(fs)} :
              /\ m = UNION { o.clusters : o \in Owners(fs) }
              /\ fs.free # BAD => fs.free = Cardinality(Clusters \ m)

\* A read gives what was written, across the boundaries of sectors, clusters
\* and fragments, before it is saved as after (ff.c:3795-4131, 4527).
ReadsWhatWasWritten == "misread" \notin lapses \/ faults > 0

\* A directory that is read entry by entry while other calls create and remove
\* objects gives every object that is there all the time (fs.c deletes what it
\* lists; ff.c:2364, 4815).
ListsAll == "missed" \notin lapses \/ faults > 0
=============================================================================
