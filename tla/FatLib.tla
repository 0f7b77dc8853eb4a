------------------------------- MODULE FatLib -------------------------------
(***************************************************************************)
(* The calls of FatFs (bdk/libs/fatfs/ff.c) on FAT32 and exFAT volumes:    *)
(* the one-sector window, the allocation table and bitmap, chains of       *)
(* clusters, directories, files and paths.                                 *)
(*                                                                         *)
(* A call of the library is a function on the state of the volume: every   *)
(* operator takes a record s and returns the record after it.              *)
(*   s.disk     the medium: what each sector holds                         *)
(*   s.win, s.winsect, s.wflag   the window: its copy of a sector, which   *)
(*              one, and whether it differs from the medium                *)
(*   s.free, s.last, s.fsi       free_clst, last_clst, fsi_flag            *)
(*   s.obj      the object (FFOBJID) the chain operators work on           *)
(*   s.res      what the call returns; s.val the cluster or table value    *)
(*   s.trace    the media a power cut could leave: one per sector written  *)
(*   s.torn     the directories (by first cluster) whose table the call    *)
(*              changes in more than one write                             *)
(*   s.left     accesses before the one that fails (0: none will)          *)
(*                                                                         *)
(* Sectors are named by area and number; SS units (a directory entry or a  *)
(* piece of data) make a sector, PerFat entries of the table do.           *)
(*                                                                         *)
(* Routines call each other through Lib, by their name in the code: it is  *)
(* the one recursive operator all of them share, so a tool that expands    *)
(* definitions meets each of them once.                                    *)
(***************************************************************************)
EXTENDS Integers, Sequences, FiniteSets, SequencesExt

CONSTANTS
    SS,         \* units in a sector
    PerFat,     \* table entries in a sector
    Ent         \* fs->n_fatent: clusters are 2 .. Ent - 1

\* Calls of routine f on s with arguments x; the definition is at the end.
RECURSIVE Lib(_, _, _)
MoveWindow(s, sect) == Lib("move_window", s, <<sect>>)
SyncFs(s) == Lib("sync_fs", s, <<>>)
GetFat(s, c) == Lib("get_fat", s, <<c>>)
PutFat(s, c, v) == Lib("put_fat", s, <<c, v>>)
ChangeBitmap(s, first, n, bit) == Lib("change_bitmap", s, <<first, n, bit>>)
FillFirstFrag(s) == Lib("fill_first_frag", s, <<>>)
FillLastFrag(s, lcl, term) == Lib("fill_last_frag", s, <<lcl, term>>)
RemoveChain(s, c, prev) == Lib("remove_chain", s, <<c, prev>>)
CreateChain(s, c) == Lib("create_chain", s, <<c>>)
DirClear(s, c) == Lib("dir_clear", s, <<c>>)
DirSdi(s, ofs) == Lib("dir_sdi", s, <<ofs>>)
DirNext(s, stretch) == Lib("dir_next", s, <<stretch>>)
DirAlloc(s, nent) == Lib("dir_alloc", s, <<nent>>)
LoadXdir(s) == Lib("load_xdir", s, <<>>)
LoadObjXdir(s, o) == Lib("load_obj_xdir", s, <<o>>)
StoreXdir(s) == Lib("store_xdir", s, <<>>)
DirRead(s) == Lib("dir_read", s, <<>>)
DirFind(s) == Lib("dir_find", s, <<>>)
DirRegister(s) == Lib("dir_register", s, <<>>)
DirRemove(s) == Lib("dir_remove", s, <<>>)
FollowPath(s, path) == Lib("follow_path", s, <<path>>)
WriteCluster(s) == Lib("write_cluster", s, <<>>)
ReadCluster(s) == Lib("read_cluster", s, <<>>)
EmptyX(s) == Lib("empty_x", s, <<>>)
EmptyF(s) == Lib("empty_f", s, <<>>)
Opened(s, path, mode) == Lib("opened", s, <<path, mode>>)
ToEnd(s) == Lib("to_end", s, <<>>)
SeekOn(s, ofs) == Lib("seek_on", s, <<ofs>>)
SeekFrom(s, ofs) == Lib("seek_from", s, <<ofs>>)
WriteOn(s, data) == Lib("write_on", s, <<data>>)
ReadOn(s, n, data) == Lib("read_on", s, <<n, data>>)
FMount(s) == Lib("f_mount", s, <<>>)
FOpen(s, path, mode) == Lib("f_open", s, <<path, mode>>)
FRead(s, n) == Lib("f_read", s, <<n>>)
FWrite(s, data) == Lib("f_write", s, <<data>>)
FSync(s) == Lib("f_sync", s, <<>>)
FClose(s) == Lib("f_close", s, <<>>)
FLseek(s, to) == Lib("f_lseek", s, <<to>>)
FTruncate(s) == Lib("f_truncate", s, <<>>)
FUnlink(s, path, junk) == Lib("f_unlink", s, <<path, junk>>)
FMkdir(s, path, junk) == Lib("f_mkdir", s, <<path, junk>>)
FRename(s, old, new) == Lib("f_rename", s, <<old, new>>)
FChmod(s, path, ro) == Lib("f_chmod", s, <<path, ro>>)
FUtime(s, path, time) == Lib("f_utime", s, <<path, time>>)
FStat(s, path) == Lib("f_stat", s, <<path>>)
FOpendir(s, path) == Lib("f_opendir", s, <<path>>)
FReaddir(s) == Lib("f_readdir", s, <<>>)
FGetfree(s) == Lib("f_getfree", s, <<>>)

Clusters == 2 .. (Ent - 1)
EOC == 100          \* the end of a chain
BAD == 101          \* 0xFFFFFFFF: disk error, and the value of unknown counts
NoSect == <<"none", 0>>

FatSect(c) == <<"fat", c \div PerFat>>
BitSect == <<"bit", 0>>
InfoSect == <<"info", 0>>

Zero == [t |-> "zero"]
ZeroSect == [ i \in 1 .. SS |-> Zero ]

Fail(s, res) == [s EXCEPT !.res = res]
Val(s, v) == [s EXCEPT !.val = v]
\* The next call, unless an earlier one has failed.
Then(s, Op(_)) == IF s.res = "ok" THEN Op(s) ELSE s
-----------------------------------------------------------------------------
(* The medium.  An access may fail; what is written is one more medium that a
   power cut can leave. *)
Access(s) ==
    IF s.left = 0 THEN s
    ELSE [s EXCEPT !.left = @ - 1, !.res = IF s.left = 1 THEN "disk" ELSE @]

DiskRead(s, sect) ==
    Then(Access(s), LAMBDA a : [a EXCEPT !.got = a.disk[sect]])
DiskWrite(s, sect, data) ==
    Then(Access(s), LAMBDA a : [a EXCEPT !.disk[sect] = data,
                                         !.trace = Append(@, [a.disk EXCEPT ![sect] = data])])

(* The second copy of the table is written after the first, and its failure is
   not looked at. *)
Reflect(s, sect, data) ==
    IF s.fats = 2 /\ sect[1] = "fat"
    THEN [DiskWrite(s, <<"fat2", sect[2]>>, data) EXCEPT !.res = "ok"]
    ELSE s

SyncWindow(s) ==
    IF ~s.wflag THEN s
    ELSE Then(DiskWrite(s, s.winsect, s.win),
              LAMBDA a : Reflect([a EXCEPT !.wflag = FALSE], s.winsect, s.win))

\* A read that fails leaves no sector in the window.
move_window(s, sect) ==
    IF sect = s.winsect THEN s
    ELSE Then(SyncWindow(s),
              LAMBDA a : LET b == DiskRead(a, sect)
                         IN IF b.res = "ok" THEN [b EXCEPT !.win = b.got, !.winsect = sect]
                            ELSE [b EXCEPT !.winsect = NoSect])

SyncFsLazy(s) ==    \* mutant: the window stays unwritten when a call ends
    s

(* On FAT32 the count of free clusters and the last one go to the FSInfo
   sector through the window; that write is not checked. *)
sync_fs(s) ==
    Then(SyncWindow(s),
         LAMBDA a :
            IF a.type = "fat32" /\ a.fsi
            THEN LET info == <<[t |-> "info", free |-> a.free, last |-> a.last]>>
                     b == [a EXCEPT !.win = info, !.winsect = InfoSect, !.fsi = FALSE]
                 IN [DiskWrite(b, InfoSect, info) EXCEPT !.res = "ok"]
            ELSE a)

Modify(s, data) == [s EXCEPT !.win = data, !.wflag = TRUE]
\* The sector a cluster starts with; 0 in the code for a number out of range.
SectOf(s, c) == IF c \in Clusters THEN <<"dat", (c - 2) * s.csize>> ELSE NoSect
Plus(sect, n) == IF sect = NoSect THEN sect ELSE <<sect[1], sect[2] + n>>
-----------------------------------------------------------------------------
(* The table.  On exFAT a chain without a break is not in the table at all
   (stat 2), or only its first part is missing (stat 3), or it is all there
   (stat 0) but for the last part while the file grows (n_frag). *)
Stored(s, c) ==
    LET a == MoveWindow(s, FatSect(c)) IN IF a.res = "ok" THEN Val(a, a.win[c]) ELSE Val(a, BAD)

get_fat(s, c) ==
    LET o == s.obj
        ofs == c - o.sclust
        end == IF o.size = 0 THEN EOC ELSE ((o.size - 1) \div SS) \div s.csize
        known == (o.size # 0 /\ o.sclust # 0) \/ o.stat = 0
    IN IF c \notin Clusters THEN Val(s, 1)
       ELSE IF s.type = "fat32" THEN Stored(s, c)
       ELSE IF ~known THEN Val(s, 1)
       ELSE IF o.stat = 2 /\ ofs \in 0 .. end THEN Val(s, IF ofs = end THEN EOC ELSE c + 1)
       ELSE IF o.stat = 3 /\ ofs \in 0 .. (o.ncont - 1) THEN Val(s, c + 1)
       ELSE IF o.stat = 2 THEN Val(s, 1)
       ELSE IF o.nfrag # 0 THEN Val(s, EOC)
       ELSE Stored(s, c)

put_fat(s, c, v) ==
    IF c \notin Clusters THEN Fail(s, "int")
    ELSE Then(MoveWindow(s, FatSect(c)), LAMBDA a : Modify(a, [a.win EXCEPT ![c] = v]))

\* A free cluster at or after c, going round; 0 when there is none.
FindBitmap(s, c) ==
    LET a == MoveWindow(s, BitSect)
        from == IF c \in Clusters THEN c ELSE 2
        open == Clusters \ a.win
        after == { n \in open : n >= from }
    IN IF a.res # "ok" THEN Val(a, BAD)
       ELSE IF open = {} THEN Val(a, 0)
       ELSE Val(a, CHOOSE n \in (IF after # {} THEN after ELSE open) :
                      \A m \in (IF after # {} THEN after ELSE open) : n <= m)

\* A bit that already has its value is an internal error; the ones before it
\* have been flipped by then.
change_bitmap(s, first, n, bit) ==
    LET a == MoveWindow(s, BitSect)
        run == first .. (first + n - 1)
        wrong == { c \in run : (c \in a.win) = bit }
        done == { c \in run : \A w \in wrong : c < w }
        b == IF done = {} THEN a
             ELSE Modify(a, IF bit THEN a.win \cup done ELSE a.win \ done)
    IN IF a.res # "ok" THEN a ELSE IF wrong # {} THEN Fail(b, "int") ELSE b

FillFirstFragForgets(s) ==    \* mutant: the first part never gets to the table
    IF s.obj.stat # 3 THEN s ELSE [s EXCEPT !.obj.stat = 0]

\* The first part of a chain that broke in this session goes to the table.
fill_first_frag(s) ==
    IF s.obj.stat # 3 THEN s
    ELSE LET o == s.obj
             a == FoldLeftDomain(LAMBDA t, i : Then(t, LAMBDA u : PutFat(u, o.sclust + i - 1, o.sclust + i)),
                                 s, [ i \in 1 .. o.ncont |-> i ])
         IN Then(a, LAMBDA t : [t EXCEPT !.obj.stat = 0])

\* So does the last part, ending in term.
fill_last_frag(s, lcl, term) ==
    FoldLeftDomain(
        LAMBDA t, i :
            Then(t, LAMBDA u :
                Then(PutFat(u, lcl - u.obj.nfrag + 1,
                            IF u.obj.nfrag > 1 THEN lcl - u.obj.nfrag + 2 ELSE term),
                     LAMBDA w : [w EXCEPT !.obj.nfrag = @ - 1])),
        s, [ i \in 1 .. s.obj.nfrag |-> i ])
-----------------------------------------------------------------------------
(* Chains. *)
OnTable(s) == s.type = "fat32" \/ s.obj.stat # 2
Counted(s, n) == IF s.free < Ent - 2 THEN [s EXCEPT !.free = @ + n, !.fsi = TRUE] ELSE s

\* Frees the chain from c on; scl .. ecl is the run of clusters not yet cleared
\* in the bitmap.
RECURSIVE FreeFrom(_, _, _, _)
FreeFrom(s, c, scl, ecl) ==
    LET g == GetFat(s, c)
        nxt == g.val
        a == IF s.type = "fat32" THEN PutFat(g, c, 0) ELSE g
        b == Counted(a, 1)
        d == IF ecl + 1 = nxt THEN b
             ELSE IF s.type = "exfat" THEN ChangeBitmap(b, scl, ecl - scl + 1, FALSE) ELSE b
    IN IF nxt = 0 THEN g
       ELSE IF nxt = 1 THEN Fail(g, "int")
       ELSE IF g.res # "ok" THEN g
       ELSE IF a.res # "ok" THEN a
       ELSE IF d.res # "ok" THEN d
       ELSE IF nxt >= Ent THEN d
       ELSE IF ecl + 1 = nxt THEN FreeFrom(d, nxt, scl, nxt) ELSE FreeFrom(d, nxt, nxt, nxt)

\* Follows the chain from c while it has no break, as far as last.
RECURSIVE Contiguous(_, _, _)
Contiguous(s, c, last) ==
    IF c = last THEN [s EXCEPT !.obj.stat = 2]
    ELSE LET g == GetFat(s, c)
         IN IF g.val < 2 THEN Fail(g, "int")
            ELSE IF g.res # "ok" THEN g
            ELSE IF g.val # c + 1 THEN g ELSE Contiguous(g, c + 1, last)

remove_chain(s, c, prev) ==
    IF c \notin Clusters THEN Fail(s, "int")
    ELSE LET o == s.obj
             a == IF prev # 0 /\ OnTable(s) THEN PutFat(s, prev, EOC) ELSE s
             b == Then(a, LAMBDA t : FreeFrom(t, c, c, c))
         IN IF b.res # "ok" \/ s.type = "fat32" THEN b
            ELSE IF prev = 0 THEN [b EXCEPT !.obj.stat = 0]
            ELSE IF o.stat = 0 THEN Contiguous(b, o.sclust, prev)
            ELSE IF o.stat = 3 /\ prev >= o.sclust /\ prev <= o.sclust + o.ncont
                 THEN [b EXCEPT !.obj.stat = 2] ELSE b

\* A free entry of the table after scl, going round once; 0 when there is none.
RECURSIVE FindFree(_, _, _)
FindFree(s, scl, at) ==
    LET ncl == IF at + 1 >= Ent THEN 2 ELSE at + 1
        g == GetFat(s, ncl)
    IN IF at + 1 >= Ent /\ ncl > scl THEN Val(s, 0)
       ELSE IF g.val = 0 THEN Val(g, ncl)
       ELSE IF g.val = 1 \/ g.val = BAD THEN g
       ELSE IF ncl = scl THEN Val(g, 0)
       ELSE FindFree(g, scl, ncl)

\* FAT32: the cluster after the last one of the chain if it is free, else one
\* searched for from the last allocation on.
PickFat(s, c, scl) ==
    LET next == IF scl + 1 >= Ent THEN 2 ELSE scl + 1
        g == GetFat(s, next)
        from == IF g.last \in Clusters THEN g.last ELSE scl
    IN IF c = 0 THEN FindFree(s, scl, scl)
       ELSE IF g.val = 1 \/ g.val = BAD THEN g
       ELSE IF g.val = 0 THEN Val(g, next)
       ELSE FindFree(g, from, from)

\* exFAT: what a new cluster does to the form the chain is kept in.
Extend(s, c, ncl) ==
    LET o == s.obj
        a == IF c = 0 THEN [s EXCEPT !.obj.stat = 2]
             ELSE IF o.stat = 2 /\ ncl # c + 1
                  THEN [s EXCEPT !.obj.ncont = c - o.sclust, !.obj.stat = 3] ELSE s
    IN IF a.obj.stat = 2 THEN a
       ELSE IF ncl = c + 1 THEN [a EXCEPT !.obj.nfrag = IF @ # 0 THEN @ + 1 ELSE 2]
       ELSE Then(FillLastFrag([a EXCEPT !.obj.nfrag = IF @ = 0 THEN 1 ELSE @], c, ncl),
                 LAMBDA t : [t EXCEPT !.obj.nfrag = 1])

ClaimLater(s, c, ncl) ==    \* mutant: the new cluster is linked to before it is marked
    IF s.type = "exfat"
    THEN Extend(s, c, ncl)
    ELSE IF c # 0 THEN PutFat(s, c, ncl) ELSE s

\* The bitmap on exFAT, the table on FAT32: the new cluster is marked first and
\* linked to then.
Claim(s, c, ncl) ==
    IF s.type = "exfat"
    THEN Then(ChangeBitmap(s, ncl, 1, TRUE), LAMBDA t : Extend(t, c, ncl))
    ELSE Then(PutFat(s, ncl, EOC), LAMBDA t : IF c # 0 THEN PutFat(t, c, ncl) ELSE t)

CreateChainCounts(s, c) ==    \* mutant: a count that is not known is counted down
    LET scl == IF c # 0 THEN c ELSE IF s.last \in 1 .. (Ent - 1) THEN s.last ELSE 1
        p == IF s.type = "exfat" THEN FindBitmap(s, scl) ELSE PickFat(s, c, scl)
    IN [Claim(p, c, p.val) EXCEPT !.val = p.val, !.last = p.val, !.fsi = TRUE, !.free = @ - 1]

\* Stretches the chain that ends in c, or starts one (c = 0).  The new cluster,
\* 0 when there is none, 1 or BAD on errors is the value; as in the code the
\* caller looks at the value and not at the result.
create_chain(s, c) ==
    LET g == IF c = 0 THEN s ELSE GetFat(s, c)
        scl == IF c # 0 THEN c ELSE IF s.last \in 1 .. (Ent - 1) THEN s.last ELSE 1
        p == IF s.type = "exfat" THEN FindBitmap(g, scl) ELSE PickFat(g, c, scl)
        a == Claim(p, c, p.val)
    IN IF c # 0 /\ g.val < 2 THEN Val(g, 1)
       ELSE IF c # 0 /\ (g.val = BAD \/ g.val < Ent) THEN g
       ELSE IF g.free = 0 THEN Val(g, 0)
       ELSE IF p.val \notin Clusters THEN p
       ELSE IF a.res = "ok"
            THEN [a EXCEPT !.val = p.val, !.last = p.val, !.fsi = TRUE,
                           !.free = IF @ <= Ent - 2 THEN @ - 1 ELSE @]
       ELSE Val(a, IF a.res = "disk" THEN BAD ELSE 1)

\* How the callers turn the value into a result.
Chained(s) ==
    IF s.val = 0 THEN Fail(s, "full") ELSE IF s.val = 1 THEN Fail(s, "int")
    ELSE IF s.val = BAD THEN Fail(s, "disk") ELSE s

-----------------------------------------------------------------------------
(***************************************************************************)
(* Directories of FatFs: finding, creating and removing the entries of an  *)
(* object.  On FAT32 an object is one entry with its 8.3 name, after an    *)
(* entry with the long name when it has one; on exFAT it is a set of three *)
(* entries (85 attributes, C0 stream, C1 name) with a checksum over all.   *)
(*                                                                         *)
(* s.obj is the object of the directory in use (dp->obj) and s.dp the rest *)
(* of it: dptr the offset of an entry, sect and clust where it is, blk     *)
(* where the entries of the object start, name what is looked for.  s.buf  *)
(* is fs->dirbuf.  A name is a record: long says it needs more than 8.3,   *)
(* stem what remains of it in eight characters; a checksum stands for the  *)
(* data it is made from.                                                   *)
(***************************************************************************)

NoBlk == -1
CsUnits(s) == s.csize * SS
Root == [sclust |-> 0, size |-> 0, stat |-> 0, ncont |-> 0, nfrag |-> 0, isdir |-> TRUE,
         ro |-> FALSE, cscl |-> 0, cstat |-> 0, cdsize |-> 0, cofs |-> 0]
NoDir == [dptr |-> 0, sect |-> NoSect, clust |-> 0, blk |-> NoBlk, fn |-> <<>>,
          name |-> <<>>, loss |-> FALSE, nolfn |-> FALSE]

Sfn(name, n) == IF name.long THEN <<name.stem, n>> ELSE <<name.stem, 0>>
SfnEntry(fn) == [t |-> "sfn", fn |-> fn, isdir |-> FALSE, ro |-> FALSE, clst |-> 0,
                 size |-> 0, time |-> 0]
LfnEntry(name, fn) == [t |-> "lfn", name |-> name, sum |-> fn]
Entry(s) == s.win[(s.dp.dptr % SS) + 1]
SetEntry(s, e) == Modify(s, [s.win EXCEPT ![(s.dp.dptr % SS) + 1] = e])
AtEntry(s) == MoveWindow(s, s.dp.sect)
-----------------------------------------------------------------------------
\* Fills a new table with empty entries, past the window; a table the window
\* was loaded with zeroes for stays in it even when the medium fails.
dir_clear(s, c) ==
    Then(SyncWindow(s),
         LAMBDA a :
            FoldLeftDomain(LAMBDA t, i : Then(t, LAMBDA u : DiskWrite(u, Plus(SectOf(u, c), i - 1), ZeroSect)),
                           [a EXCEPT !.winsect = SectOf(a, c), !.win = ZeroSect],
                           [ i \in 1 .. a.csize |-> i ]))

\* n links of the chain from c on.
RECURSIVE Follow(_, _, _)
Follow(s, c, n) ==
    IF n = 0 THEN Val(s, c)
    ELSE LET g == GetFat(s, c)
         IN IF g.val = BAD THEN Fail(g, "disk")
            ELSE IF g.val \notin Clusters THEN Fail(g, "int") ELSE Follow(g, g.val, n - 1)

dir_sdi(s, ofs) ==
    LET a == IF s.obj.sclust = 0 THEN [s EXCEPT !.obj.stat = 0] ELSE s
        c == IF s.obj.sclust = 0 THEN s.root ELSE s.obj.sclust
        f == Follow([a EXCEPT !.dp.dptr = ofs], c, ofs \div CsUnits(s))
    IN Then(f, LAMBDA t :
          IF SectOf(t, t.val) = NoSect THEN Fail(t, "int")
          ELSE [t EXCEPT !.dp.clust = t.val,
                         !.dp.sect = Plus(SectOf(t, t.val), (ofs % CsUnits(t)) \div SS)])

AtEnd(s) == [s EXCEPT !.dp.sect = NoSect, !.res = "nofile"]
NextCluster(s, ofs, c) ==
    [s EXCEPT !.dp.clust = c, !.dp.sect = SectOf(s, c), !.dp.dptr = ofs]
\* One more cluster for the table.  The link to it is on the medium before the
\* cluster is cleared.
Stretch(s, ofs) ==
    LET a == [Chained(CreateChain(s, s.dp.clust)) EXCEPT !.torn = @ \cup {s.obj.sclust}]
        b == DirClear(a, a.val)
    IN IF a.res = "full" THEN Fail(a, "denied")
       ELSE IF a.res # "ok" THEN a
       ELSE IF b.res # "ok" THEN b
       ELSE NextCluster([b EXCEPT !.obj.stat = IF @ < 4 THEN @ + 4 ELSE @], ofs, a.val)

DirNextStays(s, stretch) ==    \* mutant: a directory ends with its first cluster
    LET ofs == s.dp.dptr + 1
    IN IF s.dp.sect = NoSect THEN Fail(s, "nofile")
       ELSE IF ofs % SS # 0 THEN [s EXCEPT !.dp.dptr = ofs]
       ELSE IF stretch THEN Stretch(s, ofs) ELSE AtEnd(s)
dir_next(s, stretch) ==
    LET ofs == s.dp.dptr + 1
        g == GetFat(s, s.dp.clust)
    IN IF s.dp.sect = NoSect THEN Fail(s, "nofile")
       ELSE IF ofs % SS # 0 THEN [s EXCEPT !.dp.dptr = ofs]
       ELSE IF (ofs \div SS) % s.csize # 0
            THEN [s EXCEPT !.dp.dptr = ofs, !.dp.sect = Plus(@, 1)]
       ELSE IF g.val <= 1 THEN Fail(g, "int")
       ELSE IF g.val = BAD THEN Fail(g, "disk")
       ELSE IF g.val < Ent THEN NextCluster(g, ofs, g.val)
       ELSE IF stretch THEN Stretch(g, ofs) ELSE AtEnd(g)

Vacant(s) == Entry(s).t \in {"zero", "del"}
\* nent free entries in a row; n of them are found so far.
RECURSIVE Alloc(_, _, _)
Alloc(s, nent, n) ==
    LET a == AtEntry(s)
        b == DirNext(a, TRUE)
    IN IF a.res # "ok" THEN a
       ELSE IF Vacant(a) /\ n + 1 = nent THEN a
       ELSE IF b.res # "ok" THEN b
       ELSE Alloc(b, nent, IF Vacant(a) THEN n + 1 ELSE 0)
dir_alloc(s, nent) ==
    LET a == Then(DirSdi(s, 0), LAMBDA t : Alloc(t, nent, 0))
    IN IF a.res = "nofile" THEN Fail(a, "denied") ELSE a
-----------------------------------------------------------------------------
(* exFAT entry sets. *)
SetSum(buf) == <<buf[2], buf[3]>>

\* The three entries from the current one on, into the buffer.
Took(s, i, type) ==
    Then(Then(s, AtEntry),
         LAMBDA t : IF Entry(t).t # type THEN Fail(t, "int") ELSE [t EXCEPT !.buf[i] = Entry(t)])
Onward(s) ==
    LET n == DirNext(s, FALSE) IN IF n.res = "nofile" THEN Fail(n, "int") ELSE n
load_xdir(s) ==
    LET e1 == Took(s, 1, "x85")
        e2 == Took(Then(e1, Onward), 2, "xC0")
        e3 == Took(Then(e2, Onward), 3, "xC1")
    IN Then(e3, LAMBDA t : IF t.buf[1].sum # SetSum(t.buf) THEN Fail(t, "int") ELSE t)

\* The object the buffer describes.
InitAllocInfo(o, buf) ==
    [o EXCEPT !.sclust = buf[2].clst, !.size = buf[2].size, !.stat = buf[2].stat, !.nfrag = 0]

\* The entry of an object, through what the object keeps of its directory.
load_obj_xdir(s, o) ==
    LET home == [Root EXCEPT !.sclust = o.cscl, !.stat = o.cstat, !.size = o.cdsize]
    IN Then(DirSdi([s EXCEPT !.obj = home, !.dp = [NoDir EXCEPT !.blk = o.cofs]], o.cofs), LoadXdir)

RECURSIVE Store(_, _)
Store(s, i) ==
    LET a == Then(s, LAMBDA t : Then(AtEntry(t), LAMBDA u : SetEntry(u, u.buf[i])))
    IN IF i = 3 THEN a ELSE Store(Then(a, LAMBDA t : DirNext(t, FALSE)), i + 1)
store_xdir(s) ==
    LET b == [s EXCEPT !.buf[1].sum = SetSum(s.buf),
                       !.torn = IF s.dp.blk % SS > SS - 3 THEN @ \cup {s.obj.sclust} ELSE @]
        a == Store(DirSdi(b, b.dp.blk), 1)
    IN IF a.res \in {"ok", "disk"} THEN a ELSE Fail(a, "int")

CreateXdir(s) ==
    [s EXCEPT !.buf = << [t |-> "x85", isdir |-> FALSE, ro |-> FALSE, time |-> 0, sum |-> <<>>],
                         [t |-> "xC0", stat |-> 0, clst |-> 0, size |-> 0],
                         [t |-> "xC1", name |-> s.dp.name] >>]
-----------------------------------------------------------------------------
\* The next object from the current entry on, or "nofile".
RECURSIVE ReadFrom(_, _)
ReadFrom(s, lfn) ==
    LET a == AtEntry(s)
        e == Entry(a)
        \* a valid long name entry is right before its short one
        seen == IF e.t = "lfn" THEN e ELSE Zero
        b == IF e.t = "lfn" THEN [a EXCEPT !.dp.blk = a.dp.dptr] ELSE a
        x == LoadXdir([a EXCEPT !.dp.blk = a.dp.dptr])
        f == IF lfn.t = "lfn" /\ lfn.sum = e.fn THEN [a EXCEPT !.found = lfn.name]
             ELSE [a EXCEPT !.dp.blk = NoBlk, !.found = [stem |-> e.fn[1], long |-> FALSE]]
        n == DirNext(b, FALSE)
    IN IF s.dp.sect = NoSect THEN Fail(s, "nofile")
       ELSE IF a.res # "ok" THEN a
       ELSE IF e.t = "zero" THEN Fail(a, "nofile")
       ELSE IF e.t = "x85"
            THEN IF x.res = "ok" THEN [x EXCEPT !.obj.isdir = x.buf[1].isdir, !.obj.ro = x.buf[1].ro,
                                                !.found = x.buf[3].name]
                 ELSE x
       ELSE IF e.t = "sfn" /\ e.fn[1] \notin {".", ".."}
            THEN [f EXCEPT !.obj.isdir = e.isdir, !.obj.ro = e.ro]
       ELSE IF n.res # "ok" THEN n ELSE ReadFrom(n, seen)
\* An error or the end closes the directory for reading.
dir_read(s) ==
    LET a == ReadFrom(s, Zero) IN IF a.res = "ok" THEN a ELSE [a EXCEPT !.dp.sect = NoSect]

\* exFAT: the object of that name.
RECURSIVE FindX(_)
FindX(s) ==
    LET a == DirRead(s)
    IN IF a.res # "ok" \/ a.buf[3].name = a.dp.name THEN a ELSE FindX(a)

\* FAT32: the object of that name, by its long name or by its short one.
RECURSIVE FindF(_, _)
FindF(s, lfn) ==
    LET a == AtEntry(s)
        e == Entry(a)
        long == e.t = "lfn" /\ ~a.dp.nolfn
        b == IF long THEN [a EXCEPT !.dp.blk = a.dp.dptr]
             ELSE IF e.t = "lfn" THEN a ELSE [a EXCEPT !.dp.blk = NoBlk]
        c == IF e.t = "sfn" THEN [a EXCEPT !.obj.isdir = e.isdir, !.obj.ro = e.ro] ELSE a
        n == DirNext(b, FALSE)
    IN IF a.res # "ok" THEN a
       ELSE IF e.t = "zero" THEN Fail(a, "nofile")
       ELSE IF e.t = "sfn" /\ lfn.t = "lfn" /\ lfn.name = a.dp.name /\ lfn.sum = e.fn THEN c
       ELSE IF e.t = "sfn" /\ ~a.dp.loss /\ e.fn = a.dp.fn THEN c
       ELSE IF n.res # "ok" THEN n ELSE FindF(n, IF long THEN e ELSE Zero)

dir_find(s) ==
    Then(DirSdi(s, 0),
         LAMBDA a : IF a.type = "exfat" THEN FindX(a)
                    ELSE FindF([a EXCEPT !.dp.blk = NoBlk], Zero))
-----------------------------------------------------------------------------
\* exFAT: a directory that has grown is written to its own entry.
Grown(s) ==
    LET a == Then(FillFirstFrag([s EXCEPT !.obj.stat = @ - 4]),
                  LAMBDA t : FillLastFrag(t, t.dp.clust, EOC))
        o == [a.obj EXCEPT !.size = @ + CsUnits(s)]
        l == LoadObjXdir(a, o)
        w == StoreXdir([l EXCEPT !.buf[2].size = o.size, !.buf[2].stat = o.stat])
    IN IF a.res # "ok" \/ a.obj.sclust = 0 THEN a
       ELSE IF l.res # "ok" THEN l
       ELSE [w EXCEPT !.obj = o, !.dp = a.dp]

RegisterX(s) ==
    LET a == DirAlloc(s, 3)
        b == [a EXCEPT !.dp.blk = a.dp.dptr - 2]
    IN IF a.res # "ok" THEN a
       ELSE Then(IF b.obj.stat >= 4 THEN Grown(b) ELSE b, CreateXdir)

\* FAT32: the first number that makes the short name free.
MaxNumber == 3    \* 99 in the code
RECURSIVE Numbered(_, _)
Numbered(s, n) ==
    LET a == DirFind([s EXCEPT !.dp.fn = Sfn(s.dp.name, n)])
    IN IF n > MaxNumber THEN Fail(s, "denied")
       ELSE IF a.res = "ok" THEN Numbered(a, n + 1) ELSE a

\* FAT32: the long name goes first, then the entry with the short name, in the
\* entry after it.
PutLong(s) ==
    Then(DirSdi(s, s.dp.dptr - 1),
         LAMBDA a : Then(Then(AtEntry(a), LAMBDA b : SetEntry(b, LfnEntry(b.dp.name, b.dp.fn))),
                         LAMBDA b : DirNext(b, FALSE)))
RegisterFBare(s) ==    \* mutant: the long name is not written
    Then(DirAlloc(s, 1), LAMBDA t : Then(AtEntry(t), LAMBDA u : SetEntry(u, SfnEntry(u.dp.fn))))
RegisterF(s) ==
    LET long == s.dp.name.long
        a == IF ~long THEN s
             ELSE Numbered([s EXCEPT !.dp.loss = FALSE, !.dp.nolfn = TRUE], 1)
        b == [a EXCEPT !.res = "ok", !.dp.loss = long, !.dp.nolfn = FALSE]
        c == DirAlloc(b, IF long THEN 2 ELSE 1)
        d == IF long THEN Then(c, PutLong) ELSE c
    IN IF long /\ a.res # "nofile" THEN a
       ELSE Then(d, LAMBDA t : Then(AtEntry(t), LAMBDA u : SetEntry(u, SfnEntry(u.dp.fn))))

dir_register(s) == IF s.type = "exfat" THEN RegisterX(s) ELSE RegisterF(s)

RECURSIVE RemoveTo(_, _)
RemoveTo(s, last) ==
    LET a == Then(AtEntry(s), LAMBDA t : SetEntry(t, [t |-> "del"]))
        n == DirNext(a, FALSE)
    IN IF a.res # "ok" \/ a.dp.dptr >= last THEN a
       ELSE IF n.res = "nofile" THEN Fail(n, "int")
       ELSE IF n.res # "ok" THEN n ELSE RemoveTo(n, last)
dir_remove(s) ==
    Then(IF s.dp.blk = NoBlk THEN s ELSE DirSdi(s, s.dp.blk),
         LAMBDA a : RemoveTo(a, s.dp.dptr))
-----------------------------------------------------------------------------
(* Paths. *)
Named(s, name) ==
    [s EXCEPT !.dp.name = name, !.dp.loss = name.long, !.dp.nolfn = FALSE,
              !.dp.fn = Sfn(name, 0)]
\* Into the directory that was found, keeping where its own entry is.
Enter(s) ==
    IF s.type = "exfat"
    THEN [s EXCEPT !.obj = [InitAllocInfo(@, s.buf) EXCEPT
                              !.cscl = s.obj.sclust, !.cdsize = s.obj.size,
                              !.cstat = s.obj.stat, !.cofs = s.dp.blk]]
    ELSE [s EXCEPT !.obj.sclust = Entry(s).clst]

RECURSIVE Walk(_, _)
Walk(s, path) ==
    LET a == DirFind(Named(s, path[1]))
    IN IF Len(path) = 1 THEN a
       ELSE IF a.res = "nofile" \/ (a.res = "ok" /\ ~a.obj.isdir) THEN Fail(a, "nopath")
       ELSE IF a.res # "ok" THEN a ELSE Walk(Enter(a), Tail(path))
follow_path(s, path) ==
    LET a == [s EXCEPT !.obj = [Root EXCEPT !.cscl = 0], !.dp = NoDir]
    IN IF path = <<>> THEN DirSdi(a, 0) ELSE Walk(a, path)

-----------------------------------------------------------------------------
(***************************************************************************)
(* The calls of FatFs on files and paths.  Each takes the state of the     *)
(* volume and returns it with the result in res; a call on an open file    *)
(* finds the file in s.fil (FIL: obj, the position fptr, the cluster and   *)
(* the sector it is at, the sector buffer buf, and where the entry is).    *)
(* Time stamps are kept only as "set by f_utime".                          *)
(***************************************************************************)

NoFile == [open |-> FALSE, obj |-> Root, mode |-> {}, dirty |-> FALSE, modified |-> FALSE,
           err |-> "ok", fptr |-> 0, clust |-> 0, sect |-> NoSect, buf |-> <<>>,
           dsect |-> NoSect, dent |-> 0]
\* A result that stays with the file: every later read, write and seek fails.
Abort(s, res) == [s EXCEPT !.res = res, !.fil.err = res]
Sticky(s) == IF s.res = "ok" THEN s ELSE Abort(s, s.res)
\* The chain operators work on the object of the file.
OnFile(s) == [s EXCEPT !.obj = s.fil.obj, !.res = "ok"]
Kept(s) == [s EXCEPT !.fil.obj = s.obj]
AtPath(s, path) == FollowPath([s EXCEPT !.res = "ok"], path)
-----------------------------------------------------------------------------
(* f_mount and find_volume: nothing is known of the free clusters, and FAT32
   leaves the FSInfo sector in the window, which says where to look first. *)
f_mount(s) ==
    LET a == [s EXCEPT !.res = "ok", !.wflag = FALSE, !.winsect = NoSect, !.win = <<>>,
                       !.free = BAD, !.last = BAD, !.fsi = FALSE]
        i == MoveWindow(a, InfoSect)
    IN IF s.type = "exfat" THEN MoveWindow(a, FatSect(2))
       ELSE IF i.res = "ok" THEN [i EXCEPT !.last = i.win[1].last] ELSE i
-----------------------------------------------------------------------------
(* f_open.  Creating a file over another one empties its entry first and frees
   the clusters then. *)
empty_x(s) ==
    LET o == InitAllocInfo(Root, s.buf)
        a == StoreXdir([s EXCEPT !.buf[1] = [t |-> "x85", isdir |-> FALSE, ro |-> FALSE,
                                             time |-> 0, sum |-> <<>>],
                                 !.buf[2] = [t |-> "xC0", stat |-> 0, clst |-> 0, size |-> 0]])
        r == RemoveChain([a EXCEPT !.obj = o], o.sclust, 0)
    IN IF a.res # "ok" \/ o.sclust = 0 THEN a
       ELSE [r EXCEPT !.obj = a.obj, !.last = o.sclust - 1]
empty_f(s) ==
    LET e == Entry(s)
        a == SetEntry(s, [e EXCEPT !.clst = 0, !.size = 0, !.isdir = FALSE, !.ro = FALSE])
        r == RemoveChain(a, e.clst, 0)
        m == Then(r, LAMBDA t : MoveWindow(t, s.winsect))
    IN IF e.clst = 0 THEN a
       ELSE IF r.res # "ok" THEN r ELSE [m EXCEPT !.last = e.clst - 1]

Creating(mode) == mode \cap {"always", "new", "open"} # {}
\* The entry of the file: found, or made, or emptied.
opened(s, path, mode) ==
    LET a == AtPath(s, path)
        new == a.res = "nofile"
        b == IF new THEN DirRegister([a EXCEPT !.res = "ok"]) ELSE a
        c == IF s.type = "exfat" THEN EmptyX(b) ELSE EmptyF(b)
    IN IF a.res = "ok" /\ path = <<>> THEN Fail(a, "name")
       ELSE IF Creating(mode)
       THEN IF b.res # "ok" THEN b
            ELSE IF ~new /\ (b.obj.isdir \/ b.obj.ro) THEN Fail(b, "denied")
            ELSE IF ~new /\ "new" \in mode THEN Fail(b, "exist")
            ELSE IF new \/ "always" \in mode THEN [c EXCEPT !.changed = TRUE] ELSE b
       ELSE IF a.res # "ok" THEN a
       ELSE IF a.obj.isdir THEN Fail(a, "nofile")
       ELSE IF "w" \in mode /\ a.obj.ro THEN Fail(a, "denied") ELSE a

OpenObj(s) ==
    IF s.type = "exfat"
    THEN InitAllocInfo([Root EXCEPT !.isdir = FALSE, !.cscl = s.obj.sclust, !.cstat = s.obj.stat,
                                    !.cdsize = s.obj.size, !.cofs = s.dp.blk], s.buf)
    ELSE [Root EXCEPT !.isdir = FALSE, !.sclust = Entry(s).clst, !.size = Entry(s).size]
\* FA_OPEN_APPEND: to the end, with the last sector in the buffer.
to_end(s) ==
    LET size == s.fil.obj.size
        f == Follow([s EXCEPT !.obj = s.fil.obj], s.fil.obj.sclust, (size - 1) \div CsUnits(s))
        ofs == ((size - 1) % CsUnits(s)) + 1
        sect == Plus(SectOf(f, f.val), ofs \div SS)
        a == [f EXCEPT !.fil.fptr = size, !.fil.clust = f.val]
        b == [a EXCEPT !.fil.sect = sect]
        r == DiskRead(b, sect)
    IN IF size = 0 THEN s
       ELSE IF f.res # "ok" \/ ofs % SS = 0 THEN a
       ELSE IF sect = NoSect THEN Fail(a, "int")
       ELSE IF r.res = "ok" THEN [r EXCEPT !.fil.buf = r.got] ELSE r

f_open(s, path, mode) ==
    LET a == Opened([s EXCEPT !.changed = FALSE], path, mode)
        b == [a EXCEPT !.fil = [NoFile EXCEPT
                 !.open = TRUE, !.obj = OpenObj(a), !.mode = mode, !.modified = a.changed,
                 !.buf = ZeroSect, !.dsect = a.winsect, !.dent = (a.dp.dptr % SS) + 1]]
        c == IF "append" \in mode THEN ToEnd(b) ELSE b
    IN IF a.res # "ok" THEN [a EXCEPT !.fil = NoFile]
       ELSE IF c.res # "ok" THEN [c EXCEPT !.fil = NoFile] ELSE c
-----------------------------------------------------------------------------
(* Reading and writing go one sector at a time: whole sectors directly, parts
   through the buffer of the file. *)
Boundary(s) == s.fil.fptr % SS = 0
InCluster(s) == (s.fil.fptr \div SS) % s.csize
AtCluster(s, c) == [s EXCEPT !.fil.clust = c]
Here(s) == Plus(SectOf(s, s.fil.clust), InCluster(s))
Flush(s) ==
    IF ~s.fil.dirty THEN s
    ELSE Then(DiskWrite(s, s.fil.sect, s.fil.buf), LAMBDA t : [t EXCEPT !.fil.dirty = FALSE])
\* The sector of the position into the buffer.
Fetch(s, sect) ==
    Then(Flush(s), LAMBDA t :
         Then(DiskRead(t, sect), LAMBDA u : [u EXCEPT !.fil.buf = u.got, !.fil.sect = sect]))
Least(a, b) == IF a < b THEN a ELSE b

read_cluster(s) ==
    LET g == IF s.fil.fptr = 0 THEN Val(s, s.fil.obj.sclust) ELSE GetFat(s, s.fil.clust)
    IN IF InCluster(s) # 0 THEN s
       ELSE IF g.val < 2 THEN Fail(g, "int")
       ELSE IF g.val = BAD THEN Fail(g, "disk") ELSE AtCluster(g, g.val)
read_on(s, n, data) ==
    LET a == IF Boundary(s) THEN ReadCluster(s) ELSE s
        whole == Boundary(s) /\ n >= SS
        \* the buffer of the file is newer than the medium while it is dirty
        d == DiskRead(a, Here(a))
        got == IF a.fil.dirty /\ a.fil.sect = Here(a) THEN a.fil.buf ELSE d.got
        b == IF Boundary(s) /\ a.fil.sect # Here(a) THEN Fetch(a, Here(a)) ELSE a
        at == s.fil.fptr % SS
        part == Least(SS - at, n)
    IN IF n = 0 THEN [s EXCEPT !.data = data]
       ELSE IF a.res # "ok" THEN a
       ELSE IF Boundary(s) /\ Here(a) = NoSect THEN Fail(a, "int")
       ELSE IF whole THEN IF d.res # "ok" THEN d
                          ELSE ReadOn([d EXCEPT !.fil.fptr = @ + SS], n - SS, data \o got)
       ELSE IF b.res # "ok" THEN b
       ELSE ReadOn([b EXCEPT !.fil.fptr = @ + part], n - part,
                   data \o SubSeq(b.fil.buf, at + 1, at + part))
f_read(s, n) ==
    LET a == OnFile(s)
    IN IF s.fil.err # "ok" THEN Fail(s, s.fil.err)
       ELSE IF "r" \notin s.fil.mode THEN Fail(s, "denied")
       ELSE Kept(Sticky(ReadOn([a EXCEPT !.data = <<>>], Least(n, s.fil.obj.size - s.fil.fptr), <<>>)))

\* The cluster to write to: that of the position, or a new one at the end.
write_cluster(s) ==
    LET g == IF s.fil.fptr # 0 THEN CreateChain(s, s.fil.clust)
             ELSE IF s.obj.sclust # 0 THEN Val(s, s.obj.sclust) ELSE CreateChain(s, 0)
        c == Chained(g)
    IN IF InCluster(s) # 0 THEN s
       ELSE IF c.res = "full" THEN [Fail(c, "disk") EXCEPT !.fil.modified = TRUE]
       ELSE IF c.res # "ok" THEN c
       ELSE [AtCluster(c, c.val) EXCEPT !.obj.sclust = IF @ = 0 THEN c.val ELSE @]
Moved(s, n) ==
    [s EXCEPT !.fil.fptr = @ + n,
              !.obj.size = IF s.fil.fptr + n > @ THEN s.fil.fptr + n ELSE @]
write_on(s, data) ==
    LET a == IF Boundary(s) THEN Then(WriteCluster(s), Flush) ELSE s
        here == Here(a)
        d == DiskWrite(a, here, SubSeq(data, 1, SS))
        e == IF d.fil.sect = here THEN [d EXCEPT !.fil.buf = SubSeq(data, 1, SS)] ELSE d
        b == IF ~Boundary(s) THEN a
             ELSE IF a.fil.sect # here /\ a.fil.fptr < a.obj.size THEN Fetch(a, here)
             ELSE [a EXCEPT !.fil.sect = here]
        at == s.fil.fptr % SS
        part == Least(SS - at, Len(data))
        buf == [ i \in 1 .. SS |-> IF i \in (at + 1) .. (at + part) THEN data[i - at] ELSE b.fil.buf[i] ]
    IN IF data = <<>> THEN [s EXCEPT !.fil.modified = TRUE]
       ELSE IF a.res # "ok" THEN a
       ELSE IF Boundary(s) /\ here = NoSect THEN Fail(a, "int")
       ELSE IF Boundary(s) /\ Len(data) >= SS
            THEN IF d.res # "ok" THEN d ELSE WriteOn(Moved(e, SS), SubSeq(data, SS + 1, Len(data)))
       ELSE IF b.res # "ok" THEN b
       ELSE WriteOn(Moved([b EXCEPT !.fil.buf = buf, !.fil.dirty = TRUE], part),
                    SubSeq(data, part + 1, Len(data)))
f_write(s, data) ==
    IF s.fil.err # "ok" THEN Fail(s, s.fil.err)
    ELSE IF "w" \notin s.fil.mode THEN Fail(s, "denied")
    ELSE Kept(Sticky(WriteOn(OnFile(s), data)))
-----------------------------------------------------------------------------
(* f_sync puts the size and the first cluster into the entry; f_close is
   f_sync, and keeps the file open when that fails. *)
SyncX(s) ==
    LET a == Then(FillFirstFrag(s), LAMBDA t : FillLastFrag(t, t.fil.clust, EOC))
        o == a.obj
        l == LoadObjXdir(a, o)
        w == StoreXdir([l EXCEPT !.buf[2] = [t |-> "xC0", stat |-> o.stat, clst |-> o.sclust, size |-> o.size]])
    IN IF a.res # "ok" THEN Kept(a)
       ELSE IF l.res # "ok" THEN Kept([l EXCEPT !.obj = o])
       ELSE IF w.res # "ok" THEN Kept([w EXCEPT !.obj = o])
       ELSE Kept([SyncFs(w) EXCEPT !.obj = o, !.fil.modified = FALSE])
SyncF(s) ==
    LET m == MoveWindow(s, s.fil.dsect)
        w == Modify(m, [m.win EXCEPT ![s.fil.dent].clst = s.obj.sclust,
                                     ![s.fil.dent].size = s.obj.size])
    IN IF m.res # "ok" THEN m ELSE [SyncFs(w) EXCEPT !.fil.modified = FALSE]
f_sync(s) ==
    LET a == Flush(OnFile(s))
    IN IF ~s.fil.modified THEN [s EXCEPT !.res = "ok"]
       ELSE IF a.res # "ok" THEN a
       ELSE IF s.type = "exfat" THEN SyncX(a) ELSE SyncF(a)
f_close(s) == LET a == FSync(s) IN IF a.res = "ok" THEN [a EXCEPT !.fil = NoFile] ELSE a

(* f_lseek: forward from the position, or from the start; in a file open for
   writing the chain is stretched as far as the new position. *)
seek_on(s, ofs) ==
    LET cs == CsUnits(s)
        far == s.fil.fptr + cs
        a == [s EXCEPT !.fil.fptr = far]
        w == "w" \in s.fil.mode
        b == IF w /\ far > s.obj.size
             THEN [a EXCEPT !.obj.size = far, !.fil.modified = TRUE] ELSE a
        g == IF w THEN CreateChain(b, s.fil.clust) ELSE GetFat(b, s.fil.clust)
        sect == Plus(SectOf(s, s.fil.clust), ofs \div SS)
    IN IF ofs <= cs
       THEN IF ofs % SS # 0 /\ SectOf(s, s.fil.clust) = NoSect THEN Fail(s, "int")
            ELSE [s EXCEPT !.fil.fptr = @ + ofs, !.at = IF ofs % SS # 0 THEN sect ELSE NoSect]
       ELSE IF w /\ g.val = 0 THEN [g EXCEPT !.at = NoSect]
       ELSE IF g.val = BAD THEN Fail(g, "disk")
       ELSE IF g.val \notin Clusters THEN Fail(g, "int") ELSE SeekOn(AtCluster(g, g.val), ofs - cs)

seek_from(s, ofs) ==
    LET cs == CsUnits(s)
        cur == s.fil.fptr
        near == cur > 0 /\ (ofs - 1) \div cs >= (cur - 1) \div cs
        base == ((cur - 1) \div cs) * cs
        g == IF s.obj.sclust # 0 THEN Val(s, s.obj.sclust) ELSE CreateChain(s, 0)
        z == [s EXCEPT !.fil.fptr = 0, !.at = NoSect]
    IN IF ofs = 0 THEN z
       ELSE IF near THEN SeekOn([z EXCEPT !.fil.fptr = base], ofs - base)
       ELSE IF g.val = 1 THEN Fail(g, "int") ELSE IF g.val = BAD THEN Fail(g, "disk")
       ELSE IF g.val = 0 THEN [g EXCEPT !.fil.fptr = 0, !.at = NoSect]
       ELSE SeekOn([AtCluster(g, g.val) EXCEPT !.fil.fptr = 0, !.at = NoSect,
                                               !.obj.sclust = g.val], ofs)
FLseekKeepsFrag(s, to) ==    \* mutant: the last part is not put into the table
    LET a == SeekFrom(OnFile(s), to)
    IN IF s.fil.err # "ok" THEN Fail(s, s.fil.err) ELSE Kept(Sticky(a))
f_lseek(s, to) ==
    LET o == OnFile(s)
        f == IF s.type = "exfat" THEN FillLastFrag(o, o.fil.clust, EOC) ELSE o
        ofs == IF to > s.fil.obj.size /\ "w" \notin s.fil.mode THEN s.fil.obj.size ELSE to
        a == SeekFrom(f, ofs)
        b == IF a.fil.fptr > a.obj.size
             THEN [a EXCEPT !.obj.size = a.fil.fptr, !.fil.modified = TRUE] ELSE a
        c == IF b.fil.fptr % SS # 0 /\ b.at # b.fil.sect THEN Fetch(b, b.at) ELSE b
    IN IF s.fil.err # "ok" THEN Fail(s, s.fil.err)
       ELSE IF f.res # "ok" THEN Kept(f)
       ELSE IF a.res # "ok" THEN Kept(Sticky(a)) ELSE Kept(Sticky(c))

\* f_truncate leaves the entry to the next f_sync.
f_truncate(s) ==
    LET o == OnFile(s)
        g == GetFat(o, o.fil.clust)
        all == [RemoveChain(o, o.obj.sclust, 0) EXCEPT !.obj.sclust = 0]
        a == IF s.fil.fptr = 0 THEN all
             ELSE IF g.val = BAD THEN Fail(g, "disk") ELSE IF g.val = 1 THEN Fail(g, "int")
             ELSE IF g.val < Ent THEN RemoveChain(g, g.val, g.fil.clust) ELSE g
        b == [a EXCEPT !.obj.size = s.fil.fptr, !.fil.modified = TRUE]
    IN IF s.fil.err # "ok" THEN Fail(s, s.fil.err)
       ELSE IF "w" \notin s.fil.mode THEN Fail(s, "denied")
       ELSE IF s.fil.fptr >= s.fil.obj.size THEN o
       ELSE Kept(Sticky(Then(b, Flush)))
-----------------------------------------------------------------------------
(* Paths. *)
\* A directory may go when nothing is in it.  On exFAT the count of its last
\* fragment is not set before it is used (junk).
NotEmpty(s, o, junk) ==
    LET a == Then(DirSdi([s EXCEPT !.obj = [o EXCEPT !.nfrag = junk], !.dp = NoDir], 0), DirRead)
    IN IF a.res = "ok" THEN Fail(a, "denied")
       ELSE IF a.res = "nofile" THEN [a EXCEPT !.res = "ok"] ELSE a
FUnlinkChainFirst(s, path, junk) ==    \* mutant: the clusters go before the entry
    LET a == AtPath(s, path)
        o == IF s.type = "exfat" THEN InitAllocInfo(Root, a.buf)
             ELSE [Root EXCEPT !.sclust = Entry(a).clst]
        c == IF o.sclust # 0 THEN RemoveChain([a EXCEPT !.obj = o], o.sclust, 0) ELSE a
    IN IF a.res # "ok" \/ a.obj.isdir \/ a.obj.ro THEN a
       ELSE Then(Then(c, LAMBDA t : DirRemove([t EXCEPT !.obj = a.obj, !.dp = a.dp])), SyncFs)
f_unlink(s, path, junk) ==
    LET a == AtPath(s, path)
        o == IF s.type = "exfat" THEN InitAllocInfo(Root, a.buf)
             ELSE [Root EXCEPT !.sclust = Entry(a).clst]
        e == IF a.obj.isdir THEN NotEmpty(a, o, IF s.type = "exfat" THEN junk ELSE 0) ELSE a
        r == DirRemove([e EXCEPT !.obj = a.obj, !.dp = a.dp])
        c == IF o.sclust # 0 THEN RemoveChain([r EXCEPT !.obj = o], o.sclust, 0) ELSE r
    IN IF a.res # "ok" THEN a
       ELSE IF path = <<>> THEN Fail(a, "name")
       ELSE IF a.obj.ro THEN Fail(a, "denied")
       ELSE IF e.res # "ok" THEN e
       ELSE IF r.res # "ok" THEN r ELSE Then(c, SyncFs)

\* A new table is made first; when it cannot be entered in the directory its
\* cluster is given back, through an object the code has not filled in: on
\* exFAT the chain it seems to have is the cluster alone, an error, or the
\* cluster and the one after it (junk 0, 1, 2).
Unset(s, c, junk) ==
    IF s.type = "fat32" THEN [Root EXCEPT !.sclust = c]
    ELSE [Root EXCEPT !.stat = 2, !.sclust = IF junk = 1 THEN c + 1 ELSE c,
                      !.size = IF junk = 2 THEN CsUnits(s) + 1 ELSE 1]
DotEntries(s, self, parent) ==
    LET dot(n, c) == [SfnEntry(<<n, 0>>) EXCEPT !.isdir = TRUE, !.clst = c]
    IN Modify(s, [s.win EXCEPT ![1] = dot(".", self), ![2] = dot("..", parent)])
f_mkdir(s, path, junk) ==
    LET a == AtPath(s, path)
        n == Chained(CreateChain([a EXCEPT !.res = "ok", !.obj = Root], 0))
        d == Then(n, LAMBDA t : DirClear(t, n.val))
        e == IF s.type = "fat32" THEN Then(d, LAMBDA t : DotEntries(t, n.val, a.obj.sclust)) ELSE d
        r == Then(e, LAMBDA t : DirRegister([t EXCEPT !.obj = a.obj, !.dp = a.dp]))
        x == StoreXdir([r EXCEPT !.buf[1].isdir = TRUE,
                                 !.buf[2] = [t |-> "xC0", stat |-> 2, clst |-> n.val, size |-> CsUnits(s)]])
        f == SetEntry(r, [Entry(r) EXCEPT !.isdir = TRUE, !.clst = n.val])
        undo == RemoveChain([r EXCEPT !.res = "ok", !.obj = Unset(s, n.val, junk)], n.val, 0)
    IN IF a.res = "ok" THEN Fail(a, "exist")
       ELSE IF a.res # "nofile" THEN a
       ELSE IF r.res # "ok"
            THEN IF n.res = "full" THEN Fail(n, "denied")
                 ELSE IF n.res # "ok" THEN n ELSE Fail(undo, r.res)
       ELSE Then(IF s.type = "exfat" THEN x ELSE f, SyncFs)

\* The new entry is made with what the old one says, then the old one goes.
f_rename(s, old, new) ==
    LET a == AtPath(s, old)
        e == Entry(a)
        b == FollowPath(a, new)
        same == b.res = "ok" /\ b.obj.sclust = a.obj.sclust /\ b.dp.dptr = a.dp.dptr
        r == DirRegister([b EXCEPT !.res = "ok"])
        x == StoreXdir([r EXCEPT !.buf[1] = a.buf[1], !.buf[2] = a.buf[2]])
        f == SetEntry(r, [e EXCEPT !.fn = Entry(r).fn])
        up == MoveWindow(f, SectOf(f, e.clst))
        dots == IF e.isdir /\ r.obj.sclust # a.obj.sclust
                THEN IF SectOf(f, e.clst) = NoSect THEN Fail(f, "int")
                     ELSE Then(up, LAMBDA t : Modify(t, [t.win EXCEPT ![2].clst = r.obj.sclust]))
                ELSE f
        m == IF s.type = "exfat" THEN x ELSE dots
    IN IF a.res # "ok" THEN a
       ELSE IF old = <<>> THEN Fail(a, "name")
       ELSE IF b.res = "ok" /\ ~same THEN Fail(b, "exist")
       ELSE IF b.res \notin {"ok", "nofile"} THEN b
       ELSE IF r.res # "ok" THEN r
       ELSE Then(Then(m, LAMBDA t : DirRemove([t EXCEPT !.obj = a.obj, !.dp = a.dp])), SyncFs)

\* f_chmod and f_utime: one field of the entry.
Change(s, path, Set(_)) ==
    LET a == AtPath(s, path)
        w == IF s.type = "exfat" THEN StoreXdir([a EXCEPT !.buf[1] = Set(@)])
             ELSE SetEntry(a, Set(Entry(a)))
    IN IF a.res # "ok" THEN a ELSE IF path = <<>> THEN Fail(a, "name") ELSE Then(w, SyncFs)
f_chmod(s, path, ro) == Change(s, path, LAMBDA e : [e EXCEPT !.ro = ro])
f_utime(s, path, time) == Change(s, path, LAMBDA e : [e EXCEPT !.time = time])
f_stat(s, path) ==
    LET a == AtPath(s, path) IN IF a.res = "ok" /\ path = <<>> THEN Fail(a, "name") ELSE a

(* f_opendir and f_readdir (f_findfirst and f_findnext are these with a test
   of the name); s.found is the name, none at the end. *)
f_opendir(s, path) ==
    LET a == AtPath(s, path)
        b == IF path = <<>> THEN a ELSE Enter(a)
    IN IF a.res = "nofile" \/ (a.res = "ok" /\ path # <<>> /\ ~a.obj.isdir) THEN Fail(a, "nopath")
       ELSE IF a.res # "ok" THEN a ELSE DirSdi(b, 0)
f_readdir(s) ==
    LET a == DirRead([s EXCEPT !.res = "ok", !.found = <<>>])
        n == DirNext(a, FALSE)
    IN IF a.res = "nofile" THEN [a EXCEPT !.res = "ok", !.found = <<>>]
       ELSE IF a.res # "ok" THEN a
       ELSE IF n.res = "nofile" THEN [n EXCEPT !.res = "ok"] ELSE n

\* f_getfree: the count, from the table or the bitmap when it is not known.  A
\* scan that fails half way leaves what it has counted as the count.
RECURSIVE CountFree(_, _)
CountFree(s, c) ==
    LET a == MoveWindow(s, FatSect(c))
    IN IF c >= Ent THEN s ELSE IF a.res # "ok" THEN a
       ELSE CountFree(Val(a, a.val + (IF a.win[c] = 0 THEN 1 ELSE 0)), c + 1)
f_getfree(s) ==
    LET o == [s EXCEPT !.res = "ok", !.val = 0]
        b == MoveWindow(o, BitSect)
        a == IF s.type = "fat32" THEN CountFree(o, 2)
             ELSE IF b.res = "ok" THEN Val(b, Cardinality(Clusters \ b.win)) ELSE b
    IN IF s.free <= Ent - 2 THEN Val(o, s.free)
       ELSE [a EXCEPT !.free = a.val, !.fsi = TRUE]
-----------------------------------------------------------------------------
Lib(f, s, x) ==
    CASE f = "move_window" -> move_window(s, x[1])
      [] f = "sync_fs" -> sync_fs(s)
      [] f = "get_fat" -> get_fat(s, x[1])
      [] f = "put_fat" -> put_fat(s, x[1], x[2])
      [] f = "change_bitmap" -> change_bitmap(s, x[1], x[2], x[3])
      [] f = "fill_first_frag" -> fill_first_frag(s)
      [] f = "fill_last_frag" -> fill_last_frag(s, x[1], x[2])
      [] f = "remove_chain" -> remove_chain(s, x[1], x[2])
      [] f = "create_chain" -> create_chain(s, x[1])
      [] f = "dir_clear" -> dir_clear(s, x[1])
      [] f = "dir_sdi" -> dir_sdi(s, x[1])
      [] f = "dir_next" -> dir_next(s, x[1])
      [] f = "dir_alloc" -> dir_alloc(s, x[1])
      [] f = "load_xdir" -> load_xdir(s)
      [] f = "load_obj_xdir" -> load_obj_xdir(s, x[1])
      [] f = "store_xdir" -> store_xdir(s)
      [] f = "dir_read" -> dir_read(s)
      [] f = "dir_find" -> dir_find(s)
      [] f = "dir_register" -> dir_register(s)
      [] f = "dir_remove" -> dir_remove(s)
      [] f = "follow_path" -> follow_path(s, x[1])
      [] f = "write_cluster" -> write_cluster(s)
      [] f = "read_cluster" -> read_cluster(s)
      [] f = "empty_x" -> empty_x(s)
      [] f = "empty_f" -> empty_f(s)
      [] f = "opened" -> opened(s, x[1], x[2])
      [] f = "to_end" -> to_end(s)
      [] f = "seek_on" -> seek_on(s, x[1])
      [] f = "seek_from" -> seek_from(s, x[1])
      [] f = "write_on" -> write_on(s, x[1])
      [] f = "read_on" -> read_on(s, x[1], x[2])
      [] f = "f_mount" -> f_mount(s)
      [] f = "f_open" -> f_open(s, x[1], x[2])
      [] f = "f_read" -> f_read(s, x[1])
      [] f = "f_write" -> f_write(s, x[1])
      [] f = "f_sync" -> f_sync(s)
      [] f = "f_close" -> f_close(s)
      [] f = "f_lseek" -> f_lseek(s, x[1])
      [] f = "f_truncate" -> f_truncate(s)
      [] f = "f_unlink" -> f_unlink(s, x[1], x[2])
      [] f = "f_mkdir" -> f_mkdir(s, x[1], x[2])
      [] f = "f_rename" -> f_rename(s, x[1], x[2])
      [] f = "f_chmod" -> f_chmod(s, x[1], x[2])
      [] f = "f_utime" -> f_utime(s, x[1], x[2])
      [] f = "f_stat" -> f_stat(s, x[1])
      [] f = "f_opendir" -> f_opendir(s, x[1])
      [] f = "f_readdir" -> f_readdir(s)
      [] f = "f_getfree" -> f_getfree(s)
=============================================================================
