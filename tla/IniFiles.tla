------------------------------ MODULE IniFiles ------------------------------
(***************************************************************************)
(* bdk/utils/ini.c with the walk over its sections in source/version.c,    *)
(* bdk/utils/dirlist.c and the waits of bdk/utils/btn.c.  A line of a file *)
(* is its kind; names and values are left out.                             *)
(***************************************************************************)
EXTENDS Integers, Sequences, FiniteSets

CONSTANTS Lines,        \* lines of a file at most
          MaxEntries,   \* entries a directory list has room for (64 in the source)
          Names         \* file names, as the numbers they are ordered by

VARIABLES ini,     \* the file, the line read next, the section being filled, the list of
                   \* finished sections, the phase and what the walk stepped on
          list,    \* the directory, what was taken from it, the indices of the sort
          keys     \* the buttons held, a wait, the buttons it saw and its answer

iniVars == <<ini, list, keys>>

LineKinds == {"section", "pair", "blank", "comment", "caption"}
NoSection == [kind |-> "none", kvs |-> "zero", pairs |-> <<>>]
\* Only sections of keys have their list made; calloc leaves the others zero.
_ini_create_section_no_list(kind) == [kind |-> kind, kvs |-> "zero", pairs |-> <<>>]    \* mutant: list_init is missing
_ini_create_section(kind) ==
    [kind |-> kind, kvs |-> IF kind = "section" THEN "list" ELSE "zero", pairs |-> <<>>]
Appended(i) == IF i.csec.kind = "none" THEN i.dst ELSE Append(i.dst, i.csec)
-----------------------------------------------------------------------------
ini_parse ==
    /\ ini.phase = "closed"
    /\ ini' = [ini EXCEPT !.phase = "lines", !.csec = _ini_create_section("section")]
    /\ UNCHANGED <<list, keys>>
\* One turn of the loop: an unreadable file gives empty lines and never ends.
ReadLine ==
    /\ ini.phase = "lines" /\ Len(ini.dst) < Lines + 2
    /\ LET kind == IF ~ini.readable \/ ini.file = <<>> THEN "blank" ELSE ini.file[ini.next]
           next == IF ini.readable /\ ini.file # <<>> THEN ini.next + 1 ELSE ini.next
           eof == ini.readable /\ next > Len(ini.file)
           read == CASE kind # "pair" ->
                          [ini EXCEPT !.next = next, !.dst = Appended(ini), !.csec = _ini_create_section(kind)]
                     [] kind = "pair" /\ ini.csec.kind = "section" ->
                          [ini EXCEPT !.next = next, !.csec.pairs = Append(@, ini.next)]
                     [] OTHER -> [ini EXCEPT !.next = next]
       IN ini' = IF eof THEN [read EXCEPT !.phase = "parsed", !.dst = Appended(read), !.csec = NoSection] ELSE read
    /\ UNCHANGED <<list, keys>>
\* The clean-up of version.c visits the keys of every section, of any kind.
FreeSection ==
    /\ ini.phase = "parsed" /\ ini.freed < Len(ini.dst)
    /\ LET sec == ini.dst[ini.freed + 1]
       IN ini' = [ini EXCEPT !.freed = @ + 1, !.astray = @ \/ sec.kvs = "zero",
                             !.keys = IF sec.kvs = "list" THEN @ \o sec.pairs ELSE @]
    /\ UNCHANGED <<list, keys>>
-----------------------------------------------------------------------------
\* One entry of f_readdir or f_findnext; the list ends when it is full.
dirlist ==
    /\ list.phase = "read" /\ UNCHANGED <<ini, keys>>
    /\ LET e == Head(list.dir)
           taken == IF e.shown THEN Append(list.taken, e.name) ELSE list.taken
           more == Tail(list.dir) # <<>> /\ Len(taken) < MaxEntries
       IN list' = [list EXCEPT !.dir = Tail(@), !.taken = taken, !.phase = IF more THEN "read" ELSE "sort"]
SortEntries ==
    /\ list.phase = "sort" /\ UNCHANGED <<ini, keys>>
    /\ LET t == list.taken
           i == list.i
           j == list.j
           swapped == [t EXCEPT ![i] = t[j], ![j] = t[i]]
       IN CASE i < Len(t) /\ j <= Len(t) ->
                 list' = [list EXCEPT !.taken = IF t[i] > t[j] THEN swapped ELSE t, !.j = j + 1]
            [] i < Len(t) /\ j > Len(t) -> list' = [list EXCEPT !.i = i + 1, !.j = i + 2]
            [] OTHER -> list' = [list EXCEPT !.phase = "sorted"]
-----------------------------------------------------------------------------
ButtonNames == {"power", "up"}
Toggle ==
    /\ keys.answer = {"none"} /\ UNCHANGED <<ini, list>>
    /\ \E b \in ButtonNames :
          keys' = [keys EXCEPT !.held = IF b \in @ THEN @ \ {b} ELSE @ \cup {b},
                               !.let = @ \/ (b = "power" /\ b \in keys.held)]
\* btn_read is one reading; a power button that is held at the start is not seen until let go.
StartWait ==
    /\ ~keys.waits /\ UNCHANGED <<ini, list>>
    /\ keys' = [keys EXCEPT !.waits = TRUE, !.filter = "power" \in keys.held, !.first = keys.held \ {"power"}, !.let = FALSE]
btn_wait_unfiltered ==    \* mutant: the button of the caller's own press is an answer
    /\ keys.waits /\ keys.answer = {"none"} /\ UNCHANGED <<ini, list>>
    /\ keys' = [keys EXCEPT !.answer = IF keys.held = keys.first THEN {"none"} ELSE keys.held]
btn_wait ==
    /\ keys.waits /\ keys.answer = {"none"} /\ UNCHANGED <<ini, list>>
    /\ LET filter == keys.filter /\ "power" \in keys.held
           res == IF filter THEN keys.held \ {"power"} ELSE keys.held
       IN keys' = [keys EXCEPT !.filter = filter, !.answer = IF res = keys.first THEN {"none"} ELSE res]
-----------------------------------------------------------------------------
Directories == UNION {[1..n -> [name : Names, shown : BOOLEAN]] : n \in 1..(MaxEntries + 1)}
Parsing(file, readable, phase) ==
    [file |-> file, readable |-> readable, phase |-> phase, next |-> 1, csec |-> NoSection,
     dst |-> <<>>, freed |-> 0, astray |-> FALSE, keys |-> <<>>]
Listing(dir, phase) == [dir |-> dir, whole |-> dir, taken |-> <<>>, phase |-> phase, i |-> 1, j |-> 2]
Held(held, waits) ==
    [held |-> held, waits |-> waits, filter |-> FALSE, first |-> {}, let |-> FALSE, answer |-> {"none"}]
\* One of the three at a time: they share nothing.
IniInit ==
    \/ /\ \E file \in UNION {[1..n -> LineKinds] : n \in 0..Lines}, readable \in BOOLEAN :
             ini = Parsing(file, readable, "closed")
       /\ list = Listing(<<>>, "idle") /\ keys = [Held({}, TRUE) EXCEPT !.answer = {}]
    \/ /\ \E dir \in Directories :
             /\ \A i, j \in DOMAIN dir : i # j => dir[i].name # dir[j].name
             /\ list = Listing(dir, "read")
       /\ ini = Parsing(<<>>, FALSE, "idle") /\ keys = [Held({}, TRUE) EXCEPT !.answer = {}]
    \/ /\ \E held \in SUBSET ButtonNames : keys = Held(held, FALSE)
       /\ ini = Parsing(<<>>, FALSE, "idle") /\ list = Listing(<<>>, "idle")
IniNext ==
    \/ ini_parse \/ ReadLine \/ FreeSection
    \/ dirlist \/ SortEntries \/ Toggle \/ StartWait \/ btn_wait
IniSpec ==
    /\ IniInit /\ [][IniNext]_iniVars
    /\ WF_iniVars(ini_parse \/ ReadLine \/ FreeSection) /\ WF_iniVars(dirlist \/ SortEntries)
-----------------------------------------------------------------------------
\* The line a pair belongs to: the last one before it that is not a pair, or 0.
OwnerOf(file, i) ==
    LET before == {j \in 1..(i - 1) : file[j] # "pair"}
    IN IF before = {} THEN 0 ELSE CHOOSE j \in before : \A k \in before : k <= j
\* The sections come in the order of the file, each with the pairs below it up to the
\* next blank line, comment or caption; every pair of a section is freed once, in
\* order, and the walk stays on lists that were made as long as the file has sections
\* and pairs only (an empty file has neither: ini.c:152, version.c:70).
SectionsRight ==
    /\ (ini.phase = "parsed" /\ ini.file # <<>>) =>
          LET heads == {i \in DOMAIN ini.file : ini.file[i] # "pair"}
              owned(h) == {i \in DOMAIN ini.file : ini.file[i] = "pair" /\ OwnerOf(ini.file, i) = h}
              pairs == [s \in DOMAIN ini.dst |-> {ini.dst[s].pairs[i] : i \in DOMAIN ini.dst[s].pairs}]
          IN /\ Len(ini.dst) = Cardinality(heads) + 1
             /\ \A h \in heads :
                   LET s == Cardinality({g \in heads : g <= h}) + 1
                   IN ini.dst[s].kind = ini.file[h] /\ pairs[s] = IF ini.file[h] = "section" THEN owned(h) ELSE {}
             /\ pairs[1] = owned(0)
    /\ \A i, j \in DOMAIN ini.keys : i < j => ini.keys[i] < ini.keys[j]
    /\ ini.astray => ini.file = <<>> \/ \E i \in DOMAIN ini.file : ini.file[i] \notin {"section", "pair"}
\* A directory list holds the files shown, as many as there is room for, in order.
ListSorted ==
    list.phase = "sorted" =>
        LET shown == {list.whole[i].name : i \in {k \in DOMAIN list.whole : list.whole[k].shown}}
            got == {list.taken[i] : i \in DOMAIN list.taken}
        IN /\ got \subseteq shown /\ Len(list.taken) = Cardinality(got)
           /\ Cardinality(shown) <= MaxEntries => got = shown
           /\ \A i \in 1..(Len(list.taken) - 1) : list.taken[i] < list.taken[i + 1]
\* btn_wait answers with buttons that were pressed while it waited: a power button held
\* when it began counts only after it was let go (btn.c:54).
AnswerIsNew == (keys.answer # {"none"} /\ "power" \in keys.answer) => keys.let \/ ~keys.filter
\* A file that can be read is being parsed; it is parsed to its end, and its sections are freed.
Unparsed == ini.readable /\ ~(ini.phase = "parsed" /\ ini.freed = Len(ini.dst))
=============================================================================
