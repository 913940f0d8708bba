----------------------------- MODULE MCFatVolume -----------------------------
(***************************************************************************)
(* Three volumes: sectors of two entries, FAT sectors of four, trees with  *)
(* files, directories of one and two clusters, a hidden file and a label.  *)
(***************************************************************************)
EXTENDS FatVolume

Item(n, x, k, c, s, l) == [name |-> <<n, x>>, kind |-> k, chain |-> c, size |-> s, list |-> l]
Label == Item("L", Null, "vol", <<>>, 0, <<>>)
FileA(c) == Item("A", Null, "file", c, Len(c), <<>>)
FileAX(c) == Item("A", "X", "file", c, Len(c), <<>>)
FileH == Item("H", Null, "hidden", <<>>, 0, <<>>)
DirD(c, l) == Item("D", Null, "dir", c, 0, l)

\* One sector to a cluster, one FAT; the directory's clusters are not in order.
Small == [start |-> 1, sectors |-> 12, reserved |-> 1, fats |-> 1, fatSectors |-> 2,
          rootEntries |-> 4, spc |-> 1, mark |-> 9,
          root |-> <<Label, DirD(<<4, 3>>, <<FileAX(<<5>>), FileH, FileA(<<6>>)>>), FileA(<<2>>)>>]

\* Two sectors to a cluster, two FATs, an odd number of root entries; the directory is
\* longer than a cluster, and behind it in the FAT there is a file.
Large == [start |-> 3, sectors |-> 30, reserved |-> 2, fats |-> 2, fatSectors |-> 2,
          rootEntries |-> 5, spc |-> 2, mark |-> 9,
          root |-> <<Label, FileH, FileAX(<<5, 3>>),
                     DirD(<<2, 6>>, <<FileH, FileA(<<>>), FileH, FileH, FileAX(<<4>>)>>)>>]

\* A directory without entries, and a root with the label only besides it.
Bare == [Small EXCEPT !.root = <<Label, DirD(<<3>>, <<>>)>>]

MCVolumes == {Small, Large, Bare}

\* A directory that fills its cluster.
Full == [Small EXCEPT !.root = <<Label, DirD(<<3>>, <<FileH, FileAX(<<5>>)>>)>>]
FullVolumes == {Full}

Names == {<<"A">>, <<"D">>, <<"H">>, <<"L">>, <<"A", ".", "X">>, <<"B">>}
MCPaths ==
    {<<>>, <<"/">>} \cup Names \cup {<<"/">> \o n : n \in Names} \cup {n \o <<"/">> : n \in Names}
        \cup {m \o <<"/">> \o n : m, n \in Names}
        \cup {m \o <<"/", "/">> \o n : m, n \in {<<"D">>, <<"A">>}}
        \cup {m \o <<"/", "D", "/">> \o n : m, n \in {<<"D">>, <<"A">>}}

\* Memory behind a buffer: zero, or an entry of a name nobody asks for.
MCBeyond == {Free, Junk}

\* Memory behind a buffer: an entry of another directory.
StaleBeyond == {[name |-> <<"A", Null>>, kind |-> "file", cluster |-> 2, size |-> 1]}
==============================================================================
