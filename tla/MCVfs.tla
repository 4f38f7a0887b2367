------------------------------- MODULE MCVfs --------------------------------
(***************************************************************************)
(* Small disks, file systems and paths for Vfs.                            *)
(***************************************************************************)
EXTENDS Vfs, TLC

Entry(name, inode) == [name |-> name, inode |-> inode]
Leaf(type) == [type |-> type, entries |-> <<>>]
Directory(self, parent, entries) ==
  [type |-> "dir", entries |-> <<Entry(".", self), Entry("..", parent)>> \o entries]

\* A root file system with a program, a file with a short name and two devices.
System ==
  2 :> Directory(2, 2, <<Entry("bin", 3), Entry("x", 4), Entry("hda", 5), Entry("tty", 6)>>)
    @@ 3 :> Directory(3, 2, <<Entry("init", 7)>>)
    @@ 4 :> Leaf("reg") @@ 5 :> Leaf("block") @@ 6 :> Leaf("char") @@ 7 :> Leaf("reg")

\* One that has a /dev already, and no init program.
WithDev == 2 :> Directory(2, 2, <<Entry("dev", 3)>>) @@ 3 :> Directory(3, 2, <<>>)

Part(name, fs) == [name |-> name, fs |-> fs]

\* A ramdisk with the system on it, too.
MCInitrds == {[fs |-> System, parts |-> NULL]}

\* Two partitioned disks, whose partitions have the same numbers.
MCDisks ==
  <<[name |-> "hdd0", minor |-> 0, fs |-> NULL,
     parts |-> <<Part("hdd0p0", WithDev), NULL, Part("hdd0p2", NULL), NULL>>],
    [name |-> "hdd1", minor |-> 1, fs |-> NULL,
     parts |-> <<Part("hdd1p0", System), NULL, NULL, NULL>>]>>

\* A directory that was not read: empty, or a name that leads to a file and one
\* that leads nowhere.
MCGarbled == {<<>>, <<Entry("init", 4), Entry("x", 9)>>}

MCRootNames == {"hdd0p0", "hdd0p2", "hdd1p0", "none"}

Path(abs, names, slash) == [abs |-> abs, names |-> names, slash |-> slash]

MCInitPath == Path(TRUE, <<"bin", "init">>, FALSE)

MCPaths ==
  {MCInitPath, Path(FALSE, <<"bin", "init">>, FALSE), Path(TRUE, <<"", ".", "bin", "init">>, FALSE),
   Path(TRUE, <<"bin">>, TRUE), Path(TRUE, <<"bin", "init">>, TRUE),
   Path(TRUE, <<"bin", "init", "x">>, FALSE), Path(TRUE, <<"bin", "..", "tty">>, FALSE),
   Path(TRUE, <<"x">>, FALSE), Path(TRUE, <<"">>, TRUE), Path(TRUE, <<"dev", "hdd0">>, FALSE),
   Path(TRUE, <<"hda">>, FALSE), Path(TRUE, <<"bin", "long">>, FALSE)}
=============================================================================
