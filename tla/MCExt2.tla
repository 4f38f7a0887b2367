------------------------------- MODULE MCExt2 -------------------------------
(***************************************************************************)
(* Small disks for Ext2.  A sector has 4 bytes; two inodes, descriptors or *)
(* pointers fit in it.  An inode has one direct pointer and one indirect.  *)
(***************************************************************************)
EXTENDS Ext2, TLC

File(size, i_block) ==
  [type |-> "reg", size |-> size, i_block |-> i_block, dirents |-> <<>>]

\* The root directory: an entry, a deleted one, and a long last one.
Dir(size, i_block) ==
  [type |-> "dir", size |-> size, i_block |-> i_block,
   dirents |-> <<[inode |-> 2, rec_len |-> 2], [inode |-> 0, rec_len |-> 2],
                 [inode |-> 7, rec_len |-> size - 4]>>]

\* Blocks of two sectors, three groups: the table of descriptors ends in the
\* middle of a sector.
SmallBlocks(kind, start, inodes) ==
  [kind |-> kind, start |-> start, sectors |-> 60,
   block_size |-> 8, total_blocks |-> 20, blocks_per_group |-> 8,
   total_inodes |-> 12, inodes_per_group |-> 4, inode_size |-> 2,
   tables |-> <<4, 10, 18>>, inodes |-> inodes,
   pointers |-> 13 :> <<15, 14, 16, 17>>]

\* Inode 7 is the third of the second group.
UsualFiles == 2 :> Dir(8, <<5, 0>>) @@ 7 :> File(18, <<12, 13>>)

\* Inode 9, in the third group, is larger than the driver can read and begins with
\* a hole; there is no inode 13.
OddFiles == 9 :> File(42, <<0, 13>>) @@ 13 :> File(0, <<0, 0>>)

\* Blocks of four sectors, one group.
LargeBlocks(kind, start) ==
  [kind |-> kind, start |-> start, sectors |-> 60,
   block_size |-> 16, total_blocks |-> 10, blocks_per_group |-> 16,
   total_inodes |-> 8, inodes_per_group |-> 8, inode_size |-> 2,
   tables |-> <<3>>,
   inodes |-> 7 :> File(35, <<5, 6>>),
   pointers |-> 6 :> <<8, 7, 9, 9, 9, 9, 9, 9>>]

\* Partitions that begin less and more than a block into their disk, and a ramdisk.
MCDisks ==
  {SmallBlocks("ata", 1, UsualFiles), SmallBlocks("ata", 3, UsualFiles),
   LargeBlocks("ata", 1), SmallBlocks("rd", 0, OddFiles)}

\* The start, a range across blocks cut at the end of the file, and the part
\* past the last block the driver can reach.
MCRanges == {[off |-> 0, len |-> 3], [off |-> 6, len |-> 30], [off |-> 40, len |-> 2]}
=============================================================================
