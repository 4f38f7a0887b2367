-------------------------------- MODULE Ext2 --------------------------------
(***************************************************************************)
(* The ext2 driver (kernel/fs/ext2fs.c) on top of a block device           *)
(* (blkdev_ops.c, partscan.c, ramdisk.c): probing, fetching inodes and     *)
(* directories, and reading files.  Several tasks look files up and read   *)
(* them at the same time; all of them move the one file position of the    *)
(* device's descriptor.                                                    *)
(*                                                                         *)
(* A byte of the disk is known by its address, so a buffer is the sequence *)
(* of the addresses its bytes come from.  What the disk holds (group       *)
(* descriptors, inodes, pointers, directory entries) is given by layout    *)
(* records and found again through those addresses.  Any transfer of a     *)
(* disk may fail.  The mutexes are the abstract lock of LockSpec.          *)
(*                                                                         *)
(* Where the code reads memory it has not filled in, or writes behind a    *)
(* buffer, what follows is undefined and the model stops.                  *)
(***************************************************************************)
EXTENDS Integers, Sequences, FiniteSets

CONSTANTS Tasks,         \* the tasks that use the file system
          NULL,          \* the null pointer
          Disks,         \* the disks, and what is on them, to try
          Ranges,        \* the offsets and lengths that are read
          LBA_SIZE,      \* bytes of a sector: 512 in the code
          GD_BYTES,      \* sizeof(ext2_gd_t): 32
          INODE_BYTES,   \* sizeof(ext2_inode_t): 128
          PTR_BYTES,     \* sizeof(uint32_t): 4
          NDIR_BLOCKS,   \* direct pointers of an inode: 12
          SIZE_LIMIT,    \* size_t and uint64_t wrap around here: 2^64
          LBA_LIMIT,     \* the LBA registers of a disk wrap around here: 2^48
          Idle, EIO, EISDIR,
          Loading,       \* a file_t that has been allocated and not filled in
          Garbage,       \* what uninitialised memory holds
          Hole           \* a byte of a file that no block of the disk holds

\* The numbers of the code satisfy these: the sector and the structures have a
\* size, and the byte addresses of 2^64 wrap around where sectors of 2^48 do.
ASSUME SizesAssumption ==
  /\ LBA_SIZE \in Nat \ {0} /\ GD_BYTES \in Nat \ {0} /\ INODE_BYTES \in Nat \ {0}
  /\ PTR_BYTES \in Nat \ {0} /\ NDIR_BLOCKS \in Nat
  /\ LBA_LIMIT \in Nat \ {0} /\ SIZE_LIMIT \in Nat \ {0}
  /\ SIZE_LIMIT % (LBA_LIMIT * LBA_SIZE) = 0

\* The values that stand for no number, no bytes and no call.
ASSUME ValuesAssumption ==
  /\ \A v \in {NULL, Loading, Garbage, Hole} : v \notin Int
  /\ Loading # NULL /\ Garbage \notin {NULL, Loading}
  /\ NULL \notin Tasks
  /\ EISDIR \notin Seq(Int \cup {Hole})
  /\ Idle \notin [inode : Nat, off : Nat, len : Nat]
  /\ Idle \notin [for : {"dir", "read"}, off : Nat, len : Nat]

\* Offsets may lie behind the end of a file, but not at the end of the numbers.
ASSUME RangesAssumption ==
  /\ Ranges \subseteq [off : Nat, len : Nat]
  /\ \A r \in Ranges : r.off + r.len < SIZE_LIMIT

CeilDiv(a, b) == a \div b + (IF a % b # 0 THEN 1 ELSE 0)

VARIABLES disk,          \* the disk the file system is on
          fs,            \* "unknown", "mounted", "rejected", "panicked", "undefined", "overrun"
          group_descriptors,   \* fs->group_descriptors, the bytes read
          fpos,          \* fs->fd->fpos
          fs_tree_lock, fs_lock, io_lock,
          file,          \* per inode: direntry->file, the address of its inode
          directory,     \* per inode: whether file->special.directory is set, and
                         \* the inodes on the list dir->files
          req,           \* the lookup and read each task has been asked for
          job,           \* the ext2_read() in progress: what for, offset, length
          io,            \* the arguments of its ext2_get_block()
          block_buffer,  \* the block it has read last
          got,           \* what vfs_read() returned
          buffer,        \* the bytes copied so far
          failed,        \* which transfer of the read has failed: "none", of "pointers", of "data"
          reply,         \* what the task's last call returned
          pc

globals == <<disk, fs, group_descriptors>>
locks == <<fs_tree_lock, fs_lock, io_lock>>
transfer == <<io, block_buffer, got, failed>>
vars == <<globals, fpos, locks, file, directory, req, job, transfer, buffer, reply, pc>>

Directory(state, list) == [state |-> state, files |-> list]

At(t, l) == fs = "mounted" /\ pc[t] = l

Goto(t, l) == pc' = [pc EXCEPT ![t] = l]

\* The inodes directory entries name, and those of them the disk has.
Lookups == DOMAIN disk.inodes
Existing(d) == {n \in DOMAIN d.inodes : n <= d.total_inodes}

-----------------------------------------------------------------------------
(* The layout of the disk, as the ext2 format defines it *)

Base(d) == d.start * LBA_SIZE
BlockAddr(d, b) == Base(d) + b * d.block_size

\* The group descriptors are in the block after the superblock's, which is
\* at byte 1024; the inode table of a group is where its descriptor says.
GdAddr(d, g) == BlockAddr(d, (2 * LBA_SIZE) \div d.block_size + 1) + g * GD_BYTES
InodeAddr(d, n) ==
  BlockAddr(d, d.tables[(n - 1) \div d.inodes_per_group + 1])
    + ((n - 1) % d.inodes_per_group) * d.inode_size

TableAt(d, a) ==
  IF \E g \in DOMAIN d.tables : GdAddr(d, g - 1) = a
  THEN d.tables[CHOOSE g \in DOMAIN d.tables : GdAddr(d, g - 1) = a] ELSE 0
InodeAt(d, a) ==
  IF \E n \in Existing(d) : InodeAddr(d, n) = a
  THEN d.inodes[CHOOSE n \in Existing(d) : InodeAddr(d, n) = a] ELSE [type |-> "none"]
\* A block that is no block of pointers is taken to hold zeroes.
PointerAt(d, a) ==
  LET b == (a - Base(d)) \div d.block_size
  IN  IF b \in DOMAIN d.pointers
      THEN d.pointers[b][((a - Base(d)) % d.block_size) \div PTR_BYTES + 1] ELSE 0

\* The block that holds the i-th block of a file, 0 if none does.
FileBlock(d, inode, i) ==
  LET single == inode.i_block[NDIR_BLOCKS + 1]
  IN  IF i < NDIR_BLOCKS THEN inode.i_block[i + 1]
      ELSE IF single \in DOMAIN d.pointers THEN d.pointers[single][i - NDIR_BLOCKS + 1]
      ELSE 0
ptrs_per_block(d) == d.block_size \div PTR_BYTES
Reach(d) == (NDIR_BLOCKS + ptrs_per_block(d)) * d.block_size

\* The bytes of a file, as far as the driver can reach.  Where it has no block
\* there is a hole, which the format defines to read as zeroes.
Bytes(d, inode) ==
  [i \in 1 .. (IF inode.size > Reach(d) THEN Reach(d) ELSE inode.size) |->
     LET block == FileBlock(d, inode, (i - 1) \div d.block_size)
     IN  IF block = 0 THEN Hole ELSE BlockAddr(d, block) + ((i - 1) % d.block_size)]

\* The entries of a directory, one after the other: where each one ends and the
\* next begins.
EntryEnd(dirents) ==
  LET end[k \in 0 .. Len(dirents)] == IF k = 0 THEN 0 ELSE end[k - 1] + dirents[k].rec_len
  IN  end
DirentAt(d, inode, a) ==
  inode.dirents[CHOOSE k \in DOMAIN inode.dirents :
                  Bytes(d, inode)[EntryEnd(inode.dirents)[k - 1] + 1] = a]

\* An intact directory: its entries fill it, it has no hole, and no block belongs
\* to it twice.
IsDirectory(d, inode) ==
  /\ inode.dirents \in Seq([inode : Nat, rec_len : Nat \ {0}])
  /\ EntryEnd(inode.dirents)[Len(inode.dirents)] = inode.size
  /\ \A i \in DOMAIN Bytes(d, inode) : Bytes(d, inode)[i] # Hole
  /\ \A i, j \in DOMAIN Bytes(d, inode) : Bytes(d, inode)[i] = Bytes(d, inode)[j] => i = j

\* A block that is on the disk, and where the inode table of a group ends.
OnDisk(d, b) ==
  b \in Nat /\ d.start + (b + 1) * (d.block_size \div LBA_SIZE) <= d.sectors
TableEnd(d, g) == d.tables[g] * d.block_size + d.inodes_per_group * d.inode_size

\* The sizes in the superblock of an ext2 file system of version 0, or of one
\* with inodes of the size the driver knows.
Sizes(d) ==
  /\ d.kind \in {"ata", "rd"} /\ d.start \in Nat
  /\ d.sectors \in Nat /\ d.sectors < LBA_LIMIT
  /\ d.block_size \in Nat /\ d.block_size >= 2 * LBA_SIZE
  /\ d.block_size % LBA_SIZE = 0 /\ d.block_size % PTR_BYTES = 0
  /\ d.inode_size = INODE_BYTES /\ LBA_SIZE % d.inode_size = 0
  /\ d.inodes_per_group \in Nat \ {0}
  /\ d.inodes_per_group % (LBA_SIZE \div d.inode_size) = 0
  /\ d.total_blocks \in Nat \ {0} /\ d.blocks_per_group \in Nat \ {0} /\ d.total_inodes \in Nat

\* A disk with an intact file system: everything the descriptors, inodes and
\* pointers name lies on the disk, and no two inode tables overlap.
Consistent(d) ==
  /\ Sizes(d)
  /\ d.tables \in Seq(Nat)
  /\ Len(d.tables) = CeilDiv(d.total_blocks, d.blocks_per_group)
  /\ d.total_inodes <= Len(d.tables) * d.inodes_per_group
  /\ d.start + ((2 * LBA_SIZE) \div d.block_size + 1) * (d.block_size \div LBA_SIZE)
       + CeilDiv(Len(d.tables) * GD_BYTES, LBA_SIZE) <= d.sectors
  /\ \A g \in DOMAIN d.tables :
       /\ d.start * LBA_SIZE + TableEnd(d, g) <= d.sectors * LBA_SIZE
       /\ \A h \in DOMAIN d.tables \ {g} :
            TableEnd(d, g) <= d.tables[h] * d.block_size
              \/ TableEnd(d, h) <= d.tables[g] * d.block_size
  /\ \A n \in DOMAIN d.inodes :
       /\ n \in Nat \ {0} /\ d.inodes[n].size \in Nat /\ d.inodes[n].size < SIZE_LIMIT
       /\ \A k \in 1 .. NDIR_BLOCKS + 1 : OnDisk(d, d.inodes[n].i_block[k])
       /\ d.inodes[n].size > NDIR_BLOCKS * d.block_size =>
            d.inodes[n].i_block[NDIR_BLOCKS + 1] \in DOMAIN d.pointers \cup {0}
       /\ d.inodes[n].type = "dir" => IsDirectory(d, d.inodes[n])
  /\ \A b \in DOMAIN d.pointers :
       /\ b \in Nat \ {0}
       /\ DOMAIN d.pointers[b] = 1 .. ptrs_per_block(d)
       /\ \A i \in DOMAIN d.pointers[b] : OnDisk(d, d.pointers[b][i])

ASSUME DisksAssumption == \A d \in Disks : Consistent(d)

-----------------------------------------------------------------------------
(* The block device: bd_read() over ps_read() and ata_read() or initrd_read() *)

\* The sector of the disk a sector of the partition is.
SectorOf(d, lba) ==
  IF d.kind = "ata" THEN (lba + d.start) % LBA_LIMIT ELSE lba + d.start

\* How many sectors readblk() copies: a disk transfers all of them or fails,
\* and it fails past its end; the ramdisk cuts the count at its end.
Copied(d, lba, count) ==
  LET first == SectorOf(d, lba)
  IN  IF d.kind = "ata"
      THEN IF first + count <= d.sectors THEN {0, count} ELSE {0}
      ELSE IF first + count > d.sectors THEN {d.sectors - first} ELSE {count}

\* What bd_read() returns: readblk()'s value times the sector size.  A disk's
\* readblk() returns sectors, the ramdisk's returns bytes.
BdResult(d, n) ==
  IF d.kind = "ata" THEN n * LBA_SIZE ELSE n * LBA_SIZE * LBA_SIZE

SectorBytes(d, lba, n) ==
  [i \in 1 .. n * LBA_SIZE |-> SectorOf(d, lba) * LBA_SIZE + i - 1]

-----------------------------------------------------------------------------
(* Where things are, as the driver computes it *)

block_lba_size(d) == d.block_size \div LBA_SIZE

gd_count(d) == CeilDiv(d.total_blocks, d.blocks_per_group)

SB_LBA == 2
SB_SIZE == 2

gdt_lba(d) == (IF d.block_size = 2 * LBA_SIZE THEN 2 ELSE 1) * block_lba_size(d)
gdt_lba_size(d) == CeilDiv(gd_count(d) * GD_BYTES, LBA_SIZE)

inodes_per_sector(d) == LBA_SIZE \div d.inode_size

\* A slip: the inode number is not reduced to its group.
ItableLbaUngrouped(d, descriptors, n) ==
  (n - 1) \div inodes_per_sector(d)
    + (TableAt(d, descriptors[((n - 1) \div d.inodes_per_group) * GD_BYTES + 1])
         * d.block_size) \div LBA_SIZE

ItableLba(d, descriptors, n) ==
  ((n - 1) % d.inodes_per_group) \div inodes_per_sector(d)
    + (TableAt(d, descriptors[((n - 1) \div d.inodes_per_group) * GD_BYTES + 1])
         * d.block_size) \div LBA_SIZE

\* Where in the sector's buffer the inode is taken from.
BufferIndex(d, n) == ((n - 1) % inodes_per_sector(d)) * INODE_BYTES

\* block_no * fs->block_size / LBA_SIZE in size_t arithmetic.
BlockLba(d, block_no) == ((block_no * d.block_size) % SIZE_LIMIT) \div LBA_SIZE

Inode(t) == InodeAt(disk, file[req[t].inode])

\* ext2_read() cuts the length at the end of the file; for an offset behind it the
\* difference wraps around.
Truncated(size, off, len) == IF off + len > size THEN (size - off) % SIZE_LIMIT ELSE len

CurrentBlock(t) == (job[t].off + Len(buffer[t])) \div disk.block_size
-----------------------------------------------------------------------------
Init ==
  /\ disk \in Disks
  /\ fs = "unknown" /\ group_descriptors = <<>> /\ fpos = 0
  /\ fs_tree_lock = NULL /\ fs_lock = NULL /\ io_lock = NULL
  /\ file = [n \in Lookups |-> NULL]
  /\ directory = [n \in Lookups |-> Directory("none", <<>>)]
  /\ req = [t \in Tasks |-> Idle] /\ job = [t \in Tasks |-> Idle]
  /\ io = [t \in Tasks |-> Idle]
  /\ block_buffer = [t \in Tasks |-> <<>>] /\ got = [t \in Tasks |-> 0]
  /\ buffer = [t \in Tasks |-> <<>>] /\ failed = [t \in Tasks |-> "none"]
  /\ reply = [t \in Tasks |-> Idle]
  /\ pc = [t \in Tasks |-> "idle"]

\* ext2_probe() without the group descriptors: a superblock that could not be read
\* counts as read, since the result is not negative.  Its signature is whatever the
\* stack holds, and if that happens to match so is all the rest.
ProbeUnread ==
  /\ \E n \in Copied(disk, SB_LBA, SB_SIZE) : n # SB_SIZE
  /\ fpos' = SB_LBA * LBA_SIZE
  /\ fs' \in {"rejected", "undefined"} /\ UNCHANGED group_descriptors

\* ext2_probe() once the superblock is there: the descriptors are read.  If that
\* fails there is no file system, and the kernel panics.
ProbeRead ==
  /\ SB_SIZE \in Copied(disk, SB_LBA, SB_SIZE)
  /\ fpos' = gdt_lba(disk) * LBA_SIZE
  /\ \E n \in Copied(disk, gdt_lba(disk), gdt_lba_size(disk)) :
       IF BdResult(disk, n) < gdt_lba_size(disk) * LBA_SIZE
       THEN fs' = "rejected" /\ UNCHANGED group_descriptors
       ELSE fs' = "mounted" /\ group_descriptors' = SectorBytes(disk, gdt_lba(disk), n)

Probe ==
  /\ fs = "unknown"
  /\ ProbeUnread \/ ProbeRead
  /\ UNCHANGED <<disk, locks, file, directory, req, job, transfer, buffer, reply, pc>>

\* A task looks a file up and, once it is found, reads some of it.  Nothing keeps
\* the offset within the file: vfs_seek() takes any, and the loader's come from
\* the headers of the binary.
Call(t, n, r) ==
  /\ At(t, "idle")
  /\ req' = [req EXCEPT ![t] = [inode |-> n, off |-> r.off, len |-> r.len]]
  /\ reply' = [reply EXCEPT ![t] = Idle]
  /\ Goto(t, "find")
  /\ UNCHANGED <<globals, fpos, locks, file, directory, job, transfer, buffer>>

\* A slip: the tree is searched without its lock.
FindUnlocked(t) ==
  /\ At(t, "find")
  /\ fs_tree_lock' = t /\ Goto(t, "lookup")
  /\ UNCHANGED <<globals, fpos, fs_lock, io_lock, file, directory, req, job, transfer, buffer, reply>>

\* ffind() takes fs_tree_lock ...
Find(t) ==
  /\ At(t, "find") /\ fs_tree_lock = NULL
  /\ fs_tree_lock' = t /\ Goto(t, "lookup")
  /\ UNCHANGED <<globals, fpos, fs_lock, io_lock, file, directory, req, job, transfer, buffer, reply>>

\* ... and ext2_fetch() allocates the entry's file if there is none yet.
Lookup(t) ==
  /\ At(t, "lookup")
  /\ IF file[req[t].inode] = NULL
     THEN file' = [file EXCEPT ![req[t].inode] = Loading] /\ Goto(t, "fetch")
     ELSE UNCHANGED file /\ Goto(t, "found")
  /\ UNCHANGED <<globals, fpos, locks, directory, req, job, transfer, buffer, reply>>

\* Hand ext2_get_block() its arguments and the place to return to.
GetBlock(t, lba, count, back) ==
  /\ io' = [io EXCEPT ![t] = [lba |-> lba, count |-> count, back |-> back]]
  /\ Goto(t, "io")
  /\ UNCHANGED <<block_buffer, got>>

\* ext2_fetch_file() and fetch_inode(): the number is checked, the sector of
\* the inode table is read.  The caller ignores the error.
Fetch(t) ==
  /\ At(t, "fetch") /\ fs_lock = NULL
  /\ IF req[t].inode > disk.total_inodes
     THEN /\ file' = [file EXCEPT ![req[t].inode] = Garbage]
          /\ Goto(t, "found")
          /\ UNCHANGED <<fs_lock, transfer>>
     ELSE /\ fs_lock' = t
          /\ GetBlock(t, ItableLba(disk, group_descriptors, req[t].inode), 1, "inode")
          /\ UNCHANGED <<file, failed>>
  /\ UNCHANGED <<globals, fpos, fs_tree_lock, io_lock, directory, req, job, buffer, reply>>

-----------------------------------------------------------------------------
(* ext2_get_block() *)

\* A slip: the device is shared without io_lock.
IoUnlocked(t) ==
  /\ At(t, "io")
  /\ io_lock' = t /\ Goto(t, "seek")
  /\ UNCHANGED <<globals, fpos, fs_tree_lock, fs_lock, file, directory, req, job, transfer, buffer, reply>>

IoLock(t) ==
  /\ At(t, "io") /\ io_lock = NULL
  /\ io_lock' = t /\ Goto(t, "seek")
  /\ UNCHANGED <<globals, fpos, fs_tree_lock, fs_lock, file, directory, req, job, transfer, buffer, reply>>

\* vfs_seek(fs->fd, lba * BLOCK_SIZE, SEEK_SET)
Seek(t) ==
  /\ At(t, "seek")
  /\ fpos' = (io[t].lba * LBA_SIZE) % SIZE_LIMIT
  /\ Goto(t, "transfer")
  /\ UNCHANGED <<globals, locks, file, directory, req, job, transfer, buffer, reply>>

\* vfs_read() from the position the descriptor has now.
Transfer(t) ==
  /\ At(t, "transfer")
  /\ LET lba == fpos \div LBA_SIZE
     IN  \E n \in Copied(disk, lba, io[t].count) :
           /\ got' = [got EXCEPT ![t] = BdResult(disk, n)]
           /\ block_buffer' = [block_buffer EXCEPT
                ![t] = IF n = 0 THEN @ ELSE SectorBytes(disk, lba, n)]
           /\ failed' = [failed EXCEPT ![t] = IF n = io[t].count THEN @
                                           ELSE IF io[t].back = "pointer" THEN "pointers" ELSE "data"]
  /\ Goto(t, "iounlock")
  /\ UNCHANGED <<globals, fpos, locks, file, directory, req, job, io, buffer, reply>>

IoUnlock(t) ==
  /\ At(t, "iounlock")
  /\ io_lock' = NULL /\ Goto(t, io[t].back)
  /\ UNCHANGED <<globals, fpos, fs_tree_lock, fs_lock, file, directory, req, job, transfer, buffer, reply>>

GotAll(t) == got[t] >= io[t].count * LBA_SIZE
-----------------------------------------------------------------------------
(* The fetched inode and its directory *)

\* Begin an ext2_read() for the task itself or for a directory's entries.
StartRead(t, for, size, off, len) ==
  /\ job' = [job EXCEPT ![t] = [for |-> for, off |-> off, len |-> Truncated(size, off, len)]]
  /\ buffer' = [buffer EXCEPT ![t] = <<>>]
  /\ block_buffer' = [block_buffer EXCEPT ![t] = <<>>]
  /\ failed' = [failed EXCEPT ![t] = "none"]
  /\ Goto(t, "loop")
  /\ UNCHANGED <<io, got>>

\* The inode is copied out of the sector.  A directory is read at once, with
\* fs_lock still held; a failed transfer leaves the file_t as kmalloc() gave it.
FillInode(t) ==
  /\ At(t, "inode")
  /\ LET n == req[t].inode
         a == block_buffer[t][BufferIndex(disk, n) + 1]
     IN  /\ file' = [file EXCEPT ![n] = IF GotAll(t) THEN a ELSE Garbage]
         /\ IF GotAll(t) /\ InodeAt(disk, a).type = "dir"
            THEN /\ StartRead(t, "dir", InodeAt(disk, a).size, 0, InodeAt(disk, a).size)
                 /\ UNCHANGED fs_lock
            ELSE /\ fs_lock' = NULL /\ Goto(t, "found")
                 /\ UNCHANGED <<job, transfer, buffer>>
  /\ UNCHANGED <<globals, fpos, fs_tree_lock, io_lock, directory, req, reply>>

\* The inode numbers ext2_fetch_dir() finds in a directory's bytes, going from
\* entry to entry; an entry that is not in use has inode 0.
Used(inodes) == SelectSeq(inodes, LAMBDA i : i # 0)
Entries(d, inode, bytes) ==
  LET Dirent(i) == DirentAt(d, inode, bytes[i + 1])
      index[k \in 0 .. Len(bytes)] ==
        IF k = 0 THEN 0
        ELSE LET i == index[k - 1]
             IN  IF i < Len(bytes) THEN i + Dirent(i).rec_len ELSE i
      entries == {k \in 1 .. Len(bytes) : index[k - 1] < Len(bytes)}
  IN  Used([k \in entries |-> Dirent(index[k - 1]).inode])

\* ext2_fetch_dir() lists what the buffer holds, even if the read failed.
FillDir(t) ==
  /\ At(t, "parse")
  /\ directory' = [directory EXCEPT ![req[t].inode] =
                     IF Len(buffer[t]) = job[t].len /\ failed[t] = "none"
                     THEN Directory("listed", Entries(disk, Inode(t), buffer[t]))
                     ELSE Directory("garbage", <<>>)]
  /\ fs_lock' = NULL /\ Goto(t, "found")
  /\ UNCHANGED <<globals, fpos, fs_tree_lock, io_lock, file, req, job, transfer, buffer, reply>>

\* ffind() is over.
Found(t) ==
  /\ At(t, "found")
  /\ fs_tree_lock' = NULL /\ Goto(t, "opened")
  /\ UNCHANGED <<globals, fpos, fs_lock, io_lock, file, directory, req, job, transfer, buffer, reply>>

Return(t, value) ==
  /\ reply' = [reply EXCEPT ![t] = value]
  /\ req' = [req EXCEPT ![t] = Idle] /\ job' = [job EXCEPT ![t] = Idle]
  /\ buffer' = [buffer EXCEPT ![t] = <<>>]
  /\ block_buffer' = [block_buffer EXCEPT ![t] = <<>>]
  /\ io' = [io EXCEPT ![t] = Idle] /\ got' = [got EXCEPT ![t] = 0]
  /\ Goto(t, "idle")
  /\ UNCHANGED failed

\* What the file_t of the inode holds is undefined.
Lost(n) == file[n] = Garbage \/ directory[n].state = "garbage"

\* vfs_open() looks at the type, which is anything if the inode was not read.
Open(t) ==
  /\ At(t, "opened")
  /\ LET n == req[t].inode
     IN  IF Lost(n)
         THEN Return(t, Garbage)
         ELSE IF Inode(t).type = "dir"
         THEN Return(t, EISDIR)
         ELSE /\ StartRead(t, "read", Inode(t).size, req[t].off, req[t].len)
              /\ UNCHANGED <<req, reply>>
  /\ UNCHANGED <<globals, fpos, locks, file, directory>>

-----------------------------------------------------------------------------
(* ext2_read() *)

More(t) == At(t, "loop") /\ Len(buffer[t]) < job[t].len

ReadDirect(t) ==
  /\ More(t) /\ CurrentBlock(t) < NDIR_BLOCKS
  /\ GetBlock(t, BlockLba(disk, Inode(t).i_block[CurrentBlock(t) + 1]), block_lba_size(disk), "data")
  /\ UNCHANGED <<globals, fpos, locks, file, directory, req, job, failed, buffer, reply>>

\* ext2_get_file_block() needs the block of pointers first.
ReadIndirect(t) ==
  /\ More(t)
  /\ CurrentBlock(t) >= NDIR_BLOCKS /\ CurrentBlock(t) < NDIR_BLOCKS + ptrs_per_block(disk)
  /\ GetBlock(t, Inode(t).i_block[NDIR_BLOCKS + 1] * block_lba_size(disk), block_lba_size(disk), "pointer")
  /\ UNCHANGED <<globals, fpos, locks, file, directory, req, job, failed, buffer, reply>>

\* "indirect pointers are unimplemented": the kernel panics.
ReadTooFar(t) ==
  /\ More(t) /\ CurrentBlock(t) >= NDIR_BLOCKS + ptrs_per_block(disk)
  /\ fs' = "panicked"
  /\ UNCHANGED <<disk, group_descriptors, fpos, locks, file, directory, req, job, transfer, buffer, reply, pc>>

\* A slip: a block of pointers that cannot be read is taken for a hole.
FollowHole(t) ==
  /\ At(t, "pointer")
  /\ LET i == (CurrentBlock(t) - NDIR_BLOCKS) * PTR_BYTES
     IN  GetBlock(t, BlockLba(disk, IF GotAll(t) THEN PointerAt(disk, block_buffer[t][i + 1]) ELSE 0),
                  block_lba_size(disk), "data")
  /\ UNCHANGED <<globals, fpos, locks, file, directory, req, job, failed, buffer, reply>>

\* The pointer, or (size_t)-1 if its block could not be read, is used as it is:
\* one block before the start of the device.
FollowPointer(t) ==
  /\ At(t, "pointer")
  /\ LET i == (CurrentBlock(t) - NDIR_BLOCKS) * PTR_BYTES
         block_no == IF GotAll(t) THEN PointerAt(disk, block_buffer[t][i + 1])
                     ELSE SIZE_LIMIT - 1
     IN  GetBlock(t, BlockLba(disk, block_no), block_lba_size(disk), "data")
  /\ UNCHANGED <<globals, fpos, locks, file, directory, req, job, failed, buffer, reply>>

BbOffset(t) == IF buffer[t] = <<>> THEN job[t].off % disk.block_size ELSE 0

\* A slip: the last block is not cut.
CpySizeUncut(t) == disk.block_size - BbOffset(t)

CpySize(t) ==
  LET left == disk.block_size - BbOffset(t)
      over == Len(buffer[t]) + left - job[t].len
  IN  IF over > 0 THEN left - over ELSE left

\* How many bytes the caller's buffer has room for: a directory is read into one
\* of its size.
Room(t) == IF job[t].for = "dir" THEN Inode(t).size ELSE req[t].len

\* The block is in the buffer: copy what is wanted of it, or give up.
CopyBlock(t) ==
  /\ At(t, "data")
  /\ GotAll(t) => Len(buffer[t]) + CpySize(t) <= Room(t)
  /\ IF GotAll(t)
     THEN /\ buffer' = [buffer EXCEPT ![t] = @ \o
                 SubSeq(block_buffer[t], BbOffset(t) + 1, BbOffset(t) + CpySize(t))]
          /\ Goto(t, "loop")
          /\ UNCHANGED <<req, job, transfer, reply>>
     ELSE IF job[t].for = "dir"
     THEN Goto(t, "parse") /\ UNCHANGED <<req, job, transfer, buffer, reply>>
     ELSE Return(t, EIO)
  /\ UNCHANGED <<globals, fpos, locks, file, directory>>

\* The same memcpy() writes behind the caller's buffer.
CopyBehind(t) ==
  /\ At(t, "data") /\ GotAll(t) /\ Len(buffer[t]) + CpySize(t) > Room(t)
  /\ fs' = "overrun"
  /\ UNCHANGED <<disk, group_descriptors, fpos, locks, file, directory, req, job, transfer, buffer, reply, pc>>

ReadDone(t) ==
  /\ At(t, "loop") /\ Len(buffer[t]) >= job[t].len
  /\ IF job[t].for = "dir"
     THEN Goto(t, "parse") /\ UNCHANGED <<req, job, transfer, buffer, reply>>
     ELSE Return(t, buffer[t])
  /\ UNCHANGED <<globals, fpos, locks, file, directory>>

\* After a panic, or without a root file system, nothing happens any more.
Halted == fs \in {"rejected", "panicked", "undefined", "overrun"} /\ UNCHANGED vars

Step(t) ==
  \/ Find(t) \/ Lookup(t) \/ Fetch(t) \/ IoLock(t) \/ Seek(t) \/ Transfer(t)
  \/ IoUnlock(t) \/ FillInode(t) \/ FillDir(t) \/ Found(t) \/ Open(t)
  \/ ReadDirect(t) \/ ReadIndirect(t) \/ ReadTooFar(t) \/ FollowPointer(t)
  \/ CopyBlock(t) \/ CopyBehind(t) \/ ReadDone(t)

Next ==
  \/ Probe \/ Halted
  \/ \E t \in Tasks : Step(t) \/ \E n \in Lookups, r \in Ranges : Call(t, n, r)

Spec == Init /\ [][Next]_vars
-----------------------------------------------------------------------------
\* Every inode in memory was copied from the place on the disk where that inode
\* is (fetch_inode(), for every group and position in a sector), and every
\* directory lists exactly its entries in use (ext2_fetch_dir()), unless the
\* transfer failed.
FetchedRight ==
  \A n \in Lookups :
    /\ file[n] \in {NULL, Loading, Garbage} \/ (n \in Existing(disk) /\ file[n] = InodeAddr(disk, n))
    /\ directory[n].state = "listed" =>
         directory[n].files =
           Used([k \in DOMAIN disk.inodes[n].dirents |-> disk.inodes[n].dirents[k].inode])

\* No task opens or reads a file_t that another task is still filling in:
\* direntry->file is set before the inode is read (ext2fs.c:420), so a lookup
\* must not see it until fs_tree_lock is released.
NoHalfFile ==
  \A t \in Tasks :
    pc[t] = "opened" \/ (job[t] # Idle /\ job[t].for = "read") =>
      /\ file[req[t].inode] \notin {NULL, Loading}
      /\ file[req[t].inode] # Garbage =>
           (Inode(t).type = "dir" => directory[req[t].inode].state # "none")

\* A read whose block of pointers could not be read from a partition that begins
\* a block or more into its disk: (size_t)-1 then is a block of that disk, and
\* its bytes are taken for the file's.
Misled(t) == failed[t] = "pointers" /\ disk.start >= block_lba_size(disk)

\* ext2_read() returns bytes only if every transfer it made succeeded: a failed
\* one ends it with -EIO (ext2fs.c:304-308), wherever in the file it happens,
\* a failed block of pointers included unless the read is Misled.
IoErrorReported ==
  \A t \in Tasks :
    pc[t] = "idle" /\ failed[t] # "none" /\ ~Misled(t)
      => reply[t] \in {Idle, EIO, EISDIR, Garbage}

\* The task reads from an offset behind the end of its file.
Behind(t) == req[t] # Idle /\ req[t].off > disk.inodes[req[t].inode].size

\* A read that begins within its file writes no byte behind its caller's buffer,
\* wherever it begins and ends in a block and however much longer than the rest
\* of the file it is (ext2fs.c:310-319).
OverrunOnlyBehind == fs = "overrun" => \E t \in Tasks : Behind(t)

Abstract ==
  INSTANCE FileSpec WITH
    contents <- [n \in Lookups |-> IF disk.inodes[n].type = "dir" THEN EISDIR
                                   ELSE Bytes(disk, disk.inodes[n])],
    call <- req,
    reply <- reply,
    lost <- {n \in Lookups : Lost(n)},
    misled <- {t \in Tasks : job[t] # Idle /\ Misled(t)}

\* Tasks that look up and read files at the same time through one descriptor
\* each get exactly the bytes of their own file, or an error (FileSpec), but for
\* lost files, misled reads and the bytes of holes.
ImplementsFile == Abstract!Spec
=============================================================================
