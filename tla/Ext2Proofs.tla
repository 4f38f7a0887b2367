----------------------------- MODULE Ext2Proofs -----------------------------
(***************************************************************************)
(* Ext2 for any tasks, any sizes of sectors and structures and any intact  *)
(* disks: a file_t is complete when it is seen, an inode and the entries   *)
(* of a directory are the right ones, every failed transfer is reported,   *)
(* and what a task reads are the bytes of its file.                        *)
(***************************************************************************)
EXTENDS Ext2, SequenceTheorems, WellFoundedInduction, TLAPS

-----------------------------------------------------------------------------
(* The inductive invariant *)

IoLabels == {"io", "seek", "transfer", "iounlock"}
ReadLabels == IoLabels \cup {"loop", "pointer", "data", "parse"}
Labels == ReadLabels \cup {"idle", "find", "lookup", "fetch", "inode", "found", "opened"}

Calls == [inode : Nat, off : Nat, len : Nat]
Jobs == [for : {"dir", "read"}, off : Nat, len : Nat]
Transfers == [lba : Nat, count : Nat, back : {"inode", "pointer", "data"}]

\* What a task has in its hands at each place of the code.
Control(t) ==
  /\ req[t] \in {Idle} \cup Calls /\ job[t] \in {Idle} \cup Jobs
  /\ io[t] \in {Idle} \cup Transfers /\ pc[t] \in Labels
  /\ pc[t] = "idle" <=> req[t] = Idle
  /\ pc[t] # "idle" => req[t].inode \in Lookups
  /\ pc[t] \in {"idle", "find", "lookup", "fetch", "inode"} => job[t] = Idle
  /\ pc[t] \in {"loop", "pointer", "data", "parse"} => job[t] # Idle
  /\ pc[t] \in {"parse", "found", "opened"} /\ job[t] # Idle => job[t].for = "dir"
  /\ pc[t] \in IoLabels \cup {"inode", "pointer", "data"} => io[t] \in Transfers
  /\ pc[t] \in {"inode", "pointer", "data"} => io[t].back = pc[t]
  /\ pc[t] \in IoLabels => (io[t].back = "inode" <=> job[t] = Idle)
  /\ block_buffer[t] \in Seq(Nat) /\ buffer[t] \in Seq(Nat) /\ got[t] \in Int
  /\ failed[t] \in {"none", "pointers", "data"}

\* The inode a task reads from.
Node(t) == disk.inodes[req[t].inode]

Active(t) == job[t] # Idle /\ pc[t] \in ReadLabels

\* The sectors of a transfer are on the disk.
Within(lba, count) == count > 0 /\ disk.start + lba + count <= disk.sectors

\* Where the driver reads when it follows a pointer it could not read.
Wild == BlockLba(disk, SIZE_LIMIT - 1)

\* What the transfer in progress is meant to read.
Request(t) ==
  pc[t] \in IoLabels \cup {"inode", "pointer", "data"} =>
    /\ io[t].back = "inode" =>
         /\ req[t].inode \in Existing(disk)
         /\ io[t].count = 1
         /\ io[t].lba = ItableLba(disk, group_descriptors, req[t].inode)
    /\ io[t].back # "inode" =>
         /\ io[t].count = block_lba_size(disk)
         /\ CurrentBlock(t) < NDIR_BLOCKS + ptrs_per_block(disk)
         /\ Len(buffer[t]) < job[t].len
    /\ io[t].back = "pointer" =>
         /\ CurrentBlock(t) >= NDIR_BLOCKS
         /\ io[t].lba = Node(t).i_block[NDIR_BLOCKS + 1] * block_lba_size(disk)
    /\ io[t].back = "data" =>
         \/ io[t].lba = FileBlock(disk, Node(t), CurrentBlock(t)) * block_lba_size(disk)
         \/ io[t].lba = Wild /\ failed[t] # "none"

\* What it has read.
Outcome(t) ==
  pc[t] \in {"iounlock", "inode", "pointer", "data"} =>
    /\ GotAll(t) => block_buffer[t] = SectorBytes(disk, io[t].lba, io[t].count)
    /\ ~GotAll(t) /\ io[t].back = "pointer" => failed[t] = "pointers"

\* The error that is not reported yet will be, unless the read is misled.
Errors(t) ==
  /\ failed[t] # "none" => disk.kind = "ata"
  /\ job[t] # Idle /\ failed[t] # "none" /\ ~Misled(t) =>
       /\ pc[t] # "loop"
       /\ pc[t] \in {"io", "seek", "transfer"} => io[t].back = "data" /\ io[t].lba = Wild
                                                  /\ failed[t] = "pointers"
       /\ pc[t] \in {"iounlock", "pointer", "data"} => ~GotAll(t)

\* Where the driver reads byte i of a file from: in a hole, and behind the end of
\* the file, from a block 0.
StoredAt(d, inode, i) ==
  BlockAddr(d, FileBlock(d, inode, (i - 1) \div d.block_size)) + ((i - 1) % d.block_size)

\* The bytes an ext2_read() has so far are the file's, from its offset on.
Reading(t) ==
  Active(t) =>
    /\ req[t].inode \in Existing(disk)
    /\ job[t].for = "read" =>
         /\ job[t].off = req[t].off
         /\ job[t].len = Truncated(Node(t).size, req[t].off, req[t].len)
         /\ Node(t).type # "dir"
         /\ Len(buffer[t]) <= req[t].len
    /\ job[t].for = "dir" =>
         Node(t).type = "dir" /\ job[t].off = 0 /\ job[t].len = Node(t).size
    /\ Len(buffer[t]) <= job[t].len
    /\ \/ buffer[t] = <<>> \/ Len(buffer[t]) = job[t].len
       \/ (job[t].off + Len(buffer[t])) % disk.block_size = 0
    /\ buffer[t] # <<>> => job[t].off + Len(buffer[t]) <= Reach(disk)
    /\ failed[t] = "none" =>
         \A i \in 1 .. Len(buffer[t]) :
           buffer[t][i] = StoredAt(disk, Node(t), job[t].off + i)

\* What a task that was asked for knows about its call.
Asked(t) == pc[t] # "idle" => req[t].off + req[t].len < SIZE_LIMIT

\* What an idle task was told: IoErrorReported, for one task.
Reported(t) ==
  pc[t] = "idle" /\ failed[t] # "none" /\ ~Misled(t)
    => reply[t] \in {Idle, EIO, EISDIR, Garbage}

Private(t) ==
  Control(t) /\ Request(t) /\ Outcome(t) /\ Errors(t) /\ Reading(t) /\ Asked(t) /\ Reported(t)

\* A task that is looking a file up.
Looking(t) ==
  \/ pc[t] \in {"lookup", "fetch", "inode", "parse", "found"}
  \/ pc[t] \in ReadLabels /\ (job[t] = Idle \/ job[t].for = "dir")

\* The inode is in memory; the file_t is complete.
Fetched(n) == n \in Existing(disk) /\ file[n] = InodeAddr(disk, n)
Whole(n) ==
  \/ file[n] = Garbage
  \/ Fetched(n) /\ (disk.inodes[n].type = "dir" => directory[n].state # "none")

\* The task has made the file_t of the inode and not filled it in.
Loads(t) == pc[t] \in {"fetch", "inode"} \/ (pc[t] \in IoLabels /\ job[t] = Idle)
Lists(t) == Active(t) /\ job[t].for = "dir"

\* What a task may rely on in the state it shares with the others.
Shared(t) ==
  /\ Looking(t) => fs_tree_lock = t
  /\ pc[t] \in {"seek", "transfer", "iounlock"} => io_lock = t
  /\ pc[t] = "transfer" => fpos = io[t].lba * LBA_SIZE
  /\ Loads(t) => file[req[t].inode] = Loading
  /\ Lists(t) => Fetched(req[t].inode) /\ directory[req[t].inode].state = "none"
  /\ pc[t] \in {"found", "opened"} => Whole(req[t].inode)
  /\ Active(t) /\ job[t].for = "read" =>
       Fetched(req[t].inode) /\ ~Lost(req[t].inode)

\* Every file_t is complete, or the one task that looks files up fills it in.
Complete ==
  \A n \in Lookups :
    \/ file[n] = NULL \/ Whole(n)
    \/ \E t \in Tasks : (Loads(t) \/ Lists(t)) /\ req[t].inode = n

Types ==
  /\ disk \in Disks /\ fpos \in Nat
  /\ fs \in {"unknown", "mounted", "rejected", "panicked", "undefined", "overrun"}
  /\ file \in [Lookups -> Nat \cup {NULL, Loading, Garbage}]
  /\ directory = [n \in Lookups |-> directory[n]]
  /\ \A n \in Lookups : directory[n].state \in {"none", "listed", "garbage"}

\* What each task has.
Functions ==
  /\ req = [t \in Tasks |-> req[t]] /\ job = [t \in Tasks |-> job[t]]
  /\ io = [t \in Tasks |-> io[t]] /\ block_buffer = [t \in Tasks |-> block_buffer[t]]
  /\ got = [t \in Tasks |-> got[t]] /\ buffer = [t \in Tasks |-> buffer[t]]
  /\ failed = [t \in Tasks |-> failed[t]] /\ reply = [t \in Tasks |-> reply[t]]
  /\ pc = [t \in Tasks |-> pc[t]]

\* The descriptors in memory are the disk's.
Descriptors ==
  /\ fs \in {"mounted", "panicked", "overrun"} =>
       group_descriptors = SectorBytes(disk, gdt_lba(disk), gdt_lba_size(disk))
  /\ fs \in {"unknown", "rejected", "undefined"} => \A t \in Tasks : pc[t] = "idle"

Inodes == \A n \in Lookups : file[n] \in {NULL, Loading, Garbage} \/ Fetched(n)

\* A file_t that is not filled in has no directory.
Blank == \A n \in Lookups : file[n] \in {NULL, Loading} => directory[n].state = "none"

Ext2Inv ==
  /\ Types /\ Functions /\ Descriptors /\ Inodes /\ Blank /\ Complete /\ OverrunOnlyBehind
  /\ \A t \in Tasks : Private(t) /\ Shared(t)

-----------------------------------------------------------------------------
(* Arithmetic *)

LEMMA DivMod ==
  ASSUME NEW b \in Nat, NEW n \in Nat \ {0}
  PROVE  b = (b \div n) * n + (b % n) /\ b \div n \in Nat /\ b % n \in 0 .. n - 1
  BY Z3

LEMMA Product == ASSUME NEW a \in Nat, NEW b \in Nat PROVE a * b \in Nat /\ a * b = b * a
  BY Z3

LEMMA Distribute ==
  ASSUME NEW a \in Int, NEW b \in Int, NEW c \in Int
  PROVE  (a + b) * c = a * c + b * c
  BY Z3

LEMMA Associate ==
  ASSUME NEW a \in Int, NEW b \in Int, NEW c \in Int
  PROVE  (a * b) * c = a * (b * c) /\ (a * b) * c = (a * c) * b
  BY Z3

\* Products grow with their factors.
LEMMA Growing ==
  ASSUME NEW a \in Nat, NEW b \in Nat, NEW c \in Nat
  PROVE  /\ a <= b => a * c <= b * c
         /\ a < b => a * c + c <= b * c
         /\ c > 0 /\ a * c < b * c => a < b
         /\ c > 0 /\ a * c <= b * c => a <= b
<1>1. ASSUME NEW x \in Nat, NEW y \in Nat, x <= y PROVE x * c <= y * c
  <2>1. y = x + (y - x) /\ y - x \in Nat
    BY <1>1
  <2>2. y * c = x * c + (y - x) * c
    BY <2>1, Distribute
  <2>3. (y - x) * c \in Nat /\ x * c \in Nat
    BY <2>1, Product
  <2> QED
    BY <2>2, <2>3
<1>2. ASSUME NEW x \in Nat, NEW y \in Nat, x < y PROVE x * c + c <= y * c
  <2>1. x + 1 \in Nat /\ x + 1 <= y
    BY <1>2
  <2>2. (x + 1) * c = x * c + 1 * c /\ 1 * c = c
    BY Distribute
  <2> QED
    BY <2>1, <2>2, <1>1
<1>3. \A x, y \in Nat : x * c \in Nat /\ y * c \in Nat
  BY Product
<1> QED
  BY <1>1, <1>2, <1>3

\* Quotient and remainder are unique.
LEMMA Divided ==
  ASSUME NEW q \in Nat, NEW n \in Nat \ {0}, NEW r \in 0 .. n - 1
  PROVE  (q * n + r) \div n = q /\ (q * n + r) % n = r
<1> DEFINE a == q * n + r
           p == a \div n
           s == a % n
<1>1. a \in Nat /\ q * n \in Nat
  BY Product
<1>2. a = p * n + s /\ p \in Nat /\ s \in 0 .. n - 1
  BY <1>1, DivMod
<1>3. p * n \in Nat
  BY <1>2, Product
<1> HIDE DEF p, s
<1>4. ~(p < q)
  <2>1. p < q => p * n + n <= q * n
    BY <1>2, Growing
  <2> QED
    BY <2>1, <1>1, <1>2, <1>3
<1>5. ~(q < p)
  <2>1. q < p => q * n + n <= p * n
    BY <1>2, Growing
  <2> QED
    BY <2>1, <1>1, <1>2, <1>3
<1>6. p = q
  BY <1>2, <1>4, <1>5
<1> QED
  BY <1>1, <1>2, <1>3, <1>6 DEF p, s

\* A multiple is its quotient times the divisor.
LEMMA Exact ==
  ASSUME NEW b \in Nat, NEW n \in Nat \ {0}, b % n = 0
  PROVE  b \div n \in Nat /\ b = (b \div n) * n
  BY DivMod

-----------------------------------------------------------------------------
(* The geometry of an intact disk *)

\* Sectors of a block, bytes of a block, inodes of a sector and of a group.
LEMMA SizeFacts ==
  ASSUME NEW d, Sizes(d)
  PROVE  /\ d.start \in Nat /\ d.sectors \in Nat /\ d.sectors < LBA_LIMIT
         /\ d.kind \in {"ata", "rd"}
         /\ LBA_SIZE \in Nat \ {0} /\ LBA_LIMIT \in Nat \ {0} /\ SIZE_LIMIT \in Nat \ {0}
         /\ block_lba_size(d) \in Nat /\ block_lba_size(d) >= 2
         /\ d.block_size = block_lba_size(d) * LBA_SIZE
         /\ d.block_size \in Nat \ {0} /\ d.block_size >= 2 * LBA_SIZE
<1>1. /\ d.start \in Nat /\ d.sectors \in Nat /\ d.sectors < LBA_LIMIT
      /\ d.kind \in {"ata", "rd"}
      /\ LBA_SIZE \in Nat \ {0} /\ LBA_LIMIT \in Nat \ {0} /\ SIZE_LIMIT \in Nat \ {0}
      /\ d.block_size \in Nat /\ d.block_size >= 2 * LBA_SIZE /\ d.block_size % LBA_SIZE = 0
  BY SizesAssumption DEF Sizes
<1>2. block_lba_size(d) \in Nat /\ d.block_size = block_lba_size(d) * LBA_SIZE
  BY <1>1, Exact DEF block_lba_size
<1>3. block_lba_size(d) >= 2
  BY <1>1, <1>2, Growing
<1> QED
  BY <1>1, <1>2, <1>3

\* The addresses of bytes go as far as those of sectors.
LEMMA Limits == LBA_LIMIT * LBA_SIZE <= SIZE_LIMIT /\ SIZE_LIMIT \in Nat
<1> DEFINE m == LBA_LIMIT * LBA_SIZE
<1>1. m \in Nat \ {0} /\ SIZE_LIMIT \in Nat \ {0} /\ SIZE_LIMIT % m = 0
  <2>1. LBA_LIMIT \in Nat \ {0} /\ LBA_SIZE \in Nat \ {0} /\ LBA_SIZE >= 1
    BY SizesAssumption
  <2>2. 1 * LBA_LIMIT <= LBA_SIZE * LBA_LIMIT
    BY <2>1, Growing
  <2> QED
    BY <2>1, <2>2, Product, SizesAssumption
<1> HIDE DEF m
<1>2. SIZE_LIMIT = (SIZE_LIMIT \div m) * m /\ SIZE_LIMIT \div m \in Nat
  BY <1>1, Exact
<1>3. SIZE_LIMIT \div m # 0
  BY <1>1, <1>2
<1>4. 1 * m <= (SIZE_LIMIT \div m) * m
  BY <1>1, <1>2, <1>3, Growing
<1> QED
  BY <1>1, <1>2, <1>4 DEF m

\* A transfer of sectors that are on the disk: nothing wraps around, and its
\* result tells whether all of them were copied.
LEMMA TransferWithin ==
  ASSUME NEW d, Sizes(d), NEW lba \in Nat, NEW count \in Nat,
         count > 0, d.start + lba + count <= d.sectors
  PROVE  /\ lba * LBA_SIZE \in Nat /\ lba * LBA_SIZE < SIZE_LIMIT
         /\ SectorOf(d, lba) = d.start + lba
         /\ \A n \in Copied(d, lba, count) :
              /\ n = count \/ (n = 0 /\ d.kind = "ata")
              /\ BdResult(d, n) \in Int
              /\ BdResult(d, n) >= count * LBA_SIZE <=> n = count
<1>1. /\ d.start \in Nat /\ d.sectors \in Nat /\ d.sectors < LBA_LIMIT
      /\ LBA_SIZE \in Nat \ {0} /\ LBA_LIMIT \in Nat \ {0} /\ SIZE_LIMIT \in Nat \ {0}
      /\ d.kind \in {"ata", "rd"}
  BY SizeFacts
<1>2. lba + d.start \in 0 .. LBA_LIMIT - 1 /\ lba < LBA_LIMIT
  BY <1>1
<1>3. lba * LBA_SIZE \in Nat /\ LBA_LIMIT * LBA_SIZE \in Nat
      /\ lba * LBA_SIZE + LBA_SIZE <= LBA_LIMIT * LBA_SIZE
  BY <1>1, <1>2, Growing, Product
<1>4. lba * LBA_SIZE < SIZE_LIMIT
  BY <1>1, <1>3, Limits
<1>5. (lba + d.start) % LBA_LIMIT = lba + d.start
  BY <1>1, <1>2
<1>6. SectorOf(d, lba) = d.start + lba
  BY <1>1, <1>5 DEF SectorOf
<1>7. count * LBA_SIZE \in Nat /\ count * LBA_SIZE >= LBA_SIZE
      /\ (count * LBA_SIZE) * LBA_SIZE \in Nat
      /\ (count * LBA_SIZE) * LBA_SIZE >= count * LBA_SIZE
  <2>1. 0 * LBA_SIZE + LBA_SIZE <= count * LBA_SIZE
    BY <1>1, Growing
  <2>2. count * LBA_SIZE \in Nat /\ LBA_SIZE * (count * LBA_SIZE) = (count * LBA_SIZE) * LBA_SIZE
        /\ (count * LBA_SIZE) * LBA_SIZE \in Nat
    BY <1>1, Product
  <2>3. 1 * (count * LBA_SIZE) <= LBA_SIZE * (count * LBA_SIZE)
    BY <1>1, <2>2, Growing
  <2> QED
    BY <1>1, <2>1, <2>2, <2>3
<1>8. ASSUME NEW n \in Copied(d, lba, count)
      PROVE  /\ n = count \/ (n = 0 /\ d.kind = "ata")
             /\ BdResult(d, n) \in Int
             /\ BdResult(d, n) >= count * LBA_SIZE <=> n = count
  <2>1. n = count \/ (n = 0 /\ d.kind = "ata")
    BY <1>1, <1>6 DEF Copied
  <2>2. CASE n = 0 /\ d.kind = "ata"
    BY <2>2, <1>1, <1>7 DEF BdResult
  <2>3. CASE n = count
    BY <2>3, <1>1, <1>7 DEF BdResult
  <2> QED
    BY <2>1, <2>2, <2>3
<1> QED
  BY <1>3, <1>4, <1>6, <1>8

\* A block is smaller than the disk, and the first one is on it.
LEMMA BlockFits ==
  ASSUME NEW d, Consistent(d)
  PROVE  block_lba_size(d) < LBA_LIMIT /\ OnDisk(d, 0)
<1> DEFINE bls == block_lba_size(d)
           first == (2 * LBA_SIZE) \div d.block_size
           gds == CeilDiv(Len(d.tables) * GD_BYTES, LBA_SIZE)
<1>1. /\ Sizes(d) /\ d.tables \in Seq(Nat)
      /\ d.start + (first + 1) * bls + gds <= d.sectors
  BY DEF Consistent, block_lba_size
<1>2. /\ d.start \in Nat /\ d.sectors \in Nat /\ d.sectors < LBA_LIMIT /\ LBA_LIMIT \in Nat
      /\ LBA_SIZE \in Nat \ {0} /\ bls \in Nat /\ d.block_size \in Nat \ {0}
  BY <1>1, SizeFacts
<1>3. first \in Nat
  <2>1. 2 * LBA_SIZE \in Nat
    BY <1>2
  <2> QED
    BY <1>2, <2>1, DivMod
<1>4. gds \in Nat
  <2>1. Len(d.tables) * GD_BYTES \in Nat
    BY <1>1, Product, SizesAssumption
  <2> DEFINE x == Len(d.tables) * GD_BYTES
  <2> HIDE DEF x
  <2>2. x \in Nat /\ x \div LBA_SIZE \in Nat
    BY <2>1, <1>2, DivMod DEF x
  <2>3. CeilDiv(x, LBA_SIZE) \in Nat
    BY <2>2 DEF CeilDiv
  <2> QED
    BY <2>3 DEF x
<1>5. 1 * bls <= (first + 1) * bls /\ (first + 1) * bls \in Nat
  BY <1>2, <1>3, Growing, Product
<1> HIDE DEF bls, first, gds
<1> DEFINE y == (first + 1) * bls
<1>8. bls <= y /\ y \in Nat /\ d.start + y + gds <= d.sectors
  BY <1>1, <1>2, <1>5
<1> HIDE DEF y
<1>6. bls < LBA_LIMIT /\ d.start + bls <= d.sectors
  BY <1>2, <1>4, <1>8
<1>7. OnDisk(d, 0)
  BY <1>2, <1>6 DEF OnDisk, bls, block_lba_size
<1> QED
  BY <1>6, <1>7 DEF bls

\* The block of a wrong pointer, one before the start of the partition: the disk
\* has it only if the partition begins a block or more into the disk.
LEMMA WildBlock ==
  ASSUME NEW d, Consistent(d), NEW lba, lba = BlockLba(d, SIZE_LIMIT - 1)
  PROVE  /\ lba \in Nat /\ lba * LBA_SIZE \in Nat /\ lba * LBA_SIZE < SIZE_LIMIT
         /\ d.kind = "ata" => SectorOf(d, lba) \in Nat
         /\ d.kind = "ata" /\ d.start < block_lba_size(d) =>
              Copied(d, lba, block_lba_size(d)) = {0}
<1> DEFINE bls == block_lba_size(d)
           bs == d.block_size
           S == SIZE_LIMIT
           L == LBA_LIMIT
           k == S \div (L * LBA_SIZE)
<1>1. /\ Sizes(d) /\ d.start \in Nat /\ d.sectors \in Nat /\ d.sectors < L
      /\ LBA_SIZE \in Nat \ {0} /\ L \in Nat \ {0} /\ S \in Nat \ {0}
      /\ bls \in Nat /\ bls >= 2 /\ bls < L /\ bs = bls * LBA_SIZE /\ bs \in Nat \ {0}
  BY SizeFacts, BlockFits DEF Consistent
<1>2. /\ L * LBA_SIZE \in Nat \ {0} /\ k \in Nat /\ S = k * (L * LBA_SIZE)
  <2>1. 0 * LBA_SIZE + LBA_SIZE <= L * LBA_SIZE /\ L * LBA_SIZE \in Nat
    BY <1>1, Growing, Product
  <2>2. S % (L * LBA_SIZE) = 0
    BY SizesAssumption
  <2> DEFINE m == L * LBA_SIZE
  <2>3. m \in Nat \ {0} /\ S % m = 0 /\ S \in Nat
    BY <1>1, <2>1, <2>2
  <2> HIDE DEF m, S
  <2>4. S \div m \in Nat /\ S = (S \div m) * m
    BY <2>3, Exact
  <2> QED
    BY <2>3, <2>4 DEF m
<1> HIDE DEF bls, bs, S, L, k
<1>3. k >= 1 /\ k - 1 \in Nat
  <2>1. k = 0 => k * (L * LBA_SIZE) = 0
    BY <1>2
  <2> QED
    BY <1>1, <1>2, <2>1
<1>4. k * L \in Nat /\ (k - 1) * L \in Nat /\ k * L = (k - 1) * L + L /\ S = (k * L) * LBA_SIZE
  BY <1>1, <1>2, <1>3, Product, Distribute, Associate
<1>5. bs <= S /\ bs >= 1
  <2>1. bls <= k * L
    BY <1>1, <1>4
  <2> QED
    BY <1>1, <1>4, <2>1, Growing
<1>6. ((S - 1) * bs) % S = S - bs
  <2>1. (S - 1) * bs = (bs - 1) * S + (S - bs)
    <3>1. (S - 1) * bs = S * bs - bs /\ (bs - 1) * S = bs * S - S /\ S * bs = bs * S
      BY <1>1, Z3
    <3> QED
      BY <3>1, <1>1, Product
  <2>2. bs - 1 \in Nat /\ S - bs \in 0 .. S - 1
    BY <1>1, <1>5
  <2> DEFINE q == bs - 1
             e == S - bs
  <2>3. q \in Nat /\ e \in 0 .. S - 1 /\ (S - 1) * bs = q * S + e
    BY <2>1, <2>2
  <2> HIDE DEF q, e
  <2>4. (q * S + e) % S = e
    BY <2>3, <1>1, Divided
  <2> QED
    BY <2>3, <2>4 DEF e
<1>7. S - bs = (k * L - bls) * LBA_SIZE + 0 /\ k * L - bls \in Nat
  <2>1. k * L - bls \in Nat /\ k * L = (k * L - bls) + bls
    BY <1>1, <1>4
  <2>2. (k * L) * LBA_SIZE = (k * L - bls) * LBA_SIZE + bls * LBA_SIZE
    BY <2>1, <1>1, Distribute
  <2>3. (k * L - bls) * LBA_SIZE \in Nat
    BY <2>1, <1>1, Product
  <2> QED
    BY <2>1, <2>2, <2>3, <1>1, <1>4
<1>8. lba = k * L - bls
  <2>1. lba = (S - bs) \div LBA_SIZE
    BY <1>6 DEF BlockLba, S, bs
  <2>2. ((k * L - bls) * LBA_SIZE + 0) \div LBA_SIZE = k * L - bls
    <3> DEFINE q == k * L - bls
    <3>1. q \in Nat /\ 0 \in 0 .. LBA_SIZE - 1
      BY <1>1, <1>7
    <3> HIDE DEF q
    <3>2. (q * LBA_SIZE + 0) \div LBA_SIZE = q
      BY <3>1, <1>1, Divided
    <3> QED
      BY <3>2 DEF q
  <2> QED
    BY <2>1, <2>2, <1>7
<1>9. lba \in Nat /\ lba * LBA_SIZE = S - bs /\ lba * LBA_SIZE \in Nat /\ lba * LBA_SIZE < S
  BY <1>1, <1>5, <1>7, <1>8, Product
<1>10. (lba + d.start) % L \in Nat
  <2> DEFINE x == lba + d.start
  <2>1. x \in Nat
    BY <1>1, <1>9
  <2> HIDE DEF x
  <2>2. x % L \in 0 .. L - 1
    BY <1>1, <2>1, DivMod
  <2> QED
    BY <1>1, <2>2 DEF x
<1>11. ASSUME d.kind = "ata", d.start < bls PROVE Copied(d, lba, bls) = {0}
  <2>1. lba + d.start = (k - 1) * L + (L - bls + d.start) /\ L - bls + d.start \in 0 .. L - 1
    BY <1>1, <1>4, <1>8, <1>11
  <2>2. (lba + d.start) % L = L - bls + d.start
    BY <2>1, <1>1, <1>3, Divided
  <2>3. SectorOf(d, lba) + bls > d.sectors
    BY <2>2, <1>1, <1>11 DEF SectorOf, L
  <2>4. ~(SectorOf(d, lba) + bls <= d.sectors)
    BY <2>2, <2>3, <1>1, <1>11 DEF SectorOf, L
  <2> QED
    BY <2>4, <1>11 DEF Copied
<1> QED
  BY <1>9, <1>10, <1>11 DEF SectorOf, L, S, bls

\* The sectors of a block that is on the disk.
LEMMA BlockOnDisk ==
  ASSUME NEW d, Sizes(d), NEW b, OnDisk(d, b)
  PROVE  /\ b \in Nat /\ b * block_lba_size(d) \in Nat
         /\ BlockLba(d, b) = b * block_lba_size(d)
         /\ d.start + b * block_lba_size(d) + block_lba_size(d) <= d.sectors
<1> DEFINE bls == block_lba_size(d)
<1>1. b \in Nat /\ d.start + (b + 1) * bls <= d.sectors
  BY DEF OnDisk, block_lba_size
<1>2. /\ d.start \in Nat /\ d.sectors \in Nat /\ LBA_SIZE \in Nat \ {0}
      /\ bls \in Nat /\ bls >= 2 /\ d.block_size = bls * LBA_SIZE /\ SIZE_LIMIT \in Nat \ {0}
  BY SizeFacts
<1> HIDE DEF bls
<1>3. b * bls \in Nat /\ (b + 1) * bls = b * bls + bls
  <2>1. (b + 1) * bls = b * bls + 1 * bls /\ 1 * bls = bls
    BY <1>1, <1>2, Distribute
  <2> QED
    BY <1>1, <1>2, <2>1, Product
<1>4. d.start + b * bls + bls <= d.sectors
  BY <1>1, <1>2, <1>3
<1> DEFINE lba == b * bls
<1>5. lba \in Nat /\ d.start + lba + bls <= d.sectors /\ bls > 0
  BY <1>2, <1>3, <1>4
<1> HIDE DEF lba
<1>6. lba * LBA_SIZE \in Nat /\ lba * LBA_SIZE < SIZE_LIMIT
  BY <1>2, <1>5, TransferWithin
<1>7. b * d.block_size = lba * LBA_SIZE + 0
  BY <1>1, <1>2, <1>6, Associate DEF lba
<1>8. (b * d.block_size) % SIZE_LIMIT = lba * LBA_SIZE + 0
  <2> DEFINE x == lba * LBA_SIZE
  <2>1. x \in 0 .. SIZE_LIMIT - 1 /\ b * d.block_size = x + 0
    BY <1>2, <1>6, <1>7
  <2> HIDE DEF x
  <2>2. x % SIZE_LIMIT = x
    BY <2>1, <1>2
  <2> QED
    BY <2>1, <2>2, <1>2 DEF x
<1>9. (lba * LBA_SIZE + 0) \div LBA_SIZE = lba
  <2>1. 0 \in 0 .. LBA_SIZE - 1
    BY <1>2
  <2> QED
    BY <1>2, <1>5, <2>1, Divided
<1>10. BlockLba(d, b) = lba
  BY <1>8, <1>9 DEF BlockLba
<1> QED
  BY <1>1, <1>5, <1>10 DEF lba, bls

\* The bytes of a block, as its sectors are read.
LEMMA BlockBytes ==
  ASSUME NEW d, Sizes(d), NEW b, OnDisk(d, b)
  PROVE  LET s == SectorBytes(d, b * block_lba_size(d), block_lba_size(d))
         IN  /\ s \in Seq(Nat) /\ Len(s) = d.block_size
             /\ \A k \in 0 .. d.block_size - 1 : s[k + 1] = BlockAddr(d, b) + k
<1> DEFINE bls == block_lba_size(d)
           lba == b * bls
           s == SectorBytes(d, lba, bls)
<1>1. b \in Nat /\ lba \in Nat /\ d.start + lba + bls <= d.sectors
  BY BlockOnDisk
<1>2. /\ d.start \in Nat /\ LBA_SIZE \in Nat \ {0} /\ bls \in Nat /\ bls >= 2
      /\ d.block_size = bls * LBA_SIZE /\ d.block_size \in Nat
  BY SizeFacts
<1>3. SectorOf(d, lba) = d.start + lba
  <2> HIDE DEF lba, bls
  <2> QED
    BY <1>1, <1>2, TransferWithin
<1>4. s = [i \in 1 .. d.block_size |-> (d.start + lba) * LBA_SIZE + i - 1]
  BY <1>2, <1>3 DEF SectorBytes
<1>5. (d.start + lba) * LBA_SIZE \in Nat /\ (d.start + lba) * LBA_SIZE = BlockAddr(d, b)
  <2>1. (d.start + lba) * LBA_SIZE = d.start * LBA_SIZE + lba * LBA_SIZE
    BY <1>1, <1>2, Distribute
  <2>2. lba * LBA_SIZE = b * d.block_size
    BY <1>1, <1>2, Associate
  <2>3. d.start * LBA_SIZE \in Nat /\ lba * LBA_SIZE \in Nat
    BY <1>1, <1>2, Product
  <2> QED
    BY <2>1, <2>2, <2>3 DEF BlockAddr, Base
<1> HIDE DEF s, lba, bls
<1>6. s \in Seq(Nat) /\ Len(s) = d.block_size
  <2>1. s \in [1 .. d.block_size -> Nat]
    BY <1>2, <1>4, <1>5
  <2> QED
    BY <2>1, <1>2
<1>7. ASSUME NEW k \in 0 .. d.block_size - 1 PROVE s[k + 1] = BlockAddr(d, b) + k
  <2>1. k + 1 \in 1 .. d.block_size /\ k \in Nat
    BY <1>2
  <2> QED
    BY <2>1, <1>4, <1>5
<1> QED
  BY <1>6, <1>7 DEF s, lba, bls

\* Groups, and places in the table of a group and in a sector.
LEMMA InodeNumbers ==
  ASSUME NEW d, Consistent(d), NEW n \in Existing(d)
  PROVE  LET g == (n - 1) \div d.inodes_per_group
             j == (n - 1) % d.inodes_per_group
         IN  /\ n \in Nat \ {0} /\ g \in Nat /\ g + 1 \in DOMAIN d.tables
             /\ j \in Nat /\ j < d.inodes_per_group /\ n - 1 = g * d.inodes_per_group + j
             /\ d.tables[g + 1] \in Nat
<1> DEFINE ipg == d.inodes_per_group
           g == (n - 1) \div ipg
           j == (n - 1) % ipg
           x == n - 1
<1>1. /\ n \in Nat \ {0} /\ n <= d.total_inodes /\ d.total_inodes \in Nat
      /\ ipg \in Nat \ {0} /\ d.tables \in Seq(Nat)
      /\ d.total_inodes <= Len(d.tables) * ipg
  BY DEF Existing, Consistent, Sizes
<1>2. x \in Nat
  BY <1>1
<1>3. x = (x \div ipg) * ipg + (x % ipg) /\ x \div ipg \in Nat /\ x % ipg \in 0 .. ipg - 1
  <2> HIDE DEF x
  <2> QED
    BY <1>1, <1>2, DivMod
<1>4. x = g * ipg + j /\ g \in Nat /\ j \in 0 .. ipg - 1
  BY <1>3
<1> HIDE DEF g, j, ipg
<1>5. g < Len(d.tables)
  <2>1. Len(d.tables) \in Nat /\ g * ipg \in Nat /\ Len(d.tables) * ipg \in Nat
    BY <1>1, <1>4, Product
  <2>2. g * ipg < Len(d.tables) * ipg
    BY <2>1, <1>1, <1>4
  <2> QED
    BY <2>1, <2>2, <1>1, <1>4, Growing
<1>6. g + 1 \in 1 .. Len(d.tables)
  BY <1>1, <1>4, <1>5
<1>7. g + 1 \in DOMAIN d.tables /\ d.tables[g + 1] \in Nat
  BY <1>1, <1>6
<1> QED
  BY <1>1, <1>4, <1>7 DEF g, j, ipg

\* The descriptor table is where the format has it, and read as a whole.
LEMMA DescriptorTable ==
  ASSUME NEW d, Consistent(d), Len(d.tables) > 0
  PROVE  /\ gdt_lba(d) \in Nat /\ gdt_lba_size(d) \in Nat /\ gdt_lba_size(d) > 0
         /\ d.start + gdt_lba(d) + gdt_lba_size(d) <= d.sectors
         /\ Len(d.tables) * GD_BYTES <= gdt_lba_size(d) * LBA_SIZE
         /\ \A g \in Nat : GdAddr(d, g) = (d.start + gdt_lba(d)) * LBA_SIZE + g * GD_BYTES
<1> DEFINE bls == block_lba_size(d)
           first == (2 * LBA_SIZE) \div d.block_size
           x == Len(d.tables) * GD_BYTES
<1>1. /\ Sizes(d) /\ d.tables \in Seq(Nat)
      /\ d.start + (first + 1) * bls + CeilDiv(x, LBA_SIZE) <= d.sectors
      /\ Len(d.tables) = gd_count(d)
  BY DEF Consistent, block_lba_size, gd_count
<1>2. /\ d.start \in Nat /\ d.sectors \in Nat /\ LBA_SIZE \in Nat \ {0}
      /\ bls \in Nat /\ bls >= 2 /\ d.block_size = bls * LBA_SIZE
      /\ d.block_size \in Nat \ {0} /\ d.block_size >= 2 * LBA_SIZE
  BY <1>1, SizeFacts
<1>3. first = IF d.block_size = 2 * LBA_SIZE THEN 1 ELSE 0
  <2>1. CASE d.block_size = 2 * LBA_SIZE
    <3>1. 0 \in 0 .. d.block_size - 1 /\ 2 * LBA_SIZE = 1 * d.block_size + 0
      BY <1>2, <2>1
    <3>2. (1 * d.block_size + 0) \div d.block_size = 1
      BY <3>1, <1>2, Divided
    <3> QED
      BY <3>1, <3>2, <2>1
  <2>2. CASE d.block_size # 2 * LBA_SIZE
    <3>1. 2 * LBA_SIZE \in 0 .. d.block_size - 1 /\ 2 * LBA_SIZE = 0 * d.block_size + 2 * LBA_SIZE
      BY <1>2, <2>2
    <3> DEFINE y == 2 * LBA_SIZE
    <3> HIDE DEF y
    <3>2. (0 * d.block_size + y) \div d.block_size = 0
      BY <3>1, <1>2, Divided DEF y
    <3> QED
      BY <3>1, <3>2, <2>2 DEF y
  <2> QED
    BY <2>1, <2>2
<1>4. gdt_lba(d) = (first + 1) * bls
  BY <1>3 DEF gdt_lba
<1>5. gdt_lba_size(d) = CeilDiv(x, LBA_SIZE)
  BY <1>1 DEF gdt_lba_size
<1>6. GD_BYTES \in Nat \ {0} /\ Len(d.tables) \in Nat /\ x \in Nat /\ x > 0
  <2>1. GD_BYTES \in Nat \ {0} /\ Len(d.tables) \in Nat
    BY <1>1, SizesAssumption
  <2>2. 0 * GD_BYTES + GD_BYTES <= Len(d.tables) * GD_BYTES /\ x \in Nat
    BY <2>1, Growing, Product
  <2> QED
    BY <2>1, <2>2
<1> HIDE DEF x, first, bls
<1>7. CeilDiv(x, LBA_SIZE) \in Nat /\ CeilDiv(x, LBA_SIZE) > 0 /\ x <= CeilDiv(x, LBA_SIZE) * LBA_SIZE
  <2> DEFINE q == x \div LBA_SIZE
             r == x % LBA_SIZE
  <2>1. x = q * LBA_SIZE + r /\ q \in Nat /\ r \in 0 .. LBA_SIZE - 1 /\ q * LBA_SIZE \in Nat
    BY <1>2, <1>6, DivMod, Product
  <2>2. CeilDiv(x, LBA_SIZE) = q + (IF r # 0 THEN 1 ELSE 0)
    BY DEF CeilDiv
  <2> HIDE DEF q, r
  <2>3. (q + 1) * LBA_SIZE = q * LBA_SIZE + LBA_SIZE
    BY <2>1, <1>2, Distribute
  <2>4. CASE r = 0
    <3>1. q = 0 => q * LBA_SIZE = 0
      BY <1>2
    <3> QED
      BY <2>1, <2>2, <2>4, <3>1, <1>6
  <2>5. CASE r # 0
    BY <2>1, <2>2, <2>3, <2>5, <1>2
  <2> QED
    BY <2>4, <2>5
<1>8. first \in Nat /\ (first + 1) * bls \in Nat
  BY <1>2, <1>3, Product
<1>9. ASSUME NEW g \in Nat
      PROVE GdAddr(d, g) = (d.start + gdt_lba(d)) * LBA_SIZE + g * GD_BYTES
  <2>1. GdAddr(d, g) = d.start * LBA_SIZE + (first + 1) * d.block_size + g * GD_BYTES
    BY DEF GdAddr, BlockAddr, Base, first
  <2>2. (first + 1) * d.block_size = ((first + 1) * bls) * LBA_SIZE
    BY <1>2, <1>8, Associate
  <2>3. (d.start + (first + 1) * bls) * LBA_SIZE
          = d.start * LBA_SIZE + ((first + 1) * bls) * LBA_SIZE
    BY <1>2, <1>8, Distribute
  <2> QED
    BY <2>1, <2>2, <2>3, <1>4
<1> QED
  BY <1>1, <1>4, <1>5, <1>7, <1>8, <1>9 DEF x

\* The descriptors in memory lead to the inode tables of the groups.
LEMMA GroupTable ==
  ASSUME NEW d, Consistent(d), NEW g \in Nat, g + 1 \in DOMAIN d.tables
  PROVE  LET gd == SectorBytes(d, gdt_lba(d), gdt_lba_size(d))
         IN  TableAt(d, gd[g * GD_BYTES + 1]) = d.tables[g + 1]
<1> DEFINE lba == gdt_lba(d)
           count == gdt_lba_size(d)
           gd == SectorBytes(d, lba, count)
           base == (d.start + lba) * LBA_SIZE
<1>1. /\ Sizes(d) /\ d.tables \in Seq(Nat) /\ GD_BYTES \in Nat \ {0}
      /\ DOMAIN d.tables = 1 .. Len(d.tables) /\ Len(d.tables) \in Nat
      /\ g < Len(d.tables) /\ Len(d.tables) > 0
  BY SizesAssumption DEF Consistent
<1>2. /\ lba \in Nat /\ count \in Nat /\ count > 0
      /\ d.start + lba + count <= d.sectors
      /\ Len(d.tables) * GD_BYTES <= count * LBA_SIZE
      /\ \A h \in Nat : GdAddr(d, h) = base + h * GD_BYTES
  BY <1>1, DescriptorTable
<1>3. d.start \in Nat /\ LBA_SIZE \in Nat \ {0}
  BY <1>1, SizeFacts
<1> HIDE DEF lba, count
<1>4. SectorOf(d, lba) = d.start + lba
  BY <1>1, <1>2, TransferWithin
<1>5. gd = [i \in 1 .. count * LBA_SIZE |-> base + i - 1]
  BY <1>4 DEF SectorBytes
<1>6. g * GD_BYTES \in Nat /\ g * GD_BYTES + 1 \in 1 .. count * LBA_SIZE /\ base \in Nat
  <2> DEFINE y == g * GD_BYTES
             z == Len(d.tables) * GD_BYTES
             w == count * LBA_SIZE
             e == d.start + lba
  <2>1. y \in Nat /\ z \in Nat
    BY <1>1, Product
  <2>2. w \in Nat /\ e \in Nat
    BY <1>2, <1>3, Product
  <2>3. y + GD_BYTES <= z /\ z <= w
    BY <1>1, <1>2, Growing
  <2>4. base \in Nat
    <3> HIDE DEF e
    <3>1. e * LBA_SIZE \in Nat
      BY <1>3, <2>2, Product
    <3> QED
      BY <3>1 DEF e
  <2> HIDE DEF y, z, w, base
  <2>5. y + 1 \in 1 .. w
    BY <2>1, <2>2, <2>3, <1>1
  <2> QED
    BY <2>1, <2>4, <2>5 DEF y, w
<1> HIDE DEF base, gd
<1>7. gd[g * GD_BYTES + 1] = base + g * GD_BYTES
  <2> DEFINE y == g * GD_BYTES
  <2>1. y \in Nat /\ y + 1 \in 1 .. count * LBA_SIZE
    BY <1>6
  <2> HIDE DEF y
  <2>2. gd[y + 1] = base + (y + 1) - 1
    BY <2>1, <1>5
  <2> QED
    BY <2>1, <2>2, <1>6 DEF y
<1>8. GdAddr(d, (g + 1) - 1) = base + g * GD_BYTES
  <2>1. (g + 1) - 1 = g
    OBVIOUS
  <2> QED
    BY <2>1, <1>2
<1>9. ASSUME NEW h \in DOMAIN d.tables, GdAddr(d, h - 1) = base + g * GD_BYTES
      PROVE  h = g + 1
  <2>1. h - 1 \in Nat
    BY <1>1
  <2>2. GdAddr(d, h - 1) = base + (h - 1) * GD_BYTES
    BY <2>1, <1>2
  <2> DEFINE k == h - 1
  <2>0. k \in Nat /\ base + k * GD_BYTES = base + g * GD_BYTES
    BY <2>1, <2>2, <1>9
  <2> HIDE DEF k
  <2>3. k * GD_BYTES = g * GD_BYTES /\ k * GD_BYTES \in Nat /\ k \in Nat
    <3>1. k * GD_BYTES \in Nat
      BY <2>0, <1>1, Product
    <3> QED
      BY <3>1, <2>0, <1>6
  <2>4. k <= g /\ g <= k
    BY <2>3, <1>1, <1>6, Growing
  <2> QED
    BY <2>1, <2>3, <2>4, <1>1 DEF k
<1>10. TableAt(d, base + g * GD_BYTES) = d.tables[g + 1]
  <2> DEFINE a == base + g * GD_BYTES
             c == CHOOSE h \in DOMAIN d.tables : GdAddr(d, h - 1) = a
  <2>1. c \in DOMAIN d.tables /\ GdAddr(d, c - 1) = a
    BY <1>8
  <2>2. c = g + 1
    BY <2>1, <1>9
  <2> QED
    BY <2>2, <1>8 DEF TableAt
<1> QED
  BY <1>7, <1>10 DEF gd, lba, count

\* Inodes fill sectors, and sectors fill the table of a group.
LEMMA InodeSizes ==
  ASSUME NEW d, Consistent(d)
  PROVE  LET ips == inodes_per_sector(d)
             m == d.inodes_per_group \div ips
         IN  /\ ips \in Nat \ {0} /\ m \in Nat /\ d.inode_size \in Nat \ {0}
             /\ d.inode_size = INODE_BYTES /\ LBA_SIZE = ips * d.inode_size
             /\ d.inodes_per_group = m * ips /\ d.inodes_per_group \in Nat \ {0}
<1> DEFINE ips == inodes_per_sector(d)
<1>1. /\ LBA_SIZE \in Nat \ {0} /\ d.inode_size \in Nat \ {0} /\ d.inode_size = INODE_BYTES
      /\ LBA_SIZE % d.inode_size = 0 /\ d.inodes_per_group \in Nat \ {0}
      /\ d.inodes_per_group % ips = 0
  BY SizesAssumption DEF Consistent, Sizes, inodes_per_sector
<1>2. ips \in Nat /\ LBA_SIZE = ips * d.inode_size
  BY <1>1, Exact DEF inodes_per_sector
<1>3. ips # 0
  BY <1>1, <1>2
<1> HIDE DEF ips
<1>4. d.inodes_per_group \div ips \in Nat
      /\ d.inodes_per_group = (d.inodes_per_group \div ips) * ips
  BY <1>1, <1>2, <1>3, Exact
<1> QED
  BY <1>1, <1>2, <1>3, <1>4 DEF ips

\* fetch_inode() reads a sector that is on the disk, and takes the inode from
\* where the format has it.
LEMMA InodePlace ==
  ASSUME NEW d, Consistent(d), NEW n \in Existing(d)
  PROVE  LET gd == SectorBytes(d, gdt_lba(d), gdt_lba_size(d))
             lba == ItableLba(d, gd, n)
         IN  /\ lba \in Nat /\ d.start + lba + 1 <= d.sectors
             /\ SectorBytes(d, lba, 1) \in Seq(Nat)
             /\ SectorBytes(d, lba, 1)[BufferIndex(d, n) + 1] = InodeAddr(d, n)
             /\ InodeAddr(d, n) \in Nat
<1> DEFINE gd == SectorBytes(d, gdt_lba(d), gdt_lba_size(d))
           lba == ItableLba(d, gd, n)
           ips == inodes_per_sector(d)
           ipg == d.inodes_per_group
           is == d.inode_size
           m == ipg \div ips
           bls == block_lba_size(d)
           g == (n - 1) \div ipg
           j == (n - 1) % ipg
           q == j \div ips
           e == j % ips
           T == d.tables[g + 1]
<1>1. /\ Sizes(d) /\ d.start \in Nat /\ d.sectors \in Nat /\ LBA_SIZE \in Nat \ {0}
      /\ bls \in Nat /\ d.block_size = bls * LBA_SIZE
  BY SizeFacts DEF Consistent
<1>2. /\ ips \in Nat \ {0} /\ m \in Nat /\ is \in Nat \ {0} /\ is = INODE_BYTES
      /\ LBA_SIZE = ips * is /\ ipg = m * ips /\ ipg \in Nat \ {0}
  BY InodeSizes
<1>3. /\ n \in Nat \ {0} /\ g \in Nat /\ g + 1 \in DOMAIN d.tables
      /\ j \in Nat /\ j < ipg /\ n - 1 = g * ipg + j /\ T \in Nat
  BY InodeNumbers
<1>4. TableAt(d, gd[g * GD_BYTES + 1]) = T
  BY <1>3, GroupTable
<1>5. lba = q + (T * d.block_size) \div LBA_SIZE
  BY <1>4 DEF ItableLba
<1>6. d.start * LBA_SIZE + T * d.block_size + ipg * is <= d.sectors * LBA_SIZE
  <2>1. d.start * LBA_SIZE + (T * d.block_size + ipg * is) <= d.sectors * LBA_SIZE
    BY <1>3 DEF Consistent, TableEnd
  <2>2. d.start * LBA_SIZE \in Nat /\ T * d.block_size \in Nat /\ ipg * is \in Nat
    <3>1. d.block_size \in Nat
      BY <1>1, SizeFacts
    <3> HIDE DEF T
    <3> QED
      BY <1>1, <1>2, <1>3, <3>1, Product
  <2> QED
    BY <2>1, <2>2
<1>7. BufferIndex(d, n) = ((n - 1) % ips) * is
  BY <1>2 DEF BufferIndex
<1>8. InodeAddr(d, n) = d.start * LBA_SIZE + T * d.block_size + j * is
  BY DEF InodeAddr, BlockAddr, Base
<1> HIDE DEF gd, lba, ips, ipg, is, m, bls, g, j, T
<1>9. /\ j = q * ips + e /\ q \in Nat /\ e \in 0 .. ips - 1
  BY <1>2, <1>3, DivMod
<1> HIDE DEF q, e
<1>10. q < m
  <2>1. q * ips \in Nat /\ m * ips \in Nat /\ q * ips < m * ips
    BY <1>2, <1>3, <1>9, Product
  <2> QED
    BY <2>1, <1>2, <1>9, Growing
<1>11. T * bls \in Nat /\ T * d.block_size = (T * bls) * LBA_SIZE
       /\ (T * d.block_size) \div LBA_SIZE = T * bls
  <2>1. T * bls \in Nat /\ T * d.block_size = (T * bls) * LBA_SIZE
    BY <1>1, <1>3, Product, Associate
  <2> DEFINE y == T * bls
  <2> HIDE DEF y
  <2>2. y \in Nat /\ 0 \in 0 .. LBA_SIZE - 1
    BY <2>1, <1>1 DEF y
  <2>3. (y * LBA_SIZE + 0) \div LBA_SIZE = y
    BY <2>2, <1>1, Divided
  <2>4. y * LBA_SIZE + 0 = y * LBA_SIZE
    BY <2>2, <1>1, Product
  <2> QED
    BY <2>1, <2>3, <2>4 DEF y
<1>12. lba = q + T * bls /\ lba \in Nat
  BY <1>5, <1>9, <1>11
<1>13. ipg * is = m * LBA_SIZE
  BY <1>2, Associate
<1>14. d.start + lba + 1 <= d.sectors
  <2> DEFINE y == T * bls
             a == d.start + y + m
  <2>1. y \in Nat /\ a \in Nat
    BY <1>1, <1>2, <1>11
  <2>2. a * LBA_SIZE = d.start * LBA_SIZE + y * LBA_SIZE + m * LBA_SIZE
    <3> HIDE DEF y
    <3>1. d.start + y \in Int
      BY <1>1, <2>1
    <3>2. a * LBA_SIZE = (d.start + y) * LBA_SIZE + m * LBA_SIZE
      BY <1>1, <1>2, <3>1, Distribute
    <3>3. (d.start + y) * LBA_SIZE = d.start * LBA_SIZE + y * LBA_SIZE
      BY <1>1, <2>1, Distribute
    <3> QED
      BY <3>2, <3>3
  <2>3. a * LBA_SIZE <= d.sectors * LBA_SIZE
    BY <2>2, <1>6, <1>11, <1>13
  <2> HIDE DEF a
  <2>4. a <= d.sectors
    BY <2>1, <2>3, <1>1, Growing
  <2> HIDE DEF y
  <2>5. d.start + q + y + 1 <= d.sectors
    BY <2>1, <2>4, <1>1, <1>2, <1>9, <1>10 DEF a
  <2> QED
    BY <2>1, <2>5, <1>1, <1>9, <1>12 DEF y
<1>15. (n - 1) % ips = e
  <2>1. n - 1 = (g * m + q) * ips + e /\ g * m + q \in Nat
    <3>1. g * ipg = (g * m) * ips /\ g * m \in Nat
      BY <1>2, <1>3, Associate, Product
    <3> DEFINE y == g * m
    <3> HIDE DEF y
    <3>2. (y + q) * ips = y * ips + q * ips
      BY <3>1, <1>2, <1>9, Distribute DEF y
    <3>3. y \in Nat /\ y * ips \in Nat /\ q * ips \in Nat
      BY <3>1, <1>2, <1>9, Product DEF y
    <3>4. n - 1 = y * ips + (q * ips + e)
      BY <3>1, <1>3, <1>9 DEF y
    <3>5. n - 1 = (y + q) * ips + e
      BY <3>2, <3>3, <3>4, <1>9
    <3> QED
      BY <3>5, <3>3, <1>9 DEF y
  <2> DEFINE y == g * m + q
  <2> HIDE DEF y
  <2>2. (y * ips + e) % ips = e
    BY <2>1, <1>2, <1>9, Divided DEF y
  <2> QED
    BY <2>1, <2>2 DEF y
<1>16. SectorOf(d, lba) = d.start + lba
  <2>1. 1 \in Nat /\ 1 > 0
    OBVIOUS
  <2> QED
    BY <1>1, <1>12, <1>14, <2>1, TransferWithin
<1> DEFINE base == (d.start + lba) * LBA_SIZE
<1>17. base \in Nat
  <2> DEFINE y == d.start + lba
  <2>1. y \in Nat
    BY <1>1, <1>12
  <2> HIDE DEF y
  <2>2. y * LBA_SIZE \in Nat
    BY <2>1, <1>1, Product
  <2> QED
    BY <2>2 DEF y
<1>18. SectorBytes(d, lba, 1) = [i \in 1 .. LBA_SIZE |-> base + i - 1]
  BY <1>1, <1>16 DEF SectorBytes
<1>19. e * is \in Nat /\ e * is + 1 \in 1 .. LBA_SIZE
  <2>1. e * is + is <= ips * is /\ e * is \in Nat
    BY <1>2, <1>9, Growing, Product
  <2> DEFINE y == e * is
  <2> HIDE DEF y
  <2>2. y \in Nat /\ y + is <= LBA_SIZE
    BY <2>1, <1>2 DEF y
  <2> QED
    BY <2>2, <1>1, <1>2 DEF y
<1>20. base = d.start * LBA_SIZE + T * d.block_size + q * LBA_SIZE
  <2> DEFINE y == T * bls
  <2> HIDE DEF y
  <2>0. y \in Nat /\ lba = q + y /\ T * d.block_size = y * LBA_SIZE
    BY <1>11, <1>12 DEF y
  <2>1. d.start + lba = (d.start + y) + q /\ d.start + y \in Int
    BY <2>0, <1>1, <1>9
  <2>2. base = (d.start + y) * LBA_SIZE + q * LBA_SIZE
    BY <2>1, <1>1, <1>9, Distribute
  <2>3. (d.start + y) * LBA_SIZE = d.start * LBA_SIZE + y * LBA_SIZE
    BY <2>0, <1>1, Distribute
  <2> QED
    BY <2>0, <2>2, <2>3
<1>21. j * is = q * LBA_SIZE + e * is
  <2>1. (q * ips + e) * is = (q * ips) * is + e * is
    BY <1>2, <1>9, Distribute
  <2>2. (q * ips) * is = q * LBA_SIZE
    BY <1>2, <1>9, Associate
  <2> QED
    BY <2>1, <2>2, <1>9
<1> HIDE DEF base
<1>22. SectorBytes(d, lba, 1)[e * is + 1] = base + e * is
  <2> DEFINE y == e * is
  <2>1. y \in Nat /\ y + 1 \in 1 .. LBA_SIZE
    BY <1>19
  <2> HIDE DEF y
  <2>2. SectorBytes(d, lba, 1)[y + 1] = base + (y + 1) - 1
    BY <2>1, <1>18
  <2> QED
    BY <2>1, <2>2, <1>17 DEF y
<1>23. InodeAddr(d, n) = base + e * is
  <2>1. d.start * LBA_SIZE \in Nat /\ T * d.block_size \in Nat /\ q * LBA_SIZE \in Nat
    BY <1>1, <1>3, <1>9, <1>11, Product
  <2> DEFINE x1 == d.start * LBA_SIZE
             x2 == T * d.block_size
             x3 == q * LBA_SIZE
             x4 == e * is
  <2>2. x1 \in Nat /\ x2 \in Nat /\ x3 \in Nat /\ x4 \in Nat
    BY <2>1, <1>19
  <2>3. InodeAddr(d, n) = x1 + x2 + (x3 + x4) /\ base = x1 + x2 + x3
    BY <1>8, <1>20, <1>21
  <2> HIDE DEF x1, x2, x3, x4
  <2>4. InodeAddr(d, n) = base + x4
    BY <2>2, <2>3
  <2> QED
    BY <2>4 DEF x4
<1>24. SectorBytes(d, lba, 1) \in Seq(Nat)
  <2>1. SectorBytes(d, lba, 1) \in [1 .. LBA_SIZE -> Nat]
    BY <1>1, <1>17, <1>18
  <2> QED
    BY <2>1, <1>1
<1>25. BufferIndex(d, n) + 1 = e * is + 1
  BY <1>7, <1>15
<1> QED
  BY <1>12, <1>14, <1>17, <1>19, <1>22, <1>23, <1>24, <1>25 DEF lba, gd

\* An inode lies inside the table of its group.
LEMMA InodeInTable ==
  ASSUME NEW d, Consistent(d), NEW n \in Existing(d)
  PROVE  LET g == (n - 1) \div d.inodes_per_group + 1
             T == d.tables[g] * d.block_size
         IN  /\ g \in DOMAIN d.tables /\ T \in Nat /\ TableEnd(d, g) \in Nat
             /\ InodeAddr(d, n) \in Nat
             /\ InodeAddr(d, n) = d.start * LBA_SIZE + T
                  + ((n - 1) % d.inodes_per_group) * d.inode_size
             /\ d.start * LBA_SIZE + T <= InodeAddr(d, n)
             /\ InodeAddr(d, n) < d.start * LBA_SIZE + TableEnd(d, g)
<1> DEFINE g == (n - 1) \div d.inodes_per_group + 1
           j == (n - 1) % d.inodes_per_group
           is == d.inode_size
           T == d.tables[g] * d.block_size
           x == d.start * LBA_SIZE
           y == j * is
           z == d.inodes_per_group * is
<1>1. /\ g \in DOMAIN d.tables /\ d.tables[g] \in Nat /\ j \in Nat /\ j < d.inodes_per_group
  BY InodeNumbers
<1>2. d.start \in Nat /\ LBA_SIZE \in Nat /\ d.block_size \in Nat
  BY SizeFacts DEF Consistent
<1>3. is \in Nat \ {0} /\ d.inodes_per_group \in Nat
  BY InodeSizes
<1>4. InodeAddr(d, n) = x + T + y
  BY DEF InodeAddr, BlockAddr, Base
<1>5. TableEnd(d, g) = T + z
  BY DEF TableEnd
<1> HIDE DEF g, j, is
<1>6. x \in Nat /\ T \in Nat /\ y \in Nat /\ z \in Nat
  BY <1>1, <1>2, <1>3, Product
<1>7. y + is <= z
  BY <1>1, <1>3, Growing
<1> HIDE DEF x, T, y, z
<1>8. x + T <= InodeAddr(d, n) /\ InodeAddr(d, n) < x + TableEnd(d, g)
      /\ InodeAddr(d, n) \in Nat /\ TableEnd(d, g) \in Nat
  BY <1>3, <1>4, <1>5, <1>6, <1>7
<1> QED
  BY <1>1, <1>4, <1>6, <1>8 DEF x, T, y, g, j, is

\* No two inodes are at the same place.
LEMMA InodesApart ==
  ASSUME NEW d, Consistent(d), NEW n \in Existing(d), NEW k \in Existing(d),
         InodeAddr(d, n) = InodeAddr(d, k)
  PROVE  n = k
<1> DEFINE ipg == d.inodes_per_group
           Group(i) == (i - 1) \div ipg
           Place(i) == (i - 1) % ipg
           is == d.inode_size
           x == d.start * LBA_SIZE
<1>1. \A i \in {n, k} :
        /\ Group(i) + 1 \in DOMAIN d.tables /\ i \in Nat \ {0}
        /\ Group(i) \in Nat /\ Place(i) \in Nat /\ i - 1 = Group(i) * ipg + Place(i)
  BY InodeNumbers
<1>2. \A i \in {n, k} :
        LET T == d.tables[Group(i) + 1] * d.block_size
        IN  /\ T \in Nat /\ TableEnd(d, Group(i) + 1) \in Nat /\ InodeAddr(d, i) \in Nat
            /\ InodeAddr(d, i) = x + T + Place(i) * is
            /\ x + T <= InodeAddr(d, i) /\ InodeAddr(d, i) < x + TableEnd(d, Group(i) + 1)
  BY InodeInTable
<1>3. is \in Nat \ {0}
  BY InodeSizes
<1>4. x \in Nat
  <2>1. d.start \in Nat /\ LBA_SIZE \in Nat
    BY SizeFacts DEF Consistent
  <2> QED
    BY <2>1, Product
<1> HIDE DEF Group, Place, is, x, ipg
<1>5. Group(n) = Group(k)
  <2> SUFFICES ASSUME Group(n) # Group(k) PROVE FALSE
    OBVIOUS
  <2> DEFINE g == Group(n) + 1
             h == Group(k) + 1
  <2>1. g \in DOMAIN d.tables /\ h \in DOMAIN d.tables \ {g}
    BY <1>1
  <2>2. \/ TableEnd(d, g) <= d.tables[h] * d.block_size
        \/ TableEnd(d, h) <= d.tables[g] * d.block_size
    BY <2>1 DEF Consistent
  <2>3. /\ d.tables[g] * d.block_size \in Nat /\ d.tables[h] * d.block_size \in Nat
        /\ TableEnd(d, g) \in Nat /\ TableEnd(d, h) \in Nat
        /\ InodeAddr(d, n) \in Nat /\ InodeAddr(d, k) \in Nat
        /\ x + d.tables[g] * d.block_size <= InodeAddr(d, n)
        /\ InodeAddr(d, n) < x + TableEnd(d, g)
        /\ x + d.tables[h] * d.block_size <= InodeAddr(d, k)
        /\ InodeAddr(d, k) < x + TableEnd(d, h)
    BY <1>2
  <2> DEFINE a == d.tables[g] * d.block_size
             b == d.tables[h] * d.block_size
  <2> HIDE DEF a, b, g, h
  <2> QED
    BY <2>2, <2>3, <1>4 DEF a, b
<1>6. Place(n) = Place(k)
  <2> DEFINE a == Place(n) * is
             b == Place(k) * is
             T == d.tables[Group(n) + 1] * d.block_size
  <2>1. a \in Nat /\ b \in Nat /\ Place(n) \in Nat /\ Place(k) \in Nat
    BY <1>1, <1>3, Product
  <2>2. T \in Nat /\ InodeAddr(d, n) = x + T + a /\ InodeAddr(d, k) = x + T + b
    BY <1>2, <1>5
  <2> HIDE DEF a, b, T
  <2>3. a = b
    <3>1. x + T + a = x + T + b
      BY <2>2
    <3> QED
      BY <3>1, <2>1, <2>2, <1>4
  <2>4. Place(n) * is <= Place(k) * is /\ Place(k) * is <= Place(n) * is
    BY <2>1, <2>3 DEF a, b
  <2>5. Place(n) <= Place(k) /\ Place(k) <= Place(n)
    BY <2>1, <2>4, <1>3, Growing
  <2> QED
    BY <2>1, <2>5
<1>7. n - 1 = k - 1
  BY <1>1, <1>5, <1>6
<1> QED
  BY <1>1, <1>7

\* The inode found at its place is the one that belongs there.
LEMMA InodeThere ==
  ASSUME NEW d, Consistent(d), NEW n \in Existing(d)
  PROVE  InodeAt(d, InodeAddr(d, n)) = d.inodes[n]
<1> DEFINE c == CHOOSE k \in Existing(d) : InodeAddr(d, k) = InodeAddr(d, n)
<1>1. c \in Existing(d) /\ InodeAddr(d, c) = InodeAddr(d, n)
  OBVIOUS
<1>2. c = n
  BY <1>1, InodesApart
<1> QED
  BY <1>2 DEF InodeAt

\* Every block that is read for a file is on the disk.
LEMMA FileBlocks ==
  ASSUME NEW d, Consistent(d), NEW n \in DOMAIN d.inodes, NEW i \in Nat,
         i < NDIR_BLOCKS + ptrs_per_block(d)
  PROVE  OnDisk(d, FileBlock(d, d.inodes[n], i))
<1>1. /\ \A k \in 1 .. NDIR_BLOCKS + 1 : OnDisk(d, d.inodes[n].i_block[k])
      /\ \A b \in DOMAIN d.pointers :
           /\ DOMAIN d.pointers[b] = 1 .. ptrs_per_block(d)
           /\ \A k \in DOMAIN d.pointers[b] : OnDisk(d, d.pointers[b][k])
  BY DEF Consistent
<1>2. NDIR_BLOCKS \in Nat /\ d.block_size \in Nat \ {0} /\ ptrs_per_block(d) \in Nat
  <2>1. d.block_size \in Nat \ {0} /\ PTR_BYTES \in Nat \ {0} /\ NDIR_BLOCKS \in Nat
    BY SizeFacts, SizesAssumption DEF Consistent
  <2> QED
    BY <2>1, DivMod DEF ptrs_per_block
<1>3. CASE i < NDIR_BLOCKS
  <2>1. i + 1 \in 1 .. NDIR_BLOCKS + 1
    BY <1>2, <1>3
  <2> QED
    BY <2>1, <1>1, <1>3 DEF FileBlock
<1>4. CASE ~(i < NDIR_BLOCKS)
  <2>1. i - NDIR_BLOCKS + 1 \in 1 .. ptrs_per_block(d)
    BY <1>2, <1>4
  <2>2. CASE d.inodes[n].i_block[NDIR_BLOCKS + 1] \in DOMAIN d.pointers
    BY <2>1, <2>2, <1>1, <1>4 DEF FileBlock
  <2>3. CASE d.inodes[n].i_block[NDIR_BLOCKS + 1] \notin DOMAIN d.pointers
    BY <2>3, <1>4, BlockFits DEF FileBlock
  <2> QED
    BY <2>2, <2>3
<1> QED
  BY <1>3, <1>4

\* The i-th pointer in the bytes of a block.
LEMMA PointerThere ==
  ASSUME NEW d, Consistent(d), NEW p, OnDisk(d, p),
         NEW i \in Nat, i < ptrs_per_block(d)
  PROVE  LET s == SectorBytes(d, p * block_lba_size(d), block_lba_size(d))
         IN  PointerAt(d, s[i * PTR_BYTES + 1])
               = IF p \in DOMAIN d.pointers THEN d.pointers[p][i + 1] ELSE 0
<1> DEFINE s == SectorBytes(d, p * block_lba_size(d), block_lba_size(d))
           bs == d.block_size
           ppb == ptrs_per_block(d)
           k == i * PTR_BYTES
           a == BlockAddr(d, p) + k
<1>1. /\ Sizes(d) /\ bs \in Nat \ {0} /\ PTR_BYTES \in Nat \ {0} /\ bs % PTR_BYTES = 0
      /\ d.start \in Nat /\ LBA_SIZE \in Nat
  BY SizeFacts, SizesAssumption DEF Consistent, Sizes
<1>2. ppb \in Nat /\ bs = ppb * PTR_BYTES
  BY <1>1, Exact DEF ptrs_per_block
<1>3. k \in Nat /\ k \in 0 .. bs - 1
  <2> HIDE DEF ppb
  <2>1. k + PTR_BYTES <= ppb * PTR_BYTES /\ k \in Nat
    BY <1>1, <1>2, Growing, Product DEF ppb
  <2> HIDE DEF k
  <2> QED
    BY <2>1, <1>1, <1>2
<1>4. s[k + 1] = a
  <2> HIDE DEF k
  <2> QED
    BY <1>1, <1>3, BlockBytes
<1>5. p \in Nat /\ p * bs \in Nat /\ Base(d) \in Nat
  BY <1>1, Product DEF OnDisk, Base
<1>6. a - Base(d) = p * bs + k
  <2> DEFINE x == p * bs
             y == Base(d)
  <2>1. a = y + x + k /\ x \in Nat /\ y \in Nat
    BY <1>5 DEF BlockAddr
  <2> HIDE DEF x, y, a, k
  <2>2. a - y = x + k
    BY <2>1, <1>3
  <2> QED
    BY <2>2 DEF x, y
<1> HIDE DEF a, k, bs, ppb
<1>7. (a - Base(d)) \div bs = p /\ (a - Base(d)) % bs = k
  <2>1. (p * bs + k) \div bs = p /\ (p * bs + k) % bs = k
    BY <1>1, <1>3, <1>5, Divided
  <2> QED
    BY <2>1, <1>6
<1>8. k \div PTR_BYTES = i
  <2>1. 0 \in 0 .. PTR_BYTES - 1 /\ k = i * PTR_BYTES + 0
    BY <1>1, <1>3 DEF k
  <2> QED
    BY <2>1, <1>1, Divided
<1>9. PointerAt(d, a) = IF p \in DOMAIN d.pointers THEN d.pointers[p][i + 1] ELSE 0
  BY <1>7, <1>8 DEF PointerAt, bs
<1> QED
  BY <1>4, <1>9 DEF k

\* What is read of any block is a block of bytes.
LEMMA SectorsType ==
  ASSUME NEW d, Sizes(d), NEW lba, SectorOf(d, lba) \in Nat
  PROVE  LET s == SectorBytes(d, lba, block_lba_size(d))
         IN  s \in Seq(Nat) /\ Len(s) = d.block_size
<1> DEFINE s == SectorBytes(d, lba, block_lba_size(d))
           a == SectorOf(d, lba) * LBA_SIZE
<1>1. LBA_SIZE \in Nat /\ d.block_size = block_lba_size(d) * LBA_SIZE /\ d.block_size \in Nat
  BY SizeFacts
<1>2. s = [i \in 1 .. d.block_size |-> a + i - 1]
  BY <1>1 DEF SectorBytes
<1>3. a \in Nat
  BY <1>1, Product
<1> HIDE DEF a, s
<1>4. s \in [1 .. d.block_size -> Nat]
  BY <1>1, <1>2, <1>3
<1>5. s \in Seq(Nat) /\ Len(s) = d.block_size
  BY <1>1, <1>4
<1> QED
  BY <1>5 DEF s

LEMMA PartOf ==
  ASSUME NEW bb \in Seq(Nat), NEW o \in Nat, NEW c \in Nat \ {0}, o + c <= Len(bb)
  PROVE  LET part == SubSeq(bb, o + 1, o + c)
         IN  part \in Seq(Nat) /\ Len(part) = c /\ \A m \in 1 .. c : part[m] = bb[o + m]
<1> DEFINE part == SubSeq(bb, o + 1, o + c)
<1>1. part = [m \in 1 .. c |-> bb[o + m]]
  <2>1. 1 + (o + c) - (o + 1) = c
    OBVIOUS
  <2>2. part = [m \in 1 .. (1 + (o + c) - (o + 1)) |-> bb[m + (o + 1) - 1]]
    OBVIOUS
  <2>3. \A m \in 1 .. c : m + (o + 1) - 1 = o + m
    OBVIOUS
  <2> QED
    BY <2>1, <2>2, <2>3
<1>2. \A m \in 1 .. c : bb[o + m] \in Nat
  <2>1. \A m \in 1 .. c : o + m \in 1 .. Len(bb)
    OBVIOUS
  <2> QED
    BY <2>1
<1> HIDE DEF part
<1>3. part \in [1 .. c -> Nat]
  BY <1>1, <1>2
<1>4. part \in Seq(Nat) /\ Len(part) = c
  BY <1>3
<1> QED
  BY <1>1, <1>4 DEF part

\* Where a block of a file starts.
Start(d, cb) == cb * d.block_size

\* A round copies c bytes of block cb of a file, from its byte bbo on.
Round(d, off, len, l, cb, bbo, c) ==
  /\ cb \in Nat /\ bbo \in 0 .. d.block_size - 1 /\ c \in Nat \ {0}
  /\ off + l = Start(d, cb) + bbo /\ cb < NDIR_BLOCKS + ptrs_per_block(d)
  /\ l + c <= len /\ bbo + c <= d.block_size
  /\ l + c = len \/ bbo + c = d.block_size

LEMMA InodeSize ==
  ASSUME NEW d, Consistent(d), NEW n \in DOMAIN d.inodes
  PROVE  d.inodes[n].size \in Nat /\ d.inodes[n].size < SIZE_LIMIT
  BY DEF Consistent

LEMMA FileSizes ==
  ASSUME NEW d, Consistent(d)
  PROVE  d.block_size \in Nat \ {0} /\ NDIR_BLOCKS \in Nat /\ ptrs_per_block(d) \in Nat
         /\ PTR_BYTES \in Nat \ {0} /\ d.block_size = ptrs_per_block(d) * PTR_BYTES
         /\ Reach(d) \in Nat
<1>1. /\ d.block_size \in Nat \ {0} /\ PTR_BYTES \in Nat \ {0} /\ NDIR_BLOCKS \in Nat
      /\ d.block_size % PTR_BYTES = 0
  BY SizeFacts, SizesAssumption DEF Consistent, Sizes
<1>2. ptrs_per_block(d) \in Nat /\ d.block_size = ptrs_per_block(d) * PTR_BYTES
  BY <1>1, Exact DEF ptrs_per_block
<1> DEFINE w == NDIR_BLOCKS + ptrs_per_block(d)
<1>3. w \in Nat /\ Reach(d) = w * d.block_size
  BY <1>1, <1>2 DEF Reach
<1> HIDE DEF w
<1>4. Reach(d) \in Nat
  BY <1>1, <1>3, Product
<1> QED
  BY <1>1, <1>2, <1>4

\* The place of the bytes of a round in the file.
LEMMA RoundPlace ==
  ASSUME NEW d, NEW off \in Nat, NEW len \in Nat, NEW l \in Nat, NEW cb, NEW bbo, NEW c,
         d.block_size \in Nat \ {0}, Round(d, off, len, l, cb, bbo, c)
  PROVE  Start(d, cb) \in Nat /\ \A i \in Nat : off + (l + i) = Start(d, cb) + (bbo + i)
<1>1. Start(d, cb) \in Nat
  BY Product DEF Round, Start
<1>2. bbo \in Nat /\ off + l = Start(d, cb) + bbo
  BY DEF Round
<1> QED
  BY <1>1, <1>2

\* What a round appends of a block bb continues what has been read.
Appended(d, n, off, len, buf, bb, part, cb) ==
  LET new == buf \o part
      b == FileBlock(d, d.inodes[n], cb)
  IN  /\ new \in Seq(Nat) /\ Len(new) <= len /\ new # <<>>
      /\ Len(new) = len \/ (off + Len(new)) % d.block_size = 0
      /\ off + Len(new) <= Reach(d)
      /\ (\A k \in 0 .. d.block_size - 1 : bb[k + 1] = BlockAddr(d, b) + k) =>
           \A i \in 1 .. Len(new) :
             new[i] = IF i <= Len(buf) THEN buf[i] ELSE StoredAt(d, d.inodes[n], off + i)

LEMMA CopyRound ==
  ASSUME NEW d, Consistent(d), NEW n \in DOMAIN d.inodes,
         NEW off \in Nat, NEW len \in Nat, NEW buf \in Seq(Nat),
         NEW bb, NEW part \in Seq(Nat), NEW cb, NEW bbo,
         Round(d, off, len, Len(buf), cb, bbo, Len(part)),
         \A m \in 1 .. Len(part) : part[m] = bb[bbo + m]
  PROVE  Appended(d, n, off, len, buf, bb, part, cb)
<1> DEFINE bs == d.block_size
           l == Len(buf)
           c == Len(part)
           ppb == ptrs_per_block(d)
           b == FileBlock(d, d.inodes[n], cb)
           new == buf \o part
           z == Start(d, cb)
<1>1. /\ bs \in Nat \ {0} /\ l \in Nat /\ NDIR_BLOCKS \in Nat /\ d.inodes[n].size \in Nat
      /\ ppb \in Nat /\ Reach(d) \in Nat
  BY FileSizes, InodeSize
<1> HIDE DEF z, ppb, bs
<1>2. /\ cb \in Nat /\ bbo \in 0 .. bs - 1 /\ c \in Nat \ {0}
      /\ off + l = z + bbo /\ cb < NDIR_BLOCKS + ppb
      /\ l + c <= len /\ bbo + c <= bs
      /\ l + c = len \/ bbo + c = bs
  BY DEF Round, z, ppb, bs
<1>3. z \in Nat
  BY <1>1, <1>2, Product DEF z, bs, Start
<1>11. \A i \in Nat : off + (l + i) = z + (bbo + i)
  <2>1. l \in Nat /\ d.block_size \in Nat \ {0} /\ Round(d, off, len, l, cb, bbo, c)
    BY <1>1 DEF bs
  <2> HIDE DEF l, c
  <2> QED
    BY <2>1, RoundPlace DEF z
<1>4. /\ new \in Seq(Nat) /\ Len(new) = l + c
      /\ \A i \in 1 .. l + c : new[i] = IF i <= l THEN buf[i] ELSE part[i - l]
  BY ConcatProperties
<1> HIDE DEF b, new, l, c
<1>5. (cb + 1) * bs = z + bs
  <2>1. (cb + 1) * bs = cb * bs + 1 * bs
    BY <1>1, <1>2, Distribute
  <2> QED
    BY <2>1, <1>1 DEF z, bs, Start
<1>6. off + Len(new) <= z + bs
  BY <1>1, <1>2, <1>3, <1>4
<1>7. off + Len(new) <= Reach(d)
  <2> DEFINE y == cb + 1
             w == NDIR_BLOCKS + ppb
  <2>1. y <= w /\ y \in Nat /\ w \in Nat
    BY <1>1, <1>2
  <2>2. Reach(d) = w * bs /\ y * bs = z + bs
    BY <1>5 DEF Reach, ppb, bs
  <2> HIDE DEF y, w
  <2>3. y * bs <= w * bs /\ y * bs \in Nat /\ w * bs \in Nat
    BY <2>1, <1>1, Growing, Product
  <2> DEFINE wb == w * bs
  <2> HIDE DEF wb
  <2>4. z + bs <= wb /\ wb \in Nat /\ Reach(d) = wb
    BY <2>2, <2>3 DEF wb
  <2> QED
    BY <2>4, <1>1, <1>2, <1>3, <1>4, <1>6
<1>8. Len(new) = len \/ (off + Len(new)) % bs = 0
  <2>1. CASE l + c = len
    BY <2>1, <1>4
  <2>2. CASE bbo + c = bs
    <3> DEFINE y == cb + 1
    <3>1. off + (l + c) = z + bs
      BY <2>2, <1>2, <1>11
    <3>2. y * bs = off + Len(new) /\ y * bs \in Nat
      BY <3>1, <1>1, <1>3, <1>4, <1>5
    <3>4. y \in Nat /\ 0 \in 0 .. bs - 1
      BY <1>1, <1>2
    <3> HIDE DEF y
    <3>3. (y * bs + 0) % bs = 0
      BY <3>4, <1>1, Divided
    <3> QED
      BY <3>2, <3>3
  <2> QED
    BY <2>1, <2>2, <1>2
<1>9. ASSUME \A k \in 0 .. bs - 1 : bb[k + 1] = BlockAddr(d, b) + k, NEW i \in 1 .. Len(new)
      PROVE  new[i] = IF i <= l THEN buf[i] ELSE StoredAt(d, d.inodes[n], off + i)
  <2>0. i \in Nat /\ i >= 1 /\ i <= l + c
    BY <1>1, <1>2, <1>4
  <2>1. CASE i <= l
    BY <2>0, <2>1, <1>4
  <2>2. CASE ~(i <= l)
    <3> DEFINE m == i - l
               k == bbo + m - 1
    <3>0. /\ bbo \in Nat /\ c \in Nat /\ bbo + c <= bs /\ off + l = z + bbo
      BY <1>1, <1>2
    <3>1. m \in 1 .. c /\ k \in 0 .. bs - 1 /\ bbo + m = k + 1
      <4>1. i > l /\ l \in Nat /\ bs \in Nat
        BY <2>0, <2>2, <1>1
      <4>2. m \in 1 .. c
        BY <4>1, <2>0, <3>0
      <4> HIDE DEF m
      <4> QED
        BY <4>1, <4>2, <3>0
    <3>2. off + i - 1 = z + k
      <4>1. m \in Nat /\ i = l + m
        BY <2>0, <3>1, <1>1
      <4> HIDE DEF m
      <4>2. off + i = z + (bbo + m)
        BY <4>1, <1>11
      <4>3. off \in Int /\ i \in Int /\ z \in Int /\ bbo \in Int /\ m \in Int
        BY <4>1, <2>0, <3>0, <1>3
      <4>4. k = bbo + m - 1
        OBVIOUS
      <4> HIDE DEF k
      <4> QED
        BY ONLY <4>2, <4>3, <4>4
    <3> HIDE DEF k, m
    <3>3. new[i] = BlockAddr(d, b) + k
      <4>1. new[i] = part[m]
        BY <2>0, <2>2, <1>4 DEF m
      <4>2. part[m] = bb[bbo + m]
        BY <3>1 DEF c
      <4> QED
        BY <4>1, <4>2, <3>1, <1>9
    <3>4. (off + i - 1) \div bs = cb /\ (off + i - 1) % bs = k
      <4>1. (cb * bs + k) \div bs = cb /\ (cb * bs + k) % bs = k
        <5>1. cb \in Nat
          BY <1>2
        <5> QED
          BY <5>1, <3>1, <1>1, Divided
      <4> QED
        BY <4>1, <3>2 DEF z, bs, Start
    <3>6. StoredAt(d, d.inodes[n], off + i)
            = BlockAddr(d, FileBlock(d, d.inodes[n], (off + i - 1) \div bs)) + ((off + i - 1) % bs)
      BY DEF StoredAt, bs
    <3> QED
      BY <2>2, <3>3, <3>4, <3>6 DEF b
  <2> QED
    BY <2>1, <2>2
<1>10. Len(new) <= len /\ new # <<>>
  BY <1>1, <1>2, <1>4
<1> QED
  BY <1>4, <1>7, <1>8, <1>9, <1>10 DEF Appended, b, new, l, bs

-----------------------------------------------------------------------------
(* What a task's step leaves alone *)

\* The step of task t changes nothing of what the others have ...
Kept(u) ==
  /\ req'[u] = req[u] /\ job'[u] = job[u] /\ io'[u] = io[u]
  /\ block_buffer'[u] = block_buffer[u] /\ got'[u] = got[u] /\ buffer'[u] = buffer[u]
  /\ failed'[u] = failed[u] /\ reply'[u] = reply[u] /\ pc'[u] = pc[u]
OthersKeep(t) == \A u \in Tasks \ {t} : Kept(u)

\* ... takes no lock from them ...
LocksKeep(t) ==
  \A u \in Tasks \ {t} :
    /\ fs_tree_lock = u => fs_tree_lock' = u /\ file' = file /\ directory' = directory
    /\ io_lock = u => io_lock' = u /\ fpos' = fpos

\* ... and leaves complete files as they are.
WholeKeep ==
  \A n \in Lookups : Whole(n) =>
    /\ file'[n] = file[n]
    /\ directory[n].state # "none" => directory'[n].state # "none"
    /\ disk.inodes[n].type # "dir" => directory'[n] = directory[n]

LEMMA PrivateFrame ==
  ASSUME NEW u \in Tasks, Kept(u), Private(u),
         disk' = disk, group_descriptors' = group_descriptors
  PROVE  Private(u)'
<1>1. /\ req'[u] = req[u] /\ job'[u] = job[u] /\ io'[u] = io[u]
      /\ block_buffer'[u] = block_buffer[u] /\ got'[u] = got[u] /\ buffer'[u] = buffer[u]
      /\ failed'[u] = failed[u] /\ reply'[u] = reply[u] /\ pc'[u] = pc[u]
  BY DEF Kept
<1>2. Control(u)'
  BY <1>1 DEF Private, Control, Lookups
<1>3. Request(u)'
  BY <1>1 DEF Private, Request, CurrentBlock, Node, Wild
<1>4. Outcome(u)'
  BY <1>1 DEF Private, Outcome, GotAll
<1>5. Errors(u)'
  BY <1>1 DEF Private, Errors, GotAll, Misled, Wild
<1>6. Reading(u)'
  BY <1>1 DEF Private, Reading, Active, Node
<1>7. Asked(u)' /\ Reported(u)'
  BY <1>1 DEF Private, Asked, Reported, Misled, Node
<1> QED
  BY <1>2, <1>3, <1>4, <1>5, <1>6, <1>7 DEF Private

LEMMA SharedFrame ==
  ASSUME NEW t \in Tasks, OthersKeep(t), LocksKeep(t), WholeKeep,
         NEW u \in Tasks \ {t}, Private(u), Shared(u), disk' = disk
  PROVE  Shared(u)'
<1>1. /\ req'[u] = req[u] /\ job'[u] = job[u] /\ io'[u] = io[u] /\ pc'[u] = pc[u]
  BY DEF OthersKeep, Kept
<1>2. Looking(u)' = Looking(u) /\ Loads(u)' = Loads(u) /\ Lists(u)' = Lists(u)
      /\ Active(u)' = Active(u)
  BY <1>1 DEF Looking, Loads, Lists, Active
<1>3. Looking(u) => fs_tree_lock = u /\ fs_tree_lock' = u /\ file' = file /\ directory' = directory
  BY DEF Shared, LocksKeep
<1>4. Loads(u) \/ Lists(u) \/ pc[u] = "found" => Looking(u)
  BY DEF Loads, Lists, Looking, Active, ReadLabels
<1>5. Looking(u)' => fs_tree_lock' = u
  BY <1>2, <1>3
<1>6. /\ pc'[u] \in {"seek", "transfer", "iounlock"} => io_lock' = u
      /\ pc'[u] = "transfer" => fpos' = io'[u].lba * LBA_SIZE
  BY <1>1 DEF Shared, LocksKeep
<1>7. /\ Loads(u)' => file'[req'[u].inode] = Loading
      /\ Lists(u)' => Fetched(req[u].inode)' /\ directory'[req'[u].inode].state = "none"
  BY <1>1, <1>2, <1>3, <1>4 DEF Shared, Fetched
<1>8. pc[u] # "idle" => req[u].inode \in Lookups
  BY DEF Private, Control
<1>9. pc'[u] = "found" => Whole(req[u].inode)'
  BY <1>1, <1>3, <1>4 DEF Shared, Whole, Fetched
<1>10. pc'[u] = "opened" => Whole(req[u].inode)'
  BY <1>1, <1>8 DEF Shared, Whole, Fetched, WholeKeep
<1>11. ASSUME Active(u), job[u].for = "read"
       PROVE  Fetched(req[u].inode)' /\ ~Lost(req[u].inode)'
  <2> DEFINE n == req[u].inode
  <2>1. Fetched(n) /\ ~Lost(n) /\ n \in Lookups /\ disk.inodes[n].type # "dir"
    BY <1>8, <1>11 DEF Private, Reading, Node, Shared, Active, ReadLabels, IoLabels
  <2>2. Whole(n)
    BY <2>1 DEF Whole
  <2>3. file'[n] = file[n] /\ directory'[n] = directory[n]
    BY <2>1, <2>2 DEF WholeKeep
  <2> QED
    BY <1>1, <2>1, <2>3 DEF Fetched, Lost
<1> QED
  BY <1>1, <1>2, <1>5, <1>6, <1>7, <1>9, <1>10, <1>11 DEF Shared

\* What remains to be shown of a step that changes no file_t.
LEMMA QuietStep ==
  ASSUME Ext2Inv, NEW t \in Tasks, fs = "mounted", UNCHANGED <<globals, file, directory>>,
         OthersKeep(t), LocksKeep(t), Functions', fpos' \in Nat, Private(t)', Shared(t)',
         Loads(t) \/ Lists(t) => (Loads(t) \/ Lists(t))' /\ req'[t] = req[t]
  PROVE  Ext2Inv'
<1>1. /\ disk' = disk /\ fs' = fs /\ group_descriptors' = group_descriptors
      /\ file' = file /\ directory' = directory
  BY DEF globals
<1>2. Types'
  BY <1>1 DEF Ext2Inv, Types, Lookups
<1>3. Descriptors'
  BY <1>1 DEF Ext2Inv, Descriptors
<1>4. Inodes' /\ Blank'
  BY <1>1 DEF Ext2Inv, Inodes, Blank, Fetched, Lookups
<1>5. WholeKeep
  BY <1>1 DEF WholeKeep
<1>6. \A u \in Tasks \ {t} : Private(u)' /\ Shared(u)'
  BY <1>1, <1>5, PrivateFrame, SharedFrame DEF Ext2Inv, OthersKeep
<1>7. \A u \in Tasks : Loads(u) \/ Lists(u) => (Loads(u) \/ Lists(u))' /\ req'[u] = req[u]
  BY DEF OthersKeep, Kept, Loads, Lists, Active
<1>8. \A n \in Lookups : Whole(n)' = Whole(n)
  BY <1>1 DEF Whole, Fetched
<1>9. Complete'
  BY <1>1, <1>7, <1>8 DEF Ext2Inv, Complete, Lookups
<1>10. OverrunOnlyBehind'
  BY <1>1 DEF OverrunOnlyBehind
<1> QED
  BY <1>2, <1>3, <1>4, <1>6, <1>9, <1>10 DEF Ext2Inv

-----------------------------------------------------------------------------
(* The steps of a task that change no file_t *)

\* What the tasks have besides the place in the code.
hands == <<req, job, io, block_buffer, got, buffer, failed, reply>>

\* A step that only goes to another place.
LEMMA Moved ==
  ASSUME Functions, NEW t \in Tasks, NEW l, Goto(t, l), UNCHANGED hands
  PROVE  Functions' /\ OthersKeep(t) /\ pc'[t] = l
<1>1. /\ req' = req /\ job' = job /\ io' = io /\ block_buffer' = block_buffer
      /\ got' = got /\ buffer' = buffer /\ failed' = failed /\ reply' = reply
  BY DEF hands
<1>2. pc = [u \in Tasks |-> pc[u]] /\ pc' = [pc EXCEPT ![t] = l]
  BY DEF Functions, Goto
<1>3. pc' = [u \in Tasks |-> IF u = t THEN l ELSE pc[u]]
  BY <1>2
<1>4. pc' = [u \in Tasks |-> pc'[u]] /\ pc'[t] = l /\ \A u \in Tasks \ {t} : pc'[u] = pc[u]
  BY <1>3
<1>5. Functions'
  BY <1>1, <1>4 DEF Functions
<1> QED
  BY <1>1, <1>4, <1>5 DEF OthersKeep, Kept

LEMMA FindStep == ASSUME Ext2Inv, NEW t \in Tasks, Find(t) PROVE Ext2Inv'
<1>1. /\ fs = "mounted" /\ pc[t] = "find" /\ Goto(t, "lookup") /\ UNCHANGED hands
      /\ UNCHANGED <<globals, file, directory>> /\ fpos' = fpos /\ io_lock' = io_lock
      /\ fs_tree_lock = NULL /\ fs_tree_lock' = t
  BY DEF Find, At, hands, transfer
<1>2. Functions' /\ OthersKeep(t) /\ pc'[t] = "lookup"
  BY <1>1, Moved DEF Ext2Inv
<1>3. Private(t) /\ Shared(t)
  BY DEF Ext2Inv
<1>4. Private(t)'
  BY <1>1, <1>2, <1>3 DEF Private, Control, Request, Outcome, Errors, Reading, Asked, Reported,
     Labels, IoLabels, ReadLabels, Active, Node, Misled, Lookups, hands, globals
<1>5. Shared(t)'
  BY <1>1, <1>2, <1>3 DEF Private, Shared, Looking, Loads, Lists, Active, ReadLabels, IoLabels
<1>6. LocksKeep(t) /\ fpos' \in Nat
  BY <1>1, ValuesAssumption DEF LocksKeep, Ext2Inv, Types
<1> QED
  BY <1>1, <1>2, <1>4, <1>5, <1>6, QuietStep DEF Loads, Lists, Active, ReadLabels, IoLabels

LEMMA IoLockStep == ASSUME Ext2Inv, NEW t \in Tasks, IoLock(t) PROVE Ext2Inv'
<1>1. /\ fs = "mounted" /\ pc[t] = "io" /\ Goto(t, "seek") /\ UNCHANGED hands
      /\ UNCHANGED <<globals, file, directory>> /\ fpos' = fpos /\ io_lock' = t
      /\ io_lock = NULL /\ fs_tree_lock' = fs_tree_lock
  BY DEF IoLock, At, hands, transfer
<1>2. Functions' /\ OthersKeep(t) /\ pc'[t] = "seek"
  BY <1>1, Moved DEF Ext2Inv
<1>3. Private(t) /\ Shared(t)
  BY DEF Ext2Inv
<1>4. Private(t)'
  BY <1>1, <1>2, <1>3 DEF Private, Control, Request, Outcome, Errors, Reading, Asked, Reported,
     Labels, IoLabels, ReadLabels, Active, Node, Misled, Lookups, CurrentBlock, Wild, hands, globals
<1>5. Shared(t)'
  BY <1>1, <1>2, <1>3 DEF Shared, Looking, Loads, Lists, Active, ReadLabels, IoLabels,
     Fetched, Lost, hands, globals
<1>6. LocksKeep(t) /\ fpos' \in Nat
  BY <1>1, ValuesAssumption DEF LocksKeep, Ext2Inv, Types
<1> QED
  BY <1>1, <1>2, <1>4, <1>5, <1>6, QuietStep DEF Loads, Lists, Active, ReadLabels, IoLabels, hands

LEMMA IoUnlockStep == ASSUME Ext2Inv, NEW t \in Tasks, IoUnlock(t) PROVE Ext2Inv'
<1>1. /\ fs = "mounted" /\ pc[t] = "iounlock" /\ Goto(t, io[t].back) /\ UNCHANGED hands
      /\ UNCHANGED <<globals, file, directory>> /\ fpos' = fpos /\ io_lock' = NULL
      /\ fs_tree_lock' = fs_tree_lock
  BY DEF IoUnlock, At, hands, transfer
<1>2. Functions' /\ OthersKeep(t) /\ pc'[t] = io[t].back
  BY <1>1, Moved DEF Ext2Inv
<1>3. Private(t) /\ Shared(t)
  BY DEF Ext2Inv
<1>0. pc'[t] \in {"inode", "pointer", "data"}
  BY <1>1, <1>2, <1>3 DEF Private, Control, IoLabels, Transfers
<1>4. Private(t)'
  <2>1. Control(t)' /\ Asked(t)' /\ Reported(t)'
    BY <1>0, <1>1, <1>2, <1>3 DEF Private, Control, Asked, Reported, Labels, IoLabels,
       ReadLabels, Node, Lookups, hands, globals
  <2>2. Request(t)' /\ Outcome(t)'
    BY <1>0, <1>1, <1>2, <1>3 DEF Private, Request, Outcome, IoLabels, Node, CurrentBlock,
       Wild, GotAll, hands, globals
  <2>3. Errors(t)' /\ Reading(t)'
    BY <1>0, <1>1, <1>2, <1>3 DEF Private, Control, Errors, Reading, Active, IoLabels, ReadLabels,
       Node, Misled, Wild, GotAll, hands, globals
  <2> QED
    BY <2>1, <2>2, <2>3 DEF Private
<1>5. Shared(t)'
  BY <1>0, <1>1, <1>2, <1>3 DEF Private, Control, Shared, Looking, Loads, Lists, Active,
     ReadLabels, IoLabels, Fetched, Lost, hands, globals
<1>6. LocksKeep(t) /\ fpos' \in Nat
  BY <1>1, <1>3, ValuesAssumption DEF LocksKeep, Ext2Inv, Types, Shared
<1>7. Loads(t) \/ Lists(t) => (Loads(t) \/ Lists(t))' /\ req'[t] = req[t]
  BY <1>0, <1>1, <1>2, <1>3 DEF Private, Control, Loads, Lists, Active, ReadLabels, IoLabels, hands
<1> QED
  BY <1>1, <1>2, <1>4, <1>5, <1>6, <1>7, QuietStep

LEMMA FoundStep == ASSUME Ext2Inv, NEW t \in Tasks, Found(t) PROVE Ext2Inv'
<1>1. /\ fs = "mounted" /\ pc[t] = "found" /\ Goto(t, "opened") /\ UNCHANGED hands
      /\ UNCHANGED <<globals, file, directory>> /\ fpos' = fpos /\ io_lock' = io_lock
      /\ fs_tree_lock' = NULL
  BY DEF Found, At, hands, transfer
<1>2. Functions' /\ OthersKeep(t) /\ pc'[t] = "opened"
  BY <1>1, Moved DEF Ext2Inv
<1>3. Private(t) /\ Shared(t)
  BY DEF Ext2Inv
<1>4. Private(t)'
  BY <1>1, <1>2, <1>3 DEF Private, Control, Request, Outcome, Errors, Reading, Asked, Reported,
     Labels, IoLabels, ReadLabels, Active, Node, Misled, Lookups, hands, globals
<1>5. Shared(t)'
  BY <1>1, <1>2, <1>3 DEF Shared, Looking, Loads, Lists, Active, ReadLabels, IoLabels,
     Whole, Fetched, hands, globals
<1>6. LocksKeep(t) /\ fpos' \in Nat
  BY <1>1, <1>3, ValuesAssumption DEF LocksKeep, Ext2Inv, Types, Shared, Looking
<1> QED
  BY <1>1, <1>2, <1>4, <1>5, <1>6, QuietStep DEF Loads, Lists, Active, ReadLabels, IoLabels

\* The block a read has come to.
LEMMA BlockOfFile ==
  ASSUME Ext2Inv, NEW t \in Tasks, Active(t), Len(buffer[t]) < job[t].len
  PROVE  /\ Consistent(disk) /\ req[t].inode \in Existing(disk) /\ req[t].inode \in Lookups
         /\ job[t].off \in Nat /\ job[t].len \in Nat /\ Len(buffer[t]) \in Nat
         /\ CurrentBlock(t) \in Nat /\ Node(t).size \in Nat
<1>1. Private(t) /\ Consistent(disk)
  BY DisksAssumption DEF Ext2Inv, Types
<1>2. /\ req[t].inode \in Existing(disk) /\ req[t].inode \in Lookups
      /\ job[t].off \in Nat /\ job[t].len \in Nat /\ Len(buffer[t]) \in Nat
  <2>1. job[t] \in Jobs /\ buffer[t] \in Seq(Nat)
    BY <1>1 DEF Private, Control, Active
  <2> QED
    BY <1>1, <2>1 DEF Private, Reading, Jobs, Existing, Lookups
<1>3. Node(t).size \in Nat
  BY <1>1, <1>2, InodeSize DEF Node, Lookups
<1>4. disk.block_size \in Nat \ {0}
  BY <1>1, FileSizes
<1> DEFINE x == job[t].off + Len(buffer[t])
<1>5. x \in Nat
  BY <1>2
<1> HIDE DEF x
<1>6. x \div disk.block_size \in Nat
  BY <1>4, <1>5, DivMod
<1> QED
  BY <1>1, <1>2, <1>3, <1>6 DEF x, CurrentBlock

\* Every transfer is of sectors on the disk, but for the wild one.
LEMMA Aimed ==
  ASSUME Ext2Inv, NEW t \in Tasks, fs = "mounted",
         pc[t] \in IoLabels \cup {"inode", "pointer", "data"}
  PROVE  LET lba == io[t].lba
             count == io[t].count
         IN  /\ lba \in Nat /\ count \in Nat /\ count > 0
             /\ lba * LBA_SIZE \in Nat /\ lba * LBA_SIZE < SIZE_LIMIT
             /\ \/ Within(lba, count)
                \/ /\ lba = Wild /\ failed[t] # "none" /\ io[t].back = "data"
                   /\ count = block_lba_size(disk)
<1>1. /\ Private(t) /\ Consistent(disk) /\ Sizes(disk)
      /\ group_descriptors = SectorBytes(disk, gdt_lba(disk), gdt_lba_size(disk))
  BY DisksAssumption DEF Ext2Inv, Types, Descriptors, Consistent
<1>2. io[t] \in Transfers /\ io[t].back \in {"inode", "pointer", "data"} /\ io[t].lba \in Nat
      /\ io[t].count \in Nat
  BY <1>1 DEF Private, Control, Transfers
<1>3. block_lba_size(disk) \in Nat /\ block_lba_size(disk) > 0
  BY <1>1, SizeFacts
<1>4. io[t].back # "inode" => Active(t) /\ Len(buffer[t]) < job[t].len
        /\ CurrentBlock(t) < NDIR_BLOCKS + ptrs_per_block(disk) /\ io[t].count = block_lba_size(disk)
  BY <1>1 DEF Private, Control, Request, Active, IoLabels, ReadLabels
<1>5. CASE io[t].back = "inode"
  <2>1. /\ req[t].inode \in Existing(disk) /\ io[t].count = 1
        /\ io[t].lba = ItableLba(disk, group_descriptors, req[t].inode)
    BY <1>1, <1>5 DEF Private, Request
  <2>2. disk.start + io[t].lba + 1 <= disk.sectors
    BY <1>1, <2>1, InodePlace
  <2> QED
    BY <1>1, <1>2, <2>1, <2>2, TransferWithin DEF Within
<1>6. CASE io[t].back = "pointer"
  <2>1. io[t].lba = Node(t).i_block[NDIR_BLOCKS + 1] * block_lba_size(disk)
    BY <1>1, <1>6 DEF Private, Request
  <2>2. OnDisk(disk, Node(t).i_block[NDIR_BLOCKS + 1])
    <3>1. req[t].inode \in DOMAIN disk.inodes
      BY <1>4, <1>6, BlockOfFile DEF Lookups
    <3>2. NDIR_BLOCKS + 1 \in 1 .. NDIR_BLOCKS + 1
      BY SizesAssumption
    <3> QED
      BY <1>1, <3>1, <3>2 DEF Consistent, Node
  <2>3. disk.start + io[t].lba + block_lba_size(disk) <= disk.sectors
    BY <1>1, <2>1, <2>2, BlockOnDisk
  <2> QED
    BY <1>1, <1>2, <1>3, <1>4, <1>6, <2>3, TransferWithin DEF Within
<1>7. CASE io[t].back = "data" /\ io[t].lba = FileBlock(disk, Node(t), CurrentBlock(t)) * block_lba_size(disk)
  <2>1. OnDisk(disk, FileBlock(disk, Node(t), CurrentBlock(t)))
    BY <1>4, <1>7, BlockOfFile, FileBlocks DEF Node, Lookups
  <2>2. disk.start + io[t].lba + block_lba_size(disk) <= disk.sectors
    BY <1>1, <1>7, <2>1, BlockOnDisk
  <2> QED
    BY <1>1, <1>2, <1>3, <1>4, <1>7, <2>2, TransferWithin DEF Within
<1>8. CASE io[t].back = "data" /\ io[t].lba = Wild /\ failed[t] # "none"
  BY <1>1, <1>2, <1>3, <1>4, <1>8, WildBlock DEF Wild
<1> QED
  BY <1>1, <1>2, <1>5, <1>6, <1>7, <1>8 DEF Private, Request

LEMMA SeekStep == ASSUME Ext2Inv, NEW t \in Tasks, Seek(t) PROVE Ext2Inv'
<1>1. /\ fs = "mounted" /\ pc[t] = "seek" /\ Goto(t, "transfer") /\ UNCHANGED hands
      /\ UNCHANGED <<globals, file, directory>> /\ UNCHANGED <<fs_tree_lock, io_lock>>
      /\ fpos' = (io[t].lba * LBA_SIZE) % SIZE_LIMIT
  BY DEF Seek, At, hands, transfer, locks
<1>2. Functions' /\ OthersKeep(t) /\ pc'[t] = "transfer"
  BY <1>1, Moved DEF Ext2Inv
<1>3. Private(t) /\ Shared(t)
  BY DEF Ext2Inv
<1>4. Private(t)'
  BY <1>1, <1>2, <1>3 DEF Private, Control, Request, Outcome, Errors, Reading, Asked, Reported,
     Labels, IoLabels, ReadLabels, Active, Node, Misled, Lookups, CurrentBlock, Wild, hands, globals
<1>5. fpos' = io[t].lba * LBA_SIZE /\ fpos' \in Nat
  <2> DEFINE a == io[t].lba * LBA_SIZE
  <2>1. a \in Nat /\ a < SIZE_LIMIT
    BY <1>1, Aimed DEF IoLabels
  <2> HIDE DEF a
  <2>2. a % SIZE_LIMIT = a
    BY <2>1, SizesAssumption
  <2> QED
    BY <1>1, <2>1, <2>2 DEF a
<1>6. Shared(t)'
  BY <1>1, <1>2, <1>3, <1>5 DEF Shared, Looking, Loads, Lists, Active, ReadLabels, IoLabels,
     Fetched, Lost, hands, globals
<1>7. LocksKeep(t)
  BY <1>1, <1>3, ValuesAssumption DEF LocksKeep, Shared
<1> QED
  BY <1>1, <1>2, <1>4, <1>5, <1>6, <1>7, QuietStep
     DEF Loads, Lists, Active, ReadLabels, IoLabels, hands

\* All the sectors of a transfer are copied, or a disk fails and none is.
LEMMA AllOrNothing ==
  ASSUME Ext2Inv, NEW t \in Tasks, fs = "mounted", pc[t] = "transfer",
         NEW n \in Copied(disk, io[t].lba, io[t].count)
  PROVE  /\ n = io[t].count \/ (n = 0 /\ disk.kind = "ata")
         /\ io[t].count # 0
         /\ BdResult(disk, n) \in Int
         /\ BdResult(disk, n) >= io[t].count * LBA_SIZE <=> n = io[t].count
         /\ n = io[t].count => SectorBytes(disk, io[t].lba, n) \in Seq(Nat)
         /\ n = io[t].count /\ job[t] # Idle /\ failed[t] # "none" => Misled(t)
<1> DEFINE lba == io[t].lba
           count == io[t].count
<1>1. /\ lba \in Nat /\ count \in Nat /\ count > 0
      /\ \/ Within(lba, count)
         \/ /\ lba = Wild /\ failed[t] # "none" /\ io[t].back = "data"
            /\ count = block_lba_size(disk)
  BY Aimed DEF IoLabels
<1>2. /\ Private(t) /\ Consistent(disk) /\ Sizes(disk)
      /\ group_descriptors = SectorBytes(disk, gdt_lba(disk), gdt_lba_size(disk))
  BY DisksAssumption DEF Ext2Inv, Types, Descriptors, Consistent
<1>3. /\ disk.start \in Nat /\ block_lba_size(disk) \in Nat /\ LBA_SIZE \in Nat \ {0}
      /\ disk.sectors \in Nat
  BY <1>2, SizeFacts
<1>4. ASSUME n = count, job[t] # Idle, failed[t] # "none", ~Misled(t)
      PROVE  FALSE
  <2>1. /\ io[t].back = "data" /\ lba = Wild /\ failed[t] = "pointers" /\ disk.kind = "ata"
        /\ disk.start < block_lba_size(disk)
    BY <1>2, <1>3, <1>4 DEF Private, Errors, Misled
  <2>2. count = block_lba_size(disk)
    BY <1>2, <2>1 DEF Private, Request, IoLabels
  <2>3. Copied(disk, lba, count) = {0}
    BY <1>2, <2>1, <2>2, WildBlock DEF Wild
  <2> QED
    BY <1>1, <1>4, <2>3
<1>5. CASE Within(lba, count)
  <2>1. /\ SectorOf(disk, lba) = disk.start + lba
        /\ n = count \/ (n = 0 /\ disk.kind = "ata")
        /\ BdResult(disk, n) \in Int
        /\ BdResult(disk, n) >= count * LBA_SIZE <=> n = count
    BY <1>1, <1>2, <1>5, TransferWithin DEF Within
  <2>2. SectorBytes(disk, lba, count) \in Seq(Nat)
    <3>1. CASE io[t].back = "inode"
      <4>1. /\ req[t].inode \in Existing(disk) /\ count = 1
            /\ lba = ItableLba(disk, group_descriptors, req[t].inode)
        BY <1>2, <3>1 DEF Private, Request, IoLabels
      <4> QED
        BY <1>2, <4>1, InodePlace
    <3>2. CASE io[t].back # "inode"
      <4>1. count = block_lba_size(disk)
        BY <1>2, <3>2 DEF Private, Request, IoLabels
      <4>2. SectorOf(disk, lba) \in Nat
        BY <1>1, <1>3, <2>1
      <4> QED
        BY <1>2, <4>1, <4>2, SectorsType
    <3> QED
      BY <3>1, <3>2
  <2> QED
    BY <1>1, <1>4, <2>1, <2>2
<1>6. CASE lba = Wild /\ failed[t] # "none" /\ count = block_lba_size(disk)
  <2>1. disk.kind = "ata" /\ SectorOf(disk, lba) \in Nat
    BY <1>2, <1>6, WildBlock DEF Private, Errors, Wild
  <2>2. n = count \/ n = 0
    BY <2>1, <1>3, <1>6 DEF Copied
  <2>3. BdResult(disk, n) = n * LBA_SIZE
    BY <2>1 DEF BdResult
  <2>4. n \in Nat /\ n * LBA_SIZE \in Int /\ count * LBA_SIZE \in Nat
    BY <1>1, <1>3, <2>2, Product
  <2>5. n = 0 => ~(n * LBA_SIZE >= count * LBA_SIZE)
    <3>1. 0 * LBA_SIZE + LBA_SIZE <= count * LBA_SIZE
      BY <1>1, <1>3, Growing
    <3>2. 0 * LBA_SIZE = 0
      BY <1>3
    <3> DEFINE x == count * LBA_SIZE
    <3> HIDE DEF x
    <3>3. 0 + LBA_SIZE <= x /\ x \in Nat
      BY <2>4, <3>1, <3>2 DEF x
    <3>4. ~(0 >= x)
      BY <1>3, <3>3
    <3> QED
      BY <3>2, <3>4 DEF x
  <2>6. n = count => n * LBA_SIZE >= count * LBA_SIZE
    BY <2>4
  <2>7. SectorBytes(disk, lba, count) \in Seq(Nat)
    BY <1>2, <1>6, <2>1, SectorsType
  <2> QED
    BY <1>1, <1>4, <2>1, <2>2, <2>3, <2>4, <2>5, <2>6, <2>7
<1> QED
  BY <1>1, <1>5, <1>6

LEMMA TransferStep == ASSUME Ext2Inv, NEW t \in Tasks, Transfer(t) PROVE Ext2Inv'
<1> DEFINE lba == io[t].lba
           count == io[t].count
<1>1. /\ fs = "mounted" /\ pc[t] = "transfer" /\ Goto(t, "iounlock")
      /\ UNCHANGED <<globals, file, directory>> /\ UNCHANGED <<fs_tree_lock, io_lock, fpos>>
      /\ UNCHANGED <<req, job, io, buffer, reply>>
  BY DEF Transfer, At, locks
<1>2. Private(t) /\ Shared(t) /\ Functions
  BY DEF Ext2Inv
<1>3. fpos \div LBA_SIZE = lba
  <2>1. fpos = lba * LBA_SIZE /\ lba \in Nat /\ lba * LBA_SIZE \in Nat
    BY <1>1, <1>2, Aimed DEF Shared, IoLabels
  <2>2. LBA_SIZE \in Nat \ {0} /\ 0 \in 0 .. LBA_SIZE - 1
    BY SizesAssumption
  <2>3. (lba * LBA_SIZE + 0) \div LBA_SIZE = lba
    BY <2>1, <2>2, Divided
  <2> DEFINE a == lba * LBA_SIZE
  <2> HIDE DEF a
  <2>4. a + 0 = a
    BY <2>1 DEF a
  <2> QED
    BY <2>1, <2>3, <2>4 DEF a
<1>4. PICK n \in Copied(disk, lba, count) :
        /\ got' = [got EXCEPT ![t] = BdResult(disk, n)]
        /\ block_buffer' = [block_buffer EXCEPT
             ![t] = IF n = 0 THEN @ ELSE SectorBytes(disk, lba, n)]
        /\ failed' = [failed EXCEPT ![t] = IF n = io[t].count THEN @
                                        ELSE IF io[t].back = "pointer" THEN "pointers" ELSE "data"]
  BY <1>3 DEF Transfer
<1>5. /\ n = count \/ (n = 0 /\ disk.kind = "ata")
      /\ count # 0
      /\ BdResult(disk, n) \in Int
      /\ BdResult(disk, n) >= count * LBA_SIZE <=> n = count
      /\ n = count => SectorBytes(disk, lba, n) \in Seq(Nat)
      /\ n = count /\ job[t] # Idle /\ failed[t] # "none" => Misled(t)
  BY <1>1, AllOrNothing
<1> HIDE DEF lba, count
<1>6. /\ got'[t] = BdResult(disk, n)
      /\ n = count => block_buffer'[t] = SectorBytes(disk, lba, count) /\ failed'[t] = failed[t]
      /\ n # count => /\ block_buffer'[t] = block_buffer[t]
                      /\ failed'[t] = IF io[t].back = "pointer" THEN "pointers" ELSE "data"
      /\ pc'[t] = "iounlock"
  BY <1>1, <1>2, <1>4, <1>5 DEF Functions, Goto, count
<1>7. Functions'
  BY <1>1, <1>2, <1>4 DEF Functions, Goto
<1>8. OthersKeep(t)
  BY <1>1, <1>2, <1>4 DEF Functions, Goto, OthersKeep, Kept
<1>9. GotAll(t)' <=> n = count
  BY <1>1, <1>5, <1>6 DEF GotAll, count
<1>10. failed'[t] = "none" => failed[t] = "none" /\ n = count
  BY <1>6
<1>11. Private(t)'
  <2>1. Control(t)'
    BY <1>1, <1>2, <1>5, <1>6 DEF Private, Control, Labels, IoLabels, ReadLabels, Lookups, globals, lba
  <2>2. Request(t)'
    BY <1>1, <1>2, <1>6, <1>10 DEF Private, Request, IoLabels, CurrentBlock, Node, Wild, globals
  <2>3. Outcome(t)'
    BY <1>1, <1>6, <1>9 DEF Outcome, lba, count, globals
  <2>4. Errors(t)'
    <3>1. failed'[t] # "none" => disk'.kind = "ata"
      BY <1>1, <1>2, <1>5, <1>6 DEF Private, Errors, globals
    <3>2. n = count /\ job[t] # Idle /\ failed'[t] # "none" => Misled(t)'
      BY <1>1, <1>5, <1>6 DEF Misled, globals
    <3> QED
      BY <1>1, <1>6, <1>9, <3>1, <3>2 DEF Errors
  <2>5. Reading(t)'
    BY <1>1, <1>2, <1>6, <1>10 DEF Private, Reading, Active, Node, IoLabels, ReadLabels, globals
  <2>6. Asked(t)' /\ Reported(t)'
    BY <1>1, <1>2, <1>6 DEF Private, Asked, Reported, Node, globals
  <2> QED
    BY <2>1, <2>2, <2>3, <2>4, <2>5, <2>6 DEF Private
<1>12. Shared(t)'
  BY <1>1, <1>2, <1>6 DEF Shared, Looking, Loads, Lists, Active, ReadLabels, IoLabels,
     Fetched, Lost, globals
<1>13. LocksKeep(t) /\ fpos' \in Nat
  BY <1>1 DEF LocksKeep, Ext2Inv, Types
<1>14. Loads(t) \/ Lists(t) => (Loads(t) \/ Lists(t))' /\ req'[t] = req[t]
  BY <1>1, <1>6 DEF Loads, Lists, Active, ReadLabels, IoLabels
<1> QED
  BY <1>1, <1>7, <1>8, <1>11, <1>12, <1>13, <1>14, QuietStep

LEMMA CallStep ==
  ASSUME Ext2Inv, NEW t \in Tasks, NEW n \in Lookups, NEW r \in Ranges, Call(t, n, r)
  PROVE  Ext2Inv'
<1>1. /\ fs = "mounted" /\ pc[t] = "idle" /\ Goto(t, "find")
      /\ UNCHANGED <<globals, file, directory>> /\ UNCHANGED <<fs_tree_lock, io_lock, fpos>>
      /\ UNCHANGED <<job, io, block_buffer, got, failed, buffer>>
      /\ req' = [req EXCEPT ![t] = [inode |-> n, off |-> r.off, len |-> r.len]]
      /\ reply' = [reply EXCEPT ![t] = Idle]
  BY DEF Call, At, locks, transfer
<1>2. Private(t) /\ Shared(t) /\ Functions /\ Consistent(disk)
  BY DisksAssumption DEF Ext2Inv, Types
<1>3. /\ req'[t] = [inode |-> n, off |-> r.off, len |-> r.len] /\ pc'[t] = "find"
      /\ req'[t] \in Calls /\ req'[t] # Idle
  <2>1. r \in [off : Nat, len : Nat] /\ n \in Nat
    BY <1>2, RangesAssumption DEF Consistent, Lookups
  <2>2. req'[t] = [inode |-> n, off |-> r.off, len |-> r.len] /\ pc'[t] = "find"
    BY <1>1, <1>2 DEF Functions, Goto
  <2>3. req'[t] \in Calls
    BY <2>1, <2>2 DEF Calls
  <2> QED
    BY <2>2, <2>3, ValuesAssumption DEF Calls
<1>4. Functions' /\ OthersKeep(t)
  BY <1>1, <1>2 DEF Functions, Goto, OthersKeep, Kept
<1>5. Private(t)'
  <2>1. Control(t)'
    BY <1>1, <1>2, <1>3 DEF Private, Control, Labels, IoLabels, ReadLabels, Lookups, globals
  <2>2. Request(t)' /\ Outcome(t)' /\ Reading(t)' /\ Reported(t)'
    BY <1>3 DEF Request, Outcome, Reading, Reported, Active, IoLabels, ReadLabels
  <2>3. Errors(t)'
    BY <1>1, <1>2, <1>3 DEF Private, Control, Errors, globals
  <2>4. Asked(t)'
    BY <1>3, RangesAssumption DEF Asked
  <2> QED
    BY <2>1, <2>2, <2>3, <2>4 DEF Private
<1>6. Shared(t)'
  BY <1>3 DEF Shared, Looking, Loads, Lists, Active, ReadLabels, IoLabels
<1>7. LocksKeep(t) /\ fpos' \in Nat
  BY <1>1 DEF LocksKeep, Ext2Inv, Types
<1> QED
  BY <1>1, <1>4, <1>5, <1>6, <1>7, QuietStep DEF Loads, Lists, Active, ReadLabels, IoLabels

LEMMA TruncatedFits ==
  ASSUME NEW size \in Nat, size < SIZE_LIMIT, NEW off \in Nat, NEW len \in Nat, off <= size
  PROVE  /\ Truncated(size, off, len) \in Nat /\ off + Truncated(size, off, len) <= size
         /\ Truncated(size, off, len) = IF off + len > size THEN size - off ELSE len
<1>1. size - off \in 0 .. SIZE_LIMIT - 1 /\ SIZE_LIMIT \in Nat \ {0}
  BY SizesAssumption
<1> DEFINE r == size - off
<1> HIDE DEF r
<1>2. r % SIZE_LIMIT = r
  BY <1>1 DEF r
<1>3. Truncated(size, off, len) = IF off + len > size THEN size - off ELSE len
  BY <1>2 DEF Truncated, r
<1> QED
  BY <1>3

\* Behind the end of the file the difference wraps around, and nothing is cut.
LEMMA TruncatedWraps ==
  ASSUME NEW size \in Nat, NEW off \in Nat, NEW len \in Nat, off > size, off + len < SIZE_LIMIT
  PROVE  Truncated(size, off, len) \in Nat /\ Truncated(size, off, len) > len
<1>1. SIZE_LIMIT \in Nat \ {0} /\ size - off \in -SIZE_LIMIT .. -1
  BY SizesAssumption
<1> DEFINE r == size - off
<1> HIDE DEF r
<1>2. r % SIZE_LIMIT = r + SIZE_LIMIT
  BY <1>1 DEF r
<1>3. Truncated(size, off, len) = (size - off) + SIZE_LIMIT
  BY <1>2 DEF Truncated, r
<1> QED
  BY <1>1, <1>3

LEMMA TruncatedNat ==
  ASSUME NEW size \in Nat, size < SIZE_LIMIT, NEW off \in Nat, NEW len \in Nat,
         off + len < SIZE_LIMIT \/ off <= size
  PROVE  Truncated(size, off, len) \in Nat
<1>1. CASE off <= size
  BY <1>1, TruncatedFits
<1>2. CASE off > size
  BY <1>2, TruncatedWraps
<1> QED
  BY <1>1, <1>2

\* A task that begins an ext2_read() has what it needs.
LEMMA Started ==
  ASSUME Ext2Inv, NEW t \in Tasks, NEW for \in {"dir", "read"}, NEW off \in Nat, NEW len \in Nat,
         StartRead(t, for, Node(t).size, off, len), UNCHANGED <<globals, req, reply>>,
         pc[t] # "idle", req[t].inode \in Existing(disk),
         for = "read" => off = req[t].off /\ len = req[t].len /\ Node(t).type # "dir",
         for = "dir" => off = 0 /\ len = Node(t).size /\ Node(t).type = "dir"
  PROVE  /\ Functions' /\ OthersKeep(t) /\ Private(t)'
         /\ job'[t] # Idle /\ job'[t].for = for /\ pc'[t] = "loop"
<1> DEFINE j == [for |-> for, off |-> off, len |-> Truncated(Node(t).size, off, len)]
<1>1. /\ job' = [job EXCEPT ![t] = j]
      /\ buffer' = [buffer EXCEPT ![t] = <<>>]
      /\ block_buffer' = [block_buffer EXCEPT ![t] = <<>>]
      /\ failed' = [failed EXCEPT ![t] = "none"]
      /\ pc' = [pc EXCEPT ![t] = "loop"]
      /\ io' = io /\ got' = got /\ req' = req /\ reply' = reply /\ disk' = disk
  BY DEF StartRead, Goto, globals
<1>2. Private(t) /\ Functions /\ Consistent(disk)
  BY DisksAssumption DEF Ext2Inv, Types
<1>3. Node(t).size \in Nat /\ Node(t).size < SIZE_LIMIT
  BY <1>2, InodeSize DEF Node, Existing
<1> DEFINE n == Truncated(Node(t).size, off, len)
<1>4. n \in Nat /\ (for = "dir" => n = Node(t).size) /\ (for = "read" => req[t].len \in Nat)
  <2>1. CASE for = "dir"
    BY <1>3, <2>1, TruncatedFits
  <2>2. CASE for = "read"
    <3>1. req[t].off + req[t].len < SIZE_LIMIT /\ req[t] \in Calls
      BY <1>2 DEF Private, Asked, Control
    <3> QED
      BY <1>3, <2>2, <3>1, TruncatedNat DEF Calls
  <2> QED
    BY <2>1, <2>2
<1> HIDE DEF n
<1>5. j \in Jobs /\ j # Idle
  <2>1. j = [for |-> for, off |-> off, len |-> n]
    BY DEF n
  <2> HIDE DEF j
  <2>2. j \in Jobs
    BY <1>4, <2>1 DEF Jobs
  <2> QED
    BY <2>2, ValuesAssumption DEF Jobs
<1>6. j.for = for /\ j.off = off /\ j.len = n
  BY DEF n
<1> HIDE DEF j
<1>7. /\ job'[t] = j /\ buffer'[t] = <<>> /\ block_buffer'[t] = <<>> /\ failed'[t] = "none"
      /\ pc'[t] = "loop"
  BY <1>1, <1>2 DEF Functions
<1>8. Functions' /\ OthersKeep(t)
  BY <1>1, <1>2 DEF Functions, OthersKeep, Kept
<1>9. Control(t)'
  BY <1>1, <1>2, <1>5, <1>7 DEF Private, Control, Labels, IoLabels, ReadLabels, Lookups
<1>10. Request(t)' /\ Outcome(t)' /\ Errors(t)' /\ Reported(t)'
  BY <1>7 DEF Request, Outcome, Errors, Reported, IoLabels
<1>11. Reading(t)'
  <2>1. Len(buffer'[t]) = 0
    BY <1>7
  <2>2. Len(buffer'[t]) <= n /\ \A i \in 1 .. Len(buffer'[t]) : FALSE
    BY <1>4, <2>1
  <2>3. job'[t].for = "read" => job'[t].len = Truncated(Node(t).size, req[t].off, req[t].len)
    BY <1>6, <1>7 DEF n
  <2>4. Node(t)' = Node(t)
    BY <1>1 DEF Node
  <2> QED
    BY <1>1, <1>4, <1>6, <1>7, <2>2, <2>3, <2>4 DEF Reading
<1>12. Asked(t)'
  BY <1>1, <1>2 DEF Private, Asked, Node
<1> QED
  BY <1>5, <1>6, <1>7, <1>8, <1>9, <1>10, <1>11, <1>12 DEF Private

\* A task that returns has told what went wrong.
LEMMA Returned ==
  ASSUME Ext2Inv, NEW t \in Tasks, fs = "mounted", NEW value, Return(t, value),
         UNCHANGED <<globals, fpos, locks, file, directory>>, ~Loads(t), ~Lists(t),
         failed[t] # "none" /\ ~Misled(t) => value \in {Idle, EIO, EISDIR, Garbage}
  PROVE  Ext2Inv'
<1>1. /\ reply' = [reply EXCEPT ![t] = value]
      /\ req' = [req EXCEPT ![t] = Idle] /\ job' = [job EXCEPT ![t] = Idle]
      /\ buffer' = [buffer EXCEPT ![t] = <<>>]
      /\ block_buffer' = [block_buffer EXCEPT ![t] = <<>>]
      /\ io' = [io EXCEPT ![t] = Idle] /\ got' = [got EXCEPT ![t] = 0]
      /\ pc' = [pc EXCEPT ![t] = "idle"]
      /\ failed' = failed /\ disk' = disk
      /\ fs_tree_lock' = fs_tree_lock /\ io_lock' = io_lock /\ fpos' = fpos
  BY DEF Return, Goto, globals, locks
<1>2. Private(t) /\ Functions
  BY DEF Ext2Inv
<1>3. /\ reply'[t] = value /\ req'[t] = Idle /\ job'[t] = Idle /\ buffer'[t] = <<>>
      /\ block_buffer'[t] = <<>> /\ io'[t] = Idle /\ got'[t] = 0 /\ pc'[t] = "idle"
      /\ failed'[t] = failed[t]
  BY <1>1, <1>2 DEF Functions
<1>4. Functions' /\ OthersKeep(t)
  BY <1>1, <1>2 DEF Functions, OthersKeep, Kept
<1>5. Private(t)'
  <2>1. Control(t)'
    BY <1>2, <1>3 DEF Private, Control, Labels, IoLabels, ReadLabels
  <2>2. Request(t)' /\ Outcome(t)' /\ Reading(t)' /\ Asked(t)'
    BY <1>3 DEF Request, Outcome, Reading, Asked, Active, IoLabels, ReadLabels
  <2>3. Errors(t)'
    BY <1>1, <1>2, <1>3 DEF Private, Errors
  <2>4. Reported(t)'
    BY <1>1, <1>3 DEF Reported, Misled
  <2> QED
    BY <2>1, <2>2, <2>3, <2>4 DEF Private
<1>6. Shared(t)'
  BY <1>3 DEF Shared, Looking, Loads, Lists, Active, ReadLabels, IoLabels
<1>7. LocksKeep(t) /\ fpos' \in Nat
  BY <1>1 DEF LocksKeep, Ext2Inv, Types
<1> QED
  BY <1>4, <1>5, <1>6, <1>7, QuietStep

\* The inode in memory is the one on the disk.
LEMMA InodeOf ==
  ASSUME Ext2Inv, NEW t \in Tasks, Fetched(req[t].inode)
  PROVE  Inode(t) = Node(t)
<1>1. Consistent(disk)
  BY DisksAssumption DEF Ext2Inv, Types
<1> QED
  BY <1>1, InodeThere DEF Inode, Fetched, Node

LEMMA OpenStep == ASSUME Ext2Inv, NEW t \in Tasks, Open(t) PROVE Ext2Inv'
<1> DEFINE n == req[t].inode
<1>1. /\ fs = "mounted" /\ pc[t] = "opened" /\ UNCHANGED <<globals, fpos, locks, file, directory>>
  BY DEF Open, At
<1>2. Private(t) /\ Shared(t) /\ Functions
  BY DEF Ext2Inv
<1>3. ~Loads(t) /\ ~Lists(t)
  BY <1>1 DEF Loads, Lists, Active, IoLabels, ReadLabels
<1>4. CASE Lost(n)
  <2>1. Return(t, Garbage)
    BY <1>4 DEF Open
  <2> QED
    BY <1>1, <1>3, <2>1, Returned
<1>5. CASE ~Lost(n)
  <2>1. Fetched(n) /\ Inode(t) = Node(t)
    BY <1>1, <1>2, <1>5, InodeOf DEF Shared, Whole, Lost
  <2>2. CASE Node(t).type = "dir"
    <3>1. Return(t, EISDIR)
      BY <1>5, <2>1, <2>2 DEF Open
    <3> QED
      BY <1>1, <1>3, <3>1, Returned
  <2>3. CASE Node(t).type # "dir"
    <3>1. StartRead(t, "read", Node(t).size, req[t].off, req[t].len) /\ req' = req /\ reply' = reply
      BY <1>5, <2>1, <2>3 DEF Open
    <3>2. req[t].off \in Nat /\ req[t].len \in Nat
      BY <1>1, <1>2 DEF Private, Control, Calls
    <3>3. /\ Functions' /\ OthersKeep(t) /\ Private(t)'
          /\ job'[t] # Idle /\ job'[t].for = "read" /\ pc'[t] = "loop"
      BY <1>1, <2>1, <2>3, <3>1, <3>2, Started DEF Fetched
    <3>4. Shared(t)'
      BY <1>1, <1>5, <2>1, <3>1, <3>3 DEF Shared, Looking, Loads, Lists, Active, IoLabels,
         ReadLabels, Fetched, Lost, globals
    <3>5. LocksKeep(t) /\ fpos' \in Nat
      BY <1>1 DEF LocksKeep, Ext2Inv, Types, locks
    <3> QED
      BY <1>1, <1>3, <3>3, <3>4, <3>5, QuietStep
  <2> QED
    BY <2>2, <2>3
<1> QED
  BY <1>4, <1>5

\* An ext2_read() asks for a block of its file.
LEMMA Requested ==
  ASSUME Ext2Inv, NEW t \in Tasks, fs = "mounted", NEW lba \in Nat, NEW back \in {"pointer", "data"},
         GetBlock(t, lba, block_lba_size(disk), back),
         UNCHANGED <<globals, fpos, locks, file, directory, req, job, failed, buffer, reply>>,
         pc[t] \in {"loop", "pointer"}, Len(buffer[t]) < job[t].len,
         CurrentBlock(t) < NDIR_BLOCKS + ptrs_per_block(disk),
         back = "pointer" => /\ CurrentBlock(t) >= NDIR_BLOCKS
                             /\ lba = Node(t).i_block[NDIR_BLOCKS + 1] * block_lba_size(disk),
         back = "data" => \/ lba = FileBlock(disk, Node(t), CurrentBlock(t)) * block_lba_size(disk)
                          \/ lba = Wild /\ failed[t] # "none",
         failed[t] # "none" /\ ~Misled(t) => back = "data" /\ lba = Wild /\ failed[t] = "pointers"
  PROVE  Ext2Inv'
<1> DEFINE x == [lba |-> lba, count |-> block_lba_size(disk), back |-> back]
<1>1. /\ io' = [io EXCEPT ![t] = x] /\ pc' = [pc EXCEPT ![t] = "io"]
      /\ block_buffer' = block_buffer /\ got' = got
      /\ req' = req /\ job' = job /\ failed' = failed /\ buffer' = buffer /\ reply' = reply
      /\ disk' = disk /\ fs_tree_lock' = fs_tree_lock /\ io_lock' = io_lock /\ fpos' = fpos
      /\ file' = file /\ directory' = directory
  BY DEF GetBlock, Goto, globals, locks
<1>2. Private(t) /\ Shared(t) /\ Functions /\ Sizes(disk)
  BY DisksAssumption DEF Ext2Inv, Types, Consistent
<1>3. x \in Transfers /\ x.lba = lba /\ x.count = block_lba_size(disk) /\ x.back = back
  <2>1. block_lba_size(disk) \in Nat
    BY <1>2, SizeFacts
  <2> QED
    BY <2>1 DEF Transfers
<1> HIDE DEF x
<1>4. io'[t] = x /\ pc'[t] = "io"
  BY <1>1, <1>2 DEF Functions
<1>5. Functions' /\ OthersKeep(t)
  BY <1>1, <1>2 DEF Functions, OthersKeep, Kept
<1>6. job[t] # Idle
  BY <1>2 DEF Private, Control
<1>8. Private(t)'
  <2>1. Control(t)'
    BY <1>1, <1>2, <1>3, <1>4, <1>6 DEF Private, Control, Labels, IoLabels, ReadLabels, Lookups
  <2>2. Request(t)'
    BY <1>1, <1>3, <1>4 DEF Request, CurrentBlock, Node, Wild
  <2>3. Outcome(t)' /\ Reported(t)'
    BY <1>4 DEF Outcome, Reported
  <2>4. Errors(t)'
    BY <1>1, <1>2, <1>3, <1>4 DEF Private, Errors, Misled, Wild
  <2>5. Reading(t)' /\ Asked(t)'
    BY <1>1, <1>2, <1>4, <1>6 DEF Private, Reading, Asked, Active, Node, IoLabels, ReadLabels
  <2> QED
    BY <2>1, <2>2, <2>3, <2>4, <2>5 DEF Private
<1>9. Shared(t)'
  BY <1>1, <1>2, <1>4, <1>6 DEF Shared, Looking, Loads, Lists, Active, IoLabels, ReadLabels,
     Fetched, Lost
<1>10. LocksKeep(t) /\ fpos' \in Nat
  BY <1>1 DEF LocksKeep, Ext2Inv, Types
<1>11. Loads(t) \/ Lists(t) => (Loads(t) \/ Lists(t))' /\ req'[t] = req[t]
  BY <1>1, <1>4, <1>6 DEF Loads, Lists, Active, IoLabels, ReadLabels
<1> QED
  BY <1>5, <1>8, <1>9, <1>10, <1>11, QuietStep

\* What a read that has not ended knows about its inode.
LEMMA ReadsInode ==
  ASSUME Ext2Inv, NEW t \in Tasks, Active(t), Len(buffer[t]) < job[t].len
  PROVE  /\ Inode(t) = Node(t) /\ Consistent(disk) /\ Sizes(disk)
         /\ NDIR_BLOCKS \in Nat
         /\ OnDisk(disk, Node(t).i_block[NDIR_BLOCKS + 1])
         /\ CurrentBlock(t) < NDIR_BLOCKS + ptrs_per_block(disk) =>
              OnDisk(disk, FileBlock(disk, Node(t), CurrentBlock(t)))
<1>1. Consistent(disk) /\ req[t].inode \in Lookups /\ CurrentBlock(t) \in Nat
  BY BlockOfFile
<1>2. Fetched(req[t].inode)
  <2>1. Private(t) /\ Shared(t)
    BY DEF Ext2Inv
  <2> QED
    BY <2>1 DEF Private, Control, Shared, Active, Lists, Jobs
<1>3. Inode(t) = Node(t)
  BY <1>2, InodeOf
<1>4. NDIR_BLOCKS \in Nat /\ NDIR_BLOCKS + 1 \in 1 .. NDIR_BLOCKS + 1 /\ disk.block_size \in Nat
  BY <1>1, FileSizes
<1>5. OnDisk(disk, Node(t).i_block[NDIR_BLOCKS + 1])
  BY <1>1, <1>4 DEF Consistent, Node, Lookups
<1>6. CurrentBlock(t) < NDIR_BLOCKS + ptrs_per_block(disk) =>
        OnDisk(disk, FileBlock(disk, Node(t), CurrentBlock(t)))
  BY <1>1, FileBlocks DEF Node, Lookups
<1> QED
  BY <1>1, <1>3, <1>4, <1>5, <1>6 DEF Consistent

LEMMA ReadDirectStep == ASSUME Ext2Inv, NEW t \in Tasks, ReadDirect(t) PROVE Ext2Inv'
<1> DEFINE b == Inode(t).i_block[CurrentBlock(t) + 1]
<1>1. /\ fs = "mounted" /\ pc[t] = "loop" /\ Len(buffer[t]) < job[t].len
      /\ CurrentBlock(t) < NDIR_BLOCKS
      /\ GetBlock(t, BlockLba(disk, b), block_lba_size(disk), "data")
      /\ UNCHANGED <<globals, fpos, locks, file, directory, req, job, failed, buffer, reply>>
  BY DEF ReadDirect, More, At
<1>2. Active(t) /\ Errors(t)
  BY <1>1 DEF Ext2Inv, Private, Control, Active, ReadLabels
<1>3. CurrentBlock(t) \in Nat /\ Inode(t) = Node(t) /\ Consistent(disk) /\ Sizes(disk)
  BY <1>1, <1>2, BlockOfFile, ReadsInode
<1>4. CurrentBlock(t) < NDIR_BLOCKS + ptrs_per_block(disk)
  BY <1>1, <1>3, FileSizes
<1>5. b = FileBlock(disk, Node(t), CurrentBlock(t))
  BY <1>1, <1>3 DEF FileBlock
<1>6. OnDisk(disk, b)
  BY <1>1, <1>2, <1>4, <1>5, ReadsInode
<1>7. BlockLba(disk, b) = b * block_lba_size(disk) /\ b * block_lba_size(disk) \in Nat
  BY <1>3, <1>6, BlockOnDisk
<1>8. ~(failed[t] # "none" /\ ~Misled(t))
  BY <1>1, <1>2 DEF Errors, Active
<1> HIDE DEF b
<1> QED
  BY <1>1, <1>4, <1>5, <1>7, <1>8, Requested

LEMMA ReadIndirectStep == ASSUME Ext2Inv, NEW t \in Tasks, ReadIndirect(t) PROVE Ext2Inv'
<1> DEFINE b == Inode(t).i_block[NDIR_BLOCKS + 1]
<1>1. /\ fs = "mounted" /\ pc[t] = "loop" /\ Len(buffer[t]) < job[t].len
      /\ CurrentBlock(t) >= NDIR_BLOCKS /\ CurrentBlock(t) < NDIR_BLOCKS + ptrs_per_block(disk)
      /\ GetBlock(t, b * block_lba_size(disk), block_lba_size(disk), "pointer")
      /\ UNCHANGED <<globals, fpos, locks, file, directory, req, job, failed, buffer, reply>>
  BY DEF ReadIndirect, More, At
<1>2. Active(t) /\ Errors(t)
  BY <1>1 DEF Ext2Inv, Private, Control, Active, ReadLabels
<1>3. Inode(t) = Node(t) /\ Sizes(disk) /\ OnDisk(disk, b)
  BY <1>1, <1>2, ReadsInode
<1>4. b * block_lba_size(disk) \in Nat /\ b = Node(t).i_block[NDIR_BLOCKS + 1]
  BY <1>3, BlockOnDisk
<1>5. ~(failed[t] # "none" /\ ~Misled(t))
  BY <1>1, <1>2 DEF Errors, Active
<1> HIDE DEF b
<1> QED
  BY <1>1, <1>4, <1>5, Requested

LEMMA FollowPointerStep == ASSUME Ext2Inv, NEW t \in Tasks, FollowPointer(t) PROVE Ext2Inv'
<1> DEFINE i == CurrentBlock(t) - NDIR_BLOCKS
           a == block_buffer[t][i * PTR_BYTES + 1]
           b == IF GotAll(t) THEN PointerAt(disk, a) ELSE SIZE_LIMIT - 1
           p == Node(t).i_block[NDIR_BLOCKS + 1]
<1>1. /\ fs = "mounted" /\ pc[t] = "pointer"
      /\ GetBlock(t, BlockLba(disk, b), block_lba_size(disk), "data")
      /\ UNCHANGED <<globals, fpos, locks, file, directory, req, job, failed, buffer, reply>>
  BY DEF FollowPointer, At
<1>2. Private(t) /\ Active(t) /\ io[t].back = "pointer"
  BY <1>1 DEF Ext2Inv, Private, Control, Active, ReadLabels
<1>3. /\ Len(buffer[t]) < job[t].len /\ CurrentBlock(t) >= NDIR_BLOCKS
      /\ CurrentBlock(t) < NDIR_BLOCKS + ptrs_per_block(disk)
      /\ io[t].count = block_lba_size(disk)
      /\ io[t].lba = p * block_lba_size(disk)
  BY <1>1, <1>2 DEF Private, Request
<1>4. CurrentBlock(t) \in Nat /\ Consistent(disk) /\ Sizes(disk) /\ NDIR_BLOCKS \in Nat
      /\ OnDisk(disk, p)
      /\ OnDisk(disk, FileBlock(disk, Node(t), CurrentBlock(t)))
  BY <1>2, <1>3, BlockOfFile, ReadsInode
<1>5. CASE GotAll(t)
  <2>1. block_buffer[t] = SectorBytes(disk, p * block_lba_size(disk), block_lba_size(disk))
    BY <1>1, <1>2, <1>3, <1>5 DEF Private, Outcome
  <2>2. i \in Nat /\ i < ptrs_per_block(disk) /\ ~(CurrentBlock(t) < NDIR_BLOCKS)
    <3>1. ptrs_per_block(disk) \in Nat
      BY <1>4, FileSizes
    <3> QED
      BY <3>1, <1>3, <1>4
  <2>3. b = IF p \in DOMAIN disk.pointers THEN disk.pointers[p][i + 1] ELSE 0
    <3> HIDE DEF i, p
    <3> QED
      BY <1>4, <1>5, <2>1, <2>2, PointerThere
  <2>4. b = FileBlock(disk, Node(t), CurrentBlock(t))
    BY <2>2, <2>3 DEF FileBlock
  <2>5. BlockLba(disk, b) = b * block_lba_size(disk) /\ b * block_lba_size(disk) \in Nat
    BY <1>4, <2>4, BlockOnDisk
  <2>6. ~(failed[t] # "none" /\ ~Misled(t))
    BY <1>1, <1>2, <1>5 DEF Private, Errors, Active
  <2> HIDE DEF b
  <2> QED
    BY <1>1, <1>3, <2>4, <2>5, <2>6, Requested
<1>6. CASE ~GotAll(t)
  <2>1. failed[t] = "pointers"
    BY <1>1, <1>2, <1>6 DEF Private, Outcome
  <2>2. BlockLba(disk, b) = Wild
    BY <1>6 DEF Wild
  <2>3. Wild \in Nat
    BY <1>4, WildBlock DEF Wild
  <2> HIDE DEF b
  <2> QED
    BY <1>1, <1>3, <2>1, <2>2, <2>3, Requested
<1> QED
  BY <1>5, <1>6

\* ext2_fetch_dir() goes on with what its read has brought.
LEMMA ParseStep ==
  ASSUME Ext2Inv, NEW t \in Tasks, fs = "mounted", pc[t] \in {"data", "loop"}, job[t].for = "dir",
         Goto(t, "parse"), UNCHANGED <<req, job, transfer, buffer, reply>>,
         UNCHANGED <<globals, fpos, locks, file, directory>>
  PROVE  Ext2Inv'
<1>1. /\ UNCHANGED hands /\ UNCHANGED <<globals, file, directory>>
      /\ fs_tree_lock' = fs_tree_lock /\ io_lock' = io_lock /\ fpos' = fpos
  BY DEF hands, transfer, locks
<1>2. Functions' /\ OthersKeep(t) /\ pc'[t] = "parse"
  BY <1>1, Moved DEF Ext2Inv
<1>3. Private(t) /\ Shared(t)
  BY DEF Ext2Inv
<1>4. job[t] # Idle
  BY <1>3 DEF Private, Control
<1>5. Private(t)'
  BY <1>1, <1>2, <1>3, <1>4 DEF Private, Control, Request, Outcome, Errors, Reading, Asked,
     Reported, Labels, IoLabels, ReadLabels, Active, Node, Misled, Lookups, hands, globals
<1>6. Shared(t)'
  BY <1>1, <1>2, <1>3, <1>4 DEF Shared, Looking, Loads, Lists, Active, ReadLabels, IoLabels,
     Fetched, Lost, hands, globals
<1>7. LocksKeep(t) /\ fpos' \in Nat
  BY <1>1 DEF LocksKeep, Ext2Inv, Types
<1>8. Lists(t)' /\ req'[t] = req[t]
  BY <1>1, <1>2, <1>4 DEF Lists, Active, ReadLabels, hands
<1> QED
  BY <1>1, <1>2, <1>5, <1>6, <1>7, <1>8, QuietStep

LEMMA ReadDoneStep == ASSUME Ext2Inv, NEW t \in Tasks, ReadDone(t) PROVE Ext2Inv'
<1>1. fs = "mounted" /\ pc[t] = "loop" /\ UNCHANGED <<globals, fpos, locks, file, directory>>
  BY DEF ReadDone, At
<1>2. Private(t) /\ Shared(t)
  BY DEF Ext2Inv
<1>3. CASE job[t].for = "dir"
  BY <1>1, <1>3, ParseStep DEF ReadDone
<1>4. CASE job[t].for # "dir"
  <2>1. Return(t, buffer[t])
    BY <1>4 DEF ReadDone
  <2>2. ~(failed[t] # "none" /\ ~Misled(t))
    BY <1>1, <1>2 DEF Private, Control, Errors
  <2>3. ~Loads(t) /\ ~Lists(t)
    BY <1>1, <1>4 DEF Loads, Lists, IoLabels
  <2> QED
    BY <1>1, <2>1, <2>2, <2>3, Returned
<1> QED
  BY <1>3, <1>4

\* The block that has been read is as long as a block, and the file's unless a
\* transfer has failed.
LEMMA BlockRead ==
  ASSUME Ext2Inv, NEW t \in Tasks, fs = "mounted", pc[t] = "data", GotAll(t)
  PROVE  /\ block_buffer[t] \in Seq(Nat) /\ Len(block_buffer[t]) = disk.block_size
         /\ failed[t] = "none" =>
              \A k \in 0 .. disk.block_size - 1 :
                block_buffer[t][k + 1] = BlockAddr(disk, FileBlock(disk, Node(t), CurrentBlock(t))) + k
<1> DEFINE b == FileBlock(disk, Node(t), CurrentBlock(t))
           bls == block_lba_size(disk)
<1>1. Private(t) /\ Active(t) /\ io[t].back = "data"
  BY DEF Ext2Inv, Private, Control, Active, ReadLabels
<1>2. /\ Len(buffer[t]) < job[t].len /\ CurrentBlock(t) < NDIR_BLOCKS + ptrs_per_block(disk)
      /\ io[t].count = bls
      /\ io[t].lba = b * bls \/ (io[t].lba = Wild /\ failed[t] # "none")
      /\ block_buffer[t] = SectorBytes(disk, io[t].lba, bls)
  BY <1>1 DEF Private, Request, Outcome
<1>3. Consistent(disk) /\ Sizes(disk) /\ OnDisk(disk, b)
  BY <1>1, <1>2, ReadsInode
<1> HIDE DEF b
<1>4. CASE io[t].lba = b * bls
  BY <1>2, <1>3, <1>4, BlockBytes DEF b
<1>5. CASE io[t].lba = Wild /\ failed[t] # "none"
  <2>1. SectorOf(disk, io[t].lba) \in Nat
    BY <1>1, <1>3, <1>5, WildBlock DEF Private, Errors, Wild
  <2> QED
    BY <1>2, <1>3, <1>5, <2>1, SectorsType
<1> QED
  BY <1>2, <1>4, <1>5

\* How much of the block is copied, and from where.
LEMMA RoundOf ==
  ASSUME Ext2Inv, NEW t \in Tasks, fs = "mounted", pc[t] = "data"
  PROVE  Round(disk, job[t].off, job[t].len, Len(buffer[t]), CurrentBlock(t), BbOffset(t), CpySize(t))
<1> DEFINE bs == disk.block_size
           off == job[t].off
           len == job[t].len
           l == Len(buffer[t])
           bbo == BbOffset(t)
<1>1. Private(t) /\ Active(t) /\ io[t].back = "data"
  BY DEF Ext2Inv, Private, Control, Active, ReadLabels
<1>2. l < len /\ CurrentBlock(t) < NDIR_BLOCKS + ptrs_per_block(disk)
  BY <1>1 DEF Private, Request
<1>3. off \in Nat /\ len \in Nat /\ l \in Nat /\ bs \in Nat \ {0}
  BY <1>1, <1>2, BlockOfFile, FileSizes
<1>4. buffer[t] = <<>> <=> l = 0
  <2>1. buffer[t] \in Seq(Nat)
    BY <1>1 DEF Private, Control
  <2> QED
    BY <2>1
<1>5. l = 0 \/ (off + l) % bs = 0
  <2>1. buffer[t] = <<>> \/ l = len \/ (off + l) % bs = 0
    BY <1>1 DEF Private, Reading
  <2> QED
    BY <1>2, <1>3, <1>4, <2>1
<1>6. bbo = IF l = 0 THEN off % bs ELSE 0
  BY <1>4 DEF BbOffset
<1>7. /\ CpySize(t) = IF l + (bs - bbo) - len > 0 THEN (bs - bbo) - (l + (bs - bbo) - len)
                      ELSE bs - bbo
      /\ CurrentBlock(t) = (off + l) \div bs
  BY DEF CpySize, CurrentBlock
<1> HIDE DEF bs, off, len, l, bbo
<1>8. /\ bbo \in 0 .. bs - 1 /\ CurrentBlock(t) \in Nat /\ off + l = CurrentBlock(t) * bs + bbo
      /\ CpySize(t) \in Nat \ {0} /\ l + CpySize(t) <= len /\ bbo + CpySize(t) <= bs
      /\ l + CpySize(t) = len \/ bbo + CpySize(t) = bs
  <2> DEFINE x == off + l
             c == CpySize(t)
             cb == CurrentBlock(t)
  <2>1. x \in Nat /\ bbo = x % bs
    BY <1>3, <1>5, <1>6
  <2>2. cb = x \div bs
    BY <1>7
  <2> HIDE DEF x
  <2>3. x = (x \div bs) * bs + (x % bs) /\ x \div bs \in Nat /\ x % bs \in 0 .. bs - 1
    BY <1>3, <2>1, DivMod
  <2>4. bbo \in 0 .. bs - 1 /\ cb \in Nat /\ x = cb * bs + bbo
    BY <2>1, <2>2, <2>3
  <2>5. /\ c \in Nat \ {0} /\ l + c <= len /\ bbo + c <= bs
        /\ l + c = len \/ bbo + c = bs
    BY <1>2, <1>3, <1>7, <2>4
  <2> QED
    BY <2>4, <2>5 DEF x
<1> QED
  BY <1>2, <1>8 DEF Round, Start, bs, off, len, l, bbo

LEMMA CopyBlockStep == ASSUME Ext2Inv, NEW t \in Tasks, CopyBlock(t) PROVE Ext2Inv'
<1>1. fs = "mounted" /\ pc[t] = "data" /\ UNCHANGED <<globals, fpos, locks, file, directory>>
  BY DEF CopyBlock, At
<1>2. Private(t) /\ Shared(t) /\ Functions /\ Active(t)
  BY <1>1 DEF Ext2Inv, Private, Control, Active, ReadLabels
<1>3. CASE ~GotAll(t) /\ job[t].for = "dir"
  BY <1>1, <1>3, ParseStep DEF CopyBlock
<1>4. CASE ~GotAll(t) /\ job[t].for # "dir"
  <2>1. Return(t, EIO)
    BY <1>4 DEF CopyBlock
  <2>2. ~Loads(t) /\ ~Lists(t)
    BY <1>1, <1>4 DEF Loads, Lists, IoLabels
  <2> QED
    BY <1>1, <2>1, <2>2, Returned
<1>5. CASE GotAll(t)
  <2> DEFINE bb == block_buffer[t]
             bbo == BbOffset(t)
             c == CpySize(t)
             part == SubSeq(bb, bbo + 1, bbo + c)
             cb == CurrentBlock(t)
             n == req[t].inode
             new == buffer[t] \o part
  <2>1. /\ buffer' = [buffer EXCEPT ![t] = new] /\ pc' = [pc EXCEPT ![t] = "loop"]
        /\ req' = req /\ job' = job /\ io' = io /\ block_buffer' = block_buffer /\ got' = got
        /\ failed' = failed /\ reply' = reply
        /\ disk' = disk /\ fs_tree_lock' = fs_tree_lock /\ io_lock' = io_lock /\ fpos' = fpos
        /\ file' = file /\ directory' = directory
    BY <1>1, <1>5 DEF CopyBlock, Goto, transfer, globals, locks
  <2>2. Round(disk, job[t].off, job[t].len, Len(buffer[t]), cb, bbo, c)
    BY <1>1, RoundOf
  <2>3. /\ bb \in Seq(Nat) /\ Len(bb) = disk.block_size
        /\ failed[t] = "none" =>
             \A k \in 0 .. disk.block_size - 1 :
               bb[k + 1] = BlockAddr(disk, FileBlock(disk, Node(t), cb)) + k
    BY <1>1, <1>5, BlockRead
  <2>4. bbo \in Nat /\ c \in Nat \ {0} /\ bbo + c <= Len(bb)
    <3>1. disk.block_size \in Nat
      BY DisksAssumption, FileSizes DEF Ext2Inv, Types
    <3> QED
      BY <2>2, <2>3, <3>1 DEF Round
  <2>5. part \in Seq(Nat) /\ Len(part) = c /\ \A m \in 1 .. c : part[m] = bb[bbo + m]
    <3> HIDE DEF bb, bbo, c
    <3> QED
      BY <2>3, <2>4, PartOf
  <2>6. /\ Consistent(disk) /\ n \in DOMAIN disk.inodes /\ job[t].off \in Nat /\ job[t].len \in Nat
        /\ buffer[t] \in Seq(Nat)
    <3>1. Len(buffer[t]) < job[t].len /\ buffer[t] \in Seq(Nat)
      BY <1>1, <1>2 DEF Private, Control, Request
    <3> QED
      BY <1>2, <3>1, BlockOfFile DEF Private, Reading, Node, Lookups
  <2> DEFINE off == job[t].off
             len == job[t].len
             l == Len(buffer[t])
  <2>7. /\ new \in Seq(Nat) /\ Len(new) <= len /\ new # <<>>
        /\ Len(new) = len \/ (off + Len(new)) % disk.block_size = 0
        /\ off + Len(new) <= Reach(disk)
        /\ (\A k \in 0 .. disk.block_size - 1 :
              bb[k + 1] = BlockAddr(disk, FileBlock(disk, disk.inodes[n], cb)) + k) =>
             \A i \in 1 .. Len(new) :
               new[i] = IF i <= l THEN buffer[t][i] ELSE StoredAt(disk, disk.inodes[n], off + i)
    <3> DEFINE buf == buffer[t]
    <3>1. Round(disk, off, len, Len(buf), cb, bbo, Len(part))
      BY <2>2, <2>5
    <3>2. \A m \in 1 .. Len(part) : part[m] = bb[bbo + m]
      BY <2>5
    <3>3. buf \in Seq(Nat) /\ off \in Nat /\ len \in Nat /\ part \in Seq(Nat)
      BY <2>5, <2>6
    <3> HIDE DEF buf, part, bb, bbo, cb, off, len, n
    <3>4. Appended(disk, n, off, len, buf, bb, part, cb)
      BY <2>6, <3>1, <3>2, <3>3, CopyRound DEF n
    <3> QED
      BY <3>4 DEF Appended, buf
  <2>8. failed[t] = "none" =>
          \A i \in 1 .. Len(new) : new[i] = StoredAt(disk, disk.inodes[n], off + i)
    <3>1. failed[t] = "none" => \A i \in 1 .. l : buffer[t][i] = StoredAt(disk, disk.inodes[n], off + i)
      BY <1>2 DEF Private, Reading, Node
    <3>2. l \in Nat /\ Len(new) \in Nat
      BY <2>6, <2>7
    <3> HIDE DEF new, l, bb, cb, off
    <3> QED
      BY <2>3, <2>7, <3>1, <3>2 DEF Node
  <2>15. job[t].for = "read" => Len(new) <= req[t].len
    <3>1. Len(new) = Len(buffer[t]) + c
      <4> HIDE DEF part, c
      <4> QED
        BY <2>5, <2>6, ConcatProperties
    <3> QED
      BY <1>5, <3>1 DEF CopyBlock, Room
  <2> HIDE DEF new
  <2>9. buffer'[t] = new /\ pc'[t] = "loop"
    BY <1>2, <2>1 DEF Functions
  <2>10. Functions' /\ OthersKeep(t)
    BY <1>2, <2>1 DEF Functions, OthersKeep, Kept
  <2>11. Private(t)'
    <3>1. Control(t)'
      BY <1>1, <1>2, <2>1, <2>7, <2>9 DEF Private, Control, Active, Labels, IoLabels, ReadLabels, Lookups
    <3>2. Request(t)' /\ Outcome(t)' /\ Reported(t)'
      BY <2>9 DEF Request, Outcome, Reported, IoLabels
    <3>3. Errors(t)'
      BY <1>1, <1>2, <1>5, <2>1, <2>9 DEF Private, Errors, Misled
    <3>4. Reading(t)'
      <4>1. Node(t)' = Node(t) /\ Active(t)' /\ Node(t) = disk.inodes[n]
        BY <1>2, <2>1, <2>9 DEF Node, Active, ReadLabels
      <4> QED
        BY <1>2, <2>1, <2>7, <2>8, <2>9, <2>15, <4>1, SMTT(40) DEF Private, Reading
    <3>5. Asked(t)'
      BY <1>1, <1>2, <2>1, <2>9 DEF Private, Asked, Node
    <3> QED
      BY <3>1, <3>2, <3>3, <3>4, <3>5 DEF Private
  <2>12. Shared(t)'
    BY <1>1, <1>2, <2>1, <2>9 DEF Shared, Looking, Loads, Lists, Active, IoLabels, ReadLabels,
       Fetched, Lost
  <2>13. LocksKeep(t) /\ fpos' \in Nat
    BY <2>1 DEF LocksKeep, Ext2Inv, Types
  <2>14. Loads(t) \/ Lists(t) => (Loads(t) \/ Lists(t))' /\ req'[t] = req[t]
    BY <1>1, <1>2, <2>1, <2>9 DEF Loads, Lists, Active, IoLabels, ReadLabels
  <2> QED
    BY <1>1, <2>10, <2>11, <2>12, <2>13, <2>14, QuietStep
<1> QED
  BY <1>3, <1>4, <1>5

-----------------------------------------------------------------------------
(* The steps that make and fill in a file_t *)

LEMMA Unfilled ==
  ASSUME Ext2Inv, NEW n \in Lookups, file[n] \in {NULL, Loading}
  PROVE  ~Whole(n)
<1>1. Consistent(disk)
  BY DisksAssumption DEF Ext2Inv, Types
<1>2. n \in Existing(disk) => InodeAddr(disk, n) \in Nat
  BY <1>1, InodePlace
<1> QED
  BY <1>2, ValuesAssumption DEF Whole, Fetched

\* What remains to be shown of a step that changes the file_t of its own inode.
LEMMA FillStep ==
  ASSUME Ext2Inv, NEW t \in Tasks, fs = "mounted", UNCHANGED globals, fs_tree_lock = t,
         fpos' = fpos, io_lock' = io_lock,
         OthersKeep(t), Functions', Private(t)', Shared(t)', WholeKeep, Types',
         NEW n \in Lookups, req[t].inode = n, req'[t] = req[t],
         \A m \in Lookups \ {n} : file'[m] = file[m] /\ directory'[m] = directory[m],
         file'[n] \in {NULL, Loading, Garbage} \/ Fetched(n)',
         file'[n] \in {NULL, Loading} => directory'[n].state = "none",
         Whole(n)' \/ (Loads(t) \/ Lists(t))'
  PROVE  Ext2Inv'
<1>1. disk' = disk /\ fs' = fs /\ group_descriptors' = group_descriptors /\ Lookups' = Lookups
  BY DEF globals, Lookups
<1>2. Descriptors'
  BY <1>1 DEF Ext2Inv, Descriptors
<1>3. Inodes' /\ Blank'
  BY <1>1 DEF Ext2Inv, Inodes, Blank, Fetched
<1>4. LocksKeep(t)
  BY DEF LocksKeep
<1>5. \A u \in Tasks \ {t} : Private(u)' /\ Shared(u)'
  BY <1>1, <1>4, PrivateFrame, SharedFrame DEF Ext2Inv, OthersKeep
<1>6. ASSUME NEW m \in Lookups
      PROVE  \/ file'[m] = NULL \/ Whole(m)'
             \/ \E u \in Tasks : (Loads(u) \/ Lists(u))' /\ req'[u].inode = m
  <2>1. CASE m = n
    BY <2>1
  <2>2. CASE m # n
    <3>1. file'[m] = file[m] /\ (Whole(m)' = Whole(m))
      BY <1>1, <2>2 DEF Whole, Fetched
    <3>2. \A u \in Tasks : (Loads(u) \/ Lists(u)) /\ req[u].inode = m =>
            (Loads(u) \/ Lists(u))' /\ req'[u].inode = m
      BY <2>2 DEF OthersKeep, Kept, Loads, Lists, Active
    <3> QED
      BY <3>1, <3>2 DEF Ext2Inv, Complete
  <2> QED
    BY <2>1, <2>2
<1>7. Complete' /\ OverrunOnlyBehind'
  BY <1>1, <1>6 DEF Complete, OverrunOnlyBehind
<1> QED
  BY <1>2, <1>3, <1>5, <1>7 DEF Ext2Inv

LEMMA LookupStep == ASSUME Ext2Inv, NEW t \in Tasks, Lookup(t) PROVE Ext2Inv'
<1> DEFINE n == req[t].inode
<1>1. /\ fs = "mounted" /\ pc[t] = "lookup" /\ UNCHANGED hands /\ UNCHANGED globals
      /\ UNCHANGED <<fpos, fs_tree_lock, io_lock, directory>>
  BY DEF Lookup, At, hands, transfer, locks
<1>2. Private(t) /\ Shared(t) /\ fs_tree_lock = t /\ n \in Lookups /\ job[t] = Idle
  BY <1>1 DEF Ext2Inv, Private, Control, Shared, Looking
<1>3. CASE file[n] = NULL
  <2>1. file' = [file EXCEPT ![n] = Loading] /\ Goto(t, "fetch")
    BY <1>3 DEF Lookup
  <2>2. Functions' /\ OthersKeep(t) /\ pc'[t] = "fetch"
    BY <1>1, <2>1, Moved DEF Ext2Inv
  <2>3. file'[n] = Loading /\ \A m \in Lookups \ {n} : file'[m] = file[m]
    BY <1>2, <2>1 DEF Ext2Inv, Types
  <2>4. Types'
    BY <1>1, <2>1 DEF Ext2Inv, Types, Lookups, globals
  <2>5. WholeKeep
    BY <1>1, <1>2, <1>3, <2>3, Unfilled DEF WholeKeep
  <2>6. Private(t)'
    BY <1>1, <1>2, <2>2 DEF Private, Control, Request, Outcome, Errors, Reading, Asked, Reported,
       Labels, IoLabels, ReadLabels, Active, Node, Misled, Lookups, hands, globals
  <2>7. Shared(t)' /\ Loads(t)'
    BY <1>1, <1>2, <2>2, <2>3 DEF Shared, Looking, Loads, Lists, Active, ReadLabels, IoLabels, hands
  <2>8. directory'[n].state = "none"
    BY <1>1, <1>2, <1>3 DEF Ext2Inv, Blank, hands
  <2> QED
    BY <1>1, <1>2, <2>2, <2>3, <2>4, <2>5, <2>6, <2>7, <2>8, FillStep DEF hands
<1>4. CASE file[n] # NULL
  <2>1. file' = file /\ Goto(t, "found")
    BY <1>4 DEF Lookup
  <2>2. Functions' /\ OthersKeep(t) /\ pc'[t] = "found"
    BY <1>1, <2>1, Moved DEF Ext2Inv
  <2>3. Whole(n)
    <3>1. \A u \in Tasks : Loads(u) \/ Lists(u) => fs_tree_lock = u
      BY DEF Ext2Inv, Shared, Looking, Loads, Lists, Active, ReadLabels
    <3>2. ~Loads(t) /\ ~Lists(t)
      BY <1>1 DEF Loads, Lists, Active, IoLabels, ReadLabels
    <3> QED
      BY <1>2, <1>4, <3>1, <3>2 DEF Ext2Inv, Complete
  <2>4. Private(t)'
    BY <1>1, <1>2, <2>2 DEF Private, Control, Request, Outcome, Errors, Reading, Asked, Reported,
       Labels, IoLabels, ReadLabels, Active, Node, Misled, Lookups, hands, globals
  <2>5. Whole(n)'
    BY <1>1, <2>1, <2>3 DEF Whole, Fetched, hands, globals
  <2>6. Shared(t)'
    BY <1>1, <1>2, <2>2, <2>5 DEF Shared, Looking, Loads, Lists, Active, ReadLabels, IoLabels,
       hands
  <2>7. LocksKeep(t) /\ fpos' \in Nat
    BY <1>1, <2>1 DEF LocksKeep, Ext2Inv, Types
  <2> QED
    BY <1>1, <2>1, <2>2, <2>4, <2>6, <2>7, QuietStep DEF Loads, Lists, Active, ReadLabels, IoLabels
<1> QED
  BY <1>3, <1>4

\* The lookup is over: the file_t is complete.
LEMMA FilledStep ==
  ASSUME Ext2Inv, NEW t \in Tasks, fs = "mounted", pc[t] \in {"fetch", "inode", "parse"},
         Goto(t, "found"), UNCHANGED hands, UNCHANGED globals,
         UNCHANGED <<fpos, fs_tree_lock, io_lock>>, WholeKeep, Types',
         req[t].inode \in Lookups,
         \A m \in Lookups \ {req[t].inode} : file'[m] = file[m] /\ directory'[m] = directory[m],
         Fetched(req[t].inode)' \/ file'[req[t].inode] = Garbage, Whole(req[t].inode)'
  PROVE  Ext2Inv'
<1>1. Functions' /\ OthersKeep(t) /\ pc'[t] = "found"
  BY Moved DEF Ext2Inv
<1>2. Private(t) /\ Shared(t) /\ fs_tree_lock = t
  BY DEF Ext2Inv, Shared, Looking
<1>3. Private(t)'
  BY <1>1, <1>2 DEF Private, Control, Request, Outcome, Errors, Reading, Asked, Reported,
     Labels, IoLabels, ReadLabels, Active, Node, Misled, Lookups, hands, globals
<1>4. Shared(t)'
  BY <1>1, <1>2 DEF Shared, Looking, Loads, Lists, Active, ReadLabels, IoLabels, hands
<1>5. PICK n \in Lookups : n = req[t].inode
  OBVIOUS
<1>6. /\ \A m \in Lookups \ {n} : file'[m] = file[m] /\ directory'[m] = directory[m]
      /\ file'[n] = Garbage \/ Fetched(n)'
      /\ Whole(n)' /\ req[t].inode = n /\ req'[t] = req[t]
  BY <1>5 DEF hands, Whole, Fetched
<1>7. file'[n] \notin {NULL, Loading}
  <2>1. Consistent(disk) /\ disk' = disk
    BY DisksAssumption DEF Ext2Inv, Types, globals
  <2>2. n \in Existing(disk) => InodeAddr(disk, n) \in Nat
    BY <2>1, InodePlace
  <2> QED
    BY <1>6, <2>1, <2>2, ValuesAssumption DEF Fetched
<1> QED
  BY <1>1, <1>2, <1>3, <1>4, <1>6, <1>7, FillStep

LEMMA FillDirStep == ASSUME Ext2Inv, NEW t \in Tasks, FillDir(t) PROVE Ext2Inv'
<1> DEFINE n == req[t].inode
           v == IF Len(buffer[t]) = job[t].len /\ failed[t] = "none"
                THEN Directory("listed", Entries(disk, Inode(t), buffer[t]))
                ELSE Directory("garbage", <<>>)
<1>1. /\ fs = "mounted" /\ pc[t] = "parse" /\ UNCHANGED hands /\ UNCHANGED globals
      /\ UNCHANGED <<fpos, fs_tree_lock, io_lock>> /\ file' = file /\ Goto(t, "found")
      /\ directory' = [directory EXCEPT ![n] = v]
  BY DEF FillDir, At, hands, transfer
<1>2. v.state \in {"listed", "garbage"}
  BY DEF Directory
<1> HIDE DEF v
<1>3. n \in Lookups /\ Fetched(n) /\ disk.inodes[n].type = "dir"
  BY <1>1 DEF Ext2Inv, Private, Control, Shared, Reading, Node, Lists, Active, ReadLabels
<1>4. directory'[n] = v /\ \A m \in Lookups \ {n} : directory'[m] = directory[m]
  BY <1>1, <1>3 DEF Ext2Inv, Types
<1>5. Types'
  BY <1>1, <1>2, <1>4 DEF Ext2Inv, Types, Lookups, globals
<1>6. WholeKeep
  BY <1>1, <1>2, <1>3, <1>4 DEF WholeKeep
<1>7. Fetched(n)' /\ Whole(n)'
  BY <1>1, <1>2, <1>3, <1>4 DEF Whole, Fetched, globals, hands
<1> QED
  BY <1>1, <1>3, <1>4, <1>5, <1>6, <1>7, FilledStep

LEMMA FetchStep == ASSUME Ext2Inv, NEW t \in Tasks, Fetch(t) PROVE Ext2Inv'
<1> DEFINE n == req[t].inode
<1>1. /\ fs = "mounted" /\ pc[t] = "fetch" /\ UNCHANGED globals
      /\ UNCHANGED <<fpos, fs_tree_lock, io_lock, directory, req, job, buffer, reply>>
  BY DEF Fetch, At
<1>2. /\ Private(t) /\ Shared(t) /\ Functions /\ fs_tree_lock = t /\ n \in Lookups /\ job[t] = Idle
      /\ file[n] = Loading
  BY <1>1 DEF Ext2Inv, Private, Control, Shared, Looking, Loads
<1>3. /\ Consistent(disk) /\ n \in Nat /\ disk.total_inodes \in Nat
      /\ group_descriptors = SectorBytes(disk, gdt_lba(disk), gdt_lba_size(disk))
  BY <1>1, <1>2, DisksAssumption DEF Ext2Inv, Types, Descriptors, Consistent, Sizes, Lookups
<1>4. CASE n > disk.total_inodes
  <2>1. /\ file' = [file EXCEPT ![n] = Garbage] /\ Goto(t, "found")
        /\ UNCHANGED hands
    BY <1>1, <1>4 DEF Fetch, hands, transfer
  <2>2. file'[n] = Garbage /\ \A m \in Lookups \ {n} : file'[m] = file[m]
    BY <1>2, <2>1 DEF Ext2Inv, Types
  <2>3. Types'
    BY <1>1, <2>1 DEF Ext2Inv, Types, Lookups, globals
  <2>4. WholeKeep
    BY <1>1, <1>2, <2>2, Unfilled DEF WholeKeep
  <2>5. Whole(n)'
    BY <1>1, <2>2 DEF Whole
  <2> QED
    BY <1>1, <1>2, <2>1, <2>2, <2>3, <2>4, <2>5, FilledStep
<1>5. CASE ~(n > disk.total_inodes)
  <2> DEFINE lba == ItableLba(disk, group_descriptors, n)
             x == [lba |-> lba, count |-> 1, back |-> "inode"]
  <2>1. /\ io' = [io EXCEPT ![t] = x] /\ pc' = [pc EXCEPT ![t] = "io"]
        /\ block_buffer' = block_buffer /\ got' = got /\ file' = file /\ failed' = failed
    BY <1>5 DEF Fetch, GetBlock, Goto
  <2>2. n \in Existing(disk)
    BY <1>2, <1>3, <1>5 DEF Existing, Lookups
  <2>3. lba \in Nat
    BY <1>3, <2>2, InodePlace
  <2>4. x \in Transfers /\ x.lba = lba /\ x.count = 1 /\ x.back = "inode"
    BY <2>3 DEF Transfers
  <2> HIDE DEF x, lba
  <2>5. io'[t] = x /\ pc'[t] = "io"
    BY <1>2, <2>1 DEF Functions
  <2>6. Functions' /\ OthersKeep(t)
    BY <1>1, <1>2, <2>1 DEF Functions, OthersKeep, Kept
  <2>7. Private(t)'
    <3>1. Control(t)'
      BY <1>1, <1>2, <2>1, <2>4, <2>5 DEF Private, Control, Labels, IoLabels, ReadLabels,
         Lookups, globals
    <3>2. Request(t)'
      BY <1>1, <2>2, <2>4, <2>5 DEF Request, lba, globals
    <3>3. Outcome(t)' /\ Reported(t)'
      BY <2>5 DEF Outcome, Reported
    <3>4. Errors(t)' /\ Reading(t)' /\ Asked(t)'
      BY <1>1, <1>2, <2>1, <2>5 DEF Private, Errors, Reading, Asked, Active, Node, globals
    <3> QED
      BY <3>1, <3>2, <3>3, <3>4 DEF Private
  <2>8. Shared(t)' /\ Loads(t)'
    BY <1>1, <1>2, <2>1, <2>5 DEF Shared, Looking, Loads, Lists, Active, IoLabels, ReadLabels
  <2>9. LocksKeep(t) /\ fpos' \in Nat
    BY <1>1, <2>1 DEF LocksKeep, Ext2Inv, Types
  <2> QED
    BY <1>1, <2>1, <2>6, <2>7, <2>8, <2>9, QuietStep
<1> QED
  BY <1>4, <1>5

LEMMA FillInodeStep == ASSUME Ext2Inv, NEW t \in Tasks, FillInode(t) PROVE Ext2Inv'
<1> DEFINE n == req[t].inode
           a == block_buffer[t][BufferIndex(disk, n) + 1]
           v == IF GotAll(t) THEN a ELSE Garbage
<1>1. /\ fs = "mounted" /\ pc[t] = "inode" /\ UNCHANGED globals
      /\ UNCHANGED <<fpos, fs_tree_lock, io_lock, directory, req, reply>>
      /\ file' = [file EXCEPT ![n] = v]
  BY DEF FillInode, At
<1>2. /\ Private(t) /\ Shared(t) /\ Functions /\ fs_tree_lock = t /\ n \in Lookups /\ job[t] = Idle
      /\ file[n] = Loading /\ io[t].back = "inode"
  BY <1>1 DEF Ext2Inv, Private, Control, Shared, Looking, Loads
<1>3. /\ Consistent(disk)
      /\ group_descriptors = SectorBytes(disk, gdt_lba(disk), gdt_lba_size(disk))
  BY <1>1, DisksAssumption DEF Ext2Inv, Types, Descriptors
<1>4. GotAll(t) => /\ n \in Existing(disk) /\ a = InodeAddr(disk, n) /\ a \in Nat
                   /\ InodeAt(disk, a) = Node(t)
  <2>1. SUFFICES ASSUME GotAll(t)
                 PROVE  /\ n \in Existing(disk) /\ a = InodeAddr(disk, n) /\ a \in Nat
                        /\ InodeAt(disk, a) = Node(t)
    OBVIOUS
  <2>2. /\ n \in Existing(disk)
        /\ block_buffer[t] = SectorBytes(disk, ItableLba(disk, group_descriptors, n), 1)
    BY <1>1, <1>2, <2>1 DEF Private, Request, Outcome
  <2>3. a = InodeAddr(disk, n) /\ a \in Nat
    BY <1>3, <2>2, InodePlace
  <2> QED
    BY <1>3, <2>2, <2>3, InodeThere DEF Node
<1> HIDE DEF a
<1>5. file'[n] = v /\ \A m \in Lookups \ {n} : file'[m] = file[m]
  BY <1>1, <1>2 DEF Ext2Inv, Types
<1>6. Types'
  BY <1>1, <1>4 DEF Ext2Inv, Types, Lookups, globals
<1>7. WholeKeep
  BY <1>1, <1>2, <1>5, Unfilled DEF WholeKeep
<1>8. file'[n] = Garbage \/ Fetched(n)'
  BY <1>1, <1>4, <1>5 DEF Fetched, globals
<1>9. CASE GotAll(t) /\ Node(t).type = "dir"
  <2>1. StartRead(t, "dir", Node(t).size, 0, Node(t).size)
    BY <1>4, <1>9 DEF FillInode, a
  <2>2. Node(t).size \in Nat /\ 0 <= Node(t).size
    BY <1>2, <1>3, InodeSize DEF Node, Lookups
  <2>3. /\ Functions' /\ OthersKeep(t) /\ Private(t)'
        /\ job'[t] # Idle /\ job'[t].for = "dir" /\ pc'[t] = "loop"
    BY <1>1, <1>4, <1>9, <2>1, <2>2, Started
  <2>4. Fetched(n)'
    BY <1>1, <1>4, <1>5, <1>9 DEF Fetched, globals
  <2>8. directory'[n].state = "none"
    BY <1>1, <1>2 DEF Ext2Inv, Blank
  <2>5. Shared(t)' /\ Lists(t)'
    BY <1>1, <1>2, <2>3, <2>4, <2>8 DEF Shared, Looking, Loads, Lists, Active, IoLabels, ReadLabels
  <2>6. PICK k \in Lookups : k = n
    BY <1>2
  <2>7. /\ \A m \in Lookups \ {k} : file'[m] = file[m] /\ directory'[m] = directory[m]
        /\ Fetched(k)' /\ req[t].inode = k /\ req'[t] = req[t]
        /\ directory'[k].state = "none"
    BY <1>1, <1>5, <2>4, <2>6, <2>8 DEF Fetched
  <2> QED
    BY <1>1, <1>2, <1>6, <1>7, <2>3, <2>5, <2>7, FillStep
<1>10. CASE ~(GotAll(t) /\ Node(t).type = "dir")
  <2>1. Goto(t, "found") /\ UNCHANGED hands
    BY <1>1, <1>4, <1>10 DEF FillInode, a, hands, transfer
  <2>2. Whole(n)'
    BY <1>1, <1>4, <1>5, <1>10 DEF Whole, Fetched, Node, globals
  <2> QED
    BY <1>1, <1>2, <1>5, <1>6, <1>7, <1>8, <2>1, <2>2, FilledStep
<1> QED
  BY <1>9, <1>10

-----------------------------------------------------------------------------
(* The other steps *)

LEMMA InitHolds == Init => Ext2Inv
<1> SUFFICES ASSUME Init PROVE Ext2Inv
  OBVIOUS
<1>1. /\ disk \in Disks /\ fs = "unknown" /\ fpos = 0
      /\ file = [n \in Lookups |-> NULL]
      /\ directory = [n \in Lookups |-> Directory("none", <<>>)]
  BY DEF Init
<1>2. Types
  BY <1>1 DEF Types, Directory
<1>3. Functions
  BY DEF Init, Functions
<1>4. Descriptors /\ Inodes /\ Blank /\ Complete /\ OverrunOnlyBehind
  BY <1>1 DEF Init, Descriptors, Inodes, Blank, Complete, Directory, OverrunOnlyBehind
<1>5. ASSUME NEW t \in Tasks PROVE Private(t) /\ Shared(t)
  <2>1. /\ req[t] = Idle /\ job[t] = Idle /\ io[t] = Idle /\ block_buffer[t] = <<>> /\ got[t] = 0
        /\ buffer[t] = <<>> /\ failed[t] = "none" /\ reply[t] = Idle /\ pc[t] = "idle"
    BY DEF Init
  <2> QED
    BY <2>1 DEF Private, Control, Request, Outcome, Errors, Reading, Asked, Reported,
       Labels, IoLabels, ReadLabels, Active, Shared, Looking, Loads, Lists
<1> QED
  BY <1>2, <1>3, <1>4, <1>5 DEF Ext2Inv

\* If the group descriptors can be read, all of them are.
LEMMA DescriptorsRead ==
  ASSUME NEW d, Consistent(d), NEW n \in Copied(d, gdt_lba(d), gdt_lba_size(d)),
         ~(BdResult(d, n) < gdt_lba_size(d) * LBA_SIZE)
  PROVE  n = gdt_lba_size(d)
<1>1. Len(d.tables) > 0
  <2> DEFINE a == d.total_blocks
             b == d.blocks_per_group
  <2>1. a \in Nat \ {0} /\ b \in Nat \ {0}
    BY DEF Consistent, Sizes
  <2>2. Len(d.tables) = a \div b + (IF a % b # 0 THEN 1 ELSE 0)
    BY DEF Consistent, CeilDiv
  <2> HIDE DEF a, b
  <2>3. a = (a \div b) * b + (a % b) /\ a \div b \in Nat /\ a % b \in 0 .. b - 1
    BY <2>1, DivMod
  <2>4. a \div b = 0 => (a \div b) * b = 0
    BY <2>1
  <2>5. ~(a \div b = 0 /\ a % b = 0)
    BY <2>1, <2>3, <2>4
  <2> QED
    BY <2>1, <2>2, <2>3, <2>5
<1>2. /\ gdt_lba(d) \in Nat /\ gdt_lba_size(d) \in Nat /\ gdt_lba_size(d) > 0
      /\ d.start + gdt_lba(d) + gdt_lba_size(d) <= d.sectors
  BY <1>1, DescriptorTable
<1>3. Sizes(d) /\ gdt_lba_size(d) * LBA_SIZE \in Nat
  BY <1>2, SizesAssumption, Product DEF Consistent
<1>4. /\ BdResult(d, n) \in Int
      /\ BdResult(d, n) >= gdt_lba_size(d) * LBA_SIZE <=> n = gdt_lba_size(d)
  BY <1>2, <1>3, TransferWithin
<1> DEFINE x == gdt_lba_size(d) * LBA_SIZE
<1> HIDE DEF x
<1>5. BdResult(d, n) >= x
  BY <1>3, <1>4 DEF x
<1> QED
  BY <1>4, <1>5 DEF x

LEMMA ProbeStep == ASSUME Ext2Inv, Probe PROVE Ext2Inv'
<1>1. /\ fs = "unknown" /\ disk' = disk
      /\ UNCHANGED <<file, directory>> /\ UNCHANGED hands /\ pc' = pc
  BY DEF Probe, hands, transfer
<1>2. Consistent(disk) /\ \A t \in Tasks : pc[t] = "idle" /\ Private(t)
  BY <1>1, DisksAssumption DEF Ext2Inv, Types, Descriptors
<1>0. block_lba_size(disk) \in Nat /\ LBA_SIZE \in Nat
  BY <1>2, SizeFacts DEF Consistent
<1>3. /\ fs' \in {"rejected", "undefined", "mounted"} /\ fpos' \in Nat
      /\ fs' = "mounted" =>
           group_descriptors' = SectorBytes(disk, gdt_lba(disk), gdt_lba_size(disk))
  <2>1. CASE ProbeUnread
    BY <2>1, <1>0 DEF ProbeUnread, SB_LBA
  <2>2. CASE ProbeRead
    <3>1. PICK n \in Copied(disk, gdt_lba(disk), gdt_lba_size(disk)) :
            IF BdResult(disk, n) < gdt_lba_size(disk) * LBA_SIZE
            THEN fs' = "rejected" /\ UNCHANGED group_descriptors
            ELSE fs' = "mounted" /\ group_descriptors' = SectorBytes(disk, gdt_lba(disk), n)
      BY <2>2 DEF ProbeRead
    <3>2. gdt_lba(disk) \in Nat
      BY <1>0, Product DEF gdt_lba
    <3>3. fpos' \in Nat
      BY <2>2, <1>0, <3>2, Product DEF ProbeRead
    <3> QED
      BY <1>2, <3>1, <3>3, DescriptorsRead
  <2> QED
    BY <2>1, <2>2 DEF Probe
<1>4. Descriptors'
  BY <1>1, <1>2, <1>3 DEF Descriptors
<1>5. OverrunOnlyBehind'
  BY <1>3 DEF OverrunOnlyBehind
<1>6. Types'
  BY <1>1, <1>3 DEF Ext2Inv, Types, Lookups
<1>7. Functions' /\ Inodes' /\ Blank'
  BY <1>1 DEF Ext2Inv, Functions, Inodes, Blank, Fetched, Lookups, hands
<1>8. Complete'
  BY <1>1 DEF Ext2Inv, Complete, Whole, Fetched, Loads, Lists, Active, Lookups, hands
<1>9. ASSUME NEW t \in Tasks PROVE Private(t)' /\ Shared(t)'
  <2>1. pc[t] = "idle" /\ pc'[t] = "idle" /\ Private(t)
    BY <1>1, <1>2
  <2>2. Control(t)'
    BY <1>1, <2>1 DEF Private, Control, Lookups, hands
  <2>3. Errors(t)' /\ Reported(t)'
    BY <1>1, <2>1 DEF Private, Errors, Reported, Misled, hands
  <2>4. Request(t)' /\ Outcome(t)' /\ Reading(t)' /\ Asked(t)'
    BY <2>1 DEF Request, Outcome, Reading, Asked, Active, IoLabels, ReadLabels
  <2> QED
    BY <2>1, <2>2, <2>3, <2>4 DEF Private, Shared, Looking, Loads, Lists, Active, IoLabels, ReadLabels
<1> QED
  BY <1>4, <1>5, <1>6, <1>7, <1>8, <1>9 DEF Ext2Inv

\* A panic, or a write behind a buffer, stops everything where it is.
LEMMA StillStep ==
  ASSUME Ext2Inv, fs' = fs \/ (fs = "mounted" /\ fs' \in {"panicked", "overrun"}), UNCHANGED hands,
         fs' = "overrun" => fs = "overrun" \/ \E t \in Tasks : Behind(t),
         UNCHANGED <<disk, group_descriptors, fpos, locks, file, directory, pc>>
  PROVE  Ext2Inv'
<1>1. /\ disk' = disk /\ group_descriptors' = group_descriptors /\ file' = file
      /\ directory' = directory /\ fpos' = fpos /\ pc' = pc /\ fs_tree_lock' = fs_tree_lock
      /\ io_lock' = io_lock
  BY DEF locks
<1>2. \A t \in Tasks : Kept(t)
  BY <1>1 DEF Kept, hands
<1>3. \A t \in Tasks : Private(t)'
  BY <1>1, <1>2, PrivateFrame DEF Ext2Inv
<1>4. \A t \in Tasks : Shared(t)'
  BY <1>1, <1>2 DEF Ext2Inv, Kept, Shared, Looking, Loads, Lists, Active, Whole, Fetched, Lost
<1>5. Types' /\ Functions'
  BY <1>1 DEF Ext2Inv, Types, Functions, Lookups, hands
<1>6. Descriptors' /\ Inodes' /\ Blank'
  BY <1>1 DEF Ext2Inv, Descriptors, Inodes, Blank, Fetched, Lookups
<1>7. Complete'
  BY <1>1 DEF Ext2Inv, Complete, Whole, Fetched, Loads, Lists, Active, Lookups, hands
<1>8. OverrunOnlyBehind'
  <2>1. \A t \in Tasks : Behind(t)' = Behind(t)
    BY <1>1 DEF Behind, hands
  <2> QED
    BY <2>1 DEF Ext2Inv, OverrunOnlyBehind
<1> QED
  BY <1>3, <1>4, <1>5, <1>6, <1>7, <1>8 DEF Ext2Inv

\* Only a read that has begun behind the end of its file has a wrapped length, and
\* goes on past the end of its caller's buffer.
LEMMA CopyBehindStep == ASSUME Ext2Inv, NEW t \in Tasks, CopyBehind(t) PROVE Ext2Inv'
<1>1. /\ fs = "mounted" /\ fs' = "overrun" /\ pc[t] = "data" /\ UNCHANGED hands
      /\ UNCHANGED <<disk, group_descriptors, fpos, locks, file, directory, pc>>
      /\ Len(buffer[t]) + CpySize(t) > Room(t)
  BY DEF CopyBehind, At, hands, transfer
<1>2. Private(t) /\ Active(t) /\ req[t] # Idle /\ Len(buffer[t]) < job[t].len
  BY <1>1 DEF Ext2Inv, Private, Control, Request, Active, ReadLabels
<1>3. /\ Inode(t) = Node(t) /\ Node(t).size \in Nat /\ job[t].len \in Nat
      /\ Len(buffer[t]) \in Nat /\ req[t].inode \in Lookups /\ Consistent(disk)
  BY <1>2, BlockOfFile, ReadsInode
<1>4. CpySize(t) \in Nat /\ Len(buffer[t]) + CpySize(t) <= job[t].len
  BY <1>1, RoundOf DEF Round
<1>5. CASE job[t].for = "dir"
  <2>1. Room(t) = job[t].len
    BY <1>2, <1>3, <1>5 DEF Room, Private, Reading
  <2> QED
    BY <1>1, <1>3, <1>4, <2>1
<1>6. CASE job[t].for # "dir"
  <2>1. /\ job[t].len = Truncated(Node(t).size, req[t].off, req[t].len) /\ Room(t) = req[t].len
        /\ req[t].off \in Nat /\ req[t].len \in Nat /\ Node(t).size < SIZE_LIMIT
    <3>1. job[t].for = "read" /\ req[t] \in Calls
      BY <1>2, <1>6 DEF Private, Control, Active, Jobs
    <3> QED
      BY <1>2, <1>3, <3>1, InodeSize DEF Room, Private, Reading, Calls, Node, Lookups
  <2>2. ~(req[t].off <= Node(t).size)
    <3>1. req[t].off <= Node(t).size => job[t].len <= req[t].len
      BY <1>3, <2>1, TruncatedFits
    <3> QED
      BY <1>1, <1>3, <1>4, <2>1, <3>1
  <2>3. Behind(t)
    BY <1>2, <1>3, <2>1, <2>2 DEF Behind, Node
  <2> QED
    BY <1>1, <2>3, StillStep
<1> QED
  BY <1>5, <1>6

-----------------------------------------------------------------------------
(* The theorems *)

LEMMA StepHolds == Ext2Inv /\ [Next]_vars => Ext2Inv'
<1> SUFFICES ASSUME Ext2Inv, [Next]_vars PROVE Ext2Inv'
  OBVIOUS
<1>1. CASE Probe
  BY <1>1, ProbeStep
<1>2. CASE Halted \/ UNCHANGED vars
  BY <1>2, StillStep DEF Halted, vars, globals, hands, transfer
<1>3. ASSUME NEW t \in Tasks, NEW n \in Lookups, NEW r \in Ranges, Call(t, n, r) PROVE Ext2Inv'
  BY <1>3, CallStep
<1>4. ASSUME NEW t \in Tasks, Step(t) PROVE Ext2Inv'
  <2>1. CASE ReadTooFar(t)
    BY <2>1, StillStep DEF ReadTooFar, More, At, hands, transfer
  <2> QED
    BY <1>4, <2>1, FindStep, LookupStep, FetchStep, IoLockStep, SeekStep, TransferStep,
       IoUnlockStep, FillInodeStep, FillDirStep, FoundStep, OpenStep, ReadDirectStep,
       ReadIndirectStep, FollowPointerStep, CopyBlockStep, CopyBehindStep, ReadDoneStep DEF Step
<1> QED
  BY <1>1, <1>2, <1>3, <1>4 DEF Next

\* The inductive invariant: what every task has, knows and may rely on at every
\* place of the driver (ext2fs.c).
THEOREM Ext2Invariant == Spec => []Ext2Inv
  BY InitHolds, StepHolds, PTL DEF Spec

\* No task opens or reads a file_t that another task is still filling in:
\* ext2_fetch() publishes it before it is read, under fs_tree_lock.
THEOREM NobodySeesHalf == Spec => []NoHalfFile
<1>1. Ext2Inv => NoHalfFile
  <2> SUFFICES ASSUME Ext2Inv, NEW t \in Tasks,
                      pc[t] = "opened" \/ (job[t] # Idle /\ job[t].for = "read")
               PROVE  /\ file[req[t].inode] \notin {NULL, Loading}
                      /\ file[req[t].inode] # Garbage =>
                           (Inode(t).type = "dir" => directory[req[t].inode].state # "none")
    BY DEF NoHalfFile
  <2> DEFINE n == req[t].inode
  <2>1. Private(t) /\ Shared(t) /\ Consistent(disk)
    BY DisksAssumption DEF Ext2Inv, Types
  <2>2. n \in Lookups /\ Whole(n)
    <3>1. CASE pc[t] = "opened"
      BY <2>1, <3>1 DEF Private, Control, Shared
    <3>2. CASE pc[t] # "opened"
      <4>1. Active(t) /\ job[t].for = "read" /\ pc[t] # "idle"
        BY <2>1, <3>2 DEF Private, Control, Active, Labels, ReadLabels, IoLabels
      <4>2. Fetched(n) /\ Node(t).type # "dir" /\ n \in Lookups
        BY <2>1, <4>1 DEF Private, Control, Shared, Reading
      <4> QED
        BY <4>2 DEF Whole, Node
    <3> QED
      BY <3>1, <3>2
  <2>3. file[n] \notin {NULL, Loading}
    BY <2>2, Unfilled
  <2>4. ASSUME file[n] # Garbage, Inode(t).type = "dir" PROVE directory[n].state # "none"
    <3>1. Fetched(n)
      BY <2>2, <2>4 DEF Whole
    <3>2. Inode(t) = Node(t)
      BY <3>1, InodeOf
    <3> QED
      BY <2>2, <2>4, <3>2 DEF Whole, Node
  <2> QED
    BY <2>3, <2>4
<1> QED
  BY <1>1, Ext2Invariant, PTL

\* ext2_read() returns bytes only if every transfer it made succeeded, but for
\* a read that a block of pointers has misled.
THEOREM ErrorsReported == Spec => []IoErrorReported
<1>1. Ext2Inv => IoErrorReported
  BY DEF Ext2Inv, Private, Reported, IoErrorReported
<1> QED
  BY <1>1, Ext2Invariant, PTL

\* A read that begins within its file stays within its caller's buffer.
THEOREM BuffersSafe == Spec => []OverrunOnlyBehind
<1>1. Ext2Inv => OverrunOnlyBehind
  BY DEF Ext2Inv
<1> QED
  BY <1>1, Ext2Invariant, PTL

-----------------------------------------------------------------------------
(* Ext2 implements FileSpec *)

\* The bytes of a file are bytes of the disk where it has no hole, as many as the
\* driver reaches.
LEMMA FileBytes ==
  ASSUME NEW d, Consistent(d), NEW n \in DOMAIN d.inodes
  PROVE  LET size == d.inodes[n].size
             bytes == Bytes(d, d.inodes[n])
         IN  /\ bytes \in Seq(Nat \cup {Hole})
             /\ Len(bytes) = IF size > Reach(d) THEN Reach(d) ELSE size
             /\ \A i \in 1 .. Len(bytes) :
                  bytes[i] = Hole \/ bytes[i] = StoredAt(d, d.inodes[n], i)
<1> DEFINE size == d.inodes[n].size
           bytes == Bytes(d, d.inodes[n])
           bs == d.block_size
           w == NDIR_BLOCKS + ptrs_per_block(d)
           k == IF size > Reach(d) THEN Reach(d) ELSE size
<1>1. /\ bs \in Nat \ {0} /\ NDIR_BLOCKS \in Nat /\ ptrs_per_block(d) \in Nat /\ Reach(d) \in Nat
      /\ size \in Nat /\ Sizes(d)
  BY FileSizes, InodeSize DEF Consistent
<1>2. k \in Nat /\ k <= size /\ k <= Reach(d) /\ w \in Nat
  BY <1>1
<1>3. bytes = [i \in 1 .. k |->
                 IF FileBlock(d, d.inodes[n], (i - 1) \div bs) = 0 THEN Hole
                 ELSE StoredAt(d, d.inodes[n], i)]
  BY DEF Bytes, StoredAt
<1>4. Reach(d) = w * bs
  BY DEF Reach
<1> HIDE DEF k, w, bytes, size
<1>5. ASSUME NEW i \in 1 .. k
      PROVE  StoredAt(d, d.inodes[n], i) \in Nat
  <2> DEFINE x == i - 1
             q == x \div bs
             b == FileBlock(d, d.inodes[n], q)
  <2>1. x \in Nat /\ x < size /\ x < Reach(d)
    BY <1>1, <1>2
  <2> HIDE DEF x
  <2>2. x = q * bs + (x % bs) /\ q \in Nat /\ x % bs \in 0 .. bs - 1
    BY <1>1, <2>1, DivMod
  <2> HIDE DEF q
  <2> DEFINE z == q * bs
             r == x % bs
             wb == w * bs
  <2>3. z \in Nat /\ wb \in Nat /\ r \in Nat
    BY <1>1, <1>2, <2>2, Product
  <2>4. x = z + r /\ Reach(d) = wb
    BY <1>4, <2>2
  <2> HIDE DEF r
  <2>5. z < size /\ z < wb
    <3> HIDE DEF z, wb
    <3> QED
      BY <1>1, <2>1, <2>3, <2>4
  <2>6. q < w
    BY <1>1, <1>2, <2>2, <2>5, Growing
  <2>7. OnDisk(d, b)
    BY <1>1, <2>2, <2>6, FileBlocks DEF w
  <2>8. BlockAddr(d, b) \in Nat
    <3>1. b \in Nat /\ d.start \in Nat /\ LBA_SIZE \in Nat
      BY <1>1, <2>7, BlockOnDisk, SizeFacts
    <3> HIDE DEF b
    <3>2. b * bs \in Nat /\ d.start * LBA_SIZE \in Nat
      BY <1>1, <3>1, Product
    <3> QED
      BY <3>2 DEF BlockAddr, Base
  <2> HIDE DEF b
  <2> QED
    BY <2>3, <2>8 DEF b, q, r, x, StoredAt
<1>6. bytes \in [1 .. k -> Nat \cup {Hole}]
  BY <1>3, <1>5
<1>7. bytes \in Seq(Nat \cup {Hole}) /\ Len(bytes) = k
  BY <1>2, <1>6
<1>8. \A i \in 1 .. Len(bytes) : bytes[i] = Hole \/ bytes[i] = StoredAt(d, d.inodes[n], i)
  BY <1>3, <1>7
<1> QED
  BY <1>7, <1>8 DEF bytes, k, size

\* A read that has come to its end.
ReadTo(bytes, size, reach, off, len, buf) ==
  /\ bytes \in Seq(Nat \cup {Hole}) /\ size \in Nat /\ size < SIZE_LIMIT /\ reach \in Nat
  /\ Len(bytes) = IF size > reach THEN reach ELSE size
  /\ off \in Nat /\ len \in Nat /\ off <= size
  /\ buf \in Seq(Nat) /\ Len(buf) = Truncated(size, off, len)
  /\ buf # <<>> => off + Len(buf) <= reach
  /\ \A i \in 1 .. Len(buf) :
       off + i \in 1 .. Len(bytes) => bytes[off + i] = Hole \/ buf[i] = bytes[off + i]

\* What it has read is what it was asked for, but for the holes.
LEMMA ReadAll ==
  ASSUME NEW bytes, NEW size, NEW reach, NEW off, NEW len, NEW buf,
         ReadTo(bytes, size, reach, off, len, buf)
  PROVE  Abstract!Agree(buf,
           SubSeq(bytes, off + 1, IF off + len > Len(bytes) THEN Len(bytes) ELSE off + len))
<1>0. /\ bytes \in Seq(Nat \cup {Hole}) /\ size \in Nat /\ size < SIZE_LIMIT /\ reach \in Nat
      /\ Len(bytes) = IF size > reach THEN reach ELSE size
      /\ off \in Nat /\ len \in Nat /\ off <= size
      /\ buf \in Seq(Nat) /\ Len(buf) = Truncated(size, off, len)
      /\ buf # <<>> => off + Len(buf) <= reach
      /\ \A i \in 1 .. Len(buf) :
           off + i \in 1 .. Len(bytes) => bytes[off + i] = Hole \/ buf[i] = bytes[off + i]
  BY DEF ReadTo
<1> USE <1>0
<1> DEFINE l == Len(buf)
           k == Len(bytes)
           end == IF off + len > k THEN k ELSE off + len
           part == SubSeq(bytes, off + 1, end)
<1>1. /\ l \in Nat /\ k \in Nat /\ end \in Nat /\ end <= k
      /\ l = IF off + len > size THEN size - off ELSE len
      /\ k = IF size > reach THEN reach ELSE size
  BY TruncatedFits
<1>2. buf = <<>> <=> l = 0
  OBVIOUS
<1>3. part = [i \in 1 .. (1 + end - (off + 1)) |-> bytes[i + (off + 1) - 1]]
  OBVIOUS
<1>4. l # 0 => off + l <= reach
  BY <1>2
<1> HIDE DEF l, k
<1>5. CASE l = 0
  <2>1. end <= off
    BY <1>1, <1>5
  <2>2. off + 1 > end
    <3> HIDE DEF end
    <3> QED
      BY <1>1, <2>1
  <2>3. part = <<>> /\ Len(part) = 0 /\ 1 .. Len(part) = {}
    <3> HIDE DEF end
    <3>1. part = <<>>
      BY <1>1, <2>2
    <3>2. Len(<<>>) = 0 /\ 1 .. 0 = {}
      OBVIOUS
    <3> HIDE DEF part
    <3> QED
      BY <3>1, <3>2
  <2> HIDE DEF end, part
  <2> QED
    BY <1>5, <2>3 DEF Abstract!Agree, part, end, k, l
<1>6. CASE l # 0
  <2>1. end = off + l
    BY <1>1, <1>4, <1>6
  <2>2. off + l <= k
    BY <1>1, <2>1
  <2> HIDE DEF end
  <2>3. 1 + end - (off + 1) = l
    BY <1>1, <2>1
  <2>4. \A i \in 1 .. l : bytes[i + (off + 1) - 1] = bytes[off + i] /\ off + i \in 1 .. k
    <3>1. ASSUME NEW i \in 1 .. l PROVE i + (off + 1) - 1 = off + i /\ off + i \in 1 .. k
      BY <1>1, <2>2
    <3> QED
      BY <3>1
  <2> HIDE DEF part
  <2>5. part = [i \in 1 .. l |-> bytes[off + i]]
    BY <1>3, <2>3, <2>4
  <2>6. Len(part) = l
    BY <1>1, <2>5
  <2>7. \A i \in 1 .. l : part[i] = Hole \/ buf[i] = part[i]
    BY <2>4, <2>5 DEF l, k
  <2> QED
    BY <2>6, <2>7 DEF Abstract!Agree, part, end, k, l
<1> QED
  BY <1>5, <1>6

\* The abstract state.
Contents == [n \in Lookups |-> IF disk.inodes[n].type = "dir" THEN EISDIR
                               ELSE Bytes(disk, disk.inodes[n])]
LostFiles == {n \in Lookups : Lost(n)}
MisledReads == {t \in Tasks : job[t] # Idle /\ Misled(t)}
view == <<Contents, req, reply, LostFiles, MisledReads>>

LEMMA ViewIsAbstract == /\ Abstract!vars = view
                        /\ Abstract!Init <=> /\ req = [t \in Tasks |-> Idle]
                                             /\ LostFiles = {} /\ MisledReads = {}
  BY DEF Abstract!vars, Abstract!Init, view, Contents, LostFiles, MisledReads

AbstractStep == [Abstract!Next]_view

LEMMA ContentsSame == disk' = disk => Contents' = Contents /\ Lookups' = Lookups
  BY DEF Contents, Lookups

\* A step that the programs do not see.
LEMMA Unseen ==
  ASSUME disk' = disk, req' = req, reply' = reply, LostFiles' = LostFiles,
         MisledReads' = MisledReads
  PROVE  AbstractStep
  BY ContentsSame DEF AbstractStep, view

\* The read of one task may become misled, or cease to be.
LEMMA MaybeMisled ==
  ASSUME NEW t \in Tasks, req[t] # Idle, disk' = disk, req' = req, reply' = reply,
         LostFiles' = LostFiles,
         \A u \in Tasks \ {t} : job'[u] = job[u] /\ failed'[u] = failed[u]
  PROVE  AbstractStep
<1>1. \A u \in Tasks \ {t} : u \in MisledReads' <=> u \in MisledReads
  BY DEF MisledReads, Misled
<1>2. MisledReads' \subseteq Tasks /\ MisledReads \subseteq Tasks
  BY DEF MisledReads
<1>3. MisledReads' \in {MisledReads \cup {t}, MisledReads \ {t}}
  BY <1>1, <1>2
<1>4. Abstract!Mislead(t)
  BY <1>3, ContentsSame DEF Abstract!Mislead, Contents, LostFiles, MisledReads
<1> QED
  BY <1>4 DEF AbstractStep, Abstract!Next

\* A file is lost.
LEMMA FileLost ==
  ASSUME NEW n \in Lookups, disk' = disk, req' = req, reply' = reply,
         LostFiles' = LostFiles \cup {n}, MisledReads' = MisledReads
  PROVE  AbstractStep
<1>1. Abstract!Lose(n)
  BY ContentsSame DEF Abstract!Lose, Contents, LostFiles, MisledReads
<1>2. n \in DOMAIN Contents
  BY DEF Contents
<1> QED
  BY <1>1, <1>2 DEF AbstractStep, Abstract!Next, Contents

\* What the call of a task may return.
Promise(t, value) ==
  LET bytes == Bytes(disk, Node(t))
      end == req[t].off + req[t].len
  IN  IF Node(t).type = "dir" THEN value = EISDIR
      ELSE \/ value = EIO
           \/ Abstract!Agree(value, SubSeq(bytes, req[t].off + 1, IF end > Len(bytes) THEN Len(bytes) ELSE end))

LEMMA PromiseIsAbstract ==
  ASSUME Ext2Inv, NEW t \in Tasks, pc[t] # "idle", NEW value, Promise(t, value)
  PROVE  Abstract!Promised(req[t], value)
<1> DEFINE n == req[t].inode
           bytes == Bytes(disk, Node(t))
<1>1. n \in Lookups /\ Consistent(disk)
  BY DisksAssumption DEF Ext2Inv, Types, Private, Control
<1>2. bytes \in Seq(Nat \cup {Hole})
  BY <1>1, FileBytes DEF Node, Lookups
<1>3. bytes # EISDIR
  <2> HIDE DEF bytes
  <2>1. bytes \in Seq(Int \cup {Hole})
    BY <1>2
  <2> QED
    BY <2>1, ValuesAssumption
<1>4. Contents[n] = IF Node(t).type = "dir" THEN EISDIR ELSE bytes
  BY <1>1 DEF Contents, Node
<1> HIDE DEF bytes
<1>5. CASE Node(t).type = "dir"
  BY <1>4, <1>5 DEF Abstract!Promised, Promise, Contents
<1>6. CASE Node(t).type # "dir"
  <2>1. Abstract!Promised(req[t], value) <=>
          IF Contents[n] = EISDIR THEN value = EISDIR
          ELSE value = EIO \/ Abstract!Agree(value, SubSeq(Contents[n], req[t].off + 1, Abstract!Until(req[t])))
    BY DEF Abstract!Promised, Contents
  <2>2. Abstract!Until(req[t]) =
          IF req[t].off + req[t].len > Len(Contents[n]) THEN Len(Contents[n])
          ELSE req[t].off + req[t].len
    BY DEF Abstract!Until, Contents
  <2> QED
    BY <1>3, <1>4, <1>6, <2>1, <2>2 DEF Promise, bytes
<1> QED
  BY <1>5, <1>6

LEMMA ReturnSeen ==
  ASSUME Ext2Inv, NEW t \in Tasks, NEW value, Return(t, value), pc[t] # "idle",
         UNCHANGED <<globals, file, directory>>,
         req[t].inode \in LostFiles \/ t \in MisledReads \/ Promise(t, value)
  PROVE  AbstractStep
<1>1. /\ reply' = [reply EXCEPT ![t] = value] /\ req' = [req EXCEPT ![t] = Idle]
      /\ job' = [job EXCEPT ![t] = Idle] /\ failed' = failed
      /\ disk' = disk /\ file' = file /\ directory' = directory
  BY DEF Return, globals
<1>2. Functions /\ req[t] # Idle
  BY DEF Ext2Inv, Private, Control
<1>3. reply'[t] = value /\ \A u \in Tasks \ {t} : reply'[u] = reply[u] /\ job'[u] = job[u]
  BY <1>1, <1>2 DEF Functions
<1>4. job'[t] = Idle
  BY <1>1, <1>2 DEF Functions
<1>5. LostFiles' = LostFiles
  BY <1>1 DEF LostFiles, Lost, Lookups
<1>6. MisledReads' = MisledReads \ {t}
  BY <1>1, <1>3, <1>4 DEF MisledReads, Misled
<1>7. req[t].inode \in LostFiles \/ t \in MisledReads \/ Abstract!Promised(req[t], reply'[t])
  BY <1>3, PromiseIsAbstract
<1>8. Abstract!Return(t)
  BY <1>1, <1>2, <1>3, <1>5, <1>6, <1>7, ContentsSame
     DEF Abstract!Return, Contents, LostFiles, MisledReads
<1> QED
  BY <1>8 DEF AbstractStep, Abstract!Next

LEMMA CallSeen ==
  ASSUME Ext2Inv, NEW t \in Tasks, NEW n \in Lookups, NEW r \in Ranges, Call(t, n, r)
  PROVE  AbstractStep
<1>1. /\ pc[t] = "idle" /\ disk' = disk /\ file' = file /\ directory' = directory
      /\ job' = job /\ failed' = failed
      /\ req' = [req EXCEPT ![t] = [inode |-> n, off |-> r.off, len |-> r.len]]
      /\ reply' = [reply EXCEPT ![t] = Idle]
  BY DEF Call, At, globals, transfer
<1>2. Functions /\ req[t] = Idle /\ Consistent(disk)
  BY <1>1, DisksAssumption DEF Ext2Inv, Types, Private, Control
<1>3. \A u \in Tasks \ {t} : req'[u] = req[u] /\ reply'[u] = reply[u]
  BY <1>1, <1>2 DEF Functions
<1>4. req'[t] # Idle
  <2>1. r \in [off : Nat, len : Nat] /\ n \in Nat
    BY <1>2, RangesAssumption DEF Consistent, Lookups
  <2>2. req'[t] = [inode |-> n, off |-> r.off, len |-> r.len]
    BY <1>1, <1>2 DEF Functions
  <2> QED
    BY <2>1, <2>2, ValuesAssumption
<1>5. LostFiles' = LostFiles /\ MisledReads' = MisledReads
  BY <1>1 DEF LostFiles, Lost, Lookups, MisledReads, Misled
<1>6. Abstract!Call(t)
  BY <1>1, <1>2, <1>3, <1>4, <1>5, ContentsSame
     DEF Abstract!Call, Contents, LostFiles, MisledReads
<1> QED
  BY <1>6 DEF AbstractStep, Abstract!Next

\* What a completed read returns.
LEMMA ReadDoneSeen == ASSUME Ext2Inv, NEW t \in Tasks, ReadDone(t) PROVE AbstractStep
<1>1. /\ fs = "mounted" /\ pc[t] = "loop" /\ UNCHANGED <<globals, file, directory>>
      /\ Len(buffer[t]) >= job[t].len
  BY DEF ReadDone, At
<1>2. Private(t) /\ job[t] \in Jobs /\ job[t] # Idle /\ Active(t) /\ Consistent(disk)
  BY <1>1, DisksAssumption DEF Ext2Inv, Types, Private, Control, Active, ReadLabels
<1>3. CASE job[t].for = "dir"
  <2>1. /\ disk' = disk /\ req' = req /\ reply' = reply /\ job' = job /\ failed' = failed
        /\ file' = file /\ directory' = directory
    BY <1>1, <1>3 DEF ReadDone, transfer, globals
  <2> QED
    BY <2>1, Unseen DEF LostFiles, Lost, Lookups, MisledReads, Misled
<1>4. CASE job[t].for = "read"
  <2>1. Return(t, buffer[t])
    BY <1>4 DEF ReadDone
  <2>2. CASE t \in MisledReads
    BY <1>1, <2>1, <2>2, ReturnSeen
  <2>3. CASE t \notin MisledReads
    <3> DEFINE n == req[t].inode
               bytes == Bytes(disk, Node(t))
               size == Node(t).size
               off == req[t].off
               len == req[t].len
               buf == buffer[t]
    <3>1. failed[t] = "none"
      BY <1>1, <1>2, <2>3 DEF Private, Errors, MisledReads
    <3>2. /\ n \in Lookups /\ off \in Nat /\ len \in Nat /\ off + len < SIZE_LIMIT
          /\ buf \in Seq(Nat) /\ job[t].len \in Nat
      BY <1>1, <1>2 DEF Private, Control, Calls, Asked, Jobs
    <3>3. /\ job[t].off = off /\ job[t].len = Truncated(size, off, len) /\ Node(t).type # "dir"
          /\ Len(buf) <= job[t].len /\ Len(buf) <= len
          /\ buf # <<>> => off + Len(buf) <= Reach(disk)
          /\ \A i \in 1 .. Len(buf) : buf[i] = StoredAt(disk, Node(t), off + i)
      BY <1>2, <1>4, <3>1 DEF Private, Reading
    <3>4. Len(buf) = Truncated(size, off, len)
      <4>1. Len(buf) \in Nat
        BY <3>2
      <4> QED
        BY <1>1, <3>2, <3>3, <4>1
    <3>5. /\ bytes \in Seq(Nat \cup {Hole})
          /\ Len(bytes) = IF size > Reach(disk) THEN Reach(disk) ELSE size
          /\ \A i \in 1 .. Len(bytes) : bytes[i] = Hole \/ bytes[i] = StoredAt(disk, Node(t), i)
          /\ size \in Nat /\ size < SIZE_LIMIT /\ Reach(disk) \in Nat
      BY <1>2, <3>2, FileBytes, InodeSize, FileSizes DEF Node, Lookups
    <3> HIDE DEF bytes, size, off, len, buf
    <3>8. off <= size
      <4>1. off > size => Len(buf) > len
        BY <3>2, <3>4, <3>5, TruncatedWraps
      <4>2. Len(buf) \in Nat
        BY <3>2
      <4> QED
        BY <3>2, <3>3, <3>5, <4>1, <4>2
    <3>6. Abstract!Agree(buf,
            SubSeq(bytes, off + 1, IF off + len > Len(bytes) THEN Len(bytes) ELSE off + len))
      <4>1. \A i \in 1 .. Len(buf) :
              off + i \in 1 .. Len(bytes) => bytes[off + i] = Hole \/ buf[i] = bytes[off + i]
        BY <3>3, <3>5
      <4>2. ReadTo(bytes, size, Reach(disk), off, len, buf)
        BY <3>2, <3>3, <3>4, <3>5, <3>8, <4>1 DEF ReadTo
      <4> QED
        BY <4>2, ReadAll
    <3>7. Promise(t, buffer[t])
      BY <3>3, <3>6 DEF Promise, bytes, off, len, buf
    <3> QED
      BY <1>1, <2>1, <3>7, ReturnSeen
  <2> QED
    BY <2>2, <2>3
<1> QED
  BY <1>2, <1>3, <1>4 DEF Jobs

\* Steps that touch nothing of a call and no file_t.
LEMMA QuietUnseen ==
  ASSUME UNCHANGED <<disk, req, reply, job, failed, file, directory>>
  PROVE  AbstractStep
  BY Unseen DEF LostFiles, Lost, Lookups, MisledReads, Misled

LEMMA TransferSeen == ASSUME Ext2Inv, NEW t \in Tasks, Transfer(t) PROVE AbstractStep
<1>1. /\ pc[t] = "transfer" /\ UNCHANGED <<disk, req, reply, job, file, directory>>
  BY DEF Transfer, At, globals
<1>2. Functions /\ req[t] # Idle
  BY <1>1 DEF Ext2Inv, Private, Control
<1>3. \A u \in Tasks \ {t} : failed'[u] = failed[u]
  <2>1. PICK v : failed' = [failed EXCEPT ![t] = v]
    BY DEF Transfer
  <2> QED
    BY <1>2, <2>1 DEF Functions
<1>4. LostFiles' = LostFiles
  BY <1>1 DEF LostFiles, Lost, Lookups
<1> QED
  BY <1>1, <1>2, <1>3, <1>4, MaybeMisled

LEMMA LookupSeen == ASSUME Ext2Inv, NEW t \in Tasks, Lookup(t) PROVE AbstractStep
<1> DEFINE n == req[t].inode
<1>1. /\ pc[t] = "lookup" /\ UNCHANGED <<disk, req, reply, job, failed, directory>>
      /\ file' = file \/ (file[n] = NULL /\ file' = [file EXCEPT ![n] = Loading])
  BY DEF Lookup, At, globals, transfer
<1>2. \A m \in Lookups : file'[m] = Garbage <=> file[m] = Garbage
  BY <1>1, ValuesAssumption DEF Ext2Inv, Types
<1>3. LostFiles' = LostFiles
  BY <1>1, <1>2 DEF LostFiles, Lost, Lookups
<1>4. MisledReads' = MisledReads
  BY <1>1 DEF MisledReads, Misled
<1> QED
  BY <1>1, <1>3, <1>4, Unseen

LEMMA FetchSeen == ASSUME Ext2Inv, NEW t \in Tasks, Fetch(t) PROVE AbstractStep
<1>1. /\ pc[t] = "fetch" /\ UNCHANGED <<disk, req, reply, job, directory>>
  BY DEF Fetch, At, globals
<1>2. PICK n \in Lookups : n = req[t].inode
  BY <1>1 DEF Ext2Inv, Private, Control
<1>3. failed' = failed
  BY DEF Fetch, transfer
<1>4. MisledReads' = MisledReads
  BY <1>1, <1>3 DEF MisledReads, Misled
<1>5. CASE file' = [file EXCEPT ![n] = Garbage]
  <2>1. \A m \in Lookups : file'[m] = Garbage <=> m = n \/ file[m] = Garbage
    BY <1>5 DEF Ext2Inv, Types
  <2>2. LostFiles' = LostFiles \cup {n}
    BY <1>1, <2>1 DEF LostFiles, Lost, Lookups
  <2> QED
    BY <1>1, <1>4, <2>2, FileLost
<1>6. CASE file' = file
  BY <1>1, <1>3, <1>6, QuietUnseen
<1> QED
  BY <1>2, <1>5, <1>6 DEF Fetch

LEMMA FillInodeSeen == ASSUME Ext2Inv, Ext2Inv', NEW t \in Tasks, FillInode(t) PROVE AbstractStep
<1>1. /\ pc[t] = "inode" /\ UNCHANGED <<disk, req, reply, directory>>
  BY DEF FillInode, At, globals
<1>2. PICK n \in Lookups : n = req[t].inode
  BY <1>1 DEF Ext2Inv, Private, Control
<1>3. job[t] = Idle /\ Functions /\ file[n] = Loading
  BY <1>1, <1>2 DEF Ext2Inv, Private, Control, Shared, Loads
<1>4. PICK v : file' = [file EXCEPT ![n] = v]
  BY <1>2 DEF FillInode
<1>5. \A m \in Lookups \ {n} : file'[m] = file[m]
  BY <1>4 DEF Ext2Inv, Types
<1>6. MisledReads' = MisledReads
  <2>1. CASE job' = job /\ failed' = failed
    BY <1>1, <2>1 DEF MisledReads, Misled
  <2>2. CASE \E f, size, off, len : StartRead(t, f, size, off, len)
    <3>1. PICK j : job' = [job EXCEPT ![t] = j] /\ failed' = [failed EXCEPT ![t] = "none"]
      BY <2>2 DEF StartRead
    <3>2. failed'[t] = "none" /\ \A u \in Tasks \ {t} : job'[u] = job[u] /\ failed'[u] = failed[u]
      BY <1>3, <3>1 DEF Functions
    <3> QED
      BY <1>1, <1>3, <3>2 DEF MisledReads, Misled
  <2> QED
    BY <2>1, <2>2 DEF FillInode, transfer
<1>7. CASE file'[n] = Garbage
  <2>1. LostFiles' = LostFiles \cup {n}
    BY <1>1, <1>5, <1>7 DEF LostFiles, Lost, Lookups
  <2> QED
    BY <1>1, <1>6, <2>1, FileLost
<1>8. CASE file'[n] # Garbage
  <2>1. LostFiles' = LostFiles
    BY <1>1, <1>3, <1>5, <1>8, ValuesAssumption DEF LostFiles, Lost, Lookups
  <2> QED
    BY <1>1, <1>6, <2>1, Unseen
<1> QED
  BY <1>7, <1>8

LEMMA FillDirSeen == ASSUME Ext2Inv, NEW t \in Tasks, FillDir(t) PROVE AbstractStep
<1>1. /\ pc[t] = "parse" /\ UNCHANGED <<disk, req, reply, file, job, failed>>
  BY DEF FillDir, At, globals, transfer
<1>2. PICK n \in Lookups : n = req[t].inode
  BY <1>1 DEF Ext2Inv, Private, Control
<1>3. directory[n].state = "none"
  BY <1>1, <1>2 DEF Ext2Inv, Private, Control, Shared, Lists, Active, ReadLabels
<1>4. PICK v : directory' = [directory EXCEPT ![n] = v]
  BY <1>2 DEF FillDir
<1>5. \A m \in Lookups \ {n} : directory'[m] = directory[m]
  BY <1>4 DEF Ext2Inv, Types
<1>6. MisledReads' = MisledReads
  BY <1>1 DEF MisledReads, Misled
<1>7. CASE directory'[n].state = "garbage"
  <2>1. LostFiles' = LostFiles \cup {n}
    BY <1>1, <1>5, <1>7 DEF LostFiles, Lost, Lookups
  <2> QED
    BY <1>1, <1>6, <2>1, FileLost
<1>8. CASE directory'[n].state # "garbage"
  <2>1. LostFiles' = LostFiles
    BY <1>1, <1>3, <1>5, <1>8 DEF LostFiles, Lost, Lookups
  <2> QED
    BY <1>1, <1>6, <2>1, Unseen
<1> QED
  BY <1>7, <1>8

LEMMA OpenSeen == ASSUME Ext2Inv, NEW t \in Tasks, Open(t) PROVE AbstractStep
<1> DEFINE n == req[t].inode
<1>1. /\ pc[t] = "opened" /\ UNCHANGED <<globals, file, directory>>
  BY DEF Open, At
<1>2. Private(t) /\ Shared(t) /\ Functions /\ n \in Lookups /\ req[t] # Idle
  BY <1>1 DEF Ext2Inv, Private, Control
<1>3. CASE Lost(n)
  <2>1. Return(t, Garbage) /\ n \in LostFiles
    BY <1>2, <1>3 DEF Open, LostFiles
  <2> QED
    BY <1>1, <2>1, ReturnSeen
<1>4. CASE ~Lost(n)
  <2>1. Inode(t) = Node(t)
    BY <1>1, <1>2, <1>4, InodeOf DEF Shared, Whole, Lost
  <2>2. CASE Node(t).type = "dir"
    <3>1. Return(t, EISDIR) /\ Promise(t, EISDIR)
      BY <1>4, <2>1, <2>2 DEF Open, Promise
    <3> QED
      BY <1>1, <3>1, ReturnSeen
  <2>3. CASE Node(t).type # "dir"
    <3>1. StartRead(t, "read", Node(t).size, req[t].off, req[t].len) /\ req' = req /\ reply' = reply
      BY <1>4, <2>1, <2>3 DEF Open
    <3>2. \A u \in Tasks \ {t} : job'[u] = job[u] /\ failed'[u] = failed[u]
      BY <1>2, <3>1 DEF StartRead, Functions
    <3>3. LostFiles' = LostFiles /\ disk' = disk
      BY <1>1 DEF LostFiles, Lost, Lookups, globals
    <3> QED
      BY <1>2, <3>1, <3>2, <3>3, MaybeMisled
  <2> QED
    BY <2>2, <2>3
<1> QED
  BY <1>3, <1>4

LEMMA CopyBlockSeen == ASSUME Ext2Inv, NEW t \in Tasks, CopyBlock(t) PROVE AbstractStep
<1>1. pc[t] = "data" /\ UNCHANGED <<globals, file, directory>>
  BY DEF CopyBlock, At
<1>2. CASE GotAll(t) \/ job[t].for = "dir"
  <2>1. UNCHANGED <<disk, req, reply, job, failed, file, directory>>
    BY <1>1, <1>2 DEF CopyBlock, transfer, globals
  <2> QED
    BY <2>1, QuietUnseen
<1>3. CASE ~GotAll(t) /\ job[t].for # "dir"
  <2>1. Return(t, EIO)
    BY <1>3 DEF CopyBlock
  <2>2. Node(t).type # "dir"
    BY <1>1, <1>3 DEF Ext2Inv, Private, Control, Jobs, Reading, Active, ReadLabels
  <2>3. Promise(t, EIO)
    BY <2>2 DEF Promise
  <2> QED
    BY <1>1, <2>1, <2>3, ReturnSeen
<1> QED
  BY <1>2, <1>3

\* The programs see the file system of FileSpec: however their lookups and
\* reads interleave and whichever transfers fail, each gets exactly the bytes of
\* its own file or an error, but for lost files, misled reads and the bytes of
\* holes.
THEOREM Ext2Refines == Spec => ImplementsFile
<1>1. Init => Abstract!Init
  <2> SUFFICES ASSUME Init PROVE LostFiles = {} /\ MisledReads = {}
    BY ViewIsAbstract DEF Init
  <2>1. \A n \in Lookups : ~Lost(n)
    BY ValuesAssumption DEF Init, Lost, Directory
  <2> QED
    BY <2>1 DEF Init, LostFiles, MisledReads
<1>2. Ext2Inv /\ Ext2Inv' /\ [Next]_vars => [Abstract!Next]_(Abstract!vars)
  <2> SUFFICES ASSUME Ext2Inv, Ext2Inv', [Next]_vars PROVE AbstractStep
    <3>1. Abstract!vars = view /\ Abstract!vars' = view'
      BY DEF Abstract!vars, view, Contents, LostFiles, MisledReads
    <3> QED
      BY <3>1 DEF AbstractStep
  <2>1. CASE Probe
    BY <2>1, QuietUnseen DEF Probe, transfer
  <2>2. CASE Halted \/ UNCHANGED vars
    BY <2>2, QuietUnseen DEF Halted, vars, globals, transfer
  <2>3. ASSUME NEW t \in Tasks, NEW n \in Lookups, NEW r \in Ranges, Call(t, n, r) PROVE AbstractStep
    BY <2>3, CallSeen
  <2>4. ASSUME NEW t \in Tasks,
               \/ Find(t) \/ IoLock(t) \/ Seek(t) \/ IoUnlock(t) \/ Found(t) \/ ReadTooFar(t)
               \/ ReadDirect(t) \/ ReadIndirect(t) \/ FollowPointer(t) \/ CopyBehind(t)
        PROVE  AbstractStep
    BY <2>4, QuietUnseen DEF Find, IoLock, Seek, IoUnlock, Found, ReadTooFar, CopyBehind, ReadDirect,
       ReadIndirect, FollowPointer, globals, transfer
  <2>5. ASSUME NEW t \in Tasks, Step(t) PROVE AbstractStep
    BY <2>4, <2>5, LookupSeen, FetchSeen, TransferSeen, FillInodeSeen, FillDirSeen, OpenSeen,
       CopyBlockSeen, ReadDoneSeen DEF Step
  <2> QED
    BY <2>1, <2>2, <2>3, <2>5 DEF Next
<1> QED
  BY <1>1, <1>2, Ext2Invariant, PTL DEF Spec, ImplementsFile, Abstract!Spec

-----------------------------------------------------------------------------
(* Directories: ext2_fetch_dir() finds the entries one after the other *)

\* Induction up to a number, over a set.
LEMMA UpTo ==
  ASSUME NEW N \in Nat, NEW T, 0 \in T, \A k \in 1 .. N : k - 1 \in T => k \in T
  PROVE  \A k \in 0 .. N : k \in T
<1> DEFINE S == {k \in 0 .. N : k \notin T}
           Less == {ss \in Nat \X Nat : ss[1] < ss[2]}
<1>1. SUFFICES ASSUME S # {} PROVE FALSE
  OBVIOUS
<1>2. IsWellFoundedOn(Less, Nat)
  BY NatLessThanWellFounded, Zenon DEF OpToRel
<1>3. S \in SUBSET Nat
  OBVIOUS
<1> HIDE DEF Less, S
<1>4. PICK x \in S : \A y \in S : ~(<<y, x>> \in Less)
  BY <1>1, <1>2, <1>3, WFMin, Zenon
<1>5. x \in 0 .. N /\ x \notin T
  BY DEF S
<1>6. x \in 1 .. N /\ x - 1 \in 0 .. N /\ x - 1 \notin T
  BY <1>5
<1>7. x - 1 \in S
  BY <1>6 DEF S
<1>8. <<x - 1, x>> \in Less
  BY <1>5, <1>6 DEF Less
<1> QED
  BY <1>4, <1>7, <1>8

\* A function that adds up the lengths of the first n entries.
Ends(f, dirents, n) ==
  f = [k \in 0 .. n |-> IF k = 0 THEN 0 ELSE f[k - 1] + dirents[k].rec_len]

LEMMA EndsExist ==
  ASSUME NEW dirents, NEW N \in Nat
  PROVE  \E f : Ends(f, dirents, N)
<1> DEFINE T == {n \in 0 .. N : \E f : Ends(f, dirents, n)}
<1>1. 0 \in T
  <2>1. Ends([k \in 0 .. 0 |-> 0], dirents, 0)
    BY DEF Ends
  <2> QED
    BY <2>1
<1>2. ASSUME NEW n \in 1 .. N, n - 1 \in T PROVE n \in T
  <2>1. PICK f : Ends(f, dirents, n - 1)
    BY <1>2
  <2> DEFINE g == [k \in 0 .. n |-> IF k = n THEN f[n - 1] + dirents[n].rec_len ELSE f[k]]
  <2>2. \A k \in 0 .. n - 1 :
          g[k] = f[k] /\ f[k] = IF k = 0 THEN 0 ELSE f[k - 1] + dirents[k].rec_len
    BY <2>1 DEF Ends
  <2>3. g[n] = g[n - 1] + dirents[n].rec_len
    BY <2>2
  <2>4. \A k \in 0 .. n : g[k] = IF k = 0 THEN 0 ELSE g[k - 1] + dirents[k].rec_len
    <3> SUFFICES ASSUME NEW k \in 0 .. n
                 PROVE  g[k] = IF k = 0 THEN 0 ELSE g[k - 1] + dirents[k].rec_len
      OBVIOUS
    <3>1. CASE k = n
      BY <2>3, <3>1
    <3>2. CASE k # n
      <4>1. k \in 0 .. n - 1 /\ (k # 0 => k - 1 \in 0 .. n - 1)
        BY <3>2
      <4> HIDE DEF g
      <4> QED
        BY <2>2, <4>1
    <3> QED
      BY <3>1, <3>2
  <2>5. Ends(g, dirents, n)
    BY <2>4 DEF Ends
  <2> HIDE DEF g
  <2> QED
    BY <2>5
<1> HIDE DEF T
<1>3. N \in T
  BY <1>1, <1>2, UpTo
<1> QED
  BY <1>3 DEF T

Dirents == [inode : Nat, rec_len : Nat \ {0}]

\* The entries end one after the other.
LEMMA EndsGrow ==
  ASSUME NEW dirents \in Seq(Dirents)
  PROVE  LET end == EntryEnd(dirents)
             n == Len(dirents)
         IN  /\ end[0] = 0
             /\ \A k \in 0 .. n : end[k] \in Nat /\ k <= end[k]
             /\ \A k \in 1 .. n : end[k] = end[k - 1] + dirents[k].rec_len
             /\ \A j, k \in 0 .. n : j < k => end[j] < end[k]
<1> DEFINE end == EntryEnd(dirents)
           n == Len(dirents)
<1>1. n \in Nat
  OBVIOUS
<1>2. Ends(end, dirents, n)
  <2>1. \E f : Ends(f, dirents, n)
    BY <1>1, EndsExist
  <2> QED
    BY <2>1 DEF EntryEnd, Ends
<1>3. \A k \in 1 .. n : dirents[k].rec_len \in Nat \ {0}
  <2>1. \A k \in 1 .. n : dirents[k] \in Dirents
    OBVIOUS
  <2> QED
    BY <2>1 DEF Dirents
<1> HIDE DEF end, n
<1>4. end[0] = 0 /\ \A k \in 1 .. n : end[k] = end[k - 1] + dirents[k].rec_len
  <2>1. \A k \in 0 .. n : end[k] = IF k = 0 THEN 0 ELSE end[k - 1] + dirents[k].rec_len
    BY <1>2 DEF Ends
  <2> QED
    BY <1>1, <2>1
<1> DEFINE T == {k \in 0 .. n : end[k] \in Nat /\ k <= end[k]}
<1>5. 0 \in T /\ \A k \in 1 .. n : k - 1 \in T => k \in T
  <2>1. ASSUME NEW k \in 1 .. n, k - 1 \in T PROVE k \in T
    <3>1. end[k - 1] \in Nat /\ k - 1 <= end[k - 1] /\ dirents[k].rec_len \in Nat \ {0}
      BY <1>3, <2>1
    <3>2. end[k] = end[k - 1] + dirents[k].rec_len
      BY <1>4
    <3> QED
      BY <1>1, <3>1, <3>2
  <2> QED
    BY <1>1, <1>4, <2>1
<1> HIDE DEF T
<1>6. \A k \in 0 .. n : end[k] \in Nat /\ k <= end[k]
  BY <1>1, <1>5, UpTo DEF T
<1> DEFINE R == {k \in 0 .. n : \A j \in 0 .. n : j < k => end[j] < end[k]}
<1>7. 0 \in R /\ \A k \in 1 .. n : k - 1 \in R => k \in R
  <2>1. ASSUME NEW k \in 1 .. n, k - 1 \in R, NEW j \in 0 .. n, j < k PROVE end[j] < end[k]
    <3>1. end[k - 1] < end[k] /\ end[k - 1] \in Nat /\ end[k] \in Nat /\ end[j] \in Nat
      <4>1. k - 1 \in 0 .. n /\ k \in 0 .. n
        BY <1>1
      <4>2. end[k - 1] \in Nat /\ end[k] \in Nat /\ end[j] \in Nat
        BY <1>6, <4>1
      <4>3. end[k] = end[k - 1] + dirents[k].rec_len /\ dirents[k].rec_len \in Nat \ {0}
        BY <1>3, <1>4
      <4> QED
        BY <4>2, <4>3
    <3>2. j < k - 1 => end[j] < end[k - 1]
      BY <2>1
    <3>3. j = k - 1 \/ j < k - 1
      BY <1>1, <2>1
    <3> QED
      BY <3>1, <3>2, <3>3
  <2> QED
    BY <1>1, <2>1
<1> HIDE DEF R
<1>8. \A j, k \in 0 .. n : j < k => end[j] < end[k]
  BY <1>1, <1>7, UpTo DEF R
<1> QED
  BY <1>4, <1>6, <1>8 DEF end, n

\* The bytes of a directory that has been read.
WholeDir(d, inode, bytes) ==
  /\ inode.dirents \in Seq(Dirents) /\ inode.size \in Nat
  /\ EntryEnd(inode.dirents)[Len(inode.dirents)] = inode.size
  /\ bytes \in Seq(Nat) /\ Len(bytes) = inode.size
  /\ DOMAIN Bytes(d, inode) = 1 .. inode.size
  /\ \A i \in 1 .. inode.size : bytes[i] = Bytes(d, inode)[i]
  /\ \A i, j \in 1 .. inode.size : Bytes(d, inode)[i] = Bytes(d, inode)[j] => i = j

\* The bytes at the end of an entry are those of the next one.
LEMMA DirentThere ==
  ASSUME NEW d, NEW inode, NEW bytes, WholeDir(d, inode, bytes),
         NEW k \in 1 .. Len(inode.dirents)
  PROVE  LET end == EntryEnd(inode.dirents)
         IN  /\ end[k - 1] < Len(bytes)
             /\ DirentAt(d, inode, bytes[end[k - 1] + 1]) = inode.dirents[k]
<1> DEFINE dirents == inode.dirents
           end == EntryEnd(dirents)
           n == Len(dirents)
           size == inode.size
           all == Bytes(d, inode)
<1>1. /\ dirents \in Seq(Dirents) /\ size \in Nat /\ end[n] = size /\ Len(bytes) = size
      /\ \A i \in 1 .. size : bytes[i] = all[i]
      /\ \A i, j \in 1 .. size : all[i] = all[j] => i = j
  BY DEF WholeDir
<1>2. n \in Nat /\ DOMAIN dirents = 1 .. n
  BY <1>1
<1>3. /\ \A j \in 0 .. n : end[j] \in Nat
      /\ \A i, j \in 0 .. n : i < j => end[i] < end[j]
  BY <1>1, EndsGrow
<1>4. DirentAt(d, inode, bytes[end[k - 1] + 1]) =
        dirents[CHOOSE j \in 1 .. n : all[end[j - 1] + 1] = bytes[end[k - 1] + 1]]
  BY <1>2 DEF DirentAt
<1> HIDE DEF dirents, end, n, size, all
<1>5. ASSUME NEW j \in 1 .. n
      PROVE  j - 1 \in 0 .. n /\ end[j - 1] \in Nat /\ end[j - 1] < size
  <2>1. j - 1 \in 0 .. n /\ n \in 0 .. n /\ j - 1 < n
    BY <1>2
  <2> QED
    BY <1>1, <1>3, <2>1
<1>6. \A j \in 1 .. n : end[j - 1] + 1 \in 1 .. size
  BY <1>1, <1>5
<1>7. k \in 1 .. n
  BY DEF n, dirents
<1>8. bytes[end[k - 1] + 1] = all[end[k - 1] + 1]
  BY <1>1, <1>6, <1>7
<1>9. ASSUME NEW j \in 1 .. n, all[end[j - 1] + 1] = all[end[k - 1] + 1]
      PROVE  j = k
  <2>1. end[j - 1] + 1 = end[k - 1] + 1
    BY <1>1, <1>6, <1>7, <1>9
  <2>2. end[j - 1] = end[k - 1]
    BY <1>5, <1>7, <2>1
  <2>3. j - 1 \in 0 .. n /\ k - 1 \in 0 .. n /\ ~(j - 1 < k - 1) /\ ~(k - 1 < j - 1)
    BY <1>3, <1>5, <1>7, <2>2
  <2> QED
    BY <2>3
<1>10. (CHOOSE j \in 1 .. n : all[end[j - 1] + 1] = bytes[end[k - 1] + 1]) = k
  BY <1>7, <1>8, <1>9
<1> QED
  BY <1>1, <1>4, <1>5, <1>7, <1>10 DEF end, dirents

\* The places ext2_fetch_dir() comes to, and the function that gives them.
Scan(d, inode, bytes, i) ==
  IF i < Len(bytes) THEN i + DirentAt(d, inode, bytes[i + 1]).rec_len ELSE i
Scans(f, d, inode, bytes) ==
  f = [k \in 0 .. Len(bytes) |-> IF k = 0 THEN 0 ELSE Scan(d, inode, bytes, f[k - 1])]

\* After each entry comes the next, and after the last one the end.
LEMMA ScanExists ==
  ASSUME NEW d, NEW inode, NEW bytes, WholeDir(d, inode, bytes)
  PROVE  /\ \E f : Scans(f, d, inode, bytes)
         /\ \A f : Scans(f, d, inode, bytes) =>
              \A k \in 0 .. Len(bytes) :
                f[k] = IF k < Len(inode.dirents) THEN EntryEnd(inode.dirents)[k] ELSE Len(bytes)
<1> DEFINE dirents == inode.dirents
           end == EntryEnd(dirents)
           n == Len(dirents)
           m == Len(bytes)
           g == [k \in 0 .. m |-> IF k < n THEN end[k] ELSE m]
<1>1. dirents \in Seq(Dirents) /\ end[n] = m /\ m \in Nat /\ n \in Nat
  BY DEF WholeDir
<1>2. /\ \A k \in 0 .. n : end[k] \in Nat /\ k <= end[k]
      /\ end[0] = 0 /\ \A k \in 1 .. n : end[k] = end[k - 1] + dirents[k].rec_len
  BY <1>1, EndsGrow
<1>3. \A k \in 1 .. n : end[k - 1] < m /\ DirentAt(d, inode, bytes[end[k - 1] + 1]) = dirents[k]
  BY DirentThere
<1> HIDE DEF dirents, end, n, m, g
<1>4. \A k \in 1 .. n : Scan(d, inode, bytes, end[k - 1]) = end[k]
  BY <1>2, <1>3 DEF Scan, m
<1>5. Scan(d, inode, bytes, m) = m
  BY <1>1 DEF Scan, m
<1>6. g = [k \in 0 .. m |-> IF k < n THEN end[k] ELSE m]
  BY DEF g
<1>7. g[0] = 0
  <2>1. n = 0 => m = 0
    BY <1>1, <1>2
  <2> QED
    BY <1>1, <1>2, <1>6, <2>1
<1>8. ASSUME NEW k \in 1 .. m PROVE Scan(d, inode, bytes, g[k - 1]) = g[k]
  <2>1. k - 1 \in 0 .. m /\ k \in 0 .. m
    BY <1>1
  <2>2. g[k - 1] = (IF k - 1 < n THEN end[k - 1] ELSE m) /\ g[k] = (IF k < n THEN end[k] ELSE m)
    BY <1>6, <2>1
  <2>3. CASE k <= n
    <3>1. k \in 1 .. n /\ k - 1 < n
      BY <1>1, <2>3
    <3>2. g[k] = end[k]
      BY <1>1, <2>2, <2>3
    <3> QED
      BY <1>4, <2>2, <3>1, <3>2
  <2>4. CASE k > n
    <3>1. ~(k - 1 < n) /\ ~(k < n)
      BY <1>1, <2>4
    <3> QED
      BY <1>5, <2>2, <3>1
  <2> QED
    BY <1>1, <2>3, <2>4
<1>9. Scans(g, d, inode, bytes)
  <2>1. \A k \in 0 .. m : g[k] = IF k = 0 THEN 0 ELSE Scan(d, inode, bytes, g[k - 1])
    BY <1>1, <1>7, <1>8
  <2> QED
    BY <1>6, <2>1 DEF Scans, m
<1>10. ASSUME NEW f, Scans(f, d, inode, bytes) PROVE \A k \in 0 .. m : f[k] = g[k]
  <2> DEFINE T == {k \in 0 .. m : f[k] = g[k]}
  <2>1. \A k \in 0 .. m : f[k] = IF k = 0 THEN 0 ELSE Scan(d, inode, bytes, f[k - 1])
    BY <1>10 DEF Scans, m
  <2>2. 0 \in T
    BY <1>1, <1>7, <2>1
  <2>3. ASSUME NEW k \in 1 .. m, k - 1 \in T PROVE k \in T
    <3>1. k \in 0 .. m /\ k # 0 /\ f[k - 1] = g[k - 1]
      BY <1>1, <2>3
    <3> QED
      BY <1>8, <2>1, <3>1
  <2> HIDE DEF T
  <2> QED
    BY <1>1, <2>2, <2>3, UpTo DEF T
<1>11. \A k \in 0 .. m : g[k] = IF k < n THEN end[k] ELSE m
  BY <1>6
<1> QED
  BY <1>9, <1>10, <1>11 DEF m, n, end, dirents

\* ext2_fetch_dir() finds the entries of the directory, every one and in order.
LEMMA EntriesRight ==
  ASSUME NEW d, NEW inode, NEW bytes, WholeDir(d, inode, bytes)
  PROVE  Entries(d, inode, bytes) = Used([k \in DOMAIN inode.dirents |-> inode.dirents[k].inode])
<1> DEFINE dirents == inode.dirents
           end == EntryEnd(dirents)
           n == Len(dirents)
           m == Len(bytes)
           f == CHOOSE f : Scans(f, d, inode, bytes)
           found == {k \in 1 .. m : f[k - 1] < m}
<1>1. Entries(d, inode, bytes) = Used([k \in found |-> DirentAt(d, inode, bytes[f[k - 1] + 1]).inode])
  BY DEF Entries, Scans, Scan
<1>2. /\ dirents \in Seq(Dirents) /\ end[n] = m /\ m \in Nat /\ n \in Nat /\ DOMAIN dirents = 1 .. n
  BY DEF WholeDir
<1>3. n <= m
  BY <1>2, EndsGrow
<1>4. \A k \in 0 .. m : f[k] = IF k < n THEN end[k] ELSE m
  BY ScanExists
<1>5. \A k \in 1 .. n : end[k - 1] < m /\ DirentAt(d, inode, bytes[end[k - 1] + 1]) = dirents[k]
  BY DirentThere
<1> HIDE DEF f, m, n, end, dirents
<1>6. ASSUME NEW k \in 1 .. m
      PROVE  /\ k <= n => k \in 1 .. n /\ f[k - 1] = end[k - 1]
             /\ k > n => f[k - 1] = m
  <2>1. k - 1 \in 0 .. m /\ (k <= n => k - 1 < n) /\ (k > n => ~(k - 1 < n))
    BY <1>2
  <2> QED
    BY <1>2, <1>4, <2>1
<1>7. ASSUME NEW k \in 1 .. m PROVE k \in found <=> k \in 1 .. n
  <2>1. CASE k <= n
    BY <1>5, <1>6, <2>1
  <2>2. CASE k > n
    <3>1. f[k - 1] = m /\ ~(m < m) /\ k \notin 1 .. n
      BY <1>2, <1>6, <2>2
    <3> QED
      BY <3>1
  <2> QED
    BY <1>2, <2>1, <2>2
<1>8. found = 1 .. n
  <2>1. \A k \in 1 .. n : k \in 1 .. m
    BY <1>2, <1>3
  <2> QED
    BY <1>7, <2>1
<1> HIDE DEF found
<1>9. \A k \in 1 .. n : DirentAt(d, inode, bytes[f[k - 1] + 1]).inode = dirents[k].inode
  <2>1. \A k \in 1 .. n : k \in 1 .. m /\ k <= n
    BY <1>2, <1>3
  <2> QED
    BY <1>5, <1>6, <2>1
<1>10. [k \in found |-> DirentAt(d, inode, bytes[f[k - 1] + 1]).inode] = [k \in DOMAIN dirents |-> dirents[k].inode]
  BY <1>2, <1>8, <1>9
<1> QED
  BY <1>1, <1>10 DEF dirents

\* What is listed of a directory are its entries.
Listed(n) ==
  directory[n].state = "listed" =>
    directory[n].files =
      Used([k \in DOMAIN disk.inodes[n].dirents |-> disk.inodes[n].dirents[k].inode])
ListInv == \A n \in Lookups : Listed(n)

LEMMA ListInit == Init => ListInv
  BY DEF Init, ListInv, Listed, Directory, Lookups

\* What FillDir lists.
LEMMA DirListed ==
  ASSUME Ext2Inv, ListInv, NEW t \in Tasks, FillDir(t)
  PROVE  \A n \in Lookups : Listed(n)'
<1> DEFINE m == req[t].inode
           inode == disk.inodes[m]
           bytes == buffer[t]
           right == Used([k \in DOMAIN inode.dirents |-> inode.dirents[k].inode])
           all == Bytes(disk, inode)
<1>1. /\ pc[t] = "parse" /\ disk' = disk
      /\ directory' = [directory EXCEPT ![m] =
                     IF Len(bytes) = job[t].len /\ failed[t] = "none"
                     THEN Directory("listed", Entries(disk, Inode(t), bytes))
                     ELSE Directory("garbage", <<>>)]
  BY DEF FillDir, At, globals
<1>2. Private(t) /\ Shared(t) /\ m \in Lookups /\ job[t] # Idle /\ job[t].for = "dir" /\ Lists(t)
  BY <1>1 DEF Ext2Inv, Private, Control, Lists, Active, ReadLabels
<1>3. job[t].off = 0 /\ job[t].len = inode.size
  BY <1>2 DEF Private, Reading, Lists, Node
<1>4. Inode(t) = inode
  BY <1>2, InodeOf DEF Shared, Node
<1>5. PICK p \in Lookups : p = m
  BY <1>2
<1>6. \A n \in Lookups \ {p} : Listed(n)'
  <2>1. \A n \in Lookups \ {p} : directory'[n] = directory[n]
    BY <1>1, <1>5 DEF Ext2Inv, Types
  <2>2. \A n \in Lookups : Listed(n)
    BY DEF ListInv
  <2> QED
    BY <1>1, <2>1, <2>2 DEF Listed
<1>7. CASE Len(bytes) = inode.size /\ failed[t] = "none"
  <2>1. Consistent(disk) /\ inode.type = "dir"
    BY <1>2, DisksAssumption DEF Ext2Inv, Types, Private, Reading, Lists, Node
  <2>2. IsDirectory(disk, inode) /\ inode.size \in Nat
    BY <1>2, <2>1 DEF Consistent, Lookups
  <2>3. /\ bytes \in Seq(Nat) /\ (bytes # <<>> => 0 + Len(bytes) <= Reach(disk))
        /\ \A i \in 1 .. Len(bytes) : bytes[i] = StoredAt(disk, inode, 0 + i)
    BY <1>2, <1>3, <1>7 DEF Private, Control, Reading, Lists, Node
  <2>4. /\ all \in Seq(Nat \cup {Hole})
        /\ Len(all) = IF inode.size > Reach(disk) THEN Reach(disk) ELSE inode.size
        /\ \A i \in 1 .. Len(all) : all[i] = Hole \/ all[i] = StoredAt(disk, inode, i)
    BY <1>2, <2>1, FileBytes DEF Lookups
  <2>13. \A i \in DOMAIN all : all[i] # Hole
    BY <2>2 DEF IsDirectory
  <2>5. Reach(disk) \in Nat
    BY <2>1, FileSizes
  <2> HIDE DEF inode, bytes, all
  <2>6. inode.size <= Reach(disk)
    BY <1>7, <2>2, <2>3, <2>5
  <2>7. Len(all) = inode.size /\ DOMAIN all = 1 .. inode.size
    BY <2>2, <2>4, <2>5, <2>6
  <2>8. \A i \in 1 .. inode.size : bytes[i] = all[i]
    <3>1. \A i \in 1 .. inode.size : 0 + i = i
      BY <2>2
    <3> QED
      BY <1>7, <2>2, <2>3, <2>4, <2>7, <2>13, <3>1
  <2>9. WholeDir(disk, inode, bytes)
    BY <1>7, <2>2, <2>3, <2>7, <2>8 DEF WholeDir, IsDirectory, Dirents, all
  <2>10. Entries(disk, Inode(t), bytes) = right
    BY <1>4, <2>9, EntriesRight
  <2>11. directory'[m] = Directory("listed", right)
    <3> HIDE DEF right
    <3> QED
      BY <1>1, <1>2, <1>3, <1>7, <2>10 DEF Ext2Inv, Types
  <2>12. Listed(p)'
    <3>1. directory'[p].files = right
      BY <1>5, <2>11 DEF Directory
    <3>2. right = Used([k \in DOMAIN disk.inodes[p].dirents |-> disk.inodes[p].dirents[k].inode])
      BY <1>5, Zenon DEF inode
    <3> HIDE DEF right
    <3> QED
      BY <1>1, <3>1, <3>2, Zenon DEF Listed
  <2> QED
    BY <1>1, <1>6, <2>12 DEF Lookups
<1>8. CASE ~(Len(bytes) = inode.size /\ failed[t] = "none")
  <2>1. directory'[m] = Directory("garbage", <<>>)
    BY <1>1, <1>2, <1>3, <1>8 DEF Ext2Inv, Types
  <2>2. Listed(p)'
    BY <1>5, <2>1 DEF Listed, Directory
  <2> QED
    BY <1>1, <1>6, <2>2 DEF Lookups
<1> QED
  BY <1>7, <1>8

LEMMA ListStep == Ext2Inv /\ ListInv /\ [Next]_vars => ListInv'
<1> SUFFICES ASSUME Ext2Inv, ListInv, [Next]_vars PROVE ListInv'
  OBVIOUS
<1>1. CASE UNCHANGED <<disk, directory>>
  BY <1>1 DEF ListInv, Listed, Lookups
<1>2. CASE Probe \/ Halted \/ UNCHANGED vars
  BY <1>1, <1>2 DEF Probe, Halted, vars, globals
<1>3. ASSUME NEW t \in Tasks, NEW n \in Lookups, NEW r \in Ranges, Call(t, n, r) PROVE ListInv'
  BY <1>1, <1>3 DEF Call, globals
<1>4. ASSUME NEW t \in Tasks, Step(t) PROVE ListInv'
  <2>1. disk' = disk /\ (FillDir(t) \/ directory' = directory)
    BY <1>4 DEF Step, Find, Lookup, Fetch, IoLock, Seek, Transfer, IoUnlock, FillInode, FillDir, Found,
       Open, ReadDirect, ReadIndirect, ReadTooFar, FollowPointer, CopyBlock, CopyBehind, ReadDone, globals
  <2>2. \A n \in Lookups : Listed(n)'
    BY <2>1, DirListed DEF ListInv, Listed, Lookups
  <2> QED
    BY <2>1, <2>2 DEF ListInv, Lookups
<1> QED
  BY <1>2, <1>3, <1>4 DEF Next

\* Every inode in memory was copied from the place where it is on the disk
\* (fetch_inode()), and every directory that was read lists exactly its entries in
\* use, in order (ext2_fetch_dir()).
THEOREM FetchesRight == Spec => []FetchedRight
<1>1. Ext2Inv /\ ListInv => FetchedRight
  BY DEF Ext2Inv, ListInv, Inodes, Listed, Fetched, FetchedRight
<1> QED
  BY <1>1, Ext2Invariant, ListInit, ListStep, PTL DEF Spec
=============================================================================
