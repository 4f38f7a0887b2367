----------------------------- MODULE AtaProofs ------------------------------
(***************************************************************************)
(* Proofs about AtaRead for any tasks, disks, counts and buffer size: no   *)
(* wake-up is lost, the DMA buffer is copied only after the transfer and   *)
(* channels belong to the holder of transfer_lock.                         *)
(***************************************************************************)
EXTENDS AtaRead, SequenceTheorems, TLAPS

\* Where a task holds transfer_lock.
Holding == {"loop", "issue", "start", "test", "yield", "finish"}

\* The lock's owner is the task that is between mutex_lock() and mutex_unlock().
OwnerInv == \A t \in Tasks : transfer_lock = t <=> pc[t] \in Holding

\* What the device and the channel of the lock's owner are doing at each place
\* of ata_read().  Once the transfer has started, exactly one of these holds:
\* the device is busy, its interrupt is pending, or data_ready is set.
StageInv ==
  \A t \in Tasks :
    LET c == Ch(t)
    IN /\ pc[t] \in {"loop", "issue"} => phase[c] = "idle" /\ ~stat_irq[c]
       /\ pc[t] = "start" => phase[c] = "ready" /\ ~stat_irq[c]
       /\ pc[t] \in {"issue", "start"} => ~data_ready[c]
       /\ pc[t] \in {"issue", "start", "test", "yield"} => signal_task[c] = t
       /\ pc[t] \in {"test", "yield"} =>
            \/ phase[c] = "busy" /\ ~stat_irq[c] /\ ~data_ready[c]
            \/ phase[c] \in {"done", "error"} /\ stat_irq[c] /\ ~data_ready[c]
            \/ phase[c] \in {"done", "error"} /\ ~stat_irq[c] /\ data_ready[c]
       /\ irq_wait[t] => pc[t] = "yield" /\ ~data_ready[c]
       /\ pc[t] = "finish" => phase[c] \in {"done", "error"} /\ ~stat_irq[c]

\* m blocks of a request, after its first n.
Chunk(r, n, m) ==
  [i \in 1 .. m |-> Block(ChannelOf(r.minor), DriveOf(r.minor), r.lba + n + i - 1)]

\* What the data path knows: a started chunk is not empty and fits the PRD, the
\* device was told where it starts, and the DMA buffer holds it at the end.
DataInv ==
  \A t \in Tasks :
    LET c == Ch(t)
    IN /\ Len(buf[t]) <= req[t].count
       /\ pc[t] \in {"issue", "start", "test", "yield", "finish"} => Remaining(t) > 0
       /\ pc[t] \in {"issue", "start", "test", "yield"} => prd[c] = TransferSize(t)
       /\ pc[t] \in {"start", "test", "yield"} =>
            /\ command[c].drive = DriveOf(req[t].minor)
            /\ command[c].lba = req[t].lba + Len(buf[t])
       /\ pc[t] \in {"test", "yield", "finish"} /\ phase[c] = "done" =>
            dma[c] = Chunk(req[t], Len(buf[t]), TransferSize(t))

\* The inductive invariant.
IInv ==
  TypeOK /\ OwnerInv /\ StageInv /\ TransferOwned /\ DataInv /\ DmaFits /\ ReadsWanted

-----------------------------------------------------------------------------
\* The channel of a disk is one of the controller's two.
LEMMA ChannelType == ASSUME NEW m \in Nat PROVE ChannelOf(m) \in Channels
  BY DEF ChannelOf, Channels

\* The drive is the master or the slave.
LEMMA DriveType == ASSUME NEW m \in Nat PROVE DriveOf(m) \in {0, 1}
  BY DEF DriveOf

\* The byte count does not wrap for a chunk smaller than the DMA region.
LEMMA ModSmall ==
  ASSUME NEW n \in Nat, NEW x \in Nat, x < n
  PROVE  x % n = x
  OBVIOUS

\* A request's disk is on one of the channels, and its numbers are naturals.
LEMMA RequestTypes ==
  ASSUME NEW r \in Requests
  PROVE  /\ r.minor \in Nat /\ r.count \in Nat /\ r.lba \in Nat
         /\ ChannelOf(r.minor) \in Channels /\ DriveOf(r.minor) \in {0, 1}
<1>1. r.minor \in Nat /\ r.count \in Nat /\ r.lba \in Nat
  BY AtaAssumption DEF Requests, AtaAssumption
<1> QED BY <1>1, ChannelType, DriveType

\* A chunk is a sequence of m blocks.
LEMMA ChunkType ==
  ASSUME NEW r \in Requests, NEW n \in Nat, NEW m \in Nat
  PROVE  Chunk(r, n, m) \in Seq(Blocks) /\ Len(Chunk(r, n, m)) = m
<1>1. \A i \in 1 .. m : Block(ChannelOf(r.minor), DriveOf(r.minor), r.lba + n + i - 1) \in Blocks
  BY RequestTypes DEF Block, Blocks
<1> QED BY <1>1 DEF Chunk

\* The wanted blocks are a sequence of n blocks.
LEMMA WantedType ==
  ASSUME NEW r \in Requests, NEW n \in Nat
  PROVE  Wanted(r, n) \in Seq(Blocks) /\ Len(Wanted(r, n)) = n
<1>1. \A i \in 1 .. n : Block(ChannelOf(r.minor), DriveOf(r.minor), r.lba + i - 1) \in Blocks
  BY RequestTypes DEF Block, Blocks
<1> QED BY <1>1 DEF Wanted

\* The wanted blocks followed by the next chunk are more wanted blocks.
LEMMA WantedExtends ==
  ASSUME NEW r \in Requests, NEW n \in Nat, NEW m \in Nat
  PROVE  Wanted(r, n) \o Chunk(r, n, m) = Wanted(r, n + m)
<1>1. Wanted(r, n) \in Seq(Blocks) /\ Len(Wanted(r, n)) = n
  BY WantedType
<1>2. Chunk(r, n, m) \in Seq(Blocks) /\ Len(Chunk(r, n, m)) = m
  BY ChunkType
<1>3. Wanted(r, n + m) \in Seq(Blocks) /\ Len(Wanted(r, n + m)) = n + m
  BY WantedType
<1>4. \A i \in 1 .. n + m : (Wanted(r, n) \o Chunk(r, n, m))[i] = Wanted(r, n + m)[i]
  <2> TAKE i \in 1 .. n + m
  <2>1. CASE i <= n
    BY <1>1, <1>2, <2>1 DEF Wanted
  <2>2. CASE ~(i <= n)
    <3>1. (Wanted(r, n) \o Chunk(r, n, m))[i] = Chunk(r, n, m)[i - n]
      BY <1>1, <1>2, <2>2
    <3>2. i - n \in 1 .. m /\ r.lba + n + (i - n) - 1 = r.lba + i - 1
      BY <2>2, RequestTypes
    <3> QED BY <3>1, <3>2 DEF Chunk, Wanted
  <2> QED BY <2>1, <2>2
<1>5. Len(Wanted(r, n) \o Chunk(r, n, m)) = n + m /\ Wanted(r, n) \o Chunk(r, n, m) \in Seq(Blocks)
  BY <1>1, <1>2
<1> QED BY <1>3, <1>4, <1>5, SeqEqual

\* A chunk that is started is not empty and its byte count does not wrap.
LEMMA SizeFits ==
  ASSUME TypeOK, NEW t \in Tasks, Len(buf[t]) <= req[t].count, Remaining(t) > 0
  PROVE  /\ TransferSize(t) \in 1 .. BLOCKS_PER_PRD
         /\ TransferSize(t) <= Remaining(t)
         /\ TransferSize(t) % DMA_BLOCKS = TransferSize(t)
<1>1. Remaining(t) \in Nat
  BY RequestTypes DEF TypeOK, Remaining
<1>2. TransferSize(t) \in 1 .. BLOCKS_PER_PRD /\ TransferSize(t) <= Remaining(t)
  BY <1>1, AtaAssumption DEF TransferSize, BLOCKS_PER_PRD, AtaAssumption
<1>3. TransferSize(t) \in Nat /\ TransferSize(t) < DMA_BLOCKS
  BY <1>2, AtaAssumption DEF BLOCKS_PER_PRD, AtaAssumption
<1> QED BY <1>2, <1>3, ModSmall, AtaAssumption DEF AtaAssumption

\* The initial state satisfies the invariant.
LEMMA InitInv == Init => IInv
<1> SUFFICES ASSUME Init PROVE IInv
  OBVIOUS
<1>1. TypeOK
  BY AtaAssumption DEF Init, TypeOK, Channels, PCs
<1>2. OwnerInv /\ StageInv /\ TransferOwned
  BY AtaAssumption, RequestTypes DEF Init, OwnerInv, StageInv, TransferOwned, Holding, Ch, AtaAssumption
<1>3. DataInv /\ DmaFits
  BY RequestTypes, AtaAssumption DEF Init, DataInv, DmaFits, BLOCKS_PER_PRD, AtaAssumption
<1>4. ReadsWanted
  <2> SUFFICES ASSUME NEW t \in Tasks PROVE <<>> = Wanted(req[t], 0)
    BY DEF Init, ReadsWanted
  <2> QED BY WantedType, EmptySeq DEF Init
<1> QED BY <1>1, <1>2, <1>3, <1>4 DEF IInv

\* Steps that leave req alone leave every task's channel alone.
LEMMA SameRequests ==
  ASSUME req' = req
  PROVE  \A t \in Tasks : Ch(t)' = Ch(t)
  BY DEF Ch

\* Steps that leave req and buf alone leave the chunk sizes alone.
LEMMA SameSizes ==
  ASSUME req' = req, buf' = buf
  PROVE  \A t \in Tasks : Remaining(t)' = Remaining(t) /\ TransferSize(t)' = TransferSize(t)
  BY DEF Remaining, TransferSize

\* Every step of a task, the handler and the device preserves the invariant.
LEMMA StepInv == IInv /\ [Next]_vars => IInv'
<1> SUFFICES ASSUME IInv, [Next]_vars PROVE IInv'
  OBVIOUS
<1> USE DEF IInv
<1>a. \A u \in Tasks : /\ Ch(u) \in Channels
                       /\ req[u] \in Requests /\ req[u].minor \in Nat
                       /\ req[u].count \in Nat /\ req[u].lba \in Nat
                       /\ DriveOf(req[u].minor) \in {0, 1}
                       /\ Len(buf[u]) \in Nat
  BY RequestTypes DEF TypeOK, Ch
<1>b. NULL \notin Tasks
  BY AtaAssumption DEF AtaAssumption
<1>c. \A u \in Tasks : Remaining(u) > 0 =>
         /\ TransferSize(u) \in 1 .. BLOCKS_PER_PRD /\ TransferSize(u) <= Remaining(u)
         /\ TransferSize(u) % DMA_BLOCKS = TransferSize(u) /\ TransferSize(u) \in Nat
  BY SizeFits DEF DataInv
<1>1. ASSUME NEW t \in Tasks, Lock(t) PROVE IInv'
  <2>1. req' = req /\ buf' = buf
    BY <1>1 DEF Lock, Channel, Device
  <2>2. \A u \in Tasks : Ch(u)' = Ch(u) /\ Remaining(u)' = Remaining(u)
                         /\ TransferSize(u)' = TransferSize(u)
    BY <2>1, SameRequests, SameSizes
  <2>3. TypeOK'
    BY <1>1, <1>a, <1>c, <2>1 DEF Lock, TypeOK, At, Goto, Channel, Device, PCs
  <2>4. OwnerInv' /\ StageInv' /\ TransferOwned'
    BY <1>1, <1>a, <1>b, <2>1, <2>2
    DEF Lock, OwnerInv, StageInv, TransferOwned, Holding, TypeOK, At, Goto, Channel, Device, PCs
  <2>5. DataInv'
    BY <1>1, <1>a, <1>b, <1>c, <2>1, <2>2
    DEF Lock, DataInv, OwnerInv, StageInv, Holding, TypeOK, At, Goto, Channel, Device, PCs
  <2>6. DmaFits' /\ ReadsWanted'
    BY <1>1, <1>a, <2>1, <2>2
    DEF Lock, DmaFits, ReadsWanted, DataInv, Remaining, TypeOK, At, Goto, Channel, Device
  <2> QED BY <2>3, <2>4, <2>5, <2>6
<1>2. ASSUME NEW t \in Tasks, Prepare(t) PROVE IInv'
  <2>1. req' = req /\ buf' = buf
    BY <1>2 DEF Prepare, Channel, Device
  <2>2. \A u \in Tasks : Ch(u)' = Ch(u) /\ Remaining(u)' = Remaining(u)
                         /\ TransferSize(u)' = TransferSize(u)
    BY <2>1, SameRequests, SameSizes
  <2>3. TypeOK'
    BY <1>2, <1>a, <1>c, <2>1 DEF Prepare, TypeOK, At, Goto, Channel, Device, PCs
  <2>4. OwnerInv' /\ StageInv' /\ TransferOwned'
    <3>1. OwnerInv' /\ TransferOwned'
      BY <1>2, <1>b, <2>1, <2>2
      DEF Prepare, OwnerInv, TransferOwned, Holding, TypeOK, At, Goto, Device
    <3>2. ASSUME NEW u \in Tasks, u # t PROVE pc'[u] = pc[u] /\ pc[u] \notin Holding /\ ~irq_wait'[u]
      BY <1>2, <3>2 DEF Prepare, OwnerInv, StageInv, Holding, TypeOK, At, Goto
    <3>3. StageInv'
      BY <1>2, <1>a, <2>1, <2>2, <3>2
      DEF Prepare, StageInv, Holding, TypeOK, At, Goto, Device
    <3> QED BY <3>1, <3>3
  <2>5. DataInv'
    BY <1>2, <1>a, <1>b, <1>c, <2>1, <2>2
    DEF Prepare, DataInv, OwnerInv, StageInv, Holding, TypeOK, At, Goto, Channel, Device, PCs
  <2>6. DmaFits' /\ ReadsWanted'
    BY <1>2, <1>a, <2>1, <2>2
    DEF Prepare, DmaFits, ReadsWanted, DataInv, Remaining, TypeOK, At, Goto, Channel, Device
  <2> QED BY <2>3, <2>4, <2>5, <2>6
<1>3. ASSUME NEW t \in Tasks, Issue(t) PROVE IInv'
  <2>1. req' = req /\ buf' = buf
    BY <1>3 DEF Issue, Channel, Device
  <2>2. \A u \in Tasks : Ch(u)' = Ch(u) /\ Remaining(u)' = Remaining(u)
                         /\ TransferSize(u)' = TransferSize(u)
    BY <2>1, SameRequests, SameSizes
  <2>3. TypeOK'
    BY <1>3, <1>a, <1>c, <2>1, SMTT(40) DEF Issue, DataInv, TypeOK, At, Goto, Channel, Device, PCs
  <2>4. OwnerInv' /\ StageInv' /\ TransferOwned'
    BY <1>3, <1>a, <1>b, <2>1, <2>2
    DEF Issue, OwnerInv, StageInv, TransferOwned, Holding, TypeOK, At, Goto, Channel, Device, PCs
  <2>5. DataInv'
    BY <1>3, <1>a, <1>b, <1>c, <2>1, <2>2
    DEF Issue, DataInv, OwnerInv, StageInv, Holding, TypeOK, At, Goto, Channel, Device, PCs
  <2>6. DmaFits' /\ ReadsWanted'
    BY <1>3, <1>a, <2>1, <2>2
    DEF Issue, DmaFits, ReadsWanted, DataInv, Remaining, TypeOK, At, Goto, Channel, Device
  <2> QED BY <2>3, <2>4, <2>5, <2>6
<1>4. ASSUME NEW t \in Tasks, Start(t) PROVE IInv'
  <2>1. req' = req /\ buf' = buf
    BY <1>4 DEF Start, Channel, Device
  <2>2. \A u \in Tasks : Ch(u)' = Ch(u) /\ Remaining(u)' = Remaining(u)
                         /\ TransferSize(u)' = TransferSize(u)
    BY <2>1, SameRequests, SameSizes
  <2>3. TypeOK'
    BY <1>4, <1>a, <1>c, <2>1 DEF Start, TypeOK, At, Goto, Channel, Device, PCs
  <2>4. OwnerInv' /\ StageInv' /\ TransferOwned'
    BY <1>4, <1>a, <1>b, <2>1, <2>2
    DEF Start, OwnerInv, StageInv, TransferOwned, Holding, TypeOK, At, Goto, Channel, Device, PCs
  <2>5. DataInv'
    BY <1>4, <1>a, <1>b, <1>c, <2>1, <2>2
    DEF Start, DataInv, OwnerInv, StageInv, Holding, TypeOK, At, Goto, Channel, Device, PCs
  <2>6. DmaFits' /\ ReadsWanted'
    BY <1>4, <1>a, <2>1, <2>2
    DEF Start, DmaFits, ReadsWanted, DataInv, Remaining, TypeOK, At, Goto, Channel, Device
  <2> QED BY <2>3, <2>4, <2>5, <2>6
<1>5. ASSUME NEW t \in Tasks, WaitTest(t) PROVE IInv'
  <2>1. req' = req /\ buf' = buf
    BY <1>5 DEF WaitTest, Channel, Device
  <2>2. \A u \in Tasks : Ch(u)' = Ch(u) /\ Remaining(u)' = Remaining(u)
                         /\ TransferSize(u)' = TransferSize(u)
    BY <2>1, SameRequests, SameSizes
  <2>3. TypeOK'
    BY <1>5, <1>a, <1>c, <2>1 DEF WaitTest, TypeOK, At, Goto, Channel, Device, PCs
  <2>4. OwnerInv' /\ StageInv' /\ TransferOwned'
    BY <1>5, <1>a, <1>b, <2>1, <2>2
    DEF WaitTest, OwnerInv, StageInv, TransferOwned, Holding, TypeOK, At, Goto, Channel, Device, PCs
  <2>5. DataInv'
    BY <1>5, <1>a, <1>b, <1>c, <2>1, <2>2
    DEF WaitTest, DataInv, OwnerInv, StageInv, Holding, TypeOK, At, Goto, Channel, Device, PCs
  <2>6. DmaFits' /\ ReadsWanted'
    BY <1>5, <1>a, <2>1, <2>2
    DEF WaitTest, DmaFits, ReadsWanted, DataInv, Remaining, TypeOK, At, Goto, Channel, Device
  <2> QED BY <2>3, <2>4, <2>5, <2>6
<1>6. ASSUME NEW t \in Tasks, Resume(t) PROVE IInv'
  <2>1. req' = req /\ buf' = buf
    BY <1>6 DEF Resume, Channel, Device
  <2>2. \A u \in Tasks : Ch(u)' = Ch(u) /\ Remaining(u)' = Remaining(u)
                         /\ TransferSize(u)' = TransferSize(u)
    BY <2>1, SameRequests, SameSizes
  <2>3. TypeOK'
    BY <1>6, <1>a, <1>c, <2>1 DEF Resume, TypeOK, At, Goto, Channel, Device, PCs
  <2>4. OwnerInv' /\ StageInv' /\ TransferOwned'
    BY <1>6, <1>a, <1>b, <2>1, <2>2
    DEF Resume, OwnerInv, StageInv, TransferOwned, Holding, TypeOK, At, Goto, Channel, Device, PCs
  <2>5. DataInv'
    BY <1>6, <1>a, <1>b, <1>c, <2>1, <2>2
    DEF Resume, DataInv, OwnerInv, StageInv, Holding, TypeOK, At, Goto, Channel, Device, PCs
  <2>6. DmaFits' /\ ReadsWanted'
    BY <1>6, <1>a, <2>1, <2>2
    DEF Resume, DmaFits, ReadsWanted, DataInv, Remaining, TypeOK, At, Goto, Channel, Device
  <2> QED BY <2>3, <2>4, <2>5, <2>6
<1>7. ASSUME NEW t \in Tasks, Fail(t) PROVE IInv'
  <2>1. req' = req /\ buf' = buf
    BY <1>7 DEF Fail, Channel, Device
  <2>2. \A u \in Tasks : Ch(u)' = Ch(u) /\ Remaining(u)' = Remaining(u)
                         /\ TransferSize(u)' = TransferSize(u)
    BY <2>1, SameRequests, SameSizes
  <2>3. TypeOK'
    BY <1>7, <1>a, <1>c, <2>1 DEF Fail, TypeOK, At, Goto, Channel, Device, PCs
  <2>4. OwnerInv' /\ StageInv' /\ TransferOwned'
    BY <1>7, <1>a, <1>b, <2>1, <2>2
    DEF Fail, OwnerInv, StageInv, TransferOwned, Holding, TypeOK, At, Goto, Channel, Device, PCs
  <2>5. DataInv'
    BY <1>7, <1>a, <1>b, <1>c, <2>1, <2>2
    DEF Fail, DataInv, OwnerInv, StageInv, Holding, TypeOK, At, Goto, Channel, Device, PCs
  <2>6. DmaFits' /\ ReadsWanted'
    BY <1>7, <1>a, <2>1, <2>2
    DEF Fail, DmaFits, ReadsWanted, DataInv, Remaining, TypeOK, At, Goto, Channel, Device
  <2> QED BY <2>3, <2>4, <2>5, <2>6
<1>8. ASSUME NEW t \in Tasks, Done(t) PROVE IInv'
  <2>1. req' = req /\ buf' = buf
    BY <1>8 DEF Done, Channel, Device
  <2>2. \A u \in Tasks : Ch(u)' = Ch(u) /\ Remaining(u)' = Remaining(u)
                         /\ TransferSize(u)' = TransferSize(u)
    BY <2>1, SameRequests, SameSizes
  <2>3. TypeOK'
    BY <1>8, <1>a, <1>c, <2>1 DEF Done, TypeOK, At, Goto, Channel, Device, PCs
  <2>4. OwnerInv' /\ StageInv' /\ TransferOwned'
    BY <1>8, <1>a, <1>b, <2>1, <2>2
    DEF Done, OwnerInv, StageInv, TransferOwned, Holding, TypeOK, At, Goto, Channel, Device, PCs
  <2>5. DataInv'
    BY <1>8, <1>a, <1>b, <1>c, <2>1, <2>2
    DEF Done, DataInv, OwnerInv, StageInv, Holding, TypeOK, At, Goto, Channel, Device, PCs
  <2>6. DmaFits' /\ ReadsWanted'
    BY <1>8, <1>a, <2>1, <2>2
    DEF Done, DmaFits, ReadsWanted, DataInv, Remaining, TypeOK, At, Goto, Channel, Device
  <2> QED BY <2>3, <2>4, <2>5, <2>6
<1>9. ASSUME NEW t \in Tasks, Return(t) PROVE IInv'
  <2>1. req' = req /\ buf' = buf
    BY <1>9 DEF Return, Channel, Device
  <2>2. \A u \in Tasks : Ch(u)' = Ch(u) /\ Remaining(u)' = Remaining(u)
                         /\ TransferSize(u)' = TransferSize(u)
    BY <2>1, SameRequests, SameSizes
  <2>3. TypeOK'
    BY <1>9, <1>a, <1>c, <2>1 DEF Return, TypeOK, At, Goto, Channel, Device, PCs
  <2>4. OwnerInv' /\ StageInv' /\ TransferOwned'
    BY <1>9, <1>a, <1>b, <2>1, <2>2, SMTT(40)
    DEF Return, OwnerInv, StageInv, TransferOwned, Holding, TypeOK, At, Goto, Channel, Device, PCs
  <2>5. DataInv'
    BY <1>9, <1>a, <1>b, <1>c, <2>1, <2>2
    DEF Return, DataInv, OwnerInv, StageInv, Holding, TypeOK, At, Goto, Channel, Device, PCs
  <2>6. DmaFits' /\ ReadsWanted'
    BY <1>9, <1>a, <2>1, <2>2
    DEF Return, DmaFits, ReadsWanted, DataInv, Remaining, TypeOK, At, Goto, Channel, Device
  <2> QED BY <2>3, <2>4, <2>5, <2>6
<1>10. ASSUME NEW t \in Tasks, Finish(t) PROVE IInv'
  <2> DEFINE n == TransferSize(t)
  <2>1. req' = req
    BY <1>10 DEF Finish
  <2>2. \A u \in Tasks : Ch(u)' = Ch(u)
    BY <2>1, SameRequests
  <2>3. phase[Ch(t)] = "done" /\ Remaining(t) > 0 /\ n \in Nat /\ n <= Remaining(t)
    BY <1>10, <1>a, <1>c DEF Finish, At, StageInv, DataInv
  <2>4. dma[Ch(t)] = Chunk(req[t], Len(buf[t]), n)
    BY <1>10, <2>3 DEF Finish, At, DataInv
  <2> HIDE DEF n
  <2>5. dma[Ch(t)] \in Seq(Blocks) /\ Len(dma[Ch(t)]) = n
    <3>1. req[t] \in Requests /\ Len(buf[t]) \in Nat /\ n \in Nat
      BY <2>3, <1>a
    <3>2. Chunk(req[t], Len(buf[t]), n) \in Seq(Blocks) /\ Len(Chunk(req[t], Len(buf[t]), n)) = n
      BY <3>1, ChunkType
    <3> QED BY <2>4, <3>2
  <2>6. SubSeq(dma[Ch(t)], 1, n) = dma[Ch(t)]
    BY <2>5, <2>3, SeqEqual
  <2>7. buf[t] \in Seq(Blocks) /\ buf[t] = Wanted(req[t], Len(buf[t]))
    BY DEF TypeOK, ReadsWanted
  <2>8. buf' = [buf EXCEPT ![t] = Wanted(req[t], Len(buf[t]) + n)]
    <3>1. buf[t] \o Chunk(req[t], Len(buf[t]), n) = Wanted(req[t], Len(buf[t]) + n)
      BY <2>7, <2>3, <1>a, WantedExtends, ZenonT(40)
    <3> QED BY <1>10, <2>4, <2>6, <3>1 DEF Finish, n
  <2>9. /\ buf'[t] = Wanted(req[t], Len(buf[t]) + n)
        /\ buf'[t] \in Seq(Blocks) /\ Len(buf'[t]) = Len(buf[t]) + n
        /\ \A u \in Tasks : u # t => buf'[u] = buf[u]
    <3>1. Len(buf[t]) + n \in Nat
      BY <2>3, <1>a
    <3> QED BY <2>8, <3>1, <1>a, WantedType DEF TypeOK
  <2>10. TypeOK'
    <3>1. buf' \in [Tasks -> Seq(Blocks)]
      BY <2>8, <2>9 DEF TypeOK
    <3> QED BY <1>10, <1>a, <3>1 DEF Finish, TypeOK, At, Goto, Channel, PCs
  <2>11. OwnerInv' /\ StageInv' /\ TransferOwned'
    BY <1>10, <1>a, <1>b, <2>1, <2>2, <2>3
    DEF Finish, OwnerInv, StageInv, TransferOwned, Holding, TypeOK, At, Goto, Channel
  <2>12. DataInv'
    <3>1. Len(buf'[t]) <= req[t].count
      BY <2>9, <2>3, <1>a DEF Remaining
    <3>2. ASSUME NEW u \in Tasks, u # t
          PROVE  pc'[u] \notin Holding /\ Len(buf'[u]) <= req[u].count
      BY <1>10, <3>2, <2>9 DEF Finish, OwnerInv, DataInv, Holding, TypeOK, At, Goto
    <3>3. pc'[t] = "loop"
      BY <1>10 DEF Finish, Goto, TypeOK
    <3> QED BY <2>1, <3>1, <3>2, <3>3 DEF DataInv, Holding
  <2>13. DmaFits'
    BY <1>10 DEF Finish, DmaFits
  <2>14. ReadsWanted'
    <3>1. ASSUME NEW u \in Tasks PROVE buf'[u] = Wanted(req[u], Len(buf'[u]))
      BY <2>9 DEF ReadsWanted
    <3>2. ASSUME NEW u \in Tasks, pc'[u] = "done" PROVE Len(buf'[u]) = req[u].count
      BY <1>10, <2>9, <3>2 DEF ReadsWanted, Finish, Goto, TypeOK
    <3> QED BY <2>1, <3>1, <3>2 DEF ReadsWanted, Wanted
  <2> QED BY <2>10, <2>11, <2>12, <2>13, <2>14
<1>11. ASSUME NEW t \in Tasks, NEW r \in Requests, Call(t, r) PROVE IInv'
  <2>1. \A u \in Tasks : u # t => Ch(u)' = Ch(u) /\ Remaining(u)' = Remaining(u)
                                  /\ TransferSize(u)' = TransferSize(u)
    BY <1>11 DEF Call, TypeOK, Ch, Remaining, TransferSize
  <2>2. pc'[t] = "lock" /\ buf'[t] = <<>> /\ req'[t] = r
    BY <1>11 DEF Call, Goto, TypeOK
  <2>3. TypeOK'
    BY <1>11, <1>a DEF Call, TypeOK, At, Goto, Channel, Device, PCs
  <2>4. OwnerInv' /\ StageInv' /\ TransferOwned'
    <3>1. transfer_lock # t /\ ~irq_wait[t]
      BY <1>11 DEF Call, At, OwnerInv, StageInv, Holding
    <3>2. \A u \in Tasks : u # t => pc'[u] = pc[u]
      BY <1>11 DEF Call, Goto, TypeOK
    <3>3. OwnerInv'
      BY <1>11, <2>2, <3>1, <3>2 DEF Call, OwnerInv, Holding
    <3>4. StageInv'
      BY <1>11, <2>1, <2>2, <3>1, <3>2 DEF Call, StageInv, Channel, Device
    <3>5. TransferOwned'
      BY <1>11, <2>1, <3>1 DEF Call, TransferOwned, Device
    <3> QED BY <3>3, <3>4, <3>5
  <2>5. DataInv'
    <3>1. \A u \in Tasks : u # t => pc'[u] = pc[u] /\ req'[u] = req[u] /\ buf'[u] = buf[u]
      BY <1>11 DEF Call, Goto, TypeOK
    <3>2. Len(buf'[t]) <= req'[t].count
      BY <2>2, RequestTypes
    <3> QED BY <1>11, <2>1, <2>2, <3>1, <3>2 DEF Call, DataInv, Channel, Device
  <2>6. DmaFits' /\ ReadsWanted'
    <3>1. <<>> = Wanted(r, 0)
      BY WantedType, EmptySeq
    <3>2. DmaFits'
      BY <1>11 DEF Call, DmaFits, Device
    <3>3. \A u \in Tasks : u # t => pc'[u] = pc[u] /\ req'[u] = req[u] /\ buf'[u] = buf[u]
      BY <1>11 DEF Call, Goto, TypeOK
    <3>4. \A u \in Tasks : buf'[u] = Wanted(req'[u], Len(buf'[u]))
      BY <2>2, <3>1, <3>3 DEF ReadsWanted
    <3>5. ReadsWanted'
      BY <2>2, <3>3, <3>4 DEF ReadsWanted, Wanted
    <3> QED BY <3>2, <3>5
  <2> QED BY <2>3, <2>4, <2>5, <2>6
<1>12. ASSUME NEW c \in Channels, AtaIrq(c) PROVE IInv'
  <2>1. req' = req /\ buf' = buf
    BY <1>12 DEF AtaIrq
  <2>2. \A u \in Tasks : Ch(u)' = Ch(u) /\ Remaining(u)' = Remaining(u)
                         /\ TransferSize(u)' = TransferSize(u)
    BY <2>1, SameRequests, SameSizes
  <2>3. TypeOK'
    BY <1>12, <2>1 DEF AtaIrq, TypeOK
  <2>4. OwnerInv' /\ TransferOwned'
    BY <1>12, <1>a, <1>b, <2>1, <2>2 DEF AtaIrq, OwnerInv, TransferOwned, TypeOK
  <2>5. StageInv'
    BY <1>12, <1>a, <1>b, <2>2
    DEF AtaIrq, OwnerInv, StageInv, TransferOwned, Holding, TypeOK
  <2>6. DataInv' /\ DmaFits' /\ ReadsWanted'
    BY <1>12, <2>1, <2>2 DEF AtaIrq, DataInv, DmaFits, ReadsWanted
  <2> QED BY <2>3, <2>4, <2>5, <2>6
<1>13. ASSUME NEW c \in Channels, Transfer(c) PROVE IInv'
  <2>1. req' = req /\ buf' = buf
    BY <1>13 DEF Transfer
  <2>2. \A u \in Tasks : Ch(u)' = Ch(u) /\ Remaining(u)' = Remaining(u)
                         /\ TransferSize(u)' = TransferSize(u)
    BY <2>1, SameRequests, SameSizes
  <2>3. PICK t \in Tasks : transfer_lock = t /\ c = Ch(t) /\ pc[t] \in {"test", "yield"}
    <3>1. transfer_lock \in Tasks /\ c = Ch(transfer_lock)
      BY <1>13 DEF Transfer, TransferOwned
    <3> QED BY <1>13, <3>1 DEF Transfer, OwnerInv, StageInv, Holding
  <2>4. prd[c] = TransferSize(t) /\ TransferSize(t) \in 1 .. BLOCKS_PER_PRD
    BY <2>3, <1>c DEF DataInv
  <2>5. PrdBlocks(c) = TransferSize(t)
    BY <2>4, AtaAssumption DEF PrdBlocks, BLOCKS_PER_PRD, AtaAssumption
  <2>6. dma' = [dma EXCEPT ![c] = Chunk(req[t], Len(buf[t]), TransferSize(t))]
    BY <1>13, <2>3, <2>5 DEF Transfer, DataInv, Chunk, Ch
  <2>7. /\ dma'[c] = Chunk(req[t], Len(buf[t]), TransferSize(t))
        /\ dma'[c] \in Seq(Blocks) /\ Len(dma'[c]) = TransferSize(t)
    <3>1. TransferSize(t) \in Nat
      BY <2>4, AtaAssumption DEF BLOCKS_PER_PRD, AtaAssumption
    <3> QED BY <2>6, <3>1, <1>a, ChunkType DEF TypeOK
  <2>8. TypeOK'
    <3>1. dma' \in [Channels -> Seq(Blocks)]
      BY <2>6, <2>7 DEF TypeOK
    <3> QED BY <1>13, <3>1 DEF Transfer, TypeOK, Channel
  <2>9. OwnerInv' /\ StageInv' /\ TransferOwned'
    <3>1. OwnerInv' /\ TransferOwned'
      BY <1>13, <1>a, <2>2, <2>3 DEF Transfer, OwnerInv, TransferOwned, TypeOK
    <3>2. ASSUME NEW u \in Tasks, u # t PROVE pc[u] \notin Holding /\ ~irq_wait[u]
      BY <2>3, <3>2 DEF OwnerInv, StageInv, Holding
    <3>3. /\ phase'[c] = "done" /\ stat_irq'[c] /\ ~data_ready[c]
          /\ signal_task[c] = t /\ (irq_wait[t] => pc[t] = "yield")
      BY <1>13, <2>3 DEF Transfer, StageInv, TypeOK
    <3>4. StageInv'
      BY <1>13, <2>2, <2>3, <3>2, <3>3 DEF Transfer, StageInv, Holding, Channel
    <3> QED BY <3>1, <3>4
  <2>10. DataInv'
    <3>1. \A u \in Tasks : u # t => pc[u] \notin Holding
      BY <2>3 DEF OwnerInv
    <3> QED BY <1>13, <2>1, <2>2, <2>3, <2>7, <3>1 DEF Transfer, DataInv, Holding, Channel
  <2>11. DmaFits'
    BY <2>6, <2>7, <2>4, AtaAssumption DEF DmaFits, TypeOK, BLOCKS_PER_PRD, AtaAssumption
  <2>12. ReadsWanted'
    BY <1>13, <2>1 DEF Transfer, ReadsWanted
  <2> QED BY <2>8, <2>9, <2>10, <2>11, <2>12
<1>14. ASSUME NEW c \in Channels, TransferError(c) PROVE IInv'
  <2>1. req' = req /\ buf' = buf /\ dma' = dma
    BY <1>14 DEF TransferError
  <2>2. \A u \in Tasks : Ch(u)' = Ch(u) /\ Remaining(u)' = Remaining(u)
                         /\ TransferSize(u)' = TransferSize(u)
    BY <2>1, SameRequests, SameSizes
  <2>3. TypeOK'
    BY <1>14, <2>1 DEF TransferError, TypeOK, Channel
  <2>4. OwnerInv' /\ StageInv' /\ TransferOwned'
    BY <1>14, <1>a, <1>b, <2>1, <2>2
    DEF TransferError, OwnerInv, StageInv, TransferOwned, Holding, TypeOK, Channel
  <2>5. DataInv' /\ DmaFits' /\ ReadsWanted'
    BY <1>14, <1>a, <2>1, <2>2
    DEF TransferError, DataInv, DmaFits, ReadsWanted, TypeOK, Channel
  <2> QED BY <2>3, <2>4, <2>5
<1>15. CASE UNCHANGED vars
  <2>1. \A u \in Tasks : Ch(u)' = Ch(u) /\ Remaining(u)' = Remaining(u)
                         /\ TransferSize(u)' = TransferSize(u)
    BY <1>15, SameRequests, SameSizes DEF vars
  <2> QED
    BY <1>15, <2>1
    DEF vars, TypeOK, OwnerInv, StageInv, TransferOwned, DataInv, DmaFits, ReadsWanted
<1> QED
  BY <1>1, <1>2, <1>3, <1>4, <1>5, <1>6, <1>7, <1>8, <1>9, <1>10, <1>11, <1>12,
     <1>13, <1>14, <1>15 DEF Next, Progress, DeviceStep

\* The inductive invariant holds in every reachable state.
LEMMA Invariance == Spec => []IInv
  BY InitInv, StepInv, PTL DEF Spec

\* Type correctness of the driver, the device and the callers' buffers.
THEOREM AtaTypes == Spec => []TypeOK
<1>1. IInv => TypeOK BY DEF IInv
<1> QED BY <1>1, Invariance, PTL

\* irq_wait_until() loses no wake-up: testing data_ready and setting irq_wait
\* with interrupts disabled leaves no gap for ata_irq() to slip into.
THEOREM AtaWakeup == Spec => []WakeupComing
<1>1. IInv => WakeupComing
  BY DEF IInv, WakeupComing, StageInv, TypeOK
<1> QED BY <1>1, Invariance, PTL

\* ata_read() never copies a buffer the device still writes to.
THEOREM AtaCopy == Spec => []CopyAfterTransfer
<1>1. IInv => CopyAfterTransfer
  BY DEF IInv, CopyAfterTransfer, StageInv
<1> QED BY <1>1, Invariance, PTL

\* A channel in use belongs to the holder of transfer_lock.
THEOREM AtaOwned == Spec => []TransferOwned
<1>1. IInv => TransferOwned BY DEF IInv
<1> QED BY <1>1, Invariance, PTL

\* Whoever has returned from ata_read(), with all blocks or with an error, has
\* released transfer_lock.
THEOREM AtaUnlocks == Spec => []LockReturned
<1>1. IInv => LockReturned BY DEF IInv, LockReturned, OwnerInv, Holding
<1> QED BY <1>1, Invariance, PTL

\* No transfer reaches past the DMA region, for any size of it.
THEOREM AtaFits == Spec => []DmaFits
<1>1. IInv => DmaFits BY DEF IInv
<1> QED BY <1>1, Invariance, PTL

\* For every disk, start and count, ata_read() stores the blocks that were asked
\* for, in order, and all of them unless the device reports an error.
THEOREM AtaReads == Spec => []ReadsWanted
<1>1. IInv => ReadsWanted BY DEF IInv
<1> QED BY <1>1, Invariance, PTL
=============================================================================
