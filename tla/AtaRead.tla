------------------------------ MODULE AtaRead -------------------------------
(***************************************************************************)
(* Reading blocks from an IDE disk by bus-master DMA: ata_read() and       *)
(* ata_irq() of drivers/pc/ata.c with irq_wait_until() and irq_signal() of *)
(* kernel/sched/task.c.  Tasks, the interrupt handler and the device run   *)
(* concurrently; an interrupt is taken between any two steps except inside *)
(* the preempt_disable() section of irq_wait_until().                      *)
(*                                                                         *)
(* transfer_lock is the abstract lock of LockSpec.  The disk controller is *)
(* external and modelled from how the driver uses it: after the START bit  *)
(* it moves the PRD's bytes of the commanded blocks into the DMA buffer,   *)
(* or fails, sets its status and the IRQ bit and raises the interrupt.     *)
(***************************************************************************)
EXTENDS Naturals, Sequences

CONSTANTS Tasks,         \* the tasks that read
          NULL,          \* the null task pointer
          Minors,        \* the disks of the controller
          Counts,        \* how many blocks a caller asks for
          Lbas,          \* where it starts
          DMA_BLOCKS     \* blocks of the DMA region: 64K / 512 = 128 in the code

ASSUME AtaAssumption ==
  /\ NULL \notin Tasks
  /\ Minors \subseteq Nat /\ Counts \subseteq Nat /\ Lbas \subseteq Nat
  /\ DMA_BLOCKS \in Nat /\ DMA_BLOCKS > 1

VARIABLES transfer_lock,   \* controller->transfer_lock: the owner or NULL
          data_ready,      \* channel->data_ready
          signal_task,     \* channel->signal_task
          irq_wait,        \* task->irq_wait
          prd,             \* the byte count of the channel's PRD, in blocks
          dma,             \* what the channel's DMA buffer holds
          phase,           \* the device: "idle", "ready", "busy", "done", "error"
          command,         \* drive, LBA and sector count of its last command
          stat_irq,        \* DMA_STAT_IRQ; the interrupt it raises is pending
          req,             \* the arguments of each task's call
          buf,             \* the blocks copied to the caller's buffer so far
          pc               \* where each task is

vars == <<transfer_lock, data_ready, signal_task, irq_wait, prd, dma, phase,
          command, stat_irq, req, buf, pc>>

Channels == {0, 1}
Requests == [minor : Minors, count : Counts, lba : Lbas]

\* The first block of the DMA region holds the PRD itself.
BLOCKS_PER_PRD == DMA_BLOCKS - 1

\* The channel and the drive a minor number stands for.
ChannelOf(minor) == IF minor % 4 >= 2 THEN 1 ELSE 0
DriveOf(minor) == minor % 2
Ch(t) == ChannelOf(req[t].minor)

\* The contents of a disk block: which block it is.
Block(ch, drive, lba) == <<ch, drive, lba>>

Blocks == Channels \X {0, 1} \X Nat

\* The n blocks a request should return first.
Wanted(r, n) ==
  [i \in 1 .. n |-> Block(ChannelOf(r.minor), DriveOf(r.minor), r.lba + i - 1)]

Remaining(t) == req[t].count - Len(buf[t])

\* A slip: the block of the region that holds the PRD is forgotten.
TransferSizeWhole(t) == IF Remaining(t) > DMA_BLOCKS THEN DMA_BLOCKS ELSE Remaining(t)

TransferSize(t) == IF Remaining(t) > BLOCKS_PER_PRD THEN BLOCKS_PER_PRD ELSE Remaining(t)

Init ==
  /\ transfer_lock = NULL
  /\ data_ready = [c \in Channels |-> FALSE]
  /\ signal_task = [c \in Channels |-> NULL]
  /\ irq_wait = [t \in Tasks |-> FALSE]
  /\ prd = [c \in Channels |-> 0]
  /\ dma = [c \in Channels |-> <<>>]
  /\ phase = [c \in Channels |-> "idle"]
  /\ command = [c \in Channels |-> [drive |-> 0, lba |-> 0, count |-> 0]]
  /\ stat_irq = [c \in Channels |-> FALSE]
  /\ req \in [Tasks -> Requests]
  /\ buf = [t \in Tasks |-> <<>>]
  /\ pc = [t \in Tasks |-> "out"]

At(t, l) == pc[t] = l

Goto(t, l) == pc' = [pc EXCEPT ![t] = l]

Channel == <<data_ready, signal_task, prd>>
Device == <<dma, phase, command, stat_irq>>

-----------------------------------------------------------------------------
\* A task calls ata_read() with some arguments.  Its test for a null controller
\* never holds: ata_probe() gives every disk it registers the controller.
Call(t, r) ==
  /\ At(t, "out")
  /\ req' = [req EXCEPT ![t] = r]
  /\ buf' = [buf EXCEPT ![t] = <<>>]
  /\ Goto(t, "lock")
  /\ UNCHANGED <<transfer_lock, irq_wait, Channel, Device>>

\* A slip: the controller is not waited for.
LockBusy(t) ==
  /\ At(t, "lock")
  /\ transfer_lock' = t
  /\ Goto(t, "loop")
  /\ UNCHANGED <<irq_wait, req, buf, Channel, Device>>

\* mutex_lock(&controller->transfer_lock)
Lock(t) ==
  /\ At(t, "lock") /\ transfer_lock = NULL
  /\ transfer_lock' = t
  /\ Goto(t, "loop")
  /\ UNCHANGED <<irq_wait, req, buf, Channel, Device>>

\* A slip: the signalled task is not recorded.
PrepareUnsigned(t) ==
  /\ At(t, "loop") /\ Remaining(t) > 0
  /\ prd' = [prd EXCEPT ![Ch(t)] = TransferSize(t) % DMA_BLOCKS]
  /\ data_ready' = [data_ready EXCEPT ![Ch(t)] = FALSE]
  /\ Goto(t, "issue")
  /\ UNCHANGED <<transfer_lock, signal_task, irq_wait, req, buf, Device>>

\* Another chunk: the 16-bit byte count of the PRD, data_ready, signal_task.
\* Writing zeros to the status register leaves its IRQ bit alone.
Prepare(t) ==
  /\ At(t, "loop") /\ Remaining(t) > 0
  /\ prd' = [prd EXCEPT ![Ch(t)] = TransferSize(t) % DMA_BLOCKS]
  /\ data_ready' = [data_ready EXCEPT ![Ch(t)] = FALSE]
  /\ signal_task' = [signal_task EXCEPT ![Ch(t)] = t]
  /\ Goto(t, "issue")
  /\ UNCHANGED <<transfer_lock, irq_wait, req, buf, Device>>

\* A slip: the LBA is not advanced after a chunk.
IssueSameLba(t) ==
  /\ At(t, "issue")
  /\ command' = [command EXCEPT ![Ch(t)] =
       [drive |-> DriveOf(req[t].minor), lba |-> req[t].lba, count |-> TransferSize(t)]]
  /\ phase' = [phase EXCEPT ![Ch(t)] = "ready"]
  /\ Goto(t, "start")
  /\ UNCHANGED <<transfer_lock, irq_wait, dma, stat_irq, req, buf, Channel>>

\* Drive, sector count and LBA, then the READ DMA EXT command.
Issue(t) ==
  /\ At(t, "issue")
  /\ command' = [command EXCEPT ![Ch(t)] =
       [drive |-> DriveOf(req[t].minor), lba |-> req[t].lba + Len(buf[t]),
        count |-> TransferSize(t)]]
  /\ phase' = [phase EXCEPT ![Ch(t)] = "ready"]
  /\ Goto(t, "start")
  /\ UNCHANGED <<transfer_lock, irq_wait, dma, stat_irq, req, buf, Channel>>

\* The START bit of the bus master.
Start(t) ==
  /\ At(t, "start")
  /\ phase' = [phase EXCEPT ![Ch(t)] = "busy"]
  /\ Goto(t, "test")
  /\ UNCHANGED <<transfer_lock, irq_wait, dma, command, stat_irq, req, buf, Channel>>

\* irq_wait_until(): test the condition and mark the task with interrupts
\* disabled, then yield.
WaitTest(t) ==
  /\ At(t, "test")
  /\ irq_wait' = [irq_wait EXCEPT ![t] = ~data_ready[Ch(t)]]
  /\ Goto(t, IF data_ready[Ch(t)] THEN "finish" ELSE "yield")
  /\ UNCHANGED <<transfer_lock, req, buf, Channel, Device>>

\* The scheduler gives the processor back once irq_wait is cleared.
Resume(t) ==
  /\ At(t, "yield") /\ ~irq_wait[t]
  /\ Goto(t, "test")
  /\ UNCHANGED <<transfer_lock, irq_wait, req, buf, Channel, Device>>

\* Stop the DMA; if the device reports no error copy the chunk and go on.
Finish(t) ==
  /\ At(t, "finish") /\ phase[Ch(t)] # "error"
  /\ phase' = [phase EXCEPT ![Ch(t)] = "idle"]
  /\ buf' = [buf EXCEPT ![t] = @ \o SubSeq(dma[Ch(t)], 1, TransferSize(t))]
  /\ Goto(t, "loop")
  /\ UNCHANGED <<transfer_lock, irq_wait, dma, command, stat_irq, req, Channel>>

\* A slip: the error path returns with the lock held.
FailLocked(t) ==
  /\ At(t, "finish") /\ phase[Ch(t)] = "error"
  /\ phase' = [phase EXCEPT ![Ch(t)] = "idle"]
  /\ Goto(t, "failed")
  /\ UNCHANGED <<transfer_lock, irq_wait, dma, command, stat_irq, req, buf, Channel>>

\* A failed transfer: unlock and return what was read before.
Fail(t) ==
  /\ At(t, "finish") /\ phase[Ch(t)] = "error"
  /\ phase' = [phase EXCEPT ![Ch(t)] = "idle"]
  /\ transfer_lock' = NULL
  /\ Goto(t, "failed")
  /\ UNCHANGED <<irq_wait, dma, command, stat_irq, req, buf, Channel>>

\* Every chunk was read: unlock and return.
Done(t) ==
  /\ At(t, "loop") /\ Remaining(t) = 0
  /\ transfer_lock' = NULL
  /\ Goto(t, "done")
  /\ UNCHANGED <<irq_wait, req, buf, Channel, Device>>

\* The caller has looked at the result.
Return(t) ==
  /\ At(t, "done") \/ At(t, "failed")
  /\ Goto(t, "out")
  /\ UNCHANGED <<transfer_lock, irq_wait, req, buf, Channel, Device>>

-----------------------------------------------------------------------------
\* A slip: the handler does not look at the IRQ bit.
AtaIrqAlways(c) ==
  /\ stat_irq' = [stat_irq EXCEPT ![c] = FALSE]
  /\ data_ready' = [data_ready EXCEPT ![c] = TRUE]
  /\ irq_wait' = [t \in Tasks |-> irq_wait[t] /\ t # signal_task[c]]
  /\ UNCHANGED <<transfer_lock, signal_task, prd, dma, phase, command, req, buf, pc>>

\* ata_irq(), for an interrupt of this device or a spurious one.
AtaIrq(c) ==
  /\ stat_irq' = [stat_irq EXCEPT ![c] = FALSE]
  /\ data_ready' = [data_ready EXCEPT ![c] = @ \/ stat_irq[c]]
  /\ irq_wait' = [t \in Tasks |-> irq_wait[t] /\ ~(stat_irq[c] /\ t = signal_task[c])]
  /\ UNCHANGED <<transfer_lock, signal_task, prd, dma, phase, command, req, buf, pc>>

\* A PRD byte count of zero means 64K.
PrdBlocks(c) == IF prd[c] = 0 THEN DMA_BLOCKS ELSE prd[c]

\* The device has moved the data into the buffer.
Transfer(c) ==
  /\ phase[c] = "busy"
  /\ dma' = [dma EXCEPT ![c] =
       [i \in 1 .. PrdBlocks(c) |-> Block(c, command[c].drive, command[c].lba + i - 1)]]
  /\ phase' = [phase EXCEPT ![c] = "done"]
  /\ stat_irq' = [stat_irq EXCEPT ![c] = TRUE]
  /\ UNCHANGED <<transfer_lock, irq_wait, command, req, buf, pc, Channel>>

\* The device could not read the blocks.
TransferError(c) ==
  /\ phase[c] = "busy"
  /\ phase' = [phase EXCEPT ![c] = "error"]
  /\ stat_irq' = [stat_irq EXCEPT ![c] = TRUE]
  /\ UNCHANGED <<transfer_lock, irq_wait, dma, command, req, buf, pc, Channel>>

DeviceStep(c) == Transfer(c) \/ TransferError(c)

Progress(t) ==
  \/ Lock(t) \/ Prepare(t) \/ Issue(t) \/ Start(t) \/ WaitTest(t) \/ Resume(t)
  \/ Finish(t) \/ Fail(t) \/ Done(t) \/ Return(t)

Next ==
  \/ \E t \in Tasks : Progress(t) \/ \E r \in Requests : Call(t, r)
  \/ \E c \in Channels : AtaIrq(c) \/ DeviceStep(c)

Spec == Init /\ [][Next]_vars

\* The scheduler runs every task that does not wait, the processor takes
\* pending interrupts and the device answers every command.
FairSpec ==
  /\ Spec
  /\ \A t \in Tasks : SF_vars(Progress(t))
  /\ \A c \in Channels : WF_vars(AtaIrq(c)) /\ WF_vars(DeviceStep(c))

-----------------------------------------------------------------------------
PCs == {"out", "lock", "loop", "issue", "start", "test", "yield", "finish",
        "done", "failed"}

\* Every variable stays in its domain.
TypeOK ==
  /\ transfer_lock \in Tasks \cup {NULL}
  /\ data_ready \in [Channels -> BOOLEAN]
  /\ signal_task \in [Channels -> Tasks \cup {NULL}]
  /\ irq_wait \in [Tasks -> BOOLEAN]
  /\ prd \in [Channels -> Nat]
  /\ dma \in [Channels -> Seq(Blocks)]
  /\ phase \in [Channels -> {"idle", "ready", "busy", "done", "error"}]
  /\ command \in [Channels -> [drive : {0, 1}, lba : Nat, count : Nat]]
  /\ stat_irq \in [Channels -> BOOLEAN]
  /\ req \in [Tasks -> Requests]
  /\ buf \in [Tasks -> Seq(Blocks)]
  /\ pc \in [Tasks -> PCs]

\* No wake-up is lost: a task that sleeps in irq_wait_until() is the one its
\* channel will signal, and the device is still busy or its interrupt is
\* pending, so that irq_signal() is yet to come.
WakeupComing ==
  \A t \in Tasks : irq_wait[t] =>
    /\ pc[t] = "yield"
    /\ signal_task[Ch(t)] = t
    /\ phase[Ch(t)] = "busy" \/ stat_irq[Ch(t)]

\* The transfer is over when ata_read() stops the DMA and copies the buffer,
\* whatever interrupts came before (the assertion "irq not ready!").
CopyAfterTransfer ==
  \A t \in Tasks : pc[t] = "finish" => phase[Ch(t)] \in {"done", "error"}

\* A channel that is in use belongs to the task that holds transfer_lock: two
\* callers never program a channel or share its DMA buffer.
TransferOwned ==
  \A c \in Channels : phase[c] # "idle" \/ stat_irq[c] =>
    transfer_lock \in Tasks /\ c = Ch(transfer_lock)

\* A call that is not under way holds no lock: however many chunks were read and
\* wherever an error ended it, transfer_lock is free for the next one.
LockReturned == \A t \in Tasks : pc[t] \in {"idle", "lock", "done", "failed"} => transfer_lock # t

\* The data the device moves fits behind the PRD in the 64K DMA region.
DmaFits == \A c \in Channels : Len(dma[c]) <= BLOCKS_PER_PRD

\* What ata_read() has stored is always a prefix of what was asked for, in
\* order, from the right disk, and all of it when the call returns normally.
ReadsWanted ==
  \A t \in Tasks :
    /\ buf[t] = Wanted(req[t], Len(buf[t]))
    /\ pc[t] = "done" => Len(buf[t]) = req[t].count

\* A read that has the controller returns.
ReadReturns == \A t \in Tasks : pc[t] = "loop" ~> pc[t] \in {"done", "failed"}
=============================================================================
