# Ulmer OS in TLA+

TLA+ models of the Ulmer OS kernel (`src/kernel`), the TLC configurations that
check them on small instances, and TLAPS proofs of the properties that matter
most for every value of the constants. `PROJECT.json` lists the runs, the source
lines each definition stands for, the findings and the theorems.

Everything describes the default (Release) build, in which `assert()` is
empty: what an assertion claims is stated as a property instead. `kpanic()` is
active in every build, and a model stops where the kernel would.

## The system and its parts

Ulmer OS is a preemptive kernel for one x86_64 processor. A 32-bit stage
(`boot32`) reads the memory map, builds the page-frame bitmap and page tables and
enters the 64-bit kernel, which starts three kernel tasks (idle, cleanup, init).
The init task starts the drivers, mounts the root file system and runs the first
program, whose pages are loaded on demand.

| part | state | operations | what makes it correct |
|---|---|---|---|
| mutex, spinlock (`mutex.c`, `spinlock.c`) | `lock`, `held_by`, waiting list and its spinlock | lock, unlock | exclusion; `held_by` is the holder; waiters are asleep before they are listed, and are woken |
| scheduler (`sched.c`) | `sched_tasks`, `current_task` | `schedule`, `sched_insert` | fair round robin; never touches freed tasks; never blocks |
| tasks, processes (`task.c`, `proc.c`) | `state`, `irq_wait`, process state | create, kill, exit, `irq_wait_until`, `irq_signal` | no lost wake-up; the dead do not run |
| cleanup (`tasklist.c`) | `task_list`, `task_count` | `tl_insert`, the cleanup loop | every dead task is freed, once, and only when the scheduler has let go of it |
| kernel heap (`heap.c`) | block headers inside the heap, break, mapped pages | `kmalloc`, `kfree`, `kbrk` | blocks tile the heap, links agree, free blocks are merged, allocations are large enough |
| page frames (`page.c`, `bitmap.c`) | one bit per frame | `alloc_page`, `free_page`, `alloc_dma_region` | one owner per frame, cleared frames, aligned regions |
| address spaces (`vspace.c`) | page tables | map, unmap, delete | every frame is free or used once |
| demand paging (`pagefault.c`, `userstack.c`, `sbrk.c`, `loader.c`) | stack counter, heap break, loader lock | page fault, `sbrk`, exit | frames conserved, the stack given back and nothing else, a shrunk heap is unmapped |
| ATA driver (`ata.c`) | channel, DMA buffer, `transfer_lock` | `ata_read`, `ata_irq` | the right blocks, in order; no early copy; every read returns, and without the lock |
| ext2 (`ext2fs.c`) | group descriptors, one descriptor of the device with its position, fetched inodes | probe, fetch, read | inodes and blocks are read from where they are; concurrent reads do not mix; errors are reported; buffers are not overrun |
| block devices, partitions, ramdisk (`blockdev.c`, `blkdev_ops.c`, `partscan.c`, `ramdisk.c`) | the list of devices, major numbers | register, scan, open, read | a device that is named is the one that is opened |
| VFS (`vfs.c`, `ffind.c`, `fs_syscall.c`) | the tree of `file_t`, descriptors of a process | mount, mkdir, mknod, open, read, write | a path opens what it names on the disk; the tree stays a tree |
| PCI, serial, keyboard, debug output, command line, descriptor tables | tables, port I/O | boot-time set-up | |

Interaction is by direct call, by shared lists, and through interrupts: the timer
and `yield()` run `schedule()`, devices run `ata_irq()`, which calls
`irq_signal()`. What is hard: preemption between any two instructions of kernel
code, interrupts that race with the task that waits for them, the scheduler being
run from an interrupt while any lock may be held, cleanup of tasks and processes
that are still reachable, and boundary arithmetic in the heap, the bitmap, `sbrk`
and the DMA chunks. `PROJECT.json` lists these hazards line by line.

## Modules

| module | models | uses |
|---|---|---|
| `LockSpec` | what a mutex promises: one owner | |
| `Mutex` | `mutex.c`, `spinlock.c`, one step per line | refines `LockSpec` |
| `Sched` | scheduler, life of a task, cleanup task | lock as in `LockSpec` |
| `AtaRead` | `ata_read()`, `ata_irq()`, `irq_wait_until()` | lock as in `LockSpec` |
| `Heap` | the kernel heap | calls are atomic under `kheap_mutex` |
| `PageFrames`, `MCPageFrames` | frame allocator and bitmap | lock as in `LockSpec` |
| `ProcMem`, `MCProcMem` | page faults, user stack, user heap, loader, page tables | frame allocation is atomic, as `PageFrames` shows |
| `FileSpec` | what reading a file promises: its bytes, or an error | |
| `Ext2`, `MCExt2` | the ext2 driver over partition, disk and ramdisk, used by several tasks | refines `FileSpec`; locks as in `LockSpec` |
| `Vfs`, `MCVfs` | device registry, mounting, path lookup, open files, from the first driver to the first program's calls | a fetch is one step, as `Ext2` shows |
| `MutexProofs`, `SchedProofs`, `AtaProofs`, `HeapProofs`, `FramesProofs`, `ProcMemProofs`, `Ext2Proofs`, `VfsProofs` | theorems about the module of that name | |

`Mutex` refines `LockSpec` (checked and proved), which is why the other modules
take a mutex as one atomic variable, or a whole critical section as one step. What
that abstraction does not give is progress: `mutex_wakeup` shows that a contended
mutex can hang for good. Liveness below therefore says what holds when locks are
got, and where it matters the property says so itself.

**Mutex.** A program counter per task names the line of `mutex.c` it is about to
execute. Only `current_task` takes steps; `Timer` may switch tasks between any
two. `yield()` inside the wait loop and in the spinlock is part of the step that
calls it.

**Sched.** `sched_tasks` and `task_list` are sequences. `Schedule` is the whole
of `schedule()`, atomic because interrupts are off: `Turn` rotates past waiting
tasks, `TaskSchedulable` does what the code does to a dead task (it removes
*current_task*), and the killed task that gives up the processor is dropped. If the code
would dereference a null iterator, touch a freed task, loop forever or block in
the interrupt, `fault` says so and the model stops there. `heap_owner` is the task
preempted in the kernel heap. The steps of `proc_start()`, `tl_insert()`,
`sys_exit()` and the cleanup loop (delete, remove from the list, count) are separate
actions, so the timer can fall between them. `CountExact` therefore has two
exceptions: a task that `tl_insert()` has listed and not yet counted, and one that the
cleanup loop has removed and still counts.

**AtaRead.** Each statement group of `ata_read()` is an action, `ata_irq()` is
one (it runs with interrupts off), and so is the test-and-mark section of
`irq_wait_until()`, for the same reason. The controller is external: it transfers
or fails, sets its IRQ bit and interrupts; `AtaIrq` is also enabled spuriously. A
block's contents are its identity <<channel, drive, LBA>>. Sizes are in blocks;
the PRD's byte count keeps its width (a count modulo the size of the DMA region).
The `-ENODEV` of a null controller (`ata.c:289`) is left out: `ata_probe()` registers
every disk together with its controller (`ata.c:608-618`), so no call can take it.

**Heap.** Headers are a function from address to record; a header whose magic was
cleared is not in its domain. `wanted` is a ghost variable with the sizes asked for.
The loop at the end of `kfree()` is one expression, `Trim`, over the trailing free
blocks.

**PageFrames.** The bitmap is the set of its one bits, including those behind the
last frame. `bitmap_find_n_free()` takes one step per bit. `held` and `clear` are
ghosts: who was given a frame, and which frames hold only zeroes. Out of memory
stops the machine, as `kpanic()` does.

**ProcMem.** Page tables are named by level and index, so a missing table costs a
frame just as in `vspace_map()`, and so does the page itself even when the entry is
already present. An access faults when its page is missing, when it writes a read-only
page and when it fetches an instruction from a no-execute page; `page_fault()` does not
tell these apart, and neither does the model. Addresses wrap at `ADDRESSES`, and
`sys_sbrk()` has no upper limit: the heap may grow into the stack and behind
`USER_BREAK`. What the code does to the kernel half, which all address spaces share, is
undefined; `machine` is then `corrupt` and the model stops. `delete_stack()` goes by its
counter, wherever that takes it (`Unwound`). `ProcStart` may find an unreadable program
header table; then the loader's lock stays held, as in the code, and the process hangs
on its first instruction. A failed read and a lack of frames panic. Page contents are
left out.

**Ext2.** A byte of the disk is known by its address: a buffer is a sequence of
addresses, so that "the right bytes" can be said without contents. A disk is a record
with the parameters of its superblock and what is where; `InodeAddr`, `FileBlock` and
`Bytes` give the format's meaning, while `ItableLba`, `BufferIndex`, `BlockLba`,
`BbOffset` and `CpySize` compute as the driver does, with 64-bit sizes and 48-bit LBAs
that wrap. Each task goes through `ffind()`, `ext2_fetch()`, `ext2_read()` and
`ext2_get_block()`, whose seek and read are two steps under `io_lock`. Any transfer of a
disk may fail, the superblock's included, which the driver does not notice
(`ProbeUnread`). The caller of `fetch_inode()` ignores its error, so the file is filled
from uninitialised memory and stays so: it is `Garbage`, which `FileSpec` calls `lost`.
A read may begin anywhere. Behind the end of the file its length wraps around, and the
copy that leaves the caller's buffer ends in `overrun` (`CopyBehind`). A file has a
`Hole` where its pointer is 0; the driver reads block 0 there, and `FileSpec` promises
nothing of such bytes.
A partition is read through `ps_read()` and the ramdisk through `initrd_read()`, which
returns bytes where blocks are expected (`BdResult`). In the refinement the contents of
a file are `Bytes` of its inode and the calls are `req` and `reply`. `directory` holds,
for each inode, whether its entries have been listed and which inodes they name; `Entries`
goes from entry to entry as the loop of `ext2_fetch_dir()` does, while `EntryEnd` says
where the entries are. The disks are a parameter: any that `Consistent` calls intact, which
means that what descriptors, inodes and pointers name is on the disk, that inode
tables do not overlap, that the entries of a directory fill it and that a directory has no
block twice (`IsDirectory`).

**Vfs.** The init task registers drivers and devices (`Register` with its partition
scan, which may fail), mounts the root, makes `/dev` and the nodes, and starts the
program, which then opens, reads and writes. `ffind()` takes one step per component;
`call` holds its arguments. Names are opaque; a path is its list of components, whether
it begins with a slash and whether it ends with one. What the code does with pointers is
kept: `vfs_open()` hands `ffind()` an uninitialised place for the result, which is not
written when it holds null; `mknod` gives no place at all. A null or wild pointer that
is followed ends in `stopped`, like a panic. Every fetch may fail: `ext2_fetch_file()`
goes on with what memory held, so the `file_t` has any type and, as a directory, any of
the lists in `Garbled` (`Unread`); `lost` marks it and what is found below it, and `call`
and `result` record whether a lookup ended at such an object. `ffind_noent()` puts the
new `file_t` itself on a list of directory entries, so what `mknod` and `mkdir` make has
no name that a lookup could find (`Unnamed`), and `/dev/x` ends up in the root. The
reference for a lookup is the disk: `Below` is one component, `Walk` the whole path and
`Resolve` what an `open()` of it should give. `OpenCorrect` leaves out what is not on the
disk because `vfs_init()` makes it, `/dev` and below (`Made`): the code does not find it.

## Runs

| run | question | result |
|---|---|---|
| `mutex` | exclusion, `held_by`, waiting list, release, refinement; 3 tasks | holds |
| `mutex_wakeup` | "wake up the first task on the list, if any" | violated |
| `sched` | no dangling task, exact task list, round robin, killing, reclaiming; a process that may exit | holds |
| `sched_removal` | only killed tasks leave the scheduler, with an exit | violated |
| `sched_blocks` | "don't use any locks and don't block" | violated |
| `ata` | lost wake-ups, early copies, wrong blocks, lock and return after errors | holds |
| `heap` | tiling, links, merging, sizes, mapping | holds |
| `frames` | ownership, accounting, clearing, the region scan | holds |
| `procmem` | conservation of frames, unwinding of the stack, `sbrk` | holds |
| `procmem_fault` | the same conservation with faults on present pages | violated |
| `ext2` | inode arithmetic, half-filled files, I/O errors, overruns, refinement of `FileSpec`; 2 tasks, 4 disks | holds |
| `vfs` | the root device, what paths open, the tree, with failing scans and fetches | holds |

The four violations are disagreements between a comment in the source and the
code:

* **Wake-up** (`mutex.c:36-56`): a waiter sleeps holding `waiting_tasks_lock`,
  which `mutex_unlock()` needs to wake it. The waiter is never woken and the task
  that unlocks spins forever. (The mutex itself has been released by then, which
  `MutexReleased` shows.)
* **Removal** (`sched.c:122`): a user task preempted between the two stores of
  `sys_exit()` makes `task_schedulable()` drop the running task, not the dead one.
* **Blocking** (`sched.c:81`, `122`): `list_it_remove()` calls `kfree()`, which
  takes `kheap_mutex` in interrupt context; when a preempted task holds it,
  `mutex_lock()` queues and yields there, and another `schedule()` nests.
* **Protection faults** (`pagefault.c:25-33`): `present` is ignored, so a write to
  a read-only page, or a fetch from a no-execute one, loads the page again, loses a
  frame and faults again.

### Known deviations

Met while modelling and kept in the models, where a property states the exception or a
guard or constant leaves the case out:

* `sbrk.c:23`: a decrement larger than the break wraps; the break jumps to the top of
  the address space and nothing is unmapped. `Increments` has no such decrement in the
  run: with one, `ShrinkUnmaps` is violated. There is no upper limit either: a heap that
  has grown into the stack shares its pages (`ShrinkUnmaps` leaves the stack's pages
  out), and behind `USER_BREAK` it reaches the kernel half (`corrupt`).
* `userstack.c:76`: "unmap all the stack pages" goes by the counter, down from the end
  of the stack. `sbrk()` in a heap that has reached the stack unmaps pages of it without
  counting, and a fetch from a no-execute stack page counts one twice. `delete_stack()`
  always finds all stack pages, which `StackUnwound` shows, but then goes on into the heap
  and the program (`Unwound`) and, below page 0, into the kernel half (`corrupt`).
* `ext2fs.c:287`: "truncate length if necessary" wraps the length when the offset is
  behind the end of the file, and `memcpy()` writes behind the caller's buffer
  (`CopyBehind`, where the model stops). The loader has such offsets: `loader.c:114-119`
  when `p_memsz` is larger than what the file holds, `loader.c:82` when the header's table
  position is. `OverrunOnlyBehind` says that no other read does this.
* `ext2fs.c:270`: if a block of pointers cannot be read, block number 2^64 - 1 is used.
  Its LBA wraps around to the block *before* the partition; when the partition begins at
  least a block into the disk, that block is returned as file contents. `Misled` names
  this case, in `IoErrorReported` and in the refinement; a disk on which it happens is
  part of the run.
* `ext2fs.c:377`: the error of `fetch_inode()` is ignored (`lost` files, in `Ext2` and
  in `Vfs`). `ext2fs.c:179`: a superblock that could not be read gives 0, which is not
  negative; the signature is then compared in uninitialised memory (`undefined`).
* `ext2fs.c:264`, `271`: a pointer of 0 means a hole, which reads as zeroes; the driver
  returns the bytes of block 0. `FileSpec` promises nothing of the bytes of a hole.
* `ext2fs.c:250`: inodes of 256 bytes are indexed as if they had 128; the disks of the run
  have the size the code assumes. Files beyond direct and singly indirect blocks panic
  (`ReadTooFar`). `ext2fs.c:286`: an offset so large that the sum with the length wraps
  is left out (`RangesAssumption`).
* `partscan.c:118`: partitions of all disks share a major number and are numbered
  from 0, so `bd_open()` takes a partition for that of an earlier disk:
  the exception in `RootIsRequested`.
* `ramdisk.c:81`: the ramdisk's device has no name, so no `rootfs=` can mean it.
* `ffind.c:97`: a path of a slash and one character is taken for the root
  (`OneCharacter`, excluded from `OpenCorrect`). `ffind.c:76`: an image that already
  has a `/dev` stops the kernel, since `vfs_mkdir()` passes a null pointer.
* `ffind.c:23`: what `mkdir` and `mknod` make is put on the list of directory entries
  without being one. It has no name that could be compared, so "add new block device
  /dev/..." (`blockdev.c:68`) announces a node that no `open()` finds, and which is in the
  root besides. `OpenCorrect` does not speak of paths to `/dev` unless the disk has one.
* `fs_syscall.c:33`, `61`: `fdmod` is unlocked although nothing has initialised or
  locked it; `SysRead` and `SysWrite` may stop there (`Returned`). Positions never move;
  descriptor 1 is the standard output even when a file was opened as 1.

### Bounds

* `mutex`: three tasks are an owner, a waiter holding the list and a third that
  spins for it; `waiting_tasks` never grows beyond the tasks, because a listed task is
  never woken.
* `sched*`: the three kernel tasks and one process, which may call `exit()`.
  `NoDanglingTask` is about the time before that: the exit of a process may
  remove a wrong task, which is what `sched_removal` shows. In `sched_blocks`
  no process exits; the init task's end is enough. A run ends where `fault` is
  set, so `CHECK_DEADLOCK` is off.
* `ata`: disks 0 and 3 are on different channels and have different drive numbers; a
  DMA region of three blocks leaves chunks of two, so that a request for three takes
  a full chunk and a rest.
* `heap`: headers of 2, pages of 4 and sizes 0, 1, 2, 5 give rests smaller than,
  equal to and larger than a header, breaks on and off page boundaries, and up to
  eight blocks below `MaxBreak` = 17.
* `frames`: five frames in bytes of three bits leave one bit behind the last frame;
  regions of two frames have aligned and unaligned candidates and `MAX_PAGE` = 3
  excludes the upper ones. All 32 initial maps are tried. The tasks are symmetric (no
  property names one and there is no liveness). The machine may panic: no deadlock check.
* `procmem`: six frames make two processes run out of memory; a two-level tree of
  fan-out four gives three leaf tables. Breaks move in steps of 5 from the end of the
  data: inside the page below the stack, on the end of the stack, and behind
  `USER_BREAK` (`MAX_BREAK`). `MAX_MAPPED` bounds how often a stack page is counted; a
  stack has two. The programs of `procmem` access pages only as they may (`Proper`), that
  of `procmem_fault` in every way (`Improper`). The `VIEW` forgets *which* frame is where
  and keeps how often each is used: frames are interchangeable in every action and
  property. `procmem_fault` uses no view.
* `ext2`: sectors of four bytes hold two inodes, descriptors or pointers, so that
  every division in the driver has a remainder. The disks have three groups with a
  descriptor table that ends within a sector, or one group and larger blocks; inodes in the
  first, second and third group; a file that begins in its direct block and ends in
  an indirect one, one too large for the driver, a directory with a deleted entry, an
  entry whose inode does not exist, a file that begins with a hole; partitions that begin
  less and more than a block into the disk. The ranges start inside blocks, cross them, are cut at the end of the
  file, and lie behind the end of all but one. Sizes wrap at 1024 and LBAs at 128, both
  well above the disk of 60 sectors.
* `vfs`: a ramdisk and two disks whose partitions have the same numbers, any of their
  scans failing; four names for the root device, of which one is mistaken for an earlier
  partition, one has no file system and one does not exist; a root with directories,
  files, devices and a name of one character, and one with a `/dev`; twelve paths that are
  relative, doubled, dotted, too long, through a file, to a made node, or end in a slash.
  Two descriptors are enough to open the same file by two ways. One fetch below a good
  directory may fail (`UNREAD_LIMIT`), and any number below the garbage that it leaves,
  whose entries lead to a file or nowhere.

### Fairness

* `Mutex`: round robin gives every runnable task the processor again and again, and
  a running task executes its next line (strong fairness of `SwitchTo` and
  `Progress`). That also means that critical sections end. No task must lock.
* `Sched`: the timer ticks (`WF(Timer)`), devices answer (`WF(IrqSignal)`), and a
  task that is scheduled again and again gets on with its cleanup step, its heap call or
  its `yield()`. `KilledReclaimed` has the premise that the cleanup task finds the
  heap free again and again, which `kheap_mutex` does not guarantee.
* `AtaRead`: tasks that are not waiting run (strong, since a contended lock is free
  only at times), interrupts are taken, the device answers a started command.

## Proofs

Every invariant, action property and refinement that a passing run checks is also a
theorem, for every value of the constants that satisfies the named assumptions. Each
proof module states an inductive invariant as a conjunction of named parts, shows that
`Init` gives it and that every step keeps it, one lemma per action, and derives the
theorems by temporal logic.

* **MutexProofs**, for any set of tasks. `MutualExclusion` is not inductive: the
  invariant ties `lock` and `list_lock` to the program counters (a lock is 1 exactly
  when some task is in its section, and then in that of one task only) and says that
  exactly the tasks between the store of line 37 and the end of the `yield()` are
  asleep. From it follow `MutexTypes`, `MutexExcludes`, `MutexHolder`, `MutexQueue` and
  `MutexList` (the spinlock excludes too, which is proved only and not a property of a run). `MutexRefines` then maps every step to a step of `LockSpec` with the
  owner as the task that won the `xchg()`.
* **SchedProofs**, for any processes, exiting or not. `SchedInv` is the types and
  `CountInv`: `task_count` is the length of `task_list` except between the two
  statements of `tl_insert()` and between the removal and the decrement of the cleanup
  loop, what that loop is about to remove is a task it has deleted, and the idle and
  cleanup tasks stay on the list, running. `TaskCountExact` and the action properties
  `DeadNotScheduled` and `NobodyBypassed` rest on it and on lemmas about the list: `ListFind` returns a
  position of the task, `GetNextTask` the next one around, and `Turn` stops at the first
  task after the current one that may run, so that a task that is passed over was not
  ready. `NothingDangles` needs a second invariant, `DanglingInv`, about the time before
  the first exit: a process not yet made is not current (`Unborn`), only the init task
  ends, and it leaves the scheduler before it is freed (`InitGone`).
* **AtaProofs**, for any tasks, disks, request sizes, addresses and region size. The
  invariant says which phase the device is in for each program counter of the lock's
  owner, that other channels are idle, and that the DMA buffer holds the commanded
  blocks once the phase is `done`. Lemmas on `TransferSize` (it fits 16 bits and the
  region) and `Wanted` (a prefix and the next chunk make a longer prefix) carry
  `AtaFits` and `AtaReads`; the others are `AtaTypes`, `AtaWakeup`, `AtaCopy`,
  `AtaOwned` and `AtaUnlocks`.
* **HeapProofs**, for any header, page and request sizes and any bound. `HeapInv` has
  the shape of the block list (each block ends where its successor begins, the links are
  each other's inverse, the first has no predecessor and the last ends at the break),
  `NoPair` (no two free neighbours), `LastUsed` (the last block is in use: `kfree()`
  trims the heap), `Served` (a block is as large as was asked) and `Pages` (all of the
  heap is mapped). `Tiled` and `Merged` are only inductive together with the links,
  because splitting and merging follow the pointers. Results: `HeapTiled`, `HeapLinked`,
  `HeapMerged`, `HeapServed`, `HeapBreakMapped`.
* **FramesProofs**, for any tasks, number of frames, byte width, region size and limit.
  The bitmap search is shown to return a zero bit below `SIZE` (`FindFreeFinds`), which
  needs the bits behind the last frame to be reserved (`TailReserved`). The scan's
  invariant says that every aligned free run seen so far would have been found
  (`ScanInv`), and rests on the fact that aligned starts are `DMA_PAGES` apart
  (`AlignedApart`). Results: `FramesTypes`, `FramesExclusive`, `FramesAccounted`,
  `FramesClear`, `FramesScan`.
* **ProcMemProofs**, for any number of frames, processes, segments, tree shape, accesses
  and `sbrk()` arguments. Unconditionally, no frame is in two places (`FramesUnshared`)
  and no page of the stack survives `delete_stack()` (`StackAllUnwound`): the counter may
  be too high, never too low (`Counted`). The other two have the exceptions of "Known
  deviations" as conditions, which the instance `procmem` satisfies. `FramesConserved`
  assumes `Permitted` (the program writes no read-only page and executes no no-execute
  page: else a frame is lost, as `procmem_fault` shows) and `ShrinkExact` assumes
  `NoWrap` (no increment takes the break around the address space). The invariant says
  that every used frame is used in one place (`Once`) and, under the condition, that
  every frame is free or used (`Kept`), that a deleted process has nothing (`Blank`),
  what the entries of which pages allow (`Flags`), where a break can be (`Breaks`) and
  that no page above it is mapped but the stack's (`HeapPages`).
* **Ext2Proofs**, for any number of tasks, any sizes of sectors, blocks, descriptors,
  inodes and pointers, any intact disks and any ranges. `Ext2Inv` says for each task
  what it has at each place of the code (`Control`), what the transfer in progress is
  meant to read (`Request`) and has read (`Outcome`), that a failed transfer will be
  reported (`Errors`), that the bytes it has so far are the file's (`Reading`), and what
  it may rely on in the shared state because of its locks (`Shared`); and for the file
  system that every `file_t` is complete or being filled in by the one task that looks
  files up (`Complete`). The arithmetic is its own set of lemmas: the driver's group,
  sector and index of an inode are where the format puts it (`InodePlace`), inodes do
  not share a place (`InodesApart`), a block's LBA is its sectors (`BlockOnDisk`), and
  the block read for pointer 2^64 - 1 is off the disk unless the partition begins a
  block into it (`WildBlock`). Offsets may lie behind the end of the file; a task whose
  length has wrapped has one (`Behind`), and it ends in an error or in the overrun. Results: `NobodySeesHalf`, `ErrorsReported`, `BuffersSafe` and
  `FetchesRight`; the last also needs `ListInv` (a directory is read whole) and shows
  that the loop of `ext2_fetch_dir()` finds every entry, in order, and ends
  (`ScanExists`, `EntriesRight`). `Ext2Refines` maps each step to `FileSpec`: probing,
  locks, seeks and copying stutter, a failed fetch is a `Lose`, a failed transfer of
  pointers and a new read may be a `Mislead`, and `Open`, `CopyBlock` and `ReadDone` are
  the `Return`s. Its exceptions are those `FileSpec` names: lost files, misled reads and
  the bytes of holes.
* **VfsProofs**, for any disks, partition tables, file systems, root names and paths.
  `VfsInvariant`: the registry is what the drivers registered, numbered apart but for
  partitions, and the mounted device was asked for; the `file_t` objects form a tree (an
  entry's object has the directory as its parent, no two entries share an object, and
  every object but the root has an entry). From it `RootRight` and `TreeKept`.
  `LookupInvariant` adds that every object that is not marked `lost` is a copy of its
  inode on the disk, that a lookup in progress has left to walk what leads from its
  directory to the same place as the whole path (`OnWay`), and that its answer is where
  the path leads in the tree, always, and the reference's, unless it came by a lost
  object (`Answered`): `OneFileEach`, `OpenRight`. The premises of `OpenRight` are those
  of `OpenCorrect`: the lookup did not come by an object that could not be read, the path
  is not of one character, and it does not lead to a `/dev` that the disk does not have.

The assumptions are the named ones of the modules. `IdentityAssumption`,
`TasksAssumption`, `PointerAssumption`, `ValuesAssumption`, `IdleAssumption`: pointers,
tasks and marks that stand for nothing are different from each other and from numbers
and calls. `HeapAssumption`, `FramesAssumption`, `AtaAssumption`, `ProcMemAssumption`,
`SizesAssumption`, `RangesAssumption`: sizes are positive, a DMA region has more than
one block, the stacks fit into the address space, sizes wrap where LBAs do, and no offset
is so large that its sum with the length wraps. `GarbledAssumption`: what an unread
directory seems to hold is a list of entries.
`DisksAssumption`: the file system is intact (`Consistent`), with inodes of the size the
driver knows. `ImageAssumption`, `DiskAssumption`, `NameAssumption`, `PathAssumption`: a
root directory has a `.`, drives have different minor numbers, paths have a component,
and the empty name and `dev` are not too long. TLC evaluates all of them in the runs.

The prover has no induction over data. What a recursive function computes (`EntryEnd`
and the loop of `Entries`, `Walk`, `HeapBrkAfter`) is proved all the same, by the least
element of the set of counterexamples (`UpTo` in `Ext2Proofs`, `LeastNat` elsewhere):
first that such a function exists, then what it is at each argument.

Only model-checked: the liveness properties `MutexReleased`, `ReadyRuns`,
`KilledReclaimed` and `ReadReturns`, since the prover does not handle fairness and
`ENABLED`. The four violations are TLC's counterexamples.

## Not modelled

The list of components in `PROJECT.json` gives the reasons. In short: boot-time
set-up of descriptors, page tables and PCI, port I/O, formatting and strings have no
state that several steps or actors can bring into disorder; page contents do not
matter to the properties; `mutex_destroy()`, `ata_write()` (a stub), `ramfs.c` (a stub),
`vfs_close()` (no caller) and drive identification are left out. (Read on the way: `ata.c:460`
indexes the device array a second time, and `boot32/paging.c:37` changes page directories at
entry 511.) The contents of a
ramdisk after a write are not modelled. Where `Ext2` lets several tasks read, the
kernel of this commit has one process: the locks are checked for what they are there
for.

Hazards without a property are mostly compositions: a mutex whose waiting list
allocates from the heap it protects, the unlocked walk of `kheap_check_corrupt()`, the
debug output lock held by a task that dies, and frames lost when the heap grows from an
aligned break. They need `Mutex`, `Heap` and `PageFrames` in one state space with the
heap's calls split into steps. That the scheduler may keep a freed process's task after
the first exit is not a property of its own: `NoDanglingTask` stops where
`OnlyKilledRemoved` is violated.

## Plan

* Strengthen what is proved: state for `AtaRead`, `Sched` and `Mutex` the step
  arguments that their liveness properties rest on (what is enabled in which state of the
  invariant) as safety theorems; a bound on `alloc_page` failures in `ProcMem`.
* Shorten `Ext2Proofs` and `VfsProofs` where several steps repeat the same frame argument.
