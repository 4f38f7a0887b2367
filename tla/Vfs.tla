-------------------------------- MODULE Vfs ---------------------------------
(***************************************************************************)
(* The virtual file system (kernel/fs/vfs.c, ffind.c), the block device    *)
(* registry under it (blockdev.c, blkdev_ops.c, partscan.c, ramdisk.c) and *)
(* the file system calls above it (fs_syscall.c, proc.c), from             *)
(* init_task_func() on: drivers and disks register, partitions are found,  *)
(* the root file system is mounted, device nodes are made, and the first   *)
(* process opens and reads files.                                          *)
(*                                                                         *)
(* One task runs at a time here: the init task until it starts the one     *)
(* process, then that.  ffind() is one step per path component; Ext2 shows *)
(* that a fetch under fs_tree_lock is seen as a whole.  A transfer may     *)
(* fail, and what it should have read is then garbage.  A null or wild     *)
(* pointer that is followed, and a kernel panic, stop the system.          *)
(***************************************************************************)
EXTENDS Naturals, Sequences, FiniteSets, SequencesExt

CONSTANTS NULL, Garbage, Idle,
          Unnamed,      \* the name of an entry that is not a direntry_t
          ROOT_INO,     \* the inode of its root directory: 2
          Initrds,      \* the ramdisks the boot loader may have loaded, or NULL
          Disks,        \* the disks ata_probe() finds, in order
          RootNames,    \* the values of the rootfs= parameter
          InitPath,     \* the value of the init= parameter
          Paths,        \* the paths the process opens
          Short,        \* the names of one character
          Long,         \* the names of more than 255 characters
          Garbled,      \* what a directory may seem to hold that was not read
          MaxFds,       \* how many files the process opens
          UNREAD_LIMIT  \* how many files below a good directory are not read

\* What can be mounted: disks, ramdisks and the used entries of their partition
\* tables, and the file systems on them.
Media == Range(Disks) \cup (Initrds \ {NULL})
Slots == (UNION {{m.parts[i] : i \in 1 .. 4} : m \in {m \in Media : m.parts # NULL}}) \ {NULL}
FileSystems == {x.fs : x \in Media \cup Slots}

\* The inodes of a file system exist; its root is a directory, and "." in it.
IsImage(fs) ==
  /\ DOMAIN fs \subseteq Nat /\ ROOT_INO \in DOMAIN fs /\ fs[ROOT_INO].type = "dir"
  /\ LET es == fs[ROOT_INO].entries
     IN  /\ \E k \in DOMAIN es : es[k].name = "."
         /\ \A k \in DOMAIN es : es[k].name = "." => es[k].inode = ROOT_INO
  /\ \A inode \in DOMAIN fs :
       /\ fs[inode].type \in {"reg", "dir", "block", "char"}
       /\ fs[inode].entries \in Seq([name : STRING, inode : DOMAIN fs])

IsPath(path) == path \in [abs : BOOLEAN, names : Seq(STRING) \ {<<>>}, slash : BOOLEAN]

\* The types of the state: names (the name of a ramdisk is not set), paths,
\* entries of a directory, file_t objects and calls in progress.
Types == {"reg", "dir", "block", "char"}
Statuses == {"SUCCESS", "EEXIST", "ENAMETOOLONG", "ENOENT", "ENOTDIR"}
NameT == STRING \cup {Garbage, "dev"}
PathT == [abs : BOOLEAN, names : Seq(NameT), slash : BOOLEAN]
EntryT == [name : STRING \cup {Unnamed}, inode : Nat, file : Nat \cup {NULL}]
FileT == [type : Types, inode : Nat, parent : Nat \cup {NULL},
          major : Nat \cup {Garbage}, minor : Nat \cup {Garbage}, lost : BOOLEAN,
          files : Seq(EntryT)]
CallT == [op : {"mkdir", "mknod", "exec", "open"}, path : PathT, file : {NULL} \cup FileT,
          pointer : BOOLEAN, target : Nat \cup {NULL, Garbage}, create : BOOLEAN, dir : Nat,
          rest : Seq(NameT), pc : {"ffind", "walk", "back"},
          status : Statuses, lost : BOOLEAN]

ASSUME PointerAssumption == NULL \notin Nat /\ Garbage \notin Nat /\ NULL # Garbage

ASSUME IdleAssumption == Idle \notin CallT

ASSUME ImageAssumption == \A fs \in FileSystems \ {NULL} : IsImage(fs)

ASSUME DiskAssumption ==
  /\ Disks \in Seq(Range(Disks))
  /\ \A x \in Range(Disks) \cup Slots : x.name \in STRING
  /\ \A i, j \in DOMAIN Disks :
       Disks[i].minor \in Nat /\ (Disks[i].minor = Disks[j].minor => i = j)

ASSUME NameAssumption ==
  Unnamed \notin STRING /\ Unnamed # "dev" /\ "" \notin Long /\ "dev" \notin Long

ASSUME PathAssumption ==
  IsPath(InitPath) /\ (\A path \in Paths : IsPath(path)) /\ MaxFds \in Nat

ASSUME GarbledAssumption ==
  Garbled \subseteq Seq([name : STRING, inode : Nat]) /\ UNREAD_LIMIT \in Nat

VARIABLES step,           \* where init_task_func() is; "user" when it is done
          rootfs,         \* the rootfs= parameter
          major_counter, major,    \* numbers given to block device drivers
          bd_list,        \* the registered block devices
          root_dev,       \* the device the root file system was mounted from
          node,           \* the file_t objects (a directory with its dir_t)
          vfs_initialized,
          call,           \* the VFS operation in progress
          next_bd,        \* the iterator of blockdev_mknodes()
          fd_counter, fd_list,     \* the process' descriptors
          result          \* what its last call returned

registry == <<rootfs, major_counter, major, bd_list, root_dev>>
process == <<fd_counter, fd_list, result>>
vars == <<step, registry, node, vfs_initialized, call, next_bd, process>>

Root == 1

\* What the device of the root file system holds: for every inode the type and,
\* for a directory, the entries.
Image == bd_list[root_dev].fs
Stop == step' = "stopped"

-----------------------------------------------------------------------------
(* Block devices *)

\* bd_register_driver()
RegisterDriver(driver) ==
  /\ major' = [major EXCEPT ![driver] = major_counter]
  /\ major_counter' = major_counter + 1

Device(driver, maj, minor, name, fs) ==
  [driver |-> driver, major |-> maj, minor |-> minor, name |-> name, fs |-> fs]

\* partscan(): a device for every partition in use, with its number in the
\* table as its minor number.
Partition(parts, i) ==
  IF parts[i] = NULL THEN <<>>
  ELSE <<Device("partscan", major["partscan"], i - 1, parts[i].name, parts[i].fs)>>

Partitions(parts) ==
  Partition(parts, 1) \o Partition(parts, 2) \o Partition(parts, 3) \o Partition(parts, 4)

\* bd_register() of a disk: it is listed, then scanned.  The scan ends at once
\* if its first sector cannot be read or has no partition table.  No node is
\* made yet: every device registers before vfs_init().
Register(device, parts) ==
  /\ ~vfs_initialized
  /\ \E found \in {<<>>, IF parts = NULL THEN <<>> ELSE Partitions(parts)} :
       bd_list' = bd_list \o <<device>> \o found

\* blockdev_init()
BlockdevInit ==
  /\ step = "blockdev_init"
  /\ RegisterDriver("partscan")
  /\ step' = "ramdisk_init"
  /\ UNCHANGED <<rootfs, bd_list, root_dev, node, vfs_initialized, call, next_bd, process>>

\* ramdisk_init(), and ramdisk_install() if there is a ramdisk.  The name of
\* its device is not set.
RamdiskInit ==
  /\ step = "ramdisk_init"
  /\ RegisterDriver("ramdisk")
  /\ \E initrd \in Initrds :
       IF initrd = NULL THEN UNCHANGED bd_list
       ELSE Register(Device("ramdisk", major_counter, 0, Garbage, initrd.fs), initrd.parts)
  /\ step' = "ata_init"
  /\ UNCHANGED <<rootfs, root_dev, node, vfs_initialized, call, next_bd, process>>

\* pc_ata_init()
AtaInit ==
  /\ step = "ata_init"
  /\ RegisterDriver("ata")
  /\ step' = "ata_probe"
  /\ UNCHANGED <<rootfs, bd_list, root_dev, node, vfs_initialized, call, next_bd, process>>

DisksListed == Cardinality({i \in DOMAIN bd_list : bd_list[i].driver = "ata"})

\* ata_probe() registers the next disk.
AtaDisk ==
  /\ step = "ata_probe" /\ DisksListed < Len(Disks)
  /\ LET d == Disks[DisksListed + 1]
     IN  Register(Device("ata", major["ata"], d.minor, d.name, d.fs), d.parts)
  /\ UNCHANGED <<step, rootfs, major_counter, major, root_dev, node, vfs_initialized,
                 call, next_bd, process>>

AtaDone ==
  /\ step = "ata_probe" /\ DisksListed = Len(Disks)
  /\ step' = "vfs_init"
  /\ UNCHANGED <<registry, node, vfs_initialized, call, next_bd, process>>

\* bd_get_by_name(): the first device of that name.
ByName(name) == SelectInSeq(bd_list, LAMBDA d : d.name # Garbage /\ d.name = name)

\* A slip: devices are told apart by the minor number alone.
BdOpenMinor(maj, min) == SelectInSeq(bd_list, LAMBDA d : d.minor = min)

\* bd_open(): the first device with these numbers.
BdOpen(maj, min) == SelectInSeq(bd_list, LAMBDA d : d.major = maj /\ d.minor = min)

-----------------------------------------------------------------------------
(* ffind(): call.pointer tells whether it was given a place for the result, *)
(* call.target what is in that place, call.create whether FFIND_CREATE.     *)

In(label) == call # Idle /\ call.pc = label /\ step # "stopped"

\* The lookup ends at a file_t; call.lost records whether that can be relied on.
Finish(status, target, at) ==
  call' = [call EXCEPT !.pc = "back", !.status = status, !.target = target,
                       !.lost = node[at].lost]

\* "/x": the test of ffind() for the root directory, pathname[1] == 0, comes
\* after pathname was moved past the slash.
OneCharacter(path) ==
  path.abs /\ ~path.slash /\ Len(path.names) = 1 /\ path.names[1] \in Short

\* "/": the test reads what is behind the end of the string.
Slash(path) == path.abs /\ path.names = <<"">>

FoundRoot ==
  /\ In("ffind") /\ (OneCharacter(call.path) \/ Slash(call.path))
  /\ IF call.create THEN Finish("EEXIST", call.target, Root) /\ UNCHANGED step
     ELSE IF ~call.pointer THEN Stop /\ UNCHANGED call
     ELSE Finish("SUCCESS", IF call.target = NULL THEN NULL ELSE Root, Root) /\ UNCHANGED step
  /\ UNCHANGED <<registry, node, vfs_initialized, next_bd, process>>

\* The walk starts at the root or at the working directory, which a process
\* never sets: it is null, and so the root, or wild.
StartWalk ==
  /\ In("ffind") /\ ~OneCharacter(call.path)
  /\ \/ call' = [call EXCEPT !.pc = "walk", !.dir = Root, !.rest = call.path.names]
        /\ UNCHANGED step
     \/ step = "user" /\ ~call.path.abs /\ Stop /\ UNCHANGED call
  /\ UNCHANGED <<registry, node, vfs_initialized, next_bd, process>>

Files == node[call.dir].files
CurrentName == IF Head(call.rest) = "" THEN "." ELSE Head(call.rest)
Match == SelectInSeq(Files, LAMBDA e : e.name # Unnamed /\ e.name = CurrentName)
Target == Files[Match].file
LastName == Len(call.rest) = 1
Walking == In("walk") /\ Head(call.rest) \notin Long

\* A name of more than 255 characters.
WalkTooLong ==
  /\ In("walk") /\ Head(call.rest) \in Long
  /\ Finish("ENAMETOOLONG", call.target, call.dir)
  /\ UNCHANGED <<step, registry, node, vfs_initialized, next_bd, process>>

\* ffind_noent(): the error, or the new file is put on the directory's list as
\* it is, without an entry that has its name.
Noent(at) ==
  IF ~call.create THEN Finish("ENOENT", call.target, at) /\ UNCHANGED node
  ELSE /\ node' = Append([node EXCEPT ![call.dir].files =
                    Append(@, [name |-> Unnamed, inode |-> 0, file |-> Len(node) + 1])],
                  [call.file EXCEPT !.parent = call.dir])
       /\ Finish("SUCCESS", Len(node) + 1, at)

\* The name is not there.
WalkMissing ==
  /\ Walking /\ Files # <<>> /\ Match = 0
  /\ Noent(call.dir)
  /\ UNCHANGED <<step, registry, vfs_initialized, next_bd, process>>

\* Nothing is there, or the name is a file where a directory is needed: the
\* code reads the new file from *node, even if node is null.
WalkDeadEnd ==
  /\ Walking
  /\ \/ Files = <<>>
     \/ Match # 0 /\ Target # NULL /\ ~LastName /\ node[Target].type # "dir"
  /\ IF call.pointer THEN Noent(IF Files = <<>> THEN call.dir ELSE Target) /\ UNCHANGED step
     ELSE Stop /\ UNCHANGED <<node, call>>
  /\ UNCHANGED <<registry, vfs_initialized, next_bd, process>>

\* The list ext2_fetch_dir() makes of the entries of a directory.
Unfetched(entries) ==
  [k \in DOMAIN entries |-> [name |-> entries[k].name, inode |-> entries[k].inode, file |-> NULL]]

\* The file_t of an inode, as ext2_fetch_file() fills it in.
FileOf(image, inode, parent, lost) ==
  [type |-> image[inode].type, inode |-> inode, parent |-> parent,
   major |-> Garbage, minor |-> Garbage, lost |-> lost,
   files |-> Unfetched(image[inode].entries)]

\* ext2_fetch_file() does not look whether the inode and the entries were read:
\* what memory held before is taken for them.
Unread(inode, parent) ==
  {[type |-> type, inode |-> inode, parent |-> parent,
    major |-> Garbage, minor |-> Garbage, lost |-> TRUE,
    files |-> IF type = "dir" THEN Unfetched(entries) ELSE <<>>] : type \in Types, entries \in Garbled}

\* A file below a lost directory is lost as well, even if it was read.
IsLost(parent) == parent # NULL /\ node[parent].lost

MayFail(parent) ==
  \/ IsLost(parent)
  \/ Cardinality({n \in DOMAIN node : node[n].lost /\ ~IsLost(node[n].parent)}) < UNREAD_LIMIT

Fetched(image, inode, parent) ==
  {FileOf(image, i, parent, IsLost(parent)) : i \in {inode} \cap DOMAIN image}
    \cup {f \in Unread(inode, parent) : MayFail(parent)}

AddFile(f) ==
  node' = Append([node EXCEPT ![call.dir].files[Match].file = Len(node) + 1], f)

\* Slips: the parent of the new file is not set; a file is fetched again unless
\* it was the last one.
FetchAs(parent, again) ==
  /\ Walking /\ Match # 0 /\ (Target = NULL \/ again)
  /\ \E f \in Fetched(Image, Files[Match].inode, call.dir) :
       (Target = NULL \/ ~f.lost) /\ AddFile([f EXCEPT !.parent = parent])
  /\ UNCHANGED <<step, registry, vfs_initialized, call, next_bd, process>>

FsFetchOrphan == FetchAs(NULL, FALSE)
FsFetchAgain == FetchAs(call.dir, LastName /\ Target # Len(node) /\ Len(node) < 15)

\* fs_fetch(): the first lookup of an entry reads its inode.  A directory that
\* was not read may also have a size that is wild, or an entry of size 0 that is
\* scanned forever.
FsFetch ==
  /\ Walking /\ Match # 0 /\ Target = NULL
  /\ \/ (\E f \in Fetched(Image, Files[Match].inode, call.dir) : AddFile(f)) /\ UNCHANGED step
     \/ MayFail(call.dir) /\ Stop /\ UNCHANGED node
  /\ UNCHANGED <<registry, vfs_initialized, call, next_bd, process>>

\* ffind_recursive() goes on in the directory.
WalkInto ==
  /\ Walking /\ Match # 0 /\ Target # NULL /\ ~LastName /\ node[Target].type = "dir"
  /\ call' = [call EXCEPT !.dir = Target, !.rest = Tail(@)]
  /\ UNCHANGED <<step, registry, node, vfs_initialized, next_bd, process>>

\* The last name was found: node is written to, unless it held null before.
WalkFound ==
  /\ Walking /\ Match # 0 /\ Target # NULL /\ LastName
  /\ IF call.path.slash /\ node[Target].type # "dir"
     THEN Finish("ENOTDIR", call.target, Target) /\ UNCHANGED step
     ELSE IF ~call.pointer THEN Stop /\ UNCHANGED call
     ELSE /\ Finish(IF call.create THEN "EEXIST" ELSE "SUCCESS",
                    IF call.target = NULL THEN NULL ELSE Target, Target)
          /\ UNCHANGED step
  /\ UNCHANGED <<registry, node, vfs_initialized, next_bd, process>>

-----------------------------------------------------------------------------
(* The operations above ffind() *)

Begin(op, path, file, pointer, target) ==
  call' = [op |-> op, path |-> path, file |-> file, pointer |-> pointer,
           target |-> target, create |-> FALSE, dir |-> Root, rest |-> <<>>,
           pc |-> "ffind", status |-> "SUCCESS", lost |-> FALSE]

\* falloc(), with the empty directory of vfs_mkdir() or the numbers of a device.
Falloc(type, maj, min) ==
  [type |-> type, inode |-> 0, parent |-> NULL, major |-> maj, minor |-> min, lost |-> FALSE,
   files |-> <<>>]

\* vfs_mkdir() and vfs_mknod() first look whether the file exists, with nowhere
\* for ffind() to put it ...
BeginCreate(op, path, file) == Begin(op, path, file, FALSE, NULL)

Creating == In("back") /\ call.op \in {"mkdir", "mknod"}

\* ... and if there is none, call it again to create it.
Create ==
  /\ Creating /\ ~call.create /\ call.status = "ENOENT"
  /\ call' = [call EXCEPT !.pc = "ffind", !.create = TRUE, !.pointer = TRUE,
                          !.target = Garbage]
  /\ UNCHANGED <<step, registry, node, vfs_initialized, next_bd, process>>

\* What vfs_init() does when its mkdir or one of the mknods is over; it looks
\* at the status of neither.
CreateDone ==
  /\ Creating /\ (call.create \/ call.status # "ENOENT")
  /\ IF call.op = "mkdir"
     THEN step' = "blockdev_mknodes" /\ vfs_initialized' = TRUE /\ UNCHANGED next_bd
     ELSE next_bd' = next_bd + 1 /\ UNCHANGED <<step, vfs_initialized>>
  /\ call' = Idle
  /\ UNCHANGED <<registry, node, process>>

\* probe_fs(): whether a driver knows the file system of the device.
ProbeFs(dev) == bd_list[dev].fs # NULL

\* vfs_init(): find the device, open it, probe and mount its file system, whose
\* root must look like a directory; the kernel panics if one of these fails.
MountRoot ==
  /\ step = "vfs_init"
  /\ LET named == ByName(rootfs)
         dev == IF named = 0 THEN 0 ELSE BdOpen(bd_list[named].major, bd_list[named].minor)
     IN  \/ Stop /\ UNCHANGED <<root_dev, node>>
         \/ /\ dev # 0 /\ ProbeFs(dev) /\ root_dev' = dev
            /\ \E f \in Fetched(bd_list[dev].fs, ROOT_INO, NULL) : f.type = "dir" /\ node' = <<f>>
            /\ step' = "mkdir_dev"
  /\ UNCHANGED <<rootfs, major_counter, major, bd_list, vfs_initialized, call, next_bd,
                 process>>

Abs(names) == [abs |-> TRUE, names |-> names, slash |-> FALSE]

MkdirDev ==
  /\ step = "mkdir_dev" /\ call = Idle
  /\ BeginCreate("mkdir", Abs(<<"dev">>), Falloc("dir", 0, 0))
  /\ UNCHANGED <<step, registry, node, vfs_initialized, next_bd, process>>

\* try_mknod_blkdevice()
TryMknod(d) ==
  BeginCreate("mknod", Abs(<<"dev", d.name>>), Falloc("block", d.major, d.minor))

\* blockdev_mknodes(): the node of the next device.
Mknod ==
  /\ step = "blockdev_mknodes" /\ call = Idle /\ next_bd <= Len(bd_list)
  /\ TryMknod(bd_list[next_bd])
  /\ UNCHANGED <<step, registry, node, vfs_initialized, next_bd, process>>

\* Every device has been tried; proc_start() opens the init program.  The
\* place vfs_open() gives ffind() is not initialised: it may hold null.
ProcStart ==
  /\ step = "blockdev_mknodes" /\ call = Idle /\ next_bd > Len(bd_list)
  /\ \E target \in {NULL, Garbage} : Begin("exec", InitPath, NULL, TRUE, target)
  /\ step' = "proc_start"
  /\ UNCHANGED <<registry, node, vfs_initialized, next_bd, process>>

-----------------------------------------------------------------------------
(* The system calls of the process *)

\* sys_open()
SysOpen(path) ==
  /\ step = "user" /\ call = Idle /\ fd_counter < MaxFds
  /\ \E target \in {NULL, Garbage} : Begin("open", path, NULL, TRUE, target)
  /\ result' = Idle
  /\ UNCHANGED <<step, registry, node, vfs_initialized, next_bd, fd_counter, fd_list>>

Opening == In("back") /\ call.op \in {"exec", "open"}

\* The end of vfs_open() for the init program.  Without a file or device that
\* loader_create() takes for a program the kernel panics.
ExecDone ==
  /\ Opening /\ call.op = "exec"
  /\ call' = Idle
  /\ \/ Stop
     \/ /\ call.status = "SUCCESS" /\ call.target # NULL
        /\ node[call.target].type \in {"reg", "block"}
        /\ step' = "user"
  /\ UNCHANGED <<registry, node, vfs_initialized, next_bd, process>>

\* What sys_open() returns: an error, or a new descriptor on a file or device.
OpenFailed(status) ==
  /\ result' = [op |-> "open", path |-> call.path, status |-> status, lost |-> call.lost]
  /\ UNCHANGED <<fd_counter, fd_list>>

\* A slip: the number is stored after the counter was incremented.
NewFdLate(file, bd) ==
  /\ fd_counter' = fd_counter + 1
  /\ fd_list' = Append(fd_list, [fd |-> fd_counter + 1, file |-> file, bd |-> bd, path |-> call.path])
  /\ result' = [op |-> "open", path |-> call.path, status |-> "SUCCESS", fd |-> fd_counter,
                lost |-> call.lost]

\* proc_new_fd()
NewFd(file, bd) ==
  /\ fd_counter' = fd_counter + 1
  /\ fd_list' = Append(fd_list, [fd |-> fd_counter, file |-> file, bd |-> bd, path |-> call.path])
  /\ result' = [op |-> "open", path |-> call.path, status |-> "SUCCESS", fd |-> fd_counter,
                lost |-> call.lost]

\* vfs_open() looks at what ffind() found.  The numbers of a device file are
\* not read from its inode, so bd_open() finds any device or none.
OpenDone ==
  /\ Opening /\ call.op = "open"
  /\ call' = Idle
  /\ IF call.status # "SUCCESS" THEN OpenFailed(call.status) /\ UNCHANGED step
     ELSE IF call.target = NULL THEN Stop /\ UNCHANGED process
     ELSE /\ UNCHANGED step
          /\ LET f == node[call.target]
             IN  CASE f.type = "reg" -> NewFd(call.target, 0)
                   [] f.type = "block" ->
                        \/ OpenFailed("ENOENT")
                        \/ \E i \in DOMAIN bd_list : NewFd(NULL, i)
                   [] f.type = "dir" -> OpenFailed("EISDIR")
                   [] OTHER -> OpenFailed("ENOSYS")
  /\ UNCHANGED <<registry, node, vfs_initialized, next_bd>>

\* proc_get_fd()
GetFd(fd) == SelectInSeq(fd_list, LAMBDA e : e.fd = fd)

\* The end of sys_read() and sys_write(): a status, but after a transfer they
\* unlock a mutex nobody has initialised, and may spin on it.  A buffer that ends
\* behind USER_BREAK is refused first.
Returned(op, statuses, transfers) ==
  \/ /\ \E status \in {"EINVAL"} \cup statuses :
          result' = [op |-> op, status |-> status]
     /\ UNCHANGED step
  \/ transfers /\ Stop /\ UNCHANGED result

\* sys_read() of the start of the file, as the position of a descriptor never
\* moves; the transfer may fail.
SysRead(fd) ==
  /\ step = "user" /\ call = Idle
  /\ Returned("read", IF GetFd(fd) = 0 THEN {"EBADF"} ELSE {"SUCCESS", "EIO"}, GetFd(fd) # 0)
  /\ UNCHANGED <<registry, node, vfs_initialized, call, next_bd, fd_counter, fd_list>>

\* bd_write(): disks cannot be written, and writing a partition reads it.
BdWrite(bd) ==
  CASE bd_list[bd].driver = "ata" -> {"ENOSYS"}
    [] bd_list[bd].driver = "partscan" -> {"SUCCESS", "EIO"}
    [] OTHER -> {"SUCCESS"}

\* sys_write(): 1 is the standard output whatever was opened as 1; files cannot
\* be written.
SysWrite(fd) ==
  /\ step = "user" /\ call = Idle
  /\ LET e == fd_list[GetFd(fd)]
         statuses == CASE fd = 1 -> {"SUCCESS"}
                       [] fd # 1 /\ GetFd(fd) = 0 -> {"EBADF"}
                       [] OTHER -> IF e.bd # 0 THEN BdWrite(e.bd) ELSE {"ENOSYS"}
     IN  Returned("write", statuses, fd # 1 /\ GetFd(fd) # 0)
  /\ UNCHANGED <<registry, node, vfs_initialized, call, next_bd, fd_counter, fd_list>>

\* After a panic or a fault nothing happens any more.
Halted == step = "stopped" /\ UNCHANGED vars

Init ==
  /\ step = "blockdev_init"
  /\ rootfs \in RootNames
  /\ major_counter = 1 /\ major = [d \in {"partscan", "ramdisk", "ata"} |-> 0]
  /\ bd_list = <<>> /\ root_dev = 0
  /\ node = <<>> /\ vfs_initialized = FALSE
  /\ call = Idle /\ next_bd = 1
  /\ fd_counter = 0 /\ fd_list = <<>> /\ result = Idle

Boot == BlockdevInit \/ RamdiskInit \/ AtaInit \/ AtaDisk \/ AtaDone \/ MountRoot
          \/ MkdirDev \/ Mknod \/ ProcStart

Ffind == FoundRoot \/ StartWalk \/ WalkTooLong \/ WalkMissing \/ WalkDeadEnd
           \/ FsFetch \/ WalkInto \/ WalkFound

Next ==
  \/ Boot \/ Ffind \/ Create \/ CreateDone \/ ExecDone \/ OpenDone \/ Halted
  \/ \E path \in Paths : SysOpen(path)
  \/ \E fd \in 0 .. MaxFds : SysRead(fd) \/ SysWrite(fd)

Spec == Init /\ [][Next]_vars

-----------------------------------------------------------------------------
\* The reference: what a name stands for in a directory of a file system, and
\* what a path does.
Found(inode) == [inode |-> inode, status |-> "SUCCESS"]
Error(status) == [inode |-> 0, status |-> status]

Below(image, inode, name) ==
  LET es == image[inode].entries
      k == SelectInSeq(es, LAMBDA e : e.name = IF name = "" THEN "." ELSE name)
  IN  IF image[inode].type # "dir" THEN Error("ENOENT")
      ELSE IF name \in Long THEN Error("ENAMETOOLONG")
      ELSE IF k = 0 THEN Error("ENOENT") ELSE Found(es[k].inode)

Walk(image, names) ==
  LET walk[k \in 0 .. Len(names)] ==
        IF k = 0 THEN Found(ROOT_INO)
        ELSE IF walk[k - 1].status # "SUCCESS" THEN walk[k - 1]
        ELSE Below(image, walk[k - 1].inode, names[k])
  IN  walk

Resolve(image, path) ==
  LET w == Walk(image, path.names)[Len(path.names)]
  IN  IF w.status = "SUCCESS" /\ path.slash /\ image[w.inode].type # "dir"
      THEN Error("ENOTDIR") ELSE w

\* The path comes to /dev, which vfs_init() makes because the disk has none.
Made(image, path) ==
  \E k \in DOMAIN path.names :
    /\ path.names[k] = "dev"
    /\ Walk(image, path.names)[k - 1] = Found(ROOT_INO)
    /\ Walk(image, path.names)[k].status = "ENOENT"

\* The results open() may have for a path on the disk.
Outcomes(image, path) ==
  LET r == Resolve(image, path)
  IN  IF r.status # "SUCCESS" THEN {r.status}
      ELSE CASE image[r.inode].type = "reg" -> {"SUCCESS"}
             [] image[r.inode].type = "block" -> {"SUCCESS", "ENOENT"}
             [] image[r.inode].type = "dir" -> {"EISDIR"}
             [] OTHER -> {"ENOSYS"}

\* sys_open() reports what the path names on the disk, and the number it returns
\* is a descriptor of that very file, whatever was looked up, fetched or lost
\* before and through which aliases.  Left out are a lookup that came by a file_t
\* which could not be read, a path of one character, which ffind() takes for the
\* root directory, and what is not on the disk but was made: its node has no name.
OpenCorrect ==
  result # Idle /\ result.op = "open" /\ ~result.lost
    /\ ~OneCharacter(result.path) /\ ~Made(Image, result.path) =>
    /\ result.status \in Outcomes(Image, result.path)
    /\ result.status = "SUCCESS" =>
         /\ GetFd(result.fd) # 0
         /\ LET f == fd_list[GetFd(result.fd)].file
            IN  f = NULL \/ node[f].inode = Resolve(Image, result.path).inode

\* The file_t objects form a tree: each but the root is on the list of exactly
\* one directory, the one it has as parent (assertion "file_t has no parent!",
\* vfs.c:260, and the fetch of an entry at most once, ext2fs.c:417).
OneParent ==
  \A n \in DOMAIN node \ {Root} :
    LET places == UNION {{<<d, k>> : k \in {k \in DOMAIN node[d].files :
                                             node[d].files[k].file = n}} : d \in DOMAIN node}
    IN  Cardinality(places) = 1 /\ \A p \in places : p[1] = node[n].parent

\* Opening the same path twice gives descriptors of the same file_t.
SameFile ==
  \A i, j \in DOMAIN fd_list :
    fd_list[i].path = fd_list[j].path /\ fd_list[i].bd = 0 /\ fd_list[j].bd = 0
      => fd_list[i].file = fd_list[j].file

\* "trying to mount '%s' at /" (vfs.c:59): the file system mounted is the one on
\* the device that was named, although it is opened by its numbers.  The one
\* exception: partitions of all disks share a major number and count from 0, so
\* a partition may be taken for the one of the same number on an earlier disk.
RootIsRequested ==
  root_dev # 0 =>
    LET d == bd_list[root_dev]
    IN  \/ d.name = rootfs
        \/ \E i \in DOMAIN bd_list :
             i > root_dev /\ bd_list[i] = [d EXCEPT !.name = rootfs, !.fs = bd_list[i].fs]
               /\ d.driver = "partscan"
=============================================================================
