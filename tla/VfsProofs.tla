----------------------------- MODULE VfsProofs -----------------------------
(***************************************************************************)
(* Vfs for any disks, partition tables, file systems, root names and       *)
(* paths: the file system that is mounted is the one that was asked for,   *)
(* the file_t objects stay a tree that copies the disk as far as it could  *)
(* be read, and a lookup ends where its path leads on the disk.            *)
(***************************************************************************)
EXTENDS Vfs, FiniteSetTheorems, SequenceTheorems, TLAPS

-----------------------------------------------------------------------------
(* Sequences and first matches *)

\* A set of naturals has a least element.
LEMMA LeastNat ==
  ASSUME NEW S \in SUBSET Nat, S # {}
  PROVE  Min(S) \in S /\ \A y \in S : Min(S) <= y
<1> DEFINE Less == {ss \in Nat \X Nat : ss[1] < ss[2]}
<1>1. IsWellFoundedOn(Less, Nat)
  BY NatLessThanWellFounded, Zenon DEF OpToRel
<1> HIDE DEF Less
<1>2. PICK x \in S : \A y \in S : ~(<<y, x>> \in Less)
  BY <1>1, WFMin, Zenon
<1>3. \A y \in S : ~(y < x)
  BY <1>2 DEF Less
<1>4. \A y \in S : x <= y
  BY <1>3
<1> QED
  BY <1>4 DEF Min

\* The members of a concatenation.
LEMMA ConcatMembers ==
  ASSUME NEW S, NEW s \in Seq(S), NEW t \in Seq(S)
  PROVE  /\ s \o t \in Seq(S) /\ Len(s \o t) = Len(s) + Len(t)
         /\ \A i \in 1 .. Len(s) : (s \o t)[i] = s[i]
         /\ \A i \in 1 .. Len(s \o t) :
              \/ i \in 1 .. Len(s) /\ (s \o t)[i] = s[i]
              \/ i - Len(s) \in 1 .. Len(t) /\ (s \o t)[i] = t[i - Len(s)]
  OBVIOUS

-----------------------------------------------------------------------------
(* The inductive invariant: the registry of block devices *)

Drivers == {"partscan", "ramdisk", "ata"}
Devices == [driver : Drivers, major : Nat, minor : Nat, name : NameT, fs : FileSystems]

\* The order in which drivers register gives them these numbers.
Number(driver) == IF driver = "partscan" THEN 1 ELSE IF driver = "ramdisk" THEN 2 ELSE 3

Early == {"blockdev_init", "ramdisk_init", "ata_init", "ata_probe"}
Late == {"mkdir_dev", "blockdev_mknodes", "proc_start", "user", "stopped"}

Ata == {i \in DOMAIN bd_list : bd_list[i].driver = "ata"}

Registry ==
  /\ step \in Early \cup {"vfs_init"} \cup Late
  /\ bd_list \in Seq(Devices)
  /\ major \in [Drivers -> Nat] /\ major_counter \in Nat
  /\ step = "blockdev_init" => bd_list = <<>> /\ major_counter = 1
  /\ step = "ramdisk_init" => bd_list = <<>> /\ major_counter = 2 /\ major["partscan"] = 1
  /\ step = "ata_init" => Ata = {} /\ major_counter = 3 /\ major["partscan"] = 1
  /\ step = "ata_probe" => major["partscan"] = 1 /\ major["ata"] = 3
  /\ \A i \in DOMAIN bd_list : bd_list[i].major = Number(bd_list[i].driver)

\* A ramdisk is registered once, and a disk for each drive.
Distinct ==
  /\ \A i, j \in DOMAIN bd_list :
       /\ bd_list[i].driver = "ramdisk" /\ bd_list[j].driver = "ramdisk" => i = j
       /\ i \in Ata /\ j \in Ata /\ bd_list[i].minor = bd_list[j].minor => i = j
  /\ \A i \in Ata : \E k \in 1 .. DisksListed : k \in DOMAIN Disks /\ bd_list[i].minor = Disks[k].minor

\* The root was mounted from the device that RootIsRequested allows.
Mounted ==
  /\ root_dev \in {0} \cup DOMAIN bd_list
  /\ root_dev # 0 => bd_list[root_dev].fs # NULL
  /\ root_dev = 0 <=> node = <<>>
  /\ step \in Early \cup {"vfs_init"} => root_dev = 0 /\ call = Idle
  /\ RootIsRequested

RegInv == Registry /\ Distinct /\ Mounted

-----------------------------------------------------------------------------
(* Registering *)

LEMMA MediaTypes ==
  ASSUME NEW m \in Media
  PROVE  /\ m.fs \in FileSystems
         /\ m.parts # NULL => \A i \in 1 .. 4 : m.parts[i] # NULL =>
                                m.parts[i].name \in STRING /\ m.parts[i].fs \in FileSystems
<1>1. m.fs \in FileSystems
  BY DEF FileSystems
<1>2. ASSUME m.parts # NULL, NEW i \in 1 .. 4, m.parts[i] # NULL
      PROVE  m.parts[i] \in Slots
  <2>1. m \in {x \in Media : x.parts # NULL}
    BY <1>2
  <2>2. m.parts[i] \in {m.parts[j] : j \in 1 .. 4}
    BY <1>2
  <2>3. m.parts[i] \in UNION {{x.parts[j] : j \in 1 .. 4} : x \in {x \in Media : x.parts # NULL}}
    BY <2>1, <2>2, Zenon
  <2> QED
    BY <1>2, <2>3 DEF Slots
<1>3. \A x \in Slots : x.name \in STRING /\ x.fs \in FileSystems
  BY DiskAssumption DEF FileSystems
<1> QED
  BY <1>1, <1>2, <1>3

\* What partscan() adds: partitions, with names and file systems of the table.
LEMMA PartitionsAre ==
  ASSUME NEW m \in Media, m.parts # NULL, major \in [Drivers -> Nat]
  PROVE  /\ Partitions(m.parts) \in Seq(Devices)
         /\ \A k \in 1 .. Len(Partitions(m.parts)) :
              /\ Partitions(m.parts)[k].driver = "partscan"
              /\ Partitions(m.parts)[k].major = major["partscan"]
<1> DEFINE P(i) == Partition(m.parts, i)
           PartDevs == {d \in Devices : d.driver = "partscan" /\ d.major = major["partscan"]}
<1>1. ASSUME NEW i \in 1 .. 4 PROVE P(i) \in Seq(PartDevs)
  <2>1. CASE m.parts[i] = NULL
    BY <2>1 DEF Partition
  <2>2. CASE m.parts[i] # NULL
    <3> DEFINE d == Device("partscan", major["partscan"], i - 1, m.parts[i].name, m.parts[i].fs)
    <3>1. m.parts[i].name \in STRING /\ m.parts[i].fs \in FileSystems
      BY <2>2, MediaTypes
    <3>2. d \in PartDevs
      BY <3>1 DEF Device, Devices, Drivers, NameT
    <3> HIDE DEF d, PartDevs
    <3>3. <<d>> \in Seq(PartDevs)
      BY <3>2
    <3>4. P(i) = <<d>>
      BY <2>2 DEF Partition, d
    <3> QED
      BY <3>3, <3>4
  <2> QED
    BY <2>1, <2>2
<1>2. Partitions(m.parts) = P(1) \o P(2) \o P(3) \o P(4)
  BY DEF Partitions
<1> HIDE DEF P
<1>3. Partitions(m.parts) \in Seq(PartDevs)
  <2> HIDE DEF PartDevs
  <2>1. P(1) \in Seq(PartDevs) /\ P(2) \in Seq(PartDevs) /\ P(3) \in Seq(PartDevs) /\ P(4) \in Seq(PartDevs)
    BY <1>1
  <2> QED
    BY <1>2, <2>1
<1>4. \A k \in 1 .. Len(Partitions(m.parts)) : Partitions(m.parts)[k] \in PartDevs
  <2> HIDE DEF PartDevs
  <2> QED
    BY <1>3
<1>5. Partitions(m.parts) \in Seq(Devices)
  BY <1>3, <1>4
<1> QED
  BY <1>4, <1>5

\* bd_register() of a disk or a ramdisk: the device, then some partitions.
LEMMA RegisterAdds ==
  ASSUME NEW m \in Media, NEW d \in Devices, Registry, Register(d, m.parts)
  PROVE  \E found \in Seq(Devices) :
           /\ bd_list' = bd_list \o <<d>> \o found
           /\ \A k \in 1 .. Len(found) : found[k].driver = "partscan" /\ found[k].major = major["partscan"]
<1>1. PICK found \in {<<>>, IF m.parts = NULL THEN <<>> ELSE Partitions(m.parts)} :
        bd_list' = bd_list \o <<d>> \o found
  BY DEF Register
<1>2. CASE found = <<>>
  <2>1. <<>> \in Seq(Devices) /\ \A k \in 1 .. Len(<<>>) : FALSE
    OBVIOUS
  <2>2. bd_list' = bd_list \o <<d>> \o <<>>
    BY <1>1, <1>2
  <2> QED
    BY <2>1, <2>2, Zenon
<1>3. CASE found # <<>>
  <2>1. m.parts # NULL /\ found = Partitions(m.parts)
    BY <1>1, <1>3
  <2> QED
    BY <1>1, <2>1, PartitionsAre DEF Registry
<1> QED
  BY <1>2, <1>3

\* The list after a registration, member by member.
Grows(d) ==
  /\ bd_list' \in Seq(Devices)
  /\ Len(bd_list) + 1 \in DOMAIN bd_list' /\ bd_list'[Len(bd_list) + 1] = d
  /\ \A i \in DOMAIN bd_list : i \in DOMAIN bd_list' /\ bd_list'[i] = bd_list[i]
  /\ \A i \in DOMAIN bd_list' :
       \/ i \in DOMAIN bd_list
       \/ i = Len(bd_list) + 1
       \/ bd_list'[i].driver = "partscan" /\ bd_list'[i].major = major["partscan"]

LEMMA RegisterGrows ==
  ASSUME NEW m \in Media, NEW d \in Devices, Registry, Register(d, m.parts)
  PROVE  Grows(d)
<1>1. PICK found \in Seq(Devices) :
        /\ bd_list' = bd_list \o <<d>> \o found
        /\ \A k \in 1 .. Len(found) : found[k].driver = "partscan" /\ found[k].major = major["partscan"]
  BY RegisterAdds
<1> DEFINE s == bd_list \o <<d>>
<1>2. bd_list \in Seq(Devices) /\ DOMAIN bd_list = 1 .. Len(bd_list) /\ Len(bd_list) \in Nat
  BY DEF Registry
<1>3. /\ s \in Seq(Devices) /\ Len(s) = Len(bd_list) + 1 /\ s[Len(bd_list) + 1] = d
      /\ \A i \in 1 .. Len(bd_list) : s[i] = bd_list[i]
  BY <1>2
<1>4. bd_list' = s \o found
  BY <1>1
<1> HIDE DEF s
<1>5. /\ bd_list' \in Seq(Devices) /\ Len(bd_list') = Len(s) + Len(found)
      /\ DOMAIN bd_list' = 1 .. Len(bd_list')
      /\ \A i \in 1 .. Len(s) : bd_list'[i] = s[i]
      /\ \A i \in 1 .. Len(bd_list') : i \in 1 .. Len(s)
                      \/ (i - Len(s) \in 1 .. Len(found) /\ bd_list'[i] = found[i - Len(s)])
  <2>1. /\ s \o found \in Seq(Devices) /\ Len(s \o found) = Len(s) + Len(found)
        /\ \A i \in 1 .. Len(s) : (s \o found)[i] = s[i]
        /\ \A i \in 1 .. Len(s \o found) :
             \/ i \in 1 .. Len(s) /\ (s \o found)[i] = s[i]
             \/ i - Len(s) \in 1 .. Len(found) /\ (s \o found)[i] = found[i - Len(s)]
    BY <1>3, ConcatMembers, Zenon
  <2>2. DOMAIN bd_list' = 1 .. Len(bd_list')
    BY <1>4, <2>1
  <2> QED
    BY <1>4, <2>1, <2>2, Zenon
<1>6. Len(found) \in Nat
  OBVIOUS
<1>7. Len(bd_list) + 1 \in DOMAIN bd_list' /\ bd_list'[Len(bd_list) + 1] = d
  BY <1>2, <1>3, <1>5, <1>6
<1>8. \A i \in DOMAIN bd_list : i \in DOMAIN bd_list' /\ bd_list'[i] = bd_list[i]
  BY <1>2, <1>3, <1>5, <1>6
<1>9. \A i \in DOMAIN bd_list' :
       \/ i \in DOMAIN bd_list
       \/ i = Len(bd_list) + 1
       \/ bd_list'[i].driver = "partscan" /\ bd_list'[i].major = major["partscan"]
  BY <1>1, <1>2, <1>3, <1>5, <1>6
<1> QED
  BY <1>5, <1>7, <1>8, <1>9 DEF Grows

LEMMA AtaCount ==
  ASSUME Registry
  PROVE  IsFiniteSet(Ata) /\ DisksListed = Cardinality(Ata) /\ DisksListed \in Nat
<1>1. IsFiniteSet(DOMAIN bd_list)
  <2>1. DOMAIN bd_list = 1 .. Len(bd_list) /\ Len(bd_list) \in Nat
    BY DEF Registry
  <2> QED
    BY <2>1, FS_Interval
<1>2. IsFiniteSet(Ata)
  BY <1>1, FS_Subset DEF Ata
<1> QED
  BY <1>2, FS_CardinalityType DEF DisksListed, Ata

\* bd_list and the numbers of the drivers are left alone.
Kept == UNCHANGED <<bd_list, major, major_counter>>

LEMMA KeptRegistry ==
  ASSUME Registry, Distinct, Kept,
         step' = step \/ (step \notin Early /\ step' \in Late) \/ (step = "ata_probe" /\ step' = "vfs_init")
  PROVE  Registry' /\ Distinct'
<1>1. Registry'
  BY DEF Registry, Kept, Early, Late, Ata
<1>2. Distinct'
  BY DEF Distinct, Kept, Ata, DisksListed
<1> QED
  BY <1>1, <1>2

LEMMA BlockdevInitRegistry ==
  ASSUME Registry, Distinct, BlockdevInit
  PROVE  Registry' /\ Distinct'
<1>1. /\ step = "blockdev_init" /\ step' = "ramdisk_init" /\ bd_list' = bd_list
      /\ major' = [major EXCEPT !["partscan"] = major_counter] /\ major_counter' = major_counter + 1
  BY DEF BlockdevInit, RegisterDriver
<1>2. bd_list = <<>> /\ major_counter = 1
  BY <1>1 DEF Registry
<1>3. Registry'
  BY <1>1, <1>2 DEF Registry, Drivers, Early
<1>4. Distinct'
  BY <1>1 DEF Distinct, Ata, DisksListed
<1> QED
  BY <1>3, <1>4

LEMMA AtaInitRegistry ==
  ASSUME Registry, Distinct, AtaInit
  PROVE  Registry' /\ Distinct'
<1>1. /\ step = "ata_init" /\ step' = "ata_probe" /\ bd_list' = bd_list
      /\ major' = [major EXCEPT !["ata"] = major_counter] /\ major_counter' = major_counter + 1
  BY DEF AtaInit, RegisterDriver
<1>2. major_counter = 3 /\ major["partscan"] = 1
  BY <1>1 DEF Registry
<1>3. Registry'
  BY <1>1, <1>2 DEF Registry, Drivers, Early
<1>4. Distinct'
  BY <1>1 DEF Distinct, Ata, DisksListed
<1> QED
  BY <1>3, <1>4

LEMMA RamdiskInitRegistry ==
  ASSUME Registry, Distinct, RamdiskInit
  PROVE  Registry' /\ Distinct'
<1>1. /\ step = "ramdisk_init" /\ step' = "ata_init"
      /\ major' = [major EXCEPT !["ramdisk"] = major_counter] /\ major_counter' = major_counter + 1
  BY DEF RamdiskInit, RegisterDriver
<1>2. bd_list = <<>> /\ major_counter = 2 /\ major["partscan"] = 1
  BY <1>1 DEF Registry
<1>3. /\ major'["partscan"] = 1 /\ major' \in [Drivers -> Nat] /\ major_counter' = 3
      /\ step' \in Early
  BY <1>1, <1>2 DEF Registry, Drivers, Early
<1>4. PICK initrd \in Initrds :
        IF initrd = NULL THEN UNCHANGED bd_list
        ELSE Register(Device("ramdisk", major_counter, 0, Garbage, initrd.fs), initrd.parts)
  BY DEF RamdiskInit
<1>5. CASE initrd = NULL
  <2>1. bd_list' = <<>>
    BY <1>2, <1>4, <1>5
  <2> QED
    BY <1>1, <1>3, <2>1 DEF Registry, Distinct, Ata, DisksListed
<1>6. CASE initrd # NULL
  <2> DEFINE d == Device("ramdisk", major_counter, 0, Garbage, initrd.fs)
  <2>1. initrd \in Media /\ initrd.fs \in FileSystems
    BY <1>6, MediaTypes DEF Media
  <2>2. d \in Devices /\ d.driver = "ramdisk" /\ d.major = 2
    BY <1>2, <2>1 DEF Device, Devices, Drivers, NameT
  <2>3. Register(d, initrd.parts)
    BY <1>4, <1>6
  <2> HIDE DEF d
  <2>4. Grows(d)
    BY <2>1, <2>2, <2>3, RegisterGrows
  <2>5. /\ bd_list' \in Seq(Devices)
        /\ \A i \in DOMAIN bd_list' :
             \/ i = 1 /\ bd_list'[i] = d
             \/ bd_list'[i].driver = "partscan" /\ bd_list'[i].major = 1
    BY <1>2, <2>4 DEF Grows
  <2>6. Ata' = {}
    BY <2>2, <2>5 DEF Ata
  <2>7. Registry'
    BY <1>1, <1>3, <2>2, <2>5, <2>6 DEF Registry, Number
  <2>8. Distinct'
    BY <2>5, <2>6 DEF Distinct
  <2> QED
    BY <2>7, <2>8
<1> QED
  BY <1>5, <1>6

LEMMA AtaDiskRegistry ==
  ASSUME Registry, Distinct, AtaDisk
  PROVE  Registry' /\ Distinct'
<1> DEFINE n == DisksListed + 1
           m == Disks[n]
           d == Device("ata", major["ata"], m.minor, m.name, m.fs)
           last == Len(bd_list) + 1
<1>1. /\ step = "ata_probe" /\ DisksListed < Len(Disks) /\ Register(d, m.parts)
      /\ UNCHANGED <<step, major_counter, major>>
  BY DEF AtaDisk
<1>2. DisksListed \in Nat /\ DisksListed = Cardinality(Ata) /\ IsFiniteSet(Ata)
  BY AtaCount
<1>3. n \in DOMAIN Disks /\ Disks \in Seq(Range(Disks)) /\ DOMAIN Disks = 1 .. Len(Disks)
  BY <1>1, <1>2, DiskAssumption
<1>4. m \in Range(Disks)
  BY <1>3
<1>5. m \in Media /\ m.name \in STRING /\ m.minor \in Nat /\ m.fs \in FileSystems
  <2>1. m \in Media
    BY <1>4 DEF Media
  <2> QED
    BY <1>3, <1>4, <2>1, MediaTypes, DiskAssumption
<1>6. major["partscan"] = 1 /\ major["ata"] = 3 /\ bd_list \in Seq(Devices)
  BY <1>1 DEF Registry
<1>7. d \in Devices /\ d.driver = "ata" /\ d.major = 3 /\ d.minor = m.minor
  <2> HIDE DEF m
  <2> QED
    BY <1>5, <1>6 DEF Device, Devices, Drivers, NameT
<1> HIDE DEF d, m
<1>8. Grows(d)
  BY <1>1, <1>5, <1>7, RegisterGrows
<1>9. DOMAIN bd_list = 1 .. Len(bd_list) /\ Len(bd_list) \in Nat /\ last \notin DOMAIN bd_list
  BY <1>6
<1>10. /\ bd_list' \in Seq(Devices) /\ last \in DOMAIN bd_list' /\ bd_list'[last] = d
       /\ \A i \in DOMAIN bd_list : i \in DOMAIN bd_list' /\ bd_list'[i] = bd_list[i]
       /\ \A i \in DOMAIN bd_list' :
            \/ i \in DOMAIN bd_list /\ bd_list'[i] = bd_list[i]
            \/ i = last /\ bd_list'[i] = d
            \/ bd_list'[i].driver = "partscan" /\ bd_list'[i].major = 1
  BY <1>6, <1>8 DEF Grows
<1> HIDE DEF last
<1>11. \A i : i \in Ata' <=> i \in Ata \/ i = last
  BY <1>7, <1>10 DEF Ata
<1>12. DisksListed' = n
  <2>1. Ata' = Ata \cup {last} /\ last \notin Ata
    BY <1>9, <1>11 DEF Ata
  <2>2. Cardinality(Ata') = DisksListed + 1
    BY <1>2, <2>1, FS_AddElement
  <2> QED
    BY <2>2 DEF DisksListed, Ata
<1>13. \A i \in DOMAIN bd_list' : bd_list'[i].major = Number(bd_list'[i].driver)
  <2>1. \A i \in DOMAIN bd_list : bd_list[i].major = Number(bd_list[i].driver)
    BY DEF Registry
  <2>2. Number("partscan") = 1 /\ Number("ata") = 3
    BY DEF Number
  <2> QED
    BY <1>7, <1>10, <2>1, <2>2
<1>14. Registry'
  BY <1>1, <1>6, <1>10, <1>13 DEF Registry, Early
<1>15. \A i \in Ata' : \/ i = last /\ bd_list'[i].minor = m.minor
                       \/ i \in Ata /\ bd_list'[i].minor = bd_list[i].minor
  BY <1>7, <1>9, <1>10, <1>11 DEF Ata
<1>16. \A i \in Ata : bd_list[i].minor # m.minor
  <2> SUFFICES ASSUME NEW i \in Ata PROVE bd_list[i].minor # m.minor
    OBVIOUS
  <2>1. PICK k \in 1 .. DisksListed : k \in DOMAIN Disks /\ bd_list[i].minor = Disks[k].minor
    BY DEF Distinct
  <2>2. k # n
    BY <1>2
  <2> QED
    BY <1>3, <2>1, <2>2, DiskAssumption DEF m
<1>17. \A i, j \in DOMAIN bd_list' :
         i \in Ata' /\ j \in Ata' /\ bd_list'[i].minor = bd_list'[j].minor => i = j
  <2>1. \A i, j \in Ata : bd_list[i].minor = bd_list[j].minor => i = j
    BY DEF Distinct, Ata
  <2> QED
    BY <1>15, <1>16, <2>1
<1>18. \A i, j \in DOMAIN bd_list' :
         bd_list'[i].driver = "ramdisk" /\ bd_list'[j].driver = "ramdisk" => i = j
  <2>1. \A i \in DOMAIN bd_list' : bd_list'[i].driver = "ramdisk" =>
            i \in DOMAIN bd_list /\ bd_list[i].driver = "ramdisk"
    BY <1>7, <1>10
  <2> QED
    BY <2>1 DEF Distinct
<1>19. \A i \in Ata' : \E k \in 1 .. DisksListed' : k \in DOMAIN Disks /\ bd_list'[i].minor = Disks[k].minor
  <2> SUFFICES ASSUME NEW i \in Ata'
               PROVE  \E k \in 1 .. n : k \in DOMAIN Disks /\ bd_list'[i].minor = Disks[k].minor
    BY <1>12
  <2>1. CASE i = last /\ bd_list'[i].minor = m.minor
    <3>1. n \in 1 .. n
      BY <1>2
    <3> QED
      BY <1>3, <2>1, <3>1 DEF m
  <2>2. CASE i \in Ata /\ bd_list'[i].minor = bd_list[i].minor
    <3>1. PICK k \in 1 .. DisksListed : k \in DOMAIN Disks /\ bd_list[i].minor = Disks[k].minor
      BY <2>2 DEF Distinct
    <3>2. k \in 1 .. n
      BY <1>2
    <3> QED
      BY <2>2, <3>1, <3>2
  <2> QED
    BY <1>15, <2>1, <2>2
<1> QED
  BY <1>14, <1>17, <1>18, <1>19 DEF Distinct

-----------------------------------------------------------------------------
(* The inductive invariant: the tree of file_t objects *)

Nodes ==
  /\ node \in Seq(FileT)
  /\ step \in Late \ {"stopped"} => node # <<>>

\* An operation in progress is in a directory of the tree, and what it creates
\* has no entries yet.
Active ==
  call # Idle =>
    /\ call \in CallT /\ call.path.names # <<>>
    /\ call.dir \in DOMAIN node
    /\ call.pc = "walk" => call.rest # <<>>
    /\ call.op \in {"mkdir", "mknod"} => call.file \in FileT /\ call.file.files = <<>>
    /\ call.create => call.op \in {"mkdir", "mknod"}

\* Every entry points down to a file that has its directory as parent, no two
\* entries point to the same file, and every file but the root has an entry.
Down ==
  \A d \in DOMAIN node : \A k \in DOMAIN node[d].files :
    node[d].files[k].file # NULL =>
      /\ node[d].files[k].file \in DOMAIN node
      /\ node[d].files[k].file # Root
      /\ node[node[d].files[k].file].parent = d

Single ==
  \A d, e \in DOMAIN node : \A k \in DOMAIN node[d].files : \A j \in DOMAIN node[e].files :
    node[d].files[k].file # NULL /\ node[d].files[k].file = node[e].files[j].file => d = e /\ k = j

Held ==
  \A n \in DOMAIN node : n # Root =>
    \E d \in DOMAIN node : \E k \in DOMAIN node[d].files : node[d].files[k].file = n

Tree == Down /\ Single /\ Held

NodeInv == Nodes /\ Active /\ Tree

IInv == RegInv /\ NodeInv

Cursor == next_bd \in Nat \ {0}

-----------------------------------------------------------------------------
(* Steps that add a file *)

\* The new file is entry k of directory d.
Adds(d, k) ==
  LET new == Len(node) + 1
  IN  /\ node' \in Seq(FileT) /\ Len(node') = new
      /\ \A e \in DOMAIN node : e # d => node'[e] = node[e]
      /\ node'[d].parent = node[d].parent
      /\ node'[d].type = node[d].type /\ node'[d].inode = node[d].inode
      /\ node'[d].lost = node[d].lost
      /\ DOMAIN node'[d].files = DOMAIN node[d].files \cup {k}
      /\ \A j \in DOMAIN node[d].files : j # k => node'[d].files[j] = node[d].files[j]
      /\ IF k \in DOMAIN node[d].files
         THEN /\ node[d].files[k].file = NULL
              /\ node'[d].files[k].name = node[d].files[k].name
              /\ node'[d].files[k].inode = node[d].files[k].inode
         ELSE node'[d].files[k].name = Unnamed
      /\ node'[d].files[k].file = new
      /\ node'[new].parent = d
      /\ \A j \in DOMAIN node'[new].files : node'[new].files[j].file = NULL

LEMMA AddsTree ==
  ASSUME node \in Seq(FileT), Tree, NEW d \in DOMAIN node, NEW k, Adds(d, k)
  PROVE  Tree'
<1> DEFINE new == Len(node) + 1
<1>1. /\ DOMAIN node = 1 .. Len(node) /\ Len(node) \in Nat /\ new \notin DOMAIN node /\ new # Root
      /\ DOMAIN node' = DOMAIN node \cup {new} /\ new # d /\ new # NULL
  <2>1. DOMAIN node = 1 .. Len(node) /\ Len(node) \in Nat
    OBVIOUS
  <2>2. Len(node) # 0
    BY <2>1
  <2>3. DOMAIN node' = 1 .. new
    BY DEF Adds
  <2> QED
    BY <2>1, <2>2, <2>3, PointerAssumption DEF Root
<1>2. /\ \A e \in DOMAIN node : e # d => node'[e] = node[e]
      /\ node'[d].parent = node[d].parent
      /\ DOMAIN node'[d].files = DOMAIN node[d].files \cup {k}
      /\ \A j \in DOMAIN node[d].files : j # k => node'[d].files[j] = node[d].files[j]
      /\ k \in DOMAIN node[d].files => node[d].files[k].file = NULL
      /\ node'[d].files[k].file = new
      /\ node'[new].parent = d
      /\ \A j \in DOMAIN node'[new].files : node'[new].files[j].file = NULL
  BY DEF Adds
<1> HIDE DEF new
<1> DEFINE Old(e, j) == /\ e \in DOMAIN node /\ j \in DOMAIN node[e].files
                        /\ node'[e].files[j].file = node[e].files[j].file
           New(e, j) == e = d /\ j = k /\ node'[e].files[j].file = new
\* An entry that points somewhere is an old one or the new one.
<1>3. \A e \in DOMAIN node' : \A j \in DOMAIN node'[e].files :
         node'[e].files[j].file # NULL => Old(e, j) \/ New(e, j)
  <2> SUFFICES ASSUME NEW e \in DOMAIN node', NEW j \in DOMAIN node'[e].files,
                      node'[e].files[j].file # NULL
               PROVE  Old(e, j) \/ New(e, j)
    OBVIOUS
  <2>1. CASE e = new
    BY <1>2, <2>1
  <2>2. CASE e = d
    BY <1>2, <2>2
  <2>3. CASE e # new /\ e # d
    BY <1>1, <1>2, <2>3
  <2> QED
    BY <2>1, <2>2, <2>3
<1>4. \A e \in DOMAIN node : node'[e].parent = node[e].parent
  BY <1>2
<1>5. \A e \in DOMAIN node' : \A j \in DOMAIN node'[e].files :
        node'[e].files[j].file # NULL =>
          /\ node'[e].files[j].file \in DOMAIN node'
          /\ node'[e].files[j].file # Root
          /\ node'[node'[e].files[j].file].parent = e
  <2> SUFFICES ASSUME NEW e \in DOMAIN node', NEW j \in DOMAIN node'[e].files,
                      node'[e].files[j].file # NULL
               PROVE  /\ node'[e].files[j].file \in DOMAIN node'
                      /\ node'[e].files[j].file # Root
                      /\ node'[node'[e].files[j].file].parent = e
    OBVIOUS
  <2>1. CASE Old(e, j)
    BY <1>1, <1>4, <2>1 DEF Tree, Down
  <2>2. CASE New(e, j)
    BY <1>1, <1>2, <2>2
  <2> QED
    BY <1>3, <2>1, <2>2
<1>6. \A e, g \in DOMAIN node' : \A i \in DOMAIN node'[e].files : \A j \in DOMAIN node'[g].files :
        node'[e].files[i].file # NULL /\ node'[e].files[i].file = node'[g].files[j].file => e = g /\ i = j
  <2> SUFFICES ASSUME NEW e \in DOMAIN node', NEW g \in DOMAIN node',
                      NEW i \in DOMAIN node'[e].files, NEW j \in DOMAIN node'[g].files,
                      node'[e].files[i].file # NULL, node'[e].files[i].file = node'[g].files[j].file
               PROVE  e = g /\ i = j
    OBVIOUS
  <2>1. (Old(e, i) \/ New(e, i)) /\ (Old(g, j) \/ New(g, j))
    BY <1>3
  <2>2. Old(e, i) => node'[e].files[i].file \in DOMAIN node
    BY DEF Tree, Down
  <2>3. Old(g, j) => node'[g].files[j].file \in DOMAIN node
    BY DEF Tree, Down
  <2>4. CASE Old(e, i) /\ Old(g, j)
    <3>1. /\ e \in DOMAIN node /\ g \in DOMAIN node
          /\ i \in DOMAIN node[e].files /\ j \in DOMAIN node[g].files
          /\ node[e].files[i].file # NULL /\ node[e].files[i].file = node[g].files[j].file
      BY <2>4
    <3> QED
      BY <3>1 DEF Tree, Single
  <2>5. CASE New(e, i) /\ New(g, j)
    BY <2>5
  <2> QED
    BY <1>1, <2>1, <2>2, <2>3, <2>4, <2>5
<1>7. \A n \in DOMAIN node' : n # Root =>
        \E e \in DOMAIN node' : \E j \in DOMAIN node'[e].files : node'[e].files[j].file = n
  <2> SUFFICES ASSUME NEW n \in DOMAIN node', n # Root
               PROVE  \E e \in DOMAIN node' : \E j \in DOMAIN node'[e].files : node'[e].files[j].file = n
    OBVIOUS
  <2>1. CASE n = new
    BY <1>1, <1>2, <2>1
  <2>2. CASE n # new
    <3>1. n \in DOMAIN node /\ n # NULL
      BY <1>1, <2>2, PointerAssumption
    <3>2. PICK e \in DOMAIN node : \E j \in DOMAIN node[e].files : node[e].files[j].file = n
      BY <3>1 DEF Tree, Held
    <3>3. PICK j \in DOMAIN node[e].files : node[e].files[j].file = n
      BY <3>2
    <3>4. j \in DOMAIN node'[e].files /\ node'[e].files[j].file = n
      BY <1>2, <3>1, <3>3
    <3> QED
      BY <1>1, <3>4
  <2> QED
    BY <2>1, <2>2
<1> QED
  BY <1>5, <1>6, <1>7 DEF Tree, Down, Single, Held

\* SelectInSeq() over the entries of the directory gives an entry of that name.
LEMMA MatchIs ==
  ASSUME Files \in Seq(EntryT), Match # 0
  PROVE  /\ Match \in DOMAIN Files /\ Files[Match].name # Unnamed /\ Files[Match].name = CurrentName
         /\ \A j \in DOMAIN Files : j < Match => Files[j].name # CurrentName
<1> DEFINE I == {i \in 1 .. Len(Files) : Files[i].name # Unnamed /\ Files[i].name = CurrentName}
<1>1. Match = IF I # {} THEN Min(I) ELSE 0
  BY Zenon DEF Match, SelectInSeq
<1>2. I # {} /\ I \in SUBSET Nat
  BY <1>1
<1> HIDE DEF I
<1>3. Match \in I /\ \A j \in I : Match <= j
  BY <1>1, <1>2, LeastNat
<1>4. Match \in 1 .. Len(Files) /\ Files[Match].name # Unnamed /\ Files[Match].name = CurrentName
  BY <1>3 DEF I
<1>5. ASSUME NEW j \in DOMAIN Files, j < Match PROVE Files[j].name # CurrentName
  <2>1. j \in 1 .. Len(Files) /\ j \notin I
    BY <1>3, <1>4, <1>5
  <2> QED
    BY <1>4, <2>1 DEF I
<1> QED
  BY <1>4, <1>5

\* The list of a directory, from what its entries seem to be.
LEMMA UnfetchedIs ==
  ASSUME NEW es \in Seq([name : STRING, inode : Nat])
  PROVE  /\ Unfetched(es) \in Seq(EntryT)
         /\ \A k \in DOMAIN Unfetched(es) : Unfetched(es)[k].file = NULL
<1> DEFINE E == [name : STRING, inode : Nat]
<1>1. es \in Seq(E)
  OBVIOUS
<1> HIDE DEF E
<1>2. DOMAIN es = 1 .. Len(es) /\ Len(es) \in Nat /\ \A k \in DOMAIN es : es[k] \in E
  BY <1>1
<1>3. \A k \in DOMAIN es : es[k].name \in STRING /\ es[k].inode \in Nat
  BY <1>2 DEF E
<1>4. Unfetched(es) \in [1 .. Len(es) -> EntryT]
  BY <1>2, <1>3 DEF Unfetched, EntryT
<1> QED
  BY <1>2, <1>4 DEF Unfetched

\* A file that was fetched: it is the one of the image, or lost.
LEMMA FetchedIs ==
  ASSUME NEW image, IsImage(image), NEW inode \in Nat, NEW parent \in Nat \cup {NULL},
         NEW f \in Fetched(image, inode, parent)
  PROVE  /\ f \in FileT /\ f.parent = parent
         /\ \A k \in DOMAIN f.files : f.files[k].file = NULL
         /\ f.inode = inode
         /\ ~f.lost => ~IsLost(parent) /\ inode \in DOMAIN image /\ f = FileOf(image, inode, parent, f.lost)
<1>0. IsLost(parent) \in BOOLEAN
  BY Zenon DEF IsLost
<1>1. CASE inode \in DOMAIN image /\ f = FileOf(image, inode, parent, IsLost(parent))
  <2> DEFINE es == image[inode].entries
  <2>1. image[inode].type \in Types /\ es \in Seq([name : STRING, inode : Nat])
    <3> DEFINE E == [name : STRING, inode : DOMAIN image]
               F == [name : STRING, inode : Nat]
    <3>1. image[inode].type \in Types /\ es \in Seq(E) /\ DOMAIN image \subseteq Nat
      BY <1>1 DEF IsImage, Types
    <3>2. \A e \in E : e \in F
      BY <3>1
    <3> HIDE DEF E, F, es
    <3>3. es \in Seq(F)
      BY <3>1, <3>2
    <3> QED
      BY <3>1, <3>3 DEF F, es
  <2>2. Unfetched(es) \in Seq(EntryT) /\ \A k \in DOMAIN Unfetched(es) : Unfetched(es)[k].file = NULL
    BY <2>1, UnfetchedIs
  <2> DEFINE fs == Unfetched(es)
             lost == IsLost(parent)
  <2>3. f = [type |-> image[inode].type, inode |-> inode, parent |-> parent,
             major |-> Garbage, minor |-> Garbage, lost |-> lost, files |-> fs]
    BY <1>1 DEF FileOf
  <2>4. lost \in BOOLEAN /\ fs \in Seq(EntryT) /\ \A k \in DOMAIN fs : fs[k].file = NULL
    BY <1>0, <2>2
  <2> HIDE DEF fs, lost
  <2>5. f \in FileT
    BY <2>1, <2>3, <2>4, Zenon DEF FileT
  <2>6. f.parent = parent /\ f.files = fs /\ f.inode = inode /\ f.lost = lost
    BY <2>3
  <2> QED
    BY <1>1, <2>4, <2>5, <2>6 DEF lost
<1>2. CASE f \in Unread(inode, parent)
  <2>1. PICK type \in Types, es \in Garbled :
          f = [type |-> type, inode |-> inode, parent |-> parent,
               major |-> Garbage, minor |-> Garbage, lost |-> TRUE,
               files |-> IF type = "dir" THEN Unfetched(es) ELSE <<>>]
    BY <1>2 DEF Unread
  <2> DEFINE fs == IF type = "dir" THEN Unfetched(es) ELSE <<>>
  <2>2. es \in Seq([name : STRING, inode : Nat])
    BY GarbledAssumption
  <2>3. fs \in Seq(EntryT) /\ \A k \in DOMAIN fs : fs[k].file = NULL
    BY <2>2, UnfetchedIs
  <2>4. TRUE \in BOOLEAN
    BY Zenon
  <2>5. f = [type |-> type, inode |-> inode, parent |-> parent,
             major |-> Garbage, minor |-> Garbage, lost |-> TRUE, files |-> fs]
    BY <2>1
  <2> HIDE DEF fs
  <2>6. f \in FileT
    BY <2>3, <2>4, <2>5, Zenon DEF FileT
  <2>7. f.parent = parent /\ f.files = fs /\ f.inode = inode /\ f.lost
    BY <2>5
  <2> QED
    BY <2>3, <2>6, <2>7
<1> QED
  BY <1>1, <1>2 DEF Fetched

\* What is mounted is a file system.
LEMMA ImageIs ==
  ASSUME RegInv, node # <<>>
  PROVE  root_dev \in DOMAIN bd_list /\ IsImage(Image)
<1>1. root_dev # 0 /\ root_dev \in DOMAIN bd_list /\ bd_list[root_dev].fs # NULL
  BY DEF RegInv, Mounted
<1>2. bd_list[root_dev] \in Devices
  BY <1>1 DEF RegInv, Registry
<1>3. Image \in FileSystems \ {NULL}
  BY <1>1, <1>2 DEF Devices, Image
<1> QED
  BY <1>1, <1>3, ImageAssumption

\* Nodes with one more file.
LEMMA AddsNodes ==
  ASSUME Nodes, NEW d \in DOMAIN node, NEW k, Adds(d, k)
  PROVE  Nodes'
<1>1. node' \in Seq(FileT) /\ Len(node') = Len(node) + 1 /\ node \in Seq(FileT)
  BY DEF Adds, Nodes
<1>2. node' # <<>>
  BY <1>1
<1> QED
  BY <1>1, <1>2 DEF Nodes

\* A file that was fetched or that was made for the call.
Adding(d, k) ==
  /\ Adds(d, k)
  /\ IF k \in DOMAIN node[d].files
     THEN node'[Len(node) + 1] \in Fetched(Image, node[d].files[k].inode, d)
     ELSE node'[Len(node) + 1] = [call.file EXCEPT !.parent = d]

\* A step of ffind() that adds a file.
Added ==
  /\ UNCHANGED registry
  /\ \E d \in DOMAIN node : \E k : Adding(d, k)
  /\ Nodes' /\ Tree'

LEMMA FetchAdds ==
  ASSUME RegInv, NodeInv, Walking, Match # 0, Target = NULL, UNCHANGED registry,
         NEW f \in Fetched(Image, Files[Match].inode, call.dir), AddFile(f)
  PROVE  Added
<1> DEFINE d == call.dir
           k == Match
           new == Len(node) + 1
<1>1. call # Idle /\ Files[k].file = NULL /\ node' = Append([node EXCEPT ![d].files[k].file = new], f)
  BY DEF Walking, In, Target, AddFile
<1>2. node \in Seq(FileT) /\ d \in DOMAIN node /\ d \in Nat /\ DOMAIN node = 1 .. Len(node) /\ Len(node) \in Nat
  <2>1. node \in Seq(FileT) /\ d \in DOMAIN node
    BY <1>1 DEF NodeInv, Nodes, Active
  <2> QED
    BY <2>1
<1>3. node[d] \in FileT
  BY <1>2
<1>4. node[d].files \in Seq(EntryT) /\ Files = node[d].files
  BY <1>3 DEF FileT, Files
<1>5. k \in DOMAIN node[d].files /\ node[d].files[k].name # Unnamed
  BY <1>4, MatchIs
<1>6. node # <<>>
  <2>1. DOMAIN node # {} /\ DOMAIN <<>> = {}
    BY <1>2
  <2> QED
    BY <2>1, Zenon
<1>7. IsImage(Image) /\ Files[Match].inode \in Nat
  <2>1. node[d].files[k] \in EntryT
    BY <1>4, <1>5
  <2> QED
    BY <1>4, <1>6, <2>1, ImageIs DEF EntryT
<1>8. f \in FileT /\ f.parent = d /\ \A j \in DOMAIN f.files : f.files[j].file = NULL
  <2>1. PICK image, inode, parent : image = Image /\ inode = Files[Match].inode /\ parent = d
    OBVIOUS
  <2>2. IsImage(image) /\ inode \in Nat /\ parent \in Nat \cup {NULL}
    BY <1>2, <1>7, <2>1
  <2>3. f \in Fetched(image, inode, parent)
    BY <2>1 DEF Fetched, IsLost, MayFail
  <2>4. f \in FileT /\ f.parent = parent /\ \A j \in DOMAIN f.files : f.files[j].file = NULL
    BY <2>2, <2>3, FetchedIs
  <2> QED
    BY <2>1, <2>4
<1> DEFINE fs == [node[d].files EXCEPT ![k].file = new]
           g == [node[d] EXCEPT !.files = fs]
<1> HIDE DEF k
<1>9. /\ fs \in Seq(EntryT) /\ DOMAIN fs = DOMAIN node[d].files /\ fs[k].file = new
      /\ fs[k].inode = node[d].files[k].inode /\ fs[k].name = node[d].files[k].name
      /\ \A j \in DOMAIN node[d].files : j # k => fs[j] = node[d].files[j]
  <2>1. node[d].files[k] \in EntryT /\ new \in Nat
    BY <1>2, <1>4, <1>5
  <2>2. [node[d].files[k] EXCEPT !.file = new] \in EntryT
    BY <2>1 DEF EntryT
  <2>3. /\ [node[d].files[k] EXCEPT !.file = new].file = new
        /\ [node[d].files[k] EXCEPT !.file = new].inode = node[d].files[k].inode
        /\ [node[d].files[k] EXCEPT !.file = new].name = node[d].files[k].name
    BY <2>1 DEF EntryT
  <2> QED
    BY <1>4, <1>5, <2>2, <2>3
<1> HIDE DEF fs
<1>10. /\ g \in FileT /\ g.parent = node[d].parent /\ g.type = node[d].type /\ g.inode = node[d].inode
       /\ g.lost = node[d].lost /\ g.files = fs
  BY <1>3, <1>9 DEF FileT
<1>11. node' = Append([node EXCEPT ![d] = g], f)
  BY <1>1, <1>2, <1>3 DEF FileT, fs
<1> HIDE DEF g
<1>12. /\ node' \in Seq(FileT) /\ Len(node') = new /\ node'[new] = f /\ node'[d] = g
       /\ \A e \in DOMAIN node : e # d => node'[e] = node[e]
  <2> DEFINE s == [node EXCEPT ![d] = g]
  <2>1. s \in Seq(FileT) /\ Len(s) = Len(node) /\ s[d] = g /\ \A e \in DOMAIN node : e # d => s[e] = node[e]
    BY <1>2, <1>10
  <2> HIDE DEF s
  <2>2. node' = Append(s, f)
    BY <1>11 DEF s
  <2> QED
    BY <1>2, <1>8, <2>1, <2>2
<1>13. Adds(d, k)
  <2>1. k \in DOMAIN node[d].files /\ node[d].files[k].file = NULL /\ DOMAIN fs = DOMAIN node[d].files \cup {k}
    BY <1>1, <1>4, <1>5, <1>9
  <2>2. node'[d].files = fs /\ node'[new].parent = d /\ \A j \in DOMAIN node'[new].files : node'[new].files[j].file = NULL
    BY <1>8, <1>10, <1>12
  <2> QED
    BY <1>9, <1>10, <1>12, <2>1, <2>2 DEF Adds
<1>14. Nodes'
  BY <1>2, <1>13, AddsNodes DEF NodeInv
<1>15. Tree'
  BY <1>2, <1>13, AddsTree DEF NodeInv
<1>16. Adding(d, k)
  <2>1. node'[new] \in Fetched(Image, node[d].files[k].inode, d)
    BY <1>4, <1>12 DEF k
  <2> QED
    BY <1>5, <1>13, <2>1 DEF Adding
<1> QED
  BY <1>2, <1>14, <1>15, <1>16 DEF Added

\* ffind_noent() adds the file of the call.
LEMMA NoentAdds ==
  ASSUME RegInv, NodeInv, NEW at, Noent(at), call # Idle, UNCHANGED registry, call.create
  PROVE  Added
<1> DEFINE d == call.dir
           new == Len(node) + 1
           f == [call.file EXCEPT !.parent = d]
           entry == [name |-> Unnamed, inode |-> 0, file |-> new]
           fs == Append(node[d].files, entry)
           k == Len(node[d].files) + 1
           g == [node[d] EXCEPT !.files = fs]
<1>1. node' = Append([node EXCEPT ![d].files = fs], f)
  BY DEF Noent
<1>2. node \in Seq(FileT) /\ d \in DOMAIN node /\ d \in Nat /\ DOMAIN node = 1 .. Len(node) /\ Len(node) \in Nat
  <2>1. node \in Seq(FileT) /\ d \in DOMAIN node
    BY DEF NodeInv, Nodes, Active
  <2> QED
    BY <2>1
<1>3. node[d] \in FileT
  BY <1>2
<1>4. call.file \in FileT /\ call.file.files = <<>>
  BY DEF NodeInv, Active
<1>5. f \in FileT /\ f.parent = d /\ f.files = <<>>
  BY <1>2, <1>4 DEF FileT
<1>6. entry \in EntryT
  BY <1>2 DEF EntryT
<1>7. node[d].files \in Seq(EntryT) /\ Len(node[d].files) \in Nat /\ DOMAIN node[d].files = 1 .. Len(node[d].files)
  <2>1. node[d].files \in Seq(EntryT)
    BY <1>3 DEF FileT
  <2> QED
    BY <2>1
<1>8. /\ fs \in Seq(EntryT) /\ DOMAIN fs = DOMAIN node[d].files \cup {k} /\ fs[k] = entry
      /\ k \notin DOMAIN node[d].files
      /\ \A j \in DOMAIN node[d].files : fs[j] = node[d].files[j]
  <2> HIDE DEF entry
  <2> QED
    BY <1>6, <1>7
<1> HIDE DEF fs, f
<1>9. /\ g \in FileT /\ g.parent = node[d].parent /\ g.type = node[d].type /\ g.inode = node[d].inode
       /\ g.lost = node[d].lost /\ g.files = fs
  BY <1>3, <1>8 DEF FileT
<1>10. node' = Append([node EXCEPT ![d] = g], f)
  BY <1>1, <1>2, <1>3 DEF FileT
<1> HIDE DEF g, k
<1>11. /\ node' \in Seq(FileT) /\ Len(node') = new /\ node'[new] = f /\ node'[d] = g
       /\ \A e \in DOMAIN node : e # d => node'[e] = node[e]
  <2> DEFINE s == [node EXCEPT ![d] = g]
  <2>1. s \in Seq(FileT) /\ Len(s) = Len(node) /\ s[d] = g /\ \A e \in DOMAIN node : e # d => s[e] = node[e]
    BY <1>2, <1>9
  <2> HIDE DEF s
  <2>2. node' = Append(s, f)
    BY <1>10 DEF s
  <2> QED
    BY <1>2, <1>5, <2>1, <2>2
<1>12. Adds(d, k)
  <2>1. \A j \in DOMAIN f.files : FALSE
    BY <1>5
  <2> QED
    BY <1>5, <1>8, <1>9, <1>11, <2>1 DEF Adds
<1>13. Nodes'
  BY <1>2, <1>12, AddsNodes DEF NodeInv
<1>14. Tree'
  BY <1>2, <1>12, AddsTree DEF NodeInv
<1>15. Adding(d, k)
  BY <1>8, <1>11, <1>12 DEF Adding, f
<1> QED
  BY <1>2, <1>13, <1>14, <1>15 DEF Added

-----------------------------------------------------------------------------
(* The steps of the system *)

\* The registry stays, and the system goes on or stops.
Steady ==
  /\ UNCHANGED registry
  /\ step' = step \/ (step \in Late \cup {"vfs_init"} /\ step' = "stopped")
                  \/ (step \in Late \ {"stopped"} /\ step' \in Late)

LEMMA SteadyReg ==
  ASSUME RegInv, Steady, node' # <<>> <=> node # <<>>,
         step \in Early \cup {"vfs_init"} => call' = Idle
  PROVE  RegInv'
<1>1. Registry' /\ Distinct'
  <2>1. Kept /\ Registry /\ Distinct
    BY DEF Steady, registry, Kept, RegInv
  <2>2. step' = step \/ (step \notin Early /\ step' \in Late)
    BY DEF Steady, Early, Late
  <2> QED
    BY <2>1, <2>2, KeptRegistry
<1>2. UNCHANGED <<bd_list, root_dev, rootfs>>
  BY DEF Steady, registry
<1>3. Mounted'
  <2>1. Mounted
    BY DEF RegInv
  <2>2. RootIsRequested'
    BY <1>2, <2>1 DEF Mounted, RootIsRequested
  <2>3. step' \in Early \cup {"vfs_init"} => step' = step
    BY DEF Steady, Early, Late
  <2> QED
    BY <1>2, <2>1, <2>2, <2>3 DEF Mounted
<1> QED
  BY <1>1, <1>3 DEF RegInv

LEMMA SteadyNodes ==
  ASSUME NodeInv, Steady, node' = node
  PROVE  Nodes' /\ Tree'
<1>1. UNCHANGED <<bd_list, root_dev>>
  BY DEF Steady, registry
<1>2. step' \in Late \ {"stopped"} => step \in Late \ {"stopped"}
  BY DEF Steady, Late
<1>3. Nodes'
  BY <1>1, <1>2 DEF NodeInv, Nodes, Image
<1>4. Tree'
  BY DEF NodeInv, Tree, Down, Single, Held
<1> QED
  BY <1>3, <1>4

LEMMA RootThere ==
  ASSUME Nodes, node # <<>>
  PROVE  Root \in DOMAIN node /\ DOMAIN node \subseteq Nat
<1>1. node \in Seq(FileT)
  BY DEF Nodes
<1> QED
  BY <1>1 DEF Root

\* A call in progress: the root is mounted.
LEMMA CallMounted ==
  ASSUME IInv, call # Idle
  PROVE  node # <<>> /\ step \in Late
<1>1. step \in Late
  BY DEF IInv, RegInv, Mounted, Registry
<1>2. call.dir \in DOMAIN node
  BY DEF IInv, NodeInv, Active
<1>3. DOMAIN <<>> = {}
  OBVIOUS
<1> QED
  BY <1>1, <1>2, <1>3, Zenon

LEMMA FinishActive ==
  ASSUME IInv, call # Idle, DOMAIN node \subseteq DOMAIN node', NEW at \in DOMAIN node,
         NEW status \in Statuses, NEW target \in Nat \cup {NULL, Garbage}, Finish(status, target, at)
  PROVE  Active'
<1> DEFINE lost == node[at].lost
<1>0. lost \in BOOLEAN
  <2>1. node[at] \in FileT
    BY DEF IInv, NodeInv, Nodes
  <2> QED
    BY <2>1 DEF FileT
<1>1. call' = [call EXCEPT !.pc = "back", !.status = status, !.target = target, !.lost = lost]
  BY DEF Finish
<1> HIDE DEF lost
<1>2. call \in CallT /\ Active
  BY DEF IInv, NodeInv, Active
<1>3. call' \in CallT /\ call'.pc = "back"
  BY <1>0, <1>1, <1>2 DEF CallT
<1>4. /\ call'.path = call.path /\ call'.dir = call.dir /\ call'.op = call.op
      /\ call'.file = call.file /\ call'.create = call.create
  BY <1>1, <1>2 DEF CallT
<1> QED
  BY <1>2, <1>3, <1>4 DEF Active

LEMMA BeginActive ==
  ASSUME Nodes, node # <<>>, node' = node, NEW op \in {"mkdir", "mknod", "exec", "open"},
         NEW path \in PathT, path.names # <<>>, NEW file \in {NULL} \cup FileT,
         NEW pointer \in BOOLEAN, NEW target \in Nat \cup {NULL, Garbage},
         op \in {"mkdir", "mknod"} => file \in FileT /\ file.files = <<>>,
         Begin(op, path, file, pointer, target)
  PROVE  Active'
<1>1. call' = [op |-> op, path |-> path, file |-> file, pointer |-> pointer,
               target |-> target, create |-> FALSE, dir |-> Root, rest |-> <<>>,
               pc |-> "ffind", status |-> "SUCCESS", lost |-> FALSE]
  BY DEF Begin
<1>2. Root \in DOMAIN node /\ Root \in Nat
  BY RootThere DEF Root
<1>3. call' \in CallT
  <2>1. <<>> \in Seq(NameT)
    OBVIOUS
  <2>2. "ffind" \in {"ffind", "walk", "back"} /\ "SUCCESS" \in Statuses
    BY DEF Statuses
  <2>3. FALSE \in BOOLEAN
    BY Zenon
  <2> QED
    BY <1>1, <1>2, <2>1, <2>2, <2>3, Zenon DEF CallT
<1>4. /\ call'.path = path /\ call'.dir = Root /\ call'.op = op /\ call'.file = file
      /\ call'.create = FALSE /\ call'.pc = "ffind"
  BY <1>1
<1> QED
  BY <1>2, <1>3, <1>4 DEF Active

\* Steps of a call that leave the tree alone.
LEMMA CallStep ==
  ASSUME IInv, call # Idle, Steady, node' = node, Active'
  PROVE  IInv'
<1>1. step \in Late
  BY CallMounted
<1>2. step \notin Early \cup {"vfs_init"}
  BY <1>1 DEF Early, Late
<1>3. RegInv'
  BY <1>2, SteadyReg DEF IInv
<1> QED
  BY <1>3, SteadyNodes DEF IInv, NodeInv

\* Steps of a call that add a file.
LEMMA CallAdds ==
  ASSUME IInv, call # Idle, Steady, Added, Active'
  PROVE  IInv'
<1>1. step \in Late /\ node # <<>>
  BY CallMounted
<1>2. step \notin Early \cup {"vfs_init"}
  BY <1>1 DEF Early, Late
<1>3. node' # <<>>
  <2>1. PICK d \in DOMAIN node : \E k : Adding(d, k)
    BY DEF Added
  <2>2. node \in Seq(FileT) /\ node' \in Seq(FileT) /\ Len(node') = Len(node) + 1
    BY <2>1 DEF Adding, Adds, IInv, NodeInv, Nodes
  <2> QED
    BY <2>2
<1>4. RegInv'
  BY <1>1, <1>2, <1>3, SteadyReg DEF IInv
<1> QED
  BY <1>4 DEF IInv, NodeInv, Added

LEMMA AddedDomain ==
  ASSUME Nodes, Added
  PROVE  DOMAIN node \subseteq DOMAIN node'
<1>1. PICK d \in DOMAIN node : \E k : Adding(d, k)
  BY DEF Added
<1>2. node \in Seq(FileT) /\ node' \in Seq(FileT) /\ Len(node') = Len(node) + 1
  BY <1>1 DEF Adding, Adds, Nodes
<1> QED
  BY <1>2

\* The entry that was found leads to a file of the tree.
LEMMA TargetIs ==
  ASSUME IInv, Walking, Match # 0, Target # NULL
  PROVE  Target \in DOMAIN node /\ Target \in Nat /\ Target # Root
<1>1. call # Idle /\ call.dir \in DOMAIN node /\ node \in Seq(FileT)
  BY DEF Walking, In, IInv, NodeInv, Nodes, Active
<1>2. node[call.dir] \in FileT
  BY <1>1
<1>3. Files \in Seq(EntryT) /\ Files = node[call.dir].files
  BY <1>2 DEF FileT, Files
<1>4. Match \in DOMAIN Files
  BY <1>3, MatchIs
<1>5. Target \in DOMAIN node /\ Target # Root
  BY <1>1, <1>3, <1>4 DEF Target, IInv, NodeInv, Tree, Down
<1> QED
  BY <1>1, <1>5

LEMMA CallTarget ==
  ASSUME IInv, call # Idle
  PROVE  /\ call.target \in Nat \cup {NULL, Garbage} /\ Active /\ call \in CallT
         /\ step \in Late
<1>1. call \in CallT /\ Active
  BY DEF IInv, NodeInv, Active
<1>2. step \in Late
  BY CallMounted
<1> QED
  BY <1>1, <1>2 DEF CallT

LEMMA FoundRootStep ==
  ASSUME IInv, FoundRoot
  PROVE  IInv'
<1>1. call # Idle /\ UNCHANGED <<registry, node>> /\ step \in Late /\ Root \in DOMAIN node
  <2>1. call # Idle /\ UNCHANGED <<registry, node>> /\ step \in Late
    BY CallTarget DEF FoundRoot, In
  <2> QED
    BY <2>1, CallMounted, RootThere DEF IInv, NodeInv
<1>2. CASE UNCHANGED step /\ Finish("EEXIST", call.target, Root)
  <2>1. Active'
    BY <1>1, <1>2, CallTarget, FinishActive DEF Statuses
  <2> QED
    BY <1>1, <1>2, <2>1, CallStep DEF Steady
<1>3. CASE Stop /\ UNCHANGED call
  <2>1. Active'
    BY <1>1, <1>3, CallTarget DEF Active
  <2> QED
    BY <1>1, <1>3, <2>1, CallStep DEF Steady, Stop
<1>4. CASE UNCHANGED step /\ Finish("SUCCESS", IF call.target = NULL THEN NULL ELSE Root, Root)
  <2>1. (IF call.target = NULL THEN NULL ELSE Root) \in Nat \cup {NULL, Garbage}
    BY DEF Root
  <2>2. Active'
    BY <1>1, <1>4, <2>1, CallTarget, FinishActive DEF Statuses
  <2> QED
    BY <1>1, <1>4, <2>2, CallStep DEF Steady
<1> QED
  BY <1>2, <1>3, <1>4 DEF FoundRoot

LEMMA StartWalkStep ==
  ASSUME IInv, StartWalk
  PROVE  IInv'
<1>1. call # Idle /\ UNCHANGED <<registry, node>> /\ step \in Late
  BY CallTarget DEF StartWalk, In
<1>2. CASE UNCHANGED step /\ call' = [call EXCEPT !.pc = "walk", !.dir = Root, !.rest = call.path.names]
  <2>1. call \in CallT /\ call.path.names # <<>>
    BY <1>1 DEF IInv, NodeInv, Active
  <2>2. call.path.names \in Seq(NameT)
    BY <2>1 DEF CallT, PathT
  <2>3. Root \in DOMAIN node /\ Root \in Nat
    BY <1>1, CallMounted, RootThere DEF IInv, NodeInv, Root
  <2>4. call' \in CallT
    BY <1>2, <2>1, <2>2, <2>3 DEF CallT
  <2>5. /\ call'.path = call.path /\ call'.dir = Root /\ call'.op = call.op
        /\ call'.file = call.file /\ call'.create = call.create /\ call'.rest = call.path.names
    BY <1>2, <2>1 DEF CallT
  <2>6. Active'
    BY <1>1, <2>1, <2>3, <2>4, <2>5 DEF Active, IInv, NodeInv
  <2> QED
    BY <1>1, <1>2, <2>6, CallStep DEF Steady
<1>3. CASE Stop /\ UNCHANGED call
  <2>1. Active'
    BY <1>1, <1>3, CallTarget DEF Active
  <2> QED
    BY <1>1, <1>3, <2>1, CallStep DEF Steady, Stop
<1> QED
  BY <1>2, <1>3 DEF StartWalk

LEMMA WalkTooLongStep ==
  ASSUME IInv, WalkTooLong
  PROVE  IInv'
<1>1. call # Idle /\ UNCHANGED <<step, registry, node>> /\ Finish("ENAMETOOLONG", call.target, call.dir)
  BY DEF WalkTooLong, In
<1>2. call.dir \in DOMAIN node
  BY <1>1 DEF IInv, NodeInv, Active
<1>3. Active'
  BY <1>1, <1>2, CallTarget, FinishActive DEF Statuses
<1> QED
  BY <1>1, <1>3, CallStep DEF Steady

\* ffind_noent()
LEMMA NoentStep ==
  ASSUME IInv, call # Idle, NEW at \in DOMAIN node, Noent(at), UNCHANGED <<step, registry>>
  PROVE  IInv'
<1>1. CASE ~call.create
  <2>1. Finish("ENOENT", call.target, at) /\ UNCHANGED node
    BY <1>1 DEF Noent
  <2>2. Active'
    BY <2>1, CallTarget, FinishActive DEF Statuses
  <2> QED
    BY <2>1, <2>2, CallStep DEF Steady
<1>2. CASE call.create
  <2>1. Added
    BY <1>2, NoentAdds DEF IInv
  <2>2. DOMAIN node \subseteq DOMAIN node' /\ Len(node) + 1 \in Nat
    <3>1. Nodes /\ node \in Seq(FileT)
      BY DEF IInv, NodeInv, Nodes
    <3> QED
      BY <2>1, <3>1, AddedDomain
  <2>3. Finish("SUCCESS", Len(node) + 1, at)
    BY <1>2 DEF Noent
  <2>4. Active'
    BY <2>2, <2>3, CallTarget, FinishActive DEF Statuses
  <2> QED
    BY <2>1, <2>4, CallAdds DEF Steady
<1> QED
  BY <1>1, <1>2

LEMMA WalkMissingStep ==
  ASSUME IInv, WalkMissing
  PROVE  IInv'
<1>1. call # Idle /\ Noent(call.dir) /\ UNCHANGED <<step, registry>>
  BY DEF WalkMissing, Walking, In
<1>2. call.dir \in DOMAIN node
  BY <1>1 DEF IInv, NodeInv, Active
<1> QED
  BY <1>1, <1>2, NoentStep

LEMMA WalkDeadEndStep ==
  ASSUME IInv, WalkDeadEnd
  PROVE  IInv'
<1> DEFINE at == IF Files = <<>> THEN call.dir ELSE Target
<1>1. call # Idle /\ UNCHANGED registry /\ step \in Late
  BY CallTarget DEF WalkDeadEnd, Walking, In
<1>2. CASE Noent(at) /\ UNCHANGED step
  <2>1. call.dir \in DOMAIN node
    BY <1>1 DEF IInv, NodeInv, Active
  <2>2. at \in DOMAIN node
    BY <2>1, TargetIs DEF WalkDeadEnd
  <2> HIDE DEF at
  <2> QED
    BY <1>1, <1>2, <2>2, NoentStep
<1>3. CASE Stop /\ UNCHANGED <<node, call>>
  <2>1. Active'
    BY <1>1, <1>3, CallTarget DEF Active
  <2> QED
    BY <1>1, <1>3, <2>1, CallStep DEF Steady, Stop
<1> QED
  BY <1>2, <1>3 DEF WalkDeadEnd

LEMMA FsFetchStep ==
  ASSUME IInv, FsFetch
  PROVE  IInv'
<1>1. /\ call # Idle /\ UNCHANGED <<registry, call>> /\ Walking /\ Match # 0 /\ Target = NULL
      /\ step \in Late
  BY CallTarget DEF FsFetch, Walking, In
<1>2. ASSUME NEW f \in Fetched(Image, Files[Match].inode, call.dir), AddFile(f), UNCHANGED step
      PROVE  IInv'
  <2>1. Added
    BY <1>1, <1>2, FetchAdds DEF IInv
  <2>2. DOMAIN node \subseteq DOMAIN node'
    BY <2>1, AddedDomain DEF IInv, NodeInv
  <2>3. Active'
    BY <1>1, <2>2, CallTarget DEF Active
  <2> QED
    BY <1>1, <1>2, <2>1, <2>3, CallAdds DEF Steady
<1>3. CASE Stop /\ UNCHANGED node
  <2>1. Active'
    BY <1>1, <1>3, CallTarget DEF Active
  <2> QED
    BY <1>1, <1>3, <2>1, CallStep DEF Steady, Stop
<1> QED
  BY <1>2, <1>3 DEF FsFetch

LEMMA WalkIntoStep ==
  ASSUME IInv, WalkInto
  PROVE  IInv'
<1>1. /\ call # Idle /\ call.pc = "walk" /\ UNCHANGED <<step, registry, node>>
      /\ call' = [call EXCEPT !.dir = Target, !.rest = Tail(call.rest)] /\ ~LastName
  <2>1. call # Idle /\ call.pc = "walk" /\ UNCHANGED <<step, registry, node>> /\ ~LastName
    BY DEF WalkInto, Walking, In
  <2>2. call \in CallT
    BY <2>1, CallTarget
  <2> QED
    BY <2>1, <2>2 DEF WalkInto, CallT
<1>2. call \in CallT /\ call.rest # <<>> /\ call.rest \in Seq(NameT)
  BY <1>1 DEF IInv, NodeInv, Active, CallT
<1>3. Tail(call.rest) \in Seq(NameT) /\ Tail(call.rest) # <<>>
  <2> DEFINE r == call.rest
  <2>1. r \in Seq(NameT) /\ r # <<>> /\ Len(r) # 1
    BY <1>1, <1>2 DEF LastName
  <2> HIDE DEF r
  <2>2. Tail(r) \in Seq(NameT) /\ Len(Tail(r)) = Len(r) - 1 /\ Len(r) \in Nat /\ Len(r) # 0
    BY <2>1, EmptySeq, HeadTailProperties
  <2>3. Len(Tail(r)) # 0
    BY <2>1, <2>2
  <2>4. Tail(r) # <<>>
    BY <2>3, EmptySeq, Zenon
  <2> QED
    BY <2>2, <2>4 DEF r
<1>4. Target \in DOMAIN node /\ Target \in Nat
  BY TargetIs DEF WalkInto
<1>5. call' \in CallT
  BY <1>1, <1>2, <1>3, <1>4 DEF CallT
<1>6. /\ call'.path = call.path /\ call'.dir = Target /\ call'.op = call.op /\ call'.file = call.file
      /\ call'.create = call.create /\ call'.rest = Tail(call.rest)
  BY <1>1, <1>2 DEF CallT
<1>7. Active'
  BY <1>1, <1>3, <1>4, <1>5, <1>6 DEF Active, IInv, NodeInv
<1> QED
  BY <1>1, <1>7, CallStep DEF Steady

LEMMA WalkFoundStep ==
  ASSUME IInv, WalkFound
  PROVE  IInv'
<1>1. call # Idle /\ UNCHANGED <<registry, node>> /\ step \in Late
  BY CallTarget DEF WalkFound, Walking, In
<1>2. Target \in Nat /\ Target \in DOMAIN node
  BY TargetIs DEF WalkFound
<1>3. CASE UNCHANGED step /\ Finish("ENOTDIR", call.target, Target)
  <2>1. Active'
    BY <1>1, <1>2, <1>3, CallTarget, FinishActive DEF Statuses
  <2> QED
    BY <1>1, <1>3, <2>1, CallStep DEF Steady
<1>4. CASE Stop /\ UNCHANGED call
  <2>1. Active'
    BY <1>1, <1>4, CallTarget DEF Active
  <2> QED
    BY <1>1, <1>4, <2>1, CallStep DEF Steady, Stop
<1>5. CASE /\ UNCHANGED step
           /\ Finish(IF call.create THEN "EEXIST" ELSE "SUCCESS",
                     IF call.target = NULL THEN NULL ELSE Target, Target)
  <2> DEFINE status == IF call.create THEN "EEXIST" ELSE "SUCCESS"
             target == IF call.target = NULL THEN NULL ELSE Target
  <2>1. status \in Statuses /\ target \in Nat \cup {NULL, Garbage} /\ Finish(status, target, Target)
    BY <1>2, <1>5 DEF Statuses
  <2> HIDE DEF status, target
  <2>2. Active'
    BY <1>1, <1>2, <2>1, CallTarget, FinishActive
  <2> QED
    BY <1>1, <1>5, <2>2, CallStep DEF Steady
<1> QED
  BY <1>3, <1>4, <1>5 DEF WalkFound

LEMMA CreateStep ==
  ASSUME IInv, Create
  PROVE  IInv'
<1>1. /\ call # Idle /\ UNCHANGED <<step, registry, node>> /\ call.op \in {"mkdir", "mknod"}
      /\ call' = [call EXCEPT !.pc = "ffind", !.create = TRUE, !.pointer = TRUE, !.target = Garbage]
  BY DEF Create, Creating, In
<1>2. call \in CallT
  BY <1>1, CallTarget
<1>3. call' \in CallT
  BY <1>1, <1>2 DEF CallT
<1>4. /\ call'.path = call.path /\ call'.dir = call.dir /\ call'.op = call.op
      /\ call'.file = call.file /\ call'.pc = "ffind"
  BY <1>1, <1>2 DEF CallT
<1>5. Active'
  BY <1>1, <1>3, <1>4 DEF Active, IInv, NodeInv
<1> QED
  BY <1>1, <1>5, CallStep DEF Steady

\* The call is over.
LEMMA CallEnds ==
  ASSUME IInv, call # Idle, Steady, node' = node, call' = Idle
  PROVE  IInv'
BY CallStep DEF Active

LEMMA CreateDoneStep ==
  ASSUME IInv, CreateDone
  PROVE  IInv'
<1>1. call # Idle /\ call' = Idle /\ UNCHANGED <<registry, node>> /\ step # "stopped" /\ step \in Late
  BY CallTarget DEF CreateDone, Creating, In
<1>2. step' = step \/ step' = "blockdev_mknodes"
  BY DEF CreateDone
<1>3. Steady
  BY <1>1, <1>2 DEF Steady, Late
<1> QED
  BY <1>1, <1>3, CallEnds

LEMMA ExecDoneStep ==
  ASSUME IInv, ExecDone
  PROVE  IInv'
<1>1. call # Idle /\ call' = Idle /\ UNCHANGED <<registry, node>> /\ step # "stopped" /\ step \in Late
  BY CallTarget DEF ExecDone, Opening, In
<1>2. step' = "user" \/ step' = "stopped"
  BY DEF ExecDone, Stop
<1>3. Steady
  BY <1>1, <1>2 DEF Steady, Late
<1> QED
  BY <1>1, <1>3, CallEnds

LEMMA OpenDoneStep ==
  ASSUME IInv, OpenDone
  PROVE  IInv'
<1>1. call # Idle /\ call' = Idle /\ UNCHANGED <<registry, node>> /\ step \in Late
  BY CallTarget DEF OpenDone, Opening, In
<1>2. step' = step \/ step' = "stopped"
  BY DEF OpenDone, Stop
<1>3. Steady
  BY <1>1, <1>2 DEF Steady
<1> QED
  BY <1>1, <1>3, CallEnds

\* A call begins, on a mounted root.
LEMMA CallBegins ==
  ASSUME IInv, call = Idle, Steady, node' = node, step \in Late \ {"stopped"}, Active'
  PROVE  IInv'
<1>1. step \notin Early \cup {"vfs_init"}
  BY DEF Early, Late
<1>2. RegInv'
  BY <1>1, SteadyReg DEF IInv
<1> QED
  BY <1>2, SteadyNodes DEF IInv, NodeInv

LEMMA FallocIs ==
  ASSUME NEW type \in Types, NEW maj \in Nat, NEW min \in Nat
  PROVE  Falloc(type, maj, min) \in FileT /\ Falloc(type, maj, min).files = <<>>
<1>1. <<>> \in Seq(EntryT) /\ NULL \in Nat \cup {NULL} /\ 0 \in Nat
  OBVIOUS
<1>2. FALSE \in BOOLEAN
  BY Zenon
<1>3. maj \in Nat \cup {Garbage} /\ min \in Nat \cup {Garbage}
  OBVIOUS
<1>4. Falloc(type, maj, min) \in FileT
  BY <1>1, <1>2, <1>3, Zenon DEF Falloc, FileT
<1> QED
  BY <1>4 DEF Falloc

LEMMA AbsIs ==
  ASSUME NEW names \in Seq(NameT)
  PROVE  Abs(names) \in PathT /\ Abs(names).names = names
<1>1. TRUE \in BOOLEAN /\ FALSE \in BOOLEAN
  BY Zenon
<1> QED
  BY <1>1, Zenon DEF Abs, PathT

LEMMA PathIs ==
  ASSUME NEW path, IsPath(path)
  PROVE  path \in PathT /\ path.names # <<>>
<1>1. \A s \in Seq(STRING) : s \in Seq(NameT)
  BY DEF NameT
<1> QED
  BY <1>1 DEF IsPath, PathT

LEMMA MkdirDevStep ==
  ASSUME IInv, MkdirDev
  PROVE  IInv'
<1>1. /\ call = Idle /\ step = "mkdir_dev" /\ UNCHANGED <<step, registry, node>>
      /\ Begin("mkdir", Abs(<<"dev">>), Falloc("dir", 0, 0), FALSE, NULL)
  BY DEF MkdirDev, BeginCreate
<1>2. node # <<>> /\ Nodes
  BY <1>1 DEF IInv, NodeInv, Nodes, Late
<1>3. Abs(<<"dev">>) \in PathT /\ Abs(<<"dev">>).names # <<>>
  <2>1. <<"dev">> \in Seq(NameT) /\ <<"dev">> # <<>>
    BY DEF NameT
  <2> QED
    BY <2>1, AbsIs
<1>4. Falloc("dir", 0, 0) \in FileT /\ Falloc("dir", 0, 0).files = <<>>
  BY FallocIs DEF Types
<1>5. FALSE \in BOOLEAN
  BY Zenon
<1>6. Active'
  BY <1>1, <1>2, <1>3, <1>4, <1>5, BeginActive
<1> QED
  BY <1>1, <1>6, CallBegins DEF Steady, Late

LEMMA MknodStep ==
  ASSUME IInv, Cursor, Mknod
  PROVE  IInv'
<1> DEFINE d == bd_list[next_bd]
<1>1. /\ call = Idle /\ step = "blockdev_mknodes" /\ UNCHANGED <<step, registry, node>>
      /\ Begin("mknod", Abs(<<"dev", d.name>>), Falloc("block", d.major, d.minor), FALSE, NULL)
  BY DEF Mknod, TryMknod, BeginCreate
<1>2. node # <<>> /\ Nodes
  BY <1>1 DEF IInv, NodeInv, Nodes, Late
<1>3. d \in Devices
  <2>1. next_bd \in 1 .. Len(bd_list) /\ bd_list \in Seq(Devices)
    BY DEF Mknod, Cursor, IInv, RegInv, Registry
  <2> QED
    BY <2>1
<1>4. d.name \in NameT /\ d.major \in Nat /\ d.minor \in Nat
  BY <1>3 DEF Devices
<1> HIDE DEF d
<1>5. Abs(<<"dev", d.name>>) \in PathT /\ Abs(<<"dev", d.name>>).names # <<>>
  <2>1. "dev" \in NameT
    BY DEF NameT
  <2>2. <<"dev", d.name>> \in Seq(NameT) /\ <<"dev", d.name>> # <<>>
    BY <1>4, <2>1
  <2> QED
    BY <2>2, AbsIs
<1>6. Falloc("block", d.major, d.minor) \in FileT /\ Falloc("block", d.major, d.minor).files = <<>>
  BY <1>4, FallocIs DEF Types
<1>7. FALSE \in BOOLEAN
  BY Zenon
<1>8. Active'
  BY <1>1, <1>2, <1>5, <1>6, <1>7, BeginActive
<1> QED
  BY <1>1, <1>8, CallBegins DEF Steady, Late

LEMMA ProcStartStep ==
  ASSUME IInv, ProcStart
  PROVE  IInv'
<1>1. /\ call = Idle /\ step = "blockdev_mknodes" /\ step' = "proc_start" /\ UNCHANGED <<registry, node>>
  BY DEF ProcStart
<1>2. PICK target \in {NULL, Garbage} : Begin("exec", InitPath, NULL, TRUE, target)
  BY DEF ProcStart
<1>3. node # <<>> /\ Nodes
  BY <1>1 DEF IInv, NodeInv, Nodes, Late
<1>4. InitPath \in PathT /\ InitPath.names # <<>>
  BY PathAssumption, PathIs
<1>5. TRUE \in BOOLEAN
  BY Zenon
<1>6. Active'
  BY <1>1, <1>2, <1>3, <1>4, <1>5, BeginActive
<1> QED
  BY <1>1, <1>6, CallBegins DEF Steady, Late

LEMMA SysOpenStep ==
  ASSUME IInv, NEW path \in Paths, SysOpen(path)
  PROVE  IInv'
<1>1. /\ call = Idle /\ step = "user" /\ UNCHANGED <<step, registry, node>>
  BY DEF SysOpen
<1>2. PICK target \in {NULL, Garbage} : Begin("open", path, NULL, TRUE, target)
  BY DEF SysOpen
<1>3. node # <<>> /\ Nodes
  BY <1>1 DEF IInv, NodeInv, Nodes, Late
<1>4. path \in PathT /\ path.names # <<>>
  BY PathAssumption, PathIs
<1>5. TRUE \in BOOLEAN
  BY Zenon
<1>6. Active'
  BY <1>1, <1>2, <1>3, <1>4, <1>5, BeginActive
<1> QED
  BY <1>1, <1>6, CallBegins DEF Steady, Late

\* sys_read() and sys_write() leave the file system alone.
LEMMA SysReadWriteStep ==
  ASSUME IInv, NEW fd, SysRead(fd) \/ SysWrite(fd)
  PROVE  IInv'
<1>1. /\ call = Idle /\ step = "user" /\ UNCHANGED <<registry, node, call>>
      /\ step' = step \/ step' = "stopped"
  BY DEF SysRead, SysWrite, Returned, Stop
<1>2. Active'
  BY <1>1 DEF Active
<1> QED
  BY <1>1, <1>2, CallBegins DEF Steady, Late

LEMMA StutterStep ==
  ASSUME IInv, UNCHANGED vars
  PROVE  IInv'
<1>1. UNCHANGED <<step, registry, node, call>> /\ Steady
  BY DEF vars, Steady
<1>2. step \in Early \cup {"vfs_init"} => call' = Idle
  BY <1>1 DEF IInv, RegInv, Mounted
<1>3. RegInv'
  BY <1>1, <1>2, SteadyReg DEF IInv
<1>4. Active'
  BY <1>1 DEF IInv, NodeInv, Active
<1> QED
  BY <1>1, <1>3, <1>4, SteadyNodes DEF IInv, NodeInv

\* Registering drivers and devices, before anything is mounted.
LEMMA RegistersStep ==
  ASSUME IInv, BlockdevInit \/ RamdiskInit \/ AtaInit \/ AtaDisk \/ AtaDone
  PROVE  IInv'
<1>1. /\ step \in Early /\ step' \in Early \cup {"vfs_init"}
      /\ UNCHANGED <<root_dev, node, call>>
  BY DEF BlockdevInit, RamdiskInit, AtaInit, AtaDisk, AtaDone, Early, registry
<1>2. root_dev = 0 /\ call = Idle /\ node = <<>>
  BY <1>1 DEF IInv, RegInv, Mounted
<1>3. Registry' /\ Distinct'
  <2>1. Registry /\ Distinct
    BY DEF IInv, RegInv
  <2>2. CASE AtaDone
    BY <2>1, <2>2, KeptRegistry DEF AtaDone, registry, Kept
  <2> QED
    BY <2>1, <2>2, BlockdevInitRegistry, RamdiskInitRegistry, AtaInitRegistry, AtaDiskRegistry
<1>4. Mounted'
  BY <1>1, <1>2 DEF Mounted, RootIsRequested
<1>5. Nodes' /\ Tree'
  <2>1. node' \in Seq(FileT) /\ DOMAIN node' = {} /\ step' \notin Late
    BY <1>1, <1>2 DEF Early, Late
  <2> QED
    BY <2>1 DEF Nodes, Tree, Down, Single, Held
<1>6. Active'
  BY <1>1, <1>2 DEF Active
<1> QED
  BY <1>3, <1>4, <1>5, <1>6 DEF IInv, RegInv, NodeInv

\* bd_get_by_name() and bd_open(): the first device that fits.
LEMMA ByNameIs ==
  ASSUME bd_list \in Seq(Devices), NEW name, ByName(name) # 0
  PROVE  ByName(name) \in DOMAIN bd_list /\ bd_list[ByName(name)].name = name
<1> DEFINE I == {i \in 1 .. Len(bd_list) : bd_list[i].name # Garbage /\ bd_list[i].name = name}
<1>1. ByName(name) = IF I # {} THEN Min(I) ELSE 0
  BY Zenon DEF ByName, SelectInSeq
<1>2. I # {} /\ I \in SUBSET Nat
  BY <1>1
<1> HIDE DEF I
<1>3. ByName(name) \in I
  BY <1>1, <1>2, LeastNat
<1> QED
  BY <1>3 DEF I

LEMMA BdOpenIs ==
  ASSUME bd_list \in Seq(Devices), NEW i \in DOMAIN bd_list
  PROVE  LET dev == BdOpen(bd_list[i].major, bd_list[i].minor)
         IN  /\ dev \in DOMAIN bd_list /\ dev <= i
             /\ bd_list[dev].major = bd_list[i].major /\ bd_list[dev].minor = bd_list[i].minor
<1> DEFINE maj == bd_list[i].major
           min == bd_list[i].minor
           dev == BdOpen(maj, min)
           I == {j \in 1 .. Len(bd_list) : bd_list[j].major = maj /\ bd_list[j].minor = min}
<1> HIDE DEF maj, min
<1>1. dev = IF I # {} THEN Min(I) ELSE 0
  BY Zenon DEF BdOpen, SelectInSeq
<1>2. i \in I /\ I \in SUBSET Nat
  BY DEF maj, min
<1> HIDE DEF I
<1>3. dev \in I /\ dev <= i
  BY <1>1, <1>2, LeastNat
<1>4. dev \in DOMAIN bd_list /\ bd_list[dev].major = maj /\ bd_list[dev].minor = min
  BY <1>3 DEF I
<1> HIDE DEF dev
<1>5. BdOpen(bd_list[i].major, bd_list[i].minor) = dev
  BY DEF dev, maj, min
<1> QED
  BY <1>3, <1>4, <1>5 DEF maj, min

\* Devices with the same numbers are the same device, or partitions.
LEMMA SameNumbers ==
  ASSUME Registry, Distinct, NEW i \in DOMAIN bd_list, NEW j \in DOMAIN bd_list, i # j,
         bd_list[i].major = bd_list[j].major, bd_list[i].minor = bd_list[j].minor
  PROVE  bd_list[i].driver = "partscan" /\ bd_list[j].driver = "partscan"
<1>1. bd_list[i].driver \in Drivers /\ bd_list[j].driver \in Drivers
  <2>1. bd_list[i] \in Devices /\ bd_list[j] \in Devices
    BY DEF Registry
  <2> QED
    BY <2>1 DEF Devices
<1>2. Number(bd_list[i].driver) = Number(bd_list[j].driver)
  BY DEF Registry
<1>3. bd_list[i].driver = bd_list[j].driver
  BY <1>1, <1>2 DEF Number, Drivers
<1>4. bd_list[i].driver # "ramdisk"
  BY <1>3 DEF Distinct
<1>5. bd_list[i].driver # "ata"
  BY <1>3 DEF Distinct, Ata
<1> QED
  BY <1>1, <1>3, <1>4, <1>5 DEF Drivers

LEMMA MountRootStep ==
  ASSUME IInv, MountRoot
  PROVE  IInv'
<1> DEFINE named == ByName(rootfs)
           dev == IF named = 0 THEN 0 ELSE BdOpen(bd_list[named].major, bd_list[named].minor)
<1>1. /\ step = "vfs_init" /\ UNCHANGED <<rootfs, major_counter, major, bd_list, call>>
      /\ \/ Stop /\ UNCHANGED <<root_dev, node>>
         \/ /\ dev # 0 /\ ProbeFs(dev) /\ root_dev' = dev
            /\ \E f \in Fetched(bd_list[dev].fs, ROOT_INO, NULL) : f.type = "dir" /\ node' = <<f>>
            /\ step' = "mkdir_dev"
  BY DEF MountRoot
<1>2. root_dev = 0 /\ call = Idle /\ node = <<>>
  BY <1>1 DEF IInv, RegInv, Mounted
<1>3. Active'
  BY <1>1, <1>2 DEF Active
<1> HIDE DEF dev
<1>4. CASE Stop /\ UNCHANGED <<root_dev, node>>
  <2>1. Stop /\ UNCHANGED <<root_dev, node>>
    BY <1>4
  <2>2. Steady
    BY <1>1, <2>1 DEF Steady, registry, Stop
  <2>3. RegInv'
    BY <1>1, <1>2, <2>1, <2>2, SteadyReg DEF IInv
  <2> QED
    BY <1>3, <2>1, <2>2, <2>3, SteadyNodes DEF IInv, NodeInv
<1>5. CASE /\ dev # 0 /\ ProbeFs(dev) /\ root_dev' = dev /\ step' = "mkdir_dev"
           /\ \E f \in Fetched(bd_list[dev].fs, ROOT_INO, NULL) : f.type = "dir" /\ node' = <<f>>
  <2>0. PICK f \in Fetched(bd_list[dev].fs, ROOT_INO, NULL) : node' = <<f>>
    BY <1>5
  <2>1. root_dev' = dev /\ node' = <<f>> /\ step' = "mkdir_dev" /\ bd_list[dev].fs # NULL
    BY <1>5, <2>0 DEF ProbeFs
  <2>2. bd_list \in Seq(Devices) /\ Registry /\ Distinct
    BY DEF IInv, RegInv, Registry
  <2>3. named # 0 /\ dev = BdOpen(bd_list[named].major, bd_list[named].minor)
    BY <1>5 DEF dev
  <2>4. named \in DOMAIN bd_list /\ bd_list[named].name = rootfs
    BY <2>2, <2>3, ByNameIs
  <2>5. /\ dev \in DOMAIN bd_list /\ dev <= named
        /\ bd_list[dev].major = bd_list[named].major /\ bd_list[dev].minor = bd_list[named].minor
    BY <2>2, <2>3, <2>4, BdOpenIs
  <2> HIDE DEF named
  <2>6. Registry' /\ Distinct'
    BY <1>1, <2>1, <2>2, KeptRegistry DEF Kept, Early, Late
  <2>7. RootIsRequested'
    <3>1. CASE dev = named
      BY <1>1, <2>1, <2>4, <3>1 DEF RootIsRequested
    <3>2. CASE dev # named
      <4>1. bd_list[dev].driver = "partscan" /\ bd_list[named].driver = "partscan"
        BY <2>2, <2>4, <2>5, <3>2, SameNumbers
      <4>2. named > dev
        BY <2>2, <2>4, <2>5, <3>2
      <4>3. bd_list[dev] \in Devices /\ bd_list[named] \in Devices
        BY <2>2, <2>4, <2>5
      <4>4. bd_list[named] = [bd_list[dev] EXCEPT !.name = rootfs, !.fs = bd_list[named].fs]
        BY <2>4, <2>5, <4>1, <4>3 DEF Devices
      <4> QED
        BY <1>1, <2>1, <2>4, <4>1, <4>2, <4>4 DEF RootIsRequested
    <3> QED
      BY <3>1, <3>2
  <2>8. bd_list[dev].fs \in FileSystems \ {NULL}
    <3>1. bd_list[dev] \in Devices
      BY <2>2, <2>5
    <3> QED
      BY <2>1, <3>1 DEF Devices
  <2> DEFINE image == bd_list[dev].fs
  <2>9. IsImage(image) /\ ROOT_INO \in Nat
    BY <2>8, ImageAssumption DEF IsImage
  <2>10. f \in FileT /\ \A k \in DOMAIN f.files : f.files[k].file = NULL
    <3>1. NULL \in Nat \cup {NULL} /\ f \in Fetched(image, ROOT_INO, NULL)
      BY <2>0
    <3> HIDE DEF image
    <3> QED
      BY <2>9, <3>1, FetchedIs DEF Fetched, IsLost, MayFail
  <2> HIDE DEF image
  <2>12. node' \in Seq(FileT) /\ DOMAIN node' = {Root} /\ node'[Root] = f /\ node' # <<>>
    BY <2>1, <2>10 DEF Root
  <2>13. Mounted'
    <3>1. step' \notin Early \cup {"vfs_init"}
      BY <2>1 DEF Early
    <3>2. root_dev' \in DOMAIN bd_list' /\ root_dev' # 0 /\ bd_list'[root_dev'].fs # NULL
      BY <1>1, <1>5, <2>1, <2>5
    <3> QED
      BY <2>7, <2>12, <3>1, <3>2 DEF Mounted
  <2>14. Nodes'
    BY <2>12 DEF Nodes
  <2>15. Tree'
    BY <2>10, <2>12 DEF Tree, Down, Single, Held
  <2> QED
    BY <1>3, <2>6, <2>13, <2>14, <2>15 DEF IInv, RegInv, NodeInv
<1> QED
  BY <1>1, <1>4, <1>5

LEMMA CursorStep ==
  ASSUME Cursor, [Next]_vars
  PROVE  Cursor'
<1>1. next_bd' = next_bd \/ next_bd' = next_bd + 1
  BY DEF Next, Boot, Ffind, BlockdevInit, RamdiskInit, AtaInit, AtaDisk, AtaDone, MountRoot, MkdirDev,
         Mknod, ProcStart, FoundRoot, StartWalk, WalkTooLong, WalkMissing, WalkDeadEnd, FsFetch, WalkInto,
         WalkFound, Create, CreateDone, ExecDone, OpenDone, Halted, SysOpen, SysRead, SysWrite, vars
<1> QED
  BY <1>1 DEF Cursor

LEMMA VfsInit ==
  ASSUME Init
  PROVE  IInv /\ Cursor
<1>1. /\ step = "blockdev_init" /\ bd_list = <<>> /\ root_dev = 0 /\ node = <<>> /\ call = Idle /\ next_bd = 1
      /\ major_counter = 1 /\ major = [d \in Drivers |-> 0]
  BY DEF Init, Drivers
<1>2. bd_list \in Seq(Devices) /\ DOMAIN bd_list = {} /\ Ata = {} /\ step \in Early
  BY <1>1 DEF Ata, Early
<1>3. major \in [Drivers -> Nat]
  BY <1>1
<1>4. Registry /\ Distinct
  BY <1>1, <1>2, <1>3 DEF Registry, Distinct
<1>5. Mounted
  BY <1>1 DEF Mounted, RootIsRequested
<1>6. node \in Seq(FileT) /\ DOMAIN node = {} /\ step \notin Late
  BY <1>1 DEF Late
<1>7. NodeInv
  BY <1>1, <1>6 DEF NodeInv, Nodes, Active, Tree, Down, Single, Held
<1> QED
  BY <1>1, <1>4, <1>5, <1>7 DEF IInv, RegInv, Cursor

\* Every step keeps the registry and the tree.
LEMMA VfsStep ==
  ASSUME IInv, Cursor, [Next]_vars
  PROVE  IInv'
<1>1. CASE Boot
  BY <1>1, RegistersStep, MountRootStep, MkdirDevStep, MknodStep, ProcStartStep DEF Boot
<1>2. CASE Ffind
  BY <1>2, FoundRootStep, StartWalkStep, WalkTooLongStep, WalkMissingStep, WalkDeadEndStep,
     FsFetchStep, WalkIntoStep, WalkFoundStep DEF Ffind
<1>3. CASE Create \/ CreateDone \/ ExecDone \/ OpenDone
  BY <1>3, CreateStep, CreateDoneStep, ExecDoneStep, OpenDoneStep
<1>4. CASE \E path \in Paths : SysOpen(path)
  BY <1>4, SysOpenStep
<1>5. CASE \E fd \in 0 .. MaxFds : SysRead(fd) \/ SysWrite(fd)
  BY <1>5, SysReadWriteStep
<1>6. CASE Halted \/ UNCHANGED vars
  BY <1>6, StutterStep DEF Halted
<1> QED
  BY <1>1, <1>2, <1>3, <1>4, <1>5, <1>6 DEF Next

\* The inductive invariant: the registry, the mount and the tree of file_t
\* objects are as described above in every state.
THEOREM VfsInvariant == Spec => [](IInv /\ Cursor)
<1>1. Init => IInv /\ Cursor
  BY VfsInit
<1>2. IInv /\ Cursor /\ [Next]_vars => (IInv /\ Cursor)'
  BY VfsStep, CursorStep
<1> QED
  BY <1>1, <1>2, PTL DEF Spec

\* For all disks, partition tables and names: the file system mounted by
\* vfs_init() is the one named, or a partition of the same number on an earlier
\* disk.
THEOREM RootRight == Spec => []RootIsRequested
<1>1. IInv => RootIsRequested
  BY DEF IInv, RegInv, Mounted
<1> QED
  BY <1>1, VfsInvariant, PTL

LEMMA TreeOneParent ==
  ASSUME IInv
  PROVE  OneParent
<1> SUFFICES ASSUME NEW n \in DOMAIN node \ {Root}
             PROVE  LET places == UNION {{<<d, k>> : k \in {k \in DOMAIN node[d].files :
                                             node[d].files[k].file = n}} : d \in DOMAIN node}
                    IN  Cardinality(places) = 1 /\ \A p \in places : p[1] = node[n].parent
  BY Zenon DEF OneParent
<1> DEFINE Here(d) == {<<d, k>> : k \in {k \in DOMAIN node[d].files : node[d].files[k].file = n}}
           places == UNION {Here(d) : d \in DOMAIN node}
<1>1. n # NULL
  <2>1. n \in Nat
    BY DEF IInv, NodeInv, Nodes
  <2> QED
    BY <2>1, PointerAssumption
<1>2. PICK d \in DOMAIN node : \E k \in DOMAIN node[d].files : node[d].files[k].file = n
  BY DEF IInv, NodeInv, Tree, Held
<1>3. PICK k \in DOMAIN node[d].files : node[d].files[k].file = n
  BY <1>2
<1>4. node[n].parent = d
  BY <1>1, <1>3 DEF IInv, NodeInv, Tree, Down
<1>5. \A e \in DOMAIN node : \A j \in DOMAIN node[e].files : node[e].files[j].file = n => e = d /\ j = k
  BY <1>1, <1>3 DEF IInv, NodeInv, Tree, Single
<1>6. \A p : p \in places <=> p = <<d, k>>
  <2>1. ASSUME NEW p \in places PROVE p = <<d, k>>
    <3>1. PICK e \in DOMAIN node : p \in Here(e)
      BY Zenon
    <3>2. PICK j \in DOMAIN node[e].files : p = <<e, j>> /\ node[e].files[j].file = n
      BY <3>1
    <3> QED
      BY <1>5, <3>2
  <2>2. <<d, k>> \in places
    <3>1. <<d, k>> \in Here(d)
      BY <1>3
    <3> HIDE DEF Here
    <3> QED
      BY <3>1
  <2> HIDE DEF places
  <2> QED
    BY <2>1, <2>2
<1>7. places = {<<d, k>>}
  <2> HIDE DEF places
  <2> QED
    BY <1>6, Zenon
<1>8. Cardinality(places) = 1 /\ \A p \in places : p[1] = node[n].parent
  <2>1. Cardinality({<<d, k>>}) = 1
    BY FS_Singleton
  <2>2. <<d, k>>[1] = d
    OBVIOUS
  <2> HIDE DEF places
  <2> QED
    BY <1>4, <1>7, <2>1, <2>2
<1> QED
  BY <1>8

\* For any file systems and any sequence of calls: the file_t objects form a
\* tree, in which each file is fetched or created once.
THEOREM TreeKept == Spec => []OneParent
<1>1. IInv => OneParent
  BY TreeOneParent
<1> QED
  BY <1>1, VfsInvariant, PTL

-----------------------------------------------------------------------------
(* What a path names on the disk *)

WalkStep(image, names, k, w) == IF w.status # "SUCCESS" THEN w ELSE Below(image, w.inode, names[k])

Walks(f, image, names, n) ==
  f = [k \in 0 .. n |-> IF k = 0 THEN Found(ROOT_INO) ELSE WalkStep(image, names, k, f[k - 1])]

\* There is a function that satisfies the recursion of Walk.
LEMMA WalkExists ==
  ASSUME NEW image, NEW names, NEW N \in Nat
  PROVE  \E f : Walks(f, image, names, N)
<1> DEFINE T == {n \in Nat : ~\E f : Walks(f, image, names, n)}
<1>1. SUFFICES ASSUME T # {} PROVE FALSE
  OBVIOUS
<1>2. PICK n \in T : \A y \in T : n <= y
  BY <1>1, LeastNat
<1>3. n # 0
  <2>1. Walks([k \in 0 .. 0 |-> Found(ROOT_INO)], image, names, 0)
    BY DEF Walks
  <2> QED
    BY <2>1
<1>4. n \in Nat /\ n - 1 \in Nat /\ n - 1 \notin T
  BY <1>2, <1>3
<1>5. PICK f : Walks(f, image, names, n - 1)
  BY <1>4
<1> DEFINE g == [k \in 0 .. n |-> IF k = n THEN WalkStep(image, names, n, f[n - 1]) ELSE f[k]]
<1>6. \A k \in 0 .. n - 1 : g[k] = f[k] /\ f[k] = IF k = 0 THEN Found(ROOT_INO) ELSE WalkStep(image, names, k, f[k - 1])
  BY <1>4, <1>5 DEF Walks
<1>7. \A k \in 0 .. n : g[k] = IF k = 0 THEN Found(ROOT_INO) ELSE WalkStep(image, names, k, g[k - 1])
  <2> SUFFICES ASSUME NEW k \in 0 .. n
               PROVE  g[k] = IF k = 0 THEN Found(ROOT_INO) ELSE WalkStep(image, names, k, g[k - 1])
    OBVIOUS
  <2>1. CASE k = n
    <3>1. n - 1 \in 0 .. n - 1
      BY <1>4
    <3>2. g[n - 1] = f[n - 1]
      BY <1>6, <3>1
    <3>3. g[n] = WalkStep(image, names, n, f[n - 1])
      BY <1>4
    <3> QED
      BY <1>3, <2>1, <3>2, <3>3
  <2>2. CASE k # n
    <3>1. k \in 0 .. n - 1 /\ (k # 0 => k - 1 \in 0 .. n - 1)
      BY <1>4, <2>2
    <3> QED
      BY <1>6, <3>1
  <2> QED
    BY <2>1, <2>2
<1>8. Walks(g, image, names, n)
  BY <1>7 DEF Walks
<1> QED
  BY <1>2, <1>8

LEMMA WalkComputed ==
  ASSUME NEW image, NEW names, Len(names) \in Nat
  PROVE  /\ Walk(image, names)[0] = Found(ROOT_INO)
         /\ \A k \in 1 .. Len(names) :
              Walk(image, names)[k] = WalkStep(image, names, k, Walk(image, names)[k - 1])
<1>1. \E f : Walks(f, image, names, Len(names))
  BY WalkExists
<1>2. Walks(Walk(image, names), image, names, Len(names))
  BY <1>1 DEF Walk, Walks, WalkStep
<1> DEFINE w == Walk(image, names)
<1> HIDE DEF w
<1>3. w = [k \in 0 .. Len(names) |-> IF k = 0 THEN Found(ROOT_INO) ELSE WalkStep(image, names, k, w[k - 1])]
  BY <1>2 DEF Walks, w
<1>4. w[0] = Found(ROOT_INO)
  BY <1>3
<1>5. \A k \in 1 .. Len(names) : w[k] = WalkStep(image, names, k, w[k - 1])
  BY <1>3
<1> QED
  BY <1>4, <1>5 DEF w

\* An error on the way is the result.
LEMMA WalkStuck ==
  ASSUME NEW image, NEW names, Len(names) \in Nat, NEW k \in 0 .. Len(names), Walk(image, names)[k].status # "SUCCESS"
  PROVE  Walk(image, names)[Len(names)] = Walk(image, names)[k]
<1> DEFINE w == Walk(image, names)
           T == {j \in Nat : j >= k /\ j <= Len(names) /\ w[j] # w[k]}
<1>1. SUFFICES ASSUME T # {} PROVE FALSE
  <2>1. T = {} => Len(names) \notin T
    BY Zenon
  <2> QED
    BY <1>1, <2>1
<1>2. PICK j \in T : \A y \in T : j <= y
  BY <1>1, LeastNat
<1>3. j # k /\ j \in Nat /\ j > k /\ j <= Len(names)
  BY <1>2
<1>4. j - 1 \notin T /\ j - 1 \in Nat /\ j - 1 >= k /\ j \in 1 .. Len(names)
  BY <1>2, <1>3
<1>5. w[j - 1] = w[k]
  BY <1>3, <1>4
<1>6. w[j] = WalkStep(image, names, j, w[j - 1])
  BY <1>4, WalkComputed
<1>7. w[j] = w[k]
  BY <1>5, <1>6 DEF WalkStep
<1> QED
  BY <1>2, <1>7

-----------------------------------------------------------------------------
(* The tree is a copy of the disk *)

Plain(name) == IF name = "" THEN "." ELSE name

\* The file_t n has the type and the entries of its inode; behind those come
\* the files that were created in it.
CopyIn(nodes, image, n) ==
  LET es == image[nodes[n].inode].entries
      fs == nodes[n].files
  IN  /\ n \in DOMAIN nodes /\ nodes[n].inode \in DOMAIN image
      /\ nodes[n].type = image[nodes[n].inode].type
      /\ Len(es) <= Len(fs)
      /\ \A k \in DOMAIN fs : IF k <= Len(es) THEN fs[k].name = es[k].name /\ fs[k].inode = es[k].inode
                              ELSE fs[k].name = Unnamed
Copy(n) == CopyIn(node, Image, n)

\* So are the root and whatever a name leads to, as far as they could be read:
\* below what is lost everything is.
Copied ==
  /\ node # <<>> => /\ node[Root].type = "dir" /\ node[Root].inode = ROOT_INO
                    /\ ~node[Root].lost => Copy(Root)
  /\ \A d \in DOMAIN node : \A k \in DOMAIN node[d].files :
       node[d].files[k].name # Unnamed /\ node[d].files[k].file # NULL
         /\ ~node[node[d].files[k].file].lost =>
         /\ ~node[d].lost /\ Copy(node[d].files[k].file)
         /\ node[node[d].files[k].file].inode = node[d].files[k].inode

\* Entry e of d is the first of that name, and n is its file.
LeadsIn(nodes, d, name, n) ==
  /\ d \in DOMAIN nodes /\ n # NULL
  /\ \E e \in DOMAIN nodes[d].files :
       /\ nodes[d].files[e].file = n
       /\ nodes[d].files[e].name = Plain(name) /\ nodes[d].files[e].name # Unnamed
       /\ \A j \in DOMAIN nodes[d].files : j < e => nodes[d].files[j].name # Plain(name)
Leads(d, name, n) == LeadsIn(node, d, name, n)

\* The first k names lead from the root to n.
WayIn(nodes, names, k, n) ==
  \E c \in [0 .. k -> DOMAIN nodes] :
    /\ c[0] = Root /\ c[k] = n
    /\ \A j \in 1 .. k : LeadsIn(nodes, c[j - 1], names[j], c[j])
Way(names, k, n) == WayIn(node, names, k, n)

\* What every step leaves of the files there are.
Grown ==
  \A d \in DOMAIN node :
    /\ d \in DOMAIN node' /\ node'[d].type = node[d].type /\ node'[d].inode = node[d].inode
    /\ node'[d].lost = node[d].lost
    /\ node'[d].files \in Seq(EntryT) /\ Len(node[d].files) <= Len(node'[d].files)
    /\ \A k \in DOMAIN node'[d].files :
         IF k \in DOMAIN node[d].files
         THEN /\ node'[d].files[k].name = node[d].files[k].name
              /\ node'[d].files[k].inode = node[d].files[k].inode
              /\ node[d].files[k].file # NULL => node'[d].files[k].file = node[d].files[k].file
         ELSE node'[d].files[k].name = Unnamed

LEMMA FilesTyped ==
  ASSUME Nodes, NEW d \in DOMAIN node
  PROVE  /\ node[d] \in FileT /\ node[d].files \in Seq(EntryT) /\ Len(node[d].files) \in Nat
         /\ DOMAIN node[d].files = 1 .. Len(node[d].files) /\ d \in Nat
<1>1. node \in Seq(FileT)
  BY DEF Nodes
<1>2. node[d] \in FileT /\ d \in Nat
  BY <1>1
<1>3. node[d].files \in Seq(EntryT)
  BY <1>2 DEF FileT
<1> QED
  BY <1>2, <1>3

LEMMA EntriesTyped ==
  ASSUME NEW image, IsImage(image), NEW i \in DOMAIN image
  PROVE  /\ image[i].entries \in Seq([name : STRING, inode : DOMAIN image])
         /\ Len(image[i].entries) \in Nat /\ DOMAIN image[i].entries = 1 .. Len(image[i].entries)
         /\ \A k \in DOMAIN image[i].entries :
              image[i].entries[k].name \in STRING /\ image[i].entries[k].inode \in DOMAIN image
<1> DEFINE E == [name : STRING, inode : DOMAIN image]
           es == image[i].entries
<1>1. es \in Seq(E)
  BY DEF IsImage
<1> HIDE DEF E, es
<1>2. Len(es) \in Nat /\ DOMAIN es = 1 .. Len(es) /\ \A k \in DOMAIN es : es[k] \in E
  BY <1>1
<1>3. \A k \in DOMAIN es : es[k].name \in STRING /\ es[k].inode \in DOMAIN image
  BY <1>2 DEF E
<1> QED
  BY <1>1, <1>2, <1>3 DEF E, es

LEMMA SameGrown ==
  ASSUME Nodes, node' = node
  PROVE  Grown
BY FilesTyped DEF Grown

LEMMA CopyKept ==
  ASSUME Nodes, IsImage(Image), Grown, Image' = Image, NEW n, Copy(n)
  PROVE  CopyIn(node', Image', n) /\ node'[n].inode = node[n].inode
<1> DEFINE i == node[n].inode
           es == Image[i].entries
           fs == node[n].files
           gs == node'[n].files
<1>1. /\ n \in DOMAIN node /\ i \in DOMAIN Image /\ node[n].type = Image[i].type /\ Len(es) <= Len(fs)
      /\ \A k \in DOMAIN fs : IF k <= Len(es) THEN fs[k].name = es[k].name /\ fs[k].inode = es[k].inode
                              ELSE fs[k].name = Unnamed
  BY DEF Copy, CopyIn
<1>2. /\ n \in DOMAIN node' /\ node'[n].type = node[n].type /\ node'[n].inode = i
      /\ gs \in Seq(EntryT) /\ Len(fs) <= Len(gs)
      /\ \A k \in DOMAIN gs : IF k \in DOMAIN fs
                              THEN gs[k].name = fs[k].name /\ gs[k].inode = fs[k].inode
                              ELSE gs[k].name = Unnamed
  BY <1>1 DEF Grown
<1>3. /\ Len(fs) \in Nat /\ DOMAIN fs = 1 .. Len(fs) /\ Len(es) \in Nat
      /\ Len(gs) \in Nat /\ DOMAIN gs = 1 .. Len(gs)
  BY <1>1, <1>2, FilesTyped, EntriesTyped
<1> HIDE DEF fs, gs, es
<1>4. Len(es) <= Len(gs)
  BY <1>1, <1>2, <1>3
<1>5. \A k \in DOMAIN gs : IF k <= Len(es) THEN gs[k].name = es[k].name /\ gs[k].inode = es[k].inode
                           ELSE gs[k].name = Unnamed
  <2> SUFFICES ASSUME NEW k \in DOMAIN gs
               PROVE  IF k <= Len(es) THEN gs[k].name = es[k].name /\ gs[k].inode = es[k].inode
                      ELSE gs[k].name = Unnamed
    OBVIOUS
  <2>1. CASE k \in DOMAIN fs
    BY <1>1, <1>2, <2>1
  <2>2. CASE k \notin DOMAIN fs
    <3>1. ~(k <= Len(es)) /\ gs[k].name = Unnamed
      BY <1>1, <1>2, <1>3, <2>2
    <3> QED
      BY <3>1
  <2> QED
    BY <2>1, <2>2
<1> QED
  BY <1>1, <1>2, <1>4, <1>5 DEF Copy, CopyIn, fs, gs, es

LEMMA LeadsKept ==
  ASSUME Nodes, Grown, NEW d, NEW name, NEW n, Leads(d, name, n)
  PROVE  LeadsIn(node', d, name, n)
<1>1. d \in DOMAIN node /\ n # NULL
  BY DEF Leads, LeadsIn
<1>2. PICK e \in DOMAIN node[d].files :
        /\ node[d].files[e].file = n
        /\ node[d].files[e].name = Plain(name) /\ node[d].files[e].name # Unnamed
        /\ \A j \in DOMAIN node[d].files : j < e => node[d].files[j].name # Plain(name)
  BY DEF Leads, LeadsIn
<1> DEFINE fs == node[d].files
           gs == node'[d].files
<1>3. /\ d \in DOMAIN node' /\ gs \in Seq(EntryT) /\ Len(fs) <= Len(gs)
      /\ \A k \in DOMAIN gs : IF k \in DOMAIN fs
                              THEN /\ gs[k].name = fs[k].name
                                   /\ fs[k].file # NULL => gs[k].file = fs[k].file
                              ELSE gs[k].name = Unnamed
  BY <1>1 DEF Grown
<1>4. Len(fs) \in Nat /\ DOMAIN fs = 1 .. Len(fs) /\ Len(gs) \in Nat /\ DOMAIN gs = 1 .. Len(gs)
  BY <1>1, <1>3, FilesTyped
<1>5. /\ e \in DOMAIN fs /\ fs[e].file = n /\ fs[e].name = Plain(name) /\ fs[e].name # Unnamed
      /\ \A j \in DOMAIN fs : j < e => fs[j].name # Plain(name)
  BY <1>2
<1> HIDE DEF fs, gs
<1>6. e \in DOMAIN gs /\ gs[e].file = n /\ gs[e].name = Plain(name) /\ gs[e].name # Unnamed
  BY <1>1, <1>3, <1>4, <1>5
<1>7. \A j \in DOMAIN gs : j < e => gs[j].name # Plain(name)
  BY <1>3, <1>4, <1>5
<1> QED
  BY <1>1, <1>3, <1>6, <1>7 DEF Leads, LeadsIn, gs

LEMMA WayKept ==
  ASSUME Nodes, Grown, NEW names, NEW k, NEW n, Way(names, k, n)
  PROVE  WayIn(node', names, k, n)
<1>1. PICK c \in [0 .. k -> DOMAIN node] :
        c[0] = Root /\ c[k] = n /\ \A j \in 1 .. k : LeadsIn(node, c[j - 1], names[j], c[j])
  BY DEF Way, WayIn
<1>2. \A d \in DOMAIN node : d \in DOMAIN node'
  BY DEF Grown
<1>3. c \in [0 .. k -> DOMAIN node']
  BY <1>2
<1>4. \A j \in 1 .. k : LeadsIn(node', c[j - 1], names[j], c[j])
  BY <1>1, LeadsKept DEF Leads
<1> QED
  BY <1>1, <1>3, <1>4 DEF Way, WayIn

\* A name leads to one file.
LEMMA LeadsOnce ==
  ASSUME Nodes, NEW d, NEW name, NEW n, NEW m, Leads(d, name, n), Leads(d, name, m)
  PROVE  n = m
<1>1. PICK e \in DOMAIN node[d].files :
        /\ node[d].files[e].file = n /\ node[d].files[e].name = Plain(name)
        /\ \A j \in DOMAIN node[d].files : j < e => node[d].files[j].name # Plain(name)
  BY DEF Leads, LeadsIn
<1>2. PICK g \in DOMAIN node[d].files :
        /\ node[d].files[g].file = m /\ node[d].files[g].name = Plain(name)
        /\ \A j \in DOMAIN node[d].files : j < g => node[d].files[j].name # Plain(name)
  BY DEF Leads, LeadsIn
<1>3. e \in Nat /\ g \in Nat
  <2>1. d \in DOMAIN node
    BY DEF Leads, LeadsIn
  <2> QED
    BY <2>1, FilesTyped
<1>4. ~(e < g) /\ ~(g < e)
  BY <1>1, <1>2
<1>5. e = g
  BY <1>3, <1>4
<1> QED
  BY <1>1, <1>2, <1>5

\* So does a path.
LEMMA WayOnce ==
  ASSUME Nodes, NEW names, NEW k \in Nat, NEW n, NEW m, Way(names, k, n), Way(names, k, m)
  PROVE  n = m
<1>1. PICK c \in [0 .. k -> DOMAIN node] :
        c[0] = Root /\ c[k] = n /\ \A j \in 1 .. k : LeadsIn(node, c[j - 1], names[j], c[j])
  BY DEF Way, WayIn
<1>2. PICK b \in [0 .. k -> DOMAIN node] :
        b[0] = Root /\ b[k] = m /\ \A j \in 1 .. k : LeadsIn(node, b[j - 1], names[j], b[j])
  BY DEF Way, WayIn
<1> DEFINE T == {j \in Nat : j <= k /\ c[j] # b[j]}
<1>3. SUFFICES ASSUME T # {} PROVE FALSE
  BY <1>1, <1>2, <1>3
<1>4. PICK j \in T : \A y \in T : j <= y
  BY <1>3, LeastNat
<1>5. j # 0 /\ j \in 1 .. k
  BY <1>1, <1>2, <1>4
<1>6. j - 1 \notin T /\ j - 1 \in Nat
  BY <1>4, <1>5
<1>7. c[j - 1] = b[j - 1]
  BY <1>5, <1>6
<1>8. Leads(c[j - 1], names[j], c[j]) /\ Leads(c[j - 1], names[j], b[j])
  BY <1>1, <1>2, <1>5, <1>7 DEF Leads
<1>9. c[j] = b[j]
  BY <1>8, LeadsOnce
<1> QED
  BY <1>4, <1>9

\* One name further.
LEMMA WayOn ==
  ASSUME NEW names, NEW k \in Nat, NEW d, NEW n \in DOMAIN node,
         Way(names, k, d), Leads(d, names[k + 1], n)
  PROVE  Way(names, k + 1, n)
<1>1. PICK c \in [0 .. k -> DOMAIN node] :
        c[0] = Root /\ c[k] = d /\ \A j \in 1 .. k : LeadsIn(node, c[j - 1], names[j], c[j])
  BY DEF Way, WayIn
<1> DEFINE b == [j \in 0 .. k + 1 |-> IF j = k + 1 THEN n ELSE c[j]]
<1>2. b \in [0 .. k + 1 -> DOMAIN node]
  BY <1>1
<1>3. b[k + 1] = n /\ \A j \in 0 .. k : b[j] = c[j]
  OBVIOUS
<1> HIDE DEF b
<1>4. ASSUME NEW j \in 1 .. k + 1 PROVE LeadsIn(node, b[j - 1], names[j], b[j])
  <2>1. CASE j = k + 1
    BY <1>1, <1>3, <2>1 DEF Leads
  <2>2. CASE j # k + 1
    BY <1>1, <1>3, <2>2
  <2> QED
    BY <2>1, <2>2
<1>5. b[0] = Root
  BY <1>1, <1>3
<1> QED
  BY <1>2, <1>3, <1>4, <1>5 DEF Way, WayIn

LEMMA WayStarts ==
  ASSUME Nodes, node # <<>>, NEW names
  PROVE  Way(names, 0, Root)
<1>1. Root \in DOMAIN node
  BY RootThere
<1> DEFINE c == [j \in 0 .. 0 |-> Root]
<1>2. c \in [0 .. 0 -> DOMAIN node] /\ c[0] = Root /\ \A j \in 1 .. 0 : FALSE
  BY <1>1
<1> HIDE DEF c
<1> QED
  BY <1>2 DEF Way, WayIn

\* A directory that is a copy: the first match is the one on the disk.
LEMMA MatchBelow ==
  ASSUME IInv, call # Idle, call.dir \in DOMAIN node, IsImage(Image), Copy(call.dir),
         node[call.dir].type = "dir", Head(call.rest) \notin Long
  PROVE  Below(Image, node[call.dir].inode, Head(call.rest)) =
           IF Match = 0 THEN Error("ENOENT") ELSE Found(Files[Match].inode)
<1> DEFINE i == node[call.dir].inode
           es == Image[i].entries
           name == Head(call.rest)
           I == {k \in 1 .. Len(es) : es[k].name = Plain(name)}
           J == {k \in 1 .. Len(Files) : Files[k].name # Unnamed /\ Files[k].name = Plain(name)}
<1>1. /\ i \in DOMAIN Image /\ Image[i].type = "dir" /\ Len(es) <= Len(Files)
      /\ \A k \in DOMAIN Files : IF k <= Len(es) THEN Files[k].name = es[k].name /\ Files[k].inode = es[k].inode
                                 ELSE Files[k].name = Unnamed
  BY DEF Copy, CopyIn, Files
<1>2. /\ Len(es) \in Nat /\ DOMAIN es = 1 .. Len(es) /\ \A k \in DOMAIN es : es[k].name \in STRING
  BY <1>1, EntriesTyped
<1>3. Files \in Seq(EntryT) /\ Len(Files) \in Nat /\ DOMAIN Files = 1 .. Len(Files)
  BY FilesTyped DEF Files, IInv, NodeInv
<1>4. Below(Image, i, name) = IF SelectInSeq(es, LAMBDA e : e.name = Plain(name)) = 0 THEN Error("ENOENT")
                       ELSE Found(es[SelectInSeq(es, LAMBDA e : e.name = Plain(name))].inode)
  BY <1>1, Zenon DEF Below, Plain
<1>5. SelectInSeq(es, LAMBDA e : e.name = Plain(name)) = IF I # {} THEN Min(I) ELSE 0
  BY Zenon DEF SelectInSeq
<1>6. Match = IF J # {} THEN Min(J) ELSE 0
  BY Zenon DEF Match, SelectInSeq, CurrentName, Plain
<1> HIDE DEF es, name, i
<1>7. \A k : k \in J <=> k \in I
  <2>1. ASSUME NEW k \in J PROVE k \in I
    <3>1. k \in DOMAIN Files /\ Files[k].name # Unnamed /\ Files[k].name = Plain(name)
      BY <1>3
    <3>2. k <= Len(es) /\ es[k].name = Plain(name)
      BY <1>1, <3>1
    <3> QED
      BY <1>2, <1>3, <3>2
  <2>2. ASSUME NEW k \in I PROVE k \in J
    <3>1. k \in 1 .. Len(es) /\ es[k].name = Plain(name) /\ k \in DOMAIN Files /\ k <= Len(es)
      BY <1>1, <1>2, <1>3
    <3>2. Files[k].name = es[k].name /\ es[k].name \in STRING
      BY <1>1, <1>2, <3>1
    <3> QED
      BY <1>3, <3>1, <3>2, NameAssumption
  <2> QED
    BY <2>1, <2>2
<1>8. J = I
  <2> HIDE DEF I, J
  <2> QED
    BY <1>7
<1>9. CASE I = {}
  BY <1>4, <1>5, <1>6, <1>8, <1>9 DEF i, name
<1>10. CASE I # {}
  <2>1. I \in SUBSET Nat
    OBVIOUS
  <2>2. Min(I) \in I
    BY <1>10, <2>1, LeastNat
  <2>3. Min(I) \in DOMAIN Files /\ Min(I) <= Len(es) /\ Min(I) # 0
    BY <1>1, <1>2, <1>3, <2>2
  <2>4. Files[Min(I)].inode = es[Min(I)].inode
    BY <1>1, <2>3
  <2> HIDE DEF I, J
  <2> QED
    BY <1>4, <1>5, <1>6, <1>8, <1>10, <2>3, <2>4 DEF i, name
<1> QED
  BY <1>9, <1>10

LEMMA AddsGrown ==
  ASSUME Nodes, NEW d \in DOMAIN node, NEW k, Adds(d, k)
  PROVE  Grown
<1>1. /\ node' \in Seq(FileT) /\ Len(node') = Len(node) + 1 /\ node \in Seq(FileT)
      /\ \A e \in DOMAIN node : e # d => node'[e] = node[e]
      /\ node'[d].type = node[d].type /\ node'[d].inode = node[d].inode /\ node'[d].lost = node[d].lost
      /\ DOMAIN node'[d].files = DOMAIN node[d].files \cup {k}
      /\ \A j \in DOMAIN node[d].files : j # k => node'[d].files[j] = node[d].files[j]
      /\ IF k \in DOMAIN node[d].files
         THEN /\ node[d].files[k].file = NULL
              /\ node'[d].files[k].name = node[d].files[k].name
              /\ node'[d].files[k].inode = node[d].files[k].inode
         ELSE node'[d].files[k].name = Unnamed
  BY DEF Adds, Nodes
<1>2. \A e \in DOMAIN node : e \in DOMAIN node'
  BY <1>1
<1>3. \A e \in DOMAIN node' : /\ node'[e].files \in Seq(EntryT) /\ Len(node'[e].files) \in Nat
                              /\ DOMAIN node'[e].files = 1 .. Len(node'[e].files)
  <2> SUFFICES ASSUME NEW e \in DOMAIN node'
               PROVE  /\ node'[e].files \in Seq(EntryT) /\ Len(node'[e].files) \in Nat
                      /\ DOMAIN node'[e].files = 1 .. Len(node'[e].files)
    OBVIOUS
  <2>1. node'[e] \in FileT
    BY <1>1
  <2>2. node'[e].files \in Seq(EntryT)
    BY <2>1 DEF FileT
  <2> QED
    BY <2>2
<1>4. Len(node[d].files) <= Len(node'[d].files)
  <2> DEFINE fs == node[d].files
             gs == node'[d].files
  <2>1. /\ Len(fs) \in Nat /\ DOMAIN fs = 1 .. Len(fs) /\ Len(gs) \in Nat /\ DOMAIN gs = 1 .. Len(gs)
        /\ \A j \in DOMAIN fs : j \in DOMAIN gs
    BY <1>1, <1>2, <1>3, FilesTyped
  <2> HIDE DEF fs, gs
  <2>2. Len(fs) <= Len(gs)
    <3>1. CASE Len(fs) = 0
      BY <2>1, <3>1
    <3>2. CASE Len(fs) # 0
      <4>1. Len(fs) \in DOMAIN gs
        BY <2>1, <3>2
      <4> QED
        BY <2>1, <4>1
    <3> QED
      BY <3>1, <3>2
  <2> QED
    BY <2>2 DEF fs, gs
<1> SUFFICES ASSUME NEW e \in DOMAIN node
             PROVE  /\ e \in DOMAIN node' /\ node'[e].type = node[e].type /\ node'[e].inode = node[e].inode
                    /\ node'[e].lost = node[e].lost
                    /\ node'[e].files \in Seq(EntryT) /\ Len(node[e].files) <= Len(node'[e].files)
                    /\ \A j \in DOMAIN node'[e].files :
                         IF j \in DOMAIN node[e].files
                         THEN /\ node'[e].files[j].name = node[e].files[j].name
                              /\ node'[e].files[j].inode = node[e].files[j].inode
                              /\ node[e].files[j].file # NULL => node'[e].files[j].file = node[e].files[j].file
                         ELSE node'[e].files[j].name = Unnamed
  BY DEF Grown
<1>5. CASE e # d
  <2>1. node'[e] = node[e] /\ Len(node[e].files) \in Nat
    BY <1>1, <1>5, FilesTyped
  <2> QED
    BY <1>2, <1>3, <2>1
<1>6. CASE e = d
  <2>1. \A j \in DOMAIN node'[d].files :
          IF j \in DOMAIN node[d].files
          THEN /\ node'[d].files[j].name = node[d].files[j].name
               /\ node'[d].files[j].inode = node[d].files[j].inode
               /\ node[d].files[j].file # NULL => node'[d].files[j].file = node[d].files[j].file
          ELSE node'[d].files[j].name = Unnamed
    BY <1>1
  <2> QED
    BY <1>1, <1>2, <1>3, <1>4, <1>6, <2>1
<1> QED
  BY <1>5, <1>6

\* A file read from the disk is a copy.
LEMMA FileOfCopy ==
  ASSUME NEW n \in DOMAIN node', IsImage(Image'), NEW i \in DOMAIN Image', NEW parent, NEW lost,
         node'[n] = FileOf(Image', i, parent, lost)
  PROVE  CopyIn(node', Image', n) /\ node'[n].inode = i
<1> DEFINE image == Image'
           es == image[i].entries
           fs == [k \in DOMAIN es |-> [name |-> es[k].name, inode |-> es[k].inode, file |-> NULL]]
<1>1. node'[n].inode = i /\ node'[n].type = image[i].type /\ node'[n].files = fs
  BY DEF FileOf, Unfetched
<1>2. Len(es) \in Nat /\ DOMAIN es = 1 .. Len(es)
  BY EntriesTyped
<1>3. DOMAIN fs = DOMAIN es /\ \A k \in DOMAIN fs : fs[k].name = es[k].name /\ fs[k].inode = es[k].inode
  OBVIOUS
<1>4. Len(fs) = Len(es)
  BY <1>2
<1> HIDE DEF fs, es
<1>5. \A k \in DOMAIN fs : k <= Len(es)
  BY <1>2, <1>3
<1>6. /\ n \in DOMAIN node' /\ i \in DOMAIN image /\ node'[n].type = image[i].type
      /\ Len(es) <= Len(fs)
      /\ \A k \in DOMAIN fs : IF k <= Len(es) THEN fs[k].name = es[k].name /\ fs[k].inode = es[k].inode
                              ELSE fs[k].name = Unnamed
  BY <1>1, <1>2, <1>3, <1>4, <1>5
<1> QED
  BY <1>1, <1>6 DEF Copy, CopyIn, es

LEMMA AddingCopied ==
  ASSUME IInv, Copied, NEW d \in DOMAIN node, NEW k, Adding(d, k), Image' = Image, IsImage(Image)
  PROVE  Copied'
<1> DEFINE new == Len(node) + 1
<1>1. Nodes /\ node # <<>> /\ Grown
  <2>1. DOMAIN node # {} /\ DOMAIN <<>> = {}
    OBVIOUS
  <2>2. node # <<>>
    BY <2>1, Zenon
  <2> QED
    BY <2>2, AddsGrown DEF IInv, NodeInv, Adding
<1>2. \A n : Copy(n) => CopyIn(node', Image', n) /\ node'[n].inode = node[n].inode
  BY <1>1, CopyKept
<1>3. /\ node'[Root].type = "dir" /\ node'[Root].inode = ROOT_INO
      /\ ~node'[Root].lost => CopyIn(node', Image', Root)
  <2>1. Root \in DOMAIN node
    BY <1>1, RootThere
  <2>2. /\ node'[Root].type = node[Root].type /\ node'[Root].inode = node[Root].inode
        /\ node'[Root].lost = node[Root].lost
    BY <1>1, <2>1 DEF Grown
  <2> QED
    BY <1>1, <1>2, <2>2 DEF Copied
<1>4. new \in DOMAIN node' /\ DOMAIN node' = DOMAIN node \cup {new} /\ new # NULL
  <2>1. node \in Seq(FileT) /\ node' \in Seq(FileT) /\ Len(node') = new
    BY <1>1 DEF Adding, Adds, Nodes
  <2> QED
    BY <2>1, PointerAssumption
<1>5. ASSUME NEW e \in DOMAIN node', NEW j \in DOMAIN node'[e].files,
             node'[e].files[j].name # Unnamed, node'[e].files[j].file # NULL,
             ~node'[node'[e].files[j].file].lost
      PROVE  /\ ~node'[e].lost /\ CopyIn(node', Image', node'[e].files[j].file)
             /\ node'[node'[e].files[j].file].inode = node'[e].files[j].inode
  <2>1. CASE e = new
    BY <1>5, <2>1 DEF Adding, Adds
  <2>2. CASE e = d /\ j = k
    <3>1. node'[d].files[k].file = new
      BY DEF Adding, Adds
    <3>2. /\ k \in DOMAIN node[d].files /\ node'[d].files[k].inode = node[d].files[k].inode
          /\ node[d].files[k].name # Unnamed /\ node'[d].lost = node[d].lost
      BY <1>5, <2>2 DEF Adding, Adds
    <3>3. PICK image, i, f : image = Image /\ i = node[d].files[k].inode /\ f = node'[new]
      OBVIOUS
    <3>4. f \in Fetched(image, i, d)
      BY <3>2, <3>3 DEF Adding, Fetched
    <3>5. i \in Nat /\ d \in Nat \cup {NULL} /\ d # NULL
      <4>1. node[d].files[k] \in EntryT /\ d \in Nat
        BY <1>1, <3>2, FilesTyped
      <4> QED
        BY <3>3, <4>1, PointerAssumption DEF EntryT
    <3>6. ~f.lost /\ IsImage(image)
      BY <1>5, <2>2, <3>1, <3>3
    <3>7. ~IsLost(d) /\ i \in DOMAIN image /\ f = FileOf(image, i, d, f.lost)
      BY <3>4, <3>5, <3>6, FetchedIs
    <3>8. ~node'[d].lost
      BY <3>2, <3>5, <3>7 DEF IsLost
    <3>9. node'[new] = FileOf(Image', i, d, f.lost) /\ i \in DOMAIN Image' /\ IsImage(Image')
      BY <3>3, <3>6, <3>7
    <3>10. CopyIn(node', Image', new) /\ node'[new].inode = i
      BY <1>4, <3>9, FileOfCopy
    <3> QED
      BY <2>2, <3>1, <3>2, <3>3, <3>8, <3>10
  <2>3. CASE e # new /\ (e # d \/ j # k)
    <3>1. e \in DOMAIN node /\ j \in DOMAIN node[e].files /\ node'[e].files[j] = node[e].files[j]
      BY <1>4, <2>3 DEF Adding, Adds
    <3> DEFINE n == node[e].files[j].file
    <3>2. n \in DOMAIN node
      BY <1>5, <3>1 DEF IInv, NodeInv, Tree, Down
    <3>3. node'[n].lost = node[n].lost /\ node'[e].lost = node[e].lost
      BY <1>1, <3>1, <3>2 DEF Grown
    <3>4. ~node[e].lost /\ Copy(n) /\ node[n].inode = node[e].files[j].inode
      BY <1>5, <3>1, <3>3 DEF Copied
    <3> QED
      BY <1>2, <3>1, <3>3, <3>4
  <2> QED
    BY <2>1, <2>2, <2>3
<1> QED
  BY <1>3, <1>5 DEF Copied, Copy

\* Before the mount nothing is there; after it the tree only grows, and what it
\* copies is left alone.
LEMMA Shape ==
  ASSUME IInv, Cursor, [Next]_vars
  PROVE  \/ node = <<>> /\ node' = <<>> /\ call = Idle /\ call' = Idle /\ UNCHANGED process
         \/ MountRoot
         \/ /\ UNCHANGED registry /\ node # <<>> /\ IsImage(Image) /\ Image' = Image
            /\ Grown /\ (Copied => Copied')
<1>1. CASE BlockdevInit \/ RamdiskInit \/ AtaInit \/ AtaDisk \/ AtaDone
  <2>1. step \in Early /\ UNCHANGED <<node, call, process>>
    BY <1>1 DEF BlockdevInit, RamdiskInit, AtaInit, AtaDisk, AtaDone, Early
  <2>2. node = <<>> /\ call = Idle
    BY <2>1 DEF IInv, RegInv, Mounted
  <2> QED
    BY <2>1, <2>2
<1>2. ASSUME UNCHANGED registry, node' = node
      PROVE  node # <<>> => Grown /\ (Copied => Copied')
  <2>1. Image' = Image
    BY <1>2 DEF registry, Image
  <2>2. Grown
    BY <1>2, SameGrown DEF IInv, NodeInv
  <2> QED
    BY <1>2, <2>1, <2>2 DEF Copied, Copy
<1>3. UNCHANGED registry => Image' = Image
  BY DEF registry, Image
<1>4. node # <<>> => IsImage(Image)
  BY ImageIs DEF IInv
<1>5. ASSUME Added PROVE node # <<>> => Grown /\ (Copied => Copied')
  <2>1. PICK d \in DOMAIN node : \E k : Adding(d, k)
    BY <1>5 DEF Added
  <2>2. PICK k : Adding(d, k)
    BY <2>1
  <2>3. Image' = Image
    BY <1>3, <1>5 DEF Added
  <2>4. Grown
    BY <2>2, AddsGrown DEF Adding, IInv, NodeInv
  <2> QED
    BY <1>4, <2>2, <2>3, <2>4, AddingCopied
<1>6. CASE FsFetch
  <2>1. call # Idle /\ UNCHANGED registry /\ (Added \/ node' = node)
    <3>1. /\ Walking /\ Match # 0 /\ Target = NULL /\ UNCHANGED registry
          /\ (\E f \in Fetched(Image, Files[Match].inode, call.dir) : AddFile(f)) \/ node' = node
      BY <1>6 DEF FsFetch
    <3>2. CASE \E f \in Fetched(Image, Files[Match].inode, call.dir) : AddFile(f)
      <4>1. PICK f \in Fetched(Image, Files[Match].inode, call.dir) : AddFile(f)
        BY <3>2
      <4>2. Added
        BY <3>1, <4>1, FetchAdds DEF IInv
      <4> QED
        BY <3>1, <4>2 DEF Walking, In
    <3> QED
      BY <3>1, <3>2 DEF Walking, In
  <2> QED
    BY <1>2, <1>3, <1>4, <1>5, <2>1, CallMounted
<1>7. CASE WalkMissing \/ WalkDeadEnd
  <2>1. call # Idle /\ UNCHANGED registry /\ ((\E at : Noent(at)) \/ node' = node)
    BY <1>7, Zenon DEF WalkMissing, WalkDeadEnd, Walking, In
  <2>2. CASE node' = node
    BY <1>2, <1>3, <1>4, <2>1, <2>2, CallMounted
  <2>3. CASE \E at : Noent(at)
    <3>1. PICK at : Noent(at)
      BY <2>3
    <3>2. CASE call.create
      <4>1. Added
        BY <2>1, <3>1, <3>2, NoentAdds DEF IInv
      <4> QED
        BY <1>3, <1>4, <1>5, <2>1, <4>1, CallMounted
    <3>3. CASE ~call.create
      <4>1. node' = node
        BY <3>1, <3>3 DEF Noent
      <4> QED
        BY <2>2, <4>1
    <3> QED
      BY <3>2, <3>3
  <2> QED
    BY <2>1, <2>2, <2>3
<1>8. CASE FoundRoot \/ StartWalk \/ WalkTooLong \/ WalkInto \/ WalkFound \/ Create \/ CreateDone
             \/ ExecDone \/ OpenDone
  <2>1. call # Idle /\ UNCHANGED <<registry, node>>
    BY <1>8 DEF FoundRoot, StartWalk, WalkTooLong, WalkInto, WalkFound, Create, CreateDone, ExecDone,
                OpenDone, Walking, Creating, Opening, In
  <2> QED
    BY <1>2, <1>3, <1>4, <2>1, CallMounted
<1>9. CASE MkdirDev \/ Mknod \/ ProcStart \/ (\E path \in Paths : SysOpen(path))
             \/ (\E fd \in 0 .. MaxFds : SysRead(fd) \/ SysWrite(fd))
  <2>1. UNCHANGED <<registry, node>> /\ step \in Late \ {"stopped"}
    BY <1>9 DEF MkdirDev, Mknod, ProcStart, SysOpen, SysRead, SysWrite, Late
  <2>2. node # <<>>
    BY <2>1 DEF IInv, NodeInv, Nodes
  <2> QED
    BY <1>2, <1>3, <1>4, <2>1, <2>2
<1>10. CASE Halted \/ UNCHANGED vars
  <2>1. UNCHANGED <<registry, node, call, process>>
    BY <1>10 DEF Halted, vars
  <2>2. CASE node = <<>>
    <3>1. call = Idle
      BY <2>2, CallMounted
    <3> QED
      BY <2>1, <2>2, <3>1
  <2>3. CASE node # <<>>
    BY <1>2, <1>3, <1>4, <2>1, <2>3
  <2> QED
    BY <2>2, <2>3
<1> QED
  BY <1>1, <1>6, <1>7, <1>8, <1>9, <1>10 DEF Next, Boot, Ffind

LEMMA MountCopied ==
  ASSUME IInv, MountRoot, IInv'
  PROVE  Copied' /\ UNCHANGED <<call, process>> /\ call = Idle /\ node = <<>>
<1>1. step = "vfs_init" /\ UNCHANGED <<bd_list, call, process>>
  BY DEF MountRoot
<1>2. call = Idle /\ node = <<>>
  BY <1>1 DEF IInv, RegInv, Mounted
<1>3. CASE node' = <<>>
  <2>1. DOMAIN node' = {}
    BY <1>3
  <2> QED
    BY <1>1, <1>2, <1>3, <2>1 DEF Copied
<1>4. CASE node' # <<>>
  <2>1. PICK dev, f : /\ root_dev' = dev /\ node' = <<f>> /\ f.type = "dir"
                      /\ f \in Fetched(bd_list[dev].fs, ROOT_INO, NULL)
    <3>1. PICK dev : /\ root_dev' = dev
                     /\ \E f \in Fetched(bd_list[dev].fs, ROOT_INO, NULL) : f.type = "dir" /\ node' = <<f>>
      BY <1>2, <1>4, Zenon DEF MountRoot
    <3> QED
      BY <3>1
  <2>2. IsImage(Image')
    <3>1. root_dev' \in DOMAIN bd_list' /\ bd_list'[root_dev'].fs # NULL /\ bd_list' \in Seq(Devices)
      BY <1>4 DEF IInv, RegInv, Mounted, Registry
    <3>2. bd_list'[root_dev'] \in Devices
      BY <3>1
    <3>3. Image' \in FileSystems \ {NULL}
      BY <3>1, <3>2 DEF Devices, Image
    <3> QED
      BY <3>3, ImageAssumption
  <2>3. PICK image : image = Image' /\ image = bd_list[dev].fs
    BY <1>1, <2>1 DEF Image
  <2>4. IsImage(image) /\ ROOT_INO \in DOMAIN image /\ ROOT_INO \in Nat /\ NULL \in Nat \cup {NULL}
    BY <2>2, <2>3 DEF IsImage
  <2>5. f \in Fetched(image, ROOT_INO, NULL)
    BY <2>1, <2>3 DEF Fetched
  <2>6. /\ \A k \in DOMAIN f.files : f.files[k].file = NULL
        /\ f.inode = ROOT_INO
        /\ ~f.lost => f = FileOf(image, ROOT_INO, NULL, f.lost)
    <3>1. PICK inode, parent : inode = ROOT_INO /\ parent = NULL
      OBVIOUS
    <3>2. f \in Fetched(image, inode, parent)
      BY <2>5, <3>1 DEF Fetched, IsLost, MayFail
    <3>3. IsImage(image) /\ inode \in Nat /\ parent \in Nat \cup {NULL}
      BY <2>4, <3>1
    <3>4. /\ \A k \in DOMAIN f.files : f.files[k].file = NULL
          /\ f.inode = inode
          /\ ~f.lost => f = FileOf(image, inode, parent, f.lost)
      BY <3>2, <3>3, FetchedIs
    <3> QED
      BY <3>1, <3>4
  <2>7. DOMAIN node' = {Root} /\ node'[Root] = f
    BY <2>1 DEF Root
  <2>8. ~f.lost => CopyIn(node', Image', Root)
    <3> SUFFICES ASSUME ~f.lost PROVE CopyIn(node', Image', Root)
      OBVIOUS
    <3>1. node'[Root] = FileOf(Image', ROOT_INO, NULL, f.lost) /\ ROOT_INO \in DOMAIN Image'
      BY <2>3, <2>4, <2>6, <2>7
    <3> QED
      BY <2>2, <2>7, <3>1, FileOfCopy
  <2>9. \A d \in DOMAIN node' : \A k \in DOMAIN node'[d].files : node'[d].files[k].file = NULL
    BY <2>6, <2>7
  <2> QED
    BY <1>1, <1>2, <2>1, <2>6, <2>7, <2>8, <2>9 DEF Copied, Copy
<1> QED
  BY <1>3, <1>4

LEMMA CopiedStep ==
  ASSUME IInv, Cursor, Copied, [Next]_vars
  PROVE  Copied'
<1>1. IInv'
  BY VfsStep
<1>2. CASE node' = <<>>
  <2>1. DOMAIN node' = {}
    BY <1>2
  <2> QED
    BY <1>2, <2>1 DEF Copied
<1> QED
  BY <1>1, <1>2, Shape, MountCopied

-----------------------------------------------------------------------------
(* The inductive invariant: a lookup in progress and its answer *)

\* The lookup c has k names behind it: they lead to its directory in the tree
\* and, if that could be read, on the disk.
At(c, nodes, image, k) ==
  /\ k \in Nat /\ k < Len(c.path.names) /\ Len(c.rest) = Len(c.path.names) - k
  /\ \A j \in 1 .. Len(c.rest) : c.rest[j] = c.path.names[k + j]
  /\ WayIn(nodes, c.path.names, k, c.dir)
  /\ c.dir \in DOMAIN nodes /\ nodes[c.dir].type = "dir"
  /\ ~nodes[c.dir].lost => /\ Walk(image, c.path.names)[k] = Found(nodes[c.dir].inode)
                           /\ CopyIn(nodes, image, c.dir)

OnWay == call # Idle /\ call.pc = "walk" => \E k : At(call, node, Image, k)

\* What the lookup c returns is where its path leads in the tree and, if that
\* could be read, what it names on the disk.
Answer(c, nodes, image) ==
  /\ c.status = "SUCCESS" /\ c.target # NULL =>
       /\ c.target \in DOMAIN nodes
       /\ WayIn(nodes, c.path.names, Len(c.path.names), c.target) \/ c.target = Root
       /\ ~c.lost =>
            /\ CopyIn(nodes, image, c.target)
            /\ OneCharacter(c.path) \/ Resolve(image, c.path) = Found(nodes[c.target].inode)
  /\ c.status # "SUCCESS" /\ ~c.lost => Resolve(image, c.path).status = c.status

Answered ==
  call # Idle /\ call.pc = "back" /\ call.op \in {"exec", "open"} => Answer(call, node, Image)

\* Open files keep the place their path led to.
FdT == [fd : Nat, file : Nat \cup {NULL}, bd : Nat, path : PathT]

Descriptors ==
  /\ fd_counter = Len(fd_list) /\ fd_list \in Seq(FdT)
  /\ \A i \in DOMAIN fd_list :
       /\ fd_list[i].fd = i - 1
       /\ IF fd_list[i].bd = 0
          THEN Way(fd_list[i].path.names, Len(fd_list[i].path.names), fd_list[i].file)
          ELSE fd_list[i].file = NULL

LookupInv == Copied /\ OnWay /\ Answered /\ Descriptors

LEMMA NamesTyped ==
  ASSUME IInv, call # Idle
  PROVE  /\ call \in CallT /\ call.path.names \in Seq(NameT) /\ Len(call.path.names) \in Nat
         /\ Len(call.path.names) # 0 /\ call.rest \in Seq(NameT) /\ Len(call.rest) \in Nat
         /\ call.dir \in DOMAIN node /\ call.dir \in Nat
<1>1. call \in CallT /\ call.path.names # <<>> /\ call.dir \in DOMAIN node
  BY DEF IInv, NodeInv, Active
<1>2. call.path.names \in Seq(NameT) /\ call.rest \in Seq(NameT) /\ call.dir \in Nat
  BY <1>1 DEF CallT, PathT
<1>3. Len(call.path.names) \in Nat /\ Len(call.path.names) # 0
  BY <1>1, <1>2, EmptySeq
<1> QED
  BY <1>1, <1>2, <1>3

LEMMA AtKept ==
  ASSUME Nodes, IsImage(Image), Grown, Image' = Image, NEW c, NEW k, At(c, node, Image, k)
  PROVE  At(c, node', Image', k)
<1>1. c.dir \in DOMAIN node /\ Way(c.path.names, k, c.dir)
  BY DEF At, Way
<1>2. /\ c.dir \in DOMAIN node' /\ node'[c.dir].type = node[c.dir].type
      /\ node'[c.dir].inode = node[c.dir].inode /\ node'[c.dir].lost = node[c.dir].lost
  BY <1>1 DEF Grown
<1>3. WayIn(node', c.path.names, k, c.dir)
  BY <1>1, WayKept
<1>4. Copy(c.dir) => CopyIn(node', Image', c.dir)
  BY CopyKept
<1> QED
  BY <1>2, <1>3, <1>4 DEF At, Copy

LEMMA AnswerKept ==
  ASSUME Nodes, IsImage(Image), Grown, Image' = Image, NEW c, Answer(c, node, Image)
  PROVE  Answer(c, node', Image')
<1>1. ASSUME c.status = "SUCCESS", c.target # NULL
      PROVE  /\ c.target \in DOMAIN node'
             /\ WayIn(node', c.path.names, Len(c.path.names), c.target) \/ c.target = Root
             /\ ~c.lost =>
                  /\ CopyIn(node', Image', c.target)
                  /\ OneCharacter(c.path) \/ Resolve(Image', c.path) = Found(node'[c.target].inode)
  <2>1. c.target \in DOMAIN node
    BY <1>1 DEF Answer
  <2>2. c.target \in DOMAIN node' /\ node'[c.target].inode = node[c.target].inode
    BY <2>1 DEF Grown
  <2>3. Copy(c.target) => CopyIn(node', Image', c.target)
    BY CopyKept
  <2>4. WayIn(node, c.path.names, Len(c.path.names), c.target)
          => WayIn(node', c.path.names, Len(c.path.names), c.target)
    BY WayKept DEF Way
  <2> QED
    BY <1>1, <2>2, <2>3, <2>4 DEF Answer, Copy
<1>2. c.status # "SUCCESS" /\ ~c.lost => Resolve(Image', c.path).status = c.status
  BY DEF Answer
<1> QED
  BY <1>1, <1>2 DEF Answer

\* The next name.
LEMMA AtNext ==
  ASSUME IInv, Copied, In("walk"), NEW k, At(call, node, Image, k), IsImage(Image)
  PROVE  /\ k + 1 \in 1 .. Len(call.path.names) /\ (LastName <=> k + 1 = Len(call.path.names))
         /\ ~node[call.dir].lost =>
              Walk(Image, call.path.names)[k + 1] = Below(Image, node[call.dir].inode, Head(call.rest))
         /\ Match # 0 /\ Target # NULL =>
              /\ Target \in DOMAIN node /\ Way(call.path.names, k + 1, Target)
              /\ ~node[Target].lost => /\ ~node[call.dir].lost /\ Copy(Target)
                                       /\ node[Target].inode = Files[Match].inode
<1> DEFINE names == call.path.names
<1>1. call # Idle
  BY DEF In
<1>2. /\ names \in Seq(NameT) /\ Len(names) \in Nat /\ call.rest \in Seq(NameT) /\ Len(call.rest) \in Nat
      /\ call.dir \in DOMAIN node
  BY <1>1, NamesTyped
<1>3. /\ k \in Nat /\ k < Len(names) /\ Len(call.rest) = Len(names) - k
      /\ \A j \in 1 .. Len(call.rest) : call.rest[j] = names[k + j]
      /\ WayIn(node, names, k, call.dir)
      /\ ~node[call.dir].lost => Walk(Image, names)[k] = Found(node[call.dir].inode)
  BY DEF At
<1> HIDE DEF names
<1>4. k + 1 \in 1 .. Len(names) /\ (LastName <=> k + 1 = Len(names)) /\ 1 \in 1 .. Len(call.rest)
  BY <1>2, <1>3 DEF LastName
<1>5. Head(call.rest) = names[k + 1]
  <2>1. Head(call.rest) = call.rest[1]
    BY <1>2, <1>4
  <2> QED
    BY <1>3, <1>4, <2>1
<1>6. Walk(Image, names)[k + 1] = WalkStep(Image, names, k + 1, Walk(Image, names)[k])
  <2> DEFINE m == k + 1
  <2>1. m - 1 = k /\ m \in 1 .. Len(names)
    BY <1>3, <1>4
  <2>2. \A j \in 1 .. Len(names) : Walk(Image, names)[j] = WalkStep(Image, names, j, Walk(Image, names)[j - 1])
    BY <1>2, WalkComputed, Zenon
  <2> HIDE DEF m
  <2>3. Walk(Image, names)[m] = WalkStep(Image, names, m, Walk(Image, names)[m - 1])
    BY <2>1, <2>2, Zenon
  <2>4. Walk(Image, names)[m] = WalkStep(Image, names, m, Walk(Image, names)[k])
    BY <2>1, <2>3
  <2> QED
    BY <2>4 DEF m
<1>7. ~node[call.dir].lost => Walk(Image, names)[k + 1] = Below(Image, node[call.dir].inode, Head(call.rest))
  BY <1>3, <1>5, <1>6 DEF WalkStep, Found
<1>8. ASSUME Match # 0, Target # NULL
      PROVE  /\ Target \in DOMAIN node /\ Way(names, k + 1, Target)
             /\ ~node[Target].lost => /\ ~node[call.dir].lost /\ Copy(Target)
                                      /\ node[Target].inode = Files[Match].inode
  <2>1. Files \in Seq(EntryT) /\ Files = node[call.dir].files
    BY <1>2, FilesTyped DEF Files, IInv, NodeInv
  <2>2. /\ Match \in DOMAIN Files /\ Files[Match].name # Unnamed /\ Files[Match].name = CurrentName
        /\ \A j \in DOMAIN Files : j < Match => Files[j].name # CurrentName
    BY <1>8, <2>1, MatchIs
  <2>3. CurrentName = Plain(names[k + 1])
    BY <1>5 DEF CurrentName, Plain
  <2>4. Leads(call.dir, names[k + 1], Target)
    BY <1>2, <1>8, <2>1, <2>2, <2>3 DEF Leads, LeadsIn, Target
  <2>5. ~node[Target].lost => /\ ~node[call.dir].lost /\ Copy(Target)
                              /\ node[Target].inode = Files[Match].inode
    BY <1>2, <1>8, <2>1, <2>2 DEF Copied, Target
  <2>6. Target \in DOMAIN node
    BY <1>2, <1>8, <2>1, <2>2 DEF IInv, NodeInv, Tree, Down, Target
  <2>7. Way(names, k + 1, Target)
    BY <1>3, <2>4, <2>6, WayOn DEF Way
  <2> QED
    BY <2>5, <2>6, <2>7
<1> QED
  BY <1>4, <1>7, <1>8 DEF names

LEMMA FinishIs ==
  ASSUME IInv, call # Idle, NEW status, NEW target, NEW at, Finish(status, target, at)
  PROVE  /\ call'.path = call.path /\ call'.op = call.op /\ call'.pc = "back"
         /\ call'.status = status /\ call'.target = target /\ call'.lost = node[at].lost
<1>1. call \in CallT
  BY NamesTyped
<1> QED
  BY <1>1 DEF Finish, CallT

\* The lookups that a process waits for create nothing.
LEMMA OpenNotCreate ==
  ASSUME IInv, call # Idle, call.op \in {"exec", "open"}
  PROVE  ~call.create
BY DEF IInv, NodeInv, Active

LEMMA SlashRoot ==
  ASSUME NEW image, IsImage(image), NEW path, Slash(path)
  PROVE  Resolve(image, path) = Found(ROOT_INO)
<1> DEFINE empty == ""
           dot == Plain(empty)
           names == path.names
           es == image[ROOT_INO].entries
           I == {k \in 1 .. Len(es) : es[k].name = dot}
           w == Walk(image, names)
           first == SelectInSeq(es, LAMBDA e : e.name = dot)
<1>1. names = <<empty>> /\ empty \notin Long
  BY NameAssumption, Zenon DEF Slash
<1>2. Below(image, ROOT_INO, empty) = IF image[ROOT_INO].type # "dir" THEN Error("ENOENT")
                                      ELSE IF first = 0 THEN Error("ENOENT") ELSE Found(es[first].inode)
  BY <1>1, Zenon DEF Below, Plain
<1>3. first = IF I # {} THEN Min(I) ELSE 0
  BY Zenon DEF SelectInSeq
<1>4. /\ ROOT_INO \in DOMAIN image /\ image[ROOT_INO].type = "dir"
      /\ (\E k \in DOMAIN es : es[k].name = dot)
      /\ \A k \in DOMAIN es : es[k].name = dot => es[k].inode = ROOT_INO
  <2>1. dot = "."
    BY Zenon DEF Plain
  <2> QED
    BY <2>1, Zenon DEF IsImage
<1> HIDE DEF empty, dot, first
<1>5. Len(names) = 1 /\ names[1] = empty
  BY <1>1
<1>6. w[0] = Found(ROOT_INO) /\ w[1] = WalkStep(image, names, 1, w[0])
  <2>1. w[0] = Found(ROOT_INO) /\ \A k \in 1 .. Len(names) : w[k] = WalkStep(image, names, k, w[k - 1])
    <3> HIDE DEF names
    <3>1. Len(names) \in Nat
      BY <1>5
    <3> QED
      BY <3>1, WalkComputed
  <2>2. 1 \in 1 .. Len(names) /\ 1 - 1 = 0
    BY <1>5
  <2> HIDE DEF w, names
  <2> QED
    BY <2>1, <2>2
<1>7. w[1] = Below(image, ROOT_INO, empty)
  <2> HIDE DEF w, names
  <2> QED
    BY <1>5, <1>6 DEF WalkStep, Found
<1>8. DOMAIN es = 1 .. Len(es) /\ Len(es) \in Nat
  BY <1>4, EntriesTyped
<1> HIDE DEF es
<1>9. I # {} /\ I \in SUBSET Nat
  BY <1>4, <1>8
<1>10. Min(I) \in I
  <2> HIDE DEF I
  <2> QED
    BY <1>9, LeastNat
<1>11. es[Min(I)].inode = ROOT_INO /\ Min(I) # 0
  BY <1>4, <1>8, <1>10
<1> HIDE DEF I, w
<1>12. w[1] = Found(ROOT_INO)
  BY <1>2, <1>3, <1>4, <1>7, <1>9, <1>11
<1> HIDE DEF names
<1>13. Resolve(image, path) = IF w[Len(names)].status = "SUCCESS" /\ path.slash /\ image[w[Len(names)].inode].type # "dir"
                              THEN Error("ENOTDIR") ELSE w[Len(names)]
  BY DEF Resolve, w, names
<1> QED
  BY <1>4, <1>5, <1>12, <1>13 DEF Found

LEMMA ResolveError ==
  ASSUME NEW image, NEW path, Len(path.names) \in Nat, NEW k \in 0 .. Len(path.names), NEW status,
         status # "SUCCESS", Walk(image, path.names)[k] = Error(status)
  PROVE  Resolve(image, path).status = status
<1>1. Walk(image, path.names)[k].status # "SUCCESS"
  BY DEF Error
<1>2. Walk(image, path.names)[Len(path.names)] = Error(status)
  BY <1>1, WalkStuck
<1> QED
  BY <1>2 DEF Resolve, Error

\* The state of the lookups after a step.
Lookups == OnWay /\ Answered

LEMMA FoundRootLookup ==
  ASSUME IInv, LookupInv, IsImage(Image), node # <<>>, FoundRoot, Image' = Image
  PROVE  Lookups'
<1>1. call # Idle /\ call.pc = "ffind" /\ node' = node /\ (OneCharacter(call.path) \/ Slash(call.path))
  BY DEF FoundRoot, In
<1>2. CASE UNCHANGED call
  BY <1>1, <1>2 DEF Lookups, OnWay, Answered
<1>3. CASE call.create /\ Finish("EEXIST", call.target, Root)
  <2>1. call'.pc = "back" /\ call'.op = call.op
    BY <1>1, <1>3, FinishIs
  <2>2. call.op \notin {"exec", "open"}
    BY <1>1, <1>3, OpenNotCreate
  <2> QED
    BY <2>1, <2>2 DEF Lookups, OnWay, Answered
<1>4. CASE Finish("SUCCESS", IF call.target = NULL THEN NULL ELSE Root, Root)
  <2> DEFINE t == IF call.target = NULL THEN NULL ELSE Root
  <2>1. /\ call'.pc = "back" /\ call'.path = call.path /\ call'.status = "SUCCESS" /\ call'.target = t
        /\ call'.lost = node[Root].lost
    BY <1>1, <1>4, FinishIs
  <2>2. Root \in DOMAIN node /\ node[Root].inode = ROOT_INO /\ (~node[Root].lost => Copy(Root))
    BY RootThere DEF LookupInv, Copied, IInv, NodeInv
  <2>3. OneCharacter(call.path) \/ Resolve(Image, call.path) = Found(ROOT_INO)
    BY <1>1, SlashRoot
  <2>4. call'.target # NULL => call'.target = Root
    BY <2>1
  <2>5. Answer(call', node', Image')
    BY <1>1, <2>1, <2>2, <2>3, <2>4 DEF Answer, Copy
  <2> QED
    BY <2>1, <2>5 DEF Lookups, OnWay, Answered
<1> QED
  BY <1>2, <1>3, <1>4 DEF FoundRoot

LEMMA StartWalkLookup ==
  ASSUME IInv, LookupInv, IsImage(Image), node # <<>>, StartWalk, Image' = Image
  PROVE  Lookups'
<1>1. call # Idle /\ call.pc = "ffind" /\ node' = node
  BY DEF StartWalk, In
<1>2. CASE UNCHANGED call
  BY <1>1, <1>2 DEF Lookups, OnWay, Answered
<1>3. CASE call' = [call EXCEPT !.pc = "walk", !.dir = Root, !.rest = call.path.names]
  <2> DEFINE names == call.path.names
  <2>1. call \in CallT /\ names \in Seq(NameT) /\ Len(names) \in Nat /\ Len(names) # 0
    BY <1>1, NamesTyped
  <2>2. call'.pc = "walk" /\ call'.dir = Root /\ call'.rest = names /\ call'.path = call.path
    BY <1>3, <2>1 DEF CallT
  <2>3. /\ node[Root].inode = ROOT_INO /\ node[Root].type = "dir"
        /\ ~node[Root].lost => Copy(Root)
    BY DEF LookupInv, Copied
  <2>4. Root \in DOMAIN node
    BY RootThere DEF IInv, NodeInv
  <2>5. Way(names, 0, Root)
    BY WayStarts DEF IInv, NodeInv
  <2>6. Walk(Image, names)[0] = Found(ROOT_INO)
    BY <2>1, WalkComputed
  <2> HIDE DEF names
  <2>7. 0 \in Nat /\ 0 < Len(names) /\ Len(names) = Len(names) - 0
        /\ \A j \in 1 .. Len(names) : names[j] = names[0 + j]
    BY <2>1
  <2>8. At(call', node', Image', 0)
    BY <1>1, <2>2, <2>3, <2>4, <2>5, <2>6, <2>7 DEF At, Copy, Way, names
  <2> QED
    BY <2>2, <2>8 DEF Lookups, OnWay, Answered
<1> QED
  BY <1>2, <1>3 DEF StartWalk

\* A lookup that ends in an error the disk agrees with.
LEMMA ErrorLookup ==
  ASSUME IInv, call # Idle, node' = node, Image' = Image, NEW status, status # "SUCCESS", NEW at,
         Finish(status, call.target, at),
         call.op \in {"exec", "open"} /\ ~node[at].lost => Resolve(Image, call.path).status = status
  PROVE  Lookups'
<1>1. /\ call'.pc = "back" /\ call'.path = call.path /\ call'.status = status /\ call'.op = call.op
      /\ call'.lost = node[at].lost
  BY FinishIs
<1>2. call.op \in {"exec", "open"} => Answer(call', node', Image')
  BY <1>1 DEF Answer
<1> QED
  BY <1>1, <1>2 DEF Lookups, OnWay, Answered

LEMMA WalkTooLongLookup ==
  ASSUME IInv, LookupInv, IsImage(Image), WalkTooLong, Image' = Image
  PROVE  Lookups'
<1>1. /\ call # Idle /\ In("walk") /\ node' = node /\ Head(call.rest) \in Long
      /\ Finish("ENAMETOOLONG", call.target, call.dir)
  BY DEF WalkTooLong, In
<1>2. PICK k : At(call, node, Image, k)
  BY <1>1 DEF LookupInv, OnWay, In
<1>3. ASSUME ~node[call.dir].lost PROVE Resolve(Image, call.path).status = "ENAMETOOLONG"
  <2>1. /\ k + 1 \in 1 .. Len(call.path.names)
        /\ Walk(Image, call.path.names)[k + 1] = Below(Image, node[call.dir].inode, Head(call.rest))
    BY <1>1, <1>2, <1>3, AtNext DEF LookupInv
  <2>2. Image[node[call.dir].inode].type = "dir"
    BY <1>2, <1>3 DEF At, CopyIn
  <2>3. Below(Image, node[call.dir].inode, Head(call.rest)) = Error("ENAMETOOLONG")
    BY <1>1, <2>2, Zenon DEF Below
  <2>4. Walk(Image, call.path.names)[k + 1] = Error("ENAMETOOLONG")
    BY <2>1, <2>3
  <2>5. Len(call.path.names) \in Nat /\ k + 1 \in 0 .. Len(call.path.names)
    BY <1>1, <2>1, NamesTyped
  <2> QED
    BY <2>4, <2>5, ResolveError
<1> QED
  BY <1>1, <1>3, ErrorLookup

\* ffind_noent(), if the path names nothing.
LEMMA NoentLookup ==
  ASSUME IInv, call # Idle, Image' = Image, NEW at, Noent(at),
         ~node[at].lost => Resolve(Image, call.path).status = "ENOENT"
  PROVE  Lookups'
<1>1. CASE ~call.create
  <2>1. Finish("ENOENT", call.target, at) /\ node' = node
    BY <1>1 DEF Noent
  <2> QED
    BY <2>1, ErrorLookup
<1>2. CASE call.create
  <2>1. Finish("SUCCESS", Len(node) + 1, at)
    BY <1>2 DEF Noent
  <2>2. call'.pc = "back" /\ call'.op = call.op
    BY <2>1, FinishIs
  <2>3. call.op \notin {"exec", "open"}
    BY <1>2, OpenNotCreate
  <2> QED
    BY <2>2, <2>3 DEF Lookups, OnWay, Answered
<1> QED
  BY <1>1, <1>2

\* The name is not there.
LEMMA MissingResolve ==
  ASSUME IInv, LookupInv, IsImage(Image), Walking, Match = 0, ~node[call.dir].lost
  PROVE  Resolve(Image, call.path).status = "ENOENT"
<1>1. call # Idle /\ In("walk") /\ Head(call.rest) \notin Long
  BY DEF Walking, In
<1>2. PICK k : At(call, node, Image, k)
  BY <1>1 DEF LookupInv, OnWay, In
<1>3. /\ k + 1 \in 1 .. Len(call.path.names)
      /\ Walk(Image, call.path.names)[k + 1] = Below(Image, node[call.dir].inode, Head(call.rest))
  BY <1>1, <1>2, AtNext DEF LookupInv
<1>4. Copy(call.dir) /\ node[call.dir].type = "dir" /\ call.dir \in DOMAIN node
  BY <1>2 DEF At, Copy, CopyIn
<1>5. Walk(Image, call.path.names)[k + 1] = Error("ENOENT")
  BY <1>1, <1>3, <1>4, MatchBelow
<1>6. Len(call.path.names) \in Nat /\ k + 1 \in 0 .. Len(call.path.names)
  BY <1>1, <1>3, NamesTyped
<1> QED
  BY <1>5, <1>6, ResolveError

LEMMA EmptyMatch ==
  ASSUME Files = <<>>
  PROVE  Match = 0
<1> DEFINE I == {i \in 1 .. Len(Files) : Files[i].name # Unnamed /\ Files[i].name = CurrentName}
<1>1. Match = IF I # {} THEN Min(I) ELSE 0
  BY Zenon DEF Match, SelectInSeq
<1>2. I = {}
  <2>1. Len(Files) = 0 /\ 1 .. 0 = {}
    OBVIOUS
  <2> QED
    BY <2>1
<1> QED
  BY <1>1, <1>2

\* A file where a directory is needed.
LEMMA DeadEndResolve ==
  ASSUME IInv, LookupInv, IsImage(Image), Walking, Match # 0, Target # NULL, ~LastName,
         node[Target].type # "dir", ~node[Target].lost
  PROVE  Resolve(Image, call.path).status = "ENOENT"
<1> DEFINE names == call.path.names
           w == Walk(Image, names)
<1>1. call # Idle /\ In("walk") /\ Head(call.rest) \notin Long
  BY DEF Walking, In
<1>2. PICK k : At(call, node, Image, k)
  BY <1>1 DEF LookupInv, OnWay, In
<1>3. /\ k + 1 \in 1 .. Len(names) /\ k + 1 # Len(names)
      /\ w[k + 1] = Below(Image, node[call.dir].inode, Head(call.rest))
      /\ Copy(Target) /\ node[Target].inode = Files[Match].inode /\ ~node[call.dir].lost
  BY <1>1, <1>2, AtNext DEF LookupInv
<1>4. Copy(call.dir) /\ node[call.dir].type = "dir" /\ call.dir \in DOMAIN node /\ k \in Nat
  BY <1>2, <1>3 DEF At, Copy
<1>5. w[k + 1] = Found(node[Target].inode)
  BY <1>1, <1>3, <1>4, MatchBelow
<1>6. Image[node[Target].inode].type # "dir"
  BY <1>3 DEF Copy, CopyIn
<1> DEFINE m == k + 2
<1>7. Len(names) \in Nat /\ m \in 1 .. Len(names) /\ m \in 0 .. Len(names) /\ m - 1 = k + 1
  <2>1. Len(names) \in Nat
    BY <1>1, NamesTyped
  <2> QED
    BY <1>3, <1>4, <2>1
<1> HIDE DEF m, w, names
<1>8. w[m] = WalkStep(Image, names, m, w[m - 1])
  BY <1>7, WalkComputed DEF w
<1>9. w[m] = WalkStep(Image, names, m, Found(node[Target].inode))
  BY <1>5, <1>7, <1>8
<1>10. w[m] = Below(Image, node[Target].inode, names[m])
  BY <1>9 DEF WalkStep, Found
<1>11. Below(Image, node[Target].inode, names[m]) = Error("ENOENT")
  BY <1>6, Zenon DEF Below
<1>12. w[m] = Error("ENOENT")
  BY <1>10, <1>11
<1> QED
  BY <1>7, <1>12, ResolveError DEF w, names

LEMMA WalkMissingLookup ==
  ASSUME IInv, LookupInv, IsImage(Image), WalkMissing, Image' = Image
  PROVE  Lookups'
<1>1. call # Idle /\ Walking /\ Match = 0 /\ Noent(call.dir)
  BY DEF WalkMissing, Walking, In
<1>2. ~node[call.dir].lost => Resolve(Image, call.path).status = "ENOENT"
  BY <1>1, MissingResolve
<1> QED
  BY <1>1, <1>2, NoentLookup

LEMMA WalkDeadEndLookup ==
  ASSUME IInv, LookupInv, IsImage(Image), WalkDeadEnd, Image' = Image
  PROVE  Lookups'
<1> DEFINE at == IF Files = <<>> THEN call.dir ELSE Target
<1>1. call # Idle /\ Walking /\ (Noent(at) \/ UNCHANGED <<node, call>>)
  BY DEF WalkDeadEnd, Walking, In
<1>2. CASE UNCHANGED <<node, call>>
  BY <1>2 DEF LookupInv, Lookups, OnWay, Answered
<1>3. CASE Noent(at)
  <2>1. ~node[at].lost => Resolve(Image, call.path).status = "ENOENT"
    <3>1. CASE Files = <<>>
      <4>1. Match = 0 /\ at = call.dir
        BY <3>1, EmptyMatch
      <4> QED
        BY <1>1, <4>1, MissingResolve
    <3>2. CASE Files # <<>>
      <4>1. Match # 0 /\ Target # NULL /\ ~LastName /\ node[Target].type # "dir" /\ at = Target
        BY <3>2 DEF WalkDeadEnd
      <4> QED
        BY <1>1, <4>1, DeadEndResolve
    <3> QED
      BY <3>1, <3>2
  <2>2. PICK a : a = at
    OBVIOUS
  <2>3. Noent(a) /\ (~node[a].lost => Resolve(Image, call.path).status = "ENOENT")
    BY <1>3, <2>1, <2>2 DEF Noent, Finish
  <2> QED
    BY <1>1, <2>3, NoentLookup
<1> QED
  BY <1>1, <1>2, <1>3

LEMMA FsFetchLookup ==
  ASSUME IInv, LookupInv, IsImage(Image), FsFetch, Grown, Image' = Image
  PROVE  Lookups'
<1>1. call # Idle /\ call.pc = "walk" /\ call' = call
  BY DEF FsFetch, Walking, In
<1>2. PICK k : At(call, node, Image, k)
  BY <1>1 DEF LookupInv, OnWay
<1>3. At(call, node', Image', k)
  BY <1>2, AtKept DEF IInv, NodeInv
<1> QED
  BY <1>1, <1>3 DEF Lookups, OnWay, Answered

LEMMA WalkIntoLookup ==
  ASSUME IInv, LookupInv, IsImage(Image), WalkInto, Image' = Image
  PROVE  Lookups'
<1> DEFINE names == call.path.names
           rest == call.rest
           m == Len(names)
<1>1. /\ call # Idle /\ In("walk") /\ Walking /\ node' = node /\ Match # 0 /\ Target # NULL /\ ~LastName
      /\ node[Target].type = "dir" /\ call.pc = "walk" /\ Head(call.rest) \notin Long
  BY DEF WalkInto, Walking, In
<1>2. /\ call \in CallT /\ names \in Seq(NameT) /\ m \in Nat /\ rest \in Seq(NameT) /\ Len(rest) \in Nat
  BY <1>1, NamesTyped
<1>3. PICK k : At(call, node, Image, k)
  BY <1>1 DEF LookupInv, OnWay
<1>4. /\ k + 1 \in 1 .. m /\ k + 1 # m
      /\ Target \in DOMAIN node /\ Way(names, k + 1, Target)
  BY <1>1, <1>3, AtNext DEF LookupInv
<1>5. /\ node[call.dir].type = "dir" /\ call.dir \in DOMAIN node /\ k \in Nat /\ k < m
      /\ Len(rest) = m - k /\ \A j \in 1 .. Len(rest) : rest[j] = names[k + j]
  BY <1>3 DEF At
<1>6. ASSUME ~node[Target].lost PROVE Copy(Target) /\ Walk(Image, names)[k + 1] = Found(node[Target].inode)
  <2>1. /\ Copy(Target) /\ node[Target].inode = Files[Match].inode /\ ~node[call.dir].lost
        /\ Walk(Image, names)[k + 1] = Below(Image, node[call.dir].inode, Head(call.rest))
    BY <1>1, <1>3, <1>6, AtNext DEF LookupInv
  <2>2. Copy(call.dir)
    BY <1>3, <2>1 DEF At, Copy
  <2> QED
    BY <1>1, <1>5, <2>1, <2>2, MatchBelow
<1>7. call'.pc = "walk" /\ call'.dir = Target /\ call'.rest = Tail(rest) /\ call'.path = call.path
  <2>1. call' = [call EXCEPT !.dir = Target, !.rest = Tail(call.rest)]
    BY <1>2 DEF WalkInto, CallT
  <2> QED
    BY <1>1, <1>2, <2>1 DEF CallT
<1> HIDE DEF names, rest
<1>8. /\ Len(Tail(rest)) = m - (k + 1) /\ k + 1 \in Nat /\ k + 1 < m
      /\ \A j \in 1 .. Len(Tail(rest)) : Tail(rest)[j] = names[k + 1 + j]
  <2>1. rest # <<>> /\ m - k \in Nat /\ m - k # 0
    BY <1>2, <1>5
  <2>2. Len(Tail(rest)) = Len(rest) - 1 /\ \A j \in 1 .. Len(Tail(rest)) : Tail(rest)[j] = rest[j + 1]
    BY <1>2, <2>1, HeadTailProperties, Zenon
  <2>3. ASSUME NEW j \in 1 .. Len(Tail(rest)) PROVE Tail(rest)[j] = names[k + 1 + j]
    <3>1. j \in Nat /\ j + 1 \in 1 .. Len(rest) /\ k + 1 + j = k + (j + 1)
      BY <1>2, <1>5, <2>2
    <3> QED
      BY <1>5, <2>2, <3>1
  <2> QED
    BY <1>2, <1>4, <1>5, <2>2, <2>3
<1>9. At(call', node', Image', k + 1)
  BY <1>1, <1>4, <1>6, <1>7, <1>8 DEF At, Way, Copy, names, m
<1> QED
  BY <1>7, <1>9 DEF Lookups, OnWay, Answered

LEMMA WalkFoundLookup ==
  ASSUME IInv, LookupInv, IsImage(Image), WalkFound, Image' = Image
  PROVE  Lookups'
<1> DEFINE names == call.path.names
           w == Walk(Image, names)[Len(names)]
<1>1. /\ call # Idle /\ In("walk") /\ Walking /\ node' = node /\ Match # 0 /\ Target # NULL /\ LastName
      /\ call.pc = "walk" /\ Head(call.rest) \notin Long
  BY DEF WalkFound, Walking, In
<1>2. PICK k : At(call, node, Image, k)
  BY <1>1 DEF LookupInv, OnWay
<1>3. k + 1 = Len(names) /\ Target \in DOMAIN node /\ Way(names, Len(names), Target)
  BY <1>1, <1>2, AtNext DEF LookupInv
<1>4. node[call.dir].type = "dir" /\ call.dir \in DOMAIN node
  BY <1>2 DEF At
<1>5. ASSUME ~node[Target].lost
      PROVE  /\ Copy(Target)
             /\ Resolve(Image, call.path) = IF call.path.slash /\ node[Target].type # "dir" THEN Error("ENOTDIR")
                                            ELSE Found(node[Target].inode)
  <2>1. /\ Copy(Target) /\ node[Target].inode = Files[Match].inode /\ ~node[call.dir].lost
        /\ Walk(Image, names)[k + 1] = Below(Image, node[call.dir].inode, Head(call.rest))
    BY <1>1, <1>2, <1>5, AtNext DEF LookupInv
  <2>2. Copy(call.dir)
    BY <1>2, <2>1 DEF At, Copy
  <2>3. w = Found(node[Target].inode)
    BY <1>1, <1>3, <1>4, <2>1, <2>2, MatchBelow
  <2>4. Image[node[Target].inode].type = node[Target].type
    BY <2>1 DEF Copy, CopyIn
  <2> QED
    BY <2>1, <2>3, <2>4 DEF Resolve, Found
<1>6. CASE call.path.slash /\ node[Target].type # "dir"
  <2>1. Finish("ENOTDIR", call.target, Target)
    BY <1>6 DEF WalkFound
  <2>2. ~node[Target].lost => Resolve(Image, call.path).status = "ENOTDIR"
    BY <1>5, <1>6 DEF Error
  <2>3. PICK at : at = Target
    OBVIOUS
  <2>4. Finish("ENOTDIR", call.target, at) /\ (~node[at].lost => Resolve(Image, call.path).status = "ENOTDIR")
    BY <2>1, <2>2, <2>3 DEF Finish
  <2> QED
    BY <1>1, <2>4, ErrorLookup
<1>7. CASE ~(call.path.slash /\ node[Target].type # "dir")
  <2>1. CASE UNCHANGED call
    BY <1>1, <2>1 DEF LookupInv, Lookups, OnWay, Answered
  <2>2. CASE Finish(IF call.create THEN "EEXIST" ELSE "SUCCESS",
                    IF call.target = NULL THEN NULL ELSE Target, Target)
    <3> DEFINE status == IF call.create THEN "EEXIST" ELSE "SUCCESS"
               target == IF call.target = NULL THEN NULL ELSE Target
    <3>1. PICK at, s, g : at = Target /\ s = status /\ g = target
      OBVIOUS
    <3>2. Finish(s, g, at)
      BY <2>2, <3>1 DEF Finish
    <3>3. /\ call'.pc = "back" /\ call'.path = call.path /\ call'.status = s /\ call'.op = call.op
          /\ call'.target = g /\ call'.lost = node[at].lost
      BY <1>1, <3>2, FinishIs
    <3>4. call.op \in {"exec", "open"} => call'.status = "SUCCESS"
      BY <1>1, <3>1, <3>3, OpenNotCreate
    <3>5. (call'.target # NULL => call'.target = Target) /\ call'.lost = node[Target].lost
      BY <3>1, <3>3
    <3>6. ~node[Target].lost => Copy(Target) /\ Resolve(Image, call.path) = Found(node[Target].inode)
      BY <1>5, <1>7
    <3> HIDE DEF status, target
    <3>7. call.op \in {"exec", "open"} => Answer(call', node', Image')
      BY <1>1, <1>3, <3>3, <3>4, <3>5, <3>6 DEF Answer, Copy, Way
    <3> QED
      BY <3>3, <3>7 DEF Lookups, OnWay, Answered
  <2> QED
    BY <1>7, <2>1, <2>2 DEF WalkFound
<1> QED
  BY <1>6, <1>7

\* Steps that begin or end a call, or do nothing.
LEMMA OtherLookup ==
  ASSUME IInv, LookupInv, call' = Idle \/ call'.pc = "ffind" \/ UNCHANGED <<call, node>>, Image' = Image
  PROVE  Lookups'
BY DEF LookupInv, Lookups, OnWay, Answered

LEMMA LookupStep ==
  ASSUME IInv, Cursor, LookupInv, [Next]_vars
  PROVE  Lookups'
<1>1. CASE call' = Idle
  BY <1>1 DEF Lookups, OnWay, Answered
<1>2. CASE MountRoot
  <2>1. call' = Idle
    BY <1>2, VfsStep, MountCopied
  <2> QED
    BY <1>1, <2>1
<1>3. CASE UNCHANGED registry /\ node # <<>> /\ IsImage(Image) /\ Image' = Image /\ Grown
  <2>1. CASE Ffind
    BY <1>3, <2>1, FoundRootLookup, StartWalkLookup, WalkTooLongLookup, WalkMissingLookup,
       WalkDeadEndLookup, FsFetchLookup, WalkIntoLookup, WalkFoundLookup DEF Ffind
  <2>2. CASE Create
    <3>1. call # Idle /\ call' = [call EXCEPT !.pc = "ffind", !.create = TRUE, !.pointer = TRUE, !.target = Garbage]
      BY <2>2 DEF Create, Creating, In
    <3>2. call \in CallT
      BY <3>1, NamesTyped
    <3>3. call'.pc = "ffind"
      BY <3>1, <3>2 DEF CallT
    <3> QED
      BY <1>3, <3>3, OtherLookup
  <2>3. CASE CreateDone \/ ExecDone \/ OpenDone
    BY <1>1, <2>3 DEF CreateDone, ExecDone, OpenDone
  <2>4. CASE MkdirDev \/ Mknod \/ ProcStart \/ \E path \in Paths : SysOpen(path)
    <3>1. call'.pc = "ffind"
      BY <2>4 DEF MkdirDev, Mknod, ProcStart, SysOpen, TryMknod, BeginCreate, Begin
    <3> QED
      BY <1>3, <3>1, OtherLookup
  <2>5. CASE Halted \/ UNCHANGED vars \/ \E fd \in 0 .. MaxFds : SysRead(fd) \/ SysWrite(fd)
    <3>1. UNCHANGED <<call, node>>
      BY <2>5 DEF Halted, vars, SysRead, SysWrite
    <3> QED
      BY <1>3, <3>1, OtherLookup
  <2>6. CASE BlockdevInit \/ RamdiskInit \/ AtaInit \/ AtaDisk \/ AtaDone
    <3>1. UNCHANGED <<call, node>>
      BY <2>6 DEF BlockdevInit, RamdiskInit, AtaInit, AtaDisk, AtaDone
    <3> QED
      BY <1>3, <3>1, OtherLookup
  <2> QED
    BY <1>2, <2>1, <2>2, <2>3, <2>4, <2>5, <2>6 DEF Next, Boot
<1> QED
  BY <1>1, <1>2, <1>3, Shape

-----------------------------------------------------------------------------
(* What the process gets *)

LEMMA DescriptorsKept ==
  ASSUME Nodes, Grown, Descriptors, UNCHANGED <<fd_counter, fd_list>>
  PROVE  Descriptors'
<1>1. \A i \in DOMAIN fd_list :
        Way(fd_list[i].path.names, Len(fd_list[i].path.names), fd_list[i].file)
          => WayIn(node', fd_list[i].path.names, Len(fd_list[i].path.names), fd_list[i].file)
  BY WayKept
<1> QED
  BY <1>1 DEF Descriptors, Way

\* A new descriptor.
LEMMA NewFdDescriptors ==
  ASSUME IInv, Descriptors, call # Idle, node' = node, NEW file \in Nat \cup {NULL}, NEW bd \in Nat,
         NewFd(file, bd),
         IF bd = 0 THEN Way(call.path.names, Len(call.path.names), file) ELSE file = NULL
  PROVE  /\ Descriptors' /\ Len(fd_list') = Len(fd_list) + 1 /\ fd_list'[Len(fd_list) + 1].file = file
         /\ fd_counter = Len(fd_list) /\ Len(fd_list) \in Nat
<1> DEFINE e == [fd |-> fd_counter, file |-> file, bd |-> bd, path |-> call.path]
           n == Len(fd_list) + 1
<1>1. fd_counter = Len(fd_list) /\ fd_list \in Seq(FdT) /\ Len(fd_list) \in Nat
  BY DEF Descriptors
<1>2. call.path \in PathT
  BY NamesTyped DEF CallT
<1>3. e \in FdT
  BY <1>1, <1>2 DEF FdT
<1>4. fd_list' = Append(fd_list, e) /\ fd_counter' = fd_counter + 1
  BY DEF NewFd
<1>5. e.fd = n - 1 /\ e.file = file /\ e.bd = bd /\ e.path = call.path
  BY <1>1
<1> HIDE DEF e
<1>6. /\ fd_list' \in Seq(FdT) /\ Len(fd_list') = n /\ fd_list'[n] = e
      /\ \A i \in DOMAIN fd_list' : i = n \/ (i \in DOMAIN fd_list /\ fd_list'[i] = fd_list[i])
  BY <1>1, <1>3, <1>4
<1>7. ASSUME NEW i \in DOMAIN fd_list'
      PROVE  /\ fd_list'[i].fd = i - 1
             /\ IF fd_list'[i].bd = 0
                THEN WayIn(node', fd_list'[i].path.names, Len(fd_list'[i].path.names), fd_list'[i].file)
                ELSE fd_list'[i].file = NULL
  <2>1. CASE i = n
    BY <1>5, <1>6, <2>1 DEF Way
  <2>2. CASE i \in DOMAIN fd_list /\ fd_list'[i] = fd_list[i]
    BY <2>2 DEF Descriptors, Way
  <2> QED
    BY <1>6, <2>1, <2>2
<1>8. Descriptors'
  BY <1>1, <1>4, <1>6, <1>7 DEF Descriptors, Way
<1> QED
  BY <1>1, <1>5, <1>6, <1>8

\* What vfs_open() finds at the end of a lookup.
LEMMA OpenTarget ==
  ASSUME IInv, LookupInv, Opening, IsImage(Image), node # <<>>, call.status = "SUCCESS", call.target # NULL
  PROVE  /\ call.target \in DOMAIN node /\ call.target \in Nat
         /\ node[call.target].type \in Types
         /\ ~call.lost =>
              /\ node[call.target].type = Image[node[call.target].inode].type
              /\ ~OneCharacter(call.path) => Resolve(Image, call.path) = Found(node[call.target].inode)
         /\ node[call.target].type # "dir" => Way(call.path.names, Len(call.path.names), call.target)
<1>1. Answer(call, node, Image) /\ call # Idle
  BY DEF LookupInv, Answered, Opening, In
<1>2. /\ call.target \in DOMAIN node
      /\ WayIn(node, call.path.names, Len(call.path.names), call.target) \/ call.target = Root
      /\ ~call.lost =>
           /\ CopyIn(node, Image, call.target)
           /\ OneCharacter(call.path) \/ Resolve(Image, call.path) = Found(node[call.target].inode)
  BY <1>1 DEF Answer
<1>3. node[Root].type = "dir"
  BY DEF LookupInv, Copied
<1>4. ~call.lost => node[call.target].type = Image[node[call.target].inode].type
  BY <1>2 DEF CopyIn
<1>5. call.target \in Nat /\ node[call.target] \in FileT
  BY <1>2, FilesTyped DEF IInv, NodeInv
<1>6. node[call.target].type \in Types
  BY <1>5 DEF FileT
<1> QED
  BY <1>2, <1>3, <1>4, <1>5, <1>6 DEF Way

LEMMA OpenDoneDescriptors ==
  ASSUME IInv, LookupInv, OpenDone, IsImage(Image), node # <<>>
  PROVE  Descriptors'
<1>1. Opening /\ call # Idle /\ node' = node /\ Descriptors /\ Nodes
  BY DEF OpenDone, Opening, In, LookupInv, IInv, NodeInv
<1>2. CASE UNCHANGED <<fd_counter, fd_list>>
  BY <1>1, <1>2, SameGrown, DescriptorsKept
<1>3. CASE /\ call.status = "SUCCESS" /\ call.target # NULL /\ node[call.target].type = "reg"
           /\ NewFd(call.target, 0)
  <2>1. call.target \in Nat /\ Way(call.path.names, Len(call.path.names), call.target)
    BY <1>1, <1>3, OpenTarget
  <2> QED
    BY <1>1, <1>3, <2>1, NewFdDescriptors
<1>4. CASE \E i \in DOMAIN bd_list : NewFd(NULL, i)
  <2>1. PICK i \in DOMAIN bd_list : NewFd(NULL, i)
    BY <1>4
  <2>2. i \in Nat /\ i # 0
    <3>1. bd_list \in Seq(Devices)
      BY DEF IInv, RegInv, Registry
    <3> QED
      BY <3>1
  <2> QED
    BY <1>1, <2>1, <2>2, NewFdDescriptors
<1> QED
  BY <1>2, <1>3, <1>4 DEF OpenDone, OpenFailed, process

LEMMA DescriptorsStep ==
  ASSUME IInv, Cursor, LookupInv, [Next]_vars
  PROVE  Descriptors'
<1>1. Descriptors /\ Nodes
  BY DEF LookupInv, IInv, NodeInv
<1>2. CASE node = <<>> /\ node' = <<>> /\ UNCHANGED process
  <2>1. Grown /\ UNCHANGED <<fd_counter, fd_list>>
    BY <1>1, <1>2, SameGrown DEF process
  <2> QED
    BY <1>1, <2>1, DescriptorsKept
<1>3. CASE MountRoot
  <2>1. node = <<>> /\ UNCHANGED <<fd_counter, fd_list>>
    BY <1>3, VfsStep, MountCopied DEF process
  <2>2. DOMAIN node = {}
    BY <2>1
  <2>3. Grown
    BY <2>2 DEF Grown
  <2> QED
    BY <1>1, <2>1, <2>3, DescriptorsKept
<1>4. CASE UNCHANGED registry /\ node # <<>> /\ IsImage(Image) /\ Image' = Image /\ Grown
  <2>1. CASE OpenDone
    BY <1>4, <2>1, OpenDoneDescriptors
  <2>2. CASE UNCHANGED <<fd_counter, fd_list>>
    BY <1>1, <1>4, <2>2, DescriptorsKept
  <2>3. OpenDone \/ UNCHANGED <<fd_counter, fd_list>>
    BY DEF Next, Boot, Ffind, BlockdevInit, RamdiskInit, AtaInit, AtaDisk, AtaDone, MountRoot, MkdirDev,
           Mknod, ProcStart, FoundRoot, StartWalk, WalkTooLong, WalkMissing, WalkDeadEnd, FsFetch, WalkInto,
           WalkFound, Create, CreateDone, ExecDone, Halted, SysOpen, SysRead, SysWrite, vars, process
  <2> QED
    BY <2>1, <2>2, <2>3
<1> QED
  BY <1>2, <1>3, <1>4, Shape

LEMMA LookupInit ==
  ASSUME Init
  PROVE  LookupInv
<1>1. node = <<>> /\ call = Idle /\ fd_counter = 0 /\ fd_list = <<>>
  BY DEF Init
<1>2. DOMAIN node = {} /\ DOMAIN fd_list = {} /\ fd_list \in Seq(FdT) /\ Len(fd_list) = 0
  BY <1>1
<1> QED
  BY <1>1, <1>2 DEF LookupInv, Copied, OnWay, Answered, Descriptors

\* The inductive invariant of lookups: the tree copies the disk as far as that
\* could be read, a lookup in progress stands where its names lead, and so do
\* open files.
THEOREM LookupInvariant == Spec => []LookupInv
<1>1. Init => LookupInv
  BY LookupInit
<1>2. IInv /\ Cursor /\ LookupInv /\ [Next]_vars => LookupInv'
  <2> SUFFICES ASSUME IInv, Cursor, LookupInv, [Next]_vars PROVE LookupInv'
    OBVIOUS
  <2>1. Copied' /\ Lookups' /\ Descriptors'
    BY CopiedStep, LookupStep, DescriptorsStep DEF LookupInv
  <2> QED
    BY <2>1 DEF LookupInv, Lookups
<1> QED
  BY <1>1, <1>2, VfsInvariant, PTL DEF Spec

LEMMA SameWay ==
  ASSUME IInv, LookupInv
  PROVE  SameFile
<1> SUFFICES ASSUME NEW i \in DOMAIN fd_list, NEW j \in DOMAIN fd_list, fd_list[i].path = fd_list[j].path,
                    fd_list[i].bd = 0, fd_list[j].bd = 0
             PROVE  fd_list[i].file = fd_list[j].file
  BY DEF SameFile
<1> DEFINE names == fd_list[i].path.names
<1>1. Way(names, Len(names), fd_list[i].file) /\ Way(names, Len(names), fd_list[j].file)
  BY DEF LookupInv, Descriptors
<1>2. Len(names) \in Nat
  <2>1. fd_list[i] \in FdT
    BY DEF LookupInv, Descriptors
  <2>2. names \in Seq(NameT)
    BY <2>1 DEF FdT, PathT
  <2> QED
    BY <2>2
<1> QED
  BY <1>1, <1>2, WayOnce DEF IInv, NodeInv

\* For any file systems and any calls: descriptors that were opened by the same
\* path are of the same file_t, whatever was looked up in between.
THEOREM OneFileEach == Spec => []SameFile
<1>1. IInv /\ LookupInv => SameFile
  BY SameWay
<1> QED
  BY <1>1, VfsInvariant, LookupInvariant, PTL

-----------------------------------------------------------------------------
(* open() returns what is on the disk *)

Results == (node = <<>> => result = Idle) /\ OpenCorrect

\* proc_get_fd(), written out.
Selected(fds, fd) ==
  LET I == {i \in 1 .. Len(fds) : fds[i].fd = fd} IN IF I # {} THEN Min(I) ELSE 0

\* The file of a descriptor is in the tree.
LEMMA FdFile ==
  ASSUME IInv, LookupInv, NEW fd, GetFd(fd) # 0
  PROVE  GetFd(fd) \in DOMAIN fd_list
         /\ (fd_list[GetFd(fd)].file # NULL => fd_list[GetFd(fd)].file \in DOMAIN node)
<1> DEFINE I == {i \in 1 .. Len(fd_list) : fd_list[i].fd = fd}
<1>1. GetFd(fd) = IF I # {} THEN Min(I) ELSE 0
  BY Zenon DEF GetFd, SelectInSeq
<1>2. I # {} /\ I \in SUBSET Nat
  BY <1>1
<1>3. GetFd(fd) \in I
  <2> HIDE DEF I
  <2> QED
    BY <1>1, <1>2, LeastNat
<1>4. GetFd(fd) \in DOMAIN fd_list
  <2>1. fd_list \in Seq(FdT)
    BY DEF LookupInv, Descriptors
  <2> QED
    BY <1>3, <2>1
<1> DEFINE i == GetFd(fd)
<1> HIDE DEF i
<1>5. i \in DOMAIN fd_list
  BY <1>4 DEF i
<1>6. CASE fd_list[i].bd = 0
  <2>1. WayIn(node, fd_list[i].path.names, Len(fd_list[i].path.names), fd_list[i].file)
    BY <1>5, <1>6 DEF LookupInv, Descriptors, Way
  <2>2. Len(fd_list[i].path.names) \in Nat
    <3>1. fd_list[i] \in FdT
      BY <1>5 DEF LookupInv, Descriptors
    <3>2. fd_list[i].path.names \in Seq(NameT)
      BY <3>1 DEF FdT, PathT
    <3> QED
      BY <3>2
  <2>3. fd_list[i].file \in DOMAIN node
    BY <2>1, <2>2 DEF WayIn
  <2> QED
    BY <1>4, <2>3 DEF i
<1>7. CASE fd_list[i].bd # 0
  BY <1>4, <1>5, <1>7 DEF LookupInv, Descriptors, i
<1> QED
  BY <1>6, <1>7

LEMMA OpenCorrectKept ==
  ASSUME IInv, LookupInv, OpenCorrect, Grown, Image' = Image, UNCHANGED <<fd_list, result>>
  PROVE  OpenCorrect'
<1>0. GetFd(result.fd)' = GetFd(result.fd)
  <2>1. GetFd(result.fd)' = Selected(fd_list', result'.fd)
    BY Zenon DEF GetFd, SelectInSeq, Selected
  <2>2. GetFd(result.fd) = Selected(fd_list, result.fd)
    BY Zenon DEF GetFd, SelectInSeq, Selected
  <2> QED
    BY <2>1, <2>2
<1> SUFFICES ASSUME result # Idle, result.op = "open", ~result.lost, ~OneCharacter(result.path),
                    ~Made(Image, result.path)
             PROVE  /\ result.status \in Outcomes(Image, result.path)
                    /\ result.status = "SUCCESS" =>
                         /\ GetFd(result.fd) # 0
                         /\ \/ fd_list[GetFd(result.fd)].file = NULL
                            \/ node'[fd_list[GetFd(result.fd)].file].inode = Resolve(Image, result.path).inode
  BY <1>0 DEF OpenCorrect
<1>1. /\ result.status \in Outcomes(Image, result.path)
      /\ result.status = "SUCCESS" =>
           /\ GetFd(result.fd) # 0
           /\ \/ fd_list[GetFd(result.fd)].file = NULL
              \/ node[fd_list[GetFd(result.fd)].file].inode = Resolve(Image, result.path).inode
  BY DEF OpenCorrect
<1>2. ASSUME GetFd(result.fd) # 0, fd_list[GetFd(result.fd)].file # NULL
      PROVE  node'[fd_list[GetFd(result.fd)].file].inode = node[fd_list[GetFd(result.fd)].file].inode
  <2>1. fd_list[GetFd(result.fd)].file \in DOMAIN node
    BY <1>2, FdFile
  <2> QED
    BY <2>1 DEF Grown
<1> QED
  BY <1>1, <1>2

\* The result after proc_new_fd(): the last descriptor has the number returned.
LEMMA NewFdResult ==
  ASSUME NEW fds \in Seq(FdT), \A i \in DOMAIN fds : fds[i].fd = i - 1, NEW n \in Nat, Len(fds) = n + 1
  PROVE  Selected(fds, n) = n + 1
<1> DEFINE I == {i \in 1 .. Len(fds) : fds[i].fd = n}
<1>1. Selected(fds, n) = IF I # {} THEN Min(I) ELSE 0
  BY Zenon DEF Selected
<1>2. \A i \in 1 .. Len(fds) : fds[i].fd = i - 1
  OBVIOUS
<1>3. n + 1 \in I /\ I \in SUBSET Nat /\ \A i \in I : i = n + 1
  BY <1>2
<1> HIDE DEF I
<1>4. Min(I) \in I
  BY <1>3, LeastNat
<1> QED
  BY <1>1, <1>3, <1>4

LEMMA OpenFailedCorrect ==
  ASSUME NEW status, status # "SUCCESS", OpenFailed(status), Image' = Image,
         ~OneCharacter(call.path) /\ ~call.lost => status \in Outcomes(Image, call.path)
  PROVE  OpenCorrect'
<1>1. result' = [op |-> "open", path |-> call.path, status |-> status, lost |-> call.lost]
  BY DEF OpenFailed
<1>2. result'.path = call.path /\ result'.status = status /\ result'.lost = call.lost
  BY <1>1
<1> QED
  BY <1>2 DEF OpenCorrect

LEMMA NewFdCorrect ==
  ASSUME IInv, Descriptors, call # Idle, node' = node, NEW file \in Nat \cup {NULL}, NEW bd \in Nat,
         NewFd(file, bd), Image' = Image,
         IF bd = 0 THEN Way(call.path.names, Len(call.path.names), file) ELSE file = NULL,
         ~OneCharacter(call.path) /\ ~call.lost =>
           /\ "SUCCESS" \in Outcomes(Image, call.path)
           /\ file # NULL => node[file].inode = Resolve(Image, call.path).inode
  PROVE  OpenCorrect'
<1> DEFINE n == Len(fd_list)
<1>1. /\ Descriptors' /\ Len(fd_list') = n + 1 /\ fd_list'[n + 1].file = file
      /\ fd_counter = n /\ n \in Nat
  BY NewFdDescriptors
<1>2. result' = [op |-> "open", path |-> call.path, status |-> "SUCCESS", fd |-> fd_counter,
                 lost |-> call.lost]
  BY DEF NewFd
<1>3. result'.path = call.path /\ result'.status = "SUCCESS" /\ result'.fd = n /\ result'.lost = call.lost
  BY <1>1, <1>2
<1> HIDE DEF n
<1>4. Selected(fd_list', n) = n + 1
  <2>1. fd_list' \in Seq(FdT) /\ \A i \in DOMAIN fd_list' : fd_list'[i].fd = i - 1
    BY <1>1 DEF Descriptors
  <2> QED
    BY <1>1, <2>1, NewFdResult
<1>5. GetFd(result.fd)' = n + 1
  <2>1. GetFd(result.fd)' = Selected(fd_list', result'.fd)
    BY Zenon DEF GetFd, SelectInSeq, Selected
  <2> QED
    BY <1>3, <1>4, <2>1
<1>6. n + 1 # 0
  BY <1>1
<1> QED
  BY <1>1, <1>3, <1>5, <1>6 DEF OpenCorrect

LEMMA OpenDoneCorrect ==
  ASSUME IInv, LookupInv, OpenCorrect, OpenDone, IsImage(Image), node # <<>>, Image' = Image
  PROVE  OpenCorrect'
<1> DEFINE t == call.target
           r == Resolve(Image, call.path)
<1>1. Opening /\ call # Idle /\ node' = node /\ Descriptors /\ Nodes
  BY DEF OpenDone, Opening, In, LookupInv, IInv, NodeInv
<1>2. CASE UNCHANGED process
  <2>1. Grown /\ UNCHANGED <<fd_list, result>>
    BY <1>1, <1>2, SameGrown DEF process
  <2> QED
    BY <2>1, OpenCorrectKept
<1>3. CASE call.status # "SUCCESS" /\ OpenFailed(call.status)
  <2>1. ~call.lost => r.status = call.status
    BY <1>1, <1>3 DEF LookupInv, Answered, Answer, Opening, In
  <2>2. ~call.lost => call.status \in Outcomes(Image, call.path)
    BY <1>3, <2>1 DEF Outcomes
  <2> QED
    BY <1>3, <2>2, OpenFailedCorrect
<1>4. CASE call.status = "SUCCESS" /\ t # NULL
  <2>1. /\ t \in DOMAIN node /\ t \in Nat /\ node[t].type \in Types
        /\ ~call.lost => /\ node[t].type = Image[node[t].inode].type
                         /\ ~OneCharacter(call.path) => r = Found(node[t].inode)
        /\ node[t].type # "dir" => Way(call.path.names, Len(call.path.names), t)
    BY <1>1, <1>4, OpenTarget
  <2>2. ~OneCharacter(call.path) /\ ~call.lost =>
          /\ r.inode = node[t].inode
          /\ Outcomes(Image, call.path) =
               CASE node[t].type = "reg" -> {"SUCCESS"}
                 [] node[t].type = "block" -> {"SUCCESS", "ENOENT"}
                 [] node[t].type = "dir" -> {"EISDIR"}
                 [] OTHER -> {"ENOSYS"}
    BY <2>1 DEF Outcomes, Found
  <2> HIDE DEF r
  <2>3. CASE node[t].type = "reg" /\ NewFd(t, 0)
    <3>1. ~OneCharacter(call.path) /\ ~call.lost =>
            /\ "SUCCESS" \in Outcomes(Image, call.path)
            /\ t # NULL => node[t].inode = Resolve(Image, call.path).inode
      BY <2>2, <2>3 DEF r
    <3>2. Way(call.path.names, Len(call.path.names), t)
      BY <2>1, <2>3
    <3> QED
      BY <1>1, <2>1, <2>3, <3>1, <3>2, NewFdCorrect
  <2>4. CASE node[t].type = "block" /\ OpenFailed("ENOENT")
    <3>1. ~OneCharacter(call.path) /\ ~call.lost => "ENOENT" \in Outcomes(Image, call.path)
      BY <2>2, <2>4
    <3> QED
      BY <2>4, <3>1, OpenFailedCorrect
  <2>5. CASE node[t].type = "block" /\ \E i \in DOMAIN bd_list : NewFd(NULL, i)
    <3>1. PICK i \in DOMAIN bd_list : NewFd(NULL, i)
      BY <2>5
    <3>2. i \in Nat /\ i # 0
      <4>1. bd_list \in Seq(Devices)
        BY DEF IInv, RegInv, Registry
      <4> QED
        BY <4>1
    <3>3. ~OneCharacter(call.path) /\ ~call.lost => "SUCCESS" \in Outcomes(Image, call.path)
      BY <2>2, <2>5
    <3> QED
      BY <1>1, <3>1, <3>2, <3>3, NewFdCorrect
  <2>6. CASE node[t].type = "dir" /\ OpenFailed("EISDIR")
    <3>1. ~OneCharacter(call.path) /\ ~call.lost => "EISDIR" \in Outcomes(Image, call.path)
      BY <2>2, <2>6
    <3> QED
      BY <2>6, <3>1, OpenFailedCorrect
  <2>7. CASE node[t].type \notin {"reg", "block", "dir"} /\ OpenFailed("ENOSYS")
    <3>1. ~OneCharacter(call.path) /\ ~call.lost => "ENOSYS" \in Outcomes(Image, call.path)
      BY <2>2, <2>7
    <3> QED
      BY <2>7, <3>1, OpenFailedCorrect
  <2> QED
    BY <1>4, <2>1, <2>3, <2>4, <2>5, <2>6, <2>7 DEF OpenDone, Types
<1> QED
  BY <1>2, <1>3, <1>4 DEF OpenDone

LEMMA ResultsStep ==
  ASSUME IInv, Cursor, LookupInv, Results, [Next]_vars
  PROVE  Results'
<1>1. CASE result' = Idle
  BY <1>1 DEF Results, OpenCorrect
<1>2. CASE node = <<>> /\ UNCHANGED process
  BY <1>1, <1>2 DEF Results, process
<1>3. CASE UNCHANGED registry /\ node # <<>> /\ IsImage(Image) /\ Image' = Image /\ Grown
  <2>1. node' # <<>>
    <3>1. Root \in DOMAIN node'
      BY <1>3, RootThere DEF Grown, IInv, NodeInv
    <3>2. DOMAIN <<>> = {}
      OBVIOUS
    <3> QED
      BY <3>1, <3>2, Zenon
  <2>2. OpenCorrect'
    <3>1. CASE OpenDone
      BY <1>3, <3>1, OpenDoneCorrect DEF Results
    <3>2. CASE UNCHANGED <<fd_list, result>>
      BY <1>3, <3>2, OpenCorrectKept DEF Results
    <3>3. CASE \E path \in Paths : SysOpen(path)
      BY <1>1, <3>3 DEF SysOpen, Results
    <3>4. CASE \E fd \in 0 .. MaxFds : SysRead(fd) \/ SysWrite(fd)
      <4>1. PICK fd \in 0 .. MaxFds : SysRead(fd) \/ SysWrite(fd)
        BY <3>4
      <4>2. CASE UNCHANGED result
        BY <3>2, <4>1, <4>2 DEF SysRead, SysWrite
      <4>3. CASE result' # result
        <5>1. \E op \in {"read", "write"} : \E statuses, transfers : Returned(op, statuses, transfers)
          BY <4>1, Zenon DEF SysRead, SysWrite
        <5>2. \E op \in {"read", "write"} : \E status : result' = [op |-> op, status |-> status]
          BY <4>3, <5>1, Zenon DEF Returned
        <5>3. result'.op \in {"read", "write"}
          BY <5>2
        <5> QED
          BY <5>3 DEF OpenCorrect
      <4> QED
        BY <4>2, <4>3
    <3>5. \/ OpenDone \/ UNCHANGED <<fd_list, result>> \/ (\E path \in Paths : SysOpen(path))
          \/ (\E fd \in 0 .. MaxFds : SysRead(fd) \/ SysWrite(fd))
      BY DEF Next, Boot, Ffind, BlockdevInit, RamdiskInit, AtaInit, AtaDisk, AtaDone, MountRoot, MkdirDev,
             Mknod, ProcStart, FoundRoot, StartWalk, WalkTooLong, WalkMissing, WalkDeadEnd, FsFetch, WalkInto,
             WalkFound, Create, CreateDone, ExecDone, Halted, vars, process
    <3> QED
      BY <3>1, <3>2, <3>3, <3>4, <3>5
  <2> QED
    BY <2>1, <2>2 DEF Results
<1>4. CASE MountRoot
  <2>1. node = <<>> /\ UNCHANGED process
    BY <1>4, VfsStep, MountCopied
  <2> QED
    BY <1>2, <2>1
<1> QED
  BY <1>2, <1>3, <1>4, Shape

\* For any file systems, any paths and any history of lookups and of reads that
\* failed: unless the lookup came by a file_t that could not be read, or to /dev
\* which is not on the disk, open() reports what the path names on the disk, and
\* the descriptor it returns is of that file.
THEOREM OpenRight == Spec => []OpenCorrect
<1>1. Init => Results
  BY DEF Init, Results, OpenCorrect
<1>2. IInv /\ Cursor /\ LookupInv /\ Results /\ [Next]_vars => Results'
  BY ResultsStep
<1>3. Results => OpenCorrect
  BY DEF Results
<1> QED
  BY <1>1, <1>2, <1>3, VfsInvariant, LookupInvariant, PTL DEF Spec
=============================================================================
