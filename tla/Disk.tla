--------------------------------- MODULE Disk ---------------------------------
(***************************************************************************)
(* IDE disks and their partitions (ata_ide.c, parts.c): the drives of a    *)
(* controller are probed and registered with the HAL, partition tables are *)
(* read through the drivers just registered, and tasks read and write      *)
(* whole sectors through the devices.                                      *)
(*                                                                         *)
(* A transfer is one step: it is polled, and comes from a system call with *)
(* interrupts off or from boot code (the heap is taken to be free, as in   *)
(* Vfs).  There is one controller, with a master and a slave on each of    *)
(* two channels: four slots.  A sector is known by its slot and number;    *)
(* that of a partition's table and an offset add up within their 32 bits.  *)
(***************************************************************************)
EXTENDS Integers, Sequences, SequencesExt

CONSTANTS
  Drives,      \* what is in the slots: "none", "ata" or "atapi" in each
  Sectors,     \* the size of the drive in each slot
  PartTable,   \* the first sectors of its partitions
  CountWrap,   \* 2^8: the number of sectors is kept in a byte
  LowWrap,     \* 2^24: what the registers LBA0 to LBA2 hold
  ExtAbove,    \* 0x10000000: above it all 32 bits are passed on
  SectCount, SectOffset,  \* of reads and writes
  NoDrive

Slot == 0..3

ASSUME DiskAssumption ==
  /\ Drives \subseteq [Slot -> {"none", "ata", "atapi"}]
  /\ Sectors \in [Slot -> Nat] /\ PartTable \in [Slot -> Seq(Nat)]
  /\ {CountWrap, LowWrap} \subseteq Nat \ {0} /\ ExtAbove \in Nat
  /\ SectCount \subseteq Nat \ {0} /\ SectOffset \subseteq Nat /\ NoDrive \notin Slot

VARIABLES
  drives,
  ide_devices,  \* ctrl->devices: the slot of each, or NoDrive if not reserved
  probed,       \* the slots that have been probed
  found,        \* count of ata_initialize_ide
  disks,        \* the HAL's devices: their index in ide_devices, and the
                \* number and first sector of a partition (0 for the disk)
  parts_ready,
  transfer,     \* the latest read and the sectors it delivered, or <<>>
  written       \* the sectors that the latest write went to, or <<>>

diskVars == <<drives, ide_devices, probed, found, disks, parts_ready, transfer, written>>

Disk(index, part, rel) == [index |-> index, part |-> part, rel |-> rel]

DiskInit ==
  /\ drives \in Drives
  /\ ide_devices = [i \in Slot |-> NoDrive] /\ probed = 0 /\ found = 0
  /\ disks = <<>> /\ parts_ready = FALSE
  /\ transfer = <<>> /\ written = <<>>

(* Faulty variant of CountAfter: a drive that is refused is not counted. *)
CountAfterIdentified(drive) == IF drive = "ata" THEN found + 1 ELSE found

(* An empty slot does not count, a drive that answers with an error does. *)
CountAfter(drive) == IF drive = "none" THEN found ELSE found + 1

(* The body of ata_initialize_ide's loops: identify the next slot. *)
ProbeNext ==
  /\ probed \in Slot /\ probed' = probed + 1
  /\ found' = CountAfter(drives[probed])
  /\ IF drives[probed] = "ata"
     THEN /\ ide_devices' = [ide_devices EXCEPT ![found] = probed]
          /\ disks' = Append(disks, Disk(found, 0, 0))
     ELSE UNCHANGED <<ide_devices, disks>>
  /\ UNCHANGED <<drives, parts_ready, transfer, written>>

-----------------------------------------------------------------------------
(* The address that ata_ide_pio_access programs: below the limit of the    *)
(* long form the bits above LBA2 belong into the head register, which is   *)
(* always 0.                                                               *)
Lba(lba) == IF lba > ExtAbove THEN lba ELSE lba % LowWrap

(* ata_ide_read_sectors and ata_ide_write_sectors: the sectors that a call *)
(* for this index goes to; none if the index or the range is refused.      *)
Access(index, lba, count) ==
  LET numsects == count % CountWrap
  IN  IF index \notin Slot THEN <<>>
      ELSE IF ide_devices[index] = NoDrive THEN <<>>
      ELSE IF lba + numsects > Sectors[ide_devices[index]] THEN <<>>
      ELSE [i \in 1..numsects |-> <<ide_devices[index], Lba(lba) + i - 1>>]

(* ata_ide_hal_read takes the slot's number for an index; partition_read   *)
(* adds the first sector and looks at no end.                              *)
HalRead(disk, count, offset) ==
  Access(ide_devices[disk.index], disk.rel + offset, count)

(* ata_ide_hal_write passes the offset for the number of sectors and the   *)
(* number for the offset, and the drive without its channel.               *)
HalWrite(disk, count, offset) ==
  Access(ide_devices[disk.index] % 2, count, disk.rel + offset)

(* check_for_parts: the table is in the first sector, if it can be read.   *)
PartsOn(disk) ==
  LET mbr == HalRead(disk, 1, 0)
      table == IF mbr = <<>> THEN <<>> ELSE PartTable[mbr[1][1]]
  IN  [i \in DOMAIN table |-> Disk(disk.index, i, table[i])]

CheckForParts ==
  /\ probed = 4 /\ ~parts_ready
  /\ parts_ready' = TRUE
  /\ disks' = FoldLeft(LAMBDA all, disk : all \o PartsOn(disk), disks, disks)
  /\ UNCHANGED <<drives, ide_devices, probed, found, transfer, written>>

(* devfs_read_node and devfs_write_node of whole sectors *)
DiskRead(disk, count, offset) ==
  /\ parts_ready
  /\ transfer' = <<disk, count, offset, HalRead(disk, count, offset)>>
  /\ written' = <<>>
  /\ UNCHANGED <<drives, ide_devices, probed, found, disks, parts_ready>>

DiskWrite(disk, count, offset) ==
  /\ parts_ready
  /\ written' = HalWrite(disk, count, offset)
  /\ transfer' = <<>>
  /\ UNCHANGED <<drives, ide_devices, probed, found, disks, parts_ready>>

(* Without a disk there is nothing to do after boot. *)
DiskStopped == parts_ready /\ disks = <<>> /\ UNCHANGED diskVars

DiskNext ==
  \/ ProbeNext
  \/ CheckForParts
  \/ \E disk \in Range(disks), count \in SectCount, offset \in SectOffset :
       DiskRead(disk, count, offset) \/ DiskWrite(disk, count, offset)
  \/ DiskStopped

DiskSpec == DiskInit /\ [][DiskNext]_diskVars

-----------------------------------------------------------------------------
(* Whatever drives are in the slots, a disk whose slot has no empty one    *)
(* before it is read right: its partitions are those of its own table, and *)
(* a read delivers the sectors that were asked for, from that disk and     *)
(* from the start of the partition, all of them if their number fits its   *)
(* byte and they are on the disk; but for addresses that need the head     *)
(* register.  No transfer, not even a write, goes past the end of a drive. *)
DiskReadRight ==
  LET own(disk) == ide_devices[disk.index]
      reached(disk) == \A s \in 0..(own(disk) - 1) : drives[s] # "none"
  IN  /\ \A disk \in Range(disks) :
           disk.part > 0 /\ reached(disk) => disk.rel = PartTable[own(disk)][disk.part]
      /\ transfer # <<>> =>
           LET disk == transfer[1]
               count == transfer[2]
               start == disk.rel + transfer[3]
               sectors == transfer[4]
           IN  /\ \A i \in DOMAIN sectors : sectors[i][2] < Sectors[sectors[i][1]]
               /\ reached(disk) /\ (start < LowWrap \/ start > ExtAbove) =>
                    /\ \A i \in DOMAIN sectors : sectors[i] = <<own(disk), start + i - 1>>
                    /\ count < CountWrap /\ start + count <= Sectors[own(disk)]
                         => Len(sectors) = count
      /\ \A w \in Range(written) : w[2] < Sectors[w[1]]
=============================================================================
