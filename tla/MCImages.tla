------------------------------- MODULE MCImages -------------------------------
(***************************************************************************)
(* Paging, the module loader, the disks and the keyboard for TLC:          *)
(* components without common state, so a behaviour is one of either.       *)
(***************************************************************************)
EXTENDS Paging, Loader, Disk, Keyboard, TLC

CONSTANTS a, b, k1

Segment(vaddr, memsz, writable) == [vaddr |-> vaddr, memsz |-> memsz, writable |-> writable]

(* A program with a read-only page and a writable one, begun in its middle *)
MCImage == {<<Segment(0, 2, FALSE), Segment(3, 1, TRUE)>>}

(* Objects: the kernel; "hal" and "ata", which depends on it and has a     *)
(* symbol of its own of that name; "fat", which needs both and a symbol    *)
(* whose hash another has; and ones that cannot be loaded.                 *)
Elf(provides, depends, symbols, relocations, segments) ==
  [dynamic |-> TRUE, provides |-> provides, depends |-> depends,
   symbols |-> symbols \cup {"provides", "depends"}, relocations |-> relocations,
   segments |-> segments]
MCObject == [
  base |-> [Elf("base", <<>>, {"print", "alloc"}, <<>>, <<>>) EXCEPT !.dynamic = FALSE],
  hal |-> Elf("hal", <<"base">>, {"init", "list"}, <<"print">>,
              <<Segment(0, 3, FALSE), Segment(5, 2, TRUE)>>),
  ata |-> Elf("ata", <<"base", "hal">>, {"init", "print"}, <<"print", "list", "alloc">>,
              <<Segment(0, 1, TRUE)>>),
  fat |-> Elf("fat", <<"hal", "ata", "base">>, {"init"}, <<"print", "alloc", "list">>,
              <<Segment(0, 4, TRUE)>>),
  bad |-> Elf("bad", <<"base", "hal">>, {"init"}, <<"list", "missing">>, <<Segment(0, 5, TRUE)>>),
  lib |-> Elf("lib", <<"base">>, {}, <<"alloc">>, <<Segment(0, 1, TRUE)>>),
  txt |-> [Elf("txt", <<>>, {}, <<>>, <<>>) EXCEPT !.dynamic = FALSE]]
MCHash == [provides |-> 1, depends |-> 2, init |-> 3, print |-> 4, alloc |-> 6, list |-> 6,
           missing |-> 7]

File(name, size) == [name |-> name, size |-> size]
MCArchive ==
  {<<File("hal", 7), File("ata", n), File("fat", 8), File("bad", 4), File("txt", 3)>> :
     n \in {4, 5, 6}}
  \cup {<<File("lib", 0), File("hal", 3), File("ata", 2)>>}
MCModtab == UNION {[1..n -> DOMAIN MCObject \ {"base"}] : n \in 0..4}

(* Every way to fill the slots; the first disk is short, the others have   *)
(* partitions that begin where the address fits the registers, where it    *)
(* needs the head register and where it is passed on whole.                *)
MCDrives == [0..3 -> {"none", "ata", "atapi"}]
MCSectors == 0 :> 6 @@ 1 :> 24 @@ 2 :> 40 @@ 3 :> 21
MCPartTable == 0 :> <<1, 5>> @@ 1 :> <<2, 10, 19>> @@ 2 :> <<20>> @@ 3 :> <<>>

(* A key with one byte in one map and two in the other *)
MCLower == k1 :> <<a>>
MCUpper == k1 :> <<a, b>>
MCEscape == <<a>>

VARIABLE part   \* the component that moves

ImagesInit ==
  /\ PagingInit /\ LoaderInit /\ DiskInit /\ KbdInit
  /\ part \in {"paging", "loader", "disk", "keyboard"}
  /\ part # "loader" => modtab = <<>> /\ archive = CHOOSE f \in Archive : TRUE
  /\ part # "disk" => drives = CHOOSE d \in Drives : TRUE

ImagesNext ==
  /\ UNCHANGED part
  /\ \/ part = "paging" /\ PagingNext /\ UNCHANGED <<loaderVars, diskVars, kbdVars>>
     \/ part = "loader" /\ LoaderNext /\ UNCHANGED <<pagingVars, diskVars, kbdVars>>
     \/ part = "disk" /\ DiskNext /\ UNCHANGED <<pagingVars, loaderVars, kbdVars>>
     \/ part = "keyboard" /\ KbdNext /\ UNCHANGED <<pagingVars, loaderVars, diskVars>>

ImagesSpec ==
  ImagesInit /\ [][ImagesNext]_<<pagingVars, loaderVars, diskVars, kbdVars, part>>
=============================================================================
