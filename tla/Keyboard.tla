------------------------------ MODULE Keyboard ------------------------------
(***************************************************************************)
(* The PS/2 keyboard (ps2keybd.c): the interrupt handler translates        *)
(* scancodes and writes the ring, and a task reads the ring through        *)
(* devfs_read and vfs_read.                                                *)
(*                                                                         *)
(* One task reads: a shell waits for the programs that it starts.  The     *)
(* handler is an interrupt, so one step, and comes between any two steps   *)
(* of the reader while interrupts are on: they are off from the gate of    *)
(* the system call until the reader first reschedules.  What the reader    *)
(* changes (readp, avail, the semaphore) it loads and stores separately.   *)
(***************************************************************************)
EXTENDS Ring, FiniteSets

CONSTANTS
  Meta,          \* the modifiers (KEYMETA_*); both shift keys are one
  Key,           \* the other keys
  Lower, Upper,  \* us_keymap_lower and us_keymap_upper: the bytes of each key
  Escape,        \* the bytes that come first while control is held
  BufLen,        \* the length of the reader's buffer
  MaxTyped       \* bound: the bytes that are typed

ASSUME KeyboardAssumption ==
  /\ {"CTRL", "SHIFT", "CAPSLOCK"} \subseteq Meta
  /\ {Lower, Upper} \subseteq [Key -> Seq(Byte)] /\ Escape \in Seq(Byte)
  /\ BufLen \in Nat \ {0} /\ MaxTyped \in Nat

VARIABLES
  line,         \* keyboard_pipe->bufs[0]
  keybd_sem,
  metastatus,   \* the modifiers whose bit is set
  keymap,       \* us_keymap_lower or us_keymap_upper
  pc,           \* where the reader is
  loaded,       \* what it has loaded and not stored yet
  count,        \* i of pipeline_read
  intr,         \* the interrupt flag
  typed, read,  \* the bytes that the handler has written and the reader copied
  overflowed    \* a byte was written to a full ring, or over one not yet read

reader == <<pc, loaded, count, intr, read>>
keys == <<metastatus, keymap>>
kbdVars == <<line, keybd_sem, metastatus, keymap, pc, loaded, count, intr,
             typed, read, overflowed>>

(* init of the module *)
KbdInit ==
  /\ line = NewRing /\ keybd_sem = 1
  /\ metastatus = {} /\ keymap = "lower"
  /\ pc = "user" /\ loaded = 0 /\ count = 0 /\ intr = TRUE
  /\ typed = <<>> /\ read = <<>> /\ overflowed = FALSE

-----------------------------------------------------------------------------
(* keyboard_handler *)

Shifted(meta) == "SHIFT" \in meta \/ "CAPSLOCK" \in meta

(* A modifier goes down: its bit is set whichever keymap is in use. *)
PressMeta(m) ==
  /\ intr
  /\ metastatus' = metastatus \cup {m}
  /\ keymap' = IF Shifted(metastatus') THEN "upper" ELSE keymap
  /\ UNCHANGED <<line, keybd_sem, reader, typed, overflowed>>

(* Faulty variant of ClearBits: the map goes back with the shift key. *)
ClearBitsOfShift(bits) ==
  /\ metastatus' = metastatus \ bits
  /\ keymap' = IF "SHIFT" \notin metastatus' THEN "lower" ELSE keymap

ClearBits(bits) ==
  /\ metastatus' = metastatus \ bits
  /\ keymap' = IF ~Shifted(metastatus') THEN "lower" ELSE keymap

ReleaseMeta(m) ==
  /\ intr
  /\ ClearBits({m})
  /\ UNCHANGED <<line, keybd_sem, reader, typed, overflowed>>

(* The prefix 0xe0 of arrow keys and the like is taken for a release, and  *)
(* its index lies past the keymap: the word found there is taken for a     *)
(* pointer, and nothing happens, or for modifiers to clear.                *)
ExtendedPrefix ==
  /\ intr
  /\ \E bits \in SUBSET Meta : ClearBits(bits)
  /\ UNCHANGED <<line, keybd_sem, reader, typed, overflowed>>

Typed(k) == (IF "CTRL" \in metastatus THEN Escape ELSE <<>>)
              \o (IF keymap = "lower" THEN Lower[k] ELSE Upper[k])

(* Another key: its bytes go into the ring.  The handler sets keybd_sem to *)
(* 0 and at its end to 1, whatever the reader made of it.  The ring runs   *)
(* over by its count, avail, or, where that is too low, when a byte that   *)
(* was not read yet is overwritten.                                        *)
PressKey(k) ==
  /\ intr
  /\ Len(typed \o Typed(k)) <= MaxTyped
  /\ line' = Write(line, Typed(k))
  /\ keybd_sem' = 1
  /\ typed' = typed \o Typed(k)
  /\ overflowed' = \/ overflowed
                    \/ line.avail + Len(Typed(k)) > Size - 1
                    \/ Len(typed \o Typed(k)) - Len(read) > Size
  /\ UNCHANGED <<keys, reader>>

-----------------------------------------------------------------------------
(* kbd_hal_read *)

Goto(from, to) == pc = from /\ pc' = to

CallRead ==
  /\ Goto("user", "enter")
  /\ intr' = FALSE /\ count' = 0
  /\ UNCHANGED <<line, keybd_sem, loaded, read>>

(* enter_semaphore: the test, then the decrement. *)
EnterSemaphore ==
  /\ UNCHANGED <<line, count, intr, read>>
  /\ \/ Goto("enter", "load_sem") /\ keybd_sem > 0 /\ UNCHANGED <<keybd_sem, loaded>>
     \/ Goto("load_sem", "store_sem") /\ loaded' = keybd_sem /\ UNCHANGED keybd_sem
     \/ Goto("store_sem", "test") /\ keybd_sem' = loaded - 1 /\ UNCHANGED loaded

(* Faulty variant of MoreToRead: avail is compared with i, not with 0. *)
MoreToReadThan == count < BufLen /\ count <= line.avail

(* The condition of pipeline_read's loop, i < line->avail + i. *)
MoreToRead == count < BufLen /\ count < line.avail + count

(* pipeline_read: copy one byte, advance readp, then the loop's avail--.   *)
PipelineRead ==
  /\ UNCHANGED <<keybd_sem, intr>>
  /\ \/ /\ Goto("test", IF MoreToRead THEN "load_j" ELSE "leave")
        /\ UNCHANGED <<line, loaded, count, read>>
     \/ /\ Goto("load_j", "copy") /\ loaded' = line.readp
        /\ UNCHANGED <<line, count, read>>
     \/ /\ Goto("copy", "load_readp") /\ read' = Append(read, line.buf[loaded])
        /\ UNCHANGED <<line, loaded, count>>
     \/ /\ Goto("load_readp", "store_readp") /\ loaded' = line.readp
        /\ UNCHANGED <<line, count, read>>
     \/ /\ Goto("store_readp", "load_avail")
        /\ line' = [line EXCEPT !.readp = (loaded + 1) % Size]
        /\ UNCHANGED <<loaded, count, read>>
     \/ /\ Goto("load_avail", "store_avail") /\ loaded' = line.avail
        /\ UNCHANGED <<line, count, read>>
     \/ /\ Goto("store_avail", "test")
        /\ line' = [line EXCEPT !.avail = (loaded - 1) % Wrap]
        /\ count' = count + 1
        /\ UNCHANGED <<loaded, read>>

LeaveSemaphore ==
  /\ UNCHANGED <<line, count, intr, read>>
  /\ \/ Goto("leave", "load_back") /\ loaded' = keybd_sem /\ UNCHANGED keybd_sem
     \/ Goto("load_back", "result") /\ keybd_sem' = loaded + 1 /\ UNCHANGED loaded

(* Nothing read is -ERROR_TRY_AGAIN: vfs_read reschedules, which enables   *)
(* interrupts, and tries again.  Otherwise the call returns.               *)
ReadResult ==
  /\ Goto("result", IF count = 0 THEN "enter" ELSE "user")
  /\ intr' = TRUE
  /\ UNCHANGED <<line, keybd_sem, loaded, count, read>>

Reader ==
  /\ CallRead \/ EnterSemaphore \/ PipelineRead \/ LeaveSemaphore \/ ReadResult
  /\ UNCHANGED <<keys, typed, overflowed>>

KbdNext ==
  \/ Reader
  \/ \E m \in Meta : PressMeta(m) \/ ReleaseMeta(m)
  \/ ExtendedPrefix
  \/ \E k \in Key : PressKey(k)

KbdSpec == KbdInit /\ [][KbdNext]_kbdVars

-----------------------------------------------------------------------------
(* The interrupt comes at any point of a read.  Although it can make the   *)
(* reader lose an update of avail, what the reader is given is what was    *)
(* typed, in that order and nothing else, until the ring runs over (which  *)
(* it can at less than its avail says, once updates were lost); avail      *)
(* never drops below 0; and the reader never finds the semaphore taken.    *)
TypedInOrder ==
  /\ ~overflowed => IsPrefix(read, typed)
  /\ line.avail \in Index /\ line.readp \in Index
  /\ pc = "enter" => keybd_sem > 0

(* The upper case map is in use exactly while the bit of shift or of caps  *)
(* lock is set, whichever of them went down or up first.                   *)
KeymapAgrees == keymap = "upper" <=> Shifted(metastatus)
=============================================================================
