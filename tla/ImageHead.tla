------------------------------ MODULE ImageHead ------------------------------
(***************************************************************************)
(* The 32-bit words at the head of an image: how the build tools of the    *)
(* repository lay them out, and what dfu.c and main.c read from them.      *)
(*                                                                         *)
(* A word is a magic number, a value behind one, or anything else, which   *)
(* is "code".  A head is the sequence of the first words of an image; the  *)
(* words behind it are code.                                               *)
(***************************************************************************)
EXTENDS Integers, Sequences, FiniteSetsExt

Magic(kind) == [kind |-> kind, n |-> 0]
Value(n)    == [kind |-> "value", n |-> n]

Code        == Magic("code")
Autoboot    == Magic("autoboot")      \* 0x4a6de3ac
RamBoot     == Magic("ram boot")      \* 0x17ab0f23
BootFlags   == Magic("boot flags")    \* 0xb469075a
Sync        == Magic("sync")          \* 0x7e99aa7e, 0x7eaa997e
Signature   == Magic("booster")       \* 0xfaa999b1

Words ==
  [kind : {"code", "autoboot", "ram boot", "boot flags", "sync", "booster", "value"}, n : Nat]

\* destination_array[i], addr[i], dfu_buffer[i].
WordAt(head, i) == IF i < Len(head) THEN head[i + 1] ELSE Code

-----------------------------------------------------------------------------
(* How heads are laid out. *)

\* The magic and the value of an option that is given.
Option(magic, n) == IF n = 0 THEN <<>> ELSE <<magic, Value(n)>>

\* _start of a RISC-V program: a jump, then the options given to make.
Program(timeout, load, config) ==
  <<Code>> \o Option(Autoboot, timeout) \o Option(RamBoot, load) \o Option(BootFlags, config)

\* A bitstream as icepack writes it: an empty comment, then the sync word
\* and the configuration, in which any word may come up.
Bitstream(words) == <<Code, Sync>> \o words

\* add_autoboot_timeout.py: the first word of the bitstream is replaced by a
\* comment that holds the timeout.
AddTimeout(bitstream, timeout) == <<Code, Autoboot, Value(timeout), Code>> \o Tail(bitstream)

\* make-booster.c: what main() patches into the head of Booster.
UpdaterHead(size, sum, device_id) ==
  <<Code, Signature, Value(size), Value(sum), Code, Code, Code, Value(device_id)>>

-----------------------------------------------------------------------------
(* How heads are read. *)

\* Mutant: the words of the first quarter less one.
SearchedLess(packetLength) == {w \in 0 .. packetLength : 4 * w < packetLength \div 4 - 4}

\* The words dfu_download looks at: i runs to a quarter of the bytes less
\* one, and i/4 is the word.  (packetLength >= 4: below, the bound wraps.)
Searched(packetLength) == {w \in 0 .. packetLength : 4 * w < packetLength \div 4 - 1}

\* What dfu_download sets ram_mode to for the first packet of an image.
LoadAddress(head, packetLength, ram_mode) ==
  LET found == {w \in Searched(packetLength) : WordAt(head, w) = RamBoot}
  IN IF found = {} THEN ram_mode ELSE WordAt(head, Min(found) + 1).n

\* Mutant: the scan goes on behind the sync word, and ends before word 30.
ScanShort(head) ==
  LET flags == {i \in 0 .. 29 : WordAt(head, i) = BootFlags}
  IN [kind   |-> IF \E i \in 0 .. 31 : WordAt(head, i) = Sync THEN "bitstream" ELSE "riscv",
      config |-> IF flags = {} THEN 0 ELSE WordAt(head, Max(flags) + 1).n]

\* The scan of reboot(): the first sync word of 32 ends it and means a
\* bitstream; of the boot flags the last ones count.
Scan(head) ==
  LET syncs == {i \in 0 .. 31 : WordAt(head, i) = Sync}
      flags == {i \in 0 .. 31 : WordAt(head, i) = BootFlags /\ \A s \in syncs : i < s}
  IN [kind   |-> IF syncs # {} THEN "bitstream" ELSE "riscv",
      config |-> IF syncs # {} \/ flags = {} THEN 0 ELSE WordAt(head, Max(flags) + 1).n]

\* Mutant: the timeout is looked for at the very start.
TimeoutAtStart(head) == IF WordAt(head, 0) = Autoboot THEN WordAt(head, 1).n % 256 ELSE 0

\* init_timeout: the seconds until auto-boot, a byte, 0 for never.
Timeout(head) == IF WordAt(head, 1) = Autoboot THEN WordAt(head, 2).n % 256 ELSE 0

=============================================================================
