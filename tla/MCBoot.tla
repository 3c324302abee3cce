------------------------------- MODULE MCBoot -------------------------------
(* Foboot's lives with one image of each kind: a program with every word of
   its head in use up to the last one that reboot() looks at, a program for
   RAM with all options, one for another address and one with its load
   address behind the boot flags, a bitstream with a timeout and with boot
   flags among its configuration, and an update package. *)
EXTENDS Boot, TLC

CONSTANTS prog, ramprog, ramtool, late, bits, package

Pad(n) == [i \in 1 .. n |-> Code]

Layouts ==
  prog :> [head |-> Program(5, 0, 0) \o Pad(27) \o <<BootFlags, Value(32)>>, timeout |-> 5,
           blocks |-> {0}, from |-> "flash", kind |-> "riscv", config |-> 32, updater |-> "none"]
  @@
  ramprog :> [head |-> Program(7, 4096, 16), timeout |-> 7,
              blocks |-> {0}, from |-> "ram", kind |-> "riscv", config |-> 16, updater |-> "none"]
  @@
  ramtool :> [head |-> Program(0, 8192, 0), timeout |-> 0,
              blocks |-> {0}, from |-> "ram", kind |-> "riscv", config |-> 0, updater |-> "none"]
  @@
  late :> [head |-> <<Code, BootFlags, Value(16), Code, RamBoot, Value(4096)>>, timeout |-> 0,
           blocks |-> {0}, from |-> "ram", kind |-> "riscv", config |-> 16, updater |-> "none"]
  @@
  bits :> [head |-> AddTimeout(Bitstream(<<BootFlags, Value(16)>>), 3), timeout |-> 3,
           blocks |-> {0}, from |-> "flash", kind |-> "bitstream", config |-> 0, updater |-> "none"]
  @@
  package :> [head |-> <<Sync>>, timeout |-> 0,
              blocks |-> {0, 26}, from |-> "flash", kind |-> "bitstream", config |-> 0,
              updater |-> "c2152815"]

MCLaid == [i \in Images |-> Layouts[i]]

=============================================================================
