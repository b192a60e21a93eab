------------------------------- MODULE MCBoot -------------------------------
(* An instance of Boot for TLC. *)
EXTENDS Boot

MCFirmware == {{0, 2, 6}, {0, 1, 2, 5, 6}}  \* 0x45 and 0x67
MCKey == {{1, 2, 3, 4}, {0, 5}}             \* 0x1E and 0x21
MCACK == {1, 3, 4, 5, 6, 7}                 \* 0xFA
=============================================================================
