------------------------------- MODULE Blocks -------------------------------
(***************************************************************************)
(* The arithmetic of a block on disk (src/include/NDB.h, calcBlockAligned- *)
(* Size): a block is its data, padding, and a 16 byte trailer that ends on *)
(* a multiple of 64.  Sizes are size_t in the code and never leave 0..8192 *)
(* here, so plain integers lose nothing.                                   *)
(***************************************************************************)
EXTENDS Integers

TrailerSize  == 16
Multiple     == 64
MaxBlockSize == 8192

\* The padding between the data and the trailer; the code writes the
\* conditional as  multiple * (remainder != 0).
Offset(cb) ==
  LET remainder == (cb + TrailerSize) % Multiple
  IN  (IF remainder # 0 THEN Multiple ELSE 0) - remainder

AlignedSize(cb) == (cb + TrailerSize) + Offset(cb)

\* The two assertions at the end of calcBlockAlignedSize.
SizeAsserted(cb) ==
  /\ AlignedSize(cb) % Multiple = 0
  /\ AlignedSize(cb) <= MaxBlockSize

-----------------------------------------------------------------------------
\* The comment in calcBlockAlignedSize: "The block size is the smallest multiple
\* of 64 that can hold both the data and the block trailer."
IsSmallestFit(cb, size) ==
  /\ size % Multiple = 0 /\ size >= cb + TrailerSize
  /\ \A m \in Nat : (m % Multiple = 0 /\ m >= cb + TrailerSize) => size <= m
=============================================================================
