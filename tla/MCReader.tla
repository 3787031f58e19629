------------------------------ MODULE MCReader ------------------------------
(***************************************************************************)
(* Instances of Reader: three calls of read() are one that fails to open,  *)
(* one that succeeds or throws half way, and one more on the open stream.  *)
(***************************************************************************)
EXTENDS Reader
=============================================================================
