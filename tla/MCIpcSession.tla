---------------------------- MODULE MCIpcSession -----------------------------
(***************************************************************************)
(* A ring of seven cells with two to spare: messages in one part, as the   *)
(* report a node sends first, and in two.  A message of two and one of     *)
(* three fill it, and every put meets every position of _read.             *)
(***************************************************************************)
EXTENDS IpcSession

MCShapes == {<<2>>, <<3>>, <<2, 2>>}
=============================================================================
