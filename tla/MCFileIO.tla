------------------------------ MODULE MCFileIO ------------------------------
(***************************************************************************)
(* Two threads on a file of up to three cells, with two opens: both can    *)
(* hold a handle, or one can open again what it has committed.             *)
(***************************************************************************)
EXTENDS FileIO, TLC

MCHandles == {"t1", "t2"}
=============================================================================
