---------------------------- MODULE MCTransferJobs ----------------------------
(* Two files, of two blocks and of one block; the user has the first.      *)
EXTENDS TransferJobs
MCSize == <<2, 1>>
MCExisting == {{1}}
=============================================================================
