------------------------------- MODULE FileCopy -------------------------------
(***************************************************************************)
(* What a file transfer promises to the user who receives the files: a     *)
(* file is replaced by a complete copy of one version of its source, or    *)
(* stays as it is.  A file is spoiled while something went wrong with it   *)
(* that the program does not make good; only then may it be damaged.       *)
(***************************************************************************)
CONSTANT File

VARIABLES
    dest,       \* [File -> old, whole, damaged]
    spoiled     \* the files a transfer may damage

CopyInit ==
    /\ dest = [f \in File |-> "old"]
    /\ spoiled = {}

(* A step concerns any number of files: the end of one is noticed with the *)
(* first block of the next.                                                *)
Publish(f) == dest'[f] = "whole"
Damage(f)  == f \in spoiled /\ dest'[f] = "damaged"
Keep(f)    == dest'[f] = dest[f]

CopyNext ==
    /\ dest' \in [File -> {"old", "whole", "damaged"}]
    /\ spoiled' \in SUBSET File
    /\ \A f \in File : Publish(f) \/ Damage(f) \/ Keep(f)

CopySpec == CopyInit /\ [][CopyNext]_<<dest, spoiled>>
=============================================================================
