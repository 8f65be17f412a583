---------------------------- MODULE MCBatchRunner ----------------------------
(***************************************************************************)
(* Small batches for BatchRunner: each kind of task, verified or not, with *)
(* and without a condition, disabled, and before and after others.         *)
(***************************************************************************)
EXTENDS BatchRunner

Simple(name, type) ==
    [name |-> name, type |-> type, condition |-> "none", enabled |-> TRUE,
     verify |-> FALSE, overwrite |-> TRUE, files |-> 1]

Dir == [Simple("dir", "upload_dir") EXCEPT !.files = 2]
File == Simple("file", "upload")

MCBatches ==
    {<<Simple("mkdir", "other"), Dir, [File EXCEPT !.condition = "absent"]>>,
     <<[File EXCEPT !.overwrite = FALSE], Simple("rename", "missing"),
       [Simple("download", "other") EXCEPT !.overwrite = FALSE]>>,
     <<[Dir EXCEPT !.verify = TRUE], [File EXCEPT !.condition = "hash"], Simple("copy", "other")>>,
     <<[File EXCEPT !.verify = TRUE, !.overwrite = FALSE], [Dir EXCEPT !.enabled = FALSE], Dir>>}
=============================================================================
