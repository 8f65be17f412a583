-------------------------- MODULE MCStorageRegistry --------------------------
(***************************************************************************)
(* A small instance of StorageRegistry: two tasks, and mount points that   *)
(* are equal, nested, unrelated, the root, and malformed.                  *)
(***************************************************************************)
EXTENDS StorageRegistry, TLC

CONSTANTS rx, app, sd1, sd2, models, flash, root, bad

MCMountOf ==
    [b \in Objects |->
        CASE b \in {sd1, sd2} -> <<"sd">>
          [] b = models       -> <<"sd", "models">>
          [] b = flash        -> <<"flash">>
          [] b = root         -> Root
          [] b = bad          -> Malformed]

\* The tasks run the same code, and the two objects at /sd are alike.
MCSymmetry == Permutations(Tasks) \cup Permutations({sd1, sd2})

MCPaths == {<<>>, <<"sd">>, <<"sd", "models", "m">>, <<"flash", "f">>, <<"x">>}
=============================================================================
