--------------------------- MODULE MCUploadSystem ---------------------------
(***************************************************************************)
(* Small instances of UploadSystem: a file of three chunks for one target.   *)
(***************************************************************************)
EXTENDS UploadSystem

CONSTANTS a, aUp, x, y

MCSource == <<x, y, x>>
MCPayloads == {<<x>>, <<y>>}
MCTempOf == [p \in {a} |-> aUp]
=============================================================================
