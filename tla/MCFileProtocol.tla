--------------------------- MODULE MCFileProtocol ---------------------------
(***************************************************************************)
(* Small instances of FileProtocol: two user files, uploads to one or both *)
(* of them, payloads of one and of two bytes, sizes from 0 to 2.           *)
(***************************************************************************)
EXTENDS FileProtocol

CONSTANTS a, b, aUp, bUp, x, y, devNull, offCard, longPath

MCPayloads == {<<x>>, <<x, y>>}
MCTempOfA == [p \in {a} |-> aUp]
MCTempOfAB == [p \in {a, b} |-> IF p = a THEN aUp ELSE bUp]
=============================================================================
