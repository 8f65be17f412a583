--------------------------- MODULE MCWebDavServer ---------------------------
(***************************************************************************)
(* Model values for WebDavServer.                                          *)
(***************************************************************************)
EXTENDS WebDavServer

CONSTANTS t1, t2, a, b
=============================================================================
