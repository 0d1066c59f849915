------------------------ MODULE MCLocalStateDatabase ------------------------
(* Two binaries of one release and one of a later release, on one file.    *)
EXTENDS LocalStateDatabase

CONSTANTS old1, old2, new

MCSupported == [p \in Processes |-> IF p = new THEN 2 ELSE 1]
=============================================================================
