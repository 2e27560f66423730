------------------------------- MODULE MCSeek -------------------------------
(* Small instances of SeekUndo.                                            *)
EXTENDS SeekUndo
=============================================================================
