---------------------------- MODULE MCFileStore ----------------------------
(* Two texts, one target path and up to MaxVersion versions of it.         *)
EXTENDS FileStore
=============================================================================
