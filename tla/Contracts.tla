----------------------------- MODULE Contracts -----------------------------
(***************************************************************************)
(* The values the document layer passes around: paths, texts, and the      *)
(* identity of a file on disk.                                             *)
(***************************************************************************)
EXTENDS Naturals

CONSTANTS Paths,       \* canonical paths of files the program may touch
          Texts,       \* whole, valid document texts
          Partial,     \* the content of a file that is not completely written
          Absent,      \* "there is no such file"
          NoIdentity   \* the empty std::optional<FileIdentity>

\* Device, inode, timestamps and size are one version number, which every
\* change of an inode takes afresh; the hash of the bytes is the text itself.
Identity == [version : Nat, text : Texts \cup {Partial}]

File == [version : Nat, text : Texts \cup {Partial}, links : 1..3, flushed : BOOLEAN]

ASSUME ContractsAssumption ==
    /\ Partial \notin Texts
    /\ Absent \notin File
    /\ Absent \notin Paths
    /\ NoIdentity \notin Identity

IdentityOf(f) == [version |-> f.version, text |-> f.text]
=============================================================================
