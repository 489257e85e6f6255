-------------------------- MODULE DocumentSession --------------------------
(***************************************************************************)
(* DocumentSession: the buffer, its token, and the baseline it is compared *)
(* with.  The operators are the session's mutators as functions of the     *)
(* session value; the modules that own a session apply them.               *)
(***************************************************************************)
EXTENDS Contracts

CONSTANTS Untitled,    \* the empty path of a new document
          EmptyText,   \* the text of a new document
          Kind         \* path -> format, by its suffix

Kinds == {"markdown", "plain", "mermaid"}

ASSUME SessionAssumption ==
    /\ Untitled \notin Paths
    /\ EmptyText \in Texts
    /\ Kind \in [Paths -> Kinds]

Session == [document : Nat, revision : Nat, text : Texts, baseline : Texts,
            path : Paths \cup {Untitled}, kind : Kinds,
            file : Identity \cup {NoIdentity}]

NewSession == [document |-> 1, revision |-> 0, text |-> EmptyText, baseline |-> EmptyText,
               path |-> Untitled, kind |-> "markdown", file |-> NoIdentity]

Token(s) == <<s.document, s.revision>>

Dirty(s) == s.text # s.baseline

\* Another document takes the session.
Replaced(s, p, identity) ==
    [document |-> s.document + 1, revision |-> 0, text |-> identity.text,
     baseline |-> identity.text, path |-> p, kind |-> Kind[p], file |-> identity]

Edited(s, t) ==
    IF t = s.text THEN s ELSE [s EXCEPT !.text = t, !.revision = @ + 1]

\* Mutants of MarkedSaved: the document is not compared; a new format keeps
\* the revision.
MarkedSavedAnyway(s, saved, p, identity) ==
    [s EXCEPT !.baseline = saved.text, !.revision = IF s.kind = Kind[p] THEN @ ELSE @ + 1,
              !.path = p, !.kind = Kind[p], !.file = identity]

MarkedSavedQuietly(s, saved, p, identity) ==
    IF saved.document # s.document THEN s
    ELSE [s EXCEPT !.baseline = saved.text, !.path = p, !.kind = Kind[p], !.file = identity]

\* The snapshot a save wrote becomes the baseline, unless the session holds
\* another document by now.  A change of format makes a new revision.
MarkedSaved(s, saved, p, identity) ==
    IF saved.document # s.document THEN s
    ELSE [s EXCEPT !.baseline = saved.text,
                   !.revision = IF s.kind = Kind[p] THEN @ ELSE @ + 1,
                   !.path = p, !.kind = Kind[p], !.file = identity]
=============================================================================
