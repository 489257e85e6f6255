---------------------------- MODULE AtomicStore ----------------------------
(***************************************************************************)
(* What a document save promises, without temporary files, identities or   *)
(* hard links.  The visible content of a path only ever changes from one   *)
(* whole text to another; a request publishes its own text at most once;   *)
(* it reports success only after it has published, and may report failure  *)
(* at any time.  LocalFileStore (module FileStore) implements it.          *)
(***************************************************************************)
CONSTANTS Paths,      \* the files the program may save to
          Texts,      \* whole document texts
          Absent,     \* "there is no such file"
          NoRequest   \* "no save is running"

VARIABLES disk,       \* what a reader of each path sees now
          safe,       \* what a reader would see after a power loss
          request     \* the running save, or NoRequest

vars == <<disk, safe, request>>

Content == Texts \cup {Absent}

Stage == {"asked", "published", "saved", "failed"}

Request == [path : Paths, text : Texts, stage : Stage]

TypeOK ==
    /\ disk \in [Paths -> Content]
    /\ safe \in [Paths -> Content]
    /\ request \in Request \cup {NoRequest}

Init ==
    /\ disk \in [Paths -> Content]
    /\ safe = disk
    /\ request = NoRequest

Begin(p, t) ==
    /\ request = NoRequest
    /\ request' = [path |-> p, text |-> t, stage |-> "asked"]
    /\ UNCHANGED <<disk, safe>>

\* The one visible effect of a save: the whole requested text, in one step.
Publish ==
    /\ request # NoRequest
    /\ request.stage = "asked"
    /\ disk' = [disk EXCEPT ![request.path] = request.text]
    /\ request' = [request EXCEPT !.stage = "published"]
    /\ UNCHANGED safe

Fail ==
    /\ request # NoRequest
    /\ request.stage \in {"asked", "published"}
    /\ request' = [request EXCEPT !.stage = "failed"]
    /\ UNCHANGED <<disk, safe>>

\* Success may come with the guarantee that the path is on stable storage.
Succeed ==
    /\ request # NoRequest
    /\ request.stage = "published"
    /\ request' = [request EXCEPT !.stage = "saved"]
    /\ safe' \in {safe, [safe EXCEPT ![request.path] = disk[request.path]]}
    /\ UNCHANGED disk

Acknowledge ==
    /\ request # NoRequest
    /\ request.stage \in {"saved", "failed"}
    /\ request' = NoRequest
    /\ UNCHANGED <<disk, safe>>

\* Another program changes, creates or deletes a file.
Change(p, c) ==
    /\ disk' = [disk EXCEPT ![p] = c]
    /\ UNCHANGED <<safe, request>>

\* The operating system writes a directory entry back when it likes.
Persist(p) ==
    /\ safe' = [safe EXCEPT ![p] = disk[p]]
    /\ UNCHANGED <<disk, request>>

Die ==
    /\ request' = NoRequest
    /\ disk' \in {disk, safe}
    /\ UNCHANGED safe

Next ==
    \/ \E p \in Paths, t \in Texts : Begin(p, t)
    \/ Publish
    \/ Fail
    \/ Succeed
    \/ Acknowledge
    \/ \E p \in Paths, c \in Content : Change(p, c)
    \/ \E p \in Paths : Persist(p)
    \/ Die

Spec == Init /\ [][Next]_vars
=============================================================================
