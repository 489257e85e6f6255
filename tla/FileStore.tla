----------------------------- MODULE FileStore -----------------------------
(***************************************************************************)
(* LocalFileStore: one running call of writeAtomic, a step per system call *)
(* whose order matters, next to other programs that write, delete and      *)
(* hard-link the same files, crashes of the process and power loss.        *)
(*                                                                         *)
(* Reading a file is one step: the fstat before and after the read loop    *)
(* turns any interference into an error.                                   *)
(***************************************************************************)
EXTENDS Contracts

CONSTANT MaxVersion    \* bound on the versions other programs create

ASSUME MaxVersionAssumption == MaxVersion \in Nat

VARIABLES files,     \* the file at each path, as every process sees it
          stable,    \* the file at each path after a power loss
          clock,     \* the last version handed out
          temp,      \* the temporary sibling of the running call, or Absent
          call,      \* the running call of writeAtomic
          reported   \* the publications that were reported durable

storeVars == <<files, stable, clock, temp, call, reported>>

Running == {"inspect", "verify", "create", "fill", "flush", "recheck",
            "publish", "unlink", "stat", "sync"}

Call == [pc : Running \cup {"none", "done", "failed"}, text : Texts \cup {Partial},
         path : Paths \cup {Absent}, expected : Identity \cup {NoIdentity},
         links : 0..3,       \* st_nlink of the first stat, 0 when the target is absent
         checked : Nat,      \* the clock when the identity was last compared
         published : Nat,    \* the version the publication took, 0 before
         version : Nat,      \* the version of the published inode now
         touched : BOOLEAN,  \* another program changed the path since
         durable : BOOLEAN]

NoCall == [pc |-> "none", text |-> Partial, path |-> Absent, expected |-> NoIdentity,
           links |-> 0, checked |-> 0, published |-> 0, version |-> 0,
           touched |-> FALSE, durable |-> FALSE]

\* What remains of a file whose data may not have reached the disk.
Survivor(f) ==
    IF f = Absent \/ f.flushed THEN f
    ELSE [f EXCEPT !.text = Partial, !.flushed = TRUE]

Plain(v, t, n) == [version |-> v, text |-> t, links |-> n, flushed |-> TRUE]

StoreInit ==
    /\ files \in [Paths -> {Absent} \cup {Plain(0, t, n) : t \in Texts, n \in 1..2}]
    /\ stable = files
    /\ clock = 0
    /\ temp = Absent
    /\ call = NoCall
    /\ reported = {}

(***************************************************************************)
(* The call.                                                               *)
(***************************************************************************)
WriteAtomic(text, path, expected) ==
    /\ call.pc = "none"
    /\ call' = [NoCall EXCEPT !.pc = "inspect", !.text = text, !.path = path,
                              !.expected = expected]
    /\ UNCHANGED <<files, stable, clock, temp, reported>>

\* Mutant of Raise: the Cleanup object is missing.
RaiseAndLeak ==
    /\ call' = [call EXCEPT !.pc = "failed"]
    /\ UNCHANGED temp

\* An exception: a failed system call or a conflict.  The Cleanup object
\* unlinks the temporary file on the way out.
Raise ==
    /\ call' = [call EXCEPT !.pc = "failed"]
    /\ temp' = Absent

\* One step of the call: its own effect, or an exception.
Step(from, effect) ==
    /\ call.pc = from
    /\ effect \/ Raise
    /\ UNCHANGED <<files, stable, clock, reported>>

Goto(pc) == call' = [call EXCEPT !.pc = pc]

Target == files[call.path]

Unchanged == Target # Absent /\ IdentityOf(Target) = call.expected

Inspect ==
    Step("inspect",
         /\ Target = Absent <=> call.expected = NoIdentity
         /\ call' = [call EXCEPT !.pc = IF Target = Absent THEN "create" ELSE "verify",
                                 !.links = IF Target = Absent THEN 0 ELSE Target.links]
         /\ UNCHANGED temp)

\* Mutant of Verify: the number of hard links is not looked at.
VerifyIgnoringLinks == Step("verify", Unchanged /\ Goto("create") /\ UNCHANGED temp)

Verify == Step("verify", Unchanged /\ call.links = 1 /\ Goto("create") /\ UNCHANGED temp)

CreateTemp ==
    Step("create",
         /\ temp' = [version |-> 0, text |-> Partial, links |-> 1, flushed |-> FALSE]
         /\ Goto("fill"))

Fill == Step("fill", temp' = [temp EXCEPT !.text = call.text] /\ Goto("flush"))

\* Mutant of Flush: no fsync of the temporary file.
FlushNothing == Step("flush", Goto("recheck") /\ UNCHANGED temp)

Flush == Step("flush", temp' = [temp EXCEPT !.flushed = TRUE] /\ Goto("recheck"))

\* Mutant of Recheck: the target is not compared again before it is replaced.
RecheckNothing ==
    Step("recheck", call' = [call EXCEPT !.pc = "publish", !.checked = clock] /\ UNCHANGED temp)

Recheck ==
    Step("recheck",
         /\ call.expected # NoIdentity => Unchanged
         /\ call' = [call EXCEPT !.pc = "publish", !.checked = clock]
         /\ UNCHANGED temp)

\* A new version of an inode with n names.
Relinked(f, n) == [f EXCEPT !.version = clock + 1, !.links = n]

\* link() of a new file: refused when the path exists, and the inode has two
\* names until the temporary one is unlinked.
PublishNew ==
    /\ call.pc = "publish"
    /\ call.expected = NoIdentity
    /\ Target = Absent
    /\ clock' = clock + 1
    /\ files' = [files EXCEPT ![call.path] = Relinked(temp, 2)]
    /\ call' = [call EXCEPT !.pc = "unlink", !.published = clock + 1, !.version = clock + 1]
    /\ UNCHANGED <<stable, temp, reported>>

\* rename() over whatever the path holds now.
PublishOver ==
    /\ call.pc = "publish"
    /\ call.expected # NoIdentity
    /\ clock' = clock + 1
    /\ files' = [files EXCEPT ![call.path] = Relinked(temp, 1)]
    /\ call' = [call EXCEPT !.pc = "stat", !.published = clock + 1, !.version = clock + 1]
    /\ temp' = Absent
    /\ UNCHANGED <<stable, reported>>

\* Mutant of PublishFails: the error of link() or rename() is ignored.
PublishIgnoringErrors ==
    /\ call.pc = "publish"
    /\ Goto("stat")
    /\ temp' = Absent
    /\ UNCHANGED <<files, stable, clock, reported>>

PublishFails ==
    /\ call.pc = "publish"
    /\ Raise
    /\ UNCHANGED <<files, stable, clock, reported>>

\* Published, not yet inspected, and no other program has put its own inode
\* at the path since: what happens to the file happens to our descriptor.
StillOurs ==
    /\ call.pc \in {"unlink", "stat"}
    /\ Target # Absent
    /\ Target.version = call.version

Unlink ==
    /\ call.pc = "unlink"
    /\ temp' = Absent
    /\ clock' = clock + 1
    /\ files' = IF StillOurs
                THEN [files EXCEPT ![call.path] = Relinked(@, @.links - 1)]
                ELSE files
    /\ call' = [call EXCEPT !.pc = "stat", !.version = clock + 1]
    /\ UNCHANGED <<stable, reported>>

Stat == Step("stat", Goto("sync") /\ UNCHANGED temp)

\* Mutants of SavedIdentity: the target is read back; the old identity stays.
ReadBackIdentity == IF Target = Absent THEN NoIdentity ELSE IdentityOf(Target)

StaleIdentity ==
    IF call.expected = NoIdentity THEN [version |-> call.version, text |-> call.text]
    ELSE call.expected

\* The identity writeAtomic returns: the stat of its own descriptor with the
\* hash of the text it was asked to write.
SavedIdentity == [version |-> call.version, text |-> call.text]

\* Mutant of SyncDirectory: durability is reported without the fsync.
SyncNothing(durable) ==
    /\ call.pc = "sync"
    /\ call' = [call EXCEPT !.pc = "done", !.durable = durable]
    /\ reported' = IF durable /\ Target # Absent
                   THEN reported \cup {[path |-> call.path, version |-> call.published]}
                   ELSE reported
    /\ UNCHANGED <<files, stable, clock, temp>>

SyncDirectory(durable) ==
    /\ call.pc = "sync"
    /\ call' = [call EXCEPT !.pc = "done", !.durable = durable]
    /\ stable' = IF durable THEN [stable EXCEPT ![call.path] = Survivor(Target)] ELSE stable
    /\ reported' = IF durable /\ Target # Absent
                   THEN reported \cup {[path |-> call.path, version |-> call.published]}
                   ELSE reported
    /\ UNCHANGED <<files, clock, temp>>

Return ==
    /\ call.pc \in {"done", "failed"}
    /\ call' = NoCall
    /\ UNCHANGED <<files, stable, clock, temp, reported>>

CallStep ==
    \/ Inspect \/ Verify \/ CreateTemp \/ Fill \/ Flush \/ Recheck
    \/ PublishNew \/ PublishOver \/ PublishFails \/ Unlink \/ Stat
    \/ \E durable \in BOOLEAN : SyncDirectory(durable)

(***************************************************************************)
(* Other programs, the operating system, crashes.                          *)
(***************************************************************************)
\* What a change of path p means to the running call; v is the version its own
\* inode has afterwards.
Touched(p, v) ==
    IF p = call.path /\ call.published # 0
    THEN [call EXCEPT !.touched = TRUE, !.version = v] ELSE call

\* A write in place changes the inode the call may have published (its stat
\* then sees the new version); a write by rename puts another inode there.
ExternalWrite(p, t, inPlace) ==
    /\ clock < MaxVersion
    /\ inPlace => files[p] # Absent
    /\ clock' = clock + 1
    /\ files' = [files EXCEPT ![p] = Plain(clock + 1, t, IF inPlace THEN @.links ELSE 1)]
    /\ call' = Touched(p, IF inPlace /\ StillOurs THEN clock + 1 ELSE call.version)
    /\ UNCHANGED <<stable, temp, reported>>

ExternalLink(p) ==
    /\ clock < MaxVersion
    /\ files[p] # Absent
    /\ files[p].links < 3
    /\ clock' = clock + 1
    /\ files' = [files EXCEPT ![p] = Relinked(@, @.links + 1)]
    /\ call' = Touched(p, IF StillOurs THEN clock + 1 ELSE call.version)
    /\ UNCHANGED <<stable, temp, reported>>

ExternalDelete(p) ==
    /\ files[p] # Absent
    /\ files' = [files EXCEPT ![p] = Absent]
    /\ reported' = {r \in reported : r.path # p}
    /\ call' = Touched(p, call.version)
    /\ UNCHANGED <<stable, clock, temp>>

Writeback(p) ==
    /\ stable[p] # Survivor(files[p])
    /\ stable' = [stable EXCEPT ![p] = Survivor(files[p])]
    /\ UNCHANGED <<files, clock, temp, call, reported>>

\* The process dies.  A temporary file it leaves behind is never named again
\* and drops out of the model; a second link to a published file stays.
Crash ==
    /\ call.pc # "none"
    /\ call' = NoCall
    /\ temp' = Absent
    /\ UNCHANGED <<files, stable, clock, reported>>

PowerLoss ==
    /\ files' = stable
    /\ call' = NoCall
    /\ temp' = Absent
    /\ UNCHANGED <<stable, clock, reported>>

Environment ==
    \/ \E p \in Paths, t \in Texts, inPlace \in BOOLEAN : ExternalWrite(p, t, inPlace)
    \/ \E p \in Paths : ExternalLink(p)
    \/ \E p \in Paths : ExternalDelete(p)

(***************************************************************************)
(* The store on its own: any caller, any target.                           *)
(***************************************************************************)
Known == {NoIdentity} \cup [version : 0..clock, text : Texts]

CallAny ==
    \E t \in Texts, p \in Paths, e \in Known : clock < MaxVersion /\ WriteAtomic(t, p, e)

StoreNext ==
    \/ CallAny
    \/ CallStep
    \/ Return
    \/ Environment
    \/ \E p \in Paths : Writeback(p)
    \/ Crash
    \/ PowerLoss

StoreSpec == StoreInit /\ [][StoreNext]_storeVars

(***************************************************************************)
(* Properties.                                                             *)
(***************************************************************************)
Reported == [path : Paths, version : Nat]

\* Type invariant of the store.
StoreTypeOK ==
    /\ files \in [Paths -> File \cup {Absent}]
    /\ stable \in [Paths -> File \cup {Absent}]
    /\ clock \in Nat
    /\ temp \in File \cup {Absent}
    /\ call \in Call
    /\ call.pc # "none" => call.path \in Paths /\ call.text \in Texts
    /\ reported \subseteq Reported

Whole(f) == f # Absent => f.text # Partial

\* No reader and no power loss ever sees half a document at a target path:
\* the bytes are complete and flushed before the target names them.
WholeFiles == \A p \in Paths : Whole(files[p]) /\ Whole(stable[p])

\* A save reported durable is not undone by a power loss: stable storage
\* never holds an older version of that path, nor no file at all.
DurableSurvives ==
    \A r \in reported : stable[r.path] # Absent /\ stable[r.path].version >= r.version

\* Whether the call succeeds, fails or publishes, its temporary file is gone
\* when it is over.
NoTempLeft == call.pc \in {"none", "done", "failed"} => temp = Absent

\* The identity a successful save returns is the one the file has, so that the
\* next save meets no false conflict; and it is never the identity of bytes
\* another program wrote, so that the next save does not overwrite them.
IdentityIsHonest ==
    call.pc = "done" =>
        /\ ~call.touched => Target # Absent /\ IdentityOf(Target) = SavedIdentity
        /\ Target # Absent /\ IdentityOf(Target) = SavedIdentity => Target.text = call.text

Publishing == call.pc = "publish" /\ call'.pc \in {"unlink", "stat"}

\* A publication destroys only the version the caller expected, or one that
\* appeared after the last comparison (the documented window); a save without
\* an expected identity destroys nothing, and none separates a file from its
\* other hard links.
OnlyExpectedReplaced ==
    [][ Publishing /\ Target # Absent =>
          /\ call.expected # NoIdentity
          /\ \/ IdentityOf(Target) = call.expected /\ Target.links = 1
             \/ Target.version > call.checked ]_storeVars

(***************************************************************************)
(* Refinement of the abstract store.                                       *)
(***************************************************************************)
Content(f) == IF f = Absent THEN Absent ELSE f.text

AbstractRequest ==
    IF call.pc = "none" THEN NoCall
    ELSE [path |-> call.path, text |-> call.text,
          stage |-> CASE call.pc = "done" -> "saved"
                      [] call.pc = "failed" -> "failed"
                      [] call.pc \in Running /\ call.published # 0 -> "published"
                      [] OTHER -> "asked"]

Atomic == INSTANCE AtomicStore
    WITH disk <- [p \in Paths |-> Content(files[p])],
         safe <- [p \in Paths |-> Content(stable[p])],
         request <- AbstractRequest,
         NoRequest <- NoCall

\* The system calls of writeAtomic, with crashes between any two of them,
\* look like one atomic publication.
ImplementsAtomicStore == Atomic!Spec
=============================================================================
