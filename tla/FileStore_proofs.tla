-------------------------- MODULE FileStore_proofs --------------------------
(***************************************************************************)
(* Proofs about LocalFileStore's atomic write, for any set of paths and    *)
(* texts and any interference: types, whole files, durability, and that it *)
(* implements AtomicStore.                                                 *)
(***************************************************************************)
EXTENDS FileStore, TLAPS

WithTemp == {"fill", "flush", "recheck", "publish", "unlink"}

Before == {"inspect", "verify", "create", "fill", "flush", "recheck", "publish"}

After == {"unlink", "stat", "sync", "done"}

\* Where the running call stands, and what its temporary file holds then.
Staged ==
    /\ call.pc \in WithTemp <=> temp # Absent
    /\ call.pc \in WithTemp \ {"fill"} => temp.text = call.text
    /\ call.pc \in {"recheck", "publish", "unlink"} => temp.flushed
    /\ call.pc \in Before => call.published = 0
    /\ call.pc \in After => call.published # 0

\* Every file that has a name is complete and flushed, now and after a power
\* loss, which is why a write back or a directory flush changes no content.
Solid(f) == f # Absent => f.text \in Texts /\ f.flushed

AllSolid == \A p \in Paths : Solid(files[p]) /\ Solid(stable[p])

\* Versions come from the clock, and a published path never goes back.
Clocked ==
    /\ \A p \in Paths : files[p] # Absent => files[p].version <= clock
    /\ \A p \in Paths : stable[p] # Absent => stable[p].version <= clock
    /\ call.version <= clock
    /\ call.published <= clock
    /\ call.pc \in After /\ Target # Absent => Target.version >= call.published
    /\ call.pc = "unlink" /\ StillOurs => Target.links >= 2

\* A durable report is older than both versions of its path.
Kept(r) ==
    /\ files[r.path] # Absent /\ files[r.path].version >= r.version
    /\ stable[r.path] # Absent /\ stable[r.path].version >= r.version

AllKept == \A r \in reported : r.version <= clock /\ Kept(r)

\* The inductive invariant.  WholeFiles alone is not inductive: publishing
\* needs to know what the temporary file holds (Staged), and a power loss that
\* nothing unflushed was ever given a name (AllSolid).
StoreInv == StoreTypeOK /\ Staged /\ AllSolid /\ Clocked /\ AllKept
(***************************************************************************)
(* Files as values.                                                        *)
(***************************************************************************)
LEMMA FileFields ==
    ASSUME NEW f \in File
    PROVE  /\ f # Absent
           /\ f.version \in Nat
           /\ f.text \in Texts \cup {Partial}
           /\ f.links \in 1..3
           /\ f.flushed \in BOOLEAN
  BY ContractsAssumption DEF File

LEMMA RelinkedFile ==
    ASSUME NEW f \in File, NEW n \in 1..3, clock \in Nat
    PROVE  /\ Relinked(f, n) \in File
           /\ Relinked(f, n).text = f.text /\ Relinked(f, n).flushed = f.flushed
           /\ Relinked(f, n).version = clock + 1 /\ Relinked(f, n).links = n
<1>1. clock + 1 \in Nat
  OBVIOUS
<1> QED
  BY <1>1 DEF File, Relinked

LEMMA EmptyTemp == [version |-> 0, text |-> Partial, links |-> 1, flushed |-> FALSE] \in File
  BY DEF File

LEMMA NoCallIsCall == NoCall \in Call
  BY DEF NoCall, Call, Running

LEMMA InitHolds == StoreInit => StoreInv
<1> SUFFICES ASSUME StoreInit PROVE StoreInv
  OBVIOUS
<1>1. ASSUME NEW t \in Texts, NEW n \in 1..2
      PROVE  Plain(0, t, n) \in File /\ Plain(0, t, n).text = t
             /\ Plain(0, t, n).flushed /\ Plain(0, t, n).version = 0
  <2>1. n \in 1..3 /\ 0 \in Nat
    OBVIOUS
  <2>2. Plain(0, t, n) \in File
    BY <2>1 DEF File, Plain
  <2> QED
    BY <2>2 DEF Plain
<1>2. /\ files \in [Paths -> File \cup {Absent}]
      /\ \A p \in Paths : Solid(files[p]) /\ (files[p] # Absent => files[p].version = 0)
  <2>1. files \in [Paths -> {Absent} \cup {Plain(0, t, n) : t \in Texts, n \in 1..2}]
    BY DEF StoreInit
  <2>2. ASSUME NEW p \in Paths
        PROVE  files[p] \in File \cup {Absent} /\ Solid(files[p])
               /\ (files[p] # Absent => files[p].version = 0)
    <3>1. CASE files[p] = Absent
      BY <3>1 DEF Solid
    <3>2. CASE files[p] # Absent
      <4>1. PICK t \in Texts, n \in 1..2 : files[p] = Plain(0, t, n)
        BY <2>1, <3>2
      <4> QED
        BY <4>1, <1>1 DEF Solid
    <3> QED
      BY <3>1, <3>2
  <2> QED
    BY <2>1, <2>2
<1>3. StoreTypeOK
  BY <1>2, NoCallIsCall DEF StoreInit, StoreTypeOK, NoCall, Reported
<1>4. Staged
  BY DEF StoreInit, Staged, WithTemp, Before, After, NoCall
<1>5. AllSolid
  BY <1>2 DEF StoreInit, AllSolid
<1>6. Clocked
  BY <1>2 DEF StoreInit, Clocked, After, NoCall
<1>7. AllKept
  BY DEF StoreInit, AllKept
<1> QED
  BY <1>3, <1>4, <1>5, <1>6, <1>7 DEF StoreInv

(***************************************************************************)
(* Types.                                                                  *)
(***************************************************************************)
\* The steps of a call that leave the files alone and only move on or raise.
Quiet ==
    \/ Inspect \/ Verify \/ CreateTemp \/ Fill \/ Flush \/ Recheck \/ PublishFails \/ Stat

LEMMA CallFields ==
    ASSUME NEW c \in Call
    PROVE  /\ c.links \in 0..3
           /\ c.published \in Nat
           /\ c.version \in Nat
           /\ c.text \in Texts \cup {Partial}
  BY DEF Call

\* What the steps of a call have in common: only the stage, the results of the
\* checks and the temporary file change.
LEMMA QuietSteps ==
    ASSUME StoreTypeOK, Staged, Quiet
    PROVE  /\ UNCHANGED <<files, stable, clock, reported>>
           /\ call' \in Call
           /\ temp' \in File \cup {Absent}
           /\ call.pc # "none" /\ call'.pc # "none"
           /\ call'.path = call.path /\ call'.text = call.text
           /\ call'.published = call.published /\ call'.version = call.version
<1> USE DEF StoreTypeOK, Call, Running
<1>1. /\ Target \in File \cup {Absent}
      /\ Target # Absent => Target.links \in 1..3
  <2>1. call.pc # "none"
    BY DEF Quiet, Inspect, Verify, CreateTemp, Fill, Flush, Recheck, PublishFails, Stat, Step
  <2> QED
    BY <2>1, FileFields DEF Target
<1>2. CASE Inspect
  <2>1. \/ call' = [call EXCEPT !.pc = "create", !.links = 0] /\ temp' = temp
        \/ Target # Absent /\ call' = [call EXCEPT !.pc = "verify", !.links = Target.links]
              /\ temp' = temp
        \/ call' = [call EXCEPT !.pc = "failed"] /\ temp' = Absent
    <3> HIDE DEF StoreTypeOK, Call, Running
    <3> QED
      BY <1>2 DEF Inspect, Step, Raise
  <2>2. UNCHANGED <<files, stable, clock, reported>> /\ call.pc = "inspect"
    BY <1>2 DEF Inspect, Step
  <2>3. ASSUME NEW pc \in {"create", "verify"}, NEW n \in 0..3,
               call' = [call EXCEPT !.pc = pc, !.links = n]
        PROVE  /\ call' \in Call /\ call'.pc # "none"
               /\ call'.path = call.path /\ call'.text = call.text
               /\ call'.published = call.published /\ call'.version = call.version
    BY <2>3
  <2>4. CASE call' = [call EXCEPT !.pc = "create", !.links = 0] /\ temp' = temp
    BY <2>2, <2>3, <2>4
  <2>5. CASE Target # Absent /\ call' = [call EXCEPT !.pc = "verify", !.links = Target.links]
             /\ temp' = temp
    <3>1. Target.links \in 0..3
      BY <1>1, <2>5
    <3> QED
      BY <2>2, <2>3, <2>5, <3>1
  <2>6. CASE call' = [call EXCEPT !.pc = "failed"] /\ temp' = Absent
    BY <2>2, <2>6
  <2> QED
    BY <2>1, <2>4, <2>5, <2>6
<1>3. CASE Verify
  BY <1>3 DEF Verify, Step, Raise, Goto
<1>4. CASE CreateTemp
  <2>1. \/ temp' = [version |-> 0, text |-> Partial, links |-> 1, flushed |-> FALSE]
        \/ temp' = Absent
    BY <1>4 DEF CreateTemp, Step, Raise
  <2> QED
    BY <1>4, <2>1, EmptyTemp DEF CreateTemp, Step, Raise, Goto
<1>5. CASE Fill
  <2>1. temp \in File /\ call.text \in Texts
    BY <1>5 DEF Staged, WithTemp, Fill, Step
  <2>2. temp' \in File \cup {Absent}
    BY <1>5, <2>1 DEF Fill, Step, Raise, File
  <2> QED
    BY <1>5, <2>2 DEF Fill, Step, Raise, Goto
<1>6. CASE Flush
  <2>1. temp \in File
    BY <1>6 DEF Staged, WithTemp, Flush, Step
  <2>2. temp' \in File \cup {Absent}
    BY <1>6, <2>1 DEF Flush, Step, Raise, File
  <2> QED
    BY <1>6, <2>2 DEF Flush, Step, Raise, Goto
<1>7. CASE Recheck
  BY <1>7 DEF Recheck, Step, Raise
<1>8. CASE PublishFails
  BY <1>8 DEF PublishFails, Raise
<1>9. CASE Stat
  BY <1>9 DEF Stat, Step, Raise, Goto
<1> QED
  BY <1>2, <1>3, <1>4, <1>5, <1>6, <1>7, <1>8, <1>9 DEF Quiet
\* Other programs change one path, and of the call at most the fields that say
\* what became of its published file.
LEMMA EnvironmentTypes ==
    ASSUME StoreTypeOK, Environment
    PROVE  /\ files' \in [Paths -> File \cup {Absent}]
           /\ clock' \in Nat /\ clock <= clock'
           /\ call' \in Call /\ call'.pc = call.pc
           /\ call'.path = call.path /\ call'.text = call.text
           /\ call'.published = call.published
           /\ reported' \subseteq reported
           /\ UNCHANGED <<stable, temp>>
<1> USE DEF StoreTypeOK
<1>1. ASSUME NEW p \in Paths, NEW v \in Nat, call' = Touched(p, v)
      PROVE  /\ call' \in Call /\ call'.pc = call.pc
             /\ call'.path = call.path /\ call'.text = call.text
             /\ call'.published = call.published
  BY <1>1 DEF Touched, Call
<1>2. call.version \in Nat /\ clock + 1 \in Nat
  BY CallFields
<1>3. ASSUME NEW p \in Paths, NEW t \in Texts, NEW inPlace \in BOOLEAN,
             ExternalWrite(p, t, inPlace)
      PROVE  files' \in [Paths -> File \cup {Absent}]
  <2>1. (IF inPlace THEN files[p].links ELSE 1) \in 1..3
    BY <1>3, FileFields DEF ExternalWrite
  <2>2. Plain(clock + 1, t, IF inPlace THEN files[p].links ELSE 1) \in File
    BY <1>2, <2>1 DEF Plain, File
  <2> QED
    BY <1>3, <2>2 DEF ExternalWrite
<1>4. ASSUME NEW p \in Paths, ExternalLink(p)
      PROVE  files' \in [Paths -> File \cup {Absent}]
  <2>1. files[p] \in File /\ files[p].links + 1 \in 1..3
    BY <1>4, FileFields DEF ExternalLink
  <2>2. Relinked(files[p], files[p].links + 1) \in File
    BY <2>1, RelinkedFile
  <2> QED
    BY <1>4, <2>2 DEF ExternalLink
<1>5. ASSUME NEW p \in Paths, NEW t \in Texts, NEW inPlace \in BOOLEAN,
             ExternalWrite(p, t, inPlace)
      PROVE  \E v \in Nat : call' = Touched(p, v)
  BY <1>2, <1>5 DEF ExternalWrite
<1>6. ASSUME NEW p \in Paths, ExternalLink(p) \/ ExternalDelete(p)
      PROVE  \E v \in Nat : call' = Touched(p, v)
  BY <1>2, <1>6 DEF ExternalLink, ExternalDelete
<1>7. \/ \E p \in Paths, t \in Texts, inPlace \in BOOLEAN : ExternalWrite(p, t, inPlace)
      \/ \E p \in Paths : ExternalLink(p)
      \/ \E p \in Paths : ExternalDelete(p)
  BY DEF Environment
<1>8. \E p \in Paths, v \in Nat : call' = Touched(p, v)
  BY <1>5, <1>6, <1>7
<1>9. files' \in [Paths -> File \cup {Absent}]
  BY <1>3, <1>4, <1>7 DEF ExternalDelete
<1>10. reported' \subseteq reported /\ UNCHANGED <<stable, temp>>
       /\ clock' \in {clock, clock + 1}
  BY <1>7 DEF ExternalWrite, ExternalLink, ExternalDelete
<1>11. clock' \in Nat /\ clock <= clock'
  BY <1>2, <1>10
<1> QED
  BY <1>1, <1>8, <1>9, <1>10, <1>11

LEMMA SurvivorType == ASSUME NEW f \in File \cup {Absent} PROVE Survivor(f) \in File \cup {Absent}
  BY DEF Survivor, File

LEMMA StepKeepsTypes ==
    ASSUME StoreInv, StoreNext
    PROVE  StoreTypeOK'
<1> USE DEF StoreInv, StoreTypeOK
<1>1. CASE CallAny
  <2>1. PICK t \in Texts, p \in Paths, e \in Known : WriteAtomic(t, p, e)
    BY <1>1 DEF CallAny
  <2>2. e \in Identity \cup {NoIdentity}
    BY DEF Known, Identity
  <2>3. call' \in Call /\ call'.path \in Paths /\ call'.text \in Texts
    <3>1. call' = [NoCall EXCEPT !.pc = "inspect", !.text = t, !.path = p, !.expected = e]
      BY <2>1 DEF WriteAtomic
    <3> QED
      BY <2>2, <3>1, NoCallIsCall DEF Call, Running
  <2> QED
    BY <2>1, <2>3 DEF WriteAtomic
<1>2. CASE Quiet
  BY <1>2, QuietSteps
<1>3. CASE PublishNew \/ PublishOver
  <2>1. call.pc = "publish" /\ temp \in File /\ clock + 1 \in Nat
    BY <1>3 DEF PublishNew, PublishOver, Staged, WithTemp
  <2>2. Relinked(temp, 1) \in File /\ Relinked(temp, 2) \in File
    BY <2>1, RelinkedFile
  <2>3. files' \in [Paths -> File \cup {Absent}] /\ temp' \in File \cup {Absent}
        /\ clock' \in Nat
    BY <1>3, <2>1, <2>2 DEF PublishNew, PublishOver
  <2>4. call' \in Call /\ call'.path = call.path /\ call'.text = call.text
    <3>1. \/ call' = [call EXCEPT !.pc = "unlink", !.published = clock + 1, !.version = clock + 1]
          \/ call' = [call EXCEPT !.pc = "stat", !.published = clock + 1, !.version = clock + 1]
      BY <1>3 DEF PublishNew, PublishOver
    <3> QED
      BY <2>1, <3>1 DEF Call, Running
  <2> QED
    BY <1>3, <2>1, <2>3, <2>4 DEF PublishNew, PublishOver
<1>4. CASE Unlink
  <2>1. call.pc = "unlink" /\ call.path \in Paths
    BY <1>4 DEF Unlink
  <2>2. ASSUME StillOurs PROVE Relinked(Target, Target.links - 1) \in File
    <3>1. Target \in File /\ Target.links - 1 \in 1..3
      BY <2>1, <2>2, FileFields DEF StillOurs, Target, Clocked
    <3> QED
      BY <3>1, RelinkedFile
  <2>3. files' = IF StillOurs
                 THEN [files EXCEPT ![call.path] = Relinked(Target, Target.links - 1)] ELSE files
    BY <1>4 DEF Unlink, Target
  <2>4. files' \in [Paths -> File \cup {Absent}]
    BY <2>1, <2>2, <2>3
  <2>5. call' = [call EXCEPT !.pc = "stat", !.version = clock + 1] /\ clock + 1 \in Nat
    BY <1>4 DEF Unlink
  <2>6. call' \in Call /\ call'.path = call.path /\ call'.text = call.text
    BY <2>5 DEF Call, Running
  <2> QED
    BY <1>4, <2>1, <2>4, <2>5, <2>6 DEF Unlink
<1>5. ASSUME NEW durable \in BOOLEAN, SyncDirectory(durable) PROVE StoreTypeOK'
  <2>1. call.pc = "sync" /\ call.path \in Paths /\ Target \in File \cup {Absent}
    BY <1>5 DEF SyncDirectory, Target
  <2>2. Survivor(Target) \in File \cup {Absent}
    BY <2>1, SurvivorType
  <2>3. call' \in Call /\ call'.path = call.path /\ call'.text = call.text
    BY <1>5 DEF SyncDirectory, Call, Running
  <2>4. reported' \subseteq Reported
    BY <1>5, <2>1, CallFields DEF SyncDirectory, Reported
  <2> QED
    BY <1>5, <2>1, <2>2, <2>3, <2>4 DEF SyncDirectory
<1>6. CASE Return \/ Crash
  <2>1. call' = NoCall
    BY <1>6 DEF Return, Crash
  <2>2. call' \in Call /\ call'.pc = "none"
    BY <2>1, NoCallIsCall DEF NoCall
  <2> QED
    BY <1>6, <2>2 DEF Return, Crash
<1>7. CASE PowerLoss
  BY <1>7, NoCallIsCall DEF PowerLoss, NoCall
<1>8. CASE Environment
  BY <1>8, EnvironmentTypes
<1>9. ASSUME NEW p \in Paths, Writeback(p) PROVE StoreTypeOK'
  BY <1>9, SurvivorType DEF Writeback
<1> QED
  BY <1>1, <1>2, <1>3, <1>4, <1>5, <1>6, <1>7, <1>8, <1>9
  DEF StoreNext, CallStep, Quiet
(***************************************************************************)
(* The stages of a call.                                                   *)
(***************************************************************************)
LEMMA StepKeepsStaged ==
    ASSUME StoreInv, StoreNext
    PROVE  Staged'
<1> USE DEF StoreInv, Staged, WithTemp, Before, After
<1>1. CASE CallAny
  <2>1. PICK t \in Texts, p \in Paths, e \in Known : WriteAtomic(t, p, e)
    BY <1>1 DEF CallAny
  <2>2. call'.pc = "inspect" /\ call'.published = 0 /\ call.pc = "none" /\ temp' = temp
    BY <2>1 DEF WriteAtomic, NoCall
  <2> QED
    BY <2>2
<1>2. call \in Call /\ temp \in File \cup {Absent} /\ clock \in Nat
      /\ (call.pc # "none" => call.text \in Texts)
  BY DEF StoreTypeOK
<1>3. CASE Inspect
  <2>1. call.pc = "inspect" /\ call'.published = call.published
        /\ call'.pc \in {"create", "verify", "failed"} /\ temp' \in {temp, Absent}
    BY <1>2, <1>3 DEF Inspect, Step, Raise, Call
  <2> QED
    BY <2>1
<1>4. CASE Verify
  BY <1>2, <1>4 DEF Verify, Step, Raise, Goto, Call
<1>5. CASE CreateTemp
  <2>1. \/ call' = [call EXCEPT !.pc = "fill"] /\ temp' # Absent
        \/ call' = [call EXCEPT !.pc = "failed"] /\ temp' = Absent
    BY <1>5, EmptyTemp, FileFields DEF CreateTemp, Step, Raise, Goto
  <2>2. call.pc = "create"
    BY <1>5 DEF CreateTemp, Step
  <2> QED
    BY <1>2, <2>1, <2>2 DEF Call
<1>6. CASE Fill
  <2>1. call.pc = "fill" /\ temp \in File
    BY <1>2, <1>6 DEF Fill, Step
  <2>2. [temp EXCEPT !.text = call.text] \in File /\ [temp EXCEPT !.text = call.text].text = call.text
    BY <1>2, <2>1 DEF File
  <2>3. \/ call' = [call EXCEPT !.pc = "flush"] /\ temp' = [temp EXCEPT !.text = call.text]
        \/ call' = [call EXCEPT !.pc = "failed"] /\ temp' = Absent
    BY <1>6 DEF Fill, Step, Raise, Goto
  <2> QED
    BY <1>2, <2>1, <2>2, <2>3, FileFields DEF Call
<1>7. CASE Flush
  <2>1. call.pc = "flush" /\ temp \in File /\ temp.text = call.text
    BY <1>2, <1>7 DEF Flush, Step
  <2>2. /\ [temp EXCEPT !.flushed = TRUE] \in File
        /\ [temp EXCEPT !.flushed = TRUE].text = call.text
        /\ [temp EXCEPT !.flushed = TRUE].flushed
    BY <2>1 DEF File
  <2>3. \/ call' = [call EXCEPT !.pc = "recheck"] /\ temp' = [temp EXCEPT !.flushed = TRUE]
        \/ call' = [call EXCEPT !.pc = "failed"] /\ temp' = Absent
    BY <1>7 DEF Flush, Step, Raise, Goto
  <2> QED
    BY <1>2, <2>1, <2>2, <2>3, FileFields DEF Call
<1>8. CASE Recheck
  <2>1. \/ call' = [call EXCEPT !.pc = "publish", !.checked = clock] /\ temp' = temp
        \/ call' = [call EXCEPT !.pc = "failed"] /\ temp' = Absent
    BY <1>8 DEF Recheck, Step, Raise
  <2>2. call.pc = "recheck"
    BY <1>8 DEF Recheck, Step
  <2>3. CASE call' = [call EXCEPT !.pc = "publish", !.checked = clock] /\ temp' = temp
    <3>1. call'.pc = "publish" /\ call'.published = call.published /\ call'.text = call.text
      BY <1>2, <2>3 DEF Call
    <3> QED
      BY <2>2, <2>3, <3>1
  <2>4. CASE call' = [call EXCEPT !.pc = "failed"] /\ temp' = Absent
    BY <1>2, <2>4 DEF Call
  <2> QED
    BY <2>1, <2>3, <2>4
<1>9. CASE PublishNew \/ PublishOver
  <2>1. \/ call' = [call EXCEPT !.pc = "unlink", !.published = clock + 1, !.version = clock + 1]
              /\ temp' = temp
        \/ call' = [call EXCEPT !.pc = "stat", !.published = clock + 1, !.version = clock + 1]
              /\ temp' = Absent
    BY <1>9 DEF PublishNew, PublishOver
  <2>2. call.pc = "publish" /\ clock + 1 # 0
    BY <1>2, <1>9 DEF PublishNew, PublishOver
  <2>3. call'.published = clock + 1 /\ call'.text = call.text /\ call'.pc \in {"unlink", "stat"}
    BY <1>2, <2>1 DEF Call
  <2>4. IF call'.pc = "unlink" THEN temp' = temp ELSE temp' = Absent
    BY <1>2, <2>1 DEF Call
  <2> QED
    BY <2>2, <2>3, <2>4
<1>10. CASE PublishFails
  BY <1>2, <1>10 DEF PublishFails, Raise, Call
<1>11. CASE Unlink
  BY <1>2, <1>11 DEF Unlink, Call
<1>12. CASE Stat
  BY <1>2, <1>12 DEF Stat, Step, Raise, Goto, Call
<1>13. ASSUME NEW durable \in BOOLEAN, SyncDirectory(durable) PROVE Staged'
  BY <1>2, <1>13 DEF SyncDirectory, Call
<1>14. CASE Return \/ Crash \/ PowerLoss
  BY <1>14 DEF Return, Crash, PowerLoss, NoCall
<1>15. CASE Environment
  BY <1>15, EnvironmentTypes
<1>16. ASSUME NEW p \in Paths, Writeback(p) PROVE Staged'
  BY <1>16 DEF Writeback
<1> QED
  BY <1>1, <1>3, <1>4, <1>5, <1>6, <1>7, <1>8, <1>9, <1>10, <1>11, <1>12, <1>13, <1>14,
     <1>15, <1>16
  DEF StoreNext, CallStep

(***************************************************************************)
(* Whole files.                                                            *)
(***************************************************************************)
LEMMA SolidSurvives ==
    ASSUME NEW f \in File \cup {Absent}, Solid(f)
    PROVE  Survivor(f) = f
  BY DEF Solid, Survivor

LEMMA StepKeepsSolid ==
    ASSUME StoreInv, StoreNext
    PROVE  AllSolid'
<1> USE DEF AllSolid
<1>1. /\ StoreTypeOK /\ AllSolid
      /\ files \in [Paths -> File \cup {Absent}] /\ clock \in Nat
      /\ \A p \in Paths : Survivor(files[p]) = files[p]
  BY SolidSurvives DEF StoreInv, StoreTypeOK
<1>2. ASSUME NEW f \in File, Solid(f), NEW n \in 1..3 PROVE Solid(Relinked(f, n))
  BY <1>1, <1>2, RelinkedFile, FileFields DEF Solid
<1>3. CASE Quiet
  BY <1>1, <1>3, QuietSteps DEF StoreInv
<1>4. CASE PublishNew \/ PublishOver
  <2>1. temp \in File /\ Solid(temp)
    BY <1>4 DEF PublishNew, PublishOver, StoreInv, StoreTypeOK, Staged, WithTemp, Solid
  <2>2. Solid(Relinked(temp, 1)) /\ Solid(Relinked(temp, 2))
    BY <1>2, <2>1
  <2> QED
    BY <1>1, <1>4, <2>2 DEF PublishNew, PublishOver
<1>5. CASE Unlink
  <2>1. ASSUME StillOurs PROVE Solid(Relinked(Target, Target.links - 1))
    <3>1. call.path \in Paths /\ Target \in File /\ Target.links - 1 \in 1..3
      BY <1>5, <2>1, FileFields DEF Unlink, StoreInv, StoreTypeOK, StillOurs, Target, Clocked
    <3> QED
      BY <1>1, <1>2, <3>1 DEF Target
  <2>2. files' = IF StillOurs
                 THEN [files EXCEPT ![call.path] = Relinked(Target, Target.links - 1)] ELSE files
    BY <1>5 DEF Unlink, Target
  <2> QED
    BY <1>1, <1>5, <2>1, <2>2 DEF Unlink
<1>6. ASSUME NEW durable \in BOOLEAN, SyncDirectory(durable) PROVE AllSolid'
  BY <1>1, <1>6 DEF SyncDirectory, Target, StoreInv, StoreTypeOK
<1>7. CASE CallAny \/ Return \/ Crash
  BY <1>1, <1>7 DEF CallAny, WriteAtomic, Return, Crash
<1>8. ASSUME NEW p \in Paths, NEW t \in Texts, NEW inPlace \in BOOLEAN,
             ExternalWrite(p, t, inPlace)
      PROVE  AllSolid'
  <2>1. \A n : Solid(Plain(clock + 1, t, n))
    BY DEF Solid, Plain
  <2> QED
    BY <1>1, <1>8, <2>1 DEF ExternalWrite
<1>9. ASSUME NEW p \in Paths, ExternalLink(p) PROVE AllSolid'
  <2>1. files[p] \in File /\ files[p].links + 1 \in 1..3
    BY <1>1, <1>9, FileFields DEF ExternalLink
  <2> QED
    BY <1>1, <1>2, <1>9, <2>1 DEF ExternalLink
<1>10. ASSUME NEW p \in Paths, ExternalDelete(p) PROVE AllSolid'
  BY <1>1, <1>10 DEF ExternalDelete, Solid
<1>11. ASSUME NEW p \in Paths, Writeback(p) PROVE AllSolid'
  BY <1>1, <1>11 DEF Writeback, StoreInv, StoreTypeOK
<1>12. CASE PowerLoss
  BY <1>1, <1>12 DEF PowerLoss
<1> QED
  BY <1>3, <1>4, <1>5, <1>6, <1>7, <1>8, <1>9, <1>10, <1>11, <1>12
  DEF StoreNext, CallStep, Environment, Quiet
(***************************************************************************)
(* The clock, and what was reported durable.                               *)
(***************************************************************************)
\* The parts of Clocked: about all files, and about the running call.
FilesClocked ==
    /\ \A p \in Paths : files[p] # Absent => files[p].version <= clock
    /\ \A p \in Paths : stable[p] # Absent => stable[p].version <= clock

CallClocked ==
    /\ call.version <= clock
    /\ call.published <= clock
    /\ call.pc \in After /\ Target # Absent => Target.version >= call.published
    /\ call.pc = "unlink" /\ StillOurs => Target.links >= 2

LEMMA StepKeepsFilesClocked ==
    ASSUME StoreInv, StoreNext
    PROVE  FilesClocked'
<1> USE DEF FilesClocked
<1>1. /\ StoreTypeOK /\ FilesClocked
      /\ files \in [Paths -> File \cup {Absent}] /\ stable \in [Paths -> File \cup {Absent}]
      /\ clock \in Nat
      /\ \A p \in Paths : Survivor(files[p]) = files[p]
      /\ \A p \in Paths : files[p] # Absent => files[p].version \in Nat
      /\ \A p \in Paths : stable[p] # Absent => stable[p].version \in Nat
  BY SolidSurvives, FileFields DEF StoreInv, StoreTypeOK, Clocked, AllSolid
<1>2. ASSUME NEW f \in File, NEW n \in 1..3
      PROVE  Relinked(f, n).version = clock + 1
  BY <1>1, RelinkedFile
<1>3. CASE Quiet
  BY <1>1, <1>3, QuietSteps DEF StoreInv
<1>4. CASE PublishNew \/ PublishOver
  <2>1. temp \in File /\ call.path \in Paths
    BY <1>4 DEF PublishNew, PublishOver, StoreInv, StoreTypeOK, Staged, WithTemp
  <2>2. Relinked(temp, 1).version = clock + 1 /\ Relinked(temp, 2).version = clock + 1
    BY <1>2, <2>1
  <2> QED
    BY <1>1, <1>4, <2>1, <2>2 DEF PublishNew, PublishOver
<1>5. CASE Unlink
  <2>1. ASSUME StillOurs PROVE Relinked(Target, Target.links - 1).version = clock + 1
    <3>1. call.path \in Paths /\ Target \in File /\ Target.links - 1 \in 1..3
      BY <1>5, <2>1, FileFields DEF Unlink, StoreInv, StoreTypeOK, StillOurs, Target, Clocked
    <3> QED
      BY <1>2, <3>1
  <2>2. files' = IF StillOurs
                 THEN [files EXCEPT ![call.path] = Relinked(Target, Target.links - 1)] ELSE files
    BY <1>5 DEF Unlink, Target
  <2>3. clock' = clock + 1 /\ stable' = stable
    BY <1>5 DEF Unlink
  <2> QED
    BY <1>1, <2>1, <2>2, <2>3
<1>6. ASSUME NEW durable \in BOOLEAN, SyncDirectory(durable) PROVE FilesClocked'
  BY <1>1, <1>6 DEF SyncDirectory, Target, StoreInv, StoreTypeOK
<1>7. CASE CallAny \/ Return \/ Crash
  BY <1>1, <1>7 DEF CallAny, WriteAtomic, Return, Crash
<1>8. ASSUME NEW p \in Paths, NEW t \in Texts, NEW inPlace \in BOOLEAN,
             ExternalWrite(p, t, inPlace)
      PROVE  FilesClocked'
  <2>1. \A n : Plain(clock + 1, t, n).version = clock + 1
    BY DEF Plain
  <2> QED
    BY <1>1, <1>8, <2>1 DEF ExternalWrite
<1>9. ASSUME NEW p \in Paths, ExternalLink(p) PROVE FilesClocked'
  <2>1. files[p] \in File /\ files[p].links + 1 \in 1..3
    BY <1>1, <1>9, FileFields DEF ExternalLink
  <2> QED
    BY <1>1, <1>2, <1>9, <2>1 DEF ExternalLink
<1>10. ASSUME NEW p \in Paths, ExternalDelete(p) PROVE FilesClocked'
  BY <1>1, <1>10 DEF ExternalDelete
<1>11. ASSUME NEW p \in Paths, Writeback(p) PROVE FilesClocked'
  BY <1>1, <1>11 DEF Writeback
<1>12. CASE PowerLoss
  BY <1>1, <1>12 DEF PowerLoss
<1> QED
  BY <1>3, <1>4, <1>5, <1>6, <1>7, <1>8, <1>9, <1>10, <1>11, <1>12
  DEF StoreNext, CallStep, Environment, Quiet

\* Another program leaves the path of the call alone, removes the file, or puts
\* a version there that is newer than the published one.
LEMMA EnvironmentClocks ==
    ASSUME StoreTypeOK, CallClocked, FilesClocked, Environment
    PROVE  CallClocked'
<1> USE DEF CallClocked, After
<1>1. /\ files \in [Paths -> File \cup {Absent}] /\ clock \in Nat /\ call \in Call
      /\ (call.pc # "none" => call.path \in Paths)
      /\ call.version \in Nat /\ call.published \in Nat /\ clock + 1 \in Nat
      /\ \A p \in Paths : files[p] # Absent =>
            files[p].version \in Nat /\ files[p].version <= clock /\ files[p].links \in 1..3
  BY CallFields, FileFields DEF StoreTypeOK, FilesClocked
<1>2. ASSUME NEW p \in Paths, NEW v \in Nat, call' = Touched(p, v), v <= clock',
             clock' \in Nat, clock <= clock'
      PROVE  /\ call'.pc = call.pc /\ call'.path = call.path
             /\ call'.published = call.published
             /\ call'.version \in {v, call.version}
             /\ call'.version # call.version => p = call.path
             /\ call'.version <= clock' /\ call'.published <= clock'
  BY <1>1, <1>2 DEF Touched, Call
<1>3. ASSUME NEW p \in Paths, NEW t \in Texts, NEW inPlace \in BOOLEAN,
             ExternalWrite(p, t, inPlace)
      PROVE  CallClocked'
  <2> DEFINE v == IF inPlace /\ StillOurs THEN clock + 1 ELSE call.version
             n == IF inPlace THEN files[p].links ELSE 1
  <2>1. v \in Nat /\ v <= clock' /\ clock' = clock + 1 /\ call' = Touched(p, v)
    BY <1>1, <1>3 DEF ExternalWrite
  <2>2. /\ call'.pc = call.pc /\ call'.path = call.path
        /\ call'.published = call.published
        /\ call'.version \in {v, call.version}
        /\ call'.version <= clock' /\ call'.published <= clock'
    BY <1>1, <1>2, <2>1
  <2>3. files' = [files EXCEPT ![p] = Plain(clock + 1, t, n)]
    BY <1>3 DEF ExternalWrite
  <2>4. CASE p # call.path
    <3>1. call' = call
      BY <2>1, <2>4 DEF Touched
    <3>2. call.path \in Paths => files'[call.path] = files[call.path]
      BY <1>1, <2>3, <2>4
    <3> QED
      BY <1>1, <2>2, <3>1, <3>2 DEF StillOurs, Target
  <2>5. CASE p = call.path
    <3>1. Target' = Plain(clock + 1, t, n)
      BY <1>1, <2>2, <2>3, <2>5 DEF Target
    <3>2. Target'.version = clock + 1 /\ Target'.links = n
      BY <3>1 DEF Plain
    <3>3. ASSUME call'.pc = "unlink", StillOurs' PROVE Target'.links >= 2
      <4>1. call'.version = clock + 1
        BY <3>2, <3>3 DEF StillOurs
      <4>2. inPlace /\ StillOurs
        BY <1>1, <2>2, <4>1
      <4> QED
        BY <1>1, <2>2, <2>5, <3>2, <3>3, <4>2 DEF Target
    <3> QED
      BY <1>1, <2>2, <3>2, <3>3, <2>1
  <2> QED
    BY <2>4, <2>5
<1>4. ASSUME NEW p \in Paths, ExternalLink(p) PROVE CallClocked'
  <2> DEFINE v == IF StillOurs THEN clock + 1 ELSE call.version
  <2>1. v \in Nat /\ v <= clock' /\ clock' = clock + 1 /\ call' = Touched(p, v)
    BY <1>1, <1>4 DEF ExternalLink
  <2>2. /\ call'.pc = call.pc /\ call'.path = call.path
        /\ call'.published = call.published
        /\ call'.version \in {v, call.version}
        /\ call'.version <= clock' /\ call'.published <= clock'
    BY <1>1, <1>2, <2>1
  <2>3. files[p] \in File /\ files[p].links + 1 \in 1..3
    BY <1>1, <1>4, FileFields DEF ExternalLink
  <2>4. /\ files' = [files EXCEPT ![p] = Relinked(files[p], files[p].links + 1)]
        /\ Relinked(files[p], files[p].links + 1).version = clock + 1
        /\ Relinked(files[p], files[p].links + 1).links = files[p].links + 1
    BY <1>1, <1>4, <2>3, RelinkedFile DEF ExternalLink
  <2>5. CASE p # call.path
    <3>1. call' = call
      BY <2>1, <2>5 DEF Touched
    <3>2. call.path \in Paths => files'[call.path] = files[call.path]
      BY <1>1, <2>4, <2>5
    <3> QED
      BY <1>1, <2>2, <3>1, <3>2 DEF StillOurs, Target
  <2>6. CASE p = call.path
    <3>1. Target' = Relinked(files[p], files[p].links + 1)
      <4>1. call'.path = p
        BY <2>2, <2>6
      <4> QED
        BY <1>1, <2>4, <4>1 DEF Target
    <3>2. Target'.version = clock + 1 /\ Target'.links = files[p].links + 1
      BY <2>4, <3>1
    <3>3. files[p].links + 1 >= 2
      BY <1>1, <2>3, FileFields
    <3> QED
      BY <1>1, <2>1, <2>2, <3>2, <3>3
  <2> QED
    BY <2>5, <2>6
<1>5. ASSUME NEW p \in Paths, ExternalDelete(p) PROVE CallClocked'
  <2>1. call' = Touched(p, call.version) /\ clock' = clock
        /\ files' = [files EXCEPT ![p] = Absent]
    BY <1>5 DEF ExternalDelete
  <2>2. /\ call'.pc = call.pc /\ call'.path = call.path
        /\ call'.published = call.published /\ call'.version = call.version
    BY <1>1, <1>2, <2>1
  <2>3. call.path \in Paths => files'[call.path] \in {files[call.path], Absent}
    BY <1>1, <2>1
  <2> QED
    BY <1>1, <2>1, <2>2, <2>3 DEF StillOurs, Target
<1> QED
  BY <1>3, <1>4, <1>5 DEF Environment

LEMMA StepKeepsCallClocked ==
    ASSUME StoreInv, StoreNext
    PROVE  CallClocked'
<1> USE DEF CallClocked, After
<1>1. /\ StoreTypeOK /\ CallClocked
      /\ files \in [Paths -> File \cup {Absent}] /\ clock \in Nat /\ call \in Call
      /\ (call.pc # "none" => call.path \in Paths)
      /\ call.version \in Nat /\ call.published \in Nat
      /\ \A p \in Paths : files[p] # Absent =>
            files[p].version \in Nat /\ files[p].version <= clock /\ files[p].links \in 1..3
  BY CallFields, FileFields DEF StoreInv, StoreTypeOK, Clocked
<1>2. CASE Quiet
  <2>1. /\ call'.pc # "unlink"
        /\ call'.pc \in After => call.pc = "stat"
    BY <1>1, <1>2 DEF Quiet, Inspect, Verify, CreateTemp, Fill, Flush, Recheck, PublishFails,
                      Stat, Step, Raise, Goto, Call
  <2>2. UNCHANGED <<files, clock>> /\ call'.path = call.path
        /\ call'.version = call.version /\ call'.published = call.published
    BY <1>2, QuietSteps DEF StoreInv
  <2> QED
    BY <1>1, <2>1, <2>2 DEF Target
<1>3. CASE PublishNew
  <2>1. temp \in File /\ call.path \in Paths
    BY <1>3 DEF PublishNew, StoreInv, StoreTypeOK, Staged, WithTemp
  <2>2. Relinked(temp, 2).version = clock + 1 /\ Relinked(temp, 2).links = 2
    BY <1>1, <2>1, RelinkedFile
  <2>3. call'.path = call.path /\ call'.version = clock + 1 /\ call'.published = clock + 1
    BY <1>1, <1>3 DEF PublishNew, Call
  <2>4. files'[call.path] = Relinked(temp, 2) /\ clock' = clock + 1
    BY <1>1, <1>3, <2>1 DEF PublishNew
  <2> QED
    BY <1>1, <2>2, <2>3, <2>4 DEF Target
<1>4. CASE PublishOver
  <2>1. temp \in File /\ call.path \in Paths
    BY <1>4 DEF PublishOver, StoreInv, StoreTypeOK, Staged, WithTemp
  <2>2. Relinked(temp, 1).version = clock + 1
    BY <1>1, <2>1, RelinkedFile
  <2>3. call'.path = call.path /\ call'.version = clock + 1 /\ call'.published = clock + 1
        /\ call'.pc = "stat"
    BY <1>1, <1>4 DEF PublishOver, Call
  <2>4. files'[call.path] = Relinked(temp, 1) /\ clock' = clock + 1
    BY <1>1, <1>4, <2>1 DEF PublishOver
  <2> QED
    BY <1>1, <2>2, <2>3, <2>4 DEF Target
<1>5. CASE Unlink
  <2>1. call.pc = "unlink" /\ call.path \in Paths /\ clock' = clock + 1
    BY <1>1, <1>5 DEF Unlink
  <2>2. call'.path = call.path /\ call'.version = clock + 1 /\ call'.pc = "stat"
        /\ call'.published = call.published
    BY <1>1, <1>5 DEF Unlink, Call
  <2>3. CASE StillOurs
    <3>1. Target \in File /\ Target.links - 1 \in 1..3
      BY <1>1, <2>1, <2>3, FileFields DEF StillOurs, Target
    <3>2. Relinked(Target, Target.links - 1).version = clock + 1
      BY <1>1, <3>1, RelinkedFile
    <3>3. files'[call.path] = Relinked(Target, Target.links - 1)
      BY <1>1, <1>5, <2>1, <2>3 DEF Unlink, Target
    <3> QED
      BY <1>1, <2>1, <2>2, <3>2, <3>3 DEF Target
  <2>4. CASE ~StillOurs
    <3>1. files' = files
      BY <1>5, <2>4 DEF Unlink
    <3> QED
      BY <1>1, <2>1, <2>2, <3>1 DEF Target
  <2> QED
    BY <2>3, <2>4
<1>6. ASSUME NEW durable \in BOOLEAN, SyncDirectory(durable) PROVE CallClocked'
  BY <1>1, <1>6 DEF SyncDirectory, Target, Call
<1>7. CASE CallAny
  <2>1. PICK t \in Texts, p \in Paths, e \in Known : WriteAtomic(t, p, e)
    BY <1>7 DEF CallAny
  <2>2. call'.pc = "inspect" /\ call'.version = 0 /\ call'.published = 0 /\ clock' = clock
    BY <2>1 DEF WriteAtomic, NoCall
  <2> QED
    BY <1>1, <2>2
<1>8. CASE Return \/ Crash \/ PowerLoss
  BY <1>1, <1>8 DEF Return, Crash, PowerLoss, NoCall
<1>9. CASE Environment
  BY <1>1, <1>9, EnvironmentClocks DEF StoreInv, Clocked, FilesClocked
<1>10. ASSUME NEW p \in Paths, Writeback(p) PROVE CallClocked'
  BY <1>1, <1>10 DEF Writeback, Target, StillOurs
<1> QED
  BY <1>2, <1>3, <1>4, <1>5, <1>6, <1>7, <1>8, <1>9, <1>10
  DEF StoreNext, CallStep, Quiet

\* A path only gets newer files while its report stands.
LEMMA StepKeepsKept ==
    ASSUME StoreInv, StoreNext
    PROVE  AllKept'
<1> USE DEF AllKept, Kept
<1>1. /\ StoreTypeOK /\ AllKept /\ clock \in Nat /\ clock <= clock + 1
      /\ files \in [Paths -> File \cup {Absent}] /\ stable \in [Paths -> File \cup {Absent}]
      /\ \A p \in Paths : Survivor(files[p]) = files[p]
      /\ \A r \in reported : r.path \in Paths /\ r.version \in Nat
  BY SolidSurvives DEF StoreInv, StoreTypeOK, AllSolid, Reported
\* A new version of one file, and nothing else, keeps every report.
<1>2. ASSUME NEW p \in Paths, NEW f \in File, f.version = clock + 1,
             files' = [files EXCEPT ![p] = f], clock' = clock + 1,
             UNCHANGED <<stable, reported>>
      PROVE  AllKept'
  <2>1. f # Absent
    BY FileFields
  <2>2. ASSUME NEW r \in reported PROVE r.version <= clock' /\ Kept(r)'
    <3>1. r.path \in Paths /\ r.version \in Nat /\ r.version <= clock /\ r.version <= clock + 1
      BY <1>1
    <3>2. CASE r.path = p
      BY <1>1, <1>2, <2>1, <3>1, <3>2
    <3>3. CASE r.path # p
      BY <1>1, <1>2, <3>1, <3>3
    <3> QED
      BY <3>2, <3>3
  <2> QED
    BY <1>2, <2>2
<1>3. CASE Quiet
  BY <1>1, <1>3, QuietSteps DEF StoreInv
<1>4. CASE PublishNew \/ PublishOver
  <2>1. temp \in File /\ call.path \in Paths
    BY <1>4 DEF PublishNew, PublishOver, StoreInv, StoreTypeOK, Staged, WithTemp
  <2>2. /\ Relinked(temp, 1) \in File /\ Relinked(temp, 1).version = clock + 1
        /\ Relinked(temp, 2) \in File /\ Relinked(temp, 2).version = clock + 1
    BY <1>1, <2>1, RelinkedFile
  <2> QED
    BY <1>2, <1>4, <2>1, <2>2 DEF PublishNew, PublishOver
<1>5. CASE Unlink
  <2>1. clock' = clock + 1 /\ UNCHANGED <<stable, reported>>
    BY <1>5 DEF Unlink
  <2>2. CASE StillOurs
    <3>1. call.path \in Paths /\ Target \in File /\ Target.links - 1 \in 1..3
      BY <1>5, <2>2, FileFields DEF Unlink, StoreInv, StoreTypeOK, StillOurs, Target, Clocked
    <3>2. /\ Relinked(Target, Target.links - 1) \in File
          /\ Relinked(Target, Target.links - 1).version = clock + 1
      BY <1>1, <3>1, RelinkedFile
    <3>3. files' = [files EXCEPT ![call.path] = Relinked(Target, Target.links - 1)]
      BY <1>5, <2>2 DEF Unlink, Target
    <3> QED
      BY <1>2, <2>1, <3>1, <3>2, <3>3
  <2>3. CASE ~StillOurs
    <3>1. files' = files
      BY <1>5, <2>3 DEF Unlink
    <3> QED
      BY <1>1, <2>1, <3>1
  <2> QED
    BY <2>2, <2>3
<1>6. ASSUME NEW durable \in BOOLEAN, SyncDirectory(durable) PROVE AllKept'
  <2>1. /\ call.pc = "sync" /\ call.path \in Paths
        /\ call.published \in Nat /\ call.published <= clock
        /\ UNCHANGED <<files, clock>>
        /\ Target # Absent => Target.version >= call.published
    BY <1>6, CallFields DEF SyncDirectory, StoreInv, StoreTypeOK, Clocked, After
  <2>2. CASE durable
    <3>1. stable' = [stable EXCEPT ![call.path] = files[call.path]]
      BY <1>1, <1>6, <2>1, <2>2 DEF SyncDirectory, Target
    <3>2. ASSUME NEW r \in reported PROVE r.version <= clock' /\ Kept(r)'
      BY <1>1, <2>1, <3>1
    <3>3. ASSUME NEW r, r = [path |-> call.path, version |-> call.published], Target # Absent
          PROVE  r.version <= clock' /\ Kept(r)'
      BY <1>1, <2>1, <3>1, <3>3 DEF Target
    <3> QED
      BY <1>6, <2>2, <3>2, <3>3 DEF SyncDirectory
  <2>3. CASE ~durable
    BY <1>1, <1>6, <2>3 DEF SyncDirectory
  <2> QED
    BY <2>2, <2>3
<1>7. CASE CallAny \/ Return \/ Crash
  BY <1>1, <1>7 DEF CallAny, WriteAtomic, Return, Crash
<1>8. ASSUME NEW p \in Paths, NEW t \in Texts, NEW inPlace \in BOOLEAN,
             ExternalWrite(p, t, inPlace)
      PROVE  AllKept'
  <2> DEFINE f == Plain(clock + 1, t, IF inPlace THEN files[p].links ELSE 1)
  <2>1. (IF inPlace THEN files[p].links ELSE 1) \in 1..3 /\ clock + 1 \in Nat
    BY <1>1, <1>8, FileFields DEF ExternalWrite
  <2>2. f \in File /\ f.version = clock + 1
    BY <2>1 DEF Plain, File
  <2> QED
    BY <1>2, <1>8, <2>2 DEF ExternalWrite
<1>9. ASSUME NEW p \in Paths, ExternalLink(p) PROVE AllKept'
  <2>1. files[p] \in File /\ files[p].links + 1 \in 1..3
    BY <1>1, <1>9, FileFields DEF ExternalLink
  <2>2. /\ Relinked(files[p], files[p].links + 1) \in File
        /\ Relinked(files[p], files[p].links + 1).version = clock + 1
    BY <1>1, <2>1, RelinkedFile
  <2> QED
    BY <1>2, <1>9, <2>2 DEF ExternalLink
<1>10. ASSUME NEW p \in Paths, ExternalDelete(p) PROVE AllKept'
  BY <1>1, <1>10 DEF ExternalDelete
<1>11. ASSUME NEW p \in Paths, Writeback(p) PROVE AllKept'
  <2>1. stable' = [stable EXCEPT ![p] = files[p]] /\ UNCHANGED <<files, clock, reported>>
    BY <1>1, <1>11 DEF Writeback
  <2> QED
    BY <1>1, <2>1
<1>12. CASE PowerLoss
  BY <1>1, <1>12 DEF PowerLoss
<1> QED
  BY <1>3, <1>4, <1>5, <1>6, <1>7, <1>8, <1>9, <1>10, <1>11, <1>12
  DEF StoreNext, CallStep, Environment, Quiet

(***************************************************************************)
(* The identity a save returns, and the versions a publication replaces.   *)
(***************************************************************************)
\* From the publication on, the path holds the published inode in the version
\* the call knows, unless another program has touched the path.
Ours ==
    call.pc \in After /\ ~call.touched =>
        Target # Absent /\ Target.version = call.version /\ Target.text = call.text

\* The stages after the link count was found to be one.
Verified == {"create", "fill", "flush", "recheck"}

\* What is known of the file about to be replaced.  A version names one state
\* of a path, its link count included, so the second comparison also repeats
\* the check that was made on the link count before the first.
Compared ==
    /\ call.checked <= clock
    /\ call.expected # NoIdentity => call.expected.version <= clock
    /\ call.pc \in Verified /\ call.expected # NoIdentity => call.links = 1
    /\ call.pc \in Verified \cup {"verify"} /\ call.expected # NoIdentity /\ Unchanged =>
         Target.links = call.links
    /\ call.pc = "publish" /\ call.expected # NoIdentity /\ Target # Absent =>
         \/ IdentityOf(Target) = call.expected /\ Target.links = 1
         \/ Target.version > call.checked

ReplaceInv == Ours /\ Compared

\* Another program leaves the path of the call alone; or it touches the path,
\* which then holds nothing or a version nobody has seen before.
LEMMA EnvironmentTarget ==
    ASSUME StoreTypeOK, Environment, call.pc # "none"
    PROVE  /\ call'.pc = call.pc /\ call'.expected = call.expected
           /\ call'.links = call.links /\ call'.checked = call.checked
           /\ clock' \in {clock, clock + 1}
           /\ \/ call' = call /\ Target' = Target
              \/ /\ call.published # 0 => call'.touched
                 /\ Target' # Absent => Target'.version = clock + 1 /\ clock' = clock + 1
<1>1. /\ files \in [Paths -> File \cup {Absent}] /\ clock \in Nat /\ call \in Call
      /\ call.path \in Paths
  BY DEF StoreTypeOK
<1>2. ASSUME NEW p \in Paths, NEW v, call' = Touched(p, v)
      PROVE  /\ call'.pc = call.pc /\ call'.expected = call.expected
             /\ call'.links = call.links /\ call'.checked = call.checked
             /\ call'.path = call.path
             /\ p # call.path => call' = call
             /\ p = call.path /\ call.published # 0 => call'.touched
  BY <1>1, <1>2 DEF Touched, Call
<1>3. ASSUME NEW p \in Paths, NEW f, NEW v, call' = Touched(p, v),
             files' = [files EXCEPT ![p] = f],
             f # Absent => f.version = clock + 1 /\ clock' = clock + 1
      PROVE  \/ call' = call /\ Target' = Target
             \/ /\ call.published # 0 => call'.touched
                /\ Target' # Absent => Target'.version = clock + 1 /\ clock' = clock + 1
  <2>1. CASE p = call.path
    BY <1>1, <1>2, <1>3, <2>1 DEF Target
  <2>2. CASE p # call.path
    BY <1>1, <1>2, <1>3, <2>2 DEF Target
  <2> QED
    BY <2>1, <2>2
<1>4. ASSUME NEW p \in Paths, NEW t \in Texts, NEW inPlace \in BOOLEAN,
             ExternalWrite(p, t, inPlace)
      PROVE  \E v, f : /\ call' = Touched(p, v) /\ files' = [files EXCEPT ![p] = f]
                       /\ f.version = clock + 1 /\ clock' = clock + 1
  BY <1>4 DEF ExternalWrite, Plain
<1>5. ASSUME NEW p \in Paths, ExternalLink(p)
      PROVE  \E v, f : /\ call' = Touched(p, v) /\ files' = [files EXCEPT ![p] = f]
                       /\ f.version = clock + 1 /\ clock' = clock + 1
  <2>1. files[p] \in File /\ files[p].links + 1 \in 1..3
    BY <1>1, <1>5, FileFields DEF ExternalLink
  <2>2. Relinked(files[p], files[p].links + 1).version = clock + 1
    BY <1>1, <2>1, RelinkedFile
  <2> QED
    BY <1>5, <2>2 DEF ExternalLink
<1>6. ASSUME NEW p \in Paths, ExternalDelete(p)
      PROVE  call' = Touched(p, call.version) /\ files' = [files EXCEPT ![p] = Absent]
             /\ clock' = clock
  BY <1>6 DEF ExternalDelete
<1> QED
  BY <1>2, <1>3, <1>4, <1>5, <1>6 DEF Environment

LEMMA StepKeepsOurs ==
    ASSUME StoreInv, Ours, StoreNext
    PROVE  Ours'
<1> USE DEF Ours, After
<1>1. /\ StoreTypeOK /\ Staged /\ clock \in Nat /\ call \in Call
      /\ files \in [Paths -> File \cup {Absent}]
      /\ (call.pc # "none" => call.path \in Paths)
  BY DEF StoreInv, StoreTypeOK
<1>2. CASE Quiet
  <2>1. call'.pc \in After => call.pc = "stat" /\ call'.touched = call.touched
    BY <1>1, <1>2 DEF Quiet, Inspect, Verify, CreateTemp, Fill, Flush, Recheck, PublishFails,
                      Stat, Step, Raise, Goto, Call
  <2>2. /\ files' = files /\ call'.path = call.path /\ call'.text = call.text
        /\ call'.version = call.version
    BY <1>1, <1>2, QuietSteps
  <2> QED
    BY <2>1, <2>2 DEF Target
<1>3. CASE PublishNew \/ PublishOver
  <2>1. temp \in File /\ call.path \in Paths /\ temp.text = call.text
    BY <1>1, <1>3 DEF PublishNew, PublishOver, StoreTypeOK, Staged, WithTemp
  <2>2. \A n \in {1, 2} : /\ Relinked(temp, n) # Absent
                          /\ Relinked(temp, n).version = clock + 1
                          /\ Relinked(temp, n).text = call.text
    BY <1>1, <2>1, RelinkedFile, FileFields
  <2>3. call'.path = call.path /\ call'.version = clock + 1 /\ call'.text = call.text
    BY <1>1, <1>3 DEF PublishNew, PublishOver, Call
  <2>4. \E n \in {1, 2} : files'[call.path] = Relinked(temp, n)
    BY <1>1, <1>3, <2>1 DEF PublishNew, PublishOver
  <2> QED
    BY <2>2, <2>3, <2>4 DEF Target
<1>4. CASE Unlink
  <2>1. call.pc = "unlink" /\ call.path \in Paths
    BY <1>1, <1>4 DEF Unlink
  <2>2. call'.path = call.path /\ call'.version = clock + 1 /\ call'.text = call.text
        /\ call'.touched = call.touched
    BY <1>1, <1>4 DEF Unlink, Call
  <2>3. ASSUME ~call.touched
        PROVE  Target' # Absent /\ Target'.version = clock + 1 /\ Target'.text = call.text
    <3>1. StillOurs /\ Target.text = call.text
      BY <2>1, <2>3 DEF StillOurs
    <3>2. Target \in File /\ Target.links - 1 \in 1..3
      BY <1>1, <2>1, <3>1, FileFields DEF StoreInv, Clocked, StillOurs, Target
    <3>3. files'[call.path] = Relinked(Target, Target.links - 1)
      BY <1>1, <1>4, <2>1, <3>1 DEF Unlink, Target
    <3> QED
      BY <1>1, <2>2, <3>1, <3>2, <3>3, RelinkedFile, FileFields DEF Target
  <2> QED
    BY <2>2, <2>3
<1>5. ASSUME NEW durable \in BOOLEAN, SyncDirectory(durable) PROVE Ours'
  BY <1>1, <1>5 DEF SyncDirectory, Target, Call
<1>6. CASE CallAny \/ Return \/ Crash \/ PowerLoss
  <2>1. CASE CallAny
    BY <2>1 DEF CallAny, WriteAtomic, NoCall
  <2>2. CASE Return \/ Crash \/ PowerLoss
    BY <2>2 DEF Return, Crash, PowerLoss, NoCall
  <2> QED
    BY <1>6, <2>1, <2>2
<1>7. CASE Environment
  <2>1. CASE call.pc \in After
    <3>1. call.published # 0 /\ call'.text = call.text
      BY <1>1, <1>7, <2>1, EnvironmentTypes DEF Staged
    <3>2. (call' = call /\ Target' = Target) \/ call'.touched
      BY <1>1, <1>7, <2>1, <3>1, EnvironmentTarget
    <3> QED
      BY <3>1, <3>2
  <2>2. CASE call.pc \notin After
    BY <1>1, <1>7, <2>2, EnvironmentTypes
  <2> QED
    BY <2>1, <2>2
<1>8. ASSUME NEW p \in Paths, Writeback(p) PROVE Ours'
  BY <1>8 DEF Writeback, Target
<1> QED
  BY <1>2, <1>3, <1>4, <1>5, <1>6, <1>7, <1>8 DEF StoreNext, CallStep, Quiet

LEMMA StepKeepsCompared ==
    ASSUME StoreInv, Compared, StoreNext
    PROVE  Compared'
<1> USE DEF Compared, Verified
<1>1. /\ StoreTypeOK /\ Staged /\ clock \in Nat /\ call \in Call
      /\ call.checked \in Nat /\ call.links \in 0..3
      /\ (call.expected # NoIdentity => call.expected.version \in Nat)
      /\ files \in [Paths -> File \cup {Absent}]
      /\ (call.pc # "none" => call.path \in Paths)
      /\ (call.pc # "none" => Target \in File \cup {Absent})
  BY DEF StoreInv, StoreTypeOK, Call, Identity, Target
\* The steps that only move on keep the clock, the files and the path.
<1>2. ASSUME Quiet
      PROVE  files' = files /\ clock' = clock /\ call'.path = call.path /\ call.pc # "none"
  BY <1>1, <1>2, QuietSteps
<1>3. CASE Inspect
  <2>1. /\ call.pc = "inspect" /\ files' = files /\ clock' = clock /\ call'.path = call.path
    BY <1>2, <1>3 DEF Quiet, Inspect, Step
  <2>2. CASE call' = [call EXCEPT !.pc = "failed"]
    BY <1>1, <2>1, <2>2 DEF Call
  <2>3. CASE /\ Target = Absent <=> call.expected = NoIdentity
             /\ call' = [call EXCEPT !.pc = IF Target = Absent THEN "create" ELSE "verify",
                                     !.links = IF Target = Absent THEN 0 ELSE Target.links]
    <3>1. /\ call'.checked = call.checked /\ call'.expected = call.expected
          /\ call'.pc = IF Target = Absent THEN "create" ELSE "verify"
          /\ Target # Absent => call'.links = Target.links
      BY <1>1, <2>3 DEF Call
    <3> QED
      BY <1>1, <2>1, <2>3, <3>1 DEF Target, Unchanged
  <2> QED
    BY <1>3, <2>2, <2>3 DEF Inspect, Step, Raise
<1>4. CASE Verify
  <2>1. /\ call.pc = "verify" /\ files' = files /\ clock' = clock /\ call'.path = call.path
    BY <1>2, <1>4 DEF Quiet, Verify, Step
  <2>2. \/ call' = [call EXCEPT !.pc = "failed"]
        \/ call' = [call EXCEPT !.pc = "create"] /\ call.links = 1
    BY <1>4 DEF Verify, Step, Raise, Goto
  <2>3. ASSUME NEW pc \in {"failed", "create"}, call' = [call EXCEPT !.pc = pc]
        PROVE  /\ call'.checked = call.checked /\ call'.expected = call.expected
               /\ call'.links = call.links /\ call'.pc = pc
    BY <1>1, <2>3 DEF Call
  <2> QED
    BY <1>1, <2>1, <2>2, <2>3 DEF Target, Unchanged
<1>5. CASE CreateTemp \/ Fill \/ Flush \/ PublishFails \/ Stat
  <2>1. files' = files /\ clock' = clock /\ call'.path = call.path
    BY <1>2, <1>5 DEF Quiet
  <2>2. /\ call'.checked = call.checked /\ call'.expected = call.expected
        /\ call'.links = call.links
        /\ call'.pc \in {"fill", "flush", "recheck"} => call.pc \in {"create", "fill", "flush"}
        /\ call'.pc \in {"fill", "flush", "recheck", "failed", "sync"}
    BY <1>1, <1>5 DEF CreateTemp, Fill, Flush, PublishFails, Stat, Step, Raise, Goto, Call
  <2> QED
    BY <1>1, <2>1, <2>2 DEF Target, Unchanged
<1>6. CASE Recheck
  <2>1. files' = files /\ clock' = clock /\ call'.path = call.path /\ call.pc = "recheck"
    BY <1>2, <1>6 DEF Quiet, Recheck, Step
  <2>2. CASE call' = [call EXCEPT !.pc = "failed"]
    BY <1>1, <2>1, <2>2 DEF Call
  <2>3. CASE /\ call.expected # NoIdentity => Unchanged
             /\ call' = [call EXCEPT !.pc = "publish", !.checked = clock]
    <3>1. call'.checked = clock /\ call'.expected = call.expected /\ call'.pc = "publish"
      BY <1>1, <2>3 DEF Call
    <3>2. call.expected # NoIdentity => IdentityOf(Target) = call.expected /\ Target.links = 1
      BY <1>1, <2>1, <2>3 DEF Unchanged
    <3> QED
      BY <1>1, <2>1, <3>1, <3>2 DEF Target
  <2> QED
    BY <1>6, <2>2, <2>3 DEF Recheck, Step, Raise
<1>7. CASE PublishNew \/ PublishOver \/ Unlink
  <2>1. /\ call'.checked = call.checked /\ call'.expected = call.expected
        /\ call'.pc \in {"unlink", "stat"} /\ clock' = clock + 1
    BY <1>1, <1>7 DEF PublishNew, PublishOver, Unlink, Call
  <2> QED
    BY <1>1, <2>1
<1>8. ASSUME NEW durable \in BOOLEAN, SyncDirectory(durable) PROVE Compared'
  <2>1. /\ call'.checked = call.checked /\ call'.expected = call.expected
        /\ call'.pc = "done" /\ clock' = clock
    BY <1>1, <1>8 DEF SyncDirectory, Call
  <2> QED
    BY <1>1, <2>1
<1>9. CASE CallAny
  <2>1. PICK t \in Texts, p \in Paths, e \in Known : WriteAtomic(t, p, e)
    BY <1>9 DEF CallAny
  <2>2. /\ call'.pc = "inspect" /\ call'.checked = 0 /\ call'.expected = e /\ clock' = clock
    BY <2>1 DEF WriteAtomic, NoCall
  <2>3. e # NoIdentity => e.version \in 0..clock
    BY DEF Known
  <2> QED
    BY <1>1, <2>2, <2>3
<1>10. CASE Return \/ Crash \/ PowerLoss
  <2>1. /\ call'.pc = "none" /\ call'.checked = 0 /\ call'.expected = NoIdentity
        /\ clock' = clock
    BY <1>10 DEF Return, Crash, PowerLoss, NoCall
  <2> QED
    BY <1>1, <2>1
<1>11. CASE Environment
  <2>1. CASE call.pc = "none"
    <3>1. call'.pc = "none" /\ clock <= clock' /\ clock' \in Nat
      BY <1>1, <1>11, <2>1, EnvironmentTypes
    <3>2. call'.checked = call.checked /\ call'.expected = call.expected
      BY <1>1, <1>11 DEF Environment, ExternalWrite, ExternalLink, ExternalDelete, Touched, Call
    <3> QED
      BY <1>1, <3>1, <3>2
  <2>2. CASE call.pc # "none"
    <3>1. /\ call'.pc = call.pc /\ call'.expected = call.expected
          /\ call'.links = call.links /\ call'.checked = call.checked
          /\ clock' \in {clock, clock + 1}
          /\ \/ Target' = Target
             \/ Target' # Absent => Target'.version = clock + 1
      BY <1>1, <1>11, <2>2, EnvironmentTarget
    <3>2. CASE Target' = Target
      BY <1>1, <3>1, <3>2 DEF Unchanged
    <3>3. CASE Target' # Absent => Target'.version = clock + 1
      <4>1. call.expected # NoIdentity => ~Unchanged'
        <5> SUFFICES ASSUME call.expected # NoIdentity, Unchanged' PROVE FALSE
          OBVIOUS
        <5>1. Target'.version = call.expected.version
          BY <3>1 DEF Unchanged, IdentityOf
        <5>2. Target'.version = clock + 1
          BY <3>3 DEF Unchanged
        <5> QED
          BY <1>1, <5>1, <5>2
      <4>2. Target' # Absent => Target'.version > call.checked
        BY <1>1, <3>3
      <4> QED
        BY <1>1, <3>1, <4>1, <4>2
    <3> QED
      BY <3>1, <3>2, <3>3
  <2> QED
    BY <2>1, <2>2
<1>12. ASSUME NEW p \in Paths, Writeback(p) PROVE Compared'
  BY <1>12 DEF Writeback, Target, Unchanged
<1> QED
  BY <1>3, <1>4, <1>5, <1>6, <1>7, <1>8, <1>9, <1>10, <1>11, <1>12
  DEF StoreNext, CallStep

(***************************************************************************)
(* The theorems.                                                           *)
(***************************************************************************)
LEMMA StepKeepsStoreInv ==
    ASSUME StoreInv, [StoreNext]_storeVars
    PROVE  StoreInv'
<1>1. CASE StoreNext
  <2>1. StoreTypeOK' /\ Staged' /\ AllSolid' /\ AllKept'
    BY <1>1, StepKeepsTypes, StepKeepsStaged, StepKeepsSolid, StepKeepsKept
  <2>2. Clocked'
    BY <1>1, StepKeepsFilesClocked, StepKeepsCallClocked
    DEF Clocked, FilesClocked, CallClocked
  <2> QED
    BY <2>1, <2>2 DEF StoreInv
<1>2. CASE UNCHANGED storeVars
  BY <1>2
  DEF storeVars, StoreInv, StoreTypeOK, Staged, AllSolid, Clocked, AllKept, Kept,
      StillOurs, Target
<1> QED
  BY <1>1, <1>2

LEMMA StepKeepsReplaceInv ==
    ASSUME StoreInv, ReplaceInv, [StoreNext]_storeVars
    PROVE  ReplaceInv'
<1>1. CASE StoreNext
  BY <1>1, StepKeepsOurs, StepKeepsCompared DEF ReplaceInv
<1>2. CASE UNCHANGED storeVars
  BY <1>2 DEF storeVars, ReplaceInv, Ours, Compared, Unchanged, Target
<1> QED
  BY <1>1, <1>2

\* The inductive invariant holds in every reachable state.
THEOREM StoreInvariance == StoreSpec => []StoreInv
  BY InitHolds, StepKeepsStoreInv, PTL DEF StoreSpec

\* ReplaceInv, what a call knows of the file that it replaces, is inductive.
THEOREM ReplaceInvariance == StoreSpec => []ReplaceInv
<1>1. StoreInit => ReplaceInv
  BY DEF StoreInit, ReplaceInv, Ours, Compared, After, Verified, NoCall
<1> QED
  BY <1>1, StoreInvariance, StepKeepsReplaceInv, PTL DEF StoreSpec

\* Every variable of the store keeps its type.
THEOREM StoreTypeCorrect == StoreSpec => []StoreTypeOK
<1>1. StoreInv => StoreTypeOK
  BY DEF StoreInv
<1> QED
  BY <1>1, StoreInvariance, PTL

\* No reader, before or after a power loss, finds half a document.
THEOREM NeverHalfAFile == StoreSpec => []WholeFiles
<1>1. StoreInv => WholeFiles
  BY ContractsAssumption DEF StoreInv, AllSolid, Solid, WholeFiles, Whole
<1> QED
  BY <1>1, StoreInvariance, PTL

\* When a call is over, however it ended, its temporary file is gone.
THEOREM TempIsGone == StoreSpec => []NoTempLeft
<1>1. StoreInv => NoTempLeft
  BY DEF StoreInv, Staged, WithTemp, NoTempLeft
<1> QED
  BY <1>1, StoreInvariance, PTL

\* A save that was reported durable survives a power loss.
THEOREM DurableIsDurable == StoreSpec => []DurableSurvives
<1>1. StoreInv => DurableSurvives
  BY DEF StoreInv, AllKept, Kept, DurableSurvives
<1> QED
  BY <1>1, StoreInvariance, PTL

\* A successful save returns the identity the file has, unless another program
\* has touched the path since, and then never the identity of other bytes.
THEOREM IdentityIsTrue == StoreSpec => []IdentityIsHonest
<1>1. ReplaceInv => IdentityIsHonest
  BY DEF ReplaceInv, Ours, After, IdentityIsHonest, IdentityOf, SavedIdentity
<1> QED
  BY <1>1, ReplaceInvariance, PTL

\* What a step of the store replaces, proved of any step from the invariant.
LEMMA StepReplacesExpected ==
    ASSUME StoreInv, ReplaceInv, [StoreNext]_storeVars, Publishing, Target # Absent
    PROVE  /\ call.expected # NoIdentity
           /\ \/ IdentityOf(Target) = call.expected /\ Target.links = 1
              \/ Target.version > call.checked
<1>1. call.pc = "publish" /\ call'.pc \in {"unlink", "stat"} /\ call \in Call
  BY DEF Publishing, StoreInv, StoreTypeOK
<1>2. ~CallAny /\ ~Return /\ ~Crash /\ ~PowerLoss
  BY <1>1 DEF CallAny, WriteAtomic, Return, Crash, PowerLoss, NoCall
<1>3. ~Environment
  BY <1>1, EnvironmentTypes DEF StoreInv
<1>4. ~(\E p \in Paths : Writeback(p)) /\ ~(UNCHANGED storeVars)
  BY <1>1 DEF Writeback, storeVars
<1>5. CallStep
  BY <1>2, <1>3, <1>4 DEF StoreNext
<1>6. PublishNew \/ PublishOver \/ PublishFails
  BY <1>1, <1>5 DEF CallStep, Inspect, Verify, CreateTemp, Fill, Flush, Recheck, Stat, Step,
                    Unlink, SyncDirectory
<1>7. ~PublishFails
  BY <1>1 DEF PublishFails, Raise, Call
<1>8. call.expected # NoIdentity
  BY <1>6, <1>7 DEF PublishNew, PublishOver
<1> QED
  BY <1>1, <1>8 DEF ReplaceInv, Compared

\* A publication replaces only the version the caller expected, under its only
\* name, or one that appeared after the last comparison.
THEOREM ReplacesOnlyExpected == StoreSpec => OnlyExpectedReplaced
<1>1. ASSUME StoreInv, ReplaceInv, [StoreNext]_storeVars
      PROVE  [ Publishing /\ Target # Absent =>
                 /\ call.expected # NoIdentity
                 /\ \/ IdentityOf(Target) = call.expected /\ Target.links = 1
                    \/ Target.version > call.checked ]_storeVars
  BY <1>1, StepReplacesExpected
<1> QED
  BY <1>1, StoreInvariance, ReplaceInvariance, PTL DEF StoreSpec, OnlyExpectedReplaced

(***************************************************************************)
(* Refinement: the system calls look like one atomic publication.          *)
(***************************************************************************)
\* The abstract request of a running call.
Req(c) == [path |-> c.path, text |-> c.text,
           stage |-> CASE c.pc = "done" -> "saved"
                       [] c.pc = "failed" -> "failed"
                       [] c.pc \in Running /\ c.published # 0 -> "published"
                       [] OTHER -> "asked"]

LEMMA RunningRequest ==
    ASSUME NEW c
    PROVE  /\ Req(c) # NoCall
           /\ Req(c).path = c.path /\ Req(c).text = c.text
           /\ c.pc = "done" => Req(c).stage = "saved"
           /\ c.pc = "failed" => Req(c).stage = "failed"
           /\ c.pc \in Running /\ c.published = 0 => Req(c).stage = "asked"
           /\ c.pc \in Running /\ c.published # 0 => Req(c).stage = "published"
<1>1. DOMAIN Req(c) = {"path", "text", "stage"}
  BY DEF Req
<1>2. "pc" \in DOMAIN NoCall
  BY DEF NoCall
<1>3. Req(c) # NoCall
  BY <1>1, <1>2
<1> QED
  BY <1>3 DEF Req, Running

\* A request with the same path and text is the same request up to its stage.
LEMMA RequestsDiffer ==
    ASSUME NEW c, NEW d, d.path = c.path, d.text = c.text, c.pc \in Running
    PROVE  /\ d.published = c.published /\ d.pc \in Running => Req(d) = Req(c)
           /\ d.pc = "failed" => Req(d) = [Req(c) EXCEPT !.stage = "failed"]
           /\ d.pc = "done" => Req(d) = [Req(c) EXCEPT !.stage = "saved"]
           /\ d.published # 0 /\ d.pc \in Running =>
                Req(d) = [Req(c) EXCEPT !.stage = "published"]
  BY DEF Req, Running

LEMMA InitMaps == StoreInit => Atomic!Init
<1> SUFFICES ASSUME StoreInit PROVE Atomic!Init
  OBVIOUS
<1>1. /\ StoreTypeOK /\ AllSolid /\ stable = files /\ call = NoCall
  BY InitHolds DEF StoreInv, StoreInit
<1>2. \A p \in Paths : Content(files[p]) \in Atomic!Content
  BY <1>1 DEF AllSolid, Solid, Content, Atomic!Content
<1>3. AbstractRequest = NoCall
  BY <1>1 DEF AbstractRequest, NoCall
<1> QED
  BY <1>1, <1>2, <1>3 DEF Atomic!Init

LEMMA StepMaps ==
    ASSUME StoreInv, StoreTypeOK', StoreNext
    PROVE  Atomic!Next \/ UNCHANGED Atomic!vars
<1> DEFINE disk == [p \in Paths |-> Content(files[p])]
           safe == [p \in Paths |-> Content(stable[p])]
<1>1. /\ call \in Call /\ call' \in Call
      /\ files \in [Paths -> File \cup {Absent}] /\ stable \in [Paths -> File \cup {Absent}]
      /\ (call.pc # "none" => call.path \in Paths /\ call.text \in Texts)
      /\ AllSolid /\ Staged /\ StoreTypeOK
      /\ \A p \in Paths : Survivor(files[p]) = files[p]
  BY SolidSurvives DEF StoreInv, StoreTypeOK, AllSolid
<1>2. /\ call.pc # "none" => AbstractRequest = Req(call)
      /\ call'.pc # "none" => AbstractRequest' = Req(call')
      /\ call.pc = "none" => AbstractRequest = NoCall
      /\ call'.pc = "none" => AbstractRequest' = NoCall
  BY DEF AbstractRequest, Req
<1>3. CASE CallAny
  <2>1. PICK t \in Texts, p \in Paths, e \in Known : WriteAtomic(t, p, e)
    BY <1>3 DEF CallAny
  <2>2. /\ call.pc = "none" /\ call'.pc = "inspect" /\ call'.path = p /\ call'.text = t
        /\ call'.published = 0 /\ UNCHANGED <<files, stable>>
    BY <2>1 DEF WriteAtomic, NoCall
  <2>3. AbstractRequest' = [path |-> p, text |-> t, stage |-> "asked"]
    BY <1>2, <2>2 DEF Req
  <2>4. Atomic!Begin(p, t)
    BY <1>2, <2>2, <2>3 DEF Atomic!Begin
  <2> QED
    BY <2>4 DEF Atomic!Next
<1>4. CASE Quiet
  <2>1. /\ UNCHANGED <<files, stable>> /\ call.pc \in Running
        /\ call'.pc \in Running \cup {"failed"} /\ call'.path = call.path
        /\ call'.text = call.text /\ call'.published = call.published
    <3>1. call.pc \in Running /\ call'.pc \in Running \cup {"failed"}
      BY <1>1, <1>4 DEF Quiet, Inspect, Verify, CreateTemp, Fill, Flush, Recheck, PublishFails,
                        Stat, Step, Raise, Goto, Call, Running
    <3> QED
      BY <1>1, <1>4, <3>1, QuietSteps
  <2>2. AbstractRequest = Req(call) /\ AbstractRequest' = Req(call')
    BY <1>2, <2>1 DEF Running
  <2>3. CASE call'.pc \in Running
    BY <2>1, <2>2, <2>3, RequestsDiffer DEF Atomic!vars
  <2>4. CASE call'.pc = "failed"
    <3>1. AbstractRequest' = [AbstractRequest EXCEPT !.stage = "failed"]
      BY <2>1, <2>2, <2>4, RequestsDiffer
    <3>2. AbstractRequest # NoCall /\ AbstractRequest.stage \in {"asked", "published"}
      BY <2>1, <2>2, RunningRequest
    <3> QED
      BY <2>1, <3>1, <3>2 DEF Atomic!Fail, Atomic!Next
  <2> QED
    BY <2>1, <2>3, <2>4
<1>5. CASE PublishNew \/ PublishOver
  <2>1. /\ call.pc = "publish" /\ UNCHANGED stable /\ call.published = 0
        /\ temp \in File /\ temp.text = call.text /\ clock + 1 # 0
        /\ call.path \in Paths
    BY <1>1, <1>5 DEF PublishNew, PublishOver, Staged, WithTemp, Before, StoreTypeOK
  <2>2. /\ call'.pc \in {"unlink", "stat"} /\ call'.published = clock + 1
        /\ call'.path = call.path /\ call'.text = call.text
    BY <1>1, <1>5 DEF PublishNew, PublishOver, Call
  <2>3. \E n \in {1, 2} : files' = [files EXCEPT ![call.path] = Relinked(temp, n)]
    BY <1>5 DEF PublishNew, PublishOver
  <2>4. \A n \in {1, 2} : Content(Relinked(temp, n)) = call.text
    BY <1>1, <2>1, RelinkedFile, FileFields DEF Content, StoreTypeOK
  <2>5. [p \in Paths |-> Content(files'[p])] = [disk EXCEPT ![call.path] = call.text]
    BY <1>1, <2>1, <2>3, <2>4
  <2>6. AbstractRequest = Req(call) /\ AbstractRequest' = Req(call')
    BY <1>2, <2>1, <2>2
  <2>7. AbstractRequest' = [AbstractRequest EXCEPT !.stage = "published"]
    BY <2>1, <2>2, <2>6, RequestsDiffer DEF Running
  <2>8. /\ AbstractRequest # NoCall /\ AbstractRequest.stage = "asked"
        /\ AbstractRequest.path = call.path /\ AbstractRequest.text = call.text
    BY <2>1, <2>6, RunningRequest DEF Running
  <2>9. Atomic!Publish
    BY <2>1, <2>5, <2>7, <2>8 DEF Atomic!Publish
  <2> QED
    BY <2>9 DEF Atomic!Next
<1>6. CASE Unlink
  <2>1. /\ call.pc = "unlink" /\ UNCHANGED stable /\ call.path \in Paths /\ clock \in Nat
    BY <1>1, <1>6 DEF Unlink, StoreTypeOK
  <2>2. call'.pc = "stat" /\ call'.published = call.published
        /\ call'.path = call.path /\ call'.text = call.text
    BY <1>1, <1>6 DEF Unlink, Call
  <2>3. ASSUME StillOurs
        PROVE  Content(Relinked(Target, Target.links - 1)) = Content(Target)
    <3>1. Target \in File /\ Target.links - 1 \in 1..3
      BY <1>1, <2>1, <2>3, FileFields DEF StoreInv, StillOurs, Target, Clocked
    <3>2. Relinked(Target, Target.links - 1) # Absent /\ Target # Absent
      BY <2>1, <3>1, RelinkedFile, FileFields
    <3> QED
      BY <2>1, <3>1, <3>2, RelinkedFile DEF Content
  <2>4. files' = IF StillOurs
                 THEN [files EXCEPT ![call.path] = Relinked(Target, Target.links - 1)] ELSE files
    BY <1>6 DEF Unlink, Target
  <2>5. [p \in Paths |-> Content(files'[p])] = disk
    BY <1>1, <2>1, <2>3, <2>4 DEF Target
  <2>6. AbstractRequest' = AbstractRequest
    BY <1>2, <2>1, <2>2, RequestsDiffer DEF Running
  <2> QED
    BY <2>1, <2>5, <2>6 DEF Atomic!vars
<1>7. ASSUME NEW durable \in BOOLEAN, SyncDirectory(durable)
      PROVE  Atomic!Next
  <2>1. /\ call.pc = "sync" /\ UNCHANGED files /\ call.path \in Paths
        /\ call.published # 0
    BY <1>1, <1>7 DEF SyncDirectory, Staged, After
  <2>2. call'.pc = "done" /\ call'.published = call.published
        /\ call'.path = call.path /\ call'.text = call.text
    BY <1>1, <1>7 DEF SyncDirectory, Call
  <2>3. stable' \in {stable, [stable EXCEPT ![call.path] = files[call.path]]}
    BY <1>1, <1>7, <2>1 DEF SyncDirectory, Target
  <2>4. [p \in Paths |-> Content(stable'[p])]
           \in {safe, [safe EXCEPT ![call.path] = disk[call.path]]}
    BY <1>1, <2>1, <2>3
  <2>5. AbstractRequest = Req(call) /\ AbstractRequest' = Req(call')
    BY <1>2, <2>1, <2>2
  <2>6. AbstractRequest' = [AbstractRequest EXCEPT !.stage = "saved"]
    BY <2>1, <2>2, <2>5, RequestsDiffer DEF Running
  <2>7. /\ AbstractRequest # NoCall /\ AbstractRequest.stage = "published"
        /\ AbstractRequest.path = call.path
    BY <2>1, <2>5, RunningRequest DEF Running
  <2>8. Atomic!Succeed
    BY <2>1, <2>4, <2>6, <2>7 DEF Atomic!Succeed
  <2> QED
    BY <2>8 DEF Atomic!Next
<1>8. CASE Return
  <2>1. call.pc \in {"done", "failed"} /\ call' = NoCall /\ UNCHANGED <<files, stable>>
    BY <1>8 DEF Return
  <2>2. AbstractRequest = Req(call) /\ AbstractRequest' = NoCall
    BY <1>2, <2>1 DEF NoCall
  <2>3. AbstractRequest # NoCall /\ AbstractRequest.stage \in {"saved", "failed"}
    BY <2>1, <2>2, RunningRequest
  <2> QED
    BY <2>1, <2>2, <2>3 DEF Atomic!Acknowledge, Atomic!Next
<1>9. CASE Environment
  <2>1. UNCHANGED <<stable, AbstractRequest>>
    BY <1>1, <1>2, <1>9, EnvironmentTypes DEF Req
  <2>2. ASSUME NEW p \in Paths, NEW t \in Texts, NEW inPlace \in BOOLEAN,
               ExternalWrite(p, t, inPlace)
        PROVE  Atomic!Change(p, t)
    <3>1. Plain(clock + 1, t, IF inPlace THEN files[p].links ELSE 1) # Absent
      <4>1. (IF inPlace THEN files[p].links ELSE 1) \in 1..3 /\ clock + 1 \in Nat
        BY <1>1, <2>2, FileFields DEF ExternalWrite, StoreTypeOK
      <4>2. Plain(clock + 1, t, IF inPlace THEN files[p].links ELSE 1) \in File
        BY <4>1 DEF Plain, File
      <4> QED
        BY <4>2, FileFields
    <3>2. [q \in Paths |-> Content(files'[q])] = [disk EXCEPT ![p] = t]
      BY <1>1, <2>2, <3>1 DEF ExternalWrite, Content, Plain
    <3> QED
      BY <2>1, <3>2 DEF Atomic!Change
  <2>3. ASSUME NEW p \in Paths, ExternalLink(p)
        PROVE  UNCHANGED Atomic!vars
    <3>1. files[p] \in File /\ files[p].links + 1 \in 1..3 /\ clock \in Nat
      BY <1>1, <2>3, FileFields DEF ExternalLink, StoreTypeOK
    <3>2. Content(Relinked(files[p], files[p].links + 1)) = Content(files[p])
      BY <3>1, RelinkedFile, FileFields DEF Content
    <3>3. [q \in Paths |-> Content(files'[q])] = disk
      BY <1>1, <2>3, <3>2 DEF ExternalLink
    <3> QED
      BY <2>1, <3>3 DEF Atomic!vars
  <2>4. ASSUME NEW p \in Paths, ExternalDelete(p)
        PROVE  Atomic!Change(p, Absent)
    <3>1. [q \in Paths |-> Content(files'[q])] = [disk EXCEPT ![p] = Absent]
      BY <1>1, <2>4 DEF ExternalDelete, Content
    <3> QED
      BY <2>1, <3>1 DEF Atomic!Change
  <2>5. ASSUME NEW p \in Paths, NEW c \in Texts \cup {Absent}, Atomic!Change(p, c)
        PROVE  Atomic!Next
    BY <2>5 DEF Atomic!Next, Atomic!Content
  <2> QED
    BY <1>9, <2>2, <2>3, <2>4, <2>5 DEF Environment
<1>10. ASSUME NEW p \in Paths, Writeback(p) PROVE Atomic!Next
  <2>1. stable' = [stable EXCEPT ![p] = files[p]] /\ UNCHANGED <<files, call>>
    BY <1>1, <1>10 DEF Writeback
  <2>2. [q \in Paths |-> Content(stable'[q])] = [safe EXCEPT ![p] = disk[p]]
    BY <1>1, <2>1
  <2>3. Atomic!Persist(p)
    BY <2>1, <2>2 DEF Atomic!Persist, AbstractRequest
  <2> QED
    BY <2>3 DEF Atomic!Next
<1>11. CASE Crash \/ PowerLoss
  <2>1. call' = NoCall /\ stable' = stable /\ files' \in {files, stable}
    BY <1>11 DEF Crash, PowerLoss
  <2>2. AbstractRequest' = NoCall
    BY <1>2, <2>1 DEF NoCall
  <2>3. Atomic!Die
    BY <2>1, <2>2 DEF Atomic!Die
  <2> QED
    BY <2>3 DEF Atomic!Next
<1> QED
  BY <1>3, <1>4, <1>5, <1>6, <1>7, <1>8, <1>9, <1>10, <1>11
  DEF StoreNext, CallStep, Quiet

\* writeAtomic, a system call at a time and with crashes between any two, does
\* what the abstract store promises: one atomic publication of a whole text,
\* and success reported only after it.
THEOREM StoreRefinement == StoreSpec => ImplementsAtomicStore
<1>1. ASSUME StoreInv, StoreTypeOK', [StoreNext]_storeVars
      PROVE  [Atomic!Next]_Atomic!vars
  <2>1. CASE StoreNext
    BY <1>1, <2>1, StepMaps
  <2>2. CASE UNCHANGED storeVars
    BY <2>2 DEF storeVars, Atomic!vars, AbstractRequest
  <2> QED
    BY <1>1, <2>1, <2>2
<1>2. StoreInv => StoreTypeOK
  BY DEF StoreInv
<1> QED
  BY <1>1, <1>2, InitMaps, StoreInvariance, PTL DEF StoreSpec, Atomic!Spec, ImplementsAtomicStore
=============================================================================
