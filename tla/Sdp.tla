-------------------------------- MODULE Sdp --------------------------------
(***************************************************************************)
(* The SDP explorer: SdpNavigation with its discovery, SdpToolJob, SdpWatch *)
(* and SdpPanel.  A watching thread notices changes below the SDP area; a  *)
(* tool runs in a child process and its answer is polled; the tree that is *)
(* on display, the document that was generated and the directories that    *)
(* hold such documents must belong together, while the reader edits,       *)
(* chooses something else, selects another project or keeps a menu open.   *)
(***************************************************************************)
EXTENDS Naturals, FiniteSets

CONSTANTS
    Projects,     \* work paths with an SDP area
    MaxVersion,   \* bound: changes of the one area that changes
    Absent,       \* the versions in which the area is not there
    MaxRequest,   \* bound: documents generated
    MaxFailures   \* three failing scans in a row end the watch

ASSUME SdpAssumption ==
    /\ {MaxVersion, MaxRequest} \subseteq Nat /\ MaxFailures \in Nat \ {0}
    /\ Absent \subseteq 1 .. MaxVersion /\ "" \notin Projects

VARIABLES
    area,       \* the version of each project's files
    session,    \* dirty; the document: 0, or that of the bundle with this number
    history,    \* bundles whose documents the visits still name
    nav,        \* SdpNavigation
    contexts,   \* the bundles that are owned, with what they were generated from
    bundles,    \* the directories there are, with what the tool put there
    sdpJob,     \* SdpToolJob: the child at work, or its result; same: the session's token is
                \* still the one that `activate` noted
    watch,      \* SdpWatch: the thread's locals and what the mutex guards
    explorer    \* SdpPanel

sdpVars == <<area, session, history, nav, contexts, bundles, sdpJob, watch, explorer>>

Versions == 0 .. MaxVersion
Never == MaxVersion + 1

\* What a discovery answers: the project, the version it was read at, and
\* whether the children of the SDL model are there or deferred.
Snapshot(root, version, loaded) == [root |-> root, version |-> version, loaded |-> loaded]
NoSnapshot == Snapshot("", 0, FALSE)

NoJob == [op |-> "", root |-> "", version |-> 0, request |-> 0, same |-> FALSE,
          done |-> "no", read |-> 0]

Watching == [alive |-> TRUE, initial |-> TRUE, previous |-> 0, pending |-> FALSE, failures |-> 0,
             changed |-> FALSE]

SdpInit ==
    \E root \in Projects :
       /\ area = [p \in Projects |-> 0]
       /\ session = [dirty |-> FALSE, doc |-> 0]
       /\ nav = [root |-> root, sources |-> NoSnapshot, pending |-> "actions", queued |-> FALSE,
                 lazy |-> FALSE, expansion |-> FALSE, bundle |-> 0, request |-> 0,
                 asked |-> Never]
       /\ sdpJob = [NoJob EXCEPT !.op = "actions", !.root = root]
       /\ history = {} /\ contexts = <<>> /\ bundles = <<>>
       /\ watch = Watching
       /\ explorer = [shown |-> NoSnapshot, deferred |-> NoSnapshot, clear |-> FALSE,
                   inContext |-> FALSE, stale |-> FALSE]

(***************************************************************************)
(* The tool.                                                               *)
(***************************************************************************)
Run(op, n, version) ==
    [NoJob EXCEPT !.op = op, !.root = n.root, !.version = version, !.request = n.bundle,
                  !.same = op = "select"]

\* The child has run: it read the area at some moment, or failed, was killed
\* by the deadline or exceeded a limit. A document goes into its bundle.
Execute(how) ==
    /\ sdpJob.op # "" /\ sdpJob.done = "no" /\ (how = "arguments" => sdpJob.op = "actions")
    /\ how = "ok" => area[sdpJob.root] \notin Absent
    /\ sdpJob' = [sdpJob EXCEPT !.done = how, !.read = area[sdpJob.root]]
    /\ bundles' = IF sdpJob.op = "select" /\ how = "ok"
                  THEN [bundles EXCEPT ![sdpJob.request] = Snapshot(sdpJob.root, area[sdpJob.root], TRUE)]
                  ELSE bundles
    /\ UNCHANGED <<area, session, history, nav, contexts, watch, explorer>>

(***************************************************************************)
(* SdpPanel: what arrives while the context menu is open waits.            *)
(***************************************************************************)
\* Mutant of Cleared: a snapshot that waits for the menu is kept.
ClearedKeeping(p) ==
    IF p.inContext THEN [p EXCEPT !.stale = TRUE, !.clear = TRUE]
    ELSE [p EXCEPT !.shown = NoSnapshot]

\* clear
Cleared(p) ==
    IF p.inContext THEN [p EXCEPT !.stale = TRUE, !.clear = TRUE, !.deferred = NoSnapshot]
    ELSE [p EXCEPT !.shown = NoSnapshot]

Presented(s) ==
    IF explorer.inContext THEN [explorer EXCEPT !.stale = TRUE, !.deferred = s]
    ELSE [explorer EXCEPT !.shown = s]

Current == IF explorer.deferred # NoSnapshot THEN explorer.deferred ELSE explorer.shown

OpenMenu ==
    /\ ~explorer.inContext /\ explorer.shown # NoSnapshot
    /\ explorer' = [explorer EXCEPT !.inContext = TRUE, !.stale = FALSE]
    /\ UNCHANGED <<area, session, history, nav, contexts, bundles, sdpJob, watch>>

\* The zero timer after the menu: a deferred clear, then a deferred snapshot.
Apply ==
    /\ explorer.inContext
    /\ explorer' = [explorer EXCEPT !.inContext = FALSE, !.clear = FALSE, !.deferred = NoSnapshot,
                    !.shown = IF explorer.deferred # NoSnapshot THEN explorer.deferred
                              ELSE IF explorer.clear THEN NoSnapshot ELSE @]
    /\ UNCHANGED <<area, session, history, nav, contexts, bundles, sdpJob, watch>>

(***************************************************************************)
(* SdpNavigation.                                                          *)
(***************************************************************************)
Without(f, b) == [x \in DOMAIN f \ {b} |-> f[x]]

\* discover: the area of the root, if it is there, is asked for its actions.
Discovering(n) ==
    IF area[n.root] \in Absent
    THEN [n EXCEPT !.sources = NoSnapshot, !.expansion = FALSE, !.queued = FALSE, !.asked = area[n.root]]
    ELSE [n EXCEPT !.pending = "actions", !.expansion = FALSE, !.queued = FALSE]

\* The tool and the tree after it; p is the tree before it.
DiscoverJob == IF nav'.pending = "" THEN NoJob ELSE Run("actions", nav', 0)
DiscoverPanel(p) == IF nav'.pending = "" THEN Cleared(p) ELSE p

\* cancelRequest: the child is killed, its answer dropped, its bundle removed.
Canceled(n) == [n EXCEPT !.pending = "", !.expansion = FALSE, !.bundle = 0]

\* Mutant of Interrupted: the discovery that is interrupted is not queued again.
InterruptedForgetting(n) == Canceled(n)

\* Activations and source views that interrupt a discovery queue another one.
Interrupted(n) ==
    Canceled([n EXCEPT !.queued = @ \/ n.pending \in {"actions", "discover"}])

SelectProject(root) ==
    /\ nav' = Discovering([Canceled(nav) EXCEPT !.root = root, !.sources = NoSnapshot,
                                          !.queued = FALSE, !.asked = Never])
    /\ sdpJob' = DiscoverJob
    /\ bundles' = Without(bundles, nav.bundle)
    /\ explorer' = DiscoverPanel(IF root = nav.root THEN explorer ELSE Cleared(explorer))
    /\ watch' = Watching
    /\ UNCHANGED <<area, session, history, contexts>>

\* activate: a view of the model, in the version the tree was read at; the
\* target comes from the tree or from the context of a generated document.
AskView(target, created) ==
    /\ target # NoSnapshot /\ nav.sources # NoSnapshot
    /\ target.root = nav.sources.root /\ ~session.dirty /\ nav.request < MaxRequest
    /\ LET b == nav.request + 1 IN
       IF created
       THEN /\ nav' = [Interrupted(nav) EXCEPT !.bundle = b, !.request = b,
                          !.pending = "select"]
            /\ sdpJob' = Run("select", nav', target.version)
            /\ bundles' = [x \in (DOMAIN bundles \ {nav.bundle}) \cup {b} |->
                             IF x = b THEN NoSnapshot ELSE bundles[x]]
       ELSE /\ nav' = [Interrupted(nav) EXCEPT !.request = b]
            /\ sdpJob' = NoJob /\ bundles' = Without(bundles, nav.bundle)
    /\ UNCHANGED <<area, session, history, contexts, watch, explorer>>

ActivateView(created) == ~explorer.inContext /\ AskView(explorer.shown, created)

\* follow: a link in a generated document, of the project that is selected.
FollowBundle(created) ==
    /\ session.doc \in DOMAIN contexts /\ contexts[session.doc].root = nav.root
    /\ AskView(contexts[session.doc], created)

\* openSource, from the menu: nothing has changed since it was opened. A file
\* of the project is opened in the same way ("open").
OpenSource(opens) ==
    /\ explorer.inContext /\ ~explorer.stale
    /\ nav.sources # NoSnapshot /\ explorer.shown.version = nav.sources.version
    /\ nav' = Interrupted(nav) /\ sdpJob' = NoJob
    /\ bundles' = Without(bundles, nav.bundle)
    /\ session' = IF opens THEN [dirty |-> FALSE, doc |-> 0] ELSE session
    /\ \E kept \in SUBSET history : history' = IF opens THEN kept ELSE history
    /\ UNCHANGED <<area, contexts, watch, explorer>>

\* nextExpansion
Expanding(n) ==
    IF n.pending # "" \/ ~n.expansion \/ n.queued THEN n
    ELSE [n EXCEPT !.pending = "tree", !.expansion = FALSE]

\* expandModel: the model's children were deferred.
ExpandModel ==
    /\ ~explorer.inContext /\ explorer.shown # NoSnapshot /\ ~explorer.shown.loaded /\ nav.lazy
    /\ nav.sources # NoSnapshot /\ explorer.shown.version = nav.sources.version
    /\ nav.pending # "tree"
    /\ nav' = Expanding([nav EXCEPT !.expansion = TRUE])
    /\ sdpJob' = IF nav'.pending = nav.pending THEN sdpJob ELSE Run("tree", nav', nav.sources.version)
    /\ UNCHANGED <<area, session, history, contexts, bundles, watch, explorer>>

(***************************************************************************)
(* poll: the answer of the tool.                                           *)
(***************************************************************************)
\* The end of poll: the bundle is discarded unless it was delivered.
Finished(n, delivered) ==
    /\ nav' = Expanding([n EXCEPT !.pending = "", !.bundle = 0])
    /\ sdpJob' = IF nav'.pending = "tree" THEN Run("tree", nav', n.sources.version) ELSE NoJob
    /\ bundles' = IF delivered THEN bundles ELSE Without(bundles, n.bundle)

\* The catalogue of actions, or a tool too old to have one.
PollActions(lazy) ==
    /\ nav.pending = "actions" /\ sdpJob.done \in {"ok", "arguments"}
    /\ nav' = [nav EXCEPT !.pending = "discover", !.lazy = lazy /\ sdpJob.done = "ok"]
    /\ sdpJob' = Run("discover", nav', 0)
    /\ UNCHANGED <<area, session, history, contexts, bundles, watch, explorer>>

PollDiscover ==
    /\ nav.pending = "discover" /\ sdpJob.done = "ok"
    /\ LET s == Snapshot(sdpJob.root, sdpJob.read, ~nav.lazy) IN
       /\ explorer' = Presented(s)
       /\ Finished([nav EXCEPT !.sources = s, !.expansion = FALSE, !.asked = sdpJob.read], FALSE)
    /\ UNCHANGED <<area, session, history, contexts, watch>>

\* mergeModel, into the tree as it will be shown; a stale one is refused.
PollTree ==
    /\ nav.pending = "tree" /\ sdpJob.done = "ok"
    /\ explorer' = IF Current.root = sdpJob.root /\ Current.version = sdpJob.version
                      /\ sdpJob.read = sdpJob.version /\ ~Current.loaded
                THEN Presented([Current EXCEPT !.loaded = TRUE]) ELSE explorer
    /\ Finished(nav, FALSE)
    /\ UNCHANGED <<area, session, history, contexts, watch>>

\* deliver: the session is as it was, the answer is the one asked for.
Deliverable ==
    ~session.dirty /\ sdpJob.same /\ sdpJob.read = sdpJob.version

PollSelect(opens) ==
    /\ nav.pending = "select" /\ sdpJob.done = "ok"
    /\ IF Deliverable /\ opens
       THEN /\ session' = [dirty |-> FALSE, doc |-> nav.bundle]
            /\ contexts' = [b \in DOMAIN contexts \cup {nav.bundle} |->
                              IF b = nav.bundle THEN Snapshot(sdpJob.root, sdpJob.version, TRUE) ELSE contexts[b]]
            /\ \E kept \in SUBSET history : history' = kept \cup {nav.bundle}
            /\ Finished(nav, TRUE)
       ELSE UNCHANGED <<session, contexts, history>> /\ Finished(nav, FALSE)
    /\ UNCHANGED <<area, watch, explorer>>

PollError ==
    /\ nav.pending # "" /\ sdpJob.done = "error"
    /\ Finished([nav EXCEPT !.asked = IF nav.pending \in {"actions", "discover"} THEN sdpJob.read ELSE @],
                FALSE)
    /\ UNCHANGED <<area, session, history, contexts, watch, explorer>>

PollTool ==
    \/ \E lazy \in BOOLEAN : PollActions(lazy)
    \/ PollDiscover \/ PollTree \/ PollError
    \/ \E opens \in BOOLEAN : PollSelect(opens)

(***************************************************************************)
(* pollWatch, every 250 ms.                                                *)
(***************************************************************************)
\* prune: bundles that neither the session nor a visit needs.  Those whose
\* files could not be removed, or all while the preview, the index or the
\* export is busy, stay until the next time.
Unused == IF nav.pending # "" THEN {} ELSE DOMAIN contexts \ (history \cup {session.doc})

PollWatch(gone) ==
    LET n == [nav EXCEPT !.queued = @ \/ watch.changed]
        start == n.queued /\ n.pending = ""
    IN /\ gone \subseteq Unused
       /\ watch' = [watch EXCEPT !.changed = FALSE]
       /\ contexts' = [b \in DOMAIN contexts \ gone |-> contexts[b]]
       /\ bundles' = [b \in DOMAIN bundles \ gone |-> bundles[b]]
       /\ nav' = IF start THEN Discovering(n) ELSE n
       /\ sdpJob' = IF start THEN DiscoverJob ELSE sdpJob
       /\ explorer' = IF start THEN DiscoverPanel(explorer) ELSE explorer
       /\ UNCHANGED <<area, session, history>>

(***************************************************************************)
(* The watching thread: a scan every 400 ms, or three failures in a row.   *)
(***************************************************************************)
\* Mutant of FirstScan: the baseline is taken without a reconciliation.
FirstScanQuiet(version) == [watch EXCEPT !.initial = FALSE, !.previous = version, !.failures = 0]

FirstScan(version) ==
    [watch EXCEPT !.initial = FALSE, !.previous = version, !.failures = 0, !.changed = TRUE]

\* A change is reported when the area has come to rest, or after two seconds.
Scan(late) ==
    /\ watch.alive
    /\ LET version == area[nav.root]
           different == version # watch.previous
           pending == watch.pending \/ different
           report == pending /\ (~different \/ (late /\ watch.pending))
       IN watch' = IF watch.initial THEN FirstScan(version)
                   ELSE [watch EXCEPT !.previous = version, !.failures = 0,
                            !.pending = pending /\ ~report, !.changed = @ \/ report]
    /\ UNCHANGED <<area, session, history, nav, contexts, bundles, sdpJob, explorer>>

ScanFails ==
    /\ watch.alive
    /\ watch' = [watch EXCEPT !.failures = @ + 1, !.alive = watch.failures + 1 < MaxFailures]
    /\ UNCHANGED <<area, session, history, nav, contexts, bundles, sdpJob, explorer>>

(***************************************************************************)
(* The reader and other programs.                                          *)
(***************************************************************************)
ChangeArea(p) ==
    /\ area[p] < MaxVersion /\ \A q \in Projects \ {p} : area[q] = 0
    /\ area' = [area EXCEPT ![p] = @ + 1]
    /\ UNCHANGED <<session, history, nav, contexts, bundles, sdpJob, watch, explorer>>

EditText ==
    /\ session' = [session EXCEPT !.dirty = TRUE]
    /\ sdpJob' = [sdpJob EXCEPT !.same = FALSE]
    /\ UNCHANGED <<area, history, nav, contexts, bundles, watch, explorer>>

SaveText ==
    /\ session.dirty
    /\ session' = [session EXCEPT !.dirty = FALSE]
    /\ UNCHANGED <<area, history, nav, contexts, bundles, sdpJob, watch, explorer>>

\* Another document: the visits may forget some bundles, or go back to one.
Visit(doc) ==
    /\ doc \in history \cup {0}
    /\ session' = [dirty |-> FALSE, doc |-> doc]
    /\ \E kept \in SUBSET history : history' = kept \cup ({doc} \ {0})
    /\ sdpJob' = [sdpJob EXCEPT !.same = FALSE]
    /\ UNCHANGED <<area, nav, contexts, bundles, watch, explorer>>

SdpNext ==
    \/ \E how \in {"ok", "error", "arguments"} : Execute(how)
    \/ OpenMenu \/ Apply \/ ExpandModel
    \/ \E done \in BOOLEAN : ActivateView(done) \/ FollowBundle(done) \/ OpenSource(done)
    \/ \E root \in Projects : SelectProject(root) \/ ChangeArea(root)
    \/ PollTool
    \/ \E gone \in SUBSET Unused : PollWatch(gone)
    \/ \E late \in BOOLEAN : Scan(late)
    \/ ScanFails
    \/ EditText \/ SaveText
    \/ \E doc \in 0 .. MaxRequest : Visit(doc)

\* A child ends or is killed by its deadline; both timers fire; the thread
\* scans again, unless three scans in a row fail.
SdpFairness ==
    /\ WF_sdpVars(\E how \in {"ok", "error", "arguments"} : Execute(how))
    /\ WF_sdpVars(PollTool)
    /\ WF_sdpVars(\E gone \in SUBSET Unused : PollWatch(gone))
    /\ WF_sdpVars(\E late \in BOOLEAN : Scan(late))

SdpSpec == SdpInit /\ [][SdpNext]_sdpVars /\ SdpFairness

(***************************************************************************)
(* Properties.                                                             *)
(***************************************************************************)
Readings == [root : Projects \cup {""}, version : Versions, loaded : BOOLEAN]

SdpTypeOK ==
    /\ area \in [Projects -> Versions]
    /\ session \in [dirty : BOOLEAN, doc : 0 .. MaxRequest]
    /\ {nav.sources, explorer.shown, explorer.deferred} \subseteq Readings
    /\ nav.pending \in {"", "actions", "discover", "tree", "select"}
    /\ {contexts[b] : b \in DOMAIN contexts} \cup {bundles[b] : b \in DOMAIN bundles} \subseteq Readings
    /\ watch.failures \in 0 .. MaxFailures

\* What the explorer shows now, or will once its menu is closed.
Finally ==
    IF explorer.deferred # NoSnapshot THEN explorer.deferred
    ELSE IF explorer.clear THEN NoSnapshot ELSE explorer.shown

\* The tree, the catalogue of sources and the project that is selected agree,
\* whatever the tool answers late and whether a menu is open or not. A
\* generated document is kept with the selection it was really generated
\* from; its files are there as long as the session or a visit needs them and
\* no others are; and no answer ever replaces a text with unsaved edits.
AnswersLandWhereAsked ==
    /\ [](/\ Finally # NoSnapshot => Finally.root = nav.root
          /\ explorer.shown # NoSnapshot /\ explorer.shown.root # nav.root => explorer.inContext
          /\ nav.sources # NoSnapshot => /\ Finally.root = nav.sources.root
                                         /\ Finally.version = nav.sources.version
          /\ \A b \in DOMAIN contexts : b \in DOMAIN bundles /\ bundles[b].root = contexts[b].root
                                         /\ bundles[b].version = contexts[b].version
          /\ DOMAIN bundles = DOMAIN contexts \cup ({nav.bundle} \ {0})
          /\ history \cup ({session.doc} \ {0}) \subseteq DOMAIN contexts)
    /\ [][DOMAIN contexts' \subseteq DOMAIN contexts \/ ~session.dirty]_sdpVars

\* When the files have come to rest, and the reader does not go on starting
\* anew or opening sources without end, the project is read (or tried) as it
\* is now: files that changed, an area that is gone and one that is back, also
\* when an activation interrupted the discovery or a scan failed; unless the
\* explorer has said that it no longer watches.
Interrupts == (\E root \in Projects : SelectProject(root)) \/ (\E opens \in BOOLEAN : OpenSource(opens))

ChangesAreDiscovered ==
    \/ []<>(nav.asked = area[nav.root] \/ ~watch.alive)
    \/ []<><<Interrupts>>_sdpVars
=============================================================================
