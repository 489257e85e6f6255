----------------------------- MODULE Workspace -----------------------------
(***************************************************************************)
(* The file tree of the sidebar: WorkspacePanel and its timers, the tree   *)
(* of SidebarWidget, and DirectoryScanner with its thread.  The thread     *)
(* lists directories into a bounded queue; the tree takes a batch at every *)
(* poll.  Another root, another filter and a refresh stop the thread       *)
(* (waiting until it is gone) and start another one.                       *)
(***************************************************************************)
EXTENDS Integers, Sequences, FiniteSets, SequencesExt

CONSTANTS
    Parent,       \* the parent of every path; a path without one is its own
    Directories,  \* the paths that are directories; the others are files
    Matching,     \* the files an active filter lets through
    Roots,        \* directories that can be the work path
    MaxPending,   \* DirectoryScanner queues 4096 entries
    MaxBatch,     \* take hands on 512 entries
    MaxStarts     \* bound: scans

Paths == DOMAIN Parent

ASSUME WorkspaceAssumption ==
    /\ Directories \subseteq Paths /\ Roots \subseteq Directories
    /\ Matching \subseteq Paths \ Directories /\ IsFiniteSet(Paths)
    /\ Parent \in [Paths -> Directories]
    /\ \A S \in SUBSET Paths : S # {} => \E p \in S : Parent[p] = p \/ Parent[p] \notin S
    /\ {MaxPending, MaxBatch, MaxStarts} \subseteq Nat \ {0}

VARIABLES
    scan,      \* what DirectoryScanner's mutex guards, and cancelled
    thread,    \* pc and the locals of run and scan
    tree,      \* SidebarWidget
    goal,      \* what setRoot or the destructor does when the thread is joined; optional
    panel,     \* WorkspacePanel: pendingPath and filterPending, each with its timer
    starts,    \* scans so far
    wanted     \* directories that were expanded when a refresh began (for the properties)

workVars == <<scan, thread, tree, goal, panel, starts, wanted>>

Above[p \in Paths] == IF Parent[p] = p THEN {p} ELSE {p} \cup Above[Parent[p]]

\* WorkPathHistory::contains
Within(root, p) == root \in Above[p]

Children(d) == {p \in Paths : p # d /\ Parent[p] = d}

None == "none"

NoThread == [pc |-> "none", dirs |-> <<>>, left |-> {}]

Idle(restore, filter, root) ==
    [root |-> root, filter |-> filter, items |-> {root}, requested |-> {root}, expanded |-> {root},
     scanning |-> TRUE, restoring |-> restore # {}, restore |-> restore, open |-> None]

Started(root, filter) ==
    [root |-> root, filter |-> filter, queue |-> <<>>, jobs |-> <<root>>, working |-> FALSE,
     errors |-> 0, cancelled |-> FALSE]

WorkInit ==
    \E root \in Roots :
       /\ scan = Started(root, FALSE) /\ tree = Idle({}, FALSE, root)
       /\ thread = [NoThread EXCEPT !.pc = "idle"]
       /\ goal = <<>> /\ starts = 1 /\ wanted = {}
       /\ panel = [path |-> None, filter |-> FALSE, pending |-> FALSE, quit |-> FALSE]

(***************************************************************************)
(* The tree. Stopping notifies the thread with the mutex held and joins    *)
(* it; the user interface stands still until then.                         *)
(***************************************************************************)
Responsive == goal = <<>> /\ ~panel.quit

\* setRoot up to the join: a file about to be opened is not.
SetRoot(root, filter, restore) ==
    /\ starts < MaxStarts
    /\ goal' = <<[root |-> root, filter |-> filter, restore |-> restore]>>
    /\ scan' = [scan EXCEPT !.cancelled = TRUE]
    /\ tree' = [tree EXCEPT !.open = None]
    /\ wanted' = restore
    /\ UNCHANGED <<thread, starts>>

Joined ==
    /\ goal # <<>> /\ thread.pc = "none"
    /\ goal' = <<>> /\ starts' = starts + 1
    /\ LET g == goal[1] IN
       /\ tree' = Idle(g.restore, g.filter, g.root)
       /\ scan' = Started(g.root, g.filter)
    /\ thread' = [NoThread EXCEPT !.pc = "idle"]
    /\ UNCHANGED <<panel, wanted>>

\* onApplyFilter: the 200 ms timer.
ApplyFilter ==
    /\ Responsive /\ panel.pending
    /\ panel' = [panel EXCEPT !.pending = FALSE]
    /\ SetRoot(tree.root, panel.filter, {})

\* onFilter: the filter was edited, or switched on or off.
Filter ==
    /\ Responsive
    /\ panel' = [panel EXCEPT !.filter = ~@, !.pending = TRUE]
    /\ UNCHANGED <<scan, thread, tree, goal, starts, wanted>>

\* onRefresh: a filter that waits for its timer is applied instead.
OnRefresh ==
    /\ Responsive /\ ~panel.pending
    /\ SetRoot(tree.root, tree.filter, tree.expanded)
    /\ UNCHANGED panel

\* requestWorkPath: double clicks, histories, Up.
RequestWorkPath(path) ==
    /\ Responsive
    /\ panel' = [panel EXCEPT !.path = path]
    /\ UNCHANGED <<scan, thread, tree, goal, starts, wanted>>

\* onActivate and setWorkPath; a directory that cannot be listed changes nothing.
SetWorkPath(listed) ==
    /\ Responsive /\ panel.path # None
    /\ panel' = [panel EXCEPT !.path = None]
    /\ IF listed THEN SetRoot(panel.path, tree.filter, {})
       ELSE UNCHANGED <<scan, thread, tree, goal, starts, wanted>>

\* expandTree
Expanded(t, S) ==
    [t EXCEPT !.expanded = @ \cup S,
              !.requested = IF t.filter THEN @ ELSE @ \cup (S \cap Directories)]

Expand(d) ==
    /\ Responsive /\ d \in tree.items \cap Directories
    /\ LET new == ~tree.filter /\ d \notin tree.requested IN
       /\ tree' = [Expanded(tree, {d}) EXCEPT !.scanning = @ \/ new]
       /\ scan' = IF new THEN [scan EXCEPT !.jobs = Append(@, d)] ELSE scan
    /\ UNCHANGED <<thread, goal, panel, starts, wanted>>

Collapse(d) ==
    /\ Responsive /\ d \in tree.expanded
    /\ tree' = [tree EXCEPT !.expanded = @ \ {d}]
    /\ wanted' = wanted \ {d}
    /\ UNCHANGED <<scan, thread, goal, panel, starts>>

\* onOpen, and the zero timer: the file goes to openTarget.
Click(f) ==
    /\ Responsive /\ f \in tree.items \ Directories
    /\ tree' = [tree EXCEPT !.open = f]
    /\ UNCHANGED <<scan, thread, goal, panel, starts, wanted>>

OnActivate ==
    /\ Responsive /\ tree.open # None
    /\ tree' = [tree EXCEPT !.open = None]
    /\ UNCHANGED <<scan, thread, goal, panel, starts, wanted>>

\* Mutant of Busy: a directory that is being listed does not count.
BusyQueues(queue) == scan.jobs # <<>> \/ queue # <<>>

Busy(queue) == scan.working \/ scan.jobs # <<>> \/ queue # <<>>

\* onPoll: a batch is taken and added, each entry with the directories above
\* it; directories to be expanded again are, as they appear.
Poll ==
    /\ Responsive
    /\ LET n == IF Len(scan.queue) < MaxBatch THEN Len(scan.queue) ELSE MaxBatch
           batch == {p \in ToSet(SubSeq(scan.queue, 1, n)) : Within(tree.root, p)}
           queue == SubSeq(scan.queue, n + 1, Len(scan.queue))
           items == tree.items \cup {q \in Paths : Within(tree.root, q) /\ \E p \in batch : q \in Above[p]}
           again == IF tree.restoring THEN tree.restore \cap items ELSE {}
           grown == Expanded([tree EXCEPT !.items = items], again)
           new == grown.requested \ tree.requested
           done == ~Busy(queue) /\ new = {}
       IN /\ scan' = [scan EXCEPT !.queue = queue, !.jobs = @ \o SetToSeq(new)]
          /\ tree' = [grown EXCEPT !.restoring = @ /\ ~done, !.scanning = ~done,
                                   !.restore = IF done THEN {} ELSE @ \ again]
    /\ UNCHANGED <<thread, goal, panel, starts, wanted>>

\* ~SidebarWidget
Quit ==
    /\ Responsive
    /\ panel' = [panel EXCEPT !.quit = TRUE]
    /\ scan' = [scan EXCEPT !.cancelled = TRUE]
    /\ UNCHANGED <<thread, tree, goal, starts, wanted>>

(***************************************************************************)
(* The thread: one step per critical section or directory.                 *)
(***************************************************************************)
ThreadOnly == UNCHANGED <<scan, tree, goal, panel, starts, wanted>>

Leave ==
    /\ thread.pc = "idle" /\ scan.cancelled
    /\ thread' = NoThread /\ ThreadOnly

Begin ==
    /\ thread.pc = "idle" /\ ~scan.cancelled /\ scan.jobs # <<>>
    /\ thread' = [pc |-> "scan", dirs |-> <<Head(scan.jobs)>>, left |-> {}]
    /\ scan' = [scan EXCEPT !.jobs = Tail(@), !.working = TRUE]
    /\ UNCHANGED <<tree, goal, panel, starts, wanted>>

\* scan: the next directory, or it fails and is counted.
List(readable) ==
    /\ thread.pc = "scan" /\ thread.left = {} /\ thread.dirs # <<>> /\ ~scan.cancelled
    /\ thread' = [thread EXCEPT !.dirs = Front(@),
                                !.left = IF readable THEN Children(Last(thread.dirs)) ELSE {}]
    /\ scan' = IF readable THEN scan ELSE [scan EXCEPT !.errors = 1]
    /\ UNCHANGED <<tree, goal, panel, starts, wanted>>

\* Mutant of Admitted: waits for room even when cancelled.
AdmittedByRoom == Len(scan.queue) < MaxPending

\* Mutant of Admitted: one entry too many.
AdmittedBeyond == scan.cancelled \/ Len(scan.queue) <= MaxPending

\* publish waits for room or to be cancelled.
Admitted == scan.cancelled \/ Len(scan.queue) < MaxPending

\* An entry: directories are shown, or listed in turn when a filter is active;
\* files are shown if they match. The filter is the one the scan began with.
Entry(p) ==
    /\ thread.pc = "scan" /\ p \in thread.left
    /\ LET descend == p \in Directories /\ scan.filter
           shown == ~descend /\ (p \in Directories \/ ~scan.filter \/ p \in Matching)
       IN /\ shown => Admitted
          /\ thread' = [thread EXCEPT !.left = IF scan.cancelled THEN {} ELSE @ \ {p},
                                      !.dirs = IF descend THEN Append(@, p) ELSE @]
          /\ scan' = IF shown /\ ~scan.cancelled THEN [scan EXCEPT !.queue = Append(@, p)] ELSE scan
    /\ UNCHANGED <<tree, goal, panel, starts, wanted>>

EndJob ==
    /\ thread.pc = "scan" /\ thread.left = {} /\ (thread.dirs = <<>> \/ scan.cancelled)
    /\ thread' = [NoThread EXCEPT !.pc = "idle"]
    /\ scan' = [scan EXCEPT !.working = FALSE]
    /\ UNCHANGED <<tree, goal, panel, starts, wanted>>

Scanning ==
    \/ Leave \/ Begin \/ EndJob
    \/ \E readable \in BOOLEAN : List(readable)
    \/ \E p \in Paths : Entry(p)

WorkNext ==
    \/ ApplyFilter \/ Filter \/ OnRefresh \/ Joined \/ OnActivate \/ Poll \/ Quit
    \/ \E r \in Roots : RequestWorkPath(r)
    \/ \E listed \in BOOLEAN : SetWorkPath(listed)
    \/ \E p \in Paths : Expand(p) \/ Collapse(p) \/ Click(p)
    \/ Scanning

\* The thread is scheduled, join returns, and the 30 ms timer fires.
WorkFairness == WF_workVars(Scanning) /\ WF_workVars(Joined) /\ WF_workVars(Poll)

WorkSpec == WorkInit /\ [][WorkNext]_workVars /\ WorkFairness

(***************************************************************************)
(* Properties.                                                             *)
(***************************************************************************)
WorkTypeOK ==
    /\ scan.queue \in Seq(Paths) /\ Len(scan.queue) <= MaxPending /\ scan.jobs \in Seq(Directories)
    /\ thread.pc \in {"none", "idle", "scan"} /\ thread.left \subseteq Paths
    /\ tree.root \in Roots
    /\ {tree.items, tree.requested, tree.expanded, tree.restore} \subseteq SUBSET Paths
    /\ panel.path \in Roots \cup {None}

\* When the panel says that the search has ended and nothing was unreadable,
\* the tree shows everything: the contents of each directory that was ever
\* opened, or every file that matches, and what was open before a refresh, in
\* open directories, is open again. At all times it shows only what lies below
\* the work path, each entry under its directory, and a file that is about to be
\* opened is there.
SearchIsComplete ==
    /\ goal = <<>> /\ ~tree.scanning /\ scan.errors = 0 =>
          /\ IF tree.filter
             THEN {p \in Matching : Within(tree.root, p)} \subseteq tree.items
             ELSE \A d \in tree.requested : Children(d) \subseteq tree.items
          /\ \A d \in wanted : {a \in Above[d] : Within(tree.root, a)} \subseteq wanted
                                => d \in tree.expanded
    /\ \A p \in tree.items : p = tree.root \/ (Within(tree.root, p) /\ Parent[p] \in tree.items)
    /\ tree.open \in tree.items \cup {None}
=============================================================================
