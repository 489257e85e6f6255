------------------------------ MODULE Delivery ------------------------------
(***************************************************************************)
(* Generated documents delivered to a window by other programs: the socket *)
(* of WindowEndpoint, the panes and leases of DocumentViews, and the SDL   *)
(* tool it starts itself.  Clients number their requests; they may send    *)
(* them again, out of order or in parallel, and may not hear the answer.   *)
(* A lease says that a pane still shows a generated document; the broker   *)
(* that granted it is told when the document goes.                         *)
(***************************************************************************)
EXTENDS Integers, Sequences, FiniteSets, SequencesExt

CONSTANTS
    Clients,       \* identities of programs that send OPEN
    Window,        \* this window's identity: the client of its own tool
    MaxKeys,       \* WindowEndpoint keeps 256 sequence numbers
    MaxReleases,   \* DocumentViews admits documents below 256 releases
    MaxSequence,   \* bound: sequence numbers of clients
    MaxDocuments   \* bound: documents opened, by anyone

Panes == {"main", "navigation"}

\* NoLease: an OPEN of eight fields.
NoLease == 0

VARIABLES
    brokered,    \* whether the tool delivers through a broker, not by its exit
    sequences,   \* WindowEndpoint::sequences, by client and pane
    leases,      \* DocumentViews::leases: the lease of each pane, or NoLease
    releases,    \* DocumentViews::releases, in order
    released,    \* leases the broker was told about (external)
    opened,      \* documents opened so far: they are numbered
    shown,       \* the document in each pane
    main,        \* the main window: free, busy (unsaved text, or an open pending), closed
    tool,        \* the child: none, or running or ended for a sequence number
    sequence,    \* DocumentViews::sequence
    acted,       \* the newest number acted on by client and pane, and whether each
                 \* was newer than those before it (for the properties)
    grants       \* which document each lease came with (for the properties)

delVars == <<brokered, sequences, leases, releases, released, opened, shown, main, tool, sequence,
             acted, grants>>

ASSUME DeliveryAssumption ==
    /\ Window \in Clients
    /\ {MaxKeys, MaxReleases} \subseteq Nat \ {0}
    /\ {MaxSequence, MaxDocuments} \subseteq Nat

NoTool == [sequence |-> 0, state |-> "none"]

DelInit ==
    /\ brokered \in BOOLEAN
    /\ sequences = <<>>
    /\ leases = [p \in Panes |-> NoLease] /\ releases = <<>> /\ released = {}
    /\ shown = [p \in Panes |-> 0] /\ main = "free"
    /\ tool = NoTool /\ sequence = 0
    /\ acted = [newest |-> [k \in Clients \X Panes |-> 0], inOrder |-> TRUE]
    /\ opened = 0 /\ grants = <<>>

(***************************************************************************)
(* DocumentViews.                                                          *)
(***************************************************************************)
Held == SetToSeq({leases[p] : p \in Panes} \ {NoLease})

\* flushReleases: a broker that does not listen is asked again later.
Flushed(queue, reached) ==
    LET rest[n \in 0 .. Len(queue)] ==
          IF n = 0 THEN <<>>
          ELSE IF queue[n] \in reached THEN rest[n - 1] ELSE Append(rest[n - 1], queue[n])
    IN rest[Len(queue)]

\* documentChanged: the pane's lease is to be released.
Leaving(pane, queue) ==
    IF leases[pane] = NoLease THEN queue ELSE Append(queue, leases[pane])

\* Mutant of Change: the new lease takes the old one's place.
ChangeForgettingLease(pane, lease, reached) ==
    /\ leases' = [leases EXCEPT ![pane] = lease]
    /\ releases' = Flushed(releases, reached)
    /\ released' = released \cup (ToSet(releases) \cap reached)

\* A document is opened in a pane: releases are tried, documentChanged from
\* the opened callback tries again, then the endpoint notes the new lease.
Change(pane, lease, reached) ==
    /\ leases' = [leases EXCEPT ![pane] = lease]
    /\ releases' = Flushed(Leaving(pane, releases), reached)
    /\ released' = released \cup (ToSet(Leaving(pane, releases)) \cap reached)

Present(pane, lease, reached) ==
    /\ opened < MaxDocuments
    /\ opened' = opened + 1
    /\ shown' = [shown EXCEPT ![pane] = opened + 1]
    /\ Change(pane, lease, reached)
    /\ grants' = IF lease = NoLease THEN grants
                 ELSE Append(grants, [lease |-> lease, document |-> opened + 1])

Acting(client, pane, n) ==
    [newest |-> [acted.newest EXCEPT ![<<client, pane>>] = n],
     inOrder |-> acted.inOrder /\ n > acted.newest[<<client, pane>>]]

Flush(reached) ==
    /\ releases' = Flushed(releases, reached)
    /\ released' = released \cup (ToSet(releases) \cap reached)

\* open: admitted only while few releases wait, into a main window with
\* nothing to lose and no open pending.  The read itself may fail.
Admits(pane, reached) ==
    /\ Len(Flushed(releases, reached)) < MaxReleases
    /\ pane = "main" => main = "free"

(***************************************************************************)
(* WindowEndpoint.  Clients may send anything at any time, so a packet     *)
(* that waits in a connection until the poll that reads it is one sent     *)
(* then; a malformed, oversized or late one is answered and changes        *)
(* nothing.                                                                *)
(***************************************************************************)
Key(r) == <<r.client, r.pane>>
Stored(k) == IF k \in DOMAIN sequences THEN sequences[k] ELSE 0
Recorded(k, n) == [j \in DOMAIN sequences \cup {k} |-> IF j = k THEN n ELSE sequences[j]]

\* Mutant of Limited: one client too many is let in.
LimitedLate(r) == Cardinality(DOMAIN sequences) > MaxKeys /\ Key(r) \notin DOMAIN sequences

Limited(r) == Cardinality(DOMAIN sequences) >= MaxKeys /\ Key(r) \notin DOMAIN sequences

\* Mutant of Consumed: only a request that opened its document counts.
ConsumedOnSuccess(r, opens) == Recorded(Key(r), IF opens THEN r.sequence ELSE Stored(Key(r)))

\* The number is used up whether or not the document opens.
Consumed(r, opens) == Recorded(Key(r), r.sequence)

\* handle refuses: too many clients, or a number that is not newer. Looking
\* the number up makes room for the client either way.
Refuse(r) ==
    /\ \/ Limited(r) /\ UNCHANGED sequences
       \/ /\ ~Limited(r) /\ r.sequence <= Stored(Key(r))
          /\ sequences' = Recorded(Key(r), Stored(Key(r)))
    /\ UNCHANGED <<leases, releases, released, opened, shown, main, tool, sequence, acted, grants>>

Handle(r, reached, readable) ==
    /\ ~Limited(r) /\ r.sequence > Stored(Key(r))
    /\ LET opens == Admits(r.pane, reached) /\ readable IN
       /\ sequences' = Consumed(r, opens)
       /\ IF opens THEN Present(r.pane, r.lease, reached)
          ELSE Flush(reached) /\ UNCHANGED <<leases, opened, shown, grants>>
    /\ acted' = Acting(r.client, r.pane, r.sequence)
    /\ UNCHANGED <<main, tool, sequence>>

(***************************************************************************)
(* The reader, the tool and the poll.                                      *)
(***************************************************************************)
\* The reader opens a file or follows a link in a pane.
ReaderOpens(pane, reached) ==
    /\ Present(pane, NoLease, reached)
    /\ main' = IF pane = "main" THEN "free" ELSE main
    /\ UNCHANGED <<sequences, tool, sequence, acted>>

\* The reader edits, saves, or is asked about unsaved text while opening.
ReaderTurns(state) ==
    /\ main' = state
    /\ UNCHANGED <<sequences, leases, releases, released, opened, shown, tool, sequence, acted, grants>>

\* follow: the tool before is killed and reaped, its number is passed.
Follow ==
    /\ sequence < MaxSequence
    /\ sequence' = sequence + 1
    /\ \/ tool' = [sequence |-> sequence + 1, state |-> "running"]
       \/ tool' = NoTool                                \* fork failed
    /\ UNCHANGED <<sequences, leases, releases, released, opened, shown, main, acted, grants>>

\* The tool ends, at any time.
ToolEnds(state) ==
    /\ tool.state = "running"
    /\ tool' = [tool EXCEPT !.state = state]
    /\ UNCHANGED <<sequences, leases, releases, released, opened, shown, main, sequence, acted, grants>>

\* poll: a tool that ended is reaped first, even past its deadline, and what
\* it made is opened in the pane its delivery file names.
Reap(pane, reached, readable) ==
    /\ tool.state \in {"succeeded", "failed"}
    /\ tool' = NoTool
    /\ IF tool.state = "succeeded" /\ ~brokered /\ Admits(pane, reached) /\ readable
       THEN Present(pane, NoLease, reached)
       ELSE Flush(reached) /\ UNCHANGED <<leases, opened, shown, grants>>
    /\ acted' = IF tool.state = "succeeded" /\ ~brokered
                THEN Acting(Window, pane, tool.sequence) ELSE acted
    /\ UNCHANGED <<sequences, main, sequence>>

\* poll past the deadline of a tool that still runs: it is killed.
TimeOut ==
    /\ tool.state = "running"
    /\ tool' = NoTool
    /\ UNCHANGED <<sequences, leases, releases, released, opened, shown, main, sequence, acted, grants>>

\* poll: releases that could not be delivered are tried again.
Retry(reached) ==
    /\ releases # <<>> /\ reached # {}
    /\ Flush(reached)
    /\ UNCHANGED <<sequences, leases, opened, shown, main, tool, sequence, acted, grants>>

\* Closing the window: both leases are queued, told about once, and the tool
\* is killed; what could not be told is forgotten.
Destroy(reached) ==
    /\ main # "closed"
    /\ main' = "closed"
    /\ leases' = [p \in Panes |-> NoLease]
    /\ released' = released \cup (reached \cap (ToSet(releases) \cup ToSet(Held)))
    /\ releases' = Flushed(releases \o Held, reached)
    /\ tool' = NoTool
    /\ UNCHANGED <<sequences, opened, shown, sequence, acted, grants>>

Reachable == SUBSET (ToSet(releases) \cup ToSet(Held))

\* Every lease a broker grants is new. The window's own tool sends numbers
\* that follow() gave it, killed tools their old ones.
Requests ==
    {r \in [client : Clients, sequence : 0 .. MaxSequence, pane : Panes,
            lease : {NoLease, 1 + Len(grants)} \cap 0 .. MaxDocuments] :
        r.client = Window => brokered /\ r.sequence \in 1 .. sequence}

DelNext ==
  /\ main # "closed"
  /\ UNCHANGED brokered
  /\ \/ \E r \in Requests : Refuse(r)
     \/ \E r \in Requests, reached \in Reachable, readable \in BOOLEAN : Handle(r, reached, readable)
     \/ \E pane \in Panes, reached \in Reachable : ReaderOpens(pane, reached)
     \/ \E state \in {"free", "busy"} : ReaderTurns(state)
     \/ Follow \/ TimeOut
     \/ \E state \in {"succeeded", "failed"} : ToolEnds(state)
     \/ \E pane \in Panes, reached \in Reachable, readable \in BOOLEAN : Reap(pane, reached, readable)
     \/ \E reached \in Reachable : Retry(reached) \/ Destroy(reached)

DelSpec == DelInit /\ [][DelNext]_delVars

(***************************************************************************)
(* Properties.                                                             *)
(***************************************************************************)
DelTypeOK ==
    /\ DOMAIN sequences \subseteq Clients \X Panes /\ Cardinality(DOMAIN sequences) <= MaxKeys
    /\ \A k \in DOMAIN sequences : sequences[k] \in 0 .. MaxSequence
    /\ leases \in [Panes -> 0 .. MaxDocuments] /\ releases \in Seq(1 .. MaxDocuments)
    /\ released \subseteq 1 .. MaxDocuments /\ opened \in 0 .. MaxDocuments
    /\ shown \in [Panes -> 0 .. MaxDocuments]
    /\ main \in {"free", "busy", "closed"}
    /\ tool \in [sequence : 0 .. MaxSequence, state : {"none", "running", "succeeded", "failed"}]
    /\ sequence \in 0 .. MaxSequence /\ acted.newest \in [Clients \X Panes -> 0 .. MaxSequence]
    /\ grants \in Seq([lease : 1 .. MaxDocuments, document : 1 .. MaxDocuments])

Times(l, queue) == Cardinality({i \in DOMAIN queue : queue[i] = l})

\* A lease that was registered is in one place: with the pane that still shows
\* its document, waiting to be released, or told about. None is lost, told
\* about twice, or given up while its document is on display; and the queue
\* of releases stays within two of the limit the endpoint admits at.
LeasesAccounted ==
    /\ \A g \in ToSet(grants) :
          LET l == g.lease IN
          Cardinality({p \in Panes : leases[p] = l}) + Times(l, releases)
            + (IF l \in released THEN 1 ELSE 0) = 1
    /\ \A p \in Panes : leases[p] # NoLease =>
          \E g \in ToSet(grants) : g.lease = leases[p] /\ g.document = shown[p]
    /\ main # "closed" => Len(releases) <= MaxReleases + Cardinality(Panes)

\* A client's requests for a pane are acted on in the order of their numbers,
\* each at most once: neither one sent again, nor one overtaken by a newer,
\* nor the result of a superseded tool replaces what a newer one asked for,
\* even when that newer one failed to open.
DeliveredInOrder == acted.inOrder
=============================================================================
