------------------------------ MODULE SdlTree -------------------------------
(***************************************************************************)
(* The tree the SDP explorer shows of a tool's answer: what decodeSdpReply *)
(* and expandSdpModel accept, the rows sdpDisplayRow and SdpPanel::add     *)
(* make of it, and how SdpPanel::present finds the selected row again.     *)
(* The answer is a graph with references, wrappers and cycles; children of *)
(* a source may be deferred, and are merged in when they were asked for.   *)
(***************************************************************************)
EXTENDS Naturals, Sequences, FiniteSets, SequencesExt, Functions

CONSTANTS
    Source,      \* an SDL source
    SourceNode,  \* its node: "sdl/" and the source
    Owned,       \* the ids below it: those that begin with SourceNode and "/"
    Tab,         \* the tab "sdl"
    DepthLimit,  \* expansionDepthLimit, at most 32
    Replies,     \* what a discovery may answer
    Models       \* what the tool may answer when the source is expanded

ASSUME SdlTreeAssumption == DepthLimit \in 1 .. 32

\* A node: kind, children, reference, target (its operation and model),
\* whether it is healthy, and childrenDeferred. A reply: nodes, roots and the
\* revision of the source.
VARIABLE reply

(***************************************************************************)
(* decodeSdpReply and expandSdpModel.                                      *)
(***************************************************************************)
Decodable(r) ==
    /\ ToSet(r.roots) \subseteq DOMAIN r.nodes
    /\ Cardinality(ToSet(r.roots)) = Len(r.roots)
    /\ \A id \in DOMAIN r.nodes :
          LET n == r.nodes[id] IN
          /\ ToSet(n.children) \subseteq DOMAIN r.nodes
          /\ n.reference \in DOMAIN r.nodes \cup {""}
          /\ n.deferred => /\ id = SourceNode /\ n.kind = "source" /\ n.healthy
                           /\ n.children = <<>> /\ n.reference = ""
                           /\ n.operation = "tree" /\ n.model = Source

\* The whole model is checked before the visible snapshot is replaced.
Expandable(current, model) ==
    /\ model.revision = current.revision
    /\ SourceNode \in DOMAIN current.nodes /\ current.nodes[SourceNode].deferred
    /\ model.roots = <<Tab>> /\ model.nodes[Tab].kind = "tab"
    /\ \A id \in DOMAIN model.nodes :
          LET n == model.nodes[id] IN
          /\ id = Tab \/ (id \in Owned /\ id \notin DOMAIN current.nodes)
          /\ ~n.deferred
          /\ n.reference # "" => n.reference \in Owned \cap DOMAIN model.nodes
          /\ ToSet(n.children) \subseteq Owned \cap DOMAIN model.nodes
          /\ n.operation # "" => n.operation = "select" /\ n.model = Source

\* Mutant of Merged: the source still counts as deferred.
MergedDeferred(current, model) ==
    [current EXCEPT !.nodes =
       [id \in DOMAIN current.nodes \cup (DOMAIN model.nodes \ {Tab}) |->
          IF id = SourceNode THEN [current.nodes[id] EXCEPT !.children = model.nodes[Tab].children]
          ELSE IF id \in DOMAIN current.nodes THEN current.nodes[id] ELSE model.nodes[id]]]

Merged(current, model) ==
    [current EXCEPT !.nodes =
       [id \in DOMAIN current.nodes \cup (DOMAIN model.nodes \ {Tab}) |->
          IF id = SourceNode
          THEN [current.nodes[id] EXCEPT !.children = model.nodes[Tab].children, !.deferred = FALSE]
          ELSE IF id \in DOMAIN current.nodes THEN current.nodes[id] ELSE model.nodes[id]]]

(***************************************************************************)
(* SdpSources and SdpDisplay.                                              *)
(***************************************************************************)
\* sdpSourceForNode: a node of another source than the one above has none.
SourceForNode(id, n, inherited) ==
    LET named == IF id = SourceNode /\ n.kind = "source" THEN Source ELSE n.model IN
    IF \/ named # n.model /\ n.model # ""
       \/ named # "" /\ inherited # "" /\ named # inherited THEN ""
    ELSE LET owner == IF named = "" THEN inherited ELSE named
         IN IF owner = Source THEN owner ELSE ""

DisplayAction(operation) == operation \in {"open", "select"}

RECURSIVE Resolve(_, _, _)
Resolve(r, id, visited) ==
    IF id \notin DOMAIN r.nodes \/ id \in visited THEN ""
    ELSE IF r.nodes[id].reference = "" \/ r.nodes[id].operation = "open" THEN id
    ELSE Resolve(r, r.nodes[id].reference, visited \cup {id})

\* The loop of sdpDisplayChildren: phases and abstractions are transparent,
\* and each viewpoint is shown once, wherever it is referred to from.
RECURSIVE Unwrapped(_, _, _, _)
Unwrapped(r, pending, wrappers, viewpoints) ==
    IF pending = <<>> THEN <<>>
    ELSE LET id == Head(pending)  n == r.nodes[id]  rest == Tail(pending)
             canonical == Resolve(r, id, {})
         IN CASE n.kind \in {"phase", "abstraction"} /\ n.healthy ->
                   Unwrapped(r, IF id \in wrappers THEN rest ELSE n.children \o rest,
                             wrappers \cup {id}, viewpoints)
              [] n.kind \notin {"phase", "abstraction"} /\ n.healthy /\ n.operation = ""
                   /\ canonical # "" /\ r.nodes[canonical].kind = "viewpoint" ->
                   (IF canonical \in viewpoints THEN <<>> ELSE <<canonical>>)
                   \o Unwrapped(r, rest, wrappers, viewpoints \cup {canonical})
              [] OTHER ->
                   (IF n.kind = "viewpoint" /\ id \in viewpoints THEN <<>> ELSE <<id>>)
                   \o Unwrapped(r, rest, wrappers,
                                IF n.kind = "viewpoint" THEN viewpoints \cup {id} ELSE viewpoints)

DisplayChildren(r, id) ==
    LET n == r.nodes[id] IN
    IF n.kind \in {"source", "system"} /\ SourceForNode(id, n, "") # ""
    THEN Unwrapped(r, n.children, {}, {}) ELSE n.children

\* The loop of sdpDisplayRow along the references; `at` is where it ends.
RECURSIVE Along(_, _, _, _)
Along(r, at, chain, row) ==
    IF at \in chain THEN [row EXCEPT !.terminal = TRUE, !.at = at]
    ELSE LET n == r.nodes[at]
             deep == Len(row.ancestors) >= DepthLimit
             terminal == row.terminal \/ at \in ToSet(row.ancestors) \/ deep
             next == [row EXCEPT !.terminal = terminal, !.truncated = @ \/ deep, !.node = at, !.at = at,
                                 !.ancestors = IF terminal THEN @ ELSE Append(@, at),
                                 !.operation = IF @ = "" THEN n.operation ELSE @]
         IN IF n.reference = "" \/ n.operation = "open" THEN next
            ELSE LET m == r.nodes[n.reference]
                     conflict == row.conflict \/ (row.source # "" /\ m.model # "" /\ row.source # m.model)
                 IN Along(r, n.reference, chain \cup {at},
                          [next EXCEPT !.conflict = conflict,
                             !.source = IF conflict THEN "" ELSE SourceForNode(n.reference, m, @)])

NoRow == [id |-> ""]

DisplayRow(r, id, ancestors, inherited) ==
    LET row == Along(r, id, {}, [id |-> id, node |-> id, at |-> id, ancestors |-> ancestors,
                                 source |-> SourceForNode(id, r.nodes[id], inherited),
                                 operation |-> "", conflict |-> FALSE, terminal |-> FALSE,
                                 truncated |-> FALSE])
    IN IF /\ row.terminal /\ ~DisplayAction(row.operation)
          /\ r.nodes[row.at].healthy /\ r.nodes[id].healthy
       THEN NoRow ELSE row

(***************************************************************************)
(* SdpPanel.                                                               *)
(***************************************************************************)
\* add, for all the children of a row: those that make none are left out.
Added(r, children, ancestors, inherited) ==
    {DisplayRow(r, c, ancestors, inherited) : c \in ToSet(children)} \ {NoRow}

\* expand: a terminal row has no children, those of a deferred one are asked for.
Below(r, row) ==
    IF row.terminal \/ r.nodes[row.node].deferred THEN {}
    ELSE Added(r, DisplayChildren(r, row.node), row.ancestors, row.source)

\* The rows there are when those in `open` are expanded, level by level.
RECURSIVE Grown(_, _, _)
Grown(r, rows, open) ==
    LET below == UNION {Below(r, row) : row \in {x \in rows : x.id \in open}}
    IN IF below = {} THEN rows ELSE rows \cup Grown(r, below, open)

Rows(r, open) == Grown(r, Added(r, r.nodes[Tab].children, <<Tab>>, ""), open)

\* present: the way to the row that was selected, breadth first, where each
\* node has the one it was found from; every row on it is expanded.
RECURSIVE Routes(_, _, _)
Routes(r, queue, parent) ==
    IF queue = <<>> THEN parent
    ELSE LET id == Head(queue)
             next == DisplayChildren(r, id)
                     \o (IF r.nodes[id].reference = "" THEN <<>> ELSE <<r.nodes[id].reference>>)
             new == SelectSeq(next, LAMBDA c : c \notin DOMAIN parent)
         IN Routes(r, Tail(queue) \o new,
                   [c \in DOMAIN parent \cup ToSet(new) |-> IF c \in DOMAIN parent THEN parent[c] ELSE id])

RECURSIVE Upwards(_, _)
Upwards(parent, id) == IF parent[id] = "" THEN {id} ELSE {id} \cup Upwards(parent, parent[id])

Route(r, id) ==
    LET parent == Routes(r, <<Tab>>, (Tab :> ""))
    IN IF id \in DOMAIN parent /\ parent[id] # "" THEN Upwards(parent, parent[id]) ELSE {}

(***************************************************************************)
(* Discovery and expansion.                                                *)
(***************************************************************************)
TreeInit == reply \in {r \in Replies : Decodable(r)}

\* PollTree: a model that cannot be decoded or merged changes nothing.
ExpandSource ==
    \E model \in Models :
       Decodable(model) /\ Expandable(reply, model) /\ reply' = Merged(reply, model)

TreeSpec == TreeInit /\ [][ExpandSource]_reply

(***************************************************************************)
(* Properties.                                                             *)
(***************************************************************************)
Reached(r) == DOMAIN Routes(r, <<Tab>>, (Tab :> ""))

\* Whatever graph a tool answers, and whatever is merged into it: every row
\* leads to a node there is; a row that can be expanded is not below itself;
\* nothing that can be opened, or is not well (and does not refer to itself in
\* a circle), is lost from the tree unless the tree says that it was cut; a row
\* belongs to no other source than the nodes it stands for; and the selected row
\* is found again when the tree is presented anew.
TreeIsWhole ==
    LET r == reply
        all == Rows(r, DOMAIN r.nodes)
        whole == \A row \in all : Len(row.ancestors) < DepthLimit
    IN
    /\ \A id \in DOMAIN r.nodes :
          ToSet(r.nodes[id].children) \cup ({r.nodes[id].reference} \ {""}) \subseteq DOMAIN r.nodes
    /\ \A row \in all :
          /\ Len(row.ancestors) <= DepthLimit + 1
          /\ Cardinality(ToSet(row.ancestors)) = Len(row.ancestors)
          /\ row.source # "" => r.nodes[row.node].model \in {"", row.source}
    /\ whole =>
          \A id \in Reached(r) \ {Tab} :
             DisplayAction(r.nodes[id].operation) \/ (~r.nodes[id].healthy /\ Resolve(r, id, {}) # "") =>
                \E row \in all : id \in {row.id, row.node} \cup ToSet(row.ancestors)
    /\ whole => \A id \in {row.id : row \in all} : id \in {row.id : row \in Rows(r, Route(r, id))}
=============================================================================
