# A TLA+ verification of xfmd

xfmd is a Markdown editor and viewer written in C++ on the FOX toolkit. One GUI thread runs
every handler; worker threads parse, export, scan folders and resolve references; child
processes run SDL tools; other programs change the same files. This directory models the parts
where those meet, checks them with TLC, and proves the central results with TLAPS. Paths below
are relative to the repository root; the exact lines behind every definition are in
`PROJECT.json` under `map`.

- [Inventory](#inventory)
- [Modules and how they correspond to the code](#modules-and-how-they-correspond-to-the-code)
- [Runs](#runs)
- [Disagreements found](#disagreements-found)
- [Proofs](#proofs)
- [What is not modelled](#what-is-not-modelled)
- [Plan](#plan)

## Inventory

All code is under `src/application` unless another directory is named.

| Component | State | Operations | Talks to | Hard behaviour | What makes it correct |
|---|---|---|---|---|---|
| `io/LocalFileStore` | the files; a temporary file during a call | `read`, `writeAtomic` | kernel, other programs | crashes, failing calls, races with other writers | whole files only; durable means durable; nobody else's bytes are destroyed or adopted |
| `document/DocumentSession` | text, token, baseline, path, file identity | `replace`, `applyEdit`, `markSaved` | owned by the coordinators | tokens compared asynchronously | a token never has two meanings |
| `document/EditController` | undo and redo stacks, byte counter | `applyEdit`, `undo`, `redo`, `reset` | session | long sequences, trimming | the stacks are one history of this buffer, within the budget |
| `document/DocumentCoordinator` with the commands in `Application*.cpp` | none but its stack frames | `requestOpen`, `requestClose`, `save` | dialogs, session, store, navigation | dialogs run nested event loops | no unsaved text is lost; no file is replaced unasked |
| `preview/ParserWorker` | `pending`, `completed`, `ticket`, flags | `submit`, `take`, `busy`, destructor, `run` | interpreter, diagram preparation | two threads, condition variable, cancellation | the latest snapshot is answered; stopping terminates |
| `preview/PreviewCoordinator` | model, profile, width, frame, generation | `schedule`, `refresh`, `poll`, `relayout`, `setLayoutProfile` | session, worker, renderer, host, timers | stale completions and frames | only a current frame is interactive; the preview catches up |
| `adapters/FoxRenderHost` | expected token and key, frame, `active`, widths | `expect`, `expectLayout`, `present`, `layout`, `setViewScale` | FOX, coordinator | order of layout passes and input | as above |
| `adapters/FoxScheduler` | one callback per key | `restart`, `cancel`, `onTimeout` | FOX timers | restart inside a callback | one pending timer per key |
| `navigation/NavigationCoordinator`, `HistoryStore` | visits, position, pending request | `openTarget`, `goBack`, `commitVisit` | documents, scrolling | re-entrance, both ends cut at 100 | position stays inside, failed opens change nothing |
| `navigation/DocumentViews`, `WindowEndpoint`, `NavigationPanel` | sequences, clients, leases, releases, child | `handle`, `poll`, `open`, `follow` | other processes over a socket | retries, limits, late children | each lease released, stale requests refused |
| `scroll/ScrollCoordinator`, `AnchorMapper`, `ScrollDynamics`, `adapters/FoxWheelScrollBar` | frame, pending anchor, last origins; destination of a turn | `onViewportChanged`, `setFrame`, `restoreAnchor`, `advance` | editor, host | echo between two views, layout during a motion | no oscillation; anchors apply to their text only; turns add up |
| `adapters/FoxPreviewInput`, `PreviewSelection` | pressed link, selection, cursor | `press`, `release`, `move`, `clear` | host, clipboard | the frame changes under a pressed button | a click opens the link under the hand |
| `zoom/DocumentZoom`, `ui/ViewModeController` | mode and scale | `setMode`, `step`, `refresh` | host, editor | fit modes react to geometry they change | reaches a fixed point |
| `export/*`, `io/PdfFilePublisher` | control block shared with a thread | `start`, `cancel`, `take` | renderer, kernel | cancel against publish | published exactly when reported |
| `index/ReferenceWorker`, `DocumentIndex` | bounded queues, generation | `submit`, `cancel`, `take` | worker thread | limit of 32, cancellation | only wanted answers, thread never stuck |
| `workspace/DirectoryScanner`, panels | request, queue of entries | `start`, `stop`, `take` | scanner thread | back-pressure at 4096 entries | no stale batch, stop always works |
| `workspace/WorkPathHistory`, `ui/FavoritesPanel`, `RecentFilesPanel`, `DocumentPathField`, `FileNameFilter` | three lists, the path being typed | `activate`, `restore`, `remember`, `refresh`, `matches` | registry, documents | a list is rebuilt before a choice from it arrives | what is chosen is what is opened; lists survive a restart |
| `sdp/SdpNavigation`, `SdpToolJob`, `SdpWatch`, `ui/SdpPanel` | request, job, bundle, watch | `activate`, `deliver`, `poll`, `cancel` | child processes, inotify, session | deadlines, late replies, edits meanwhile | a reply lands only where it was asked for |
| `sdp/SduiWorkflow` | child, project | `launch`, `poll` | child process | supersession | as above |
| `preferences/*` | active values, draft, snapshot | `begin`, `preview`, `commit`, `cancel` | registry | failing store | cancel restores |
| `interpreter/`, `renderer/`, `diagrams/`, `media/`, `composition/` | caches | pure functions of their input | worker thread, coordinator | limits, cancellation | deterministic |
| `adapters/*` (drawing, fonts, launching), `ui/*`, `main.cpp` | widgets | drawing and input | FOX, desktop | none of their own | |

The design keeps asynchrony in check with one device, the *token* (document number, revision):
every answer carries the token of the question, and is dropped if the session's token moved on.
Most of the properties below say that this works at the places where it is easy to get wrong.

## Modules and how they correspond to the code

```
Contracts ── DocumentSession ── EditController ─┐
    │              │                            ├─ Documents     (MCDocuments)
    └── FileStore ─┼────────────────────────────┘
          │        └──────────────┐
      AtomicStore     ParserWorker ── Preview                   (MCPreview)
    (abstract spec)       │
                      LatestWins (abstract spec)

Anchors ── Navigation ─┐
           Delivery  ──┼─ MCNavigation
           Sdp, Sdui ──┘

Export, References, Workspace, Settings, Lists, Zoom, Wheel, Pointer ── Services ─┐
Layout ── Reading, SdlTree, Anchors, MCSamples ───────────────────────────────────┴─ MCServices
          Reading, MCSamples ── MCReading

EditController, ParserWorker ── MCEditing
Sdp ── MCSdp, under fairness

Theorems:
FileStore_proofs ── Documents_proofs (EditController, Documents)
Preview_proofs (ParserWorker, Preview)
Navigation_proofs, Delivery_proofs ── Tools_proofs (Sdp, Sdui, MCNavigation)
Services_proofs (Export, References) ── Panels_proofs (Workspace, Settings, Lists, Zoom,
                                                       Wheel, Pointer, Services)
```

`MCNavigation`, `MCEditing` and `Services` have components side by side that share no
state with one another: a variable `focus`, chosen once, says which of them a behaviour follows,
and the others rest where they began. Each is explored in full, and nothing is claimed of
combinations the code does not have. `Services` has no `RECURSIVE` operator below it, so that its
properties can be proved; `MCServices` adds the pure algorithms, which have them.

**Contracts** holds the values the layers share. A file identity (device, inode, times, size
and hash) is a version number that every change of an inode takes afresh, plus the bytes; a
text is an opaque value.

**FileStore** is `LocalFileStore`. `call` is the stack frame of `writeAtomic`, one `pc` value
per system call whose order matters: `Inspect` (stat), `Verify` (read, compare, hard links),
`CreateTemp` (mkstemp), `Fill` (write loop), `Flush` (attributes, fsync), `Recheck` (second
comparison), `PublishNew`/`PublishOver` (link or rename), `Unlink`, `Stat` (fstat),
`SyncDirectory`. Every one may throw, and throwing runs the `Cleanup` destructor. `files` is
what processes see, `stable` what a power loss would leave; `Writeback` moves one path from
the first to the second whenever the kernel likes, and a file whose data was not flushed
survives only as `Partial`. Other programs write (in place or by rename), link and delete.
`checked`, `touched` and `reported` are history the properties need. Two simplifications:
`read()` is a single step, because its two `fstat` calls turn interference during the read into
an error, which is one of the failures every step has anyway; and other programs flush what
they write. Within one `writeAtomic` frame versions stand for `ctime`, so an external write of
identical bytes is a change, as it is for the code.

**AtomicStore** is the promise: the visible content of a path changes from one whole text to
another in one step, success is reported only after that step, failure may be reported at any
time. `FileStore` implements it (property `ImplementsAtomicStore`) under the mapping
`disk[p]`/`safe[p]` = content of `files[p]`/`stable[p]`, `request` = the visible part of `call`.

**DocumentSession** gives the session's mutators as operators on a record; **EditController**
adds the stacks. A change is the pair of texts before and after it, which is what the code's
forward and backward edits amount to when the stacks fit the buffer, and `HistoryChains` is
exactly the statement that they do. `Weight` gives the bytes of a change.

**Documents** composes both with `DocumentCoordinator`, the Save, Save As, Open and Close
commands, and the IPC delivery of `DocumentViews::open`. `gui` is the GUI thread's stack: which
dialog is open and the locals that survive it (`snapshot` in `save()`, the target, what follows
`resolveUnsaved`). A FOX dialog runs a nested event loop in which the user can only answer, but
timers fire, among them the one that polls the IPC socket; hence `Deliver` is enabled in every
dialog. Reading and writing block the loop, so only other programs move while `call` runs.
`consent`, `issuer` and `confirmed` record what the user was asked. `StartWrite` reads the
target's identity (for a confirmed overwrite) in the step that starts the write.

**ParserWorker** has a step per critical section. `notify_one` comes after the section, as in
the code, and is a step of its own; the predicate of the wait is evaluated under the mutex
(`Exit`, `Begin`, `Sleep`), and a sleeping thread may also wake for nothing. `Faulty` are the
snapshots that parser or preparation reject. **LatestWins** is its promise: a new question
replaces the one before, and an answer is that of the latest question. `ParserWorker`
implements it with `question` mapped to wherever the latest submission currently is.

**Preview** composes the session's tokens, `PreviewCoordinator`, `FoxRenderHost`, the timers
("debounce" is key 1, "poll" key 2) and `ParserWorker`. GUI handlers are single steps except
where they open an error box (`boxes`) or where the parser thread can get in between
(`rearming`: between `take()` and `busy()` in `poll()`). `host.laid` is `lastWidth`,
`host.flow` is `flowWidth()`. `Relayout` is the whole of `relayout()` with
`layoutRequested`, the renderer, `acceptFrame` and `present`; a text the profile cannot lay out
(`Renders`) throws there.

**Navigation** is the history of visits (`visits`, `cursor`), `NavigationCoordinator`'s pending
`request` and its `proposed` position, and `ScrollCoordinator` with the editor and the pane as
two scroll positions (`view`). An open is three steps: `openTarget` notes the reader's place,
`requestOpen` may fail, be cancelled or last while timers fire, and `commitVisit` runs in its
callback. `MaxVisits` is the code's 100. Every anchor carries the file it was read in, a history
component the properties need. Nesting of dialogs inside the open is `Documents`' subject.

A view does not always stand where it is told to: the editor stops at the beginning of a line and
at its last page (`TopAt`), the preview at the end of its frame (`LastHeight`). And whoever moves
it, it calls back. `SetSourceAnchor` and `SetViewport` are the widgets' setters with the
`moveContents` they cause: where the view stops, and, unless the widget's own flag (`scrolling`,
`programmatic`) is up, the call of `onViewportChanged` (`Heard`) with that place, which
`ScrollCoordinator` heeds unless its flag `synchronizing` is up, it has no valid frame, or the
token is another (`Heeded`). All these flags are down when an action is over, so they are the
argument `up` of the setters and not variables. While the coordinator moves the views two flags
are up, its own and the widget's, and either would do. When the application moves the editor
itself, to a heading or to a place in the document on display (`Jumped`, `OpenAt`, `Opened`), the
editor's is the only one; the mutant `SetSourceAnchorLoud` drops it. `JumpTo`, `OpenAt` and
`ParseDone` contain the unconditional `setSourceAnchor` of `ApplicationIndex.cpp`, also for a
reader who has no preview.
**Anchors** is `AnchorMapper`: the minimum over a sequence of regions, in hundredths.

**Delivery** is the socket protocol of `WindowEndpoint` and what `DocumentViews` does with a
request. Clients may send any request at any time, again, or in another order, so a request that
waits in a connection is one sent when the poll reads it. `sequences` is bounded by `MaxKeys` (the
code's 256), `releases` holds the leases whose brokers could not be told yet, and `tool` is the
SDL child: it is reaped if it ended, even past its deadline, and killed if it did not.
`acted` and `grants` are history.

**Sdp** is the explorer: `nav` (`SdpNavigation`: the project, the sources it knows, the operation
pending and the one queued, the bundle being made), `sdpJob` (`SdpToolJob`: the child, its
deadline and the poll), `watch` (`SdpWatch`: the thread and what its mutex guards), `explorer`
(`SdpPanel`: what is shown, and what waits until a menu is closed), and `contexts` and `bundles`,
the generated documents that are owned and their directories. `area` is the version of a
project's files, which other programs raise. **SdlTree** is what
`decodeSdpReply`/`expandSdpModel` accept and the rows `sdpDisplayRow` and `SdpPanel::add` make of
it: references, wrappers, cycles and the depth limit. **Sdui** is the workflow behind a generated
document: the check in a child process, the question to the user, launching, reaping, and the
steps from a link to the bytes of a source that may have been written since.

**Export** is the control block shared between `ExportCoordinator` and its thread, one step per
checkpoint or system call, the publication mutex, `PdfFilePublisher`'s comparisons and the
target file with other programs. **References** is `ReferenceWorker` with its queue of `MaxQueue`
(the code's 32) and generations, `IndexPanel`'s rows and both zero and poll timers.
**Workspace** is `DirectoryScanner`'s thread with its queue of `MaxPending` entries (4096), the
tree that takes `MaxBatch` at every poll, and the stop that waits for the thread (`goal` is what
follows the join). Symbolic links are left out.

**Settings** is the preferences draft, its live preview, the registry behind it and what the
window shows. **Lists** is favorites, recent files, work paths and the path field: choices are
delivered by a zero timer, and the list may have been rebuilt by then. **Zoom** is
`DocumentZoom::refresh` with the splitter, **Wheel** the motion that a turn of the wheel starts
(`Advance` is `ScrollDynamics::advance`), **Pointer** the hand, the pressed link and the
selection while frames come and go.

**Layout** is `MarkdownRenderer::layout`: blocks to lines, tables to columns, lines to pages, as
recursive operators over a document of abstract characters with widths; **Reading** is what the
pane does with the frame (`ViewTransform`, `HitTester`, selection). **MCSamples** has the
documents and tool answers they are run on. A document there is small but chosen for its corner:
words wider than the column, tabs, formulas, quotes inside lists, tables that fit or do not,
headings at a page end.

## Runs

| Run | Checks | Bounds | Why they are enough |
|---|---|---|---|
| `store` | `WholeFiles`, `DurableSurvives`, `NoTempLeft`, `IdentityIsHonest`, `OnlyExpectedReplaced`, `ImplementsAtomicStore` | one path, two texts, 4 versions | a call touches one path; four versions allow a whole call (up to two versions), two interferences and a second call. No symmetry, no fairness. |
| `editing` | `HistoryChains`, `HistoryWithinBudget`; `OnePlace`, `ErrorsAreTheSources`, `ImplementsLatestWins`, `LatestIsAnswered`, `StopTerminates` | three texts weighing 0 to 2, budget 4, 7 revisions, 2 documents; three snapshots, one faulty, 4 submissions | trimming, a single change above nothing, a redo branch dropped and a document switch all occur within seven revisions; a submission can arrive in each phase of the one before, and the thread has no memory beyond the current ticket. 2,577 states. |
| `documents` | types, `KeptWithItsDocument`, `SaveWritesItsDocument`, `NoSilentLoss`, `OverwriteConfirmed`, `TokenNamesOneSource` | two paths of different format, two texts, 2 versions, 2 revisions, 3 documents | one save with one interference; a document opened and another delivered on top of it while a dialog is up |
| `preview` | types, `InteractiveIsCurrent`, `AnswerIsAwaited`, `CachedModelIsOfThisText` | two texts (one faulty), two formats, a continuous and a paged profile, two widths, 3 submissions, 3 generations, 2 documents, 2 revisions | every pair of handlers around one parse in flight and one result not taken |
| `preview_live` | `EventuallyShown` | as above with 2 submissions and 2 generations | the bounds stop the user, which is the premise of the property |
| `navigation` | types, `VisitIsShown`, `AnchorsStayHome`, `ViewsAgree`, `LeasesAccounted`, `DeliveredInOrder`, `ToolsAnswerWhereAsked` | two paths and an untitled buffer, two visits, 4 documents of one revision; two bytes, two lines of preview beside an image without a place; two clients and panes, 2 sequence numbers and client keys, one release in the queue; two projects, 2 requests, one change and one failure; two sources, one write, one child | with two visits the history is cut at both ends by a third. A behaviour ends when the fourth document is opened, and only that open is not interfered with (`NavStep`). The second byte is in the middle of the editor's line and the preview ends before its second line can get to the top, so both views stop elsewhere than they are told. The second request of a client overtakes the first; every queue is full after one; an activation can be superseded in every phase of the one before. Symmetric in paths and in projects, which nothing distinguishes. The watching thread rests here and moves in `sdp_live`. About 560,000 states. |
| `services` | types, `PublishedAsReported`, `LoadingIsAnswered`, `SearchIsComplete`, `KeptIsShown`, `AlgorithmsAgree`, `InputIsFollowed`, `StopsReturn` | one export after another with three changes of the target and one of the buffer; two files, a queue of one, three generations; a tree of four with nested directories, queue and batch of one, two scans; two colours, two profiles; lists of one and two entries; two widths, one paper; two bars, two limits, two turns, motions of two steps; two frames; the answers, documents and regions of `MCSamples` | every queue is full as soon as it holds anything, so the waiting branches are all taken; a third generation supersedes one that supersedes; a turn can come in each step of the motion before; the thread that is waited for can be in any of its steps. About 320,000 states. |
| `sdp_live` | `ChangesAreDiscovered` | one project, 2 changes of its files (in the first version the area is gone, in the second it is back), two generated documents, two failing scans end the watch; the reader does not type and does not go back (`LiveStep`), which the discovery does not ask for | a change falls before, between and after the scans and in the middle of a discovery; a discovery that fails is followed by one that reads the area; an activation, one from the document that the first generated, or the opening of a source can interrupt each of them. One project, because the explorer forgets the one before when another is selected (`SelectProject` also selects the same one anew). 791,124 states. |
| `edit_budget`, `preview_profile`, `preview_zoom`, `page_headings` | one claim of the documentation each | smallest that show it | see below |

Deadlock is not checked: the
bounds stop every run in the end, a closed window stays closed and a joined worker stays joined.

What the properties say, beyond types:

- *Files.* A reader or a power loss never sees half a document (`WholeFiles`); a save reported
  durable stays (`DurableSurvives`); the temporary file is gone when the call is over
  (`NoTempLeft`); the identity handed back is the file's own and never that of somebody else's
  bytes (`IdentityIsHonest`); only the expected version is replaced, or one that appeared after
  the last comparison, the window the design accepts, and hard links are not broken outside the
  same window (`OnlyExpectedReplaced`).
- *Documents.* Unsaved text goes away only with the consent given for that very token,
  and only edits make a document dirty (`NoSilentLoss`); Save writes the document it was given for even if another is delivered while
  the name is chosen (`SaveWritesItsDocument`, from which Save As is exempt because it really
  reads the session only after its dialogs); a foreign file is replaced only when the user saw
  its name and agreed (`OverwriteConfirmed`); the history and the remembered identity are those
  of the document on display (`KeptWithItsDocument`); a token
  names one text in one format for good (`TokenNamesOneSource`).
- *History.* `HistoryChains` and `HistoryWithinBudget`.
- *Preview.* The latest submission is in one place (`OnePlace`), errors are the document's own
  and not those of a cancellation (`ErrorsAreTheSources`), no notification is lost
  (`LatestIsAnswered`), destruction terminates (`StopTerminates`). The pane is interactive only
  with the current text, profile and width (`InteractiveIsCurrent`); somebody always comes for a
  result (`AnswerIsAwaited`); a cached model under the session's token is of the session's text
  (`CachedModelIsOfThisText`); and in the end the preview shows the final text
  (`EventuallyShown`).

- *Getting around.* The visit under the cursor is the document on display, through cancelled and
  failed opens, the cut of the history and renaming (`VisitIsShown`); a place is only ever used in
  the document it was read in (`AnchorsStayHome`); in split mode both views stand at the reader's
  place as nearly as they can (`Follows`), and although a view that is moved calls back, his place
  changes only when he scrolls or goes somewhere, and to just there, never to the line or height at
  which a view could stop, nor with a new frame or scale (`NoEcho`; together `ViewsAgree`).
- *Delivery.* Each lease is held by a pane that shows its document, queued for release, or
  released: exactly one of these (`LeasesAccounted`). Requests are acted on in the order of their
  numbers, each at most once, although they are repeated, reordered and answered late
  (`DeliveredInOrder`).
- *Tools.* The tree, the catalogue of sources and the project agree, also while a menu is open; a
  generated document is kept with the selection it was really generated from, as long as the
  session or a visit needs it; no answer replaces unsaved text; a prototype is launched, and bytes
  are selected, only for the revision that the document on display was made from
  (`ToolsAnswerWhereAsked`, composed of `AnswersLandWhereAsked` and `ShownIsWhatWasChecked`). The
  project is read (or tried) as it is in the end (`ChangesAreDiscovered`): files that changed, an
  area that went and came back, also when an activation interrupted the discovery or a scan failed;
  unless the explorer has said that it no longer watches or the reader interrupts without end.
- *Services.* The export's report, the target and the temporary file agree, also when a cancel
  races the publication (`PublishedAsReported`); a row that says "loading" will be answered, and
  no answer is of an earlier index (`LoadingIsAnswered`); when the search says that it has ended,
  everything is in the tree and open again (`SearchIsComplete`); settings agree with the
  registry, the dialogs and the views, and lists with what is chosen from them, before and after a
  restart (`KeptIsShown`; that the saved lists are the displayed ones at every moment is not
  claimed, since a failing write leaves them behind); whoever waits for a thread gets past it
  (`StopsReturn`).
- *Input and algorithms.* `InputIsFollowed` puts together `ViewsAreKept` (Zoom: pages fit, and
  Split comes back with its share), `TurnsAddUp` and `MotionsEnd` (Wheel: turns accumulate, each
  step comes nearer, and layout is never undone) and `HandIsFollowed` (Pointer: a link that is
  followed was pressed and released in one frame, a selection is of the text on display).
  `AlgorithmsAgree` compares recursive definitions with what they promise: `TreeIsWhole` (rows
  lead to nodes, none is below itself, nothing that can be opened is lost, the selected row is
  found again), `DocumentIsLaidOut` (no letter is lost, nothing overlaps, pages hold their lines,
  and the pointer finds what is drawn under it) and `RoundTrip` (a height, mapped to the source and
  back, lands on the reader's line or one as near and as short, never on the block around it).
  Lines that are kept together (`PagesHoldTheirLines`) are separated only where the group of the
  second reaches further than that of the first and does not fit on the page any more; that
  this separates two headings in a row is the fourth disagreement below (`HeadingsStay`).

**Fairness.** `ParserWorker`: weak fairness of the thread's own steps (the scheduler runs it,
parsing terminates because inputs are bounded and the interpreter has no unbounded loop) and of
the owner's next instruction after a critical section (`Notify`, `Join`). Nothing is assumed of
spurious wake-ups or of the owner's calls. `Preview`: weak fairness of each timer, of the rest
of `poll()`, of FOX's layout pass over a changed pane, of the parser thread, and of the user
closing an error box. Nothing is assumed of edits, commands or resizes. `services`: weak
fairness of the export, reference and scanner threads (each of their steps ends, as they do
bounded work and poll for cancellation), of the GUI thread's return from a join that has become
possible (`Quitted`, `Joined`), and of the tree's 30 ms poll. `sdp_live`: of the child's end
(it exits, or its deadline kills it), of the two polls and of the watching thread's scan. Nothing
is assumed of the reader or of other programs. `Wheel`'s motion needs no fairness: `MotionsEnd` says
that each step of its timer comes nearer to the end.

**`Eager`.** FOX runs a layout pass when its event queue is empty, so input that is already
queued may be handled first. `Eager = FALSE` allows that and is used for all safety checking.
With `Eager = TRUE` the layout pass comes before the next command; `preview_live` needs it,
and `preview_zoom` shows why.

## Disagreements found

1. **Undo steps lost under budget** (`edit_budget`). `EditController::apply` clears the redo
   stack but keeps its bytes in `historyBytes` (`src/application/document/EditController.cpp:13`).
   After undoing and typing again the trimming loop drops undo steps although the stack holds
   less than the 32 MiB that Functionality-011 grants it. The counter never underflows and what
   is kept always fits the budget (`HistoryWithinBudget`): the history is shorter than promised,
   never corrupted.
2. **A profile change without a layout** (`preview_profile`). Functionality-007 says a change of
   profile makes a layout request under a new generation. `relayout()` returns early when the
   cached paged frame has the profile being set (`src/application/preview/PreviewCoordinator.cpp:41`).
   If the layout for another paper failed in between (a line taller than its page), the host was
   deactivated for that request and is not activated again: the old frame is displayed but dead.
3. **A frame dropped for good** (`preview_zoom`). `FoxRenderHost::present` drops a continuous
   frame of another width and relies on a later resize
   (`src/application/adapters/FoxRenderHost.cpp:95`). While nothing is shown yet, zooming changes
   the flow width without asking for a layout; if the frame arrives then, and the zoom is set
   back before the pane is laid out, `lastWidth` equals the width again, nobody asks, and the
   preview stays blank until the next edit.

4. **A heading alone at the end of a page** (`page_headings`). Functionality-017 keeps a heading
   with the next line of content when there is room. `paginate()` keeps it with the two lines after
   it (`src/renderer/PageBreaker.cpp:19`); when these begin with another heading, that one's own
   group reaches further and may open a new page, and the first heading stays behind, although both
   headings and the line after them fit on one page.

Observed and not counted as disagreements, because no document promises otherwise: Save As reads
the session after its dialogs; process death between `link()` and `unlink()` leaves a second
name, so that the next save is refused; a failing `fstat` after the rename reports an error for
a file that was replaced.

## Proofs

All theorems hold for every value of the constants that satisfies the named assumptions, for
unbounded clocks and tickets wherever a bound is not part of the guard, and for all interference.
The assumptions: `ContractsAssumption` (`Partial` is no text, `Absent` no file and no path,
`NoIdentity` no identity), `SessionAssumption` (`Untitled` is no path, the empty text is a text,
every path has a kind), `EditAssumption` (weights and the budget are natural numbers),
`WorkerAssumption` (`None` is no snapshot and no completion), `PreviewAssumption` and
`SourcesAssumption` (a text renders under some profiles; whatever the session can hold within the
bounds is a snapshot), `NavigationAssumption` (heights and limits are natural numbers, layouts are
sequences of regions, and each view stops somewhere in its text or frame), `DeliveryAssumption` (the window is a client, its limits are positive),
`ReferencesAssumption` and `ExportAssumption` (limits are natural numbers),
`WorkspaceAssumption` (there are finitely many entries, each in a directory; files match, never
directories; and every set of entries has one that is its own parent or whose parent is outside,
which says that directories do not contain one another in a circle: symbolic links are left out),
`ListsAssumption` (`Entries` is a sequence; the separator and the absence of a choice are no
entries), `ZoomAssumption` and `WheelAssumption` (sizes are natural numbers, paper has a size),
`PointerAssumption` (no frame carries the empty token), `SdpAssumption` (a project has a name) and
`SduiAssumption` (one of the sources is the main one).

Almost every module of proofs has the same shape: an inductive invariant as a conjunction of
named parts, a lemma per action that it keeps the parts, a lemma that puts the steps together, a
theorem `...Invariance`, and from it the invariants and action properties the runs check.

**`FileStore_proofs`.** `StoreInv` is the inductive invariant. `WholeFiles` alone is not
inductive: publishing needs to know that the temporary file is complete and flushed by then, which
depends on the stage of the call (`Staged`), and a power loss needs that nothing unflushed ever
had a name (`AllSolid`, from which a write back or a directory flush copies a file unchanged).
Durability needs that versions come from the clock and that a published path never goes back
(`Clocked`), and that both copies of a reported path are at least as new as the report
(`AllKept`). One lemma per part shows that every action keeps it; `StoreInvariance` puts them
together. From it follow `StoreTypeCorrect`, `NeverHalfAFile` (`WholeFiles`), `DurableIsDurable`
(`DurableSurvives`) and `TempIsGone` (`NoTempLeft`).

`ReplaceInvariance` adds what the call knows of its target. `Ours`: from the publication on, the
path holds the published inode in the version the call took, unless another program touched it;
hence `IdentityIsTrue` (`IdentityIsHonest`). `Compared`: no version is ahead of the clock, and at
the publication the path holds nothing, the expected identity with one link, or a version younger
than the last comparison; hence `ReplacesOnlyExpected` (`OnlyExpectedReplaced`). The check of the
link count is made only before the first comparison. It carries over to the second because a link
changes the version too, which is why `Compared` relates `links` to an unchanged target.

`StoreRefinement` proves `StoreSpec => ImplementsAtomicStore`: link and rename map to `Publish`,
exceptions to `Fail`, the directory flush to `Succeed`, process death and power loss to `Die`,
another program's write or deletion to `Change`, everything else to a stutter; the invariant is
used to know that a flush or write back does not change what is read.

**`Documents_proofs`.** *The history.* `EditInv` is types, `HistoryChains` and
`HistoryWithinBudget`, for texts of any weight and stacks of any length. `TotalBytes` and the trimming are recursive
functions; what they do is proved by induction on the length, which `SetInduction` states over a
set of numbers (from the well-foundedness of `<`), as the library's own induction theorems take
an operator. `TotalOfAppend` and its siblings say how the sum changes at either end of a stack;
`HistoryIsOneChain` and `BudgetHolds` follow.

*The window.* `WindowUsesTheStore` shows that every behaviour of `Spec` is one of `StoreSpec`, so
the theorems about the store hold in the window's model. `DocInv` adds to
the invariants of store and history that the remembered identity is of the baseline (`FileKnown`)
and what each frame of the GUI's stack may rely on after its dialog returns: a dirty buffer on its
way out was asked about under its present token (`Consented`); the snapshot of a save is the
session, or of an earlier document whose successor nobody has edited (`Snapped`); the running call
writes that snapshot, over its own file or the confirmed one (`Writing`). None of the properties
is inductive without the others. From it follow the invariants `TypeCorrect`, `KeptTogether`
(`KeptWithItsDocument`) and `SaveIsOfItsDocument` (`SaveWritesItsDocument`), and the action
properties `NothingLostUnasked` (`NoSilentLoss`), `ReplacedOnlyIfConfirmed`
(`OverwriteConfirmed`) and `TokensName` (`TokenNamesOneSource`).

**`Preview_proofs`.** *The thread.* Types and `OnePlace` are inductive together;
`ErrorsAreTheSources` needs in addition that a job which is still current carries an honest error flag.
`WorkerRefinement` proves that the safety part of `WorkerSpec` implements `LatestWins`.

*The preview.* The heart of `PreviewInv` is `AllPast`: every snapshot on its way through the worker, and the cached model, is of an earlier token or is the session as it is now.
A completion that carries the session's token is therefore of the session's text
(`CachedModelIsTrue`), although the token is all the coordinator compares. `PaneInv` says that the
frame on an active pane is the coordinator's frame, for the profile and the flow width; the
coordinator keeps its frame on an early return without looking at the pane, which is right only
because of that. From it follow `InteractiveIsTrue` (`InteractiveIsCurrent`),
`AnswersAreAwaited` (`AnswerIsAwaited`) and `TypeCorrect`.

**`Navigation_proofs`.** `NavInv`: the history's visits, the pending request with its proposal
and the pending anchor each carry places of the document they are meant for, and the cursor is at
the displayed one. From it `HistoryFollowsDisplay` (`VisitIsShown`), `PlacesStayHome`
(`AnchorsStayHome`) and `NavTypeCorrect`. `ViewsFollow` (`ViewsAgree`) is an action property: the
lemmas about the setters say that with a flag up the coordinator's state does not change,
whatever the widget reports, and those about `Restored`, `Jumped` and `Framed` carry this through
their nested calls; what remains is that each action sets both views from the same place, and that
an action which changes the place is one of the reader's. It holds for every `TopAt` and
`LastHeight`, so wherever views stop.

The mapper is first shown to be total: among the usable regions a nearest one exists although the
order compares tuples (`Nearest`). `ScrolledPlaceComesBack` states `RoundTrip` for every frame and
height, which `AlgorithmsAgree` evaluates on samples only. Nothing is assumed of the frame: regions
are nested, a block begins with its first line, the cells of a row share its source. What comes
back is a region at least as near to the noted byte and as short as the reader's. The height
itself comes back, within a hundredth of the region and a pixel, where the reader's region is the
first of the nearest and shortest at its byte, as is a line that begins together with its block.
In the padding of a block the reader's region is the block, and the height that comes back is in
its first line; among the cells of a row it is in the first.

**`Delivery_proofs`.** `OrderInv`: the highest number acted on under a key is never above the one
the endpoint or the window has noted (`Behind`); hence `RequestsInOrder` (`DeliveredInOrder`).
`LeaseInv`: each lease is with exactly one pane, once in the queue, or released, and a pane's
lease is for what it shows; hence `LeasesHaveOnePlace` (`LeasesAccounted`). That part of it which
says that the queue holds at most two more than its limit needs `Waiting`, which counts the
leases the panes still hold as well. Flushing the queue is a fold; `PrefixInduction` and
`FoldExists` give its value.

**`Services_proofs`.** *Export.* `ExportInvariance`: the conjunction of the types, of `Steps` and
of `PublishedAsReported` is inductive for `ExportSpec`, for any number of changes and revisions.
`PublishedAsReported` alone is not: that the thread publishes the text as it was at the start
needs that the frame it laid out is of that revision from then on, and that a cancel never falls
between the thread's last look and the publication needs that holding the publication mutex
excludes both (`Steps`). `ThreadKeeps` has one step per stage of the thread, `OthersKeep` one per
action of the reader and of other programs. From it follow `ExportTypeCorrect` and `ReportsAreTrue`
(`PublishedAsReported`).

*References.* `RefInv` strengthens `LoadingIsAnswered` by `Apart`: a file that is queued, in the
thread or answered says that it is loading, is not about to be asked for, and is in only one of
these places. Without it a late second answer could end the loading of a file that has been asked
for anew, whose row would then say "loading" for good. An answer of an earlier index is kept out by the generation, which only
the thread may be behind of (`Fetching`). `RequestsSent` and `ListedOnce` say what the request
timer does with a queue that takes only some of the requests. From it follow `RefTypeCorrect` and
`NoRowLoadsForever` (`LoadingIsAnswered`).

**`Panels_proofs`.** *The file tree.* `WorkInv` says where everything is that is still to be shown.
`NothingLost`: each entry of a directory that was requested is in the tree, in the queue, held by
the thread, or in a directory that is still in its list of jobs or of folders to visit
(`EntriesCome`); with a filter, each file that matches is there or has a directory above it on that
way (`FileComes`). `SearchIsComplete` is what this says when the last three places are empty, which
`WorkAgrees` ties to the flag the panel reads. `TreeHangs` and `WorkIsBelow` keep what a superseded
scan found out of the tree, `Reopened` does the same accounting for the directories that were open
before a refresh. That the directories above an entry lead to the root, and end there, is the part
that needs the nesting to be well-founded (`WorkspaceAssumption`). From `WorkInvariance` follow
`WorkTypeCorrect` and `SearchesAreComplete`.

*Preferences.* With the types of the dialog's draft `SettingsHold` is inductive as it stands
(`SettingsAreHeld`). *Lists.* `ListsHold` needs to know of the saved lists, which a restart brings
back, what it says of the current ones (`Proper`); what `Among` keeps of a sequence is proved by
induction along it (`AmongFacts`), that a list without repetitions is as long as it has elements
gives the bound on `Cardinality` (`AsLongAsMany`), and `ForemostFacts` is about bringing a path
to the front (`ListsAreHeld`). *Zoom.* The applied scale fits the panes as they are now (`Fits`); that the share of the panes comes back to a pixel is
arithmetic about rounding (`ViewsKeepTheirShare`). *Wheel.* A motion belongs to the active bar and
its destination is within the range it was begun in (`Owns`, `MotionInv`); a step covers a part of
the way that is neither nothing nor more than all of it, for any duration and time left
(`WheelIsHeld`, with `MotionsEnd`). *Pointer.* A selection is of the frame the pane has, on display
or not, and a press over a frame is meant for it until the buttons are released (`PointerInv`,
`HandIsHeld`).

*Side by side.* A behaviour of `ServicesSpec` is, for each service, one of its own specification or
one at rest. `ServiceTypesHold`, `KeptIsWhatIsShown` (`KeptIsShown`) and `InputIsAlwaysFollowed`
(`InputIsFollowed`) put the theorems of the services together.

**`Tools_proofs`.** *Workflow.* `SduiInv`: an answer that is waited for is about the frame that was
asked about, and nothing is ready that was not confirmed (`ProbeIsAsked`); between the opening of a
link's source and the comparison of its bytes nothing else is on display (`SourceIsOpen`). Hence
`LaunchesWhatWasChecked`. *Explorer.* `SdpInv`: the child at work does what the panel waits for and
in the project it waits for it (`JobIsPending`); what the panel will show when its menu is closed is
of the selected project and of the catalogue's version (`PanelAgrees`); directories are those of the
documents that are owned and the one being made, whose content is what the child read
(`BundlesAgree`). Every late answer is dealt with by the first, every open menu by the second part;
hence `AnswersLand`, `SdpTypeCorrect`. *Side by side.* `ReadingTypesHold` and `ToolsAnswer`
(`ToolsAnswerWhereAsked`) hold of `MCNavigation`'s specification.

Types of `FileStore`, `ParserWorker`, `EditController` and of the components of the side by side
runs are not checked again in runs of their own: `Documents.TypeOK` and `Preview.TypeOK` contain the
first three, the types of `navigation` and of `services` the others.

Model-checked only:

- liveness: `LatestIsAnswered`, `StopTerminates`, `EventuallyShown`, `StopsReturn` and
  `ChangesAreDiscovered`. Liveness under fairness and `ENABLED` are out of the prover's reach.
- `AlgorithmsAgree` but for `RoundTrip`: `Layout`, `Reading` and `SdlTree` use `RECURSIVE`
  operators, in whose presence the SMT backend is lost, and what they compute for every document
  would have to be proved by induction over documents.
- the four claims of the documentation that the code does not keep: they are refuted by a run each.

## What is not modelled

Painting, fonts, images, maths, colours; the texts of messages; the Markdown and Mermaid parsers;
byte-level validation; the start of external programs; the vendored libraries and the copies of
the sources kept as evidence below `SDP/`. They are functions of their input without protocol, or
not this program's code. Inside modelled components the following is left out:

- `Workspace`: symbolic links, and the scroll position a refresh restores.
- `Sdp`, `SdlTree`: the JSON syntax, limits on sizes and rows (4096), look-up of the tools.
- `Sdui`: which tab shows the preview.
- `Layout`, `Reading`: diagrams, images, colours, table rules, right-to-left runs, cancellation
  polls and complexity limits. The samples stay inside those limits.
- `Navigation`, `Delivery`: the preview pipeline of the second pane.
- `FileNameFilter`, `TextProjection`, `InputPolicy`, `LinkResolver`, `HeadingAnchor`,
  `DocumentIndex`'s list of headings and `SourceMapBuilder`: pure functions of text.

Met while modelling, written into the modules as they are, and contradicted by no document:
`NavigationPanel::follow` passes the anchor of the old document; a second refresh of the file tree
while the first is still restoring remembers only what is open again by then; an unhealthy node in
a cycle that consists of references only has no row; a tab after text in its inline run is given
the text position at which the run begins (`src/renderer/InlineLayout.cpp:193`), so that
`DocumentIsLaidOut` asks for exact positions only of runs without one; a formula on a line of its
own in a centred or right-aligned cell is moved twice (`src/renderer/InlineLayout.cpp:161`).

## Plan

1. *Done:* `FileStore` with its abstract store, `EditController`, `Documents`, `ParserWorker`
   with its abstract worker, `Preview`, and the proofs about the store and the worker.
2. *Done:* visits and anchors, delivery, the SDP explorer and SDUI workflow; export, references,
   file tree, settings, lists, zoom, wheel, pointer; SDL trees, layout and reading; the proof about
   exporting.
3. *Done:* the proofs of every safety and action property of every run, except `AlgorithmsAgree`.
4. Pure functions of text against reference definitions: `TextProjection::difference`,
   `FileNameFilter`, `DocumentIndex`'s headings, `SourceMapBuilder`.
5. Diagram layout and its scene cache.
