----------------------------- MODULE Documents -----------------------------
(***************************************************************************)
(* The document transactions of the main window: DocumentCoordinator on    *)
(* its session, edit history and file store, the dialogs that Application  *)
(* opens in the middle of them, and what runs while a dialog is up.        *)
(*                                                                         *)
(* A FOX dialog runs a nested event loop.  The user can only answer it,    *)
(* but timers keep firing, and the window's IPC endpoint (DocumentViews)   *)
(* may deliver another document into the session meanwhile.  Reading and   *)
(* writing block the loop: only other programs move then.                  *)
(***************************************************************************)
EXTENDS EditController, FileStore

VARIABLE gui   \* where the GUI thread is, and the locals of its frames

vars == <<session, undoStack, redoStack, historyBytes,
          files, stable, clock, temp, call, reported, gui>>

Dialogs == {"unsaved",   \* save, discard or cancel?
            "name",      \* a name for an untitled document, inside save()
            "saveAs",    \* the target of the Save As command
            "replace",   \* the target exists: replace it?
            "message"}   \* an error or a warning to acknowledge

GuiPc == Dialogs \cup {"idle", "read", "writing", "closed"}

Gui == [pc : GuiPc,
        then : {"none", "open", "close"},   \* what follows resolveUnsaved
        target : Paths \cup {Untitled},     \* the path to open, or to save as
        snapshot : Session,                 \* what save() is writing
        saved : BOOLEAN,                    \* result of the save being reported
        command : {"save", "saveAs"},       \* what save() was called by, and
        issuer : Nat,                       \* the document it was given for
        consent : Nat \X Nat,               \* the token the discard answer was for
        confirmed : Paths \cup {Untitled}]  \* the path the replace answer was for

Idle == [pc |-> "idle", then |-> "none", target |-> Untitled, snapshot |-> NewSession,
         saved |-> FALSE, command |-> "save", issuer |-> 0, consent |-> <<0, 0>>, confirmed |-> Untitled]

Init == EditInit /\ StoreInit /\ gui = Idle

EventLoop == gui.pc \in Dialogs \cup {"idle"}

\* NavigationCoordinator::pending, set for the length of openTarget.
OpenPending == gui.then = "open"

(***************************************************************************)
(* save(): from the snapshot to the callback.                              *)
(***************************************************************************)
\* A title of the same file is checked against the session's identity; a
\* confirmed overwrite against what is there now; anything else must be new.
Expected(snapshot, p, overwrite) ==
    CASE p = snapshot.path -> session.file
      [] p # snapshot.path /\ overwrite -> IdentityOf(files[p])
      [] OTHER -> NoIdentity

StartWrite(frame, snapshot, p, overwrite) ==
    /\ clock < MaxVersion
    /\ \/ /\ overwrite /\ p # snapshot.path => files[p] # Absent
          /\ WriteAtomic(snapshot.text, p, Expected(snapshot, p, overwrite))
          /\ gui' = [frame EXCEPT !.pc = "writing", !.snapshot = snapshot]
       \/ /\ overwrite /\ p # snapshot.path         \* reading the target threw
          /\ gui' = [frame EXCEPT !.pc = "message", !.saved = FALSE]
          /\ UNCHANGED storeVars

\* save() without a target: the snapshot first, then the name if it has none.
Save(frame) ==
    IF session.path = Untitled
    THEN /\ gui' = [frame EXCEPT !.pc = "name", !.snapshot = session,
                                 !.issuer = session.document]
         /\ UNCHANGED storeVars
    ELSE StartWrite([frame EXCEPT !.issuer = session.document], session, session.path, FALSE)

\* What follows when save() or resolveUnsaved returns ok.
Resume(frame, ok) ==
    gui' = CASE ok /\ frame.then = "open" -> [frame EXCEPT !.pc = "read", !.snapshot = NewSession]
             [] ok /\ frame.then = "close" -> [frame EXCEPT !.pc = "closed", !.snapshot = NewSession]
             [] OTHER -> Idle

CommandSave ==
    /\ gui.pc = "idle"
    /\ Save(gui)
    /\ UNCHANGED editVars

\* Mutant of ChooseName: the session is read again after the dialog.
ChooseNameForWhateverIsOpen(p) ==
    /\ gui.pc = "name"
    /\ StartWrite(gui, session, p, FALSE)
    /\ UNCHANGED editVars

ChooseName(p) ==
    /\ gui.pc = "name"
    /\ StartWrite(gui, gui.snapshot, p, FALSE)
    /\ UNCHANGED editVars

CancelName ==
    /\ gui.pc = "name"
    /\ Resume(gui, FALSE)
    /\ UNCHANGED <<editVars, storeVars>>

WriteSucceeds ==
    /\ gui.pc = "writing"
    /\ call.pc = "done"
    /\ session' = MarkedSaved(session, gui.snapshot, call.path, SavedIdentity)
    /\ IF call.durable THEN Resume(gui, TRUE)
       ELSE gui' = [gui EXCEPT !.pc = "message", !.saved = TRUE]
    /\ Return
    /\ UNCHANGED <<undoStack, redoStack, historyBytes>>

WriteFails ==
    /\ gui.pc = "writing"
    /\ call.pc = "failed"
    /\ gui' = [gui EXCEPT !.pc = "message", !.saved = FALSE]
    /\ Return
    /\ UNCHANGED editVars

Acknowledge ==
    /\ gui.pc = "message"
    /\ Resume(gui, gui.saved)
    /\ UNCHANGED <<editVars, storeVars>>

(***************************************************************************)
(* Save As: the dialogs come first, save() takes its snapshot after them.  *)
(***************************************************************************)
CommandSaveAs ==
    /\ gui.pc = "idle"
    /\ gui' = [gui EXCEPT !.pc = "saveAs", !.command = "saveAs", !.issuer = session.document]
    /\ UNCHANGED <<editVars, storeVars>>

\* Mutant of ChooseTarget: the overwrite is taken for granted.
ChooseTargetUnasked(p) ==
    /\ gui.pc = "saveAs"
    /\ StartWrite(gui, session, p, files[p] # Absent)
    /\ UNCHANGED editVars

ChooseTarget(p) ==
    /\ gui.pc = "saveAs"
    /\ IF files[p] # Absent
       THEN gui' = [gui EXCEPT !.pc = "replace", !.target = p] /\ UNCHANGED storeVars
       ELSE StartWrite(gui, session, p, FALSE)
    /\ UNCHANGED editVars

ConfirmReplace ==
    /\ gui.pc = "replace"
    /\ StartWrite([gui EXCEPT !.confirmed = gui.target], session, gui.target, TRUE)
    /\ UNCHANGED editVars

CancelSaveAs ==
    /\ gui.pc \in {"saveAs", "replace"}
    /\ gui' = Idle
    /\ UNCHANGED <<editVars, storeVars>>

(***************************************************************************)
(* Opening and closing: resolveUnsaved, then the read.                     *)
(***************************************************************************)
Leave(frame) ==
    /\ IF Dirty(session)
       THEN gui' = [frame EXCEPT !.pc = "unsaved", !.consent = Token(session)]
       ELSE Resume(frame, TRUE)
    /\ UNCHANGED <<editVars, storeVars>>

CommandOpen(p) ==
    /\ gui.pc = "idle"
    /\ session.document < MaxDocument
    /\ Leave([gui EXCEPT !.then = "open", !.target = p])

CommandClose ==
    /\ gui.pc = "idle"
    /\ Leave([gui EXCEPT !.then = "close"])

\* The frame keeps no consent when the answer is not Discard.
ChooseSave ==
    /\ gui.pc = "unsaved"
    /\ Save([gui EXCEPT !.consent = <<0, 0>>])
    /\ UNCHANGED editVars

ChooseDiscard ==
    /\ gui.pc = "unsaved"
    /\ Resume(gui, TRUE)
    /\ UNCHANGED <<editVars, storeVars>>

ChooseCancel ==
    /\ gui.pc = "unsaved"
    /\ Resume(gui, FALSE)
    /\ UNCHANGED <<editVars, storeVars>>

\* Mutant of Load: the undo history of the document before is kept.
LoadKeepingHistory(p) ==
    /\ files[p] # Absent
    /\ session' = Replaced(session, p, IdentityOf(files[p]))
    /\ UNCHANGED <<undoStack, redoStack, historyBytes>>

\* session.replace and the opened callback: the edit history starts over.
Load(p) ==
    /\ files[p] # Absent
    /\ session' = Replaced(session, p, IdentityOf(files[p]))
    /\ Reset

ReadSucceeds ==
    /\ gui.pc = "read"
    /\ Load(gui.target)
    /\ gui' = Idle
    /\ UNCHANGED storeVars

\* The error box appears inside openTarget, with the request still pending.
ReadFails ==
    /\ gui.pc = "read"
    /\ gui' = [gui EXCEPT !.pc = "message", !.saved = FALSE]
    /\ UNCHANGED <<editVars, storeVars>>

\* Mutant of Deliver: the dirty buffer is not looked at.
DeliverAnyway(p) ==
    /\ EventLoop
    /\ ~OpenPending
    /\ session.document < MaxDocument
    /\ Load(p)
    /\ UNCHANGED <<storeVars, gui>>

\* DocumentViews::open("main", p) from the IPC timer, in any event loop.  It
\* refuses a dirty buffer; openTarget refuses a second open.
Deliver(p) ==
    /\ EventLoop
    /\ ~OpenPending
    /\ ~Dirty(session)
    /\ session.document < MaxDocument
    /\ Load(p)
    /\ UNCHANGED <<storeVars, gui>>

(***************************************************************************)
(* Editing happens only in the main event loop.                            *)
(***************************************************************************)
EditBuffer ==
    /\ gui.pc = "idle"
    /\ EditStep
    /\ UNCHANGED <<storeVars, gui>>

WriteStep ==
    /\ gui.pc = "writing"
    /\ CallStep
    /\ UNCHANGED <<editVars, gui>>

OtherPrograms ==
    /\ Environment
    /\ UNCHANGED <<editVars, gui>>

Next ==
    \/ EditBuffer
    \/ CommandSave \/ \E p \in Paths : ChooseName(p) \/ CancelName
    \/ WriteStep \/ WriteSucceeds \/ WriteFails \/ Acknowledge
    \/ CommandSaveAs \/ \E p \in Paths : ChooseTarget(p)
    \/ ConfirmReplace \/ CancelSaveAs
    \/ \E p \in Paths : CommandOpen(p) \/ Deliver(p)
    \/ CommandClose \/ ChooseSave \/ ChooseDiscard \/ ChooseCancel
    \/ ReadSucceeds \/ ReadFails
    \/ OtherPrograms

Spec == Init /\ [][Next]_vars

(***************************************************************************)
(* Properties.                                                             *)
(***************************************************************************)
TypeOK == EditTypeOK /\ StoreTypeOK /\ gui \in Gui

\* Unsaved text is only ever given up for the very document and revision the
\* user was asked about and chose to discard: neither a delivery during the
\* dialogs nor a failed save inside the question can make it disappear. And
\* text becomes unsaved only by being edited: no save, failed save, change of
\* format or delivery leaves a clean buffer different from its baseline.
NoSilentLoss ==
    [][ /\ \/ Dirty(session) /\ session'.document # session.document
           \/ Dirty(session') /\ gui.pc # "closed" /\ gui'.pc = "closed"
         => gui.consent = Token(session)
        /\ ~Dirty(session) /\ Dirty(session')
         => session'.document = session.document /\ session'.baseline = session.baseline
            /\ session'.revision = session.revision + 1 ]_vars

\* What is kept beside the buffer is of the document in it, whichever way it
\* got there: the undo history; and the identity that the next save accepts on
\* disk, so that an unchanged file still holds what was last loaded or saved.
KeptWithItsDocument ==
    /\ HistoryChains
    /\ session.file # NoIdentity => session.file.text = session.baseline

\* The Save command and the Save answer write the document they were given
\* for, even when another one is delivered while the name is being chosen.
\* (Save As reads the session only after its dialogs and is exempt.)
SaveWritesItsDocument ==
    gui.pc = "writing" /\ gui.command = "save" => gui.issuer = gui.snapshot.document

\* A file other than the document's own is replaced only if the user was
\* shown that very path and agreed.
OverwriteConfirmed ==
    [][ Publishing /\ Target # Absent
          => call.path = gui.snapshot.path \/ gui.confirmed = call.path ]_vars
=============================================================================
