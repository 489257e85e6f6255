------------------------------ MODULE Settings ------------------------------
(***************************************************************************)
(* Preferences and how the window looks: PreferencesService,               *)
(* FoxPreferencesStore, PreferencesDialog with its live preview, the       *)
(* reading colours and the theme button, as Application wires them.  A     *)
(* save may fail, a newer version's file is never touched, and whatever    *)
(* was only tried out must be gone when the dialog is.                     *)
(***************************************************************************)
EXTENDS Naturals

CONSTANTS
    Colors,      \* reading colours
    Others,      \* settings that take effect when committed: scrolling, margin, programs
    Valid,       \* those of Others that validate accepts
    Profiles     \* what appearance.ini may hold

ASSUME SettingsAssumption == Valid \subseteq Others

Themes == {"light", "dark"}

\* PreferencesSnapshot; `other` stands for what is neither theme nor colour.
Snapshots == [theme : Themes, light : Colors, dark : Colors, other : Others]

VARIABLES
    active,      \* PreferencesService::current
    registry,    \* FOX's registry in memory
    disk,        \* the registry's file; the version it was written with
    readOnly,    \* FoxPreferencesStore::readOnly
    look,        \* what is shown: theme, profiles, colours of the views, other
    dialog,      \* the dialog while it is open: draft, profiles; optional
    dragging     \* a colour slider is held

setVars == <<active, registry, disk, readOnly, look, dialog, dragging>>

ColorsOf(s, theme) == IF theme = "dark" THEN s.dark ELSE s.light

\* preferences->changed: applyAppearance, the scroll bars, the margin.
Shown(s, profiles) ==
    [theme |-> s.theme, colors |-> ColorsOf(s, s.theme), other |-> s.other, profiles |-> profiles]

\* applyAppearance with a theme that is not the active one: the colours are
\* the active ones of that theme.
Previewed(theme, profiles) ==
    [look EXCEPT !.theme = theme, !.colors = ColorsOf(active, theme), !.profiles = profiles]

\* FoxPreferencesStore::load: every entry is checked; what a newer version
\* wrote is read where it fits, and never written.
Loaded(profiles) ==
    /\ registry' = disk.settings
    /\ readOnly' = (disk.version # 1)
    /\ active' = disk.settings
    /\ look' = Shown(disk.settings, profiles)
    /\ dialog' = <<>> /\ dragging' = FALSE
    /\ UNCHANGED disk

SetInit ==
    \E s \in Snapshots, version \in {1, 2}, profiles \in Profiles :
       /\ s.other \in Valid
       /\ disk = [settings |-> s, version |-> version] /\ registry = s
       /\ active = s /\ readOnly = (version # 1)
       /\ look = Shown(s, profiles) /\ dialog = <<>> /\ dragging = FALSE

\* Mutant of Rejected: the registry keeps what could not be written.
RejectedDirty(draft) ==
    /\ registry' = draft
    /\ UNCHANGED <<active, disk>>

\* save fails: the registry in memory is put back as it was.
Rejected(draft) == UNCHANGED <<active, registry, disk>>

\* PreferencesService::commit and FoxPreferencesStore::save.
Accepts(draft, written) == draft.other \in Valid /\ ~readOnly /\ written

Commit(draft, written) ==
    IF Accepts(draft, written)
    THEN /\ disk' = [settings |-> draft, version |-> 1]
         /\ registry' = draft /\ active' = draft
    ELSE IF draft.other \in Valid /\ ~readOnly THEN Rejected(draft)
    ELSE UNCHANGED <<active, registry, disk>>

\* CommandRouter::ToggleTheme
ToggleTheme(written) ==
    LET draft == [active EXCEPT !.theme = IF @ = "dark" THEN "light" ELSE "dark"]
    IN /\ dialog = <<>> /\ ~dragging
       /\ Commit(draft, written)
       /\ look' = IF Accepts(draft, written) THEN Shown(draft, look.profiles) ELSE look
       /\ UNCHANGED <<readOnly, dialog, dragging>>

\* changeReadingColors while a slider moves, and when it is let go.
DragColors(colors) ==
    /\ dialog = <<>>
    /\ look' = [look EXCEPT !.colors = colors]
    /\ dragging' = TRUE
    /\ UNCHANGED <<active, registry, disk, readOnly, dialog>>

WithColors(colors) ==
    IF look.theme = "dark" THEN [active EXCEPT !.dark = colors] ELSE [active EXCEPT !.light = colors]

\* Mutant of CommitColors: after a failed save the tried colours stay.
CommitColorsKeeping(colors, written) ==
    /\ dialog = <<>>
    /\ dragging' = FALSE
    /\ Commit(WithColors(colors), written)
    /\ look' = [look EXCEPT !.colors = colors]
    /\ UNCHANGED <<readOnly, dialog>>

CommitColors(colors, written) ==
    LET draft == WithColors(colors)
    IN /\ dialog = <<>>
       /\ dragging' = FALSE
       /\ Commit(draft, written)
       /\ look' = IF Accepts(draft, written) THEN Shown(draft, look.profiles)
                  ELSE [look EXCEPT !.colors = ColorsOf(active, look.theme)]
       /\ UNCHANGED <<readOnly, dialog>>

(***************************************************************************)
(* PreferencesDialog, modal.                                               *)
(***************************************************************************)
OpenDialog ==
    /\ dialog = <<>> /\ ~dragging
    /\ dialog' = <<[draft |-> active, profiles |-> look.profiles, original |-> look.profiles]>>
    /\ UNCHANGED <<active, registry, disk, readOnly, look, dragging>>

\* onAppearance: the draft is tried out at once.
TryTheme(theme) ==
    /\ dialog # <<>>
    /\ dialog' = [dialog EXCEPT ![1].draft.theme = theme]
    /\ look' = Previewed(theme, dialog[1].profiles)
    /\ UNCHANGED <<active, registry, disk, readOnly, dragging>>

\* onChanged: scrolling, margin and browser wait.
ChangeOther(other) ==
    /\ dialog # <<>>
    /\ dialog' = [dialog EXCEPT ![1].draft.other = other]
    /\ UNCHANGED <<active, registry, disk, readOnly, look, dragging>>

\* onReload: appearance.ini is read again; a bad one changes nothing.
Reload(profiles) ==
    /\ dialog # <<>>
    /\ dialog' = [dialog EXCEPT ![1].profiles = profiles]
    /\ look' = Previewed(dialog[1].draft.theme, profiles)
    /\ UNCHANGED <<active, registry, disk, readOnly, dragging>>

Restored == Previewed(active.theme, dialog[1].original)

\* onAccept: if it cannot be saved the dialog stays, and shows the active look.
Accept(written) ==
    LET draft == dialog[1].draft
    IN /\ dialog # <<>>
       /\ Commit(draft, written)
       /\ IF Accepts(draft, written)
          THEN look' = Shown(draft, dialog[1].profiles) /\ dialog' = <<>>
          ELSE look' = Restored /\ UNCHANGED dialog
       /\ UNCHANGED <<readOnly, dragging>>

\* onCancel, and the destructor of a dialog that was not accepted.
Dismiss ==
    /\ dialog # <<>>
    /\ look' = Restored /\ dialog' = <<>>
    /\ UNCHANGED <<active, registry, disk, readOnly, dragging>>

SetNext ==
    \/ \E profiles \in Profiles : Loaded(profiles) \/ Reload(profiles)
    \/ \E written \in BOOLEAN : ToggleTheme(written) \/ Accept(written)
    \/ \E colors \in Colors : DragColors(colors)
    \/ \E colors \in Colors, written \in BOOLEAN : CommitColors(colors, written)
    \/ OpenDialog \/ Dismiss
    \/ \E theme \in Themes : TryTheme(theme)
    \/ \E other \in Others : ChangeOther(other)

SetSpec == SetInit /\ [][SetNext]_setVars

(***************************************************************************)
(* Properties.                                                             *)
(***************************************************************************)
SetTypeOK ==
    /\ {active, registry} \subseteq Snapshots
    /\ disk \in [settings : Snapshots, version : {1, 2}] /\ readOnly \in BOOLEAN
    /\ look \in [theme : Themes, colors : Colors, other : Others, profiles : Profiles]
    /\ dragging \in BOOLEAN

\* What is active is what was saved and what a restart brings back: a save
\* that failed leaves no trace in memory, a newer version's file is kept as it
\* is. When no dialog is open and no slider held, the window shows exactly
\* the active settings: nothing that was only tried out stays.
SettingsHold ==
    /\ active = registry /\ active = disk.settings /\ active.other \in Valid
    /\ readOnly <=> disk.version # 1
    /\ look.other = active.other
    /\ dialog = <<>> => /\ look.theme = active.theme
                        /\ dragging \/ look.colors = ColorsOf(active, active.theme)
    /\ dialog # <<>> => look.profiles \in {dialog[1].profiles, dialog[1].original}
=============================================================================
