------------------------------ MODULE Services ------------------------------
(***************************************************************************)
(* The services around the document that keep a state of their own, side   *)
(* by side: they share none, so each behaviour follows one, the focus, and *)
(* the others rest where they began.                                       *)
(***************************************************************************)
EXTENDS Export, References, Workspace, Settings, Lists, Zoom, Wheel, Pointer

VARIABLE focus     \* the component this behaviour follows

serviceVars == <<focus, exportVars, refVars, workVars, setVars, listVars, zoomVars, wheelVars,
                 pointerVars>>

Components == {"export", "references", "workspace", "settings", "lists", "zoom", "wheel", "pointer"}

\* What rests begins in one way only.
ServicesInit ==
    /\ ExportInit /\ (focus # "export" => ~target.exists)
    /\ RefInit /\ (focus # "references" => current.path = CHOOSE f \in Files : TRUE)
    /\ WorkInit /\ (focus # "workspace" => tree.root = CHOOSE r \in Roots : TRUE)
    /\ SetInit /\ (focus # "settings" =>
                     /\ disk.version = 1 /\ active = (CHOOSE s \in Snapshots : s.other \in Valid)
                     /\ look = Shown(active, CHOOSE p \in Profiles : TRUE))
    /\ ListInit /\ (focus # "lists" => saved = lists)
    /\ ZoomInit /\ (focus # "zoom" => width = CHOOSE w \in Widths : TRUE)
    /\ WheelInit /\ (focus # "wheel" => \A b \in Bars : bars[b].limit = CHOOSE l \in Limits : TRUE)
    /\ PointerInit /\ (focus # "pointer" => pane.expected = CHOOSE t \in Tokens : TRUE)

Rests(component, vars) == IF focus = component THEN TRUE ELSE UNCHANGED vars

ServicesNext ==
    /\ UNCHANGED focus
    /\ Rests("export", exportVars) /\ Rests("references", refVars)
    /\ Rests("workspace", workVars) /\ Rests("settings", setVars) /\ Rests("lists", listVars)
    /\ Rests("zoom", zoomVars) /\ Rests("wheel", wheelVars) /\ Rests("pointer", pointerVars)
    /\ \/ focus = "export" /\ ExportNext
       \/ focus = "references" /\ RefNext
       \/ focus = "workspace" /\ WorkNext
       \/ focus = "settings" /\ SetNext
       \/ focus = "lists" /\ ListNext
       \/ focus = "zoom" /\ ZoomNext
       \/ focus = "wheel" /\ WheelNext
       \/ focus = "pointer" /\ PointerNext

ServicesSpec == ServicesInit /\ [][ServicesNext]_serviceVars

-----------------------------------------------------------------------------
\* The components' type invariants.
TypeOK ==
    /\ focus = "export" => ExportTypeOK
    /\ focus = "references" => RefTypeOK
    /\ focus = "workspace" => WorkTypeOK
    /\ focus = "settings" => SetTypeOK
    /\ focus = "lists" => ListTypeOK
    /\ focus = "zoom" => ZoomTypeOK
    /\ focus = "wheel" => WheelTypeOK
    /\ focus = "pointer" => PointerTypeOK

\* What is kept for the next start and what is shown agree: the settings with
\* the registry and the views, the lists with what is chosen and opened, also after a restart.
KeptIsShown == SettingsHold /\ ListsHold

\* The panes keep their share and pages fit them; turns of the wheel add up
\* and end where they are due; the hand is over a link that a click follows.
InputIsFollowed ==
    /\ ViewsAreKept
    /\ [](TurnsAddUp /\ HandIsFollowed)
    /\ MotionsEnd
=============================================================================
