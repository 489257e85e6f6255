------------------------------- MODULE Lists -------------------------------
(***************************************************************************)
(* The lists of the sidebar that outlive the program, and the path field:  *)
(* FavoritesPanel, RecentFilesPanel, WorkPathHistory as WorkspacePanel     *)
(* uses it, and DocumentPathField with its file name filter.  A list is    *)
(* rebuilt while the zero timer of a choice from it has not fired; the     *)
(* three share a registry, which is written as a whole, or not.            *)
(***************************************************************************)
EXTENDS Integers, Sequences, FiniteSets, SequencesExt

CONSTANTS
    Entries,       \* every path, in the order favorites are sorted: folders first
    Folders,       \* those of them that are folders
    Home,          \* the folder the program starts in
    MaxFavorites,  \* 512
    MaxRecent,     \* 32
    Patterns       \* file name filters; "" lets everything through

Items == ToSet(Entries)

NoItem == "nothing"
Separator == "separator"

ASSUME ListsAssumption ==
    /\ Entries \in Seq(Items) /\ NoItem \notin Items /\ Separator \notin Items
    /\ Home \in Folders /\ Folders \subseteq Items /\ "" \in Patterns
    /\ {MaxFavorites, MaxRecent} \subseteq Nat \ {0}

VARIABLES
    lists,      \* favorites, files and workPaths
    chosen,     \* what each list's zero timer will open, or none
    saved,      \* them on disk
    lastOpened, \* the last one that was opened
    field,      \* DocumentPathField
    filter      \* WorkspacePanel: namePattern, filterPending; the tree's pattern

listVars == <<lists, chosen, saved, lastOpened, field, filter>>

\* The elements of a sequence that are in a set, in their order.
Among(s, S) ==
    LET kept[i \in 0 .. Len(s)] ==
          IF i = 0 THEN <<>>
          ELSE IF s[i] \in S THEN Append(kept[i - 1], s[i]) ELSE kept[i - 1]
    IN kept[Len(s)]

\* refresh: the rows of the favorites, a separator between folders and files.
Sorted(S) == Among(Entries, S)
RowsOf(favorites) ==
    LET folders == Sorted(favorites \cap Folders)  files == Sorted(favorites \ Folders)
    IN folders \o (IF folders = <<>> \/ files = <<>> THEN <<>> ELSE <<Separator>>) \o files

\* remember and activate: to the front, once, and the oldest is dropped.
Foremost(path, list) ==
    LET all == <<path>> \o Among(list, Items \ {path})
    IN SubSeq(all, 1, IF Len(all) < MaxRecent THEN Len(all) ELSE MaxRecent)

\* save: the list goes into the registry, which may not reach the disk.
Update(new) ==
    /\ lists' = new
    /\ \E written \in BOOLEAN : saved' = IF written THEN new ELSE saved

NoChoice == [favorites |-> NoItem, files |-> NoItem, workPaths |-> NoItem]

\* A start in the home folder, with the lists that were saved; setWorkPath.
AtHome(s) == [s EXCEPT !.workPaths = Foremost(Home, @)]

NoField == [editing |-> FALSE, submitting |-> FALSE, pattern |-> "", previous |-> ""]
NoFilter == [name |-> "", pending |-> FALSE, tree |-> ""]

Empty == [favorites |-> {}, files |-> <<>>, workPaths |-> <<>>]

ListInit ==
    /\ lists = AtHome(Empty) /\ saved \in {Empty, AtHome(Empty)}
    /\ chosen = NoChoice /\ lastOpened = NoItem
    /\ field = NoField /\ filter = NoFilter

Restart ==
    /\ Update(AtHome(saved))
    /\ chosen' = NoChoice /\ lastOpened' = NoItem
    /\ field' = NoField /\ filter' = NoFilter

FieldOnly == UNCHANGED <<lists, chosen, saved, lastOpened>>
ListsOnly == UNCHANGED <<field, filter>>

(***************************************************************************)
(* FavoritesPanel.                                                         *)
(***************************************************************************)
AddFavorite(path) ==
    /\ path \notin lists.favorites
    /\ Cardinality(lists.favorites) < MaxFavorites
    /\ Update([lists EXCEPT !.favorites = @ \cup {path}])
    /\ UNCHANGED <<chosen, lastOpened>> /\ ListsOnly

\* Mutant of RemoveFavorite: the choice stays.
RemoveFavoriteKeeping(path) ==
    /\ path \in lists.favorites
    /\ Update([lists EXCEPT !.favorites = @ \ {path}])
    /\ UNCHANGED <<chosen, lastOpened>> /\ ListsOnly

\* The context menu, whose entry removes the favorite: nothing will be opened.
RemoveFavorite(path) ==
    /\ path \in lists.favorites
    /\ chosen' = [chosen EXCEPT !.favorites = NoItem]
    /\ Update([lists EXCEPT !.favorites = @ \ {path}])
    /\ UNCHANGED lastOpened /\ ListsOnly

\* onSelect: by the row on display; a separator is no choice.
SelectFavorite(row) ==
    /\ row \in DOMAIN RowsOf(lists.favorites)
    /\ LET path == RowsOf(lists.favorites)[row]
       IN chosen' = [chosen EXCEPT !.favorites = IF path = Separator THEN NoItem ELSE path]
    /\ UNCHANGED <<lists, saved, lastOpened>> /\ ListsOnly

(***************************************************************************)
(* RecentFilesPanel and the work paths.                                    *)
(***************************************************************************)
\* The context menu of a recent file.
ForgetFile ==
    /\ chosen.files # NoItem
    /\ chosen' = [chosen EXCEPT !.files = NoItem]
    /\ UNCHANGED <<lists, saved, lastOpened>> /\ ListsOnly

Select(list, row) ==
    /\ row \in DOMAIN lists[list]
    /\ chosen' = [chosen EXCEPT ![list] = lists[list][row]]
    /\ UNCHANGED <<lists, saved, lastOpened>> /\ ListsOnly

\* openTarget, after which views.opened remembers the file, and setWorkPath.
ItemOpened(path) ==
    LET list == IF path \in Folders THEN "workPaths" ELSE "files"
    IN Update([lists EXCEPT ![list] = Foremost(path, @)]) /\ lastOpened' = path

\* onActivate of each: what was chosen may be gone by now.
Activate(list, exists) ==
    /\ chosen[list] # NoItem
    /\ chosen' = [chosen EXCEPT ![list] = NoItem]
    /\ IF exists THEN ItemOpened(chosen[list]) ELSE UNCHANGED <<lists, saved, lastOpened>>
    /\ ListsOnly

\* A document is opened, or saved, elsewhere.
OpenElsewhere(path) ==
    /\ ItemOpened(path) /\ UNCHANGED chosen /\ ListsOnly

(***************************************************************************)
(* DocumentPathField: typing filters at once, Enter opens the exact path   *)
(* and Escape puts the filter back.                                        *)
(***************************************************************************)
\* filterChanged: setNameFilter and its 200 ms timer.
Filtered(pattern) ==
    filter' = IF filter.name = pattern THEN filter
              ELSE [filter EXCEPT !.name = pattern, !.pending = TRUE]

BeginEditing ==
    /\ ~field.editing
    /\ field' = [field EXCEPT !.editing = TRUE, !.previous = field.pattern]
    /\ UNCHANGED filter /\ FieldOnly

Type(pattern) ==
    /\ field.editing /\ ~field.submitting
    /\ field' = [field EXCEPT !.pattern = pattern]
    /\ Filtered(pattern) /\ FieldOnly

\* finish(true)
PutBack ==
    /\ field' = [field EXCEPT !.editing = FALSE, !.submitting = FALSE, !.pattern = field.previous]
    /\ Filtered(field.previous)

Escape == field.editing /\ ~field.submitting /\ PutBack /\ FieldOnly

\* finish(false)
Blur ==
    /\ field.editing /\ ~field.submitting
    /\ field' = [field EXCEPT !.editing = FALSE]
    /\ UNCHANGED filter /\ FieldOnly

\* Enter: openTypedPath may ask about unsaved changes while timers fire.
Submit ==
    /\ field.editing /\ ~field.submitting
    /\ field' = [field EXCEPT !.submitting = TRUE]
    /\ UNCHANGED filter /\ FieldOnly

Accepted(path) ==
    /\ field.submitting
    /\ PutBack
    /\ ItemOpened(path) /\ UNCHANGED chosen

Refused ==
    /\ field.submitting
    /\ field' = [field EXCEPT !.submitting = FALSE]
    /\ UNCHANGED filter /\ FieldOnly

ClearFilter ==
    /\ ~field.submitting
    /\ field' = [field EXCEPT !.editing = FALSE, !.pattern = "", !.previous = ""]
    /\ Filtered("") /\ FieldOnly

\* onApplyFilter: setFilter scans the tree anew.
ApplyNameFilter ==
    /\ filter.pending
    /\ filter' = [filter EXCEPT !.pending = FALSE, !.tree = filter.name]
    /\ UNCHANGED field /\ FieldOnly

ListNext ==
    \/ Restart \/ ForgetFile
    \/ \E path \in Items :
          AddFavorite(path) \/ RemoveFavorite(path) \/ OpenElsewhere(path) \/ Accepted(path)
    \/ \E row \in 1 .. Len(Entries) + 1 : SelectFavorite(row)
    \/ \E list \in {"files", "workPaths"}, row \in 1 .. MaxRecent : Select(list, row)
    \/ \E list \in DOMAIN chosen, exists \in BOOLEAN : Activate(list, exists)
    \/ \E pattern \in Patterns : Type(pattern)
    \/ BeginEditing \/ Escape \/ Blur \/ Submit \/ Refused \/ ClearFilter \/ ApplyNameFilter

ListSpec == ListInit /\ [][ListNext]_listVars

(***************************************************************************)
(* Properties.                                                             *)
(***************************************************************************)
ListTypeOK ==
    /\ {lists, saved} \subseteq
          [favorites : SUBSET Items, files : Seq(Items), workPaths : Seq(Folders)]
    /\ DOMAIN chosen = DOMAIN NoChoice /\ {chosen[l] : l \in DOMAIN chosen} \subseteq Items \cup {NoItem}
    /\ lastOpened \in Items \cup {NoItem}
    /\ {field.pattern, field.previous, filter.name, filter.tree} \subseteq Patterns

\* However lists are rebuilt between a choice and its timer: no entry is
\* twice in a list, the last one opened heads its list, a favorite that was
\* removed is not opened any more. The tree's filter is the one in the path
\* field, or soon will be, also when a question is asked between Enter and the
\* answer.
ListsHold ==
    /\ \A list \in {lists.files, lists.workPaths} :
          Len(list) <= MaxRecent /\ Len(list) = Cardinality(ToSet(list))
    /\ Cardinality(lists.favorites) <= MaxFavorites
    /\ chosen.favorites \in lists.favorites \cup {NoItem}
    /\ lastOpened # NoItem => lastOpened \in {Head(l) : l \in {lists.files, lists.workPaths} \ {<<>>}}
    /\ field.pattern = filter.name
    /\ ~filter.pending => filter.tree = filter.name
=============================================================================
