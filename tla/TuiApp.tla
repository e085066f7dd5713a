------------------------------- MODULE TuiApp -------------------------------
(***************************************************************************)
(* The root model of the terminal program: the mode, the two overlays, the *)
(* tabs, one table view with its search bar (the processor, memory, I/O,   *)
(* network and syscall views are alike) and the page of one container.     *)
(* BubbleTea hands it one message at a time: a batch of data, or a key.    *)
(*                                                                         *)
(* A container is a number, in the order of the names; 0 is the empty name.*)
(* Of a batch the model keeps the containers in it, in the order of their  *)
(* samples, and the containers of its events.  Rendering, the theme, the   *)
(* sparklines and the scrolling of viewports are left out.                 *)
(***************************************************************************)
EXTENDS Integers, Sequences, FiniteSets, SequencesExt, Ordering

CONSTANTS
    Containers,   \* the names of containers
    NumCols,      \* columns of a table: the first sorts by name, the others by the sample
    BodyH,        \* rows of a table on the screen
    DetailMax,    \* 500: events the page of a container keeps
    NumCommands   \* commands of the palette

ASSUME TuiConstants ==
    /\ Containers \subseteq Nat \ {0}
    /\ {NumCols, BodyH, DetailMax, NumCommands} \subseteq Nat \ {0}

VARIABLES
    running,     \* up, quit, or panicked
    mode, prevMode,
    modal,       \* the help is shown
    palette,     \* visible, the number of matches, the cursor
    tab,         \* a table, or a view that selects no container
    tbl,         \* the table view
    detail       \* the page of a container

tuiVars == <<running, mode, prevMode, modal, palette, tab, tbl, detail>>
widgets == <<palette, tab, tbl, detail>>

Modes == {"Loading", "Dashboard", "Detail", "CommandPalette", "Help"}

-----------------------------------------------------------------------------
(* The table widget.                                                       *)
newTable == [rows |-> <<>>, filter |-> 0, cursor |-> 0, offset |-> 0,
             sortCol |-> -1, sortAsc |-> TRUE, bar |-> FALSE]

AtMost(a, b)  == IF a < b THEN a ELSE b
AtLeast(a, b) == IF a > b THEN a ELSE b

(* The rows the filter lets through, in the order of the sorted column.    *)
visible(t) ==
    LET shown   == Chosen(t.rows, {c \in Containers : t.filter \in {0, c}})
        inOrder == IF t.sortCol = 0 THEN Ascending(ToSet(shown)) ELSE shown
    IN  IF t.sortCol >= 0 /\ ~t.sortAsc THEN Reverse(inOrder) ELSE inOrder

LastRow(t) == AtLeast(0, Len(visible(t)) - 1)

SelectedRow(t) == IF visible(t) = <<>> THEN 0 ELSE visible(t)[t.cursor + 1]

SetRowsOnly(t, rows) == [t EXCEPT !.rows = rows]
SetRows(t, rows) ==
    LET new == [t EXCEPT !.rows = rows]
    IN  [new EXCEPT !.cursor = AtMost(@, LastRow(new))]

SetFilter(t, q) == [t EXCEPT !.filter = q, !.cursor = 0, !.offset = 0]

scrollToCursor(t) ==
    [t EXCEPT !.offset = CASE t.cursor < @          -> t.cursor
                           [] t.cursor >= @ + BodyH -> t.cursor - BodyH + 1
                           [] OTHER                 -> @]
moveUp(t, n)   == scrollToCursor([t EXCEPT !.cursor = AtLeast(@ - n, 0)])
moveDown(t, n) == scrollToCursor([t EXCEPT !.cursor = AtMost(@ + n, LastRow(t))])

(* The table modelled has sortable columns only, as the CPU, I/O and       *)
(* network tables have, so the search for the next one ends at once.  (The *)
(* memory and syscall tables have others: sortNext passes over them, and   *)
(* sortPrev would get stuck beside one.)                                   *)
sortNext(t) == [t EXCEPT !.sortCol = (@ + 1) % NumCols, !.sortAsc = TRUE]
sortPrev(t) == IF t.sortAsc THEN [t EXCEPT !.sortAsc = FALSE]
               ELSE [t EXCEPT !.sortCol = @ + 1, !.sortAsc = TRUE]
sortPrevPanics(t) == ~t.sortAsc /\ t.sortCol + 1 = NumCols

TableUpdate(t, key) ==
    CASE key = "up"     -> moveUp(t, 1)
      [] key = "down"   -> moveDown(t, 1)
      [] key = "pgup"   -> moveUp(t, BodyH)
      [] key = "pgdown" -> moveDown(t, BodyH)
      [] key = "g"      -> [t EXCEPT !.cursor = 0, !.offset = 0]
      [] key = "G"      -> scrollToCursor([t EXCEPT !.cursor = LastRow(t)])
      [] key = "s"      -> sortNext(t)
      [] key = "S"      -> sortPrev(t)
TableKeys == {"up", "down", "pgup", "pgdown", "g", "G", "s", "S"}

-----------------------------------------------------------------------------
(* The page of a container.                                                *)
newDetail == [container |-> 0, events |-> <<>>, paused |-> FALSE, bar |-> FALSE]

SetContainerOnly(d, c) == [d EXCEPT !.container = c]
SetContainer(d, c) ==
    IF d.container = c THEN d
    ELSE [d EXCEPT !.container = c, !.events = <<>>]

Newest(s) == SubSeq(s, AtLeast(1, Len(s) - DetailMax + 1), Len(s))

(* Before a container was chosen, the events of all are collected.         *)
SetDetailData(d, evs) ==
    IF d.paused THEN d
    ELSE [d EXCEPT !.events = Newest(@ \o Chosen(evs, {c \in Containers : d.container \in {0, c}}))]

-----------------------------------------------------------------------------
(* The command palette.                                                    *)
closed  == [visible |-> FALSE, matches |-> 0, cursor |-> 0]
Show    == [visible |-> TRUE, matches |-> NumCommands, cursor |-> 0]
Hide(p) == [p EXCEPT !.visible = FALSE, !.matches = 0]
filterPalette(p, n) == [p EXCEPT !.matches = n, !.cursor = AtMost(@, AtLeast(0, n - 1))]

-----------------------------------------------------------------------------
TuiTypeOK ==
    /\ running \in {"up", "quit", "panicked"} /\ {mode, prevMode} \subseteq Modes /\ modal \in BOOLEAN
    /\ palette \in [visible : BOOLEAN, matches : 0..NumCommands, cursor : 0..NumCommands]
    /\ tab \in {"table", "plain"}
    /\ tbl \in [rows : Seq(Containers), filter : Containers \cup {0}, cursor : Nat, offset : Nat,
               sortCol : -1..(NumCols - 1), sortAsc : BOOLEAN, bar : BOOLEAN]
    /\ detail \in [container : Containers \cup {0}, events : Seq(Containers), paused : BOOLEAN, bar : BOOLEAN]
    /\ Len(detail.events) <= DetailMax

TuiInit ==
    /\ running = "up" /\ mode = "Loading" /\ prevMode = "Loading" /\ modal = FALSE
    /\ palette = closed /\ tab = "plain" /\ tbl = newTable /\ detail = newDetail

(* The program ends, and nothing of its state is left.                     *)
Ends(how) ==
    /\ running' = how /\ mode' = "Loading" /\ prevMode' = "Loading" /\ modal' = FALSE
    /\ palette' = closed /\ tab' = "plain" /\ tbl' = newTable /\ detail' = newDetail

(* A batch goes to every view and to the page, whichever of them is shown. *)
DataMsg(rows, evs) ==
    /\ running = "up"
    /\ mode' = IF mode = "Loading" THEN "Dashboard" ELSE mode
    /\ tbl' = SetRows(tbl, rows)
    /\ detail' = SetDetailData(detail, evs)
    /\ UNCHANGED <<running, prevMode, modal, palette, tab>>

(* The palette absorbs every key: esc hides it, enter runs the command     *)
(* under the cursor if there is one, typing filters.  The mode stays.      *)
PaletteKey(new) ==
    /\ running = "up" /\ palette.visible
    /\ palette' = new
    /\ UNCHANGED <<running, mode, prevMode, modal, tab, tbl, detail>>
PaletteKeys ==
    \/ PaletteKey(Hide(palette))
    \/ palette.matches > 0 /\ PaletteKey(Hide(palette))
    \/ PaletteKey([palette EXCEPT !.cursor = AtLeast(0, @ - 1)])
    \/ palette.cursor < palette.matches - 1 /\ PaletteKey([palette EXCEPT !.cursor = @ + 1])
    \/ \E n \in 0..NumCommands : PaletteKey(filterPalette(palette, n))

(* Any key closes the help.                                                *)
ModalKeyKeepsMode == modal' = FALSE /\ mode' = mode
CloseModal == modal' = FALSE /\ mode' = prevMode
ModalKey ==
    /\ running = "up" /\ ~palette.visible /\ modal
    /\ CloseModal
    /\ UNCHANGED <<running, prevMode, widgets>>

NoOverlay == running = "up" /\ ~palette.visible /\ ~modal

(* The global keys, also while a search bar is open.                       *)
Quit == NoOverlay /\ Ends("quit")
Help ==
    /\ NoOverlay
    /\ prevMode' = mode /\ mode' = "Help" /\ modal' = TRUE
    /\ UNCHANGED <<running, widgets>>
OpenPalette ==
    /\ NoOverlay
    /\ mode' = "CommandPalette" /\ palette' = Show
    /\ UNCHANGED <<running, prevMode, modal, tab, tbl, detail>>
Esc ==
    /\ NoOverlay /\ mode = "Detail"
    /\ mode' = "Dashboard"
    /\ UNCHANGED <<running, prevMode, modal, widgets>>
SwitchTab(t) ==
    /\ NoOverlay /\ tab' = t
    /\ UNCHANGED <<running, mode, prevMode, modal, palette, tbl, detail>>

SelectedContainer == IF tab = "table" THEN SelectedRow(tbl) ELSE 0
OpensDetail       == mode = "Dashboard" /\ SelectedContainer # 0

NavDetail ==
    /\ NoOverlay /\ OpensDetail
    /\ detail' = SetContainer(detail, SelectedContainer)
    /\ prevMode' = mode /\ mode' = "Detail"
    /\ UNCHANGED <<running, modal, palette, tab, tbl>>

(* The other keys go to the page when it is shown, else to the view.       *)
DetailUpdate(new) ==
    /\ NoOverlay /\ mode = "Detail"
    /\ detail' = new
    /\ UNCHANGED <<running, mode, prevMode, modal, palette, tab, tbl>>
DetailKeys ==
    \/ detail.bar  /\ DetailUpdate([detail EXCEPT !.bar = FALSE])      \* enter
    \/ ~detail.bar /\ DetailUpdate([detail EXCEPT !.paused = ~@])      \* p
    \/ ~detail.bar /\ DetailUpdate([detail EXCEPT !.bar = TRUE])       \* /

ViewUpdate(new) ==
    /\ NoOverlay /\ mode # "Detail" /\ tab = "table"
    /\ tbl' = new
    /\ UNCHANGED <<running, mode, prevMode, modal, palette, tab, detail>>
ViewKeys ==
    \/ tbl.bar /\ ~OpensDetail /\ ViewUpdate([tbl EXCEPT !.bar = FALSE])   \* enter
    \/ tbl.bar /\ \E q \in Containers \cup {0} : ViewUpdate(SetFilter(tbl, q))
    \/ ~tbl.bar /\ ViewUpdate([tbl EXCEPT !.bar = TRUE])               \* /
    \/ ~tbl.bar /\ \E key \in TableKeys :
          (key = "S" => ~sortPrevPanics(tbl)) /\ ViewUpdate(TableUpdate(tbl, key))

(* The index past the last column: the program ends.                       *)
SortPanic ==
    /\ NoOverlay /\ mode # "Detail" /\ tab = "table" /\ ~tbl.bar /\ sortPrevPanics(tbl)
    /\ Ends("panicked")

Batches == {s \in UNION {[1..n -> Containers] : n \in 0..Cardinality(Containers)} : IsInjective(s)}
handleKey == PaletteKeys \/ ModalKey \/ Quit \/ Help \/ OpenPalette \/ Esc \/ (\E t \in {"table", "plain"} : SwitchTab(t))
             \/ NavDetail \/ DetailKeys \/ ViewKeys \/ SortPanic

TuiNext == (\E rows \in Batches, evs \in {<<>>} \cup {<<c>> : c \in Containers} : DataMsg(rows, evs)) \/ handleKey
TuiSpec == TuiInit /\ [][TuiNext]_tuiVars

-----------------------------------------------------------------------------
(* Whatever the user does between batches (open another container, pause,  *)
(* go back, open the same one again), the page never mixes containers: all *)
(* events on it are those of the container it is titled with.              *)
DetailShowsOwnEvents ==
    mode = "Detail" =>
        /\ detail.container # 0
        /\ ToSet(detail.events) \subseteq {detail.container}

(* However the rows, the filter and the list of matches shrink under a     *)
(* cursor, the index used by Enter is that of a row that is there.         *)
CursorInRange ==
    /\ tbl.cursor \in 0..LastRow(tbl)
    /\ palette.visible => palette.cursor \in 0..AtLeast(0, palette.matches - 1)

(* The overlays and the modes agree: the help is shown exactly in its own  *)
(* mode, so that no sequence of keys leaves the program in it with nothing *)
(* to close, and an open palette is in its mode.  (The mode outlives the   *)
(* palette: closing it restores no mode, and Enter opens no page after.)   *)
OverlaysMatchMode ==
    /\ modal <=> mode = "Help"
    /\ palette.visible => mode = "CommandPalette" /\ ~modal

(* The key S sorts by the previous column, as the help says; it does not   *)
(* end the program.                                                        *)
SortKeySorts == running # "panicked"
=============================================================================
