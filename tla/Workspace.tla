----------------------------- MODULE Workspace ------------------------------
(***************************************************************************)
(* The legacy programs around REPL/REPL.cc: a document - the text of what  *)
(* was asked and answered, and the user's definitions - that is kept in a  *)
(* file.  GUI/GTKREPL.cc and GUI/WIN32REPL.cc are windows with dialogs,    *)
(* TUI/main.cc is a terminal that loads at its start and saves at its end. *)
(*                                                                         *)
(* In GTK a formula is drawn by a child process, and its image comes when  *)
(* the child dies (GUI/GTKLATEXGenerator.cc): at any time, dialogs         *)
(* included, since a dialog runs the main loop.  Anything can end the      *)
(* process, in the middle of saving too; files and the configuration,      *)
(* which has the file's name, are what the next start finds.               *)
(***************************************************************************)
EXTENDS Environment

CONSTANTS
    FrontEnds,      \* a part of {"GTK", "WIN32", "TUI"}
    FileNames,
    SaveNames,      \* bound: the names that are chosen for saving
    TUI_environment, \* the file of a terminal that was given none
    NoName,         \* no file name yet
    Commands,       \* records: does it parse, does it end with a value, what does it define
    Disks,          \* bound: what is in the files before the first start
    MaxRuns,        \* bound: commands, definitions and activated rows
    MaxEntries,     \* bound: the length of the chain
    MaxText         \* bound: the length of the text

ASSUME NamesAssumption ==
    /\ FrontEnds \subseteq {"GTK", "WIN32", "TUI"}
    /\ SaveNames \subseteq FileNames
    /\ TUI_environment \in FileNames
    /\ NoName \notin FileNames
ASSUME CommandsAssumption == \A command \in Commands : command.defines \in Seq(Entries)

VARIABLES
    frontEnd,
    status,   \* "off", "on", or "windowless": WIN32 without its window
    dialog,   \* the modal dialog that is open: "none", "confirm", "save" or "open"
    goal,     \* what the handler that opened it goes on to do
    saving,   \* the file that is being saved into, NoName: none
    disk,     \* what is in the files
    name,     \* the environment's name, in the configuration too
    modified, \* fFileModified
    text,     \* the output: items
    whole,    \* history: the last load, if no save followed, gave all that is in the file
    runs      \* history: commands, definitions and activated rows so far

window == <<status, dialog, goal, saving>>
document == <<environment, modified, text, whole>>
vars == <<frontEnd, window, disk, name, document, runs>>
-----------------------------------------------------------------------------
(* An item of the text: the formula of a command ("input", after a          *)
(* newline), "=>" ("arrow"), the answer ("result"), an error ("message") or *)
(* the body of an activated row ("definition"), of which command it is,     *)
(* whether it is shown or only marked for a drawing under way, and whether  *)
(* the text around the mark was cleared meanwhile (a history variable).     *)
Item(what, shown) ==
    [what |-> what, run |-> runs + 1, shown |-> shown, stray |-> FALSE]
only(items, B_shown) ==
    LET kept[n \in 0 .. Len(items)] ==
            IF n = 0 THEN <<>>
            ELSE IF items[n].shown = B_shown THEN Append(kept[n - 1], items[n])
            ELSE kept[n - 1]
    IN  kept[Len(items)]
shownOf(items) == only(items, TRUE)

(* The outcomes of REPL_enqueue_LATEX: GTK inserts an image or text at once *)
(* (found in the cache, not to be drawn, no child) or has to wait.          *)
drawnGTK == BOOLEAN
drawnWIN32 == {TRUE}
drawn == IF frontEnd = "GTK" THEN drawnGTK ELSE drawnWIN32

(* Files: "missing", "torn" while WIN32 writes, "truncated" by a full disk, *)
(* "foreign": a program of some other kind, "wrong": definitions and a text *)
(* that is none, and documents.  One that was written by hand may be on one *)
(* line.                                                                    *)
File(kind) == [kind |-> kind]
WrittenFile(kind, user) == [kind |-> kind, text |-> <<>>, environment |-> user, flat |-> TRUE]

ASSUME DisksAssumption ==
    \A written \in Disks :
        /\ written = [f \in FileNames |-> written[f]]
        /\ \A f \in FileNames :
             \/ written[f] \in {File("missing"), File("foreign")}
             \/ \E kind \in {"document", "wrong"} :
                  /\ written[f] = WrittenFile(kind, written[f].environment)
                  /\ written[f].environment \in Seq(Entries)

(* What is written of the text: what can be seen, or the whole history.     *)
(* Definitions are abstractions, for which the printer begins a new line    *)
(* and indents it (see module Printer).                                     *)
output_buffer_textTUI == text
output_buffer_text == IF frontEnd = "TUI" THEN output_buffer_textTUI ELSE shownOf(text)
Document ==
    [kind |-> "document", text |-> output_buffer_text, environment |-> userEnvironment,
     flat |-> userEnvironment = <<>>]

Blank ==
    /\ status' = "off"
    /\ dialog' = "none"
    /\ goal' = "none"
    /\ saving' = NoName
    /\ SetEnvironment(<<>>)
    /\ modified' = FALSE
    /\ text' = <<>>
    /\ whole' = TRUE

Init ==
    /\ frontEnd \in FrontEnds
    /\ status = "off"
    /\ dialog = "none"
    /\ goal = "none"
    /\ saving = NoName
    /\ disk \in Disks
    /\ name \in {NoName, TUI_environment}
    /\ InitEnvironment
    /\ modified = FALSE
    /\ text = <<>>
    /\ whole = TRUE
    /\ runs = 0
-----------------------------------------------------------------------------
(* Loading.  What a clear leaves in the text: GTK's marks stay behind, the  *)
(* terminal's history is not touched.                                       *)
clearedGTK ==
    LET marks == only(text, FALSE)
    IN  [i \in DOMAIN marks |-> [marks[i] EXCEPT !.stray = TRUE]]
clearedWIN32 == <<>>
clearedTUI == text
cleared ==
    CASE frontEnd = "GTK" -> clearedGTK
      [] frontEnd = "WIN32" -> clearedWIN32
      [] frontEnd = "TUI" -> clearedTUI

(* A file's text: GTK draws the images again or finds them in the cache,    *)
(* WIN32 inserts it, and in the terminal it is the history of lines.        *)
image_P(item) == item.what \in {"input", "result", "definition"}
appendedGTK(items, now) == [i \in DOMAIN items |-> [items[i] EXCEPT !.shown = now \/ ~image_P(items[i])]]
appendedWIN32(items) == items
appendedTUI(items) == items
appended(items, now) ==
    cleared \o CASE frontEnd = "GTK" -> appendedGTK(items, now)
                 [] frontEnd = "WIN32" -> appendedWIN32(items)
                 [] frontEnd = "TUI" -> appendedTUI(items)

(* The image's text is a formula, which is read as an S expression: it is   *)
(* that of another image, with the rest of the formula behind it, of the    *)
(* same one, or of none.                                                    *)
wholeOnceRead(items) ==
    IF frontEnd = "GTK" /\ \E i \in DOMAIN items : image_P(items[i]) THEN BOOLEAN ELSE {TRUE}

(* The workspace was cleared before the file turned out to be none, and the *)
(* name stays.  GTK counts the built-in names that it shows again as a      *)
(* modification.                                                            *)
FailToLoad(nameBefore) ==
    /\ SetEnvironment(<<>>)
    /\ text' = cleared
    /\ whole' = FALSE
    /\ modified' = (frontEnd = "GTK")
    /\ name' = nameBefore

LoadDocument(f) ==
    /\ disk[f].kind = "document"
    /\ disk[f].flat
    /\ SetEnvironment(disk[f].environment)
    /\ \E now \in drawn : text' = appended(disk[f].text, now)
    /\ Len(text') <= MaxText
    /\ whole' \in wholeOnceRead(disk[f].text)
    /\ modified' = FALSE
    /\ name' = f

(* Nothing in it is known, and that is loaded.                              *)
LoadForeign(f) ==
    /\ disk[f].kind = "foreign"
    /\ SetEnvironment(<<>>)
    /\ text' = cleared
    /\ whole' = FALSE
    /\ modified' = FALSE
    /\ name' = f

(* What comes before the exception is loaded.                               *)
LoadHalf(f, nameBefore) ==
    /\ disk[f].kind = "wrong"
    /\ SetEnvironment(disk[f].environment)
    /\ text' = cleared
    /\ whole' = FALSE
    /\ modified' = FALSE
    /\ name' = nameBefore

load_contents_from(f, nameBefore) ==
    \/ LoadDocument(f)
    \/ LoadForeign(f)
    \/ LoadHalf(f, nameBefore)
    \/ disk[f].kind \notin {"document", "foreign", "wrong"} /\ FailToLoad(nameBefore)

StartGTK ==
    /\ frontEnd = "GTK"
    /\ status = "off"
    /\ status' = "on"
    /\ IF name # NoName
       THEN load_contents_from(name, name)
       ELSE UNCHANGED <<document, name>>
    /\ UNCHANGED <<frontEnd, dialog, goal, saving, disk, runs>>

StartWIN32 ==
    /\ frontEnd = "WIN32"
    /\ status = "off"
    /\ status' = "on"
    /\ IF name # NoName
       THEN load_contents_from(name, name)
       ELSE UNCHANGED <<document, name>>
    /\ UNCHANGED <<frontEnd, dialog, goal, saving, disk, runs>>

(* The terminal's file: the one it was given, if that can be loaded, or its *)
(* own, if there is one; half of a file may stay.                           *)
StartTUI ==
    /\ frontEnd = "TUI"
    /\ status = "off"
    /\ status' = "on"
    /\ \/ \E f \in FileNames : LoadDocument(f) \/ LoadForeign(f)
       \/ /\ disk[TUI_environment].kind # "missing"
          /\ load_contents_from(TUI_environment, TUI_environment)
       \/ /\ disk[TUI_environment].kind = "missing"
          /\ \/ \E f \in FileNames : LoadHalf(f, TUI_environment)
             \/ name' = TUI_environment /\ UNCHANGED document
    /\ UNCHANGED <<frontEnd, dialog, goal, saving, disk, runs>>
-----------------------------------------------------------------------------
(* Saving.  GTK and the terminal open a temporary file, WIN32 the file      *)
(* itself, which empties it.  When nothing can be opened, the windows write *)
(* to NULL, and only the terminal looks.                                    *)
opened(f) == IF frontEnd = "WIN32" THEN [disk EXCEPT ![f] = File("torn")] ELSE disk

Quit ==
    /\ Blank
    /\ UNCHANGED <<frontEnd, disk, name, runs>>

(* The scanner takes the indented lines of a file that is loaded for        *)
(* parentheses, and so a list for one that is too long: an assertion of     *)
(* programFromSExpression ends the program, at its start or later.  Lines   *)
(* of the text may be indented too, and a formula may be such a list.       *)
AbortLoading(f) ==
    /\ disk[f].kind = "document"
    /\ ~disk[f].flat \/ disk[f].text # <<>>
    /\ status = "off" \/ dialog = "open"
    /\ status = "off" /\ frontEnd # "TUI" => name = f
    /\ Quit

BeginSave(f, g) ==
    \/ /\ saving' = f
       /\ goal' = g
       /\ disk' = opened(f)
       /\ dialog' = "none"
       /\ UNCHANGED <<frontEnd, status, name, document, runs>>
    \/ Quit

(* The answer was to stay, or the save did not succeed.  When WIN32 asks,   *)
(* IDM_EXIT has already begun to destroy the window.                        *)
Stay ==
    /\ dialog' = "none"
    /\ goal' = "none"
    /\ saving' = NoName
    /\ status' = IF goal = "exit" THEN "windowless" ELSE "on"

Open(d, g) ==
    /\ dialog' = d
    /\ goal' = g
    /\ saving' = NoName
    /\ UNCHANGED status

(* The document is written - nobody looks whether the disk is full - and    *)
(* the temporary file is renamed.                                           *)
Write ==
    /\ \E new \in {Document, File("truncated")} : disk' = [disk EXCEPT ![saving] = new]
    /\ name' = saving

(* What the handler that saved goes on to do.                               *)
Proceed ==
    IF goal \in {"close", "exit"}
    THEN Blank
    ELSE /\ modified' = FALSE
         /\ whole' = TRUE
         /\ IF goal = "load" THEN Open("open", "load") ELSE Open("none", "none")
         /\ UNCHANGED <<environment, text>>

(* The rename may fail; then the terminal ends nevertheless.                *)
FinishSaveGTK ==
    /\ frontEnd = "GTK" /\ saving # NoName
    /\ \/ Write /\ Proceed
       \/ Stay /\ UNCHANGED <<disk, name, document>>
    /\ UNCHANGED <<frontEnd, runs>>

FinishSaveWIN32 ==
    /\ frontEnd = "WIN32" /\ saving # NoName
    /\ Write
    /\ Proceed
    /\ UNCHANGED <<frontEnd, runs>>

FinishSaveTUI ==
    /\ frontEnd = "TUI" /\ saving # NoName
    /\ Write \/ UNCHANGED <<disk, name>>
    /\ Proceed
    /\ UNCHANGED <<frontEnd, runs>>

unchangedButWindow == UNCHANGED <<frontEnd, disk, name, document, runs>>

idle == status = "on" /\ dialog = "none" /\ saving = NoName /\ frontEnd # "TUI"

Save(B_force_dialog) ==
    /\ idle
    /\ IF B_force_dialog \/ name = NoName
       THEN Open("save", "save") /\ unchangedButWindow
       ELSE BeginSave(name, "save")

Load ==
    /\ idle
    /\ Open(IF modified THEN "confirm" ELSE "open", "load")
    /\ unchangedButWindow

(* The window is closed.                                                    *)
CloseGTK ==
    /\ frontEnd = "GTK" /\ idle
    /\ IF modified THEN Open("confirm", "close") /\ unchangedButWindow ELSE Quit

(* WM_CLOSE, or WM_DESTROY from IDM_EXIT.                                   *)
CloseWIN32(g) ==
    /\ frontEnd = "WIN32" /\ idle
    /\ IF modified THEN Open("confirm", g) /\ unchangedButWindow ELSE Quit

Discard ==
    /\ dialog = "confirm"
    /\ IF goal = "load" THEN Open("open", "load") /\ unchangedButWindow ELSE Quit

Agree ==
    /\ dialog = "confirm"
    /\ IF name = NoName
       THEN Open("save", goal) /\ unchangedButWindow
       ELSE BeginSave(name, goal)

ChooseFile ==
    /\ dialog = "save"
    /\ \E f \in SaveNames : BeginSave(f, goal)

GoBack ==
    /\ \/ dialog \in {"confirm", "save"}
       \/ dialog = "open" /\ frontEnd = "GTK"
    /\ Stay
    /\ unchangedButWindow

OpenFile ==
    /\ dialog = "open"
    /\ \E f \in FileNames : load_contents_from(f, name)
    /\ Open("none", "none")
    /\ UNCHANGED <<frontEnd, disk, runs>>

(* WIN32 loads the empty name that a cancelled dialog leaves.               *)
OpenNothing ==
    /\ dialog = "open"
    /\ frontEnd = "WIN32"
    /\ FailToLoad(name)
    /\ Open("none", "none")
    /\ UNCHANGED <<frontEnd, disk, runs>>
-----------------------------------------------------------------------------
(* Commands.  front_execute: the text of the entry or the selected output   *)
(* is parsed and evaluated, with its effects if it is executed.             *)
Define(new, places) ==
    /\ Len(entries) + Len(new) <= MaxEntries
    /\ \E index \in places : AddToEnvironment(new, index)

(* REPL_execute: what was defined before an error stays defined.            *)
answer(command) ==
    IF command.ends THEN {<<Item("arrow", TRUE), Item("result", now)>> : now \in drawn}
    ELSE {<<Item("arrow", TRUE), Item("message", TRUE)>>}

printed(command, B_from_entry) ==
    IF ~command.parses THEN {<<Item("message", TRUE)>>}
    ELSE IF ~B_from_entry THEN answer(command)
    ELSE {<<Item("input", now)>> \o rest : now \in drawn, rest \in answer(command)}

Execute(command, B_from_entry, B_IO, places) ==
    /\ ~B_from_entry => text # <<>>
    /\ runs < MaxRuns
    /\ runs' = runs + 1
    /\ \E new \in printed(command, B_from_entry) : text' = text \o new
    /\ Len(text') <= MaxText
    /\ modified' = TRUE
    /\ IF command.parses /\ B_IO THEN Define(command.defines, places) ELSE UNCHANGED environment
    /\ UNCHANGED <<frontEnd, window, disk, name, whole>>

ExecuteGTK(command, B_from_entry, B_IO) ==
    /\ frontEnd = "GTK" /\ idle
    /\ Execute(command, B_from_entry, B_IO, placesGTK)

ExecuteWIN32(command, B_from_entry, B_IO) ==
    /\ frontEnd = "WIN32" /\ idle
    /\ Execute(command, B_from_entry, B_IO, placesWIN32)

(* The dialog for a definition, which stays open until it can be added.     *)
AddDefinition(places) ==
    /\ idle
    /\ runs < MaxRuns
    /\ runs' = runs + 1
    /\ \E command \in Commands : Len(command.defines) = 1 /\ Define(command.defines, places)
    /\ modified' = TRUE
    /\ UNCHANGED <<frontEnd, window, disk, name, text, whole>>

AddDefinitionGTK == frontEnd = "GTK" /\ AddDefinition(placesGTK)
AddDefinitionWIN32 == frontEnd = "WIN32" /\ AddDefinition(placesWIN32)

(* A mutant of track_changes: what is drawn later does not count.           *)
track_changesNot == modified

(* Whatever changes the text modifies the document: an image that came too. *)
track_changes == TRUE

(* A row is activated: the body of its entry is shown.                      *)
ActivateRow ==
    /\ idle
    /\ runs < MaxRuns
    /\ Len(text) < MaxText
    /\ runs' = runs + 1
    /\ \E now \in drawn :
         /\ text' = Append(text, Item("definition", now))
         /\ modified' = IF now THEN track_changes ELSE modified
    /\ UNCHANGED <<frontEnd, window, disk, name, environment, whole>>

ActivateRowGTK == frontEnd = "GTK" /\ ActivateRow
ActivateRowWIN32 == frontEnd = "WIN32" /\ ActivateRow
-----------------------------------------------------------------------------
(* A drawing is done: its image, or the formula as text, comes where the    *)
(* mark is.  Marks at one place have all left gravity, so that it comes     *)
(* behind all of them; the newline before an input begins another place.    *)
samePlace_P(item) == ~item.shown /\ (item.what = "input" => item.stray)
lastAt(i) ==
    CHOOSE j \in i .. Len(text) :
        /\ \A k \in i + 1 .. j : samePlace_P(text[k])
        /\ j < Len(text) => ~samePlace_P(text[j + 1])

(* A mutant of withImage: the marks have right gravity, so that what was    *)
(* written behind them has moved them to the end.                           *)
withImageAtEnd(i) ==
    SubSeq(text, 1, i - 1) \o SubSeq(text, i + 1, Len(text)) \o <<[text[i] EXCEPT !.shown = TRUE]>>

withImage(i) ==
    SubSeq(text, 1, i - 1) \o SubSeq(text, i + 1, lastAt(i))
    \o <<[text[i] EXCEPT !.shown = TRUE]>> \o SubSeq(text, lastAt(i) + 1, Len(text))

LATEX_child_died ==
    /\ status = "on"
    /\ saving = NoName
    /\ \E i \in DOMAIN text :
         /\ ~text[i].shown
         /\ text' = withImage(i)
    /\ modified' = track_changes
    /\ UNCHANGED <<frontEnd, window, disk, name, environment, runs, whole>>
-----------------------------------------------------------------------------
(* The terminal: a line, "#exit", which does not save, and the end of input.*)
LineTUI(command, B_IO) ==
    /\ frontEnd = "TUI" /\ status = "on" /\ saving = NoName
    /\ runs < MaxRuns
    /\ runs' = runs + 1
    /\ Len(text) < MaxText
    /\ text' = Append(text, Item("input", TRUE))
    /\ modified' = (modified \/ command.parses)
    /\ IF command.parses /\ B_IO THEN Define(command.defines, placesTUI) ELSE UNCHANGED environment
    /\ UNCHANGED <<frontEnd, window, disk, name, whole>>

ExitTUI ==
    /\ frontEnd = "TUI" /\ status = "on" /\ saving = NoName
    /\ Quit

EndOfInputTUI ==
    /\ frontEnd = "TUI" /\ status = "on" /\ saving = NoName
    /\ BeginSave(name, "close")

(* The process ends: it is killed, or it uses the stack up.                 *)
Die ==
    /\ status # "off"
    /\ Quit

Next ==
    \/ StartGTK \/ StartWIN32 \/ StartTUI
    \/ \E f \in FileNames : AbortLoading(f)
    \/ \E B_force_dialog \in BOOLEAN : Save(B_force_dialog)
    \/ Load
    \/ CloseGTK
    \/ \E g \in {"close", "exit"} : CloseWIN32(g)
    \/ FinishSaveGTK \/ FinishSaveWIN32 \/ FinishSaveTUI
    \/ Discard \/ Agree \/ ChooseFile \/ GoBack \/ OpenFile \/ OpenNothing
    \/ \E command \in Commands, B_IO \in BOOLEAN :
         \/ \E B_from_entry \in BOOLEAN :
              \/ ExecuteGTK(command, B_from_entry, B_IO)
              \/ ExecuteWIN32(command, B_from_entry, B_IO)
         \/ LineTUI(command, B_IO)
    \/ AddDefinitionGTK \/ AddDefinitionWIN32
    \/ ActivateRowGTK \/ ActivateRowWIN32
    \/ LATEX_child_died
    \/ ExitTUI \/ EndOfInputTUI \/ Die

Spec == Init /\ [][Next]_vars
-----------------------------------------------------------------------------
(* Row i of the window names entry i of the chain, so that the definition   *)
(* that an activated row shows (REPL_get_definition) is the row's.  Hazard: *)
(* a position in a list view is walked off in the chain, behind a sentinel  *)
(* and up to a frontier, and both are refilled by a load.                   *)
RowsMatchEntries == rows = namesOf(entries)

(* What is not marked as modified is in the file: the definitions behind    *)
(* the built-in ones and, when nothing is being drawn, the text.  The       *)
(* exceptions are the code's: a load may give less than there is in the     *)
(* file or another image, with nothing marked, and a full disk may have cut *)
(* the file off.                                                            *)
SavedUnlessModified ==
    frontEnd # "TUI" /\ status = "on" /\ saving = NoName /\ ~modified /\ name # NoName /\ whole =>
        \/ disk[name].kind = "truncated"
        \/ /\ disk[name].kind = "document"
           /\ disk[name].environment = userEnvironment
           /\ shownOf(text) = text => disk[name].text = text

(* Whatever order the drawings are done in, a formula and a result stand in *)
(* their own command: commands are in order, and within one the formula is  *)
(* before the arrow and the result behind it.  Rows are activated in        *)
(* between, and what was cleared while it was drawn comes back anywhere.    *)
rank(item) == CASE item.what = "input" -> 1 [] item.what = "arrow" -> 2 [] OTHER -> 3
ResultsInPlace ==
    \A i, j \in DOMAIN text :
        /\ i < j
        /\ ~text[i].stray /\ ~text[j].stray
        /\ "definition" \notin {text[i].what, text[j].what}
        => \/ text[i].run < text[j].run
           \/ text[i].run = text[j].run /\ rank(text[i]) <= rank(text[j])
=============================================================================
