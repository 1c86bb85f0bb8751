-------------------------- MODULE ProjectLifecycle --------------------------
(***************************************************************************)
(* The open project, the editor's content, the project files and the list  *)
(* of recent projects (ControllManager), as the main window's actions New, *)
(* Open, Save, Save As, Close and Exit drive them (Platform).              *)
(*                                                                         *)
(* The editor (Facade) is one object for all projects: a project is opened *)
(* by filling it, closed by clearing it and saved by writing what is in it.*)
(* Files may vanish and writes may fail at any time.                       *)
(***************************************************************************)
EXTENDS Naturals, Sequences, Functions

CONSTANTS
  Files,      \* names of project files
  Items,      \* what a project is made of
  NoFile,     \* no project, no file chosen
  MaxRecent,  \* MAX_PROJECT_COUNT
  Faults      \* what may go wrong: "refused", "short", "removed"

ASSUME FilesAssumption == NoFile \notin Files
ASSUME RecentAssumption == MaxRecent \in Nat \ {0}

VARIABLES
  current,    \* the file of currentProject_
  shown,      \* the project page is open and its actions are enabled
  editor,     \* the content of the Facade
  disk,       \* what each file holds
  present,    \* the files that exist
  recent,     \* recentProjects_
  recentFile, \* recent.json
  ui,         \* the window: "off", "ready", "new" (the dialog), "crashed"
  answer,     \* the last answer to "Do you want to save changes?"
  causes      \* what has gone wrong so far (for the properties)

files == <<disk, present, recent, recentFile>>
vars == <<current, shown, editor, files, ui, answer, causes>>

Answers == {"save", "saveAs", "dont", "cancel"}
Outcomes == {"done"} \cup (Faults \cap {"refused", "short"})
Causes == {"orphan", "unwritten", "cancelled", "overwrote", "removed"}

\* A list of recent projects names each of them once.
RecentList(list) ==
  list \in Seq(Files) /\ Len(list) <= MaxRecent /\ IsInjective(list)

TypeOK ==
  /\ current \in Files \cup {NoFile}
  /\ shown \in BOOLEAN
  /\ editor \subseteq Items
  /\ disk \in [Files -> SUBSET Items] /\ present \subseteq Files
  /\ RecentList(recent) /\ RecentList(recentFile)
  /\ ui \in {"off", "ready", "new", "crashed"}
  /\ answer \in Answers \cup {"unknown"}
  /\ causes \subseteq Causes

----------------------------------------------------------------------------
Listed(list, f) == \E i \in DOMAIN list : list[i] = f

\* The other form of Shorter forgets that the list is full.
AsItIs(list) == list

\* At the limit the oldest entry makes room.
Shorter(list) == IF Len(list) = MaxRecent THEN SubSeq(list, 1, MaxRecent - 1)
                                          ELSE list

\* saveToRecentProjects: a project that is in the list already stays where it is.
SaveToRecentProjects(f) ==
  IF Listed(recent, f)
  THEN UNCHANGED <<recent, recentFile>>
  ELSE recent' = <<f>> \o Shorter(recent) /\ recentFile' = recent'

\* saveProject: a file that cannot be opened is passed over in silence; one that
\* is opened is truncated first, and only a write of 0 bytes (-1 is an error)
\* counts as one that failed.
WriteProject(f, content, o) ==
  /\ o \in Outcomes
  /\ IF o = "refused"
     THEN UNCHANGED files
     ELSE /\ disk' = [disk EXCEPT ![f] = IF o = "done" THEN content ELSE {}]
          /\ present' = present \cup {f}
          /\ SaveToRecentProjects(f)

Fault(o) == IF o = "done" THEN {} ELSE {"unwritten"}

\* The other form of AfterClose: the editor is not cleared.
AfterDelete == editor

\* What closeProject leaves in the editor: it clears it, but only for a project.
AfterClose == IF current = NoFile THEN editor ELSE {}

----------------------------------------------------------------------------
Init ==
  /\ current = NoFile /\ shown = FALSE /\ editor = {}
  /\ disk = [f \in Files |-> {}] /\ present = {}
  /\ recent = <<>> /\ recentFile = <<>>
  /\ ui = "off" /\ answer = "unknown" /\ causes = {}

\* loadRecentProjects takes the files that exist.
Existing(list) ==
  LET taken[i \in 0 .. Len(list)] ==
        IF i = 0 THEN <<>>
        ELSE IF list[i] \in present THEN Append(taken[i - 1], list[i])
                                   ELSE taken[i - 1]
  IN  taken[Len(list)]

Start ==
  /\ ui = "off"
  /\ ui' = "ready"
  /\ recent' = Existing(recentFile)
  /\ UNCHANGED <<current, shown, editor, disk, present, recentFile, answer, causes>>

\* The user edits what the page shows.
Edit(i) ==
  /\ ui = "ready" /\ shown
  /\ editor' \in {editor \cup {i}, editor \ {i}}
  /\ UNCHANGED <<current, shown, files, ui, answer, causes>>

\* Save; without a project it does nothing.
SaveProject(o) ==
  /\ ui = "ready" /\ shown /\ current # NoFile
  /\ WriteProject(current, editor, o)
  /\ causes' = causes \cup Fault(o)
  /\ UNCHANGED <<current, shown, editor, ui, answer>>

\* Save As writes a copy; the open project stays the one it was.
SaveProjectAs(f, o) ==
  /\ ui = "ready" /\ shown /\ current # NoFile
  /\ WriteProject(f, editor, o)
  /\ causes' = causes \cup Fault(o)
  /\ UNCHANGED <<current, shown, editor, ui, answer>>

\* showSavingDialog asks only if there is a project; of the answers, Save As leads
\* to the file dialog (f is NoFile if that one is cancelled).
ShowSavingDialog(a, f) ==
  /\ IF current = NoFile THEN a = "unknown" ELSE a \in Answers
  /\ a # "saveAs" => f = NoFile
  /\ answer' = a

\* The other form saves after the project is closed.
AnsweredLate(a, f, o) ==
  CASE a = "save" -> WriteProject(current, AfterClose, o)
    [] a = "saveAs" /\ f # NoFile -> WriteProject(f, AfterClose, o)
    [] OTHER -> o = "done" /\ UNCHANGED files

\* What a handler does about the answer.
SaveAsAnswered(a, f, o) ==
  CASE a = "save" -> WriteProject(current, editor, o)
    [] a = "saveAs" /\ f # NoFile -> WriteProject(f, editor, o)
    [] OTHER -> o = "done" /\ UNCHANGED files

\* New asks, saves and goes on to its dialog: of the answers only Cancel stops
\* it, a cancelled Save As does not.
AskNew(a, f, o) ==
  /\ ui = "ready"
  /\ ShowSavingDialog(a, f) /\ a # "cancel"
  /\ SaveAsAnswered(a, f, o)
  /\ ui' = "new"
  /\ causes' = causes \cup Fault(o)
                 \cup IF a = "saveAs" /\ f = NoFile THEN {"cancelled"} ELSE {}
  /\ UNCHANGED <<current, shown, editor>>

RejectNew ==
  /\ ui = "new"
  /\ ui' = "ready"
  /\ UNCHANGED <<current, shown, editor, files, answer, causes>>

\* newProject: the open project is closed, the new one is opened and saved, over
\* a file of that name if there is one.
NewProject(f, o) ==
  /\ ui = "new"
  /\ ui' = "ready"
  /\ editor' = AfterClose
  /\ current' = f /\ shown' = TRUE
  /\ WriteProject(f, AfterClose, o)
  /\ causes' = causes \cup Fault(o)
                 \cup IF disk[f] # {} THEN {"overwrote"} ELSE {}
  /\ UNCHANGED answer

\* openProject of a file that exists: nothing is asked, the open project is
\* closed and the file's content added to what is in the editor.
OpenProject(f) ==
  /\ ui = "ready" /\ f \in present
  /\ editor' = AfterClose \cup disk[f]
  /\ current' = f /\ shown' = TRUE
  /\ SaveToRecentProjects(f)
  /\ UNCHANGED <<disk, present, ui, answer, causes>>

\* openProject of a recent project whose file is gone: there is no project any
\* more, but nothing is closed.
OpenMissing(f) ==
  /\ ui = "ready" /\ f \notin present /\ Listed(recent, f) /\ current # NoFile
  /\ current' = NoFile
  /\ causes' = causes \cup {"orphan"}
  /\ UNCHANGED <<shown, editor, files, ui, answer>>

\* Close asks; Cancel and a cancelled Save As keep the project open.
CloseProject(a, f, o) ==
  /\ ui = "ready" /\ shown /\ current # NoFile
  /\ ShowSavingDialog(a, f) /\ a # "cancel" /\ (a = "saveAs" => f # NoFile)
  /\ SaveAsAnswered(a, f, o)
  /\ editor' = AfterClose
  /\ current' = NoFile /\ shown' = FALSE
  /\ causes' = causes \cup Fault(o)
  /\ UNCHANGED ui

\* closeEvent does the same, and the program ends.
CloseEvent(a, f, o) ==
  /\ ui = "ready"
  /\ ShowSavingDialog(a, f) /\ a # "cancel" /\ (a = "saveAs" => f # NoFile)
  /\ SaveAsAnswered(a, f, o)
  /\ ui' = "off"
  /\ current' = NoFile /\ shown' = FALSE /\ editor' = {}
  /\ causes' = causes \cup Fault(o)

\* openDeployProject uses the current project without looking whether there is
\* one (with one it changes nothing here).
OpenDeployProject ==
  /\ ui = "ready" /\ shown /\ current = NoFile
  /\ ui' = "crashed"
  /\ UNCHANGED <<current, shown, editor, files, answer, causes>>

\* Somebody removes a project file.
RemoveFile(f) ==
  /\ "removed" \in Faults /\ f \in present
  /\ present' = present \ {f}
  /\ disk' = [disk EXCEPT ![f] = {}]
  /\ causes' = causes \cup {"removed"}
  /\ UNCHANGED <<current, shown, editor, recent, recentFile, ui, answer>>

Next ==
  \/ Start
  \/ \E i \in Items : Edit(i)
  \/ \E o \in Outcomes : SaveProject(o)
  \/ \E f \in Files, o \in Outcomes : SaveProjectAs(f, o) \/ NewProject(f, o)
  \/ \E a \in Answers \cup {"unknown"}, f \in Files \cup {NoFile}, o \in Outcomes :
       AskNew(a, f, o) \/ CloseProject(a, f, o) \/ CloseEvent(a, f, o)
  \/ RejectNew
  \/ \E f \in Files : OpenProject(f) \/ OpenMissing(f) \/ RemoveFile(f)
  \/ OpenDeployProject

Spec == Init /\ [][Next]_vars

----------------------------------------------------------------------------
(* Properties *)

\* The actions that use the open project rely on the page being shown only for a
\* project, and openProject and newProject on an editor that is empty without
\* one: as long as no recent project was missing while another was open, both
\* hold, and no action meets a null project.
EmptyWithoutProject ==
  "orphan" \notin causes =>
    /\ shown <=> current # NoFile
    /\ current = NoFile => editor = {}
    /\ ui # "crashed"

\* Under the same condition a project that is opened shows what its file holds
\* and nothing of the project before it, and a new project is empty on the
\* screen and on the disk (openProject, newProject).
ShowsTheFile ==
  [][ "orphan" \notin causes =>
        \A f \in Files :
          /\ OpenProject(f) => editor' = disk[f]
          /\ \A o \in Outcomes :
               NewProject(f, o) => editor' = {} /\ disk'[f] \in {{}, disk[f]} ]_vars

\* The steps by which the window leaves a project after it has asked.
LeaveAsked ==
  \/ \E f \in Files, o \in Outcomes : NewProject(f, o)
  \/ \E a \in Answers, f \in Files \cup {NoFile}, o \in Outcomes :
       CloseProject(a, f, o) \/ CloseEvent(a, f, o)

\* What was in the editor is in some file.
Kept == \E f \in present' : disk'[f] = editor

\* Whoever answers "Do you want to save changes?" with Save or Save As finds the
\* content in a file after the project is left: New, Close and Exit lose it only
\* if a write failed, a file was removed, a project was created over a file, or
\* New went on after a Save As that was cancelled.
SavedUnlessTold ==
  [][ LeaveAsked /\ current # NoFile /\ answer' \in {"save", "saveAs"}
        => Kept \/ causes' \cap (Causes \ {"orphan"}) # {} ]_vars

============================================================================
