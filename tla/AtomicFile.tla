------------------------------ MODULE AtomicFile ------------------------------
(***************************************************************************)
(* A file that is replaced as a whole (atomic_write_json, atomic_write and *)
(* load_json_with_fallback of src/src/registry_runtime.rs): the lease      *)
(* book, the state of the registry and the index of its artifacts are      *)
(* saved this way.  The new contents are staged beside the file, the old   *)
(* ones step aside, and each step may fail or be the last before a crash.  *)
(* What a crash finds in the directory is what the steps so far left.      *)
(*                                                                         *)
(* The other modules take a save for one step that takes effect entirely   *)
(* or not at all; this one shows what that rests on.                       *)
(***************************************************************************)
EXTENDS Naturals, FiniteSets

CONSTANTS
  None,
  MaxSaves, MaxFileFaults   \* bounds: saves, and steps of a save that fail

VARIABLES
  dir,      \* dir[f]: what file f holds, None when there is no such file
  saver,    \* the save in progress: its contents and its next step, None between two
  written,  \* saves so far; the n-th one writes value n
  possible, \* the value saved last, and those whose saving began since
  fileFaults

fileVars == <<dir, saver, written, possible, fileFaults>>

Names == {"path", "next", "retired", "previous"}
Contents(generation, value) == [generation |-> generation, value |-> value]
Partial == Contents(0, 0)   \* not the whole of a staged file: generations start at 1

\* load_json_with_fallback: the file, or else the newest of what stands beside it.
IsWhole(c) == c # None /\ c # Partial
Beside(d) == {d[f] : f \in Names \ {"path"}} \cap {c \in {d[f] : f \in Names} : IsWhole(c)}

Newest(d) == CHOOSE c \in Beside(d) : \A o \in Beside(d) : o.generation <= c.generation

\* Mutant: what stands beside the file is not looked at.
LoadedAlone(d) == IF d["path"] # None THEN d["path"].value ELSE 0

Loaded(d) ==
  IF d["path"] # None THEN d["path"].value
  ELSE IF Beside(d) = {} THEN 0
  ELSE Newest(d).value

\* persisted_generation.
Generation(d) ==
  IF d["path"] # None THEN d["path"].generation
  ELSE IF Beside(d) = {} THEN 0
  ELSE Newest(d).generation

\* The file was never saved, or it was once.
FileInit ==
  /\ written \in {0, 1} /\ possible = {written}
  /\ dir = [f \in Names |-> IF f = "path" /\ written = 1 THEN Contents(1, 1) ELSE None]
  /\ saver = None /\ fileFaults = MaxFileFaults

-----------------------------------------------------------------------------
(* atomic_write, one call to the operating system at a time.               *)

\* The value 0 is that of a file that was never saved.
BeginSave ==
  /\ saver = None /\ written < MaxSaves
  /\ saver' = [contents |-> Contents(Generation(dir) + 1, written + 1), step |-> "stage"]
  /\ written' = written + 1
  /\ possible' = possible \cup {written + 1}
  /\ UNCHANGED <<dir, fileFaults>>

Then(s) == [saver EXCEPT !.step = s]

\* Opening the staged file empties it.
Stage ==
  /\ saver # None /\ saver.step = "stage"
  /\ dir' = [dir EXCEPT !["next"] = Partial]
  /\ saver' = Then("write")
  /\ UNCHANGED <<written, possible, fileFaults>>

WriteStaged ==
  /\ saver # None /\ saver.step = "write"
  /\ dir' = [dir EXCEPT !["next"] = saver.contents]
  /\ saver' = Then("clear")
  /\ UNCHANGED <<written, possible, fileFaults>>

ClearRetired ==
  /\ saver # None /\ saver.step = "clear"
  /\ dir' = [dir EXCEPT !["retired"] = None]
  /\ saver' = Then("retire")
  /\ UNCHANGED <<written, possible, fileFaults>>

Moved(from, to) ==
  IF dir[from] = None THEN dir ELSE [dir EXCEPT ![to] = dir[from], ![from] = None]

Retire ==
  /\ saver # None /\ saver.step = "retire"
  /\ dir' = Moved("path", "retired")
  /\ saver' = Then("replace")
  /\ UNCHANGED <<written, possible, fileFaults>>

Replace ==
  /\ saver # None /\ saver.step = "replace"
  /\ dir' = Moved("next", "path")
  /\ saver' = Then("sync")
  /\ UNCHANGED <<written, possible, fileFaults>>

\* The save is acknowledged when nothing was retired.
Acknowledged == possible' = {saver.contents.value}

SyncParent ==
  /\ saver # None /\ saver.step = "sync"
  /\ IF dir["retired"] = None
     THEN saver' = None /\ Acknowledged
     ELSE saver' = Then("forget") /\ UNCHANGED possible
  /\ UNCHANGED <<dir, written, fileFaults>>

ForgetPrevious ==
  /\ saver # None /\ saver.step = "forget"
  /\ dir' = [dir EXCEPT !["previous"] = None]
  /\ saver' = Then("keep")
  /\ UNCHANGED <<written, possible, fileFaults>>

KeepPrevious ==
  /\ saver # None /\ saver.step = "keep"
  /\ dir' = Moved("retired", "previous")
  /\ saver' = Then("last sync")
  /\ UNCHANGED <<written, possible, fileFaults>>

LastSync ==
  /\ saver # None /\ saver.step = "last sync"
  /\ saver' = None /\ Acknowledged
  /\ UNCHANGED <<dir, written, fileFaults>>

\* Any step may fail, or the process stops before it and another one starts: the
\* save is over, and the directory is what it is.  A write that fails leaves a
\* part of the staged file.
SaveEndsEarly ==
  /\ saver # None /\ fileFaults > 0
  /\ saver' = None
  /\ fileFaults' = fileFaults - 1
  /\ UNCHANGED <<dir, written, possible>>

FileNext ==
  \/ BeginSave \/ Stage \/ WriteStaged \/ ClearRetired \/ Retire \/ Replace
  \/ SyncParent \/ ForgetPrevious \/ KeepPrevious \/ LastSync
  \/ SaveEndsEarly

FileSpec == FileInit /\ [][FileNext]_fileVars

-----------------------------------------------------------------------------
(* Properties.                                                             *)

\* A start at any moment, in the middle of a save or after one that failed,
\* finds the contents that were acknowledged last or those of a save begun
\* since: never older ones, a part of a file or nothing.
LoadIsLatest == Loaded(dir) \in possible
===============================================================================
