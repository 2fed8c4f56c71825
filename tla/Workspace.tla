------------------------------- MODULE Workspace -------------------------------
(***************************************************************************)
(* The snapshot around a mutating tool and its undo.                       *)
(*                                                                         *)
(* Before a mutating tool the executor takes git diff and the list of      *)
(* untracked files (executor.go, capturePreRollback); after it, it lists   *)
(* them again and writes both down as an artifact (writeRollback,          *)
(* store.go, Write): payload after payload, the metadata that makes the    *)
(* artifact visible last.  Another process, mimo -rollback-apply, reads    *)
(* such an artifact, applies its diff in reverse and deletes the files it  *)
(* lists (rollback.go, ApplyRollback), while the session may be running    *)
(* and the user editing.  Either process may be killed between two steps.  *)
(*                                                                         *)
(* Git and the file system are external: index[f] is the staged content    *)
(* of f and tree[f] the one in the working tree; the content of a file is  *)
(* one hunk.  Which files ls-files leaves out as ignored is written in a   *)
(* file of the workspace, which the tool and the user may change as any    *)
(* other.                                                                  *)
(***************************************************************************)
EXTENDS Naturals, Sequences, FiniteSets

CONSTANTS
  Files,      \* paths of the workspace
  Own,        \* those below .mimo, the agent's own bookkeeping
  Rules,      \* the .gitignore
  Hides,      \* what it may hold -> the files ls-files then leaves out
  Contents,   \* what a file may hold
  Absent,     \* the content of a file that is not there
  MaxTools,   \* bound: mutating tools run
  MaxWrites,  \* bound: changes they make
  MaxEdits,   \* bound: edits by the user
  MaxUndos    \* bound: calls of mimo -rollback-apply

ASSUME FilesAssumption ==
  /\ Own \subseteq Files /\ Rules \in Files \ Own
  /\ Absent \notin Contents
  /\ Hides \in [Contents \cup {Absent} -> SUBSET Files]
  /\ {MaxTools, MaxWrites, MaxEdits, MaxUndos} \subseteq Nat

VARIABLES
  index, tree,
  tool,       \* where the executor is
  snap,       \* what it took before the tool
  artifacts,  \* the directories of .mimo/artifacts, oldest first
  undo,       \* the process mimo -rollback-apply: where it is, and in what
  bounds      \* tools, their writes, edits and undos so far

wvars == <<index, tree, tool, snap, artifacts, undo, bounds>>

State == Contents \cup {Absent}
Payloads == {"pre_state", "created_files"}

\* git diff: the tracked files whose content is not the staged one.
GitDiff == {f \in Files : index[f] # Absent /\ tree[f] # index[f]}

\* git ls-files --others --exclude-standard, by the rules of the moment.
Ignored(t) == Hides[t[Rules]]
Untracked == {f \in Files \ Ignored(tree) : index[f] = Absent /\ tree[f] # Absent}

Nothing == [f \in Files |-> Absent]
NoSnap == [err |-> TRUE, diff |-> {}, old |-> Nothing, new |-> Nothing, edits |-> 0,
           untracked |-> {}, was |-> Nothing, had |-> Nothing, blind |-> FALSE]

Free == [pc |-> "free", id |-> 0, todo |-> {}]

WInit ==
  /\ index \in [Files -> State] /\ tree \in [Files -> State]
  /\ \A f \in Own : index[f] = Absent /\ tree[f] = Absent
  /\ tool = "idle" /\ snap = NoSnap
  /\ artifacts = <<>>
  /\ undo = Free
  /\ bounds = [tools |-> 0, writes |-> 0, edits |-> 0, undos |-> 0]

-----------------------------------------------------------------------------
\* The executor.

\* capturePreRollback: git diff, then git ls-files, each by the state of its
\* moment.  When git diff fails there is no artifact, but the tool runs.
TakeDiff ==
  /\ tool = "idle" /\ bounds.tools < MaxTools
  /\ \/ snap' = NoSnap /\ tool' = "running"
     \/ /\ snap' = [NoSnap EXCEPT !.err = FALSE, !.diff = GitDiff, !.old = index,
                                  !.new = tree, !.edits = bounds.edits]
        /\ tool' = "listing"
  /\ bounds' = [bounds EXCEPT !.tools = @ + 1]
  /\ UNCHANGED <<index, tree, artifacts, undo>>

\* ls-files may fail: then the list is empty and nobody is told.
ListUntracked ==
  /\ tool = "listing"
  /\ \E blind \in BOOLEAN :
       snap' = [snap EXCEPT !.untracked = IF blind THEN {} ELSE Untracked,
                            !.was = index, !.had = tree, !.blind = blind]
  /\ tool' = "running"
  /\ UNCHANGED <<index, tree, artifacts, undo, bounds>>

\* One change to a file: its content, or its place in the index (git add,
\* git rm --cached).
Change(f) ==
  \/ /\ \E c \in State \ {tree[f]} : tree' = [tree EXCEPT ![f] = c]
     /\ UNCHANGED index
  \/ /\ f \notin Own /\ index[f] # tree[f]
     /\ index' = [index EXCEPT ![f] = tree[f]]
     /\ UNCHANGED tree
  \/ /\ f \notin Own /\ index[f] # Absent
     /\ index' = [index EXCEPT ![f] = Absent]
     /\ UNCHANGED tree

ToolWrites ==
  /\ tool = "running" /\ bounds.writes < MaxWrites
  /\ \E f \in Files : Change(f)
  /\ bounds' = [bounds EXCEPT !.writes = @ + 1]
  /\ UNCHANGED <<tool, snap, artifacts, undo>>

ToolReturns ==
  /\ tool = "running"
  /\ tool' = "ran"
  /\ UNCHANGED <<index, tree, snap, artifacts, undo, bounds>>

\* writeRollback up to the store: the files that are untracked now and were
\* not before, the agent's own left out.  This listing may fail as well.
FaultyCreated == Untracked \ Own

Created == (Untracked \ snap.untracked) \ Own

Record(created) ==
  [kind |-> "rollback", files |-> {}, meta |-> "none", snap |-> snap,
   created |-> created]

MakeArtifact ==
  /\ tool = "ran"
  /\ IF snap.err
     THEN tool' = "idle" /\ UNCHANGED artifacts
     ELSE /\ \E created \in {Created, {}} :
               artifacts' = Append(artifacts, Record(created))
          /\ tool' = "storing"
  /\ snap' = NoSnap
  /\ UNCHANGED <<index, tree, undo, bounds>>

\* Store.Write on the youngest artifact of a kind: the payloads in their
\* order, then the metadata.
Unwritten(a) ==
  IF a.kind = "rollback"
  THEN IF "pre_state" \notin a.files THEN "pre_state"
       ELSE IF "created_files" \notin a.files THEN "created_files" ELSE "metadata"
  ELSE IF "applied_at" \notin a.files THEN "applied_at" ELSE "metadata"

FaultyStored(a, meta) ==
  IF a.meta = "none" THEN [a EXCEPT !.meta = meta]
  ELSE [a EXCEPT !.files = @ \cup {Unwritten(a)}]

Stored(a, meta) ==
  IF Unwritten(a) = "metadata" THEN [a EXCEPT !.meta = meta]
  ELSE [a EXCEPT !.files = @ \cup {Unwritten(a)}]

Youngest(kind) ==
  CHOOSE i \in 1..Len(artifacts) :
    /\ artifacts[i].kind = kind
    /\ \A j \in i + 1 .. Len(artifacts) : artifacts[j].kind # kind

WriteNext(kind, meta) ==
  artifacts' = [artifacts EXCEPT ![Youngest(kind)] = Stored(@, meta)]

StoreStep ==
  /\ tool = "storing"
  /\ WriteNext("rollback", "whole")
  /\ tool' = IF artifacts'[Youngest("rollback")].meta = "whole"
                /\ Payloads \subseteq artifacts'[Youngest("rollback")].files
             THEN "idle" ELSE "storing"
  /\ UNCHANGED <<index, tree, snap, undo, bounds>>

\* A write fails: Write returns and leaves what there is, part of the
\* metadata perhaps.  The executor says so on the bus and goes on.
StoreFails ==
  /\ tool = "storing"
  /\ \/ UNCHANGED artifacts
     \/ Unwritten(artifacts[Youngest("rollback")]) = "metadata" /\ WriteNext("rollback", "torn")
  /\ tool' = "idle"
  /\ UNCHANGED <<index, tree, snap, undo, bounds>>

\* The session is killed: what it held in memory is gone.  The next session
\* starts with a tool of its own.
SessionDies ==
  /\ tool # "idle"
  /\ tool' = "idle" /\ snap' = NoSnap
  /\ UNCHANGED <<index, tree, artifacts, undo, bounds>>

-----------------------------------------------------------------------------
\* The user.
UserEdits ==
  /\ bounds.edits < MaxEdits
  /\ \E f \in Files \ Own : Change(f)
  /\ bounds' = [bounds EXCEPT !.edits = @ + 1]
  /\ UNCHANGED <<tool, snap, artifacts, undo>>

-----------------------------------------------------------------------------
\* mimo -rollback-apply ID -rollback-confirm.

\* ListRollbacks: readable metadata of this kind.
Listed == {i \in 1..Len(artifacts) : artifacts[i].meta = "whole"
                                     /\ artifacts[i].kind = "rollback"}

\* readRollbackDiff, ReadPayloads: the metadata and every file it names.
Readable(i) == i \in Listed /\ Payloads \subseteq artifacts[i].files

\* Any id may be given.  What cannot be read is an error and nothing is done.
StartUndo ==
  /\ undo.pc = "free" /\ bounds.undos < MaxUndos
  /\ \E i \in 1..Len(artifacts) :
       undo' = IF Readable(i) THEN [pc |-> "reverse", id |-> i, todo |-> artifacts[i].created]
               ELSE [Free EXCEPT !.pc = "failed"]
  /\ bounds' = [bounds EXCEPT !.undos = @ + 1]
  /\ UNCHANGED <<index, tree, tool, snap, artifacts>>

\* git apply --reverse: every file of the diff has to be as the diff left
\* it; then all of them become what they were, or none does and the command
\* ends before any file is deleted.
ReverseApply ==
  /\ undo.pc = "reverse"
  /\ LET s == artifacts[undo.id].snap
     IN IF \A f \in s.diff : tree[f] = s.new[f]
        THEN /\ tree' = [f \in Files |-> IF f \in s.diff THEN s.old[f] ELSE tree[f]]
             /\ undo' = [undo EXCEPT !.pc = "delete"]
        ELSE undo' = [Free EXCEPT !.pc = "failed"] /\ UNCHANGED tree
  /\ UNCHANGED <<index, tool, snap, artifacts, bounds>>

\* os.Remove, one file after the other; an error is passed over.
Delete ==
  /\ undo.pc = "delete"
  /\ \E f \in undo.todo :
       /\ tree' \in {tree, [tree EXCEPT ![f] = Absent]}
       /\ undo' = [undo EXCEPT !.todo = @ \ {f}]
  /\ UNCHANGED <<index, tool, snap, artifacts, bounds>>

\* RecordRollbackApply, once the files are gone.
RecordApply ==
  /\ undo.pc = "delete" /\ undo.todo = {}
  /\ artifacts' = Append(artifacts,
       [kind |-> "rollback_apply", files |-> {}, meta |-> "none",
        snap |-> artifacts[undo.id].snap, created |-> {}])
  /\ undo' = [undo EXCEPT !.pc = "record"]
  /\ UNCHANGED <<index, tree, tool, snap, bounds>>

RecordStep ==
  /\ undo.pc = "record"
  /\ WriteNext("rollback_apply", "whole")
  /\ undo' = [undo EXCEPT !.pc = IF artifacts'[Youngest("rollback_apply")].meta = "whole"
                                 THEN "done" ELSE "record"]
  /\ UNCHANGED <<index, tree, tool, snap, bounds>>

\* Exit, or death anywhere; a failing record is only a warning.
UndoEnds ==
  /\ undo.pc # "free"
  /\ undo' = Free
  /\ UNCHANGED <<index, tree, tool, snap, artifacts, bounds>>

WNext ==
  \/ TakeDiff \/ ListUntracked \/ ToolWrites \/ ToolReturns
  \/ MakeArtifact \/ StoreStep \/ StoreFails \/ SessionDies
  \/ UserEdits
  \/ StartUndo \/ ReverseApply \/ Delete \/ RecordApply \/ RecordStep \/ UndoEnds

WSpec == WInit /\ [][WNext]_wvars

-----------------------------------------------------------------------------
\* Properties.

\* Whatever was killed or failed, an artifact that -rollback-list shows has
\* all its payloads: its undo never stops for want of one, and never passes
\* over the list of created files (rollbackCreatedFiles takes a missing list
\* for an empty one).
ListedIsWhole == \A i \in Listed : Payloads \subseteq artifacts[i].files

\* An undo deletes no file of the agent's own, and no file that was there,
\* untracked and not ignored, when the tool began: whatever was staged,
\* edited, ignored, killed or undone before or since, and whichever artifact
\* is undone (executor.go:198 "could delete unrelated files").  Three kinds
\* of file are not covered, for the artifact lists them as created when the
\* second ls-files shows them: one that was tracked when the tool began and
\* is not any more, one that was ignored then and is not any more, since the
\* tool or the user changed .gitignore, and any at all when the first ls-files
\* failed.
UserFilesSurvive ==
  [][\A f \in Files :
       undo.id # 0 /\ undo'.todo = undo.todo \ {f} /\ f \in undo.todo
         /\ tree[f] # Absent /\ tree'[f] = Absent
       => LET s == artifacts[undo.id].snap
          IN /\ f \notin Own
             /\ \/ s.had[f] = Absent
                \/ s.was[f] # Absent \/ f \in Ignored(s.had) \/ s.blind]_wvars

\* docs/QUICKSTART.md:234 "If a tool mutates your workspace and you want to
\* undo", rollback.go:82 "undoing tracked-file modifications": once the undo
\* of the last tool is through, and nobody touched anything since that tool
\* began nor was anything staged, the tracked files are as they were before
\* the tool.
RollbackUndoes ==
  undo.pc = "record" /\ tool = "idle" =>
    LET s == artifacts[undo.id].snap
    IN s.edits = bounds.edits /\ index = s.old =>
         \A f \in Files : s.old[f] # Absent => tree[f] = s.new[f]

=============================================================================
