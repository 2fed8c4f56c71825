-------------------------------- MODULE Recall --------------------------------
(***************************************************************************)
(* What a run is told beside its prompt: the notes of MEMORY.md            *)
(* (internal/memory) and the playbooks of the active skills                *)
(* (internal/skill).  Notes are appended by the runtime goroutine, for     *)
(* /memory add, by the agent goroutine, for the memory tool, and by other  *)
(* mimo processes in the same repository; the first two share fileMu, and  *)
(* the third has only O_APPEND to rely on.  Skills are chosen in the UI,   *)
(* which looks each up itself, and once more in the runtime when the       *)
(* choice arrives there (main.go, applyControl).  A run is told what the   *)
(* runtime has when it starts it.                                          *)
(***************************************************************************)
EXTENDS Naturals, Sequences, FiniteSets, SequencesExt

CONSTANTS
  Notes,       \* facts, each recorded by one writer, once
  Skills,      \* names
  Builtin,     \* those of the built-in skills
  Global,      \* the lines of the user's own MEMORY.md
  Limit,       \* MaxModelMemoryBytes, in pieces of text
  AnchorLimit, \* maxContextSource, in pieces of text
  ControlCap,  \* room of the runtime's control subscription (64 in the code)
  MaxChoices,  \* bound: things the user does
  MaxFailures, \* bound: writes that fail
  MaxPrompts   \* bound: runs

(* What a note says is said nowhere else: not by the marks that stand in   *)
(* the two files, and not by the user's own notes.                         *)
Marks == {"header", "part", "global", "project", "none"}
ASSUME RecallAssumption ==
  /\ Notes \intersect Marks = {}
  /\ Global \in Seq(Seq(UNION {ToSet(line) : line \in ToSet(Global)}))
  /\ \A line \in ToSet(Global) : ToSet(line) \intersect Notes = {}
  /\ {Limit, AnchorLimit, ControlCap} \subseteq Nat

VARIABLES
  project,     \* .mimo/MEMORY.md: lines, each a sequence of pieces
  partial,     \* its last line has no newline
  writing,     \* what each writer is about to write, once it has looked
  recorded,    \* history: the notes whose Append returned nil, in order
  anchor,      \* the Context Map's anchor:memory
  playbooks,   \* .mimo/skills: 1 for a name that has a file there, else 0
  shown,       \* UI: activeSkills
  control,     \* events on their way from the UI to the runtime
  active,      \* runtime: activeSkills, the version each name was read in
  runtime,     \* "idle", "starting" (drainControl is through), "running"
  since,       \* history: how many notes were recorded, what was shown and gone, then
  told,        \* the run's Memory and Skills
  lost,        \* history: an event was dropped
  gone,        \* history: skills that were not there when the runtime looked
  counts       \* the bounded counters

mvars == <<project, partial, writing, recorded, anchor, playbooks, shown, control, active,
           runtime, since, told, lost, gone, counts>>

Writers == {"runtime", "tool", "other"}
Ours    == {"runtime", "tool"}   \* share fileMu
Nil     == [note |-> "none", header |-> FALSE]
Untold  == [memory |-> <<>>, whole |-> TRUE, skills |-> <<>>]

Count(what, limit) == counts[what] < limit /\ counts' = [counts EXCEPT ![what] = @ + 1]

-----------------------------------------------------------------------------
(* Reading.  Load: the header is taken off where it stands first, and only *)
(* there; the user's own notes go before the project's.                    *)
Body(lines) == IF lines # <<>> /\ lines[1] = <<"header">> THEN Tail(lines) ELSE lines
Section(heading, lines) == IF Body(lines) = <<>> THEN <<>> ELSE <<<<heading>>>> \o Body(lines)
Load(lines) == Section("global", Global) \o Section("project", lines)

Size(lines) == Len(FlattenSeq(lines))

(* LoadBounded: whole lines from the front, as many as there is room for.  *)
LoadBounded(lines, limit) ==
  IF Size(lines) <= limit THEN lines
  ELSE LET k == CHOOSE k \in 0..Len(lines) :
                  /\ Size(SubSeq(lines, 1, k)) <= limit
                  /\ \A j \in k + 1 .. Len(lines) : ~(Size(SubSeq(lines, 1, j)) <= limit)
       IN SubSeq(lines, 1, k)

(* AnchorItem: cut wherever the limit falls.                               *)
AnchorItem(lines) ==
  LET text == FlattenSeq(Load(lines))
  IN SubSeq(text, 1, IF Len(text) < AnchorLimit THEN Len(text) ELSE AnchorLimit)

NInit ==
  /\ project = <<>> /\ partial = FALSE /\ writing = [w \in Writers |-> Nil]
  /\ recorded = <<>> /\ anchor = AnchorItem(<<>>)
  /\ playbooks = [s \in Skills |-> 0] /\ shown = {} /\ control = <<>> /\ active = <<>>
  /\ runtime = "idle" /\ since = [notes |-> 0, shown |-> {}, gone |-> {}] /\ told = Untold
  /\ lost = FALSE /\ gone = {}
  /\ counts = [choices |-> 0, failures |-> 0, prompts |-> 0]

-----------------------------------------------------------------------------
(* Append, in two steps: it looks whether the file is empty, then writes   *)
(* in one piece at the file's end, wherever that is by then.               *)
Locked == \E w \in Ours : writing[w] # Nil
Fresh(n) ==
  /\ n \notin ToSet(recorded)
  /\ \A w \in Writers : writing[w].note # n
  /\ \A i \in DOMAIN control : control[i].value # n

Look(w, n) ==
  /\ writing[w] = Nil /\ (w \in Ours => ~Locked)
  /\ writing' = [writing EXCEPT ![w] = [note |-> n, header |-> project = <<>>]]

Behind(lines, text) ==   \* text after lines, on the last of them if that has no end
  IF partial
  THEN [lines EXCEPT ![Len(lines)] = @ \o text[1]] \o Tail(text)
  ELSE lines \o text

FaultyNoteAdded(w) ==   \* mutant: what was there when it looked decides where it writes
  LET text == (IF writing[w].header THEN <<<<"header">>>> ELSE <<>>) \o <<<<writing[w].note>>>>
  IN Behind(IF writing[w].header THEN <<>> ELSE project, text)
NoteAdded(w) ==
  LET text == (IF writing[w].header THEN <<<<"header">>>> ELSE <<>>) \o <<<<writing[w].note>>>>
  IN Behind(project, text)

(* The runtime refreshes the anchor after its own notes, not after those   *)
(* of the tool or of another process.                                      *)
WriteNote(w) ==
  /\ writing[w] # Nil
  /\ writing' = [writing EXCEPT ![w] = Nil]
  /\ \/ /\ project' = NoteAdded(w) /\ partial' = FALSE
        /\ recorded' = Append(recorded, writing[w].note)
        /\ anchor' = IF w = "runtime" THEN AnchorItem(project') ELSE anchor
        /\ UNCHANGED counts
     \/ /\ Count("failures", MaxFailures)   \* a part of it, or nothing
        /\ \/ project' = Behind(project, <<<<"part">>>>) /\ partial' = TRUE
           \/ UNCHANGED <<project, partial>>
        /\ UNCHANGED <<recorded, anchor>>
  /\ UNCHANGED <<playbooks, shown, control, active, runtime, since, told, lost, gone>>

ToolAdds(n) ==   \* the memory tool, during a run
  /\ runtime = "running" /\ Fresh(n) /\ Look("tool", n)
  /\ UNCHANGED <<project, partial, recorded, anchor, playbooks, shown, control, active,
                 runtime, since, told, lost, gone, counts>>

OtherAdds(n) ==   \* another process
  /\ Fresh(n) /\ Look("other", n)
  /\ UNCHANGED <<project, partial, recorded, anchor, playbooks, shown, control, active,
                 runtime, since, told, lost, gone, counts>>

-----------------------------------------------------------------------------
(* Skills: the project's file of a name, else the built-in one.            *)
Found(s) == playbooks[s] # 0 \/ s \in Builtin

Send(event) ==
  IF Len(control) < ControlCap THEN control' = Append(control, event) /\ UNCHANGED lost
  ELSE lost' = TRUE /\ UNCHANGED control

Choose(event) ==
  /\ Count("choices", MaxChoices)
  /\ Send(event)
  /\ UNCHANGED <<project, partial, writing, recorded, anchor, playbooks, active, runtime,
                 since, told, gone>>

Remember(n) ==
  /\ Fresh(n)
  /\ Choose([type |-> "memory", value |-> n])
  /\ UNCHANGED shown
UseSkill(s) ==
  /\ Found(s)
  /\ Choose([type |-> "skill", value |-> s])
  /\ shown' = shown \union {s}
ClearSkills ==
  /\ Choose([type |-> "clear", value |-> "none"])
  /\ shown' = {}

EditSkill(s) ==   \* the user writes, changes or deletes a skill's file
  /\ Count("choices", MaxChoices)
  /\ \E version \in {0, 1} \ {playbooks[s]} : playbooks' = [playbooks EXCEPT ![s] = version]
  /\ UNCHANGED <<project, partial, writing, recorded, anchor, shown, control, active,
                 runtime, since, told, lost, gone>>

(* applyControl, from the select loop or from drainControl.                *)
SkillSet(event) ==
  IF event.type = "clear" THEN active' = <<>> /\ gone' = {}
  ELSE IF ~Found(event.value) THEN gone' = gone \union {event.value} /\ UNCHANGED active
  ELSE /\ active' = [s \in DOMAIN active \union {event.value} |->
                       IF s = event.value THEN playbooks[s] ELSE active[s]]
       /\ gone' = gone \ {event.value}

ApplyControl ==
  /\ runtime # "starting" /\ writing["runtime"] = Nil /\ control # <<>>
  /\ control' = Tail(control)
  /\ IF Head(control).type = "memory"
     THEN Look("runtime", Head(control).value) /\ UNCHANGED <<active, gone>>
     ELSE SkillSet(Head(control)) /\ UNCHANGED writing
  /\ UNCHANGED <<project, partial, recorded, anchor, playbooks, shown, runtime, since, told,
                 lost, counts>>

-----------------------------------------------------------------------------
(* startRun: once nothing is left to apply, Memory is read from the files  *)
(* and Skills are what is active.                                          *)
Drained ==
  /\ runtime = "idle" /\ control = <<>> /\ writing["runtime"] = Nil
  /\ Count("prompts", MaxPrompts)
  /\ runtime' = "starting"
  /\ since' = [notes |-> Len(recorded), shown |-> shown, gone |-> gone]
  /\ UNCHANGED <<project, partial, writing, recorded, anchor, playbooks, shown, control,
                 active, told, lost, gone>>

Brief ==
  /\ runtime = "starting" /\ ~Locked
  /\ runtime' = "running"
  /\ told' = [memory |-> LoadBounded(Load(project), Limit),
              whole  |-> Size(Load(project)) <= Limit, skills |-> active]
  /\ UNCHANGED <<project, partial, writing, recorded, anchor, playbooks, shown, control,
                 active, since, lost, gone, counts>>

RunEnds ==
  /\ runtime = "running" /\ writing["tool"] = Nil
  /\ runtime' = "idle" /\ told' = Untold
  /\ UNCHANGED <<project, partial, writing, recorded, anchor, playbooks, shown, control,
                 active, since, lost, gone, counts>>

NNext ==
  \/ \E w \in Writers : WriteNote(w)
  \/ \E n \in Notes : ToolAdds(n) \/ OtherAdds(n) \/ Remember(n)
  \/ \E s \in Skills : UseSkill(s) \/ EditSkill(s)
  \/ ClearSkills \/ ApplyControl
  \/ Drained \/ Brief \/ RunEnds

NSpec == NInit /\ [][NNext]_mvars

-----------------------------------------------------------------------------
(* A run is told what there is to tell.  Of the notes that Append took,    *)
(* from whichever goroutine or process ("O_APPEND keeps concurrent         *)
(* processes from clobbering each other", memory.go:163), it is told all   *)
(* those recorded before it was started ("so newly recorded facts apply",  *)
(* main.go:651) as long as memory is not cut, and the oldest when it is;   *)
(* failed writes cost none of the others.  And it is told the skills the   *)
(* UI showed as active then, unless an event was dropped, or the file was  *)
(* gone when the runtime looked the skill up.                              *)
RunIsTold ==
  runtime = "running" =>
    LET pieces == UNION {ToSet(line) : line \in ToSet(told.memory)}
        notes  == {n \in ToSet(recorded) : n \in pieces}
    IN /\ \A i \in DOMAIN recorded, j \in DOMAIN recorded :
            i < j /\ recorded[j] \in notes => recorded[i] \in notes
       /\ told.whole => \A i \in 1..since.notes : recorded[i] \in notes
       /\ lost \/ DOMAIN told.skills \ since.gone = since.shown \ since.gone
=============================================================================
