------------------------------- MODULE MCParts -------------------------------
(* The parts of mimo that share no state with each other: what is kept     *)
(* outside the process (rollback snapshots, the event log, notes and        *)
(* skills, the worktrees of sub-agents, the model registry), the terminal   *)
(* UI, and the way of one tool call from the permission gate to the ledger. *)
(* One run takes them side by side (Parts.cfg): part says which of them a   *)
(* behaviour is about, and the others stay as they were.  WorkspaceUndo.cfg *)
(* and ToolFailure.cfg look at one of them alone.                           *)
EXTENDS Workspace, SessionLog, Recall, Delegation, Console, ToolOutcome, Release, TLC

VARIABLE part
Parts == {"workspace", "log", "recall", "delegation", "console", "call", "release"}

(* A part that a behaviour is not about starts in one state.               *)
PartsInit ==
  /\ part \in Parts
  /\ WInit /\ LInit /\ NInit /\ GInit /\ CInit /\ OInit /\ RInit
  /\ part # "workspace" => index = Nothing /\ tree = Nothing
  /\ part # "call" => toolName = "unknown" /\ size = <<0, 0>> /\ inUse = 0
  /\ part # "release" => userFile = Missing

(* What one of the parts does, the other six do not.                       *)
PartsNext ==
  /\ UNCHANGED part
  /\ \/ part = "workspace" /\ WNext /\ UNCHANGED <<lvars, mvars, gvars, cvars, ovars, rvars>>
     \/ part = "log" /\ LNext /\ UNCHANGED <<wvars, mvars, gvars, cvars, ovars, rvars>>
     \/ part = "recall" /\ NNext /\ UNCHANGED <<wvars, lvars, gvars, cvars, ovars, rvars>>
     \/ part = "delegation" /\ GNext /\ UNCHANGED <<wvars, lvars, mvars, cvars, ovars, rvars>>
     \/ part = "console" /\ CNext /\ UNCHANGED <<wvars, lvars, mvars, gvars, ovars, rvars>>
     \/ part = "call" /\ ONext /\ UNCHANGED <<wvars, lvars, mvars, gvars, cvars, rvars>>
     \/ part = "release" /\ RNext /\ UNCHANGED <<wvars, lvars, mvars, gvars, cvars, ovars>>

allVars   == <<wvars, lvars, mvars, gvars, cvars, ovars, rvars, part>>
PartsSpec == PartsInit /\ [][PartsNext]_allVars

UndoSpec == PartsInit /\ part = "workspace" /\ [][PartsNext]_allVars
CallSpec == PartsInit /\ part = "call" /\ [][PartsNext]_allVars

Interchangeable ==
  Permutations(Contents) \union Permutations(Ids) \union Permutations(Processes)

-----------------------------------------------------------------------------
(* Any .gitignore there is ignores b.                                      *)
IgnoresB == [c \in Contents \cup {Absent} |-> IF c = Absent THEN {} ELSE {"b"}]

UserNotes == <<<<"an old fact">>>>

Candidate == [channel |-> "candidate", accepted |-> FALSE]
Default1  == [channel |-> "default", accepted |-> TRUE]
ShippedModels ==
  [default |-> "pro", entries |-> ("pro" :> Default1 @@ "flash" :> Candidate), ok |-> TRUE]

(* A model of the user's own; a shipped one relabelled; a default that is  *)
(* not listed.                                                             *)
UserFiles ==
  {File(None, "own", "own" :> Candidate),
   File("flash", "flash", "flash" :> Candidate),
   File("own", "pro", "pro" :> Default1)}

Logs ==
  {[tools |-> <<"shell", "rg">>, failed |-> FALSE, done |-> TRUE],
   [tools |-> <<"rg", "shell">>, failed |-> FALSE, done |-> TRUE],
   [tools |-> <<"shell", "rg", "rg", "rg">>, failed |-> FALSE, done |-> TRUE],
   [tools |-> <<"shell">>, failed |-> TRUE, done |-> TRUE]}
=============================================================================
