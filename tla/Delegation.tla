------------------------------ MODULE Delegation ------------------------------
(***************************************************************************)
(* Delegating a task to a sub-agent (subagent/subagent.go, Spawn, and the  *)
(* tool around it, tools/subagenttool.go): a git worktree of its own       *)
(* (worktree/worktree.go), a bus of its own whose news a goroutine         *)
(* forwards to the parent's, a policy that never asks, and at the end a    *)
(* diff that is all that is left once the worktree is removed.             *)
(*                                                                         *)
(* Git is external: changed is what differs from HEAD in the worktree.     *)
(***************************************************************************)
EXTENDS Naturals, Sequences, FiniteSets

CONSTANTS
  Paths,      \* files the child's tools may write
  Book,       \* those below .mimo, which its executor writes
  SubCap,     \* places in forward's subscription (256 in the code)
  MaxTasks,   \* bound: delegations
  MaxCalls    \* bound: tool calls of the children

ASSUME DelegationAssumption ==
  /\ Book \subseteq Paths
  /\ {SubCap, MaxTasks, MaxCalls} \subseteq Nat

VARIABLES
  task,        \* where Spawn and the tool's Run are
  worktrees,   \* registered worktrees with a directory, by task number
  changed,     \* what the present one holds that HEAD does not
  work,        \* what that was when the child's loop ended (history)
  diff,        \* what Diff returned
  loopErr,     \* how the child's loop ended
  forward,     \* each task's goroutine: "off", "select", "publish"
  subEvents,   \* how many events its subscription holds
  done,        \* the tasks whose done channel is closed
  activity,    \* each task's last status on the parent's bus
  kept,        \* the diff stored as an artifact
  exit,        \* the tool's exit code
  used         \* the bounded counters: tasks, calls

gvars == <<task, worktrees, changed, work, diff, loopErr, forward, subEvents, done,
           activity, kept, exit, used>>

Tasks == 1..MaxTasks
Now == used.tasks   \* the task under way

Grades == {"read_only", "workspace_mutation", "shell_mutation", "destructive"}

\* sandboxPolicy.
Sandbox(grade) == IF grade \in {"read_only", "workspace_mutation"} THEN "allow" ELSE "deny"

GInit ==
  /\ task = "none" /\ worktrees = {} /\ changed = {} /\ work = {} /\ diff = {} /\ loopErr = FALSE
  /\ forward = [k \in Tasks |-> "off"] /\ subEvents = [k \in Tasks |-> 0]
  /\ done = {} /\ activity = [k \in Tasks |-> "none"]
  /\ kept = {} /\ exit = 0
  /\ used = [tasks |-> 0, calls |-> 0]

-----------------------------------------------------------------------------
\* The tool and Spawn.

\* The parent's activity says running before the worktree is there.
Spawn ==
  /\ task \in {"none", "returned"} /\ used.tasks < MaxTasks
  /\ task' = "create" /\ activity' = [activity EXCEPT ![Now + 1] = "running"]
  /\ used' = [used EXCEPT !.tasks = @ + 1]
  /\ kept' = {} /\ exit' = 0 /\ diff' = {} /\ changed' = {} /\ work' = {}
  /\ UNCHANGED <<worktrees, loopErr, forward, subEvents, done>>

\* worktree.Create: a failing git worktree add takes its directory with it.
Create ==
  /\ task = "create"
  /\ \/ /\ task' = "loop" /\ worktrees' = worktrees \cup {Now}
        /\ forward' = [forward EXCEPT ![Now] = "select"]
        /\ UNCHANGED <<activity, exit>>
     \/ /\ task' = "returned" /\ exit' = 1
        /\ activity' = [activity EXCEPT ![Now] = "failed"]
        /\ UNCHANGED <<worktrees, forward>>
  /\ UNCHANGED <<changed, work, diff, loopErr, subEvents, done, kept, used>>

\* The child's executor: the start of a call is published, a denied one ends
\* there.  A mutating one changes the worktree, or undoes a change, and its
\* executor keeps books there.  Publish drops what finds no place.
Call ==
  /\ task = "loop" /\ used.calls < MaxCalls
  /\ used' = [used EXCEPT !.calls = @ + 1]
  /\ subEvents' = [subEvents EXCEPT ![Now] = IF @ < SubCap THEN @ + 1 ELSE @]
  /\ \E grade \in Grades :
       IF Sandbox(grade) = "allow" /\ grade # "read_only"
       THEN \E p \in Paths \ Book :
              changed' \in {changed \cup {p} \cup Book, (changed \ {p}) \cup Book}
       ELSE UNCHANGED changed
  /\ UNCHANGED <<task, worktrees, work, diff, loopErr, forward, done, activity, kept, exit>>

\* agent.Loop returns, or the parent's context is cancelled and it returns an
\* error; close(done).
LoopEnds ==
  /\ task = "loop"
  /\ loopErr' \in BOOLEAN
  /\ task' = "stage" /\ done' = done \cup {Now}
  /\ work' = changed
  /\ UNCHANGED <<worktrees, changed, diff, forward, subEvents, activity, kept, exit, used>>

\* Worktree.Diff, git add -A --force and git diff --cached: everything, the
\* ignored files too, or an error.  Then the outcome is published.
FaultyDiff(ok) ==
  IF loopErr THEN [activity |-> "failed", exit |-> 1, diff |-> {}]
  ELSE [activity |-> "done", exit |-> 0, diff |-> IF ok THEN changed ELSE {}]

Diff(ok) ==
  IF loopErr \/ ~ok THEN [activity |-> "failed", exit |-> 1, diff |-> {}]
  ELSE [activity |-> "done", exit |-> 0, diff |-> changed]

Outcome ==
  /\ task = "stage"
  /\ \E ok \in BOOLEAN :
       /\ activity' = [activity EXCEPT ![Now] = Diff(ok).activity]
       /\ exit' = Diff(ok).exit
       /\ diff' = Diff(ok).diff
  /\ task' = "remove"
  /\ UNCHANGED <<worktrees, changed, work, loopErr, forward, subEvents, done, kept, used>>

\* The deferred Remove.  When git worktree remove fails the directory is
\* removed all the same and the registry pruned, which may fail as well.
RemoveTree ==
  /\ task = "remove"
  /\ worktrees' \in {worktrees, worktrees \ {Now}}
  /\ changed' = {}
  /\ task' = "store"
  /\ UNCHANGED <<work, diff, loopErr, forward, subEvents, done, activity, kept, exit, used>>

\* The rest of Run: an error is returned with the summary only, an empty diff
\* is no file changes, any other is stored or Run fails.
Return ==
  /\ task = "store"
  /\ task' = "returned"
  /\ \/ /\ exit = 1 \/ diff = {}
        /\ UNCHANGED <<kept, exit>>
     \/ /\ exit = 0 /\ diff # {}
        /\ \/ kept' = diff /\ UNCHANGED exit
           \/ exit' = 1 /\ UNCHANGED kept
  /\ UNCHANGED <<worktrees, changed, work, diff, loopErr, forward, subEvents, done, activity, used>>

-----------------------------------------------------------------------------
\* forward: when both are ready the select takes either, so that it may stop
\* with events left, or publish them behind the task's outcome.
ForwardTakes(k) ==
  /\ forward[k] = "select" /\ subEvents[k] > 0
  /\ subEvents' = [subEvents EXCEPT ![k] = @ - 1]
  /\ forward' = [forward EXCEPT ![k] = "publish"]
  /\ UNCHANGED <<task, worktrees, changed, work, diff, loopErr, done, activity, kept, exit, used>>

ForwardPublishes(k) ==
  /\ forward[k] = "publish"
  /\ activity' = [activity EXCEPT ![k] = "running"]
  /\ forward' = [forward EXCEPT ![k] = "select"]
  /\ UNCHANGED <<task, worktrees, changed, work, diff, loopErr, subEvents, done, kept, exit, used>>

ForwardStops(k) ==
  /\ forward[k] = "select" /\ k \in done
  /\ forward' = [forward EXCEPT ![k] = "off"]
  /\ UNCHANGED <<task, worktrees, changed, work, diff, loopErr, subEvents, done, activity, kept, exit, used>>

\* The process dies: the worktree stays, in the registry and on disk.
Dies ==
  /\ task \notin {"none", "returned"}
  /\ task' = "none" /\ changed' = {} /\ work' = {} /\ diff' = {} /\ loopErr' = FALSE
  /\ forward' = [k \in Tasks |-> "off"] /\ subEvents' = [k \in Tasks |-> 0]
  /\ done' = {} /\ activity' = [k \in Tasks |-> "none"]
  /\ kept' = {} /\ exit' = 0
  /\ UNCHANGED <<worktrees, used>>

GNext ==
  \/ Spawn \/ Create \/ Call \/ LoopEnds \/ Outcome \/ RemoveTree \/ Return
  \/ \E k \in Tasks : ForwardTakes(k) \/ ForwardPublishes(k) \/ ForwardStops(k)
  \/ Dies

GSpec == GInit /\ [][GNext]_gvars

-----------------------------------------------------------------------------
\* Properties.

\* A delegation that reports success has stored all that the child's
\* worktree held when its loop ended, ignored files included, though the
\* worktree itself is gone by then: no work is lost behind a success
\* (subagent.go:106 "a silent no changes success", subagenttool.go:82 "Do not
\* report success").
DelegatedWorkIsKept == task = "returned" /\ exit = 0 => kept = work

=============================================================================
