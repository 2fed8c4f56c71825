# A verification development for MiMo TUI

TLA+ models of the Go program in `src/` (a terminal agent: a model client, an
agent loop with tools and a goal judge, a context manager, an event bus, a
Bubble Tea UI), TLC runs that model-check them on small instances, and TLAPS
proofs for every instance of what matters most. `PROJECT.json` maps every
definition to the lines it models and lists the hazards the properties aim at.

    tlc -workers 2 -config AgentLoop.cfg MCAgentLoop      # any of the runs below
    tlapm ContextProofs.tla                               # the proofs

## 1. Inventory

One process. `cmd/mimo/main.go` starts the UI (one goroutine, Bubble Tea's
update loop), a goroutine for UI commands on the context map, the runtime
goroutine (`liveEvents`), a bridge for approval requests, and one goroutine per
agent run, which starts another per model stream. They share the context
manager (a mutex), the event bus (one bounded queue per subscription, a full
queue drops the event), the approval channel, one answer channel per request,
and the sessions' files.

| component | state it keeps | operations | interacts with | hard part, and what correct means |
|---|---|---|---|---|
| Context map `internal/context/manager.go`, `compression.go` | items, insertion order, compression records | Add, Update, Upsert, Admit, Remove, Pin, Unpin, AutoBudget, CompressItems | called by agent loop, UI commands, runtime | two structures kept in step by hand; the budget must not take what is protected, must take the oldest, and just enough; lineage never dangles |
| Context oracle `context/oracle.go` | none (a recommendation in flight) | Review, RunOracleStep | context map | decides under one lock, acts under others: every recommendation may be stale |
| Model client `provider/mimo/client.go` | web search flag | ChatStream, Chat, HealthCheck | agent loop | a goroutine whose sends race its context; retries; fallback; nothing lost while the step is live |
| Agent loop `agent/agent.go`, `goal.go` | conversation, step, re-entries, trace | Loop | client, executor, judge, context map, bus | eight ways out, three timeouts; conversation stays well formed, the gate is passed, one Done after everything |
| Tool executor, approvals `tools/executor.go`, `tui/model.go`, bridge in `main.go` | waiting request, panel, countdown | Execute, answer, tick | agent loop, UI, bus | two clocks and a lossy path; consent belongs to one call |
| Session runtime `main.go` `liveEvents` | running, queuedPrompts, currentGoal | start, queue, interrupt, control | UI, agent loop, bus | select over channels reorders; one run at a time, prompts once, goals not lost or revived |
| UI state `tui/model.go` | running, queue, goal badge, panels | Update, applyEvent | bus, runtime | its idea of the run is events late |
| Event bus `core/bus.go` | subscriptions | Publish, Subscribe, SubscribeFiltered | everybody | drops when full |
| MCP client `mcp/client.go` | pending table, closed | call, notify, readLoop, failAll, Close | tools | answer, cancellation and failure race for one entry |
| Event log `replay/log.go`, `persistEvents` in `main.go` | a JSONL file per session | Write, ReadFile, ListSessions, LatestSession | runtime, resume | lossy queue, torn lines, several processes on one file |
| Session resume `session/summary.go`, `publishResumeSummary` in `main.go` | none | BuildResumeSummary, ExtractHistory | log, context map | the conversation resumed is the one the log tells |
| Artifacts, rollback `artifact/*.go` | payloads, metadata | Write, ListRollbacks, ApplyRollback | executor, git, user | half an artifact; an undo long after its snapshot |
| Sub-agents `subagent`, `worktree`, `tools/subagenttool.go` | a worktree, a child loop, a forwarder | Run, Spawn, Create, Diff, Remove | agent loop, git, bus | the work outlives the worktree on every path, or an error says so |
| Permission policy `config/policy.go` | lists | EvaluatePolicy | executor | precedence of the lists over the grade |
| Tool registry and built-in tools `tools/*.go` | a map; none | Register, Get, List, Run | executor | what a tool reports of what it met with |
| Tool summaries `tools/summarizers` | none | Summarize | executor, context map | a failure must not read as a success; terser under pressure |
| Model registry `model/*.go`, `config/models.go` | two models.toml files | Load, Merge, AcceptCandidate, Save | command line | promotions survive concurrent commands and torn writes |
| Persistent memory `memory/memory.go` | two MEMORY.md files | Append, Load, LoadBounded, AnchorItem | runtime, memory tool, other processes | look, then write, beside other writers |
| Skills `skill/skill.go` | files; the active set in UI and runtime | List, Get, Combine | UI, runtime | two lookups of one name at different moments |
| Trust `trust/trust.go` and the ledger of the UI | rows and answer of a turn | Analyze | UI | evidence of this turn, not of another |
| Evaluation `eval/*.go` | none | EvaluateCandidate, harnesses | command line | the gate before a promotion |
| Configuration, capabilities, provenance, counterfactual, rendering | none | - | - | wording and layout |

Everything hard to test in them is listed, line by line, under `hazards`.

## 2. Modules

    ContextMap  <-- ContextOracle  <-- MCContextOracle
                                   <-- ContextProofs
    ModelStream <-- AgentLoop      <-- MCAgentLoop
                       |           <-- AgentLoopProofs
                       | implements
                    AgentRun
                       ^ builds its run on
                    Session        <-- MCSession,    SessionProofs
    ToolApproval <-- MCToolApproval, ToolProofs
    McpClient    <-- MCMcpClient,    McpProofs
        | implements
    RemoteCalls
    Workspace    <-- ToolProofs        \
    Console      <-- ConsoleProofs      |
    SessionLog   <-- LogProofs          |  side by side in
    Delegation  \                       |  MCParts
    Release      |                      |
    ToolOutcome  |-- PartsProofs        |
    Recall      /                      /

**ContextMap** is the manager. An item keeps its tier, token estimate, pin and
`ReplacedBy` (which stands for `ExpiresAt` as well: only `CompressItems` sets
either, and it sets both, the time to one in the past). The order slice is
modelled by the relation it denotes, which makes a double entry and a missing
entry visible (`OrderIsLinear`) and needs no induction in the proofs. Each
operation holds the mutex from its first read to its last write and is one
action. Two notes on the text of the code: a comment of `CompressItems` says
that compressed items "remain in the map for lineage tracking", which is so only
until the next `AutoBudget` over the warning level, whose phase 1 deletes
expired items; and `CompressItems` does not look at tiers or pins.

**ContextOracle** adds the variable `review`, what is left to apply of a
recommendation, and composes the three callers: the runtime goroutine (reviews
and upserts, never two reviews at once), the UI command goroutine (pin, unpin,
remove) and the agent loop (admit, auto-budget). Matching words is an input:
how many words of the goal an item's text has, whether its keywords overlap,
which items recent observations mention; the score and its thresholds are the
code's. No caller outside the tests ever sets `Keywords`; with `Keyworded = {}`
`OnlyKeywordedCompressed` says that production never compresses through the
oracle.

**ModelStream** is the goroutine of `ChatStream`: request, backoff, the second
attempt without web search, body, last sends, close. `Send` is the select of
`sendModelEvent`. **AgentLoop** EXTENDS it with `Loop`: one action for each
return path and each turn of the for loop; `totalLive` and `stepLive` are the
two contexts (the total one is also the user's interrupt), and `published` is
what the run tells the bus, apart from progress events. The conversation keeps
of each message its role, how many calls it makes or which one it answers.
**AgentRun** is the contract of a run, written from what its callers rely on:
one Done, last; an Error just before it exactly when the run failed; the goal
closed by an answer or by the step limit only. `AgentLoop` implements it
(`ImplementsAgentRun`), and `Session` uses it as its run.

**ToolApproval** has the executor's decision, its timer, the approval channel,
the bridge and bus (an event may be dropped), the panel, its countdown and the
tick timers in flight. A request keeps its identity so that consent can be
checked call by call (`said`).

**Session** has the UI's and the runtime's half of a conversation. The prompt
and the interrupt subscriptions are unfiltered with 8 and 4 places: a prompt or
an interrupt may be lost at any time (`lost`). The control subscription is
filtered, the UI's has 256 places: they lose nothing here. The runtime takes
from its channels in any order, which is where the reorderings come from.

**McpClient** has callers of the JSON-RPC client, the pending table, the write
lock, the read loop, the server's answers (also answers nobody asked for),
cancellation and the failure of the connection. **RemoteCalls** is
the same client as its callers know it, without ids, table, channels and goroutines: a
call is undecided, answered or broken, decided once and in one step; the end of the
connection is one moment for all calls, and none begins or is answered after it.
`McpClient` implements it (`ImplementsRemoteCalls`): a call is decided when its entry
leaves the table, although its message may still be in the hands of the read loop or of
a failAll which tells the callers one by one.

**Workspace** is the rollback of a mutating tool: the snapshot before
(`capturePreRollback`: `TakeDiff`, then `ListUntracked`, between which the user may act),
the list of created files after, the artifact written payload by payload with the
metadata last, and `mimo -rollback-apply`, another process, which applies the diff in
reverse and deletes the listed files one by one. The user edits, stages and untracks
files at any time; both processes may be killed anywhere; `git diff`, `git ls-files` and
every write may fail. A file's content is one hunk, so that a reverse patch applies to a
file or does not. The `.gitignore` (`Rules`) is a file like the others: what it holds
when `git ls-files` runs says which files that leaves out (`Hides`), and the tool and the
user may change it between the two listings.

**SessionLog** is `persistEvents` with its bounded subscription, the file as a
sequence of lines whose last may be torn, the choice of the latest session while
the present one is already being written, and the resume: `ExtractHistory` is
the fold of the code. Several processes may be at work on one log at once: `-session`
names it, an id made up is the second of the start, and `NewWriter` opens the file to
append and takes no lock. An event is its type, the process it is of (which its line
does not say) and its place among what that process publishes. The wall clock is left
out, so that `LatestSession` may choose any usable log, and so are the events nothing
here reads (traces, observations, usage). `Settled` is what a log
says but for the text at its end that nothing has ended yet, which `ExtractHistory`
does not flush; `TalkedOver` are the pieces of an answer behind the Done of another
process; `gap` remembers which logs miss an event.

**Recall** is what a run is told beside its prompt. Appends to MEMORY.md are two
steps, as in the code (is there a header to write; write), by the runtime
goroutine, the memory tool and another process; a skill is looked up in the UI
and again in the runtime. A run starts when the control queue is drained. `since`
is what it must be told, taken at that moment: the notes recorded, the skills shown,
and those whose file was gone when the runtime looked them up.

**Delegation** is `Spawn` and the tool around it: worktree, child bus, forwarder,
sandbox policy, diff, removal, artifact.

**Console** is the UI as one goroutine: input modes, overlays, the prompt line, the
approval panel, tool rows, the streamed answer and what the ledger calls verified. The
prompt line remembers which request was on the panel when its text was begun; an empty
line belongs to none.
The runtime is there as the events it can publish: of a call it executes the result
comes twice, from the executor and from the loop. It complements `Session` and
`ToolApproval`, which have the UI's queue and its clocks.

**ToolOutcome** follows one call from the permission gate through the tool and its
summarizer to the model and the ledger. A text is what its reader learns from it:
success, failure or nothing. The lengths of digests are the numbers of lines or
names they carry at each level of pressure.

**Release** is `-model-accept`: registry files loaded, merged, promoted and written
back by concurrent commands, and the replay gate.

These seven share no state. **MCParts** puts them side by side: `part` chooses the one
a behaviour is about. Where a module relates to another it is through what it leaves
open: `ToolApproval` has the run of a tool as one step, which `Workspace` opens;
`AgentLoop` has the child's loop that `Delegation` waits for.

## 3. Runs

| run | configuration | properties | shows |
|---|---|---|---|
| ContextOracle | `ContextOracle.cfg` | `OTypeOK`, `OrderIsLinear`, `LineageRecorded`, `OnlyKeywordedCompressed`, `ProtectedLeaveOnlyByRemove`, `EvictionPolicy`, `AdmissionFits`, `OracleNeverRecreates` | the context map keeps its order, its lineage, its window and what must not be evicted, whatever the agent, the user and a review applied step by step interleave |
| ContextOraclePins (counterexample) | `ContextOraclePins.cfg` | `PinnedNeverDemoted` | an item the user pins while a review is being applied is removed, or unpinned by the copy the review took |
| AgentLoop | `AgentLoop.cfg` | `CallsAreAnswered`, `TracesAreClosed`, `AnswerPassedTheGate`, `LiveStreamIsWhole`, `ImplementsAgentRun`, `EveryRunEnds` | the agent loop over a racing, retrying, dying model stream keeps the conversation well formed, passes the goal gate, implements the contract its callers rely on and always returns |
| AgentLoopAnswer (counterexample) | `AgentLoopAnswer.cfg` | `AnswerIsFinal` | a stream cut by the step timeout is taken for a final answer |
| ToolApproval | `ToolApproval.cfg` | `RunsWithConsent`, `UiNeverBlocks`, `PanelGoesAway`, `CallsAreSettled` | a tool runs only with consent given to this very call, the UI never blocks on an answer, and every request and every panel comes to an end |
| ToolApprovalTicks (counterexample) | `ToolApprovalTicks.cfg` | `OneTickLoop` | a request that follows an answer within a second is counted down by two tick loops |
| Session | `Session.cfg` | `OneRunAtATime`, `PromptsStartOnce`, `PromptsStartInOrder`, `ClearedGoalStaysCleared`, `RunsStartUnresolved`, `PromptsRun` | one run at a time, each prompt run once, in order and none forgotten, and goals closed or cleared never come back, across the two queues and the reordering of the subscriptions |
| SessionGoal (counterexample) | `SessionGoal.cfg` | `GoalIsKept` | the verdict on an older goal clears the one the user has just set |
| McpClient | `McpClient.cfg` | `AnswersMatch`, `MessageOnItsWay`, `TableIsLive`, `DoneClosedOnce`, `CloseReleasesCalls`, `ImplementsRemoteCalls` | requests, cancellations, failing writes, stray and late answers, the end of the input and Close race for the pending table: each call gets its own answer or none, none is lost, Close releases everybody, and the callers see what `RemoteCalls` promises |
| Parts | `Parts.cfg` | `ListedIsWhole`, `UserFilesSurvive` (Workspace), `HistoryIsWhole` (SessionLog), `RunIsTold` (Recall), `DelegatedWorkIsKept` (Delegation), `ConsentIsGivenInView`, `VerifiedThisTurn` (Console), `VerifiedMeansChecked`, `TerserUnderPressure` (ToolOutcome), `PromotionsLast` (Release) | what outlives a process is whole when it is read, whatever was killed or ran beside it; consent is given in view, and what is shown as verified was checked |
| WorkspaceUndo (counterexample) | `WorkspaceUndo.cfg` | `RollbackUndoes` | the undo of a tool leaves what the tool changed and reverts what the user had changed before it |
| ToolFailure (counterexample) | `ToolFailure.cfg` | `FailureIsFedBack` | a tool call that failed reaches the model as an empty text and a title that calls it completed |

Each property of a passing run has a mutant, marked as such beside
the definition it would replace, under which TLC finds the property violated.
`CHECK_DEADLOCK FALSE` is said where the instance comes to an end: all prompts or
calls are used up, or nobody is obliged to do anything more.

What some properties leave out is part of what they say. `PromptsStartInOrder`
exempts a prompt entered between the Error and the Done of a failing run
(`overtaking`), `UserFilesSurvive` a listing that failed before the tool, files
tracked then, and files ignored then that a change of `.gitignore` brings into the
second listing; `HistoryIsWhole` logs that miss an event, and the text another process
talked over; `ConsentIsGivenInView` an Enter on an empty line, which approves whatever it
was meant for; `VerifiedThisTurn` a run whose start the bus dropped, `VerifiedMeansChecked` diagnostics, `TerserUnderPressure`
`git_diff` below half of the window, `PromotionsLast` files overwritten by a command
that had read them before. Section 6 says what happens in those cases.

## 4. Bounds

Every bound is a CONSTANT of its module and named as such.

- *ContextOracle*: three ids and one summary, a window of 10 with sizes 4 and 6
  (safe boundary 8): three live entries overflow it, one must go, and which one
  depends on the order. One summary is enough for a dangling record, for an
  expired entry being overwritten, and for a second compression of a source to
  be refused (ids are drawn once). The proofs need no bound.
- *AgentLoop*: two runs so that one starts from the history of another; two
  steps so that a tool turn or a re-entry is followed by an answer or by the
  limit; one re-entry so that the gate gives up; a channel of one place so that
  it is full; two chunks so that a response mixes text and calls or makes two
  calls; one retry of the request.
- *ToolApproval*: three calls (on the panel, on its way, being asked), a channel
  of one place, two seconds (a tick that counts and one that denies).
- *Session*: the CLI's prompt and two more (one queued behind another in either
  queue), one goal, clear, interrupt and re-entry. The smaller
  instance carries the counterexample.
- *McpClient*: two requests and a notification (one holds the write lock, one
  waits for it, one waits for its answer), two server messages with ids 1 and 2:
  an answer may be repeated, come before its request, or after its caller has
  gone. The proofs need no bound.
- *Parts*. Workspace: two files, one the .gitignore that hides the other while it is
  there, and one of the agent's own,
  one content (staging, untracking and deleting make the rest), one tool with one
  change, two edits, one undo: a file may be created, untracked, edited and deleted
  between snapshot and undo; the proofs need no bound. SessionLog: two sessions, two
  processes, one after the other or at once, a subscription of three; seven events
  published and writes failed together, which is what one process takes to talk another
  over and be noticed: two context maps, two starts, a Done between two pieces of an
  answer, and an end behind it. A process may append behind a torn line of the other,
  resume the other, or resume itself. Recall: two
  notes, two skills (one built in), three choices, one failing write, two runs.
  Delegation: two tasks, so that the forwarder of the first runs beside the second.
  Console: two runs with one call each, one request, an event buffer of two, so that
  events are dropped. ToolOutcome: all tools, all outcomes; sizes and usages on both
  sides of each limit. Release: two directories, two commands at once, one edit by
  hand, four recorded sessions. `Contents`, `Ids` and `Processes` are
  symmetric: no definition tells their members apart.

## 5. Fairness

- *AgentLoop*: the loop and the stream's goroutine are scheduled; the step timer
  fires (`context.WithTimeout` per step); the total timer is only relied on
  while the judge is asked, whose only bound it is. The server and the judge owe
  nothing. A tool call returns by its own
  timeout (an MCP call blocked in its Write does not: see 6). Once its context is done, a
  request or a read returns (net/http).
- *ToolApproval*: executor, bridge, UI and timers; the user owes nothing.
- *Session*: the UI, the run and each case of the runtime's select. Go picks
  among ready cases at random, so that a case ready for ever is taken.
- *McpClient*: a caller's own steps, the delivery of a message in hand, both
  failAlls and the teardown are scheduled; once the transport is down, blocked
  writes fail and the input ends (the process is killed, its pipes closed). The
  server owes nothing, neither an answer nor to read what is written to it; no
  context need end, no call need be made, and Close need not be called.

No fairness is assumed where only safety is checked.

## 6. Findings

Where the code and what the repository says of it disagree; each run below ends in
a counterexample.

- **ContextOraclePins** (`src/internal/context/oracle.go:150`, doc code divergence): internal/context/oracle.go:87 says "pinned items → never demoted or compressed" (and oracle.go:196 "are never demoted"). Review decides from a snapshot and lets go of the lock; RunOracleStep then removes the demoted ids without looking at them again, and Update puts back the copy the review took: an item pinned in between (main.go:441, another goroutine) is removed, or loses its pin. The run needs no keyword and no compression to show it.
- **AgentLoopAnswer** (`src/internal/agent/agent.go:249`, code bug): internal/agent/agent.go:137 says "If there are no tool calls, the loop ends (the model produced a final answer)", agent.go:281 "If the model produced no tool calls it gave a final answer". When the step context is done, sendModelEvent (client.go:292) may drop the Err, the tool calls and the Done, the goroutine closes the channel, and the loop takes the closed channel for the end of an answer: a step that timed out returns a truncated text, or none, as the final answer with a nil error.
- **ToolApprovalTicks** (`src/internal/tui/model.go:1500`, code bug): internal/tui/model.go:515 says "Arm exactly one countdown tick loop on entry into approval mode. Without the guard [...] the countdown would drain N× too fast (auto-denying early)". finishApproval (model.go:1037) and a new EventApprovalNeeded (model.go:1500) reset countdownTicking while the tick of the old loop is still in flight: a request that arrives within that second is counted down by two loops and auto-denied in half its time.
- **SessionGoal** (`src/cmd/mimo/main.go:589`, code bug): cmd/mimo/main.go:583 tells the user "goal set: ... agent will not stop until an independent judge confirms it" (README.md:324 "an independent judge gates stopping until the condition is genuinely met"). applyControl clears currentGoal on any inactive GoalUpdate without comparing its Condition: when a run with an older goal is closed after the user set a new one, the new goal is wiped and the next prompts run ungated.
- **WorkspaceUndo** (`src/internal/artifact/rollback.go:112`, code bug): docs/QUICKSTART.md:234 says "If a tool mutates your workspace and you want to undo", rollback.go:81 "reverse-applying the stored git diff (undoing tracked-file modifications)", docs/KNOWN_LIMITATIONS.md:21 "Rollback covers tracked modifications and tool-created files". The stored diff is the one git diff gave before the tool ran (executor.go:500): it holds what the user had changed by then. Applied in reverse it reverts the user's edits and leaves what the tool did to tracked files; on a clean tree it is empty and restores nothing. The run shows a tool that changes a tracked file, and the file after the undo as the tool left it.
- **ToolFailure** (`src/internal/agent/agent.go:399`, code bug): agent.go:416 writes into the trace "Tool execution reported an error; it has been fed back to the model.", and the system prompt (agent.go:124) promises "its result will be fed back to you". The tool message carries result.Content only, which is empty for refused arguments, failing reads and writes and unknown tools, and says "Applied patch" of a patch that failed; result.Error is not in it. What else the model sees is the observation's title in the next system prompt, never its RiskDelta, and that is "write_file completed" for a failed write (summarizers.go:782), "<name> completed" for an unknown tool, and the like for memory and skill. In the run a call that failed leaves no word of it in what the model reads.

Observations, each met while modelling; either no document contradicts them or the
properties exempt them by name.

- *Waiting.* An MCP server that stops reading blocks the caller in `Write` under
  `writeMu`, where no context is looked at, and everyone behind it, until `Close`
  (`internal/mcp/client.go:175`). The wait for an approval does not look at the
  context either: an interrupted run waits for the user or the approval timeout
  (`internal/tools/executor.go:148`).
- *Order of prompts.* README.md:87 promises a FIFO queue. EventError already sets
  `running` to false and the Done that sends the queue comes after it
  (`internal/tui/model.go:1443`): a prompt entered between the two overtakes the
  queued ones.
- *The panel.* A request that arrives while a prompt is being typed discards the
  prompt (`internal/tui/model.go:1493`) and takes the keys that follow: the Enter meant
  for the prompt is then an empty line, which approves (`model.go:565`), and a rest of the
  prompt that reads as an answer is one. docs/QUICKSTART.md:98 documents that Enter
  approves; nothing says when an Enter is the panel's. `ConsentIsGivenInView` covers what
  had been typed before, not this. A request that arrives under an overlay stays hidden
  while its countdown runs.
- *Results.* The result of an executed call is published twice (`executor.go:208`,
  `agent.go:386`): the log has both, so that a resumed conversation has the tool message
  twice, and the second may make a row of its own.
- *Rollback.* When `git ls-files` fails before the tool, every untracked file counts
  as created and the undo deletes it (`executor.go:576`). When the tool, or the user
  beside it, changes `.gitignore` between the two listings (`executor.go:517`, `531`), a
  file that was there and ignored when the tool began is listed as created
  (`executor.go:530`), and the undo deletes it (`rollback.go:124`). `write_file` reports an
  error for a file that is written when its artifact cannot be stored.
- *Evidence.* `diagnostics` does not look at the exit codes of its toolchains: a
  missing one, or one that fails with lines the parser does not know, is a success
  and counts as evidence.
- *Digests.* `git_diff` names every file at the warning level and only five below
  it; `rg` lists any number of files.
- *Memory.* `LoadBounded` keeps the oldest lines and the global file comes first:
  past 6000 bytes newly recorded facts do not apply (`main.go:651` says they do).
  The anchor in the Context Map is not refreshed after the tool's or another
  process's notes. Two processes that create MEMORY.md at once leave a second header
  in it. The UI says "recorded" before anything is written.
- *Memory tool.* `memorytool.go:43` says that it needs no approval; with a policy,
  which there always is, adding asks for one, and only `action=add` is graded as a
  mutation although `append`, `+` and a bare note write as well.
- *Sub-agents.* The forwarder may publish "running" behind the task's outcome.
- *Resume.* A log without a context snapshot ends the process (`main.go:955`). Two
  processes may append to one log (`main.go:270`, `log.go:185`). `ExtractHistory` does
  not know whose an event is: the Done of one stops it collecting while the other is
  still answering, and it drops that text without a word (`summary.go:152`, `188`) until
  the next start or tool result; what both say at once may end up in one message.
- *Models.* docs/MODEL_UPDATE_POLICY.md:50 restores the previous default by accepting
  it again, which `AcceptCandidate` refuses: it is no candidate. With `-workspace`
  elsewhere the promotion is saved where the next command does not look for it. A
  promotion writes the whole merged registry, so that later changes of the user's
  file are shadowed. The gate does not look at which model the candidate's session
  was recorded with.

## 7. Proofs

The theorems below hold for every value of the constants that meets the module's
ASSUME; nothing else is assumed.

- **ContextProofs** (`ContextAssumption`, `OracleAssumption`). The inductive
  invariant `IInv` is `TypeOK`, `OrderIsLinear`, `LineageRecorded` and three
  strengthenings. `DrawnFirst`: an id of a compression artifact is in the map, or
  named by an item, only after it was drawn; otherwise a fresh artifact could
  capture sources that name it already. `OTypeOK`: the review in flight is typed.
  `StaleLineage`: a promotion that waits to be applied obeys the lineage rule the
  map obeys, although it is a stale copy; otherwise putting it back could make an
  item name an artifact whose record does not list it. `LineageKept` is what every
  operation of the manager leaves of this, one lemma per operation, one step per
  action. From `IInv` follow `TypeCorrect`, `OrderStaysLinear`,
  `LineageStaysRecorded`; `ProtectedStay` and `NoRecreation` are action properties,
  proved step by step; `CompressionNeedsKeywords` is arithmetic on the score.
  `FiniteMap`, kept by every step, makes the tokens in use a sum: the fold of
  `MapThenSumSet` is shown to be the cardinality of a set with one unit for each
  token of an item (`FoldIsSum`), so that the facts about cardinalities hold of sums
  and no induction is needed. `EvictionIsPolicy` takes the oldest candidate that is
  left and the youngest that is gone (`FirstInOrder`, `LastInOrder`), what was left
  when each was looked at, and `LeftFalls`; `AdmittedItemsFit` is `UsedAfterPut`.
- **AgentLoopProofs** (`StreamAssumption`, `LoopAssumption`). `GateInv` adds to
  `AnswerPassedTheGate` that a run that is on has no outcome yet and that the judge
  is only before a run with a goal; without it `Settle` could close a goal that does
  not exist. `GateHolds` follows, and `LoopImplementsAgentRun`: each step of the loop,
  the stream or the timers maps to a step of `AgentRun` or a stutter.
  `Conversation` says where the message that asked for the calls being executed is
  and that the answers so far are behind it, in order and nothing else
  (`TurnAtWork`), and that all earlier messages are settled; each way out of the loop
  has a step (`ConversationIsWellFormed`). `TraceInv` ties the running trace to the
  places of the loop that have one (`NoTraceIsLeftRunning`). `Flow` accounts for
  every event between the goroutine and the loop: what is in the channel and still to
  be sent is the rest of the response as long as the step is live, calls before the
  Done (`NothingIsLostWhileLive`); once the step's context is done it says nothing,
  which is where the counterexample of `AgentLoopAnswer` lives.
- **SessionProofs** (no assumption on the constants is needed). `Base` is the types
  and `OneRunAtATime` itself. `InOrder` lays the prompts in one line: started, in the
  runtime's queue, in its subscription, in the UI's queue; of two on their way the one
  ahead was submitted first or overtook, and none was lost. From it come
  `NoPromptStartsTwice` and `PromptsAreFirstInFirstOut`. `GoalKnown` speaks of what the
  runtime would hold once it has drained its control queue (`Drained`), a fold over
  the events on their way: `FoldIsDecided` computes it as what the last event that
  decides says, so that an event appended or taken has a known effect. A closed goal
  is never that result (`NoRunStartsResolved`). `NoStaleVerdict` needs the UI's guard
  alone.
- **ToolProofs** takes a tool call from its approval to its undo.
  - *ToolApproval* (`ApprovalAssumption`). `TInv` says that panel, UI events and
    approval channel hold requests in the order of their calls and each once
    (`InOrder`), and that nothing has been said of a request on its way or not yet
    asked (`Unanswered`). Without the order a request could return to the panel after
    its answer, and a denial be followed by an allowance. `ConsentIsItsOwn` and
    `UiIsFree` follow.
  - *Workspace* (no assumption on the constants is needed: the rules may hide any files,
    by any content). `WInv` has the types, that
    metadata is written behind the payloads (`Complete`), that the snapshot has seen
    what was untracked and not ignored when it was listed (`Seen`), that no list of
    created files holds what it must spare (`Honest`), and that an undo under way deletes
    only what the list of its artifact holds (`UndoOfOne`); the list was made long before,
    by other rules perhaps, so that without `Honest` nothing could be said when it is
    used. `WhatIsListedIsWhole` and `UserFilesAreSpared` follow; the latter exempts what
    the property does, and nothing more.
- **LogProofs** (`LogAssumption`). `HistoryIsWhole` compares what `ExtractHistory` makes
  of a log, a fold, with what the log says. `FoldInv` is the invariant of the fold, for
  each prefix of any numbered log: everything heard while the fold was collecting is in
  the messages or in the text under way, once and in order, the messages before and the
  text after the last event that ends a message, and no message runs over such an event;
  `FoldKeeps` has a case for each type of event. What was not heard is a matter of how
  processes write: in a log where text is of a run that its process has open (`Voiced`), a
  piece that was not heard is one that another process's Done cut off
  (`UnheardIsTalkedOver`). With the order of each process's events (`InOrder`) this makes
  the property of a log (`ToldWhole`). `LogInv` is the invariant of the system: each log
  without a gap and without a bad line is `Fine`, and the subscription of every process at
  work on it `Fits` behind it, whatever the others append first: a line of one's own is
  `OwnLine`, a line of another's `OthersLine`, which must not close the run one has open.
  Whatever drops, tears or glues a line puts the session in `gap`, or leaves a line that
  does not parse, in the same step.
- **McpProofs** (`McpAssumption`). `MInv` adds to the checked properties that ids are
  drawn once (`IdsUnique`), that they travel unchanged from the table to the caller
  (`IdsTravel`), that a call not registered has no message anywhere (in
  `PlaceByPlace`), and that the failAll which found the client open is the only one to
  send and the one to close `done` (`OneFailAll`). One lemma per place a message moves
  from; `EachItsAnswer`, `NoneLostNoneTwice`, `NothingLeftBehind`, `NoSecondClose`
  follow. `ClientImplementsRemoteCalls`: the entry of an open call is in the table exactly
  as long as nothing is decided (`InTableIsUndecided`), so that taking one entry is
  `Answer` and taking all is `ShutDown`; the steps that move messages afterwards are
  stutters. That needs two facts more in `MInv`: the table of a closed client is empty,
  and a call which cleans up still has its message somewhere.
- **ConsoleProofs** (`ConsoleAssumption`). `LineIsTheAnswer`: while the panel is up, any
  text in the line was begun after the request on it came. `ConsentInView` takes this and the
  guard that no overlay is open where keys reach the input. `TurnInv`: the UI's buffer
  holds its events run by run (`Ordered`), each announced run's AgentStarted in front
  of its other events (`Starts`), also when the buffer is full and the bus cuts what is
  published; and the rows of the turn that are done, and the claims of the answer, are
  of the run whose events are being taken (`LedgerOfTurn`). Hence
  `EvidenceIsOfThisTurn`.
- **PartsProofs** takes four of the parts that share no state.
  - *Delegation*. `WorkIsSomewhere` follows the child's work from the worktree to the
    diff and to the artifact, stage by stage; `NoWorkIsLost` is its last clause.
  - *Release* (`ReleaseAssumption`). `PromotionInv`: the file of a saved promotion can be
    loaded by itself, holds it and names a default promoted there (`Standing`), and a
    command under way carries what was saved where it started (`Carried`). Without the
    second part a save from an older registry could drop a promotion that still counts.
    `PromotionsAreFound` merges the two files (`ProjectFileWins`).
  - *ToolOutcome* (`OutcomeAssumption`). `CheckInv`: from the return of a tool that backs
    claims, a result without error means a check that was made (`PassedChecksWereMade`).
    `FullerIsTerser` is the length of each summarizer's digest as a function of the
    level (`DigestsFall`), and the level as one of the usage (`PressureRises`).
  - *Recall* (`RecallAssumption`). `FileInv`: the project file holds the recorded notes, in
    their order, however the two steps of writers interleave. `PendingInv`: a note on its
    way is nobody else's and not yet recorded. `NotesTold`: what the run was told is the
    file as it was, or its first lines. `SkillInv`: what the UI shows is the last skill
    event on its way, or what the runtime has applied. `CutOnce` finds the place where
    `LoadBounded` cuts as the greatest prefix that fits. `RunsAreTold` follows.

The assumptions are what the code makes so: sizes, limits, capacities and bounds are
natural numbers; the manager seeds finitely many anchors; `-model-accept` refuses an
empty name (`main.go:1063`), so that none is a model; no note reads like the headers and
marks `Append` writes, or like the global file; a line that does not parse is no event.
`Window` may be anything:
`BudgetFromContext` takes one that is not positive for no budget, which is "safe"
(`summarizer.go:47`).

The proof of `RunsAreTold` corrected the property: its clause on skills compared with the
files missing now, not with those missing when the run was started, and a long enough
behaviour, beyond the run's bound, broke it after `/skill clear`. It is stated of `since`
now.

Inductions over data, which the provers cannot take from the library, are replaced by
the least element of a set that would be a counterexample (`LeastNatural`,
`GreatestOf`), or by a closed form that the recursion is shown to meet (`FoldIsDecided`,
`FoldIsSum`). A fold with no closed form is first shown to exist: the library defines it
by a CHOOSE, so that nothing is known of it before some function meets its equations, and
no least length is without one (`FoldExists`, `FlattenExists`); after that it is taken
apart from its last element.

Out of the prover's reach and left to TLC: liveness under fairness and everything about
ENABLED (`EveryRunEnds`, `PanelGoesAway`, `CallsAreSettled`, `PromptsRun`,
`CloseReleasesCalls`). Every invariant and every action property of the passing runs is
proved. The six counterexamples are of course TLC's. No module
declares a RECURSIVE operator.

## 8. Not modelled

See `components` for each part and its reason. Within the modelled parts: wording
and layout, JSON and HTTP, the mock stream, the multimodal fallback model, the
loop's truncation of tool results, `RunOnce`; of the UI the context pane, the
activity board, scrolling and all rendering; of the tools their arguments, the
parsers of compiler output and the commands themselves; the text patterns of the
policy; the shutdown; Subscribe and Unsubscribe beside Publish. Configuration and
capabilities keep no state; provenance, counterfactual, the golden tasks and the
benchmarks are analyses of a finished run.

## 9. Plan

Done: every module of section 2 with its run; every invariant, every action property and
every refinement of the passing runs proved.

Next, modelling, where it would add something: the context pane's selection beside
arriving snapshots, the bus with its subscribers coming and going, and the shutdown
of the runtime beside a run that still asks.
