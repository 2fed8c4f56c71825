------------------------------ MODULE ToolOutcome ------------------------------
(***************************************************************************)
(* What is known of a tool call afterwards, and by whom.  A call passes    *)
(* the permission gate (internal/tools/executor.go, internal/config), the  *)
(* tool does something or does not (builtins.go and the other tools), its  *)
(* summarizer turns the result into an observation whose length depends on *)
(* how full the context window is, the agent loop puts the result's text   *)
(* into the conversation and the observation's into the context map, and   *)
(* the UI files the call as done or failed.  A text is here only what a    *)
(* reader learns from it: "success", "failure", or nothing ("none").       *)
(***************************************************************************)
EXTENDS Integers, FiniteSets

CONSTANTS
  Sizes,   \* numbers of files, lines, matches in a tool's output
  Window,  \* tokens of the context window
  Usages   \* how many of them may be in use

ASSUME OutcomeAssumption == Sizes \subseteq Nat /\ Window \in Int /\ Usages \subseteq Nat

Tools     == {"shell", "run_test", "rg", "apply_patch", "git_status", "git_diff", "git_log",
              "read_file", "list_dir", "write_file", "artifact_read", "diagnostics",
              "memory", "skill", "subagent", "mcp"}
Evidence  == {"run_test", "diagnostics"}   \* trust.rules: verifies

VARIABLES
  toolName,    \* the tool asked for; "unknown" when no such tool is registered
  stage,       \* how far the call has come
  happened,    \* what the tool met with in the world
  result,      \* core.ToolResult
  size,        \* how much there is to summarize: groups, and items of each
  inUse,       \* tokens in use when it is summarized
  title, risk, \* what the observation's title and RiskDelta say
  heard,       \* what the model can read of the call
  row          \* the status the UI's ledger files the call under

ovars == <<toolName, stage, happened, result, size, inUse, title, risk, heard, row>>

NoResult == [content |-> "none", exit |-> 0, error |-> FALSE, artifact |-> FALSE]

OInit ==
  /\ toolName \in Tools \union {"unknown"}
  /\ size \in Sizes \X Sizes /\ inUse \in Usages
  /\ stage = "asked" /\ happened = "nothing" /\ result = NoResult
  /\ title = "none" /\ risk = FALSE /\ heard = {} /\ row = "running"

-----------------------------------------------------------------------------
(* Safety and EvaluatePolicy: the lists a call matches, then the default   *)
(* of its grade.  graver: a command that detectShellRisk calls destructive,*)
(* memory with action=add.  cmd/mimo and sub-agents always have a policy,  *)
(* so that the tool's own Permission is never what decides.                *)
Grade(graver) ==
  IF toolName \in {"write_file", "apply_patch", "subagent", "mcp"} THEN "workspace"
  ELSE IF toolName = "memory" /\ graver THEN "workspace"
  ELSE IF toolName = "shell" /\ graver THEN "destructive"
  ELSE IF toolName \in {"shell", "run_test"} THEN "shell"
  ELSE "read"

Default == [read |-> "allow", workspace |-> "ask", shell |-> "ask", destructive |-> "deny"]

Permission(lists, graver) ==
  IF "allow" \in lists THEN "allow"
  ELSE IF "deny" \in lists THEN "deny"
  ELSE IF "confirm" \in lists THEN "ask"
  ELSE Default[Grade(graver)]

Failed(content) == [content |-> content, exit |-> 1, error |-> TRUE, artifact |-> FALSE]
NotRun(r) ==   \* executorObservation
  /\ stage' = "summarized" /\ result' = r
  /\ title' = IF r.content = "none" THEN "success" ELSE r.content
  /\ risk' = TRUE
  /\ UNCHANGED <<toolName, happened, size, inUse, heard, row>>

NotRegistered == stage = "asked" /\ toolName = "unknown" /\ NotRun(Failed("none"))

Gate ==
  /\ stage = "asked" /\ toolName # "unknown"
  /\ \E lists \in SUBSET {"allow", "deny", "confirm"}, graver \in BOOLEAN,
        consent \in {"given", "denied", "timed out", "channel full", "nobody to ask"} :
       LET p == Permission(lists, graver)
       IN \/ /\ p = "allow" \/ (p = "ask" /\ consent = "given")
             /\ stage' = "running"
             /\ UNCHANGED <<toolName, happened, result, size, inUse, title, risk, heard, row>>
          \/ /\ p = "deny" \/ (p = "ask" /\ consent # "given")
             /\ NotRun(Failed("failure"))

-----------------------------------------------------------------------------
(* Run.  What may happen to each tool; stored is whether the artifact with *)
(* its raw output could be written.                                        *)
Happenings ==
  {"works", "fails"}
  \union (IF toolName \notin {"run_test", "git_status", "git_diff", "git_log", "mcp"} THEN {"refused"} ELSE {})
  \union (IF toolName = "rg" THEN {"no match"} ELSE {})
  \union (IF toolName \in {"subagent", "mcp"} THEN {"not connected", "fails with text"} ELSE {})
  \union (IF toolName = "subagent" THEN {"no changes"} ELSE {})
  \union (IF toolName = "diagnostics" THEN {"fails unrecognised", "skipped"} ELSE {})

Succeeded(artifact) ==
  [content |-> "success", exit |-> 0, error |-> FALSE, artifact |-> artifact]

(* A command that ended and whose output was stored; the raw output is all *)
(* in the artifact, a failure to store it all that is told.                *)
Ran(stored, exit, error, content) ==
  IF ~stored THEN [Failed("none") EXCEPT !.exit = exit]
  ELSE [content |-> content, exit |-> exit, error |-> error, artifact |-> TRUE]
Exit(h) == IF h = "works" THEN 0 ELSE 1

FaultyShellResult(h, stored) ==   \* mutant: a non-zero exit is no error, as in rg
  Ran(stored, Exit(h), FALSE, IF h = "works" THEN "success" ELSE "failure")
ShellResult(h, stored) ==   \* shell, run_test
  Ran(stored, Exit(h), h # "works", IF h = "works" THEN "success" ELSE "failure")

RgResult(h, stored) ==   \* exit 1 is no match
  Ran(stored, Exit(h), h = "fails", IF h = "fails" THEN "failure" ELSE "success")

PatchResult(h, stored) ==   \* "Applied patch" is what it says of a patch that failed
  Ran(stored, Exit(h), h # "works", "success")

GitStatusResult(h, stored) ==
  Ran(stored, Exit(h), h # "works", IF h = "works" THEN "success" ELSE "failure")

GitResult(h, stored) ==   \* git_diff, git_log: runGitCommand
  Ran(stored, Exit(h), h # "works", IF h = "works" THEN "success" ELSE "failure")

ReadFileResult(h, stored) ==
  IF h = "works" /\ stored THEN Succeeded(TRUE) ELSE Failed("none")

WriteFileResult(h, stored) ==   \* the file stays written when the artifact is not
  IF h = "works" /\ stored THEN Succeeded(TRUE) ELSE Failed("none")

ListDirResult(h, stored) ==
  IF h = "works" /\ stored THEN Succeeded(TRUE) ELSE Failed("none")

ArtifactResult(h) ==
  IF h = "works" THEN Succeeded(TRUE) ELSE [Failed("none") EXCEPT !.artifact = TRUE]

(* Errors are the lines its parser knows as errors: the exit codes of vet, *)
(* build and the other toolchains go into the artifact only.               *)
DiagnosticsResult(h, stored) ==
  IF ~stored THEN Failed("none")
  ELSE IF h = "fails" THEN [Failed("failure") EXCEPT !.artifact = TRUE]
  ELSE Succeeded(TRUE)

MemoryResult(h) == IF h = "works" THEN Succeeded(FALSE) ELSE Failed("none")
SkillResult(h)  == IF h = "works" THEN Succeeded(FALSE) ELSE Failed("none")

NotConnected == [NoResult EXCEPT !.content = "failure"]
SubAgentResult(h, stored) ==
  IF h = "not connected" THEN NotConnected
  ELSE IF h = "no changes" THEN Succeeded(FALSE)
  ELSE IF h = "works" /\ stored THEN Succeeded(TRUE)
  ELSE IF h = "works" THEN Failed("failure")
  ELSE Failed(IF h = "fails" THEN "none" ELSE "success")   \* its last words

ExternalResult(h) ==
  IF h = "not connected" THEN NotConnected
  ELSE IF h = "works" THEN Succeeded(FALSE)
  ELSE Failed(IF h = "fails" THEN "none" ELSE "failure")

ToolResult(h, stored) ==
  IF h = "refused" THEN Failed("none")
  ELSE CASE toolName \in {"shell", "run_test"}   -> ShellResult(h, stored)
         [] toolName = "rg"                      -> RgResult(h, stored)
         [] toolName = "apply_patch"             -> PatchResult(h, stored)
         [] toolName = "git_status"              -> GitStatusResult(h, stored)
         [] toolName \in {"git_diff", "git_log"} -> GitResult(h, stored)
         [] toolName = "read_file"               -> ReadFileResult(h, stored)
         [] toolName = "write_file"              -> WriteFileResult(h, stored)
         [] toolName = "list_dir"                -> ListDirResult(h, stored)
         [] toolName = "artifact_read"           -> ArtifactResult(h)
         [] toolName = "diagnostics"             -> DiagnosticsResult(h, stored)
         [] toolName = "memory"                  -> MemoryResult(h)
         [] toolName = "skill"                   -> SkillResult(h)
         [] toolName = "subagent"                -> SubAgentResult(h, stored)
         [] toolName = "mcp"                     -> ExternalResult(h)

Run ==
  /\ stage = "running"
  /\ \E h \in Happenings, stored \in BOOLEAN :
       happened' = h /\ result' = ToolResult(h, stored)
  /\ stage' = "ran"
  /\ UNCHANGED <<toolName, size, inUse, title, risk, heard, row>>

-----------------------------------------------------------------------------
(* The summarizers, wired to eleven tools; the rest use summarizeResult.   *)
(* shown: how many lines or names the title carries of g groups with m     *)
(* items each, by the level of context pressure.                           *)
Level(usage) ==   \* BudgetFromContext
  IF Window <= 0 THEN "safe"
  ELSE IF 10 * usage >= 8 * Window THEN "critical"
  ELSE IF 10 * usage >= 5 * Window THEN "warning"
  ELSE "safe"

Least(a, b) == IF a < b THEN a ELSE b
Of(level, critical, warning, safe) ==
  CASE level = "critical" -> critical [] level = "warning" -> warning [] OTHER -> safe

Summary(says, risky, shown) == [says |-> says, risk |-> risky, shown |-> shown]
ErrorOr(r, shown) ==   \* what most of them do first: an error is all there is to say
  IF r.error THEN Summary("failure", TRUE, 0) ELSE Summary("success", FALSE, shown)
NotZero(r) == r.error \/ r.exit # 0

ShellSummary(r, level, g) ==
  Summary(IF NotZero(r) THEN "failure" ELSE "success", NotZero(r),
          IF r.error THEN 0 ELSE Least(g, Of(level, 0, 10, 20)))

RgSummary(r, level, g, m) ==
  ErrorOr(r, g * (1 + Of(level, 0, Least(3, m), Least(10, m))))

HeadAndTail(n, k) == Least(n, k) + (IF n > k THEN Least(k, n - k) ELSE 0)
ReadFileSummary(r, level, g) ==
  ErrorOr(r, Of(level, 0, HeadAndTail(g, 20), HeadAndTail(g, 50)))

ListDirSummary(r, level, g) == ErrorOr(r, Of(level, 0, Least(30, g), g))

GitDiffSummary(r, level, g, m) ==
  ErrorOr(r, Of(level, 0, g, Least(5, g) * (1 + m)))

GitLogSummary(r, level, g) == ErrorOr(r, Least(g, Of(level, 3, 5, 10)))

StatusGroups(g, limit) ==   \* formatStatusGroups: no limit is 0
  3 * (IF limit = 0 THEN g ELSE Least(limit, g))
FaultyGitStatusSummary(r, level, g) ==   \* mutant: the limit 0 is taken for the shortest
  ErrorOr(r, StatusGroups(g, Of(level, 0, 5, 20)))
GitStatusSummary(r, level, g) ==
  ErrorOr(r, Of(level, 0, StatusGroups(g, 5), StatusGroups(g, 0)))

RunTestSummary(r, level, g) ==   \* the failures; an error goes into the risk only
  Summary(IF r.exit # 0 THEN "failure" ELSE "success", NotZero(r),
          Of(level, 0, Least(10, g), g))

WriteFileSummary(r) == Summary(IF r.content = "none" THEN "success" ELSE r.content, FALSE, 1)

ApplyPatchSummary(r, level, g) == ErrorOr(r, Of(level, 0, g, g))

ArtifactReadSummary(r, level, g) ==   \* in hundreds of characters
  Summary(IF r.error THEN "failure" ELSE "success", FALSE,
          IF r.error THEN 0 ELSE Least(g, Of(level, 2, 5, 10)))

SummarizeResult(r) ==   \* "<tool> completed"
  Summary(IF r.content = "none" THEN "success" ELSE r.content, NotZero(r), 1)

ExternalSummary(r) ==   \* normalizeObservation: without a text, "MCP tool stub executed"
  Summary(IF r.content = "none" THEN "success" ELSE r.content, FALSE, 1)

SummarizeTool(r, level) ==
  LET g == size[1]
      m == size[2]
  IN CASE toolName = "shell"         -> ShellSummary(r, level, g)
       [] toolName = "rg"            -> RgSummary(r, level, g, m)
       [] toolName = "read_file"     -> ReadFileSummary(r, level, g)
       [] toolName = "list_dir"      -> ListDirSummary(r, level, g)
       [] toolName = "git_diff"      -> GitDiffSummary(r, level, g, m)
       [] toolName = "git_log"       -> GitLogSummary(r, level, g)
       [] toolName = "git_status"    -> GitStatusSummary(r, level, g)
       [] toolName = "run_test"      -> RunTestSummary(r, level, g)
       [] toolName = "write_file"    -> WriteFileSummary(r)
       [] toolName = "apply_patch"   -> ApplyPatchSummary(r, level, g)
       [] toolName = "artifact_read" -> ArtifactReadSummary(r, level, g)
       [] toolName = "mcp"           -> ExternalSummary(r)
       [] OTHER                      -> SummarizeResult(r)

Summarize ==
  /\ stage = "ran"
  /\ LET s == SummarizeTool(result, Level(inUse))
     IN title' = s.says /\ risk' = s.risk
  /\ stage' = "summarized"
  /\ UNCHANGED <<toolName, happened, result, size, inUse, heard, row>>

(* Loop: the result's text is the tool message; the observation's title is *)
(* in the next system prompt if the context map admits it.  The UI files   *)
(* the call by its Err.                                                    *)
Tell ==
  /\ stage = "summarized"
  /\ \E admitted \in BOOLEAN :
       heard' = {result.content} \union (IF admitted THEN {title} ELSE {})
  /\ row' = IF result.error THEN "failed" ELSE "done"
  /\ stage' = "told"
  /\ UNCHANGED <<toolName, happened, result, size, inUse, title, risk>>

ONext == NotRegistered \/ Gate \/ Run \/ Summarize \/ Tell
OSpec == OInit /\ [][ONext]_ovars

-----------------------------------------------------------------------------
(* "success claims are backed by a tool run" (model.go:937): what the      *)
(* ledger counts as a passed check was one.  For run_test always; not for  *)
(* diagnostics that had no toolchain, or whose toolchain failed with lines *)
(* that diagnostics.go does not take for errors.                           *)
VerifiedMeansChecked ==
  row = "done" /\ toolName \in Evidence =>
    happened \in {"works"} \union (IF toolName = "diagnostics"
                                   THEN {"fails unrecognised", "skipped"} ELSE {})

(* "Each summarizer honours the BudgetLevel to produce progressively       *)
(* terser observations" (summarizers.go:2): the fuller the window, the     *)
(* shorter the digest, whatever the output.  The one exception is git_diff *)
(* below half: it stops at five files there, and nowhere else.             *)
TerserUnderPressure ==
  \A usage \in Usages : usage >= inUse /\ ~(toolName = "git_diff" /\ Level(inUse) = "safe") =>
    SummarizeTool(result, Level(usage)).shown <= SummarizeTool(result, Level(inUse)).shown

(* "Tool execution reported an error; it has been fed back to the model."  *)
(* (agent.go:416)                                                          *)
FailureIsFedBack == stage = "told" /\ result.error => "failure" \in heard
=============================================================================
