-------------------------------- MODULE Release --------------------------------
(***************************************************************************)
(* How a model becomes the default one, and stays it: the registry         *)
(* (internal/model), its two models.toml files (internal/config) and the   *)
(* replay gate (internal/eval, runGateAccept).  Every mimo command loads   *)
(* the registry once, from the user's file and from that of its current    *)
(* directory, and -model-accept writes the whole of it back, to the file   *)
(* of its workspace.  Nothing locks the files, and os.WriteFile empties    *)
(* one before it fills it.                                                 *)
(***************************************************************************)
EXTENDS Integers, Sequences

CONSTANTS
  Models,      \* model IDs
  Shipped,     \* DefaultRegistry: [default, entries]
  Handwritten, \* models.toml files a user may write
  Dirs,        \* directories: one to start in, one to work on
  Procs,       \* processes
  Recordings,  \* session logs: [tools, failed, done]
  MaxCommands,   \* bound: commands started
  MaxRewrites    \* bound: files written by hand

VARIABLES
  userFile,    \* ~/.mimo-tui/models.toml
  files,       \* <dir>/.mimo/models.toml
  command,     \* what each process has in hand
  starts, edits,
  saved        \* history: <<dir, model>> promoted there and written, undone by nobody

rvars == <<userFile, files, command, starts, edits, saved>>

None == "no model"   \* what the files call it: default = ""
(* runGateAccept: "-model-accept is required".                             *)
ASSUME ReleaseAssumption == None \notin Models

Missing == [kind |-> "missing"]
Broken  == [kind |-> "broken"]   \* no TOML
File(default, first, entries) ==
  [kind |-> "toml", default |-> default, first |-> first, entries |-> entries]
Empty   == File(None, None, <<>>)

-----------------------------------------------------------------------------
(* The registry: entries, a function from some of the model IDs, and the   *)
(* default.  LoadFromFile makes the first entry the default of a file that *)
(* names none, and refuses a file whose default it does not list.          *)
Refused == [default |-> None, entries |-> <<>>, ok |-> FALSE]
LoadFromFile(file) ==
  IF file.kind = "missing" THEN [default |-> None, entries |-> <<>>, ok |-> TRUE]
  ELSE IF file.kind = "broken" \/ (file.default # None /\ file.default \notin DOMAIN file.entries)
  THEN Refused
  ELSE [default |-> IF file.default = None THEN file.first ELSE file.default,
        entries |-> file.entries, ok |-> TRUE]

MergeRegistry(dst, src) ==
  IF ~dst.ok \/ ~src.ok THEN Refused
  ELSE [default |-> IF src.default = None THEN dst.default ELSE src.default,
        entries |-> [m \in DOMAIN dst.entries \union DOMAIN src.entries |->
                       IF m \in DOMAIN src.entries THEN src.entries[m] ELSE dst.entries[m]],
        ok |-> TRUE]

FaultyLoadModelsConfig(dir) ==   \* mutant: the user's file wins over the project's
  MergeRegistry(MergeRegistry(Shipped, LoadFromFile(files[dir])), LoadFromFile(userFile))
LoadModelsConfig(dir) ==
  MergeRegistry(MergeRegistry(Shipped, LoadFromFile(userFile)), LoadFromFile(files[dir]))

SaveToFile(registry) == File(registry.default, registry.default, registry.entries)

AcceptCandidate(registry, m) ==
  [registry EXCEPT !.default = m,
                   !.entries[m] = [channel |-> "default", accepted |-> TRUE]]

-----------------------------------------------------------------------------
(* EvaluateCandidate: the same key tools in the same order, and more than  *)
(* seven tenths of the tools in common, in order.                          *)
KeyTools(tools) == SelectSeq(tools, LAMBDA t : t \in {"shell", "write_file", "apply_patch"})

LcsLength(a, b) ==
  LET lcs[i \in 0..Len(a), j \in 0..Len(b)] ==
        IF i = 0 \/ j = 0 THEN 0
        ELSE IF a[i] = b[j] THEN lcs[i - 1, j - 1] + 1
        ELSE IF lcs[i, j - 1] > lcs[i - 1, j] THEN lcs[i, j - 1] ELSE lcs[i - 1, j]
  IN lcs[Len(a), Len(b)]

Similar(a, b) ==
  LET longer == IF Len(a) > Len(b) THEN Len(a) ELSE Len(b)
  IN longer = 0 \/ 10 * LcsLength(a, b) > 7 * longer

Passed(golden, candidate) ==
  /\ candidate.done /\ ~candidate.failed
  /\ KeyTools(golden.tools) = KeyTools(candidate.tools)
  /\ Similar(golden.tools, candidate.tools)

-----------------------------------------------------------------------------
Idle == [stage |-> "idle"]

RInit ==
  /\ userFile \in {Missing} \union Handwritten
  /\ files = [d \in Dirs |-> Missing]
  /\ command = [p \in Procs |-> Idle]
  /\ starts = 0 /\ edits = 0 /\ saved = {}

(* main: a registry that cannot be loaded ends every command.  old is what *)
(* had been saved when it was read.                                        *)
StartAccept(p) ==
  /\ command[p] = Idle /\ starts < MaxCommands /\ starts' = starts + 1
  /\ \E dir, workspace \in Dirs, m \in Models :
       /\ LoadModelsConfig(dir).ok
       /\ command' = [command EXCEPT ![p] =
            [stage |-> "loaded", registry |-> LoadModelsConfig(dir), model |-> m,
             to |-> workspace, old |-> {s \in saved : s[1] = dir /\ dir = workspace}]]
  /\ UNCHANGED <<userFile, files, edits, saved>>

(* The gate looks at two logs, and not at which model the candidate's was  *)
(* recorded with.                                                          *)
Accept(p) ==
  /\ command[p].stage = "loaded"
  /\ LET c == command[p]
     IN IF /\ \E golden, candidate \in Recordings : Passed(golden, candidate)
           /\ c.model \in DOMAIN c.registry.entries
           /\ c.registry.entries[c.model].channel = "candidate"
        THEN command' = [command EXCEPT ![p] =
               [c EXCEPT !.stage = "saving", !.registry = AcceptCandidate(c.registry, c.model)]]
        ELSE command' = [command EXCEPT ![p] = Idle]
  /\ UNCHANGED <<userFile, files, starts, edits, saved>>

GateFails(p) ==
  /\ command[p].stage = "loaded"
  /\ \E golden, candidate \in Recordings : ~Passed(golden, candidate)
  /\ command' = [command EXCEPT ![p] = Idle]
  /\ UNCHANGED <<userFile, files, starts, edits, saved>>

(* os.WriteFile.  What was saved there after this registry was read is     *)
(* gone, and so is what another directory's registry does not hold.        *)
Elsewhere(dir) == {s \in saved : s[1] # dir}

Truncate(p) ==
  /\ command[p].stage = "saving"
  /\ files' = [files EXCEPT ![command[p].to] = Empty]
  /\ command' = [command EXCEPT ![p].stage = "writing"]
  /\ saved' = Elsewhere(command[p].to)
  /\ UNCHANGED <<userFile, starts, edits>>

Write(p) ==
  /\ command[p].stage = "writing"
  /\ LET c == command[p]
     IN /\ files' = [files EXCEPT ![c.to] = SaveToFile(c.registry)]
        /\ saved' = Elsewhere(c.to) \union c.old \union {<<c.to, c.model>>}
  /\ command' = [command EXCEPT ![p] = Idle]
  /\ UNCHANGED <<userFile, starts, edits>>

(* The process dies, or the disk is full: a part of the text, or none.     *)
Partial(file) ==
  {Empty, Broken} \union
  {File(file.default, file.first, [m \in kept |-> file.entries[m]]) :
     kept \in SUBSET DOMAIN file.entries}
WriteFails(p) ==
  /\ command[p].stage = "writing"
  /\ \E torn \in Partial(SaveToFile(command[p].registry)) :
       files' = [files EXCEPT ![command[p].to] = torn]
  /\ command' = [command EXCEPT ![p] = Idle]
  /\ saved' = Elsewhere(command[p].to)
  /\ UNCHANGED <<userFile, starts, edits>>

EditFile ==
  /\ edits < MaxRewrites /\ edits' = edits + 1
  /\ \E file \in Handwritten \union {Missing} :
       \/ userFile' = file /\ UNCHANGED <<files, saved>>
       \/ \E d \in Dirs :
            /\ files' = [files EXCEPT ![d] = file]
            /\ saved' = Elsewhere(d)
            /\ UNCHANGED userFile
  /\ UNCHANGED <<command, starts>>

RNext ==
  \/ \E p \in Procs :
       StartAccept(p) \/ Accept(p) \/ GateFails(p) \/ Truncate(p) \/ Write(p) \/ WriteFails(p)
  \/ EditFile

RSpec == RInit /\ [][RNext]_rvars

-----------------------------------------------------------------------------
(* "Accepted candidates and default model changes survive restarts."       *)
(* (KNOWN_LIMITATIONS.md:138): whatever the user's own file says by then,  *)
(* a command started where a promotion was saved can read that file, finds *)
(* the model accepted, and has the default that was saved there last.  The *)
(* promotions that do not last are those another command overwrites from a *)
(* registry it had read before, or in another directory, and those lost    *)
(* with the whole file.                                                    *)
PromotionsLast ==
  \A s \in saved :
    LET here == LoadFromFile(files[s[1]])
        loaded == LoadModelsConfig(s[1])
    IN /\ here.ok
       /\ loaded.ok =>
            /\ loaded.entries[s[2]] = [channel |-> "default", accepted |-> TRUE]
            /\ <<s[1], loaded.default>> \in saved
=============================================================================
