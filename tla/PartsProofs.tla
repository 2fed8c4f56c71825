------------------------------ MODULE PartsProofs ------------------------------
(***************************************************************************)
(* What is proved of the parts of mimo that share no state with the rest,  *)
(* for any number of files, models, directories, processes, notes and      *)
(* sizes.                                                                  *)
(*   Delegation   the work of a sub-agent is followed from its worktree to *)
(*                the diff and from there to the artifact                  *)
(*   Release      a promotion stands in the file it was written to, and a  *)
(*                command carries what it found where it started           *)
(*   ToolOutcome  a result without an error stands for a check that was    *)
(*                made; the length of each digest falls with the level     *)
(*   Recall       MEMORY.md holds the recorded notes in their order, a     *)
(*                note on its way is nobody else's, and the skills the UI  *)
(*                shows are those of the last event that is on its way     *)
(***************************************************************************)
EXTENDS Delegation, Release, ToolOutcome, Recall, TLAPS,
        SequenceTheorems, WellFoundedInduction

-----------------------------------------------------------------------------
(* The work of a sub-agent, one clause for each stage of its task.         *)
Stages == {"none", "create", "loop", "stage", "remove", "store", "returned"}

WorkIsSomewhere ==
  /\ task \in Stages
  /\ task \in {"create", "loop", "stage", "remove", "store"} => kept = {}
  /\ task = "stage" => changed = work
  /\ task \in {"remove", "store"} /\ exit = 0 => diff = work
  /\ DelegatedWorkIsKept

LEMMA DelegationInit == GInit => WorkIsSomewhere
BY DEF GInit, WorkIsSomewhere, Stages, DelegatedWorkIsKept

(* Diff hands over an exit of 0 only with all there is in the worktree.    *)
LEMMA DiffIsWhole ==
  ASSUME NEW ok \in BOOLEAN, Diff(ok).exit = 0
  PROVE  Diff(ok).diff = changed
BY DEF Diff

LEMMA DelegationStep == WorkIsSomewhere /\ [GNext]_gvars => WorkIsSomewhere'
<1> SUFFICES ASSUME WorkIsSomewhere, [GNext]_gvars PROVE WorkIsSomewhere'
  OBVIOUS
<1> USE DEF WorkIsSomewhere, Stages, DelegatedWorkIsKept
<1>1. CASE Spawn
  BY <1>1 DEF Spawn
<1>2. CASE Create
  BY <1>2 DEF Create
<1>3. CASE Call
  BY <1>3 DEF Call
<1>4. CASE LoopEnds
  BY <1>4 DEF LoopEnds
<1>5. CASE Outcome
  <2>1. PICK ok \in BOOLEAN : exit' = Diff(ok).exit /\ diff' = Diff(ok).diff
    BY <1>5 DEF Outcome
  <2>2. exit' = 0 => diff' = changed
    BY <2>1, DiffIsWhole
  <2>3. task' = "remove" /\ task = "stage" /\ UNCHANGED <<changed, work, kept>>
    BY <1>5 DEF Outcome
  <2> QED
    BY <2>2, <2>3
<1>6. CASE RemoveTree
  BY <1>6 DEF RemoveTree
<1>7. CASE Return   \* nothing to store, stored, or failed to
  <2>1. /\ task = "store" /\ task' = "returned" /\ UNCHANGED <<work, diff>>
        /\ \/ (exit = 1 \/ diff = {}) /\ UNCHANGED <<kept, exit>>
           \/ exit = 0 /\ ((kept' = diff /\ exit' = exit) \/ exit' = 1)
    BY <1>7 DEF Return
  <2> QED
    BY <2>1
<1>8. CASE \E k \in Tasks : ForwardTakes(k) \/ ForwardPublishes(k) \/ ForwardStops(k)
  BY <1>8 DEF ForwardTakes, ForwardPublishes, ForwardStops
<1>9. CASE Dies
  BY <1>9 DEF Dies
<1>10. CASE UNCHANGED gvars
  BY <1>10 DEF gvars
<1> QED
  BY <1>1, <1>2, <1>3, <1>4, <1>5, <1>6, <1>7, <1>8, <1>9, <1>10 DEF GNext

(* DelegatedWorkIsKept (Delegation): behind a delegation that reports      *)
(* success there is an artifact with all the child's work.                 *)
THEOREM NoWorkIsLost == GSpec => []DelegatedWorkIsKept
<1>1. WorkIsSomewhere => DelegatedWorkIsKept
  BY DEF WorkIsSomewhere
<1> QED
  BY <1>1, DelegationInit, DelegationStep, PTL DEF GSpec

-----------------------------------------------------------------------------
(* The model registry.                                                     *)
Accepted == [channel |-> "default", accepted |-> TRUE]
Has(entries, m) == m \in DOMAIN entries /\ entries[m] = Accepted
Promotions == Dirs \X Models

(* A registry in hand, and a command that has one.                         *)
Loaded(r) == r = [default |-> r.default, entries |-> r.entries, ok |-> TRUE]
Shaped(c) == c = [stage |-> c.stage, registry |-> c.registry, model |-> c.model,
                  to |-> c.to, old |-> c.old]

(* The file of a promotion that is saved can be loaded by itself, and      *)
(* names a default that was promoted there too.                            *)
Standing(s) ==
  LET file == files[s[1]]
  IN /\ file.kind = "toml" /\ file.default # None /\ file.default \in DOMAIN file.entries
     /\ Has(file.entries, s[2]) /\ <<s[1], file.default>> \in saved

(* A command carries what was saved where it started, and what it accepts. *)
Carried(c) ==
  /\ Shaped(c) /\ c.stage \in {"loaded", "saving", "writing"}
  /\ c.to \in Dirs /\ c.model \in Models /\ c.old \subseteq Promotions
  /\ Loaded(c.registry)
  /\ \A s \in c.old : s[1] = c.to /\ Has(c.registry.entries, s[2])
  /\ c.stage # "loaded" => c.registry.default = c.model /\ Has(c.registry.entries, c.model)

PromotionInv ==
  /\ files = [d \in Dirs |-> files[d]] /\ command = [p \in Procs |-> command[p]]
  /\ saved \subseteq Promotions
  /\ \A s \in saved : Standing(s)
  /\ \A p \in Procs : command[p] = Idle \/ Carried(command[p])

(* A registry that can be loaded holds what the file of the directory      *)
(* holds, whatever the user's own file says.                               *)
LEMMA ProjectFileWins ==
  ASSUME NEW d \in Dirs, LoadModelsConfig(d).ok
  PROVE  /\ Loaded(LoadModelsConfig(d)) /\ LoadFromFile(files[d]).ok
         /\ LoadFromFile(files[d]).default # None =>
              LoadModelsConfig(d).default = LoadFromFile(files[d]).default
         /\ \A m \in DOMAIN LoadFromFile(files[d]).entries :
              /\ m \in DOMAIN LoadModelsConfig(d).entries
              /\ LoadModelsConfig(d).entries[m] = LoadFromFile(files[d]).entries[m]
<1> DEFINE src == LoadFromFile(files[d])
           dst == MergeRegistry(Shipped, LoadFromFile(userFile))
<1> HIDE DEF src, dst
<1>1. LoadModelsConfig(d) = MergeRegistry(dst, src)
  BY DEF LoadModelsConfig, src, dst
<1>2. dst.ok /\ src.ok
  BY <1>1 DEF MergeRegistry, Refused
<1> DEFINE entries == [m \in DOMAIN dst.entries \union DOMAIN src.entries |->
                         IF m \in DOMAIN src.entries THEN src.entries[m] ELSE dst.entries[m]]
           default == IF src.default = None THEN dst.default ELSE src.default
<1>3. MergeRegistry(dst, src) = [default |-> default, entries |-> entries, ok |-> TRUE]
  BY <1>2 DEF MergeRegistry
<1>4. \A m \in DOMAIN src.entries : m \in DOMAIN entries /\ entries[m] = src.entries[m]
  OBVIOUS
<1>5. src.default # None => default = src.default
  OBVIOUS
<1> HIDE DEF entries, default
<1>6. LoadModelsConfig(d) = [default |-> default, entries |-> entries, ok |-> TRUE]
  BY <1>1, <1>3
<1>7. /\ LoadModelsConfig(d).default = default /\ LoadModelsConfig(d).entries = entries
      /\ LoadModelsConfig(d).ok
  BY <1>6
<1>8. Loaded(LoadModelsConfig(d))
  BY <1>6, <1>7 DEF Loaded
<1> QED
  BY <1>2, <1>4, <1>5, <1>7, <1>8 DEF src

(* What PromotionsLast says of one promotion.                              *)
LEMMA StandingLasts ==
  ASSUME NEW s \in saved, saved \subseteq Promotions, Standing(s)
  PROVE  /\ LoadFromFile(files[s[1]]).ok
         /\ LoadModelsConfig(s[1]).ok =>
              /\ Has(LoadModelsConfig(s[1]).entries, s[2])
              /\ <<s[1], LoadModelsConfig(s[1]).default>> \in saved
<1> DEFINE file == files[s[1]]
<1>1. /\ file.kind = "toml" /\ file.default # None /\ file.default \in DOMAIN file.entries
      /\ Has(file.entries, s[2]) /\ <<s[1], file.default>> \in saved
  BY DEF Standing
<1>2. s[1] \in Dirs
  BY DEF Promotions
<1>3. LoadFromFile(file) = [default |-> file.default, entries |-> file.entries, ok |-> TRUE]
  <2> HIDE DEF file
  <2> QED
    BY <1>1 DEF LoadFromFile
<1>4. /\ LoadFromFile(file).ok /\ LoadFromFile(file).default = file.default
      /\ LoadFromFile(file).entries = file.entries
  <2> HIDE DEF file
  <2> QED
    BY <1>3
<1> QED
  BY <1>1, <1>2, <1>4, ProjectFileWins DEF Has


LEMMA PromotionInit == RInit => PromotionInv
<1> SUFFICES ASSUME RInit PROVE PromotionInv
  OBVIOUS
<1>1. files = [d \in Dirs |-> Missing] /\ command = [p \in Procs |-> Idle] /\ saved = {}
  BY DEF RInit
<1> QED
  BY <1>1 DEF PromotionInv

(* A file that is overwritten takes its promotions with it.                *)
LEMMA OthersStand ==
  ASSUME PromotionInv, NEW d \in Dirs, NEW file, files' = [files EXCEPT ![d] = file],
         NEW more, more \subseteq {d} \X Models, saved' = Elsewhere(d) \union more
  PROVE  /\ files' = [e \in Dirs |-> files'[e]] /\ saved' \subseteq Promotions /\ files'[d] = file
         /\ \A s \in Elsewhere(d) : Standing(s)'
<1>1. /\ files = [e \in Dirs |-> files[e]] /\ saved \subseteq Promotions /\ \A s \in saved : Standing(s)
  BY DEF PromotionInv
<1>2. /\ files' = [e \in Dirs |-> files'[e]] /\ files'[d] = file
      /\ \A e \in Dirs : e # d => files'[e] = files[e]
  BY <1>1
<1>3. saved' \subseteq Promotions
  BY <1>1 DEF Elsewhere, Promotions
<1>4. ASSUME NEW s \in Elsewhere(d) PROVE Standing(s)'
  <2>1. s \in saved /\ s[1] # d /\ s[1] \in Dirs
    BY <1>1, <1>4 DEF Elsewhere, Promotions
  <2>2. files'[s[1]] = files[s[1]]
    BY <1>2, <2>1
  <2>3. <<s[1], files[s[1]].default>> \in saved
    BY <1>1, <2>1 DEF Standing
  <2>4. <<s[1], files[s[1]].default>> \in Elsewhere(d)
    BY <2>1, <2>3 DEF Elsewhere
  <2>5. Standing(s)
    BY <1>1, <2>1
  <2> QED
    BY <2>2, <2>4, <2>5 DEF Standing
<1> QED
  BY <1>2, <1>3, <1>4

(* A command in hand is none of the idle ones.                             *)
LEMMA InHand ==
  ASSUME PromotionInv, NEW p \in Procs, command[p].stage \in {"loaded", "saving", "writing"}
  PROVE  Carried(command[p])
<1>1. Idle.stage = "idle"
  BY DEF Idle
<1> QED
  BY <1>1 DEF PromotionInv

LEMMA NewCommand ==
  ASSUME PromotionInv, NEW p \in Procs, NEW c, command' = [command EXCEPT ![p] = c],
         c = Idle \/ Carried(c)
  PROVE  /\ command' = [q \in Procs |-> command'[q]]
         /\ \A q \in Procs : command'[q] = Idle \/ Carried(command'[q])
<1>1. /\ command = [q \in Procs |-> command[q]]
      /\ \A q \in Procs : command[q] = Idle \/ Carried(command[q])
  BY DEF PromotionInv
<1>2. /\ command' = [q \in Procs |-> command'[q]] /\ command'[p] = c
      /\ \A q \in Procs : q # p => command'[q] = command[q]
  BY <1>1
<1> QED
  BY <1>1, <1>2

LEMMA FilesStand ==
  ASSUME PromotionInv, UNCHANGED <<files, saved>>,
         command' = [q \in Procs |-> command'[q]],
         \A q \in Procs : command'[q] = Idle \/ Carried(command'[q])
  PROVE  PromotionInv'
BY DEF PromotionInv, Standing

LEMMA StartKeeps ==
  ASSUME PromotionInv, NEW p \in Procs, StartAccept(p)
  PROVE  PromotionInv'
<1>1. PICK dir \in Dirs, workspace \in Dirs, m \in Models :
        /\ LoadModelsConfig(dir).ok
        /\ command' = [command EXCEPT ![p] =
             [stage |-> "loaded", registry |-> LoadModelsConfig(dir), model |-> m,
              to |-> workspace, old |-> {s \in saved : s[1] = dir /\ dir = workspace}]]
  BY DEF StartAccept
<1> DEFINE r == LoadModelsConfig(dir)
           old == {s \in saved : s[1] = dir /\ dir = workspace}
           c == [stage |-> "loaded", registry |-> r, model |-> m, to |-> workspace, old |-> old]
<1>2. saved \subseteq Promotions /\ \A s \in saved : Standing(s)
  BY DEF PromotionInv
<1>3. Loaded(r)
  BY <1>1, ProjectFileWins
<1>4. ASSUME NEW s \in old PROVE s[1] = workspace /\ Has(r.entries, s[2])
  BY <1>1, <1>2, <1>4, StandingLasts
<1>5. old \subseteq Promotions
  BY <1>2
<1>6. command' = [command EXCEPT ![p] = c]
  BY <1>1
<1> HIDE DEF r, old
<1>7. Carried(c)
  BY <1>3, <1>4, <1>5 DEF Carried, Shaped
<1> HIDE DEF c
<1>8. UNCHANGED <<files, saved>>
  BY DEF StartAccept
<1> QED
  BY <1>6, <1>7, <1>8, NewCommand, FilesStand

(* AcceptCandidate of a registry in hand, and a command with a new stage.  *)
LEMMA AcceptedRegistry ==
  ASSUME NEW r, Loaded(r), NEW m
  PROVE  AcceptCandidate(r, m) = [default |-> m, entries |-> [r.entries EXCEPT ![m] = Accepted],
                                  ok |-> TRUE]
<1> DEFINE default == r.default
           entries == r.entries
           more == [entries EXCEPT ![m] = Accepted]
           yes == TRUE   \* by name: the provers lose a TRUE in a record
<1>1. r = [default |-> default, entries |-> entries, ok |-> yes]
  BY DEF Loaded
<1>2. AcceptCandidate(r, m) = [r EXCEPT !.default = m, !.entries = more]
  <2> HIDE DEF default, entries, yes
  <2>1. r.entries = entries
    BY <1>1
  <2>2. [r EXCEPT !.default = m, !.entries[m] = Accepted]
          = [r EXCEPT !.default = m, !.entries = more]
    BY <1>1, <2>1
  <2> QED
    BY <2>2 DEF AcceptCandidate, Accepted
<1> HIDE DEF default, entries, more, yes
<1>3. [r EXCEPT !.default = m] = [default |-> m, entries |-> entries, ok |-> yes]
  BY <1>1
<1>4. [r EXCEPT !.default = m, !.entries = more] = [[r EXCEPT !.default = m] EXCEPT !.entries = more]
  OBVIOUS
<1>5. [[default |-> m, entries |-> entries, ok |-> yes] EXCEPT !.entries = more]
        = [default |-> m, entries |-> more, ok |-> yes]
  OBVIOUS
<1> QED
  BY <1>2, <1>3, <1>4, <1>5 DEF more, entries, yes

LEMMA NextStage ==
  ASSUME NEW c, Shaped(c), NEW next, NEW r
  PROVE  [c EXCEPT !.stage = next, !.registry = r]
           = [stage |-> next, registry |-> r, model |-> c.model, to |-> c.to, old |-> c.old]
<1> DEFINE a == c.stage
           b == c.registry
           m == c.model
           to == c.to
           old == c.old
<1>1. c = [stage |-> a, registry |-> b, model |-> m, to |-> to, old |-> old]
  BY DEF Shaped
<1> HIDE DEF a, b, m, to, old
<1>2. [c EXCEPT !.stage = next]
        = [stage |-> next, registry |-> b, model |-> m, to |-> to, old |-> old]
  BY <1>1
<1>3. [c EXCEPT !.stage = next, !.registry = r] = [[c EXCEPT !.stage = next] EXCEPT !.registry = r]
  OBVIOUS
<1>4. [[stage |-> next, registry |-> b, model |-> m, to |-> to, old |-> old] EXCEPT !.registry = r]
        = [stage |-> next, registry |-> r, model |-> m, to |-> to, old |-> old]
  OBVIOUS
<1> QED
  BY <1>2, <1>3, <1>4 DEF m, to, old

LEMMA AcceptKeeps ==
  ASSUME PromotionInv, NEW p \in Procs, Accept(p) \/ GateFails(p)
  PROVE  PromotionInv'
<1>1. command[p].stage = "loaded" /\ UNCHANGED <<files, saved>>
  BY DEF Accept, GateFails
<1>2. CASE command' = [command EXCEPT ![p] = Idle]
  BY <1>1, <1>2, NewCommand, FilesStand
<1>3. CASE command' # [command EXCEPT ![p] = Idle]
  <2> DEFINE c == command[p]
             m == c.model
             entries == [c.registry.entries EXCEPT ![m] = Accepted]
             r == [default |-> m, entries |-> entries, ok |-> TRUE]
             d == [stage |-> "saving", registry |-> r, model |-> m, to |-> c.to, old |-> c.old]
  <2>1. /\ m \in DOMAIN c.registry.entries
        /\ command' = [command EXCEPT ![p] = [c EXCEPT !.stage = "saving",
                                                       !.registry = AcceptCandidate(c.registry, m)]]
    BY <1>3 DEF Accept, GateFails
  <2>2. Carried(c)
    BY <1>1, InHand
  <2> HIDE DEF c
  <2>3. AcceptCandidate(c.registry, m) = r
    BY <2>2, AcceptedRegistry DEF Carried
  <2>4. [c EXCEPT !.stage = "saving", !.registry = r] = d
    <3> HIDE DEF r
    <3>1. Shaped(c)
      BY <2>2 DEF Carried
    <3> QED
      BY <3>1, NextStage
  <2>5. \A x : Has(c.registry.entries, x) \/ x = m => Has(entries, x)
    BY <2>1 DEF Has
  <2> HIDE DEF entries
  <2>6. r.entries = entries /\ r.default = m /\ Loaded(r)
    BY DEF Loaded
  <2> HIDE DEF r
  <2>7. /\ d.stage = "saving" /\ d.registry = r /\ d.model = m /\ d.to = c.to /\ d.old = c.old
        /\ Shaped(d)
    BY DEF Shaped
  <2> HIDE DEF d
  <2>8. Carried(d)
    BY <2>2, <2>5, <2>6, <2>7 DEF Carried
  <2>9. command' = [command EXCEPT ![p] = d]
    BY <2>1, <2>3, <2>4
  <2> QED
    BY <1>1, <2>8, <2>9, NewCommand, FilesStand
<1> QED
  BY <1>2, <1>3

LEMMA TruncateKeeps ==
  ASSUME PromotionInv, NEW p \in Procs, Truncate(p) \/ WriteFails(p)
  PROVE  PromotionInv'
<1> DEFINE c == command[p]
<1>1. Carried(c)
  BY InHand DEF Truncate, WriteFails
<1> HIDE DEF c
<1>2. PICK file : files' = [files EXCEPT ![c.to] = file]
  BY DEF Truncate, WriteFails, c
<1>3. saved' = Elsewhere(c.to) \union {}
  BY DEF Truncate, WriteFails, c
<1>4. c.to \in Dirs
  BY <1>1 DEF Carried
<1>5. /\ files' = [e \in Dirs |-> files'[e]] /\ saved' \subseteq Promotions
      /\ \A s \in Elsewhere(c.to) : Standing(s)'
  BY <1>2, <1>3, <1>4, OthersStand
<1>6. CASE Truncate(p)
  <2> DEFINE d == [stage |-> "writing", registry |-> c.registry, model |-> c.model,
                   to |-> c.to, old |-> c.old]
  <2>1. command' = [command EXCEPT ![p] = [c EXCEPT !.stage = "writing"]] /\ c.stage = "saving"
    BY <1>6 DEF Truncate, c
  <2>2. [c EXCEPT !.stage = "writing"] = d
    BY <1>1 DEF Carried, Shaped
  <2>3. /\ d.stage = "writing" /\ d.registry = c.registry /\ d.model = c.model /\ d.to = c.to
        /\ d.old = c.old /\ Shaped(d)
    BY DEF Shaped
  <2> HIDE DEF d
  <2>4. Carried(d)
    BY <1>1, <2>1, <2>3 DEF Carried
  <2>5. /\ command' = [q \in Procs |-> command'[q]]
        /\ \A q \in Procs : command'[q] = Idle \/ Carried(command'[q])
    BY <2>1, <2>2, <2>4, NewCommand
  <2> QED
    BY <1>3, <1>5, <2>5 DEF PromotionInv
<1>7. CASE WriteFails(p)
  <2>1. command' = [command EXCEPT ![p] = Idle]
    BY <1>7 DEF WriteFails
  <2>2. /\ command' = [q \in Procs |-> command'[q]]
        /\ \A q \in Procs : command'[q] = Idle \/ Carried(command'[q])
    BY <2>1, NewCommand
  <2> QED
    BY <1>3, <1>5, <2>2 DEF PromotionInv
<1> QED
  BY <1>6, <1>7

LEMMA WriteKeeps ==
  ASSUME PromotionInv, NEW p \in Procs, Write(p)
  PROVE  PromotionInv'
<1> DEFINE c == command[p]
           more == c.old \union {<<c.to, c.model>>}
           file == File(c.registry.default, c.registry.default, c.registry.entries)
<1>1. Carried(c) /\ c.stage = "writing"
  BY InHand DEF Write
<1>2. files' = [files EXCEPT ![c.to] = file] /\ saved' = Elsewhere(c.to) \union more
      /\ command' = [command EXCEPT ![p] = Idle]
  BY DEF Write, SaveToFile
<1> HIDE DEF c
<1>3. c.to \in Dirs /\ c.model \in Models /\ c.model # None
  BY <1>1, ReleaseAssumption DEF Carried
<1>4. more \subseteq {c.to} \X Models
  <2>1. ASSUME NEW s \in c.old PROVE s \in {c.to} \X Models
    <3>1. s \in Dirs \X Models /\ s[1] = c.to
      BY <1>1, <2>1 DEF Carried, Promotions
    <3> QED
      BY <3>1
  <2> QED
    BY <1>3, <2>1
<1>5. /\ file.kind = "toml" /\ file.default = c.model /\ file.entries = c.registry.entries
      /\ \A s \in more : s[1] = c.to /\ Has(file.entries, s[2])
      /\ <<c.to, c.model>> \in more
  <2>1. file.kind = "toml" /\ file.default = c.registry.default /\ file.entries = c.registry.entries
    BY DEF File
  <2>2. c.registry.default = c.model /\ Has(c.registry.entries, c.model)
    BY <1>1 DEF Carried
  <2>3. \A s \in c.old : s[1] = c.to /\ Has(c.registry.entries, s[2])
    BY <1>1 DEF Carried
  <2> HIDE DEF file
  <2> QED
    BY <2>1, <2>2, <2>3
<1> HIDE DEF more, file
<1>6. /\ files' = [e \in Dirs |-> files'[e]] /\ saved' \subseteq Promotions /\ files'[c.to] = file
      /\ \A s \in Elsewhere(c.to) : Standing(s)'
  BY <1>2, <1>3, <1>4, OthersStand
<1>7. ASSUME NEW s \in more PROVE Standing(s)'
  <2>1. s[1] = c.to /\ Has(file.entries, s[2]) /\ <<c.to, c.model>> \in saved'
    BY <1>2, <1>5, <1>7
  <2>2. Has(file.entries, c.model)
    BY <1>1, <1>5 DEF Carried
  <2> QED
    BY <1>3, <1>5, <1>6, <2>1, <2>2 DEF Standing, Has
<1>8. /\ command' = [q \in Procs |-> command'[q]]
      /\ \A q \in Procs : command'[q] = Idle \/ Carried(command'[q])
  BY <1>2, NewCommand
<1> QED
  BY <1>2, <1>6, <1>7, <1>8 DEF PromotionInv

LEMMA EditKeeps ==
  ASSUME PromotionInv, EditFile
  PROVE  PromotionInv'
<1>1. UNCHANGED command
  BY DEF EditFile
<1>2. CASE UNCHANGED <<files, saved>>
  BY <1>1, <1>2, FilesStand DEF PromotionInv
<1>3. CASE \E file, d : d \in Dirs /\ files' = [files EXCEPT ![d] = file] /\ saved' = Elsewhere(d)
  <2>1. PICK file, d : d \in Dirs /\ files' = [files EXCEPT ![d] = file] /\ saved' = Elsewhere(d)
    BY <1>3
  <2>2. /\ files' = [e \in Dirs |-> files'[e]] /\ saved' \subseteq Promotions
        /\ \A s \in Elsewhere(d) : Standing(s)'
    <3>1. saved' = Elsewhere(d) \union {}
      BY <2>1
    <3> QED
      BY <2>1, <3>1, OthersStand
  <2> QED
    BY <1>1, <2>1, <2>2 DEF PromotionInv
<1> QED
  BY <1>2, <1>3 DEF EditFile

(* PromotionsLast (Release): a promotion that was saved is found again by  *)
(* every command started there, and the default it finds was promoted      *)
(* there, for any set of models, directories, files a user writes and      *)
(* commands that run at once, wherever one of them dies.                   *)
THEOREM PromotionsAreFound == RSpec => []PromotionsLast
<1>1. PromotionInv /\ [RNext]_rvars => PromotionInv'
  <2>1. ASSUME PromotionInv, UNCHANGED rvars PROVE PromotionInv'
    BY <2>1 DEF PromotionInv, Standing, rvars
  <2> QED
    BY <2>1, StartKeeps, AcceptKeeps, TruncateKeeps, WriteKeeps, EditKeeps DEF RNext
<1>2. PromotionInv => PromotionsLast
  <2>1. ASSUME PromotionInv, NEW s \in saved
        PROVE  /\ LoadFromFile(files[s[1]]).ok
               /\ LoadModelsConfig(s[1]).ok =>
                    /\ LoadModelsConfig(s[1]).entries[s[2]] = Accepted
                    /\ <<s[1], LoadModelsConfig(s[1]).default>> \in saved
    BY <2>1, StandingLasts DEF PromotionInv, Has
  <2> QED
    BY <2>1 DEF PromotionsLast, Accepted
<1> QED
  BY <1>1, <1>2, PromotionInit, PTL DEF RSpec

-----------------------------------------------------------------------------
(* A tool call: what is filed as a check that passed.                      *)
CallStages == {"asked", "running", "ran", "summarized", "told"}
Checked == {"works"} \union (IF toolName = "diagnostics"
                             THEN {"fails unrecognised", "skipped"} ELSE {})

(* A result without an error stands for a check that was made, from the    *)
(* moment the tool returns, and nothing is filed before that.              *)
CheckInv ==
  /\ stage \in CallStages
  /\ row = "done" => stage = "told"
  /\ stage \in {"ran", "summarized"} /\ toolName \in Evidence /\ ~result.error => happened \in Checked
  /\ VerifiedMeansChecked

LEMMA RunTestResult ==
  ASSUME toolName = "run_test", NEW h, NEW stored, h # "refused"
  PROVE  ToolResult(h, stored) = ShellResult(h, stored)
<1>1. toolName \in {"shell", "run_test"}
  OBVIOUS
<1>2. ~(toolName \in {"git_diff", "git_log"})
  OBVIOUS
<1> QED
  BY <1>1, <1>2, Zenon DEF ToolResult

LEMMA DiagnosticsToolResult ==
  ASSUME toolName = "diagnostics", NEW h, NEW stored, h # "refused"
  PROVE  ToolResult(h, stored) = DiagnosticsResult(h, stored)
<1>1. ~(toolName \in {"shell", "run_test"}) /\ ~(toolName \in {"git_diff", "git_log"})
  OBVIOUS
<1> QED
  BY <1>1, Zenon DEF ToolResult

LEMMA FailedIsAnError == ASSUME NEW content PROVE Failed(content).error = TRUE
BY DEF Failed

LEMMA CheckedWithoutError ==
  ASSUME toolName \in Evidence, NEW h \in Happenings, NEW stored \in BOOLEAN,
         ~ToolResult(h, stored).error
  PROVE  h \in Checked
<1>1. h # "refused"
  BY FailedIsAnError DEF ToolResult
<1>2. CASE toolName = "run_test"
  <2>1. h \in {"works", "fails"}
    BY <1>2 DEF Happenings
  <2>2. ShellResult("fails", stored).error = TRUE
    BY DEF ShellResult, Ran, Failed, Exit
  <2> QED
    BY <1>1, <1>2, <2>1, <2>2, RunTestResult DEF Checked
<1>3. CASE toolName = "diagnostics"
  <2>1. h \in {"works", "fails", "fails unrecognised", "skipped"}
    BY <1>1, <1>3 DEF Happenings
  <2>2. DiagnosticsResult("fails", stored).error = TRUE
    BY DEF DiagnosticsResult, Failed
  <2> QED
    BY <1>1, <1>3, <2>1, <2>2, DiagnosticsToolResult DEF Checked
<1> QED
  BY <1>2, <1>3 DEF Evidence

LEMMA CheckStep == CheckInv /\ [ONext]_ovars => CheckInv'
<1> SUFFICES ASSUME CheckInv, [ONext]_ovars PROVE CheckInv'
  OBVIOUS
<1> USE DEF CheckInv, CallStages
<1>1. ASSUME NEW r, r.error = TRUE, NotRun(r), stage \in {"asked", "running"} PROVE CheckInv'
  BY <1>1 DEF NotRun, VerifiedMeansChecked
<1>2. CASE NotRegistered
  BY <1>1, <1>2, FailedIsAnError DEF NotRegistered
<1>3. CASE Gate
  <2>1. stage = "asked"
    BY <1>3 DEF Gate
  <2>2. CASE NotRun(Failed("failure"))
    BY <1>1, <2>1, <2>2, FailedIsAnError
  <2>3. CASE ~NotRun(Failed("failure"))
    <3>1. /\ stage' = "running"
          /\ UNCHANGED <<toolName, happened, result, size, inUse, title, risk, heard, row>>
      BY <1>3, <2>3, Zenon DEF Gate
    <3> QED
      BY <2>1, <3>1 DEF VerifiedMeansChecked
  <2> QED
    BY <2>2, <2>3
<1>4. CASE Run
  <2>1. PICK h \in Happenings, stored \in BOOLEAN : happened' = h /\ result' = ToolResult(h, stored)
    BY <1>4 DEF Run
  <2>2. /\ stage = "running" /\ stage' = "ran" /\ UNCHANGED <<toolName, row>>
    BY <1>4 DEF Run
  <2>3. toolName \in Evidence /\ ~result'.error => h \in Checked
    BY <2>1, CheckedWithoutError
  <2>4. row # "done"
    BY <2>2
  <2> QED
    BY <2>1, <2>2, <2>3, <2>4 DEF Checked, VerifiedMeansChecked
<1>5. CASE Summarize
  BY <1>5 DEF Summarize, VerifiedMeansChecked, Checked
<1>6. CASE Tell
  BY <1>6 DEF Tell, VerifiedMeansChecked, Checked
<1>7. CASE UNCHANGED ovars
  BY <1>7 DEF ovars, VerifiedMeansChecked, Checked
<1> QED
  BY <1>2, <1>3, <1>4, <1>5, <1>6, <1>7 DEF ONext

(* VerifiedMeansChecked (ToolOutcome): what the ledger counts as a passed  *)
(* check was one, whichever way the call went.                             *)
THEOREM PassedChecksWereMade == OSpec => []VerifiedMeansChecked
<1>1. OInit => CheckInv
  BY DEF OInit, CheckInv, CallStages, VerifiedMeansChecked
<1>2. CheckInv => VerifiedMeansChecked
  BY DEF CheckInv
<1> QED
  BY <1>1, <1>2, CheckStep, PTL DEF OSpec

-----------------------------------------------------------------------------
(* The digest of a tool's output.                                          *)
Levels == {"safe", "warning", "critical"}
SizeInv == size \in Sizes \X Sizes /\ inUse \in Usages

LEMMA OfLevel ==
  ASSUME NEW a, NEW b, NEW c
  PROVE  Of("critical", a, b, c) = a /\ Of("warning", a, b, c) = b /\ Of("safe", a, b, c) = c
BY Zenon DEF Of

(* More in use is never a lower level.                                     *)
LEMMA PressureRises ==
  ASSUME NEW low \in Usages, NEW high \in Usages, high >= low
  PROVE  /\ Level(low) \in Levels /\ Level(high) \in Levels
         /\ Level(low) = "critical" => Level(high) = "critical"
         /\ Level(low) = "warning" => Level(high) # "safe"
<1>1. low \in Nat /\ high \in Nat /\ Window \in Int
  BY OutcomeAssumption
<1> QED
  BY <1>1 DEF Level, Levels

(* What falls from level to level does not rise with the pressure.         *)
LEMMA FallsWithLevel ==
  ASSUME NEW a \in Int, NEW b \in Int, NEW c \in Int, a <= b, a <= c,
         NEW low \in Levels, NEW high \in Levels, b <= c \/ low # "safe",
         low = "critical" => high = "critical", low = "warning" => high # "safe"
  PROVE  Of(high, a, b, c) <= Of(low, a, b, c)
BY OfLevel DEF Levels

LEMMA Shows ==
  ASSUME NEW says, NEW risky, NEW length
  PROVE  Summary(says, risky, length).shown = length
BY DEF Summary

LEMMA ErrorOrShows ==
  ASSUME NEW r, NEW a \in Int, NEW b \in Int, a <= b
  PROVE  ErrorOr(r, a).shown <= ErrorOr(r, b).shown
<1>1. r.error => ErrorOr(r, a).shown = 0 /\ ErrorOr(r, b).shown = 0
  BY Shows, Zenon DEF ErrorOr
<1>2. ~r.error => ErrorOr(r, a).shown = a /\ ErrorOr(r, b).shown = b
  BY Shows, Zenon DEF ErrorOr
<1> QED
  BY <1>1, <1>2

LEMMA TimesGroups ==
  ASSUME NEW g \in Nat, NEW x \in Nat, NEW y \in Nat, x <= y
  PROVE  g * x \in Nat /\ g * x <= g * y
OBVIOUS

(* Each summarizer by itself: g and m are what there is to show, low and   *)
(* high two levels in that order.                                          *)
LEMMA DigestsFall ==
  ASSUME NEW r, NEW g \in Nat, NEW m \in Nat, NEW low \in Levels, NEW high \in Levels,
         low = "critical" => high = "critical", low = "warning" => high # "safe"
  PROVE  /\ ShellSummary(r, high, g).shown <= ShellSummary(r, low, g).shown
         /\ RgSummary(r, high, g, m).shown <= RgSummary(r, low, g, m).shown
         /\ ReadFileSummary(r, high, g).shown <= ReadFileSummary(r, low, g).shown
         /\ ListDirSummary(r, high, g).shown <= ListDirSummary(r, low, g).shown
         /\ low # "safe" => GitDiffSummary(r, high, g, m).shown <= GitDiffSummary(r, low, g, m).shown
         /\ GitLogSummary(r, high, g).shown <= GitLogSummary(r, low, g).shown
         /\ GitStatusSummary(r, high, g).shown <= GitStatusSummary(r, low, g).shown
         /\ RunTestSummary(r, high, g).shown <= RunTestSummary(r, low, g).shown
         /\ ApplyPatchSummary(r, high, g).shown <= ApplyPatchSummary(r, low, g).shown
         /\ ArtifactReadSummary(r, high, g).shown <= ArtifactReadSummary(r, low, g).shown
<1>0. \A l \in Levels : l = "critical" \/ l = "warning" \/ l = "safe"
  BY DEF Levels
<1> DEFINE Fall(a, b, c) == Of(high, a, b, c) <= Of(low, a, b, c)
           Numbers(a, b, c) == Of(high, a, b, c) \in {a, b, c} /\ Of(low, a, b, c) \in {a, b, c}
<1>1. \A a, b, c \in Int : a <= b /\ a <= c /\ b <= c => Fall(a, b, c)
  BY FallsWithLevel
<1>2. \A a, b, c : Numbers(a, b, c)
  BY <1>0, OfLevel
<1>3. \A k \in Nat : Least(g, k) \in Nat /\ Least(k, g) \in Nat /\ Least(k, m) \in Nat
  BY DEF Least
<1>4. \A j, k \in Nat : j <= k =>
        Least(g, j) <= Least(g, k) /\ Least(j, g) <= Least(k, g) /\ Least(j, m) <= Least(k, m)
  BY DEF Least
<1>5. ShellSummary(r, high, g).shown <= ShellSummary(r, low, g).shown
  <2> DEFINE a == Least(g, Of(high, 0, 10, 20))
             b == Least(g, Of(low, 0, 10, 20))
  <2>1. a \in Int /\ b \in Int /\ a <= b
    <3>1. Fall(0, 10, 20) /\ Of(high, 0, 10, 20) \in Nat /\ Of(low, 0, 10, 20) \in Nat
      BY <1>1, <1>2
    <3> QED
      BY <1>3, <1>4, <3>1
  <2> HIDE DEF a, b
  <2>2. r.error => ShellSummary(r, high, g).shown = 0 /\ ShellSummary(r, low, g).shown = 0
    BY Shows, Zenon DEF ShellSummary
  <2>3. ~r.error => ShellSummary(r, high, g).shown = a /\ ShellSummary(r, low, g).shown = b
    BY Shows, Zenon DEF ShellSummary, a, b
  <2> QED
    BY <2>1, <2>2, <2>3
<1>6. RgSummary(r, high, g, m).shown <= RgSummary(r, low, g, m).shown
  <2> DEFINE x == Of(high, 0, Least(3, m), Least(10, m))
             y == Of(low, 0, Least(3, m), Least(10, m))
  <2>1. /\ Least(3, m) \in Nat /\ Least(10, m) \in Nat /\ Least(3, m) <= Least(10, m)
    BY <1>3, <1>4
  <2>2. x \in Nat /\ y \in Nat /\ x <= y
    BY <1>1, <1>2, <2>1
  <2> HIDE DEF x, y
  <2>3. g * (1 + x) \in Int /\ g * (1 + y) \in Int /\ g * (1 + x) <= g * (1 + y)
    <3>1. 1 + x \in Nat /\ 1 + y \in Nat /\ 1 + x <= 1 + y
      BY <2>2
    <3> QED
      BY <3>1, TimesGroups
  <2> QED
    BY <2>3, ErrorOrShows DEF RgSummary, x, y
<1>7. ReadFileSummary(r, high, g).shown <= ReadFileSummary(r, low, g).shown
  <2>1. /\ HeadAndTail(g, 20) \in Nat /\ HeadAndTail(g, 50) \in Nat
        /\ HeadAndTail(g, 20) <= HeadAndTail(g, 50)
    BY DEF HeadAndTail, Least
  <2>2. Fall(0, HeadAndTail(g, 20), HeadAndTail(g, 50))
    BY <1>1, <2>1
  <2> QED
    BY <1>2, <2>1, <2>2, ErrorOrShows DEF ReadFileSummary
<1>8. ListDirSummary(r, high, g).shown <= ListDirSummary(r, low, g).shown
  <2>1. Least(30, g) \in Nat /\ Least(30, g) <= g
    BY DEF Least
  <2>2. Fall(0, Least(30, g), g)
    BY <1>1, <2>1
  <2> QED
    BY <1>2, <2>1, <2>2, ErrorOrShows DEF ListDirSummary
<1>9. ASSUME low # "safe"
      PROVE  GitDiffSummary(r, high, g, m).shown <= GitDiffSummary(r, low, g, m).shown
  <2> DEFINE c == Least(5, g) * (1 + m)
  <2>1. Of(high, 0, g, c) \in {0, g} /\ Of(low, 0, g, c) \in {0, g}
    BY <1>0, <1>9, OfLevel
  <2>2. Of(high, 0, g, c) <= Of(low, 0, g, c)
    BY <1>0, <1>9, OfLevel
  <2> HIDE DEF c
  <2> QED
    BY <2>1, <2>2, ErrorOrShows DEF GitDiffSummary, c
<1>10. GitLogSummary(r, high, g).shown <= GitLogSummary(r, low, g).shown
  <2>1. Fall(3, 5, 10)
    BY <1>1
  <2>2. Of(high, 3, 5, 10) \in Nat /\ Of(low, 3, 5, 10) \in Nat
    BY <1>2
  <2> DEFINE a == Least(g, Of(high, 3, 5, 10))
             b == Least(g, Of(low, 3, 5, 10))
  <2>3. a \in Int /\ b \in Int /\ a <= b
    BY <1>3, <1>4, <2>1, <2>2
  <2> HIDE DEF a, b
  <2> QED
    BY <2>3, ErrorOrShows DEF GitLogSummary, a, b
<1>11. GitStatusSummary(r, high, g).shown <= GitStatusSummary(r, low, g).shown
  <2>1. /\ StatusGroups(g, 5) \in Nat /\ StatusGroups(g, 0) \in Nat
        /\ StatusGroups(g, 5) <= StatusGroups(g, 0)
    BY DEF StatusGroups, Least
  <2>2. Fall(0, StatusGroups(g, 5), StatusGroups(g, 0))
    BY <1>1, <2>1
  <2> QED
    BY <1>2, <2>1, <2>2, ErrorOrShows DEF GitStatusSummary
<1>12. RunTestSummary(r, high, g).shown <= RunTestSummary(r, low, g).shown
  <2>1. Least(10, g) \in Nat /\ Least(10, g) <= g
    BY DEF Least
  <2>2. Fall(0, Least(10, g), g)
    BY <1>1, <2>1
  <2>3. /\ RunTestSummary(r, high, g).shown = Of(high, 0, Least(10, g), g)
        /\ RunTestSummary(r, low, g).shown = Of(low, 0, Least(10, g), g)
    BY Shows, Zenon DEF RunTestSummary
  <2> QED
    BY <2>2, <2>3
<1>13. ApplyPatchSummary(r, high, g).shown <= ApplyPatchSummary(r, low, g).shown
  <2>1. Fall(0, g, g)
    BY <1>1
  <2> QED
    BY <1>2, <2>1, ErrorOrShows DEF ApplyPatchSummary
<1>14. ArtifactReadSummary(r, high, g).shown <= ArtifactReadSummary(r, low, g).shown
  <2> DEFINE a == Least(g, Of(high, 2, 5, 10))
             b == Least(g, Of(low, 2, 5, 10))
  <2>1. a \in Int /\ b \in Int /\ a <= b
    <3>1. Fall(2, 5, 10) /\ Of(high, 2, 5, 10) \in Nat /\ Of(low, 2, 5, 10) \in Nat
      BY <1>1, <1>2
    <3> QED
      BY <1>3, <1>4, <3>1
  <2> HIDE DEF a, b
  <2>2. r.error => ArtifactReadSummary(r, high, g).shown = 0 /\ ArtifactReadSummary(r, low, g).shown = 0
    BY Shows, Zenon DEF ArtifactReadSummary
  <2>3. ~r.error => ArtifactReadSummary(r, high, g).shown = a /\ ArtifactReadSummary(r, low, g).shown = b
    BY Shows, Zenon DEF ArtifactReadSummary, a, b
  <2> QED
    BY <2>1, <2>2, <2>3
<1> HIDE DEF Fall, Numbers
<1> QED
  BY <1>5, <1>6, <1>7, <1>8, <1>9, <1>10, <1>11, <1>12, <1>13, <1>14

LEMMA ShorterUnderPressure ==
  ASSUME SizeInv, NEW usage \in Usages, usage >= inUse,
         ~(toolName = "git_diff" /\ Level(inUse) = "safe")
  PROVE  SummarizeTool(result, Level(usage)).shown <= SummarizeTool(result, Level(inUse)).shown
<1> DEFINE low == Level(inUse)
           high == Level(usage)
           g == size[1]
           m == size[2]
<1>1. g \in Nat /\ m \in Nat /\ inUse \in Usages
  BY OutcomeAssumption DEF SizeInv
<1>2. /\ low \in Levels /\ high \in Levels
      /\ low = "critical" => high = "critical"
      /\ low = "warning" => high # "safe"
  BY <1>1, PressureRises
<1>3. toolName = "git_diff" => low # "safe"
  OBVIOUS
<1> HIDE DEF low, high, g, m
<1>4. toolName = "shell" => \A l : SummarizeTool(result, l) = ShellSummary(result, l, g)
  BY Zenon DEF SummarizeTool, g
<1>5. toolName = "rg" => \A l : SummarizeTool(result, l) = RgSummary(result, l, g, m)
  BY Zenon DEF SummarizeTool, g, m
<1>6. toolName = "read_file" => \A l : SummarizeTool(result, l) = ReadFileSummary(result, l, g)
  BY Zenon DEF SummarizeTool, g
<1>7. toolName = "list_dir" => \A l : SummarizeTool(result, l) = ListDirSummary(result, l, g)
  BY Zenon DEF SummarizeTool, g
<1>8. toolName = "git_diff" => \A l : SummarizeTool(result, l) = GitDiffSummary(result, l, g, m)
  BY Zenon DEF SummarizeTool, g, m
<1>9. toolName = "git_log" => \A l : SummarizeTool(result, l) = GitLogSummary(result, l, g)
  BY Zenon DEF SummarizeTool, g
<1>10. toolName = "git_status" => \A l : SummarizeTool(result, l) = GitStatusSummary(result, l, g)
  BY Zenon DEF SummarizeTool, g
<1>11. toolName = "run_test" => \A l : SummarizeTool(result, l) = RunTestSummary(result, l, g)
  BY Zenon DEF SummarizeTool, g
<1>12. toolName = "apply_patch" => \A l : SummarizeTool(result, l) = ApplyPatchSummary(result, l, g)
  BY Zenon DEF SummarizeTool, g
<1>13. toolName = "artifact_read" => \A l : SummarizeTool(result, l) = ArtifactReadSummary(result, l, g)
  BY Zenon DEF SummarizeTool, g
<1> DEFINE Levelled == {"shell", "rg", "read_file", "list_dir", "git_diff", "git_log", "git_status",
                        "run_test", "apply_patch", "artifact_read"}
<1>14. toolName \notin Levelled => \E s : s.shown = 1 /\ \A l : SummarizeTool(result, l) = s
  <2>1. ASSUME NEW l
        PROVE  toolName = "write_file" => SummarizeTool(result, l) = WriteFileSummary(result)
    BY Zenon DEF SummarizeTool
  <2>2. toolName = "mcp" => \A l : SummarizeTool(result, l) = ExternalSummary(result)
    BY Zenon DEF SummarizeTool
  <2>3. toolName \notin Levelled \union {"write_file", "mcp"} =>
          \A l : SummarizeTool(result, l) = SummarizeResult(result)
    <3> SUFFICES ASSUME toolName \notin Levelled \union {"write_file", "mcp"}, NEW l
                 PROVE  SummarizeTool(result, l) = SummarizeResult(result)
      OBVIOUS
    <3>1. /\ toolName # "shell" /\ toolName # "rg" /\ toolName # "read_file" /\ toolName # "list_dir"
          /\ toolName # "git_diff" /\ toolName # "git_log" /\ toolName # "git_status"
          /\ toolName # "run_test" /\ toolName # "apply_patch" /\ toolName # "artifact_read"
          /\ toolName # "write_file" /\ toolName # "mcp"
      OBVIOUS
    <3> QED
      BY <3>1, Zenon DEF SummarizeTool
  <2>4. /\ WriteFileSummary(result).shown = 1 /\ ExternalSummary(result).shown = 1
        /\ SummarizeResult(result).shown = 1
    BY DEF WriteFileSummary, ExternalSummary, SummarizeResult, Summary
  <2> QED
    BY <2>1, <2>2, <2>3, <2>4
<1>15. toolName \notin Levelled => SummarizeTool(result, high).shown <= SummarizeTool(result, low).shown
  BY <1>14
<1>16. toolName \in Levelled => SummarizeTool(result, high).shown <= SummarizeTool(result, low).shown
  <2>1. /\ ShellSummary(result, high, g).shown <= ShellSummary(result, low, g).shown
        /\ RgSummary(result, high, g, m).shown <= RgSummary(result, low, g, m).shown
        /\ ReadFileSummary(result, high, g).shown <= ReadFileSummary(result, low, g).shown
        /\ ListDirSummary(result, high, g).shown <= ListDirSummary(result, low, g).shown
        /\ low # "safe" => GitDiffSummary(result, high, g, m).shown <= GitDiffSummary(result, low, g, m).shown
        /\ GitLogSummary(result, high, g).shown <= GitLogSummary(result, low, g).shown
        /\ GitStatusSummary(result, high, g).shown <= GitStatusSummary(result, low, g).shown
        /\ RunTestSummary(result, high, g).shown <= RunTestSummary(result, low, g).shown
        /\ ApplyPatchSummary(result, high, g).shown <= ApplyPatchSummary(result, low, g).shown
        /\ ArtifactReadSummary(result, high, g).shown <= ArtifactReadSummary(result, low, g).shown
    BY <1>1, <1>2, DigestsFall
  <2> QED
    BY <1>3, <1>4, <1>5, <1>6, <1>7, <1>8, <1>9, <1>10, <1>11, <1>12, <1>13, <2>1
<1> QED
  BY <1>15, <1>16 DEF low, high

(* TerserUnderPressure (ToolOutcome): the fuller the window, the shorter   *)
(* the digest of the same output, whichever tool it is of and however      *)
(* large, for any window; only git_diff has an exception.                  *)
THEOREM FullerIsTerser == OSpec => []TerserUnderPressure
<1>1. OInit => SizeInv
  BY DEF OInit, SizeInv
<1>2. SizeInv /\ [ONext]_ovars => SizeInv'
  <2> SUFFICES ASSUME SizeInv, [ONext]_ovars PROVE UNCHANGED <<size, inUse>>
    BY DEF SizeInv
  <2>1. CASE NotRegistered
    BY <2>1 DEF NotRegistered, NotRun
  <2>2. CASE Gate
    <3>1. \/ UNCHANGED <<toolName, happened, result, size, inUse, title, risk, heard, row>>
          \/ NotRun(Failed("failure"))
      BY <2>2, Zenon DEF Gate
    <3> QED
      BY <3>1 DEF NotRun
  <2>3. CASE Run
    BY <2>3 DEF Run
  <2>4. CASE Summarize
    BY <2>4 DEF Summarize
  <2>5. CASE Tell
    BY <2>5 DEF Tell
  <2> QED
    BY <2>1, <2>2, <2>3, <2>4, <2>5 DEF ONext, ovars
<1>3. SizeInv => TerserUnderPressure
  BY ShorterUnderPressure DEF TerserUnderPressure
<1> QED
  BY <1>1, <1>2, <1>3, PTL DEF OSpec

-----------------------------------------------------------------------------
(* Recall.  What the notes and skills of a run are followed with: a line   *)
(* holds a note, and lines go into the file only behind the others.        *)
Less == {ss \in Nat \X Nat : ss[1] < ss[2]}

LEMMA LeastNatural ==
  ASSUME NEW T, T \subseteq Nat, T # {}
  PROVE  \E x \in T : \A y \in T : x <= y
<1>1. IsWellFoundedOn(Less, Nat)
  BY NatLessThanWellFounded, Zenon DEF OpToRel, Less
<1>2. PICK x \in T : \A y \in T : ~ (<<y, x>> \in Less)
  BY <1>1, WFMin, Zenon
<1>3. ASSUME NEW y \in T PROVE x <= y
  <2>1. x \in Nat /\ y \in Nat /\ ~(<<y, x>> \in Less)
    BY <1>2
  <2> QED
    BY <2>1 DEF Less
<1> QED
  BY <1>3

LEMMA GreatestOf ==
  ASSUME NEW n \in Nat, NEW T, T \subseteq 0..n, T # {}
  PROVE  \E k \in T : \A j \in T : j <= k
<1> DEFINE U == {n - j : j \in T}
<1>1. U \subseteq Nat /\ U # {}
  <2>1. \A j \in T : n - j \in Nat
    OBVIOUS
  <2> QED
    BY <2>1
<1>2. PICK u \in U : \A v \in U : u <= v
  BY <1>1, LeastNatural
<1>3. PICK k \in T : u = n - k
  BY <1>2
<1>4. \A j \in T : j <= k
  <2> SUFFICES ASSUME NEW j \in T PROVE j <= k
    OBVIOUS
  <2>1. u <= n - j /\ k \in Int /\ j \in Int /\ n \in Int
    BY <1>2
  <2> QED
    BY <2>1, <1>3
<1> QED
  BY <1>4

(* LoadBounded cuts the lines at one point, or not at all.                 *)
LEMMA NothingFits == Size(<<>>) = 0
BY DEF Size, FlattenSeq

LEMMA CutOnce ==
  ASSUME NEW S, NEW lines \in Seq(S), NEW limit \in Nat
  PROVE  /\ \E k \in 0..Len(lines) : LoadBounded(lines, limit) = SubSeq(lines, 1, k)
         /\ Size(lines) <= limit => LoadBounded(lines, limit) = lines
<1> DEFINE Fits(k) == Size(SubSeq(lines, 1, k)) <= limit
           T == {k \in 0..Len(lines) : Fits(k)}
<1>1. Len(lines) \in Nat
  OBVIOUS
<1>2. CASE Size(lines) <= limit
  <2>1. SubSeq(lines, 1, Len(lines)) = lines
    OBVIOUS
  <2>2. LoadBounded(lines, limit) = lines
    BY <1>2, Zenon DEF LoadBounded
  <2>3. Len(lines) \in 0..Len(lines)
    BY <1>1
  <2> QED
    BY <2>1, <2>2, <2>3
<1>3. CASE ~(Size(lines) <= limit)
  <2>1. 0 \in T
    <3>1. SubSeq(lines, 1, 0) = <<>>
      OBVIOUS
    <3>2. Size(SubSeq(lines, 1, 0)) = 0
      BY <3>1, NothingFits, Zenon
    <3>3. Fits(0)
      BY <3>2
    <3> HIDE DEF Fits
    <3> QED
      BY <1>1, <3>3
  <2> HIDE DEF Fits
  <2>2. PICK k \in T : \A j \in T : j <= k
    BY <1>1, <2>1, GreatestOf
  <2>3. k \in 0..Len(lines) /\ Fits(k) /\ \A j \in k + 1 .. Len(lines) : ~Fits(j)
    BY <1>1, <2>2
  <2> DEFINE c == CHOOSE c \in 0..Len(lines) : Fits(c) /\ \A j \in c + 1 .. Len(lines) : ~Fits(j)
  <2>4. c \in 0..Len(lines)
    BY <2>3
  <2>5. LoadBounded(lines, limit) = SubSeq(lines, 1, c)
    BY <1>3 DEF LoadBounded, Fits
  <2> HIDE DEF c
  <2> QED
    BY <1>3, <2>4, <2>5
<1> QED
  BY <1>2, <1>3

(* What Load reads of a file is the file's lines, further down.            *)
Holds(line, n) == \E k \in DOMAIN line : line[k] = n
Shifted(from, to, by) ==
  /\ \A a \in DOMAIN from, n \in Notes :
       Holds(from[a], n) => a + by \in DOMAIN to /\ Holds(to[a + by], n)
  /\ \A b \in DOMAIN to, n \in Notes :
       Holds(to[b], n) => b - by \in DOMAIN from /\ Holds(from[b - by], n)

LEMMA MarksHoldNothing ==
  ASSUME NEW mark \in Marks, NEW n \in Notes
  PROVE  ~Holds(<<mark>>, n)
<1>1. mark # n
  BY RecallAssumption
<1> QED
  BY <1>1 DEF Holds

LEMMA SectionShifts ==
  ASSUME NEW S, Marks \subseteq S, NEW lines \in Seq(Seq(S)), NEW heading \in Marks
  PROVE  /\ Section(heading, lines) \in Seq(Seq(S))
         /\ \E by \in Int : Shifted(lines, Section(heading, lines), by)
<1> DEFINE to == <<<<heading>>>> \o lines
           short == <<<<heading>>>> \o Tail(lines)
<1>0. <<heading>> \in Seq(S)
  OBVIOUS
<1>1. CASE lines = <<>>
  <2>1. Body(lines) = <<>>
    BY <1>1, Zenon DEF Body
  <2>2. Section(heading, lines) = <<>>
    BY <2>1 DEF Section
  <2>3. Shifted(lines, <<>>, 0)
    BY <1>1 DEF Shifted
  <2>4. <<>> \in Seq(Seq(S))
    OBVIOUS
  <2> QED
    BY <2>2, <2>3, <2>4
<1>2. CASE lines # <<>> /\ lines[1] # <<"header">>
  <2>1. Body(lines) = lines
    BY <1>2 DEF Body
  <2>2. Section(heading, lines) = to
    BY <1>2, <2>1 DEF Section
  <2>3. /\ to \in Seq(Seq(S)) /\ Len(to) = Len(lines) + 1 /\ to[1] = <<heading>>
        /\ \A b \in 2..Len(to) : to[b] = lines[b - 1]
    BY <1>0
  <2> HIDE DEF to
  <2>4. Shifted(lines, to, 1)
    <3>1. ASSUME NEW a \in DOMAIN lines, NEW n \in Notes, Holds(lines[a], n)
          PROVE  a + 1 \in DOMAIN to /\ Holds(to[a + 1], n)
      <4>1. a + 1 \in 2..Len(to) /\ (a + 1) - 1 = a
        BY <2>3
      <4> QED
        BY <2>3, <3>1, <4>1
    <3>2. ASSUME NEW b \in DOMAIN to, NEW n \in Notes, Holds(to[b], n)
          PROVE  b - 1 \in DOMAIN lines /\ Holds(lines[b - 1], n)
      <4>1. b # 1
        BY <2>3, <3>2, MarksHoldNothing
      <4>2. b \in 2..Len(to)
        BY <2>3, <4>1
      <4> QED
        BY <2>3, <3>2, <4>2
    <3> QED
      BY <3>1, <3>2 DEF Shifted
  <2> QED
    BY <2>2, <2>3, <2>4
<1>3. CASE lines # <<>> /\ lines[1] = <<"header">>
  <2>1. Body(lines) = Tail(lines)
    BY <1>3 DEF Body
  <2>2. \A n \in Notes : ~Holds(lines[1], n)
    <3>1. "header" \in Marks
      BY DEF Marks
    <3> QED
      BY <1>3, <3>1, MarksHoldNothing
  <2>3. CASE Tail(lines) = <<>>
    <3>1. Section(heading, lines) = <<>>
      BY <2>1, <2>3 DEF Section
    <3>2. Len(lines) = 1
      <4>1. Len(Tail(lines)) = Len(lines) - 1 /\ Len(lines) \in Nat
        BY <1>3
      <4>2. Len(<<>>) = 0
        OBVIOUS
      <4>3. Len(Tail(lines)) = 0
        BY <2>3, <4>2, Zenon
      <4> QED
        BY <4>1, <4>3
    <3>3. Shifted(lines, <<>>, 0)
      BY <2>2, <3>2 DEF Shifted
    <3>4. <<>> \in Seq(Seq(S))
      OBVIOUS
    <3> QED
      BY <3>1, <3>3, <3>4
  <2>4. CASE Tail(lines) # <<>>
    <3>1. Section(heading, lines) = short
      BY <2>1, <2>4 DEF Section
    <3>2. /\ short \in Seq(Seq(S)) /\ Len(short) = Len(lines) /\ short[1] = <<heading>>
          /\ \A b \in 2..Len(short) : short[b] = lines[b]
      BY <1>0, <1>3
    <3> HIDE DEF short
    <3>3. \A n \in Notes : ~Holds(short[1], n)
      BY <3>2, MarksHoldNothing
    <3>4. Shifted(lines, short, 0)
      <4>1. ASSUME NEW a \in DOMAIN lines, NEW n \in Notes, Holds(lines[a], n)
            PROVE  a + 0 \in DOMAIN short /\ Holds(short[a + 0], n)
        <5>1. a \in 2..Len(short) /\ a + 0 = a
          BY <2>2, <3>2, <4>1
        <5> QED
          BY <3>2, <4>1, <5>1
      <4>2. ASSUME NEW b \in DOMAIN short, NEW n \in Notes, Holds(short[b], n)
            PROVE  b - 0 \in DOMAIN lines /\ Holds(lines[b - 0], n)
        <5>0. b # 1
          BY <3>3, <4>2
        <5>1. b \in 2..Len(short) /\ b - 0 = b
          BY <3>2, <5>0
        <5> QED
          BY <3>2, <4>2, <5>1
      <4> QED
        BY <4>1, <4>2 DEF Shifted
    <3> QED
      BY <3>1, <3>2, <3>4
  <2> QED
    BY <2>3, <2>4
<1> QED
  BY <1>1, <1>2, <1>3

LEMMA Joined ==
  ASSUME NEW S, NEW s \in Seq(S), NEW t \in Seq(S)
  PROVE  /\ s \o t \in Seq(S) /\ Len(s \o t) = Len(s) + Len(t)
         /\ DOMAIN (s \o t) = 1..(Len(s) + Len(t))
         /\ \A b \in 1..Len(s) : (s \o t)[b] = s[b]
         /\ \A c \in 1..Len(t) : (s \o t)[c + Len(s)] = t[c]
OBVIOUS

LEMMA LoadShifts ==
  ASSUME NEW lines \in Seq(Seq(Notes \union Marks))
  PROVE  /\ \E S : Load(lines) \in Seq(S)
         /\ \E by \in Int : Shifted(lines, Load(lines), by)
<1> DEFINE Theirs == UNION {ToSet(line) : line \in ToSet(Global)}
           S == Notes \union Marks \union Theirs
           first == Section("global", Global)
           second == Section("project", lines)
           all == first \o second
<1>0. "global" \in Marks /\ "project" \in Marks
  BY DEF Marks
<1>1. Global \in Seq(Seq(Theirs)) /\ \A line \in ToSet(Global) : ToSet(line) \intersect Notes = {}
  BY RecallAssumption
<1> HIDE DEF Theirs
<1>2. Marks \subseteq S /\ Global \in Seq(Seq(S)) /\ lines \in Seq(Seq(S))
  <2>1. Seq(Seq(Theirs)) \subseteq Seq(Seq(S)) /\ Seq(Seq(Notes \union Marks)) \subseteq Seq(Seq(S))
    OBVIOUS
  <2> QED
    BY <1>1, <2>1
<1> HIDE DEF S
<1>3. /\ first \in Seq(Seq(S)) /\ second \in Seq(Seq(S))
      /\ \E by \in Int : Shifted(Global, first, by)
      /\ \E by \in Int : Shifted(lines, second, by)
  BY <1>0, <1>2, SectionShifts
<1>4. \A a \in DOMAIN Global, n \in Notes : ~Holds(Global[a], n)
  BY <1>1 DEF Holds, ToSet
<1> HIDE DEF first, second
<1>5. \A a \in DOMAIN first, n \in Notes : ~Holds(first[a], n)
  BY <1>3, <1>4 DEF Shifted
<1>6. PICK by \in Int : Shifted(lines, second, by)
  BY <1>3
<1>7. /\ all \in Seq(Seq(S)) /\ Len(all) = Len(first) + Len(second)
      /\ Len(first) \in Nat /\ Len(second) \in Nat
      /\ \A b \in 1..Len(first) : all[b] = first[b]
      /\ \A b \in 1..Len(second) : all[b + Len(first)] = second[b]
  <2>1. first \in Seq(Seq(S)) /\ second \in Seq(Seq(S))
    BY <1>3
  <2>2. Len(first) \in Nat /\ Len(second) \in Nat
    BY <2>1
  <2> QED
    BY <2>1, <2>2, Joined, SMTT(60)
<1>8. Load(lines) = all
  BY DEF Load, first, second
<1> HIDE DEF all
<1> DEFINE on == by + Len(first)
<1>9. Shifted(lines, all, on)
  <2>1. ASSUME NEW a \in DOMAIN lines, NEW n \in Notes, Holds(lines[a], n)
        PROVE  a + on \in DOMAIN all /\ Holds(all[a + on], n)
    <3>1. a + by \in DOMAIN second /\ Holds(second[a + by], n)
      BY <1>6, <2>1 DEF Shifted
    <3>2. a + by \in 1..Len(second) /\ a \in Int
      BY <1>3, <3>1
    <3> DEFINE c == a + by
    <3>3. a + on = c + Len(first)
      BY <1>7, <3>2
    <3>4. c \in 1..Len(second) /\ Holds(second[c], n)
      BY <3>1, <3>2
    <3> HIDE DEF c
    <3>5. all[c + Len(first)] = second[c] /\ c + Len(first) \in 1..Len(all)
      BY <1>7, <3>4
    <3>6. Holds(all[c + Len(first)], n) /\ c + Len(first) \in DOMAIN all
      BY <1>7, <3>4, <3>5
    <3> HIDE DEF on
    <3> QED
      BY <3>3, <3>6
  <2>2. ASSUME NEW b \in DOMAIN all, NEW n \in Notes, Holds(all[b], n)
        PROVE  b - on \in DOMAIN lines /\ Holds(lines[b - on], n)
    <3>1. b \in 1..Len(all) /\ b \in Int
      BY <1>7
    <3>2. ~(b \in 1..Len(first))
      <4> SUFFICES ASSUME b \in 1..Len(first) PROVE FALSE
        OBVIOUS
      <4>1. b \in DOMAIN first
        BY <1>3
      <4>2. all[b] = first[b]
        BY <1>7
      <4> QED
        BY <1>5, <2>2, <4>1, <4>2
    <3> DEFINE c == b - Len(first)
    <3>3. c \in 1..Len(second) /\ c + Len(first) = b
      BY <1>7, <3>1, <3>2
    <3>4. c \in DOMAIN second /\ Holds(second[c], n)
      BY <1>3, <1>7, <2>2, <3>3
    <3>5. c - by \in DOMAIN lines /\ Holds(lines[c - by], n)
      BY <1>6, <3>4 DEF Shifted
    <3>6. c - by = b - on
      BY <1>7, <3>1
    <3> QED
      BY <3>5, <3>6
  <2> QED
    BY <2>1, <2>2 DEF Shifted
<1>10. on \in Int
  BY <1>7
<1> QED
  BY <1>7, <1>8, <1>9, <1>10

(* What is written stands behind what was there, on its last line or on    *)
(* the next.                                                               *)
Words == Notes \union Marks

LEMMA HoldsJoined ==
  ASSUME NEW S, NEW s \in Seq(S), NEW t \in Seq(S), NEW n
  PROVE  Holds(s \o t, n) <=> Holds(s, n) \/ Holds(t, n)
<1> DEFINE r == s \o t
<1>1. /\ Len(s) \in Nat /\ Len(t) \in Nat /\ DOMAIN s = 1..Len(s) /\ DOMAIN t = 1..Len(t)
      /\ DOMAIN r = 1..(Len(s) + Len(t))
      /\ \A k \in 1..Len(s) : r[k] = s[k]
      /\ \A k \in 1..Len(t) : r[k + Len(s)] = t[k]
  OBVIOUS
<1> HIDE DEF r
<1>2. \A k \in DOMAIN r : k \in DOMAIN s \/ (k - Len(s) \in DOMAIN t /\ r[k] = t[k - Len(s)])
  <2> SUFFICES ASSUME NEW k \in DOMAIN r, k \notin DOMAIN s
               PROVE  k - Len(s) \in DOMAIN t /\ r[k] = t[k - Len(s)]
    OBVIOUS
  <2> DEFINE j == k - Len(s)
  <2>1. j \in 1..Len(t) /\ j + Len(s) = k
    BY <1>1
  <2> HIDE DEF j
  <2>2. r[j + Len(s)] = t[j] /\ j \in DOMAIN t
    BY <1>1, <2>1
  <2> QED
    BY <2>1, <2>2 DEF j
<1>3. Holds(r, n) => Holds(s, n) \/ Holds(t, n)
  BY <1>1, <1>2 DEF Holds
<1>4. Holds(s, n) => Holds(r, n)
  BY <1>1 DEF Holds
<1>5. Holds(t, n) => Holds(r, n)
  BY <1>1 DEF Holds
<1> QED
  BY <1>3, <1>4, <1>5 DEF r

Grown(lines, text, r) ==
  \E d \in Nat :
    /\ Len(r) = d + Len(text) /\ Len(lines) <= Len(r)
    /\ \A b \in DOMAIN r, n \in Notes :
         Holds(r[b], n) <=> \/ b \in DOMAIN lines /\ Holds(lines[b], n)
                            \/ b - d \in DOMAIN text /\ Holds(text[b - d], n)

LEMMA BehindHolds ==
  ASSUME NEW lines \in Seq(Seq(Words)), NEW text \in Seq(Seq(Words)), text # <<>>,
         partial => lines # <<>>, NEW r, r = Behind(lines, text)
  PROVE  r \in Seq(Seq(Words)) /\ r # <<>> /\ Grown(lines, text, r)
<1> DEFINE L == Len(lines)
<1>0. /\ L \in Nat /\ Len(text) \in Nat /\ Len(text) >= 1 /\ DOMAIN lines = 1..L
      /\ DOMAIN text = 1..Len(text)
  OBVIOUS
<1>1. CASE ~partial
  <2> DEFINE q == lines \o text
  <2>1. r = q
    BY <1>1, Zenon DEF Behind
  <2>2. /\ q \in Seq(Seq(Words)) /\ Len(q) = L + Len(text) /\ DOMAIN q = 1..(L + Len(text))
        /\ \A b \in 1..L : q[b] = lines[b]
        /\ \A c \in 1..Len(text) : q[c + L] = text[c]
    BY <1>0
  <2> HIDE DEF q
  <2>3. ASSUME NEW b \in DOMAIN q, NEW n \in Notes
        PROVE  Holds(q[b], n) <=> \/ b \in DOMAIN lines /\ Holds(lines[b], n)
                                  \/ b - L \in DOMAIN text /\ Holds(text[b - L], n)
    <3>1. CASE b \in 1..L
      <4>1. ~(b - L \in DOMAIN text)
        BY <1>0, <3>1
      <4> QED
        BY <1>0, <2>2, <3>1, <4>1
    <3>2. CASE b \notin 1..L
      <4> DEFINE c == b - L
      <4>1. c \in 1..Len(text) /\ c + L = b
        BY <1>0, <2>2, <3>2
      <4>2. q[b] = text[c]
        BY <2>2, <4>1
      <4> QED
        BY <1>0, <3>2, <4>1, <4>2
    <3> QED
      BY <3>1, <3>2
  <2>4. q # <<>> /\ L <= Len(q)
    BY <1>0, <2>2
  <2> HIDE DEF L
  <2>5. \E d \in Nat :
          /\ Len(q) = d + Len(text) /\ L <= Len(q)
          /\ \A b \in DOMAIN q, n \in Notes :
               Holds(q[b], n) <=> \/ b \in DOMAIN lines /\ Holds(lines[b], n)
                                  \/ b - d \in DOMAIN text /\ Holds(text[b - d], n)
    BY <1>0, <2>2, <2>3, <2>4
  <2> QED
    BY <2>1, <2>2, <2>4, <2>5 DEF L, Grown
<1>2. CASE partial
  <2> DEFINE last == lines[L] \o text[1]
             head == [lines EXCEPT ![L] = last]
             rest == Tail(text)
             q == head \o rest
             d == L - 1
  <2>1. r = q
    <3>1. [lines EXCEPT ![L] = @ \o text[1]] = head
      OBVIOUS
    <3> QED
      BY <1>2, <3>1, Zenon DEF Behind
  <2>2. L >= 1 /\ d \in Nat /\ lines[L] \in Seq(Words) /\ text[1] \in Seq(Words) /\ d + 1 = L
    BY <1>0, <1>2
  <2>3. last \in Seq(Words) /\ \A n : Holds(last, n) <=> Holds(lines[L], n) \/ Holds(text[1], n)
    BY <2>2, HoldsJoined
  <2> HIDE DEF last
  <2>4. /\ head \in Seq(Seq(Words)) /\ Len(head) = L /\ head[L] = last
        /\ \A b \in 1..L : b # L => head[b] = lines[b]
    <3>1. L \in 1..Len(lines)
      BY <1>0, <2>2
    <3>2. /\ head \in Seq(Seq(Words)) /\ Len(head) = Len(lines)
          /\ \A b \in 1..Len(lines) : head[b] = IF b = L THEN last ELSE lines[b]
      BY <2>3, <3>1, ExceptSeq
    <3> QED
      BY <3>1, <3>2
  <2>5. /\ rest \in Seq(Seq(Words)) /\ Len(rest) = Len(text) - 1
        /\ \A c \in 1..Len(rest) : rest[c] = text[c + 1]
    BY <1>0
  <2> HIDE DEF head, rest, L
  <2>6. /\ q \in Seq(Seq(Words)) /\ Len(q) = L + Len(rest) /\ DOMAIN q = 1..(L + Len(rest))
        /\ \A b \in 1..L : q[b] = head[b]
        /\ \A c \in 1..Len(rest) : q[c + L] = rest[c]
    <3>1. /\ q \in Seq(Seq(Words)) /\ Len(q) = Len(head) + Len(rest)
          /\ DOMAIN q = 1..(Len(head) + Len(rest))
          /\ \A b \in 1..Len(head) : q[b] = head[b]
          /\ \A c \in 1..Len(rest) : q[c + Len(head)] = rest[c]
      <4>1. head \in Seq(Seq(Words)) /\ rest \in Seq(Seq(Words))
        BY <2>4, <2>5
      <4> QED
        BY <4>1, Joined, SMTT(60)
    <3> QED
      BY <2>4, <3>1
  <2> HIDE DEF q
  <2>7. ASSUME NEW b \in DOMAIN q, NEW n \in Notes
        PROVE  Holds(q[b], n) <=> \/ b \in DOMAIN lines /\ Holds(lines[b], n)
                                  \/ b - d \in DOMAIN text /\ Holds(text[b - d], n)
    <3>0. b \in Int
      BY <1>0, <2>5, <2>6
    <3>1. CASE b < L
      <4>1. ~(b - d \in DOMAIN text) /\ b \in 1..L /\ b # L
        BY <1>0, <2>6, <3>0, <3>1
      <4> QED
        BY <1>0, <2>4, <2>6, <4>1
    <3>2. CASE b = L
      <4>1. b - d = 1 /\ 1 \in DOMAIN text /\ b \in DOMAIN lines /\ b \in 1..L
        BY <1>0, <2>2, <3>2
      <4>2. q[b] = last /\ lines[b] = lines[L]
        BY <2>4, <2>6, <3>2, <4>1
      <4> QED
        BY <2>3, <4>1, <4>2
    <3>3. CASE b > L
      <4> DEFINE c == b - L
      <4>1. c \in 1..Len(rest) /\ c + L = b /\ c + 1 = b - d /\ b \notin DOMAIN lines
        <5>1. L \in Nat /\ Len(rest) \in Nat /\ b \in 1..(L + Len(rest))
          BY <1>0, <2>5, <2>6
        <5> QED
          BY <1>0, <3>3, <5>1
      <4>2. q[b] = rest[c] /\ rest[c] = text[c + 1]
        BY <2>5, <2>6, <4>1
      <4>3. b - d \in DOMAIN text
        <5>1. Len(rest) = Len(text) - 1 /\ Len(text) \in Nat
          BY <1>0, <2>5
        <5>2. c + 1 \in 1..Len(text)
          BY <4>1, <5>1
        <5> HIDE DEF c
        <5> QED
          BY <1>0, <4>1, <5>2
      <4> HIDE DEF c, d
      <4> QED
        BY <4>1, <4>2, <4>3
    <3> QED
      BY <1>0, <3>0, <3>1, <3>2, <3>3
  <2>8. q # <<>> /\ L <= Len(q) /\ Len(q) = d + Len(text)
    BY <1>0, <2>2, <2>5, <2>6
  <2> HIDE DEF d
  <2>9. \E e \in Nat :
          /\ Len(q) = e + Len(text) /\ L <= Len(q)
          /\ \A b \in DOMAIN q, n \in Notes :
               Holds(q[b], n) <=> \/ b \in DOMAIN lines /\ Holds(lines[b], n)
                                  \/ b - e \in DOMAIN text /\ Holds(text[b - e], n)
    BY <2>2, <2>7, <2>8
  <2> QED
    BY <2>1, <2>6, <2>8, <2>9 DEF L, Grown
<1> QED
  BY <1>1, <1>2

(* The file holds the notes that were recorded, all of them and no other,  *)
(* in their order.                                                         *)
Known(n) == \E i \in DOMAIN recorded : recorded[i] = n

FileInv ==
  /\ project \in Seq(Seq(Words)) /\ partial \in BOOLEAN /\ recorded \in Seq(Notes)
  /\ partial => project # <<>>
  /\ \A i \in DOMAIN recorded : \E a \in DOMAIN project : Holds(project[a], recorded[i])
  /\ \A a \in DOMAIN project, n \in Notes : Holds(project[a], n) => Known(n)
  /\ \A i, j \in DOMAIN recorded, a, b \in DOMAIN project :
       i <= j /\ Holds(project[a], recorded[i]) /\ Holds(project[b], recorded[j]) => a <= b

LEMMA NoteText ==
  ASSUME NEW n \in Words, "header" \in Words, NEW header \in BOOLEAN,
         NEW text, text = (IF header THEN <<<<"header">>>> ELSE <<>>) \o <<<<n>>>>
  PROVE  /\ text \in Seq(Seq(Words)) /\ text # <<>>
         /\ \E T \in Nat : /\ T >= 1 /\ Len(text) = T /\ DOMAIN text = 1..T /\ text[T] = <<n>>
                          /\ \A c \in 1..T : c # T => text[c] = <<"header">>
<1> DEFINE first == IF header THEN <<<<"header">>>> ELSE <<>>
           last == <<<<n>>>>
<1>1. last \in Seq(Seq(Words)) /\ Len(last) = 1 /\ last[1] = <<n>>
  BY Zenon, SMT
<1>2. /\ first \in Seq(Seq(Words))
      /\ \/ Len(first) = 0
         \/ Len(first) = 1 /\ first[1] = <<"header">>
  OBVIOUS
<1>3. text = first \o last
  OBVIOUS
<1> HIDE DEF first, last
<1>4. /\ text \in Seq(Seq(Words)) /\ Len(text) = Len(first) + Len(last)
      /\ DOMAIN text = 1..(Len(first) + Len(last))
      /\ \A b \in 1..Len(first) : text[b] = first[b]
      /\ \A c \in 1..Len(last) : text[c + Len(first)] = last[c]
  BY <1>1, <1>2, <1>3, Joined, SMTT(60)
<1> DEFINE T == Len(first) + 1
<1>5. T \in Nat /\ T >= 1 /\ Len(text) = T /\ DOMAIN text = 1..T /\ text[T] = <<n>>
  BY <1>1, <1>2, <1>4
<1>6. \A c \in 1..T : c # T => text[c] = <<"header">>
  BY <1>2, <1>4
<1>7. text # <<>>
  BY <1>5
<1> HIDE DEF T
<1> QED
  BY <1>4, <1>5, <1>6, <1>7

LEMMA ProjectGrows ==
  ASSUME project \in Seq(Seq(Words)), partial => project # <<>>,
         NEW text \in Seq(Seq(Words)), text # <<>>, project' = Behind(project, text)
  PROVE  project' \in Seq(Seq(Words)) /\ project' # <<>> /\ Grown(project, text, project')
BY BehindHolds

LEMMA RecordedGrows ==
  ASSUME recorded \in Seq(Notes), NEW n \in Notes, recorded' = Append(recorded, n)
  PROVE  /\ recorded' \in Seq(Notes)
         /\ \E R \in Nat :
              /\ R >= 1 /\ DOMAIN recorded' = 1..R /\ DOMAIN recorded = 1..(R - 1) /\ recorded'[R] = n
              /\ \A i \in 1..(R - 1) : recorded'[i] = recorded[i] /\ recorded[i] \in Notes
<1> DEFINE R == Len(recorded) + 1
<1>1. /\ recorded' \in Seq(Notes) /\ DOMAIN recorded' = 1..R /\ DOMAIN recorded = 1..Len(recorded)
      /\ Len(recorded) \in Nat /\ recorded'[R] = n
      /\ \A i \in 1..Len(recorded) : recorded'[i] = recorded[i] /\ recorded[i] \in Notes
  OBVIOUS
<1>2. R \in Nat /\ R >= 1 /\ R - 1 = Len(recorded)
  BY <1>1
<1> HIDE DEF R
<1> QED
  BY <1>1, <1>2

LEMMA NoteIsWritten ==
  ASSUME FileInv, NEW n \in Notes, ~Known(n), NEW header \in BOOLEAN,
         project' = Behind(project, (IF header THEN <<<<"header">>>> ELSE <<>>) \o <<<<n>>>>),
         partial' = FALSE, recorded' = Append(recorded, n)
  PROVE  FileInv'
<1> DEFINE text == (IF header THEN <<<<"header">>>> ELSE <<>>) \o <<<<n>>>>
<1>0. /\ project \in Seq(Seq(Words)) /\ recorded \in Seq(Notes)
      /\ partial => project # <<>>
      /\ "header" \in Marks /\ "header" \in Words /\ n \in Words
  BY DEF FileInv, Marks, Words
<1>1. /\ text \in Seq(Seq(Words)) /\ text # <<>>
      /\ \E T \in Nat : /\ T >= 1 /\ Len(text) = T /\ DOMAIN text = 1..T /\ text[T] = <<n>>
                       /\ \A c \in 1..T : c # T => text[c] = <<"header">>
  BY <1>0, NoteText
<1> HIDE DEF text
<1>2. project' \in Seq(Seq(Words)) /\ project' # <<>> /\ Grown(project, text, project')
  <2>1. project' = Behind(project, text)
    BY DEF text
  <2> QED
    BY <1>0, <1>1, <2>1, ProjectGrows
<1>t. PICK T \in Nat : /\ T >= 1 /\ Len(text) = T /\ DOMAIN text = 1..T /\ text[T] = <<n>>
                     /\ \A c \in 1..T : c # T => text[c] = <<"header">>
  BY <1>1
<1>3. PICK d \in Nat :
        /\ Len(project') = d + T /\ Len(project) <= Len(project')
        /\ \A b \in DOMAIN project', m \in Notes :
             Holds(project'[b], m) <=> \/ b \in DOMAIN project /\ Holds(project[b], m)
                                       \/ b - d \in DOMAIN text /\ Holds(text[b - d], m)
  BY <1>2, <1>t DEF Grown
<1> DEFINE L == d + T
<1>4. /\ L \in Nat /\ L >= 1 /\ DOMAIN project' = 1..L /\ DOMAIN project = 1..Len(project)
      /\ Len(project) \in Nat /\ Len(project) <= L /\ DOMAIN project \subseteq DOMAIN project'
  <2>1. L \in Nat /\ L >= 1 /\ Len(project') = L /\ Len(project) <= L
    BY <1>3, <1>t
  <2> HIDE DEF L
  <2>2. DOMAIN project' = 1..L /\ DOMAIN project = 1..Len(project) /\ Len(project) \in Nat
    BY <1>0, <1>2, <2>1
  <2> QED
    BY <2>1, <2>2
<1>5. \A c \in DOMAIN text, m \in Notes : Holds(text[c], m) <=> c = T /\ m = n
  <2>1. \A m \in Notes : ~Holds(<<"header">>, m)
    BY <1>0, MarksHoldNothing
  <2>2. \A m : Holds(<<n>>, m) <=> m = n
    BY DEF Holds
  <2> QED
    BY <1>t, <2>1, <2>2
<1>6. \A b \in 1..L, m \in Notes :
        Holds(project'[b], m) <=> (b \in DOMAIN project /\ Holds(project[b], m)) \/ (b = L /\ m = n)
  <2> SUFFICES ASSUME NEW b \in 1..L, NEW m \in Notes
               PROVE  (b - d \in DOMAIN text /\ Holds(text[b - d], m)) <=> (b = L /\ m = n)
    BY <1>3, <1>4
  <2>1. b - d \in DOMAIN text /\ Holds(text[b - d], m) => b - d = T /\ m = n
    BY <1>5
  <2>2. b - d = T <=> b = L
    BY <1>4, <1>t
  <2>3. b = L /\ m = n => b - d \in DOMAIN text
    BY <1>t, <2>2
  <2>4. b = L /\ m = n => Holds(text[b - d], m)
    <3>1. T \in DOMAIN text
      BY <1>t
    <3>2. Holds(text[T], n)
      BY <1>5, <3>1
    <3> QED
      BY <2>2, <3>2
  <2> QED
    BY <2>1, <2>2, <2>3, <2>4
<1>7. /\ recorded' \in Seq(Notes)
      /\ \E R \in Nat :
           /\ R >= 1 /\ DOMAIN recorded' = 1..R /\ DOMAIN recorded = 1..(R - 1) /\ recorded'[R] = n
           /\ \A i \in 1..(R - 1) : recorded'[i] = recorded[i] /\ recorded[i] \in Notes
  BY <1>0, RecordedGrows
<1>r. PICK R \in Nat :
           /\ R >= 1 /\ DOMAIN recorded' = 1..R /\ DOMAIN recorded = 1..(R - 1) /\ recorded'[R] = n
           /\ \A i \in 1..(R - 1) : recorded'[i] = recorded[i] /\ recorded[i] \in Notes
  BY <1>7
<1>8. \A a \in DOMAIN project : ~Holds(project[a], n)
  BY DEF FileInv
<1>9. \A i \in 1..(R - 1) : recorded[i] # n
  BY <1>r DEF Known
<1> HIDE DEF L
<1>10. \A i \in DOMAIN recorded' : \E a \in DOMAIN project' : Holds(project'[a], recorded'[i])
  <2> SUFFICES ASSUME NEW i \in 1..R PROVE \E a \in 1..L : Holds(project'[a], recorded'[i])
    BY <1>4, <1>r
  <2>1. CASE i = R
    <3>1. L \in 1..L
      BY <1>4
    <3> QED
      BY <1>6, <1>r, <2>1, <3>1
  <2>2. CASE i # R
    <3>1. i \in 1..(R - 1)
      BY <1>r, <2>2
    <3>2. PICK a \in DOMAIN project : Holds(project[a], recorded[i])
      BY <1>r, <3>1 DEF FileInv
    <3>3. a \in 1..L
      BY <1>4
    <3> QED
      BY <1>6, <1>r, <3>1, <3>2, <3>3
  <2> QED
    BY <2>1, <2>2
<1>11. \A a \in DOMAIN project', m \in Notes :
         Holds(project'[a], m) => \E i \in DOMAIN recorded' : recorded'[i] = m
  <2> SUFFICES ASSUME NEW a \in 1..L, NEW m \in Notes, Holds(project'[a], m)
               PROVE  \E i \in 1..R : recorded'[i] = m
    BY <1>4, <1>r
  <2>1. CASE m = n
    <3>1. R \in 1..R
      BY <1>r
    <3> QED
      BY <1>r, <2>1, <3>1
  <2>2. CASE m # n
    <3>1. a \in DOMAIN project /\ Holds(project[a], m)
      BY <1>6, <2>2
    <3>2. PICK i \in DOMAIN recorded : recorded[i] = m
      BY <3>1 DEF FileInv, Known
    <3>3. i \in 1..(R - 1) /\ i \in 1..R
      BY <1>r
    <3> QED
      BY <1>r, <3>2, <3>3
  <2> QED
    BY <2>1, <2>2
<1>12. \A i, j \in DOMAIN recorded', a, b \in DOMAIN project' :
         i <= j /\ Holds(project'[a], recorded'[i]) /\ Holds(project'[b], recorded'[j]) => a <= b
  <2> SUFFICES ASSUME NEW i \in 1..R, NEW j \in 1..R, NEW a \in 1..L, NEW b \in 1..L,
                      i <= j, Holds(project'[a], recorded'[i]), Holds(project'[b], recorded'[j])
               PROVE  a <= b
    BY <1>4, <1>r
  <2>1. CASE j = R
    <3>1. b = L
      BY <1>6, <1>r, <1>8, <2>1
    <3> QED
      BY <1>4, <3>1
  <2>2. CASE j # R
    <3>1. i \in 1..(R - 1) /\ j \in 1..(R - 1)
      BY <1>r, <2>2
    <3>2. /\ recorded'[i] = recorded[i] /\ recorded'[j] = recorded[j]
          /\ recorded[i] \in Notes /\ recorded[j] \in Notes /\ recorded[i] # n /\ recorded[j] # n
      BY <1>r, <1>9, <3>1
    <3>3. /\ a \in DOMAIN project /\ Holds(project[a], recorded[i])
          /\ b \in DOMAIN project /\ Holds(project[b], recorded[j])
      BY <1>6, <3>2
    <3> QED
      BY <1>r, <3>1, <3>3 DEF FileInv
  <2> QED
    BY <2>1, <2>2
<1> QED
  BY <1>2, <1>7, <1>10, <1>11, <1>12 DEF FileInv, Known

LEMMA PartIsWritten ==
  ASSUME FileInv, project' = Behind(project, <<<<"part">>>>), partial' = TRUE, recorded' = recorded
  PROVE  FileInv'
<1> DEFINE text == <<<<"part">>>>
<1>0. /\ project \in Seq(Seq(Words)) /\ recorded \in Seq(Notes) /\ "part" \in Marks
      /\ partial => project # <<>>
  BY DEF FileInv, Marks
<1>1. text \in Seq(Seq(Words)) /\ text # <<>> /\ DOMAIN text = 1..1 /\ text[1] = <<"part">>
  <2>1. "part" \in Words
    BY <1>0 DEF Words
  <2> QED
    BY <2>1
<1>2. \A c \in DOMAIN text, n \in Notes : ~Holds(text[c], n)
  BY <1>0, <1>1, MarksHoldNothing
<1>3. project' = Behind(project, text)
  OBVIOUS
<1> HIDE DEF text
<1>4. project' \in Seq(Seq(Words)) /\ project' # <<>> /\ Grown(project, text, project')
  BY <1>0, <1>1, <1>3, ProjectGrows
<1>5. /\ DOMAIN project \subseteq DOMAIN project'
      /\ \A b \in DOMAIN project', n \in Notes :
           Holds(project'[b], n) <=> b \in DOMAIN project /\ Holds(project[b], n)
  <2>1. \A b \in DOMAIN project', n \in Notes :
          Holds(project'[b], n) <=> b \in DOMAIN project /\ Holds(project[b], n)
    BY <1>2, <1>4 DEF Grown
  <2>2. Len(project) <= Len(project')
    BY <1>4 DEF Grown
  <2> QED
    BY <1>0, <1>4, <2>1, <2>2
<1>6. \A i \in DOMAIN recorded : recorded[i] \in Notes
  BY <1>0
<1>7. \A i \in DOMAIN recorded : \E a \in DOMAIN project' : Holds(project'[a], recorded[i])
  <2> SUFFICES ASSUME NEW i \in DOMAIN recorded
               PROVE  \E a \in DOMAIN project' : Holds(project'[a], recorded[i])
    OBVIOUS
  <2>1. PICK a \in DOMAIN project : Holds(project[a], recorded[i])
    BY DEF FileInv
  <2> QED
    BY <1>5, <1>6, <2>1
<1>8. \A a \in DOMAIN project', n \in Notes : Holds(project'[a], n) => Known(n)
  BY <1>5 DEF FileInv
<1>9. \A i, j \in DOMAIN recorded, a, b \in DOMAIN project' :
        i <= j /\ Holds(project'[a], recorded[i]) /\ Holds(project'[b], recorded[j]) => a <= b
  BY <1>5, <1>6 DEF FileInv
<1> QED
  BY <1>0, <1>4, <1>7, <1>8, <1>9 DEF FileInv, Known

-----------------------------------------------------------------------------
(* A note on its way, in a writer's hand or in the control queue, is known *)
(* to nobody else.                                                         *)
Events == [type : {"memory", "skill", "clear"}, value : Notes \union Skills \union {"none"}]
IsNote(e) == e.type = "memory"

PendingInv ==
  /\ writing \in [Writers -> [note : Notes \union {"none"}, header : BOOLEAN]]
  /\ control \in Seq(Events)
  /\ \A w \in Writers : writing[w] # Nil => writing[w].note \in Notes /\ ~Known(writing[w].note)
  /\ \A w, v \in Writers : w # v /\ writing[w] # Nil => writing[v].note # writing[w].note
  /\ \A i \in DOMAIN control : IsNote(control[i]) =>
       /\ control[i].value \in Notes /\ ~Known(control[i].value)
       /\ \A w \in Writers : writing[w].note # control[i].value
  /\ \A i, j \in DOMAIN control :
       i # j /\ IsNote(control[i]) /\ IsNote(control[j]) => control[i].value # control[j].value

(* The note that w takes in hand is no longer in the queue.                *)
LEMMA LookKeeps ==
  ASSUME PendingInv, UNCHANGED recorded, NEW w \in Writers, NEW n \in Notes, Look(w, n), ~Known(n),
         \A v \in Writers : writing[v].note # n,
         control' \in Seq(Events),
         \A i \in DOMAIN control' : IsNote(control'[i]) =>
           /\ control'[i].value # n
           /\ control'[i].value \in Notes /\ ~Known(control'[i].value)
           /\ \A v \in Writers : writing[v].note # control'[i].value,
         \A i, j \in DOMAIN control' :
           i # j /\ IsNote(control'[i]) /\ IsNote(control'[j]) => control'[i].value # control'[j].value
  PROVE  PendingInv'
<1> DEFINE new == [note |-> n, header |-> project = <<>>]
<1>1. writing \in [Writers -> [note : Notes \union {"none"}, header : BOOLEAN]]
  BY DEF PendingInv
<1>2. new.note = n /\ new \in [note : Notes \union {"none"}, header : BOOLEAN]
  OBVIOUS
<1>3. writing' = [writing EXCEPT ![w] = new]
  BY DEF Look
<1> HIDE DEF new
<1>4. /\ writing' \in [Writers -> [note : Notes \union {"none"}, header : BOOLEAN]]
      /\ writing'[w] = new /\ \A v \in Writers : v # w => writing'[v] = writing[v]
  BY <1>1, <1>2, <1>3
<1>5. \A v \in Writers : writing'[v] # Nil => writing'[v].note \in Notes /\ ~Known(writing'[v].note)
  BY <1>2, <1>4 DEF PendingInv
<1>6. \A v, u \in Writers : v # u /\ writing'[v] # Nil => writing'[u].note # writing'[v].note
  BY <1>2, <1>4 DEF PendingInv
<1>7. \A i \in DOMAIN control' : IsNote(control'[i]) =>
        \A v \in Writers : writing'[v].note # control'[i].value
  BY <1>2, <1>4
<1> QED
  BY <1>4, <1>5, <1>6, <1>7 DEF PendingInv, Known

(* The note that w wrote is known, or lost with its write.                 *)
LEMMA WriteKeepsPending ==
  ASSUME PendingInv, NEW w \in Writers, writing[w] # Nil, UNCHANGED control,
         writing' = [writing EXCEPT ![w] = Nil],
         \A n \in Notes : Known(n)' => Known(n) \/ n = writing[w].note
  PROVE  PendingInv'
<1> DEFINE Later(n) == \E i \in DOMAIN recorded' : recorded'[i] = n
<1>1. writing \in [Writers -> [note : Notes \union {"none"}, header : BOOLEAN]]
  BY DEF PendingInv
<1>0. \A n \in Notes : Later(n) => Known(n) \/ n = writing[w].note
  BY DEF Known
<1> HIDE DEF Later
<1>2. Nil \in [note : Notes \union {"none"}, header : BOOLEAN] /\ Nil.note = "none"
  BY DEF Nil
<1>3. /\ writing' \in [Writers -> [note : Notes \union {"none"}, header : BOOLEAN]]
      /\ writing'[w] = Nil /\ \A v \in Writers : v # w => writing'[v] = writing[v]
  BY <1>1, <1>2
<1>4. "none" \notin Notes
  BY RecallAssumption DEF Marks
<1>5. \A v \in Writers : writing'[v] # Nil => writing'[v].note \in Notes /\ ~Later(writing'[v].note)
  <2> SUFFICES ASSUME NEW v \in Writers, writing'[v] # Nil
               PROVE  writing'[v].note \in Notes /\ ~Later(writing'[v].note)
    OBVIOUS
  <2>1. v # w /\ writing'[v] = writing[v]
    BY <1>3
  <2>2. writing[v].note \in Notes /\ ~Known(writing[v].note) /\ writing[v].note # writing[w].note
    BY <2>1 DEF PendingInv
  <2> QED
    BY <1>0, <2>1, <2>2
<1>6. \A v, u \in Writers : v # u /\ writing'[v] # Nil => writing'[u].note # writing'[v].note
  <2> SUFFICES ASSUME NEW v \in Writers, NEW u \in Writers, v # u, writing'[v] # Nil
               PROVE  writing'[u].note # writing'[v].note
    OBVIOUS
  <2>1. v # w /\ writing'[v] = writing[v] /\ writing[v].note \in Notes
    BY <1>3 DEF PendingInv
  <2> QED
    BY <1>2, <1>3, <1>4, <2>1 DEF PendingInv
<1>7. \A i \in DOMAIN control : IsNote(control[i]) =>
        /\ control[i].value \in Notes /\ ~Later(control[i].value)
        /\ \A v \in Writers : writing'[v].note # control[i].value
  <2> SUFFICES ASSUME NEW i \in DOMAIN control, IsNote(control[i])
               PROVE  /\ control[i].value \in Notes /\ ~Later(control[i].value)
                      /\ \A v \in Writers : writing'[v].note # control[i].value
    OBVIOUS
  <2>1. /\ control[i].value \in Notes /\ ~Known(control[i].value)
        /\ \A v \in Writers : writing[v].note # control[i].value
    BY DEF PendingInv
  <2> QED
    BY <1>0, <1>2, <1>3, <1>4, <2>1
<1> QED
  BY <1>3, <1>5, <1>6, <1>7 DEF PendingInv, Known, Later

-----------------------------------------------------------------------------
(* The notes a run was told, and since when.                               *)
Reads(n) == \E a \in DOMAIN told.memory : Holds(told.memory[a], n)

NotesTold ==
  /\ runtime \in {"idle", "starting", "running"}
  /\ runtime # "idle" => since.notes \in 0..Len(recorded)
  /\ runtime = "running" =>
       /\ \A n \in Notes : Reads(n) => Known(n)
       /\ \A i, j \in DOMAIN recorded : i < j /\ Reads(recorded[j]) => Reads(recorded[i])
       /\ told.whole => \A i \in 1..since.notes : Reads(recorded[i])

LEMMA BriefTells ==
  ASSUME FileInv, NotesTold, Brief
  PROVE  NotesTold'
<1> DEFINE all == Load(project)
           mem == LoadBounded(all, Limit)
<1>0. /\ project \in Seq(Seq(Words)) /\ recorded \in Seq(Notes) /\ Limit \in Nat
      /\ since.notes \in 0..Len(recorded)
  BY RecallAssumption DEF FileInv, NotesTold, Brief
<1>1. /\ runtime' = "running" /\ UNCHANGED <<recorded, since>>
      /\ told' = [memory |-> mem, whole |-> Size(all) <= Limit, skills |-> active]
  BY DEF Brief
<1>2. PICK S : all \in Seq(S)
  BY <1>0, LoadShifts DEF Words
<1>3. PICK by \in Int : Shifted(project, all, by)
  BY <1>0, LoadShifts DEF Words
<1> HIDE DEF all
<1>4. /\ \E k \in 0..Len(all) : mem = SubSeq(all, 1, k)
      /\ Size(all) <= Limit => mem = all
  BY <1>0, <1>2, CutOnce
<1> HIDE DEF mem
<1>5. PICK k \in 0..Len(all) : mem = SubSeq(all, 1, k)
  BY <1>4
<1>6. /\ k \in Nat /\ Len(all) \in Nat /\ k <= Len(all) /\ DOMAIN mem = 1..k /\ DOMAIN all = 1..Len(all)
      /\ \A a \in 1..k : mem[a] = all[a]
  BY <1>2, <1>5
<1> DEFINE Told(n) == \E a \in 1..k : Holds(all[a], n)
<1>7. \A n : Reads(n)' <=> Told(n)
  <2>1. told'.memory = mem
    BY <1>1
  <2> QED
    BY <1>6, <2>1 DEF Reads
<1>8. \A i \in DOMAIN recorded : recorded[i] \in Notes
  BY <1>0
<1>9. ASSUME NEW i \in DOMAIN recorded, NEW a \in 1..Len(all), NEW p \in DOMAIN project,
             Holds(project[p], recorded[i]), p + by <= a
      PROVE  p + by \in 1..a /\ Holds(all[p + by], recorded[i])
  <2>1. p + by \in DOMAIN all /\ Holds(all[p + by], recorded[i])
    BY <1>3, <1>8, <1>9 DEF Shifted
  <2> QED
    BY <1>6, <1>9, <2>1
<1>10. ASSUME NEW n \in Notes, Told(n) PROVE Known(n)
  <2>1. PICK a \in 1..k : Holds(all[a], n)
    BY <1>10
  <2>2. a \in DOMAIN all
    BY <1>6
  <2>3. a - by \in DOMAIN project /\ Holds(project[a - by], n)
    BY <1>3, <2>1, <2>2 DEF Shifted
  <2> QED
    BY <2>3 DEF FileInv
<1>11. ASSUME NEW i \in DOMAIN recorded, NEW j \in DOMAIN recorded, i < j, Told(recorded[j])
       PROVE  Told(recorded[i])
  <2>1. PICK a \in 1..k : Holds(all[a], recorded[j])
    BY <1>11
  <2>2. a \in DOMAIN all /\ a \in Int /\ a \in 1..Len(all)
    BY <1>6
  <2>3. a - by \in DOMAIN project /\ Holds(project[a - by], recorded[j])
    BY <1>3, <1>8, <2>1, <2>2 DEF Shifted
  <2>4. PICK p \in DOMAIN project : Holds(project[p], recorded[i])
    BY DEF FileInv
  <2>5. i <= j
    BY <1>0, <1>11
  <2>6. p <= a - by
    BY <2>3, <2>4, <2>5 DEF FileInv
  <2>7. p + by <= a
    <3>1. p \in Int
      BY <1>0
    <3> QED
      BY <2>2, <2>6, <3>1
  <2>8. p + by \in 1..a /\ Holds(all[p + by], recorded[i])
    BY <1>9, <2>2, <2>4, <2>7
  <2>9. p + by \in 1..k
    BY <1>6, <2>8
  <2> QED
    BY <2>8, <2>9
<1>12. ASSUME Size(all) <= Limit, NEW i \in DOMAIN recorded PROVE Told(recorded[i])
  <2>1. PICK p \in DOMAIN project : Holds(project[p], recorded[i])
    BY DEF FileInv
  <2>2. p + by \in DOMAIN all /\ Holds(all[p + by], recorded[i])
    BY <1>3, <1>8, <2>1 DEF Shifted
  <2>3. mem = all
    BY <1>4, <1>12
  <2>4. p + by \in 1..k
    BY <1>6, <2>2, <2>3
  <2> QED
    BY <2>2, <2>4
<1> HIDE DEF Told
<1>13. \A n \in Notes : Reads(n)' => Known(n)
  BY <1>7, <1>10
<1>14. \A i, j \in DOMAIN recorded : i < j /\ Told(recorded[j]) => Told(recorded[i])
  BY <1>11
<1>15. told'.whole => \A i \in DOMAIN recorded : Told(recorded[i])
  <2>1. told'.whole = (Size(all) <= Limit)
    BY <1>1
  <2> QED
    BY <1>12, <2>1
<1>16. 1..since.notes \subseteq DOMAIN recorded
  BY <1>0
<1>17. \A n : (\E a \in DOMAIN told'.memory : Holds(told'.memory[a], n)) <=> Told(n)
  BY <1>7 DEF Reads
<1> QED
  BY <1>0, <1>1, <1>13, <1>14, <1>15, <1>16, <1>17 DEF NotesTold, Known, Reads

(* A note that is recorded while the run goes on is not among those.       *)
LEMMA RecordedLater ==
  ASSUME FileInv, NotesTold, NEW n \in Notes, ~Known(n), recorded' = Append(recorded, n),
         UNCHANGED <<runtime, since, told>>
  PROVE  NotesTold'
<1>0. recorded \in Seq(Notes)
  BY DEF FileInv
<1>1. PICK R \in Nat :
        /\ R >= 1 /\ DOMAIN recorded' = 1..R /\ DOMAIN recorded = 1..(R - 1) /\ recorded'[R] = n
        /\ \A i \in 1..(R - 1) : recorded'[i] = recorded[i] /\ recorded[i] \in Notes
  BY <1>0, RecordedGrows
<1>2. Len(recorded) = R - 1 /\ Len(recorded') = R /\ Len(recorded) \in Nat
  <2>1. recorded' \in Seq(Notes)
    BY <1>0, RecordedGrows
  <2> QED
    BY <1>0, <1>1, <2>1
<1>3. runtime # "idle" => since'.notes \in 0..Len(recorded')
  BY <1>2 DEF NotesTold
<1> SUFFICES ASSUME runtime = "running" PROVE NotesTold'
  BY <1>3 DEF NotesTold
<1>4. /\ \A m \in Notes : Reads(m) => Known(m)
      /\ \A i, j \in DOMAIN recorded : i < j /\ Reads(recorded[j]) => Reads(recorded[i])
      /\ told.whole => \A i \in 1..since.notes : Reads(recorded[i])
      /\ since.notes \in 0..Len(recorded)
  BY DEF NotesTold
<1>5. ~Reads(n)
  BY <1>4
<1>6. \A m \in Notes : Reads(m) => \E i \in DOMAIN recorded' : recorded'[i] = m
  <2> SUFFICES ASSUME NEW m \in Notes, Reads(m) PROVE \E i \in 1..R : recorded'[i] = m
    BY <1>1
  <2>1. PICK i \in DOMAIN recorded : recorded[i] = m
    BY <1>4 DEF Known
  <2>2. i \in 1..(R - 1) /\ i \in 1..R
    BY <1>1
  <2> QED
    BY <1>1, <2>1, <2>2
<1>7. \A i, j \in 1..R : i < j /\ Reads(recorded'[j]) => Reads(recorded'[i])
  <2> SUFFICES ASSUME NEW i \in 1..R, NEW j \in 1..R, i < j, Reads(recorded'[j])
               PROVE  Reads(recorded'[i])
    OBVIOUS
  <2>1. j # R
    BY <1>1, <1>5
  <2>2. i \in 1..(R - 1) /\ j \in 1..(R - 1)
    BY <2>1
  <2> QED
    BY <1>1, <1>4, <2>2
<1>8. told.whole => \A i \in 1..since.notes : Reads(recorded'[i])
  <2>1. \A i \in 1..since.notes : i \in 1..(R - 1)
    BY <1>2, <1>4
  <2> QED
    BY <1>1, <1>4, <2>1
<1> QED
  BY <1>1, <1>3, <1>6, <1>7, <1>8 DEF NotesTold, Known, Reads

(* What NotesTold says of RunIsTold.                                       *)
LEMMA PiecesAreRead ==
  ASSUME NEW n
  PROVE  n \in UNION {ToSet(line) : line \in ToSet(told.memory)} <=> Reads(n)
BY DEF Reads, Holds, ToSet

-----------------------------------------------------------------------------
(* The skills: what is shown is what the last event on its way says, and   *)
(* without one it is what is active, but for the skills that were gone.    *)
Mentions(e, s) == e.type = "clear" \/ (e.type = "skill" /\ e.value = s)
Agree(s, want, have, missing) == s \in missing \/ (s \in want <=> s \in have)

Choice(s) ==
  /\ \A i \in DOMAIN control :
       Mentions(control[i], s) /\ (\A j \in DOMAIN control : i < j => ~Mentions(control[j], s)) =>
         (s \in shown <=> control[i].type = "skill")
  /\ (\A i \in DOMAIN control : ~Mentions(control[i], s)) => Agree(s, shown, DOMAIN active, gone)

SkillInv ==
  \/ lost
  \/ /\ \A s : Choice(s)
     /\ runtime = "starting" => \A s : Agree(s, since.shown, DOMAIN active, since.gone)
     /\ runtime = "running" => \A s : Agree(s, since.shown, DOMAIN told.skills, since.gone)

(* An event that is sent is the last; the UI shows what it says.           *)
LEMMA SentIsLast ==
  ASSUME control \in Seq(Events), NEW event \in Events, control' = Append(control, event),
         UNCHANGED <<active, gone>>, NEW s, Choice(s),
         ~Mentions(event, s) => (s \in shown' <=> s \in shown),
         Mentions(event, s) => (s \in shown' <=> event.type = "skill")
  PROVE  Choice(s)'
<1> DEFINE L == Len(control)
<1>1. /\ L \in Nat /\ DOMAIN control = 1..L /\ DOMAIN control' = 1..(L + 1)
      /\ control'[L + 1] = event
      /\ \A i \in 1..L : control'[i] = control[i]
  OBVIOUS
<1> HIDE DEF L
<1>2. ASSUME NEW i \in 1..(L + 1), Mentions(control'[i], s),
             \A j \in 1..(L + 1) : i < j => ~Mentions(control'[j], s)
      PROVE  s \in shown' <=> control'[i].type = "skill"
  <2>1. CASE i = L + 1
    BY <1>1, <1>2, <2>1
  <2>2. CASE i # L + 1
    <3>1. i \in 1..L /\ i < L + 1 /\ L + 1 \in 1..(L + 1)
      BY <1>1, <2>2
    <3>2. ~Mentions(event, s)
      BY <1>1, <1>2, <3>1
    <3>3. \A j \in 1..L : i < j => ~Mentions(control[j], s)
      <4> SUFFICES ASSUME NEW j \in 1..L, i < j PROVE ~Mentions(control[j], s)
        OBVIOUS
      <4>1. j \in 1..(L + 1)
        BY <1>1
      <4> QED
        BY <1>1, <1>2, <4>1
    <3>4. Mentions(control[i], s) /\ control'[i] = control[i]
      BY <1>1, <1>2, <3>1
    <3>5. s \in shown <=> control[i].type = "skill"
      BY <1>1, <3>1, <3>3, <3>4 DEF Choice
    <3> QED
      BY <3>2, <3>4, <3>5
  <2> QED
    BY <2>1, <2>2
<1>3. ASSUME \A i \in 1..(L + 1) : ~Mentions(control'[i], s)
      PROVE  Agree(s, shown', DOMAIN active, gone)
  <2>1. L + 1 \in 1..(L + 1) /\ \A i \in 1..L : i \in 1..(L + 1)
    BY <1>1
  <2>2. ~Mentions(event, s) /\ \A i \in 1..L : ~Mentions(control[i], s)
    BY <1>1, <1>3, <2>1
  <2>3. Agree(s, shown, DOMAIN active, gone)
    BY <1>1, <2>2 DEF Choice
  <2> QED
    BY <2>2, <2>3 DEF Agree
<1> QED
  BY <1>1, <1>2, <1>3 DEF Choice

(* The first event is applied, the others stay as they are.                *)
LEMMA FirstIsApplied ==
  ASSUME control \in Seq(Events), control # <<>>, control' = Tail(control), UNCHANGED shown,
         NEW s, Choice(s),
         ~Mentions(Head(control), s) => (s \in gone' <=> s \in gone) /\ (s \in DOMAIN active' <=> s \in DOMAIN active),
         Mentions(Head(control), s) =>
           s \in gone' \/ (s \in DOMAIN active' <=> Head(control).type = "skill")
  PROVE  Choice(s)'
<1> DEFINE L == Len(control)
<1>1. /\ L \in Nat /\ L >= 1 /\ DOMAIN control = 1..L /\ DOMAIN control' = 1..(L - 1)
      /\ control[1] = Head(control)
      /\ \A i \in 1..(L - 1) : control'[i] = control[i + 1]
  OBVIOUS
<1> HIDE DEF L
<1>2. \A i \in 1..(L - 1) : i + 1 \in 1..L
  BY <1>1
<1>3. \A j \in 1..L : j = 1 \/ (j - 1 \in 1..(L - 1) /\ control[j] = control'[j - 1])
  <2> SUFFICES ASSUME NEW j \in 1..L, j # 1 PROVE j - 1 \in 1..(L - 1) /\ control[j] = control'[j - 1]
    OBVIOUS
  <2> DEFINE i == j - 1
  <2>1. i \in 1..(L - 1) /\ i + 1 = j
    BY <1>1
  <2> HIDE DEF i
  <2>2. control[j] = control'[i]
    BY <1>1, <2>1
  <2> QED
    BY <2>1, <2>2 DEF i
<1>4. ASSUME NEW i \in 1..(L - 1), Mentions(control'[i], s),
             \A j \in 1..(L - 1) : i < j => ~Mentions(control'[j], s)
      PROVE  s \in shown <=> control'[i].type = "skill"
  <2>1. i + 1 \in 1..L /\ control'[i] = control[i + 1]
    BY <1>1, <1>2
  <2>2. \A j \in 1..L : i + 1 < j => ~Mentions(control[j], s)
    <3> SUFFICES ASSUME NEW j \in 1..L, i + 1 < j PROVE ~Mentions(control[j], s)
      OBVIOUS
    <3>1. j # 1 /\ i < j - 1
      BY <1>1
    <3> QED
      BY <1>3, <1>4, <3>1
  <2> QED
    BY <1>1, <1>4, <2>1, <2>2 DEF Choice
<1>5. ASSUME \A i \in 1..(L - 1) : ~Mentions(control'[i], s)
      PROVE  Agree(s, shown, DOMAIN active', gone')
  <2>0. 1 \in 1..L
    BY <1>1
  <2>1. \A j \in 1..L : j # 1 => ~Mentions(control[j], s)
    BY <1>3, <1>5
  <2>2. CASE Mentions(control[1], s)
    <3>1. \A j \in 1..L : 1 < j => ~Mentions(control[j], s)
      BY <2>1
    <3>2. s \in shown <=> control[1].type = "skill"
      BY <1>1, <2>0, <2>2, <3>1 DEF Choice
    <3> QED
      BY <1>1, <2>2, <3>2 DEF Agree
  <2>3. CASE ~Mentions(control[1], s)
    <3>1. Agree(s, shown, DOMAIN active, gone)
      BY <1>1, <2>1, <2>3 DEF Choice
    <3> QED
      BY <1>1, <2>3, <3>1 DEF Agree
  <2> QED
    BY <2>2, <2>3
<1> QED
  BY <1>1, <1>4, <1>5 DEF Choice

-----------------------------------------------------------------------------
RecallInv == FileInv /\ PendingInv /\ NotesTold /\ SkillInv

LEMMA RecallInit == NInit => RecallInv
<1> SUFFICES ASSUME NInit PROVE RecallInv
  OBVIOUS
<1>1. /\ project = <<>> /\ partial = FALSE /\ writing = [w \in Writers |-> Nil]
      /\ recorded = <<>> /\ control = <<>> /\ active = <<>> /\ shown = {} /\ runtime = "idle"
  BY DEF NInit
<1>2. <<>> \in Seq(Seq(Words)) /\ <<>> \in Seq(Notes) /\ <<>> \in Seq(Events)
  OBVIOUS
<1>3. DOMAIN recorded = {} /\ DOMAIN project = {} /\ DOMAIN control = {} /\ DOMAIN active = {}
  BY <1>1
<1>4. FileInv
  BY <1>1, <1>2, <1>3 DEF FileInv
<1>5. PendingInv
  <2>1. Nil \in [note : Notes \union {"none"}, header : BOOLEAN]
    BY DEF Nil
  <2>2. writing \in [Writers -> [note : Notes \union {"none"}, header : BOOLEAN]]
    BY <1>1, <2>1
  <2>3. \A w \in Writers : writing[w] = Nil
    BY <1>1
  <2> QED
    BY <1>1, <1>2, <1>3, <2>2, <2>3 DEF PendingInv
<1>6. NotesTold /\ SkillInv
  BY <1>1, <1>3 DEF NotesTold, SkillInv, Choice, Agree
<1> QED
  BY <1>4, <1>5, <1>6 DEF RecallInv

LEMMA FreshIsUnknown ==
  ASSUME NEW n, Fresh(n)
  PROVE  /\ ~Known(n) /\ \A w \in Writers : writing[w].note # n
         /\ \A i \in DOMAIN control : control[i].value # n
BY DEF Fresh, Known, ToSet

LEMMA RecallWrites ==
  ASSUME RecallInv, NEW w \in Writers, WriteNote(w)
  PROVE  RecallInv'
<1> USE DEF RecallInv
<1>1. /\ writing[w] # Nil /\ writing' = [writing EXCEPT ![w] = Nil]
      /\ UNCHANGED <<playbooks, shown, control, active, runtime, since, told, lost, gone>>
  BY DEF WriteNote
<1>2. SkillInv'
  BY <1>1 DEF SkillInv, Choice
<1> DEFINE n == writing[w].note
           header == writing[w].header
<1>3. n \in Notes /\ ~Known(n) /\ header \in BOOLEAN
  BY <1>1 DEF PendingInv
<1>4. CASE project' = NoteAdded(w) /\ partial' = FALSE /\ recorded' = Append(recorded, n)
  <2>1. project' = Behind(project, (IF header THEN <<<<"header">>>> ELSE <<>>) \o <<<<n>>>>)
    BY <1>4 DEF NoteAdded
  <2> HIDE DEF n, header
  <2>2. FileInv'
    BY <1>3, <1>4, <2>1, NoteIsWritten
  <2>3. NotesTold'
    BY <1>1, <1>3, <1>4, RecordedLater
  <2>4. \A m \in Notes : Known(m)' => Known(m) \/ m = n
    <3>1. recorded \in Seq(Notes)
      BY DEF FileInv
    <3>2. PICK R \in Nat :
            /\ R >= 1 /\ DOMAIN recorded' = 1..R /\ DOMAIN recorded = 1..(R - 1) /\ recorded'[R] = n
            /\ \A i \in 1..(R - 1) : recorded'[i] = recorded[i] /\ recorded[i] \in Notes
      BY <1>3, <1>4, <3>1, RecordedGrows
    <3>3. \A i \in 1..R : i = R \/ i \in 1..(R - 1)
      OBVIOUS
    <3> QED
      BY <3>2, <3>3 DEF Known
  <2>5. PendingInv'
    BY <1>1, <2>4, WriteKeepsPending DEF n
  <2> QED
    BY <1>2, <2>2, <2>3, <2>5
<1>5. CASE recorded' = recorded
  <2>1. ASSUME project' = Behind(project, <<<<"part">>>>), partial' = TRUE PROVE FileInv'
    BY <1>5, <2>1, PartIsWritten
  <2>2. ASSUME UNCHANGED <<project, partial>> PROVE FileInv'
    BY <1>5, <2>2 DEF FileInv, Known
  <2>3. FileInv' \/ (project' = NoteAdded(w) /\ partial' = FALSE /\ recorded' = Append(recorded, n))
    BY <1>5, <2>1, <2>2 DEF WriteNote
  <2>4. \A m \in Notes : Known(m)' => Known(m)
    BY <1>5 DEF Known
  <2>5. PendingInv'
    BY <1>1, <2>4, WriteKeepsPending
  <2>6. NotesTold'
    BY <1>1, <1>5 DEF NotesTold, Known, Reads
  <2> QED
    BY <1>2, <1>4, <2>3, <2>5, <2>6
<1> QED
  BY <1>4, <1>5 DEF WriteNote

(* What is in the files and what was told stays, when no note is written.  *)
LEMMA NothingWritten ==
  ASSUME RecallInv, UNCHANGED <<project, partial, recorded>>
  PROVE  FileInv' /\ (UNCHANGED <<runtime, since, told>> => NotesTold')
BY DEF RecallInv, FileInv, NotesTold, Known, Reads

LEMMA RecallLooks ==
  ASSUME RecallInv, NEW n \in Notes, ToolAdds(n) \/ OtherAdds(n)
  PROVE  RecallInv'
<1> USE DEF RecallInv
<1>1. PICK w \in Writers : Fresh(n) /\ Look(w, n)
  BY DEF ToolAdds, OtherAdds, Writers
<1>2. UNCHANGED <<project, partial, recorded, anchor, playbooks, shown, control, active,
                  runtime, since, told, lost, gone, counts>>
  BY DEF ToolAdds, OtherAdds
<1>3. /\ ~Known(n) /\ \A v \in Writers : writing[v].note # n
      /\ \A i \in DOMAIN control : control[i].value # n
  BY <1>1, FreshIsUnknown
<1>4. /\ control' \in Seq(Events)
      /\ \A i \in DOMAIN control' : IsNote(control'[i]) =>
           /\ control'[i].value # n
           /\ control'[i].value \in Notes /\ ~Known(control'[i].value)
           /\ \A v \in Writers : writing[v].note # control'[i].value
      /\ \A i, j \in DOMAIN control' :
           i # j /\ IsNote(control'[i]) /\ IsNote(control'[j]) => control'[i].value # control'[j].value
  BY <1>2, <1>3 DEF PendingInv
<1>5. PendingInv'
  BY <1>1, <1>2, <1>3, <1>4, LookKeeps
<1>6. FileInv' /\ NotesTold'
  BY <1>2, NothingWritten
<1>7. SkillInv'
  BY <1>2 DEF SkillInv, Choice
<1> QED
  BY <1>5, <1>6, <1>7

(* An event on its way, or dropped.                                        *)
LEMMA PendingSent ==
  ASSUME PendingInv, NEW event \in Events, control' = Append(control, event),
         UNCHANGED <<writing, recorded>>,
         IsNote(event) => /\ event.value \in Notes /\ ~Known(event.value)
                          /\ \A w \in Writers : writing[w].note # event.value
                          /\ \A i \in DOMAIN control : control[i].value # event.value
  PROVE  PendingInv'
<1> DEFINE L == Len(control)
<1>1. /\ L \in Nat /\ DOMAIN control = 1..L /\ control' \in Seq(Events)
      /\ DOMAIN control' = 1..(L + 1) /\ control'[L + 1] = event
      /\ \A i \in 1..L : control'[i] = control[i]
  BY DEF PendingInv
<1> HIDE DEF L
<1>2. \A i \in 1..(L + 1) : i = L + 1 \/ i \in 1..L
  BY <1>1
<1>3. \A i \in 1..(L + 1) : IsNote(control'[i]) =>
        /\ control'[i].value \in Notes /\ ~Known(control'[i].value)
        /\ \A w \in Writers : writing[w].note # control'[i].value
  BY <1>1, <1>2 DEF PendingInv
<1>4. \A i, j \in 1..(L + 1) :
        i # j /\ IsNote(control'[i]) /\ IsNote(control'[j]) => control'[i].value # control'[j].value
  BY <1>1, <1>2 DEF PendingInv
<1> QED
  BY <1>1, <1>3, <1>4 DEF PendingInv, Known

LEMMA RecallChooses ==
  ASSUME RecallInv, NEW event \in Events, Choose(event),
         IsNote(event) => Fresh(event.value) /\ event.value \in Notes,
         \A s : ~Mentions(event, s) => (s \in shown' <=> s \in shown),
         \A s : Mentions(event, s) => (s \in shown' <=> event.type = "skill")
  PROVE  RecallInv'
<1> USE DEF RecallInv
<1>1. /\ UNCHANGED <<project, partial, writing, recorded, anchor, playbooks, active, runtime,
                     since, told, gone>>
      /\ Send(event)
  BY DEF Choose
<1>2. FileInv' /\ NotesTold'
  BY <1>1, NothingWritten
<1>3. CASE control' = Append(control, event) /\ UNCHANGED lost
  <2>1. PendingInv'
    BY <1>1, <1>3, FreshIsUnknown, PendingSent
  <2>2. control \in Seq(Events)
    BY DEF PendingInv
  <2>3. \A s : Choice(s) => Choice(s)'
    BY <1>1, <1>3, <2>2, SentIsLast
  <2>4. SkillInv'
    BY <1>1, <1>3, <2>3 DEF SkillInv
  <2> QED
    BY <1>2, <2>1, <2>4
<1>4. CASE lost' = TRUE /\ UNCHANGED control
  <2>1. PendingInv'
    BY <1>1, <1>4 DEF PendingInv, Known
  <2> QED
    BY <1>2, <1>4, <2>1 DEF SkillInv
<1> QED
  BY <1>1, <1>3, <1>4 DEF Send

LEMMA RecallChoices ==
  ASSUME RecallInv, (\E n \in Notes : Remember(n)) \/ (\E s \in Skills : UseSkill(s)) \/ ClearSkills
  PROVE  RecallInv'
<1>1. ASSUME NEW n \in Notes, Remember(n) PROVE RecallInv'
  <2> DEFINE event == [type |-> "memory", value |-> n]
  <2>1. event \in Events /\ event.type = "memory" /\ event.value = n
    BY DEF Events
  <2>2. Choose(event) /\ Fresh(n) /\ UNCHANGED shown
    BY <1>1 DEF Remember
  <2> HIDE DEF event
  <2> QED
    BY <2>1, <2>2, RecallChooses DEF Mentions
<1>2. ASSUME NEW s \in Skills, UseSkill(s) PROVE RecallInv'
  <2> DEFINE event == [type |-> "skill", value |-> s]
  <2>1. event \in Events /\ event.type = "skill" /\ event.value = s
    BY DEF Events
  <2>2. Choose(event) /\ shown' = shown \union {s}
    BY <1>2 DEF UseSkill
  <2> HIDE DEF event
  <2> QED
    BY <2>1, <2>2, RecallChooses DEF Mentions, IsNote
<1>3. ASSUME ClearSkills PROVE RecallInv'
  <2> DEFINE event == [type |-> "clear", value |-> "none"]
  <2>1. event \in Events /\ event.type = "clear"
    BY DEF Events
  <2>2. Choose(event) /\ shown' = {}
    BY <1>3 DEF ClearSkills
  <2> HIDE DEF event
  <2> QED
    BY <2>1, <2>2, RecallChooses DEF Mentions, IsNote
<1> QED
  BY <1>1, <1>2, <1>3

LEMMA RecallApplies ==
  ASSUME RecallInv, ApplyControl
  PROVE  RecallInv'
<1> USE DEF RecallInv
<1> DEFINE event == Head(control)
<1>1. /\ runtime # "starting" /\ control # <<>> /\ control' = Tail(control)
      /\ UNCHANGED <<project, partial, recorded, anchor, playbooks, shown, runtime, since, told,
                     lost, counts>>
  BY DEF ApplyControl
<1>2. FileInv' /\ NotesTold'
  BY <1>1, NothingWritten
<1>3. control \in Seq(Events)
  BY DEF PendingInv
<1>4. PICK L \in Nat : /\ L >= 1 /\ DOMAIN control = 1..L /\ DOMAIN control' = 1..(L - 1)
                     /\ control' \in Seq(Events) /\ control[1] = event /\ event \in Events
                     /\ \A i \in 1..(L - 1) : control'[i] = control[i + 1]
  <2> DEFINE L == Len(control)
  <2>1. /\ L \in Nat /\ L >= 1 /\ DOMAIN control = 1..L /\ DOMAIN control' = 1..(L - 1)
        /\ control' \in Seq(Events) /\ control[1] = event /\ event \in Events
        /\ \A i \in 1..(L - 1) : control'[i] = control[i + 1]
    BY <1>1, <1>3
  <2> HIDE DEF L
  <2> QED
    BY <2>1
<1>5. \A i \in 1..(L - 1) : i + 1 \in 1..L /\ i + 1 # 1
  OBVIOUS
<1>6. /\ \A i \in DOMAIN control' : IsNote(control'[i]) =>
           /\ control'[i].value \in Notes /\ ~Known(control'[i].value)
           /\ \A v \in Writers : writing[v].note # control'[i].value
      /\ \A i, j \in DOMAIN control' :
           i # j /\ IsNote(control'[i]) /\ IsNote(control'[j]) => control'[i].value # control'[j].value
  <2>1. ASSUME NEW i \in 1..(L - 1), IsNote(control'[i])
        PROVE  /\ control'[i].value \in Notes /\ ~Known(control'[i].value)
               /\ \A v \in Writers : writing[v].note # control'[i].value
    <3> DEFINE k == i + 1
    <3>1. k \in DOMAIN control /\ control'[i] = control[k]
      BY <1>4, <1>5
    <3> HIDE DEF k
    <3> QED
      BY <2>1, <3>1 DEF PendingInv
  <2>2. ASSUME NEW i \in 1..(L - 1), NEW j \in 1..(L - 1), i # j,
               IsNote(control'[i]), IsNote(control'[j])
        PROVE  control'[i].value # control'[j].value
    <3> DEFINE k == i + 1
               l == j + 1
    <3>1. /\ k \in DOMAIN control /\ control'[i] = control[k]
          /\ l \in DOMAIN control /\ control'[j] = control[l] /\ k # l
      BY <1>4, <1>5, <2>2
    <3> HIDE DEF k, l
    <3> QED
      BY <2>2, <3>1 DEF PendingInv
  <2> QED
    BY <1>4, <2>1, <2>2
<1> HIDE DEF event
<1>7. CASE event.type = "memory"
  <2> DEFINE n == event.value
  <2>1. Look("runtime", n) /\ UNCHANGED <<active, gone>>
    BY <1>7 DEF ApplyControl, event
  <2>2. 1 \in 1..L /\ IsNote(control[1])
    BY <1>4, <1>7 DEF IsNote
  <2>3. n \in Notes /\ ~Known(n) /\ \A v \in Writers : writing[v].note # n
    BY <1>4, <2>2 DEF PendingInv
  <2>4. \A i \in DOMAIN control' : IsNote(control'[i]) => control'[i].value # n
    <3>1. ASSUME NEW i \in 1..(L - 1), IsNote(control'[i]) PROVE control'[i].value # n
      BY <1>4, <1>5, <2>2, <3>1 DEF PendingInv
    <3> QED
      BY <1>4, <3>1
  <2> HIDE DEF n
  <2>5. "runtime" \in Writers
    BY DEF Writers
  <2>6. PendingInv'
    BY <1>1, <1>4, <1>6, <2>1, <2>3, <2>4, <2>5, LookKeeps
  <2>7. \A s : ~Mentions(event, s)
    BY <1>7 DEF Mentions
  <2>8. \A s : Choice(s) => Choice(s)'
    BY <1>1, <1>3, <2>1, <2>7, FirstIsApplied DEF event
  <2>9. SkillInv'
    BY <1>1, <2>8 DEF SkillInv
  <2> QED
    BY <1>2, <2>6, <2>9
<1>8. CASE event.type # "memory"
  <2>1. SkillSet(event) /\ UNCHANGED writing
    BY <1>8 DEF ApplyControl, event
  <2>2. PendingInv'
    BY <1>1, <1>4, <1>6, <2>1 DEF PendingInv, Known
  <2>3. event.type \in {"skill", "clear"}
    BY <1>4, <1>8 DEF Events
  <2>4. ASSUME NEW s
        PROVE  /\ ~Mentions(event, s) => /\ s \in gone' <=> s \in gone
                                         /\ s \in DOMAIN active' <=> s \in DOMAIN active
               /\ Mentions(event, s) => s \in gone' \/ (s \in DOMAIN active' <=> event.type = "skill")
    <3>1. CASE event.type = "clear"
      <4>1. active' = <<>> /\ DOMAIN <<>> = {}
        BY <2>1, <3>1 DEF SkillSet
      <4>2. DOMAIN active' = {}
        BY <4>1
      <4> QED
        BY <3>1, <4>2 DEF Mentions
    <3>2. CASE event.type = "skill" /\ ~Found(event.value)
      <4>1. gone' = gone \union {event.value} /\ UNCHANGED active
        BY <2>1, <3>2 DEF SkillSet
      <4> QED
        BY <3>2, <4>1 DEF Mentions
    <3>3. CASE event.type = "skill" /\ Found(event.value)
      <4>1. /\ active' = [t \in DOMAIN active \union {event.value} |->
                            IF t = event.value THEN playbooks[t] ELSE active[t]]
            /\ gone' = gone \ {event.value}
        BY <2>1, <3>3 DEF SkillSet
      <4>2. DOMAIN active' = DOMAIN active \union {event.value}
        BY <4>1
      <4> QED
        BY <3>3, <4>1, <4>2 DEF Mentions
    <3> QED
      BY <2>3, <3>1, <3>2, <3>3
  <2>5. \A s : Choice(s) => Choice(s)'
    BY <1>1, <1>3, <2>4, FirstIsApplied DEF event
  <2>6. SkillInv'
    BY <1>1, <2>5 DEF SkillInv
  <2> QED
    BY <1>2, <2>2, <2>6
<1> QED
  BY <1>7, <1>8

LEMMA RecallRuns ==
  ASSUME RecallInv, Drained \/ Brief \/ RunEnds \/ \E s \in Skills : EditSkill(s)
  PROVE  RecallInv'
<1> USE DEF RecallInv
<1>1. UNCHANGED <<project, partial, writing, recorded, shown, control, active, lost, gone>>
  BY DEF Drained, Brief, RunEnds, EditSkill
<1>2. FileInv' /\ PendingInv' /\ \A s : Choice(s) => Choice(s)'
  BY <1>1 DEF FileInv, PendingInv, Known, Choice
<1>3. CASE Drained
  <2>1. /\ control = <<>> /\ runtime' = "starting"
        /\ since' = [notes |-> Len(recorded), shown |-> shown, gone |-> gone]
    BY <1>3 DEF Drained
  <2>2. since'.notes = Len(recorded) /\ since'.shown = shown /\ since'.gone = gone
    BY <2>1
  <2>3. Len(recorded) \in Nat
    BY DEF FileInv
  <2>4. DOMAIN control = {}
    BY <2>1
  <2>5. \A s : Choice(s) => Agree(s, shown, DOMAIN active, gone)
    BY <2>4 DEF Choice
  <2>6. SkillInv'
    BY <1>1, <1>2, <2>1, <2>2, <2>5 DEF SkillInv
  <2>7. NotesTold'
    BY <1>1, <2>1, <2>2, <2>3 DEF NotesTold
  <2> QED
    BY <1>2, <2>6, <2>7
<1>4. CASE Brief
  <2>1. NotesTold'
    BY <1>4, BriefTells
  <2>2. /\ runtime = "starting" /\ runtime' = "running" /\ UNCHANGED since
        /\ told'.skills = active
    BY <1>4 DEF Brief
  <2>3. SkillInv'
    BY <1>1, <1>2, <2>2 DEF SkillInv
  <2> QED
    BY <1>2, <2>1, <2>3
<1>5. CASE RunEnds
  <2>1. runtime' = "idle"
    BY <1>5 DEF RunEnds
  <2> QED
    BY <1>1, <1>2, <2>1 DEF NotesTold, SkillInv
<1>6. CASE \E s \in Skills : EditSkill(s)
  <2>1. UNCHANGED <<runtime, since, told>>
    BY <1>6 DEF EditSkill
  <2> QED
    BY <1>1, <1>2, <2>1, NothingWritten DEF SkillInv
<1> QED
  BY <1>3, <1>4, <1>5, <1>6

(* RunIsTold (Recall): a run is told the notes that were recorded before   *)
(* it, all of them unless memory is cut, and the oldest then, and the      *)
(* skills that were shown, for any notes and skills, any room in memory    *)
(* and in the queue, and whichever writes fail.                            *)
THEOREM RunsAreTold == NSpec => []RunIsTold
<1>1. RecallInv /\ [NNext]_mvars => RecallInv'
  <2> SUFFICES ASSUME RecallInv, [NNext]_mvars PROVE RecallInv'
    OBVIOUS
  <2>1. CASE UNCHANGED mvars
    <3>1. UNCHANGED <<project, partial, writing, recorded, shown, control, active, runtime, since,
                      told, lost, gone>>
      BY <2>1 DEF mvars
    <3> QED
      BY <3>1, NothingWritten DEF RecallInv, PendingInv, SkillInv, Choice, Known
  <2> QED
    BY <2>1, RecallWrites, RecallLooks, RecallChoices, RecallApplies, RecallRuns DEF NNext
<1>2. RecallInv => RunIsTold
  <2> SUFFICES ASSUME RecallInv, runtime = "running" PROVE RunIsTold
    BY DEF RunIsTold
  <2> DEFINE pieces == UNION {ToSet(line) : line \in ToSet(told.memory)}
             notes == {n \in ToSet(recorded) : n \in pieces}
  <2>1. \A i \in DOMAIN recorded : recorded[i] \in notes <=> Reads(recorded[i])
    BY PiecesAreRead DEF ToSet
  <2> HIDE DEF notes
  <2>2. /\ \A i, j \in DOMAIN recorded : i < j /\ Reads(recorded[j]) => Reads(recorded[i])
        /\ told.whole => \A i \in 1..since.notes : Reads(recorded[i])
        /\ since.notes \in 0..Len(recorded) /\ recorded \in Seq(Notes)
    BY DEF RecallInv, NotesTold, FileInv
  <2>3. \A i \in 1..since.notes : i \in DOMAIN recorded
    BY <2>2
  <2>4. lost \/ DOMAIN told.skills \ since.gone = since.shown \ since.gone
    BY DEF RecallInv, SkillInv, Agree
  <2>5. /\ \A i \in DOMAIN recorded, j \in DOMAIN recorded :
             i < j /\ recorded[j] \in notes => recorded[i] \in notes
        /\ told.whole => \A i \in 1..since.notes : recorded[i] \in notes
    BY <2>1, <2>2, <2>3
  <2> QED
    BY <2>4, <2>5 DEF RunIsTold, notes
<1> QED
  BY <1>1, <1>2, RecallInit, PTL DEF NSpec
=============================================================================
