------------------------------ MODULE SessionLog ------------------------------
(***************************************************************************)
(* The event log of a session and what a later session resumes from it.    *)
(*                                                                         *)
(* persistEvents (main.go) takes events from a bounded subscription and    *)
(* appends each as one line (replay/log.go, Write); nobody looks at its    *)
(* errors.  A process that ends, in whatever way, loses what is still in   *)
(* the subscription.  Several processes may append to one file, one after  *)
(* the other or at once: -session names it, an id made up is the second of *)
(* the start, and the file is opened to append, without a lock.  With      *)
(* -resume-latest the runtime goroutine lists the sessions while its own   *)
(* log is being opened and written beside it, takes the latest usable one, *)
(* reads it whole, and folds its events into a summary and a conversation  *)
(* (session/summary.go), which the run and the new log continue.           *)
(*                                                                         *)
(* An event is its type, the process it is of, which the line does not     *)
(* say, and its place among what that process publishes; a line that is no *)
(* JSON is Garbage.  The wall clock is not modelled.                       *)
(***************************************************************************)
EXTENDS Naturals, Sequences, FiniteSets, SequencesExt

CONSTANTS
  Ids,          \* session ids
  Garbage,      \* a line that does not parse
  QueueCap,     \* places in the log's subscription (256 in the code)
  Processes,    \* the processes, each started once at most
  MaxEvents     \* bound: events published and writes failed, together

\* What the conversation is made of, and the snapshot of the context map,
\* without which no log is resumed.  The rest of what is published (traces,
\* observations, usage) is lines that are passed over.
EventTypes == {"context", "started", "prompt", "delta", "result", "done"}
LogEvents == [type : EventTypes, n : Nat, by : Processes]

ASSUME LogAssumption ==
  /\ {QueueCap, MaxEvents} \subseteq Nat
  /\ Garbage \notin LogEvents

VARIABLES
  disk,     \* Ids -> [lines, open]; open: the last line has no newline
  proc,     \* Processes -> where its runtime goroutine is, its session
  queue,    \* Processes -> the log's subscription
  busy,     \* Processes -> a run is under way
  chosen,   \* Processes -> LatestSession's answer
  history,  \* Processes -> the conversation resumed, a sequence of messages
  clock,    \* Processes -> events published
  spent,    \* of the bound MaxEvents
  gap       \* ids whose log misses an event before its last line

lvars == <<disk, proc, queue, busy, chosen, history, clock, spent, gap>>

NoId == "none"
Unborn == [pc |-> "unborn", id |-> NoId]
Dead == [pc |-> "dead", id |-> NoId]
Alive(p) == proc[p].pc \notin {"unborn", "dead"}

LInit ==
  /\ disk = [i \in Ids |-> [lines |-> <<>>, open |-> FALSE]]
  /\ proc = [p \in Processes |-> Unborn]
  /\ busy = [p \in Processes |-> FALSE]
  /\ queue = [p \in Processes |-> <<>>] /\ history = [p \in Processes |-> <<>>]
  /\ chosen = [p \in Processes |-> NoId]
  /\ clock = [p \in Processes |-> 0]
  /\ spent = 0 /\ gap = {}

-----------------------------------------------------------------------------
\* Bus.Publish into the log's subscription: what finds no place is dropped.
Events(p, types) ==
  [k \in 1..Len(types) |-> [type |-> types[k], n |-> clock[p] + k, by |-> p]]

Publish(p, id, types) ==
  LET all == queue[p] \o Events(p, types)
  IN /\ spent + Len(types) <= MaxEvents /\ spent' = spent + Len(types)
     /\ queue' = [queue EXCEPT ![p] =
                    SubSeq(all, 1, IF Len(all) < QueueCap THEN Len(all) ELSE QueueCap)]
     /\ gap' = IF Len(all) > QueueCap THEN gap \cup {id} ELSE gap
     /\ clock' = [clock EXCEPT ![p] = @ + Len(types)]

-----------------------------------------------------------------------------
\* persistEvents.  When NewWriter makes the file, if it does, shows in
\* nothing: an empty file is no session.

\* A whole line.  Behind a line that has no newline it is part of that line.
Appended(file, e) ==
  IF file.open
  THEN [file EXCEPT !.lines[Len(file.lines)] = Garbage, !.open = FALSE]
  ELSE [file EXCEPT !.lines = Append(@, e)]

\* A write that fails half way leaves part of the line, or all of it but the
\* newline.
Torn(file, e) ==
  IF file.open
  THEN {[file EXCEPT !.lines[Len(file.lines)] = Garbage]}
  ELSE {[file EXCEPT !.lines = Append(@, l), !.open = TRUE] : l \in {e, Garbage}}

WriteLine(p) ==
  /\ queue[p] # <<>>
  /\ queue' = [queue EXCEPT ![p] = Tail(@)]
  /\ LET id == proc[p].id
         e == Head(queue[p])
     IN \/ /\ disk' = [disk EXCEPT ![id] = Appended(@, e)]
           /\ UNCHANGED <<gap, spent>>
        \/ /\ spent < MaxEvents /\ spent' = spent + 1
           /\ \/ gap' = gap \cup {id} /\ UNCHANGED disk
              \/ \E t \in Torn(disk[id], e) : disk' = [disk EXCEPT ![id] = t] /\ UNCHANGED gap
  /\ UNCHANGED <<proc, busy, chosen, history, clock>>

-----------------------------------------------------------------------------
\* What is read back.

\* ListSessions and scanSessionMeta; Decode refuses what they refuse.
Usable(i) ==
  /\ disk[i].lines # <<>>
  /\ \A k \in 1..Len(disk[i].lines) : disk[i].lines[k] # Garbage

\* ExtractHistory: a fold over the events.
Flushed(h) ==
  IF h.text = <<>> THEN h
  ELSE [h EXCEPT !.messages = Append(@, [role |-> "assistant", of |-> h.text]), !.text = <<>>]

Said(h, role, e) ==
  [Flushed(h) EXCEPT !.messages = Append(@, [role |-> role, of |-> <<e.n>>])]

FaultyTake(h, e) ==
  CASE e.type = "prompt"  -> [h EXCEPT !.messages = Append(@, [role |-> "user", of |-> <<e.n>>])]
    [] e.type = "started" -> [Flushed(h) EXCEPT !.collecting = TRUE]
    [] e.type = "delta"   -> IF h.collecting THEN [h EXCEPT !.text = Append(@, e.n)] ELSE h
    [] e.type = "result"  -> [Said(h, "tool", e) EXCEPT !.collecting = TRUE]
    [] e.type = "done"    -> [Flushed(h) EXCEPT !.collecting = FALSE]
    [] OTHER -> h

Take(h, e) ==
  CASE e.type = "prompt"  -> Said(h, "user", e)
    [] e.type = "started" -> [Flushed(h) EXCEPT !.collecting = TRUE]
    [] e.type = "delta"   -> IF h.collecting THEN [h EXCEPT !.text = Append(@, e.n)] ELSE h
    [] e.type = "result"  -> [Said(h, "tool", e) EXCEPT !.collecting = TRUE]
    [] e.type = "done"    -> [Flushed(h) EXCEPT !.collecting = FALSE]
    [] OTHER -> h

\* A message is made of the lines it was told in, each of which stands for
\* its content.
Numbered(events) == [k \in 1..Len(events) |-> [events[k] EXCEPT !.n = k]]

ExtractHistory(events) ==
  FoldLeft(Take, [messages |-> <<>>, text |-> <<>>, collecting |-> TRUE],
           Numbered(events)).messages

-----------------------------------------------------------------------------
\* The runtime goroutine.

Goes(p, pc) == proc' = [proc EXCEPT ![p].pc = pc]

\* A new process, in a session of its own or in one there is, whose process
\* may be at work.  The log is subscribed and the seeded context map published
\* before anything is resumed.
Start(p) ==
  /\ proc[p] = Unborn
  /\ \E i \in Ids, next \in {"choose", "serve"} :
       /\ proc' = [proc EXCEPT ![p] = [pc |-> next, id |-> i]]
       /\ Publish(p, i, <<"context">>)
  /\ UNCHANGED <<disk, busy, chosen, history>>

\* publishResumeSummary, LatestSession: of the usable ones the one whose last
\* event is the latest by the clock, which may be any: another process's, dead
\* or at work, or the present one once persistEvents has written to it.
ChooseLatest(p) ==
  /\ proc[p].pc = "choose"
  /\ \/ /\ \A i \in Ids : ~Usable(i)
        /\ Goes(p, "serve") /\ UNCHANGED chosen
     \/ \E i \in Ids :
          /\ Usable(i) /\ chosen' = [chosen EXCEPT ![p] = i]
          /\ Goes(p, "load")
  /\ UNCHANGED <<disk, queue, busy, history, clock, spent, gap>>

\* The process is gone, with what persistEvents has not taken.
Gone(p) ==
  /\ proc' = [proc EXCEPT ![p] = Dead]
  /\ busy' = [busy EXCEPT ![p] = FALSE]
  /\ queue' = [queue EXCEPT ![p] = <<>>] /\ history' = [history EXCEPT ![p] = <<>>]
  /\ chosen' = [chosen EXCEPT ![p] = NoId]
  /\ UNCHANGED <<disk, clock, spent, gap>>

\* ReadFile: by now the log may have a bad line.  A log without a context
\* snapshot is dereferenced all the same and ends the process.  Otherwise the
\* start and the context map with what was restored are published, and with
\* them traces and an observation, which nothing here reads.
Resume(p) ==
  /\ proc[p].pc = "load"
  /\ LET events == disk[chosen[p]].lines
         snapshots == {k \in DOMAIN events : events[k].type = "context"}
     IN \/ /\ ~Usable(chosen[p])
           /\ Goes(p, "serve") /\ chosen' = [chosen EXCEPT ![p] = NoId]
           /\ UNCHANGED <<disk, queue, busy, history, clock, spent, gap>>
        \/ /\ Usable(chosen[p]) /\ snapshots = {}
           /\ Gone(p)
        \/ /\ Usable(chosen[p]) /\ snapshots # {}
           /\ history' = [history EXCEPT ![p] = ExtractHistory(events)]
           /\ Publish(p, proc[p].id, <<"started", "context">>)
           /\ Goes(p, "serve") /\ chosen' = [chosen EXCEPT ![p] = NoId]
           /\ UNCHANGED <<disk, busy>>

\* startRun: AgentStarted, for the prompt of the command line too, which is
\* not published.
StartRun(p) ==
  /\ proc[p].pc = "serve" /\ ~busy[p]
  /\ Publish(p, proc[p].id, <<"started">>)
  /\ busy' = [busy EXCEPT ![p] = TRUE]
  /\ UNCHANGED <<disk, proc, chosen, history>>

\* The user's prompt goes before the run it starts.  In a run it waits: the
\* log has it in the middle of what that run says.
Prompt(p) ==
  /\ proc[p].pc = "serve"
  /\ Publish(p, proc[p].id, IF busy[p] THEN <<"prompt">> ELSE <<"prompt", "started">>)
  /\ busy' = [busy EXCEPT ![p] = TRUE]
  /\ UNCHANGED <<disk, proc, chosen, history>>

Say(p) ==
  /\ busy[p]
  /\ \E type \in {"delta", "result"} : Publish(p, proc[p].id, <<type>>)
  /\ UNCHANGED <<disk, proc, busy, chosen, history>>

\* Done, after an Error or not: the fold does not look at that.
EndRun(p) ==
  /\ busy[p]
  /\ Publish(p, proc[p].id, <<"done">>)
  /\ busy' = [busy EXCEPT ![p] = FALSE]
  /\ UNCHANGED <<disk, proc, chosen, history>>

\* ctx.Done, an exit or a crash.
Die(p) == Alive(p) /\ Gone(p)

LNext ==
  \E p \in Processes :
    \/ WriteLine(p)
    \/ Start(p) \/ ChooseLatest(p) \/ Resume(p)
    \/ StartRun(p) \/ Prompt(p) \/ Say(p) \/ EndRun(p)
    \/ Die(p)

LSpec == LInit /\ [][LNext]_lvars

-----------------------------------------------------------------------------
\* Properties.

\* The events that say something, and those that end a message under way.
Spoken == {"prompt", "delta", "result"}
Endings == {"prompt", "started", "result", "done"}

\* The lines that say something, all but the text after the last event that
\* ends a message, which ExtractHistory has no occasion to flush.
Settled(events) ==
  {k \in DOMAIN events :
     /\ events[k].type \in Spoken
     /\ \E j \in k..Len(events) : events[j].type \in Endings}

\* A piece of an answer in whose midst another process ended a run of its
\* own: a "done" stands between the start of the answer's run and the piece,
\* and nothing behind the "done" has made ExtractHistory listen again.
TalkedOver(events, k) ==
  /\ events[k].type = "delta"
  /\ \E s \in 1..k, d \in 1..k :
       /\ s < d /\ events[s].type = "started" /\ events[s].by = events[k].by
       /\ events[d].type = "done" /\ events[d].by # events[k].by
       /\ \A j \in s..k : events[j].by = events[k].by => events[j].type # "done"
       /\ \A j \in d..k : events[j].type \notin {"started", "result"}

\* The conversation a resumed session goes on from (summary.go:108 "so that
\* the agent loop can continue the conversation with full historical
\* context") holds everything its log says but for the answer under way at
\* the end and for what another process talked over: once, in the order of
\* the lines, what one process said in the order it said it, and no message
\* runs over the start or the end of another.  So of one process alone, or of
\* several one after the other, nothing is lost; what several say at once may
\* share a message.  Through crashes, processes appending to one log at the
\* same time, sessions that resume themselves, torn lines and logs cut
\* anywhere, as long as the subscription dropped no event of the log and no
\* write failed without a trace in it: of these nobody is told, and the log
\* cannot show them.
HistoryIsWhole ==
  \A i \in Ids :
    Usable(i) /\ i \notin gap =>
      LET events == disk[i].lines
          h == ExtractHistory(events)
          told == FlattenSeq([k \in DOMAIN h |-> h[k].of])
      IN /\ Range(told) = {k \in Settled(events) : ~TalkedOver(events, k)}
         /\ \A a, b \in DOMAIN told : a < b =>
              /\ told[a] < told[b]
              /\ events[told[a]].by = events[told[b]].by =>
                   events[told[a]].n < events[told[b]].n
         /\ \A k \in DOMAIN h, e \in DOMAIN events :
              events[e].type \in Endings => ~(\E a, b \in Range(h[k].of) : a < e /\ e < b)

=============================================================================
