------------------------------ MODULE ContextMap ------------------------------
(***************************************************************************)
(* The context manager of internal/context: the token-budgeted map of      *)
(* evidence the model is shown.  Every operation below runs under the      *)
(* manager's mutex from its first read to its last write, so each one is a *)
(* single action.  Three goroutines call them: the agent loop (Admit,      *)
(* AutoBudget), the UI command goroutine (Pin, Unpin, Remove) and the      *)
(* runtime loop (Upsert, Add and, through the oracle, Update, Remove and   *)
(* CompressItems).  ContextOracle composes the callers.                    *)
(*                                                                         *)
(* The order slice is modelled by the relation it denotes: <<a, b>> is in  *)
(* order when some entry for a is not after some entry for b.  An id that  *)
(* is listed twice makes the relation lose antisymmetry, an id that is not *)
(* listed is not related to itself.                                        *)
(***************************************************************************)
EXTENDS Integers, FiniteSets, FiniteSetsExt, Functions

CONSTANTS
  Ids,           \* ids callers give to items
  CompIds,       \* the "compressed:<ns>" ids, each drawn at most once
  Seeds,         \* the anchors NewSeeded creates
  Window,        \* windowTokens
  Sizes,         \* token estimates of seeds and summaries
  Offers,        \* what callers offer at each id: records [item, source]
  NoId           \* the empty ReplacedBy

AllIds == Ids \union CompIds
Tiers  == {"near", "anchor", "artifact"}

(* ExpiresAt is only ever set by CompressItems, to a time in the past,     *)
(* together with ReplacedBy; the one field stands for both.                *)
Item == [tier : Tiers, tokens : Nat, pinned : BOOLEAN, replacedBy : CompIds \union {NoId}]

ASSUME ContextAssumption ==
  /\ Seeds \subseteq Ids /\ IsFiniteSet(Seeds)
  /\ Ids \intersect CompIds = {}
  /\ NoId \notin AllIds
  /\ Window \in Nat \ {0}
  /\ Sizes \subseteq Nat
  /\ Offers \in [Ids -> SUBSET [item : Item, source : {"ok", "blank", "oversized"}]]
  /\ \A id \in Ids : \A o \in Offers[id] : o.item.replacedBy = NoId

VARIABLES
  items,    \* id -> item, the map
  order,    \* the insertion order the slice records
  records,  \* compression artifact -> ids of its sources
  drawn     \* compression ids already generated

vars == <<items, order, records, drawn>>

-----------------------------------------------------------------------------
Expired(it)  == ~it.pinned /\ it.replacedBy # NoId
Active(its)  == {id \in DOMAIN its : ~Expired(its[id])}
Used(its)    == MapThenSumSet(LAMBDA id : its[id].tokens, Active(its))
OverWindow(used) == used > Window
Warning(used)    == 100 * used >= 85 * Window
Low(used)        == ~OverWindow(used) /\ ~Warning(used)

(* safeBoundary: 85% of the window rounded down, at least 1.               *)
SafeBoundary == IF 85 * Window < 100 THEN 1 ELSE (85 * Window) \div 100

Appended(id) == order \union ((DOMAIN items \union {id}) \X {id})
Without(S)   == {p \in order : p[1] \notin S /\ p[2] \notin S}
Put(id, it)  == [x \in DOMAIN items \union {id} |-> IF x = id THEN it ELSE items[x]]
Drop(S)      == [x \in DOMAIN items \ S |-> items[x]]

FaultyListed(id) == Appended(id)   \* mutant: lists an id again on every upsert

(* The slot an insert-or-overwrite uses: a new entry for a new id only.    *)
Listed(id)   == IF id \in DOMAIN items THEN order ELSE Appended(id)

Fresh(tier, n, pinned) ==
  [tier |-> tier, tokens |-> n, pinned |-> pinned, replacedBy |-> NoId]

(* NewSeeded: project map and task goal as pinned anchors, in any sizes.   *)
Init ==
  /\ \E n \in Sizes : items = [id \in Seeds |-> Fresh("anchor", n, TRUE)]
  /\ \E rank \in Injection(Seeds, 1..Cardinality(Seeds)) :
       order = {p \in Seeds \X Seeds : rank[p[1]] <= rank[p[2]]}
  /\ records = [c \in {} |-> {}]
  /\ drawn = {}

(* Add: refuses an id that is already there.                               *)
Add(id, it) ==
  /\ id \notin DOMAIN items
  /\ items' = Put(id, it)
  /\ order' = Appended(id)
  /\ UNCHANGED <<records, drawn>>

(* Update: refuses an id that is not there; replaces the whole item.       *)
Update(id, it) ==
  /\ id \in DOMAIN items
  /\ items' = Put(id, it)
  /\ UNCHANGED <<order, records, drawn>>

Upsert(id, it) ==
  /\ items' = Put(id, it)
  /\ order' = Listed(id)
  /\ UNCHANGED <<records, drawn>>

(* The tokens in use once it has replaced whatever active item id holds.   *)
FaultyProjected(id, it) ==   \* mutant: discounts an expired item's tokens too
  Used(items) + it.tokens - (IF id \in DOMAIN items THEN items[id].tokens ELSE 0)
Projected(id, it) ==
  Used(items) + it.tokens
    - (IF id \in Active(items) THEN items[id].tokens ELSE 0)

(* Admit when it accepts.  source is "ok", "blank" (no source or no        *)
(* reason) or "oversized" (forced to the artifact tier).                   *)
Admit(id, it, source) ==
  LET placed == IF source = "oversized" THEN [it EXCEPT !.tier = "artifact"] ELSE it
  IN /\ placed.tier # "artifact" => source # "blank"
     /\ (placed.tier = "near" /\ ~placed.pinned) => ~OverWindow(Projected(id, placed))
     /\ items' = Put(id, placed)
     /\ order' = Listed(id)
     /\ UNCHANGED <<records, drawn>>

(* Mutant: forgets every record the removed id is a source of.             *)
FaultyRemove(id) ==
  /\ id \in DOMAIN items
  /\ items' = Drop({id})
  /\ order' = Without({id})
  /\ records' = [c \in {x \in DOMAIN records : id \notin records[x]} |-> records[c]]
  /\ UNCHANGED drawn

(* Remove, with the clean-up of the artifact's compression record.         *)
Remove(id) ==
  /\ id \in DOMAIN items
  /\ items' = Drop({id})
  /\ order' = Without({id})
  /\ records' = [c \in DOMAIN records \ {id} |-> records[c]]
  /\ UNCHANGED drawn

SetPinned(id, pinned) ==
  /\ id \in DOMAIN items
  /\ items' = [items EXCEPT ![id].pinned = pinned]
  /\ UNCHANGED <<order, records, drawn>>

(* time.Now().UnixNano() never repeats.                                    *)
FaultyDraw(comp) == comp \notin drawn /\ UNCHANGED drawn   \* mutant: may repeat
Draw(comp) == comp \notin drawn /\ drawn' = drawn \union {comp}

(* CompressItems: the ids that exist become expired and replaced by a new  *)
(* near item; the summary's size is not bounded by its sources'.           *)
CompressItems(ids, n, comp) ==
  LET valid == ids \intersect DOMAIN items
      hidden == [x \in DOMAIN items |->
                   IF x \in valid THEN [items[x] EXCEPT !.replacedBy = comp] ELSE items[x]]
  IN /\ valid # {}
     /\ Draw(comp)
     /\ items' = [x \in DOMAIN items \union {comp} |->
                    IF x = comp THEN Fresh("near", n, FALSE) ELSE hidden[x]]
     /\ order' = Appended(comp)
     /\ records' = [c \in DOMAIN records \union {comp} |->
                      IF c = comp THEN valid ELSE records[c]]

(* AutoBudget.  Candidates are the unpinned near items.  Phase 1 evicts    *)
(* the expired ones; phase 2 evicts the rest oldest first, each one only   *)
(* if evicting all older ones still leaves more than the safe boundary.    *)
FaultyCandidates ==   \* mutant: takes every near item, pinned or not
  {id \in DOMAIN items : items[id].tier = "near"}
Candidates == {id \in DOMAIN items : ~items[id].pinned /\ items[id].tier = "near"}
Phase1     == {id \in Candidates : Expired(items[id])}
FaultyOlder(id) ==    \* mutant: evicts the newest first
  {x \in Candidates \ Phase1 : x # id /\ <<id, x>> \in order}
Older(id)  == {x \in Candidates \ Phase1 : x # id /\ <<x, id>> \in order}
Phase2     == {id \in Candidates \ Phase1 :
                 Used(Drop(Phase1 \union Older(id))) > SafeBoundary}
Evicted    == IF Low(Used(items)) THEN {} ELSE Phase1 \union Phase2

AutoBudget ==
  /\ items' = Drop(Evicted)
  /\ order' = Without(Evicted)
  /\ UNCHANGED <<records, drawn>>

-----------------------------------------------------------------------------
TypeOK ==
  /\ DOMAIN items \subseteq AllIds
  /\ items \in [DOMAIN items -> Item]
  /\ order \subseteq AllIds \X AllIds
  /\ drawn \subseteq CompIds
  /\ DOMAIN records \subseteq drawn
  /\ records \in [DOMAIN records -> SUBSET AllIds]

(* The order slice lists exactly the ids of the map, each of them once:    *)
(* manager.go keeps the two in step by hand in Add, Upsert, Admit, Remove, *)
(* AutoBudget and CompressItems.                                           *)
OrderIsLinear ==
  LET D == DOMAIN items
  IN /\ order \subseteq D \X D
     /\ \A a, b \in D : <<a, b>> \in order \/ <<b, a>> \in order
     /\ \A a, b \in D : <<a, b>> \in order /\ <<b, a>> \in order => a = b
     /\ \A a, b, c \in D : <<a, b>> \in order /\ <<b, c>> \in order => <<a, c>> \in order

(* ReplacedBy lineage (README: "Context compression with ReplacedBy        *)
(* lineage tracking"): an item that says it was replaced by an artifact    *)
(* still in the map is one of the sources that artifact's record names.    *)
LineageRecorded ==
  \A id \in DOMAIN items :
    LET c == items[id].replacedBy
    IN c \in DOMAIN items => c \in DOMAIN records /\ id \in records[c]

(* manager.go, AutoBudget: "Pinned items and Anchor items are never        *)
(* auto-evicted."  Whatever is pinned, an anchor or an artifact leaves the *)
(* map only because somebody called Remove on it.                          *)
ProtectedLeaveOnlyByRemove ==
  [][\A id \in DOMAIN items \ DOMAIN items' :
       items[id].pinned \/ items[id].tier # "near" => Remove(id)]_vars

(* An eviction pass reaches the safe boundary or runs out of evictable     *)
(* items, keeps no evictable item older than an active one it evicted, and *)
(* evicts no more than it must.                                            *)
EvictionPolicy ==
  [][AutoBudget =>
       LET gone == (DOMAIN items \ DOMAIN items') \intersect Active(items)
           kept == {id \in Active(items') : items[id].tier = "near" /\ ~items[id].pinned}
       IN /\ Used(items') <= SafeBoundary \/ kept = {}
          /\ \A x \in gone, y \in kept : <<y, x>> \notin order
          /\ gone # {} => \E x \in gone : Used(items') + items[x].tokens > SafeBoundary]_vars

(* A near item that is admitted unpinned never leaves the active items     *)
(* over the window, whatever it overwrote.                                 *)
AdmissionFits ==
  [][\A id \in Ids : \A o \in Offers[id] :
       /\ Admit(id, o.item, o.source)
       /\ items'[id].tier = "near" /\ ~items'[id].pinned
       => Used(items') <= Window]_vars
=============================================================================
