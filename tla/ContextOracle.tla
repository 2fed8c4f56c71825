----------------------------- MODULE ContextOracle -----------------------------
(***************************************************************************)
(* RunOracleStep of internal/context/oracle.go beside the other users of   *)
(* the manager.  Review takes its snapshot under the read lock and lets go *)
(* of it; each promotion, demotion and compression it recommends is then   *)
(* applied under a lock of its own, so that the agent loop's admissions    *)
(* and the user's pin, unpin and remove commands run in between.           *)
(***************************************************************************)
EXTENDS ContextMap

CONSTANTS
  Keyworded,   \* items whose Keywords overlap the goal (no caller sets any)
  Goals,       \* goals: how many goal words each item's text contains
  Mentions     \* sets of items the recent observations may mention

ASSUME OracleAssumption ==
  /\ Keyworded \subseteq AllIds
  /\ Goals \subseteq [AllIds -> Nat]
  /\ Mentions \subseteq SUBSET AllIds

VARIABLE review   \* the ReviewResult being applied

ovars == <<items, order, records, drawn, review>>

Idle == [promoted |-> [id \in {} |-> {}], demoted |-> {}, compressed |-> {}]

-----------------------------------------------------------------------------
(* computeOracleScore over what the score depends on: words of the goal in *)
(* the item's text, overlap of its keywords, a mention in the recent       *)
(* observations (when there are any), age and size.                        *)
Clamp(n) == IF n < 0 THEN 0 ELSE IF n > 100 THEN 100 ELSE n
Points(cond, n) == IF cond THEN n ELSE 0

FaultyScore(it, hits, keyword, recent, observed, old) ==   \* mutant: recency worth 15
  Clamp(Points(it.pinned, 100) + Points(it.tier = "anchor", 20) + 30 * hits
        + Points(keyword, 15) + Points(recent, 15)
        + Points(observed /\ ~recent /\ ~it.pinned, -10) + Points(old, -20)
        + Points(it.tokens > Window \div 2, -10))
Score(it, hits, keyword, recent, observed, old) ==
  Clamp(Points(it.pinned, 100) + Points(it.tier = "anchor", 20) + 30 * hits
        + Points(keyword, 15) + Points(recent, 25)
        + Points(observed /\ ~recent /\ ~it.pinned, -10) + Points(old, -20)
        + Points(it.tokens > Window \div 2, -10))

(* Staleness: an unpinned, unmentioned item in the first half of the order.*)
Position(id) == Cardinality({x \in DOMAIN items \ {id} : <<x, id>> \in order})
OldThreshold == Max({1, Cardinality(DOMAIN items) \div 2})

Promotes(it, score) == score >= 60 /\ it.tier = "near"
Demotes(it, score) == ~Promotes(it, score) /\ score < 5 /\ ~it.pinned
Compresses(it, score) ==
  ~Promotes(it, score) /\ score \in 5..9 /\ ~it.pinned /\ it.tier = "near"

(* Review: one atomic read of the active items and the order.              *)
Review(hits, mentioned, observed) ==
  LET S == Active(items)
      recent(id) == observed /\ id \in mentioned
      old(id) == ~items[id].pinned /\ Position(id) < OldThreshold /\ ~recent(id)
      score(id) == Score(items[id], hits[id], id \in Keyworded, recent(id), observed, old(id))
      up == {id \in S : Promotes(items[id], score(id))}
  IN /\ review = Idle
     /\ review' = [promoted   |-> [id \in up |-> [items[id] EXCEPT !.tier = "anchor"]],
                   demoted    |-> {id \in S : Demotes(items[id], score(id))},
                   compressed |-> {id \in S : Compresses(items[id], score(id))}]
     /\ UNCHANGED vars

(* Mutant: an upsert in place of the Update.                               *)
FaultyApplyPromotion(id) ==
  /\ id \in DOMAIN review.promoted
  /\ review' = [review EXCEPT
       !.promoted = [x \in DOMAIN review.promoted \ {id} |-> review.promoted[x]]]
  /\ Upsert(id, review.promoted[id])

(* Apply a promotion: Update with the copy the review took; an id that is  *)
(* gone makes Update fail and changes nothing.                             *)
ApplyPromotion(id) ==
  /\ id \in DOMAIN review.promoted
  /\ review' = [review EXCEPT
       !.promoted = [x \in DOMAIN review.promoted \ {id} |-> review.promoted[x]]]
  /\ IF id \in DOMAIN items
     THEN Update(id, review.promoted[id])
     ELSE UNCHANGED vars

ApplyDemotion(id) ==
  /\ DOMAIN review.promoted = {}
  /\ id \in review.demoted
  /\ review' = [review EXCEPT !.demoted = @ \ {id}]
  /\ IF id \in DOMAIN items
     THEN Remove(id)
     ELSE UNCHANGED vars

ApplyCompression(n, comp) ==
  /\ DOMAIN review.promoted = {} /\ review.demoted = {} /\ review.compressed # {}
  /\ review' = Idle
  /\ IF review.compressed \intersect DOMAIN items # {}
     THEN CompressItems(review.compressed, n, comp)
     ELSE UNCHANGED vars

OracleApply ==
  \/ \E id \in AllIds : ApplyPromotion(id) \/ ApplyDemotion(id)
  \/ \E n \in Sizes, comp \in CompIds : ApplyCompression(n, comp)

(* The runtime goroutine between reviews: bootstrap observations, memory   *)
(* and the resume summary are upserted, a resumed session's items added.   *)
RuntimeStep ==
  /\ review = Idle
  /\ \E id \in Ids : \E o \in Offers[id] : Add(id, o.item) \/ Upsert(id, o.item)
  /\ UNCHANGED review

(* The UI command goroutine and the agent loop.                            *)
UserCommand ==
  /\ \E id \in AllIds : SetPinned(id, TRUE) \/ SetPinned(id, FALSE) \/ Remove(id)
  /\ UNCHANGED review

AgentStep ==
  /\ \/ \E id \in Ids : \E o \in Offers[id] : Admit(id, o.item, o.source)
     \/ AutoBudget
  /\ UNCHANGED review

OInit == Init /\ review = Idle

ONext ==
  \/ \E hits \in Goals, mentioned \in Mentions, observed \in BOOLEAN :
       Review(hits, mentioned, observed)
  \/ OracleApply
  \/ RuntimeStep
  \/ UserCommand
  \/ AgentStep

OSpec == OInit /\ [][ONext]_ovars

-----------------------------------------------------------------------------
OTypeOK ==
  /\ TypeOK
  /\ DOMAIN review = {"promoted", "demoted", "compressed"}
  /\ DOMAIN review.promoted \subseteq AllIds
  /\ review.promoted \in [DOMAIN review.promoted -> Item]
  /\ review.demoted \subseteq AllIds
  /\ review.compressed \subseteq AllIds

(* oracle.go, Review: "pinned items -> never demoted or compressed"; the   *)
(* scorer repeats it.  Whatever is pinned when the oracle acts is neither  *)
(* removed nor listed as the source of a new summary, and stays pinned.    *)
PinnedNeverDemoted ==
  [][OracleApply =>
       \A id \in DOMAIN items : items[id].pinned =>
         /\ id \in DOMAIN items' /\ items'[id].pinned
         /\ \A c \in drawn' \ drawn : id \notin records'[c]]_ovars

(* An id the user or the budget took out of the map between the review and *)
(* its application is not put back: the oracle only adds summaries.        *)
OracleNeverRecreates ==
  [][OracleApply => DOMAIN items' \subseteq DOMAIN items \union CompIds]_ovars

(* oracle.go compresses items that score 5 to 9, and no caller outside the *)
(* tests ever sets an item's Keywords.  Without the keyword bonus a score  *)
(* is a multiple of ten, or at least 15: such an item is never compressed. *)
OnlyKeywordedCompressed == review.compressed \subseteq Keyworded
=============================================================================
