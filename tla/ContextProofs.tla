----------------------------- MODULE ContextProofs -----------------------------
(***************************************************************************)
(* Proofs about ContextOracle, for every set of ids, window and size.      *)
(*   IInv       adds two facts to the properties the runs check: ids of    *)
(*              compression artifacts appear nowhere before they are       *)
(*              drawn, and a promotion still waiting to be applied, though *)
(*              stale, obeys the lineage rule the map obeys                *)
(*   FiniteMap  the map is finite, so that the tokens in use are a sum;    *)
(*              eviction and admission are reasoned about by counting      *)
(***************************************************************************)
EXTENDS ContextOracle, TLAPS, FiniteSetTheorems, WellFoundedInduction

(* The manager's part.                                                     *)
DrawnFirst ==
  /\ DOMAIN items \intersect CompIds \subseteq drawn
  /\ \A id \in DOMAIN items : items[id].replacedBy \in drawn \union {NoId}

MapInv == TypeOK /\ OrderIsLinear /\ LineageRecorded /\ DrawnFirst

(* The oracle's part.                                                      *)
StaleLineage ==
  \A id \in DOMAIN review.promoted :
    LET c == review.promoted[id].replacedBy
    IN /\ c \in drawn \union {NoId}
       /\ c \in DOMAIN items => c \in DOMAIN records /\ id \in records[c]

IInv == MapInv /\ OTypeOK /\ StaleLineage

(* What every operation of the manager leaves of the lineage: artifacts    *)
(* appear only under fresh ids, and the record of an artifact that stays   *)
(* stays as it was.                                                        *)
LineageKept ==
  /\ drawn \subseteq drawn'
  /\ \A c \in DOMAIN items' \intersect CompIds : c \in DOMAIN items \/ c \notin drawn
  /\ \A c \in DOMAIN items' \intersect DOMAIN records :
       c \in DOMAIN records' /\ records'[c] = records[c]

-----------------------------------------------------------------------------
(* What an insert-or-overwrite does to the order: it stays linear over the *)
(* grown domain.                                                           *)
LEMMA ListedLinear ==
  ASSUME OrderIsLinear, NEW id,
         DOMAIN items' = DOMAIN items \union {id}, order' = Listed(id)
  PROVE  OrderIsLinear'
<1> DEFINE D == DOMAIN items
<1>1. CASE id \in D
  <2>1. DOMAIN items' = D /\ order' = order
    BY <1>1 DEF Listed
  <2> QED BY <2>1 DEF OrderIsLinear
<1>2. CASE id \notin D
  <2>1. order' = order \union ((D \union {id}) \X {id})
    BY <1>2 DEF Listed, Appended
  <2>2. order \subseteq D \X D
    BY DEF OrderIsLinear
  <2>3. \A x, y : <<x, y>> \in order => x \in D /\ y \in D
    BY <2>2
  <2>4. \A x, y : <<x, y>> \in order' <=> <<x, y>> \in order \/ (x \in D \union {id} /\ y = id)
    BY <2>1
  <2>5. \A x, y \in D \union {id} :
          <<x, y>> \in order' <=> (y = id \/ (<<x, y>> \in order /\ x # id /\ y # id))
    BY <2>3, <2>4, <1>2
  <2>6. order' \subseteq (D \union {id}) \X (D \union {id})
    BY <2>1 DEF OrderIsLinear
  <2>7. \A x, y \in D \union {id} : <<x, y>> \in order' \/ <<y, x>> \in order'
    BY <2>5 DEF OrderIsLinear
  <2>8. \A x, y \in D \union {id} : <<x, y>> \in order' /\ <<y, x>> \in order' => x = y
    BY <2>5 DEF OrderIsLinear
  <2>9. \A x, y, z \in D \union {id} :
          <<x, y>> \in order' /\ <<y, z>> \in order' => <<x, z>> \in order'
    BY <2>5 DEF OrderIsLinear
  <2> QED BY <2>6, <2>7, <2>8, <2>9 DEF OrderIsLinear
<1> QED BY <1>1, <1>2

(* What a removal does to it.                                              *)
LEMMA WithoutLinear ==
  ASSUME OrderIsLinear, NEW S,
         DOMAIN items' = DOMAIN items \ S, order' = Without(S)
  PROVE  OrderIsLinear'
BY DEF OrderIsLinear, Without

-----------------------------------------------------------------------------
(* The operations of the manager, one lemma each.                          *)

(* An item written at an id: Update, and the core of Add, Upsert, Admit.   *)
LEMMA PutInv ==
  ASSUME MapInv, NEW id \in AllIds, NEW it \in Item,
         id \in CompIds => id \in DOMAIN items,
         it.replacedBy \in drawn \union {NoId},
         it.replacedBy \in DOMAIN items =>
           it.replacedBy \in DOMAIN records /\ id \in records[it.replacedBy],
         items' = Put(id, it), order' = Listed(id), UNCHANGED <<records, drawn>>
  PROVE  MapInv' /\ LineageKept
<1>1. /\ DOMAIN items' = DOMAIN items \union {id}
      /\ \A x \in DOMAIN items' : items'[x] = IF x = id THEN it ELSE items[x]
  BY DEF Put
<1>2. OrderIsLinear'
  BY <1>1, ListedLinear DEF MapInv
<1>3. TypeOK'
  <2>1. DOMAIN items' \subseteq AllIds /\ items' \in [DOMAIN items' -> Item]
    BY <1>1 DEF MapInv, TypeOK, Put
  <2>2. order' \subseteq AllIds \X AllIds
    BY <1>2, <2>1 DEF OrderIsLinear
  <2> QED BY <2>1, <2>2 DEF MapInv, TypeOK
<1>4. DrawnFirst'
  BY <1>1 DEF MapInv, DrawnFirst
<1>5. it.replacedBy # id \/ id \in DOMAIN items
  BY ContextAssumption DEF AllIds, MapInv, TypeOK
<1>6. LineageRecorded'
  <2> SUFFICES ASSUME NEW x \in DOMAIN items',
                      items'[x].replacedBy \in DOMAIN items'
               PROVE  /\ items'[x].replacedBy \in DOMAIN records
                      /\ x \in records[items'[x].replacedBy]
    BY DEF LineageRecorded
  <2>1. items'[x].replacedBy \in drawn /\ items'[x].replacedBy \in CompIds
    BY <1>1, <1>3, <1>4, ContextAssumption DEF DrawnFirst, MapInv, TypeOK, AllIds
  <2>2. items'[x].replacedBy \in DOMAIN items
    BY <1>1, <2>1
  <2> QED BY <1>1, <2>2 DEF MapInv, LineageRecorded
<1>7. LineageKept
  BY <1>1 DEF LineageKept, MapInv, DrawnFirst
<1> QED BY <1>2, <1>3, <1>4, <1>6, <1>7 DEF MapInv

(* Items taken out of the map with their order entries: Remove, AutoBudget.*)
LEMMA DropInv ==
  ASSUME MapInv, NEW S,
         items' = Drop(S), order' = Without(S), drawn' = drawn,
         DOMAIN records' \subseteq DOMAIN records,
         \A c \in DOMAIN records' : records'[c] = records[c],
         records' \in [DOMAIN records' -> SUBSET AllIds],
         DOMAIN records \ S \subseteq DOMAIN records'
  PROVE  MapInv' /\ LineageKept
<1>1. /\ DOMAIN items' = DOMAIN items \ S
      /\ \A x \in DOMAIN items' : items'[x] = items[x]
  BY DEF Drop
<1>2. OrderIsLinear'
  BY <1>1, WithoutLinear DEF MapInv
<1>3. TypeOK'
  <2>1. DOMAIN items' \subseteq AllIds /\ items' \in [DOMAIN items' -> Item]
    BY <1>1 DEF MapInv, TypeOK, Drop
  <2>2. order' \subseteq AllIds \X AllIds
    BY <1>2, <2>1 DEF OrderIsLinear
  <2> QED BY <2>1, <2>2 DEF MapInv, TypeOK
<1>4. DrawnFirst'
  BY <1>1 DEF MapInv, DrawnFirst
<1>5. LineageRecorded'
  BY <1>1 DEF MapInv, LineageRecorded
<1>6. LineageKept
  BY <1>1 DEF LineageKept
<1> QED BY <1>2, <1>3, <1>4, <1>5, <1>6 DEF MapInv

(* Remove (manager.go): the id, its order entries and its record go.       *)
LEMMA RemoveInv ==
  ASSUME MapInv, NEW id, Remove(id)
  PROVE  MapInv' /\ LineageKept
BY DropInv DEF Remove, MapInv, TypeOK

(* AutoBudget (manager.go): the evicted go, records of the others stay.    *)
LEMMA AutoBudgetInv ==
  ASSUME MapInv, AutoBudget
  PROVE  MapInv' /\ LineageKept
BY DropInv DEF AutoBudget, MapInv, TypeOK

(* Pin and Unpin (manager.go): no id comes or goes.                        *)
LEMMA SetPinnedInv ==
  ASSUME MapInv, NEW id, NEW pinned \in BOOLEAN, SetPinned(id, pinned)
  PROVE  MapInv' /\ LineageKept
<1>1. /\ DOMAIN items' = DOMAIN items
      /\ \A x \in DOMAIN items' : items'[x] \in Item /\ items'[x].replacedBy = items[x].replacedBy
  BY DEF SetPinned, MapInv, TypeOK, Item
<1>2. items' \in [DOMAIN items' -> Item]
  BY <1>1 DEF SetPinned
<1>3. UNCHANGED <<order, records, drawn>>
  BY DEF SetPinned
<1>4. TypeOK' /\ OrderIsLinear'
  BY <1>1, <1>2, <1>3 DEF MapInv, TypeOK, OrderIsLinear
<1>5. LineageRecorded' /\ DrawnFirst' /\ LineageKept
  BY <1>1, <1>3 DEF MapInv, LineageRecorded, DrawnFirst, LineageKept
<1> QED BY <1>4, <1>5 DEF MapInv

(* CompressItems (compression.go): a summary under an id just drawn, whose *)
(* record names every item that now points to it.                          *)
LEMMA CompressInv ==
  ASSUME MapInv, NEW ids, NEW n \in Sizes, NEW comp \in CompIds, CompressItems(ids, n, comp)
  PROVE  MapInv' /\ LineageKept
<1> DEFINE D == DOMAIN items
           valid == ids \intersect D
<1>1. /\ comp \notin drawn
      /\ drawn' = drawn \union {comp}
      /\ comp \notin D
      /\ comp \in AllIds
  BY DEF CompressItems, Draw, MapInv, DrawnFirst, AllIds
<1>2. /\ DOMAIN items' = D \union {comp}
      /\ items'[comp] = Fresh("near", n, FALSE)
      /\ \A x \in D : items'[x] = IF x \in valid THEN [items[x] EXCEPT !.replacedBy = comp]
                                              ELSE items[x]
  BY <1>1 DEF CompressItems
<1>3. /\ DOMAIN records' = DOMAIN records \union {comp}
      /\ records'[comp] = valid
      /\ \A c \in DOMAIN records : records'[c] = records[c]
      /\ records' = [c \in DOMAIN records \union {comp} |-> IF c = comp THEN valid ELSE records[c]]
  BY <1>1 DEF CompressItems, MapInv, TypeOK
<1>4. OrderIsLinear'
  <2>1. order' = Listed(comp)
    BY <1>1 DEF CompressItems, Listed
  <2> QED BY <1>2, <2>1, ListedLinear DEF MapInv
<1>5. \A x \in D : /\ items'[x] \in Item
                   /\ items'[x].replacedBy = IF x \in valid THEN comp ELSE items[x].replacedBy
  BY <1>2 DEF MapInv, TypeOK, Item
<1>6. items'[comp] \in Item /\ items'[comp].replacedBy = NoId
  BY <1>2, ContextAssumption DEF Fresh, Item, Tiers
<1>7. TypeOK'
  <2>1. DOMAIN items' \subseteq AllIds
    BY <1>1, <1>2 DEF MapInv, TypeOK
  <2>2. items' \in [DOMAIN items' -> Item]
    BY <1>2, <1>5, <1>6 DEF CompressItems
  <2>3. order' \subseteq AllIds \X AllIds
    BY <1>4, <2>1 DEF OrderIsLinear
  <2>4. drawn' \subseteq CompIds /\ DOMAIN records' \subseteq drawn'
    BY <1>1, <1>3 DEF MapInv, TypeOK
  <2>5. records' \in [DOMAIN records' -> SUBSET AllIds]
    BY <1>3 DEF MapInv, TypeOK
  <2> QED BY <2>1, <2>2, <2>3, <2>4, <2>5 DEF TypeOK
<1>8. DrawnFirst'
  BY <1>1, <1>2, <1>5, <1>6 DEF MapInv, DrawnFirst
<1>9. LineageRecorded'
  <2> SUFFICES ASSUME NEW x \in DOMAIN items',
                      items'[x].replacedBy \in DOMAIN items'
               PROVE  /\ items'[x].replacedBy \in DOMAIN records'
                      /\ x \in records'[items'[x].replacedBy]
    BY DEF LineageRecorded
  <2>1. x \in D
    BY <1>2, <1>6, <1>7, ContextAssumption DEF TypeOK
  <2>2. CASE x \in valid
    BY <2>1, <2>2, <1>3, <1>5
  <2>3. CASE x \notin valid
    <3>1. items'[x].replacedBy = items[x].replacedBy
      BY <2>1, <2>3, <1>5
    <3>2. items[x].replacedBy # comp
      BY <2>1, <1>1, ContextAssumption DEF MapInv, DrawnFirst, AllIds
    <3> QED BY <2>1, <3>1, <3>2, <1>2, <1>3 DEF MapInv, LineageRecorded
  <2> QED BY <2>2, <2>3
<1>10. LineageKept
  BY <1>1, <1>2, <1>3 DEF LineageKept, MapInv, TypeOK
<1> QED BY <1>4, <1>7, <1>8, <1>9, <1>10 DEF MapInv

-----------------------------------------------------------------------------
(* The initial order of the seeds is linear.                               *)
LEMMA InitInv == OInit => IInv
<1> SUFFICES ASSUME OInit PROVE IInv
  OBVIOUS
<1>1. PICK n \in Sizes : items = [id \in Seeds |-> Fresh("anchor", n, TRUE)]
  BY DEF OInit, Init
<1>2. /\ DOMAIN items = Seeds
      /\ \A id \in Seeds : items[id] = Fresh("anchor", n, TRUE)
  BY <1>1
<1>3. \A id \in Seeds : items[id] \in Item /\ items[id].replacedBy = NoId
  <2>1. n \in Nat
    BY ContextAssumption
  <2>2. Fresh("anchor", n, TRUE) \in Item
    BY <2>1 DEF Fresh, Item, Tiers
  <2>3. Fresh("anchor", n, TRUE).replacedBy = NoId
    BY DEF Fresh
  <2> QED BY <1>2, <2>2, <2>3
<1>4. drawn = {} /\ DOMAIN records = {} /\ records \in [DOMAIN records -> SUBSET AllIds]
  BY DEF OInit, Init
<1>5. OrderIsLinear
  <2>1. PICK rank \in [Seeds -> 1..Cardinality(Seeds)] :
          /\ \A x, y \in Seeds : rank[x] = rank[y] => x = y
          /\ order = {p \in Seeds \X Seeds : rank[p[1]] <= rank[p[2]]}
    BY DEF OInit, Init, Injection, IsInjective
  <2>2. \A x \in Seeds : rank[x] \in Int
    BY <2>1
  <2>3. \A x, y \in Seeds : <<x, y>> \in order <=> rank[x] <= rank[y]
    BY <2>1
  <2> QED BY <1>2, <2>1, <2>2, <2>3 DEF OrderIsLinear
<1>6. TypeOK
  <2>1. items \in [DOMAIN items -> Item]
    BY <1>1, <1>2, <1>3
  <2> QED BY <1>2, <1>4, <1>5, <2>1, ContextAssumption DEF TypeOK, OrderIsLinear, AllIds
<1>7. LineageRecorded
  BY <1>2, <1>3, ContextAssumption DEF LineageRecorded, AllIds
<1>8. DrawnFirst
  BY <1>2, <1>3, <1>4, ContextAssumption DEF DrawnFirst
<1>9. DOMAIN review.promoted = {} /\ review.demoted = {} /\ review.compressed = {}
  BY DEF OInit, Idle
<1>10. OTypeOK
  BY <1>6, <1>9 DEF OTypeOK, OInit, Idle
<1> QED BY <1>5, <1>6, <1>7, <1>8, <1>9, <1>10 DEF IInv, MapInv, StaleLineage

(* The lineage of a stale copy survives every operation of the manager and *)
(* every removal from the list of promotions.                              *)
LEMMA StaleStep ==
  ASSUME IInv, MapInv', LineageKept,
         DOMAIN review'.promoted \subseteq DOMAIN review.promoted,
         \A id \in DOMAIN review'.promoted : review'.promoted[id] = review.promoted[id]
  PROVE  StaleLineage'
<1> SUFFICES ASSUME NEW id \in DOMAIN review'.promoted
             PROVE  LET c == review'.promoted[id].replacedBy
                    IN /\ c \in drawn' \union {NoId}
                       /\ c \in DOMAIN items' => c \in DOMAIN records' /\ id \in records'[c]
  BY DEF StaleLineage
<1> DEFINE c == review.promoted[id].replacedBy
<1>1. /\ c = review'.promoted[id].replacedBy
      /\ c \in drawn \union {NoId}
      /\ c \in DOMAIN items => c \in DOMAIN records /\ id \in records[c]
  BY DEF IInv, StaleLineage
<1>2. c \in drawn' \union {NoId}
  BY <1>1 DEF LineageKept
<1>3. ASSUME c \in DOMAIN items'
      PROVE  c \in DOMAIN records' /\ id \in records'[c]
  <2>1. c \in AllIds /\ c \in drawn /\ c \in CompIds
    BY <1>1, <1>3, ContextAssumption DEF MapInv, TypeOK, IInv
  <2>2. c \in DOMAIN items
    BY <1>3, <2>1 DEF LineageKept
  <2> QED BY <1>1, <1>3, <2>2 DEF LineageKept
<1> QED BY <1>1, <1>2, <1>3

(* Steps of the manager that leave the review alone.                       *)
LEMMA ManagerStep ==
  ASSUME IInv, MapInv', LineageKept, UNCHANGED review
  PROVE  IInv'
<1>1. StaleLineage'
  BY StaleStep
<1> QED BY <1>1 DEF IInv, OTypeOK, MapInv

(* What callers offer carries no lineage and has no summary's id.          *)
LEMMA OfferedItem ==
  ASSUME NEW id \in Ids, NEW o \in Offers[id]
  PROVE  o.item \in Item /\ o.item.replacedBy = NoId /\ id \notin CompIds /\ id \in AllIds
BY ContextAssumption DEF AllIds

(* An offered item written at its id: Add, Upsert and Admit.               *)
LEMMA WriteInv ==
  ASSUME IInv, NEW id \in Ids, NEW it \in Item, it.replacedBy = NoId,
         items' = Put(id, it), order' = Listed(id), UNCHANGED <<records, drawn, review>>
  PROVE  IInv'
<1>1. id \in AllIds /\ id \notin CompIds /\ NoId \notin DOMAIN items
  BY ContextAssumption DEF AllIds, IInv, MapInv, TypeOK
<1>2. MapInv' /\ LineageKept
  BY <1>1, PutInv DEF IInv
<1> QED BY <1>2, ManagerStep

-----------------------------------------------------------------------------
(* Review only reads the map; the copies it takes obey the lineage rule.   *)
LEMMA ReviewInv ==
  ASSUME IInv, NEW hits, NEW mentioned, NEW observed, Review(hits, mentioned, observed)
  PROVE  IInv'
<1>1. UNCHANGED vars
  BY DEF Review
<1>2. MapInv'
  BY <1>1 DEF IInv, MapInv, TypeOK, OrderIsLinear, LineageRecorded, DrawnFirst, vars
<1>3. /\ DOMAIN review' = {"promoted", "demoted", "compressed"}
      /\ DOMAIN review'.promoted \subseteq DOMAIN items
      /\ \A id \in DOMAIN review'.promoted :
           review'.promoted[id] = [items[id] EXCEPT !.tier = "anchor"]
      /\ review'.promoted = [id \in DOMAIN review'.promoted |-> [items[id] EXCEPT !.tier = "anchor"]]
      /\ review'.demoted \subseteq DOMAIN items
      /\ review'.compressed \subseteq DOMAIN items
  BY DEF Review, Active
<1>4. \A id \in DOMAIN review'.promoted :
        /\ review'.promoted[id] \in Item
        /\ review'.promoted[id].replacedBy = items[id].replacedBy
  BY <1>3 DEF IInv, MapInv, TypeOK, Item, Tiers
<1>5. review'.promoted \in [DOMAIN review'.promoted -> Item]
  BY <1>3, <1>4
<1>6. OTypeOK'
  BY <1>2, <1>3, <1>5, <1>1 DEF OTypeOK, IInv, MapInv, TypeOK, vars
<1>7. StaleLineage'
  BY <1>1, <1>3, <1>4 DEF StaleLineage, IInv, MapInv, LineageRecorded, DrawnFirst, vars
<1> QED BY <1>2, <1>6, <1>7 DEF IInv

(* A promotion writes an old copy back, if the id is still there.          *)
LEMMA ApplyPromotionInv ==
  ASSUME IInv, NEW id \in AllIds, ApplyPromotion(id)
  PROVE  IInv'
<1>1. /\ id \in DOMAIN review.promoted
      /\ review' = [review EXCEPT
           !.promoted = [x \in DOMAIN review.promoted \ {id} |-> review.promoted[x]]]
  BY DEF ApplyPromotion
<1>2. /\ DOMAIN review' = {"promoted", "demoted", "compressed"}
      /\ DOMAIN review'.promoted = DOMAIN review.promoted \ {id}
      /\ \A x \in DOMAIN review'.promoted : review'.promoted[x] = review.promoted[x]
      /\ review'.promoted \in [DOMAIN review'.promoted -> Item]
      /\ review'.demoted = review.demoted /\ review'.compressed = review.compressed
  BY <1>1 DEF IInv, OTypeOK
<1>3. MapInv' /\ LineageKept
  <2>1. CASE id \in DOMAIN items
    <3>1. Update(id, review.promoted[id])
      BY <2>1 DEF ApplyPromotion
    <3>2. items' = Put(id, review.promoted[id]) /\ order' = Listed(id) /\ UNCHANGED <<records, drawn>>
      BY <2>1, <3>1 DEF Update, Listed
    <3>3. /\ review.promoted[id] \in Item
          /\ review.promoted[id].replacedBy \in drawn \union {NoId}
          /\ review.promoted[id].replacedBy \in DOMAIN items =>
               /\ review.promoted[id].replacedBy \in DOMAIN records
               /\ id \in records[review.promoted[id].replacedBy]
      BY <1>1 DEF IInv, OTypeOK, StaleLineage
    <3> QED BY <2>1, <3>2, <3>3, PutInv DEF IInv
  <2>2. CASE id \notin DOMAIN items
    BY <2>2 DEF ApplyPromotion, vars, IInv, MapInv, TypeOK, OrderIsLinear, LineageRecorded,
                DrawnFirst, LineageKept
  <2> QED BY <2>1, <2>2
<1>4. StaleLineage'
  BY <1>2, <1>3, StaleStep
<1> QED BY <1>2, <1>3, <1>4 DEF IInv, OTypeOK, MapInv

(* A demotion removes the id, whatever it has become meanwhile.            *)
LEMMA ApplyDemotionInv ==
  ASSUME IInv, NEW id \in AllIds, ApplyDemotion(id)
  PROVE  IInv'
<1>1. review' = [review EXCEPT !.demoted = @ \ {id}]
  BY DEF ApplyDemotion
<1>2. MapInv' /\ LineageKept
  <2>1. CASE id \in DOMAIN items
    BY <2>1, RemoveInv DEF ApplyDemotion, IInv
  <2>2. CASE id \notin DOMAIN items
    BY <2>2 DEF ApplyDemotion, vars, IInv, MapInv, TypeOK, OrderIsLinear, LineageRecorded,
                DrawnFirst, LineageKept
  <2> QED BY <2>1, <2>2
<1>3. /\ DOMAIN review' = DOMAIN review
      /\ review'.promoted = review.promoted
      /\ review'.compressed = review.compressed
      /\ review'.demoted \subseteq review.demoted
  BY <1>1 DEF IInv, OTypeOK
<1>4. StaleLineage'
  BY <1>2, <1>3, StaleStep
<1> QED BY <1>2, <1>3, <1>4 DEF IInv, OTypeOK, MapInv

(* The compression takes those of its ids that are still there.            *)
LEMMA ApplyCompressionInv ==
  ASSUME IInv, NEW n \in Sizes, NEW comp \in CompIds, ApplyCompression(n, comp)
  PROVE  IInv'
<1>1. MapInv' /\ LineageKept
  <2>1. CASE review.compressed \intersect DOMAIN items # {}
    BY <2>1, CompressInv DEF ApplyCompression, IInv
  <2>2. CASE review.compressed \intersect DOMAIN items = {}
    BY <2>2 DEF ApplyCompression, vars, IInv, MapInv, TypeOK, OrderIsLinear, LineageRecorded,
                DrawnFirst, LineageKept
  <2> QED BY <2>1, <2>2
<1>2. /\ DOMAIN review' = {"promoted", "demoted", "compressed"}
      /\ DOMAIN review'.promoted = {} /\ review'.demoted = {} /\ review'.compressed = {}
      /\ review'.promoted \in [DOMAIN review'.promoted -> Item]
  BY DEF ApplyCompression, Idle
<1>3. StaleLineage'
  BY <1>2 DEF StaleLineage
<1> QED BY <1>1, <1>2, <1>3 DEF IInv, OTypeOK, MapInv

(* Every step of the manager's callers and of the oracle keeps IInv.       *)
LEMMA NextInv == IInv /\ [ONext]_ovars => IInv'
<1> SUFFICES ASSUME IInv, [ONext]_ovars PROVE IInv'
  OBVIOUS
<1>1. CASE \E hits \in Goals, mentioned \in Mentions, observed \in BOOLEAN :
             Review(hits, mentioned, observed)
  BY <1>1, ReviewInv
<1>2. CASE OracleApply
  BY <1>2, ApplyPromotionInv, ApplyDemotionInv, ApplyCompressionInv DEF OracleApply
<1>3. CASE RuntimeStep
  <2>1. PICK id \in Ids : \E o \in Offers[id] : Add(id, o.item) \/ Upsert(id, o.item)
    BY <1>3 DEF RuntimeStep
  <2>2. PICK o \in Offers[id] : Add(id, o.item) \/ Upsert(id, o.item)
    BY <2>1
  <2>3. items' = Put(id, o.item) /\ order' = Listed(id) /\ UNCHANGED <<records, drawn, review>>
    BY <2>2, <1>3 DEF Add, Upsert, Listed, RuntimeStep
  <2> QED BY <2>3, OfferedItem, WriteInv
<1>4. CASE UserCommand
  <2>1. UNCHANGED review
    BY <1>4 DEF UserCommand
  <2>2. MapInv' /\ LineageKept
    BY <1>4, SetPinnedInv, RemoveInv DEF UserCommand, IInv
  <2> QED BY <2>1, <2>2, ManagerStep
<1>5. CASE AgentStep
  <2>1. UNCHANGED review
    BY <1>5 DEF AgentStep
  <2>2. CASE AutoBudget
    BY <2>1, <2>2, AutoBudgetInv, ManagerStep DEF IInv
  <2>3. CASE \E id \in Ids : \E o \in Offers[id] : Admit(id, o.item, o.source)
    <3>1. PICK id \in Ids : \E o \in Offers[id] : Admit(id, o.item, o.source)
      BY <2>3
    <3>2. PICK o \in Offers[id] : Admit(id, o.item, o.source)
      BY <3>1
    <3> DEFINE placed == IF o.source = "oversized" THEN [o.item EXCEPT !.tier = "artifact"]
                                                   ELSE o.item
    <3>3. placed \in Item /\ placed.replacedBy = NoId
      BY OfferedItem DEF Item, Tiers
    <3>4. items' = Put(id, placed) /\ order' = Listed(id) /\ UNCHANGED <<records, drawn>>
      BY <3>2 DEF Admit
    <3> HIDE DEF placed
    <3> QED BY <2>1, <3>3, <3>4, WriteInv
  <2> QED BY <1>5, <2>2, <2>3 DEF AgentStep
<1>6. CASE UNCHANGED ovars
  BY <1>6 DEF ovars, IInv, MapInv, OTypeOK, TypeOK, OrderIsLinear, LineageRecorded, DrawnFirst,
              StaleLineage
<1> QED BY <1>1, <1>2, <1>3, <1>4, <1>5, <1>6 DEF ONext

(* The inductive invariant holds throughout.                               *)
LEMMA Inductive == OSpec => []IInv
BY InitInv, NextInv, PTL DEF OSpec

(* The manager's state is well formed however the oracle's stale updates,  *)
(* the user's commands and the agent's admissions interleave (manager.go,  *)
(* oracle.go).                                                             *)
THEOREM TypeCorrect == OSpec => []OTypeOK
<1>1. IInv => OTypeOK
  BY DEF IInv
<1> QED BY <1>1, Inductive, PTL

(* The insertion-order slice lists exactly the ids of the map, once each,  *)
(* whatever is added, evicted, removed or compressed (manager.go).         *)
THEOREM OrderStaysLinear == OSpec => []OrderIsLinear
<1>1. IInv => OrderIsLinear
  BY DEF IInv, MapInv
<1> QED BY <1>1, Inductive, PTL

(* ReplacedBy lineage is never dangling in the record of a live artifact,  *)
(* although the oracle writes back copies of items it read before other    *)
(* goroutines changed them (compression.go, oracle.go).                    *)
THEOREM LineageStaysRecorded == OSpec => []LineageRecorded
<1>1. IInv => LineageRecorded
  BY DEF IInv, MapInv
<1> QED BY <1>1, Inductive, PTL

-----------------------------------------------------------------------------
(* Who takes items out of the map.                                         *)
LEMMA EvictedAreCandidates == Evicted \subseteq Candidates
BY DEF Evicted, Phase1, Phase2

(* Writing an item takes none out.                                         *)
LEMMA WritesKeep ==
  ASSUME NEW id, NEW it, items' = Put(id, it)
  PROVE  DOMAIN items \ DOMAIN items' = {}
BY DEF Put

(* The step-wise form of ProtectedLeaveOnlyByRemove.                       *)
LEMMA RemovalStep ==
  [ONext]_ovars =>
    \A id \in DOMAIN items \ DOMAIN items' :
      items[id].pinned \/ items[id].tier # "near" => Remove(id)
<1> SUFFICES ASSUME [ONext]_ovars, NEW id \in DOMAIN items \ DOMAIN items',
                    items[id].pinned \/ items[id].tier # "near"
             PROVE  Remove(id)
  OBVIOUS
<1>1. ASSUME NEW x, Remove(x) PROVE Remove(id)
  <2>1. DOMAIN items' = DOMAIN items \ {x}
    BY <1>1 DEF Remove, Drop
  <2> QED BY <1>1, <2>1
<1>2. CASE \E hits \in Goals, mentioned \in Mentions, observed \in BOOLEAN :
             Review(hits, mentioned, observed)
  BY <1>2 DEF Review, vars
<1>3. CASE OracleApply
  <2>1. ASSUME NEW x \in AllIds, ApplyPromotion(x) PROVE FALSE
    BY <2>1, WritesKeep DEF ApplyPromotion, Update, vars
  <2>2. ASSUME NEW x \in AllIds, ApplyDemotion(x) PROVE Remove(id)
    BY <2>2, <1>1 DEF ApplyDemotion, vars
  <2>3. ASSUME NEW n \in Sizes, NEW comp \in CompIds, ApplyCompression(n, comp) PROVE FALSE
    <3>1. DOMAIN items \subseteq DOMAIN items'
      BY <2>3 DEF ApplyCompression, CompressItems, vars
    <3> QED BY <3>1
  <2> QED BY <1>3, <2>1, <2>2, <2>3 DEF OracleApply
<1>4. CASE RuntimeStep
  BY <1>4, WritesKeep DEF RuntimeStep, Add, Upsert
<1>5. CASE UserCommand
  <2>1. ASSUME NEW x \in AllIds, NEW p \in BOOLEAN, SetPinned(x, p) PROVE FALSE
    BY <2>1 DEF SetPinned
  <2> QED BY <1>5, <1>1, <2>1 DEF UserCommand
<1>6. CASE AgentStep
  <2>1. ASSUME AutoBudget PROVE FALSE
    <3>1. id \in Evicted
      BY <2>1 DEF AutoBudget, Drop
    <3> QED BY <3>1, EvictedAreCandidates DEF Candidates
  <2>2. ASSUME NEW x \in Ids, NEW o \in Offers[x], Admit(x, o.item, o.source) PROVE FALSE
    BY <2>2, WritesKeep DEF Admit
  <2> QED BY <1>6, <2>1, <2>2 DEF AgentStep
<1>7. CASE UNCHANGED ovars
  BY <1>7 DEF ovars
<1> QED BY <1>2, <1>3, <1>4, <1>5, <1>6, <1>7 DEF ONext

(* Pinned items, anchors and artifacts leave the map only by a Remove: the *)
(* budget pass, admissions and compressions never take them (manager.go,   *)
(* AutoBudget: "Pinned items and Anchor items are never auto-evicted").    *)
THEOREM ProtectedStay == OSpec => ProtectedLeaveOnlyByRemove
<1>1. [ONext]_ovars =>
        [\A id \in DOMAIN items \ DOMAIN items' :
           items[id].pinned \/ items[id].tier # "near" => Remove(id)]_vars
  BY RemovalStep
<1> QED BY <1>1, PTL DEF OSpec, ProtectedLeaveOnlyByRemove

(* Applying a review adds no id but that of a summary.                     *)
LEMMA ApplyStep ==
  ASSUME OracleApply
  PROVE  DOMAIN items' \subseteq DOMAIN items \union CompIds
<1>1. ASSUME NEW x \in AllIds, ApplyPromotion(x) PROVE DOMAIN items' \subseteq DOMAIN items
  BY <1>1 DEF ApplyPromotion, Update, Put, vars
<1>2. ASSUME NEW x \in AllIds, ApplyDemotion(x) PROVE DOMAIN items' \subseteq DOMAIN items
  BY <1>2 DEF ApplyDemotion, Remove, Drop, vars
<1>3. ASSUME NEW n \in Sizes, NEW comp \in CompIds, ApplyCompression(n, comp)
      PROVE  DOMAIN items' \subseteq DOMAIN items \union CompIds
  <2>1. DOMAIN items' = DOMAIN items \union {comp} \/ items' = items
    BY <1>3 DEF ApplyCompression, CompressItems, vars
  <2> QED BY <2>1
<1>4. \/ \E x \in AllIds : ApplyPromotion(x) \/ ApplyDemotion(x)
      \/ \E n \in Sizes, comp \in CompIds : ApplyCompression(n, comp)
  BY DEF OracleApply
<1>5. CASE \E x \in AllIds : ApplyPromotion(x) \/ ApplyDemotion(x)
  BY <1>1, <1>2, <1>5
<1>6. CASE \E n \in Sizes, comp \in CompIds : ApplyCompression(n, comp)
  BY <1>3, <1>6
<1> QED BY <1>4, <1>5, <1>6

(* Applying a stale review never puts back what the user or the budget     *)
(* removed meanwhile (oracle.go, RunOracleStep; manager.go, Update).       *)
THEOREM NoRecreation == OSpec => OracleNeverRecreates
BY ApplyStep, PTL DEF OSpec, OracleNeverRecreates

-----------------------------------------------------------------------------
(* The arithmetic of computeOracleScore without its keyword bonus.         *)
LEMMA ClampGap ==
  ASSUME NEW n \in Int, n \notin 5..9
  PROVE  Clamp(n) \notin 5..9
BY DEF Clamp

LEMMA NoKeywordScore ==
  ASSUME NEW it \in Item, ~it.pinned, it.tier = "near", NEW hits \in Nat,
         NEW recent \in BOOLEAN, NEW observed \in BOOLEAN, NEW old \in BOOLEAN,
         recent => ~old
  PROVE  Score(it, hits, FALSE, recent, observed, old) \notin 5..9
<1> DEFINE n == Points(observed /\ ~recent /\ ~it.pinned, -10)
           o == Points(old, -20)
           b == Points(it.tokens > Window \div 2, -10)
           total == 30 * hits + Points(recent, 25) + n + o + b
<1>1. /\ n \in {-10, 0} /\ o \in {-20, 0} /\ b \in {-10, 0}
      /\ recent => n = 0 /\ o = 0
  BY DEF Points
<1>2. Score(it, hits, FALSE, recent, observed, old) = Clamp(total)
  BY DEF Score, Points
<1>3. total \in Int /\ total \notin 5..9
  <2>1. CASE recent
    <3>1. total = 30 * hits + 25 + b
      BY <1>1, <2>1 DEF Points
    <3> QED BY <1>1, <3>1
  <2>2. CASE ~recent
    <3>1. total = 30 * hits + (n + o + b)
      BY <1>1, <2>2 DEF Points
    <3>2. n + o + b \in {0, -10, -20, -30, -40}
      BY <1>1
    <3> HIDE DEF n, o, b
    <3> QED BY <3>1, <3>2
  <2> QED BY <2>1, <2>2
<1> HIDE DEF total
<1> QED BY <1>2, <1>3, ClampGap

(* Oracle compression needs the keyword bonus, which nothing outside the   *)
(* tests can earn (oracle.go, computeOracleScore; Keywords is never set).  *)
THEOREM CompressionNeedsKeywords == OSpec => []OnlyKeywordedCompressed
<1>1. OInit => OnlyKeywordedCompressed
  BY DEF OInit, Idle, OnlyKeywordedCompressed
<1>2. IInv /\ OnlyKeywordedCompressed /\ [ONext]_ovars => OnlyKeywordedCompressed'
  <2> SUFFICES ASSUME IInv, OnlyKeywordedCompressed, [ONext]_ovars
               PROVE  OnlyKeywordedCompressed'
    OBVIOUS
  <2>1. ASSUME NEW hits \in Goals, NEW mentioned \in Mentions, NEW observed \in BOOLEAN,
               Review(hits, mentioned, observed), NEW id \in review'.compressed
        PROVE  id \in Keyworded
    <3> DEFINE recent == observed /\ id \in mentioned
               old == ~items[id].pinned /\ Position(id) < OldThreshold /\ ~recent
    <3>1. /\ id \in Active(items)
          /\ Compresses(items[id], Score(items[id], hits[id], id \in Keyworded, recent, observed, old))
      BY <2>1 DEF Review
    <3>2. items[id] \in Item /\ hits[id] \in Nat /\ ~items[id].pinned /\ items[id].tier = "near"
      BY <3>1, OracleAssumption DEF Compresses, Active, IInv, MapInv, TypeOK
    <3>3. ASSUME id \notin Keyworded PROVE FALSE
      <4>1. Score(items[id], hits[id], FALSE, recent, observed, old) \in 5..9
        BY <3>1, <3>3 DEF Compresses, Score, Points
      <4> QED BY <3>2, <4>1, NoKeywordScore
    <3> QED BY <3>3
  <2>2. ASSUME OracleApply PROVE review'.compressed \subseteq review.compressed
    <3>1. ASSUME NEW x \in AllIds, ApplyPromotion(x) \/ ApplyDemotion(x)
          PROVE  review'.compressed = review.compressed
      BY <3>1 DEF ApplyPromotion, ApplyDemotion, IInv, OTypeOK
    <3>2. ASSUME NEW n \in Sizes, NEW comp \in CompIds, ApplyCompression(n, comp)
          PROVE  review'.compressed = {}
      BY <3>2 DEF ApplyCompression, Idle
    <3> QED BY <2>2, <3>1, <3>2 DEF OracleApply
  <2>3. CASE RuntimeStep \/ UserCommand \/ AgentStep
    BY <2>3 DEF RuntimeStep, UserCommand, AgentStep, OnlyKeywordedCompressed
  <2>4. CASE UNCHANGED ovars
    BY <2>4 DEF ovars, OnlyKeywordedCompressed
  <2>5. CASE \E hits \in Goals, mentioned \in Mentions, observed \in BOOLEAN :
               Review(hits, mentioned, observed)
    BY <2>1, <2>5 DEF OnlyKeywordedCompressed
  <2>6. CASE OracleApply
    BY <2>2, <2>6 DEF OnlyKeywordedCompressed
  <2> QED BY <2>3, <2>4, <2>5, <2>6 DEF ONext
<1> QED BY <1>1, <1>2, Inductive, PTL DEF OSpec

-----------------------------------------------------------------------------
(* Sums.  Used adds the tokens of the active items one by one, in an order *)
(* the fold chooses.  Each item is given as many units as it has tokens:   *)
(* the sum is the number of units, and what is known of cardinalities      *)
(* holds of sums.                                                          *)
Weighted(its, S) == \A x \in S : its[x].tokens \in Nat
UnitsOf(its, x) == {x} \X (1..its[x].tokens)
Units(its, S)   == UNION {UnitsOf(its, x) : x \in S}
SumOver(its, S) == Cardinality(Units(its, S))

LEMMA UnitsOfOne ==
  ASSUME NEW its, NEW x, its[x].tokens \in Nat
  PROVE  IsFiniteSet(UnitsOf(its, x)) /\ Cardinality(UnitsOf(its, x)) = its[x].tokens
<1> DEFINE n == its[x].tokens
<1>1. IsFiniteSet({x}) /\ Cardinality({x}) = 1
  BY FS_Singleton
<1>2. n \in Nat
  OBVIOUS
<1> HIDE DEF n
<1>3. IsFiniteSet(1..n) /\ Cardinality(1..n) = n
  <2>1. 1 \in Int /\ n \in Int
    BY <1>2
  <2>2. IsFiniteSet(1..n) /\ Cardinality(1..n) = IF 1 > n THEN 0 ELSE n - 1 + 1
    BY <2>1, FS_Interval
  <2> QED
    BY <1>2, <2>2
<1>4. IsFiniteSet({x} \X (1..n)) /\ Cardinality({x} \X (1..n)) = Cardinality({x}) * Cardinality(1..n)
  BY <1>1, <1>3, FS_Product
<1>5. Cardinality({x} \X (1..n)) = n
  BY <1>1, <1>3, <1>4, <1>2
<1> QED
  BY <1>4, <1>5 DEF UnitsOf, n

LEMMA UnitsAreFinite ==
  ASSUME NEW its, NEW S, IsFiniteSet(S), Weighted(its, S)
  PROVE  IsFiniteSet(Units(its, S)) /\ SumOver(its, S) \in Nat
<1> DEFINE all == {UnitsOf(its, x) : x \in S}
<1>1. \A T \in all : IsFiniteSet(T)
  BY UnitsOfOne DEF Weighted
<1>2. IsFiniteSet(all)
  <2> DEFINE f == [x \in S |-> UnitsOf(its, x)]
  <2>1. f \in Surjection(S, all)
    BY DEF Surjection
  <2> HIDE DEF f, all
  <2> QED
    BY <2>1, FS_Surjection
<1>3. IsFiniteSet(UNION all)
  <2> HIDE DEF all
  <2> QED
    BY <1>1, <1>2, FS_UNION
<1> QED
  BY <1>3, FS_CardinalityType DEF Units, SumOver

LEMMA InUnits ==
  ASSUME NEW its, NEW S, NEW p
  PROVE  p \in Units(its, S) <=> \E x \in S : p \in UnitsOf(its, x)
BY DEF Units

LEMMA UnitsApart ==
  ASSUME NEW its, NEW S, NEW T, S \intersect T = {}
  PROVE  /\ Units(its, S \union T) = Units(its, S) \union Units(its, T)
         /\ Units(its, S) \intersect Units(its, T) = {}
<1>1. \A p : p \in Units(its, S \union T) <=> p \in Units(its, S) \/ p \in Units(its, T)
  BY InUnits
<1>2. \A p, x, y : p \in UnitsOf(its, x) /\ p \in UnitsOf(its, y) => x = y
  BY DEF UnitsOf
<1>3. \A p : ~(p \in Units(its, S) /\ p \in Units(its, T))
  BY <1>2, InUnits
<1> QED
  BY <1>1, <1>3

LEMMA SumOfUnion ==
  ASSUME NEW its, NEW S, NEW T, IsFiniteSet(S), IsFiniteSet(T), S \intersect T = {},
         Weighted(its, S), Weighted(its, T)
  PROVE  SumOver(its, S \union T) = SumOver(its, S) + SumOver(its, T)
<1>1. IsFiniteSet(Units(its, S)) /\ IsFiniteSet(Units(its, T))
      /\ SumOver(its, S) \in Nat /\ SumOver(its, T) \in Nat
  BY UnitsAreFinite
<1>2. PICK A, B : A = Units(its, S) /\ B = Units(its, T)
  OBVIOUS
<1>3. A \intersect B = {} /\ Units(its, S \union T) = A \union B
  BY <1>2, UnitsApart
<1>4. IsFiniteSet(A) /\ IsFiniteSet(B)
  BY <1>1, <1>2
<1>5. Cardinality(A \union B) = Cardinality(A) + Cardinality(B) - Cardinality(A \intersect B)
  BY <1>4, FS_Union
<1>6. Cardinality(A \intersect B) = 0
  BY <1>3, FS_EmptySet
<1>7. /\ SumOver(its, S) = Cardinality(A) /\ SumOver(its, T) = Cardinality(B)
      /\ SumOver(its, S \union T) = Cardinality(A \union B)
  BY <1>2, <1>3 DEF SumOver
<1> QED
  BY <1>1, <1>5, <1>6, <1>7

LEMMA SumOfOne ==
  ASSUME NEW its, NEW x, its[x].tokens \in Nat
  PROVE  SumOver(its, {x}) = its[x].tokens
<1>1. Units(its, {x}) = UnitsOf(its, x)
  BY DEF Units
<1> QED
  BY <1>1, UnitsOfOne DEF SumOver

LEMMA SumOfNone ==
  ASSUME NEW its
  PROVE  SumOver(its, {}) = 0
<1>1. Units(its, {}) = {}
  BY DEF Units
<1> QED
  BY <1>1, FS_EmptySet DEF SumOver

LEMMA SumWithout ==
  ASSUME NEW its, NEW S, IsFiniteSet(S), Weighted(its, S), NEW x \in S
  PROVE  SumOver(its, S) = its[x].tokens + SumOver(its, S \ {x})
<1>1. IsFiniteSet(S \ {x}) /\ IsFiniteSet({x})
  BY FS_RemoveElement, FS_Singleton
<1>2. Weighted(its, {x}) /\ Weighted(its, S \ {x}) /\ its[x].tokens \in Nat
  BY DEF Weighted
<1>3. SumOver(its, {x} \union (S \ {x})) = SumOver(its, {x}) + SumOver(its, S \ {x})
  BY <1>1, <1>2, SumOfUnion
<1>4. {x} \union (S \ {x}) = S
  OBVIOUS
<1> QED
  BY <1>2, <1>3, <1>4, SumOfOne

LEMMA SumOfSubset ==
  ASSUME NEW its, NEW S, IsFiniteSet(S), Weighted(its, S), NEW T, T \subseteq S
  PROVE  SumOver(its, T) <= SumOver(its, S)
<1>1. IsFiniteSet(T) /\ IsFiniteSet(S \ T)
  BY FS_Subset, FS_Difference
<1>2. Weighted(its, T) /\ Weighted(its, S \ T)
  BY DEF Weighted
<1>3. T \union (S \ T) = S /\ T \intersect (S \ T) = {}
  OBVIOUS
<1>4. SumOver(its, S) = SumOver(its, T) + SumOver(its, S \ T)
  BY <1>1, <1>2, <1>3, SumOfUnion
<1>5. SumOver(its, T) \in Nat /\ SumOver(its, S \ T) \in Nat
  BY <1>1, <1>2, UnitsAreFinite
<1> QED
  BY <1>4, <1>5

LEMMA SumOfSame ==
  ASSUME NEW its, NEW others, NEW S, \A x \in S : others[x].tokens = its[x].tokens
  PROVE  SumOver(others, S) = SumOver(its, S)
<1>1. \A x \in S : UnitsOf(others, x) = UnitsOf(its, x)
  BY DEF UnitsOf
<1>2. Units(others, S) = Units(its, S)
  BY <1>1 DEF Units
<1> QED
  BY <1>2 DEF SumOver

(* The fold of MapThenSumSet is that sum.                                  *)
LEMMA FoldIsSum ==
  ASSUME NEW its, NEW S, IsFiniteSet(S), Weighted(its, S)
  PROVE  MapThenSumSet(LAMBDA id : its[id].tokens, S) = SumOver(its, S)
<1> DEFINE Eq(iter) == iter = [s \in SUBSET S |->
             IF s = {} THEN 0
             ELSE its[CHOOSE x \in s : TRUE].tokens + iter[s \ {CHOOSE x \in s : TRUE}]]
           fold == CHOOSE iter : Eq(iter)
           G == [s \in SUBSET S |-> SumOver(its, s)]
<1>1. MapThenSumSet(LAMBDA id : its[id].tokens, S) = fold[S]
  BY Zenon DEF MapThenSumSet, MapThenFoldSet
<1>2. Eq(G)
  <2>1. ASSUME NEW s \in SUBSET S
        PROVE  SumOver(its, s) =
                 IF s = {} THEN 0
                 ELSE its[CHOOSE x \in s : TRUE].tokens + G[s \ {CHOOSE x \in s : TRUE}]
    <3>1. CASE s = {}
      BY <3>1, SumOfNone
    <3>2. CASE s # {}
      <4>1. PICK x \in s : x = CHOOSE y \in s : TRUE
        BY <3>2
      <4>2. IsFiniteSet(s) /\ Weighted(its, s)
        BY FS_Subset DEF Weighted
      <4>3. SumOver(its, s) = its[x].tokens + SumOver(its, s \ {x})
        BY <4>2, SumWithout
      <4>4. G[s \ {x}] = SumOver(its, s \ {x})
        OBVIOUS
      <4> QED
        BY <3>2, <4>1, <4>3, <4>4
    <3> QED
      BY <3>1, <3>2
  <2> QED
    BY <2>1, Zenon
<1>3. Eq(fold)
  BY <1>2, Zenon
<1> HIDE DEF fold
<1> DEFINE Bad == {s \in SUBSET S : fold[s] # SumOver(its, s)}
<1>4. Bad = {}
  <2> SUFFICES ASSUME Bad # {} PROVE FALSE
    OBVIOUS
  <2>1. IsWellFoundedOn(StrictSubsetOrdering(S), SUBSET S)
    BY FS_StrictSubsetOrderingWellFounded, FS_FiniteSubsetsOfFinite
  <2>2. Bad \subseteq SUBSET S
    OBVIOUS
  <2>3. PICK s \in Bad : \A t \in Bad : ~(<<t, s>> \in StrictSubsetOrdering(S))
    <3> HIDE DEF Bad
    <3> QED
      BY <2>1, <2>2, WFMin
  <2>4. s \in SUBSET S /\ fold[s] # SumOver(its, s)
    BY <2>3
  <2>5. s # {}
    BY <1>3, <2>4, SumOfNone
  <2>6. PICK x \in s : x = CHOOSE y \in s : TRUE
    BY <2>5
  <2>7. s \ {x} \in SUBSET S /\ <<s \ {x}, s>> \in StrictSubsetOrdering(S)
    BY <2>4 DEF StrictSubsetOrdering
  <2>8. fold[s \ {x}] = SumOver(its, s \ {x})
    BY <2>3, <2>7
  <2>9. fold[s] = its[x].tokens + fold[s \ {x}]
    BY <1>3, <2>4, <2>5, <2>6
  <2>10. IsFiniteSet(s) /\ Weighted(its, s)
    BY <2>4, FS_Subset DEF Weighted
  <2>11. SumOver(its, s) = its[x].tokens + SumOver(its, s \ {x})
    BY <2>10, SumWithout
  <2> QED
    BY <2>4, <2>8, <2>9, <2>11
<1> QED
  BY <1>1, <1>4

(* Used, as a sum.                                                         *)
Typed(its) == IsFiniteSet(DOMAIN its) /\ its \in [DOMAIN its -> Item]

LEMMA ItemsHaveTokens ==
  ASSUME NEW its, Typed(its)
  PROVE  /\ IsFiniteSet(Active(its)) /\ Active(its) \subseteq DOMAIN its
         /\ Weighted(its, DOMAIN its) /\ Weighted(its, Active(its))
<1>1. Active(its) \subseteq DOMAIN its
  BY DEF Active
<1>2. Weighted(its, DOMAIN its)
  BY DEF Typed, Item, Weighted
<1> QED
  BY <1>1, <1>2, FS_Subset DEF Typed, Weighted

LEMMA UsedIsSum ==
  ASSUME NEW its, Typed(its)
  PROVE  Used(its) = SumOver(its, Active(its)) /\ Used(its) \in Nat
<1>1. MapThenSumSet(LAMBDA id : its[id].tokens, Active(its)) = SumOver(its, Active(its))
  BY ItemsHaveTokens, FoldIsSum
<1>2. SumOver(its, Active(its)) \in Nat
  BY ItemsHaveTokens, UnitsAreFinite
<1> QED
  BY <1>1, <1>2, Zenon DEF Used

(* The map stays finite.                                                   *)
FiniteMap == IsFiniteSet(DOMAIN items)

LEMMA OneMoreIsFinite ==
  ASSUME FiniteMap, NEW x, DOMAIN items' \subseteq DOMAIN items \union {x}
  PROVE  FiniteMap'
<1>1. IsFiniteSet(DOMAIN items \union {x})
  BY FS_AddElement DEF FiniteMap
<1> QED
  BY <1>1, FS_Subset DEF FiniteMap

LEMMA StepAddsOne ==
  ASSUME [ONext]_ovars
  PROVE  \E x : DOMAIN items' \subseteq DOMAIN items \union {x}
<1>1. ASSUME NEW id, NEW it, items' = Put(id, it)
      PROVE  \E x : DOMAIN items' \subseteq DOMAIN items \union {x}
  BY <1>1 DEF Put
<1>2. ASSUME DOMAIN items' \subseteq DOMAIN items
      PROVE  \E x : DOMAIN items' \subseteq DOMAIN items \union {x}
  BY <1>2
<1>3. CASE \E hits \in Goals, mentioned \in Mentions, observed \in BOOLEAN :
             Review(hits, mentioned, observed)
  BY <1>2, <1>3 DEF Review, vars
<1>4. CASE OracleApply
  <2>1. ASSUME NEW id \in AllIds, ApplyPromotion(id)
        PROVE  items' = items \/ \E it : items' = Put(id, it)
    BY <2>1 DEF ApplyPromotion, Update, vars
  <2>2. ASSUME NEW id \in AllIds, ApplyDemotion(id) PROVE DOMAIN items' \subseteq DOMAIN items
    BY <2>2 DEF ApplyDemotion, Remove, Drop, vars
  <2>3. ASSUME NEW n \in Sizes, NEW comp \in CompIds, ApplyCompression(n, comp)
        PROVE  DOMAIN items' \subseteq DOMAIN items \union {comp}
    BY <2>3 DEF ApplyCompression, CompressItems, vars
  <2> QED BY <1>1, <1>2, <1>4, <2>1, <2>2, <2>3 DEF OracleApply
<1>5. CASE RuntimeStep
  BY <1>1, <1>5 DEF RuntimeStep, Add, Upsert
<1>6. CASE UserCommand
  BY <1>2, <1>6 DEF UserCommand, SetPinned, Remove, Drop
<1>7. CASE AgentStep
  <2>1. CASE AutoBudget
    BY <1>2, <2>1 DEF AutoBudget, Drop
  <2>2. ASSUME NEW id \in Ids, NEW o \in Offers[id], Admit(id, o.item, o.source)
        PROVE  \E it : items' = Put(id, it)
    BY <2>2 DEF Admit
  <2> QED BY <1>1, <1>7, <2>1, <2>2 DEF AgentStep
<1>8. CASE UNCHANGED ovars
  BY <1>2, <1>8 DEF ovars
<1> QED BY <1>3, <1>4, <1>5, <1>6, <1>7, <1>8 DEF ONext

LEMMA FiniteInit == OInit => FiniteMap
BY ContextAssumption DEF OInit, Init, FiniteMap

LEMMA AlwaysFinite == OSpec => []FiniteMap
<1>1. FiniteMap /\ [ONext]_ovars => FiniteMap'
  BY StepAddsOne, OneMoreIsFinite
<1> QED
  BY <1>1, FiniteInit, PTL DEF OSpec

-----------------------------------------------------------------------------
(* Admission.  What an item written at an id does to the tokens in use.    *)
LEMMA UsedAfterPut ==
  ASSUME Typed(items), NEW id, NEW it \in Item, it.replacedBy = NoId
  PROVE  /\ Used(Put(id, it)) = Projected(id, it)
         /\ Projected(id, it) \in Int
<1> DEFINE its == Put(id, it)
           A == Active(items)
           B == A \ {id}
<1>1. /\ DOMAIN its = DOMAIN items \union {id}
      /\ its[id] = it /\ \A x \in DOMAIN items : x # id => its[x] = items[x]
  BY DEF Put
<1>2. Typed(its)
  <2>1. IsFiniteSet(DOMAIN its)
    BY <1>1, FS_AddElement DEF Typed
  <2>2. its \in [DOMAIN its -> Item]
    BY <1>1 DEF Typed, Put
  <2> QED
    BY <2>1, <2>2 DEF Typed
<1>3. Active(its) = B \union {id} /\ id \notin B
  BY <1>1 DEF Active, Expired
<1> HIDE DEF its
<1>4. IsFiniteSet(A) /\ A \subseteq DOMAIN items /\ Weighted(items, A)
  BY ItemsHaveTokens
<1>5. IsFiniteSet(B) /\ Weighted(items, B) /\ IsFiniteSet(Active(its)) /\ Weighted(its, Active(its))
  BY <1>2, <1>4, FS_RemoveElement, ItemsHaveTokens DEF Weighted
<1>6. SumOver(its, Active(its)) = its[id].tokens + SumOver(its, Active(its) \ {id})
  BY <1>3, <1>5, SumWithout
<1>7. Active(its) \ {id} = B
  BY <1>3
<1>8. SumOver(its, B) = SumOver(items, B)
  <2>1. \A x \in B : its[x].tokens = items[x].tokens
    BY <1>1, <1>4
  <2> QED
    BY <2>1, SumOfSame
<1>9. Used(its) = it.tokens + SumOver(items, B) /\ SumOver(items, B) \in Nat /\ it.tokens \in Nat
  <2>1. SumOver(items, B) \in Nat
    BY <1>5, UnitsAreFinite
  <2>2. it.tokens \in Nat
    BY DEF Item
  <2> QED
    BY <1>1, <1>2, <1>6, <1>7, <1>8, <2>1, <2>2, UsedIsSum
<1>10. Used(items) = (IF id \in A THEN items[id].tokens ELSE 0) + SumOver(items, B)
       /\ (id \in A => items[id].tokens \in Nat)
  <2>1. CASE id \in A
    BY <1>4, <2>1, SumWithout, UsedIsSum DEF Weighted
  <2>2. CASE id \notin A
    <3>1. B = A
      BY <2>2
    <3> QED
      BY <1>9, <2>2, <3>1, UsedIsSum
  <2> QED
    BY <2>1, <2>2
<1>11. Projected(id, it) = Used(items) + it.tokens - (IF id \in A THEN items[id].tokens ELSE 0)
  BY DEF Projected
<1>12. Used(items) \in Nat
  BY UsedIsSum
<1> QED
  BY <1>9, <1>10, <1>11, <1>12 DEF its

LEMMA AdmittedFits ==
  ASSUME Typed(items), NEW id \in Ids, NEW o \in Offers[id], Admit(id, o.item, o.source),
         items'[id].tier = "near", ~items'[id].pinned
  PROVE  Used(items') <= Window
<1>1. o.item \in Item /\ o.item.replacedBy = NoId
  BY ContextAssumption
<1>2. PICK placed : /\ placed = IF o.source = "oversized" THEN [o.item EXCEPT !.tier = "artifact"]
                               ELSE o.item
                    /\ items' = Put(id, placed)
                    /\ (placed.tier = "near" /\ ~placed.pinned) => ~OverWindow(Projected(id, placed))
  BY DEF Admit
<1>3. placed \in Item /\ placed.replacedBy = NoId
  BY <1>1, <1>2 DEF Item, Tiers
<1>4. items'[id] = placed
  BY <1>2 DEF Put
<1>5. Used(items') = Projected(id, placed) /\ Projected(id, placed) \in Int
  BY <1>2, <1>3, UsedAfterPut
<1>6. ~(Projected(id, placed) > Window)
  BY <1>2, <1>4 DEF OverWindow
<1> QED
  BY <1>5, <1>6, ContextAssumption

-----------------------------------------------------------------------------
(* Eviction.  A finite set in a linear order has a first member.           *)
Linear(R, S) ==
  /\ \A a, b \in S : <<a, b>> \in R \/ <<b, a>> \in R
  /\ \A a, b \in S : <<a, b>> \in R /\ <<b, a>> \in R => a = b
  /\ \A a, b, c \in S : <<a, b>> \in R /\ <<b, c>> \in R => <<a, c>> \in R
Preceding(R, S, y) == {z \in S : z # y /\ <<z, y>> \in R}

LEMMA FirstInOrder ==
  ASSUME NEW R, NEW S, IsFiniteSet(S), S # {}, Linear(R, S)
  PROVE  \E y \in S : \A z \in S : <<y, z>> \in R
<1> DEFINE All == {Preceding(R, S, y) : y \in S}
<1>1. All \subseteq SUBSET S /\ All # {}
  BY DEF Preceding
<1>2. IsWellFoundedOn(StrictSubsetOrdering(S), SUBSET S)
  BY FS_StrictSubsetOrderingWellFounded, FS_FiniteSubsetsOfFinite
<1>3. PICK P \in All : \A Q \in All : ~(<<Q, P>> \in StrictSubsetOrdering(S))
  <2> HIDE DEF All
  <2> QED
    BY <1>1, <1>2, WFMin
<1>4. PICK y \in S : P = Preceding(R, S, y)
  BY <1>3
<1>5. ASSUME NEW z \in S PROVE <<y, z>> \in R
  <2> SUFFICES ASSUME <<y, z>> \notin R PROVE FALSE
    OBVIOUS
  <2>1. <<z, y>> \in R /\ z # y
    BY DEF Linear
  <2>2. Preceding(R, S, z) \subseteq Preceding(R, S, y)
    <3> SUFFICES ASSUME NEW w \in S, w # z, <<w, z>> \in R
                 PROVE  w # y /\ <<w, y>> \in R
      BY DEF Preceding
    <3>1. w # y
      OBVIOUS
    <3>2. <<w, y>> \in R
      BY <2>1 DEF Linear
    <3> QED
      BY <3>1, <3>2
  <2>3. z \in Preceding(R, S, y) /\ z \notin Preceding(R, S, z)
    BY <2>1 DEF Preceding
  <2>4. Preceding(R, S, z) \in SUBSET S /\ Preceding(R, S, y) \in SUBSET S
    BY DEF Preceding
  <2>5. <<Preceding(R, S, z), Preceding(R, S, y)>> \in StrictSubsetOrdering(S)
    BY <2>2, <2>3, <2>4 DEF StrictSubsetOrdering
  <2>6. Preceding(R, S, z) \in All
    OBVIOUS
  <2> QED
    BY <1>3, <1>4, <2>5, <2>6
<1> QED
  BY <1>5

LEMMA LastInOrder ==
  ASSUME NEW R, NEW S, IsFiniteSet(S), S # {}, Linear(R, S)
  PROVE  \E y \in S : \A z \in S : <<z, y>> \in R
<1> DEFINE C == {p \in S \X S : <<p[2], p[1]>> \in R}
<1>1. \A a, b \in S : <<a, b>> \in C <=> <<b, a>> \in R
  OBVIOUS
<1> HIDE DEF C
<1>2. Linear(C, S)
  BY <1>1 DEF Linear
<1>3. PICK y \in S : \A z \in S : <<y, z>> \in C
  BY <1>2, FirstInOrder
<1> QED
  BY <1>1, <1>3

(* What is in use once phase 1 and some of the younger candidates are gone.*)
Rest == Candidates \ Phase1
Left(S) == SumOver(items, Active(items) \ S)

LEMMA CandidatesLeft ==
  ASSUME Typed(items)
  PROVE  /\ Rest = {id \in Active(items) : items[id].tier = "near" /\ ~items[id].pinned}
         /\ Rest \subseteq Active(items) /\ IsFiniteSet(Rest) /\ IsFiniteSet(Active(items))
         /\ Phase1 \intersect Active(items) = {}
         /\ Phase2 \subseteq Rest /\ \A id : Older(id) \subseteq Rest
<1>1. Rest = {id \in Active(items) : items[id].tier = "near" /\ ~items[id].pinned}
  BY DEF Rest, Candidates, Phase1, Active, Expired
<1>2. Phase1 \intersect Active(items) = {}
  BY DEF Phase1, Active
<1>3. IsFiniteSet(Active(items)) /\ Rest \subseteq Active(items)
  BY <1>1, ItemsHaveTokens
<1>4. IsFiniteSet(Rest)
  BY <1>3, FS_Subset
<1>5. Phase2 \subseteq Rest /\ \A id : Older(id) \subseteq Rest
  BY DEF Phase2, Older, Rest
<1> QED
  BY <1>1, <1>2, <1>3, <1>4, <1>5

LEMMA UsedAfterDrop ==
  ASSUME Typed(items), NEW S, S \subseteq Rest
  PROVE  Used(Drop(Phase1 \union S)) = Left(S)
<1> DEFINE its == Drop(Phase1 \union S)
<1>1. DOMAIN its = DOMAIN items \ (Phase1 \union S) /\ \A x \in DOMAIN its : its[x] = items[x]
  BY DEF Drop
<1>2. Typed(its)
  <2>1. IsFiniteSet(DOMAIN its)
    BY <1>1, FS_Difference DEF Typed
  <2>2. its \in [DOMAIN its -> Item]
    BY <1>1 DEF Typed, Drop
  <2> QED
    BY <2>1, <2>2 DEF Typed
<1> HIDE DEF its
<1>3. Active(its) = Active(items) \ (Phase1 \union S)
  BY <1>1 DEF Active
<1>4. Active(items) \ (Phase1 \union S) = Active(items) \ S
  BY CandidatesLeft
<1>5. SumOver(its, Active(its)) = SumOver(items, Active(its))
  <2>1. \A x \in Active(its) : its[x].tokens = items[x].tokens
    BY <1>1 DEF Active
  <2> QED
    BY <2>1, SumOfSame
<1>6. Used(its) = SumOver(its, Active(its))
  BY <1>2, UsedIsSum
<1> QED
  BY <1>3, <1>4, <1>5, <1>6 DEF Left, its

LEMMA LeftFalls ==
  ASSUME Typed(items), NEW S, NEW T, S \subseteq T
  PROVE  Left(T) <= Left(S) /\ Left(S) \in Nat /\ Left(T) \in Nat
<1>1. IsFiniteSet(Active(items)) /\ Weighted(items, Active(items))
  BY ItemsHaveTokens
<1>2. /\ IsFiniteSet(Active(items) \ S) /\ Weighted(items, Active(items) \ S)
      /\ IsFiniteSet(Active(items) \ T) /\ Weighted(items, Active(items) \ T)
  BY <1>1, FS_Difference DEF Weighted
<1>3. Active(items) \ T \subseteq Active(items) \ S
  OBVIOUS
<1>4. SumOver(items, Active(items) \ T) <= SumOver(items, Active(items) \ S)
  BY <1>2, <1>3, SumOfSubset
<1> QED
  BY <1>2, <1>4, UnitsAreFinite DEF Left

LEMMA LeftWithout ==
  ASSUME Typed(items), NEW S, NEW x \in Active(items), x \notin S
  PROVE  Left(S) = items[x].tokens + Left(S \union {x})
<1>1. IsFiniteSet(Active(items)) /\ Weighted(items, Active(items))
  BY ItemsHaveTokens
<1>2. IsFiniteSet(Active(items) \ S) /\ Weighted(items, Active(items) \ S) /\ x \in Active(items) \ S
  BY <1>1, FS_Difference DEF Weighted
<1>3. (Active(items) \ S) \ {x} = Active(items) \ (S \union {x})
  OBVIOUS
<1> QED
  BY <1>2, <1>3, SumWithout DEF Left

(* Phase 2 takes the oldest, and as many as it must.                       *)
LEMMA PhaseTwo ==
  ASSUME Typed(items), Linear(order, DOMAIN items), SafeBoundary \in Nat
  PROVE  /\ \A x \in Phase2, y \in Rest : y # x /\ <<y, x>> \in order => y \in Phase2
         /\ Rest \ Phase2 # {} => Left(Phase2) <= SafeBoundary
         /\ Phase2 # {} => \E x \in Phase2 : Left(Phase2) + items[x].tokens > SafeBoundary
<1>1. /\ Rest \subseteq Active(items) /\ Active(items) \subseteq DOMAIN items
      /\ IsFiniteSet(Rest) /\ Phase2 \subseteq Rest /\ \A id : Older(id) \subseteq Rest
  BY CandidatesLeft, ItemsHaveTokens
<1>2. Linear(order, Rest)
  BY <1>1 DEF Linear
<1>3. \A x : Older(x) = {z \in Rest : z # x /\ <<z, x>> \in order}
  BY DEF Older, Rest
<1>4. \A x : x \in Phase2 <=> x \in Rest /\ Left(Older(x)) > SafeBoundary
  <2>1. \A x : Used(Drop(Phase1 \union Older(x))) = Left(Older(x))
    BY <1>1, UsedAfterDrop
  <2> QED
    BY <2>1 DEF Phase2, Rest
<1>5. ASSUME NEW x \in Phase2, NEW y \in Rest, y # x, <<y, x>> \in order
      PROVE  y \in Phase2
  <2>1. Older(y) \subseteq Older(x)
    <3> SUFFICES ASSUME NEW z \in Rest, z # y, <<z, y>> \in order
                 PROVE  z # x /\ <<z, x>> \in order
      BY <1>3
    <3>1. x \in Rest
      BY <1>1
    <3> QED
      BY <1>2, <1>5, <3>1 DEF Linear
  <2>2. Left(Older(x)) <= Left(Older(y)) /\ Left(Older(x)) \in Nat /\ Left(Older(y)) \in Nat
    BY <2>1, LeftFalls
  <2> QED
    BY <1>4, <2>2
<1>6. ASSUME Rest \ Phase2 # {}
      PROVE  Left(Phase2) <= SafeBoundary
  <2>1. IsFiniteSet(Rest \ Phase2)
    BY <1>1, FS_Difference
  <2>2. Linear(order, Rest \ Phase2)
    BY <1>2 DEF Linear
  <2>3. PICK y \in Rest \ Phase2 : \A z \in Rest \ Phase2 : <<y, z>> \in order
    BY <1>6, <2>1, <2>2, FirstInOrder
  <2>4. Older(y) = Phase2
    <3>1. ASSUME NEW z \in Older(y) PROVE z \in Phase2
      BY <1>2, <1>3, <2>3, <3>1 DEF Linear
    <3>2. ASSUME NEW z \in Phase2 PROVE z \in Older(y)
      <4>1. z \in Rest /\ z # y /\ ~(<<y, z>> \in order)
        BY <1>1, <1>5, <2>3, <3>2
      <4> QED
        BY <1>2, <1>3, <2>3, <4>1 DEF Linear
    <3> QED
      BY <3>1, <3>2
  <2>5. ~(Left(Phase2) > SafeBoundary)
    BY <1>4, <2>3, <2>4
  <2>6. Left(Phase2) \in Nat
    BY LeftFalls
  <2> QED
    BY <2>5, <2>6
<1>7. ASSUME Phase2 # {}
      PROVE  \E x \in Phase2 : Left(Phase2) + items[x].tokens > SafeBoundary
  <2>1. IsFiniteSet(Phase2) /\ Linear(order, Phase2)
    BY <1>1, <1>2, FS_Subset DEF Linear
  <2>2. PICK x \in Phase2 : \A z \in Phase2 : <<z, x>> \in order
    BY <1>7, <2>1, LastInOrder
  <2>3. x \in Rest /\ x \in Active(items)
    BY <1>1
  <2>4. Older(x) \union {x} = Phase2 /\ x \notin Older(x)
    <3>1. ASSUME NEW z \in Phase2, z # x PROVE z \in Older(x)
      BY <1>1, <1>3, <2>2, <3>1
    <3>2. ASSUME NEW z \in Older(x) PROVE z \in Phase2
      BY <1>3, <1>5, <2>2, <3>2
    <3>3. x \notin Older(x)
      BY <1>3
    <3> QED
      BY <2>2, <3>1, <3>2, <3>3
  <2>5. Left(Older(x)) = items[x].tokens + Left(Phase2)
    BY <2>3, <2>4, LeftWithout
  <2>6. Left(Phase2) \in Nat /\ items[x].tokens \in Nat
    BY <2>3, LeftFalls, ItemsHaveTokens DEF Weighted
  <2>7. Left(Older(x)) > SafeBoundary
    BY <1>4, <2>2
  <2> QED
    BY <2>2, <2>5, <2>6, <2>7
<1> QED
  BY <1>5, <1>6, <1>7

(* The two halves of the boundary: below the warning level nothing need be *)
(* done.                                                                   *)
LEMMA LowIsSafe ==
  ASSUME NEW used \in Nat, Low(used)
  PROVE  used <= SafeBoundary
<1>1. Window \in Nat /\ 100 * used < 85 * Window
  BY ContextAssumption DEF Low, Warning
<1>2. CASE 85 * Window < 100
  BY <1>1, <1>2 DEF SafeBoundary
<1>3. CASE ~(85 * Window < 100)
  <2>1. PICK n \in Nat : n = 85 * Window
    BY <1>1
  <2>2. used <= n \div 100
    BY <1>1, <2>1
  <2> QED
    BY <1>3, <2>1, <2>2 DEF SafeBoundary
<1> QED
  BY <1>2, <1>3

LEMMA BoundaryIsNatural == SafeBoundary \in Nat
<1>1. PICK n \in Nat : n = 85 * Window
  BY ContextAssumption
<1>2. n \div 100 \in Nat
  OBVIOUS
<1> QED
  BY <1>1, <1>2 DEF SafeBoundary

LEMMA BudgetEvicts ==
  ASSUME Typed(items), Linear(order, DOMAIN items), AutoBudget
  PROVE  LET gone == (DOMAIN items \ DOMAIN items') \intersect Active(items)
             kept == {id \in Active(items') : items[id].tier = "near" /\ ~items[id].pinned}
         IN /\ Used(items') <= SafeBoundary \/ kept = {}
            /\ \A x \in gone, y \in kept : <<y, x>> \notin order
            /\ gone # {} => \E x \in gone : Used(items') + items[x].tokens > SafeBoundary
<1> DEFINE gone == (DOMAIN items \ DOMAIN items') \intersect Active(items)
           kept == {id \in Active(items') : items[id].tier = "near" /\ ~items[id].pinned}
<1>1. items' = Drop(Evicted) /\ DOMAIN items' = DOMAIN items \ Evicted
      /\ \A x \in DOMAIN items' : items'[x] = items[x]
  BY DEF AutoBudget, Drop
<1>2. gone = Evicted \intersect Active(items)
  BY <1>1 DEF Active
<1>3. kept = {id \in Active(items) \ Evicted : items[id].tier = "near" /\ ~items[id].pinned}
  BY <1>1 DEF Active
<1>4. /\ Rest = {id \in Active(items) : items[id].tier = "near" /\ ~items[id].pinned}
      /\ Rest \subseteq Active(items) /\ Phase1 \intersect Active(items) = {} /\ Phase2 \subseteq Rest
  BY CandidatesLeft
<1>5. CASE Low(Used(items))
  <2>1. Evicted = {}
    BY <1>5 DEF Evicted
  <2>2. items' = items
    BY <1>1, <2>1 DEF Typed, Drop
  <2>3. Used(items') <= SafeBoundary
    BY <1>5, <2>2, LowIsSafe, UsedIsSum
  <2>4. gone = {}
    BY <1>2, <2>1
  <2> QED
    BY <2>3, <2>4
<1>6. CASE ~Low(Used(items))
  <2>1. Evicted = Phase1 \union Phase2
    BY <1>6 DEF Evicted
  <2>2. Used(items') = Left(Phase2)
    BY <1>1, <1>4, <2>1, UsedAfterDrop
  <2>3. gone = Phase2 /\ kept = Rest \ Phase2
    BY <1>2, <1>3, <1>4, <2>1
  <2>4. /\ \A x \in Phase2, y \in Rest : y # x /\ <<y, x>> \in order => y \in Phase2
        /\ Rest \ Phase2 # {} => Left(Phase2) <= SafeBoundary
        /\ Phase2 # {} => \E x \in Phase2 : Left(Phase2) + items[x].tokens > SafeBoundary
    BY PhaseTwo, BoundaryIsNatural
  <2> HIDE DEF gone, kept
  <2>5. Used(items') <= SafeBoundary \/ kept = {}
    BY <2>2, <2>3, <2>4
  <2>6. \A x \in gone, y \in kept : <<y, x>> \notin order
    BY <2>3, <2>4
  <2>7. gone # {} => \E x \in gone : Used(items') + items[x].tokens > SafeBoundary
    BY <2>2, <2>3, <2>4
  <2> QED
    BY <2>5, <2>6, <2>7 DEF gone, kept
<1> QED
  BY <1>5, <1>6

(* EvictionPolicy (ContextMap): the budget pass reaches the safe boundary  *)
(* or runs out of what it may evict, takes the oldest first and no more    *)
(* than it must, for any window and any items (manager.go, AutoBudget).    *)
THEOREM EvictionIsPolicy == OSpec => EvictionPolicy
<1> DEFINE gone == (DOMAIN items \ DOMAIN items') \intersect Active(items)
           kept == {id \in Active(items') : items[id].tier = "near" /\ ~items[id].pinned}
           Policy == AutoBudget =>
             /\ Used(items') <= SafeBoundary \/ kept = {}
             /\ \A x \in gone, y \in kept : <<y, x>> \notin order
             /\ gone # {} => \E x \in gone : Used(items') + items[x].tokens > SafeBoundary
<1>1. IInv /\ FiniteMap => Typed(items) /\ Linear(order, DOMAIN items)
  BY DEF IInv, MapInv, TypeOK, OrderIsLinear, FiniteMap, Typed, Linear
<1>2. IInv /\ FiniteMap => [Policy]_vars
  BY <1>1, BudgetEvicts
<1> QED
  BY <1>2, Inductive, AlwaysFinite, PTL DEF EvictionPolicy

(* AdmissionFits (ContextMap): a near item admitted unpinned leaves the    *)
(* active items within the window, whatever it overwrote (manager.go,      *)
(* Admit), for any offers.                                                 *)
THEOREM AdmittedItemsFit == OSpec => AdmissionFits
<1>1. IInv /\ FiniteMap =>
        [\A id \in Ids : \A o \in Offers[id] :
           /\ Admit(id, o.item, o.source)
           /\ items'[id].tier = "near" /\ ~items'[id].pinned
           => Used(items') <= Window]_vars
  <2>1. IInv /\ FiniteMap => Typed(items)
    BY DEF IInv, MapInv, TypeOK, FiniteMap, Typed
  <2> QED
    BY <2>1, AdmittedFits
<1> QED
  BY <1>1, Inductive, AlwaysFinite, PTL DEF AdmissionFits
=============================================================================
