------------------------------- MODULE McpProofs -------------------------------
(***************************************************************************)
(* What holds of the MCP client for every set of calls, every server and   *)
(* every number of messages.  The inductive invariant adds to the checked  *)
(* properties that ids are never drawn twice and travel unchanged from the *)
(* table to the caller, that a call which is not registered has no message *)
(* anywhere, and who may be running failAll.                               *)
(***************************************************************************)
EXTENDS McpClient, TLAPS

(* Ids are drawn once; a call that has not begun has none.                 *)
IdsUnique ==
  /\ \A c \in Calls : idOf[c] <= nextID
  /\ \A c \in Calls : pc[c] = "new" \/ c \in Notices => idOf[c] = 0
  /\ \A c, d \in Calls : idOf[c] = idOf[d] /\ idOf[c] # 0 => c = d

(* In the hands of the read loop, in a channel and in a result, an answer  *)
(* is with the call that has its id.                                       *)
IdsTravel ==
  /\ \A i \in DOMAIN hand : idOf[hand[i]] = i
  /\ \A c \in Calls : box[c] \notin {Empty, Broken} => idOf[c] = box[c]
  /\ \A c \in Calls : result[c] = "answer" => got[c] = idOf[c] /\ got[c] \in ServerIds

(* The one failAll that found the client open is the one that closes done. *)
OneFailAll ==
  /\ ~closed => doneCloses = 0
  /\ DoneClosedOnce
  /\ \A f \in Failers : At(f, "failing") => closed /\ doneCloses = 0
  /\ \A f, g \in Failers : At(f, "failing") /\ At(g, "failing") => f = g
  /\ \A f \in Failers : failing[f] # {} => At(f, "failing")
  /\ closed => DOMAIN pending = {}

(* The two properties about messages, place by place.                      *)
InTable(c) == \E i \in DOMAIN pending : pending[i] = c
InHand(c)  == \E i \in DOMAIN hand : hand[i] = c
InBox(c)   == box[c] # Empty
Coming(c)  == InTable(c) \/ InHand(c) \/ InBox(c) \/ \E f \in Failers : c \in failing[f]
Apart(c) ==
  /\ InTable(c) => ~InHand(c) /\ ~InBox(c) /\ c \notin failing["reader"] \union failing["closer"]
  /\ InHand(c) => ~InBox(c) /\ c \notin failing["reader"] \union failing["closer"]
  /\ InBox(c) => c \notin failing["reader"] \union failing["closer"]
  /\ c \notin failing["reader"] \intersect failing["closer"]
PlaceByPlace ==
  \A c \in Calls :
    /\ pc[c] \in {"locking", "writing", "waiting", "unregister"} /\ c \notin Notices => Coming(c)
    /\ Apart(c)
    /\ Coming(c) => pc[c] # "new" /\ c \notin Notices /\ got[c] = Empty

(* Only requests wait or clean up, after a reason to give up; what a call  *)
(* has received it returns with.                                           *)
CallersInOrder ==
  \A c \in Calls :
    /\ pc[c] \in {"waiting", "unregister"} => c \notin Notices
    /\ pc[c] = "unregister" => result[c] \in {"cancelled", "write error"}
    /\ got[c] # Empty => pc[c] = "returned"

(* The inductive invariant.                                                *)
MInv ==
  /\ MTypeOK /\ PlaceByPlace /\ TableIsLive
  /\ IdsUnique /\ IdsTravel /\ OneFailAll /\ CallersInOrder

-----------------------------------------------------------------------------
(* PlaceByPlace is the checked property with what makes it inductive.      *)
LEMMA Spelling == PlaceByPlace => MessageOnItsWay
<1> SUFFICES ASSUME PlaceByPlace, NEW c \in Calls
             PROVE  /\ pc[c] \in {"locking", "writing", "waiting"} /\ c \notin Notices =>
                         \E p \in Places : Holds(c, p)
                    /\ \A p, q \in Places : Holds(c, p) /\ Holds(c, q) => p = q
  BY DEF MessageOnItsWay
<1>1. /\ Holds(c, "table") <=> InTable(c)
      /\ Holds(c, "hand") <=> InHand(c)
      /\ Holds(c, "box") <=> InBox(c)
      /\ Holds(c, "reader") <=> c \in failing["reader"]
      /\ Holds(c, "closer") <=> c \in failing["closer"]
  BY DEF Holds, InTable, InHand, InBox
<1>2. Apart(c)
  BY DEF PlaceByPlace
<1>3. \A p, q \in Places : Holds(c, p) /\ Holds(c, q) => p = q
  BY <1>1, <1>2 DEF Apart, Places
<1>4. pc[c] \in {"locking", "writing", "waiting"} /\ c \notin Notices => \E p \in Places : Holds(c, p)
  BY <1>1 DEF PlaceByPlace, Coming, Places, Failers
<1> QED BY <1>3, <1>4

(* Nothing is registered, read or closed at the start.                     *)
LEMMA Initially == MInit => MInv
<1> SUFFICES ASSUME MInit PROVE MInv
  OBVIOUS
<1> USE McpAssumption DEF MInit, Failers
<1>1. CallsTyped
  BY DEF CallsTyped
<1>2. TableTyped
  BY DEF TableTyped
<1>3. WriterTyped
  BY DEF WriterTyped
<1>4. LoopTyped
  BY DEF LoopTyped
<1>5. CloseTyped
  BY DEF CloseTyped
<1>6. PlaceByPlace
  BY DEF PlaceByPlace, Coming, Apart, InTable, InHand, InBox
<1>7. TableIsLive
  BY DEF TableIsLive
<1>8. IdsUnique
  BY DEF IdsUnique
<1>9. IdsTravel
  BY DEF IdsTravel
<1>10. OneFailAll
  BY DEF OneFailAll, DoneClosedOnce, At
<1>12. CallersInOrder
  BY DEF CallersInOrder
<1> QED
  BY <1>1, <1>2, <1>3, <1>4, <1>5, <1>6, <1>7, <1>8, <1>9, <1>10, <1>12
  DEF MInv, MTypeOK

-----------------------------------------------------------------------------
(* Steps of a call that move no message: it is refused, waits for the      *)
(* lock, writes, or gives up.                                              *)
LEMMA QuietCallStep ==
  ASSUME MInv, NEW c \in Calls,
         Refused(c) \/ Notify(c) \/ LockWrite(c) \/ Written(c) \/ WriteFails(c) \/ Cancelled(c)
  PROVE  MInv'
<1> USE McpAssumption DEF Failers, callVars, tableVars, readVars, closeVars
<1>1. CallsTyped'
  BY DEF MInv, MTypeOK, CallsTyped,
       Refused, Notify, LockWrite, Written, WriteFails, Cancelled
<1>2. TableTyped'
  BY DEF MInv, MTypeOK, TableTyped,
       Refused, Notify, LockWrite, Written, WriteFails, Cancelled
<1>3. WriterTyped'
  BY DEF MInv, MTypeOK, WriterTyped, CallsTyped,
       Refused, Notify, LockWrite, Written, WriteFails, Cancelled
<1>4. LoopTyped'
  BY DEF MInv, MTypeOK, LoopTyped,
       Refused, Notify, LockWrite, Written, WriteFails, Cancelled
<1>5. CloseTyped'
  BY DEF MInv, MTypeOK, CloseTyped,
       Refused, Notify, LockWrite, Written, WriteFails, Cancelled
<1>0. UNCHANGED <<idOf, box, got, tableVars, readVars, closeVars>>
  BY DEF Refused, Notify, LockWrite, Written, WriteFails, Cancelled
<1>11. /\ \A d \in Calls : d # c => pc'[d] = pc[d] /\ result'[d] = result[d]
       /\ pc'[c] # "new"
       /\ result'[c] = result[c] \/ result'[c] # "answer"
       /\ c \notin Notices /\ pc[c] = "new" => pc'[c] = "returned"
       /\ c \notin Notices /\ pc[c] # "new" =>
            /\ pc[c] \in {"locking", "writing", "waiting"}
            /\ pc'[c] \in {"locking", "writing", "waiting", "unregister"}
  BY DEF MInv, MTypeOK, CallsTyped, Refused, Notify, LockWrite, Written, WriteFails, Cancelled
<1>6. PlaceByPlace'
  <2>1. ASSUME NEW d \in Calls
        PROVE  /\ Coming(d)' <=> Coming(d)
               /\ Apart(d)' <=> Apart(d)
    <3>1. (InTable(d)' <=> InTable(d)) /\ (InHand(d)' <=> InHand(d)) /\ (InBox(d)' <=> InBox(d))
      BY <1>0 DEF InTable, InHand, InBox
    <3>2. UNCHANGED failing
      BY <1>0
    <3> QED BY <3>1, <3>2 DEF Coming, Apart
  <2> QED BY <1>0, <1>11, <2>1 DEF MInv, PlaceByPlace
<1>7. TableIsLive'
  <2>1. \A i \in DOMAIN pending : pending[i] \in Calls /\ InTable(pending[i])
    BY DEF MInv, MTypeOK, TableTyped, InTable
  <2>2. \A i \in DOMAIN pending : pc[pending[i]] # "new" /\ pending[i] \notin Notices
    BY <2>1 DEF MInv, PlaceByPlace, Coming
  <2> QED BY <1>0, <1>11, <2>1, <2>2 DEF MInv, TableIsLive
<1>8. IdsUnique'
  BY <1>0, <1>11 DEF MInv, IdsUnique
<1>9. IdsTravel'
  BY <1>0, <1>11 DEF MInv, IdsTravel
<1>10. OneFailAll'
  BY <1>0 DEF MInv, OneFailAll, DoneClosedOnce, At
<1>12. CallersInOrder'
  <2>1. /\ pc[c] # "returned" /\ got[c] = Empty
        /\ pc'[c] \in {"waiting", "unregister"} => c \notin Notices
        /\ pc'[c] = "unregister" => result'[c] \in {"cancelled", "write error"}
    BY DEF MInv, MTypeOK, CallsTyped, CallersInOrder,
         Refused, Notify, LockWrite, Written, WriteFails, Cancelled
  <2>2. UNCHANGED got
    BY <1>0
  <2>3. ASSUME NEW d \in Calls, d # c PROVE UNCHANGED <<pc[d], result[d], got[d]>>
    BY <1>11, <2>2, <2>3
  <2> QED BY <2>1, <2>2, <2>3 DEF MInv, CallersInOrder
<1> QED
  BY <1>1, <1>2, <1>3, <1>4, <1>5, <1>6, <1>7, <1>8, <1>9, <1>10, <1>12
  DEF MInv, MTypeOK

(* A fresh id: no message of this call is anywhere yet.                    *)
LEMMA RegisterStep ==
  ASSUME MInv, NEW c \in Calls, Register(c)
  PROVE  MInv'
<1> USE McpAssumption DEF Failers, Register, readVars, closeVars
<1> DEFINE n == nextID + 1
<1>0. /\ n \in Nat \ {0} /\ n \notin DOMAIN pending
      /\ idOf' = [idOf EXCEPT ![c] = n] /\ nextID' = n
      /\ DOMAIN pending' = DOMAIN pending \union {n}
      /\ \A i \in DOMAIN pending' : pending'[i] = IF i = n THEN c ELSE pending[i]
      /\ pc[c] = "new" /\ pc' = [pc EXCEPT ![c] = "locking"] /\ c \notin Notices
  BY DEF MInv, MTypeOK, TableTyped
<1>11. \A d \in Calls : idOf[d] \in Nat /\ idOf[d] < n
  <2>1. \A d \in Calls : idOf[d] \in Nat /\ idOf[d] <= nextID
    BY DEF MInv, MTypeOK, CallsTyped, IdsUnique
  <2>2. nextID \in Nat
    BY DEF MInv, MTypeOK, TableTyped
  <2> QED BY <2>1, <2>2
<1>1. CallsTyped'
  <2>1. idOf' \in [Calls -> Nat]
    BY <1>0 DEF MInv, MTypeOK, CallsTyped
  <2>2. pc' \in [Calls -> {"new", "locking", "writing", "waiting", "unregister", "returned"}]
    BY <1>0 DEF MInv, MTypeOK, CallsTyped
  <2>3. UNCHANGED <<box, result, got>>
    OBVIOUS
  <2> HIDE DEF Register
  <2> QED BY <2>1, <2>2, <2>3 DEF MInv, MTypeOK, CallsTyped
<1>2. TableTyped'
  BY DEF MInv, MTypeOK, TableTyped
<1>3. WriterTyped'
  BY DEF MInv, MTypeOK, WriterTyped, CallsTyped
<1>4. LoopTyped'
  BY DEF MInv, MTypeOK, LoopTyped
<1>5. CloseTyped'
  BY DEF MInv, MTypeOK, CloseTyped
<1>6. PlaceByPlace'
  <2>1. ASSUME NEW d \in Calls
        PROVE  /\ InTable(d)' <=> InTable(d) \/ d = c
               /\ InHand(d)' <=> InHand(d)
               /\ InBox(d)' <=> InBox(d)
    BY <1>0 DEF InTable, InHand, InBox
  <2>2. \A d \in Calls : pc'[d] = IF d = c THEN "locking" ELSE pc[d]
    BY <1>0 DEF MInv, MTypeOK, CallsTyped
  <2>3. ~Coming(c) /\ UNCHANGED failing
    BY <1>0 DEF MInv, PlaceByPlace
  <2>4. UNCHANGED got /\ got[c] = Empty
    BY <1>0 DEF MInv, CallersInOrder
  <2> HIDE DEF Register
  <2> QED BY <1>0, <2>1, <2>2, <2>3, <2>4 DEF MInv, PlaceByPlace, Coming, Apart
<1>7. TableIsLive'
  <2>1. \A i \in DOMAIN pending : pending[i] \in Calls /\ pending[i] # c
    BY <1>0 DEF MInv, MTypeOK, TableTyped, TableIsLive
  <2>2. \A d \in Calls : /\ pc'[d] = IF d = c THEN "locking" ELSE pc[d]
                         /\ idOf'[d] = IF d = c THEN n ELSE idOf[d]
    BY <1>0 DEF MInv, MTypeOK, CallsTyped
  <2> HIDE DEF Register
  <2> QED BY <1>0, <2>1, <2>2 DEF MInv, TableIsLive
<1>8. IdsUnique'
  <2>1. \A d \in Calls : /\ pc'[d] = IF d = c THEN "locking" ELSE pc[d]
                         /\ idOf'[d] = IF d = c THEN n ELSE idOf[d]
    BY <1>0 DEF MInv, MTypeOK, CallsTyped
  <2>2. \A d \in Calls : idOf'[d] <= nextID'
    BY <1>0, <1>11, <2>1
  <2>3. \A d \in Calls : pc'[d] = "new" \/ d \in Notices => idOf'[d] = 0
    BY <1>0, <2>1 DEF MInv, IdsUnique
  <2>4. \A d, e \in Calls : idOf'[d] = idOf'[e] /\ idOf'[d] # 0 => d = e
    BY <1>0, <1>11, <2>1 DEF MInv, IdsUnique
  <2> QED BY <2>2, <2>3, <2>4 DEF IdsUnique
<1>9. IdsTravel'
  <2>1. \A d \in Calls : idOf'[d] = IF d = c THEN n ELSE idOf[d]
    BY <1>0 DEF MInv, MTypeOK, CallsTyped
  <2>2. \A i \in DOMAIN hand : hand[i] \in Calls /\ hand[i] # c
    BY <1>0 DEF MInv, MTypeOK, LoopTyped, PlaceByPlace, Coming, InHand
  <2>3. box[c] = Empty
    BY <1>0 DEF MInv, PlaceByPlace, Coming, InBox
  <2>4. result[c] # "answer"
    <3>1. idOf[c] = 0
      BY <1>0 DEF MInv, IdsUnique
    <3> QED BY <3>1 DEF MInv, IdsTravel
  <2>5. UNCHANGED <<hand, box, result, got>>
    OBVIOUS
  <2> HIDE DEF Register
  <2> QED BY <2>1, <2>2, <2>3, <2>4, <2>5 DEF MInv, IdsTravel
<1>10. OneFailAll'
  BY DEF MInv, OneFailAll, DoneClosedOnce, At
<1>12. CallersInOrder'
  BY DEF MInv, MTypeOK, CallsTyped, CallersInOrder
<1> QED
  BY <1>1, <1>2, <1>3, <1>4, <1>5, <1>6, <1>7, <1>8, <1>9, <1>10, <1>12
  DEF MInv, MTypeOK

(* The message leaves the channel with its caller.                         *)
LEMMA ReceiveStep ==
  ASSUME MInv, NEW c \in Calls, Receive(c)
  PROVE  MInv'
<1> USE McpAssumption DEF Failers, Receive, tableVars, readVars, closeVars
<1>1. CallsTyped'
  <2>1. box[c] \in ServerIds \union {Empty, Broken}
    BY DEF MInv, MTypeOK, CallsTyped
  <2> QED BY <2>1 DEF MInv, MTypeOK, CallsTyped
<1>2. TableTyped'
  BY DEF MInv, MTypeOK, TableTyped
<1>3. WriterTyped'
  BY DEF MInv, MTypeOK, WriterTyped, CallsTyped
<1>4. LoopTyped'
  BY DEF MInv, MTypeOK, LoopTyped
<1>5. CloseTyped'
  BY DEF MInv, MTypeOK, CloseTyped
<1>6. PlaceByPlace'
  BY DEF MInv, MTypeOK, CallsTyped, CloseTyped, PlaceByPlace, Coming, Apart, InTable, InHand, InBox
<1>7. TableIsLive'
  <2>1. \A i \in DOMAIN pending : pending[i] \in Calls /\ pending[i] # c
    <3>1. ~InTable(c)
      BY DEF MInv, PlaceByPlace, Apart, InBox
    <3> QED BY <3>1 DEF InTable, MInv, MTypeOK, TableTyped
  <2>2. \A d \in Calls : d # c => pc'[d] = pc[d]
    BY DEF MInv, MTypeOK, CallsTyped
  <2>3. UNCHANGED <<pending, idOf>>
    OBVIOUS
  <2> HIDE DEF Receive
  <2> QED BY <2>1, <2>2, <2>3 DEF MInv, TableIsLive
<1>8. IdsUnique'
  BY DEF MInv, MTypeOK, CallsTyped, TableTyped, IdsUnique
<1>9. IdsTravel'
  BY DEF MInv, MTypeOK, CallsTyped, IdsTravel
<1>10. OneFailAll'
  BY DEF MInv, OneFailAll, DoneClosedOnce, At
<1>12. CallersInOrder'
  BY DEF MInv, MTypeOK, CallsTyped, CallersInOrder
<1> QED
  BY <1>1, <1>2, <1>3, <1>4, <1>5, <1>6, <1>7, <1>8, <1>9, <1>10, <1>12
  DEF MInv, MTypeOK

(* The entry leaves the table with its caller.                             *)
LEMMA UnregisterStep ==
  ASSUME MInv, NEW c \in Calls, Unregister(c)
  PROVE  MInv'
<1> USE McpAssumption DEF Failers, Unregister, Without, readVars, closeVars
<1>1. CallsTyped'
  BY DEF MInv, MTypeOK, CallsTyped
<1>2. TableTyped'
  BY DEF MInv, MTypeOK, TableTyped
<1>3. WriterTyped'
  BY DEF MInv, MTypeOK, WriterTyped, CallsTyped
<1>4. LoopTyped'
  BY DEF MInv, MTypeOK, LoopTyped
<1>5. CloseTyped'
  BY DEF MInv, MTypeOK, CloseTyped
<1>6. PlaceByPlace'
  <2>1. ASSUME NEW d \in Calls PROVE InTable(d)' <=> InTable(d) /\ d # c
    <3>1. \A i \in DOMAIN pending : pending[i] \in Calls /\ idOf[pending[i]] = i /\ i # 0
      BY DEF MInv, MTypeOK, TableTyped, TableIsLive
    <3>2. \A i \in DOMAIN pending : i = idOf[c] <=> pending[i] = c
      BY <3>1 DEF MInv, IdsUnique
    <3> QED BY <3>2 DEF InTable
  <2>2. ASSUME NEW d \in Calls
        PROVE  /\ InHand(d)' <=> InHand(d)
               /\ InBox(d)' <=> InBox(d)
               /\ pc'[d] = IF d = c THEN "returned" ELSE pc[d]
    BY DEF InHand, InBox, MInv, MTypeOK, CallsTyped
  <2> QED BY <2>1, <2>2 DEF MInv, PlaceByPlace, Coming, Apart
<1>7. TableIsLive'
  BY DEF MInv, MTypeOK, CallsTyped, TableTyped, TableIsLive, PlaceByPlace, Coming, InTable
<1>8. IdsUnique'
  BY DEF MInv, MTypeOK, CallsTyped, TableTyped, IdsUnique
<1>9. IdsTravel'
  BY DEF MInv, MTypeOK, CallsTyped, IdsTravel
<1>10. OneFailAll'
  BY DEF MInv, OneFailAll, DoneClosedOnce, At
<1>12. CallersInOrder'
  BY DEF MInv, MTypeOK, CallsTyped, CallersInOrder
<1> QED
  BY <1>1, <1>2, <1>3, <1>4, <1>5, <1>6, <1>7, <1>8, <1>9, <1>10, <1>12
  DEF MInv, MTypeOK

(* An entry moves from the table to the hands of the read loop.            *)
LEMMA ReadLineStep ==
  ASSUME MInv, NEW i \in ServerIds, ReadLine(i)
  PROVE  MInv'
<1> USE McpAssumption DEF Failers, ReadLine, Without, callVars, closeVars
<1>1. CallsTyped'
  BY DEF MInv, MTypeOK, CallsTyped
<1>2. TableTyped'
  BY DEF MInv, MTypeOK, TableTyped
<1>3. WriterTyped'
  BY DEF MInv, MTypeOK, WriterTyped, CallsTyped
<1>4. LoopTyped'
  <2>1. CASE i \in DOMAIN pending
    <3>1. DOMAIN hand' = {i} /\ hand'[i] = pending[i] /\ pending[i] \in Calls /\ reader' = "deliver"
      BY <2>1 DEF MInv, MTypeOK, TableTyped
    <3>2. hand' \in [DOMAIN hand' -> Calls]
      BY <2>1, <3>1
    <3> QED BY <3>1, <3>2 DEF MInv, MTypeOK, LoopTyped
  <2>2. CASE i \notin DOMAIN pending
    BY <2>2 DEF MInv, MTypeOK, LoopTyped
  <2> QED BY <2>1, <2>2
<1>5. CloseTyped'
  BY DEF MInv, MTypeOK, CloseTyped
<1>6. PlaceByPlace'
  <2>1. CASE i \in DOMAIN pending
    <3>1. ASSUME NEW d \in Calls PROVE InTable(d)' <=> InTable(d) /\ d # pending[i]
      BY <2>1 DEF InTable, MInv, MTypeOK, TableTyped, TableIsLive
    <3>2. ASSUME NEW d \in Calls PROVE InHand(d)' <=> d = pending[i]
      BY <2>1 DEF InHand
    <3>3. ASSUME NEW d \in Calls PROVE ~InHand(d)
      BY DEF InHand, MInv, MTypeOK, LoopTyped
    <3>4. InTable(pending[i])
      BY <2>1 DEF InTable
    <3>5. ASSUME NEW d \in Calls PROVE InBox(d)' <=> InBox(d)
      BY DEF InBox
    <3>6. UNCHANGED <<pc, failing>>
      OBVIOUS
    <3> QED BY <3>1, <3>2, <3>3, <3>4, <3>5, <3>6 DEF MInv, PlaceByPlace, Coming, Apart
  <2>2. CASE i \notin DOMAIN pending
    BY <2>2 DEF MInv, PlaceByPlace, Coming, Apart, InTable, InHand, InBox
  <2> QED BY <2>1, <2>2
<1>7. TableIsLive'
  <2>1. DOMAIN pending' \subseteq DOMAIN pending /\ \A j \in DOMAIN pending' : pending'[j] = pending[j]
    OBVIOUS
  <2>2. UNCHANGED <<pc, idOf>>
    OBVIOUS
  <2> QED BY <2>1, <2>2 DEF MInv, TableIsLive
<1>8. IdsUnique'
  BY DEF MInv, MTypeOK, CallsTyped, TableTyped, IdsUnique
<1>9. IdsTravel'
  <2>1. \A j \in DOMAIN hand' : idOf[hand'[j]] = j
    <3>1. CASE i \in DOMAIN pending
      BY <3>1 DEF MInv, TableIsLive
    <3>2. CASE i \notin DOMAIN pending
      BY <3>2 DEF MInv, IdsTravel
    <3> QED BY <3>1, <3>2
  <2>2. UNCHANGED <<idOf, box, result, got>>
    OBVIOUS
  <2> QED BY <2>1, <2>2 DEF MInv, IdsTravel
<1>10. OneFailAll'
  BY DEF MInv, OneFailAll, DoneClosedOnce, At
<1>12. CallersInOrder'
  BY DEF MInv, MTypeOK, CallsTyped, CallersInOrder
<1> QED
  BY <1>1, <1>2, <1>3, <1>4, <1>5, <1>6, <1>7, <1>8, <1>9, <1>10, <1>12
  DEF MInv, MTypeOK

(* From the hands of the read loop to the channel.                         *)
LEMMA DeliverStep ==
  ASSUME MInv, Deliver
  PROVE  MInv'
<1> USE McpAssumption DEF Failers, Deliver, tableVars, closeVars
<1> PICK i \in DOMAIN hand :
      box[hand[i]] = Empty /\ box' = [box EXCEPT ![hand[i]] = i]
  OBVIOUS
<1> DEFINE c == hand[i]
<1>0. /\ c \in Calls /\ i \in ServerIds /\ i \in Nat \ {0}
      /\ box' = [box EXCEPT ![c] = i]
  BY DEF MInv, MTypeOK, LoopTyped
<1>1. CallsTyped'
  <2>1. UNCHANGED <<pc, idOf, result, got>>
    OBVIOUS
  <2>2. box' \in [Calls -> ServerIds \union {Empty, Broken}]
    BY <1>0 DEF MInv, MTypeOK, CallsTyped
  <2> QED BY <2>1, <2>2 DEF MInv, MTypeOK, CallsTyped
<1>2. TableTyped'
  BY DEF MInv, MTypeOK, TableTyped
<1>3. WriterTyped'
  BY DEF MInv, MTypeOK, WriterTyped, CallsTyped
<1>4. LoopTyped'
  BY DEF MInv, MTypeOK, LoopTyped
<1>5. CloseTyped'
  BY DEF MInv, MTypeOK, CloseTyped
<1>6. PlaceByPlace'
  <2>1. ASSUME NEW d \in Calls PROVE InHand(d) <=> d = c
    BY DEF InHand, MInv, MTypeOK, LoopTyped
  <2>2. ASSUME NEW d \in Calls PROVE ~InHand(d)'
    BY DEF InHand
  <2>3. ASSUME NEW d \in Calls PROVE InBox(d)' <=> InBox(d) \/ d = c
    <3>1. \A e \in Calls : box'[e] = IF e = hand[i] THEN i ELSE box[e]
      BY <1>0 DEF MInv, MTypeOK, CallsTyped
    <3>2. i # Empty
      BY <1>0
    <3> QED BY <3>1, <3>2 DEF InBox
  <2>4. ASSUME NEW d \in Calls PROVE InTable(d)' <=> InTable(d)
    BY DEF InTable
  <2>5. UNCHANGED <<pc, failing>>
    OBVIOUS
  <2> QED BY <1>0, <2>1, <2>2, <2>3, <2>4, <2>5 DEF MInv, PlaceByPlace, Coming, Apart
<1>7. TableIsLive'
  BY DEF MInv, MTypeOK, CallsTyped, TableTyped, TableIsLive, PlaceByPlace, Coming, InTable
<1>8. IdsUnique'
  BY DEF MInv, MTypeOK, CallsTyped, TableTyped, IdsUnique
<1>9. IdsTravel'
  BY <1>0 DEF MInv, MTypeOK, CallsTyped, IdsTravel
<1>10. OneFailAll'
  <2>1. UNCHANGED <<closed, doneCloses, closer, failing>> /\ reader' # "failing"
    OBVIOUS
  <2>2. reader # "failing"
    BY DEF MInv, MTypeOK, LoopTyped
  <2>3. \A f \in Failers : At(f, "failing")' <=> At(f, "failing")
    BY <2>1, <2>2 DEF At
  <2> QED BY <2>1, <2>3 DEF MInv, OneFailAll, DoneClosedOnce
<1>12. CallersInOrder'
  BY DEF MInv, MTypeOK, CallsTyped, CallersInOrder
<1> QED
  BY <1>1, <1>2, <1>3, <1>4, <1>5, <1>6, <1>7, <1>8, <1>9, <1>10, <1>12
  DEF MInv, MTypeOK

(* All entries move from the table to a failAll.                           *)
LEMMA FailAllStep ==
  ASSUME MInv, NEW f \in Failers, FailAll(f)
  PROVE  MInv'
<1> USE McpAssumption DEF Failers, FailAll, At, Goes, callVars, Range
<1>1. CallsTyped'
  BY DEF MInv, MTypeOK, CallsTyped
<1>2. TableTyped'
  BY DEF MInv, MTypeOK, TableTyped
<1>3. WriterTyped'
  BY DEF MInv, MTypeOK, WriterTyped, CallsTyped
<1>4. LoopTyped'
  BY DEF MInv, MTypeOK, LoopTyped
<1>0. CASE closed
  <2>1. UNCHANGED <<callVars, tableVars, writer, hand, lines, failing, down>>
    BY <1>0 DEF tableVars
  <2>2. /\ reader' \in {reader, "failed"} /\ closer' \in {closer, "failed"}
        /\ reader' = reader \/ reader = "fail"
        /\ closer' = closer \/ closer = "fail"
    BY <1>0
  <2> HIDE DEF FailAll, Goes, Range
  <2> USE <2>1, <2>2 DEF tableVars
  <2>3. CallsTyped' /\ TableTyped' /\ WriterTyped'
    BY DEF MInv, MTypeOK, CallsTyped, TableTyped, WriterTyped
  <2>4. LoopTyped' /\ CloseTyped'
    BY DEF MInv, MTypeOK, LoopTyped, CloseTyped
  <2>5. PlaceByPlace'
    BY DEF MInv, PlaceByPlace, Coming, Apart, InTable, InHand, InBox
  <2>6. TableIsLive' /\ IdsUnique' /\ IdsTravel'
    BY DEF MInv, TableIsLive, IdsUnique, IdsTravel
  <2>7. OneFailAll'
    <3>1. \A g \in Failers : At(g, "failing")' => At(g, "failing")
      BY DEF At
    <3>2. \A g \in Failers : At(g, "failing") => At(g, "failing")'
      BY DEF At
    <3> QED BY <3>1, <3>2 DEF MInv, OneFailAll, DoneClosedOnce
  <2>8. CallersInOrder'
    BY DEF MInv, CallersInOrder
  <2> QED BY <2>3, <2>4, <2>5, <2>6, <2>7, <2>8 DEF MInv, MTypeOK
<1> SUFFICES ASSUME ~closed PROVE MInv'
  BY <1>0
<1>5. CloseTyped'
  <2>1. Range(pending) \subseteq Calls
    BY DEF MInv, MTypeOK, TableTyped
  <2> QED BY <2>1 DEF MInv, MTypeOK, CloseTyped
<1>6. PlaceByPlace'
  <2>1. failing["reader"] = {} /\ failing["closer"] = {}
    BY DEF MInv, OneFailAll
  <2>2. ASSUME NEW d \in Calls PROVE d \in Range(pending) <=> InTable(d)
    BY DEF InTable
  <2>3. ASSUME NEW d \in Calls PROVE ~InTable(d)'
    BY DEF InTable
  <2>4. ASSUME NEW d \in Calls PROVE (InHand(d)' <=> InHand(d)) /\ (InBox(d)' <=> InBox(d))
    BY DEF InHand, InBox
  <2>5. \A g \in Failers : failing'[g] = IF g = f THEN Range(pending) ELSE {}
    BY <2>1 DEF MInv, MTypeOK, CloseTyped
  <2>6. UNCHANGED <<pc, got>>
    OBVIOUS
  <2> HIDE DEF FailAll, Range, At, Goes, callVars
  <2> QED BY <2>1, <2>2, <2>3, <2>4, <2>5, <2>6 DEF MInv, PlaceByPlace, Coming, Apart
<1>7. TableIsLive'
  BY DEF TableIsLive
<1>8. IdsUnique'
  BY DEF MInv, MTypeOK, CallsTyped, TableTyped, IdsUnique
<1>9. IdsTravel'
  BY DEF MInv, MTypeOK, CallsTyped, IdsTravel
<1>10. OneFailAll'
  <2>1. \A g \in Failers : ~At(g, "failing") /\ failing[g] = {}
    BY DEF MInv, OneFailAll
  <2>2. \A g \in Failers : At(g, "failing")' <=> g = f
    BY <2>1
  <2>3. closed' = TRUE /\ doneCloses' = 0
    BY DEF MInv, OneFailAll
  <2>4. \A g \in Failers : failing'[g] # {} => g = f
    BY <2>1 DEF MInv, MTypeOK, CloseTyped
  <2> QED BY <2>2, <2>3, <2>4 DEF OneFailAll, DoneClosedOnce
<1>12. CallersInOrder'
  BY DEF MInv, MTypeOK, CallsTyped, CallersInOrder
<1> QED
  BY <1>1, <1>2, <1>3, <1>4, <1>5, <1>6, <1>7, <1>8, <1>9, <1>10, <1>12
  DEF MInv, MTypeOK

(* From a failAll to the channel.                                          *)
LEMMA FailOneStep ==
  ASSUME MInv, NEW f \in Failers, NEW c \in Calls, FailOne(f, c)
  PROVE  MInv'
<1> USE McpAssumption DEF Failers, FailOne, At, tableVars, readVars
<1>1. CallsTyped'
  BY DEF MInv, MTypeOK, CallsTyped
<1>2. TableTyped'
  BY DEF MInv, MTypeOK, TableTyped
<1>3. WriterTyped'
  BY DEF MInv, MTypeOK, WriterTyped, CallsTyped
<1>4. LoopTyped'
  BY DEF MInv, MTypeOK, LoopTyped
<1>5. CloseTyped'
  BY DEF MInv, MTypeOK, CloseTyped
<1>6. PlaceByPlace'
  <2>1. ASSUME NEW d \in Calls
        PROVE  /\ InTable(d)' <=> InTable(d)
               /\ InHand(d)' <=> InHand(d)
    BY DEF InTable, InHand
  <2>2. ASSUME NEW d \in Calls PROVE InBox(d)' <=> InBox(d) \/ d = c
    BY DEF InBox, MInv, MTypeOK, CallsTyped
  <2>3. \A g \in Failers : failing'[g] = IF g = f THEN failing[g] \ {c} ELSE failing[g]
    BY DEF MInv, MTypeOK, CloseTyped
  <2>4. c \in failing[f] /\ UNCHANGED <<pc, got>>
    OBVIOUS
  <2> HIDE DEF FailOne, At
  <2> QED BY <2>1, <2>2, <2>3, <2>4 DEF MInv, PlaceByPlace, Coming, Apart
<1>7. TableIsLive'
  BY DEF MInv, MTypeOK, CallsTyped, TableTyped, TableIsLive, PlaceByPlace, Coming, InTable
<1>8. IdsUnique'
  BY DEF MInv, MTypeOK, CallsTyped, TableTyped, IdsUnique
<1>9. IdsTravel'
  BY DEF MInv, MTypeOK, CallsTyped, IdsTravel
<1>10. OneFailAll'
  BY DEF MInv, OneFailAll, DoneClosedOnce, At
<1>12. CallersInOrder'
  BY DEF MInv, MTypeOK, CallsTyped, CallersInOrder
<1> QED
  BY <1>1, <1>2, <1>3, <1>4, <1>5, <1>6, <1>7, <1>8, <1>9, <1>10, <1>12
  DEF MInv, MTypeOK

(* The ends of the read loop, of failAll and of Close.                     *)
LEMMA EndStep ==
  ASSUME MInv, (ReadEnds \/ Close \/ TearDown \/ \E f \in Failers : Failed(f))
  PROVE  MInv'
<1> USE McpAssumption DEF Failers, ReadEnds, Close, TearDown, Failed, At, Goes,
                          callVars, tableVars, readVars, closeVars
<1>1. CallsTyped'
  BY DEF MInv, MTypeOK, CallsTyped
<1>2. TableTyped'
  BY DEF MInv, MTypeOK, TableTyped
<1>3. WriterTyped'
  BY DEF MInv, MTypeOK, WriterTyped, CallsTyped
<1>4. LoopTyped'
  BY DEF MInv, MTypeOK, LoopTyped
<1>5. CloseTyped'
  BY DEF MInv, MTypeOK, CloseTyped
<1>6. PlaceByPlace'
  <2>1. UNCHANGED <<pc, pending, hand, box, failing>>
    OBVIOUS
  <2> QED BY <2>1 DEF MInv, PlaceByPlace, Coming, Apart, InTable, InHand, InBox
<1>7. TableIsLive'
  BY DEF MInv, MTypeOK, CallsTyped, TableTyped, TableIsLive, PlaceByPlace, Coming, InTable
<1>8. IdsUnique'
  BY DEF MInv, MTypeOK, CallsTyped, TableTyped, IdsUnique
<1>9. IdsTravel'
  BY DEF MInv, MTypeOK, CallsTyped, IdsTravel
<1>10. OneFailAll'
  BY DEF MInv, OneFailAll, DoneClosedOnce, At
<1>12. CallersInOrder'
  BY DEF MInv, MTypeOK, CallsTyped, CallersInOrder
<1> QED
  BY <1>1, <1>2, <1>3, <1>4, <1>5, <1>6, <1>7, <1>8, <1>9, <1>10, <1>12
  DEF MInv, MTypeOK

-----------------------------------------------------------------------------
(* Every step of the client keeps the invariant.                           *)
LEMMA Inductive == MSpec => []MInv
<1>1. ASSUME MInv, [MNext]_mvars PROVE MInv'
  <2>1. CASE UNCHANGED mvars
    <3> USE <2>1 DEF mvars, callVars, tableVars, readVars, closeVars
    <3>1. MTypeOK'
      BY <1>1 DEF MInv, MTypeOK, CallsTyped, TableTyped, WriterTyped, LoopTyped, CloseTyped
    <3>2. PlaceByPlace'
      BY <1>1 DEF MInv, PlaceByPlace, Coming, Apart, InTable, InHand, InBox
    <3>3. TableIsLive' /\ IdsUnique' /\ IdsTravel'
      BY <1>1 DEF MInv, TableIsLive, IdsUnique, IdsTravel
    <3>4. OneFailAll' /\ CallersInOrder'
      BY <1>1 DEF MInv, OneFailAll, DoneClosedOnce, At, CallersInOrder
    <3> QED BY <3>1, <3>2, <3>3, <3>4 DEF MInv
  <2>2. ASSUME NEW c \in Calls, CallStep(c) PROVE MInv'
    BY <1>1, <2>2, QuietCallStep, RegisterStep, ReceiveStep, UnregisterStep DEF CallStep
  <2>3. ASSUME NEW f \in Failers, FailStep(f) PROVE MInv'
    BY <1>1, <2>3, FailAllStep, FailOneStep, EndStep DEF FailStep
  <2> QED BY <1>1, <2>1, <2>2, <2>3, ReadLineStep, DeliverStep, EndStep DEF MNext
<1> QED BY <1>1, Initially, PTL DEF MSpec

(* The state is of its type and the write lock excludes, with any calls.   *)
THEOREM Types == MSpec => []MTypeOK
<1>1. MInv => MTypeOK
  BY DEF MInv
<1> QED BY <1>1, Inductive, PTL

(* The demultiplexer gives no call an answer to another, however answers,  *)
(* cancellations, failures and Close interleave.                           *)
THEOREM EachItsAnswer == MSpec => []AnswersMatch
<1>1. MInv => AnswersMatch
  <2> SUFFICES ASSUME MInv, NEW c \in Calls, result[c] = "answer", NEW d \in Calls
               PROVE  idOf[d] = got[c] <=> d = c
    BY DEF AnswersMatch
  <2>1. got[c] = idOf[c] /\ got[c] # 0
    BY McpAssumption DEF MInv, IdsTravel
  <2> QED BY <2>1 DEF MInv, IdsUnique
<1> QED BY <1>1, Inductive, PTL

(* No message for a waiting call is lost between the table and its         *)
(* channel, and no call is sent two: a channel of one place is enough.     *)
THEOREM NoneLostNoneTwice == MSpec => []MessageOnItsWay
<1>1. MInv => MessageOnItsWay
  BY Spelling DEF MInv
<1> QED BY <1>1, Inductive, PTL

(* Calls that are over have left the table.                                *)
THEOREM NothingLeftBehind == MSpec => []TableIsLive
<1>1. MInv => TableIsLive
  BY DEF MInv
<1> QED BY <1>1, Inductive, PTL

(* Close and the end of the input never both close done.                   *)
THEOREM NoSecondClose == MSpec => []DoneClosedOnce
<1>1. MInv => DoneClosedOnce
  BY DEF MInv, OneFailAll
<1> QED BY <1>1, Inductive, PTL

-----------------------------------------------------------------------------
(* The client implements RemoteCalls: a step moves one call of it, all of  *)
(* them at once, or nothing.  First what a step that decides nothing and   *)
(* ends nothing leaves alone.                                              *)
LEMMA Unmoved ==
  ASSUME UNCHANGED closed,
         \A c \in Calls : UNCHANGED <<StageOf(c), FateOf(c), OutcomeOf(c)>>
  PROVE  UNCHANGED Rpc!rvars
BY DEF Rpc!rvars

(* A call that returns: nothing is decided by that.                        *)
LEMMA ReturnsWith ==
  ASSUME MInv, NEW c \in Calls, pc'[c] = "returned",
         \A d \in Calls : d # c => UNCHANGED <<pc[d], result[d]>>,
         \A d \in Calls : UNCHANGED FateOf(d), UNCHANGED closed
  PROVE  Rpc!Over(c, result'[c])
<1>1. \A d \in Calls : d # c => UNCHANGED <<StageOf(d), OutcomeOf(d)>>
  BY DEF StageOf, OutcomeOf
<1>2. StageOf(c)' = "over" /\ OutcomeOf(c)' = result'[c]
  BY DEF StageOf, OutcomeOf
<1> QED
  BY <1>1, <1>2, Zenon DEF Rpc!Over

(* The message of a call that is open is in the table as long as nothing   *)
(* is decided, and only then.                                              *)
LEMMA InTableIsUndecided ==
  ASSUME MInv, NEW c \in Calls
  PROVE  /\ InTable(c) <=> StageOf(c) = "open" /\ FateOf(c) = "undecided"
         /\ ~(Answered(c) /\ BrokenOff(c))
<1> USE McpAssumption
<1>1. Apart(c) /\ (Coming(c) => pc[c] # "new" /\ c \notin Notices /\ got[c] = Empty)
  BY DEF MInv, PlaceByPlace
<1>2. InTable(c) => pc[c] \in {"locking", "writing", "waiting", "unregister"} /\ got[c] = Empty
  BY DEF MInv, InTable, TableIsLive, CallersInOrder
<1>3. /\ Answered(c) <=> InHand(c) \/ box[c] \in ServerIds \/ got[c] \in ServerIds
      /\ BrokenOff(c) <=> (\E f \in Failers : c \in failing[f]) \/ box[c] = Broken \/ got[c] = Broken
  BY DEF Answered, BrokenOff, InHand
<1>4. /\ box[c] \in ServerIds \union {Empty, Broken} /\ got[c] \in ServerIds \union {Empty, Broken}
      /\ \A f \in Failers : f = "reader" \/ f = "closer"
  BY DEF MInv, MTypeOK, CallsTyped, Failers
<1>5. ~(Answered(c) /\ BrokenOff(c))
  BY <1>1, <1>3, <1>4 DEF Apart, InBox, Coming
<1>6. ASSUME InTable(c) PROVE StageOf(c) = "open" /\ FateOf(c) = "undecided"
  <2>1. ~Answered(c) /\ ~BrokenOff(c)
    BY <1>1, <1>2, <1>3, <1>4, <1>6 DEF Apart, InBox, Coming
  <2> QED BY <1>1, <1>2, <1>6, <2>1 DEF StageOf, FateOf, Coming
<1>7. ASSUME StageOf(c) = "open", FateOf(c) = "undecided" PROVE InTable(c)
  <2>1. pc[c] \in {"locking", "writing", "waiting", "unregister"} /\ c \notin Notices
    BY <1>7 DEF StageOf, MInv, MTypeOK, CallsTyped
  <2>2. Coming(c)
    BY <2>1 DEF MInv, PlaceByPlace
  <2>3. ~Answered(c) /\ ~BrokenOff(c)
    BY <1>7 DEF FateOf
  <2> QED BY <1>3, <1>4, <2>2, <2>3 DEF Coming, InBox
<1> QED BY <1>5, <1>6, <1>7
(* Steps of a call.                                                        *)
LEMMA CallMaps ==
  ASSUME MInv, NEW c \in Calls, CallStep(c)
  PROVE  [Rpc!RpcNext]_(Rpc!rvars)
<1> USE McpAssumption DEF Failers
<1>1. pc \in [Calls -> {"new", "locking", "writing", "waiting", "unregister", "returned"}]
      /\ result \in [Calls -> {"none", "refused", "sent", "write error", "cancelled",
                              "connection closed", "answer"}]
  BY DEF MInv, MTypeOK, CallsTyped
<1>2. UNCHANGED <<closed, hand, failing>>
  BY DEF CallStep, Refused, Register, Notify, LockWrite, Written, WriteFails, Receive,
       Cancelled, Unregister, tableVars, readVars, closeVars
<1>3. \A d \in Calls : d # c => UNCHANGED <<pc[d], result[d]>>
  BY <1>1 DEF CallStep, Refused, Register, Notify, LockWrite, Written, WriteFails, Receive,
       Cancelled, Unregister
<1>4. ASSUME UNCHANGED <<box, got>> PROVE \A d \in Calls : UNCHANGED FateOf(d)
  BY <1>2, <1>4 DEF FateOf, Answered, BrokenOff
<1>5. ASSUME \A d \in Calls : UNCHANGED FateOf(d), UNCHANGED <<StageOf(c), OutcomeOf(c)>>
      PROVE  UNCHANGED Rpc!rvars
  <2>1. \A d \in Calls : UNCHANGED <<StageOf(d), FateOf(d), OutcomeOf(d)>>
    BY <1>3, <1>5 DEF StageOf, OutcomeOf
  <2> QED BY <1>2, <2>1, Unmoved
<1>6. ASSUME \A d \in Calls : UNCHANGED FateOf(d), pc'[c] = "returned"
      PROVE  Rpc!Over(c, result'[c])
  BY <1>2, <1>3, <1>6, ReturnsWith
<1>7. CASE Refused(c)
  <2>1. \A d \in Calls : UNCHANGED FateOf(d)
    BY <1>4, <1>7 DEF Refused
  <2>2. /\ StageOf(c) = "new" /\ c \notin Notices /\ closed
        /\ pc'[c] = "returned" /\ result'[c] = "refused"
    BY <1>1, <1>7 DEF Refused, StageOf
  <2>3. Rpc!Refuse(c)
    BY <1>6, <2>1, <2>2 DEF Rpc!Refuse
  <2> QED BY <2>3 DEF Rpc!RpcNext
<1>8. CASE Register(c)
  <2>1. \A d \in Calls : UNCHANGED FateOf(d)
    BY <1>4, <1>8 DEF Register
  <2>2. /\ StageOf(c) = "new" /\ c \notin Notices /\ ~closed
        /\ pc'[c] = "locking"
    BY <1>1, <1>8 DEF Register, StageOf
  <2>3. StageOf(c)' = "open" /\ OutcomeOf(c)' = OutcomeOf(c)
    BY <1>8, <2>2 DEF StageOf, OutcomeOf, Register
  <2>4. \A d \in Calls : UNCHANGED OutcomeOf(d) /\ (d # c => UNCHANGED StageOf(d))
    BY <1>3, <2>3 DEF StageOf, OutcomeOf
  <2>5. Rpc!Begin(c)
    BY <1>2, <2>1, <2>2, <2>3, <2>4, Zenon DEF Rpc!Begin
  <2> QED BY <2>5 DEF Rpc!RpcNext
<1>9. CASE Notify(c) \/ LockWrite(c) \/ Cancelled(c)
  <2>1. \A d \in Calls : UNCHANGED FateOf(d)
    BY <1>4, <1>9 DEF Notify, LockWrite, Cancelled
  <2>2. UNCHANGED <<StageOf(c), OutcomeOf(c)>>
    BY <1>1, <1>9 DEF Notify, LockWrite, Cancelled, StageOf, OutcomeOf, MInv, CallersInOrder
  <2> QED BY <1>5, <2>1, <2>2
<1>10. CASE Written(c) \/ WriteFails(c)
  <2>1. \A d \in Calls : UNCHANGED FateOf(d)
    BY <1>4, <1>10 DEF Written, WriteFails
  <2>2. CASE c \in Notices
    <3>1. /\ StageOf(c) = "new" /\ pc'[c] = "returned"
          /\ result'[c] \in {"sent", "write error"}
      BY <1>1, <1>10, <2>2 DEF Written, WriteFails, StageOf
    <3>2. Rpc!Send(c)
      BY <1>6, <2>1, <2>2, <3>1 DEF Rpc!Send
    <3> QED BY <3>2 DEF Rpc!RpcNext
  <2>3. CASE c \notin Notices
    <3>1. UNCHANGED <<StageOf(c), OutcomeOf(c)>>
      BY <1>1, <1>10, <2>3 DEF Written, WriteFails, StageOf, OutcomeOf
    <3> QED BY <1>5, <2>1, <3>1
  <2> QED BY <2>2, <2>3
<1>11. CASE Receive(c)
  <2>1. /\ pc[c] = "waiting" /\ c \notin Notices /\ box[c] # Empty /\ got[c] = Empty
        /\ pc'[c] = "returned" /\ box'[c] = Empty /\ got'[c] = box[c]
        /\ \A d \in Calls : d # c => UNCHANGED <<box[d], got[d]>>
        /\ result'[c] = IF box[c] = Broken THEN "connection closed" ELSE "answer"
    BY <1>1, <1>11 DEF Receive, MInv, MTypeOK, CallsTyped, CallersInOrder
  <2>2. \A d \in Calls : UNCHANGED FateOf(d)
    <3>1. \A d \in Calls : d # c => UNCHANGED FateOf(d)
      BY <1>2, <2>1 DEF FateOf, Answered, BrokenOff
    <3>2. UNCHANGED FateOf(c)
      BY <1>2, <2>1 DEF FateOf, Answered, BrokenOff
    <3> QED BY <3>1, <3>2
  <2>3. StageOf(c) = "open"
    BY <2>1 DEF StageOf
  <2>4. FateOf(c) = IF box[c] = Broken THEN "broken" ELSE "answered"
    <3>1. box[c] \in ServerIds \union {Broken}
      BY <2>1 DEF MInv, MTypeOK, CallsTyped
    <3>2. ~(Answered(c) /\ BrokenOff(c))
      BY InTableIsUndecided
    <3> QED BY <3>1, <3>2 DEF FateOf, Answered, BrokenOff
  <2>5. Rpc!Over(c, result'[c])
    BY <1>6, <2>1, <2>2
  <2>6. Rpc!Return(c)
    BY <2>1, <2>3, <2>4, <2>5 DEF Rpc!Return
  <2> QED BY <2>6 DEF Rpc!RpcNext
<1>12. CASE Unregister(c)
  <2>1. \A d \in Calls : UNCHANGED FateOf(d)
    BY <1>4, <1>12 DEF Unregister
  <2>2. /\ StageOf(c) = "open" /\ pc'[c] = "returned"
        /\ result'[c] \in {"cancelled", "write error"}
    BY <1>1, <1>12 DEF Unregister, StageOf, MInv, CallersInOrder
  <2>3. Rpc!Return(c)
    BY <1>6, <2>1, <2>2 DEF Rpc!Return
  <2> QED BY <2>3 DEF Rpc!RpcNext
<1> QED BY <1>7, <1>8, <1>9, <1>10, <1>11, <1>12 DEF CallStep
(* Steps that move a message and no call: an entry taken for an answer     *)
(* decides its call, its delivery decides nothing.                         *)
LEMMA AnswerMaps ==
  ASSUME MInv, NEW i \in ServerIds, ReadLine(i)
  PROVE  [Rpc!RpcNext]_(Rpc!rvars)
<1> USE McpAssumption
<1>1. UNCHANGED <<callVars, closed, failing>>
  BY DEF ReadLine, closeVars
<1>2. \A d \in Calls : UNCHANGED <<StageOf(d), OutcomeOf(d)>>
  BY <1>1 DEF StageOf, OutcomeOf, callVars
<1>3. CASE i \in DOMAIN pending
  <2> DEFINE c == pending[i]
  <2>1. c \in Calls /\ InTable(c) /\ ~closed
    BY <1>3 DEF InTable, MInv, MTypeOK, TableTyped, OneFailAll
  <2>2. StageOf(c) = "open" /\ FateOf(c) = "undecided"
    BY <2>1, InTableIsUndecided
  <2>3. \A d \in Calls : ~InHand(d)
    BY <1>3 DEF ReadLine, InHand, MInv, MTypeOK, LoopTyped
  <2>4. \A d \in Calls : InHand(d)' <=> d = c
    BY <1>3 DEF ReadLine, InHand
  <2>5. \A d \in Calls : FateOf(d)' = IF d = c THEN "answered" ELSE FateOf(d)
    BY <1>1, <2>3, <2>4 DEF FateOf, Answered, BrokenOff, InHand, callVars
  <2>6. Rpc!Answer(c)
    <3> HIDE DEF c
    <3> QED BY <1>1, <1>2, <2>1, <2>2, <2>5, Zenon DEF Rpc!Answer
  <2> QED BY <2>1, <2>6 DEF Rpc!RpcNext
<1>4. CASE i \notin DOMAIN pending
  <2>1. UNCHANGED hand
    BY <1>4 DEF ReadLine
  <2>2. \A d \in Calls : UNCHANGED FateOf(d)
    BY <1>1, <2>1 DEF FateOf, Answered, BrokenOff, callVars
  <2> QED BY <1>1, <1>2, <2>2, Unmoved
<1> QED BY <1>3, <1>4

LEMMA DeliverMaps ==
  ASSUME MInv, Deliver
  PROVE  UNCHANGED Rpc!rvars
<1> USE McpAssumption
<1>1. PICK i \in DOMAIN hand : box[hand[i]] = Empty /\ box' = [box EXCEPT ![hand[i]] = i]
  BY DEF Deliver
<1> DEFINE c == hand[i]
<1>2. c \in Calls /\ i \in ServerIds /\ \A d \in Calls : InHand(d) <=> d = c
  BY DEF InHand, MInv, MTypeOK, LoopTyped
<1>3. UNCHANGED <<pc, result, got, closed, failing>> /\ \A d \in Calls : ~InHand(d)'
  BY DEF Deliver, InHand, tableVars, closeVars
<1>4. \A d \in Calls : box'[d] = IF d = c THEN i ELSE box[d]
  BY <1>1 DEF MInv, MTypeOK, CallsTyped
<1>5. \A d \in Calls : UNCHANGED FateOf(d)
  <2> SUFFICES ASSUME NEW d \in Calls PROVE UNCHANGED FateOf(d)
    OBVIOUS
  <2>1. CASE d = c
    BY <1>2, <1>3, <1>4, <2>1 DEF FateOf, Answered, InHand
  <2>2. CASE d # c
    BY <1>2, <1>3, <1>4, <2>2 DEF FateOf, Answered, BrokenOff, InHand
  <2> QED BY <2>1, <2>2
<1>6. \A d \in Calls : UNCHANGED <<StageOf(d), OutcomeOf(d)>>
  BY <1>3 DEF StageOf, OutcomeOf
<1> QED BY <1>3, <1>5, <1>6, Unmoved

(* failAll decides in the step that closes the client; that it tells the   *)
(* callers afterwards decides nothing, nor do the ends of the goroutines.  *)
LEMMA FailAllMaps ==
  ASSUME MInv, NEW f \in Failers, FailAll(f)
  PROVE  [Rpc!RpcNext]_(Rpc!rvars)
<1> USE McpAssumption DEF Failers
<1>1. UNCHANGED <<callVars, hand>>
  BY DEF FailAll
<1>2. \A d \in Calls : UNCHANGED <<StageOf(d), OutcomeOf(d)>>
  BY <1>1 DEF StageOf, OutcomeOf, callVars
<1>3. CASE closed
  <2>1. UNCHANGED <<closed, failing>>
    BY <1>3 DEF FailAll
  <2>2. \A d \in Calls : UNCHANGED FateOf(d)
    BY <1>1, <2>1 DEF FateOf, Answered, BrokenOff, callVars
  <2> QED BY <1>2, <2>1, <2>2, Unmoved
<1>4. CASE ~closed
  <2>1. closed' = TRUE /\ failing' = [failing EXCEPT ![f] = Range(pending)]
    BY <1>4 DEF FailAll
  <2>2. \A g \in Failers : failing[g] = {}
    BY <1>4 DEF MInv, OneFailAll
  <2>3. \A d \in Calls : (\E g \in Failers : d \in failing'[g]) <=> InTable(d)
    <3>1. \A g \in Failers : failing'[g] = IF g = f THEN Range(pending) ELSE {}
      BY <2>1, <2>2 DEF MInv, MTypeOK, CloseTyped
    <3>2. \A d \in Calls : d \in Range(pending) <=> InTable(d)
      BY DEF Range, InTable
    <3> QED BY <3>1, <3>2
  <2>4. \A d \in Calls :
          /\ InTable(d) <=> StageOf(d) = "open" /\ FateOf(d) = "undecided"
          /\ ~(Answered(d) /\ BrokenOff(d))
    BY InTableIsUndecided
  <2>5. \A d \in Calls : FateOf(d)' =
          IF StageOf(d) = "open" /\ FateOf(d) = "undecided" THEN "broken" ELSE FateOf(d)
    <3> SUFFICES ASSUME NEW d \in Calls
                 PROVE  FateOf(d)' = IF InTable(d) THEN "broken" ELSE FateOf(d)
      BY <2>4
    <3>1. Answered(d)' <=> Answered(d)
      BY <1>1 DEF Answered, callVars
    <3>2. BrokenOff(d)' <=> BrokenOff(d) \/ InTable(d)
      BY <1>1, <2>2, <2>3 DEF BrokenOff, callVars
    <3>3. InTable(d) => ~Answered(d)
      BY <2>4 DEF FateOf
    <3> QED BY <3>1, <3>2, <3>3 DEF FateOf
  <2>6. Rpc!ShutDown
    BY <1>2, <1>4, <2>1, <2>5, Zenon DEF Rpc!ShutDown
  <2> QED BY <2>6 DEF Rpc!RpcNext
<1> QED BY <1>3, <1>4

LEMMA TellingMaps ==
  ASSUME MInv, NEW f \in Failers, NEW c \in Calls, FailOne(f, c)
  PROVE  UNCHANGED Rpc!rvars
<1> USE McpAssumption DEF Failers
<1>1. /\ c \in failing[f] /\ box[c] = Empty
      /\ \A d \in Calls : box'[d] = IF d = c THEN Broken ELSE box[d]
      /\ \A d \in Calls : d # c => \A g \in Failers : d \in failing'[g] <=> d \in failing[g]
  BY DEF FailOne, MInv, MTypeOK, CallsTyped, CloseTyped
<1>2. UNCHANGED <<pc, result, got, closed, hand>>
  BY DEF FailOne, tableVars, readVars
<1>3. \A d \in Calls : UNCHANGED FateOf(d)
  <2> SUFFICES ASSUME NEW d \in Calls PROVE UNCHANGED FateOf(d)
    OBVIOUS
  <2>1. CASE d = c
    <3>1. BrokenOff(c) /\ BrokenOff(c)'
      BY <1>1 DEF BrokenOff
    <3>2. Answered(c)' <=> Answered(c)
      BY <1>1, <1>2 DEF Answered
    <3> QED BY <2>1, <3>1, <3>2 DEF FateOf
  <2>2. CASE d # c
    BY <1>1, <1>2, <2>2 DEF FateOf, Answered, BrokenOff
  <2> QED BY <2>1, <2>2
<1>4. \A d \in Calls : UNCHANGED <<StageOf(d), OutcomeOf(d)>>
  BY <1>2 DEF StageOf, OutcomeOf
<1> QED BY <1>2, <1>3, <1>4, Unmoved

LEMMA QuietMaps ==
  ASSUME UNCHANGED <<callVars, hand, failing, closed>>
  PROVE  UNCHANGED Rpc!rvars
<1>1. \A d \in Calls : UNCHANGED <<StageOf(d), OutcomeOf(d), FateOf(d)>>
  BY DEF StageOf, OutcomeOf, FateOf, Answered, BrokenOff, callVars
<1> QED BY <1>1, Unmoved

(* The client implements RemoteCalls for any calls, answers and failures:  *)
(* each call is decided once, the end of the connection is one moment for  *)
(* all, and what a caller is told agrees with both.                        *)
THEOREM ClientImplementsRemoteCalls == MSpec => ImplementsRemoteCalls
<1>1. MInit => Rpc!RpcInit
  <2> SUFFICES ASSUME MInit PROVE Rpc!RpcInit
    OBVIOUS
  <2>1. \A c \in Calls : StageOf(c) = "new" /\ FateOf(c) = "undecided" /\ OutcomeOf(c) = "none"
    BY McpAssumption DEF MInit, StageOf, FateOf, OutcomeOf, Answered, BrokenOff, Failers
  <2>2. closed = FALSE
    BY DEF MInit
  <2> QED BY <2>1, <2>2 DEF Rpc!RpcInit
<1>2. ASSUME MInv, [MNext]_mvars PROVE [Rpc!RpcNext]_(Rpc!rvars)
  <2>1. CASE UNCHANGED mvars
    BY <2>1, QuietMaps DEF mvars, tableVars, readVars, closeVars
  <2>2. ASSUME NEW c \in Calls, CallStep(c) PROVE [Rpc!RpcNext]_(Rpc!rvars)
    BY <1>2, <2>2, CallMaps
  <2>3. ASSUME NEW f \in Failers, FailStep(f) PROVE [Rpc!RpcNext]_(Rpc!rvars)
    <3>1. CASE Failed(f)
      BY <3>1, QuietMaps DEF Failed
    <3> QED BY <1>2, <2>3, <3>1, FailAllMaps, TellingMaps DEF FailStep
  <2>4. CASE ReadEnds \/ Close \/ TearDown
    BY <2>4, QuietMaps DEF ReadEnds, Close, TearDown, tableVars, readVars, closeVars
  <2>5. CASE \E i \in ServerIds : ReadLine(i)
    BY <1>2, <2>5, AnswerMaps
  <2>6. CASE Deliver
    BY <1>2, <2>6, DeliverMaps
  <2> QED BY <1>2, <2>1, <2>2, <2>3, <2>4, <2>5, <2>6 DEF MNext
<1> QED
  BY <1>1, <1>2, Inductive, PTL DEF MSpec, ImplementsRemoteCalls, Rpc!RpcSpec
=============================================================================
