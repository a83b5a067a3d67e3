------------------------- MODULE CampaignSendProofs -------------------------
(***************************************************************************)
(* What CampaignSend promises for every set of rows:                       *)
(*   - with orderly edits, no row is sent twice (NoRowIsSentTwice), and    *)
(*     the counts of a completed run add up (EveryRunIsAccounted);         *)
(*   - with any edits, as long as no row is deleted, no goroutine finds    *)
(*     the campaign empty and none outlives the run (RunNeverRunsDry,      *)
(*     NobodyOutlivesTheRun).                                              *)
(***************************************************************************)
EXTENDS CampaignSend, FiniteSetTheorems, FunctionTheorems, SequenceTheorems,
        TLAPS

-----------------------------------------------------------------------------
(* Type correctness.  TypeOK is not inductive by itself: the errors recorded  *)
(* name rows only because a goroutine that reports one holds a row.           *)

BusyHoldsRow ==
    \A g \in Goroutine : pc[g] \in {"holding", "sent"} => row[g] \in Message

TypeInv == TypeOK /\ BusyHoldsRow

LEMMA InitTypeInv == Init => TypeInv
<1> SUFFICES ASSUME Init PROVE TypeInv
  OBVIOUS
<1>1. errCh \in Seq(SendResult)
  BY EmptySeq DEF Init
<1>2. pc \in [Goroutine -> Progress]
  BY DEF Init, Progress
<1>3. /\ unsent \subseteq Message /\ future \subseteq Message
      /\ row \in [Goroutine -> Message \cup {None}]
      /\ accepted \in [Message -> Nat]
      /\ results \in [successes : Nat, errors : Nat]
  BY DEF Init
<1>4. /\ deleted \subseteq Message /\ batch \subseteq Message
      /\ sendErrors \subseteq Message /\ unrecorded \subseteq Message
      /\ offset \in Int
      /\ phase \in {"idle", "preparing", "sending", "returned"}
      /\ outcome \in {"none", "completed", "failed"}
  BY DEF Init
<1>5. isSending \in BOOLEAN /\ cancelled \in BOOLEAN
  BY Zenon DEF Init
<1>6. BusyHoldsRow
  BY DEF Init, BusyHoldsRow
<1> QED
  BY <1>1, <1>2, <1>3, <1>4, <1>5, <1>6 DEF TypeOK, TypeInv

\* A goroutine that ends leaves a well-formed channel behind.
LEMMA FinishTypeOK ==
  ASSUME pc \in [Goroutine -> Progress], errCh \in Seq(SendResult),
         NEW g \in Goroutine, NEW err \in SendResult, Finish(g, err)
  PROVE  /\ pc' \in [Goroutine -> Progress]
         /\ errCh' \in Seq(SendResult)
         /\ pc'[g] = "done"
         /\ \A h \in Goroutine : h # g => pc'[h] = pc[h]
<1>1. errCh' \in Seq(SendResult)
  BY AppendProperties DEF Finish
<1>2. /\ pc' \in [Goroutine -> Progress]
      /\ pc'[g] = "done"
      /\ \A h \in Goroutine : h # g => pc'[h] = pc[h]
  BY DEF Finish, Progress
<1> QED
  BY <1>1, <1>2

\* Every step, the edits of other clients included, keeps the types.
LEMMA NextTypeInv == TypeInv /\ [Next]_vars => TypeInv'
<1> SUFFICES ASSUME TypeInv, [Next]_vars
             PROVE  TypeInv'
  OBVIOUS
<1> USE DEF TypeInv, BusyHoldsRow, TypeOK, db, run, log
<1>1. CASE Start
  BY <1>1 DEF Start
<1>2. CASE GiveUp
  BY <1>2 DEF GiveUp, Return
<1>3. CASE Spawn
  BY <1>3 DEF Spawn, Progress
<1>4. CASE Consume
  <2>1. errCh' \in Seq(SendResult)
    BY <1>4, HeadTailProperties DEF Consume
  <2>2. results' \in [successes : Nat, errors : Nat]
    BY <1>4 DEF Consume
  <2> QED
    BY <1>4, <2>1, <2>2 DEF Consume, Return
<1>5. CASE Complete
  BY <1>5 DEF Complete, Return
<1>6. CASE Cancel
  BY <1>6 DEF Cancel
<1>7. ASSUME NEW g \in Goroutine, GoroutineStep(g)
      PROVE  TypeInv'
  <2>1. CASE CheckContext(g)
    BY <2>1 DEF CheckContext, Progress
  <2>2. CASE Take(g)
    BY <2>2 DEF Take, Progress
  <2>3. CASE TakeNothing(g)
    <3>1. Finish(g, "empty")
      BY <2>3 DEF TakeNothing
    <3>2. /\ pc' \in [Goroutine -> Progress]
          /\ errCh' \in Seq(SendResult)
          /\ pc'[g] = "done"
          /\ \A h \in Goroutine : h # g => pc'[h] = pc[h]
      BY <3>1, FinishTypeOK DEF SendResult
    <3> QED
      BY <2>3, <3>2 DEF TakeNothing
  <2>4. CASE TakeFails(g)
    <3>1. Finish(g, "error")
      BY <2>4 DEF TakeFails
    <3>2. /\ pc' \in [Goroutine -> Progress]
          /\ errCh' \in Seq(SendResult)
          /\ pc'[g] = "done"
          /\ \A h \in Goroutine : h # g => pc'[h] = pc[h]
      BY <3>1, FinishTypeOK DEF SendResult
    <3> QED
      BY <2>4, <3>2 DEF TakeFails
  <2>5. CASE RejectRow(g)
    <3>1. Finish(g, "error")
      BY <2>5 DEF RejectRow
    <3>2. /\ pc' \in [Goroutine -> Progress]
          /\ errCh' \in Seq(SendResult)
          /\ pc'[g] = "done"
          /\ \A h \in Goroutine : h # g => pc'[h] = pc[h]
      BY <3>1, FinishTypeOK DEF SendResult
    <3> QED
      BY <2>5, <3>2 DEF RejectRow
  <2>6. CASE SendFails(g)
    <3>1. Finish(g, "error")
      BY <2>6 DEF SendFails
    <3>2. /\ pc' \in [Goroutine -> Progress]
          /\ errCh' \in Seq(SendResult)
          /\ pc'[g] = "done"
          /\ \A h \in Goroutine : h # g => pc'[h] = pc[h]
      BY <3>1, FinishTypeOK DEF SendResult
    <3> QED
      BY <2>6, <3>2 DEF SendFails, RecordSendError
  <2>7. CASE SendAccepted(g)
    BY <2>7 DEF SendAccepted, Progress
  <2>8. CASE StoreFails(g)
    <3>1. Finish(g, "error")
      BY <2>8 DEF StoreFails
    <3>2. /\ pc' \in [Goroutine -> Progress]
          /\ errCh' \in Seq(SendResult)
          /\ pc'[g] = "done"
          /\ \A h \in Goroutine : h # g => pc'[h] = pc[h]
      BY <3>1, FinishTypeOK DEF SendResult
    <3> QED
      BY <2>8, <3>2 DEF StoreFails, RecordSendError
  <2>9. CASE Link(g)
    <3>1. Finish(g, "ok")
      BY <2>9 DEF Link
    <3>2. /\ pc' \in [Goroutine -> Progress]
          /\ errCh' \in Seq(SendResult)
          /\ pc'[g] = "done"
          /\ \A h \in Goroutine : h # g => pc'[h] = pc[h]
      BY <3>1, FinishTypeOK DEF SendResult
    <3> QED
      BY <2>9, <3>2 DEF Link
  <2>10. CASE LinkFails(g)
    <3>1. Finish(g, "error")
      BY <2>10 DEF LinkFails
    <3>2. /\ pc' \in [Goroutine -> Progress]
          /\ errCh' \in Seq(SendResult)
          /\ pc'[g] = "done"
          /\ \A h \in Goroutine : h # g => pc'[h] = pc[h]
      BY <3>1, FinishTypeOK DEF SendResult
    <3> QED
      BY <2>10, <3>2 DEF LinkFails, RecordSendError
  <2> QED
    BY <1>7, <2>1, <2>2, <2>3, <2>4, <2>5, <2>6, <2>7, <2>8, <2>9, <2>10
       DEF GoroutineStep
<1>8. ASSUME NEW m \in Message, InsertMessage(m)
      PROVE  TypeInv'
  BY <1>8 DEF InsertMessage
<1>9. ASSUME NEW m \in Message, DeleteMessage(m)
      PROVE  TypeInv'
  BY <1>9 DEF DeleteMessage
<1>10. CASE UNCHANGED vars
  BY <1>10 DEF vars
<1> QED
  BY <1>1, <1>2, <1>3, <1>4, <1>5, <1>6, <1>7, <1>8, <1>9, <1>10
     DEF Next, RunStep

\* The variables of a run keep their types, whatever clients do to its rows.
THEOREM TypeCorrect == Spec => []TypeOK
<1>1. TypeInv => TypeOK
  BY DEF TypeInv
<1> QED
  BY <1>1, InitTypeInv, NextTypeInv, PTL DEF Spec

-----------------------------------------------------------------------------
(* The place of a row among the unsent rows.                               *)

LEMMA FiniteRows ==
  ASSUME NEW rs \in SUBSET Message
  PROVE  IsFiniteSet(rs) /\ rs \subseteq Nat
BY FS_Subset, MessageAssumption

LEMMA RankType ==
  ASSUME NEW rs \in SUBSET Message, NEW m \in Nat
  PROVE  Rank(m, rs) \in Nat
<1>1. {x \in rs : x < m} \in SUBSET Message
  OBVIOUS
<1> QED
  BY <1>1, FiniteRows, FS_CardinalityType DEF Rank

\* Rank grows with the row.
LEMMA RankMonotone ==
  ASSUME NEW rs \in SUBSET Message, NEW m \in rs, NEW t \in rs, m < t
  PROVE  Rank(m, rs) < Rank(t, rs)
<1> DEFINE below(x) == {y \in rs : y < x}
<1>0. rs \subseteq Nat /\ IsFiniteSet(rs)
  BY FiniteRows
<1>1. /\ IsFiniteSet(below(t)) /\ below(t) \subseteq rs
      /\ IsFiniteSet(below(m))
  BY <1>0, FS_Subset
<1>2. below(m) \subseteq below(t) /\ below(m) # below(t)
  <2>1. m \in below(t)
    OBVIOUS
  <2>2. ~(m < m)
    BY <1>0
  <2>3. m \notin below(m)
    BY <2>2
  <2>4. ASSUME NEW y \in rs, y < m PROVE y < t
    BY <1>0, <2>4
  <2>5. below(m) \subseteq below(t)
    BY <2>4
  <2> QED
    BY <2>1, <2>3, <2>5
<1>3. /\ Cardinality(below(m)) <= Cardinality(below(t))
      /\ Cardinality(below(m)) # Cardinality(below(t))
  BY <1>1, <1>2, FS_Subset
<1>4. Cardinality(below(m)) \in Nat /\ Cardinality(below(t)) \in Nat
  BY <1>1, FS_CardinalityType
<1> QED
  BY <1>3, <1>4 DEF Rank

\* When row m leaves, the rows after it move down by one, the others stay.
LEMMA RankRemove ==
  ASSUME NEW rs \in SUBSET Message, NEW m \in rs, NEW t \in rs
  PROVE  Rank(t, rs \ {m}) = IF m < t THEN Rank(t, rs) - 1 ELSE Rank(t, rs)
<1> DEFINE below == {y \in rs : y < t}
<1>0. rs \subseteq Nat /\ IsFiniteSet(rs)
  BY FiniteRows
<1>1. IsFiniteSet(below)
  BY <1>0, FS_Subset
<1>2. {y \in rs \ {m} : y < t} = below \ {m}
  OBVIOUS
<1>3. Cardinality(below \ {m}) =
        IF m \in below THEN Cardinality(below) - 1 ELSE Cardinality(below)
  BY <1>1, FS_RemoveElement
<1>4. m \in below <=> m < t
  OBVIOUS
<1> QED
  BY <1>2, <1>3, <1>4 DEF Rank

\* A row that sorts after t does not change the place of t.
LEMMA RankInsert ==
  ASSUME NEW rs \in SUBSET Message, NEW m \in Message, NEW t \in rs, t < m
  PROVE  Rank(t, rs \cup {m}) = Rank(t, rs)
<1>1. t \in Nat /\ m \in Nat /\ rs \subseteq Nat
  BY MessageAssumption
<1>2. {y \in rs \cup {m} : y < t} = {y \in rs : y < t}
  BY <1>1
<1> QED
  BY <1>2 DEF Rank

-----------------------------------------------------------------------------
(* The cursor protocol.                                                    *)

\* Every taken row that is still unsent lies before the cursor...
BehindCursor ==
    \A g \in Goroutine : row[g] \in unsent => Rank(row[g], unsent) < offset

\* ... and was taken by one goroutine only, which had none before.
OneTaker ==
    \A g, h \in Goroutine : row[g] = row[h] /\ row[g] # None => g = h

RowsByProgress ==
    /\ phase \in {"idle", "preparing"} => \A g \in Goroutine : pc[g] = "idle"
    /\ \A g \in Goroutine :
         /\ pc[g] \in {"idle", "spawned", "checked"} => row[g] = None
         /\ pc[g] \in {"holding", "sent"} => row[g] \in unsent
         /\ row[g] \notin future
    /\ future \cap unsent = {}

\* A row was accepted because its taker got past the API call.
AcceptedByTaker ==
    \A m \in Message : accepted[m] > 0 =>
        \E g \in Goroutine : row[g] = m /\ pc[g] \in {"sent", "done"}

CursorInv == /\ TypeInv /\ BehindCursor /\ OneTaker /\ RowsByProgress
             /\ AcceptedByTaker /\ AtMostOneSend

LEMMA InitCursorInv == Init => CursorInv
<1> SUFFICES ASSUME Init PROVE CursorInv
  OBVIOUS
<1>1. TypeInv
  BY InitTypeInv
<1>2. \A g \in Goroutine : row[g] = None /\ pc[g] = "idle"
  BY DEF Init
<1>3. \A m \in Message : accepted[m] = 0
  BY DEF Init
<1>4. unsent \subseteq Message /\ future = Message \ unsent
  BY DEF Init
<1>5. BehindCursor
  BY <1>2, <1>4, MessageAssumption DEF BehindCursor
<1>6. RowsByProgress
  BY <1>2, <1>4, MessageAssumption DEF RowsByProgress
<1> QED
  BY <1>1, <1>2, <1>3, <1>5, <1>6
     DEF CursorInv, OneTaker, AcceptedByTaker, AtMostOneSend

\* Taking the row at the cursor: nobody took it before.
LEMMA TakeCursorInv ==
  ASSUME CursorInv, TypeInv', NEW g \in Goroutine, Take(g)
  PROVE  CursorInv'
<1> USE DEF CursorInv, TypeInv, TypeOK
<1>1. PICK m \in unsent : Rank(m, unsent) = offset
                         /\ row' = [row EXCEPT ![g] = m]
  BY DEF Take
<1>2. /\ pc[g] = "checked" /\ pc' = [pc EXCEPT ![g] = "holding"]
      /\ offset' = offset + 1
      /\ UNCHANGED <<unsent, future, phase, accepted>>
  BY DEF Take, db, run
<1>3. m \in Message /\ m # None /\ m \in Nat
  BY <1>1, MessageAssumption
<1>4. \A h \in Goroutine : row[h] # m
  BY <1>1 DEF BehindCursor
<1>5. \A h \in Goroutine : row'[h] = IF h = g THEN m ELSE row[h]
  BY <1>1
<1>6. \A h \in Goroutine : pc'[h] = IF h = g THEN "holding" ELSE pc[h]
  BY <1>2
<1>7. BehindCursor'
  <2> SUFFICES ASSUME NEW h \in Goroutine, row'[h] \in unsent
               PROVE  Rank(row'[h], unsent) < offset + 1
    BY <1>2 DEF BehindCursor
  <2>1. Rank(row'[h], unsent) \in Nat
    BY RankType, MessageAssumption
  <2>2. CASE h = g
    BY <1>1, <1>5, <2>2, <2>1
  <2>3. CASE h # g
    BY <1>5, <2>1, <2>3 DEF BehindCursor
  <2> QED
    BY <2>2, <2>3
<1>8. OneTaker'
  BY <1>4, <1>5 DEF OneTaker
<1>9. RowsByProgress'
  BY <1>1, <1>2, <1>3, <1>5, <1>6 DEF RowsByProgress
<1>10. AcceptedByTaker'
  <2> SUFFICES ASSUME NEW x \in Message, accepted[x] > 0
               PROVE  \E h \in Goroutine :
                         row'[h] = x /\ pc'[h] \in {"sent", "done"}
    BY <1>2 DEF AcceptedByTaker
  <2>1. PICK h \in Goroutine : row[h] = x /\ pc[h] \in {"sent", "done"}
    BY DEF AcceptedByTaker
  <2>2. h # g
    BY <1>2, <2>1
  <2> QED
    BY <1>5, <1>6, <2>1, <2>2
<1>11. AtMostOneSend'
  BY <1>2 DEF AtMostOneSend
<1> QED
  BY <1>7, <1>8, <1>9, <1>10, <1>11

\* WhatsApp accepts a row: only its taker could have sent it, and has not.
LEMMA AcceptCursorInv ==
  ASSUME CursorInv, TypeInv', NEW g \in Goroutine,
         pc[g] = "holding",
         accepted' = [accepted EXCEPT ![row[g]] = @ + 1],
         NEW p \in {"sent", "done"}, pc' = [pc EXCEPT ![g] = p],
         UNCHANGED <<unsent, future, phase, offset, row>>
  PROVE  CursorInv'
<1> USE DEF CursorInv, TypeInv, TypeOK
<1>1. row[g] \in unsent /\ row[g] \in Message /\ row[g] # None
  BY MessageAssumption DEF RowsByProgress
<1>2. accepted[row[g]] = 0
  <2>1. \A h \in Goroutine : row[h] = row[g] => h = g
    BY <1>1 DEF OneTaker
  <2>2. ~(accepted[row[g]] > 0)
    BY <1>1, <2>1 DEF AcceptedByTaker
  <2>3. accepted[row[g]] \in Nat
    BY <1>1
  <2> QED
    BY <2>2, <2>3
<1>3. \A x \in Message : accepted'[x] = IF x = row[g] THEN 1 ELSE accepted[x]
  BY <1>1, <1>2
<1>4. \A h \in Goroutine : pc'[h] = IF h = g THEN p ELSE pc[h]
  OBVIOUS
<1>5. BehindCursor' /\ OneTaker'
  BY DEF BehindCursor, OneTaker
<1>6. RowsByProgress'
  BY <1>4, p # "holding", p # "idle", p # "spawned", p # "checked", <1>1
     DEF RowsByProgress
<1>7. AcceptedByTaker'
  BY <1>3, <1>4 DEF AcceptedByTaker
<1>8. AtMostOneSend'
  BY <1>3 DEF AtMostOneSend
<1> QED
  BY <1>5, <1>6, <1>7, <1>8

\* A goroutine moves on or ends without touching rows: the cursor may only
\* move right.
LEMMA IdleCursorInv ==
  ASSUME CursorInv, TypeInv', NEW g \in Goroutine,
         \A h \in Goroutine : h # g => pc'[h] = pc[h],
         \/ pc[g] = "spawned" /\ pc'[g] \in {"checked", "done"}
         \/ pc[g] \in {"checked", "holding", "sent"} /\ pc'[g] = "done",
         offset' \in {offset, offset + 1},
         UNCHANGED <<unsent, future, phase, row, accepted>>
  PROVE  CursorInv'
<1> USE DEF CursorInv, TypeInv, TypeOK
<1>1. BehindCursor'
  <2> SUFFICES ASSUME NEW h \in Goroutine, row[h] \in unsent
               PROVE  Rank(row[h], unsent) < offset'
    BY DEF BehindCursor
  <2>1. Rank(row[h], unsent) \in Nat
    BY RankType, MessageAssumption
  <2> QED
    BY <2>1 DEF BehindCursor
<1>2. OneTaker' /\ AtMostOneSend'
  BY DEF OneTaker, AtMostOneSend
<1>3. RowsByProgress'
  <2>1. phase \in {"idle", "preparing"} => \A h \in Goroutine : pc'[h] = "idle"
    BY DEF RowsByProgress
  <2>2. ASSUME NEW h \in Goroutine
        PROVE  /\ pc'[h] \in {"idle", "spawned", "checked"} => row[h] = None
               /\ pc'[h] \in {"holding", "sent"} => row[h] \in unsent
               /\ row[h] \notin future
    <3>1. CASE h = g
      BY <3>1 DEF RowsByProgress
    <3>2. CASE h # g
      BY <3>2 DEF RowsByProgress
    <3> QED
      BY <3>1, <3>2
  <2> QED
    BY <2>1, <2>2 DEF RowsByProgress
<1>4. AcceptedByTaker'
  <2> SUFFICES ASSUME NEW x \in Message, accepted[x] > 0
               PROVE  \E h \in Goroutine :
                         row[h] = x /\ pc'[h] \in {"sent", "done"}
    BY DEF AcceptedByTaker
  <2>1. PICK h \in Goroutine : row[h] = x /\ pc[h] \in {"sent", "done"}
    BY DEF AcceptedByTaker
  <2>2. pc'[h] \in {"sent", "done"}
    <3>1. CASE h = g
      BY <2>1, <3>1
    <3>2. CASE h # g
      BY <2>1, <3>2
    <3> QED
      BY <3>1, <3>2
  <2> QED
    BY <2>1, <2>2
<1> QED
  BY <1>1, <1>2, <1>3, <1>4

\* The caller's own steps do not touch rows, cursor or goroutines.
LEMMA CallerCursorInv ==
  ASSUME CursorInv, TypeInv',
         phase' \in {"idle", "preparing"} => phase \in {"idle", "preparing"},
         UNCHANGED <<unsent, future, offset, pc, row, accepted>>
  PROVE  CursorInv'
BY DEF CursorInv, BehindCursor, OneTaker, RowsByProgress, AcceptedByTaker,
       AtMostOneSend

\* Starting the goroutines: none of them has a row yet.
LEMMA SpawnCursorInv ==
  ASSUME CursorInv, TypeInv', Spawn
  PROVE  CursorInv'
<1> USE DEF CursorInv, TypeInv, TypeOK
<1>1. \A h \in Goroutine : pc[h] = "idle" /\ row[h] = None
  BY DEF Spawn, RowsByProgress
<1>2. \A h \in Goroutine : pc'[h] \in {"spawned", "idle"}
  BY DEF Spawn
<1>3. /\ UNCHANGED <<unsent, future, offset, row, accepted>>
      /\ phase' = "sending"
  BY DEF Spawn, db
<1>4. BehindCursor' /\ OneTaker' /\ AtMostOneSend'
  BY <1>3 DEF BehindCursor, OneTaker, AtMostOneSend
<1>5. RowsByProgress'
  BY <1>1, <1>2, <1>3 DEF RowsByProgress
<1>6. AcceptedByTaker'
  BY <1>1, <1>3 DEF AcceptedByTaker
<1> QED
  BY <1>4, <1>5, <1>6

\* A sent row leaves the unsent rows and the cursor follows: the rows before
\* it were before the cursor by at least two.
LEMMA LinkCursorInv ==
  ASSUME CursorInv, TypeInv', NEW g \in Goroutine, Link(g)
  PROVE  CursorInv'
<1> USE DEF CursorInv, TypeInv, TypeOK
<1>1. /\ pc[g] = "sent" /\ unsent' = unsent \ {row[g]}
      /\ offset' = offset - 1 /\ pc' = [pc EXCEPT ![g] = "done"]
      /\ UNCHANGED <<future, phase, row, accepted>>
  BY DEF Link, Finish, run
<1>2. row[g] \in unsent /\ row[g] \in Nat /\ row[g] # None
  BY <1>1, MessageAssumption DEF RowsByProgress
<1>3. \A h \in Goroutine : row[h] = row[g] => h = g
  BY <1>2 DEF OneTaker
<1>4. \A h \in Goroutine : pc'[h] = IF h = g THEN "done" ELSE pc[h]
  BY <1>1
<1>5. BehindCursor'
  <2> SUFFICES ASSUME NEW h \in Goroutine, row[h] \in unsent \ {row[g]}
               PROVE  Rank(row[h], unsent \ {row[g]}) < offset - 1
    BY <1>1 DEF BehindCursor
  <2>1. /\ Rank(row[h], unsent) \in Nat /\ Rank(row[g], unsent) \in Nat
        /\ row[h] \in Nat
    BY <1>2, RankType, MessageAssumption
  <2>2. Rank(row[h], unsent) < offset /\ Rank(row[g], unsent) < offset
    BY <1>2 DEF BehindCursor
  <2>3. Rank(row[h], unsent \ {row[g]}) =
          IF row[g] < row[h] THEN Rank(row[h], unsent) - 1
                             ELSE Rank(row[h], unsent)
    BY <1>2, RankRemove
  <2>4. CASE row[g] < row[h]
    BY <2>1, <2>2, <2>3, <2>4
  <2>5. CASE row[h] < row[g]
    <3>1. Rank(row[h], unsent) < Rank(row[g], unsent)
      BY <1>2, <2>5, RankMonotone
    <3>2. ~(row[g] < row[h])
      BY <1>2, <2>1, <2>5, MessageAssumption
    <3>3. Rank(row[h], unsent \ {row[g]}) = Rank(row[h], unsent)
      BY <2>3, <3>2
    <3>4. offset \in Int
      BY <1>2
    <3> QED
      BY <2>1, <2>2, <3>1, <3>3, <3>4
  <2> QED
    BY <1>2, <2>1, <2>4, <2>5
<1>6. OneTaker' /\ AtMostOneSend'
  BY <1>1 DEF OneTaker, AtMostOneSend
<1>7. RowsByProgress'
  BY <1>1, <1>2, <1>3, <1>4 DEF RowsByProgress
<1>8. AcceptedByTaker'
  BY <1>1, <1>4 DEF AcceptedByTaker
<1> QED
  BY <1>5, <1>6, <1>7, <1>8

\* A new row that sorts after every taken row leaves their places alone.
LEMMA InsertCursorInv ==
  ASSUME CursorInv, TypeInv', NEW m \in Message, InsertMessage(m),
         \A t \in TakenUnsent : t < m
  PROVE  CursorInv'
<1> USE DEF CursorInv, TypeInv, TypeOK
<1>1. /\ m \in future /\ future' = future \ {m} /\ unsent' = unsent \cup {m}
      /\ UNCHANGED <<phase, offset, pc, row, accepted>>
  BY DEF InsertMessage, run
<1>2. BehindCursor'
  <2> SUFFICES ASSUME NEW h \in Goroutine, row[h] \in unsent \cup {m}
               PROVE  Rank(row[h], unsent \cup {m}) < offset
    BY <1>1 DEF BehindCursor
  <2>1. row[h] \in unsent /\ row[h] < m
    BY <1>1 DEF RowsByProgress, TakenUnsent
  <2>2. Rank(row[h], unsent \cup {m}) = Rank(row[h], unsent)
    BY <2>1, RankInsert
  <2> QED
    BY <2>1, <2>2 DEF BehindCursor
<1>3. OneTaker' /\ AtMostOneSend' /\ AcceptedByTaker'
  BY <1>1 DEF OneTaker, AtMostOneSend, AcceptedByTaker
<1>4. RowsByProgress'
  BY <1>1 DEF RowsByProgress
<1> QED
  BY <1>2, <1>3, <1>4

\* Deleting a row nobody is busy with moves the later rows to the left.
LEMMA DeleteCursorInv ==
  ASSUME CursorInv, TypeInv', NEW m \in Message, DeleteMessage(m),
         \A g \in Goroutine : pc[g] \in {"holding", "sent"} => row[g] # m
  PROVE  CursorInv'
<1> USE DEF CursorInv, TypeInv, TypeOK
<1>1. /\ m \in unsent /\ unsent' = unsent \ {m}
      /\ UNCHANGED <<future, phase, offset, pc, row, accepted>>
  BY DEF DeleteMessage, run
<1>2. BehindCursor'
  <2> SUFFICES ASSUME NEW h \in Goroutine, row[h] \in unsent \ {m}
               PROVE  Rank(row[h], unsent \ {m}) < offset
    BY <1>1 DEF BehindCursor
  <2>1. Rank(row[h], unsent) \in Nat
    BY RankType, MessageAssumption
  <2>2. Rank(row[h], unsent \ {m}) =
          IF m < row[h] THEN Rank(row[h], unsent) - 1
                        ELSE Rank(row[h], unsent)
    BY <1>1, RankRemove
  <2>3. Rank(row[h], unsent) < offset
    BY DEF BehindCursor
  <2> QED
    BY <2>1, <2>2, <2>3
<1>3. OneTaker' /\ AtMostOneSend' /\ AcceptedByTaker'
  BY <1>1 DEF OneTaker, AtMostOneSend, AcceptedByTaker
<1>4. RowsByProgress'
  BY <1>1 DEF RowsByProgress
<1> QED
  BY <1>2, <1>3, <1>4

LEMMA OrderlyStep == OrderlyNext => Next
BY DEF OrderlyNext, OrderlyEdit, Next

LEMMA NextCursorInv == CursorInv /\ [OrderlyNext]_vars => CursorInv'
<1> SUFFICES ASSUME CursorInv, [OrderlyNext]_vars
             PROVE  CursorInv'
  OBVIOUS
<1>0. TypeInv'
  BY OrderlyStep, NextTypeInv DEF CursorInv
<1> USE DEF db, run, log
<1>1. CASE Start
  BY <1>0, <1>1, CallerCursorInv DEF Start
<1>2. CASE GiveUp
  BY <1>0, <1>2, CallerCursorInv DEF GiveUp, Return
<1>3. CASE Spawn
  BY <1>0, <1>3, SpawnCursorInv
<1>4. CASE Consume
  BY <1>0, <1>4, CallerCursorInv DEF Consume, Return
<1>5. CASE Complete
  BY <1>0, <1>5, CallerCursorInv DEF Complete, Return
<1>6. CASE Cancel
  BY <1>0, <1>6, CallerCursorInv DEF Cancel
<1>7. ASSUME NEW g \in Goroutine, GoroutineStep(g)
      PROVE  CursorInv'
  <2>0. pc \in [Goroutine -> Progress]
    BY DEF CursorInv, TypeInv, TypeOK
  <2>1. CASE CheckContext(g)
    BY <1>0, <2>0, <2>1, IdleCursorInv DEF CheckContext
  <2>2. CASE Take(g)
    BY <1>0, <2>2, TakeCursorInv
  <2>3. CASE TakeNothing(g)
    BY <1>0, <2>0, <2>3, IdleCursorInv DEF TakeNothing, Finish
  <2>4. CASE TakeFails(g)
    BY <1>0, <2>0, <2>4, IdleCursorInv DEF TakeFails, Finish
  <2>5. CASE RejectRow(g)
    BY <1>0, <2>0, <2>5, IdleCursorInv DEF RejectRow, Finish
  <2>6. CASE SendFails(g)
    BY <1>0, <2>0, <2>6, IdleCursorInv DEF SendFails, Finish
  <2>7. CASE SendAccepted(g)
    BY <1>0, <2>7, AcceptCursorInv DEF SendAccepted
  <2>8. CASE StoreFails(g)
    BY <1>0, <2>8, AcceptCursorInv DEF StoreFails, Finish
  <2>9. CASE Link(g)
    BY <1>0, <2>9, LinkCursorInv
  <2>10. CASE LinkFails(g)
    BY <1>0, <2>0, <2>10, IdleCursorInv DEF LinkFails, Finish
  <2> QED
    BY <1>7, <2>1, <2>2, <2>3, <2>4, <2>5, <2>6, <2>7, <2>8, <2>9, <2>10
       DEF GoroutineStep
<1>8. ASSUME NEW m \in Message, OrderlyEdit(m)
      PROVE  CursorInv'
  BY <1>0, <1>8, InsertCursorInv, DeleteCursorInv DEF OrderlyEdit
<1>9. CASE UNCHANGED vars
  BY <1>0, <1>9, CallerCursorInv DEF vars
<1> QED
  BY <1>1, <1>2, <1>3, <1>4, <1>5, <1>6, <1>7, <1>8, <1>9
     DEF OrderlyNext, RunStep

\* SendWhatsAppCampaignMessage hands every row to WhatsApp at most once in a
\* run, for any number of rows and goroutines and whatever fails, as long as
\* rows inserted during the run sort after the taken ones and no row is
\* deleted while a goroutine is busy with it.
THEOREM NoRowIsSentTwice == OrderlySpec => []AtMostOneSend
<1>1. CursorInv => AtMostOneSend
  BY DEF CursorInv
<1> QED
  BY <1>1, InitCursorInv, NextCursorInv, PTL DEF OrderlySpec

-----------------------------------------------------------------------------
(* Counting.  Every goroutine that has not looked for a row yet is matched  *)
(* by an unsent row at or behind the cursor.  This needs no orderly edits,  *)
(* only that no row is deleted.                                             *)

Waiting == {g \in Goroutine : pc[g] \in {"spawned", "checked"}}

EnoughRows ==
    deleted = {} => Cardinality(Waiting) + offset <= Cardinality(unsent)

NotStarted ==
    phase \in {"idle", "preparing"} =>
        offset = 0 /\ \A g \in Goroutine : pc[g] = "idle"

CountInv == TypeInv /\ EnoughRows /\ NotStarted

LEMMA FiniteWaiting ==
  /\ IsFiniteSet(Waiting) /\ Cardinality(Waiting) \in Nat
  /\ IsFiniteSet(Waiting') /\ Cardinality(Waiting') \in Nat
<1>1. IsFiniteSet(Goroutine)
  BY FS_Interval, FS_CardinalityType, MessageAssumption DEF Goroutine
<1>2. Waiting \subseteq Goroutine /\ Waiting' \subseteq Goroutine
  BY DEF Waiting
<1> QED
  BY <1>1, <1>2, FS_Subset, FS_CardinalityType

LEMMA InitCountInv == Init => CountInv
<1> SUFFICES ASSUME Init PROVE CountInv
  OBVIOUS
<1>1. Waiting = {} /\ offset = 0 /\ unsent \in SUBSET Message
  BY DEF Init, Waiting
<1>2. Cardinality(Waiting) = 0 /\ Cardinality(unsent) \in Nat
  BY <1>1, FS_EmptySet, FiniteRows, FS_CardinalityType
<1>3. EnoughRows
  BY <1>1, <1>2 DEF EnoughRows
<1>4. NotStarted
  BY DEF Init, NotStarted
<1> QED
  BY <1>3, <1>4, InitTypeInv DEF CountInv

\* A waiting goroutine looks for a row, found or not: one fewer waits, and the
\* cursor is one further.  One that sees the cancelled context just leaves.
LEMMA LeaveWaiting ==
  ASSUME CountInv, TypeInv', NEW g \in Waiting, phase \notin {"idle", "preparing"},
         UNCHANGED <<unsent, deleted, phase>>, offset' \in {offset, offset + 1},
         Waiting' = Waiting \ {g}
  PROVE  CountInv'
<1>1. Cardinality(Waiting') = Cardinality(Waiting) - 1
  BY FiniteWaiting, FS_RemoveElement
<1>2. offset \in Int /\ Cardinality(unsent) \in Nat
  BY FiniteRows, FS_CardinalityType DEF CountInv, TypeInv, TypeOK
<1>3. EnoughRows'
  BY <1>1, <1>2, FiniteWaiting DEF CountInv, EnoughRows
<1>4. NotStarted'
  BY DEF NotStarted
<1> QED
  BY <1>3, <1>4 DEF CountInv

\* Steps after the row was taken, and the caller's: nobody starts waiting.
LEMMA KeepWaiting ==
  ASSUME CountInv, TypeInv', Waiting' = Waiting,
         UNCHANGED <<unsent, deleted, offset>>,
         NotStarted'
  PROVE  CountInv'
BY DEF CountInv, EnoughRows

LEMMA GoroutineCountInv ==
  ASSUME CountInv, TypeInv', NEW g \in Goroutine, GoroutineStep(g)
  PROVE  CountInv'
<1> USE DEF db, run, log
<1>1. /\ pc \in [Goroutine -> Progress] /\ unsent \in SUBSET Message
      /\ offset \in Int
  BY DEF CountInv, TypeInv, TypeOK
<1>2. phase \notin {"idle", "preparing"}
  <2>1. pc[g] # "idle"
    BY DEF GoroutineStep, CheckContext, Take, TakeNothing, TakeFails,
           RejectRow, SendFails, SendAccepted, StoreFails, Link, LinkFails
  <2> QED
    BY <2>1 DEF CountInv, NotStarted
<1>3. phase' = phase
  BY DEF GoroutineStep, CheckContext, Take, TakeNothing, TakeFails,
         RejectRow, SendFails, SendAccepted, StoreFails, Link, LinkFails
<1>4. NotStarted'
  BY <1>2, <1>3 DEF NotStarted
<1>5. CASE CheckContext(g)
  <2>1. CASE cancelled
    <3>1. g \in Waiting /\ Waiting' = Waiting \ {g}
      BY <1>1, <1>5, <2>1 DEF CheckContext, Waiting
    <3> QED
      BY <1>2, <1>5, <3>1, LeaveWaiting DEF CheckContext
  <2>2. CASE ~cancelled
    <3>1. Waiting' = Waiting
      BY <1>1, <1>5, <2>2 DEF CheckContext, Waiting
    <3> QED
      BY <1>4, <1>5, <3>1, KeepWaiting DEF CheckContext
  <2> QED
    BY <2>1, <2>2
<1>6. CASE Take(g) \/ TakeNothing(g) \/ TakeFails(g)
  <2>1. g \in Waiting /\ Waiting' = Waiting \ {g}
    BY <1>1, <1>6 DEF Take, TakeNothing, TakeFails, Finish, Waiting
  <2>2. offset' = offset + 1 /\ UNCHANGED <<unsent, deleted, phase>>
    BY <1>6 DEF Take, TakeNothing, TakeFails
  <2> QED
    BY <1>2, <2>1, <2>2, LeaveWaiting
<1>7. CASE \/ RejectRow(g) \/ SendFails(g) \/ SendAccepted(g)
           \/ StoreFails(g) \/ LinkFails(g)
  <2>1. Waiting' = Waiting
    BY <1>1, <1>7 DEF RejectRow, SendFails, SendAccepted, StoreFails,
                      LinkFails, Finish, Waiting
  <2>2. UNCHANGED <<unsent, deleted, offset>>
    BY <1>7 DEF RejectRow, SendFails, SendAccepted, StoreFails, LinkFails
  <2> QED
    BY <1>4, <2>1, <2>2, KeepWaiting
<1>8. CASE Link(g)
  <2>1. Waiting' = Waiting
    BY <1>1, <1>8 DEF Link, Finish, Waiting
  <2>2. /\ unsent' = unsent \ {row[g]} /\ offset' = offset - 1
        /\ deleted' = deleted
    BY <1>8 DEF Link
  <2>3. IsFiniteSet(unsent)
    BY <1>1, FiniteRows
  <2>4. Cardinality(unsent) \in Nat
    BY <2>3, FS_CardinalityType
  <2>5. Cardinality(unsent \ {row[g]}) =
          IF row[g] \in unsent THEN Cardinality(unsent) - 1
                               ELSE Cardinality(unsent)
    BY <2>3, FS_RemoveElement
  <2>6. EnoughRows'
    BY <1>1, <2>1, <2>2, <2>4, <2>5, FiniteWaiting DEF CountInv, EnoughRows
  <2> QED
    BY <1>4, <2>6 DEF CountInv
<1> QED
  BY <1>5, <1>6, <1>7, <1>8 DEF GoroutineStep

LEMMA SpawnCountInv ==
  ASSUME CountInv, TypeInv', Spawn
  PROVE  CountInv'
<1>1. unsent \in SUBSET Message /\ offset = 0 /\ phase' = "sending"
      /\ UNCHANGED <<unsent, deleted, offset>>
  BY DEF Spawn, CountInv, NotStarted, TypeInv, TypeOK, db
<1>2. /\ Cardinality(unsent) \in Nat /\ Cardinality(Message) \in Nat
      /\ Cardinality(unsent) <= Cardinality(Message)
  BY <1>1, FiniteRows, FS_Subset, FS_CardinalityType, MessageAssumption
<1>3. Waiting' = 1..Cardinality(unsent)
  BY <1>2 DEF Spawn, Waiting, Goroutine
<1>4. Cardinality(Waiting') = Cardinality(unsent)
  BY <1>2, <1>3, FS_Interval
<1>5. EnoughRows'
  BY <1>1, <1>2, <1>4 DEF EnoughRows
<1>6. NotStarted'
  BY <1>1 DEF NotStarted
<1> QED
  BY <1>5, <1>6 DEF CountInv

LEMMA NextCountInv == CountInv /\ [Next]_vars => CountInv'
<1> SUFFICES ASSUME CountInv, [Next]_vars
             PROVE  CountInv'
  OBVIOUS
<1>0. TypeInv'
  BY NextTypeInv DEF CountInv
<1> USE DEF db, run, log
<1>1. CASE Start \/ GiveUp \/ Consume \/ Complete \/ Cancel \/ UNCHANGED vars
  <2>1. UNCHANGED <<unsent, deleted, offset, pc>>
    BY <1>1 DEF Start, GiveUp, Consume, Complete, Cancel, vars
  <2>2. phase' \in {"idle", "preparing"} => phase \in {"idle", "preparing"}
    BY <1>1 DEF Start, GiveUp, Consume, Complete, Cancel, Return, vars
  <2>3. Waiting' = Waiting /\ NotStarted'
    BY <2>1, <2>2 DEF CountInv, NotStarted, Waiting
  <2> QED
    BY <1>0, <2>1, <2>3, KeepWaiting
<1>2. CASE Spawn
  BY <1>0, <1>2, SpawnCountInv
<1>3. ASSUME NEW g \in Goroutine, GoroutineStep(g)
      PROVE  CountInv'
  BY <1>0, <1>3, GoroutineCountInv
<1>4. ASSUME NEW m \in Message, InsertMessage(m)
      PROVE  CountInv'
  <2>1. /\ unsent' = unsent \cup {m} /\ UNCHANGED <<deleted, offset, pc, phase>>
    BY <1>4 DEF InsertMessage
  <2>2. Waiting' = Waiting /\ NotStarted'
    BY <2>1 DEF CountInv, NotStarted, Waiting
  <2>3. unsent \in SUBSET Message /\ offset \in Int
    BY DEF CountInv, TypeInv, TypeOK
  <2>4. /\ Cardinality(unsent) \in Nat
        /\ Cardinality(unsent) <= Cardinality(unsent')
        /\ Cardinality(unsent') \in Nat
    <3>1. IsFiniteSet(unsent)
      BY <2>3, FiniteRows
    <3>2. Cardinality(unsent) \in Nat
      BY <3>1, FS_CardinalityType
    <3>3. Cardinality(unsent \cup {m}) =
            IF m \in unsent THEN Cardinality(unsent) ELSE Cardinality(unsent) + 1
      BY <3>1, FS_AddElement
    <3> QED
      BY <2>1, <3>2, <3>3
  <2>5. EnoughRows'
    BY <2>1, <2>2, <2>3, <2>4, FiniteWaiting DEF CountInv, EnoughRows
  <2> QED
    BY <1>0, <2>2, <2>5 DEF CountInv
<1>5. ASSUME NEW m \in Message, DeleteMessage(m)
      PROVE  CountInv'
  <2>1. deleted' # {} /\ UNCHANGED <<offset, pc, phase>>
    BY <1>5 DEF DeleteMessage
  <2> QED
    BY <1>0, <2>1 DEF CountInv, EnoughRows, NotStarted
<1> QED
  BY <1>1, <1>2, <1>3, <1>4, <1>5 DEF Next, RunStep

LEMMA CountImpliesRows == CountInv => NeverRunsDry
<1> SUFFICES ASSUME CountInv, deleted = {},
                    NEW g \in Goroutine, pc[g] = "checked"
             PROVE  offset < Cardinality(unsent)
  BY DEF NeverRunsDry
<1>1. g \in Waiting
  BY DEF Waiting
<1>2. Cardinality(Waiting) # 0
  BY <1>1, FiniteWaiting, FS_EmptySet
<1>3. offset \in Int /\ Cardinality(unsent) \in Nat
  BY FiniteRows, FS_CardinalityType DEF CountInv, TypeInv, TypeOK
<1> QED
  BY <1>2, <1>3, FiniteWaiting DEF CountInv, EnoughRows

\* As long as no row is deleted under a run, no goroutine of it meets the "no
\* messages to send" error, although failed rows stay in the set it counts.
THEOREM RunNeverRunsDry == Spec => []NeverRunsDry
BY InitCountInv, NextCountInv, CountImpliesRows, PTL DEF Spec

-----------------------------------------------------------------------------
(* A run that returns leaves no goroutine behind.                          *)

NoEmptyResult ==
    deleted = {} => \A i \in 1..Len(errCh) : errCh[i] # "empty"

PhaseFollowsFlag == phase \in {"preparing", "sending"} => isSending

EndedWhenReturned ==
    (deleted = {} /\ phase = "returned") =>
        \A g \in Goroutine : pc[g] \in {"idle", "done"}

QuietInv ==
    /\ CountInv /\ NoEmptyResult /\ PhaseFollowsFlag /\ EndedWhenReturned

\* A goroutine of a run whose rows are never deleted posts no "empty", and is
\* at work only while the caller waits for results.
LEMMA GoroutineQuietInv ==
  ASSUME QuietInv, CountInv', NEW g \in Goroutine, GoroutineStep(g)
  PROVE  QuietInv'
<1> USE DEF db, run, log
<1>1. UNCHANGED <<phase, isSending, deleted>>
  BY DEF GoroutineStep, CheckContext, Take, TakeNothing, TakeFails,
         RejectRow, SendFails, SendAccepted, StoreFails, Link, LinkFails
<1>2. PhaseFollowsFlag'
  BY <1>1 DEF QuietInv, PhaseFollowsFlag
<1>3. EndedWhenReturned'
  <2>1. pc[g] \notin {"idle", "done"}
    BY DEF GoroutineStep, CheckContext, Take, TakeNothing, TakeFails,
           RejectRow, SendFails, SendAccepted, StoreFails, Link, LinkFails
  <2> QED
    BY <1>1, <2>1 DEF QuietInv, EndedWhenReturned
<1>4. NoEmptyResult'
  <2> SUFFICES ASSUME deleted = {}
               PROVE  \A i \in 1..Len(errCh') : errCh'[i] # "empty"
    BY <1>1 DEF NoEmptyResult
  <2>1. \A i \in 1..Len(errCh) : errCh[i] # "empty"
    BY DEF QuietInv, NoEmptyResult
  <2>2. errCh \in Seq(SendResult)
    BY DEF QuietInv, CountInv, TypeInv, TypeOK
  <2>3. CASE errCh' = errCh
    BY <2>1, <2>3
  <2>4. ASSUME NEW err \in {"ok", "error"}, errCh' = Append(errCh, err)
        PROVE  \A i \in 1..Len(errCh') : errCh'[i] # "empty"
    <3>1. /\ Len(errCh') = Len(errCh) + 1 /\ errCh'[Len(errCh) + 1] = err
          /\ \A i \in 1..Len(errCh) : errCh'[i] = errCh[i]
          /\ Len(errCh) \in Nat
      BY <2>2, <2>4, AppendProperties, LenProperties DEF SendResult
    <3> QED
      BY <2>1, <3>1
  <2>5. ~TakeNothing(g)
    <3>1. NeverRunsDry /\ offset \in Int /\ Cardinality(unsent) \in Nat
      BY CountImpliesRows, FiniteRows, FS_CardinalityType
         DEF QuietInv, CountInv, TypeInv, TypeOK
    <3> QED
      BY <3>1 DEF NeverRunsDry, TakeNothing
  <2>6. \/ errCh' = errCh
        \/ \E err \in {"ok", "error"} : errCh' = Append(errCh, err)
    BY <2>5 DEF GoroutineStep, CheckContext, Take, TakeFails, RejectRow,
                SendFails, SendAccepted, StoreFails, Link, LinkFails, Finish
  <2> QED
    BY <2>3, <2>4, <2>6
<1> QED
  BY <1>2, <1>3, <1>4 DEF QuietInv

LEMMA NextQuietInv == QuietInv /\ [Next]_vars => QuietInv'
<1> SUFFICES ASSUME QuietInv, [Next]_vars
             PROVE  QuietInv'
  OBVIOUS
<1>0. CountInv'
  BY NextCountInv DEF QuietInv
<1> USE DEF db, run, QuietInv, NoEmptyResult, PhaseFollowsFlag, EndedWhenReturned
<1>1. CASE Start \/ Cancel \/ UNCHANGED vars
  BY <1>0, <1>1 DEF Start, Cancel, vars
<1>2. CASE GiveUp
  BY <1>0, <1>2 DEF GiveUp, Return, CountInv, NotStarted
<1>3. CASE Spawn
  BY <1>0, <1>3 DEF Spawn
<1>4. CASE Consume
  <2>1. /\ phase = "sending" /\ errCh # <<>> /\ errCh' = Tail(errCh)
        /\ UNCHANGED <<deleted, pc>>
    BY <1>4 DEF Consume
  <2>2. errCh \in Seq(SendResult)
    BY DEF CountInv, TypeInv, TypeOK
  <2>3. /\ Len(Tail(errCh)) = Len(errCh) - 1 /\ Len(errCh) \in Nat
        /\ Len(errCh) # 0 /\ Head(errCh) = errCh[1]
        /\ \A i \in 1..Len(Tail(errCh)) : Tail(errCh)[i] = errCh[i + 1]
    BY <2>1, <2>2, HeadTailProperties, LenProperties, EmptySeq
  <2>4. NoEmptyResult'
    BY <2>1, <2>3
  <2>5. CASE Head(errCh) = "empty"
    <3>1. deleted # {}
      BY <2>3, <2>5
    <3>2. phase' = "returned"
      BY <1>4, <2>5 DEF Consume, Return
    <3> QED
      BY <1>0, <2>1, <2>4, <3>1, <3>2
  <2>6. CASE Head(errCh) # "empty"
    BY <1>0, <1>4, <2>1, <2>4, <2>6 DEF Consume
  <2> QED
    BY <2>5, <2>6
<1>5. CASE Complete
  BY <1>0, <1>5 DEF Complete, Return
<1>6. ASSUME NEW g \in Goroutine, GoroutineStep(g)
      PROVE  QuietInv'
  BY <1>0, <1>6, GoroutineQuietInv
<1>7. ASSUME NEW m \in Message, InsertMessage(m)
      PROVE  QuietInv'
  BY <1>0, <1>7 DEF InsertMessage
<1>8. ASSUME NEW m \in Message, DeleteMessage(m)
      PROVE  QuietInv'
  <2>1. deleted' # {} /\ UNCHANGED <<phase, isSending>>
    BY <1>8 DEF DeleteMessage
  <2> QED
    BY <1>0, <2>1
<1> QED
  BY <1>1, <1>2, <1>3, <1>4, <1>5, <1>6, <1>7, <1>8 DEF Next, RunStep

\* When the sending flag is clear, no goroutine of the run is at work any more:
\* a second run cannot meet the first one (as long as no row was deleted).
THEOREM NobodyOutlivesTheRun == Spec => []QuietWhenNotSending
<1>1. Init => QuietInv
  <2> SUFFICES ASSUME Init PROVE QuietInv
    OBVIOUS
  <2>1. errCh = <<>> /\ phase = "idle"
    BY DEF Init
  <2> QED
    BY <2>1, InitCountInv, EmptySeq
       DEF QuietInv, NoEmptyResult, PhaseFollowsFlag, EndedWhenReturned
<1>2. QuietInv => QuietWhenNotSending
  <2> SUFFICES ASSUME QuietInv, deleted = {}, ~isSending
               PROVE  \A g \in Goroutine : pc[g] \in {"idle", "done"}
    BY DEF QuietWhenNotSending
  <2>1. phase \in {"idle", "returned"}
    BY DEF QuietInv, PhaseFollowsFlag, CountInv, TypeInv, TypeOK
  <2> QED
    BY <2>1 DEF QuietInv, EndedWhenReturned, CountInv, NotStarted
<1> QED
  BY <1>1, <1>2, NextQuietInv, PTL DEF Spec
-----------------------------------------------------------------------------
(* Accounting.  What has been counted and what waits to be counted is what *)
(* was linked, and a goroutine that ended left its row among the sent      *)
(* rows, the errors or the rows without sender data.                       *)

\* The places of a sequence of results that hold a success.
Oks(s) == {i \in 1..Len(s) : s[i] = "ok"}

SuccessesCounted ==
    deleted = {} =>
        results.successes + Cardinality(Oks(errCh)) = Cardinality(GetSentMessages)

EndedIsAccounted ==
    deleted = {} =>
        \A g \in Goroutine : pc[g] = "done" /\ row[g] # None =>
            row[g] \in GetSentMessages \cup GetErrors \cup NoSenderData
                         \cup unrecorded

\* The goroutines that ended, which all post a result unless the run was
\* cancelled.
Ended == {g \in Goroutine : pc[g] = "done"}

PostsCounted ==
    ~cancelled => results.successes + results.errors + Len(errCh)
                    = Cardinality(Ended)

\* Who could not write an error ended, and left its row where it was.
UnrecordedStay ==
    \A m \in unrecorded :
        /\ m \in unsent \cup deleted
        /\ \E g \in Goroutine : pc[g] = "done" /\ row[g] = m

StartedAreCounted ==
    \A g \in Goroutine : g > Cardinality(batch) => pc[g] = "idle"

CompletedIsQuiet ==
    outcome = "completed" =>
        /\ phase = "returned" /\ errCh = <<>>
        /\ \A g \in Goroutine : pc[g] \in {"idle", "done"}

AccountInv ==
    /\ CursorInv /\ SuccessesCounted /\ EndedIsAccounted /\ CompletedIsQuiet
    /\ PostsCounted /\ UnrecordedStay /\ StartedAreCounted

LEMMA FiniteOks ==
  ASSUME NEW s \in Seq(SendResult)
  PROVE  IsFiniteSet(Oks(s)) /\ Cardinality(Oks(s)) \in Nat
<1>1. IsFiniteSet(1..Len(s))
  BY LenProperties, FS_Interval
<1> QED
  BY <1>1, FS_Subset, FS_CardinalityType DEF Oks

\* A posted result is one more success, or none.
LEMMA AppendOks ==
  ASSUME NEW s \in Seq(SendResult), NEW err \in SendResult
  PROVE  Cardinality(Oks(Append(s, err))) =
           Cardinality(Oks(s)) + IF err = "ok" THEN 1 ELSE 0
<1> DEFINE n == Len(s) + 1
<1>1. /\ Len(s) \in Nat /\ Len(Append(s, err)) = n
      /\ Append(s, err)[n] = err
      /\ \A i \in 1..Len(s) : Append(s, err)[i] = s[i]
  BY AppendProperties, LenProperties
<1>2. Oks(Append(s, err)) = IF err = "ok" THEN Oks(s) \cup {n} ELSE Oks(s)
  BY <1>1 DEF Oks
<1>3. n \notin Oks(s)
  BY <1>1 DEF Oks
<1>4. Cardinality(Oks(s) \cup {n}) = Cardinality(Oks(s)) + 1
  BY <1>3, FiniteOks, FS_AddElement
<1> QED
  BY <1>2, <1>4, FiniteOks

\* Consuming a result takes the places of the others down by one.
LEMMA TailOks ==
  ASSUME NEW s \in Seq(SendResult), s # <<>>
  PROVE  Cardinality(Oks(s)) =
           Cardinality(Oks(Tail(s))) + IF Head(s) = "ok" THEN 1 ELSE 0
<1> DEFINE later == Oks(s) \ {1}
           f == [i \in later |-> i - 1]
<1>1. /\ Tail(s) \in Seq(SendResult)
      /\ Len(Tail(s)) = Len(s) - 1 /\ Len(s) \in Nat /\ Len(s) # 0
      /\ Head(s) = s[1]
      /\ \A i \in 1..Len(Tail(s)) : Tail(s)[i] = s[i + 1]
  BY HeadTailProperties, LenProperties, EmptySeq
<1>2. \A i \in later : i \in 2..Len(s) /\ s[i] = "ok"
  BY <1>1 DEF Oks
<1>3. f \in [later -> Oks(Tail(s))]
  <2> SUFFICES ASSUME NEW i \in later
               PROVE  i - 1 \in Oks(Tail(s))
    OBVIOUS
  <2>1. i - 1 \in 1..Len(Tail(s)) /\ (i - 1) + 1 = i
    BY <1>1, <1>2
  <2>2. Tail(s)[i - 1] = s[(i - 1) + 1]
    BY <1>1, <2>1
  <2> QED
    BY <1>2, <2>1, <2>2 DEF Oks
<1>4. \A a, b \in later : f[a] = f[b] => a = b
  BY <1>2
<1>5. ASSUME NEW j \in Oks(Tail(s))
      PROVE  \E i \in later : f[i] = j
  <2>1. j \in 1..Len(Tail(s)) /\ Tail(s)[j] = "ok"
    BY <1>5 DEF Oks
  <2>2. j + 1 \in 1..Len(s) /\ s[j + 1] = "ok" /\ j + 1 # 1 /\ (j + 1) - 1 = j
    BY <1>1, <2>1
  <2>3. j + 1 \in later
    BY <2>2 DEF Oks
  <2> QED
    BY <2>2, <2>3
<1>6. f \in Bijection(later, Oks(Tail(s)))
  <2> HIDE DEF later, f
  <2> QED
    BY <1>3, <1>4, <1>5, Fun_IsBij
<1>7. /\ IsFiniteSet(later)
      /\ Cardinality(later) =
           IF 1 \in Oks(s) THEN Cardinality(Oks(s)) - 1 ELSE Cardinality(Oks(s))
  BY FiniteOks, FS_RemoveElement
<1>8. Cardinality(Oks(Tail(s))) = Cardinality(later)
  <2> HIDE DEF later, f
  <2>1. ExistsBijection(later, Oks(Tail(s)))
    BY <1>6 DEF ExistsBijection
  <2> QED
    BY <1>7, <2>1, FS_Bijection
<1>9. 1 \in Oks(s) <=> Head(s) = "ok"
  BY <1>1 DEF Oks
<1> QED
  BY <1>7, <1>8, <1>9, FiniteOks
LEMMA SentRows ==
  GetSentMessages = {m \in Message : m \notin future /\ m \notin deleted
                                     /\ m \notin unsent}
BY DEF GetSentMessages, GetMessages, GetUnsentMessages

LEMMA FiniteSent ==
  IsFiniteSet(GetSentMessages) /\ Cardinality(GetSentMessages) \in Nat
<1>1. GetSentMessages \in SUBSET Message
  BY SentRows
<1> QED
  BY <1>1, FiniteRows, FS_CardinalityType

\* A goroutine that goes on without a result, its row not judged yet.
LEMMA SilentAccountInv ==
  ASSUME AccountInv, NEW g \in Goroutine,
         CheckContext(g) \/ Take(g) \/ SendAccepted(g)
  PROVE  SuccessesCounted' /\ EndedIsAccounted'
<1> USE DEF db, run, log
<1>1. /\ UNCHANGED <<unsent, future, deleted, errCh, results, sendErrors,
                     unrecorded>>
      /\ pc \in [Goroutine -> Progress] /\ row \in [Goroutine -> Message \cup {None}]
  BY DEF CheckContext, Take, SendAccepted, AccountInv, CursorInv, TypeInv, TypeOK
<1>2. GetSentMessages' = GetSentMessages /\ GetErrors' = GetErrors
  BY <1>1 DEF GetSentMessages, GetMessages, GetUnsentMessages, GetErrors
<1>3. SuccessesCounted'
  BY <1>1, <1>2 DEF AccountInv, SuccessesCounted
<1>4. /\ \A h \in Goroutine : h # g => pc'[h] = pc[h] /\ row'[h] = row[h]
      /\ pc'[g] = "done" => row'[g] = None
  BY <1>1 DEF CheckContext, Take, SendAccepted, AccountInv, CursorInv,
              RowsByProgress
<1> QED
  BY <1>1, <1>2, <1>3, <1>4 DEF AccountInv, EndedIsAccounted

\* A goroutine that fails: it had no row, or its row cannot be sent or is
\* among the errors now.
LEMMA FailedAccountInv ==
  ASSUME AccountInv, NEW g \in Goroutine,
         \/ TakeNothing(g) \/ TakeFails(g) \/ RejectRow(g) \/ SendFails(g)
         \/ StoreFails(g) \/ LinkFails(g)
  PROVE  SuccessesCounted' /\ EndedIsAccounted'
<1> USE DEF db, run, log
<1>1. /\ UNCHANGED <<unsent, future, deleted, results, row>>
      /\ sendErrors \subseteq sendErrors' /\ unrecorded \subseteq unrecorded'
      /\ pc' = [pc EXCEPT ![g] = "done"]
      /\ \E err \in {"error", "empty"} : errCh' = Append(errCh, err)
  BY DEF TakeNothing, TakeFails, RejectRow, SendFails, StoreFails, LinkFails,
         Finish, RecordSendError
<1>2. errCh \in Seq(SendResult) /\ pc \in [Goroutine -> Progress]
  BY DEF AccountInv, CursorInv, TypeInv, TypeOK
<1>3. Cardinality(Oks(errCh')) = Cardinality(Oks(errCh))
  BY <1>1, <1>2, AppendOks, FiniteOks DEF SendResult
<1>4. GetSentMessages' = GetSentMessages
  BY <1>1 DEF GetSentMessages, GetMessages, GetUnsentMessages
<1>5. SuccessesCounted'
  BY <1>1, <1>3, <1>4 DEF AccountInv, SuccessesCounted
<1>6. \/ row[g] = None \/ row[g] \in NoSenderData
      \/ row[g] \in sendErrors' \cup unrecorded'
  BY DEF TakeNothing, TakeFails, RejectRow, SendFails, StoreFails, LinkFails,
         RecordSendError, AccountInv, CursorInv, RowsByProgress
<1>7. EndedIsAccounted'
  <2> SUFFICES ASSUME deleted = {}, NEW h \in Goroutine, pc'[h] = "done",
                      row[h] # None
               PROVE  row[h] \in GetSentMessages \cup sendErrors' \cup NoSenderData
                                  \cup unrecorded'
    BY <1>1, <1>4 DEF EndedIsAccounted, GetErrors
  <2>1. CASE h = g
    BY <1>6, <2>1
  <2>2. CASE h # g
    BY <1>1, <1>2, <2>2 DEF AccountInv, EndedIsAccounted, GetErrors
  <2> QED
    BY <2>1, <2>2
<1> QED
  BY <1>5, <1>7

\* A linked row is a sent row, and its success waits to be counted.
LEMMA LinkAccountInv ==
  ASSUME AccountInv, NEW g \in Goroutine, Link(g)
  PROVE  SuccessesCounted' /\ EndedIsAccounted'
<1> USE DEF db, run, log
<1>1. /\ unsent' = unsent \ {row[g]} /\ pc[g] = "sent"
      /\ UNCHANGED <<future, deleted, results, row, sendErrors, unrecorded>>
      /\ pc' = [pc EXCEPT ![g] = "done"] /\ errCh' = Append(errCh, "ok")
  BY DEF Link, Finish
<1>2. errCh \in Seq(SendResult) /\ pc \in [Goroutine -> Progress]
      /\ results \in [successes : Nat, errors : Nat] /\ unsent \subseteq Message
  BY DEF AccountInv, CursorInv, TypeInv, TypeOK
<1>3. row[g] \in unsent /\ row[g] \notin future /\ row[g] \in Message
  BY <1>1, <1>2 DEF AccountInv, CursorInv, RowsByProgress
<1>4. Cardinality(Oks(errCh')) = Cardinality(Oks(errCh)) + 1
  BY <1>1, <1>2, AppendOks DEF SendResult
<1>5. deleted = {} => GetSentMessages' = GetSentMessages \cup {row[g]}
  BY <1>1, <1>3 DEF GetSentMessages, GetMessages, GetUnsentMessages
<1>6. row[g] \notin GetSentMessages
  BY <1>3, SentRows
<1>7. Cardinality(GetSentMessages \cup {row[g]}) = Cardinality(GetSentMessages) + 1
  BY <1>6, FiniteSent, FS_AddElement
<1>8. SuccessesCounted'
  <2> SUFFICES ASSUME deleted = {}
               PROVE  results.successes + Cardinality(Oks(errCh'))
                        = Cardinality(GetSentMessages')
    BY <1>1 DEF SuccessesCounted
  <2>1. results.successes + Cardinality(Oks(errCh)) = Cardinality(GetSentMessages)
    BY DEF AccountInv, SuccessesCounted
  <2>2. results.successes \in Nat /\ Cardinality(Oks(errCh)) \in Nat
    BY <1>2, FiniteOks
  <2> QED
    BY <1>4, <1>5, <1>7, <2>1, <2>2
<1>9. EndedIsAccounted'
  <2> SUFFICES ASSUME deleted = {}, NEW h \in Goroutine, pc'[h] = "done",
                      row[h] # None
               PROVE  row[h] \in GetSentMessages' \cup GetErrors \cup NoSenderData
                                  \cup unrecorded
    BY <1>1 DEF EndedIsAccounted, GetErrors
  <2>1. CASE h = g
    BY <1>5, <2>1
  <2>2. CASE h # g
    BY <1>1, <1>2, <1>5, <2>2 DEF AccountInv, EndedIsAccounted
  <2> QED
    BY <2>1, <2>2
<1> QED
  BY <1>8, <1>9

\* A counted result is no longer waiting.
LEMMA ConsumeAccountInv ==
  ASSUME AccountInv, Consume
  PROVE  SuccessesCounted' /\ EndedIsAccounted'
<1> USE DEF db, run, log
<1>1. /\ errCh # <<>> /\ errCh' = Tail(errCh)
      /\ UNCHANGED <<unsent, future, deleted, pc, row, sendErrors, unrecorded>>
      /\ results' = IF Head(errCh) = "ok"
                    THEN [results EXCEPT !.successes = @ + 1]
                    ELSE [results EXCEPT !.errors = @ + 1]
  BY DEF Consume
<1>2. errCh \in Seq(SendResult) /\ results \in [successes : Nat, errors : Nat]
  BY DEF AccountInv, CursorInv, TypeInv, TypeOK
<1>3. results'.successes =
        results.successes + IF Head(errCh) = "ok" THEN 1 ELSE 0
  BY <1>1, <1>2
<1>4. /\ Cardinality(Oks(errCh)) =
           Cardinality(Oks(errCh')) + IF Head(errCh) = "ok" THEN 1 ELSE 0
      /\ Cardinality(Oks(errCh')) \in Nat
  BY <1>1, <1>2, TailOks, FiniteOks, HeadTailProperties
<1>5. GetSentMessages' = GetSentMessages /\ GetErrors' = GetErrors
  BY <1>1 DEF GetSentMessages, GetMessages, GetUnsentMessages, GetErrors
<1>6. SuccessesCounted'
  BY <1>1, <1>2, <1>3, <1>4, <1>5 DEF AccountInv, SuccessesCounted
<1>7. EndedIsAccounted'
  BY <1>1, <1>5 DEF AccountInv, EndedIsAccounted
<1> QED
  BY <1>6, <1>7

\* The caller's other steps, and rows that come and go.
LEMMA OtherAccountInv ==
  ASSUME AccountInv,
         \/ Start \/ GiveUp \/ Spawn \/ Complete \/ Cancel \/ UNCHANGED vars
         \/ \E m \in Message : InsertMessage(m) \/ DeleteMessage(m)
  PROVE  SuccessesCounted' /\ EndedIsAccounted'
<1> USE DEF db, run, log
<1>1. /\ UNCHANGED <<errCh, results, row, sendErrors, unrecorded>>
      /\ \A g \in Goroutine : pc'[g] = "done" => pc[g] = "done"
  BY DEF Start, GiveUp, Spawn, Complete, Cancel, Return, vars, InsertMessage,
         DeleteMessage
<1>2. deleted' # {} \/ (deleted' = deleted /\ GetSentMessages' = GetSentMessages)
  <2>1. CASE \/ Start \/ GiveUp \/ Spawn \/ Complete \/ Cancel
             \/ UNCHANGED vars
    <3>1. UNCHANGED <<unsent, future, deleted>>
      BY <2>1 DEF Start, GiveUp, Spawn, Complete, Cancel, vars
    <3> QED
      BY <3>1 DEF GetSentMessages, GetMessages, GetUnsentMessages
  <2>2. ASSUME NEW m \in Message, InsertMessage(m)
        PROVE  deleted' = deleted /\ GetSentMessages' = GetSentMessages
    BY <2>2 DEF InsertMessage, GetSentMessages, GetMessages, GetUnsentMessages
  <2>3. ASSUME NEW m \in Message, DeleteMessage(m)
        PROVE  deleted' # {}
    BY <2>3 DEF DeleteMessage
  <2> QED
    BY <2>1, <2>2, <2>3
<1> QED
  BY <1>1, <1>2 DEF AccountInv, SuccessesCounted, EndedIsAccounted, GetErrors

LEMMA NextCompletedIsQuiet ==
  ASSUME AccountInv, [OrderlyNext]_vars
  PROVE  CompletedIsQuiet'
<1> USE DEF db, run, log
<1>1. CASE RunStep
  <2>1. ASSUME NEW g \in Goroutine, GoroutineStep(g)
        PROVE  pc[g] \notin {"idle", "done"} /\ outcome' = outcome
    BY <2>1 DEF GoroutineStep, CheckContext, Take, TakeNothing, TakeFails,
                RejectRow, SendFails, SendAccepted, StoreFails, Link, LinkFails
  <2>2. CASE Start \/ GiveUp \/ Spawn \/ Consume \/ Cancel
    BY <2>2 DEF Start, GiveUp, Spawn, Consume, Cancel, Active, Return,
                AccountInv, CompletedIsQuiet
  <2>3. CASE Complete
    BY <2>3 DEF Complete, Return, CompletedIsQuiet
  <2> QED
    BY <1>1, <2>1, <2>2, <2>3 DEF RunStep, AccountInv, CompletedIsQuiet
<1>2. ASSUME NEW m \in Message, OrderlyEdit(m)
      PROVE  CompletedIsQuiet'
  BY <1>2 DEF OrderlyEdit, InsertMessage, DeleteMessage, AccountInv,
              CompletedIsQuiet
<1>3. CASE UNCHANGED vars
  BY <1>3 DEF vars, AccountInv, CompletedIsQuiet
<1> QED
  BY <1>1, <1>2, <1>3 DEF OrderlyNext

LEMMA FiniteEnded == IsFiniteSet(Ended) /\ Cardinality(Ended) \in Nat
<1>1. IsFiniteSet(Goroutine)
  BY MessageAssumption, FS_CardinalityType, FS_Interval DEF Goroutine
<1> QED
  BY <1>1, FS_Subset, FS_CardinalityType DEF Ended

\* A goroutine that ends posts its result.
LEMMA PostCounted ==
  ASSUME AccountInv, NEW g \in Goroutine, NEW err \in SendResult,
         Finish(g, err), pc[g] # "done", UNCHANGED <<cancelled, results>>
  PROVE  PostsCounted'
<1>1. errCh \in Seq(SendResult) /\ pc \in [Goroutine -> Progress]
      /\ results.successes \in Nat /\ results.errors \in Nat
  BY DEF AccountInv, CursorInv, TypeInv, TypeOK
<1>2. Len(errCh') = Len(errCh) + 1 /\ Len(errCh) \in Nat
  BY <1>1, AppendProperties, LenProperties DEF Finish
<1>3. Ended' = Ended \cup {g} /\ g \notin Ended
  BY <1>1 DEF Finish, Ended, Progress
<1>4. Cardinality(Ended') = Cardinality(Ended) + 1
  BY <1>3, FiniteEnded, FS_AddElement
<1> QED
  BY <1>1, <1>2, <1>4, FiniteEnded DEF AccountInv, PostsCounted

LEMMA NextPostsCounted ==
  ASSUME AccountInv, [OrderlyNext]_vars
  PROVE  PostsCounted'
<1> USE DEF db, run, log
<1>1. /\ errCh \in Seq(SendResult) /\ pc \in [Goroutine -> Progress]
      /\ results \in [successes : Nat, errors : Nat]
  BY DEF AccountInv, CursorInv, TypeInv, TypeOK
<1>2. ASSUME NEW g \in Goroutine, GoroutineStep(g)
      PROVE  PostsCounted'
  <2>1. CASE CheckContext(g) \/ Take(g) \/ SendAccepted(g)
    <3>1. UNCHANGED <<cancelled, results, errCh>>
      BY <2>1 DEF CheckContext, Take, SendAccepted
    <3>2. ~cancelled => Ended' = Ended
      BY <1>1, <2>1 DEF CheckContext, Take, SendAccepted, Ended, Progress
    <3> QED
      BY <3>1, <3>2 DEF AccountInv, PostsCounted
  <2>2. CASE \/ TakeNothing(g) \/ TakeFails(g) \/ RejectRow(g) \/ SendFails(g)
             \/ StoreFails(g) \/ LinkFails(g) \/ Link(g)
    <3>1. /\ pc[g] # "done" /\ UNCHANGED <<cancelled, results>>
          /\ \E err \in SendResult : Finish(g, err)
      BY <2>2 DEF TakeNothing, TakeFails, RejectRow, SendFails, StoreFails,
                  LinkFails, Link, SendResult
    <3> QED
      BY <3>1, PostCounted
  <2> QED
    BY <1>2, <2>1, <2>2 DEF GoroutineStep
<1>3. CASE Consume
  <2>1. /\ errCh # <<>> /\ errCh' = Tail(errCh) /\ pc' = pc
        /\ ~cancelled' => ~cancelled
        /\ results' = IF Head(errCh) = "ok"
                      THEN [results EXCEPT !.successes = @ + 1]
                      ELSE [results EXCEPT !.errors = @ + 1]
    BY <1>3 DEF Consume
  <2>2. Len(errCh') = Len(errCh) - 1 /\ Len(errCh) \in Nat
    BY <1>1, <2>1, HeadTailProperties, LenProperties
  <2>3. results'.successes + results'.errors
          = results.successes + results.errors + 1
    BY <1>1, <2>1
  <2>4. results'.successes \in Nat /\ results'.errors \in Nat
    BY <1>1, <2>1
  <2>5. Ended' = Ended
    BY <2>1 DEF Ended
  <2> QED
    BY <1>1, <2>1, <2>2, <2>3, <2>4, <2>5 DEF AccountInv, PostsCounted
<1>4. CASE Spawn
  <2>1. Ended' = Ended
    BY <1>1, <1>4 DEF Spawn, Ended, AccountInv, CursorInv, RowsByProgress
  <2> QED
    BY <1>4, <2>1 DEF Spawn, AccountInv, PostsCounted
<1>5. CASE Start \/ GiveUp \/ Complete \/ Cancel \/ UNCHANGED vars
  <2>1. UNCHANGED <<errCh, results, pc>> /\ (~cancelled' => ~cancelled)
    BY <1>5 DEF Start, GiveUp, Complete, Cancel, vars
  <2> QED
    BY <2>1 DEF AccountInv, PostsCounted, Ended
<1>6. ASSUME NEW m \in Message, OrderlyEdit(m)
      PROVE  PostsCounted'
  <2>1. UNCHANGED <<errCh, results, pc, cancelled>>
    BY <1>6 DEF OrderlyEdit, InsertMessage, DeleteMessage
  <2> QED
    BY <2>1 DEF AccountInv, PostsCounted, Ended
<1> QED
  BY <1>2, <1>3, <1>4, <1>5, <1>6 DEF OrderlyNext, RunStep

\* Nobody links a row whose taker could not write its error: it was the only
\* one who took it.
LEMMA NextUnrecordedStay ==
  ASSUME AccountInv, [OrderlyNext]_vars
  PROVE  UnrecordedStay'
<1> USE DEF db, run, log
<1>1. /\ pc \in [Goroutine -> Progress]
      /\ row \in [Goroutine -> Message \cup {None}]
  BY DEF AccountInv, CursorInv, TypeInv, TypeOK
<1>2. ASSUME NEW g \in Goroutine, GoroutineStep(g)
      PROVE  UnrecordedStay'
  <2>1. CASE \/ CheckContext(g) \/ Take(g) \/ SendAccepted(g) \/ TakeNothing(g)
             \/ TakeFails(g) \/ RejectRow(g)
    <3>1. UNCHANGED <<unsent, deleted, unrecorded>> /\ pc[g] # "done"
      BY <2>1 DEF CheckContext, Take, SendAccepted, TakeNothing, TakeFails,
                  RejectRow
    <3>2. \A h \in Goroutine : h # g => pc'[h] = pc[h] /\ row'[h] = row[h]
      BY <1>1, <2>1 DEF CheckContext, Take, SendAccepted, TakeNothing,
                        TakeFails, RejectRow, Finish
    <3> QED
      BY <3>1, <3>2 DEF AccountInv, UnrecordedStay
  <2>2. CASE SendFails(g) \/ StoreFails(g) \/ LinkFails(g)
    <3>1. /\ UNCHANGED <<unsent, deleted, row>>
          /\ unrecorded' \subseteq unrecorded \cup {row[g]}
          /\ pc' = [pc EXCEPT ![g] = "done"] /\ pc[g] \in {"holding", "sent"}
      BY <2>2 DEF SendFails, StoreFails, LinkFails, Finish, RecordSendError
    <3>2. row[g] \in unsent \cup deleted
      BY <3>1 DEF AccountInv, CursorInv, RowsByProgress
    <3>3. \A h \in Goroutine : pc[h] = "done" => pc'[h] = "done"
      BY <1>1, <3>1
    <3>4. pc'[g] = "done"
      BY <1>1, <3>1
    <3> QED
      BY <3>1, <3>2, <3>3, <3>4 DEF AccountInv, UnrecordedStay
  <2>3. CASE Link(g)
    <3>1. /\ unsent' = unsent \ {row[g]} /\ pc[g] = "sent"
          /\ UNCHANGED <<deleted, row, unrecorded>>
          /\ pc' = [pc EXCEPT ![g] = "done"]
      BY <2>3 DEF Link, Finish
    <3>2. row[g] \notin unrecorded
      <4> SUFFICES ASSUME NEW h \in Goroutine, pc[h] = "done", row[h] = row[g]
                   PROVE  FALSE
        BY DEF AccountInv, UnrecordedStay
      <4>1. row[g] \in Message /\ row[g] # None
        BY <3>1, MessageAssumption
           DEF AccountInv, CursorInv, TypeInv, BusyHoldsRow
      <4> QED
        BY <3>1, <4>1 DEF AccountInv, CursorInv, OneTaker
    <3>3. \A h \in Goroutine : pc[h] = "done" => pc'[h] = "done"
      BY <1>1, <3>1
    <3> QED
      BY <3>1, <3>2, <3>3 DEF AccountInv, UnrecordedStay
  <2> QED
    BY <1>2, <2>1, <2>2, <2>3 DEF GoroutineStep
<1>3. CASE \/ Start \/ GiveUp \/ Consume \/ Complete \/ Cancel
           \/ UNCHANGED vars
  <2>1. UNCHANGED <<unsent, deleted, unrecorded, pc, row>>
    BY <1>3 DEF Start, GiveUp, Consume, Complete, Cancel, vars
  <2> QED
    BY <2>1 DEF AccountInv, UnrecordedStay
<1>4. CASE Spawn
  <2>1. unrecorded = {}
    BY <1>4 DEF Spawn, AccountInv, CursorInv, RowsByProgress,
                   UnrecordedStay
  <2> QED
    BY <1>4, <2>1 DEF Spawn, UnrecordedStay
<1>5. ASSUME NEW m \in Message, OrderlyEdit(m)
      PROVE  UnrecordedStay'
  <2>1. UNCHANGED <<unrecorded, pc, row>>
        /\ unsent \cup deleted \subseteq unsent' \cup deleted'
    BY <1>5 DEF OrderlyEdit, InsertMessage, DeleteMessage
  <2> QED
    BY <2>1 DEF AccountInv, UnrecordedStay
<1> QED
  BY <1>2, <1>3, <1>4, <1>5 DEF OrderlyNext, RunStep

LEMMA NextStartedAreCounted ==
  ASSUME AccountInv, [OrderlyNext]_vars
  PROVE  StartedAreCounted'
<1> USE DEF db, run, log, StartedAreCounted
<1>1. ASSUME NEW g \in Goroutine, GoroutineStep(g)
      PROVE  StartedAreCounted'
  <2>1. pc[g] # "idle" /\ batch' = batch
    BY <1>1 DEF GoroutineStep, CheckContext, Take, TakeNothing, TakeFails,
                RejectRow, SendFails, SendAccepted, StoreFails, Link, LinkFails
  <2>2. \E to \in Progress : pc' = [pc EXCEPT ![g] = to]
    BY <1>1 DEF GoroutineStep, CheckContext, Take, TakeNothing, TakeFails,
                RejectRow, SendFails, SendAccepted, StoreFails, Link, LinkFails,
                Finish, Progress
  <2> QED
    BY <2>1, <2>2 DEF AccountInv, CursorInv, TypeInv, TypeOK
<1>2. CASE Spawn
  BY <1>2, FiniteRows, FS_CardinalityType
     DEF Spawn, AccountInv, CursorInv, TypeInv, TypeOK, Goroutine
<1>3. CASE \/ Start \/ GiveUp \/ Consume \/ Complete \/ Cancel
           \/ UNCHANGED vars
  BY <1>3 DEF Start, GiveUp, Consume, Complete, Cancel, Return, vars, AccountInv
<1>4. ASSUME NEW m \in Message, OrderlyEdit(m)
      PROVE  StartedAreCounted'
  BY <1>4 DEF OrderlyEdit, InsertMessage, DeleteMessage, AccountInv
<1> QED
  BY <1>1, <1>2, <1>3, <1>4 DEF OrderlyNext, RunStep

LEMMA NextAccountInv == AccountInv /\ [OrderlyNext]_vars => AccountInv'
<1> SUFFICES ASSUME AccountInv, [OrderlyNext]_vars
             PROVE  AccountInv'
  OBVIOUS
<1>1. CursorInv'
  BY NextCursorInv DEF AccountInv
<1>2. SuccessesCounted' /\ EndedIsAccounted'
  BY SilentAccountInv, FailedAccountInv, LinkAccountInv, ConsumeAccountInv,
     OtherAccountInv
     DEF OrderlyNext, RunStep, GoroutineStep, OrderlyEdit
<1>3. CompletedIsQuiet'
  BY NextCompletedIsQuiet
<1>4. PostsCounted' /\ UnrecordedStay' /\ StartedAreCounted'
  BY NextPostsCounted, NextUnrecordedStay, NextStartedAreCounted
<1> QED
  BY <1>1, <1>2, <1>3, <1>4 DEF AccountInv

LEMMA InitAccountInv == Init => AccountInv
<1> SUFFICES ASSUME Init PROVE AccountInv
  OBVIOUS
<1>1. /\ errCh = <<>> /\ results.successes = 0 /\ outcome = "none"
      /\ future = Message \ unsent /\ \A g \in Goroutine : pc[g] = "idle"
  BY DEF Init
<1>2. Oks(errCh) = {} /\ GetSentMessages = {}
  BY <1>1, SentRows DEF Oks
<1>3. SuccessesCounted
  BY <1>1, <1>2, FS_EmptySet DEF SuccessesCounted
<1>4. PostsCounted
  <2>1. Ended = {} /\ results.errors = 0 /\ Len(errCh) = 0
    BY <1>1, EmptySeq DEF Ended, Init
  <2> QED
    BY <1>1, <2>1, FS_EmptySet DEF PostsCounted
<1>5. UnrecordedStay /\ StartedAreCounted
  BY DEF Init, UnrecordedStay, StartedAreCounted
<1> QED
  BY <1>1, <1>3, <1>4, <1>5, InitCursorInv
     DEF AccountInv, EndedIsAccounted, CompletedIsQuiet

\* The rows of the goroutines that took one are as many as the goroutines.
LEMMA TakenAreDistinct ==
  ASSUME OneTaker, NEW n \in Nat, 1..n \subseteq Goroutine,
         None \notin {row[g] : g \in 1..n}
  PROVE  Cardinality({row[g] : g \in 1..n}) = n
<1> DEFINE T == {row[g] : g \in 1..n}
           f == [g \in 1..n |-> row[g]]
<1>1. f \in [1..n -> T] /\ \A t \in T : \E g \in 1..n : f[g] = t
  OBVIOUS
<1>2. \A a, b \in 1..n : f[a] = f[b] => a = b
  BY DEF OneTaker
<1>3. f \in Bijection(1..n, T)
  <2> HIDE DEF f, T
  <2> QED
    BY <1>1, <1>2, Fun_IsBij
<1>4. ExistsBijection(1..n, T)
  <2> HIDE DEF f, T
  <2> QED
    BY <1>3 DEF ExistsBijection
<1> QED
  BY <1>4, FS_CountingElements

\* A run that ends normally, was not cancelled and met no query error has
\* attempted as many different rows as it counted; each of them is found among
\* the sent messages, the errors or the rows without sender data, or is still
\* unsent because its error could not be written; and the counters shown to the
\* clients miss none of them and agree with the counts of the database.
THEOREM EveryRunIsAccounted == OrderlySpec => []RunIsAccounted
<1>1. AccountInv => RunIsAccounted
  <2> DEFINE n == Cardinality(batch)
             taken == {row[g] : g \in 1..n}
  <2> SUFFICES ASSUME AccountInv, outcome = "completed", deleted = {},
                      ~cancelled, None \notin taken
               PROVE  /\ Cardinality(taken) = n
                      /\ taken \subseteq GetSentMessages \cup GetErrors
                             \cup NoSenderData
                             \cup (unrecorded \cap GetUnsentMessages)
                      /\ results.successes + results.errors = n
                      /\ results.successes = CountSentMessages
                      /\ results.successes = CountMessages - CountUnsentMessages
    BY DEF RunIsAccounted
  <2>1. batch \in SUBSET Message /\ unsent \in SUBSET Message
        /\ errCh = <<>> /\ results.successes \in Nat /\ results.errors \in Nat
    BY DEF AccountInv, CursorInv, TypeInv, TypeOK, CompletedIsQuiet
  <2>2. n \in Nat /\ 1..n \subseteq Goroutine
    <3>1. /\ n \in Nat /\ Cardinality(Message) \in Nat
          /\ n <= Cardinality(Message)
      BY <2>1, FiniteRows, FS_Subset, FS_CardinalityType, MessageAssumption
    <3> QED
      BY <3>1 DEF Goroutine
  <2>3. Cardinality(taken) = n
    BY <2>2, TakenAreDistinct DEF AccountInv, CursorInv
  <2>4. ASSUME NEW g \in 1..n
        PROVE  /\ pc[g] = "done"
               /\ row[g] \in GetSentMessages \cup GetErrors \cup NoSenderData
                               \cup (unrecorded \cap GetUnsentMessages)
    <3>1. g \in Goroutine /\ row[g] # None
      BY <2>2
    <3>2. pc[g] = "done"
      BY <3>1 DEF AccountInv, CompletedIsQuiet, CursorInv, RowsByProgress
    <3> QED
      BY <3>1, <3>2
         DEF AccountInv, EndedIsAccounted, UnrecordedStay, GetUnsentMessages
  <2>5. results.successes = CountSentMessages
    <3>1. Cardinality(Oks(errCh)) = 0
      BY <2>1, FS_EmptySet DEF Oks
    <3> QED
      BY <2>1, <3>1, FiniteSent
         DEF AccountInv, SuccessesCounted, CountSentMessages
  <2>6. CountSentMessages = CountMessages - CountUnsentMessages
    <3>1. GetMessages \in SUBSET Message /\ GetMessages \cap unsent = unsent
      BY <2>1 DEF GetMessages, AccountInv, CursorInv, RowsByProgress
    <3>2. IsFiniteSet(GetMessages)
      BY <3>1, FiniteRows
    <3>3. Cardinality(GetMessages \ unsent) =
            Cardinality(GetMessages) - Cardinality(GetMessages \cap unsent)
      BY <3>2, FS_Difference
    <3> QED
      BY <3>1, <3>3 DEF CountSentMessages, CountMessages, CountUnsentMessages,
                        GetSentMessages, GetUnsentMessages
  <2>7. results.successes + results.errors = n
    <3>1. Ended = 1..n
      <4>1. 1..n \subseteq Ended
        BY <2>2, <2>4 DEF Ended
      <4>2. ASSUME NEW g \in Ended
            PROVE  g \in 1..n
        <5>1. g \in Goroutine /\ ~(g > n)
          BY DEF Ended, AccountInv, StartedAreCounted
        <5>2. g \in Nat /\ g >= 1
          BY <5>1, MessageAssumption, FS_CardinalityType DEF Goroutine
        <5> QED
          BY <2>2, <5>1, <5>2
      <4> QED
        BY <4>1, <4>2
    <3>2. Cardinality(Ended) = n
      BY <2>2, <3>1, FS_Interval
    <3>3. Len(errCh) = 0
      BY <2>1, EmptySeq
    <3> QED
      BY <2>1, <3>2, <3>3 DEF AccountInv, PostsCounted
  <2> QED
    BY <2>3, <2>4, <2>5, <2>6, <2>7
<1> QED
  BY <1>1, InitAccountInv, NextAccountInv, PTL DEF OrderlySpec
=============================================================================
