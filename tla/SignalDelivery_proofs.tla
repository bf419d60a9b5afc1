----------------------- MODULE SignalDelivery_proofs -----------------------
(* Proofs about SignalDelivery for every set of processes and of mints. *)
EXTENDS SignalDelivery, SequenceTheorems, TLAPS

USE ScoreAssumption, LegacyAssumption

\* The initial states are well typed and hold nothing in memory.
LEMMA InitTypes == Init => TypeOK /\ MemoryInv
<1> SUFFICES ASSUME Init PROVE TypeOK /\ MemoryInv
  OBVIOUS
<1>1. PICK past \in [Mint -> History] :
        /\ legacy_claim = [m \in Mint |-> past[m].status]
        /\ alerted      = [m \in Mint |-> past[m].seen]
        /\ delivered    = [m \in Mint |-> past[m].told]
  BY DEF Init
<1>2. \A m \in Mint : /\ past[m].status \in Status
                      /\ past[m].seen \in Seq(Kind \cup {"LEGACY"})
                      /\ past[m].told \in Seq(Kind)
  <2> SUFFICES ASSUME NEW h \in History
               PROVE  /\ h.status \in Status
                      /\ h.seen \in Seq(Kind \cup {"LEGACY"})
                      /\ h.told \in Seq(Kind)
    OBVIOUS
  <2>1. /\ <<>> \in Seq(Kind) /\ <<"BUY">> \in Seq(Kind) /\ <<"WATCH">> \in Seq(Kind)
        /\ <<>> \in Seq(Kind \cup {"LEGACY"}) /\ <<"BUY">> \in Seq(Kind \cup {"LEGACY"})
        /\ <<"WATCH">> \in Seq(Kind \cup {"LEGACY"})
        /\ <<"LEGACY">> \in Seq(Kind \cup {"LEGACY"})
    BY DEF Kind
  <2>2. CASE h = NoHistory
    BY <2>1, <2>2 DEF NoHistory, Status
  <2>3. CASE h # NoHistory
    <3>1. h.status \in {"PENDING", "SENT"}
      BY <2>3 DEF History
    <3>2. h.seen \in {<<>>, <<"WATCH">>, <<"BUY">>, <<"LEGACY">>}
      BY <2>3 DEF History
    <3>3. h.told \in {<<>>, <<"WATCH">>, <<"BUY">>}
      BY <2>3 DEF History
    <3>4. QED
      BY <2>1, <3>1, <3>2, <3>3 DEF Status
  <2>4. QED
    BY <2>2, <2>3
<1>3. TypeOK
  BY <1>1, <1>2 DEF Init, TypeOK, Status, Pc
<1>4. MemoryInv
  BY DEF Init, MemoryInv, Holding
<1>5. QED
  BY <1>3, <1>4

\* A ticket that is held is a pair of a mint and a kind.
LEMMA TicketIsPair ==
  ASSUME TypeOK, NEW s \in Session, ticket[s] # NoTicket
  PROVE  /\ ticket[s][1] \in Mint /\ ticket[s][2] \in Kind
         /\ ticket[s] = <<ticket[s][1], ticket[s][2]>>
         /\ ticket[s] \in Mint \X Kind
BY DEF TypeOK, NoTicket

\* Every step keeps the types and the shape of a process's memory.
LEMMA NextTypes == TypeOK /\ MemoryInv /\ [Next]_vars => TypeOK' /\ MemoryInv'
<1> SUFFICES ASSUME TypeOK, MemoryInv, [Next]_vars PROVE TypeOK' /\ MemoryInv'
  OBVIOUS
<1> USE DEF TypeOK, MemoryInv, Goto, Forget, GoesAstray, TryNext, Accept, FinishSignal,
            durable, memory, outside, Holding, Pc
<1>1. ASSUME NEW s \in Session, NEW found \in SUBSET Mint, Discover(s, found)
      PROVE  TypeOK' /\ MemoryInv'
  BY <1>1 DEF Discover
<1>2. ASSUME NEW s \in Session, NEW m \in Mint, NEW passes \in BOOLEAN, Evaluate(s, m, passes)
      PROVE  TypeOK' /\ MemoryInv'
  BY <1>2 DEF Evaluate
<1>3. ASSUME NEW s \in Session, NEW young \in SUBSET Mint, Rank(s, young)
      PROVE  TypeOK' /\ MemoryInv'
  BY <1>3 DEF Rank
<1>4. ASSUME NEW s \in Session, NEW m \in Mint, Decline(s, m)
      PROVE  TypeOK' /\ MemoryInv'
  BY <1>4 DEF Decline
<1>5. ASSUME NEW s \in Session, NEW m \in Mint, NEW k \in Kind, Prepare(s, m, k)
      PROVE  TypeOK' /\ MemoryInv'
  BY <1>5 DEF Prepare, NoTicket
<1>6. ASSUME NEW s \in Session, ClaimReadsLegacy(s)
      PROVE  TypeOK' /\ MemoryInv'
  <2>1. CASE LegacyForbids(ticket[s][1], ticket[s][2])
    BY <1>6, <2>1, ZenonT(30) DEF ClaimReadsLegacy
  <2>2. CASE ~LegacyForbids(ticket[s][1], ticket[s][2])
    BY <1>6, <2>2 DEF ClaimReadsLegacy
  <2>3. QED
    BY <2>1, <2>2
<1>7. ASSUME NEW s \in Session, ClaimInserts(s)
      PROVE  TypeOK' /\ MemoryInv'
  <2>1. ticket[s][1] \in Mint /\ ticket[s][2] \in Kind /\ ticket[s] \in Mint \X Kind
    BY <1>7, TicketIsPair DEF ClaimInserts
  <2>2. CASE RowForbids(ticket[s][1], ticket[s][2])
    BY <1>7, <2>2, ZenonT(30) DEF ClaimInserts
  <2>3. CASE ~RowForbids(ticket[s][1], ticket[s][2])
    <3>1. claim' = [claim EXCEPT ![ticket[s][1]][ticket[s][2]] = "PENDING"]
      BY <1>7, <2>3 DEF ClaimInserts
    <3>2. claim' \in [Mint -> [Kind -> Status]]
      BY <3>1, <2>1 DEF Status
    <3>3. QED
      BY <1>7, <2>3, <3>2, ZenonT(30) DEF ClaimInserts
  <2>4. QED
    BY <2>2, <2>3
<1>8. ASSUME NEW s \in Session, NoWinner(s) PROVE TypeOK' /\ MemoryInv'
  BY <1>8 DEF NoWinner
<1>9. ASSUME NEW s \in Session, PersistCycle(s) PROVE TypeOK' /\ MemoryInv'
  <2>1. ticket[s][1] \in Mint /\ ticket[s][2] \in Kind /\ ticket[s] \in Mint \X Kind
    BY <1>9, TicketIsPair DEF PersistCycle
  <2>2. QED
    BY <1>9, <2>1 DEF PersistCycle
<1>10. ASSUME NEW s \in Session, DropExpired(s) PROVE TypeOK' /\ MemoryInv'
  BY <1>10 DEF DropExpired
<1>11. ASSUME NEW s \in Session, Post(s) PROVE TypeOK' /\ MemoryInv'
  BY <1>11 DEF Post
<1>12. ASSUME NEW s \in Session, AnswerAccepted(s) PROVE TypeOK' /\ MemoryInv'
  BY <1>12 DEF AnswerAccepted
<1>13. ASSUME NEW s \in Session, AnswerRefused(s) PROVE TypeOK' /\ MemoryInv'
  BY <1>13 DEF AnswerRefused
<1>14. ASSUME NEW s \in Session, AnswerLost(s) PROVE TypeOK' /\ MemoryInv'
  <2>1. ticket[s][1] \in Mint /\ ticket[s][2] \in Kind /\ ticket[s] \in Mint \X Kind
    BY <1>14, TicketIsPair DEF AnswerLost
  <2>2. QED
    BY <1>14, <2>1 DEF AnswerLost
<1>15. ASSUME NEW s \in Session, KeepUncertain(s) PROVE TypeOK' /\ MemoryInv'
  BY <1>15 DEF KeepUncertain
<1>16. ASSUME NEW s \in Session, FinishAccepted(s) PROVE TypeOK' /\ MemoryInv'
  <2>1. ticket[s][1] \in Mint /\ ticket[s][2] \in Kind /\ ticket[s] \in Mint \X Kind
    BY <1>16, TicketIsPair DEF FinishAccepted
  <2>2. QED
    BY <1>16, <2>1 DEF FinishAccepted, Status
<1>17. ASSUME NEW s \in Session, ReleaseRefused(s) PROVE TypeOK' /\ MemoryInv'
  <2>1. ticket[s][1] \in Mint /\ ticket[s][2] \in Kind /\ ticket[s] \in Mint \X Kind
    BY <1>17, TicketIsPair DEF ReleaseRefused
  <2>2. QED
    BY <1>17, <2>1 DEF ReleaseRefused, Status
<1>18. ASSUME NEW s \in Session, RecordAlerted(s) PROVE TypeOK' /\ MemoryInv'
  <2>1. ticket[s][1] \in Mint /\ ticket[s][2] \in Kind /\ ticket[s] \in Mint \X Kind
    BY <1>18, TicketIsPair DEF RecordAlerted
  <2>2. QED
    BY <1>18, <2>1, SMTT(30) DEF RecordAlerted
<1>19. ASSUME NEW s \in Session, TelegramAccepts(s) PROVE TypeOK' /\ MemoryInv'
  <2>1. ticket[s][1] \in Mint /\ ticket[s][2] \in Kind /\ ticket[s] \in Mint \X Kind
    BY <1>19, TicketIsPair DEF TelegramAccepts
  <2>2. QED
    BY <1>19, <2>1 DEF TelegramAccepts
<1>20. ASSUME NEW s \in Session, TelegramRefuses(s) PROVE TypeOK' /\ MemoryInv'
  BY <1>20 DEF TelegramRefuses
<1>21. ASSUME NEW s \in Session, Abandon(s) PROVE TypeOK' /\ MemoryInv'
  <2>1. CASE wire[s] = "posted"
    <3>1. ticket[s] \in Mint \X Kind
      BY <2>1, TicketIsPair
    <3>2. QED
      BY <1>21, <2>1, <3>1 DEF Abandon
  <2>2. CASE wire[s] # "posted"
    BY <1>21, <2>2 DEF Abandon
  <2>3. QED
    BY <2>1, <2>2
<1>22. ASSUME NEW m \in Mint, NEW k \in Kind, StrayAccepted(m, k)
       PROVE  TypeOK' /\ MemoryInv'
  BY <1>22 DEF StrayAccepted
<1>23. ASSUME NEW m \in Mint, NEW k \in Kind, StrayLost(m, k)
       PROVE  TypeOK' /\ MemoryInv'
  BY <1>23 DEF StrayLost
<1>24. CASE UNCHANGED vars
  BY <1>24 DEF vars
<1> HIDE DEF TypeOK, MemoryInv
<1>25. QED
  BY <1>1, <1>2, <1>3, <1>4, <1>5, <1>6, <1>7, <1>8, <1>9, <1>10, <1>11, <1>12, <1>13,
     <1>14, <1>15, <1>16, <1>17, <1>18, <1>19, <1>20, <1>21, <1>22, <1>23, <1>24
     DEF Next, Work

(***************************************************************************)
(* Type correctness, with the shape of a process's memory it rests on.     *)
(***************************************************************************)
THEOREM TypeCorrect == Spec => [](TypeOK /\ MemoryInv)
<1>1. QED
  BY InitTypes, NextTypes, PTL DEF Spec
-----------------------------------------------------------------------------
(* What the steps do to the histories *)

\* Appending a kind to one mint's accepted messages adds exactly that kind.
LEMMA AcceptTells ==
  ASSUME TypeOK, NEW m \in Mint, NEW k \in Kind, Accept(m, k)
  PROVE  /\ \A n \in Mint, j \in Kind : Told(n, j)' <=> Told(n, j) \/ (n = m /\ j = k)
         /\ \A n \in Mint : n # m => delivered'[n] = delivered[n]
         /\ delivered'[m] = Append(delivered[m], k)
<1>1. /\ \A n \in Mint : n # m => delivered'[n] = delivered[n]
      /\ delivered'[m] = Append(delivered[m], k)
  BY DEF Accept, TypeOK
<1>2. /\ delivered[m] \in Seq(Kind)
      /\ DOMAIN delivered'[m] = 1..(Len(delivered[m]) + 1)
      /\ DOMAIN delivered[m] = 1..Len(delivered[m])
      /\ delivered'[m][Len(delivered[m]) + 1] = k
      /\ \A i \in 1..Len(delivered[m]) : delivered'[m][i] = delivered[m][i]
      /\ Len(delivered[m]) \in Nat
  BY <1>1 DEF TypeOK
<1>3. \A j \in Kind : Told(m, j)' <=> Told(m, j) \/ j = k
  BY <1>2, SMTT(30) DEF Told
<1>4. \A n \in Mint, j \in Kind : n # m => (Told(n, j)' <=> Told(n, j))
  BY <1>1 DEF Told
<1>5. QED
  BY <1>1, <1>3, <1>4

\* A step that leaves the accepted messages, or the rows, alone.
LEMMA Frames ==
  /\ UNCHANGED delivered => \A m \in Mint, k \in Kind : Told(m, k)' <=> Told(m, k)
  /\ UNCHANGED alerted => \A m \in Mint, k \in Kind : Listed(m, k)' <=> Listed(m, k)
  /\ UNCHANGED <<alerted, legacy_claim>> =>
       \A m \in Mint, k \in Kind : LegacyForbids(m, k)' <=> LegacyForbids(m, k)
BY DEF Told, Listed, LegacyForbids, LegacyKind

\* A mint that keeps the promise and was told of neither kind was told nothing.
LEMMA KeptFacts ==
  ASSUME NEW m \in Mint, delivered[m] \in Promise!Kept
  PROVE  /\ ~Told(m, "WATCH") /\ ~Told(m, "BUY") => delivered[m] = <<>>
         /\ ~Told(m, "BUY") => delivered[m] = <<>> \/ delivered[m] = <<"WATCH">>
<1>1. Told(m, "WATCH") <=> \E i \in DOMAIN delivered[m] : delivered[m][i] = "WATCH"
  BY DEF Told
<1>2. Told(m, "BUY") <=> \E i \in DOMAIN delivered[m] : delivered[m][i] = "BUY"
  BY DEF Told
<1>3. CASE delivered[m] = <<>>
  BY <1>3
<1>4. CASE delivered[m] = <<"WATCH">>
  BY <1>1, <1>4
<1>5. CASE delivered[m] = <<"BUY">>
  BY <1>2, <1>5
<1>6. CASE delivered[m] = <<"WATCH", "BUY">>
  BY <1>1, <1>2, <1>6
<1>7. QED
  BY <1>3, <1>4, <1>5, <1>6 DEF Promise!Kept
-----------------------------------------------------------------------------
(* The inductive invariant *)

\* Where a process is while the claims, the trace and the histories speak of it.
Engaged == Holding \cup {"record"}

\* The tables of an earlier build.
LEMMA InitDelivery == Init => DeliveryInv
<1> SUFFICES ASSUME Init PROVE DeliveryInv
  OBVIOUS
<1>1. TypeOK /\ MemoryInv
  BY InitTypes
<1>2. ClaimInv /\ TraceInv /\ LegacyInv /\ IndexNeverRefuses
  BY DEF Init, ClaimInv, TraceInv, LegacyInv, IndexNeverRefuses, Holds, Holding, Kind
<1>3. \A s \in Session, m \in Mint, k \in Kind : ~Holds(s, m, k)
  BY DEF Init, Holds, Holding
<1>4. ASSUME NEW m \in Mint
      PROVE  /\ delivered[m] \in Promise!Kept
             /\ \A k \in Kind : /\ Listed(m, k) => Told(m, k)
                                /\ Told(m, k) => LegacyForbids(m, k)
  <2>1. PICK h \in History : /\ legacy_claim[m] = h.status
                             /\ alerted[m] = h.seen
                             /\ delivered[m] = h.told
    BY DEF Init
  <2>2. CASE h = NoHistory
    BY <2>1, <2>2 DEF NoHistory, Promise!Kept, Listed, Told
  <2>3. CASE h.status = "PENDING"
    BY <2>1, <2>3 DEF History, NoHistory, Promise!Kept, Listed, Told, LegacyForbids, LegacyKind
  <2>4. CASE h.status = "SENT" /\ h.seen = <<"WATCH">>
    BY <2>1, <2>4 DEF History, NoHistory, Promise!Kept, Listed, Told, LegacyForbids, LegacyKind
  <2>5. CASE h.status = "SENT" /\ h.seen # <<"WATCH">>
    <3>1. h.told = <<"BUY">> /\ h.seen \in {<<>>, <<"BUY">>, <<"LEGACY">>}
      BY <2>5 DEF History, NoHistory
    <3>2. LegacyKind(m) = "BUY"
      BY <2>1, <2>5, <3>1 DEF LegacyKind
    <3>3. \A k \in Kind : Listed(m, k) => k = "BUY"
      BY <2>1, <3>1 DEF Listed, Kind
    <3>4. Told(m, "BUY") /\ delivered[m] \in Promise!Kept
      BY <2>1, <3>1 DEF Told, Promise!Kept
    <3>5. QED
      BY <3>2, <3>3, <3>4 DEF LegacyForbids
  <2>6. QED
    BY <2>2, <2>3, <2>4, <2>5 DEF History, NoHistory
<1>5. ToldInv
  BY <1>3, <1>4 DEF Init, ToldInv
<1>6. QED
  BY <1>1, <1>2, <1>5 DEF DeliveryInv

\* Legacy claims and the claims they allow, while neither table changes.
LEMMA LegacyQuiet ==
  ASSUME DeliveryInv, UNCHANGED <<claim, legacy_claim, alerted>>,
         \A t \in Session : pc'[t] = "insert" => pc[t] = "insert" /\ ticket'[t] = ticket[t]
  PROVE  LegacyInv'
BY Frames DEF DeliveryInv, LegacyInv

\* Who holds what, while no process starts to hold a claim or finishes one.
LEMMA ClaimQuiet ==
  ASSUME DeliveryInv, UNCHANGED claim,
         \A t \in Session : pc'[t] \in Engaged =>
            /\ ticket'[t] = ticket[t]
            /\ pc'[t] \in Holding => pc[t] \in Holding
            /\ pc'[t] = "record" => pc[t] = "record"
  PROVE  ClaimInv'
BY DEF DeliveryInv, ClaimInv, Holds, Engaged, Holding

\* A process that forgets its cycle, or has not claimed yet, disturbs nothing.
LEMMA QuietStep ==
  ASSUME DeliveryInv, TypeOK', MemoryInv', LegacyInv', UNCHANGED <<durable, outside>>,
         \A t \in Session : \/ pc'[t] \notin Engaged
                            \/ /\ pc'[t] = pc[t] /\ ticket'[t] = ticket[t]
                               /\ wire'[t] = wire[t]
  PROVE  DeliveryInv'
<1>1. UNCHANGED <<claim, legacy_claim, alerted, pending_rows, stray, delivered>>
  BY DEF durable, outside
<1>2. \A t \in Session, m \in Mint, k \in Kind : Holds(t, m, k)' => Holds(t, m, k)
  BY DEF Holds, Engaged
<1>3. ClaimInv'
  BY <1>1, ClaimQuiet DEF Engaged
<1>4. TraceInv'
  BY <1>1, <1>2, Frames DEF DeliveryInv, TraceInv, Engaged, Holds
<1>5. ToldInv'
  BY <1>1, <1>2, Frames DEF DeliveryInv, ToldInv, Engaged, Holds
<1>6. IndexNeverRefuses'
  BY <1>1 DEF DeliveryInv, IndexNeverRefuses, Engaged, Listed
<1>7. QED
  BY <1>3, <1>4, <1>5, <1>6 DEF DeliveryInv

\* The ticket of a process at work, by its parts.
LEMMA AtWork ==
  ASSUME DeliveryInv, NEW s \in Session, pc[s] \in Engaged \cup {"legacy", "insert"}
  PROVE  /\ ticket[s][1] \in Mint /\ ticket[s][2] \in Kind
         /\ ticket[s] = <<ticket[s][1], ticket[s][2]>>
         /\ pc[s] \in Holding => Holds(s, ticket[s][1], ticket[s][2])
BY TicketIsPair DEF DeliveryInv, MemoryInv, Engaged, Holding, Holds

\* Between the claim and the answer a process moves on its own, row by row.
LEMMA DeliverySteps ==
  ASSUME DeliveryInv, TypeOK', MemoryInv', NEW s \in Session,
         \/ PersistCycle(s) \/ DropExpired(s) \/ Post(s) \/ TelegramRefuses(s)
         \/ AnswerAccepted(s) \/ AnswerRefused(s)
  PROVE  DeliveryInv'
<1> DEFINE m == ticket[s][1]
           k == ticket[s][2]
<1> USE DEF Goto
<1>1. /\ UNCHANGED <<claim, legacy_claim, alerted, ticket, stray, delivered>>
      /\ \A t \in Session : t # s => pc'[t] = pc[t] /\ wire'[t] = wire[t]
      /\ pc[s] \in Holding \ {"uncertain"} /\ pc'[s] \in Holding \ {"persist", "uncertain"}
      /\ pending_rows \subseteq pending_rows'
      /\ ticket[s] \in pending_rows'
  BY DEF DeliveryInv, TypeOK, MemoryInv, TraceInv, PersistCycle, DropExpired, Post,
         TelegramRefuses, AnswerAccepted, AnswerRefused, durable, outside, Holding
<1>2. /\ m \in Mint /\ k \in Kind /\ ticket[s] = <<m, k>> /\ Holds(s, m, k)
  BY <1>1, AtWork DEF Engaged
<1>3. \A t \in Session, n \in Mint, j \in Kind : Holds(t, n, j)' <=> Holds(t, n, j)
  BY <1>1 DEF Holds
<1>4. ClaimInv'
  BY <1>1, ClaimQuiet DEF Engaged, Holding
<1>5. LegacyInv'
  BY <1>1, LegacyQuiet DEF Holding
<1>6. TraceInv'
  BY <1>1, <1>3, Frames DEF DeliveryInv, TraceInv, Holds
<1>7. pc'[s] \in {"persist", "deliver", "release"} \/ wire'[s] \in {"posted", "refused"}
        => pc[s] \in {"persist", "deliver", "release"} \/ wire[s] \in {"posted", "refused"}
  BY DEF DeliveryInv, TypeOK, MemoryInv, PersistCycle, DropExpired, Post,
         TelegramRefuses, AnswerAccepted, AnswerRefused, Holding
<1>8. pc'[s] = "finish" \/ wire'[s] = "accepted" => pc[s] = "finish" \/ wire[s] = "accepted"
  BY DEF DeliveryInv, TypeOK, MemoryInv, PersistCycle, DropExpired, Post,
         TelegramRefuses, AnswerAccepted, AnswerRefused, Holding
<1>9. ToldInv'
  BY <1>1, <1>3, <1>7, <1>8, Frames DEF DeliveryInv, ToldInv
<1>10. IndexNeverRefuses'
  BY <1>1, Frames, AtWork DEF DeliveryInv, IndexNeverRefuses, Holding, Engaged
<1>11. QED
  BY <1>4, <1>5, <1>6, <1>9, <1>10 DEF DeliveryInv

\* The INSERT that claims: nobody else can hold the mint, and it was told nothing of k.
LEMMA InsertStep ==
  ASSUME DeliveryInv, TypeOK', MemoryInv', NEW s \in Session, ClaimInserts(s),
         ~RowForbids(ticket[s][1], ticket[s][2])
  PROVE  DeliveryInv'
<1> DEFINE m == ticket[s][1]
           k == ticket[s][2]
<1>1. /\ claim' = [claim EXCEPT ![m][k] = "PENDING"]
      /\ UNCHANGED <<legacy_claim, alerted, pending_rows, ticket, wire, stray, delivered>>
      /\ pc[s] = "insert" /\ pc' = [pc EXCEPT ![s] = "persist"]
  BY DEF ClaimInserts, Goto, outside
<1>2. m \in Mint /\ k \in Kind /\ ticket[s] = <<m, k>>
  BY <1>1, AtWork
<1>3. /\ claim[m][k] = "NONE" /\ claim[m]["BUY"] = "NONE"
      /\ \A j \in Kind : claim[m][j] # "PENDING"
  BY <1>2 DEF RowForbids, DeliveryInv, TypeOK, Status, Kind
<1>4. /\ claim'[m][k] = "PENDING"
      /\ \A n \in Mint, j \in Kind : <<n, j>> # <<m, k>> => claim'[n][j] = claim[n][j]
  BY <1>1, <1>2 DEF DeliveryInv, TypeOK
<1>5. pc'[s] = "persist" /\ \A t \in Session : t # s => pc'[t] = pc[t]
  BY <1>1 DEF DeliveryInv, TypeOK
<1>6. /\ \A t \in Session, n \in Mint, j \in Kind :
           Holds(t, n, j)' <=> Holds(t, n, j) \/ (t = s /\ n = m /\ j = k)
      /\ \A t \in Session, j \in Kind : ~Holds(t, m, j)
  <2>1. \A t \in Session, j \in Kind : ~Holds(t, m, j)
    BY <1>2, <1>3 DEF DeliveryInv, ClaimInv
  <2>2. \A n \in Mint, j \in Kind : Holds(s, n, j)' <=> n = m /\ j = k
    BY <1>1, <1>2, <1>5 DEF Holds, Holding
  <2>3. \A n \in Mint, j \in Kind : ~Holds(s, n, j)
    BY <1>1 DEF Holds, Holding
  <2>4. \A t \in Session, n \in Mint, j \in Kind : t # s => (Holds(t, n, j)' <=> Holds(t, n, j))
    BY <1>1, <1>5 DEF Holds
  <2>5. QED
    BY <2>1, <2>2, <2>3, <2>4
<1>7. ~LegacyForbids(m, k)
  BY <1>1, <1>2, <1>3 DEF DeliveryInv, LegacyInv
<1>8. ~Told(m, k) /\ ~Listed(m, k)
  BY <1>2, <1>3, <1>7 DEF DeliveryInv, ToldInv
<1>9. ClaimInv'
  <2>1. \A n \in Mint : claim'[n]["WATCH"] = "PENDING" => claim'[n]["BUY"] = "NONE"
    BY <1>2, <1>3, <1>4 DEF DeliveryInv, ClaimInv, Kind
  <2>2. \A t \in Session, n \in Mint, j \in Kind :
          pc'[t] = "record" /\ ticket'[t] = <<n, j>> => claim'[n][j] = "SENT"
    BY <1>1, <1>2, <1>3, <1>4, <1>5 DEF DeliveryInv, ClaimInv
  <2>3. \A t \in Session, n \in Mint, j \in Kind : Holds(t, n, j)' => claim'[n][j] = "PENDING"
    BY <1>4, <1>6 DEF DeliveryInv, ClaimInv
  <2>4. \A t, u \in Session, n \in Mint, i, j \in Kind :
          Holds(t, n, i)' /\ Holds(u, n, j)' => t = u
    BY <1>6 DEF DeliveryInv, ClaimInv
  <2>5. \A t, u \in Session : pc'[t] = "record" /\ pc'[u] = "record" /\ ticket'[t] = ticket'[u] => t = u
    BY <1>1, <1>5 DEF DeliveryInv, ClaimInv
  <2>6. QED
    BY <2>1, <2>2, <2>3, <2>4, <2>5 DEF ClaimInv
<1>10. TraceInv'
  <2>1. \A n \in Mint, j \in Kind : <<n, j>> \in stray => n # m
    BY <1>2, <1>3 DEF DeliveryInv, TraceInv
  <2>2. \A t \in Session : pc'[t] \in Holding \ {"persist"} => ticket'[t] \in pending_rows'
    BY <1>1, <1>5 DEF DeliveryInv, TraceInv
  <2>3. ASSUME NEW n \in Mint, NEW j \in Kind, <<n, j>> \in stray'
        PROVE  /\ claim'[n][j] = "PENDING" /\ <<n, j>> \in pending_rows' /\ ~Told(n, j)'
               /\ \A t \in Session, i \in Kind :
                    Holds(t, n, i)' => pc'[t] = "uncertain" /\ i = j
    <3>1. n # m /\ <<n, j>> \in stray
      BY <2>1, <2>3, <1>1
    <3>2. \A t \in Session, i \in Kind : Holds(t, n, i)' => Holds(t, n, i) /\ t # s
      BY <3>1, <1>6, <1>1 DEF Holds, Holding
    <3>3. /\ claim[n][j] = "PENDING" /\ <<n, j>> \in pending_rows /\ ~Told(n, j)
          /\ \A t \in Session, i \in Kind :
               Holds(t, n, i) => pc[t] = "uncertain" /\ i = j
      BY <3>1 DEF DeliveryInv, TraceInv
    <3>4. claim'[n][j] = "PENDING" /\ ~Told(n, j)'
      BY <3>1, <3>3, <1>1, <1>4, Frames
    <3>5. QED
      BY <3>2, <3>3, <3>4, <1>1, <1>5
  <2>4. QED
    BY <2>2, <2>3 DEF TraceInv
<1>11. ToldInv'
  <2>1. \A n \in Mint : delivered'[n] \in Promise!Kept
    BY <1>1 DEF DeliveryInv, ToldInv
  <2>2. \A n \in Mint, j \in Kind :
          /\ claim'[n][j] = "SENT" \/ Listed(n, j)' => Told(n, j)'
          /\ Told(n, j)' /\ claim'[n][j] = "NONE" => LegacyForbids(n, j)'
    BY <1>1, <1>4, Frames DEF DeliveryInv, ToldInv
  <2>3. \A t \in Session, n \in Mint, j \in Kind :
      Holds(t, n, j)' =>
         /\ ~Listed(n, j)'
         /\ pc'[t] \in {"persist", "deliver", "release"} \/ wire'[t] \in {"posted", "refused"}
              => ~Told(n, j)'
         /\ pc'[t] = "finish" \/ wire'[t] = "accepted" => Told(n, j)'
    <3>1. wire[s] = "none"
      BY <1>1 DEF DeliveryInv, MemoryInv
    <3> SUFFICES ASSUME NEW t \in Session, NEW n \in Mint, NEW j \in Kind, Holds(t, n, j)'
                 PROVE  /\ ~Listed(n, j)
                        /\ pc'[t] \in {"persist", "deliver", "release"}
                             \/ wire[t] \in {"posted", "refused"} => ~Told(n, j)
                        /\ pc'[t] = "finish" \/ wire[t] = "accepted" => Told(n, j)
      BY <1>1, Frames
    <3>2. CASE t = s
      <4>1. n = m /\ j = k
        BY <3>2, <1>1, <1>2 DEF Holds
      <4>2. QED
        BY <3>1, <3>2, <4>1, <1>5, <1>8
    <3>3. CASE t # s
      <4>1. Holds(t, n, j) /\ pc'[t] = pc[t]
        BY <3>3, <1>5, <1>6
      <4>2. QED
        BY <4>1 DEF DeliveryInv, ToldInv
    <3>4. QED
      BY <3>2, <3>3
  <2>4. QED
    BY <2>1, <2>2, <2>3 DEF ToldInv
<1>12. LegacyInv'
  <2>1. legacy_claim[m] = "NONE" \/ (legacy_claim[m] = "SENT" /\ k = "BUY")
    BY <1>2, <1>7 DEF LegacyForbids, LegacyKind, DeliveryInv, TypeOK, Status, Kind
  <2>2. \A n \in Mint, j \in Kind :
       claim'[n][j] # "NONE" =>
         legacy_claim[n] = "NONE" \/ (legacy_claim[n] = "SENT" /\ j = "BUY")
    BY <2>1, <1>4 DEF DeliveryInv, LegacyInv
  <2>3. \A t \in Session, n \in Mint, j \in Kind :
       pc'[t] = "insert" /\ ticket'[t] = <<n, j>> =>
         ~LegacyForbids(n, j)' \/ claim'[n]["BUY"] = "SENT"
    BY <1>1, <1>2, <1>3, <1>4, <1>5, Frames DEF DeliveryInv, LegacyInv, Kind
  <2>4. QED
    BY <2>2, <2>3, <1>1 DEF LegacyInv
<1>13. IndexNeverRefuses'
  BY <1>1, <1>5 DEF DeliveryInv, IndexNeverRefuses, Listed
<1>14. QED
  BY <1>9, <1>10, <1>11, <1>12, <1>13 DEF DeliveryInv

\* A message of a claimed kind that was not accepted before keeps the promise.
LEMMA MayAccept ==
  ASSUME DeliveryInv, NEW m \in Mint, NEW k \in Kind, Accept(m, k),
         claim[m][k] = "PENDING", ~Told(m, k)
  PROVE  /\ delivered[m] = <<>> \/ (delivered[m] = <<"WATCH">> /\ k = "BUY")
         /\ \A n \in Mint : delivered'[n] \in Promise!Kept
<1>1. delivered[m] \in Promise!Kept
  BY DEF DeliveryInv, ToldInv
<1>2. delivered[m] = <<>> \/ (delivered[m] = <<"WATCH">> /\ k = "BUY")
  <2>1. CASE k = "BUY"
    BY <1>1, <2>1, KeptFacts
  <2>2. CASE k = "WATCH"
    <3>1. claim[m]["BUY"] = "NONE" /\ legacy_claim[m] = "NONE"
      BY <2>2 DEF DeliveryInv, ClaimInv, LegacyInv
    <3>2. ~LegacyForbids(m, "BUY")
      BY <3>1 DEF LegacyForbids, LegacyKind
    <3>3. ~Told(m, "BUY")
      BY <3>1, <3>2 DEF DeliveryInv, ToldInv, Kind
    <3>4. QED
      BY <1>1, <2>2, <3>3, KeptFacts
  <2>3. QED
    BY <2>1, <2>2 DEF Kind
<1>3. delivered'[m] = Append(delivered[m], k)
  BY AcceptTells DEF DeliveryInv
<1>4. delivered'[m] \in Promise!Kept
  <2>1. CASE delivered[m] = <<>>
    <3>1. delivered'[m] = <<k>>
      BY <1>3, <2>1
    <3>2. QED
      BY <3>1 DEF Promise!Kept, Kind
  <2>2. CASE delivered[m] = <<"WATCH">> /\ k = "BUY"
    <3>1. Append(<<"WATCH">>, "BUY") = <<"WATCH", "BUY">>
      <4>1. /\ Append(<<"WATCH">>, "BUY") \in Seq(Kind) /\ <<"WATCH", "BUY">> \in Seq(Kind)
            /\ Len(Append(<<"WATCH">>, "BUY")) = 2 /\ Len(<<"WATCH", "BUY">>) = 2
            /\ \A i \in 1..2 : Append(<<"WATCH">>, "BUY")[i] = <<"WATCH", "BUY">>[i]
        BY DEF Kind
      <4>2. QED
        BY <4>1, SeqEqual
    <3>2. QED
      BY <1>3, <2>2, <3>1 DEF Promise!Kept
  <2>3. QED
    BY <1>2, <2>1, <2>2
<1>5. \A n \in Mint : n # m => delivered'[n] \in Promise!Kept
  BY AcceptTells DEF DeliveryInv, ToldInv
<1>6. QED
  BY <1>2, <1>4, <1>5

\* A process that waits for an answer holds its claim alone, with nothing astray.
LEMMA Waiting ==
  ASSUME DeliveryInv, NEW s \in Session, pc[s] \in Holding \ {"uncertain"}
  PROVE  /\ Holds(s, ticket[s][1], ticket[s][2])
         /\ claim[ticket[s][1]][ticket[s][2]] = "PENDING"
         /\ ~Listed(ticket[s][1], ticket[s][2])
         /\ \A t \in Session, j \in Kind : Holds(t, ticket[s][1], j) => t = s
         /\ \A j \in Kind : <<ticket[s][1], j>> \notin stray
<1>1. /\ ticket[s][1] \in Mint /\ ticket[s][2] \in Kind
      /\ Holds(s, ticket[s][1], ticket[s][2])
  BY AtWork DEF Engaged
<1>2. QED
  BY <1>1 DEF DeliveryInv, ClaimInv, TraceInv, ToldInv

\* Telegram accepts the message that is waited for.
LEMMA AcceptStep ==
  ASSUME DeliveryInv, TypeOK', MemoryInv', NEW s \in Session, TelegramAccepts(s)
  PROVE  DeliveryInv'
<1> DEFINE m == ticket[s][1]
           k == ticket[s][2]
<1>1. /\ UNCHANGED <<claim, legacy_claim, alerted, pending_rows, pc, ticket, stray>>
      /\ pc[s] = "await" /\ wire[s] = "posted" /\ wire'[s] = "accepted"
      /\ \A t \in Session : t # s => wire'[t] = wire[t]
      /\ Accept(m, k)
  BY DEF TelegramAccepts, DeliveryInv, TypeOK, MemoryInv, durable
<1>2. m \in Mint /\ k \in Kind /\ Holds(s, m, k) /\ claim[m][k] = "PENDING"
  BY <1>1, AtWork, Waiting DEF Engaged, Holding
<1>3. /\ \A t \in Session, j \in Kind : Holds(t, m, j) => t = s
      /\ \A j \in Kind : <<m, j>> \notin stray
  BY <1>1, Waiting DEF Holding
<1>4. ~Told(m, k)
  BY <1>1, <1>2 DEF DeliveryInv, ToldInv
<1>5. \A n \in Mint, j \in Kind : Told(n, j)' <=> Told(n, j) \/ (n = m /\ j = k)
  BY <1>1, <1>2, AcceptTells DEF DeliveryInv
<1>6. \A t \in Session, n \in Mint, j \in Kind : Holds(t, n, j)' <=> Holds(t, n, j)
  BY <1>1 DEF Holds
<1>7. ClaimInv'
  BY <1>1, ClaimQuiet DEF Engaged
<1>8. LegacyInv'
  BY <1>1, LegacyQuiet
<1>9. TraceInv'
  BY <1>1, <1>3, <1>5, <1>6 DEF DeliveryInv, TraceInv
<1>10. ToldInv'
  <2>1. \A n \in Mint : delivered'[n] \in Promise!Kept
    BY <1>1, <1>2, <1>4, MayAccept
  <2>2. \A n \in Mint, j \in Kind :
          /\ claim'[n][j] = "SENT" \/ Listed(n, j)' => Told(n, j)'
          /\ Told(n, j)' /\ claim'[n][j] = "NONE" => LegacyForbids(n, j)'
    BY <1>1, <1>2, <1>5, Frames DEF DeliveryInv, ToldInv
  <2>3. ASSUME NEW t \in Session, NEW n \in Mint, NEW j \in Kind, Holds(t, n, j)
        PROVE  /\ ~Listed(n, j)
               /\ pc[t] \in {"persist", "deliver", "release"}
                    \/ wire'[t] \in {"posted", "refused"} => ~Told(n, j)'
               /\ pc[t] = "finish" \/ wire'[t] = "accepted" => Told(n, j)'
    <3>1. CASE t = s
      BY <2>3, <3>1, <1>1, <1>5 DEF DeliveryInv, ToldInv, Holds
    <3>2. CASE t # s
      <4>1. n # m /\ wire'[t] = wire[t]
        BY <2>3, <3>2, <1>1, <1>3
      <4>2. QED
        BY <2>3, <4>1, <1>5 DEF DeliveryInv, ToldInv
    <3>3. QED
      BY <3>1, <3>2
  <2>4. QED
    BY <2>1, <2>2, <2>3, <1>1, <1>6, Frames DEF ToldInv
<1>11. IndexNeverRefuses'
  BY <1>1, Frames DEF DeliveryInv, IndexNeverRefuses, Listed
<1>12. QED
  BY <1>7, <1>8, <1>9, <1>10, <1>11 DEF DeliveryInv

\* A late acceptance of a message its sender gave up.
LEMMA StrayAcceptedStep ==
  ASSUME DeliveryInv, TypeOK', MemoryInv', NEW m \in Mint, NEW k \in Kind,
         StrayAccepted(m, k)
  PROVE  DeliveryInv'
<1>1. /\ UNCHANGED <<claim, legacy_claim, alerted, pending_rows, pc, ticket, wire>>
      /\ <<m, k>> \in stray /\ stray' = stray \ {<<m, k>>} /\ Accept(m, k)
  BY DEF StrayAccepted, durable, memory
<1>2. claim[m][k] = "PENDING" /\ ~Told(m, k)
  BY <1>1 DEF DeliveryInv, TraceInv
<1>3. \A t \in Session, j \in Kind : Holds(t, m, j) => pc[t] = "uncertain" /\ j = k
  BY <1>1 DEF DeliveryInv, TraceInv
<1>4. \A n \in Mint, j \in Kind : Told(n, j)' <=> Told(n, j) \/ (n = m /\ j = k)
  BY <1>1, AcceptTells DEF DeliveryInv
<1>5. \A t \in Session, n \in Mint, j \in Kind : Holds(t, n, j)' <=> Holds(t, n, j)
  BY <1>1 DEF Holds
<1>6. ClaimInv'
  BY <1>1, ClaimQuiet DEF Engaged
<1>7. LegacyInv'
  BY <1>1, LegacyQuiet
<1>8. TraceInv'
  BY <1>1, <1>4, <1>5 DEF DeliveryInv, TraceInv
<1>9. ToldInv'
  <2>1. \A n \in Mint : delivered'[n] \in Promise!Kept
    BY <1>1, <1>2, MayAccept
  <2>2. \A n \in Mint, j \in Kind :
          /\ claim'[n][j] = "SENT" \/ Listed(n, j)' => Told(n, j)'
          /\ Told(n, j)' /\ claim'[n][j] = "NONE" => LegacyForbids(n, j)'
    BY <1>1, <1>2, <1>4, Frames DEF DeliveryInv, ToldInv
  <2>3. ASSUME NEW t \in Session, NEW n \in Mint, NEW j \in Kind, Holds(t, n, j)
        PROVE  /\ ~Listed(n, j)
               /\ pc[t] \in {"persist", "deliver", "release"}
                    \/ wire[t] \in {"posted", "refused"} => ~Told(n, j)'
               /\ pc[t] = "finish" \/ wire[t] = "accepted" => Told(n, j)'
    <3>1. CASE n = m
      BY <2>3, <3>1, <1>3 DEF DeliveryInv, ToldInv, MemoryInv, TypeOK
    <3>2. CASE n # m
      BY <2>3, <3>2, <1>4 DEF DeliveryInv, ToldInv
    <3>3. QED
      BY <3>1, <3>2
  <2>4. QED
    BY <2>1, <2>2, <2>3, <1>1, <1>5, Frames DEF ToldInv
<1>10. IndexNeverRefuses'
  BY <1>1 DEF DeliveryInv, IndexNeverRefuses, Listed
<1>11. QED
  BY <1>6, <1>7, <1>8, <1>9, <1>10 DEF DeliveryInv

\* A message that never arrives.
LEMMA StrayLostStep ==
  ASSUME DeliveryInv, TypeOK', MemoryInv', NEW m \in Mint, NEW k \in Kind, StrayLost(m, k)
  PROVE  DeliveryInv'
<1>1. /\ UNCHANGED <<claim, legacy_claim, alerted, pending_rows, pc, ticket, wire, delivered>>
      /\ stray' \subseteq stray
  BY DEF StrayLost, durable, memory
<1>2. \A t \in Session, n \in Mint, j \in Kind : Holds(t, n, j)' <=> Holds(t, n, j)
  BY <1>1 DEF Holds
<1>3. ClaimInv' /\ LegacyInv'
  BY <1>1, ClaimQuiet, LegacyQuiet DEF Engaged
<1>4. TraceInv'
  BY <1>1, <1>2, Frames DEF DeliveryInv, TraceInv
<1>5. ToldInv'
  BY <1>1, <1>2, Frames DEF DeliveryInv, ToldInv
<1>6. IndexNeverRefuses'
  BY <1>1 DEF DeliveryInv, IndexNeverRefuses, Listed
<1>7. QED
  BY <1>3, <1>4, <1>5, <1>6 DEF DeliveryInv

\* The sender gives up, or dies, with a message that Telegram may still accept.
LEMMA GoneAstray ==
  ASSUME DeliveryInv, TypeOK', MemoryInv', NEW s \in Session, wire[s] = "posted",
         GoesAstray(s), UNCHANGED <<durable, delivered>>, wire'[s] = "none",
         \/ pc'[s] = "uncertain" /\ ticket'[s] = ticket[s]
         \/ pc'[s] = "idle",
         \A t \in Session : t # s => /\ pc'[t] = pc[t] /\ ticket'[t] = ticket[t]
                                     /\ wire'[t] = wire[t]
  PROVE  DeliveryInv'
<1>1. /\ UNCHANGED <<claim, legacy_claim, alerted, pending_rows, delivered>>
      /\ stray' = stray \cup {ticket[s]} /\ pc[s] = "await"
  BY DEF GoesAstray, durable, DeliveryInv, MemoryInv
<1>2. PICK m \in Mint, k \in Kind :
        ticket[s] = <<m, k>> /\ Holds(s, m, k) /\ claim[m][k] = "PENDING"
  BY <1>1, AtWork, Waiting DEF Engaged, Holding
<1>3. \A t \in Session, j \in Kind : Holds(t, m, j) => t = s
  BY <1>1, <1>2, Waiting DEF Holding
<1>4. ~Told(m, k) /\ <<m, k>> \in pending_rows
  BY <1>1, <1>2 DEF DeliveryInv, ToldInv, TraceInv, Holding
<1>5. \A t \in Session, n \in Mint, j \in Kind : Holds(t, n, j)' => Holds(t, n, j)
  BY <1>1 DEF Holds, Holding
<1>6. ClaimInv'
  BY <1>1, ClaimQuiet DEF Engaged, Holding
<1>7. LegacyInv'
  BY <1>1, LegacyQuiet
<1>8. TraceInv'
  <2>1. \A t \in Session : pc'[t] \in Holding \ {"persist"} => ticket'[t] \in pending_rows'
    BY <1>1 DEF DeliveryInv, TraceInv, Holding
  <2>2. ASSUME NEW n \in Mint, NEW j \in Kind, <<n, j>> \in stray'
        PROVE  /\ claim[n][j] = "PENDING" /\ <<n, j>> \in pending_rows /\ ~Told(n, j)
               /\ \A t \in Session, i \in Kind :
                    Holds(t, n, i)' => pc'[t] = "uncertain" /\ i = j
    <3>1. CASE <<n, j>> \in stray
      <4>1. /\ claim[n][j] = "PENDING" /\ <<n, j>> \in pending_rows /\ ~Told(n, j)
            /\ \A t \in Session, i \in Kind : Holds(t, n, i) => pc[t] = "uncertain" /\ i = j
        BY <3>1 DEF DeliveryInv, TraceInv
      <4>2. QED
        BY <4>1, <1>1, <1>5
    <3>2. CASE n = m /\ j = k
      <4>1. \A t \in Session, i \in Kind : Holds(t, m, i)' => t = s
        BY <1>2, <1>3, <1>5
      <4>2. ASSUME NEW i \in Kind, Holds(s, m, i)' PROVE pc'[s] = "uncertain" /\ i = k
        <5>1. pc'[s] = "uncertain" /\ ticket'[s] = ticket[s] /\ ticket'[s] = <<m, i>>
          BY <4>2 DEF Holds, Holding
        <5>2. <<m, i>> = <<m, k>>
          BY <5>1, <1>2, Zenon
        <5>3. i = k
          BY <5>2
        <5>4. QED
          BY <5>1, <5>3
      <4>3. /\ claim[n][j] = "PENDING" /\ <<n, j>> \in pending_rows /\ ~Told(n, j)
        BY <3>2, <1>2, <1>4
      <4>4. QED
        BY <3>2, <4>1, <4>2, <4>3
    <3>3. QED
      BY <2>2, <3>1, <3>2, <1>1, <1>2
  <2>3. QED
    BY <2>1, <2>2, <1>1, Frames DEF TraceInv
<1>9. ToldInv'
  <2>1. \A n \in Mint : delivered'[n] \in Promise!Kept
    BY <1>1 DEF DeliveryInv, ToldInv
  <2>2. \A n \in Mint, j \in Kind :
          /\ claim'[n][j] = "SENT" \/ Listed(n, j)' => Told(n, j)'
          /\ Told(n, j)' /\ claim'[n][j] = "NONE" => LegacyForbids(n, j)'
    BY <1>1, Frames DEF DeliveryInv, ToldInv
  <2>3. ASSUME NEW t \in Session, NEW n \in Mint, NEW j \in Kind, Holds(t, n, j)'
        PROVE  /\ ~Listed(n, j)
               /\ pc'[t] \in {"persist", "deliver", "release"}
                    \/ wire'[t] \in {"posted", "refused"} => ~Told(n, j)
               /\ pc'[t] = "finish" \/ wire'[t] = "accepted" => Told(n, j)
    <3>1. Holds(t, n, j)
      BY <2>3, <1>5
    <3>2. CASE t = s
      BY <3>1, <3>2 DEF DeliveryInv, ToldInv
    <3>3. CASE t # s
      BY <3>1, <3>3 DEF DeliveryInv, ToldInv
    <3>4. QED
      BY <3>2, <3>3
  <2>4. QED
    BY <2>1, <2>2, <2>3, <1>1, Frames DEF ToldInv
<1>10. IndexNeverRefuses'
  BY <1>1, Frames, AtWork DEF DeliveryInv, IndexNeverRefuses, Listed
<1>11. QED
  BY <1>6, <1>7, <1>8, <1>9, <1>10 DEF DeliveryInv

\* Its answer is lost.
LEMMA AnswerLostStep ==
  ASSUME DeliveryInv, TypeOK', MemoryInv', NEW s \in Session, AnswerLost(s)
  PROVE  DeliveryInv'
<1>1. /\ UNCHANGED <<durable, ticket, delivered>>
      /\ pc[s] = "await" /\ pc'[s] = "uncertain" /\ wire'[s] = "none"
      /\ \A t \in Session : t # s => pc'[t] = pc[t] /\ wire'[t] = wire[t]
      /\ GoesAstray(s)
  BY DEF AnswerLost, Goto, DeliveryInv, TypeOK
<1>2. CASE wire[s] = "posted"
  BY <1>1, <1>2, GoneAstray
<1>3. CASE wire[s] # "posted"
  <2>1. UNCHANGED <<claim, legacy_claim, alerted, pending_rows, delivered, stray, ticket>>
    BY <1>1, <1>3 DEF GoesAstray, durable
  <2>2. \A t \in Session, n \in Mint, j \in Kind : Holds(t, n, j)' <=> Holds(t, n, j)
    BY <1>1, <2>1 DEF Holds, Holding
  <2>3. ClaimInv' /\ LegacyInv'
    BY <1>1, <2>1, ClaimQuiet, LegacyQuiet DEF Engaged, Holding
  <2>4. TraceInv'
    <3>1. \A t \in Session : pc'[t] \in Holding \ {"persist"} => ticket'[t] \in pending_rows'
      BY <1>1, <2>1 DEF DeliveryInv, TraceInv, Holding
    <3>2. \A t \in Session : pc[t] = "uncertain" => pc'[t] = "uncertain"
      BY <1>1
    <3>3. QED
      BY <2>1, <2>2, <3>1, <3>2, Frames DEF DeliveryInv, TraceInv
  <2>5. ToldInv'
    BY <1>1, <2>1, <2>2, Frames DEF DeliveryInv, ToldInv
  <2>6. IndexNeverRefuses'
    BY <1>1, <2>1 DEF DeliveryInv, IndexNeverRefuses, Listed
  <2>7. QED
    BY <2>3, <2>4, <2>5, <2>6 DEF DeliveryInv
<1>4. QED
  BY <1>2, <1>3

\* A process dies, or gives its cycle up.
LEMMA AbandonStep ==
  ASSUME DeliveryInv, TypeOK', MemoryInv', NEW s \in Session, Abandon(s)
  PROVE  DeliveryInv'
<1>1. /\ UNCHANGED <<durable, delivered>>
      /\ pc'[s] = "idle" /\ wire'[s] = "none"
      /\ \A t \in Session : t # s => /\ pc'[t] = pc[t] /\ ticket'[t] = ticket[t]
                                     /\ wire'[t] = wire[t]
      /\ GoesAstray(s)
  BY DEF Abandon, Forget, DeliveryInv, TypeOK
<1>2. CASE wire[s] = "posted"
  BY <1>1, <1>2, GoneAstray
<1>3. CASE wire[s] # "posted"
  <2>1. UNCHANGED outside /\ UNCHANGED <<claim, legacy_claim, alerted>>
    BY <1>1, <1>3 DEF GoesAstray, outside, durable
  <2>2. LegacyInv'
    BY <1>1, <2>1, LegacyQuiet
  <2>3. QED
    BY <1>1, <2>1, <2>2, QuietStep DEF Engaged, Holding
<1>4. QED
  BY <1>2, <1>3

\* finish_signal settles the claim of a process that holds it.
LEMMA Settles ==
  ASSUME DeliveryInv, NEW m \in Mint, NEW k \in Kind, NEW accepted \in BOOLEAN,
         claim[m][k] = "PENDING", FinishSignal(m, k, accepted)
  PROVE  /\ claim'[m][k] = (IF accepted THEN "SENT" ELSE "NONE")
         /\ \A n \in Mint, j \in Kind : n # m \/ j # k => claim'[n][j] = claim[n][j]
BY DEF FinishSignal, DeliveryInv, TypeOK

\* The claim of an accepted message is settled.
LEMMA FinishStep ==
  ASSUME DeliveryInv, TypeOK', MemoryInv', NEW s \in Session, FinishAccepted(s)
  PROVE  DeliveryInv'
<1>1. /\ UNCHANGED <<legacy_claim, alerted, pending_rows, ticket, wire, stray, delivered>>
      /\ pc[s] = "finish" /\ pc'[s] = "record"
      /\ \A t \in Session : t # s => pc'[t] = pc[t]
      /\ FinishSignal(ticket[s][1], ticket[s][2], TRUE)
  BY DEF FinishAccepted, Goto, outside, DeliveryInv, TypeOK
<1>2. PICK m \in Mint, k \in Kind :
        /\ ticket[s] = <<m, k>> /\ ticket[s][1] = m /\ ticket[s][2] = k
        /\ Holds(s, m, k) /\ claim[m][k] = "PENDING" /\ ~Listed(m, k)
  BY <1>1, AtWork, Waiting DEF Engaged, Holding
<1>3. /\ \A t \in Session, j \in Kind : Holds(t, m, j) => t = s
      /\ \A j \in Kind : <<m, j>> \notin stray
  BY <1>1, <1>2, Waiting DEF Holding
<1>4. /\ claim'[m][k] = "SENT"
      /\ \A n \in Mint, j \in Kind : n # m \/ j # k => claim'[n][j] = claim[n][j]
  <2>1. FinishSignal(m, k, TRUE)
    BY <1>1, <1>2
  <2>2. QED
    BY <2>1, <1>2, Settles
<1>5. \A t \in Session, n \in Mint, j \in Kind :
        Holds(t, n, j)' <=> Holds(t, n, j) /\ t # s
  BY <1>1 DEF Holds, Holding
<1>6. \A t \in Session, n \in Mint, j \in Kind : Holds(t, n, j)' => n # m
  BY <1>3, <1>5
<1>7. Told(m, k)
  BY <1>1, <1>2 DEF DeliveryInv, ToldInv
<1>8. ClaimInv'
  <2>1. \A n \in Mint : claim'[n]["WATCH"] = "PENDING" => claim'[n]["BUY"] = "NONE"
    BY <1>2, <1>4 DEF DeliveryInv, ClaimInv, Kind
  <2>2. \A t \in Session, n \in Mint, j \in Kind : Holds(t, n, j)' => claim'[n][j] = "PENDING"
    BY <1>4, <1>5, <1>6 DEF DeliveryInv, ClaimInv
  <2>3. \A t, u \in Session, n \in Mint, i, j \in Kind :
          Holds(t, n, i)' /\ Holds(u, n, j)' => t = u
    BY <1>5 DEF DeliveryInv, ClaimInv
  <2>4. \A t \in Session : t # s /\ pc[t] = "record" => ticket[t] # <<m, k>>
    BY <1>2 DEF DeliveryInv, ClaimInv
  <2>5. \A t, u \in Session : pc'[t] = "record" /\ pc'[u] = "record" /\ ticket'[t] = ticket'[u] => t = u
    BY <1>1, <1>2, <2>4 DEF DeliveryInv, ClaimInv
  <2>6. ASSUME NEW t \in Session, NEW n \in Mint, NEW j \in Kind,
               pc'[t] = "record", ticket'[t] = <<n, j>>
        PROVE  claim'[n][j] = "SENT"
    <3>1. CASE t = s
      <4>1. <<n, j>> = <<m, k>>
        BY <2>6, <3>1, <1>1, <1>2, Zenon
      <4>2. QED
        BY <4>1, <1>4
    <3>2. CASE t # s
      <4>1. claim[n][j] = "SENT"
        BY <2>6, <3>2, <1>1 DEF DeliveryInv, ClaimInv
      <4>2. QED
        BY <4>1, <1>2, <1>4
    <3>3. QED
      BY <3>1, <3>2
  <2>7. QED
    BY <2>1, <2>2, <2>3, <2>5, <2>6 DEF ClaimInv
<1>9. TraceInv'
  <2>1. \A t \in Session : pc'[t] \in Holding \ {"persist"} => ticket'[t] \in pending_rows'
    BY <1>1 DEF DeliveryInv, TraceInv, Holding
  <2>2. ASSUME NEW n \in Mint, NEW j \in Kind, <<n, j>> \in stray
        PROVE  /\ claim'[n][j] = "PENDING" /\ <<n, j>> \in pending_rows /\ ~Told(n, j)
               /\ \A t \in Session, i \in Kind :
                    Holds(t, n, i)' => pc'[t] = "uncertain" /\ i = j
    <3>1. n # m
      BY <2>2, <1>3
    <3>2. /\ claim[n][j] = "PENDING" /\ <<n, j>> \in pending_rows /\ ~Told(n, j)
          /\ \A t \in Session, i \in Kind : Holds(t, n, i) => pc[t] = "uncertain" /\ i = j
      BY <2>2 DEF DeliveryInv, TraceInv
    <3>3. QED
      BY <3>1, <3>2, <1>1, <1>4, <1>5
  <2>3. QED
    BY <2>1, <2>2, <1>1, Frames DEF TraceInv
<1>10. ToldInv'
  <2>1. \A n \in Mint : delivered'[n] \in Promise!Kept
    BY <1>1 DEF DeliveryInv, ToldInv
  <2>2. \A n \in Mint, j \in Kind :
          /\ claim'[n][j] = "SENT" \/ Listed(n, j) => Told(n, j)
          /\ Told(n, j) /\ claim'[n][j] = "NONE" => LegacyForbids(n, j)
    BY <1>4, <1>7 DEF DeliveryInv, ToldInv
  <2>3. \A t \in Session, n \in Mint, j \in Kind :
          Holds(t, n, j)' =>
            /\ ~Listed(n, j)
            /\ pc'[t] \in {"persist", "deliver", "release"} \/ wire[t] \in {"posted", "refused"}
                 => ~Told(n, j)
            /\ pc'[t] = "finish" \/ wire[t] = "accepted" => Told(n, j)
    BY <1>1, <1>5 DEF DeliveryInv, ToldInv
  <2>4. QED
    BY <2>1, <2>2, <2>3, <1>1, Frames DEF ToldInv
<1>11. LegacyInv'
  <2>1. \A n \in Mint, j \in Kind :
          claim'[n][j] # "NONE" =>
            legacy_claim[n] = "NONE" \/ (legacy_claim[n] = "SENT" /\ j = "BUY")
    BY <1>2, <1>4 DEF DeliveryInv, LegacyInv
  <2>2. \A n \in Mint : claim[n]["BUY"] = "SENT" => claim'[n]["BUY"] = "SENT"
    BY <1>4 DEF Kind
  <2>3. \A t \in Session, n \in Mint, j \in Kind :
          pc'[t] = "insert" /\ ticket'[t] = <<n, j>> =>
            ~LegacyForbids(n, j) \/ claim'[n]["BUY"] = "SENT"
    BY <1>1, <2>2 DEF DeliveryInv, LegacyInv
  <2>4. QED
    BY <2>1, <2>3, <1>1, Frames DEF LegacyInv
<1>12. IndexNeverRefuses'
  BY <1>1, <1>2 DEF DeliveryInv, IndexNeverRefuses, Listed
<1>13. QED
  BY <1>8, <1>9, <1>10, <1>11, <1>12 DEF DeliveryInv

\* A refused or expired message: the claim can be given back, nothing was told.
LEMMA ReleaseStep ==
  ASSUME DeliveryInv, TypeOK', MemoryInv', NEW s \in Session, ReleaseRefused(s)
  PROVE  DeliveryInv'
<1>1. /\ UNCHANGED <<legacy_claim, alerted, pending_rows, stray, delivered>>
      /\ pc[s] = "release" /\ pc'[s] = "idle"
      /\ \A t \in Session : t # s => /\ pc'[t] = pc[t] /\ ticket'[t] = ticket[t]
                                     /\ wire'[t] = wire[t]
      /\ FinishSignal(ticket[s][1], ticket[s][2], FALSE)
  BY ZenonT(30) DEF ReleaseRefused, Forget, outside, DeliveryInv, TypeOK
<1>2. PICK m \in Mint, k \in Kind :
        /\ ticket[s] = <<m, k>> /\ ticket[s][1] = m /\ ticket[s][2] = k
        /\ Holds(s, m, k) /\ claim[m][k] = "PENDING" /\ ~Listed(m, k)
  BY <1>1, AtWork, Waiting DEF Engaged, Holding
<1>3. /\ \A t \in Session, j \in Kind : Holds(t, m, j) => t = s
      /\ \A j \in Kind : <<m, j>> \notin stray
  BY <1>1, <1>2, Waiting DEF Holding
<1>4. /\ claim'[m][k] = "NONE"
      /\ \A n \in Mint, j \in Kind : n # m \/ j # k => claim'[n][j] = claim[n][j]
  <2>1. FinishSignal(m, k, FALSE)
    BY <1>1, <1>2
  <2>2. QED
    BY <2>1, <1>2, Settles
<1>5. \A t \in Session, n \in Mint, j \in Kind :
        Holds(t, n, j)' <=> Holds(t, n, j) /\ t # s
  BY <1>1 DEF Holds, Holding
<1>6. \A t \in Session, n \in Mint, j \in Kind : Holds(t, n, j)' => n # m
  BY <1>3, <1>5
<1>7. ~Told(m, k)
  BY <1>1, <1>2 DEF DeliveryInv, ToldInv
<1>8. ClaimInv'
  <2>1. \A n \in Mint : claim'[n]["WATCH"] = "PENDING" => claim'[n]["BUY"] = "NONE"
    BY <1>2, <1>4 DEF DeliveryInv, ClaimInv, Kind
  <2>2. \A t \in Session, n \in Mint, j \in Kind : Holds(t, n, j)' => claim'[n][j] = "PENDING"
    BY <1>4, <1>5, <1>6 DEF DeliveryInv, ClaimInv
  <2>3. \A t, u \in Session, n \in Mint, i, j \in Kind :
          Holds(t, n, i)' /\ Holds(u, n, j)' => t = u
    BY <1>5 DEF DeliveryInv, ClaimInv
  <2>4. \A t, u \in Session : pc'[t] = "record" /\ pc'[u] = "record" /\ ticket'[t] = ticket'[u] => t = u
    BY <1>1 DEF DeliveryInv, ClaimInv
  <2>5. \A t \in Session, n \in Mint, j \in Kind :
          pc'[t] = "record" /\ ticket'[t] = <<n, j>> => claim'[n][j] = "SENT"
    BY <1>1, <1>2, <1>4 DEF DeliveryInv, ClaimInv
  <2>6. QED
    BY <2>1, <2>2, <2>3, <2>4, <2>5 DEF ClaimInv
<1>9. TraceInv'
  <2>1. \A t \in Session : pc'[t] \in Holding \ {"persist"} => ticket'[t] \in pending_rows'
    BY <1>1 DEF DeliveryInv, TraceInv, Holding
  <2>2. ASSUME NEW n \in Mint, NEW j \in Kind, <<n, j>> \in stray
        PROVE  /\ claim'[n][j] = "PENDING" /\ <<n, j>> \in pending_rows /\ ~Told(n, j)
               /\ \A t \in Session, i \in Kind :
                    Holds(t, n, i)' => pc'[t] = "uncertain" /\ i = j
    <3>1. n # m
      BY <2>2, <1>3
    <3>2. /\ claim[n][j] = "PENDING" /\ <<n, j>> \in pending_rows /\ ~Told(n, j)
          /\ \A t \in Session, i \in Kind : Holds(t, n, i) => pc[t] = "uncertain" /\ i = j
      BY <2>2 DEF DeliveryInv, TraceInv
    <3>3. QED
      BY <3>1, <3>2, <1>1, <1>4, <1>5
  <2>3. QED
    BY <2>1, <2>2, <1>1, Frames DEF TraceInv
<1>10. ToldInv'
  <2>1. \A n \in Mint : delivered'[n] \in Promise!Kept
    BY <1>1 DEF DeliveryInv, ToldInv
  <2>2. \A n \in Mint, j \in Kind :
          /\ claim'[n][j] = "SENT" \/ Listed(n, j) => Told(n, j)
          /\ Told(n, j) /\ claim'[n][j] = "NONE" => LegacyForbids(n, j)
    BY <1>4, <1>7 DEF DeliveryInv, ToldInv
  <2>3. \A t \in Session, n \in Mint, j \in Kind :
          Holds(t, n, j)' =>
            /\ ~Listed(n, j)
            /\ pc'[t] \in {"persist", "deliver", "release"} \/ wire'[t] \in {"posted", "refused"}
                 => ~Told(n, j)
            /\ pc'[t] = "finish" \/ wire'[t] = "accepted" => Told(n, j)
    BY <1>1, <1>5 DEF DeliveryInv, ToldInv
  <2>4. QED
    BY <2>1, <2>2, <2>3, <1>1, Frames DEF ToldInv
<1>11. LegacyInv'
  <2>1. \A n \in Mint, j \in Kind :
          claim'[n][j] # "NONE" =>
            legacy_claim[n] = "NONE" \/ (legacy_claim[n] = "SENT" /\ j = "BUY")
    BY <1>2, <1>4 DEF DeliveryInv, LegacyInv
  <2>2. \A n \in Mint : claim[n]["BUY"] = "SENT" => claim'[n]["BUY"] = "SENT"
    BY <1>2, <1>4 DEF Kind
  <2>3. \A t \in Session, n \in Mint, j \in Kind :
          pc'[t] = "insert" /\ ticket'[t] = <<n, j>> =>
            ~LegacyForbids(n, j) \/ claim'[n]["BUY"] = "SENT"
    BY <1>1, <2>2 DEF DeliveryInv, LegacyInv
  <2>4. QED
    BY <2>1, <2>3, <1>1, Frames DEF LegacyInv
<1>12. IndexNeverRefuses'
  BY <1>1 DEF DeliveryInv, IndexNeverRefuses, Listed
<1>13. QED
  BY <1>8, <1>9, <1>10, <1>11, <1>12 DEF DeliveryInv

\* The alerted=1 row of a kind that was told, and that no other process holds.
LEMMA RecordStep ==
  ASSUME DeliveryInv, TypeOK', MemoryInv', NEW s \in Session, RecordAlerted(s)
  PROVE  DeliveryInv'
<1>1. /\ UNCHANGED <<claim, legacy_claim, pending_rows, stray, delivered>>
      /\ pc[s] = "record" /\ pc'[s] = "idle"
      /\ \A t \in Session : t # s => /\ pc'[t] = pc[t] /\ ticket'[t] = ticket[t]
                                     /\ wire'[t] = wire[t]
  BY DEF RecordAlerted, Forget, outside, DeliveryInv, TypeOK
<1>2. PICK m \in Mint, k \in Kind :
        /\ ticket[s] = <<m, k>> /\ ticket[s][1] = m /\ ticket[s][2] = k
        /\ claim[m][k] = "SENT" /\ ~Listed(m, k)
  <2>1. /\ ticket[s][1] \in Mint /\ ticket[s][2] \in Kind
        /\ ticket[s] = <<ticket[s][1], ticket[s][2]>>
    BY <1>1, AtWork DEF Engaged
  <2>2. claim[ticket[s][1]][ticket[s][2]] = "SENT" /\ ~Listed(ticket[s][1], ticket[s][2])
    BY <1>1, <2>1 DEF DeliveryInv, ClaimInv, IndexNeverRefuses
  <2>3. QED
    BY <2>1, <2>2
<1>3. alerted' = [alerted EXCEPT ![m] = Append(@, k)]
  BY <1>2 DEF RecordAlerted
<1>4. /\ \A n \in Mint : n # m => alerted'[n] = alerted[n]
      /\ alerted[m] \in Seq(Kind \cup {"LEGACY"})
      /\ alerted'[m] = Append(alerted[m], k)
  BY <1>3 DEF DeliveryInv, TypeOK
<1>5. /\ DOMAIN alerted'[m] = 1..(Len(alerted[m]) + 1)
      /\ DOMAIN alerted[m] = 1..Len(alerted[m])
      /\ Len(alerted'[m]) = Len(alerted[m]) + 1
      /\ alerted'[m][Len(alerted[m]) + 1] = k
      /\ \A i \in 1..Len(alerted[m]) : alerted'[m][i] = alerted[m][i]
      /\ Len(alerted[m]) \in Nat /\ alerted'[m] # <<>>
  BY <1>4
<1>6. \A n \in Mint, j \in Kind : Listed(n, j)' <=> Listed(n, j) \/ (n = m /\ j = k)
  <2>1. ASSUME NEW j \in Kind PROVE Listed(m, j)' <=> Listed(m, j) \/ j = k
    <3>1. Listed(m, j)' => Listed(m, j) \/ j = k
      BY <1>5 DEF Listed
    <3>2. Listed(m, j) => Listed(m, j)'
      BY <1>5 DEF Listed
    <3>3. j = k => Listed(m, j)'
      BY <1>5 DEF Listed
    <3>4. QED
      BY <3>1, <3>2, <3>3
  <2>2. \A n \in Mint, j \in Kind : n # m => (Listed(n, j)' <=> Listed(n, j))
    BY <1>4 DEF Listed
  <2>3. QED
    BY <2>1, <2>2
<1>7. legacy_claim[m] = "NONE" \/ (legacy_claim[m] = "SENT" /\ k = "BUY")
  BY <1>2 DEF DeliveryInv, LegacyInv
<1>8. \A n \in Mint, j \in Kind : LegacyForbids(n, j) => LegacyForbids(n, j)'
  <2>1. CASE legacy_claim[m] = "NONE"
    BY <2>1, <1>1, <1>4 DEF LegacyForbids, LegacyKind
  <2>2. CASE legacy_claim[m] = "SENT" /\ k = "BUY"
    <3>1. \A j \in Kind : LegacyForbids(m, j)'
      BY <2>2, <1>1, <1>5 DEF LegacyForbids, LegacyKind
    <3>2. QED
      BY <3>1, <1>1, <1>4 DEF LegacyForbids, LegacyKind
  <2>3. QED
    BY <2>1, <2>2, <1>7
<1>9. \A n \in Mint, j \in Kind :
        LegacyForbids(n, j)' => LegacyForbids(n, j) \/ claim[n]["BUY"] = "SENT"
  <2>1. ASSUME NEW j \in Kind, LegacyForbids(m, j)'
        PROVE  claim[m]["BUY"] = "SENT"
    BY <2>1, <1>1, <1>2, <1>7 DEF LegacyForbids, LegacyKind
  <2>2. \A n \in Mint, j \in Kind : n # m /\ LegacyForbids(n, j)' => LegacyForbids(n, j)
    BY <1>1, <1>4 DEF LegacyForbids, LegacyKind
  <2>3. QED
    BY <2>1, <2>2
<1>10. \A t \in Session, n \in Mint, j \in Kind :
         Holds(t, n, j)' => Holds(t, n, j) /\ t # s /\ (n # m \/ j # k)
  BY <1>1, <1>2 DEF Holds, Holding, DeliveryInv, ClaimInv
<1>11. ClaimInv'
  BY <1>1, ClaimQuiet DEF Engaged, Holding
<1>12. TraceInv'
  BY <1>1, <1>10, Frames DEF DeliveryInv, TraceInv, Holding
<1>13. ToldInv'
  <2>1. \A n \in Mint : delivered'[n] \in Promise!Kept
    BY <1>1 DEF DeliveryInv, ToldInv
  <2>2. \A n \in Mint, j \in Kind :
          /\ claim[n][j] = "SENT" \/ Listed(n, j)' => Told(n, j)
          /\ Told(n, j) /\ claim[n][j] = "NONE" => LegacyForbids(n, j)'
    BY <1>2, <1>6, <1>8 DEF DeliveryInv, ToldInv
  <2>3. \A t \in Session, n \in Mint, j \in Kind :
          Holds(t, n, j)' =>
            /\ ~Listed(n, j)'
            /\ pc'[t] \in {"persist", "deliver", "release"} \/ wire'[t] \in {"posted", "refused"}
                 => ~Told(n, j)
            /\ pc'[t] = "finish" \/ wire'[t] = "accepted" => Told(n, j)
    BY <1>1, <1>6, <1>10 DEF DeliveryInv, ToldInv
  <2>4. QED
    BY <2>1, <2>2, <2>3, <1>1, Frames DEF ToldInv
<1>14. LegacyInv'
  <2>1. \A n \in Mint, j \in Kind :
          claim'[n][j] # "NONE" =>
            legacy_claim[n] = "NONE" \/ (legacy_claim[n] = "SENT" /\ j = "BUY")
    BY <1>1 DEF DeliveryInv, LegacyInv
  <2>2. \A t \in Session, n \in Mint, j \in Kind :
          pc'[t] = "insert" /\ ticket'[t] = <<n, j>> =>
            ~LegacyForbids(n, j)' \/ claim'[n]["BUY"] = "SENT"
    BY <1>1, <1>9 DEF DeliveryInv, LegacyInv
  <2>3. QED
    BY <2>1, <2>2, <1>1 DEF LegacyInv
<1>15. IndexNeverRefuses'
  <2>1. ASSUME NEW t \in Session, pc'[t] = "record"
        PROVE  \A i \in DOMAIN alerted'[ticket'[t][1]] :
                 alerted'[ticket'[t][1]][i] # ticket'[t][2]
    <3>1. t # s /\ pc[t] = "record" /\ ticket'[t] = ticket[t]
      BY <2>1, <1>1
    <3>2. ticket[t][1] \in Mint /\ ticket[t][2] \in Kind
          /\ ticket[t] = <<ticket[t][1], ticket[t][2]>>
      BY <3>1, AtWork DEF Engaged
    <3>3. ticket[t] # ticket[s]
      BY <3>1, <1>1 DEF DeliveryInv, ClaimInv
    <3>4. ~(ticket[t][1] = m /\ ticket[t][2] = k)
      BY <3>2, <3>3, <1>2
    <3>5. ~Listed(ticket[t][1], ticket[t][2])
      BY <3>1 DEF DeliveryInv, IndexNeverRefuses
    <3>6. \A i \in DOMAIN alerted'[ticket[t][1]] :
            alerted'[ticket[t][1]][i] # ticket[t][2]
      BY <3>2, <3>4, <3>5, <1>6 DEF Listed
    <3>7. QED
      BY <3>1, <3>6
  <2>2. QED
    BY <2>1 DEF IndexNeverRefuses, Listed
<1>16. QED
  BY <1>11, <1>12, <1>13, <1>14, <1>15 DEF DeliveryInv

\* Steps of a cycle that has not claimed yet, or that is forgotten.
LEMMA BeforeClaim ==
  ASSUME DeliveryInv, TypeOK', MemoryInv', NEW s \in Session,
         UNCHANGED <<durable, outside>>, pc'[s] \notin Engaged \cup {"insert"},
         \A t \in Session : t # s => /\ pc'[t] = pc[t] /\ ticket'[t] = ticket[t]
                                     /\ wire'[t] = wire[t]
  PROVE  DeliveryInv'
<1>1. UNCHANGED <<claim, legacy_claim, alerted>>
  BY DEF durable
<1>2. LegacyInv'
  BY <1>1, LegacyQuiet
<1>3. QED
  BY <1>2, QuietStep DEF Engaged

\* The read of the legacy tables lets a process go on to the claiming INSERT.
LEMMA ReadLegacyStep ==
  ASSUME DeliveryInv, TypeOK', MemoryInv', NEW s \in Session, ClaimReadsLegacy(s)
  PROVE  DeliveryInv'
<1>1. CASE LegacyForbids(ticket[s][1], ticket[s][2])
  <2>1. /\ UNCHANGED <<durable, outside>> /\ pc'[s] = "review"
        /\ \A t \in Session : t # s => /\ pc'[t] = pc[t] /\ ticket'[t] = ticket[t]
                                       /\ wire'[t] = wire[t]
    BY <1>1 DEF ClaimReadsLegacy, TryNext, DeliveryInv, TypeOK
  <2>2. QED
    BY <2>1, BeforeClaim DEF Engaged, Holding
<1>2. CASE ~LegacyForbids(ticket[s][1], ticket[s][2])
  <2>1. /\ UNCHANGED <<durable, outside, ticket, wire>> /\ pc'[s] = "insert"
        /\ \A t \in Session : t # s => pc'[t] = pc[t]
    BY <1>2 DEF ClaimReadsLegacy, Goto, DeliveryInv, TypeOK
  <2>2. UNCHANGED <<claim, legacy_claim, alerted>>
    BY <2>1 DEF durable
  <2>3. ASSUME NEW t \in Session, NEW m \in Mint, NEW k \in Kind,
               pc'[t] = "insert", ticket'[t] = <<m, k>>
        PROVE  ~LegacyForbids(m, k) \/ claim[m]["BUY"] = "SENT"
    <3>1. CASE t = s
      <4>1. ticket[s] = <<m, k>>
        BY <2>1, <2>3, <3>1
      <4>2. ticket[s][1] = m /\ ticket[s][2] = k
        BY <4>1
      <4>3. QED
        BY <1>2, <4>2
    <3>2. CASE t # s
      BY <2>1, <2>3, <3>2 DEF DeliveryInv, LegacyInv
    <3>3. QED
      BY <3>1, <3>2
  <2>4. LegacyInv'
    BY <2>2, <2>3, Frames DEF DeliveryInv, LegacyInv
  <2>5. QED
    BY <2>1, <2>4, QuietStep DEF Engaged, Holding
<1>3. QED
  BY <1>1, <1>2

\* Every step keeps the invariant.
LEMMA NextDelivery == DeliveryInv /\ [Next]_vars => DeliveryInv'
<1> SUFFICES ASSUME DeliveryInv, [Next]_vars PROVE DeliveryInv'
  OBVIOUS
<1>1. TypeOK' /\ MemoryInv'
  BY NextTypes DEF DeliveryInv
<1> USE <1>1
<1>2. ASSUME NEW s \in Session, NEW found \in SUBSET Mint, Discover(s, found)
      PROVE  DeliveryInv'
  <2>1. /\ UNCHANGED <<durable, outside, ticket, wire>> /\ pc'[s] = "evaluate"
        /\ \A t \in Session : t # s => pc'[t] = pc[t]
    BY <1>2 DEF Discover, Goto, DeliveryInv, TypeOK
  <2>2. QED
    BY <2>1, BeforeClaim DEF Engaged, Holding
<1>3. ASSUME NEW s \in Session, NEW m \in Mint, NEW passes \in BOOLEAN, Evaluate(s, m, passes)
      PROVE  DeliveryInv'
  <2>1. UNCHANGED <<durable, outside, pc, ticket, wire>> /\ pc[s] = "evaluate"
    BY <1>3 DEF Evaluate
  <2>2. QED
    BY <2>1, BeforeClaim DEF Engaged, Holding
<1>4. ASSUME NEW s \in Session, NEW young \in SUBSET Mint, Rank(s, young)
      PROVE  DeliveryInv'
  <2>1. /\ UNCHANGED <<durable, outside, ticket, wire>> /\ pc'[s] = "review"
        /\ \A t \in Session : t # s => pc'[t] = pc[t]
    BY <1>4 DEF Rank, Goto, DeliveryInv, TypeOK
  <2>2. QED
    BY <2>1, BeforeClaim DEF Engaged, Holding
<1>5. ASSUME NEW s \in Session, NEW m \in Mint, Decline(s, m) PROVE DeliveryInv'
  <2>1. UNCHANGED <<durable, outside, pc, ticket, wire>> /\ pc[s] = "review"
    BY <1>5 DEF Decline
  <2>2. QED
    BY <2>1, BeforeClaim DEF Engaged, Holding
<1>6. ASSUME NEW s \in Session, NEW m \in Mint, NEW k \in Kind, Prepare(s, m, k)
      PROVE  DeliveryInv'
  <2>1. /\ UNCHANGED <<durable, outside, wire>> /\ pc'[s] = "legacy"
        /\ \A t \in Session : t # s => pc'[t] = pc[t] /\ ticket'[t] = ticket[t]
    BY <1>6 DEF Prepare, Goto, DeliveryInv, TypeOK
  <2>2. QED
    BY <2>1, BeforeClaim DEF Engaged, Holding
<1>7. ASSUME NEW s \in Session, ClaimInserts(s) PROVE DeliveryInv'
  <2>1. CASE RowForbids(ticket[s][1], ticket[s][2])
    <3>1. /\ UNCHANGED <<durable, outside>> /\ pc'[s] = "review"
          /\ \A t \in Session : t # s => /\ pc'[t] = pc[t] /\ ticket'[t] = ticket[t]
                                         /\ wire'[t] = wire[t]
      BY <1>7, <2>1 DEF ClaimInserts, TryNext, DeliveryInv, TypeOK
    <3>2. QED
      BY <3>1, BeforeClaim DEF Engaged, Holding
  <2>2. CASE ~RowForbids(ticket[s][1], ticket[s][2])
    BY <1>7, <2>2, InsertStep
  <2>3. QED
    BY <2>1, <2>2
<1>8. ASSUME NEW s \in Session, NoWinner(s) \/ KeepUncertain(s) PROVE DeliveryInv'
  <2>1. /\ UNCHANGED <<durable, outside>> /\ pc'[s] = "idle"
        /\ \A t \in Session : t # s => /\ pc'[t] = pc[t] /\ ticket'[t] = ticket[t]
                                       /\ wire'[t] = wire[t]
    BY <1>8 DEF NoWinner, KeepUncertain, Forget, DeliveryInv, TypeOK
  <2>2. QED
    BY <2>1, BeforeClaim DEF Engaged, Holding
<1>9. ASSUME UNCHANGED vars PROVE DeliveryInv'
  <2>1. UNCHANGED <<durable, outside, pc, ticket, wire, claim, legacy_claim, alerted>>
    BY <1>9 DEF vars, durable, outside
  <2>2. LegacyInv'
    BY <2>1, LegacyQuiet
  <2>3. QED
    BY <2>1, <2>2, QuietStep
<1>10. QED
  BY <1>2, <1>3, <1>4, <1>5, <1>6, <1>7, <1>8, <1>9, ReadLegacyStep, DeliverySteps,
     AnswerLostStep, FinishStep, ReleaseStep, RecordStep, AcceptStep, AbandonStep,
     StrayAcceptedStep, StrayLostStep
     DEF Next, Work

(***************************************************************************)
(* The inductive invariant holds for any number of processes and mints,    *)
(* over any history of an earlier build and whatever the network does.     *)
(***************************************************************************)
THEOREM DeliveryInvariant == Spec => []DeliveryInv
<1>1. QED
  BY InitDelivery, NextDelivery, PTL DEF Spec

(***************************************************************************)
(* A process that comes to store its alerted=1 observation finds no row of *)
(* that kind: claims of this build and of the earlier one exclude it.      *)
(***************************************************************************)
THEOREM CommitNeverRefused == Spec => []IndexNeverRefuses
<1>1. DeliveryInv => IndexNeverRefuses
  BY DEF DeliveryInv
<1> QED BY <1>1, DeliveryInvariant, PTL

(***************************************************************************)
(* A SENT claim and an alerted=1 observation are of messages that Telegram *)
(* accepted (finish_signal and the commit after an accepted delivery).     *)
(***************************************************************************)
THEOREM HistoryTrue == Spec => []HistoryIsTrue
<1>1. DeliveryInv => HistoryIsTrue
  BY DEF DeliveryInv, ToldInv, HistoryIsTrue
<1>2. QED
  BY <1>1, DeliveryInvariant, PTL

(***************************************************************************)
(* A message that may still be accepted has its PENDING claim and its      *)
(* ALERT_PENDING observation on disk (run_cycle persists before the send). *)
(***************************************************************************)
THEOREM Traced == Spec => []TraceBeforeMessage
<1>1. ASSUME DeliveryInv, NEW m \in Mint, NEW k \in Kind, UnderWay(m, k)
      PROVE  claim[m][k] = "PENDING" /\ <<m, k>> \in pending_rows /\ ~Told(m, k)
  <2>1. CASE <<m, k>> \in stray
    BY <1>1, <2>1 DEF DeliveryInv, TraceInv
  <2>2. ASSUME NEW s \in Session, wire[s] = "posted", ticket[s] = <<m, k>>
        PROVE  claim[m][k] = "PENDING" /\ <<m, k>> \in pending_rows /\ ~Told(m, k)
    <3>1. pc[s] = "await"
      BY <1>1, <2>2 DEF DeliveryInv, MemoryInv
    <3>2. Holds(s, m, k)
      BY <2>2, <3>1 DEF Holds, Holding
    <3>3. claim[m][k] = "PENDING" /\ ~Told(m, k)
      BY <1>1, <2>2, <3>2 DEF DeliveryInv, ClaimInv, ToldInv
    <3>4. ticket[s] \in pending_rows
      BY <1>1, <3>1 DEF DeliveryInv, TraceInv, Holding
    <3>5. QED
      BY <2>2, <3>3, <3>4
  <2>3. QED
    BY <1>1, <2>1, <2>2 DEF UnderWay
<1>2. DeliveryInv => TraceBeforeMessage
  BY <1>1 DEF TraceBeforeMessage
<1>3. QED
  BY <1>2, DeliveryInvariant, PTL
-----------------------------------------------------------------------------
(* The promise and the ownership of claims *)

\* Only Telegram's acceptance changes the messages, and it takes a promised step.
LEMMA StepsKeepPromise == DeliveryInv /\ [Next]_vars => [Promise!Next]_delivered
<1> SUFFICES ASSUME DeliveryInv, [Next]_vars PROVE [Promise!Next]_delivered
  OBVIOUS
<1>1. ASSUME NEW m \in Mint, NEW k \in Kind, Accept(m, k),
             claim[m][k] = "PENDING", ~Told(m, k)
      PROVE  Promise!Next
  <2>1. Promise!Tell(m, k)
    BY <1>1, MayAccept DEF Accept, Promise!Tell
  <2>2. QED
    BY <2>1 DEF Promise!Next, Promise!Kind, Kind
<1>2. ASSUME NEW s \in Session, TelegramAccepts(s) PROVE Promise!Next
  <2>1. pc[s] = "await" /\ wire[s] = "posted" /\ Accept(ticket[s][1], ticket[s][2])
    BY <1>2 DEF TelegramAccepts, DeliveryInv, MemoryInv
  <2>2. PICK m \in Mint, k \in Kind :
          /\ ticket[s][1] = m /\ ticket[s][2] = k
          /\ Holds(s, m, k) /\ claim[m][k] = "PENDING"
    BY <2>1, AtWork, Waiting DEF Engaged, Holding
  <2>3. Accept(m, k) /\ ~Told(m, k)
    BY <2>1, <2>2 DEF DeliveryInv, ToldInv
  <2>4. QED
    BY <1>1, <2>2, <2>3
<1>3. ASSUME NEW m \in Mint, NEW k \in Kind, StrayAccepted(m, k) PROVE Promise!Next
  <2>1. Accept(m, k) /\ claim[m][k] = "PENDING" /\ ~Told(m, k)
    BY <1>3 DEF StrayAccepted, DeliveryInv, TraceInv
  <2>2. QED
    BY <1>1, <2>1
<1>4. ASSUME NEW m \in Mint, NEW k \in Kind, StrayLost(m, k) PROVE UNCHANGED delivered
  BY <1>4 DEF StrayLost
<1>5. ASSUME NEW s \in Session,
             Work(s) \/ TelegramRefuses(s) \/ Abandon(s)
      PROVE  UNCHANGED delivered
  BY <1>5 DEF Work, TelegramRefuses, Abandon, Discover, Evaluate, Rank, Decline, Prepare,
     ClaimReadsLegacy, ClaimInserts, TryNext, NoWinner, PersistCycle, DropExpired, Post,
     AnswerAccepted, AnswerRefused, AnswerLost, KeepUncertain, FinishAccepted,
     ReleaseRefused, RecordAlerted, outside
<1>6. QED
  BY <1>2, <1>3, <1>4, <1>5 DEF Next, vars

(***************************************************************************)
(* The run_cycle, claim tables and TelegramSender of any number of         *)
(* processes implement the promise: at most one WATCH and one BUY per mint *)
(* and no WATCH after a BUY.                                               *)
(***************************************************************************)
THEOREM PromiseKept == Spec => KeepsPromise
<1>1. Init => Promise!Init
  <2> SUFFICES ASSUME Init PROVE Promise!Init
    OBVIOUS
  <2>1. delivered \in [Mint -> Seq(Kind)]
    BY InitTypes DEF TypeOK
  <2>2. \A m \in Mint : delivered[m] \in Promise!Kept
    BY InitDelivery DEF DeliveryInv, ToldInv
  <2>3. QED
    BY <2>1, <2>2 DEF Promise!Init
<1>2. QED
  BY <1>1, StepsKeepPromise, DeliveryInvariant, PTL DEF Spec, KeepsPromise, Promise!Spec

(***************************************************************************)
(* A PENDING claim that no process holds any more is changed by nothing:   *)
(* neither settled nor released, and no other kind of its mint is claimed. *)
(***************************************************************************)
THEOREM OnlyHolder == Spec => OnlyHolderSettles
<1> DEFINE Kept(m, k) ==
      claim[m][k] = "PENDING" /\ (\A s \in Session : ~Holds(s, m, k))
        => claim'[m] = claim[m]
<1>1. ASSUME DeliveryInv, [Next]_vars, NEW m \in Mint, NEW k \in Kind,
             claim[m][k] = "PENDING", \A s \in Session : ~Holds(s, m, k)
      PROVE  claim'[m] = claim[m]
  <2>1. ASSUME NEW s \in Session, ClaimInserts(s) PROVE claim'[m] = claim[m]
    <3>1. CASE RowForbids(ticket[s][1], ticket[s][2])
      BY <2>1, <3>1 DEF ClaimInserts, TryNext, durable
    <3>2. CASE ~RowForbids(ticket[s][1], ticket[s][2])
      <4>1. claim' = [claim EXCEPT ![ticket[s][1]][ticket[s][2]] = "PENDING"]
        BY <2>1, <3>2 DEF ClaimInserts
      <4>2. ticket[s][1] # m
        BY <1>1, <3>2 DEF RowForbids
      <4>3. QED
        BY <1>1, <4>1, <4>2 DEF DeliveryInv, TypeOK
    <3>3. QED
      BY <3>1, <3>2
  <2>2. ASSUME NEW s \in Session, NEW accepted \in BOOLEAN, pc[s] \in {"finish", "release"},
               FinishSignal(ticket[s][1], ticket[s][2], accepted)
        PROVE  claim'[m] = claim[m]
    <3>1. PICK n \in Mint, j \in Kind :
            /\ ticket[s][1] = n /\ ticket[s][2] = j
            /\ Holds(s, n, j) /\ claim[n][j] = "PENDING"
      BY <1>1, <2>2, AtWork, Waiting DEF Engaged, Holding
    <3>2. n # m
      BY <1>1, <3>1 DEF DeliveryInv, ClaimInv, Kind
    <3>3. QED
      BY <1>1, <2>2, <3>1, <3>2 DEF FinishSignal, DeliveryInv, TypeOK
  <2>3. ASSUME NEW s \in Session, FinishAccepted(s) PROVE claim'[m] = claim[m]
    BY <2>2, <2>3 DEF FinishAccepted, Goto
  <2>4. ASSUME NEW s \in Session, ReleaseRefused(s) PROVE claim'[m] = claim[m]
    BY <2>2, <2>4 DEF ReleaseRefused
  <2>5. ASSUME ~ \E s \in Session : ClaimInserts(s) \/ FinishAccepted(s) \/ ReleaseRefused(s)
        PROVE  UNCHANGED claim
    BY <1>1, <2>5 DEF Next, Work, TelegramAccepts, TelegramRefuses, Abandon, StrayAccepted,
       StrayLost, Discover, Evaluate, Rank, Decline, Prepare, ClaimReadsLegacy, TryNext,
       NoWinner, PersistCycle, DropExpired, Post, AnswerAccepted, AnswerRefused, AnswerLost,
       KeepUncertain, RecordAlerted, durable, vars
  <2>6. QED
    BY <2>1, <2>3, <2>4, <2>5
<1>2. DeliveryInv /\ [Next]_vars => [\A m \in Mint, k \in Kind : Kept(m, k)]_vars
  BY <1>1
<1>3. QED
  BY <1>2, DeliveryInvariant, PTL DEF Spec, OnlyHolderSettles
=============================================================================
