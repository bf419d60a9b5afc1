--------------------------- MODULE XSearch_proofs ---------------------------
(***************************************************************************)
(* The safety of the providers and the operator's messages, for any number *)
(* of backends and forensic queries and any cooldown: BreakerInv of        *)
(* XSearch is inductive, a warning that was read is still in flight or in  *)
(* the verdict, and every message out of schedule names a new denial.      *)
(***************************************************************************)
EXTENDS XSearch, FiniteSetTheorems, TLAPS

Cases == {"scan", "rpc", "mentions", "forensic", "send", "asleep"}

(* TypeOK, by the parts the actions change *)

BreakerTypes ==
  /\ access_denied \subseteq Backend /\ raced \subseteq access_denied
  /\ retry_after \in [Backend -> 0..Cooldown]
  /\ failures \in [Backend -> Code]

FlightTypes == flight \in [Search -> [Backend -> {"idle", "out"} \cup Answered]]

RpcTypes ==
  /\ rpc \in [denied : BOOLEAN, error : Code, resting : BOOLEAN]
  /\ attempt \in 0..3

CycleTypes ==
  /\ pc \in Cases
  /\ verdict \in {"none", "clear", "rejected", "deferred"}
  /\ warned \in BOOLEAN

OperatorTypes ==
  /\ reported \subseteq {Action, Rpc} /\ silence \in 0..Quiet
  /\ told \subseteq Backend \cup {Rpc}
  /\ alarms \in Nat

\* The parts of TypeOK.
LEMMA TypeParts ==
  TypeOK <=> BreakerTypes /\ FlightTypes /\ RpcTypes /\ CycleTypes /\ OperatorTypes
BY DEF TypeOK, BreakerTypes, FlightTypes, RpcTypes, CycleTypes, OperatorTypes, Cases

\* The kinds of error are apart.
LEMMA Codes == Action # NoFailure /\ Action # Transient /\ Rpc # Action
BY DEF Action, NoFailure, Transient, Rpc

\* A warning that was read is in flight, or the candidate was not cleared.
WarnInv ==
  /\ warned /\ pc = "mentions" => Warns(Main)
  /\ warned /\ pc = "forensic" => \E q \in Query : Warns(q)
  /\ warned /\ pc \notin {"mentions", "forensic"} => verdict # "clear"
  /\ pc \in {"mentions", "forensic"} => verdict = "none"

ProviderInv == BreakerInv /\ WarnInv /\ AlarmsBounded
-----------------------------------------------------------------------------
\* Nothing has been asked.
LEMMA InitialProviders == ASSUME Init PROVE ProviderInv
<1>1. TypeOK
  <2>1. BreakerTypes
    BY TimeAssumption DEF Init, BreakerTypes, Code
  <2>2. FlightTypes
    BY DEF Init, FlightTypes
  <2>3. RpcTypes
    BY DEF Init, RpcTypes, Code
  <2>4. CycleTypes
    BY DEF Init, CycleTypes, Cases
  <2>5. OperatorTypes
    BY TimeAssumption DEF Init, OperatorTypes
  <2> QED
    BY <2>1, <2>2, <2>3, <2>4, <2>5, TypeParts
<1>2. DenialNamed /\ QuietInv /\ WarnInv
  BY DEF Init, DenialNamed, QuietInv, WarnInv, Search
<1>3. AlarmsBounded
  BY FS_EmptySet DEF Init, AlarmsBounded
<1> QED
  BY <1>1, <1>2, <1>3 DEF ProviderInv, BreakerInv
-----------------------------------------------------------------------------
(* The RPC node *)

\* What the RPC client notes of an answer.
LEMMA Noted ==
  ASSUME NEW error \in Code, NEW denied \in BOOLEAN, NEW resting \in BOOLEAN,
         denied => error = Action, RpcNotes(error, denied, resting)
  PROVE  /\ rpc' \in [denied : BOOLEAN, error : Code, resting : BOOLEAN]
         /\ rpc'.denied => rpc'.error = Action
BY DEF RpcNotes

\* The checks of a token on chain.
LEMMA RpcStep ==
  ASSUME ProviderInv, CheckOnChain \/ RpcEnds \/ RpcRetries
  PROVE  ProviderInv'
<1> USE DEF ProviderInv, BreakerInv
<1>1. /\ UNCHANGED <<breakers, flight, verdict, operator, warned>>
      /\ pc \in {"scan", "rpc"} /\ pc' \in {"scan", "rpc"}
  BY DEF CheckOnChain, RpcEnds, RpcRetries
<1>2. RpcTypes' /\ (rpc'.denied => rpc'.error = Action) /\ (pc' = "rpc" => ~rpc'.denied)
  <2>1. RpcTypes /\ (rpc.denied => rpc.error = Action)
    BY TypeParts DEF DenialNamed
  <2>2. CASE CheckOnChain
    BY <2>1, <2>2 DEF CheckOnChain, RpcTypes
  <2>3. CASE RpcEnds
    <3>1. pc' = "scan" /\ attempt' = 0
      BY <2>3 DEF RpcEnds
    <3>2. PICK error \in Code, denied \in BOOLEAN, resting \in BOOLEAN :
            (denied => error = Action) /\ RpcNotes(error, denied, resting)
      BY <2>3 DEF RpcEnds, Code
    <3> QED
      BY <3>1, <3>2, Noted DEF RpcTypes
  <2>4. CASE RpcRetries
    <3>1. /\ pc' = pc /\ attempt < 3 /\ attempt' = attempt + 1
          /\ RpcNotes(Transient, FALSE, FALSE)
      BY <2>4 DEF RpcRetries
    <3>2. rpc' = [denied |-> FALSE, error |-> Transient, resting |-> FALSE]
      BY <3>1 DEF RpcNotes
    <3>3. attempt' \in 0..3
      BY <2>1, <3>1 DEF RpcTypes
    <3> QED
      BY <3>2, <3>3 DEF RpcTypes, Code
  <2> QED
    BY <2>2, <2>3, <2>4
<1>3. TypeOK'
  <2>1. BreakerTypes' /\ FlightTypes' /\ OperatorTypes'
    BY <1>1, TypeParts DEF breakers, operator, BreakerTypes, FlightTypes, OperatorTypes
  <2>2. CycleTypes'
    BY <1>1, TypeParts DEF CycleTypes, Cases
  <2> QED
    BY <1>2, <2>1, <2>2 DEF TypeOK, BreakerTypes, FlightTypes, RpcTypes, CycleTypes,
                            OperatorTypes, Cases
<1>4. DenialNamed' /\ QuietInv'
  BY <1>1, <1>2 DEF breakers, DenialNamed, QuietInv
<1>5. WarnInv'
  BY <1>1 DEF WarnInv
<1>6. AlarmsBounded'
  BY <1>1 DEF operator, AlarmsBounded
<1> QED
  BY <1>3, <1>4, <1>5, <1>6
-----------------------------------------------------------------------------
(* Answers *)

\* What every answer changes, and what it leaves of the requests under way.
LEMMA AnswerStep ==
  ASSUME TypeOK, QuietInv, NEW q \in Search, NEW b \in Backend, NEW a \in Answered,
         Answer(q, b, a)
  PROVE  /\ FlightTypes'
         /\ pc \in {"mentions", "forensic"}
         /\ pc = "mentions" => q = Main
         /\ pc = "forensic" => q \in Query
         /\ flight'[q][b] = a
         /\ \A p \in Search, c \in Backend :
              /\ p # q \/ c # b => flight'[p][c] = flight[p][c]
              /\ flight'[p][c] = "out" => flight[p][c] = "out" /\ ~(p = q /\ c = b)
              /\ flight[p][c] = "scam" => flight'[p][c] = "scam"
<1>1. flight \in [Search -> [Backend -> {"idle", "out"} \cup Answered]]
  BY DEF TypeOK
<1>2. flight[q][b] = "out" /\ flight' = [flight EXCEPT ![q][b] = a]
  BY DEF Answer
<1>3. FlightTypes'
  BY <1>1, <1>2 DEF FlightTypes
<1>4. /\ flight'[q][b] = a
      /\ \A p \in Search, c \in Backend :
           p # q \/ c # b => flight'[p][c] = flight[p][c]
  BY <1>1, <1>2
<1>5. a # "out" /\ "scam" # "out"
  BY DEF Answered, Found
<1>6. /\ pc \in {"mentions", "forensic"}
      /\ pc = "mentions" => q = Main
      /\ pc = "forensic" => q \in Query
  BY <1>2 DEF QuietInv
<1> QED
  BY <1>2, <1>3, <1>4, <1>5, <1>6

\* The record of a denial survives the answer of a request that was under way alone.
LEMMA AnswersBreakers ==
  ASSUME BreakerInv, NEW q \in Search, NEW b \in Backend,
         Deny(q, b) \/ Fail(q, b) \/ \E a \in Answered : Succeed(q, b, a)
  PROVE  BreakerInv' /\ UNCHANGED <<rpc, attempt, pc, verdict, operator>>
<1> USE DEF BreakerInv
<1>1. PICK a \in Answered : Answer(q, b, a)
  BY DEF Deny, Fail, Succeed, Answered
<1>2. UNCHANGED <<rpc, attempt, pc, verdict, operator>>
  BY <1>1 DEF Answer
<1>3. /\ FlightTypes'
      /\ \A p \in Search, c \in Backend :
           flight'[p][c] = "out" => flight[p][c] = "out" /\ ~(p = q /\ c = b)
  BY <1>1, AnswerStep
<1>4. /\ BreakerTypes /\ flight[q][b] = "out"
      /\ \A c \in access_denied \ raced : failures[c] = Action
      /\ b \in access_denied => b \in raced
  BY <1>1, TypeParts DEF Answer, DenialNamed, QuietInv
<1>5. /\ BreakerTypes' /\ warned' \in BOOLEAN
      /\ \A c \in access_denied' \ raced' : failures'[c] = Action
      /\ access_denied \subseteq access_denied' /\ raced \subseteq raced'
      /\ \A p \in Search, c \in Backend :
           flight'[p][c] = "out" /\ c \in access_denied' => c \in raced'
  <2>1. CASE Deny(q, b)
    <3>1. /\ access_denied' = access_denied \cup {b} /\ UNCHANGED <<retry_after, warned>>
          /\ failures' = [failures EXCEPT ![b] = Action]
          /\ raced' = IF Out(b) = {q} THEN raced ELSE raced \cup {b}
      BY <2>1 DEF Deny
    <3>2. BreakerTypes' /\ warned' \in BOOLEAN
      BY <1>4, <3>1, TypeParts DEF BreakerTypes, CycleTypes, Code
    <3>3. \A c \in access_denied' \ raced' : failures'[c] = Action
      BY <1>4, <3>1 DEF BreakerTypes
    <3>4. ASSUME NEW p \in Search, NEW c \in Backend,
                 flight'[p][c] = "out", c \in access_denied'
          PROVE  c \in raced'
      <4>1. flight[p][c] = "out" /\ ~(p = q /\ c = b)
        BY <1>3, <3>4
      <4>2. CASE c # b
        BY <3>1, <3>4, <4>1, <4>2 DEF QuietInv
      <4>3. CASE c = b
        BY <3>1, <4>1, <4>3 DEF Out
      <4> QED
        BY <4>2, <4>3
    <3> QED
      BY <3>1, <3>2, <3>3, <3>4
  <2>2. CASE Fail(q, b)
    <3>1. /\ retry_after' = [retry_after EXCEPT ![b] = Cooldown]
          /\ failures' = [failures EXCEPT ![b] = Transient]
          /\ UNCHANGED <<access_denied, raced, warned>>
      BY <2>2 DEF Fail
    <3>2. BreakerTypes' /\ warned' \in BOOLEAN
      BY <1>4, <3>1, TypeParts, TimeAssumption DEF BreakerTypes, CycleTypes, Code
    <3> QED
      BY <1>3, <1>4, <3>1, <3>2 DEF BreakerTypes, QuietInv
  <2>3. CASE \E x \in Answered : Succeed(q, b, x)
    <3>1. PICK x \in Answered : Succeed(q, b, x)
      BY <2>3
    <3>2. /\ failures' = [failures EXCEPT ![b] = NoFailure]
          /\ warned' = (warned \/ x = "scam")
          /\ UNCHANGED <<access_denied, retry_after, raced>>
      BY <3>1 DEF Succeed
    <3>3. BreakerTypes' /\ warned' \in BOOLEAN
      BY <1>4, <3>2, TypeParts DEF BreakerTypes, CycleTypes, Code
    <3> QED
      BY <1>3, <1>4, <3>2, <3>3 DEF BreakerTypes, QuietInv
  <2> QED
    BY <2>1, <2>2, <2>3
<1>6. TypeOK'
  <2>1. RpcTypes' /\ OperatorTypes'
    BY <1>2, TypeParts DEF operator, RpcTypes, OperatorTypes
  <2>2. CycleTypes'
    BY <1>2, <1>5, TypeParts DEF CycleTypes
  <2> QED
    BY <1>3, <1>5, <2>1, <2>2 DEF TypeOK, BreakerTypes, FlightTypes, RpcTypes, CycleTypes,
                                  OperatorTypes, Cases
<1>7. DenialNamed'
  BY <1>2, <1>5 DEF DenialNamed
<1>8. QuietInv'
  BY <1>2, <1>3, <1>5 DEF QuietInv
<1> QED
  BY <1>2, <1>6, <1>7, <1>8

\* A warning stays in flight until the searches of its stage are over.
LEMMA AnswersWarn ==
  ASSUME ProviderInv, NEW q \in Search, NEW b \in Backend,
         Deny(q, b) \/ Fail(q, b) \/ \E a \in Answered : Succeed(q, b, a)
  PROVE  WarnInv'
<1>1. PICK a \in Answered : Answer(q, b, a) /\ (warned' => warned \/ a = "scam")
  <2>1. CASE Deny(q, b) \/ Fail(q, b)
    <3>1. Answer(q, b, "nothing") /\ warned' = warned
      BY <2>1, Zenon DEF Deny, Fail
    <3> QED
      BY <3>1, Zenon DEF Answered
  <2>2. CASE \E a \in Answered : Succeed(q, b, a)
    BY <2>2, Zenon DEF Succeed
  <2> QED
    BY <2>1, <2>2
<1>2. /\ pc \in {"mentions", "forensic"} /\ pc' = pc
      /\ pc = "mentions" => q = Main
      /\ pc = "forensic" => q \in Query
      /\ flight'[q][b] = a
      /\ \A p \in Search, c \in Backend : flight[p][c] = "scam" => flight'[p][c] = "scam"
  <2>1. TypeOK /\ QuietInv /\ Answer(q, b, a)
    BY <1>1 DEF ProviderInv, BreakerInv
  <2>2. pc' = pc
    BY <2>1 DEF Answer
  <2> QED
    BY <2>1, <2>2, AnswerStep
<1>3. /\ warned /\ pc = "mentions" => Warns(Main)
      /\ warned /\ pc = "forensic" => \E p \in Query : Warns(p)
  BY DEF ProviderInv, WarnInv
<1>4. /\ Warns(Main) => Warns(Main)'
      /\ \A p \in Query : Warns(p) => Warns(p)'
      /\ a = "scam" => Warns(q)'
  BY <1>2 DEF Warns, Search
<1>5. CASE pc = "mentions"
  BY <1>1, <1>2, <1>3, <1>4, <1>5 DEF WarnInv, ProviderInv, Answer
<1>6. CASE pc = "forensic"
  <2>1. warned' => \E p \in Query : Warns(p)'
    BY <1>1, <1>2, <1>3, <1>4, <1>6
  <2> QED
    BY <1>1, <1>2, <1>6, <2>1 DEF WarnInv, ProviderInv, Answer
<1> QED
  BY <1>2, <1>5, <1>6
-----------------------------------------------------------------------------
(* The searches *)

\* Only a backend that is not denied is asked.
LEMMA Asked ==
  ASSUME NEW qs \in SUBSET Search, Ask(qs)
  PROVE  /\ FlightTypes'
         /\ \A q \in Search, b \in Backend :
              flight'[q][b] = "out" => q \in qs /\ b \notin access_denied
<1>1. flight' = [q \in Search |->
                   [b \in Backend |-> IF q \notin qs THEN "idle"
                                      ELSE IF Blocked(b) THEN "nothing" ELSE "out"]]
  BY DEF Ask
<1>2. FlightTypes'
  BY <1>1 DEF FlightTypes, Answered
<1>3. \A q \in Search, b \in Backend :
        flight'[q][b] = "out" => q \in qs /\ b \notin access_denied
  BY <1>1 DEF Blocked
<1> QED
  BY <1>2, <1>3

\* A search begins, or one of its stages ends.
LEMMA SearchStep ==
  ASSUME ProviderInv, BeginSearch \/ EndMentions \/ EndForensic
  PROVE  ProviderInv'
<1> USE DEF ProviderInv, BreakerInv
<1>1. UNCHANGED <<breakers, rpc, attempt, operator>>
  BY DEF BeginSearch, EndMentions, EndForensic
<1>2. /\ FlightTypes' /\ CycleTypes' /\ WarnInv' /\ pc' # "rpc"
      /\ \A q \in Search, b \in Backend :
           flight'[q][b] = "out" => /\ (q = Main /\ pc' = "mentions")
                                         \/ (q \in Query /\ pc' = "forensic")
                                    /\ b \notin access_denied
  <2>1. CASE BeginSearch
    <3>1. Ask({Main}) /\ pc' = "mentions" /\ verdict' = "none" /\ warned' = FALSE
      BY <2>1 DEF BeginSearch
    <3>2. {Main} \in SUBSET Search
      BY DEF Search
    <3> QED
      BY <3>1, <3>2, Asked DEF WarnInv, CycleTypes, Cases
  <2>2. CASE EndMentions /\ Available(Main) /\ ~Warns(Main)
    <3>1. /\ Ask(Query) /\ pc = "mentions" /\ pc' = "forensic" /\ verdict' = verdict
          /\ warned' = warned
      BY <2>2 DEF EndMentions
    <3>2. Query \in SUBSET Search
      BY DEF Search
    <3>3. warned' = FALSE /\ CycleTypes
      BY <2>2, <3>1, TypeParts DEF WarnInv, CycleTypes
    <3> QED
      BY <3>1, <3>2, <3>3, Asked DEF WarnInv, CycleTypes, Cases
  <2>3. CASE EndMentions /\ ~(Available(Main) /\ ~Warns(Main))
    <3>1. /\ pc' = "scan" /\ verdict' \in {"rejected", "deferred"} /\ warned' = warned
          /\ flight' = [q \in Search |-> [b \in Backend |-> "idle"]]
      BY <2>3 DEF EndMentions
    <3> QED
      BY <3>1, TypeParts DEF WarnInv, CycleTypes, FlightTypes, Cases
  <2>4. CASE EndForensic
    <3>1. /\ pc = "forensic" /\ pc' = "scan" /\ warned' = warned
          /\ verdict' = IF \E q \in Query : Warns(q) THEN "rejected" ELSE "clear"
          /\ flight' = [q \in Search |-> [b \in Backend |-> "idle"]]
      BY <2>4 DEF EndForensic
    <3>2. warned => verdict' = "rejected"
      BY <3>1 DEF WarnInv
    <3> QED
      BY <3>1, <3>2, TypeParts DEF WarnInv, CycleTypes, FlightTypes, Cases
  <2> QED
    BY <2>1, <2>2, <2>3, <2>4
<1>3. TypeOK'
  <2>1. BreakerTypes' /\ RpcTypes' /\ OperatorTypes'
    BY <1>1, TypeParts DEF breakers, operator, BreakerTypes, RpcTypes, OperatorTypes
  <2> QED
    BY <1>2, <2>1 DEF TypeOK, BreakerTypes, FlightTypes, RpcTypes, CycleTypes,
                      OperatorTypes, Cases
<1>4. DenialNamed'
  BY <1>1 DEF breakers, DenialNamed
<1>5. QuietInv'
  BY <1>1, <1>2 DEF breakers, QuietInv
<1>6. AlarmsBounded'
  BY <1>1 DEF operator, AlarmsBounded
<1> QED
  BY <1>2, <1>3, <1>4, <1>5, <1>6
-----------------------------------------------------------------------------
(* The end of a cycle *)

\* The report of a cycle and the wait for the next.
LEMMA CycleStep ==
  ASSUME ProviderInv, Report \/ CycleFails \/ Sent \/ Lost \/ Wake
  PROVE  ProviderInv'
<1> USE DEF ProviderInv, BreakerInv
<1>1. /\ UNCHANGED <<breakers, flight, rpc, attempt, verdict, warned>>
      /\ pc \in {"scan", "send", "asleep"} /\ pc' \in {"scan", "send", "asleep"}
  BY DEF Report, CycleFails, Sent, Lost, Wake
<1>2. OperatorTypes' /\ AlarmsBounded'
  <2>1. OperatorTypes /\ alarms <= Cardinality(reported)
    BY TypeParts DEF AlarmsBounded
  <2>2. CASE Report /\ Due
    <3>1. /\ reported' = reported \cup AccessErrors /\ silence' = 0 /\ told' = told
          /\ alarms' = IF silence >= Quiet THEN alarms ELSE alarms + 1
          /\ AccessErrors \ reported # {} \/ silence >= Quiet
      BY <2>2 DEF Report, Remembers, Due
    <3>2. AccessErrors \subseteq {Action, Rpc} /\ reported \subseteq {Action, Rpc}
      BY <2>1 DEF AccessErrors, OperatorTypes
    <3>3. /\ IsFiniteSet(reported) /\ IsFiniteSet(reported')
          /\ Cardinality(reported) <= Cardinality(reported')
          /\ reported # reported' => Cardinality(reported) < Cardinality(reported')
      <4>1. IsFiniteSet({Action, Rpc})
        <5>1. IsFiniteSet({Action}) /\ {Action, Rpc} = {Action} \cup {Rpc}
          BY FS_Singleton
        <5> QED
          BY <5>1, FS_AddElement
      <4>2. IsFiniteSet(reported') /\ reported \subseteq reported'
        BY <3>1, <3>2, <4>1, FS_Subset
      <4>3. IsFiniteSet(reported)
        BY <3>2, <4>1, FS_Subset
      <4>4. /\ Cardinality(reported) <= Cardinality(reported')
            /\ Cardinality(reported) = Cardinality(reported') => reported = reported'
        BY <4>2, <4>3, FS_Subset
      <4>5. Cardinality(reported) \in Nat /\ Cardinality(reported') \in Nat
        BY <4>2, <4>3, FS_CardinalityType
      <4> QED
        BY <4>2, <4>3, <4>4, <4>5
    <3>4. /\ Cardinality(reported) \in Nat /\ Cardinality(reported') \in Nat
          /\ alarms \in Nat /\ silence \in 0..Quiet
      BY <2>1, <3>3, FS_CardinalityType DEF OperatorTypes
    <3>5. alarms' <= Cardinality(reported')
      <4>1. CASE silence >= Quiet
        BY <2>1, <3>1, <3>3, <3>4, <4>1
      <4>2. CASE ~(silence >= Quiet)
        <5>1. reported # reported' /\ alarms' = alarms + 1
          BY <3>1, <4>2
        <5> QED
          BY <2>1, <3>3, <3>4, <5>1
      <4> QED
        BY <4>1, <4>2
    <3>6. OperatorTypes'
      BY <2>1, <3>1, <3>2, TimeAssumption DEF OperatorTypes
    <3> QED
      BY <3>5, <3>6 DEF AlarmsBounded
  <2>3. CASE Sent
    <3>1. told' = told \cup Named /\ UNCHANGED <<reported, silence, alarms>>
      BY <2>3 DEF Sent
    <3> QED
      BY <2>1, <3>1 DEF Named, OperatorTypes, AlarmsBounded
  <2>4. CASE (Report /\ ~Due) \/ CycleFails \/ Lost \/ Wake
    <3>1. UNCHANGED operator
      BY <2>4 DEF Report, CycleFails, Lost, Wake, operator
    <3> QED
      BY <2>1, <3>1 DEF operator, OperatorTypes, AlarmsBounded
  <2> QED
    BY <2>2, <2>3, <2>4
<1>3. TypeOK'
  <2>1. BreakerTypes' /\ FlightTypes' /\ RpcTypes'
    BY <1>1, TypeParts DEF breakers, BreakerTypes, FlightTypes, RpcTypes
  <2>2. CycleTypes'
    BY <1>1, TypeParts DEF CycleTypes, Cases
  <2> QED
    BY <1>2, <2>1, <2>2 DEF TypeOK, BreakerTypes, FlightTypes, RpcTypes, CycleTypes,
                            OperatorTypes, Cases
<1>4. DenialNamed' /\ QuietInv'
  BY <1>1 DEF breakers, DenialNamed, QuietInv
<1>5. WarnInv'
  BY <1>1 DEF WarnInv
<1> QED
  BY <1>2, <1>3, <1>4, <1>5

\* Time passes.
LEMMA TickStep ==
  ASSUME ProviderInv, Tick
  PROVE  ProviderInv'
<1> USE DEF ProviderInv, BreakerInv
<1>1. /\ UNCHANGED <<access_denied, failures, flight, attempt, pc, verdict, reported, told,
                     raced, warned, alarms>>
      /\ rpc' = [rpc EXCEPT !.resting = FALSE]
      /\ retry_after' = [b \in Backend |-> IF retry_after[b] = 0 THEN 0 ELSE retry_after[b] - 1]
      /\ silence' = IF silence < Quiet THEN silence + 1 ELSE silence
  BY DEF Tick
<1>2. BreakerTypes /\ FlightTypes /\ RpcTypes /\ CycleTypes /\ OperatorTypes
  BY TypeParts
<1>3. RpcTypes' /\ rpc'.denied = rpc.denied /\ rpc'.error = rpc.error
  BY <1>1, <1>2 DEF RpcTypes
<1>4. BreakerTypes'
  <2>1. \A b \in Backend : retry_after'[b] \in 0..Cooldown
    BY <1>1, <1>2, TimeAssumption DEF BreakerTypes
  <2> QED
    BY <1>1, <1>2, <2>1 DEF BreakerTypes
<1>5. OperatorTypes'
  BY <1>1, <1>2, TimeAssumption DEF OperatorTypes
<1>6. TypeOK'
  BY <1>1, <1>2, <1>3, <1>4, <1>5 DEF TypeOK, BreakerTypes, FlightTypes, RpcTypes,
                                      CycleTypes, OperatorTypes, Cases
<1>7. DenialNamed' /\ QuietInv'
  BY <1>1, <1>3 DEF DenialNamed, QuietInv
<1>8. WarnInv' /\ AlarmsBounded'
  BY <1>1 DEF WarnInv, Warns, AlarmsBounded
<1> QED
  BY <1>6, <1>7, <1>8
-----------------------------------------------------------------------------
\* Every step keeps the invariant.
LEMMA ProviderStep == ProviderInv /\ [Next]_vars => ProviderInv'
<1> SUFFICES ASSUME ProviderInv, [Next]_vars PROVE ProviderInv'
  OBVIOUS
<1>1. ASSUME NEW q \in Search, NEW b \in Backend,
             Deny(q, b) \/ Fail(q, b) \/ \E a \in Answered : Succeed(q, b, a)
      PROVE  ProviderInv'
  <2>1. BreakerInv' /\ UNCHANGED operator
    BY <1>1, AnswersBreakers DEF ProviderInv
  <2>2. AlarmsBounded'
    BY <2>1 DEF ProviderInv, operator, AlarmsBounded
  <2> QED
    BY <1>1, <2>1, <2>2, AnswersWarn DEF ProviderInv
<1>2. CASE UNCHANGED vars
  BY <1>2 DEF vars, ProviderInv, BreakerInv, TypeOK, DenialNamed, QuietInv, WarnInv, Warns,
              AlarmsBounded
<1> QED
  BY <1>1, <1>2, RpcStep, SearchStep, CycleStep, TickStep DEF Next

\* ProviderInv holds in every state.
LEMMA ProvidersAlways == Spec => []ProviderInv
<1>1. Init => ProviderInv
  BY InitialProviders
<1> QED
  BY <1>1, ProviderStep, PTL DEF Spec

\* Every denial is on record for the operator unless another request raced it, for any
\* number of backends and queries.
THEOREM DenialsNamed == Spec => []BreakerInv
<1>1. ProviderInv => BreakerInv
  BY DEF ProviderInv
<1> QED
  BY <1>1, ProvidersAlways, PTL

\* Whichever answers come in whichever order, a warning keeps its candidate out.
THEOREM WarningsKept == Spec => []ScamRejects
<1>1. ProviderInv => ScamRejects
  BY DEF ProviderInv, BreakerInv, WarnInv, ScamRejects
<1> QED
  BY <1>1, ProvidersAlways, PTL

\* Messages out of schedule are as few as the kinds of denial.
THEOREM FewAlarms == Spec => []AlarmsBounded
<1>1. ProviderInv => AlarmsBounded
  BY DEF ProviderInv
<1> QED
  BY <1>1, ProvidersAlways, PTL
=============================================================================
