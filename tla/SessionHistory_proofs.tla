------------------------ MODULE SessionHistory_proofs ------------------------
(***************************************************************************)
(* NoRollback for any number of runs, in a repository whose runs are never *)
(* rerun.  The argument: a delivery belongs to a session that GitHub shows *)
(* as started, a started session that the listing hides is asked for its   *)
(* checkpoint, and a checkpoint knows every delivery up to its run.        *)
(***************************************************************************)
EXTENDS SessionHistory, WellFoundedInduction, TLAPS

\* A nonempty set of naturals below a bound has a maximum.
LEMMA MaxIsGreatest ==
  ASSUME NEW S, S \subseteq Nat, S # {}, NEW bound \in Nat, \A x \in S : x <= bound
  PROVE  Max(S) \in S /\ \A x \in S : x <= Max(S)
<1> DEFINE T == {u \in Nat : \A x \in S : x <= u}
<1>1. bound \in T
  OBVIOUS
<1>2. PICK u \in T : \A v \in T : ~ (<<v, u>> \in OpToRel(<, Nat))
  <2>1. T \subseteq Nat /\ T # {}
    BY <1>1
  <2> HIDE DEF T
  <2> QED BY <2>1, NatLessThanWellFounded, WFMin, Zenon
<1>3. \A v \in T : u <= v
  <2>1. ASSUME NEW v \in T PROVE ~(v < u)
    <3>1. u \in Nat /\ v \in Nat
      OBVIOUS
    <3> HIDE DEF T
    <3> QED BY <1>2, <3>1, Zenon DEF OpToRel
  <2> QED BY <2>1
<1>4. u \in S
  <2>1. SUFFICES ASSUME u \notin S PROVE FALSE
    OBVIOUS
  <2>2. PICK x \in S : TRUE
    OBVIOUS
  <2>3. x < u
    BY <2>1, <2>2
  <2>4. u - 1 \in Nat /\ \A y \in S : y <= u - 1
    BY <2>1, <2>3
  <2>5. u - 1 \in T
    BY <2>4
  <2> QED BY <1>3, <2>5
<1>5. u \in S /\ \A y \in S : u >= y
  BY <1>4
<1>6. Max(S) \in S /\ \A y \in S : Max(S) >= y
  BY <1>5 DEF Max
<1> QED BY <1>6

\* Prior and Chosen are runs before r, or 0 if there is none.
LEMMA ChosenIsGreatest ==
  ASSUME TypeOK, NEW r \in Run, NEW shown \in Listings(r)
  PROVE  /\ Prior(shown) \in {0} \cup shown
         /\ \A q \in shown : q <= Prior(shown)
         /\ Chosen(r, shown) \in {Prior(shown)} \cup Newer(r, shown)
         /\ Prior(shown) <= Chosen(r, shown)
         /\ \A q \in Newer(r, shown) : q <= Chosen(r, shown)
<1>1. MaxRun \in Nat /\ Run = 1..MaxRun
  BY RunAssumption DEF Run
<1>2. shown \subseteq 1..MaxRun
  BY <1>1 DEF Listings, TypeOK
<1>3. {0} \cup shown \subseteq Nat /\ {0} \cup shown # {} /\ \A x \in {0} \cup shown : x <= MaxRun
  BY <1>1, <1>2
<1>4. Prior(shown) \in {0} \cup shown /\ \A q \in {0} \cup shown : q <= Prior(shown)
  BY <1>1, <1>3, MaxIsGreatest DEF Prior
<1>5. Newer(r, shown) \subseteq 1..MaxRun
  BY <1>1 DEF Newer
<1> DEFINE C == {Prior(shown)} \cup Newer(r, shown)
<1>6. C \subseteq Nat /\ C # {} /\ \A x \in C : x <= MaxRun
  BY <1>1, <1>3, <1>4, <1>5
<1>7. Max(C) \in C /\ \A q \in C : q <= Max(C)
  <2> HIDE DEF C
  <2> QED BY <1>1, <1>6, MaxIsGreatest
<1>8. Chosen(r, shown) = Max(C)
  BY DEF Chosen
<1> QED BY <1>4, <1>7, <1>8

\* The checkpoint a run restores knows all there is to know.
LEMMA RestoredHistory ==
  ASSUME NoRerun, HistoryInv, NEW r \in Run, stage[r] = "locate",
         NEW shown \in Listings(r), ~Refuses(r, shown)
  PROVE  /\ Chosen(r, shown) \in {0} \cup uploaded
         /\ Chosen(r, shown) = 0 => told = {}
         /\ Chosen(r, shown) # 0 => told \subseteq artifact[Chosen(r, shown)]
<1> DEFINE c == Chosen(r, shown)
<1>1. TypeOK /\ OrderInv /\ KnownInv /\ CountInv
  BY DEF HistoryInv
<1>2. /\ Prior(shown) \in {0} \cup shown
      /\ c \in {Prior(shown)} \cup Newer(r, shown)
      /\ Prior(shown) <= c
      /\ \A q \in Newer(r, shown) : q <= c
  BY <1>1, ChosenIsGreatest
<1>3. shown \subseteq uploaded /\ uploaded \subseteq Run /\ Run \subseteq Nat \ {0}
  BY <1>1, RunAssumption DEF Listings, TypeOK, Run
<1>4. Newer(r, shown) \subseteq uploaded
  BY DEF Refuses, Newer
<1>5. c \in {0} \cup uploaded
  BY <1>2, <1>3, <1>4
<1>6. ASSUME NEW t \in told PROVE t \in Run /\ t < r /\ t \in session
  <2>1. t \in Run /\ t \in session
    BY <1>1 DEF KnownInv, TypeOK
  <2>2. ~(t > r) /\ t # r
    BY <1>1, <2>1 DEF OrderInv, Active
  <2> QED BY <1>3, <2>1, <2>2
<1>7. \A n \in Run \cup {0} : n \in Nat
  BY <1>3
<1>8. Prior(shown) \in Nat /\ c \in Nat
  BY <1>2, <1>3, <1>5, <1>7
<1>9. ASSUME NEW t \in told PROVE t <= c
  <2>1. t \in Nat
    BY <1>6, <1>7
  <2>2. CASE t <= Prior(shown)
    <3> HIDE DEF c
    <3> QED BY <2>1, <2>2, <1>2, <1>8
  <2>3. CASE Prior(shown) < t
    <3>1. t \in Newer(r, shown)
      BY <2>3, <1>6 DEF Newer, Started
    <3> QED BY <3>1, <1>2
  <2> QED BY <2>1, <2>2, <2>3, <1>8
<1>10. c = 0 => told = {}
  <2>1. ASSUME c = 0, NEW t \in told PROVE FALSE
    <3>1. t \in Run /\ t <= 0
      BY <2>1, <1>6, <1>9
    <3> QED BY <3>1, RunAssumption DEF Run
  <2> QED BY <2>1
<1>11. c # 0 => told \subseteq artifact[c]
  BY <1>1, <1>5, <1>9 DEF KnownInv
<1> QED BY <1>5, <1>10, <1>11
-----------------------------------------------------------------------------
\* No run has started.
LEMMA InitialTypes == ASSUME Init PROVE TypeOK
<1>1. stage \in [Run -> Stage]
  BY DEF Init, Stage
<1>2. attempt \in [Run -> 0..MaxAttempt]
  BY RunAssumption DEF Init
<1>3. artifact \in [Run -> SUBSET Run]
  BY DEF Init
<1> QED BY <1>1, <1>2, <1>3 DEF Init, TypeOK

\* Every step keeps the types.
LEMMA TypeStep == ASSUME TypeOK, [Next]_vars PROVE TypeOK'
<1> USE RunAssumption DEF TypeOK, github, runner
<1>1. CASE UNCHANGED vars
  BY <1>1 DEF vars
<1>2. ASSUME NEW r \in Run, Trigger(r) \/ Rerun(r) \/ Begin(r) PROVE TypeOK'
  <2>1. stage' \in [Run -> Stage]
    BY <1>2 DEF Trigger, Rerun, Begin, Queue, Stage, Active
  <2>2. attempt' \in [Run -> 0..MaxAttempt]
    BY <1>2 DEF Trigger, Rerun, Begin
  <2> QED BY <1>2, <2>1, <2>2 DEF Trigger, Rerun, Begin
<1>3. ASSUME NEW r \in Run, NEW shown \in Listings(r),
             Refused(r, shown) \/ Restore(r, shown) \/ StopBefore(r, shown)
      PROVE  TypeOK'
  <2>1. stage' \in [Run -> Stage]
    BY <1>3 DEF Refused, Restore, StopBefore, End, Stage, Active
  <2>2. Chosen(r, shown) \in Run \cup {0}
    <3>1. shown \subseteq Run /\ Newer(r, shown) \subseteq Run
      BY DEF Listings, Newer
    <3> QED BY <3>1, ChosenIsGreatest
  <2>3. db' \subseteq Run /\ file' \in BOOLEAN
    BY <1>3, <2>2 DEF Refused, Restore, StopBefore
  <2> QED BY <1>3, <2>1, <2>3 DEF Refused, Restore, StopBefore
<1>4. ASSUME NEW r \in Run, Deliver(r) \/ Finish(r) \/ Checkpoint(r) PROVE TypeOK'
  BY <1>4 DEF Deliver, Finish, Checkpoint, Stage, Active
<1>5. ASSUME NEW r \in Run, Upload(r) \/ Lose(r) \/ Expire(r) PROVE TypeOK'
  BY <1>5 DEF Upload, Lose, Expire, End, Stage, Active
<1> QED BY <1>1, <1>2, <1>3, <1>4, <1>5 DEF Next

\* Every step keeps the counts of runs and attempts.
LEMMA CountStep == ASSUME TypeOK, CountInv, [Next]_vars PROVE CountInv'
<1>1. CASE UNCHANGED vars
  BY <1>1 DEF vars, CountInv
<1>2. ASSUME NEW r \in Run, Trigger(r) \/ Rerun(r) PROVE CountInv'
  <2>1. \A q \in Run : stage'[q] = IF q = r THEN "queued"
                                   ELSE IF stage[q] = "queued" THEN "over" ELSE stage[q]
    BY <1>2 DEF Trigger, Rerun, Queue
  <2>2. attempt'[r] # 0 /\ \A q \in Run : q # r => attempt'[q] = attempt[q]
    BY <1>2 DEF Trigger, Rerun, TypeOK
  <2> QED BY <2>1, <2>2 DEF CountInv
<1>3. ASSUME NEW r \in Run, Begin(r) \/ Finish(r) \/ Checkpoint(r) \/ Upload(r) \/ Lose(r)
      PROVE  CountInv'
  BY <1>3 DEF Begin, Finish, Checkpoint, Upload, Lose, End, CountInv, TypeOK, Active
<1>4. ASSUME NEW r \in Run, NEW shown \in Listings(r),
             Refused(r, shown) \/ Restore(r, shown) \/ StopBefore(r, shown)
      PROVE  CountInv'
  BY <1>4 DEF Refused, Restore, StopBefore, End, CountInv, TypeOK
<1>5. ASSUME NEW r \in Run, Deliver(r) \/ Expire(r) PROVE CountInv'
  BY <1>5 DEF Deliver, Expire, github, CountInv
<1> QED BY <1>1, <1>2, <1>3, <1>4, <1>5 DEF Next

\* The concurrency group lets one run in at a time, reruns included.
LEMMA GroupStep == ASSUME TypeOK, GroupInv, [Next]_vars PROVE GroupInv'
<1>1. CASE UNCHANGED vars
  BY <1>1 DEF vars, GroupInv
<1>2. ASSUME NEW r \in Run, Trigger(r) \/ Rerun(r) PROVE GroupInv'
  <2>1. \A q \in Run : stage'[q] = IF q = r THEN "queued"
                                   ELSE IF stage[q] = "queued" THEN "over" ELSE stage[q]
    BY <1>2 DEF Trigger, Rerun, Queue
  <2>2. \A q \in Run : stage'[q] \in Active => stage[q] \in Active
    BY <2>1 DEF Active
  <2>3. r \notin session' /\ session' \subseteq session /\ session \subseteq Run
    BY <1>2 DEF Trigger, Rerun, GroupInv, TypeOK
  <2> QED BY <2>1, <2>2, <2>3 DEF GroupInv
<1>3. ASSUME NEW r \in Run, Begin(r) PROVE GroupInv'
  <2>1. /\ stage[r] = "queued" /\ \A q \in Run : stage[q] \notin Active
        /\ \A q \in Run : stage'[q] = IF q = r THEN "locate" ELSE stage[q]
        /\ session' = session /\ session \subseteq Run
    BY <1>3 DEF Begin, Busy, TypeOK
  <2>2. \A q \in session : q # r
    BY <2>1 DEF GroupInv
  <2> QED BY <2>1, <2>2 DEF GroupInv
<1>4. ASSUME NEW r \in Run,
             \/ \E shown \in Listings(r) :
                  Refused(r, shown) \/ Restore(r, shown) \/ StopBefore(r, shown)
             \/ Deliver(r) \/ Finish(r) \/ Checkpoint(r) \/ Upload(r) \/ Lose(r) \/ Expire(r)
      PROVE  GroupInv'
  <2> DEFINE After == {"session", "checkpoint", "upload", "over"}
  <2>1. \/ /\ stage[r] \in Active /\ stage'[r] \in After
           /\ \A q \in Run : q # r => stage'[q] = stage[q]
        \/ stage' = stage
    BY <1>4 DEF Refused, Restore, StopBefore, Deliver, Finish, Checkpoint, Upload, Lose, Expire,
       End, github, Active, TypeOK
  <2>2. session' \subseteq session \cup (IF stage'[r] = "session" THEN {r} ELSE {})
    BY <1>4 DEF Refused, Restore, StopBefore, Deliver, Finish, Checkpoint, Upload, Lose, Expire,
       github, TypeOK
  <2>3. session \subseteq Run
    BY DEF TypeOK
  <2> QED BY <2>1, <2>2, <2>3 DEF GroupInv, Active
<1> QED BY <1>1, <1>2, <1>3, <1>4 DEF Next

\* Attempts are never taken back: a history without rerun had none before.
LEMMA RerunStays == ASSUME TypeOK, CountInv, [Next]_vars, NoRerun' PROVE NoRerun
<1>1. \A q \in Run : attempt[q] \in Nat
  BY RunAssumption DEF TypeOK
<1>2. CASE UNCHANGED attempt
  BY <1>2 DEF NoRerun
<1>3. ASSUME NEW r \in Run, Trigger(r) \/ Rerun(r) PROVE NoRerun
  <2>1. \A q \in Run : q # r => attempt'[q] = attempt[q]
    BY <1>3 DEF Trigger, Rerun, TypeOK
  <2>2. attempt[r] = 0 \/ attempt'[r] = attempt[r] + 1
    BY <1>3 DEF Trigger, Rerun, TypeOK, CountInv
  <2> QED BY <1>1, <2>1, <2>2 DEF NoRerun
<1> QED BY <1>2, <1>3 DEF Next, vars, Begin, Refused, Restore, StopBefore, Deliver, github,
     Finish, Checkpoint, Upload, Lose, Expire

\* The steps that create, queue and begin runs keep them in order.
LEMMA OrderOfQueue ==
  ASSUME NoRerun, NoRerun', HistoryInv, NEW r \in Run, Trigger(r) \/ Rerun(r) \/ Begin(r)
  PROVE  OrderInv'
<1>1. TypeOK /\ CountInv /\ OrderInv /\ Run \subseteq Nat
  BY RunAssumption DEF HistoryInv, Run
<1>2. CASE Trigger(r)
  <2>1. \A q \in Run : q > r => stage[q] = "new"
    BY <1>1, <1>2 DEF Trigger, OrderInv
  <2>2. \A q \in Run : stage'[q] = IF q = r THEN "queued"
                                   ELSE IF stage[q] = "queued" THEN "over" ELSE stage[q]
    BY <1>2 DEF Trigger, Queue
  <2>3. \A q \in Run : attempt'[q] = IF q = r THEN 1 ELSE attempt[q]
    BY <1>1, <1>2 DEF Trigger, TypeOK
  <2>4. UNCHANGED <<session, uploaded>> /\ stage[r] = "new"
        /\ \A q \in Run : q < r => stage[q] # "new"
    BY <1>2 DEF Trigger
  <2> QED BY <1>1, <2>1, <2>2, <2>3, <2>4 DEF OrderInv, Active
<1>3. ~Rerun(r)
  <2>1. ASSUME Rerun(r) PROVE FALSE
    <3>1. attempt[r] \in Nat /\ attempt[r] + 1 <= 1 /\ stage[r] = "over"
      BY <1>1, <2>1 DEF Rerun, TypeOK, NoRerun
    <3>2. attempt[r] # 0
      BY <1>1, <3>1 DEF CountInv
    <3> QED BY <3>1, <3>2
  <2> QED BY <2>1
<1>4. CASE Begin(r)
  <2>1. /\ stage[r] = "queued" /\ \A q \in Run : stage[q] \notin Active
        /\ UNCHANGED <<attempt, session, uploaded>>
    BY <1>4 DEF Begin, Busy
  <2>2. \A q \in Run : stage'[q] = IF q = r THEN "locate" ELSE stage[q]
    BY <1>1, <1>4 DEF Begin, TypeOK
  <2>3. \A q \in Run : q > r => stage[q] = "new"
    BY <1>1, <2>1 DEF OrderInv
  <2>4. ASSUME NEW q \in Run, q < r PROVE stage[q] = "over"
    <3>1. stage[q] # "new"
      BY <1>1, <2>1, <2>4 DEF OrderInv
    <3>2. stage[q] # "queued"
      <4>1. r > q
        BY <1>1, <2>4
      <4> QED BY <1>1, <2>1, <4>1 DEF OrderInv
    <3> QED BY <1>1, <2>1, <3>1, <3>2 DEF TypeOK, Stage
  <2> QED BY <1>1, <2>1, <2>2, <2>3, <2>4 DEF OrderInv, Active
<1> QED BY <1>2, <1>3, <1>4

\* The steps of the active run.
LEMMA OrderOfJob ==
  ASSUME NoRerun, HistoryInv, NEW r \in Run, stage[r] \in Active,
         stage'[r] \in {"session", "checkpoint", "upload", "over"},
         \A q \in Run : q # r => stage'[q] = stage[q],
         UNCHANGED attempt,
         \A q \in Run : q # r => (q \in session' <=> q \in session)
                                /\ (q \in uploaded' <=> q \in uploaded),
         stage'[r] = "session" => r \in session',
         r \in uploaded' => stage'[r] = "over"
  PROVE  OrderInv'
<1>1. TypeOK /\ CountInv /\ OrderInv /\ Run \subseteq Nat
  BY RunAssumption DEF HistoryInv, Run
<1>2. \A q \in Run : q # r => stage[q] \notin Active
  BY <1>1 DEF OrderInv
<1>3. stage[r] # "new" /\ stage'[r] # "new"
  BY DEF Active
<1> QED BY <1>1, <1>2, <1>3 DEF OrderInv, Active

\* Without reruns every step keeps the order of runs.
LEMMA OrderStep ==
  ASSUME NoRerun, NoRerun', HistoryInv, [Next]_vars PROVE OrderInv'
<1>1. TypeOK /\ OrderInv
  BY DEF HistoryInv
<1>2. CASE UNCHANGED vars
  BY <1>1, <1>2 DEF vars, OrderInv
<1>3. ASSUME NEW r \in Run, Trigger(r) \/ Rerun(r) \/ Begin(r) PROVE OrderInv'
  BY <1>3, OrderOfQueue
<1>4. ASSUME NEW r \in Run, NEW shown \in Listings(r),
             Refused(r, shown) \/ Restore(r, shown) \/ StopBefore(r, shown)
      PROVE  OrderInv'
  <2>1. /\ stage[r] \in Active
        /\ stage'[r] \in {"session", "checkpoint", "upload", "over"}
        /\ \A q \in Run : q # r => stage'[q] = stage[q]
        /\ UNCHANGED <<attempt, uploaded>> /\ r \notin uploaded
    BY <1>1, <1>4 DEF Refused, Restore, StopBefore, End, Active, TypeOK,
       OrderInv
  <2>2. /\ \A q \in Run : q # r => (q \in session' <=> q \in session)
        /\ stage'[r] = "session" => r \in session'
    BY <1>1, <1>4 DEF Refused, Restore, StopBefore, End, TypeOK
  <2> QED BY <2>1, <2>2, OrderOfJob
<1>5. ASSUME NEW r \in Run, Deliver(r) PROVE OrderInv'
  BY <1>1, <1>5 DEF Deliver, github, OrderInv
<1>6. ASSUME NEW r \in Run, Finish(r) \/ Checkpoint(r) \/ Upload(r) \/ Lose(r)
      PROVE  OrderInv'
  <2>1. /\ stage[r] \in Active
        /\ stage'[r] \in {"checkpoint", "upload", "over"}
        /\ \A q \in Run : q # r => stage'[q] = stage[q]
        /\ UNCHANGED <<attempt, session>> /\ r \notin uploaded
    BY <1>1, <1>6 DEF Finish, Checkpoint, Upload, Lose, End, Active, TypeOK,
       OrderInv
  <2>2. /\ \A q \in Run : q # r => (q \in uploaded' <=> q \in uploaded)
        /\ r \in uploaded' => stage'[r] = "over"
    BY <1>1, <1>6, <2>1 DEF Finish, Checkpoint, Upload, Lose, End, TypeOK
  <2> QED BY <2>1, <2>2, OrderOfJob
<1>7. ASSUME NEW r \in Run, Expire(r) PROVE OrderInv'
  BY <1>1, <1>7 DEF Expire, OrderInv
<1> QED BY <1>2, <1>3, <1>4, <1>5, <1>6, <1>7 DEF Next

\* Without reruns every step keeps what checkpoints know.
LEMMA KnownStep ==
  ASSUME NoRerun, NoRerun', HistoryInv, [Next]_vars PROVE KnownInv'
<1>1. TypeOK /\ CountInv /\ OrderInv /\ KnownInv /\ Run \subseteq Nat
  BY RunAssumption DEF HistoryInv, Run
<1> DEFINE Restored == {"session", "checkpoint", "upload"}
<1>2. CASE UNCHANGED vars
  BY <1>1, <1>2 DEF vars, KnownInv
<1>3. ASSUME NEW r \in Run, Trigger(r) \/ Rerun(r) \/ Begin(r) PROVE KnownInv'
  <2>1. Trigger(r) \/ Begin(r)
    <3>1. ASSUME Rerun(r) PROVE FALSE
      <4>1. attempt[r] \in Nat /\ attempt[r] + 1 <= 1 /\ stage[r] = "over"
        BY <1>1, <3>1 DEF Rerun, TypeOK, NoRerun
      <4> QED BY <1>1, <4>1 DEF CountInv
    <3> QED BY <1>3, <3>1
  <2>2. UNCHANGED <<session, artifact, uploaded, told>>
    BY <2>1 DEF Trigger, Begin
  <2>3. ASSUME NEW q \in Run, stage'[q] \in Restored PROVE stage[q] \in Restored
    BY <1>1, <2>1, <2>3 DEF Trigger, Queue, Begin, TypeOK
  <2>4. (\E q \in Run : stage[q] \in Restored) => db' = db
    BY <2>1 DEF Trigger, runner, Begin, Busy, Active
  <2> QED BY <1>1, <2>2, <2>3, <2>4 DEF KnownInv
<1>4. ASSUME NEW r \in Run, NEW shown \in Listings(r),
             Restore(r, shown) \/ StopBefore(r, shown)
      PROVE  KnownInv'
  <2>1. stage[r] = "locate" /\ ~Refuses(r, shown) /\ UNCHANGED <<artifact, uploaded, told>>
        /\ session \subseteq session'
    BY <1>4 DEF Restore, StopBefore
  <2>2. told \subseteq db'
    <3>1. /\ Chosen(r, shown) = 0 => told = {}
          /\ Chosen(r, shown) # 0 => told \subseteq artifact[Chosen(r, shown)]
      BY <2>1, RestoredHistory
    <3> QED BY <1>4, <3>1 DEF Restore, StopBefore
  <2> QED BY <1>1, <2>1, <2>2 DEF KnownInv
<1>5. ASSUME NEW r \in Run, NEW shown \in Listings(r), Refused(r, shown) PROVE KnownInv'
  BY <1>1, <1>5 DEF Refused, End, runner, KnownInv, TypeOK
<1>6. ASSUME NEW r \in Run, Deliver(r) PROVE KnownInv'
  <2>1. /\ stage[r] = "session" /\ db' = db \cup {r} /\ told' = told \cup {r}
        /\ UNCHANGED <<stage, session, artifact, uploaded>>
    BY <1>6 DEF Deliver, github
  <2>2. r \in session /\ r \notin uploaded
        /\ \A q \in Run : q > r => q \notin uploaded
    BY <1>1, <2>1 DEF OrderInv, Active
  <2>3. ASSUME NEW q \in uploaded PROVE ~(r <= q)
    BY <1>1, <2>2 DEF TypeOK
  <2> QED BY <1>1, <2>1, <2>2, <2>3 DEF KnownInv
<1>7. ASSUME NEW r \in Run, Finish(r) \/ Checkpoint(r) PROVE KnownInv'
  BY <1>1, <1>7 DEF Finish, Checkpoint, runner, KnownInv, TypeOK
<1>8. ASSUME NEW r \in Run, Upload(r) PROVE KnownInv'
  <2>1. /\ stage[r] = "upload" /\ artifact' = [artifact EXCEPT ![r] = db]
        /\ uploaded' = uploaded \cup {r} /\ stage' = [stage EXCEPT ![r] = "over"]
        /\ UNCHANGED <<session, db, told>>
    BY <1>8 DEF Upload, End, runner
  <2>2. told \subseteq db
    BY <1>1, <2>1 DEF KnownInv
  <2> QED BY <1>1, <2>1, <2>2 DEF KnownInv, TypeOK
<1>9. ASSUME NEW r \in Run, Lose(r) \/ Expire(r) PROVE KnownInv'
  BY <1>1, <1>9 DEF Lose, Expire, End, runner, KnownInv, TypeOK
<1> QED BY <1>2, <1>3, <1>4, <1>5, <1>6, <1>7, <1>8, <1>9 DEF Next
-----------------------------------------------------------------------------
(***************************************************************************)
(* Every state of GitHub, of the runner and of the history has its type,   *)
(* with any number of attempts.                                            *)
(***************************************************************************)
THEOREM HistoryTypes == Spec => []TypeOK
<1>1. Init => TypeOK
  BY InitialTypes
<1> QED BY <1>1, TypeStep, PTL DEF Spec

(***************************************************************************)
(* Until the first rerun, checkpoints are complete: each knows every       *)
(* accepted alert of its own session and of all sessions before it.        *)
(***************************************************************************)
THEOREM HistoryInvariant == Spec => []HistoryInv
<1>1. Init => HistoryInv
  <2>1. SUFFICES ASSUME Init PROVE HistoryInv
    OBVIOUS
  <2>2. \A r \in Run : stage[r] = "new" /\ attempt[r] = 0
    BY <2>1 DEF Init
  <2>3. session = {} /\ uploaded = {} /\ told = {}
    BY <2>1 DEF Init
  <2>4. OrderInv /\ CountInv /\ GroupInv
    BY <2>2, <2>3 DEF OrderInv, CountInv, GroupInv, Active
  <2>5. KnownInv
    BY <2>2, <2>3 DEF KnownInv
  <2> QED BY <2>1, <2>4, <2>5, InitialTypes DEF HistoryInv
<1>2. HistoryInv /\ [Next]_vars => HistoryInv'
  <2>1. SUFFICES ASSUME HistoryInv, [Next]_vars PROVE HistoryInv'
    OBVIOUS
  <2>2. TypeOK' /\ CountInv' /\ GroupInv'
    BY <2>1, TypeStep, CountStep, GroupStep DEF HistoryInv
  <2>3. ASSUME NoRerun' PROVE OrderInv' /\ KnownInv'
    <3>1. NoRerun
      BY <2>1, <2>3, RerunStays DEF HistoryInv
    <3> QED BY <2>1, <2>3, <3>1, OrderStep, KnownStep
  <2> QED BY <2>2, <2>3 DEF HistoryInv
<1> QED BY <1>1, <1>2, PTL DEF Spec

(***************************************************************************)
(* Until somebody reruns a run, history does not roll back: a session      *)
(* never works on a database that lacks an accepted alert, whatever the    *)
(* artifact listing hides, whichever runners are lost and whichever        *)
(* checkpoints expire.                                                     *)
(***************************************************************************)
THEOREM HistoryKept == Spec => []KeptWithoutRerun
<1>1. HistoryInv => KeptWithoutRerun
  BY DEF HistoryInv, KnownInv, NoRollback, KeptWithoutRerun
<1> QED BY <1>1, HistoryInvariant, PTL

\* Why a run that is not a rerun is refused.
LEMMA Cause ==
  ASSUME HistoryInv, NEW r \in Run, NEW shown \in Listings(r),
         stage[r] = "locate", attempt[r] = 1, Refuses(r, shown)
  PROVE  (\E q \in Run : LostSession(q, r)) \/ (\E q \in expired : LastHistory(q, r))
<1>1. TypeOK /\ GroupInv /\ Run \subseteq Nat
  BY RunAssumption DEF HistoryInv, Run
<1>2. ASSUME NEW q \in Newer(r, shown), q \notin uploaded PROVE LostSession(q, r)
  <2>1. q \in Run /\ q < r /\ q \in session
    BY DEF Newer, Started
  <2>2. stage[q] \notin Active
    BY <1>1, <2>1 DEF GroupInv, Active
  <2>3. stage[q] = "over"
    BY <1>1, <2>1, <2>2 DEF GroupInv, Active
  <2> QED BY <1>2, <2>1, <2>3 DEF LostSession
<1>3. ASSUME Chosen(r, shown) \in expired PROVE LastHistory(Chosen(r, shown), r)
  <2> DEFINE c == Chosen(r, shown)
             p == Prior(shown)
  <2>1. /\ p \in {0} \cup shown /\ c \in {p} \cup Newer(r, shown)
        /\ p <= c /\ \A q \in Newer(r, shown) : q <= c
    BY <1>1, ChosenIsGreatest
  <2>2. r \in Nat /\ c \in Nat /\ p \in Nat /\ c <= r
    <3>1. \A q \in {0} \cup shown \cup Newer(r, shown) : q \in Nat /\ q <= r
      BY <1>1 DEF Listings, Newer, TypeOK
    <3>2. p \in {0} \cup shown \cup Newer(r, shown)
      BY <2>1
    <3>3. c \in {0} \cup shown \cup Newer(r, shown)
      BY <2>1
    <3> HIDE DEF c, p
    <3> QED BY <1>1, <3>1, <3>2, <3>3
  <2>3. ASSUME NEW k \in session, k < r PROVE k <= c
    <3>1. k \in Run /\ k \in Nat
      BY <1>1 DEF TypeOK
    <3>2. CASE p < k
      <4>1. k \in Newer(r, shown)
        BY <2>3, <3>1, <3>2 DEF Newer, Started
      <4> QED BY <2>1, <4>1
    <3>3. CASE k <= p
      <4> HIDE DEF c, p
      <4> QED BY <2>1, <2>2, <3>1, <3>3
    <3> QED BY <2>2, <3>1, <3>2, <3>3
  <2> QED BY <2>2, <2>3 DEF LastHistory
<1>4. \/ \E q \in Newer(r, shown) : q \notin uploaded
      \/ Chosen(r, shown) \in expired
  BY DEF Refuses
<1>5. Newer(r, shown) \subseteq Run
  BY DEF Newer
<1> QED BY <1>2, <1>3, <1>4, <1>5

(***************************************************************************)
(* The company restarts unless history was really lost, whatever the       *)
(* artifact listing hides and however often other runs were rerun.         *)
(***************************************************************************)
THEOREM RestartNotBlocked == Spec => []RefusedForCause
<1>1. HistoryInv => RefusedForCause
  BY Cause DEF RefusedForCause
<1> QED BY <1>1, HistoryInvariant, PTL
=============================================================================
