------------------------ MODULE OutcomeJobs_proofs ------------------------
(* Proofs about OutcomeJobs for every cohort, horizon, window and worker. *)
EXTENDS OutcomeJobs, SequenceTheorems, TLAPS

USE TimeAssumption

\* What the types say of one job, its record and its times.
LEMMA JobFacts ==
  ASSUME TypeOK, NEW j \in Job
  PROVE  /\ j[1] \in Candidate /\ j[2] \in Horizon /\ j = <<j[1], j[2]>>
         /\ j[2] \in Nat /\ Target(j) \in Nat /\ Expires(j) \in Nat /\ Target(j) <= Expires(j)
         /\ first_seen[j[1]] \in 0..Never
         /\ job[j] \in JobRecord
         /\ seen[j] \in Seq(Observation)
<1>1. j[1] \in Candidate /\ j[2] \in Horizon /\ j = <<j[1], j[2]>>
  BY DEF Job
<1>2. first_seen[j[1]] \in 0..Never
  BY <1>1 DEF TypeOK
<1>3. j[2] \in Nat /\ Window[j[2]] \in Nat /\ first_seen[j[1]] \in Nat
  BY <1>1, <1>2 DEF Never
<1>4. Target(j) \in Nat /\ Expires(j) \in Nat /\ Target(j) <= Expires(j)
  BY <1>3 DEF Target, Expires
<1>5. QED
  BY <1>1, <1>2, <1>3, <1>4 DEF TypeOK

\* What the types say of one request.
LEMMA FlightFacts ==
  ASSUME TypeOK, FlightInv, NEW w \in Worker, NEW s \in Slot, flight[w][s].phase # "none"
  PROVE  /\ flight[w][s].job \in Job /\ flight[w][s].at \in Nat
         /\ first_seen[flight[w][s].job[1]] # Never
         /\ Target(flight[w][s].job) <= flight[w][s].at /\ flight[w][s].at <= now
BY DEF TypeOK, FlightInv, Request

\* A process's name is a worker_id.
LEMMA MeIsWorker == ASSUME TypeOK, NEW w \in Worker PROVE Me(w) \in WorkerId
BY DEF TypeOK, Me, WorkerId

\* The tables after the sweep of a claim, and after its lease.
LEMMA SweptJob ==
  ASSUME TypeOK, NEW t
  PROVE  /\ Swept(t) \in [Job -> JobRecord]
         /\ \A j \in Job : IF Missed(j, t) THEN Swept(t)[j].status = "MISSED_WINDOW"
                                           ELSE Swept(t)[j] = job[j]
<1>1. ASSUME NEW j \in Job
      PROVE  [job[j] EXCEPT !.status = "MISSED_WINDOW", !.owner = Nobody, !.until = 0]
               \in JobRecord
  BY JobFacts DEF Terminal, JobRecord
<1>2. \A j \in Job : [job[j] EXCEPT !.status = "MISSED_WINDOW", !.owner = Nobody,
                                    !.until = 0].status = "MISSED_WINDOW"
  BY JobFacts DEF JobRecord
<1>3. \A j \in Job : job[j] \in JobRecord
  BY DEF TypeOK
<1> DEFINE closed(j) == [job[j] EXCEPT !.status = "MISSED_WINDOW", !.owner = Nobody, !.until = 0]
<1>4. Swept(t) = [j \in Job |-> IF Missed(j, t) THEN closed(j) ELSE job[j]]
  BY DEF Swept
<1>5. \A j \in Job : closed(j).status = "MISSED_WINDOW"
  BY <1>2
<1>6. \A j \in Job : closed(j) \in JobRecord
  BY <1>1
<1> HIDE DEF closed
<1>7. QED
  BY <1>3, <1>4, <1>5, <1>6

\* A claim leases one job and sweeps the others.
LEMMA LeasedJob ==
  ASSUME TypeOK, NEW w \in Worker, NEW j \in Job, NEW t \in Nat
  PROVE  /\ Leased(w, j, t) \in [Job -> JobRecord]
         /\ Leased(w, j, t)[j].status = "IN_PROGRESS"
         /\ \A i \in Job \ {j} : Leased(w, j, t)[i] = Swept(t)[i]
<1>1. Swept(t) \in [Job -> JobRecord]
  BY SweptJob
<1>2. Me(w) \in WorkerId \cup {Nobody} /\ t + Lease \in Nat
  BY MeIsWorker
<1>3. Leased(w, j, t) = [Swept(t) EXCEPT ![j] = [Swept(t)[j] EXCEPT !.status = "IN_PROGRESS",
                                                   !.owner = Me(w), !.until = t + Lease]]
  BY DEF Leased
<1>4. QED
  BY <1>1, <1>2, <1>3, ZenonT(30) DEF Open, JobRecord

\* The tables after a job is settled.
LEMMA SettledJob ==
  ASSUME TypeOK, NEW j \in Job, NEW status \in Open \cup Terminal
  PROVE  /\ Settled(j, status) \in [Job -> JobRecord]
         /\ Settled(j, status)[j].status = status
         /\ \A i \in Job \ {j} : Settled(j, status)[i] = job[i]
<1>1. job[j] \in JobRecord
  BY JobFacts
<1>2. QED
  BY <1>1 DEF Settled, TypeOK, JobRecord

\* A stored observation of f.
LEMMA RecordedJob ==
  ASSUME TypeOK, NEW f, f.job \in Job, f.at \in Nat,
         NEW status \in {"CAPTURED", "NO_DATA_WITHIN_WINDOW", "OUTSIDE_CAPTURE_WINDOW"},
         Record(f, status)
  PROVE  /\ seen' \in [Job -> Seq(Observation)]
         /\ \A i \in Job \ {f.job} : seen'[i] = seen[i]
         /\ seen[f.job] = <<>> => /\ Len(seen'[f.job]) = 1
                                  /\ seen'[f.job][1].status = status
                                  /\ seen'[f.job][1].at = f.at
<1>1. seen[f.job] \in Seq(Observation)
  BY JobFacts
<1>2. seen' = [seen EXCEPT ![f.job] = Append(seen[f.job], [status |-> status, at |-> f.at])]
  BY DEF Record
<1>3. seen'[f.job] = Append(seen[f.job], [status |-> status, at |-> f.at])
  BY <1>2 DEF TypeOK
<1>4. Append(seen[f.job], [status |-> status, at |-> f.at])
        \in Seq(Observation)
  BY <1>1 DEF Observation
<1>5. \A i \in Job \ {f.job} : seen'[i] = seen[i]
  BY <1>2 DEF TypeOK
<1>6. seen' \in [Job -> Seq(Observation)]
  BY <1>2, <1>4 DEF TypeOK
<1>7. seen[f.job] = <<>> => /\ Len(seen'[f.job]) = 1
                            /\ seen'[f.job][1] = [status |-> status, at |-> f.at]
  BY <1>3
<1>8. QED
  BY <1>5, <1>6, <1>7
-----------------------------------------------------------------------------
\* The empty tables.
LEMMA InitTypes == Init => TypeOK /\ FlightInv
<1> SUFFICES ASSUME Init PROVE TypeOK /\ FlightInv
  OBVIOUS
<1>1. first_seen \in [Candidate -> 0..Never]
  BY DEF Init, Never
<1>2. job \in [Job -> JobRecord]
  BY DEF Init, Absent, JobRecord
<1>3. seen \in [Job -> Seq(Observation)]
  BY DEF Init
<1>4. flight \in [Worker -> [Slot -> Request]]
  BY DEF Init, NoFlight, Request
<1>5. TypeOK
  BY <1>1, <1>2, <1>3, <1>4 DEF Init, TypeOK
<1>6. FlightInv
  BY DEF Init, FlightInv, NoFlight
<1>7. QED
  BY <1>5, <1>6

\* What a step of one request, or of one pass, does to the requests.
LEMMA LandTypes ==
  ASSUME TypeOK, NEW w \in Worker, NEW s \in Slot, Land(w, s)
  PROVE  /\ flight' \in [Worker -> [Slot -> Request]]
         /\ flight'[w][s].phase = "none"
         /\ \A v \in Worker, r \in Slot : v # w \/ r # s => flight'[v][r] = flight[v][r]
BY DEF TypeOK, Land, NoFlight, Request

\* Requests are launched in the slots of one worker.
LEMMA LaunchTypes ==
  ASSUME TypeOK, NEW w \in Worker, NEW slots \in SUBSET Slot,
         flight' = [flight EXCEPT ![w] = Launched(w, slots)]
  PROVE  /\ flight' \in [Worker -> [Slot -> Request]]
         /\ \A v \in Worker, r \in Slot :
              \/ flight'[v][r] = flight[v][r]
              \/ /\ v = w /\ r \in slots
                 /\ flight'[v][r].job = flight[v][r].job
                 /\ flight'[v][r].at = flight[v][r].at
<1>1. \A r \in Slot : flight[w][r] \in Request
  BY DEF TypeOK
<1>2. \A r \in Slot : /\ [flight[w][r] EXCEPT !.phase = "fetch"] \in Request
                      /\ [flight[w][r] EXCEPT !.phase = "fetch"].job = flight[w][r].job
                      /\ [flight[w][r] EXCEPT !.phase = "fetch"].at = flight[w][r].at
  BY <1>1 DEF Request
<1>3. Launched(w, slots) \in [Slot -> Request]
  BY <1>1, <1>2 DEF Launched
<1>4. flight' \in [Worker -> [Slot -> Request]]
  BY <1>3 DEF TypeOK
<1>5. flight'[w] = Launched(w, slots) /\ \A v \in Worker \ {w} : flight'[v] = flight[v]
  BY DEF TypeOK
<1>6. QED
  BY <1>2, <1>4, <1>5 DEF Launched

\* Requests keep their facts while the clock runs and identities are enrolled.
LEMMA FlightKept ==
  ASSUME TypeOK, FlightInv, TypeOK', now <= now',
         \A c \in Candidate : first_seen[c] # Never => first_seen'[c] = first_seen[c],
         NEW w \in Worker, NEW s \in Slot,
         flight[w][s].phase # "none",
         NEW f, f.job = flight[w][s].job, f.at \in Nat,
         flight[w][s].at <= f.at, f.at <= now'
  PROVE  /\ f.job \in Job
         /\ first_seen'[f.job[1]] # Never
         /\ Target(f.job)' <= f.at
<1>1. /\ f.job \in Job /\ flight[w][s].at \in Nat /\ first_seen[f.job[1]] # Never
      /\ Target(f.job) <= flight[w][s].at
  BY FlightFacts
<1>2. f.job[1] \in Candidate
  BY <1>1, JobFacts
<1>3. first_seen'[f.job[1]] = first_seen[f.job[1]]
  BY <1>1, <1>2
<1>4. Target(f.job)' = Target(f.job)
  BY <1>3 DEF Target
<1>5. Target(f.job) \in Nat
  BY <1>1, JobFacts
<1>6. now' \in Nat
  BY DEF TypeOK
<1>7. QED
  BY <1>1, <1>3, <1>4, <1>5

\* Every step keeps the types.
LEMMA NextTypes == TypeOK /\ FlightInv /\ [Next]_vars => TypeOK'
<1> SUFFICES ASSUME TypeOK, FlightInv, [Next]_vars PROVE TypeOK'
  OBVIOUS
<1> USE DEF tables, passes
<1>1. CASE Tick
  BY <1>1 DEF Tick, TypeOK
<1>2. ASSUME NEW found \in SUBSET Candidate, Enrol(found) PROVE TypeOK'
  <2>1. first_seen' \in [Candidate -> 0..Never]
    BY <1>2 DEF Enrol, TypeOK, Never
  <2>2. job' \in [Job -> JobRecord]
    <3>1. ASSUME NEW j \in Job
          PROVE  [status |-> "PENDING", next |-> now + j[2], owner |-> Nobody, until |-> 0]
                   \in JobRecord
      <4>1. now + j[2] \in Nat
        BY JobFacts, SMTT(30) DEF TypeOK
      <4>2. QED
        BY <4>1 DEF JobRecord, Open
    <3>2. QED
      BY <1>2, <3>1 DEF Enrol, TypeOK
  <2>3. QED
    BY <1>2, <2>1, <2>2 DEF Enrol, TypeOK
<1>3. ASSUME NEW w \in Worker, Wake(w) PROVE TypeOK'
  BY <1>3 DEF Wake, TypeOK
<1>4. ASSUME NEW w \in Worker, ReadClock(w) PROVE TypeOK'
  BY <1>4 DEF ReadClock, TypeOK
<1>5. ASSUME NEW w \in Worker, ClaimNothing(w) PROVE TypeOK'
  <2>1. batch[w] \in SUBSET Slot
    BY DEF TypeOK
  <2>2. flight' \in [Worker -> [Slot -> Request]]
    BY <1>5, <2>1, LaunchTypes DEF ClaimNothing
  <2>3. job' \in [Job -> JobRecord]
    BY <1>5, SweptJob DEF ClaimNothing
  <2>4. QED
    BY <1>5, <2>2, <2>3 DEF ClaimNothing, TypeOK
<1>6. ASSUME NEW w \in Worker, BatchFull(w) PROVE TypeOK'
  <2>1. batch[w] \in SUBSET Slot
    BY DEF TypeOK
  <2>2. flight' \in [Worker -> [Slot -> Request]]
    BY <1>6, <2>1, LaunchTypes DEF BatchFull
  <2>3. QED
    BY <1>6, <2>2 DEF BatchFull, TypeOK
<1>7. ASSUME NEW w \in Worker, Gathered(w) PROVE TypeOK'
  BY <1>7 DEF Gathered, TypeOK
<1>8. ASSUME NEW w \in Worker, NEW j \in Job, NEW s \in Slot, ClaimJob(w, j, s)
      PROVE  TypeOK'
  <2>1. stamp[w] \in Nat
    BY DEF TypeOK
  <2>2. job' \in [Job -> JobRecord]
    BY <1>8, <2>1, LeasedJob DEF ClaimJob
  <2>3. [phase |-> "claimed", job |-> j, at |-> stamp[w]] \in Request
    BY <2>1 DEF Request
  <2>4. flight' \in [Worker -> [Slot -> Request]]
    BY <1>8, <2>3 DEF ClaimJob, TypeOK
  <2>5. QED
    BY <1>8, <2>2, <2>4 DEF ClaimJob, TypeOK
<1>9. ASSUME NEW w \in Worker, ClaimFails(w) PROVE TypeOK'
  <2>1. NoFlight \in Request
    BY DEF NoFlight, Request
  <2>2. flight' \in [Worker -> [Slot -> Request]]
    BY <1>9, <2>1 DEF ClaimFails, TypeOK
  <2>3. QED
    BY <1>9, <2>2 DEF ClaimFails, TypeOK
<1>10. ASSUME NEW w \in Worker, NEW s \in Slot, NEW priced \in BOOLEAN, Answer(w, s, priced)
       PROVE  TypeOK'
  <2>1. flight[w][s] \in Request /\ now \in Nat
    BY DEF TypeOK
  <2>2. [flight[w][s] EXCEPT !.phase = IF priced THEN "complete" ELSE "retry", !.at = now]
          \in Request
    BY <2>1 DEF Request
  <2>3. flight' \in [Worker -> [Slot -> Request]]
    BY <1>10, <2>2 DEF Answer, TypeOK
  <2>4. QED
    BY <1>10, <2>3 DEF Answer, TypeOK
<1>11. ASSUME NEW w \in Worker, NEW s \in Slot, CompleteFails(w, s) PROVE TypeOK'
  <2>1. flight[w][s] \in Request /\ now \in Nat
    BY DEF TypeOK
  <2>2. [flight[w][s] EXCEPT !.phase = "retry", !.at = now] \in Request
    BY <2>1 DEF Request
  <2>3. flight' \in [Worker -> [Slot -> Request]]
    BY <1>11, <2>2 DEF CompleteFails, TypeOK
  <2>4. QED
    BY <1>11, <2>3 DEF CompleteFails, TypeOK
<1>12. ASSUME NEW w \in Worker, NEW s \in Slot, RetryFails(w, s) PROVE TypeOK'
  <2>1. flight' \in [Worker -> [Slot -> Request]]
    BY <1>12, LandTypes DEF RetryFails
  <2>2. mode' \in [Worker -> {"rest", "claim", "begin", "gather"}]
        /\ batch' \in [Worker -> SUBSET Slot]
    BY <1>12 DEF RetryFails, TypeOK
  <2>3. QED
    BY <1>12, <2>1, <2>2 DEF RetryFails, TypeOK
<1>13. ASSUME NEW w \in Worker, Restart(w) PROVE TypeOK'
  <2>1. NoFlight \in Request
    BY DEF NoFlight, Request
  <2>2. flight' \in [Worker -> [Slot -> Request]]
    BY <1>13, <2>1 DEF Restart, TypeOK
  <2>3. life' \in [Worker -> 0..MaxLife]
    BY <1>13 DEF Restart, TypeOK
  <2>4. QED
    BY <1>13, <2>2, <2>3 DEF Restart, TypeOK
<1>14. ASSUME NEW w \in Worker, NEW s \in Slot, CompleteLate(w, s) PROVE TypeOK'
  <2>1. flight' \in [Worker -> [Slot -> Request]]
    BY <1>14, LandTypes DEF CompleteLate
  <2>2. flight[w][s].job \in Job /\ flight[w][s].at \in Nat
    BY <1>14, FlightFacts DEF CompleteLate
  <2>3. job' \in [Job -> JobRecord] /\ seen' \in [Job -> Seq(Observation)]
    <3>1. CASE Owned(w, flight[w][s].job)
      BY <1>14, <2>2, <3>1, SettledJob, RecordedJob DEF CompleteLate, Terminal
    <3>2. CASE ~Owned(w, flight[w][s].job)
      BY <1>14, <3>2 DEF CompleteLate, TypeOK
    <3>3. QED
      BY <3>1, <3>2
  <2>4. QED
    BY <1>14, <2>1, <2>3 DEF CompleteLate, TypeOK
<1>15. ASSUME NEW w \in Worker, NEW s \in Slot, CompleteInWindow(w, s) PROVE TypeOK'
  <2>1. flight' \in [Worker -> [Slot -> Request]]
    BY <1>15, LandTypes DEF CompleteInWindow
  <2>2. flight[w][s].job \in Job /\ flight[w][s].at \in Nat
    BY <1>15, FlightFacts DEF CompleteInWindow
  <2> DEFINE kept == Owned(w, flight[w][s].job)
                       /\ job[flight[w][s].job].until >= flight[w][s].at
  <2>3. job' \in [Job -> JobRecord] /\ seen' \in [Job -> Seq(Observation)]
        /\ outcome' \subseteq Job
    <3>1. CASE kept
      <4>1. outcome' \subseteq Job
        BY <1>15, <2>2, <3>1 DEF CompleteInWindow, TypeOK
      <4>2. job' = Settled(flight[w][s].job, "CAPTURED") /\ Record(flight[w][s], "CAPTURED")
        BY <1>15, <3>1 DEF CompleteInWindow
      <4>3. QED
        BY <2>2, <4>1, <4>2, SettledJob, RecordedJob DEF Terminal
    <3>2. CASE ~kept
      BY <1>15, <3>2 DEF CompleteInWindow, TypeOK
    <3>3. QED
      BY <3>1, <3>2
  <2>4. QED
    BY <1>15, <2>1, <2>3 DEF CompleteInWindow, TypeOK
<1>16. ASSUME NEW w \in Worker, NEW s \in Slot, Retry(w, s) PROVE TypeOK'
  <2>1. flight' \in [Worker -> [Slot -> Request]]
    BY <1>16, LandTypes DEF Retry
  <2>2. flight[w][s].job \in Job /\ flight[w][s].at \in Nat
    BY <1>16, FlightFacts DEF Retry
  <2> DEFINE j    == flight[w][s].job
             next == flight[w][s].at + RetryDelay
             last == next > Expires(j)
             status == IF last THEN "NO_DATA_WITHIN_WINDOW" ELSE "RETRYING"
  <2>3. job' \in [Job -> JobRecord] /\ seen' \in [Job -> Seq(Observation)]
    <3>1. CASE Owned(w, j)
      <4>1. Settled(j, status) \in [Job -> JobRecord]
        BY <2>2, SettledJob DEF Terminal, Open
      <4>2. Smaller(next, Expires(j)) \in Nat
        <5>1. next \in Nat
          BY <2>2
        <5>2. Expires(j) \in Nat
          BY <2>2, JobFacts
        <5>3. QED
          BY <5>1, <5>2 DEF Smaller
      <4>3. job' = [Settled(j, status) EXCEPT ![j].next = Smaller(next, Expires(j))]
        BY <1>16, <3>1 DEF Retry
      <4>4. job' \in [Job -> JobRecord]
        <5>1. Settled(j, status)[j] \in JobRecord
          BY <2>2, <4>1
        <5>2. [Settled(j, status)[j] EXCEPT !.next = Smaller(next, Expires(j))] \in JobRecord
          BY <4>2, <5>1 DEF JobRecord
        <5>3. QED
          BY <4>1, <4>3, <5>2
      <4>5. CASE last
        BY <1>16, <2>2, <3>1, <4>4, <4>5, RecordedJob DEF Retry
      <4>6. CASE ~last
        BY <1>16, <3>1, <4>4, <4>6 DEF Retry, TypeOK
      <4>7. QED
        BY <4>5, <4>6
    <3>2. CASE ~Owned(w, j)
      BY <1>16, <3>2 DEF Retry, TypeOK
    <3>3. QED
      BY <3>1, <3>2
  <2>4. QED
    BY <1>16, <2>1, <2>3 DEF Retry, TypeOK
<1>17. CASE UNCHANGED vars
  BY <1>17 DEF vars, TypeOK
<1>18. QED
  BY <1>1, <1>2, <1>3, <1>4, <1>5, <1>6, <1>7, <1>8, <1>9, <1>10, <1>11, <1>12, <1>13,
     <1>14, <1>15, <1>16, <1>17 DEF Next, Pass, Claim, Fault, Process

\* Time never runs back and a discovery clock never changes.
LEMMA ClockKept ==
  TypeOK /\ [Next]_vars =>
    /\ now \in Nat /\ now' \in Nat /\ now <= now'
    /\ \A c \in Candidate : first_seen[c] # Never => first_seen'[c] = first_seen[c]
<1> SUFFICES ASSUME TypeOK, [Next]_vars
             PROVE  /\ now \in Nat /\ now' \in Nat /\ now <= now'
                    /\ \A c \in Candidate : first_seen[c] # Never => first_seen'[c] = first_seen[c]
  OBVIOUS
<1>1. now \in Nat
  BY DEF TypeOK
<1>2. CASE Tick
  BY <1>1, <1>2 DEF Tick, tables
<1>3. ASSUME NEW found \in SUBSET Candidate, Enrol(found)
      PROVE  now' = now /\ \A c \in Candidate : first_seen[c] # Never => first_seen'[c] = first_seen[c]
  BY <1>3 DEF Enrol
<1>4. ASSUME NEW w \in Worker, Pass(w) \/ Fault(w) \/ \E s \in Slot : Process(w, s)
      PROVE  now' = now /\ first_seen' = first_seen
  BY <1>4 DEF Pass, Claim, Wake, ReadClock, ClaimNothing, BatchFull, Gathered, ClaimJob, Fault,
              ClaimFails, CompleteFails, RetryFails, Restart, Process, Answer, CompleteLate,
              CompleteInWindow, Retry, tables
<1>5. CASE UNCHANGED vars
  BY <1>1, <1>5 DEF vars
<1>6. QED
  BY <1>1, <1>2, <1>3, <1>4, <1>5 DEF Next

\* A step that opens no request keeps the facts about requests.
LEMMA FlightStep ==
  ASSUME TypeOK, FlightInv, [Next]_vars,
         \A w \in Worker :
           /\ stamp'[w] <= now'
           /\ mode'[w] = "rest" => batch'[w] = {}
           /\ mode'[w] \in {"claim", "begin"} =>
                \A s \in batch'[w] : flight'[w][s].phase = "claimed",
         \A w \in Worker, s \in Slot :
           flight'[w][s].phase # "none" =>
             /\ flight[w][s].phase # "none"
             /\ flight'[w][s].job = flight[w][s].job
             /\ flight[w][s].at <= flight'[w][s].at /\ flight'[w][s].at <= now'
  PROVE  FlightInv'
<1>1. TypeOK'
  BY NextTypes
<1>2. ASSUME NEW w \in Worker, NEW s \in Slot, flight'[w][s].phase # "none"
      PROVE  /\ flight'[w][s].job \in Job
             /\ first_seen'[flight'[w][s].job[1]] # Never
             /\ Target(flight[w][s].job)' <= flight'[w][s].at
             /\ flight'[w][s].at <= now'
  <2>1. flight'[w][s].at \in Nat
    BY <1>1 DEF TypeOK, Request
  <2>2. PICK f : f = flight'[w][s]
    OBVIOUS
  <2>3. /\ f.job \in Job
        /\ first_seen'[f.job[1]] # Never
        /\ Target(f.job)' <= f.at
    BY <1>1, <1>2, <2>1, <2>2, ClockKept, FlightKept
  <2>4. QED
    BY <1>2, <2>2, <2>3 DEF Target
<1>3. QED
  BY <1>2 DEF FlightInv

\* Every step keeps the facts about requests.
LEMMA NextFlight == TypeOK /\ FlightInv /\ [Next]_vars => FlightInv'
<1> SUFFICES ASSUME TypeOK, FlightInv, [Next]_vars PROVE FlightInv'
  OBVIOUS
<1> USE DEF tables, passes
<1>0. /\ now \in Nat /\ now' \in Nat /\ now <= now'
      /\ \A w \in Worker : stamp[w] \in Nat
      /\ \A w \in Worker, s \in Slot : flight[w][s] \in Request /\ flight[w][s].at \in Nat
      /\ \A w \in Worker, s \in Slot :
           flight[w][s].phase # "none" => flight[w][s].at <= now /\ flight[w][s].at <= now'
      /\ \A w \in Worker : stamp[w] <= now /\ stamp[w] <= now'
  <2>1. now \in Nat /\ now' \in Nat /\ now <= now'
    BY ClockKept
  <2>2. \A w \in Worker : stamp[w] \in Nat /\ stamp[w] <= now
    BY DEF TypeOK, FlightInv
  <2>3. \A w \in Worker, s \in Slot : flight[w][s] \in Request /\ flight[w][s].at \in Nat
    BY DEF TypeOK, Request
  <2>4. \A w \in Worker, s \in Slot : flight[w][s].phase # "none" => flight[w][s].at <= now
    BY DEF FlightInv
  <2>5. QED
    BY <2>1, <2>2, <2>3, <2>4
<1>1. CASE Tick
  BY <1>0, <1>1, FlightStep, SMTT(30) DEF Tick, FlightInv
<1>2. ASSUME NEW found \in SUBSET Candidate, Enrol(found) PROVE FlightInv'
  BY <1>0, <1>2, FlightStep, SMTT(30) DEF Enrol, FlightInv
<1>3. ASSUME NEW w \in Worker, Wake(w) PROVE FlightInv'
  BY <1>0, <1>3, FlightStep, SMTT(30) DEF Wake, FlightInv, TypeOK
<1>4. ASSUME NEW w \in Worker, ReadClock(w) PROVE FlightInv'
  BY <1>0, <1>4, FlightStep, SMTT(30) DEF ReadClock, FlightInv, TypeOK
<1>5. ASSUME NEW w \in Worker, ClaimNothing(w) PROVE FlightInv'
  <2>1. batch[w] \in SUBSET Slot /\ \A r \in batch[w] : flight[w][r].phase = "claimed"
    BY <1>5 DEF ClaimNothing, TypeOK, FlightInv
  <2>2. mode' = [mode EXCEPT ![w] = IF batch[w] = {} THEN "rest" ELSE "gather"]
        /\ stamp' = stamp /\ batch' = batch /\ now' = now
    BY <1>5 DEF ClaimNothing
  <2>3. \A v \in Worker, r \in Slot :
          \/ flight'[v][r] = flight[v][r]
          \/ /\ v = w /\ r \in batch[w]
             /\ flight'[v][r].job = flight[v][r].job
             /\ flight'[v][r].at = flight[v][r].at
    BY <1>5, <2>1, LaunchTypes DEF ClaimNothing
  <2>4. \A v \in Worker, r \in Slot :
          flight'[v][r].phase # "none" =>
            /\ flight[v][r].phase # "none"
            /\ flight'[v][r].job = flight[v][r].job
            /\ flight[v][r].at <= flight'[v][r].at /\ flight'[v][r].at <= now'
    BY <1>0, <2>1, <2>2, <2>3
  <2>5. ASSUME NEW v \in Worker
        PROVE  /\ stamp'[v] <= now'
               /\ mode'[v] = "rest" => batch'[v] = {}
               /\ mode'[v] \in {"claim", "begin"} =>
                    \A r \in batch'[v] : flight'[v][r].phase = "claimed"
    <3>1. CASE v = w
      BY <1>0, <2>2, <3>1 DEF TypeOK
    <3>2. CASE v # w
      <4>1. mode'[v] = mode[v]
        BY <2>2, <3>2 DEF TypeOK
      <4>2. \A r \in Slot : flight'[v][r] = flight[v][r]
        BY <2>3, <3>2
      <4>3. batch[v] \subseteq Slot
        BY DEF TypeOK
      <4>4. QED
        BY <1>0, <2>2, <4>1, <4>2, <4>3 DEF FlightInv
    <3>3. QED
      BY <3>1, <3>2
  <2>6. QED
    BY <2>4, <2>5, FlightStep
<1>6. ASSUME NEW w \in Worker, BatchFull(w) PROVE FlightInv'
  <2>1. batch[w] \in SUBSET Slot /\ \A r \in batch[w] : flight[w][r].phase = "claimed"
    BY <1>6 DEF BatchFull, TypeOK, FlightInv
  <2>2. mode' = [mode EXCEPT ![w] = "gather"]
        /\ stamp' = stamp /\ batch' = batch /\ now' = now
    BY <1>6 DEF BatchFull
  <2>3. \A v \in Worker, r \in Slot :
          \/ flight'[v][r] = flight[v][r]
          \/ /\ v = w /\ r \in batch[w]
             /\ flight'[v][r].job = flight[v][r].job
             /\ flight'[v][r].at = flight[v][r].at
    BY <1>6, <2>1, LaunchTypes, ZenonT(30) DEF BatchFull
  <2>4. \A v \in Worker, r \in Slot :
          flight'[v][r].phase # "none" =>
            /\ flight[v][r].phase # "none"
            /\ flight'[v][r].job = flight[v][r].job
            /\ flight[v][r].at <= flight'[v][r].at /\ flight'[v][r].at <= now'
    BY <1>0, <2>1, <2>2, <2>3
  <2>5. ASSUME NEW v \in Worker
        PROVE  /\ stamp'[v] <= now'
               /\ mode'[v] = "rest" => batch'[v] = {}
               /\ mode'[v] \in {"claim", "begin"} =>
                    \A r \in batch'[v] : flight'[v][r].phase = "claimed"
    <3>1. CASE v = w
      BY <1>0, <2>2, <3>1 DEF TypeOK
    <3>2. CASE v # w
      <4>1. mode'[v] = mode[v]
        BY <2>2, <3>2 DEF TypeOK
      <4>2. \A r \in Slot : flight'[v][r] = flight[v][r]
        BY <2>3, <3>2
      <4>3. batch[v] \subseteq Slot
        BY DEF TypeOK
      <4>4. QED
        BY <1>0, <2>2, <4>1, <4>2, <4>3 DEF FlightInv
    <3>3. QED
      BY <3>1, <3>2
  <2>6. QED
    BY <2>4, <2>5, FlightStep
<1>7. ASSUME NEW w \in Worker, Gathered(w) PROVE FlightInv'
  <2>1. \A v \in Worker : /\ mode'[v] = "rest" => batch'[v] = {}
                          /\ mode'[v] \in {"claim", "begin"} =>
                               \A r \in batch'[v] : flight'[v][r].phase = "claimed"
    BY <1>7 DEF Gathered, FlightInv, TypeOK
  <2>2. now' = now /\ stamp' = stamp /\ flight' = flight
    BY <1>7 DEF Gathered
  <2>3. QED
    BY <1>0, <2>1, <2>2, FlightStep
<1>8. ASSUME NEW w \in Worker, NEW j \in Job, NEW s \in Slot, ClaimJob(w, j, s)
      PROVE  FlightInv'
  <2>1. /\ now' = now /\ stamp' = stamp /\ first_seen' = first_seen
        /\ mode' = [mode EXCEPT ![w] = "claim"]
        /\ batch' = [batch EXCEPT ![w] = @ \cup {s}]
        /\ flight' = [flight EXCEPT ![w][s] = [phase |-> "claimed", job |-> j, at |-> stamp[w]]]
        /\ Target(j) <= stamp[w] /\ mode[w] = "begin"
    BY <1>8 DEF ClaimJob, Due
  <2>2. first_seen[j[1]] # Never
    <3>1. stamp[w] <= MaxTime /\ j[2] \in Nat /\ first_seen[j[1]] \in 0..Never
      BY JobFacts DEF TypeOK
    <3>2. QED
      BY <1>0, <2>1, <3>1 DEF Target, Never
  <2>3. \A v \in Worker, r \in Slot :
          flight'[v][r] = IF v = w /\ r = s
                          THEN [phase |-> "claimed", job |-> j, at |-> stamp[w]]
                          ELSE flight[v][r]
    BY <2>1 DEF TypeOK
  <2>4. \A i : Target(i)' = Target(i)
    BY <2>1 DEF Target
  <2>5. ASSUME NEW v \in Worker, NEW r \in Slot, flight'[v][r].phase # "none"
        PROVE  /\ flight'[v][r].job \in Job
               /\ first_seen'[flight'[v][r].job[1]] # Never
               /\ Target(flight[v][r].job)' <= flight'[v][r].at /\ flight'[v][r].at <= now'
    <3>1. CASE v = w /\ r = s
      BY <1>0, <2>1, <2>2, <2>3, <2>4, <3>1 DEF Target
    <3>2. CASE ~(v = w /\ r = s)
      BY <2>1, <2>3, <2>4, <2>5, <3>2, FlightFacts DEF Target
    <3>3. QED
      BY <3>1, <3>2
  <2>6. ASSUME NEW v \in Worker
        PROVE  /\ stamp'[v] <= now'
               /\ mode'[v] = "rest" => batch'[v] = {}
               /\ mode'[v] \in {"claim", "begin"} =>
                    \A r \in batch'[v] : flight'[v][r].phase = "claimed"
    <3>1. batch[v] \subseteq Slot
      BY DEF TypeOK
    <3>2. CASE v = w
      <4>1. mode'[v] = "claim" /\ batch'[v] = batch[v] \cup {s}
        BY <2>1, <3>2 DEF TypeOK
      <4>2. \A r \in batch[v] : flight[v][r].phase = "claimed"
        BY <2>1, <3>2 DEF FlightInv
      <4>3. QED
        BY <1>0, <2>1, <2>3, <3>1, <3>2, <4>1, <4>2
    <3>3. CASE v # w
      <4>1. mode'[v] = mode[v] /\ batch'[v] = batch[v]
        BY <2>1, <3>3 DEF TypeOK
      <4>2. QED
        BY <1>0, <2>1, <2>3, <3>1, <3>3, <4>1 DEF FlightInv
    <3>4. QED
      BY <3>2, <3>3
  <2>7. QED
    BY <2>5, <2>6 DEF FlightInv
<1>9. ASSUME NEW w \in Worker, ClaimFails(w) \/ Restart(w) PROVE FlightInv'
  <2>1. /\ now' = now /\ stamp' = stamp
        /\ mode' = [mode EXCEPT ![w] = "rest"]
        /\ batch' = [batch EXCEPT ![w] = {}]
        /\ \A v \in Worker, r \in Slot :
             flight'[v][r] = flight[v][r] \/ (v = w /\ flight'[v][r] = NoFlight)
    BY <1>9 DEF ClaimFails, Restart, TypeOK
  <2>2. \A v \in Worker, r \in Slot :
          flight'[v][r].phase # "none" =>
            /\ flight[v][r].phase # "none"
            /\ flight'[v][r].job = flight[v][r].job
            /\ flight[v][r].at <= flight'[v][r].at /\ flight'[v][r].at <= now'
    BY <1>0, <2>1 DEF NoFlight
  <2>3. ASSUME NEW v \in Worker
        PROVE  /\ stamp'[v] <= now'
               /\ mode'[v] = "rest" => batch'[v] = {}
               /\ mode'[v] \in {"claim", "begin"} =>
                    \A r \in batch'[v] : flight'[v][r].phase = "claimed"
    <3>1. CASE v = w
      BY <1>0, <2>1, <3>1 DEF TypeOK
    <3>2. CASE v # w
      <4>1. mode'[v] = mode[v] /\ batch'[v] = batch[v] /\ batch[v] \subseteq Slot
        BY <2>1, <3>2 DEF TypeOK
      <4>2. QED
        BY <1>0, <2>1, <3>2, <4>1 DEF FlightInv
    <3>3. QED
      BY <3>1, <3>2
  <2>4. QED
    BY <2>2, <2>3, FlightStep
<1>10. ASSUME NEW w \in Worker, NEW s \in Slot,
              CompleteFails(w, s) \/ \E priced \in BOOLEAN : Answer(w, s, priced)
       PROVE  FlightInv'
  <2>1. /\ now' = now /\ stamp' = stamp /\ mode' = mode /\ batch' = batch
        /\ flight[w][s].phase \in {"fetch", "complete"}
        /\ \E p \in {"complete", "retry"} :
             flight' = [flight EXCEPT ![w][s] = [flight[w][s] EXCEPT !.phase = p, !.at = now]]
    BY <1>10 DEF CompleteFails, Answer
  <2>2. PICK p \in {"complete", "retry"} :
          flight' = [flight EXCEPT ![w][s] = [flight[w][s] EXCEPT !.phase = p, !.at = now]]
    BY <2>1
  <2>3. \A v \in Worker, r \in Slot :
          flight'[v][r] = IF v = w /\ r = s
                          THEN [flight[w][s] EXCEPT !.phase = p, !.at = now] ELSE flight[v][r]
    BY <2>2 DEF TypeOK
  <2>4. [flight[w][s] EXCEPT !.phase = p, !.at = now].job = flight[w][s].job
        /\ [flight[w][s] EXCEPT !.phase = p, !.at = now].at = now
    BY <1>0 DEF Request
  <2>5. \A v \in Worker, r \in Slot :
          flight'[v][r].phase # "none" =>
            /\ flight[v][r].phase # "none"
            /\ flight'[v][r].job = flight[v][r].job
            /\ flight[v][r].at <= flight'[v][r].at /\ flight'[v][r].at <= now'
    BY <1>0, <2>1, <2>3, <2>4
  <2>6. ASSUME NEW v \in Worker
        PROVE  /\ stamp'[v] <= now'
               /\ mode'[v] = "rest" => batch'[v] = {}
               /\ mode'[v] \in {"claim", "begin"} =>
                    \A r \in batch'[v] : flight'[v][r].phase = "claimed"
    <3>1. batch[v] \subseteq Slot
      BY DEF TypeOK
    <3>2. mode[v] \in {"claim", "begin"} => \A r \in batch[v] : ~(v = w /\ r = s)
      BY <2>1 DEF FlightInv
    <3>3. QED
      BY <1>0, <2>1, <2>3, <3>1, <3>2 DEF FlightInv
  <2>7. QED
    BY <2>5, <2>6, FlightStep
<1>11. ASSUME NEW w \in Worker, NEW s \in Slot, Land(w, s), flight[w][s].phase \in {"complete", "retry"},
              now' = now, stamp' = stamp,
              \/ mode' = mode /\ batch' = batch
              \/ mode' = [mode EXCEPT ![w] = "rest"] /\ batch' = [batch EXCEPT ![w] = {}]
       PROVE  FlightInv'
  <2>1. /\ flight'[w][s].phase = "none"
        /\ \A v \in Worker, r \in Slot : v # w \/ r # s => flight'[v][r] = flight[v][r]
    BY <1>11, LandTypes
  <2>2. \A v \in Worker, r \in Slot :
          flight'[v][r].phase # "none" =>
            /\ flight[v][r].phase # "none"
            /\ flight'[v][r].job = flight[v][r].job
            /\ flight[v][r].at <= flight'[v][r].at /\ flight'[v][r].at <= now'
    BY <1>0, <2>1
  <2>3. ASSUME NEW v \in Worker
        PROVE  /\ stamp'[v] <= now'
               /\ mode'[v] = "rest" => batch'[v] = {}
               /\ mode'[v] \in {"claim", "begin"} =>
                    \A r \in batch'[v] : flight'[v][r].phase = "claimed"
    <3>1. batch[v] \subseteq Slot
      BY DEF TypeOK
    <3>2. mode[v] \in {"claim", "begin"} => \A r \in batch[v] : ~(v = w /\ r = s)
      BY <1>11 DEF FlightInv
    <3>3. \/ mode'[v] = mode[v] /\ batch'[v] = batch[v]
          \/ mode'[v] = "rest" /\ batch'[v] = {}
      BY <1>11 DEF TypeOK
    <3>4. QED
      BY <1>0, <1>11, <2>1, <3>1, <3>2, <3>3 DEF FlightInv
  <2>4. QED
    BY <2>2, <2>3, FlightStep
<1>12. ASSUME NEW w \in Worker, NEW s \in Slot,
              RetryFails(w, s) \/ CompleteLate(w, s) \/ CompleteInWindow(w, s) \/ Retry(w, s)
       PROVE  FlightInv'
  BY <1>11, <1>12 DEF RetryFails, CompleteLate, CompleteInWindow, Retry
<1>13. CASE UNCHANGED vars
  BY <1>0, <1>13, FlightStep DEF vars, FlightInv
<1>14. QED
  BY <1>1, <1>2, <1>3, <1>4, <1>5, <1>6, <1>7, <1>8, <1>9, <1>10, <1>12, <1>13
     DEF Next, Pass, Claim, Fault, Process
-----------------------------------------------------------------------------
\* What the statuses say of the observations.
LEMMA VerdictRead ==
  TypeOK /\ VerdictInv =>
    \A j \in Job :
      /\ Len(seen[j]) <= 1
      /\ Captured(j) <=> job[j].status = "CAPTURED"
      /\ Saw(j, "NO_DATA_WITHIN_WINDOW") <=> job[j].status = "NO_DATA_WITHIN_WINDOW"
      /\ Saw(j, "OUTSIDE_CAPTURE_WINDOW") => job[j].status = "MISSED_WINDOW"
      /\ \A i \in DOMAIN seen[j] :
           seen[j][i].status = "CAPTURED" =>
             Target(j) <= seen[j][i].at /\ seen[j][i].at <= Expires(j)
<1> SUFFICES ASSUME TypeOK, VerdictInv, NEW j \in Job
             PROVE  /\ Len(seen[j]) <= 1
                    /\ Captured(j) <=> job[j].status = "CAPTURED"
                    /\ Saw(j, "NO_DATA_WITHIN_WINDOW")
                         <=> job[j].status = "NO_DATA_WITHIN_WINDOW"
                    /\ Saw(j, "OUTSIDE_CAPTURE_WINDOW") => job[j].status = "MISSED_WINDOW"
                    /\ \A i \in DOMAIN seen[j] :
                         seen[j][i].status = "CAPTURED" =>
                           Target(j) <= seen[j][i].at /\ seen[j][i].at <= Expires(j)
  OBVIOUS
<1>1. seen[j] \in Seq(Observation)
  BY JobFacts
<1>2. CASE seen[j] = <<>>
  <2>1. DOMAIN seen[j] = {} /\ Len(seen[j]) = 0
    BY <1>2
  <2>2. job[j].status \notin {"CAPTURED", "NO_DATA_WITHIN_WINDOW"}
    BY <2>1 DEF VerdictInv, Single
  <2>3. QED
    BY <2>1, <2>2 DEF Captured, Saw
<1>3. CASE Len(seen[j]) = 1
  <2>1. DOMAIN seen[j] = {1}
    BY <1>1, <1>3
  <2>2. job[j].status \in Terminal
    BY <1>3 DEF VerdictInv
  <2>3. QED
    BY <1>3, <2>1, <2>2 DEF Captured, Saw, VerdictInv, Single, Terminal
<1>4. QED
  <2>1. CASE job[j].status \in Terminal
    BY <1>2, <1>3, <2>1 DEF VerdictInv, Single, Terminal
  <2>2. CASE job[j].status \notin Terminal
    BY <1>2, <2>2 DEF VerdictInv
  <2>3. QED
    BY <2>1, <2>2

\* Returns, read off the statuses.
Priced(j) == job[j].status = "CAPTURED"

\* ReturnNeedsBoth, said of every job.
LEMMA ReturnRead ==
  TypeOK /\ VerdictInv =>
    (ReturnNeedsBoth <=>
       \A j \in Job : j \in outcome <=> j[2] > 0 /\ Priced(j) /\ Priced(<<j[1], 0>>))
<1> SUFFICES ASSUME TypeOK, VerdictInv
             PROVE  ReturnNeedsBoth <=>
                      \A j \in Job : j \in outcome <=> j[2] > 0 /\ Priced(j) /\ Priced(<<j[1], 0>>)
  OBVIOUS
<1>1. \A j \in Job : <<j[1], 0>> \in Job
  BY DEF Job
<1>2. \A j \in Job : Captured(j) <=> Priced(j)
  BY VerdictRead DEF Priced
<1>3. QED
  BY <1>1, <1>2 DEF ReturnNeedsBoth

\* The same after a step.
LEMMA ReturnReadNext ==
  (TypeOK /\ VerdictInv =>
     (ReturnNeedsBoth <=>
        \A j \in Job : j \in outcome <=> j[2] > 0 /\ Priced(j) /\ Priced(<<j[1], 0>>)))'
BY ReturnRead, PTL

TableInv == CohortInv /\ VerdictInv /\ BaselineInv /\ ReturnNeedsBoth

\* The empty tables satisfy the invariant.
LEMMA InitTables == Init => TableInv
<1> SUFFICES ASSUME Init PROVE TableInv
  OBVIOUS
<1>1. CohortInv
  BY JobFacts, InitTypes DEF Init, CohortInv, Absent
<1>2. VerdictInv
  BY DEF Init, VerdictInv, Absent, Terminal
<1>3. BaselineInv
  BY DEF Init, BaselineInv, Absent, Job
<1>4. ReturnNeedsBoth
  BY DEF Init, ReturnNeedsBoth, Captured, Saw
<1>5. QED
  BY <1>1, <1>2, <1>3, <1>4 DEF TableInv

\* A step that leaves the tables alone.
LEMMA TablesKept == TableInv /\ UNCHANGED tables => TableInv'
BY DEF TableInv, tables, CohortInv, VerdictInv, BaselineInv, ReturnNeedsBoth, Captured, Saw,
       Single, Target, Expires

\* Enrolment touches only identities that had no jobs.
LEMMA EnrolKeeps ==
  ASSUME TypeOK, TableInv, TypeOK', NEW found \in SUBSET Candidate, Enrol(found)
  PROVE  TableInv' /\ \A j \in Job : job[j].status \in Terminal =>
                                       job'[j] = job[j] /\ seen'[j] = seen[j]
<1> DEFINE fresh == {c \in found : first_seen[c] = Never}
<1>1. /\ \A c \in Candidate : first_seen'[c] = IF c \in fresh THEN now ELSE first_seen[c]
      /\ \A j \in Job : job'[j] = IF j[1] \in fresh
                                THEN [status |-> "PENDING", next |-> now + j[2],
                                      owner |-> Nobody, until |-> 0]
                                ELSE job[j]
      /\ seen' = seen /\ outcome' = outcome
  BY DEF Enrol
<1>2. \A j \in Job : j[1] \in fresh => job[j].status = "ABSENT" /\ first_seen[j[1]] = Never
  BY JobFacts DEF TableInv, CohortInv
<1>3. now # Never
  BY DEF TypeOK, Never
<1> HIDE DEF fresh
<1>4. \A j \in Job : job'[j].status = IF j[1] \in fresh THEN "PENDING" ELSE job[j].status
  <2> SUFFICES ASSUME NEW j \in Job
               PROVE  job'[j].status = IF j[1] \in fresh THEN "PENDING" ELSE job[j].status
    OBVIOUS
  <2>1. CASE j[1] \in fresh
    <3>1. PICK next : next = now + j[2]
      OBVIOUS
    <3>2. job'[j] = [status |-> "PENDING", next |-> next, owner |-> Nobody, until |-> 0]
      BY <1>1, <2>1, <3>1
    <3>3. QED
      BY <2>1, <3>2
  <2>2. CASE j[1] \notin fresh
    BY <1>1, <2>2
  <2>3. QED
    BY <2>1, <2>2
<1>5. CohortInv'
  <2>1. \A j \in Job : first_seen'[j[1]] = IF j[1] \in fresh THEN now ELSE first_seen[j[1]]
    BY <1>1, JobFacts
  <2>2. QED
    BY <1>2, <1>3, <1>4, <2>1 DEF TableInv, CohortInv
<1>6. VerdictInv'
  <2> SUFFICES ASSUME NEW j \in Job
               PROVE  /\ job'[j].status = "CAPTURED" =>
                           /\ Single(j, "CAPTURED")'
                           /\ Target(j)' <= seen'[j][1].at /\ seen'[j][1].at <= Expires(j)'
                      /\ job'[j].status = "NO_DATA_WITHIN_WINDOW" =>
                           Single(j, "NO_DATA_WITHIN_WINDOW")'
                      /\ job'[j].status = "MISSED_WINDOW" =>
                           seen'[j] = <<>> \/ Single(j, "OUTSIDE_CAPTURE_WINDOW")'
                      /\ job'[j].status \notin Terminal => seen'[j] = <<>>
    BY DEF VerdictInv
  <2>1. CASE j[1] \in fresh
    BY <1>1, <1>2, <1>4, <2>1 DEF TableInv, VerdictInv, Terminal
  <2>2. CASE j[1] \notin fresh
    <3>1. first_seen'[j[1]] = first_seen[j[1]] /\ job'[j] = job[j] /\ seen'[j] = seen[j]
      BY <1>1, <2>2, JobFacts
    <3>2. Target(j)' = Target(j) /\ Expires(j)' = Expires(j)
      BY <3>1 DEF Target, Expires
    <3>3. QED
      BY <3>1, <3>2 DEF TableInv, VerdictInv, Single
  <2>3. QED
    BY <2>1, <2>2
<1>7. BaselineInv'
  <2> SUFFICES ASSUME NEW c \in Candidate, NEW h \in Horizon \ {0}
               PROVE  job'[<<c, h>>].status \in {"ABSENT", "PENDING", "MISSED_WINDOW"}
                        \/ job'[<<c, 0>>].status \in Terminal
    BY DEF BaselineInv
  <2>1. <<c, h>> \in Job /\ <<c, 0>> \in Job /\ <<c, h>>[1] = c /\ <<c, 0>>[1] = c
    BY DEF Job
  <2>2. QED
    BY <1>4, <2>1 DEF TableInv, BaselineInv
<1>8. ReturnNeedsBoth'
  BY <1>1 DEF TableInv, ReturnNeedsBoth, Captured, Saw
<1>9. QED
  BY <1>1, <1>2, <1>5, <1>6, <1>7, <1>8 DEF TableInv, Terminal

\* A claim at time t: missed jobs are closed, and at most due jobs are leased.
LEMMA ClaimKeeps ==
  ASSUME TypeOK, TableInv, NEW t \in Nat,
         first_seen' = first_seen, seen' = seen, outcome' = outcome,
         \A j \in Job :
           IF Missed(j, t) THEN job'[j].status = "MISSED_WINDOW"
           ELSE job'[j] = job[j] \/ (Due(j, t) /\ job'[j].status = "IN_PROGRESS")
  PROVE  TableInv' /\ \A j \in Job : job[j].status \in Terminal =>
                                       job'[j] = job[j] /\ seen'[j] = seen[j]
<1>1. ASSUME NEW j \in Job
      PROVE  \/ job'[j] = job[j] /\ ~Missed(j, t)
             \/ /\ job[j].status \in Open
                /\ job'[j].status = "MISSED_WINDOW" \/ job'[j].status = "IN_PROGRESS"
  BY DEF Missed, Due, Open
<1>2. CohortInv'
  BY <1>1 DEF TableInv, CohortInv, Open
<1>3. VerdictInv'
  <2> SUFFICES ASSUME NEW j \in Job
               PROVE  /\ job'[j].status = "CAPTURED" =>
                           /\ Single(j, "CAPTURED")'
                           /\ Target(j)' <= seen'[j][1].at /\ seen'[j][1].at <= Expires(j)'
                      /\ job'[j].status = "NO_DATA_WITHIN_WINDOW" =>
                           Single(j, "NO_DATA_WITHIN_WINDOW")'
                      /\ job'[j].status = "MISSED_WINDOW" =>
                           seen'[j] = <<>> \/ Single(j, "OUTSIDE_CAPTURE_WINDOW")'
                      /\ job'[j].status \notin Terminal => seen'[j] = <<>>
    BY DEF VerdictInv
  <2>1. CASE job'[j] = job[j]
    BY <2>1 DEF TableInv, VerdictInv, Single, Target, Expires
  <2>2. CASE job'[j] # job[j]
    BY <1>1, <2>2 DEF TableInv, VerdictInv, Open, Terminal
  <2>3. QED
    BY <2>1, <2>2
<1>4. BaselineInv'
  <2> SUFFICES ASSUME NEW c \in Candidate, NEW h \in Horizon \ {0}
               PROVE  job'[<<c, h>>].status \in {"ABSENT", "PENDING", "MISSED_WINDOW"}
                        \/ job'[<<c, 0>>].status \in Terminal
    BY DEF BaselineInv
  <2>1. <<c, h>> \in Job /\ <<c, 0>> \in Job
    BY DEF Job
  <2>2. job[<<c, 0>>].status \in Terminal => job'[<<c, 0>>].status \in Terminal
    BY <1>1, <2>1 DEF Open, Terminal
  <2>3. CASE job'[<<c, h>>] = job[<<c, h>>] \/ Missed(<<c, h>>, t)
    BY <2>1, <2>2, <2>3 DEF TableInv, BaselineInv
  <2>4. CASE Due(<<c, h>>, t)
    <3>1. Target(<<c, h>>) <= t /\ job[<<c, h>>].status # "ABSENT"
      BY <2>4 DEF Due
    <3>2. first_seen[c] # Never /\ job[<<c, 0>>].status # "ABSENT"
      BY <2>1, <3>1 DEF TableInv, CohortInv
    <3>3. Expires(<<c, 0>>) < t
      <4>1. /\ Target(<<c, h>>) = first_seen[c] + h
            /\ Expires(<<c, 0>>) = first_seen[c] + 0 + Window[0]
        BY DEF Target, Expires
      <4>2. first_seen[c] \in Nat /\ h \in Nat /\ Window[0] \in Nat /\ Window[0] < h
        BY BaselineClosesFirst, JobFacts, <2>1 DEF TypeOK, Never
      <4>3. QED
        BY <3>1, <4>1, <4>2
    <3>4. job[<<c, 0>>].status \in Open \cup Terminal
      BY <2>1, <3>2, JobFacts DEF JobRecord
    <3>5. job'[<<c, 0>>].status \in Terminal
      BY <2>1, <2>2, <3>3, <3>4 DEF Missed, Terminal
    <3>6. QED
      BY <3>5
  <2>5. QED
    BY <2>1, <2>3, <2>4
<1>5. ReturnNeedsBoth'
  BY DEF TableInv, ReturnNeedsBoth, Captured, Saw
<1>6. QED
  BY <1>1, <1>2, <1>3, <1>4, <1>5 DEF TableInv, Open, Terminal

\* A request settles the job it owns, and only that one.
LEMMA SettleKeeps ==
  ASSUME TypeOK, TableInv, TypeOK', NEW j \in Job, job[j].status = "IN_PROGRESS",
         first_seen' = first_seen,
         \A i \in Job \ {j} : job'[i] = job[i] /\ seen'[i] = seen[i],
         job'[j].status \in {"CAPTURED", "NO_DATA_WITHIN_WINDOW", "MISSED_WINDOW", "RETRYING"},
         IF job'[j].status = "RETRYING" THEN seen'[j] = seen[j]
         ELSE /\ seen[j] = <<>> => Len(seen'[j]) = 1
              /\ seen[j] = <<>> =>
                   seen'[j][1].status = IF job'[j].status = "MISSED_WINDOW"
                                        THEN "OUTSIDE_CAPTURE_WINDOW" ELSE job'[j].status
              /\ seen[j] = <<>> /\ job'[j].status = "CAPTURED" =>
                   Target(j) <= seen'[j][1].at /\ seen'[j][1].at <= Expires(j),
         outcome' = IF job'[j].status = "CAPTURED" /\ j[2] > 0 /\ Captured(<<j[1], 0>>)
                    THEN outcome \cup {j} ELSE outcome
  PROVE  TableInv' /\ \A i \in Job : job[i].status \in Terminal =>
                                       job'[i] = job[i] /\ seen'[i] = seen[i]
<1>1. seen[j] = <<>>
  BY DEF TableInv, VerdictInv, Terminal
<1>2. CohortInv'
  BY DEF TableInv, CohortInv
<1>3. VerdictInv'
  <2> SUFFICES ASSUME NEW i \in Job
               PROVE  /\ job'[i].status = "CAPTURED" =>
                           /\ Single(i, "CAPTURED")'
                           /\ Target(i)' <= seen'[i][1].at /\ seen'[i][1].at <= Expires(i)'
                      /\ job'[i].status = "NO_DATA_WITHIN_WINDOW" =>
                           Single(i, "NO_DATA_WITHIN_WINDOW")'
                      /\ job'[i].status = "MISSED_WINDOW" =>
                           seen'[i] = <<>> \/ Single(i, "OUTSIDE_CAPTURE_WINDOW")'
                      /\ job'[i].status \notin Terminal => seen'[i] = <<>>
    BY DEF VerdictInv
  <2>1. Target(i)' = Target(i) /\ Expires(i)' = Expires(i)
    BY DEF Target, Expires
  <2>2. CASE i = j
    BY <1>1, <2>1, <2>2 DEF Single, Terminal
  <2>3. CASE i # j
    BY <2>1, <2>3 DEF TableInv, VerdictInv, Single
  <2>4. QED
    BY <2>2, <2>3
<1>4. BaselineInv'
  <2> SUFFICES ASSUME NEW c \in Candidate, NEW h \in Horizon \ {0}
               PROVE  job'[<<c, h>>].status \in {"ABSENT", "PENDING", "MISSED_WINDOW"}
                        \/ job'[<<c, 0>>].status \in Terminal
    BY DEF BaselineInv
  <2>1. <<c, h>> \in Job /\ <<c, 0>> \in Job /\ <<c, h>> # <<c, 0>>
    BY DEF Job
  <2>2. \/ job[<<c, h>>].status \in {"ABSENT", "PENDING", "MISSED_WINDOW"}
        \/ job[<<c, 0>>].status \in Terminal
    BY DEF TableInv, BaselineInv
  <2>3. CASE <<c, h>> = j
    BY <2>1, <2>2, <2>3
  <2>4. CASE <<c, 0>> = j
    BY <2>1, <2>2, <2>4 DEF Terminal
  <2>5. CASE <<c, h>> # j /\ <<c, 0>> # j
    BY <2>1, <2>2, <2>5
  <2>6. QED
    BY <2>3, <2>4, <2>5
<1>5. ReturnNeedsBoth'
  <2>1. \A i \in Job : i \in outcome <=> i[2] > 0 /\ Priced(i) /\ Priced(<<i[1], 0>>)
    BY ReturnRead DEF TableInv
  <2>2. <<j[1], 0>> \in Job /\ (Captured(<<j[1], 0>>) <=> Priced(<<j[1], 0>>))
    BY VerdictRead DEF TableInv, Priced, Job
  <2>3. ASSUME NEW i \in Job
        PROVE  i \in outcome' <=> i[2] > 0 /\ Priced(i)' /\ Priced(<<i[1], 0>>)'
    <3>1. i[2] \in Horizon /\ i[1] \in Candidate /\ i = <<i[1], i[2]>> /\ <<i[1], 0>> \in Job
          /\ i[2] \in Nat
      BY DEF Job
    <3>2. CASE i = j
      <4>1. j \notin outcome
        BY <2>1 DEF Priced
      <4>2. CASE j[2] > 0
        <5>1. <<j[1], 0>> # j
          BY <4>2
        <5>2. Priced(<<j[1], 0>>)' <=> Priced(<<j[1], 0>>)
          BY <2>2, <5>1 DEF Priced
        <5>3. QED
          BY <2>2, <3>2, <4>1, <4>2, <5>2 DEF Priced
      <4>3. CASE ~(j[2] > 0)
        BY <3>2, <4>1, <4>3
      <4>4. QED
        BY <4>2, <4>3
    <3>3. CASE i # j /\ i[2] > 0 /\ <<i[1], 0>> = j
      <4>1. job[i].status \in {"ABSENT", "PENDING", "MISSED_WINDOW"}
        BY <3>1, <3>3 DEF TableInv, BaselineInv, Terminal
      <4>2. job'[i] = job[i] /\ i \notin outcome
        BY <2>1, <3>3, <4>1 DEF Priced
      <4>3. QED
        BY <3>3, <4>1, <4>2 DEF Priced
    <3>4. CASE i # j /\ i[2] > 0 /\ <<i[1], 0>> # j
      BY <2>1, <3>1, <3>4 DEF Priced
    <3>5. CASE i # j /\ ~(i[2] > 0)
      BY <2>1, <3>5
    <3>6. QED
      BY <3>2, <3>3, <3>4, <3>5
  <2>4. (\A i \in Job : i \in outcome <=> i[2] > 0 /\ Priced(i) /\ Priced(<<i[1], 0>>))'
    BY <2>3
  <2>5. (TypeOK /\ VerdictInv)'
    BY <1>3
  <2>6. QED
    BY <2>4, <2>5, ReturnReadNext
<1>6. QED
  BY <1>2, <1>3, <1>4, <1>5 DEF TableInv, Terminal

\* Every step keeps the ledger, and leaves what is settled as it is.
LEMMA NextTables ==
  TypeOK /\ FlightInv /\ TableInv /\ [Next]_vars =>
    TableInv' /\ \A j \in Job : job[j].status \in Terminal =>
                                 job'[j] = job[j] /\ seen'[j] = seen[j]
<1> SUFFICES ASSUME TypeOK, FlightInv, TableInv, [Next]_vars
             PROVE  TableInv' /\ \A j \in Job : job[j].status \in Terminal =>
                                                 job'[j] = job[j] /\ seen'[j] = seen[j]
  OBVIOUS
<1> DEFINE Goal == TableInv' /\ \A j \in Job : job[j].status \in Terminal =>
                                                job'[j] = job[j] /\ seen'[j] = seen[j]
<1>1. TypeOK'
  BY NextTypes
<1>2. CASE UNCHANGED tables
  BY <1>2, TablesKept DEF tables
<1>3. ASSUME NEW found \in SUBSET Candidate, Enrol(found) PROVE Goal
  BY <1>1, <1>3, EnrolKeeps
<1>4. ASSUME NEW w \in Worker, ClaimNothing(w) PROVE Goal
  <2>1. stamp[w] \in Nat
    BY DEF TypeOK
  <2>2. first_seen' = first_seen /\ seen' = seen /\ outcome' = outcome /\ job' = Swept(stamp[w])
    BY <1>4 DEF ClaimNothing
  <2>3. \A j \in Job : IF Missed(j, stamp[w]) THEN job'[j].status = "MISSED_WINDOW"
                                              ELSE job'[j] = job[j]
    BY <2>1, <2>2, SweptJob
  <2>4. QED
    BY <2>1, <2>2, <2>3, ClaimKeeps
<1>5. ASSUME NEW w \in Worker, NEW j \in Job, NEW s \in Slot, ClaimJob(w, j, s) PROVE Goal
  <2>1. stamp[w] \in Nat
    BY DEF TypeOK
  <2>2. /\ first_seen' = first_seen /\ seen' = seen /\ outcome' = outcome
        /\ job' = Leased(w, j, stamp[w]) /\ Due(j, stamp[w])
    BY <1>5 DEF ClaimJob
  <2>3. ~Missed(j, stamp[w])
    BY <2>1, <2>2, JobFacts DEF Due, Missed
  <2>4. \A i \in Job : IF Missed(i, stamp[w]) THEN job'[i].status = "MISSED_WINDOW"
                       ELSE job'[i] = job[i] \/ (i = j /\ job'[i].status = "IN_PROGRESS")
    BY <2>1, <2>2, <2>3, SweptJob, LeasedJob
  <2>5. QED
    BY <2>1, <2>2, <2>4, ClaimKeeps
<1>6. ASSUME NEW w \in Worker, NEW s \in Slot, CompleteLate(w, s) PROVE Goal
  <2>1. flight[w][s].job \in Job /\ flight[w][s].at \in Nat
    BY <1>6, FlightFacts DEF CompleteLate
  <2>2. PICK f : f = flight[w][s]
    OBVIOUS
  <2>3. CASE Owned(w, f.job)
    <3>1. /\ job' = Settled(f.job, "MISSED_WINDOW") /\ Record(f, "OUTSIDE_CAPTURE_WINDOW")
          /\ first_seen' = first_seen /\ outcome' = outcome /\ job[f.job].status = "IN_PROGRESS"
      BY <1>6, <2>2, <2>3 DEF CompleteLate, Owned
    <3>2. job'[f.job].status = "MISSED_WINDOW" /\ \A i \in Job \ {f.job} : job'[i] = job[i]
      BY <2>1, <2>2, <3>1, SettledJob DEF Terminal
    <3>3. /\ \A i \in Job \ {f.job} : seen'[i] = seen[i]
          /\ seen[f.job] = <<>> => /\ Len(seen'[f.job]) = 1
                                   /\ seen'[f.job][1].status = "OUTSIDE_CAPTURE_WINDOW"
      BY <2>1, <2>2, <3>1, RecordedJob
    <3>4. QED
      BY <1>1, <2>1, <2>2, <3>1, <3>2, <3>3, SettleKeeps
  <2>4. CASE ~Owned(w, f.job)
    BY <1>2, <1>6, <2>2, <2>4 DEF CompleteLate, tables
  <2>5. QED
    BY <2>3, <2>4
<1>7. ASSUME NEW w \in Worker, NEW s \in Slot, CompleteInWindow(w, s) PROVE Goal
  <2>1. /\ flight[w][s].job \in Job /\ flight[w][s].at \in Nat
        /\ Target(flight[w][s].job) <= flight[w][s].at
        /\ flight[w][s].at <= Expires(flight[w][s].job)
    BY <1>7, FlightFacts DEF CompleteInWindow
  <2>2. PICK f : f = flight[w][s]
    OBVIOUS
  <2>3. CASE Owned(w, f.job) /\ job[f.job].until >= f.at
    <3>1. /\ job' = Settled(f.job, "CAPTURED") /\ Record(f, "CAPTURED")
          /\ first_seen' = first_seen /\ job[f.job].status = "IN_PROGRESS"
          /\ outcome' = IF f.job[2] > 0 /\ Captured(<<f.job[1], 0>>)
                        THEN outcome \cup {f.job} ELSE outcome
      BY <1>7, <2>2, <2>3 DEF CompleteInWindow, Owned
    <3>2. job'[f.job].status = "CAPTURED" /\ \A i \in Job \ {f.job} : job'[i] = job[i]
      BY <2>1, <2>2, <3>1, SettledJob DEF Terminal
    <3>3. /\ \A i \in Job \ {f.job} : seen'[i] = seen[i]
          /\ seen[f.job] = <<>> => /\ Len(seen'[f.job]) = 1
                                   /\ seen'[f.job][1].status = "CAPTURED"
                                   /\ seen'[f.job][1].at = f.at
      BY <2>1, <2>2, <3>1, RecordedJob
    <3>4. QED
      BY <1>1, <2>1, <2>2, <3>1, <3>2, <3>3, SettleKeeps, ZenonT(30)
  <2>4. CASE ~(Owned(w, f.job) /\ job[f.job].until >= f.at)
    BY <1>2, <1>7, <2>2, <2>4 DEF CompleteInWindow, tables
  <2>5. QED
    BY <2>3, <2>4
<1>8. ASSUME NEW w \in Worker, NEW s \in Slot, Retry(w, s) PROVE Goal
  <2>1. flight[w][s].job \in Job /\ flight[w][s].at \in Nat
    BY <1>8, FlightFacts DEF Retry
  <2>2. PICK f : f = flight[w][s]
    OBVIOUS
  <2>3. PICK next : next = f.at + RetryDelay
    OBVIOUS
  <2>4. PICK status : status = IF next > Expires(f.job) THEN "NO_DATA_WITHIN_WINDOW"
                               ELSE "RETRYING"
    OBVIOUS
  <2>5. CASE Owned(w, f.job)
    <3>1. /\ job' = [Settled(f.job, status) EXCEPT ![f.job].next = Smaller(next, Expires(f.job))]
          /\ IF next > Expires(f.job) THEN Record(f, "NO_DATA_WITHIN_WINDOW") ELSE seen' = seen
          /\ first_seen' = first_seen /\ outcome' = outcome /\ job[f.job].status = "IN_PROGRESS"
      BY <1>8, <2>2, <2>3, <2>4, <2>5 DEF Retry, Owned
    <3>2. /\ Settled(f.job, status) \in [Job -> JobRecord]
          /\ Settled(f.job, status)[f.job].status = status
          /\ \A i \in Job \ {f.job} : Settled(f.job, status)[i] = job[i]
      BY <2>1, <2>2, <2>4, SettledJob DEF Terminal, Open
    <3>3. job'[f.job].status = status /\ \A i \in Job \ {f.job} : job'[i] = job[i]
      BY <2>1, <2>2, <3>1, <3>2 DEF JobRecord
    <3>4. CASE status = "NO_DATA_WITHIN_WINDOW"
      <4>1. Record(f, "NO_DATA_WITHIN_WINDOW")
        BY <2>4, <3>1, <3>4
      <4>2. /\ \A i \in Job \ {f.job} : seen'[i] = seen[i]
            /\ seen[f.job] = <<>> => /\ Len(seen'[f.job]) = 1
                                     /\ seen'[f.job][1].status = "NO_DATA_WITHIN_WINDOW"
        BY <2>1, <2>2, <4>1, RecordedJob
      <4>3. QED
        BY <1>1, <2>1, <2>2, <3>1, <3>3, <3>4, <4>2, SettleKeeps, ZenonT(30)
    <3>5. CASE status = "RETRYING"
      <4>1. seen' = seen
        BY <2>4, <3>1, <3>5
      <4>2. QED
        BY <1>1, <2>1, <2>2, <3>1, <3>3, <3>5, <4>1, SettleKeeps
    <3>6. QED
      BY <2>4, <3>4, <3>5
  <2>6. CASE ~Owned(w, f.job)
    BY <1>2, <1>8, <2>2, <2>6 DEF Retry, tables
  <2>7. QED
    BY <2>5, <2>6
<1>9. ASSUME NEW w \in Worker,
             \/ Wake(w) \/ ReadClock(w) \/ BatchFull(w) \/ Gathered(w) \/ ClaimFails(w)
             \/ Restart(w)
             \/ \E s \in Slot : \/ CompleteFails(w, s) \/ RetryFails(w, s)
                               \/ \E priced \in BOOLEAN : Answer(w, s, priced)
      PROVE  UNCHANGED tables
  BY <1>9 DEF Wake, ReadClock, BatchFull, Gathered, ClaimFails, Restart, CompleteFails,
              RetryFails, Answer, tables
<1>10. CASE Tick \/ UNCHANGED vars
  BY <1>2, <1>10 DEF Tick, vars, tables
<1> HIDE DEF Goal
<1>11. QED
  <2>1. Goal
    <3>1. ASSUME UNCHANGED tables PROVE Goal
      BY <1>2, <3>1 DEF Goal
    <3>2. QED
      BY <1>3, <1>4, <1>5, <1>6, <1>7, <1>8, <1>9, <1>10, <3>1
         DEF Next, Pass, Claim, Fault, Process, Goal
  <2>2. QED
    BY <2>1 DEF Goal
-----------------------------------------------------------------------------
(***************************************************************************)
(* The ledger of outcomes is consistent in every reachable state, however  *)
(* many processes lease its jobs (LedgerInv, record_discovery_batch to     *)
(* retry_outcome_job).                                                     *)
(***************************************************************************)
THEOREM LedgerInvariant == Spec => []LedgerInv
<1>1. Init => TypeOK /\ FlightInv /\ TableInv
  BY InitTypes, InitTables
<1>2. TypeOK /\ FlightInv /\ TableInv /\ [Next]_vars => (TypeOK /\ FlightInv /\ TableInv)'
  BY NextTypes, NextFlight, NextTables
<1>3. TypeOK /\ FlightInv /\ TableInv => LedgerInv
  BY DEF LedgerInv, TableInv
<1>4. QED
  BY <1>1, <1>2, <1>3, PTL DEF Spec

\* The tables, passes and requests keep their types.
THEOREM LedgerTypes == Spec => []TypeOK
<1>1. LedgerInv => TypeOK
  BY DEF LedgerInv
<1>2. QED
  BY <1>1, LedgerInvariant, PTL

\* No race of complete_outcome_job and retry_outcome_job gives a job two
\* observations, or a status that its observation does not bear out.
THEOREM OneVerdictEach == Spec => []OneVerdict
<1>1. LedgerInv => OneVerdict
  BY VerdictRead DEF LedgerInv, OneVerdict
<1>2. QED
  BY <1>1, LedgerInvariant, PTL

\* complete_outcome_job counts no price captured outside its window.
THEOREM WindowKept == Spec => []CapturedInWindow
<1>1. LedgerInv => CapturedInWindow
  BY VerdictRead DEF LedgerInv, CapturedInWindow
<1>2. QED
  BY <1>1, LedgerInvariant, PTL

\* Returns are neither invented nor lost, given that the baseline's window
\* closes before the next horizon.
THEOREM ReturnsComplete == Spec => []ReturnNeedsBoth
<1>1. LedgerInv => ReturnNeedsBoth
  BY DEF LedgerInv
<1>2. QED
  BY <1>1, LedgerInvariant, PTL

\* No rediscovery, late answer or retry changes what is settled.
THEOREM SettledStays == Spec => SettledIsFinal
<1>1. LedgerInv /\ [Next]_vars =>
        [/\ \A j \in Job : job[j].status \in Terminal =>
                             job'[j] = job[j] /\ seen'[j] = seen[j]
         /\ \A c \in Candidate : first_seen[c] # Never => first_seen'[c] = first_seen[c]]_vars
  BY NextTables, ClockKept DEF LedgerInv, TableInv
<1>2. QED
  BY <1>1, LedgerInvariant, PTL DEF Spec, SettledIsFinal
=============================================================================
