---------------------------- MODULE OutcomeJobs ----------------------------
(***************************************************************************)
(* Prospective outcome collection: record_discovery_batch enrols every     *)
(* identity with one job per horizon, and OutcomeWorkers lease the due     *)
(* jobs, fetch a price and complete or retry them.  Workers of several     *)
(* processes share the database; a worker may die, its transactions may    *)
(* meet a locked database, and its clock readings age while it waits for   *)
(* the write lock or for the provider.                                     *)
(***************************************************************************)
EXTENDS Naturals, Sequences

CONSTANTS
  Candidate,    \* identities, numbered in the order of their row ids
  Horizon,      \* seconds after discovery; 0 is the baseline
  Window,       \* Window[h]: how long after its target a job may be captured
  Lease,        \* lease_seconds
  RetryDelay,   \* retry_delay_seconds
  Worker,       \* worker processes
  Slot,         \* requests one worker can have under way (max_concurrency)
  MaxTime,      \* bound: the clock stops here
  MaxLife       \* bound: restarts of one worker process

ASSUME TimeAssumption ==
  /\ Candidate \subseteq Nat
  /\ Horizon \subseteq Nat /\ 0 \in Horizon
  /\ Window \in [Horizon -> Nat]
  /\ Lease \in Nat /\ RetryDelay \in Nat /\ MaxTime \in Nat /\ MaxLife \in Nat

\* The configured windows: a baseline closes before the next horizon is due.
ASSUME BaselineClosesFirst == \A h \in Horizon \ {0} : Window[0] < h

VARIABLES
  now,         \* the wall clock
  (* tables *)
  first_seen,  \* cohort_candidates.first_discovered_epoch, or Never
  job,         \* outcome_jobs by candidate and horizon
  seen,        \* market_observations of a job, in the order of their row ids
  outcome,     \* candidate_outcomes: <<candidate, horizon>> computed
  (* workers *)
  life,        \* how often a process was restarted: a new worker_id each time
  mode,        \* where run_due_once stands
  stamp,       \* the clock reading claim_due_outcome_jobs was called with
  batch,       \* slots gathered by the running pass
  flight       \* _process_job by worker and slot

tables  == <<first_seen, job, seen, outcome>>
passes  == <<life, mode, stamp, batch>>
vars    == <<now, first_seen, job, seen, outcome, life, mode, stamp, batch, flight>>

Never     == MaxTime + 1
Job       == Candidate \X Horizon
Terminal  == {"CAPTURED", "NO_DATA_WITHIN_WINDOW", "MISSED_WINDOW"}
Open      == {"PENDING", "RETRYING", "IN_PROGRESS"}
WorkerId  == Worker \X (0..MaxLife)
Nobody    == <<>>
NoFlight  == [phase |-> "none", job |-> <<>>, at |-> 0]
Absent    == [status |-> "ABSENT", next |-> 0, owner |-> Nobody, until |-> 0]

Target(j)  == first_seen[j[1]] + j[2]
Expires(j) == Target(j) + Window[j[2]]
Me(w)      == <<w, life[w]>>

Init ==
  /\ now = 0
  /\ first_seen = [c \in Candidate |-> Never]
  /\ job     = [j \in Job |-> Absent]
  /\ seen    = [j \in Job |-> <<>>]
  /\ outcome = {}
  /\ life    = [w \in Worker |-> 0]
  /\ mode    = [w \in Worker |-> "rest"]
  /\ stamp   = [w \in Worker |-> 0]
  /\ batch   = [w \in Worker |-> {}]
  /\ flight  = [w \in Worker |-> [s \in Slot |-> NoFlight]]
-----------------------------------------------------------------------------
(* record_discovery_batch: one transaction, insert-only *)

\* Faulty variant: a rediscovered identity replaces its cohort row and its jobs.
EnrolReplaces(found) ==
  /\ first_seen' = [c \in Candidate |-> IF c \in found THEN now ELSE first_seen[c]]
  /\ job' = [j \in Job |->
               IF j[1] \in found
               THEN [status |-> "PENDING", next |-> now + j[2], owner |-> Nobody, until |-> 0]
               ELSE job[j]]
  /\ UNCHANGED <<now, seen, outcome, passes, flight>>

Enrol(found) ==
  LET fresh == {c \in found : first_seen[c] = Never}
  IN /\ first_seen' = [c \in Candidate |-> IF c \in fresh THEN now ELSE first_seen[c]]
     /\ job' = [j \in Job |->
                  IF j[1] \in fresh
                  THEN [status |-> "PENDING", next |-> now + j[2], owner |-> Nobody, until |-> 0]
                  ELSE job[j]]
     /\ UNCHANGED <<now, seen, outcome, passes, flight>>
-----------------------------------------------------------------------------
(* claim_due_outcome_jobs *)

\* Faulty variant: a leased job is left to its worker after its window.
MissedUnlessLeased(j, t) == job[j].status \in {"PENDING", "RETRYING"} /\ Expires(j) < t

Missed(j, t) == job[j].status \in Open /\ Expires(j) < t

Due(j, t) ==
  /\ Target(j) <= t /\ t <= Expires(j) /\ job[j].next <= t
  /\ \/ job[j].status \in {"PENDING", "RETRYING"}
     \/ job[j].status = "IN_PROGRESS" /\ job[j].until < t

\* ORDER BY horizon_seconds, target_at, id
Before(i, j) ==
  \/ i[2] < j[2]
  \/ i[2] = j[2] /\ Target(i) < Target(j)
  \/ i[2] = j[2] /\ Target(i) = Target(j) /\ i[1] < j[1]

\* Jobs as the sweep of a claim at time t leaves them.
Swept(t) ==
  [j \in Job |-> IF Missed(j, t)
                 THEN [job[j] EXCEPT !.status = "MISSED_WINDOW", !.owner = Nobody, !.until = 0]
                 ELSE job[j]]

Leased(w, j, t) ==
  [Swept(t) EXCEPT ![j] = [@ EXCEPT !.status = "IN_PROGRESS", !.owner = Me(w),
                                    !.until = t + Lease]]

\* The pass begins after outcome_poll_seconds, with an empty batch.
Wake(w) ==
  /\ mode[w] = "rest"
  /\ mode' = [mode EXCEPT ![w] = "claim"]
  /\ UNCHANGED <<now, tables, life, stamp, batch, flight>>

\* now_epoch is read before the write lock is awaited.
ReadClock(w) ==
  /\ mode[w] = "claim"
  /\ \E s \in Slot : flight[w][s].phase = "none"
  /\ mode'  = [mode EXCEPT ![w] = "begin"]
  /\ stamp' = [stamp EXCEPT ![w] = now]
  /\ UNCHANGED <<now, tables, life, batch, flight>>

\* The claimed requests of a batch start together (asyncio.gather).
Launched(w, slots) ==
  [s \in Slot |-> IF s \in slots THEN [flight[w][s] EXCEPT !.phase = "fetch"] ELSE flight[w][s]]

\* A job is due: it is leased for the caller, and more may be claimed.
ClaimJob(w, j, s) ==
  /\ mode[w] = "begin"
  /\ Due(j, stamp[w])
  /\ \A i \in Job : Due(i, stamp[w]) /\ i # j => Before(j, i)
  /\ flight[w][s].phase = "none"
  /\ job'    = Leased(w, j, stamp[w])
  /\ batch'  = [batch EXCEPT ![w] = @ \cup {s}]
  /\ mode'   = [mode EXCEPT ![w] = "claim"]
  /\ flight' = [flight EXCEPT ![w][s] = [phase |-> "claimed", job |-> j, at |-> stamp[w]]]
  /\ UNCHANGED <<now, first_seen, seen, outcome, life, stamp>>

\* Nothing is due: the pass ends, or gathers what it claimed.
ClaimNothing(w) ==
  /\ mode[w] = "begin"
  /\ \A j \in Job : ~Due(j, stamp[w])
  /\ job'    = Swept(stamp[w])
  /\ mode'   = [mode EXCEPT ![w] = IF batch[w] = {} THEN "rest" ELSE "gather"]
  /\ flight' = [flight EXCEPT ![w] = Launched(w, batch[w])]
  /\ UNCHANGED <<now, first_seen, seen, outcome, life, stamp, batch>>

\* The batch is full, by max_concurrency or by the limit of the pass.
BatchFull(w) ==
  /\ mode[w] = "claim" /\ batch[w] # {}
  /\ mode'   = [mode EXCEPT ![w] = "gather"]
  /\ flight' = [flight EXCEPT ![w] = Launched(w, batch[w])]
  /\ UNCHANGED <<now, tables, life, stamp, batch>>

\* The claim meets a locked database: the exception ends the pass, and the
\* jobs it had leased are left to their leases.
ClaimFails(w) ==
  /\ mode[w] = "begin"
  /\ mode'   = [mode EXCEPT ![w] = "rest"]
  /\ flight' = [flight EXCEPT ![w] = [s \in Slot |-> IF s \in batch[w] THEN NoFlight ELSE @[s]]]
  /\ batch'  = [batch EXCEPT ![w] = {}]
  /\ UNCHANGED <<now, tables, life, stamp>>

\* Every request of the batch is settled; the pass claims more, or has reached
\* its limit.
Gathered(w) ==
  /\ mode[w] = "gather"
  /\ \A s \in batch[w] : flight[w][s].phase = "none"
  /\ \E m \in {"claim", "rest"} : mode' = [mode EXCEPT ![w] = m]
  /\ batch' = [batch EXCEPT ![w] = {}]
  /\ UNCHANGED <<now, tables, life, stamp, flight>>
-----------------------------------------------------------------------------
(* _process_job *)

\* The provider answers: with a positive price captured now, or with no pair, no
\* positive price or an error, which are retried.
Answer(w, s, priced) ==
  /\ flight[w][s].phase = "fetch"
  /\ flight' = [flight EXCEPT ![w][s] = [@ EXCEPT !.phase = IF priced THEN "complete" ELSE "retry",
                                                  !.at = now]]
  /\ UNCHANGED <<now, tables, passes>>

\* The observation of a request f.
Record(f, status) ==
  seen' = [seen EXCEPT ![f.job] = Append(@, [status |-> status, at |-> f.at])]

Owned(w, j) == job[j].status = "IN_PROGRESS" /\ job[j].owner = Me(w)

Settled(j, status) ==
  [job EXCEPT ![j] = [@ EXCEPT !.status = status, !.owner = Nobody, !.until = 0]]

Land(w, s) == flight' = [flight EXCEPT ![w][s] = NoFlight]

\* Faulty variant: the observation is stored whether or not the job was still owned.
CompleteLateUnchecked(w, s) ==
  /\ flight[w][s].phase = "complete" /\ flight[w][s].at > Expires(flight[w][s].job)
  /\ job' = IF Owned(w, flight[w][s].job) THEN Settled(flight[w][s].job, "MISSED_WINDOW") ELSE job
  /\ Record(flight[w][s], "OUTSIDE_CAPTURE_WINDOW")
  /\ Land(w, s)
  /\ UNCHANGED <<now, first_seen, outcome, passes>>

\* complete_outcome_job, the answer came after the window closed.
CompleteLate(w, s) ==
  LET j  == flight[w][s].job
      at == flight[w][s].at
  IN /\ flight[w][s].phase = "complete"
     /\ at > Expires(j)
     /\ IF Owned(w, j)
        THEN /\ job'  = Settled(j, "MISSED_WINDOW")
             /\ Record(flight[w][s], "OUTSIDE_CAPTURE_WINDOW")
        ELSE UNCHANGED <<job, seen>>
     /\ Land(w, s)
     /\ UNCHANGED <<now, first_seen, outcome, passes>>

Saw(j, status) == \E i \in DOMAIN seen[j] : seen[j][i].status = status
Captured(j)    == Saw(j, "CAPTURED")

\* Faulty variant: a job still leased is captured by any answer.
CompleteAnyTime(w, s) ==
  LET j == flight[w][s].job
  IN /\ flight[w][s].phase = "complete" /\ Owned(w, j)
     /\ job' = Settled(j, "CAPTURED")
     /\ Record(flight[w][s], "CAPTURED")
     /\ outcome' = IF j[2] > 0 /\ Captured(<<j[1], 0>>) THEN outcome \cup {j} ELSE outcome
     /\ Land(w, s)
     /\ UNCHANGED <<now, first_seen, passes>>

\* complete_outcome_job, compare-and-set on status, owner and lease.
CompleteInWindow(w, s) ==
  LET j  == flight[w][s].job
      at == flight[w][s].at
  IN /\ flight[w][s].phase = "complete"
     /\ at <= Expires(j)
     /\ IF Owned(w, j) /\ job[j].until >= at
        THEN /\ job'  = Settled(j, "CAPTURED")
             /\ Record(flight[w][s], "CAPTURED")
             /\ outcome' = IF j[2] > 0 /\ Captured(<<j[1], 0>>) THEN outcome \cup {j} ELSE outcome
        ELSE UNCHANGED <<job, seen, outcome>>
     /\ Land(w, s)
     /\ UNCHANGED <<now, first_seen, passes>>

\* complete_outcome_job raises and is rolled back; the handler retries the job.
CompleteFails(w, s) ==
  /\ flight[w][s].phase = "complete"
  /\ flight' = [flight EXCEPT ![w][s] = [@ EXCEPT !.phase = "retry", !.at = now]]
  /\ UNCHANGED <<now, tables, passes>>

Smaller(a, b) == IF a <= b THEN a ELSE b

\* retry_outcome_job, compare-and-set on status and owner.
Retry(w, s) ==
  LET j    == flight[w][s].job
      next == flight[w][s].at + RetryDelay
      last == next > Expires(j)
  IN /\ flight[w][s].phase = "retry"
     /\ IF Owned(w, j)
        THEN /\ job' = [Settled(j, IF last THEN "NO_DATA_WITHIN_WINDOW" ELSE "RETRYING")
                          EXCEPT ![j].next = Smaller(next, Expires(j))]
             /\ IF last THEN Record(flight[w][s], "NO_DATA_WITHIN_WINDOW") ELSE UNCHANGED seen
        ELSE UNCHANGED <<job, seen>>
     /\ Land(w, s)
     /\ UNCHANGED <<now, first_seen, outcome, passes>>

\* retry_outcome_job raises: the exception leaves gather and ends the pass while
\* the other requests of the batch go on without it.
RetryFails(w, s) ==
  /\ flight[w][s].phase = "retry"
  /\ Land(w, s)
  /\ IF s \in batch[w]
     THEN /\ mode'  = [mode EXCEPT ![w] = "rest"]
          /\ batch' = [batch EXCEPT ![w] = {}]
     ELSE UNCHANGED <<mode, batch>>
  /\ UNCHANGED <<now, tables, life, stamp>>

\* The process dies and another takes its place under a new worker_id.
Restart(w) ==
  /\ life[w] < MaxLife
  /\ life'   = [life EXCEPT ![w] = @ + 1]
  /\ mode'   = [mode EXCEPT ![w] = "rest"]
  /\ batch'  = [batch EXCEPT ![w] = {}]
  /\ flight' = [flight EXCEPT ![w] = [s \in Slot |-> NoFlight]]
  /\ UNCHANGED <<now, tables, stamp>>

Tick ==
  /\ now < MaxTime
  /\ now' = now + 1
  /\ UNCHANGED <<tables, passes, flight>>
-----------------------------------------------------------------------------
Fault(w) ==
  \/ ClaimFails(w)
  \/ \E s \in Slot : CompleteFails(w, s) \/ RetryFails(w, s)
  \/ Restart(w)

Claim(w) == ClaimNothing(w) \/ \E j \in Job, s \in Slot : ClaimJob(w, j, s)

Pass(w) == Wake(w) \/ ReadClock(w) \/ Claim(w) \/ BatchFull(w) \/ Gathered(w)

Process(w, s) ==
  \/ \E priced \in BOOLEAN : Answer(w, s, priced)
  \/ CompleteLate(w, s) \/ CompleteInWindow(w, s) \/ Retry(w, s)

Next ==
  \/ Tick
  \/ \E found \in SUBSET Candidate : Enrol(found)
  \/ \E w \in Worker : Pass(w) \/ Fault(w) \/ \E s \in Slot : Process(w, s)

Spec == Init /\ [][Next]_vars

\* Time passes, the event loop runs every pass, a database that is locked again
\* and again is not locked for every claim, and every request ends by its timeouts
\* at the latest.
FairSpec ==
  /\ Spec
  /\ WF_vars(Tick)
  /\ \A w \in Worker :
       /\ WF_vars(Pass(w)) /\ SF_vars(Claim(w))
       /\ \A s \in Slot : WF_vars(Process(w, s))
-----------------------------------------------------------------------------
(* Properties *)

JobRecord == [status : Open \cup Terminal \cup {"ABSENT"}, next : Nat,
              owner : WorkerId \cup {Nobody}, until : Nat]

Observation ==
  [status : {"CAPTURED", "NO_DATA_WITHIN_WINDOW", "OUTSIDE_CAPTURE_WINDOW"}, at : Nat]

Request == [phase : {"none", "claimed", "fetch", "complete", "retry"},
            job : Job \cup {<<>>}, at : Nat]

TypeOK ==
  /\ now \in 0..MaxTime
  /\ first_seen \in [Candidate -> 0..Never]
  /\ job \in [Job -> JobRecord]
  /\ seen \in [Job -> Seq(Observation)]
  /\ outcome \subseteq Job
  /\ life \in [Worker -> 0..MaxLife]
  /\ mode \in [Worker -> {"rest", "claim", "begin", "gather"}]
  /\ stamp \in [Worker -> 0..MaxTime]
  /\ batch \in [Worker -> SUBSET Slot]
  /\ flight \in [Worker -> [Slot -> Request]]

(***************************************************************************)
(* A job has at most one observation, whichever workers raced for it, and  *)
(* its status says the same: a price is stored exactly when the job is     *)
(* CAPTURED, missing data exactly when it ended without any.               *)
(***************************************************************************)
OneVerdict ==
  \A j \in Job :
    /\ Len(seen[j]) <= 1
    /\ Captured(j) <=> job[j].status = "CAPTURED"
    /\ Saw(j, "NO_DATA_WITHIN_WINDOW") <=> job[j].status = "NO_DATA_WITHIN_WINDOW"
    /\ Saw(j, "OUTSIDE_CAPTURE_WINDOW") => job[j].status = "MISSED_WINDOW"

(***************************************************************************)
(* A price counts only if the provider's answer came between the target    *)
(* and the end of the capture window, however late it was stored.          *)
(***************************************************************************)
CapturedInWindow ==
  \A j \in Job : \A i \in DOMAIN seen[j] :
    seen[j][i].status = "CAPTURED" =>
      Target(j) <= seen[j][i].at /\ seen[j][i].at <= Expires(j)

(***************************************************************************)
(* A return is computed exactly when both the baseline and the horizon     *)
(* price of a candidate were captured: none is invented, and none is lost  *)
(* because the baseline was settled after the horizon.                     *)
(***************************************************************************)
ReturnNeedsBoth ==
  \A j \in Job : j \in outcome <=> j[2] > 0 /\ Captured(j) /\ Captured(<<j[1], 0>>)

(***************************************************************************)
(* What is settled is final: no rediscovery, late answer or retry changes  *)
(* a terminal job or the discovery clock of the calibration cohort.        *)
(***************************************************************************)
SettledIsFinal ==
  [][/\ \A j \in Job : job[j].status \in Terminal =>
                         job'[j] = job[j] /\ seen'[j] = seen[j]
     /\ \A c \in Candidate : first_seen[c] # Never => first_seen'[c] = first_seen[c]]_vars

(***************************************************************************)
(* Every job becomes terminal once its window has passed, also one whose   *)
(* worker died holding it or whose settlement met a locked database.       *)
(***************************************************************************)
EverySettles ==
  \A j \in Job :
    (first_seen[j[1]] # Never /\ Expires(j) < MaxTime) ~> job[j].status \in Terminal
-----------------------------------------------------------------------------
(***************************************************************************)
(* The inductive invariant behind these properties.                        *)
(***************************************************************************)
\* An identity has all its jobs or none, as the enrolling transaction left them.
CohortInv == \A j \in Job : job[j].status = "ABSENT" <=> first_seen[j[1]] = Never

\* A request under way is for a job that was due when its clock was read, and a
\* batch waits as it was claimed until it is gathered.
FlightInv ==
  /\ \A w \in Worker :
       /\ stamp[w] <= now
       /\ mode[w] = "rest" => batch[w] = {}
       /\ mode[w] \in {"claim", "begin"} => \A s \in batch[w] : flight[w][s].phase = "claimed"
  /\ \A w \in Worker, s \in Slot :
       LET f == flight[w][s]
       IN f.phase # "none" => /\ f.job \in Job
                              /\ first_seen[f.job[1]] # Never
                              /\ Target(f.job) <= f.at /\ f.at <= now

\* The observation of a job, read off its status.
Single(j, status) == Len(seen[j]) = 1 /\ seen[j][1].status = status

VerdictInv ==
  \A j \in Job :
    /\ job[j].status = "CAPTURED" => /\ Single(j, "CAPTURED")
                                    /\ Target(j) <= seen[j][1].at
                                    /\ seen[j][1].at <= Expires(j)
    /\ job[j].status = "NO_DATA_WITHIN_WINDOW" => Single(j, "NO_DATA_WITHIN_WINDOW")
    /\ job[j].status = "MISSED_WINDOW" => seen[j] = <<>> \/ Single(j, "OUTSIDE_CAPTURE_WINDOW")
    /\ job[j].status \notin Terminal => seen[j] = <<>>

\* Nobody worked on a horizon before the baseline of its candidate was settled:
\* the sweep of the claim that leased it has closed the baseline's window.
BaselineInv ==
  \A c \in Candidate, h \in Horizon \ {0} :
    job[<<c, h>>].status \in {"ABSENT", "PENDING", "MISSED_WINDOW"}
      \/ job[<<c, 0>>].status \in Terminal

LedgerInv ==
  /\ TypeOK
  /\ CohortInv
  /\ FlightInv
  /\ VerdictInv
  /\ BaselineInv
  /\ ReturnNeedsBoth
=============================================================================
