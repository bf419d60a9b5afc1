--------------------------- MODULE SessionHistory ---------------------------
(***************************************************************************)
(* The finite sessions of the Shadow Signal Company workflow.  A session   *)
(* starts from the checkpoint that findPreviousSignalState selects among   *)
(* the artifacts of earlier runs, delivers alerts, and leaves a checkpoint *)
(* of its own if its runner lives to upload one.  Runs are queued, lost,   *)
(* rerun, and their artifacts expire; the repository-wide artifact listing *)
(* may lag behind a completed upload.                                      *)
(***************************************************************************)
EXTENDS Naturals, FiniteSetsExt

CONSTANTS
  MaxRun,      \* bound: workflow runs, numbered in the order of their ids
  MaxAttempt   \* bound: attempts of one run; 1 if nobody uses "Re-run jobs"

ASSUME RunAssumption == MaxRun \in Nat /\ MaxAttempt \in Nat \ {0}

VARIABLES
  (* GitHub *)
  stage,     \* where a run stands
  attempt,   \* the attempt of a run, 0 before it is created
  session,   \* runs whose latest attempt shows its session step as started
  artifact,  \* signal-state of a run: the deliveries its database knows
  uploaded,  \* runs that have a signal-state artifact
  expired,   \* runs whose artifact has expired
  (* the runner of the active run *)
  file,      \* memescanner.db exists
  db,        \* the deliveries it knows
  (* the operator *)
  told       \* runs in which Telegram accepted an alert

github == <<stage, attempt, session, artifact, uploaded, expired>>
runner == <<file, db>>
vars   == <<stage, attempt, session, artifact, uploaded, expired, file, db, told>>

Run    == 1..MaxRun
Active == {"locate", "session", "checkpoint", "upload"}
Stage  == {"new", "queued", "over"} \cup Active

Init ==
  /\ stage    = [r \in Run |-> "new"]
  /\ attempt  = [r \in Run |-> 0]
  /\ session  = {}
  /\ artifact = [r \in Run |-> {}]
  /\ uploaded = {}
  /\ expired  = {}
  /\ file = FALSE
  /\ db   = {}
  /\ told = {}

Busy == \E r \in Run : stage[r] \in Active
-----------------------------------------------------------------------------
(* The workflow's trigger and its concurrency group *)

\* A newer pending run takes the place of an older one.
Queue(r) ==
  stage' = [q \in Run |-> IF q = r THEN "queued"
                          ELSE IF stage[q] = "queued" THEN "over" ELSE stage[q]]

Trigger(r) ==
  /\ stage[r] = "new" /\ \A q \in Run : q < r => stage[q] # "new"
  /\ Queue(r)
  /\ attempt' = [attempt EXCEPT ![r] = 1]
  /\ UNCHANGED <<session, artifact, uploaded, expired, runner, told>>

\* "Re-run jobs": the steps of the new attempt are shown in place of the old.
Rerun(r) ==
  /\ stage[r] = "over" /\ attempt[r] < MaxAttempt
  /\ Queue(r)
  /\ attempt' = [attempt EXCEPT ![r] = @ + 1]
  /\ session' = session \ {r}
  /\ UNCHANGED <<artifact, uploaded, expired, runner, told>>

\* cancel-in-progress: false.
Begin(r) ==
  /\ stage[r] = "queued" /\ ~Busy
  /\ stage' = [stage EXCEPT ![r] = "locate"]
  /\ file' = FALSE /\ db' = {}
  /\ UNCHANGED <<attempt, session, artifact, uploaded, expired, told>>

End(r) == stage' = [stage EXCEPT ![r] = "over"]
-----------------------------------------------------------------------------
(* findPreviousSignalState *)

\* Faulty variants: every run that ended counts as a session; none does.
StartedIfOver(q) == stage[q] = "over"
StartedNever(q)  == FALSE

\* sessionStarted, of the jobs GitHub lists: those of the latest attempt.
Started(q) == q \in session

\* The prior checkpoint among those the listing shows, 0 if there is none.
Prior(shown) == Max({0} \cup shown)

\* Runs since then whose session may be newer than what the listing shows.
Newer(r, shown) == {q \in Run : Prior(shown) < q /\ q < r /\ Started(q)}

\* The checkpoint to restore, after every newer session was asked for its own.
Chosen(r, shown) == Max({Prior(shown)} \cup Newer(r, shown))

Refuses(r, shown) ==
  \/ attempt[r] # 1
  \/ \E q \in Newer(r, shown) : q \notin uploaded
  \/ Chosen(r, shown) \in expired

\* The history must not roll back: the run is refused.
Refused(r, shown) ==
  /\ stage[r] = "locate" /\ Refuses(r, shown)
  /\ End(r)
  /\ UNCHANGED <<attempt, session, artifact, uploaded, expired, runner, told>>

\* The checkpoint is downloaded and verified, or a new database is created; the
\* session step starts.
Restore(r, shown) ==
  /\ stage[r] = "locate" /\ ~Refuses(r, shown)
  /\ LET prior == Chosen(r, shown)
     IN db' = IF prior = 0 THEN {} ELSE artifact[prior]
  /\ file' = TRUE
  /\ stage'   = [stage EXCEPT ![r] = "session"]
  /\ session' = session \cup {r}
  /\ UNCHANGED <<attempt, artifact, uploaded, expired, told>>

\* Cancelled or failed before the session step, after a checkpoint was restored:
\* the steps that always run keep it.
StopBefore(r, shown) ==
  /\ stage[r] = "locate" /\ ~Refuses(r, shown) /\ Chosen(r, shown) # 0
  /\ file' = TRUE
  /\ db' = artifact[Chosen(r, shown)]
  /\ stage' = [stage EXCEPT ![r] = "checkpoint"]
  /\ UNCHANGED <<attempt, session, artifact, uploaded, expired, told>>
-----------------------------------------------------------------------------
(* The session, its checkpoint and its upload *)

\* Telegram accepts an alert; its claim was on disk before.
Deliver(r) ==
  /\ stage[r] = "session"
  /\ db'   = db \cup {r}
  /\ told' = told \cup {r}
  /\ UNCHANGED <<github, file>>

\* The session times out, fails or is cancelled; the next steps always run.
Finish(r) ==
  /\ stage[r] = "session"
  /\ stage' = [stage EXCEPT ![r] = "checkpoint"]
  /\ UNCHANGED <<attempt, session, artifact, uploaded, expired, runner, told>>

\* checkpoint verifies the database and copies it with SQLite's backup.
Checkpoint(r) ==
  /\ stage[r] = "checkpoint" /\ file
  /\ stage' = [stage EXCEPT ![r] = "upload"]
  /\ UNCHANGED <<attempt, session, artifact, uploaded, expired, runner, told>>

Upload(r) ==
  /\ stage[r] = "upload"
  /\ artifact' = [artifact EXCEPT ![r] = db]
  /\ uploaded' = uploaded \cup {r}
  /\ End(r)
  /\ UNCHANGED <<attempt, session, expired, runner, told>>

\* The runner is lost, or a step that cannot be done without fails.
Lose(r) ==
  /\ stage[r] \in Active
  /\ End(r)
  /\ UNCHANGED <<attempt, session, artifact, uploaded, expired, runner, told>>

\* retention-days: 90.
Expire(r) ==
  /\ r \in uploaded
  /\ expired' = expired \cup {r}
  /\ UNCHANGED <<stage, attempt, session, artifact, uploaded, runner, told>>
-----------------------------------------------------------------------------
\* What the repository-wide listing can show run r: any part of what is there.
Listings(r) == SUBSET {q \in uploaded : q <= r}

Next ==
  \E r \in Run :
    \/ Trigger(r) \/ Rerun(r) \/ Begin(r)
    \/ \E shown \in Listings(r) :
         Refused(r, shown) \/ Restore(r, shown) \/ StopBefore(r, shown)
    \/ Deliver(r) \/ Finish(r) \/ Checkpoint(r) \/ Upload(r)
    \/ Lose(r) \/ Expire(r)

Spec == Init /\ [][Next]_vars
-----------------------------------------------------------------------------
(* Properties *)

TypeOK ==
  /\ stage \in [Run -> Stage]
  /\ attempt \in [Run -> 0..MaxAttempt]
  /\ session \subseteq Run
  /\ artifact \in [Run -> SUBSET Run]
  /\ uploaded \subseteq Run
  /\ expired \subseteq uploaded
  /\ file \in BOOLEAN
  /\ db \subseteq Run
  /\ told \subseteq Run

(***************************************************************************)
(* A session never starts from, or works on, a history that has lost a     *)
(* delivery of an earlier session, so that no accepted alert can be        *)
(* claimed a second time.                                                  *)
(***************************************************************************)
NoRollback == \A r \in Run : stage[r] = "session" => told \subseteq db

\* No run so far was rerun.
NoRerun == \A r \in Run : attempt[r] <= 1

(***************************************************************************)
(* The same, promised only as long as nobody used "Re-run jobs".           *)
(***************************************************************************)
KeptWithoutRerun == NoRerun => NoRollback

\* A session that never uploaded its checkpoint; the checkpoint a run has to start from.
LostSession(q, r) == q < r /\ q \in session /\ q \notin uploaded /\ stage[q] = "over"
LastHistory(q, r) == q <= r /\ \A k \in session : k < r => k <= q

(***************************************************************************)
(* A new run is refused only for a cause that will not go away: an earlier *)
(* session is over and left no checkpoint, or the checkpoint of the last   *)
(* session expired.  Neither a listing that lags, nor an upload under way, *)
(* nor a run cancelled in the queue or before its session, nor the expiry  *)
(* of an older checkpoint can block the restart of the company.            *)
(***************************************************************************)
RefusedForCause ==
  \A r \in Run : \A shown \in Listings(r) :
    (stage[r] = "locate" /\ attempt[r] = 1 /\ Refuses(r, shown)) =>
       \/ \E q \in Run : LostSession(q, r)
       \/ \E q \in expired : LastHistory(q, r)
-----------------------------------------------------------------------------
(***************************************************************************)
(* The inductive invariant: the concurrency group, and, until the first    *)
(* rerun, the order of the runs and the completeness of every checkpoint.  *)
(***************************************************************************)
\* Exactly the runs that nobody triggered have no attempt.
CountInv == \A r \in Run : stage[r] = "new" <=> attempt[r] = 0

\* Runs go through the concurrency group one after the other, in their order.
OrderInv ==
  \A r \in Run :
    /\ stage[r] # "new" => \A q \in Run : q < r => stage[q] # "new"
    /\ stage[r] \in {"new", "queued", "locate"} => r \notin session
    /\ stage[r] = "session" => r \in session
    /\ stage[r] \in {"new", "queued"} \cup Active => r \notin uploaded
    /\ stage[r] = "queued" => \A q \in Run : q > r => stage[q] = "new"
    /\ stage[r] \in Active =>
         \A q \in Run : q > r => /\ stage[q] \notin Active
                                 /\ q \notin session /\ q \notin uploaded
    /\ stage[r] \in Active => \A q \in Run : q < r => stage[q] = "over"

\* A checkpoint knows every delivery up to its run, and so does the database of
\* a runner that has restored its history.
KnownInv ==
  /\ told \subseteq session
  /\ \A r \in uploaded : \A t \in told : t <= r => t \in artifact[r]
  /\ \A r \in Run : stage[r] \in {"session", "checkpoint", "upload"} => told \subseteq db

\* One run at a time is active, and the session step it shows is behind it.
GroupInv ==
  /\ \A q, r \in Run : stage[q] \in Active /\ stage[r] \in Active => q = r
  /\ \A q \in session : stage[q] \in {"session", "checkpoint", "upload", "over"}

HistoryInv == TypeOK /\ CountInv /\ GroupInv /\ (NoRerun => OrderInv /\ KnownInv)
=============================================================================
