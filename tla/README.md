# A verification project for the memecoin signal company

TLA+ models of the parts of `memescanner/`, `scripts/` and `.github/workflows/`
that keep state across awaits, processes, crashes and restarts, the TLC runs that
check them and the TLAPS proofs of their main invariants. Source lines of every
definition are in `PROJECT.json` under "map".

## 1. The system

`python -m memescanner` (`__main__.main_loop`) is a signal-only process: it scans
for new Solana tokens, reviews them, and tells an operator on Telegram of at most
one candidate per cycle, as WATCH (research) or BUY. Four asyncio tasks share one
SQLite file through connections of their own.

| Component | State it keeps | Operations | Interacts by |
|---|---|---|---|
| Scanner `unified_scanner.run_cycle` | decisions of a cycle, rotation offset | discover, evaluate, rank, claim, persist, deliver, settle | claims and observations in the database; `alert_sender` callback |
| Alert claims `database.py` | `candidate_alert_claims` (earlier builds), `signal_alert_claims`, `candidate_observations` | `signal_is_final`, `try_claim_signal`, `finish_signal`, `record_candidate_observation` | SQL transactions of several processes |
| `TelegramSender` | none | `send`: True, False or an exception | HTTP; a lost answer says nothing |
| Signal company `signals.py` | none | `prepare`: a message or a veto | called by the scanner |
| Outcome worker `outcomes.py` | worker id, requests under way | `run_due_once`, `_process_job` | leases in `outcome_jobs`; `market_observations`, `candidate_outcomes` |
| Forward validation `validation.py` | `forward_signals` | `record`, `sample_once`, `run` | asyncio lock; supervised by the main loop |
| Session workflow, `signal_history.cjs`, `signal_state.py` | artifacts on GitHub | locate, restore, session, checkpoint, upload | GitHub API |
| Calibration `calibration.py` | `calibration_runs` | `generate` | reads outcomes |
| Discovery `discovery.py` and its HTTP client | candidates of a cycle | `discover`, `get_pair`, `request` with retries | asked by the scanner; public APIs |
| Evaluator `unified_scanner.CommonEvaluator` | one candidate's evidence | `evaluate`: gates, score, presence, profit ladder | asks pairs, chain and X search in turn |
| On-chain and liquidity checks `onchain.py`, `liquidity.py` | `access_denied`, `last_error`, cooldown | `check_token`, `verify` | JSON-RPC, any call of which can be lost |
| X search `x_search.py` | `access_denied`, `retry_after`, `failures` | `search_token` on two backends at once | HTTP; awaited by the evaluator |
| Health reporter `operations.py` | `last_sent`, `reported_access` | `message` after a cycle | the operator's Telegram chat |
| Paper company and paper trader | balance, positions, halts, attempts | `consider`, `supervise`, `buy`, `check_positions`, exits | not started by the production process |
| Caller archive, dashboard, scripts | archive tables | one-shot tools, read-only pages | the database |

Hard behaviours, each at its line under "hazards" in `PROJECT.json`: a message
accepted although its answer was lost; a crash between delivery and its record;
claims decided in two awaits; leases that run out under a request; a baseline that
settles after the horizon it serves; two requests to one provider that are answered in
any order; a pool that is traded on while it is checked; evidence that ages through the
awaits of a review; a list longer than the budgets it is worked through with; a
clock reading that ages while a lock is
awaited; a provider that answers after the gap it hides; a checkpoint that is older
than the deliveries it should know; a sampler that dies under a living main loop; an
exit whose half-written row is committed by somebody else's statement; an inspection
that looks at the books in the middle of an exit.

What makes each part correct: *delivery* - at most one WATCH, then at most one BUY
per mint, whatever fails, and no blocked mint suppresses another; *outcomes* - one
verdict per job, inside its window, never lost; *sessions* - no session starts from
a history that forgot a delivery, and none is refused without a cause; *forward
ledger* - one path at a time, no hidden gap, reserve, daily limit and losing streak
kept across restarts; *paper company* - a signal is entered at most once, after its
intent and never under a halt; *paper trader* - no entry on books that do not
reconcile, a bounded loss of the day, and micro positions that are sold in the end; its exit
rules - no winner is kept below its first fill; *scan cycle* - no mint, link,
creator or age that a source named is dropped, nothing unsafe qualifies whatever could not be read, a BUY rests on a burn that
happened and on fresh evidence, and no candidate is starved; *providers* - no scam
warning is lost, an outage turns nothing off, and the operator hears of a denial.

## 2. What is modelled

### SignalDelivery, AlertPromise
One action per await of `run_cycle` between discovery and the last observation, for
several processes (`Session`) on one database. `claim`, `legacy_claim`, `alerted`
and `pending_rows` are the tables and survive everything; `pc`, `todo`, `qualified`,
`ticket` and `wire` are one process's cycle and are lost by `Abandon`, which is both
a death and an exception. A process that died and came back is the same member of
`Session` in its initial state. `try_claim_signal` is two actions, because it awaits
twice. Telegram is external: it accepts or refuses a request, the answer may be
lost, and a request whose sender has stopped waiting (`stray`) may still be
accepted. `History` lists what an earlier build can have left for a mint: every
observation it stored as alerted has its claim. `AlertPromise` is the abstract
specification, the promise to the operator; `KeepsPromise` says that the detailed
one implements it, with `delivered` mapped to itself.

Abstracted: the verdicts of the evaluator and of the company are choices (ScanCycle
has them); the expiry of a ticket may happen at any delivery; ranking is a constant
`Score` (ties in any order); the rows of candidates that did not win are left out; a
sender without credentials behaves like one that is refused; a cycle without a
`signal_preparer` is not the production composition and is left out.

### OutcomeJobs
`Enrol` is `record_discovery_batch` (one transaction), `ReadClock` to `Gathered` are
`run_due_once`, one action per transaction or await, and `Answer` to `RetryFails`
are `_process_job`. `job`, `seen` and `outcome` are the three tables. `now` is
integer time; `stamp` is the reading of the clock that a claim is made with, which
may be old when the transaction starts. Requests (`flight`) of one worker run side
by side in `Slot`; those left behind by an exception go on. `Restart` gives a worker
a new `worker_id`. The number of claims a pass may make is left open. `Enrol` reads the clock in
its transaction, the code before it waits for it (database.py:395): the discovery time may be
older there, which moves a target earlier and breaks no window, as windows are judged by the
job's own times.

### SessionHistory
Workflow runs in the order of their ids, with their attempts, the concurrency group
(a newer pending run replaces the older), the listing of artifacts (any part of
what was uploaded, never more), the jobs GitHub lists (those of the latest
attempt), loss of a runner at any step, expiry, and a database reduced to the
deliveries it knows. What an operator repairs by hand is not modelled. The GitHub
behaviour is external and is modelled from how the script uses it.

### ForwardValidation
`record` (`Record`, with `Enters` for its conditions), the sampler's tick
(`SampleNothing`, `SampleGap`, or `AskMarket` followed by `Unverified`, `Completed`
or `Sampled`, because the fetch is awaited under the lock), the main loop's cycle
and its check that the task lives (`Supervise`), stops, restarts and a wall clock
that may be set back. A price is its gross gain on the position; every reason for
`INCOMPLETE` after the fetch is one action. `closings` is history, the order in which
paths were really closed. The process guard makes this a one-process ledger.
Versions of plans matter only to the report, which is left out. So is what a dying sampler
leaves uncommitted, the INSERT and the UPDATE of a row alike: the next commit on the shared
connection stores it or the end of the process drops it, as the driver decides (section 5).

### PaperTrader, PaperCompany, EntryPromise
`PaperTrader` has the book three times: `mem` is `PaperTrader.balance`, `positions`
and `closed_trades`; `conn` is what its SQLite connection sees, statements that no
commit has covered included; `disk` is what was committed. `lock` is `_state_lock`;
`todo`, `gone` and `sale` are the pass of `check_positions` with the exit under way. An exit is chosen (`MicroExit`,
`TakeProfit`, `LegacyExit`, `RecoverySells`) and then written (`CloseCommits`; for a
partial exit `TakeCommits` and `SaveCommits`, its two commits); each write has a
failing variant that leaves any prefix of its statements on `conn`, because the pass
swallows the exception without a rollback. A buy rolls back. `EndPass` removes what
was closed from memory, as the code does, only when the pass is over.

`PaperCompany` extends it with `attempts` and `halts` (the audit database), the case
under review (`desk`) and whether supervision has been seen. `consider` is
`Consider`, the failures of workers and of the handoff, `Review` with the first
inspection, `Intend` or `Block` after the plan was published and inspected again, and
`AsksToBuy`, which waits for the lock; `Intend` is one step because nothing is
awaited between the inspection and the INFLIGHT row. `Supervises` is the end of a pass.
`EntryPromise` is the abstract specification, with the promise of a token read off
its attempt and its row on disk.

Abstracted: quotes are gains from a small set; the verdict of the legacy trails is a
choice, with the breakeven floor kept; every ticket has one size and one cost; the
economics of a ticket and the freshness of market and supervision are choices. Left
out: failures of the audit database, cancellation, buys outside the company, and the halt of a
supervision that raises (company.py:269; a pass swallows what fails in it, so only a database
that cannot be opened at the start raises there). A
trade carries the day it was stored with; a partial exit at midnight may have another
day in memory than on disk, which is why the properties compare positions and balance
(`SameMoney`) and bound the day's loss without legacy positions.

### PeakTrail
The rules that end a position of an earlier build, which `LegacyExit` of PaperTrader
takes as a choice: velocity, width, the trail before and after the sale of 80 %
(`PreTp1Sells`, `RunnerSells`, both with the floor of `TrailPrice`), the ratchet of the
runner target and the reading of corrupt targets. Prices are natural numbers in any
unit and widths are halves of a percent, so nothing is rounded except a target, to the
hundredth. `FloorHolds` is what lets `LegacyExit` assume its floor: a position that is
kept after the sale is quoted above its first fill. The floor speaks of what is kept;
a quote that falls through it is sold where it is, below the fill. A stored target is a number,
missing or unreadable; not-a-number is left out, because SQLite stores it as NULL.

### Discovery, OnChain, Evaluator, Review
Four modules of operators, the pure parts of a scan cycle. `Discovery`: the adapters
of the four sources, `MergePages`, and `Pair`, the choice among the pairs of a mint. Of
`source_metadata` it keeps, in `takeovers`, the sources whose entry states a community takeover:
`merge` updates a dictionary by source name (discovery.py:218), so a later item of a source
replaces the entry of an earlier one and leaves those of the other sources alone.
`OnChain`: `MintInfo` with the extensions of Token-2022, the coordination of amounts,
the suspicion of holder histories, and `CheckToken`, which is given what is true of
a token and the set of RPC calls that are lost. `Evaluator`: `MarketPasses`,
`ChainVerdict`, `SocialVerdict`, `Score`, `Presence` and `Ladder`. `Review`: the risk flags, the
`Ticket` with its costs, `PlanDecision`, the workers and `Verdict`. `Quantity` holds the
arithmetic they share. Dollars are whole, points and multiples hundredths, the money of
a plan hundredths of a cent.

### ScanCycle
`run_cycle` from discovery to the message, over these four. `Answers`, `Retries` and
`Fails` are one attempt of one source's request; `CompleteDiscovery` merges and rotates;
`Skip`, `LoadPair`, `CheckChain` and `SearchX` are the awaits of `evaluate`, each ending in
`Proceed` when the candidate is done with; `Rank` re-checks the age; `BeginReview`, `ReadLock` or
`LockUnread`, `Refetch` or `Vetoed`, and `Decide` are the awaits of `prepare`, and `TimesOut` its
`wait_for`. People move the pool between its two readings (`PoolMoves`; `since` is what it
was). Time enters as what has outlived its limit (`Outlives`, in `late`). A candidate that
passes its market after the on-chain budget is used up still counts in `checks_used`, as
in the code, and nothing depends on it. Claims and sending are SignalDelivery's;
`Deliver` keeps only that a delivered BUY is final.

### XSearch
The providers and the operator: the breakers of the two backends
(`access_denied`, `retry_after`, `failures`), the gate of the RPC node, the search for
mentions and the two forensic queries that run at the same time, each request answered
by an event of its own (`Succeed`, `Deny`, `Fail`), and the health message with its
loss. `raced`, `warned`, `told` and `alarms` are history. An answer is read whole or fails: one whose later post
turns out malformed after a warning was read (x_search.py:496) is a `Fail`. The three status codes of a
denial are one code; the cooldown beyond five seconds of the RPC node is a flag.

## 3. Runs

| Run | Instance | Shows |
|---|---|---|
| delivery_safety | 2 processes, 2 mints, one with any earlier history, equal scores | promise, trace, truth of the history, unique index, ownership of claims, inductive invariant |
| delivery_live | 1 process, strict ranking | `NotSuppressed`: once the environment is steady every mint is told or is blocked for an operator |
| outcome_safety | 2 workers x 2 requests, baseline and one horizon, windows of 1 tick, 1 restart | windows, returns, finality, inductive invariant (with the types) |
| outcome_live | 2 workers, baseline only, window 2, lease 1 | `OneVerdict` when a job is leased twice, `EverySettles` under faults and a restart |
| session_history | 4 runs, 2 attempts | `KeptWithoutRerun` and its inductive invariant, `RefusedForCause`: a session is refused only after one that was lost and may have delivered, or an expired checkpoint |
| session_rerun | 3 runs, 2 attempts | violation of `NoRollback` (below) |
| ledger | 4 mints, 2 plans, 6 instants, days of 2, streak 2 | reserve, a day's loss of at most the limit and the one position open when it is reached, final halt |
| ledger_path | 2 mints, a stop, a step back of the clock | one path, no hidden gap, nothing cleared, `EveryPathResolves` |
| paper_company | 2 signals, one legacy position, 2 days, 1 failed statement, 1 restart | entry promise and its invariant, sound books at every entry, day loss, `SlotFreed` (micro positions); the rules of PeakTrail at the edges of their bands, as assumptions TLC evaluates |
| paper_halt | 2 signals, no failure, no restart | violation of `HaltForCause` (below) |
| scan | 3 mints, 4 sources, 2 feeds, 3 attempts, 1 on-chain and 2 market checks a cycle, 21 tokens, 7 outages, 1 move of the pool, 1 limit outlived | no mint, link, creator, age or boost that a source named dropped by its adapter, the merge or the rotation, takeovers as last stated, also by a page that names a mint twice; only safe tokens qualify, an ordered ladder, a sound BUY, `StarvationFree` |
| x_search | 2 backends, 2 forensic queries | denials on record, warnings kept, few alarms, `OperatorLearns`, `AskedAgain` |

Bounds. Two processes and two mints are enough for every conflict over a claim,
which is between two holders of one mint; the second mint is what can be
suppressed. A lease shorter than the window makes a job leased twice; the tick
bounds let every window close and be swept. Four runs of two attempts let a lost
session be followed by an unlisted checkpoint, a cancelled run, a rerun and an
expiry. Amounts, days and the streak of the ledger are scaled, in cents and ticks, so that three or four paths
reach each limit exactly and one above it; `sleep(5)` is one tick. `ledger` has no stop, so that the
streak across restarts is shown by its theorem alone, as is the cut of the holders at ten, because
the account lists of `scan` are shorter. `MaxClock`,
`MaxTime`, `MaxRun`, `MaxStops`, `MaxSteps`, `MaxLife`, `MaxDay`, `MaxFaults`,
`MaxRestarts`, `MaxMoves`, `MaxLate` and `Slot` are bounds of the instances only; two signals let one be
reviewed while the position of the other is sold, and a total loss is one more than
the limit of the day; `LastEntry` stops new signals early enough for the last path to be
resolved before the clock ends. In `scan` every token has one flaw of its own,
because a second one cannot make it pass, and the quotes lie at both ends of the gates;
three mints are more than both budgets, so that some must wait for the rotation; one
move of the pool makes its two readings differ, and one limit outlived is enough to be
too old. `MaxAttempts`, `MaxChecks` and `MaxMarket` are settings of the code, the latter two
scaled. In `x_search` a request of each query to each backend is what can race; more
candidates repeat the cycle. Deadlock is checked where a system never ends;
SessionHistory and ForwardValidation stop when their runs and their clock are used
up.

Fairness. delivery_live: the event loop goes on running a living process (`WF` on
its own steps; nothing is assumed of Telegram but what `Steady` says of the tail of
the behaviour). outcome_live: time passes, the pass and every request are run
(requests end by their timeouts), and `SF` on `Claim`: a database that is locked
again and again is not locked at every claim - without it `claim_due_outcome_jobs`
could fail for ever. ledger_path: the sampler, the supervision, the end of a cycle
and Compose's restart happen, and the clock runs; deaths and stops are bounded.
paper_company: the supervisor's loop and the writes of an exit run on (`WF`; it is a
task of its own that survives every exception, company.py:272), and `SF` on an exit at
a quote between the stop and the target: quotes keep coming after the holding time,
but none need ever reach a threshold. Failures and restarts are bounded. scan: every call
has a timeout, so each stage of the cycle ends (`WF` on leaving it, whatever the
outcome), the list is worked through and the next cycle begins; `StarvationFree` further
assumes, in its own premise, that from some point on the sources list the same and none
fails. x_search: requests end, time passes, the loop wakes (`WF`); cycles come to their report again
and again although some end in an exception, and a message that is sent again and again
arrives (`SF`).

### Finding: a rerun hides a session
`scripts/signal_history.cjs:24` refuses reruns because "history must not roll back"
(also `docs/signal_reliability.md:113`). `session_rerun` shows that the refused
rerun itself makes the history roll back. Run 1 delivers an alert and loses its
runner before the upload. An operator presses "Re-run jobs"; attempt 2 is refused
before the session step, which is now shown as skipped. Run 2 lists the jobs of run
1 (line 40, without `filter: 'all'`, so those of the latest attempt), finds no
started session, and starts from an older checkpoint or a new database.

### Finding: an inspection in the middle of an exit halts for good
The Operations Boss "checks ... accounting reconciliation" and "persists halts on
failures" (docs/early_discovery_company.md:71). `inspect` (company.py:163) reads the
trader's memory without its lock. `check_positions` credits the balance and records
the trade (paper_trader.py:1776, 1793), then awaits a notification and a pause, and
drops the position from memory only after the pass (paper_trader.py:1419). A review in
between finds the position counted twice and persists
TREASURY_RECONCILIATION_FAILED; no restart lifts it, although the books on disk
reconcile before and after. `paper_halt` shows it in twelve states without a failure.

### Seen while modelling
What the code does here is in the models; no line of the repository is contradicted
sharply enough to be a finding, or the run to show it would repeat another.

- The docstring of `PaperTrader` says that nothing in the module closes a position on a timer, and
  that one without a price event holds its only slot indefinitely (paper_trader.py:652). The code
  sells a micro position once its holding time is over (paper_trader.py:1278), as the docstring
  of `__init__` says (line 714), and `SlotFreed` holds at quotes that reach neither stop nor target. What the
  first docstring says is still true of a position of an earlier build, which `SlotFreed` leaves out, and
  of a token that is not quoted at all, which its fairness excludes.
- `merge` is said to preserve "the richest known metadata" (discovery.py:206). A pump_fun page that
  names a mint twice keeps the metadata of its later item only: a takeover that the first one stated is
  gone, with up to 4 points of the score and of the presence. `NothingDropped` states what is kept, and the
  second feed of `scan` has such a page.
- Two requests to one backend race in the forensic search. If one is denied and the
  other then succeeds or times out, the record of the denial is dropped or overwritten
  (x_search.py:188): the backend stays off for the life of the process, and no health message
  names it, although x_search.py:180 says that denials require operator action. `BreakerInv`
  is stated for the denials that were not raced.
- A health message counts as sent before it is sent and its result is ignored
  (operations.py:37, __main__.py:337). The schedule repeats it, so the operator still learns of
  a denial (`OperatorLearns`). `reported_access` keeps codes without their backend: the
  second backend denied with the same code is named only by the scheduled message.
- Holder histories whose RPC calls fail are skipped and read as LOW suspicion
  (onchain.py:851), while signals.py:139 keeps unknown histories from a BUY.
- A token without the fee extension has no `transfer_fee_bps`, which is the critical risk
  TRANSFER_TAX_UNKNOWN: an ordinary SPL token never gets a message. A BUY also needs a
  creator that a source knows, or the holders stay unknown.
- The same-slot signal counts signatures, also several of one holder, where its comment
  (onchain.py:795) counts holders.
- A loud token with bad risk quality is said to land on the 1.5x floor
  (unified_scanner.py:765, 848); the presence bonus is added before the clamp, so it lies above
  the floor.
- With two positions of earlier builds, a failed statement and a restart, the errors of their
  bookkeeping can cancel in the sum (gains of 4 and 14), and an entry follows on books that
  reconcile by accident. With one such position TLC finds none, also with three faults, two
  restarts and three gains; `SoundEntries` is proved for none.
- The rotation starves candidates when lists change length from cycle to cycle, when cycles are
  aborted or restarts reset the offset again and again (neither is in the model), or when
  `max_market_checks` is below `max_onchain_checks` (`BudgetAssumption`; the defaults keep it).

## 4. Proofs

Checked by `tlapm`, for every value of the constants:

- `SignalDelivery_proofs`: `DeliveryInv` is inductive. Its parts say that a claim
  has one holder and is PENDING as long as it is held (`ClaimInv`), that what can
  still be accepted is on disk and not yet told (`TraceInv`), that what was told is
  never claimable again (`ToldInv`), and what an earlier build's claims leave open
  (`LegacyInv`); the last is needed because the legacy read and the INSERT are two
  steps. `HistoryIsTrue` and `TraceBeforeMessage` follow; `OnlyHolderSettles`,
  `CommitNeverRefused` (`IndexNeverRefuses`: the unique index never refuses a claim) and the
  refinement `KeepsPromise` are proved step by step from it.
- `OutcomeJobs_proofs`: `LedgerInv` is inductive; `ReturnNeedsBoth` needs
  `BaselineInv` (nobody worked on a horizon before its baseline was settled), which
  holds because the baseline's window closes before the horizon's target
  (`BaselineClosesFirst`, assumed of the configuration) and the claim that leases
  the horizon sweeps the baseline first. `OneVerdict`, `CapturedInWindow` and
  `SettledIsFinal` follow.
- `SessionHistory_proofs`: `HistoryInv` and `KeptWithoutRerun` for any number of runs and
  attempts: until the first rerun every checkpoint knows every delivery up to its run (with
  reruns the run above refutes it), and the types. `RestartNotBlocked` is `RefusedForCause`,
  reruns included.
- `PaperCompany_proofs`: the paper company over its trader. `TypeOK` over every exit and
  failure, `EntryInv` and the refinement `KeepsEntryPromise`: `EntryInv` ties a row to its
  attempt, says that the rows of the three books agree even where their money does not, and
  that the attempt in hand has no row and stands under no halt; the last needs the one-step
  `Intend` and the serialised review. `SoundEntries` and `DayLossHolds` prove
  `EntryOnSoundBooks` and `DayLossBounded` when no legacy position is left; `SlotInv` says
  what the one slot then keeps of the three books: one position at most, and `conn` and
  `mem` apart by nothing but its exit. `BooksQuiet` is `QuietBooks` with legacy positions
  and without a hypothesis; `CalmInv` follows the disk through the two commits of a partial
  exit as long as no write failed. The rules of PeakTrail are proved in the same
  module for every price, peak, velocity and target (`FloorHolds`, `PreTp1Wider`,
  `SlowerSells`, `RaisedTarget`, `TargetRises`, `StagesStayApart`).
- `ForwardValidation_proofs`: `TypeOK`, `OnePosition`, `NoHiddenGap` and
  `NothingIsCleared` with any number of stops and clock steps, and `ReserveStands` (`ReserveKept`).
  `DayHolds` (`DayLossBounded`) and `StreakEnds` (`HaltIsFinal`) are proved for a clock that is
  never set back (`MaxSteps = 0`): the code attributes results to days, and orders them, by
  their stored times, so a clock set back returns to a day that is used up and reorders the
  streak.
- `XSearch_proofs`: `BreakerInv`, `ScamRejects` and `AlarmsBounded` for any number of backends and
  queries. The inductive `ProviderInv` says besides that requests to a denied backend
  are in flight only if the denial was raced, that a warning seen is still in `flight` or in the
  verdict, and that a message out of schedule added a kind of denial to `reported`.
- `ScanCycle_proofs`: `CycleInv` is inductive: whatever is in hand or qualified carries the
  evidence of the gates it has passed. `OnlySafe` (`OnlySafeQualify`), `LaddersOrdered` and
  `BuysSound` (`BuyIsSound`) follow, for any tokens, answers, outages and pools. `LadderBounds` and
  `WarnedPresence` are about the ladder and the presence of every candidate. `NothingLost` is
  `NothingDropped` for any number of sources and items, pages that name a mint twice included
(`TakeoversOneMore` is the step for the takeovers): the adapters and the merge are recursive
  functions over sequences, and `Gathered` says what the first k candidates have been merged to.
  `RotationAdvances` is the arithmetic step of `StarvationFree`: while the merged list stays as
  it is, what lies behind the budget comes nearer by the whole budget in the next cycle.
- `Quantity_proofs`: sums and maxima over finite sets. Nothing by induction is available
  with an operator as its parameter, so its facts are proved by the smallest
  counterexample in the order of inclusion (`WFMin`), and the others cite them; `UpTo` is
  induction up to a bound for a property given as a set, which the recursive functions of the
  merge and the adapters are proved with.

The assumptions are those named in the modules (`ScoreAssumption`,
`LegacyAssumption`, `TimeAssumption`, `BaselineClosesFirst`, `RunAssumption`,
`LedgerAssumption`, `TraderAssumption`, `CompanyAssumption`, `BackendAssumption`,
`MainAssumption`, `BudgetAssumption`, `SourceAssumption`, `TokenAssumption`, `AnswerAssumption`); TLC
evaluates them in the runs. `TraderAssumption` says of the trader that a position cannot
lose more than itself and that the limit of the day is positive
(`MICRO_DAILY_LOSS_LIMIT`, paper_trader.py:63).

Only model-checked: the liveness properties `NotSuppressed`, `EverySettles`,
`EveryPathResolves`, `SlotFreed`, `OperatorLearns`, `AskedAgain` and `StarvationFree` (fairness
and ENABLED are out of the prover's reach), and the two
that the code violates, `NoRollback` and `HaltForCause`.

## 5. Not modelled

- Transactions that a failed statement leaves open on the scanner's connection: they depend on
  the autocommit rules of the driver, which are not in the repository. Explicit
  transactions are modelled where they are (claims, outcome jobs, paper trader).
- Calibration: one pass over settled rows, statistics in floating point, and no later decision of the
  program taken on its result.
- Caller archive, dashboard, legacy scanners, the configuration reader and the one-shot
  scripts: input and output outside the production process, without a state of their own
  that another actor changes.
- The shutdown confirmation polls a listing and sends one message; it keeps nothing.
- Peak verifier and recovery checker: stateless questions; their answers are choices in
  PaperTrader.
- Parsing of RPC answers, of pages and of posts, and the wording of messages: what they
  yield is an input of the models, missing and unusable values included.
