-------------------------- MODULE ForwardValidation --------------------------
(***************************************************************************)
(* The reference ledger of ForwardValidation: one sampled paper position   *)
(* at a time, entered by the scanner's main loop after a delivered BUY and *)
(* observed by a sampling task.  The two share an asyncio lock and the     *)
(* forward_signals table; the process may stop anywhere and start again.   *)
(* Amounts are integers; a price is given by what the position would gain  *)
(* at it before costs, its gross.                                          *)
(***************************************************************************)
EXTENDS Sequences, Functions, Quantity

CONSTANTS
  Mint,        \* contracts that may be signalled
  Plan,        \* plans the company may deliver, valid or not
  Gross,       \* bound: the market observations, as gains before costs
  Start,       \* 11: reference capital
  Reserve,     \* 5: never put at risk
  MaxAmount,   \* 2: largest position
  DailyLimit,  \* 1: a day that has lost this much is over
  Streak,      \* 3: consecutive losses that end all entries
  MaxGap,      \* MAX_SAMPLE_GAP
  MaxHold,     \* 900: longest holding time a plan may name
  Day,         \* length of a UTC day
  MaxClock,    \* bound on the wall clock
  LastEntry,   \* bound: nothing is signalled after this time
  MaxStops,    \* bound: stops of the process
  MaxSteps     \* bound: backward steps of the wall clock

ASSUME LedgerAssumption ==
  /\ Gross \subseteq Int /\ {Start, Reserve} \subseteq Int
  /\ {MaxAmount, Streak, MaxGap, MaxHold, MaxClock, LastEntry, MaxStops, MaxSteps}
       \subseteq Nat
  /\ {Day, DailyLimit} \subseteq Nat \ {0} /\ Reserve <= Start
  /\ Plan \subseteq [amount : Int, costs : Int, stop : Int, target : Int, hold : Int]

NoRow == [state |-> "NONE"]
\* The main loop between two cycles, and in one that has not observed a market.
Idle    == [phase |-> "idle"]
InCycle == [phase |-> "cycle"]

VARIABLES
  forward_signals,  \* mint -> row
  sampler,          \* "asleep", "asking" (it holds the lock) or "dead"
  rested,           \* sleep(5), by the monotonic clock, is over
  offer,            \* the main loop: Idle, InCycle or the alert of the cycle
  up,               \* the process runs
  clock,            \* time.time()
  stops, steps,     \* counters of the bounds
  closings          \* history: completed mints, in the order they were closed

ledger  == <<forward_signals, closings>>
process == <<sampler, rested, offer, up>>
bounds  == <<stops, steps>>
vars    == <<forward_signals, sampler, rested, offer, up, clock, stops, steps, closings>>

State(m)   == forward_signals[m].state
Open       == {m \in Mint : State(m) = "OPEN"}
Unresolved == {m \in Mint : State(m) \in {"OPEN", "INCOMPLETE"}}
Complete   == {m \in Mint : State(m) = "COMPLETE"}

Init ==
  /\ forward_signals = [m \in Mint |-> NoRow]
  /\ closings = <<>>
  /\ sampler = "asleep" /\ rested = TRUE
  /\ offer = Idle
  /\ up = TRUE
  /\ clock = 0
  /\ stops = 0 /\ steps = 0
-----------------------------------------------------------------------------
(* What record asks of a plan and of the treasury *)

\* _plan_values, on plans whose numbers are finite.
ValidPlan(p) ==
  /\ 0 < p.amount /\ p.amount <= MaxAmount
  /\ p.costs > 0
  /\ -p.amount < p.stop /\ p.stop < 0 /\ 0 < p.target
  /\ 0 < p.hold /\ p.hold <= MaxHold
  /\ 4 * p.costs <= p.target
  /\ 100 * (p.target - p.costs) >= 131 * (p.costs - p.stop)

Pnl(m)      == forward_signals[m].net_pnl
SumPnl(S)   == SumOf([m \in S |-> Pnl(m)], S)
Balance     == Start + SumPnl(Complete)
DayOf(t)    == t \div Day
ClosedOn(d) == {m \in Complete : DayOf(forward_signals[m].closed) = d}

\* ORDER BY closed DESC; no two rows are closed at the same instant, so those
\* the clock of the model cannot tell apart stand in the order of their closing.
Rank(m) == CHOOSE i \in 1..Len(closings) : closings[i] = m
Later(m, k) ==
  \/ forward_signals[m].closed > forward_signals[k].closed
  \/ forward_signals[m].closed = forward_signals[k].closed /\ Rank(m) > Rank(k)

\* Faulty variants: the oldest losses are counted; the costs are forgotten.
LosingFirst ==
  {m \in Complete : Pnl(m) < 0 /\ \A k \in Complete : Later(m, k) => Pnl(k) < 0}
AffordsAmount(p) == Balance - p.amount >= Reserve

\* The losses that no completed row of at least zero follows.
Losing == {m \in Complete : Pnl(m) < 0 /\ \A k \in Complete : Later(k, m) => Pnl(k) < 0}

Affords(p) == Balance - p.amount - p.costs >= Reserve
DayIsLost  == SumPnl(ClosedOn(DayOf(clock))) <= -DailyLimit

\* Faulty variant: the loss of the day is not asked.
HaltedByStreak == Cardinality(Losing) >= Streak

Halted     == DayIsLost \/ Cardinality(Losing) >= Streak
Fresh(t)   == 0 <= clock - t /\ clock - t <= MaxGap
-----------------------------------------------------------------------------
(* The main loop *)

BeginCycle ==
  /\ up /\ offer = Idle /\ sampler # "dead"
  /\ offer' = InCycle
  /\ UNCHANGED <<ledger, sampler, rested, up, clock, bounds>>

\* The cycle prepares, claims and delivers a BUY on a market observed now.
Signal(m, p) ==
  /\ up /\ offer = InCycle
  /\ clock <= LastEntry
  /\ offer' = [phase |-> "alert", mint |-> m, plan |-> p, observed |-> clock]
  /\ UNCHANGED <<ledger, sampler, rested, up, clock, bounds>>

\* Faulty variants: only open paths block; an old row is replaced.
VacantButOpen(m)    == State(m) = "NONE" /\ Open = {}
VacantForReplace(m) == Unresolved = {}

\* INSERT OR IGNORE ... WHERE NOT EXISTS: neither a second row of the mint nor a
\* second unresolved path.
Vacant(m) == State(m) = "NONE" /\ Unresolved = {}

Enters(o) ==
  /\ ValidPlan(o.plan) /\ Fresh(o.observed)
  /\ Affords(o.plan) /\ ~Halted
  /\ Vacant(o.mint)

\* record, once it has the lock.
Record ==
  /\ up /\ offer.phase = "alert" /\ sampler # "asking"
  /\ forward_signals' =
       IF Enters(offer)
       THEN [forward_signals EXCEPT ![offer.mint] =
               [state |-> "OPEN", plan |-> offer.plan,
                opened |-> offer.observed, last_sample |-> offer.observed]]
       ELSE forward_signals
  /\ offer' = Idle
  /\ UNCHANGED <<closings, sampler, rested, up, clock, bounds>>

\* Nothing is delivered, or a part of the cycle or record raises.
CycleEnds ==
  /\ up /\ offer # Idle
  /\ offer' = Idle
  /\ UNCHANGED <<ledger, sampler, rested, up, clock, bounds>>

\* The process: killed, or stopped by its main loop once the task is dead.
Down ==
  /\ up' = FALSE
  /\ sampler' = "asleep"
  /\ offer' = Idle
  /\ UNCHANGED <<ledger, rested, clock, steps>>

Supervise == up /\ offer = Idle /\ sampler = "dead" /\ Down /\ UNCHANGED stops

Stop == up /\ stops < MaxStops /\ stops' = stops + 1 /\ Down

Restart ==
  /\ ~up
  /\ up' = TRUE
  /\ rested' = TRUE
  /\ UNCHANGED <<ledger, sampler, offer, clock, bounds>>
-----------------------------------------------------------------------------
(* The sampling task *)

Rest == sampler' = "asleep" /\ rested' = FALSE

Incomplete(m) ==
  /\ forward_signals' = [forward_signals EXCEPT ![m] =
       [state |-> "INCOMPLETE", plan |-> @.plan, opened |-> @.opened,
        last_sample |-> @.last_sample, closed |-> clock]]
  /\ UNCHANGED closings

Missed(m) == clock - forward_signals[m].last_sample > MaxGap

SampleNothing ==
  /\ up /\ sampler = "asleep" /\ rested /\ Open = {}
  /\ Rest
  /\ UNCHANGED <<ledger, offer, up, clock, bounds>>

SampleGap(m) ==
  /\ up /\ sampler = "asleep" /\ rested
  /\ m \in Open /\ (Missed(m) \/ clock < forward_signals[m].last_sample)
  /\ Incomplete(m)
  /\ Rest
  /\ UNCHANGED <<offer, up, clock, bounds>>

\* get_pair is called, under the lock.
AskMarket(m) ==
  /\ up /\ sampler = "asleep" /\ rested
  /\ m \in Open /\ ~Missed(m) /\ clock >= forward_signals[m].last_sample
  /\ sampler' = "asking"
  /\ UNCHANGED <<ledger, rested, offer, up, clock, bounds>>

\* Faulty variant: the gap is only asked before the market is.
AlwaysTimely(m) == TRUE

\* The gap is asked again after the answer.
Timely(m) == ~Missed(m)

\* No answer in time, no usable one, or one that came too late to be a sample.
Unverified(m) ==
  /\ up /\ sampler = "asking" /\ m \in Open
  /\ Incomplete(m)
  /\ Rest
  /\ UNCHANGED <<offer, up, clock, bounds>>


\* Faulty variant: no time stop.
ExitsOnPrice(row, gross, rising) ==
  gross <= row.plan.stop \/ gross >= row.plan.target \/ ~rising

\* STOP_OBSERVED, TARGET_OBSERVED, MOMENTUM_INVALIDATED or TIME_STOP.
Exits(row, gross, rising) ==
  \/ gross <= row.plan.stop \/ gross >= row.plan.target
  \/ ~rising
  \/ clock - row.opened >= row.plan.hold

Completed(m, gross, rising) ==
  /\ up /\ sampler = "asking" /\ m \in Open /\ Timely(m)
  /\ gross > -forward_signals[m].plan.amount
  /\ Exits(forward_signals[m], gross, rising)
  /\ forward_signals' = [forward_signals EXCEPT ![m] =
       [state |-> "COMPLETE", plan |-> @.plan, opened |-> @.opened,
        last_sample |-> clock, closed |-> clock, net_pnl |-> gross - @.plan.costs]]
  /\ closings' = Append(closings, m)
  /\ Rest
  /\ UNCHANGED <<offer, up, clock, bounds>>

Sampled(m, gross, rising) ==
  /\ up /\ sampler = "asking" /\ m \in Open /\ Timely(m)
  /\ gross > -forward_signals[m].plan.amount
  /\ ~Exits(forward_signals[m], gross, rising)
  /\ forward_signals' = [forward_signals EXCEPT ![m].last_sample = clock]
  /\ Rest
  /\ UNCHANGED <<closings, offer, up, clock, bounds>>

\* A statement of sample_once fails: the exception ends the task.
SamplerDies ==
  /\ up /\ sampler # "dead" /\ stops < MaxStops
  /\ sampler' = "dead" /\ stops' = stops + 1
  /\ UNCHANGED <<ledger, rested, offer, up, clock, steps>>
-----------------------------------------------------------------------------
Tick ==
  /\ clock < MaxClock /\ clock' = clock + 1
  /\ rested' = TRUE
  /\ UNCHANGED <<ledger, sampler, offer, up, bounds>>

StepBack ==
  /\ steps < MaxSteps /\ clock > 0
  /\ \E t \in 0..(clock - 1) : clock' = t
  /\ steps' = steps + 1
  /\ UNCHANGED <<ledger, process, stops>>

Answer == \E m \in Mint, gross \in Gross, rising \in BOOLEAN :
  Completed(m, gross, rising) \/ Sampled(m, gross, rising)

Sampling ==
  \/ SampleNothing \/ Answer
  \/ \E m \in Mint : SampleGap(m) \/ AskMarket(m) \/ Unverified(m)

Next ==
  \/ BeginCycle \/ \E m \in Mint, p \in Plan : Signal(m, p)
  \/ Record \/ CycleEnds
  \/ Supervise \/ Stop \/ Restart
  \/ SampleNothing
  \/ \E m \in Mint : SampleGap(m) \/ AskMarket(m) \/ Unverified(m)
  \/ \E m \in Mint, gross \in Gross, rising \in BOOLEAN :
       Completed(m, gross, rising) \/ Sampled(m, gross, rising)
  \/ SamplerDies
  \/ Tick \/ StepBack

Spec == Init /\ [][Next]_vars

\* Time passes, the event loop runs the task, and Compose restarts the process.
FairSpec ==
  /\ Spec
  /\ WF_vars(Sampling) /\ WF_vars(Supervise) /\ WF_vars(CycleEnds)
  /\ WF_vars(Restart) /\ WF_vars(Tick)
-----------------------------------------------------------------------------
(* Properties *)

Row ==
  {NoRow}
  \cup [state : {"OPEN"}, plan : Plan, opened : Nat, last_sample : Nat]
  \cup [state : {"INCOMPLETE"}, plan : Plan, opened : Nat, last_sample : Nat, closed : Nat]
  \cup [state : {"COMPLETE"}, plan : Plan, opened : Nat, last_sample : Nat,
        closed : Nat, net_pnl : Int]

TypeOK ==
  /\ forward_signals \in [Mint -> Row]
  /\ sampler \in {"asleep", "asking", "dead"}
  /\ rested \in BOOLEAN
  /\ offer \in {Idle, InCycle}
                 \cup [phase : {"alert"}, mint : Mint, plan : Plan, observed : Nat]
  /\ up \in BOOLEAN
  /\ clock \in 0..MaxClock
  /\ stops \in 0..MaxStops
  /\ steps \in 0..MaxSteps
  /\ closings \in Seq(Mint)
  /\ Range(closings) = Complete

\* What the unresolved paths can still lose.
AtRisk(m) == forward_signals[m].plan.amount + forward_signals[m].plan.costs

(***************************************************************************)
(* The ledger permits one path at a time, an unresolved one included, and  *)
(* never enters a position whose total loss would touch the reserve: with  *)
(* everything at risk lost, at least the reserve is left, at any time.     *)
(***************************************************************************)
OnePosition == \A m, k \in Unresolved : m = k
ReserveKept == Balance - SumOf([m \in Unresolved |-> AtRisk(m)], Unresolved) >= Reserve

\* The order in which the paths were really closed, losses only, at the end.
AllLost == Len(closings) >= Streak /\
  \A i \in (Len(closings) - Streak + 1)..Len(closings) : Pnl(closings[i]) < 0

(***************************************************************************)
(* Three losses in a row are the end: from then on no restart, no other    *)
(* mint and no later day brings a new path.                                *)
(***************************************************************************)
HaltIsFinal == [][AllLost => Open' = {}]_vars

\* What a day has lost is more than its limit by less than one of its positions.
DayBounded(d) ==
  \/ SumPnl(ClosedOn(d)) > -DailyLimit
  \/ \E m \in ClosedOn(d) : SumPnl(ClosedOn(d)) > -DailyLimit - AtRisk(m)

(***************************************************************************)
(* The loss of a day stays within the daily limit and one position more,   *)
(* one that was really closed that day, also when it was entered the day   *)
(* before.                                                                 *)
(***************************************************************************)
DayLossBounded == \A d \in 0..DayOf(MaxClock) : DayBounded(d)

(***************************************************************************)
(* A gap is never hidden: a path that was not observed for longer than     *)
(* MaxGap gets neither a fresh sample nor a result, even if the gap grows  *)
(* while the market is asked.                                              *)
(***************************************************************************)
NoHiddenGap ==
  [][\A m \in Open :
       Missed(m) => /\ State(m)' # "COMPLETE"
                    /\ forward_signals'[m].last_sample = forward_signals[m].last_sample]_vars

(***************************************************************************)
(* A path that was closed keeps its result, and an INCOMPLETE one blocks   *)
(* every later entry: restarts and repeated signals clear neither.         *)
(***************************************************************************)
NothingIsCleared ==
  [][\A m \in Mint : State(m) \in {"INCOMPLETE", "COMPLETE"} =>
       /\ forward_signals'[m] = forward_signals[m]
       /\ State(m) = "INCOMPLETE" => Open' = {}]_vars

(***************************************************************************)
(* Every path is resolved, and not by the main loop's mercy: a sampler     *)
(* that died takes the process down and the next one takes the path over.  *)
(***************************************************************************)
EveryPathResolves == \A m \in Mint : State(m) = "OPEN" ~> State(m) # "OPEN"
=============================================================================
