---------------------- MODULE ForwardValidation_proofs ----------------------
(***************************************************************************)
(* The types and the path properties of the reference ledger, for every    *)
(* set of mints and plans, every limit and any number of stops and clock   *)
(* steps; and its books: the reserve, the day and the streak.              *)
(***************************************************************************)
EXTENDS ForwardValidation, Quantity_proofs, SequenceTheorems, TLAPS

\* The one path the sampler may have asked the market for.
LedgerInv == TypeOK /\ OnePosition

\* The empty ledger.
LEMMA InitialLedger == ASSUME Init PROVE LedgerInv
<1>1. \A m \in Mint : State(m) = "NONE"
  BY DEF Init, State, NoRow
<1>2. Range(closings) = Complete
  BY <1>1 DEF Init, Range, Complete
<1>3. OnePosition
  BY <1>1 DEF OnePosition, Unresolved
<1>4. forward_signals \in [Mint -> Row]
  BY DEF Init, Row
<1>5. closings \in Seq(Mint)
  BY DEF Init
<1> QED BY <1>2, <1>3, <1>4, <1>5, LedgerAssumption DEF Init, LedgerInv, TypeOK

\* A step that leaves the ledger alone keeps its part of the types.
LEMMA LedgerAlone ==
  ASSUME LedgerInv, UNCHANGED ledger,
         sampler' \in {"asleep", "asking", "dead"}, rested' \in BOOLEAN,
         offer' \in {Idle, InCycle}
                      \cup [phase : {"alert"}, mint : Mint, plan : Plan, observed : Nat],
         up' \in BOOLEAN, clock' \in 0..MaxClock,
         stops' \in 0..MaxStops, steps' \in 0..MaxSteps
  PROVE  LedgerInv'
<1>1. Complete' = Complete /\ Unresolved' = Unresolved
  BY DEF ledger, Complete, Unresolved, State
<1> QED BY <1>1 DEF LedgerInv, TypeOK, OnePosition, ledger

\* What a change of one row does to the states of all.
LEMMA OneRow ==
  ASSUME TypeOK, NEW m \in Mint, NEW row \in Row,
         forward_signals' = [forward_signals EXCEPT ![m] = row]
  PROVE  /\ forward_signals' \in [Mint -> Row]
         /\ \A k \in Mint : k # m => forward_signals'[k] = forward_signals[k]
         /\ forward_signals'[m] = row
         /\ \A k \in Mint : State(k)' = IF k = m THEN row.state ELSE State(k)
BY DEF TypeOK, State

\* What is known of the row of an open path.
LEMMA OpenRow ==
  ASSUME TypeOK, NEW m \in Open
  PROVE  /\ m \in Mint
         /\ forward_signals[m] \in [state : {"OPEN"}, plan : Plan, opened : Nat, last_sample : Nat]
         /\ clock \in Nat
<1>1. m \in Mint /\ forward_signals[m].state = "OPEN"
  BY DEF Open, State
<1>2. forward_signals[m] \in Row
  BY <1>1 DEF TypeOK
<1>3. forward_signals[m] \in [state : {"OPEN"}, plan : Plan, opened : Nat, last_sample : Nat]
  BY <1>1, <1>2 DEF Row, NoRow
<1>4. clock \in Nat
  <2>1. MaxClock \in Nat /\ clock \in 0..MaxClock
    BY LedgerAssumption DEF TypeOK
  <2> QED BY <2>1
<1> QED BY <1>1, <1>3, <1>4

\* The fields of such a row.
LEMMA OpenFields ==
  ASSUME TypeOK, NEW m \in Open
  PROVE  /\ forward_signals[m].plan \in Plan
         /\ forward_signals[m].opened \in Nat
         /\ forward_signals[m].last_sample \in Nat
         /\ clock \in Nat
<1> DEFINE old == forward_signals[m]
<1>1. old \in [state : {"OPEN"}, plan : Plan, opened : Nat, last_sample : Nat]
  BY OpenRow
<1>2. clock \in Nat
  BY OpenRow
<1> HIDE DEF old
<1>3. old.plan \in Plan /\ old.opened \in Nat /\ old.last_sample \in Nat
  BY <1>1
<1> QED BY <1>2, <1>3 DEF old

\* A path more in the order of the closings.
LEMMA AppendRange ==
  ASSUME NEW s \in Seq(Mint), NEW m \in Mint
  PROVE  /\ Append(s, m) \in Seq(Mint)
         /\ Range(Append(s, m)) = Range(s) \cup {m}
<1>1. Append(s, m) \in Seq(Mint) /\ DOMAIN Append(s, m) = 1..(Len(s) + 1)
      /\ DOMAIN s = 1..Len(s) /\ Len(s) \in Nat
  BY AppendProperties
<1>2. \A i \in 1..Len(s) : Append(s, m)[i] = s[i]
  BY AppendProperties
<1>3. Append(s, m)[Len(s) + 1] = m
  BY AppendProperties
<1>4. ASSUME NEW x \in Range(Append(s, m)) PROVE x \in Range(s) \cup {m}
  <2>1. PICK i \in 1..(Len(s) + 1) : x = Append(s, m)[i]
    BY <1>1, <1>4 DEF Range
  <2>2. CASE i = Len(s) + 1
    BY <2>1, <2>2, <1>3
  <2>3. CASE i \in 1..Len(s)
    BY <2>1, <2>3, <1>1, <1>2 DEF Range
  <2> QED BY <2>1, <2>2, <2>3, <1>1
<1>5. ASSUME NEW x \in Range(s) PROVE x \in Range(Append(s, m))
  <2>1. PICK i \in 1..Len(s) : x = s[i]
    BY <1>1, <1>5 DEF Range
  <2> QED BY <2>1, <1>1, <1>2 DEF Range
<1>6. m \in Range(Append(s, m))
  <2>1. Len(s) + 1 \in DOMAIN Append(s, m)
    BY <1>1
  <2> QED BY <2>1, <1>3 DEF Range
<1> QED BY <1>1, <1>4, <1>5, <1>6
-----------------------------------------------------------------------------
\* The steps of the process and of the clock.
LEMMA ProcessStep ==
  ASSUME LedgerInv,
         \/ BeginCycle \/ CycleEnds \/ Supervise \/ Stop \/ Restart \/ SampleNothing
         \/ SamplerDies \/ Tick \/ StepBack
         \/ \E m \in Mint : AskMarket(m)
         \/ \E m \in Mint, p \in Plan : Signal(m, p)
  PROVE  LedgerInv'
<1> USE LedgerAssumption DEF LedgerInv, TypeOK, bounds, process
<1>1. CASE BeginCycle \/ CycleEnds \/ Restart
  BY <1>1, LedgerAlone DEF BeginCycle, CycleEnds, Restart
<1>2. CASE Supervise \/ Stop
  <2>1. up' \in BOOLEAN
    BY <1>2, Zenon DEF Supervise, Stop, Down
  <2>2. stops' \in 0..MaxStops
    <3>1. MaxStops \in Nat /\ stops \in 0..MaxStops
      OBVIOUS
    <3>2. stops' = stops \/ (stops < MaxStops /\ stops' = stops + 1)
      BY <1>2, Zenon DEF Supervise, Stop
    <3> HIDE DEF TypeOK, LedgerInv
    <3> QED BY <3>1, <3>2
  <2>3. sampler' = "asleep" /\ offer' = Idle /\ UNCHANGED <<ledger, rested, clock, steps>>
    BY <1>2 DEF Supervise, Stop, Down
  <2> QED BY <2>1, <2>2, <2>3, LedgerAlone
<1>3. CASE SampleNothing
  <2>1. rested' = FALSE
    BY <1>3, Zenon DEF SampleNothing, Rest
  <2>2. rested' \in BOOLEAN
    BY <2>1, Zenon
  <2>3. sampler' = "asleep" /\ UNCHANGED <<ledger, offer, up, clock, bounds>>
    BY <1>3 DEF SampleNothing, Rest
  <2> QED BY <2>2, <2>3, LedgerAlone
<1>4. CASE SamplerDies
  <2>1. stops' \in 0..MaxStops
    BY <1>4, SMTT(30) DEF SamplerDies
  <2> QED BY <1>4, <2>1, LedgerAlone DEF SamplerDies
<1>7. CASE Tick
  <2>1. clock' \in 0..MaxClock
    BY <1>7, SMTT(30) DEF Tick
  <2> QED BY <1>7, <2>1, LedgerAlone DEF Tick
<1>8. CASE StepBack
  <2>1. PICK t \in 0..(clock - 1) : clock' = t
    BY <1>8 DEF StepBack
  <2>2. MaxClock \in Nat /\ clock \in 0..MaxClock /\ t \in 0..(clock - 1)
    BY <2>1
  <2>3. t \in 0..MaxClock
    BY <2>2
  <2>4. clock' \in 0..MaxClock
    BY <2>1, <2>3
  <2>5. steps' \in 0..MaxSteps
    BY <1>8, SMTT(30) DEF StepBack
  <2> QED BY <1>8, <2>4, <2>5, LedgerAlone DEF StepBack
<1>5. ASSUME NEW m \in Mint, AskMarket(m) PROVE LedgerInv'
  BY <1>5, LedgerAlone DEF AskMarket
<1>6. ASSUME NEW m \in Mint, NEW p \in Plan, Signal(m, p) PROVE LedgerInv'
  <2>1. offer' \in [phase : {"alert"}, mint : Mint, plan : Plan, observed : Nat]
    BY <1>6 DEF Signal
  <2> QED BY <1>6, <2>1, LedgerAlone DEF Signal
<1> QED BY <1>1, <1>2, <1>3, <1>4, <1>5, <1>6, <1>7, <1>8

\* A signal is recorded, and perhaps entered.
LEMMA RecordStep == ASSUME LedgerInv, Record PROVE LedgerInv'
<1>1. TypeOK /\ OnePosition
  BY DEF LedgerInv
<1>2. CASE ~Enters(offer)
  BY <1>1, <1>2, LedgerAlone DEF Record, TypeOK, ledger, bounds
<1>3. CASE Enters(offer)
  <2> DEFINE row == [state |-> "OPEN", plan |-> offer.plan,
                     opened |-> offer.observed, last_sample |-> offer.observed]
  <2>1. offer.mint \in Mint /\ offer.plan \in Plan /\ offer.observed \in Nat
    BY <1>1 DEF Record, TypeOK, Idle, InCycle
  <2>2. row \in Row /\ row.state = "OPEN"
    BY <2>1 DEF Row
  <2>3. forward_signals' = [forward_signals EXCEPT ![offer.mint] = row]
    BY <1>3 DEF Record
  <2> HIDE DEF row
  <2>4. /\ forward_signals' \in [Mint -> Row]
        /\ \A k \in Mint : State(k)' = IF k = offer.mint THEN "OPEN" ELSE State(k)
    BY <1>1, <2>1, <2>2, <2>3, OneRow, ZenonT(30)
  <2>5. State(offer.mint) = "NONE" /\ Unresolved = {}
    BY <1>3 DEF Enters, Vacant
  <2>6. Complete' = Complete
    BY <2>4, <2>5 DEF Complete
  <2>7. OnePosition'
    BY <2>4, <2>5 DEF OnePosition, Unresolved
  <2> QED BY <1>1, <2>4, <2>6, <2>7 DEF LedgerInv, TypeOK, Record, bounds
<1> QED BY <1>2, <1>3

\* A path that is resolved without a result.
LEMMA IncompleteRow ==
  ASSUME LedgerInv, NEW m \in Open, Incomplete(m)
  PROVE  /\ forward_signals' \in [Mint -> Row]
         /\ \A k \in Mint : k # m => forward_signals'[k] = forward_signals[k]
         /\ \A k \in Mint : State(k)' = IF k = m THEN "INCOMPLETE" ELSE State(k)
         /\ Complete' = Complete /\ Unresolved' = Unresolved
<1> DEFINE old == forward_signals[m]
           row == [state |-> "INCOMPLETE", plan |-> old.plan, opened |-> old.opened,
                   last_sample |-> old.last_sample, closed |-> clock]
<1>1. TypeOK
  BY DEF LedgerInv
<1>2. m \in Mint /\ State(m) = "OPEN"
  BY DEF Open
<1>3. old.plan \in Plan /\ old.opened \in Nat /\ old.last_sample \in Nat /\ clock \in Nat
  BY <1>1, OpenFields
<1>4. row \in Row /\ row.state = "INCOMPLETE"
  BY <1>3 DEF Row
<1>5. forward_signals' = [forward_signals EXCEPT ![m] = row]
  BY DEF Incomplete
<1> HIDE DEF row
<1>6. /\ forward_signals' \in [Mint -> Row]
      /\ \A k \in Mint : k # m => forward_signals'[k] = forward_signals[k]
      /\ \A k \in Mint : State(k)' = IF k = m THEN "INCOMPLETE" ELSE State(k)
  BY <1>1, <1>2, <1>4, <1>5, OneRow
<1> QED BY <1>2, <1>6 DEF Complete, Unresolved

\* A gap, or a market that cannot be verified, ends a path without a result.
LEMMA IncompleteStep ==
  ASSUME LedgerInv, NEW m \in Mint, SampleGap(m) \/ Unverified(m) PROVE LedgerInv'
<1>1. m \in Open /\ Incomplete(m)
  BY DEF SampleGap, Unverified
<1>2. /\ forward_signals' \in [Mint -> Row]
      /\ Complete' = Complete /\ Unresolved' = Unresolved
  BY <1>1, IncompleteRow
<1> QED BY <1>1, <1>2 DEF LedgerInv, TypeOK, OnePosition, SampleGap, Unverified, Incomplete,
       Rest, bounds

\* A sample that leaves the path open.
LEMMA SampledStep ==
  ASSUME LedgerInv, NEW m \in Mint, NEW gross \in Gross, NEW rising \in BOOLEAN,
         Sampled(m, gross, rising)
  PROVE  LedgerInv'
<1> DEFINE old == forward_signals[m]
           row == [old EXCEPT !.last_sample = clock]
<1>1. TypeOK /\ m \in Open /\ State(m) = "OPEN"
  BY DEF LedgerInv, Sampled, Open
<1>2. old \in [state : {"OPEN"}, plan : Plan, opened : Nat, last_sample : Nat] /\ clock \in Nat
  BY <1>1, OpenRow
<1>3. row \in Row /\ row.state = "OPEN"
  BY <1>2 DEF Row
<1>4. forward_signals' = [forward_signals EXCEPT ![m] = row]
  BY DEF Sampled
<1> HIDE DEF row
<1>5. /\ forward_signals' \in [Mint -> Row]
      /\ \A k \in Mint : State(k)' = State(k)
  BY <1>1, <1>3, <1>4, OneRow
<1>6. Complete' = Complete /\ Unresolved' = Unresolved
  BY <1>5 DEF Complete, Unresolved
<1> QED BY <1>5, <1>6 DEF LedgerInv, TypeOK, OnePosition, Sampled, Rest, bounds

\* A sample that ends the path with its result.
LEMMA CompletedStep ==
  ASSUME LedgerInv, NEW m \in Mint, NEW gross \in Gross, NEW rising \in BOOLEAN,
         Completed(m, gross, rising)
  PROVE  LedgerInv'
<1> DEFINE old == forward_signals[m]
           row == [state |-> "COMPLETE", plan |-> old.plan, opened |-> old.opened,
                   last_sample |-> clock, closed |-> clock, net_pnl |-> gross - old.plan.costs]
<1>1. TypeOK /\ OnePosition /\ m \in Open /\ State(m) = "OPEN"
  BY DEF LedgerInv, Completed, Open
<1>2. old.plan \in Plan /\ old.opened \in Nat /\ clock \in Nat
  BY <1>1, OpenFields
<1>3. gross - old.plan.costs \in Int
  <2>1. old.plan.costs \in Int
    BY <1>2, LedgerAssumption
  <2> QED BY <2>1, LedgerAssumption
<1>4. row \in Row /\ row.state = "COMPLETE"
  BY <1>2, <1>3 DEF Row
<1>5. forward_signals' = [forward_signals EXCEPT ![m] = row]
  BY DEF Completed
<1> HIDE DEF row
<1>6. /\ forward_signals' \in [Mint -> Row]
      /\ \A k \in Mint : State(k)' = IF k = m THEN "COMPLETE" ELSE State(k)
  BY <1>1, <1>4, <1>5, OneRow
<1>7. Complete' = Complete \cup {m} /\ Unresolved' \subseteq Unresolved
  BY <1>6 DEF Complete, Unresolved
<1>8. closings' \in Seq(Mint) /\ Range(closings') = Complete'
  BY <1>1, <1>7, AppendRange DEF Completed, TypeOK
<1>9. OnePosition'
  BY <1>1, <1>7 DEF OnePosition
<1> QED BY <1>6, <1>8, <1>9 DEF LedgerInv, TypeOK, Completed, Rest, bounds

\* Every step keeps the ledger's invariant.
LEMMA LedgerStep == ASSUME LedgerInv, [Next]_vars PROVE LedgerInv'
<1>1. CASE UNCHANGED vars
  BY <1>1 DEF vars, LedgerInv, TypeOK, OnePosition, Complete, Unresolved, State
<1>2. CASE Next
  BY <1>2, ProcessStep, RecordStep, IncompleteStep, SampledStep, CompletedStep DEF Next
<1> QED BY <1>1, <1>2

\* LedgerInv holds in every state.
LEMMA LedgerAlways == Spec => []LedgerInv
<1>1. Init => LedgerInv
  BY InitialLedger
<1>2. LedgerInv /\ [Next]_vars => LedgerInv'
  BY LedgerStep
<1> QED BY <1>1, <1>2, PTL DEF Spec

(***************************************************************************)
(* The rows of forward_signals keep the shape of their state, and the      *)
(* results are exactly those of the paths that were closed.                *)
(***************************************************************************)
THEOREM PathTypes == Spec => []TypeOK
<1>1. LedgerInv => TypeOK
  BY DEF LedgerInv
<1> QED BY <1>1, LedgerAlways, PTL

(***************************************************************************)
(* No interleaving of record with the sampler, and no restart between      *)
(* them, leaves two unresolved paths in the ledger.                        *)
(***************************************************************************)
THEOREM OnePath == Spec => []OnePosition
<1>1. LedgerInv => OnePosition
  BY DEF LedgerInv
<1> QED BY <1>1, LedgerAlways, PTL
-----------------------------------------------------------------------------
\* The ledger changes in four actions only.
LEMMA Writers ==
  ASSUME [Next]_vars
  PROVE  \/ UNCHANGED ledger
         \/ Record
         \/ \E m \in Mint : SampleGap(m) \/ Unverified(m)
         \/ \E m \in Mint, gross \in Gross, rising \in BOOLEAN :
              Completed(m, gross, rising) \/ Sampled(m, gross, rising)
BY DEF Next, vars, ledger, BeginCycle, Signal, CycleEnds, Supervise, Stop, Down, Restart,
   SampleNothing, AskMarket, SamplerDies, Tick, StepBack, process

\* What a sample or a result does to the row of its path, and to no other.
LEMMA ResultRow ==
  ASSUME LedgerInv, NEW m \in Mint, NEW gross \in Gross, NEW rising \in BOOLEAN,
         Completed(m, gross, rising) \/ Sampled(m, gross, rising)
  PROVE  /\ m \in Open /\ ~Missed(m)
         /\ \A k \in Mint : k # m => forward_signals'[k] = forward_signals[k]
<1>1. forward_signals \in [Mint -> Row]
  BY DEF LedgerInv, TypeOK
<1> QED BY <1>1 DEF Completed, Sampled, Timely

\* A path that missed a sample is not completed by the next step, nor is its gap closed.
LEMMA GapStep ==
  ASSUME LedgerInv, [Next]_vars, NEW m \in Open, Missed(m)
  PROVE  /\ State(m)' # "COMPLETE"
         /\ forward_signals'[m].last_sample = forward_signals[m].last_sample
<1>1. m \in Mint /\ State(m) = "OPEN" /\ forward_signals \in [Mint -> Row]
  BY DEF Open, LedgerInv, TypeOK
<1>2. CASE forward_signals'[m] = forward_signals[m]
  BY <1>1, <1>2 DEF State
<1>3. CASE Record
  <2>1. ~Enters(offer) \/ offer.mint # m
    BY <1>1 DEF Enters, Vacant
  <2>2. forward_signals'[m] = forward_signals[m]
    BY <1>1, <1>3, <2>1 DEF Record
  <2> QED BY <1>2, <2>2
<1>4. ASSUME NEW k \in Mint, SampleGap(k) \/ Unverified(k)
      PROVE  /\ State(m)' # "COMPLETE"
             /\ forward_signals'[m].last_sample = forward_signals[m].last_sample
  <2>1. k \in Open /\ Incomplete(k)
    BY <1>4 DEF SampleGap, Unverified
  <2>2. CASE k # m
    BY <1>1, <1>2, <2>1, <2>2, IncompleteRow
  <2>3. CASE k = m
    BY <1>1, <2>1, <2>3 DEF Incomplete, State
  <2> QED BY <2>2, <2>3
<1>5. ASSUME NEW k \in Mint, NEW gross \in Gross, NEW rising \in BOOLEAN,
             Completed(k, gross, rising) \/ Sampled(k, gross, rising)
      PROVE  forward_signals'[m] = forward_signals[m]
  BY <1>1, <1>5, ResultRow
<1>6. CASE UNCHANGED ledger
  BY <1>2, <1>6 DEF ledger
<1> QED BY <1>2, <1>3, <1>4, <1>5, <1>6, Writers

(***************************************************************************)
(* However long the market takes to answer, and whatever the clock does,   *)
(* no observation is booked over a gap.                                    *)
(***************************************************************************)
THEOREM GapsShown == Spec => NoHiddenGap
<1>1. LedgerInv /\ [Next]_vars =>
        [\A m \in Open :
           Missed(m) => /\ State(m)' # "COMPLETE"
                        /\ forward_signals'[m].last_sample = forward_signals[m].last_sample]_vars
  BY GapStep
<1> QED BY <1>1, LedgerAlways, PTL DEF Spec, NoHiddenGap
-----------------------------------------------------------------------------
\* The row of a path that has ended is not written again.
LEMMA ClearedStep ==
  ASSUME LedgerInv, [Next]_vars, NEW m \in Mint, State(m) \in {"INCOMPLETE", "COMPLETE"}
  PROVE  forward_signals'[m] = forward_signals[m]
<1>1. m \notin Open /\ forward_signals \in [Mint -> Row]
  BY DEF Open, LedgerInv, TypeOK
<1>2. CASE Record
  <2>1. ~Enters(offer) \/ offer.mint # m
    BY DEF Enters, Vacant
  <2> QED BY <1>1, <1>2, <2>1 DEF Record
<1>3. ASSUME NEW k \in Mint, SampleGap(k) \/ Unverified(k)
      PROVE  forward_signals'[m] = forward_signals[m]
  <2>1. k \in Open /\ Incomplete(k)
    BY <1>3 DEF SampleGap, Unverified
  <2> QED BY <1>1, <2>1, IncompleteRow
<1>4. ASSUME NEW k \in Mint, NEW gross \in Gross, NEW rising \in BOOLEAN,
             Completed(k, gross, rising) \/ Sampled(k, gross, rising)
      PROVE  forward_signals'[m] = forward_signals[m]
  BY <1>1, <1>4, ResultRow
<1>5. CASE UNCHANGED ledger
  BY <1>5 DEF ledger
<1> QED BY <1>2, <1>3, <1>4, <1>5, Writers

\* With an unresolved path no row becomes open.
LEMMA BlockedStep ==
  ASSUME LedgerInv, [Next]_vars, NEW m \in Mint, State(m) = "INCOMPLETE"
  PROVE  Open' = {}
<1>1. \A k \in Unresolved : k = m
  BY DEF LedgerInv, OnePosition, Unresolved
<1>2. Open = {}
  BY <1>1 DEF Open, Unresolved
<1>3. ~Enters(offer)
  BY DEF Enters, Vacant, Unresolved
<1>4. UNCHANGED forward_signals
  <2>1. CASE Record
    BY <1>3, <2>1 DEF Record
  <2>2. ASSUME NEW k \in Mint, SampleGap(k) \/ Unverified(k) PROVE FALSE
    BY <1>2, <2>2 DEF SampleGap, Unverified
  <2>3. ASSUME NEW k \in Mint, NEW gross \in Gross, NEW rising \in BOOLEAN,
               Completed(k, gross, rising) \/ Sampled(k, gross, rising)
        PROVE  FALSE
    BY <1>2, <2>3 DEF Completed, Sampled
  <2>4. CASE UNCHANGED ledger
    BY <2>4 DEF ledger
  <2> QED BY <2>1, <2>2, <2>3, <2>4, Writers
<1> QED BY <1>2, <1>4 DEF Open, State

(***************************************************************************)
(* Neither a restart nor a repeated signal clears a closed path, and an    *)
(* unresolved one blocks every entry for ever.                             *)
(***************************************************************************)
THEOREM PathsFinal == Spec => NothingIsCleared
<1>1. LedgerInv /\ [Next]_vars =>
        [\A m \in Mint : State(m) \in {"INCOMPLETE", "COMPLETE"} =>
           /\ forward_signals'[m] = forward_signals[m]
           /\ State(m) = "INCOMPLETE" => Open' = {}]_vars
  BY ClearedStep, BlockedStep
<1> QED BY <1>1, LedgerAlways, PTL DEF Spec, NothingIsCleared
-----------------------------------------------------------------------------
(* The books *)

\* What is known of the row of a completed path.
LEMMA CompleteRow ==
  ASSUME TypeOK, NEW m \in Complete
  PROVE  /\ m \in Mint /\ Pnl(m) \in Int
         /\ forward_signals[m].closed \in Nat /\ forward_signals[m].plan \in Plan
<1> DEFINE row == forward_signals[m]
<1>1. m \in Mint /\ row.state = "COMPLETE"
  BY DEF Complete, State
<1>2. row \in Row
  BY <1>1 DEF TypeOK
<1> HIDE DEF row
<1>3. row \in [state : {"COMPLETE"}, plan : Plan, opened : Nat, last_sample : Nat,
               closed : Nat, net_pnl : Int]
  BY <1>1, <1>2 DEF Row, NoRow
<1>4. row.net_pnl \in Int /\ row.closed \in Nat /\ row.plan \in Plan
  BY <1>3
<1> QED BY <1>1, <1>4 DEF row, Pnl

\* However many mints there are, finitely many paths are completed.
LEMMA FiniteComplete == ASSUME TypeOK PROVE IsFiniteSet(Complete)
<1>1. closings \in Seq(Mint) /\ Range(closings) = Complete
  BY DEF TypeOK
<1>2. Len(closings) \in Nat /\ DOMAIN closings = 1..Len(closings)
  BY <1>1
<1>3. IsFiniteSet(1..Len(closings))
  BY <1>2, FS_Interval
<1>4. Range(closings) = {closings[i] : i \in 1..Len(closings)}
  BY <1>2 DEF Range
<1>5. IsFiniteSet({closings[i] : i \in 1..Len(closings)})
  BY <1>3, FiniteImage
<1> QED BY <1>1, <1>4, <1>5

\* What a step does to the books: nothing, an entry, or a result.
Kept == \A k \in Complete : forward_signals'[k] = forward_signals[k]

Quiet ==
  /\ Complete' = Complete /\ Unresolved' = Unresolved /\ Open' \subseteq Open
  /\ closings' = closings
  /\ \A k \in Unresolved : forward_signals'[k].plan = forward_signals[k].plan

Entered(m) ==
  /\ Unresolved = {} /\ Unresolved' = {m} /\ Complete' = Complete
  /\ closings' = closings /\ clock' = clock
  /\ forward_signals'[m].plan \in Plan
  /\ Affords(forward_signals'[m].plan) /\ ~Halted

Closed(m) ==
  /\ Unresolved = {m} /\ Unresolved' = {} /\ Complete' = Complete \cup {m}
  /\ m \in Open /\ m \notin Complete
  /\ closings' = Append(closings, m) /\ clock' = clock
  /\ forward_signals'[m].closed = clock
  /\ forward_signals'[m].plan = forward_signals[m].plan
  /\ Pnl(m)' \in Int /\ Pnl(m)' > -AtRisk(m)

\* A record enters one path or none.
LEMMA BooksOfRecord ==
  ASSUME LedgerInv, Record
  PROVE  Kept /\ (Quiet \/ \E m \in Mint : Entered(m))
<1>1. TypeOK /\ OnePosition
  BY DEF LedgerInv
<1>2. CASE ~Enters(offer)
  BY <1>2 DEF Record, Quiet, Kept, Complete, Unresolved, Open, State
<1>3. CASE Enters(offer)
  <2> DEFINE m == offer.mint
             row == [state |-> "OPEN", plan |-> offer.plan,
                     opened |-> offer.observed, last_sample |-> offer.observed]
  <2>1. m \in Mint /\ offer.plan \in Plan /\ offer.observed \in Nat
    BY <1>1 DEF Record, TypeOK, Idle, InCycle
  <2>2. row \in Row /\ row.state = "OPEN" /\ row.plan = offer.plan
    BY <2>1 DEF Row
  <2>3. forward_signals' = [forward_signals EXCEPT ![m] = row]
    BY <1>3 DEF Record
  <2>4. State(m) = "NONE" /\ Unresolved = {}
    BY <1>3 DEF Enters, Vacant
  <2>5. Affords(offer.plan) /\ ~Halted /\ closings' = closings /\ clock' = clock
    BY <1>3 DEF Enters, Record
  <2> HIDE DEF row, m
  <2>6. /\ \A k \in Mint : k # m => forward_signals'[k] = forward_signals[k]
        /\ forward_signals'[m] = row
        /\ \A k \in Mint : State(k)' = IF k = m THEN "OPEN" ELSE State(k)
    BY <1>1, <2>1, <2>2, <2>3, OneRow, ZenonT(30)
  <2>7. Complete' = Complete /\ Unresolved' = {m} /\ Kept
    BY <2>1, <2>4, <2>6 DEF Complete, Unresolved, Kept
  <2>8. Entered(m)
    BY <2>1, <2>2, <2>4, <2>5, <2>6, <2>7 DEF Entered
  <2> QED BY <2>1, <2>7, <2>8
<1> QED BY <1>2, <1>3

\* An incomplete path leaves the results as they are.
LEMMA BooksOfGap ==
  ASSUME LedgerInv, NEW m \in Mint, SampleGap(m) \/ Unverified(m)
  PROVE  Kept /\ Quiet
<1>1. m \in Open /\ Incomplete(m) /\ closings' = closings
  BY DEF SampleGap, Unverified, Incomplete
<1>2. /\ \A k \in Mint : k # m => forward_signals'[k] = forward_signals[k]
      /\ \A k \in Mint : State(k)' = IF k = m THEN "INCOMPLETE" ELSE State(k)
      /\ Complete' = Complete /\ Unresolved' = Unresolved
  BY <1>1, IncompleteRow
<1>3. m \notin Complete /\ Open' \subseteq Open
  BY <1>1, <1>2 DEF Open, Complete
<1>4. forward_signals'[m].plan = forward_signals[m].plan
  BY <1>1 DEF Incomplete, LedgerInv, TypeOK
<1> QED BY <1>1, <1>2, <1>3, <1>4 DEF Kept, Quiet, Complete, Unresolved

\* A sample leaves the results as they are.
LEMMA BooksOfSample ==
  ASSUME LedgerInv, NEW m \in Mint, NEW gross \in Gross, NEW rising \in BOOLEAN,
         Sampled(m, gross, rising)
  PROVE  Kept /\ Quiet
<1> DEFINE old == forward_signals[m]
           row == [old EXCEPT !.last_sample = clock]
<1>1. TypeOK /\ m \in Open /\ State(m) = "OPEN" /\ closings' = closings
  BY DEF LedgerInv, Sampled, Open
<1>2. old \in [state : {"OPEN"}, plan : Plan, opened : Nat, last_sample : Nat] /\ clock \in Nat
  BY <1>1, OpenRow
<1>3. row \in Row /\ row.state = "OPEN" /\ row.plan = old.plan
  BY <1>2 DEF Row
<1>4. forward_signals' = [forward_signals EXCEPT ![m] = row]
  BY DEF Sampled
<1> HIDE DEF row
<1>5. /\ \A k \in Mint : k # m => forward_signals'[k] = forward_signals[k]
      /\ forward_signals'[m] = row
      /\ \A k \in Mint : State(k)' = State(k)
  BY <1>1, <1>3, <1>4, OneRow
<1>6. Complete' = Complete /\ Unresolved' = Unresolved /\ Open' = Open
  BY <1>5 DEF Complete, Unresolved, Open
<1> QED BY <1>1, <1>3, <1>5, <1>6 DEF Kept, Quiet, Complete, Unresolved

\* A completed path adds its result.
LEMMA BooksOfResult ==
  ASSUME LedgerInv, NEW m \in Mint, NEW gross \in Gross, NEW rising \in BOOLEAN,
         Completed(m, gross, rising)
  PROVE  Kept /\ Closed(m)
<1> DEFINE old == forward_signals[m]
           row == [state |-> "COMPLETE", plan |-> old.plan, opened |-> old.opened,
                   last_sample |-> clock, closed |-> clock, net_pnl |-> gross - old.plan.costs]
<1>1. TypeOK /\ OnePosition /\ m \in Open /\ State(m) = "OPEN"
  BY DEF LedgerInv, Completed, Open
<1>2. old.plan \in Plan /\ old.opened \in Nat /\ clock \in Nat
  BY <1>1, OpenFields
<1>3. old.plan.costs \in Int /\ old.plan.amount \in Int /\ gross \in Int
  BY <1>2, LedgerAssumption
<1>4. gross > -old.plan.amount
  BY DEF Completed
<1>5. /\ gross - old.plan.costs \in Int
      /\ gross - old.plan.costs > -(old.plan.amount + old.plan.costs)
  <2> DEFINE a == old.plan.amount
             c == old.plan.costs
  <2>1. a \in Int /\ c \in Int /\ gross \in Int /\ gross > -a
    BY <1>3, <1>4
  <2> HIDE DEF a, c
  <2>2. gross - c \in Int /\ gross - c > -(a + c)
    BY <2>1
  <2> QED BY <2>2 DEF a, c
<1>6. /\ row \in Row /\ row.state = "COMPLETE" /\ row.plan = old.plan
      /\ row.closed = clock /\ row.net_pnl = gross - old.plan.costs
  BY <1>2, <1>5 DEF Row
<1>7. forward_signals' = [forward_signals EXCEPT ![m] = row]
  BY DEF Completed
<1> HIDE DEF row
<1>8. /\ \A k \in Mint : k # m => forward_signals'[k] = forward_signals[k]
      /\ forward_signals'[m] = row
      /\ \A k \in Mint : State(k)' = IF k = m THEN "COMPLETE" ELSE State(k)
  BY <1>1, <1>6, <1>7, OneRow
<1>9. Unresolved = {m} /\ m \notin Complete
  BY <1>1 DEF OnePosition, Unresolved, Complete
<1>10. Complete' = Complete \cup {m} /\ Unresolved' = {} /\ Kept
  BY <1>8, <1>9 DEF Complete, Unresolved, Kept
<1>11. Pnl(m)' = gross - old.plan.costs /\ AtRisk(m) = old.plan.amount + old.plan.costs
  BY <1>6, <1>8 DEF Pnl, AtRisk
<1>12. closings' = Append(closings, m) /\ clock' = clock
  BY DEF Completed
<1> QED BY <1>1, <1>5, <1>6, <1>8, <1>9, <1>10, <1>11, <1>12 DEF Closed

\* The three kinds of step, for the sums: nothing, one entry, one result.
LEMMA BookSteps ==
  ASSUME LedgerInv, [Next]_vars
  PROVE  Kept /\ (Quiet \/ \E m \in Mint : Entered(m) \/ Closed(m))
<1>1. CASE UNCHANGED ledger
  BY <1>1 DEF ledger, Kept, Quiet, Complete, Unresolved, Open, State
<1> QED
  BY <1>1, Writers, BooksOfRecord, BooksOfGap, BooksOfSample, BooksOfResult
-----------------------------------------------------------------------------
(* The reserve *)

\* The results of the completed paths before and after a step that adds none.
LEMMA SameResults ==
  ASSUME TypeOK, Kept, Complete' = Complete
  PROVE  SumPnl(Complete)' = SumPnl(Complete)
<1> DEFINE f == [m \in Complete |-> Pnl(m)]
           g == [m \in Complete' |-> Pnl(m)']
<1>1. \A m \in Complete : f[m] = g[m]
  BY DEF Kept, Pnl
<1>2. SumPnl(Complete) = SumOf(f, Complete) /\ SumPnl(Complete)' = SumOf(g, Complete')
  BY DEF SumPnl
<1> HIDE DEF f, g
<1>3. SumOf(f, Complete) = SumOf(g, Complete)
  BY <1>1, FiniteComplete, SumSame
<1> QED BY <1>2, <1>3

\* A set of completed paths and a new one.
LEMMA ResultAdded ==
  ASSUME TypeOK, Kept, NEW S \in SUBSET Complete, NEW m, m \notin S, Pnl(m)' \in Int,
         NEW T, T = S \cup {m}
  PROVE  /\ SumOf([k \in T |-> Pnl(k)'], T) = SumPnl(S) + Pnl(m)'
         /\ SumPnl(S) \in Int
<1> DEFINE g == [k \in S |-> Pnl(k)]
           f == [k \in T |-> Pnl(k)']
<1>1. IsFiniteSet(S)
  BY FiniteComplete, FS_Subset
<1>2. \A k \in S : f[k] = g[k] /\ g[k] \in Int
  BY CompleteRow DEF Kept, Pnl
<1>3. f[m] = Pnl(m)'
  OBVIOUS
<1>4. SumPnl(S) = SumOf(g, S)
  BY DEF SumPnl
<1> HIDE DEF f, g
<1>5. SumOf(f, S \cup {m}) = SumOf(g, S) + f[m]
  BY <1>1, <1>2, <1>3, SumGrows
<1>6. SumOf(g, S) \in Int
  BY <1>1, <1>2, SumInt
<1> QED BY <1>3, <1>4, <1>5, <1>6 DEF f

\* What is at risk is what the one unresolved path can lose.
LEMMA RiskOfOne ==
  ASSUME NEW m, AtRisk(m) \in Int
  PROVE  SumOf([k \in {m} |-> AtRisk(k)], {m}) = AtRisk(m)
<1> DEFINE f == [k \in {m} |-> AtRisk(k)]
<1>1. f[m] = AtRisk(m)
  OBVIOUS
<1> HIDE DEF f
<1>2. SumOf(f, {m}) = f[m]
  BY <1>1, SumOne
<1> QED BY <1>1, <1>2 DEF f

\* An entry leaves the reserve; a result loses at most what its entry risked.
LEMMA ReserveStep == ASSUME LedgerInv, ReserveKept, [Next]_vars PROVE ReserveKept'
<1> DEFINE risk == SumOf([k \in Unresolved |-> AtRisk(k)], Unresolved)
           left == SumOf([k \in Unresolved' |-> AtRisk(k)'], Unresolved')
<1>1. TypeOK /\ Kept /\ (Quiet \/ \E m \in Mint : Entered(m) \/ Closed(m))
  BY BookSteps DEF LedgerInv
<1>2. SumPnl(Complete) \in Int /\ Start \in Int /\ Reserve \in Int
  <2>1. \A m \in Complete : [k \in Complete |-> Pnl(k)][m] \in Int
    BY <1>1, CompleteRow
  <2> QED BY <1>1, <2>1, FiniteComplete, SumInt, LedgerAssumption DEF SumPnl
<1>3. Balance - risk >= Reserve /\ Balance = Start + SumPnl(Complete)
  BY DEF ReserveKept, Balance
<1>4. SUFFICES Balance' - left >= Reserve
  BY DEF ReserveKept
<1>8. Balance' = Start + SumPnl(Complete)'
  BY DEF Balance
<1>5. CASE Quiet
  <2>1. left = risk
    <3> DEFINE f == [k \in Unresolved |-> AtRisk(k)]
               g == [k \in Unresolved' |-> AtRisk(k)']
    <3>1. Unresolved' = Unresolved /\ \A k \in Unresolved : f[k] = g[k]
      BY <1>5 DEF Quiet, AtRisk
    <3>2. IsFiniteSet(Unresolved)
      <4>1. CASE Unresolved = {}
        BY <4>1, FS_EmptySet
      <4>2. CASE Unresolved # {}
        <5>1. PICK m \in Unresolved : TRUE
          BY <4>2
        <5>2. Unresolved = {m}
          BY <5>1 DEF LedgerInv, OnePosition
        <5> QED BY <5>2, FS_Singleton
      <4> QED BY <4>1, <4>2
    <3> HIDE DEF f, g
    <3>3. SumOf(f, Unresolved) = SumOf(g, Unresolved)
      BY <3>1, <3>2, SumSame
    <3> QED BY <3>1, <3>3 DEF f, g
  <2>2. SumPnl(Complete)' = SumPnl(Complete)
    BY <1>1, <1>5, SameResults DEF Quiet
  <2> QED BY <1>3, <1>8, <2>1, <2>2
<1>6. ASSUME NEW m \in Mint, Entered(m)
      PROVE  Balance' - left >= Reserve
  <2> DEFINE p == forward_signals'[m].plan
  <2>1. /\ Unresolved' = {m} /\ p \in Plan
        /\ Balance - p.amount - p.costs >= Reserve
    BY <1>6 DEF Entered, Affords
  <2>2. p.amount \in Int /\ p.costs \in Int
    BY <2>1, LedgerAssumption
  <2>3. AtRisk(m)' = p.amount + p.costs
    BY DEF AtRisk
  <2> HIDE DEF p
  <2>4. left = p.amount + p.costs
    <3> DEFINE f == [k \in {m} |-> AtRisk(k)']
    <3>1. left = SumOf(f, {m})
      BY <2>1
    <3>2. f[m] = p.amount + p.costs
      BY <2>3
    <3> HIDE DEF f
    <3>3. f[m] \in Int
      BY <2>2, <3>2
    <3>4. SumOf(f, {m}) = f[m]
      BY <3>3, SumOne
    <3> QED BY <3>1, <3>2, <3>4
  <2>5. SumPnl(Complete)' = SumPnl(Complete)
    BY <1>1, <1>6, SameResults DEF Entered
  <2>6. Balance' = Balance
    BY <1>3, <1>8, <2>5
  <2>7. Balance \in Int
    BY <1>2, <1>3
  <2> HIDE DEF left
  <2>8. Balance - left >= Reserve
    BY <1>2, <2>1, <2>2, <2>4, <2>7
  <2> QED BY <2>6, <2>8
<1>7. ASSUME NEW m \in Mint, Closed(m)
      PROVE  Balance' - left >= Reserve
  <2>1. /\ Unresolved = {m} /\ Unresolved' = {} /\ Complete' = Complete \cup {m}
        /\ m \notin Complete /\ m \in Open /\ Pnl(m)' \in Int /\ Pnl(m)' > -AtRisk(m)
    BY <1>7 DEF Closed
  <2>2. left = 0
    BY <2>1, SumEmpty
  <2>3. AtRisk(m) \in Int
    <3>1. forward_signals[m].plan \in Plan
      BY <1>1, <2>1, OpenFields
    <3> QED BY <3>1, LedgerAssumption DEF AtRisk
  <2>4. risk = AtRisk(m)
    BY <2>1, <2>3, RiskOfOne
  <2>5. SumPnl(Complete)' = SumPnl(Complete) + Pnl(m)'
    BY <1>1, <2>1, ResultAdded DEF SumPnl
  <2> HIDE DEF left, risk
  <2> QED BY <1>2, <1>3, <1>8, <2>1, <2>2, <2>3, <2>4, <2>5
<1> QED BY <1>1, <1>4, <1>5, <1>6, <1>7

(***************************************************************************)
(* With everything at risk lost, at least the reserve is left: whatever    *)
(* the plans, the prices and the order of samples, signals and stops.      *)
(***************************************************************************)
THEOREM ReserveStands == Spec => []ReserveKept
<1>1. Init => ReserveKept
  <2> SUFFICES ASSUME Init PROVE ReserveKept
    OBVIOUS
  <2>1. Complete = {} /\ Unresolved = {}
    BY DEF Init, Complete, Unresolved, State, NoRow
  <2>2. /\ SumPnl(Complete) = 0
        /\ SumOf([k \in Unresolved |-> AtRisk(k)], Unresolved) = 0
    BY <2>1, SumEmpty DEF SumPnl
  <2> QED BY <2>2, LedgerAssumption DEF ReserveKept, Balance
<1>2. LedgerInv /\ ReserveKept /\ [Next]_vars => ReserveKept'
  BY ReserveStep
<1> QED BY <1>1, <1>2, LedgerAlways, PTL DEF Spec
-----------------------------------------------------------------------------
(* The day and the streak, under a wall clock that is never set back *)

SteadyClock == MaxSteps = 0

ClosedBefore == \A k \in Complete : forward_signals[k].closed <= clock

\* A steady clock only goes forward.
LEMMA ClockRises ==
  ASSUME LedgerInv, SteadyClock, [Next]_vars
  PROVE  clock \in Nat /\ clock' \in Nat /\ clock <= clock'
<1>1. clock \in 0..MaxClock /\ MaxClock \in Nat /\ steps \in 0..MaxSteps /\ MaxSteps = 0
  BY LedgerAssumption DEF LedgerInv, TypeOK, SteadyClock
<1>2. clock \in Nat /\ ~(steps < MaxSteps)
  BY <1>1
<1>3. ~StepBack
  BY <1>2 DEF StepBack
<1>4. clock' = clock \/ clock' = clock + 1
  BY <1>3 DEF Next, vars, BeginCycle, Signal, Record, CycleEnds, Supervise, Stop, Down, Restart,
     SampleNothing, SampleGap, AskMarket, Unverified, Completed, Sampled, SamplerDies, Tick
<1> QED BY <1>2, <1>4

\* No result is of a time that is still to come.
LEMMA ClosedBeforeStep ==
  ASSUME LedgerInv, SteadyClock, ClosedBefore, [Next]_vars
  PROVE  ClosedBefore'
<1>1. TypeOK /\ Kept /\ (Quiet \/ \E m \in Mint : Entered(m) \/ Closed(m))
  BY BookSteps DEF LedgerInv
<1>2. clock \in Nat /\ clock' \in Nat /\ clock <= clock'
  BY ClockRises
<1>3. \A k \in Complete : forward_signals'[k].closed <= clock'
  <2> SUFFICES ASSUME NEW k \in Complete PROVE forward_signals'[k].closed <= clock'
    OBVIOUS
  <2> DEFINE t == forward_signals[k].closed
  <2>1. t \in Nat /\ t <= clock /\ forward_signals'[k].closed = t
    BY <1>1, CompleteRow DEF ClosedBefore, Kept
  <2> HIDE DEF t
  <2> QED BY <1>2, <2>1
<1>4. ASSUME NEW m \in Mint, Closed(m) PROVE ClosedBefore'
  <2>1. /\ Complete' = Complete \cup {m} /\ clock' = clock
        /\ forward_signals'[m].closed = clock
    BY <1>4 DEF Closed
  <2>2. forward_signals'[m].closed <= clock'
    BY <1>2, <2>1
  <2> QED BY <1>3, <2>1, <2>2 DEF ClosedBefore
<1> QED BY <1>1, <1>3, <1>4 DEF Quiet, Entered, ClosedBefore
-----------------------------------------------------------------------------
\* A later instant is on no earlier day.
LEMMA LaterDay ==
  ASSUME NEW a \in Nat, NEW b \in Nat, NEW d \in Nat \ {0}, a <= b
  PROVE  a \div d \in Nat /\ a \div d <= b \div d
OBVIOUS

\* A path is only open on a day that can still take its loss, as can every later one.
DayInv ==
  /\ ClosedBefore
  /\ \A d \in Nat : DayBounded(d)
  /\ Open # {} => \A d \in Nat : d >= DayOf(clock) => SumPnl(ClosedOn(d)) > -DailyLimit

\* The result and the paths of a day to which a step adds nothing.
LEMMA SameDay ==
  ASSUME TypeOK, Kept, NEW d, ClosedOn(d)' = ClosedOn(d)
  PROVE  /\ SumPnl(ClosedOn(d))' = SumPnl(ClosedOn(d))
         /\ \A k \in ClosedOn(d) : AtRisk(k)' = AtRisk(k)
         /\ DayBounded(d)' <=> DayBounded(d)
<1> DEFINE f == [m \in ClosedOn(d) |-> Pnl(m)]
           g == [m \in ClosedOn(d)' |-> Pnl(m)']
<1>1. ClosedOn(d) \subseteq Complete
  BY DEF ClosedOn
<1>2. \A m \in ClosedOn(d) : f[m] = g[m]
  BY <1>1 DEF Kept, Pnl
<1>3. SumPnl(ClosedOn(d)) = SumOf(f, ClosedOn(d)) /\ SumPnl(ClosedOn(d))' = SumOf(g, ClosedOn(d)')
  BY DEF SumPnl
<1> HIDE DEF f, g
<1>4. IsFiniteSet(ClosedOn(d))
  BY <1>1, FiniteComplete, FS_Subset
<1>5. SumOf(f, ClosedOn(d)) = SumOf(g, ClosedOn(d))
  BY <1>2, <1>4, SumSame
<1>6. SumPnl(ClosedOn(d))' = SumPnl(ClosedOn(d))
  BY <1>3, <1>5
<1>7. \A k \in ClosedOn(d) : AtRisk(k)' = AtRisk(k)
  BY <1>1 DEF Kept, AtRisk
<1> HIDE DEF SumPnl
<1> QED BY <1>6, <1>7 DEF DayBounded

\* The result of a day is a number.
LEMMA DayResult == ASSUME TypeOK, NEW d PROVE SumPnl(ClosedOn(d)) \in Int
<1> DEFINE f == [m \in ClosedOn(d) |-> Pnl(m)]
<1>1. ClosedOn(d) \subseteq Complete
  BY DEF ClosedOn
<1>2. \A m \in ClosedOn(d) : f[m] \in Int
  BY <1>1, CompleteRow
<1>3. IsFiniteSet(ClosedOn(d))
  BY <1>1, FiniteComplete, FS_Subset
<1>4. SumPnl(ClosedOn(d)) = SumOf(f, ClosedOn(d))
  BY DEF SumPnl
<1> HIDE DEF f
<1> QED BY <1>2, <1>3, <1>4, SumInt

\* The days of the completed paths stay.
LEMMA DaysKept ==
  ASSUME TypeOK, Kept, NEW d
  PROVE  {k \in Complete : DayOf(forward_signals'[k].closed) = d} = ClosedOn(d)
BY DEF Kept, ClosedOn

\* A day past its limit opens no path, and one path was open when it was reached.
LEMMA DayStep ==
  ASSUME LedgerInv, SteadyClock, DayInv, [Next]_vars
  PROVE  DayInv'
<1>1. TypeOK /\ Kept /\ (Quiet \/ \E m \in Mint : Entered(m) \/ Closed(m))
  BY BookSteps DEF LedgerInv
<1>2. clock \in Nat /\ clock' \in Nat /\ clock <= clock'
  BY ClockRises
<1>3. ClosedBefore'
  BY ClosedBeforeStep DEF DayInv
<1>4. DayOf(clock) \in Nat /\ DayOf(clock') \in Nat /\ DayOf(clock) <= DayOf(clock')
  BY <1>2, LaterDay, LedgerAssumption DEF DayOf
<1>5. ASSUME Complete' = Complete, NEW d
      PROVE  /\ SumPnl(ClosedOn(d))' = SumPnl(ClosedOn(d))
             /\ DayBounded(d)' <=> DayBounded(d)
  BY <1>1, <1>5, DaysKept, SameDay DEF ClosedOn
<1>6. CASE Quiet
  <2>1. ASSUME NEW k \in Open', NEW d \in Nat, d >= DayOf(clock')
        PROVE  SumPnl(ClosedOn(d))' > -DailyLimit
    <3>1. d >= DayOf(clock) /\ Open # {}
      BY <1>4, <1>6, <2>1 DEF Quiet
    <3>2. SumPnl(ClosedOn(d)) > -DailyLimit
      BY <3>1 DEF DayInv
    <3> QED BY <1>5, <1>6, <3>2 DEF Quiet
  <2> QED BY <1>3, <1>5, <1>6, <2>1 DEF Quiet, DayInv
<1>7. ASSUME NEW m \in Mint, Entered(m) PROVE DayInv'
  <2>1. Complete' = Complete /\ clock' = clock /\ ~DayIsLost
    BY <1>7 DEF Entered, Halted
  <2>2. ASSUME NEW d \in Nat, d >= DayOf(clock')
        PROVE  SumPnl(ClosedOn(d))' > -DailyLimit
    <3>1. CASE d = DayOf(clock)
      <4>1. SumPnl(ClosedOn(d)) > -DailyLimit
        <5>1. SumPnl(ClosedOn(d)) \in Int /\ DailyLimit \in Int
          BY <1>1, DayResult, LedgerAssumption
        <5> QED BY <2>1, <3>1, <5>1 DEF DayIsLost
      <4> QED BY <1>5, <2>1, <4>1
    <3>2. CASE d > DayOf(clock)
      <4>1. ASSUME NEW k \in ClosedOn(d) PROVE FALSE
        <5> DEFINE t == forward_signals[k].closed
        <5>1. k \in Complete /\ DayOf(t) = d
          BY <4>1 DEF ClosedOn
        <5>2. t \in Nat /\ t <= clock
          BY <1>1, <5>1, CompleteRow DEF DayInv, ClosedBefore
        <5> HIDE DEF t
        <5>3. DayOf(t) <= DayOf(clock) /\ DayOf(t) \in Nat
          BY <1>2, <5>2, LaterDay, LedgerAssumption DEF DayOf
        <5> QED BY <1>4, <3>2, <5>1, <5>3
      <4>2. SumPnl(ClosedOn(d)) = 0
        BY <4>1, SumEmpty DEF SumPnl
      <4>3. 0 > -DailyLimit
        BY LedgerAssumption
      <4>4. SumPnl(ClosedOn(d))' = 0
        BY <1>5, <2>1, <4>2
      <4> QED BY <4>3, <4>4, Zenon
    <3> QED BY <1>4, <2>1, <2>2, <3>1, <3>2
  <2> QED BY <1>3, <1>5, <2>1, <2>2 DEF DayInv
<1>8. ASSUME NEW m \in Mint, Closed(m) PROVE DayInv'
  <2>1. /\ Complete' = Complete \cup {m} /\ m \notin Complete /\ m \in Open
        /\ forward_signals'[m].closed = clock /\ Unresolved' = {}
        /\ forward_signals'[m].plan = forward_signals[m].plan
        /\ Pnl(m)' \in Int /\ Pnl(m)' > -AtRisk(m)
    BY <1>8 DEF Closed
  <2>2. Open' = {}
    BY <2>1 DEF Open, Unresolved
  <2>3. ASSUME NEW d \in Nat, d # DayOf(clock) PROVE DayBounded(d)'
    <3>1. ClosedOn(d)' = ClosedOn(d)
      BY <1>1, <2>1, <2>3, DaysKept DEF ClosedOn
    <3> QED BY <1>1, <3>1, SameDay DEF DayInv
  <2>4. ASSUME NEW today, today = DayOf(clock) PROVE DayBounded(today)'
    <3>1. ClosedOn(today)' = ClosedOn(today) \cup {m}
      BY <1>1, <2>1, <2>4, DaysKept DEF ClosedOn
    <3>2. ClosedOn(today) \subseteq Complete
      BY DEF ClosedOn
    <3> DEFINE S == ClosedOn(today)
               T == ClosedOn(today)'
    <3>3. /\ SumPnl(ClosedOn(today))' = SumOf([k \in T |-> Pnl(k)'], T)
          /\ T = S \cup {m} /\ S \in SUBSET Complete /\ m \notin S
      BY <2>1, <3>1, <3>2 DEF SumPnl
    <3> HIDE DEF S, T
    <3>4. /\ SumOf([k \in T |-> Pnl(k)'], T) = SumPnl(S) + Pnl(m)'
          /\ SumPnl(S) \in Int
      BY <1>1, <2>1, <3>3, ResultAdded
    <3>5. SumPnl(S) > -DailyLimit
      BY <1>4, <2>1, <2>4 DEF S, DayInv
    <3>6. AtRisk(m) \in Int /\ AtRisk(m)' = AtRisk(m)
      <4>1. forward_signals[m].plan \in Plan
        BY <1>1, <2>1, OpenFields
      <4>2. AtRisk(m)' = AtRisk(m)
        BY <2>1 DEF AtRisk
      <4> QED BY <4>1, <4>2, LedgerAssumption DEF AtRisk
    <3>7. DailyLimit \in Int
      BY LedgerAssumption
    <3>8. SumPnl(ClosedOn(today))' > -DailyLimit - AtRisk(m)'
      <4> DEFINE sum    == SumPnl(S)
                 result == Pnl(m)'
                 risk   == AtRisk(m)
      <4>1. SumPnl(ClosedOn(today))' = sum + result /\ AtRisk(m)' = risk
        BY <3>3, <3>4, <3>6
      <4>2. /\ sum \in Int /\ result \in Int /\ risk \in Int
            /\ sum > -DailyLimit /\ result > -risk
        BY <2>1, <3>4, <3>5, <3>6
      <4> HIDE DEF sum, result, risk
      <4>3. sum + result > -DailyLimit - risk
        BY <3>7, <4>2
      <4> QED BY <4>1, <4>3, Zenon
    <3>9. m \in ClosedOn(today)'
      BY <3>1
    <3> QED BY <3>8, <3>9, Zenon DEF DayBounded
  <2> QED BY <1>3, <2>2, <2>3, <2>4 DEF DayInv
<1> QED BY <1>1, <1>6, <1>7, <1>8

(***************************************************************************)
(* While the wall clock is never set back, a day loses its limit and less  *)
(* than one of its positions, whenever that position was entered.          *)
(***************************************************************************)
THEOREM DayHolds == ASSUME SteadyClock PROVE Spec => []DayLossBounded
<1>1. Init => DayInv
  <2> SUFFICES ASSUME Init PROVE DayInv
    OBVIOUS
  <2>1. Complete = {} /\ Open = {}
    BY DEF Init, Complete, Open, State, NoRow
  <2>2. \A d \in Nat : SumPnl(ClosedOn(d)) = 0
    BY <2>1, SumEmpty DEF SumPnl, ClosedOn
  <2>3. \A d \in Nat : DayBounded(d)
    BY <2>2, LedgerAssumption DEF DayBounded
  <2> QED BY <2>1, <2>3 DEF DayInv, ClosedBefore
<1>2. LedgerInv /\ DayInv /\ [Next]_vars => DayInv'
  BY DayStep
<1>3. DayInv => DayLossBounded
  <2>1. \A d \in 0..DayOf(MaxClock) : d \in Nat
    BY LaterDay, LedgerAssumption DEF DayOf
  <2>2. DayInv => \A d \in 0..DayOf(MaxClock) : DayBounded(d)
    BY <2>1, Zenon DEF DayInv
  <2> QED BY <2>2 DEF DayLossBounded
<1> QED BY <1>1, <1>2, <1>3, LedgerAlways, PTL DEF Spec
-----------------------------------------------------------------------------
\* The order of closing is the order of the clock, and no path is closed twice.
Ordered ==
  \A i, j \in 1..Len(closings) : i < j =>
    /\ closings[i] # closings[j]
    /\ forward_signals[closings[i]].closed <= forward_signals[closings[j]].closed

HaltInv == ClosedBefore /\ Ordered /\ (AllLost => Open = {})

\* The closings are the completed paths.
LEMMA ClosedPaths ==
  ASSUME TypeOK
  PROVE  /\ closings \in Seq(Mint) /\ Len(closings) \in Nat /\ Streak \in Nat
         /\ \A i \in 1..Len(closings) : closings[i] \in Complete
         /\ \A k \in Complete : \E i \in 1..Len(closings) : closings[i] = k
<1>1. closings \in Seq(Mint) /\ Range(closings) = Complete /\ Streak \in Nat
  BY LedgerAssumption DEF TypeOK
<1>2. Len(closings) \in Nat /\ DOMAIN closings = 1..Len(closings)
  BY <1>1
<1> QED BY <1>1, <1>2 DEF Range

\* record counts the losses in the order in which they really happened.
LEMMA StreakCounted ==
  ASSUME TypeOK, Ordered, NEW i \in 1..Len(closings), Pnl(closings[i]) < 0,
         \A j \in 1..Len(closings) : i < j => Pnl(closings[j]) < 0
  PROVE  closings[i] \in Losing
<1>1. closings[i] \in Complete
  BY ClosedPaths
<1>2. ASSUME NEW k \in Complete, Later(k, closings[i]) PROVE Pnl(k) < 0
  <2>1. PICK j \in 1..Len(closings) : closings[j] = k
    BY ClosedPaths
  <2>2. i \in Int /\ j \in Int
    BY ClosedPaths
  <2>3. CASE i < j
    BY <1>2, <2>1, <2>3
  <2>4. CASE j = i
    <3>1. forward_signals[k].closed \in Nat
      BY <1>2, CompleteRow
    <3>2. k = closings[i]
      BY <2>1, <2>4
    <3>3. Rank(k) \in 1..Len(closings)
      BY <2>1 DEF Rank
    <3>4. Rank(k) \in Int
      BY <3>3, ClosedPaths
    <3> QED BY <1>2, <3>1, <3>2, <3>4 DEF Later
  <2>5. CASE j < i
    <3>1. /\ forward_signals[k].closed <= forward_signals[closings[i]].closed
          /\ forward_signals[k].closed \in Nat
          /\ forward_signals[closings[i]].closed \in Nat
      BY <1>1, <2>1, <2>5, CompleteRow DEF Ordered
    <3>2. \A l \in 1..Len(closings) : closings[l] = closings[i] => l = i
      BY ClosedPaths DEF Ordered
    <3>3. Rank(closings[i]) = i
      BY <3>2 DEF Rank
    <3>4. \A l \in 1..Len(closings) : closings[l] = k => l = j
      BY <2>1, ClosedPaths DEF Ordered
    <3>5. Rank(k) = j
      BY <2>1, <3>4 DEF Rank
    <3> QED BY <1>2, <2>2, <2>5, <3>1, <3>3, <3>5 DEF Later
  <2> QED BY <2>2, <2>3, <2>4, <2>5
<1> QED BY <1>1, <1>2 DEF Losing

\* When the last closings all lost, the halt of the code, which sorts by time, sees the same.
LEMMA StreakHalts == ASSUME TypeOK, Ordered, AllLost PROVE Halted
<1> DEFINE n == Len(closings)
           a == n - Streak + 1
           S == {closings[i] : i \in a..n}
           f == [i \in a..n |-> closings[i]]
<1>1. n \in Nat /\ Streak \in Nat /\ n >= Streak /\ a \in Nat /\ a >= 1
  BY ClosedPaths DEF AllLost
<1>2. \A i \in a..n : i \in 1..n
  <2> HIDE DEF n, a
  <2> QED BY <1>1
<1>3. S \subseteq Losing
  <2> SUFFICES ASSUME NEW i \in a..n PROVE closings[i] \in Losing
    OBVIOUS
  <2>1. \A j \in a..n : Pnl(closings[j]) < 0
    BY DEF AllLost
  <2>2. i \in 1..n /\ Pnl(closings[i]) < 0
    BY <1>2, <2>1
  <2>3. ASSUME NEW j \in 1..n, i < j PROVE Pnl(closings[j]) < 0
    <3>1. j \in a..n
      BY <1>1, <2>3
    <3> QED BY <2>1, <3>1
  <2> QED BY <2>2, <2>3, StreakCounted
<1>4. f \in Bijection(a..n, S)
  <2>1. \A i, j \in a..n : f[i] = f[j] => i = j
    <3> SUFFICES ASSUME NEW i \in a..n, NEW j \in a..n, closings[i] = closings[j], i # j
                 PROVE  FALSE
      OBVIOUS
    <3>1. i \in 1..n /\ j \in 1..n /\ (i < j \/ j < i)
      BY <1>1, <1>2
    <3> QED BY <3>1 DEF Ordered
  <2> QED BY <2>1 DEF Bijection, Injection, Surjection, IsInjective
<1>5. IsFiniteSet(a..n) /\ Cardinality(a..n) = Streak
  <2>1. a \in Int /\ n \in Int
    BY <1>1
  <2>2. n - a + 1 = Streak /\ (a > n => Streak = 0)
    BY <1>1
  <2> HIDE DEF a, n
  <2>3. IsFiniteSet(a..n) /\ Cardinality(a..n) = IF a > n THEN 0 ELSE n - a + 1
    BY <2>1, FS_Interval
  <2> QED BY <2>2, <2>3
<1> HIDE DEF f, S
<1>6. Cardinality(S) = Streak
  BY <1>4, <1>5, FS_Bijection DEF ExistsBijection
<1>7. IsFiniteSet(Losing)
  <2>1. Losing \subseteq Complete
    BY DEF Losing
  <2> QED BY <2>1, FiniteComplete, FS_Subset
<1>8. Cardinality(S) <= Cardinality(Losing) /\ Cardinality(Losing) \in Nat
  BY <1>3, <1>7, FS_Subset, FS_CardinalityType
<1> QED BY <1>1, <1>6, <1>8 DEF Halted

\* After a losing streak no path is opened.
LEMMA HaltStep ==
  ASSUME LedgerInv, SteadyClock, HaltInv, [Next]_vars
  PROVE  HaltInv' /\ (AllLost => Open' = {})
<1>1. TypeOK /\ Kept /\ (Quiet \/ \E m \in Mint : Entered(m) \/ Closed(m))
  BY BookSteps DEF LedgerInv
<1>2. ClosedBefore'
  BY ClosedBeforeStep DEF HaltInv
<1>3. /\ closings \in Seq(Mint) /\ Len(closings) \in Nat /\ Streak \in Nat
      /\ \A i \in 1..Len(closings) : closings[i] \in Complete
  BY <1>1, ClosedPaths
<1>4. \A i \in 1..Len(closings) : forward_signals'[closings[i]] = forward_signals[closings[i]]
  BY <1>1, <1>3 DEF Kept
<1>5. ASSUME closings' = closings PROVE Ordered' /\ (AllLost' <=> AllLost)
  <2>1. Ordered'
    BY <1>4, <1>5 DEF HaltInv, Ordered
  <2>2. \A i \in (Len(closings) - Streak + 1)..Len(closings) :
          Len(closings) >= Streak => i \in 1..Len(closings)
    BY <1>3
  <2>3. AllLost' <=> AllLost
    BY <1>4, <1>5, <2>2 DEF AllLost, Pnl
  <2> QED BY <2>1, <2>3
<1>6. CASE Quiet
  BY <1>2, <1>5, <1>6 DEF Quiet, HaltInv
<1>7. ASSUME NEW m \in Mint, Entered(m)
      PROVE  HaltInv' /\ (AllLost => Open' = {})
  <2>1. ~AllLost
    BY <1>1, <1>7, StreakHalts DEF Entered, HaltInv
  <2> QED BY <1>2, <1>5, <1>7, <2>1 DEF Entered, HaltInv
<1>8. ASSUME NEW m \in Mint, Closed(m)
      PROVE  HaltInv' /\ (AllLost => Open' = {})
  <2>1. /\ closings' = Append(closings, m) /\ m \notin Complete
        /\ forward_signals'[m].closed = clock /\ Unresolved' = {}
    BY <1>8 DEF Closed
  <2>2. Open' = {}
    BY <2>1 DEF Open, Unresolved
  <2> DEFINE n == Len(closings)
  <2>3. /\ Len(closings') = n + 1 /\ closings'[n + 1] = m
        /\ \A i \in 1..n : closings'[i] = closings[i]
    BY <1>3, <2>1, AppendProperties
  <2>4. Ordered'
    <3> SUFFICES ASSUME NEW i \in 1..Len(closings'), NEW j \in 1..Len(closings'), i < j
                 PROVE  /\ closings'[i] # closings'[j]
                        /\ forward_signals'[closings'[i]].closed
                             <= forward_signals'[closings'[j]].closed
      BY DEF Ordered
    <3>1. i \in 1..n /\ (j \in 1..n \/ j = n + 1)
      BY <1>3, <2>3
    <3>2. CASE j \in 1..n
      BY <1>4, <2>3, <3>1, <3>2 DEF HaltInv, Ordered
    <3>3. CASE j = n + 1
      BY <1>3, <1>4, <2>1, <2>3, <3>1, <3>3 DEF HaltInv, ClosedBefore
    <3> QED BY <3>1, <3>2, <3>3
  <2> QED BY <1>2, <2>2, <2>4 DEF HaltInv
<1> QED BY <1>1, <1>6, <1>7, <1>8

(***************************************************************************)
(* While the wall clock is never set back, a streak of losses ends all     *)
(* entries for good: the order the rows are sorted in is the order they    *)
(* were closed in, so no restart, mint or later day hides the streak.      *)
(***************************************************************************)
THEOREM StreakEnds == ASSUME SteadyClock PROVE Spec => HaltIsFinal
<1>1. Init => HaltInv
  BY DEF Init, HaltInv, ClosedBefore, Ordered, Complete, Open, State, NoRow
<1>2. LedgerInv /\ HaltInv /\ [Next]_vars => HaltInv'
  BY HaltStep
<1>3. LedgerInv /\ HaltInv /\ [Next]_vars => [AllLost => Open' = {}]_vars
  BY HaltStep
<1> QED BY <1>1, <1>2, <1>3, LedgerAlways, PTL DEF Spec, HaltIsFinal
=============================================================================
