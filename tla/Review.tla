------------------------------- MODULE Review -------------------------------
(***************************************************************************)
(* What the signal company makes of a candidate that qualified: the risk   *)
(* flags, the plan of the trade with its costs, the four workers, the      *)
(* strategist and the referee, and the verdict of SignalCompany.prepare.   *)
(*                                                                         *)
(* Dollars of a market are whole.  The money of a plan is in hundredths of *)
(* a cent (Unit is a dollar), percentages are hundredths.                  *)
(***************************************************************************)
EXTENDS Quantity, FiniteSets

Unit   == 10000
-----------------------------------------------------------------------------
(* MicroTreasuryPolicy, and the reference capital the company sizes with *)

Amounts == <<1, 2>>          \* default_position_usd, max_position_usd
ReserveKept == 5 * Unit
FixedCost == 200             \* $0.02
DexFee == 60                 \* 0.60 %
SlippageFloor == 50
MinRewardRisk == 131
Reference == [balance |-> 11 * Unit, open |-> 0, day |-> 0, losses |-> 0]

\* _risk_flags.  A token without the fee extension has no known transfer tax.
RiskFlags(e, locked, scam) ==
  {f \in {"MINT_AUTHORITY", "FREEZE_AUTHORITY", "LP_LOCK", "TOP10", "HOLDERS",
          "CAPABILITIES", "TAX_UNKNOWN", "TAX", "SCAM"} :
     CASE f = "MINT_AUTHORITY"   -> e.mint_authority # "none"
       [] f = "FREEZE_AUTHORITY" -> e.freeze_authority # "none"
       [] f = "LP_LOCK"          -> ~locked
       [] f = "TOP10"            -> e.top10 = NoShare \/ Above(e.top10, 30)
       [] f = "HOLDERS"          -> e.suspicion # "LOW"
       [] f = "CAPABILITIES"     -> e.dangerous
       [] f = "TAX_UNKNOWN"      -> e.fee < 0
       [] f = "TAX"              -> e.fee > 100
       [] f = "SCAM"             -> scam}

\* The flags prepare takes for missing evidence, not for a finding.
Missing(e, locked) ==
  {f \in {"LP_LOCK", "HOLDERS"} : (f = "LP_LOCK" /\ ~locked) \/ (f = "HOLDERS" /\ e.suspicion = "UNKNOWN")}
-----------------------------------------------------------------------------
(* build_micro_trade_plan *)

TargetPct(score) == Clip(800, 1500, 800 + (7 * score) \div 100)
StopPct(score)   == Clip(500, 800, TargetPct(score) \div 3)

\* The economics of a trade of a dollars with that target and stop.
Ticket(a, m, e, score) ==
  LET impact == IF m.liquidity > 0 THEN Greatest(SlippageFloor, (20000 * a) \div m.liquidity)
                ELSE 10000
      costs  == FixedCost + a * (DexFee + impact + 2 * Greatest(0, e.fee))
      gross  == a * TargetPct(score)
  IN [amount |-> a, costs |-> costs, gross |-> gross,
      loss |-> a * StopPct(score) + costs]

\* Costs are a quarter of the profit at most, and the net profit is 1.31 of the loss.
Worth(t) == 4 * t.costs <= t.gross /\ 100 * (t.gross - t.costs) >= MinRewardRisk * t.loss

\* The smaller amount that is worth it and leaves the reserve.
Affordable(m, e, score, capital) ==
  {i \in DOMAIN Amounts :
     LET t == Ticket(Amounts[i], m, e, score)
     IN capital.balance - t.amount * Unit - t.costs >= ReserveKept /\ Worth(t)}

Selected(m, e, score, capital) ==
  LET ok == Affordable(m, e, score, capital)
  IN Ticket(IF ok = {} THEN Amounts[1] ELSE Amounts[CHOOSE i \in ok : \A j \in ok : i <= j],
            m, e, score)

\* The lowest of the scores of the five roles, as _scores computes them.  A half that goes
\* up is still on its side of the 60 that is asked; the strategist's terms are cut to a
\* hundredth of a point.
RefereeScore(m, risks, t) ==
  LET n          == Cardinality(risks)
      scout      == 35 + Nearest(Least(5 * m.liquidity, 75000) + Least(m.volume, 62500), 2500)
      evidence   == IF n = 0 THEN 100 ELSE Greatest(0, 35 - 10 * n)
      analyst    == Clip(0, 100, 50 + Least(m.buys - m.sells, 25) + Nearest(2 * m.change_5m, 100))
      reward     == Least(2500, (250000 * (t.gross - t.costs)) \div (MinRewardRisk * t.loss))
      strategist == Clip(0, 100, (4550 + reward - (4000 * t.costs) \div t.gross) \div 100)
  IN Least(Least(scout, evidence), Least(analyst, strategist))

InWindow(m) == 100000 <= m.cap /\ m.cap <= 200000

MaxOpen == 1
DailyLoss == 1 * Unit
LossStreak == 3

\* What refuses the trade outright, and what only makes it wait.
HardReject(m, risks, capital) ==
  \/ risks # {}
  \/ capital.open >= MaxOpen \/ capital.day <= -DailyLoss \/ capital.losses >= LossStreak
  \/ m.price <= 0 \/ m.liquidity <= 0

Waits(m, e, score, capital) ==
  \/ ~InWindow(m)
  \/ m.change_5m > 500
  \/ Affordable(m, e, score, capital) = {}

PlanDecision(m, e, risks, score, capital) ==
  IF HardReject(m, risks, capital) THEN "REJECT"
  ELSE IF Waits(m, e, score, capital)
            \/ RefereeScore(m, risks, Selected(m, e, score, capital)) < 60
       THEN "WATCH" ELSE "BUY"
-----------------------------------------------------------------------------
(* The workers and SignalCompany.prepare *)

Scout(m)          == InWindow(m)
Investigator(e, x) == e.status = "VERIFIED" /\ x.available
RiskDefender(risks) == risks = {}
MarketAnalyst(m)  ==
  m.price > 0 /\ m.liquidity > 0 /\ 0 < m.change_5m /\ m.change_5m <= 500 /\ m.buys > m.sells

\* Referee.review: every report passes, and the ticket is worth it computed again.
Referee(m, e, x, risks, decision, t) ==
  /\ Scout(m) /\ Investigator(e, x) /\ RiskDefender(risks) /\ MarketAnalyst(m)
  /\ decision = "BUY"
  /\ t.amount \in 1..2 /\ t.costs > 0 /\ t.loss > 0 /\ Worth(t)

\* The market again, just before the review: it must not have moved or decayed.
\* f are the filters of the configuration.
Moved(old, m) == old <= 0 \/ m.price <= 0 \/ 20 * m.price \notin (19 * old)..(21 * old)

Decayed(m, f) ==
  \/ m.cap <= 0
  \/ m.liquidity < f.liquidity \/ m.volume < f.volume \/ m.flow < f.flow
  \/ 100 * m.liquidity < f.thin * m.cap
  \/ m.change_1h > f.spike /\ m.turnover < f.turnover

\* The verdict that goes into the message, or NO_MESSAGE.  Missing evidence may be
\* watched, a finding may not; what is no longer fresh is rejected.
Verdict(m, e, x, locked, score, fresh) ==
  LET risks    == RiskFlags(e, locked, x.scam)
      decision == PlanDecision(m, e, risks, score, Reference)
      ticket   == Selected(m, e, score, Reference)
      watched  == risks # {} /\ risks \subseteq Missing(e, locked)
      buy      == decision = "BUY" /\ Referee(m, e, x, risks, decision, ticket)
      kind     == IF ~fresh THEN "REJECT"
                  ELSE IF watched THEN "WATCH"
                  ELSE IF decision = "BUY" THEN (IF buy THEN "BUY" ELSE "WATCH") ELSE decision
  IN IF kind = "REJECT" \/ ~Scout(m) \/ ~MarketAnalyst(m) THEN "NO_MESSAGE" ELSE kind
=============================================================================
