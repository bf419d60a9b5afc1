----------------------------- MODULE Evaluator -----------------------------
(***************************************************************************)
(* CommonEvaluator: the gates a candidate must pass on its market, its     *)
(* chain evidence and what is said of it, its screening score, its         *)
(* narrative presence, and the two stages of the profit ladder.            *)
(*                                                                         *)
(* Dollars are whole, ages minutes.  Points, multiples and ratios are      *)
(* hundredths.  Points that have more digits are cut, targets are rounded  *)
(* to the hundredth.                                                       *)
(***************************************************************************)
EXTENDS Quantity

Award(yes, points) == IF yes THEN points ELSE 0
-----------------------------------------------------------------------------
(* Gates, with the thresholds of the default configuration *)

MinAge == 10
MaxAge == 120
MinLiquidity == 5000
MinCap == 50000
MinVolume == 25000
MinFlow == 100
ThinPool == 8             \* percent: min_liquidity_to_mcap_ratio
SpikeChange == 10000     \* max_spike_price_change_1h_pct
SpikeTurnover == 50      \* min_spike_volume_to_mcap_ratio
MaxDev == 30              \* percent
MaxTop10 == 30
MinMentions == 5

\* A price rise that no turnover supports.
Spiked(m) == m.change_1h > SpikeChange /\ m.turnover < SpikeTurnover

Thin(m) == 100 * m.liquidity < ThinPool * m.cap

\* Everything known of a candidate and its pair lets it pass.
MarketPasses(c, m) ==
  /\ "x" \in c.links
  /\ c.age # Unknown /\ MinAge <= c.age /\ c.age <= MaxAge
  /\ m.liquidity >= MinLiquidity
  /\ m.buys > m.sells /\ m.flow >= MinFlow
  /\ m.cap >= MinCap
  /\ m.volume >= MinVolume
  /\ ~Thin(m)
  /\ ~Spiked(m)

\* What evaluate does to the candidate: the links of the pair are added, and its age
\* replaces that of the source.
WithPair(c, m) ==
  [c EXCEPT !.links = @ \cup m.links, !.age = IF m.age = Unknown THEN @ ELSE m.age]

ChainVerdict(c, e) ==
  CASE e.status = "REJECTED" \/ e.dangerous -> "REJECTED"
    [] e.status = "UNVERIFIED" /\ ~e.dangerous -> "DEFERRED"
    [] e.status = "VERIFIED" /\ ~e.dangerous ->
         IF e.dev = NoShare /\ c.creator THEN "DEFERRED"
         ELSE IF \/ Above(e.dev, MaxDev) \/ Above(e.top10, MaxTop10)
                 \/ e.coordinated = "HIGH" \/ e.suspicion = "HIGH"
              THEN "REJECTED" ELSE "PASSED"

\* celebrity_mint_evidence: a status post of a canonical handle that names this mint,
\* and no warning.
Celebrity(x) == x.celebrity_post /\ ~x.scam

SocialVerdict(x) ==
  CASE ~x.available -> "DEFERRED"
    [] x.available /\ (x.scam \/ x.forensic_scam) -> "REJECTED"
    [] x.available /\ ~x.scam /\ ~x.forensic_scam ->
         IF x.mentions < MinMentions /\ ~x.big_account /\ ~x.viral
         THEN "REJECTED" ELSE "QUALIFIED"
-----------------------------------------------------------------------------
(* Points *)

TradeReference == 50     \* reference_avg_trade_size_usd

\* maximum * value / (value + reference), for a value and a reference in the same unit.
Saturating(value, reference, maximum) ==
  IF value <= 0 \/ reference <= 0 THEN 0 ELSE (maximum * value) \div (value + reference)

\* social_presence_score_points.
SocialPoints(c) ==
  Least(1000, Award("telegram" \in c.links, 500) + Award("website" \in c.links, 100)
              + Award(c.takeovers # {}, 400))

\* The screening score of evaluate.
Score(c, m) ==
  Least(10000, 3500 + Least(m.liquidity \div 10, 3000) + Least(5 * m.flow, 2500)
               + Saturating(m.trade, TradeReference, 1500) + SocialPoints(c))

\* compute_narrative_presence_breakdown.  The boost is recorded and earns nothing.
RawPresence(c, m, x) ==
  Award(Celebrity(x), 6000)
    + Saturating(x.mentions, 25, 1200)
    + Award(x.big_account, 800) + Award(x.buzz, 300) + Award(x.viral, 700)
    + SocialPoints(c)
    + Saturating(m.turnover, 200, 800)
    + Saturating(m.trade, TradeReference, 700)

ScamCeiling == 500

Presence(c, m, x) ==
  Clip(0, IF x.scam THEN ScamCeiling ELSE 10000, RawPresence(c, m, x))
-----------------------------------------------------------------------------
(* The ladder *)

MinTarget == 150
Base == 200

\* take_profit_target_ceiling, from 4x to 12x, and take_profit_target_bonus, up to 6x,
\* in hundredths of a hundredth.
ExactCeiling(presence) == 40000 + 8 * presence
Bonus(presence)        == 6 * presence

\* The evidence of quality and of risk: the adjustments of compute_take_profit_target.
Quality(m, e, x, score) ==
  Award(m.cap > 0,
        CASE 100 * m.liquidity >= 20 * m.cap -> 75
          [] 100 * m.liquidity \in (12 * m.cap)..(20 * m.cap - 1) -> 25
          [] 100 * m.liquidity < 10 * m.cap -> -50
          [] OTHER -> 0)
    + (CASE Below(e.top10, 15) -> 50 [] e.top10 # NoShare /\ ~Below(e.top10, 25) -> -50
         [] OTHER -> 0)
    + Award(e.coordinated = "MEDIUM", -50) + Award(e.suspicion = "MEDIUM", -50)
    + (CASE x.mentions >= 20 -> 50 [] x.mentions \in 10..19 -> 25 [] OTHER -> 0)
    + (CASE m.turnover >= 200 -> 50 [] m.turnover < 50 -> -25 [] OTHER -> 0)
    + (CASE m.trade = Unknown -> 0
         [] m.trade >= 3 * TradeReference -> 50
         [] m.trade \in TradeReference..(3 * TradeReference - 1) -> 25
         [] m.trade >= 0 /\ 10 * m.trade < 4 * TradeReference -> -50
         [] OTHER -> 0)
    + Award(score >= 8000, 25)

\* round(x, 2): half of a hundredth goes up here, and either way in binary.
Rounded(exact) == Nearest(exact, 100)

\* Faulty variant: the ceiling is rounded to the hundredth instead of cut.
RoundedCeiling(presence) == Rounded(ExactCeiling(presence))

Ceiling(presence) == ExactCeiling(presence) \div 100

\* compute_take_profit_target: the bonus comes before the clamp.
FirstTarget(quality, presence) ==
  Clip(MinTarget, Ceiling(presence), Rounded(100 * (Base + quality) + Bonus(presence)))

\* compute_runner_target: 1.5 to 6 times the first target, at most 50x, and always at
\* least a quarter above it.
RunnerTarget(first, presence) ==
  LET scaled == (first * (150000 + 45 * presence) + 50000) \div 100000
      capped == Least(5000, scaled)
  IN IF capped < first + 25 THEN first + 25 ELSE capped

Ladder(c, m, e, x) ==
  LET presence == Presence(c, m, x)
      first    == FirstTarget(Quality(m, e, x, Score(c, m)), presence)
  IN [presence |-> presence, first |-> first, runner |-> RunnerTarget(first, presence)]
=============================================================================
