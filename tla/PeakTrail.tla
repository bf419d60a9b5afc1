----------------------------- MODULE PeakTrail -----------------------------
(***************************************************************************)
(* The rules by which PaperTrader ends a position that an earlier build    *)
(* opened: the velocity of a pass, the width it earns, the trail below the *)
(* peak before and after the sale of 80 %, the runner target that follows  *)
(* a move, and what a corrupt target is read as.  LegacyExit of            *)
(* PaperTrader leaves the verdict of these rules open.                     *)
(*                                                                         *)
(* Prices are natural numbers in any unit, 0 when missing; velocities and  *)
(* multiples are hundredths.  Widths and the price of the trail are exact: *)
(* halves of a percent, and 1/200 of the unit of the prices.               *)
(***************************************************************************)
EXTENDS Quantity

(* RunnerTrailConfig and PreTp1TrailConfig, widths in halves of a percent *)

Bands == [strong_velocity |-> 1500, climbing_velocity |-> 500, flat_velocity |-> 0,
          celebrity_widen |-> 20]

RunnerTrail ==
  [strong |-> 120, climbing |-> 90, flat |-> 60, falling |-> 40, max_width |-> 150]

PreTp1Trail ==
  [strong |-> 140, climbing |-> 120, flat |-> 100, falling |-> 80, max_width |-> 160]

ArmMultiple == 200        \* PRE_TP1_TRAIL_ARM_MULTIPLE
StallVelocity == 0        \* RUNNER_TRAIL_STALL_VELOCITY_PCT
TargetMax == 5000         \* RUNNER_TARGET_MAX
DefaultTarget == 200      \* DEFAULT_TAKE_PROFIT_TARGET

\* current_velocity_pct: the hour stands in for five quiet minutes.  A window that is
\* missing or cannot be read is 0.
Velocity(change_5m, change_1h) == IF change_5m # 0 THEN change_5m ELSE change_1h

WidthForVelocity(config, velocity) ==
  CASE velocity >= Bands.strong_velocity -> config.strong
    [] Bands.climbing_velocity <= velocity /\ velocity < Bands.strong_velocity
         -> config.climbing
    [] Bands.flat_velocity <= velocity /\ velocity < Bands.climbing_velocity
         -> config.flat
    [] velocity < Bands.flat_velocity -> config.falling

Width(config, velocity, celebrity) ==
  Least(WidthForVelocity(config, velocity) + (IF celebrity THEN Bands.celebrity_widen ELSE 0),
        config.max_width)
-----------------------------------------------------------------------------
(* Trails.  pos.original is the first fill, pos.peak the best quote so far. *)

\* _update_peak: the peak is raised before anything is judged.
Peaked(pos, price) == [pos EXCEPT !.peak = Greatest(@, price)]

\* The peak has reached a multiple of the first fill.
Reaches(pos, multiple) == pos.original > 0 /\ 100 * pos.peak >= pos.original * multiple

\* Never below the first fill once the peak was above it.
TrailPrice(pos, width) ==
  LET below_peak == pos.peak * (200 - width)
      entry      == 200 * pos.original
  IN IF pos.original > 0 /\ pos.peak > pos.original /\ below_peak < entry
     THEN entry ELSE below_peak

\* evaluate_pre_tp1_trail: inert until the peak has doubled.
PreTp1Sells(pos, price, velocity) ==
  LET p == Peaked(pos, price)
  IN /\ Reaches(p, ArmMultiple)
     /\ 200 * price <= TrailPrice(p, Width(PreTp1Trail, velocity, pos.celebrity))

\* evaluate_runner_trail: at the runner target a stalled move is sold, and any other
\* gets half the width.
RunnerSells(pos, price, velocity) ==
  LET p     == Peaked(pos, price)
      width == Width(RunnerTrail, velocity, pos.celebrity)
      armed == pos.runner_target > 0 /\ Reaches(p, pos.runner_target)
  IN \/ armed /\ velocity <= StallVelocity
     \/ 200 * price <= TrailPrice(p, IF armed THEN width \div 2 ELSE width)
-----------------------------------------------------------------------------
(* Targets, multiples in hundredths; half a hundredth is cut *)

\* _coerce_take_profit_target and _take_profit_trigger_pct, of a stored value that may
\* be missing or not a number (Unknown).
TakeProfitTarget(stored) == IF stored <= 0 THEN DefaultTarget ELSE stored
TriggerGain(stored)      == IF stored <= 100 THEN DefaultTarget - 100 ELSE stored - 100

\* _coerce_runner_target: above the first stage, whatever is stored.
RunnerTarget(stored, first) ==
  IF stored = Unknown \/ stored <= first THEN (150 * first) \div 100 ELSE stored

\* adapt_runner_target: a move that is still strong at its target gets a further one.
AdaptedTarget(stored, multiple, velocity) ==
  IF multiple < stored \/ velocity < Bands.strong_velocity THEN stored
  ELSE Greatest(stored, Least(TargetMax, (150 * multiple) \div 100))
-----------------------------------------------------------------------------
(* What the comments of paper_trader.py say of these rules *)

\* "once the peak cleared entry the position cannot" be held below it: the floor of
\* both trails.  What is left after the sale of 80 % is sold at the first quote at or
\* below the first fill, as LegacyExit of PaperTrader has it.
HeldAboveEntry(pos, price, velocity) ==
  LET p == Peaked(pos, price)
  IN pos.original > 0 =>
       /\ p.peak > pos.original /\ ~RunnerSells(pos, price, velocity) => price > pos.original
       /\ Reaches(p, ArmMultiple) /\ ~PreTp1Sells(pos, price, velocity) => price > pos.original

\* "Its widths are wider than the runner trail's at every velocity band": whatever the
\* trail before the target sells, the trail after it would have sold.
PreTp1TrailIsWider(pos, price, velocity) ==
  PreTp1Sells(pos, price, velocity) => RunnerSells(pos, price, velocity)

\* A position that is sold would be sold at any lower velocity, and at any lower
\* target: "Monotone upward, so this can only ever loosen management."
SlowerSellsToo(pos, price, slow, fast) ==
  slow <= fast /\ RunnerSells(pos, price, fast) => RunnerSells(pos, price, slow)

RaisedTargetLoosens(pos, price, velocity, target) ==
  LET raised == [pos EXCEPT !.runner_target = target]
  IN 0 < pos.runner_target /\ pos.runner_target <= target /\ RunnerSells(raised, price, velocity)
       => RunnerSells(pos, price, velocity)

\* The runner target is never lowered, is raised only by a quote that had reached it,
\* and then lies beyond that quote unless it is at its cap.
TargetOnlyRises(stored, multiple, velocity) ==
  LET adapted == AdaptedTarget(stored, multiple, velocity)
  IN /\ adapted >= stored
     /\ adapted # stored => /\ multiple >= stored
                            /\ adapted <= TargetMax
                            /\ adapted > multiple \/ adapted = TargetMax

\* No stored value disables the take profit or puts both stages at one price.
StagesApart(stored, runner) ==
  /\ TriggerGain(stored) > 0
  /\ TakeProfitTarget(stored) > 1
       => RunnerTarget(runner, TakeProfitTarget(stored)) > TakeProfitTarget(stored)
=============================================================================
