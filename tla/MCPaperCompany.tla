--------------------------- MODULE MCPaperCompany ---------------------------
EXTENDS PaperCompany, TLC

CONSTANTS old, m1, m2, m3

\* A collapse, and a gain between the stop and the target of a micro position
\* at which a legacy position takes its profit.
Quotes == {-10, 4}
Half == -5
All  == -10
Symmetry == Permutations(Candidate)
-----------------------------------------------------------------------------
(* The exit rules of a legacy position, at the edges of their bands.  LegacyExit  *)
(* takes their verdict as a choice; PaperCompany_proofs has these for every value.   *)

Trail == INSTANCE PeakTrail

Positions == [peak : {0, 9, 10, 11, 20, 41}, original : {0, 10}, celebrity : BOOLEAN,
              runner_target : {0, 150, 300, 450}]
Velocities == {-100, 0, 499, 500, 1499, 1500}

ASSUME RulesOfTheTrail ==
  \A pos \in Positions, price \in 1..40, fast \in Velocities :
    /\ Trail!HeldAboveEntry(pos, price, fast)
    /\ Trail!PreTp1TrailIsWider(pos, price, fast)
    /\ \A slow \in Velocities : Trail!SlowerSellsToo(pos, price, slow, fast)
    /\ \A target \in {150, 300, 600} : Trail!RaisedTargetLoosens(pos, price, fast, target)

ASSUME RulesOfTheTargets ==
  /\ \A stored \in {0, 150, 300, 5000, 6000}, multiple \in {2, 149, 150, 3334, 6000},
        velocity \in Velocities : Trail!TargetOnlyRises(stored, multiple, velocity)
  /\ \A stored \in {-1, 0, 2, 100, 101, 150, 5000}, runner \in {-1, 0, 100, 150, 151, 5000} :
        Trail!StagesApart(stored, runner)
=============================================================================
