---------------------------- MODULE AlertPromise ----------------------------
(***************************************************************************)
(* What the signal company promises the operator about one mint: at most   *)
(* one WATCH message, at most one BUY message, and no WATCH once a BUY has *)
(* gone out.  Nothing is said here of claims, processes, retries or the    *)
(* network; SignalDelivery implements this specification.                  *)
(***************************************************************************)
EXTENDS Sequences

CONSTANT Mint

VARIABLE delivered  \* delivered[m]: the kinds Telegram accepted for m, in order

Kind == {"WATCH", "BUY"}

\* Every history of one mint that keeps the promise.
Kept == {<<>>, <<"WATCH">>, <<"BUY">>, <<"WATCH", "BUY">>}

Init == delivered \in [Mint -> Kept]

\* An operator hears of m for the first time, or hears that a WATCH became a BUY.
Tell(m, k) ==
  /\ \/ delivered[m] = <<>>
     \/ delivered[m] = <<"WATCH">> /\ k = "BUY"
  /\ delivered' = [delivered EXCEPT ![m] = Append(@, k)]

Next == \E m \in Mint, k \in Kind : Tell(m, k)

Spec == Init /\ [][Next]_delivered
=============================================================================
