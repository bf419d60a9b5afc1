---------------------------- MODULE EntryPromise ----------------------------
(***************************************************************************)
(* What the paper company promises about entries, whatever fails and       *)
(* however often it is restarted: a signal is entered at most once, only   *)
(* after its intent was recorded, and never while a halt is on record.     *)
(***************************************************************************)
CONSTANT Mint

VARIABLES promise,   \* per mint: "free", "intended", "entered" or "declined"
          halted     \* whether a safety halt is on record
vars == <<promise, halted>>

Init == /\ promise = [m \in Mint |-> "free"]
        /\ halted = FALSE

Moves(m, from, to) == /\ promise[m] = from
                      /\ promise' = [promise EXCEPT ![m] = to]
                      /\ UNCHANGED halted

Intend(m)  == ~halted /\ Moves(m, "free", "intended")
Enter(m)   == ~halted /\ Moves(m, "intended", "entered")
Decline(m) == Moves(m, "intended", "declined")

Halt == /\ halted' = TRUE
        /\ UNCHANGED promise

Next == \/ Halt
        \/ \E m \in Mint : Intend(m) \/ Enter(m) \/ Decline(m)

Spec == Init /\ [][Next]_vars
=============================================================================
