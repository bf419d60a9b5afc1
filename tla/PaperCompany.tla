---------------------------- MODULE PaperCompany ----------------------------
(***************************************************************************)
(* The paper company over the paper trader: one candidate at a time is     *)
(* reviewed, the Operations Boss inspects the treasury twice, the intent   *)
(* is recorded and the trader is asked to buy.  The supervisor runs beside *)
(* it and does not take the company's lock; the Boss reads the trader's    *)
(* book without the trader's lock.                                         *)
(***************************************************************************)
EXTENDS PaperTrader

CONSTANT MaxRestarts

ASSUME CompanyAssumption == MaxRestarts \in Nat

VARIABLES attempts,    \* table attempts: "none" or the status of a signal
          halts,       \* table halts: the reasons on record
          desk,        \* the candidate under review, or NoCase
          supervised,  \* a pass has ended since the process started
          restarts
company == <<attempts, halts, desk, supervised, restarts>>
vars    == <<trader, company>>

\* Legacy positions were opened before attempts were kept.
Candidate == Mint \ LegacyMint
NoCase  == [mint |-> "none"]
Reasons == {"FAILURE", "TREASURY", "UNRESOLVED"}
Statuses == {"none", "INFLIGHT", "COMPLETED", "DECLINED"}
Cases == {NoCase} \cup
         [mint : Candidate, plan : BOOLEAN,
          step : {"review", "telling", "buying", "bought"}]

Init == /\ TraderInit
        /\ attempts = [m \in Candidate |-> "none"]
        /\ halts = {} /\ desk = NoCase
        /\ supervised = FALSE /\ restarts = 0
-----------------------------------------------------------------------------
At(step) == desk # NoCase /\ desk.step = step
Halts(reason) == halts' = halts \cup {reason}

\* Faulty variant: only a completed attempt is remembered.
ConsiderAgain(m, convincing) ==
  /\ desk = NoCase /\ attempts[m] # "COMPLETED"
  /\ desk' = [mint |-> m, plan |-> convincing /\ MayEnter(mem), step |-> "review"]
  /\ UNCHANGED <<trader, attempts, halts, supervised, restarts>>

\* A signal that was attempted is never considered again.  The plan is made
\* from the capital as it is now.
Consider(m, convincing) ==
  /\ desk = NoCase /\ attempts[m] = "none"
  /\ desk' = [mint |-> m, plan |-> convincing /\ MayEnter(mem), step |-> "review"]
  /\ UNCHANGED <<trader, attempts, halts, supervised, restarts>>

\* A worker fails or takes too long: halt, and its report is not a PASS.
WorkerFails ==
  /\ At("review")
  /\ Halts("FAILURE")
  /\ desk' = [desk EXCEPT !.plan = FALSE]
  /\ UNCHANGED <<trader, attempts, supervised, restarts>>

\* The strategist, the referee or the record of the reports fails.
HandoffFails ==
  /\ At("review")
  /\ Halts("FAILURE")
  /\ desk' = NoCase
  /\ UNCHANGED <<trader, attempts, supervised, restarts>>

\* Of the boss' verdict: supervision and market are fresh, nothing is halted,
\* the book reconciles; a book that does not is halted on the spot.
Inspects(fresh) ==
  /\ fresh => supervised
  /\ halts' = IF Reconciles(mem) THEN halts ELSE halts \cup {"TREASURY"}
\* Faulty variant: the halts on record are not asked for.
PassesHalted(fresh) == fresh /\ Reconciles(mem)
Passes(fresh) == fresh /\ halts = {} /\ Reconciles(mem)

Review(fresh) ==
  /\ At("review")
  /\ Inspects(fresh)
  /\ desk' = [desk EXCEPT !.plan = @ /\ Passes(fresh), !.step = "telling"]
  /\ UNCHANGED <<trader, attempts, supervised, restarts>>

\* The plan was published; the boss looks again, then the intent is recorded.
Intend(fresh) ==
  /\ At("telling") /\ desk.plan /\ Passes(fresh)
  /\ Inspects(fresh)
  /\ attempts' = [attempts EXCEPT ![desk.mint] = "INFLIGHT"]
  /\ desk' = [desk EXCEPT !.step = "buying"]
  /\ UNCHANGED <<trader, supervised, restarts>>

Block(fresh) ==
  /\ At("telling") /\ ~(desk.plan /\ Passes(fresh))
  /\ Inspects(fresh)
  /\ desk' = NoCase
  /\ UNCHANGED <<trader, attempts, supervised, restarts>>

Settle(status) ==
  /\ attempts' = [attempts EXCEPT ![desk.mint] = status]
  /\ desk' = NoCase
  /\ UNCHANGED <<halts, supervised, restarts>>

AsksToBuy == At("buying") /\ GetsLock /\ UNCHANGED company

Declines == At("buying") /\ BuyRefused /\ Settle("DECLINED")

Enters == /\ At("buying") /\ BuyCommits(desk.mint)
          /\ desk' = [desk EXCEPT !.step = "bought"]
          /\ UNCHANGED <<attempts, halts, supervised, restarts>>

\* The attempt stays INFLIGHT.
EntryFails == /\ At("buying") /\ BuyFails
              /\ Halts("FAILURE")
              /\ desk' = NoCase
              /\ UNCHANGED <<attempts, supervised, restarts>>

Completes == At("bought") /\ BuyReturns /\ Settle("COMPLETED")
-----------------------------------------------------------------------------
\* A pass that ends, or finds nothing held, is supervision.
Supervises ==
  /\ \/ EndPass
     \/ /\ lock = "free" /\ Held(mem) = {}
        /\ UNCHANGED trader
  /\ supervised' = TRUE
  /\ UNCHANGED <<attempts, halts, desk, restarts>>

\* A restart finds the halts and turns an unresolved attempt into one.
Restart ==
  /\ restarts < MaxRestarts
  /\ restarts' = restarts + 1
  /\ TraderRestart
  /\ halts' = IF \E m \in Candidate : attempts[m] = "INFLIGHT"
              THEN halts \cup {"UNRESOLVED"} ELSE halts
  /\ desk' = NoCase /\ supervised' = FALSE
  /\ UNCHANGED attempts

CompanyStep ==
  \/ \E m \in Candidate, convincing \in BOOLEAN : Consider(m, convincing)
  \/ \E fresh \in BOOLEAN : Review(fresh) \/ Intend(fresh) \/ Block(fresh)
  \/ WorkerFails \/ HandoffFails
  \/ AsksToBuy \/ Declines \/ Enters \/ EntryFails \/ Completes

Next == \/ (PassStep \/ NextDay) /\ UNCHANGED company
        \/ CompanyStep \/ Supervises \/ Restart

Spec == Init /\ [][Next]_vars
-----------------------------------------------------------------------------
\* The supervisor's loop, a task of its own, runs on.  Quotes keep coming, also
\* after the holding time, but none need ever reach the stop or the target.
Lukewarm == {gain \in Gain : -Stop < gain /\ gain < Target}
Fairness ==
  /\ WF_vars(StartPass /\ UNCHANGED company)
  /\ WF_vars((CloseCommits \/ TakeCommits \/ SaveCommits) /\ UNCHANGED company)
  /\ WF_vars(Supervises) /\ WF_vars(AsksToBuy) /\ WF_vars(Completes)
  /\ WF_vars(Declines)
  /\ \A m \in Mint : WF_vars(Holds(m) /\ UNCHANGED company)
  /\ \A m \in Candidate :
       SF_vars((\E gain \in Lukewarm : MicroExit(m, gain, TRUE)) /\ UNCHANGED company)
LiveSpec == Spec /\ Fairness
-----------------------------------------------------------------------------
(* Properties                                                              *)

\* Every variable has its type; the parts of a pass exist only while there is
\* one, and the lock of a buy is held for the case in hand.
TypeOK ==
  /\ mem \in Book /\ conn \in Book /\ disk \in Book
  /\ lock \in {"free", "check", "buy"}
  /\ todo \subseteq Mint /\ gone \subseteq Mint /\ sale \in Sales
  /\ tick \in Nat /\ day \in Nat /\ faults \in Nat /\ restarts \in Nat
  /\ attempts \in [Candidate -> Statuses] /\ halts \subseteq Reasons
  /\ desk \in Cases /\ supervised \in BOOLEAN
  /\ lock # "check" => todo = {} /\ gone = {} /\ sale = NoSale
  /\ lock = "buy" => At("buying") \/ At("bought")
  /\ At("bought") => lock = "buy"

\* What the entry promise rests on: a position of this company has an attempt
\* that was recorded first, the attempt in hand has no position yet and
\* nothing is halted while it waits, and a signal is never attempted twice.
EntryInv ==
  /\ \A m \in Candidate :
       m \in mem.rows \cup conn.rows \cup disk.rows
         => attempts[m] \in {"INFLIGHT", "COMPLETED"}
  /\ mem.rows = disk.rows /\ conn.rows = disk.rows
  /\ At("buying") => /\ attempts[desk.mint] = "INFLIGHT"
                     /\ desk.mint \notin disk.rows
                     /\ halts = {}
  /\ At("bought") => attempts[desk.mint] = "INFLIGHT" /\ desk.mint \in disk.rows
  /\ At("review") \/ At("telling") => attempts[desk.mint] = "none"

\* The company implements its promise: one entry per signal, after its intent
\* and never under a halt, across restarts (company.py:221, 253).
Promised(m) == CASE attempts[m] = "none"     -> "free"
                 [] attempts[m] = "DECLINED" -> "declined"
                 [] m \in disk.rows          -> "entered"
                 [] OTHER                    -> "intended"
Promise == INSTANCE EntryPromise
             WITH Mint <- Candidate, halted <- halts # {},
                  promise <- [m \in Candidate |-> Promised(m)]
KeepsEntryPromise == Promise!Spec

\* No position is opened on a treasury that does not reconcile: what a failed
\* write or a death between the two commits of a partial exit has left behind is
\* seen before money is committed again (company.py:163).  One position of an
\* earlier build at most: the errors of two can cancel in the sum.
SameMoney(a, b) == a.open = b.open /\ a.balance = b.balance
EntryOnSoundBooks ==
  [][\A m \in Mint : m \in disk'.rows \ disk.rows
       => Reconciles(disk) /\ Reconciles(disk') /\ SameMoney(mem', disk')]_vars

\* As long as no write failed, and no death fell between the two commits of a
\* partial exit, the three copies of the book agree whenever no pass runs and
\* the book reconciles (paper_trader.py:1696, 1774).
LegacyLeft == disk.rows \cap LegacyMint
QuietBooks ==
  faults = 0 /\ lock # "check" /\ (restarts = 0 \/ LegacyLeft = {})
    => SameMoney(mem, disk) /\ conn = disk /\ Reconciles(disk)

\* Without a legacy position the result of a day falls below the limit by less
\* than one position, restarts included: the breaker reads the exits of the day
\* back from the table (paper_trader.py:1043, 977).
DayLossBounded ==
  LegacyLeft = {} => DayResult(disk) > -(DailyLoss + Size + Cost)

\* A micro position is sold in the end, whatever fails, whether or not the
\* company is halted: once its holding time is over, a quote at any price sells
\* it (paper_trader.py:1278).  Of a position of an earlier build nothing
\* is said: without a price event it may keep the slot (paper_trader.py:650).
SlotFreed == \A m \in Candidate : mem.open[m] # "none" ~> mem.open[m] = "none"

\* A halt for the treasury means that the books are really broken
\* (docs/early_discovery_company.md:72).
HaltForCause ==
  [][("TREASURY" \in halts' \ halts) => ~Reconciles(disk)]_vars
=============================================================================
