---------------------------- MODULE PaperTrader ----------------------------
(***************************************************************************)
(* The paper trader: one virtual treasury and its positions, kept in       *)
(* memory and in two tables of a database.                                 *)
(*                                                                         *)
(* The same book exists three times.  `mem' is what the process computes   *)
(* with, `conn' is what its connection sees, statements that no commit has *)
(* covered yet included, and `disk' is what a restart finds.  A buy and a  *)
(* pass over the positions exclude each other by one lock; whoever reads   *)
(* the book without the lock sees `mem' in any state in between.           *)
(*                                                                         *)
(* A statement or a commit may fail.  What a failed exit leaves on the     *)
(* connection stays there until some later statement commits it.           *)
(***************************************************************************)
EXTENDS Integers, FiniteSets, Quantity

CONSTANTS Mint,             \* tokens
          LegacyMint,       \* those whose position an earlier build opened
          StartingBalance, Size, Cost, Reserve,
          DailyLoss, LossStreak,
          Gain,             \* gross gains of a whole position at a quote
          Stop, Target,     \* exit thresholds of a micro position
          LegacyTarget, StopLoss, HardStop,
          MaxDay, MaxFaults

ASSUME TraderAssumption ==
  /\ IsFiniteSet(Mint) /\ LegacyMint \subseteq Mint
  /\ {StartingBalance, Reserve, Stop, Target, LegacyTarget, StopLoss, HardStop}
       \subseteq Int
  /\ DailyLoss \in Nat \ {0}
  /\ Size \in Nat \ {0} /\ Cost \in Nat /\ LossStreak \in Nat
  /\ Gain \subseteq Int /\ \A gain \in Gain : gain >= -Size
  /\ MaxDay \in Nat /\ MaxFaults \in Nat

VARIABLES mem, conn, disk,  \* the book, as described above
          lock,             \* _state_lock: "free", "check" or "buy"
          todo,             \* positions the pass has still to look at
          gone,             \* positions_to_remove of the pass
          sale,             \* the exit under way, or NoSale
          tick, day,        \* number of the next exit; the UTC day
          faults            \* statements that failed so far
books  == <<mem, conn, disk>>
pass   == <<lock, todo, gone, sale>>
trader == <<mem, conn, disk, lock, todo, gone, sale, tick, day, faults>>

NoSale == [mint |-> "none"]
Stages == {"none", "whole", "rest"}
Trades == [mint : Mint, partial : BOOLEAN, pnl : Int, day : Nat, at : Nat]
\* rows: mints a row of paper_positions exists for.  open: what is held.
\* checked: positions whose recovery was checked.  trades: exits on record.
Book == [rows : SUBSET Mint, open : [Mint -> Stages], checked : SUBSET Mint,
         balance : Int, trades : SUBSET Trades]
Sales == {NoSale} \cup
         [mint : Mint, gain : Gain, step : {"close", "take", "save"}]
-----------------------------------------------------------------------------
Sold == (4 * Size) \div 5                \* TAKE_PROFIT_SELL_FRACTION
Amount(stage) == CASE stage = "whole" -> Size
                   [] stage = "rest"  -> Size - Sold
                   [] OTHER           -> 0
Gross(amount, gain) == (amount * gain) \div Size
CostOf(m) == IF m \in LegacyMint THEN 0 ELSE Cost

Held(book) == {m \in Mint : book.open[m] # "none"}
PnlOf(trades)  == SumOf([t \in trades |-> t.pnl], trades)
Exposure(book) == SumOf([m \in Mint |-> Amount(book.open[m])], Mint)
Realised(book) == PnlOf(book.trades)

\* The accounting identity that the Operations Boss recomputes.
Reconciles(book) ==
  book.balance = StartingBalance + Realised(book) - Exposure(book)

\* capital_state: the result of the day and the losses since the last gain.
DayResult(book) == PnlOf({t \in book.trades : t.day = day})
Losses(book) ==
  Cardinality({t \in book.trades :
                 \A u \in book.trades : u.at >= t.at => u.pnl < 0})

\* Faulty variant: the loss of the day is not looked at.
MayEnterByStreak(book) ==
  /\ Held(book) = {}
  /\ book.balance - Size - Cost >= Reserve
  /\ Losses(book) < LossStreak

\* What the plan and, independently, the buy require of the capital.
MayEnter(book) ==
  /\ Held(book) = {}
  /\ book.balance - Size - Cost >= Reserve
  /\ DayResult(book) > -DailyLoss
  /\ Losses(book) < LossStreak

\* The book with one exit on record; a row of `m' written before is replaced.
Trade(m, partial, pnl) ==
  [mint |-> m, partial |-> partial, pnl |-> pnl, day |-> day, at |-> tick]
Recorded(book, trade) ==
  [book EXCEPT !.trades =
     {t \in @ : t.mint # trade.mint \/ t.partial # trade.partial} \cup {trade}]
Closed(book, m, pnl) ==
  Recorded([book EXCEPT !.open[m] = "none"], Trade(m, FALSE, pnl))
PartlySold(book, m, pnl) ==
  Recorded([book EXCEPT !.open[m] = "rest"], Trade(m, TRUE, pnl))
Entered(book, m) ==
  [book EXCEPT !.rows = @ \cup {m}, !.open[m] = "whole"]
WithBalance(book, amount) == [book EXCEPT !.balance = amount]
-----------------------------------------------------------------------------
\* What an earlier build can have left: some positions, still whole.
TraderInit ==
  \E held \in SUBSET LegacyMint :
    /\ disk = [rows    |-> held,
               open    |-> [m \in Mint |-> IF m \in held THEN "whole" ELSE "none"],
               checked |-> {},
               balance |-> StartingBalance - Size * Cardinality(held),
               trades  |-> {}]
    /\ mem = disk /\ conn = disk
    /\ lock = "free"
    /\ todo = {} /\ gone = {} /\ sale = NoSale
    /\ tick = 0 /\ day = 0 /\ faults = 0

Fails == faults < MaxFaults /\ faults' = faults + 1
-----------------------------------------------------------------------------
(* A pass over the positions: check_positions.                             *)

StartPass == /\ lock = "free"
             /\ Held(mem) # {}
             /\ lock' = "check" /\ todo' = Held(mem)
             /\ UNCHANGED <<books, gone, sale, tick, day, faults>>

\* The quote, the peak and the trail of a position: a commit, which covers
\* whatever a failed exit has left on the connection.
WritesTrail == /\ lock = "check" /\ todo # {} /\ sale = NoSale
               /\ disk' = conn
               /\ UNCHANGED <<mem, conn, pass, tick, day, faults>>

\* No quote, a failed write of the trail, or no rule that applies.
Holds(m) == /\ m \in todo /\ sale = NoSale
            /\ todo' = todo \ {m}
            /\ UNCHANGED <<books, lock, gone, sale, tick, day, faults>>

Sells(m, gain, step) ==
  /\ m \in todo /\ sale = NoSale
  /\ sale' = [mint |-> m, gain |-> gain, step |-> step]
  /\ UNCHANGED <<lock, todo, gone, tick, day, faults>>

\* Faulty variant: no time stop.
MicroExitOnPrice(m, gain, forced) ==
  /\ m \notin LegacyMint
  /\ gain <= -Stop \/ gain >= Target
  /\ Sells(m, gain, "close")
  /\ UNCHANGED books

\* A micro position leaves whole: setup invalidated, stop, target, time.
MicroExit(m, gain, forced) ==
  /\ m \notin LegacyMint
  /\ gain <= -Stop \/ gain >= Target \/ forced
  /\ Sells(m, gain, "close")
  /\ UNCHANGED books

\* A legacy position sells 80% at its target; memory is changed at once.
TakeProfit(m, gain) ==
  /\ m \in LegacyMint /\ mem.open[m] = "whole" /\ gain >= LegacyTarget
  /\ Sells(m, gain, "take")
  /\ mem' = WithBalance([mem EXCEPT !.open[m] = "rest"],
                        mem.balance + Sold + Gross(Sold, gain))
  /\ UNCHANGED <<conn, disk>>

\* The trails and the hard stop.  The runner trail is floored at the entry.
LegacyExit(m, gain, trailed) ==
  /\ m \in LegacyMint
  /\ \/ mem.open[m] = "rest" /\ (trailed \/ gain <= 0)
     \/ /\ mem.open[m] = "whole" /\ gain < LegacyTarget
        /\ trailed \/ (m \in mem.checked /\ gain <= HardStop)
  /\ Sells(m, gain, "close")
  /\ UNCHANGED books

\* The recovery check at the stop loss, once per position: its mark is
\* written before the verdict is acted on.
MayCheck(m, gain) ==
  /\ m \in LegacyMint \cap todo /\ sale = NoSale
  /\ mem.open[m] = "whole" /\ m \notin mem.checked /\ gain <= StopLoss
  /\ mem' = [mem EXCEPT !.checked = @ \cup {m}]

RecoverySells(m, gain) ==
  /\ MayCheck(m, gain)
  /\ conn' = [conn EXCEPT !.checked = @ \cup {m}] /\ disk' = conn'
  /\ Sells(m, gain, "close")

RecoveryHolds(m, gain) ==
  /\ MayCheck(m, gain)
  /\ conn' = [conn EXCEPT !.checked = @ \cup {m}] /\ disk' = conn'
  /\ todo' = todo \ {m}
  /\ UNCHANGED <<lock, gone, sale, tick, day, faults>>

RecoveryFails(m, gain) ==
  /\ MayCheck(m, gain)
  /\ Fails
  /\ conn' \in {conn, [conn EXCEPT !.checked = @ \cup {m}]}
  /\ todo' = todo \ {m}
  /\ UNCHANGED <<disk, lock, gone, sale, tick, day>>
-----------------------------------------------------------------------------
(* The writes of an exit.                                                  *)

Result == Gross(Amount(mem.open[sale.mint]), sale.gain) - CostOf(sale.mint)
\* Faulty variant: the costs are recorded with the exit and not paid.
GrossProceeds ==
  mem.balance + Amount(mem.open[sale.mint])
    + Gross(Amount(mem.open[sale.mint]), sale.gain)
Proceeds == mem.balance + Amount(mem.open[sale.mint]) + Result

SaleEnds == /\ todo' = todo \ {sale.mint}
            /\ sale' = NoSale
            /\ UNCHANGED <<lock, day>>

\* _close_position: the row and the balance in one transaction, then memory.
\* The position itself stays in memory until the pass is over.
CloseCommits ==
  /\ sale # NoSale /\ sale.step = "close"
  /\ conn' = WithBalance(Closed(conn, sale.mint, Result), Proceeds)
  /\ disk' = conn'
  /\ mem' = Recorded(WithBalance(mem, Proceeds), Trade(sale.mint, FALSE, Result))
  /\ gone' = gone \cup {sale.mint}
  /\ tick' = tick + 1
  /\ SaleEnds
  /\ UNCHANGED faults

\* The UPDATE of the row, that of the balance, or the commit fails; the pass
\* swallows the exception and nothing is rolled back.
CloseFails ==
  /\ sale # NoSale /\ sale.step = "close"
  /\ Fails
  /\ conn' \in {conn, Closed(conn, sale.mint, Result),
                WithBalance(Closed(conn, sale.mint, Result), Proceeds)}
  /\ tick' = tick + 1
  /\ SaleEnds
  /\ UNCHANGED <<mem, disk, gone>>

PartResult == Gross(Sold, sale.gain)

\* _take_profit, first transaction: the row and the record of the part sold.
TakeCommits ==
  /\ sale # NoSale /\ sale.step = "take"
  /\ conn' = PartlySold(conn, sale.mint, PartResult)
  /\ disk' = conn'
  /\ sale' = [sale EXCEPT !.step = "save"]
  /\ UNCHANGED <<mem, lock, todo, gone, tick, day, faults>>

TakeFails ==
  /\ sale # NoSale /\ sale.step = "take"
  /\ Fails
  /\ conn' \in {conn, [conn EXCEPT !.open[sale.mint] = "rest"],
                PartlySold(conn, sale.mint, PartResult)}
  /\ tick' = tick + 1
  /\ SaleEnds
  /\ UNCHANGED <<mem, disk, gone>>

\* _save_balance, second transaction; only then memory lists the part sold.
SaveCommits ==
  /\ sale # NoSale /\ sale.step = "save"
  /\ conn' = WithBalance(conn, mem.balance)
  /\ disk' = conn'
  /\ mem' = Recorded(mem, Trade(sale.mint, TRUE, PartResult))
  /\ tick' = tick + 1
  /\ SaleEnds
  /\ UNCHANGED <<gone, faults>>

SaveFails ==
  /\ sale # NoSale /\ sale.step = "save"
  /\ Fails
  /\ conn' \in {conn, WithBalance(conn, mem.balance)}
  /\ tick' = tick + 1
  /\ SaleEnds
  /\ UNCHANGED <<mem, disk, gone>>

\* The pass is over: what was closed leaves memory and the lock is released.
EndPass ==
  /\ lock = "check" /\ todo = {} /\ sale = NoSale
  /\ mem' = [mem EXCEPT !.open =
               [m \in Mint |-> IF m \in gone THEN "none" ELSE @[m]]]
  /\ gone' = {} /\ lock' = "free"
  /\ UNCHANGED <<conn, disk, todo, sale, tick, day, faults>>

PassStep ==
  \/ StartPass \/ WritesTrail
  \/ CloseCommits \/ CloseFails \/ TakeCommits \/ TakeFails
  \/ SaveCommits \/ SaveFails
  \/ \E m \in Mint :
       \/ Holds(m)
       \/ \E gain \in Gain :
            \/ \E choice \in BOOLEAN : MicroExit(m, gain, choice)
                                       \/ LegacyExit(m, gain, choice)
            \/ TakeProfit(m, gain) \/ RecoverySells(m, gain)
            \/ RecoveryHolds(m, gain) \/ RecoveryFails(m, gain)
-----------------------------------------------------------------------------
(* A buy: the lock, the checks, one transaction, the notification.         *)

GetsLock == /\ lock = "free" /\ lock' = "buy"
            /\ UNCHANGED <<books, todo, gone, sale, tick, day, faults>>

Unlocks == lock' = "free" /\ UNCHANGED <<todo, gone, sale, tick, day>>

\* The capital, the economics of the rounded ticket or the price is refused.
BuyRefused == /\ lock = "buy"
              /\ Unlocks
              /\ UNCHANGED <<books, faults>>

\* Faulty variant: the position is committed, the balance is left to a later save.
BuyCommitsRow(m) ==
  /\ lock = "buy" /\ MayEnter(mem)
  /\ conn' = Entered(conn, m)
  /\ disk' = conn'
  /\ mem' = WithBalance(Entered(mem, m), mem.balance - Size)
  /\ UNCHANGED <<pass, tick, day, faults>>

BuyCommits(m) ==
  /\ lock = "buy" /\ MayEnter(mem)
  /\ conn' = WithBalance(Entered(conn, m), mem.balance - Size)
  /\ disk' = conn'
  /\ mem' = WithBalance(Entered(mem, m), mem.balance - Size)
  /\ UNCHANGED <<pass, tick, day, faults>>

\* Any exception rolls the connection back and is raised to the caller.
BuyFails == /\ lock = "buy" /\ MayEnter(mem)
            /\ Fails
            /\ conn' = disk
            /\ Unlocks
            /\ UNCHANGED <<mem, disk>>

BuyReturns == Unlocks /\ UNCHANGED <<books, faults>>
-----------------------------------------------------------------------------
NextDay == /\ day < MaxDay
           /\ day' = day + 1
           /\ UNCHANGED <<books, pass, tick, faults>>

\* The process dies and initialize loads what was committed.
TraderRestart ==
  /\ mem' = disk /\ conn' = disk
  /\ lock' = "free"
  /\ todo' = {} /\ gone' = {} /\ sale' = NoSale
  /\ UNCHANGED <<disk, tick, day, faults>>
=============================================================================
