------------------------ MODULE PaperCompany_proofs ------------------------
(***************************************************************************)
(* Proofs about the paper company, for every set of tokens and every value *)
(* of the limits: types, the invariant behind the entry promise, and the   *)
(* promise itself; what the rules of PeakTrail, by which the trader ends a *)
(* legacy position, promise for every price, peak and velocity; what the   *)
(* one slot of the company keeps of the three books whatever fails, and    *)
(* with it sound entries and the loss of a day; and that the books agree   *)
(* as long as nothing failed.                                              *)
(***************************************************************************)
EXTENDS PaperCompany, PeakTrail, Quantity_proofs

CaseUnderWay == [mint : Candidate, plan : BOOLEAN,
                 step : {"review", "telling", "buying", "bought"}]
SaleUnderWay == [mint : Mint, gain : Gain, step : {"close", "take", "save"}]
-----------------------------------------------------------------------------
(* The operators on books.                                                 *)

\* The amounts of a position and of an exit are integers.
LEMMA Amounts ==
  ASSUME NEW stage, NEW amount \in Int, NEW gain \in Int
  PROVE  /\ Sold \in Int /\ Amount(stage) \in Int
         /\ Gross(amount, gain) \in Int
<1>1. Size \in Nat \ {0}
  BY TraderAssumption
<1>2. Sold \in Int
  BY <1>1 DEF Sold
<1>3. Amount(stage) \in Int
  BY <1>1, <1>2 DEF Amount
<1>4. Gross(amount, gain) \in Int
  <2>1. amount * gain \in Int
    OBVIOUS
  <2> QED
    BY <1>1, <2>1 DEF Gross
<1> QED
  BY <1>2, <1>3, <1>4

\* An exit on record keeps the type of a book and the rows it has.
LEMMA RecordedOK ==
  ASSUME NEW book \in Book, NEW m \in Mint, NEW partial \in BOOLEAN,
         NEW pnl \in Int, day \in Nat, tick \in Nat
  PROVE  /\ Recorded(book, Trade(m, partial, pnl)) \in Book
         /\ Recorded(book, Trade(m, partial, pnl)).rows = book.rows
<1>1. Trade(m, partial, pnl) \in Trades
  BY DEF Trade, Trades
<1> QED
  BY <1>1 DEF Recorded, Book

\* So does every other change of a book that is not an entry.
LEMMA StagedOK ==
  ASSUME NEW book \in Book, NEW m \in Mint, NEW stage \in Stages
  PROVE  /\ [book EXCEPT !.open[m] = stage] \in Book
         /\ [book EXCEPT !.open[m] = stage].rows = book.rows
BY DEF Book

\* A book stays one when its balance changes.
LEMMA BalanceOK ==
  ASSUME NEW book \in Book, NEW amount \in Int
  PROVE  /\ WithBalance(book, amount) \in Book
         /\ WithBalance(book, amount).rows = book.rows
BY DEF WithBalance, Book

\* A book stays one when a position is checked.
LEMMA CheckedOK ==
  ASSUME NEW book \in Book, NEW m \in Mint
  PROVE  /\ [book EXCEPT !.checked = @ \cup {m}] \in Book
         /\ [book EXCEPT !.checked = @ \cup {m}].rows = book.rows
BY DEF Book

\* A book stays one when a position is closed or sold in part.
LEMMA ClosedOK ==
  ASSUME NEW book \in Book, NEW m \in Mint, NEW pnl \in Int,
         day \in Nat, tick \in Nat
  PROVE  /\ Closed(book, m, pnl) \in Book /\ Closed(book, m, pnl).rows = book.rows
         /\ PartlySold(book, m, pnl) \in Book
         /\ PartlySold(book, m, pnl).rows = book.rows
<1>1. "none" \in Stages /\ "rest" \in Stages
  BY DEF Stages
<1> DEFINE away   == [book EXCEPT !.open[m] = "none"]
           reduced == [book EXCEPT !.open[m] = "rest"]
<1>2. away \in Book /\ away.rows = book.rows
  BY <1>1, StagedOK
<1>3. reduced \in Book /\ reduced.rows = book.rows
  BY <1>1, StagedOK
<1>4. Closed(book, m, pnl) = Recorded(away, Trade(m, FALSE, pnl))
  BY DEF Closed
<1>5. PartlySold(book, m, pnl) = Recorded(reduced, Trade(m, TRUE, pnl))
  BY DEF PartlySold
<1> HIDE DEF away, reduced
<1>6. /\ Recorded(away, Trade(m, FALSE, pnl)) \in Book
      /\ Recorded(away, Trade(m, FALSE, pnl)).rows = away.rows
  BY <1>2, RecordedOK
<1>7. /\ Recorded(reduced, Trade(m, TRUE, pnl)) \in Book
      /\ Recorded(reduced, Trade(m, TRUE, pnl)).rows = reduced.rows
  BY <1>3, RecordedOK
<1> QED
  BY <1>2, <1>3, <1>4, <1>5, <1>6, <1>7

\* An entry adds the row of its token.
LEMMA EnteredOK ==
  ASSUME NEW book \in Book, NEW m \in Mint
  PROVE  /\ Entered(book, m) \in Book
         /\ Entered(book, m).rows = book.rows \cup {m}
BY DEF Entered, Book, Stages
-----------------------------------------------------------------------------
(* What a step of a pass does to the books.                                *)

BooksOK == mem \in Book /\ conn \in Book /\ disk \in Book
PassOK ==
  /\ lock \in {"free", "check", "buy"}
  /\ todo \subseteq Mint /\ gone \subseteq Mint /\ sale \in Sales
  /\ tick \in Nat /\ day \in Nat /\ faults \in Nat
  /\ lock # "check" => todo = {} /\ gone = {} /\ sale = NoSale

\* No step of a pass enters a position or touches the lock of a buy.
RowsKept == /\ mem'.rows = mem.rows /\ conn'.rows = conn.rows
            /\ disk'.rows \in {disk.rows, conn.rows}
LockKept == lock' = lock \/ (lock = "free" /\ lock' = "check")

\* The exit under way has integer amounts.
LEMMA SaleAmounts ==
  ASSUME BooksOK, PassOK, sale # NoSale
  PROVE  /\ sale \in SaleUnderWay /\ sale.mint \in Mint /\ lock = "check"
         /\ Result \in Int /\ Proceeds \in Int /\ PartResult \in Int
<1>1. sale \in SaleUnderWay
  BY DEF PassOK, Sales, SaleUnderWay
<1>2. sale.mint \in Mint /\ sale.gain \in Int
  BY <1>1, TraderAssumption DEF SaleUnderWay
<1>3. lock = "check"
  BY DEF PassOK
<1> DEFINE amount == Amount(mem.open[sale.mint])
<1>4. amount \in Int /\ Sold \in Int
  BY <1>2, Amounts
<1> HIDE DEF amount
<1>5. Gross(amount, sale.gain) \in Int /\ Gross(Sold, sale.gain) \in Int
  BY <1>2, <1>4, Amounts
<1>6. CostOf(sale.mint) \in Int
  BY TraderAssumption DEF CostOf
<1>7. Result = Gross(amount, sale.gain) - CostOf(sale.mint)
  BY DEF Result, amount
<1>8. Result \in Int /\ PartResult \in Int
  BY <1>5, <1>6, <1>7 DEF PartResult
<1>9. mem.balance \in Int
  BY DEF BooksOK, Book
<1>10. Proceeds = mem.balance + amount + Result
  BY DEF Proceeds, amount
<1>11. Proceeds \in Int
  BY <1>4, <1>8, <1>9, <1>10
<1> QED
  BY <1>1, <1>2, <1>3, <1>8, <1>11

\* The steps that end an exit: one write or none, in memory or on disk.
LEMMA ExitKeeps ==
  ASSUME BooksOK, PassOK,
         \/ CloseCommits \/ CloseFails \/ TakeCommits \/ TakeFails
         \/ SaveCommits \/ SaveFails
  PROVE  BooksOK' /\ PassOK' /\ RowsKept /\ LockKept
<1> DEFINE m == sale.mint
<1>1. sale # NoSale
  BY DEF CloseCommits, CloseFails, TakeCommits, TakeFails, SaveCommits, SaveFails
<1>2. /\ sale \in SaleUnderWay /\ m \in Mint /\ lock = "check"
      /\ Result \in Int /\ Proceeds \in Int /\ PartResult \in Int
  BY <1>1, SaleAmounts
<1>3. /\ mem \in Book /\ conn \in Book /\ disk \in Book /\ mem.balance \in Int
      /\ day \in Nat /\ tick \in Nat
  BY DEF BooksOK, PassOK, Book
<1> DEFINE shut == Closed(conn, m, Result)
           part == PartlySold(conn, m, PartResult)
           rest == [conn EXCEPT !.open[m] = "rest"]
<1>4. /\ shut \in Book /\ shut.rows = conn.rows
      /\ part \in Book /\ part.rows = conn.rows
      /\ rest \in Book /\ rest.rows = conn.rows
  <2>1. shut \in Book /\ shut.rows = conn.rows
    BY <1>2, <1>3, ClosedOK
  <2>2. part \in Book /\ part.rows = conn.rows
    BY <1>2, <1>3, ClosedOK
  <2>3. rest \in Book /\ rest.rows = conn.rows
    BY <1>2, <1>3, StagedOK DEF Stages
  <2> QED
    BY <2>1, <2>2, <2>3
<1> HIDE DEF shut, part, rest
<1>5. /\ WithBalance(shut, Proceeds) \in Book
      /\ WithBalance(shut, Proceeds).rows = conn.rows
      /\ WithBalance(conn, mem.balance) \in Book
      /\ WithBalance(conn, mem.balance).rows = conn.rows
      /\ WithBalance(mem, Proceeds) \in Book
      /\ WithBalance(mem, Proceeds).rows = mem.rows
  BY <1>2, <1>3, <1>4, BalanceOK
<1>6. /\ Recorded(WithBalance(mem, Proceeds), Trade(m, FALSE, Result)) \in Book
      /\ Recorded(WithBalance(mem, Proceeds), Trade(m, FALSE, Result)).rows = mem.rows
      /\ Recorded(mem, Trade(m, TRUE, PartResult)) \in Book
      /\ Recorded(mem, Trade(m, TRUE, PartResult)).rows = mem.rows
  BY <1>2, <1>3, <1>5, RecordedOK
<1>7. ASSUME SaleEnds, faults' \in Nat, tick' = tick + 1, gone' \subseteq Mint
      PROVE  PassOK' /\ LockKept
  BY <1>2, <1>7 DEF SaleEnds, PassOK, LockKept, Sales
<1>8. CASE CloseCommits
  <2>1. /\ conn' = WithBalance(shut, Proceeds) /\ disk' = conn'
        /\ mem' = Recorded(WithBalance(mem, Proceeds), Trade(m, FALSE, Result))
    BY <1>8 DEF CloseCommits, shut
  <2>2. SaleEnds /\ faults' \in Nat /\ tick' = tick + 1 /\ gone' \subseteq Mint
    BY <1>2, <1>8 DEF CloseCommits, PassOK
  <2> QED
    BY <2>1, <2>2, <1>5, <1>6, <1>7 DEF BooksOK, RowsKept
<1>9. CASE CloseFails
  <2>1. /\ conn' \in {conn, shut, WithBalance(shut, Proceeds)}
        /\ mem' = mem /\ disk' = disk
    BY <1>9 DEF CloseFails, shut
  <2>2. SaleEnds /\ faults' \in Nat /\ tick' = tick + 1 /\ gone' \subseteq Mint
    BY <1>9 DEF CloseFails, PassOK, Fails
  <2> QED
    BY <2>1, <2>2, <1>3, <1>4, <1>5, <1>7 DEF BooksOK, RowsKept
<1>10. CASE TakeCommits
  <2>1. conn' = part /\ disk' = conn' /\ mem' = mem
    BY <1>10 DEF TakeCommits, part
  <2>2. sale' \in Sales
    BY <1>2, <1>10 DEF TakeCommits, Sales, SaleUnderWay
  <2>3. PassOK' /\ LockKept
    BY <2>2, <1>2, <1>10 DEF TakeCommits, PassOK, LockKept
  <2> QED
    BY <2>1, <2>3, <1>3, <1>4 DEF BooksOK, RowsKept
<1>11. CASE TakeFails
  <2>1. conn' \in {conn, rest, part} /\ mem' = mem /\ disk' = disk
    BY <1>11 DEF TakeFails, rest, part
  <2>2. SaleEnds /\ faults' \in Nat /\ tick' = tick + 1 /\ gone' \subseteq Mint
    BY <1>11 DEF TakeFails, PassOK, Fails
  <2> QED
    BY <2>1, <2>2, <1>3, <1>4, <1>7 DEF BooksOK, RowsKept
<1>12. CASE SaveCommits
  <2>1. /\ conn' = WithBalance(conn, mem.balance) /\ disk' = conn'
        /\ mem' = Recorded(mem, Trade(m, TRUE, PartResult))
    BY <1>12 DEF SaveCommits
  <2>2. SaleEnds /\ faults' \in Nat /\ tick' = tick + 1 /\ gone' \subseteq Mint
    BY <1>12 DEF SaveCommits, PassOK
  <2> QED
    BY <2>1, <2>2, <1>5, <1>6, <1>7 DEF BooksOK, RowsKept
<1>13. CASE SaveFails
  <2>1. /\ conn' \in {conn, WithBalance(conn, mem.balance)}
        /\ mem' = mem /\ disk' = disk
    BY <1>13 DEF SaveFails
  <2>2. SaleEnds /\ faults' \in Nat /\ tick' = tick + 1 /\ gone' \subseteq Mint
    BY <1>13 DEF SaveFails, PassOK, Fails
  <2> QED
    BY <2>1, <2>2, <1>3, <1>5, <1>7 DEF BooksOK, RowsKept
<1> QED
  BY <1>8, <1>9, <1>10, <1>11, <1>12, <1>13

\* The start of an exit.
LEMMA SellsKeeps ==
  ASSUME PassOK, NEW m \in Mint, NEW gain \in Gain,
         NEW step \in {"close", "take", "save"}, Sells(m, gain, step)
  PROVE  PassOK' /\ LockKept
<1>1. sale' \in Sales
  BY DEF Sells, Sales
<1>2. lock = "check"
  BY DEF Sells, PassOK
<1> QED
  BY <1>1, <1>2 DEF Sells, PassOK, LockKept

\* The steps that choose what happens to a position.
LEMMA ChoiceKeeps ==
  ASSUME BooksOK, PassOK, NEW m \in Mint, NEW gain \in Gain, NEW choice \in BOOLEAN,
         \/ Holds(m) \/ MicroExit(m, gain, choice) \/ LegacyExit(m, gain, choice)
         \/ TakeProfit(m, gain) \/ RecoverySells(m, gain)
         \/ RecoveryHolds(m, gain) \/ RecoveryFails(m, gain)
  PROVE  BooksOK' /\ PassOK' /\ RowsKept /\ LockKept
<1>1. /\ mem \in Book /\ conn \in Book /\ disk \in Book /\ mem.balance \in Int
  BY DEF BooksOK, Book
<1> DEFINE noted  == [conn EXCEPT !.checked = @ \cup {m}]
           marked == [mem EXCEPT !.checked = @ \cup {m}]
           rest   == [mem EXCEPT !.open[m] = "rest"]
           sum    == mem.balance + Sold + Gross(Sold, gain)
<1>2. /\ noted \in Book /\ noted.rows = conn.rows
      /\ marked \in Book /\ marked.rows = mem.rows
      /\ rest \in Book /\ rest.rows = mem.rows
  BY <1>1, CheckedOK, StagedOK DEF Stages
<1>3. sum \in Int
  <2>1. gain \in Int /\ Sold \in Int
    BY Amounts, TraderAssumption
  <2>2. Gross(Sold, gain) \in Int
    BY <2>1, Amounts
  <2> QED
    BY <2>1, <2>2, <1>1
<1> HIDE DEF noted, marked, rest, sum
<1>4. WithBalance(rest, sum) \in Book /\ WithBalance(rest, sum).rows = mem.rows
  BY <1>2, <1>3, BalanceOK
<1>5. CASE Holds(m)
  BY <1>1, <1>5 DEF Holds, BooksOK, PassOK, RowsKept, LockKept, books
<1>6. CASE MicroExit(m, gain, choice) \/ LegacyExit(m, gain, choice)
  <2>1. Sells(m, gain, "close") /\ UNCHANGED books
    BY <1>6 DEF MicroExit, LegacyExit
  <2> QED
    BY <2>1, <1>1, SellsKeeps DEF BooksOK, RowsKept, books
<1>7. CASE TakeProfit(m, gain)
  <2>1. /\ Sells(m, gain, "take") /\ mem' = WithBalance(rest, sum)
        /\ conn' = conn /\ disk' = disk
    BY <1>7 DEF TakeProfit, rest, sum
  <2> QED
    BY <2>1, <1>1, <1>4, SellsKeeps DEF BooksOK, RowsKept
<1>8. CASE RecoverySells(m, gain)
  <2>1. /\ Sells(m, gain, "close") /\ mem' = marked
        /\ conn' = noted /\ disk' = conn'
    BY <1>8 DEF RecoverySells, MayCheck, marked, noted
  <2> QED
    BY <2>1, <1>2, SellsKeeps DEF BooksOK, RowsKept
<1>9. CASE RecoveryHolds(m, gain)
  <2>1. mem' = marked /\ conn' = noted /\ disk' = conn'
    BY <1>9 DEF RecoveryHolds, MayCheck, marked, noted
  <2>2. PassOK' /\ LockKept
    BY <1>9 DEF RecoveryHolds, MayCheck, PassOK, LockKept
  <2> QED
    BY <2>1, <2>2, <1>2 DEF BooksOK, RowsKept
<1>10. CASE RecoveryFails(m, gain)
  <2>1. mem' = marked /\ conn' \in {conn, noted} /\ disk' = disk
    BY <1>10 DEF RecoveryFails, MayCheck, marked, noted
  <2>2. PassOK' /\ LockKept
    BY <1>10 DEF RecoveryFails, MayCheck, Fails, PassOK, LockKept
  <2> QED
    BY <2>1, <2>2, <1>1, <1>2 DEF BooksOK, RowsKept
<1> QED
  BY <1>5, <1>6, <1>7, <1>8, <1>9, <1>10

\* Every step of a pass.
LEMMA PassKeeps ==
  ASSUME BooksOK, PassOK, PassStep
  PROVE  BooksOK' /\ PassOK' /\ RowsKept /\ LockKept
<1>1. CASE StartPass
  BY <1>1 DEF StartPass, BooksOK, PassOK, RowsKept, LockKept, books, Held
<1>2. CASE WritesTrail
  BY <1>2 DEF WritesTrail, BooksOK, PassOK, RowsKept, LockKept, pass
<1>3. CASE \/ CloseCommits \/ CloseFails \/ TakeCommits \/ TakeFails
           \/ SaveCommits \/ SaveFails
  BY <1>3, ExitKeeps
<1>4. ASSUME NEW m \in Mint, Holds(m)
      PROVE  BooksOK' /\ PassOK' /\ RowsKept /\ LockKept
  BY <1>4 DEF Holds, BooksOK, PassOK, RowsKept, LockKept, books
<1>5. ASSUME NEW m \in Mint, NEW gain \in Gain, NEW choice \in BOOLEAN,
             MicroExit(m, gain, choice) \/ LegacyExit(m, gain, choice)
      PROVE  BooksOK' /\ PassOK' /\ RowsKept /\ LockKept
  BY <1>5, ChoiceKeeps
<1>6. ASSUME NEW m \in Mint, NEW gain \in Gain,
             \/ TakeProfit(m, gain) \/ RecoverySells(m, gain)
             \/ RecoveryHolds(m, gain) \/ RecoveryFails(m, gain)
      PROVE  BooksOK' /\ PassOK' /\ RowsKept /\ LockKept
  <2>1. TRUE \in BOOLEAN
    OBVIOUS
  <2> QED
    BY <1>6, <2>1, ChoiceKeeps
<1> QED
  BY <1>1, <1>2, <1>3, <1>4, <1>5, <1>6 DEF PassStep

\* The end of a pass frees the lock and keeps the rows.
LEMMA EndPassKeeps ==
  ASSUME BooksOK, PassOK, EndPass
  PROVE  /\ BooksOK' /\ PassOK' /\ RowsKept
         /\ lock = "check" /\ lock' = "free"
<1>1. mem' \in Book /\ mem'.rows = mem.rows
  BY DEF EndPass, BooksOK, Book, Stages
<1> QED
  BY <1>1 DEF EndPass, BooksOK, PassOK, RowsKept
-----------------------------------------------------------------------------
(* Types                                                                   *)

DeskTypes ==
  /\ attempts \in [Candidate -> Statuses] /\ halts \subseteq Reasons
  /\ desk \in Cases /\ supervised \in BOOLEAN /\ restarts \in Nat
LockOK ==
  /\ lock = "buy" => At("buying") \/ At("bought")
  /\ At("bought") => lock = "buy"

\* The parts of TypeOK.
LEMMA TypeParts == TypeOK <=> BooksOK /\ PassOK /\ DeskTypes /\ LockOK
BY DEF TypeOK, BooksOK, PassOK, DeskTypes, LockOK

\* A case under way is not the absence of one, whatever becomes of its parts.
LEMMA CaseFacts ==
  ASSUME NEW c \in CaseUnderWay, NEW plan \in BOOLEAN,
         NEW step \in {"review", "telling", "buying", "bought"}
  PROVE  /\ c # NoCase /\ c \in Cases
         /\ [c EXCEPT !.plan = plan] \in CaseUnderWay
         /\ [c EXCEPT !.step = step] \in CaseUnderWay
         /\ [c EXCEPT !.step = step].step = step
         /\ [c EXCEPT !.step = step].mint = c.mint
         /\ [c EXCEPT !.plan = plan].step = c.step
         /\ [c EXCEPT !.plan = plan].mint = c.mint
<1>1. DOMAIN c = {"mint", "plan", "step"}
  BY DEF CaseUnderWay
<1>2. DOMAIN NoCase = {"mint"}
  BY DEF NoCase
<1>3. c # NoCase
  BY <1>1, <1>2
<1> QED
  BY <1>3 DEF CaseUnderWay, Cases

\* The initial books.
LEMMA TypeInit ==
  ASSUME Init
  PROVE  TypeOK
<1>1. PICK held \in SUBSET LegacyMint :
        /\ disk = [rows    |-> held,
                   open    |-> [m \in Mint |-> IF m \in held THEN "whole" ELSE "none"],
                   checked |-> {},
                   balance |-> StartingBalance - Size * Cardinality(held),
                   trades  |-> {}]
        /\ mem = disk /\ conn = disk
        /\ lock = "free"
        /\ todo = {} /\ gone = {} /\ sale = NoSale
        /\ tick = 0 /\ day = 0 /\ faults = 0
  BY DEF Init, TraderInit
<1>2. IsFiniteSet(held) /\ held \subseteq Mint
  BY FS_Subset, TraderAssumption
<1>3. Cardinality(held) \in Nat
  BY <1>2, FS_CardinalityType
<1>4. StartingBalance - Size * Cardinality(held) \in Int
  <2>1. Size * Cardinality(held) \in Int
    BY <1>3, TraderAssumption
  <2> QED
    BY <2>1, TraderAssumption
<1>5. disk \in Book
  BY <1>1, <1>2, <1>4 DEF Book, Stages
<1>6. BooksOK /\ PassOK
  BY <1>1, <1>5 DEF BooksOK, PassOK, Sales
<1>7. DeskTypes /\ LockOK
  BY <1>1 DEF Init, DeskTypes, LockOK, At, Statuses, Cases
<1> QED
  BY <1>6, <1>7, TypeParts

\* A case at a step is one of the cases under way.
LEMMA AtCase ==
  ASSUME DeskTypes, NEW step, At(step)
  PROVE  desk \in CaseUnderWay /\ desk.mint \in Candidate /\ desk.step = step
BY DEF DeskTypes, At, Cases, CaseUnderWay

\* The steps of a buy.
LEMMA BuyKeeps ==
  ASSUME BooksOK, PassOK, NEW m \in Candidate,
         BuyRefused \/ BuyCommits(m) \/ BuyFails
  PROVE  BooksOK' /\ PassOK'
<1>1. m \in Mint /\ mem.balance - Size \in Int
  BY TraderAssumption DEF Candidate, BooksOK, Book
<1>2. /\ WithBalance(Entered(conn, m), mem.balance - Size) \in Book
      /\ WithBalance(Entered(mem, m), mem.balance - Size) \in Book
  BY <1>1, EnteredOK, BalanceOK DEF BooksOK
<1>3. CASE BuyRefused
  BY <1>3 DEF BuyRefused, Unlocks, BooksOK, PassOK, books
<1>4. CASE BuyCommits(m)
  BY <1>2, <1>4 DEF BuyCommits, BooksOK, PassOK, pass
<1>5. CASE BuyFails
  BY <1>5 DEF BuyFails, Fails, Unlocks, BooksOK, PassOK
<1> QED
  BY <1>3, <1>4, <1>5

\* Types, one action at a time.
LEMMA TypeNext ==
  ASSUME TypeOK, [Next]_vars
  PROVE  TypeOK'
<1>1. BooksOK /\ PassOK /\ DeskTypes /\ LockOK
  BY TypeParts
<1>2. SUFFICES BooksOK' /\ PassOK' /\ DeskTypes' /\ LockOK'
  BY TypeParts DEF TypeOK, BooksOK, PassOK, DeskTypes, LockOK, At
<1>3. ASSUME UNCHANGED trader PROVE BooksOK' /\ PassOK'
  BY <1>1, <1>3 DEF trader, BooksOK, PassOK
<1>4. ASSUME UNCHANGED company PROVE DeskTypes'
  BY <1>1, <1>4 DEF company, DeskTypes
<1>5. ASSUME lock' = lock, desk' # NoCase, desk # NoCase,
             desk'.step = desk.step
      PROVE  LockOK'
  BY <1>1, <1>5 DEF LockOK, At
<1>6. ASSUME lock' = lock, ~At("buying"), ~At("bought"),
             desk' = NoCase \/ desk'.step \in {"review", "telling"}
      PROVE  LockOK'
  BY <1>1, <1>6 DEF LockOK, At
<1>7. CASE PassStep /\ UNCHANGED company
  <2>1. BooksOK' /\ PassOK' /\ LockKept
    BY <1>1, <1>7, PassKeeps
  <2>2. LockOK'
    BY <1>1, <1>7, <2>1 DEF LockOK, LockKept, At, company
  <2> QED
    BY <1>4, <1>7, <2>1, <2>2
<1>8. CASE NextDay /\ UNCHANGED company
  <2>1. BooksOK' /\ PassOK'
    BY <1>1, <1>8 DEF NextDay, BooksOK, PassOK, books, pass
  <2>2. LockOK'
    BY <1>1, <1>8 DEF NextDay, LockOK, At, company, pass
  <2> QED
    BY <1>4, <1>8, <2>1, <2>2
<1>9. ASSUME NEW m \in Candidate, NEW convincing \in BOOLEAN, Consider(m, convincing)
      PROVE  BooksOK' /\ PassOK' /\ DeskTypes' /\ LockOK'
  <2>1. MayEnter(mem) \in BOOLEAN
    BY DEF MayEnter
  <2>2. desk' \in CaseUnderWay /\ desk'.step = "review"
    BY <1>9, <2>1, Zenon DEF Consider, CaseUnderWay
  <2>3. DeskTypes'
    BY <1>1, <1>9, <2>2 DEF Consider, DeskTypes, Cases, CaseUnderWay
  <2>4. ~At("buying") /\ ~At("bought") /\ UNCHANGED trader
    BY <1>9 DEF Consider, At
  <2>5. lock' = lock
    BY <2>4 DEF trader
  <2> QED
    BY <1>3, <1>6, <2>2, <2>3, <2>4, <2>5
<1>10. CASE WorkerFails
  <2>1. At("review") /\ desk' = [desk EXCEPT !.plan = FALSE] /\ UNCHANGED trader
    BY <1>10 DEF WorkerFails
  <2>2. desk \in CaseUnderWay /\ desk.step = "review"
    BY <1>1, <2>1, AtCase
  <2>3. desk' \in CaseUnderWay /\ desk' # NoCase /\ desk'.step = desk.step
    BY <2>1, <2>2, CaseFacts
  <2>4. DeskTypes'
    BY <1>1, <1>10, <2>3, CaseFacts DEF WorkerFails, Halts, DeskTypes, Reasons, Cases, CaseUnderWay
  <2>5. lock' = lock /\ desk # NoCase
    BY <2>1 DEF trader, At
  <2> QED
    BY <1>3, <1>5, <2>1, <2>3, <2>4, <2>5
<1>11. CASE HandoffFails
  <2>1. At("review") /\ desk' = NoCase /\ UNCHANGED trader
    BY <1>11 DEF HandoffFails
  <2>2. DeskTypes'
    BY <1>1, <1>11 DEF HandoffFails, Halts, DeskTypes, Reasons, Cases
  <2>3. lock' = lock /\ ~At("buying") /\ ~At("bought")
    BY <2>1 DEF trader, At
  <2> QED
    BY <1>3, <1>6, <2>1, <2>2, <2>3
<1>12. ASSUME NEW fresh \in BOOLEAN, Review(fresh)
       PROVE  BooksOK' /\ PassOK' /\ DeskTypes' /\ LockOK'
  <2> DEFINE verdict == desk.plan /\ Passes(fresh)
  <2>1. /\ At("review") /\ UNCHANGED trader
        /\ desk' = [[desk EXCEPT !.plan = verdict] EXCEPT !.step = "telling"]
    BY <1>1, <1>12, AtCase DEF Review, CaseUnderWay
  <2>2. desk \in CaseUnderWay /\ verdict \in BOOLEAN
    BY <1>1, <2>1, AtCase
  <2> HIDE DEF verdict
  <2>3. desk' \in CaseUnderWay /\ desk'.step = "telling"
    BY <2>1, <2>2, CaseFacts
  <2>4. halts' \subseteq Reasons
    BY <1>1, <1>12 DEF Review, Inspects, DeskTypes, Reasons
  <2>5. DeskTypes'
    BY <1>1, <1>12, <2>3, <2>4 DEF Review, DeskTypes, Cases, CaseUnderWay
  <2>6. lock' = lock /\ ~At("buying") /\ ~At("bought")
    BY <2>1 DEF trader, At
  <2> QED
    BY <1>3, <1>6, <2>1, <2>3, <2>5, <2>6
<1>13. ASSUME NEW fresh \in BOOLEAN, Block(fresh)
       PROVE  BooksOK' /\ PassOK' /\ DeskTypes' /\ LockOK'
  <2>1. At("telling") /\ desk' = NoCase /\ UNCHANGED trader
    BY <1>13 DEF Block
  <2>2. halts' \subseteq Reasons
    BY <1>1, <1>13 DEF Block, Inspects, DeskTypes, Reasons
  <2>3. DeskTypes'
    BY <1>1, <1>13, <2>2 DEF Block, DeskTypes, Cases
  <2>4. lock' = lock /\ ~At("buying") /\ ~At("bought")
    BY <2>1 DEF trader, At
  <2> QED
    BY <1>3, <1>6, <2>1, <2>3, <2>4
<1>14. ASSUME NEW fresh \in BOOLEAN, Intend(fresh)
       PROVE  BooksOK' /\ PassOK' /\ DeskTypes' /\ LockOK'
  <2>1. At("telling") /\ desk' = [desk EXCEPT !.step = "buying"] /\ UNCHANGED trader
    BY <1>14 DEF Intend
  <2>2. desk \in CaseUnderWay /\ desk.mint \in Candidate
    BY <1>1, <2>1, AtCase
  <2>3. desk' \in CaseUnderWay /\ desk' # NoCase /\ desk'.step = "buying"
    BY <2>1, <2>2, CaseFacts
  <2>4. halts' \subseteq Reasons
    BY <1>1, <1>14 DEF Intend, Inspects, DeskTypes, Reasons
  <2>5. DeskTypes'
    BY <1>1, <1>14, <2>2, <2>3, <2>4
       DEF Intend, DeskTypes, Statuses, Cases, CaseUnderWay
  <2>6. lock' = lock /\ lock # "buy"
    BY <1>1, <2>1 DEF trader, LockOK, At
  <2>7. LockOK'
    BY <2>3, <2>6 DEF LockOK, At
  <2> QED
    BY <1>3, <2>1, <2>5, <2>7
<1>15. CASE AsksToBuy
  <2>1. At("buying") /\ lock = "free" /\ GetsLock /\ UNCHANGED company
    BY <1>15 DEF AsksToBuy, GetsLock
  <2>2. BooksOK' /\ PassOK'
    BY <1>1, <2>1 DEF GetsLock, BooksOK, PassOK, books
  <2>3. LockOK'
    BY <2>1 DEF GetsLock, LockOK, At, company
  <2> QED
    BY <1>4, <2>1, <2>2, <2>3
<1>16. CASE Declines \/ EntryFails
  <2>1. At("buying") /\ (BuyRefused \/ BuyFails) /\ lock = "buy" /\ desk' = NoCase
    BY <1>16 DEF Declines, EntryFails, Settle, BuyRefused, BuyFails
  <2>2. desk.mint \in Candidate
    BY <1>1, <2>1, AtCase
  <2>3. BooksOK' /\ PassOK'
    BY <1>1, <2>1, <2>2, BuyKeeps
  <2>4. DeskTypes'
    BY <1>1, <1>16, <2>2
       DEF Declines, EntryFails, Settle, Halts, DeskTypes, Statuses, Reasons, Cases
  <2>5. lock' = "free"
    BY <1>1, <2>1 DEF BuyRefused, BuyFails, Unlocks, LockOK
  <2>6. LockOK'
    BY <2>1, <2>5 DEF LockOK, At
  <2> QED
    BY <2>3, <2>4, <2>6
<1>17. CASE Enters
  <2>1. /\ At("buying") /\ BuyCommits(desk.mint) /\ lock = "buy"
        /\ desk' = [desk EXCEPT !.step = "bought"]
    BY <1>17 DEF Enters, BuyCommits
  <2>2. desk \in CaseUnderWay /\ desk.mint \in Candidate
    BY <1>1, <2>1, AtCase
  <2>3. desk' \in CaseUnderWay /\ desk' # NoCase /\ desk'.step = "bought"
    BY <2>1, <2>2, CaseFacts
  <2>4. BooksOK' /\ PassOK'
    BY <1>1, <2>1, <2>2, BuyKeeps
  <2>5. DeskTypes'
    BY <1>1, <1>17, <2>3 DEF Enters, DeskTypes, Cases, CaseUnderWay
  <2>6. lock' = "buy"
    BY <1>1, <2>1 DEF BuyCommits, pass, LockOK
  <2>7. LockOK'
    BY <2>3, <2>6 DEF LockOK, At
  <2> QED
    BY <2>4, <2>5, <2>7
<1>18. CASE Completes
  <2>1. At("bought") /\ lock = "buy"
    BY <1>1, <1>18 DEF Completes, LockOK, At
  <2>2. desk.mint \in Candidate /\ desk' = NoCase
    BY <1>1, <1>18, <2>1, AtCase DEF Completes, Settle
  <2>3. BooksOK' /\ PassOK'
    BY <1>1, <1>18, <2>1 DEF Completes, BuyReturns, Unlocks, BooksOK, PassOK, books
  <2>4. DeskTypes'
    BY <1>1, <1>18, <2>2 DEF Completes, Settle, DeskTypes, Statuses, Cases
  <2>5. LockOK'
    BY <1>18, <2>1, <2>2 DEF Completes, BuyReturns, Unlocks, LockOK, At
  <2> QED
    BY <2>3, <2>4, <2>5
<1>19. CASE Supervises
  <2>1. DeskTypes'
    BY <1>1, <1>19 DEF Supervises, DeskTypes
  <2>2. CASE EndPass
    <3>1. BooksOK' /\ PassOK' /\ lock = "check" /\ lock' = "free"
      BY <1>1, <2>2, EndPassKeeps
    <3>2. LockOK'
      BY <1>1, <1>19, <3>1 DEF Supervises, LockOK, At
    <3> QED
      BY <2>1, <3>1, <3>2
  <2>3. CASE UNCHANGED trader
    <3>1. LockOK'
      BY <1>1, <1>19, <2>3 DEF Supervises, LockOK, At, trader
    <3> QED
      BY <1>3, <2>1, <2>3, <3>1
  <2> QED
    BY <1>19, <2>2, <2>3 DEF Supervises
<1>20. CASE Restart
  <2>1. BooksOK' /\ PassOK'
    BY <1>1, <1>20 DEF Restart, TraderRestart, BooksOK, PassOK, Sales
  <2>2. halts' \subseteq Reasons
    BY <1>1, <1>20 DEF Restart, DeskTypes, Reasons
  <2>3. /\ attempts' = attempts /\ desk' = NoCase /\ supervised' = FALSE
        /\ restarts' = restarts + 1
    BY <1>20 DEF Restart
  <2>4. desk' \in Cases /\ restarts' \in Nat
    BY <1>1, <2>3 DEF DeskTypes, Cases
  <2>5. DeskTypes'
    BY <1>1, <2>2, <2>3, <2>4 DEF DeskTypes
  <2>6. LockOK'
    BY <1>20 DEF Restart, TraderRestart, LockOK, At
  <2> QED
    BY <2>1, <2>5, <2>6
<1>21. CASE UNCHANGED vars
  <2>1. UNCHANGED trader /\ UNCHANGED company
    BY <1>21 DEF vars
  <2>2. LockOK'
    BY <1>1, <2>1 DEF LockOK, At, trader, company
  <2> QED
    BY <1>3, <1>4, <2>1, <2>2
<1> QED
  BY <1>7, <1>8, <1>9, <1>10, <1>11, <1>12, <1>13, <1>14, <1>15, <1>16, <1>17,
     <1>18, <1>19, <1>20, <1>21 DEF Next, CompanyStep

\* The books, the pass, the lock and the desk keep their types.
THEOREM CompanyTypes == Spec => []TypeOK
<1>1. Init => TypeOK
  BY TypeInit
<1>2. TypeOK /\ [Next]_vars => TypeOK'
  BY TypeNext
<1> QED
  BY <1>1, <1>2, PTL DEF Spec
-----------------------------------------------------------------------------
(* The invariant of the entry promise.                                     *)

\* No signal has been reviewed.
LEMMA EntryInit ==
  ASSUME Init
  PROVE  EntryInv
<1>1. /\ disk.rows \in SUBSET LegacyMint /\ mem = disk /\ conn = disk
      /\ attempts = [m \in Candidate |-> "none"] /\ desk = NoCase
  BY DEF Init, TraderInit
<1> QED
  BY <1>1 DEF EntryInv, Candidate, At

\* What a step on the trader alone leaves of it.
LEMMA EntryFrame ==
  ASSUME EntryInv, RowsKept, UNCHANGED <<attempts, halts, desk>>
  PROVE  EntryInv'
<1>1. /\ mem'.rows = mem.rows /\ conn'.rows = conn.rows
      /\ mem.rows = disk.rows /\ conn.rows = disk.rows /\ disk'.rows = disk.rows
  BY DEF RowsKept, EntryInv
<1> QED
  BY <1>1 DEF EntryInv, At

\* A step on the desk that does not enter and does not buy.
LEMMA DeskFrame ==
  ASSUME EntryInv, UNCHANGED books, UNCHANGED attempts,
         \/ desk' = NoCase
         \/ /\ desk'.step \in {"review", "telling"}
            /\ attempts[desk'.mint] = "none"
  PROVE  EntryInv'
BY DEF EntryInv, At, books

\* Every step keeps the invariant of entries.
LEMMA EntryNext ==
  ASSUME TypeOK, EntryInv, [Next]_vars
  PROVE  EntryInv'
<1>1. BooksOK /\ PassOK /\ DeskTypes /\ LockOK
  BY TypeParts
<1>2. ASSUME UNCHANGED books PROVE RowsKept
  BY <1>2 DEF books, RowsKept
<1>3. CASE PassStep /\ UNCHANGED company
  BY <1>1, <1>3, PassKeeps, EntryFrame DEF company
<1>4. CASE NextDay /\ UNCHANGED company
  BY <1>2, <1>4, EntryFrame DEF NextDay, company
<1>5. ASSUME NEW m \in Candidate, NEW convincing \in BOOLEAN, Consider(m, convincing)
      PROVE  EntryInv'
  <2>1. /\ UNCHANGED books /\ UNCHANGED attempts /\ attempts[m] = "none"
        /\ desk'.mint = m /\ desk'.step = "review"
    BY <1>5 DEF Consider, trader, books
  <2> QED
    BY <2>1, DeskFrame
<1>6. CASE WorkerFails
  <2>1. /\ At("review") /\ UNCHANGED books /\ UNCHANGED attempts
        /\ desk' = [desk EXCEPT !.plan = FALSE]
    BY <1>6 DEF WorkerFails, trader, books
  <2>2. desk \in CaseUnderWay /\ desk.step = "review"
    BY <1>1, <2>1, AtCase
  <2>3. desk'.step = "review" /\ desk'.mint = desk.mint
    BY <2>1, <2>2, CaseFacts
  <2>4. attempts[desk'.mint] = "none"
    BY <2>1, <2>3 DEF EntryInv
  <2> QED
    BY <2>1, <2>3, <2>4, DeskFrame
<1>7. CASE HandoffFails
  BY <1>7, DeskFrame DEF HandoffFails, trader, books
<1>8. ASSUME NEW fresh \in BOOLEAN, Review(fresh)
      PROVE  EntryInv'
  <2> DEFINE verdict == desk.plan /\ Passes(fresh)
  <2>1. /\ At("review") /\ UNCHANGED books /\ UNCHANGED attempts
        /\ desk' = [[desk EXCEPT !.plan = verdict] EXCEPT !.step = "telling"]
    BY <1>1, <1>8, AtCase DEF Review, CaseUnderWay, trader, books
  <2>2. desk \in CaseUnderWay /\ verdict \in BOOLEAN
    BY <1>1, <2>1, AtCase
  <2> HIDE DEF verdict
  <2>3. desk'.step = "telling" /\ desk'.mint = desk.mint
    BY <2>1, <2>2, CaseFacts
  <2>4. attempts[desk'.mint] = "none"
    BY <2>1, <2>3 DEF EntryInv
  <2> QED
    BY <2>1, <2>3, <2>4, DeskFrame
<1>9. ASSUME NEW fresh \in BOOLEAN, Block(fresh)
      PROVE  EntryInv'
  BY <1>9, DeskFrame DEF Block, trader, books
<1>10. ASSUME NEW fresh \in BOOLEAN, Intend(fresh)
       PROVE  EntryInv'
  <2>1. /\ At("telling") /\ UNCHANGED books /\ halts = {} /\ halts' = halts
        /\ attempts' = [attempts EXCEPT ![desk.mint] = "INFLIGHT"]
        /\ desk' = [desk EXCEPT !.step = "buying"]
    BY <1>10 DEF Intend, Passes, Inspects, trader, books
  <2>2. desk \in CaseUnderWay /\ desk.mint \in Candidate
    BY <1>1, <2>1, AtCase
  <2>3. desk'.step = "buying" /\ desk'.mint = desk.mint
    BY <2>1, <2>2, CaseFacts
  <2>4. attempts[desk.mint] = "none" /\ desk.mint \notin disk.rows
    BY <2>1, <2>2 DEF EntryInv
  <2>5. attempts'[desk.mint] = "INFLIGHT"
    BY <1>1, <2>1, <2>2 DEF DeskTypes
  <2>6. \A m \in Candidate : m # desk.mint => attempts'[m] = attempts[m]
    BY <1>1, <2>1, <2>2 DEF DeskTypes
  <2> QED
    BY <2>1, <2>3, <2>4, <2>5, <2>6 DEF EntryInv, At, books
<1>11. CASE AsksToBuy
  BY <1>2, <1>11, EntryFrame DEF AsksToBuy, GetsLock, company
<1>12. CASE Declines
  <2>1. /\ At("buying") /\ UNCHANGED books /\ desk' = NoCase
        /\ attempts' = [attempts EXCEPT ![desk.mint] = "DECLINED"]
    BY <1>12 DEF Declines, BuyRefused, Settle
  <2>2. desk.mint \in Candidate /\ desk.mint \notin disk.rows
    BY <1>1, <2>1, AtCase DEF EntryInv
  <2>3. \A m \in Candidate : m # desk.mint => attempts'[m] = attempts[m]
    BY <1>1, <2>1, <2>2 DEF DeskTypes
  <2> QED
    BY <2>1, <2>2, <2>3 DEF EntryInv, At, books
<1>13. CASE Enters
  <2> DEFINE m == desk.mint
  <2>1. /\ At("buying") /\ UNCHANGED <<attempts, halts>>
        /\ desk' = [desk EXCEPT !.step = "bought"]
        /\ conn' = WithBalance(Entered(conn, m), mem.balance - Size)
        /\ mem' = WithBalance(Entered(mem, m), mem.balance - Size)
        /\ disk' = conn'
    BY <1>13 DEF Enters, BuyCommits
  <2>2. desk \in CaseUnderWay /\ m \in Candidate /\ m \in Mint
    BY <1>1, <2>1, AtCase DEF Candidate
  <2>3. desk'.step = "bought" /\ desk'.mint = m
    BY <2>1, <2>2, CaseFacts
  <2>4. mem.balance - Size \in Int
    BY <1>1, TraderAssumption DEF BooksOK, Book
  <2>5. /\ Entered(conn, m) \in Book /\ Entered(conn, m).rows = conn.rows \cup {m}
        /\ Entered(mem, m) \in Book /\ Entered(mem, m).rows = mem.rows \cup {m}
    BY <1>1, <2>2, EnteredOK DEF BooksOK
  <2>6. conn'.rows = conn.rows \cup {m} /\ mem'.rows = mem.rows \cup {m}
    BY <2>1, <2>4, <2>5, BalanceOK
  <2>7. attempts[m] = "INFLIGHT"
    BY <2>1 DEF EntryInv
  <2> HIDE DEF m
  <2>8. /\ mem'.rows = disk'.rows /\ conn'.rows = disk'.rows
        /\ disk'.rows = disk.rows \cup {m}
    BY <2>1, <2>6 DEF EntryInv
  <2> QED
    BY <2>1, <2>3, <2>7, <2>8 DEF EntryInv, At
<1>14. CASE EntryFails
  <2>1. /\ UNCHANGED <<mem, disk, attempts>> /\ conn' = disk /\ desk' = NoCase
    BY <1>14 DEF EntryFails, BuyFails
  <2> QED
    BY <2>1 DEF EntryInv, At
<1>15. CASE Completes
  <2>1. /\ At("bought") /\ UNCHANGED books /\ desk' = NoCase
        /\ attempts' = [attempts EXCEPT ![desk.mint] = "COMPLETED"]
    BY <1>15 DEF Completes, BuyReturns, Settle
  <2>2. desk.mint \in Candidate
    BY <1>1, <2>1, AtCase
  <2>3. \A m \in Candidate : m # desk.mint => attempts'[m] = attempts[m]
    BY <1>1, <2>1, <2>2 DEF DeskTypes
  <2>4. attempts'[desk.mint] = "COMPLETED"
    BY <1>1, <2>1, <2>2 DEF DeskTypes
  <2> QED
    BY <2>1, <2>3, <2>4 DEF EntryInv, At, books
<1>16. CASE Supervises
  <2>1. RowsKept
    <3>1. CASE EndPass
      BY <1>1, <3>1, EndPassKeeps
    <3>2. CASE UNCHANGED trader
      BY <1>2, <3>2 DEF trader, books
    <3> QED
      BY <1>16, <3>1, <3>2 DEF Supervises
  <2> QED
    BY <1>16, <2>1, EntryFrame DEF Supervises
<1>17. CASE Restart
  <2>1. mem' = disk /\ conn' = disk /\ disk' = disk /\ attempts' = attempts /\ desk' = NoCase
    BY <1>17 DEF Restart, TraderRestart
  <2> QED
    BY <2>1 DEF EntryInv, At
<1>18. CASE UNCHANGED vars
  BY <1>2, <1>18, EntryFrame DEF vars, trader, company, books
<1> QED
  BY <1>3, <1>4, <1>5, <1>6, <1>7, <1>8, <1>9, <1>10, <1>11, <1>12, <1>13,
     <1>14, <1>15, <1>16, <1>17, <1>18 DEF Next, CompanyStep

\* A position has a recorded attempt, and nothing is halted while one waits.
THEOREM EntryInvariant == Spec => []EntryInv
<1>1. Init => EntryInv
  BY EntryInit
<1>2. TypeOK /\ EntryInv /\ [Next]_vars => EntryInv'
  BY EntryNext
<1> QED
  BY <1>1, <1>2, CompanyTypes, PTL DEF Spec
-----------------------------------------------------------------------------
(* The entry promise.                                                      *)

\* A step that settles no attempt and enters nothing is a halt or a stutter.
LEMMA QuietKeeps ==
  ASSUME attempts' = attempts, disk'.rows = disk.rows, halts \subseteq halts'
  PROVE  [Promise!Next]_(Promise!vars)
<1>1. \A m \in Candidate : Promised(m)' = Promised(m)
  BY DEF Promised
<1>2. [m \in Candidate |-> Promised(m)]' = [m \in Candidate |-> Promised(m)]
  BY <1>1
<1>3. CASE halts = {} /\ halts' # {}
  BY <1>2, <1>3 DEF Promise!Next, Promise!Halt
<1>4. CASE halts = {} /\ halts' = {}
  BY <1>2, <1>4 DEF Promise!vars
<1>5. CASE halts # {} /\ halts' # {}
  <2>1. (halts # {})' = (halts # {})
    BY <1>5
  <2> QED
    BY <1>2, <2>1 DEF Promise!vars
<1> QED
  BY <1>3, <1>4, <1>5

\* A step that moves the promise of one token.
LEMMA MovesKeeps ==
  ASSUME NEW m \in Candidate, halts' = halts,
         \A k \in Candidate : k # m => Promised(k)' = Promised(k)
  PROVE  Promise!Moves(m, Promised(m), Promised(m)')
<1> DEFINE now   == [k \in Candidate |-> Promised(k)]
           after == [now EXCEPT ![m] = Promised(m)']
<1>1. now[m] = Promised(m)
  OBVIOUS
<1>2. now' = after
  <2>1. now' = [k \in Candidate |-> Promised(k)']
    OBVIOUS
  <2>2. \A k \in Candidate : after[k] = Promised(k)'
    OBVIOUS
  <2>3. after = [k \in Candidate |-> after[k]]
    OBVIOUS
  <2> QED
    BY <2>1, <2>2, <2>3
<1>3. (halts # {})' = (halts # {})
  OBVIOUS
<1> QED
  BY <1>1, <1>2, <1>3 DEF Promise!Moves

\* Every step is one of EntryPromise, or changes nothing it speaks of.
LEMMA PromiseNext ==
  ASSUME TypeOK, EntryInv, [Next]_vars
  PROVE  [Promise!Next]_(Promise!vars)
<1>1. BooksOK /\ PassOK /\ DeskTypes /\ LockOK
  BY TypeParts
<1>2. ASSUME UNCHANGED books PROVE disk'.rows = disk.rows
  BY <1>2 DEF books
<1>3. ASSUME RowsKept, UNCHANGED <<attempts, halts>>
      PROVE  [Promise!Next]_(Promise!vars)
  <2>1. disk'.rows = disk.rows
    BY <1>3 DEF RowsKept, EntryInv
  <2> QED
    BY <1>3, <2>1, QuietKeeps
<1>4. CASE (PassStep \/ NextDay) /\ UNCHANGED company
  <2>1. RowsKept
    BY <1>1, <1>4, PassKeeps DEF NextDay, RowsKept, books
  <2> QED
    BY <1>3, <1>4, <2>1 DEF company
<1>5. CASE \/ \E m \in Candidate, convincing \in BOOLEAN : Consider(m, convincing)
           \/ AsksToBuy
  BY <1>2, <1>5, QuietKeeps DEF Consider, AsksToBuy, GetsLock, company, trader, books
<1>6. CASE WorkerFails \/ HandoffFails
  BY <1>2, <1>6, QuietKeeps DEF WorkerFails, HandoffFails, Halts, trader, books
<1>7. CASE \E fresh \in BOOLEAN : Review(fresh) \/ Block(fresh)
  BY <1>2, <1>7, QuietKeeps DEF Review, Block, Inspects, trader, books
<1>8. CASE EntryFails \/ Restart
  BY <1>8, QuietKeeps DEF EntryFails, BuyFails, Restart, TraderRestart, Halts
<1>9. CASE Supervises
  <2>1. RowsKept
    BY <1>1, <1>9, EndPassKeeps DEF Supervises, RowsKept, trader
  <2> QED
    BY <1>3, <1>9, <2>1 DEF Supervises
<1>10. CASE UNCHANGED vars
  BY <1>2, <1>10, QuietKeeps DEF vars, company, trader, books
<1>11. ASSUME NEW fresh \in BOOLEAN, Intend(fresh)
       PROVE  [Promise!Next]_(Promise!vars)
  <2>1. /\ At("telling") /\ UNCHANGED books /\ halts = {} /\ halts' = halts
        /\ attempts' = [attempts EXCEPT ![desk.mint] = "INFLIGHT"]
    BY <1>11 DEF Intend, Passes, Inspects, trader, books
  <2>2. PICK m \in Candidate : m = desk.mint
    BY <1>1, <2>1, AtCase
  <2>3. attempts[m] = "none" /\ m \notin disk.rows
    BY <2>1, <2>2 DEF EntryInv
  <2>4. /\ attempts'[m] = "INFLIGHT"
        /\ \A k \in Candidate : k # m => attempts'[k] = attempts[k]
    BY <1>1, <2>1, <2>2 DEF DeskTypes
  <2>5. /\ Promised(m) = "free" /\ Promised(m)' = "intended"
        /\ \A k \in Candidate : k # m => Promised(k)' = Promised(k)
    BY <2>1, <2>3, <2>4 DEF Promised, books
  <2>6. Promise!Intend(m)
    BY <2>1, <2>5, MovesKeeps DEF Promise!Intend
  <2> QED
    BY <2>6 DEF Promise!Next
<1>12. CASE Enters
  <2>1. /\ At("buying") /\ UNCHANGED <<attempts, halts>>
        /\ conn' = WithBalance(Entered(conn, desk.mint), mem.balance - Size)
        /\ disk' = conn'
    BY <1>12 DEF Enters, BuyCommits
  <2>2. PICK m \in Candidate : m = desk.mint
    BY <1>1, <2>1, AtCase
  <2>3. /\ attempts[m] = "INFLIGHT" /\ m \notin disk.rows /\ halts = {}
        /\ conn.rows = disk.rows
    BY <2>1, <2>2 DEF EntryInv
  <2>4. m \in Mint /\ mem.balance - Size \in Int
    BY <1>1, TraderAssumption DEF BooksOK, Book, Candidate
  <2>5. Entered(conn, m) \in Book /\ Entered(conn, m).rows = conn.rows \cup {m}
    BY <1>1, <2>4, EnteredOK DEF BooksOK
  <2>6. disk'.rows = disk.rows \cup {m}
    BY <2>1, <2>2, <2>3, <2>4, <2>5, BalanceOK
  <2>7. /\ Promised(m) = "intended" /\ Promised(m)' = "entered"
        /\ \A k \in Candidate : k # m => Promised(k)' = Promised(k)
    BY <2>1, <2>3, <2>6 DEF Promised
  <2>8. Promise!Enter(m)
    BY <2>1, <2>3, <2>7, MovesKeeps DEF Promise!Enter
  <2> QED
    BY <2>8 DEF Promise!Next
<1>13. CASE Declines
  <2>1. /\ At("buying") /\ UNCHANGED books /\ halts' = halts
        /\ attempts' = [attempts EXCEPT ![desk.mint] = "DECLINED"]
    BY <1>13 DEF Declines, BuyRefused, Settle
  <2>2. PICK m \in Candidate : m = desk.mint
    BY <1>1, <2>1, AtCase
  <2>3. attempts[m] = "INFLIGHT" /\ m \notin disk.rows
    BY <2>1, <2>2 DEF EntryInv
  <2>4. /\ attempts'[m] = "DECLINED"
        /\ \A k \in Candidate : k # m => attempts'[k] = attempts[k]
    BY <1>1, <2>1, <2>2 DEF DeskTypes
  <2>5. /\ Promised(m) = "intended" /\ Promised(m)' = "declined"
        /\ \A k \in Candidate : k # m => Promised(k)' = Promised(k)
    BY <2>1, <2>3, <2>4 DEF Promised, books
  <2>6. Promise!Decline(m)
    BY <2>1, <2>5, MovesKeeps DEF Promise!Decline
  <2> QED
    BY <2>6 DEF Promise!Next
<1>14. CASE Completes
  <2>1. /\ At("bought") /\ UNCHANGED books /\ halts' = halts
        /\ attempts' = [attempts EXCEPT ![desk.mint] = "COMPLETED"]
    BY <1>14 DEF Completes, BuyReturns, Settle
  <2>2. PICK m \in Candidate : m = desk.mint
    BY <1>1, <2>1, AtCase
  <2>3. attempts[m] = "INFLIGHT" /\ m \in disk.rows
    BY <2>1, <2>2 DEF EntryInv
  <2>4. /\ attempts'[m] = "COMPLETED"
        /\ \A k \in Candidate : k # m => attempts'[k] = attempts[k]
    BY <1>1, <2>1, <2>2 DEF DeskTypes
  <2>5. \A k \in Candidate : Promised(k)' = Promised(k)
    BY <2>1, <2>3, <2>4 DEF Promised, books
  <2>6. [k \in Candidate |-> Promised(k)]' = [k \in Candidate |-> Promised(k)]
    BY <2>5
  <2>7. (halts # {})' = (halts # {})
    BY <2>1
  <2> QED
    BY <2>6, <2>7 DEF Promise!vars
<1> QED
  BY <1>4, <1>5, <1>6, <1>7, <1>8, <1>9, <1>10, <1>11, <1>12, <1>13, <1>14
  DEF Next, CompanyStep

\* The company implements its promise: one entry per signal, after its intent
\* and never under a halt, whatever fails and however often it restarts.
THEOREM PromiseKept == Spec => KeepsEntryPromise
<1>1. Init => Promise!Init
  <2> SUFFICES ASSUME Init PROVE Promise!Init
    OBVIOUS
  <2>1. /\ halts = {} /\ attempts = [m \in Candidate |-> "none"]
        /\ disk.rows \in SUBSET LegacyMint
    BY DEF Init, TraderInit
  <2>2. \A m \in Candidate : Promised(m) = "free"
    BY <2>1 DEF Promised, Candidate
  <2>3. [m \in Candidate |-> Promised(m)] = [m \in Candidate |-> "free"]
    BY <2>2
  <2>4. (halts # {}) = FALSE
    BY <2>1
  <2> QED
    BY <2>3, <2>4 DEF Promise!Init
<1>2. TypeOK /\ EntryInv /\ [Next]_vars => [Promise!Next]_(Promise!vars)
  BY PromiseNext
<1> QED
  BY <1>1, <1>2, CompanyTypes, EntryInvariant, PTL
  DEF Spec, KeepsEntryPromise, Promise!Spec
-----------------------------------------------------------------------------
(* The rules of the legacy exits: PeakTrail.                               *)

Position ==
  [peak : Nat, original : Nat, celebrity : BOOLEAN, runner_target : Nat]

(* Widths *)

\* The widths of both trails, the runner's never the wider.
LEMMA WidthRange ==
  ASSUME NEW velocity \in Int, NEW celebrity \in BOOLEAN
  PROVE  /\ Width(RunnerTrail, velocity, celebrity) \in 40..140
         /\ Width(PreTp1Trail, velocity, celebrity) \in 80..160
         /\ Width(RunnerTrail, velocity, celebrity) <= Width(PreTp1Trail, velocity, celebrity)
BY DEF Width, WidthForVelocity, RunnerTrail, PreTp1Trail, Bands, Least

\* A faster token has the wider trail.
LEMMA WidthRises ==
  ASSUME NEW slow \in Int, NEW fast \in Int, slow <= fast, NEW celebrity \in BOOLEAN
  PROVE  Width(RunnerTrail, slow, celebrity) <= Width(RunnerTrail, fast, celebrity)
BY DEF Width, WidthForVelocity, RunnerTrail, Bands, Least

\* A quote can only raise the peak.
LEMMA PeakedPosition ==
  ASSUME NEW pos \in Position, NEW price \in Nat
  PROVE  /\ Peaked(pos, price) \in Position
         /\ Peaked(pos, price).original = pos.original
         /\ Peaked(pos, price).peak >= price /\ Peaked(pos, price).peak >= pos.peak
BY DEF Peaked, Position, Greatest

\* Products are monotonic.
LEMMA Scales ==
  ASSUME NEW a \in Nat, NEW b \in Nat, NEW c \in Nat, b <= c
  PROVE  a * b <= a * c
<1>1. PICK d \in Nat : c = b + d
  OBVIOUS
<1>2. a * c = a * b + a * d /\ a * d >= 0
  BY <1>1
<1> QED
  BY <1>2

\* A narrower trail is nowhere below a wider one.
LEMMA NarrowerIsHigher ==
  ASSUME NEW pos \in Position, NEW narrow \in 0..200, NEW wide \in 0..200, narrow <= wide
  PROVE  TrailPrice(pos, narrow) >= TrailPrice(pos, wide)
<1> DEFINE p == pos.peak
<1>1. p \in Nat /\ pos.original \in Nat
  BY DEF Position
<1>2. p * (200 - narrow) >= p * (200 - wide)
  <2>1. 200 - narrow \in Nat /\ 200 - wide \in Nat /\ 200 - wide <= 200 - narrow
    OBVIOUS
  <2>2. p * (200 - wide) <= p * (200 - narrow)
    BY <1>1, <2>1, Scales
  <2> QED
    BY <1>1, <2>2
<1> QED
  BY <1>1, <1>2 DEF TrailPrice
-----------------------------------------------------------------------------
(* Trails *)

\* What RunnerSells compares, with a name for each part.
Narrowed(armed, width) == IF armed THEN width \div 2 ELSE width

Armed(pos, price) == pos.runner_target > 0 /\ Reaches(Peaked(pos, price), pos.runner_target)

\* The rule of the runner, with its two reasons.
LEMMA RunnerRule ==
  ASSUME NEW pos \in Position, NEW price \in Nat, NEW velocity \in Int
  PROVE  RunnerSells(pos, price, velocity) <=>
           \/ Armed(pos, price) /\ velocity <= 0
           \/ 200 * price <=
                TrailPrice(Peaked(pos, price),
                           Narrowed(Armed(pos, price), Width(RunnerTrail, velocity, pos.celebrity)))
BY DEF RunnerSells, Armed, Narrowed, StallVelocity

\* The floor of both trails: a position above its trail is above its first fill.
THEOREM FloorHolds ==
  ASSUME NEW pos \in Position, NEW price \in Nat, NEW velocity \in Int
  PROVE  HeldAboveEntry(pos, price, velocity)
<1> DEFINE p == Peaked(pos, price)
<1>1. /\ p \in Position /\ p.peak \in Nat /\ p.original \in Nat /\ pos.original \in Nat
      /\ p.original = pos.original
  BY PeakedPosition DEF Position
<1>2. ASSUME NEW width \in Int, p.original > 0, p.peak > p.original,
             ~(200 * price <= TrailPrice(p, width))
      PROVE  price > p.original
  <2>1. p.peak * (200 - width) \in Int
    BY <1>1
  <2> HIDE DEF p
  <2>2. TrailPrice(p, width) >= 200 * p.original
    BY <1>1, <1>2, <2>1 DEF TrailPrice
  <2>3. TrailPrice(p, width) \in Int
    BY <1>1, <2>1 DEF TrailPrice
  <2> QED
    BY <1>1, <1>2, <2>2, <2>3
<1>3. pos.celebrity \in BOOLEAN
  BY DEF Position
<1>4. Narrowed(Armed(pos, price), Width(RunnerTrail, velocity, pos.celebrity)) \in Int
  BY <1>3, WidthRange DEF Narrowed
<1>5. Width(PreTp1Trail, velocity, pos.celebrity) \in Int
  BY <1>3, WidthRange
<1>6. ASSUME pos.original > 0, p.peak > pos.original, ~RunnerSells(pos, price, velocity)
      PROVE  price > pos.original
  BY <1>1, <1>2, <1>4, <1>6, RunnerRule
<1>7. ASSUME pos.original > 0, Reaches(p, ArmMultiple), ~PreTp1Sells(pos, price, velocity)
      PROVE  price > pos.original
  <2>1. p.peak > p.original
    BY <1>1, <1>7 DEF Reaches, ArmMultiple
  <2>2. ~(200 * price <= TrailPrice(p, Width(PreTp1Trail, velocity, pos.celebrity)))
    BY <1>7 DEF PreTp1Sells
  <2> QED
    BY <1>1, <1>2, <1>5, <1>7, <2>1, <2>2
<1> QED
  BY <1>6, <1>7 DEF HeldAboveEntry

\* A narrower trail sells all a wider one sells.
LEMMA NarrowerSells ==
  ASSUME NEW pos \in Position, NEW price \in Nat,
         NEW narrow \in 0..200, NEW wide \in 0..200, narrow <= wide,
         200 * price <= TrailPrice(pos, wide)
  PROVE  200 * price <= TrailPrice(pos, narrow)
<1> DEFINE high == TrailPrice(pos, narrow)
           low  == TrailPrice(pos, wide)
<1>1. high \in Int /\ low \in Int
  BY DEF TrailPrice, Position
<1>2. high >= low
  BY NarrowerIsHigher
<1>3. 200 * price <= low
  OBVIOUS
<1> HIDE DEF high, low
<1>4. 200 * price <= high
  BY <1>1, <1>2, <1>3
<1> QED
  BY <1>4 DEF high

\* The trail before the target sells nothing the trail after it would keep.
THEOREM PreTp1Wider ==
  ASSUME NEW pos \in Position, NEW price \in Nat, NEW velocity \in Int
  PROVE  PreTp1TrailIsWider(pos, price, velocity)
<1> DEFINE narrow == Narrowed(Armed(pos, price), Width(RunnerTrail, velocity, pos.celebrity))
           wide   == Width(PreTp1Trail, velocity, pos.celebrity)
<1>1. pos.celebrity \in BOOLEAN
  BY DEF Position
<1>2. narrow \in 0..200 /\ wide \in 0..200 /\ narrow <= wide
  BY <1>1, WidthRange DEF Narrowed
<1>3. Peaked(pos, price) \in Position
  BY PeakedPosition
<1>4. ASSUME PreTp1Sells(pos, price, velocity)
      PROVE  RunnerSells(pos, price, velocity)
  <2>1. 200 * price <= TrailPrice(Peaked(pos, price), wide)
    BY <1>4 DEF PreTp1Sells
  <2> HIDE DEF narrow, wide
  <2>2. 200 * price <= TrailPrice(Peaked(pos, price), narrow)
    BY <1>2, <1>3, <2>1, NarrowerSells
  <2> USE DEF narrow
  <2> QED
    BY <2>2, RunnerRule
<1> QED
  BY <1>4 DEF PreTp1TrailIsWider

\* The narrower trail sells whenever the wider one does.
LEMMA LessWidthSells ==
  ASSUME NEW pos \in Position, NEW other \in Position, NEW price \in Nat,
         NEW slow \in Int, NEW fast \in Int, slow <= fast,
         other.peak = pos.peak, other.original = pos.original, other.celebrity = pos.celebrity,
         Armed(other, price) => Armed(pos, price),
         RunnerSells(other, price, fast)
  PROVE  RunnerSells(pos, price, slow)
<1> DEFINE narrow == Narrowed(Armed(pos, price), Width(RunnerTrail, slow, pos.celebrity))
           wide   == Narrowed(Armed(other, price), Width(RunnerTrail, fast, other.celebrity))
<1>1. pos.celebrity \in BOOLEAN
  BY DEF Position
<1>2. narrow \in 0..200 /\ wide \in 0..200 /\ narrow <= wide
  <2>1. PICK s \in 40..140, f \in 40..140 :
          /\ s = Width(RunnerTrail, slow, pos.celebrity)
          /\ f = Width(RunnerTrail, fast, other.celebrity)
          /\ s <= f
    BY <1>1, WidthRange, WidthRises
  <2> QED
    BY <2>1 DEF Narrowed
<1>3. Peaked(pos, price) \in Position /\ Peaked(other, price) \in Position
  BY PeakedPosition
<1>4. CASE Armed(other, price) /\ fast <= 0
  BY <1>4, RunnerRule
<1>5. CASE 200 * price <= TrailPrice(Peaked(other, price), wide)
  <2>1. /\ Peaked(other, price).peak = Peaked(pos, price).peak
        /\ Peaked(other, price).original = Peaked(pos, price).original
    BY DEF Peaked, Position
  <2> HIDE DEF narrow, wide
  <2>2. 200 * price <= TrailPrice(Peaked(pos, price), wide)
    BY <1>5, <2>1 DEF TrailPrice
  <2>3. 200 * price <= TrailPrice(Peaked(pos, price), narrow)
    BY <1>2, <1>3, <2>2, NarrowerSells
  <2> USE DEF narrow
  <2> QED
    BY <2>3, RunnerRule
<1> QED
  BY <1>4, <1>5, RunnerRule

\* A slower move is sold wherever a faster one is.
THEOREM SlowerSells ==
  ASSUME NEW pos \in Position, NEW price \in Nat, NEW slow \in Int, NEW fast \in Int
  PROVE  SlowerSellsToo(pos, price, slow, fast)
BY LessWidthSells DEF SlowerSellsToo

\* A raised runner target sells nothing that the stored one would keep.
THEOREM RaisedTarget ==
  ASSUME NEW pos \in Position, NEW price \in Nat, NEW velocity \in Int, NEW target \in Nat
  PROVE  RaisedTargetLoosens(pos, price, velocity, target)
<1> DEFINE raised == [pos EXCEPT !.runner_target = target]
<1>1. /\ raised \in Position /\ raised.runner_target = target
      /\ raised.peak = pos.peak /\ raised.original = pos.original
      /\ raised.celebrity = pos.celebrity
  BY DEF Position
<1>2. ASSUME 0 < pos.runner_target, pos.runner_target <= target,
             Armed(raised, price)
      PROVE  Armed(pos, price)
  <2>1. PICK peak \in Nat, original \in Nat, mine \in Nat :
          /\ peak = Peaked(raised, price).peak /\ peak = Peaked(pos, price).peak
          /\ original = pos.original
          /\ original = Peaked(raised, price).original /\ original = Peaked(pos, price).original
          /\ mine = pos.runner_target
    BY <1>1, PeakedPosition DEF Peaked, Position
  <2>2. original > 0 /\ 100 * peak >= original * target
    <3>1. Reaches(Peaked(raised, price), target)
      BY <1>1, <1>2 DEF Armed
    <3> HIDE DEF raised
    <3> QED
      BY <2>1, <3>1 DEF Reaches
  <2>3. original * mine <= original * target
    BY <1>2, <2>1, Scales
  <2>4. original * mine \in Int /\ original * target \in Int
    OBVIOUS
  <2>5. 100 * peak >= original * mine
    BY <2>2, <2>3, <2>4
  <2>6. Reaches(Peaked(pos, price), mine) /\ mine > 0
    BY <1>2, <2>1, <2>2, <2>5 DEF Reaches
  <2> QED
    BY <2>1, <2>6 DEF Armed
<1> HIDE DEF raised
<1>3. ASSUME 0 < pos.runner_target, pos.runner_target <= target,
             RunnerSells(raised, price, velocity)
      PROVE  RunnerSells(pos, price, velocity)
  BY <1>1, <1>2, <1>3, LessWidthSells
<1> USE DEF raised
<1> QED
  BY <1>3 DEF RaisedTargetLoosens
-----------------------------------------------------------------------------
(* Targets *)

\* The runner target rises only, and beyond the quote that raised it.
THEOREM TargetRises ==
  ASSUME NEW stored \in Nat, NEW multiple \in Nat \ {0, 1}, NEW velocity \in Int
  PROVE  TargetOnlyRises(stored, multiple, velocity)
BY DEF TargetOnlyRises, AdaptedTarget, Greatest, Least, TargetMax, Bands

\* Whatever the row holds, both stages of the ladder exist and are apart.
THEOREM StagesStayApart ==
  ASSUME NEW stored \in Int, NEW runner \in Int
  PROVE  StagesApart(stored, runner)
BY DEF StagesApart, TriggerGain, TakeProfitTarget, RunnerTarget, DefaultTarget, Unknown
-----------------------------------------------------------------------------
(* The one slot of the company: what is known of the three books while the *)
(* treasury holds no position of an earlier build.                         *)

\* Positions that are held and that the pass has not sold yet.
Left == Held(mem) \ gone
Without(book, m) == {t \in book.trades : t.mint # m}
Today(trades) == {t \in trades : t.day = day}
MaxLoss == DailyLoss + Size + Cost

\* At most one position, whole and of the company; a pass looks at nothing else.
Hands ==
  /\ todo \subseteq Left /\ gone \subseteq Held(mem)
  /\ sale # NoSale => sale.mint \in todo /\ sale.step = "close"
  /\ lock = "check" => Held(mem) # {}
  /\ \A m \in Held(mem) : /\ m \in Candidate /\ m \in disk.rows
                          /\ mem.open[m] = "whole" /\ Held(mem) = {m}

\* What a failed write or a death can have left in another copy of the book: it is
\* wrong about the position that is left, and about nothing else.
Follows(book) ==
  /\ \A m \in Held(book) : m \in Left /\ book.open[m] = "whole"
  /\ \A m \in Left : Without(book, m) = Without(mem, m)
  /\ Left = {} => book.trades = mem.trades /\ book.balance = mem.balance

Listed(book) ==
  /\ IsFiniteSet(book.trades)
  /\ \A t \in book.trades : ~t.partial /\ t.day <= day /\ t.mint \in disk.rows

\* The breaker had not tripped before the position that is left.
DayHeld ==
  /\ \A m \in Left : PnlOf(Today(Without(mem, m))) > -DailyLoss
  /\ DayResult(conn) > -MaxLoss /\ DayResult(disk) > -MaxLoss

MoneyInv == /\ Hands /\ Follows(conn) /\ Follows(disk)
            /\ Listed(mem) /\ Listed(conn) /\ Listed(disk) /\ DayHeld

\* A plan waits for its entry on an empty slot, and an intent on a sound book.
DeskWaits ==
  /\ (At("review") \/ At("telling")) /\ desk.plan => Held(mem) = {}
  /\ At("buying") => Held(mem) = {} /\ Reconciles(mem)

SlotInv == MoneyInv /\ DeskWaits
RowsAgree == mem.rows = disk.rows /\ conn.rows = disk.rows

\* The loss of one position, costs included.
LEMMA WholeGross ==
  ASSUME NEW gain \in Gain
  PROVE  Gross(Size, gain) \in Int /\ Gross(Size, gain) >= -Size
<1>1. Size \in Nat \ {0} /\ gain \in Int /\ gain >= -Size
  BY TraderAssumption
<1>2. (Size * gain) \div Size = gain
  <2> DEFINE a == Size * gain
             q == a \div Size
  <2>1. a \in Int /\ Size * (a \div Size) <= a /\ a < Size * (a \div Size) + Size
    BY <1>1
  <2>2. q \in Int
    BY <1>1, <2>1
  <2>3. Size * q <= Size * gain /\ Size * gain < Size * q + Size
    BY <2>1
  <2> HIDE DEF q, a
  <2>4. Size * (gain - q) >= 0 /\ Size * (gain - q) < Size
    BY <1>1, <2>2, <2>3
  <2>5. gain - q >= 0 /\ gain - q < 1
    BY <1>1, <2>2, <2>4
  <2> QED BY <1>1, <2>2, <2>5 DEF q, a
<1> QED BY <1>1, <1>2 DEF Gross

\* An exit loses at most the position and its cost.
LEMMA ExitLoss ==
  ASSUME BooksOK, PassOK, Hands, sale # NoSale
  PROVE  Result \in Int /\ Result >= -(Size + Cost)
<1>1. sale \in SaleUnderWay /\ sale.mint \in Mint
  BY SaleAmounts
<1>2. sale.mint \in Held(mem) /\ mem.open[sale.mint] = "whole" /\ sale.gain \in Gain
  BY <1>1 DEF Hands, Left, SaleUnderWay
<1>3. Amount(mem.open[sale.mint]) = Size
  BY <1>2 DEF Amount
<1>4. Result = Gross(Size, sale.gain) - CostOf(sale.mint)
  BY <1>3 DEF Result
<1>5. CostOf(sale.mint) \in {0, Cost} /\ Cost \in Nat /\ Size \in Nat
  BY TraderAssumption DEF CostOf
<1>6. Gross(Size, sale.gain) \in Int /\ Gross(Size, sale.gain) >= -Size
  BY <1>2, WholeGross
<1> DEFINE gross == Gross(Size, sale.gain)
           cost  == CostOf(sale.mint)
<1>7. Result = gross - cost /\ gross \in Int /\ gross >= -Size /\ cost \in {0, Cost}
  BY <1>4, <1>5, <1>6
<1> HIDE DEF gross, cost
<1> QED BY <1>5, <1>7

\* What an exit changes of a book whose trades are of whole positions.
LEMMA ClosedParts ==
  ASSUME NEW book \in Book, NEW m \in Mint, NEW pnl \in Int,
         \A t \in book.trades : ~t.partial
  PROVE  /\ Closed(book, m, pnl).open = [book.open EXCEPT ![m] = "none"]
         /\ Closed(book, m, pnl).balance = book.balance
         /\ Closed(book, m, pnl).rows = book.rows
         /\ Closed(book, m, pnl).trades
              = Without(book, m) \cup {Trade(m, FALSE, pnl)}
         /\ Recorded(book, Trade(m, FALSE, pnl)).trades
              = Without(book, m) \cup {Trade(m, FALSE, pnl)}
         /\ Recorded(book, Trade(m, FALSE, pnl)).open = book.open
         /\ Recorded(book, Trade(m, FALSE, pnl)).balance = book.balance
<1> DEFINE trade == Trade(m, FALSE, pnl)
<1>1. trade.mint = m /\ trade.partial = FALSE
  BY DEF Trade
<1> HIDE DEF trade
<1>3. {t \in book.trades : t.mint # trade.mint \/ t.partial # trade.partial}
        = Without(book, m)
  BY <1>1 DEF Without, Book, Trades
<1>4. DOMAIN book = {"rows", "open", "checked", "balance", "trades"}
  BY DEF Book
<1> DEFINE away == [book EXCEPT !.open[m] = "none"]
<1>5. /\ away.open = [book.open EXCEPT ![m] = "none"] /\ away.trades = book.trades
      /\ away.balance = book.balance /\ away.rows = book.rows
      /\ DOMAIN away = DOMAIN book
  BY <1>4
<1>6. Closed(book, m, pnl) = Recorded(away, trade)
  BY DEF Closed, trade
<1> HIDE DEF away
<1>7. ASSUME NEW b, DOMAIN b = DOMAIN book, b.trades = book.trades
      PROVE  /\ Recorded(b, trade).trades = Without(book, m) \cup {trade}
             /\ Recorded(b, trade).open = b.open /\ Recorded(b, trade).rows = b.rows
             /\ Recorded(b, trade).balance = b.balance
  BY <1>3, <1>4, <1>7 DEF Recorded
<1>8. /\ Recorded(away, trade).trades = Without(book, m) \cup {trade}
      /\ Recorded(away, trade).open = away.open /\ Recorded(away, trade).rows = away.rows
      /\ Recorded(away, trade).balance = away.balance
  BY <1>5, <1>7
<1>9. /\ Recorded(book, trade).trades = Without(book, m) \cup {trade}
      /\ Recorded(book, trade).open = book.open
      /\ Recorded(book, trade).balance = book.balance
  BY <1>7
<1> QED BY <1>5, <1>6, <1>8, <1>9 DEF trade

\* What WithBalance changes.
LEMMA BalanceParts ==
  ASSUME NEW book \in Book, NEW amount
  PROVE  /\ WithBalance(book, amount).open = book.open
         /\ WithBalance(book, amount).trades = book.trades
         /\ WithBalance(book, amount).rows = book.rows
         /\ WithBalance(book, amount).balance = amount
BY DEF WithBalance, Book

\* What Entered changes.
LEMMA EnteredParts ==
  ASSUME NEW book \in Book, NEW m \in Mint
  PROVE  /\ Entered(book, m).open = [book.open EXCEPT ![m] = "whole"]
         /\ Entered(book, m).trades = book.trades
         /\ Entered(book, m).balance = book.balance
         /\ Entered(book, m).rows = book.rows \cup {m}
BY DEF Entered, Book
-----------------------------------------------------------------------------
(* Sums over exits.                                                        *)

\* The result of finitely many trades is a number.
LEMMA PnlInt ==
  ASSUME NEW T, IsFiniteSet(T), \A t \in T : t.pnl \in Int
  PROVE  PnlOf(T) \in Int
<1> DEFINE f == [t \in T |-> t.pnl]
<1>1. \A t \in T : f[t] \in Int
  OBVIOUS
<1> HIDE DEF f
<1>2. SumOf(f, T) \in Int
  BY <1>1, SumInt
<1> QED BY <1>2 DEF PnlOf, f

\* No trades have no result.
LEMMA PnlNone == PnlOf({}) = 0
BY SumEmpty DEF PnlOf

\* One exit more.
LEMMA PnlGrows ==
  ASSUME NEW T, IsFiniteSet(T), \A t \in T : t.pnl \in Int, NEW trade, trade \notin T,
         trade.pnl \in Int
  PROVE  PnlOf(T \cup {trade}) = PnlOf(T) + trade.pnl
<1> DEFINE f == [t \in T \cup {trade} |-> t.pnl]
           g == [t \in T |-> t.pnl]
<1>1. \A t \in T : f[t] = g[t] /\ g[t] \in Int
  OBVIOUS
<1>2. f[trade] = trade.pnl /\ f[trade] \in Int
  OBVIOUS
<1>3. PnlOf(T \cup {trade}) = SumOf(f, T \cup {trade}) /\ PnlOf(T) = SumOf(g, T)
  BY DEF PnlOf
<1>4. IsFiniteSet(T) /\ trade \notin T /\ f[trade] \in Int
  BY <1>2
<1> HIDE DEF f, g
<1>5. SumOf(f, T \cup {trade}) = SumOf(g, T) + f[trade]
  <2>1. \A t \in T \cup {trade} : f[t] \in Int
    BY <1>1, <1>4
  <2>2. SumOf(f, T \cup {trade}) = SumOf(f, T) + f[trade]
    BY <1>4, <2>1, SumAdd
  <2>3. SumOf(f, T) = SumOf(g, T)
    BY <1>1, <1>4, SumSame
  <2> QED BY <2>2, <2>3
<1> QED BY <1>2, <1>3, <1>5

\* A book after an exit: the result of the day is that of the other exits and its own.
LEMMA DayAfterExit ==
  ASSUME NEW book \in Book, IsFiniteSet(book.trades), day \in Nat,
         NEW m \in Mint, NEW pnl \in Int, NEW trades,
         trades = Without(book, m) \cup {Trade(m, FALSE, pnl)}
  PROVE  /\ PnlOf(Today(trades)) = PnlOf(Today(Without(book, m))) + pnl
         /\ PnlOf(Today(Without(book, m))) \in Int
<1> DEFINE trade == Trade(m, FALSE, pnl)
           T == Today(Without(book, m))
<1>1. trade.mint = m /\ trade.day = day /\ trade.pnl = pnl
  BY DEF Trade
<1>2. T \subseteq book.trades /\ \A t \in T : t.mint # m
  BY DEF Today, Without
<1>3. IsFiniteSet(T) /\ \A t \in T : t.pnl \in Int
  BY <1>2, FS_Subset DEF Book, Trades
<1>4. trade \notin T
  BY <1>1, <1>2
<1>5. Today(trades) = T \cup {trade}
  BY <1>1 DEF Today, trade
<1> HIDE DEF T, trade
<1>6. PnlOf(T \cup {trade}) = PnlOf(T) + trade.pnl /\ PnlOf(T) \in Int
  BY <1>1, <1>3, <1>4, PnlGrows, PnlInt
<1> QED BY <1>1, <1>5, <1>6 DEF T, trade
-----------------------------------------------------------------------------
(* The steps of the trader.                                                *)

\* Without legacy positions an exit is of the one position there is.
LEMMA SaleInHand ==
  ASSUME BooksOK, PassOK, Hands, sale # NoSale
  PROVE  /\ sale.mint \in Mint /\ sale.mint \in Candidate /\ sale.mint \in disk.rows
         /\ Held(mem) = {sale.mint} /\ Left = {sale.mint} /\ gone = {}
         /\ todo = {sale.mint} /\ mem.open[sale.mint] = "whole"
         /\ sale.step = "close" /\ lock = "check"
<1>1. sale.mint \in todo /\ sale.mint \in Left /\ sale.step = "close"
  BY DEF Hands
<1>2. sale.mint \in Held(mem) /\ sale.mint \notin gone
  BY <1>1 DEF Left
<1>3. /\ Held(mem) = {sale.mint} /\ sale.mint \in Candidate /\ sale.mint \in disk.rows
      /\ mem.open[sale.mint] = "whole"
  BY <1>2 DEF Hands
<1>4. gone = {} /\ Left = {sale.mint} /\ todo = {sale.mint}
  BY <1>1, <1>2, <1>3 DEF Hands, Left
<1>5. sale.mint \in Mint /\ lock = "check"
  BY SaleAmounts
<1> QED BY <1>1, <1>3, <1>4, <1>5

\* A pass that takes a step holds a position, and sells it whole.
LEMMA OwnPass ==
  ASSUME BooksOK, PassOK, Hands, PassStep
  PROVE  /\ Held(mem) # {}
         /\ \/ StartPass \/ WritesTrail \/ CloseCommits \/ CloseFails
            \/ \E m \in Mint : Holds(m)
            \/ \E m \in Mint, gain \in Gain : Sells(m, gain, "close") /\ UNCHANGED books
<1>1. ASSUME NEW m \in todo PROVE m \in Candidate /\ m \notin LegacyMint /\ Held(mem) # {}
  BY <1>1 DEF Hands, Left, Candidate
<1>2. sale # NoSale => sale.step = "close" /\ Held(mem) # {}
  BY <1>1 DEF Hands
<1>3. CASE StartPass
  BY <1>3 DEF StartPass
<1>4. CASE WritesTrail
  BY <1>4 DEF WritesTrail, Hands
<1>5. CASE CloseCommits \/ CloseFails
  BY <1>2, <1>5 DEF CloseCommits, CloseFails
<1>6. CASE TakeCommits \/ TakeFails \/ SaveCommits \/ SaveFails
  BY <1>2, <1>6 DEF TakeCommits, TakeFails, SaveCommits, SaveFails
<1>7. ASSUME NEW m \in Mint, Holds(m) PROVE Held(mem) # {}
  BY <1>1, <1>7 DEF Holds
<1>8. ASSUME NEW m \in Mint, NEW gain \in Gain, NEW choice \in BOOLEAN,
             MicroExit(m, gain, choice) \/ LegacyExit(m, gain, choice)
      PROVE  Held(mem) # {} /\ Sells(m, gain, "close") /\ UNCHANGED books
  BY <1>1, <1>8 DEF MicroExit, LegacyExit, Sells
<1>9. ASSUME NEW m \in Mint, NEW gain \in Gain,
             \/ TakeProfit(m, gain) \/ RecoverySells(m, gain)
             \/ RecoveryHolds(m, gain) \/ RecoveryFails(m, gain)
      PROVE  FALSE
  BY <1>1, <1>9 DEF TakeProfit, Sells, RecoverySells, RecoveryHolds, RecoveryFails, MayCheck
<1> QED BY <1>3, <1>4, <1>5, <1>6, <1>7, <1>8, <1>9 DEF PassStep

\* A step that leaves the books and what was sold alone.
LEMMA MoneyFrame ==
  ASSUME MoneyInv, UNCHANGED books, gone' = gone, day' = day, todo' \subseteq Left,
         sale' # NoSale => sale'.mint \in todo' /\ sale'.step = "close",
         lock' = "check" => Held(mem) # {}
  PROVE  MoneyInv'
<1>1. Hands'
  BY DEF MoneyInv, Hands, Left, Held, books
<1>2. Follows(conn)' /\ Follows(disk)'
  BY DEF MoneyInv, Follows, Left, Held, Without, books
<1>3. Listed(mem)' /\ Listed(conn)' /\ Listed(disk)'
  BY DEF MoneyInv, Listed, books
<1>4. DayHeld'
  BY DEF MoneyInv, DayHeld, Left, Held, Without, Today, DayResult, books
<1> QED BY <1>1, <1>2, <1>3, <1>4 DEF MoneyInv

\* What an exit writes: the position is gone, and the day bears its loss.
LEMMA ExitWritten ==
  ASSUME BooksOK, PassOK, RowsAgree, MoneyInv, sale # NoSale,
         NEW c, c \in {Closed(conn, sale.mint, Result),
                       WithBalance(Closed(conn, sale.mint, Result), Proceeds)}
  PROVE  /\ Held(c) = {} /\ c.rows = disk.rows
         /\ c.trades = Without(mem, sale.mint) \cup {Trade(sale.mint, FALSE, Result)}
         /\ Without(c, sale.mint) = Without(mem, sale.mint)
         /\ IsFiniteSet(c.trades)
         /\ \A t \in c.trades : ~t.partial /\ t.day <= day /\ t.mint \in disk.rows
         /\ PnlOf(Today(c.trades)) > -MaxLoss
<1> DEFINE m == sale.mint
           trade == Trade(m, FALSE, Result)
<1>1. /\ Hands /\ Follows(conn) /\ Listed(conn) /\ DayHeld
      /\ m \in Mint /\ m \in disk.rows /\ Left = {m}
  BY SaleInHand DEF MoneyInv
<1>2. Result \in Int /\ Result >= -(Size + Cost) /\ Proceeds \in Int
  BY <1>1, ExitLoss, SaleAmounts
<1>3. conn \in Book /\ day \in Nat /\ tick \in Nat /\ \A t \in conn.trades : ~t.partial
  BY <1>1 DEF BooksOK, PassOK, Listed
<1>4. Closed(conn, m, Result) \in Book
  BY <1>1, <1>2, <1>3, ClosedOK
<1>5. /\ c.open = [conn.open EXCEPT ![m] = "none"] /\ c.rows = conn.rows
      /\ c.trades = Without(conn, m) \cup {trade}
  <2>1. /\ Closed(conn, m, Result).open = [conn.open EXCEPT ![m] = "none"]
        /\ Closed(conn, m, Result).rows = conn.rows
        /\ Closed(conn, m, Result).trades = Without(conn, m) \cup {trade}
    BY <1>1, <1>2, <1>3, ClosedParts
  <2> DEFINE d == Closed(conn, m, Result)
  <2>2. d \in Book /\ c \in {d, WithBalance(d, Proceeds)}
    BY <1>4
  <2>3. /\ d.open = [conn.open EXCEPT ![m] = "none"] /\ d.rows = conn.rows
        /\ d.trades = Without(conn, m) \cup {trade}
    BY <2>1
  <2> HIDE DEF d
  <2>4. /\ WithBalance(d, Proceeds).open = d.open /\ WithBalance(d, Proceeds).rows = d.rows
        /\ WithBalance(d, Proceeds).trades = d.trades
    BY <2>2, BalanceParts
  <2> QED BY <2>2, <2>3, <2>4
<1>6. Held(c) = {}
  <2>1. \A x \in Mint : x # m => conn.open[x] = "none"
    BY <1>1 DEF Follows, Held
  <2>2. conn.open \in [Mint -> Stages]
    BY <1>3 DEF Book
  <2> QED BY <1>5, <2>1, <2>2 DEF Held
<1>7. trade.mint = m /\ trade.partial = FALSE /\ trade.day = day
  BY DEF Trade
<1> HIDE DEF trade
<1>8. Without(conn, m) = Without(mem, m)
  BY <1>1 DEF Follows
<1>9. Without(c, m) = Without(conn, m)
  BY <1>5, <1>7 DEF Without
<1>10. IsFiniteSet(Without(conn, m)) /\ Without(conn, m) \subseteq conn.trades
  BY <1>1, FS_Subset DEF Without, Listed
<1>11. IsFiniteSet(c.trades)
  BY <1>5, <1>10, FS_AddElement
<1>12. \A t \in c.trades : ~t.partial /\ t.day <= day /\ t.mint \in disk.rows
  BY <1>1, <1>3, <1>5, <1>7, <1>10 DEF Listed
<1>13. PnlOf(Today(c.trades)) > -MaxLoss
  <2> DEFINE before == PnlOf(Today(Without(conn, m)))
             after  == PnlOf(Today(c.trades))
  <2>1. IsFiniteSet(conn.trades)
    BY <1>1 DEF Listed
  <2>2. after = before + Result /\ before \in Int
    <3>1. c.trades = Without(conn, m) \cup {Trade(m, FALSE, Result)}
      BY <1>5 DEF trade
    <3>2. m \in Mint /\ Result \in Int /\ day \in Nat /\ conn \in Book
      BY <1>1, <1>2, <1>3
    <3> HIDE DEF m
    <3> QED BY <2>1, <3>1, <3>2, DayAfterExit
  <2>3. PnlOf(Today(Without(mem, m))) > -DailyLoss
    BY <1>1 DEF DayHeld
  <2>4. before > -DailyLoss
    BY <1>8, <2>3
  <2>5. DailyLoss \in Int /\ Size \in Int /\ Cost \in Int
    BY TraderAssumption
  <2> HIDE DEF before, after
  <2>6. after > -MaxLoss
    BY <1>2, <2>2, <2>4, <2>5 DEF MaxLoss
  <2> QED BY <2>6 DEF after
<1> QED BY <1>5, <1>6, <1>8, <1>9, <1>11, <1>12, <1>13 DEF RowsAgree, trade

\* The sale succeeds: all three books agree again.
LEMMA CloseCommitsMoney ==
  ASSUME BooksOK, PassOK, RowsAgree, MoneyInv, CloseCommits
  PROVE  MoneyInv' /\ Held(mem)' = Held(mem)
<1> DEFINE m == sale.mint
           d == Closed(conn, m, Result)
           c == WithBalance(d, Proceeds)
           trade == Trade(m, FALSE, Result)
           paid == WithBalance(mem, Proceeds)
<1>1. /\ sale # NoSale /\ conn' = c /\ disk' = c
      /\ mem' = Recorded(paid, trade)
      /\ gone' = gone \cup {m} /\ todo' = todo \ {m} /\ sale' = NoSale
      /\ lock' = lock /\ day' = day
  BY DEF CloseCommits, SaleEnds
<1>2. /\ m \in Mint /\ m \in Candidate /\ m \in disk.rows /\ Held(mem) = {m}
      /\ gone = {} /\ todo = {m} /\ mem.open[m] = "whole"
  BY <1>1, SaleInHand DEF MoneyInv
<1>3. Result \in Int /\ Proceeds \in Int /\ tick \in Nat /\ day \in Nat
  BY <1>1, SaleAmounts DEF PassOK
<1>4. /\ Held(c) = {} /\ c.rows = disk.rows
      /\ c.trades = Without(mem, m) \cup {trade}
      /\ IsFiniteSet(c.trades)
      /\ \A t \in c.trades : ~t.partial /\ t.day <= day /\ t.mint \in disk.rows
      /\ PnlOf(Today(c.trades)) > -MaxLoss
  BY <1>1, ExitWritten
<1>5. d \in Book
  BY <1>2, <1>3, ClosedOK DEF BooksOK
<1>6. c.balance = Proceeds
  <2> HIDE DEF d
  <2> QED BY <1>5, BalanceParts
<1>7. /\ paid \in Book /\ paid.open = mem.open /\ paid.trades = mem.trades
      /\ paid.balance = Proceeds
  BY <1>3, BalanceParts, BalanceOK DEF BooksOK
<1>8. \A t \in mem.trades : ~t.partial
  BY DEF MoneyInv, Listed
<1> HIDE DEF paid, c, d
<1>9. /\ mem'.open = mem.open /\ mem'.balance = Proceeds
      /\ mem'.trades = Without(mem, m) \cup {trade}
  <2>1. /\ Recorded(paid, trade).trades = Without(paid, m) \cup {trade}
        /\ Recorded(paid, trade).open = paid.open
        /\ Recorded(paid, trade).balance = paid.balance
    <3>1. m \in Mint /\ Result \in Int /\ paid \in Book /\ \A t \in paid.trades : ~t.partial
      BY <1>2, <1>3, <1>7, <1>8
    <3> HIDE DEF m
    <3> QED BY <3>1, ClosedParts DEF trade
  <2>2. Without(paid, m) = Without(mem, m)
    BY <1>7 DEF Without
  <2> QED BY <1>1, <1>7, <2>1, <2>2
<1> HIDE DEF m, trade
<1>10. Held(mem)' = {m} /\ gone' = {m} /\ Left' = {}
  BY <1>1, <1>2, <1>9 DEF Held, Left
<1>11. Hands'
  BY <1>1, <1>2, <1>4, <1>9, <1>10 DEF Hands
<1>12. Held(conn)' = {} /\ Held(disk)' = {}
  BY <1>1, <1>4 DEF Held
<1>13. /\ conn'.trades = mem'.trades /\ disk'.trades = mem'.trades
       /\ conn'.balance = mem'.balance /\ disk'.balance = mem'.balance
  BY <1>1, <1>4, <1>6, <1>9
<1>14. Follows(conn)' /\ Follows(disk)'
  BY <1>10, <1>12, <1>13 DEF Follows
<1>15. Listed(mem)' /\ Listed(conn)' /\ Listed(disk)'
  BY <1>1, <1>4, <1>13 DEF Listed
<1>16. DayHeld'
  BY <1>1, <1>4, <1>10 DEF DayHeld, DayResult, Today
<1> QED BY <1>2, <1>10, <1>11, <1>14, <1>15, <1>16 DEF MoneyInv

\* The sale fails: what it has written waits on the connection.
LEMMA CloseFailsMoney ==
  ASSUME BooksOK, PassOK, RowsAgree, MoneyInv, CloseFails
  PROVE  MoneyInv' /\ Held(mem)' = Held(mem)
<1> DEFINE m == sale.mint
<1>1. /\ sale # NoSale /\ mem' = mem /\ disk' = disk /\ gone' = gone
      /\ conn' \in {conn, Closed(conn, m, Result),
                    WithBalance(Closed(conn, m, Result), Proceeds)}
      /\ todo' = todo \ {m} /\ sale' = NoSale /\ lock' = lock /\ day' = day
  BY DEF CloseFails, SaleEnds
<1>2. /\ Held(mem) = {m} /\ Left = {m} /\ todo = {m} /\ lock = "check"
      /\ Hands /\ Follows(conn) /\ Follows(disk) /\ DayHeld
      /\ Listed(mem) /\ Listed(conn) /\ Listed(disk)
  BY <1>1, SaleInHand DEF MoneyInv
<1>3. CASE conn' = conn
  <2>1. UNCHANGED books /\ todo' \subseteq Left
    BY <1>1, <1>2, <1>3 DEF books
  <2>2. MoneyInv'
    BY <1>1, <1>2, <2>1, MoneyFrame
  <2> QED BY <1>1, <2>2 DEF Held
<1>4. CASE conn' # conn
  <2>1. /\ Held(conn') = {} /\ Without(conn', m) = Without(mem, m)
        /\ IsFiniteSet(conn'.trades)
        /\ \A t \in conn'.trades : ~t.partial /\ t.day <= day /\ t.mint \in disk.rows
        /\ PnlOf(Today(conn'.trades)) > -MaxLoss
    <3>1. conn' \in {Closed(conn, m, Result), WithBalance(Closed(conn, m, Result), Proceeds)}
      BY <1>1, <1>4
    <3> QED BY <1>1, <3>1, ExitWritten
  <2> HIDE DEF m
  <2>2. Held(mem)' = Held(mem) /\ Left' = {m}
    BY <1>1, <1>2 DEF Held, Left
  <2>3. Hands'
    BY <1>1, <1>2, <2>2 DEF Hands
  <2>4. Follows(disk)'
    BY <1>1, <1>2, <2>2 DEF Follows, Held, Without
  <2>5. Follows(conn)'
    BY <1>1, <2>1, <2>2 DEF Follows, Held, Without
  <2>6. Listed(mem)' /\ Listed(conn)' /\ Listed(disk)'
    BY <1>1, <1>2, <2>1 DEF Listed
  <2>7. DayHeld'
    BY <1>1, <1>2, <2>1, <2>2 DEF DayHeld, DayResult, Today, Without
  <2> QED BY <2>2, <2>3, <2>4, <2>5, <2>6, <2>7 DEF MoneyInv
<1> QED BY <1>3, <1>4

\* Every step of a pass.
LEMMA PassMoney ==
  ASSUME BooksOK, PassOK, RowsAgree, MoneyInv, PassStep
  PROVE  MoneyInv' /\ Held(mem) # {} /\ Held(mem)' = Held(mem)
<1>1. /\ Held(mem) # {}
      /\ \/ StartPass \/ WritesTrail \/ CloseCommits \/ CloseFails
         \/ \E m \in Mint : Holds(m)
         \/ \E m \in Mint, gain \in Gain : Sells(m, gain, "close") /\ UNCHANGED books
  BY OwnPass DEF MoneyInv
<1>2. /\ Hands /\ Follows(conn) /\ Follows(disk) /\ DayHeld
      /\ Listed(mem) /\ Listed(conn) /\ Listed(disk)
  BY DEF MoneyInv
<1>3. ASSUME UNCHANGED books PROVE Held(mem)' = Held(mem)
  BY <1>3 DEF books, Held
<1>4. CASE StartPass
  <2>1. /\ lock = "free" /\ todo' = Held(mem) /\ UNCHANGED <<books, gone, sale, day>>
    BY <1>4 DEF StartPass
  <2>2. gone = {} /\ sale = NoSale
    BY <2>1 DEF PassOK
  <2>3. todo' \subseteq Left
    BY <2>1, <2>2 DEF Left
  <2> QED BY <1>1, <1>3, <2>1, <2>2, <2>3, MoneyFrame
<1>5. CASE WritesTrail
  <2>1. disk' = conn /\ UNCHANGED <<mem, conn, lock, todo, gone, sale, day>>
    BY <1>5 DEF WritesTrail, pass
  <2>2. Held(mem)' = Held(mem) /\ Left' = Left /\ disk'.rows = disk.rows
    BY <2>1 DEF Held, Left, RowsAgree
  <2>3. Hands'
    BY <1>2, <2>1, <2>2 DEF Hands
  <2>4. Follows(conn)' /\ Follows(disk)'
    BY <1>2, <2>1, <2>2 DEF Follows, Held, Without
  <2>5. Listed(mem)' /\ Listed(conn)' /\ Listed(disk)'
    BY <1>2, <2>1, <2>2 DEF Listed
  <2>6. DayHeld'
    BY <1>2, <2>1, <2>2 DEF DayHeld, DayResult, Today, Without
  <2> QED BY <1>1, <2>2, <2>3, <2>4, <2>5, <2>6 DEF MoneyInv
<1>6. ASSUME NEW m \in Mint, Holds(m)
      PROVE  MoneyInv' /\ Held(mem)' = Held(mem)
  <2>1. /\ todo' = todo \ {m} /\ sale = NoSale /\ UNCHANGED <<books, lock, gone, sale, day>>
    BY <1>6 DEF Holds
  <2>2. todo' \subseteq Left
    BY <1>2, <2>1 DEF Hands
  <2> QED BY <1>1, <1>3, <2>1, <2>2, MoneyFrame
<1>7. ASSUME NEW m \in Mint, NEW gain \in Gain, Sells(m, gain, "close"), UNCHANGED books
      PROVE  MoneyInv' /\ Held(mem)' = Held(mem)
  <2>1. /\ m \in todo /\ sale' = [mint |-> m, gain |-> gain, step |-> "close"]
        /\ UNCHANGED <<lock, todo, gone, day>>
    BY <1>7 DEF Sells
  <2>2. todo' \subseteq Left /\ sale'.mint \in todo' /\ sale'.step = "close"
    BY <1>2, <2>1 DEF Hands
  <2> QED BY <1>1, <1>3, <1>7, <2>1, <2>2, MoneyFrame
<1> QED BY <1>1, <1>4, <1>5, <1>6, <1>7, CloseCommitsMoney, CloseFailsMoney

\* Nothing was lost yet on a new day.
LEMMA NewDayMoney ==
  ASSUME BooksOK, PassOK, MoneyInv, NextDay
  PROVE  MoneyInv' /\ Held(mem)' = Held(mem)
<1>1. /\ day \in Nat /\ day' = day + 1 /\ UNCHANGED <<mem, conn, disk, lock, todo, gone, sale>>
  BY DEF NextDay, PassOK, pass, books
<1>2. /\ Hands /\ Follows(conn) /\ Follows(disk)
      /\ Listed(mem) /\ Listed(conn) /\ Listed(disk)
  BY DEF MoneyInv
<1>3. /\ \A t \in mem.trades : t.day <= day => t.day # day'
      /\ \A t \in mem.trades \cup conn.trades \cup disk.trades : t.day # day'
  <2>1. ASSUME NEW t \in mem.trades \cup conn.trades \cup disk.trades PROVE t.day # day'
    <3>1. t.day <= day
      BY <1>2 DEF Listed
    <3>2. ~(day + 1 <= day)
      BY <1>1
    <3> QED BY <1>1, <3>1, <3>2
  <2> QED BY <2>1
<1>4. ASSUME NEW T, T \subseteq mem.trades \cup conn.trades \cup disk.trades
      PROVE  {t \in T : t.day = day'} = {}
  BY <1>3, <1>4
<1>5. 0 > -DailyLoss /\ 0 > -MaxLoss
  BY TraderAssumption DEF MaxLoss
<1>6. Held(mem)' = Held(mem) /\ Left' = Left
  BY <1>1 DEF Held, Left
<1>7. DayHeld'
  <2>1. ASSUME NEW m \in Left' PROVE PnlOf(Today(Without(mem, m)))' > -DailyLoss
    <3>1. Today(Without(mem, m))' = {t \in Without(mem, m) : t.day = day'}
      BY <1>1 DEF Today, Without
    <3>2. Today(Without(mem, m))' = {}
      BY <3>1, <1>4 DEF Without
    <3> QED BY <1>5, <3>2, PnlNone
  <2>2. DayResult(conn)' > -MaxLoss
    <3>1. {t \in conn.trades : t.day = day}' = {}
      BY <1>1, <1>4
    <3> QED BY <1>5, <3>1, PnlNone DEF DayResult
  <2>3. DayResult(disk)' > -MaxLoss
    <3>1. {t \in disk.trades : t.day = day}' = {}
      BY <1>1, <1>4
    <3> QED BY <1>5, <3>1, PnlNone DEF DayResult
  <2> QED BY <2>1, <2>2, <2>3 DEF DayHeld
<1>8. Hands' /\ Follows(conn)' /\ Follows(disk)'
  BY <1>1, <1>2, <1>6 DEF Hands, Follows, Held, Without
<1>9. Listed(mem)' /\ Listed(conn)' /\ Listed(disk)'
  <2>1. ASSUME NEW t \in mem.trades \cup conn.trades \cup disk.trades PROVE t.day <= day'
    <3>1. t.day <= day
      BY <1>2 DEF Listed
    <3>2. t.day \in Int
      BY DEF BooksOK, Book, Trades
    <3> QED BY <1>1, <3>1, <3>2
  <2> QED BY <1>1, <1>2, <2>1 DEF Listed
<1> QED BY <1>6, <1>7, <1>8, <1>9 DEF MoneyInv

\* The pass is over: memory drops what was sold.
LEMMA EndPassMoney ==
  ASSUME BooksOK, PassOK, MoneyInv, EndPass
  PROVE  MoneyInv' /\ Held(mem) # {}
<1>1. /\ lock = "check" /\ todo = {} /\ sale = NoSale
      /\ mem' = [mem EXCEPT !.open = [m \in Mint |-> IF m \in gone THEN "none" ELSE @[m]]]
      /\ gone' = {} /\ lock' = "free"
      /\ UNCHANGED <<conn, disk, todo, sale, day>>
  BY DEF EndPass
<1>2. /\ Hands /\ Follows(conn) /\ Follows(disk) /\ DayHeld
      /\ Listed(mem) /\ Listed(conn) /\ Listed(disk)
  BY DEF MoneyInv
<1>3. /\ mem'.open = [m \in Mint |-> IF m \in gone THEN "none" ELSE mem.open[m]]
      /\ mem'.trades = mem.trades /\ mem'.balance = mem.balance
  BY <1>1 DEF BooksOK, Book
<1>4. Held(mem)' = Left /\ Left' = Left
  BY <1>1, <1>3 DEF Held, Left
<1>5. \A m \in Left : m \in Held(mem) /\ m \notin gone /\ mem'.open[m] = mem.open[m]
  BY <1>3 DEF Held, Left
<1>6. Hands'
  <2>1. \A m \in Left : Left = {m}
    BY <1>2 DEF Hands, Left
  <2> QED BY <1>1, <1>2, <1>4, <1>5, <2>1 DEF Hands
<1>7. Follows(conn)' /\ Follows(disk)'
  BY <1>1, <1>2, <1>3, <1>4 DEF Follows, Held, Without
<1>8. Listed(mem)' /\ Listed(conn)' /\ Listed(disk)'
  BY <1>1, <1>2, <1>3 DEF Listed
<1>9. DayHeld'
  BY <1>1, <1>2, <1>3, <1>4 DEF DayHeld, DayResult, Today, Without
<1> QED BY <1>1, <1>2, <1>6, <1>7, <1>8, <1>9 DEF MoneyInv, Hands

\* A restart keeps what was committed, with the position or without it.
LEMMA RestartMoney ==
  ASSUME BooksOK, PassOK, RowsAgree, MoneyInv, TraderRestart
  PROVE  MoneyInv'
<1>1. /\ mem' = disk /\ conn' = disk /\ disk' = disk /\ lock' = "free"
      /\ todo' = {} /\ gone' = {} /\ sale' = NoSale /\ day' = day
  BY DEF TraderRestart
<1>2. /\ Hands /\ Follows(disk) /\ DayHeld /\ Listed(disk)
  BY DEF MoneyInv
<1>3. Held(mem)' = Held(disk) /\ Left' = Held(disk)
  BY <1>1 DEF Held, Left
<1>4. \A m \in Held(disk) : /\ m \in Left /\ m \in Held(mem) /\ disk.open[m] = "whole"
                            /\ Without(disk, m) = Without(mem, m)
  BY <1>2 DEF Follows, Left
<1>5. Hands'
  <2>1. \A m \in Held(disk) : m \in Candidate /\ m \in disk.rows /\ Held(mem) = {m}
    BY <1>2, <1>4 DEF Hands
  <2>2. \A m \in Held(disk) : Held(disk) = {m}
    BY <1>4, <2>1
  <2> QED BY <1>1, <1>3, <1>4, <2>1, <2>2 DEF Hands
<1>6. Follows(conn)' /\ Follows(disk)'
  BY <1>1, <1>3, <1>4 DEF Follows, Held
<1>7. Listed(mem)' /\ Listed(conn)' /\ Listed(disk)'
  BY <1>1, <1>2 DEF Listed
<1>8. DayHeld'
  BY <1>1, <1>2, <1>3, <1>4 DEF DayHeld, DayResult, Today, Without
<1> QED BY <1>5, <1>6, <1>7, <1>8 DEF MoneyInv

\* A buy that fails leaves what was committed, and that agrees with memory.
LEMMA BuyFailsMoney ==
  ASSUME BooksOK, PassOK, RowsAgree, MoneyInv, BuyFails
  PROVE  MoneyInv' /\ Held(mem)' = Held(mem)
<1>1. /\ lock = "buy" /\ conn' = disk /\ lock' = "free"
      /\ UNCHANGED <<mem, disk, todo, gone, sale, day>>
  BY DEF BuyFails, Unlocks
<1>2. /\ Hands /\ Follows(conn) /\ Follows(disk) /\ DayHeld
      /\ Listed(mem) /\ Listed(conn) /\ Listed(disk)
  BY DEF MoneyInv
<1>3. Held(mem)' = Held(mem) /\ Left' = Left
  BY <1>1 DEF Held, Left
<1>4. Hands'
  BY <1>1, <1>2, <1>3 DEF Hands
<1>5. Follows(conn)' /\ Follows(disk)'
  BY <1>1, <1>2, <1>3 DEF Follows, Held, Without
<1>6. Listed(mem)' /\ Listed(conn)' /\ Listed(disk)'
  BY <1>1, <1>2 DEF Listed
<1>7. DayHeld'
  BY <1>1, <1>2, <1>3 DEF DayHeld, DayResult, Today, Without
<1> QED BY <1>3, <1>4, <1>5, <1>6, <1>7 DEF MoneyInv

\* An entry: the slot was free, so the three books agreed.
LEMMA BuyCommitsMoney ==
  ASSUME BooksOK, PassOK, RowsAgree, MoneyInv, NEW m \in Candidate, m \notin disk.rows,
         BuyCommits(m)
  PROVE  /\ MoneyInv' /\ SameMoney(mem, disk) /\ disk.trades = mem.trades
         /\ SameMoney(mem', disk') /\ disk'.trades = mem.trades
         /\ disk.open = [k \in Mint |-> "none"]
         /\ disk'.open = [[k \in Mint |-> "none"] EXCEPT ![m] = "whole"]
         /\ disk'.balance = mem.balance - Size
<1> DEFINE paid == mem.balance - Size
<1>1. /\ lock = "buy" /\ MayEnter(mem)
      /\ conn' = WithBalance(Entered(conn, m), paid)
      /\ disk' = conn'
      /\ mem' = WithBalance(Entered(mem, m), paid)
      /\ UNCHANGED <<lock, todo, gone, sale, day>>
  BY DEF BuyCommits, pass
<1>2. /\ Hands /\ Follows(conn) /\ Follows(disk) /\ DayHeld
      /\ Listed(mem) /\ Listed(conn) /\ Listed(disk)
  BY DEF MoneyInv
<1>3. /\ Held(mem) = {} /\ DayResult(mem) > -DailyLoss
      /\ todo = {} /\ gone = {} /\ sale = NoSale /\ Left = {} /\ m \in Mint
  BY <1>1 DEF MayEnter, PassOK, Left, Candidate
<1>4. /\ conn.trades = mem.trades /\ disk.trades = mem.trades
      /\ conn.balance = mem.balance /\ disk.balance = mem.balance
      /\ Held(conn) = {} /\ Held(disk) = {}
  BY <1>2, <1>3 DEF Follows
<1>5. /\ mem \in Book /\ conn \in Book /\ disk \in Book /\ paid \in Int
      /\ mem.open \in [Mint -> Stages] /\ conn.open \in [Mint -> Stages]
      /\ disk.open \in [Mint -> Stages]
  BY TraderAssumption DEF BooksOK, Book
<1>6. ASSUME NEW b \in Book, Held(b) = {} PROVE b.open = [k \in Mint |-> "none"]
  <2>1. b.open \in [Mint -> Stages]
    BY DEF Book
  <2>2. \A k \in Mint : b.open[k] = "none"
    BY <1>6 DEF Held
  <2> QED BY <2>1, <2>2
<1> HIDE DEF paid
<1>7. ASSUME NEW b \in Book
      PROVE  /\ WithBalance(Entered(b, m), paid).open = [b.open EXCEPT ![m] = "whole"]
             /\ WithBalance(Entered(b, m), paid).trades = b.trades
             /\ WithBalance(Entered(b, m), paid).rows = b.rows \cup {m}
             /\ WithBalance(Entered(b, m), paid).balance = paid
  <2> DEFINE e == Entered(b, m)
  <2>1. /\ e \in Book /\ e.open = [b.open EXCEPT ![m] = "whole"]
        /\ e.trades = b.trades /\ e.rows = b.rows \cup {m}
    BY <1>3, EnteredOK, EnteredParts
  <2> HIDE DEF e
  <2>2. /\ WithBalance(e, paid).open = e.open /\ WithBalance(e, paid).trades = e.trades
        /\ WithBalance(e, paid).rows = e.rows /\ WithBalance(e, paid).balance = paid
    BY <2>1, BalanceParts
  <2> QED BY <2>1, <2>2 DEF e
<1> DEFINE none == [k \in Mint |-> "none"]
<1>8. /\ mem'.open = [none EXCEPT ![m] = "whole"] /\ disk'.open = [none EXCEPT ![m] = "whole"]
      /\ mem'.trades = mem.trades /\ disk'.trades = mem.trades
      /\ mem'.balance = paid /\ disk'.balance = paid /\ disk'.rows = disk.rows \cup {m}
      /\ disk.open = none /\ mem.open = none /\ conn' = disk'
  BY <1>1, <1>3, <1>4, <1>5, <1>6, <1>7 DEF RowsAgree
<1>9. \A k \in Mint : [none EXCEPT ![m] = "whole"][k] = IF k = m THEN "whole" ELSE "none"
  OBVIOUS
<1> HIDE DEF none
<1>10. Held(mem)' = {m} /\ Held(disk)' = {m} /\ Held(conn)' = {m} /\ Left' = {m}
  BY <1>1, <1>3, <1>8, <1>9 DEF Held, Left
<1>11. mem'.open[m] = "whole" /\ disk'.open[m] = "whole" /\ conn'.open[m] = "whole"
  BY <1>3, <1>8, <1>9
<1>12. Hands'
  BY <1>1, <1>3, <1>8, <1>10, <1>11 DEF Hands
<1>13. Follows(conn)' /\ Follows(disk)'
  BY <1>8, <1>10, <1>11 DEF Follows, Without
<1>14. Listed(mem)' /\ Listed(conn)' /\ Listed(disk)'
  BY <1>1, <1>2, <1>8 DEF Listed
<1>15. DayHeld'
  <2>1. Without(mem, m)' = mem.trades
    BY <1>2, <1>4, <1>8 DEF Without, Listed
  <2>2. Today(Without(mem, m))' = {t \in mem.trades : t.day = day}
    BY <1>1, <2>1 DEF Today
  <2>3. PnlOf(Today(Without(mem, m)))' > -DailyLoss
    BY <1>3, <2>2 DEF DayResult
  <2>4. DayResult(conn)' = DayResult(conn) /\ DayResult(disk)' = DayResult(disk)
    BY <1>1, <1>4, <1>8 DEF DayResult
  <2> QED BY <1>2, <1>10, <2>3, <2>4 DEF DayHeld
<1>16. MoneyInv'
  BY <1>12, <1>13, <1>14, <1>15 DEF MoneyInv
<1> QED BY <1>4, <1>8, <1>16 DEF SameMoney, none, paid

\* Two books that differ in one position differ by its amount.
LEMMA ExposureMoves ==
  ASSUME NEW a, NEW b, NEW m \in Mint,
         \A k \in Mint : k # m => b.open[k] = a.open[k]
  PROVE  /\ Exposure(b) = Exposure(a) - Amount(a.open[m]) + Amount(b.open[m])
         /\ Exposure(a) \in Int /\ Exposure(b) \in Int
<1> DEFINE f == [k \in Mint |-> Amount(a.open[k])]
           g == [k \in Mint |-> Amount(b.open[k])]
           rest == Mint \ {m}
<1>1. \A stage : Amount(stage) \in Int
  <2>1. Size \in Int /\ Sold \in Int
    BY TraderAssumption, Amounts DEF Sold
  <2> QED BY <2>1 DEF Amount
<1>2. /\ \A k \in Mint : f[k] \in Int /\ g[k] \in Int
      /\ f[m] = Amount(a.open[m]) /\ g[m] = Amount(b.open[m])
      /\ \A k \in rest : f[k] = g[k]
  BY <1>1
<1>3. IsFiniteSet(Mint) /\ IsFiniteSet(rest) /\ rest \subseteq Mint
  BY TraderAssumption, FS_Subset
<1>4. Exposure(a) = SumOf(f, Mint) /\ Exposure(b) = SumOf(g, Mint)
  BY DEF Exposure
<1> HIDE DEF f, g
<1>5. SumOf(f, Mint) = f[m] + SumOf(f, rest) /\ SumOf(g, Mint) = g[m] + SumOf(g, rest)
  BY <1>2, <1>3, SumTakeOut
<1>6. SumOf(f, rest) = SumOf(g, rest) /\ SumOf(f, rest) \in Int
  <2> HIDE DEF rest
  <2>1. \A k \in rest : f[k] \in Int
    BY <1>2, <1>3
  <2> QED BY <1>2, <1>3, <2>1, SumSame, SumInt
<1>7. f[m] \in Int /\ g[m] \in Int
  BY <1>2
<1> HIDE DEF rest
<1> QED BY <1>2, <1>4, <1>5, <1>6, <1>7

\* What a book has realised is a number.
LEMMA RealisedInt ==
  ASSUME NEW book \in Book, IsFiniteSet(book.trades)
  PROVE  Realised(book) \in Int
<1>1. \A t \in book.trades : t.pnl \in Int
  BY DEF Book, Trades
<1> QED BY <1>1, PnlInt DEF Realised
-----------------------------------------------------------------------------
(* The one slot, one action at a time.                                     *)

\* The books agree at the start.
LEMMA SlotInit ==
  ASSUME Init, LegacyLeft = {}
  PROVE  SlotInv
<1>1. PICK held \in SUBSET LegacyMint :
        /\ disk = [rows    |-> held,
                   open    |-> [m \in Mint |-> IF m \in held THEN "whole" ELSE "none"],
                   checked |-> {},
                   balance |-> StartingBalance - Size * Cardinality(held),
                   trades  |-> {}]
        /\ mem = disk /\ conn = disk
        /\ lock = "free"
        /\ todo = {} /\ gone = {} /\ sale = NoSale
        /\ tick = 0 /\ day = 0 /\ faults = 0
  BY DEF Init, TraderInit
<1>2. held = {}
  BY <1>1 DEF LegacyLeft
<1>3. \A m \in Mint : disk.open[m] = "none"
  BY <1>1, <1>2
<1>4. disk.trades = {} /\ IsFiniteSet({})
  BY <1>1, FS_EmptySet
<1>5. Held(mem) = {} /\ Held(conn) = {} /\ Held(disk) = {} /\ Left = {}
  BY <1>1, <1>3 DEF Held, Left
<1>6. Hands /\ Follows(conn) /\ Follows(disk)
  BY <1>1, <1>5 DEF Hands, Follows
<1>7. Listed(mem) /\ Listed(conn) /\ Listed(disk)
  BY <1>1, <1>4 DEF Listed
<1>8. DayHeld
  <2>1. {t \in disk.trades : t.day = day} = {} /\ {t \in conn.trades : t.day = day} = {}
    BY <1>1, <1>4
  <2>2. 0 > -MaxLoss
    BY TraderAssumption DEF MaxLoss
  <2>3. DayResult(disk) = 0 /\ DayResult(conn) = 0
    BY <2>1, PnlNone DEF DayResult
  <2> QED BY <1>5, <2>2, <2>3 DEF DayHeld
<1>9. DeskWaits
  BY DEF Init, DeskWaits, At
<1> QED BY <1>6, <1>7, <1>8, <1>9 DEF SlotInv, MoneyInv

\* A step that changes nothing but the desk.
LEMMA DeskStep ==
  ASSUME SlotInv, UNCHANGED trader,
         \/ desk' = NoCase
         \/ desk'.step \in {"review", "telling"} /\ (desk'.plan => Held(mem) = {})
         \/ desk'.step = "buying" /\ Held(mem) = {} /\ Reconciles(mem)
  PROVE  SlotInv'
<1>1. UNCHANGED <<books, lock, todo, gone, sale, day>>
  BY DEF trader, books
<1>2. MoneyInv'
  BY <1>1, MoneyFrame DEF SlotInv, MoneyInv, Hands
<1>3. Held(mem)' = Held(mem) /\ Reconciles(mem)' = Reconciles(mem)
  BY <1>1 DEF books, Held, Reconciles, Realised, Exposure
<1>4. DeskWaits'
  BY <1>3 DEF DeskWaits, At
<1> QED BY <1>2, <1>4 DEF SlotInv

\* A step of the trader while nobody waits for an entry, and one that asks for nothing.
LEMMA BusyDesk ==
  ASSUME DeskWaits, MoneyInv', desk' = desk, Held(mem) # {}
  PROVE  SlotInv'
BY DEF DeskWaits, SlotInv, At

\* A review that ends leaves what the books say.
LEMMA EmptyDesk ==
  ASSUME MoneyInv', desk' = NoCase
  PROVE  SlotInv'
BY DEF DeskWaits, SlotInv, At

\* Every step keeps what the slot says of the books.
LEMMA SlotNext ==
  ASSUME TypeOK, EntryInv, SlotInv, [Next]_vars
  PROVE  SlotInv'
<1>1. /\ BooksOK /\ PassOK /\ DeskTypes /\ LockOK /\ RowsAgree
      /\ MoneyInv /\ DeskWaits
  BY TypeParts DEF EntryInv, RowsAgree, SlotInv
<1>2. CASE PassStep /\ UNCHANGED company
  BY <1>1, <1>2, PassMoney, BusyDesk DEF company
<1>3. CASE NextDay /\ UNCHANGED company
  <2>1. MoneyInv' /\ Held(mem)' = Held(mem) /\ mem' = mem /\ desk' = desk
    BY <1>1, <1>3, NewDayMoney DEF NextDay, books, company
  <2>2. Reconciles(mem)' = Reconciles(mem)
    BY <2>1 DEF Reconciles, Realised, Exposure
  <2> QED BY <1>1, <2>1, <2>2 DEF SlotInv, DeskWaits, At
<1>4. ASSUME NEW m \in Candidate, NEW convincing \in BOOLEAN, Consider(m, convincing)
      PROVE  SlotInv'
  <2>1. /\ UNCHANGED trader /\ desk'.step = "review"
        /\ desk'.plan = (convincing /\ MayEnter(mem))
    BY <1>4 DEF Consider
  <2> QED BY <2>1, DeskStep DEF MayEnter
<1>5. CASE WorkerFails
  <2>1. At("review") /\ UNCHANGED trader /\ desk' = [desk EXCEPT !.plan = FALSE]
    BY <1>5 DEF WorkerFails
  <2>2. desk'.step = "review" /\ desk'.plan = FALSE
    BY <1>1, <2>1, AtCase DEF CaseUnderWay
  <2> QED BY <2>1, <2>2, DeskStep
<1>6. CASE HandoffFails
  BY <1>6, DeskStep DEF HandoffFails
<1>7. ASSUME NEW fresh \in BOOLEAN, Review(fresh) PROVE SlotInv'
  <2>1. /\ At("review") /\ UNCHANGED trader
        /\ desk' = [desk EXCEPT !.plan = @ /\ Passes(fresh), !.step = "telling"]
    BY <1>7 DEF Review
  <2>2. desk'.step = "telling" /\ desk'.plan = (desk.plan /\ Passes(fresh))
    BY <1>1, <2>1, AtCase DEF CaseUnderWay
  <2>3. desk'.plan => Held(mem) = {}
    BY <1>1, <2>1, <2>2 DEF DeskWaits
  <2> QED BY <2>1, <2>2, <2>3, DeskStep
<1>8. ASSUME NEW fresh \in BOOLEAN, Intend(fresh) PROVE SlotInv'
  <2>1. /\ At("telling") /\ desk.plan /\ Passes(fresh) /\ UNCHANGED trader
        /\ desk' = [desk EXCEPT !.step = "buying"]
    BY <1>8 DEF Intend
  <2>2. desk'.step = "buying"
    BY <1>1, <2>1, AtCase DEF CaseUnderWay
  <2>3. Held(mem) = {} /\ Reconciles(mem)
    BY <1>1, <2>1 DEF DeskWaits, Passes
  <2> QED BY <2>1, <2>2, <2>3, DeskStep
<1>9. ASSUME NEW fresh \in BOOLEAN, Block(fresh) PROVE SlotInv'
  BY <1>9, DeskStep DEF Block
<1>10. CASE AsksToBuy
  <2>1. /\ lock' = "buy" /\ UNCHANGED <<books, todo, gone, sale, day>> /\ desk' = desk
    BY <1>10 DEF AsksToBuy, GetsLock, company
  <2>2. MoneyInv'
    BY <1>1, <2>1, MoneyFrame DEF MoneyInv, Hands
  <2>3. Held(mem)' = Held(mem) /\ Reconciles(mem)' = Reconciles(mem)
    BY <2>1 DEF books, Held, Reconciles, Realised, Exposure
  <2> QED BY <1>1, <2>1, <2>2, <2>3 DEF SlotInv, DeskWaits, At
<1>11. CASE Declines \/ Completes
  <2>1. /\ lock' = "free" /\ UNCHANGED <<books, todo, gone, sale, day>> /\ desk' = NoCase
    BY <1>11 DEF Declines, Completes, BuyRefused, BuyReturns, Unlocks, Settle
  <2>2. MoneyInv'
    BY <1>1, <2>1, MoneyFrame DEF MoneyInv, Hands
  <2> QED BY <2>1, <2>2, EmptyDesk
<1>12. CASE Enters
  <2>1. /\ At("buying") /\ BuyCommits(desk.mint) /\ desk' = [desk EXCEPT !.step = "bought"]
    BY <1>12 DEF Enters
  <2>2. desk.mint \in Candidate /\ desk.mint \notin disk.rows /\ desk'.step = "bought"
    BY <1>1, <2>1, AtCase DEF EntryInv, CaseUnderWay
  <2>3. MoneyInv'
    BY <1>1, <2>1, <2>2, BuyCommitsMoney
  <2> QED BY <2>2, <2>3 DEF SlotInv, DeskWaits, At
<1>13. CASE EntryFails
  BY <1>1, <1>13, BuyFailsMoney, EmptyDesk DEF EntryFails
<1>14. CASE Supervises
  <2>1. CASE EndPass
    BY <1>1, <1>14, <2>1, EndPassMoney, BusyDesk DEF Supervises
  <2>2. CASE UNCHANGED trader
    <3>1. UNCHANGED <<books, lock, todo, gone, sale, day>> /\ desk' = desk
      BY <1>14, <2>2 DEF trader, books, Supervises
    <3>2. MoneyInv'
      BY <1>1, <3>1, MoneyFrame DEF MoneyInv, Hands
    <3>3. Held(mem)' = Held(mem) /\ Reconciles(mem)' = Reconciles(mem)
      BY <3>1 DEF books, Held, Reconciles, Realised, Exposure
    <3> QED BY <1>1, <3>1, <3>2, <3>3 DEF SlotInv, DeskWaits, At
  <2> QED BY <1>14, <2>1, <2>2 DEF Supervises
<1>15. CASE Restart
  BY <1>1, <1>15, RestartMoney, EmptyDesk DEF Restart
<1>16. CASE UNCHANGED vars
  <2>1. UNCHANGED <<books, lock, todo, gone, sale, day>> /\ desk' = desk
    BY <1>16 DEF vars, trader, company, books
  <2>2. MoneyInv'
    BY <1>1, <2>1, MoneyFrame DEF MoneyInv, Hands
  <2>3. Held(mem)' = Held(mem) /\ Reconciles(mem)' = Reconciles(mem)
    BY <2>1 DEF books, Held, Reconciles, Realised, Exposure
  <2> QED BY <1>1, <2>1, <2>2, <2>3 DEF SlotInv, DeskWaits, At
<1> QED BY <1>2, <1>3, <1>4, <1>5, <1>6, <1>7, <1>8, <1>9, <1>10, <1>11, <1>12, <1>13,
           <1>14, <1>15, <1>16 DEF Next, CompanyStep

\* Rows are never removed, and no position of an earlier build is entered again.
LEMMA RowsStep ==
  ASSUME TypeOK, EntryInv, [Next]_vars
  PROVE  disk'.rows = disk.rows \/ (Enters /\ disk'.rows = disk.rows \cup {desk.mint})
<1>1. BooksOK /\ PassOK /\ DeskTypes /\ conn.rows = disk.rows
  BY TypeParts DEF EntryInv
<1>2. CASE PassStep
  BY <1>1, <1>2, PassKeeps DEF RowsKept
<1>3. CASE EndPass
  BY <1>1, <1>3, EndPassKeeps DEF RowsKept
<1>4. CASE Enters
  <2>1. /\ At("buying") /\ disk' = WithBalance(Entered(conn, desk.mint), mem.balance - Size)
    BY <1>4 DEF Enters, BuyCommits
  <2>2. desk.mint \in Mint /\ conn \in Book
    BY <1>1, <2>1, AtCase DEF Candidate, BooksOK
  <2>3. Entered(conn, desk.mint) \in Book /\ Entered(conn, desk.mint).rows = conn.rows \cup {desk.mint}
    BY <2>2, EnteredOK
  <2>4. disk'.rows = Entered(conn, desk.mint).rows
    BY <2>1, <2>3, BalanceParts
  <2> QED BY <1>1, <1>4, <2>3, <2>4
<1>5. CASE disk' = disk
  BY <1>5
<1>6. CASE NextDay \/ (CompanyStep /\ ~Enters)
  <2>1. disk' = disk
    BY <1>6 DEF NextDay, books, CompanyStep, Consider, Review, Intend, Block, WorkerFails,
       HandoffFails, trader, AsksToBuy, GetsLock, Declines, BuyRefused, EntryFails, BuyFails,
       Completes, BuyReturns
  <2> QED BY <2>1
<1>7. CASE Restart
  BY <1>5, <1>7 DEF Restart, TraderRestart
<1>8. CASE UNCHANGED vars
  BY <1>5, <1>8 DEF vars, trader
<1> QED BY <1>2, <1>3, <1>4, <1>5, <1>6, <1>7, <1>8 DEF Next, Supervises, trader

\* No step adds a position of an earlier build.
LEMMA LegacyKept ==
  ASSUME TypeOK, EntryInv, [Next]_vars
  PROVE  LegacyLeft' = LegacyLeft
<1>1. CASE disk'.rows = disk.rows
  BY <1>1 DEF LegacyLeft
<1>2. CASE Enters /\ disk'.rows = disk.rows \cup {desk.mint}
  <2>1. desk.mint \in Candidate
    BY <1>2, TypeParts, AtCase DEF Enters
  <2> QED BY <1>2, <2>1 DEF LegacyLeft, Candidate
<1> QED BY <1>1, <1>2, RowsStep

\* The three books agree about money whenever the slot of the company is free, and
\* otherwise differ by the one position that is left.
LEMMA SlotInvariant == Spec => [](LegacyLeft = {} => SlotInv)
<1>1. Init => (LegacyLeft = {} => SlotInv)
  BY SlotInit
<1>2. /\ TypeOK /\ EntryInv /\ (LegacyLeft = {} => SlotInv) /\ [Next]_vars
      => (LegacyLeft = {} => SlotInv)'
  BY LegacyKept, SlotNext
<1> QED
  BY <1>1, <1>2, CompanyTypes, EntryInvariant, PTL DEF Spec

\* An empty book that agrees with a sound one is sound, and so is the entry into it.
LEMMA EntryStep ==
  ASSUME TypeOK, EntryInv, SlotInv, Enters
  PROVE  Reconciles(disk) /\ Reconciles(disk') /\ SameMoney(mem', disk')
<1> DEFINE m == desk.mint
<1>1. /\ BooksOK /\ PassOK /\ RowsAgree /\ MoneyInv /\ At("buying") /\ Reconciles(mem)
      /\ m \in Candidate /\ m \in Mint /\ m \notin disk.rows /\ BuyCommits(m)
  BY TypeParts, AtCase DEF EntryInv, RowsAgree, SlotInv, DeskWaits, Enters, Candidate
<1>2. /\ SameMoney(mem, disk) /\ disk.trades = mem.trades
      /\ SameMoney(mem', disk') /\ disk'.trades = mem.trades
      /\ disk.open = [k \in Mint |-> "none"]
      /\ disk'.open = [[k \in Mint |-> "none"] EXCEPT ![m] = "whole"]
      /\ disk'.balance = mem.balance - Size
  BY <1>1, BuyCommitsMoney
<1>3. Realised(disk) = Realised(mem) /\ Realised(disk') = Realised(mem)
  BY <1>2 DEF Realised
<1>4. Exposure(disk) = Exposure(mem)
  BY <1>2 DEF Exposure, SameMoney
<1>5. disk.balance = mem.balance
  BY <1>2 DEF SameMoney
<1>6. Reconciles(disk)
  BY <1>1, <1>3, <1>4, <1>5 DEF Reconciles
<1>7. /\ Amount(disk.open[m]) = 0 /\ Amount(disk'.open[m]) = Size
      /\ \A k \in Mint : k # m => disk'.open[k] = disk.open[k]
  BY <1>1, <1>2 DEF Amount
<1> HIDE DEF m
<1>8. /\ Exposure(disk') = Exposure(disk) - Amount(disk.open[m]) + Amount(disk'.open[m])
      /\ Exposure(disk) \in Int
  BY <1>1, <1>7, ExposureMoves
<1>9. IsFiniteSet(mem.trades) /\ mem \in Book /\ disk.balance \in Int
  BY <1>1 DEF MoneyInv, Listed, BooksOK, Book
<1>10. Realised(mem) \in Int /\ Size \in Int /\ StartingBalance \in Int
  BY <1>9, RealisedInt, TraderAssumption
<1>11. Reconciles(disk')
  BY <1>2, <1>3, <1>5, <1>6, <1>7, <1>8, <1>9, <1>10 DEF Reconciles
<1> QED BY <1>2, <1>6, <1>11

\* Without a position of an earlier build, money is committed on books that reconcile and
\* agree, whatever a failed write or a death has left behind (company.py:163).
THEOREM SoundEntries == Spec /\ LegacyLeft = {} => EntryOnSoundBooks
<1>1. TypeOK /\ EntryInv /\ LegacyLeft = {} /\ [Next]_vars => (LegacyLeft = {})'
  BY LegacyKept
<1>2. TypeOK /\ EntryInv /\ SlotInv /\ [Next]_vars
      => [\A m \in Mint : m \in disk'.rows \ disk.rows
            => Reconciles(disk) /\ Reconciles(disk') /\ SameMoney(mem', disk')]_vars
  BY RowsStep, EntryStep
<1> QED
  BY <1>1, <1>2, CompanyTypes, EntryInvariant, SlotInvariant, PTL
     DEF Spec, EntryOnSoundBooks

\* The loss of a day exceeds its limit by less than one position, however the day ends and
\* whatever fails: the breaker reads back what was committed (paper_trader.py:1043, 977).
THEOREM DayLossHolds == Spec => []DayLossBounded
<1>1. SlotInv => DayResult(disk) > -(DailyLoss + Size + Cost)
  BY DEF SlotInv, MoneyInv, DayHeld, MaxLoss
<1>2. (LegacyLeft = {} => SlotInv) => DayLossBounded
  BY <1>1 DEF DayLossBounded
<1> QED
  BY <1>2, SlotInvariant, PTL
-----------------------------------------------------------------------------
(* Quiet books: what holds as long as no write failed.                     *)

Calm == faults = 0 /\ (restarts = 0 \/ LegacyLeft = {})

\* A position is partly sold in memory before it is on disk, and on disk before its
\* money is.
Taking == sale # NoSale /\ sale.step = "take"
Saving == sale # NoSale /\ sale.step = "save"
Staged(m) == IF m \in gone THEN "none"
             ELSE IF Taking /\ sale.mint = m THEN "whole" ELSE mem.open[m]
Due == IF Taking \/ Saving THEN Sold + PartResult ELSE 0

\* Every exit on record is one that the position shows.
Shown(t) == /\ t.mint \in disk.rows
            /\ IF t.partial THEN disk.open[t.mint] # "whole" ELSE disk.open[t.mint] = "none"

CalmInv ==
  /\ conn = disk
  /\ todo \subseteq Left /\ gone \subseteq Held(mem) /\ Held(mem) \subseteq disk.rows
  /\ sale # NoSale => sale.mint \in todo
  /\ Taking \/ Saving => mem.open[sale.mint] = "rest" /\ sale.mint \in LegacyMint
  /\ \A m \in Mint : disk.open[m] = Staged(m)
  /\ mem.balance = disk.balance + Due
  /\ (IF Saving THEN mem.balance ELSE disk.balance)
       = StartingBalance + Realised(disk) - Exposure(disk)
  /\ IsFiniteSet(disk.trades) /\ \A t \in disk.trades : Shown(t)

\* An exit that is not on record yet.
LEMMA RecordedFresh ==
  ASSUME NEW book \in Book, IsFiniteSet(book.trades), NEW trade, trade.pnl \in Int,
         \A t \in book.trades : t.mint # trade.mint \/ t.partial # trade.partial,
         NEW after, after = Recorded(book, trade)
  PROVE  /\ after.trades = book.trades \cup {trade}
         /\ after.open = book.open /\ after.rows = book.rows
         /\ after.balance = book.balance
         /\ IsFiniteSet(after.trades)
         /\ Realised(after) = Realised(book) + trade.pnl
<1>2. {t \in book.trades : t.mint # trade.mint \/ t.partial # trade.partial} = book.trades
  OBVIOUS
<1>3. DOMAIN book = {"rows", "open", "checked", "balance", "trades"}
  BY DEF Book
<1>4. /\ after.trades = book.trades \cup {trade}
      /\ after.open = book.open /\ after.rows = book.rows /\ after.balance = book.balance
  BY <1>2, <1>3 DEF Recorded
<1>5. trade \notin book.trades
  OBVIOUS
<1>6. \A t \in book.trades : t.pnl \in Int
  BY DEF Book, Trades
<1>7. PnlOf(book.trades \cup {trade}) = PnlOf(book.trades) + trade.pnl
  BY <1>5, <1>6, PnlGrows
<1>8. IsFiniteSet(book.trades \cup {trade})
  BY FS_AddElement
<1>9. IsFiniteSet(after.trades) /\ Realised(after) = Realised(book) + trade.pnl
  BY <1>4, <1>7, <1>8 DEF Realised
<1> QED BY <1>4, <1>9

\* A step that leaves money, positions and exits alone.
LEMMA CalmFrame ==
  ASSUME BooksOK, PassOK, CalmInv, conn' = disk',
         mem'.open = mem.open, mem'.balance = mem.balance, gone' = gone,
         disk'.open = disk.open, disk'.balance = disk.balance, disk'.trades = disk.trades,
         disk'.rows = disk.rows,
         todo' \subseteq Left, sale' # NoSale => sale'.mint \in todo',
         \/ sale' = sale
         \/ /\ sale = NoSale
            /\ sale' = NoSale \/ sale'.step = "close"
  PROVE  CalmInv'
<1>1. Held(mem)' = Held(mem) /\ Left' = Left
  BY DEF Held, Left
<1>2. Taking' = Taking /\ Saving' = Saving /\ (Taking \/ Saving => sale' = sale)
  BY DEF Taking, Saving
<1>3. PartResult' = PartResult \/ ~(Taking \/ Saving)
  BY <1>2 DEF PartResult
<1>4. Due' = Due
  BY <1>2, <1>3 DEF Due
<1>5. \A m \in Mint : Staged(m)' = Staged(m)
  BY <1>2 DEF Staged
<1>6. Realised(disk)' = Realised(disk) /\ Exposure(disk)' = Exposure(disk)
  BY DEF Realised, Exposure
<1>7. \A t : Shown(t)' = Shown(t)
  BY DEF Shown
<1> QED BY <1>1, <1>2, <1>4, <1>5, <1>6, <1>7 DEF CalmInv

\* A position that a pass looks at is held and shown as it is.
LEMMA TodoStaged ==
  ASSUME PassOK, CalmInv, NEW m \in todo
  PROVE  /\ m \in Mint /\ m \in Held(mem) /\ m \notin gone /\ m \in disk.rows
         /\ mem.open[m] # "none"
         /\ ~Taking => disk.open[m] = mem.open[m]
         /\ Taking /\ sale.mint = m => disk.open[m] = "whole"
<1>1. m \in Mint /\ m \in Left
  BY DEF PassOK, CalmInv
<1>2. m \in Held(mem) /\ m \notin gone /\ mem.open[m] # "none" /\ m \in disk.rows
  BY <1>1 DEF Left, Held, CalmInv
<1>3. disk.open[m] = Staged(m)
  BY <1>1 DEF CalmInv
<1> QED BY <1>1, <1>2, <1>3 DEF Staged

\* The sale of a part is chosen.
LEMMA TakeProfitCalm ==
  ASSUME BooksOK, PassOK, CalmInv, NEW m \in Mint, NEW gain \in Gain, TakeProfit(m, gain)
  PROVE  CalmInv'
<1> DEFINE sum  == mem.balance + Sold + Gross(Sold, gain)
           rest == [mem EXCEPT !.open[m] = "rest"]
<1>1. /\ m \in LegacyMint /\ mem.open[m] = "whole" /\ m \in todo /\ sale = NoSale
      /\ sale' = [mint |-> m, gain |-> gain, step |-> "take"]
      /\ mem' = WithBalance(rest, sum)
      /\ UNCHANGED <<lock, todo, gone, conn, disk>>
  BY DEF TakeProfit, Sells
<1>2. mem \in Book /\ mem.balance \in Int /\ mem.open \in [Mint -> Stages] /\ disk.balance \in Int
  BY DEF BooksOK, Book
<1>3. rest \in Book /\ rest.open = [mem.open EXCEPT ![m] = "rest"]
  BY <1>2, StagedOK DEF Stages, Book
<1> HIDE DEF rest, sum
<1>4. mem'.open = [mem.open EXCEPT ![m] = "rest"] /\ mem'.balance = sum
  BY <1>1, <1>3, BalanceParts
<1>5. ~Taking /\ ~Saving /\ Taking' /\ ~Saving' /\ sale'.mint = m /\ sale'.gain = gain
  <2>1. DOMAIN sale' = {"mint", "gain", "step"} /\ DOMAIN NoSale = {"mint"}
    BY <1>1 DEF NoSale
  <2> QED BY <1>1, <2>1 DEF Taking, Saving
<1>6. /\ m \notin gone /\ disk.open[m] = "whole"
  BY <1>1, <1>5, TodoStaged
<1>7. /\ mem'.open[m] = "rest" /\ \A k \in Mint : k # m => mem'.open[k] = mem.open[k]
  BY <1>2, <1>4
<1>8. Held(mem)' = Held(mem) /\ Left' = Left
  <2>1. \A k \in Mint : mem'.open[k] # "none" <=> mem.open[k] # "none"
    BY <1>1, <1>7
  <2>2. Held(mem)' = Held(mem)
    BY <2>1 DEF Held
  <2> QED BY <1>1, <2>2 DEF Left
<1>9. \A k \in Mint : Staged(k)' = disk'.open[k]
  BY <1>1, <1>5, <1>6, <1>7 DEF Staged, CalmInv
<1>10. mem'.balance = disk'.balance + Due'
  <2>1. Gross(Sold, gain) \in Int /\ Sold \in Int
    BY Amounts, TraderAssumption
  <2>2. PartResult' = Gross(Sold, gain)
    BY <1>5 DEF PartResult
  <2>3. Due = 0 /\ Due' = Sold + PartResult'
    BY <1>5 DEF Due
  <2>4. mem.balance = disk.balance
    BY <1>2, <2>3 DEF CalmInv
  <2> DEFINE part == Gross(Sold, gain)
  <2> HIDE DEF part
  <2>5. sum = disk.balance + (Sold + part)
    BY <1>2, <2>1, <2>4 DEF sum, part
  <2> QED BY <1>1, <1>4, <2>2, <2>3, <2>5 DEF part
<1>11. disk'.balance = StartingBalance + Realised(disk') - Exposure(disk')
  BY <1>1, <1>5 DEF CalmInv
<1>12. IsFiniteSet(disk'.trades) /\ \A t \in disk'.trades : Shown(t)'
  BY <1>1 DEF CalmInv, Shown
<1> QED BY <1>1, <1>5, <1>7, <1>8, <1>9, <1>10, <1>11, <1>12 DEF CalmInv

\* The exit whose writes are under way.
LEMMA SaleCalm ==
  ASSUME BooksOK, PassOK, CalmInv, sale # NoSale
  PROVE  /\ sale.mint \in Mint /\ sale.mint \in todo /\ sale.mint \notin gone
         /\ sale.mint \in Held(mem) /\ sale.mint \in disk.rows
         /\ mem.open[sale.mint] # "none"
         /\ ~Taking => disk.open[sale.mint] = mem.open[sale.mint]
         /\ Taking => disk.open[sale.mint] = "whole"
         /\ Result \in Int /\ PartResult \in Int /\ Proceeds \in Int /\ Sold \in Int
         /\ mem.balance \in Int /\ disk.balance \in Int /\ StartingBalance \in Int
         /\ Realised(disk) \in Int /\ Exposure(disk) \in Int
         /\ disk \in Book /\ day \in Nat /\ tick \in Nat
<1>1. sale.mint \in todo
  BY DEF CalmInv
<1>2. sale.mint \in Mint
  BY <1>1 DEF PassOK
<1>3. Exposure(disk) \in Int
  BY <1>2, ExposureMoves
<1>4. Realised(disk) \in Int
  BY RealisedInt DEF BooksOK, CalmInv
<1>5. StartingBalance \in Int /\ Sold \in Int
  BY TraderAssumption, Amounts DEF Sold
<1>6. /\ mem.balance \in Int /\ disk.balance \in Int /\ disk \in Book
      /\ day \in Nat /\ tick \in Nat
  BY DEF BooksOK, Book, PassOK
<1>7. Result \in Int /\ PartResult \in Int /\ Proceeds \in Int
  BY SaleAmounts
<1> QED BY <1>1, <1>3, <1>4, <1>5, <1>6, <1>7, TodoStaged

\* A whole exit: the row, the money and the record in one transaction.
LEMMA CloseCommitsCalm ==
  ASSUME BooksOK, PassOK, CalmInv, CloseCommits
  PROVE  CalmInv'
<1> DEFINE m == sale.mint
           away == [disk EXCEPT !.open[m] = "none"]
           trade == Trade(m, FALSE, Result)
           c == Recorded(away, trade)
           paid == WithBalance(mem, Proceeds)
           amount == Amount(mem.open[m])
<1>1. /\ sale # NoSale /\ sale.step = "close"
      /\ conn' = WithBalance(Closed(conn, m, Result), Proceeds) /\ disk' = conn'
      /\ mem' = Recorded(paid, Trade(m, FALSE, Result))
      /\ gone' = gone \cup {m} /\ todo' = todo \ {m} /\ sale' = NoSale
  BY DEF CloseCommits, SaleEnds
<1>2. ~Taking /\ ~Saving /\ ~Taking' /\ ~Saving' /\ Due = 0 /\ Due' = 0
  BY <1>1 DEF Taking, Saving, Due
<1>3. /\ m \in Mint /\ m \in todo /\ m \notin gone /\ m \in Held(mem) /\ m \in disk.rows
      /\ mem.open[m] # "none" /\ disk.open[m] = mem.open[m]
      /\ Result \in Int /\ Proceeds \in Int /\ mem.balance \in Int /\ disk.balance \in Int
      /\ StartingBalance \in Int /\ Realised(disk) \in Int /\ Exposure(disk) \in Int
      /\ disk \in Book
  BY <1>1, <1>2, SaleCalm
<1>4. /\ mem.balance = disk.balance /\ conn = disk /\ IsFiniteSet(disk.trades)
      /\ disk.balance = StartingBalance + Realised(disk) - Exposure(disk)
  BY <1>2, <1>3 DEF CalmInv
<1>5. /\ away \in Book /\ away.open = [disk.open EXCEPT ![m] = "none"]
      /\ away.trades = disk.trades /\ away.rows = disk.rows
  BY <1>3, StagedOK DEF Book, Stages
<1>6. /\ trade \in Trades /\ trade.mint = m /\ trade.partial = FALSE /\ trade.pnl = Result
      /\ c = Recorded(away, trade)
  BY <1>3 DEF Trade, Trades, PassOK
<1> HIDE DEF away, c, trade
<1>7. /\ c.trades = disk.trades \cup {trade}
      /\ c.open = away.open /\ c.rows = disk.rows /\ IsFiniteSet(c.trades)
      /\ Realised(c) = Realised(disk) + Result
  <2>1. ASSUME NEW t \in away.trades PROVE t.mint # trade.mint \/ t.partial # trade.partial
    <3>1. t \in disk.trades /\ t.partial \in BOOLEAN /\ Shown(t)
      BY <1>3, <1>5 DEF CalmInv, Book, Trades
    <3> QED BY <1>3, <1>6, <3>1 DEF Shown
  <2>2. Realised(away) = Realised(disk)
    BY <1>5 DEF Realised
  <2>3. IsFiniteSet(away.trades) /\ trade.pnl \in Int
    BY <1>3, <1>4, <1>5, <1>6
  <2>4. /\ c.trades = away.trades \cup {trade}
        /\ c.open = away.open /\ c.rows = away.rows /\ IsFiniteSet(c.trades)
        /\ Realised(c) = Realised(away) + trade.pnl
    BY <1>5, <1>6, <2>1, <2>3, RecordedFresh
  <2> QED BY <1>5, <1>6, <2>2, <2>4
<1>8. c \in Book
  <2>1. DOMAIN away = {"rows", "open", "checked", "balance", "trades"}
    BY <1>5 DEF Book
  <2> QED BY <1>5, <1>6, <2>1 DEF Recorded, Book
<1>9. conn' = WithBalance(c, Proceeds) /\ mem' = Recorded(paid, trade)
  BY <1>1, <1>4 DEF Closed, away, c, trade
<1>10. /\ disk'.open = [disk.open EXCEPT ![m] = "none"] /\ disk'.rows = disk.rows
       /\ disk'.trades = disk.trades \cup {trade}
       /\ disk'.balance = Proceeds /\ IsFiniteSet(disk'.trades)
       /\ Realised(disk') = Realised(disk) + Result
  <2>1. /\ WithBalance(c, Proceeds).open = c.open /\ WithBalance(c, Proceeds).rows = c.rows
        /\ WithBalance(c, Proceeds).trades = c.trades
        /\ WithBalance(c, Proceeds).balance = Proceeds
    BY <1>8, BalanceParts
  <2>2. disk' = WithBalance(c, Proceeds)
    BY <1>1, <1>9
  <2>3. Realised(disk') = Realised(c)
    BY <2>1, <2>2 DEF Realised
  <2> QED BY <1>5, <1>7, <2>1, <2>2, <2>3
<1>11. mem'.open = mem.open /\ mem'.balance = Proceeds
  <2>1. mem \in Book /\ Proceeds \in Int
    BY <1>3 DEF BooksOK
  <2>2. paid \in Book
    BY <2>1, BalanceOK
  <2>3. paid.open = mem.open /\ paid.balance = Proceeds
    BY <2>1, BalanceParts
  <2> HIDE DEF paid
  <2>4. Recorded(paid, trade).open = paid.open /\ Recorded(paid, trade).balance = paid.balance
    BY <2>2 DEF Recorded, Book
  <2> QED BY <1>9, <2>3, <2>4 DEF paid
<1>12. disk.open \in [Mint -> Stages]
  BY <1>3 DEF Book
<1>13. /\ disk'.open[m] = "none"
       /\ \A k \in Mint : k # m => disk'.open[k] = disk.open[k]
  BY <1>3, <1>10, <1>12
<1>14. Exposure(disk') = Exposure(disk) - amount
  <2>1. Amount(disk'.open[m]) = 0 /\ Amount(disk.open[m]) = amount
    BY <1>3, <1>13 DEF Amount
  <2>2. Exposure(disk') = Exposure(disk) - Amount(disk.open[m]) + Amount(disk'.open[m])
    <3> HIDE DEF m
    <3> QED BY <1>3, <1>13, ExposureMoves
  <2>3. amount \in Int
    BY Amounts, TraderAssumption
  <2> HIDE DEF amount
  <2> QED BY <1>3, <2>1, <2>2, <2>3
<1>15. disk'.balance = StartingBalance + Realised(disk') - Exposure(disk')
  <2>1. Proceeds = mem.balance + amount + Result /\ amount \in Int
    BY Amounts, TraderAssumption DEF Proceeds
  <2> HIDE DEF amount
  <2> QED BY <1>3, <1>4, <1>10, <1>14, <2>1
<1>16. \A t \in disk'.trades : Shown(t)'
  <2>1. ASSUME NEW t \in disk.trades PROVE Shown(t)'
    <3>1. /\ t.mint \in disk.rows /\ t.mint \in Mint
          /\ IF t.partial THEN disk.open[t.mint] # "whole" ELSE disk.open[t.mint] = "none"
      BY <1>3 DEF CalmInv, Shown, Book, Trades
    <3> QED BY <1>10, <1>13, <3>1 DEF Shown
  <2>2. ASSUME NEW t, t = trade PROVE Shown(t)'
    <3>1. t.mint = m /\ t.partial = FALSE
      BY <1>6, <2>2
    <3> QED BY <1>3, <1>10, <1>13, <3>1 DEF Shown
  <2>3. ASSUME NEW t \in disk'.trades PROVE t \in disk.trades \/ t = trade
    BY <1>10, <2>3
  <2> QED BY <2>1, <2>2, <2>3
<1>17. Held(mem)' = Held(mem) /\ Left' = Left \ {m}
  BY <1>1, <1>11 DEF Held, Left
<1>18. \A k \in Mint : disk'.open[k] = Staged(k)'
  BY <1>1, <1>2, <1>11, <1>13 DEF CalmInv, Staged
<1>19. /\ todo' \subseteq Left' /\ gone' \subseteq Held(mem)' /\ Held(mem)' \subseteq disk'.rows
  BY <1>1, <1>3, <1>10, <1>17 DEF CalmInv
<1>20. mem'.balance = disk'.balance + Due'
  BY <1>2, <1>3, <1>10, <1>11
<1>21. conn' = disk' /\ ~(sale' # NoSale) /\ IsFiniteSet(disk'.trades)
  BY <1>1, <1>10
<1> QED BY <1>2, <1>15, <1>16, <1>18, <1>19, <1>20, <1>21 DEF CalmInv

\* A partial exit, first transaction: the row and the record.
LEMMA TakeCommitsCalm ==
  ASSUME BooksOK, PassOK, CalmInv, TakeCommits
  PROVE  CalmInv'
<1> DEFINE m == sale.mint
           reduced == [disk EXCEPT !.open[m] = "rest"]
           trade == Trade(m, TRUE, PartResult)
           c == Recorded(reduced, trade)
<1>1. /\ sale # NoSale /\ sale.step = "take" /\ conn' = PartlySold(conn, m, PartResult)
      /\ disk' = conn' /\ sale' = [sale EXCEPT !.step = "save"]
      /\ UNCHANGED <<mem, todo, gone>>
  BY DEF TakeCommits
<1>2. /\ sale' # NoSale /\ sale'.step = "save" /\ sale'.mint = m /\ sale'.gain = sale.gain
  <2>1. sale \in SaleUnderWay
    BY <1>1, SaleAmounts
  <2>2. DOMAIN sale' = {"mint", "gain", "step"} /\ DOMAIN NoSale = {"mint"}
    BY <1>1, <2>1 DEF SaleUnderWay, NoSale
  <2> QED BY <1>1, <2>1, <2>2 DEF SaleUnderWay
<1>3. Taking /\ ~Saving /\ ~Taking' /\ Saving' /\ PartResult' = PartResult /\ Due' = Due
      /\ Due = Sold + PartResult
  BY <1>1, <1>2 DEF Taking, Saving, PartResult, Due
<1>4. /\ m \in Mint /\ m \notin gone /\ m \in disk.rows /\ disk.open[m] = "whole"
      /\ PartResult \in Int /\ Sold \in Int /\ mem.balance \in Int /\ disk.balance \in Int
      /\ StartingBalance \in Int /\ Realised(disk) \in Int /\ Exposure(disk) \in Int
      /\ disk \in Book /\ day \in Nat /\ tick \in Nat
  BY <1>1, <1>3, SaleCalm
<1>5. /\ conn = disk /\ IsFiniteSet(disk.trades) /\ mem.open[m] = "rest" /\ m \in LegacyMint
      /\ mem.balance = disk.balance + (Sold + PartResult)
      /\ disk.balance = StartingBalance + Realised(disk) - Exposure(disk)
  BY <1>3 DEF CalmInv
<1>6. /\ reduced \in Book /\ reduced.open = [disk.open EXCEPT ![m] = "rest"]
      /\ reduced.trades = disk.trades /\ reduced.rows = disk.rows
      /\ reduced.balance = disk.balance
  BY <1>4, StagedOK DEF Book, Stages
<1>7. /\ trade \in Trades /\ trade.mint = m /\ trade.partial = TRUE /\ trade.pnl = PartResult
      /\ c = Recorded(reduced, trade)
  BY <1>4 DEF Trade, Trades
<1>8. conn' = c
  BY <1>1, <1>5 DEF PartlySold
<1> HIDE DEF reduced, trade, c
<1>9. /\ c.trades = disk.trades \cup {trade} /\ c.open = [disk.open EXCEPT ![m] = "rest"]
      /\ c.rows = disk.rows /\ c.balance = disk.balance /\ IsFiniteSet(c.trades)
      /\ Realised(c) = Realised(disk) + PartResult
  <2>1. ASSUME NEW t \in reduced.trades PROVE t.mint # trade.mint \/ t.partial # trade.partial
    <3>1. t \in disk.trades /\ t.partial \in BOOLEAN /\ Shown(t)
      BY <1>4, <1>6 DEF CalmInv, Book, Trades
    <3> QED BY <1>4, <1>7, <3>1 DEF Shown
  <2>2. Realised(reduced) = Realised(disk)
    BY <1>6 DEF Realised
  <2>3. IsFiniteSet(reduced.trades) /\ trade.pnl \in Int
    BY <1>4, <1>5, <1>6, <1>7
  <2>4. /\ c.trades = reduced.trades \cup {trade}
        /\ c.open = reduced.open /\ c.rows = reduced.rows /\ c.balance = reduced.balance
        /\ IsFiniteSet(c.trades) /\ Realised(c) = Realised(reduced) + trade.pnl
    BY <1>6, <1>7, <2>1, <2>3, RecordedFresh
  <2> QED BY <1>6, <1>7, <2>2, <2>4
<1>10. disk.open \in [Mint -> Stages]
  BY <1>4 DEF Book
<1>11. disk'.open[m] = "rest" /\ \A k \in Mint : k # m => disk'.open[k] = disk.open[k]
  BY <1>1, <1>4, <1>8, <1>9, <1>10
<1>12. Exposure(disk') = Exposure(disk) - Sold
  <2>1. Amount(disk'.open[m]) = Size - Sold /\ Amount(disk.open[m]) = Size
    BY <1>4, <1>11 DEF Amount
  <2>2. Exposure(disk') = Exposure(disk) - Amount(disk.open[m]) + Amount(disk'.open[m])
    <3> HIDE DEF m
    <3> QED BY <1>4, <1>11, ExposureMoves
  <2>3. Size \in Int
    BY TraderAssumption
  <2> QED BY <1>4, <2>1, <2>2, <2>3
<1>13. mem'.balance = StartingBalance + Realised(disk') - Exposure(disk')
  BY <1>1, <1>4, <1>5, <1>8, <1>9, <1>12
<1>14. \A t \in disk'.trades : Shown(t)'
  <2>1. ASSUME NEW t \in disk.trades PROVE Shown(t)'
    <3>1. /\ t.mint \in disk.rows /\ t.mint \in Mint
          /\ IF t.partial THEN disk.open[t.mint] # "whole" ELSE disk.open[t.mint] = "none"
      BY <1>4 DEF CalmInv, Shown, Book, Trades
    <3> QED BY <1>1, <1>4, <1>8, <1>9, <1>11, <3>1 DEF Shown
  <2>2. ASSUME NEW t, t = trade PROVE Shown(t)'
    <3>1. t.mint = m /\ t.partial = TRUE
      BY <1>7, <2>2
    <3> QED BY <1>1, <1>4, <1>8, <1>9, <1>11, <3>1 DEF Shown
  <2>3. ASSUME NEW t \in disk'.trades PROVE t \in disk.trades \/ t = trade
    BY <1>1, <1>8, <1>9, <2>3
  <2> QED BY <2>1, <2>2, <2>3
<1>15. Held(mem)' = Held(mem) /\ Left' = Left
  BY <1>1 DEF Held, Left
<1>16. \A k \in Mint : disk'.open[k] = Staged(k)'
  BY <1>1, <1>2, <1>3, <1>4, <1>5, <1>11 DEF CalmInv, Staged
<1>17. mem'.balance = disk'.balance + Due'
  BY <1>1, <1>3, <1>5, <1>8, <1>9
<1>18. todo' \subseteq Left' /\ gone' \subseteq Held(mem)' /\ Held(mem)' \subseteq disk'.rows
  BY <1>1, <1>8, <1>9, <1>15 DEF CalmInv
<1>19. sale'.mint \in todo'
  BY <1>1, <1>2 DEF CalmInv
<1>20. mem'.open[sale'.mint] = "rest" /\ sale'.mint \in LegacyMint
  BY <1>1, <1>2, <1>5
<1> QED BY <1>1, <1>3, <1>8, <1>9, <1>13, <1>14, <1>16, <1>17, <1>18, <1>19, <1>20 DEF CalmInv

\* A partial exit, second transaction: the money.
LEMMA SaveCommitsCalm ==
  ASSUME BooksOK, PassOK, CalmInv, SaveCommits
  PROVE  CalmInv'
<1> DEFINE m == sale.mint
<1>1. /\ sale # NoSale /\ sale.step = "save" /\ conn' = WithBalance(conn, mem.balance)
      /\ disk' = conn' /\ mem' = Recorded(mem, Trade(m, TRUE, PartResult))
      /\ todo' = todo \ {m} /\ gone' = gone /\ sale' = NoSale
  BY DEF SaveCommits, SaleEnds
<1>2. ~Taking /\ Saving /\ ~Taking' /\ ~Saving' /\ Due' = 0
  BY <1>1 DEF Taking, Saving, Due
<1>3. /\ conn = disk /\ disk \in Book /\ mem.balance \in Int
      /\ mem.balance = StartingBalance + Realised(disk) - Exposure(disk)
  BY <1>1, <1>2, SaleCalm DEF CalmInv
<1>4. /\ disk'.open = disk.open /\ disk'.trades = disk.trades /\ disk'.rows = disk.rows
      /\ disk'.balance = mem.balance
  BY <1>1, <1>3, BalanceParts
<1>5. mem'.open = mem.open /\ mem'.balance = mem.balance
  BY <1>1 DEF Recorded, BooksOK, Book
<1>6. Realised(disk') = Realised(disk) /\ Exposure(disk') = Exposure(disk)
  BY <1>4 DEF Realised, Exposure
<1>7. Held(mem)' = Held(mem) /\ Left' = Left
  BY <1>1, <1>5 DEF Held, Left
<1>8. \A k \in Mint : disk'.open[k] = Staged(k)'
  BY <1>1, <1>2, <1>4, <1>5 DEF CalmInv, Staged
<1>9. \A t \in disk'.trades : Shown(t)'
  BY <1>4 DEF CalmInv, Shown
<1>10. mem'.balance = disk'.balance + Due'
  BY <1>2, <1>3, <1>4, <1>5
<1> QED BY <1>1, <1>2, <1>3, <1>4, <1>6, <1>7, <1>8, <1>9, <1>10 DEF CalmInv

\* A step that leaves the books, and what was sold, alone.
LEMMA CalmStill ==
  ASSUME BooksOK, PassOK, CalmInv, UNCHANGED <<books, todo, gone, sale>>
  PROVE  CalmInv'
<1>1. /\ mem' = mem /\ conn' = conn /\ disk' = disk /\ todo' = todo /\ gone' = gone
      /\ sale' = sale
  BY DEF books
<1>2. todo \subseteq Left /\ conn = disk /\ (sale # NoSale => sale.mint \in todo)
  BY DEF CalmInv
<1> QED BY <1>1, <1>2, CalmFrame

\* The recovery of a position was checked: its mark, and nothing else.
LEMMA CheckCalm ==
  ASSUME BooksOK, PassOK, CalmInv, NEW m \in Mint, NEW gain \in Gain,
         RecoverySells(m, gain) \/ RecoveryHolds(m, gain)
  PROVE  CalmInv'
<1>1. /\ m \in todo /\ sale = NoSale /\ gone' = gone
      /\ mem' = [mem EXCEPT !.checked = @ \cup {m}]
      /\ conn' = [conn EXCEPT !.checked = @ \cup {m}] /\ disk' = conn'
      /\ \/ sale' = [mint |-> m, gain |-> gain, step |-> "close"] /\ todo' = todo
         \/ sale' = NoSale /\ todo' = todo \ {m}
  BY DEF RecoverySells, RecoveryHolds, MayCheck, Sells
<1>2. conn = disk /\ todo \subseteq Left
  BY DEF CalmInv
<1>3. /\ mem'.open = mem.open /\ mem'.balance = mem.balance
      /\ disk'.open = disk.open /\ disk'.balance = disk.balance
      /\ disk'.trades = disk.trades /\ disk'.rows = disk.rows
  BY <1>1, <1>2 DEF BooksOK, Book
<1>4. /\ todo' \subseteq Left /\ (sale' # NoSale => sale'.mint \in todo')
      /\ sale' = NoSale \/ sale'.step = "close"
  BY <1>1, <1>2
<1> QED BY <1>1, <1>3, <1>4, CalmFrame

\* A step of the pass that fails nothing.
LEMMA PassCalm ==
  ASSUME BooksOK, PassOK, CalmInv, PassStep, faults' = 0
  PROVE  CalmInv'
<1>0. conn = disk /\ todo \subseteq Left /\ gone \subseteq Held(mem)
      /\ (sale # NoSale => sale.mint \in todo)
  BY DEF CalmInv
<1>1. ~Fails
  BY DEF Fails, PassOK
<1>2. CASE StartPass
  <2>1. /\ mem' = mem /\ conn' = conn /\ disk' = disk /\ gone' = gone /\ sale' = sale
        /\ todo' = Held(mem) /\ lock = "free"
    BY <1>2 DEF StartPass, books
  <2>2. gone = {} /\ sale = NoSale
    BY <2>1 DEF PassOK
  <2>3. todo' \subseteq Left
    BY <2>1, <2>2 DEF Left
  <2> QED BY <1>0, <2>1, <2>2, <2>3, CalmFrame
<1>3. CASE WritesTrail
  <2>1. UNCHANGED <<books, todo, gone, sale>>
    BY <1>0, <1>3 DEF WritesTrail, pass, books
  <2> QED BY <2>1, CalmStill
<1>4. ASSUME NEW m \in Mint, Holds(m) PROVE CalmInv'
  <2>1. /\ mem' = mem /\ conn' = conn /\ disk' = disk /\ gone' = gone /\ sale' = sale
        /\ todo' = todo \ {m} /\ sale = NoSale
    BY <1>4 DEF Holds, books
  <2> QED BY <1>0, <2>1, CalmFrame
<1>5. ASSUME NEW m \in Mint, NEW gain \in Gain, NEW choice \in BOOLEAN,
             MicroExit(m, gain, choice) \/ LegacyExit(m, gain, choice)
      PROVE  CalmInv'
  <2>1. /\ mem' = mem /\ conn' = conn /\ disk' = disk /\ gone' = gone /\ todo' = todo
        /\ sale = NoSale /\ m \in todo
        /\ sale' = [mint |-> m, gain |-> gain, step |-> "close"]
    BY <1>5 DEF MicroExit, LegacyExit, Sells, books
  <2>2. sale'.mint \in todo' /\ sale'.step = "close"
    BY <2>1
  <2> QED BY <1>0, <2>1, <2>2, CalmFrame
<1>6. ASSUME NEW m \in Mint, NEW gain \in Gain,
             \/ TakeProfit(m, gain) \/ RecoverySells(m, gain)
             \/ RecoveryHolds(m, gain) \/ RecoveryFails(m, gain)
      PROVE  CalmInv'
  BY <1>1, <1>6, TakeProfitCalm, CheckCalm DEF RecoveryFails
<1>7. CASE CloseCommits \/ TakeCommits \/ SaveCommits
  BY <1>7, CloseCommitsCalm, TakeCommitsCalm, SaveCommitsCalm
<1>8. CASE CloseFails \/ TakeFails \/ SaveFails
  BY <1>1, <1>8 DEF CloseFails, TakeFails, SaveFails
<1> QED BY <1>2, <1>3, <1>4, <1>5, <1>6, <1>7, <1>8 DEF PassStep

\* The pass is over: memory forgets what was sold.
LEMMA EndPassCalm ==
  ASSUME BooksOK, PassOK, CalmInv, EndPass
  PROVE  CalmInv'
<1>1. /\ todo = {} /\ sale = NoSale /\ gone' = {} /\ UNCHANGED <<conn, disk, todo, sale>>
      /\ mem' = [mem EXCEPT !.open = [m \in Mint |-> IF m \in gone THEN "none" ELSE @[m]]]
  BY DEF EndPass
<1>2. /\ \A m \in Mint : mem'.open[m] = IF m \in gone THEN "none" ELSE mem.open[m]
      /\ mem'.balance = mem.balance
  BY <1>1 DEF BooksOK, Book
<1>3. ~Taking /\ ~Saving /\ ~Taking' /\ ~Saving' /\ Due = 0 /\ Due' = 0
  BY <1>1 DEF Taking, Saving, Due
<1>4. Held(mem)' \subseteq Held(mem)
  BY <1>2 DEF Held
<1>5. \A m \in Mint : disk'.open[m] = Staged(m)'
  BY <1>1, <1>2, <1>3 DEF CalmInv, Staged
<1>6. Realised(disk)' = Realised(disk) /\ Exposure(disk)' = Exposure(disk)
  BY <1>1
<1>7. \A t : Shown(t)' = Shown(t)
  BY <1>1 DEF Shown
<1>8. /\ conn' = disk' /\ todo' \subseteq Left' /\ gone' \subseteq Held(mem)'
      /\ Held(mem)' \subseteq disk'.rows /\ ~(sale' # NoSale)
  BY <1>1, <1>4 DEF CalmInv
<1>9. mem'.balance = disk'.balance + Due'
  BY <1>1, <1>2, <1>3 DEF CalmInv
<1>10. disk'.balance = StartingBalance + Realised(disk') - Exposure(disk')
  BY <1>1, <1>3 DEF CalmInv
<1>11. IsFiniteSet(disk'.trades) /\ \A t \in disk'.trades : Shown(t)'
  BY <1>1, <1>7 DEF CalmInv
<1> QED BY <1>3, <1>5, <1>8, <1>9, <1>10, <1>11 DEF CalmInv

\* An entry into the empty slot.
LEMMA BuyCalm ==
  ASSUME BooksOK, PassOK, CalmInv, NEW m \in Mint, m \notin disk.rows, BuyCommits(m)
  PROVE  CalmInv'
<1> DEFINE none == Entered(disk, m)
           paid == Entered(mem, m)
           sum  == mem.balance - Size
<1>1. /\ lock = "buy" /\ Held(mem) = {} /\ UNCHANGED <<todo, gone, sale>>
      /\ conn' = WithBalance(none, sum) /\ disk' = conn' /\ mem' = WithBalance(paid, sum)
  BY DEF BuyCommits, MayEnter, pass, CalmInv
<1>2. todo = {} /\ gone = {} /\ sale = NoSale
  BY <1>1 DEF PassOK
<1>3. ~Taking /\ ~Saving /\ ~Taking' /\ ~Saving' /\ Due = 0 /\ Due' = 0
  BY <1>1, <1>2 DEF Taking, Saving, Due
<1>4. disk \in Book /\ mem \in Book /\ sum \in Int /\ Size \in Int /\ StartingBalance \in Int
      /\ mem.balance \in Int /\ disk.balance \in Int
      /\ mem.open \in [Mint -> Stages] /\ disk.open \in [Mint -> Stages]
  BY TraderAssumption DEF BooksOK, Book
<1>5. none \in Book /\ paid \in Book
  BY <1>4, EnteredOK
<1>6. /\ none.open = [disk.open EXCEPT ![m] = "whole"] /\ none.trades = disk.trades
      /\ none.rows = disk.rows \cup {m} /\ paid.open = [mem.open EXCEPT ![m] = "whole"]
  BY <1>4, EnteredParts
<1> HIDE DEF none, paid, sum
<1>7. /\ disk'.open = [disk.open EXCEPT ![m] = "whole"] /\ disk'.trades = disk.trades
      /\ disk'.rows = disk.rows \cup {m} /\ disk'.balance = sum
      /\ mem'.open = [mem.open EXCEPT ![m] = "whole"] /\ mem'.balance = sum
  BY <1>1, <1>4, <1>5, <1>6, BalanceParts
<1>8. /\ disk'.open[m] = "whole" /\ mem'.open[m] = "whole"
      /\ \A k \in Mint : k # m => disk'.open[k] = disk.open[k] /\ mem'.open[k] = mem.open[k]
  BY <1>4, <1>7
<1>9. \A k \in Mint : mem.open[k] = "none" /\ disk.open[k] = "none"
  BY <1>1, <1>2, <1>3 DEF CalmInv, Staged, Held
<1>10. Exposure(disk') = Exposure(disk) + Size /\ Exposure(disk) \in Int
  <2>1. Amount(disk'.open[m]) = Size /\ Amount(disk.open[m]) = 0
    BY <1>8, <1>9 DEF Amount
  <2>2. /\ Exposure(disk') = Exposure(disk) - Amount(disk.open[m]) + Amount(disk'.open[m])
        /\ Exposure(disk) \in Int
    BY <1>8, ExposureMoves
  <2> QED BY <1>4, <2>1, <2>2
<1>11. Realised(disk') = Realised(disk) /\ Realised(disk) \in Int
  BY <1>4, <1>7, RealisedInt DEF Realised, CalmInv
<1>12. disk'.balance = StartingBalance + Realised(disk') - Exposure(disk')
  <2>1. mem.balance = disk.balance /\ disk.balance = StartingBalance + Realised(disk) - Exposure(disk)
    BY <1>3, <1>4 DEF CalmInv
  <2> QED BY <1>4, <1>7, <1>10, <1>11, <2>1 DEF sum
<1>13. \A k \in Mint : disk'.open[k] = Staged(k)'
  BY <1>1, <1>2, <1>3, <1>8, <1>9 DEF Staged
<1>14. Held(mem)' = {m}
  BY <1>8, <1>9 DEF Held
<1>15. \A t \in disk'.trades : Shown(t)'
  <2>1. ASSUME NEW t \in disk.trades PROVE Shown(t)'
    <3>1. Shown(t) /\ t.mint \in disk.rows /\ t.mint # m /\ t.mint \in Mint
      BY <1>4 DEF CalmInv, Shown, Book, Trades
    <3>2. disk'.open[t.mint] = disk.open[t.mint]
      BY <1>8, <3>1
    <3> QED BY <1>7, <3>1, <3>2 DEF Shown
  <2> QED BY <1>7, <2>1
<1>16. /\ conn' = disk' /\ todo' \subseteq Left' /\ gone' \subseteq Held(mem)'
       /\ Held(mem)' \subseteq disk'.rows /\ ~(sale' # NoSale) /\ IsFiniteSet(disk'.trades)
  BY <1>1, <1>2, <1>7, <1>14 DEF CalmInv
<1>17. mem'.balance = disk'.balance + Due'
  BY <1>3, <1>4, <1>7
<1> QED BY <1>3, <1>12, <1>13, <1>15, <1>16, <1>17 DEF CalmInv

\* A death while no partial exit is under way: what was committed is the book.
LEMMA RestartCalm ==
  ASSUME BooksOK, PassOK, CalmInv, TraderRestart, LegacyLeft = {}
  PROVE  CalmInv'
<1>1. /\ mem' = disk /\ conn' = disk /\ disk' = disk /\ todo' = {} /\ gone' = {}
      /\ sale' = NoSale
  BY DEF TraderRestart
<1>2. ~Taking /\ ~Saving
  <2>1. ASSUME Taking \/ Saving PROVE FALSE
    <3>1. sale.mint \in LegacyMint /\ sale.mint \in todo
      BY <2>1 DEF CalmInv, Taking, Saving
    <3>2. sale.mint \in disk.rows
      BY <3>1, TodoStaged
    <3> QED BY <3>1, <3>2 DEF LegacyLeft
  <2> QED BY <2>1
<1>3. ~Taking' /\ ~Saving' /\ Due' = 0
  BY <1>1 DEF Taking, Saving, Due
<1>4. \A m \in Mint : disk'.open[m] = Staged(m)'
  BY <1>1, <1>3 DEF Staged
<1>5. Held(mem)' \subseteq disk'.rows
  <2>1. ASSUME NEW m \in Mint, disk.open[m] # "none" PROVE m \in disk.rows
    <3>1. mem.open[m] # "none"
      BY <1>2, <2>1 DEF CalmInv, Staged
    <3> QED BY <3>1 DEF CalmInv, Held
  <2> QED BY <1>1, <2>1 DEF Held
<1>6. mem'.balance = disk'.balance + Due'
  BY <1>1, <1>3 DEF BooksOK, Book
<1>7. disk'.balance = StartingBalance + Realised(disk') - Exposure(disk')
  BY <1>1, <1>2 DEF CalmInv
<1>8. IsFiniteSet(disk'.trades) /\ \A t \in disk'.trades : Shown(t)'
  BY <1>1 DEF CalmInv, Shown
<1>9. conn' = disk' /\ todo' \subseteq Left' /\ gone' \subseteq Held(mem)' /\ ~(sale' # NoSale)
  BY <1>1
<1> QED BY <1>3, <1>4, <1>5, <1>6, <1>7, <1>8, <1>9 DEF CalmInv

\* What an earlier build left is whole, and paid for.
LEMMA CalmInit ==
  ASSUME Init
  PROVE  CalmInv
<1>1. PICK held \in SUBSET LegacyMint :
        /\ disk = [rows    |-> held,
                   open    |-> [m \in Mint |-> IF m \in held THEN "whole" ELSE "none"],
                   checked |-> {},
                   balance |-> StartingBalance - Size * Cardinality(held),
                   trades  |-> {}]
        /\ mem = disk /\ conn = disk
        /\ lock = "free"
        /\ todo = {} /\ gone = {} /\ sale = NoSale
        /\ tick = 0 /\ day = 0 /\ faults = 0
  BY DEF Init, TraderInit
<1>2. /\ disk.rows = held /\ disk.trades = {}
      /\ disk.balance = StartingBalance - Size * Cardinality(held)
      /\ \A m \in Mint : disk.open[m] = IF m \in held THEN "whole" ELSE "none"
  BY <1>1
<1>3. held \subseteq Mint /\ IsFiniteSet(Mint) /\ IsFiniteSet(held)
  BY TraderAssumption, FS_Subset
<1>4. Cardinality(held) \in Nat /\ Size \in Int /\ StartingBalance \in Int
  BY <1>3, TraderAssumption, FS_CardinalityType
<1>5. ~Taking /\ ~Saving /\ Due = 0
  BY <1>1 DEF Taking, Saving, Due
<1>6. Exposure(disk) = Size * Cardinality(held)
  <2> DEFINE f == [m \in Mint |-> Amount(disk.open[m])]
  <2>1. \A m \in Mint : f[m] = IF m \in held THEN Size ELSE 0
    BY <1>2 DEF Amount
  <2> HIDE DEF f
  <2>2. SumOf(f, Mint) = Size * Cardinality(held)
    BY <1>3, <1>4, <2>1, SumOfPart
  <2> QED BY <2>2 DEF f, Exposure
<1>7. Realised(disk) = 0
  BY <1>2, PnlNone DEF Realised
<1> DEFINE paid == Size * Cardinality(held)
<1>8. paid \in Int
  BY <1>4
<1>9. disk.balance = StartingBalance + Realised(disk) - Exposure(disk)
  <2>1. disk.balance = StartingBalance - paid /\ Exposure(disk) = paid
    BY <1>2, <1>6
  <2> HIDE DEF paid
  <2> QED BY <1>4, <1>7, <1>8, <2>1
<1>10. mem.balance = disk.balance + Due
  <2>1. disk.balance \in Int
    BY <1>2, <1>4, <1>8
  <2> QED BY <1>1, <1>5, <2>1
<1>11. Held(mem) = held
  BY <1>1, <1>2, <1>3 DEF Held
<1>12. \A m \in Mint : disk.open[m] = Staged(m)
  BY <1>1, <1>5 DEF Staged
<1>13. IsFiniteSet(disk.trades) /\ \A t \in disk.trades : Shown(t)
  BY <1>2, FS_EmptySet
<1> QED BY <1>1, <1>2, <1>5, <1>9, <1>10, <1>11, <1>12, <1>13 DEF CalmInv

\* Every step without a failure keeps what disk shows.
LEMMA CalmNext ==
  ASSUME TypeOK, EntryInv, CalmInv, [Next]_vars, Calm'
  PROVE  CalmInv'
<1>1. BooksOK /\ PassOK /\ DeskTypes /\ LockOK /\ faults' = 0
  BY TypeParts DEF Calm
<1>2. CASE PassStep
  BY <1>1, <1>2, PassCalm
<1>3. CASE UNCHANGED <<books, todo, gone, sale>>
  BY <1>1, <1>3, CalmStill
<1>4. CASE NextDay \/ UNCHANGED trader \/ AsksToBuy \/ Declines \/ Completes
  <2>1. UNCHANGED <<books, todo, gone, sale>>
    BY <1>4 DEF NextDay, pass, trader, books, AsksToBuy, GetsLock, Declines, BuyRefused,
       Completes, BuyReturns, Unlocks
  <2> QED BY <1>3, <2>1
<1>5. CASE Enters
  <2>1. At("buying") /\ BuyCommits(desk.mint)
    BY <1>5 DEF Enters
  <2>2. desk.mint \in Mint /\ desk.mint \notin disk.rows
    BY <1>1, <2>1, AtCase DEF EntryInv, Candidate
  <2> QED BY <1>1, <2>1, <2>2, BuyCalm
<1>6. CASE EntryFails
  BY <1>1, <1>6 DEF EntryFails, BuyFails, Fails, PassOK
<1>7. CASE EndPass
  BY <1>1, <1>7, EndPassCalm
<1>8. CASE Restart
  <2>1. TraderRestart /\ disk' = disk /\ restarts' # 0
    BY <1>1, <1>8 DEF Restart, TraderRestart, DeskTypes
  <2>2. LegacyLeft = {}
    BY <2>1 DEF Calm, LegacyLeft
  <2> QED BY <1>1, <2>1, <2>2, RestartCalm
<1>9. CASE CompanyStep
  BY <1>4, <1>5, <1>6, <1>9 DEF CompanyStep, Consider, Review, Intend, Block, WorkerFails,
     HandoffFails
<1>10. CASE UNCHANGED vars
  BY <1>4, <1>10 DEF vars
<1> QED BY <1>2, <1>4, <1>7, <1>8, <1>9, <1>10 DEF Next, Supervises

\* Calm weather does not come back.
LEMMA CalmBefore ==
  ASSUME TypeOK, EntryInv, [Next]_vars, Calm'
  PROVE  Calm
<1>1. LegacyLeft' = LegacyLeft
  BY LegacyKept
<1>2. faults \in Nat /\ restarts \in Nat
  BY DEF TypeOK
<1>3. faults' \in {faults, faults + 1}
  BY DEF Next, PassStep, StartPass, WritesTrail, CloseCommits, CloseFails, TakeCommits,
     TakeFails, SaveCommits, SaveFails, Holds, MicroExit, LegacyExit, Sells, TakeProfit,
     RecoverySells, RecoveryHolds, RecoveryFails, Fails, NextDay, CompanyStep, Consider,
     Review, Intend, Block, WorkerFails, HandoffFails, AsksToBuy, GetsLock, Declines,
     BuyRefused, Enters, BuyCommits, EntryFails, BuyFails, Completes, BuyReturns,
     Supervises, EndPass, Restart, TraderRestart, trader, vars
<1>4. restarts' \in {restarts, restarts + 1}
  BY DEF Next, CompanyStep, Consider, Review, Intend, Block, WorkerFails, HandoffFails,
     AsksToBuy, Declines, Enters, EntryFails, Completes, Settle, Supervises, Restart,
     company, vars
<1> QED BY <1>1, <1>2, <1>3, <1>4 DEF Calm

\* As long as no write failed, and no death fell between the two commits of a partial exit,
\* the copies of the book agree whenever no pass runs, and the book reconciles
\* (paper_trader.py:1696, 1774).
THEOREM BooksQuiet == Spec => []QuietBooks
<1>1. Init => (Calm => CalmInv)
  BY CalmInit
<1>2. /\ TypeOK /\ EntryInv /\ (Calm => CalmInv) /\ [Next]_vars
      => (Calm => CalmInv)'
  BY CalmNext, CalmBefore
<1>3. TypeOK /\ (Calm => CalmInv) => QuietBooks
  <2> SUFFICES ASSUME TypeOK, CalmInv, lock # "check"
               PROVE  SameMoney(mem, disk) /\ conn = disk /\ Reconciles(disk)
    BY DEF QuietBooks, Calm
  <2>1. BooksOK /\ PassOK /\ sale = NoSale /\ gone = {}
    BY TypeParts DEF PassOK
  <2>2. ~Taking /\ ~Saving /\ Due = 0
    BY <2>1 DEF Taking, Saving, Due
  <2>3. /\ mem.open \in [Mint -> Stages] /\ disk.open \in [Mint -> Stages]
        /\ disk.balance \in Int
    BY <2>1 DEF BooksOK, Book
  <2>4. mem.open = disk.open
    BY <2>1, <2>2, <2>3 DEF CalmInv, Staged
  <2> QED BY <2>2, <2>3, <2>4 DEF CalmInv, SameMoney, Reconciles
<1> QED
  BY <1>1, <1>2, <1>3, CompanyTypes, EntryInvariant, PTL DEF Spec
=============================================================================
