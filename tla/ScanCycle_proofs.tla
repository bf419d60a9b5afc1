-------------------------- MODULE ScanCycle_proofs --------------------------
(***************************************************************************)
(* What the evaluation computes for every market, every evidence and every *)
(* search, and what a cycle promises of the list it works through, of the  *)
(* tokens that qualify and of the message it sends, for every feed, token, *)
(* answer and budget.                                                      *)
(***************************************************************************)
EXTENDS ScanCycle, Quantity_proofs, SequenceTheorems

\* The figures of a pair are numbers, or Unknown.
MarketFigures(m) ==
  /\ m.price \in Int /\ m.cap \in Int /\ m.liquidity \in Int /\ m.volume \in Int
  /\ m.buys \in Int /\ m.sells \in Int /\ m.change_1h \in Int /\ m.change_5m \in Int
  /\ m.flow \in Int /\ m.turnover \in Int /\ m.trade \in Int

Between(lo, n, hi) == n \in Int /\ lo <= n /\ n <= hi

\* The ladder of a candidate: both targets in their bounds, and apart.
LadderInBounds(l) ==
  /\ Between(0, l.presence, 10000)
  /\ Between(150, l.first, 1200)
  /\ 100 * l.first <= 40000 + 8 * l.presence
  /\ Between(l.first + 25, l.runner, 5000)
-----------------------------------------------------------------------------
\* A clipped number lies within its bounds.
LEMMA Clipped ==
  ASSUME NEW lo, NEW hi, NEW n, lo \in Int, hi \in Int, n \in Int, lo <= hi
  PROVE  Between(lo, Clip(lo, hi, n), hi)
BY DEF Clip, Least, Greatest, Between

\* A bound may be raised.
LEMMA Lower ==
  ASSUME NEW lo, NEW n, NEW top, NEW hi, Between(lo, n, top), top \in Int, hi \in Int,
         lo \in Int, top <= hi
  PROVE  Between(lo, n, hi)
BY DEF Between

\* A target rounded under its ceiling.
LEMMA UnderCeiling ==
  ASSUME NEW ceiling, NEW rounded, NEW bound,
         ceiling \in Int, rounded \in Int, bound \in Int,
         400 <= ceiling, ceiling <= 1200, 100 * ceiling <= bound
  PROVE  /\ Between(150, Clip(150, ceiling, rounded), 1200)
         /\ 100 * Clip(150, ceiling, rounded) <= bound
BY DEF Clip, Least, Greatest, Between

\* The bounds of the first target, whatever the quality.
LEMMA FirstInBounds ==
  ASSUME NEW quality, NEW presence, quality \in Int, Between(0, presence, 10000)
  PROVE  /\ Between(150, FirstTarget(quality, presence), 1200)
         /\ 100 * FirstTarget(quality, presence) <= 40000 + 8 * presence
<1> DEFINE exact == 100 * (Base + quality) + Bonus(presence)
<1>1. Rounded(exact) \in Int
  BY DEF Rounded, Nearest, Base, Bonus, Between
<1>2. /\ Ceiling(presence) \in Int /\ 40000 + 8 * presence \in Int
      /\ 400 <= Ceiling(presence) /\ Ceiling(presence) <= 1200
      /\ 100 * Ceiling(presence) <= 40000 + 8 * presence
  BY DEF Ceiling, ExactCeiling, Between
<1>3. FirstTarget(quality, presence) = Clip(150, Ceiling(presence), Rounded(exact))
  BY DEF FirstTarget, MinTarget
<1> HIDE DEF exact
<1>4. /\ Between(150, Clip(150, Ceiling(presence), Rounded(exact)), 1200)
      /\ 100 * Clip(150, Ceiling(presence), Rounded(exact)) <= 40000 + 8 * presence
  BY <1>1, <1>2, UnderCeiling
<1> QED
  BY <1>3, <1>4

\* The second target, for every first one and presence.
LEMMA RunnerInBounds ==
  ASSUME NEW first, NEW presence, Between(150, first, 1200), Between(0, presence, 10000)
  PROVE  Between(first + 25, RunnerTarget(first, presence), 5000)
<1> DEFINE product == first * (150000 + 45 * presence)
           scaled  == (product + 50000) \div 100000
<1>1. product \in Int
  BY DEF Between
<1>2. RunnerTarget(first, presence) =
        IF Least(5000, scaled) < first + 25 THEN first + 25 ELSE Least(5000, scaled)
  BY DEF RunnerTarget
<1> HIDE DEF product
<1>3. scaled \in Int
  BY <1>1
<1> HIDE DEF scaled
<1> QED
  BY <1>2, <1>3 DEF Least, Between
-----------------------------------------------------------------------------
(* Points *)

\* A saturating part is a number.
LEMMA SaturatingRange ==
  ASSUME NEW value, NEW reference, NEW maximum,
         value \in Int, reference \in Nat \ {0}, maximum \in Nat
  PROVE  Saturating(value, reference, maximum) \in Int
<1>1. CASE value <= 0
  BY <1>1 DEF Saturating
<1>2. CASE value > 0
  <2>1. maximum * value \in Int /\ value + reference \in Nat \ {0}
    BY <1>2
  <2> QED
    BY <1>2, <2>1 DEF Saturating
<1> QED
  BY <1>1, <1>2

\* The presence, and what a warning leaves of it.
LEMMA PresenceRange ==
  ASSUME NEW c, NEW m, MarketFigures(m), NEW x, x.mentions \in Nat
  PROVE  /\ Between(0, Presence(c, m, x), 10000)
         /\ x.scam => Presence(c, m, x) <= ScamCeiling
<1>1. SocialPoints(c) \in Int
  BY DEF SocialPoints, Award, Least
<1>2. /\ Saturating(x.mentions, 25, 1200) \in Int
      /\ Saturating(m.turnover, 200, 800) \in Int
      /\ Saturating(m.trade, TradeReference, 700) \in Int
  <2>1. /\ m.turnover \in Int /\ m.trade \in Int /\ x.mentions \in Int
        /\ 25 \in Nat \ {0} /\ 200 \in Nat \ {0} /\ TradeReference \in Nat \ {0}
        /\ 1200 \in Nat /\ 800 \in Nat /\ 700 \in Nat
    BY DEF MarketFigures, TradeReference
  <2> QED
    BY <2>1, SaturatingRange
<1>3. /\ Award(Celebrity(x), 6000) \in Int /\ Award(x.big_account, 800) \in Int
      /\ Award(x.buzz, 300) \in Int /\ Award(x.viral, 700) \in Int
  BY DEF Award
<1>4. RawPresence(c, m, x) \in Int
  BY <1>1, <1>2, <1>3 DEF RawPresence
<1> DEFINE top == IF x.scam THEN ScamCeiling ELSE 10000
<1>5. /\ top \in Int /\ 0 <= top /\ top <= 10000
      /\ x.scam => top = ScamCeiling
  BY DEF ScamCeiling
<1>6. Presence(c, m, x) = Clip(0, top, RawPresence(c, m, x))
  BY DEF Presence
<1> HIDE DEF top
<1>7. Between(0, Presence(c, m, x), top)
  BY <1>4, <1>5, <1>6, Clipped
<1>8. Between(0, Presence(c, m, x), 10000)
  BY <1>5, <1>7, Lower
<1>9. ASSUME x.scam PROVE Presence(c, m, x) <= ScamCeiling
  BY <1>5, <1>7, <1>9 DEF Between
<1> QED
  BY <1>8, <1>9

\* The risk quality is a number.
LEMMA QualityRange ==
  ASSUME NEW m, MarketFigures(m), NEW e, NEW x, NEW score
  PROVE  Quality(m, e, x, score) \in Int
<1>1. Award(e.coordinated = "MEDIUM", -50) \in Int /\ Award(e.suspicion = "MEDIUM", -50) \in Int
  BY DEF Award
<1>2. Award(score >= 8000, 25) \in Int
  BY DEF Award
<1> QED
  BY <1>1, <1>2 DEF Quality, Award
-----------------------------------------------------------------------------
(* The ladder *)

\* LadderInBounds of a record.
LEMMA InBounds ==
  ASSUME NEW p, NEW f, NEW r, Between(0, p, 10000), Between(150, f, 1200),
         100 * f <= 40000 + 8 * p, Between(f + 25, r, 5000)
  PROVE  LadderInBounds([presence |-> p, first |-> f, runner |-> r])
BY DEF LadderInBounds

\* compute_take_profit_target and compute_runner_target never leave their bounds, and
\* never put the two stages closer together than a quarter, whatever the market, the
\* holders, the mentions and the score.
THEOREM LadderBounds ==
  ASSUME NEW c, NEW m, MarketFigures(m), NEW e, NEW x, x.mentions \in Nat
  PROVE  LadderInBounds(Ladder(c, m, e, x))
<1> DEFINE presence == Presence(c, m, x)
           first    == FirstTarget(Quality(m, e, x, Score(c, m)), presence)
<1>1. Between(0, presence, 10000)
  BY PresenceRange
<1>2. Between(150, first, 1200) /\ 100 * first <= 40000 + 8 * presence
  BY <1>1, QualityRange, FirstInBounds
<1>3. Between(first + 25, RunnerTarget(first, presence), 5000)
  BY <1>1, <1>2, RunnerInBounds
<1>4. LadderInBounds([presence |-> presence, first |-> first,
                      runner |-> RunnerTarget(first, presence)])
  BY <1>1, <1>2, <1>3, InBounds
<1> QED
  BY <1>4 DEF Ladder

\* The bounds as the property states them.
LEMMA RungsInOrder ==
  ASSUME NEW presence, NEW first, NEW runner, Between(0, presence, 10000),
         Between(150, first, 1200), Between(first + 25, runner, 5000),
         100 * first <= 40000 + 8 * presence
  PROVE  InOrder(presence, first, runner)
BY DEF Between, InOrder

\* What a low presence allows as the first target.
LEMMA LowPresence ==
  ASSUME NEW presence, NEW first, Between(0, presence, 10000), Between(150, first, 1200),
         presence <= 500, 100 * first <= 40000 + 8 * presence
  PROVE  first <= 440
BY DEF Between

\* A scam warning caps the presence, so the first target cannot profit from the
\* attention: it is 4.4x at most.
THEOREM WarnedPresence ==
  ASSUME NEW c, NEW m, MarketFigures(m), NEW e, NEW x, x.mentions \in Nat, x.scam
  PROVE  Ladder(c, m, e, x).first <= 440
<1> DEFINE l == Ladder(c, m, e, x)
<1>1. l.presence = Presence(c, m, x)
  BY DEF Ladder
<1>2. Presence(c, m, x) <= 500
  BY PresenceRange DEF ScamCeiling
<1>3. LadderInBounds(l)
  BY LadderBounds
<1> HIDE DEF l
<1>4. /\ Between(0, l.presence, 10000) /\ Between(150, l.first, 1200)
      /\ 100 * l.first <= 40000 + 8 * l.presence
  BY <1>3 DEF LadderInBounds
<1>5. l.first <= 440
  BY <1>1, <1>2, <1>4, LowPresence
<1> QED
  BY <1>5 DEF l
-----------------------------------------------------------------------------
(* The market evidence *)

Quoted(pairs) ==
  /\ pairs \in Seq(ToSet(pairs))
  /\ \A i \in DOMAIN pairs :
       {pairs[i].price, pairs[i].cap, pairs[i].liquidity, pairs[i].volume, pairs[i].buys,
        pairs[i].sells, pairs[i].change_1h, pairs[i].change_5m} \subseteq Int

\* Of any positions of a list of pairs, one is the first of the deepest.
LEMMA DeepestPair ==
  ASSUME NEW pairs, Quoted(pairs), NEW own, own \subseteq DOMAIN pairs, own # {}
  PROVE  \E i \in own : \A j \in own \ {i} :
           \/ pairs[j].liquidity < pairs[i].liquidity
           \/ pairs[j].liquidity = pairs[i].liquidity /\ i < j
<1> DEFINE depth == [i \in own |-> pairs[i].liquidity]
<1>1. /\ Len(pairs) \in Nat /\ DOMAIN pairs = 1..Len(pairs)
  <2>1. pairs \in Seq(ToSet(pairs))
    BY DEF Quoted
  <2> QED BY <2>1, LenProperties
<1>2. IsFiniteSet(own) /\ own \subseteq Int
  <2>1. IsFiniteSet(1..Len(pairs)) /\ own \in SUBSET (1..Len(pairs))
    BY <1>1, FS_Interval
  <2> QED BY <2>1, FS_Subset
<1>3. \A i \in own : depth[i] \in Int
  BY DEF Quoted
<1>4. PICK d \in own : \A j \in own : depth[j] <= depth[d]
  <2> HIDE DEF depth
  <2> QED BY <1>2, <1>3, LargestAt
<1> DEFINE deepest == {i \in own : depth[i] = depth[d]}
           early == [i \in deepest |-> -i]
<1>5. /\ IsFiniteSet(deepest) /\ deepest # {}
      /\ \A i \in deepest : early[i] \in Int
  <2>1. deepest \in SUBSET own /\ d \in deepest
    OBVIOUS
  <2>2. IsFiniteSet(deepest)
    <3> HIDE DEF deepest
    <3> QED BY <1>2, <2>1, FS_Subset
  <2>3. \A i \in deepest : i \in Int
    BY <1>2
  <2> QED BY <2>1, <2>2, <2>3
<1>6. PICK i \in deepest : \A j \in deepest : early[j] <= early[i]
  <2> HIDE DEF early, deepest
  <2> QED BY <1>5, LargestAt
<1>7. \A j \in deepest : i <= j
  BY <1>2, <1>6
<1>8. ASSUME NEW j \in own \ {i}
      PROVE  \/ depth[j] < depth[i]
             \/ depth[j] = depth[i] /\ i < j
  <2>1. depth[i] = depth[d] /\ depth[j] <= depth[d] /\ i \in Int /\ j \in Int
    BY <1>2, <1>4
  <2>2. CASE depth[j] = depth[d]
    BY <1>7, <2>1, <2>2
  <2>3. CASE depth[j] # depth[d]
    <3> HIDE DEF depth
    <3> QED BY <1>3, <2>1, <2>3
  <2> QED BY <2>2, <2>3
<1>9. i \in own
  OBVIOUS
<1> QED BY <1>8, <1>9

\* What get_pair finds has the figures of one of the pairs.
LEMMA PairFigures ==
  ASSUME NEW mint, NEW pairs, Quoted(pairs), Pair(mint, pairs).found
  PROVE  MarketFigures(Pair(mint, pairs))
<1> DEFINE own == {i \in DOMAIN pairs : pairs[i].chain = "solana" /\ pairs[i].base = mint}
           first == CHOOSE i \in own :
                      \A j \in own \ {i} :
                        \/ pairs[j].liquidity < pairs[i].liquidity
                        \/ pairs[j].liquidity = pairs[i].liquidity /\ i < j
           best == pairs[first]
           flow == (100 * best.buys) \div Greatest(1, best.sells)
           turnover == (100 * best.volume) \div Greatest(1, best.cap)
           found == [found |-> TRUE, pool |-> best.pool, price |-> best.price, age |-> best.age,
                     cap |-> best.cap, liquidity |-> best.liquidity, volume |-> best.volume,
                     buys |-> best.buys, sells |-> best.sells, links |-> best.links,
                     change_1h |-> best.change_1h, change_5m |-> best.change_5m,
                     flow |-> flow, turnover |-> turnover, trade |-> AverageTrade(best)]
<1>1. Pair(mint, pairs) = IF own = {} THEN NoPair ELSE found
  BY DEF Pair
<1>2. own # {} /\ Pair(mint, pairs) = found
  <2>1. ~NoPair.found
    BY DEF NoPair
  <2> HIDE DEF own, found
  <2> QED BY <1>1, <2>1
<1>3. first \in own
  <2>1. own \subseteq DOMAIN pairs
    OBVIOUS
  <2> HIDE DEF own
  <2> QED BY <1>2, <2>1, DeepestPair
<1>4. /\ best.price \in Int /\ best.cap \in Int /\ best.liquidity \in Int
      /\ best.volume \in Int /\ best.buys \in Int /\ best.sells \in Int
      /\ best.change_1h \in Int /\ best.change_5m \in Int
  BY <1>3 DEF Quoted
<1> HIDE DEF best
<1>5. flow \in Int /\ turnover \in Int
  <2>1. /\ Greatest(1, best.sells) \in Nat \ {0} /\ Greatest(1, best.cap) \in Nat \ {0}
        /\ 100 * best.buys \in Int /\ 100 * best.volume \in Int
    BY <1>4 DEF Greatest
  <2> QED BY <2>1
<1>6. AverageTrade(best) \in Int
  <2>1. CASE best.volume > 0 /\ best.buys + best.sells > 0
    <3>1. best.buys + best.sells \in Nat \ {0}
      BY <1>4, <2>1
    <3> QED BY <1>4, <2>1, <3>1 DEF AverageTrade
  <2>2. CASE ~(best.volume > 0 /\ best.buys + best.sells > 0)
    BY <2>2 DEF AverageTrade, Unknown
  <2> QED BY <2>1, <2>2
<1> HIDE DEF flow, turnover
<1>7. MarketFigures(found)
  BY <1>4, <1>5, <1>6 DEF MarketFigures
<1> QED BY <1>2, <1>7
-----------------------------------------------------------------------------
(* The on-chain evidence *)

\* The fee on record is one of those the token names, or Unknown.
LEMMA FeeIsNumber ==
  ASSUME NEW token \in Tokens, NEW lost
  PROVE  MintInfo(token, lost).fee \in Int
<1> DEFINE taxed == {x \in token.extensions : x.type = "transfer_fee"}
           older == [e \in taxed |-> e.older]
           newer == [e \in taxed |-> e.newer]
           named == {older[e] : e \in taxed} \cup {newer[e] : e \in taxed}
<1>1. IsFiniteSet(taxed)
  <2>1. IsFiniteSet(token.extensions) /\ taxed \in SUBSET token.extensions
    BY TokenAssumption
  <2> HIDE DEF taxed
  <2> QED BY <2>1, FS_Subset
<1>2. IsFiniteSet(named)
  <2> HIDE DEF taxed, older, newer
  <2> QED BY <1>1, FiniteImage, FS_Union
<1>3. \A e \in taxed : e.older \in Int /\ e.newer \in Int
  BY TokenAssumption
<1>4. named \subseteq Int
  BY <1>3
<1>5. KnownFees(token) \subseteq named
  BY DEF KnownFees
<1>6. CASE KnownFees(token) = {}
  BY <1>6 DEF MintInfo, Unread, Unknown
<1>7. CASE KnownFees(token) # {}
  <2>1. IsFiniteSet(KnownFees(token)) /\ KnownFees(token) \subseteq Int
    <3> HIDE DEF named
    <3> QED BY <1>2, <1>4, <1>5, FS_Subset
  <2>2. Max(KnownFees(token)) \in Int
    BY <1>7, <2>1, MaxOf
  <2> QED BY <1>7, <2>2 DEF MintInfo, Unread, Unknown
<1> QED BY <1>6, <1>7

\* A mint account that was read and found in order.
LEMMA VerifiedMint ==
  ASSUME NEW token \in Tokens, NEW lost, MintInfo(token, lost).status = "VERIFIED"
  PROVE  /\ token.mint_authority = "none" /\ token.freeze_authority = "none"
         /\ \A e \in token.extensions : Harmless(e)
<1>1. <<"mint", 0>> \notin lost
  BY DEF MintInfo, Unread
<1> DEFINE complete == token.mint_authority # "absent" /\ token.freeze_authority # "absent"
           dangerous == \/ complete /\ "set" \in {token.mint_authority, token.freeze_authority}
                        \/ \E e \in token.extensions : Dangerous(e)
           unsupported == \/ ~complete
                          \/ \E e \in token.extensions :
                               e.type \notin Supported \cup Informational
<1>2. MintInfo(token, lost).status =
        IF dangerous THEN "REJECTED"
        ELSE IF unsupported \/ token.program \notin {"token", "token-2022"}
             THEN "UNVERIFIED" ELSE "VERIFIED"
  BY <1>1 DEF MintInfo
<1>3. ~dangerous /\ ~unsupported
  <2> HIDE DEF dangerous, unsupported
  <2> QED BY <1>2
<1>4. token.mint_authority = "none" /\ token.freeze_authority = "none"
  BY <1>3, TokenAssumption
<1>5. ASSUME NEW e \in token.extensions PROVE Harmless(e)
  <2>1. ~Dangerous(e) /\ e.type \in Supported \cup Informational
    BY <1>3
  <2>2. e.type # "non_transferable"
    BY <2>1 DEF Dangerous
  <2>3. CASE e.type = "default_state"
    BY <2>1, <2>3 DEF Dangerous, Harmless
  <2>4. CASE e.type = "permanent_delegate"
    BY <2>1, <2>4 DEF Dangerous, Harmless
  <2>5. CASE e.type = "transfer_hook"
    BY <2>1, <2>5 DEF Dangerous, Harmless
  <2>6. CASE e.type = "transfer_fee"
    BY <2>1, <2>6 DEF Dangerous, Harmless
  <2>7. CASE e.type = "informational"
    BY <2>7 DEF Harmless
  <2> QED BY <2>1, <2>2, <2>3, <2>4, <2>5, <2>6, <2>7 DEF Supported, Informational
<1> QED BY <1>4, <1>5

\* The part of OnlySafeQualify that is about the holders.
Spread(token, known) ==
  LET top == AtMost(10, token.accounts)
  IN /\ 100 * Owned(token, DOMAIN top) <= 30 * token.supply
     /\ known => 100 * Owned(token, {i \in DOMAIN top : token.accounts[i].owner = Creator})
                   <= 30 * token.supply
     /\ Coordinated([i \in DOMAIN token.accounts |-> token.accounts[i].amount], token.supply)
          # "HIGH"

\* The ten largest accounts are the first ten.
LEMMA TopTen ==
  ASSUME NEW token \in Tokens
  PROVE  LET top == AtMost(10, token.accounts)
         IN /\ DOMAIN top \subseteq DOMAIN token.accounts
            /\ IsFiniteSet(DOMAIN top)
            /\ \A i \in DOMAIN top : top[i] = token.accounts[i]
<1> DEFINE accounts == token.accounts
           n == Least(10, Len(accounts))
           top == SubSeq(accounts, 1, n)
<1>1. accounts \in Seq(ToSet(accounts))
  BY TokenAssumption
<1>2. Len(accounts) \in Nat /\ DOMAIN accounts = 1..Len(accounts)
  <2> HIDE DEF accounts
  <2> QED BY <1>1, LenProperties
<1> HIDE DEF accounts
<1>3. n \in Nat /\ n <= Len(accounts)
  BY <1>2 DEF Least
<1> HIDE DEF n
<1>4. top = [i \in 1..n |-> accounts[i]]
  BY <1>1, <1>2, <1>3
<1>5. DOMAIN top = 1..n /\ \A i \in 1..n : top[i] = accounts[i]
  BY <1>4
<1>6. IsFiniteSet(1..n) /\ 1..n \subseteq DOMAIN accounts
  BY <1>2, <1>3, FS_Interval
<1> QED BY <1>5, <1>6 DEF AtMost, n, accounts

\* What some of the ten largest hold is a number.
LEMMA OwnedIsNumber ==
  ASSUME NEW token \in Tokens, NEW S, S \subseteq DOMAIN AtMost(10, token.accounts)
  PROVE  Owned(token, S) \in Int
<1> DEFINE amount == [i \in DOMAIN token.accounts |-> token.accounts[i].amount]
<1>1. IsFiniteSet(S) /\ S \subseteq DOMAIN token.accounts
  BY TopTen, FS_Subset
<1>2. \A i \in S : amount[i] \in Int
  BY <1>1, TokenAssumption
<1> HIDE DEF amount
<1>3. SumOf(amount, S) \in Int
  BY <1>1, <1>2, SumInt
<1> QED BY <1>3 DEF Owned, amount

\* A gate is passed on evidence: what passes was read, and found in order.
LEMMA PassedChain ==
  ASSUME NEW token \in Tokens, NEW c, NEW lost, NEW e,
         e = CheckToken(token, IF c.creator THEN Creator ELSE NoOne, lost),
         ChainVerdict(c, e) = "PASSED"
  PROVE  /\ e.status = "VERIFIED" /\ e.fee \in Int
         /\ token.mint_authority = "none" /\ token.freeze_authority = "none"
         /\ \A x \in token.extensions : Harmless(x)
         /\ Spread(token, c.creator)
<1> DEFINE creator  == IF c.creator THEN Creator ELSE NoOne
           info     == MintInfo(token, lost)
           usable   == /\ <<"supply", 0>> \notin lost /\ token.supply > 0
                       /\ <<"accounts", 0>> \notin lost /\ RowsComplete(token.accounts)
           top      == AtMost(10, token.accounts)
           amounts  == [i \in DOMAIN token.accounts |-> token.accounts[i].amount]
           share(S) == [held |-> SumOf(amounts, S), supply |-> token.supply]
           its      == {i \in DOMAIN top : top[i].owner = creator}
<1>1. /\ e.status = IF usable \/ info.status = "REJECTED" THEN info.status ELSE "UNVERIFIED"
      /\ e.fee = info.fee /\ e.dangerous = info.dangerous
      /\ e.dev = IF usable /\ OwnersComplete(Len(top), creator, lost) THEN share(its) ELSE NoShare
      /\ e.top10 = IF usable THEN share(DOMAIN top) ELSE NoShare
      /\ e.coordinated = IF usable THEN Coordinated(amounts, token.supply) ELSE "LOW"
  BY DEF CheckToken
<1> HIDE DEF usable, info, amounts, share, its, top, creator
<1>2. /\ e.status = "VERIFIED"
      /\ ~(e.dev = NoShare /\ c.creator)
      /\ ~Above(e.dev, MaxDev) /\ ~Above(e.top10, MaxTop10) /\ e.coordinated # "HIGH"
  <2> DEFINE gates == IF e.dev = NoShare /\ c.creator THEN "DEFERRED"
                      ELSE IF \/ Above(e.dev, MaxDev) \/ Above(e.top10, MaxTop10)
                              \/ e.coordinated = "HIGH" \/ e.suspicion = "HIGH"
                           THEN "REJECTED" ELSE "PASSED"
  <2>1. e.status \in {"REJECTED", "UNVERIFIED", "VERIFIED"}
    <3>1. info.status \in {"REJECTED", "UNVERIFIED", "VERIFIED"}
      BY DEF info, MintInfo, Unread
    <3> QED BY <1>1, <3>1
  <2>2. e.status = "VERIFIED" /\ ~e.dangerous
    <3>1. CASE e.status = "REJECTED" \/ e.dangerous
      BY <3>1 DEF ChainVerdict
    <3>2. CASE e.status = "UNVERIFIED" /\ ~e.dangerous
      BY <3>2 DEF ChainVerdict
    <3> QED BY <2>1, <3>1, <3>2
  <2>3. ChainVerdict(c, e) = gates
    BY <2>2 DEF ChainVerdict
  <2> QED BY <2>2, <2>3
<1>3. usable /\ info.status = "VERIFIED"
  BY <1>1, <1>2
<1>4. /\ token.mint_authority = "none" /\ token.freeze_authority = "none"
      /\ \A x \in token.extensions : Harmless(x)
  BY <1>3, VerifiedMint DEF info
<1>5. e.fee \in Int
  BY <1>1, FeeIsNumber DEF info
<1>6. 100 * Owned(token, DOMAIN top) <= 30 * token.supply
  <2>1. Owned(token, DOMAIN top) \in Int /\ token.supply \in Int
    BY OwnedIsNumber, TokenAssumption DEF top
  <2>2. e.top10 = [held |-> Owned(token, DOMAIN top), supply |-> token.supply]
    BY <1>1, <1>3 DEF share, Owned, amounts
  <2> QED BY <1>2, <2>1, <2>2 DEF Above, MaxTop10
<1>7. ASSUME c.creator
      PROVE  100 * Owned(token, {i \in DOMAIN top : token.accounts[i].owner = Creator})
               <= 30 * token.supply
  <2> DEFINE own == {i \in DOMAIN top : token.accounts[i].owner = Creator}
  <2>1. creator = Creator
    BY <1>7 DEF creator
  <2>2. \A i \in DOMAIN top : top[i] = token.accounts[i]
    BY TopTen DEF top
  <2>3. its = own
    BY <2>1, <2>2 DEF its
  <2>4. Owned(token, own) \in Int /\ token.supply \in Int
    BY OwnedIsNumber, TokenAssumption DEF top
  <2> HIDE DEF own
  <2>5. e.dev = share(its)
    BY <1>1, <1>2, <1>7
  <2>6. e.dev = [held |-> Owned(token, own), supply |-> token.supply]
    BY <2>3, <2>5 DEF share, Owned, amounts
  <2>7. 100 * Owned(token, own) <= 30 * token.supply
    BY <1>2, <2>4, <2>6 DEF Above, MaxDev
  <2> QED BY <2>7 DEF own
<1>8. Coordinated(amounts, token.supply) # "HIGH"
  BY <1>1, <1>2, <1>3
<1> QED BY <1>2, <1>4, <1>5, <1>6, <1>7, <1>8 DEF Spread, top, amounts
-----------------------------------------------------------------------------
(* The verdict *)

\* The ticket that is selected is worth it and leaves the reserve, if any is.
LEMMA SelectedPays ==
  ASSUME NEW m, MarketFigures(m), m.liquidity > 0, NEW e, e.fee \in Int, NEW score,
         Affordable(m, e, score, Reference) # {}
  PROVE  LET t == Selected(m, e, score, Reference)
         IN /\ 100 * (t.gross - t.costs) >= 131 * t.loss
            /\ t.amount * Unit + t.costs <= 6 * Unit
<1> DEFINE ok == Affordable(m, e, score, Reference)
           i  == CHOOSE n \in ok : \A j \in ok : n <= j
           a  == Amounts[i]
           t  == Ticket(a, m, e, score)
<1>1. /\ DOMAIN Amounts = 1..2 /\ Amounts[1] = 1 /\ Amounts[2] = 2
  BY DEF Amounts
<1>2. ok \subseteq 1..2
  BY <1>1 DEF Affordable
<1>3. i \in ok
  <2>1. \E n \in ok : \A j \in ok : n <= j
    <3>1. CASE 1 \in ok
      BY <1>2, <3>1
    <3>2. CASE 1 \notin ok
      <4>1. ok = {2}
        BY <1>2, <3>2
      <4> QED BY <4>1
    <3> QED BY <3>1, <3>2
  <2> HIDE DEF ok
  <2> QED BY <2>1
<1>4. Selected(m, e, score, Reference) = t
  BY DEF Selected
<1>5. Reference.balance - t.amount * Unit - t.costs >= ReserveKept /\ Worth(t)
  BY <1>3 DEF Affordable
<1>6. a \in {1, 2}
  BY <1>1, <1>2, <1>3
<1> HIDE DEF a, i, ok
<1>7. t.amount = a /\ t.costs \in Int
  <2> DEFINE impact == IF m.liquidity > 0 THEN Greatest(SlippageFloor, (20000 * a) \div m.liquidity)
                       ELSE 10000
             rate == DexFee + impact + 2 * Greatest(0, e.fee)
  <2>1. t.amount = a /\ t.costs = FixedCost + a * rate
    BY DEF Ticket
  <2>2. m.liquidity \in Nat \ {0} /\ 20000 * a \in Int
    BY <1>6 DEF MarketFigures
  <2>3. impact \in Int
    BY <2>2 DEF Greatest, SlippageFloor
  <2>4. rate \in Int
    <3> HIDE DEF impact
    <3> QED BY <2>3 DEF Greatest, DexFee
  <2> HIDE DEF rate
  <2> QED BY <1>6, <2>1, <2>4 DEF FixedCost
<1> HIDE DEF t
<1>8. 100 * (t.gross - t.costs) >= 131 * t.loss
  BY <1>5 DEF Worth, MinRewardRisk
<1>9. t.amount * Unit + t.costs <= 6 * Unit
  BY <1>5, <1>6, <1>7 DEF Reference, ReserveKept, Unit
<1> QED BY <1>4, <1>8, <1>9

\* Whatever the evidence, a BUY comes from the gates of the review.
LEMMA BuyVerdict ==
  ASSUME NEW m, MarketFigures(m), NEW e, e.fee \in Int, NEW x, NEW locked, NEW score, NEW fresh,
         Verdict(m, e, x, locked, score, fresh) = "BUY"
  PROVE  LET t == Selected(m, e, score, Reference)
         IN /\ locked /\ fresh
            /\ 100 * (t.gross - t.costs) >= 131 * t.loss
            /\ t.amount * Unit + t.costs <= 6 * Unit
            /\ x.available /\ ~x.scam
<1> DEFINE risks    == RiskFlags(e, locked, x.scam)
           decision == PlanDecision(m, e, risks, score, Reference)
           ticket   == Selected(m, e, score, Reference)
           watched  == risks # {} /\ risks \subseteq Missing(e, locked)
           buy      == decision = "BUY" /\ Referee(m, e, x, risks, decision, ticket)
           kind     == IF ~fresh THEN "REJECT"
                       ELSE IF watched THEN "WATCH"
                       ELSE IF decision = "BUY" THEN (IF buy THEN "BUY" ELSE "WATCH") ELSE decision
<1>1. Verdict(m, e, x, locked, score, fresh) =
        IF kind = "REJECT" \/ ~Scout(m) \/ ~MarketAnalyst(m) THEN "NO_MESSAGE" ELSE kind
  BY DEF Verdict
<1>2. kind = "BUY"
  <2> HIDE DEF kind
  <2> QED BY <1>1
<1>3. fresh /\ buy
  <2> HIDE DEF watched, buy, decision
  <2> QED BY <1>2
<1>4. decision = "BUY" /\ Referee(m, e, x, risks, decision, ticket)
  BY <1>3
<1>5. risks = {} /\ x.available
  <2> HIDE DEF risks, decision, ticket
  <2> QED BY <1>4 DEF Referee, RiskDefender, Investigator
<1>6. locked
  <2> SUFFICES ASSUME ~locked PROVE "LP_LOCK" \in risks
    BY <1>5
  <2> QED BY DEF RiskFlags
<1>7. ~x.scam
  <2> SUFFICES ASSUME x.scam PROVE "SCAM" \in risks
    BY <1>5
  <2> QED BY DEF RiskFlags
<1>8. ~HardReject(m, risks, Reference) /\ ~Waits(m, e, score, Reference)
  <2> HIDE DEF risks
  <2> QED BY <1>4 DEF PlanDecision
<1>9. m.liquidity > 0 /\ Affordable(m, e, score, Reference) # {}
  BY <1>8 DEF HardReject, Waits, MarketFigures
<1> QED BY <1>3, <1>5, <1>6, <1>7, <1>9, SelectedPays
-----------------------------------------------------------------------------
(* The cycle.  What a stage may rely on is what the stages before it left    *)
(* in hand, and in the decisions that qualified.                            *)

\* Nothing about the token of d gives its holders away: the body of OnlySafeQualify.
Safe(d) ==
  /\ d.token.mint_authority = "none" /\ d.token.freeze_authority = "none"
  /\ \A e \in d.token.extensions : Harmless(e)
  /\ Spread(d.token, d.c.creator)

Known(d) == MarketFigures(d.market) /\ d.e.fee \in Int

Decision(d) ==
  /\ d = [mint |-> d.mint, c |-> d.c, market |-> d.market, e |-> d.e, token |-> d.token,
          x |-> d.x, score |-> d.score, ladder |-> d.ladder, late |-> d.late]
  /\ Known(d) /\ Safe(d) /\ LadderInBounds(d.ladder)

Reviewed(d) ==
  /\ d = [mint |-> d.mint, c |-> d.c, market |-> d.market, e |-> d.e, token |-> d.token,
          x |-> d.x, score |-> d.score, ladder |-> d.ladder, late |-> d.late,
          locked |-> d.locked, real |-> d.real]
  /\ Known(d) /\ (d.locked => d.real)

CycleInv ==
  /\ pc = "chain" => MarketFigures(hand.market)
  /\ pc = "social" => Known(hand) /\ Safe(hand)
  /\ \A d \in qualified : Decision(d)
  /\ pc = "lock" => Decision(hand)
  /\ pc \in {"market", "decide", "deliver"} => Reviewed(hand)
  /\ pc = "deliver" => "age" \notin hand.late

\* What was on record stays true when it outlives its limit.
LEMMA LateDecision ==
  ASSUME NEW d, Decision(d), NEW late
  PROVE  Decision([d EXCEPT !.late = late])
<1> DEFINE n == [mint |-> d.mint, c |-> d.c, market |-> d.market, e |-> d.e, token |-> d.token,
                 x |-> d.x, score |-> d.score, ladder |-> d.ladder, late |-> late]
<1>1. [d EXCEPT !.late = late] = n
  BY DEF Decision
<1>2. /\ n.mint = d.mint /\ n.c = d.c /\ n.market = d.market /\ n.e = d.e
      /\ n.token = d.token /\ n.x = d.x /\ n.score = d.score /\ n.ladder = d.ladder
      /\ n.late = late
  OBVIOUS
<1>3. n = [mint |-> n.mint, c |-> n.c, market |-> n.market, e |-> n.e, token |-> n.token,
           x |-> n.x, score |-> n.score, ladder |-> n.ladder, late |-> n.late]
  OBVIOUS
<1> HIDE DEF n
<1>4. Known(n) /\ Safe(n) /\ LadderInBounds(n.ladder)
  BY <1>2 DEF Decision, Known, Safe
<1>5. Decision(n)
  BY <1>3, <1>4 DEF Decision
<1> QED BY <1>1, <1>5

\* Time does not change the evidence.
LEMMA LateReviewed ==
  ASSUME NEW d, Reviewed(d), NEW late
  PROVE  /\ Reviewed([d EXCEPT !.late = late])
         /\ [d EXCEPT !.late = late].late = late
<1> DEFINE n == [mint |-> d.mint, c |-> d.c, market |-> d.market, e |-> d.e, token |-> d.token,
                 x |-> d.x, score |-> d.score, ladder |-> d.ladder, late |-> late,
                 locked |-> d.locked, real |-> d.real]
<1>1. [d EXCEPT !.late = late] = n
  BY DEF Reviewed
<1>2. /\ n.market = d.market /\ n.e = d.e /\ n.locked = d.locked /\ n.real = d.real
      /\ n.late = late
  OBVIOUS
<1>3. n = [mint |-> n.mint, c |-> n.c, market |-> n.market, e |-> n.e, token |-> n.token,
           x |-> n.x, score |-> n.score, ladder |-> n.ladder, late |-> n.late,
           locked |-> n.locked, real |-> n.real]
  OBVIOUS
<1> HIDE DEF n
<1>4. Known(n) /\ (n.locked => n.real)
  BY <1>2 DEF Reviewed, Known
<1>5. Reviewed(n)
  BY <1>3, <1>4 DEF Reviewed
<1> QED BY <1>1, <1>2, <1>5

\* A second look at the market replaces the first.
LEMMA RefetchedReviewed ==
  ASSUME NEW d, Reviewed(d), NEW m, MarketFigures(m)
  PROVE  Reviewed([d EXCEPT !.market = m])
<1> DEFINE n == [mint |-> d.mint, c |-> d.c, market |-> m, e |-> d.e, token |-> d.token,
                 x |-> d.x, score |-> d.score, ladder |-> d.ladder, late |-> d.late,
                 locked |-> d.locked, real |-> d.real]
<1>1. [d EXCEPT !.market = m] = n
  BY DEF Reviewed
<1>2. n.market = m /\ n.e = d.e /\ n.locked = d.locked /\ n.real = d.real
  OBVIOUS
<1>3. n = [mint |-> n.mint, c |-> n.c, market |-> n.market, e |-> n.e, token |-> n.token,
           x |-> n.x, score |-> n.score, ladder |-> n.ladder, late |-> n.late,
           locked |-> n.locked, real |-> n.real]
  OBVIOUS
<1> HIDE DEF n
<1>4. Known(n) /\ (n.locked => n.real)
  BY <1>2 DEF Reviewed, Known
<1>5. Reviewed(n)
  BY <1>3, <1>4 DEF Reviewed
<1> QED BY <1>1, <1>5

\* The check of the pool adds to the evidence.
LEMMA CheckedReviewed ==
  ASSUME NEW d, Decision(d), NEW locked, NEW real, locked => real
  PROVE  Reviewed(Checked(d, locked, real))
<1> DEFINE n == Checked(d, locked, real)
<1>1. n.market = d.market /\ n.e = d.e /\ n.locked = locked /\ n.real = real
  BY DEF Checked
<1>2. n = [mint |-> n.mint, c |-> n.c, market |-> n.market, e |-> n.e, token |-> n.token,
           x |-> n.x, score |-> n.score, ladder |-> n.ladder, late |-> n.late,
           locked |-> n.locked, real |-> n.real]
  BY DEF Checked
<1> HIDE DEF n
<1>3. Known(n) /\ (n.locked => n.real)
  BY <1>1 DEF Decision, Known
<1>4. Reviewed(n)
  BY <1>2, <1>3 DEF Reviewed
<1> QED BY <1>4 DEF n

\* A decision that joins those that qualified: the evidence is in hand, the ladder is new.
LEMMA NewDecision ==
  ASSUME Known(hand), Safe(hand), NEW x \in Searches, NEW d,
         d = [mint |-> hand.mint, c |-> hand.c, market |-> hand.market, e |-> hand.e,
              token |-> hand.token, x |-> x, score |-> Score(hand.c, hand.market),
              ladder |-> Ladder(hand.c, hand.market, hand.e, x), late |-> {}]
  PROVE  Decision(d)
<1>1. /\ d.market = hand.market /\ d.e = hand.e /\ d.token = hand.token /\ d.c = hand.c
      /\ d.ladder = Ladder(hand.c, hand.market, hand.e, x)
  OBVIOUS
<1>2. d = [mint |-> d.mint, c |-> d.c, market |-> d.market, e |-> d.e, token |-> d.token,
           x |-> d.x, score |-> d.score, ladder |-> d.ladder, late |-> d.late]
  OBVIOUS
<1>3. LadderInBounds(d.ladder)
  <2>1. MarketFigures(hand.market) /\ x.mentions \in Nat
    BY AnswerAssumption DEF Known
  <2> QED BY <1>1, <2>1, LadderBounds
<1>4. Known(d) /\ Safe(d)
  BY <1>1 DEF Known, Safe
<1> QED BY <1>2, <1>3, <1>4 DEF Decision

\* The evaluation of a candidate.
LEMMA EvaluationKeeps ==
  ASSUME CycleInv
  PROVE  /\ \A m \in Mint : \A pairs \in Quotes(m) : LoadPair(pairs) => CycleInv'
         /\ \A token \in Tokens, lost \in Outages : CheckChain(token, lost) => CycleInv'
         /\ \A x \in Searches : SearchX(x) => CycleInv'
         /\ Rank => CycleInv'
<1>1. ASSUME NEW mint \in Mint, NEW pairs \in Quotes(mint), LoadPair(pairs)
      PROVE  CycleInv'
  <2> DEFINE m == Pair(listed[index].mint, pairs)
             c == IF m.found THEN WithPair(listed[index], m) ELSE listed[index]
  <2>1. /\ pc = "select" /\ qualified' = qualified
        /\ IF m.found /\ MarketPasses(c, m)
           THEN IF Budget
                THEN hand' = [mint |-> c.mint, c |-> c, market |-> m] /\ pc' = "chain"
                ELSE Proceed(1)
           ELSE Proceed(0)
    BY <1>1 DEF LoadPair
  <2>2. m.found => MarketFigures(m)
    <3>1. Quoted(pairs)
      BY AnswerAssumption DEF Quoted
    <3> QED BY <3>1, PairFigures
  <2> HIDE DEF m, c
  <2>3. CASE pc' = "chain"
    <3>1. m.found /\ hand'.market = m
      BY <2>1, <2>3 DEF Proceed
    <3> QED BY <2>1, <2>2, <2>3, <3>1 DEF CycleInv
  <2>4. CASE pc' = "select"
    BY <2>1, <2>4 DEF CycleInv
  <2> QED BY <2>1, <2>3, <2>4 DEF Proceed
<1>2. ASSUME NEW token \in Tokens, NEW lost \in Outages, CheckChain(token, lost)
      PROVE  CycleInv'
  <2> DEFINE e == CheckToken(token, IF hand.c.creator THEN Creator ELSE NoOne, lost)
  <2>1. /\ pc = "chain" /\ qualified' = qualified
        /\ IF ChainVerdict(hand.c, e) = "PASSED"
           THEN /\ hand' = [mint |-> hand.mint, c |-> hand.c, market |-> hand.market, e |-> e,
                            token |-> token]
                /\ pc' = "social"
           ELSE Proceed(1)
    BY <1>2 DEF CheckChain
  <2>2. ASSUME ChainVerdict(hand.c, e) = "PASSED"
        PROVE  /\ e.fee \in Int
               /\ token.mint_authority = "none" /\ token.freeze_authority = "none"
               /\ \A x \in token.extensions : Harmless(x)
               /\ Spread(token, hand.c.creator)
    BY <2>2, PassedChain
  <2> HIDE DEF e
  <2>3. CASE pc' = "social"
    <3>1. /\ ChainVerdict(hand.c, e) = "PASSED"
          /\ hand' = [mint |-> hand.mint, c |-> hand.c, market |-> hand.market, e |-> e,
                      token |-> token]
      BY <2>1, <2>3 DEF Proceed
    <3>2. /\ hand'.market = hand.market /\ hand'.e = e /\ hand'.token = token
          /\ hand'.c = hand.c
      BY <3>1
    <3>3. MarketFigures(hand.market)
      BY <2>1 DEF CycleInv
    <3>4. Known(hand)' /\ Safe(hand)'
      BY <2>2, <3>1, <3>2, <3>3 DEF Known, Safe
    <3> QED BY <2>1, <2>3, <3>4 DEF CycleInv
  <2>4. CASE pc' = "select"
    BY <2>1, <2>4 DEF CycleInv
  <2> QED BY <2>1, <2>3, <2>4 DEF Proceed
<1>3. ASSUME NEW x \in Searches, SearchX(x) PROVE CycleInv'
  <2> DEFINE d == [mint |-> hand.mint, c |-> hand.c, market |-> hand.market, e |-> hand.e,
                   token |-> hand.token, x |-> x, score |-> Score(hand.c, hand.market),
                   ladder |-> Ladder(hand.c, hand.market, hand.e, x), late |-> {}]
  <2>1. /\ pc = "social" /\ pc' = "select"
        /\ qualified' \in {qualified, qualified \cup {d}}
    BY <1>3 DEF SearchX, Proceed
  <2>2. Known(hand) /\ Safe(hand)
    BY <2>1 DEF CycleInv
  <2>3. Decision(d)
    BY <2>2, NewDecision
  <2> HIDE DEF d
  <2>4. \A o \in qualified' : Decision(o)
    BY <2>1, <2>3 DEF CycleInv
  <2> QED BY <2>1, <2>4 DEF CycleInv
<1>4. ASSUME Rank PROVE CycleInv'
  <2>1. pc' = "review" /\ qualified' \subseteq qualified
    BY <1>4 DEF Rank
  <2> QED BY <2>1 DEF CycleInv
<1> QED BY <1>1, <1>2, <1>3, <1>4

\* The review of a decision, up to the message.
LEMMA ReviewKeeps ==
  ASSUME CycleInv
  PROVE  /\ \A d \in qualified, p \in Pools : BeginReview(d, p) => CycleInv'
         /\ ReadLock \/ LockUnread => CycleInv'
         /\ \A m \in Mint : \A pairs \in Quotes(m) : Refetch(pairs) => CycleInv'
         /\ Drop \/ Decide \/ Deliver => CycleInv'
<1>1. ASSUME NEW d \in qualified, NEW p \in Pools, BeginReview(d, p) PROVE CycleInv'
  <2>1. pc' = "lock" /\ hand' = d /\ qualified' = qualified
    BY <1>1 DEF BeginReview
  <2> QED BY <2>1 DEF CycleInv
<1>2. ASSUME NEW locked, NEW real, locked => real, LockRead(locked, real) PROVE CycleInv'
  <2>1. pc = "lock" /\ pc' = "market" /\ hand' = Checked(hand, locked, real) /\ qualified' = qualified
    BY <1>2 DEF LockRead
  <2>2. Reviewed(hand')
    BY <1>2, <2>1, CheckedReviewed DEF CycleInv
  <2> QED BY <2>1, <2>2 DEF CycleInv
<1>3. ASSUME ReadLock \/ LockUnread PROVE CycleInv'
  <2>1. CASE ReadLock
    <3>1. PICK p \in since : LockRead(Burned(p), \E r \in since : Burned(r))
      BY <2>1 DEF ReadLock
    <3>2. Burned(p) => \E r \in since : Burned(r)
      OBVIOUS
    <3> DEFINE burned == Burned(p)
               ever   == \E r \in since : Burned(r)
    <3>3. LockRead(burned, ever) /\ (burned => ever)
      BY <3>1, <3>2
    <3> HIDE DEF burned, ever
    <3> QED BY <1>2, <3>3
  <2>2. CASE LockUnread
    BY <1>2, <2>2 DEF LockUnread
  <2> QED BY <1>3, <2>1, <2>2
<1>4. ASSUME NEW mint \in Mint, NEW pairs \in Quotes(mint), Refetch(pairs) PROVE CycleInv'
  <2> DEFINE m == Pair(hand.mint, pairs)
  <2>1. /\ pc = "market" /\ pc' = "decide" /\ m.found /\ hand' = [hand EXCEPT !.market = m]
        /\ qualified' = qualified
    BY <1>4 DEF Refetch, SeesMarket, cycle
  <2>2. MarketFigures(m)
    <3>1. Quoted(pairs)
      BY AnswerAssumption DEF Quoted
    <3> QED BY <2>1, <3>1, PairFigures
  <2> HIDE DEF m
  <2>3. Reviewed(hand')
    BY <2>1, <2>2, RefetchedReviewed DEF CycleInv
  <2> QED BY <2>1, <2>3 DEF CycleInv
<1>5. ASSUME Drop PROVE CycleInv'
  <2>1. pc' = "review" /\ qualified' \subseteq qualified
    BY <1>5 DEF Drop
  <2> QED BY <2>1 DEF CycleInv
<1>6. ASSUME Decide PROVE CycleInv'
  <2>1. CASE Drop
    BY <1>5, <2>1
  <2>2. CASE ~Drop
    <3>1. /\ pc = "decide" /\ pc' = "deliver" /\ hand' = hand /\ qualified' = qualified
          /\ "age" \notin hand.late
      BY <1>6, <2>2 DEF Decide
    <3> QED BY <3>1 DEF CycleInv, Reviewed, Known
  <2> QED BY <2>1, <2>2
<1>7. ASSUME Deliver PROVE CycleInv'
  <2>1. pc' = "idle" /\ qualified' = {}
    BY <1>7 DEF Deliver
  <2> QED BY <2>1 DEF CycleInv
<1> QED BY <1>1, <1>3, <1>4, <1>5, <1>6, <1>7

\* What outlives its limit changes nothing else of a decision.
LEMMA OutlivesKeeps ==
  ASSUME CycleInv, NEW what, Outlives(what)
  PROVE  CycleInv'
<1>1. pc' = pc
  BY DEF Outlives
<1>2. CASE hand' = hand /\ \E d \in qualified :
             qualified' = (qualified \ {d}) \cup {[d EXCEPT !.late = @ \cup {what}]}
  <2>1. PICK d \in qualified :
          qualified' = (qualified \ {d}) \cup {[d EXCEPT !.late = @ \cup {what}]}
    BY <1>2
  <2> DEFINE n == [d EXCEPT !.late = d.late \cup {what}]
  <2>2. qualified' = (qualified \ {d}) \cup {n}
    BY <2>1
  <2>3. Decision(n)
    BY LateDecision DEF CycleInv
  <2> HIDE DEF n
  <2>4. \A o \in qualified' : Decision(o)
    BY <2>2, <2>3 DEF CycleInv
  <2> QED BY <1>1, <1>2, <2>4 DEF CycleInv, Reviewed, Known, Safe, Decision
<1>3. CASE /\ pc \in {"lock", "market", "decide"} /\ qualified' = qualified
           /\ hand' = [hand EXCEPT !.late = @ \cup {what}]
  <2>1. hand' = [hand EXCEPT !.late = hand.late \cup {what}]
    BY <1>3
  <2>2. CASE pc = "lock"
    <3>1. Decision(hand')
      BY <2>1, <2>2, LateDecision DEF CycleInv
    <3> QED BY <1>1, <1>3, <2>2, <3>1 DEF CycleInv
  <2>3. CASE pc \in {"market", "decide"}
    <3>1. Reviewed(hand')
      BY <2>1, <2>3, LateReviewed DEF CycleInv
    <3> QED BY <1>1, <1>3, <2>3, <3>1 DEF CycleInv
  <2> QED BY <1>3, <2>2, <2>3
<1> QED BY <1>2, <1>3 DEF Outlives

\* The steps that leave hand and the decisions alone, or drop some of them.
LEMMA OthersKeep ==
  ASSUME CycleInv
  PROVE  /\ BeginCycle \/ CompleteDiscovery \/ Skip \/ EndCycle \/ PoolMoves => CycleInv'
         /\ \A src \in Sources : Answers(src) \/ Retries(src) \/ Fails(src) => CycleInv'
         /\ \A d \in qualified : StaleEvidence(d) => CycleInv'
         /\ UNCHANGED vars => CycleInv'
<1>1. ASSUME qualified' \subseteq qualified, pc' \in {"discover", "select", "idle", "review"}
      PROVE  CycleInv'
  BY <1>1 DEF CycleInv
<1>2. ASSUME BeginCycle \/ CompleteDiscovery \/ Skip \/ EndCycle PROVE CycleInv'
  BY <1>1, <1>2 DEF BeginCycle, CompleteDiscovery, Skip, Proceed, EndCycle
<1>3. ASSUME hand' = hand, qualified' = qualified, pc' = pc PROVE CycleInv'
  BY <1>3 DEF CycleInv
<1>4. ASSUME PoolMoves PROVE CycleInv'
  BY <1>3, <1>4 DEF PoolMoves
<1>5. ASSUME NEW src \in Sources, Answers(src) \/ Retries(src) \/ Fails(src) PROVE CycleInv'
  BY <1>3, <1>5 DEF Answers, Retries, Fails, EndsWith
<1>6. ASSUME NEW d \in qualified, StaleEvidence(d) PROVE CycleInv'
  <2>1. pc = "review" /\ pc' = pc /\ qualified' \subseteq qualified
    BY <1>6 DEF StaleEvidence
  <2> QED BY <1>1, <2>1
<1>7. ASSUME UNCHANGED vars PROVE CycleInv'
  BY <1>3, <1>7 DEF vars
<1> QED BY <1>2, <1>4, <1>5, <1>6, <1>7

\* Every step keeps the invariant.
LEMMA CycleStep == CycleInv /\ [Next]_vars => CycleInv'
<1> SUFFICES ASSUME CycleInv, [Next]_vars PROVE CycleInv'
  OBVIOUS
<1>1. ASSUME NEW m \in Mint, NEW pairs \in Quotes(m),
             LoadPair(pairs) \/ Refetch(pairs) \/ Vetoed(pairs)
      PROVE  CycleInv'
  BY <1>1, EvaluationKeeps, ReviewKeeps DEF Vetoed
<1>2. CASE \E token \in Tokens, lost \in Outages : CheckChain(token, lost)
  BY <1>2, EvaluationKeeps
<1>3. CASE \E x \in Searches : SearchX(x)
  BY <1>3, EvaluationKeeps
<1>4. CASE \E d \in qualified : StaleEvidence(d) \/ \E p \in Pools : BeginReview(d, p)
  BY <1>4, OthersKeep, ReviewKeeps
<1>5. CASE Rank \/ ReadLock \/ LockUnread \/ Decide \/ Deliver
  BY <1>5, EvaluationKeeps, ReviewKeeps
<1>6. CASE TimesOut
  BY <1>6, ReviewKeeps DEF TimesOut
<1>7. CASE BeginCycle \/ CompleteDiscovery \/ Skip \/ EndCycle \/ PoolMoves \/ UNCHANGED vars
  BY <1>7, OthersKeep
<1>8. CASE \E src \in Sources : Answers(src) \/ Retries(src) \/ Fails(src)
  BY <1>8, OthersKeep
<1>9. CASE \E w \in {"age", "evidence", "lock", "market"} : Outlives(w)
  BY <1>9, OutlivesKeeps
<1> QED
  BY <1>1, <1>2, <1>3, <1>4, <1>5, <1>6, <1>7, <1>8, <1>9 DEF Next, Program

\* CycleInv holds in every state.
LEMMA CycleInvariant == Spec => []CycleInv
<1>1. Init => CycleInv
  BY DEF Init, CycleInv
<1>2. CycleInv /\ [Next]_vars => CycleInv'
  BY CycleStep
<1> QED BY <1>1, <1>2, PTL DEF Spec
-----------------------------------------------------------------------------
\* A gate is passed on evidence, whichever calls are lost and whatever the token is
\* (unified_scanner.py: evaluate, onchain.py: check_token).
THEOREM OnlySafe == Spec => []OnlySafeQualify
<1>1. CycleInv => OnlySafeQualify
  BY DEF CycleInv, Decision, Safe, Spread, OnlySafeQualify
<1> QED BY <1>1, CycleInvariant, PTL

\* No market, evidence or search puts the two targets of a decision out of order or
\* out of their bounds (compute_take_profit_target, compute_runner_target).
THEOREM LaddersOrdered == Spec => []LadderOrdered
<1>1. CycleInv => LadderOrdered
  <2>1. CycleInv => \A d \in qualified : LadderInBounds(d.ladder)
    BY DEF CycleInv, Decision
  <2> SUFFICES ASSUME CycleInv, NEW d \in qualified
               PROVE  InOrder(d.ladder.presence, d.ladder.first, d.ladder.runner)
    BY DEF LadderOrdered
  <2>2. /\ Between(0, d.ladder.presence, 10000) /\ Between(150, d.ladder.first, 1200)
        /\ Between(d.ladder.first + 25, d.ladder.runner, 5000)
        /\ 100 * d.ladder.first <= 40000 + 8 * d.ladder.presence
    BY <2>1 DEF LadderInBounds
  <2> QED BY <2>2, RungsInOrder
<1> QED BY <1>1, CycleInvariant, PTL

\* A BUY stands on a burn that was seen in one slot, on evidence within its limits and
\* on a ticket that pays, whatever happens to the pool and the market meanwhile
\* (SignalCompany.prepare, build_micro_trade_plan).
THEOREM BuysSound == Spec => []BuyIsSound
<1>1. CycleInv => BuyIsSound
  <2> SUFFICES ASSUME CycleInv, pc = "deliver", Message(hand) = "BUY"
               PROVE  LET t == Selected(hand.market, hand.e, hand.score, Reference)
                      IN /\ hand.locked /\ hand.real
                         /\ hand.late \cap {"age", "evidence", "market"} = {}
                         /\ 100 * (t.gross - t.costs) >= 131 * t.loss
                         /\ t.amount * Unit + t.costs <= 6 * Unit
                         /\ hand.x.available /\ ~hand.x.scam
    BY DEF BuyIsSound
  <2>1. Reviewed(hand) /\ "age" \notin hand.late
    BY DEF CycleInv
  <2>2. MarketFigures(hand.market) /\ hand.e.fee \in Int /\ (hand.locked => hand.real)
    BY <2>1 DEF Reviewed, Known
  <2> DEFINE t == Selected(hand.market, hand.e, hand.score, Reference)
  <2>3. /\ hand.locked /\ Fresh(hand)
        /\ 100 * (t.gross - t.costs) >= 131 * t.loss
        /\ t.amount * Unit + t.costs <= 6 * Unit
        /\ hand.x.available /\ ~hand.x.scam
    BY <2>2, BuyVerdict DEF Message
  <2> HIDE DEF t
  <2>4. hand.late \cap {"age", "evidence", "market"} = {}
    BY <2>1, <2>3 DEF Fresh
  <2> QED BY <2>2, <2>3, <2>4 DEF t
<1> QED BY <1>1, CycleInvariant, PTL
-----------------------------------------------------------------------------
\* Lists, and the candidates that are put into them.
LEMMA EmptyList == <<>> \in Seq({}) /\ ToSet(<<>>) = {}
BY EmptySeq DEF ToSet

\* An element more.
LEMMA AddsOne ==
  ASSUME NEW S, NEW s \in Seq(S), NEW e \in S
  PROVE  Append(s, e) \in Seq(S) /\ ToSet(Append(s, e)) = ToSet(s) \cup {e}
<1>1. /\ Append(s, e) \in Seq(S) /\ Len(Append(s, e)) = Len(s) + 1
      /\ \A i \in 1..Len(s) : Append(s, e)[i] = s[i]
      /\ Append(s, e)[Len(s) + 1] = e
  BY AppendProperties
<1>2. DOMAIN s = 1..Len(s) /\ Len(s) \in Nat /\ DOMAIN Append(s, e) = 1..Len(s) + 1
  BY <1>1
<1>3. \A x : x \in ToSet(Append(s, e)) <=> x \in ToSet(s) \cup {e}
  BY <1>1, <1>2 DEF ToSet
<1> QED BY <1>1, <1>3

\* What the recursion of MergePages solves.
Merges(g, all, n) == g = [k \in 0..n |-> IF k = 0 THEN <<>> ELSE Join(g[k - 1], all[k])]

\* It has a solution: that of n - 1 and one step more.
LEMMA MergesExist == ASSUME NEW all, NEW n \in Nat PROVE \E g : Merges(g, all, n)
<1> DEFINE G == {k \in 0..n : \E g : Merges(g, all, k)}
<1>1. 0 \in G
  <2>1. Merges([k \in 0..0 |-> <<>>], all, 0)
    BY DEF Merges
  <2> QED BY <2>1
<1>2. ASSUME NEW k \in 1..n, k - 1 \in G PROVE k \in G
  <2>1. PICK g : Merges(g, all, k - 1)
    BY <1>2
  <2> DEFINE h == [j \in 0..k |-> IF j = k THEN Join(g[k - 1], all[k]) ELSE g[j]]
  <2>2. \A j \in 0..k-1 : g[j] = IF j = 0 THEN <<>> ELSE Join(g[j - 1], all[j])
    BY <2>1 DEF Merges
  <2>3. \A j \in 0..k : h[j] = IF j = 0 THEN <<>> ELSE Join(h[j - 1], all[j])
    <3> SUFFICES ASSUME NEW j \in 0..k PROVE h[j] = IF j = 0 THEN <<>> ELSE Join(h[j - 1], all[j])
      OBVIOUS
    <3>1. CASE j = k
      BY <3>1
    <3>2. CASE j # k
      <4>1. j \in 0..k-1 /\ (j # 0 => j - 1 \in 0..k-1)
        BY <3>2
      <4> QED BY <2>2, <3>2, <4>1
    <3> QED BY <3>1, <3>2
  <2>4. Merges(h, all, k)
    <3>1. h = [j \in 0..k |-> IF j = 0 THEN <<>> ELSE Join(h[j - 1], all[j])]
      <4>1. DOMAIN h = 0..k /\ h = [j \in 0..k |-> h[j]]
        OBVIOUS
      <4> HIDE DEF h
      <4> QED BY <2>3, <4>1
    <3> QED BY <3>1 DEF Merges
  <2> QED BY <2>4
<1>3. \A k \in 0..n : k \in G
  <2> HIDE DEF G
  <2> QED BY <1>1, <1>2, UpTo
<1> QED BY <1>3

\* MergePages is the last of such a chain.
LEMMA MergedAt ==
  ASSUME NEW pages, NEW all, all = FlattenSeq(pages), Len(all) \in Nat
  PROVE  \E g : Merges(g, all, Len(all)) /\ MergePages(pages) = g[Len(all)]
<1> DEFINE g == CHOOSE g : Merges(g, all, Len(all))
<1>1. Merges(g, all, Len(all))
  BY MergesExist
<1>2. MergePages(pages) = g[Len(all)]
  BY DEF MergePages, Merges
<1> QED BY <1>1, <1>2
-----------------------------------------------------------------------------
\* What the recursion of Adapt solves.
Keeps(g, source, page, n) ==
  g = [k \in 0..n |->
         IF k = 0 THEN <<>>
         ELSE IF Usable(source, page[k])
              THEN Append(g[k - 1], Normalized(source, page[k])) ELSE g[k - 1]]

\* It has a solution.
LEMMA KeepsExist ==
  ASSUME NEW source, NEW page, NEW n \in Nat
  PROVE  \E g : Keeps(g, source, page, n)
<1> DEFINE G == {k \in 0..n : \E g : Keeps(g, source, page, k)}
           Next1(t, j) ==
             IF Usable(source, page[j]) THEN Append(t, Normalized(source, page[j])) ELSE t
<1>1. 0 \in G
  <2>1. Keeps([k \in 0..0 |-> <<>>], source, page, 0)
    BY DEF Keeps
  <2> QED BY <2>1
<1>2. ASSUME NEW k \in 1..n, k - 1 \in G PROVE k \in G
  <2>1. PICK g : Keeps(g, source, page, k - 1)
    BY <1>2
  <2> DEFINE h == [j \in 0..k |-> IF j = k THEN Next1(g[k - 1], k) ELSE g[j]]
  <2>2. \A j \in 0..k-1 : g[j] = IF j = 0 THEN <<>> ELSE Next1(g[j - 1], j)
    BY <2>1 DEF Keeps
  <2> HIDE DEF Next1
  <2>3. \A j \in 0..k : h[j] = IF j = 0 THEN <<>> ELSE Next1(h[j - 1], j)
    <3> SUFFICES ASSUME NEW j \in 0..k PROVE h[j] = IF j = 0 THEN <<>> ELSE Next1(h[j - 1], j)
      OBVIOUS
    <3>1. CASE j = k
      BY <3>1
    <3>2. CASE j # k
      <4>1. j \in 0..k-1 /\ (j # 0 => j - 1 \in 0..k-1)
        BY <3>2
      <4> QED BY <2>2, <3>2, <4>1
    <3> QED BY <3>1, <3>2
  <2>4. h = [j \in 0..k |-> IF j = 0 THEN <<>> ELSE Next1(h[j - 1], j)]
    <3>1. DOMAIN h = 0..k /\ h = [j \in 0..k |-> h[j]]
      OBVIOUS
    <3> HIDE DEF h
    <3> QED BY <2>3, <3>1
  <2>5. Keeps(h, source, page, k)
    <3> HIDE DEF h
    <3> QED BY <2>4 DEF Keeps, Next1
  <2> QED BY <2>5
<1>3. \A k \in 0..n : k \in G
  <2> HIDE DEF G
  <2> QED BY <1>1, <1>2, UpTo
<1> QED BY <1>3

\* A page is adapted to the candidates of its usable items.
LEMMA AdaptedPage ==
  ASSUME NEW source, NEW page, page \in Seq(ToSet(page))
  PROVE  LET said == {Normalized(source, page[i]) :
                        i \in {i \in DOMAIN page : Usable(source, page[i])}}
         IN Adapt(source, page) \in Seq(said) /\ ToSet(Adapt(source, page)) = said
<1> DEFINE n == Len(page)
           Of(k) == {Normalized(source, page[i]) : i \in {i \in 1..k : Usable(source, page[i])}}
<1>1. n \in Nat /\ DOMAIN page = 1..n
  OBVIOUS
<1> DEFINE g == CHOOSE g : Keeps(g, source, page, n)
<1>2. Keeps(g, source, page, n)
  BY <1>1, KeepsExist
<1>3. Adapt(source, page) = g[n]
  BY DEF Adapt, Keeps
<1> HIDE DEF g, n
<1> DEFINE G == {k \in 0..n : g[k] \in Seq(Of(k)) /\ ToSet(g[k]) = Of(k)}
<1>4. 0 \in G
  <2>1. g[0] = <<>> /\ Of(0) = {} /\ 0 \in 0..n
    BY <1>1, <1>2 DEF Keeps
  <2> QED BY <2>1, EmptyList
<1>5. ASSUME NEW k \in 1..n, k - 1 \in G PROVE k \in G
  <2>1. k \in 0..n /\ k - 1 \in 0..n /\ k # 0
    BY <1>1
  <2>2. g[k] = IF Usable(source, page[k])
               THEN Append(g[k - 1], Normalized(source, page[k])) ELSE g[k - 1]
    BY <1>2, <2>1 DEF Keeps
  <2>3. g[k - 1] \in Seq(Of(k - 1)) /\ ToSet(g[k - 1]) = Of(k - 1)
    BY <1>5
  <2> DEFINE new == Normalized(source, page[k])
  <2>4. CASE Usable(source, page[k])
    <3>1. Of(k) = Of(k - 1) \cup {new}
      BY <1>1, <2>4
    <3> HIDE DEF Of, new
    <3>2. g[k - 1] \in Seq(Of(k)) /\ new \in Of(k)
      BY <2>3, <3>1, SeqMonotonic
    <3>3. /\ Append(g[k - 1], new) \in Seq(Of(k))
          /\ ToSet(Append(g[k - 1], new)) = ToSet(g[k - 1]) \cup {new}
      BY <3>2, AddsOne
    <3> QED BY <2>1, <2>2, <2>3, <2>4, <3>1, <3>3 DEF new
  <2>5. CASE ~Usable(source, page[k])
    <3>1. Of(k) = Of(k - 1)
      BY <1>1, <2>5
    <3> QED BY <2>1, <2>2, <2>3, <2>5, <3>1
  <2> QED BY <2>4, <2>5
<1>6. n \in G
  <2> HIDE DEF G
  <2> QED BY <1>1, <1>4, <1>5, UpTo
<1> QED BY <1>1, <1>3, <1>6
-----------------------------------------------------------------------------
\* Two lists one after the other.
LEMMA AddsList ==
  ASSUME NEW S, NEW s \in Seq(S), NEW t \in Seq(S)
  PROVE  s \o t \in Seq(S) /\ ToSet(s \o t) = ToSet(s) \cup ToSet(t)
<1>1. /\ s \o t \in Seq(S) /\ Len(s \o t) = Len(s) + Len(t)
      /\ \A i \in 1..Len(s) + Len(t) :
           (s \o t)[i] = IF i <= Len(s) THEN s[i] ELSE t[i - Len(s)]
  BY ConcatProperties
<1>2. /\ DOMAIN s = 1..Len(s) /\ Len(s) \in Nat /\ DOMAIN t = 1..Len(t) /\ Len(t) \in Nat
      /\ DOMAIN (s \o t) = 1..Len(s) + Len(t)
  BY <1>1
<1> DEFINE st == s \o t
<1>3. \A i \in DOMAIN s : i \in DOMAIN st /\ st[i] = s[i]
  BY <1>1, <1>2
<1>4. \A i \in DOMAIN t : i + Len(s) \in DOMAIN st /\ st[i + Len(s)] = t[i]
  <2> SUFFICES ASSUME NEW i \in DOMAIN t PROVE i + Len(s) \in DOMAIN st /\ st[i + Len(s)] = t[i]
    OBVIOUS
  <2>1. i \in Nat /\ i + Len(s) \in 1..Len(s) + Len(t) /\ ~(i + Len(s) <= Len(s))
        /\ (i + Len(s)) - Len(s) = i
    BY <1>2
  <2> QED BY <1>1, <1>2, <2>1
<1>5. \A i \in DOMAIN st : st[i] \in ToSet(s) \cup ToSet(t)
  <2> SUFFICES ASSUME NEW i \in DOMAIN st PROVE st[i] \in ToSet(s) \cup ToSet(t)
    OBVIOUS
  <2>1. CASE i <= Len(s)
    BY <1>1, <1>2, <2>1 DEF ToSet
  <2>2. CASE ~(i <= Len(s))
    <3>1. i - Len(s) \in DOMAIN t
      BY <1>2, <2>2
    <3> QED BY <1>1, <1>2, <2>2, <3>1 DEF ToSet
  <2> QED BY <2>1, <2>2
<1> HIDE DEF st
<1>6. \A x : x \in ToSet(st) <=> x \in ToSet(s) \cup ToSet(t)
  BY <1>3, <1>4, <1>5 DEF ToSet
<1> QED BY <1>1, <1>6 DEF st

\* What the recursion of FlattenSeq solves.
Flattens(g, pages, n) == g = [k \in 1..n |-> IF k = 1 THEN pages[k] ELSE g[k - 1] \o pages[k]]

\* It has a solution.
LEMMA FlattensExist == ASSUME NEW pages, NEW n \in Nat PROVE \E g : Flattens(g, pages, n)
<1> DEFINE G == {k \in 0..n : \E g : Flattens(g, pages, k)}
           Next1(g, j) == IF j = 1 THEN pages[j] ELSE g[j - 1] \o pages[j]
<1>1. 0 \in G
  <2>1. Flattens([k \in 1..0 |-> <<>>], pages, 0)
    BY DEF Flattens
  <2> QED BY <2>1
<1>2. ASSUME NEW k \in 1..n, k - 1 \in G PROVE k \in G
  <2>1. PICK g : Flattens(g, pages, k - 1)
    BY <1>2
  <2> DEFINE h == [j \in 1..k |-> IF j = k THEN Next1(g, k) ELSE g[j]]
  <2>2. \A j \in 1..k-1 : g[j] = Next1(g, j)
    BY <2>1 DEF Flattens
  <2>3. \A j \in 1..k : h[j] = Next1(h, j)
    <3> SUFFICES ASSUME NEW j \in 1..k PROVE h[j] = Next1(h, j)
      OBVIOUS
    <3>1. CASE j = 1
      BY <2>2, <3>1
    <3>2. CASE j # 1
      <4>1. j - 1 \in 1..k-1 /\ j - 1 # k /\ (j # k => j \in 1..k-1)
        BY <3>2
      <4>2. h[j - 1] = g[j - 1]
        BY <4>1
      <4> QED BY <2>2, <3>2, <4>1, <4>2
    <3> QED BY <3>1, <3>2
  <2>4. h = [j \in 1..k |-> Next1(h, j)]
    <3>1. DOMAIN h = 1..k /\ h = [j \in 1..k |-> h[j]]
      OBVIOUS
    <3> HIDE DEF h, Next1
    <3> QED BY <2>3, <3>1
  <2>5. Flattens(h, pages, k)
    <3> HIDE DEF h
    <3> QED BY <2>4 DEF Flattens
  <2> QED BY <2>5
<1>3. \A k \in 0..n : k \in G
  <2> HIDE DEF G
  <2> QED BY <1>1, <1>2, UpTo
<1> QED BY <1>3

\* The pages of the sources in one list.
LEMMA FlatPages ==
  ASSUME NEW n \in Nat, NEW T, NEW pages \in [1..n -> Seq(T)]
  PROVE  /\ FlattenSeq(pages) \in Seq(T)
         /\ ToSet(FlattenSeq(pages)) = UNION {ToSet(pages[i]) : i \in 1..n}
<1>1. pages \in Seq(Seq(T)) /\ Len(pages) = n
  OBVIOUS
<1>2. CASE n = 0
  <2>1. pages = <<>> /\ FlattenSeq(pages) = pages
    BY <1>1, <1>2 DEF FlattenSeq
  <2>2. UNION {ToSet(pages[i]) : i \in 1..n} = {}
    BY <1>2
  <2> QED BY <2>1, <2>2, EmptyList, EmptySeq
<1>3. CASE n # 0
  <2> DEFINE g == CHOOSE g : Flattens(g, pages, n)
             Of(k) == UNION {ToSet(pages[i]) : i \in 1..k}
  <2>1. Flattens(g, pages, n)
    BY FlattensExist
  <2>2. FlattenSeq(pages) = g[n]
    BY <1>1, <1>3 DEF FlattenSeq, Flattens
  <2> HIDE DEF g
  <2> DEFINE G == {k \in 0..n : k = 0 \/ (g[k] \in Seq(T) /\ ToSet(g[k]) = Of(k))}
  <2>3. 0 \in G
    OBVIOUS
  <2>4. ASSUME NEW k \in 1..n, k - 1 \in G PROVE k \in G
    <3>1. g[k] = IF k = 1 THEN pages[k] ELSE g[k - 1] \o pages[k]
      BY <2>1 DEF Flattens
    <3>2. pages[k] \in Seq(T) /\ k \in 0..n
      OBVIOUS
    <3>3. CASE k = 1
      <4>1. Of(1) = ToSet(pages[1])
        OBVIOUS
      <4> QED BY <3>1, <3>2, <3>3, <4>1
    <3>4. CASE k # 1
      <4>1. g[k - 1] \in Seq(T) /\ ToSet(g[k - 1]) = Of(k - 1)
        BY <2>4, <3>4
      <4>2. Of(k) = Of(k - 1) \cup ToSet(pages[k])
        OBVIOUS
      <4>3. /\ g[k - 1] \o pages[k] \in Seq(T)
            /\ ToSet(g[k - 1] \o pages[k]) = ToSet(g[k - 1]) \cup ToSet(pages[k])
        <5> HIDE DEF Of, G
        <5> QED BY <3>2, <4>1, AddsList
      <4> HIDE DEF Of
      <4> QED BY <3>1, <3>2, <3>4, <4>1, <4>2, <4>3
    <3> QED BY <3>3, <3>4
  <2>5. \A k \in 0..n : k \in G
    <3> HIDE DEF G, Of
    <3> QED BY <2>3, <2>4, UpTo
  <2>6. g[n] \in Seq(T) /\ ToSet(g[n]) = Of(n)
    <3>1. n \in G
      <4> HIDE DEF G
      <4> QED BY <2>5
    <3> HIDE DEF Of
    <3> QED BY <1>3, <3>1
  <2> QED BY <2>2, <2>6
<1> QED BY <1>2, <1>3
-----------------------------------------------------------------------------
\* What is merged of the first k of a list of candidates.
Gathered(m, all, k) ==
  /\ m \in Seq(ToSet(m))
  /\ \A j \in 1..k : \E i \in DOMAIN m : Tells(m[i], all[j])
  /\ \A i \in DOMAIN m :
       /\ \A j \in DOMAIN m : m[i].mint = m[j].mint => i = j
       /\ m[i].sources # {}
       /\ m[i].sources = UNION {all[j].sources : j \in {j \in 1..k : all[j].mint = m[i].mint}}
       /\ m[i].takeovers = LastTakeovers(all, k, m[i].mint)

\* A takeover stands that no later item of its source has replaced.
LEMMA TakeoverStands ==
  ASSUME NEW all, NEW k, NEW mint, NEW x
  PROVE  x \in LastTakeovers(all, k, mint) <=>
           \E j \in 1..k : /\ all[j].mint = mint /\ x \in all[j].takeovers
                           /\ \A n \in j+1..k : all[n].mint = mint => x \notin all[n].sources
BY DEF LastTakeovers

\* What one item more makes of the takeovers.
LEMMA TakeoversOneMore ==
  ASSUME NEW all, NEW k \in Nat, k # 0, NEW mint
  PROVE  LastTakeovers(all, k, mint) =
           IF all[k].mint = mint
           THEN (LastTakeovers(all, k - 1, mint) \ all[k].sources) \cup all[k].takeovers
           ELSE LastTakeovers(all, k - 1, mint)
<1> DEFINE c == all[k]
           Stands(x, j, n) == /\ all[j].mint = mint /\ x \in all[j].takeovers
                              /\ \A o \in j+1..n : all[o].mint = mint => x \notin all[o].sources
<1>1. ASSUME NEW x
      PROVE  /\ x \in LastTakeovers(all, k, mint) <=> \E j \in 1..k : Stands(x, j, k)
             /\ x \in LastTakeovers(all, k - 1, mint) <=> \E j \in 1..k-1 : Stands(x, j, k - 1)
  BY TakeoverStands
<1>2. \A x : Stands(x, k, k) <=> c.mint = mint /\ x \in c.takeovers
  OBVIOUS
<1>3. ASSUME NEW x, NEW j \in 1..k-1
      PROVE  Stands(x, j, k) <=> Stands(x, j, k - 1) /\ (c.mint = mint => x \notin c.sources)
  <2>1. \A o : o \in j+1..k <=> o \in j+1..k-1 \/ o = k
    OBVIOUS
  <2> QED BY <2>1
<1>4. \A j : j \in 1..k <=> j \in 1..k-1 \/ j = k
  OBVIOUS
<1> HIDE DEF Stands, c
<1>5. ASSUME NEW x
      PROVE  x \in LastTakeovers(all, k, mint) <=>
               \/ c.mint = mint /\ x \in c.takeovers
               \/ /\ x \in LastTakeovers(all, k - 1, mint)
                  /\ c.mint = mint => x \notin c.sources
  <2>1. x \in LastTakeovers(all, k, mint) <=> \E j \in 1..k : Stands(x, j, k)
    BY ONLY <1>1
  <2>2. x \in LastTakeovers(all, k - 1, mint) <=> \E j \in 1..k-1 : Stands(x, j, k - 1)
    BY ONLY <1>1
  <2>3. (\E j \in 1..k : Stands(x, j, k)) <=> (\E j \in 1..k-1 : Stands(x, j, k)) \/ Stands(x, k, k)
    BY ONLY <1>4, Zenon
  <2>4. (\E j \in 1..k-1 : Stands(x, j, k)) <=>
          (\E j \in 1..k-1 : Stands(x, j, k - 1)) /\ (c.mint = mint => x \notin c.sources)
    BY ONLY <1>3, Zenon
  <2>5. Stands(x, k, k) <=> c.mint = mint /\ x \in c.takeovers
    BY ONLY <1>2
  <2> QED BY ONLY <2>1, <2>2, <2>3, <2>4, <2>5, Zenon
<1>6. CASE c.mint = mint
  <2>1. \A x : x \in LastTakeovers(all, k, mint) <=>
                 x \in (LastTakeovers(all, k - 1, mint) \ c.sources) \cup c.takeovers
    BY <1>5, <1>6
  <2> QED BY <1>6, <2>1 DEF c
<1>7. CASE c.mint # mint
  <2>1. \A x : x \in LastTakeovers(all, k, mint) <=> x \in LastTakeovers(all, k - 1, mint)
    BY <1>5, <1>7
  <2> QED BY <1>7, <2>1 DEF c
<1> QED BY <1>6, <1>7

\* A candidate keeps what it told when another of the mint is merged into it.
LEMMA MergeTells ==
  ASSUME NEW a, NEW b, a.mint = b.mint
  PROVE  /\ Tells(Merge(a, b), b)
         /\ \A c : Tells(a, c) => Tells(Merge(a, b), c)
         /\ Merge(a, b).mint = a.mint /\ Merge(a, b).sources = a.sources \cup b.sources
         /\ Merge(a, b).takeovers = (a.takeovers \ b.sources) \cup b.takeovers
<1>1. /\ Merge(a, b).mint = a.mint /\ Merge(a, b).sources = a.sources \cup b.sources
      /\ Merge(a, b).takeovers = (a.takeovers \ b.sources) \cup b.takeovers
  BY DEF Merge
<1>2. /\ Merge(a, b).links = a.links \cup b.links
      /\ Merge(a, b).age = FirstKnown(a.age, b.age)
      /\ Merge(a, b).creator <=> (a.creator \/ b.creator)
      /\ Merge(a, b).paid <=> (a.paid \/ b.paid)
  BY DEF Merge
<1> HIDE DEF Merge
<1>3. FirstKnown(a.age, b.age) = IF a.age = Unknown THEN b.age ELSE a.age
  BY DEF FirstKnown
<1> QED BY <1>1, <1>2, <1>3 DEF Tells

\* One candidate more.
LEMMA JoinGathers ==
  ASSUME NEW all, NEW k \in Nat, k # 0, NEW m, Gathered(m, all, k - 1), all[k].sources # {}
  PROVE  Gathered(Join(m, all[k]), all, k)
<1> DEFINE c == all[k]
           Said(n, mint) == UNION {all[j].sources : j \in {j \in 1..n : all[j].mint = mint}}
<1>1. Len(m) \in Nat /\ DOMAIN m = 1..Len(m) /\ \A j \in 1..k : j # k => j \in 1..k-1
  BY DEF Gathered
<1>2. \A mint : Said(k, mint) = IF mint = c.mint THEN Said(k - 1, mint) \cup c.sources
                                ELSE Said(k - 1, mint)
  <2> SUFFICES ASSUME NEW mint, NEW x
               PROVE  x \in Said(k, mint) <=>
                        x \in IF mint = c.mint THEN Said(k - 1, mint) \cup c.sources
                              ELSE Said(k - 1, mint)
    OBVIOUS
  <2>1. k \in 1..k /\ \A j \in 1..k-1 : j \in 1..k
    OBVIOUS
  <2> QED BY <1>1, <2>1
<1>3. \A i \in DOMAIN m : /\ m[i].sources # {} /\ m[i].sources = Said(k - 1, m[i].mint)
                          /\ m[i].takeovers = LastTakeovers(all, k - 1, m[i].mint)
  BY DEF Gathered
<1>6. \A mint : LastTakeovers(all, k, mint) =
               IF c.mint = mint THEN (LastTakeovers(all, k - 1, mint) \ c.sources) \cup c.takeovers
               ELSE LastTakeovers(all, k - 1, mint)
  BY TakeoversOneMore
<1> HIDE DEF Said
<1>4. CASE \E i \in DOMAIN m : m[i].mint = c.mint
  <2> DEFINE r == [i \in DOMAIN m |-> IF m[i].mint = c.mint THEN Merge(m[i], c) ELSE m[i]]
  <2>1. Join(m, c) = r /\ DOMAIN r = DOMAIN m
    BY <1>4 DEF Join
  <2>2. ASSUME NEW i \in DOMAIN m
        PROVE  /\ r[i].mint = m[i].mint
               /\ \A x : Tells(m[i], x) => Tells(r[i], x)
               /\ r[i].sources = IF m[i].mint = c.mint THEN m[i].sources \cup c.sources
                                 ELSE m[i].sources
               /\ r[i].takeovers = IF m[i].mint = c.mint
                                   THEN (m[i].takeovers \ c.sources) \cup c.takeovers
                                   ELSE m[i].takeovers
               /\ m[i].mint = c.mint => Tells(r[i], c)
    <3>1. CASE m[i].mint = c.mint
      <4>1. r[i] = Merge(m[i], c)
        BY <3>1
      <4> HIDE DEF r, c
      <4> QED BY <3>1, <4>1, MergeTells
    <3>2. CASE m[i].mint # c.mint
      BY <3>2
    <3> QED BY <3>1, <3>2
  <2>3. r \in Seq(ToSet(r))
    BY <1>1 DEF ToSet
  <2> HIDE DEF r
  <2>4. \A j \in 1..k : \E i \in DOMAIN r : Tells(r[i], all[j])
    <3> SUFFICES ASSUME NEW j \in 1..k PROVE \E i \in DOMAIN r : Tells(r[i], all[j])
      OBVIOUS
    <3>1. CASE j = k
      BY <1>4, <2>1, <2>2, <3>1
    <3>2. CASE j # k
      <4>1. PICK i \in DOMAIN m : Tells(m[i], all[j])
        BY <1>1, <3>2 DEF Gathered
      <4> QED BY <2>1, <2>2, <4>1
    <3> QED BY <3>1, <3>2
  <2>5. \A i \in DOMAIN r : r[i].sources # {} /\ r[i].sources = Said(k, r[i].mint)
    <3> SUFFICES ASSUME NEW i \in DOMAIN r
                 PROVE  r[i].sources # {} /\ r[i].sources = Said(k, r[i].mint)
      OBVIOUS
    <3>1. i \in DOMAIN m /\ r[i].mint = m[i].mint
      BY <2>1, <2>2
    <3>2. CASE m[i].mint = c.mint
      <4>1. r[i].sources = m[i].sources \cup c.sources
        BY <2>2, <3>1, <3>2
      <4>2. Said(k, m[i].mint) = Said(k - 1, m[i].mint) \cup c.sources
        BY <1>2, <3>2
      <4> QED BY <1>3, <3>1, <4>1, <4>2
    <3>3. CASE m[i].mint # c.mint
      <4>1. r[i].sources = m[i].sources
        BY <2>2, <3>1, <3>3
      <4>2. Said(k, m[i].mint) = Said(k - 1, m[i].mint)
        BY <1>2, <3>3
      <4> QED BY <1>3, <3>1, <4>1, <4>2
    <3> QED BY <3>2, <3>3
  <2>6. \A i, j \in DOMAIN r : r[i].mint = r[j].mint => i = j
    <3>1. \A i, j \in DOMAIN m : m[i].mint = m[j].mint => i = j
      BY DEF Gathered
    <3> QED BY <2>1, <2>2, <3>1
  <2>7. \A i \in DOMAIN r : r[i].takeovers = LastTakeovers(all, k, r[i].mint)
    <3> SUFFICES ASSUME NEW i \in DOMAIN r
                 PROVE  r[i].takeovers = LastTakeovers(all, k, r[i].mint)
      OBVIOUS
    <3>1. i \in DOMAIN m /\ r[i].mint = m[i].mint
      BY <2>1, <2>2
    <3>2. r[i].takeovers = IF m[i].mint = c.mint
                           THEN (m[i].takeovers \ c.sources) \cup c.takeovers
                           ELSE m[i].takeovers
      BY <2>2, <3>1
    <3> QED BY <1>3, <1>6, <3>1, <3>2
  <2> QED BY <2>1, <2>3, <2>4, <2>5, <2>6, <2>7 DEF Gathered, Said
<1>5. CASE ~\E i \in DOMAIN m : m[i].mint = c.mint
  <2> DEFINE r == Append(m, c)
             S == ToSet(m) \cup {c}
             l == Len(m)
  <2>1. Join(m, c) = r
    BY <1>5 DEF Join
  <2>2. m \in Seq(S) /\ c \in S
    <3>1. m \in Seq(ToSet(m))
      BY DEF Gathered
    <3> QED BY <3>1, SeqMonotonic
  <2>3. /\ r \in Seq(ToSet(r)) /\ DOMAIN r = 1..l+1
        /\ \A i \in 1..l : r[i] = m[i]
        /\ r[l + 1] = c
    <3>1. /\ r \in Seq(S) /\ Len(r) = l + 1
          /\ \A i \in 1..l : r[i] = m[i]
          /\ r[l + 1] = c
      <4> HIDE DEF c, S
      <4> QED BY <2>2, AppendProperties
    <3>2. ToSet(r) = S
      <4> HIDE DEF c
      <4>1. ToSet(r) = ToSet(m) \cup {c}
        <5> HIDE DEF S
        <5> QED BY <2>2, AddsOne
      <4> QED BY <4>1
    <3> HIDE DEF r, S
    <3> QED BY <3>1, <3>2
  <2>4. Said(k - 1, c.mint) = {}
    <3> SUFFICES ASSUME NEW j \in 1..k-1, all[j].mint = c.mint PROVE FALSE
      BY DEF Said
    <3>1. PICK i \in DOMAIN m : Tells(m[i], all[j])
      BY DEF Gathered
    <3> QED BY <1>5, <3>1 DEF Tells
  <2> HIDE DEF r, S
  <2>5. \A i \in DOMAIN r : (i \in DOMAIN m /\ r[i] = m[i]) \/ (i = l + 1 /\ r[i] = c)
    BY <1>1, <2>3
  <2>6. \A i \in 1..l : i \in DOMAIN r
    BY <1>1, <2>3
  <2>7. \A j \in 1..k : \E i \in DOMAIN r : Tells(r[i], all[j])
    <3> SUFFICES ASSUME NEW j \in 1..k PROVE \E i \in DOMAIN r : Tells(r[i], all[j])
      OBVIOUS
    <3>1. CASE j = k
      <4>1. Tells(c, c) /\ l + 1 \in DOMAIN r
        BY <1>1, <2>3 DEF Tells
      <4> QED BY <2>3, <3>1, <4>1
    <3>2. CASE j # k
      <4>1. PICK i \in DOMAIN m : Tells(m[i], all[j])
        BY <1>1, <3>2 DEF Gathered
      <4> QED BY <1>1, <2>3, <2>6, <4>1
    <3> QED BY <3>1, <3>2
  <2>8. \A i \in DOMAIN r : r[i].sources # {} /\ r[i].sources = Said(k, r[i].mint)
    <3> SUFFICES ASSUME NEW i \in DOMAIN r
                 PROVE  r[i].sources # {} /\ r[i].sources = Said(k, r[i].mint)
      OBVIOUS
    <3>1. CASE i \in DOMAIN m /\ r[i] = m[i]
      BY <1>2, <1>3, <1>5, <3>1
    <3>2. CASE r[i] = c
      BY <1>2, <2>4, <3>2
    <3> QED BY <2>5, <3>1, <3>2
  <2>9. \A i, j \in DOMAIN r : r[i].mint = r[j].mint => i = j
    <3>1. \A i, j \in DOMAIN m : m[i].mint = m[j].mint => i = j
      BY DEF Gathered
    <3> QED BY <1>5, <2>5, <3>1
  <2>10. LastTakeovers(all, k, c.mint) = c.takeovers
    <3>1. ASSUME NEW x, x \in LastTakeovers(all, k - 1, c.mint) PROVE FALSE
      <4>1. PICK j \in 1..k-1 : all[j].mint = c.mint
        BY <3>1, TakeoverStands
      <4>2. PICK i \in DOMAIN m : Tells(m[i], all[j])
        BY DEF Gathered
      <4> QED BY <1>5, <4>1, <4>2 DEF Tells
    <3> QED BY <1>6, <3>1
  <2>11. \A i \in DOMAIN r : r[i].takeovers = LastTakeovers(all, k, r[i].mint)
    <3> SUFFICES ASSUME NEW i \in DOMAIN r
                 PROVE  r[i].takeovers = LastTakeovers(all, k, r[i].mint)
      OBVIOUS
    <3>1. CASE i \in DOMAIN m /\ r[i] = m[i]
      BY <1>3, <1>5, <1>6, <3>1
    <3>2. CASE r[i] = c
      BY <2>10, <3>2
    <3> QED BY <2>5, <3>1, <3>2
  <2> QED BY <2>1, <2>3, <2>7, <2>8, <2>9, <2>11 DEF Gathered, Said
<1> QED BY <1>4, <1>5

\* A list is merged without a loss.
LEMMA MergedGathers ==
  ASSUME NEW n \in Nat, NEW T, NEW pages \in [1..n -> Seq(T)], \A c \in T : c.sources # {},
         NEW all, all = FlattenSeq(pages)
  PROVE  Len(all) \in Nat /\ Gathered(MergePages(pages), all, Len(all))
<1>1. all \in Seq(T) /\ Len(all) \in Nat /\ \A k \in 1..Len(all) : all[k] \in T
  BY FlatPages
<1> DEFINE l == Len(all)
<1>2. PICK g : Merges(g, all, l) /\ MergePages(pages) = g[l]
  BY <1>1, MergedAt
<1> DEFINE G == {k \in 0..l : Gathered(g[k], all, k)}
<1> HIDE DEF l
<1>3. 0 \in G
  <2>1. g[0] = <<>> /\ 0 \in 0..l
    BY <1>1, <1>2 DEF Merges, l
  <2>2. Gathered(<<>>, all, 0)
    BY EmptyList DEF Gathered
  <2> QED BY <2>1, <2>2
<1>4. ASSUME NEW k \in 1..l, k - 1 \in G PROVE k \in G
  <2>1. k \in Nat /\ k # 0 /\ k \in 0..l /\ all[k] \in T
    BY <1>1 DEF l
  <2>2. g[k] = Join(g[k - 1], all[k])
    BY <1>2, <2>1 DEF Merges
  <2>3. Gathered(Join(g[k - 1], all[k]), all, k)
    BY <1>4, <2>1, JoinGathers
  <2> QED BY <2>1, <2>2, <2>3
<1>5. \A k \in 0..l : k \in G
  <2>1. l \in Nat
    BY <1>1 DEF l
  <2> HIDE DEF G
  <2> QED BY <1>3, <1>4, <2>1, UpTo
<1>6. l \in G
  <2> HIDE DEF G
  <2> QED BY <1>1, <1>5 DEF l
<1> QED BY <1>1, <1>2, <1>6 DEF l

\* What is at a place of the rotated list.
LEMMA RotatedAt ==
  ASSUME NEW S, NEW m \in Seq(S), NEW n \in 0..Len(m)
  PROVE  /\ DOMAIN Rotated(m, n) = 1..Len(m)
         /\ \A i \in 1..Len(m) :
              Rotated(m, n)[i] = m[IF i <= Len(m) - n THEN n + i ELSE i - (Len(m) - n)]
<1> DEFINE l == Len(m)
           a == SubSeq(m, n + 1, l)
           b == SubSeq(m, 1, n)
<1>1. l \in Nat /\ DOMAIN m = 1..l /\ n \in Nat /\ n <= l /\ \A i \in 1..l : m[i] \in S
  OBVIOUS
<1>2. /\ a \in Seq(S) /\ Len(a) = l - n
      /\ \A i \in 1..l-n : a[i] = m[n + i]
  <2>1. n + 1 \in Int /\ l \in Int /\ \A i \in n+1..l : m[i] \in S
    BY <1>1
  <2>2. /\ a \in Seq(S) /\ Len(a) = (IF n + 1 <= l THEN l - (n + 1) + 1 ELSE 0)
        /\ \A i \in 1..l-(n+1)+1 : a[i] = m[(n + 1) + i - 1]
    <3> HIDE DEF l
    <3> QED BY <2>1, SubSeqProperties
  <2> HIDE DEF a, l
  <2> QED BY <1>1, <2>2
<1>3. /\ b \in Seq(S) /\ Len(b) = n
      /\ \A i \in 1..n : b[i] = m[i]
  <2>1. n \in Int /\ \A i \in 1..n : m[i] \in S
    BY <1>1
  <2>2. /\ b \in Seq(S) /\ Len(b) = (IF 1 <= n THEN n - 1 + 1 ELSE 0)
        /\ \A i \in 1..n-1+1 : b[i] = m[1 + i - 1]
    BY <2>1, SubSeqProperties
  <2> HIDE DEF b, l
  <2> QED BY <1>1, <2>2
<1> HIDE DEF a, b, l
<1>4. /\ a \o b \in Seq(S) /\ Len(a \o b) = Len(a) + Len(b)
      /\ \A i \in 1..Len(a) + Len(b) :
           (a \o b)[i] = IF i <= Len(a) THEN a[i] ELSE b[i - Len(a)]
  BY <1>2, <1>3, ConcatProperties
<1> DEFINE r == a \o b
<1>5. Rotated(m, n) = r
  BY DEF Rotated, a, b, l
<1>6. DOMAIN r = 1..l
  <2>1. DOMAIN r = 1..Len(r)
    BY <1>4
  <2>2. Len(r) = l
    BY <1>1, <1>2, <1>3, <1>4
  <2> QED BY <2>1, <2>2
<1>7. \A i \in 1..l : r[i] = IF i <= l - n THEN a[i] ELSE b[i - (l - n)]
  BY <1>1, <1>2, <1>3, <1>4
<1> HIDE DEF r
<1>8. \A i \in 1..l : r[i] = m[IF i <= l - n THEN n + i ELSE i - (l - n)]
  BY <1>1, <1>2, <1>3, <1>7
<1> QED BY <1>5, <1>6, <1>8 DEF l

\* The rotated list holds every candidate of the list at one place.
LEMMA RotatedKeeps ==
  ASSUME NEW S, NEW m \in Seq(S), NEW n \in 0..Len(m)
  PROVE  /\ DOMAIN Rotated(m, n) = DOMAIN m
         /\ \E f \in [DOMAIN m -> DOMAIN m] :
              /\ \A i \in DOMAIN m : Rotated(m, n)[i] = m[f[i]]
              /\ \A i \in DOMAIN m : \E j \in DOMAIN m : f[j] = i
              /\ \A i, j \in DOMAIN m : f[i] = f[j] => i = j
<1> DEFINE l == Len(m)
           f == [i \in DOMAIN m |-> IF i <= l - n THEN n + i ELSE i - (l - n)]
<1>1. l \in Nat /\ DOMAIN m = 1..l /\ n \in Nat /\ n <= l
  OBVIOUS
<1>2. /\ DOMAIN Rotated(m, n) = 1..l
      /\ \A i \in 1..l : Rotated(m, n)[i] = m[IF i <= l - n THEN n + i ELSE i - (l - n)]
  BY RotatedAt
<1> HIDE DEF l
<1>3. \A i \in 1..l : Rotated(m, n)[i] = m[f[i]] /\ f[i] \in 1..l
  BY <1>1, <1>2
<1>4. \A i \in 1..l : \E j \in 1..l : f[j] = i
  <2> SUFFICES ASSUME NEW i \in 1..l PROVE \E j \in 1..l : f[j] = i
    OBVIOUS
  <2>1. CASE i <= n
    <3>1. i + (l - n) \in 1..l /\ f[i + (l - n)] = i
      BY <1>1, <2>1
    <3> QED BY <3>1
  <2>2. CASE ~(i <= n)
    <3>1. i - n \in 1..l /\ f[i - n] = i
      BY <1>1, <2>2
    <3> QED BY <3>1
  <2> QED BY <2>1, <2>2
<1>5. \A i, j \in 1..l : f[i] = f[j] => i = j
  BY <1>1
<1>6. f \in [DOMAIN m -> DOMAIN m]
  BY <1>1, <1>3
<1> HIDE DEF f
<1>7. /\ \A i \in DOMAIN m : Rotated(m, n)[i] = m[f[i]]
      /\ \A i \in DOMAIN m : \E j \in DOMAIN m : f[j] = i
      /\ \A i, j \in DOMAIN m : f[i] = f[j] => i = j
  BY <1>1, <1>3, <1>4, <1>5
<1> QED BY <1>1, <1>2, <1>6, <1>7

\* The step of the rotation behind StarvationFree: while a list stays as it is, what lies
\* behind the on-chain budget of a cycle comes nearer by the whole budget in the next
\* (run_cycle, _rotation_offset).
THEOREM RotationAdvances ==
  ASSUME NEW S, NEW m \in Seq(S), NEW offs \in Nat, NEW i \in 1..Len(m), i > MaxChecks
  PROVE  LET l    == Len(m)
             next == NextOffset(offs % l, l)
         IN Rotated(m, next % l)[i - MaxChecks] = Rotated(m, offs % l)[i]
<1> DEFINE l == Len(m)
           n == offs % l
           next == NextOffset(n, l)
<1>1. l \in Nat /\ i \in 1..l /\ l # 0 /\ MaxChecks \in Nat /\ MaxChecks # 0 /\ MaxChecks < l
  BY BudgetAssumption
<1>2. n \in 0..l-1
  BY <1>1
<1>3. next = IF n + MaxChecks < l THEN n + MaxChecks ELSE n + MaxChecks - l
  <2> HIDE DEF n, l
  <2>1. CASE n + MaxChecks < l
    BY <1>1, <1>2, <2>1 DEF NextOffset
  <2>2. CASE ~(n + MaxChecks < l)
    <3> DEFINE r == n + MaxChecks - l
    <3>1. r \in 0..l-1 /\ n + MaxChecks = l * 1 + r
      BY <1>1, <1>2, <2>2
    <3>2. (n + MaxChecks) % l = r
      BY <1>1, <3>1
    <3> QED BY <2>2, <3>2 DEF NextOffset
  <2> QED BY <2>1, <2>2
<1>4. next \in 0..l-1 /\ next % l = next
  <2> HIDE DEF n, l
  <2>1. next \in 0..l-1
    <3> HIDE DEF next
    <3> QED BY <1>1, <1>2, <1>3
  <2> HIDE DEF next
  <2> QED BY <1>1, <2>1
<1> HIDE DEF next, n, l
<1>5. /\ Rotated(m, n)[i] = m[IF i <= l - n THEN n + i ELSE i - (l - n)]
      /\ Rotated(m, next)[i - MaxChecks] =
           m[IF i - MaxChecks <= l - next THEN next + (i - MaxChecks)
             ELSE (i - MaxChecks) - (l - next)]
  <2>1. n \in 0..Len(m) /\ next \in 0..Len(m) /\ i - MaxChecks \in 1..Len(m)
    BY <1>1, <1>2, <1>4 DEF l
  <2> QED BY <2>1, RotatedAt DEF l
<1>6. (IF i <= l - n THEN n + i ELSE i - (l - n))
        = IF i - MaxChecks <= l - next THEN next + (i - MaxChecks)
          ELSE (i - MaxChecks) - (l - next)
  BY <1>1, <1>2, <1>3
<1>7. Rotated(m, next % l)[i - MaxChecks] = Rotated(m, n)[i]
  BY <1>4, <1>5, <1>6
<1> QED BY <1>7 DEF l, n, next
-----------------------------------------------------------------------------
\* A candidate of an adapter names the source it came from.
LEMMA NamesSource ==
  ASSUME NEW source \in {"profiles", "boosts", "gecko", "pump_fun"}, NEW item
  PROVE  Normalized(source, item).sources = {source}
<1>1. CASE source = "profiles"
  BY <1>1 DEF Normalized, Profile, Candidate
<1>2. CASE source = "boosts"
  BY <1>2 DEF Normalized, Boost, Profile, Candidate
<1>3. CASE source = "gecko"
  BY <1>3 DEF Normalized, Pool, Candidate
<1>4. CASE source = "pump_fun"
  BY <1>4 DEF Normalized, Coin, Candidate
<1> QED BY <1>1, <1>2, <1>3, <1>4

\* Every source has an adapter.
LEMMA SourceNames == Sources \subseteq {"profiles", "boosts", "gecko", "pump_fun"}
BY SourceAssumption DEF Sources, ToSet

\* What a source said names it, and no other.
LEMMA SaidNames ==
  ASSUME NEW s \in Sources, NEW c \in SaidBy(s)
  PROVE  c.sources = {s}
BY SourceNames, NamesSource DEF SaidBy

\* The page of a source is what it said.
LEMMA PageSays ==
  ASSUME feed \in Feeds, NEW s \in Sources
  PROVE  Page(s) \in Seq(SaidBy(s)) /\ ToSet(Page(s)) = SaidBy(s)
<1>1. feed[s] \in Seq(ToSet(feed[s]))
  BY SourceAssumption DEF Sources
<1>2. CASE request[s].state = "answered"
  <2>1. SaidBy(s) = {Normalized(s, feed[s][i]) :
                       i \in {i \in DOMAIN feed[s] : Usable(s, feed[s][i])}}
    BY <1>2 DEF SaidBy
  <2>2. Page(s) = Adapt(s, feed[s])
    BY <1>2 DEF Page
  <2> QED BY <1>1, <2>1, <2>2, AdaptedPage
<1>3. CASE request[s].state # "answered"
  <2>1. SaidBy(s) = {} /\ Page(s) = <<>>
    BY <1>3 DEF SaidBy, Page
  <2> QED BY <2>1, EmptyList
<1> QED BY <1>2, <1>3

\* The sources' pages are merged to all that they said.
LEMMA MergedComplete ==
  ASSUME feed \in Feeds
  PROVE  Merged \in Seq(ToSet(Merged)) /\ Complete(Merged)
<1> DEFINE n == Len(Source)
           T == UNION {SaidBy(s) : s \in Sources}
           pages == [i \in DOMAIN Source |-> Page(Source[i])]
           all == FlattenSeq(pages)
<1>1. n \in Nat /\ DOMAIN Source = 1..n /\ Sources = {Source[i] : i \in 1..n}
  BY SourceAssumption DEF Sources, ToSet
<1>2. pages \in [1..n -> Seq(T)]
  <2> SUFFICES ASSUME NEW i \in 1..n PROVE Page(Source[i]) \in Seq(T)
    BY <1>1
  <2>1. Source[i] \in Sources
    BY <1>1
  <2>2. Page(Source[i]) \in Seq(SaidBy(Source[i])) /\ SaidBy(Source[i]) \subseteq T
    BY <2>1, PageSays
  <2> HIDE DEF T
  <2> QED BY <2>2, SeqMonotonic
<1>3. \A i \in 1..n : ToSet(pages[i]) = SaidBy(Source[i])
  BY <1>1, PageSays
<1>4. all \in Seq(T) /\ ToSet(all) = UNION {ToSet(pages[i]) : i \in 1..n}
  <2> HIDE DEF T, pages, n
  <2> QED BY <1>1, <1>2, FlatPages
<1>5. ToSet(all) = T
  <2> HIDE DEF all, pages, n
  <2> QED BY <1>1, <1>3, <1>4
<1>6. \A c \in T : c.sources # {}
  BY SaidNames
<1>7. Merged = MergePages(pages)
  BY DEF Merged
<1>8. Len(all) \in Nat /\ Gathered(Merged, all, Len(all))
  <2> HIDE DEF T, pages, n
  <2> QED BY <1>1, <1>2, <1>6, <1>7, MergedGathers
<1> DEFINE m == Merged
           k == Len(all)
<1>9. \A j \in 1..k : all[j] \in T
  <2> HIDE DEF T, all
  <2> QED BY <1>4, <1>8
<1>10. \A c \in T : \E j \in 1..k : all[j] = c
  <2> HIDE DEF T, all
  <2>1. DOMAIN all = 1..k
    BY <1>4
  <2> QED BY <1>5, <2>1 DEF ToSet
<1>13. all = AllSaid
  BY DEF AllSaid
<1> HIDE DEF all, k, m, pages
<1>11. \A s \in Sources : \A c \in SaidBy(s) : \E i \in DOMAIN m : Tells(m[i], c)
  <2> SUFFICES ASSUME NEW s \in Sources, NEW c \in SaidBy(s)
               PROVE  \E i \in DOMAIN m : Tells(m[i], c)
    OBVIOUS
  <2>1. PICK j \in 1..k : all[j] = c
    BY <1>10
  <2> QED BY <1>8, <2>1 DEF Gathered, m, k
<1>12. ASSUME NEW i \in DOMAIN m
       PROVE  m[i].sources = {s \in Sources : \E c \in SaidBy(s) : c.mint = m[i].mint}
  <2>1. m[i].sources = UNION {all[j].sources : j \in {j \in 1..k : all[j].mint = m[i].mint}}
    BY <1>8 DEF Gathered, m, k
  <2>2. ASSUME NEW s \in m[i].sources
        PROVE  s \in Sources /\ \E c \in SaidBy(s) : c.mint = m[i].mint
    <3>1. PICK j \in 1..k : all[j].mint = m[i].mint /\ s \in all[j].sources
      BY <2>1
    <3>2. PICK t \in Sources : all[j] \in SaidBy(t)
      BY <1>9
    <3>3. s = t
      BY <3>1, <3>2, SaidNames
    <3> QED BY <3>1, <3>2, <3>3
  <2>3. ASSUME NEW s \in Sources, NEW c \in SaidBy(s), c.mint = m[i].mint
        PROVE  s \in m[i].sources
    <3>1. PICK j \in 1..k : all[j] = c
      BY <1>10
    <3>2. s \in all[j].sources
      BY <3>1, SaidNames
    <3> QED BY <2>1, <2>3, <3>1, <3>2
  <2> QED BY <2>2, <2>3
<1>14. \A i \in DOMAIN m : m[i].takeovers = LastTakeovers(AllSaid, Len(AllSaid), m[i].mint)
  BY <1>8, <1>13 DEF Gathered, m, k
<1> QED BY <1>8, <1>11, <1>12, <1>14 DEF Gathered, Complete, m, k

\* The rotation loses nothing of it.
LEMMA RotatedComplete ==
  ASSUME NEW m, m \in Seq(ToSet(m)), Complete(m), NEW n \in 0..Len(m)
  PROVE  Complete(Rotated(m, n))
<1> DEFINE r == Rotated(m, n)
<1>1. PICK f \in [DOMAIN m -> DOMAIN m] :
        /\ \A i \in DOMAIN m : r[i] = m[f[i]]
        /\ \A i \in DOMAIN m : \E j \in DOMAIN m : f[j] = i
        /\ \A i, j \in DOMAIN m : f[i] = f[j] => i = j
  BY RotatedKeeps
<1>2. DOMAIN r = DOMAIN m
  BY RotatedKeeps
<1> HIDE DEF r
<1>3. \A s \in Sources : \A c \in SaidBy(s) : \E i \in DOMAIN r : Tells(r[i], c)
  <2> SUFFICES ASSUME NEW s \in Sources, NEW c \in SaidBy(s)
               PROVE  \E i \in DOMAIN r : Tells(r[i], c)
    OBVIOUS
  <2>1. PICK i \in DOMAIN m : Tells(m[i], c)
    BY DEF Complete
  <2>2. PICK j \in DOMAIN m : f[j] = i
    BY <1>1
  <2> QED BY <1>1, <1>2, <2>1, <2>2
<1>4. ASSUME NEW i \in DOMAIN r
      PROVE  /\ \A j \in DOMAIN r : r[i].mint = r[j].mint => i = j
             /\ r[i].sources # {}
             /\ r[i].sources = {s \in Sources : \E c \in SaidBy(s) : c.mint = r[i].mint}
             /\ r[i].takeovers = LastTakeovers(AllSaid, Len(AllSaid), r[i].mint)
  <2>1. f[i] \in DOMAIN m /\ r[i] = m[f[i]]
    BY <1>1, <1>2
  <2>2. ASSUME NEW j \in DOMAIN r, r[i].mint = r[j].mint PROVE i = j
    <3>1. f[j] \in DOMAIN m /\ r[j] = m[f[j]]
      BY <1>1, <1>2
    <3>2. f[i] = f[j]
      BY <2>1, <2>2, <3>1 DEF Complete
    <3> QED BY <1>1, <1>2, <3>2
  <2>3. /\ m[f[i]].sources # {}
        /\ m[f[i]].sources = {s \in Sources : \E c \in SaidBy(s) : c.mint = m[f[i]].mint}
        /\ m[f[i]].takeovers = LastTakeovers(AllSaid, Len(AllSaid), m[f[i]].mint)
    BY <2>1 DEF Complete
  <2> QED BY <2>1, <2>2, <2>3
<1> QED BY <1>3, <1>4 DEF Complete, r

\* The pages are those of a feed, and the offset stays a number.
FeedInv == feed \in Feeds /\ offset \in Nat

\* The list is not empty when its length divides.
LEMMA OffsetIsNumber ==
  ASSUME FeedInv, CompleteDiscovery
  PROVE  offset' \in Nat
<1>1. CASE Merged = <<>>
  BY <1>1 DEF CompleteDiscovery, FeedInv
<1>2. CASE Merged # <<>>
  <2>1. Merged \in Seq(ToSet(Merged))
    BY MergedComplete DEF FeedInv
  <2> DEFINE l == Len(Merged)
  <2>2. l \in Nat /\ l # 0
    BY <1>2, <2>1, EmptySeq
  <2>3. offset' = NextOffset(offset % l, l)
    BY <1>2 DEF CompleteDiscovery
  <2> HIDE DEF l
  <2>4. offset % l \in Nat
    BY <2>2 DEF FeedInv
  <2>5. MaxChecks \in Nat
    BY BudgetAssumption
  <2> QED BY <2>2, <2>3, <2>4, <2>5 DEF NextOffset
<1> QED BY <1>1, <1>2

\* Every step keeps it.
LEMMA FeedStep == FeedInv /\ [Next]_vars => FeedInv'
<1> SUFFICES ASSUME FeedInv, [Next]_vars PROVE FeedInv'
  OBVIOUS
<1>1. CASE BeginCycle
  BY <1>1 DEF FeedInv, BeginCycle
<1>2. CASE CompleteDiscovery
  <2>1. feed' = feed
    BY <1>2 DEF CompleteDiscovery
  <2> QED BY <1>2, <2>1, OffsetIsNumber DEF FeedInv
<1>3. CASE ~BeginCycle /\ ~CompleteDiscovery
  <2>1. UNCHANGED <<feed, offset>>
    BY <1>3 DEF Next, Program, vars, cycle, review, EndsWith, Answers, Retries, Fails, Skip, LoadPair,
                Refetch, Vetoed, Drop, CheckChain, SearchX, Rank, StaleEvidence, BeginReview,
                ReadLock, LockUnread, LockRead, TimesOut, Decide, Deliver, EndCycle, PoolMoves, Outlives
  <2> QED BY <2>1 DEF FeedInv
<1> QED BY <1>1, <1>2, <1>3

\* FeedInv holds in every cycle.
LEMMA FeedInvariant == Spec => []FeedInv
<1>1. Init => FeedInv
  BY DEF Init, FeedInv
<1>2. FeedInv /\ [Next]_vars => FeedInv'
  BY FeedStep
<1> QED BY <1>1, <1>2, PTL DEF Spec

\* The list of a cycle has all that the sources said that answered, each mint once
\* (DiscoveryCoordinator.discover, NormalizedCandidate.merge, run_cycle's rotation).
THEOREM NothingLost == Spec => NothingDropped
<1>1. ASSUME FeedInv, CompleteDiscovery PROVE Complete(listed')
  <2>1. Merged \in Seq(ToSet(Merged)) /\ Complete(Merged)
    BY <1>1, MergedComplete DEF FeedInv
  <2>2. \E l : l = listed' /\ Complete(l)
    <3>1. CASE Merged = <<>>
      <4>1. listed' = Merged
        BY <1>1, <3>1 DEF CompleteDiscovery
      <4> QED BY <2>1, <4>1
    <3>2. CASE Merged # <<>>
      <4> DEFINE n == offset % Len(Merged)
      <4>1. listed' = Rotated(Merged, n)
        BY <1>1, <3>2 DEF CompleteDiscovery
      <4>2. n \in 0..Len(Merged)
        <5>1. Len(Merged) \in Nat /\ Len(Merged) # 0
          BY <2>1, <3>2, EmptySeq
        <5> QED BY <1>1, <5>1 DEF FeedInv
      <4>3. Complete(Rotated(Merged, n))
        <5> HIDE DEF n
        <5> QED BY <2>1, <4>2, RotatedComplete
      <4> QED BY <4>1, <4>3
    <3> QED BY <3>1, <3>2
  <2> QED BY <2>2
<1>2. FeedInv /\ [Next]_vars => [CompleteDiscovery => Complete(listed')]_vars
  BY <1>1
<1> QED BY <1>2, FeedInvariant, PTL DEF Spec, NothingDropped
=============================================================================
