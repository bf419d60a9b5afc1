----------------------------- MODULE ScanCycle -----------------------------
(***************************************************************************)
(* A scan cycle from the sources to the message: the requests of the       *)
(* sources with their retries, the merged and rotated list, the evaluation *)
(* of its candidates within the market and the on-chain budget, and the    *)
(* review of what qualified, with the check of the pool while people trade *)
(* on it.  The claims and the sending of the message are SignalDelivery's. *)
(*                                                                         *)
(* Time enters as what has outlived its limit: the candidate its maximal   *)
(* age, its market evidence 120 s, the check of the pool 30 s, the second  *)
(* look at the market 5 s.                                                 *)
(***************************************************************************)
EXTENDS Discovery, OnChain, Evaluator, Review

CONSTANTS
  Mint,          \* the mints there are, the common quote assets included
  Source,        \* the sources, in the order of build_default_sources
  Feeds,         \* what the sources have to answer: sets of functions from sources to pages
  Quotes(_),     \* the answers get_pair can be given for a mint
  Tokens,        \* what a token can be on chain
  Outages,       \* the sets of RPC calls that can be lost in one check
  Creator,       \* the wallet of a creator that a source knows
  Searches,      \* what the X searches can say of a candidate
  Pools,         \* the LP reserve and supply of a pool when it is first read
  Filters,       \* the filters of the configuration
  MaxAttempts,   \* of an HTTP request
  MaxChecks,     \* max_onchain_checks
  MaxMarket,     \* max_market_checks
  MaxMoves,      \* bound on the changes of a pool during its check
  MaxLate        \* bound on what outlives its limit before one message

ASSUME BudgetAssumption ==
  /\ MaxAttempts \in Nat \ {0}
  /\ MaxChecks \in Nat \ {0} /\ MaxMarket \in Nat /\ MaxChecks <= MaxMarket

\* The sources are those that have an adapter, and each answers a page of items.
ASSUME SourceAssumption ==
  /\ Source \in Seq({"profiles", "boosts", "gecko", "pump_fun"})
  /\ \A f \in Feeds, s \in ToSet(Source) : f[s] \in Seq(ToSet(f[s]))

\* What is on chain is complete or says what it lacks; the numbers of an answer are
\* numbers, or Unknown.
ASSUME TokenAssumption ==
  \A token \in Tokens :
    /\ {token.mint_authority, token.freeze_authority} \subseteq {"none", "set", "absent"}
    /\ token.supply \in Nat
    /\ token.accounts \in Seq(ToSet(token.accounts))
    /\ \A i \in DOMAIN token.accounts : token.accounts[i].amount \in Nat
    /\ IsFiniteSet(token.extensions)
    /\ \A e \in token.extensions : e.type = "transfer_fee" => {e.older, e.newer} \subseteq Int

ASSUME AnswerAssumption ==
  /\ \A mint \in Mint : \A pairs \in Quotes(mint) :
       /\ pairs \in Seq(ToSet(pairs))
       /\ \A i \in DOMAIN pairs :
            {pairs[i].price, pairs[i].cap, pairs[i].liquidity, pairs[i].volume, pairs[i].buys,
             pairs[i].sells, pairs[i].change_1h, pairs[i].change_5m} \subseteq Int
  /\ \A x \in Searches : x.mentions \in Nat

VARIABLES
  pc,
  feed,        \* what the sources have this cycle
  request,     \* of each source: its attempt, or "answered" or "failed"
  listed,      \* the candidates of the cycle, rotated
  offset,      \* _rotation_offset
  index, used, \* the next candidate, and checks_used
  hand,        \* the candidate being evaluated or reviewed, with its evidence
  qualified,   \* the decisions that qualified
  final,       \* mints whose signal is final
  pool, since  \* the pool in review, and what it was since it was first read

cycle  == <<feed, listed, offset, index, used>>
review == <<pool, since>>
vars   == <<pc, feed, request, listed, offset, index, used, hand, qualified, final, pool, since>>

Sources  == ToSet(Source)
Nothing  == [mint |-> NoMint]
NoPool   == [reserve |-> 0, supply |-> 0]
Attempt(n) == [state |-> "out", n |-> n]
Ended(s)   == [state |-> s, n |-> 0]

Init ==
  /\ pc = "idle"
  /\ feed \in Feeds
  /\ request = [s \in Sources |-> Ended("failed")]
  /\ listed = <<>> /\ offset = 0 /\ index = 1 /\ used = 0
  /\ hand = Nothing /\ qualified = {} /\ final = {}
  /\ pool = NoPool /\ since = {}
-----------------------------------------------------------------------------
(* Discovery: every source is asked at once *)

BeginCycle ==
  /\ pc = "idle" /\ pc' = "discover"
  /\ feed' \in Feeds
  /\ request' = [s \in Sources |-> Attempt(1)]
  /\ UNCHANGED <<listed, offset, index, used, hand, qualified, final, review>>

EndsWith(s, r) ==
  /\ pc = "discover" /\ request[s].state = "out"
  /\ request' = [request EXCEPT ![s] = r]
  /\ UNCHANGED <<pc, cycle, hand, qualified, final, review>>

Answers(s) == EndsWith(s, Ended("answered"))

\* A 429, a 5xx, a timeout or a network error is tried again, after a delay.
Retries(s) == request[s].n < MaxAttempts /\ EndsWith(s, Attempt(request[s].n + 1))

\* The last attempt, any other status, or a page that cannot be read.
Fails(s) == EndsWith(s, Ended("failed"))

Page(s) == IF request[s].state = "answered" THEN Adapt(s, feed[s]) ELSE <<>>
Merged  == MergePages([i \in DOMAIN Source |-> Page(Source[i])])

Rotated(seq, n) == SubSeq(seq, n + 1, Len(seq)) \o SubSeq(seq, 1, n)

\* Faulty variant: the offset is counted within the candidates that were looked at.
NextOffsetWithinBudget(n, len) ==
  (n + MaxChecks) % (IF len < MaxMarket THEN len ELSE MaxMarket)

NextOffset(n, len) == (n + MaxChecks) % len

\* A source that failed is recorded; the others are merged and the list is rotated.
CompleteDiscovery ==
  /\ pc = "discover" /\ \A s \in Sources : request[s].state # "out"
  /\ pc' = "select"
  /\ IF Merged = <<>>
     THEN listed' = <<>> /\ offset' = offset
     ELSE LET n == offset % Len(Merged)
          IN listed' = Rotated(Merged, n) /\ offset' = NextOffset(n, Len(Merged))
  /\ index' = 1 /\ used' = 0
  /\ request' = [s \in Sources |-> Ended("failed")]
  /\ UNCHANGED <<feed, hand, qualified, final, review>>
-----------------------------------------------------------------------------
(* The evaluation of one candidate after the other *)

Budget == used < MaxChecks

\* The candidate at index is done with; spent is what it took of the on-chain budget.
Proceed(spent) ==
  /\ pc' = "select" /\ index' = index + 1 /\ used' = used + spent /\ hand' = Nothing

\* A final signal was sent for it, or the market budget is used up.
Skip ==
  /\ pc = "select" /\ index <= Len(listed)
  /\ listed[index].mint \in final \/ index > MaxMarket
  /\ Proceed(0)
  /\ UNCHANGED <<feed, request, listed, offset, qualified, final, review>>

LoadPair(pairs) ==
  /\ pc = "select" /\ index <= Len(listed)
  /\ listed[index].mint \notin final /\ index <= MaxMarket
  /\ LET m == Pair(listed[index].mint, pairs)
         c == IF m.found THEN WithPair(listed[index], m) ELSE listed[index]
     IN IF m.found /\ MarketPasses(c, m)
        THEN IF Budget
             THEN /\ hand' = [mint |-> c.mint, c |-> c, market |-> m]
                  /\ pc' = "chain" /\ UNCHANGED <<index, used>>
             ELSE Proceed(1)
        ELSE Proceed(0)
  /\ UNCHANGED <<feed, request, listed, offset, qualified, final, review>>

\* check_token; token is what is true, lost the calls that fail.
CheckChain(token, lost) ==
  /\ pc = "chain"
  /\ LET e == CheckToken(token, IF hand.c.creator THEN Creator ELSE NoOne, lost)
     IN IF ChainVerdict(hand.c, e) = "PASSED"
        THEN /\ hand' = [mint |-> hand.mint, c |-> hand.c, market |-> hand.market, e |-> e,
                         token |-> token]
             /\ pc' = "social" /\ UNCHANGED <<index, used>>
        ELSE Proceed(1)
  /\ UNCHANGED <<feed, request, listed, offset, qualified, final, review>>

\* The searches of XSearch, and what they make of the candidate.
SearchX(x) ==
  /\ pc = "social"
  /\ Proceed(1)
  /\ qualified' =
       IF SocialVerdict(x) # "QUALIFIED" THEN qualified
       ELSE qualified \cup
              {[mint |-> hand.mint, c |-> hand.c, market |-> hand.market, e |-> hand.e,
                token |-> hand.token, x |-> x,
                score |-> Score(hand.c, hand.market),
                ladder |-> Ladder(hand.c, hand.market, hand.e, x), late |-> {}]}
  /\ UNCHANGED <<feed, request, listed, offset, final, review>>

\* The age is looked at again before the ranking.
Rank ==
  /\ pc = "select" /\ index > Len(listed)
  /\ pc' = "review"
  /\ qualified' = {d \in qualified : "age" \notin d.late}
  /\ listed' = <<>> /\ index' = 1 /\ used' = 0
  /\ UNCHANGED <<feed, request, offset, hand, final, review>>
-----------------------------------------------------------------------------
(* The review of the best of what qualified: SignalCompany.prepare *)

Burned(p) == p.reserve > 0 /\ p.supply <= p.reserve /\ 100 * (p.reserve - p.supply) >= 99 * p.reserve

\* The candidate is vetoed, deferred or too old; the next one has its turn.
Drop ==
  /\ pc' = "review" /\ hand' = Nothing
  /\ qualified' = {d \in qualified : d.mint # hand.mint}
  /\ pool' = NoPool /\ since' = {}
  /\ UNCHANGED <<cycle, request, final>>

\* The pool account is read, which names the LP mint and the slot.
BeginReview(d, p) ==
  /\ pc = "review" /\ d \in qualified /\ \A o \in qualified : o.score <= d.score
  /\ "evidence" \notin d.late
  /\ hand' = d /\ pc' = "lock"
  /\ pool' = p /\ since' = {p}
  /\ UNCHANGED <<cycle, request, qualified, final>>

StaleEvidence(d) ==
  /\ pc = "review" /\ d \in qualified /\ \A o \in qualified : o.score <= d.score
  /\ "evidence" \in d.late
  /\ qualified' = qualified \ {d}
  /\ UNCHANGED <<pc, cycle, request, hand, final, review>>

\* Somebody deposits, withdraws or burns.
PoolMoves ==
  /\ pc = "lock" /\ Cardinality(since) <= MaxMoves
  /\ \E p \in {[reserve |-> pool.reserve + 100, supply |-> pool.supply + 100],
               [reserve |-> pool.reserve - 99, supply |-> pool.supply - 99],
               [reserve |-> pool.reserve, supply |-> 1]} :
       p.supply > 0 /\ pool' = p /\ since' = since \cup {p}
  /\ UNCHANGED <<pc, cycle, request, hand, qualified, final>>

Checked(d, locked, real) ==
  [mint |-> d.mint, c |-> d.c, market |-> d.market, e |-> d.e, token |-> d.token,
   x |-> d.x, score |-> d.score, ladder |-> d.ladder, late |-> d.late,
   locked |-> locked, real |-> real]

LockRead(locked, real) ==
  /\ pc = "lock" /\ pc' = "market"
  /\ hand' = Checked(hand, locked, real)
  /\ pool' = NoPool /\ since' = {}
  /\ UNCHANGED <<cycle, request, qualified, final>>

\* Faulty variant: reserve and supply are read by two calls.
ReadLockApart ==
  \E p, q \in since :
    LockRead(Burned([reserve |-> p.reserve, supply |-> q.supply]), \E r \in since : Burned(r))

\* One call reads the pool and the LP mint at a slot no older than that of the first.
ReadLock ==
  \E p \in since : LockRead(Burned(p), \E r \in since : Burned(r))

\* A layout, an address or an answer that cannot be used: the lock stays unknown.
LockUnread == LockRead(FALSE, FALSE)

\* The market is read a second time.
SeesMarket(m) ==
  /\ m.found
  /\ ~(hand.locked /\ (m.pool # hand.market.pool \/ "lock" \in hand.late))
  /\ ~Moved(hand.market.price, m)
  /\ ~Decayed(m, Filters)

Refetch(pairs) ==
  /\ pc = "market"
  /\ LET m == Pair(hand.mint, pairs)
     IN /\ SeesMarket(m)
        /\ hand' = [hand EXCEPT !.market = m]
  /\ pc' = "decide"
  /\ UNCHANGED <<cycle, request, qualified, final, review>>

Vetoed(pairs) ==
  /\ pc = "market" /\ ~SeesMarket(Pair(hand.mint, pairs))
  /\ Drop

\* A call that takes too long defers the candidate.
TimesOut == pc \in {"lock", "market", "decide"} /\ Drop

Fresh(d) == {"evidence", "market"} \cap d.late = {}

Message(d) == Verdict(d.market, d.e, d.x, d.locked, d.score, Fresh(d))

\* The workers, the plan, the referee and the freshness, and then the age.
Decide ==
  /\ pc = "decide"
  /\ IF Message(hand) = "NO_MESSAGE" \/ "age" \in hand.late
     THEN Drop
     ELSE /\ pc' = "deliver"
          /\ UNCHANGED <<cycle, request, hand, qualified, final, review>>

\* The message is delivered, or not; a BUY that was is final for its mint.
Deliver ==
  /\ pc = "deliver" /\ pc' = "idle"
  /\ \/ Message(hand) = "BUY" /\ final' = final \cup {hand.mint}
     \/ final' = final
  /\ hand' = Nothing /\ qualified' = {}
  /\ UNCHANGED <<cycle, request, review>>

EndCycle ==
  /\ pc = "review" /\ qualified = {} /\ pc' = "idle"
  /\ UNCHANGED <<cycle, request, hand, qualified, final, review>>

\* Something known of a decision outlives its limit.
Outlives(what) ==
  \/ /\ pc \in {"select", "review"} /\ what \in {"age", "evidence"}
     /\ \E d \in qualified :
          /\ what \notin d.late /\ Cardinality(d.late) < MaxLate
          /\ qualified' = (qualified \ {d}) \cup {[d EXCEPT !.late = @ \cup {what}]}
     /\ UNCHANGED <<pc, cycle, request, hand, final, review>>
  \/ /\ \/ pc \in {"lock", "market", "decide"} /\ what \in {"age", "evidence"}
        \/ pc = "market" /\ what = "lock"
        \/ pc = "decide" /\ what = "market"
     /\ what \notin hand.late /\ Cardinality(hand.late) < MaxLate
     /\ hand' = [hand EXCEPT !.late = @ \cup {what}]
     /\ UNCHANGED <<pc, cycle, request, qualified, final, review>>
-----------------------------------------------------------------------------
Program ==
  \/ BeginCycle \/ CompleteDiscovery
  \/ \E s \in Sources : Answers(s) \/ Retries(s) \/ Fails(s)
  \/ Skip
  \/ \E m \in Mint : \E pairs \in Quotes(m) : LoadPair(pairs) \/ Refetch(pairs) \/ Vetoed(pairs)
  \/ \E token \in Tokens, lost \in Outages : CheckChain(token, lost)
  \/ \E x \in Searches : SearchX(x)
  \/ Rank
  \/ \E d \in qualified : StaleEvidence(d) \/ \E p \in Pools : BeginReview(d, p)
  \/ ReadLock \/ LockUnread \/ TimesOut
  \/ Decide \/ Deliver \/ EndCycle

Next == Program \/ PoolMoves \/ \E w \in {"age", "evidence", "lock", "market"} : Outlives(w)

Spec == Init /\ [][Next]_vars

\* Every call has a timeout: a stage of the cycle ends, the list is worked through,
\* and the next cycle begins.  Which answer ends a stage is nobody's promise.
Stage == {"idle", "discover", "select", "chain", "social", "review", "lock", "market",
          "decide", "deliver"}

Ends(stage) == pc = stage /\ pc' \in Stage \ {stage}

FairSpec ==
  /\ Spec
  /\ \A stage \in Stage \ {"discover", "select", "review"} : WF_pc(Ends(stage))
  /\ \A s \in Sources : WF_vars(Answers(s) \/ Fails(s))
  /\ WF_vars(CompleteDiscovery)
  /\ WF_index(pc = "select" /\ index' = index + 1)
  /\ WF_vars(Rank) /\ WF_vars(EndCycle)
  /\ WF_qualified(pc = "review" /\ \E d \in qualified : qualified' = qualified \ {d})
-----------------------------------------------------------------------------
(* Properties *)

\* What a source that answered said: its usable items, each as a candidate.
SaidBy(s) ==
  {Normalized(s, feed[s][i]) :
     i \in {i \in DOMAIN feed[s] : request[s].state = "answered" /\ Usable(s, feed[s][i])}}

\* What is listed as a tells what c is known of.
Tells(a, c) ==
  /\ a.mint = c.mint /\ c.links \subseteq a.links
  /\ c.creator => a.creator
  /\ c.paid => a.paid
  /\ c.age # Unknown => a.age # Unknown

\* All that was said, in the order it is merged in.
AllSaid == FlattenSeq([i \in DOMAIN Source |-> Page(Source[i])])

\* The sources whose last item of a mint states a takeover, of the first k that said.
LastTakeovers(said, k, mint) ==
  UNION {said[j].takeovers
           \ UNION {said[n].sources : n \in {n \in j+1..k : said[n].mint = mint}} :
         j \in {j \in 1..k : said[j].mint = mint}}

\* A list that has all that was said, each mint once, and nothing that was not said.
Complete(list) ==
  /\ \A s \in Sources : \A c \in SaidBy(s) : \E i \in DOMAIN list : Tells(list[i], c)
  /\ \A i \in DOMAIN list :
       /\ \A j \in DOMAIN list : list[i].mint = list[j].mint => i = j
       /\ list[i].sources # {}
       /\ list[i].sources = {s \in Sources : \E c \in SaidBy(s) : c.mint = list[i].mint}
       /\ list[i].takeovers = LastTakeovers(AllSaid, Len(AllSaid), list[i].mint)

(***************************************************************************)
(* Whatever sources fail, and in whatever order they answer, what another  *)
(* source said is kept: every mint it named is listed once, with the       *)
(* channels, the creator, the age and the paid boost any source knows of   *)
(* it, and nothing is listed that no source named.  A takeover stands when *)
(* the last item of a source on the mint states it: merge replaces what an *)
(* earlier item of the same source said of it, and of no other source.     *)
(***************************************************************************)
NothingDropped == [][CompleteDiscovery => Complete(listed')]_vars

(***************************************************************************)
(* Nobody can still mint, freeze, seize, block or tax a token that         *)
(* qualified, its creator and its ten largest holders own no more than     *)
(* allowed, and no cluster of wallets is behind it, whichever RPC calls    *)
(* were lost: a gate is passed on evidence, never for the lack of it.      *)
(* The histories of the holders are the exception: unread ones are clean.  *)
(***************************************************************************)
Harmless(e) ==
  CASE e.type = "default_state"      -> e.state = "initialized"
    [] e.type = "permanent_delegate" -> e.authority = "none"
    [] e.type = "transfer_hook"      -> e.authority = "none" /\ e.program \in Allowed
    [] e.type = "transfer_fee"       -> /\ e.authority = "none"
                                        /\ {e.older, e.newer} \subseteq 0..MaxFee
    [] OTHER                         -> e.type = "informational"

Owned(token, S) == SumOf([i \in DOMAIN token.accounts |-> token.accounts[i].amount], S)

OnlySafeQualify ==
  \A d \in qualified :
    /\ d.token.mint_authority = "none" /\ d.token.freeze_authority = "none"
    /\ \A e \in d.token.extensions : Harmless(e)
    /\ 100 * Owned(d.token, DOMAIN AtMost(10, d.token.accounts)) <= 30 * d.token.supply
    /\ d.c.creator =>
         100 * Owned(d.token, {i \in DOMAIN AtMost(10, d.token.accounts) :
                                  d.token.accounts[i].owner = Creator}) <= 30 * d.token.supply
    /\ Coordinated([i \in DOMAIN d.token.accounts |-> d.token.accounts[i].amount],
                   d.token.supply) # "HIGH"

\* The presence and the two targets of a ladder, in hundredths.
InOrder(presence, first, runner) ==
  /\ presence \in 0..10000
  /\ first >= 150
  /\ 100 * first <= 40000 + 8 * presence
  /\ runner >= first + 25
  /\ runner <= 5000

(***************************************************************************)
(* The two stages of the ladder: the first target is at least 1.5x and     *)
(* never a hundredth above the ceiling its presence allows, the runner is  *)
(* at least a quarter above that, and nothing is above 50x.                *)
(***************************************************************************)
LadderOrdered ==
  \A d \in qualified : InOrder(d.ladder.presence, d.ladder.first, d.ladder.runner)

(***************************************************************************)
(* A BUY is sent only for a pool of which 99 % had really been burned at   *)
(* some slot of its check, though people deposit and withdraw meanwhile,   *)
(* on evidence within its limits, and with a ticket that still pays 1.31   *)
(* times its risk after all costs and leaves the reserve.                  *)
(***************************************************************************)
BuyIsSound ==
  pc = "deliver" /\ Message(hand) = "BUY" =>
    LET t == Selected(hand.market, hand.e, hand.score, Reference)
    IN /\ hand.locked /\ hand.real
       /\ hand.late \cap {"age", "evidence", "market"} = {}
       /\ 100 * (t.gross - t.costs) >= 131 * t.loss
       /\ t.amount * Unit + t.costs <= 6 * Unit
       /\ hand.x.available /\ ~hand.x.scam

(***************************************************************************)
(* Once the sources answer the same and none fails, every candidate listed *)
(* is evaluated with an on-chain check to spend, again and again, until    *)
(* its signal is final: the rotation starves nobody.                       *)
(***************************************************************************)
Listed(f) ==
  LET pages == [i \in DOMAIN Source |-> Adapt(Source[i], f[Source[i]])]
  IN {c.mint : c \in ToSet(MergePages(pages))}

Evaluated(m) ==
  pc = "select" /\ index <= Len(listed) /\ index <= MaxMarket /\ Budget /\ listed[index].mint = m

StarvationFree ==
  \A f \in Feeds : \A m \in Listed(f) :
    <>[](feed = f /\ (pc = "discover" => \A s \in Sources : request[s].state # "failed"))
      => []<>(Evaluated(m) \/ m \in final)
=============================================================================
