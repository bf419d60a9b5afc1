----------------------------- MODULE Discovery -----------------------------
(***************************************************************************)
(* What a discovery pass makes of the pages the public sources answer:     *)
(* the four adapters, the merge of candidates by mint, and the market      *)
(* evidence DexScreenerPairClient takes from the pairs of a mint.          *)
(*                                                                         *)
(* A raw item has the fields an adapter reads.  Links are the kinds of     *)
(* channel they name, a time of creation is the age it gives, and the      *)
(* numbers of a pair are dollars, counts and hundredths.                   *)
(***************************************************************************)
EXTENDS Quantity, Sequences, SequencesExt

CONSTANTS
  NoMint,     \* a missing or empty address
  Quote       \* COMMON_SOLANA_QUOTE_MINTS

\* takeovers: the sources whose entry of source_metadata states a community takeover.
Candidate(source, mint) ==
  [mint |-> mint, age |-> Unknown, links |-> {}, takeovers |-> {},
   creator |-> FALSE, paid |-> FALSE, sources |-> {source}]

\* DexScreenerProfilesSource: other chains and items without an address are left out.
IsSolana(item) == item.chain = "solana" /\ item.address # NoMint

Profile(source, item) == [Candidate(source, item.address) EXCEPT !.links = item.links]

\* DexScreenerBoostsSource: the same items, bought.
Boost(source, item) == [Profile(source, item) EXCEPT !.paid = TRUE]

\* GeckoTerminalNewPoolsSource: the first side that is no common quote asset, or else
\* the first that is there at all.
SelectedMint(sides) ==
  LET new   == SelectSeq(sides, LAMBDA m : m # NoMint /\ m \notin Quote)
      there == SelectSeq(sides, LAMBDA m : m # NoMint)
  IN IF new # <<>> THEN Head(new) ELSE IF there # <<>> THEN Head(there) ELSE NoMint

Pool(source, item) ==
  [Candidate(source, SelectedMint(item.sides)) EXCEPT !.age = item.age]

\* PumpFunSource.
Coin(source, item) ==
  [Candidate(source, item.address) EXCEPT
     !.age = item.age, !.links = item.links, !.creator = item.creator,
     !.takeovers = IF item.takeover THEN {source} ELSE {}]

Usable(source, item) ==
  CASE source \in {"profiles", "boosts"} -> IsSolana(item)
    [] source = "gecko"                  -> SelectedMint(item.sides) # NoMint
    [] source = "pump_fun"               -> item.address # NoMint

Normalized(source, item) ==
  CASE source = "profiles" -> Profile(source, item)
    [] source = "boosts"   -> Boost(source, item)
    [] source = "gecko"    -> Pool(source, item)
    [] source = "pump_fun" -> Coin(source, item)

\* What discover returns of a page: its items in their order, less the unusable ones.
Adapt(source, page) ==
  LET kept[n \in 0..Len(page)] ==
        IF n = 0 THEN <<>>
        ELSE IF Usable(source, page[n])
             THEN Append(kept[n - 1], Normalized(source, page[n])) ELSE kept[n - 1]
  IN kept[Len(page)]
-----------------------------------------------------------------------------
FirstKnown(a, b) == IF a = Unknown THEN b ELSE a

\* Faulty variant: what only the later source knows is dropped.
MergeKeepsFirst(a, b) == [a EXCEPT !.sources = @ \cup b.sources]

\* NormalizedCandidate.merge: the first known value, every link and every source; but
\* source_metadata has one entry for a source, and the later item replaces it.
Merge(a, b) ==
  [mint |-> a.mint, age |-> FirstKnown(a.age, b.age), links |-> a.links \cup b.links,
   takeovers |-> (a.takeovers \ b.sources) \cup b.takeovers,
   creator |-> a.creator \/ b.creator,
   paid |-> a.paid \/ b.paid, sources |-> a.sources \cup b.sources]

\* One candidate joins those merged before it, in the order they were first seen.
Join(merged, c) ==
  IF \E i \in DOMAIN merged : merged[i].mint = c.mint
  THEN [i \in DOMAIN merged |->
          IF merged[i].mint = c.mint THEN Merge(merged[i], c) ELSE merged[i]]
  ELSE Append(merged, c)

\* DiscoveryCoordinator.discover: the pages of the sources that answered, in the
\* order of the sources.
MergePages(pages) ==
  LET all == FlattenSeq(pages)
      merged[n \in 0..Len(all)] == IF n = 0 THEN <<>> ELSE Join(merged[n - 1], all[n])
  IN merged[Len(all)]
-----------------------------------------------------------------------------
AverageTrade(pair) ==
  IF pair.volume > 0 /\ pair.buys + pair.sells > 0
  THEN pair.volume \div (pair.buys + pair.sells) ELSE Unknown

\* get_pair: the deepest of the pairs on Solana that trade the mint as their base;
\* ratios in hundredths; NoPair when there is none.
NoPair == [found |-> FALSE]

Pair(mint, pairs) ==
  LET own  == {i \in DOMAIN pairs : pairs[i].chain = "solana" /\ pairs[i].base = mint}
      best == pairs[CHOOSE i \in own :
                      \A j \in own \ {i} :
                        \/ pairs[j].liquidity < pairs[i].liquidity
                        \/ pairs[j].liquidity = pairs[i].liquidity /\ i < j]
  IN IF own = {} THEN NoPair
     ELSE [found |-> TRUE, pool |-> best.pool, price |-> best.price, age |-> best.age,
           cap |-> best.cap, liquidity |-> best.liquidity, volume |-> best.volume,
           buys |-> best.buys, sells |-> best.sells, links |-> best.links,
           change_1h |-> best.change_1h, change_5m |-> best.change_5m,
           flow |-> (100 * best.buys) \div Greatest(1, best.sells),
           turnover |-> (100 * best.volume) \div Greatest(1, best.cap),
           trade |-> AverageTrade(best)]
=============================================================================
