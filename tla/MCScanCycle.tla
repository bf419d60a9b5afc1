---------------------------- MODULE MCScanCycle ----------------------------
(***************************************************************************)
(* A small world for ScanCycle: two feeds whose lists overlap in another   *)
(* order, markets at both ends of the gates, tokens with one flaw each,    *)
(* and outages of each kind of RPC call.                                   *)
(***************************************************************************)
EXTENDS ScanCycle

CONSTANTS m1, m2, m3, sol, creator, w1, w2, w3, pool1, pool2, hook, bank

MCSource == <<"profiles", "boosts", "gecko", "pump_fun">>

Item(chain, mint, links) == [chain |-> chain, address |-> mint, links |-> links]
Launch(mint, age, links, known, takeover) ==
  [address |-> mint, age |-> age, links |-> links, creator |-> known, takeover |-> takeover]

\* Pages that list a mint of another source, a foreign one and none; and in the second feed
\* a page that lists one mint twice, the takeover in the first of the two items only.
FeedA == [profiles |-> <<Item("solana", m1, {"x"}), Item("base", m2, {"x"})>>,
          boosts   |-> <<Item("solana", m1, {"website"}), Item("solana", NoMint, {})>>,
          gecko    |-> <<[sides |-> <<sol, m2>>, age |-> 60], [sides |-> <<NoMint, NoMint>>, age |-> 5]>>,
          pump_fun |-> <<Launch(m2, 20, {"x"}, TRUE, TRUE), Launch(m3, Unknown, {}, FALSE, FALSE)>>]
FeedB == [profiles |-> <<Item("solana", m3, {"x", "telegram"})>>,
          boosts   |-> <<>>,
          gecko    |-> <<[sides |-> <<NoMint, sol>>, age |-> 60]>>,
          pump_fun |-> <<Launch(m2, 20, {"x"}, TRUE, TRUE), Launch(m2, 20, {}, FALSE, FALSE)>>]
MCFeeds == {FeedA, FeedB}

Market(mint, p) ==
  [chain |-> "solana", base |-> mint, pool |-> p, price |-> 100, age |-> 30,
   cap |-> 150000, liquidity |-> 32000, volume |-> 320000, buys |-> 1200, sells |-> 800,
   links |-> {"x"}, change_1h |-> 2000, change_5m |-> 300]

\* The entry window is missed, and only the deepest of the pairs counts.
Poor(mint)    == [Market(mint, pool2) EXCEPT !.cap = 60000, !.liquidity = 5400, !.volume = 28000,
                                             !.buys = 1000, !.sells = 900, !.age = Unknown]
Pumped(mint)  == [Market(mint, pool1) EXCEPT !.change_1h = 20000, !.volume = 60000]
Shallow(mint) == [Market(mint, pool1) EXCEPT !.liquidity = 11000, !.price = 106]
Fallen(mint)  == [Market(mint, pool1) EXCEPT !.price = 96, !.change_5m = -200]

MCQuotes(mint) ==
  {<<>>, <<Poor(mint)>>, <<Pumped(mint)>>, <<Shallow(mint)>>, <<Fallen(mint)>>,
   <<[Market(NoMint, pool2) EXCEPT !.liquidity = 90000],
     [Market(mint, pool2) EXCEPT !.chain = "base", !.liquidity = 90000],
     Shallow(mint), Market(mint, pool1)>>}

Account(amount, owner) == [amount |-> amount, owner |-> owner, usable |-> TRUE]

Transfer(from, to, n) == [type |-> "transfer", from |-> from, to |-> to, amount |-> n]
Tx(instructions, signer) == [instructions |-> instructions, signers |-> <<signer>>]

\* An old wallet that paid for itself, and one made for the launch.
Old(w, k) == [slots |-> <<10*k + 4, 10*k + 3, 10*k + 2, 10*k + 1, 10*k>>,
              oldest |-> Tx(<<>>, w), newest |-> Tx(<<Transfer(w, w, 100 * k)>>, w)]
New(w, n) == [slots |-> <<7>>, oldest |-> Tx(<<Transfer(bank, w, Unknown)>>, w),
              newest |-> Tx(<<[Transfer(w, w, Unknown) EXCEPT !.type = "other"],
                              Transfer(w, w, n)>>, w)]

OldWallets == [w \in {w1, w2, w3, creator} |->
                 Old(w, CASE w = w1 -> 1 [] w = w2 -> 2 [] w = w3 -> 3 [] w = creator -> 4)]

Plain == [program |-> "token", mint_authority |-> "none", freeze_authority |-> "none",
          extensions |-> {}, supply |-> 1000,
          accounts |-> <<Account(100, w1), Account(80, w2), Account(60, w3), Account(40, creator)>>,
          histories |-> OldWallets]

Fee(authority, newer) ==
  [type |-> "transfer_fee", authority |-> authority, older |-> 0, newer |-> newer]
Taxed(fee) == [Plain EXCEPT !.program = "token-2022", !.extensions = {fee, [type |-> "informational"]}]
With(extension) == [Plain EXCEPT !.program = "token-2022", !.extensions = {extension}]

MCTokens ==
  {Plain, [Taxed(Fee("none", 50)) EXCEPT !.supply = 2000], Taxed(Fee("set", 50)), Taxed(Fee("none", 101)),
   Taxed(Fee("none", Unknown)),
   [Plain EXCEPT !.freeze_authority = "set"], [Plain EXCEPT !.mint_authority = "absent"],
   [Plain EXCEPT !.program = "other"],
   With([type |-> "default_state", state |-> "frozen"]),
   With([type |-> "permanent_delegate", authority |-> "absent"]),
   With([type |-> "non_transferable"]),
   With([type |-> "transfer_hook", program |-> hook, authority |-> "none"]),
   With([type |-> "transfer_hook", program |-> w1, authority |-> "none"]),
   With([type |-> "unnamed"]),
   \* the creator holds too much, ten hold a hundredth too much, a row cannot be used
   [Plain EXCEPT !.accounts = <<Account(350, creator)>>, !.supply = 1100],
   [Plain EXCEPT !.supply = 933],
   [Plain EXCEPT !.accounts[2].usable = FALSE],
   \* wallets with the same amount: few, and many
   [Plain EXCEPT !.accounts = <<Account(100, w1), Account(40, w2), Account(39, w3), Account(38, creator)>>],
   [Plain EXCEPT !.accounts = <<Account(60, w1), Account(80, w2), Account(79, w3), Account(77, creator)>>],
   \* wallets made for the launch: two of them, and three
   [Taxed(Fee("none", 0)) EXCEPT !.histories[w3] = New(w3, 50)],
   [Taxed(Fee("none", 0)) EXCEPT !.histories[w1] = New(w1, 50), !.histories[w2] = New(w2, 51),
                                 !.histories[w3] = New(w3, 52)]}

MCOutages ==
  {{}, {<<"mint", 0>>}, {<<"supply", 0>>}, {<<"accounts", 0>>}, {<<"owner", 1>>},
   {<<"signatures", i>> : i \in 1..4}, {<<"signatures", 1>>, <<"funding", 2>>, <<"amount", 3>>}}

Said == [available |-> TRUE, scam |-> FALSE, forensic_scam |-> FALSE, mentions |-> 25,
         big_account |-> FALSE, buzz |-> TRUE, viral |-> FALSE, celebrity_post |-> FALSE]

MCSearches ==
  {[Said EXCEPT !.available = FALSE], [Said EXCEPT !.scam = TRUE, !.celebrity_post = TRUE],
   [Said EXCEPT !.forensic_scam = TRUE], [Said EXCEPT !.mentions = 4],
   Said, [Said EXCEPT !.mentions = 3, !.celebrity_post = TRUE, !.big_account = TRUE]}

MCPools == {[reserve |-> 100, supply |-> 100], [reserve |-> 100, supply |-> 1]}

MCFilters == [liquidity |-> 5000, volume |-> 25000, flow |-> 100, thin |-> 8,
              spike |-> 10000, turnover |-> 50]
=============================================================================
