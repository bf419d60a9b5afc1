------------------------------ MODULE OnChain ------------------------------
(***************************************************************************)
(* OnchainAnalyzer.check_token: what the RPC calls about a token make of   *)
(* it, whichever of them fail.                                             *)
(*                                                                         *)
(* A token is what is true on chain: its mint account, its largest         *)
(* accounts, and the transactions of their owners.  lost is the set of     *)
(* calls that come back empty, each a pair of a kind and an index: the     *)
(* mint account, the supply, the largest accounts (all 0), the owner of    *)
(* the i-th account, and for the i-th owner read its signatures, its       *)
(* oldest transaction ("funding") and its newest ("amount").               *)
(* Fees are basis points.                                                  *)
(***************************************************************************)
EXTENDS Quantity, Sequences, FiniteSets, SequencesExt

CONSTANTS
  Allowed,   \* transfer_hook_allowlist
  MaxFee     \* max_transfer_fee_bps

NoOne == "no one"

AtMost(n, seq) == SubSeq(seq, 1, Least(n, Len(seq)))
-----------------------------------------------------------------------------
(* The mint account.  An authority is "none", "set", or "absent" when the   *)
(* node did not report the field.                                          *)

Informational == {"informational"}
Supported ==
  {"default_state", "permanent_delegate", "non_transferable", "transfer_hook", "transfer_fee"}

\* Faulty variant: a fee that can still be raised is judged by what it is today.
DangerousToday(e) ==
  \/ e.type = "default_state" /\ e.state # "initialized"
  \/ e.type = "permanent_delegate" /\ e.authority # "none"
  \/ e.type = "non_transferable"
  \/ e.type = "transfer_hook" /\ (e.program \notin Allowed \/ e.authority # "none")
  \/ e.type = "transfer_fee" /\ \E fee \in {e.older, e.newer} : fee \notin 0..MaxFee

\* An extension that can take, freeze or tax a holding.  What is not reported counts
\* as dangerous; a fee that is not reported is Unknown.
Dangerous(e) ==
  \/ e.type = "default_state" /\ e.state # "initialized"
  \/ e.type = "permanent_delegate" /\ e.authority # "none"
  \/ e.type = "non_transferable"
  \/ e.type = "transfer_hook" /\ (e.program \notin Allowed \/ e.authority # "none")
  \/ e.type = "transfer_fee" /\ \/ e.authority # "none"
                                \/ \E fee \in {e.older, e.newer} : fee \notin 0..MaxFee

Unread == [status |-> "UNVERIFIED", dangerous |-> FALSE, fee |-> Unknown,
           mint_authority |-> "absent", freeze_authority |-> "absent"]

\* transfer_fee_bps is only known of a token that has the extension.
KnownFees(token) ==
  UNION {{e.older, e.newer} \ {Unknown} : e \in {x \in token.extensions : x.type = "transfer_fee"}}

\* _get_mint_info.
MintInfo(token, lost) ==
  LET complete == token.mint_authority # "absent" /\ token.freeze_authority # "absent"
      dangerous == \/ complete /\ "set" \in {token.mint_authority, token.freeze_authority}
                   \/ \E e \in token.extensions : Dangerous(e)
      unsupported == \/ ~complete
                     \/ \E e \in token.extensions : e.type \notin Supported \cup Informational
  IN IF <<"mint", 0>> \in lost THEN Unread
     ELSE [status |-> IF dangerous THEN "REJECTED"
                      ELSE IF unsupported \/ token.program \notin {"token", "token-2022"}
                           THEN "UNVERIFIED" ELSE "VERIFIED",
           dangerous |-> dangerous,
           fee |-> IF KnownFees(token) = {} THEN Unknown ELSE Max(KnownFees(token)),
           mint_authority   |-> IF complete THEN token.mint_authority ELSE "absent",
           freeze_authority |-> IF complete THEN token.freeze_authority ELSE "absent"]
-----------------------------------------------------------------------------
(* The holders *)

Larger(a, i, j) == a[i] > a[j] \/ (a[i] = a[j] /\ i < j)

\* The amounts within 5 % of the i-th, and not before it in descending order.
Near(a, i) == {j \in DOMAIN a : i = j \/ (Larger(a, i, j) /\ 20 * (a[i] - a[j]) <= a[i])}

\* The largest such cluster, the one around the larger amount first.
Cluster(a) ==
  Near(a, CHOOSE i \in DOMAIN a :
            \A j \in DOMAIN a \ {i} :
              \/ Cardinality(Near(a, j)) < Cardinality(Near(a, i))
              \/ Cardinality(Near(a, j)) = Cardinality(Near(a, i)) /\ Larger(a, i, j))

\* detect_coordinated_buys: the first account is taken for the pool.
Coordinated(amounts, supply) ==
  LET a == SelectSeq(IF amounts = <<>> THEN <<>> ELSE Tail(amounts), LAMBDA n : n > 0)
  IN IF Len(a) < 3 \/ Cardinality(Cluster(a)) < 3 THEN "LOW"
     ELSE IF Cardinality(Cluster(a)) >= 5 \/ 100 * SumOf(a, Cluster(a)) > 20 * supply
          THEN "HIGH" ELSE "MEDIUM"

\* _holder_records_complete.
RowsComplete(accounts) ==
  accounts # <<>> /\ \A i \in DOMAIN accounts : accounts[i].usable /\ accounts[i].amount > 0

\* _extract_funding_source: whoever transferred to the holder, or else the first
\* signer that is somebody else.
Funder(tx, holder) ==
  LET paid   == SelectSeq(tx.instructions,
                          LAMBDA x : x.type = "transfer" /\ x.to = holder /\ x.from # NoOne)
      signed == SelectSeq(tx.signers, LAMBDA k : k # holder)
  IN IF paid # <<>> THEN Head(paid).from
     ELSE IF signed # <<>> THEN Head(signed) ELSE NoOne

\* _extract_token_amount: of the first transfer that names one.
Bought(tx) ==
  LET moved == SelectSeq(tx.instructions, LAMBDA x : x.type = "transfer" /\ x.amount # Unknown)
  IN IF moved # <<>> THEN Head(moved).amount ELSE 0

\* How often the most frequent value of f over S occurs.
Most(f, S) == Max({0} \cup {Cardinality({j \in S : f[j] = f[i]}) : i \in S})

Points(n, many, few, high, low) == IF n >= many THEN high ELSE IF n >= few THEN low ELSE 0

(* _analyze_holder_histories of at most five owners; h are their histories.  *)
(* A history that cannot be read is skipped, and counts as nothing.         *)

Read(owners, lost) == {i \in DOMAIN owners : <<"signatures", i>> \notin lost}

\* How often a slot occurs in the signatures read, be they of one holder or of several.
SameSlot(h, read) ==
  LET sigs == UNION {{i} \X DOMAIN h[i].slots : i \in read}
  IN Most([s \in sigs |-> h[s[1]].slots[s[2]]], sigs)

SameFunder(h, owners, read, lost) ==
  LET traced == {i \in read : h[i].slots # <<>> /\ <<"funding", i>> \notin lost}
      funder == [i \in traced |-> Funder(h[i].oldest, owners[i])]
  IN Most(funder, {i \in traced : funder[i] # NoOne})

SameAmount(h, owners, read, lost) ==
  LET bought == SelectSeq([i \in DOMAIN owners |->
                             IF i \in read /\ h[i].slots # <<>> /\ <<"amount", i>> \notin lost
                             THEN Bought(h[i].newest) ELSE 0],
                          LAMBDA n : n > 0)
  IN Len(bought) >= 3 /\ Cardinality(Cluster(bought)) >= 3

Suspicion(histories, owners, lost) ==
  LET h       == [i \in DOMAIN owners |-> histories[owners[i]]]
      read    == Read(owners, lost)
      few(n)  == Cardinality({i \in read : Len(h[i].slots) <= n})
      signals == Points(few(4), 3, 2, 2, 1) + Points(few(2), 3, 2, 2, 1)
                 + (IF SameSlot(h, read) >= 3 THEN 2 ELSE 0)
                 + Points(SameFunder(h, owners, read, lost), 3, 2, 3, 2)
                 + (IF SameAmount(h, owners, read, lost) THEN 2 ELSE 0)
  IN IF signals >= 3 THEN "HIGH" ELSE IF signals >= 1 THEN "MEDIUM" ELSE "LOW"
-----------------------------------------------------------------------------
(* check_token *)

\* _calculate_safe_score; whether the liquidity is locked is not known here.
SafeScore(info, dev, top10, coordinated) ==
  Clip(0, 100,
    50 + (IF info.mint_authority = "none" THEN 20 ELSE 0)
       + (IF info.freeze_authority = "none" THEN 10 ELSE 0)
       + (CASE Below(dev, 5) -> 10
            [] dev # NoShare /\ ~Below(dev, 5) /\ ~Above(dev, 10) -> 5
            [] Above(dev, 50) -> -40
            [] Above(dev, 20) /\ ~Above(dev, 50) -> -20
            [] OTHER -> 0)
       + (CASE Below(top10, 20) -> 10 [] Above(top10, 50) -> -10 [] OTHER -> 0)
       + (CASE coordinated = "HIGH" -> -25 [] coordinated = "MEDIUM" -> -10 [] OTHER -> 0))

\* The owner of every inspected account was resolved, and the creator is known.
OwnersComplete(n, creator, lost) ==
  creator # NoOne /\ \A i \in 1..n : <<"owner", i>> \notin lost

CheckToken(token, creator, lost) ==
  LET info     == MintInfo(token, lost)
      usable   == /\ <<"supply", 0>> \notin lost /\ token.supply > 0
                  /\ <<"accounts", 0>> \notin lost /\ RowsComplete(token.accounts)
      top      == AtMost(10, token.accounts)
      amounts  == [i \in DOMAIN token.accounts |-> token.accounts[i].amount]
      share(S) == [held |-> SumOf(amounts, S), supply |-> token.supply]
      resolved == SelectSeq([i \in DOMAIN top |-> IF creator = NoOne \/ <<"owner", i>> \in lost
                                                   THEN NoOne ELSE top[i].owner],
                            LAMBDA o : o # NoOne)
      dev      == IF usable /\ OwnersComplete(Len(top), creator, lost)
                  THEN share({i \in DOMAIN top : top[i].owner = creator}) ELSE NoShare
      top10    == IF usable THEN share(DOMAIN top) ELSE NoShare
      together == IF usable THEN Coordinated(amounts, token.supply) ELSE "LOW"
  IN [status      |-> IF usable \/ info.status = "REJECTED" THEN info.status ELSE "UNVERIFIED",
      dangerous   |-> info.dangerous,
      fee         |-> info.fee,
      mint_authority   |-> info.mint_authority,
      freeze_authority |-> info.freeze_authority,
      dev         |-> dev,
      top10       |-> top10,
      coordinated |-> together,
      suspicion   |-> IF usable /\ resolved # <<>>
                      THEN Suspicion(token.histories, AtMost(5, resolved), lost) ELSE "UNKNOWN",
      safe_score  |-> SafeScore(info, dev, top10, together)]
=============================================================================
