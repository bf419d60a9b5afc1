--------------------------- MODULE SignalDelivery ---------------------------
(***************************************************************************)
(* One alert from discovery to Telegram: UnifiedSolanaScanner.run_cycle    *)
(* with a signal_preparer (the production composition), the durable claims *)
(* of Database, and TelegramSender.send over a network that may refuse,    *)
(* lose or delay a message.  Several processes may run cycles over the     *)
(* same database file; each may die, or leave a cycle by an exception, at  *)
(* any point.  Atomic steps are the single SQL transactions and the awaits *)
(* between them.                                                           *)
(***************************************************************************)
EXTENDS Naturals, Sequences, FiniteSets

CONSTANTS
  Session,   \* processes (or successive lives of a process) on one database
  Mint,      \* token identities <<chain_id, mint>>
  Legacy,    \* the mints for which an earlier build may have sent an alert
  Score      \* Score[m]: screening score that ranks qualified candidates

ASSUME ScoreAssumption == Score \in [Mint -> Nat]
ASSUME LegacyAssumption == Legacy \subseteq Mint

VARIABLES
  (* tables of the SQLite file: they survive every crash *)
  claim,         \* signal_alert_claims: status by mint and kind
  legacy_claim,  \* candidate_alert_claims: status left by an earlier build
  alerted,       \* kinds of the alerted=1 observations of a mint, oldest first
  pending_rows,  \* <<mint, kind>> of the ALERT_PENDING observations
  (* what one process holds in memory during a cycle *)
  pc,            \* where the cycle stands
  todo,          \* discovered candidates not yet evaluated
  qualified,     \* candidates decided QUALIFIED and not yet tried
  ticket,        \* <<mint, kind>> of the prepared signal, or NoTicket
  wire,          \* state of the HTTP request the process is waiting for
  (* Telegram and the network *)
  stray,         \* requests still under way whose sender stopped waiting
  delivered      \* kinds Telegram accepted for a mint, in order

durable == <<claim, legacy_claim, alerted, pending_rows>>
memory  == <<pc, todo, qualified, ticket, wire>>
outside == <<stray, delivered>>
vars    == <<claim, legacy_claim, alerted, pending_rows, pc, todo, qualified, ticket,
             wire, stray, delivered>>

Kind     == {"WATCH", "BUY"}
Status   == {"NONE", "PENDING", "SENT"}
NoTicket == <<>>

\* A claim is held from its INSERT until finish_signal has settled it.
Holding  == {"persist", "deliver", "await", "uncertain", "finish", "release"}
Pc       == {"idle", "evaluate", "review", "legacy", "insert", "record"} \cup Holding
-----------------------------------------------------------------------------
(***************************************************************************)
(* Histories an earlier build can have left for a mint: nothing; a claim   *)
(* whose delivery nobody confirmed (the message may or may not have gone   *)
(* out); a completed alert with its alerted=1 observation of a known kind, *)
(* of no recorded kind ("LEGACY"), or with the observation lost in a crash.*)
(***************************************************************************)
NoHistory == [status |-> "NONE", seen |-> <<>>, told |-> <<>>]
History ==
  {NoHistory,
   [status |-> "PENDING", seen |-> <<>>,         told |-> <<>>],
   [status |-> "PENDING", seen |-> <<>>,         told |-> <<"BUY">>],
   [status |-> "SENT",    seen |-> <<"WATCH">>,  told |-> <<"WATCH">>],
   [status |-> "SENT",    seen |-> <<"BUY">>,    told |-> <<"BUY">>],
   [status |-> "SENT",    seen |-> <<"LEGACY">>, told |-> <<"BUY">>],
   [status |-> "SENT",    seen |-> <<>>,         told |-> <<"BUY">>]}

Init ==
  /\ \E past \in [Mint -> History] :
       /\ \A m \in Mint \ Legacy : past[m] = NoHistory
       /\ legacy_claim = [m \in Mint |-> past[m].status]
       /\ alerted      = [m \in Mint |-> past[m].seen]
       /\ delivered    = [m \in Mint |-> past[m].told]
  /\ claim        = [m \in Mint |-> [k \in Kind |-> "NONE"]]
  /\ pending_rows = {}
  /\ pc        = [s \in Session |-> "idle"]
  /\ todo      = [s \in Session |-> {}]
  /\ qualified = [s \in Session |-> {}]
  /\ ticket    = [s \in Session |-> NoTicket]
  /\ wire      = [s \in Session |-> "none"]
  /\ stray     = {}
-----------------------------------------------------------------------------
(* The claim tables *)

\* What an earlier build's alert counts as: an unproven kind counts as BUY.
LegacyKind(m) ==
  CASE legacy_claim[m] = "NONE" -> "NONE"
    [] legacy_claim[m] = "PENDING" -> "PENDING"
    [] OTHER -> IF alerted[m] # <<>> /\ alerted[m][Len(alerted[m])] = "WATCH"
                THEN "WATCH" ELSE "BUY"

SignalIsFinal(m) ==
  \/ LegacyKind(m) \in {"BUY", "PENDING"}
  \/ claim[m]["BUY"] # "NONE"
  \/ \E k \in Kind : claim[m][k] = "PENDING"

\* Faulty variant: a repeated WATCH after an earlier build's WATCH is let through.
LegacyForbidsOnlyBuy(m, k) == LegacyKind(m) \in {"BUY", "PENDING"}

\* The early return of try_claim_signal, taken from a read of its own.
LegacyForbids(m, k) ==
  \/ LegacyKind(m) \in {"BUY", "PENDING"}
  \/ LegacyKind(m) = "WATCH" /\ k = "WATCH"

\* Faulty variant: a PENDING claim of the other kind does not block.
RowForbidsSameKind(m, k) == claim[m]["BUY"] # "NONE" \/ claim[m][k] # "NONE"

\* The NOT EXISTS subquery and the primary key of the claiming INSERT.
RowForbids(m, k) ==
  \/ \E j \in Kind : claim[m][j] = "PENDING"
  \/ claim[m]["BUY"] # "NONE"
  \/ claim[m][k] # "NONE"

\* Faulty variant: the answer is not looked at.
FinishAlwaysSent(m, k, accepted) == claim' = [claim EXCEPT ![m][k] = "SENT"]

\* finish_signal: settles a claim only while it is PENDING.
FinishSignal(m, k, accepted) ==
  claim' = IF claim[m][k] = "PENDING"
           THEN [claim EXCEPT ![m][k] = IF accepted THEN "SENT" ELSE "NONE"]
           ELSE claim
-----------------------------------------------------------------------------
(* run_cycle: discovery, evaluation and ranking *)

Goto(s, here, there) == pc[s] = here /\ pc' = [pc EXCEPT ![s] = there]

\* The process forgets the cycle.
Forget(s) ==
  /\ pc'        = [pc EXCEPT ![s] = "idle"]
  /\ todo'      = [todo EXCEPT ![s] = {}]
  /\ qualified' = [qualified EXCEPT ![s] = {}]
  /\ ticket'    = [ticket EXCEPT ![s] = NoTicket]
  /\ wire'      = [wire EXCEPT ![s] = "none"]

Discover(s, found) ==
  /\ Goto(s, "idle", "evaluate")
  /\ todo' = [todo EXCEPT ![s] = found]
  /\ UNCHANGED <<durable, qualified, ticket, wire, outside>>

\* A candidate whose signal is final is ALREADY_ALERTED without an evaluation.
Evaluate(s, m, passes) ==
  /\ pc[s] = "evaluate" /\ m \in todo[s]
  /\ passes => ~SignalIsFinal(m)
  /\ todo' = [todo EXCEPT ![s] = @ \ {m}]
  /\ qualified' = [qualified EXCEPT ![s] = IF passes THEN @ \cup {m} ELSE @]
  /\ UNCHANGED <<durable, pc, ticket, wire, outside>>

\* The age boundary is checked again; those still young are ranked.
Rank(s, young) ==
  /\ todo[s] = {}
  /\ Goto(s, "evaluate", "review")
  /\ young \subseteq qualified[s]
  /\ qualified' = [qualified EXCEPT ![s] = young]
  /\ UNCHANGED <<durable, todo, ticket, wire, outside>>

TopRanked(s, m) ==
  m \in qualified[s] /\ \A other \in qualified[s] : Score[other] <= Score[m]

\* The preparer raised or vetoed, or the candidate grew too old meanwhile.
Decline(s, m) ==
  /\ pc[s] = "review" /\ TopRanked(s, m)
  /\ qualified' = [qualified EXCEPT ![s] = @ \ {m}]
  /\ UNCHANGED <<durable, pc, todo, ticket, wire, outside>>

\* The preparer returned a message of kind k.
Prepare(s, m, k) ==
  /\ TopRanked(s, m)
  /\ Goto(s, "review", "legacy")
  /\ qualified' = [qualified EXCEPT ![s] = @ \ {m}]
  /\ ticket' = [ticket EXCEPT ![s] = <<m, k>>]
  /\ UNCHANGED <<durable, todo, wire, outside>>

\* Faulty variant: a refused claim ends the selection loop.
GiveUpCycle(s) ==
  /\ Forget(s)
  /\ UNCHANGED <<durable, outside>>

\* ALERT_ALREADY_CLAIMED: the loop goes on to the next candidate.
TryNext(s) ==
  /\ pc'     = [pc EXCEPT ![s] = "review"]
  /\ ticket' = [ticket EXCEPT ![s] = NoTicket]
  /\ UNCHANGED <<durable, todo, qualified, wire, outside>>

\* try_claim_signal, first await: read the legacy tables.
ClaimReadsLegacy(s) ==
  /\ pc[s] = "legacy"
  /\ IF LegacyForbids(ticket[s][1], ticket[s][2])
     THEN TryNext(s)
     ELSE /\ Goto(s, "legacy", "insert")
          /\ UNCHANGED <<durable, todo, qualified, ticket, wire, outside>>

\* try_claim_signal, second await: the one INSERT that owns the decision.
ClaimInserts(s) ==
  LET m == ticket[s][1]
      k == ticket[s][2]
  IN /\ pc[s] = "insert"
     /\ IF RowForbids(m, k)
        THEN TryNext(s)
        ELSE /\ claim' = [claim EXCEPT ![m][k] = "PENDING"]
             /\ Goto(s, "insert", "persist")
             /\ qualified' = [qualified EXCEPT ![s] = {}]
             /\ UNCHANGED <<legacy_claim, alerted, pending_rows, todo, ticket, wire,
                            outside>>

\* The observations of a cycle without a winner tell of no delivery.
NoWinner(s) ==
  /\ pc[s] = "review" /\ qualified[s] = {}
  /\ Forget(s)
  /\ UNCHANGED <<durable, outside>>
-----------------------------------------------------------------------------
(* run_cycle: every decision is persisted, then the winner is delivered *)

\* Faulty variant: the message leaves before the cycle's observations are stored.
DeliverUnpersisted(s) ==
  /\ Goto(s, "persist", "deliver")
  /\ UNCHANGED <<durable, todo, qualified, ticket, wire, outside>>

\* One commit for each decision of the cycle; the winner's says ALERT_PENDING.
PersistCycle(s) ==
  /\ Goto(s, "persist", "deliver")
  /\ pending_rows' = pending_rows \cup {ticket[s]}
  /\ UNCHANGED <<claim, legacy_claim, alerted, todo, qualified, ticket, wire, outside>>

\* SIGNAL_EXPIRED_BEFORE_DELIVERY: the clock has passed the ticket's expires_at.
DropExpired(s) ==
  /\ Goto(s, "deliver", "release")
  /\ UNCHANGED <<durable, todo, qualified, ticket, wire, outside>>

Post(s) ==
  /\ Goto(s, "deliver", "await")
  /\ wire' = [wire EXCEPT ![s] = "posted"]
  /\ UNCHANGED <<durable, todo, qualified, ticket, outside>>

Accept(m, k) == delivered' = [delivered EXCEPT ![m] = Append(@, k)]

TelegramAccepts(s) ==
  /\ wire[s] = "posted"
  /\ wire' = [wire EXCEPT ![s] = "accepted"]
  /\ Accept(ticket[s][1], ticket[s][2])
  /\ UNCHANGED <<durable, pc, todo, qualified, ticket, stray>>

TelegramRefuses(s) ==
  /\ wire[s] = "posted"
  /\ wire' = [wire EXCEPT ![s] = "refused"]
  /\ UNCHANGED <<durable, pc, todo, qualified, ticket, outside>>

\* send returns True: a 200 answer whose body says ok.
AnswerAccepted(s) ==
  /\ wire[s] = "accepted"
  /\ Goto(s, "await", "finish")
  /\ wire' = [wire EXCEPT ![s] = "none"]
  /\ UNCHANGED <<durable, todo, qualified, ticket, outside>>

\* send returns False: a 4xx answer, or one that does not say ok.
AnswerRefused(s) ==
  /\ wire[s] = "refused"
  /\ Goto(s, "await", "release")
  /\ wire' = [wire EXCEPT ![s] = "none"]
  /\ UNCHANGED <<durable, todo, qualified, ticket, outside>>

\* A request nobody waits for any more may still reach Telegram.
GoesAstray(s) ==
  stray' = IF wire[s] = "posted" THEN stray \cup {ticket[s]} ELSE stray

\* Faulty variant: a lost answer is taken for a refusal.
LostIsRefused(s) ==
  /\ Goto(s, "await", "release")
  /\ GoesAstray(s)
  /\ wire' = [wire EXCEPT ![s] = "none"]
  /\ UNCHANGED <<durable, todo, qualified, ticket, delivered>>

\* send raises: timeout, transport error, 5xx, or an unreadable body.
AnswerLost(s) ==
  /\ Goto(s, "await", "uncertain")
  /\ GoesAstray(s)
  /\ wire' = [wire EXCEPT ![s] = "none"]
  /\ UNCHANGED <<durable, todo, qualified, ticket, delivered>>

\* The ALERT_DELIVERY_UNCERTAIN observation; the claim stays for an operator.
KeepUncertain(s) ==
  /\ pc[s] = "uncertain"
  /\ Forget(s)
  /\ UNCHANGED <<durable, outside>>

FinishAccepted(s) ==
  /\ Goto(s, "finish", "record")
  /\ FinishSignal(ticket[s][1], ticket[s][2], TRUE)
  /\ UNCHANGED <<legacy_claim, alerted, pending_rows, todo, qualified, ticket, wire,
                 outside>>

\* The claim is released; the DEFERRED observation of it tells of no delivery.
ReleaseRefused(s) ==
  /\ pc[s] = "release"
  /\ FinishSignal(ticket[s][1], ticket[s][2], FALSE)
  /\ Forget(s)
  /\ UNCHANGED <<legacy_claim, alerted, pending_rows, outside>>

Listed(m, k) == \E i \in DOMAIN alerted[m] : alerted[m][i] = k

\* The alerted=1 observation; a unique index refuses a second of one kind.
RecordAlerted(s) ==
  LET m == ticket[s][1]
      k == ticket[s][2]
  IN /\ pc[s] = "record"
     /\ alerted' = IF Listed(m, k) THEN alerted
                   ELSE [alerted EXCEPT ![m] = Append(@, k)]
     /\ Forget(s)
     /\ UNCHANGED <<claim, legacy_claim, pending_rows, outside>>

\* The process dies, or an exception (a database error) ends its cycle.
Abandon(s) ==
  /\ pc[s] # "idle"
  /\ GoesAstray(s)
  /\ Forget(s)
  /\ UNCHANGED <<durable, delivered>>

StrayAccepted(m, k) ==
  /\ <<m, k>> \in stray
  /\ stray' = stray \ {<<m, k>>}
  /\ Accept(m, k)
  /\ UNCHANGED <<durable, memory>>

StrayLost(m, k) ==
  /\ <<m, k>> \in stray
  /\ stray' = stray \ {<<m, k>>}
  /\ UNCHANGED <<durable, memory, delivered>>
-----------------------------------------------------------------------------
\* The steps of one process that the scheduler owes it.
Work(s) ==
  \/ \E found \in SUBSET Mint : Discover(s, found)
  \/ \E m \in Mint, passes \in BOOLEAN : Evaluate(s, m, passes)
  \/ \E young \in SUBSET Mint : Rank(s, young)
  \/ \E m \in Mint : Decline(s, m)
  \/ \E m \in Mint, k \in Kind : Prepare(s, m, k)
  \/ ClaimReadsLegacy(s)
  \/ ClaimInserts(s)
  \/ NoWinner(s)
  \/ PersistCycle(s)
  \/ DropExpired(s)
  \/ Post(s)
  \/ AnswerAccepted(s)
  \/ AnswerRefused(s)
  \/ AnswerLost(s)
  \/ KeepUncertain(s)
  \/ FinishAccepted(s)
  \/ ReleaseRefused(s)
  \/ RecordAlerted(s)

Next ==
  \/ \E s \in Session : \/ Work(s)
                        \/ TelegramAccepts(s)
                        \/ TelegramRefuses(s)
                        \/ Abandon(s)
  \/ \E m \in Mint, k \in Kind : StrayAccepted(m, k) \/ StrayLost(m, k)

Spec == Init /\ [][Next]_vars

\* The event loop goes on running every process that is alive.
FairSpec == Spec /\ \A s \in Session : WF_vars(Work(s))
-----------------------------------------------------------------------------
(* Properties *)

Told(m, k)     == \E i \in DOMAIN delivered[m] : delivered[m][i] = k
Holds(s, m, k) == pc[s] \in Holding /\ ticket[s] = <<m, k>>

\* A message Telegram may still accept.
UnderWay(m, k) ==
  \/ <<m, k>> \in stray
  \/ \E s \in Session : wire[s] = "posted" /\ ticket[s] = <<m, k>>

TypeOK ==
  /\ claim \in [Mint -> [Kind -> Status]]
  /\ legacy_claim \in [Mint -> Status]
  /\ alerted \in [Mint -> Seq(Kind \cup {"LEGACY"})]
  /\ pending_rows \subseteq Mint \X Kind
  /\ pc \in [Session -> Pc]
  /\ todo \in [Session -> SUBSET Mint]
  /\ qualified \in [Session -> SUBSET Mint]
  /\ ticket \in [Session -> {NoTicket} \cup (Mint \X Kind)]
  /\ wire \in [Session -> {"none", "posted", "accepted", "refused"}]
  /\ stray \subseteq Mint \X Kind
  /\ delivered \in [Mint -> Seq(Kind)]

(***************************************************************************)
(* The detailed system implements the promise made to the operator: per    *)
(* mint at most one WATCH and one BUY, and no WATCH after a BUY, whatever  *)
(* the interleaving, crash, lost answer or late acceptance.                *)
(***************************************************************************)
Promise == INSTANCE AlertPromise

KeepsPromise == Promise!Spec

(***************************************************************************)
(* run_cycle persists the whole cycle before the side effect: a message    *)
(* that may still be accepted has a PENDING claim and its ALERT_PENDING    *)
(* observation on disk, and Telegram has not accepted one like it before.  *)
(***************************************************************************)
TraceBeforeMessage ==
  \A m \in Mint, k \in Kind :
    UnderWay(m, k) => /\ claim[m][k] = "PENDING"
                      /\ <<m, k>> \in pending_rows
                      /\ ~Told(m, k)

(***************************************************************************)
(* The history never says more than what happened: a SENT claim or an      *)
(* alerted=1 observation of a kind means that Telegram accepted it.        *)
(***************************************************************************)
HistoryIsTrue ==
  \A m \in Mint, k \in Kind :
    claim[m][k] = "SENT" \/ Listed(m, k) => Told(m, k)

(***************************************************************************)
(* An observation to be stored with alerted=1 never meets the unique index *)
(* on (chain, mint, kind): the commit after an accepted delivery cannot    *)
(* fail on a row of this build or of an earlier one.                       *)
(***************************************************************************)
IndexNeverRefuses ==
  \A s \in Session : pc[s] = "record" => ~Listed(ticket[s][1], ticket[s][2])

(***************************************************************************)
(* Only the process that made a claim settles it.  Once that process is    *)
(* gone or gave up uncertain, nothing the code does changes any claim of   *)
(* the mint: it waits for an operator.                                     *)
(***************************************************************************)
OnlyHolderSettles ==
  [][\A m \in Mint, k \in Kind :
       claim[m][k] = "PENDING" /\ (\A s \in Session : ~Holds(s, m, k))
         => claim'[m] = claim[m]]_vars
\* Every candidate is found, passes and stays young; Telegram refuses nothing;
\* no ticket expires and no process dies.  Answers may still be lost.
Steady ==
  \E s \in Session :
    \/ Discover(s, Mint)
    \/ \E m \in Mint : Evaluate(s, m, ~SignalIsFinal(m))
    \/ Rank(s, qualified[s])
    \/ \E m \in Mint, k \in Kind : Prepare(s, m, k)
    \/ ClaimReadsLegacy(s) \/ ClaimInserts(s) \/ NoWinner(s) \/ PersistCycle(s)
    \/ Post(s) \/ TelegramAccepts(s)
    \/ AnswerAccepted(s) \/ AnswerRefused(s) \/ AnswerLost(s)
    \/ KeepUncertain(s) \/ FinishAccepted(s) \/ ReleaseRefused(s) \/ RecordAlerted(s)

(***************************************************************************)
(* A mint whose claim is stuck PENDING, or that is refused again and again *)
(* because its WATCH went out, does not suppress the mints ranked below:   *)
(* once the environment is steady the operator hears of every mint, or it  *)
(* is blocked for an operator.                                             *)
(***************************************************************************)
NotSuppressed ==
  <>[][Steady]_vars
    => \A m \in Mint : <>(SignalIsFinal(m) \/ delivered[m] # <<>>)
-----------------------------------------------------------------------------
(***************************************************************************)
(* The inductive invariant behind these properties.                        *)
(***************************************************************************)
MemoryInv ==
  \A s \in Session :
    /\ ticket[s] # NoTicket <=> pc[s] \in Holding \cup {"legacy", "insert", "record"}
    /\ wire[s] # "none" <=> pc[s] = "await"

\* Who may hold what: a PENDING claim excludes every other claimant of its mint.
ClaimInv ==
  /\ \A m \in Mint : claim[m]["WATCH"] = "PENDING" => claim[m]["BUY"] = "NONE"
  /\ \A s \in Session, m \in Mint, k \in Kind :
       Holds(s, m, k) => claim[m][k] = "PENDING"
  /\ \A s, t \in Session, m \in Mint, j, k \in Kind :
       Holds(s, m, j) /\ Holds(t, m, k) => s = t
  /\ \A s, t \in Session :
       pc[s] = "record" /\ pc[t] = "record" /\ ticket[s] = ticket[t] => s = t
  /\ \A s \in Session, m \in Mint, k \in Kind :
       pc[s] = "record" /\ ticket[s] = <<m, k>> => claim[m][k] = "SENT"

\* What the disk tells before a message can leave.
TraceInv ==
  /\ \A s \in Session : pc[s] \in Holding \ {"persist"} => ticket[s] \in pending_rows
  /\ \A m \in Mint, k \in Kind :
       <<m, k>> \in stray =>
         /\ claim[m][k] = "PENDING" /\ <<m, k>> \in pending_rows /\ ~Told(m, k)
         /\ \A s \in Session, j \in Kind :
              Holds(s, m, j) => pc[s] = "uncertain" /\ j = k

\* What Telegram has accepted, against what the tables and the processes hold.
ToldInv ==
  /\ \A m \in Mint : delivered[m] \in Promise!Kept
  /\ \A m \in Mint, k \in Kind :
       /\ claim[m][k] = "SENT" \/ Listed(m, k) => Told(m, k)
       /\ Told(m, k) /\ claim[m][k] = "NONE" => LegacyForbids(m, k)
  /\ \A s \in Session, m \in Mint, k \in Kind :
       Holds(s, m, k) =>
         /\ ~Listed(m, k)
         /\ pc[s] \in {"persist", "deliver", "release"} \/ wire[s] \in {"posted", "refused"}
              => ~Told(m, k)
         /\ pc[s] = "finish" \/ wire[s] = "accepted" => Told(m, k)

\* What an earlier build's claims still allow.
LegacyInv ==
  /\ \A m \in Mint, k \in Kind :
       claim[m][k] # "NONE" =>
         legacy_claim[m] = "NONE" \/ (legacy_claim[m] = "SENT" /\ k = "BUY")
  /\ \A s \in Session, m \in Mint, k \in Kind :
       pc[s] = "insert" /\ ticket[s] = <<m, k>> =>
         ~LegacyForbids(m, k) \/ claim[m]["BUY"] = "SENT"

DeliveryInv ==
  /\ TypeOK
  /\ MemoryInv
  /\ ClaimInv
  /\ TraceInv
  /\ ToldInv
  /\ LegacyInv
  /\ IndexNeverRefuses
=============================================================================
