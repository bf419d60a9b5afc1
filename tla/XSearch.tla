------------------------------ MODULE XSearch ------------------------------
(***************************************************************************)
(* The providers a scan cycle depends on and what the operator hears of    *)
(* them: XSearchClient with its two backends and their breakers, the       *)
(* gate of OnchainAnalyzer in front of the RPC node, the searches of one   *)
(* candidate (its mentions, then two forensic queries at the same time),   *)
(* and HealthReporter with the message the main loop sends after a cycle.  *)
(*                                                                         *)
(* Every answer is an event of its own, so the answers of the requests     *)
(* under way come in any order.  Time is what is left of a cooldown and    *)
(* what has passed since the last health message.  The status codes 401,   *)
(* 402 and 403 are one code here.                                          *)
(***************************************************************************)
EXTENDS Naturals, FiniteSets

CONSTANTS
  Backend,   \* the backends that have a key, of {"tavily", "xai"}
  Query,     \* the forensic queries, asked at the same time
  Main,      \* the search for mentions, asked before them
  Cooldown,  \* ticks a backend rests after a transient failure (60 s)
  Quiet      \* ticks between two scheduled health messages (900 s)

ASSUME BackendAssumption == Backend # {} /\ IsFiniteSet(Backend) /\ IsFiniteSet(Query)
ASSUME MainAssumption == Main \notin Query
ASSUME TimeAssumption == Cooldown \in Nat \ {0} /\ Quiet \in Nat \ {0}

VARIABLES
  (* XSearchClient *)
  access_denied,  \* backends denied for the life of the process
  retry_after,    \* ticks until a backend may be asked again
  failures,       \* last failure code of a backend
  flight,         \* the request of a search to a backend: no request, under way, answered
  (* OnchainAnalyzer *)
  rpc,            \* its access_denied flag, last_error, and a cooldown beyond 5 s
  attempt,        \* number of the RPC request under way
  (* the cycle *)
  pc,             \* what the cycle is waiting for
  verdict,        \* what the searches said of the candidate in hand
  (* HealthReporter and the operator *)
  reported,       \* reported_access
  silence,        \* ticks since last_sent
  told,           \* providers a message that arrived has named
  (* history *)
  raced,          \* backends denied while another request to them was under way
  warned,         \* an answer about the candidate in hand warned of a scam
  alarms          \* messages sent before they were due

breakers == <<access_denied, retry_after, failures, raced>>
operator == <<reported, silence, told, alarms>>
vars     == <<access_denied, retry_after, failures, flight, rpc, attempt, pc, verdict,
              reported, silence, told, raced, warned, alarms>>

NoFailure == "none"
Action    == "OPERATOR_ACTION_REQUIRED"   \* HTTP 401, 402, 403
Transient == "transient"                  \* any other status, timeout or error
Code      == {NoFailure, Action, Transient}

Search   == {Main} \cup Query
Found    == {"clean", "scam"}             \* evidence_availability = AVAILABLE
Answered == Found \cup {"nothing"}
Rpc      == "rpc"

Init ==
  /\ access_denied = {}
  /\ retry_after   = [b \in Backend |-> 0]
  /\ failures      = [b \in Backend |-> NoFailure]
  /\ flight        = [q \in Search |-> [b \in Backend |-> "idle"]]
  /\ rpc           = [denied |-> FALSE, error |-> NoFailure, resting |-> FALSE]
  /\ attempt       = 0
  /\ pc            = "scan"
  /\ verdict       = "none"
  /\ reported = {} /\ silence = Quiet /\ told = {}
  /\ raced = {} /\ warned = FALSE /\ alarms = 0
-----------------------------------------------------------------------------
(* The gate in front of the RPC node *)

\* Nothing is sent when access is denied or the cooldown is longer than 5 s.
CheckOnChain ==
  /\ pc = "scan"
  /\ ~rpc.denied /\ ~rpc.resting
  /\ pc' = "rpc" /\ attempt' = 1
  /\ UNCHANGED <<breakers, flight, rpc, verdict, operator, warned>>

RpcNotes(error, denied, resting) ==
  rpc' = [denied |-> denied, error |-> error, resting |-> resting]

\* The last answer of a call: a result, a denial, an error that no retry helps, a
\* long Retry-After, or the third transient failure.
RpcEnds ==
  /\ pc = "rpc"
  /\ \/ RpcNotes(NoFailure, FALSE, FALSE)
     \/ RpcNotes(Action, TRUE, FALSE)
     \/ RpcNotes(Transient, FALSE, FALSE)
     \/ RpcNotes(Transient, FALSE, TRUE)
  /\ pc' = "scan" /\ attempt' = 0
  /\ UNCHANGED <<breakers, flight, verdict, operator, warned>>

RpcRetries ==
  /\ pc = "rpc" /\ attempt < 3
  /\ RpcNotes(Transient, FALSE, FALSE)
  /\ attempt' = attempt + 1
  /\ UNCHANGED <<breakers, flight, pc, verdict, operator, warned>>
-----------------------------------------------------------------------------
(* XSearchClient *)

\* Faulty variant: a backend is blocked as long as its failure is remembered.
BlockedByFailure(b) == failures[b] # NoFailure

Blocked(b) == b \in access_denied \/ retry_after[b] > 0

\* search_token for all queries of qs: every backend with a key is asked at once,
\* a blocked one answers UNAVAILABLE without a request.
Ask(qs) ==
  flight' = [q \in Search |->
               [b \in Backend |-> IF q \notin qs THEN "idle"
                                  ELSE IF Blocked(b) THEN "nothing" ELSE "out"]]

Out(b) == {q \in Search : flight[q][b] = "out"}

Answer(q, b, a) ==
  /\ flight[q][b] = "out"
  /\ flight' = [flight EXCEPT ![q][b] = a]
  /\ UNCHANGED <<rpc, attempt, pc, verdict, operator>>

\* Results, or none that are indexed: the failure on record is dropped.
Succeed(q, b, a) ==
  /\ Answer(q, b, a)
  /\ failures' = [failures EXCEPT ![b] = NoFailure]
  /\ warned'   = (warned \/ a = "scam")
  /\ UNCHANGED <<access_denied, retry_after, raced>>

\* Faulty variant: a 402 is treated like an outage.
DenyTransient(q, b) ==
  /\ Answer(q, b, "nothing")
  /\ access_denied' = access_denied \cup {b}
  /\ failures' = [failures EXCEPT ![b] = Transient]
  /\ UNCHANGED <<retry_after, raced, warned>>

\* _record_failure of a 401, 402 or 403.
Deny(q, b) ==
  /\ Answer(q, b, "nothing")
  /\ access_denied' = access_denied \cup {b}
  /\ failures' = [failures EXCEPT ![b] = Action]
  /\ raced' = IF Out(b) = {q} THEN raced ELSE raced \cup {b}
  /\ UNCHANGED <<retry_after, warned>>

\* _record_failure of anything else.
Fail(q, b) ==
  /\ Answer(q, b, "nothing")
  /\ retry_after' = [retry_after EXCEPT ![b] = Cooldown]
  /\ failures' = [failures EXCEPT ![b] = Transient]
  /\ UNCHANGED <<access_denied, raced, warned>>
-----------------------------------------------------------------------------
(* The searches of one candidate *)

\* Faulty variant: of two answers only the one that counts mentions is believed.
WarnsByCounter(q) ==
  \E b \in Backend : /\ flight[q][b] = "scam"
                     /\ b = "tavily" \/ flight[q]["tavily"] \notin Found

\* _search_both: a warning of either backend stands, and either one's answer is
\* enough to have evidence.
Warns(q)     == \E b \in Backend : flight[q][b] = "scam"
Available(q) == \E b \in Backend : flight[q][b] \in Found
Complete(qs) == \A q \in qs, b \in Backend : flight[q][b] \in Answered

BeginSearch ==
  /\ pc = "scan"
  /\ Ask({Main})
  /\ pc' = "mentions" /\ verdict' = "none" /\ warned' = FALSE
  /\ UNCHANGED <<breakers, rpc, attempt, operator>>

\* X_EVIDENCE_UNAVAILABLE, SCAM_EVIDENCE_FOUND, or on to the forensic queries.
EndMentions ==
  /\ pc = "mentions" /\ Complete({Main})
  /\ IF Available(Main) /\ ~Warns(Main)
     THEN Ask(Query) /\ pc' = "forensic" /\ verdict' = verdict
     ELSE /\ pc' = "scan"
          /\ flight' = [q \in Search |-> [b \in Backend |-> "idle"]]
          /\ verdict' = IF Available(Main) THEN "rejected" ELSE "deferred"
  /\ UNCHANGED <<breakers, rpc, attempt, operator, warned>>

\* A query that found nothing, or failed, does not block the candidate.
EndForensic ==
  /\ pc = "forensic" /\ Complete(Query)
  /\ verdict' = IF \E q \in Query : Warns(q) THEN "rejected" ELSE "clear"
  /\ flight' = [q \in Search |-> [b \in Backend |-> "idle"]]
  /\ pc' = "scan"
  /\ UNCHANGED <<breakers, rpc, attempt, operator, warned>>
-----------------------------------------------------------------------------
(* The end of a cycle *)

\* The exception of a cycle is logged; nothing is reported.
CycleFails ==
  /\ pc = "scan" /\ pc' = "asleep"
  /\ UNCHANGED <<breakers, flight, rpc, attempt, verdict, operator, warned>>

\* access_errors: the codes, without the backend they belong to.
AccessErrors ==
  {failures[b] : b \in {k \in Backend : failures[k] = Action}}
    \cup (IF rpc.error = Action THEN {Rpc} ELSE {})

\* Faulty variant: only a new denial is worth a message.
DueOnce == AccessErrors \ reported # {}

\* Faulty variant: what was reported is not remembered.
RemembersNothing == reported' = reported

Remembers == reported' = reported \cup AccessErrors

Due == AccessErrors \ reported # {} \/ silence >= Quiet

\* The message counts as sent before anybody has tried to send it.
Report ==
  /\ pc = "scan"
  /\ IF Due
     THEN /\ Remembers
          /\ silence' = 0
          /\ alarms' = IF silence >= Quiet THEN alarms ELSE alarms + 1
          /\ pc' = "send"
     ELSE pc' = "asleep" /\ UNCHANGED <<reported, silence, alarms>>
  /\ UNCHANGED <<breakers, flight, rpc, attempt, verdict, told, warned>>

\* The text names the failures on record.
Named == {b \in Backend : failures[b] = Action} \cup (IF rpc.error = Action THEN {Rpc} ELSE {})

Sent ==
  /\ pc = "send" /\ pc' = "asleep"
  /\ told' = told \cup Named
  /\ UNCHANGED <<breakers, flight, rpc, attempt, verdict, reported, silence, alarms, warned>>

\* The return value of send is not looked at.
Lost ==
  /\ pc = "send" /\ pc' = "asleep"
  /\ UNCHANGED <<breakers, flight, rpc, attempt, verdict, operator, warned>>

\* check_interval_seconds.
Wake ==
  /\ pc = "asleep" /\ pc' = "scan"
  /\ UNCHANGED <<breakers, flight, rpc, attempt, verdict, operator, warned>>

Tick ==
  /\ retry_after' = [b \in Backend |-> IF retry_after[b] = 0 THEN 0 ELSE retry_after[b] - 1]
  /\ silence' = IF silence < Quiet THEN silence + 1 ELSE silence
  /\ rpc' = [rpc EXCEPT !.resting = FALSE]
  /\ UNCHANGED <<access_denied, failures, flight, attempt, pc, verdict, reported, told,
                 raced, warned, alarms>>
-----------------------------------------------------------------------------
Ends ==
  \/ \E q \in Search, b \in Backend :
       Deny(q, b) \/ Fail(q, b) \/ \E a \in Answered : Succeed(q, b, a)
  \/ EndMentions \/ EndForensic \/ RpcEnds

Next ==
  \/ CheckOnChain \/ RpcEnds \/ RpcRetries
  \/ BeginSearch \/ EndMentions \/ EndForensic
  \/ \E q \in Search, b \in Backend :
       Deny(q, b) \/ Fail(q, b) \/ \E a \in Answered : Succeed(q, b, a)
  \/ Report \/ CycleFails \/ Sent \/ Lost \/ Wake
  \/ Tick

Spec == Init /\ [][Next]_vars

\* Requests have timeouts, so each ends; time passes; a cycle comes to its report
\* again and again, though some end in an exception; and a message sent again and
\* again arrives.
FairSpec ==
  /\ Spec
  /\ WF_vars(Ends) /\ WF_vars(Tick) /\ WF_vars(Wake)
  /\ SF_vars(Report) /\ SF_vars(Sent)
-----------------------------------------------------------------------------
(* Properties *)

TypeOK ==
  /\ access_denied \subseteq Backend
  /\ retry_after \in [Backend -> 0..Cooldown]
  /\ failures \in [Backend -> Code]
  /\ flight \in [Search -> [Backend -> {"idle", "out"} \cup Answered]]
  /\ rpc \in [denied : BOOLEAN, error : Code, resting : BOOLEAN]
  /\ attempt \in 0..3
  /\ pc \in {"scan", "rpc", "mentions", "forensic", "send", "asleep"}
  /\ verdict \in {"none", "clear", "rejected", "deferred"}
  /\ reported \subseteq {Action, Rpc}
  /\ silence \in 0..Quiet
  /\ told \subseteq Backend \cup {Rpc}
  /\ raced \subseteq access_denied
  /\ warned \in BOOLEAN
  /\ alarms \in Nat

(***************************************************************************)
(* A provider that denied access is on record as needing the operator      *)
(* until the process ends: the RPC node always, a backend unless another   *)
(* request to it was under way when it refused.  That request may succeed  *)
(* and drop the record, or time out and overwrite it, and then nothing     *)
(* ever tells the operator (see the README).                               *)
(***************************************************************************)
DenialNamed ==
  /\ \A b \in access_denied \ raced : failures[b] = Action
  /\ rpc.denied => rpc.error = Action

\* Requests are under way only while a candidate is searched, and none to a backend
\* that was denied alone.
QuietInv ==
  /\ \A q \in Search, b \in Backend :
       flight[q][b] = "out" => /\ (q = Main /\ pc = "mentions") \/ (q \in Query /\ pc = "forensic")
                               /\ b \in access_denied => b \in raced
  /\ pc = "rpc" => ~rpc.denied

BreakerInv == TypeOK /\ DenialNamed /\ QuietInv

(***************************************************************************)
(* A scam warning is never lost: whichever backend saw it, in whichever    *)
(* of the three searches, and whatever became of the other requests, the   *)
(* candidate is not cleared.                                               *)
(***************************************************************************)
ScamRejects == verdict = "clear" => ~warned

(***************************************************************************)
(* Denials do not flood the operator: out of schedule there is at most one *)
(* message for each kind of denial, however often it is met.               *)
(***************************************************************************)
AlarmsBounded == alarms <= Cardinality(reported)

(***************************************************************************)
(* The operator learns of a denial, though health messages get lost: it is *)
(* named in a message that arrives, unless the record of it is overwritten.*)
(***************************************************************************)
OperatorLearns ==
  /\ \A b \in Backend : failures[b] = Action ~> (b \in told \/ failures[b] # Action)
  /\ rpc.denied ~> Rpc \in told

(***************************************************************************)
(* No transient failure turns a backend off: if candidates keep coming, it *)
(* is asked again and again until it denies access.                        *)
(***************************************************************************)
AskedAgain ==
  \A b \in Backend :
    []<>(pc = "mentions") => <>(b \in access_denied) \/ []<>(Out(b) # {})
=============================================================================
