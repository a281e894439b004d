------------------------------- MODULE Outbox -------------------------------
(* One entry of the external notification outbox (notifications/service.py) *)
(* shared by operators and delivery workers: prepared once per idempotency  *)
(* key, approved, handed to a worker, reported sent or failed.  Nothing in  *)
(* the code sends; the records are the contract a sender would work with.   *)
EXTENDS PlatformStore

CONSTANTS RetryLimit,            \* policy notification_retry_limit
          MaxMarks     \* bound of a behaviour

\* The policy file gives any integer; an entry with more than 20 attempts no
\* longer validates (NotificationOutbox.attempt_count), and the shipped limit is 3.
ASSUME OutboxAssumption == RetryLimit \in 1..20

VARIABLES outbox,    \* head of the notification_outbox record
          receipt,   \* an idempotency receipt names the entry
          approved,  \* the egress approval is on record and valid
          ocall,     \* the call each caller is in
          obudget,   \* bounds: calls made, calls that died
          sends      \* history: times a worker was allowed to send

ovars == <<outbox, receipt, approved, ocall, obudget, sends>>

OutboxStates == {"none", "draft", "approved", "sending", "sent", "failed", "dead_letter"}
Entry == [rev : Nat, state : OutboxStates, attempts : Nat]
Quiet == [step |-> "none"]
Calls == {Quiet, [step |-> "look"], [step |-> "receipt"]}
            \cup [step : {"advance"}, prior : Entry, next : OutboxStates]

OutboxTypeOK ==
    /\ outbox \in Entry /\ outbox.attempts <= RetryLimit
    /\ receipt \in BOOLEAN /\ approved \in BOOLEAN
    /\ ocall \in [Callers -> Calls]
    /\ obudget \in [calls : Nat, deaths : Nat]
    /\ sends \in Nat

OutboxInit ==
    /\ outbox = [rev |-> 0, state |-> "none", attempts |-> 0]
    /\ receipt = FALSE /\ approved = TRUE
    /\ ocall = [c \in Callers |-> Quiet]
    /\ obudget = [calls |-> 0, deaths |-> 0]
    /\ sends = 0

-----------------------------------------------------------------------------
Finish(c) == ocall' = [ocall EXCEPT ![c] = Quiet]

OutboxCall(c, rec) ==
    /\ ocall[c] = Quiet
    /\ obudget.calls < MaxMarks
    /\ obudget' = [obudget EXCEPT !.calls = @ + 1]
    /\ ocall' = [ocall EXCEPT ![c] = rec]
    /\ UNCHANGED <<outbox, receipt, approved, sends>>

\* prepare_outbox: a receipt answers the call; otherwise policy decision and
\* approval must be valid.
Prepare(c) == ~receipt /\ approved /\ OutboxCall(c, [step |-> "look"])

\* An entry that exists without a receipt is taken as it is.
LookAtEntry(c) ==
    /\ ocall[c].step = "look"
    /\ ocall' = [ocall EXCEPT ![c] =
                   IF outbox.rev = 0 THEN [step |-> "advance", prior |-> outbox, next |-> "draft"]
                   ELSE [step |-> "receipt"]]
    /\ UNCHANGED <<outbox, receipt, approved, obudget, sends>>

StoreOutboxReceipt(c) ==
    /\ ocall[c].step = "receipt"
    /\ receipt' = TRUE
    /\ Finish(c)
    /\ UNCHANGED <<outbox, approved, obudget, sends>>

\* The transitions approve_outbox, mark_sending, mark_sent and mark_failed
\* accept; only the first looks at the approval again.
Advances == [none |-> {}, draft |-> {"approved"}, approved |-> {"sending"}, failed |-> {"sending"},
             sending |-> {"sent", "failed"}, sent |-> {}, dead_letter |-> {}]

Mark(c, next) ==
    /\ next \in Advances[outbox.state]
    /\ next = "approved" => approved
    /\ OutboxCall(c, [step |-> "advance", prior |-> outbox, next |-> next])

\* mark_failed one attempt too patient.
AttemptedLate(prior, next) ==
    IF next # "failed" THEN [prior EXCEPT !.state = next]
    ELSE [prior EXCEPT !.attempts = @ + 1,
                       !.state = IF prior.attempts >= RetryLimit THEN "dead_letter" ELSE "failed"]

\* A failure that reaches the retry limit is the last one.
Attempted(prior, next) ==
    IF next # "failed" THEN [prior EXCEPT !.state = next]
    ELSE [prior EXCEPT !.attempts = @ + 1,
                       !.state = IF prior.attempts + 1 >= RetryLimit THEN "dead_letter" ELSE "failed"]

\* _advance_outbox, and the append of the draft.
Advance(c) ==
    /\ ocall[c].step = "advance"
    /\ IF HeadUnmoved(outbox, ocall[c].prior.rev)
       THEN /\ outbox' = Appended(outbox, Attempted(ocall[c].prior, ocall[c].next))
            /\ sends' = IF ocall[c].next = "sending" THEN sends + 1 ELSE sends
            /\ IF ocall[c].next = "draft" THEN ocall' = [ocall EXCEPT ![c] = [step |-> "receipt"]]
                                          ELSE Finish(c)
       ELSE Finish(c) /\ UNCHANGED <<outbox, sends>>
    /\ UNCHANGED <<receipt, approved, obudget>>

SenderDies(c) ==
    /\ ocall[c] # Quiet
    /\ obudget.deaths < MaxDeaths
    /\ obudget' = [obudget EXCEPT !.deaths = @ + 1]
    /\ Finish(c)
    /\ UNCHANGED <<outbox, receipt, approved, sends>>

\* The approval expires or is revoked.
ApprovalEnds ==
    /\ approved
    /\ approved' = FALSE
    /\ UNCHANGED <<outbox, receipt, ocall, obudget, sends>>

OutboxNext ==
    \/ \E c \in Callers : \/ Prepare(c) \/ LookAtEntry(c) \/ StoreOutboxReceipt(c) \/ Advance(c)
                          \/ SenderDies(c) \/ \E next \in OutboxStates : Mark(c, next)
    \/ ApprovalEnds

OutboxSpec == OutboxInit /\ [][OutboxNext]_ovars

-----------------------------------------------------------------------------
\* Every hand-over of an outbox entry to a worker is reported once, as sent or
\* as one more failed attempt, and the retry limit bounds them, however many
\* workers share the outbox and however late they report.
SendsReported ==
    /\ sends = outbox.attempts + IF outbox.state \in {"sending", "sent"} THEN 1 ELSE 0
    /\ sends <= RetryLimit

\* A call that is about to write remembers an entry that was the head, and
\* still is when the revision is the same.
CallsRemember ==
    \A c \in Callers : ocall[c].step = "advance" =>
       /\ ocall[c].prior.rev <= outbox.rev
       /\ ocall[c].prior.rev = outbox.rev => ocall[c].prior = outbox
       /\ IF ocall[c].next = "draft" THEN ocall[c].prior.state = "none"
          ELSE ocall[c].next \in Advances[ocall[c].prior.state]

\* An entry that may be handed over again has an attempt left.
AttemptsLeft == outbox.state \notin {"sent", "dead_letter"} => outbox.attempts < RetryLimit

\* Only a record without a revision has no state.
NoEntryYet == outbox.rev = 0 => outbox.state = "none"

\* The inductive invariant behind the outbox theorems of RecordsProofs.
OutboxInv == OutboxTypeOK /\ NoEntryYet /\ CallsRemember /\ AttemptsLeft /\ SendsReported
=============================================================================
