------------------------------ MODULE Emergency ------------------------------
(* Emergency stop and circuit breakers (emergency/service.py) over the      *)
(* platform record store (platform_store.py).  Every store call is its own  *)
(* SQLite transaction: a service call reads the heads it needs and later    *)
(* appends with the revision it read, so the calls of several processes     *)
(* interleave between any two of the steps below and may die there.         *)
EXTENDS PlatformStore

CONSTANTS Actions,     \* EmergencyAction values
          Breakers,    \* breaker ids: one per trigger and scope
          Security,    \* breakers of _SECURITY_TRIGGERS
          Keys,        \* idempotency keys clients use
          MaxCalls, MaxApprovals  \* bounds of a behaviour

ASSUME EmergencyAssumption ==
    /\ {"runtime", "revoke"} \subseteq Actions
    /\ Security \subseteq Breakers
    /\ Keys \subseteq Nat
    /\ MaxCalls \in Nat /\ MaxApprovals \in Nat

VARIABLES stop,       \* head of emergency_global: revision and active_actions
          breakers,   \* heads of the breaker records
          receipts,   \* idempotency_receipts rows
          approvals,  \* approvals on record, per request they are bound to
          ecall,      \* the call each caller is in
          ebudget,    \* bounds: calls made, crashes, approvals granted
          probes      \* history: half-open probes since the last manual close

evars == <<stop, breakers, receipts, approvals, ecall, ebudget, probes>>

Requests == (SUBSET Actions) \ {{}}
Targets == Requests \cup {{b} : b \in Breakers}
BreakerStates == {"none", "closed", "half_open", "open"}
Breaker == [rev : Nat, state : BreakerStates, used : Nat]
NoCall == [op |-> "none"]

StopKeys == (Breakers \cup {"client"}) \X Nat

\* Calls about the stop remember the head they read, calls about a breaker
\* also what they will append.
StopCalls == [op : {"activate", "recover"}, acts : Requests, key : StopKeys,
              step : {"head", "gate", "append", "receipt"}, rev : Nat, seen : SUBSET Actions]
BreakerCalls == [op : {"observe", "close"}, target : Breakers, step : {"append"}, rev : Nat, next : Breaker]

EmergencyTypeOK ==
    /\ stop \in [rev : Nat, active : SUBSET Actions]
    /\ breakers \in [Breakers -> Breaker]
    /\ receipts \subseteq [scope : {"activate", "recover"}, acts : Requests, key : StopKeys]
    /\ approvals \in [Targets -> {"none", "old", "new"}]
    /\ ecall \in [Callers -> StopCalls \cup BreakerCalls \cup {NoCall}]
    /\ probes \in [Breakers -> Nat]

EmergencyInit ==
    /\ stop = [rev |-> 0, active |-> {}]
    /\ breakers = [b \in Breakers |-> [rev |-> 0, state |-> "none", used |-> 0]]
    /\ receipts = {}
    /\ approvals = [t \in Targets |-> "none"]
    /\ ecall = [c \in Callers |-> NoCall]
    /\ ebudget = [calls |-> 0, deaths |-> 0, approvals |-> 0]
    /\ probes = [b \in Breakers |-> 0]

-----------------------------------------------------------------------------
(* Decisions                                                               *)

\* assert_runtime_allowed on a snapshot.
RuntimeAllowed == "runtime" \notin stop.active

\* require_approval: an approval given before revoke_pending_approvals became
\* active is refused while that action is active.
Approved(t) == approvals[t] = "new" \/ (approvals[t] = "old" /\ "revoke" \notin stop.active)

\* _open_security_breakers.
SecurityOpen == \E b \in Security : breakers[b].state = "open"

RecoveryLimit(b) == IF b \in Security THEN 0 ELSE 1

\* An observation below the threshold that forgets the recoveries used when
\* the breaker trips again.
JudgedForgetful(b, prior, tripped) ==
    IF tripped THEN [prior EXCEPT !.state = "open", !.used = 0]
    ELSE IF prior.state = "open" /\ prior.used < RecoveryLimit(b)
         THEN [prior EXCEPT !.state = "half_open", !.used = @ + 1]
         ELSE [prior EXCEPT !.state = IF prior.state = "open" THEN "open" ELSE "closed"]

\* observe_breaker: the state that follows an observation at or below the
\* threshold.  An open breaker is probed RecoveryLimit times, a probe that
\* sees nothing closes it.
Judged(b, prior, tripped) ==
    LET probe == ~tripped /\ prior.state = "open" /\ prior.used < RecoveryLimit(b)
        latched == prior.state = "open" /\ ~probe
    IN [prior EXCEPT !.state = IF tripped \/ latched THEN "open"
                               ELSE IF probe THEN "half_open" ELSE "closed",
                     !.used = IF probe THEN @ + 1 ELSE @]

-----------------------------------------------------------------------------
(* Calls                                                                   *)

EmergencyCall(c, rec) ==
    /\ ecall[c] = NoCall
    /\ ebudget.calls < MaxCalls
    /\ ebudget' = [ebudget EXCEPT !.calls = @ + 1]
    /\ ecall' = [ecall EXCEPT ![c] = rec]
    /\ UNCHANGED <<stop, breakers, receipts, approvals, probes>>

\* idempotent_receipt without a receipt: no row for the key.  A row of the
\* same request answers the call, one of another request refuses it.
NewKey(scope, k) == \A r \in receipts : r.scope = scope => r.key # k

StopCall(op, acts, k, step) ==
    [op |-> op, acts |-> acts, key |-> k, step |-> step, rev |-> 0, seen |-> {}]

Activate(c, acts, k) ==
    NewKey("activate", <<"client", k>>) /\ EmergencyCall(c, StopCall("activate", acts, <<"client", k>>, "head"))

Recover(c, acts, k) ==
    /\ Approved(acts)
    /\ NewKey("recover", <<"client", k>>)
    /\ EmergencyCall(c, StopCall("recover", acts, <<"client", k>>, "head"))

Observe(c, b, tripped) ==
    EmergencyCall(c, [op |-> "observe", target |-> b, step |-> "append", rev |-> breakers[b].rev,
              next |-> Judged(b, breakers[b], tripped)])

CloseBreaker(c, b) ==
    /\ Approved({b})
    /\ breakers[b].rev > 0
    /\ EmergencyCall(c, [op |-> "close", target |-> b, step |-> "append", rev |-> breakers[b].rev,
                 next |-> [breakers[b] EXCEPT !.state = "closed", !.used = 0]])

Leave(c) == ecall' = [ecall EXCEPT ![c] = NoCall]

\* store.head("emergency", ...); recover refuses actions that are not active.
ReadStop(c) ==
    /\ ecall[c] # NoCall /\ ecall[c].step = "head"
    /\ IF ecall[c].op = "recover" /\ ~(ecall[c].acts \subseteq stop.active)
       THEN Leave(c)
       ELSE ecall' = [ecall EXCEPT ![c].rev = stop.rev, ![c].seen = stop.active,
                        ![c].step = IF ecall[c].op = "recover" THEN "gate" ELSE "append"]
    /\ UNCHANGED <<stop, breakers, receipts, approvals, ebudget, probes>>

\* recover reads the open breakers after the stop itself.
ReadBreakers(c) ==
    /\ ecall[c] # NoCall /\ ecall[c].step = "gate"
    /\ IF SecurityOpen /\ "runtime" \in ecall[c].acts
       THEN Leave(c)
       ELSE ecall' = [ecall EXCEPT ![c].step = "append"]
    /\ UNCHANGED <<stop, breakers, receipts, approvals, ebudget, probes>>

\* append_record of emergency_global.  A first activation of "revoke" stamps
\* the cutoff that makes every approval on record old.
AppendStop(c) ==
    /\ ecall[c] # NoCall /\ ecall[c].op \in {"activate", "recover"} /\ ecall[c].step = "append"
    /\ IF HeadUnmoved(stop, ecall[c].rev)
       THEN LET activate == ecall[c].op = "activate"
                seen == ecall[c].seen
                acts == ecall[c].acts
            IN /\ stop' = [rev |-> stop.rev + 1,
                           active |-> IF activate THEN seen \cup acts ELSE seen \ acts]
               /\ approvals' = IF activate /\ "revoke" \in acts \ seen
                               THEN [t \in Targets |-> IF approvals[t] = "none" THEN "none" ELSE "old"]
                               ELSE approvals
               /\ ecall' = [ecall EXCEPT ![c].step = "receipt"]
       ELSE Leave(c) /\ UNCHANGED <<stop, approvals>>
    /\ UNCHANGED <<breakers, receipts, ebudget, probes>>

\* The receipt row; a row another call stored under the key stays.
StoreReceipt(c) ==
    /\ ecall[c] # NoCall /\ ecall[c].step = "receipt"
    /\ receipts' = receipts \cup
          (IF NewKey(ecall[c].op, ecall[c].key)
           THEN {[scope |-> ecall[c].op, acts |-> ecall[c].acts, key |-> ecall[c].key]} ELSE {})
    /\ Leave(c)
    /\ UNCHANGED <<stop, breakers, approvals, ebudget, probes>>

\* append_record of a breaker.  A breaker that opens now goes on to activate
\* the stop of the runtime, with a key of its own.
AppendBreaker(c) ==
    /\ ecall[c] # NoCall /\ ecall[c].op \in {"observe", "close"}
    /\ LET b == ecall[c].target
           next == ecall[c].next
           opened == next.state = "open" /\ breakers[b].state # "open"
       IN IF HeadUnmoved(breakers[b], ecall[c].rev)
          THEN /\ breakers' = [breakers EXCEPT ![b] = Appended(@, next)]
               /\ probes' = [probes EXCEPT ![b] = IF ecall[c].op = "close" THEN 0
                                ELSE IF next.state = "half_open" THEN @ + 1 ELSE @]
               /\ IF opened
                  THEN ecall' = [ecall EXCEPT ![c] =
                          StopCall("activate", {"runtime"}, <<b, breakers[b].rev + 1>>, "head")]
                  ELSE Leave(c)
          ELSE Leave(c) /\ UNCHANGED <<breakers, probes>>
    /\ UNCHANGED <<stop, receipts, approvals, ebudget>>

-----------------------------------------------------------------------------
(* Environment                                                             *)

CallDies(c) ==
    /\ ecall[c] # NoCall
    /\ ebudget.deaths < MaxDeaths
    /\ ebudget' = [ebudget EXCEPT !.deaths = @ + 1]
    /\ Leave(c)
    /\ UNCHANGED <<stop, breakers, receipts, approvals, probes>>

\* An operator puts an approval on record, later than any cutoff in force.
GrantApproval(t) ==
    /\ approvals[t] # "new"
    /\ ebudget.approvals < MaxApprovals
    /\ ebudget' = [ebudget EXCEPT !.approvals = @ + 1]
    /\ approvals' = [approvals EXCEPT ![t] = "new"]
    /\ UNCHANGED <<stop, breakers, receipts, ecall, probes>>

ApprovalExpires(t) ==
    /\ approvals[t] # "none"
    /\ approvals' = [approvals EXCEPT ![t] = "none"]
    /\ UNCHANGED <<stop, breakers, receipts, ecall, ebudget, probes>>

EmergencyNext ==
    \/ \E c \in Callers :
          \/ \E acts \in Requests, k \in Keys : Activate(c, acts, k) \/ Recover(c, acts, k)
          \/ \E b \in Breakers : CloseBreaker(c, b) \/ \E t \in BOOLEAN : Observe(c, b, t)
          \/ ReadStop(c) \/ ReadBreakers(c) \/ AppendStop(c) \/ StoreReceipt(c)
          \/ AppendBreaker(c) \/ CallDies(c)
    \/ \E t \in Targets : GrantApproval(t) \/ ApprovalExpires(t)

-----------------------------------------------------------------------------
\* Concurrent writers conflict instead of losing actions: an action leaves the
\* active set only in the append of a recovery that names it, never because an
\* activation or a recovery of something else wrote an older set back.
ActionsNotLost ==
    [][\A a \in stop.active \ stop'.active : \E c \in Callers :
          /\ ecall[c] # NoCall /\ ecall'[c] # ecall[c]
          /\ ecall[c].op = "recover" /\ a \in ecall[c].acts]_evars

\* Breakers latch: between two manual closes a security breaker is never
\* probed and another one at most once, however often it trips, clears and is
\* observed by several processes at once.
ProbesBounded == \A b \in Breakers : probes[b] <= RecoveryLimit(b)

\* An open security breaker keeps the runtime stopped whenever no call is in
\* flight (observe_breaker opens the breaker and stops the runtime).
OpenBreakerStops ==
    (\A c \in Callers : ecall[c] = NoCall) /\ SecurityOpen => ~RuntimeAllowed

\* What a stop call saw is the active set, or the head has moved on since.
SeenIsActive(call) ==
    call.step \in {"gate", "append"} =>
        /\ call.rev <= stop.rev
        /\ call.rev = stop.rev => call.seen = stop.active

\* What a breaker call will append counts one probe more exactly when it
\* probes and may, counts none after a close, or the head has moved on since.
NextIsJudged(call) ==
    LET head == breakers[call.target]  next == call.next IN
    /\ call.rev <= head.rev
    /\ call.op = "close" => next.used = 0
    /\ call.rev = head.rev /\ call.op = "observe" =>
          \/ next.state = "half_open" /\ next.used = head.used + 1 /\ head.used < RecoveryLimit(call.target)
          \/ next.state # "half_open" /\ next.used = head.used

\* The inductive invariant behind ActionsNotLost and ProbesBounded.
EmergencyInv ==
    /\ EmergencyTypeOK
    /\ \A b \in Breakers : probes[b] = breakers[b].used /\ probes[b] <= RecoveryLimit(b)
    /\ \A c \in Callers : /\ ecall[c] \in StopCalls => SeenIsActive(ecall[c])
                          /\ ecall[c] \in BreakerCalls => NextIsJudged(ecall[c])
=============================================================================
