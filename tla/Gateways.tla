------------------------------ MODULE Gateways ------------------------------
(* The two protocol gateways (protocols/acp.py, protocols/a2a.py).  An ACP  *)
(* session belongs to an active runtime session and takes a numbered stream *)
(* of events; an A2A request is quarantined once and may be cancelled.      *)
(* Each call checks what other stores hold first and then makes one         *)
(* transaction in which records and audit events change together; the reply *)
(* may be lost after it.                                                    *)
EXTENDS PlatformStore, Sequences

CONSTANTS Offers,            \* session ids; each derives from the capabilities asked for
          Requested,         \* the capabilities asked for
          EventTypes,        \* types of the events that arrive
          Tokens,            \* authentication tokens of a card
          RequestIds,        \* request ids: identity, card, payload and artifacts hashed
          MaxGatewayCalls    \* bound of a behaviour

ASSUME GatewayAssumption == Offers \cap RequestIds = {}

VARIABLES runtime,    \* status of the execution session the sessions are bound to
          allowed,    \* whether the policy decision and the approvals of events stand
          sessions,   \* heads of acp_session and acp_sequence, by offer
          card,       \* head of a2a_card: its authentication
          requests,   \* heads of a2a_request, a2a_status and a2a_proposal
          audit,      \* append-only audit event streams of sessions and requests
          known,      \* resume tokens that reached a client, by offer
          ycall,      \* the call of each caller
          ybudget     \* bounds: calls, deaths

yvars == <<runtime, allowed, sessions, card, requests, audit, known, ycall, ybudget>>

\* _SUPPORTED_CAPABILITIES.
Supported == {"messages", "streaming_events", "tool_calls", "permission_requests", "cancellation",
              "terminal_output", "file_changes", "session_resume"}

\* _EVENT_CAPABILITIES: the capability an event type needs, if any.
Needed(type) ==
    CASE type = "message" -> {"messages"}
      [] type = "tool_call" -> {"tool_calls"}
      [] type = "permission_request" -> {"permission_requests"}
      [] type = "terminal_output" -> {"terminal_output"}
      [] type = "file_change" -> {"file_changes"}
      [] type = "cancelled" -> {"cancellation"}
      [] OTHER -> {}

\* _TERMINAL_EVENT_STATES.
Ending == [type \in {"cancelled", "completed", "error"} |->
             CASE type = "cancelled" -> "cancelled" [] type = "completed" -> "closed" [] OTHER -> "failed"]

ActiveStates == {"ready", "streaming"}
OverStates == {"cancelled", "closed", "failed"}

\* The capabilities initialize negotiates.
Negotiated(o) == Requested[o] \cap Supported

NoSession == [state |-> "none", token |-> 0, last |-> 0]
NoRequest == [state |-> "none", proposed |-> FALSE]
GwIdle == [step |-> "idle"]

Sessions == [state : ActiveStates \cup OverStates \cup {"none"}, token : Nat, last : Nat]

\* What an audit event of a gateway says.
Entries == [says : ActiveStates \cup OverStates \cup {"initialized", "quarantined"}]
           \cup [says : {"event"}, number : Nat] \cup [says : {"resumed"}, token : Nat]

GatewayCalls ==
    [step : {"initialize"}, at : Offers] \cup [step : {"reply", "resume"}, at : Offers, token : Nat]
    \cup [step : {"event"}, at : Offers, type : EventTypes, number : Nat]
    \cup [step : {"terminate"}, at : Offers, target : OverStates] \cup [step : {"submit", "cancel"}, at : RequestIds]

GatewayTypeOK ==
    /\ runtime \in {"active", "ended"} /\ allowed \in BOOLEAN
    /\ sessions \in [Offers -> Sessions]
    /\ card \in Tokens \cup {"none"}
    /\ requests \in [RequestIds -> [state : {"none", "quarantined", "cancelled"}, proposed : BOOLEAN]]
    /\ audit \in [Offers \cup RequestIds -> Seq(Entries)]
    /\ known \in [Offers -> SUBSET Nat]
    /\ ycall \in [Callers -> GatewayCalls \cup {GwIdle}]

GatewayInit ==
    /\ runtime = "active" /\ allowed = TRUE
    /\ sessions = [o \in Offers |-> NoSession]
    /\ card = "none"
    /\ requests = [r \in RequestIds |-> NoRequest]
    /\ audit = [s \in Offers \cup RequestIds |-> << >>]
    /\ known = [o \in Offers |-> {}]
    /\ ycall = [c \in Callers |-> GwIdle]
    /\ ybudget = [calls |-> 0, deaths |-> 0]

-----------------------------------------------------------------------------
GwCall(c, call) ==
    /\ ycall[c] = GwIdle
    /\ ybudget.calls < MaxGatewayCalls
    /\ ybudget' = [ybudget EXCEPT !.calls = @ + 1]
    /\ ycall' = [ycall EXCEPT ![c] = call]
    /\ UNCHANGED <<runtime, allowed, sessions, card, requests, audit, known>>

GwEnd(c) == ycall' = [ycall EXCEPT ![c] = GwIdle]

\* append_event: the next entry of a stream, chained to the one before it.
Told(stream, entries) == audit' = [audit EXCEPT ![stream] = @ \o entries]

\* The stores a call reads before its transaction change meanwhile: the
\* execution session ends, an emergency control revokes the approvals.
RuntimeEnds ==
    /\ runtime = "active" /\ runtime' = "ended"
    /\ UNCHANGED <<allowed, sessions, card, requests, audit, known, ycall, ybudget>>

AuthorityRevoked ==
    /\ allowed /\ allowed' = FALSE
    /\ UNCHANGED <<runtime, sessions, card, requests, audit, known, ycall, ybudget>>

-----------------------------------------------------------------------------
\* initialize: the runtime session is read in the execution store first.
Initialize(c, o) ==
    /\ runtime = "active"
    /\ GwCall(c, [step |-> "initialize", at |-> o])

\* "ACP session is already initialized."
First(o) == sessions[o] = NoSession

\* The transaction of initialize: session, sequence and event, and a token.
OpenSession(c) ==
    LET o == ycall[c].at IN
    /\ ycall[c].step = "initialize"
    /\ IF First(o)
       THEN /\ sessions' = [sessions EXCEPT ![o] = [state |-> "ready", token |-> 1, last |-> 0]]
            /\ Told(o, <<[says |-> "initialized"]>>)
            /\ ycall' = [ycall EXCEPT ![c] = [step |-> "reply", at |-> o, token |-> 1]]
       ELSE GwEnd(c) /\ UNCHANGED <<sessions, audit>>
    /\ UNCHANGED <<runtime, allowed, card, requests, known, ybudget>>

\* The new resume token reaches the client; only its hash is on record.
Reply(c) ==
    /\ ycall[c].step = "reply"
    /\ known' = [known EXCEPT ![ycall[c].at] = @ \cup {ycall[c].token}]
    /\ GwEnd(c)
    /\ UNCHANGED <<runtime, allowed, sessions, card, requests, audit, ybudget>>

Privileged == {"tool_call", "permission_request", "file_change"}

\* accept_event before its transaction: the event is well formed and bound to
\* its hash, and a privileged one has a policy decision and its approval.
Arrives(c, o, type, n) ==
    /\ type \in Privileged => allowed
    /\ GwCall(c, [step |-> "event", at |-> o, type |-> type, number |-> n])

\* An event that may overtake others.
InSequenceLoosely(s, n) == n > s.last

\* "ACP event sequence is invalid": exactly the next number.
InSequence(s, n) == n = s.last + 1

\* The checks of accept_event inside its transaction.
Acceptable(o, type, n) ==
    /\ sessions[o].state \in ActiveStates
    /\ Needed(type) \subseteq Negotiated(o)
    /\ InSequence(sessions[o], n)

\* _transition after an event: a terminal one ends the session, the first one
\* sets it streaming.
StateAfter(type) == IF type \in DOMAIN Ending THEN Ending[type] ELSE "streaming"

AcceptEvent(c) ==
    LET o == ycall[c].at
        s == sessions[o]
        to == StateAfter(ycall[c].type) IN
    /\ ycall[c].step = "event"
    /\ IF Acceptable(o, ycall[c].type, ycall[c].number)
       THEN /\ sessions' = [sessions EXCEPT ![o].last = ycall[c].number, ![o].state = to]
            /\ Told(o, <<[says |-> "event", number |-> ycall[c].number]>>
                       \o (IF to # s.state THEN <<[says |-> to]>> ELSE << >>))
       ELSE UNCHANGED <<sessions, audit>>
    /\ GwEnd(c)
    /\ UNCHANGED <<runtime, allowed, card, requests, known, ybudget>>

-----------------------------------------------------------------------------
\* resume: a client presents a token it was given.
ResumeSession(c, o, t) ==
    /\ t \in known[o]
    /\ GwCall(c, [step |-> "resume", at |-> o, token |-> t])

\* compare_digest with the hash of the last token issued.
TokenCurrent(s, t) == t = s.token

Resumes(c) ==
    LET o == ycall[c].at IN
    /\ ycall[c].step = "resume"
    /\ IF /\ sessions[o].state \in ActiveStates
          /\ "session_resume" \in Negotiated(o)
          /\ TokenCurrent(sessions[o], ycall[c].token)
       THEN /\ sessions' = [sessions EXCEPT ![o].token = @ + 1]
            /\ Told(o, <<[says |-> "resumed", token |-> ycall[c].token]>>)
            /\ ycall' = [ycall EXCEPT ![c] = [step |-> "reply", at |-> o, token |-> sessions[o].token + 1]]
       ELSE GwEnd(c) /\ UNCHANGED <<sessions, audit>>
    /\ UNCHANGED <<runtime, allowed, card, requests, known, ybudget>>

\* cancel, close and fail: _terminate, a repeated call changes nothing.
Terminate(c, o, target) ==
    /\ sessions[o] # NoSession
    /\ GwCall(c, [step |-> "terminate", at |-> o, target |-> target])

Terminates(c) ==
    LET o == ycall[c].at IN
    /\ ycall[c].step = "terminate"
    /\ IF sessions[o].state \in ActiveStates
       THEN /\ sessions' = [sessions EXCEPT ![o].state = ycall[c].target]
            /\ Told(o, <<[says |-> ycall[c].target]>>)
       ELSE UNCHANGED <<sessions, audit>>
    /\ GwEnd(c)
    /\ UNCHANGED <<runtime, allowed, card, requests, known, ybudget>>

-----------------------------------------------------------------------------
\* project_agent_card: the id does not cover the authentication, so a card
\* with another one collides.
ProjectCard(c, t) ==
    /\ ycall[c] = GwIdle /\ ybudget.calls < MaxGatewayCalls
    /\ card' = IF card = "none" THEN t ELSE card
    /\ ybudget' = [ybudget EXCEPT !.calls = @ + 1]
    /\ UNCHANGED <<runtime, allowed, sessions, requests, audit, known, ycall>>

\* submit: the card is registered with this authentication; then a request
\* seen before answers with what is on record, whatever became of it.
Submit(c, t, r) ==
    /\ card = t
    /\ GwCall(c, [step |-> "submit", at |-> r])

Quarantine(c) ==
    LET r == ycall[c].at IN
    /\ ycall[c].step = "submit"
    /\ IF requests[r] = NoRequest
       THEN /\ requests' = [requests EXCEPT ![r] = [state |-> "quarantined", proposed |-> TRUE]]
            /\ Told(r, <<[says |-> "quarantined"]>>)
       ELSE UNCHANGED <<requests, audit>>
    /\ GwEnd(c)
    /\ UNCHANGED <<runtime, allowed, sessions, card, known, ybudget>>

CancelTask(c, r) ==
    /\ requests[r] # NoRequest
    /\ GwCall(c, [step |-> "cancel", at |-> r])

Cancels(c) ==
    LET r == ycall[c].at IN
    /\ ycall[c].step = "cancel"
    /\ IF requests[r].state = "quarantined"
       THEN /\ requests' = [requests EXCEPT ![r].state = "cancelled"]
            /\ Told(r, <<[says |-> "cancelled"]>>)
       ELSE UNCHANGED <<requests, audit>>
    /\ GwEnd(c)
    /\ UNCHANGED <<runtime, allowed, sessions, card, known, ybudget>>

\* A call that dies before its transaction, or before its reply.
GatewayDies(c) ==
    /\ ycall[c] # GwIdle
    /\ ybudget.deaths < MaxDeaths
    /\ ybudget' = [ybudget EXCEPT !.deaths = @ + 1]
    /\ GwEnd(c)
    /\ UNCHANGED <<runtime, allowed, sessions, card, requests, audit, known>>

GatewayNext ==
    \/ RuntimeEnds \/ AuthorityRevoked
    \/ \E c \in Callers :
        \/ \E o \in Offers :
            \/ Initialize(c, o)
            \/ \E type \in EventTypes, n \in 1..(sessions[o].last + 2) : Arrives(c, o, type, n)
            \/ \E t \in known[o] : ResumeSession(c, o, t)
            \/ \E target \in OverStates : Terminate(c, o, target)
        \/ \E t \in Tokens : ProjectCard(c, t) \/ \E r \in RequestIds : Submit(c, t, r)
        \/ \E r \in RequestIds : CancelTask(c, r)
        \/ OpenSession(c) \/ Reply(c) \/ AcceptEvent(c) \/ Resumes(c) \/ Terminates(c)
        \/ Quarantine(c) \/ Cancels(c) \/ GatewayDies(c)

-----------------------------------------------------------------------------
\* The places in a stream where one of these words is said.
Saying(stream, words) == {i \in DOMAIN stream : stream[i].says \in words}

\* The numbers said at some places count from 1 to last, each once and in turn.
CountedTo(numbers, last) ==
    /\ \A i \in DOMAIN numbers : numbers[i] \in 1..last
    /\ \A k \in 1..last : \E i \in DOMAIN numbers : numbers[i] = k
    /\ \A i, j \in DOMAIN numbers : i < j => numbers[i] < numbers[j]

\* A session was initialized once; its events are numbered without a gap or a
\* repetition and end at its last sequence; every resume used the token the
\* resume before it issued; nothing follows the end; and the state on record
\* is the last one the stream says.
SessionTold(session, stream) ==
    /\ session.state = "none" <=> stream = << >>
    /\ stream # << >> =>
        LET changes == Saying(stream, {"streaming"} \cup OverStates)
            numbers == [i \in Saying(stream, {"event"}) |-> stream[i].number]
            tokens == [i \in Saying(stream, {"resumed"}) |-> stream[i].token] IN
        /\ Saying(stream, {"initialized"}) = {1}
        /\ CountedTo(numbers, session.last)
        /\ session.token > 0 /\ CountedTo(tokens, session.token - 1)
        /\ Saying(stream, OverStates) \subseteq {Len(stream)}
        /\ IF changes = {} THEN session.state = "ready"
           ELSE \E i \in changes : stream[i].says = session.state /\ \A j \in changes : j <= i

\* A request was quarantined once, and cancelled once or not at all, with its
\* proposal.
RequestTold(request, stream) ==
    /\ stream = CASE request.state = "none" -> << >>
                  [] request.state = "quarantined" -> <<[says |-> "quarantined"]>>
                  [] OTHER -> <<[says |-> "quarantined"], [says |-> "cancelled"]>>
    /\ request.proposed = (request # NoRequest)

\* The audit streams tell everything (append_event in every transaction of the
\* gateways), although calls overlap and die: what the records of sessions and
\* requests are is what their streams say, entry by entry.
StreamsTellAll ==
    /\ \A o \in Offers : SessionTold(sessions[o], audit[o])
    /\ \A r \in RequestIds : RequestTold(requests[r], audit[r])

\* A session that was not opened is blank; with this StreamsTellAll is inductive.
GatewayInv ==
    /\ GatewayTypeOK /\ StreamsTellAll
    /\ \A o \in Offers : sessions[o].state = "none" => sessions[o] = NoSession
=============================================================================
