---------------------------- MODULE Notifications ----------------------------
(* The notification inbox (notifications/service.py) over the platform      *)
(* record store, for one deduplication key: concurrent producers and        *)
(* readers who acknowledge and resolve.                                     *)
EXTENDS PlatformStore, Sequences, FiniteSetsExt

CONSTANTS Notices,      \* notification ids, one for each origin event
          Severities,   \* a set of numbers: _max_severity takes the larger
          MaxNotices    \* bound of a behaviour

ASSUME NotificationAssumption == Severities \subseteq Nat

VARIABLES inbox,     \* heads of the notification records
          pointer,   \* head of the notification_dedup record
          ncall,     \* the call each caller is in
          nbudget,   \* bounds: calls made, calls that died
          emitted    \* history: severities of the emits recorded in a notice

nvars == <<inbox, pointer, ncall, nbudget, emitted>>

NoticeStates == {"unread", "read", "acknowledged", "resolved"}
Unmade == [rev |-> 0, state |-> "none", count |-> 0, severity |-> 0]
Vacant == [op |-> "none"]

NoticeHeads == [rev : Nat, state : NoticeStates \cup {"none"}, count : Nat, severity : Severities \cup {0}]
DedupHeads == [rev : Nat, state : {"none", "active", "released"}, to : Notices \cup {"none"}]

\* What a call remembers: the notice it is about, and the heads it read.
EmitCalls == [op : {"emit"}, step : {"target", "release", "bump", "create", "look", "point"}, notice : Notices,
              severity : Severities, pointer : DedupHeads, prior : NoticeHeads]
TransitionCalls == [op : NoticeStates, step : {"write", "look", "point"}, notice : Notices,
                    prior : NoticeHeads, pointer : DedupHeads]

NotificationTypeOK ==
    /\ inbox \in [Notices -> NoticeHeads]
    /\ pointer \in DedupHeads
    /\ ncall \in [Callers -> EmitCalls \cup TransitionCalls \cup {Vacant}]
    /\ emitted \in [Notices -> Seq(Severities)]

NotificationInit ==
    /\ inbox = [n \in Notices |-> Unmade]
    /\ pointer = [rev |-> 0, state |-> "none", to |-> "none"]
    /\ ncall = [c \in Callers |-> Vacant]
    /\ nbudget = [calls |-> 0, deaths |-> 0]
    /\ emitted = [n \in Notices |-> <<>>]

-----------------------------------------------------------------------------
Hang(c) == ncall' = [ncall EXCEPT ![c] = Vacant]

Ask(c, rec) ==
    /\ ncall[c] = Vacant
    /\ nbudget.calls < MaxNotices
    /\ nbudget' = [nbudget EXCEPT !.calls = @ + 1]
    /\ ncall' = [ncall EXCEPT ![c] = rec]
    /\ UNCHANGED <<inbox, pointer, emitted>>

-----------------------------------------------------------------------------
(* Inbox                                                                   *)

\* emit reads the deduplication pointer first.
Emit(c, n, s) ==
    Ask(c, [op |-> "emit", step |-> IF pointer.state = "active" THEN "target" ELSE "create",
            notice |-> n, severity |-> s, pointer |-> pointer, prior |-> Unmade])

\* _bump_unresolved reads the notice the pointer names; a resolved one
\* releases the pointer and a new notice is made.
ReadTarget(c) ==
    /\ ncall[c] # Vacant /\ ncall[c].op = "emit" /\ ncall[c].step = "target"
    /\ LET prior == inbox[ncall[c].pointer.to]
       IN ncall' = [ncall EXCEPT ![c].prior = prior,
                      ![c].step = IF prior.state = "resolved" THEN "release" ELSE "bump"]
    /\ UNCHANGED <<inbox, pointer, nbudget, emitted>>

ReleaseStale(c) ==
    /\ ncall[c] # Vacant /\ ncall[c].op = "emit" /\ ncall[c].step = "release"
    /\ IF HeadUnmoved(pointer, ncall[c].pointer.rev)
       THEN pointer' = Appended(pointer, [ncall[c].pointer EXCEPT !.state = "released"])
            /\ ncall' = [ncall EXCEPT ![c].step = "create"]
       ELSE Hang(c) /\ UNCHANGED pointer
    /\ UNCHANGED <<inbox, nbudget, emitted>>

\* The count and the severity a repeated emit leaves.
RepeatedUncounted(prior, s) == [prior EXCEPT !.severity = s]
Repeated(prior, s) == [prior EXCEPT !.count = @ + 1, !.severity = IF s > @ THEN s ELSE @]

Repeat(c) ==
    /\ ncall[c] # Vacant /\ ncall[c].op = "emit" /\ ncall[c].step = "bump"
    /\ LET n == ncall[c].pointer.to
           prior == ncall[c].prior
       IN IF HeadUnmoved(inbox[n], prior.rev)
          THEN /\ inbox' = [inbox EXCEPT ![n] = Appended(@, Repeated(prior, ncall[c].severity))]
               /\ emitted' = [emitted EXCEPT ![n] = Append(@, ncall[c].severity)]
          ELSE UNCHANGED <<inbox, emitted>>
    /\ Hang(c)
    /\ UNCHANGED <<pointer, nbudget>>

\* A notice with the same identity answers the call.
Make(c) ==
    /\ ncall[c] # Vacant /\ ncall[c].op = "emit" /\ ncall[c].step = "create"
    /\ LET n == ncall[c].notice
       IN IF inbox[n].rev = 0
          THEN /\ inbox' = [inbox EXCEPT ![n] = [rev |-> 1, state |-> "unread", count |-> 1,
                                                 severity |-> ncall[c].severity]]
               /\ emitted' = [emitted EXCEPT ![n] = <<ncall[c].severity>>]
               /\ ncall' = [ncall EXCEPT ![c].step = "look"]
          ELSE Hang(c) /\ UNCHANGED <<inbox, emitted>>
    /\ UNCHANGED <<pointer, nbudget>>

\* _point_dedup and _release_dedup read the pointer again before they append.
LookAtPointer(c) ==
    /\ ncall[c] # Vacant /\ ncall[c].op \in {"emit", "resolved"} /\ ncall[c].step = "look"
    /\ IF ncall[c].op = "resolved" /\ ~(pointer.state = "active" /\ pointer.to = ncall[c].notice)
       THEN Hang(c)
       ELSE ncall' = [ncall EXCEPT ![c].step = "point", ![c].pointer = pointer]
    /\ UNCHANGED <<inbox, pointer, nbudget, emitted>>

Point(c) ==
    /\ ncall[c] # Vacant /\ ncall[c].op \in {"emit", "resolved"} /\ ncall[c].step = "point"
    /\ pointer' = IF HeadUnmoved(pointer, ncall[c].pointer.rev)
                  THEN [rev |-> pointer.rev + 1, to |-> ncall[c].notice,
                        state |-> IF ncall[c].op = "emit" THEN "active" ELSE "released"]
                  ELSE pointer
    /\ Hang(c)
    /\ UNCHANGED <<inbox, nbudget, emitted>>

Rank == [none |-> 0, unread |-> 1, read |-> 2, acknowledged |-> 3, resolved |-> 4]

\* transition: forward only.
Transition(c, n, state) ==
    /\ inbox[n].rev > 0 /\ Rank[inbox[n].state] < Rank[state]
    /\ Ask(c, [op |-> state, step |-> "write", notice |-> n, prior |-> inbox[n],
               pointer |-> pointer])

WriteTransition(c) ==
    /\ ncall[c] # Vacant /\ ncall[c].op \in NoticeStates /\ ncall[c].step = "write"
    /\ LET n == ncall[c].notice
       IN IF HeadUnmoved(inbox[n], ncall[c].prior.rev)
          THEN /\ inbox' = [inbox EXCEPT ![n] = Appended(@, [ncall[c].prior EXCEPT !.state = ncall[c].op])]
               /\ IF ncall[c].op = "resolved"
                  THEN ncall' = [ncall EXCEPT ![c].step = "look"] ELSE Hang(c)
          ELSE Hang(c) /\ UNCHANGED inbox
    /\ UNCHANGED <<pointer, nbudget, emitted>>

ProducerDies(c) ==
    /\ ncall[c] # Vacant
    /\ nbudget.deaths < MaxDeaths
    /\ nbudget' = [nbudget EXCEPT !.deaths = @ + 1]
    /\ Hang(c)
    /\ UNCHANGED <<inbox, pointer, emitted>>

InboxNext ==
    \E c \in Callers :
       \/ \E n \in Notices : \/ \E s \in Severities : Emit(c, n, s)
                             \/ \E state \in NoticeStates : Transition(c, n, state)
       \/ ReadTarget(c) \/ ReleaseStale(c) \/ Repeat(c) \/ Make(c) \/ LookAtPointer(c)
       \/ Point(c) \/ WriteTransition(c) \/ ProducerDies(c)

-----------------------------------------------------------------------------
\* A notice counts every emit that was recorded in it and shows the worst of
\* their severities, although emits, readers and resolvers write it at once.
EmitsCounted ==
    \A n \in Notices : inbox[n].rev > 0 =>
       /\ inbox[n].count = Len(emitted[n])
       /\ inbox[n].severity = Max({emitted[n][i] : i \in DOMAIN emitted[n]})

\* The count and the severity of a notice, made or not, sum up its emits.
SumsUp(notice, emits) ==
    /\ notice.rev > 0 <=> Len(emits) > 0
    /\ notice.count = Len(emits)
    /\ \A i \in DOMAIN emits : emits[i] <= notice.severity
    /\ IF Len(emits) = 0 THEN notice.severity = 0 ELSE \E i \in DOMAIN emits : emits[i] = notice.severity

\* What the steps of a call rest on: an active pointer names a notice, and
\* the notice it will write is the one it read.
InboxCallStands(call) ==
    /\ call.step \in {"target", "release", "bump"} => call.pointer.to \in Notices
    /\ call.step = "bump" => Remembers(call.prior, inbox[call.pointer.to])
    /\ call.step = "write" => call.prior.rev > 0 /\ Remembers(call.prior, inbox[call.notice])

\* The inductive invariant behind EmitsCounted.
InboxInv ==
    /\ NotificationTypeOK
    /\ \A n \in Notices : SumsUp(inbox[n], emitted[n])
    /\ pointer.state = "active" => pointer.to \in Notices
    /\ \A c \in Callers : ncall[c] # Vacant => InboxCallStands(ncall[c])
=============================================================================
