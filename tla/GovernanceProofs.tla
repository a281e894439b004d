--------------------------- MODULE GovernanceProofs ---------------------------
(* What governance promises whatever calls overlap and die.                 *)
EXTENDS RecordsProofs

-----------------------------------------------------------------------------
(* MCP governance                                                           *)

\* Every operation leads to a later state; a blocked revision may be blocked again.
LEMMA StatesForward ==
    ASSUME NEW to \in DOMAIN Governs, NEW s \in Governs[to]
    PROVE  /\ to \in DOMAIN StateOrder /\ to \notin {"none", "discovered", "quarantined"}
           /\ s \in DOMAIN StateOrder /\ s # "none"
           /\ StateOrder[s] < StateOrder[to] \/ (s = "blocked" /\ to = "blocked")
           /\ to \in {"degraded", "disabled"} => s \in {"enabled", "degraded"}
           /\ to \in {"validated", "approved", "enabled"} => s \in {"discovered", "validated", "approved"}
<1>1. DOMAIN Governs = {"validated", "approved", "enabled", "degraded", "disabled", "blocked"}
  BY DEF Governs
<1>2. DOMAIN StateOrder = {"none", "discovered", "quarantined", "validated", "approved", "enabled", "degraded", "disabled", "blocked"}
  BY DEF StateOrder
<1>3. CASE to = "blocked"
  BY <1>2, <1>3 DEF Governs, StateOrder
<1>4. CASE to # "blocked"
  BY <1>1, <1>2, <1>4 DEF Governs, StateOrder
<1>. QED  BY <1>3, <1>4

\* What an append leaves of the record it is given.
LEMMA AppendedListing ==
    ASSUME NEW head \in Listings, NEW new \in Listings
    PROVE  /\ Appended(head, new) \in Listings
           /\ Appended(head, new).rev = head.rev + 1
           /\ Appended(head, new).state = new.state
           /\ Appended(head, new).approval = new.approval
BY DEF Appended, Listings

\* Servers and policies that are appended to keep their shape.
LEMMA AppendedShape ==
    /\ \A head, new \in Servers : Appended(head, new) \in Servers
    /\ \A head, new \in Policies : Appended(head, new) \in Policies
BY DEF Appended, Servers, Policies

\* Nothing is listed and nobody calls.
LEMMA McpInvInit == McpInit => McpInv
<1>1. Unlisted \in Listings
  BY DEF Unlisted, Listings, StateOrder
<1>. QED  BY <1>1 DEF McpInit, McpInv, McpTypeOK, Earned, Unlisted, Servers, Policies

\* A step that lets the catalog be keeps the invariant when the call it leaves is grounded.
LEMMA McpCallMoves ==
    ASSUME McpInv, NEW c \in Callers, NEW call \in GovernCalls \cup {Silent},
           gcall' = [gcall EXCEPT ![c] = call], call # Silent => Grounded(call),
           UNCHANGED catalog, server' \in Servers, policies' \in [Definitions -> Policies],
           invoked' \subseteq Definitions
    PROVE  McpInv'
BY DEF McpInv, McpTypeOK, Earned, Grounded, Remembers

\* A step that appends to the catalog and ends its call keeps it when the
\* listing was earned and no approval is lost.
LEMMA McpListingMoves ==
    ASSUME McpInv, NEW c \in Callers, NEW d \in Definitions, NEW new \in Listings,
           Close(c), catalog' = [catalog EXCEPT ![d] = new], new.rev = catalog[d].rev + 1,
           Earned(d, new), catalog[d].approval => new.approval,
           UNCHANGED <<server, policies, invoked>>
    PROVE  McpInv'
<1>1. McpTypeOK' /\ \A e \in Definitions : Earned(e, catalog'[e])
  BY DEF McpInv, McpTypeOK, Close
<1>2. ASSUME NEW b \in Callers, gcall'[b] # Silent PROVE Grounded(gcall[b])'
  <2>1. gcall'[b] = gcall[b] /\ gcall[b] # Silent /\ gcall[b] \in GovernCalls /\ Grounded(gcall[b])
    BY <1>2 DEF McpInv, McpTypeOK, Close
  <2>2. CASE gcall[b].def = d
    <3>1. gcall[b].prior.rev \in Nat /\ catalog[d].rev \in Nat
      BY <2>1 DEF GovernCalls, Listings, McpInv, McpTypeOK
    <3>2. catalog'[d] = new
      BY DEF McpInv, McpTypeOK
    <3>. QED  BY <2>1, <2>2, <3>1, <3>2 DEF Grounded, Remembers
  <2>3. CASE gcall[b].def # d
    <3>1. gcall[b].def \in Definitions
      BY <2>1 DEF GovernCalls
    <3>2. catalog'[gcall[b].def] = catalog[gcall[b].def]
      BY <2>3, <3>1 DEF McpInv, McpTypeOK
    <3>. QED  BY <2>1, <3>2 DEF Grounded, Remembers
  <2>. QED  BY <2>2, <2>3
<1>. QED  BY <1>1, <1>2 DEF McpInv, Earned

\* A call that begins remembers the heads as they are.
LEMMA McpCallBegins ==
    ASSUME McpInv, NEW c \in Callers, NEW op \in {"discover", "policy", "invoke"} \cup DOMAIN Governs,
           NEW d \in Definitions, NEW step \in {"server", "pin", "append", "state"},
           op \in DOMAIN Governs => catalog[d].state \in Governs[op], op = "enabled" => catalog[d].approval,
           GovernCall(c, op, d, step)
    PROVE  McpInv'
<1> DEFINE call == [op |-> op, def |-> d, step |-> step, prior |-> catalog[d], server |-> server, policy |-> policies[d]]
<1>1. op \in {"discover", "policy", "invoke"} \cup DOMAIN StateOrder
  BY DEF Governs, StateOrder
<1>2. call \in GovernCalls
  BY <1>1 DEF McpInv, McpTypeOK, GovernCalls
<1>3. Grounded(call)
  BY DEF Grounded, Remembers, McpInv, McpTypeOK, Listings
<1>. QED  BY <1>2, <1>3, McpCallMoves DEF GovernCall, McpInv, McpTypeOK

\* What a governing call appends: the next state, the approval kept or given.
LEMMA GovernedListing ==
    ASSUME McpInv, NEW c \in Callers, gcall[c] # Silent, gcall[c].op \in DOMAIN Governs,
           HeadUnmoved(catalog[gcall[c].def], gcall[c].prior.rev),
           NEW new, new = Appended(catalog[gcall[c].def],
                                   [gcall[c].prior EXCEPT !.state = gcall[c].op, !.approval = @ \/ gcall[c].op = "approved"])
    PROVE  /\ new \in Listings /\ gcall[c].def \in Definitions
           /\ new.rev = catalog[gcall[c].def].rev + 1 /\ new.state = gcall[c].op
           /\ catalog[gcall[c].def].approval => new.approval
           /\ catalog[gcall[c].def].state \in Governs[gcall[c].op]
           /\ Earned(gcall[c].def, new)
<1> DEFINE d == gcall[c].def  to == gcall[c].op  old == catalog[d]
<1>1. d \in Definitions /\ Grounded(gcall[c]) /\ old \in Listings /\ Earned(d, old) /\ gcall[c].prior = old
  BY DEF McpInv, McpTypeOK, GovernCalls, Grounded, Remembers, HeadUnmoved
<1>2. old.state \in Governs[to] /\ (to = "enabled" => old.approval)
  BY <1>1 DEF Grounded, Remembers
<1>3. new = [old EXCEPT !.state = to, !.approval = @ \/ to = "approved", !.rev = old.rev + 1]
  BY <1>1 DEF Appended, Listings
<1> HIDE DEF d, to, old
<1>4. to \in DOMAIN StateOrder
  BY <1>2, StatesForward DEF to
<1>5. /\ new \in Listings /\ new.rev = old.rev + 1 /\ new.state = to
      /\ new.approval = (old.approval \/ to = "approved")
  <2> DEFINE given == old.approval \/ to = "approved"
  <2>1. given \in BOOLEAN /\ new = [old EXCEPT !.state = to, !.approval = given, !.rev = old.rev + 1]
    BY <1>3
  <2> HIDE DEF given
  <2>2. old \in Listings /\ to \in DOMAIN StateOrder /\ given \in BOOLEAN
    BY <1>1, <1>4, <2>1
  <2>3. new = [rev |-> old.rev + 1, state |-> to, approval |-> given]
    BY <2>1, <2>2 DEF Listings
  <2>4. new \in Listings /\ new.rev = old.rev + 1 /\ new.state = to /\ new.approval = given
    BY <2>2, <2>3 DEF Listings
  <2>. QED  BY <2>4 DEF given
<1>6. Earned(d, new)
  BY <1>1, <1>2, <1>5, StatesForward DEF Earned, to, Listings
<1>. QED  BY <1>1, <1>2, <1>5, <1>6 DEF d, to, old

\* Every step of the governance service keeps the invariant and moves revisions forward only.
LEMMA McpInvStep ==
    ASSUME McpInv, [McpNext]_gvars
    PROVE  /\ McpInv'
           /\ \A d \in Definitions : catalog'[d] # catalog[d] =>
                 \/ StateOrder[catalog[d].state] < StateOrder[catalog'[d].state]
                 \/ catalog[d].state = "blocked" /\ catalog'[d].state = "blocked"
           /\ \A d \in invoked' \ invoked : catalog[d].approval /\ d \notin Suspect
<1> DEFINE Forward == \A d \in Definitions : catalog'[d] # catalog[d] =>
                         \/ StateOrder[catalog[d].state] < StateOrder[catalog'[d].state]
                         \/ catalog[d].state = "blocked" /\ catalog'[d].state = "blocked"
           Ran == \A d \in invoked' \ invoked : catalog[d].approval /\ d \notin Suspect
<1>0. /\ McpTypeOK /\ \A d \in Definitions : Earned(d, catalog[d])
      /\ \A c \in Callers : gcall[c] # Silent => gcall[c] \in GovernCalls /\ Grounded(gcall[c])
      /\ Silent \in GovernCalls \cup {Silent}
  BY DEF McpInv, McpTypeOK
<1>1. CASE UNCHANGED gvars
  BY <1>0, <1>1 DEF gvars, McpInv, McpTypeOK, Earned, Grounded, Remembers
<1>2. ASSUME NEW c \in Callers, NEW d \in Definitions, Discover(c, d) \/ SetPolicy(c, d) \/ Invoke(c, d)
      PROVE  McpInv' /\ Forward /\ Ran
  <2>1. UNCHANGED <<catalog, invoked>>
    BY <1>2 DEF Discover, SetPolicy, Invoke, GovernCall
  <2>2. {"discover", "policy", "invoke"} \cap DOMAIN Governs = {}
    BY DEF Governs
  <2>3. McpInv'
    BY <1>2, <2>2, McpCallBegins DEF Discover, SetPolicy, Invoke
  <2>. QED  BY <2>1, <2>3
<1>3. ASSUME NEW c \in Callers, NEW d \in Definitions, NEW to \in DOMAIN Governs, Govern(c, d, to)
      PROVE  McpInv' /\ Forward /\ Ran
  <2>1. UNCHANGED <<catalog, invoked>>
    BY <1>3 DEF Govern, GovernCall
  <2>2. McpInv'
    BY <1>3, McpCallBegins DEF Govern
  <2>. QED  BY <2>1, <2>2
<1>4. ASSUME NEW c \in Callers, DiscoverServer(c) PROVE McpInv' /\ Forward /\ Ran
  <2>0. gcall[c] \in GovernCalls /\ Grounded(gcall[c]) /\ UNCHANGED <<catalog, policies, invoked>>
    BY <1>0, <1>4 DEF DiscoverServer
  <2>1. CASE Close(c) /\ UNCHANGED server
    BY <1>0, <2>0, <2>1, McpCallMoves DEF Close, McpTypeOK
  <2>2. CASE /\ server' = Appended(server, [server EXCEPT !.def = gcall[c].def])
             /\ gcall' = [gcall EXCEPT ![c].step = "revision"]
    <3>1. server' \in Servers
      <4>1. server \in Servers /\ gcall[c].def \in Definitions
        BY <1>0, <2>0 DEF McpTypeOK, GovernCalls
      <4>2. [server EXCEPT !.def = gcall[c].def] \in Servers
        BY <4>1 DEF Servers
      <4>. QED  BY <2>2, <4>1, <4>2, AppendedShape
    <3> DEFINE call == [gcall[c] EXCEPT !.step = "revision"]
    <3>2. call \in GovernCalls /\ Grounded(call) /\ gcall' = [gcall EXCEPT ![c] = call]
      BY <1>0, <2>0, <2>2 DEF GovernCalls, Grounded, Remembers, McpTypeOK
    <3>. QED  BY <1>0, <2>0, <3>1, <3>2, McpCallMoves DEF McpTypeOK
  <2>. QED  BY <1>4, <2>1, <2>2 DEF DiscoverServer
<1>5. ASSUME NEW c \in Callers, DiscoverRevision(c) PROVE McpInv' /\ Forward /\ Ran
  <2> DEFINE d == gcall[c].def
             found == IF d \in Suspect THEN "quarantined" ELSE "discovered"
             start == [Unlisted EXCEPT !.state = found]
             new == Appended(catalog[d], start)
  <2>0. gcall[c] \in GovernCalls /\ d \in Definitions /\ Close(c) /\ UNCHANGED <<server, policies, invoked>>
    BY <1>0, <1>5 DEF DiscoverRevision, GovernCalls
  <2>1. CASE catalog[d].rev = 0
    <3>1. catalog[d] = Unlisted
      BY <1>0, <2>0, <2>1 DEF Earned
    <3>2. catalog' = [catalog EXCEPT ![d] = new]
      BY <1>5, <2>1 DEF DiscoverRevision, HeadUnmoved
    <3>3. found \in {"quarantined", "discovered"} /\ (found = "discovered" => d \notin Suspect)
      OBVIOUS
    <3> HIDE DEF found
    <3>a. Unlisted \in Listings /\ ~Unlisted.approval /\ Unlisted.state = "none" /\ found \in DOMAIN StateOrder
      BY <3>3 DEF Unlisted, Listings, StateOrder
    <3>b. start \in Listings /\ start.state = found
      BY <3>a DEF Listings
    <3> HIDE DEF start
    <3>c. new \in Listings /\ new.rev = catalog[d].rev + 1 /\ new.state = found
      BY <3>1, <3>a, <3>b, AppendedListing
    <3> HIDE DEF new
    <3>4. Earned(d, new) /\ ~catalog[d].approval
      BY <2>1, <3>1, <3>3, <3>a, <3>c DEF Earned
    <3>5. McpInv'
      BY <2>0, <3>2, <3>c, <3>4, McpListingMoves
    <3>6. StateOrder["none"] < StateOrder[found]
      BY <3>3 DEF StateOrder
    <3>7. \A e \in Definitions : e # d => catalog'[e] = catalog[e]
      BY <1>0, <3>2 DEF McpTypeOK
    <3>8. catalog'[d].state = found /\ catalog[d].state = "none"
      BY <1>0, <2>0, <3>1, <3>2, <3>a, <3>c DEF McpTypeOK
    <3>. QED  BY <2>0, <3>5, <3>6, <3>7, <3>8
  <2>2. CASE catalog[d].rev # 0
    <3>1. UNCHANGED catalog
      BY <1>5, <2>2 DEF DiscoverRevision, HeadUnmoved
    <3>. QED  BY <1>0, <2>0, <3>1, McpCallMoves DEF Close, McpTypeOK
  <2>. QED  BY <2>1, <2>2
<1>6. ASSUME NEW c \in Callers, CheckPin(c) PROVE McpInv' /\ Forward /\ Ran
  <2>0. gcall[c] \in GovernCalls /\ Grounded(gcall[c]) /\ UNCHANGED <<server, catalog, policies, invoked>>
    BY <1>0, <1>6 DEF CheckPin
  <2>1. CASE Close(c)
    BY <1>0, <2>0, <2>1, McpCallMoves DEF Close, McpTypeOK
  <2>2. CASE gcall' = [gcall EXCEPT ![c].step = "append", ![c].policy = policies[gcall[c].def]]
    <3> DEFINE call == [gcall[c] EXCEPT !.step = "append", !.policy = policies[gcall[c].def]]
    <3>1. policies[gcall[c].def] \in Policies
      BY <1>0, <2>0 DEF McpTypeOK, GovernCalls
    <3>2. call \in GovernCalls /\ Grounded(call) /\ gcall' = [gcall EXCEPT ![c] = call]
      BY <1>0, <2>0, <2>2, <3>1 DEF GovernCalls, Grounded, Remembers, McpTypeOK
    <3>. QED  BY <1>0, <2>0, <3>2, McpCallMoves DEF McpTypeOK
  <2>. QED  BY <1>6, <2>1, <2>2 DEF CheckPin
<1>7. ASSUME NEW c \in Callers, GovernAppends(c) PROVE McpInv' /\ Forward /\ Ran
  <2> DEFINE d == gcall[c].def
             new == Appended(catalog[d], [gcall[c].prior EXCEPT !.state = gcall[c].op, !.approval = @ \/ gcall[c].op = "approved"])
  <2>0. gcall[c] # Silent /\ gcall[c].op \in DOMAIN Governs /\ Close(c) /\ UNCHANGED <<server, policies, invoked>>
    BY <1>7 DEF GovernAppends
  <2>1. CASE HeadUnmoved(catalog[d], gcall[c].prior.rev)
    <3>1. catalog' = [catalog EXCEPT ![d] = new]
      BY <1>7, <2>1 DEF GovernAppends
    <3>2. PICK listing : listing = new
      OBVIOUS
    <3>3. /\ listing \in Listings /\ d \in Definitions /\ Earned(d, listing)
          /\ listing.rev = catalog[d].rev + 1 /\ listing.state = gcall[c].op
          /\ catalog[d].approval => listing.approval
          /\ catalog[d].state \in Governs[gcall[c].op]
      BY <2>0, <2>1, <3>2, GovernedListing
    <3>4. catalog' = [catalog EXCEPT ![d] = listing]
      BY <3>1, <3>2
    <3>5. McpInv'
      BY <2>0, <3>3, <3>4, McpListingMoves
    <3>6. \/ StateOrder[catalog[d].state] < StateOrder[listing.state]
          \/ catalog[d].state = "blocked" /\ listing.state = "blocked"
      BY <2>0, <3>3, StatesForward
    <3>7. catalog'[d] = listing /\ \A e \in Definitions : e # d => catalog'[e] = catalog[e]
      BY <1>0, <3>3, <3>4 DEF McpTypeOK
    <3>. QED  BY <2>0, <3>5, <3>6, <3>7
  <2>2. CASE ~HeadUnmoved(catalog[d], gcall[c].prior.rev)
    <3>1. UNCHANGED catalog
      BY <1>7, <2>2 DEF GovernAppends
    <3>. QED  BY <1>0, <2>0, <3>1, McpCallMoves DEF Close, McpTypeOK
  <2>. QED  BY <2>1, <2>2
<1>8. ASSUME NEW c \in Callers, PolicyAppends(c) PROVE McpInv' /\ Forward /\ Ran
  <2> DEFINE d == gcall[c].def
  <2>0. d \in Definitions /\ Close(c) /\ UNCHANGED <<server, catalog, invoked>>
    BY <1>0, <1>8 DEF PolicyAppends, GovernCalls
  <2>1. policies' \in [Definitions -> Policies]
    <3>1. PICK callable \in BOOLEAN :
             \/ policies' = policies
             \/ policies' = [policies EXCEPT ![d] = Appended(@, [@ EXCEPT !.callable = callable])]
      BY <1>8 DEF PolicyAppends
    <3>2. policies[d] \in Policies /\ policies \in [Definitions -> Policies]
      BY <1>0, <2>0 DEF McpTypeOK
    <3>3. Appended(policies[d], [policies[d] EXCEPT !.callable = callable]) \in Policies
      <4>1. [policies[d] EXCEPT !.callable = callable] \in Policies
        BY <3>1, <3>2 DEF Policies
      <4>. QED  BY <3>2, <4>1, AppendedShape
    <3>. QED  BY <3>1, <3>2, <3>3
  <2>. QED  BY <1>0, <2>0, <2>1, McpCallMoves DEF Close, McpTypeOK
<1>9. ASSUME NEW c \in Callers, InvokeChecks(c) PROVE McpInv' /\ Forward /\ Ran
  <2>0. gcall[c] \in GovernCalls /\ Grounded(gcall[c]) /\ UNCHANGED <<server, catalog, policies, invoked>>
    BY <1>0, <1>9 DEF InvokeChecks
  <2>1. CASE Close(c)
    BY <1>0, <2>0, <2>1, McpCallMoves DEF Close, McpTypeOK
  <2>2. CASE Invocable(gcall[c].def) /\ gcall' = [gcall EXCEPT ![c].step = "run"]
    <3> DEFINE call == [gcall[c] EXCEPT !.step = "run"]
    <3>1. gcall[c].def \in Definitions /\ catalog[gcall[c].def].approval /\ gcall[c].def \notin Suspect
      BY <1>0, <2>0, <2>2 DEF Invocable, Earned, GovernCalls
    <3>2. call \in GovernCalls /\ Grounded(call) /\ gcall' = [gcall EXCEPT ![c] = call]
      BY <1>0, <2>0, <2>2, <3>1 DEF GovernCalls, Grounded, Remembers, McpTypeOK
    <3>. QED  BY <1>0, <2>0, <3>2, McpCallMoves DEF McpTypeOK
  <2>. QED  BY <1>9, <2>1, <2>2 DEF InvokeChecks
<1>10. ASSUME NEW c \in Callers, InvokeRuns(c) PROVE McpInv' /\ Forward /\ Ran
  <2>1. gcall[c] \in GovernCalls /\ Grounded(gcall[c]) /\ gcall[c].step = "run" /\ Close(c)
        /\ UNCHANGED <<server, catalog, policies>>
    BY <1>0, <1>10 DEF InvokeRuns
  <2>2. catalog[gcall[c].def].approval /\ gcall[c].def \notin Suspect /\ gcall[c].def \in Definitions
    BY <2>1 DEF Grounded, Remembers, GovernCalls
  <2>3. invoked' \subseteq Definitions /\ invoked' \subseteq invoked \cup {gcall[c].def}
    BY <1>0, <1>10, <2>2 DEF InvokeRuns, McpTypeOK
  <2>4. McpInv'
    BY <1>0, <2>1, <2>3, McpCallMoves DEF Close, McpTypeOK
  <2>. QED  BY <2>1, <2>2, <2>3, <2>4
<1>11. ASSUME NEW c \in Callers, GovernorDies(c) PROVE McpInv' /\ Forward /\ Ran
  <2>1. Close(c) /\ UNCHANGED <<server, catalog, policies, invoked>>
    BY <1>11 DEF GovernorDies
  <2>. QED  BY <1>0, <2>1, McpCallMoves DEF Close, McpTypeOK
<1>. QED  BY <1>1, <1>2, <1>3, <1>4, <1>5, <1>6, <1>7, <1>8, <1>9, <1>10, <1>11 DEF McpNext

\* The revision state machine is monotonic, and only what was approved and
\* never quarantined is run (McpGovernanceService: validate_revision to
\* block_server, invoke).
THEOREM GovernedRevisionsAdvance == Spec => RevisionsAdvance
<1>1. Init => McpInv
  BY McpInvInit DEF Init
<1>2. McpInv /\ [Next]_vars => McpInv'
  BY McpInvStep, ServiceSteps
<1>3. McpInv /\ [Next]_vars =>
        [/\ \A d \in Definitions : catalog'[d] # catalog[d] =>
              \/ StateOrder[catalog[d].state] < StateOrder[catalog'[d].state]
              \/ catalog[d].state = "blocked" /\ catalog'[d].state = "blocked"
         /\ \A d \in invoked' \ invoked : catalog[d].approval /\ d \notin Suspect]_gvars
  BY McpInvStep, ServiceSteps
<1>. QED  BY <1>1, <1>2, <1>3, PTL DEF Spec, RevisionsAdvance

-----------------------------------------------------------------------------
(* Emergency controls                                                       *)

\* An observation probes an open breaker while its limit lasts and counts
\* that, and counts nothing otherwise.
LEMMA JudgedCounts ==
    ASSUME NEW b \in Breakers, NEW prior \in Breaker, NEW tripped \in BOOLEAN
    PROVE  /\ Judged(b, prior, tripped) \in Breaker
           /\ LET next == Judged(b, prior, tripped)
              IN \/ next.state = "half_open" /\ next.used = prior.used + 1 /\ prior.used < RecoveryLimit(b)
                 \/ next.state # "half_open" /\ next.used = prior.used
<1> DEFINE probe == ~tripped /\ prior.state = "open" /\ prior.used < RecoveryLimit(b)
           latched == prior.state = "open" /\ ~probe
           state == IF tripped \/ latched THEN "open" ELSE IF probe THEN "half_open" ELSE "closed"
           used == IF probe THEN prior.used + 1 ELSE prior.used
<1>1. Judged(b, prior, tripped) = [prior EXCEPT !.state = state, !.used = used]
  BY DEF Judged
<1>2. prior.used \in Nat /\ RecoveryLimit(b) \in Nat
  BY DEF Breaker, RecoveryLimit
<1>3. /\ state \in {"open", "half_open", "closed"} /\ used \in Nat
      /\ \/ state = "half_open" /\ used = prior.used + 1 /\ prior.used < RecoveryLimit(b)
         \/ state # "half_open" /\ used = prior.used
  BY <1>2
<1> HIDE DEF probe, latched, state, used
<1>. QED  BY <1>1, <1>3 DEF Breaker, BreakerStates

\* No stop, no breaker, nobody calls.
LEMMA EmergencyInvInit == EmergencyInit => EmergencyInv
<1> SUFFICES ASSUME EmergencyInit PROVE EmergencyInv
  OBVIOUS
<1>1. NoCall \notin StopCalls /\ NoCall \notin BreakerCalls
  BY DEF NoCall, StopCalls, BreakerCalls
<1>2. EmergencyTypeOK
  BY DEF EmergencyInit, EmergencyTypeOK, Breaker, BreakerStates
<1>3. \A b \in Breakers : probes[b] = breakers[b].used /\ probes[b] <= RecoveryLimit(b)
  BY DEF EmergencyInit, RecoveryLimit
<1>. QED  BY <1>1, <1>2, <1>3 DEF EmergencyInv, EmergencyInit

\* A step that lets stop and breakers be keeps the invariant when the call it
\* leaves remembers them.
LEMMA EmergencyCallMoves ==
    ASSUME EmergencyInv, NEW c \in Callers, NEW call \in StopCalls \cup BreakerCalls \cup {NoCall},
           ecall' = [ecall EXCEPT ![c] = call],
           call \in StopCalls => SeenIsActive(call), call \in BreakerCalls => NextIsJudged(call),
           UNCHANGED <<stop, breakers, probes, approvals>>,
           receipts' \subseteq [scope : {"activate", "recover"}, acts : Requests, key : StopKeys]
    PROVE  EmergencyInv' /\ ~(\E a \in stop.active : a \notin stop'.active)
BY DEF EmergencyInv, EmergencyTypeOK, SeenIsActive, NextIsJudged, RecoveryLimit

\* A call that ends without an append keeps it.
LEMMA EmergencyCallEnds ==
    ASSUME EmergencyInv, NEW c \in Callers, Leave(c), UNCHANGED <<stop, breakers, probes, approvals>>,
           receipts' \subseteq [scope : {"activate", "recover"}, acts : Requests, key : StopKeys]
    PROVE  EmergencyInv' /\ ~(\E a \in stop.active : a \notin stop'.active)
<1>1. NoCall \notin StopCalls /\ NoCall \notin BreakerCalls
  BY DEF NoCall, StopCalls, BreakerCalls
<1>. QED  BY <1>1, EmergencyCallMoves DEF Leave

\* An append to the stop keeps it: no other call can append what it saw.
LEMMA StopMoves ==
    ASSUME EmergencyInv, NEW c \in Callers, NEW call \in StopCalls, call.step = "receipt",
           ecall' = [ecall EXCEPT ![c] = call],
           stop' \in [rev : Nat, active : SUBSET Actions], stop'.rev = stop.rev + 1,
           approvals' \in [Targets -> {"none", "old", "new"}],
           UNCHANGED <<breakers, probes, receipts>>
    PROVE  EmergencyInv'
<1>1. EmergencyTypeOK'
  BY DEF EmergencyInv, EmergencyTypeOK
<1>2. call \notin BreakerCalls
  BY DEF StopCalls, BreakerCalls
<1>3. ASSUME NEW d \in Callers, ecall'[d] \in StopCalls PROVE SeenIsActive(ecall[d])'
  <2>1. CASE d = c
    BY <2>1 DEF EmergencyInv, EmergencyTypeOK, SeenIsActive
  <2>2. CASE d # c
    <3>1. ecall'[d] = ecall[d] /\ SeenIsActive(ecall[d]) /\ ecall[d].rev \in Nat /\ stop.rev \in Nat
      BY <1>3, <2>2 DEF EmergencyInv, EmergencyTypeOK, StopCalls
    <3>. QED  BY <3>1 DEF SeenIsActive
  <2>. QED  BY <2>1, <2>2
<1>4. ASSUME NEW d \in Callers, ecall'[d] \in BreakerCalls PROVE NextIsJudged(ecall[d])'
  <2>1. ecall'[d] = ecall[d] /\ NextIsJudged(ecall[d])
    BY <1>2, <1>4 DEF EmergencyInv, EmergencyTypeOK
  <2>. QED  BY <2>1 DEF NextIsJudged, RecoveryLimit
<1>. QED  BY <1>1, <1>3, <1>4 DEF EmergencyInv, RecoveryLimit

\* An append to a breaker keeps it when its probe is counted.
LEMMA BreakerMoves ==
    ASSUME EmergencyInv, NEW c \in Callers, NEW call \in StopCalls \cup {NoCall},
           ecall' = [ecall EXCEPT ![c] = call], call # NoCall => call.step = "head",
           NEW b \in Breakers, NEW new \in Breaker, NEW n \in Nat,
           breakers' = [breakers EXCEPT ![b] = new], new.rev = breakers[b].rev + 1,
           probes' = [probes EXCEPT ![b] = n], n = new.used, n <= RecoveryLimit(b),
           UNCHANGED <<stop, approvals, receipts>>
    PROVE  EmergencyInv'
<1>1. EmergencyTypeOK'
  BY DEF EmergencyInv, EmergencyTypeOK
<1>2. call \notin BreakerCalls
  BY DEF StopCalls, BreakerCalls, NoCall
<1>3. \A x \in Breakers : (probes[x] = breakers[x].used /\ probes[x] <= RecoveryLimit(x))'
  BY DEF EmergencyInv, EmergencyTypeOK, RecoveryLimit
<1>4. ASSUME NEW d \in Callers, ecall'[d] \in StopCalls PROVE SeenIsActive(ecall[d])'
  <2>1. NoCall \notin StopCalls
    BY DEF NoCall, StopCalls
  <2>. QED  BY <1>4, <2>1 DEF EmergencyInv, EmergencyTypeOK, SeenIsActive
<1>5. ASSUME NEW d \in Callers, ecall'[d] \in BreakerCalls PROVE NextIsJudged(ecall[d])'
  <2>1. ecall'[d] = ecall[d] /\ NextIsJudged(ecall[d]) /\ ecall[d] \in BreakerCalls
    BY <1>2, <1>5 DEF EmergencyInv, EmergencyTypeOK
  <2>2. ecall[d].rev \in Nat /\ ecall[d].target \in Breakers /\ \A x \in Breakers : breakers[x].rev \in Nat
    BY <2>1 DEF EmergencyInv, EmergencyTypeOK, BreakerCalls, Breaker
  <2>3. CASE ecall[d].target = b
    BY <2>1, <2>2, <2>3 DEF NextIsJudged, EmergencyInv, EmergencyTypeOK
  <2>4. CASE ecall[d].target # b
    BY <2>1, <2>2, <2>4 DEF NextIsJudged, EmergencyInv, EmergencyTypeOK, RecoveryLimit
  <2>. QED  BY <2>3, <2>4
<1>. QED  BY <1>1, <1>3, <1>4, <1>5 DEF EmergencyInv

\* Every step of the emergency service keeps the invariant, and takes out of
\* the active set only what a recovery names.
LEMMA EmergencyInvStep ==
    ASSUME EmergencyInv, [EmergencyNext]_evars
    PROVE  /\ EmergencyInv'
           /\ \A a \in stop.active \ stop'.active : \E c \in Callers :
                 /\ ecall[c] # NoCall /\ ecall'[c] # ecall[c]
                 /\ ecall[c].op = "recover" /\ a \in ecall[c].acts
<1> DEFINE Lost == stop.active \ stop'.active
           Named == \A a \in Lost : \E c \in Callers :
                       /\ ecall[c] # NoCall /\ ecall'[c] # ecall[c]
                       /\ ecall[c].op = "recover" /\ a \in ecall[c].acts
           Receipts == [scope : {"activate", "recover"}, acts : Requests, key : StopKeys]
<1>0. EmergencyTypeOK /\ NoCall \notin StopCalls /\ NoCall \notin BreakerCalls
  BY DEF EmergencyInv, NoCall, StopCalls, BreakerCalls
<1>a. receipts \subseteq Receipts /\ stop \in [rev : Nat, active : SUBSET Actions]
  BY <1>0 DEF EmergencyTypeOK
<1>b. \A c \in Callers : ecall[c] # NoCall =>
        \/ ecall[c] \in StopCalls /\ SeenIsActive(ecall[c])
        \/ ecall[c] \in BreakerCalls /\ NextIsJudged(ecall[c])
  BY DEF EmergencyInv, EmergencyTypeOK
<1>1. CASE UNCHANGED evars
  BY <1>0, <1>1 DEF evars, EmergencyInv, EmergencyTypeOK, SeenIsActive, NextIsJudged, RecoveryLimit
<1>2. ASSUME NEW c \in Callers, NEW acts \in Requests, NEW k \in Keys, Activate(c, acts, k) \/ Recover(c, acts, k)
      PROVE  EmergencyInv' /\ Named
  <2>1. PICK op \in {"activate", "recover"} : EmergencyCall(c, StopCall(op, acts, <<"client", k>>, "head"))
    BY <1>2 DEF Activate, Recover
  <2>2. k \in Nat
    BY EmergencyAssumption
  <2>3. StopCall(op, acts, <<"client", k>>, "head") \in StopCalls
    BY <2>2 DEF StopCall, StopCalls, StopKeys
  <2>4. SeenIsActive(StopCall(op, acts, <<"client", k>>, "head"))
    BY DEF StopCall, SeenIsActive
  <2>5. StopCall(op, acts, <<"client", k>>, "head") \notin BreakerCalls
    BY DEF StopCall, BreakerCalls
  <2>. QED  BY <1>a, <2>1, <2>3, <2>4, <2>5, EmergencyCallMoves DEF EmergencyCall
<1>3. ASSUME NEW c \in Callers, NEW b \in Breakers, CloseBreaker(c, b) PROVE EmergencyInv' /\ Named
  <2> DEFINE next == [breakers[b] EXCEPT !.state = "closed", !.used = 0]
             call == [op |-> "close", target |-> b, step |-> "append", rev |-> breakers[b].rev, next |-> next]
  <2>1. EmergencyCall(c, call)
    BY <1>3 DEF CloseBreaker
  <2>2. next \in Breaker /\ next.used = 0 /\ breakers[b].rev \in Nat
    BY <1>0 DEF EmergencyTypeOK, Breaker, BreakerStates
  <2> HIDE DEF next
  <2>3. call \in BreakerCalls /\ NextIsJudged(call) /\ call \notin StopCalls
    BY <2>2 DEF BreakerCalls, NextIsJudged, StopCalls
  <2>. QED  BY <1>a, <2>1, <2>3, EmergencyCallMoves DEF EmergencyCall
<1>4. ASSUME NEW c \in Callers, NEW b \in Breakers, NEW t \in BOOLEAN, Observe(c, b, t) PROVE EmergencyInv' /\ Named
  <2> DEFINE next == Judged(b, breakers[b], t)
             call == [op |-> "observe", target |-> b, step |-> "append", rev |-> breakers[b].rev, next |-> next]
  <2>1. EmergencyCall(c, call)
    BY <1>4 DEF Observe
  <2>2. breakers[b] \in Breaker /\ breakers[b].rev \in Nat
    BY <1>0 DEF EmergencyTypeOK, Breaker
  <2>3. /\ next \in Breaker
        /\ \/ next.state = "half_open" /\ next.used = breakers[b].used + 1 /\ breakers[b].used < RecoveryLimit(b)
           \/ next.state # "half_open" /\ next.used = breakers[b].used
    BY <2>2, JudgedCounts
  <2> HIDE DEF next
  <2>4. call \in BreakerCalls /\ NextIsJudged(call) /\ call \notin StopCalls
    BY <2>2, <2>3 DEF BreakerCalls, NextIsJudged, StopCalls
  <2>. QED  BY <1>a, <2>1, <2>4, EmergencyCallMoves DEF EmergencyCall
<1>5. ASSUME NEW c \in Callers, ReadStop(c) PROVE EmergencyInv' /\ Named
  <2> DEFINE step == IF ecall[c].op = "recover" THEN "gate" ELSE "append"
             call == [ecall[c] EXCEPT !.rev = stop.rev, !.seen = stop.active, !.step = step]
  <2>0. ecall[c] \in StopCalls /\ UNCHANGED <<stop, breakers, probes, approvals, receipts>>
    BY <1>0, <1>5 DEF ReadStop, EmergencyTypeOK, BreakerCalls
  <2>1. CASE Leave(c)
    BY <1>a, <2>0, <2>1, EmergencyCallEnds
  <2>2. CASE ecall' = [ecall EXCEPT ![c].rev = stop.rev, ![c].seen = stop.active, ![c].step = step]
    <3>1. step \in {"gate", "append"}
      OBVIOUS
    <3>2. ecall' = [ecall EXCEPT ![c] = call]
      BY <1>0, <2>2 DEF EmergencyTypeOK
    <3> HIDE DEF step
    <3>3. call \in StopCalls /\ call.rev = stop.rev /\ call.seen = stop.active
      BY <1>a, <2>0, <3>1 DEF StopCalls
    <3>4. SeenIsActive(call) /\ call \notin BreakerCalls
      BY <1>a, <3>3 DEF SeenIsActive, StopCalls, BreakerCalls
    <3>. QED  BY <1>a, <2>0, <3>2, <3>3, <3>4, EmergencyCallMoves
  <2>. QED  BY <1>5, <2>1, <2>2 DEF ReadStop
<1>6. ASSUME NEW c \in Callers, ReadBreakers(c) PROVE EmergencyInv' /\ Named
  <2> DEFINE call == [ecall[c] EXCEPT !.step = "append"]
  <2>0. ecall[c] \in StopCalls /\ SeenIsActive(ecall[c]) /\ ecall[c].step = "gate"
        /\ UNCHANGED <<stop, breakers, probes, approvals, receipts>>
    BY <1>0, <1>b, <1>6 DEF ReadBreakers, BreakerCalls
  <2>1. CASE Leave(c)
    BY <1>a, <2>0, <2>1, EmergencyCallEnds
  <2>2. CASE ecall' = [ecall EXCEPT ![c].step = "append"]
    <3>1. call \in StopCalls /\ SeenIsActive(call) /\ ecall' = [ecall EXCEPT ![c] = call]
      BY <1>0, <2>0, <2>2 DEF StopCalls, SeenIsActive, EmergencyTypeOK
    <3>2. call \notin BreakerCalls
      BY <3>1 DEF StopCalls, BreakerCalls
    <3>. QED  BY <1>a, <2>0, <3>1, <3>2, EmergencyCallMoves
  <2>. QED  BY <1>6, <2>1, <2>2 DEF ReadBreakers
<1>7. ASSUME NEW c \in Callers, AppendStop(c) PROVE EmergencyInv' /\ Named
  <2> DEFINE call == [ecall[c] EXCEPT !.step = "receipt"]
             activate == ecall[c].op = "activate"
             active == IF activate THEN ecall[c].seen \cup ecall[c].acts ELSE ecall[c].seen \ ecall[c].acts
  <2>0. /\ ecall[c] \in StopCalls /\ SeenIsActive(ecall[c]) /\ ecall[c].step = "append" /\ ecall[c] # NoCall
        /\ UNCHANGED <<breakers, receipts, probes>>
    BY <1>b, <1>7 DEF AppendStop, BreakerCalls
  <2>1. CASE HeadUnmoved(stop, ecall[c].rev)
    <3>1. /\ stop' = [rev |-> stop.rev + 1, active |-> active]
          /\ \/ approvals' = [t \in Targets |-> IF approvals[t] = "none" THEN "none" ELSE "old"]
             \/ approvals' = approvals
          /\ ecall' = [ecall EXCEPT ![c].step = "receipt"]
      BY <1>7, <2>1 DEF AppendStop
    <3>2. ecall[c].seen = stop.active /\ ecall[c].acts \subseteq Actions /\ stop.active \subseteq Actions
      BY <1>a, <2>0, <2>1 DEF SeenIsActive, HeadUnmoved, StopCalls, Requests
    <3>3. active \subseteq Actions /\ (activate => stop.active \subseteq active)
          /\ (~activate => stop.active \ active \subseteq ecall[c].acts)
      BY <3>2
    <3> HIDE DEF active
    <3>4. stop' \in [rev : Nat, active : SUBSET Actions] /\ stop'.rev = stop.rev + 1 /\ stop'.active = active
      BY <1>a, <3>1, <3>3
    <3>5. approvals' \in [Targets -> {"none", "old", "new"}]
      BY <1>0, <3>1 DEF EmergencyTypeOK
    <3>6. call \in StopCalls /\ call.step = "receipt" /\ ecall' = [ecall EXCEPT ![c] = call]
      BY <1>0, <2>0, <3>1 DEF StopCalls, EmergencyTypeOK
    <3>7. EmergencyInv'
      BY <2>0, <3>4, <3>5, <3>6, StopMoves
    <3>8. ecall'[c] # ecall[c] /\ (~activate => ecall[c].op = "recover")
      BY <1>0, <2>0, <3>6 DEF EmergencyTypeOK, StopCalls
    <3>. QED  BY <2>0, <3>3, <3>4, <3>7, <3>8
  <2>2. CASE ~HeadUnmoved(stop, ecall[c].rev)
    <3>1. Leave(c) /\ UNCHANGED <<stop, approvals>>
      BY <1>7, <2>2 DEF AppendStop
    <3>. QED  BY <1>a, <2>0, <3>1, EmergencyCallEnds
  <2>. QED  BY <2>1, <2>2
<1>8. ASSUME NEW c \in Callers, StoreReceipt(c) PROVE EmergencyInv' /\ Named
  <2>1. ecall[c] \in StopCalls /\ Leave(c) /\ UNCHANGED <<stop, breakers, probes, approvals>>
    BY <1>b, <1>8 DEF StoreReceipt, BreakerCalls
  <2>2. [scope |-> ecall[c].op, acts |-> ecall[c].acts, key |-> ecall[c].key] \in Receipts
    BY <2>1 DEF StopCalls
  <2>3. receipts' \subseteq Receipts
    BY <1>a, <1>8, <2>2 DEF StoreReceipt
  <2>. QED  BY <2>1, <2>3, EmergencyCallEnds
<1>9. ASSUME NEW c \in Callers, AppendBreaker(c) PROVE EmergencyInv' /\ Named
  <2> DEFINE b == ecall[c].target
             next == ecall[c].next
             new == Appended(breakers[b], next)
             n == IF ecall[c].op = "close" THEN 0 ELSE IF next.state = "half_open" THEN probes[b] + 1 ELSE probes[b]
             then == StopCall("activate", {"runtime"}, <<b, breakers[b].rev + 1>>, "head")
  <2>0. /\ ecall[c] \in BreakerCalls /\ NextIsJudged(ecall[c]) /\ UNCHANGED <<stop, approvals, receipts>>
        /\ b \in Breakers /\ next \in Breaker
    BY <1>b, <1>9 DEF AppendBreaker, StopCalls, BreakerCalls
  <2>1. CASE HeadUnmoved(breakers[b], ecall[c].rev)
    <3>1. /\ breakers' = [breakers EXCEPT ![b] = new]
          /\ probes' = [probes EXCEPT ![b] = n]
          /\ ecall' = [ecall EXCEPT ![c] = then] \/ Leave(c)
      BY <1>9, <2>1 DEF AppendBreaker
    <3>2. /\ breakers[b] \in Breaker /\ breakers[b].rev \in Nat /\ breakers[b].used \in Nat
          /\ probes[b] = breakers[b].used /\ probes[b] <= RecoveryLimit(b) /\ RecoveryLimit(b) \in Nat
      BY <2>0 DEF EmergencyInv, EmergencyTypeOK, Breaker, RecoveryLimit
    <3>3. new \in Breaker /\ new.rev = breakers[b].rev + 1 /\ new.used = next.used
      BY <2>0, <3>2 DEF Appended, Breaker
    <3>4. n = next.used /\ n \in Nat /\ n <= RecoveryLimit(b)
      BY <2>0, <2>1, <3>2 DEF NextIsJudged, HeadUnmoved, BreakerCalls
    <3>5. then \in StopCalls /\ then.step = "head"
      <4>1. {"runtime"} \in Requests
        <5>1. {"runtime"} \subseteq Actions /\ {"runtime"} # {}
          BY EmergencyAssumption
        <5>. QED  BY <5>1 DEF Requests
      <4>2. <<b, breakers[b].rev + 1>> \in StopKeys
        BY <2>0, <3>2 DEF StopKeys
      <4>. QED  BY <4>1, <4>2 DEF StopCall, StopCalls
    <3>6. PICK call \in StopCalls \cup {NoCall} :
             ecall' = [ecall EXCEPT ![c] = call] /\ (call # NoCall => call.step = "head")
      BY <3>1, <3>5 DEF Leave
    <3> HIDE DEF b, next, new, n, then
    <3>7. EmergencyInv'
      BY <2>0, <3>1, <3>3, <3>4, <3>6, BreakerMoves
    <3>. QED  BY <2>0, <3>7
  <2>2. CASE ~HeadUnmoved(breakers[b], ecall[c].rev)
    <3>1. Leave(c) /\ UNCHANGED <<breakers, probes>>
      BY <1>9, <2>2 DEF AppendBreaker
    <3>. QED  BY <1>a, <2>0, <3>1, EmergencyCallEnds
  <2>. QED  BY <2>1, <2>2
<1>10. ASSUME NEW c \in Callers, CallDies(c) PROVE EmergencyInv' /\ Named
  <2>1. Leave(c) /\ UNCHANGED <<stop, breakers, probes, approvals, receipts>>
    BY <1>10 DEF CallDies
  <2>. QED  BY <1>a, <2>1, EmergencyCallEnds
<1>11. ASSUME NEW t \in Targets, GrantApproval(t) \/ ApprovalExpires(t) PROVE EmergencyInv' /\ Named
  <2>1. UNCHANGED <<stop, breakers, receipts, ecall, probes>> /\ approvals' \in [Targets -> {"none", "old", "new"}]
    BY <1>0, <1>11 DEF GrantApproval, ApprovalExpires, EmergencyTypeOK
  <2>. QED  BY <2>1 DEF EmergencyInv, EmergencyTypeOK, SeenIsActive, NextIsJudged, RecoveryLimit
<1>. QED  BY <1>1, <1>2, <1>3, <1>4, <1>5, <1>6, <1>7, <1>8, <1>9, <1>10, <1>11 DEF EmergencyNext

\* Concurrent activations and recoveries conflict instead of losing actions
\* (EmergencyControlService.activate, recover).
THEOREM StopLosesNothing == Spec => ActionsNotLost
<1>1. Init => EmergencyInv
  BY EmergencyInvInit DEF Init
<1>2. EmergencyInv /\ [Next]_vars => EmergencyInv'
  BY EmergencyInvStep, ServiceSteps
<1>3. EmergencyInv /\ [Next]_vars =>
        [\A a \in stop.active \ stop'.active : \E c \in Callers :
            /\ ecall[c] # NoCall /\ ecall'[c] # ecall[c]
            /\ ecall[c].op = "recover" /\ a \in ecall[c].acts]_evars
  BY EmergencyInvStep, ServiceSteps
<1>. QED  BY <1>1, <1>2, <1>3, PTL DEF Spec, ActionsNotLost

\* A security breaker is never probed and another at most once between two
\* manual closes (EmergencyControlService.observe_breaker, close_breaker).
THEOREM BreakersLatch == Spec => []ProbesBounded
<1>1. Init => EmergencyInv
  BY EmergencyInvInit DEF Init
<1>2. EmergencyInv /\ [Next]_vars => EmergencyInv'
  BY EmergencyInvStep, ServiceSteps
<1>3. EmergencyInv => ProbesBounded
  BY DEF EmergencyInv, ProbesBounded
<1>. QED  BY <1>1, <1>2, <1>3, PTL DEF Spec

-----------------------------------------------------------------------------
(* Packages                                                                 *)

\* A store in which at most one revision has lived its life alone.
LEMMA PackageInvInit == PackageInit => PackageInv
<1> SUFFICES ASSUME PackageInit PROVE PackageInv
  OBVIOUS
<1>1. PICK live \in Revisions \cup {"none"} :
        /\ source = [r \in Revisions |-> "approved"]
        /\ manifests = Revisions \cap {live}
        /\ revisions = [r \in Revisions |-> IF r = live THEN [rev |-> 5, state |-> "active", approval |-> TRUE] ELSE Unknown]
        /\ current = [rev |-> IF live = "none" THEN 0 ELSE 1, to |-> live]
        /\ staged = [r \in Revisions |-> "none"]
        /\ installed = [r \in Revisions |-> IF r = live THEN "approved" ELSE "none"]
        /\ pcall = [c \in Callers |-> NotCalled]
  BY DEF PackageInit
<1>2. Unknown \in RevisionHeads /\ [rev |-> 5, state |-> "active", approval |-> TRUE] \in RevisionHeads
  BY DEF Unknown, RevisionHeads, RevisionStates
<1>3. PackageTypeOK
  BY <1>1, <1>2 DEF PackageTypeOK, Contents, Pointers
<1>4. \A r \in Revisions : /\ revisions[r].rev = 0 => revisions[r] = Unknown
                           /\ revisions[r].state = "approved" => revisions[r].approval
  BY <1>1 DEF Unknown
<1>5. current.rev > 0 => current.to \in Revisions
  BY <1>1
<1>6. InstalledAsApproved
  BY <1>1 DEF InstalledAsApproved
<1>. QED  BY <1>1, <1>3, <1>4, <1>5, <1>6 DEF PackageInv, OneStager

\* A step that lets the records and directories be keeps the invariant when
\* the call it leaves stands and stages nothing new.
LEMMA PackageCallMoves ==
    ASSUME PackageInv, NEW c \in Callers, NEW call \in PackageCalls \cup {NotCalled},
           pcall' = [pcall EXCEPT ![c] = call], call # NotCalled => CallStands(call),
           call # NotCalled /\ call.step \in {"verify", "publish"} =>
              pcall[c] # NotCalled /\ pcall[c].step \in {"verify", "publish"} /\ call.on = pcall[c].on,
           UNCHANGED <<revisions, current, staged, installed>>,
           source' \in [Revisions -> Contents], manifests' \subseteq Revisions
    PROVE  PackageInv'
<1>1. PackageTypeOK' /\ InstalledAsApproved'
  BY DEF PackageInv, PackageTypeOK, InstalledAsApproved
<1>2. OneStager'
  BY DEF PackageInv, PackageTypeOK, OneStager
<1>3. \A d \in Callers : pcall'[d] # NotCalled => CallStands(pcall[d])'
  BY DEF PackageInv, PackageTypeOK, CallStands
<1>. QED  BY <1>1, <1>2, <1>3 DEF PackageInv

\* A call that ends keeps it.
LEMMA PackageCallEnds ==
    ASSUME PackageInv, NEW c \in Callers, Give(c), UNCHANGED <<source, manifests, revisions, current, staged, installed>>
    PROVE  PackageInv'
BY PackageCallMoves DEF Give, PackageInv, PackageTypeOK

\* A call that begins remembers the heads as they are.
LEMMA PackageCallBegins ==
    ASSUME PackageInv, NEW c \in Callers, NEW r \in Revisions,
           NEW op \in {"inspect", "update", "validate", "approve", "install", "activate", "rollback"},
           NEW step \in {"manifest", "append", "look", "pointer", "old"},
           op = "install" => revisions[r].approval,
           op \in {"activate", "rollback"} => revisions[r].approval /\ installed[r] = "approved",
           op \in {"activate", "rollback"} <=> step \in {"pointer", "old"},
           step = "old" => current.to \in Revisions,
           PackageCall(c, op, r, step)
    PROVE  PackageInv'
<1> DEFINE call == [op |-> op, on |-> r, step |-> step, prior |-> revisions[r], active |-> current, old |-> Unknown]
<1>0. Unknown \in RevisionHeads
  BY DEF Unknown, RevisionHeads
<1>1. call \in PackageCalls
  BY <1>0 DEF PackageInv, PackageTypeOK, PackageCalls
<1>2. CallStands(call)
  BY DEF CallStands, Remembers, PackageInv, PackageTypeOK, RevisionHeads
<1>. QED  BY <1>1, <1>2, PackageCallMoves DEF PackageCall, PackageInv, PackageTypeOK

\* What an append of a revision leaves.
LEMMA AppendedRevision ==
    ASSUME NEW head \in RevisionHeads, NEW new \in RevisionHeads
    PROVE  /\ Appended(head, new) \in RevisionHeads
           /\ Appended(head, new).rev = head.rev + 1
           /\ Appended(head, new).state = new.state
           /\ Appended(head, new).approval = new.approval
BY DEF Appended, RevisionHeads

\* An append to a revision keeps the invariant: an approval is never lost, and
\* nobody else can append what was read before it.
LEMMA PutRevisionKeeps ==
    ASSUME PackageInv, NEW c \in Callers, pcall[c] \in PackageCalls, NEW r \in Revisions, NEW prior \in RevisionHeads,
           Remembers(prior, revisions[r]) \/ prior = Unknown, NEW state \in RevisionStates,
           NEW step \in {"done", "ingested", "append", "move"},
           step = "move" => pcall[c].op \in {"activate", "rollback"},
           step = "ingested" => pcall[c].op \in {"inspect", "update"},
           PutRevision(c, r, prior, state, step),
           UNCHANGED <<source, manifests, current, staged, installed>>
    PROVE  PackageInv'
<1>0. CallStands(pcall[c]) /\ PackageTypeOK
  BY DEF PackageInv, NotCalled, PackageCalls
<1>1. CASE ~HeadUnmoved(revisions[r], prior.rev)
  BY <1>1, PackageCallEnds DEF PutRevision
<1>2. CASE HeadUnmoved(revisions[r], prior.rev)
  <2> DEFINE given == IF state = "approved" THEN TRUE ELSE prior.approval
             mid == [prior EXCEPT !.state = state, !.approval = given]
             new == Appended(revisions[r], mid)
  <2>1. given \in BOOLEAN /\ (prior.approval \/ state = "approved" => given = TRUE)
    BY DEF RevisionHeads
  <2>2. revisions' = [revisions EXCEPT ![r] = new] /\ (Give(c) \/ (step # "done" /\ Goto(c, step)))
    BY <1>2 DEF PutRevision
  <2>3. revisions[r] \in RevisionHeads /\ revisions[r].rev \in Nat
    BY <1>0 DEF PackageTypeOK, RevisionHeads
  <2>4. revisions[r].approval => prior.approval
    <3>1. CASE Remembers(prior, revisions[r])
      BY <1>2, <3>1 DEF HeadUnmoved, Remembers
    <3>2. CASE prior = Unknown
      <4>1. revisions[r].rev = 0
        BY <1>2, <3>2 DEF HeadUnmoved, Unknown
      <4>. QED  BY <3>2, <4>1 DEF PackageInv
    <3>. QED  BY <3>1, <3>2
  <2> HIDE DEF given
  <2>5. /\ new \in RevisionHeads /\ new.rev = revisions[r].rev + 1 /\ new.state = state
        /\ revisions[r].approval \/ state = "approved" => new.approval
    <3>1. mid \in RevisionHeads /\ mid.state = state /\ mid.approval = given
      BY <2>1 DEF RevisionHeads
    <3> HIDE DEF mid
    <3>2. new \in RevisionHeads /\ new.rev = revisions[r].rev + 1 /\ new.state = mid.state /\ new.approval = mid.approval
      BY <2>3, <3>1, AppendedRevision
    <3>. QED  BY <2>1, <2>4, <3>1, <3>2
  <2> HIDE DEF mid, new
  <2>6. PICK call \in PackageCalls \cup {NotCalled} :
          /\ pcall' = [pcall EXCEPT ![c] = call]
          /\ call # NotCalled => /\ step # "done" /\ call.step = step /\ call.op = pcall[c].op /\ call.on = pcall[c].on
                                 /\ call.prior = pcall[c].prior
    <3>1. CASE Give(c)
      BY <3>1 DEF Give
    <3>2. CASE step # "done" /\ Goto(c, step)
      <4>1. [pcall[c] EXCEPT !.step = step] \in PackageCalls
        BY <3>2 DEF PackageCalls
      <4>2. pcall' = [pcall EXCEPT ![c] = [pcall[c] EXCEPT !.step = step]]
        BY <3>2 DEF Goto
      <4>3. LET call == [pcall[c] EXCEPT !.step = step]
            IN /\ call.step = step /\ call.op = pcall[c].op /\ call.on = pcall[c].on /\ call.prior = pcall[c].prior
        BY DEF PackageCalls
      <4>. QED  BY <3>2, <4>1, <4>2, <4>3
    <3>. QED  BY <2>2, <3>1, <3>2
  <2>7. PackageTypeOK'
    BY <1>0, <2>2, <2>5, <2>6 DEF PackageTypeOK
  <2>8. revisions'[r] = new /\ (\A q \in Revisions : q # r => revisions'[q] = revisions[q])
    BY <1>0, <2>2 DEF PackageTypeOK
  <2>9. \A q \in Revisions : (revisions[q].approval => revisions'[q].approval)
    BY <2>5, <2>8
  <2>10. \A q \in Revisions : /\ revisions'[q].rev = 0 => revisions'[q] = Unknown
                              /\ revisions'[q].state = "approved" => revisions'[q].approval
    <3> SUFFICES ASSUME NEW q \in Revisions
                 PROVE  /\ revisions'[q].rev = 0 => revisions'[q] = Unknown
                        /\ revisions'[q].state = "approved" => revisions'[q].approval
      OBVIOUS
    <3>1. CASE q = r
      BY <2>3, <2>5, <2>8, <3>1
    <3>2. CASE q # r
      BY <2>8, <3>2 DEF PackageInv
    <3>. QED  BY <3>1, <3>2
  <2>11. InstalledAsApproved' /\ (current.rev > 0 => current.to \in Revisions)'
    BY <2>9 DEF PackageInv, InstalledAsApproved
  <2>12. \A p \in RevisionHeads, q \in Revisions : Remembers(p, revisions[q]) => Remembers(p, revisions'[q])
    <3> SUFFICES ASSUME NEW p \in RevisionHeads, NEW q \in Revisions, Remembers(p, revisions[q]) PROVE Remembers(p, revisions'[q])
      OBVIOUS
    <3>1. p.rev \in Nat
      BY DEF RevisionHeads
    <3>. QED  BY <2>3, <2>5, <2>8, <3>1 DEF Remembers
  <2>13. ASSUME NEW d \in Callers, pcall'[d] # NotCalled PROVE CallStands(pcall[d])'
    <3>1. CASE d = c
      <4>1. pcall'[c] = call /\ call \in PackageCalls /\ call # NotCalled
        BY <1>0, <2>6, <2>13, <3>1 DEF PackageTypeOK
      <4>2. call.step \in {"ingested", "append", "move"} /\ call.on \in Revisions /\ call.prior \in RevisionHeads
        BY <2>6, <4>1 DEF PackageCalls
      <4>3. Remembers(call.prior, revisions'[call.on])
        BY <1>0, <2>6, <2>12, <4>1, <4>2 DEF CallStands
      <4>. QED  BY <1>0, <2>6, <2>9, <3>1, <4>1, <4>2, <4>3 DEF CallStands
    <3>2. CASE d # c
      <4>1. pcall'[d] = pcall[d] /\ CallStands(pcall[d]) /\ pcall[d] \in PackageCalls
        BY <1>0, <2>6, <2>13, <3>2 DEF PackageTypeOK, PackageInv
      <4>2. pcall[d].on \in Revisions /\ pcall[d].prior \in RevisionHeads /\ pcall[d].old \in RevisionHeads
        BY <4>1 DEF PackageCalls
      <4>. QED  BY <2>9, <2>12, <4>1, <4>2 DEF CallStands
    <3>. QED  BY <3>1, <3>2
  <2>14. OneStager'
    BY <1>0, <2>6 DEF OneStager, PackageInv, PackageTypeOK
  <2>. QED  BY <2>7, <2>10, <2>11, <2>13, <2>14 DEF PackageInv
<1>. QED  BY <1>1, <1>2

\* A call that goes on to another step is otherwise as it was.
LEMMA CallGoesOn ==
    ASSUME PackageTypeOK, NEW c \in Callers, pcall[c] \in PackageCalls,
           NEW step \in {"revision", "ingested", "append", "stage", "verify", "publish"}, Goto(c, step)
    PROVE  \E call \in PackageCalls :
              /\ pcall' = [pcall EXCEPT ![c] = call] /\ call # NotCalled
              /\ call.step = step /\ call.op = pcall[c].op /\ call.on = pcall[c].on /\ call.prior = pcall[c].prior
<1> DEFINE call == [pcall[c] EXCEPT !.step = step]
<1>1. call \in PackageCalls /\ call # NotCalled
  BY DEF PackageCalls, NotCalled
<1>2. call.step = step /\ call.op = pcall[c].op /\ call.on = pcall[c].on /\ call.prior = pcall[c].prior
  BY DEF PackageCalls
<1>3. pcall' = [pcall EXCEPT ![c] = call]
  BY DEF Goto, PackageTypeOK
<1>. QED  BY <1>1, <1>2, <1>3

\* Every step of the package service keeps the invariant.
LEMMA PackageInvStep == PackageInv /\ [PackageNext]_pvars => PackageInv'
<1> SUFFICES ASSUME PackageInv, [PackageNext]_pvars PROVE PackageInv'
  OBVIOUS
<1>0. PackageTypeOK /\ InstalledAsApproved /\ OneStager
  BY DEF PackageInv
<1>a. \A c \in Callers : pcall[c] # NotCalled => pcall[c] \in PackageCalls /\ CallStands(pcall[c])
  BY DEF PackageInv, PackageTypeOK
<1>b. NotCalled.op = "none" /\ NotCalled \notin PackageCalls
  BY DEF NotCalled, PackageCalls
<1>c. \A r \in Revisions : revisions[r].state = "approved" => revisions[r].approval
  BY DEF PackageInv
<1>1. CASE UNCHANGED pvars
  BY <1>1 DEF pvars, PackageInv, PackageTypeOK, InstalledAsApproved, OneStager, CallStands
<1>2. ASSUME NEW c \in Callers, NEW r \in Revisions, NEW op \in {"inspect", "update"}, Ingest(c, r, op) PROVE PackageInv'
  BY <1>2, PackageCallBegins DEF Ingest
<1>3. ASSUME NEW c \in Callers, NEW r \in Revisions, Validate(c, r) PROVE PackageInv'
  BY <1>3, PackageCallBegins DEF Validate
<1>4. ASSUME NEW c \in Callers, NEW r \in Revisions, Approve(c, r) PROVE PackageInv'
  BY <1>4, PackageCallBegins DEF Approve
<1>5. ASSUME NEW c \in Callers, NEW r \in Revisions, Install(c, r) PROVE PackageInv'
  BY <1>5, <1>c, PackageCallBegins DEF Install
<1>6. ASSUME NEW c \in Callers, NEW r \in Revisions, ActivatePackage(c, r) PROVE PackageInv'
  BY <1>6, PackageCallBegins DEF ActivatePackage, Activatable
<1>7. ASSUME NEW c \in Callers, NEW r \in Revisions, Rollback(c, r) PROVE PackageInv'
  <2>1. current.to \in Revisions
    BY <1>7 DEF Rollback, PackageInv
  <2>. QED  BY <1>7, <2>1, PackageCallBegins DEF Rollback, Restorable
<1>8. ASSUME NEW c \in Callers, IngestManifest(c) PROVE PackageInv'
  <2>1. /\ pcall[c] \in PackageCalls /\ CallStands(pcall[c]) /\ pcall[c].op \in {"inspect", "update"}
        /\ UNCHANGED <<source, revisions, current, staged, installed>>
        /\ manifests' \subseteq Revisions /\ source' \in [Revisions -> Contents]
    BY <1>0, <1>a, <1>b, <1>8 DEF IngestManifest, PackageTypeOK, PackageCalls
  <2>2. CASE Give(c)
    BY <1>0, <2>1, <2>2, PackageCallMoves DEF Give
  <2>3. ASSUME NEW step \in {"ingested", "revision"}, Goto(c, step) PROVE PackageInv'
    <3>1. PICK call \in PackageCalls :
             /\ pcall' = [pcall EXCEPT ![c] = call] /\ call # NotCalled
             /\ call.step = step /\ call.op = pcall[c].op /\ call.on = pcall[c].on /\ call.prior = pcall[c].prior
      BY <1>0, <2>1, <2>3, CallGoesOn
    <3>2. CallStands(call)
      BY <2>1, <3>1 DEF CallStands
    <3>. QED  BY <2>1, <3>1, <3>2, PackageCallMoves
  <2>. QED  BY <1>8, <2>2, <2>3 DEF IngestManifest
<1>9. ASSUME NEW c \in Callers, IngestRevision(c) PROVE PackageInv'
  <2>1. pcall[c] \in PackageCalls /\ pcall[c].on \in Revisions
    BY <1>a, <1>b, <1>9 DEF IngestRevision, PackageCalls
  <2>2. Unknown \in RevisionHeads /\ "quarantined" \in RevisionStates
    BY DEF Unknown, RevisionHeads, RevisionStates
  <2>. QED  BY <1>9, <2>1, <2>2, PutRevisionKeeps DEF IngestRevision
<1>10. ASSUME NEW c \in Callers, Ingested(c) PROVE PackageInv'
  <2> DEFINE call == [pcall[c] EXCEPT !.op = "validate", !.step = "append", !.prior = revisions[pcall[c].on]]
  <2>1. pcall[c] \in PackageCalls /\ pcall[c].on \in Revisions
        /\ UNCHANGED <<source, manifests, revisions, current, staged, installed>>
    BY <1>a, <1>b, <1>10 DEF Ingested, PackageCalls
  <2>2. CASE Give(c)
    BY <2>1, <2>2, PackageCallEnds
  <2>3. CASE pcall' = [pcall EXCEPT ![c].op = "validate", ![c].step = "append", ![c].prior = revisions[pcall[c].on]]
    <3>1. revisions[pcall[c].on] \in RevisionHeads
      BY <1>0, <2>1 DEF PackageTypeOK
    <3>2. /\ call \in PackageCalls /\ call.step = "append" /\ call.op = "validate" /\ call.on = pcall[c].on
          /\ call.prior = revisions[pcall[c].on]
      BY <2>1, <3>1 DEF PackageCalls
    <3>3. pcall' = [pcall EXCEPT ![c] = call]
      BY <1>0, <2>3 DEF PackageTypeOK
    <3>4. CallStands(call)
      BY <3>1, <3>2 DEF CallStands, Remembers, RevisionHeads
    <3>. QED  BY <1>0, <2>1, <3>2, <3>3, <3>4, PackageCallMoves DEF PackageTypeOK
  <2>. QED  BY <1>10, <2>2, <2>3 DEF Ingested
<1>11. ASSUME NEW c \in Callers, ValidateAppends(c) PROVE PackageInv'
  <2>1. PICK state \in {"validated", "blocked"} : PutRevision(c, pcall[c].on, pcall[c].prior, state, "done")
    BY <1>11 DEF ValidateAppends
  <2>2. pcall[c] \in PackageCalls /\ pcall[c].on \in Revisions /\ pcall[c].prior \in RevisionHeads
        /\ Remembers(pcall[c].prior, revisions[pcall[c].on]) /\ state \in RevisionStates
    BY <1>a, <1>b, <1>11 DEF ValidateAppends, At, PackageCalls, CallStands, RevisionStates
  <2>. QED  BY <1>11, <2>1, <2>2, PutRevisionKeeps DEF ValidateAppends
<1>12. ASSUME NEW c \in Callers, ApproveAppends(c) \/ InstallAppends(c) PROVE PackageInv'
  <2>1. PICK state \in {"approved", "installed"} : PutRevision(c, pcall[c].on, pcall[c].prior, state, "done")
    BY <1>12 DEF ApproveAppends, InstallAppends
  <2>2. pcall[c] \in PackageCalls /\ pcall[c].on \in Revisions /\ pcall[c].prior \in RevisionHeads
        /\ Remembers(pcall[c].prior, revisions[pcall[c].on]) /\ state \in RevisionStates
    BY <1>a, <1>b, <1>12 DEF ApproveAppends, InstallAppends, At, PackageCalls, CallStands, RevisionStates
  <2>. QED  BY <1>12, <2>1, <2>2, PutRevisionKeeps DEF ApproveAppends, InstallAppends
<1>13. ASSUME NEW c \in Callers, InstallLooks(c) PROVE PackageInv'
  <2>1. /\ pcall[c] \in PackageCalls /\ CallStands(pcall[c]) /\ pcall[c].op = "install"
        /\ UNCHANGED <<source, manifests, revisions, current, staged, installed>>
    BY <1>a, <1>b, <1>13 DEF InstallLooks, At
  <2>2. CASE Give(c)
    BY <2>1, <2>2, PackageCallEnds
  <2>3. ASSUME NEW step \in {"append", "stage"}, Goto(c, step) PROVE PackageInv'
    <3>1. PICK call \in PackageCalls :
             /\ pcall' = [pcall EXCEPT ![c] = call] /\ call # NotCalled
             /\ call.step = step /\ call.op = pcall[c].op /\ call.on = pcall[c].on /\ call.prior = pcall[c].prior
      BY <1>0, <2>1, <2>3, CallGoesOn
    <3>2. CallStands(call)
      BY <2>1, <3>1 DEF CallStands
    <3>. QED  BY <1>0, <2>1, <3>1, <3>2, PackageCallMoves DEF PackageTypeOK
  <2>. QED  BY <1>13, <2>2, <2>3 DEF InstallLooks
<1>14. ASSUME NEW c \in Callers, InstallStages(c) PROVE PackageInv'
  <2> DEFINE r == pcall[c].on
  <2>1. /\ pcall[c] \in PackageCalls /\ CallStands(pcall[c]) /\ pcall[c].op = "install" /\ r \in Revisions
        /\ UNCHANGED <<source, manifests, revisions, current, installed>>
    BY <1>a, <1>b, <1>14 DEF InstallStages, At, PackageCalls
  <2>2. CASE staged[r] # "none"
    BY <1>14, <2>1, <2>2, PackageCallEnds DEF InstallStages
  <2>3. CASE staged[r] = "none"
    <3>1. Goto(c, "verify") /\ staged' = [staged EXCEPT ![r] = source[r]]
      BY <1>14, <2>3 DEF InstallStages
    <3>2. PICK call \in PackageCalls :
             /\ pcall' = [pcall EXCEPT ![c] = call] /\ call # NotCalled
             /\ call.step = "verify" /\ call.op = pcall[c].op /\ call.on = r /\ call.prior = pcall[c].prior
      BY <1>0, <2>1, <3>1, CallGoesOn
    <3>3. source[r] \in Contents /\ source[r] # "none"
      BY <1>0, <2>1 DEF PackageTypeOK, Contents
    <3>4. PackageTypeOK'
      BY <1>0, <2>1, <3>1, <3>2, <3>3 DEF PackageTypeOK
    <3>5. staged'[r] # "none" /\ \A q \in Revisions : q # r => staged'[q] = staged[q]
      BY <1>0, <2>1, <3>1, <3>3 DEF PackageTypeOK
    <3>6. ASSUME NEW d \in Callers, d # c, pcall'[d] # NotCalled
          PROVE  /\ pcall'[d] = pcall[d] /\ CallStands(pcall[d])'
                 /\ pcall[d].step \in {"verify", "publish"} => pcall[d].on # r
      <4>1. pcall'[d] = pcall[d] /\ pcall[d] \in PackageCalls /\ CallStands(pcall[d]) /\ pcall[d].on \in Revisions
        BY <1>0, <1>a, <3>2, <3>6 DEF PackageTypeOK, PackageCalls
      <4>2. pcall[d].step \in {"verify", "publish"} => pcall[d].on # r
        BY <2>3, <4>1 DEF CallStands
      <4>. QED  BY <2>1, <3>5, <4>1, <4>2 DEF CallStands
    <3>7. pcall'[c] = call /\ CallStands(pcall[c])'
      <4>1. pcall'[c] = call
        BY <1>0, <3>2 DEF PackageTypeOK
      <4>. QED  BY <2>1, <3>2, <3>5, <4>1 DEF CallStands
    <3>8. OneStager'
      BY <1>0, <3>2, <3>6, <3>7 DEF OneStager
    <3>9. InstalledAsApproved'
      BY <1>0, <2>1 DEF InstalledAsApproved
    <3>. QED  BY <2>1, <3>4, <3>6, <3>7, <3>8, <3>9 DEF PackageInv
  <2>. QED  BY <2>2, <2>3
<1>15. ASSUME NEW c \in Callers, InstallVerifies(c) PROVE PackageInv'
  <2>1. /\ pcall[c] \in PackageCalls /\ CallStands(pcall[c]) /\ pcall[c].op = "install" /\ pcall[c].step = "verify"
        /\ UNCHANGED <<source, manifests, revisions, current, staged, installed>>
    BY <1>a, <1>b, <1>15 DEF InstallVerifies, At
  <2>2. CASE Give(c)
    BY <2>1, <2>2, PackageCallEnds
  <2>3. CASE StagedVerifies(pcall[c].on) /\ Goto(c, "publish")
    <3>1. PICK call \in PackageCalls :
             /\ pcall' = [pcall EXCEPT ![c] = call] /\ call # NotCalled
             /\ call.step = "publish" /\ call.op = pcall[c].op /\ call.on = pcall[c].on /\ call.prior = pcall[c].prior
      BY <1>0, <2>1, <2>3, CallGoesOn
    <3>2. CallStands(call)
      BY <2>1, <2>3, <3>1 DEF CallStands, StagedVerifies
    <3>. QED  BY <1>0, <1>b, <2>1, <3>1, <3>2, PackageCallMoves DEF PackageTypeOK
  <2>. QED  BY <1>15, <2>2, <2>3 DEF InstallVerifies
<1>16. ASSUME NEW c \in Callers, InstallPublishes(c) PROVE PackageInv'
  <2> DEFINE r == pcall[c].on
  <2>1. /\ pcall[c] \in PackageCalls /\ CallStands(pcall[c]) /\ pcall[c].op = "install" /\ r \in Revisions
        /\ pcall[c].step = "publish" /\ pcall[c] # NotCalled
        /\ UNCHANGED <<source, manifests, revisions, current>>
    BY <1>a, <1>b, <1>16 DEF InstallPublishes, At, PackageCalls
  <2>2. CASE installed[r] # "none"
    BY <1>16, <2>1, <2>2, PackageCallEnds DEF InstallPublishes
  <2>3. CASE installed[r] = "none"
    <3>1. /\ installed' = [installed EXCEPT ![r] = staged[r]] /\ staged' = [staged EXCEPT ![r] = "none"]
          /\ Goto(c, "append")
      BY <1>16, <2>3 DEF InstallPublishes
    <3>2. PICK call \in PackageCalls :
             /\ pcall' = [pcall EXCEPT ![c] = call] /\ call # NotCalled
             /\ call.step = "append" /\ call.op = pcall[c].op /\ call.on = r /\ call.prior = pcall[c].prior
      BY <1>0, <2>1, <3>1, CallGoesOn
    <3>3. staged[r] = "approved" /\ revisions[r].approval
      BY <2>1 DEF CallStands
    <3>4. PackageTypeOK'
      BY <1>0, <2>1, <3>1, <3>2, <3>3 DEF PackageTypeOK, Contents
    <3>5. /\ installed'[r] = "approved"
          /\ \A q \in Revisions : q # r => installed'[q] = installed[q] /\ staged'[q] = staged[q]
      BY <1>0, <2>1, <3>1, <3>3 DEF PackageTypeOK
    <3>6. InstalledAsApproved'
      <4>1. \A q \in Revisions : installed'[q] # "edited" /\ (installed'[q] # "none" => revisions[q].approval)
        BY <1>0, <3>3, <3>5 DEF InstalledAsApproved
      <4>2. current.rev > 0 => installed'[current.to] = "approved" /\ revisions[current.to].approval
        BY <1>0, <3>3, <3>5 DEF InstalledAsApproved, PackageInv
      <4>. QED  BY <2>1, <4>1, <4>2 DEF InstalledAsApproved
    <3>7. ASSUME NEW d \in Callers, d # c, pcall'[d] # NotCalled PROVE pcall'[d] = pcall[d] /\ CallStands(pcall[d])'
      <4>1. pcall'[d] = pcall[d] /\ pcall[d] \in PackageCalls /\ CallStands(pcall[d]) /\ pcall[d].on \in Revisions
        BY <1>0, <1>a, <3>2, <3>7 DEF PackageTypeOK, PackageCalls
      <4>2. pcall[d].step \in {"verify", "publish"} => pcall[d].on # r
        BY <1>0, <2>1, <3>7, <4>1 DEF OneStager
      <4>. QED  BY <2>1, <2>3, <3>5, <4>1, <4>2 DEF CallStands
    <3>8. pcall'[c] = call /\ CallStands(pcall[c])'
      <4>1. pcall'[c] = call
        BY <1>0, <3>2 DEF PackageTypeOK
      <4>. QED  BY <2>1, <3>2, <3>5, <4>1 DEF CallStands
    <3>9. OneStager'
      BY <1>0, <3>2, <3>7, <3>8 DEF OneStager
    <3>. QED  BY <2>1, <3>4, <3>6, <3>7, <3>8, <3>9 DEF PackageInv
  <2>. QED  BY <2>2, <2>3
<1>17. ASSUME NEW c \in Callers, ActivateReadsPointer(c) PROVE PackageInv'
  <2> DEFINE step == IF current.to \in {"none", pcall[c].on} THEN "append" ELSE "old"
             call == [pcall[c] EXCEPT !.active = current, !.step = step]
  <2>1. /\ pcall[c] \in PackageCalls /\ CallStands(pcall[c]) /\ pcall[c].op = "activate"
        /\ pcall' = [pcall EXCEPT ![c].active = current, ![c].step = step]
        /\ UNCHANGED <<source, manifests, revisions, current, staged, installed>>
    BY <1>a, <1>b, <1>17 DEF ActivateReadsPointer, At
  <2>2. step \in {"append", "old"} /\ current \in Pointers /\ (step = "old" => current.to \in Revisions)
    BY <1>0 DEF PackageTypeOK, Pointers
  <2>3. pcall' = [pcall EXCEPT ![c] = call]
    BY <1>0, <2>1 DEF PackageTypeOK
  <2> HIDE DEF step
  <2>4. /\ call \in PackageCalls /\ call.step = step /\ call.active = current
        /\ call.op = pcall[c].op /\ call.on = pcall[c].on /\ call.prior = pcall[c].prior
    BY <2>1, <2>2 DEF PackageCalls
  <2>5. CallStands(call)
    BY <2>1, <2>2, <2>4 DEF CallStands
  <2>. QED  BY <1>0, <2>1, <2>2, <2>3, <2>4, <2>5, PackageCallMoves DEF PackageTypeOK
<1>18. ASSUME NEW c \in Callers, ReadOld(c) PROVE PackageInv'
  <2> DEFINE old == revisions[pcall[c].active.to]
             step == IF pcall[c].op = "activate" /\ old.state # "active" THEN "append" ELSE "retire"
             call == [pcall[c] EXCEPT !.old = old, !.step = step]
  <2>1. /\ pcall[c] \in PackageCalls /\ CallStands(pcall[c]) /\ pcall[c].op \in {"activate", "rollback"}
        /\ pcall[c].active.to \in Revisions
        /\ pcall' = [pcall EXCEPT ![c].old = old, ![c].step = step]
        /\ UNCHANGED <<source, manifests, revisions, current, staged, installed>>
    BY <1>a, <1>b, <1>18 DEF ReadOld, CallStands
  <2>2. step \in {"append", "retire"} /\ old \in RevisionHeads /\ old.rev \in Nat
    BY <1>0, <2>1 DEF PackageTypeOK, RevisionHeads
  <2>3. pcall' = [pcall EXCEPT ![c] = call]
    BY <1>0, <2>1 DEF PackageTypeOK
  <2>a. old = revisions[pcall[c].active.to]
    OBVIOUS
  <2> HIDE DEF step, old
  <2>4. /\ call \in PackageCalls /\ call.step = step /\ call.old = old /\ call.active = pcall[c].active
        /\ call.op = pcall[c].op /\ call.on = pcall[c].on /\ call.prior = pcall[c].prior
    BY <2>1, <2>2 DEF PackageCalls
  <2>5. CallStands(call)
    BY <2>1, <2>2, <2>4, <2>a DEF CallStands, Remembers
  <2>. QED  BY <1>0, <2>1, <2>2, <2>3, <2>4, <2>5, PackageCallMoves DEF PackageTypeOK
<1>19. ASSUME NEW c \in Callers, RetireOld(c) PROVE PackageInv'
  <2> DEFINE state == IF pcall[c].op = "activate" THEN "superseded" ELSE "rolled_back"
  <2>1. /\ pcall[c] \in PackageCalls /\ pcall[c].active.to \in Revisions /\ pcall[c].old \in RevisionHeads
        /\ Remembers(pcall[c].old, revisions[pcall[c].active.to])
        /\ PutRevision(c, pcall[c].active.to, pcall[c].old, state, "append")
        /\ UNCHANGED <<source, manifests, current, staged, installed>>
    BY <1>a, <1>b, <1>19 DEF RetireOld, CallStands, PackageCalls
  <2>2. state \in RevisionStates
    BY DEF RevisionStates
  <2> HIDE DEF state
  <2>. QED  BY <2>1, <2>2, PutRevisionKeeps
<1>20. ASSUME NEW c \in Callers, ActiveAppends(c) PROVE PackageInv'
  <2>1. pcall[c] \in PackageCalls /\ pcall[c].on \in Revisions /\ pcall[c].prior \in RevisionHeads
        /\ Remembers(pcall[c].prior, revisions[pcall[c].on]) /\ "active" \in RevisionStates
    BY <1>a, <1>b, <1>20 DEF ActiveAppends, PackageCalls, CallStands, RevisionStates
  <2>. QED  BY <1>20, <2>1, PutRevisionKeeps DEF ActiveAppends
<1>21. ASSUME NEW c \in Callers, MovePointer(c) PROVE PackageInv'
  <2> DEFINE r == pcall[c].on
  <2>1. /\ pcall[c] \in PackageCalls /\ r \in Revisions /\ installed[r] = "approved" /\ revisions[r].approval
        /\ Give(c) /\ UNCHANGED <<source, manifests, revisions, staged, installed>>
    BY <1>a, <1>b, <1>21 DEF MovePointer, PackageCalls, CallStands
  <2>2. CASE current' = current
    BY <2>1, <2>2, PackageCallEnds
  <2>3. CASE current' = Appended(current, [current EXCEPT !.to = r])
    <3>1. [current EXCEPT !.to = r] \in Pointers /\ [current EXCEPT !.to = r].to = r /\ current \in Pointers
      BY <1>0, <2>1 DEF PackageTypeOK, Pointers
    <3>2. \A head, new \in Pointers : Appended(head, new) \in Pointers /\ Appended(head, new).to = new.to
      BY DEF Appended, Pointers
    <3>3. current' \in Pointers /\ current'.to = r
      BY <2>3, <3>1, <3>2
    <3>4. PackageTypeOK'
      BY <1>0, <2>1, <3>3 DEF PackageTypeOK, Give
    <3>5. InstalledAsApproved'
      BY <1>0, <2>1, <3>3 DEF InstalledAsApproved
    <3>6. OneStager'
      BY <1>0, <2>1 DEF OneStager, Give, PackageTypeOK
    <3>7. \A d \in Callers : pcall'[d] # NotCalled => CallStands(pcall[d])'
      BY <1>0, <1>a, <2>1 DEF CallStands, Give, PackageTypeOK
    <3>. QED  BY <2>1, <3>3, <3>4, <3>5, <3>6, <3>7 DEF PackageInv
  <2>. QED  BY <1>21, <2>2, <2>3 DEF MovePointer
<1>22. ASSUME NEW c \in Callers, InstallerDies(c) PROVE PackageInv'
  BY <1>22, PackageCallEnds DEF InstallerDies
<1>23. ASSUME NEW r \in Revisions, EditSource(r) PROVE PackageInv'
  <2>1. UNCHANGED <<manifests, revisions, current, staged, installed, pcall>> /\ source' \in [Revisions -> Contents]
    BY <1>0, <1>23 DEF EditSource, PackageTypeOK
  <2>. QED  BY <2>1 DEF PackageInv, PackageTypeOK, InstalledAsApproved, OneStager, CallStands
<1>. QED  BY <1>1, <1>2, <1>3, <1>4, <1>5, <1>6, <1>7, <1>8, <1>9, <1>10, <1>11, <1>12, <1>13, <1>14, <1>15,
             <1>16, <1>17, <1>18, <1>19, <1>20, <1>21, <1>22, <1>23 DEF PackageNext

\* What is installed, and what the active pointer names, is what was approved
\* (PackageService.install, activate, rollback).
THEOREM InstalledIsApproved == Spec => []InstalledAsApproved
<1>1. Init => PackageInv
  BY PackageInvInit DEF Init
<1>2. PackageInv /\ [Next]_vars => PackageInv'
  BY PackageInvStep, ServiceSteps
<1>3. PackageInv => InstalledAsApproved
  BY DEF PackageInv
<1>. QED  BY <1>1, <1>2, <1>3, PTL DEF Spec

-----------------------------------------------------------------------------
(* Workflows                                                                *)

\* The nodes in their order.
LEMMA OrderedNodes ==
    /\ Len(Order) \in Nat \ {0} /\ \A i \in 1..Len(Order) : Order[i] \in Nodes
    /\ \A n \in Nodes : \E i \in 1..Len(Order) : Order[i] = n
    /\ \A n \in Nodes : n \notin Parents(n)
<1>1. Len(Order) \in Nat /\ DOMAIN Order = 1..Len(Order) /\ Order # <<>>
  BY WorkflowAssumption
<1>2. Len(Order) # 0
  BY WorkflowAssumption
<1>3. \A i \in 1..Len(Order) : Order[i] \in Nodes
  BY <1>1 DEF Nodes
<1>4. \A n \in Nodes : \E i \in 1..Len(Order) : Order[i] = n
  BY <1>1 DEF Nodes
<1>5. \A n \in Nodes : n \notin Parents(n)
  <2> SUFFICES ASSUME NEW n \in Nodes, <<n, n>> \in Edges PROVE FALSE
    BY DEF Parents
  <2>1. PICK i \in DOMAIN Order : Order[i] = n
    BY <1>1, <1>4
  <2>2. i < i
    BY <2>1, WorkflowAssumption
  <2>. QED  BY <1>1, <2>2
<1>. QED  BY <1>1, <1>2, <1>3, <1>4, <1>5

\* No run, no steps, no calls.
LEMMA WorkflowInvInit == WorkflowInit => WorkflowInv
<1> SUFFICES ASSUME WorkflowInit PROVE WorkflowInv
  OBVIOUS
<1>1. Absent \in StepHeads /\ Absent.rev = 0 /\ Absent.state = "none"
  BY WorkflowAssumption DEF Absent, StepHeads
<1>2. WorkflowTypeOK
  BY <1>1 DEF WorkflowInit, WorkflowTypeOK, RunHeads
<1>3. RunMatchesSteps /\ RecordsMade /\ InOrder
  BY <1>1 DEF WorkflowInit, RunMatchesSteps, RecordsMade, InOrder
<1>. QED  BY <1>2, <1>3 DEF WorkflowInit, WorkflowInv

\* A step that writes no record keeps the invariant when the call it leaves stands.
LEMMA WorkCallMoves ==
    ASSUME WorkflowInv, NEW c \in Callers, NEW call \in WorkCalls \cup {Free},
           wcall' = [wcall EXCEPT ![c] = call], call # Free => WorkCallStands(call, run, steps),
           UNCHANGED <<run, steps>>
    PROVE  WorkflowInv'
BY DEF WorkflowInv, WorkflowTypeOK, RunMatchesSteps, RecordsMade, InOrder

\* A call that ends after it may have written the run.
LEMMA RunMoves ==
    ASSUME WorkflowInv, NEW c \in Callers, Exit(c), UNCHANGED steps,
           NEW state \in {"running", "paused"} \cup Ended, run' = Appended(run, [run EXCEPT !.state = state]),
           \A n \in Nodes : steps[n].rev > 0,
           state = "succeeded" => \A n \in Nodes : steps[n].state = "succeeded",
           state = "cancelled" => \A n \in Nodes : steps[n].state \notin Live
    PROVE  WorkflowInv'
<1>0. WorkflowTypeOK
  BY DEF WorkflowInv
<1>1. run' \in RunHeads /\ run'.rev = run.rev + 1 /\ run'.state = state /\ run.rev \in Nat
  <2> DEFINE mid == [run EXCEPT !.state = state]
  <2>1. mid \in RunHeads /\ mid.state = state /\ run \in RunHeads /\ run.rev \in Nat /\ run' = Appended(run, mid)
    BY <1>0 DEF WorkflowTypeOK, RunHeads
  <2> HIDE DEF mid
  <2>. QED  BY <2>1 DEF RunHeads, Appended
<1>2. WorkflowTypeOK'
  BY <1>0, <1>1 DEF WorkflowTypeOK, Exit
<1>3. RunMatchesSteps'
  BY <1>1 DEF WorkflowInv, RunMatchesSteps
<1>4. RecordsMade'
  BY <1>1 DEF WorkflowInv, RecordsMade, Ended
<1>5. \A d \in Callers : wcall'[d] # Free => WorkCallStands(wcall'[d], run', steps')
  BY <1>0, <1>1 DEF WorkflowInv, WorkflowTypeOK, WorkCallStands, Exit
<1>6. InOrder'
  BY DEF WorkflowInv, InOrder
<1>. QED  BY <1>2, <1>3, <1>4, <1>5, <1>6 DEF WorkflowInv

\* Calls stand when a step that has not ended is written.
LEMMA CallsKeepStanding ==
    ASSUME WorkflowInv, NEW n \in Nodes, NEW new \in StepHeads,
           steps' = [steps EXCEPT ![n] = new], new.rev = steps[n].rev + 1, steps[n].state \notin Ended,
           UNCHANGED run, NEW call \in WorkCalls, WorkCallStands(call, run, steps)
    PROVE  WorkCallStands(call, run', steps')
<1>0. steps \in [Nodes -> StepHeads]
  BY DEF WorkflowInv, WorkflowTypeOK
<1>1. ASSUME NEW q \in Nodes
      PROVE  /\ \A prior \in StepHeads : Remembers(prior, steps[q]) => Remembers(prior, steps'[q])
             /\ \A prior \in StepHeads : Recalls(prior, steps[q]) => Recalls(prior, steps'[q])
             /\ steps[q].rev > 0 => steps'[q].rev > 0
             /\ steps[q].state \in Ended => steps'[q].state \in Ended
  <2>1. CASE q # n
    BY <1>0, <2>1
  <2>2. CASE q = n
    <3>1. steps'[q] = new /\ steps[q].rev \in Nat /\ new.rev \in Nat
      BY <1>0, <2>2 DEF StepHeads
    <3>2. \A prior \in StepHeads : Remembers(prior, steps[q]) => Remembers(prior, steps'[q])
      BY <2>2, <3>1 DEF Remembers, StepHeads
    <3>. QED  BY <2>2, <3>1, <3>2 DEF Recalls, Ended
  <2>. QED  BY <2>1, <2>2
<1>2. /\ call.seen \in Seq(StepHeads) /\ call.at \in 1..(Len(Order) + 1) /\ call.node \in Nodes
      /\ \A i \in 1..Len(call.seen) : call.seen[i] \in StepHeads
      /\ call.seen # <<>> => call.seen[1] \in StepHeads
  BY DEF WorkCalls
<1>3. call.op = "drive" => \A i \in 1..Len(call.seen) : i \in 1..Len(Order) /\ Recalls(call.seen[i], steps'[Order[i]])
  BY <1>1, <1>2, OrderedNodes DEF WorkCallStands
<1>4. \A i \in 1..(call.at - 1) : i \in 1..Len(Order) /\ Order[i] \in Nodes
  BY <1>2, OrderedNodes
<1>5. call.op = "cancel" /\ call.seen # <<>> => Remembers(call.seen[1], steps'[Order[call.at]])
  BY <1>1, <1>2, OrderedNodes DEF WorkCallStands
<1>. QED  BY <1>1, <1>2, <1>3, <1>4, <1>5 DEF WorkCallStands

\* A step record is written over one that has not ended.
LEMMA StepMoves ==
    ASSUME WorkflowInv, NEW c \in Callers, NEW call \in WorkCalls \cup {Free},
           wcall' = [wcall EXCEPT ![c] = call], call # Free => WorkCallStands(call, run', steps'),
           NEW n \in Nodes, NEW new \in StepHeads, steps' = [steps EXCEPT ![n] = new],
           new.rev = steps[n].rev + 1, new.state # "none", steps[n].state \notin Ended,
           new.state \in {"waiting", "succeeded"} => \A m \in Parents(n) : steps[m].state = "succeeded",
           UNCHANGED run
    PROVE  WorkflowInv'
<1>0. WorkflowTypeOK /\ steps[n] \in StepHeads /\ steps[n].rev \in Nat
  BY DEF WorkflowInv, WorkflowTypeOK, StepHeads
<1>1. WorkflowTypeOK'
  BY <1>0 DEF WorkflowTypeOK
<1>2. steps'[n] = new /\ \A q \in Nodes : q # n => steps'[q] = steps[q]
  BY <1>0 DEF WorkflowTypeOK
<1>3. RecordsMade'
  BY <1>0, <1>2 DEF WorkflowInv, RecordsMade
<1>4. run.state \notin {"succeeded", "cancelled"}
  <2>1. run.state # "succeeded"
    BY DEF WorkflowInv, RunMatchesSteps, Ended
  <2>2. run.state = "cancelled" => steps[n].rev > 0 /\ steps[n].state \notin Live
    BY DEF WorkflowInv, RunMatchesSteps, RecordsMade
  <2>3. steps[n].state \in StepStates \cup {"none"} /\ (steps[n].rev > 0 => steps[n].state # "none")
    BY <1>0 DEF StepHeads, WorkflowInv, RecordsMade
  <2>. QED  BY <2>1, <2>2, <2>3 DEF StepStates, Ended
<1>5. InOrder'
  <2> SUFFICES ASSUME NEW q \in Nodes, steps'[q].state \in {"waiting", "succeeded"}, NEW m \in Parents(q)
               PROVE  steps'[m].state = "succeeded"
    BY DEF InOrder
  <2>1. m \in Nodes /\ steps[m].state = "succeeded"
    BY <1>2 DEF WorkflowInv, InOrder, Parents
  <2>. QED  BY <1>2, <2>1 DEF Ended
<1>6. RunMatchesSteps'
  BY <1>4, <1>5 DEF RunMatchesSteps, InOrder
<1>7. ASSUME NEW d \in Callers, wcall'[d] # Free PROVE WorkCallStands(wcall'[d], run', steps')
  <2>1. CASE d = c
    BY <1>0, <1>7, <2>1 DEF WorkflowTypeOK
  <2>2. CASE d # c
    <3>1. wcall'[d] = wcall[d] /\ wcall[d] \in WorkCalls /\ WorkCallStands(wcall[d], run, steps)
      BY <1>0, <1>7, <2>2 DEF WorkflowTypeOK, WorkflowInv
    <3>. QED  BY <3>1, CallsKeepStanding
  <2>. QED  BY <2>1, <2>2
<1>. QED  BY <1>1, <1>3, <1>5, <1>6, <1>7 DEF WorkflowInv

\* A call that ends by writing the run, which has its steps.
LEMMA RunPut ==
    ASSUME WorkflowInv, NEW c \in Callers, wcall[c] # Free, UNCHANGED steps,
           NEW state \in {"running", "paused"} \cup Ended, PutRun(c, state),
           wcall[c].op = "start" => wcall[c].at > Len(Order),
           state = "succeeded" => \A n \in Nodes : steps[n].state = "succeeded",
           state = "cancelled" => \A n \in Nodes : steps[n].state \notin Live
    PROVE  WorkflowInv'
<1>1. wcall[c] \in WorkCalls /\ WorkCallStands(wcall[c], run, steps)
  BY DEF WorkflowInv, WorkflowTypeOK
<1>2. \A n \in Nodes : steps[n].rev > 0
  <2>1. CASE wcall[c].op = "start"
    <3>1. \A i \in 1..Len(Order) : i \in 1..(wcall[c].at - 1)
      BY <1>1, <2>1, OrderedNodes DEF WorkCalls
    <3>2. \A i \in 1..Len(Order) : steps[Order[i]].rev > 0
      BY <1>1, <2>1, <3>1 DEF WorkCallStands
    <3>. QED  BY <3>2, OrderedNodes
  <2>2. CASE wcall[c].op # "start"
    BY <1>1, <2>2 DEF WorkCallStands, WorkflowInv, RecordsMade
  <2>. QED  BY <2>1, <2>2
<1>3. CASE run' = run
  BY <1>3, WorkCallMoves DEF PutRun, Exit
<1>4. CASE run' = Appended(run, [run EXCEPT !.state = state])
  BY <1>2, <1>4, RunMoves DEF PutRun
<1>. QED  BY <1>3, <1>4 DEF PutRun

\* What an append leaves of a step.
LEMMA AppendedStep ==
    \A head, new \in StepHeads : /\ Appended(head, new) \in StepHeads
                                 /\ Appended(head, new).rev = head.rev + 1
                                 /\ Appended(head, new).state = new.state
BY DEF Appended, StepHeads

\* What run_ready_steps makes of a step.
LEMMA DrivenSteps ==
    ASSUME NEW n \in Nodes, NEW seen \in StepHeads, NEW d \in Driven(n, seen)
    PROVE  /\ d.step \in StepHeads /\ d.step.rev = seen.rev
           /\ d.step.state \in {"failed", "paused", "waiting", "succeeded"} /\ d.end \in {"failed", "blocked", "go"}
<1>1. \A state \in {"failed", "paused", "waiting", "succeeded"} :
         /\ [seen EXCEPT !.state = state] \in StepHeads /\ [seen EXCEPT !.state = state].rev = seen.rev
         /\ [seen EXCEPT !.state = state].state = state
         /\ [seen EXCEPT !.state = state, !.started = TRUE] \in StepHeads
         /\ [seen EXCEPT !.state = state, !.started = TRUE].rev = seen.rev
         /\ [seen EXCEPT !.state = state, !.started = TRUE].state = state
  BY DEF StepHeads, StepStates, Live
<1>2. \E state \in {"failed", "paused", "waiting", "succeeded"}, end \in {"failed", "blocked", "go"} :
         \/ d = [step |-> [seen EXCEPT !.state = state], end |-> end]
         \/ d = [step |-> [seen EXCEPT !.state = state, !.started = TRUE], end |-> end]
  BY DEF Driven
<1>3. PICK state \in {"failed", "paused", "waiting", "succeeded"}, end \in {"failed", "blocked", "go"} :
         \/ d = [step |-> [seen EXCEPT !.state = state], end |-> end]
         \/ d = [step |-> [seen EXCEPT !.state = state, !.started = TRUE], end |-> end]
  BY <1>2
<1>4. d.end = end /\ (d.step = [seen EXCEPT !.state = state] \/ d.step = [seen EXCEPT !.state = state, !.started = TRUE])
  BY <1>3
<1>. QED  BY <1>1, <1>4

\* A call that goes on, to another node, with other steps read or another end.
LEMMA WorkCallGoesOn ==
    ASSUME NEW call \in WorkCalls
    PROVE  /\ \A at \in 1..(Len(Order) + 1) : [call EXCEPT !.at = at] \in WorkCalls
           /\ \A seen \in Seq(StepHeads) : [call EXCEPT !.seen = seen] \in WorkCalls
           /\ \A at \in 1..(Len(Order) + 1), end \in {"running", "failed", "blocked"} :
                 [call EXCEPT !.at = at, !.end = end] \in WorkCalls
           /\ \A at \in 1..(Len(Order) + 1), seen \in Seq(StepHeads) : [call EXCEPT !.at = at, !.seen = seen] \in WorkCalls
           /\ \A at \in 1..(Len(Order) + 1), seen \in Seq(StepHeads), end \in {"running", "failed", "blocked"} :
                 [call EXCEPT !.at = at, !.seen = seen, !.end = end] \in WorkCalls
BY DEF WorkCalls

\* start writes the next step, or the run.
LEMMA StartWritesKeeps ==
    ASSUME WorkflowInv, NEW c \in Callers, StartWrites(c)
    PROVE  WorkflowInv'
<1>0. WorkflowTypeOK /\ wcall[c] \in WorkCalls /\ WorkCallStands(wcall[c], run, steps)
  BY DEF StartWrites, WorkflowInv, WorkflowTypeOK
<1>1. wcall[c] # Free /\ wcall[c].op = "start" /\ wcall[c].at \in 1..(Len(Order) + 1) /\ Len(Order) \in Nat
  BY <1>0, OrderedNodes DEF StartWrites, WorkCalls
<1>2. CASE wcall[c].at > Len(Order)
  BY <1>1, <1>2, RunPut DEF StartWrites
<1>3. CASE ~(wcall[c].at > Len(Order))
  <2> DEFINE n == Order[wcall[c].at]
             mid == [Absent EXCEPT !.state = "pending"]
             new == Appended(steps[n], mid)
             call == [wcall[c] EXCEPT !.at = wcall[c].at + 1]
  <2>1. n \in Nodes /\ steps[n] \in StepHeads /\ UNCHANGED run
    BY <1>0, <1>1, <1>3, OrderedNodes DEF StartWrites, WorkflowTypeOK
  <2>2. CASE Exit(c) /\ UNCHANGED steps
    BY <2>1, <2>2, WorkCallMoves DEF Exit
  <2>3. CASE StepUnmoved(n, 0) /\ PutStep(n, mid) /\ wcall' = [wcall EXCEPT ![c].at = @ + 1]
    <3>1. mid \in StepHeads /\ mid.state = "pending"
      <4>1. Absent \in StepHeads
        BY WorkflowAssumption DEF Absent, StepHeads
      <4>. QED  BY <4>1 DEF StepHeads, StepStates, Live
    <3> HIDE DEF mid
    <3>2. new \in StepHeads /\ new.rev = steps[n].rev + 1 /\ new.state = "pending"
      BY <2>1, <3>1, AppendedStep
    <3>3. steps' = [steps EXCEPT ![n] = new] /\ steps[n].rev = 0 /\ steps[n].state \notin Ended
      BY <2>1, <2>3 DEF PutStep, StepUnmoved, HeadUnmoved, WorkflowInv, RecordsMade, Ended
    <3> HIDE DEF new
    <3>4. wcall' = [wcall EXCEPT ![c] = call] /\ call \in WorkCalls
      <4>1. wcall[c].at + 1 \in 1..(Len(Order) + 1)
        BY <1>1, <1>3
      <4>2. call \in WorkCalls
        BY <1>0, <4>1, WorkCallGoesOn
      <4>. QED  BY <1>0, <2>3, <4>2 DEF WorkflowTypeOK
    <3>5. call.op = "start" /\ call.at = wcall[c].at + 1
      BY <1>0, <1>1 DEF WorkCalls
    <3> HIDE DEF call
    <3>6. WorkCallStands(wcall[c], run', steps')
      BY <1>0, <2>1, <3>2, <3>3, CallsKeepStanding
    <3>7. steps'[n].rev > 0
      BY <1>0, <2>1, <3>2, <3>3 DEF WorkflowTypeOK
    <3>8. \A i \in 1..(call.at - 1) : i \in 1..(wcall[c].at - 1) \/ i = wcall[c].at
      BY <1>1, <3>5
    <3>9. WorkCallStands(call, run', steps')
      BY <1>1, <3>5, <3>6, <3>7, <3>8 DEF WorkCallStands
    <3>. QED  BY <2>1, <3>2, <3>3, <3>4, <3>9, StepMoves
  <2>. QED  BY <1>3, <2>2, <2>3 DEF StartWrites
<1>. QED  BY <1>2, <1>3

\* A turn of run_ready_steps that writes the step it read, which has not moved.
LEMMA DriveWrites ==
    ASSUME WorkflowInv, NEW c \in Callers, wcall[c] # Free, wcall[c].op = "drive", Len(wcall[c].seen) = Len(Order),
           NEW i \in 1..Len(Order), wcall[c].seen[i].state \in {"pending", "waiting"},
           HeadUnmoved(steps[Order[i]], wcall[c].seen[i].rev),
           NEW put \in StepHeads, put.state \in StepStates,
           put.state \in {"waiting", "succeeded"} => \A m \in Parents(Order[i]) : steps[m].state = "succeeded",
           NEW left \in StepHeads, Recalls(left, Appended(steps[Order[i]], put)),
           NEW at \in 1..(Len(Order) + 1), NEW end \in {"running", "failed", "blocked"},
           steps' = [steps EXCEPT ![Order[i]] = Appended(steps[Order[i]], put)], UNCHANGED run,
           wcall' = [wcall EXCEPT ![c] =
                       [wcall[c] EXCEPT !.at = at, !.seen = [wcall[c].seen EXCEPT ![i] = left], !.end = end]]
    PROVE  WorkflowInv'
<1> DEFINE n == Order[i]
           all == wcall[c].seen
           new == Appended(steps[n], put)
           later == [all EXCEPT ![i] = left]
           call == [wcall[c] EXCEPT !.at = at, !.seen = later, !.end = end]
<1>0. WorkflowTypeOK /\ wcall[c] \in WorkCalls /\ WorkCallStands(wcall[c], run, steps) /\ n \in Nodes
  BY OrderedNodes DEF WorkflowInv, WorkflowTypeOK
<1>1. all \in Seq(StepHeads) /\ Len(all) = Len(Order) /\ Recalls(all[i], steps[n])
  BY <1>0 DEF WorkCalls, WorkCallStands
<1>2. steps[n] \in StepHeads
  BY <1>0 DEF WorkflowTypeOK
<1>3. new \in StepHeads /\ new.rev = steps[n].rev + 1 /\ new.state = put.state /\ put.state # "none"
  BY <1>2, AppendedStep DEF StepStates, Live
<1>4. steps[n].state \notin Ended
  BY <1>1 DEF Recalls, Remembers, HeadUnmoved, Ended
<1>5. /\ later \in Seq(StepHeads) /\ Len(later) = Len(Order)
      /\ \A j \in 1..Len(Order) : later[j] = IF j = i THEN left ELSE all[j]
  BY <1>1, ExceptSeq
<1>6. steps' = [steps EXCEPT ![n] = new] /\ wcall' = [wcall EXCEPT ![c] = call]
  OBVIOUS
<1> HIDE DEF new, later
<1>7. call \in WorkCalls
  BY <1>0, <1>5, WorkCallGoesOn
<1>8. call.op = "drive" /\ call.seen = later /\ call.rev = wcall[c].rev
  BY <1>0 DEF WorkCalls
<1>9. WorkCallStands(wcall[c], run', steps')
  BY <1>0, <1>3, <1>4, <1>6, CallsKeepStanding
<1>10. Recalls(left, steps'[n])
  BY <1>0, <1>6 DEF WorkflowTypeOK, new
<1> HIDE DEF call, n
<1>11. \A j \in 1..Len(Order) : Recalls(later[j], steps'[Order[j]])
  BY <1>1, <1>5, <1>9, <1>10 DEF WorkCallStands, n
<1>12. WorkCallStands(call, run', steps')
  BY <1>5, <1>8, <1>9, <1>11, OrderedNodes DEF WorkCallStands
<1>. QED  BY <1>0, <1>3, <1>4, <1>6, <1>7, <1>12, StepMoves DEF n

\* A turn of run_ready_steps.
LEMMA DriveTurnKeeps ==
    ASSUME WorkflowInv, NEW c \in Callers, DriveTurn(c)
    PROVE  WorkflowInv'
<1> DEFINE i == wcall[c].at
           n == Order[i]
           all == wcall[c].seen
           seen == all[i]
<1>0. WorkflowTypeOK /\ wcall[c] \in WorkCalls /\ WorkCallStands(wcall[c], run, steps) /\ wcall[c] # Free
  BY DEF DriveTurn, WorkflowInv, WorkflowTypeOK
<1>1. /\ wcall[c].op = "drive" /\ i \in 1..Len(Order) /\ Len(Order) \in Nat /\ Len(all) = Len(Order) /\ all \in Seq(StepHeads)
      /\ UNCHANGED run
  <2>1. /\ wcall[c].op = "drive" /\ i <= Len(Order) /\ Len(all) = Len(Order) /\ UNCHANGED run
    BY DEF DriveTurn
  <2>2. i \in 1..(Len(Order) + 1) /\ all \in Seq(StepHeads)
    BY <1>0 DEF WorkCalls
  <2>. QED  BY <2>1, <2>2, OrderedNodes
<1>2. n \in Nodes /\ steps[n] \in StepHeads /\ steps[n].rev \in Nat /\ seen \in StepHeads
  <2>1. n \in Nodes
    BY <1>1, OrderedNodes
  <2>2. steps[n] \in StepHeads
    BY <1>0, <2>1 DEF WorkflowTypeOK
  <2>3. seen \in StepHeads
    BY <1>1
  <2>. QED  BY <2>1, <2>2, <2>3 DEF StepHeads
<1>3. \A j \in 1..Len(Order) : Recalls(all[j], steps[Order[j]])
  BY <1>0, <1>1 DEF WorkCallStands
<1>4. \A end \in {"running", "failed", "blocked"} :
         wcall' = [wcall EXCEPT ![c].at = i + 1, ![c].end = end] /\ UNCHANGED steps => WorkflowInv'
  <2> SUFFICES ASSUME NEW end \in {"running", "failed", "blocked"},
                      wcall' = [wcall EXCEPT ![c].at = i + 1, ![c].end = end], UNCHANGED steps
               PROVE  WorkflowInv'
    OBVIOUS
  <2> DEFINE call == [wcall[c] EXCEPT !.at = i + 1, !.end = end]
  <2>1. wcall' = [wcall EXCEPT ![c] = call] /\ call \in WorkCalls
    <3>1. i + 1 \in 1..(Len(Order) + 1)
      BY <1>1
    <3>2. call \in WorkCalls
      BY <1>0, <3>1, WorkCallGoesOn
    <3>. QED  BY <1>0, <3>2 DEF WorkflowTypeOK
  <2>2. call.op = "drive" /\ call.seen = all /\ call.rev = wcall[c].rev
    BY <1>0, <1>1 DEF WorkCalls
  <2> HIDE DEF call
  <2>3. WorkCallStands(call, run, steps)
    BY <1>0, <1>1, <2>2 DEF WorkCallStands
  <2>. QED  BY <1>1, <2>1, <2>3, WorkCallMoves
<1>5. Ready(c, n) => \A m \in Parents(n) : steps[m].state = "succeeded"
  <2> SUFFICES ASSUME Ready(c, n), NEW m \in Parents(n) PROVE steps[m].state = "succeeded"
    OBVIOUS
  <2>1. PICK j \in 1..Len(Order) : Order[j] = m
    BY OrderedNodes DEF Parents
  <2>2. DOMAIN Order = 1..Len(Order)
    BY WorkflowAssumption
  <2>. QED  BY <1>3, <2>1, <2>2 DEF Ready, Recalls
<1>6. CASE Exit(c) /\ UNCHANGED steps
  BY <1>1, <1>6, WorkCallMoves DEF Exit
<1>8. ASSUME seen.state \in {"pending", "waiting"}, Ready(c, n), StepUnmoved(n, seen.rev),
             NEW d \in Driven(n, seen), PutStep(n, d.step),
             wcall' = [wcall EXCEPT ![c].at = i + 1, ![c].seen = [@ EXCEPT ![i] = d.step],
                                    ![c].end = IF d.end = "go" THEN "running" ELSE d.end]
      PROVE  WorkflowInv'
  <2>1. /\ d.step \in StepHeads /\ d.step.rev = seen.rev /\ d.step.state \in StepStates
        /\ d.end \in {"failed", "blocked", "go"}
    BY <1>2, DrivenSteps DEF StepStates, Live
  <2>2. PICK end \in {"running", "failed", "blocked"} : end = IF d.end = "go" THEN "running" ELSE d.end
    BY <2>1
  <2>3. wcall' = [wcall EXCEPT ![c] = [wcall[c] EXCEPT !.at = i + 1, !.seen = [all EXCEPT ![i] = d.step], !.end = end]]
    BY <1>0, <1>8, <2>2 DEF WorkflowTypeOK
  <2>4. Recalls(d.step, Appended(steps[n], d.step))
    BY <1>2, <1>8, <2>1, AppendedStep DEF Recalls, Remembers, StepUnmoved, HeadUnmoved, StepHeads
  <2>5. i + 1 \in 1..(Len(Order) + 1)
    BY <1>1
  <2>6. /\ HeadUnmoved(steps[n], seen.rev) /\ steps' = [steps EXCEPT ![n] = Appended(steps[n], d.step)]
        /\ \A m \in Parents(n) : steps[m].state = "succeeded"
    BY <1>5, <1>8 DEF StepUnmoved, PutStep
  <2>7. seen.state \in {"pending", "waiting"}
    BY <1>8
  <2>. QED  BY <1>0, <1>1, <2>1, <2>3, <2>4, <2>5, <2>6, <2>7, DriveWrites
<1>9. ASSUME seen.state \in {"pending", "waiting"}, Ready(c, n), StepUnmoved(n, seen.rev), seen.attempt < MaxAttempts,
             NEW retry, retry = [seen EXCEPT !.attempt = @ + 1, !.started = TRUE, !.rev = steps[n].rev + 1],
             PutStep(n, retry), wcall' = [wcall EXCEPT ![c].seen[i] = retry]
      PROVE  WorkflowInv'
  <2>1. PICK attempt \in 1..MaxAttempts : attempt = seen.attempt + 1
    <3>1. MaxAttempts \in Nat
      BY WorkflowAssumption
    <3>2. seen.attempt \in 1..MaxAttempts
      BY <1>2 DEF StepHeads
    <3>3. seen.attempt < MaxAttempts
      BY <1>9
    <3> HIDE DEF seen
    <3>. QED  BY <3>1, <3>2, <3>3
  <2>2. PICK rev \in Nat : rev = steps[n].rev + 1
    BY <1>2
  <2>3. retry = [seen EXCEPT !.attempt = attempt, !.started = TRUE, !.rev = rev]
    BY <1>9, <2>1, <2>2
  <2>4. retry \in StepHeads /\ retry.state = seen.state /\ retry.rev = rev /\ [retry EXCEPT !.rev = rev] = retry
    BY <1>2, <2>3 DEF StepHeads
  <2>5. Appended(steps[n], retry) = retry
    BY <2>2, <2>4 DEF Appended
  <2>6. Recalls(retry, Appended(steps[n], retry))
    BY <2>2, <2>4, <2>5 DEF Recalls, Remembers
  <2>7. retry.state \in StepStates
    BY <1>9, <2>4 DEF StepStates, Live
  <2>8. wcall[c].at \in 1..(Len(Order) + 1) /\ wcall[c].end \in {"running", "failed", "blocked"}
    BY <1>0 DEF WorkCalls
  <2>9. wcall' = [wcall EXCEPT ![c] = [wcall[c] EXCEPT !.at = wcall[c].at, !.seen = [all EXCEPT ![i] = retry], !.end = wcall[c].end]]
    <3>1. wcall' = [wcall EXCEPT ![c] = [wcall[c] EXCEPT !.seen = [all EXCEPT ![i] = retry]]]
      BY <1>0, <1>9 DEF WorkflowTypeOK
    <3>2. \A s \in Seq(StepHeads) : [wcall[c] EXCEPT !.seen = s] = [wcall[c] EXCEPT !.at = wcall[c].at, !.seen = s, !.end = wcall[c].end]
      BY <1>0 DEF WorkCalls
    <3>3. [all EXCEPT ![i] = retry] \in Seq(StepHeads)
      BY <1>1, <2>4, ExceptSeq
    <3>. QED  BY <3>1, <3>2, <3>3
  <2>10. /\ HeadUnmoved(steps[n], seen.rev) /\ steps' = [steps EXCEPT ![n] = Appended(steps[n], retry)]
         /\ \A m \in Parents(n) : steps[m].state = "succeeded"
    BY <1>5, <1>9 DEF StepUnmoved, PutStep
  <2>11. seen.state \in {"pending", "waiting"}
    BY <1>9
  <2>. QED  BY <1>0, <1>1, <2>4, <2>6, <2>7, <2>8, <2>9, <2>10, <2>11, DriveWrites
<1>. QED  BY <1>4, <1>6, <1>8, <1>9 DEF DriveTurn

\* A call about a node that is not a drive or a start writes the step it read.
LEMMA SettledStep ==
    ASSUME WorkflowInv, NEW n \in Nodes, NEW seen \in StepHeads, Remembers(seen, steps[n]), seen.state \notin Ended,
           StepUnmoved(n, seen.rev), NEW state \in StepStates, PutStep(n, [seen EXCEPT !.state = state])
    PROVE  \E new \in StepHeads : /\ steps' = [steps EXCEPT ![n] = new] /\ new.rev = steps[n].rev + 1
                                  /\ new.state = state /\ steps[n] = seen
<1> DEFINE mid == [seen EXCEPT !.state = state]
<1>1. mid \in StepHeads /\ mid.state = state
  BY DEF StepHeads
<1>2. steps' = [steps EXCEPT ![n] = Appended(steps[n], mid)] /\ steps[n] \in StepHeads /\ steps[n] = seen
  BY DEF PutStep, WorkflowInv, WorkflowTypeOK, Remembers, StepUnmoved, HeadUnmoved
<1> HIDE DEF mid
<1>. QED  BY <1>1, <1>2, AppendedStep

\* A decision settles the gate it found waiting.
LEMMA DecideWritesKeeps ==
    ASSUME WorkflowInv, NEW c \in Callers, DecideWrites(c)
    PROVE  WorkflowInv'
<1> DEFINE n == wcall[c].node
           seen == wcall[c].seen[1]
<1>0. WorkflowTypeOK /\ wcall[c] \in WorkCalls /\ WorkCallStands(wcall[c], run, steps) /\ wcall[c] # Free /\ UNCHANGED run
  BY DEF DecideWrites, WorkflowInv, WorkflowTypeOK
<1>1. wcall[c].op \in {"grant", "deny", "wake"} /\ wcall[c].seen # <<>> /\ wcall[c].at = 1
  BY DEF DecideWrites
<1>2. n \in Nodes /\ wcall[c].seen \in Seq(StepHeads)
  BY <1>0 DEF WorkCalls
<1>3. seen \in StepHeads
  BY <1>1, <1>2
<1>4. seen.state = "waiting" /\ Remembers(seen, steps[n])
  BY <1>0, <1>1 DEF WorkCallStands
<1>5. CASE Exit(c) /\ UNCHANGED steps
  BY <1>0, <1>5, WorkCallMoves DEF Exit
<1>6. ASSUME StepUnmoved(n, seen.rev), NEW state \in {"succeeded", "failed"}, PutStep(n, [seen EXCEPT !.state = state]),
             Exit(c) \/ wcall' = [wcall EXCEPT ![c].at = 2]
      PROVE  WorkflowInv'
  <2>1. seen.state \notin Ended /\ state \in StepStates /\ state # "none"
    BY <1>4 DEF Ended, StepStates
  <2>2. PICK new \in StepHeads : /\ steps' = [steps EXCEPT ![n] = new] /\ new.rev = steps[n].rev + 1
                                 /\ new.state = state /\ steps[n] = seen
    BY <1>2, <1>3, <1>4, <1>6, <2>1, SettledStep
  <2>3. \A m \in Parents(n) : steps[m].state = "succeeded"
    BY <1>2, <1>4, <2>2 DEF WorkflowInv, InOrder
  <2>4. CASE Exit(c)
    BY <1>0, <1>2, <2>1, <2>2, <2>3, <2>4, StepMoves DEF Exit
  <2>5. CASE wcall' = [wcall EXCEPT ![c].at = 2]
    <3> DEFINE call == [wcall[c] EXCEPT !.at = 2]
    <3>1. 2 \in 1..(Len(Order) + 1)
      BY OrderedNodes
    <3>2. call \in WorkCalls
      BY <1>0, <3>1, WorkCallGoesOn
    <3>3. wcall' = [wcall EXCEPT ![c] = call]
      BY <1>0, <2>5 DEF WorkflowTypeOK
    <3>4. call.op = wcall[c].op /\ call.seen = wcall[c].seen /\ call.rev = wcall[c].rev /\ call.node = wcall[c].node
      BY <1>0 DEF WorkCalls
    <3> HIDE DEF call
    <3>5. WorkCallStands(wcall[c], run', steps')
      BY <1>0, <1>2, <2>1, <2>2, CallsKeepStanding
    <3>6. WorkCallStands(call, run', steps')
      BY <1>1, <3>4, <3>5 DEF WorkCallStands
    <3>. QED  BY <1>0, <1>2, <2>1, <2>2, <2>3, <3>2, <3>3, <3>6, StepMoves
  <2>. QED  BY <1>6, <2>4, <2>5
<1>. QED  BY <1>5, <1>6 DEF DecideWrites

\* A turn of cancel: it reads a step, writes it, or writes the run at the end.
LEMMA CancelTurnKeeps ==
    ASSUME WorkflowInv, NEW c \in Callers, CancelTurn(c)
    PROVE  WorkflowInv'
<1> DEFINE at == wcall[c].at
           n == Order[at]
           next == [wcall[c] EXCEPT !.at = at + 1, !.seen = <<>>]
<1>0. WorkflowTypeOK /\ wcall[c] \in WorkCalls /\ WorkCallStands(wcall[c], run, steps) /\ wcall[c] # Free
  BY DEF CancelTurn, WorkflowInv, WorkflowTypeOK
<1>1. wcall[c].op = "cancel"
  BY DEF CancelTurn
<1>2. at \in 1..(Len(Order) + 1) /\ wcall[c].seen \in Seq(StepHeads) /\ Len(Order) \in Nat
  BY <1>0, OrderedNodes DEF WorkCalls
<1>3. \A j \in 1..(at - 1) : steps[Order[j]].state \in Ended
  BY <1>0, <1>1 DEF WorkCallStands
<1>4. CASE at > Len(Order)
  <2>1. \A j \in 1..Len(Order) : j \in 1..(at - 1)
    BY <1>2, <1>4
  <2>2. \A q \in Nodes : steps[q].state \in Ended
    BY <1>3, <2>1, OrderedNodes
  <2>3. PutRun(c, "cancelled") /\ UNCHANGED steps
    BY <1>4 DEF CancelTurn
  <2>4. "cancelled" \in {"running", "paused"} \cup Ended /\ \A q \in Nodes : steps[q].state \notin Live
    BY <2>2 DEF Ended, Live
  <2>. QED  BY <1>0, <1>1, <2>3, <2>4, RunPut
<1>5. CASE ~(at > Len(Order))
  <2>1. at \in 1..Len(Order) /\ at + 1 \in 1..(Len(Order) + 1)
    BY <1>2, <1>5
  <2>2. n \in Nodes /\ steps[n] \in StepHeads
    BY <1>0, <2>1, OrderedNodes DEF WorkflowTypeOK
  <2>3. UNCHANGED run
    BY <1>5 DEF CancelTurn
  <2>4. <<>> \in Seq(StepHeads)
    OBVIOUS
  <2>5. next \in WorkCalls
    BY <1>0, <2>1, <2>4, WorkCallGoesOn
  <2>6. next.op = "cancel" /\ next.rev = wcall[c].rev /\ next.at = at + 1 /\ next.seen = <<>>
    BY <1>0, <1>1 DEF WorkCalls
  <2>7. (wcall' = [wcall EXCEPT ![c].at = @ + 1, ![c].seen = <<>>]) => wcall' = [wcall EXCEPT ![c] = next]
    BY <1>0 DEF WorkflowTypeOK
  <2> HIDE DEF next
  <2>8. \A j \in 1..(next.at - 1) : j \in 1..(at - 1) \/ j = at
    BY <1>2, <2>6
  <2>9. CASE UNCHANGED steps /\ wcall' = [wcall EXCEPT ![c] = next] /\ steps[n].state \notin Live
    <3>1. run.rev > 0
      BY <1>0, <1>1 DEF WorkCallStands
    <3>2. steps[n].state # "none" /\ steps[n].state \in StepStates \cup {"none"}
      BY <2>2, <3>1 DEF WorkflowInv, RecordsMade, StepHeads
    <3>3. steps[n].state \in Ended
      BY <2>9, <3>2 DEF StepStates, Ended
    <3>4. WorkCallStands(next, run, steps)
      BY <1>0, <1>1, <1>3, <2>6, <2>8, <3>1, <3>3 DEF WorkCallStands
    <3>. QED  BY <2>3, <2>5, <2>9, <3>4, WorkCallMoves
  <2>10. CASE UNCHANGED steps /\ wcall' = [wcall EXCEPT ![c].seen = <<steps[n]>>] /\ steps[n].state \in Live
    <3> DEFINE call == [wcall[c] EXCEPT !.seen = <<steps[n]>>]
    <3>1. <<steps[n]>> \in Seq(StepHeads) /\ <<steps[n]>>[1] = steps[n]
      BY <2>2
    <3>2. call \in WorkCalls
      BY <1>0, <3>1, WorkCallGoesOn
    <3>3. call.op = "cancel" /\ call.rev = wcall[c].rev /\ call.at = at /\ call.seen = <<steps[n]>>
      BY <1>0, <1>1 DEF WorkCalls
    <3>4. wcall' = [wcall EXCEPT ![c] = call]
      BY <1>0, <2>10 DEF WorkflowTypeOK
    <3> HIDE DEF call
    <3>5. Remembers(steps[n], steps[n])
      BY <2>2 DEF Remembers, StepHeads
    <3>6. WorkCallStands(call, run, steps)
      BY <1>0, <1>1, <1>3, <2>1, <2>10, <3>1, <3>3, <3>5 DEF WorkCallStands
    <3>. QED  BY <2>3, <2>10, <3>2, <3>4, <3>6, WorkCallMoves
  <2>11. CASE Exit(c) /\ UNCHANGED steps
    BY <2>3, <2>11, WorkCallMoves DEF Exit
  <2>12. CASE /\ wcall[c].seen # <<>> /\ StepUnmoved(n, wcall[c].seen[1].rev) /\ wcall' = [wcall EXCEPT ![c] = next]
              /\ PutStep(n, [wcall[c].seen[1] EXCEPT !.state = "cancelled"])
    <3>1. wcall[c].seen[1] \in StepHeads
      BY <1>2, <2>12
    <3>2. wcall[c].seen[1].state \in Live /\ Remembers(wcall[c].seen[1], steps[n])
      BY <1>0, <1>1, <2>12 DEF WorkCallStands
    <3>3. wcall[c].seen[1].state \notin Ended /\ "cancelled" \in StepStates
      BY <3>2 DEF Live, Ended, StepStates
    <3>4. PICK new \in StepHeads : /\ steps' = [steps EXCEPT ![n] = new] /\ new.rev = steps[n].rev + 1
                                   /\ new.state = "cancelled" /\ steps[n] = wcall[c].seen[1]
      BY <2>2, <2>12, <3>1, <3>2, <3>3, SettledStep
    <3>5. WorkCallStands(wcall[c], run', steps')
      BY <1>0, <2>2, <2>3, <3>3, <3>4, CallsKeepStanding
    <3>6. steps'[n].state \in Ended
      BY <1>0, <2>2, <3>4 DEF WorkflowTypeOK, Ended
    <3>7. WorkCallStands(next, run', steps')
      BY <1>1, <2>6, <2>8, <3>5, <3>6 DEF WorkCallStands
    <3>. QED  BY <2>2, <2>3, <2>5, <2>12, <3>3, <3>4, <3>7, StepMoves
  <2>. QED  BY <1>5, <2>7, <2>9, <2>10, <2>11, <2>12 DEF CancelTurn
<1>. QED  BY <1>4, <1>5

\* Every step of the engine keeps the invariant.
LEMMA WorkflowInvStep == WorkflowInv /\ [WorkflowsMove]_wvars => WorkflowInv'
<1> SUFFICES ASSUME WorkflowInv, [WorkflowsMove]_wvars PROVE WorkflowInv'
  OBVIOUS
<1>0. WorkflowTypeOK /\ RecordsMade /\ Order[1] \in Nodes
  BY OrderedNodes DEF WorkflowInv
<1>1. \A c \in Callers : wcall[c] # Free => wcall[c] \in WorkCalls /\ WorkCallStands(wcall[c], run, steps)
  BY <1>0 DEF WorkflowInv, WorkflowTypeOK
<1>2. CASE UNCHANGED wvars
  BY <1>2 DEF wvars, WorkflowInv, WorkflowTypeOK, RunMatchesSteps, RecordsMade, InOrder
<1>3. ASSUME NEW c \in Callers, NEW n \in Nodes, Call(c, "start", n) PROVE WorkflowInv'
  <2> DEFINE call == [op |-> "start", node |-> n, at |-> 1, rev |-> run.rev, seen |-> <<>>, end |-> "running"]
  <2>1. call \in WorkCalls
    BY <1>0, OrderedNodes DEF WorkCalls, WorkflowTypeOK, RunHeads
  <2>2. WorkCallStands(call, run, steps)
    BY DEF WorkCallStands
  <2>. QED  BY <1>3, <2>1, <2>2, WorkCallMoves DEF Call
<1>4. ASSUME NEW c \in Callers, NEW n \in Nodes, run.state # "none",
             NEW op \in {"drive", "cancel", "pause", "resume", "grant", "deny", "wake"}, Call(c, op, n)
      PROVE  WorkflowInv'
  <2> DEFINE call == [op |-> op, node |-> n, at |-> 1, rev |-> run.rev, seen |-> <<>>, end |-> "running"]
  <2>1. call \in WorkCalls
    BY <1>0, OrderedNodes DEF WorkCalls, WorkflowTypeOK, RunHeads
  <2>2. run.rev > 0
    BY <1>0, <1>4 DEF RecordsMade
  <2>3. WorkCallStands(call, run, steps)
    BY <2>2, OrderedNodes DEF WorkCallStands
  <2>. QED  BY <1>4, <2>1, <2>3, WorkCallMoves DEF Call
<1>5. ASSUME NEW c \in Callers, GatedCall(c) \/ OpenCall(c) PROVE WorkflowInv'
  BY <1>0, <1>3, <1>4, <1>5 DEF GatedCall, OpenCall, Start, Drive, Cancel, Pause, Resume, Decide
<1>6. ASSUME NEW c \in Callers, DriveReads(c) PROVE WorkflowInv'
  <2> DEFINE all == wcall[c].seen
             k == Len(all) + 1
             later == Append(all, steps[Order[k]])
             call == [wcall[c] EXCEPT !.seen = later]
  <2>1. wcall[c] \in WorkCalls /\ WorkCallStands(wcall[c], run, steps) /\ wcall[c].op = "drive" /\ Len(all) < Len(Order)
        /\ UNCHANGED <<run, steps>>
    BY <1>1, <1>6 DEF DriveReads
  <2>2. all \in Seq(StepHeads)
    BY <2>1 DEF WorkCalls
  <2>3. k \in 1..Len(Order)
    BY <2>1, <2>2, OrderedNodes
  <2>4. Order[k] \in Nodes /\ steps[Order[k]] \in StepHeads
    BY <1>0, <2>3, OrderedNodes DEF WorkflowTypeOK
  <2>5. later \in Seq(StepHeads) /\ Len(later) = k /\ later[k] = steps[Order[k]] /\ \A j \in 1..Len(all) : later[j] = all[j]
    BY <2>2, <2>4
  <2>6. call \in WorkCalls
    BY <2>1, <2>5, WorkCallGoesOn
  <2>7. call.op = "drive" /\ call.rev = wcall[c].rev /\ call.seen = later /\ call.at = wcall[c].at
    BY <2>1 DEF WorkCalls
  <2>8. wcall' = [wcall EXCEPT ![c] = call]
    BY <1>0, <1>6 DEF DriveReads, WorkflowTypeOK
  <2>9. Recalls(steps[Order[k]], steps[Order[k]])
    BY <2>4 DEF Recalls, Remembers, StepHeads
  <2>10. \A j \in 1..k : j \in 1..Len(all) \/ j = k
    BY <2>2
  <2> HIDE DEF call, later, k
  <2>11. \A j \in 1..k : Recalls(later[j], steps[Order[j]])
    BY <2>1, <2>5, <2>9, <2>10 DEF WorkCallStands
  <2>12. WorkCallStands(call, run, steps)
    BY <2>1, <2>2, <2>3, <2>5, <2>7, <2>11, OrderedNodes DEF WorkCallStands
  <2>. QED  BY <2>1, <2>6, <2>8, <2>12, WorkCallMoves
<1>7. ASSUME NEW c \in Callers, DriveEnds(c) PROVE WorkflowInv'
  <2>1. wcall[c] # Free /\ wcall[c] \in WorkCalls /\ WorkCallStands(wcall[c], run, steps) /\ wcall[c].op = "drive" /\ UNCHANGED steps
    BY <1>1, <1>7 DEF DriveEnds
  <2>2. PICK state \in {"failed", "succeeded", "running"} :
           PutRun(c, state) /\ (state = "succeeded" => wcall[c].end # "blocked" /\ wcall[c].end # "failed" /\ AllDone(c))
    BY <1>7 DEF DriveEnds
  <2>3. state = "succeeded" => Len(wcall[c].seen) = Len(Order)
    <3>1. wcall[c].at \in 1..(Len(Order) + 1) /\ wcall[c].end \in {"running", "failed", "blocked"}
      BY <2>1 DEF WorkCalls
    <3>2. wcall[c].end # "running" \/ wcall[c].at > Len(Order)
      BY <1>7 DEF DriveEnds
    <3>. QED  BY <2>1, <2>2, <3>1, <3>2, OrderedNodes DEF WorkCallStands
  <2>4. state = "succeeded" => \A n \in Nodes : steps[n].state = "succeeded"
    <3> SUFFICES ASSUME state = "succeeded", NEW n \in Nodes PROVE steps[n].state = "succeeded"
      OBVIOUS
    <3>1. PICK i \in 1..Len(Order) : Order[i] = n
      BY OrderedNodes
    <3>2. DOMAIN Order = 1..Len(Order)
      BY WorkflowAssumption
    <3>. QED  BY <2>1, <2>2, <2>3, <3>1, <3>2 DEF AllDone, WorkCallStands, Recalls
  <2>. QED  BY <2>1, <2>2, <2>4, RunPut DEF Ended
<1>8. ASSUME NEW c \in Callers, DecideReads(c) PROVE WorkflowInv'
  <2> DEFINE n == wcall[c].node
             call == [wcall[c] EXCEPT !.seen = <<steps[n]>>]
  <2>1. /\ wcall[c] \in WorkCalls /\ WorkCallStands(wcall[c], run, steps) /\ wcall[c].op \in {"grant", "deny", "wake"}
        /\ UNCHANGED <<run, steps>>
    BY <1>1, <1>8 DEF DecideReads
  <2>2. CASE Exit(c)
    BY <2>1, <2>2, WorkCallMoves DEF Exit
  <2>3. CASE wcall' = [wcall EXCEPT ![c].seen = <<steps[n]>>] /\ steps[n].state = "waiting"
    <3>1. n \in Nodes /\ steps[n] \in StepHeads
      BY <1>0, <2>1 DEF WorkCalls, WorkflowTypeOK
    <3>2. <<steps[n]>> \in Seq(StepHeads) /\ <<steps[n]>>[1] = steps[n]
      BY <3>1
    <3>3. call \in WorkCalls
      BY <2>1, <3>2, WorkCallGoesOn
    <3>4. call.op = wcall[c].op /\ call.rev = wcall[c].rev /\ call.seen = <<steps[n]>> /\ call.node = n
      BY <2>1 DEF WorkCalls
    <3>5. wcall' = [wcall EXCEPT ![c] = call]
      BY <1>0, <2>3 DEF WorkflowTypeOK
    <3> HIDE DEF call
    <3>6. Remembers(steps[n], steps[n])
      BY <3>1 DEF Remembers, StepHeads
    <3>7. WorkCallStands(call, run, steps)
      BY <2>1, <2>3, <3>2, <3>4, <3>6 DEF WorkCallStands
    <3>. QED  BY <2>1, <3>3, <3>5, <3>7, WorkCallMoves
  <2>. QED  BY <1>8, <2>2, <2>3 DEF DecideReads
<1>9. ASSUME NEW c \in Callers, DenyEnds(c) PROVE WorkflowInv'
  BY <1>9, RunPut DEF DenyEnds, Ended
<1>10. ASSUME NEW c \in Callers, PauseOrResume(c) PROVE WorkflowInv'
  BY <1>10, RunPut DEF PauseOrResume, Ended
<1>11. ASSUME NEW c \in Callers, WorkerDies(c) PROVE WorkflowInv'
  BY <1>11, WorkCallMoves DEF WorkerDies, Exit
<1>. QED  BY <1>2, <1>5, <1>6, <1>7, <1>8, <1>9, <1>10, <1>11, StartWritesKeeps, DriveTurnKeeps, DecideWritesKeeps,
             CancelTurnKeeps DEF WorkflowsMove, WorkflowStep

\* The run record matches its steps (WorkflowService.run_ready_steps, cancel, deny_approval).
THEOREM RunsMatchTheirSteps == Spec => []RunMatchesSteps
<1>1. Init => WorkflowInv
  BY WorkflowInvInit DEF Init
<1>2. WorkflowInv /\ [Next]_vars => WorkflowInv'
  BY WorkflowInvStep, ServiceSteps
<1>3. WorkflowInv => RunMatchesSteps
  BY DEF WorkflowInv
<1>. QED  BY <1>1, <1>2, <1>3, PTL DEF Spec

-----------------------------------------------------------------------------
(* The platform                                                             *)

\* The services, each with the invariant of its own, share one record store:
\* every record, pointer, stream and call in progress keeps its type whichever
\* services run (platform_store.py and the services over it).
THEOREM PlatformTypeCorrect == Spec => []TypeOK
<1> DEFINE Inv == /\ EmergencyInv /\ WorkflowInv /\ InboxInv /\ OutboxInv /\ PackageInv /\ McpInv
                  /\ TraceInv /\ EvalInv /\ ReplayInv /\ GatewayInv /\ SecretInv /\ quota \in Quotas
<1>1. Init => Inv
  BY EmergencyInvInit, WorkflowInvInit, InboxInvInit, OutboxInvInit, PackageInvInit, McpInvInit, TraceInvInit,
     EvalInvInit, ReplayInvInit, GatewayInvInit, SecretInvInit DEF Init
<1>2. Inv /\ [Next]_vars => Inv'
  <2> SUFFICES ASSUME Inv, [Next]_vars PROVE Inv'
    OBVIOUS
  <2>1. quota' = quota
    BY DEF Next, vars
  <2>2. EmergencyInv' /\ McpInv'
    BY EmergencyInvStep, McpInvStep, ServiceSteps
  <2>. QED  BY <2>1, <2>2, ServiceSteps, WorkflowInvStep, InboxInvStep, OutboxInvStep, PackageInvStep, TraceInvStep,
               EvalInvStep, ReplayInvStep, GatewayInvStep, SecretInvStep
<1>3. Inv => TypeOK
  BY DEF TypeOK, EmergencyInv, WorkflowInv, InboxInv, OutboxInv, PackageInv, McpInv, TraceInv, EvalInv, ReplayInv,
         GatewayInv, SecretInv
<1>. QED  BY <1>1, <1>2, <1>3, PTL DEF Spec

\* On the shared store too, every hand-over of an outbox entry is reported
\* (OutboxService.mark).
THEOREM PlatformSendsReported == Spec => []SendsReported
<1>1. Init => OutboxInv
  BY OutboxInvInit DEF Init
<1>2. OutboxInv /\ [Next]_vars => OutboxInv'
  BY OutboxInvStep, ServiceSteps
<1>3. OutboxInv => SendsReported
  BY DEF OutboxInv
<1>. QED  BY <1>1, <1>2, <1>3, PTL DEF Spec
=============================================================================
