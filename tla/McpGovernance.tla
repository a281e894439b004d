---------------------------- MODULE McpGovernance ----------------------------
(* Governance of one MCP server (tooling/mcp.py): its definitions are       *)
(* catalogued, each as a revision that is validated, approved, enabled and  *)
(* later degraded, disabled or blocked, with a tool policy per revision;    *)
(* invocations run under them.                                              *)
EXTENDS PlatformStore

CONSTANTS Definitions,   \* what discovery finds: a definition and its tools, one revision each
          Suspect,       \* those that discovery quarantines, for either
          Rendered,      \* the definition in each: its revision is pinned by the hash of it
          MaxGoverns     \* bound of a behaviour

ASSUME McpAssumption == Suspect \subseteq Definitions /\ DOMAIN Rendered = Definitions

VARIABLES server,     \* head of the mcp_server record: the definition in it
          catalog,    \* heads of the mcp_revision records
          policies,   \* heads of the mcp_policy records: may the tool be called
          gcall,      \* the call each caller is in
          gbudget,    \* bounds: calls made, calls that died
          invoked     \* history: revisions a runner was started for

gvars == <<server, catalog, policies, gcall, gbudget, invoked>>

\* McpServerState; validation, approval and enablement only move forward.
StateOrder ==
    [none |-> 0, discovered |-> 1, quarantined |-> 1, validated |-> 2, approved |-> 3,
     enabled |-> 4, degraded |-> 5, disabled |-> 6, blocked |-> 7]
Unlisted == [rev |-> 0, state |-> "none", approval |-> FALSE]
Silent == [op |-> "none"]

Servers == [rev : Nat, def : Definitions \cup {"none"}]
Listings == [rev : Nat, state : DOMAIN StateOrder, approval : BOOLEAN]
Policies == [rev : Nat, callable : BOOLEAN]

\* What a call remembers: the operation or the state it leads to, and the
\* heads it read.
GovernCalls == [op : {"discover", "policy", "invoke"} \cup DOMAIN StateOrder, def : Definitions,
                step : {"server", "revision", "pin", "append", "state", "run"},
                prior : Listings, server : Servers, policy : Policies]

McpTypeOK ==
    /\ server \in Servers
    /\ catalog \in [Definitions -> Listings]
    /\ policies \in [Definitions -> Policies]
    /\ gcall \in [Callers -> GovernCalls \cup {Silent}]
    /\ invoked \subseteq Definitions

McpInit ==
    /\ server = [rev |-> 0, def |-> "none"]
    /\ catalog = [d \in Definitions |-> Unlisted]
    /\ policies = [d \in Definitions |-> [rev |-> 0, callable |-> FALSE]]
    /\ gcall = [c \in Callers |-> Silent]
    /\ gbudget = [calls |-> 0, deaths |-> 0]
    /\ invoked = {}

-----------------------------------------------------------------------------
Close(c) == gcall' = [gcall EXCEPT ![c] = Silent]

GovernCall(c, op, d, step) ==
    /\ gcall[c] = Silent
    /\ gbudget.calls < MaxGoverns
    /\ gbudget' = [gbudget EXCEPT !.calls = @ + 1]
    /\ gcall' = [gcall EXCEPT ![c] = [op |-> op, def |-> d, step |-> step, prior |-> catalog[d],
                                      server |-> server, policy |-> policies[d]]]
    /\ UNCHANGED <<server, catalog, policies, invoked>>

\* discover: a revision on record answers the call, the server record is read.
Discover(c, d) == catalog[d].rev = 0 /\ GovernCall(c, "discover", d, "server")

\* The server record first, then (tools, resources, prompts and) the revision.
DiscoverServer(c) ==
    /\ gcall[c] # Silent /\ gcall[c].op = "discover" /\ gcall[c].step = "server"
    /\ IF HeadUnmoved(server, gcall[c].server.rev)
       THEN /\ server' = Appended(server, [server EXCEPT !.def = gcall[c].def])
            /\ gcall' = [gcall EXCEPT ![c].step = "revision"]
       ELSE Close(c) /\ UNCHANGED server
    /\ UNCHANGED <<catalog, policies, gbudget, invoked>>

DiscoverRevision(c) ==
    /\ gcall[c] # Silent /\ gcall[c].op = "discover" /\ gcall[c].step = "revision"
    /\ LET d == gcall[c].def
       IN catalog' = IF HeadUnmoved(catalog[d], 0)
                     THEN [catalog EXCEPT ![d] = Appended(@, [Unlisted EXCEPT
                              !.state = IF d \in Suspect THEN "quarantined" ELSE "discovered"])]
                     ELSE catalog
    /\ Close(c)
    /\ UNCHANGED <<server, policies, gbudget, invoked>>

\* _pinned_definition: the server record holds the definition of revision d,
\* which may have come with another revision.
Pinned(d) == server.def # "none" /\ Rendered[server.def] = Rendered[d]

\* The states from which validate_revision, approve_catalog, enable_server,
\* mark_degraded and disable_server go on, and where they lead.
Governs == [validated |-> {"discovered"}, approved |-> {"validated"}, enabled |-> {"approved"},
            degraded |-> {"enabled"}, disabled |-> {"enabled", "degraded"},
            blocked |-> DOMAIN StateOrder \ {"none"}]

\* Approval is resolved by the authority; enablement reads the pin and needs
\* the recorded approval.  block_server takes any revision.
Govern(c, d, to) ==
    /\ catalog[d].state \in Governs[to]
    /\ to = "enabled" => catalog[d].approval
    /\ GovernCall(c, to, d, IF to = "enabled" THEN "pin" ELSE "append")

CheckPin(c) ==
    /\ gcall[c] # Silent /\ gcall[c].op \in {"enabled", "policy"} /\ gcall[c].step = "pin"
    /\ IF Pinned(gcall[c].def)
       THEN gcall' = [gcall EXCEPT ![c].step = "append", ![c].policy = policies[gcall[c].def]]
       ELSE Close(c)
    /\ UNCHANGED <<server, catalog, policies, gbudget, invoked>>

GovernAppends(c) ==
    /\ gcall[c] # Silent /\ gcall[c].op \in DOMAIN Governs /\ gcall[c].step = "append"
    /\ LET d == gcall[c].def
           to == gcall[c].op
       IN catalog' = IF HeadUnmoved(catalog[d], gcall[c].prior.rev)
                     THEN [catalog EXCEPT ![d] = Appended(@, [gcall[c].prior EXCEPT !.state = to,
                              !.approval = @ \/ to = "approved"])]
                     ELSE catalog
    /\ Close(c)
    /\ UNCHANGED <<server, policies, gbudget, invoked>>

\* set_policy, for a revision that is approved or enabled: the tool may be
\* called, or is in the catalog only.
SetPolicy(c, d) ==
    catalog[d].state \in {"approved", "enabled"} /\ GovernCall(c, "policy", d, "pin")

PolicyAppends(c) ==
    /\ gcall[c] # Silent /\ gcall[c].op = "policy" /\ gcall[c].step = "append"
    /\ LET d == gcall[c].def
       IN \E callable \in BOOLEAN :
             policies' = IF HeadUnmoved(policies[d], gcall[c].policy.rev)
                         THEN [policies EXCEPT ![d] = Appended(@, [@ EXCEPT !.callable = callable])]
                         ELSE policies
    /\ Close(c)
    /\ UNCHANGED <<server, catalog, gbudget, invoked>>

\* invoke reads the policy, then the revision, then the pin, and runs.
Invoke(c, d) == policies[d].callable /\ GovernCall(c, "invoke", d, "state")

Invocable(d) == catalog[d].state = "enabled"

InvokeChecks(c) ==
    /\ gcall[c] # Silent /\ gcall[c].op = "invoke" /\ gcall[c].step = "state"
    /\ IF Invocable(gcall[c].def)
       THEN gcall' = [gcall EXCEPT ![c].step = "run"]
       ELSE Close(c)
    /\ UNCHANGED <<server, catalog, policies, gbudget, invoked>>

InvokeRuns(c) ==
    /\ gcall[c] # Silent /\ gcall[c].op = "invoke" /\ gcall[c].step = "run"
    /\ invoked' = IF Pinned(gcall[c].def) THEN invoked \cup {gcall[c].def} ELSE invoked
    /\ Close(c)
    /\ UNCHANGED <<server, catalog, policies, gbudget>>

GovernorDies(c) ==
    /\ gcall[c] # Silent
    /\ gbudget.deaths < MaxDeaths
    /\ gbudget' = [gbudget EXCEPT !.deaths = @ + 1]
    /\ Close(c)
    /\ UNCHANGED <<server, catalog, policies, invoked>>

McpNext ==
    \E c \in Callers :
       \/ \E d \in Definitions : \/ Discover(c, d) \/ SetPolicy(c, d) \/ Invoke(c, d)
                                 \/ \E to \in DOMAIN Governs : Govern(c, d, to)
       \/ DiscoverServer(c) \/ DiscoverRevision(c) \/ CheckPin(c) \/ GovernAppends(c)
       \/ PolicyAppends(c) \/ InvokeChecks(c) \/ InvokeRuns(c) \/ GovernorDies(c)

-----------------------------------------------------------------------------
\* The revision state machine is monotonic (ADR-025) whatever calls overlap: no
\* late validation, approval or enablement takes a revision back, least of all
\* one that was blocked meanwhile, and one that a tool ran under had been
\* approved and was never quarantined.
RevisionsAdvance ==
    [][/\ \A d \in Definitions : catalog'[d] # catalog[d] =>
             \/ StateOrder[catalog[d].state] < StateOrder[catalog'[d].state]
             \/ catalog[d].state = "blocked" /\ catalog'[d].state = "blocked"
       /\ \A d \in invoked' \ invoked : catalog[d].approval /\ d \notin Suspect]_gvars

\* What the state of a revision says of its past: it was approved before it
\* was enabled, and a quarantined one is blocked or stays where it is.
Earned(d, listing) ==
    /\ listing.state = "none" => listing = Unlisted
    /\ listing.state # "none" => listing.rev > 0
    /\ listing.state \in {"approved", "enabled", "degraded", "disabled"} => listing.approval
    /\ listing.state \in {"discovered", "validated", "approved", "enabled", "degraded", "disabled"} => d \notin Suspect

\* What a governing call read allowed what it does; a call about to run a tool
\* found its revision enabled.
Grounded(call) ==
    /\ Remembers(call.prior, catalog[call.def])
    /\ call.op \in DOMAIN Governs => call.prior.state \in Governs[call.op]
    /\ call.op = "enabled" => call.prior.approval
    /\ call.step = "run" => catalog[call.def].approval /\ call.def \notin Suspect

\* The inductive invariant behind RevisionsAdvance.
McpInv ==
    /\ McpTypeOK
    /\ \A d \in Definitions : Earned(d, catalog[d])
    /\ \A c \in Callers : gcall[c] # Silent => Grounded(gcall[c])
=============================================================================
