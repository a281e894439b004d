------------------------------- MODULE Backups -------------------------------
(* Backup, export and restore (backup/service.py).  create copies the       *)
(* files of a kind one by one into a spool, redacting what the kind must    *)
(* not disclose, links the bundle to a free name and records it; restore    *)
(* verifies a bundle and puts it where nothing is.  Files are edited and    *)
(* bundles moved by people meanwhile.                                       *)
EXTENDS PlatformStore, Sequences

CONSTANTS Dests,                    \* names of bundles
          Beginnings,               \* what the workspace may hold at first
          MaxBackups, MaxTouches    \* bounds: calls; what people do to files and bundles

VARIABLES content,   \* what is in each area of the workspace
          bundles,   \* the bundle at each name
          recorded,  \* backup records, by bundle number
          tree,      \* the directory a bundle is restored to
          bcall,     \* the call of each caller
          bbudget    \* bounds: calls, touches, deaths

bvars == <<content, bundles, recorded, tree, bcall, bbudget>>

BackupFiles == {"manual", "docs", "events", "encrypted"}
BackupKinds == {"private", "public", "diagnostic", "transfer"}
NoBundle == [id |-> 0]
BkIdle == [step |-> "idle"]

\* Text without anything to hide, with a local path, with a secret, or with a
\* local path that looks like a secret once it is blotted out.
Contents == {"plain", "local", "secret", "masked"}

ASSUME BackupAssumption == Beginnings \subseteq [BackupFiles -> Contents]

Members == [file : BackupFiles \cup {"status"}, text : Contents]
Bundles == [id : Nat, kind : BackupKinds, members : SUBSET Members, store : BOOLEAN, schema : {"same", "older", "other"}]
CreateCalls == [step : {"collect", "record"}, kind : BackupKinds, dest : Dests, id : Nat,
                todo : Seq(BackupFiles), members : SUBSET Members, unresolved : BOOLEAN]
RestoreCalls == [step : {"stage"}, dest : Dests, names : SUBSET (BackupFiles \cup {"status"})]
SwapCalls == [step : {"swap"}, kind : BackupKinds, members : SUBSET Members]

BackupTypeOK ==
    /\ content \in [BackupFiles -> Contents]
    /\ bundles \in [Dests -> Bundles \cup {NoBundle}]
    /\ recorded \subseteq Nat
    /\ tree \in [state : {"none", "users"}] \cup [state : {"restored"}, kind : BackupKinds, members : SUBSET Members]
    /\ bcall \in [Callers -> CreateCalls \cup RestoreCalls \cup SwapCalls \cup {BkIdle}]
    /\ bbudget \in [calls : Nat, touches : Nat, deaths : Nat]

BackupInit ==
    /\ content \in Beginnings
    /\ bundles = [d \in Dests |-> NoBundle]
    /\ recorded = {} /\ tree = [state |-> "none"]
    /\ bcall = [c \in Callers |-> BkIdle]
    /\ bbudget = [calls |-> 0, touches |-> 0, deaths |-> 0]

-----------------------------------------------------------------------------
\* documents.toml, or the default roots (_configured_document_roots).
ConfiguredRoots == <<"docs">>

\* _KIND_ROOTS, with the configured document roots of private and transfer
\* bundles, shortest path first (_compact_backup_roots).
RootsOf(kind) ==
    CASE kind = "public" -> <<"docs">>
      [] kind = "diagnostic" -> <<"events">>
      [] OTHER -> ConfiguredRoots \o <<"manual", "events">>

\* _KIND_REDACTION.
RedactsSecrets(kind) == kind \in {"public", "diagnostic"}
RedactsPaths(kind) == kind # "private"

BkGo(c, step) == bcall' = [bcall EXCEPT ![c].step = step]
BkEnd(c) == bcall' = [bcall EXCEPT ![c] = BkIdle]
NextBundle == bbudget.calls + bbudget.touches + 1

BackupCall(c, call) ==
    /\ bcall[c] = BkIdle
    /\ bbudget.calls < MaxBackups
    /\ bbudget' = [bbudget EXCEPT !.calls = @ + 1]
    /\ bcall' = [bcall EXCEPT ![c] = call]
    /\ UNCHANGED <<content, bundles, recorded, tree>>

\* create: the name must be free; restricted data goes into no disclosure.
StartBackup(c, kind, restricted, d) ==
    /\ restricted => ~RedactsSecrets(kind)
    /\ bundles[d] = NoBundle
    /\ BackupCall(c, [step |-> "collect", kind |-> kind, dest |-> d, id |-> NextBundle,
                      todo |-> RootsOf(kind) \o IF restricted THEN <<"encrypted">> ELSE <<>>,
                      members |-> {}, unresolved |-> FALSE])

\* A member that is taken from the workspace when the archive is written.
MemberFresh(member) == [member EXCEPT !.text = content[member.file]]

\* What the archive holds of a member: its copy in the spool.
Member(member) == member

\* A text without its local paths.
Blotted(text) == CASE text = "local" -> "plain" [] text = "masked" -> "secret" [] OTHER -> text

\* _collect: one file is read, judged, blotted and judged again, and copied.
\* A disclosure leaves out what is found; what is found only then is unresolved.
Collect(c) ==
    LET call == bcall[c]
        f == Head(call.todo)
        text == IF RedactsPaths(call.kind) THEN Blotted(content[f]) ELSE content[f]
        removed == RedactsSecrets(call.kind) /\ content[f] = "secret"
        found == RedactsSecrets(call.kind) /\ text = "secret"
    IN
    /\ call.step = "collect" /\ call.todo # <<>>
    /\ bcall' = [bcall EXCEPT ![c] = [call EXCEPT
                   !.todo = Tail(@),
                   !.members = IF removed \/ found THEN @ ELSE @ \cup {[file |-> f, text |-> text]},
                   !.unresolved = @ \/ (found /\ ~removed)]]
    /\ UNCHANGED <<content, bundles, recorded, tree, bbudget>>

\* The store is copied into private bundles only (_platform_snapshot_file).
WithStore(kind) == kind = "private"

\* _platform_status_bytes, of diagnostic bundles: features and a snapshot's name.
StatusOf(kind) == IF kind = "diagnostic" THEN {[file |-> "status", text |-> "plain"]} ELSE {}

\* Nothing may be unresolved.  The archive is written beside the name, with the
\* store's snapshot if it is private, and linked to the name if it is still free.
LinkBundle(c) ==
    LET call == bcall[c] IN
    /\ call.step = "collect" /\ call.todo = <<>>
    /\ IF ~call.unresolved /\ bundles[call.dest] = NoBundle
       THEN /\ bundles' = [bundles EXCEPT ![call.dest] =
                 [id |-> call.id, kind |-> call.kind,
                  members |-> {Member(m) : m \in call.members} \cup StatusOf(call.kind),
                  store |-> WithStore(call.kind), schema |-> "same"]]
            /\ BkGo(c, "record")
       ELSE BkEnd(c) /\ UNCHANGED bundles
    /\ UNCHANGED <<content, recorded, tree, bbudget>>

\* _require_owned: the name still holds this bundle.
Owned(call) == bundles[call.dest].id = call.id

\* The record and its event, if the bundle is owned still.  When the store refuses, the bundle goes again, and only
\* this bundle (_unlink_if_owned).
RecordBackup(c) ==
    LET call == bcall[c] IN
    /\ call.step = "record"
    /\ \/ Owned(call) /\ recorded' = recorded \cup {call.id} /\ UNCHANGED bundles
       \/ /\ bundles' = IF Owned(call) THEN [bundles EXCEPT ![call.dest] = NoBundle] ELSE bundles
          /\ UNCHANGED recorded
    /\ BkEnd(c)
    /\ UNCHANGED <<content, tree, bbudget>>

-----------------------------------------------------------------------------
\* restore_plan: the bundle verifies, its schema can be read here and the
\* directory is missing or empty.
StartRestore(c, d) ==
    /\ bundles[d] # NoBundle /\ bundles[d].schema # "other"
    /\ tree.state = "none"
    /\ BackupCall(c, [step |-> "stage", dest |-> d, names |-> {m.file : m \in bundles[d].members}])

\* verify again, then the planned members, by their hashes, into a staging
\* directory; a bundle that lacks one of them ends the call.
StageTree(c) ==
    LET call == bcall[c]  now == bundles[call.dest] IN
    /\ call.step = "stage"
    /\ IF now # NoBundle /\ call.names \subseteq {m.file : m \in now.members}
       THEN bcall' = [bcall EXCEPT ![c] = [step |-> "swap", kind |-> now.kind,
                                           members |-> {m \in now.members : m.file \in call.names}]]
       ELSE BkEnd(c)
    /\ UNCHANGED <<content, bundles, recorded, tree, bbudget>>

\* rmdir and rename: a directory that is not empty any more stays.
SwapTree(c) ==
    /\ bcall[c].step = "swap"
    /\ tree' = IF tree.state = "none"
               THEN [state |-> "restored", kind |-> bcall[c].kind, members |-> bcall[c].members] ELSE tree
    /\ BkEnd(c)
    /\ UNCHANGED <<content, bundles, recorded, bbudget>>

-----------------------------------------------------------------------------
\* People edit a file, delete a bundle, bring one of another installation, or
\* put a file into the directory.
Touch ==
    /\ bbudget.touches < MaxTouches
    /\ bbudget' = [bbudget EXCEPT !.touches = @ + 1]
    /\ \/ /\ \E f \in BackupFiles, t \in Contents : content[f] # t /\ content' = [content EXCEPT ![f] = t]
          /\ UNCHANGED <<bundles, tree>>
       \/ /\ \E d \in Dests : bundles[d] # NoBundle /\ bundles' = [bundles EXCEPT ![d] = NoBundle]
          /\ UNCHANGED <<content, tree>>
       \/ /\ \E d \in Dests, schema \in {"older", "other"} :
               bundles' = [bundles EXCEPT ![d] = [id |-> NextBundle, kind |-> "private", store |-> TRUE,
                 members |-> {[file |-> "docs", text |-> "secret"]}, schema |-> schema]]
          /\ UNCHANGED <<content, tree>>
       \/ tree.state = "none" /\ tree' = [state |-> "users"] /\ UNCHANGED <<content, bundles>>
    /\ UNCHANGED <<recorded, bcall>>

BackupDies(c) ==
    /\ bcall[c] # BkIdle
    /\ bbudget.deaths < MaxDeaths
    /\ bbudget' = [bbudget EXCEPT !.deaths = @ + 1]
    /\ BkEnd(c)
    /\ UNCHANGED <<content, bundles, recorded, tree>>

BackupNext ==
    \/ \E c \in Callers :
         \/ \E kind \in BackupKinds, restricted \in BOOLEAN, d \in Dests : StartBackup(c, kind, restricted, d)
         \/ \E d \in Dests : StartRestore(c, d)
         \/ Collect(c) \/ LinkBundle(c) \/ RecordBackup(c) \/ StageTree(c) \/ SwapTree(c) \/ BackupDies(c)
    \/ Touch

-----------------------------------------------------------------------------
\* What leak_scan lets a bundle of a kind hold.
Disclosable(kind, members) ==
    RedactsSecrets(kind) => \A m \in members : m.text = "plain" /\ m.file # "encrypted"

\* leak_scan finds nothing in a public or diagnostic bundle, nor in what is
\* restored from one, although files change while they are collected.
NothingDisclosed ==
    /\ \A d \in Dests : bundles[d] # NoBundle => Disclosable(bundles[d].kind, bundles[d].members)
    /\ tree.state = "restored" => Disclosable(tree.kind, tree.members)

-----------------------------------------------------------------------------
\* What a call holds is fit for the kind of its bundle, what it has still to
\* collect included.
BackupCallStands(call) ==
    /\ call.step \in {"collect", "swap"} => Disclosable(call.kind, call.members)
    /\ call.step = "collect" /\ RedactsSecrets(call.kind) => call.todo \in Seq(BackupFiles \ {"encrypted"})

\* The inductive invariant of backups.
BackupInv ==
    /\ BackupTypeOK
    /\ NothingDisclosed
    /\ \A c \in Callers : BackupCallStands(bcall[c])
=============================================================================
