------------------------------ MODULE Documents ------------------------------
(* Managed documents (documents/service.py, index.py, history.py): files a  *)
(* person edits with any editor, changed through the service by create,     *)
(* update, restore, rename or move and new folders; beside them the         *)
(* identity records, the disposable index, local revisions and one          *)
(* operation record per idempotency key.  Requests run in threads of one    *)
(* process or in several processes, and die between any two steps.          *)
EXTENDS PlatformStore

CONSTANTS Paths, Texts, DocKeys,
          MaxRequests, MaxEdits     \* bounds of a behaviour: requests with edits; edits

ASSUME DocumentAssumption == Paths # {} /\ Texts # {}

VARIABLES files,    \* what is at each path
          twins,    \* pairs of paths that are hard links of one file
          ident,    \* document_identity records
          rows,     \* the index: one row per indexed path
          revs,     \* local revisions, <<document, text>>
          ops,      \* document_operation records with their receipts
          dcall,    \* the request each caller is in
          shared,   \* the callers are threads of one process
          dbudget,  \* bounds: requests, edits, deaths
          taken     \* history: texts the service took off a path for good

dvars == <<files, twins, ident, rows, revs, ops, dcall, shared, dbudget, taken>>

Absent == "absent"
Dir == "directory"
NoRecord == [state |-> "none"]
Unasked == [state |-> "none"]
DocIdle == [step |-> "idle"]
NoRows == [p \in Paths |-> NoRecord]

\* derive_id of a path: the identity a document is born with.
Born(p) == <<"doc", p>>
NoDoc == <<>>

DocIds == {Born(p) : p \in Paths}
Identities == {NoRecord} \cup [state : {"active", "moved"}, id : DocIds]
IndexRows == {NoRecord} \cup [state : {"row"}, id : DocIds, text : Texts]

\* What a request can say, by its kind.
DocRequests ==
    {req \in [op : {"create", "folder", "update", "restore", "move"}, doc : DocIds \cup {NoDoc}, path : Paths,
              new : Paths \cup {"none"}, text : Texts \cup {"none"}, seen : Texts \cup {"none"},
              snap : [Paths -> IndexRows]] :
        /\ req.op \in {"create", "update", "restore"} => req.text \in Texts
        /\ req.op \in {"update", "restore"} => req.doc \in DocIds
        /\ req.op = "move" => req.new \in Paths}

Operations == {Unasked} \cup [state : {"prepared", "publishing", "completed"}, req : DocRequests]

DocSteps == {"look", "drop", "find", "mark", "link", "identify", "check", "exchange", "compare", "unlink", "rename",
             "refresh", "complete"}
\* back: the request takes its own move back.
DocCalls == [step : DocSteps, key : DocKeys, req : DocRequests, recovering : BOOLEAN, back : BOOLEAN]
Exchanges == [step : {"verify", "refresh", "complete"}, key : DocKeys, req : DocRequests, took : Texts, recovering : BOOLEAN]
\* At work on the index, for a request that completes afterwards or for nobody.
IndexSteps == {"scan", "persist", "swap", "write"}
IndexCalls == [step : IndexSteps, known : SUBSET Paths, table : [Paths -> IndexRows],
               then : {DocIdle} \cup DocCalls \cup Exchanges]

DocumentTypeOK ==
    /\ files \in [Paths -> Texts \cup {Absent, Dir}]
    /\ twins \subseteq SUBSET Paths
    /\ ident \in [Paths -> Identities]
    /\ rows \in [Paths -> IndexRows]
    /\ revs \subseteq (DocIds \X Texts)
    /\ ops \in [DocKeys -> Operations]
    /\ dcall \in [Callers -> {DocIdle} \cup IndexCalls \cup DocCalls \cup Exchanges]
    /\ shared \in BOOLEAN

\* One document, indexed.
DocumentInit ==
    /\ LET p == CHOOSE q \in Paths : TRUE  t == CHOOSE u \in Texts : TRUE IN
         /\ files = [q \in Paths |-> IF q = p THEN t ELSE Absent]
         /\ ident = [NoRows EXCEPT ![p] = [state |-> "active", id |-> Born(p)]]
         /\ rows = [NoRows EXCEPT ![p] = [state |-> "row", id |-> Born(p), text |-> t]]
    /\ twins = {} /\ revs = {} /\ taken = {}
    /\ ops = [k \in DocKeys |-> Unasked]
    /\ dcall = [c \in Callers |-> DocIdle]
    /\ shared \in BOOLEAN
    /\ dbudget = [requests |-> 0, edits |-> 0, deaths |-> 0]

-----------------------------------------------------------------------------
\* read_regular_file: a regular file with one link.
Readable(p) == files[p] \in Texts /\ \A pair \in twins : p \notin pair

Active(p) == ident[p].state = "active"
IdAt(p) == IF Active(p) THEN ident[p].id ELSE Born(p)
PathOf(d) == {p \in Paths : rows[p].state = "row" /\ rows[p].id = d}

Go(c, step) == dcall' = [dcall EXCEPT ![c].step = step]
GiveUp(c) == dcall' = [dcall EXCEPT ![c] = DocIdle]

\* _path_locks: threads of one process exclude each other path by path.
RequestOf(call) == IF call.step \in IndexSteps THEN call.then ELSE call
LockFree(c, paths) ==
    shared => \A o \in Callers \ {c} : RequestOf(dcall[o]) # DocIdle =>
                 {RequestOf(dcall[o]).req.path, RequestOf(dcall[o]).req.new} \cap paths = {}

-----------------------------------------------------------------------------
\* rebuild reads the identity map, then the files.  A record keeps its identity
\* for ever, so the paths that had one are all there is to remember of the map.
\* Two files with one identity violate the primary key and the rebuild fails.
IndexCall(step, then) == [step |-> step, known |-> {p \in Paths : Active(p)}, table |-> NoRows, then |-> then]

KnownId(known, p) == IF p \in known THEN ident[p].id ELSE Born(p)
ScannedRows(known) ==
    [p \in Paths |-> IF Readable(p) THEN [state |-> "row", id |-> KnownId(known, p), text |-> files[p]] ELSE NoRecord]

OneRowPerId(table) ==
    \A p, q \in Paths : p # q /\ table[p].state = "row" /\ table[q].state = "row" => table[p].id # table[q].id

StartRebuild(c) ==
    /\ dcall[c] = DocIdle
    /\ dbudget.requests + dbudget.edits < MaxRequests
    /\ dbudget' = [dbudget EXCEPT !.requests = @ + 1]
    /\ dcall' = [dcall EXCEPT ![c] = IndexCall("scan", DocIdle)]
    /\ UNCHANGED <<files, twins, ident, rows, revs, ops, shared, taken>>

ScanFiles(c) ==
    LET table == ScannedRows(dcall[c].known) IN
    /\ dcall[c].step = "scan"
    /\ IF OneRowPerId(table) THEN dcall' = [dcall EXCEPT ![c].step = "persist", ![c].table = table] ELSE GiveUp(c)
    /\ UNCHANGED <<files, twins, ident, rows, revs, ops, shared, dbudget, taken>>

\* _persist_identities: files without an identity get one, unless the path
\* carries the tombstone of a moved document.
Persisted(table, known) ==
    [p \in Paths |-> IF table[p].state = "row" /\ p \notin known /\ ident[p].state = "none"
                     THEN [state |-> "active", id |-> table[p].id] ELSE ident[p]]

PersistRefused(table, known) ==
    \E p \in Paths \ known : table[p].state = "row" /\ ident[p].state # "none"
                               /\ ~(Active(p) /\ ident[p].id = table[p].id)

PersistIdentities(c) ==
    /\ dcall[c].step = "persist"
    /\ IF PersistRefused(dcall[c].table, dcall[c].known) THEN GiveUp(c) /\ UNCHANGED ident
       ELSE ident' = Persisted(dcall[c].table, dcall[c].known) /\ Go(c, "swap")
    /\ UNCHANGED <<files, twins, rows, revs, ops, shared, dbudget, taken>>

\* The new database replaces the old one, with what was scanned.
SwapIndex(c) ==
    /\ dcall[c].step = "swap"
    /\ rows' = dcall[c].table
    /\ dcall' = [dcall EXCEPT ![c] = dcall[c].then]
    /\ UNCHANGED <<files, twins, ident, revs, ops, shared, dbudget, taken>>

-----------------------------------------------------------------------------
\* What a client asks for.  Updates and moves name the text they were based
\* on, as the index had it; a new document or folder names the index it was
\* prepared against.
NewRequest(op, d, p, new, t, seen) == [op |-> op, doc |-> d, path |-> p, new |-> new, text |-> t, seen |-> seen,
                                       snap |-> IF op \in {"create", "folder"} THEN rows ELSE NoRows]

\* The texts history can give back of a document.
Restorable(d) == {t \in Texts : <<d, t>> \in revs}

Requests ==
    {NewRequest("create", NoDoc, p, "none", t, "none") : p \in Paths, t \in Texts}
    \cup {NewRequest("folder", NoDoc, p, "none", "none", "none") : p \in Paths}
    \cup UNION {LET d == rows[p].id  seen == rows[p].text IN
                {NewRequest("update", d, p, "none", t, seen) : t \in Texts}
                \cup {NewRequest("restore", d, p, "none", t, seen) : t \in Restorable(d)}
                \cup {NewRequest("move", d, p, new, "none", seen) : new \in Paths \ {p}}
              : p \in {q \in Paths : rows[q].state = "row"}}

\* A request that is made again: a move under way is taken up with the paths
\* it recorded (_resumable_move), the rest finds its document in the index.
Retried(k) ==
    LET old == ops[k].req IN
    CASE old.op \in {"create", "folder"} \/ (old.op = "move" /\ ops[k].state = "publishing") -> {old}
      [] old.op = "move" /\ ops[k].state = "prepared" -> {q \in {old} : old.path \in PathOf(old.doc)}
      [] OTHER -> {[old EXCEPT !.path = p] : p \in PathOf(old.doc)}

\* restore computes the preview again, which needs the text it was based on.
PreviewHolds(req) == req.op = "restore" => files[req.path] = req.seen /\ Readable(req.path)

\* A request takes its locks, finds no receipt and has its operation record.
Ask(c, k, req, op) ==
    /\ dcall[c] = DocIdle
    /\ dbudget.requests + dbudget.edits < MaxRequests
    /\ LockFree(c, {req.path, req.new})
    /\ PreviewHolds(req)
    /\ ops' = [ops EXCEPT ![k] = op]
    /\ dbudget' = [dbudget EXCEPT !.requests = @ + 1]
    /\ dcall' = [dcall EXCEPT ![c] = [step |-> "look", key |-> k, req |-> req,
                                      recovering |-> op.state = "publishing", back |-> FALSE]]
    /\ UNCHANGED <<files, twins, ident, rows, revs, shared, taken>>

Request(c, k) ==
    \/ ops[k] = Unasked /\ \E req \in Requests : Ask(c, k, req, [state |-> "prepared", req |-> req])
    \/ ops[k].state \in {"prepared", "publishing"} /\ \E req \in Retried(k) : Ask(c, k, req, ops[k])

\* create: the index must not have moved and the path must be free; an
\* interrupted create takes the file it finds when the text is its own.
LookCreate(c) ==
    LET call == dcall[c]  p == call.req.path IN
    /\ call.step = "look" /\ call.req.op = "create"
    /\ IF call.recovering
       THEN IF rows[p].state = "row"
            THEN IF rows[p].text = call.req.text THEN Go(c, "refresh") ELSE GiveUp(c)
            ELSE Go(c, IF files[p] = call.req.text /\ Readable(p) THEN "identify" ELSE "link")
       ELSE IF call.req.snap = rows /\ rows[p].state = "none" THEN Go(c, "mark") ELSE GiveUp(c)
    /\ UNCHANGED <<files, twins, ident, rows, revs, ops, shared, dbudget, taken>>

\* create_folder, likewise.
LookFolder(c) ==
    LET call == dcall[c] IN
    /\ call.step = "look" /\ call.req.op = "folder"
    /\ IF call.recovering THEN Go(c, IF files[call.req.path] = Dir THEN "refresh" ELSE "link")
       ELSE IF call.req.snap = rows THEN Go(c, "mark") ELSE GiveUp(c)
    /\ UNCHANGED <<files, twins, ident, rows, revs, ops, shared, dbudget, taken>>

\* _record_revision: the text that is about to be replaced is kept.
Revision(c, t) == {<<dcall[c].req.doc, t>>}

\* update and restore: the file must hold the text the client saw.
LookUpdate(c) ==
    LET call == dcall[c]  p == call.req.path IN
    /\ call.step = "look" /\ call.req.op \in {"update", "restore"}
    /\ IF ~Readable(p) \/ (files[p] # call.req.seen /\ ~(call.recovering /\ files[p] = call.req.text))
       THEN GiveUp(c) /\ UNCHANGED revs
       ELSE IF files[p] = call.req.text THEN Go(c, "refresh") /\ UNCHANGED revs
       ELSE /\ revs' = revs \cup Revision(c, files[p])
            /\ Go(c, IF call.recovering THEN "check" ELSE "mark")
    /\ UNCHANGED <<files, twins, ident, rows, ops, shared, dbudget, taken>>

\* move and rename: an interrupted move first drops the second of two links
\* (_recover_link_move), then finds the file at one of the two paths.
LookMove(c) ==
    LET call == dcall[c]  old == call.req.path  new == call.req.new IN
    /\ call.step = "look" /\ call.req.op = "move"
    /\ CASE call.recovering -> Go(c, IF {old, new} \in twins THEN "drop" ELSE "find")
         [] ~call.recovering /\ Readable(old) /\ files[old] = call.req.seen -> Go(c, "mark")
         [] OTHER -> GiveUp(c)
    /\ UNCHANGED <<files, twins, ident, rows, revs, ops, shared, dbudget, taken>>

\* What is lost when the name p is unlinked and kept need not be the same file.
LostAt(c, p, kept) == IF files[p] \in Texts /\ {p, kept} \notin twins THEN {<<dcall[c].req.doc, files[p]>>} ELSE {}

\* The name p is gone.
Unlink(p, lost) ==
    /\ files' = [files EXCEPT ![p] = Absent]
    /\ twins' = {pair \in twins : p \notin pair}
    /\ taken' = taken \cup lost

DropLink(c) ==
    /\ dcall[c].step = "drop"
    /\ IF files[dcall[c].req.path] \in Texts
       THEN Unlink(dcall[c].req.path, LostAt(c, dcall[c].req.path, dcall[c].req.new)) /\ Go(c, "find")
       ELSE GiveUp(c) /\ UNCHANGED <<files, twins, taken>>
    /\ UNCHANGED <<ident, rows, revs, ops, shared, dbudget>>

FindMoved(c) ==
    LET call == dcall[c]  old == call.req.path  new == call.req.new IN
    /\ call.step = "find"
    /\ CASE files[old] = Absent /\ Readable(new) /\ files[new] = call.req.seen -> Go(c, "rename")
         [] files[new] = Absent /\ Readable(old) /\ files[old] = call.req.seen -> Go(c, "check")
         [] OTHER -> GiveUp(c)
    /\ UNCHANGED <<files, twins, ident, rows, revs, ops, shared, dbudget, taken>>

\* The operation record moves to publishing, if it is still where it was.
MarkPublishing(c) ==
    LET call == dcall[c] IN
    /\ call.step = "mark"
    /\ IF ops[call.key].state = "prepared"
       THEN /\ ops' = [ops EXCEPT ![call.key].state = "publishing"]
            /\ Go(c, IF call.req.op \in {"create", "folder"} THEN "link" ELSE "check")
       ELSE GiveUp(c) /\ UNCHANGED ops
    /\ UNCHANGED <<files, twins, ident, rows, revs, shared, dbudget, taken>>

-----------------------------------------------------------------------------
\* _atomic_create and _mkdir: a link or a directory where nothing is.
LinkNew(c) ==
    LET call == dcall[c]  p == call.req.path IN
    /\ call.step = "link" /\ call.req.op \in {"create", "folder"}
    /\ IF files[p] = Absent
       THEN IF call.req.op = "folder" THEN files' = [files EXCEPT ![p] = Dir] /\ Go(c, "refresh")
            ELSE files' = [files EXCEPT ![p] = call.req.text] /\ Go(c, "identify")
       ELSE GiveUp(c) /\ UNCHANGED files
    /\ UNCHANGED <<twins, ident, rows, revs, ops, shared, dbudget, taken>>

\* ensure_identity of a new path that takes the tombstone for a free record.
IdentifiedAfresh(p) == IF Active(p) THEN ident[p] ELSE [state |-> "active", id |-> Born(p)]

\* ensure_identity: a path that ever had an identity record keeps it.
Identified(p) == IF ident[p].state = "none" THEN [state |-> "active", id |-> Born(p)] ELSE ident[p]

Identify(c) ==
    LET p == dcall[c].req.path IN
    /\ dcall[c].step = "identify"
    /\ ident' = [ident EXCEPT ![p] = Identified(p)]
    /\ IF ident'[p].state = "active" THEN Go(c, "refresh") ELSE GiveUp(c)
    /\ UNCHANGED <<files, twins, rows, revs, ops, shared, dbudget, taken>>

\* _atomic_replace and _atomic_move first read the text again.
Check(c) ==
    LET call == dcall[c] IN
    /\ call.step = "check"
    /\ IF Readable(call.req.path) /\ files[call.req.path] = call.req.seen
       THEN Go(c, IF call.req.op = "move" THEN "link" ELSE "exchange") ELSE GiveUp(c)
    /\ UNCHANGED <<files, twins, ident, rows, revs, ops, shared, dbudget, taken>>

\* The names of the file and of the new text are exchanged in one step.
Exchange(c) ==
    LET call == dcall[c]  p == call.req.path IN
    /\ call.step = "exchange"
    /\ IF files[p] \in Texts
       THEN /\ files' = [files EXCEPT ![p] = call.req.text]
            /\ dcall' = [dcall EXCEPT ![c] = [step |-> "verify", key |-> call.key, req |-> call.req, took |-> files[p],
                                              recovering |-> call.recovering]]
       ELSE GiveUp(c) /\ UNCHANGED files
    /\ UNCHANGED <<twins, ident, rows, revs, ops, shared, dbudget, taken>>

\* What came off the document must be what the client saw; then its temporary
\* name is unlinked.  Otherwise the names are exchanged again, and whatever the
\* document held by then is unlinked; when nothing is there the exchange fails
\* and the displaced text stays under its temporary name.
Verify(c) ==
    LET call == dcall[c]  p == call.req.path IN
    /\ call.step = "verify"
    /\ IF call.took = call.req.seen
       THEN /\ taken' = taken \cup {<<call.req.doc, call.took>>}
            /\ Go(c, "refresh") /\ UNCHANGED files
       ELSE /\ files' = IF files[p] = Absent THEN files ELSE [files EXCEPT ![p] = call.took]
            /\ taken' = taken \cup (IF files[p] = Absent THEN {<<call.req.doc, call.took>>}
                                   ELSE {<<call.req.doc, t>> : t \in {files[p]} \cap (Texts \ {call.req.text})})
            /\ GiveUp(c)
    /\ UNCHANGED <<twins, ident, rows, revs, ops, shared, dbudget>>

\* _atomic_move: a second link, a look at both names, and the first is gone.
LinkSecond(c) ==
    LET old == dcall[c].req.path  new == dcall[c].req.new IN
    /\ dcall[c].step = "link" /\ dcall[c].req.op = "move"
    /\ IF files[old] \in Texts /\ files[new] = Absent
       THEN /\ files' = [files EXCEPT ![new] = files[old]]
            /\ twins' = twins \cup {{old, new}}
            /\ Go(c, "compare")
       ELSE GiveUp(c) /\ UNCHANGED <<files, twins>>
    /\ UNCHANGED <<ident, rows, revs, ops, shared, dbudget, taken>>

\* When they differ, or the first name is gone, the new name is unlinked, whoever
\* it belongs to by then; the request's own link of what the client saw is no loss.
UndoLink(c) ==
    LET old == dcall[c].req.path  new == dcall[c].req.new IN
    /\ Unlink(new, LostAt(c, new, old) \ {<<dcall[c].req.doc, dcall[c].req.seen>>})
    /\ GiveUp(c)

CompareLinks(c) ==
    /\ dcall[c].step = "compare"
    /\ IF {dcall[c].req.path, dcall[c].req.new} \in twins THEN Go(c, "unlink") /\ UNCHANGED <<files, twins, taken>>
       ELSE UndoLink(c)
    /\ UNCHANGED <<ident, rows, revs, ops, shared, dbudget>>

UnlinkFirst(c) ==
    LET old == dcall[c].req.path  new == dcall[c].req.new IN
    /\ dcall[c].step = "unlink"
    /\ IF files[old] \in Texts
       THEN Unlink(old, LostAt(c, old, new)) /\ (IF dcall[c].back THEN GiveUp(c) ELSE Go(c, "rename"))
       ELSE UndoLink(c)
    /\ UNCHANGED <<ident, rows, revs, ops, shared, dbudget>>

\* move_identity, one transaction; when it is refused the file is moved back,
\* with all the steps of a move.
MoveIdentity(c) ==
    LET call == dcall[c]  old == call.req.path  new == call.req.new IN
    /\ call.step = "rename"
    /\ CASE Active(new) /\ ident[new].id = call.req.doc -> Go(c, "refresh") /\ UNCHANGED ident
         [] ident[new].state = "none" /\ Active(old) /\ ident[old].id = call.req.doc ->
              /\ ident' = [ident EXCEPT ![old].state = "moved", ![new] = [state |-> "active", id |-> call.req.doc]]
              /\ Go(c, "refresh")
         [] OTHER ->
              /\ dcall' = [dcall EXCEPT ![c].step = "check", ![c].back = TRUE,
                                        ![c].req = [call.req EXCEPT !.path = new, !.new = old]]
              /\ UNCHANGED ident
    /\ UNCHANGED <<files, twins, rows, revs, ops, shared, dbudget, taken>>

-----------------------------------------------------------------------------
\* refresh of the paths of a request reads the identity map; an index older than
\* a minute is built anew instead, and so is the index after a new folder.
ReadIdentities(c) ==
    LET then == [dcall[c] EXCEPT !.step = "complete"] IN
    /\ dcall[c].step = "refresh"
    /\ \/ dcall' = [dcall EXCEPT ![c] = IndexCall("scan", then)]
       \/ dcall[c].req.op # "folder" /\ dcall' = [dcall EXCEPT ![c] = IndexCall("write", then)]
    /\ UNCHANGED <<files, twins, ident, rows, revs, ops, shared, dbudget, taken>>

Touched(req) == {req.path, req.new} \cap Paths

\* Then, in one transaction of the index, each row is taken out and, if the file
\* is there, put back under the identity of the path or of its old row.
RefreshId(known, p) ==
    IF p \in known THEN ident[p].id ELSE IF rows[p].state = "row" THEN rows[p].id ELSE Born(p)

RefreshedRows(ps, known) ==
    [p \in Paths |-> IF p \notin ps THEN rows[p]
                     ELSE IF Readable(p) THEN [state |-> "row", id |-> RefreshId(known, p), text |-> files[p]] ELSE NoRecord]

\* ensure_identity refuses another identity than the path has or had.
IdentityRefused(p, id) == ident[p].state = "moved" \/ (Active(p) /\ ident[p].id # id)

WithRecords(qs, table) ==
    [p \in Paths |-> IF p \in qs /\ Readable(p) /\ ident[p].state = "none"
                     THEN [state |-> "active", id |-> table[p].id] ELSE ident[p]]

\* The identity records are in the other database: those written before a path is
\* refused or a row cannot be inserted stay when the index rolls back.
WriteRows(c) ==
    LET call == dcall[c]  ps == Touched(call.then.req)
        table == RefreshedRows(ps, call.known)
    IN
    /\ call.step = "write"
    /\ IF OneRowPerId(table) /\ \A p \in ps : Readable(p) => ~IdentityRefused(p, table[p].id)
       THEN /\ ident' = WithRecords(ps, table) /\ rows' = table
            /\ dcall' = [dcall EXCEPT ![c] = call.then]
       ELSE /\ \E qs \in SUBSET ps : ident' = WithRecords(qs, table)
            /\ GiveUp(c) /\ UNCHANGED rows
    /\ UNCHANGED <<files, twins, revs, ops, shared, dbudget, taken>>

\* Audit event, completed operation and receipt in one transaction, after the
\* document was looked up for the answer.
Answerable(req) ==
    \/ req.op = "folder"
    \/ req.op = "create" /\ \E p \in PathOf(IdAt(req.path)) : Readable(p)
    \/ req.op \in {"update", "restore", "move"} /\ \E p \in PathOf(req.doc) : Readable(p)

Complete(c) ==
    LET call == dcall[c] IN
    /\ call.step = "complete"
    /\ ops' = IF Answerable(call.req) /\ ops[call.key].state # "completed"
              THEN [ops EXCEPT ![call.key].state = "completed"] ELSE ops
    /\ GiveUp(c)
    /\ UNCHANGED <<files, twins, ident, rows, revs, shared, dbudget, taken>>

-----------------------------------------------------------------------------
\* A person saves or deletes a file with an editor of their own: a new file
\* takes the name.
Edit(p, t) ==
    /\ files[p] \notin {Dir, t}
    /\ dbudget.edits < MaxEdits /\ dbudget.requests + dbudget.edits < MaxRequests
    /\ dbudget' = [dbudget EXCEPT !.edits = @ + 1]
    /\ files' = [files EXCEPT ![p] = t]
    /\ twins' = {pair \in twins : p \notin pair}
    /\ UNCHANGED <<ident, rows, revs, ops, dcall, shared, taken>>

\* A process dies with all its requests; files and records stay as they are, and
\* a text between exchange and check stays under its temporary name.
RequestDies(c) ==
    /\ dcall[c] # DocIdle
    /\ dbudget.deaths < MaxDeaths
    /\ dbudget' = [dbudget EXCEPT !.deaths = @ + 1]
    /\ dcall' = [o \in Callers |-> IF shared \/ o = c THEN DocIdle ELSE dcall[o]]
    /\ taken' = taken \cup {<<dcall[o].req.doc, dcall[o].took>> :
                             o \in {x \in Callers : (shared \/ x = c) /\ dcall[x].step = "verify"}}
    /\ UNCHANGED <<files, twins, ident, rows, revs, ops, shared>>

DocumentNext ==
    \/ \E c \in Callers :
         \/ StartRebuild(c) \/ ScanFiles(c) \/ PersistIdentities(c) \/ SwapIndex(c)
         \/ \E k \in DocKeys : Request(c, k)
         \/ LookCreate(c) \/ LookFolder(c) \/ LookUpdate(c) \/ LookMove(c) \/ DropLink(c) \/ FindMoved(c) \/ MarkPublishing(c)
         \/ LinkNew(c) \/ Identify(c) \/ Check(c) \/ Exchange(c) \/ Verify(c)
         \/ LinkSecond(c) \/ CompareLinks(c) \/ UnlinkFirst(c) \/ MoveIdentity(c)
         \/ ReadIdentities(c) \/ WriteRows(c) \/ Complete(c) \/ RequestDies(c)
    \/ \E p \in Paths, t \in Texts \cup {Absent} : Edit(p, t)

-----------------------------------------------------------------------------
\* A document identity is at one path at most, whatever is moved, created
\* again at the old path, edited, rebuilt or interrupted: history and links
\* go by the identity (ensure_identity, move_identity, _persist_identities).
IdentitiesUnique ==
    \A p, q \in Paths : p # q /\ Active(p) /\ Active(q) => ident[p].id # ident[q].id

\* Whatever text the service takes off a path can be restored: a local revision
\* of it was recorded before ("Typed conflict; no overwrite" when somebody else
\* changes the target meanwhile, docs/14-documents-security-review.md).
ReplacedIsKept == taken \subseteq revs

-----------------------------------------------------------------------------
\* An identity that is not at the path it was born at left a tombstone there.
BornWhereMoved ==
    \A p, q \in Paths : Active(p) /\ ident[p].id = Born(q) /\ p # q => ident[q].state = "moved"

\* What the index knows has, or had, an identity record.
IndexedIdentified == \A p \in Paths : rows[p].state = "row" => ident[p].state # "none"

\* What is true of a request between two of its steps: an unknown file in a
\* scan is about to be born, what an index writer knows has a record, and a
\* request under way has its operation record.
DocCallStands(call, records, asked) ==
    /\ call.step \in DocSteps \cup {"verify"} => asked[call.key] # Unasked
    /\ call.step \in IndexSteps =>
         /\ call.then = DocIdle \/ (call.then.step = "complete" /\ asked[call.then.key] # Unasked)
         /\ \A p \in call.known : records[p].state # "none"
    /\ call.step = "persist" =>
         \A p \in Paths \ call.known : call.table[p].state = "row" => call.table[p].id = Born(p)
    /\ call.step = "swap" => \A p \in Paths : call.table[p].state = "row" => records[p].state # "none"
    /\ call.step = "check" => call.req.op \in {"update", "restore", "move"}
    /\ call.step \in {"exchange", "verify"} => call.req.op \in {"update", "restore"}
    /\ call.step \in {"drop", "find", "compare", "unlink", "rename"} => call.req.op = "move"

DocumentInv ==
    /\ DocumentTypeOK
    /\ IdentitiesUnique
    /\ BornWhereMoved
    /\ IndexedIdentified
    /\ \A c \in Callers : DocCallStands(dcall[c], ident, ops)
=============================================================================
