--------------------------- MODULE ControlLeases ---------------------------
(***************************************************************************)
(* The fenced lease table of ControlDB (src/raytsystem/control.py).        *)
(*                                                                         *)
(* A partition has one row: owner run, fencing token, expiry.  Workers     *)
(* keep the token they were given and come back with it at any later time. *)
(* Every write is one SQLite transaction; hold_valid_leases is the one     *)
(* that stays open while the caller commits something on the filesystem,   *)
(* so it is split into steps and the writer lock is a variable.            *)
(*                                                                         *)
(* Callers read the clock before they enter the transaction and may wait   *)
(* for the writer lock in between (busy_timeout), so an operation runs     *)
(* with a time sample that is up to MaxLag old.                            *)
(***************************************************************************)
EXTENDS Integers, FiniteSets

CONSTANTS Partitions,  \* lease partition keys
          Workers,     \* threads or processes that use the database
          Runs,        \* owner_run_id values
          RunOf,       \* the run a worker works for; a retry shares its run
          NoRun,       \* SQL NULL in owner_run_id
          NoWorker,    \* nobody holds the SQLite writer lock
          TTL,         \* ttl_ms of every call
          MaxLag,      \* oldest time sample an operation may use
          MaxClock,     \* bound on the clock
          MaxFence     \* bound on the fencing tokens

ASSUME LeaseConstants ==
    /\ RunOf \in [Workers -> Runs]
    /\ NoRun \notin Runs
    /\ NoWorker \notin Workers
    /\ TTL \in Nat \ {0}
    /\ MaxLag \in Nat
    /\ MaxClock \in Nat
    /\ MaxFence \in Nat

VARIABLES now,      \* the wall clock
          rows,     \* committed lease rows; fence 0 means no row yet
          tok,      \* tok[w][p]: fencing token worker w was handed, 0 if none
          writer,   \* worker inside hold_valid_leases, or NoWorker
          held,     \* the partitions that guard covers
          pending,  \* the guard's uncommitted view of rows
          effect    \* effect[p]: token under which p's guarded file was last written

leaseVars == <<now, rows, tok, writer, held, pending, effect>>

Row == [owner : Runs \cup {NoRun}, fence : Nat, expires : Nat]

LeaseTypeOK ==
    /\ now \in Nat
    /\ rows \in [Partitions -> Row]
    /\ tok \in [Workers -> [Partitions -> Nat]]
    /\ writer \in Workers \cup {NoWorker}
    /\ held \in SUBSET Partitions
    /\ pending \in [Partitions -> Row]
    /\ effect \in [Partitions -> Nat]

NoRow == [owner |-> NoRun, fence |-> 0, expires |-> 0]
NoRows == [p \in Partitions |-> NoRow]

LeaseInit ==
    /\ now = 0
    /\ rows = NoRows
    /\ tok = [w \in Workers |-> [p \in Partitions |-> 0]]
    /\ writer = NoWorker
    /\ held = {}
    /\ pending = NoRows
    /\ effect = [p \in Partitions |-> 0]

-----------------------------------------------------------------------------
\* The time samples an operation that commits now may have been called with.
Samples == {t \in 0..now : now - t <= MaxLag}

\* Mutation: the token is not compared, only the run.
OwnsByRun(w, p) == rows[p].owner = RunOf[w] /\ tok[w][p] # 0

\* The WHERE clause shared by verify, renew, release and hold: the row still
\* carries this worker's run and token.
Owns(w, p) ==
    /\ rows[p].owner = RunOf[w]
    /\ rows[p].fence = tok[w][p]

\* verify_lease: owned and not expired at the caller's time sample.
Verify(w, p, t) == Owns(w, p) /\ rows[p].expires > t

\* Mutation: a released partition is handed out under its old token.
NextFenceReused(w, p, t) ==
    CASE rows[p].fence = 0 -> 1
      [] rows[p].fence # 0 /\ rows[p].owner = RunOf[w] /\ rows[p].expires > t
            -> rows[p].fence
      [] rows[p].fence # 0 /\ rows[p].owner = NoRun -> rows[p].fence
      [] rows[p].owner # NoRun /\ rows[p].expires <= t -> rows[p].fence + 1
      [] OTHER -> 0

\* The fencing token acquire_lease hands out, 0 for LeaseBusy.
NextFence(w, p, t) ==
    CASE rows[p].fence = 0 -> 1
      [] rows[p].fence # 0 /\ rows[p].owner = RunOf[w] /\ rows[p].expires > t
            -> rows[p].fence
      [] rows[p].fence # 0 /\ (rows[p].owner = NoRun \/ rows[p].expires <= t)
            -> rows[p].fence + 1
      [] OTHER -> 0

\* Mutation: a plain BEGIN, which does not wait for the writer.
WriterIgnored == writer = writer

\* BEGIN IMMEDIATE blocks while another connection holds the writer lock.
WriterFree == writer = NoWorker

Acquire(w, p, t) ==
    LET f == NextFence(w, p, t) IN
    /\ WriterFree
    /\ f \in 1..MaxFence
    /\ rows' = [rows EXCEPT ![p] =
                  [owner |-> RunOf[w], fence |-> f, expires |-> t + TTL]]
    /\ tok' = [tok EXCEPT ![w][p] = f]
    /\ UNCHANGED <<now, writer, held, pending, effect>>

Renew(w, p, t) ==
    /\ WriterFree
    /\ Verify(w, p, t)
    /\ rows' = [rows EXCEPT ![p].expires = t + TTL]
    /\ UNCHANGED <<now, tok, writer, held, pending, effect>>

\* An expired lease may still be released by its last owner; a lease that
\* moved on is left alone (release_lease returns False).
Release(w, p) ==
    /\ WriterFree
    /\ Owns(w, p)
    /\ rows' = [rows EXCEPT ![p].owner = NoRun, ![p].expires = 0]
    /\ UNCHANGED <<now, tok, writer, held, pending, effect>>

\* hold_valid_leases up to its yield: every lease is checked under the writer
\* lock; with renew_ttl_ms each row is extended in the open transaction.
EnterGuard(w, S, t, renew) ==
    /\ WriterFree
    /\ S # {}
    /\ \A p \in S : Verify(w, p, t)
    /\ writer' = w
    /\ held' = S
    /\ pending' = [p \in Partitions |->
                     IF p \in S /\ renew THEN [rows[p] EXCEPT !.expires = t + TTL]
                                         ELSE rows[p]]
    /\ UNCHANGED <<now, rows, tok, effect>>

\* renew_held_leases: inside the open transaction, no expiry check.
RenewHeld(w, t) ==
    /\ writer = w
    /\ pending' = [p \in Partitions |->
                     IF p \in held THEN [pending[p] EXCEPT !.expires = t + TTL]
                                   ELSE pending[p]]
    /\ UNCHANGED <<now, rows, tok, writer, held, effect>>

\* The with-block's body: the fenced filesystem commit of the caller.
GuardedWrite(w) ==
    /\ writer = w
    /\ effect' = [p \in Partitions |-> IF p \in held THEN tok[w][p] ELSE effect[p]]
    /\ UNCHANGED <<now, rows, tok, writer, held, pending>>

\* The with-block ends: COMMIT.
LeaveGuard(w) ==
    /\ writer = w
    /\ rows' = pending
    /\ writer' = NoWorker
    /\ held' = {}
    /\ pending' = NoRows
    /\ UNCHANGED <<now, tok, effect>>

\* An exception in the body, or the process dying: ROLLBACK of the rows; what
\* the body wrote to the filesystem stays.
AbortGuard(w) ==
    /\ writer = w
    /\ writer' = NoWorker
    /\ held' = {}
    /\ pending' = NoRows
    /\ UNCHANGED <<now, rows, tok, effect>>

Tick ==
    /\ now < MaxClock
    /\ now' = now + 1
    /\ UNCHANGED <<rows, tok, writer, held, pending, effect>>

LeaseNext ==
    \/ \E w \in Workers, p \in Partitions, t \in Samples :
          Acquire(w, p, t) \/ Renew(w, p, t)
    \/ \E w \in Workers, p \in Partitions : Release(w, p)
    \/ \E w \in Workers, S \in SUBSET Partitions, t \in Samples, b \in BOOLEAN :
          EnterGuard(w, S, t, b)
    \/ \E w \in Workers, t \in Samples : RenewHeld(w, t)
    \/ \E w \in Workers : GuardedWrite(w) \/ LeaveGuard(w) \/ AbortGuard(w)
    \/ Tick

LeaseSpec == LeaseInit /\ [][LeaseNext]_leaseVars

-----------------------------------------------------------------------------
\* A fencing token names one owner: two workers that were ever handed the same
\* token of a partition work for the same run, so a takeover always raises the
\* token (acquire_lease's "+ 1" branches).
FenceNamesOneOwner ==
    \A v, w \in Workers, p \in Partitions :
        tok[v][p] = tok[w][p] /\ tok[v][p] # 0 => RunOf[v] = RunOf[w]

\* No token in anyone's memory is newer than the row: the row's token survives
\* release and expiry, so it is never handed out twice.
TokensBehindRow ==
    \A w \in Workers, p \in Partitions : tok[w][p] <= rows[p].fence

\* The row's owner is the run its newest token was handed to.
RowOwnerHasNewestToken ==
    \A w \in Workers, p \in Partitions :
        /\ rows[p].owner # NoRun => rows[p].fence # 0
        /\ rows[p].owner # NoRun /\ tok[w][p] = rows[p].fence => RunOf[w] = rows[p].owner

\* While a guard is open, the rows it checked cannot move to another owner:
\* what hold_valid_leases verified is still true when the body writes.
GuardStaysValid ==
    writer # NoWorker => \A p \in held : Owns(writer, p)

\* The open transaction changes expiries only, and no file was written under a
\* token that does not exist yet.
GuardKeepsRows ==
    /\ writer # NoWorker =>
         \A p \in Partitions : /\ pending[p].owner = rows[p].owner
                               /\ pending[p].fence = rows[p].fence
    /\ \A p \in Partitions : effect[p] <= rows[p].fence

\* The inductive invariant behind the theorems of ControlLeasesProofs.
LeaseInv ==
    /\ LeaseTypeOK
    /\ FenceNamesOneOwner
    /\ TokensBehindRow
    /\ RowOwnerHasNewestToken
    /\ GuardStaysValid
    /\ GuardKeepsRows

\* A guarded write is made under the newest token of its partition, so a worker
\* that was overtaken never writes again, however late it wakes up.
NoStaleWrite ==
    [][\A p \in Partitions :
          effect'[p] # effect[p] =>
              effect'[p] = rows[p].fence /\ effect'[p] > effect[p]]_leaseVars

\* A lease that is still running goes to nobody else: its owner may give it up,
\* but no other run becomes its owner before it expires.
LiveLeaseNotStolen ==
    [][\A p \in Partitions :
          /\ rows[p].owner # NoRun
          /\ rows[p].expires > now
          => rows'[p].owner \in {rows[p].owner, NoRun}]_leaseVars
=============================================================================
