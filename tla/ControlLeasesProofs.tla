------------------------ MODULE ControlLeasesProofs ------------------------
(***************************************************************************)
(* Proofs about the lease table, for every set of workers, partitions and  *)
(* runs and every value of the bounds.                                     *)
(***************************************************************************)
EXTENDS ControlLeases, TLAPS

\* What acquire_lease may hand out: a new partition starts at 1, a live lease of
\* the same run keeps its token, everything else is one above the row.
LEMMA NextFenceCases ==
    ASSUME LeaseTypeOK, NEW w \in Workers, NEW p \in Partitions, NEW t \in Nat,
           NextFence(w, p, t) # 0
    PROVE  \/ NextFence(w, p, t) = rows[p].fence + 1
           \/ /\ NextFence(w, p, t) = rows[p].fence
              /\ rows[p].owner = RunOf[w]
<1>1. rows[p].fence \in Nat /\ rows[p].expires \in Nat
  BY DEF LeaseTypeOK, Row
<1>2. CASE rows[p].fence = 0
  BY <1>1, <1>2 DEF NextFence
<1>3. CASE rows[p].fence # 0 /\ rows[p].owner = RunOf[w] /\ rows[p].expires > t
  BY <1>1, <1>3 DEF NextFence
<1>4. CASE rows[p].fence # 0 /\ (rows[p].owner = NoRun \/ rows[p].expires <= t)
  <2>1. CASE rows[p].owner = RunOf[w] /\ rows[p].expires > t
    BY <1>3, <1>4, <2>1
  <2>2. CASE ~(rows[p].owner = RunOf[w] /\ rows[p].expires > t)
    BY <1>1, <1>4, <2>2 DEF NextFence
  <2>. QED  BY <2>1, <2>2
<1>5. CASE /\ rows[p].fence # 0
           /\ ~(rows[p].owner = RunOf[w] /\ rows[p].expires > t)
           /\ ~(rows[p].owner = NoRun \/ rows[p].expires <= t)
  BY <1>5 DEF NextFence
<1>. QED  BY <1>2, <1>3, <1>4, <1>5

LEMMA SamplesAreTimes == LeaseTypeOK => Samples \subseteq Nat
BY DEF LeaseTypeOK, Samples

LEMMA InitInv == LeaseInit => LeaseInv
BY LeaseConstants
DEF LeaseInit, LeaseInv, LeaseTypeOK, NoRows, NoRow, Row, FenceNamesOneOwner, TokensBehindRow,
    RowOwnerHasNewestToken, GuardStaysValid, GuardKeepsRows

LEMMA AcquireInv ==
    ASSUME LeaseInv, NEW w \in Workers, NEW p \in Partitions, NEW t \in Nat,
           Acquire(w, p, t)
    PROVE  LeaseInv'
<1> DEFINE f == NextFence(w, p, t)
<1>1. /\ f \in Nat \ {0}
      /\ writer = NoWorker
      /\ rows' = [rows EXCEPT ![p] =
                    [owner |-> RunOf[w], fence |-> f, expires |-> t + TTL]]
      /\ tok' = [tok EXCEPT ![w][p] = f]
      /\ now' = now /\ writer' = writer /\ held' = held
      /\ pending' = pending /\ effect' = effect
  BY LeaseConstants DEF Acquire, WriterFree
<1>2. f = rows[p].fence + 1 \/ (f = rows[p].fence /\ rows[p].owner = RunOf[w])
  BY <1>1, NextFenceCases DEF LeaseInv
<1> HIDE DEF f
<1>3. RunOf[w] \in Runs /\ RunOf[w] # NoRun /\ t + TTL \in Nat
  BY LeaseConstants
<1>4. LeaseTypeOK'
  BY <1>1, <1>3 DEF LeaseInv, LeaseTypeOK, Row
<1>5. \A q \in Partitions : q # p => rows'[q] = rows[q]
  BY <1>1 DEF LeaseInv, LeaseTypeOK
<1>6. rows'[p].owner = RunOf[w] /\ rows'[p].fence = f /\ rows[p].fence \in Nat
  BY <1>1 DEF LeaseInv, LeaseTypeOK, Row
<1>7. \A v \in Workers, q \in Partitions :
         tok'[v][q] = IF v = w /\ q = p THEN f ELSE tok[v][q]
  BY <1>1 DEF LeaseInv, LeaseTypeOK
<1>8. \A v \in Workers, q \in Partitions : tok[v][q] \in Nat /\ tok[v][q] <= rows[q].fence
  BY DEF LeaseInv, LeaseTypeOK, TokensBehindRow
<1>9. TokensBehindRow'
  BY <1>1, <1>2, <1>5, <1>6, <1>7, <1>8 DEF TokensBehindRow
<1>10. \A v \in Workers : tok[v][p] = f => RunOf[v] = RunOf[w]
  BY <1>1, <1>2, <1>3, <1>6, <1>8 DEF LeaseInv, RowOwnerHasNewestToken
<1>11. FenceNamesOneOwner'
  BY <1>7, <1>10 DEF LeaseInv, FenceNamesOneOwner
<1>12. RowOwnerHasNewestToken'
  BY <1>1, <1>5, <1>6, <1>7, <1>10 DEF LeaseInv, RowOwnerHasNewestToken
<1>13. GuardStaysValid' /\ GuardKeepsRows'
  <2>1. \A q \in Partitions : effect[q] \in Nat /\ effect[q] <= rows[q].fence
    BY DEF LeaseInv, LeaseTypeOK, GuardKeepsRows
  <2>2. \A q \in Partitions : effect'[q] <= rows'[q].fence
    BY <1>1, <1>2, <1>5, <1>6, <2>1
  <2>. QED  BY <1>1, <2>2 DEF GuardStaysValid, GuardKeepsRows
<1>. QED  BY <1>4, <1>9, <1>11, <1>12, <1>13 DEF LeaseInv

\* Steps that change no token and keep owner and fence of every row, or give a
\* row up: Renew, Release and the end of a guard.
LEMMA RowsKeptInv ==
    ASSUME LeaseInv, LeaseTypeOK', tok' = tok, effect' = effect, writer' = NoWorker,
           \A p \in Partitions : /\ rows'[p].fence = rows[p].fence
                                 /\ rows'[p].owner \in {rows[p].owner, NoRun}
    PROVE  LeaseInv'
BY DEF LeaseInv, FenceNamesOneOwner, TokensBehindRow, RowOwnerHasNewestToken,
       GuardStaysValid, GuardKeepsRows

LEMMA StepInv == LeaseInv /\ [LeaseNext]_leaseVars => LeaseInv'
<1> SUFFICES ASSUME LeaseInv, [LeaseNext]_leaseVars PROVE LeaseInv'
  OBVIOUS
<1> LeaseTypeOK /\ Samples \subseteq Nat
  BY SamplesAreTimes DEF LeaseInv
<1> \A t \in Nat : t + TTL \in Nat
  BY LeaseConstants
<1>1. ASSUME NEW w \in Workers, NEW p \in Partitions, NEW t \in Samples,
             Acquire(w, p, t)
      PROVE  LeaseInv'
  BY <1>1, AcquireInv
<1>2. ASSUME NEW w \in Workers, NEW p \in Partitions, NEW t \in Samples,
             Renew(w, p, t)
      PROVE  LeaseInv'
  <2>1. LeaseTypeOK'
    BY <1>2 DEF Renew, LeaseTypeOK, Row
  <2>2. \A q \in Partitions : rows'[q].fence = rows[q].fence /\ rows'[q].owner = rows[q].owner
    BY <1>2 DEF Renew, LeaseTypeOK, Row
  <2>. QED  BY <1>2, <2>1, <2>2, RowsKeptInv DEF Renew, WriterFree
<1>3. ASSUME NEW w \in Workers, NEW p \in Partitions, Release(w, p)
      PROVE  LeaseInv'
  <2>1. LeaseTypeOK'
    BY <1>3 DEF Release, LeaseTypeOK, Row
  <2>2. \A q \in Partitions : /\ rows'[q].fence = rows[q].fence
                              /\ rows'[q].owner \in {rows[q].owner, NoRun}
    BY <1>3 DEF Release, LeaseTypeOK, Row
  <2>. QED  BY <1>3, <2>1, <2>2, RowsKeptInv DEF Release, WriterFree
<1>4. ASSUME NEW w \in Workers, NEW S \in SUBSET Partitions, NEW t \in Samples,
             NEW b \in BOOLEAN, EnterGuard(w, S, t, b)
      PROVE  LeaseInv'
  <2>1. \A p \in Partitions : /\ pending'[p] \in Row
                              /\ pending'[p].owner = rows[p].owner
                              /\ pending'[p].fence = rows[p].fence
    BY <1>4 DEF EnterGuard, LeaseTypeOK, Row
  <2>2. pending' \in [Partitions -> Row]
    BY <1>4, <2>1 DEF EnterGuard
  <2>3. LeaseTypeOK'
    BY <1>4, <2>2 DEF EnterGuard, LeaseTypeOK
  <2>. QED  BY <1>4, <2>1, <2>3
            DEF EnterGuard, Verify, Owns, LeaseInv, FenceNamesOneOwner, TokensBehindRow,
                RowOwnerHasNewestToken, GuardStaysValid, GuardKeepsRows
<1>5. ASSUME NEW w \in Workers, NEW t \in Samples, RenewHeld(w, t)
      PROVE  LeaseInv'
  <2>1. \A p \in Partitions : /\ pending'[p] \in Row
                              /\ pending'[p].owner = pending[p].owner
                              /\ pending'[p].fence = pending[p].fence
    BY <1>5 DEF RenewHeld, LeaseTypeOK, Row
  <2>2. pending' \in [Partitions -> Row]
    BY <1>5, <2>1 DEF RenewHeld
  <2>3. LeaseTypeOK'
    BY <1>5, <2>2 DEF RenewHeld, LeaseTypeOK
  <2>. QED  BY <1>5, <2>1, <2>3
            DEF RenewHeld, Owns, LeaseInv, FenceNamesOneOwner, TokensBehindRow,
                RowOwnerHasNewestToken, GuardStaysValid, GuardKeepsRows
<1>6. ASSUME NEW w \in Workers, GuardedWrite(w)
      PROVE  LeaseInv'
  <2>1. \A p \in Partitions : effect'[p] \in Nat /\ effect'[p] <= rows[p].fence
    BY <1>6 DEF GuardedWrite, LeaseTypeOK, LeaseInv, TokensBehindRow, GuardKeepsRows
  <2>2. LeaseTypeOK'
    BY <1>6 DEF GuardedWrite, LeaseTypeOK
  <2>. QED  BY <1>6, <2>1, <2>2
            DEF GuardedWrite, Owns, LeaseInv, FenceNamesOneOwner, TokensBehindRow,
                RowOwnerHasNewestToken, GuardStaysValid, GuardKeepsRows
<1>7. ASSUME NEW w \in Workers, LeaveGuard(w)
      PROVE  LeaseInv'
  <2>1. LeaseTypeOK'
    BY <1>7 DEF LeaveGuard, LeaseTypeOK, NoRows, NoRow, Row
  <2>2. \A q \in Partitions : rows'[q].fence = rows[q].fence /\ rows'[q].owner = rows[q].owner
    BY <1>7, LeaseConstants DEF LeaveGuard, LeaseInv, GuardKeepsRows
  <2>. QED  BY <1>7, <2>1, <2>2, RowsKeptInv DEF LeaveGuard
<1>8. ASSUME NEW w \in Workers, AbortGuard(w)
      PROVE  LeaseInv'
  <2>1. LeaseTypeOK'
    BY <1>8 DEF AbortGuard, LeaseTypeOK, NoRows, NoRow, Row
  <2>. QED  BY <1>8, <2>1, RowsKeptInv DEF AbortGuard
<1>9. CASE Tick
  BY <1>9 DEF Tick, Owns, LeaseInv, LeaseTypeOK, FenceNamesOneOwner, TokensBehindRow,
              RowOwnerHasNewestToken, GuardStaysValid, GuardKeepsRows
<1>10. CASE UNCHANGED leaseVars
  BY <1>10 DEF leaseVars, Owns, LeaseInv, LeaseTypeOK, FenceNamesOneOwner, TokensBehindRow,
               RowOwnerHasNewestToken, GuardStaysValid, GuardKeepsRows
<1>. QED  BY <1>1, <1>2, <1>3, <1>4, <1>5, <1>6, <1>7, <1>8, <1>9, <1>10 DEF LeaseNext

\* Every reachable state of the lease table satisfies the inductive invariant.
THEOREM LeaseInvariant == LeaseSpec => []LeaseInv
BY InitInv, StepInv, PTL DEF LeaseSpec

\* Type correctness of the lease table.
THEOREM TypeCorrect == LeaseSpec => []LeaseTypeOK
<1>1. LeaseInv => LeaseTypeOK
  BY DEF LeaseInv
<1>. QED  BY <1>1, LeaseInvariant, PTL

\* acquire_lease never hands one fencing token to two runs.
THEOREM FenceOwnership == LeaseSpec => []FenceNamesOneOwner
<1>1. LeaseInv => FenceNamesOneOwner
  BY DEF LeaseInv
<1>. QED  BY <1>1, LeaseInvariant, PTL

\* What hold_valid_leases checked holds until its body ends.
THEOREM GuardValidity == LeaseSpec => []GuardStaysValid
<1>1. LeaseInv => GuardStaysValid
  BY DEF LeaseInv
<1>. QED  BY <1>1, LeaseInvariant, PTL

\* A worker that was overtaken cannot make a guarded write.
THEOREM StaleWritesExcluded == LeaseSpec => NoStaleWrite
<1> DEFINE A == \A p \in Partitions :
                   effect'[p] # effect[p] =>
                       effect'[p] = rows[p].fence /\ effect'[p] > effect[p]
<1>1. LeaseInv /\ [LeaseNext]_leaseVars => [A]_leaseVars
  <2> SUFFICES ASSUME LeaseInv, LeaseNext, NEW p \in Partitions, effect'[p] # effect[p]
               PROVE  effect'[p] = rows[p].fence /\ effect'[p] > effect[p]
    OBVIOUS
  <2>1. PICK w \in Workers : GuardedWrite(w)
    BY DEF LeaseNext, Acquire, Renew, Release, EnterGuard, RenewHeld, LeaveGuard,
           AbortGuard, Tick
  <2>2. p \in held /\ effect'[p] = tok[w][p] /\ writer = w
    BY <2>1 DEF GuardedWrite
  <2>3. tok[w][p] = rows[p].fence
    BY <2>2, LeaseConstants DEF LeaseInv, GuardStaysValid, Owns
  <2>4. effect[p] \in Nat /\ rows[p].fence \in Nat /\ effect[p] <= rows[p].fence
    BY DEF LeaseInv, LeaseTypeOK, Row, GuardKeepsRows
  <2>. QED  BY <2>2, <2>3, <2>4
<1>. QED  BY <1>1, LeaseInvariant, PTL DEF LeaseSpec, NoStaleWrite

\* No run takes over a lease that has not expired, even with a time sample that
\* is older than the clock.
THEOREM LiveLeasesKept == LeaseSpec => LiveLeaseNotStolen
<1> DEFINE A == \A p \in Partitions :
                   /\ rows[p].owner # NoRun
                   /\ rows[p].expires > now
                   => rows'[p].owner \in {rows[p].owner, NoRun}
<1>1. LeaseInv /\ [LeaseNext]_leaseVars => [A]_leaseVars
  <2> SUFFICES ASSUME LeaseInv, LeaseNext, NEW p \in Partitions,
                      rows[p].owner # NoRun, rows[p].expires > now
               PROVE  rows'[p].owner \in {rows[p].owner, NoRun}
    OBVIOUS
  <2> LeaseTypeOK
    BY DEF LeaseInv
  <2>1. ASSUME NEW w \in Workers, NEW q \in Partitions, NEW t \in Samples,
               Acquire(w, q, t)
        PROVE  rows'[p].owner = rows[p].owner
    <3>1. CASE q # p
      BY <2>1, <3>1 DEF Acquire, LeaseTypeOK
    <3>2. CASE q = p
      <4>1. rows[p].fence # 0
        BY <2>1 DEF LeaseInv, RowOwnerHasNewestToken
      <4>2. t \in Nat /\ rows[p].expires \in Nat /\ ~(rows[p].expires <= t)
        BY DEF Samples, LeaseTypeOK, Row
      <4>3. NextFence(w, p, t) # 0
        BY <2>1, <3>2 DEF Acquire
      <4>4. rows[p].owner = RunOf[w]
        BY <4>1, <4>2, <4>3 DEF NextFence
      <4>. QED  BY <2>1, <3>2, <4>4 DEF Acquire, LeaseTypeOK
    <3>. QED  BY <3>1, <3>2
  <2>2. ASSUME NEW w \in Workers, NEW q \in Partitions, NEW t \in Samples,
               Renew(w, q, t)
        PROVE  rows'[p].owner = rows[p].owner
    BY <2>2 DEF Renew, LeaseTypeOK, Row
  <2>3. ASSUME NEW w \in Workers, NEW q \in Partitions, Release(w, q)
        PROVE  rows'[p].owner \in {rows[p].owner, NoRun}
    BY <2>3 DEF Release, LeaseTypeOK, Row
  <2>4. ASSUME NEW w \in Workers, LeaveGuard(w)
        PROVE  rows'[p].owner = rows[p].owner
    BY <2>4, LeaseConstants DEF LeaveGuard, LeaseInv, GuardKeepsRows
  <2>5. ASSUME UNCHANGED rows PROVE rows'[p].owner = rows[p].owner
    BY <2>5
  <2>. QED  BY <2>1, <2>2, <2>3, <2>4, <2>5
            DEF LeaseNext, EnterGuard, RenewHeld, GuardedWrite, AbortGuard, Tick
<1>. QED  BY <1>1, LeaseInvariant, PTL DEF LeaseSpec, LiveLeaseNotStolen
=============================================================================
