---------------------------- MODULE PlatformStore ----------------------------
(* The record store the platform services share (platform_store.py).  A     *)
(* record is a chain of revisions of which a service sees the head.  Every  *)
(* append and every receipt is one SQLite transaction; a service call makes *)
(* several, and other processes run between them.                           *)
EXTENDS Naturals

CONSTANTS Callers,     \* concurrent service calls
          MaxDeaths    \* calls of a service that die half way, a bound

\* An append that trusts the revision it was given.
HeadUnmovedAlways(head, rev) == rev <= head.rev

\* append_record: the head must still have the revision the caller read; 0
\* stands for a record that does not exist (expected_revision=None).
HeadUnmoved(head, rev) == head.rev = rev

\* The head that append_record leaves.
Appended(head, new) == [new EXCEPT !.rev = head.rev + 1]

\* What a call has read of a record is the head, or the head has moved on
\* since: revisions are never given twice.
Remembers(prior, head) == prior.rev <= head.rev /\ (prior.rev = head.rev => prior = head)
=============================================================================
