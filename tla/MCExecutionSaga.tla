-------------------------- MODULE MCExecutionSaga --------------------------
(* Two services, two idempotency keys and two starts on one task.          *)
EXTENDS ExecutionSaga, TLC

CONSTANTS u, v, r1, r2, t1, t2

\* a heartbeats for r1 at t1, b for r1 at t2 and c for r2 at t1.
Asks(a, b, c) ==
    [x \in Runs \X Stamps |-> CASE x = <<r1, t1>> -> a [] x = <<r1, t2>> -> b
                                [] x = <<r2, t1>> -> c [] OTHER -> 0]

Load(a, b, c, n) == [heartbeats |-> Asks(a, b, c), troubles |-> n]

\* Retries with the same start and with another one, two keys, and three
\* heartbeats of two keys.
MCWorkloads == {Load(2, 0, 0, 1), Load(1, 1, 0, 2), Load(1, 0, 1, 1), Load(1, 1, 1, 0)}

\* Two retries of a key that say the same start, and nothing goes wrong.
MCRetries == {Load(2, 0, 0, 0)}

\* Two keys, and nothing goes wrong.
MCTwoKeys == {Load(1, 0, 1, 0)}
=============================================================================
