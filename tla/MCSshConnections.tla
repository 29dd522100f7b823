-------------------------- MODULE MCSshConnections --------------------------
\* Small instances of SshConnections for TLC.
EXTENDS SshConnections, TLC

CONSTANTS h1, a1, a2, a3, c1, c2

\* All attempts are for one connection: only those of one id can interfere.
OneHost == {h1}
AllForOneHost == [a \in Attempt |-> h1]

\* The properties never name an attempt or a caller, so permuting either is
\* sound for the safety runs when all attempts are for one connection.
Interchangeable == Permutations(Attempt) \cup Permutations(Caller)
=============================================================================
