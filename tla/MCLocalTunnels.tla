--------------------------- MODULE MCLocalTunnels ---------------------------
\* A small instance of LocalTunnels for TLC.
EXTENDS LocalTunnels, TLC

CONSTANTS t1, r1, s1, s2, p1, p2, c1, watcher

\* A local forward on one port of two addresses: one runtime id, two sockets.
On(socket) == [runtime |-> r1, socket |-> socket]

AllFirst == [t \in Tunnel |-> On(s1)]

AnyEdit == {On(socket) : socket \in Socket} \cup {None}

\* No save and no delete.
NoEdit == {}

\* The starts are alike.
StartSymmetry == Permutations({p1, p2})
=============================================================================
