---------------------------- MODULE MCBandwidth ----------------------------
EXTENDS Bandwidth

\* The host is 1 (and 2), its containers 5, peers are above 10.
Tuple(src, sport, dst, dport) == [src |-> src, sport |-> sport, dst |-> dst, dport |-> dport]

Conn(orig, reply, tracked, sockets) ==
    [orig |-> orig, reply |-> reply, tracked |-> tracked, sockets |-> sockets, self |-> FALSE]

Socket(t, proc) == [u \in {t} |-> proc]
NoSocket == [u \in {} |-> 0]

\* A server on the host; a client on the host; a container behind port 80; the
\* same with another port inside; loopback; the server again on a second address
\* that conntrack does not track, for the same port of the peer; the program.
Served(peer, port) == Conn(Tuple(peer, port, 1, 80), Tuple(1, 80, peer, port), TRUE, Socket(Tuple(1, 80, peer, port), 1))
Client == Conn(Tuple(1, 7, 12, 81), Tuple(12, 81, 1, 7), TRUE, Socket(Tuple(1, 7, 12, 81), 2))
Contained == Conn(Tuple(11, 8, 1, 80), Tuple(5, 80, 11, 8), TRUE, NoSocket)
Translated == Conn(Tuple(11, 9, 1, 80), Tuple(5, 82, 11, 9), TRUE, NoSocket)
Loopback == Conn(Tuple(1, 6, 1, 80), Tuple(1, 80, 1, 6), TRUE,
                 [u \in {Tuple(1, 6, 1, 80), Tuple(1, 80, 1, 6)} |-> 3])
Untracked == Conn(Tuple(11, 5, 2, 80), Tuple(2, 80, 11, 5), FALSE, Socket(Tuple(2, 80, 11, 5), 1))
Own == [Client EXCEPT !.self = TRUE]

World(conns, accounting, n) == [conns |-> conns, accounting |-> accounting, events |-> n]

\* One connection, long enough to be replaced and to miss captures; two that
\* could be taken for each other; groups of two and more; no byte accounting;
\* three groups of one side, more than TopLimit keeps, of which the one with the
\* most connections may have moved the least.
MCWorlds ==
    { World({Served(11, 5)}, TRUE, 4),
      World({Contained}, TRUE, 3),
      World({Served(11, 5), Untracked}, TRUE, 3),
      World({Served(11, 5), Contained}, TRUE, 3),
      World({Client, Loopback}, TRUE, 2),
      World({Served(11, 5), Translated}, FALSE, 2),
      World({Own, Served(11, 5), Served(11, 6)}, TRUE, 2),
      World({Served(11, 5), Served(12, 5), Contained}, TRUE, 2),
      World({Served(11, 5), Served(11, 6), Served(12, 5), Served(13, 5)}, TRUE, 2) }
=============================================================================
