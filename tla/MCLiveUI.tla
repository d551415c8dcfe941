------------------------------ MODULE MCLiveUI ------------------------------
EXTENDS LiveUI

Row(peer, proc, localPort, remotePort, bytes, queue, words) ==
    [peer |-> peer, proc |-> proc, localPort |-> localPort, remotePort |-> remotePort,
     bytes |-> bytes, queue |-> queue, self |-> FALSE, words |-> words]

\* Three peers on two listening ports, six rows and so two pages of three; one
\* peer with two processes; one connection of the program itself.
Busy ==
    << Row(1, 1, 10, 21, 5, 0, {"w"}), Row(1, 1, 10, 22, 5, 1, {}), Row(1, 2, 11, 21, 0, 0, {"w"}),
       Row(2, 1, 11, 23, 9, 0, {}), Row(2, 1, 11, 24, 0, 2, {"w"}), Row(3, 1, 10, 21, 1, 0, {}),
       [Row(3, 1, 10, 25, 7, 0, {}) EXCEPT !.self = TRUE],
       Row(1, 3, 31, 20, 2, 0, {}), Row(2, 3, 32, 10, 2, 0, {"w"}) >>

\* Few rows, one page.
Quiet == << Row(2, 1, 11, 23, 3, 0, {}), Row(1, 3, 31, 20, 2, 0, {"w"}) >>

\* Kills with two goroutines; kills beside the refresh loops; the other dialogs
\* with a kill or a lookup on its way; the list by order and page; the list by
\* filter and height; the load of the interface, read by a loop and by a key.
MCSessions ==
    { [keys |-> {"k", "p", "q"}, tables |-> {Quiet}, loops |-> {}, tasks |-> {1, 2}, loads |-> {"idle"}],
      [keys |-> {"k", "p", "r"}, tables |-> {Quiet}, loops |-> {"refresh", "interface"}, tasks |-> {1}, loads |-> {"idle"}],
      [keys |-> {"p", "r", "q", "z"}, tables |-> {Quiet}, loops |-> Loops, tasks |-> {}, loads |-> {"idle"}],
      [keys |-> {"b", "K", "?", "k", "f"}, tables |-> {Quiet}, loops |-> {}, tasks |-> {1, 2}, loads |-> {"idle"}],
      [keys |-> {"h", "i", "I", "Tab", "s", "k", "o", "/"}, tables |-> {Quiet}, loops |-> {}, tasks |-> {1}, loads |-> {"idle"}],
      [keys |-> {"B", "C", "P", "g", "o", "Up", "Down", "[", "]", "m"},
       tables |-> {Busy, Quiet}, loops |-> {}, tasks |-> {}, loads |-> {"idle"}],
      [keys |-> {"f", "/", "g", "o", "z", "Esc", "Up", "Down", "]"},
       tables |-> {Busy, Quiet}, loops |-> {"refresh"}, tasks |-> {}, loads |-> {"idle"}],
      [keys |-> {"m", "p"}, tables |-> {Quiet}, loops |-> {"interface"}, tasks |-> {}, loads |-> Readings] }
=============================================================================
