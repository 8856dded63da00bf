------------------------------ MODULE MCDnssd ------------------------------
(* Dnssd for TLC: two addresses to use and one to skip, two hosts. *)
EXTENDS Dnssd

CONSTANTS eth, wifi, lo, c1, c2, h1, h2

Up == {"up", "multicast"}
AllInterfaces ==
    [a \in {eth, wifi, lo} |->
        [network |-> TRUE, flags |-> Up \cup (IF a = lo THEN {"loopback"} ELSE {}),
         family |-> IF a = wifi THEN "inet6" ELSE "inet",
         localhost |-> a = lo, scope |-> FALSE]]

\* A host with an escaped dot in its name, and a record that is cut short.
OctalDot == <<"h", "\\", "0", "5", "6", "x", ".", "s", ".", "t", ".", "l", ".">>
\* A host with a dot in its name, a name of two labels, and one that is too short.
Dotted == <<"h", "\\", ".", "x", ".", "s", ".", "t", ".", "l", ".">>
Plain == <<"h", "o", "s", "t", ".", "n", "e", "t", ".">>
Short == <<"h", ".", "n", ".">>
\* A backslash and a zero byte in the first label, an octal zero in the second.
Zeros == <<"h", "\\", "\\", "nul", "x", ".", "n", "\\", "0", "0", "0", "t", ".">>

Record(kind, text) == [kind |-> kind, text |-> text]

AllAnswers == [h \in {h1, h2} |->
    IF h = h1 THEN [services |-> <<"ssh">>,
                    records |-> <<Record("ptr", OctalDot), Record("cut", Plain),
                                  Record("srv", OctalDot)>>]
              ELSE [services |-> <<"ipp", "ssh">>,
                    records |-> <<Record("srv", Dotted), Record("addr", Plain),
                                  Record("addr", Short), Record("addr", Zeros)>>]]

Scene(cs, n, hs, as) == [callers |-> cs, pool |-> n, hosts |-> hs, addrs |-> as]

\* One caller with threads enough or not, and two callers.
AllScenes == {Scene({c1}, 1, {h1, h2}, {eth, lo}), Scene({c1}, 2, {h1}, {eth, wifi}),
              Scene({c1}, 1, {h2}, {eth, wifi}), Scene({c1, c2}, 1, {}, {eth, wifi})}
=============================================================================
