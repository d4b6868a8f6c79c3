------------------------- MODULE MCClientHandshake --------------------------
(***************************************************************************)
(* ClientHandshake for TLC: every command and protocol, addresses of all   *)
(* three forms, allowed and not, clients that wait and clients that do not.*)
(***************************************************************************)
EXTENDS ClientHandshake

Port   == <<0, 80>>
Ipv4   == Address(IPV4_FLAG, <<10, 0, 0, 1>>, Port)
Local  == Address(IPV4_FLAG, <<127, 0, 0, 1>>, Port)
Ipv6   == Address(IPV6_FLAG, [i \in 1..16 |-> IF i = 1 THEN 254 ELSE 1], Port)
Local6 == Address(IPV6_FLAG, [i \in 1..16 |-> IF i = 16 THEN 1 ELSE 0], Port)
\* An IPv6 address whose bytes read as a request.
Nested == Address(IPV6_FLAG, <<5, 1, 0, 1, 10, 0, 0, 1, 0, 80, 1, 1, 1, 1, 1, 1>>, Port)
Name   == Address(DOMAIN_FLAG, <<97, 98>>, Port)
Zero   == Address(DOMAIN_FLAG, ZeroName, Port)
Host   == Address(DOMAIN_FLAG, LocalhostName, Port)

MCClients ==
    {Socks5(<<0, 2>>, CONNECT, a, e) : a \in {Ipv4, Ipv6, Name}, e \in BOOLEAN}
      \cup {Socks5(<<0>>, CONNECT, a, FALSE) : a \in {Local, Local6, Zero, Host}}
      \cup {Socks5(<<0>>, c, Ipv4, FALSE) : c \in {BIND, UDP_ASSOCIATE, 9}}
      \cup {Socks5(<<0>>, CONNECT, Nested, TRUE)}
      \cup {Http(c, a, e) : c \in {CONNECT, 0}, a \in {Name, Host, NoHost}, e \in BOOLEAN}
      \cup {Socks4}

MCData == <<21, 22>>
=============================================================================
