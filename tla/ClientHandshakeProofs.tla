----------------------- MODULE ClientHandshakeProofs ------------------------
(***************************************************************************)
(* The handshakes of ClientHandshake, for any clients and any data: what   *)
(* the decoders make of a client's messages however they are split, and    *)
(* where the bytes of a connection are at every point of its handler.      *)
(***************************************************************************)
EXTENDS ClientHandshake, TLAPS

-----------------------------------------------------------------------------
(* The invariant                                                           *)

Octets == Seq(Byte)

\* What client c writes: its k-th message, and how many there are.
Message(c, k) ==
    IF c.protocol = "socks5"
    THEN IF k = 1 THEN <<SOCKS_V5, Len(c.methods)>> \o c.methods
         ELSE IF k = 2 THEN <<SOCKS_V5, c.type, 0>> \o AddressBytes(c.address)
         ELSE IF c.type = CONNECT THEN Data ELSE <<>>
    ELSE IF c.protocol = "http"
    THEN IF k = 1 THEN HttpRequest ELSE IF k = 2 THEN Data ELSE <<>>
    ELSE IF k = 1 THEN <<SOCKS_V4, CONNECT>> ELSE <<>>
Count(c) ==
    IF c.protocol = "socks5" THEN IF c.type = CONNECT THEN 3 ELSE 2
    ELSE IF c.protocol = "http" THEN 2 ELSE 1

\* The number of bytes in the first w messages, and the i-th byte of them all.
End(c, w) ==
    (IF w > 0 THEN Len(Message(c, 1)) ELSE 0)
      + (IF w > 1 THEN Len(Message(c, 2)) ELSE 0)
      + (IF w > 2 THEN Len(Message(c, 3)) ELSE 0)
Wire(c, i) ==
    IF i <= End(c, 1) THEN Message(c, 1)[i]
    ELSE IF i <= End(c, 2) THEN Message(c, 2)[i - End(c, 1)]
    ELSE Message(c, 3)[i - End(c, 2)]

\* s holds the bytes of client c that come after the first b.
At(c, b, s) == \A i \in 1..Len(s) : s[i] = Wire(c, b + i)

\* Four pieces of a client's bytes.
Held(d, r, u, s) == d \in Octets /\ r \in Octets /\ u \in Octets /\ s \in Octets

\* The bytes of client c behind the first b, up to the e-th, are in d, r, u and
\* s, in this order.
Carries(c, b, d, r, u, s, e) ==
    /\ At(c, b, d)
    /\ At(c, b + Len(d), r)
    /\ At(c, b + Len(d) + Len(r), u)
    /\ At(c, b + Len(d) + Len(r) + Len(u), s)
    /\ b + Len(d) + Len(r) + Len(u) + Len(s) = e

\* How many bytes of client c are behind the handler at point a.
Base(c, a) ==
    IF a \in {"dispatch", "auth", "http", "http_more"} THEN 0
    ELSE IF a \in {"auth_reply", "init"} THEN End(c, 1)
    ELSE IF c.protocol = "socks5" THEN End(c, 2)
    ELSE IF a = "relay" THEN End(c, 1) ELSE 0

Early  == {"dispatch", "auth", "auth_reply", "http", "http_more"}
Before == Early \cup {"init", "proxy", "reply"}
Agents == Reading \cup Decided
            \cup {"auth_reply", "http", "http_more", "proxy", "reply", "udp_reply"}

Shape ==
    /\ client \in Clients
    /\ written \in 0..Count(client)
    /\ closed \in BOOLEAN /\ cut \in BOOLEAN /\ inside \in BOOLEAN /\ refused \in BOOLEAN
    /\ agent \in Agents

\* Which clients get where.
Kinds ==
    /\ agent \in {"auth", "auth_reply", "init", "udp_reply", "udp_relay"} => client.protocol = "socks5"
    /\ agent \in {"http", "http_more"} => client.protocol = "http"
    /\ inside => client.protocol = "http" /\ cut
    /\ agent \in {"proxy", "reply", "relay"} => client.protocol \in {"socks5", "http"}
    /\ agent = "reply" /\ client.protocol = "http" => client.type = CONNECT

\* What has been answered at each point.
Answered ==
    /\ agent \in Early => replies = <<>>
    /\ agent = "init" => replies = <<AuthReply>>
    /\ agent \in {"proxy", "reply", "udp_reply"} =>
          replies = IF client.protocol = "socks5" THEN <<AuthReply>> ELSE <<>>
    /\ agent = "relay" =>
          replies = IF client.protocol = "socks5" THEN <<AuthReply, InitReply(dst)>>
                    ELSE IF client.type = CONNECT THEN <<HttpEstablished>> ELSE <<>>
    /\ agent = "udp_relay" => replies = <<AuthReply, InitReply(UdpBindAddress)>>
    /\ agent \in {"failed", "panicked"} => replies \in {<<>>, <<AuthReply>>}

\* A client that waits is at most one message ahead of its answers.
Waits ==
    ~client.eager =>
        \/ written <= Len(replies) + 1
        \/ client.protocol = "http" /\ client.type # CONNECT /\ agent = "relay"

\* What the points of the handler have not touched yet.
Untouched ==
    /\ agent \in Early => lost = <<>>
    /\ agent \in Before => dropped = <<>> /\ relayed = <<>>
    /\ agent \in {"relay", "udp_relay"} => buf = <<>>
    /\ ~client.eager => lost = <<>>
    /\ agent = "relay" /\ ~client.eager => dropped = <<>>

\* Where the bytes of the client are known.
Known == lost = <<>> /\ (agent \in Before \/ (agent = "relay" /\ ~inside))

\* Unless a part of the request was lost, or its decoder was fed twice, every
\* byte is where it belongs.
Positions ==
    Known =>
        /\ Held(dropped, relayed, buf, stream)
        /\ Carries(client, Base(client, agent), dropped, relayed, buf, stream, End(client, written))

\* The request that is served is the one the client has made.
Asked ==
    /\ client.protocol = "socks5" /\ lost = <<>> /\ agent \in {"proxy", "reply", "relay"} =>
          client.type = CONNECT /\ dst = client.address /\ client.address.host # ZeroName
    /\ client.protocol = "http" /\ agent \in {"proxy", "reply"} /\ ~inside =>
          Len(buf) >= Len(HttpRequest)

IInv ==
    /\ Shape /\ Kinds /\ Answered /\ Waits /\ Untouched /\ Positions /\ Asked
    /\ FailsOnlyForCause

-----------------------------------------------------------------------------
(* Sequences of bytes                                                      *)

\* Nothing is a sequence of bytes.
LEMMA EmptyOctets == <<>> \in Octets /\ Len(<<>>) = 0
BY DEF Octets

\* The length and the bytes of a sequence.
LEMMA OctetsLen ==
    ASSUME NEW s, s \in Octets
    PROVE  /\ Len(s) \in Nat
           /\ \A i \in 1..Len(s) : s[i] \in Byte
           /\ Len(s) = 0 => s = <<>>
BY DEF Octets

\* Sequences are equal when their lengths and bytes are.
LEMMA OctetsEqual ==
    ASSUME NEW s, NEW t, s \in Octets, t \in Octets, Len(s) = Len(t),
           \A i \in 1..Len(s) : s[i] = t[i]
    PROVE  s = t
BY DEF Octets

\* The bytes of a concatenation.
LEMMA Concat ==
    ASSUME NEW s, NEW t, s \in Octets, t \in Octets
    PROVE  /\ s \o t \in Octets
           /\ Len(s \o t) = Len(s) + Len(t)
           /\ \A i \in 1..Len(s) : (s \o t)[i] = s[i]
           /\ \A i \in 1..Len(t) : (s \o t)[Len(s) + i] = t[i]
BY DEF Octets

\* The bytes of the two parts of a buffer that is cut behind its n-th byte.
LEMMA Cut ==
    ASSUME NEW s, s \in Octets, NEW n \in 0..Len(s)
    PROVE  /\ Prefix(s, n) \in Octets /\ Len(Prefix(s, n)) = n
           /\ \A i \in 1..n : Prefix(s, n)[i] = s[i]
           /\ Skip(s, n) \in Octets /\ Len(Skip(s, n)) = Len(s) - n
           /\ \A i \in 1..(Len(s) - n) : Skip(s, n)[i] = s[n + i]
BY DEF Octets, Prefix, Skip

\* The first byte of a message alone.
LEMMA Single ==
    ASSUME NEW x, x \in Byte
    PROVE  /\ <<x>> \in Octets /\ Len(<<x>>) = 1 /\ <<x>>[1] = x
BY DEF Octets

\* Two bytes in front of a list of methods.
LEMMA Pair ==
    ASSUME NEW x, NEW y, x \in Byte, y \in Byte
    PROVE  /\ <<x, y>> \in Octets /\ Len(<<x, y>>) = 2 /\ <<x, y>>[1] = x /\ <<x, y>>[2] = y
BY DEF Octets

\* Three bytes in front of an address.
LEMMA Triple ==
    ASSUME NEW x, NEW y, NEW z, x \in Byte, y \in Byte, z \in Byte
    PROVE  /\ <<x, y, z>> \in Octets /\ Len(<<x, y, z>>) = 3
           /\ <<x, y, z>>[1] = x /\ <<x, y, z>>[2] = y /\ <<x, y, z>>[3] = z
BY DEF Octets

\* A length that is at most 255.
LEMMA UpTo255 ==
    ASSUME NEW n, n \in Nat, n <= 255
    PROVE  n \in 0..255
OBVIOUS

\* A length that is cast to a byte, and fits, is kept.
LEMMA SmallMod ==
    ASSUME NEW n \in 0..255
    PROVE  n % 256 = n
OBVIOUS

\* The bytes of a slice.
LEMMA Slice ==
    ASSUME NEW s, s \in Octets, NEW m \in Nat, NEW n \in Nat, m <= n, n <= Len(s)
    PROVE  /\ SubSeq(s, m + 1, n) \in Octets /\ Len(SubSeq(s, m + 1, n)) = n - m
           /\ \A i \in 1..(n - m) : SubSeq(s, m + 1, n)[i] = s[m + i]
BY DEF Octets

-----------------------------------------------------------------------------
(* Clients and their messages                                              *)

\* s begins like the bytes t, as far as it goes.
Begins(s, t) == \A i \in 1..Len(s) : i <= Len(t) => s[i] = t[i]

\* What begins like t and is not longer than t is a prefix of it.
LEMMA BeginsPrefix ==
    ASSUME NEW s, NEW t, s \in Octets, t \in Octets, Begins(s, t), Len(s) <= Len(t)
    PROVE  IsPrefix(s, t)
<1>. DEFINE l == Len(s)
            u == Prefix(s, l)
            v == Prefix(t, l)
<1>1. l \in Nat /\ l \in 0..l /\ l \in 0..Len(t) /\ \A i \in 1..l : i <= Len(t)
    BY OctetsLen
<1>2. /\ u \in Octets /\ Len(u) = l /\ \A i \in 1..l : u[i] = s[i]
    BY <1>1, Cut
<1>3. /\ v \in Octets /\ Len(v) = l /\ \A i \in 1..l : v[i] = t[i]
    BY <1>1, Cut
<1>4. \A i \in 1..l : s[i] = t[i]
    BY <1>1 DEF Begins
<1>. HIDE DEF l, u, v
<1>5. Len(u) = Len(v) /\ \A i \in 1..Len(u) : u[i] = v[i]
    BY <1>2, <1>3, <1>4
<1>6. u = v
    BY <1>2, <1>3, <1>5, OctetsEqual
<1>. QED  BY <1>1, <1>6 DEF IsPrefix, u, v, l, Prefix

\* A record of one form of address, field by field.
LEMMA AddressFields ==
    ASSUME NEW f, NEW H, NEW P, NEW a, a \in [flag : {f}, host : H, port : P]
    PROVE  /\ a = [flag |-> a.flag, host |-> a.host, port |-> a.port]
           /\ a.flag = f /\ a.host \in H /\ a.port \in P
  OBVIOUS

\* The three forms of an address.
LEMMA AddressForm ==
    ASSUME NEW a, a \in Socks5Address
    PROVE  /\ a = Address(a.flag, a.host, a.port)
           /\ a.host \in Octets /\ a.port \in Octets /\ Len(a.port) = 2
           /\ a.flag \in {IPV4_FLAG, IPV6_FLAG, DOMAIN_FLAG}
           /\ a.flag = IPV4_FLAG => Len(a.host) = 4
           /\ a.flag = IPV6_FLAG => Len(a.host) = 16
           /\ a.flag = DOMAIN_FLAG => Len(a.host) \in 0..255
<1>1. Names \subseteq Octets
    BY DEF Names, Octets, Byte
<1>2. Bytes(2) \subseteq Octets /\ Bytes(4) \subseteq Octets /\ Bytes(16) \subseteq Octets
    BY DEF Bytes, Octets
<1>3. /\ \A s \in Names : Len(s) \in 0..255
      /\ \A s \in Bytes(2) : Len(s) = 2
      /\ \A s \in Bytes(4) : Len(s) = 4
      /\ \A s \in Bytes(16) : Len(s) = 16
  <2>1. ASSUME NEW s, s \in Names PROVE Len(s) \in 0..255
    <3>1. Len(s) \in Nat
        BY <1>1, <2>1, OctetsLen
    <3>2. Len(s) <= 255
        BY <2>1 DEF Names
    <3>. QED  BY ONLY <3>1, <3>2, UpTo255
  <2>. QED  BY <2>1 DEF Bytes
<1>4. a \in [flag : {IPV4_FLAG}, host : Bytes(4), port : Bytes(2)]
      \/ a \in [flag : {IPV6_FLAG}, host : Bytes(16), port : Bytes(2)]
      \/ a \in [flag : {DOMAIN_FLAG}, host : Names, port : Bytes(2)]
    BY DEF Socks5Address
<1>5. /\ a = [flag |-> a.flag, host |-> a.host, port |-> a.port]
      /\ a.port \in Bytes(2)
      /\ \/ a.flag = IPV4_FLAG /\ a.host \in Bytes(4)
         \/ a.flag = IPV6_FLAG /\ a.host \in Bytes(16)
         \/ a.flag = DOMAIN_FLAG /\ a.host \in Names
  <2>1. CASE a \in [flag : {IPV4_FLAG}, host : Bytes(4), port : Bytes(2)]
      BY ONLY <2>1, AddressFields
  <2>2. CASE a \in [flag : {IPV6_FLAG}, host : Bytes(16), port : Bytes(2)]
      BY ONLY <2>2, AddressFields
  <2>3. CASE a \in [flag : {DOMAIN_FLAG}, host : Names, port : Bytes(2)]
      BY ONLY <2>3, AddressFields
  <2>. QED  BY ONLY <1>4, <2>1, <2>2, <2>3
<1>6. a = Address(a.flag, a.host, a.port)
    BY ONLY <1>5 DEF Address
<1>7. a.host \in Octets /\ a.port \in Octets /\ Len(a.port) = 2
    BY ONLY <1>1, <1>2, <1>3, <1>5
<1>8. IPV4_FLAG # IPV6_FLAG /\ IPV4_FLAG # DOMAIN_FLAG /\ IPV6_FLAG # DOMAIN_FLAG
    BY ONLY DEF IPV4_FLAG, IPV6_FLAG, DOMAIN_FLAG
<1>9. /\ a.flag \in {IPV4_FLAG, IPV6_FLAG, DOMAIN_FLAG}
      /\ a.flag = IPV4_FLAG => Len(a.host) = 4
      /\ a.flag = IPV6_FLAG => Len(a.host) = 16
      /\ a.flag = DOMAIN_FLAG => Len(a.host) \in 0..255
    BY ONLY <1>3, <1>5, <1>8
<1>. QED  BY ONLY <1>6, <1>7, <1>9

\* The bytes in front of the host.
HostAt(a) == IF a.flag = DOMAIN_FLAG THEN 2 ELSE 1

\* The layout of an encoded address.
LEMMA AddressLayout ==
    ASSUME NEW a, a \in Socks5Address
    PROVE  /\ AddressBytes(a) \in Octets
           /\ Len(AddressBytes(a)) = HostAt(a) + Len(a.host) + 2
           /\ AddressBytes(a)[1] = a.flag
           /\ a.flag = DOMAIN_FLAG => AddressBytes(a)[2] = Len(a.host)
           /\ \A i \in 1..Len(a.host) : AddressBytes(a)[HostAt(a) + i] = a.host[i]
           /\ \A i \in 1..2 : AddressBytes(a)[HostAt(a) + Len(a.host) + i] = a.port[i]
<1>. DEFINE size == IF a.flag = DOMAIN_FLAG THEN <<Len(a.host) % 256>> ELSE <<>>
            head == <<a.flag>> \o size
<1>1. /\ a.host \in Octets /\ a.port \in Octets /\ Len(a.port) = 2
      /\ a.flag \in {IPV4_FLAG, IPV6_FLAG, DOMAIN_FLAG}
      /\ a.flag = DOMAIN_FLAG => Len(a.host) \in 0..255
    BY AddressForm
<1>2. Len(a.host) \in Nat
    BY <1>1, OctetsLen
<1>3. a.flag = DOMAIN_FLAG => Len(a.host) % 256 = Len(a.host) /\ Len(a.host) \in Byte
  <2>. DEFINE n == Len(a.host)
  <2>1. a.flag = DOMAIN_FLAG => n \in 0..255
      BY <1>1
  <2>. HIDE DEF n
  <2>2. n \in 0..255 => n % 256 = n /\ n \in Byte
      BY ONLY SmallMod DEF Byte
  <2>3. a.flag = DOMAIN_FLAG => n % 256 = n /\ n \in Byte
      BY ONLY <2>1, <2>2, Zenon
  <2>. QED  BY ONLY <2>3, Zenon DEF n
<1>4. a.flag \in Byte
    BY <1>1 DEF IPV4_FLAG, IPV6_FLAG, DOMAIN_FLAG, Byte
<1>5. /\ head \in Octets /\ Len(head) = HostAt(a) /\ head[1] = a.flag
      /\ a.flag = DOMAIN_FLAG => head[2] = Len(a.host)
  <2>1. <<a.flag>> \in Octets /\ Len(<<a.flag>>) = 1 /\ <<a.flag>>[1] = a.flag
      BY ONLY <1>4, Single
  <2>2. CASE a.flag = DOMAIN_FLAG
    <3>1. size = <<Len(a.host)>>
        BY <2>2, <1>3
    <3>2. HostAt(a) = 2
        BY <2>2 DEF HostAt
    <3>3. size \in Octets /\ Len(size) = 1 /\ size[1] = Len(a.host)
      <4>. HIDE DEF size
      <4>. QED  BY <2>2, <1>3, <3>1, Single
    <3>. HIDE DEF size
    <3>4. /\ head \in Octets /\ Len(head) = Len(<<a.flag>>) + Len(size)
          /\ \A i \in 1..Len(<<a.flag>>) : head[i] = <<a.flag>>[i]
          /\ \A i \in 1..Len(size) : head[Len(<<a.flag>>) + i] = size[i]
        BY ONLY <2>1, <3>3, Concat
    <3>. HIDE DEF head
    <3>5. Len(head) = 2 /\ head[1] = a.flag /\ head[1 + 1] = size[1]
        BY <2>1, <3>3, <3>4
    <3>. QED  BY <3>2, <3>3, <3>4, <3>5
  <2>3. CASE a.flag # DOMAIN_FLAG
    <3>1. size \in Octets /\ Len(size) = 0
        BY <2>3, EmptyOctets
    <3>2. HostAt(a) = 1
        BY <2>3 DEF HostAt
    <3>. HIDE DEF size
    <3>. QED  BY <2>1, <2>3, <3>1, <3>2, Concat
  <2>. QED  BY <2>2, <2>3
<1>6. AddressBytes(a) = (head \o a.host) \o a.port
    BY DEF AddressBytes
<1>. HIDE DEF head
<1>7. HostAt(a) \in 1..2 /\ (a.flag = DOMAIN_FLAG => HostAt(a) = 2)
    BY DEF HostAt
<1>8. /\ head \o a.host \in Octets /\ Len(head \o a.host) = HostAt(a) + Len(a.host)
      /\ \A i \in 1..HostAt(a) : (head \o a.host)[i] = head[i]
      /\ \A i \in 1..Len(a.host) : (head \o a.host)[HostAt(a) + i] = a.host[i]
  <2>1. head \in Octets /\ a.host \in Octets
      BY <1>1, <1>5
  <2>2. /\ head \o a.host \in Octets /\ Len(head \o a.host) = Len(head) + Len(a.host)
        /\ \A i \in 1..Len(head) : (head \o a.host)[i] = head[i]
        /\ \A i \in 1..Len(a.host) : (head \o a.host)[Len(head) + i] = a.host[i]
      BY ONLY <2>1, Concat
  <2>3. Len(head) = HostAt(a)
      BY <1>5
  <2>. QED  BY ONLY <2>2, <2>3
<1>. DEFINE front == head \o a.host
<1>. HIDE DEF front
<1>9. /\ front \in Octets /\ Len(front) = HostAt(a) + Len(a.host)
      /\ \A i \in 1..HostAt(a) : front[i] = head[i]
      /\ \A i \in 1..Len(a.host) : front[HostAt(a) + i] = a.host[i]
      /\ AddressBytes(a) = front \o a.port
    BY <1>6, <1>8 DEF front
<1>10. /\ front \o a.port \in Octets /\ Len(front \o a.port) = HostAt(a) + Len(a.host) + 2
       /\ \A i \in 1..(HostAt(a) + Len(a.host)) : (front \o a.port)[i] = front[i]
       /\ \A i \in 1..2 : (front \o a.port)[HostAt(a) + Len(a.host) + i] = a.port[i]
  <2>. HIDE DEF front
  <2>0. front \in Octets /\ a.port \in Octets
      BY <1>1, <1>9
  <2>1. /\ front \o a.port \in Octets /\ Len(front \o a.port) = Len(front) + Len(a.port)
        /\ \A i \in 1..Len(front) : (front \o a.port)[i] = front[i]
        /\ \A i \in 1..Len(a.port) : (front \o a.port)[Len(front) + i] = a.port[i]
      BY ONLY <2>0, Concat
  <2>. QED  BY <2>1, <1>1, <1>9
<1>11. \A i \in 1..Len(a.host) : HostAt(a) + i \in 1..(HostAt(a) + Len(a.host))
    BY <1>2, <1>7
<1>12. 1 \in 1..(HostAt(a) + Len(a.host)) /\ 1 \in 1..HostAt(a)
    BY <1>2, <1>7
<1>13. a.flag = DOMAIN_FLAG => 2 \in 1..(HostAt(a) + Len(a.host)) /\ 2 \in 1..HostAt(a)
    BY <1>2, <1>7
<1>. QED  BY <1>5, <1>9, <1>10, <1>11, <1>12, <1>13

-----------------------------------------------------------------------------
(* What parse makes of an address and of a part of one                     *)

\* get_u8 takes the first byte of a buffer.
LEMMA Tails ==
    ASSUME NEW s, s \in Octets, Len(s) > 0
    PROVE  /\ Head(s) = s[1]
           /\ Tail(s) = Skip(s, 1)
           /\ Tail(s) \in Octets /\ Len(Tail(s)) = Len(s) - 1
           /\ \A i \in 1..(Len(s) - 1) : Tail(s)[i] = s[i + 1]
BY DEF Octets, Skip

\* Bytes taken from a buffer in two steps are taken as in one.
LEMMA SkipSkip ==
    ASSUME NEW s, s \in Octets, NEW m \in Nat, NEW n \in Nat, m + n <= Len(s)
    PROVE  Skip(Skip(s, m), n) = Skip(s, m + n)
<1>. DEFINE t == Skip(s, m)
            l == Len(s)
<1>1. l \in Nat /\ m \in 0..l /\ m + n \in 0..l /\ n \in 0..(l - m)
    BY OctetsLen
<1>2. t \in Octets /\ Len(t) = l - m /\ \A i \in 1..(l - m) : t[i] = s[m + i]
    BY <1>1, Cut
<1>. HIDE DEF t, l
<1>3. /\ Skip(t, n) \in Octets /\ Len(Skip(t, n)) = Len(t) - n
      /\ \A i \in 1..(Len(t) - n) : Skip(t, n)[i] = t[n + i]
  <2>1. t \in Octets /\ n \in 0..Len(t)
      BY <1>1, <1>2
  <2>. QED  BY ONLY <2>1, Cut
<1>4. /\ Skip(s, m + n) \in Octets /\ Len(Skip(s, m + n)) = l - (m + n)
      /\ \A i \in 1..(l - (m + n)) : Skip(s, m + n)[i] = s[(m + n) + i]
    BY <1>1, Cut DEF l
<1>. DEFINE u == Skip(t, n)
            v == Skip(s, m + n)
            k == l - (m + n)
<1>5. /\ k \in Nat /\ u \in Octets /\ v \in Octets /\ Len(u) = k /\ Len(v) = k
      /\ \A i \in 1..k : n + i \in 1..(l - m) /\ m + (n + i) = (m + n) + i
      /\ \A i \in 1..k : u[i] = t[n + i]
      /\ \A i \in 1..k : v[i] = s[(m + n) + i]
    BY <1>1, <1>2, <1>3, <1>4
<1>. HIDE DEF u, v, k
<1>6. ASSUME NEW i \in 1..k PROVE u[i] = v[i]
  <2>1. u[i] = t[n + i] /\ v[i] = s[(m + n) + i] /\ n + i \in 1..(l - m) /\ m + (n + i) = (m + n) + i
      BY <1>5
  <2>2. t[n + i] = s[m + (n + i)]
      BY <1>2, <2>1
  <2>. QED  BY <2>1, <2>2
<1>7. u = v
    BY <1>5, <1>6, OctetsEqual
<1>. QED  BY <1>7 DEF u, v, t

\* Host and port are read when all of their bytes are there; else it is an error.
LEMMA HostPart ==
    ASSUME NEW a, a \in Socks5Address, NEW s, s \in Octets,
           Begins(s, AddressBytes(a)), Len(s) >= HostAt(a)
    PROVE  HostAndPort(a.flag, Len(a.host), Skip(s, HostAt(a))) =
               IF Len(s) < Len(AddressBytes(a)) THEN Err
               ELSE Ok(a, Skip(s, Len(AddressBytes(a))))
<1>. DEFINE k == HostAt(a)
            h == Len(a.host)
            l == Len(s)
            t == Skip(s, k)
            b == AddressBytes(a)
            host == a.host
            port == a.port
<1>1. /\ host \in Octets /\ port \in Octets /\ Len(port) = 2
      /\ a = Address(a.flag, host, port)
    BY AddressForm
<1>2. h \in Nat /\ l \in Nat /\ k \in 1..2 /\ k \in 0..l
    BY <1>1, OctetsLen DEF HostAt
<1>3. /\ Len(b) = k + h + 2
      /\ \A i \in 1..h : b[k + i] = host[i]
      /\ \A i \in 1..2 : b[k + h + i] = port[i]
    BY AddressLayout
<1>4. t \in Octets /\ Len(t) = l - k /\ \A i \in 1..(l - k) : t[i] = s[k + i]
    BY <1>2, Cut
<1>5. \A i \in 1..l : i <= Len(b) => s[i] = b[i]
    BY DEF Begins
<1>6. l >= k + h + 2 => Skip(t, h + 2) = Skip(s, k + (h + 2))
    BY <1>2, SkipSkip
<1>7. Len(host) = h
    OBVIOUS
<1>. HIDE DEF k, h, l, t, b, host, port
<1>8. ASSUME l >= k + h + 2
      PROVE  Prefix(t, h) = host /\ SubSeq(t, h + 1, h + 2) = port
  <2>1. h \in 0..Len(t) /\ h + 2 \in Nat /\ h <= h + 2 /\ h + 2 <= Len(t) /\ (h + 2) - h = 2
      BY <1>2, <1>4, <1>8
  <2>2. Prefix(t, h) \in Octets /\ Len(Prefix(t, h)) = h /\ \A i \in 1..h : Prefix(t, h)[i] = t[i]
      BY ONLY <2>1, <1>4, Cut
  <2>3. /\ SubSeq(t, h + 1, h + 2) \in Octets /\ Len(SubSeq(t, h + 1, h + 2)) = 2
        /\ \A i \in 1..2 : SubSeq(t, h + 1, h + 2)[i] = t[h + i]
    <3>. DEFINE g == h + 2
    <3>1. t \in Octets /\ h \in Nat /\ g \in Nat /\ h <= g /\ g <= Len(t) /\ g - h = 2
        BY <1>2, <1>4, <2>1
    <3>. HIDE DEF g
    <3>2. /\ SubSeq(t, h + 1, g) \in Octets /\ Len(SubSeq(t, h + 1, g)) = g - h
          /\ \A i \in 1..(g - h) : SubSeq(t, h + 1, g)[i] = t[h + i]
        BY ONLY <3>1, Slice
    <3>3. /\ SubSeq(t, h + 1, g) \in Octets /\ Len(SubSeq(t, h + 1, g)) = 2
          /\ \A i \in 1..2 : SubSeq(t, h + 1, g)[i] = t[h + i]
        BY ONLY <3>1, <3>2
    <3>. QED  BY <3>3 DEF g
  <2>4. \A i \in 1..h : i \in 1..(l - k) /\ k + i \in 1..l /\ k + i <= Len(b)
      BY <1>2, <1>3, <1>8
  <2>5. \A i \in 1..2 : h + i \in 1..(l - k) /\ k + h + i \in 1..l /\ k + h + i <= Len(b) /\ k + (h + i) = k + h + i
      BY <1>2, <1>3, <1>8
  <2>6. \A i \in 1..h : t[i] = host[i]
      BY <1>3, <1>4, <1>5, <2>4
  <2>7. \A i \in 1..2 : t[h + i] = port[i]
      BY <1>3, <1>4, <1>5, <2>5
  <2>8. Prefix(t, h) = host
      BY <1>1, <1>7, <2>2, <2>6, OctetsEqual
  <2>9. SubSeq(t, h + 1, h + 2) = port
    <3>. DEFINE u == SubSeq(t, h + 1, h + 2)
    <3>1. u \in Octets /\ Len(u) = 2 /\ \A i \in 1..2 : u[i] = port[i]
        BY <2>3, <2>7
    <3>. HIDE DEF u
    <3>2. u = port
        BY <1>1, <3>1, OctetsEqual
    <3>. QED  BY <3>2 DEF u
  <2>. QED  BY <2>8, <2>9
<1>9. HostAndPort(a.flag, h, t) = IF l < k + h + 2 THEN Err ELSE Ok(a, Skip(s, k + (h + 2)))
  <2>1. Len(t) < h + 2 <=> l < k + h + 2
      BY <1>2, <1>4
  <2>2. CASE l < k + h + 2
      BY <2>1, <2>2 DEF HostAndPort
  <2>3. CASE ~(l < k + h + 2)
    <3>1. l >= k + h + 2
        BY <1>2, <2>3
    <3>2. HostAndPort(a.flag, h, t) =
              Ok(Address(a.flag, Prefix(t, h), SubSeq(t, h + 1, h + 2)), Skip(t, h + 2))
        BY <2>1, <2>3 DEF HostAndPort
    <3>3. HostAndPort(a.flag, h, t) = Ok(Address(a.flag, host, port), Skip(s, k + (h + 2)))
        BY <1>6, <1>8, <3>1, <3>2
    <3>. QED  BY <1>1, <2>3, <3>3
  <2>. QED  BY <2>2, <2>3
<1>10. k + (h + 2) = Len(b)
    BY <1>2, <1>3
<1>. QED  BY <1>3, <1>9, <1>10 DEF k, h, l, t, b

\* What parse calls the host.
Renamed(a) ==
    IF a.flag = DOMAIN_FLAG /\ a.host = ZeroName THEN [a EXCEPT !.host = LoopbackName] ELSE a

\* parse reads an address back, up to the name "0", and what is behind it is
\* left; a part of an address is an error.
LEMMA ParseBytes ==
    ASSUME NEW a, a \in Socks5Address, NEW s, s \in Octets, Begins(s, AddressBytes(a))
    PROVE  parse(s) = IF Len(s) < Len(AddressBytes(a)) THEN Err
                      ELSE Ok(Renamed(a), Skip(s, Len(AddressBytes(a))))
<1>. DEFINE n == Len(AddressBytes(a))
            h == Len(a.host)
<1>1. /\ a.host \in Octets /\ a = Address(a.flag, a.host, a.port)
      /\ a.flag \in {IPV4_FLAG, IPV6_FLAG, DOMAIN_FLAG}
      /\ a.flag = IPV4_FLAG => h = 4
      /\ a.flag = IPV6_FLAG => h = 16
    BY AddressForm
<1>2. h \in Nat /\ Len(s) \in Nat /\ (Len(s) = 0 => s = <<>>)
    BY <1>1, OctetsLen
<1>3. /\ n = HostAt(a) + h + 2 /\ AddressBytes(a)[1] = a.flag
      /\ a.flag = DOMAIN_FLAG => AddressBytes(a)[2] = h
    BY AddressLayout
<1>4. HostAt(a) = IF a.flag = DOMAIN_FLAG THEN 2 ELSE 1
    BY DEF HostAt
<1>5. Len(s) >= HostAt(a) =>
         HostAndPort(a.flag, h, Skip(s, HostAt(a))) = IF Len(s) < n THEN Err ELSE Ok(a, Skip(s, n))
    BY HostPart
<1>6. \A i \in 1..Len(s) : i <= n => s[i] = AddressBytes(a)[i]
    BY DEF Begins
<1>. HIDE DEF n, h
<1>7. CASE Len(s) = 0
  <2>1. parse(s) = Err
      BY <1>2, <1>7 DEF parse
  <2>2. Len(s) < n
      BY <1>2, <1>3, <1>4, <1>7
  <2>. QED  BY <2>1, <2>2 DEF n
<1>8. CASE Len(s) > 0
  <2>1. s # <<>> /\ Head(s) = a.flag /\ Tail(s) = Skip(s, 1)
    <3>1. s # <<>>
        BY <1>8, EmptyOctets
    <3>2. s[1] = a.flag
        BY <1>2, <1>3, <1>4, <1>6, <1>8
    <3>. QED  BY <1>8, <3>1, <3>2, Tails
  <2>2. CASE a.flag # DOMAIN_FLAG
    <3>1. parse(s) = HostAndPort(a.flag, h, Skip(s, 1))
        BY <1>1, <2>1, <2>2 DEF parse, IPV4_FLAG, IPV6_FLAG, DOMAIN_FLAG
    <3>2. HostAt(a) = 1 /\ Len(s) >= HostAt(a)
        BY <1>2, <1>4, <1>8, <2>2
    <3>. QED  BY <1>5, <2>2, <3>1, <3>2 DEF n, Renamed
  <2>3. CASE a.flag = DOMAIN_FLAG /\ Len(s) = 1
    <3>1. Tail(s) = <<>>
        BY <1>8, <2>3, Tails, OctetsLen
    <3>2. parse(s) = Err
        BY <2>1, <2>3, <3>1 DEF parse, IPV4_FLAG, IPV6_FLAG, DOMAIN_FLAG
    <3>3. Len(s) < n
        BY <1>2, <1>3, <1>4, <2>3
    <3>. QED  BY <3>2, <3>3 DEF n
  <2>4. CASE a.flag = DOMAIN_FLAG /\ Len(s) > 1
    <3>. DEFINE t == Tail(s)
    <3>1. /\ t \in Octets /\ Len(t) = Len(s) - 1 /\ t = Skip(s, 1)
          /\ \A i \in 1..(Len(s) - 1) : t[i] = s[i + 1]
        BY <1>8, Tails
    <3>. HIDE DEF t
    <3>2. Len(t) > 0 /\ t[1] = s[2]
        BY <1>2, <2>4, <3>1
    <3>3. s[2] = h
      <4>1. 2 \in 1..Len(s) /\ 2 <= n
          BY <1>2, <1>3, <1>4, <2>4
      <4>. QED  BY <1>3, <1>6, <2>4, <4>1
    <3>4. t # <<>> /\ Head(t) = h
        BY <3>1, <3>2, <3>3, Tails, EmptyOctets
    <3>5. Tail(t) = Skip(s, 2)
      <4>1. Tail(t) = Skip(t, 1)
          BY <3>1, <3>2, Tails
      <4>2. 1 + 1 <= Len(s)
          BY <1>2, <2>4
      <4>3. Skip(Skip(s, 1), 1) = Skip(s, 1 + 1)
          BY <4>2, SkipSkip
      <4>. QED  BY <3>1, <4>1, <4>3
    <3>6. parse(s) = Rename(HostAndPort(a.flag, h, Skip(s, 2)))
      <4>1. parse(s) = Rename(HostAndPort(Head(s), Head(Tail(s)), Tail(Tail(s))))
        <5>1. s # <<>> /\ Tail(s) # <<>> /\ Head(s) = DOMAIN_FLAG
            BY <2>1, <2>4, <3>4 DEF t
        <5>. QED  BY ONLY <5>1 DEF parse, IPV4_FLAG, IPV6_FLAG, DOMAIN_FLAG
      <4>. QED  BY <2>1, <3>4, <3>5, <4>1 DEF t
    <3>7. HostAt(a) = 2 /\ Len(s) >= HostAt(a)
        BY <1>2, <1>4, <2>4
    <3>8. parse(s) = Rename(IF Len(s) < n THEN Err ELSE Ok(a, Skip(s, n)))
        BY <1>5, <3>6, <3>7
    <3>9. Rename(Err) = Err
        BY DEF Rename, Err
    <3>10. Rename(Ok(a, Skip(s, n))) = Ok(Renamed(a), Skip(s, n))
        BY <2>4 DEF Rename, Renamed, Ok
    <3>. QED  BY <3>8, <3>9, <3>10 DEF n
  <2>. QED  BY <1>2, <1>8, <2>2, <2>3, <2>4
<1>. QED  BY <1>2, <1>7, <1>8

-----------------------------------------------------------------------------
(* What the decoders make of a client's messages                           *)

\* The three kinds of clients.
LEMMA ClientForm ==
    ASSUME NEW c, c \in Clients
    PROVE  /\ c.protocol \in {"socks5", "http", "socks4"}
           /\ c.eager \in BOOLEAN
           /\ c.protocol = "socks5" =>
                 /\ c.methods \in Octets /\ Len(c.methods) \in 0..255
                 /\ c.type \in Byte /\ c.address \in Socks5Address
           /\ c.protocol = "http" => c.type \in {0, CONNECT}
           /\ c.protocol = "socks4" => c = Socks4
<1>1. c \in Socks5Clients \/ c \in HttpClients \/ c = Socks4
    BY ClientsAssumption
<1>2. CASE c \in Socks5Clients
  <2>. DEFINE M == {s \in Seq(Byte) : Len(s) <= 255}
  <2>1. ASSUME NEW s, s \in M PROVE s \in Octets /\ Len(s) \in 0..255
    <3>1. s \in Octets /\ Len(s) <= 255
        BY <2>1 DEF Octets
    <3>2. Len(s) \in Nat
        BY <3>1, OctetsLen
    <3>. QED  BY ONLY <3>1, <3>2, UpTo255
  <2>2. c \in [protocol : {"socks5"}, methods : M, type : Byte, address : Socks5Address, eager : BOOLEAN]
      BY <1>2 DEF Socks5Clients
  <2>. HIDE DEF M
  <2>. QED  BY <2>1, <2>2
<1>3. CASE c \in HttpClients
    BY <1>3 DEF HttpClients
<1>4. CASE c = Socks4
    BY <1>4 DEF Socks4
<1>. QED  BY <1>1, <1>2, <1>3, <1>4

\* The negotiation and the request of a SOCKS5 client.
LEMMA Socks5Messages ==
    ASSUME NEW c, c \in Clients, c.protocol = "socks5"
    PROVE  /\ Message(c, 1) \in Octets /\ Len(Message(c, 1)) = 2 + Len(c.methods)
           /\ Message(c, 1)[1] = SOCKS_V5 /\ Message(c, 1)[2] = Len(c.methods)
           /\ Message(c, 2) \in Octets /\ Len(Message(c, 2)) = 3 + Len(AddressBytes(c.address))
           /\ Message(c, 2)[1] = SOCKS_V5 /\ Message(c, 2)[2] = c.type /\ Message(c, 2)[3] = 0
           /\ \A i \in 1..Len(AddressBytes(c.address)) :
                 Message(c, 2)[3 + i] = AddressBytes(c.address)[i]
<1>. DEFINE m == c.methods
            b == AddressBytes(c.address)
            p == <<SOCKS_V5, Len(m)>>
            q == <<SOCKS_V5, c.type, 0>>
<1>1. m \in Octets /\ Len(m) \in Byte /\ c.type \in Byte /\ b \in Octets
    BY ClientForm, AddressLayout DEF Byte
<1>2. SOCKS_V5 \in Byte /\ 0 \in Byte
    BY DEF SOCKS_V5, Byte
<1>3. Message(c, 1) = p \o m /\ Message(c, 2) = q \o b
    BY DEF Message
<1>4. p \in Octets /\ Len(p) = 2 /\ p[1] = SOCKS_V5 /\ p[2] = Len(m)
  <2>. HIDE DEF m
  <2>. QED  BY <1>1, <1>2, Pair
<1>5. q \in Octets /\ Len(q) = 3 /\ q[1] = SOCKS_V5 /\ q[2] = c.type /\ q[3] = 0
    BY <1>1, <1>2, Triple
<1>. HIDE DEF m, b, p, q
<1>6. /\ p \o m \in Octets /\ Len(p \o m) = Len(p) + Len(m)
      /\ \A i \in 1..Len(p) : (p \o m)[i] = p[i]
  <2>1. p \in Octets /\ m \in Octets
      BY <1>1, <1>4
  <2>. QED  BY ONLY <2>1, Concat
<1>7. /\ q \o b \in Octets /\ Len(q \o b) = Len(q) + Len(b)
      /\ \A i \in 1..Len(q) : (q \o b)[i] = q[i]
      /\ \A i \in 1..Len(b) : (q \o b)[Len(q) + i] = b[i]
  <2>1. q \in Octets /\ b \in Octets
      BY <1>1, <1>5
  <2>. QED  BY ONLY <2>1, Concat
<1>. DEFINE x == Message(c, 1)
            y == Message(c, 2)
<1>8. x \in Octets /\ Len(x) = 2 + Len(m) /\ x[1] = SOCKS_V5 /\ x[2] = Len(m)
  <2>1. x \in Octets /\ Len(x) = Len(p) + Len(m) /\ \A i \in 1..Len(p) : x[i] = p[i]
      BY <1>3, <1>6
  <2>. HIDE DEF x
  <2>. QED  BY ONLY <2>1, <1>4
<1>9. /\ y \in Octets /\ Len(y) = 3 + Len(b)
      /\ y[1] = SOCKS_V5 /\ y[2] = c.type /\ y[3] = 0
      /\ \A i \in 1..Len(b) : y[3 + i] = b[i]
  <2>1. /\ y \in Octets /\ Len(y) = Len(q) + Len(b)
        /\ \A i \in 1..Len(q) : y[i] = q[i]
        /\ \A i \in 1..Len(b) : y[Len(q) + i] = b[i]
      BY <1>3, <1>7
  <2>. HIDE DEF y
  <2>. QED  BY ONLY <2>1, <1>5
<1>. QED  BY <1>8, <1>9 DEF m, b

\* The first decoder waits for two bytes and then wants all of the message.
LEMMA DecodeMethods ==
    ASSUME NEW c, c \in Clients, c.protocol = "socks5",
           NEW s, s \in Octets, Begins(s, Message(c, 1))
    PROVE  /\ decodeAuth(s).result \in {"none", "panic", "ok"}
           /\ decodeAuth(s).result = "panic" => Len(s) >= 2 /\ Len(s) < Len(Message(c, 1))
           /\ decodeAuth(s).result = "ok" =>
                 /\ Len(s) >= Len(Message(c, 1))
                 /\ decodeAuth(s).rest = Skip(s, Len(Message(c, 1)))
<1>. DEFINE m == Message(c, 1)
            k == Len(c.methods)
            l == Len(s)
<1>1. m \in Octets /\ Len(m) = 2 + k /\ m[1] = SOCKS_V5 /\ m[2] = k
    BY Socks5Messages
<1>2. k \in Nat /\ l \in Nat
  <2>1. Len(c.methods) \in 0..255
      BY ClientForm
  <2>. QED  BY ONLY <2>1, OctetsLen, s \in Octets
<1>3. \A i \in 1..l : i <= Len(m) => s[i] = m[i]
    BY DEF Begins
<1>. HIDE DEF m, k, l
<1>4. l >= 2 => s[1] = SOCKS_V5 /\ s[2] = k
    BY <1>1, <1>2, <1>3
<1>5. CASE l < 2
    BY <1>5 DEF decodeAuth, None, l
<1>6. CASE l >= 2 /\ l < 2 + k
  <2>1. decodeAuth(s) = Panic
      BY <1>2, <1>4, <1>6 DEF decodeAuth, l
  <2>. QED  BY <1>1, <1>6, <2>1 DEF Panic, m, l
<1>7. CASE l >= 2 /\ l >= 2 + k
  <2>1. decodeAuth(s) = Ok([i \in 1..k |-> AuthMethod(s[2 + i])], Skip(s, 2 + k))
      BY <1>2, <1>4, <1>7 DEF decodeAuth, l
  <2>. QED  BY <1>1, <1>7, <2>1 DEF Ok, m, l
<1>. QED  BY <1>2, <1>5, <1>6, <1>7

\* The second decoder waits for four bytes and then wants all of the message,
\* and a command it knows.
LEMMA DecodeRequest ==
    ASSUME NEW c, c \in Clients, c.protocol = "socks5",
           NEW s, s \in Octets, Begins(s, Message(c, 2))
    PROVE  /\ decodeInit(s).result \in {"none", "err", "ok"}
           /\ decodeInit(s).result = "err" =>
                 /\ Len(s) >= 4
                 /\ Len(s) < Len(Message(c, 2)) \/ c.type \notin {CONNECT, BIND, UDP_ASSOCIATE}
           /\ decodeInit(s).result = "ok" =>
                 /\ Len(s) >= Len(Message(c, 2))
                 /\ c.type \in {CONNECT, BIND, UDP_ASSOCIATE}
                 /\ decodeInit(s).value = [type |-> c.type, dst |-> Renamed(c.address)]
                 /\ decodeInit(s).rest = Skip(s, Len(Message(c, 2)))
<1>. DEFINE m == Message(c, 2)
            a == c.address
            b == AddressBytes(a)
            n == Len(b)
            l == Len(s)
            t == Skip(s, 3)
            known == c.type \in {CONNECT, BIND, UDP_ASSOCIATE}
<1>1. /\ m \in Octets /\ Len(m) = 3 + n
      /\ m[1] = SOCKS_V5 /\ m[2] = c.type
      /\ \A i \in 1..n : m[3 + i] = b[i]
    BY Socks5Messages
<1>2. a \in Socks5Address
    BY ClientForm
<1>3. n \in Nat /\ l \in Nat
    BY <1>2, AddressLayout, OctetsLen
<1>4. \A i \in 1..l : i <= Len(m) => s[i] = m[i]
    BY DEF Begins
<1>5. CASE l < 4
    BY <1>5 DEF decodeInit, None
<1>6. CASE l >= 4
  <2>1. t \in Octets /\ Len(t) = l - 3 /\ \A i \in 1..(l - 3) : t[i] = s[3 + i]
    <3>1. 3 \in 0..l
        BY <1>3, <1>6
    <3>. QED  BY <3>1, Cut
  <2>. HIDE DEF m, n, l, t, b, known
  <2>2. n >= 1 => s[1] = SOCKS_V5 /\ s[2] = c.type
    <3>1. n >= 1 => 1 \in 1..l /\ 2 \in 1..l /\ 1 <= Len(m) /\ 2 <= Len(m)
        BY <1>1, <1>3, <1>6
    <3>. QED  BY <1>1, <1>4, <3>1
  <2>3. n >= 1
    <3>1. n = HostAt(a) + Len(a.host) + 2
        BY <1>2, AddressLayout DEF n, b
    <3>2. HostAt(a) \in 1..2 /\ Len(a.host) \in Nat
        BY <1>2, AddressForm, OctetsLen DEF HostAt
    <3>. HIDE DEF a
    <3>. QED  BY <3>1, <3>2
  <2>4. Begins(t, b)
    <3>1. \A i \in 1..Len(t) : i <= Len(b) => t[i] = b[i]
      <4>1. SUFFICES ASSUME NEW i \in 1..Len(t), i <= n PROVE t[i] = b[i]
          BY DEF n
      <4>2. i \in 1..(l - 3) /\ 3 + i \in 1..l /\ 3 + i <= Len(m) /\ i \in 1..n
          BY <1>1, <1>3, <2>1, <4>1
      <4>. QED  BY <1>1, <1>4, <2>1, <4>2
    <3>. QED  BY <3>1 DEF Begins
  <2>5. parse(t) = IF l - 3 < n THEN Err ELSE Ok(Renamed(a), Skip(t, n))
    <3>1. parse(t) = IF Len(t) < Len(b) THEN Err ELSE Ok(Renamed(a), Skip(t, Len(b)))
        BY <1>2, <2>1, <2>4, ParseBytes DEF b
    <3>. QED  BY <2>1, <3>1 DEF n
  <2>6. decodeInit(s) =
            IF ~known \/ parse(t).result # "ok" THEN Err
            ELSE Ok([type |-> c.type, dst |-> parse(t).value], parse(t).rest)
      BY <1>3, <1>6, <2>2, <2>3 DEF decodeInit, l, t, known
  <2>7. CASE l < 3 + n
    <3>1. parse(t) = Err
        BY <1>3, <2>5, <2>7
    <3>2. decodeInit(s) = Err
        BY <2>6, <3>1 DEF Err
    <3>. QED  BY <1>1, <1>6, <2>7, <3>2 DEF Err, l, m
  <2>8. CASE l >= 3 + n
    <3>1. parse(t) = Ok(Renamed(a), Skip(t, n))
        BY <1>3, <2>5, <2>8
    <3>2. Skip(t, n) = Skip(s, 3 + n)
        BY <1>3, <2>8, SkipSkip DEF t, l
    <3>3. parse(t).result = "ok" /\ parse(t).value = Renamed(a) /\ parse(t).rest = Skip(s, 3 + n)
        BY <3>1, <3>2 DEF Ok
    <3>4. CASE known
      <4>1. decodeInit(s) = Ok([type |-> c.type, dst |-> Renamed(a)], Skip(s, 3 + n))
          BY <2>6, <3>3, <3>4
      <4>. QED  BY <1>1, <1>6, <2>8, <3>4, <4>1 DEF Ok, l, m, known
    <3>5. CASE ~known
      <4>1. decodeInit(s) = Err
          BY <2>6, <3>5
      <4>. QED  BY <1>6, <3>5, <4>1 DEF Err, l, known
    <3>. QED  BY <3>4, <3>5
  <2>. QED  BY <1>3, <2>7, <2>8
<1>. QED  BY <1>3, <1>5, <1>6

\* A client reads an answer to its last byte.
LEMMA AnswerLength ==
    ASSUME NEW a, a \in Socks5Address
    PROVE  ReplyLength(InitReply(a)) = Len(InitReply(a))
<1>. DEFINE b == AddressBytes(a)
            q == <<SOCKS_V5, SUCCEEDED, 0>>
            r == InitReply(a)
            h == Len(a.host)
<1>1. /\ b \in Octets /\ Len(b) = HostAt(a) + h + 2 /\ b[1] = a.flag
      /\ a.flag = DOMAIN_FLAG => b[2] = h
    BY AddressLayout
<1>2. /\ a.flag \in {IPV4_FLAG, IPV6_FLAG, DOMAIN_FLAG}
      /\ a.flag = IPV4_FLAG => h = 4
      /\ a.flag = IPV6_FLAG => h = 16
      /\ h \in Nat
    BY AddressForm, OctetsLen
<1>3. HostAt(a) = IF a.flag = DOMAIN_FLAG THEN 2 ELSE 1
    BY DEF HostAt
<1>4. q \in Octets /\ Len(q) = 3
    BY Triple DEF SOCKS_V5, SUCCEEDED, Byte
<1>5. r = q \o b
    BY DEF InitReply
<1>. HIDE DEF b, q, r, h
<1>6. /\ Len(q \o b) = Len(q) + Len(b)
      /\ \A i \in 1..Len(b) : (q \o b)[Len(q) + i] = b[i]
  <2>1. q \in Octets /\ b \in Octets
      BY <1>1, <1>4
  <2>. QED  BY ONLY <2>1, Concat
<1>7. Len(r) = 3 + Len(b) /\ \A i \in 1..Len(b) : r[3 + i] = b[i]
    BY ONLY <1>4, <1>5, <1>6
<1>8. r[4] = a.flag /\ (a.flag = DOMAIN_FLAG => r[5] = h)
  <2>1. 1 \in 1..Len(b) /\ 3 + 1 = 4 /\ (a.flag = DOMAIN_FLAG => 2 \in 1..Len(b)) /\ 3 + 2 = 5
      BY <1>1, <1>2, <1>3
  <2>2. r[3 + 1] = b[1] /\ (a.flag = DOMAIN_FLAG => r[3 + 2] = b[2])
      BY ONLY <1>7, <2>1
  <2>. QED  BY <1>1, <2>1, <2>2
<1>9. Len(r) = 3 + HostAt(a) + h + 2
    BY <1>1, <1>2, <1>3, <1>7
<1>10. ReplyLength(r) = Len(r)
  <2>1. CASE a.flag = IPV4_FLAG
      BY <1>2, <1>3, <1>8, <1>9, <2>1 DEF ReplyLength, IPV4_FLAG, IPV6_FLAG, DOMAIN_FLAG
  <2>2. CASE a.flag = IPV6_FLAG
      BY <1>2, <1>3, <1>8, <1>9, <2>2 DEF ReplyLength, IPV4_FLAG, IPV6_FLAG, DOMAIN_FLAG
  <2>3. CASE a.flag = DOMAIN_FLAG
      BY <1>2, <1>3, <1>8, <1>9, <2>3 DEF ReplyLength, IPV4_FLAG, IPV6_FLAG, DOMAIN_FLAG
  <2>. QED  BY <1>2, <2>1, <2>2, <2>3
<1>. QED  BY <1>10 DEF r

\* The packet p has the header q of three bytes, the address b and the payload d.
IsPacket(p, q, b, d) ==
    /\ p \in Octets /\ Len(p) = 3 + Len(b) + Len(d)
    /\ p[3] = q[3]
    /\ Skip(p, 3 + Len(b)) = d
    /\ \A s : s \in Octets /\ Len(s) <= Len(p) /\ Len(s) >= 3 /\ (\A i \in 1..Len(s) : s[i] = p[i])
                 => Begins(Skip(s, 3), b)

\* Three bytes, an address and the data, one behind the other, are a packet.
LEMMA PacketLayout ==
    ASSUME NEW q, NEW b, NEW d, q \in Octets, b \in Octets, d \in Octets, Len(q) = 3
    PROVE  IsPacket(q \o b \o d, q, b, d)
<1>. DEFINE f == q \o b
            p == f \o d
            n == Len(b)
<1>1. b \in Octets /\ n \in Nat /\ Len(d) \in Nat
    BY OctetsLen
<1>2. /\ f \in Octets /\ Len(f) = Len(q) + n
      /\ \A i \in 1..Len(q) : f[i] = q[i]
      /\ \A i \in 1..n : f[Len(q) + i] = b[i]
    BY ONLY <1>1, q \in Octets, Concat
<1>. HIDE DEF f
<1>3. /\ p \in Octets /\ Len(p) = Len(f) + Len(d)
      /\ \A i \in 1..Len(f) : p[i] = f[i]
      /\ \A i \in 1..Len(d) : p[Len(f) + i] = d[i]
  <2>1. f \in Octets /\ d \in Octets
      BY <1>2
  <2>. QED  BY ONLY <2>1, Concat
<1>. HIDE DEF p, n
<1>4. /\ Len(f) = 3 + n /\ Len(p) = 3 + n + Len(d)
      /\ \A i \in 1..n : f[3 + i] = b[i]
      /\ \A i \in 1..3 : f[i] = q[i]
    BY ONLY <1>1, <1>2, <1>3, Len(q) = 3
<1>5. p[3] = q[3]
  <2>1. 3 \in 1..Len(f) /\ 3 \in 1..3
      BY <1>1, <1>4
  <2>. QED  BY <1>3, <1>4, <2>1
<1>6. Skip(p, 3 + n) = d
  <2>. DEFINE k == 3 + n
              u == Skip(p, k)
              e == Len(d)
  <2>1. k \in 0..Len(p) /\ Len(p) - k = e /\ Len(f) = k
      BY <1>1, <1>4
  <2>. HIDE DEF k
  <2>2. u \in Octets /\ Len(u) = Len(p) - k /\ \A i \in 1..(Len(p) - k) : u[i] = p[k + i]
      BY ONLY <1>3, <2>1, Cut
  <2>. HIDE DEF u
  <2>3. Len(u) = Len(d) /\ \A i \in 1..Len(u) : u[i] = d[i]
      BY ONLY <1>3, <2>1, <2>2
  <2>4. u = d
      BY <2>2, <2>3, OctetsEqual
  <2>. QED  BY <2>4 DEF u, k
<1>7. ASSUME NEW s, s \in Octets, Len(s) <= Len(p), Len(s) >= 3, \A i \in 1..Len(s) : s[i] = p[i]
      PROVE  Begins(Skip(s, 3), b)
  <2>. DEFINE t == Skip(s, 3)
              l == Len(s)
  <2>1. l \in Nat /\ 3 \in 0..l
      BY <1>7, OctetsLen
  <2>2. t \in Octets /\ Len(t) = l - 3 /\ \A i \in 1..(l - 3) : t[i] = s[3 + i]
      BY <1>7, <2>1, Cut
  <2>3. l >= 3 /\ \A i \in 1..l : s[i] = p[i]
      BY <1>7
  <2>. HIDE DEF t, l
  <2>4. ASSUME NEW i \in 1..Len(t), i <= n PROVE t[i] = b[i]
    <3>1. i \in 1..(l - 3) /\ 3 + i \in 1..l /\ 3 + i \in 1..Len(f) /\ i \in 1..n
        BY <1>1, <1>4, <2>1, <2>2, <2>4
    <3>. QED  BY ONLY <1>3, <1>4, <2>2, <2>3, <3>1
  <2>. QED  BY <2>4 DEF Begins, t, n
<1>8. IsPacket(p, q, b, d)
    BY <1>3, <1>4, <1>5, <1>6, <1>7 DEF IsPacket, n
<1>. QED  BY <1>8 DEF p, f

\* An answer names the address that is encoded in it.
LEMMA AnswerAddress ==
    ASSUME NEW a, a \in Socks5Address
    PROVE  parse(Skip(InitReply(a), 3)) = Ok(Renamed(a), <<>>)
<1>. DEFINE b == AddressBytes(a)
            q == <<SOCKS_V5, SUCCEEDED, 0>>
            r == q \o b
            t == Skip(r, 3)
            n == Len(b)
<1>1. b \in Octets /\ n \in Nat
    BY AddressLayout, OctetsLen
<1>2. q \in Octets /\ Len(q) = 3
    BY Triple DEF SOCKS_V5, SUCCEEDED, Byte
<1>. HIDE DEF b, q
<1>3. /\ r \in Octets /\ Len(r) = Len(q) + n
      /\ \A i \in 1..n : r[Len(q) + i] = b[i]
  <2>1. q \in Octets /\ b \in Octets
      BY <1>1, <1>2
  <2>. QED  BY ONLY <2>1, Concat
<1>. HIDE DEF r, n
<1>4. 3 \in 0..Len(r) /\ Len(r) = 3 + n /\ Len(r) - 3 = n /\ \A i \in 1..n : r[3 + i] = b[i]
    BY ONLY <1>1, <1>2, <1>3
<1>5. t \in Octets /\ Len(t) = Len(r) - 3 /\ \A i \in 1..(Len(r) - 3) : t[i] = r[3 + i]
    BY ONLY <1>3, <1>4, Cut
<1>. HIDE DEF t
<1>6. Len(t) = n /\ \A i \in 1..n : t[i] = b[i]
    BY ONLY <1>4, <1>5
<1>7. t = b
    BY ONLY <1>1, <1>5, <1>6, OctetsEqual DEF n
<1>8. Begins(b, b)
    BY DEF Begins
<1>9. parse(b) = Ok(Renamed(a), Skip(b, n))
  <2>1. ~(n < n)
      BY <1>1
  <2>. QED  BY <1>1, <1>8, <2>1, ParseBytes DEF b, n
<1>10. Skip(b, n) = <<>>
  <2>1. n \in 0..Len(b) /\ Len(b) - n = 0
      BY <1>1 DEF n
  <2>2. Skip(b, n) \in Octets /\ Len(Skip(b, n)) = Len(b) - n
      BY ONLY <1>1, <2>1, Cut
  <2>. QED  BY ONLY <2>1, <2>2, OctetsLen
<1>. QED  BY <1>7, <1>9, <1>10 DEF t, r, q, b, InitReply

\* Every packet is read back, and no part of its header is.
LEMMA PacketBack ==
    ASSUME NEW a, a \in Socks5Address
    PROVE  LET packet == PacketBytes(0, a, Data)
               header == Len(packet) - Len(Data)
               read   == decodePacket(packet)
           IN  /\ read.result = "ok" /\ read.rest = Data
               /\ read.value.frag = 0
               /\ read.value.address = Renamed(a)
               /\ \A n \in 0..(header - 1) : decodePacket(Prefix(packet, n)).result = "err"
<1>. DEFINE b == AddressBytes(a)
            n == Len(b)
            q == <<0, 0, 0>>
            p == q \o b \o Data
            e == Len(Data)
<1>1. b \in Octets /\ n \in Nat /\ Data \in Octets /\ e \in Nat
    BY AddressLayout, DataAssumption, OctetsLen DEF Octets
<1>2. q \in Octets /\ Len(q) = 3 /\ q[3] = 0
    BY Triple DEF Byte
<1>3. p = PacketBytes(0, a, Data)
    BY DEF PacketBytes
<1>4. /\ p \in Octets /\ Len(p) = 3 + n + e
      /\ p[3] = q[3]
      /\ Skip(p, 3 + n) = Data
      /\ \A s : s \in Octets /\ Len(s) <= Len(p) /\ Len(s) >= 3 /\ (\A i \in 1..Len(s) : s[i] = p[i])
                   => Begins(Skip(s, 3), b)
  <2>1. IsPacket(p, q, b, Data)
    <3>. HIDE DEF q, b
    <3>. QED  BY <1>1, <1>2, PacketLayout
  <2>. HIDE DEF p, q, b
  <2>. QED  BY <2>1 DEF IsPacket
<1>. HIDE DEF b, n, q, p, e
<1>5. ASSUME NEW s, s \in Octets, Len(s) <= Len(p), Len(s) >= 3, \A i \in 1..Len(s) : s[i] = p[i]
      PROVE  /\ Skip(s, 3) \in Octets /\ Len(Skip(s, 3)) = Len(s) - 3
             /\ parse(Skip(s, 3)) = IF Len(s) - 3 < n THEN Err ELSE Ok(Renamed(a), Skip(Skip(s, 3), n))
  <2>1. Begins(Skip(s, 3), b)
      BY <1>4, <1>5
  <2>2. 3 \in 0..Len(s)
      BY <1>5, OctetsLen
  <2>3. Skip(s, 3) \in Octets /\ Len(Skip(s, 3)) = Len(s) - 3
      BY <1>5, <2>2, Cut
  <2>. DEFINE t == Skip(s, 3)
  <2>. HIDE DEF t
  <2>4. parse(t) = IF Len(t) < Len(b) THEN Err ELSE Ok(Renamed(a), Skip(t, Len(b)))
    <3>1. t \in Octets /\ Begins(t, b)
        BY <2>1, <2>3 DEF t
    <3>. QED  BY <3>1, ParseBytes DEF b
  <2>. QED  BY <2>3, <2>4 DEF t, n
<1>6. /\ decodePacket(p).result = "ok" /\ decodePacket(p).rest = Data
      /\ decodePacket(p).value = [frag |-> 0, address |-> Renamed(a)]
  <2>1. Len(p) >= 3 /\ Len(p) <= Len(p) /\ ~(Len(p) - 3 < n) /\ 3 + n <= Len(p) /\ ~(Len(p) < 3)
      BY <1>1, <1>4
  <2>2. parse(Skip(p, 3)) = Ok(Renamed(a), Skip(Skip(p, 3), n))
      BY <1>4, <1>5, <2>1
  <2>3. Skip(Skip(p, 3), n) = Data
      BY <1>1, <1>4, <2>1, SkipSkip
  <2>4. parse(Skip(p, 3)) = Ok(Renamed(a), Data)
      BY <2>2, <2>3
  <2>5. decodePacket(p) = Ok([frag |-> 0, address |-> Renamed(a)], Data)
      BY <1>2, <1>4, <2>1, <2>4 DEF decodePacket, Ok
  <2>. QED  BY <2>5 DEF Ok
<1>7. ASSUME NEW k \in 0..((Len(p) - e) - 1)
      PROVE  decodePacket(Prefix(p, k)).result = "err"
  <2>. DEFINE s == Prefix(p, k)
  <2>1. k \in Nat /\ k \in 0..Len(p) /\ k < 3 + n /\ k <= Len(p)
      BY <1>1, <1>4
  <2>2. s \in Octets /\ Len(s) = k /\ \A i \in 1..k : s[i] = p[i]
      BY <1>4, <2>1, Cut
  <2>. HIDE DEF s
  <2>3. CASE k < 3
      BY <2>2, <2>3 DEF decodePacket, Err, s
  <2>4. CASE k >= 3
    <3>1. parse(Skip(s, 3)) = Err
      <4>1. Len(s) - 3 < n /\ Len(s) >= 3 /\ Len(s) <= Len(p)
          BY <1>1, <2>1, <2>2, <2>4
      <4>. QED  BY <1>5, <2>2, <4>1
    <3>2. decodePacket(s) = Err
        BY <2>1, <2>2, <2>4, <3>1 DEF decodePacket, Err
    <3>. QED  BY <3>2 DEF Err, s
  <2>. QED  BY <2>1, <2>3, <2>4
<1>. QED  BY <1>3, <1>6, <1>7 DEF e

-----------------------------------------------------------------------------
(* Where the bytes of a client are                                         *)

\* The messages of a client.
LEMMA MessageForm ==
    ASSUME NEW c, c \in Clients
    PROVE  /\ \A k \in 1..3 : Message(c, k) \in Octets /\ Len(Message(c, k)) \in Nat
           /\ Count(c) \in 1..3
           /\ \A w \in 0..3 : End(c, w) \in Nat
           /\ \A w \in 0..2 : End(c, w + 1) = End(c, w) + Len(Message(c, w + 1))
<1>1. Data \in Octets
    BY DataAssumption DEF Octets
<1>2. Message(c, 1) \in Octets /\ Message(c, 2) \in Octets /\ Message(c, 3) \in Octets
  <2>1. CASE c.protocol = "socks5"
    <3>1. Message(c, 3) \in Octets
        BY <1>1, <2>1, EmptyOctets DEF Message
    <3>. QED  BY <2>1, <3>1, Socks5Messages
  <2>2. CASE c.protocol # "socks5"
    <3>1. HttpRequest \in Octets
        BY Triple DEF HttpRequest, Byte
    <3>2. <<SOCKS_V4, CONNECT>> \in Octets
        BY Pair DEF SOCKS_V4, CONNECT, Byte
    <3>. QED  BY <1>1, <2>2, <3>1, <3>2, EmptyOctets DEF Message
  <2>. QED  BY <2>1, <2>2
<1>3. Len(Message(c, 1)) \in Nat /\ Len(Message(c, 2)) \in Nat /\ Len(Message(c, 3)) \in Nat
    BY <1>2, OctetsLen
<1>4. \A k \in 1..3 : Message(c, k) \in Octets /\ Len(Message(c, k)) \in Nat
  <2>1. \A k \in 1..3 : k = 1 \/ k = 2 \/ k = 3
      OBVIOUS
  <2>. QED  BY ONLY <2>1, <1>2, <1>3
<1>5. Count(c) \in 1..3
    BY DEF Count
<1>6. /\ End(c, 0) = 0 /\ End(c, 1) = Len(Message(c, 1))
      /\ End(c, 2) = Len(Message(c, 1)) + Len(Message(c, 2))
      /\ End(c, 3) = Len(Message(c, 1)) + Len(Message(c, 2)) + Len(Message(c, 3))
    BY <1>3 DEF End
<1>7. \A w \in 0..3 : w = 0 \/ w = 1 \/ w = 2 \/ w = 3
    OBVIOUS
<1>8. \A w \in 0..3 : End(c, w) \in Nat
    BY ONLY <1>3, <1>6, <1>7
<1>9. \A w \in 0..2 : End(c, w + 1) = End(c, w) + Len(Message(c, w + 1))
  <2>1. /\ End(c, 0 + 1) = End(c, 0) + Len(Message(c, 0 + 1))
        /\ End(c, 1 + 1) = End(c, 1) + Len(Message(c, 1 + 1))
        /\ End(c, 2 + 1) = End(c, 2) + Len(Message(c, 2 + 1))
      BY <1>3, <1>6
  <2>2. \A w \in 0..2 : w = 0 \/ w = 1 \/ w = 2
      OBVIOUS
  <2>. QED  BY ONLY <2>1, <2>2
<1>. QED  BY <1>4, <1>5, <1>8, <1>9

\* The bytes of the w-th message follow those of its predecessors.
LEMMA WireMessage ==
    ASSUME NEW c, c \in Clients, NEW w \in 0..2, NEW i \in 1..Len(Message(c, w + 1))
    PROVE  Wire(c, End(c, w) + i) = Message(c, w + 1)[i]
<1>1. /\ Len(Message(c, 1)) \in Nat /\ Len(Message(c, 2)) \in Nat /\ Len(Message(c, 3)) \in Nat
    BY MessageForm
<1>2. /\ End(c, 0) = 0 /\ End(c, 1) = Len(Message(c, 1))
      /\ End(c, 2) = Len(Message(c, 1)) + Len(Message(c, 2))
    BY <1>1 DEF End
<1>3. CASE w = 0
    BY <1>1, <1>2, <1>3 DEF Wire
<1>4. CASE w = 1
    BY <1>1, <1>2, <1>4 DEF Wire
<1>5. CASE w = 2
    BY <1>1, <1>2, <1>5 DEF Wire
<1>. QED  BY <1>3, <1>4, <1>5

\* What holds the bytes of a message begins like it.
LEMMA AtMessage ==
    ASSUME NEW c, c \in Clients, NEW w \in 0..2, NEW s, s \in Octets, At(c, End(c, w), s)
    PROVE  Begins(s, Message(c, w + 1))
<1>. DEFINE m == Message(c, w + 1)
<1>1. SUFFICES ASSUME NEW i \in 1..Len(s), i <= Len(m) PROVE s[i] = m[i]
    BY DEF Begins
<1>2. Len(m) \in Nat /\ Len(s) \in Nat
    BY MessageForm, OctetsLen
<1>3. i \in 1..Len(m)
    BY ONLY <1>1, <1>2
<1>4. Wire(c, End(c, w) + i) = m[i]
    BY <1>3, WireMessage
<1>. QED  BY <1>4 DEF At

\* Neighbouring pieces of a client's bytes make one piece.
LEMMA AtConcat ==
    ASSUME NEW c, NEW b \in Nat, NEW s, NEW t, s \in Octets, t \in Octets,
           At(c, b, s), At(c, b + Len(s), t)
    PROVE  At(c, b, s \o t)
<1>. DEFINE u == s \o t
            m == Len(s)
            n == Len(t)
<1>1. m \in Nat /\ n \in Nat
    BY OctetsLen
<1>2. /\ u \in Octets /\ Len(u) = m + n
      /\ \A i \in 1..m : u[i] = s[i]
      /\ \A i \in 1..n : u[m + i] = t[i]
    BY ONLY s \in Octets, t \in Octets, Concat
<1>3. /\ \A i \in 1..m : s[i] = Wire(c, b + i)
      /\ \A i \in 1..n : t[i] = Wire(c, (b + m) + i)
    BY DEF At
<1>. HIDE DEF u, m, n
<1>4. ASSUME NEW i \in 1..(m + n) PROVE u[i] = Wire(c, b + i)
  <2>1. CASE i <= m
    <3>1. i \in 1..m
        BY <1>1, <2>1
    <3>. QED  BY ONLY <3>1, <1>2, <1>3
  <2>2. CASE i > m
    <3>1. i - m \in 1..n /\ m + (i - m) = i /\ (b + m) + (i - m) = b + i
        BY <1>1, <2>2
    <3>. QED  BY ONLY <3>1, <1>2, <1>3
  <2>. QED  BY <1>1, <2>1, <2>2
<1>. QED  BY <1>2, <1>4 DEF At, u

\* The parts of a piece of a client's bytes are pieces of them.
LEMMA AtCut ==
    ASSUME NEW c, NEW b \in Nat, NEW s, s \in Octets, NEW n \in 0..Len(s), At(c, b, s)
    PROVE  At(c, b, Prefix(s, n)) /\ At(c, b + n, Skip(s, n))
<1>. DEFINE u == Prefix(s, n)
            v == Skip(s, n)
            l == Len(s)
<1>1. l \in Nat /\ n \in 0..l
    BY OctetsLen
<1>2. /\ Len(u) = n /\ \A i \in 1..n : u[i] = s[i]
      /\ Len(v) = l - n /\ \A i \in 1..(l - n) : v[i] = s[n + i]
    BY Cut
<1>3. \A i \in 1..l : s[i] = Wire(c, b + i)
    BY DEF At
<1>. HIDE DEF u, v, l
<1>4. \A i \in 1..n : i \in 1..l
    BY <1>1
<1>5. \A i \in 1..(l - n) : n + i \in 1..l /\ b + (n + i) = (b + n) + i
    BY <1>1
<1>6. At(c, b, u)
    BY ONLY <1>2, <1>3, <1>4 DEF At
<1>7. At(c, b + n, v)
    BY ONLY <1>2, <1>3, <1>5 DEF At
<1>. QED  BY <1>6, <1>7 DEF u, v

\* The client writes its next message.
LEMMA CarriesWritten ==
    ASSUME NEW c, c \in Clients, NEW w \in 0..2, NEW b \in Nat, NEW d, NEW r, NEW u, NEW s,
           Held(d, r, u, s), Carries(c, b, d, r, u, s, End(c, w))
    PROVE  /\ Held(d, r, u, s \o Message(c, w + 1))
           /\ Carries(c, b, d, r, u, s \o Message(c, w + 1), End(c, w + 1))
<1>. DEFINE m == Message(c, w + 1)
            t == s \o m
            o == b + Len(d) + Len(r) + Len(u)
            e == End(c, w)
<1>1. /\ m \in Octets /\ Len(m) \in Nat /\ e \in Nat
      /\ End(c, w + 1) = e + Len(m)
  <2>1. w + 1 \in 1..3 /\ w \in 0..3
      OBVIOUS
  <2>. QED  BY <2>1, MessageForm
<1>2. /\ s \in Octets /\ Len(d) \in Nat /\ Len(r) \in Nat /\ Len(u) \in Nat /\ Len(s) \in Nat
    BY OctetsLen DEF Held
<1>3. /\ o \in Nat /\ At(c, o, s) /\ o + Len(s) = e
    BY <1>2 DEF Carries
<1>4. At(c, e, m)
    BY WireMessage DEF At
<1>. HIDE DEF m, o, e
<1>5. At(c, o, t)
    BY <1>1, <1>2, <1>3, <1>4, AtConcat
<1>6. t \in Octets /\ Len(t) = Len(s) + Len(m)
    BY <1>1, <1>2, Concat
<1>. HIDE DEF t
<1>7. o + Len(t) = End(c, w + 1)
    BY <1>1, <1>2, <1>3, <1>6
<1>8. Held(d, r, u, t) /\ Carries(c, b, d, r, u, t, End(c, w + 1))
    BY <1>5, <1>6, <1>7 DEF Held, Carries, o
<1>. QED  BY <1>8 DEF t, m

\* A part of the stream arrives in the read buffer.
LEMMA CarriesArrived ==
    ASSUME NEW c, NEW b \in Nat, NEW d, NEW r, NEW u, NEW s, NEW e,
           Held(d, r, u, s), Carries(c, b, d, r, u, s, e), NEW n \in 1..Len(s)
    PROVE  /\ Held(d, r, u \o Prefix(s, n), Skip(s, n))
           /\ Carries(c, b, d, r, u \o Prefix(s, n), Skip(s, n), e)
<1>. DEFINE o == b + Len(d) + Len(r)
            p == Prefix(s, n)
            q == Skip(s, n)
            v == u \o p
<1>1. /\ d \in Octets /\ r \in Octets /\ u \in Octets /\ s \in Octets
      /\ Len(d) \in Nat /\ Len(r) \in Nat /\ Len(u) \in Nat /\ Len(s) \in Nat
    BY OctetsLen DEF Held
<1>2. o \in Nat /\ n \in 0..Len(s) /\ o + Len(u) \in Nat
    BY <1>1
<1>3. At(c, b, d) /\ At(c, b + Len(d), r) /\ At(c, o, u) /\ At(c, o + Len(u), s) /\ o + Len(u) + Len(s) = e
    BY DEF Carries
<1>. HIDE DEF o
<1>4. p \in Octets /\ Len(p) = n /\ q \in Octets /\ Len(q) = Len(s) - n
    BY <1>1, <1>2, Cut
<1>5. At(c, o + Len(u), p) /\ At(c, (o + Len(u)) + n, q)
    BY <1>1, <1>2, <1>3, AtCut
<1>. HIDE DEF p, q
<1>6. v \in Octets /\ Len(v) = Len(u) + Len(p)
    BY <1>1, <1>4, Concat
<1>7. At(c, o, v)
    BY <1>1, <1>2, <1>3, <1>4, <1>5, AtConcat
<1>. HIDE DEF v
<1>8. o + Len(v) = (o + Len(u)) + n /\ o + Len(v) + Len(q) = e
    BY <1>1, <1>2, <1>3, <1>4, <1>6
<1>9. At(c, o + Len(v), q)
    BY <1>5, <1>8
<1>10. Held(d, r, v, q) /\ Carries(c, b, d, r, v, q, e)
    BY <1>1, <1>3, <1>4, <1>6, <1>7, <1>8, <1>9 DEF Held, Carries, o
<1>. QED  BY <1>10 DEF v, p, q

\* A message of n bytes leaves the read buffer; what is left may be dropped.
LEMMA CarriesConsumed ==
    ASSUME NEW c, NEW b \in Nat, NEW u, NEW s, NEW e,
           Held(<<>>, <<>>, u, s), Carries(c, b, <<>>, <<>>, u, s, e), NEW n \in 0..Len(u)
    PROVE  /\ Held(<<>>, <<>>, Skip(u, n), s)
           /\ Carries(c, b + n, <<>>, <<>>, Skip(u, n), s, e)
           /\ Held(Skip(u, n), <<>>, <<>>, s)
           /\ Carries(c, b + n, Skip(u, n), <<>>, <<>>, s, e)
<1>. DEFINE v == Skip(u, n)
            z == <<>>
<1>1. z \in Octets /\ Len(z) = 0 /\ \A o : At(c, o, z)
    BY EmptyOctets DEF At
<1>2. u \in Octets /\ s \in Octets /\ Len(u) \in Nat /\ Len(s) \in Nat
    BY OctetsLen DEF Held
<1>3. Held(z, z, u, s) /\ Carries(c, b, z, z, u, s, e)
    OBVIOUS
<1>. HIDE DEF z
<1>4. At(c, b, u) /\ At(c, b + Len(u), s) /\ b + Len(u) + Len(s) = e
  <2>1. b + Len(z) + Len(z) = b
      BY <1>1
  <2>. QED  BY <1>3, <2>1 DEF Carries
<1>5. v \in Octets /\ Len(v) = Len(u) - n
    BY <1>2, Cut
<1>6. At(c, b + n, v)
    BY <1>2, <1>4, AtCut
<1>. HIDE DEF v
<1>7. (b + n) + Len(v) = b + Len(u) /\ b + n \in Nat
    BY <1>2, <1>5
<1>8. Held(z, z, v, s) /\ Carries(c, b + n, z, z, v, s, e)
  <2>1. (b + n) + Len(z) = b + n /\ (b + n) + Len(z) + Len(z) = b + n
      BY <1>1, <1>7
  <2>. QED  BY <1>1, <1>2, <1>4, <1>5, <1>6, <1>7, <2>1 DEF Held, Carries
<1>9. Held(v, z, z, s) /\ Carries(c, b + n, v, z, z, s, e)
  <2>1. (b + n) + Len(v) + Len(z) = b + Len(u) /\ (b + n) + Len(v) + Len(z) + Len(z) = b + Len(u)
      BY <1>1, <1>2, <1>7
  <2>. QED  BY <1>1, <1>2, <1>4, <1>5, <1>6, <1>7, <2>1 DEF Held, Carries
<1>. QED  BY <1>8, <1>9 DEF v, z

\* The relay takes a part of the stream.
LEMMA CarriesRelayed ==
    ASSUME NEW c, NEW b \in Nat, NEW d, NEW r, NEW s, NEW e,
           Held(d, r, <<>>, s), Carries(c, b, d, r, <<>>, s, e), NEW n \in 1..Len(s)
    PROVE  /\ Held(d, r \o Prefix(s, n), <<>>, Skip(s, n))
           /\ Carries(c, b, d, r \o Prefix(s, n), <<>>, Skip(s, n), e)
<1>. DEFINE o == b + Len(d)
            p == Prefix(s, n)
            q == Skip(s, n)
            v == r \o p
            z == <<>>
<1>1. z \in Octets /\ Len(z) = 0 /\ \A k : At(c, k, z)
    BY EmptyOctets DEF At
<1>2. Held(d, r, z, s) /\ Carries(c, b, d, r, z, s, e)
    OBVIOUS
<1>. HIDE DEF z
<1>3. /\ d \in Octets /\ r \in Octets /\ s \in Octets
      /\ Len(d) \in Nat /\ Len(r) \in Nat /\ Len(s) \in Nat
    BY <1>2, OctetsLen DEF Held
<1>4. o \in Nat /\ n \in 0..Len(s) /\ o + Len(r) \in Nat /\ b + Len(d) + Len(r) + Len(z) = o + Len(r)
    BY <1>1, <1>3
<1>5. At(c, b, d) /\ At(c, o, r) /\ At(c, o + Len(r), s) /\ o + Len(r) + Len(s) = e
    BY <1>2, <1>4 DEF Carries
<1>. HIDE DEF o
<1>6. p \in Octets /\ Len(p) = n /\ q \in Octets /\ Len(q) = Len(s) - n
    BY <1>3, <1>4, Cut
<1>7. At(c, o + Len(r), p) /\ At(c, (o + Len(r)) + n, q)
    BY <1>3, <1>4, <1>5, AtCut
<1>. HIDE DEF p, q
<1>8. v \in Octets /\ Len(v) = Len(r) + Len(p)
    BY <1>3, <1>6, Concat
<1>9. At(c, o, v)
    BY <1>3, <1>4, <1>5, <1>6, <1>7, AtConcat
<1>. HIDE DEF v
<1>10. /\ o + Len(v) + Len(z) = (o + Len(r)) + n
       /\ o + Len(v) + Len(z) + Len(q) = e
    BY <1>1, <1>3, <1>4, <1>5, <1>6, <1>8
<1>11. Held(d, v, z, q) /\ Carries(c, b, d, v, z, q, e)
    BY <1>1, <1>3, <1>5, <1>6, <1>7, <1>8, <1>9, <1>10 DEF Held, Carries, o
<1>. QED  BY <1>11 DEF v, p, q, z

-----------------------------------------------------------------------------
(* States                                                                  *)

\* Where the messages of a client end.
LEMMA Ends ==
    ASSUME NEW c, c \in Clients
    PROVE  /\ End(c, 0) = 0
           /\ End(c, 1) = Len(Message(c, 1)) /\ End(c, 1) \in Nat
           /\ End(c, 2) = End(c, 1) + Len(Message(c, 2)) /\ End(c, 2) \in Nat
           /\ End(c, 3) = End(c, 2) + Len(Message(c, 3)) /\ End(c, 3) \in Nat
<1>1. Len(Message(c, 1)) \in Nat /\ Len(Message(c, 2)) \in Nat /\ Len(Message(c, 3)) \in Nat
    BY MessageForm
<1>. QED  BY <1>1 DEF End

\* Later messages end later.
LEMMA EndGrows ==
    ASSUME NEW c, c \in Clients, NEW w \in 0..3
    PROVE  /\ End(c, w) \in Nat
           /\ w <= 1 => End(c, w) <= End(c, 1)
           /\ w <= 2 => End(c, w) <= End(c, 2)
           /\ End(c, w) <= End(c, 3)
<1>1. Len(Message(c, 1)) \in Nat /\ Len(Message(c, 2)) \in Nat /\ Len(Message(c, 3)) \in Nat
    BY MessageForm
<1>2. w = 0 \/ w = 1 \/ w = 2 \/ w = 3
    OBVIOUS
<1>. QED  BY <1>1, <1>2, Ends

AnySeq(S) == Seq(S)

\* The elements of a concatenation.
LEMMA AnySeqConcat ==
    ASSUME NEW S, NEW p, NEW q, p \in AnySeq(S), q \in AnySeq(S)
    PROVE  /\ Len(p \o q) = Len(p) + Len(q)
           /\ \A i \in 1..Len(p) : (p \o q)[i] = p[i]
           /\ \A i \in 1..Len(q) : (p \o q)[Len(p) + i] = q[i]
BY DEF AnySeq

\* The elements of a sequence that grows by one.
LEMMA AnySeqAppend ==
    ASSUME NEW S, NEW p, NEW y, p \in AnySeq(S), y \in S
    PROVE  /\ Append(p, y) \in AnySeq(S) /\ Len(Append(p, y)) = Len(p) + 1
           /\ Append(p, y)[Len(p) + 1] = y
           /\ \A i \in 1..Len(p) : Append(p, y)[i] = p[i]
BY DEF AnySeq

\* Sequences are equal when their lengths and elements are.
LEMMA AnySeqEqual ==
    ASSUME NEW S, NEW p, NEW q, p \in AnySeq(S), q \in AnySeq(S), Len(p) = Len(q),
           \A i \in 1..Len(p) : p[i] = q[i]
    PROVE  p = q
<1>1. p = [i \in 1..Len(p) |-> p[i]] /\ q = [i \in 1..Len(q) |-> q[i]]
    BY DEF AnySeq
<1>. DEFINE n == Len(p)
<1>2. p = [i \in 1..n |-> p[i]] /\ q = [i \in 1..n |-> q[i]] /\ \A i \in 1..n : p[i] = q[i]
    BY <1>1
<1>. HIDE DEF n
<1>3. [i \in 1..n |-> p[i]] = [i \in 1..n |-> q[i]]
    BY ONLY <1>2
<1>. QED  BY ONLY <1>2, <1>3, Zenon

\* The lists of no, one and two answers.
LEMMA Tuples ==
    ASSUME NEW x, NEW y
    PROVE  /\ Len(<<x>>) = 1 /\ Len(<<x, y>>) = 2 /\ <<x>> # <<>> /\ <<x, y>>[2] = y
           /\ Append(<<>>, x) = <<x>> /\ Append(<<x>>, y) = <<x, y>>
<1>1. Len(<<x>>) = 1 /\ Len(<<x, y>>) = 2 /\ <<x>> # <<>> /\ <<x, y>>[2] = y
    OBVIOUS
<1>2. Append(<<>>, x) = <<x>>
    OBVIOUS
<1>3. Append(<<x>>, y) = <<x, y>>
  <2>. DEFINE p == <<x>>
              q == Append(p, y)
              r == <<x, y>>
              S == {x, y}
  <2>1. p \in AnySeq(S) /\ Len(p) = 1 /\ p[1] = x
      BY DEF AnySeq
  <2>2. r \in AnySeq(S) /\ Len(r) = 2 /\ r[1] = x /\ r[2] = y
      BY DEF AnySeq
  <2>3. y \in S
      OBVIOUS
  <2>. HIDE DEF p, r, S
  <2>4. q \in AnySeq(S) /\ Len(q) = Len(p) + 1 /\ q[Len(p) + 1] = y /\ \A i \in 1..Len(p) : q[i] = p[i]
    <3>1. p \in AnySeq(S) /\ y \in S
        BY <2>1, <2>3
    <3>. QED  BY ONLY <3>1, AnySeqAppend
  <2>. HIDE DEF q
  <2>5. Len(q) = 2 /\ q[1] = x /\ q[2] = y
      BY <2>1, <2>4
  <2>6. q = r
    <3>1. \A i \in 1..Len(q) : q[i] = r[i]
        BY <2>2, <2>5
    <3>2. q \in AnySeq(S) /\ r \in AnySeq(S) /\ Len(q) = Len(r)
        BY <2>2, <2>4, <2>5
    <3>. QED  BY ONLY <3>1, <3>2, AnySeqEqual, Zenon
  <2>. QED  BY <2>6 DEF p, q, r
<1>. QED  BY <1>1, <1>2, <1>3

\* The client's messages are those of the model.
LEMMA MessagesAre ==
    ASSUME client \in Clients
    PROVE  /\ Len(Messages) = Count(client)
           /\ \A k \in 1..Count(client) : Messages[k] = Message(client, k)
<1>1. client.protocol \in {"socks5", "http", "socks4"}
    BY ClientForm
<1>. DEFINE x == Message(client, 1)
            y == Message(client, 2)
<1>2. CASE client.protocol = "socks5"
  <2>1. Messages = <<x, y>> \o (IF client.type = CONNECT THEN <<Data>> ELSE <<>>)
      BY <1>2 DEF Messages, Message
  <2>. HIDE DEF x, y
  <2>2. CASE client.type = CONNECT
    <3>1. Len(Messages) = 3 /\ Messages[1] = x /\ Messages[2] = y /\ Messages[3] = Data
      <4>. DEFINE p == <<x, y>>
                  q == <<Data>>
                  S == {x, y, Data}
      <4>1. Messages = p \o q
          BY <2>1, <2>2
      <4>2. p \in AnySeq(S) /\ Len(p) = 2 /\ p[1] = x /\ p[2] = y
          BY DEF AnySeq
      <4>3. q \in AnySeq(S) /\ Len(q) = 1 /\ q[1] = Data
          BY DEF AnySeq
      <4>. HIDE DEF p, q, S
      <4>4. /\ Len(p \o q) = Len(p) + Len(q)
            /\ \A i \in 1..Len(p) : (p \o q)[i] = p[i]
            /\ \A i \in 1..Len(q) : (p \o q)[Len(p) + i] = q[i]
        <5>1. p \in AnySeq(S) /\ q \in AnySeq(S)
            BY <4>2, <4>3
        <5>. QED  BY ONLY <5>1, AnySeqConcat
      <4>. QED  BY <4>1, <4>2, <4>3, <4>4
    <3>2. Count(client) = 3 /\ Message(client, 3) = Data
        BY <1>2, <2>2 DEF Count, Message
    <3>3. \A k \in 1..3 : k = 1 \/ k = 2 \/ k = 3
        OBVIOUS
    <3>. QED  BY <3>1, <3>2, <3>3 DEF x, y
  <2>3. CASE client.type # CONNECT
    <3>1. Messages = <<x, y>>
        BY <2>1, <2>3
    <3>2. Count(client) = 2
        BY <1>2, <2>3 DEF Count
    <3>3. \A k \in 1..2 : k = 1 \/ k = 2
        OBVIOUS
    <3>. QED  BY <3>1, <3>2, <3>3 DEF x, y
  <2>. QED  BY <2>2, <2>3
<1>3. CASE client.protocol = "http"
  <2>1. Messages = <<x, y>>
      BY <1>3 DEF Messages, Message
  <2>2. Count(client) = 2
      BY <1>3 DEF Count
  <2>3. \A k \in 1..2 : k = 1 \/ k = 2
      OBVIOUS
  <2>. HIDE DEF x, y
  <2>. QED  BY <2>1, <2>2, <2>3 DEF x, y
<1>4. CASE client.protocol = "socks4"
  <2>1. Messages = <<x>>
      BY <1>4 DEF Messages, Message
  <2>2. Count(client) = 1
      BY <1>4 DEF Count
  <2>3. \A k \in 1..1 : k = 1
      OBVIOUS
  <2>. HIDE DEF x
  <2>. QED  BY <2>1, <2>2, <2>3 DEF x
<1>. QED  BY <1>1, <1>2, <1>3, <1>4

\* How many answers there are at each point, and what the second one is.
LEMMA RepliesLen ==
    ASSUME Shape, Answered
    PROVE  /\ Len(replies) \in 0..2
           /\ agent \in Early => Len(replies) = 0
           /\ agent \in {"init", "proxy", "reply", "udp_reply", "failed", "panicked"} => Len(replies) <= 1
           /\ client.protocol # "socks5" /\ agent \in {"proxy", "reply"} => Len(replies) = 0
           /\ Len(replies) = 2 =>
                 /\ agent \in {"relay", "udp_relay"}
                 /\ agent = "relay" => replies[2] = InitReply(dst)
                 /\ agent = "udp_relay" => replies[2] = InitReply(UdpBindAddress)
<1>. DEFINE z == <<>>
<1>1. Len(z) = 0
    BY EmptyOctets
<1>2. /\ agent \in Early => replies = z
      /\ agent = "init" => replies = <<AuthReply>>
      /\ agent \in {"proxy", "reply", "udp_reply"} =>
            replies = IF client.protocol = "socks5" THEN <<AuthReply>> ELSE z
      /\ agent = "relay" =>
            \/ client.protocol = "socks5" /\ replies = <<AuthReply, InitReply(dst)>>
            \/ replies = <<HttpEstablished>>
            \/ replies = z
      /\ agent = "udp_relay" => replies = <<AuthReply, InitReply(UdpBindAddress)>>
      /\ agent \in {"failed", "panicked"} => replies = z \/ replies = <<AuthReply>>
    BY DEF Answered
<1>. HIDE DEF z
<1>3. /\ Len(<<AuthReply>>) = 1 /\ Len(<<HttpEstablished>>) = 1
      /\ Len(<<AuthReply, InitReply(dst)>>) = 2
      /\ Len(<<AuthReply, InitReply(UdpBindAddress)>>) = 2
      /\ <<AuthReply, InitReply(dst)>>[2] = InitReply(dst)
      /\ <<AuthReply, InitReply(UdpBindAddress)>>[2] = InitReply(UdpBindAddress)
    BY Tuples
<1>. DEFINE p == <<AuthReply>>
            q == <<HttpEstablished>>
            r == <<AuthReply, InitReply(dst)>>
            t == <<AuthReply, InitReply(UdpBindAddress)>>
<1>4. Len(p) = 1 /\ Len(q) = 1 /\ Len(r) = 2 /\ Len(t) = 2 /\ r[2] = InitReply(dst) /\ t[2] = InitReply(UdpBindAddress)
    BY <1>3
<1>5. /\ agent \in Early => replies = z
      /\ agent = "init" => replies = p
      /\ agent \in {"proxy", "reply", "udp_reply"} =>
            replies = IF client.protocol = "socks5" THEN p ELSE z
      /\ agent = "relay" => replies = r \/ replies = q \/ replies = z
      /\ agent = "udp_relay" => replies = t
      /\ agent \in {"failed", "panicked"} => replies = z \/ replies = p
    BY <1>2
<1>. HIDE DEF p, q, r, t
<1>6. agent \in Early \cup {"init", "proxy", "reply", "udp_reply", "relay", "udp_relay", "failed", "panicked"}
    BY DEF Shape, Agents, Early, Reading, Decided
<1>. HIDE DEF Early
<1>7. CASE agent \in Early
  <2>1. agent \notin {"init", "proxy", "reply", "udp_reply", "failed", "panicked", "relay", "udp_relay"}
      BY <1>7 DEF Early
  <2>2. Len(replies) = 0
      BY <1>1, <1>5, <1>7
  <2>. QED  BY ONLY <2>1, <2>2
<1>8. CASE agent \in {"init", "proxy", "reply", "udp_reply", "failed", "panicked"}
  <2>1. agent \notin Early
      BY <1>8 DEF Early
  <2>2. replies = p \/ replies = z
      BY ONLY <1>5, <1>8
  <2>3. client.protocol # "socks5" /\ agent \in {"proxy", "reply"} => replies = z
      BY ONLY <1>5
  <2>4. Len(replies) = 0 \/ Len(replies) = 1
      BY ONLY <2>2, <1>1, <1>4
  <2>5. client.protocol # "socks5" /\ agent \in {"proxy", "reply"} => Len(replies) = 0
      BY ONLY <2>3, <1>1
  <2>. QED  BY ONLY <2>1, <2>4, <2>5
<1>9. CASE agent \in {"relay", "udp_relay"}
  <2>1. agent \notin Early
      BY <1>9 DEF Early
  <2>2. CASE agent = "relay"
      BY ONLY <2>1, <2>2, <1>1, <1>4, <1>5
  <2>3. CASE agent = "udp_relay"
      BY ONLY <2>1, <2>3, <1>1, <1>4, <1>5
  <2>. QED  BY <1>9, <2>2, <2>3
<1>. QED  BY <1>6, <1>7, <1>8, <1>9

\* What is known of the bytes while the handshake reads.
LEMMA Here ==
    ASSUME Shape, Untouched, Positions, lost = <<>>, agent \in Before
    PROVE  /\ Held(<<>>, <<>>, buf, stream)
           /\ Carries(client, Base(client, agent), <<>>, <<>>, buf, stream, End(client, written))
           /\ buf \in Octets /\ stream \in Octets /\ Len(buf) \in Nat /\ Len(stream) \in Nat
           /\ Base(client, agent) \in Nat
           /\ At(client, Base(client, agent), buf)
           /\ Base(client, agent) + Len(buf) + Len(stream) = End(client, written)
<1>. DEFINE z == <<>>
            b == Base(client, agent)
            e == End(client, written)
<1>1. dropped = z /\ relayed = z
    BY DEF Untouched
<1>2. Len(z) = 0 /\ z \in Octets
    BY EmptyOctets
<1>3. /\ dropped \in Octets /\ relayed \in Octets /\ buf \in Octets /\ stream \in Octets
      /\ Carries(client, b, dropped, relayed, buf, stream, e)
    BY DEF Positions, Known, Held
<1>4. b \in Nat
    BY Ends DEF Base, Shape
<1>5. Len(buf) \in Nat /\ Len(stream) \in Nat
    BY <1>3, OctetsLen
<1>. HIDE DEF z, b, e
<1>6. Carries(client, b, z, z, buf, stream, e)
    BY <1>1, <1>3
<1>7. b + Len(z) + Len(z) = b
    BY <1>2, <1>4
<1>8. At(client, b, buf) /\ b + Len(buf) + Len(stream) = e
    BY <1>6, <1>7 DEF Carries
<1>9. Held(z, z, buf, stream)
    BY <1>2, <1>3 DEF Held
<1>. QED  BY <1>3, <1>4, <1>5, <1>6, <1>8, <1>9 DEF z, b, e

\* The buffer begins like the message that is being read.
LEMMA Reads ==
    ASSUME Shape, Untouched, Positions, lost = <<>>
    PROVE  /\ agent \in {"dispatch", "auth", "http", "http_more"} => Begins(buf, Message(client, 1))
           /\ agent = "init" => Begins(buf, Message(client, 2))
<1>1. client \in Clients
    BY DEF Shape
<1>2. ASSUME agent \in {"dispatch", "auth", "http", "http_more"} PROVE Begins(buf, Message(client, 1))
  <2>1. Base(client, agent) = End(client, 0)
      BY <1>1, <1>2, Ends DEF Base
  <2>2. buf \in Octets /\ At(client, End(client, 0), buf)
      BY <1>2, <2>1, Here DEF Before, Early
  <2>3. Begins(buf, Message(client, 0 + 1))
      BY <1>1, <2>2, AtMessage
  <2>. QED  BY <2>3
<1>3. ASSUME agent = "init" PROVE Begins(buf, Message(client, 2))
  <2>1. Base(client, agent) = End(client, 1)
      BY <1>3 DEF Base
  <2>2. buf \in Octets /\ At(client, End(client, 1), buf)
      BY <1>3, <2>1, Here DEF Before, Early
  <2>3. Begins(buf, Message(client, 1 + 1))
      BY <1>1, <2>2, AtMessage
  <2>. QED  BY <2>3
<1>. QED  BY <1>2, <1>3

\* A destination that was renamed is not allowed.
LEMMA AllowedAddress ==
    ASSUME NEW a, a \in Socks5Address, ~NotAllowed(Renamed(a))
    PROVE  Renamed(a) = a /\ a.host # ZeroName
<1>1. /\ a.flag \in {IPV4_FLAG, IPV6_FLAG, DOMAIN_FLAG}
      /\ a.flag = IPV4_FLAG => Len(a.host) = 4
      /\ a.flag = IPV6_FLAG => Len(a.host) = 16
      /\ a = Address(a.flag, a.host, a.port)
    BY AddressForm
<1>2. Len(ZeroName) = 1
    BY DEF ZeroName
<1>3. CASE a.flag = DOMAIN_FLAG /\ a.host = ZeroName
  <2>1. Renamed(a) = [a EXCEPT !.host = LoopbackName]
      BY <1>3 DEF Renamed
  <2>2. [a EXCEPT !.host = LoopbackName].flag = DOMAIN_FLAG
        /\ [a EXCEPT !.host = LoopbackName].host = LoopbackName
      BY <1>1, <1>3 DEF Address
  <2>. QED  BY <2>1, <2>2 DEF NotAllowed
<1>4. CASE ~(a.flag = DOMAIN_FLAG /\ a.host = ZeroName)
  <2>1. Renamed(a) = a
      BY <1>4 DEF Renamed
  <2>2. a.host # ZeroName
    <3>1. a.flag # DOMAIN_FLAG => Len(a.host) = 4 \/ Len(a.host) = 16
        BY <1>1
    <3>2. a.flag # DOMAIN_FLAG => a.host # ZeroName
        BY <1>2, <3>1
    <3>. QED  BY <1>4, <3>2
  <2>. QED  BY <2>1, <2>2
<1>. QED  BY <1>3, <1>4

\* A SOCKS5 request whose destination, as parse gives it, is not allowed is one
\* that is not served.
LEMMA NotServed ==
    ASSUME client \in Clients, client.protocol = "socks5", client.type = CONNECT,
           NotAllowed(Renamed(client.address))
    PROVE  ~Served
<1>1. CASE client.address.host = ZeroName
    BY <1>1 DEF Served
<1>2. CASE client.address.host # ZeroName
  <2>1. Renamed(client.address) = client.address
      BY <1>2 DEF Renamed
  <2>2. NotAllowed(client.address)
      BY <2>1
  <2>. QED  BY <2>2 DEF Served, CONNECT, UDP_ASSOCIATE
<1>. QED  BY <1>1, <1>2

\* Whether a request is served depends on the client alone.
LEMMA ServedSame ==
    ASSUME client' = client
    PROVE  Served' <=> Served
BY DEF Served, NotAllowed

\* A part of the n-th message in the buffer counts as cut.
LEMMA IsCut ==
    ASSUME client \in Clients, NEW n \in 1..Count(client), buf \in Octets,
           Begins(buf, Message(client, n)), Len(buf) < Len(Message(client, n)), Truncated(n)
    PROVE  cut' = TRUE
<1>. DEFINE m == Message(client, n)
            l == Len(buf)
<1>1. m \in Octets /\ l \in Nat /\ Len(m) \in Nat
  <2>0. Count(client) \in 1..3
      BY MessageForm
  <2>1. n \in 1..3
      BY ONLY <2>0, n \in 1..Count(client)
  <2>. QED  BY <2>1, MessageForm, OctetsLen
<1>2. Messages[n] = m
    BY MessagesAre
<1>3. Len(buf) <= Len(m) /\ buf # m
    BY <1>1
<1>4. IsPrefix(buf, m)
    BY <1>1, <1>3, BeginsPrefix
<1>. QED  BY <1>2, <1>3, <1>4 DEF Truncated, IsStrictPrefix

\* The decoder in use.
LEMMA DecodedIs ==
    /\ agent = "dispatch" => Decoded = IF buf = <<>> THEN None ELSE Ok(Head(buf), buf)
    /\ agent = "auth" => Decoded = decodeAuth(buf)
    /\ agent = "init" => Decoded = decodeInit(buf)
BY DEF Decoded

\* The first byte of a client tells its protocol.
LEMMA FirstByte ==
    ASSUME client \in Clients, buf \in Octets, Begins(buf, Message(client, 1)), buf # <<>>
    PROVE  /\ client.protocol = "socks5" => Head(buf) = SOCKS_V5
           /\ client.protocol = "http" => Head(buf) = 72
           /\ client.protocol = "socks4" => Head(buf) = SOCKS_V4
<1>1. Len(buf) \in Nat /\ Len(buf) # 0
    BY OctetsLen
<1>2. Head(buf) = buf[1] /\ 1 \in 1..Len(buf)
    BY <1>1, Tails
<1>3. 1 <= Len(Message(client, 1)) => Head(buf) = Message(client, 1)[1]
    BY <1>2 DEF Begins
<1>4. CASE client.protocol = "socks5"
  <2>1. Len(Message(client, 1)) = 2 + Len(client.methods) /\ Message(client, 1)[1] = SOCKS_V5
      BY <1>4, Socks5Messages
  <2>2. Len(client.methods) \in 0..255
      BY <1>4, ClientForm
  <2>3. 1 <= Len(Message(client, 1))
      BY ONLY <2>1, <2>2
  <2>. QED  BY <1>3, <1>4, <2>1, <2>3
<1>5. CASE client.protocol = "http"
  <2>1. Message(client, 1) = HttpRequest
      BY <1>5 DEF Message
  <2>2. Len(HttpRequest) = 3 /\ HttpRequest[1] = 72
      BY DEF HttpRequest
  <2>3. 1 <= Len(Message(client, 1)) /\ Message(client, 1)[1] = 72
      BY ONLY <2>1, <2>2
  <2>. QED  BY <1>3, <1>5, <2>3
<1>6. CASE client.protocol = "socks4"
  <2>1. Message(client, 1) = <<SOCKS_V4, CONNECT>>
      BY <1>6 DEF Message
  <2>2. Len(<<SOCKS_V4, CONNECT>>) = 2 /\ <<SOCKS_V4, CONNECT>>[1] = SOCKS_V4
      OBVIOUS
  <2>3. 1 <= Len(Message(client, 1)) /\ Message(client, 1)[1] = SOCKS_V4
      BY ONLY <2>1, <2>2
  <2>. QED  BY <1>3, <1>6, <2>3
<1>7. client.protocol \in {"socks5", "http", "socks4"}
    BY ClientForm
<1>. QED  BY <1>4, <1>5, <1>6, <1>7

-----------------------------------------------------------------------------
(* Steps                                                                   *)

\* The client writes.
LEMMA WritesStep ==
    ASSUME IInv, ClientWrites
    PROVE  IInv'
<1>1. /\ Shape /\ Kinds /\ Answered /\ Waits /\ Untouched /\ Positions /\ Asked /\ FailsOnlyForCause
    BY DEF IInv
<1>2. /\ client' = client /\ closed' = closed /\ agent' = agent /\ buf' = buf /\ dst' = dst
      /\ replies' = replies /\ relayed' = relayed /\ lost' = lost /\ dropped' = dropped
      /\ cut' = cut /\ inside' = inside /\ refused' = refused
      /\ written < Len(Messages) /\ written' = written + 1 /\ stream' = stream \o Messages[written + 1]
      /\ ItsTurn
    BY DEF ClientWrites
<1>3. client \in Clients /\ written \in 0..Count(client) /\ Count(client) \in 1..3
    BY <1>1, MessageForm DEF Shape
<1>4. Len(Messages) = Count(client) /\ \A k \in 1..Count(client) : Messages[k] = Message(client, k)
    BY <1>3, MessagesAre
<1>5. written \in 0..2 /\ written + 1 \in 1..Count(client) /\ written + 1 \in 0..Count(client)
    BY <1>2, <1>3, <1>4
<1>6. stream' = stream \o Message(client, written + 1)
    BY <1>2, <1>4, <1>5
<1>7. Shape'
    BY <1>1, <1>2, <1>5 DEF Shape
<1>8. Kinds' /\ Untouched' /\ Asked' /\ Answered'
    BY <1>1, <1>2 DEF Kinds, Untouched, Asked, Answered
<1>9. Waits'
  <2>1. Len(replies) \in 0..2
      BY <1>1, RepliesLen
  <2>2. written <= Len(replies) => written + 1 <= Len(replies) + 1
      BY <1>3, <2>1
  <2>. QED  BY <1>2, <2>2 DEF Waits, ItsTurn
<1>10. Positions'
  <2>1. SUFFICES ASSUME Known
                 PROVE  /\ Held(dropped, relayed, buf, stream')
                        /\ Carries(client, Base(client, agent), dropped, relayed, buf, stream', End(client, written'))
      BY <1>2 DEF Positions, Known
  <2>2. /\ Held(dropped, relayed, buf, stream)
        /\ Carries(client, Base(client, agent), dropped, relayed, buf, stream, End(client, written))
      BY <1>1, <1>2, <2>1 DEF Positions, Known
  <2>3. Base(client, agent) \in Nat
      BY <1>3, Ends DEF Base
  <2>4. written' = written + 1
      BY <1>2
  <2>. QED  BY ONLY <1>3, <1>5, <1>6, <2>2, <2>3, <2>4, CarriesWritten
<1>11. FailsOnlyForCause'
    BY <1>1, <1>2, ServedSame DEF FailsOnlyForCause
<1>. QED  BY <1>7, <1>8, <1>9, <1>10, <1>11 DEF IInv

\* The client closes its connection.
LEMMA ClosesStep ==
    ASSUME IInv, ClientCloses
    PROVE  IInv'
<1>1. /\ Shape /\ Kinds /\ Answered /\ Waits /\ Untouched /\ Positions /\ Asked /\ FailsOnlyForCause
    BY DEF IInv
<1>2. /\ client' = client /\ written' = written /\ stream' = stream /\ agent' = agent /\ buf' = buf
      /\ dst' = dst /\ replies' = replies /\ relayed' = relayed /\ lost' = lost /\ dropped' = dropped
      /\ cut' = cut /\ inside' = inside /\ refused' = refused /\ closed' = TRUE
    BY DEF ClientCloses
<1>3. Shape' /\ Kinds' /\ Untouched' /\ Asked'
    BY <1>1, <1>2 DEF Shape, Kinds, Untouched, Asked
<1>4. Waits' /\ Answered'
    BY <1>1, <1>2 DEF Waits, Answered
<1>5. Positions'
    BY <1>1, <1>2 DEF Positions, Known
<1>6. FailsOnlyForCause'
    BY <1>2 DEF FailsOnlyForCause
<1>. QED  BY <1>3, <1>4, <1>5, <1>6 DEF IInv

\* Nothing happens.
LEMMA StutterStep ==
    ASSUME IInv, UNCHANGED vars
    PROVE  IInv'
<1>1. /\ Shape /\ Kinds /\ Answered /\ Waits /\ Untouched /\ Positions /\ Asked /\ FailsOnlyForCause
    BY DEF IInv
<1>2. /\ client' = client /\ written' = written /\ stream' = stream /\ agent' = agent /\ buf' = buf
      /\ dst' = dst /\ replies' = replies /\ relayed' = relayed /\ lost' = lost /\ dropped' = dropped
      /\ cut' = cut /\ inside' = inside /\ refused' = refused /\ closed' = closed
    BY DEF vars
<1>3. Shape' /\ Kinds' /\ Untouched' /\ Asked'
    BY <1>1, <1>2 DEF Shape, Kinds, Untouched, Asked
<1>4. Waits' /\ Answered'
    BY <1>1, <1>2 DEF Waits, Answered
<1>5. Positions'
    BY <1>1, <1>2 DEF Positions, Known
<1>6. FailsOnlyForCause'
    BY <1>1, <1>2, ServedSame DEF FailsOnlyForCause
<1>. QED  BY <1>3, <1>4, <1>5, <1>6 DEF IInv

\* The handler gives up, and there is a cause.
LEMMA GivesUp ==
    ASSUME IInv, client' = client, written' = written, closed' = closed, replies' = replies, lost' = lost,
           cut' \in BOOLEAN, cut => cut', inside' = inside, refused' \in BOOLEAN,
           agent \notin {"relay", "udp_relay"}, agent' \in {"failed", "panicked"}, FailsOnlyForCause'
    PROVE  IInv'
<1>1. /\ Shape /\ Kinds /\ Answered /\ Waits /\ Untouched /\ Positions /\ Asked
    BY DEF IInv
<1>2. Shape'
    BY <1>1 DEF Shape, Agents, Decided
<1>3. Kinds' /\ Asked'
    BY <1>1 DEF Kinds, Asked
<1>4. Answered'
  <2>1. replies = <<>> \/ replies = <<AuthReply>>
      BY <1>1 DEF Answered, Shape, Agents, Early, Reading, Decided
  <2>. QED  BY <2>1 DEF Answered, Early
<1>5. Waits'
    BY <1>1 DEF Waits
<1>6. Untouched'
    BY <1>1 DEF Untouched, Before, Early
<1>7. Positions'
    BY DEF Positions, Known, Before, Early
<1>. QED  BY <1>2, <1>3, <1>4, <1>5, <1>6, <1>7 DEF IInv

\* The stream ends, a write fails, or no udp socket is bound.
LEMMA EndsStep ==
    ASSUME IInv, SeesEnd \/ BindFails
    PROVE  IInv'
<1>1. /\ client' = client /\ written' = written /\ closed' = closed /\ replies' = replies /\ lost' = lost
      /\ cut' = cut /\ inside' = inside /\ agent' = "failed" /\ agent \notin {"relay", "udp_relay"}
      /\ refused' \in {refused, TRUE} /\ (closed \/ refused')
    BY DEF SeesEnd, BindFails, Fail, clientVars, Reading
<1>2. cut' \in BOOLEAN /\ refused' \in BOOLEAN
    BY <1>1 DEF IInv, Shape
<1>3. FailsOnlyForCause'
    BY <1>1 DEF FailsOnlyForCause
<1>. QED  BY <1>1, <1>2, <1>3, GivesUp

\* Bytes arrive.
LEMMA ReceiveStep ==
    ASSUME IInv, Receive
    PROVE  IInv'
<1>1. /\ Shape /\ Kinds /\ Answered /\ Waits /\ Untouched /\ Positions /\ Asked
    BY DEF IInv
<1>2. /\ client' = client /\ written' = written /\ closed' = closed
      /\ dst' = dst /\ replies' = replies /\ relayed' = relayed /\ lost' = lost /\ dropped' = dropped
      /\ cut' = cut /\ inside' = inside /\ refused' = refused
    BY DEF Receive, clientVars
<1>3. PICK n \in 1..Len(stream) : buf' = buf \o Prefix(stream, n) /\ stream' = Skip(stream, n)
    BY DEF Receive
<1>4. \/ agent \in {"dispatch", "auth", "init"} /\ agent' = agent
      \/ agent = "http_more" /\ agent' = "http"
    BY DEF Receive, Reading
<1>5. Shape' /\ Kinds' /\ Untouched' /\ Asked'
    BY <1>1, <1>2, <1>4 DEF Shape, Kinds, Untouched, Asked, Agents, Before, Early
<1>6. Waits' /\ Answered'
    BY <1>1, <1>2, <1>4 DEF Waits, Answered, Early
<1>7. Positions'
  <2>0. agent \in Before /\ Base(client, agent') = Base(client, agent)
      BY <1>4 DEF Before, Early, Base
  <2>1. SUFFICES ASSUME Known
                 PROVE  /\ Held(dropped, relayed, buf', stream')
                        /\ Carries(client, Base(client, agent), dropped, relayed, buf', stream', End(client, written))
      BY <1>2, <2>0 DEF Positions, Known
  <2>2. /\ Held(dropped, relayed, buf, stream)
        /\ Carries(client, Base(client, agent), dropped, relayed, buf, stream, End(client, written))
      BY <1>1, <2>1 DEF Positions
  <2>3. Base(client, agent) \in Nat
      BY <1>1, Ends DEF Base, Shape
  <2>. QED  BY ONLY <1>3, <2>2, <2>3, CarriesArrived
<1>8. FailsOnlyForCause'
    BY <1>4 DEF FailsOnlyForCause
<1>. QED  BY <1>5, <1>6, <1>7, <1>8 DEF IInv

\* The protocol is selected.
LEMMA DispatchStep ==
    ASSUME IInv, Dispatch
    PROVE  IInv'
<1>1. /\ Shape /\ Kinds /\ Answered /\ Waits /\ Untouched /\ Positions /\ Asked
    BY DEF IInv
<1>2. /\ client' = client /\ written' = written /\ stream' = stream /\ closed' = closed /\ buf' = buf
      /\ dst' = dst /\ replies' = replies /\ relayed' = relayed /\ lost' = lost /\ dropped' = dropped
      /\ cut' = cut /\ inside' = inside /\ refused' = refused /\ agent = "dispatch"
    BY DEF Dispatch, clientVars
<1>3. buf # <<>> /\ Decoded.value = Head(buf)
    BY <1>2, DecodedIs DEF Dispatch, None, Ok
<1>4. lost = <<>> /\ client \in Clients
    BY <1>1, <1>2 DEF Untouched, Early, Shape
<1>5. buf \in Octets /\ Begins(buf, Message(client, 1))
    BY <1>1, <1>2, <1>4, Here, Reads DEF Before, Early
<1>6. /\ client.protocol \in {"socks5", "http", "socks4"}
      /\ client.protocol = "socks5" => Head(buf) = SOCKS_V5
      /\ client.protocol = "http" => Head(buf) = 72
      /\ client.protocol = "socks4" => Head(buf) = SOCKS_V4
    BY <1>3, <1>4, <1>5, FirstByte, ClientForm
<1>7. \/ client.protocol = "socks5" /\ agent' = "auth"
      \/ client.protocol = "http" /\ agent' = "http"
      \/ client.protocol = "socks4" /\ agent' = "failed"
    BY <1>3, <1>6 DEF Dispatch, SOCKS_V5, SOCKS_V4
<1>8. CASE agent' = "failed"
  <2>1. ~Served'
      BY <1>2, <1>7, <1>8 DEF Served
  <2>2. FailsOnlyForCause'
      BY <2>1 DEF FailsOnlyForCause
  <2>3. cut' \in BOOLEAN /\ refused' \in BOOLEAN
      BY <1>1, <1>2 DEF Shape
  <2>. QED  BY <1>2, <1>8, <2>2, <2>3, GivesUp
<1>9. CASE agent' \in {"auth", "http"}
  <2>1. Shape' /\ Kinds' /\ Untouched' /\ Asked'
      BY <1>1, <1>2, <1>7, <1>9 DEF Shape, Kinds, Untouched, Asked, Agents, Reading, Before, Early
  <2>2. Waits' /\ Answered'
      BY <1>1, <1>2, <1>9 DEF Waits, Answered, Early
  <2>3. Positions'
    <3>1. Base(client, agent') = Base(client, agent) /\ agent \in Before
        BY <1>2, <1>9 DEF Base, Before, Early
    <3>. QED  BY <1>1, <1>2, <3>1 DEF Positions, Known
  <2>4. FailsOnlyForCause'
      BY <1>9 DEF FailsOnlyForCause
  <2>. QED  BY <2>1, <2>2, <2>3, <2>4 DEF IInv
<1>. QED  BY <1>7, <1>8, <1>9

\* The methods are decoded, or their decoder has seen a part of them only.
LEMMA AuthenticateStep ==
    ASSUME IInv, Authenticate
    PROVE  IInv'
<1>1. /\ Shape /\ Kinds /\ Answered /\ Waits /\ Untouched /\ Positions /\ Asked
    BY DEF IInv
<1>2. /\ client' = client /\ written' = written /\ closed' = closed
      /\ inside' = inside /\ refused' = refused /\ agent = "auth" /\ Truncated(1)
    BY DEF Authenticate, clientVars
<1>3. /\ client \in Clients /\ client.protocol = "socks5" /\ lost = <<>> /\ replies = <<>>
    BY <1>1, <1>2 DEF Shape, Kinds, Untouched, Answered, Early
<1>4. agent \in Before
    BY <1>2 DEF Before, Early
<1>5. buf \in Octets /\ Len(buf) \in Nat /\ Begins(buf, Message(client, 1))
    BY <1>1, <1>2, <1>3, <1>4, Here, Reads
<1>6. /\ Decoded.result \in {"none", "panic", "ok"}
      /\ Decoded.result = "panic" => Len(buf) >= 2 /\ Len(buf) < Len(Message(client, 1))
      /\ Decoded.result = "ok" =>
            Len(buf) >= Len(Message(client, 1)) /\ Decoded.rest = Skip(buf, Len(Message(client, 1)))
    BY <1>2, <1>3, <1>5, DecodedIs, DecodeMethods
<1>7. cut' \in BOOLEAN /\ (cut => cut')
    BY <1>1, <1>2 DEF Shape, Truncated
<1>8. CASE Decoded.result = "panic"
  <2>1. /\ agent' = "panicked" /\ buf' = buf /\ replies' = replies /\ lost' = lost
      BY <1>8 DEF Authenticate, Panics
  <2>2. 1 \in 1..Count(client)
      BY <1>3 DEF Count
  <2>3. cut' = TRUE
      BY <1>2, <1>3, <1>5, <1>6, <1>8, <2>2, IsCut
  <2>4. FailsOnlyForCause'
      BY <1>3, <1>6, <1>8, <2>1, <2>3 DEF FailsOnlyForCause
  <2>5. refused' \in BOOLEAN
      BY <1>1, <1>2 DEF Shape
  <2>. QED  BY <1>2, <1>7, <2>1, <2>4, <2>5, GivesUp
<1>9. CASE Decoded.result = "ok"
  <2>1. /\ agent' = "auth_reply" /\ buf' = Decoded.rest /\ stream' = stream /\ dst' = dst
        /\ replies' = replies /\ relayed' = relayed /\ lost' = lost /\ dropped' = dropped
      BY <1>9 DEF Authenticate
  <2>2. Shape' /\ Kinds' /\ Untouched' /\ Asked'
      BY <1>1, <1>2, <1>3, <1>7, <2>1 DEF Shape, Kinds, Untouched, Asked, Agents, Before, Early
  <2>3. Waits' /\ Answered'
      BY <1>1, <1>2, <2>1 DEF Waits, Answered, Early
  <2>4. Positions'
    <3>. DEFINE n == Len(Message(client, 1))
                e == End(client, written)
    <3>1. n \in Nat /\ n \in 0..Len(buf) /\ End(client, 1) = n
        BY <1>3, <1>5, <1>6, <1>9, Ends
    <3>2. Base(client, agent) = 0 /\ Base(client, agent') = n
        BY <1>2, <2>1, <3>1 DEF Base
    <3>3. Held(<<>>, <<>>, buf, stream) /\ Carries(client, 0, <<>>, <<>>, buf, stream, e)
        BY <1>1, <1>3, <1>4, <3>2, Here
    <3>. HIDE DEF n, e
    <3>4. Held(<<>>, <<>>, Skip(buf, n), stream) /\ Carries(client, 0 + n, <<>>, <<>>, Skip(buf, n), stream, e)
        BY <3>1, <3>3, CarriesConsumed
    <3>5. 0 + n = n
        BY <3>1
    <3>6. dropped' = <<>> /\ relayed' = <<>> /\ buf' = Skip(buf, n)
        BY <1>1, <1>4, <1>6, <1>9, <2>1 DEF Untouched, n
    <3>. QED  BY <1>2, <2>1, <3>2, <3>4, <3>5, <3>6 DEF Positions, Known, e
  <2>5. FailsOnlyForCause'
      BY <2>1 DEF FailsOnlyForCause
  <2>. QED  BY <2>2, <2>3, <2>4, <2>5 DEF IInv
<1>. QED  BY <1>6, <1>8, <1>9 DEF Authenticate

\* The method is answered; what a client has written ahead is lost.
LEMMA AuthReplyStep ==
    ASSUME IInv, SendAuthReply
    PROVE  IInv'
<1>1. /\ Shape /\ Kinds /\ Answered /\ Waits /\ Untouched /\ Positions /\ Asked
    BY DEF IInv
<1>2. /\ client' = client /\ written' = written /\ stream' = stream /\ closed' = closed
      /\ dst' = dst /\ relayed' = relayed /\ dropped' = dropped /\ cut' = cut /\ inside' = inside /\ refused' = refused
      /\ agent = "auth_reply" /\ agent' = "init" /\ buf' = <<>> /\ lost' = buf
      /\ replies' = Append(replies, AuthReply)
    BY DEF SendAuthReply, clientVars
<1>3. /\ client \in Clients /\ client.protocol = "socks5" /\ lost = <<>> /\ replies = <<>>
    BY <1>1, <1>2 DEF Shape, Kinds, Untouched, Answered, Early
<1>4. replies' = <<AuthReply>> /\ Len(replies') = 1 /\ Len(replies) = 0
    BY <1>2, <1>3, Tuples, EmptyOctets
<1>5. agent \in Before
    BY <1>2 DEF Before, Early
<1>6. Shape' /\ Kinds' /\ Asked'
    BY <1>1, <1>2, <1>3 DEF Shape, Kinds, Asked, Agents, Reading
<1>7. Answered'
    BY <1>2, <1>4 DEF Answered, Early
<1>8. written \in 0..3
  <2>1. written \in 0..Count(client) /\ Count(client) \in 1..3
      BY <1>1, <1>3, MessageForm DEF Shape
  <2>. QED  BY ONLY <2>1
<1>9. ~client.eager => written <= 1
    BY <1>1, <1>2, <1>4, <1>8 DEF Waits
<1>10. Waits'
    BY <1>2, <1>4, <1>8, <1>9 DEF Waits
<1>11. Base(client, agent) = End(client, 1) /\ Base(client, agent') = End(client, 1)
    BY <1>2 DEF Base
<1>12. ~client.eager => buf = <<>>
  <2>1. /\ buf \in Octets /\ Len(buf) \in Nat /\ Len(stream) \in Nat
        /\ End(client, 1) + Len(buf) + Len(stream) = End(client, written)
      BY <1>1, <1>3, <1>5, <1>11, Here
  <2>2. End(client, 1) \in Nat /\ End(client, written) \in Nat /\ (written <= 1 => End(client, written) <= End(client, 1))
      BY <1>3, <1>8, Ends, EndGrows
  <2>3. written <= 1 => Len(buf) = 0
      BY ONLY <2>1, <2>2
  <2>. QED  BY <1>9, <2>1, <2>3, OctetsLen
<1>13. Untouched'
    BY <1>1, <1>2, <1>5, <1>12 DEF Untouched, Before, Early
<1>14. Positions'
    BY <1>1, <1>2, <1>3, <1>5, <1>11 DEF Positions, Known
<1>15. FailsOnlyForCause'
    BY <1>2 DEF FailsOnlyForCause
<1>. QED  BY <1>6, <1>7, <1>10, <1>13, <1>14, <1>15 DEF IInv

\* The request is decoded, or its decoder gives up.
LEMMA InitStep ==
    ASSUME IInv, InitCommand
    PROVE  IInv'
<1>1. /\ Shape /\ Kinds /\ Answered /\ Waits /\ Untouched /\ Positions /\ Asked
    BY DEF IInv
<1>2. /\ client' = client /\ written' = written /\ stream' = stream /\ closed' = closed
      /\ replies' = replies /\ relayed' = relayed /\ lost' = lost /\ dropped' = dropped
      /\ inside' = inside /\ refused' = refused /\ agent = "init" /\ Truncated(2)
    BY DEF InitCommand, Fail, clientVars
<1>3. /\ client \in Clients /\ client.protocol = "socks5" /\ replies = <<AuthReply>>
    BY <1>1, <1>2 DEF Shape, Kinds, Answered
<1>4. agent \in Before
    BY <1>2 DEF Before, Early
<1>5. cut' \in BOOLEAN /\ (cut => cut') /\ refused' \in BOOLEAN
    BY <1>1, <1>2 DEF Shape, Truncated
<1>6. ~client.eager => lost = <<>>
    BY <1>1 DEF Untouched
<1>7. client.address \in Socks5Address
    BY <1>3, ClientForm
<1>. DEFINE n == Len(Message(client, 2))
            a == client.address
<1>8. ASSUME lost = <<>>
      PROVE  /\ buf \in Octets /\ Len(buf) \in Nat /\ Begins(buf, Message(client, 2))
             /\ Decoded.result \in {"none", "err", "ok"}
             /\ Decoded.result = "err" =>
                   Len(buf) >= 4 /\ (Len(buf) < n \/ client.type \notin {CONNECT, BIND, UDP_ASSOCIATE})
             /\ Decoded.result = "ok" =>
                   /\ Len(buf) >= n
                   /\ client.type \in {CONNECT, BIND, UDP_ASSOCIATE}
                   /\ Decoded.value = [type |-> client.type, dst |-> Renamed(a)]
                   /\ Decoded.rest = Skip(buf, n)
  <2>1. buf \in Octets /\ Len(buf) \in Nat /\ Begins(buf, Message(client, 2))
      BY <1>1, <1>2, <1>4, <1>8, Here, Reads
  <2>2. Decoded = decodeInit(buf)
      BY <1>2, DecodedIs
  <2>. QED  BY <1>3, <2>1, <2>2, DecodeRequest
<1>. HIDE DEF n
<1>9. CASE Decoded.result = "err"
  <2>1. agent' = "failed" /\ buf' = buf
      BY <1>9 DEF InitCommand, Fail
  <2>2. FailsOnlyForCause'
    <3>1. CASE client.eager
        BY <1>2, <3>1 DEF FailsOnlyForCause
    <3>2. CASE ~client.eager /\ client.type \notin {CONNECT, BIND, UDP_ASSOCIATE}
      <4>1. ~Served
          BY <1>3, <3>2 DEF Served
      <4>. QED  BY <1>2, <4>1, ServedSame DEF FailsOnlyForCause
    <3>3. CASE ~client.eager /\ client.type \in {CONNECT, BIND, UDP_ASSOCIATE}
      <4>1. lost = <<>> /\ Len(buf) >= 4 /\ Len(buf) < n
          BY <1>6, <1>8, <1>9, <3>3
      <4>2. 2 \in 1..Count(client)
          BY <1>3 DEF Count
      <4>3. cut' = TRUE
          BY <1>2, <1>3, <1>8, <4>1, <4>2, IsCut DEF n
      <4>4. replies' # <<>>
          BY <1>2, <1>3, Tuples
      <4>. QED  BY <2>1, <4>1, <4>3, <4>4 DEF FailsOnlyForCause
    <3>. QED  BY <3>1, <3>2, <3>3
  <2>. QED  BY <1>2, <1>5, <2>1, <2>2, GivesUp
<1>10. CASE Decoded.result = "ok"
  <2>1. /\ buf' = Decoded.rest /\ dst' = Decoded.value.dst
        /\ agent' = IF Decoded.value.type = BIND               THEN "panicked"
                    ELSE IF Decoded.value.type = UDP_ASSOCIATE THEN "udp_reply"
                    ELSE IF NotAllowed(Decoded.value.dst)      THEN "failed"
                    ELSE "proxy"
      BY <1>10 DEF InitCommand
  <2>2. lost = <<>> =>
           /\ Decoded.value.type = client.type /\ Decoded.value.dst = Renamed(a)
           /\ client.type \in {CONNECT, BIND, UDP_ASSOCIATE}
      BY <1>8, <1>10
  <2>3. CASE agent' \in {"failed", "panicked"}
    <3>1. FailsOnlyForCause'
      <4>1. CASE client.eager
          BY <1>2, <4>1 DEF FailsOnlyForCause
      <4>2. CASE ~client.eager /\ client.type = BIND
        <5>1. ~Served
            BY <1>3, <4>2 DEF Served, BIND, CONNECT, UDP_ASSOCIATE
        <5>. QED  BY <1>2, <5>1, ServedSame DEF FailsOnlyForCause
      <4>3. CASE ~client.eager /\ client.type # BIND
        <5>1. client.type = CONNECT /\ NotAllowed(Renamed(a))
            BY <1>6, <2>1, <2>2, <2>3, <4>3 DEF BIND, CONNECT, UDP_ASSOCIATE
        <5>2. ~Served
            BY <1>3, <5>1, NotServed
        <5>. QED  BY <1>2, <5>2, ServedSame DEF FailsOnlyForCause
      <4>. QED  BY <4>1, <4>2, <4>3
    <3>. QED  BY <1>2, <1>5, <2>3, <3>1, GivesUp
  <2>4. CASE agent' \in {"proxy", "udp_reply"}
    <3>1. Shape' /\ Kinds'
        BY <1>1, <1>2, <1>3, <1>5, <2>4 DEF Shape, Kinds, Agents
    <3>2. Waits' /\ Answered'
        BY <1>1, <1>2, <1>3, <2>4 DEF Waits, Answered, Early
    <3>3. Untouched'
        BY <1>1, <1>2, <1>4, <2>4 DEF Untouched, Before, Early
    <3>4. Asked'
      <4>1. ASSUME lost = <<>>, agent' = "proxy"
            PROVE  client.type = CONNECT /\ dst' = client.address /\ client.address.host # ZeroName
        <5>1. client.type = CONNECT /\ ~NotAllowed(Renamed(a)) /\ dst' = Renamed(a)
            BY <2>1, <2>2, <4>1
        <5>. QED  BY <1>7, <5>1, AllowedAddress
      <4>. QED  BY <1>2, <1>3, <2>4, <4>1 DEF Asked
    <3>5. Positions'
      <4>1. SUFFICES ASSUME lost' = <<>>, agent' \in Before \cup {"relay"}
                     PROVE  /\ Held(dropped', relayed', buf', stream')
                            /\ Carries(client, Base(client, agent'), dropped', relayed', buf', stream', End(client, written))
          BY <1>2 DEF Positions, Known
      <4>2. lost = <<>> /\ agent' = "proxy"
          BY <1>2, <2>4, <4>1 DEF Before, Early
      <4>. DEFINE b == End(client, 1)
                  e == End(client, written)
      <4>3. n \in Nat /\ n \in 0..Len(buf) /\ b \in Nat /\ End(client, 2) = b + n
        <5>1. n \in Nat /\ b \in Nat /\ End(client, 2) = b + n
            BY <1>3, Ends, MessageForm DEF n
        <5>2. Len(buf) \in Nat /\ Len(buf) >= n
            BY <1>8, <1>10, <4>2
        <5>. QED  BY ONLY <5>1, <5>2
      <4>4. Base(client, agent) = b /\ Base(client, agent') = b + n
          BY <1>2, <1>3, <4>2, <4>3 DEF Base
      <4>5. Held(<<>>, <<>>, buf, stream) /\ Carries(client, b, <<>>, <<>>, buf, stream, e)
          BY <1>1, <1>4, <4>2, <4>4, Here
      <4>. HIDE DEF b, e
      <4>6. Held(<<>>, <<>>, Skip(buf, n), stream) /\ Carries(client, b + n, <<>>, <<>>, Skip(buf, n), stream, e)
          BY <4>3, <4>5, CarriesConsumed
      <4>7. dropped' = <<>> /\ relayed' = <<>> /\ buf' = Skip(buf, n) /\ stream' = stream
          BY <1>1, <1>2, <1>4, <1>8, <1>10, <2>1, <4>2 DEF Untouched
      <4>. QED  BY <4>4, <4>6, <4>7 DEF e
    <3>6. FailsOnlyForCause'
        BY <2>4 DEF FailsOnlyForCause
    <3>. QED  BY <3>1, <3>2, <3>3, <3>4, <3>5, <3>6 DEF IInv
  <2>. QED  BY <2>1, <2>3, <2>4
<1>. QED  BY <1>9, <1>10 DEF InitCommand

\* HttpCodec is called.
LEMMA HttpStep ==
    ASSUME IInv, HttpCommand
    PROVE  IInv'
<1>1. /\ Shape /\ Kinds /\ Answered /\ Waits /\ Untouched /\ Positions /\ Asked
    BY DEF IInv
<1>2. /\ client' = client /\ written' = written /\ stream' = stream /\ closed' = closed /\ buf' = buf
      /\ replies' = replies /\ relayed' = relayed /\ lost' = lost /\ dropped' = dropped
      /\ refused' = refused /\ agent \in {"http", "http_more"} /\ Truncated(1)
    BY DEF HttpCommand, Fail, clientVars
<1>3. /\ client \in Clients /\ client.protocol = "http" /\ lost = <<>> /\ replies = <<>>
      /\ agent \in Before
    BY <1>1, <1>2 DEF Shape, Kinds, Untouched, Answered, Before, Early
<1>4. /\ buf \in Octets /\ Len(buf) \in Nat /\ Begins(buf, Message(client, 1))
      /\ Message(client, 1) = HttpRequest /\ HttpRequest \in Octets /\ Len(HttpRequest) = 3
  <2>1. HttpRequest \in Octets /\ Len(HttpRequest) = 3
      BY DEF HttpRequest, Octets, Byte
  <2>. QED  BY <1>1, <1>2, <1>3, <2>1, Here, Reads DEF Message
<1>5. cut' \in BOOLEAN /\ refused' \in BOOLEAN /\ (cut => cut')
    BY <1>1, <1>2 DEF Shape, Truncated
<1>6. Len(buf) >= 3 <=> IsPrefix(HttpRequest, buf)
  <2>0. Begins(buf, HttpRequest) /\ Len(buf) \in Nat /\ Len(HttpRequest) = 3
      BY <1>4
  <2>1. Begins(HttpRequest, buf)
      BY ONLY <2>0 DEF Begins
  <2>2. Len(buf) >= 3 => IsPrefix(HttpRequest, buf)
      BY <1>4, <2>1, BeginsPrefix
  <2>3. IsPrefix(HttpRequest, buf) => Len(buf) >= 3
      BY <1>4 DEF IsPrefix
  <2>. QED  BY <2>2, <2>3
<1>7. cut' \/ (~inside /\ Len(buf) >= 3)
  <2>1. CASE inside
      BY <1>1, <1>5, <2>1 DEF Kinds
  <2>2. CASE Len(buf) < 3
    <3>1. 1 \in 1..Count(client)
        BY <1>3 DEF Count
    <3>2. Len(buf) < Len(Message(client, 1))
        BY <1>4, <2>2
    <3>. QED  BY <1>2, <1>3, <1>4, <3>1, <3>2, IsCut
  <2>. QED  BY <1>4, <2>1, <2>2
<1>8. PICK decoded \in decodeHttp(buf) :
        \/ /\ decoded.result = "ok" /\ inside' = inside
           /\ agent' = IF NotAllowed(decoded.value.dst) THEN "failed" ELSE "proxy"
        \/ decoded.result = "none" /\ agent' = "http_more" /\ inside' = TRUE
        \/ decoded.result \in {"err", "none"} /\ agent' = "failed" /\ inside' = inside
    BY DEF HttpCommand, Fail
<1>9. /\ ~inside /\ Len(buf) >= 3 => decoded.result = "ok" /\ decoded.value.dst = client.address
      /\ ~inside /\ decoded.result = "ok" => Len(buf) >= 3
  <2>1. ~inside /\ Len(buf) >= 3 =>
           decoded = Ok([type |-> client.type, dst |-> client.address], buf)
      BY <1>6, <1>8 DEF decodeHttp
  <2>2. ~inside /\ ~(Len(buf) >= 3) => decoded \in {None, Err}
      BY <1>6, <1>8 DEF decodeHttp
  <2>. QED  BY <2>1, <2>2 DEF Ok, None, Err
<1>10. CASE agent' = "failed"
  <2>1. inside' = inside
      BY <1>8, <1>10
  <2>2. CASE cut'
    <3>1. FailsOnlyForCause'
        BY <1>2, <1>3, <2>2 DEF FailsOnlyForCause
    <3>. QED  BY <1>2, <1>5, <1>10, <2>1, <3>1, GivesUp
  <2>3. CASE ~cut'
    <3>1. NotAllowed(client.address)
        BY <1>7, <1>8, <1>9, <1>10, <2>3
    <3>2. client.type \in {0, CONNECT}
        BY <1>3, ClientForm
    <3>3. ~Served
        BY <1>3, <3>1, <3>2 DEF Served, CONNECT, UDP_ASSOCIATE
    <3>4. FailsOnlyForCause'
        BY <1>2, <3>3, ServedSame DEF FailsOnlyForCause
    <3>. QED  BY <1>2, <1>5, <1>10, <2>1, <3>4, GivesUp
  <2>. QED  BY <2>2, <2>3
<1>11. CASE agent' \in {"proxy", "http_more"}
  <2>1. /\ inside' \in BOOLEAN
        /\ inside' => cut'
        /\ agent' = "proxy" /\ ~inside' => Len(buf) >= Len(HttpRequest)
    <3>1. CASE agent' = "proxy"
      <4>1. inside' = inside /\ decoded.result = "ok"
          BY <1>8, <3>1
      <4>2. inside \in BOOLEAN /\ (inside => cut)
          BY <1>1 DEF Shape, Kinds
      <4>. QED  BY <1>4, <1>5, <1>9, <3>1, <4>1, <4>2
    <3>2. CASE agent' = "http_more"
      <4>1. inside' = TRUE /\ decoded.result = "none"
          BY <1>8, <3>2
      <4>2. cut'
          BY <1>7, <1>9, <4>1
      <4>. QED  BY <3>2, <4>1, <4>2
    <3>. QED  BY <1>11, <3>1, <3>2
  <2>2. Shape' /\ Kinds'
      BY <1>1, <1>2, <1>3, <1>5, <1>11, <2>1 DEF Shape, Kinds, Agents
  <2>3. Untouched' /\ Asked'
      BY <1>1, <1>2, <1>3, <1>11, <2>1 DEF Untouched, Asked, Before, Early
  <2>4. Waits' /\ Answered'
      BY <1>1, <1>2, <1>3, <1>11 DEF Waits, Answered, Early
  <2>5. Positions'
    <3>1. Base(client, agent) = Base(client, agent') /\ agent \in Before
        BY <1>2, <1>3, <1>11 DEF Base
    <3>. QED  BY <1>1, <1>2, <1>3, <3>1 DEF Positions, Known
  <2>6. FailsOnlyForCause'
      BY <1>11 DEF FailsOnlyForCause
  <2>. QED  BY <2>2, <2>3, <2>4, <2>5, <2>6 DEF IInv
<1>. QED  BY <1>8, <1>10, <1>11

\* Nothing in front of a buffer, or taken from it, leaves it as it is.
LEMMA NothingInFront ==
    ASSUME NEW s, s \in Octets
    PROVE  <<>> \o s = s /\ Skip(s, 0) = s
<1>. DEFINE z == <<>>
            u == z \o s
            v == Skip(s, 0)
<1>1. z \in Octets /\ Len(z) = 0 /\ Len(s) \in Nat /\ 0 \in 0..Len(s)
    BY EmptyOctets, OctetsLen
<1>. HIDE DEF z
<1>2. u \in Octets /\ Len(u) = Len(z) + Len(s) /\ \A i \in 1..Len(s) : u[Len(z) + i] = s[i]
  <2>1. z \in Octets
      BY <1>1
  <2>. QED  BY <2>1, Concat
<1>3. v \in Octets /\ Len(v) = Len(s) - 0 /\ \A i \in 1..(Len(s) - 0) : v[i] = s[0 + i]
    BY <1>1, Cut
<1>. HIDE DEF u, v
<1>4. /\ Len(u) = Len(s) /\ \A i \in 1..Len(u) : u[i] = s[i]
      /\ Len(v) = Len(s) /\ \A i \in 1..Len(v) : v[i] = s[i]
    BY <1>1, <1>2, <1>3
<1>5. u = s
    BY <1>2, <1>4, OctetsEqual
<1>6. v = s
    BY <1>3, <1>4, OctetsEqual
<1>. QED  BY <1>5, <1>6 DEF u, v, z

\* Nothing is left of a buffer that is shorter than what is taken from it.
LEMMA AllTaken ==
    ASSUME NEW s, s \in Octets, NEW n \in Nat, Len(s) <= n
    PROVE  Skip(s, n) = <<>>
BY OctetsLen DEF Skip, Octets

\* The read buffer is dropped in front of the relay.
LEMMA DropsHere ==
    ASSUME Shape, Kinds, Answered, Waits, Untouched, Positions, Asked, DropBuffer,
           agent \in {"proxy", "reply"}
    PROVE  /\ buf' = <<>>
           /\ lost = <<>> /\ ~inside =>
                 /\ Held(dropped', <<>>, <<>>, stream)
                 /\ Carries(client, Base(client, "relay"), dropped', <<>>, <<>>, stream, End(client, written))
           /\ ~client.eager => dropped' = <<>>
<1>1. client \in Clients /\ client.protocol \in {"socks5", "http"} /\ agent \in Before
    BY DEF Shape, Kinds, Before, Early
<1>2. buf' = <<>>
    BY DEF DropBuffer
<1>. DEFINE k == IF client.protocol = "http" THEN 3 ELSE 0
            b == Base(client, agent)
            e == End(client, written)
<1>3. Len(HttpRequest) = 3
    BY DEF HttpRequest
<1>4. ASSUME lost = <<>>, ~inside
      PROVE  /\ buf \in Octets /\ Len(buf) \in Nat /\ Len(stream) \in Nat /\ k \in 0..Len(buf)
             /\ b \in Nat /\ b + Len(buf) + Len(stream) = e
             /\ dropped' = Skip(buf, k)
             /\ Held(<<>>, <<>>, buf, stream) /\ Carries(client, b, <<>>, <<>>, buf, stream, e)
  <2>1. /\ buf \in Octets /\ Len(buf) \in Nat /\ Len(stream) \in Nat
        /\ b \in Nat /\ b + Len(buf) + Len(stream) = e
        /\ Held(<<>>, <<>>, buf, stream) /\ Carries(client, b, <<>>, <<>>, buf, stream, e)
      BY <1>1, <1>4, Here
  <2>2. client.protocol = "http" => Len(buf) >= 3
      BY <1>3, <1>4 DEF Asked
  <2>3. k \in 0..Len(buf)
      BY <2>1, <2>2
  <2>4. Skip(buf, k) \in Octets
      BY <2>1, <2>3, Cut
  <2>5. dropped = <<>>
      BY <1>1 DEF Untouched
  <2>6. dropped' = dropped \o Skip(buf, k)
    <3>1. client.protocol # "http" => Skip(buf, k) = buf
        BY <2>1, NothingInFront
    <3>. QED  BY <1>3, <3>1 DEF DropBuffer
  <2>. HIDE DEF k
  <2>7. <<>> \o Skip(buf, k) = Skip(buf, k)
      BY <2>4, NothingInFront
  <2>. QED  BY <2>1, <2>3, <2>5, <2>6, <2>7
<1>5. Base(client, "relay") = b + k
  <2>1. CASE client.protocol = "socks5"
    <3>1. End(client, 2) \in Nat
        BY <1>1, Ends
    <3>. QED  BY <2>1, <3>1 DEF Base
  <2>2. CASE client.protocol = "http"
    <3>1. End(client, 1) = Len(Message(client, 1)) /\ Message(client, 1) = HttpRequest
        BY <1>1, <2>2, Ends DEF Message
    <3>2. Base(client, "relay") = End(client, 1) /\ b = 0 /\ k = 3
        BY <2>2 DEF Base
    <3>3. End(client, 1) = 3
        BY ONLY <1>3, <3>1
    <3>. HIDE DEF b, k
    <3>. QED  BY ONLY <3>2, <3>3
  <2>. QED  BY <1>1, <2>1, <2>2
<1>6. written \in 0..3
  <2>1. written \in 0..Count(client) /\ Count(client) \in 1..3
      BY <1>1, MessageForm DEF Shape
  <2>. QED  BY ONLY <2>1
<1>7. ASSUME ~client.eager PROVE e <= b + k
  <2>1. /\ Len(replies) \in 0..2 /\ Len(replies) <= 1
        /\ client.protocol # "socks5" => Len(replies) = 0
      BY RepliesLen
  <2>2. written <= Len(replies) + 1
      BY <1>7 DEF Waits
  <2>3. /\ written <= 2
        /\ client.protocol # "socks5" => written <= 1
      BY ONLY <1>6, <2>1, <2>2
  <2>4. /\ written <= 1 => e <= End(client, 1)
        /\ written <= 2 => e <= End(client, 2)
      BY <1>1, <1>6, EndGrows
  <2>5. Base(client, "relay") = IF client.protocol = "socks5" THEN End(client, 2) ELSE End(client, 1)
      BY DEF Base
  <2>. HIDE DEF e, b, k
  <2>. QED  BY <1>5, <2>3, <2>4, <2>5
<1>8. ~client.eager => lost = <<>>
    BY DEF Untouched
<1>11. ASSUME ~client.eager, inside PROVE dropped' = <<>>
  <2>1. client.protocol = "http" /\ k = 3 /\ b = 0
      BY <1>11 DEF Kinds, Base
  <2>2. /\ buf \in Octets /\ Len(buf) \in Nat /\ Len(stream) \in Nat
        /\ b + Len(buf) + Len(stream) = e
      BY <1>1, <1>8, <1>11, Here
  <2>3. e <= b + k
      BY <1>7, <1>11
  <2>. HIDE DEF e, b, k
  <2>4. Len(buf) <= 3
      BY ONLY <2>1, <2>2, <2>3
  <2>5. Skip(buf, 3) = <<>>
      BY <2>2, <2>4, AllTaken
  <2>6. dropped = <<>> /\ dropped' = dropped \o Skip(buf, 3)
      BY <1>1, <1>3, <2>1 DEF Untouched, DropBuffer
  <2>7. <<>> \o <<>> = <<>>
      BY EmptyOctets, NothingInFront
  <2>. QED  BY <2>5, <2>6, <2>7
<1>. HIDE DEF e, b, k
<1>9. ASSUME lost = <<>>, ~inside
      PROVE  Held(dropped', <<>>, <<>>, stream) /\ Carries(client, b + k, dropped', <<>>, <<>>, stream, e)
    BY <1>4, <1>9, CarriesConsumed
<1>10. ASSUME ~client.eager, ~inside PROVE dropped' = <<>>
  <2>1. /\ buf \in Octets /\ Len(buf) \in Nat /\ Len(stream) \in Nat /\ k \in 0..Len(buf)
        /\ b \in Nat /\ b + Len(buf) + Len(stream) = e
        /\ dropped' = Skip(buf, k)
      BY <1>4, <1>8, <1>10
  <2>2. Len(buf) - k = 0
      BY <1>7, <1>10, <2>1
  <2>3. Skip(buf, k) \in Octets /\ Len(Skip(buf, k)) = Len(buf) - k
      BY <2>1, Cut
  <2>4. Skip(buf, k) = <<>>
      BY <2>2, <2>3, OctetsLen
  <2>. QED  BY <2>1, <2>4
<1>. QED  BY <1>2, <1>5, <1>9, <1>10, <1>11 DEF e

\* The proxy has opened a tunnel, or has not.
LEMMA ProxyStep ==
    ASSUME IInv, AskProxy
    PROVE  IInv'
<1>1. /\ Shape /\ Kinds /\ Answered /\ Waits /\ Untouched /\ Positions /\ Asked
    BY DEF IInv
<1>2. /\ client' = client /\ written' = written /\ closed' = closed /\ cut' = cut
      /\ inside' = inside /\ agent = "proxy"
    BY DEF AskProxy, clientVars
<1>3. client \in Clients /\ client.protocol \in {"socks5", "http"} /\ agent \in Before
    BY <1>1, <1>2 DEF Shape, Kinds, Before, Early
<1>4. CASE /\ client.protocol = "http" /\ client.type # CONNECT
           /\ agent' = "relay"
           /\ DropBuffer
           /\ UNCHANGED <<stream, dst, replies, relayed, lost, refused>>
  <2>1. /\ buf' = <<>>
        /\ lost = <<>> /\ ~inside =>
              /\ Held(dropped', <<>>, <<>>, stream)
              /\ Carries(client, Base(client, "relay"), dropped', <<>>, <<>>, stream, End(client, written))
        /\ ~client.eager => dropped' = <<>>
      BY <1>1, <1>2, <1>4, DropsHere
  <2>2. stream' = stream /\ dst' = dst /\ replies' = replies /\ relayed' = relayed /\ lost' = lost /\ refused' = refused
      BY <1>4
  <2>3. relayed = <<>> /\ replies = <<>>
      BY <1>1, <1>2, <1>3, <1>4 DEF Untouched, Answered
  <2>4. Shape' /\ Kinds' /\ Asked'
      BY <1>1, <1>2, <1>4, <2>2 DEF Shape, Kinds, Asked, Agents, Decided
  <2>5. Waits' /\ Answered'
      BY <1>1, <1>2, <1>4, <2>2, <2>3 DEF Waits, Answered, Early
  <2>6. Untouched'
      BY <1>1, <1>2, <1>4, <2>1, <2>2 DEF Untouched, Before, Early
  <2>7. Positions'
      BY <1>2, <1>4, <2>1, <2>2, <2>3 DEF Positions, Known, Before, Early
  <2>8. FailsOnlyForCause'
      BY <1>4 DEF FailsOnlyForCause
  <2>. QED  BY <2>4, <2>5, <2>6, <2>7, <2>8 DEF IInv
<1>5. CASE /\ client.protocol = "socks5" \/ client.type = CONNECT
           /\ agent' = "reply"
           /\ UNCHANGED <<stream, buf, dst, replies, relayed, lost, dropped, refused>>
  <2>1. /\ stream' = stream /\ buf' = buf /\ dst' = dst /\ replies' = replies /\ relayed' = relayed
        /\ lost' = lost /\ dropped' = dropped /\ refused' = refused
      BY <1>5
  <2>2. Shape' /\ Kinds' /\ Asked'
      BY <1>1, <1>2, <1>3, <1>5, <2>1 DEF Shape, Kinds, Asked, Agents
  <2>3. Waits' /\ Answered'
      BY <1>1, <1>2, <1>5, <2>1 DEF Waits, Answered, Early
  <2>4. Untouched'
      BY <1>1, <1>2, <1>3, <1>5, <2>1 DEF Untouched, Before, Early
  <2>5. Positions'
    <3>1. Base(client, agent') = Base(client, agent)
        BY <1>2, <1>3, <1>5 DEF Base
    <3>. QED  BY <1>1, <1>2, <1>3, <2>1, <3>1 DEF Positions, Known
  <2>6. FailsOnlyForCause'
      BY <1>5 DEF FailsOnlyForCause
  <2>. QED  BY <2>2, <2>3, <2>4, <2>5, <2>6 DEF IInv
<1>6. CASE Fail /\ refused' = TRUE
  <2>1. agent' = "failed" /\ replies' = replies /\ lost' = lost /\ refused' \in BOOLEAN /\ cut' \in BOOLEAN
      BY <1>1, <1>2, <1>6 DEF Fail, Shape
  <2>2. FailsOnlyForCause'
      BY <1>6 DEF FailsOnlyForCause
  <2>. QED  BY <1>2, <2>1, <2>2, GivesUp
<1>. QED  BY <1>4, <1>5, <1>6 DEF AskProxy

\* The client is told.
LEMMA ReplyStep ==
    ASSUME IInv, Reply
    PROVE  IInv'
<1>1. /\ Shape /\ Kinds /\ Answered /\ Waits /\ Untouched /\ Positions /\ Asked
    BY DEF IInv
<1>2. /\ client' = client /\ written' = written /\ stream' = stream /\ closed' = closed /\ dst' = dst
      /\ relayed' = relayed /\ lost' = lost /\ cut' = cut /\ inside' = inside /\ refused' = refused
      /\ agent \in {"reply", "udp_reply"} /\ replies' = Append(replies, Answer)
      /\ agent' = IF agent = "udp_reply" THEN "udp_relay" ELSE "relay"
      /\ DropBuffer /\ buf' = <<>>
    BY DEF Reply, DropBuffer, clientVars
<1>3. written \in 0..3
  <2>1. written \in 0..Count(client) /\ Count(client) \in 1..3
      BY <1>1, MessageForm DEF Shape
  <2>. QED  BY ONLY <2>1
<1>4. replies = IF client.protocol = "socks5" THEN <<AuthReply>> ELSE <<>>
    BY <1>1, <1>2 DEF Answered
<1>5. /\ replies = <<>> => Len(replies) = 0 /\ replies' = <<Answer>> /\ Len(replies') = 1
      /\ replies = <<AuthReply>> => Len(replies) = 1 /\ replies' = <<AuthReply, Answer>> /\ Len(replies') = 2
  <2>1. replies' = Append(replies, Answer)
      BY <1>2
  <2>2. ASSUME replies = <<>> PROVE Len(replies) = 0 /\ replies' = <<Answer>> /\ Len(replies') = 1
    <3>1. Append(<<>>, Answer) = <<Answer>> /\ Len(<<Answer>>) = 1
        BY Tuples
    <3>. QED  BY ONLY <2>1, <2>2, <3>1, EmptyOctets
  <2>3. ASSUME replies = <<AuthReply>>
        PROVE  Len(replies) = 1 /\ replies' = <<AuthReply, Answer>> /\ Len(replies') = 2
    <3>1. /\ Append(<<AuthReply>>, Answer) = <<AuthReply, Answer>>
          /\ Len(<<AuthReply>>) = 1 /\ Len(<<AuthReply, Answer>>) = 2
        BY Tuples
    <3>2. Len(replies) = 1 /\ replies' = Append(<<AuthReply>>, Answer)
        BY ONLY <2>1, <2>3, <3>1
    <3>3. replies' = <<AuthReply, Answer>>
        BY ONLY <3>1, <3>2
    <3>. QED  BY <3>1, <3>2, <3>3
  <2>. QED  BY <2>2, <2>3
<1>6. CASE agent = "udp_reply"
  <2>1. agent' = "udp_relay" /\ client.protocol = "socks5" /\ Answer = InitReply(UdpBindAddress)
      BY <1>1, <1>2, <1>6 DEF Kinds, Answer
  <2>2. Shape' /\ Kinds' /\ Asked'
      BY <1>1, <1>2, <2>1 DEF Shape, Kinds, Asked, Agents, Decided
  <2>3. Answered'
      BY <1>4, <1>5, <2>1 DEF Answered, Early
  <2>4. Waits'
      BY <1>1, <1>2, <1>3, <1>4, <1>5, <1>6, <2>1 DEF Waits
  <2>5. Untouched'
      BY <1>1, <1>2, <2>1 DEF Untouched, Before, Early
  <2>6. Positions'
      BY <2>1 DEF Positions, Known, Before, Early
  <2>7. FailsOnlyForCause'
      BY <2>1 DEF FailsOnlyForCause
  <2>. QED  BY <2>2, <2>3, <2>4, <2>5, <2>6, <2>7 DEF IInv
<1>7. CASE agent = "reply"
  <2>1. /\ agent' = "relay" /\ client.protocol \in {"socks5", "http"}
        /\ client.protocol = "socks5" => Answer = InitReply(dst)
        /\ client.protocol = "http" => Answer = HttpEstablished /\ client.type = CONNECT
      BY <1>1, <1>2, <1>7 DEF Kinds, Answer
  <2>2. /\ lost = <<>> /\ ~inside =>
              /\ Held(dropped', <<>>, <<>>, stream)
              /\ Carries(client, Base(client, "relay"), dropped', <<>>, <<>>, stream, End(client, written))
        /\ ~client.eager => dropped' = <<>>
      BY <1>1, <1>2, <1>7, DropsHere
  <2>3. relayed = <<>>
      BY <1>1, <1>7 DEF Untouched, Before, Early
  <2>4. Shape' /\ Kinds' /\ Asked'
      BY <1>1, <1>2, <1>7, <2>1 DEF Shape, Kinds, Asked, Agents, Decided
  <2>5. Answered'
      BY <1>2, <1>4, <1>5, <2>1 DEF Answered, Early
  <2>6. Waits'
      BY <1>1, <1>2, <1>3, <1>4, <1>5, <1>7, <2>1 DEF Waits
  <2>7. Untouched'
      BY <1>1, <1>2, <2>1, <2>2 DEF Untouched, Before, Early
  <2>8. Positions'
      BY <1>2, <2>1, <2>2, <2>3 DEF Positions, Known, Before, Early
  <2>9. FailsOnlyForCause'
      BY <2>1 DEF FailsOnlyForCause
  <2>. QED  BY <2>4, <2>5, <2>6, <2>7, <2>8, <2>9 DEF IInv
<1>. QED  BY <1>2, <1>6, <1>7

\* The relay, or the udp association, reads.
LEMMA RelayStep ==
    ASSUME IInv, Relay
    PROVE  IInv'
<1>1. /\ Shape /\ Kinds /\ Answered /\ Waits /\ Untouched /\ Positions /\ Asked
    BY DEF IInv
<1>2. /\ client' = client /\ written' = written /\ closed' = closed /\ agent' = agent /\ buf' = buf
      /\ dst' = dst /\ replies' = replies /\ lost' = lost /\ dropped' = dropped
      /\ cut' = cut /\ inside' = inside /\ refused' = refused /\ agent \in {"relay", "udp_relay"}
    BY DEF Relay, clientVars
<1>3. PICK n \in 1..Len(stream) :
          /\ relayed' = IF agent = "relay" THEN relayed \o Prefix(stream, n) ELSE relayed
          /\ stream' = Skip(stream, n)
    BY DEF Relay
<1>4. Shape' /\ Kinds' /\ Asked'
    BY <1>1, <1>2 DEF Shape, Kinds, Asked
<1>5. Waits' /\ Answered'
    BY <1>1, <1>2 DEF Waits, Answered
<1>6. Untouched'
    BY <1>1, <1>2 DEF Untouched, Before, Early
<1>7. Positions'
  <2>1. SUFFICES ASSUME Known
                 PROVE  /\ Held(dropped, relayed', <<>>, stream')
                        /\ Carries(client, Base(client, agent), dropped, relayed', <<>>, stream', End(client, written))
    <3>1. buf = <<>>
        BY <1>1, <1>2 DEF Untouched
    <3>. QED  BY <1>2, <3>1 DEF Positions, Known
  <2>2. agent = "relay" /\ buf = <<>>
      BY <1>1, <1>2, <2>1 DEF Known, Before, Early, Untouched
  <2>3. /\ Held(dropped, relayed, <<>>, stream)
        /\ Carries(client, Base(client, agent), dropped, relayed, <<>>, stream, End(client, written))
      BY <1>1, <1>2, <2>1, <2>2 DEF Positions, Known
  <2>4. Base(client, agent) \in Nat
      BY <1>1, Ends DEF Base, Shape
  <2>5. relayed' = relayed \o Prefix(stream, n) /\ stream' = Skip(stream, n)
      BY <1>3, <2>2
  <2>. QED  BY ONLY n \in 1..Len(stream), <2>3, <2>4, <2>5, CarriesRelayed
<1>8. FailsOnlyForCause'
    BY <1>2 DEF FailsOnlyForCause
<1>. QED  BY <1>4, <1>5, <1>6, <1>7, <1>8 DEF IInv

-----------------------------------------------------------------------------
(* Theorems                                                                *)

\* Every reachable state has each byte of the client where its handler expects
\* it, unless a part of the request was lost with the first decoder, or an HTTP
\* request was fed to its decoder twice.
THEOREM Invariance == Spec => []IInv
<1>1. Init => IInv
  <2>. SUFFICES ASSUME Init PROVE IInv
      OBVIOUS
  <2>1. /\ client \in Clients /\ written = 0 /\ stream = <<>> /\ closed = FALSE /\ agent = "dispatch"
        /\ buf = <<>> /\ dst = <<>> /\ replies = <<>> /\ relayed = <<>> /\ lost = <<>> /\ dropped = <<>>
        /\ cut = FALSE /\ inside = FALSE /\ refused = FALSE
      BY DEF Init
  <2>2. Count(client) \in 1..3 /\ End(client, 0) = 0
      BY <2>1, MessageForm, Ends
  <2>3. Shape
    <3>1. written \in 0..Count(client)
        BY ONLY <2>1, <2>2
    <3>. QED  BY <2>1, <3>1 DEF Shape, Agents, Reading
  <2>4. Kinds /\ Asked /\ Untouched /\ FailsOnlyForCause
      BY <2>1 DEF Kinds, Asked, Untouched, FailsOnlyForCause
  <2>5. Answered
      BY <2>1 DEF Answered
  <2>6. Waits
      BY <2>1, EmptyOctets DEF Waits
  <2>7. Positions
    <3>. DEFINE z == <<>>
    <3>1. z \in Octets /\ Len(z) = 0 /\ \A k : At(client, k, z)
        BY EmptyOctets DEF At
    <3>2. Base(client, agent) = 0 /\ End(client, written) = 0
        BY <2>1, <2>2 DEF Base
    <3>3. dropped = z /\ relayed = z /\ buf = z /\ stream = z
        BY <2>1
    <3>. HIDE DEF z
    <3>. QED  BY <3>1, <3>2, <3>3 DEF Positions, Known, Held, Carries
  <2>. QED  BY <2>3, <2>4, <2>5, <2>6, <2>7 DEF IInv
<1>2. IInv /\ [Next]_vars => IInv'
    BY WritesStep, ClosesStep, StutterStep, EndsStep, ReceiveStep, DispatchStep, AuthenticateStep,
       AuthReplyStep, InitStep, HttpStep, ProxyStep, ReplyStep, RelayStep
    DEF Next, Handshake
<1>. QED  BY <1>1, <1>2, PTL DEF Spec

\* The handler and the client stay in their states, no answer is written twice,
\* and both relays start with an empty read buffer.
THEOREM TypeCorrect == Spec => []TypeOK
<1>1. IInv => TypeOK
  <2>. SUFFICES ASSUME IInv PROVE TypeOK
      OBVIOUS
  <2>1. Shape /\ Answered /\ Untouched
      BY DEF IInv
  <2>2. Len(Messages) = Count(client)
      BY <2>1, MessagesAre DEF Shape
  <2>3. Len(replies) <= 2
    <3>. DEFINE n == Len(replies)
    <3>1. n \in 0..2
        BY <2>1, RepliesLen
    <3>2. \A i \in 0..2 : i <= 2
        OBVIOUS
    <3>. HIDE DEF n
    <3>3. n <= 2
        BY <3>1, <3>2
    <3>. QED  BY <3>3 DEF n
  <2>. QED  BY <2>1, <2>2, <2>3 DEF TypeOK, Shape, Agents, Untouched
<1>. QED  BY <1>1, Invariance, PTL

\* A handshake fails or panics only for a cause outside the agent's bookkeeping
\* of read buffers: an unserved request, a refusal, a client that went away or
\* wrote ahead, or a message that tcp split where the decoders do not expect it,
\* which for HTTP is everywhere.
THEOREM CausedFailures == Spec => []FailsOnlyForCause
<1>1. IInv => FailsOnlyForCause
    BY DEF IInv
<1>. QED  BY <1>1, Invariance, PTL

\* The tunnel carries the client's data from the first byte on, but for a first
\* part that into_parts has dropped, which a client that waits never loses; the
\* exceptions are a request cut by into_parts and an HTTP request fed twice.
THEOREM TunnelData == Spec => []TunnelCarriesData
<1>1. IInv => TunnelCarriesData
  <2>. SUFFICES ASSUME IInv, agent = "relay"
                PROVE  /\ lost = <<>> /\ ~inside => IsPrefix(dropped \o relayed, Data)
                       /\ ~client.eager => lost = <<>> /\ dropped = <<>>
      BY DEF TunnelCarriesData
  <2>1. Shape /\ Kinds /\ Untouched /\ Positions /\ Asked
      BY DEF IInv
  <2>2. ~client.eager => lost = <<>> /\ dropped = <<>>
      BY <2>1 DEF Untouched
  <2>3. ASSUME lost = <<>>, ~inside PROVE IsPrefix(dropped \o relayed, Data)
    <3>. DEFINE b == Base(client, agent)
                e == End(client, written)
                x == dropped \o relayed
                k == IF client.protocol = "socks5" THEN 2 ELSE 1
    <3>1. Held(dropped, relayed, buf, stream) /\ Carries(client, b, dropped, relayed, buf, stream, e)
        BY <2>1, <2>3 DEF Positions, Known
    <3>2. /\ client \in Clients /\ client.protocol \in {"socks5", "http"}
          /\ client.protocol = "socks5" => client.type = CONNECT
          /\ written \in 0..Count(client)
        BY <2>1, <2>3 DEF Shape, Kinds, Asked
    <3>3. k \in 0..2 /\ k + 1 \in 1..3 /\ b = End(client, k) /\ Message(client, k + 1) = Data
        BY <3>2 DEF Base, Message
    <3>4. Count(client) = k + 1
        BY <3>2 DEF Count
    <3>5. End(client, k) \in Nat /\ End(client, k + 1) = End(client, k) + Len(Data) /\ Data \in Octets /\ Len(Data) \in Nat
      <4>1. k \in 0..3
          BY <3>3
      <4>. QED  BY <3>2, <3>3, <4>1, MessageForm
    <3>6. e <= End(client, k + 1) /\ e \in Nat
      <4>1. written \in 0..3 /\ (k = 1 => written <= 2)
          BY <3>2, <3>4
      <4>. QED  BY <3>2, <3>3, <4>1, EndGrows
    <3>. HIDE DEF b, e, k
    <3>7. /\ dropped \in Octets /\ relayed \in Octets
          /\ Len(dropped) \in Nat /\ Len(relayed) \in Nat /\ Len(buf) \in Nat /\ Len(stream) \in Nat
        BY <3>1, OctetsLen DEF Held
    <3>8. /\ At(client, b, dropped) /\ At(client, b + Len(dropped), relayed)
          /\ b + Len(dropped) + Len(relayed) + Len(buf) + Len(stream) = e
        BY <3>1 DEF Carries
    <3>9. x \in Octets /\ Len(x) = Len(dropped) + Len(relayed)
        BY <3>7, Concat
    <3>10. At(client, End(client, k), x)
        BY <3>3, <3>5, <3>7, <3>8, AtConcat
    <3>. HIDE DEF x
    <3>11. Begins(x, Data)
        BY <3>2, <3>3, <3>9, <3>10, AtMessage
    <3>12. Len(x) <= Len(Data)
        BY <3>3, <3>5, <3>6, <3>7, <3>8, <3>9
    <3>13. IsPrefix(x, Data)
        BY <3>5, <3>9, <3>11, <3>12, BeginsPrefix
    <3>. QED  BY <3>13 DEF x
  <2>. QED  BY <2>2, <2>3
<1>. QED  BY <1>1, Invariance, PTL

\* A client whose request reached its decoder is answered with whole SOCKS5
\* messages, and connected to the destination it has asked for.
THEOREM Answers == Spec => []AnswersTheRequest
<1>1. IInv => AnswersTheRequest
  <2>. SUFFICES ASSUME IInv, client.protocol = "socks5", lost = <<>>
                PROVE  /\ Len(replies) = 2 => ReplyLength(replies[2]) = Len(replies[2])
                       /\ agent = "relay" =>
                             /\ dst = client.address
                             /\ parse(Skip(replies[2], 3)) = Ok(client.address, <<>>)
      BY DEF AnswersTheRequest
  <2>1. Shape /\ Answered /\ Asked
      BY DEF IInv
  <2>2. client.address \in Socks5Address
      BY <2>1, ClientForm DEF Shape
  <2>3. UdpBindAddress \in Socks5Address
    <3>1. <<0, 0, 0, 0>> \in Bytes(4) /\ <<1, 0>> \in Bytes(2)
        BY DEF Bytes, Byte
    <3>. QED  BY <3>1 DEF UdpBindAddress, Address, Socks5Address
  <2>4. agent = "relay" => dst = client.address /\ client.address.host # ZeroName /\ replies[2] = InitReply(dst)
    <3>1. agent = "relay" => replies = <<AuthReply, InitReply(dst)>>
        BY <2>1 DEF Answered
    <3>2. agent = "relay" => replies[2] = InitReply(dst)
        BY <3>1, Tuples
    <3>. QED  BY <2>1, <3>2 DEF Asked
  <2>5. Len(replies) = 2 => replies[2] = InitReply(client.address) \/ replies[2] = InitReply(UdpBindAddress)
      BY <2>1, <2>4, RepliesLen
  <2>6. Len(replies) = 2 => ReplyLength(replies[2]) = Len(replies[2])
      BY <2>2, <2>3, <2>5, AnswerLength
  <2>7. agent = "relay" => parse(Skip(replies[2], 3)) = Ok(client.address, <<>>)
    <3>1. client.address.host # ZeroName => Renamed(client.address) = client.address
        BY DEF Renamed
    <3>2. parse(Skip(InitReply(client.address), 3)) = Ok(Renamed(client.address), <<>>)
        BY <2>2, AnswerAddress
    <3>. QED  BY <2>4, <3>1, <3>2
  <2>. QED  BY <2>4, <2>6, <2>7
<1>. QED  BY <1>1, Invariance, PTL

\* The packet of any client address and any payload is read back as it was, and
\* every part of its header is an error.
THEOREM PacketRoundTrip == Spec => []UdpPacketRoundTrip
<1>1. IInv => UdpPacketRoundTrip
  <2>. SUFFICES ASSUME IInv, client.protocol = "socks5" PROVE UdpPacketRoundTrip
      BY DEF UdpPacketRoundTrip
  <2>1. client.address \in Socks5Address
      BY ClientForm DEF IInv, Shape
  <2>2. Renamed(client.address) = client.address \/ client.address.host = ZeroName
      BY DEF Renamed
  <2>. QED  BY <2>1, <2>2, PacketBack DEF UdpPacketRoundTrip
<1>. QED  BY <1>1, Invariance, PTL
=============================================================================
