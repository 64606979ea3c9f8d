------------------------------ MODULE MCFirewall -----------------------------
(* An instance of Firewall: addresses of three bits, two of them the host's,  *)
(* this host 6 and its one peer 5.  Of the two blocks one is inside the other *)
(* and the wider one covers this host too.  The assumptions compare the       *)
(* functions of module Packet with what they are for.                         *)
EXTENDS Firewall

MCRequests ==
    {[allow |-> TRUE, direction |-> FW_IN, proto |-> UDP, port |-> 7, from |-> <<5, 3>>, to |-> Everything],
     [allow |-> FALSE, direction |-> FW_IN, proto |-> ANY, port |-> 0, from |-> Everything, to |-> Everything],
     [allow |-> FALSE, direction |-> FW_OUT, proto |-> UDP, port |-> 0, from |-> Everything, to |-> <<5, 2>>]}
MCBlockRequests == {<<5, 3>>, <<7, 1>>}

From(src, proto, dport) ==
    [src |-> src, dst |-> 6, proto |-> proto, sport |-> IF proto = ICMP THEN 0 ELSE 9, dport |-> dport,
     local |-> TRUE, valid |-> TRUE, request |-> proto = ICMP]
MCFrames ==
    {From(5, UDP, 7), From(5, UDP, 8), From(5, ICMP, 0), From(5, TCP, 8), From(1, UDP, 7),
     [From(5, ICMP, 0) EXCEPT !.request = FALSE], [From(5, UDP, 7) EXCEPT !.valid = FALSE]}
MCSegments == {[src |-> 6, dst |-> 5, proto |-> TCP, sport |-> 8, dport |-> 9]}

(* No step depends on the counters or on what the last step sent.             *)
MCView == <<rules, enabled, defaults, echo>>
-----------------------------------------------------------------------------
(* net/packet.c.                                                              *)
P == INSTANCE Packet

Texts(chars, n) == UNION {[1 .. k -> chars] : k \in 0 .. n}
Digits(text) == \A k \in DOMAIN text : P!IsDigit(text[k])

\* net_number reads decimal numbers up to its maximum and nothing else, and no
\* step of it passes the maximum: 0, 1, 2, 5, 9 and the characters next to digits.
Value(text) == LET v[k \in 0 .. Len(text)] == IF k = 0 THEN 0 ELSE v[k - 1] * 10 + (text[k] - 48)
               IN v[Len(text)]
ASSUME NumberExact ==
    \A text \in Texts({47, 48, 49, 50, 53, 57, 58}, 4), maximum \in {0, 5, 10, 32, 255, 999} :
        P!net_number(text, maximum) =
            IF text # <<>> /\ Digits(text) /\ Value(text) <= maximum THEN Value(text) ELSE -1

\* net_cidr accepts exactly four numbers of at most three digits with dots between
\* them, and a prefix length or nothing behind them (the only digit here is 0).
Separators(text) == SelectSeq(text, LAMBDA c : c # 48)
Networks(text) ==
    /\ Separators(text) \in {<<46, 46, 46>>, <<46, 46, 46, 47>>}
    /\ \A k \in DOMAIN text : text[k] # 48 =>
        k > 1 /\ k < Len(text) /\ text[k - 1] = 48 /\ text[k + 1] = 48
    /\ \A k \in 1 .. Len(text) - 3 : SubSeq(text, k, k + 3) # <<48, 48, 48, 48>>
ASSUME CidrAccepts ==
    \A n \in 6 .. 10 : \A text \in [1 .. n -> {48, 46, 47}] :
        P!net_cidr(text).valid = Networks(text)

\* The mask has the prefix's number of ones from the left, and the address keeps
\* exactly those bits.
Written(n) == IF n < 10 THEN <<48 + n>> ELSE IF n < 100 THEN <<48 + (n \div 10), 48 + (n % 10)>>
              ELSE <<48 + (n \div 100), 48 + ((n \div 10) % 10), 48 + (n % 10)>>
BitOf(a, i) == (a[1 + i \div 8] \div 2 ^ (7 - (i % 8))) % 2
ASSUME CidrExact ==
    \A a \in {<<192, 0, 2, 255>>, <<255, 171, 85, 1>>}, n \in 0 .. 33 :
        LET c == P!net_cidr(Written(a[1]) \o <<46>> \o Written(a[2]) \o <<46>> \o Written(a[3])
                            \o <<46>> \o Written(a[4]) \o <<47>> \o Written(n))
        IN IF n > 32 THEN ~ c.valid
           ELSE \A i \in 0 .. 31 : /\ BitOf(c.mask, i) = IF i < n THEN 1 ELSE 0
                                   /\ BitOf(c.address, i) = IF i < n THEN BitOf(a, i) ELSE 0

\* The checksum is the one that makes the sum of all bytes, those in front counting
\* 256, a multiple of 65535, and all ones only if every byte is zero.
Total(p) == LET t[k \in 0 .. Len(p)] == IF k = 0 THEN 0 ELSE t[k - 1] + p[k] * (IF k % 2 = 1 THEN 256 ELSE 1)
            IN t[Len(p)]
ASSUME ChecksumExact ==
    \A p \in Texts({0, 1, 128, 255}, 5), sum \in {0, 65534, 65535, 131071} :
        /\ P!net_checksum(p, sum) \in 0 .. 65535
        /\ (P!net_checksum(p, sum) + sum + Total(p)) % 65535 = 0
        /\ P!net_checksum(p, sum) = 65535 <=> sum + Total(p) = 0

\* Packets of a peer, with data of odd and even length.
Peer == <<192, 0, 2, 9>>
Header(proto, size) ==
    P!Checksummed(<<69, 0, 0, 20 + size, 1, 2, 64, 0, 9, proto, 0, 0>> \o Peer \o P!HostIp, 10)
Icmp(data) == Header(1, 8 + Len(data)) \o P!Checksummed(<<8, 0, 0, 0, 7, 0, 0, 1>> \o data, 2)
Udp(data) == Header(17, 8 + Len(data)) \o <<200, 1, 30, 97, 0, 8 + Len(data), 0, 0>> \o data
Summed(ip, at) ==
    LET size == Len(ip) - 20
    IN P!net_write16(ip, 20 + at,
                     P!net_checksum(SubSeq(ip, 21, Len(ip)), P!Pseudo(ip, size)))
MCRequestsIp == {Icmp(<<>>), Icmp(<<255, 255, 3>>), Udp(<<>>), Summed(Udp(<<0, 254, 255>>), 6)}
MCPackets == MCRequestsIp \cup
    {Summed(Header(6, 21) \o <<31, 64, 200, 1, 0, 0, 0, 1, 0, 0, 0, 2, 80, 16, 4, 0, 0, 0, 0, 0, 9>>, 16)}

\* A packet is decoded whatever follows it, and is refused when any one of its
\* bytes is damaged, if its body has a checksum.
ASSUME DecodeExact ==
    \A ip \in MCPackets :
        /\ P!net_decode(ip).valid /\ P!net_decode(ip \o <<1, 2>>) = P!net_decode(ip)
        /\ \A k \in DOMAIN ip, b \in {0, 1, 6, 17, 69, 128, 255} :
            b # ip[k] /\ (k <= 20 \/ ip # Udp(<<>>)) => ~ P!net_decode([ip EXCEPT ![k] = b]).valid
        /\ \A n \in 1 .. Len(ip) - 1 : ~ P!net_decode(SubSeq(ip, 1, n)).valid

\* The answer that net_receive builds in place is always a valid packet from this
\* host to the sender, with the ports exchanged (Firewall's Answer), with
\* the request's data, and an echo reply for an echo request.
ASSUME AnswersDecode ==
    \A ip \in MCRequestsIp :
        LET p == P!net_decode(ip)
            a == P!net_decode(P!Answer(ip))
        IN /\ a = [p EXCEPT !.source = P!HostIp, !.destination = p.source,
                            !.source_port = p.destination_port, !.destination_port = p.source_port]
           /\ SubSeq(P!Answer(ip), 29, Len(ip)) = SubSeq(ip, 29, Len(ip))
           /\ p.protocol = P!NET_ICMP => P!Answer(ip)[21] = 0
=============================================================================
