-------------------------------- MODULE Packet --------------------------------
(***************************************************************************)
(* The pure functions of net/packet.c, and the rewriting of a request into *)
(* its answer in net/network.c, over sequences of bytes and of characters. *)
(* An address or a mask is its four bytes.  A number of sixteen bits is an *)
(* integer; the sums of net_checksum stay far below 2^32 for a packet of   *)
(* at most 1500 bytes.  Module Firewall takes a frame that is valid or not *)
(* and an answer; MCFirewall checks what these functions contribute.       *)
(***************************************************************************)
EXTENDS Integers, Sequences, SequencesExt

HostIp == <<192, 0, 2, 2>>
NET_ICMP == 1
NET_TCP == 6
NET_UDP == 17

\* The 16-bit number at an offset, and its bytes.
net_read16(p, at) == 256 * p[at + 1] + p[at + 2]
Bytes16(n) == <<n \div 256, n % 256>>
Plus(m, n) == m + n

\* net_checksum: the words' sum, a last odd byte as the high half of a word, with
\* the carries added until there is none; complemented.
Words(p) ==
    [k \in 1 .. (Len(p) + 1) \div 2 |-> 256 * p[2 * k - 1] + IF 2 * k <= Len(p) THEN p[2 * k] ELSE 0]
carried[sum \in Nat] ==
    IF sum <= 65535 THEN sum ELSE carried[(sum % 65536) + (sum \div 65536)]
net_checksum(p, sum) == 65535 - carried[FoldLeft(Plus, sum, Words(p))]

\* net_decode.
ValidHeader(ip) ==
    /\ Len(ip) \in 20 .. 1500 /\ ip[1] = 69 /\ ip[9] # 0
    /\ net_read16(ip, 6) \in {0, 16384}      \* no fragment; bit 14 is "don't fragment"
    /\ net_checksum(SubSeq(ip, 1, 20), 0) = 0
    /\ net_read16(ip, 2) \in 20 .. Len(ip)
Pseudo(ip, size) ==
    FoldLeft(Plus, ip[10] + size, Words(SubSeq(ip, 13, 20)))
ValidBody(proto, body, pseudo) ==
    LET size == Len(body) IN
    \/ proto = NET_ICMP /\ size >= 8 /\ net_checksum(body, 0) = 0
    \/ /\ proto = NET_UDP /\ size >= 8 /\ net_read16(body, 4) = size
       /\ net_read16(body, 6) = 0 \/ net_checksum(body, pseudo) = 0
    \/ /\ proto = NET_TCP /\ size >= 20 /\ body[13] \div 16 >= 5
       /\ (body[13] \div 16) * 4 <= size /\ net_checksum(body, pseudo) = 0

Invalid == [valid |-> FALSE]
net_decode(ip) ==
    LET length == net_read16(ip, 2)
        body == SubSeq(ip, 21, length)
        port(at) == IF ip[10] = NET_ICMP THEN 0 ELSE net_read16(body, at)
    IN IF ~ ValidHeader(ip) THEN Invalid
       ELSE IF ~ ValidBody(ip[10], body, Pseudo(ip, length - 20)) THEN Invalid
       ELSE [valid |-> TRUE, source |-> SubSeq(ip, 13, 16), destination |-> SubSeq(ip, 17, 20),
             source_port |-> port(0), destination_port |-> port(2),
             length |-> length, protocol |-> ip[10]]

-----------------------------------------------------------------------------
(* The answer of net_receive to an ICMP echo request or a UDP packet.      *)

net_write16(p, at, n) == [p EXCEPT ![at + 1] = n \div 256, ![at + 2] = n % 256]
Checksummed(p, at) ==
    LET cleared == net_write16(p, at, 0) IN net_write16(cleared, at, net_checksum(cleared, 0))

AnswerBody(p, body) ==
    IF p.protocol = NET_ICMP THEN Checksummed([body EXCEPT ![1] = 0], 2)
    ELSE net_write16(net_write16(net_write16(body, 0, p.destination_port), 2, p.source_port), 6, 0)
AnswerHeader(p, header) ==
    Checksummed([SubSeq(header, 1, 12) EXCEPT ![9] = 64] \o HostIp \o p.source, 10)
Answer(ip) ==
    LET p == net_decode(ip)
    IN AnswerHeader(p, SubSeq(ip, 1, 20)) \o AnswerBody(p, SubSeq(ip, 21, p.length))
-----------------------------------------------------------------------------
(* Numbers and networks as text.                                           *)

DOT == 46
SLASH == 47
IsDigit(c) == c \in 48 .. 57

\* net_number; NoNumber where it returns false.
NoNumber == -1
Appended(n, c, maximum) ==
    LET digit == c - 48
    IN IF n = NoNumber \/ ~ IsDigit(c) \/ digit > maximum \/ n > (maximum - digit) \div 10
       THEN NoNumber ELSE n * 10 + digit
net_number(text, maximum) ==
    IF text = <<>> THEN NoNumber ELSE FoldLeft(LAMBDA n, c : Appended(n, c, maximum), 0, text)

\* net_cidr: an octet is taken from the text that is left, with its dot unless it
\* is the last.
Octet(s, last) ==
    LET other == SelectInSeq(s.rest, LAMBDA c : ~ IsDigit(c))
        n == IF other = 0 THEN Len(s.rest) ELSE other - 1
        value == net_number(SubSeq(s.rest, 1, n), 255)
        after == SubSeq(s.rest, n + 1, Len(s.rest))
    IN IF ~ s.valid \/ n > 3 \/ value = NoNumber \/ (~ last /\ (after = <<>> \/ after[1] # DOT))
       THEN [s EXCEPT !.valid = FALSE]
       ELSE [valid |-> TRUE, ip |-> Append(s.ip, value), rest |-> IF last THEN after ELSE Tail(after)]

\* The mask's bytes, and an address under it.
MaskBits(prefix, k) == IF prefix <= 8 * k THEN 0 ELSE IF prefix >= 8 * k + 8 THEN 8 ELSE prefix - 8 * k
Mask(prefix) == [k \in 1 .. 4 |-> 256 - 2 ^ (8 - MaskBits(prefix, k - 1))]
Masked(ip, prefix) == [k \in 1 .. 4 |-> ip[k] - (ip[k] % 2 ^ (8 - MaskBits(prefix, k - 1)))]
net_cidr(text) ==
    LET s == FoldLeft(Octet, [valid |-> TRUE, ip |-> <<>>, rest |-> text],
                      <<FALSE, FALSE, FALSE, TRUE>>)
        prefix == IF s.rest = <<>> THEN 32
                  ELSE IF s.rest[1] = SLASH THEN net_number(Tail(s.rest), 32) ELSE NoNumber
    IN IF ~ s.valid \/ prefix = NoNumber THEN Invalid
       ELSE [valid |-> TRUE, address |-> Masked(s.ip, prefix), mask |-> Mask(prefix)]
=============================================================================
