------------------------------- MODULE Firewall -------------------------------
(***************************************************************************)
(* The packet filter of jordyOS: the rule list and its commands            *)
(* (net/firewall.c, net/command.c), the maps that are built from it for    *)
(* every packet (net/fw_bpf.c), the two eBPF programs that read the maps,  *)
(* and the path of a received frame (net/network.c).                       *)
(*                                                                         *)
(* The programs are modelled by what their source says; the interpreter    *)
(* that runs them is not part of this module, and they are taken to pass   *)
(* its validation.  The early program and the matcher come from a          *)
(* submodule; they are modelled from the maps they are given.  Addresses   *)
(* have AddrBits bits (32), the host part HostBits (8), counters are       *)
(* modulo Wrap (2^32).                                                     *)
(*                                                                         *)
(* Left out: frames that are too short or too long, the statistics that    *)
(* only status commands print, and ARP, which passes no rule.              *)
(*                                                                         *)
(* D_bug is definition D with a slip in it; see README.md.                 *)
(***************************************************************************)
EXTENDS Powers, Sequences, FiniteSets, FiniteSetsExt

CONSTANTS
    FW_RULES, AddrBits, HostBits, Wrap,
    NET_IP,             \* this host
    EchoPort,           \* of the UDP echo service (7777)
    Requests,           \* ordinary rules as commands ask for them
    BlockRequests,      \* networks to block
    Frames,             \* IPv4 frames that may arrive
    Segments            \* TCP packets the host may send

Space == Pow2[AddrBits]
Addresses == 0 .. Space - 1
Cidrs == Addresses \X (0 .. AddrBits)      \* an address and a prefix length
FW_IN == 1
FW_OUT == 2
Directions == {FW_IN, FW_OUT}
ANY == "any"
ICMP == "icmp"
TCP == "tcp"
UDP == "udp"

ASSUME FirewallAssumption ==
    /\ FW_RULES \in Nat \ {0} /\ AddrBits \in Nat /\ HostBits \in 0 .. AddrBits
    /\ Wrap \in Nat \ {0, 1}
    /\ NET_IP \in Addresses
    /\ BlockRequests \subseteq Cidrs
    /\ \A q \in Requests : /\ q.proto \in {ANY, ICMP, TCP, UDP} /\ q.direction \in Directions
                           /\ q.allow \in BOOLEAN /\ q.from \in Cidrs /\ q.to \in Cidrs
                           /\ q.port \in Nat /\ (q.port # 0 => q.proto \in {TCP, UDP})
    /\ \A p \in Frames \cup Segments : p.src \in Addresses /\ p.dst \in Addresses

VARIABLES
    rules, enabled, defaults, allowed, denied,  \* native_firewall
    echo,                                       \* native_network.echo
    wire                                        \* the packets the last step sent

policy == <<rules, enabled, defaults>>
counters == <<allowed, denied>>
vars == <<policy, counters, echo, wire>>

Zero == [d \in Directions |-> 0]
Next1(n) == (n + 1) % Wrap

\* fw_reset
Init ==
    /\ rules = <<>> /\ enabled = FALSE
    /\ defaults = [d \in Directions |-> d = FW_OUT]
    /\ allowed = Zero /\ denied = Zero
    /\ echo = FALSE /\ wire = {}
-----------------------------------------------------------------------------
(* The commands.  One that is refused or malformed changes nothing.        *)

\* net_cidr: the mask and the network of an address with a prefix length.
Mask(n) == Space - Pow2[AddrBits - n]
Network(a, n) == a - (a % Pow2[AddrBits - n])

Rule(block, allow, direction, proto, port, from, to) ==
    [block |-> block, allow |-> allow, direction |-> direction, proto |-> proto,
     port |-> port, hits |-> 0,
     source |-> Network(from[1], from[2]), source_mask |-> Mask(from[2]),
     destination |-> Network(to[1], to[2]), destination_mask |-> Mask(to[2])]
Everything == <<0, 0>>
BlockRule(c) == Rule(TRUE, FALSE, FW_IN, ANY, 0, c, Everything)
OrdinaryRule(q) == Rule(FALSE, q.allow, q.direction, q.proto, q.port, q.from, q.to)

\* fw_add, fw_delete
HasRoom == Len(rules) < FW_RULES
FwAdd(r) == rules' = IF HasRoom THEN Append(rules, r) ELSE rules
FwDelete(n) ==
    rules' = [i \in 1 .. Len(rules) - 1 |-> IF i < n THEN rules[i] ELSE rules[i + 1]]

Block == (\E c \in BlockRequests : FwAdd(BlockRule(c)))
         /\ UNCHANGED <<enabled, defaults, counters, echo>>
Add == (\E q \in Requests : FwAdd(OrdinaryRule(q)))
       /\ UNCHANGED <<enabled, defaults, counters, echo>>
Delete == (\E n \in 1 .. Len(rules) : FwDelete(n))
          /\ UNCHANGED <<enabled, defaults, counters, echo>>
Enable == enabled' = TRUE /\ UNCHANGED <<rules, defaults, counters, echo>>
Disable == enabled' = FALSE /\ UNCHANGED <<rules, defaults, counters, echo>>
Default == /\ \E d \in Directions, allow \in BOOLEAN : defaults' = [defaults EXCEPT ![d] = allow]
           /\ UNCHANGED <<rules, enabled, counters, echo>>
Reset == /\ rules' = <<>> /\ enabled' = FALSE
         /\ defaults' = [d \in Directions |-> d = FW_OUT]
         /\ allowed' = Zero /\ denied' = Zero /\ UNCHANGED echo
Echo == echo' \in BOOLEAN /\ UNCHANGED <<policy, counters>>
-----------------------------------------------------------------------------
(* The maps that prepare builds, and the programs that read them.          *)

\* bits: how often the mask can be shifted before nothing of it is left.
bits[mask \in Addresses] == IF mask = 0 THEN 0 ELSE 1 + bits[(2 * mask) % Space]

InPrefix(a, net, n) == a \div Pow2[AddrBits - n] = net \div Pow2[AddrBits - n]

\* Where prepare puts a rule in the policy map: blocks first, then the others,
\* each in the order of the list; index stays the place in the list.
Placed(i, b) == Cardinality({j \in 1 .. i : rules[j].block = b})
Position_ListOrder(i) == i
Position(i) == IF rules[i].block THEN Placed(i, TRUE)
               ELSE Placed(Len(rules), TRUE) + Placed(i, FALSE)

\* A rule as the policy map holds it: direction 0 is both.
Entry(i) ==
    [action |-> IF rules[i].block THEN "BLOCK" ELSE IF rules[i].allow THEN "ALLOW" ELSE "DENY",
     direction |-> IF rules[i].block THEN 0 ELSE rules[i].direction,
     proto |-> rules[i].proto, port |-> rules[i].port,
     src |-> rules[i].source, src_bits |-> bits[rules[i].source_mask],
     dst |-> rules[i].destination, dst_bits |-> bits[rules[i].destination_mask],
     index |-> i]

PolicyMap == [k \in 1 .. Len(rules) |-> Entry(CHOOSE i \in 1 .. Len(rules) : Position(i) = k)]

\* matches
Matches(r, p, d) ==
    /\ r.direction \in {0, d} /\ r.proto \in {ANY, p.proto} /\ r.port \in {0, p.dport}
    /\ InPrefix(p.src, r.src, r.src_bits) /\ InPrefix(p.dst, r.dst, r.dst_bits)

\* jordyos_policy: the first entry that matches decides and is counted.  hit is
\* the rule whose counter moves, zero for none.
Policy(p, d) ==
    LET found == {k \in 1 .. Len(rules) : Matches(PolicyMap[k], p, d)} IN
    IF ~ enabled THEN [pass |-> TRUE, hit |-> 0]
    ELSE IF found = {} THEN [pass |-> defaults[d], hit |-> 0]
    ELSE LET r == PolicyMap[Min(found)] IN [pass |-> r.action = "ALLOW", hit |-> r.index]

\* The early program: the longest blocked prefix of the source, and of equally
\* long ones the first (lookup).
Blocked_DestinationBits(a) == {i \in 1 .. Len(rules) :
                 rules[i].block /\ InPrefix(a, rules[i].source, bits[rules[i].destination_mask])}
Blocked(a) == {i \in 1 .. Len(rules) :
                 rules[i].block /\ InPrefix(a, rules[i].source, bits[rules[i].source_mask])}
Longest_First(i, s) == \A j \in s : i <= j
Longest(i, s) ==
    \A j \in s : \/ bits[rules[j].source_mask] < bits[rules[i].source_mask]
                 \/ bits[rules[j].source_mask] = bits[rules[i].source_mask] /\ i <= j
Xdp(a) ==
    IF ~ enabled \/ Blocked(a) = {} THEN [pass |-> TRUE, hit |-> 0]
    ELSE [pass |-> FALSE, hit |-> CHOOSE i \in Blocked(a) : Longest(i, Blocked(a))]
-----------------------------------------------------------------------------
(* A received frame, and a segment that is sent.                           *)

\* finish: the hits of a decision are added to the rule's.
Hit(rs, v) == [i \in DOMAIN rs |-> IF i = v.hit THEN [rs[i] EXCEPT !.hits = Next1(@)] ELSE rs[i]]

\* fw_accept: the decision is counted.
Counted(v, d) ==
    IF v.pass THEN allowed' = [allowed EXCEPT ![d] = Next1(@)] /\ UNCHANGED denied
    ELSE denied' = [denied EXCEPT ![d] = Next1(@)] /\ UNCHANGED allowed

\* peer_ip: of this subnet, the host part neither all zeros, all ones nor ours.
PeerIp(a) == /\ a \div Pow2[HostBits] = NET_IP \div Pow2[HostBits]
             /\ a % Pow2[HostBits] \notin {0, Pow2[HostBits] - 1} /\ a # NET_IP

\* The checks of net_receive between the early program and the policy.
Accepted(f) == f.local /\ f.valid /\ f.dst = NET_IP /\ PeerIp(f.src)
Decided(f) == Xdp(f.src).pass /\ Accepted(f)

\* An echo request, and its answer.
Answers(f) == (f.proto = ICMP /\ f.request) \/ (f.proto = UDP /\ f.dport = EchoPort /\ echo)
Answer(f) == [src |-> NET_IP, dst |-> f.src, proto |-> f.proto, sport |-> f.dport, dport |-> f.sport]

\* The early program drops the frame.
ReceiveDropped(f) ==
    /\ ~ Xdp(f.src).pass
    /\ rules' = Hit(rules, Xdp(f.src)) /\ denied' = [denied EXCEPT ![FW_IN] = Next1(@)]
    /\ wire' = {} /\ UNCHANGED <<enabled, defaults, allowed, echo>>
\* It passes the early program but is not for this host, malformed, or not a peer's.
ReceiveIgnored(f) ==
    /\ Xdp(f.src).pass /\ ~ Accepted(f)
    /\ wire' = {} /\ UNCHANGED <<policy, counters, echo>>
\* No answer: the packet is denied, or TCP's (what that sends are Send steps), or
\* nobody's.
ReceiveInput(f) ==
    /\ Decided(f) /\ (~ Policy(f, FW_IN).pass \/ ~ Answers(f))
    /\ rules' = Hit(rules, Policy(f, FW_IN)) /\ Counted(Policy(f, FW_IN), FW_IN)
    /\ wire' = {} /\ UNCHANGED <<enabled, defaults, echo>>
\* The answer passes the policy of outgoing packets before it is sent.
Sent_Unchecked(p) == {p}
Sent(p) == IF Policy(p, FW_OUT).pass THEN {p} ELSE {}
ReceiveAnswered(f) ==
    /\ Decided(f) /\ Policy(f, FW_IN).pass /\ Answers(f)
    /\ rules' = Hit(Hit(rules, Policy(f, FW_IN)), Policy(Answer(f), FW_OUT))
    /\ wire' = Sent(Answer(f))
    /\ LET out == IF Policy(Answer(f), FW_OUT).pass THEN 1 ELSE 0 IN
       /\ allowed' = [allowed EXCEPT ![FW_IN] = Next1(@), ![FW_OUT] = (@ + out) % Wrap]
       /\ denied' = [denied EXCEPT ![FW_OUT] = (@ + 1 - out) % Wrap]
    /\ UNCHANGED <<enabled, defaults, echo>>

Receive(f) == ReceiveDropped(f) \/ ReceiveIgnored(f) \/ ReceiveInput(f) \/ ReceiveAnswered(f)

\* send_to of net/tcp_native.c
Send(p) ==
    /\ rules' = Hit(rules, Policy(p, FW_OUT)) /\ Counted(Policy(p, FW_OUT), FW_OUT)
    /\ wire' = Sent(p) /\ UNCHANGED <<enabled, defaults, echo>>

Command == /\ Block \/ Add \/ Delete \/ Enable \/ Disable \/ Default \/ Reset \/ Echo
           /\ wire' = {}
Next == \/ Command
        \/ \E f \in Frames : Receive(f)
        \/ \E p \in Segments : Send(p)

Spec == Init /\ [][Next]_vars
-----------------------------------------------------------------------------
(* What the commands mean, said of the rule list itself and of ranges of   *)
(* addresses: no maps, no prefixes, no programs.                           *)

Holds(net, mask, a) == a \in net .. net + (Space - mask) - 1
Blocks(a) == {i \in DOMAIN rules : rules[i].block /\ Holds(rules[i].source, rules[i].source_mask, a)}
Applies(i, p, d) ==
    LET r == rules[i] IN
    /\ ~ r.block /\ r.direction = d
    /\ r.proto = ANY \/ (r.proto = p.proto /\ (r.port = 0 \/ r.port = p.dport))
    /\ Holds(r.source, r.source_mask, p.src) /\ Holds(r.destination, r.destination_mask, p.dst)
Ordinary(p, d) == {i \in DOMAIN rules : Applies(i, p, d)}
Allowed(p, d) ==
    enabled => /\ Blocks(p.src) = {}
               /\ IF Ordinary(p, d) = {} THEN defaults[d] ELSE rules[Min(Ordinary(p, d))].allow

\* The rule that decides about a packet (a set of at most one).
First(s) == IF s = {} THEN {} ELSE {Min(s)}
Decides(p, d) == First(IF Blocks(p.src) # {} THEN Blocks(p.src) ELSE Ordinary(p, d))
Narrowest(s) == {i \in s : \A j \in s : rules[j].source_mask <= rules[i].source_mask}

In(i, s) == IF i \in s THEN 1 ELSE 0

Packets == Frames \cup {Answer(f) : f \in Frames} \cup Segments

\* The shape of the state: the rule table never holds more than FW_RULES rules.
TypeOK ==
    /\ rules \in Seq([block : BOOLEAN, allow : BOOLEAN, direction : Directions,
                      proto : {ANY, ICMP, TCP, UDP}, port : Nat, hits : 0 .. Wrap - 1,
                      source : Addresses, source_mask : Addresses,
                      destination : Addresses, destination_mask : Addresses])
    /\ Len(rules) <= FW_RULES
    /\ enabled \in BOOLEAN /\ echo \in BOOLEAN /\ defaults \in [Directions -> BOOLEAN]
    /\ allowed \in [Directions -> 0 .. Wrap - 1] /\ denied \in [Directions -> 0 .. Wrap - 1]
    /\ Cardinality(wire) <= 1

\* No sequence of commands lets the list outgrow the maps, and the verdict the
\* policy program reaches over the maps prepare builds is the
\* one the rule list stands for: any block that covers the source denies, in
\* both directions and wherever it stands in the list; otherwise the first
\* ordinary rule that applies, otherwise the default (net/README.md).
VerdictIsReference ==
    /\ Len(rules) <= FW_RULES
    /\ \A p \in Packets, d \in Directions : Policy(p, d).pass = Allowed(p, d)

\* The two programs read two maps built from the same rules, and they agree:
\* the early program drops a source exactly when some block of the list covers
\* it, so a packet that reaches the incoming policy is never decided by a block.
ProgramsAgree ==
    \A p \in Packets :
        /\ Xdp(p.src).pass = (enabled => Blocks(p.src) = {})
        /\ Xdp(p.src).pass /\ Policy(p, FW_IN).hit # 0 => ~ rules[Policy(p, FW_IN).hit].block

\* A hit is counted by the rule of the list that decided, although the policy
\* map holds the rules in another order and a deletion moves them: for a frame
\* that is dropped early the narrowest block, the first of several; for others
\* the rule that decided, once for the packet and once for its answer.
HitsAreAttributed ==
    [][\A f \in Frames : Receive(f) /\ enabled =>
        LET early == First(Narrowest(Blocks(f.src)))
            input == IF early = {} /\ Accepted(f) THEN Decides(f, FW_IN) ELSE {}
            output == IF Accepted(f) /\ Allowed(f, FW_IN) /\ Answers(f)
                      THEN Decides(Answer(f), FW_OUT) ELSE {}
        IN \A i \in DOMAIN rules :
            rules'[i].hits = (rules[i].hits + In(i, early) + In(i, input) + In(i, output)) % Wrap]_vars

\* Nothing is sent that the rules forbid: a packet leaves only if it may go out,
\* and an answer only if what it answers was let in.
SendsAllowed ==
    [][\A p \in wire' :
        /\ Allowed(p, FW_OUT)
        /\ \/ p \in Segments
           \/ \E f \in Frames : Answer(f) = p /\ Answers(f) /\ Accepted(f) /\ Allowed(f, FW_IN)]_vars
=============================================================================
