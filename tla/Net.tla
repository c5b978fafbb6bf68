-------------------------------- MODULE Net --------------------------------
(***************************************************************************)
(* The network stack: Ethernet framework (net/dll/eth.c), ARP, IP, ICMP    *)
(* and UDP (net/dll/arp.c, net/trans), from the frame the driver hands up  *)
(* to the frame it is given to send. A packet is a Pkt buffer whose cells  *)
(* are headers; what matters is who holds it, who frees it, and what it    *)
(* says when it goes out.                                                  *)
(*                                                                         *)
(* Three parties run: the driver's interrupt handler, the receive task and *)
(* the transmit task. They share only the two packet queues, so a handler  *)
(* of the receive task is one action. Queue operations are taken as atomic *)
(* here although the code locks nothing around them.                       *)
(***************************************************************************)
EXTENDS Pkt, FiniteSets, SequencesExt

CONSTANTS
    Pkts,       \* the packets there is memory for
    NULL,       \* no packet, no address
    Frames,     \* bound: the frames that arrive, as sequences of cells
    OurMac, Bcast,
    OurIps,     \* addresses of the interface, the first one first
    Reachable   \* addresses some route matches

VARIABLES
    pkt,        \* the packets: NULL where the memory is free
    rxq, txq,   \* the interface's queues, from their heads
    hand,       \* the packet the receive task is processing, or NULL
    rx,         \* where the receive task is
    cache,      \* arp_cache_list, from its head
    cut         \* history: queued packets that lack a header

vars == <<pkt, rxq, txq, hand, rx, cache, cut>>
queues == <<rxq, txq, cut>>

RxAt == {"drain", "handle", "leave", "asleep"}
Free(p) == pkt[p] = NULL

-----------------------------------------------------------------------------
(* Headers. ok: the checks that look at nothing else in the packet pass. *)

EthHdr(dst, src, type) == [k |-> "eth", dst |-> dst, src |-> src, type |-> type]
ArpMsg(op, sha, spa, tha, tpa) ==
    [k |-> "arp", ok |-> TRUE, op |-> op, sha |-> sha, spa |-> spa, tha |-> tha, tpa |-> tpa]
IpHdr(ihl, len, proto, src, dst) ==
    [k |-> "ip", ok |-> TRUE, ihl |-> ihl, len |-> len, proto |-> proto, src |-> src, dst |-> dst]

IcmpMsg(type, cksum, rest) ==
    [k |-> "icmp", type |-> type, cksum |-> cksum, rest |-> rest]

\* What arrives is laid out as its types say: an ARP message
\* names its sender; an ICMP message is behind the options of its IP
\* header, within the length the header states (which no handler checks).
ArpShaped(f) == f[2].k = "arp" /\ f[2].sha # NULL

IpShaped(f) ==
    /\ f[2].k = "ip" /\ f[2].ihl \in Nat /\ f[2].len \in Nat
    /\ f[2].proto = "icmp" =>
           /\ f[2].ihl < f[2].len
           /\ \A i \in 3 .. Len(f) :
                  /\ i < f[2].ihl + 2 => f[i].k = "opt"
                  /\ i = f[2].ihl + 2 => f[i] = IcmpMsg(f[i].type, f[i].cksum, f[i].rest)

ASSUME NetAssumption ==
    /\ NULL \notin Pkts
    /\ OurIps \in Seq(ToSet(OurIps)) /\ OurIps # <<>>
    /\ \A f \in Frames :
           /\ f = [i \in 1 .. Len(f) |-> f[i]] /\ Len(f) \in Nat /\ Len(f) >= 2
           /\ f[1].type = "arp" => ArpShaped(f)
           /\ f[1].type = "ip" => IpShaped(f)

ECHO == 8
ECHO_REPLY == 0

\* The words of an ICMP message: type and code, checksum, and all others.
IcmpValid(m) == Ocksum16(m.type + m.cksum + m.rest) = 65535

\* The reply to an echo: the checksum was converted to host byte order, and is
\* part of the sum that replaces it.
EchoReply(m) ==
    [m EXCEPT !.type = ECHO_REPLY,
              !.cksum = Swapped(Ocksum16(ECHO_REPLY + Swapped(m.cksum) + m.rest))]

\* Fault: the hardware addresses of the request are left in place.
ArpReplyUnturned(m) ==
    ArpMsg("reply", m.sha, m.tpa, m.tha, m.spa)

\* The request refactored into a reply
ArpReply(m) == ArpMsg("reply", OurMac, m.tpa, m.sha, m.spa)

\* en_arp_cache_lookup: the entry nearest to the head, or NULL
CacheLookup(c, addr) ==
    LET hits == {i \in DOMAIN c : c[i].proto = addr}
    IN  IF hits = {} THEN NULL ELSE c[CHOOSE i \in hits : \A j \in hits : i <= j].hrd

-----------------------------------------------------------------------------
(* Steps of the handlers *)

\* The packet stripped of its Ethernet header
Body == DelHead(pkt[hand], 1)
Type == pkt[hand].data[1].type

\* pkt_free of the packet in hand
FreeHand ==
    /\ pkt' = [pkt EXCEPT ![hand] = NULL]
    /\ UNCHANGED queues

\* The handler returns without freeing or queueing packet p.
Forget(p, body) ==
    /\ pkt' = [pkt EXCEPT ![p] = body]
    /\ UNCHANGED queues

\* en_eth_output of packet p: the result of pkt_add_head is not looked at.
\* whole says that the headers before this one were added.
EthOutput(store, p, body, dst, type, whole) ==
    \E ok \in BOOLEAN :
        /\ pkt' = [store EXCEPT ![p] =
               IF ok THEN AddHead(body, <<EthHdr(dst, OurMac, type)>>) ELSE body]
        /\ txq' = <<p>> \o txq
        /\ cut' = IF ok /\ whole THEN cut ELSE cut \union {p}
        /\ UNCHANGED rxq

\* en_arp_request, while packet p is kept as body
ArpAsk(p, body, addr) ==
    LET store == [pkt EXCEPT ![p] = body]
        msg == ArpMsg("request", OurMac, OurIps[1], Bcast, addr)
    IN  \/ Forget(p, body)
        \/ \E q \in Pkts :
               /\ Free(q)
               /\ EthOutput(store, q, Filled(NewPkt(2), <<msg>>), Bcast, "arp", TRUE)

\* en_ip_output of an ICMP message: without a route, or without the hardware
\* address of the destination, the packet stays where it is.
IpOutput(p, body, dst) ==
    IF dst \notin Reachable THEN Forget(p, body)
    ELSE LET hrd == CacheLookup(cache, dst)
             ip == IpHdr(1, body.len + 1, "icmp", OurIps[1], dst)
         IN  IF hrd = NULL THEN ArpAsk(p, body, dst)
             ELSE \E ok \in BOOLEAN :
                      EthOutput(pkt, p, IF ok THEN AddHead(body, <<ip>>) ELSE body,
                                hrd, "ip", ok)

-----------------------------------------------------------------------------
(* Input handlers, called with the packet in hand *)

Handling(type) ==
    /\ rx = "handle" /\ Type = type
    /\ rx' = "drain" /\ hand' = NULL

EthInputOther ==
    /\ Handling("other")
    /\ FreeHand
    /\ UNCHANGED cache

\* en_arp_input, on a message that is too long for the packet or not of
\* Ethernet and IP
ArpInputInvalid ==
    /\ Handling("arp") /\ ~Body.data[1].ok
    /\ Forget(hand, Body)
    /\ UNCHANGED cache

ArpInputRequest ==
    LET m == Body.data[1]
        reply == [Body EXCEPT !.data = Stored(Body.data, 0, <<ArpReply(m)>>)]
    IN  /\ Handling("arp") /\ m.ok /\ m.op = "request"
        /\ IF m.tpa \in ToSet(OurIps) THEN EthOutput(pkt, hand, reply, m.sha, "arp", TRUE)
           ELSE FreeHand
        /\ UNCHANGED cache

\* Fault: an address that is known is entered once more, in front.
ArpInputReplyAlways ==
    LET m == Body.data[1]
    IN  /\ Handling("arp") /\ m.ok /\ m.op = "reply"
        /\ \/ cache' = <<[proto |-> m.spa, hrd |-> m.sha]>> \o cache
           \/ UNCHANGED cache
        /\ FreeHand

\* A new address is entered if there is memory for it.
ArpInputReply ==
    LET m == Body.data[1]
    IN  /\ Handling("arp") /\ m.ok /\ m.op = "reply"
        /\ \/ /\ CacheLookup(cache, m.spa) = NULL
              /\ cache' = <<[proto |-> m.spa, hrd |-> m.sha]>> \o cache
           \/ UNCHANGED cache
        /\ FreeHand

ArpInputOther ==
    /\ Handling("arp") /\ Body.data[1].ok /\ Body.data[1].op = "other"
    /\ FreeHand
    /\ UNCHANGED cache

\* What the shortest frame holds behind its Ethernet header (46 bytes)
MinBody == 3

IpSound(p) == p.data[1].ihl <= p.len /\ p.data[1].ok

\* en_ip_input takes the length of a minimal frame from the IP header.
IpTrimmed(p) ==
    IF IpSound(p) /\ p.len = MinBody /\ p.data[1].len < MinBody
    THEN [p EXCEPT !.len = p.data[1].len] ELSE p

IpValid(p) ==
    IpSound(p) /\ p.data[1].ihl >= 1 /\ p.data[1].len = IpTrimmed(p).len

IpInputInvalid ==
    /\ Handling("ip") /\ ~IpValid(Body)
    /\ Forget(hand, IpTrimmed(Body))
    /\ UNCHANGED cache

IpInputOther ==
    /\ Handling("ip") /\ IpValid(Body) /\ Body.data[1].proto = "other"
    /\ Forget(hand, IpTrimmed(Body))
    /\ UNCHANGED cache

\* Fault: the message of the wrong length is left behind.
UdpInputReturns ==
    LET ip == Body.data[1]
    IN  /\ Handling("ip") /\ IpValid(Body) /\ ip.proto = "udp"
        /\ IF Body.data[ip.ihl + 1].ok THEN FreeHand ELSE Forget(hand, Body)
        /\ UNCHANGED cache

\* en_udp_input: whether the length is right or not
UdpInput ==
    /\ Handling("ip") /\ IpValid(Body) /\ Body.data[1].proto = "udp"
    /\ FreeHand
    /\ UNCHANGED cache

\* en_icmp_input on a message that is not valid, or not an echo
IcmpInputOther ==
    LET ip == Body.data[1]
        m == Body.data[ip.ihl + 1]
    IN  /\ Handling("ip") /\ IpValid(Body) /\ ip.proto = "icmp"
        /\ IcmpValid(m) => m.type # ECHO
        /\ FreeHand
        /\ UNCHANGED cache

\* Fault: the echoed packet is freed although it was queued.
IcmpInputEchoFrees ==
    LET p == IpTrimmed(Body)
        ip == p.data[1]
        m == p.data[ip.ihl + 1]
    IN  /\ Handling("ip") /\ IpValid(Body) /\ ip.proto = "icmp"
        /\ IcmpValid(m) /\ m.type = ECHO
        /\ ip.src \in Reachable /\ CacheLookup(cache, ip.src) # NULL
        /\ pkt' = [pkt EXCEPT ![hand] = NULL]
        /\ txq' = <<hand>> \o txq
        /\ UNCHANGED <<rxq, cut, cache>>

\* en_icmp_input of an echo: the message becomes the reply, the IP header (but
\* not its options) is removed.
IcmpInputEcho ==
    LET p == IpTrimmed(Body)
        ip == p.data[1]
        m == p.data[ip.ihl + 1]
        reply == [p EXCEPT !.data = Stored(p.data, ip.ihl, <<EchoReply(m)>>)]
    IN  /\ Handling("ip") /\ IpValid(Body) /\ ip.proto = "icmp"
        /\ IcmpValid(m) /\ m.type = ECHO
        /\ IpOutput(hand, DelHead(reply, 1), ip.src)
        /\ UNCHANGED cache

-----------------------------------------------------------------------------
(* Queues *)

\* process_rx_queue and en_eth_rx: a frame without memory for it is dropped.
DriverRx(f) ==
    \E p \in Pkts :
        /\ Free(p)
        /\ pkt' = [pkt EXCEPT ![p] = Filled(NewPkt(Len(f)), f)]
        /\ rxq' = <<p>> \o rxq
        /\ rx' = IF rx = "asleep" THEN "drain" ELSE rx
        /\ UNCHANGED <<txq, hand, cache, cut>>

\* en_eth_rx_drain; the interface is bound as soon as it is registered.
RxTake ==
    /\ rx = "drain" /\ rxq # <<>>
    /\ hand' = Head(rxq) /\ rxq' = Tail(rxq)
    /\ rx' = "handle"
    /\ UNCHANGED <<pkt, txq, cache, cut>>

\* Fault: the task waits for the next frame after it took one.
RxEmptyEarly ==
    /\ rx = "drain"
    /\ rx' = "leave"
    /\ UNCHANGED <<pkt, rxq, txq, hand, cache, cut>>

RxEmpty ==
    /\ rx = "drain" /\ rxq = <<>>
    /\ rx' = "leave"
    /\ UNCHANGED <<pkt, rxq, txq, hand, cache, cut>>

\* en_rx_task: wait(&rx_completion)
RxWait ==
    /\ rx = "leave"
    /\ rx' = "asleep"
    /\ UNCHANGED <<pkt, rxq, txq, hand, cache, cut>>

\* Fault: a queue with one packet counts as empty.
TxStepOffByOne ==
    /\ Len(txq) > 1
    /\ pkt' = [pkt EXCEPT ![Head(txq)] = NULL]
    /\ txq' = Tail(txq) /\ cut' = cut \ {Head(txq)}
    /\ UNCHANGED <<rxq, hand, rx, cache>>

\* en_eth_tx_task and ep9301_xmit, which copies the frame and frees it. No
\* frame is longer than the longest one received.
TxStep ==
    /\ txq # <<>>
    /\ pkt' = [pkt EXCEPT ![Head(txq)] = NULL]
    /\ txq' = Tail(txq) /\ cut' = cut \ {Head(txq)}
    /\ UNCHANGED <<rxq, hand, rx, cache>>

Init ==
    /\ pkt = [p \in Pkts |-> NULL]
    /\ rxq = <<>> /\ txq = <<>> /\ hand = NULL /\ rx = "leave"
    /\ cache = <<>> /\ cut = {}

Handle ==
    \/ EthInputOther
    \/ ArpInputInvalid \/ ArpInputRequest \/ ArpInputReply \/ ArpInputOther
    \/ IpInputInvalid \/ IpInputOther
    \/ UdpInput \/ IcmpInputOther \/ IcmpInputEcho

RxStep == RxTake \/ RxEmpty \/ RxWait \/ Handle

Next ==
    \/ \E f \in Frames : DriverRx(f)
    \/ RxStep \/ TxStep

\* The scheduler runs both tasks; the transmit task's sleep ends.
Fairness == WF_vars(RxStep) /\ WF_vars(TxStep)

Spec == Init /\ [][Next]_vars
FairSpec == Spec /\ Fairness

-----------------------------------------------------------------------------
(* Properties *)

\* The variables have the types of the structures they stand for; a packet in
\* the hand of the receive task is there exactly while it is handled, and its
\* buffer has the size pkt_alloc and pkt_grow give buffers.
TypeOK ==
    /\ \A p \in Pkts : Free(p) \/ /\ DOMAIN pkt[p] = {"data", "len"}
                                  /\ pkt[p].len \in 0 .. Allocated(pkt[p])
                                  /\ Allocated(pkt[p]) % Padding = 0
    /\ rxq \in Seq(Pkts) /\ txq \in Seq(Pkts) /\ cut \subseteq ToSet(txq)
    /\ rx \in RxAt /\ hand \in Pkts \union {NULL}
    /\ rx = "handle" <=> hand # NULL

Held == {hand} \ {NULL}

\* A packet has one holder: it is in one queue once, or in the hand of the
\* receive task. What is held was not freed (pkt_free in the handlers against
\* the queues of net/dll/eth.c).
OneHolder ==
    /\ IsInjective(rxq) /\ IsInjective(txq)
    /\ ToSet(rxq) \intersect ToSet(txq) = {}
    /\ Held \intersect (ToSet(rxq) \union ToSet(txq)) = {}
    /\ \A p \in ToSet(rxq) \union ToSet(txq) \union Held : ~Free(p)

\* The Ethernet, ARP or IP header of a frame says where it goes: an ARP reply
\* goes to the host that asked, from an address of ours; a question is broadcast
\* about an address we have a route to.
ArpSentRight(eth, m) ==
    /\ eth.type = "arp" /\ m.sha = OurMac /\ m.spa \in ToSet(OurIps)
    /\ \/ m.op = "reply" /\ eth.dst = m.tha
       \/ m.op = "request" /\ eth.dst = Bcast /\ m.tpa \in Reachable

\* An echo reply has the length its IP header states and goes to the hardware
\* address that is known for its destination. The message is directly behind
\* the header, unless the request had IP options, which stay in between.
IpSentRight(known, eth, d) ==
    /\ eth.type = "ip" /\ d[2].ihl = 1 /\ d[2].len = Len(d) - 1
    /\ d[2].src \in ToSet(OurIps) /\ eth.dst = CacheLookup(known, d[2].dst)
    /\ \/ d[3].k = "icmp" /\ d[3].type = ECHO_REPLY
       \/ d[3].k = "opt"

\* A frame of cells d is complete and goes to the right host, as far as the cache
\* knows it.
FrameRight(known, d) ==
    /\ Len(d) >= 2 /\ d[1].k = "eth" /\ d[1].src = OurMac
    /\ \/ d[2].k = "arp" /\ ArpSentRight(d[1], d[2])
       \/ d[2].k = "ip" /\ Len(d) >= 3 /\ IpSentRight(known, d[1], d)

\* Whatever is queued for transmission is complete and goes to the right host,
\* provided that pkt_add_head found memory for its headers (en_eth_output,
\* en_arp_input_request, en_arp_request, en_ip_output).
SentRight == \A p \in ToSet(txq) \ cut : FrameRight(cache, Payload(pkt[p]))

\* What the returns that free nothing leave in a packet
LeftBehind(x) ==
    LET c == x.data[1]
    IN  \/ c.k = "arp" /\ ~c.ok
        \/ c.k = "ip" /\ (c.proto = "other" \/ ~IpValid(x))
        \/ c.k \in {"icmp", "opt"}

\* A packet that is neither free nor held was left behind by one of the returns
\* known to do so: an ARP or IP message that failed its checks, an IP protocol
\* without handler, or an echo reply without route or hardware address. All
\* other paths through the handlers free or queue the packet.
LostWhere ==
    \A p \in Pkts \ (ToSet(rxq) \union ToSet(txq) \union Held) :
        Free(p) \/ LeftBehind(pkt[p])

\* The hardware address known for an IP address never changes, whatever replies
\* arrive later (en_arp_input_reply).
CacheKeeps ==
    [][\A e \in ToSet(cache) :
           CacheLookup(cache', e.proto) = CacheLookup(cache, e.proto)]_vars

Quiet == <>[][Len(rxq') <= Len(rxq)]_vars
RxDrains == Quiet => ((rx \in {"drain", "handle"}) ~> (rxq = <<>>))

TxDrains == Quiet => <>[](txq = <<>>)

\* If frames stop arriving, the receive task empties its queue once it is awake
\* (the loop of en_eth_rx_drain; a frame that arrives between its last look at the
\* queue and wait() is the exception), and everything that was queued is
\* transmitted (en_eth_tx_task sends one frame in each of its rounds).
QueuesDrain == RxDrains /\ TxDrains

\* The echo replies sent would pass the check made of those received.
EchoRepliesValid ==
    \A p \in ToSet(txq) :
        \A c \in ToSet(Payload(pkt[p])) : c.k = "icmp" => IcmpValid(c)
=============================================================================
