------------------------------- MODULE MCNet -------------------------------
(* Small instances of Net. *)
EXTENDS Net, TLC

CONSTANTS
    p1, p2,
    a, b,               \* hosts: a has a route, b has none
    macA, macA2,        \* hardware addresses; a is claimed by two
    us                  \* our address

MCOurIps == <<us>>

Frame(type, src, rest) == <<EthHdr(OurMac, src, type)>> \o rest

\* ICMP messages whose words add up
Echo == IcmpMsg(ECHO, 65535 - (4660 + ECHO), 4660)
Other == IcmpMsg(3, 65535 - (4660 + 3), 4660)
BadEcho == [Echo EXCEPT !.cksum = 1]
Opt == [k |-> "opt"]
Pad == [k |-> "pad"]
Udp(ok) == [k |-> "udp", ok |-> ok]

ArpFrames ==
    {Frame("arp", macA, r) :
        r \in {<<ArpMsg("request", macA, a, Bcast, us), Pad>>,
               <<ArpMsg("request", macA, a, Bcast, b)>>,
               <<ArpMsg("reply", macA, a, OurMac, us)>>,
               <<ArpMsg("reply", macA2, a, OurMac, us)>>,
               <<ArpMsg("other", macA, a, OurMac, us)>>,
               <<[ArpMsg("reply", macA, a, OurMac, us) EXCEPT !.ok = FALSE]>>}}

IpFrames ==
    {Frame("ip", macA, r) :
        r \in {<<IpHdr(1, 2, "icmp", a, us), Echo, Pad>>,
               <<IpHdr(2, 3, "icmp", a, us), Opt, Echo>>,
               <<IpHdr(1, 2, "icmp", b, us), Echo>>,
               <<IpHdr(1, 2, "icmp", a, us), Other>>,
               <<IpHdr(1, 2, "icmp", a, us), BadEcho>>,
               <<IpHdr(1, 2, "udp", a, us), Udp(TRUE)>>,
               <<IpHdr(1, 2, "udp", a, us), Udp(FALSE)>>,
               <<IpHdr(1, 2, "other", a, us), Pad>>,
               <<IpHdr(1, 5, "udp", a, us), Udp(TRUE)>>,
               <<[IpHdr(1, 2, "udp", a, us) EXCEPT !.ok = FALSE], Udp(TRUE)>>}}

MCFrames == ArpFrames \union IpFrames \union {Frame("other", macA, <<Pad>>)}
=============================================================================
