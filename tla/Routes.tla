------------------------------- MODULE Routes -------------------------------
(***************************************************************************)
(* The routing table of net/trans/ip.c, on the lists of sys/list.h down to *)
(* their pointers. A route is its number in Table, which says what it      *)
(* holds; a route is added and deleted by the task that owns it.           *)
(***************************************************************************)
EXTENDS Integers, FiniteSets, Sequences, SequencesExt

CONSTANTS
    Table,      \* from routes to [dst, host, metric, eth_if]
    Addresses   \* IP addresses

NIL == -1
HEAD == 0       \* en_ip_route_list
RouteIds == DOMAIN Table

NoRoutes == [next |-> [r \in RouteIds \union {HEAD} |-> NIL],
             prev |-> [r \in RouteIds \union {HEAD} |-> NIL]]

\* list_add_after: the element that was first keeps its prev.
ListAddAfter(s, l, a) ==
    [next |-> [s.next EXCEPT ![a] = s.next[l], ![l] = a],
     prev |-> [s.prev EXCEPT ![a] = l]]

\* Fault: the element before it still points to what is removed.
ListRemoveHalf(s, l) ==
    [s EXCEPT !.prev = IF s.next[l] = NIL THEN @ ELSE [@ EXCEPT ![s.next[l]] = s.prev[l]]]

ListRemove(s, l) ==
    [next |-> IF s.prev[l] = NIL THEN s.next ELSE [s.next EXCEPT ![s.prev[l]] = s.next[l]],
     prev |-> IF s.next[l] = NIL THEN s.prev ELSE [s.prev EXCEPT ![s.next[l]] = s.prev[l]]]

\* The routes in order
Chain(s) ==
    LET c[n \in 0 .. Cardinality(RouteIds)] ==
            IF n = 0 THEN <<s.next[HEAD]>>
            ELSE IF Last(c[n - 1]) = NIL THEN c[n - 1]
            ELSE Append(c[n - 1], s.next[Last(c[n - 1])])
    IN  Front(c[Cardinality(RouteIds)])

\* The same destination, netmask and interface
Same(r, q) ==
    /\ Table[r].dst = Table[q].dst
    /\ Table[r].host = Table[q].host
    /\ Table[r].eth_if = Table[q].eth_if

\* en_ip_route_add, en_ip_route_del
RouteAdd(s, r) == IF \E q \in ToSet(Chain(s)) : Same(r, q) THEN s ELSE ListAddAfter(s, HEAD, r)
RouteDel(s, r) == ListRemove(s, r)

\* The destination without its host bits is the route's.
Matches(dst, r) ==
    LET size == 2 ^ Table[r].host
    IN  (dst \div size) * size = Table[r].dst

\* Fault: the last of the routes with the lowest metric is taken.
BetterOrEqual(r, best) == Table[r].metric <= Table[best].metric

Better(r, best) == Table[r].metric < Table[best].metric

\* en_ip_route_lookup
RouteLookup(s, dst) ==
    LET step(best, r) ==
            IF Matches(dst, r) /\ (best = NIL \/ Better(r, best)) THEN r ELSE best
    IN  FoldLeft(step, NIL, Chain(s))
=============================================================================
