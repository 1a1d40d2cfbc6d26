----------------------------- MODULE FabridHops -----------------------------
(***************************************************************************)
(* The per-hop FABRID policy records FabridSelector.Initialize builds     *)
(* from path.Metadata.Interfaces (src/pkg/pan/selector.go), and the       *)
(* reference they are checked against.  A route is a sequence of ASes    *)
(* (consecutive ones differ) with, for the link k from r[k] to r[k+1],   *)
(* its egress interface id l[k].out and ingress id l[k].in; the metadata *)
(* lists, per link, the egress interface then the ingress interface.    *)
(* The pool only hands inter-AS paths to a FABRID connection            *)
(* (DialUDPWithFabrid subscribes only when the IAs differ), so a route   *)
(* has at least one link.                                                *)
(***************************************************************************)
EXTENDS Integers, Sequences

\* path.Metadata.Interfaces of the route r with links l.
MetaInterfaces(r, l) ==
    [j \in 1..2 * (Len(r) - 1) |->
        IF j % 2 = 1 THEN [ia |-> r[(j + 1) \div 2], id |-> l[(j + 1) \div 2].out]
                     ELSE [ia |-> r[j \div 2 + 1], id |-> l[j \div 2].in]]

\* ifaces[j] with the code's 0-based index.
If(ifs, j) == ifs[j + 1]

Hop(ia, ingress, egress) == [ia |-> ia, ingress |-> ingress, egress |-> egress]

\* The first hop: the source AS, egress only.
firstHop(ifs) == Hop(If(ifs, 0).ia, 0, If(ifs, 0).id)

\* for ...; i < len(ifaces)-1; i += 2: an interior hop, ingress ifaces[i]
\* and egress ifaces[i+1], in the AS of ifaces[i].
RECURSIVE interiorHops(_, _)
interiorHops(ifs, i) ==
    IF i < Len(ifs) - 1
    THEN <<Hop(If(ifs, i).ia, If(ifs, i).id, If(ifs, i + 1).id)>>
         \o interiorHops(ifs, i + 2)
    ELSE <<>>

\* After the loop: the destination AS, ingress only.
lastHop(ifs) ==
    LET n == Len(ifs) IN Hop(If(ifs, n - 1).ia, If(ifs, n - 1).id, 0)

\* Mutant of BuildHops: the pair loop starts at interface 0.
BuildHopsFromZero(ifs) ==
    <<firstHop(ifs)>> \o interiorHops(ifs, 0) \o <<lastHop(ifs)>>

\* hops: the first hop, the loop from i := 1, then the last hop.
BuildHops(ifs) ==
    <<firstHop(ifs)>> \o interiorHops(ifs, 1) \o <<lastHop(ifs)>>

\* Reference: the spec's "one policy record per interface boundary
\* (ingress+egress for interior hops, egress-only for the first hop,
\* ingress-only for the last hop)", stated per AS of the route.
PerASHops(r, l) ==
    [k \in 1..Len(r) |->
        Hop(r[k], IF k = 1 THEN 0 ELSE l[k - 1].in,
                  IF k = Len(r) THEN 0 ELSE l[k].out)]
=============================================================================
