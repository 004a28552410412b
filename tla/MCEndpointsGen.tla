--------------------------- MODULE MCEndpointsGen ---------------------------
(***************************************************************************)
(* Starting addresses whose bytes are empty, nearly full, full and beyond, *)
(* and requests that take some of them over one carry or more.             *)
(***************************************************************************)
EXTENDS EndpointsGen

MCStartIPs ==
    {<<10, b, c, d>> : b \in {0, 254}, c \in {0, 253, 254}, d \in {0, 252, 253, 254, 255}}
    \cup {<<223, 254, 254, 250>>, <<32, 1>> \o [i \in 1..13 |-> 0] \o <<250>>}

\* One carry: the last byte is full when two addresses are generated.
CarryStartIPs == {<<10, 254, 254, 252>>, <<10, 0, 254, 252>>, <<10, 0, 0, 1>>}

Request(s, n, m) == [svcs |-> s, subsets |-> n, ips |-> m]
MCRequests == {Request(1, 1, 1), Request(2, 2, 2), Request(2, 1, 3), Request(1, 1, 260)}
SmallRequests == {Request(2, 2, 2)}
=============================================================================
