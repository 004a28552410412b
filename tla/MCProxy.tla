------------------------------- MODULE MCProxy -------------------------------
(***************************************************************************)
(* Proxy, with the packets it is there for and the table it implements, on *)
(* an instance for TLC.                                                    *)
(***************************************************************************)
EXTENDS Packets, Refinement

CONSTANTS ip1, ip2

\* A service port is added with the second address as its external and its
\* load balancer address; elements come and go with the updates of the sets.
MCLists == {<<ip2>>}
=============================================================================
