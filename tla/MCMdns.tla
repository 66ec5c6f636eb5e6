------------------------------- MODULE MCMdns -------------------------------
(* Nodes for MdnsProbing; their records are in the order a, b, c.            *)
EXTENDS MdnsProbing

CONSTANTS a, b, c

MCRank == [n \in Nodes |-> IF n = a THEN 1 ELSE IF n = b THEN 2 ELSE 3]

\* All ask for the same two names.
MCSame == [n \in Nodes |-> [k \in Kinds |-> 0]]

\* a shares the name of its service with c and that of its host with b.  (With these
\* UniqueNames and ProbedThrice fail: see the README.)
MCCrossed ==
  [n \in Nodes |-> [svc |-> IF n = b THEN 2 ELSE 0, host |-> IF n = c THEN 2 ELSE 0]]
=============================================================================
