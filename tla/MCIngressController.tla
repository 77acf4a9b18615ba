------------------------ MODULE MCIngressController ------------------------
(* IngressController for TLC.  Between the two Ingresses one path moves to *)
(* a Service that is already in use and one path comes or goes.            *)
EXTENDS IngressController

CONSTANTS p1, p2, s1, s2, n1, n2

MCPaths == {p1, p2}
MCServices == {s1, s2}
MCNodes == {n1, n2}
MCFirstNodes == {n1}

Both(s, t) == [p \in MCPaths |-> IF p = p1 THEN s ELSE t]
MCRules == {Both(s1, s2), Both(s2, None)}
============================================================================
