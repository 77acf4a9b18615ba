----------------------------- MODULE MCLBAccess -----------------------------
(* LBAccess for TLC: s1 owns a load balancer that s2 may share, two Nodes. *)
EXTENDS LBAccess

CONSTANTS s1, s2, n1, n2, p1, p2, f1, f2, f3

MCLBOf == [s \in Services |-> s1]

Ask(i, k, f, r) == [internal |-> i, keep |-> k, ip |-> f, rules |-> {r}]

Plain == {Ask(FALSE, FALSE, None, p1), Ask(FALSE, FALSE, None, p2)}

\* s1 asks for any address, for one of the user (f1), for one that is taken (f2),
\* to be internal or to keep its address; s2 shares and opens a port of its own.
MCSpecChoices ==
  [s \in Services |-> IF s = s1
     THEN Plain \cup {Ask(TRUE, FALSE, None, p1), Ask(TRUE, TRUE, None, p1), Ask(FALSE, TRUE, None, p1),
                     Ask(FALSE, FALSE, f1, p1), Ask(FALSE, FALSE, f2, p1)}
     ELSE {Ask(FALSE, FALSE, None, p2)}]

MCNodeChoices == {{n1}, {n1, n2}}

\* The addresses vary while there are no security groups, and the rules while
\* there are: neither depends on the other.  With the groups there is a second
\* Service or a second event.
Choice ==
  /\ manage => events < MaxEvents \/ state[s2] = "absent"
  /\ state[s1] # "absent" =>
       IF manage THEN spec[s1] \in Plain ELSE spec[s1].rules = {p1}

MCNext == Next /\ Choice'
MCSpec == Init /\ [][MCNext]_vars
=============================================================================
