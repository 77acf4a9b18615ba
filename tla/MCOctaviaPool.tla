---------------------------- MODULE MCOctaviaPool ----------------------------
EXTENDS OctaviaPool

Plain == [proxy |-> FALSE, monitor |-> TRUE, local |-> FALSE, delay |-> 1, flaw |-> None]

MCConfs == {Plain,
            [Plain EXCEPT !.proxy = TRUE, !.local = TRUE],
            [Plain EXCEPT !.local = TRUE, !.delay = 2],
            [Plain EXCEPT !.delay = 2],
            [Plain EXCEPT !.monitor = FALSE],
            [Plain EXCEPT !.flaw = "tls"]}

Nowhere == [member |-> None, subnet |-> None, network |-> None]

MCSources == {
  [ann |-> Nowhere, class |-> Nowhere, opts |-> Nowhere, hasClass |-> FALSE],
  [ann |-> [Nowhere EXCEPT !.subnet = "annotated"], class |-> [Nowhere EXCEPT !.subnet = "class's"],
   opts |-> Nowhere, hasClass |-> TRUE]}

MCProviders == {[ovn |-> FALSE, serial |-> FALSE], [ovn |-> TRUE, serial |-> FALSE], [ovn |-> FALSE, serial |-> TRUE]}

\* What users and operators do: the Service starts plain, the class and the
\* annotation are tried with batches only, and nodes come and go in four sets.
MCInit == Init /\ conf = Plain /\ (src.hasClass => ~cloud.ovn /\ ~cloud.serial)

Choice ==
  LET n == CHOOSE n \in Addressed : TRUE IN
  nodes \in {Addressed, {}, {n}, {n} \cup (Nodes \ Addressed)}

MCNext == Next /\ Choice'

MCSpec == MCInit /\ [][MCNext]_vars /\ Fairness
=============================================================================
