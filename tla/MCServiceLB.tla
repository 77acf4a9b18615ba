---------------------------- MODULE MCServiceLB ----------------------------
(* ServiceLB for TLC: what users ask for in the different instances.         *)
EXTENDS ServiceLB, TLC

CONSTANTS s1, s2, s3, p1, p2, p3

\* s1 owns a load balancer that the others share, each with a port of its own.
OwnPort == [s \in Services |-> CASE s = s1 -> {{p1}} [] s = s2 -> {{p2}} [] s = s3 -> {{p3}}]
SharedLB == [s \in Services |-> IF s = s1 THEN {None} ELSE {s1}]

\* The same with one port that two of them may ask for.
SomePorts == [s \in Services |->
                CASE s = s1 -> {{p1}} [] s = s2 -> {{p1}, {p2}} [] s = s3 -> {{p2}}]

SomeLBs == [s \in Services |->
              CASE s = s1 -> {None} [] s = s2 -> {None, s1} [] s = s3 -> {s1} \cup ExternalLBs]

SomeNodes == SUBSET Nodes \ {{}}

=============================================================================
