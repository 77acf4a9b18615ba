---------------------------- MODULE MCManilaCSI ----------------------------
(* ManilaCSI for TLC.  What is looked at together: snapshots of a share    *)
(* that was made blank and is not extended; one that is extended is blank  *)
(* and CephFS.                                                             *)
EXTENDS ManilaCSI

\* The kinds of shares and the sources.
MCInit ==
  /\ Init
  /\ kind.snapshots \/ (kind.nfs /\ source = "blank")
  /\ source # "blank" => ~kind.nfs

Choice ==
  /\ content.st # "none" =>
       /\ source = "blank" /\ \A c \in Creates \cup Expands : At(c, "idle")
       /\ expanded = 1 /\ share[volume].st \notin {"extending", "extending_error"}
  /\ (\E c \in Expands : ~At(c, "idle")) => source = "blank" /\ ~kind.nfs

MCNext == Next /\ Choice'

MCSpec == MCInit /\ [][MCNext]_vars /\ Fairness
============================================================================
