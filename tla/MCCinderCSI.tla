---------------------------- MODULE MCCinderCSI ----------------------------
EXTENDS CinderCSI

\* What users and operators do: a claim is resized, its instance is deleted, or it
\* has a snapshot.  One with a snapshot is not detached any more, and the snapshot
\* is forced exactly if the claim is attached.
Choice ==
  /\ want = 1 \/ running = Instances
  /\ \/ content = NoContent
     \/ want = 1 /\ va.st # "detaching" /\ running = Instances /\ content.force = (va # NoVA)

MCNext == Next /\ Choice'

MCSpec == Init /\ [][MCNext]_vars /\ Fairness
=============================================================================
