------------------------- MODULE MCCanonicalEntry -------------------------
(* Small instances of CanonicalEntry: the coming up of the world, and a page in one that
   is up. They meet in the pointer only, so that each is explored with the other at rest. *)
EXTENDS CanonicalEntry

CONSTANTS i1, i2, q1

\* The world is up, its initializers are done, and patches have been claimed.
Up ==
  /\ pointer = [status |-> "active", generation |-> 2, quilt |-> q1, geometry |-> Deployed]
  /\ claimed = TRUE
  /\ job = [i \in Initializer |-> [Asking EXCEPT !.at = "succeeded"]]
  /\ crashes = 0

\* Beside a world that comes up, the page has found none and given up.
Absent ==
  /\ clock = 1 /\ attempt = NoAttempt /\ lineages = <<>>
  /\ sockets = [s \in Socket |-> NoSocket]
  /\ client = [Loading EXCEPT !.mode = "unavailable"] /\ posts = 0
  /\ losses = 0 /\ replacements = 0

SceneInit ==
  \/ Up /\ EntryInit
  \/ WorldInit /\ Absent

\* A page replaces its socket, or something is lost, but not both.
OneMishap == losses' + replacements' <= 1

SceneSpec == SceneInit /\ [][Next]_vars /\ WF_vars(Proceed) /\ WorldFairness
=============================================================================
