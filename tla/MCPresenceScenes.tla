-------------------------- MODULE MCPresenceScenes --------------------------
(* Two starting points of Presence in one run. *)
EXTENDS Presence

CONSTANTS s1, s2, s3, u1, u2, r1, r2

\* s2 belongs to u2, the other sockets to u1, and one replica serves them all.
Owners   == [s \in Socket |-> IF s = s2 THEN u2 ELSE u1]
Together == [s \in Socket |-> r1]

\* A restart left a lease of u1 and one of u2 behind, two replicas reap, u1 connects again
\* with s3, and no further fault is left to happen.
Restart ==
  /\ lease = [s \in Socket |-> IF s \in Orphan THEN "fresh" ELSE "none"]
  /\ conn = [s \in Socket |-> [Unused EXCEPT !.used = s \in Orphan]]
  /\ job = [w \in Worker |-> Idle]
  /\ present = {u1, u2} /\ shown = {} /\ faults = MaxFaults

\* The sockets s1 and s3 of u1, and nothing left behind.
TwoTabs ==
  /\ lease = [s \in Socket |-> "none"]
  /\ conn = [s \in Socket |-> [Unused EXCEPT !.used = s = s2]]
  /\ job = [w \in Worker |-> Idle]
  /\ present = {} /\ shown = {} /\ faults = 0

Scenes == (Restart \/ TwoTabs) /\ [][Next]_vars

\* With two tabs one fault happens less than MaxFaults, and the second replica's reaper
\* sleeps.
Bounds == faults < MaxFaults => /\ faults' < MaxFaults
                                /\ job'[Reaping(r2)] = job[Reaping(r2)]
=============================================================================
