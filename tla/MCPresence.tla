----------------------------- MODULE MCPresence -----------------------------
(* Small instances of Presence for TLC, with one principal. *)
EXTENDS Presence, TLC

CONSTANTS s1, s2, u1, r1, r2

\* One principal opens every socket.
Shared == [s \in Socket |-> u1]

\* One replica serves every socket, other replicas only reap.
Together == [s \in Socket |-> r1]

-----------------------------------------------------------------------------
(* How connections end *)

\* Nothing left behind, the sockets of over used up, and n faults that have been.
Beginning(over, n) ==
  /\ lease = [s \in Socket |-> "none"]
  /\ conn = [s \in Socket |-> [Unused EXCEPT !.used = s \in over]]
  /\ job = [w \in Worker |-> Idle]
  /\ present = {} /\ shown = {} /\ faults = n

\* One connection with two reapers and the faults that are left, or two tabs without any.
Ends == (Beginning({s2}, 1) \/ Beginning({}, 0)) /\ [][Next]_vars /\ Progress

\* Without faults heartbeats have nothing to save; the second tab opens once the first has
\* been initialized, and one reaper sweeps.
NoFaults ==
  faults = 0 => /\ faults' = 0
                /\ \A s \in Socket : ~conn'[s].renewing
                /\ ~conn[s2].used /\ conn'[s2].used =>
                     conn[s1].used /\ job[Opening(s1)].phase = "idle"
                /\ job'[Reaping(r2)] = Idle
=============================================================================
