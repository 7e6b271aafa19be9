---------------------------- MODULE MCOwnership ----------------------------
(* Small instances of Ownership for TLC. *)
EXTENDS Ownership, TLC

CONSTANTS t1, t2

Sessions == {t1, t2}

\* Connections are interchangeable. Patches are not: ORDER BY id decides which of two owned
\* patches a search locks, and OneOf stands for it.
Symmetry == Permutations(Sessions)

\* The commands of the race.
Racing == {"claim", "assign", "create", "accept"}

-----------------------------------------------------------------------------
(* The scenes of the safety run, told apart by what they begin in which state. *)

Running(cs) == \E t \in Tx : tx[t].cmd \in cs

\* The patches that have ever been claimed, or are about to be.
Touched == {p \in Patch : patches[p].revision > 0 \/ \E t \in Tx : tx[t].patch = p}

Quiet == \A x \in Transfer : transfers[x].status = "free"
AllActive == \A u \in Principal : principals[u] = "active"
WindowsOver == \A u \in Principal : quota[u] = [attempts |-> 0, claims |-> 0]

\* At most one recent attempt each.
FewAttempts == \A u \in Principal : quota[u].attempts <= 1

\* Everything on one patch: deletion, expiry, transfers, abandonment, assignment.
OnOnePatch(p) == Touched \subseteq {p} /\ FewAttempts

\* What may begin. Claims, assignments, offers and acceptances mix freely on two patches;
\* abandonment and deletion requests mix with claims and assignments there while nothing is
\* offered, and with everything else while one patch has been touched. One principal leaves
\* at a time, and nobody abandons a patch or expires offers then. Offers, deletion requests,
\* abandonment on two patches and the claims beside them begin while no window of a quota
\* runs, so that what the quotas refuse is a scene of claims and assignments.
May(s) ==
  LET offering == Running({"create", "accept", "cancel"}) \/ ~Quiet
      onOne == \E p \in Patch : OnOnePatch(p) IN
  CASE s.cmd = "claim" -> \/ AllActive /\ ~offering
                          \/ WindowsOver /\ (AllActive \/ OnOnePatch(s.patch))
    [] s.cmd = "assign" -> FewAttempts /\ (AllActive \/ onOne)
    [] s.cmd \in {"create", "accept"} ->
         /\ s.cmd = "create" => WindowsOver
         /\ \/ AllActive /\ FewAttempts /\ ~Running({"request", "cancel", "abandon"})
            \/ OnOnePatch(s.patch)
    [] s.cmd = "cancel" -> AllActive /\ \E p \in Patch : Touched \subseteq {p}
    [] s.cmd = "request" -> AllActive /\ WindowsOver /\ (~offering \/ onOne)
    [] s.cmd = "abandon" -> /\ AllActive
                            /\ (~offering /\ WindowsOver) \/ OnOnePatch(s.patch)
    [] s.cmd = "expire" -> AllActive /\ onOne
    [] OTHER -> onOne   \* recover, complete

\* Nothing new begins once an offer has been withdrawn: the states that follow are those
\* without it. The windows of the quotas end while nothing is offered and nobody leaves.
Scenes ==
  /\ \A t \in Tx : tx[t].cmd = "idle" /\ tx'[t].cmd # "idle"
       => May(tx'[t]) /\ \A x \in Transfer : transfers[x].status \in {"free", "pending", "accepted"}
  /\ \A u \in Principal :
       quota'[u].attempts < quota[u].attempts \/ quota'[u].claims < quota[u].claims
         => Quiet /\ AllActive
=============================================================================
