------------------------------- MODULE MCChat -------------------------------
(* Small instances of Chat for TLC: two clients of two principals and two messages, or   *)
(* the conversation of one of them with a third, while the other is away.                *)
EXTENDS Chat, TLC

CONSTANTS c1, c2, p1, p2, m1, m2, m3

Account == c1 :> p1 @@ c2 :> p2
Writer  == m1 :> c1 @@ m2 :> c2 @@ m3 :> c2

\* The message of c1 may be sent again.
Calls == {<<m1, 1>>, <<m1, 2>>, <<m2, 1>>, <<m3, 1>>}

Rejected == [step |-> "done", seq |-> 0, live |-> FALSE]

Quiet == Init!1 /\ Init!2 /\ Init!4 /\ Init!5 /\ Init!6 /\ Init!7 /\ Init!8

\* The third message was rejected as one too many.
TwoMessages ==
  call = [k \in Calls |-> IF k[1] = m3 THEN Rejected
                         ELSE [step |-> "none", seq |-> 0, live |-> FALSE]]

\* c1 has sent its message, the second attempt was rejected, and it has left.
ThreeMessages ==
  call = [k \in Calls |-> IF k = <<m1, 2>> THEN Rejected
                         ELSE [step |-> IF k[1] = m1 THEN "sent" ELSE "none",
                               seq |-> 0, live |-> FALSE]]

SceneInit == Quiet /\ (TwoMessages \/ ThreeMessages)

\* The third message, if it is not rejected from the beginning, is stored, and c1 stays away.
Away ==
  LET k == <<m3, 1>> IN
  /\ call'[k].step = "done" => call[k].step \in {"stored", "done"}
  /\ conn'[c1].on => call[k].step = "done" /\ \A r \in rows : r.id # m3

SceneSpec == SceneInit /\ [][Next]_vars
=============================================================================
