----------------------------- MODULE ChatProofs -----------------------------
(* Proofs about Chat, for any number of clients, messages and attempts, any page size and
   any bound on what goes wrong. *)
EXTENDS Chat, FiniteSetTheorems, TLAPS

-----------------------------------------------------------------------------
(* Largest and smallest numbers *)

\* If no member of S were the largest, the numbers up to some member would be closed under
\* successor: an injection that misses 1 on a finite set.
LEMMA MaxExists ==
  ASSUME NEW n \in Nat, NEW S \in SUBSET (1 .. n), S # {}
  PROVE  Max(S) \in S /\ \A x \in S : x <= Max(S)
  <1>1. SUFFICES ASSUME \A x \in S : \E y \in S : ~(x >= y) PROVE FALSE
    BY Zenon DEF Max
  <1> DEFINE U == {k \in 1 .. n : \E y \in S : k <= y}
             next == [k \in U |-> k + 1]
  <1>2. IsFiniteSet(U)
    <2>1. IsFiniteSet(1 .. n)
      BY FS_Interval
    <2> QED BY <2>1, FS_Subset
  <1>3. \A k \in U : k + 1 \in U
    <2>1. TAKE k \in U
    <2>2. PICK y \in S : k <= y
      OBVIOUS
    <2>3. PICK z \in S : ~(y >= z)
      BY <1>1
    <2> QED BY <2>2, <2>3
  <1>4. next \in Injection(U, U)
    <2>1. next \in [U -> U]
      BY <1>3
    <2>2. \A a, b \in U : next[a] = next[b] => a = b
      OBVIOUS
    <2> QED BY <2>1, <2>2 DEF Injection, IsInjective
  <1>5. next \in Surjection(U, U)
    BY <1>2, <1>4, FS_Injection
  <1>6. 1 \in U
    <2>1. PICK y \in S : y \in 1 .. n
      OBVIOUS
    <2> QED BY <2>1
  <1>7. \E k \in U : next[k] = 1
    BY <1>5, <1>6 DEF Surjection
  <1> QED BY <1>7

LEMMA MinExists ==
  ASSUME NEW n \in Nat, NEW S \in SUBSET (1 .. n), S # {}
  PROVE  Min(S) \in S /\ \A x \in S : Min(S) <= x
  <1> DEFINE T == {n + 1 - x : x \in S}
  <1>1. T \in SUBSET (1 .. n) /\ T # {}
    <2>1. \A x \in S : n + 1 - x \in 1 .. n
      OBVIOUS
    <2>2. PICK y \in S : TRUE
      OBVIOUS
    <2>3. n + 1 - y \in T
      OBVIOUS
    <2> QED BY <2>1, <2>3
  <1>2. PICK t \in T : \A x \in T : x <= t
    BY <1>1, MaxExists
  <1>3. PICK s \in S : t = n + 1 - s
    OBVIOUS
  <1>4. ASSUME NEW x \in S PROVE s <= x
    BY <1>2, <1>3
  <1>5. \E x \in S : \A y \in S : x =< y
    BY <1>4
  <1>6. Min(S) \in S /\ \A y \in S : Min(S) =< y
    BY <1>5, Zenon DEF Min
  <1> QED BY <1>6

-----------------------------------------------------------------------------
(* The invariant *)

\* The rows are numbered without a gap, and a handler that has a number has the next one or
\* one that is taken.
Numbered ==
  /\ IsFiniteSet(rows)
  /\ StoredOnce
  /\ Last(rows) \in Nat /\ SeqOf(rows) = 1 .. Last(rows)
  /\ \A k \in Call :
       /\ call[k].seq <= Last(rows) + 1
       /\ call[k].step \in {"numbered", "stored"} => call[k].seq > 0
       /\ call[k].step = "stored" => [id |-> k[1], seq |-> call[k].seq] \in rows

\* A client that has not jumped shows what is stored up to n,
Known(c, n) ==
  /\ n <= Last(rows)
  /\ ~cache[c].jumped => \A r \in rows : r.seq <= n => r \in cache[c].shown

\* and will show what is stored up to the end of a page once it has that page.
Covered(c, page) ==
  /\ page \subseteq rows
  /\ ~cache[c].jumped =>
       \A r \in rows : r.seq <= Last(page) => r \in page \cup cache[c].shown

Reading(c) ==
  /\ cache[c].shown \subseteq rows /\ conn[c].due \subseteq rows
  /\ Known(c, cache[c].cursor)
  /\ \A q \in join[c] : /\ ~q.read => Known(c, q.cursor)
                        /\ q.read => Covered(c, q.page)
  /\ \A w \in wire[c] : /\ w.type = "history" => Covered(c, w.page)
                        /\ w.type = "accepted" => w.row \in rows

\* A connection that has not brought what was missed has rows on their way, which will
\* replace it, or has not yet read anything.
Owed(c) ==
  conn[c].on /\ ~conn[c].stale /\ ~cache[c].jumped =>
    \/ Replayed(c)
    \/ \E w \in wire[c] : w.type = "history" /\ w.page # {}
    \/ \E q \in join[c] : q.read /\ q.page # {}
    \/ ~conn[c].joined /\ \A q \in join[c] : ~q.read

Served(c) == join[c] # {} => conn[c].on

IInv == TypeOK /\ Numbered /\ \A c \in Client : Reading(c) /\ Owed(c) /\ Served(c)

LEMMA Starts == Init => IInv
  <1> SUFFICES ASSUME Init PROVE IInv
    OBVIOUS
  <1>1. TypeOK
    BY ChatAssumption DEF Init, TypeOK, Off, Step, Row
  <1>2. Last(rows) = 0 /\ SeqOf(rows) = {}
    BY DEF Init, Last, SeqOf
  <1>3. Numbered
    <2>1. SeqOf(rows) = 1 .. Last(rows)
      BY <1>2
    <2>2. IsFiniteSet(rows) /\ StoredOnce
      BY FS_EmptySet DEF Init, StoredOnce
    <2>3. \A k \in Call : call[k].seq = 0 /\ call[k].step = "none"
      BY DEF Init
    <2> QED BY <1>2, <2>1, <2>2, <2>3 DEF Numbered
  <1>4. ASSUME NEW c \in Client PROVE Reading(c) /\ Owed(c) /\ Served(c)
    BY <1>2 DEF Init, Reading, Known, Owed, Served, Off
  <1> QED BY <1>1, <1>3, <1>4 DEF IInv

-----------------------------------------------------------------------------
(* Numbers and pages *)

LEMMA LastOfInterval ==
  ASSUME NEW S, NEW n \in Nat, SeqOf(S) = 1 .. n
  PROVE  Last(S) = n
  <1>1. CASE S = {}
    <2>1. SeqOf(S) = {}
      BY <1>1 DEF SeqOf
    <2> QED BY <1>1, <2>1 DEF Last
  <1>2. CASE S # {}
    <2>1. SeqOf(S) # {}
      BY <1>2 DEF SeqOf
    <2>2. Max(1 .. n) \in 1 .. n /\ \A x \in 1 .. n : x <= Max(1 .. n)
      BY <2>1, MaxExists
    <2>3. Max(1 .. n) = n
      BY <2>1, <2>2
    <2> QED BY <1>2, <2>3 DEF Last
  <1> QED BY <1>1, <1>2

LEMMA LastOfPart ==
  ASSUME Numbered, NEW S \in SUBSET rows
  PROVE  /\ Last(S) \in Nat /\ Last(S) <= Last(rows)
         /\ S # {} => Last(S) \in SeqOf(S) /\ \A r \in S : r.seq <= Last(S)
  <1>1. CASE S = {}
    BY <1>1 DEF Last, Numbered
  <1>2. CASE S # {}
    <2>1. SeqOf(S) \in SUBSET (1 .. Last(rows)) /\ SeqOf(S) # {} /\ Last(rows) \in Nat
      BY <1>2 DEF Numbered, SeqOf
    <2>2. Max(SeqOf(S)) \in SeqOf(S) /\ \A x \in SeqOf(S) : x <= Max(SeqOf(S))
      BY <2>1, MaxExists
    <2>3. \A r \in S : r.seq \in SeqOf(S)
      BY DEF SeqOf
    <2> QED BY <1>2, <2>1, <2>2, <2>3 DEF Last
  <1> QED BY <1>1, <1>2

\* A page leaves out nothing up to its last row, and is empty only where nothing follows.
LEMMA Pages ==
  ASSUME Numbered, ChatAssumption, NEW n \in Nat
  PROVE  /\ Page(n) \subseteq rows
         /\ \A r \in rows : n < r.seq /\ r.seq <= Last(Page(n)) => r \in Page(n)
         /\ Page(n) = {} => \A r \in rows : r.seq <= n
  <1> DEFINE Before(r) == {s \in After(n) : s.seq < r.seq}
  <1>0. Page(n) = {r \in After(n) : Cardinality(Before(r)) < PageSize}
    BY DEF Page
  <1>1. IsFiniteSet(After(n)) /\ After(n) \subseteq rows
    <2>1. After(n) \in SUBSET rows
      BY DEF After
    <2> QED BY <2>1, FS_Subset DEF Numbered
  <1>2. Page(n) \in SUBSET rows
    BY <1>0, <1>1
  <1>3. \A r \in rows : r.seq \in Nat
    BY DEF Numbered, SeqOf
  <1>4. ASSUME NEW r \in rows, NEW t \in Page(n), n < r.seq, r.seq <= t.seq PROVE r \in Page(n)
    <2>1. r \in After(n) /\ t \in After(n)
      BY <1>0, <1>4 DEF After
    <2>2. Before(r) \in SUBSET Before(t) /\ Before(t) \in SUBSET After(n)
      BY <1>1, <1>2, <1>3, <1>4
    <2>3. IsFiniteSet(Before(t))
      BY <1>1, <2>2, FS_Subset
    <2>4. IsFiniteSet(Before(r)) /\ Cardinality(Before(r)) <= Cardinality(Before(t))
      BY <2>2, <2>3, FS_Subset
    <2>5. Cardinality(Before(r)) \in Nat /\ Cardinality(Before(t)) \in Nat
      BY <2>3, <2>4, FS_CardinalityType
    <2>6. Cardinality(Before(t)) < PageSize
      BY <1>0
    <2> QED BY <1>0, <2>1, <2>4, <2>5, <2>6, ChatAssumption
  <1>5. ASSUME NEW r \in rows, n < r.seq, r.seq <= Last(Page(n)) PROVE r \in Page(n)
    <2>1. Page(n) # {}
      BY <1>3, <1>5 DEF Last
    <2>2. PICK t \in Page(n) : t.seq = Last(Page(n))
      BY <1>2, <2>1, LastOfPart DEF SeqOf
    <2> QED BY <1>4, <1>5, <2>2
  <1>6. ASSUME NEW r \in rows, ~(r.seq <= n) PROVE Page(n) # {}
    <2>1. r \in After(n)
      BY <1>3, <1>6 DEF After
    <2>2. SeqOf(After(n)) \in SUBSET (1 .. Last(rows)) /\ SeqOf(After(n)) # {} /\ Last(rows) \in Nat
      BY <1>1, <2>1 DEF Numbered, SeqOf
    <2>3. PICK m \in SeqOf(After(n)) : \A x \in SeqOf(After(n)) : m <= x
      BY <2>2, MinExists
    <2>4. PICK t \in After(n) : t.seq = m
      BY DEF SeqOf
    <2>5. \A s \in After(n) : m <= s.seq
      BY <2>3 DEF SeqOf
    <2>6. Before(t) = {}
      BY <1>1, <1>3, <2>4, <2>5
    <2>7. Cardinality(Before(t)) = 0
      BY <2>6, FS_EmptySet
    <2> QED BY <1>0, <2>7, ChatAssumption
  <1> QED BY <1>2, <1>5, <1>6

-----------------------------------------------------------------------------
(* Types *)

CallRow == [step : Step, seq : Nat, live : BOOLEAN]
ConnRow == [on : BOOLEAN, joined : BOOLEAN, stale : BOOLEAN, due : SUBSET Row]
CacheRow == [shown : SUBSET Row, cursor : Nat, loading : BOOLEAN, jumped : BOOLEAN]

\* A message handler writes one row of call.
LEMMA CallTypes ==
  ASSUME TypeOK, NEW k \in Call, NEW s \in Step, NEW n \in Nat, NEW b \in BOOLEAN,
         s \in {"none", "done"} => n = 0,
         call' = [call EXCEPT ![k] = [step |-> s, seq |-> n, live |-> b]]
  PROVE  /\ call' \in [Call -> CallRow]
         /\ \A h \in Call : call'[h].step \in {"none", "done"} => call'[h].seq = 0
  BY DEF TypeOK, CallRow

LEMMA CallForms ==
  ASSUME TypeOK, NEW k \in Call
  PROVE  /\ \A s \in Step, n \in Nat : call' = [call EXCEPT ![k].step = s, ![k].seq = n] =>
              call' = [call EXCEPT ![k] = [step |-> s, seq |-> n, live |-> call[k].live]]
         /\ \A s \in Step : call' = [call EXCEPT ![k].step = s] =>
              call' = [call EXCEPT ![k] = [step |-> s, seq |-> call[k].seq, live |-> call[k].live]]
         /\ call[k].live \in BOOLEAN /\ call[k].seq \in Nat /\ call[k].step \in Step
  <1>1. call[k] = [step |-> call[k].step, seq |-> call[k].seq, live |-> call[k].live]
    BY DEF TypeOK
  <1>2. ASSUME NEW s \in Step, NEW n \in Nat,
               call' = [call EXCEPT ![k] = [[call[k] EXCEPT !.step = s] EXCEPT !.seq = n]]
        PROVE  call' = [call EXCEPT ![k] = [step |-> s, seq |-> n, live |-> call[k].live]]
    <2>1. [call[k] EXCEPT !.step = s] = [step |-> s, seq |-> call[k].seq, live |-> call[k].live]
      BY <1>1
    <2>2. [[step |-> s, seq |-> call[k].seq, live |-> call[k].live] EXCEPT !.seq = n]
          = [step |-> s, seq |-> n, live |-> call[k].live]
      OBVIOUS
    <2>3. call' = [call EXCEPT ![k] = [[step |-> s, seq |-> call[k].seq, live |-> call[k].live] EXCEPT !.seq = n]]
      BY <1>2, <2>1, Zenon
    <2> QED BY <2>2, <2>3
  <1>3. ASSUME NEW s \in Step, NEW n \in Nat, call' = [call EXCEPT ![k].step = s, ![k].seq = n]
        PROVE  call' = [call EXCEPT ![k] = [step |-> s, seq |-> n, live |-> call[k].live]]
    <2>1. call' = [call EXCEPT ![k] = [[call[k] EXCEPT !.step = s] EXCEPT !.seq = n]]
      BY <1>3, Zenon DEF TypeOK
    <2> QED BY <1>2, <2>1
  <1>4. ASSUME NEW s \in Step, call' = [call EXCEPT ![k].step = s]
        PROVE  call' = [call EXCEPT ![k] = [step |-> s, seq |-> call[k].seq, live |-> call[k].live]]
    <2>1. [call[k] EXCEPT !.step = s] = [step |-> s, seq |-> call[k].seq, live |-> call[k].live]
      BY <1>1
    <2>2. call' = [call EXCEPT ![k] = [call[k] EXCEPT !.step = s]]
      BY <1>4
    <2> QED BY <2>1, <2>2
  <1> QED BY <1>3, <1>4 DEF TypeOK

\* Ended connections are well formed.
LEMMA HangUpTypes ==
  ASSUME TypeOK, NEW cs \in SUBSET Client, HangUp(cs)
  PROVE  /\ join' \in [Client -> SUBSET Request] /\ wire' \in [Client -> SUBSET Answer]
         /\ conn' \in [Client -> ConnRow]
         /\ \A c \in Client : conn'[c].joined => conn'[c].on
  <1>1. Off \in ConnRow /\ Off.joined = FALSE
    BY DEF Off, ConnRow
  <1> QED BY <1>1 DEF TypeOK, HangUp, ConnRow

LEMMA MuteTypes ==
  ASSUME TypeOK, NEW cs \in SUBSET Client, call' = Mute(cs)
  PROVE  /\ call' \in [Call -> CallRow]
         /\ \A h \in Call : call'[h].seq = call[h].seq /\ call'[h].step = call[h].step
  BY ZenonT(60) DEF TypeOK, Mute, CallRow

\* The handler of a message keeps its types, whatever it does.
LEMMA HandlerTypes ==
  ASSUME IInv, ChatAssumption, NEW k \in Call, Send(k) \/ Handle(k) \/ SendFails(k) \/ Lose(k)
  PROVE  TypeOK'
  <1>0. TypeOK /\ Numbered /\ Sender(k) \in Client
    BY ChatAssumption DEF IInv, Sender
  <1>1. /\ \A s \in Step, n \in Nat : call' = [call EXCEPT ![k].step = s, ![k].seq = n] =>
              call' = [call EXCEPT ![k] = [step |-> s, seq |-> n, live |-> call[k].live]]
        /\ \A s \in Step : call' = [call EXCEPT ![k].step = s] =>
              call' = [call EXCEPT ![k] = [step |-> s, seq |-> call[k].seq, live |-> call[k].live]]
        /\ call[k].live \in BOOLEAN /\ call[k].seq \in Nat /\ call[k].step \in Step
    BY <1>0, CallForms
  <1> DEFINE Written == /\ call' \in [Call -> CallRow]
                        /\ \A h \in Call : call'[h].step \in {"none", "done"} => call'[h].seq = 0
  <1>2. ASSUME End(k) PROVE Written
    <2>1. call' = [call EXCEPT ![k] = [step |-> "done", seq |-> 0, live |-> call[k].live]]
      BY <1>1, <1>2 DEF End, Step
    <2> QED BY <1>0, <1>1, <2>1, CallTypes DEF Step
  <1>3. ASSUME NEW s \in Step, s \notin {"none", "done"}, call' = [call EXCEPT ![k].step = s]
        PROVE  Written
    <2>1. call' = [call EXCEPT ![k] = [step |-> s, seq |-> call[k].seq, live |-> call[k].live]]
      BY <1>1, <1>3
    <2>2. call[k].live \in BOOLEAN /\ call[k].seq \in Nat
      BY <1>1
    <2>3. [step |-> s, seq |-> call[k].seq, live |-> call[k].live] \in CallRow
      BY <2>2 DEF CallRow
    <2>4. call' \in [Call -> CallRow]
      BY <1>0, <2>1, <2>3 DEF TypeOK, CallRow
    <2>5. call'[k].step = s /\ \A h \in Call \ {k} : call'[h] = call[h]
      BY <1>0, <2>1 DEF TypeOK
    <2> QED BY <1>0, <1>3, <2>4, <2>5 DEF TypeOK
  <1>4. ASSUME Written, UNCHANGED <<rows, active, join, wire, conn, cache>>, events' \in 0 .. MaxEvents
        PROVE  TypeOK'
    BY <1>0, <1>4 DEF TypeOK, CallRow
  <1>5. CASE Send(k)
    <2>5. call' = [call EXCEPT ![k] = [step |-> "sent", seq |-> 0, live |-> TRUE]]
      BY <1>5 DEF Send
    <2>6. Written
      BY <1>0, <2>5, CallTypes DEF Step
    <2>7. events' \in 0 .. MaxEvents
      BY <1>0, <1>5, ChatAssumption DEF Send, TypeOK
    <2> QED BY <1>4, <1>5, <2>6, <2>7 DEF Send
  <1>6. CASE Admit(k)
    <2>1. Written
      BY <1>2, <1>3, <1>6 DEF Admit, Reject, Step
    <2> QED BY <1>0, <1>4, <1>6, <2>1 DEF Admit, Reject, TypeOK
  <1>7. CASE LookUp(k)
    <2>1. Written
      BY <1>2, <1>3, <1>7 DEF LookUp, Reject, Step
    <2>2. \A r \in Row : Accepted(r) \in Answer
      BY DEF Accepted, Answer
    <2> DEFINE new == {Accepted(r) : r \in {m \in rows : m.id = k[1]}}
    <2>3. new \subseteq Answer
      BY <1>0, <2>2 DEF TypeOK
    <2>4. wire' = wire \/ wire' = [wire EXCEPT ![Sender(k)] = @ \cup new]
      BY <1>7, Zenon DEF LookUp, Reject
    <2> HIDE DEF new
    <2>5. wire' \in [Client -> SUBSET Answer]
      BY <1>0, <2>3, <2>4, SMTT(30) DEF TypeOK
    <2> QED BY <1>0, <1>7, <2>1, <2>5 DEF LookUp, TypeOK, CallRow
  <1>8. CASE Number(k)
    <2>1. call[k].seq \in Nat /\ NextSequence \in Nat
      BY <1>0, <1>1 DEF NextSequence, Numbered
    <2>5. call' = [call EXCEPT ![k] = [step |-> "numbered", seq |-> NextSequence, live |-> call[k].live]]
      BY <1>1, <1>8, <2>1 DEF Number, Step
    <2>6. Written
      BY <1>0, <1>1, <2>1, <2>5, CallTypes DEF Step
    <2> QED BY <1>0, <1>4, <1>8, <2>6 DEF Number, TypeOK
  <1>9. CASE Insert(k)
    <2>1. Written
      BY <1>2, <1>3, <1>9 DEF Insert, Reject, Step
    <2>2. k[1] \in Message
      BY ChatAssumption
    <2>3. call[k].seq \in Nat \ {0}
      BY <1>0, <1>1, <1>9 DEF Insert, Numbered
    <2>4. rows' \subseteq Row
      BY <1>0, <1>9, <2>2, <2>3 DEF Insert, Row, TypeOK
    <2>5. UNCHANGED wire
      BY <1>9 DEF Insert, Reject
    <2> QED BY <1>0, <1>9, <2>1, <2>4, <2>5 DEF Insert, TypeOK, CallRow
  <1>10. CASE Publish(k)
    <2>1. Written
      BY <1>2, <1>10 DEF Publish
    <2>2. [id |-> k[1], seq |-> call[k].seq] \in Row
      BY <1>0, <1>10 DEF Publish, Numbered, TypeOK
    <2>3. Accepted([id |-> k[1], seq |-> call[k].seq]) \in Answer
      BY <2>2 DEF Accepted, Answer
    <2>4. wire' \in [Client -> SUBSET Answer]
      BY <1>0, <1>10, <2>3 DEF Publish, TypeOK
    <2> QED BY <1>0, <1>10, <2>1, <2>4 DEF Publish, TypeOK, CallRow
  <1>11. CASE SendFails(k)
    <2>1. Written
      BY <1>2, <1>11 DEF SendFails, Reject
    <2>2. events' \in 0 .. MaxEvents
      BY <1>0, <1>11, ChatAssumption DEF SendFails, TypeOK
    <2> QED BY <1>4, <1>11, <2>1, <2>2 DEF SendFails, Reject
  <1>12. CASE Lose(k)
    BY <1>0, <1>2, <1>4, <1>12 DEF Lose, TypeOK
  <1> QED BY <1>5, <1>6, <1>7, <1>8, <1>9, <1>10, <1>11, <1>12 DEF Handle

\* So do joining, the client, and the rest of the server.
ClientStep(c) ==
  \/ Connect(c) \/ LoadMore(c) \/ Replace(c) \/ Drop(c)
  \/ \E q \in join[c] : ReadHistory(c, q) \/ JoinRoom(c, q)
  \/ \E w \in wire[c] : Receive(c, w)

\* The oldest message a client shows has a number that is stored.
LEMMA Oldest ==
  ASSUME Numbered, NEW c \in Client, cache[c].shown \subseteq rows, cache[c].shown # {}
  PROVE  /\ Min(SeqOf(cache[c].shown)) \in 1 .. Last(rows)
         /\ \E r \in cache[c].shown : r.seq = Min(SeqOf(cache[c].shown))
  <1>1. SeqOf(cache[c].shown) \in SUBSET (1 .. Last(rows)) /\ SeqOf(cache[c].shown) # {}
    BY DEF Numbered, SeqOf
  <1>2. Min(SeqOf(cache[c].shown)) \in SeqOf(cache[c].shown)
    BY <1>1, MinExists DEF Numbered
  <1> QED BY <1>1, <1>2 DEF SeqOf

LEMMA ClientTypes ==
  ASSUME IInv, ChatAssumption, NEW c \in Client, ClientStep(c)
  PROVE  TypeOK'
  <1>0. /\ TypeOK /\ Numbered /\ Reading(c) /\ Served(c)
        /\ cache[c] \in CacheRow /\ conn[c] \in ConnRow
    BY DEF IInv, TypeOK, CacheRow, ConnRow
  <1>1. \A n \in Nat : [cursor |-> n, page |-> {}, read |-> FALSE] \in Request
    BY DEF Request
  <1>2. cache[c] = [shown |-> cache[c].shown, cursor |-> cache[c].cursor,
                    loading |-> cache[c].loading, jumped |-> cache[c].jumped]
    BY <1>0 DEF CacheRow
  <1>3. conn[c] = [on |-> conn[c].on, joined |-> conn[c].joined,
                   stale |-> conn[c].stale, due |-> conn[c].due]
    BY <1>0 DEF ConnRow
  <1>4. ASSUME NEW cs \in SUBSET Client, HangUp(cs), call' = Mute(cs),
               UNCHANGED <<rows, active, cache>>, events' \in 0 .. MaxEvents
        PROVE  TypeOK'
    <2>1. call' \in [Call -> CallRow] /\ \A h \in Call : call'[h].seq = call[h].seq /\ call'[h].step = call[h].step
      BY <1>0, <1>4, MuteTypes
    <2>2. join' \in [Client -> SUBSET Request] /\ wire' \in [Client -> SUBSET Answer]
      BY <1>0, <1>4, HangUpTypes
    <2>3. conn' \in [Client -> ConnRow] /\ \A d \in Client : conn'[d].joined => conn'[d].on
      BY <1>0, <1>4, HangUpTypes
    <2> QED BY <1>0, <1>4, <2>1, <2>2, <2>3 DEF TypeOK, CallRow, ConnRow
  <1>5. CASE Connect(c)
    <2>1. join' \in [Client -> SUBSET Request]
      BY <1>0, <1>1, <1>5 DEF Connect, Ask, TypeOK
    <2>2. conn' = [conn EXCEPT ![c] = [[conn[c] EXCEPT !.on = TRUE] EXCEPT !.due = rows]]
      BY <1>0, <1>5, Zenon DEF Connect, TypeOK
    <2>3. [[conn[c] EXCEPT !.on = TRUE] EXCEPT !.due = rows] \in ConnRow
      BY <1>0 DEF ConnRow, TypeOK
    <2>4. [[conn[c] EXCEPT !.on = TRUE] EXCEPT !.due = rows].on = TRUE
      BY <1>0, <2>3 DEF ConnRow
    <2>5. conn' \in [Client -> ConnRow] /\ \A d \in Client : conn'[d].joined => conn'[d].on
      BY <1>0, <2>2, <2>3, <2>4 DEF TypeOK, ConnRow
    <2> QED BY <1>0, <1>5, <2>1, <2>5 DEF Connect, TypeOK, ConnRow
  <1>6. CASE LoadMore(c)
    <2> DEFINE oldest == Min(SeqOf(cache[c].shown))
    <2>1. oldest \in Nat
      BY <1>0, <1>6, Oldest DEF LoadMore, Reading, Numbered
    <2>2. join' \in [Client -> SUBSET Request]
      BY <1>0, <1>1, <1>6, <2>1 DEF LoadMore, Ask, TypeOK
    <2>3. PICK b \in BOOLEAN :
            cache' = [cache EXCEPT ![c] = [[cache[c] EXCEPT !.loading = TRUE] EXCEPT !.jumped = b]]
      <3>1. (cache[c].jumped \/ oldest > cache[c].cursor + 1) \in BOOLEAN
        OBVIOUS
      <3> QED BY <1>0, <1>6, <3>1, Zenon DEF LoadMore, TypeOK
    <2>4. [[cache[c] EXCEPT !.loading = TRUE] EXCEPT !.jumped = b] \in CacheRow
      BY <1>0 DEF CacheRow
    <2>5. cache' \in [Client -> CacheRow]
      BY <1>0, <2>3, <2>4 DEF TypeOK, CacheRow
    <2>6. events' \in 0 .. MaxEvents
      BY <1>0, <1>6, ChatAssumption DEF LoadMore, TypeOK
    <2> QED BY <1>0, <1>6, <2>2, <2>5, <2>6 DEF LoadMore, TypeOK, CacheRow
  <1>7. CASE Replace(c)
    BY <1>0, <1>4, <1>7 DEF Replace, TypeOK
  <1>8. CASE Drop(c)
    <2>1. events' \in 0 .. MaxEvents
      BY <1>0, <1>8, ChatAssumption DEF Drop, TypeOK
    <2> QED BY <1>4, <1>8, <2>1 DEF Drop
  <1>9. ASSUME NEW q \in join[c], ReadHistory(c, q) PROVE TypeOK'
    <2>1. q \in Request /\ Page(q.cursor) \subseteq rows
      BY <1>0 DEF TypeOK, Page, After
    <2>2. [[q EXCEPT !.read = TRUE] EXCEPT !.page = Page(q.cursor)] \in Request
      BY <1>0, <2>1 DEF Request, TypeOK
    <2>3. join' \in [Client -> SUBSET Request] /\ wire' \in [Client -> SUBSET Answer]
      <3>1. CASE PrincipalOf[c] \in active
        <4>1. join' = [join EXCEPT ![c] = (@ \ {q}) \cup
                         {[[q EXCEPT !.read = TRUE] EXCEPT !.page = Page(q.cursor)]}]
          BY <1>9, <3>1, Zenon DEF ReadHistory
        <4> QED BY <1>0, <1>9, <2>2, <3>1, <4>1 DEF ReadHistory, TypeOK
      <3>2. CASE PrincipalOf[c] \notin active
        <4>1. Refused \in Answer
          BY DEF Answer
        <4>2. join' = [join EXCEPT ![c] = @ \ {q}] /\ wire' = [wire EXCEPT ![c] = @ \cup {Refused}]
          BY <1>9, <3>2 DEF ReadHistory
        <4> QED BY <1>0, <4>1, <4>2 DEF TypeOK
      <3> QED BY <3>1, <3>2
    <2> QED BY <1>0, <1>9, <2>3 DEF ReadHistory, TypeOK
  <1>10. ASSUME NEW q \in join[c], JoinRoom(c, q) PROVE TypeOK'
    <2>1. q \in Request /\ History(q.page) \in Answer
      BY <1>0 DEF TypeOK, Request, Answer, History
    <2>2. join' \in [Client -> SUBSET Request] /\ wire' \in [Client -> SUBSET Answer]
      BY <1>0, <1>10, <2>1 DEF JoinRoom, TypeOK
    <2>3. conn[c].on
      BY <1>0 DEF Served
    <2>4. [conn[c] EXCEPT !.joined = TRUE] \in ConnRow
      BY <1>0 DEF ConnRow
    <2>5. [conn[c] EXCEPT !.joined = TRUE].on = conn[c].on
      BY <1>0 DEF ConnRow
    <2>6. conn' \in [Client -> ConnRow] /\ \A d \in Client : conn'[d].joined => conn'[d].on
      BY <1>0, <1>10, <2>3, <2>4, <2>5 DEF JoinRoom, TypeOK, ConnRow
    <2> QED BY <1>0, <1>10, <2>2, <2>6 DEF JoinRoom, TypeOK, ConnRow
  <1>11. ASSUME NEW w \in wire[c], Receive(c, w) PROVE TypeOK'
    <2>1. wire' \in [Client -> SUBSET Answer] /\ w \in Answer
      BY <1>0, <1>11 DEF Receive, TypeOK
    <2>2. CASE ReceiveHistory(c, w)
      <3>1. w.type = "history" /\ w.page \subseteq rows /\ w.page \subseteq Row
        BY <1>0, <1>11, <2>2 DEF ReceiveHistory, Reading, Covered, TypeOK
      <3>2. Last(w.page) \in Nat
        BY <1>0, <3>1, LastOfPart
      <3>3. MergeHistory(c, w.page) \in CacheRow
        BY <1>0, <3>1, <3>2 DEF MergeHistory, CacheRow
      <3>4. cache' \in [Client -> CacheRow]
        BY <1>0, <2>2, <3>3 DEF ReceiveHistory, TypeOK, CacheRow
      <3>5. PICK b \in BOOLEAN : conn' = [conn EXCEPT ![c] = [conn[c] EXCEPT !.stale = b]]
        <4>1. (conn[c].stale \/ w.page # {}) \in BOOLEAN
          OBVIOUS
        <4> QED BY <2>2, <4>1, Zenon DEF ReceiveHistory
      <3>6. [conn[c] EXCEPT !.stale = b] \in ConnRow
        BY <1>0 DEF ConnRow
      <3>7. /\ [conn[c] EXCEPT !.stale = b].on = conn[c].on
            /\ [conn[c] EXCEPT !.stale = b].joined = conn[c].joined
        BY <1>0 DEF ConnRow
      <3>8. conn' \in [Client -> ConnRow] /\ \A d \in Client : conn'[d].joined => conn'[d].on
        BY <1>0, <3>5, <3>6, <3>7 DEF TypeOK, ConnRow
      <3> QED BY <1>0, <1>11, <2>1, <3>4, <3>8 DEF Receive, TypeOK, CacheRow, ConnRow
    <2>3. CASE ReceiveOther(c, w)
      <3>1. cache' \in [Client -> CacheRow]
        <4>1. CASE w.type = "accepted"
          <5>1. w.row \in Row
            BY <1>0, <4>1 DEF Reading, TypeOK
          <5>2. [cache[c] EXCEPT !.shown = @ \cup {w.row}] \in CacheRow
            BY <1>0, <5>1 DEF CacheRow
          <5>3. cache' = [cache EXCEPT ![c] = [cache[c] EXCEPT !.shown = @ \cup {w.row}]]
            BY <2>3, <4>1, Zenon DEF ReceiveOther
          <5> QED BY <1>0, <5>2, <5>3 DEF TypeOK, CacheRow
        <4>2. CASE w.type = "refused"
          <5>1. [cache[c] EXCEPT !.loading = FALSE] \in CacheRow
            BY <1>0 DEF CacheRow
          <5>2. cache' = [cache EXCEPT ![c] = [cache[c] EXCEPT !.loading = FALSE]]
            BY <2>3, <4>2, Zenon DEF ReceiveOther
          <5> QED BY <1>0, <5>1, <5>2 DEF TypeOK, CacheRow
        <4> QED BY <2>3, <4>1, <4>2 DEF ReceiveOther
      <3> QED BY <1>0, <1>11, <2>1, <2>3, <3>1 DEF Receive, ReceiveOther, TypeOK, CacheRow
    <2> QED BY <1>11, <2>2, <2>3 DEF Receive
  <1> QED BY <1>5, <1>6, <1>7, <1>8, <1>9, <1>10, <1>11 DEF ClientStep

LEMMA ServerTypes ==
  ASSUME IInv, ChatAssumption, Crash \/ \E p \in Principal : Deactivate(p)
  PROVE  TypeOK'
  <1>0. TypeOK
    BY DEF IInv
  <1>1. CASE Crash
    <2>1. call' \in [Call -> CallRow]
      BY <1>0, <1>1 DEF Crash, TypeOK, CallRow, Step
    <2>2. \A k \in Call : call'[k].seq = 0 
      BY <1>0, <1>1 DEF Crash, TypeOK
    <2>3. join' \in [Client -> SUBSET Request] /\ wire' \in [Client -> SUBSET Answer]
      BY <1>0, <1>1, HangUpTypes DEF Crash
    <2>4. conn' \in [Client -> ConnRow] /\ \A d \in Client : conn'[d].joined => conn'[d].on
      BY <1>0, <1>1, HangUpTypes DEF Crash
    <2>5. events' \in 0 .. MaxEvents
      BY <1>0, <1>1, ChatAssumption DEF Crash, TypeOK
    <2> QED BY <1>0, <1>1, <2>1, <2>2, <2>3, <2>4, <2>5 DEF Crash, TypeOK, CallRow, ConnRow
  <1>2. CASE \E p \in Principal : Deactivate(p)
    BY <1>0, <1>2, ChatAssumption DEF Deactivate, TypeOK
  <1> QED BY <1>1, <1>2

LEMMA TypeStep == ASSUME IInv, ChatAssumption, Next PROVE TypeOK'
  BY HandlerTypes, ClientTypes, ServerTypes DEF Next, ClientStep

-----------------------------------------------------------------------------
(* The rows *)

\* What a handler may do to the row of its call without disturbing the numbers.
LEMMA NumbersKept ==
  ASSUME TypeOK, Numbered, UNCHANGED rows,
         \A k \in Call : /\ call'[k].seq \in {call[k].seq, 0, Last(rows) + 1}
                         /\ call'[k].step \in {"numbered", "stored"} => call'[k].seq > 0
                         /\ call'[k].step = "stored" =>
                              call[k].step = "stored" /\ call'[k].seq = call[k].seq
  PROVE  Numbered'
  <1>1. /\ IsFiniteSet(rows') /\ StoredOnce' /\ Last(rows)' = Last(rows)
        /\ Last(rows') \in Nat /\ SeqOf(rows') = 1 .. Last(rows')
    BY DEF Numbered, StoredOnce
  <1>2. ASSUME NEW k \in Call PROVE call'[k].seq <= Last(rows') + 1
    <2>1. call[k].seq <= Last(rows) + 1 /\ Last(rows) \in Nat
      BY DEF Numbered
    <2> QED BY <1>1, <2>1
  <1>3. \A k \in Call : call'[k].step = "stored" => [id |-> k[1], seq |-> call'[k].seq] \in rows'
    BY DEF Numbered
  <1> QED BY <1>1, <1>2, <1>3 DEF Numbered

\* A row that is inserted has the next number.
LEMMA InsertNumbers ==
  ASSUME TypeOK, Numbered, ChatAssumption, NEW k \in Call, Insert(k), rows' # rows
  PROVE  /\ Numbered' /\ Last(rows') = Last(rows) + 1
         /\ \A r \in rows' : r \in rows \/ r.seq = Last(rows) + 1
  <1> DEFINE new == [id |-> k[1], seq |-> call[k].seq]
  <1>1. /\ rows' = rows \cup {new} /\ ~Duplicate(new)
        /\ call[k].step = "numbered" /\ call' = [call EXCEPT ![k].step = "stored"]
    BY DEF Insert
  <1>2. new.seq \notin SeqOf(rows) /\ \A r \in rows : r.id # new.id /\ r.seq # new.seq
    BY <1>1 DEF Duplicate, SeqOf
  <1>3. new.seq = Last(rows) + 1
    <2>1. new.seq \in Nat /\ new.seq > 0 /\ new.seq <= Last(rows) + 1
      BY <1>1 DEF Numbered, TypeOK
    <2> QED BY <1>2, <2>1 DEF Numbered
  <1>4. SeqOf(rows') = SeqOf(rows) \cup {Last(rows) + 1}
    BY <1>1, <1>3 DEF SeqOf
  <1>5. SeqOf(rows') = 1 .. (Last(rows) + 1) /\ Last(rows) + 1 \in Nat
    BY <1>4 DEF Numbered
  <1>6. Last(rows') = Last(rows) + 1
    BY <1>5, LastOfInterval
  <1>7. IsFiniteSet(rows') /\ StoredOnce'
    BY <1>1, <1>2, FS_AddElement DEF Numbered, StoredOnce
  <1>8. \A h \in Call : call'[h].seq = call[h].seq /\ (h # k => call'[h].step = call[h].step)
    BY <1>1 DEF TypeOK
  <1>9. \A h \in Call : /\ call'[h].seq <= Last(rows') + 1
                        /\ call'[h].step \in {"numbered", "stored"} => call'[h].seq > 0
                        /\ call'[h].step = "stored" => [id |-> h[1], seq |-> call'[h].seq] \in rows'
    <2> TAKE h \in Call
    <2>1. call[h].seq <= Last(rows) + 1 /\ Last(rows) \in Nat /\ call[h].seq \in Nat
      BY DEF Numbered, TypeOK
    <2>2. CASE h = k
      BY <1>1, <1>3, <1>6, <1>8, <2>1, <2>2
    <2>3. CASE h # k
      BY <1>1, <1>6, <1>8, <2>1, <2>3 DEF Numbered
    <2> QED BY <2>2, <2>3
  <1> QED BY <1>1, <1>3, <1>5, <1>6, <1>7, <1>9 DEF Numbered

\* The table only grows, and what is new comes after everything stored.
Grown ==
  /\ rows \subseteq rows' /\ Last(rows) <= Last(rows')
  /\ \A r \in rows' \ rows : r.seq > Last(rows)

LEMMA Unmoved == ASSUME Numbered, UNCHANGED rows PROVE Grown
  BY DEF Grown, Numbered

LEMMA NumberStep == ASSUME IInv, ChatAssumption, Next PROVE Numbered' /\ Grown
  <1>0. TypeOK /\ Numbered
    BY DEF IInv
  <1>1. ASSUME UNCHANGED <<rows, call>> PROVE Numbered' /\ Grown
    BY <1>0, <1>1, Unmoved DEF Numbered, StoredOnce
  <1>2. ASSUME NEW k \in Call, UNCHANGED rows, End(k) PROVE Numbered' /\ Grown
    <2>1. call'[k].step = "done" /\ call'[k].seq = 0 /\ \A h \in Call \ {k} : call'[h] = call[h]
      BY <1>0, <1>2 DEF End, TypeOK
    <2> QED BY <1>0, <1>2, <2>1, NumbersKept, Unmoved DEF Numbered
  <1>3. ASSUME NEW k \in Call, UNCHANGED rows, NEW s \in {"limited", "looked"},
               call' = [call EXCEPT ![k].step = s]
        PROVE  Numbered' /\ Grown
    <2>1. call'[k].step = s /\ call'[k].seq = call[k].seq /\ \A h \in Call \ {k} : call'[h] = call[h]
      BY <1>0, <1>3 DEF TypeOK
    <2> QED BY <1>0, <1>3, <2>1, NumbersKept, Unmoved DEF Numbered
  <1>4. ASSUME NEW k \in Call, Send(k) \/ Handle(k) \/ SendFails(k) \/ Lose(k)
        PROVE  Numbered' /\ Grown
    <2>1. CASE Send(k)
      <3>1. UNCHANGED rows /\ call'[k].step = "sent" /\ call'[k].seq = 0
            /\ \A h \in Call \ {k} : call'[h] = call[h]
        BY <1>0, <2>1 DEF Send, TypeOK
      <3> QED BY <1>0, <3>1, NumbersKept, Unmoved DEF Numbered
    <2>2. CASE Admit(k)
      BY <1>2, <1>3, <2>2 DEF Admit, Reject
    <2>3. CASE LookUp(k)
      BY <1>2, <1>3, <2>3 DEF LookUp, Reject
    <2>4. CASE Number(k)
      <3>1. UNCHANGED rows /\ call'[k].step = "numbered" /\ call'[k].seq = Last(rows) + 1
            /\ \A h \in Call \ {k} : call'[h] = call[h]
        BY <1>0, <2>4 DEF Number, NextSequence, TypeOK, Numbered
      <3>2. Last(rows) + 1 > 0
        BY <1>0 DEF Numbered
      <3>3. \A h \in Call : /\ call'[h].seq \in {call[h].seq, 0, Last(rows) + 1}
                            /\ call'[h].step \in {"numbered", "stored"} => call'[h].seq > 0
                            /\ call'[h].step = "stored" =>
                                 call[h].step = "stored" /\ call'[h].seq = call[h].seq
        BY <1>0, <3>1, <3>2 DEF Numbered
      <3> QED BY <1>0, <3>1, <3>3, NumbersKept, Unmoved
    <2>5. CASE Insert(k)
      <3>1. CASE rows' = rows
        <4>1. End(k)
          BY <2>5, <3>1 DEF Insert, Reject, Duplicate
        <4> QED BY <1>2, <3>1, <4>1
      <3>2. CASE rows' # rows
        <4>1. /\ Numbered' /\ Last(rows') = Last(rows) + 1
              /\ \A r \in rows' : r \in rows \/ r.seq = Last(rows) + 1
          BY <1>0, <2>5, <3>2, InsertNumbers
        <4>2. rows \subseteq rows' /\ Last(rows) \in Nat
          BY <1>0, <2>5 DEF Insert, Numbered
        <4> QED BY <4>1, <4>2 DEF Grown
      <3> QED BY <3>1, <3>2
    <2>6. CASE Publish(k) \/ SendFails(k) \/ Lose(k)
      BY <1>2, <2>6 DEF Publish, SendFails, Lose, Reject
    <2> QED BY <1>4, <2>1, <2>2, <2>3, <2>4, <2>5, <2>6 DEF Handle
  <1>5. ASSUME NEW cs \in SUBSET Client, call' = Mute(cs), UNCHANGED rows PROVE Numbered' /\ Grown
    <2>1. \A h \in Call : call'[h].seq = call[h].seq /\ call'[h].step = call[h].step
      BY <1>0, <1>5, MuteTypes
    <2> QED BY <1>0, <1>5, <2>1, NumbersKept, Unmoved DEF Numbered
  <1>6. ASSUME NEW c \in Client, ClientStep(c) PROVE Numbered' /\ Grown
    <2>1. CASE Replace(c) \/ Drop(c)
      BY <1>5, <2>1 DEF Replace, Drop
    <2>2. CASE ~(Replace(c) \/ Drop(c))
      BY <1>1, <1>6, <2>2 DEF ClientStep, Connect, LoadMore, ReadHistory, JoinRoom, Receive
    <2> QED BY <2>1, <2>2
  <1>7. CASE Crash
    <2>1. \A k \in Call : call'[k].seq = 0 /\ call'[k].step \in {"none", "done"}
      BY <1>0, <1>7 DEF Crash, TypeOK
    <2> QED BY <1>0, <1>7, <2>1, NumbersKept, Unmoved DEF Crash
  <1>8. ASSUME NEW p \in Principal, Deactivate(p) PROVE Numbered' /\ Grown
    BY <1>1, <1>8 DEF Deactivate
  <1> QED BY <1>4, <1>6, <1>7, <1>8 DEF Next, ClientStep

-----------------------------------------------------------------------------
(* The clients *)

\* A client that shows more, and jumps if it has jumped, knows what it knew.
LEMMA KnownKept ==
  ASSUME Numbered, Numbered', Grown, NEW c \in Client, NEW n \in Nat, Known(c, n),
         cache[c].shown \subseteq cache'[c].shown, cache[c].jumped => cache'[c].jumped
  PROVE  Known(c, n)'
  <1>0. Last(rows) \in Nat /\ Last(rows') \in Nat /\ \A r \in rows' : r.seq \in Nat
    BY DEF Numbered, SeqOf
  <1>1. n <= Last(rows')
    BY <1>0 DEF Known, Grown
  <1>2. ASSUME ~cache'[c].jumped, NEW r \in rows', r.seq <= n PROVE r \in cache'[c].shown
    <2>1. r \in rows
      BY <1>0, <1>2 DEF Known, Grown
    <2> QED BY <1>2, <2>1 DEF Known
  <1> QED BY <1>1, <1>2 DEF Known

LEMMA CoveredKept ==
  ASSUME Numbered, Numbered', Grown, NEW c \in Client, NEW page, Covered(c, page),
         cache[c].shown \subseteq cache'[c].shown, cache[c].jumped => cache'[c].jumped
  PROVE  Covered(c, page)'
  <1>1. page \subseteq rows' /\ Last(page) <= Last(rows) /\ Last(page) \in Nat
    BY LastOfPart DEF Covered, Grown
  <1>2. ASSUME ~cache'[c].jumped, NEW r \in rows', r.seq <= Last(page)
        PROVE  r \in page \cup cache'[c].shown
    <2>1. r \in rows
      <3>1. Last(rows) \in Nat /\ \A s \in rows' : s.seq \in Nat
        BY DEF Numbered, SeqOf
      <3> QED BY <1>1, <1>2, <3>1 DEF Grown
    <2> QED BY <1>2, <2>1 DEF Covered
  <1> QED BY <1>1, <1>2 DEF Covered

\* What a step must leave of a client: requests and answers it had, besides accepted
\* messages that are stored and requests from where it knows everything.
LEMMA ReadingKept ==
  ASSUME TypeOK, Numbered, Numbered', Grown, NEW c \in Client, Reading(c),
         cache[c].shown \subseteq cache'[c].shown, cache'[c].shown \subseteq rows',
         cache[c].jumped => cache'[c].jumped,
         Known(c, cache[c].cursor)',
         conn'[c].due \subseteq rows',
         \A q \in join'[c] : q \in join[c] \/ (~q.read /\ Known(c, q.cursor)')
                                           \/ (q.read /\ Covered(c, q.page)'),
         \A w \in wire'[c] : w \in wire[c] \/ (w.type = "accepted" /\ w.row \in rows')
                                           \/ (w.type = "history" /\ Covered(c, w.page)')
                                           \/ w.type = "refused"
  PROVE  Reading(c)'
  <1>1. ASSUME NEW q \in join'[c]
        PROVE  /\ ~q.read => Known(c, q.cursor)'
               /\ q.read => Covered(c, q.page)'
    <2>1. CASE q \in join[c]
      <3>1. q.cursor \in Nat
        BY <2>1 DEF TypeOK, Request
      <3>2. /\ ~q.read => Known(c, q.cursor)
            /\ q.read => Covered(c, q.page)
        BY <2>1 DEF Reading
      <3> QED BY <3>1, <3>2, KnownKept, CoveredKept
    <2>2. CASE q \notin join[c]
      BY <2>2
    <2> QED BY <2>1, <2>2
  <1>2. ASSUME NEW w \in wire'[c]
        PROVE  /\ w.type = "history" => Covered(c, w.page)'
               /\ w.type = "accepted" => w.row \in rows'
    <2>1. CASE w \in wire[c]
      <3>1. /\ w.type = "history" => Covered(c, w.page)
            /\ w.type = "accepted" => w.row \in rows
        BY <2>1 DEF Reading
      <3> QED BY <3>1, CoveredKept DEF Grown
    <2>2. CASE w \notin wire[c]
      BY <2>2
    <2> QED BY <2>1, <2>2
  <1> QED BY <1>1, <1>2 DEF Reading

\* A step that is not the client's own leaves it its cache, its requests and its
\* connection, and can only send it what is stored; or it ends the connection.
Aside(c) ==
  /\ cache'[c] = cache[c]
  /\ \/ /\ conn'[c] = conn[c] /\ join'[c] = join[c] /\ wire[c] \subseteq wire'[c]
        /\ \A w \in wire'[c] : w \in wire[c] \/ (w.type = "accepted" /\ w.row \in rows')
     \/ conn'[c] = Off /\ join'[c] = {} /\ wire'[c] = {}

LEMMA AsideKeeps ==
  ASSUME IInv, Numbered', Grown, NEW c \in Client, Aside(c)
  PROVE  Reading(c)' /\ Owed(c)' /\ Served(c)'
  <1>0. TypeOK /\ Numbered /\ Reading(c) /\ Owed(c) /\ Served(c) /\ cache[c].cursor \in Nat
    BY DEF IInv, TypeOK
  <1>1. Known(c, cache[c].cursor)'
    <2>1. Known(c, cache[c].cursor)
      BY <1>0 DEF Reading
    <2> DEFINE n == cache[c].cursor
    <2>2. ASSUME NEW m \in Nat, Known(c, m) PROVE Known(c, m)'
      BY <1>0, <2>2, KnownKept DEF Aside
    <2>3. cache'[c].cursor = n
      BY DEF Aside
    <2> QED BY <1>0, <2>1, <2>2, <2>3
  <1>2. conn'[c].due \subseteq rows' /\ cache'[c].shown \subseteq rows'
    BY <1>0 DEF Aside, Off, Reading, Grown
  <1>3. Reading(c)'
    BY <1>0, <1>1, <1>2, ReadingKept DEF Aside
  <1>4. Owed(c)' /\ Served(c)'
    BY <1>0 DEF Aside, Owed, Served, Replayed, Off
  <1> QED BY <1>3, <1>4

\* Who is beside a step of a handler, of another client, or of the rest of the server.
LEMMA HandlerAside ==
  ASSUME IInv, Grown, ChatAssumption, NEW k \in Call, Send(k) \/ Handle(k) \/ SendFails(k) \/ Lose(k),
         NEW c \in Client
  PROVE  Aside(c)
  <1>0. TypeOK /\ Numbered /\ wire[c] \subseteq Answer
    BY DEF IInv, TypeOK
  <1>1. UNCHANGED <<join, conn, cache>>
    BY DEF Send, Handle, Admit, LookUp, Number, Insert, Publish, SendFails, Lose
  <1>2. /\ wire[c] \subseteq wire'[c]
        /\ \A w \in wire'[c] : w \in wire[c] \/ (w.type = "accepted" /\ w.row \in rows')
    <2>1. CASE UNCHANGED wire
      BY <2>1
    <2>2. CASE LookUp(k) /\ ~UNCHANGED wire
      <3>1. wire' = [wire EXCEPT ![Sender(k)] = @ \cup {Accepted(r) : r \in {s \in rows : s.id = k[1]}}]
        BY <2>2 DEF LookUp, Reject
      <3>2. \A r \in rows : Accepted(r).type = "accepted" /\ Accepted(r).row = r
        BY DEF Accepted
      <3> QED BY <1>0, <2>2, <3>1, <3>2 DEF TypeOK, LookUp
    <2>3. CASE Publish(k)
      <3>1. [id |-> k[1], seq |-> call[k].seq] \in rows /\ UNCHANGED rows
        BY <1>0, <2>3 DEF Publish, Numbered
      <3>2. wire'[c] = wire[c] \/ wire'[c] = wire[c] \cup {Accepted([id |-> k[1], seq |-> call[k].seq])}
        BY <2>3 DEF Publish
      <3> QED BY <3>1, <3>2 DEF Accepted
    <2> QED BY <2>1, <2>2, <2>3
          DEF Send, Handle, Admit, Number, Insert, SendFails, Lose, Reject
  <1> QED BY <1>1, <1>2 DEF Aside

LEMMA HangUpAside ==
  ASSUME NEW cs \in SUBSET Client, HangUp(cs), UNCHANGED cache, NEW c \in Client
  PROVE  Aside(c)
  <1>1. CASE c \in cs
    BY <1>1 DEF HangUp, Aside
  <1>2. CASE c \notin cs
    BY <1>2 DEF HangUp, Aside
  <1> QED BY <1>1, <1>2

LEMMA OthersAside ==
  ASSUME TypeOK, NEW d \in Client, ClientStep(d), NEW c \in Client, c # d
  PROVE  Aside(c)
  <1>1. CASE Replace(d) \/ Drop(d)
    BY <1>1, HangUpAside DEF Replace, Drop
  <1>2. CASE ~(Replace(d) \/ Drop(d))
    BY <1>2, ZenonT(30) DEF ClientStep, Connect, LoadMore, ReadHistory, JoinRoom, Receive, ReceiveHistory,
                ReceiveOther, Ask, Aside, TypeOK
  <1> QED BY <1>1, <1>2

LEMMA ConnectKeeps ==
  ASSUME IInv, Numbered', Grown, NEW c \in Client, Connect(c)
  PROVE  Reading(c)' /\ Owed(c)' /\ Served(c)'
  <1>0. TypeOK /\ Numbered /\ Reading(c) /\ Served(c) /\ cache[c].cursor \in Nat
    BY DEF IInv, TypeOK
  <1> DEFINE first == [cursor |-> cache[c].cursor, page |-> {}, read |-> FALSE]
  <1>1. /\ join[c] = {} \/ conn[c].on
        /\ join'[c] = join[c] \cup {first} /\ UNCHANGED <<rows, wire, cache>> /\ ~conn[c].on
    BY <1>0 DEF Connect, Ask, TypeOK, Served
  <1>2. conn'[c].on /\ conn'[c].joined = conn[c].joined /\ conn'[c].due = rows
    <2>1. conn'[c] = [[conn[c] EXCEPT !.on = TRUE] EXCEPT !.due = rows]
      BY <1>0, Zenon DEF Connect, TypeOK
    <2>2. conn[c] \in ConnRow
      BY <1>0 DEF TypeOK, ConnRow
    <2> QED BY <2>1, <2>2 DEF ConnRow
  <1>3. Known(c, cache[c].cursor)'
    BY <1>0, <1>1 DEF Reading, Known
  <1>4. first.cursor = cache'[c].cursor /\ ~first.read
    BY <1>1
  <1>5. Known(c, first.cursor)'
    BY <1>3, <1>4
  <1>6. Reading(c)'
    BY <1>0, <1>1, <1>2, <1>3, <1>4, <1>5, ReadingKept DEF Reading
  <1>7. ~conn'[c].joined /\ \A q \in join'[c] : ~q.read
    BY <1>0, <1>1, <1>2, <1>4 DEF TypeOK
  <1> QED BY <1>2, <1>6, <1>7 DEF Owed, Served

LEMMA LoadMoreKeeps ==
  ASSUME IInv, Numbered', Grown, NEW c \in Client, LoadMore(c)
  PROVE  Reading(c)' /\ Owed(c)' /\ Served(c)'
  <1>0. TypeOK /\ Numbered /\ Reading(c) /\ Owed(c) /\ cache[c] \in CacheRow
    BY DEF IInv, TypeOK, CacheRow
  <1> DEFINE oldest == Min(SeqOf(cache[c].shown))
             more == [cursor |-> oldest, page |-> {}, read |-> FALSE]
  <1>1. /\ UNCHANGED <<rows, wire, conn>> /\ conn[c].on
        /\ join'[c] = join[c] \cup {more}
    BY <1>0 DEF LoadMore, Ask, TypeOK
  <1>2. PICK o \in 1 .. Last(rows) : o = oldest /\ \E r \in cache[c].shown : r.seq = o
    BY <1>0, Oldest DEF LoadMore, Reading
  <1>3. PICK b \in BOOLEAN :
          /\ cache' = [cache EXCEPT ![c] = [[cache[c] EXCEPT !.loading = TRUE] EXCEPT !.jumped = b]]
          /\ b <=> cache[c].jumped \/ o > cache[c].cursor + 1
    <2>1. (cache[c].jumped \/ oldest > cache[c].cursor + 1) \in BOOLEAN
      OBVIOUS
    <2>2. cache' = [cache EXCEPT ![c] = [[cache[c] EXCEPT !.loading = TRUE]
                      EXCEPT !.jumped = (cache[c].jumped \/ oldest > cache[c].cursor + 1)]]
      BY <1>0, Zenon DEF LoadMore, TypeOK
    <2> QED BY <1>2, <2>1, <2>2
  <1>4. /\ cache'[c].shown = cache[c].shown /\ cache'[c].cursor = cache[c].cursor
        /\ cache'[c].jumped = b
    BY <1>0, <1>3 DEF TypeOK, CacheRow
  <1>5. Known(c, cache[c].cursor)'
    BY <1>0, <1>1, <1>3, <1>4 DEF Reading, Known
  <1>6. Known(c, o)'
    <2>1. o <= Last(rows')
      BY <1>0, <1>1, <1>2 DEF Numbered
    <2>2. ASSUME ~b, NEW r \in rows, r.seq <= o PROVE r \in cache[c].shown
      <3>1. r.seq \in Nat /\ cache[c].cursor \in Nat
        BY <1>0 DEF Numbered, SeqOf, CacheRow
      <3>2. CASE r.seq <= cache[c].cursor
        BY <1>0, <1>3, <2>2, <3>2 DEF Reading, Known
      <3>3. CASE r.seq = o
        BY <1>0, <1>2, <3>3 DEF Numbered, StoredOnce, Reading
      <3> QED BY <1>2, <1>3, <2>2, <3>1, <3>2, <3>3
    <2> QED BY <1>1, <1>4, <2>1, <2>2 DEF Known
  <1>7. \A q \in {more} : ~q.read /\ Known(c, q.cursor)'
    BY <1>2, <1>6
  <1>8. Reading(c)'
    BY <1>0, <1>1, <1>3, <1>4, <1>5, <1>7, ReadingKept DEF Reading
  <1>9. Owed(c)' /\ Served(c)'
    BY <1>0, <1>1, <1>3, <1>4, <1>7 DEF Owed, Served, Replayed
  <1> QED BY <1>8, <1>9

LEMMA ReadHistoryKeeps ==
  ASSUME IInv, ChatAssumption, Numbered', Grown, NEW c \in Client, NEW q \in join[c], ReadHistory(c, q)
  PROVE  Reading(c)' /\ Owed(c)' /\ Served(c)'
  <1>0. /\ TypeOK /\ Numbered /\ Reading(c) /\ Owed(c) /\ Served(c)
        /\ q \in Request /\ q.cursor \in Nat /\ Known(c, q.cursor)
    BY DEF IInv, TypeOK, Request, ReadHistory, Reading
  <1>1. UNCHANGED <<rows, conn, cache>> /\ ~q.read
    BY DEF ReadHistory
  <1>2. Known(c, cache[c].cursor)'
    BY <1>0, <1>1 DEF Reading, Known
  <1>3. CASE PrincipalOf[c] \notin active
    <2>1. join'[c] = join[c] \ {q} /\ wire'[c] = wire[c] \cup {Refused} /\ Refused.type = "refused"
      BY <1>0, <1>3 DEF ReadHistory, TypeOK, Refused
    <2>2. Reading(c)'
      BY <1>0, <1>1, <1>2, <2>1, ReadingKept DEF Reading
    <2> QED BY <1>0, <1>1, <2>1, <2>2 DEF Owed, Served, Replayed
  <1>4. CASE PrincipalOf[c] \in active
    <2> DEFINE page == Page(q.cursor)
               r == [[q EXCEPT !.read = TRUE] EXCEPT !.page = page]
    <2>1. join'[c] = (join[c] \ {q}) \cup {r} /\ UNCHANGED wire
      <3>1. join' = [join EXCEPT ![c] = (@ \ {q}) \cup {r}] /\ UNCHANGED wire
        BY <1>4, Zenon DEF ReadHistory
      <3> QED BY <1>0, <3>1 DEF TypeOK
    <2>2. r.read = TRUE /\ r.page = page
      BY <1>0 DEF Request
    <2>3. /\ page \subseteq rows
          /\ \A s \in rows : q.cursor < s.seq /\ s.seq <= Last(page) => s \in page
          /\ page = {} => \A s \in rows : s.seq <= q.cursor
      BY <1>0, Pages
    <2>4. Covered(c, page)
      <3>1. \A s \in rows : s.seq \in Nat
        BY <1>0 DEF Numbered, SeqOf
      <3>2. ASSUME ~cache[c].jumped, NEW s \in rows, s.seq <= Last(page)
            PROVE  s \in page \cup cache[c].shown
        <4>1. CASE s.seq <= q.cursor
          BY <1>0, <3>2, <4>1 DEF Known
        <4>2. CASE q.cursor < s.seq
          BY <2>3, <3>2, <4>2
        <4> QED BY <1>0, <3>1, <4>1, <4>2
      <3> QED BY <2>3, <3>2 DEF Covered
    <2>5. \A s \in {r} : s.read /\ Covered(c, s.page)'
      BY <1>1, <2>2, <2>4 DEF Covered
    <2>6. Reading(c)'
      BY <1>0, <1>1, <1>2, <2>1, <2>2, <2>5, ReadingKept DEF Reading
    <2>7. Owed(c)'
      <3>1. CASE page = {} /\ ~cache[c].jumped
        <4>1. rows \subseteq cache[c].shown
          BY <1>0, <2>3, <3>1 DEF Known
        <4>2. Replayed(c)'
          BY <1>0, <1>1, <4>1 DEF Replayed, Reading
        <4> QED BY <4>2 DEF Owed
      <3>2. CASE page # {}
        BY <2>1, <2>2, <3>2 DEF Owed
      <3> QED BY <1>1, <3>1, <3>2 DEF Owed
    <2> QED BY <1>0, <1>1, <2>6, <2>7 DEF Served
  <1> QED BY <1>3, <1>4

LEMMA JoinRoomKeeps ==
  ASSUME IInv, Numbered', Grown, NEW c \in Client, NEW q \in join[c], JoinRoom(c, q)
  PROVE  Reading(c)' /\ Owed(c)' /\ Served(c)'
  <1>0. TypeOK /\ Numbered /\ Reading(c) /\ Owed(c) /\ Served(c) /\ q.read /\ Covered(c, q.page)
    BY DEF IInv, TypeOK, JoinRoom, Reading
  <1>1. /\ UNCHANGED <<rows, cache>>
        /\ join'[c] = join[c] \ {q} /\ wire'[c] = wire[c] \cup {History(q.page)}
    BY <1>0 DEF JoinRoom, TypeOK
  <1>2. conn'[c].on = conn[c].on /\ conn'[c].stale = conn[c].stale /\ conn'[c].due = conn[c].due
    <2>1. conn'[c] = [conn[c] EXCEPT !.joined = TRUE] /\ conn[c] \in ConnRow
      BY <1>0 DEF JoinRoom, TypeOK, ConnRow
    <2> QED BY <2>1 DEF ConnRow
  <1>3. History(q.page).type = "history" /\ History(q.page).page = q.page
    BY DEF History
  <1>4. Known(c, cache[c].cursor)' /\ Covered(c, History(q.page).page)'
    BY <1>0, <1>1, <1>3 DEF Reading, Known, Covered
  <1>5. Reading(c)'
    BY <1>0, <1>1, <1>2, <1>3, <1>4, ReadingKept DEF Reading
  <1>6. Owed(c)' 
    BY <1>0, <1>1, <1>2, <1>3 DEF Owed, Replayed
  <1> QED BY <1>0, <1>1, <1>2, <1>5, <1>6 DEF Served

LEMMA ReceiveKeeps ==
  ASSUME IInv, Numbered', Grown, NEW c \in Client, NEW w \in wire[c], Receive(c, w)
  PROVE  Reading(c)' /\ Owed(c)' /\ Served(c)'
  <1>0. /\ TypeOK /\ Numbered /\ Reading(c) /\ Owed(c) /\ Served(c)
        /\ cache[c] \in CacheRow /\ conn[c] \in ConnRow
    BY DEF IInv, TypeOK, CacheRow, ConnRow
  <1>1. UNCHANGED <<rows, join>> /\ wire'[c] = wire[c] \ {w}
    BY <1>0 DEF Receive, TypeOK
  <1>2. CASE ReceiveHistory(c, w)
    <2>1. Covered(c, w.page) /\ w.type = "history" /\ w.page \subseteq rows
      BY <1>0, <1>2 DEF ReceiveHistory, Reading, Covered
    <2>2. PICK m : m = MergeHistory(c, w.page)
      OBVIOUS
    <2>3. m = [[[cache[c] EXCEPT !.shown = cache[c].shown \cup w.page] EXCEPT !.loading = FALSE]
                 EXCEPT !.cursor = IF w.page = {} THEN cache[c].cursor ELSE Last(w.page)]
      BY <2>2, Zenon DEF MergeHistory
    <2>4. /\ m.shown = cache[c].shown \cup w.page /\ m.jumped = cache[c].jumped
          /\ m.cursor = IF w.page = {} THEN cache[c].cursor ELSE Last(w.page)
      BY <1>0, <2>3 DEF CacheRow
    <2>5. cache'[c] = m
      BY <1>0, <1>2, <2>2 DEF ReceiveHistory, TypeOK
    <2>6. Known(c, cache[c].cursor)'
      <3>1. CASE w.page = {}
        BY <1>0, <1>1, <2>4, <2>5, <3>1 DEF Reading, Known
      <3>2. CASE w.page # {}
        <4>1. Last(w.page) <= Last(rows)
          BY <1>0, <2>1, LastOfPart
        <4> QED BY <1>1, <2>1, <2>4, <2>5, <3>2, <4>1 DEF Covered, Known
      <3> QED BY <3>1, <3>2
    <2>7. conn' = [conn EXCEPT ![c] = [conn[c] EXCEPT !.stale = (conn[c].stale \/ w.page # {})]]
      BY <1>2, Zenon DEF ReceiveHistory
    <2>8. /\ conn'[c].on = conn[c].on /\ conn'[c].due = conn[c].due
          /\ conn'[c].joined = conn[c].joined
          /\ conn'[c].stale <=> conn[c].stale \/ w.page # {}
      <3>1. PICK b \in BOOLEAN : /\ conn'[c] = [conn[c] EXCEPT !.stale = b]
                                 /\ b <=> conn[c].stale \/ w.page # {}
        BY <1>0, <2>7 DEF TypeOK
      <3> QED BY <1>0, <3>1 DEF ConnRow
    <2>9. Reading(c)'
      BY <1>0, <1>1, <2>1, <2>4, <2>5, <2>6, <2>8, ReadingKept DEF Reading
    <2>10. Owed(c)'
      BY <1>0, <1>1, <2>4, <2>5, <2>8 DEF Owed, Replayed
    <2> QED BY <1>0, <1>1, <2>8, <2>9, <2>10 DEF Served
  <1>3. CASE ReceiveOther(c, w)
    <2>1. UNCHANGED conn /\ w.type # "history"
      BY <1>3 DEF ReceiveOther
    <2>2. /\ cache[c].shown \subseteq cache'[c].shown /\ cache'[c].shown \subseteq rows
          /\ cache'[c].cursor = cache[c].cursor /\ cache'[c].jumped = cache[c].jumped
      <3>1. CASE w.type = "accepted"
        <4>1. w.row \in rows /\ cache'[c] = [cache[c] EXCEPT !.shown = @ \cup {w.row}]
          BY <1>0, <1>3, <3>1 DEF ReceiveOther, Reading, TypeOK
        <4> QED BY <1>0, <4>1 DEF CacheRow, Reading
      <3>2. CASE w.type = "refused"
        <4>1. cache'[c] = [cache[c] EXCEPT !.loading = FALSE]
          BY <1>0, <1>3, <3>2 DEF ReceiveOther, TypeOK
        <4> QED BY <1>0, <4>1 DEF CacheRow, Reading
      <3> QED BY <1>3, <3>1, <3>2 DEF ReceiveOther
    <2>3. Known(c, cache[c].cursor)'
      BY <1>0, <1>1, <2>2 DEF Reading, Known
    <2>4. Reading(c)'
      BY <1>0, <1>1, <2>1, <2>2, <2>3, ReadingKept DEF Reading
    <2>5. Owed(c)' /\ Served(c)'
      BY <1>0, <1>1, <2>1, <2>2 DEF Owed, Served, Replayed
    <2> QED BY <2>4, <2>5
  <1> QED BY <1>2, <1>3 DEF Receive

-----------------------------------------------------------------------------
(* The theorems *)

LEMMA InvStep == ASSUME IInv, ChatAssumption, [Next]_vars PROVE IInv'
  <1>1. CASE Next
    <2>1. TypeOK' /\ Numbered' /\ Grown
      BY <1>1, TypeStep, NumberStep
    <2>2. ASSUME NEW c \in Client PROVE Reading(c)' /\ Owed(c)' /\ Served(c)'
      <3>1. Aside(c) => Reading(c)' /\ Owed(c)' /\ Served(c)'
        BY <2>1, AsideKeeps
      <3>2. ASSUME NEW k \in Call, Send(k) \/ Handle(k) \/ SendFails(k) \/ Lose(k) PROVE Aside(c)
        BY <2>1, <3>2, HandlerAside
      <3>3. ASSUME NEW d \in Client, d # c, ClientStep(d) PROVE Aside(c)
        BY <3>3, OthersAside DEF IInv
      <3>4. CASE ClientStep(c)
        <4>1. CASE Replace(c) \/ Drop(c)
          BY <3>1, <4>1, HangUpAside DEF Replace, Drop
        <4>2. CASE Connect(c)
          BY <2>1, <4>2, ConnectKeeps
        <4>3. CASE LoadMore(c)
          BY <2>1, <4>3, LoadMoreKeeps
        <4>4. ASSUME NEW q \in join[c], ReadHistory(c, q) \/ JoinRoom(c, q)
              PROVE  Reading(c)' /\ Owed(c)' /\ Served(c)'
          BY <2>1, <4>4, ReadHistoryKeeps, JoinRoomKeeps
        <4>5. ASSUME NEW w \in wire[c], Receive(c, w) PROVE Reading(c)' /\ Owed(c)' /\ Served(c)'
          BY <2>1, <4>5, ReceiveKeeps
        <4> QED BY <3>4, <4>1, <4>2, <4>3, <4>4, <4>5 DEF ClientStep
      <3>5. CASE Crash
        BY <3>1, <3>5, HangUpAside DEF Crash
      <3>6. CASE \E p \in Principal : Deactivate(p)
        BY <3>1, <3>6 DEF Deactivate, Aside
      <3> QED BY <1>1, <3>1, <3>2, <3>3, <3>4, <3>5, <3>6 DEF Next, ClientStep
    <2> QED BY <2>1, <2>2 DEF IInv
  <1>2. CASE UNCHANGED vars
    BY <1>2, ZenonT(60) DEF vars, IInv, TypeOK, Numbered, StoredOnce, Reading, Known, Covered, Owed, Served,
                Replayed
  <1> QED BY <1>1, <1>2

\* The invariant of all the above: numbers without gaps, pages without gaps, and for each
\* connection what it has brought or still owes.
THEOREM Inductive == Spec => []IInv
  <1>1. Init => IInv
    BY Starts
  <1>2. IInv /\ [Next]_vars => IInv'
    BY ChatAssumption, InvStep
  <1> QED BY <1>1, <1>2, PTL DEF Spec

\* Tables, handlers, connections and caches stay well formed, and only a connection that is
\* up is in the room.
THEOREM TypeCorrect == Spec => []TypeOK
  BY Inductive, PTL DEF IInv

\* A message is stored once and under a number of its own, however its attempts interleave.
THEOREM MessagesAreStoredOnce == Spec => []StoredOnce
  <1>1. IInv => StoredOnce
    BY DEF IInv, Numbered
  <1> QED BY <1>1, Inductive, PTL

\* A client that has not jumped shows everything stored up to its cursor.
THEOREM CursorsSkipNothing == Spec => []NothingSkipped
  <1>1. IInv => NothingSkipped
    BY DEF IInv, Reading, Known, NothingSkipped
  <1> QED BY <1>1, Inductive, PTL

\* A client that has not jumped and whose connection settles shows what was stored when it
\* connected.
THEOREM MissedMessagesArrive == Spec => []MissedIsReplayed
  <1>1. IInv => MissedIsReplayed
    BY DEF IInv, Owed, TypeOK, Settled, MissedIsReplayed
  <1> QED BY <1>1, Inductive, PTL
=============================================================================
