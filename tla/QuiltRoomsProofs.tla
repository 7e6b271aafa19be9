--------------------------- MODULE QuiltRoomsProofs ---------------------------
(***************************************************************************)
(* The limits and the answers of QuiltRooms, for all patches, requests and  *)
(* limits.  The limits of the rooms a connection is in are kept only        *)
(* because those of the subscription in flight are: what it accepts is      *)
(* counted together with the old rooms, and the new among it against the    *)
(* churn of the window.                                                     *)
(***************************************************************************)
EXTENDS QuiltRooms, FiniteSetTheorems, TLAPS

\* The connection is within its limits.
Capped ==
  /\ IsFiniteSet(rooms) /\ Cardinality(rooms) <= MaxRooms
  /\ churn <= MaxChurn
  /\ \A r \in Room : Fits(scope[r])

\* And remains so if what the subscription has accepted so far is entered.
Counted ==
  /\ IsFiniteSet(accepted) /\ Cardinality(rooms \cup accepted) <= MaxRooms
  /\ Cardinality(accepted \ rooms) <= requested
  /\ churn + Cardinality(accepted \ rooms) <= MaxChurn
  /\ \A r \in Room : Fits(chunks[r])

\* What is accepted is what the answers say.
Answered ==
  /\ accepted = RoomsOf(answers)
  /\ \A r \in Room : chunks[r] = ScopeOf(answers, r)

RoomsInv == RoomsTypeOK /\ JoinedAsAnswered /\ Capped /\ Counted /\ Answered

-----------------------------------------------------------------------------
(* Sets of answers *)

\* One more answer adds its room, and its chunks to that room.
LEMMA AnAnswerAdds ==
  ASSUME NEW S, NEW z
  PROVE  /\ RoomsOf(S \cup {z}) = RoomsOf(S) \cup {z[1]}
         /\ ScopeOf(S \cup {z}, z[1]) = ScopeOf(S, z[1]) \cup z[2]
         /\ \A x : x # z[1] => ScopeOf(S \cup {z}, x) = ScopeOf(S, x)
<1>1. RoomsOf(S \cup {z}) = RoomsOf(S) \cup {z[1]}
  BY DEF RoomsOf
<1>2. ScopeOf(S \cup {z}, z[1]) = ScopeOf(S, z[1]) \cup z[2]
  <2> DEFINE Z == {b \in S : b[1] = z[1]}
  <2>1. {b \in S \cup {z} : b[1] = z[1]} = Z \cup {z}
    OBVIOUS
  <2> HIDE DEF Z
  <2>2. UNION {b[2] : b \in Z \cup {z}} = (UNION {b[2] : b \in Z}) \cup z[2]
    OBVIOUS
  <2>3. ScopeOf(S, z[1]) = UNION {b[2] : b \in Z}
    BY DEF ScopeOf, Z
  <2>4. ScopeOf(S \cup {z}, z[1]) = UNION {b[2] : b \in Z \cup {z}}
    BY <2>1 DEF ScopeOf
  <2>5. QED  BY <2>2, <2>3, <2>4
<1>3. ASSUME NEW x, x # z[1]
      PROVE  ScopeOf(S \cup {z}, x) = ScopeOf(S, x)
  <2>1. {b \in S \cup {z} : b[1] = x} = {b \in S : b[1] = x}
    BY <1>3
  <2>2. QED  BY <2>1 DEF ScopeOf
<1>4. QED  BY <1>1, <1>2, <1>3

\* The answers for some of the rooms name these rooms, and the same chunks of them.
LEMMA AnswersOfRooms ==
  ASSUME NEW S, NEW N, N \subseteq RoomsOf(S)
  PROVE  LET T == {z \in S : z[1] \in N}
         IN  /\ RoomsOf(T) = N
             /\ \A x : ScopeOf(T, x) = IF x \in N THEN ScopeOf(S, x) ELSE {}
<1> DEFINE T == {z \in S : z[1] \in N}
<1>1. RoomsOf(T) = N
  BY DEF RoomsOf
<1>2. ASSUME NEW x
      PROVE  ScopeOf(T, x) = IF x \in N THEN ScopeOf(S, x) ELSE {}
  <2>1. CASE x \in N
    <3>1. {z \in T : z[1] = x} = {z \in S : z[1] = x}
      BY <2>1
    <3>2. QED  BY <2>1, <3>1 DEF ScopeOf
  <2>2. CASE x \notin N
    <3>1. {z \in T : z[1] = x} = {}
      BY <2>2
    <3>2. QED  BY <2>2, <3>1 DEF ScopeOf
  <2>3. QED  BY <2>1, <2>2
<1>3. QED  BY <1>1, <1>2

\* No answer names no room and no chunk.
LEMMA NoAnswers == RoomsOf({}) = {} /\ \A x : ScopeOf({}, x) = {}
BY DEF RoomsOf, ScopeOf

\* A room without an answer has no chunks.
LEMMA UnansweredIsEmpty ==
  ASSUME NEW S, NEW r, r \notin RoomsOf(S)
  PROVE  ScopeOf(S, r) = {}
<1>1. {z \in S : z[1] = r} = {}
  BY DEF RoomsOf
<1>2. QED  BY <1>1 DEF ScopeOf

-----------------------------------------------------------------------------
(* The steps of a subscription *)

\* A request is well formed, and names a room of the quilt.
LEMMA RequestsNameRooms ==
  ASSUME NEW q \in RoomRequest, WellFormed(q)
  PROVE  Target(q) \in Room /\ q.chunks \subseteq ChunkAsked
BY QuiltRoomsAssumption DEF WellFormed, Target, Room, ChunkAsked

\* A subscription that has resolved nothing keeps the limits of the connection.
LEMMA FreshIsCounted ==
  ASSUME NEW p, Fresh(p), Capped', rooms' \subseteq Room, churn' \in Nat
  PROVE  Counted' /\ Answered'
<1>1. IsFiniteSet({}) /\ Cardinality({}) = 0
  BY FS_EmptySet
<1>2. accepted' = {} /\ requested' = 0 /\ answers' = {} /\ chunks' = [r \in Room |-> {}]
  BY DEF Fresh, NoChunks
<1>3. rooms' \cup accepted' = rooms' /\ accepted' \ rooms' = {}
  BY <1>2
<1>4. MaxRooms \in Nat /\ MaxChunks \in Nat /\ MaxChurn \in Nat
  BY QuiltRoomsAssumption
<1>5. Counted'
  BY <1>1, <1>2, <1>3, <1>4 DEF Counted, Capped, Fits
<1>6. Answered'
  BY <1>2, NoAnswers DEF Answered
<1>7. QED  BY <1>5, <1>6

\* A request that joins an accepted room, or opens a new one, is answered as it is entered.
LEMMA AcceptedIsAnswered ==
  ASSUME NEW q \in RoomRequest, RoomsInv, WellFormed(q), Accepted(q)
  PROVE  /\ Answered'
         /\ accepted' \subseteq Room /\ chunks' \in [Room -> SUBSET ChunkAsked]
         /\ answers' \subseteq Room \X SUBSET ChunkAsked
<1> DEFINE r == Target(q)
<1>1. r \in Room /\ q.chunks \subseteq ChunkAsked
  BY RequestsNameRooms
<1>2. /\ accepted' = accepted \cup {r} /\ answers' = answers \cup {<<r, q.chunks>>}
      /\ chunks' = [chunks EXCEPT ![r] = @ \cup q.chunks]
  BY DEF Accepted, MergedWith
<1>3. /\ accepted \subseteq Room /\ chunks \in [Room -> SUBSET ChunkAsked]
      /\ answers \subseteq Room \X SUBSET ChunkAsked
      /\ accepted = RoomsOf(answers) /\ \A x \in Room : chunks[x] = ScopeOf(answers, x)
  BY DEF RoomsInv, RoomsTypeOK, Answered
<1> HIDE DEF r
<1>4. /\ RoomsOf(answers') = RoomsOf(answers) \cup {r}
      /\ ScopeOf(answers', r) = ScopeOf(answers, r) \cup q.chunks
      /\ \A x : x # r => ScopeOf(answers', x) = ScopeOf(answers, x)
  <2> DEFINE z == <<r, q.chunks>>
  <2>1. answers' = answers \cup {z}
    BY <1>2
  <2>2. z[1] = r /\ z[2] = q.chunks
    OBVIOUS
  <2> HIDE DEF z
  <2>3. /\ RoomsOf(answers \cup {z}) = RoomsOf(answers) \cup {z[1]}
        /\ ScopeOf(answers \cup {z}, z[1]) = ScopeOf(answers, z[1]) \cup z[2]
        /\ \A x : x # z[1] => ScopeOf(answers \cup {z}, x) = ScopeOf(answers, x)
    BY AnAnswerAdds
  <2>4. QED  BY <2>1, <2>2, <2>3
<1>5. ASSUME NEW x \in Room
      PROVE  chunks'[x] = IF x = r THEN chunks[r] \cup q.chunks ELSE chunks[x]
  BY <1>1, <1>2, <1>3
<1>6. Answered'
  BY <1>1, <1>2, <1>3, <1>4, <1>5 DEF Answered
<1>7. QED  BY <1>1, <1>2, <1>3, <1>6

\* A new room that is admitted is within the limits together with all others.
LEMMA AdmittedIsCounted ==
  ASSUME NEW q \in RoomRequest, RoomsInv, Admit(q), UNCHANGED connection
  PROVE  Counted'
<1> DEFINE r == Target(q)
<1> USE DEF connection
<1>1. r \in Room /\ r \notin accepted /\ Fits(q.chunks) /\ HasSpace(r)
  BY RequestsNameRooms DEF Admit, Admissible
<1>2. /\ accepted' = accepted \cup {r} /\ requested' = RequestedBy(q)
      /\ chunks' = [chunks EXCEPT ![r] = @ \cup q.chunks]
      /\ churn + RequestedBy(q) <= MaxChurn /\ rooms' = rooms /\ churn' = churn
  BY DEF Admit, Accepted, MergedWith
<1>3. RequestedBy(q) = IF r \in rooms THEN requested ELSE requested + 1
  BY DEF RoomsInv, RoomsTypeOK, RequestedBy
<1>4. /\ IsFiniteSet(rooms) /\ IsFiniteSet(accepted)
      /\ requested \in Nat /\ churn \in Nat /\ MaxRooms \in Nat /\ MaxChurn \in Nat
      /\ chunks \in [Room -> SUBSET ChunkAsked]
  BY QuiltRoomsAssumption DEF RoomsInv, RoomsTypeOK, Capped, Counted
<1> HIDE DEF r
<1>5. IsFiniteSet(accepted')
  BY <1>2, <1>4, FS_AddElement
<1>6. Cardinality(rooms' \cup accepted') <= MaxRooms
  <2>1. IsFiniteSet(rooms \cup accepted) /\ Cardinality(rooms \cup accepted) \in Nat
    BY <1>4, FS_Union, FS_CardinalityType
  <2>2. CASE r \in rooms
    <3>1. rooms' \cup accepted' = rooms \cup accepted
      BY <1>2, <2>2
    <3>2. QED  BY <3>1 DEF RoomsInv, Counted
  <2>3. CASE r \notin rooms
    <3>1. Cardinality(rooms) + Cardinality(accepted) < MaxRooms
      BY <1>1, <2>3 DEF HasSpace
    <3>2. rooms' \cup accepted' = (rooms \cup accepted) \cup {r}
      BY <1>2
    <3>3. Cardinality((rooms \cup accepted) \cup {r}) = Cardinality(rooms \cup accepted) + 1
      BY <1>1, <2>1, <2>3, FS_AddElement
    <3>4. Cardinality(rooms \cup accepted) <= Cardinality(rooms) + Cardinality(accepted)
      <4>1. Cardinality(rooms \cup accepted)
              = Cardinality(rooms) + Cardinality(accepted) - Cardinality(rooms \cap accepted)
        BY <1>4, FS_Union
      <4>2. Cardinality(rooms \cap accepted) \in Nat
        BY <1>4, FS_Intersection, FS_CardinalityType
      <4>3. Cardinality(rooms) \in Nat /\ Cardinality(accepted) \in Nat
        BY <1>4, FS_CardinalityType
      <4>4. QED  BY <4>1, <4>2, <4>3
    <3>5. Cardinality(rooms) \in Nat /\ Cardinality(accepted) \in Nat
      BY <1>4, FS_CardinalityType
    <3>6. Cardinality(rooms' \cup accepted') = Cardinality(rooms \cup accepted) + 1
      BY <3>2, <3>3
    <3> HIDE DEF connection
    <3>7. QED  BY <1>4, <2>1, <3>1, <3>4, <3>5, <3>6
  <2>4. QED  BY <2>2, <2>3
<1>7. /\ Cardinality(accepted' \ rooms') <= requested'
      /\ churn' + Cardinality(accepted' \ rooms') <= MaxChurn
  <2>1. /\ Cardinality(accepted \ rooms) <= requested
        /\ IsFiniteSet(accepted \ rooms) /\ Cardinality(accepted \ rooms) \in Nat
        /\ churn + Cardinality(accepted \ rooms) <= MaxChurn
    BY <1>4, FS_Difference, FS_CardinalityType DEF RoomsInv, Counted
  <2>2. CASE r \in rooms
    <3>1. accepted' \ rooms' = accepted \ rooms
      BY <1>2, <2>2
    <3>2. QED  BY <1>2, <1>3, <1>4, <2>1, <2>2, <3>1
  <2>3. CASE r \notin rooms
    <3>1. accepted' \ rooms' = (accepted \ rooms) \cup {r}
      BY <1>2, <2>3
    <3>2. Cardinality((accepted \ rooms) \cup {r}) = Cardinality(accepted \ rooms) + 1
      BY <1>1, <2>1, FS_AddElement
    <3>3. Cardinality(accepted' \ rooms') = Cardinality(accepted \ rooms) + 1
      BY <3>1, <3>2
    <3>4. requested' = requested + 1 /\ churn' = churn /\ churn + requested' <= MaxChurn
      BY <1>2, <1>3, <2>3
    <3>5. QED  BY <1>4, <2>1, <3>3, <3>4
  <2>4. QED  BY <2>2, <2>3
<1>8. ASSUME NEW x \in Room
      PROVE  Fits(chunks'[x])
  <2>1. CASE x = r
    <3>1. chunks[r] = {}
      BY <1>1, UnansweredIsEmpty DEF RoomsInv, Answered
    <3>2. chunks'[r] = q.chunks
      BY <1>1, <1>2, <1>4, <3>1
    <3>3. QED  BY <1>1, <2>1, <3>2
  <2>2. CASE x # r
    <3>1. chunks'[x] = chunks[x]
      BY <1>2, <1>4, <2>2
    <3>2. QED  BY <3>1 DEF RoomsInv, Counted
  <2>3. QED  BY <2>1, <2>2
<1>9. QED  BY <1>5, <1>6, <1>7, <1>8 DEF Counted, Fits

\* A request merged into an accepted room changes no count but that of its chunks.
LEMMA MergedIsCounted ==
  ASSUME NEW q \in RoomRequest, RoomsInv, Merge(q), UNCHANGED connection
  PROVE  Counted'
<1> DEFINE r == Target(q)
<1> USE DEF connection
<1>1. r \in Room /\ r \in accepted /\ Fits(chunks[r] \cup q.chunks)
  BY RequestsNameRooms DEF Merge, Admissible
<1>2. /\ accepted' = accepted \cup {r} /\ requested' = requested
      /\ chunks' = [chunks EXCEPT ![r] = @ \cup q.chunks]
      /\ rooms' = rooms /\ churn' = churn
  BY DEF Merge, Accepted, MergedWith
<1>3. chunks \in [Room -> SUBSET ChunkAsked]
  BY DEF RoomsInv, RoomsTypeOK
<1> HIDE DEF r
<1>4. accepted' = accepted
  BY <1>1, <1>2
<1>5. ASSUME NEW x \in Room
      PROVE  Fits(chunks'[x])
  <2>1. CASE x = r
    BY <1>1, <1>2, <1>3, <2>1
  <2>2. CASE x # r
    <3>1. chunks'[x] = chunks[x]
      BY <1>2, <1>3, <2>2
    <3>2. QED  BY <3>1 DEF RoomsInv, Counted
  <2>3. QED  BY <2>1, <2>2
<1>6. QED  BY <1>2, <1>4, <1>5 DEF RoomsInv, Counted, Fits
-----------------------------------------------------------------------------
(* Every step keeps the invariant *)

\* The connection starts in no room.
LEMMA RoomsInitInv == RoomsInit => RoomsInv
<1> SUFFICES ASSUME RoomsInit PROVE RoomsInv
  OBVIOUS
<1>1. IsFiniteSet({}) /\ Cardinality({}) = 0
  BY FS_EmptySet
<1>2. /\ rooms = {} /\ told = {} /\ accepted = {} /\ answers = {} /\ churn = 0 /\ requested = 0
      /\ scope = [r \in Room |-> {}] /\ chunks = [r \in Room |-> {}]
  BY DEF RoomsInit, NoChunks
<1>3. MaxRooms \in Nat /\ MaxChunks \in Nat /\ MaxChurn \in Nat
  BY QuiltRoomsAssumption
<1>4. RoomsTypeOK
  BY <1>2 DEF RoomsInit, RoomsTypeOK
<1>5. JoinedAsAnswered /\ Answered
  BY <1>2, NoAnswers DEF JoinedAsAnswered, Answered
<1>6. rooms \cup accepted = {} /\ accepted \ rooms = {}
  BY <1>2
<1>7. Capped
  BY <1>1, <1>2, <1>3 DEF Capped, Fits
<1>8. Counted
  BY <1>1, <1>2, <1>3, <1>6 DEF Counted, Fits
<1>9. QED  BY <1>4, <1>5, <1>7, <1>8 DEF RoomsInv

\* A subscription that begins only counts the churn of its window.
LEMMA BeginInv ==
  ASSUME RoomsInv, NEW lapsed \in BOOLEAN, Begin(lapsed)
  PROVE  RoomsInv'
<1>1. /\ rooms' = rooms /\ scope' = scope /\ told' = told /\ patchRow' = patchRow
      /\ Fresh("resolving") /\ visible' \subseteq Room
      /\ churn' = IF lapsed THEN 0 ELSE churn
  BY DEF Begin
<1>2. RoomsTypeOK /\ MaxChurn \in Nat
  BY QuiltRoomsAssumption DEF RoomsInv
<1>3. Capped' /\ JoinedAsAnswered'
  BY <1>1, <1>2 DEF RoomsInv, Capped, JoinedAsAnswered, RoomsTypeOK
<1>4. Counted' /\ Answered'
  BY <1>1, <1>2, <1>3, FreshIsCounted DEF RoomsTypeOK
<1>5. RoomsTypeOK'
  BY <1>1, <1>2 DEF RoomsTypeOK, Fresh, NoChunks
<1>6. QED  BY <1>3, <1>4, <1>5 DEF RoomsInv

\* Each request is answered within the limits.
LEMMA ResolveInv ==
  ASSUME RoomsInv, NEW q \in RoomRequest, Resolve(q)
  PROVE  RoomsInv'
<1>1. /\ UNCHANGED <<patchRow, connection, phase, visible, snapshots>> /\ count' = count + 1
      /\ Refuse(q) \/ Merge(q) \/ TooMuchChurn(q) \/ Admit(q)
  BY DEF Resolve
<1>2. Capped' /\ JoinedAsAnswered'
  BY <1>1 DEF RoomsInv, connection, Capped, JoinedAsAnswered
<1>3. RequestedBy(q) \in Nat /\ RequestedBy(q) >= requested
  BY DEF RoomsInv, RoomsTypeOK, RequestedBy
<1>4. requested' \in Nat
  BY <1>1, <1>3 DEF RoomsInv, RoomsTypeOK, Refuse, Merge, TooMuchChurn, Admit
<1>5. /\ Counted' /\ Answered'
      /\ accepted' \subseteq Room /\ chunks' \in [Room -> SUBSET ChunkAsked]
      /\ answers' \subseteq Room \X SUBSET ChunkAsked
  <2>1. CASE Refuse(q)
    BY <1>1, <2>1 DEF Refuse, RoomsInv, RoomsTypeOK, connection, Counted, Answered
  <2>2. CASE TooMuchChurn(q)
    <3>1. /\ requested' = RequestedBy(q) /\ accepted' = accepted
          /\ chunks' = chunks /\ answers' = answers /\ rooms' = rooms /\ churn' = churn
      BY <1>1, <2>2 DEF TooMuchChurn, connection
    <3>2. Cardinality(accepted \ rooms) \in Nat
      BY FS_Difference, FS_CardinalityType DEF RoomsInv, Counted
    <3>3. Counted'
      BY <1>3, <3>1, <3>2 DEF RoomsInv, RoomsTypeOK, Counted
    <3>4. QED  BY <3>1, <3>3 DEF RoomsInv, RoomsTypeOK, Answered
  <2>3. CASE Merge(q)
    <3>1. WellFormed(q) /\ Accepted(q) /\ UNCHANGED connection
      BY <1>1, <2>3 DEF Merge, Admissible
    <3>2. QED  BY <2>3, <3>1, MergedIsCounted, AcceptedIsAnswered
  <2>4. CASE Admit(q)
    <3>1. WellFormed(q) /\ Accepted(q) /\ UNCHANGED connection
      BY <1>1, <2>4 DEF Admit, Admissible
    <3>2. QED  BY <2>4, <3>1, AdmittedIsCounted, AcceptedIsAnswered
  <2>5. QED  BY <1>1, <2>1, <2>2, <2>3, <2>4
<1>6. RoomsTypeOK'
  BY <1>1, <1>4, <1>5 DEF RoomsInv, RoomsTypeOK, connection, snapshots
<1>7. QED  BY <1>2, <1>5, <1>6 DEF RoomsInv

\* A subscription that fails leaves the connection in its old rooms.
LEMMA FailInv ==
  ASSUME RoomsInv, Fail
  PROVE  RoomsInv'
<1>1. /\ rooms' = rooms /\ scope' = scope /\ told' = told /\ churn' = churn
      /\ patchRow' = patchRow /\ Fresh("none") /\ visible' = {}
  BY DEF Fail, connection
<1>2. Capped' /\ JoinedAsAnswered'
  BY <1>1 DEF RoomsInv, Capped, JoinedAsAnswered
<1>3. Counted' /\ Answered'
  BY <1>1, <1>2, FreshIsCounted DEF RoomsInv, RoomsTypeOK
<1>4. RoomsTypeOK'
  BY <1>1 DEF RoomsInv, RoomsTypeOK, Fresh, NoChunks
<1>5. QED  BY <1>2, <1>3, <1>4 DEF RoomsInv

\* The connection enters accepted rooms, dropped ones left out, with the answers for them.
LEMMA EnterInv ==
  ASSUME RoomsInv, Enter
  PROVE  RoomsInv'
<1> DEFINE next == accepted \ dropped
<1>1. /\ rooms' = next /\ scope' = [r \in Room |-> IF r \in next THEN chunks[r] ELSE {}]
      /\ churn' = churn + Cardinality(next \ rooms)
      /\ told' = {a \in answers : a[1] \in next}
      /\ Fresh("none") /\ visible' = {} /\ patchRow' = patchRow
  BY DEF Enter
<1>2. /\ RoomsTypeOK /\ Counted /\ Answered /\ Capped
      /\ MaxRooms \in Nat /\ MaxChunks \in Nat /\ MaxChurn \in Nat
  BY QuiltRoomsAssumption DEF RoomsInv
<1>3. next \subseteq accepted /\ next \subseteq Room
  BY <1>2 DEF RoomsTypeOK
<1> HIDE DEF next
<1>4. IsFiniteSet(next) /\ Cardinality(next) <= MaxRooms
  <2>1. IsFiniteSet(rooms \cup accepted)
    BY <1>2, FS_Union DEF Counted, Capped
  <2>2. Cardinality(next) <= Cardinality(rooms \cup accepted)
    BY <1>3, <2>1, FS_Subset
  <2>3. IsFiniteSet(next)
    BY <1>2, <1>3, FS_Subset DEF Counted
  <2>4. Cardinality(next) \in Nat /\ Cardinality(rooms \cup accepted) \in Nat
    BY <2>1, <2>3, FS_CardinalityType
  <2>5. QED  BY <1>2, <2>2, <2>3, <2>4 DEF Counted
<1>5. Cardinality(next \ rooms) \in Nat /\ churn + Cardinality(next \ rooms) <= MaxChurn
  <2>1. IsFiniteSet(accepted \ rooms) /\ IsFiniteSet(next \ rooms)
    BY <1>2, <1>4, FS_Difference DEF Counted
  <2>2. Cardinality(next \ rooms) <= Cardinality(accepted \ rooms)
    <3>1. next \ rooms \subseteq accepted \ rooms
      BY <1>3
    <3>2. QED  BY <2>1, <3>1, FS_Subset
  <2>3. Cardinality(next \ rooms) \in Nat /\ Cardinality(accepted \ rooms) \in Nat
    BY <2>1, FS_CardinalityType
  <2>4. churn \in Nat /\ churn + Cardinality(accepted \ rooms) <= MaxChurn
    BY <1>2 DEF RoomsTypeOK, Counted
  <2>5. QED  BY <1>2, <2>2, <2>3, <2>4
<1>6. ASSUME NEW r \in Room
      PROVE  Fits(scope'[r])
  <2>1. scope'[r] = IF r \in next THEN chunks[r] ELSE {}
    BY <1>1
  <2>2. Fits(chunks[r])
    BY <1>2 DEF Counted
  <2>3. Cardinality({}) = 0
    BY FS_EmptySet
  <2>4. QED  BY <1>2, <2>1, <2>2, <2>3 DEF Fits
<1>7. Capped'
  BY <1>1, <1>4, <1>5, <1>6 DEF Capped, Fits
<1>8. JoinedAsAnswered'
  <2>1. next \subseteq RoomsOf(answers)
    BY <1>2, <1>3 DEF Answered
  <2>2. /\ RoomsOf({z \in answers : z[1] \in next}) = next
        /\ \A x : ScopeOf({z \in answers : z[1] \in next}, x)
                    = IF x \in next THEN ScopeOf(answers, x) ELSE {}
    BY <2>1, AnswersOfRooms
  <2>3. /\ RoomsOf(told') = next
        /\ \A x : ScopeOf(told', x) = IF x \in next THEN ScopeOf(answers, x) ELSE {}
    BY <1>1, <2>2
  <2>4. \A r \in Room : chunks[r] = ScopeOf(answers, r)
    BY <1>2 DEF Answered
  <2>5. \A r \in Room : scope'[r] = ScopeOf(told', r)
    BY <1>1, <2>3, <2>4
  <2>6. QED  BY <1>1, <2>3, <2>5 DEF JoinedAsAnswered
<1>9. churn' \in Nat /\ rooms' \subseteq Room
  BY <1>1, <1>2, <1>3, <1>5 DEF RoomsTypeOK
<1>10. Counted' /\ Answered'
  BY <1>1, <1>7, <1>9, FreshIsCounted
<1>11. scope' \in [Room -> SUBSET ChunkAsked]
  <2>1. \A r \in Room : chunks[r] \in SUBSET ChunkAsked
    BY <1>2 DEF RoomsTypeOK
  <2>2. QED  BY <1>1, <2>1
<1>12. told' \subseteq Room \X SUBSET ChunkAsked
  BY <1>1, <1>2 DEF RoomsTypeOK
<1>13. RoomsTypeOK'
  BY <1>1, <1>2, <1>9, <1>11, <1>12 DEF RoomsTypeOK, Fresh, NoChunks
<1>14. QED  BY <1>7, <1>8, <1>10, <1>13 DEF RoomsInv

\* No step breaks the invariant.
LEMMA RoomsStepInv == RoomsInv /\ [RoomsNext]_roomVars => RoomsInv'
<1> SUFFICES ASSUME RoomsInv, [RoomsNext]_roomVars PROVE RoomsInv'
  OBVIOUS
<1> USE DEF connection, resolution, snapshots
<1>1. CASE \E lapsed \in BOOLEAN : Begin(lapsed)
  BY <1>1, BeginInv
<1>2. CASE \E q \in RoomRequest : Resolve(q)
  BY <1>2, ResolveInv
<1>3. CASE Resolved
  BY <1>3 DEF Resolved, RoomsInv, RoomsTypeOK, JoinedAsAnswered, Capped, Counted, Answered
<1>4. CASE Fail
  BY <1>4, FailInv
<1>5. CASE Enter
  BY <1>5, EnterInv
<1>6. CASE \E r \in Room, large \in BOOLEAN : LoadSnapshot(r, large)
  <2>1. PICK r \in Room, large \in BOOLEAN : LoadSnapshot(r, large)
    BY <1>6
  <2>2. /\ UNCHANGED <<patchRow, connection, phase, visible, resolution>>
        /\ loaded' \subseteq Room /\ dropped' \subseteq Room
    BY <2>1 DEF LoadSnapshot, RoomsInv, RoomsTypeOK
  <2>3. QED
    BY <2>2 DEF RoomsInv, RoomsTypeOK, JoinedAsAnswered, Capped, Counted, Answered
<1>7. CASE \E p \in Patch, row \in Row : Change(p, row)
  <2>1. PICK p \in Patch, row \in Row : Change(p, row)
    BY <1>7
  <2>2. /\ UNCHANGED <<connection, phase, visible, resolution, snapshots>>
        /\ patchRow' \in [Patch -> Row]
    BY <2>1 DEF Change, RoomsInv, RoomsTypeOK
  <2>3. QED
    BY <2>2 DEF RoomsInv, RoomsTypeOK, JoinedAsAnswered, Capped, Counted, Answered
<1>8. CASE UNCHANGED roomVars
  BY <1>8 DEF roomVars, RoomsInv, RoomsTypeOK, JoinedAsAnswered, Capped, Counted, Answered
<1>9. QED  BY <1>1, <1>2, <1>3, <1>4, <1>5, <1>6, <1>7, <1>8 DEF RoomsNext

\* The invariant holds throughout.
LEMMA RoomsAlwaysInv == RoomsSpec => []RoomsInv
BY RoomsInitInv, RoomsStepInv, PTL DEF RoomsSpec

\* The connection's rooms and its subscription stay well formed.
THEOREM TypeCorrect == RoomsSpec => []RoomsTypeOK
<1>1. RoomsInv => RoomsTypeOK
  BY DEF RoomsInv
<1>2. QED  BY <1>1, RoomsAlwaysInv, PTL

\* resolveQuiltRooms and the handler that enters its rooms keep the limits of a connection,
\* whatever is asked for and however patches change in between.
THEOREM BudgetsHold == RoomsSpec => []WithinBudgets
<1>1. RoomsInv => WithinBudgets
  BY DEF RoomsInv, RoomsTypeOK, Capped, WithinBudgets, Fits
<1>2. QED  BY <1>1, RoomsAlwaysInv, PTL

\* subscribe_quilt_area answers with the rooms and chunks it enters, no more and no fewer.
THEOREM AnswersAreJoined == RoomsSpec => []JoinedAsAnswered
<1>1. RoomsInv => JoinedAsAnswered
  BY DEF RoomsInv
<1>2. QED  BY <1>1, RoomsAlwaysInv, PTL
=============================================================================
