--------------------------- MODULE StopStateProofs ---------------------------
(* Proofs about StopState, for every number of threads and callbacks and    *)
(* every depth of nested calls.                                             *)
EXTENDS StopState, SequenceTheorems, WellFoundedInduction, TLAPS

(* Calls as cells: the place of a call and the callback it is about, by      *)
(* thread and depth.                                                         *)
Place(t, i) == IF i \in 1 .. Len(stack[t]) THEN stack[t][i].at ELSE "none"
Of(t, i) == IF i \in 1 .. Len(stack[t]) THEN stack[t][i].cb ELSE Null

Requesters == {"notify", "pop", "run", "lastrun"}
Runners == {"run", "lastrun"}
Makers == {"register", "link", "selfrun"}
Enders == {"remove", "away"}

(* One call of request_stop at most, and it lasts until the list is empty.   *)
RequesterInv ==
  /\ \A t, u \in Threads : \A i, j \in Nat :
       Place(t, i) \in Requesters /\ Place(u, j) \in Requesters => t = u /\ i = j
  /\ \A t \in Threads : \A i \in Nat :
       /\ Place(t, i) \in Requesters => requested
       /\ Place(t, i) = "lastrun" => head = Null
       /\ Place(t, i) \in {"notify", "pop"} => Of(t, i) = Null
  /\ requested /\ head # Null => \E t \in Threads : \E i \in Nat : Place(t, i) \in Requesters

(* A constructor or destructor is one call, and it knows the object's stage. *)
CallInv ==
  /\ \A t \in Threads : \A i \in Nat :
       /\ Place(t, i) \in Makers => Of(t, i) \in Callbacks /\ life[Of(t, i)] = "constructing"
       /\ Place(t, i) \in Enders => Of(t, i) \in held /\ life[Of(t, i)] = "destroying"
       /\ Place(t, i) = "away" => ~Listed(Of(t, i))
  /\ \A t, u \in Threads : \A i, j \in Nat :
       /\ Place(t, i) \in Makers \cup Enders /\ Place(u, j) \in Makers \cup Enders
       /\ Of(t, i) = Of(u, j)
       => t = u /\ i = j

(* The callback request_stop runs is flagged while it exists; once it is     *)
(* gone request_stop has been told, before it looks at the object again.     *)
RunInv ==
  /\ \A t \in Threads : \A i \in Nat : Place(t, i) \in Runners =>
       /\ Of(t, i) \in held
       /\ \/ life[Of(t, i)] = "dead" /\ destroyed
          \/ /\ life[Of(t, i)] # "dead" /\ ~destroyed
             /\ Of(t, i) \in flagged \ done
  /\ \A c \in flagged : life[c] # "dead" =>
       \E t \in Threads : \E i \in Nat : Place(t, i) \in Runners /\ Of(t, i) = c

(* The list is doubly linked, holds existing objects only, and holds every   *)
(* registered one that request_stop has not taken out.                       *)
Linked(c) == life[c] # "dead" /\ Listed(c)
ListInv ==
  /\ \A c \in held : life[c] \in {"alive", "destroying", "dead"}
  /\ \A c \in held : life[c] = "dead" \/ Listed(c) \/ c \in flagged \cup done
  /\ \A c \in Callbacks \ held : prev[c] = Null /\ c # head /\ c \notin flagged \cup done
  /\ head # Null => life[head] # "dead" /\ prev[head] = Null
  /\ \A c \in Callbacks : Linked(c) =>
       /\ c \notin flagged \cup done
       /\ next[c] # Null => Linked(next[c]) /\ prev[next[c]] = c
       /\ prev[c] # Null => Linked(prev[c]) /\ next[prev[c]] = c

(* It has no cycle: going back through m_prev ends.                          *)
RankInv ==
  \E rank \in [Callbacks -> Nat] :
    \A c \in Callbacks : Linked(c) /\ prev[c] # Null => rank[prev[c]] < rank[c]

IInv == TypeOK /\ RequesterInv /\ CallInv /\ RunInv /\ ListInv /\ RankInv

-----------------------------------------------------------------------------
(* A call, a step inside a call and a return each change one cell.          *)
Moves(t, n, old, a, c) ==
  /\ Place(t, n) = old
  /\ Place(t, n)' = a /\ Of(t, n)' = c
  /\ \A u \in Threads : \A i \in Nat :
       u # t \/ i # n => Place(u, i)' = Place(u, i) /\ Of(u, i)' = Of(u, i)

LEMMA AppendOne ==
  ASSUME NEW S, NEW s \in Seq(S), NEW x \in S
  PROVE  /\ Append(s, x) \in Seq(S) /\ Len(s) \in Nat /\ Len(Append(s, x)) = Len(s) + 1
         /\ Append(s, x)[Len(s) + 1] = x
         /\ \A i \in 1 .. Len(s) : Append(s, x)[i] = s[i]
BY AppendProperties, LenProperties

LEMMA DropLast ==
  ASSUME NEW S, NEW s \in Seq(S), s # <<>>
  PROVE  /\ Len(s) \in Nat \ {0}
         /\ SubSeq(s, 1, Len(s) - 1) \in Seq(S) /\ Len(SubSeq(s, 1, Len(s) - 1)) = Len(s) - 1
         /\ \A i \in 1 .. Len(s) - 1 : SubSeq(s, 1, Len(s) - 1)[i] = s[i]
<1>1. Len(s) \in Nat \ {0}
  BY EmptySeq, LenProperties
<1>2. PICK k \in Nat : k = Len(s) - 1
  BY <1>1
<1>3. \A i \in 1 .. k : s[i] \in S
  BY <1>1, <1>2, ElementOfSeq
<1>4. PICK r : r = SubSeq(s, 1, k)
  OBVIOUS
<1>5. /\ r \in Seq(S) /\ Len(r) = IF 1 <= k THEN k - 1 + 1 ELSE 0
      /\ \A i \in 1 .. k - 1 + 1 : r[i] = s[1 + i - 1]
  BY <1>3, <1>4, SubSeqProperties
<1>6. Len(r) = k /\ \A i \in 1 .. k : r[i] = s[i]
  BY <1>5
<1>7. QED
  BY <1>1, <1>2, <1>4, <1>5, <1>6

LEMMA CallMoves ==
  ASSUME TypeOK, NEW t \in Threads, NEW a \in Places, NEW c \in Ref, Call(t, a, c)
  PROVE  stack' \in [Threads -> Seq(Frame)] /\ \E n \in Nat : Moves(t, n, "none", a, c)
<1>1. PICK f \in Frame : f = [at |-> a, cb |-> c]
  BY DEF Frame
<1>2. stack \in [Threads -> Seq(Frame)] /\ stack' = [stack EXCEPT ![t] = Append(stack[t], f)]
  BY <1>1 DEF Call, TypeOK
<1>3. stack[t] \in Seq(Frame)
  BY <1>2
<1>4. PICK n \in Nat : n = Len(stack[t]) + 1
  BY <1>3, LenProperties
<1>5. stack'[t] = Append(stack[t], f) /\ \A u \in Threads \ {t} : stack'[u] = stack[u]
  BY <1>2
<1>6. /\ stack'[t] \in Seq(Frame) /\ Len(stack[t]) = n - 1 /\ Len(stack'[t]) = n
      /\ stack'[t][n] = f /\ \A i \in 1 .. n - 1 : stack'[t][i] = stack[t][i]
  BY <1>3, <1>4, <1>5, AppendOne
<1>7. stack' \in [Threads -> Seq(Frame)]
  BY <1>2, <1>5, <1>6
<1>8. n \in 1 .. n /\ n \notin 1 .. n - 1
  BY <1>4
<1>9. Place(t, n) = "none" /\ Place(t, n)' = a /\ Of(t, n)' = c
  BY <1>1, <1>6, <1>8 DEF Place, Of
<1>10. ASSUME NEW u \in Threads, NEW i \in Nat, u # t \/ i # n
       PROVE  Place(u, i)' = Place(u, i) /\ Of(u, i)' = Of(u, i)
  <2>1. CASE u # t
    BY <1>5, <2>1 DEF Place, Of
  <2>2. CASE u = t /\ i # n
    <3>1. i \in 1 .. n <=> i \in 1 .. n - 1
      BY <2>2
    <3>2. QED
      BY <1>6, <2>2, <3>1 DEF Place, Of
  <2>3. QED
    BY <1>10, <2>1, <2>2
<1>11. QED
  BY <1>7, <1>9, <1>10 DEF Moves

LEMMA GotoMoves ==
  ASSUME TypeOK, NEW t \in Threads, NEW o \in Places, At(t, o), NEW a \in Places, NEW c \in Ref,
         Goto(t, a, c)
  PROVE  /\ stack' \in [Threads -> Seq(Frame)]
         /\ \E n \in Nat : Moves(t, n, o, a, c) /\ Of(t, n) = Top(t).cb
<1>1. PICK f \in Frame : f = [at |-> a, cb |-> c]
  BY DEF Frame
<1>2. stack \in [Threads -> Seq(Frame)] /\ stack[t] # <<>> /\ stack[t] \in Seq(Frame)
  BY DEF TypeOK, At
<1>3. PICK n \in Nat \ {0} : n = Len(stack[t])
  BY <1>2, DropLast
<1>4. PICK s \in Seq(Frame) : /\ s = SubSeq(stack[t], 1, n - 1) /\ Len(s) = n - 1
                              /\ \A i \in 1 .. n - 1 : s[i] = stack[t][i]
  BY <1>2, <1>3, DropLast
<1>5. stack' = [stack EXCEPT ![t] = Append(s, f)]
  BY <1>1, <1>3, <1>4 DEF Goto
<1>6. stack'[t] = Append(s, f) /\ \A u \in Threads \ {t} : stack'[u] = stack[u]
  BY <1>2, <1>5
<1>7. /\ stack'[t] \in Seq(Frame) /\ Len(stack'[t]) = n /\ stack'[t][n] = f
      /\ \A i \in 1 .. n - 1 : stack'[t][i] = stack[t][i]
  BY <1>4, <1>6, AppendOne
<1>8. stack' \in [Threads -> Seq(Frame)]
  BY <1>2, <1>5, <1>6, <1>7
<1>9. n \in 1 .. n
  BY <1>3
<1>10. Place(t, n) = o /\ Place(t, n)' = a /\ Of(t, n)' = c /\ Of(t, n) = Top(t).cb
  BY <1>1, <1>3, <1>7, <1>9 DEF Place, Of, At, Top
<1>11. ASSUME NEW u \in Threads, NEW i \in Nat, u # t \/ i # n
       PROVE  Place(u, i)' = Place(u, i) /\ Of(u, i)' = Of(u, i)
  <2>1. CASE u # t
    BY <1>6, <2>1 DEF Place, Of
  <2>2. CASE u = t /\ i # n
    <3>1. i \in 1 .. n <=> i \in 1 .. n - 1
      BY <2>2
    <3>2. QED
      BY <1>3, <1>7, <2>2, <3>1 DEF Place, Of
  <2>3. QED
    BY <1>11, <2>1, <2>2
<1>12. QED
  BY <1>8, <1>10, <1>11 DEF Moves

LEMMA ReturnMoves ==
  ASSUME TypeOK, NEW t \in Threads, NEW o \in Places, At(t, o), Return(t)
  PROVE  /\ stack' \in [Threads -> Seq(Frame)]
         /\ \E n \in Nat : Moves(t, n, o, "none", Null) /\ Of(t, n) = Top(t).cb
<1>1. stack \in [Threads -> Seq(Frame)] /\ stack[t] # <<>> /\ stack[t] \in Seq(Frame)
  BY DEF TypeOK, At
<1>2. PICK n \in Nat \ {0} : n = Len(stack[t])
  BY <1>1, DropLast
<1>3. PICK s \in Seq(Frame) : /\ s = SubSeq(stack[t], 1, n - 1) /\ Len(s) = n - 1
                              /\ \A i \in 1 .. n - 1 : s[i] = stack[t][i]
  BY <1>1, <1>2, DropLast
<1>4. stack' = [stack EXCEPT ![t] = s]
  BY <1>2, <1>3 DEF Return
<1>5. stack'[t] = s /\ \A u \in Threads \ {t} : stack'[u] = stack[u]
  BY <1>1, <1>4
<1>6. stack' \in [Threads -> Seq(Frame)]
  BY <1>1, <1>3, <1>4
<1>7. n \in 1 .. n /\ n \notin 1 .. n - 1
  BY <1>2
<1>8. Place(t, n) = o /\ Place(t, n)' = "none" /\ Of(t, n)' = Null /\ Of(t, n) = Top(t).cb
  BY <1>2, <1>3, <1>5, <1>7 DEF Place, Of, At, Top
<1>9. ASSUME NEW u \in Threads, NEW i \in Nat, u # t \/ i # n
      PROVE  Place(u, i)' = Place(u, i) /\ Of(u, i)' = Of(u, i)
  <2>1. CASE u # t
    BY <1>5, <2>1 DEF Place, Of
  <2>2. CASE u = t /\ i # n
    <3>1. i \in 1 .. n <=> i \in 1 .. n - 1
      BY <2>2
    <3>2. QED
      BY <1>2, <1>3, <1>5, <2>2, <3>1 DEF Place, Of
  <2>3. QED
    BY <1>9, <2>1, <2>2
<1>10. QED
  BY <1>6, <1>8, <1>9 DEF Moves

-----------------------------------------------------------------------------
LEMMA ListUnchanged ==
  ASSUME ListInv, RankInv, UNCHANGED <<life, head, prev, next, flagged, done, held>>
  PROVE  ListInv' /\ RankInv'
BY DEF ListInv, RankInv, Linked, Listed

(* What a thread reads from its own call.                                   *)
LEMMA TopIsRef == ASSUME TypeOK, NEW t \in Threads, stack[t] # <<>> PROVE Top(t).cb \in Ref
<1>1. stack[t] \in Seq(Frame)
  BY DEF TypeOK
<1>2. Len(stack[t]) \in 1 .. Len(stack[t])
  BY <1>1, DropLast
<1>3. stack[t][Len(stack[t])] \in Frame
  BY <1>1, <1>2, ElementOfSeq
<1>4. QED
  BY <1>3 DEF Top, Frame

LEMMA InvInit == Init => IInv
<1> SUFFICES ASSUME Init PROVE IInv
  OBVIOUS
<1>1. TypeOK
  BY EmptySeq DEF Init, TypeOK, Ref
<1>2. \A t \in Threads : \A i \in Nat : Place(t, i) = "none"
  BY EmptySeq DEF Init, Place
<1>3. RequesterInv /\ CallInv /\ RunInv
  <2>1. "none" \notin Requesters \cup Makers \cup Enders \cup Runners /\ "none" # "away"
    BY DEF Requesters, Makers, Enders, Runners
  <2>2. RequesterInv
    BY <1>2, <2>1 DEF RequesterInv, Init
  <2>3. CallInv
    BY <1>2, <2>1 DEF CallInv
  <2>4. RunInv
    BY <1>2, <2>1 DEF RunInv, Init
  <2>5. QED
    BY <2>2, <2>3, <2>4
<1>4. ListInv
  BY StopAssumption DEF Init, ListInv, Linked, Listed
<1>5. RankInv
  <2>1. [c \in Callbacks |-> 0] \in [Callbacks -> Nat]
    OBVIOUS
  <2>2. QED
    BY <2>1 DEF Init, RankInv
<1>6. QED
  BY <1>1, <1>3, <1>4, <1>5 DEF IInv

(* A step to a place that is neither of a constructor nor of a destructor   *)
(* leaves those of the other calls where they were, still of one call each. *)
LEMMA CallsKept ==
  ASSUME CallInv, NEW t \in Threads, NEW n \in Nat, NEW old, NEW a, NEW c,
         Moves(t, n, old, a, c), a \notin Makers \cup Enders
  PROVE  /\ \A u \in Threads : \A i \in Nat :
              Place(u, i)' \in Makers \cup Enders => Place(u, i)' = Place(u, i) /\ Of(u, i)' = Of(u, i)
         /\ \A u, v \in Threads : \A i, j \in Nat :
              /\ Place(u, i)' \in Makers \cup Enders /\ Place(v, j)' \in Makers \cup Enders
              /\ Of(u, i)' = Of(v, j)'
              => u = v /\ i = j
<1>1. \A u \in Threads : \A i \in Nat :
        Place(u, i)' \in Makers \cup Enders => Place(u, i)' = Place(u, i) /\ Of(u, i)' = Of(u, i)
  BY DEF Moves
<1>2. QED
  BY <1>1 DEF CallInv

LEMMA RequestStopInv ==
  ASSUME IInv, NEW t \in Threads, RequestStop(t)
  PROVE  IInv'
<1>1. PICK n \in Nat : Moves(t, n, "none", "notify", Null) /\ stack' \in [Threads -> Seq(Frame)]
  BY CallMoves DEF IInv, RequestStop, Places, Ref
<1>2. TypeOK'
  BY <1>1 DEF IInv, TypeOK, RequestStop
<1>3. RequesterInv'
  BY <1>1 DEF IInv, RequesterInv, RequestStop, Moves, Requesters
<1>4. CallInv'
  <2>1. "notify" \notin Makers \cup Enders
    BY DEF Makers, Enders
  <2>2. UNCHANGED <<held, life, head, prev>>
    BY DEF RequestStop
  <2>3. CallInv
    BY DEF IInv
  <2>4. /\ \A u \in Threads : \A i \in Nat :
             Place(u, i)' \in Makers \cup Enders => Place(u, i)' = Place(u, i) /\ Of(u, i)' = Of(u, i)
        /\ \A u, v \in Threads : \A i, j \in Nat :
             /\ Place(u, i)' \in Makers \cup Enders /\ Place(v, j)' \in Makers \cup Enders
             /\ Of(u, i)' = Of(v, j)'
             => u = v /\ i = j
    BY <1>1, <2>1, <2>3, CallsKept
  <2>5. QED
    BY <2>2, <2>3, <2>4 DEF CallInv, Enders, Listed
<1>5. RunInv'
  BY <1>1 DEF IInv, RunInv, RequestStop, Moves, Runners
<1>6. ListInv' /\ RankInv'
  BY ListUnchanged DEF IInv, RequestStop
<1>7. QED
  BY <1>2, <1>3, <1>4, <1>5, <1>6 DEF IInv

LEMMA NotifyInv ==
  ASSUME IInv, NEW t \in Threads, Notify(t)
  PROVE  IInv'
<1>1. PICK n \in Nat : Moves(t, n, "notify", "pop", Null) /\ stack' \in [Threads -> Seq(Frame)]
  BY GotoMoves DEF IInv, Notify, Places, Ref
<1>2. TypeOK'
  BY <1>1 DEF IInv, TypeOK, Notify
<1>3. RequesterInv'
  BY <1>1 DEF IInv, RequesterInv, Notify, Moves, Requesters
<1>4. CallInv'
  BY <1>1 DEF IInv, CallInv, Notify, Moves, Makers, Enders, Listed
<1>5. RunInv'
  BY <1>1 DEF IInv, RunInv, Notify, Moves, Runners
<1>6. ListInv' /\ RankInv'
  BY ListUnchanged DEF IInv, Notify
<1>7. QED
  BY <1>2, <1>3, <1>4, <1>5, <1>6 DEF IInv

(* Taking out the first callback leaves a list behind it, and no requester  *)
(* is in the middle of running another.                                     *)
LEMMA PopInv ==
  ASSUME IInv, NEW t \in Threads, Pop(t)
  PROVE  IInv'
<1>1. CASE head = Null
  <2>1. PICK n \in Nat : Moves(t, n, "pop", "none", Null) /\ stack' \in [Threads -> Seq(Frame)]
    BY <1>1, ReturnMoves DEF IInv, Pop, Places
  <2>2. UNCHANGED <<state, life, ran>>
    BY <1>1 DEF Pop
  <2>3. TypeOK'
    BY <2>1, <2>2 DEF IInv, TypeOK, state
  <2>4. RequesterInv'
    BY <1>1, <2>1, <2>2 DEF IInv, RequesterInv, state, Moves, Requesters
  <2>5. CallInv'
    BY <2>1, <2>2 DEF IInv, CallInv, state, Moves, Makers, Enders, Listed
  <2>6. RunInv'
    BY <2>1, <2>2 DEF IInv, RunInv, state, Moves, Runners
  <2>7. ListInv' /\ RankInv'
    BY <2>2, ListUnchanged DEF IInv, state
  <2>8. QED
    BY <2>3, <2>4, <2>5, <2>6, <2>7 DEF IInv
<1>2. CASE head # Null
  <2>1. PICK c \in Callbacks : c = head
    BY <1>2 DEF IInv, TypeOK, Ref
  <2>2. PICK d \in Ref : d = next[c]
    BY DEF IInv, TypeOK
  <2>3. PICK a \in Runners : a = IF d = Null THEN "lastrun" ELSE "run"
    BY DEF Runners
  <2>4. PICK n \in Nat : Moves(t, n, "pop", a, c) /\ stack' \in [Threads -> Seq(Frame)]
    BY <1>2, <2>1, <2>2, <2>3, GotoMoves DEF IInv, Pop, Places, Ref, Runners
  <2>5. /\ head' = d /\ prev' = [e \in Callbacks |-> IF e = d THEN Null ELSE prev[e]]
        /\ ran' = ran \cup {c} /\ destroyed' = FALSE /\ flagged' = flagged \cup {c}
        /\ UNCHANGED <<requested, sources, requester, next, done, held, life>>
    BY <1>2, <2>1, <2>2 DEF Pop
  <2>6. TypeOK'
    BY <2>4, <2>5 DEF IInv, TypeOK, Ref
  <2>7. Linked(c) /\ prev[c] = Null /\ c \in held /\ c \notin done /\ life[c] # "dead" /\ d # c
    BY <1>2, <2>1, <2>2 DEF IInv, ListInv, Linked, Listed
  <2>8. \A e \in Callbacks : (Linked(e))' <=> Linked(e) /\ e # c
    BY <2>1, <2>2, <2>5, <2>7, StopAssumption DEF IInv, ListInv, Linked, Listed
  <2>9. RequesterInv'
    BY <2>3, <2>4, <2>5 DEF IInv, RequesterInv, Moves, Requesters, Runners
  <2>10. CallInv'
    <3>1. a \notin Makers \cup Enders /\ "pop" \notin Makers \cup Enders /\ a # "away"
      BY DEF Makers, Enders, Runners
    <3>2. \A e \in held : life[e] = "destroying" /\ ~Listed(e) => ~(Listed(e))'
      BY <2>5, <2>8 DEF IInv, TypeOK, Linked
    <3>3. "away" \in Enders
      BY DEF Enders
    <3>4. QED
      BY <2>4, <2>5, <3>1, <3>2, <3>3 DEF IInv, CallInv, Moves
  <2>11. RunInv'
    <3>1. \A u \in Threads : \A i \in Nat : Place(u, i) \notin Runners
      BY <2>4 DEF IInv, RequesterInv, Moves, Requesters, Runners
    <3>2. QED
      BY <2>1, <2>3, <2>4, <2>5, <2>7, <3>1 DEF IInv, RunInv, Moves
  <2>12. ListInv'
    BY <2>1, <2>2, <2>5, <2>7, <2>8, StopAssumption DEF IInv, ListInv, Linked, Listed, TypeOK, Ref
  <2>13. RankInv'
    BY <2>5, <2>8 DEF IInv, RankInv
  <2>14. QED
    BY <2>6, <2>9, <2>10, <2>11, <2>12, <2>13 DEF IInv
<1>3. QED
  BY <1>1, <1>2

LEMMA RunEndsInv ==
  ASSUME IInv, NEW t \in Threads, RunEnds(t)
  PROVE  IInv'
<1>1. PICK a \in Runners : At(t, a) /\ (a = "lastrun" <=> At(t, "lastrun"))
  BY DEF RunEnds, Runners, At
<1>2. PICK b \in {"none", "pop"}, n \in Nat :
        /\ Moves(t, n, a, b, Null) /\ Of(t, n) = Top(t).cb /\ stack' \in [Threads -> Seq(Frame)]
        /\ b = "none" <=> a = "lastrun"
  <2>1. CASE a = "lastrun"
    BY <1>1, <2>1, ReturnMoves DEF IInv, RunEnds, Places
  <2>2. CASE a # "lastrun"
    BY <1>1, <2>2, GotoMoves DEF IInv, RunEnds, Places, Runners, Ref
  <2>3. QED
    BY <2>1, <2>2
<1>3. PICK c \in Callbacks : c = Top(t).cb /\ c = Of(t, n) /\ c \in held
  BY <1>2 DEF IInv, RunInv, TypeOK, Moves
<1>4. UNCHANGED <<requested, sources, requester, head, prev, next, destroyed, held, life, ran>>
  BY DEF RunEnds
<1>5. /\ destroyed => flagged' = flagged /\ done' = done
      /\ ~destroyed => flagged' = flagged \ {c} /\ done' = done \cup {c}
  BY <1>3 DEF RunEnds
<1>6. /\ destroyed => life[c] = "dead"
      /\ ~destroyed => life[c] # "dead" /\ c \in flagged
  BY <1>2, <1>3 DEF IInv, RunInv, Moves
<1>7. TypeOK'
  BY <1>2, <1>3, <1>4, <1>5 DEF IInv, TypeOK
<1>8. RequesterInv'
  BY <1>2, <1>4 DEF IInv, RequesterInv, Moves, Requesters, Runners
<1>9. CallInv'
  BY SMTT(60), <1>2, <1>4 DEF IInv, CallInv, Moves, Makers, Enders, Runners, Listed
<1>10. RunInv'
  <2>1. \A u \in Threads : \A i \in Nat : Place(u, i)' \notin Runners
    BY <1>2 DEF IInv, RequesterInv, Moves, Requesters, Runners
  <2>2. \A e \in flagged : life[e] # "dead" => e = c
    BY SMTT(60), <1>2, <1>3 DEF IInv, RunInv, RequesterInv, Moves, Requesters, Runners
  <2>3. \A e \in flagged' : life'[e] = "dead"
    BY <1>4, <1>5, <1>6, <2>2
  <2>4. QED
    BY <2>1, <2>3 DEF RunInv, Runners
<1>11. ListInv'
  BY <1>3, <1>4, <1>5, <1>6 DEF IInv, ListInv, Linked, Listed
<1>12. RankInv'
  BY <1>4 DEF IInv, RankInv, Linked, Listed
<1>13. QED
  BY <1>7, <1>8, <1>9, <1>10, <1>11, <1>12 DEF IInv

LEMMA DropSourceInv ==
  ASSUME IInv, DropSource
  PROVE  IInv'
<1>1. UNCHANGED <<requested, requester, head, prev, next, flagged, destroyed, done, held, life,
                  ran, stack>> /\ sources' \in BOOLEAN
  BY DEF DropSource
<1>2. TypeOK'
  BY <1>1 DEF IInv, TypeOK
<1>3. RequesterInv' /\ CallInv' /\ RunInv'
  BY <1>1 DEF IInv, RequesterInv, CallInv, RunInv, Place, Of, Listed, Requesters, Makers, Enders,
     Runners
<1>4. QED
  BY <1>1, <1>2, <1>3, ListUnchanged DEF IInv

LEMMA ConstructInv ==
  ASSUME IInv, NEW t \in Threads, NEW c \in Callbacks, Construct(t, c)
  PROVE  IInv'
<1>1. PICK n \in Nat : Moves(t, n, "none", "register", c) /\ stack' \in [Threads -> Seq(Frame)]
  BY CallMoves DEF IInv, Construct, Places, Ref
<1>2. /\ UNCHANGED <<requested, sources, requester, head, prev, next, flagged, destroyed, done,
                     held, ran>>
      /\ life' = [life EXCEPT ![c] = "constructing"] /\ life[c] = "new"
  BY DEF Construct, Enter, state
<1>3. life \in [Callbacks -> {"new", "constructing", "alive", "destroying", "dead"}]
      /\ held \subseteq Callbacks /\ flagged \subseteq Callbacks /\ c \notin held
  BY <1>2 DEF IInv, TypeOK, ListInv
<1>4. TypeOK'
  BY <1>1, <1>2 DEF IInv, TypeOK
<1>5. RequesterInv'
  BY <1>1, <1>2 DEF IInv, RequesterInv, Moves, Requesters
<1>6. CallInv'
  <2>1. \A u \in Threads : \A i \in Nat : Place(u, i) \in Makers \cup Enders => Of(u, i) # c
    BY <1>2 DEF IInv, CallInv
  <2>2. "register" \in Makers /\ "register" \notin Enders /\ "away" \in Enders
    BY DEF Makers, Enders
  <2>3. QED
    BY <1>1, <1>2, <1>3, <2>1, <2>2 DEF IInv, CallInv, Moves, Listed, Makers, Enders
<1>7. RunInv'
  BY <1>1, <1>2, <1>3 DEF IInv, RunInv, Moves, Runners
<1>8. \A e \in Callbacks : (Linked(e))' <=> Linked(e)
  BY <1>2, <1>3 DEF Linked, Listed
<1>9. ListInv'
  <2>1. /\ next \in [Callbacks -> Ref] /\ prev \in [Callbacks -> Ref] /\ head \in Ref
    BY DEF IInv, TypeOK
  <2>2. QED
    BY <1>2, <1>3, <1>8, <2>1 DEF IInv, ListInv, Listed, Ref
<1>10. RankInv'
  BY <1>2, <1>8 DEF IInv, RankInv
<1>11. QED
  BY <1>4, <1>5, <1>6, <1>7, <1>9, <1>10 DEF IInv

(* register_callback goes on to another place for the same callback.        *)
LEMMA RegisterMoves ==
  ASSUME IInv, NEW t \in Threads, NEW o \in {"register", "link"}, NEW a \in {"link", "selfrun"},
         At(t, o), Goto(t, a, Top(t).cb), ran' \in SUBSET Callbacks, UNCHANGED <<state, life>>
  PROVE  IInv'
<1>1. PICK c \in Ref : c = Top(t).cb
  BY TopIsRef DEF IInv, At
<1>2. PICK n \in Nat : /\ Moves(t, n, o, a, c) /\ Of(t, n) = c
                       /\ stack' \in [Threads -> Seq(Frame)]
  BY <1>1, GotoMoves DEF IInv, Places
<1>3. TypeOK'
  BY <1>2 DEF IInv, TypeOK, state
<1>4. RequesterInv'
  BY SMTT(60), <1>2 DEF IInv, RequesterInv, Moves, Requesters, state
<1>5. CallInv'
  BY <1>2 DEF IInv, CallInv, Moves, Makers, Enders, Listed, state
<1>6. RunInv'
  BY <1>2 DEF IInv, RunInv, Moves, Runners, state
<1>7. QED
  BY <1>3, <1>4, <1>5, <1>6, ListUnchanged DEF IInv, state

LEMMA MakerKnowsCallback ==
  ASSUME IInv, NEW t \in Threads, NEW o \in Makers, At(t, o)
  PROVE  Top(t).cb \in Callbacks /\ life[Top(t).cb] = "constructing"
<1>1. stack[t] \in Seq(Frame) /\ stack[t] # <<>>
  BY DEF IInv, TypeOK, At
<1>2. PICK n \in Nat : n = Len(stack[t]) /\ n \in 1 .. Len(stack[t])
  BY <1>1, DropLast
<1>3. Place(t, n) = o /\ Of(t, n) = Top(t).cb
  BY <1>2 DEF Place, Of, Top, At
<1>4. QED
  BY <1>3 DEF IInv, CallInv

LEMMA RegisterInv ==
  ASSUME IInv, NEW t \in Threads, Register(t)
  PROVE  IInv'
<1>1. Top(t).cb \in Callbacks /\ ran \subseteq Callbacks
  BY MakerKnowsCallback DEF Register, Makers, IInv, TypeOK
<1>2. CASE requested /\ RunHere(t)
  BY <1>1, <1>2, RegisterMoves DEF Register, RunHere
<1>3. CASE ~requested /\ Goto(t, "link", Top(t).cb) /\ UNCHANGED <<state, life, ran>>
  BY <1>1, <1>3, RegisterMoves DEF Register
<1>4. QED
  BY <1>2, <1>3 DEF Register

(* A constructor returns for a callback that did not register.              *)
LEMMA ConstructorReturns ==
  ASSUME IInv, NEW t \in Threads, NEW o \in {"link", "selfrun"}, At(t, o), Return(t),
         Enter(Top(t).cb, "alive"), UNCHANGED <<state, ran>>
  PROVE  IInv'
<1>1. PICK c \in Callbacks : c = Top(t).cb /\ life[c] = "constructing"
  BY MakerKnowsCallback DEF Makers
<1>2. PICK n \in Nat : /\ Moves(t, n, o, "none", Null) /\ Of(t, n) = c
                       /\ stack' \in [Threads -> Seq(Frame)]
  BY <1>1, ReturnMoves DEF IInv, Places
<1>3. /\ life' = [life EXCEPT ![c] = "alive"]
      /\ UNCHANGED <<requested, sources, requester, head, prev, next, flagged, destroyed, done,
                     held, ran>>
  BY <1>1 DEF Enter, state
<1>4. /\ life \in [Callbacks -> {"new", "constructing", "alive", "destroying", "dead"}]
      /\ next \in [Callbacks -> Ref] /\ prev \in [Callbacks -> Ref] /\ head \in Ref
      /\ held \subseteq Callbacks /\ flagged \subseteq Callbacks
  BY DEF IInv, TypeOK
<1>5. c \notin held /\ prev[c] = Null /\ c # head /\ c \notin flagged
  BY <1>1 DEF IInv, ListInv
<1>6. TypeOK'
  BY <1>2, <1>3 DEF IInv, TypeOK
<1>7. RequesterInv'
  BY <1>2, <1>3 DEF IInv, RequesterInv, Moves, Requesters
<1>8. CallInv'
  <2>1. \A u \in Threads : \A i \in Nat : Place(u, i)' \in Makers \cup Enders => Of(u, i)' # c
    BY <1>1, <1>2 DEF IInv, CallInv, Moves, Makers, Enders
  <2>2. QED
    BY SMTT(60), <1>2, <1>3, <1>4, <2>1 DEF IInv, CallInv, Moves, Makers, Enders, Listed
<1>9. RunInv'
  BY <1>2, <1>3, <1>4, <1>5 DEF IInv, RunInv, Moves, Runners
<1>10. \A e \in Callbacks : (Linked(e))' <=> Linked(e)
  BY <1>3, <1>4, <1>5 DEF Linked, Listed
<1>11. ListInv'
  BY <1>3, <1>4, <1>5, <1>10 DEF IInv, ListInv, Listed, Ref
<1>12. RankInv'
  BY <1>3, <1>10 DEF IInv, RankInv
<1>13. QED
  BY <1>6, <1>7, <1>8, <1>9, <1>11, <1>12 DEF IInv

(* A callback joins the list under the lock, and only where no stop was     *)
(* requested: request_stop, if it comes later, finds it.                    *)
LEMMA LinkInv ==
  ASSUME IInv, NEW t \in Threads, Link(t)
  PROVE  IInv'
<1>1. PICK c \in Callbacks : c = Top(t).cb /\ life[c] = "constructing"
  BY MakerKnowsCallback DEF Link, Makers
<1>2. CASE requested /\ RunHere(t)
  <2>1. ran \subseteq Callbacks
    BY DEF IInv, TypeOK
  <2>2. QED
    BY <1>1, <1>2, <2>1, RegisterMoves DEF Link, RunHere
<1>3. CASE ~requested /\ Return(t)
  <2>1. PICK n \in Nat : /\ Moves(t, n, "link", "none", Null) /\ Of(t, n) = c
                         /\ stack' \in [Threads -> Seq(Frame)]
    BY <1>1, <1>3, ReturnMoves DEF IInv, Link, Places
  <2>2. /\ life' = [life EXCEPT ![c] = "alive"]
        /\ UNCHANGED <<requested, sources, requester, flagged, destroyed, done, ran>>
    BY <1>1, <1>3 DEF Link, RunHere, Enter, state
  <2>3. /\ life \in [Callbacks -> {"new", "constructing", "alive", "destroying", "dead"}]
        /\ next \in [Callbacks -> Ref] /\ prev \in [Callbacks -> Ref] /\ head \in Ref
        /\ held \subseteq Callbacks /\ flagged \subseteq Callbacks /\ done \subseteq Callbacks
        /\ Null \notin Callbacks
    BY StopAssumption DEF IInv, TypeOK
  <2>4. c \notin held /\ prev[c] = Null /\ c # head /\ c \notin flagged
    BY <1>1 DEF IInv, ListInv
  <2>5. \A u \in Threads : \A i \in Nat : Place(u, i)' \in Makers \cup Enders => Of(u, i)' # c
    BY <1>1, <2>1 DEF IInv, CallInv, Moves, Makers, Enders
  <2>6. \A u \in Threads : \A i \in Nat : Place(u, i) \notin Requesters
    BY <1>3 DEF IInv, RequesterInv
  <2>7. \A e \in flagged : life[e] = "dead"
    BY <2>6 DEF IInv, RunInv, Requesters, Runners
  <2>8. RequesterInv'
    BY <1>3, <2>1, <2>2, <2>6 DEF RequesterInv, Moves, Requesters
  <2>9. RunInv'
    <3>1. \A u \in Threads : \A i \in Nat : Place(u, i)' \notin Runners
      BY <2>1, <2>6 DEF Moves, Requesters, Runners
    <3>2. \A e \in flagged' : life'[e] = "dead"
      BY <2>2, <2>3, <2>4, <2>7
    <3>3. QED
      BY <3>1, <3>2 DEF RunInv, Runners
  <2>10. CASE UNCHANGED <<state, ran>>
    BY <1>1, <1>3, <2>10, ConstructorReturns DEF Link, RunHere
  <2>11. CASE PushFront(c)
    <3>1. /\ next' = [next EXCEPT ![c] = head] /\ head' = c /\ held' = held \cup {c}
          /\ prev' = [d \in Callbacks |-> IF d = head THEN c ELSE prev[d]]
      BY <2>11 DEF PushFront
    <3>2. TypeOK'
      BY <2>1, <2>2, <2>3, <3>1 DEF IInv, TypeOK, Ref
    <3>3. \A e \in Callbacks : (Linked(e))' <=> Linked(e) \/ e = c
      BY <1>1, <2>2, <2>3, <2>4, <3>1 DEF Linked, Listed, IInv, ListInv
    <3>4. CallInv'
      <4>1. \A e \in held : life[e] = "destroying" /\ ~Listed(e) => ~(Listed(e))'
        BY <2>3, <2>4, <3>1 DEF Listed
      <4>2. \A e \in held : e # c /\ life'[e] = life[e]
        BY <2>2, <2>3, <2>4
      <4>3. "none" \notin Makers \cup Enders /\ "away" \in Enders
        BY DEF Makers, Enders
      <4>4. /\ \A u \in Threads : \A i \in Nat :
                 Place(u, i)' \in Makers \cup Enders => Place(u, i)' = Place(u, i) /\ Of(u, i)' = Of(u, i)
            /\ \A u, v \in Threads : \A i, j \in Nat :
                 /\ Place(u, i)' \in Makers \cup Enders /\ Place(v, j)' \in Makers \cup Enders
                 /\ Of(u, i)' = Of(v, j)'
                 => u = v /\ i = j
        BY <2>1, <4>3, CallsKept DEF IInv
      <4>5. \A u \in Threads : \A i \in Nat :
              /\ Place(u, i)' \in Makers => Of(u, i)' \in Callbacks /\ life'[Of(u, i)'] = "constructing"
              /\ Place(u, i)' \in Enders => Of(u, i)' \in held' /\ life'[Of(u, i)'] = "destroying"
              /\ Place(u, i)' = "away" => ~(Listed(Of(u, i)))'
        <5>1. CallInv
          BY DEF IInv
        <5>2. SUFFICES ASSUME NEW u \in Threads, NEW i \in Nat, Place(u, i)' \in Makers \cup Enders
              PROVE  /\ Place(u, i) \in Makers => Of(u, i)' \in Callbacks
                                                /\ life'[Of(u, i)'] = "constructing"
                     /\ Place(u, i) \in Enders => Of(u, i)' \in held' /\ life'[Of(u, i)'] = "destroying"
                     /\ Place(u, i) = "away" => ~(Listed(Of(u, i)))'
          BY <4>3, <4>4
        <5>3. PICK e : e = Of(u, i) /\ e = Of(u, i)' /\ Place(u, i) \in Makers \cup Enders /\ e # c
          BY <2>5, <4>4, <5>2
        <5>4. /\ Place(u, i) \in Makers => Of(u, i) \in Callbacks /\ life[Of(u, i)] = "constructing"
              /\ Place(u, i) \in Enders => Of(u, i) \in held /\ life[Of(u, i)] = "destroying"
              /\ Place(u, i) = "away" => ~Listed(Of(u, i))
          BY <5>1, Zenon DEF CallInv
        <5>5. /\ Place(u, i) \in Makers => e \in Callbacks /\ life[e] = "constructing"
              /\ Place(u, i) \in Enders => e \in held /\ life[e] = "destroying"
              /\ Place(u, i) = "away" => ~Listed(e)
          BY <5>3, <5>4, Zenon
        <5>6. e \in Callbacks => life'[e] = life[e]
          BY <2>2, <2>3, <5>3
        <5>7. (Listed(Of(u, i)))' <=> (Listed(e))'
          BY <5>3 DEF Listed
        <5>8. QED
          BY <3>1, <4>1, <4>2, <4>3, <5>3, <5>5, <5>6, <5>7
      <4>6. QED
        BY <4>5, <4>4 DEF CallInv
    <3>5. RunInv'
      BY <2>9
    <3>6. c \notin done
      BY <2>4 DEF IInv, ListInv
    <3>7. ListInv'
      BY <1>1, <2>2, <2>3, <2>4, <3>1, <3>3, <3>6 DEF IInv, ListInv, Linked, Listed, Ref
    <3>8. RankInv'
      <4>1. PICK rank \in [Callbacks -> Nat] :
              \A e \in Callbacks : Linked(e) /\ prev[e] # Null => rank[prev[e]] < rank[e]
        BY DEF IInv, RankInv
      <4> DEFINE r == [e \in Callbacks |-> IF e = c THEN 0 ELSE rank[e] + 1]
      <4>2. /\ r \in [Callbacks -> Nat] /\ r[c] = 0
            /\ \A e \in Callbacks \ {c} : r[e] = rank[e] + 1
        BY <4>1
      <4> HIDE DEF r
      <4>3. ASSUME NEW e \in Callbacks, (Linked(e))', prev'[e] # Null
            PROVE  r[prev'[e]] < r[e]
        <5>1. e # c
          BY <2>4, <3>1, <4>3
        <5>2. CASE e = head
          BY <3>1, <4>2, <5>1, <5>2
        <5>3. CASE e # head
          <6>1. Linked(e) /\ prev'[e] = prev[e] /\ prev[e] \in Callbacks
            BY <2>3, <3>1, <3>3, <4>3, <5>1, <5>3 DEF Ref
          <6>2. prev[e] # c
            BY <1>1, <2>3, <2>4, <6>1 DEF IInv, ListInv, Linked, Listed
          <6>3. rank[prev[e]] < rank[e] /\ rank[prev[e]] \in Nat /\ rank[e] \in Nat
            BY <4>1, <4>3, <6>1
          <6>4. QED
            BY <4>2, <5>1, <6>1, <6>2, <6>3
        <5>4. QED
          BY <5>2, <5>3
      <4>4. QED
        BY <4>2, <4>3 DEF RankInv
    <3>9. QED
      BY <2>8, <3>2, <3>4, <3>5, <3>7, <3>8 DEF IInv
  <2>12. QED
    BY <1>1, <1>3, <2>10, <2>11 DEF Link, RunHere, state
<1>4. QED
  BY <1>2, <1>3 DEF Link

LEMMA SelfRunEndsInv ==
  ASSUME IInv, NEW t \in Threads, SelfRunEnds(t)
  PROVE  IInv'
BY ConstructorReturns DEF SelfRunEnds

LEMMA DestroyInv ==
  ASSUME IInv, NEW t \in Threads, NEW c \in Callbacks, Destroy(t, c)
  PROVE  IInv'
<1>1. PICK to \in {"dead", "destroying"} :
        /\ life' = [life EXCEPT ![c] = to] /\ life[c] = "alive"
        /\ to = "dead" => c \notin held /\ stack' = stack
        /\ to = "destroying" => c \in held /\ Call(t, "remove", c)
  BY DEF Destroy, Enter
<1>2. UNCHANGED <<requested, sources, requester, head, prev, next, flagged, destroyed, done,
                  held, ran>>
  BY DEF Destroy, state
<1>3. /\ life \in [Callbacks -> {"new", "constructing", "alive", "destroying", "dead"}]
      /\ next \in [Callbacks -> Ref] /\ prev \in [Callbacks -> Ref] /\ head \in Ref
      /\ held \subseteq Callbacks /\ flagged \subseteq Callbacks
  BY DEF IInv, TypeOK
<1>4. \A u \in Threads : \A i \in Nat : Place(u, i) \in Makers \cup Enders => Of(u, i) # c
  BY <1>1 DEF IInv, CallInv
<1>5. \A e \in Callbacks : (Linked(e))' <=> Linked(e)
  BY <1>1, <1>2, <1>3 DEF Linked, Listed, IInv, ListInv
<1>6. ListInv'
  BY <1>1, <1>2, <1>3, <1>5 DEF IInv, ListInv, Listed, Ref
<1>7. RankInv'
  BY <1>2, <1>5 DEF IInv, RankInv
<1>8. CASE to = "dead"
  <2>1. \A u \in Threads : \A i \in Nat : Place(u, i)' = Place(u, i) /\ Of(u, i)' = Of(u, i)
    BY <1>1, <1>8 DEF Place, Of
  <2>2. TypeOK'
    BY <1>1, <1>2, <1>8 DEF IInv, TypeOK
  <2>3. RequesterInv'
    BY <1>2, <2>1 DEF IInv, RequesterInv, Requesters
  <2>4. CallInv'
    BY <1>1, <1>2, <1>3, <1>4, <2>1 DEF IInv, CallInv, Makers, Enders, Listed
  <2>5. RunInv'
    BY <1>1, <1>2, <1>3, <1>8, <2>1 DEF IInv, RunInv, Runners
  <2>6. QED
    BY <1>6, <1>7, <2>2, <2>3, <2>4, <2>5 DEF IInv
<1>9. CASE to = "destroying"
  <2>1. PICK n \in Nat : Moves(t, n, "none", "remove", c) /\ stack' \in [Threads -> Seq(Frame)]
    BY <1>1, <1>9, CallMoves DEF IInv, Places, Ref
  <2>2. TypeOK'
    BY <1>1, <1>2, <2>1 DEF IInv, TypeOK
  <2>3. RequesterInv'
    BY <1>2, <2>1 DEF IInv, RequesterInv, Moves, Requesters
  <2>4. CallInv'
    BY SMTT(60), <1>1, <1>2, <1>3, <1>4, <1>9, <2>1 DEF IInv, CallInv, Moves, Makers, Enders, Listed
  <2>5. RunInv'
    BY <1>1, <1>2, <1>3, <1>9, <2>1 DEF IInv, RunInv, Moves, Runners
  <2>6. QED
    BY <1>6, <1>7, <2>2, <2>3, <2>4, <2>5 DEF IInv
<1>10. QED
  BY <1>8, <1>9

LEMMA EnderKnowsCallback ==
  ASSUME IInv, NEW t \in Threads, NEW o \in Enders, At(t, o)
  PROVE  /\ Top(t).cb \in held /\ life[Top(t).cb] = "destroying"
         /\ o = "away" => ~Listed(Top(t).cb)
<1>1. stack[t] \in Seq(Frame) /\ stack[t] # <<>>
  BY DEF IInv, TypeOK, At
<1>2. PICK n \in Nat : n = Len(stack[t]) /\ n \in 1 .. Len(stack[t])
  BY <1>1, DropLast
<1>3. Place(t, n) = o /\ Of(t, n) = Top(t).cb
  BY <1>2 DEF Place, Of, Top, At
<1>4. QED
  BY <1>3 DEF IInv, CallInv

(* A destructor ends: its callback may be gone from the list, but no        *)
(* requester runs it, unless that requester has been told.                  *)
LEMMA DestructorReturns ==
  ASSUME IInv, NEW t \in Threads, NEW o \in Enders, At(t, o), Return(t), Enter(Top(t).cb, "dead"),
         UNCHANGED <<requested, sources, requester, flagged, done, held, ran>>,
         destroyed' \in BOOLEAN, head' \in Ref, prev' \in [Callbacks -> Ref],
         next' \in [Callbacks -> Ref],
         head' # Null => head # Null,
         \A e \in held \ {Top(t).cb} : life[e] # "dead" /\ ~Listed(e) => ~(Listed(e))',
         \A u \in Threads : \A i \in Nat : Place(u, i) \in Runners =>
           (destroyed' <=> destroyed \/ Of(u, i) = Top(t).cb)
  PROVE  TypeOK' /\ RequesterInv' /\ CallInv' /\ RunInv'
<1>1. PICK c \in held : c = Top(t).cb /\ life[c] = "destroying" /\ c \in Callbacks
  BY EnderKnowsCallback DEF IInv, TypeOK
<1>2. PICK n \in Nat : /\ Moves(t, n, o, "none", Null) /\ Of(t, n) = c
                       /\ stack' \in [Threads -> Seq(Frame)]
  BY <1>1, ReturnMoves DEF IInv, Places, Enders
<1>3. life' = [life EXCEPT ![c] = "dead"]
  BY <1>1 DEF Enter
<1>4. /\ life \in [Callbacks -> {"new", "constructing", "alive", "destroying", "dead"}]
      /\ held \subseteq Callbacks /\ flagged \subseteq Callbacks
  BY DEF IInv, TypeOK
<1>5. TypeOK'
  BY <1>2, <1>3 DEF IInv, TypeOK
<1>6. RequesterInv'
  BY SMTT(60), <1>2 DEF IInv, RequesterInv, Moves, Requesters, Enders
<1>7. CallInv'
  <2>1. \A u \in Threads : \A i \in Nat : Place(u, i)' \in Makers \cup Enders =>
          Of(u, i)' # c /\ Place(u, i)' = Place(u, i) /\ Of(u, i)' = Of(u, i)
    BY <1>1, <1>2 DEF IInv, CallInv, Moves, Makers, Enders
  <2>2. QED
    BY <1>1, <1>3, <1>4, <2>1 DEF IInv, CallInv, Makers, Enders, Listed
<1>8. RunInv'
  <2>1. \A u \in Threads : \A i \in Nat : Place(u, i)' \in Runners <=> Place(u, i) \in Runners
    BY <1>2 DEF Moves, Runners, Enders
  <2>2. \A u \in Threads : \A i \in Nat : Place(u, i) \in Runners => Of(u, i)' = Of(u, i)
    BY <1>2 DEF Moves, Runners, Enders
  <2>3. QED
    BY <1>1, <1>3, <1>4, <2>1, <2>2 DEF IInv, RunInv, Runners
<1>9. QED
  BY <1>5, <1>6, <1>7, <1>8

(* Taking a callback out of the middle leaves its neighbours linked.        *)
LEMMA RemoveInv ==
  ASSUME IInv, NEW t \in Threads, Remove(t)
  PROVE  IInv'
<1>1. PICK c \in held : c = Top(t).cb /\ life[c] = "destroying" /\ c \in Callbacks
  BY EnderKnowsCallback DEF Remove, Enders, IInv, TypeOK
<1>2. /\ life \in [Callbacks -> {"new", "constructing", "alive", "destroying", "dead"}]
      /\ next \in [Callbacks -> Ref] /\ prev \in [Callbacks -> Ref] /\ head \in Ref
      /\ held \subseteq Callbacks /\ flagged \subseteq Callbacks /\ Null \notin Callbacks
  BY StopAssumption DEF IInv, TypeOK
<1>3. UNCHANGED <<requested, sources, requester, flagged, destroyed, done, held, ran>>
  BY DEF Remove
<1>4. CASE Listed(c)
  <2>1. PICK a \in Ref, b \in Ref : a = next[c] /\ b = prev[c]
    BY <1>1, <1>2
  <2>2. Linked(c) /\ c \notin flagged \cup done /\ (c = head => b = Null)
    BY <1>1, <1>2, <1>4, <2>1 DEF Linked, IInv, ListInv
  <2>3. /\ c # head => b # Null /\ Linked(b) /\ next[b] = c /\ b \in Callbacks
        /\ a # Null => Linked(a) /\ prev[a] = c /\ a \in Callbacks
    BY <1>1, <1>4, <2>1, <2>2 DEF Listed, Ref, IInv, ListInv
  <2>4. /\ head' = (IF c = head THEN a ELSE head)
        /\ next' = [e \in Callbacks |-> IF c # head /\ e = b THEN a ELSE next[e]]
        /\ prev' = [e \in Callbacks |-> IF e = a THEN b ELSE prev[e]]
        /\ life' = [life EXCEPT ![c] = "dead"]
        /\ Return(t) /\ Enter(c, "dead")
    BY <1>1, <1>4, <2>1, <2>2 DEF Remove, Listed, Enter
  <2>5. a # c /\ b # c
    <3>1. PICK rank \in [Callbacks -> Nat] :
            \A e \in Callbacks : Linked(e) /\ prev[e] # Null => rank[prev[e]] < rank[e]
      BY DEF IInv, RankInv
    <3>2. b # Null => rank[b] < rank[c] /\ rank[b] \in Nat /\ rank[c] \in Nat
      BY <1>1, <2>1, <2>2, <3>1 DEF Ref
    <3>3. a # Null => rank[c] < rank[a] /\ rank[a] \in Nat /\ rank[c] \in Nat
      BY <1>1, <1>2, <2>1, <2>3, <3>1
    <3>4. QED
      BY <1>1, <1>2, <3>2, <3>3
  <2>6. \A e \in Callbacks : (Linked(e))' <=> Linked(e) /\ e # c
    BY <1>1, <1>2, <2>1, <2>2, <2>3, <2>4, <2>5 DEF Linked, Listed, IInv, ListInv
  <2>7. TypeOK' /\ RequesterInv' /\ CallInv' /\ RunInv'
    <3>1. head' \in Ref /\ prev' \in [Callbacks -> Ref] /\ next' \in [Callbacks -> Ref]
      BY <1>2, <2>1, <2>4
    <3>2. head' # Null => head # Null
      BY <1>1, <1>2, <2>4
    <3>3. \A e \in held \ {c} : life[e] # "dead" /\ ~Listed(e) => ~(Listed(e))'
      BY <1>2, <2>4, <2>6 DEF Linked
    <3>4. \A u \in Threads : \A i \in Nat : Place(u, i) \in Runners =>
            (destroyed' <=> destroyed \/ Of(u, i) = c)
      BY <1>1, <1>3, <2>2 DEF IInv, RunInv
    <3>5. At(t, "remove") /\ destroyed' \in BOOLEAN /\ "remove" \in Enders
      BY <1>3 DEF Remove, Enders, IInv, TypeOK
    <3>6. QED
      BY <1>1, <1>3, <2>4, <3>1, <3>2, <3>3, <3>4, <3>5, DestructorReturns
  <2>8. ListInv'
    <3>1. /\ \A e \in held : life'[e] \in {"alive", "destroying", "dead"}
          /\ \A e \in held : life'[e] = "dead" \/ (Listed(e))' \/ e \in flagged \cup done
      BY <1>1, <1>2, <2>4, <2>6 DEF IInv, ListInv, Linked
    <3>2. \A e \in Callbacks \ held : prev'[e] = Null /\ e # head'
      BY <1>1, <1>2, <2>1, <2>3, <2>4 DEF IInv, ListInv, Linked
    <3>3. head' # Null => life'[head'] # "dead" /\ prev'[head'] = Null
      BY <1>1, <1>2, <2>1, <2>2, <2>3, <2>4, <2>5 DEF IInv, ListInv, Linked, Ref
    <3>4. ASSUME NEW e \in Callbacks, (Linked(e))'
          PROVE  /\ next'[e] # Null => (Linked(next[e]))' /\ prev'[next'[e]] = e
                 /\ prev'[e] # Null => (Linked(prev[e]))' /\ next'[prev'[e]] = e
      <4>1. Linked(e) /\ e # c /\ next[e] \in Ref /\ prev[e] \in Ref
        BY <1>2, <2>6, <3>4
      <4>2. /\ next[e] # Null => Linked(next[e]) /\ prev[next[e]] = e
            /\ prev[e] # Null => Linked(prev[e]) /\ next[prev[e]] = e
        BY <4>1 DEF IInv, ListInv
      <4>3. next'[e] # Null => next'[e] \in Callbacks /\ Linked(next'[e]) /\ next'[e] # c
                                 /\ prev'[next'[e]] = e
        <5>1. CASE c # head /\ e = b
          BY <1>1, <1>2, <2>1, <2>3, <2>4, <2>5, <5>1 DEF Ref
        <5>2. CASE ~(c # head /\ e = b) /\ next[e] # Null
          <6>1. next'[e] = next[e] /\ next[e] \in Callbacks /\ Linked(next[e]) /\ prev[next[e]] = e
            BY <2>4, <4>1, <4>2, <5>2 DEF Ref
          <6>2. next[e] # c
            BY <2>1, <2>2, <4>1, <5>2, <6>1, <1>2
          <6>3. next[e] # a
            BY <2>3, <4>1, <6>1, <5>2
          <6>4. prev'[next[e]] = e
            BY <2>4, <6>1, <6>3
          <6>5. QED
            BY <6>1, <6>2, <6>4
        <5>3. QED
          BY <2>4, <5>1, <5>2
      <4>4. prev'[e] # Null => prev'[e] \in Callbacks /\ Linked(prev'[e]) /\ prev'[e] # c
                                 /\ next'[prev'[e]] = e
        BY <1>1, <1>2, <2>1, <2>2, <2>3, <2>4, <2>5, <4>1, <4>2 DEF Ref
      <4>5. QED
        BY <2>6, <4>3, <4>4 DEF Linked, Listed
    <3>5. \A e \in Callbacks : (Linked(e))' => e \notin flagged \cup done
      BY <2>6 DEF IInv, ListInv
    <3>6. \A e \in Callbacks \ held : e \notin flagged \cup done
      BY DEF IInv, ListInv
    <3>7. QED
      BY <1>3, <3>1, <3>2, <3>3, <3>4, <3>5, <3>6 DEF ListInv
  <2>9. RankInv'
    <3>1. PICK rank \in [Callbacks -> Nat] :
            \A e \in Callbacks : Linked(e) /\ prev[e] # Null => rank[prev[e]] < rank[e]
      BY DEF IInv, RankInv
    <3>2. ASSUME NEW e \in Callbacks, (Linked(e))', prev'[e] # Null
          PROVE  rank[prev'[e]] < rank[e]
      <4>1. CASE e = a
        <5>1. b # Null /\ b \in Callbacks /\ prev'[e] = b
          BY <1>2, <2>1, <2>4, <3>2, <4>1 DEF Ref
        <5>2. rank[b] < rank[c] /\ rank[c] < rank[a]
          BY <1>1, <1>2, <2>1, <2>2, <2>3, <3>1, <4>1, <5>1
        <5>3. rank[a] \in Nat /\ rank[b] \in Nat /\ rank[c] \in Nat
          BY <1>1, <4>1, <5>1
        <5>4. QED
          BY <4>1, <5>1, <5>2, <5>3
      <4>2. CASE e # a
        BY <2>4, <2>6, <3>1, <3>2, <4>2
      <4>3. QED
        BY <4>1, <4>2
    <3>3. QED
      BY <3>2 DEF RankInv
  <2>10. QED
    BY <2>7, <2>8, <2>9 DEF IInv
<1>5. CASE ~Listed(c)
  <2>1. Goto(t, "away", c) /\ UNCHANGED <<head, next, prev, life>> /\ At(t, "remove")
    BY <1>1, <1>5 DEF Remove, Listed
  <2>2. PICK n \in Nat : /\ Moves(t, n, "remove", "away", c) /\ Of(t, n) = c
                         /\ stack' \in [Threads -> Seq(Frame)]
    BY <1>1, <2>1, GotoMoves DEF IInv, Places, Ref
  <2>3. TypeOK'
    BY <1>3, <2>1, <2>2 DEF IInv, TypeOK
  <2>4. RequesterInv'
    BY <1>3, <2>1, <2>2 DEF IInv, RequesterInv, Moves, Requesters
  <2>5. CallInv'
    BY <1>1, <1>3, <1>5, <2>1, <2>2 DEF IInv, CallInv, Moves, Makers, Enders, Listed
  <2>6. RunInv'
    BY <1>3, <2>1, <2>2 DEF IInv, RunInv, Moves, Runners
  <2>7. QED
    BY <1>3, <2>1, <2>3, <2>4, <2>5, <2>6, ListUnchanged DEF IInv
<1>6. QED
  BY <1>4, <1>5

(* A callback that request_stop took out is either being run by it or done: *)
(* the destructor waits for the latter or, in the same thread, tells it.    *)
LEMMA AwayInv ==
  ASSUME IInv, NEW t \in Threads, Away(t)
  PROVE  IInv'
<1>1. PICK c \in held : /\ c = Top(t).cb /\ life[c] = "destroying" /\ c \in Callbacks
                        /\ ~Listed(c)
  BY EnderKnowsCallback DEF Away, Enders, IInv, TypeOK
<1>2. /\ UNCHANGED <<requested, sources, requester, head, prev, next, flagged, done, held, ran>>
      /\ destroyed' \in BOOLEAN /\ Return(t) /\ Enter(c, "dead") /\ At(t, "away")
      /\ life' = [life EXCEPT ![c] = "dead"]
  BY <1>1 DEF Away, Enter, IInv, TypeOK
<1>3. \A u \in Threads : \A i \in Nat : Place(u, i) \in Runners =>
        (destroyed' <=> destroyed \/ Of(u, i) = c)
  <2>1. \A u \in Threads : \A i \in Nat : Place(u, i) \in Runners /\ Of(u, i) = c => c \in flagged \ done
    BY <1>1 DEF IInv, RunInv
  <2>2. CASE requester # t /\ c \in done /\ UNCHANGED destroyed
    BY <2>1, <2>2
  <2>3. CASE requester = t /\ destroyed' = (destroyed \/ c \in flagged)
    <3>1. c \in flagged => \E u \in Threads : \E i \in Nat : Place(u, i) \in Runners /\ Of(u, i) = c
      BY <1>1 DEF IInv, RunInv
    <3>2. \A u, v \in Threads : \A i, j \in Nat :
            Place(u, i) \in Runners /\ Place(v, j) \in Runners => u = v /\ i = j
      BY DEF IInv, RequesterInv, Requesters, Runners
    <3>3. destroyed \in BOOLEAN
      BY DEF IInv, TypeOK
    <3>4. QED
      BY <2>1, <2>3, <3>1, <3>2, <3>3
  <2>4. QED
    BY <1>1, <2>2, <2>3 DEF Away
<1>4. \A e \in held \ {c} : life[e] # "dead" /\ ~Listed(e) => ~(Listed(e))'
  BY <1>2 DEF Listed
<1>5. TypeOK' /\ RequesterInv' /\ CallInv' /\ RunInv'
  <2>1. head' \in Ref /\ prev' \in [Callbacks -> Ref] /\ next' \in [Callbacks -> Ref]
    BY <1>2 DEF IInv, TypeOK
  <2>2. QED
    BY <1>1, <1>2, <1>3, <1>4, <2>1, DestructorReturns DEF Enders
<1>6. life \in [Callbacks -> {"new", "constructing", "alive", "destroying", "dead"}]
      /\ held \subseteq Callbacks
  BY DEF IInv, TypeOK
<1>7. \A e \in Callbacks : (Linked(e))' <=> Linked(e)
  BY <1>1, <1>2, <1>6 DEF Linked, Listed
<1>8. ListInv'
  <2>1. /\ next \in [Callbacks -> Ref] /\ prev \in [Callbacks -> Ref] /\ head \in Ref
    BY DEF IInv, TypeOK
  <2>2. head # Null => head # c /\ life'[head] # "dead"
    BY <1>1, <1>2, <1>6 DEF IInv, ListInv, Listed
  <2>3. QED
    BY <1>1, <1>2, <1>6, <1>7, <2>1, <2>2 DEF IInv, ListInv, Listed, Ref
<1>9. RankInv'
  BY <1>2, <1>7 DEF IInv, RankInv
<1>10. QED
  BY <1>5, <1>8, <1>9 DEF IInv

THEOREM StopInvariance == Spec => []IInv
<1>1. ASSUME IInv, [Next]_vars PROVE IInv'
  <2>1. CASE UNCHANGED vars
    <3>1. /\ UNCHANGED <<requested, requester, head, prev, next, flagged, destroyed, done, held, life>>
          /\ TypeOK'
      BY <1>1, <2>1 DEF vars, state, IInv, TypeOK
    <3>2. \A t \in Threads : \A i \in Nat : Place(t, i)' = Place(t, i) /\ Of(t, i)' = Of(t, i)
      BY <2>1 DEF vars, Place, Of
    <3>3. RequesterInv'
      BY <1>1, <3>1, <3>2 DEF IInv, RequesterInv
    <3>4. CallInv'
      BY <1>1, <3>1, <3>2 DEF IInv, CallInv, Listed
    <3>5. RunInv'
      BY <1>1, <3>1, <3>2 DEF IInv, RunInv
    <3>6. QED
      BY <1>1, <3>1, <3>3, <3>4, <3>5, ListUnchanged DEF IInv
  <2>2. QED
    BY <1>1, <2>1, RequestStopInv, NotifyInv, PopInv, RunEndsInv, DropSourceInv, ConstructInv,
       RegisterInv, LinkInv, SelfRunEndsInv, DestroyInv, RemoveInv, AwayInv
    DEF Next, Start, Proceed
<1>2. QED
  BY InvInit, <1>1, PTL DEF Spec

(* No operation dereferences a stop_callback whose destructor has returned, *)
(* however the threads interleave and whatever callbacks do to one another. *)
THEOREM StopIsMemorySafe == Spec => []NoUseAfterDestroy
<1>1. ASSUME IInv PROVE NoUseAfterDestroy
  <2>1. SUFFICES ASSUME NEW c \in Callbacks, life[c] = "dead"
                 PROVE  /\ c # head
                        /\ \A d \in Callbacks : life[d] # "dead" /\ Listed(d) => c \notin {next[d], prev[d]}
                        /\ \A t \in Threads : \A i \in DOMAIN stack[t] : stack[t][i].cb = c =>
                             stack[t][i].at \in {"run", "lastrun"} /\ destroyed
    BY DEF NoUseAfterDestroy
  <2>2. c # Null
    BY StopAssumption
  <2>3. c # head
    BY <1>1, <2>1, <2>2 DEF IInv, ListInv
  <2>4. ASSUME NEW d \in Callbacks, life[d] # "dead", Listed(d) PROVE c \notin {next[d], prev[d]}
    BY <1>1, <2>1, <2>2, <2>4 DEF IInv, ListInv, Linked
  <2>5. ASSUME NEW t \in Threads, NEW i \in DOMAIN stack[t], stack[t][i].cb = c
        PROVE  stack[t][i].at \in {"run", "lastrun"} /\ destroyed
    <3>1. stack[t] \in Seq(Frame) /\ i \in Nat /\ i \in 1 .. Len(stack[t])
      BY <1>1, LenProperties DEF IInv, TypeOK
    <3>2. Place(t, i) = stack[t][i].at /\ Of(t, i) = c /\ Place(t, i) \in Places
      <4>1. stack[t][i] \in Frame
        BY <3>1, ElementOfSeq
      <4>2. QED
        BY <2>5, <3>1, <4>1 DEF Place, Of, Frame
    <3>3. Place(t, i) \notin Makers \cup Enders
      <4>1. /\ Place(t, i) \in Makers => life[Of(t, i)] = "constructing"
            /\ Place(t, i) \in Enders => life[Of(t, i)] = "destroying"
        BY <1>1, <3>1 DEF IInv, CallInv
      <4>2. QED
        BY <2>1, <3>2, <4>1
    <3>4. Place(t, i) \in Runners
      <4>1. Place(t, i) \in {"notify", "pop"} => Of(t, i) = Null
        BY <1>1, <3>1 DEF IInv, RequesterInv
      <4>2. QED
        BY <2>2, <3>2, <3>3, <4>1 DEF Places, Runners, Makers, Enders
    <3>5. QED
      BY <1>1, <2>1, <3>1, <3>2, <3>4 DEF IInv, RunInv, Runners
  <2>6. QED
    BY <2>3, <2>4, <2>5
<1>2. QED
  BY StopInvariance, <1>1, PTL

(* An empty list has no linked callback: the one with the smallest rank     *)
(* would have a predecessor with a smaller one.                             *)
LEMMA EmptyList ==
  ASSUME IInv, head = Null, NEW c \in Callbacks
  PROVE  ~Linked(c)
<1>1. SUFFICES ASSUME Linked(c) PROVE FALSE
  OBVIOUS
<1>2. PICK rank \in [Callbacks -> Nat] :
        \A e \in Callbacks : Linked(e) /\ prev[e] # Null => rank[prev[e]] < rank[e]
  BY DEF IInv, RankInv
<1>3. PICK R : R = {rank[e] : e \in {d \in Callbacks : Linked(d)}}
  OBVIOUS
<1>4. R \subseteq Nat /\ R # {}
  BY <1>1, <1>3
<1>5. PICK n \in R : \A m \in R : ~(<<m, n>> \in OpToRel(<, Nat))
  BY <1>4, NatLessThanWellFounded, WFMin
<1>6. \A m \in R : ~(m < n)
  BY <1>4, <1>5 DEF OpToRel
<1>7. PICK d \in Callbacks : Linked(d) /\ rank[d] = n
  BY <1>3
<1>8. prev[d] # Null /\ prev[d] \in Callbacks /\ Linked(prev[d])
  BY <1>7, StopAssumption DEF IInv, TypeOK, ListInv, Linked, Listed, Ref
<1>9. rank[prev[d]] \in R /\ rank[prev[d]] < n
  BY <1>2, <1>3, <1>7, <1>8
<1>10. QED
  BY <1>6, <1>9

(* A callback registered before the request is never skipped by the loop    *)
(* that empties the list, nor one registered while it runs.                 *)
THEOREM StopMissesNone == Spec => []NoneMissed
<1>1. ASSUME IInv PROVE NoneMissed
  <2>1. SUFFICES ASSUME requested, ~Requesting, NEW c \in held, life[c] \in {"alive", "destroying"}
                 PROVE  c \in done
    BY DEF NoneMissed
  <2>2. \A t \in Threads : \A i \in Nat : Place(t, i) \notin Requesters
    <3>1. SUFFICES ASSUME NEW t \in Threads, NEW i \in Nat, Place(t, i) \in Requesters PROVE FALSE
      OBVIOUS
    <3>2. i \in 1 .. Len(stack[t]) /\ stack[t][i].at \in Requesters
      BY <3>1 DEF Place, Requesters
    <3>3. stack[t] \in Seq(Frame)
      BY <1>1 DEF IInv, TypeOK
    <3>4. i \in DOMAIN stack[t]
      BY <3>2, <3>3, LenProperties
    <3>5. QED
      BY <2>1, <3>2, <3>4 DEF Requesting, Requesters
  <2>3. head = Null
    BY <1>1, <2>1, <2>2 DEF IInv, RequesterInv
  <2>4. c \in Callbacks
    BY <1>1 DEF IInv, TypeOK
  <2>5. c \in flagged \cup done
    BY <1>1, <2>1, <2>3, <2>4, EmptyList DEF IInv, ListInv, Linked
  <2>6. c \notin flagged
    BY <1>1, <2>1, <2>2 DEF IInv, RunInv, Runners, Requesters
  <2>7. QED
    BY <2>5, <2>6
<1>2. QED
  BY StopInvariance, <1>1, PTL

-----------------------------------------------------------------------------
(* The stop state implements StopToken: every step of a thread is a step of *)
(* the token or changes nothing it shows, for every number of threads and   *)
(* callbacks and every depth of nested calls.  To the invariant of          *)
(* StopStateProofs this adds who requested the stop and which callbacks     *)
(* have run.                                                                *)


(* What the token sees of the calls: the thread that executes or destroys   *)
(* each callback.                                                           *)
Shown(S) == [c \in Callbacks |-> ThreadAt(c, S)]

(* request_stop empties the list in the thread that m_requester names.      *)
RequesterIs ==
  \A t \in Threads : \A i \in Nat : Place(t, i) \in Runners \cup {"pop"} => requester = t

(* A callback that has begun to run was taken out of the list or never was  *)
(* in it.                                                                   *)
RanInv ==
  /\ \A c \in ran : life[c] # "new" /\ (c \in held /\ life[c] # "dead" => c \in flagged \cup done)
  /\ \A t \in Threads : \A i \in Nat : Place(t, i) \in {"register", "link"} => Of(t, i) \notin ran

RefInv == IInv /\ RequesterIs /\ RanInv

-----------------------------------------------------------------------------
(* The threads that have a call about c at one of the places of S.          *)
Doers(c, S) ==
  {t \in Threads : \E i \in DOMAIN stack[t] : stack[t][i].cb = c /\ stack[t][i].at \in S}

(* At most one call is about d at one of the places of S.                   *)
OneCall(d, S) ==
  \A u, v \in Threads : \A i, j \in Nat :
    Place(u, i) \in S /\ Of(u, i) = d /\ Place(v, j) \in S /\ Of(v, j) = d => u = v /\ i = j

LEMMA ThreadOfDoers ==
  ASSUME NEW c, NEW S
  PROVE  /\ Doers(c, S) = {} => ThreadAt(c, S) = NoThread
         /\ \A t \in Threads : Doers(c, S) = {t} => ThreadAt(c, S) = t
         /\ Doers(c, S)' = {} => ThreadAt(c, S)' = NoThread
         /\ \A t \in Threads : Doers(c, S)' = {t} => ThreadAt(c, S)' = t
         /\ Doers(c, S)' = Doers(c, S) => ThreadAt(c, S)' = ThreadAt(c, S)
<1>1. PICK V, W : V = Doers(c, S) /\ W = Doers(c, S)'
  OBVIOUS
<1>2. ThreadAt(c, S) = IF V = {} THEN NoThread ELSE CHOOSE t \in V : TRUE
  BY <1>1 DEF Doers, ThreadAt
<1>3. ThreadAt(c, S)' = IF W = {} THEN NoThread ELSE CHOOSE t \in W : TRUE
  BY <1>1 DEF Doers, ThreadAt
<1>4. \A t \in Threads : /\ V = {t} => ThreadAt(c, S) = t
                         /\ W = {t} => ThreadAt(c, S)' = t
  BY <1>2, <1>3
<1>5. V = W => ThreadAt(c, S)' = ThreadAt(c, S)
  BY <1>2, <1>3
<1>6. QED
  BY <1>1, <1>2, <1>3, <1>4, <1>5

LEMMA DoersByCells ==
  ASSUME stack \in [Threads -> Seq(Frame)], NEW c \in Callbacks, NEW S \in SUBSET Places
  PROVE  \A t \in Threads : t \in Doers(c, S) <=> \E i \in Nat : Place(t, i) \in S /\ Of(t, i) = c
<1>1. TAKE t \in Threads
<1>4. "none" \notin S
  BY DEF Places
<1>2. DOMAIN stack[t] = 1 .. Len(stack[t]) /\ Len(stack[t]) \in Nat
  BY LenProperties
<1>3. QED
  BY <1>2, <1>4 DEF Doers, Place, Of

LEMMA DoersByCellsNext ==
  ASSUME stack' \in [Threads -> Seq(Frame)], NEW c \in Callbacks, NEW S \in SUBSET Places
  PROVE  \A t \in Threads : t \in Doers(c, S)' <=> \E i \in Nat : Place(t, i)' \in S /\ Of(t, i)' = c
<1>1. TAKE t \in Threads
<1>4. "none" \notin S
  BY DEF Places
<1>2. DOMAIN stack'[t] = 1 .. Len(stack'[t]) /\ Len(stack'[t]) \in Nat
  BY LenProperties
<1>3. QED
  BY <1>2, <1>4 DEF Doers, Place, Of

(* A callback is executed in one call at most and destroyed in one.         *)
LEMMA OneCell ==
  ASSUME IInv, NEW d \in Callbacks, NEW S \in {InCallback, Enders}
  PROVE  /\ S \in SUBSET Places
         /\ OneCall(d, S)
<1>1. CASE S = Enders
  BY <1>1 DEF IInv, CallInv, Enders, Places, OneCall
<1>2. CASE S = InCallback
  <2>1. S \in SUBSET Places
    BY <1>2 DEF InCallback, Places
  <2>2. \A u \in Threads : \A i \in Nat :
          /\ Place(u, i) \in Runners /\ Of(u, i) = d => life[d] # "constructing"
          /\ Place(u, i) = "selfrun" /\ Of(u, i) = d => life[d] = "constructing"
    BY DEF IInv, RunInv, CallInv, ListInv, Makers
  <2>3. \A u, v \in Threads : \A i, j \in Nat :
          /\ Place(u, i) \in Runners /\ Place(v, j) \in Runners => u = v /\ i = j
          /\ Place(u, i) = "selfrun" /\ Place(v, j) = "selfrun" /\ Of(u, i) = Of(v, j) => u = v /\ i = j
    BY DEF IInv, RequesterInv, CallInv, Runners, Requesters, Makers
  <2>4. \A p : p \in InCallback <=> p \in Runners \/ p = "selfrun"
    BY DEF InCallback, Runners
  <2>5. QED
    BY <1>2, <2>1, <2>2, <2>3, <2>4 DEF OneCall
<1>3. QED
  BY <1>1, <1>2

LEMMA NobodyShown ==
  ASSUME IInv, NEW d \in Callbacks, NEW S \in {InCallback, Enders},
         \A u \in Threads : \A i \in Nat : Place(u, i) \in S => Of(u, i) # d
  PROVE  Doers(d, S) = {} /\ Shown(S)[d] = NoThread
<1>1. \A u \in Threads : u \notin Doers(d, S)
  <2>1. stack \in [Threads -> Seq(Frame)] /\ S \in SUBSET Places
    BY OneCell DEF IInv, TypeOK
  <2>3. \A u \in Threads : u \in Doers(d, S) <=> \E i \in Nat : Place(u, i) \in S /\ Of(u, i) = d
    BY <2>1, DoersByCells
  <2>2. QED
    BY <2>3
<1>2. Doers(d, S) = {}
  BY <1>1 DEF Doers
<1>3. QED
  BY <1>2, ThreadOfDoers DEF Shown

(* A step inside one call shows nothing, or that a callback is executed or  *)
(* destroyed from here on, or that it no longer is.                         *)
LEMMA MoveShows ==
  ASSUME IInv, stack' \in [Threads -> Seq(Frame)], NEW S \in {InCallback, Enders},
         NEW t \in Threads, NEW n \in Nat, NEW old, NEW a, NEW c, Moves(t, n, old, a, c)
  PROVE  /\ old \notin S /\ a \notin S => Shown(S)' = Shown(S)
         /\ old \in S /\ a \in S /\ Of(t, n) = c => Shown(S)' = Shown(S)
         /\ c \in Callbacks /\ a \in S /\ old \notin S /\ Doers(c, S) = {} =>
              Shown(S)' = [Shown(S) EXCEPT ![c] = t]
         /\ Of(t, n) \in Callbacks /\ old \in S /\ a \notin S =>
              /\ Shown(S)[Of(t, n)] = t
              /\ Shown(S)' = [Shown(S) EXCEPT ![Of(t, n)] = NoThread]
<1>1. PICK b : b = Of(t, n)
  OBVIOUS
<1>2. ASSUME NEW d \in Callbacks
      PROVE  /\ (old \in S /\ b = d <=> a \in S /\ c = d) => Shown(S)'[d] = Shown(S)[d]
             /\ Doers(d, S) = {} /\ a \in S /\ c = d => Shown(S)'[d] = t
             /\ old \in S /\ b = d => Shown(S)[d] = t
             /\ old \in S /\ b = d /\ ~(a \in S /\ c = d) => Shown(S)'[d] = NoThread
  <2>1. stack \in [Threads -> Seq(Frame)]
    BY DEF IInv, TypeOK
  <2>2. /\ S \in SUBSET Places
        /\ OneCall(d, S)
    BY OneCell
  <2>3. /\ (old \in S /\ b = d <=> a \in S /\ c = d) => Doers(d, S)' = Doers(d, S)
        /\ Doers(d, S) = {} /\ a \in S /\ c = d => Doers(d, S)' = {t}
        /\ old \in S /\ b = d => Doers(d, S) = {t}
        /\ old \in S /\ b = d /\ ~(a \in S /\ c = d) => Doers(d, S)' = {}
    <3>1. /\ \A u \in Threads : u \in Doers(d, S) <=> \E i \in Nat : Place(u, i) \in S /\ Of(u, i) = d
          /\ \A u \in Threads : u \in Doers(d, S)' <=> \E i \in Nat : Place(u, i)' \in S /\ Of(u, i)' = d
      BY <2>1, <2>2, DoersByCells, DoersByCellsNext
    <3>2. Doers(d, S) \subseteq Threads /\ Doers(d, S)' \subseteq Threads
      BY DEF Doers
    <3>3. PICK V, W : V = Doers(d, S) /\ W = Doers(d, S)'
      OBVIOUS
    <3>4. /\ \A u \in Threads : u \in V <=> \E i \in Nat : Place(u, i) \in S /\ Of(u, i) = d
          /\ \A u \in Threads : u \in W <=> \E i \in Nat : Place(u, i)' \in S /\ Of(u, i)' = d
          /\ V \subseteq Threads /\ W \subseteq Threads
      BY <3>1, <3>2, <3>3
    <3> DEFINE Here(u, i) == Place(u, i) \in S /\ Of(u, i) = d
               Then(u, i) == Place(u, i)' \in S /\ Of(u, i)' = d
    <3>5. /\ Here(t, n) <=> old \in S /\ b = d
          /\ Then(t, n) <=> a \in S /\ c = d
      BY <1>1 DEF Moves
    <3>6. ASSUME NEW u \in Threads, NEW i \in Nat, u # t \/ i # n
          PROVE  Here(u, i) <=> Then(u, i)
      BY <3>6 DEF Moves
    <3>7. \A u, v \in Threads : \A i, j \in Nat : Here(u, i) /\ Here(v, j) => u = v /\ i = j
      BY <2>2 DEF OneCall
    <3>8. /\ \A u \in Threads : u \in V <=> \E i \in Nat : Here(u, i)
          /\ \A u \in Threads : u \in W <=> \E i \in Nat : Then(u, i)
          /\ V \subseteq Threads /\ W \subseteq Threads
      BY <3>4
    <3> HIDE DEF Here, Then
    <3>9. ASSUME old \in S /\ b = d <=> a \in S /\ c = d PROVE V = W
      <4>1. \A u \in Threads : \A i \in Nat : Here(u, i) <=> Then(u, i)
        BY <3>9, <3>5, <3>6
      <4>2. QED
        BY <3>8, <4>1
    <3>10. ASSUME V = {}, a \in S, c = d PROVE W = {t}
      <4>1. \A u \in Threads : \A i \in Nat : ~Here(u, i)
        BY <3>10, <3>8
      <4>2. \A u \in Threads : \A i \in Nat : Then(u, i) <=> u = t /\ i = n
        BY <3>10, <3>5, <3>6, <4>1
      <4>3. QED
        BY <3>8, <4>2
    <3>11. ASSUME old \in S, b = d PROVE V = {t}
      <4>1. \A u \in Threads : \A i \in Nat : Here(u, i) <=> u = t /\ i = n
        BY <3>11, <3>5, <3>7
      <4>2. QED
        BY <3>8, <4>1
    <3>12. ASSUME old \in S, b = d, ~(a \in S /\ c = d) PROVE W = {}
      <4>1. \A u \in Threads : \A i \in Nat : ~Then(u, i)
        BY <3>12, <3>5, <3>6, <3>7
      <4>2. QED
        BY <3>8, <4>1
    <3>13. QED
      BY <3>3, <3>9, <3>10, <3>11, <3>12
  <2>4. Shown(S)[d] = ThreadAt(d, S) /\ Shown(S)'[d] = ThreadAt(d, S)'
    BY DEF Shown
  <2>5. QED
    BY <2>3, <2>4, ThreadOfDoers
<1>3. PICK F, G : /\ F = Shown(S) /\ G = Shown(S)'
                  /\ F = [d \in Callbacks |-> F[d]] /\ G = [d \in Callbacks |-> G[d]]
  BY DEF Shown
<1>4. PICK E : E = Doers(c, S)
  OBVIOUS
<1>5. /\ \A d \in Callbacks : (old \in S /\ b = d <=> a \in S /\ c = d) => G[d] = F[d]
      /\ c \in Callbacks /\ E = {} /\ a \in S => G[c] = t
      /\ b \in Callbacks /\ old \in S => F[b] = t
      /\ b \in Callbacks /\ old \in S /\ ~(a \in S /\ c = b) => G[b] = NoThread
  BY <1>2, <1>3, <1>4
<1>6. (old \notin S /\ a \notin S) \/ (old \in S /\ a \in S /\ b = c) => G = F
  BY <1>3, <1>5
<1>7. c \in Callbacks /\ a \in S /\ old \notin S /\ E = {} => G = [F EXCEPT ![c] = t]
  BY <1>3, <1>5
<1>8. b \in Callbacks /\ old \in S /\ a \notin S => F[b] = t /\ G = [F EXCEPT ![b] = NoThread]
  BY <1>3, <1>5
<1>9. QED
  BY <1>1, <1>3, <1>4, <1>6, <1>7, <1>8

LEMMA HiddenMove ==
  ASSUME IInv, stack' \in [Threads -> Seq(Frame)], NEW old \in {"none", "notify", "pop", "register", "link"},
         NEW a \in {"none", "notify", "pop", "register", "link"},
         NEW t \in Threads, NEW n \in Nat, NEW c, Moves(t, n, old, a, c)
  PROVE  Shown(InCallback)' = Shown(InCallback) /\ Shown(Enders)' = Shown(Enders)
<1>1. ASSUME NEW S \in {InCallback, Enders} PROVE Shown(S)' = Shown(S)
  <2>1. old \notin S /\ a \notin S
    BY DEF InCallback, Enders
  <2>2. QED
    BY <2>1, MoveShows
<1>2. QED
  BY <1>1

LEMMA RefInit == Init => RefInv /\ Token!Init
<1> SUFFICES ASSUME Init PROVE RefInv /\ Token!Init
  OBVIOUS
<1>1. \A t \in Threads : \A i \in Nat : Place(t, i) = "none"
  BY EmptySeq DEF Init, Place
<1>2. RequesterIs /\ RanInv
  BY <1>1 DEF RequesterIs, RanInv, Runners, Init
<1>3. \A c \in Callbacks : Shown(InCallback)[c] = NoThread /\ Shown(Enders)[c] = NoThread
  BY <1>1, InvInit, NobodyShown DEF InCallback, Enders
<1>4. Token!Init
  BY <1>3 DEF Init, Token!Init, Shown, Enders
<1>5. QED
  BY <1>2, <1>4, InvInit DEF RefInv

LEMMA RequestStopRefines ==
  ASSUME RefInv, NEW t \in Threads, RequestStop(t)
  PROVE  RequesterIs' /\ RanInv' /\ Token!Next
<1>1. PICK n \in Nat : Moves(t, n, "none", "notify", Null) /\ stack' \in [Threads -> Seq(Frame)]
  BY CallMoves DEF RefInv, IInv, RequestStop, Places, Ref
<1>2. RequesterIs'
  BY <1>1 DEF RefInv, RequesterIs, RequestStop, Moves, Runners
<1>3. RanInv'
  BY <1>1 DEF RefInv, RanInv, RequestStop, Moves
<1>4. Shown(InCallback)' = Shown(InCallback) /\ Shown(Enders)' = Shown(Enders)
  BY <1>1, HiddenMove DEF RefInv
<1>5. Token!Next
  BY <1>4 DEF Token!Next, Token!Stop, Shown, Enders, RequestStop
<1>6. QED
  BY <1>2, <1>3, <1>5

LEMMA NotifyRefines ==
  ASSUME RefInv, NEW t \in Threads, Notify(t)
  PROVE  RequesterIs' /\ RanInv' /\ UNCHANGED Token!vars
<1>1. PICK n \in Nat : Moves(t, n, "notify", "pop", Null) /\ stack' \in [Threads -> Seq(Frame)]
  BY GotoMoves DEF RefInv, IInv, Notify, Places, Ref
<1>2. RequesterIs'
  <2>1. \A u \in Threads : \A i \in Nat : Place(u, i)' \in Runners \cup {"pop"} => u = t
    BY <1>1 DEF RefInv, IInv, RequesterInv, Moves, Runners, Requesters
  <2>2. QED
    BY <2>1 DEF RequesterIs, Notify, Runners
<1>3. RanInv'
  BY <1>1 DEF RefInv, RanInv, Notify, Moves
<1>4. Shown(InCallback)' = Shown(InCallback) /\ Shown(Enders)' = Shown(Enders)
  BY <1>1, HiddenMove DEF RefInv
<1>5. UNCHANGED Token!vars
  BY <1>4 DEF Token!vars, Shown, Enders, Notify
<1>6. QED
  BY <1>2, <1>3, <1>5

LEMMA PopRefines ==
  ASSUME RefInv, NEW t \in Threads, Pop(t)
  PROVE  RequesterIs' /\ RanInv' /\ [Token!Next]_(Token!vars)
<1>1. CASE head = Null
  <2>1. PICK n \in Nat : Moves(t, n, "pop", "none", Null) /\ stack' \in [Threads -> Seq(Frame)]
    BY <1>1, ReturnMoves DEF RefInv, IInv, Pop, Places
  <2>2. UNCHANGED <<state, life, ran>>
    BY <1>1 DEF Pop
  <2>3. RequesterIs'
    BY <2>1, <2>2 DEF RefInv, RequesterIs, Moves, Runners, state
  <2>4. RanInv'
    BY <2>1, <2>2 DEF RefInv, RanInv, Moves, state
  <2>5. Shown(InCallback)' = Shown(InCallback) /\ Shown(Enders)' = Shown(Enders)
    BY <2>1, HiddenMove DEF RefInv
  <2>6. UNCHANGED Token!vars
    BY <2>2, <2>5 DEF Token!vars, Shown, Enders, state
  <2>7. QED
    BY <2>3, <2>4, <2>6
<1>2. CASE head # Null
  <2>1. PICK c \in Callbacks : c = head
    BY <1>2 DEF RefInv, IInv, TypeOK, Ref
  <2>2. PICK a \in Runners : a = IF next[c] = Null THEN "lastrun" ELSE "run"
    BY DEF Runners
  <2>3. PICK n \in Nat : Moves(t, n, "pop", a, c) /\ stack' \in [Threads -> Seq(Frame)]
    BY <1>2, <2>1, <2>2, GotoMoves DEF RefInv, IInv, Pop, Places, Ref, Runners
  <2>4. /\ ran' = ran \cup {c} /\ flagged' = flagged \cup {c}
        /\ UNCHANGED <<requested, requester, done, held, life>>
    BY <1>2, <2>1 DEF Pop
  <2>5. requested /\ requester = t
    BY <2>3 DEF RefInv, IInv, RequesterInv, RequesterIs, Moves, Requesters
  <2>6. c \in held /\ c \notin flagged \cup done /\ life[c] \in {"alive", "destroying"}
    BY <1>2, <2>1 DEF RefInv, IInv, ListInv, Linked, Listed
  <2>7. c \notin ran
    BY <2>6 DEF RefInv, RanInv
  <2>8. RequesterIs'
    BY <2>2, <2>3, <2>4, <2>5 DEF RefInv, RequesterIs, Moves, Runners
  <2>9. RanInv'
    <3>1. \A u \in Threads : \A i \in Nat : Place(u, i)' \in {"register", "link"} => Of(u, i)' # c
      BY <2>2, <2>3, <2>6 DEF RefInv, IInv, CallInv, Moves, Makers, Runners
    <3>2. a \notin {"register", "link"}
      BY DEF Runners
    <3>3. QED
      BY <2>2, <2>3, <2>4, <2>6, <3>1, <3>2 DEF RefInv, RanInv, Moves
  <2>10. Doers(c, InCallback) = {}
    <3>1. \A u \in Threads : \A i \in Nat : Place(u, i) \in InCallback => Of(u, i) # c
      BY <2>3, <2>6 DEF RefInv, IInv, RequesterInv, CallInv, Moves, Requesters, Makers, InCallback
    <3>2. QED
      BY <3>1, NobodyShown DEF RefInv
  <2>11. Shown(InCallback)' = [Shown(InCallback) EXCEPT ![c] = t]
    <3>1. a \in InCallback /\ "pop" \notin InCallback
      BY DEF InCallback, Runners
    <3>2. IInv
      BY DEF RefInv
    <3>3. QED
      BY <2>3, <2>10, <3>1, <3>2, MoveShows
  <2>12. Shown(Enders)' = Shown(Enders)
    <3>1. a \notin Enders /\ "pop" \notin Enders
      BY DEF Enders, Runners
    <3>2. IInv
      BY DEF RefInv
    <3>3. QED
      BY <2>3, <3>1, <3>2, MoveShows
  <2>13. Token!Begin(c, t)
    BY <2>4, <2>5, <2>6, <2>7, <2>11, <2>12 DEF Token!Begin, Shown, Enders
  <2>14. QED
    BY <2>8, <2>9, <2>13 DEF Token!Next
<1>3. QED
  BY <1>1, <1>2

LEMMA RunEndsRefines ==
  ASSUME RefInv, NEW t \in Threads, RunEnds(t)
  PROVE  RequesterIs' /\ RanInv' /\ Token!Next
<1>1. PICK a \in Runners : At(t, a) /\ (a = "lastrun" <=> At(t, "lastrun"))
  BY DEF RunEnds, Runners, At
<1>2. PICK b \in {"none", "pop"}, n \in Nat :
        /\ Moves(t, n, a, b, Null) /\ Of(t, n) = Top(t).cb /\ stack' \in [Threads -> Seq(Frame)]
  <2>1. CASE a = "lastrun"
    BY <1>1, <2>1, ReturnMoves DEF RefInv, IInv, RunEnds, Places
  <2>2. CASE a # "lastrun"
    BY <1>1, <2>2, GotoMoves DEF RefInv, IInv, RunEnds, Places, Runners, Ref
  <2>3. QED
    BY <2>1, <2>2
<1>3. PICK c \in Callbacks : c = Top(t).cb /\ c = Of(t, n) /\ c \in held
  BY <1>2 DEF RefInv, IInv, RunInv, TypeOK, Moves
<1>4. /\ UNCHANGED <<requested, requester, held, life, ran>>
      /\ flagged' \cup done' = flagged \cup done \/ flagged' \cup done' = flagged \cup done \cup {c}
  BY <1>3 DEF RunEnds
<1>5. RequesterIs'
  BY <1>2, <1>4 DEF RefInv, RequesterIs, Moves, Runners
<1>6. RanInv'
  <2>1. b \notin {"register", "link"}
    OBVIOUS
  <2>2. QED
    BY <1>2, <1>4, <2>1 DEF RefInv, RanInv, Moves
<1>7. IInv
  BY DEF RefInv
<1>8. Shown(InCallback)[c] = t /\ Shown(InCallback)' = [Shown(InCallback) EXCEPT ![c] = NoThread]
  <2>1. a \in InCallback /\ b \notin InCallback
    BY DEF InCallback, Runners
  <2>2. QED
    BY <1>2, <1>3, <1>7, <2>1, MoveShows
<1>9. Shown(Enders)' = Shown(Enders)
  <2>1. a \notin Enders /\ b \notin Enders
    BY DEF Enders, Runners
  <2>2. QED
    BY <1>2, <1>7, <2>1, MoveShows
<1>10. Token!End(c)
  BY <1>4, <1>8, <1>9, StopAssumption DEF Token!End, Shown, Enders
<1>11. QED
  BY <1>5, <1>6, <1>10 DEF Token!Next

(* A step that touches neither the calls nor what the token sees.           *)
LEMMA StackUnchanged ==
  ASSUME UNCHANGED stack
  PROVE  /\ \A u \in Threads : \A i \in Nat : Place(u, i)' = Place(u, i) /\ Of(u, i)' = Of(u, i)
         /\ Shown(InCallback)' = Shown(InCallback) /\ Shown(Enders)' = Shown(Enders)
BY DEF Place, Of, Shown, ThreadAt, InCallback, Enders

LEMMA QuietRefines ==
  ASSUME RefInv, UNCHANGED <<requested, requester, flagged, done, held, life, ran, stack>>
  PROVE  RequesterIs' /\ RanInv' /\ UNCHANGED Token!vars
<1>1. RequesterIs'
  BY StackUnchanged DEF RefInv, RequesterIs
<1>2. RanInv'
  BY StackUnchanged DEF RefInv, RanInv
<1>3. UNCHANGED Token!vars
  BY StackUnchanged DEF Token!vars, Shown, Enders
<1>4. QED
  BY <1>1, <1>2, <1>3

LEMMA ConstructRefines ==
  ASSUME RefInv, NEW t \in Threads, NEW c \in Callbacks, Construct(t, c)
  PROVE  RequesterIs' /\ RanInv' /\ Token!Next
<1>1. PICK n \in Nat : Moves(t, n, "none", "register", c) /\ stack' \in [Threads -> Seq(Frame)]
  BY CallMoves DEF RefInv, IInv, Construct, Places, Ref
<1>2. /\ UNCHANGED <<requested, requester, flagged, done, held, ran>>
      /\ life' = [life EXCEPT ![c] = "constructing"] /\ life[c] = "new"
      /\ life \in [Callbacks -> {"new", "constructing", "alive", "destroying", "dead"}]
      /\ ran \subseteq Callbacks
  BY DEF Construct, Enter, state, RefInv, IInv, TypeOK
<1>3. RequesterIs'
  BY <1>1, <1>2 DEF RefInv, RequesterIs, Moves, Runners
<1>4. RanInv'
  BY <1>1, <1>2 DEF RefInv, RanInv, Moves
<1>5. Shown(InCallback)' = Shown(InCallback) /\ Shown(Enders)' = Shown(Enders)
  BY <1>1, HiddenMove DEF RefInv
<1>6. Token!Construct(c)
  BY <1>2, <1>5 DEF Token!Construct, Token!Advance, Shown, Enders
<1>7. QED
  BY <1>3, <1>4, <1>6 DEF Token!Next

(* register_callback runs a callback only if nobody else could: it is not   *)
(* registered, so the one call about it is its constructor.                 *)
LEMMA RunHereRefines ==
  ASSUME RefInv, NEW t \in Threads, NEW o \in {"register", "link"}, At(t, o), requested, RunHere(t)
  PROVE  RequesterIs' /\ RanInv' /\ Token!Next
<1>1. PICK c \in Callbacks : c = Top(t).cb /\ life[c] = "constructing"
  BY MakerKnowsCallback DEF RefInv, Makers
<1>2. PICK n \in Nat : /\ Moves(t, n, o, "selfrun", c) /\ Of(t, n) = c
                       /\ stack' \in [Threads -> Seq(Frame)]
  BY <1>1, GotoMoves DEF RefInv, IInv, RunHere, Places, Ref
<1>3. UNCHANGED <<requested, requester, flagged, done, held, life>> /\ ran' = ran \cup {c}
  BY <1>1 DEF RunHere, state
<1>4. c \notin held
  BY <1>1 DEF RefInv, IInv, ListInv
<1>5. Place(t, n) = o /\ Of(t, n) = c
  BY <1>2 DEF Moves
<1>6. c \notin ran
  BY <1>5 DEF RefInv, RanInv
<1>7. \A u \in Threads : \A i \in Nat : Place(u, i) \in Makers /\ Of(u, i) = c => u = t /\ i = n
  BY <1>5 DEF RefInv, IInv, CallInv, Makers
<1>8. RequesterIs'
  BY <1>2, <1>3 DEF RefInv, RequesterIs, Moves, Runners
<1>9. RanInv'
  <2>1. \A u \in Threads : \A i \in Nat : Place(u, i)' \in {"register", "link"} =>
          Of(u, i)' # c /\ Of(u, i)' = Of(u, i) /\ Place(u, i)' = Place(u, i)
    BY <1>2, <1>7 DEF Moves, Makers
  <2>2. QED
    BY <1>1, <1>3, <1>4, <2>1 DEF RefInv, RanInv
<1>10. IInv
  BY DEF RefInv
<1>11. Doers(c, InCallback) = {}
  <2>1. \A u \in Threads : \A i \in Nat : Place(u, i) \in InCallback => Of(u, i) # c
    <3>1. \A u \in Threads : \A i \in Nat : Place(u, i) \in Runners => Of(u, i) \in held
      BY <1>10 DEF IInv, RunInv
    <3>2. \A u \in Threads : \A i \in Nat : Place(u, i) = "selfrun" => Of(u, i) # c
      BY <1>5, <1>7 DEF Makers
    <3>3. \A p : p \in InCallback <=> p \in Runners \/ p = "selfrun"
      BY DEF InCallback, Runners
    <3>4. QED
      BY <1>4, <3>1, <3>2, <3>3
  <2>2. QED
    BY <1>10, <2>1, NobodyShown
<1>12. Shown(InCallback)' = [Shown(InCallback) EXCEPT ![c] = t]
  <2>1. "selfrun" \in InCallback /\ o \notin InCallback
    BY DEF InCallback
  <2>2. QED
    BY <1>2, <1>10, <1>11, <2>1, MoveShows
<1>13. Shown(Enders)' = Shown(Enders)
  <2>1. "selfrun" \notin Enders /\ o \notin Enders
    BY DEF Enders
  <2>2. QED
    BY <1>2, <1>10, <2>1, MoveShows
<1>14. Token!Begin(c, t)
  BY <1>1, <1>3, <1>6, <1>12, <1>13 DEF Token!Begin, Shown, Enders
<1>15. QED
  BY <1>8, <1>9, <1>14 DEF Token!Next

LEMMA RegisterRefines ==
  ASSUME RefInv, NEW t \in Threads, Register(t)
  PROVE  RequesterIs' /\ RanInv' /\ [Token!Next]_(Token!vars)
<1>1. CASE requested /\ RunHere(t)
  BY <1>1, RunHereRefines DEF Register
<1>2. CASE ~requested /\ Goto(t, "link", Top(t).cb) /\ UNCHANGED <<state, life, ran>>
  <2>1. PICK c \in Callbacks : c = Top(t).cb
    BY MakerKnowsCallback DEF RefInv, Register, Makers
  <2>2. PICK n \in Nat : /\ Moves(t, n, "register", "link", c) /\ Of(t, n) = c
                         /\ stack' \in [Threads -> Seq(Frame)]
    BY <1>2, <2>1, GotoMoves DEF RefInv, IInv, Register, Places, Ref
  <2>3. UNCHANGED <<requested, requester, flagged, done, held, life, ran>>
    BY <1>2 DEF state
  <2>4. RequesterIs'
    BY <2>2, <2>3 DEF RefInv, RequesterIs, Moves, Runners
  <2>5. RanInv'
    BY <2>2, <2>3 DEF RefInv, RanInv, Moves
  <2>6. Shown(InCallback)' = Shown(InCallback) /\ Shown(Enders)' = Shown(Enders)
    BY <2>2, HiddenMove DEF RefInv
  <2>7. UNCHANGED Token!vars
    BY <2>3, <2>6 DEF Token!vars, Shown, Enders
  <2>8. QED
    BY <2>4, <2>5, <2>7
<1>3. QED
  BY <1>1, <1>2 DEF Register

LEMMA LinkRefines ==
  ASSUME RefInv, NEW t \in Threads, Link(t)
  PROVE  RequesterIs' /\ RanInv' /\ Token!Next
<1>1. CASE requested /\ RunHere(t)
  BY <1>1, RunHereRefines DEF Link
<1>2. CASE ~(requested /\ RunHere(t))
  <2>1. PICK c \in Callbacks : c = Top(t).cb /\ life[c] = "constructing"
    BY MakerKnowsCallback DEF RefInv, Link, Makers
  <2>2. PICK n \in Nat : /\ Moves(t, n, "link", "none", Null) /\ Of(t, n) = c
                         /\ stack' \in [Threads -> Seq(Frame)]
    BY <1>2, <2>1, ReturnMoves DEF RefInv, IInv, Link, Places
  <2>3. /\ life' = [life EXCEPT ![c] = "alive"]
        /\ UNCHANGED <<requested, requester, flagged, done, ran>>
        /\ held' \in {held, held \cup {c}}
    BY <1>2, <2>1 DEF Link, Enter, state, PushFront
  <2>4. life \in [Callbacks -> {"new", "constructing", "alive", "destroying", "dead"}]
        /\ ran \subseteq Callbacks
    BY DEF RefInv, IInv, TypeOK
  <2>5. c \notin ran
    BY <2>2 DEF RefInv, RanInv, Moves
  <2>6. RequesterIs'
    BY <2>2, <2>3 DEF RefInv, RequesterIs, Moves, Runners
  <2>7. RanInv'
    BY <2>2, <2>3, <2>4, <2>5 DEF RefInv, RanInv, Moves
  <2>8. Shown(InCallback)' = Shown(InCallback) /\ Shown(Enders)' = Shown(Enders)
    BY <2>2, HiddenMove DEF RefInv
  <2>9. Token!Constructed(c)
    BY <2>1, <2>3, <2>8 DEF Token!Constructed, Token!Advance, Shown, Enders
  <2>10. QED
    BY <2>6, <2>7, <2>9 DEF Token!Next
<1>3. QED
  BY <1>1, <1>2

LEMMA SelfRunEndsRefines ==
  ASSUME RefInv, NEW t \in Threads, SelfRunEnds(t)
  PROVE  RequesterIs' /\ RanInv' /\ Token!Next
<1>1. PICK c \in Callbacks : c = Top(t).cb /\ life[c] = "constructing"
  BY MakerKnowsCallback DEF RefInv, SelfRunEnds, Makers
<1>2. PICK n \in Nat : /\ Moves(t, n, "selfrun", "none", Null) /\ Of(t, n) = c
                       /\ stack' \in [Threads -> Seq(Frame)]
  BY <1>1, ReturnMoves DEF RefInv, IInv, SelfRunEnds, Places
<1>3. /\ life' = [life EXCEPT ![c] = "alive"]
      /\ UNCHANGED <<requested, requester, flagged, done, held, ran>>
      /\ life \in [Callbacks -> {"new", "constructing", "alive", "destroying", "dead"}]
      /\ ran \subseteq Callbacks
  BY <1>1 DEF SelfRunEnds, Enter, state, RefInv, IInv, TypeOK
<1>4. IInv /\ c \notin held
  BY <1>1 DEF RefInv, IInv, ListInv
<1>5. RequesterIs'
  BY <1>2, <1>3 DEF RefInv, RequesterIs, Moves, Runners
<1>6. RanInv'
  BY <1>2, <1>3, <1>4 DEF RefInv, RanInv, Moves
<1>7. Shown(InCallback)' = [Shown(InCallback) EXCEPT ![c] = NoThread]
  <2>1. "selfrun" \in InCallback /\ "none" \notin InCallback
    BY DEF InCallback
  <2>2. QED
    BY <1>2, <1>4, <2>1, MoveShows
<1>8. Shown(Enders)' = Shown(Enders)
  <2>1. "selfrun" \notin Enders /\ "none" \notin Enders
    BY DEF Enders
  <2>2. QED
    BY <1>2, <1>4, <2>1, MoveShows
<1>9. Token!Constructed(c)
  BY <1>1, <1>3, <1>7, <1>8 DEF Token!Constructed, Token!Advance, Shown, Enders
<1>10. QED
  BY <1>5, <1>6, <1>9 DEF Token!Next

(* A destructor marks its object; who requested and what ran stay.          *)
LEMMA EnderStep ==
  ASSUME RefInv, NEW c \in Callbacks, life[c] \in {"alive", "destroying"},
         NEW to \in {"destroying", "dead"}, life' = [life EXCEPT ![c] = to],
         UNCHANGED <<requester, flagged, done, held, ran>>,
         \A u \in Threads : \A i \in Nat : Place(u, i)' \in Runners \cup {"pop", "register", "link"} =>
           Place(u, i)' = Place(u, i) /\ Of(u, i)' = Of(u, i)
  PROVE  RequesterIs' /\ RanInv'
<1>1. /\ life \in [Callbacks -> {"new", "constructing", "alive", "destroying", "dead"}]
      /\ ran \subseteq Callbacks
  BY DEF RefInv, IInv, TypeOK
<1>2. RequesterIs'
  BY DEF RefInv, RequesterIs, Runners
<1>3. RanInv'
  BY <1>1 DEF RefInv, RanInv
<1>4. QED
  BY <1>2, <1>3

LEMMA DestroyRefines ==
  ASSUME RefInv, NEW t \in Threads, NEW c \in Callbacks, Destroy(t, c)
  PROVE  RequesterIs' /\ RanInv' /\ Token!Next
<1>1. UNCHANGED <<requested, requester, flagged, done, held, ran>> /\ life[c] = "alive" /\ IInv
  BY DEF Destroy, state, RefInv
<1>2. CASE c \notin held /\ Enter(c, "dead") /\ UNCHANGED stack
  <2>1. life' = [life EXCEPT ![c] = "dead"]
    BY <1>2 DEF Enter
  <2>2. RequesterIs' /\ RanInv'
    BY <1>1, <1>2, <2>1, StackUnchanged, EnderStep
  <2>3. Shown(InCallback)[c] = NoThread
    <3>1. \A u \in Threads : \A i \in Nat : Place(u, i) \in InCallback => Of(u, i) # c
      <4>1. \A p : p \in InCallback <=> p \in Runners \/ p = "selfrun"
        BY DEF InCallback, Runners
      <4>2. \A u \in Threads : \A i \in Nat : Place(u, i) \in Runners => Of(u, i) \in held
        BY <1>1 DEF IInv, RunInv
      <4>3. \A u \in Threads : \A i \in Nat : Place(u, i) = "selfrun" => Of(u, i) # c
        BY <1>1 DEF IInv, CallInv, Makers
      <4>4. QED
        BY <1>2, <4>1, <4>2, <4>3
    <3>2. QED
      BY <1>1, <3>1, NobodyShown
  <2>4. Shown(InCallback)' = Shown(InCallback) /\ Shown(Enders)' = Shown(Enders)
    BY <1>2, StackUnchanged
  <2>5. Token!DestroyedAtOnce(c)
    BY <1>1, <2>1, <2>3, <2>4 DEF Token!DestroyedAtOnce, Token!Advance, Shown, Enders
  <2>6. QED
    BY <2>2, <2>5 DEF Token!Next
<1>3. CASE c \in held /\ Enter(c, "destroying") /\ Call(t, "remove", c)
  <2>1. life' = [life EXCEPT ![c] = "destroying"]
    BY <1>3 DEF Enter
  <2>2. PICK n \in Nat : Moves(t, n, "none", "remove", c) /\ stack' \in [Threads -> Seq(Frame)]
    BY <1>1, <1>3, CallMoves DEF IInv, Places, Ref
  <2>3. RequesterIs' /\ RanInv'
    <3>1. \A u \in Threads : \A i \in Nat : Place(u, i)' \in Runners \cup {"pop", "register", "link"} =>
            Place(u, i)' = Place(u, i) /\ Of(u, i)' = Of(u, i)
      BY <2>2 DEF Moves, Runners
    <3>2. QED
      BY <1>1, <2>1, <3>1, EnderStep
  <2>4. Shown(InCallback)' = Shown(InCallback)
    <3>1. "none" \notin InCallback /\ "remove" \notin InCallback
      BY DEF InCallback
    <3>2. QED
      BY <1>1, <2>2, <3>1, MoveShows
  <2>5. Shown(Enders)' = [Shown(Enders) EXCEPT ![c] = t]
    <3>1. "none" \notin Enders /\ "remove" \in Enders
      BY DEF Enders
    <3>2. Doers(c, Enders) = {}
      <4>1. \A u \in Threads : \A i \in Nat : Place(u, i) \in Enders => Of(u, i) # c
        BY <1>1 DEF IInv, CallInv
      <4>2. QED
        BY <1>1, <4>1, NobodyShown
    <3>3. QED
      BY <1>1, <2>2, <3>1, <3>2, MoveShows
  <2>6. Token!Destroy(c, t)
    BY <1>1, <2>1, <2>4, <2>5 DEF Token!Destroy, Token!Advance, Shown, Enders
  <2>7. QED
    BY <2>3, <2>6 DEF Token!Next
<1>4. QED
  BY <1>2, <1>3 DEF Destroy

(* A destructor returns: here is its thread, and it shows no other.         *)
LEMMA EnderReturns ==
  ASSUME RefInv, NEW t \in Threads, NEW o \in Enders, At(t, o), Return(t),
         NEW c \in Callbacks, c = Top(t).cb, Enter(c, "dead"),
         UNCHANGED <<requested, requester, flagged, done, held, ran>>,
         Shown(InCallback)[c] \in {NoThread, t}
  PROVE  RequesterIs' /\ RanInv' /\ Token!Next
<1>1. IInv /\ life[c] = "destroying"
  BY EnderKnowsCallback DEF RefInv
<1>2. PICK n \in Nat : /\ Moves(t, n, o, "none", Null) /\ Of(t, n) = c
                       /\ stack' \in [Threads -> Seq(Frame)]
  BY <1>1, ReturnMoves DEF IInv, Places, Enders
<1>3. life' = [life EXCEPT ![c] = "dead"]
  BY DEF Enter
<1>4. RequesterIs' /\ RanInv'
  <2>1. \A u \in Threads : \A i \in Nat : Place(u, i)' \in Runners \cup {"pop", "register", "link"} =>
          Place(u, i)' = Place(u, i) /\ Of(u, i)' = Of(u, i)
    BY <1>2 DEF Moves, Runners
  <2>2. QED
    BY <1>1, <1>3, <2>1, EnderStep
<1>5. Shown(InCallback)' = Shown(InCallback)
  <2>1. o \notin InCallback /\ "none" \notin InCallback
    BY DEF InCallback, Enders
  <2>2. QED
    BY <1>1, <1>2, <2>1, MoveShows
<1>6. Shown(Enders)[c] = t /\ Shown(Enders)' = [Shown(Enders) EXCEPT ![c] = NoThread]
  <2>1. "none" \notin Enders
    BY DEF Enders
  <2>2. QED
    BY <1>1, <1>2, <2>1, MoveShows
<1>7. Token!Destroyed(c)
  BY <1>1, <1>3, <1>5, <1>6 DEF Token!Destroyed, Token!Advance, Shown, Enders
<1>8. QED
  BY <1>4, <1>7 DEF Token!Next

(* Nobody executes a callback that is neither flagged nor being constructed. *)
LEMMA NoRunner ==
  ASSUME IInv, NEW c \in Callbacks, life[c] = "destroying", c \notin flagged \/ c \in done
  PROVE  Shown(InCallback)[c] = NoThread
<1>1. \A u \in Threads : \A i \in Nat : Place(u, i) \in InCallback => Of(u, i) # c
  <2>1. \A p : p \in InCallback <=> p \in Runners \/ p = "selfrun"
    BY DEF InCallback, Runners
  <2>2. \A u \in Threads : \A i \in Nat : Place(u, i) \in Runners => Of(u, i) # c
    BY DEF IInv, RunInv
  <2>3. \A u \in Threads : \A i \in Nat : Place(u, i) = "selfrun" => Of(u, i) # c
    BY DEF IInv, CallInv, Makers
  <2>4. QED
    BY <2>1, <2>2, <2>3
<1>2. QED
  BY <1>1, NobodyShown

LEMMA RemoveRefines ==
  ASSUME RefInv, NEW t \in Threads, Remove(t)
  PROVE  RequesterIs' /\ RanInv' /\ [Token!Next]_(Token!vars)
<1>1. PICK c \in Callbacks : c = Top(t).cb /\ c \in held /\ life[c] = "destroying"
  BY EnderKnowsCallback DEF RefInv, IInv, TypeOK, Remove, Enders
<1>2. UNCHANGED <<requested, requester, flagged, done, held, ran>> /\ IInv
  BY DEF Remove, RefInv
<1>3. CASE Listed(c)
  <2>1. Return(t) /\ Enter(c, "dead")
    BY <1>1, <1>3 DEF Remove, Listed
  <2>2. c \notin flagged
    BY <1>1, <1>2, <1>3 DEF IInv, ListInv, Linked
  <2>3. QED
    BY <1>1, <1>2, <2>1, <2>2, NoRunner, EnderReturns DEF Remove, Enders
<1>4. CASE ~Listed(c)
  <2>1. Goto(t, "away", c) /\ UNCHANGED life
    BY <1>1, <1>4 DEF Remove, Listed
  <2>2. PICK n \in Nat : /\ Moves(t, n, "remove", "away", c) /\ Of(t, n) = c
                         /\ stack' \in [Threads -> Seq(Frame)]
    BY <1>1, <1>2, <2>1, GotoMoves DEF IInv, Remove, Places, Ref
  <2>3. RequesterIs'
    BY <1>2, <2>2 DEF RefInv, RequesterIs, Moves, Runners
  <2>4. RanInv'
    BY <1>2, <2>1, <2>2 DEF RefInv, RanInv, Moves
  <2>5. Shown(InCallback)' = Shown(InCallback)
    <3>1. "remove" \notin InCallback /\ "away" \notin InCallback
      BY DEF InCallback
    <3>2. QED
      BY <1>2, <2>2, <3>1, MoveShows
  <2>6. Shown(Enders)' = Shown(Enders)
    <3>1. "remove" \in Enders /\ "away" \in Enders
      BY DEF Enders
    <3>2. QED
      BY <1>2, <2>2, <3>1, MoveShows
  <2>7. UNCHANGED Token!vars
    BY <1>2, <2>1, <2>5, <2>6 DEF Token!vars, Shown, Enders
  <2>8. QED
    BY <2>3, <2>4, <2>7
<1>5. QED
  BY <1>3, <1>4

(* The destructor that found its callback taken out: either the callback is *)
(* done, or its own thread is the requester, and then only it can be inside *)
(* the callback.                                                            *)
LEMMA AwayRefines ==
  ASSUME RefInv, NEW t \in Threads, Away(t)
  PROVE  RequesterIs' /\ RanInv' /\ Token!Next
<1>1. PICK c \in Callbacks : c = Top(t).cb /\ c \in held /\ life[c] = "destroying"
  BY EnderKnowsCallback DEF RefInv, IInv, TypeOK, Away, Enders
<1>2. UNCHANGED <<requested, requester, flagged, done, held, ran>> /\ IInv
  BY DEF Away, RefInv
<1>3. Shown(InCallback)[c] \in {NoThread, t}
  <2>1. CASE c \in done
    BY <1>1, <1>2, <2>1, NoRunner
  <2>2. CASE requester = t
    <3>1. \A u \in Threads : u \in Doers(c, InCallback) => u = t
      <4>1. stack \in [Threads -> Seq(Frame)] /\ InCallback \in SUBSET Places
        BY <1>2 DEF IInv, TypeOK, InCallback, Places
      <4>2. \A u \in Threads : u \in Doers(c, InCallback)
              <=> \E i \in Nat : Place(u, i) \in InCallback /\ Of(u, i) = c
        BY <4>1, DoersByCells
      <4>3. \A u \in Threads : \A i \in Nat : Place(u, i) \in InCallback /\ Of(u, i) = c => u = t
        BY <1>1, <2>2 DEF RefInv, IInv, CallInv, RequesterIs, Makers, Runners, InCallback
      <4>4. QED
        BY <4>2, <4>3
    <3>2. Doers(c, InCallback) \subseteq Threads
      BY DEF Doers
    <3>3. Doers(c, InCallback) = {} \/ Doers(c, InCallback) = {t}
      BY <3>1, <3>2
    <3>4. QED
      BY <3>3, ThreadOfDoers DEF Shown
  <2>3. QED
    BY <1>1, <2>1, <2>2 DEF Away
<1>4. QED
  BY <1>1, <1>2, <1>3, EnderReturns DEF Away, Enders

LEMMA StepRefines ==
  ASSUME RefInv, [Next]_vars
  PROVE  RequesterIs' /\ RanInv' /\ [Token!Next]_(Token!vars)
<1>1. CASE DropSource
  BY <1>1, QuietRefines DEF DropSource
<1>2. CASE UNCHANGED vars
  BY <1>2, QuietRefines DEF vars, state
<1>3. ASSUME NEW t \in Threads, Start(t) PROVE RequesterIs' /\ RanInv' /\ [Token!Next]_(Token!vars)
  BY <1>3, RequestStopRefines, ConstructRefines, DestroyRefines DEF Start
<1>4. ASSUME NEW t \in Threads, Proceed(t) PROVE RequesterIs' /\ RanInv' /\ [Token!Next]_(Token!vars)
  BY <1>4, NotifyRefines, PopRefines, RunEndsRefines, RegisterRefines, LinkRefines,
     SelfRunEndsRefines, RemoveRefines, AwayRefines DEF Proceed
<1>5. QED
  BY <1>1, <1>2, <1>3, <1>4 DEF Next

(* The stop state keeps the token's promise: a callback runs at most once,  *)
(* after the request and while its object exists, and no destructor returns *)
(* while another thread is inside the callback.                             *)
THEOREM StopImplementsToken == Spec => ImplementsToken
<1>1. Init => RefInv /\ Token!Init
  BY RefInit
<1>2. RefInv /\ IInv' /\ [Next]_vars => RefInv' /\ [Token!Next]_(Token!vars)
  BY StepRefines DEF RefInv
<1>3. QED
  BY <1>1, <1>2, StopInvariance, PTL DEF Spec, ImplementsToken, Token!Spec
=============================================================================
