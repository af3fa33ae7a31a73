-------------------------- MODULE HomeOrder_proofs --------------------------
(***************************************************************************)
(* Proofs about the login form and the stored profile, second part: no     *)
(* step of a getData or setData call changes the order of the calls.       *)
(***************************************************************************)
EXTENDS HomeQueue_proofs

-----------------------------------------------------------------------------
(* The order of the calls, step by step. *)

Order == CallsOK /\ Written /\ ReadEarlier

\* The steps that make no call, perform none and resume none.
LEMMA OrderSame ==
    ASSUME TypeOK, Order, UNCHANGED <<requests, replies, store, validated>>
    PROVE  Order' /\ (ReadLater => ReadLater')
<1>1. PICK m \in Nat : Queue' = 1 .. m /\ Shifted(m, 0)
  BY QueueSame, Zenon
<1>2. Len(validated') \in Nat /\ Len(validated) <= Len(validated')
  BY CallTypes
<1>3. \A i \in Queue' : CallOK(Call(i))'
  BY <1>1, <1>2, CallsFrom, Zenon DEF Order
<1>4. CallsOK'
  BY <1>3, Zenon DEF Order, CallsOK, Whole
<1> QED
  BY <1>1, <1>2, <1>4, WrittenFrom, ReadFrom, LaterFrom, Zenon DEF Order

LEMMA OrderEnds ==
    ASSUME TypeOK, Order, ProcessEnds
    PROVE  Order' /\ ReadLater'
<1>1. Queue' = {} /\ DOMAIN replies' = {} /\ store' = store /\ validated' = validated
  BY QueueEmpty, Zenon DEF ProcessEnds
<1>2. CallsOK'
  BY <1>1, Zenon DEF Order, CallsOK, Whole
<1> QED
  BY <1>1, <1>2, Zenon DEF Order, Written, ReadEarlier, ReadLater

\* getData or setData ends.
LEMMA OrderLeaves ==
    ASSUME TypeOK, Order, replies # <<>>, requests' = requests, replies' = Tail(replies),
           UNCHANGED <<store, validated>>
    PROVE  Order' /\ (ReadLater => ReadLater')
<1>1. PICK m \in Nat : Queue' = 1 .. m /\ Shifted(m, 1)
  BY QueueLeft, Zenon
<1>2. Len(validated') \in Nat /\ Len(validated) <= Len(validated')
  BY CallTypes
<1>3. \A i \in Queue' : CallOK(Call(i))'
  BY <1>1, <1>2, CallsFrom, Zenon DEF Order
<1>4. \A i \in DOMAIN replies' : Whole(replies'[i].text)
  BY QueueLeft, Zenon DEF Order, CallsOK
<1>5. CallsOK'
  BY <1>3, <1>4, Zenon DEF Order, CallsOK, Whole
<1> QED
  BY <1>1, <1>2, <1>5, WrittenFrom, ReadFrom, LaterFrom, Zenon DEF Order

\* The constructor calls getData.
LEMMA OrderConstruct ==
    ASSUME TypeOK, Order, Construct
    PROVE  Order' /\ (ReadLater => ReadLater')
<1> DEFINE r == GetItem(visits + 1, 1, <<>>)
<1>1. visits + 1 \in Visit
  BY Constants DEF Construct, TypeOK, Visit
<1>2. r \in Request
  <2>1. <<>> \in Seq(Item)
    OBVIOUS
  <2> QED
    BY <1>1, <2>1, RequestTypes, Constants, Zenon
<1>3. r.op = "get" /\ r.at = 1 /\ r.got = <<>>
  BY Zenon DEF GetItem
<1>4. /\ requests' = Append(requests, r) /\ replies' = replies
      /\ store' = store /\ validated' = validated
  BY Zenon DEF Construct
<1> HIDE DEF r
<1>5. PICK m \in Nat : Queue' = 1 .. m + 1 /\ Shifted(m, 0) /\ Joins(m + 1, r)
  BY <1>2, <1>4, QueueJoined, Zenon
<1>6. Len(validated') \in Nat /\ Len(validated) <= Len(validated')
  BY <1>4, CallTypes
<1>7. ~Setter(m + 1)' /\ ~HasRead(m + 1)'
  BY <1>3, <1>5 DEF Joins, Setter, HasRead
<1>8. CallOK(Call(m + 1))'
  BY <1>3, <1>5 DEF Joins, CallOK
<1>9. \A i \in Queue' : CallOK(Call(i))'
  BY <1>5, <1>6, <1>8, CallsFrom, Zenon DEF Order
<1>10. CallsOK'
  BY <1>4, <1>9, Zenon DEF Order, CallsOK, Whole
<1> QED
  BY <1>4, <1>5, <1>6, <1>7, <1>10, WrittenFrom, ReadFrom, LaterFrom, Zenon DEF Order

\* An accepted login calls setData.
LEMMA OrderLogin ==
    ASSUME TypeOK, Order, NEW h \in Visit, LoginAccepted(h)
    PROVE  Order' /\ (ReadLater => ReadLater')
<1> DEFINE k == Len(validated) + 1
           r == SetItem(h, 1, k)
<1>1. Len(validated) \in Nat /\ k \in 1 .. MaxLogins /\ k \in 0 .. MaxLogins
  BY Constants, CallTypes DEF LoginAccepted
<1>2. r \in Request
  BY <1>1, RequestTypes, Constants, Zenon
<1>3. r.op = "set" /\ r.at = 1 /\ r.login = k /\ r.got = <<>>
  BY Zenon DEF SetItem
<1>4. /\ requests' = Append(requests, r) /\ replies' = replies /\ store' = store
      /\ Len(validated') = k
  BY DEF LoginAccepted, TypeOK
<1>5. k > Len(validated)
  BY <1>1
<1> HIDE DEF r, k
<1>6. PICK m \in Nat : Queue' = 1 .. m + 1 /\ Shifted(m, 0) /\ Joins(m + 1, r)
  BY <1>2, <1>4, QueueJoined, Zenon
<1>7. Len(validated') \in Nat /\ Len(validated) <= Len(validated')
  BY <1>1, <1>4, <1>5
<1>8. CallOK(Call(m + 1))'
  BY <1>1, <1>3, <1>4, <1>6 DEF Joins, CallOK
<1>9. \A i \in Queue' : CallOK(Call(i))'
  BY <1>6, <1>7, <1>8, CallsFrom, Zenon DEF Order
<1>10. \A f \in Field : store[f].login \in Nat /\ store[f].login <= Len(validated)
  BY CallTypes, Zenon DEF Order, CallsOK
<1>11. \A f \in Field : Whole(store'[f]) /\ store'[f].login <= Len(validated')
  BY <1>1, <1>4, <1>5, <1>10 DEF Order, CallsOK
<1>12. CallsOK'
  BY <1>1, <1>4, <1>9, <1>11 DEF Order, CallsOK
<1>13. /\ ~Getter(m + 1)' /\ Call(m + 1)'.at = 1 /\ Call(m + 1)'.login = k
       /\ \A f : Past(m + 1, f)' <=> f < 1
  BY <1>3, <1>6, Zenon DEF Joins, Getter, Past
<1>14. SetOK(m + 1)'
  <2>1. \A f \in Field : ~(f < 1) /\ ~(k <= store[f].login)
    BY <1>1, <1>5, <1>10 DEF Field
  <2> QED
    BY <1>4, <1>13, <2>1, Zenon DEF SetOK
<1>15. ASSUME NEW i \in 1 .. m
       PROVE  /\ Call(i)'.at >= 1
              /\ Setter(i)' => Call(i)'.login < k
              /\ Getter(i)' /\ HasRead(i)' => Base(i)' \in Nat /\ Base(i)' < k
  <2>1. /\ i + 0 = i /\ i \in Queue /\ Call(i)' = Call(i) /\ Base(i)' = Base(i)
        /\ (Setter(i)' <=> Setter(i)) /\ (Getter(i)' <=> Getter(i))
        /\ (HasRead(i)' <=> HasRead(i))
    <3>1. i + 0 = i
      OBVIOUS
    <3> QED
      BY <1>6, <3>1, ShiftedFacts, Zenon
  <2>2. Call(i).at >= 1
    BY <2>1, CallTypes, SMTT(30) DEF Field
  <2>3. Setter(i) => Call(i).login <= Len(validated) /\ Call(i).login \in Nat
    BY <2>1, CallTypes DEF Order, CallsOK, CallOK, Setter
  <2>4. Getter(i) /\ HasRead(i) => Base(i) \in Nat /\ Base(i) <= Len(validated)
    BY <2>1, ReadsTypes, Zenon DEF Order, ReadEarlier, GetOK, Getter
  <2> QED
    BY <1>1, <1>5, <2>1, <2>2, <2>3, <2>4
<1>16. \A i \in 1 .. m : Setter(i)' => InOrder(i, m + 1)'
  BY <1>13, <1>15, Zenon DEF InOrder
<1>17. \A i \in 1 .. m : Getter(i)' /\ HasRead(i)' => StaysAhead(i, m + 1)'
  BY <1>13, <1>15 DEF StaysAhead
<1>18. ASSUME NEW i \in 1 .. m, Getter(i)', HasRead(i)' PROVE StaysBehind(i, m + 1)'
  <2>1. Base(i)' < k /\ Base(i)' \in Nat
    BY <1>15, <1>18, Zenon
  <2> QED
    BY <1>1, <1>13, <2>1 DEF StaysBehind
<1> QED
  BY <1>4, <1>6, <1>7, <1>12, <1>13, <1>14, <1>16, <1>17, <1>18, WrittenFrom, ReadFrom,
     LaterFrom, Zenon
     DEF Order

\* The call that is resumed.
LEMMA ResumedCall ==
    ASSUME TypeOK, CallsOK, replies # <<>>, Head(replies).ok
    PROVE  /\ 1 \in Queue /\ Call(1) = Head(replies).request /\ Answered(1)
           /\ Call(1).at \in 1 .. 4 /\ Call(1).login \in Nat
           /\ \A f : Past(1, f) <=> f <= Call(1).at
           /\ Call(1).op = "get" =>
                /\ Getter(1) /\ HasRead(1)
                /\ Reads(1) = Append(Call(1).got, Head(replies).text)
           /\ Call(1).op = "set" => Setter(1)
<1>1. 1 \in Queue /\ Call(1) = Head(replies).request /\ Answered(1) /\ Head(replies) = replies[1]
  BY FirstCall, Zenon
<1> QED
  BY <1>1, CallTypes, Zenon DEF Field, Getter, Setter, HasRead, Alive, Past, Reads

\* getData is resumed and asks for the next item.
LEMMA OrderGetNext ==
    ASSUME TypeOK, Order, GetDataResumes, Head(replies).request.at < Age
    PROVE  Order' /\ (ReadLater => ReadLater')
<1> DEFINE p == Head(replies)
           r == GetItem(p.request.visit, p.request.at + 1, Append(p.request.got, p.text))
<1>1. /\ replies # <<>> /\ p.ok /\ p.request.op = "get"
      /\ requests' = Append(requests, r) /\ replies' = Tail(replies)
      /\ store' = store /\ validated' = validated
  BY Zenon DEF GetDataResumes
<1>2. /\ 1 \in Queue /\ Call(1) = p.request /\ Call(1).at \in 1 .. 4
      /\ Getter(1) /\ HasRead(1) /\ Reads(1) = Append(p.request.got, p.text)
      /\ \A f : Past(1, f) <=> f <= Call(1).at
  BY <1>1, ResumedCall, Zenon DEF Order
<1>3. r.op = "get" /\ r.at = Call(1).at + 1 /\ r.got = Reads(1)
  BY <1>2, Zenon DEF GetItem
<1>4. /\ Reads(1) \in Seq(Item) /\ Base(1) \in Nat
      /\ \A n \in DOMAIN Reads(1) : Whole(Reads(1)[n])
      /\ Len(Reads(1)) = Call(1).at
  <2>1. /\ Reads(1) \in Seq(Item) /\ Base(1) \in Nat
        /\ \A n \in DOMAIN Reads(1) : Whole(Reads(1)[n])
    BY <1>1, <1>2, ReadsTypes, Zenon DEF Order
  <2>2. Len(p.request.got) = p.request.at - 1 /\ p.request.got \in Seq(Item)
    BY <1>1, <1>2, CallTypes, Zenon DEF Order, CallsOK, CallOK
  <2>3. p.text \in Item
    BY <1>1, Heads, Zenon DEF Answers
  <2>4. Len(Reads(1)) = Len(p.request.got) + 1
    BY <1>2, <2>2, <2>3, Appended
  <2>5. Len(Reads(1)) = Call(1).at
    BY <1>2, <2>2, <2>4
  <2> QED
    BY <2>1, <2>5, Zenon
<1>5. r \in Request
  <2>1. Call(1).visit \in Visit /\ Call(1).at + 1 \in Field
    BY <1>2, CallTypes, SMTT(30) DEF Field, Age
  <2> QED
    BY <1>2, <1>4, <2>1, RequestTypes, Zenon
<1> HIDE DEF r
<1>6. PICK m \in Nat : Queue = 1 .. m + 1 /\ Queue' = 1 .. m + 1 /\ Shifted(m, 1) /\ Joins(m + 1, r)
  BY <1>1, <1>5, QueueRotated, Zenon
<1>7. Len(validated') \in Nat /\ Len(validated) <= Len(validated')
  BY <1>1, CallTypes
<1>8. /\ ~Setter(m + 1)' /\ Call(m + 1)'.at = Call(1).at + 1
      /\ Reads(m + 1)' = Reads(1) /\ Base(m + 1)' = Base(1)
      /\ \A f : Past(m + 1, f)' <=> f < Call(1).at + 1
  BY <1>3, <1>6, Zenon DEF Joins, Setter, Base, Past
<1>9. CallsOK'
  <2>1. CallOK(Call(m + 1))'
    BY <1>3, <1>4, <1>6 DEF Joins, CallOK
  <2>2. \A i \in Queue' : CallOK(Call(i))'
    BY <1>6, <1>7, <2>1, CallsFrom, Zenon DEF Order
  <2>3. \A i \in DOMAIN replies' : Whole(replies'[i].text)
    BY <1>1, <1>5, QueueRotated, Zenon DEF Order, CallsOK
  <2> QED
    BY <1>1, <2>2, <2>3, Zenon DEF Order, CallsOK, Whole
<1>10. GetOK(m + 1)'
  <2>1. GetOK(1)
    BY <1>2, Zenon DEF Order, ReadEarlier
  <2>2. \A f \in Field : Past(m + 1, f)' <=> Past(1, f)
    BY <1>2, <1>8 DEF Field
  <2> QED
    BY <1>1, <1>8, <2>1, <2>2, Zenon DEF GetOK
<1>11. ASSUME NEW j \in 1 .. m, Setter(j)'
       PROVE  StaysAhead(m + 1, j)' /\ (ReadLater => StaysBehind(m + 1, j)')
  <2>1. j + 1 \in Queue /\ Setter(j + 1) /\ Call(j)' = Call(j + 1)
    BY <1>6, <1>11, ShiftedFacts, Zenon
  <2>2. StaysAhead(1, j + 1) /\ (ReadLater => StaysBehind(1, j + 1))
    BY <1>2, <2>1, Zenon DEF Order, ReadEarlier, ReadLater
  <2>3. Call(j + 1).at \in Nat /\ ~(j + 1 < 1) /\ j < m + 1
    BY <2>1, CallTypes
  <2> QED
    BY <1>2, <1>8, <2>1, <2>2, <2>3, SMTT(30) DEF StaysAhead, StaysBehind
<1>12. ReadLater => \A n \in DOMAIN Reads(m + 1)' : Reads(m + 1)'[n].login = Base(m + 1)'
  BY <1>2, <1>8, Zenon DEF ReadLater
<1> QED
  BY <1>1, <1>6, <1>7, <1>8, <1>9, <1>10, <1>11, <1>12, WrittenFrom, ReadFrom, LaterFrom, Zenon
     DEF Order

\* setData is resumed and writes the next item.
LEMMA OrderSetNext ==
    ASSUME TypeOK, Order, SetDataResumes, Head(replies).request.at < Age
    PROVE  Order' /\ (ReadLater => ReadLater')
<1> DEFINE q == Head(replies).request
           r == SetItem(q.visit, q.at + 1, q.login)
<1>1. /\ replies # <<>> /\ Head(replies).ok /\ q.op = "set"
      /\ requests' = Append(requests, r) /\ replies' = Tail(replies)
      /\ store' = store /\ validated' = validated
  BY Zenon DEF SetDataResumes
<1>2. /\ 1 \in Queue /\ Call(1) = q /\ Call(1).at \in 1 .. 4 /\ Setter(1)
      /\ Call(1).login \in Nat /\ \A f : Past(1, f) <=> f <= Call(1).at
  BY <1>1, ResumedCall, Zenon DEF Order
<1>3. r.op = "set" /\ r.at = Call(1).at + 1 /\ r.login = Call(1).login /\ r.got = <<>>
  BY <1>2, Zenon DEF SetItem
<1>4. r \in Request
  <2>1. Call(1).visit \in Visit /\ Call(1).at + 1 \in Field
    BY <1>2, CallTypes DEF Field, Age
  <2>2. Call(1).login \in 0 .. MaxLogins
    BY <1>2, QueueTypes, Zenon DEF Request
  <2> QED
    BY <1>2, <2>1, <2>2, RequestTypes, Zenon
<1> HIDE DEF r
<1>5. PICK m \in Nat : Queue = 1 .. m + 1 /\ Queue' = 1 .. m + 1 /\ Shifted(m, 1) /\ Joins(m + 1, r)
  BY <1>1, <1>4, QueueRotated, Zenon
<1>6. Len(validated') \in Nat /\ Len(validated) <= Len(validated')
  BY <1>1, CallTypes
<1>7. /\ ~Getter(m + 1)' /\ Call(m + 1)'.at = Call(1).at + 1
      /\ Call(m + 1)'.login = Call(1).login
      /\ \A f : Past(m + 1, f)' <=> f < Call(1).at + 1
  BY <1>3, <1>5, Zenon DEF Joins, Getter, Past
<1>8. CallsOK'
  <2>1. Call(1).login \in 1 .. Len(validated)
    BY <1>1, <1>2, Zenon DEF Order, CallsOK, CallOK
  <2>2. CallOK(Call(m + 1))'
    BY <1>1, <1>3, <1>5, <2>1 DEF Joins, CallOK
  <2>3. \A i \in Queue' : CallOK(Call(i))'
    BY <1>5, <1>6, <2>2, CallsFrom, Zenon DEF Order
  <2>4. \A i \in DOMAIN replies' : Whole(replies'[i].text)
    BY <1>1, <1>4, QueueRotated, Zenon DEF Order, CallsOK
  <2> QED
    BY <1>1, <2>3, <2>4, Zenon DEF Order, CallsOK, Whole
<1>9. SetOK(m + 1)'
  <2>1. SetOK(1)
    BY <1>2, Zenon DEF Order, Written
  <2>2. \A f \in Field : Past(m + 1, f)' <=> Past(1, f)
    BY <1>2, <1>7 DEF Field
  <2> QED
    BY <1>1, <1>7, <2>1, <2>2, Zenon DEF SetOK
<1>10. ASSUME NEW i \in 1 .. m
       PROVE  /\ Setter(i)' => InOrder(i, m + 1)'
              /\ Getter(i)' /\ HasRead(i)' =>
                   StaysAhead(i, m + 1)' /\ (ReadLater => StaysBehind(i, m + 1)')
  <2>1. /\ i + 1 \in Queue /\ Call(i)' = Call(i + 1) /\ Base(i)' = Base(i + 1)
        /\ (Setter(i)' <=> Setter(i + 1)) /\ (Getter(i)' <=> Getter(i + 1))
        /\ (HasRead(i)' <=> HasRead(i + 1))
    BY <1>5, ShiftedFacts, Zenon
  <2>2. Call(i + 1).at \in Nat /\ Call(i + 1).login \in Nat /\ 1 < i + 1 /\ ~(m + 1 < i)
    BY <2>1, CallTypes
  <2>3. Setter(i + 1) => InOrder(1, i + 1)
    BY <1>2, <2>1, <2>2, Zenon DEF Order, Written
  <2>4. Setter(i)' => InOrder(i, m + 1)'
    BY <1>2, <1>7, <2>1, <2>2, <2>3 DEF InOrder
  <2>5. Getter(i + 1) /\ HasRead(i + 1) =>
          StaysAhead(i + 1, 1) /\ (ReadLater => StaysBehind(i + 1, 1))
    BY <1>2, <2>1, Zenon DEF Order, ReadEarlier, ReadLater
  <2>6. Getter(i)' /\ HasRead(i)' =>
          StaysAhead(i, m + 1)' /\ (ReadLater => StaysBehind(i, m + 1)')
    BY <1>2, <1>7, <2>1, <2>2, <2>5 DEF StaysAhead, StaysBehind
  <2> QED
    BY <2>4, <2>6, Zenon
<1> QED
  BY <1>1, <1>5, <1>6, <1>7, <1>8, <1>9, <1>10, WrittenFrom, ReadFrom, LaterFrom, Zenon DEF Order

\* AsyncStorage answers the n-th call: nobody moves.
LEMMA NobodyMoves ==
    ASSUME Order, NEW n \in Queue, Queue' = Queue,
           \A i \in Queue : i # n => Keeps(i, i), Call(n)' = Call(n), Alive(n)
    PROVE  /\ \A i \in Queue : /\ Call(i)' = Call(i) /\ (Setter(i)' => Setter(i))
                               /\ i # n => \A f : Past(i, f)' <=> Past(i, f)
           /\ \A i, j \in Queue : Setter(i)' /\ Setter(j)' /\ i < j => InOrder(i, j)'
           /\ \A i \in Queue : i # n /\ Getter(i)' /\ HasRead(i)' =>
                /\ Getter(i) /\ HasRead(i) /\ Reads(i)' = Reads(i) /\ Base(i)' = Base(i)
                /\ \A j \in Queue : Setter(j)' => StaysAhead(i, j)'
                /\ ReadLater =>
                     /\ \A m \in DOMAIN Reads(i)' : Reads(i)'[m].login = Base(i)'
                     /\ \A j \in Queue : Setter(j)' => StaysBehind(i, j)'
<1>1. ASSUME NEW i \in Queue
      PROVE  /\ Call(i)' = Call(i) /\ (Setter(i)' => Setter(i))
             /\ i # n => \A f : Past(i, f)' <=> Past(i, f)
  <2>1. CASE i = n
    BY <2>1, Zenon DEF Setter
  <2>2. CASE i # n
    BY <2>2, KeepsFacts, Zenon
  <2> QED
    BY <2>1, <2>2, Zenon
<1>2. ASSUME NEW i \in Queue, NEW j \in Queue, Setter(i)', Setter(j)', i < j
      PROVE  InOrder(i, j)'
  <2>1. InOrder(i, j)
    BY <1>1, <1>2, Zenon DEF Order, Written
  <2> QED
    BY <1>1, <2>1, Zenon DEF InOrder
<1>3. ASSUME NEW i \in Queue, i # n, Getter(i)', HasRead(i)'
      PROVE  /\ Getter(i) /\ HasRead(i) /\ Reads(i)' = Reads(i) /\ Base(i)' = Base(i)
             /\ \A j \in Queue : Setter(j)' => StaysAhead(i, j)'
             /\ ReadLater =>
                  /\ \A m \in DOMAIN Reads(i)' : Reads(i)'[m].login = Base(i)'
                  /\ \A j \in Queue : Setter(j)' => StaysBehind(i, j)'
  <2>1. Getter(i) /\ HasRead(i) /\ Reads(i)' = Reads(i) /\ Base(i)' = Base(i)
    BY <1>3, KeepsFacts, Zenon
  <2>2. ASSUME NEW j \in Queue, Setter(j)'
        PROVE  StaysAhead(i, j)' /\ (ReadLater => StaysBehind(i, j)')
    <3>1. StaysAhead(i, j) /\ (ReadLater => StaysBehind(i, j))
      BY <1>1, <2>1, <2>2, Zenon DEF Order, ReadEarlier, ReadLater
    <3>2. Call(i)' = Call(i) /\ Call(j)' = Call(j)
      BY <1>1, Zenon
    <3> QED
      BY <2>1, <3>1, <3>2, Zenon DEF StaysAhead, StaysBehind
  <2>3. ReadLater => \A m \in DOMAIN Reads(i)' : Reads(i)'[m].login = Base(i)'
    BY <2>1, Zenon DEF ReadLater
  <2> QED
    BY <2>1, <2>2, <2>3, Zenon
<1> QED
  BY <1>1, <1>2, <1>3, Zenon

\* The calls, the answers and what is stored after AsyncStorage has answered.
LEMMA AnsweredCalls ==
    ASSUME TypeOK, CallsOK, requests # <<>>, NEW ok \in BOOLEAN, NEW x \in Item, Whole(x),
           Answer(Reply(Head(requests), ok, x)),
           \A f \in Field : Whole(store'[f]) /\ store'[f].login <= Len(validated)
    PROVE  CallsOK'
<1>1. validated' = validated
  BY Zenon DEF Answer
<1>2. PICK n \in Queue :
        /\ Queue' = Queue /\ Call(n)' = Call(n)
        /\ \A i \in Queue : i # n => Keeps(i, i)
        /\ \A i \in DOMAIN replies' :
             \/ i \in DOMAIN replies /\ replies'[i] = replies[i]
             \/ replies'[i].text = x /\ replies'[i].ok = ok
  BY QueueAnswered
<1>3. \A i \in Queue : Call(i)' = Call(i)
  BY <1>2, Zenon DEF Keeps
<1>4. \A i \in Queue' : CallOK(Call(i))'
  BY <1>1, <1>2, <1>3 DEF CallsOK, CallOK, Whole
<1>5. \A i \in DOMAIN replies' : Whole(replies'[i].text)
  BY <1>2, Zenon DEF CallsOK
<1>6. \A f \in Field : Whole(store[f])' /\ store'[f].login <= Len(validated')
  BY <1>1, Zenon DEF Whole
<1> QED
  BY <1>1, <1>4, <1>5, <1>6, Zenon DEF CallsOK, Whole

LEMMA OrderFails ==
    ASSUME TypeOK, Order, requests # <<>>, store' = store,
           Answer(Reply(Head(requests), FALSE, store[Head(requests).at]))
    PROVE  Order' /\ (ReadLater => ReadLater')
<1> DEFINE x == store[Head(requests).at]
<1>1. Head(requests).at \in Field
  BY Heads, Zenon DEF Request
<1>2. x \in Item /\ Whole(x)
  BY <1>1, CallTypes, Zenon DEF Order, CallsOK
<1>3. CallsOK'
  <2>1. \A f \in Field : Whole(store'[f]) /\ store'[f].login <= Len(validated)
    BY Zenon DEF Order, CallsOK
  <2> QED
    BY <1>2, <2>1, AnsweredCalls, Zenon DEF Order
<1>4. PICK n \in Queue :
        /\ Queue' = Queue /\ Call(n)' = Call(n) /\ Alive(n) /\ ~Alive(n)'
        /\ \A i \in Queue : i # n => Keeps(i, i)
  <2>1. PICK ok \in BOOLEAN : ok = FALSE
    BY Zenon
  <2>2. PICK y \in Item : y = x
    BY <1>2, Zenon
  <2>3. Answer(Reply(Head(requests), ok, y))
    BY <2>1, <2>2, ZenonT(30)
  <2>4. \E n \in Queue :
          /\ Queue' = Queue /\ Call(n)' = Call(n) /\ Alive(n) /\ (Alive(n)' <=> ok)
          /\ \A i \in Queue : i # n => Keeps(i, i)
    BY <2>3, QueueAnswered
  <2> QED
    BY <2>1, <2>4, Zenon
<1>5. \A i \in Queue : Setter(i)' \/ Getter(i)' => i # n
  BY <1>4, Zenon DEF Setter, Getter
<1>6. ASSUME NEW i \in Queue, Setter(i)' PROVE SetOK(i)'
  <2>1. SetOK(i) /\ Call(i)' = Call(i) /\ \A f : Past(i, f)' <=> Past(i, f)
    BY <1>4, <1>5, <1>6, NobodyMoves, Zenon DEF Order, Written
  <2> QED
    BY <2>1, Zenon DEF SetOK
<1>7. ASSUME NEW i \in Queue, Getter(i)', HasRead(i)' PROVE GetOK(i)'
  <2>1. /\ GetOK(i) /\ Reads(i)' = Reads(i) /\ Base(i)' = Base(i)
        /\ \A f : Past(i, f)' <=> Past(i, f)
    BY <1>4, <1>5, <1>7, NobodyMoves, Zenon DEF Order, ReadEarlier
  <2>2. validated' = validated
    BY Zenon DEF Answer
  <2> QED
    BY <2>1, <2>2, Zenon DEF GetOK
<1>8. Written'
  <2>1. \A i, j \in Queue : Setter(i)' /\ Setter(j)' /\ i < j => InOrder(i, j)'
    BY <1>4, NobodyMoves, Zenon
  <2>2. (\A f, g \in Field : f < g => store[g].login <= store[f].login)'
    BY Zenon DEF Order, Written
  <2> QED
    BY <1>4, <1>6, <2>1, <2>2, Zenon DEF Written
<1>9. ReadEarlier'
  BY <1>4, <1>5, <1>7, NobodyMoves, Zenon DEF ReadEarlier
<1>10. ReadLater => ReadLater'
  BY <1>4, <1>5, NobodyMoves, Zenon DEF ReadLater
<1> QED
  BY <1>3, <1>8, <1>9, <1>10, Zenon DEF Order

LEMMA Performed ==
    ASSUME TypeOK, requests # <<>>, NEW x \in Item, Answer(Reply(Head(requests), TRUE, x))
    PROVE  \E n \in Queue :
             /\ Queue' = Queue /\ Call(n) = Head(requests) /\ Call(n)' = Call(n)
             /\ Alive(n) /\ Alive(n)' /\ ~Answered(n) /\ Answered(n)'
             /\ Reads(n) = Call(n).got /\ Reads(n)' = Append(Call(n).got, x)
             /\ \A i \in Queue : i # n => Keeps(i, i)
             /\ \A i \in Queue : i < n <=> Answered(i)
<1>1. PICK ok \in BOOLEAN : ok = TRUE
  BY Zenon
<1>2. Answer(Reply(Head(requests), ok, x))
  BY <1>1, Zenon
<1>3. \E n \in Queue :
        /\ Queue' = Queue /\ Call(n) = Head(requests) /\ Call(n)' = Call(n)
        /\ Alive(n) /\ (Alive(n)' <=> ok) /\ ~Answered(n) /\ Answered(n)'
        /\ Reads(n) = Call(n).got /\ Reads(n)' = Append(Call(n).got, x)
        /\ \A i \in Queue : i # n => Keeps(i, i)
        /\ \A i \in Queue : i < n <=> Answered(i)
  BY <1>2, QueueAnswered, Zenon
<1> QED
  BY <1>1, <1>3, Zenon

\* AsyncStorage reads an item for getData.
LEMMA OrderGet ==
    ASSUME TypeOK, Order, NativeGet
    PROVE  Order' /\ (ReadLater /\ Saved => ReadLater')
<1> DEFINE x == store[Head(requests).at]
<1>1. /\ requests # <<>> /\ Head(requests).op = "get"
      /\ Answer(Reply(Head(requests), TRUE, x)) /\ store' = store
  BY Zenon DEF NativeGet
<1>2. validated' = validated
  BY <1>1, Zenon DEF Answer
<1>3. x \in Item /\ Whole(x)
  <2>1. Head(requests).at \in Field
    BY <1>1, Heads, Zenon DEF Request
  <2> QED
    BY <2>1, CallTypes, Zenon DEF Order, CallsOK
<1>4. CallsOK'
  <2>1. \A f \in Field : Whole(store'[f]) /\ store'[f].login <= Len(validated)
    BY <1>1, Zenon DEF Order, CallsOK
  <2> QED
    BY <1>1, <1>3, <2>1, AnsweredCalls, Zenon DEF Order
<1>5. PICK n \in Queue :
        /\ Queue' = Queue /\ Call(n) = Head(requests) /\ Call(n)' = Call(n)
        /\ Alive(n) /\ Alive(n)' /\ ~Answered(n) /\ Answered(n)'
        /\ Reads(n) = Call(n).got /\ Reads(n)' = Append(Call(n).got, x)
        /\ \A i \in Queue : i # n => Keeps(i, i)
        /\ \A i \in Queue : i < n <=> Answered(i)
  BY <1>1, <1>3, Performed, Zenon
<1>6. PICK a \in Field : a = Call(n).at
  BY CallTypes, Zenon
<1>7. /\ a \in Nat /\ a >= 1 /\ x = store[a] /\ Getter(n) /\ ~Setter(n)'
      /\ Call(n).got \in Seq(Item) /\ Len(Call(n).got) = a - 1
      /\ \A f : (Past(n, f) <=> f < a) /\ (Past(n, f)' <=> f <= a)
      /\ \A j \in Queue : Setter(j)' => j # n /\ Setter(j)
  <2>1. a \in Nat /\ a >= 1
    BY DEF Field
  <2>2. x = store[a] /\ Call(n).op = "get"
    BY <1>1, <1>5, <1>6, Zenon
  <2>3. Getter(n) /\ ~Setter(n)'
    BY <1>5, <2>2, Zenon DEF Getter, Setter
  <2>4. Call(n).got \in Seq(Item) /\ Len(Call(n).got) = a - 1
    BY <1>6, <2>2, CallTypes, Zenon DEF Order, CallsOK, CallOK
  <2>5. \A f : (Past(n, f) <=> f < a) /\ (Past(n, f)' <=> f <= a)
    BY <1>5, <1>6, Zenon DEF Past
  <2>6. \A j \in Queue : Setter(j)' => j # n /\ Setter(j)
    BY <1>5, <2>3, NobodyMoves, Zenon
  <2> QED
    BY <2>1, <2>2, <2>3, <2>4, <2>5, <2>6, Zenon
<1> HIDE DEF x
<1>8. /\ Reads(n)' \in Seq(Item) /\ DOMAIN Reads(n)' = 1 .. a
      /\ Reads(n)'[a] = x /\ x.login \in Nat
      /\ \A m \in 1 .. a : m = a \/ (m \in DOMAIN Reads(n) /\ Reads(n)'[m] = Reads(n)[m])
  <2>1. /\ Reads(n)' \in Seq(Item) /\ DOMAIN Reads(n)' = 1 .. (a - 1) + 1
        /\ Reads(n)'[(a - 1) + 1] = x
        /\ \A m \in DOMAIN Call(n).got : Reads(n)'[m] = Call(n).got[m]
        /\ \A m \in DOMAIN Reads(n)' : m = (a - 1) + 1 \/ m \in DOMAIN Call(n).got
    <3>1. PICK q : q = Call(n).got
      BY Zenon
    <3>2. q \in Seq(Item) /\ Len(q) = a - 1 /\ Reads(n)' = Append(q, x)
      BY <1>5, <1>7, <3>1, Zenon
    <3>3. /\ Append(q, x) \in Seq(Item) /\ DOMAIN Append(q, x) = 1 .. Len(q) + 1
          /\ Append(q, x)[Len(q) + 1] = x
          /\ \A m \in DOMAIN q : Append(q, x)[m] = q[m]
          /\ \A m \in DOMAIN Append(q, x) : m = Len(q) + 1 \/ m \in DOMAIN q
      BY <1>3, <3>2, Appended
    <3> QED
      BY <3>1, <3>2, <3>3, Zenon
  <2>2. (a - 1) + 1 = a
    BY <1>7
  <2>3. x.login \in Nat
    BY <1>3, CallTypes, Zenon
  <2> QED
    BY <1>5, <2>1, <2>2, <2>3, Zenon
<1>9. ASSUME a = 1
      PROVE  /\ GetOK(n)' /\ \A j \in Queue : Setter(j)' => StaysAhead(n, j)'
             /\ ReadLater /\ Saved =>
                  /\ \A m \in DOMAIN Reads(n)' : Reads(n)'[m].login = Base(n)'
                  /\ \A j \in Queue : Setter(j)' => StaysBehind(n, j)'
  <2>1. Base(n)' = store[1].login /\ store[1].login \in Nat /\ 1 \in Field
    BY <1>7, <1>8, <1>9, Constants, Zenon DEF Base
  <2>2. \A m \in DOMAIN Reads(n)' : Reads(n)'[m].login = Base(n)'
    BY <1>7, <1>8, <1>9, <2>1
  <2>3. GetOK(n)'
    <3>1. store[1].login <= Len(validated)
      BY <2>1, Zenon DEF Order, CallsOK
    <3>2. \A f \in Field : store[f].login <= store[1].login
      <4> TAKE f \in Field
      <4>1. f = 1 \/ 1 < f
        BY DEF Field
      <4> QED
        BY <2>1, <4>1 DEF Order, Written
    <3> QED
      BY <1>1, <1>2, <2>1, <2>2, <3>1, <3>2, Zenon DEF GetOK
  <2>4. ASSUME NEW j \in Queue, Setter(j)'
        PROVE  StaysAhead(n, j)' /\ StaysBehind(n, j)'
    <3>1. /\ j # n /\ Setter(j) /\ Call(j)' = Call(j) /\ Call(j).at \in Nat
          /\ Call(j).login \in Nat /\ (j < n <=> Answered(j)) /\ Call(j).at >= 1
      BY <1>5, <1>7, <2>4, NobodyMoves, CallTypes, SMTT(30) DEF Field
    <3>2. Past(j, 1) <=> Call(j).login <= store[1].login
      BY <2>1, <3>1, Zenon DEF Order, Written, SetOK
    <3>3. Past(j, 1) <=> Answered(j) \/ 1 < Call(j).at
      BY <3>1, Zenon DEF Past
    <3>4. Call(n)'.at = 1
      BY <1>5, <1>6, <1>9, Zenon
    <3> QED
      BY <2>1, <3>1, <3>2, <3>3, <3>4, SMTT(30) DEF StaysAhead, StaysBehind
  <2> QED
    BY <2>2, <2>3, <2>4, Zenon
<1>10. ASSUME a # 1
       PROVE  /\ GetOK(n)' /\ \A j \in Queue : Setter(j)' => StaysAhead(n, j)'
              /\ ReadLater /\ Saved =>
                    /\ \A m \in DOMAIN Reads(n)' : Reads(n)'[m].login = Base(n)'
                    /\ \A j \in Queue : Setter(j)' => StaysBehind(n, j)'
  <2>1. /\ HasRead(n) /\ Base(n) \in Nat /\ 1 \in DOMAIN Reads(n)
        /\ \A m \in DOMAIN Reads(n) : Reads(n)[m].login \in Nat
    <3>1. Call(n).op = "get" /\ HasRead(n)
      BY <1>6, <1>7, <1>10 DEF HasRead, Getter
    <3> QED
      BY <3>1, ReadsTypes, Zenon DEF Order
  <2>2. Base(n)' = Base(n)
    BY <1>7, <1>8, <1>10, <2>1, SMTT(30) DEF Base
  <2>3. /\ GetOK(n) /\ \A j \in Queue : Setter(j) => StaysAhead(n, j)
        /\ ReadLater =>
             /\ \A m \in DOMAIN Reads(n) : Reads(n)[m].login = Base(n)
             /\ \A j \in Queue : Setter(j) => StaysBehind(n, j)
    BY <1>7, <2>1, Zenon DEF Order, ReadEarlier, ReadLater
  <2>4. store[a].login <= Base(n) /\ store[a].login \in Nat
    BY <1>7, <2>3, CallTypes, SMTT(30) DEF GetOK
  <2>5. GetOK(n)'
    <3>1. \A m \in DOMAIN Reads(n)' : Reads(n)'[m].login <= Base(n)
      BY <1>7, <1>8, <2>3, <2>4, Zenon DEF GetOK
    <3>2. \A f \in Field : Past(n, f) => Past(n, f)'
      BY <1>7 DEF Field
    <3> QED
      BY <1>1, <1>2, <2>2, <2>3, <3>1, <3>2, Zenon DEF GetOK
  <2>6. ASSUME NEW j \in Queue, Setter(j)'
        PROVE  StaysAhead(n, j)' /\ (ReadLater => StaysBehind(n, j)')
    <3>1. StaysAhead(n, j) /\ (ReadLater => StaysBehind(n, j)) /\ Call(j)' = Call(j)
      BY <1>5, <1>7, <2>3, <2>6, NobodyMoves, Zenon
    <3> QED
      BY <1>5, <2>2, <3>1, Zenon DEF StaysAhead, StaysBehind
  <2>7. ASSUME ReadLater, Saved PROVE Base(n) <= store[a].login
    <3>1. CASE Base(n) = 0
      BY <2>4, <3>1
    <3>2. CASE Base(n) # 0
      <4>1. Base(n) \in 1 .. Len(validated)
        BY <2>1, <2>3, <3>2, CallTypes DEF GetOK
      <4>2. ASSUME NEW j \in Queue, Setter(j), Call(j).login = Base(n)
            PROVE  Base(n) <= store[a].login
        <5>1. StaysBehind(n, j) /\ SetOK(j) /\ j # n /\ (j < n <=> Answered(j))
          BY <1>5, <1>7, <2>3, <2>7, <4>2, Zenon DEF Order, Written, Getter, Setter
        <5>2. IF j < n THEN a <= Call(j).at ELSE a < Call(j).at
          BY <1>6, <2>1, <4>2, <5>1 DEF StaysBehind
        <5>3. Past(j, a)
          BY <5>1, <5>2, Zenon DEF Past
        <5> QED
          BY <4>2, <5>1, <5>3, Zenon DEF SetOK
      <4> QED
        BY <2>7, <4>1, <4>2, Zenon DEF Saved
    <3> QED
      BY <3>1, <3>2, Zenon
  <2>8. ASSUME ReadLater, Saved
        PROVE  \A m \in DOMAIN Reads(n)' : Reads(n)'[m].login = Base(n)'
    <3>1. x.login = Base(n)
      BY <1>7, <2>1, <2>4, <2>7, <2>8
    <3> QED
      BY <1>8, <2>2, <2>3, <2>8, <3>1, Zenon
  <2> QED
    BY <2>5, <2>6, <2>8, Zenon
<1>11. ASSUME NEW i \in Queue, i # n, Getter(i)', HasRead(i)' PROVE GetOK(i)'
  <2>1. /\ GetOK(i) /\ Reads(i)' = Reads(i) /\ Base(i)' = Base(i)
        /\ \A f : Past(i, f)' <=> Past(i, f)
    BY <1>5, <1>11, NobodyMoves, Zenon DEF Order, ReadEarlier
  <2> QED
    BY <1>1, <1>2, <2>1, Zenon DEF GetOK
<1>12. Written'
  <2>1. ASSUME NEW i \in Queue, Setter(i)' PROVE SetOK(i)'
    <3>1. SetOK(i) /\ Call(i)' = Call(i) /\ \A f : Past(i, f)' <=> Past(i, f)
      BY <1>5, <1>7, <2>1, NobodyMoves, Zenon DEF Order, Written
    <3> QED
      BY <1>1, <3>1, ZenonT(30) DEF SetOK
  <2>2. \A i, j \in Queue : Setter(i)' /\ Setter(j)' /\ i < j => InOrder(i, j)'
    BY <1>5, NobodyMoves, Zenon
  <2>3. (\A f, g \in Field : f < g => store[g].login <= store[f].login)'
    BY <1>1, Zenon DEF Order, Written
  <2> QED
    BY <1>5, <2>1, <2>2, <2>3, ZenonT(30) DEF Written
<1>13. \A i \in Queue : i # n /\ Getter(i)' /\ HasRead(i)' =>
         /\ GetOK(i)' /\ \A j \in Queue : Setter(j)' => StaysAhead(i, j)'
         /\ ReadLater =>
              /\ \A m \in DOMAIN Reads(i)' : Reads(i)'[m].login = Base(i)'
              /\ \A j \in Queue : Setter(j)' => StaysBehind(i, j)'
  BY <1>5, <1>11, NobodyMoves, Zenon
<1>14. ReadEarlier'
  BY <1>5, <1>9, <1>10, <1>13, Zenon DEF ReadEarlier
<1>15. ReadLater /\ Saved => ReadLater'
  BY <1>5, <1>9, <1>10, <1>13, Zenon DEF ReadLater
<1> QED
  BY <1>4, <1>12, <1>14, <1>15, Zenon DEF Order

\* AsyncStorage writes an item for setData, over one of an earlier login.
LEMMA OrderSet ==
    ASSUME TypeOK, Order, NativeSet
    PROVE  /\ Order' /\ (ReadLater => ReadLater')
           /\ \A f \in Field : store[f].login <= store'[f].login
<1> DEFINE r == Head(requests)
           x == store[r.at]
<1>1. /\ requests # <<>> /\ r.op = "set" /\ r.text # Null
      /\ Answer(Reply(r, TRUE, x))
      /\ store' = [store EXCEPT ![r.at] = [text |-> r.text, login |-> r.login]]
  BY Zenon DEF NativeSet
<1>2. validated' = validated
  BY <1>1, Zenon DEF Answer
<1>3. x \in Item /\ Whole(x)
  <2>1. r.at \in Field
    BY <1>1, Heads, Zenon DEF Request
  <2> QED
    BY <2>1, CallTypes, Zenon DEF Order, CallsOK
<1>4. PICK n \in Queue :
        /\ Queue' = Queue /\ Call(n) = r /\ Call(n)' = Call(n)
        /\ Alive(n) /\ Alive(n)' /\ ~Answered(n) /\ Answered(n)'
        /\ \A i \in Queue : i # n => Keeps(i, i)
        /\ \A i \in Queue : i < n <=> Answered(i)
  BY <1>1, <1>3, Performed, Zenon
<1>5. PICK a \in Field, k \in Nat : a = Call(n).at /\ k = Call(n).login
  BY CallTypes, Zenon
<1>6. /\ a \in Nat /\ k >= 1 /\ k <= Len(validated) /\ Setter(n) /\ SetOK(n)
      /\ ~Getter(n)' /\ \A f : (Past(n, f) <=> f < a) /\ (Past(n, f)' <=> f <= a)
  <2>1. Setter(n) /\ ~Getter(n)'
    BY <1>1, <1>4, Zenon DEF Setter, Getter
  <2>2. k >= 1 /\ k <= Len(validated)
    BY <1>1, <1>4, <1>5 DEF Order, CallsOK, CallOK
  <2>3. \A f : (Past(n, f) <=> f < a) /\ (Past(n, f)' <=> f <= a)
    BY <1>4, <1>5, Zenon DEF Past
  <2>4. SetOK(n)
    BY <2>1, Zenon DEF Order, Written
  <2> QED
    BY <2>1, <2>2, <2>3, <2>4, SMTT(30) DEF Field
<1>7. /\ store'[a].text = r.text /\ store'[a].login = k
      /\ \A f \in Field : f # a => store'[f] = store[f]
  BY <1>1, <1>4, <1>5, Zenon DEF TypeOK
<1>8. \A f \in Field : store[f].login \in Nat /\ f \in Nat
  BY CallTypes DEF Field
<1>9. \A f \in Field : (f < a <=> k <= store[f].login)
  BY <1>5, <1>6, Zenon DEF SetOK
<1>10. \A f \in Field : store[f].login <= store'[f].login
  BY <1>7, <1>8, <1>9
<1>11. CallsOK'
  <2>1. \A f \in Field : Whole(store'[f]) /\ store'[f].login <= Len(validated)
    <3>1. Whole(store'[a])
      BY <1>1, <1>6, <1>7, SMTT(30) DEF Whole
    <3>2. \A f \in Field : f = a \/ (Whole(store'[f]) /\ store'[f].login <= Len(validated))
      BY <1>7, Zenon DEF Order, CallsOK
    <3> QED
      BY <1>6, <1>7, <3>1, <3>2, Zenon
  <2> QED
    BY <1>1, <1>3, <2>1, AnsweredCalls, Zenon DEF Order
<1> HIDE DEF r, x
<1>12. ASSUME NEW f \in Field, NEW g \in Field, f < g
       PROVE  store'[g].login <= store'[f].login
  <2>1. store[g].login <= store[f].login
    BY <1>12, Zenon DEF Order, Written
  <2> QED
    BY <1>5, <1>7, <1>8, <1>9, <1>12, <2>1
<1>13. ASSUME NEW i \in Queue, Setter(i)' PROVE SetOK(i)'
  <2>1. CASE i = n
    <3>1. ASSUME NEW f \in Field PROVE f <= a <=> k <= store'[f].login
      BY <1>5, <1>7, <1>8, <1>9, SMTT(30)
    <3> QED
      BY <1>4, <1>5, <1>6, <2>1, <3>1, Zenon DEF SetOK
  <2>2. CASE i # n
    <3>1. /\ Setter(i) /\ Call(i)' = Call(i) /\ \A f : Past(i, f)' <=> Past(i, f)
          /\ Call(i).at \in Nat /\ Call(i).login \in Nat /\ (i < n <=> Answered(i))
          /\ i \in Nat /\ n \in Nat
      BY <1>4, <1>13, <2>2, NobodyMoves, CallTypes, QueueTypes DEF Queue
    <3>2. SetOK(i)
      BY <3>1, Zenon DEF Order, Written
    <3>3. (i < n => InOrder(i, n)) /\ (n < i => InOrder(n, i))
      BY <1>6, <3>1, Zenon DEF Order, Written
    <3>4. Past(i, a) <=> Call(i).login <= k
      <4>1. CASE i < n
        BY <1>5, <1>6, <3>1, <3>3, <4>1 DEF InOrder, Past
      <4>2. CASE n < i
        BY <1>5, <1>6, <3>1, <3>3, <4>2, SMTT(30) DEF InOrder, Past
      <4> QED
        BY <2>2, <3>1, <4>1, <4>2
    <3> QED
      BY <1>7, <3>1, <3>2, <3>4, Zenon DEF SetOK
  <2> QED
    BY <2>1, <2>2, Zenon
<1>14. ASSUME NEW i \in Queue, Getter(i)', HasRead(i)' PROVE GetOK(i)'
  <2>1. /\ i # n /\ Getter(i) /\ HasRead(i) /\ Reads(i)' = Reads(i) /\ Base(i)' = Base(i)
        /\ \A f : Past(i, f)' <=> Past(i, f)
    BY <1>4, <1>6, <1>14, NobodyMoves, Zenon
  <2>2. GetOK(i) /\ StaysAhead(i, n)
    BY <1>6, <2>1, Zenon DEF Order, ReadEarlier
  <2>3. Base(i) \in Nat /\ Call(i).at \in Nat /\ (i < n <=> Answered(i)) /\ i \in Nat /\ n \in Nat
    <3>1. Call(i).op = "get" /\ CallsOK
      BY <2>1, Zenon DEF Getter, Order
    <3>2. Base(i) \in Nat
      BY <2>1, <3>1, ReadsTypes, Zenon
    <3>3. i \in Nat /\ n \in Nat
      BY QueueTypes DEF Queue
    <3> QED
      BY <1>4, <3>2, <3>3, CallTypes, Zenon
  <2>4. Past(i, a) \/ k <= Base(i)
    BY <1>5, <2>1, <2>2, <2>3, SMTT(30) DEF StaysAhead, Past
  <2> QED
    BY <1>2, <1>7, <2>1, <2>2, <2>4, Zenon DEF GetOK
<1>15. Written'
  <2>1. \A i, j \in Queue : Setter(i)' /\ Setter(j)' /\ i < j => InOrder(i, j)'
    BY <1>4, NobodyMoves, Zenon
  <2> QED
    BY <1>4, <1>12, <1>13, <2>1, Zenon DEF Written
<1>16. \A i \in Queue : Getter(i)' => i # n
  BY <1>6, Zenon
<1>17. ReadEarlier'
  BY <1>4, <1>14, <1>16, NobodyMoves, Zenon DEF ReadEarlier
<1>18. ReadLater => ReadLater'
  BY <1>4, <1>16, NobodyMoves, Zenon DEF ReadLater
<1> QED
  BY <1>10, <1>11, <1>15, <1>17, <1>18, Zenon DEF Order

LEMMA OrderStep ==
    TypeOK /\ Order /\ [Next]_vars => Order' /\ (ReadLater /\ Saved => ReadLater')
<1> SUFFICES ASSUME TypeOK, Order, [Next]_vars
             PROVE  Order' /\ (ReadLater /\ Saved => ReadLater')
  BY Zenon
<1>1. CASE User
  <2>1. ASSUME NEW h \in Visit, LoginAccepted(h)
        PROVE  Order' /\ (ReadLater => ReadLater')
    BY <2>1, OrderLogin, Zenon
  <2>2. ASSUME NEW h \in Visit, LoginThrows(h)
        PROVE  Order' /\ (ReadLater => ReadLater')
    BY <2>2, OrderEnds, Zenon DEF LoginThrows
  <2>3. ASSUME NEW h \in Visit, NEW f \in Field, NEW v \in Typed[f], Input(h, f, v)
        PROVE  Order' /\ (ReadLater => ReadLater')
    BY <2>3, OrderSame, Zenon DEF Input
  <2>4. ASSUME NEW h \in Visit, LoginRefused(h)
        PROVE  Order' /\ (ReadLater => ReadLater')
    BY <2>4, OrderSame, Zenon DEF LoginRefused
  <2> QED
    BY <1>1, <2>1, <2>2, <2>3, <2>4, Zenon DEF User
<1>2. CASE Native
  <2>1. CASE NativeGet
    BY <2>1, OrderGet, Zenon
  <2>2. CASE NativeSet
    BY <2>2, OrderSet, Zenon
  <2>3. CASE NativeSetNull
    BY <2>3, OrderFails, Zenon DEF NativeSetNull
  <2>4. CASE NativeFails
    BY <2>4, OrderFails, Zenon DEF NativeFails
  <2> QED
    BY <1>2, <2>1, <2>2, <2>3, <2>4, Zenon DEF Native
<1>3. CASE GetDataResumes
  <2>1. CASE Head(replies).request.at < Age
    BY <1>3, <2>1, OrderGetNext, Zenon
  <2>2. CASE ~(Head(replies).request.at < Age)
    BY <1>3, <2>2, OrderLeaves, Zenon DEF GetDataResumes
  <2> QED
    BY <2>1, <2>2, Zenon
<1>4. CASE SetDataResumes
  <2>1. CASE Head(replies).request.at < Age
    BY <1>4, <2>1, OrderSetNext, Zenon
  <2>2. CASE ~(Head(replies).request.at < Age)
    BY <1>4, <2>2, OrderLeaves, Zenon DEF SetDataResumes
  <2> QED
    BY <2>1, <2>2, Zenon
<1>5. CASE StorageRejects
  BY <1>5, OrderLeaves, Zenon DEF StorageRejects
<1>6. CASE Construct
  BY <1>6, OrderConstruct, Zenon
<1>7. CASE Kill
  BY <1>7, OrderEnds, Zenon DEF Kill
<1>8. ASSUME NEW h \in Visit, TransitionEnd(h)
      PROVE  Order' /\ (ReadLater => ReadLater')
  BY <1>8, OrderSame, Zenon DEF TransitionEnd
<1>9. CASE UNCHANGED vars
  BY <1>9, OrderSame, Zenon DEF vars
<1> QED
  BY <1>1, <1>2, <1>3, <1>4, <1>5, <1>6, <1>7, <1>8, <1>9, Zenon DEF Next, Resume
=============================================================================
