------------------------- MODULE HomeScreen_proofs --------------------------
(***************************************************************************)
(* Proofs about the login form and the stored profile, last part: what     *)
(* getData fills in, what is stored in the end, and the theorems.          *)
(***************************************************************************)
EXTENDS HomeOrder_proofs

-----------------------------------------------------------------------------
(* What getData fills in. *)

LEMMA FilledForm ==
    ASSUME TypeOK, Order, GetDataResumes, NEW h \in Visit
    PROVE  \/ form'[h] = form[h]
           \/ /\ form'[h][1] # Null
              /\ ReadLater => \A f \in Field : form'[h][f] # Null
<1> DEFINE r == Head(replies).request
           got == Append(r.got, Head(replies).text)
<1>1. /\ replies # <<>> /\ r.op = "get" /\ Head(replies).ok
      /\ r.at < Age => form' = form
      /\ \/ form' = form
         \/ AnyStored(got) /\ form' = [form EXCEPT ![r.visit] = [f \in Field |-> got[f].text]]
  BY Zenon DEF GetDataResumes
<1>2. /\ 1 \in Queue /\ Call(1) = r /\ r.at \in 1 .. 4 /\ Getter(1) /\ HasRead(1)
      /\ Reads(1) = got /\ \A f : Past(1, f) <=> f <= r.at
  BY <1>1, ResumedCall, Zenon DEF Order
<1>3. CASE form' = form
  BY <1>3, Zenon
<1>4. CASE form' # form
  <2>1. r.at = 4 /\ AnyStored(got) /\ form' = [form EXCEPT ![r.visit] = [f \in Field |-> got[f].text]]
    <3>1. ~(r.at < Age)
      BY <1>1, <1>4, Zenon
    <3>2. r.at = 4
      BY <1>2, <3>1 DEF Age
    <3>3. AnyStored(got) /\ form' = [form EXCEPT ![r.visit] = [f \in Field |-> got[f].text]]
      BY <1>1, <1>4, Zenon
    <3> QED
      BY <3>2, <3>3, Zenon
  <2>2. /\ \A n \in Nat : n \in DOMAIN got <=> n > 0 /\ n <= 4
        /\ \A n \in DOMAIN got : Whole(got[n]) /\ got[n].login \in Nat
    <3>1. r.op = "get"
      BY <1>1, Zenon
    <3> QED
      BY <1>2, <2>1, <3>1, ReadsTypes, Zenon DEF Order
  <2>3. \A f \in Field : f \in DOMAIN got
    BY <2>2 DEF Field
  <2>4. \A f \in Field : /\ got[f].login \in Nat
                         /\ got[f].text = Null <=> got[f].login = 0
    BY <2>2, <2>3, Zenon DEF Whole
  <2>5. GetOK(1) /\ Base(1) = got[1].login
    BY <1>2, Zenon DEF Order, ReadEarlier, Base
  <2>6. \A f \in Field : got[f].login <= got[1].login
    BY <1>2, <2>3, <2>5, Zenon DEF GetOK
  <2>7. got[1].text # Null
    <3>1. PICK f \in Field : got[f].text # Null
      BY <2>1, Zenon DEF AnyStored
    <3> HIDE DEF got
    <3>2. got[f].login # 0 /\ got[f].login \in Nat /\ got[1].login \in Nat
      BY <2>4, <3>1, Constants, Zenon
    <3>3. got[1].login # 0
      BY <2>6, <3>2
    <3> QED
      BY <2>4, <3>3, Constants, Zenon
  <2>8. ASSUME ReadLater PROVE \A f \in Field : got[f].text # Null
    <3>1. \A f \in Field : got[f].login = got[1].login
      BY <1>2, <2>3, <2>5, <2>8, Zenon DEF ReadLater
    <3> QED
      BY <2>4, <2>7, <3>1, Constants, Zenon
  <2> HIDE DEF got
  <2>9. form'[h] = form[h] \/ form'[h] = [f \in Field |-> got[f].text]
    BY <2>1, Zenon DEF TypeOK
  <2> QED
    BY <2>7, <2>8, <2>9, Constants, Zenon
<1> QED
  BY <1>3, <1>4, Zenon

LEMMA FirstNameStep ==
    TypeOK /\ Order /\ FirstNameNeverNull /\ [Next]_vars => FirstNameNeverNull'
<1> SUFFICES ASSUME TypeOK, Order, FirstNameNeverNull, [Next]_vars, NEW h \in Visit
             PROVE  form'[h][1] # Null
  BY Zenon DEF FirstNameNeverNull
<1>1. CASE form' = form
  BY <1>1, Zenon DEF FirstNameNeverNull
<1>2. ASSUME NEW g \in Visit, NEW f \in Field, NEW v \in Typed[f], Input(g, f, v)
      PROVE  form'[h][1] # Null
  <2>1. v # Null
    BY Constants, Zenon
  <2>2. form'[h][1] = form[h][1] \/ form'[h][1] = v
    BY <1>2 DEF Input, TypeOK
  <2> QED
    BY <2>1, <2>2, Zenon DEF FirstNameNeverNull
<1>3. CASE GetDataResumes
  BY <1>3, FilledForm, Zenon DEF FirstNameNeverNull
<1>4. CASE User
  BY <1>1, <1>2, <1>4, Zenon
     DEF User, LoginAccepted, LoginRefused, LoginThrows, ProcessEnds
<1>5. CASE Native
  BY <1>1, <1>5, Zenon DEF Native, NativeGet, NativeSet, NativeSetNull, NativeFails, Answer
<1>6. CASE SetDataResumes \/ StorageRejects
  BY <1>1, <1>6, Zenon DEF SetDataResumes, StorageRejects
<1>7. CASE Construct \/ Kill \/ \E g \in Visit : TransitionEnd(g)
  BY <1>1, <1>7, Zenon DEF Construct, Kill, ProcessEnds, TransitionEnd
<1>8. CASE UNCHANGED vars
  BY <1>1, <1>8, Zenon DEF vars
<1> QED
  BY <1>3, <1>4, <1>5, <1>6, <1>7, <1>8, Zenon DEF Next, Resume

-----------------------------------------------------------------------------
(* While nothing fails, every login is being stored or was stored. *)

\* A call leaves the front of the queue (d = 1) or does not (d = 0), and a call
\* joins the end or does not.
LEMMA SavedFrom ==
    ASSUME TypeOK, Saved, NEW m \in Nat, NEW d \in {0, 1}, Shifted(m, d), Queue = 1 .. m + d,
           Queue' = 1 .. m \/ Queue' = 1 .. m + 1, store' = store,
           \A i \in DOMAIN replies' : replies'[i].ok,
           \A h \in Visit : \A f \in Field : form'[h][f] # Null,
           m + 1 \in Queue' /\ Call(m + 1)'.op = "set" => Call(m + 1)'.text # Null,
           \/ validated' = validated
           \/ /\ Len(validated') = Len(validated) + 1
              /\ m + 1 \in Queue' /\ Setter(m + 1)' /\ Call(m + 1)'.login = Len(validated) + 1,
           d = 1 /\ Setter(1) =>
             \/ \A f \in Field : Call(1).login <= store[f].login
             \/ m + 1 \in Queue' /\ Setter(m + 1)' /\ Call(m + 1)'.login = Call(1).login
    PROVE  Saved'
<1>1. \A i \in 1 .. m : /\ i + d \in Queue /\ i \in Queue' /\ Call(i)' = Call(i + d)
                        /\ (Setter(i)' <=> Setter(i + d))
  BY ShiftedFacts, ZenonT(30)
<1>2. ASSUME NEW i \in Queue' PROVE Call(i)'.op = "set" => Call(i)'.text # Null
  <2>1. i \in 1 .. m \/ i = m + 1
    OBVIOUS
  <2>2. CASE i \in 1 .. m
    BY <1>1, <2>2, SMTT(30) DEF Saved
  <2> QED
    BY <2>1, <2>2, Zenon
<1>3. ASSUME NEW k \in 1 .. Len(validated')
      PROVE  \/ \A f \in Field : k <= store'[f].login
             \/ \E i \in Queue' : Setter(i)' /\ Call(i)'.login = k
  <2>1. k \in 1 .. Len(validated)
        \/ (m + 1 \in Queue' /\ Setter(m + 1)' /\ Call(m + 1)'.login = k)
    BY CallTypes
  <2>2. CASE k \in 1 .. Len(validated)
    <3>1. CASE \A f \in Field : k <= store[f].login
      BY <3>1, Zenon
    <3>2. ASSUME NEW j \in Queue, Setter(j), Call(j).login = k
          PROVE  \/ \A f \in Field : k <= store'[f].login
                 \/ \E i \in Queue' : Setter(i)' /\ Call(i)'.login = k
      <4>1. \/ j - d \in 1 .. m /\ (j - d) + d = j
            \/ d = 1 /\ j = 1
        OBVIOUS
      <4>2. CASE j - d \in 1 .. m /\ (j - d) + d = j
        <5>1. PICK i \in 1 .. m : i + d = j
          BY <4>2, Zenon
        <5> QED
          BY <1>1, <3>2, <5>1, Zenon
      <4>3. CASE d = 1 /\ j = 1
        BY <3>2, <4>3, Zenon
      <4> QED
        BY <4>1, <4>2, <4>3, Zenon
    <3> QED
      BY <2>2, <3>1, <3>2, Zenon DEF Saved
  <2> QED
    BY <2>1, <2>2, Zenon
<1> QED
  BY <1>2, <1>3, Zenon DEF Saved

\* No call is made and none ends.
LEMMA SavedSame ==
    ASSUME TypeOK, Saved, UNCHANGED <<requests, replies, store, validated>>,
           \A h \in Visit : \A f \in Field : form'[h][f] # Null
    PROVE  Saved'
<1>1. PICK m \in Nat : Queue' = 1 .. m /\ Queue = 1 .. m /\ Shifted(m, 0)
  BY QueueSame, Zenon
<1>2. Queue = 1 .. m + 0 /\ ~(m + 1 \in Queue') /\ 0 # 1 /\ 0 \in {0, 1}
  BY <1>1
<1>3. \A i \in DOMAIN replies' : replies'[i].ok
  BY Zenon DEF Saved
<1> QED
  BY <1>1, <1>2, <1>3, SavedFrom, Zenon

LEMMA SavedConstruct ==
    ASSUME TypeOK, Saved, Construct
    PROVE  Saved'
<1> DEFINE r == GetItem(visits + 1, 1, <<>>)
<1>1. visits + 1 \in Visit
  BY Constants DEF Construct, TypeOK, Visit
<1>2. r \in Request
  <2>1. <<>> \in Seq(Item)
    OBVIOUS
  <2> QED
    BY <1>1, <2>1, RequestTypes, Constants, Zenon
<1>3. /\ requests' = Append(requests, r) /\ replies' = replies /\ form' = form
      /\ store' = store /\ validated' = validated /\ r.op = "get"
  BY Zenon DEF Construct, GetItem
<1> HIDE DEF r
<1>4. PICK m \in Nat : /\ Queue = 1 .. m /\ Queue' = 1 .. m + 1
                       /\ Shifted(m, 0) /\ Joins(m + 1, r)
  BY <1>2, <1>3, QueueJoined, Zenon
<1>5. Queue = 1 .. m + 0 /\ Call(m + 1)'.op # "set" /\ 0 # 1 /\ 0 \in {0, 1}
  BY <1>3, <1>4 DEF Joins
<1>6. /\ \A i \in DOMAIN replies' : replies'[i].ok
      /\ \A h \in Visit : \A f \in Field : form'[h][f] # Null
  BY <1>3, Zenon DEF Saved
<1> QED
  BY <1>3, <1>4, <1>5, <1>6, SavedFrom, Zenon

LEMMA SavedLogin ==
    ASSUME TypeOK, Saved, NEW h \in Visit, LoginAccepted(h)
    PROVE  Saved'
<1> DEFINE k == Len(validated) + 1
           r == SetItem(h, 1, k)
<1>1. k \in 0 .. MaxLogins
  BY Constants, CallTypes DEF LoginAccepted
<1>2. r \in Request
  BY <1>1, RequestTypes, Constants, Zenon
<1>3. /\ requests' = Append(requests, r) /\ replies' = replies /\ form' = form
      /\ store' = store /\ Len(validated') = k
  BY DEF LoginAccepted, TypeOK
<1>4. r.op = "set" /\ r.login = k /\ r.text # Null
  BY Constants, Zenon DEF SetItem, Saved
<1> HIDE DEF r
<1>5. PICK m \in Nat : /\ Queue = 1 .. m /\ Queue' = 1 .. m + 1
                       /\ Shifted(m, 0) /\ Joins(m + 1, r)
  BY <1>2, <1>3, QueueJoined, Zenon
<1>6. /\ Queue = 1 .. m + 0 /\ 0 # 1 /\ 0 \in {0, 1} /\ m + 1 \in Queue'
      /\ Setter(m + 1)' /\ Call(m + 1)'.text # Null /\ Call(m + 1)'.login = k
  BY <1>4, <1>5 DEF Joins, Setter
<1>7. /\ \A i \in DOMAIN replies' : replies'[i].ok
      /\ \A g \in Visit : \A f \in Field : form'[g][f] # Null
  BY <1>3, Zenon DEF Saved
<1> QED
  BY <1>3, <1>5, <1>6, <1>7, SavedFrom, Zenon

\* AsyncStorage performs a request.
LEMMA SavedPerformed ==
    ASSUME TypeOK, Saved, requests # <<>>, NEW x \in Item,
           Answer(Reply(Head(requests), TRUE, x)), form' = form,
           \A f \in Field : store[f].login <= store'[f].login /\ store'[f].login \in Nat
    PROVE  Saved'
<1>1. validated' = validated
  BY Zenon DEF Answer
<1>2. PICK n \in Queue :
        /\ Queue' = Queue /\ Call(n)' = Call(n) /\ Alive(n) /\ Alive(n)'
        /\ \A i \in Queue : i # n => Keeps(i, i)
  BY Performed, Zenon
<1>3. ASSUME NEW i \in Queue PROVE Call(i)' = Call(i) /\ (Setter(i)' <=> Setter(i))
  <2>1. CASE i = n
    BY <1>2, <2>1, Zenon DEF Setter
  <2>2. CASE i # n
    BY <1>2, <2>2, KeepsFacts, Zenon
  <2> QED
    BY <2>1, <2>2, Zenon
<1>4. \A i \in DOMAIN replies' : replies'[i].ok
  <2>1. PICK ok \in BOOLEAN : ok = TRUE
    BY Zenon
  <2>2. Answer(Reply(Head(requests), ok, x))
    BY <2>1, Zenon
  <2>3. \A i \in DOMAIN replies' :
          \/ i \in DOMAIN replies /\ replies'[i] = replies[i]
          \/ replies'[i].text = x /\ replies'[i].ok = ok
    BY <2>2, QueueAnswered, Zenon
  <2> QED
    BY <2>1, <2>3, Zenon DEF Saved
<1>5. \A i \in Queue' : Call(i)'.op = "set" => Call(i)'.text # Null
  BY <1>2, <1>3, Zenon DEF Saved
<1>6. ASSUME NEW k \in 1 .. Len(validated')
      PROVE  \/ \A f \in Field : k <= store'[f].login
             \/ \E i \in Queue' : Setter(i)' /\ Call(i)'.login = k
  <2>1. k \in 1 .. Len(validated) /\ k \in Nat
    BY <1>1, CallTypes
  <2>2. CASE \A f \in Field : k <= store[f].login
    BY <2>1, <2>2, CallTypes
  <2>3. CASE \E i \in Queue : Setter(i) /\ Call(i).login = k
    BY <1>2, <1>3, <2>3, Zenon
  <2> QED
    BY <2>1, <2>2, <2>3, Zenon DEF Saved
<1> QED
  BY <1>4, <1>5, <1>6, Zenon DEF Saved

LEMMA SavedNative ==
    ASSUME TypeOK, Order, Saved, NativeGet \/ NativeSet
    PROVE  Saved'
<1> DEFINE x == store[Head(requests).at]
<1>1. requests # <<>> /\ Answer(Reply(Head(requests), TRUE, x))
  BY Zenon DEF NativeGet, NativeSet
<1>2. x \in Item
  <2>1. Head(requests).at \in Field
    BY <1>1, Heads, Zenon DEF Request
  <2> QED
    BY <2>1, CallTypes, Zenon
<1>3. form' = form
  BY <1>1, Zenon DEF Answer
<1>4. \A f \in Field : store[f].login <= store'[f].login
  <2>1. CASE NativeGet
    <3>1. store' = store
      BY <2>1, Zenon DEF NativeGet
    <3> QED
      BY <3>1, CallTypes
  <2>2. CASE NativeSet
    BY <2>2, OrderSet, Zenon
  <2> QED
    BY <2>1, <2>2, Zenon
<1>5. \A f \in Field : store'[f].login \in Nat
  <2>1. [Next]_vars
    BY Zenon DEF Next, Native
  <2>2. TypeOK'
    BY <2>1, TypeStep, Zenon DEF Order
  <2>3. \A f \in Field : store'[f] \in Item
    BY <2>2, Zenon DEF TypeOK
  <2> QED
    BY <2>3, CallTypes, Zenon
<1> HIDE DEF x
<1> QED
  BY <1>1, <1>2, <1>3, <1>4, <1>5, SavedPerformed, Zenon

\* getData resumes.
LEMMA SavedGet ==
    ASSUME TypeOK, Order, Saved, ReadLater, GetDataResumes
    PROVE  Saved'
<1> DEFINE p == Head(replies)
           r == GetItem(p.request.visit, p.request.at + 1, Append(p.request.got, p.text))
<1>1. /\ replies # <<>> /\ p.ok /\ p.request.op = "get" /\ replies' = Tail(replies)
      /\ \/ requests' = requests
         \/ p.request.at < Age /\ requests' = Append(requests, r)
      /\ store' = store /\ validated' = validated
  BY Zenon DEF GetDataResumes
<1>2. 1 \in Queue /\ Call(1) = p.request /\ ~Setter(1)
  BY <1>1, FirstCall, Zenon DEF Setter
<1>3. \A h \in Visit : \A f \in Field : form'[h][f] # Null
  BY FilledForm DEF Saved
<1>4. CASE requests' = requests
  <2>1. PICK m \in Nat : Queue = 1 .. m + 1 /\ Queue' = 1 .. m /\ Shifted(m, 1)
    BY <1>1, <1>4, QueueLeft, Zenon
  <2>2. \A i \in DOMAIN replies' : replies'[i].ok
    BY <1>1, <1>4, QueueLeft, Zenon DEF Saved
  <2>3. ~(m + 1 \in Queue') /\ 1 \in {0, 1}
    BY <2>1
  <2> QED
    BY <1>1, <1>2, <1>3, <2>1, <2>2, <2>3, SavedFrom, Zenon
<1>5. CASE p.request.at < Age /\ requests' = Append(requests, r)
  <2>1. r \in Request
    <3>1. p.request.visit \in Visit /\ p.request.got \in Seq(Item) /\ p.request.at \in Field
      BY <1>2, CallTypes, Zenon
    <3>2. p.request.at + 1 \in Field
      BY <1>5, <3>1 DEF Field, Age
    <3>3. p.text \in Item
      BY <1>1, Heads, Zenon DEF Answers
    <3>4. Append(p.request.got, p.text) \in Seq(Item)
      BY <3>1, <3>3
    <3> QED
      BY <3>1, <3>2, <3>4, RequestTypes, Zenon
  <2>2. r.op = "get"
    BY Zenon DEF GetItem
  <2> HIDE DEF r
  <2>3. PICK m \in Nat : /\ Queue = 1 .. m + 1 /\ Queue' = 1 .. m + 1
                         /\ Shifted(m, 1) /\ Joins(m + 1, r)
    BY <1>1, <1>5, <2>1, QueueRotated, Zenon
  <2>4. \A i \in DOMAIN replies' : replies'[i].ok
    BY <1>1, <1>5, <2>1, QueueRotated, Zenon DEF Saved
  <2>5. Call(m + 1)'.op # "set" /\ 1 \in {0, 1}
    BY <2>2, <2>3, Zenon DEF Joins
  <2> QED
    BY <1>1, <1>2, <1>3, <2>3, <2>4, <2>5, SavedFrom, Zenon
<1> QED
  BY <1>1, <1>4, <1>5, Zenon

\* setData resumes: it ends when all four items are stored.
LEMMA SavedSet ==
    ASSUME TypeOK, Order, Saved, SetDataResumes
    PROVE  Saved'
<1> DEFINE q == Head(replies).request
           r == SetItem(q.visit, q.at + 1, q.login)
<1>1. /\ replies # <<>> /\ Head(replies).ok /\ q.op = "set" /\ replies' = Tail(replies)
      /\ requests' = IF q.at < Age THEN Append(requests, r) ELSE requests
      /\ store' = store /\ validated' = validated /\ form' = form
  BY Zenon DEF SetDataResumes
<1>2. /\ 1 \in Queue /\ Call(1) = q /\ q.at \in 1 .. 4 /\ Setter(1)
      /\ \A f : Past(1, f) <=> f <= q.at
  BY <1>1, ResumedCall, Zenon DEF Order
<1>3. \A h \in Visit : \A f \in Field : form'[h][f] # Null
  BY <1>1, Zenon DEF Saved
<1>4. CASE ~(q.at < Age)
  <2>1. PICK m \in Nat : Queue = 1 .. m + 1 /\ Queue' = 1 .. m /\ Shifted(m, 1)
    BY <1>1, <1>4, QueueLeft, Zenon
  <2>2. \A i \in DOMAIN replies' : replies'[i].ok
    BY <1>1, <1>4, QueueLeft, Zenon DEF Saved
  <2>3. ~(m + 1 \in Queue') /\ 1 \in {0, 1}
    BY <2>1
  <2>4. \A f \in Field : Call(1).login <= store[f].login
    <3>1. \A f \in Field : Past(1, f)
      BY <1>2, <1>4 DEF Field, Age
    <3> QED
      BY <1>2, <3>1, Zenon DEF Order, Written, SetOK
  <2> QED
    BY <1>1, <1>3, <2>1, <2>2, <2>3, <2>4, SavedFrom, Zenon
<1>5. CASE q.at < Age
  <2>1. r \in Request /\ r.text # Null
    <3>1. q.visit \in Visit /\ q.at \in Field /\ q.login \in 0 .. MaxLogins
      BY <1>2, QueueTypes, Zenon DEF Request
    <3>2. q.at + 1 \in Field
      BY <1>5, <3>1 DEF Field, Age
    <3> QED
      BY <3>1, <3>2, RequestTypes, Zenon DEF SetItem, Saved
  <2>2. r.op = "set" /\ r.login = Call(1).login
    BY <1>2, Zenon DEF SetItem
  <2> HIDE DEF r
  <2>3. PICK m \in Nat : /\ Queue = 1 .. m + 1 /\ Queue' = 1 .. m + 1
                         /\ Shifted(m, 1) /\ Joins(m + 1, r)
    BY <1>1, <1>5, <2>1, QueueRotated, Zenon
  <2>4. \A i \in DOMAIN replies' : replies'[i].ok
    BY <1>1, <1>5, <2>1, QueueRotated, Zenon DEF Saved
  <2>5. /\ m + 1 \in Queue' /\ Setter(m + 1)' /\ Call(m + 1)'.login = Call(1).login
        /\ Call(m + 1)'.text # Null /\ 1 \in {0, 1}
    BY <2>1, <2>2, <2>3 DEF Joins, Setter
  <2> QED
    BY <1>1, <1>3, <2>3, <2>4, <2>5, SavedFrom, Zenon
<1> QED
  BY <1>4, <1>5, Zenon

LEMMA SavedStep ==
    ASSUME TypeOK, Order, Saved, ReadLater, ~thrown, faults = 0, faults' = 0, [Next]_vars
    PROVE  Saved' /\ ~thrown'
<1> DEFINE Done == Saved' /\ ~thrown'
<1>1. ASSUME UNCHANGED <<requests, replies, store, validated, form, thrown>> PROVE Done
  <2>1. \A h \in Visit : \A f \in Field : form'[h][f] # Null
    BY <1>1, Zenon DEF Saved
  <2> QED
    BY <1>1, <2>1, SavedSame, Zenon
<1>2. ASSUME NEW g \in Visit, NEW f \in Field, NEW v \in Typed[f], Input(g, f, v) PROVE Done
  <2>1. v # Null
    BY Constants, Zenon
  <2>2. \A h \in Visit : \A e \in Field : form'[h][e] = form[h][e] \/ form'[h][e] = v
    BY <1>2, Zenon DEF Input, TypeOK
  <2>3. \A h \in Visit : \A e \in Field : form'[h][e] # Null
    BY <2>1, <2>2 DEF Saved
  <2> QED
    BY <1>2, <2>3, SavedSame, Zenon DEF Input
<1>3. CASE User
  <2>1. ASSUME NEW h \in Visit, LoginAccepted(h) PROVE Done
    BY <2>1, SavedLogin, Zenon DEF LoginAccepted
  <2>2. \A h \in Visit : ~LoginThrows(h)
    BY Zenon DEF LoginThrows, Throws, Saved
  <2>3. ASSUME NEW h \in Visit, LoginRefused(h) PROVE Done
    BY <1>1, <2>3, Zenon DEF LoginRefused
  <2> QED
    BY <1>2, <1>3, <2>1, <2>2, <2>3, Zenon DEF User
<1>4. CASE Native
  <2>1. ~NativeFails
    BY DEF NativeFails
  <2>2. ~NativeSetNull
    <3> SUFFICES ASSUME NativeSetNull PROVE FALSE
      BY Zenon
    <3>1. /\ requests # <<>> /\ Head(requests).op = "set" /\ Head(requests).text = Null
          /\ Answer(Reply(Head(requests), FALSE, store[Head(requests).at]))
      BY Zenon DEF NativeSetNull
    <3>2. store[Head(requests).at] \in Item
      <4>1. Head(requests).at \in Field
        BY <3>1, Heads, Zenon DEF Request
      <4> QED
        BY <4>1, CallTypes, Zenon
    <3>3. \E n \in Queue : Call(n) = Head(requests)
      BY <3>1, <3>2, FALSE \in BOOLEAN, QueueAnswered, Zenon
    <3> QED
      BY <3>1, <3>3, Zenon DEF Saved
  <2>3. CASE NativeGet \/ NativeSet
    <3>1. thrown' = thrown
      BY <2>3, Zenon DEF NativeGet, NativeSet, Answer
    <3> QED
      BY <2>3, <3>1, SavedNative, Zenon
  <2> QED
    BY <1>4, <2>1, <2>2, <2>3, Zenon DEF Native
<1>5. CASE Resume
  <2>1. CASE GetDataResumes
    BY <2>1, SavedGet, Zenon DEF GetDataResumes
  <2>2. CASE SetDataResumes
    BY <2>2, SavedSet, Zenon DEF SetDataResumes
  <2>3. ~StorageRejects
    BY FirstCall, QueueTypes DEF StorageRejects, Saved
  <2> QED
    BY <1>5, <2>1, <2>2, <2>3, Zenon DEF Resume
<1>6. CASE Construct
  BY <1>6, SavedConstruct, Zenon DEF Construct
<1>7. ~Kill
  BY DEF Kill
<1>8. ASSUME NEW h \in Visit, TransitionEnd(h) PROVE Done
  BY <1>1, <1>8, Zenon DEF TransitionEnd
<1>9. CASE UNCHANGED vars
  BY <1>1, <1>9, Zenon DEF vars
<1> QED
  BY <1>3, <1>4, <1>5, <1>6, <1>7, <1>8, <1>9, Zenon DEF Next

-----------------------------------------------------------------------------
(* The invariant is inductive. *)

LEMMA InvInit == Init => Inv
<1> SUFFICES ASSUME Init PROVE Inv
  BY Zenon
<1> DEFINE r == GetItem(1, 1, <<>>)
<1>1. /\ requests = <<r>> /\ replies = <<>> /\ validated = <<>> /\ faults = 0 /\ thrown = FALSE
      /\ form = [h \in Visit |-> InitialForm]
      /\ store = [f \in Field |-> [text |-> Null, login |-> 0]]
  BY Zenon DEF Init
<1>2. r \in Request /\ r.op = "get" /\ r.at = 1 /\ r.got = <<>>
  <2>1. <<>> \in Seq(Item)
    OBVIOUS
  <2> QED
    BY <2>1, Constants DEF GetItem, Request
<1>3. \A f \in Field : store[f].text = Null /\ store[f].login = 0 /\ store[f] \in Item
  BY <1>1, Constants DEF Item
<1>4. \A h \in Visit : \A f \in Field : form[h][f] = Empty /\ form[h][f] # Null
  BY <1>1, Constants, Zenon DEF InitialForm
<1>5. TypeOK
  <2>1. requests \in Seq(Request)
    BY <1>1, <1>2
  <2>2. form \in [Visit -> [Field -> Value]]
    BY <1>1, Constants, Zenon DEF InitialForm
  <2>3. store \in [Field -> Item]
    BY <1>1, Constants DEF Item
  <2>4. replies \in Seq([request : Request, ok : BOOLEAN, text : Item])
        /\ validated \in Seq([Field -> Value])
    BY <1>1
  <2>5. mount \in [Visit -> {"absent", "focused", "leaving", "unmounted"}]
    BY Zenon DEF Init
  <2>6. visits \in Visit /\ errors \in [Visit -> SUBSET Field] /\ rejections \in SUBSET {"get", "set"}
    BY Constants, Zenon DEF Init
  <2>7. thrown \in BOOLEAN
    BY Zenon DEF Init
  <2>8. faults \in 0 .. MaxFaults
    BY Constants DEF Init
  <2> QED
    BY <2>1, <2>2, <2>3, <2>4, <2>5, <2>6, <2>7, <2>8, ZenonT(30) DEF TypeOK
<1>6. Len(requests) = 1 /\ Len(replies) = 0 /\ DOMAIN replies = {} /\ Len(validated) = 0
      /\ requests[1] = r
  BY <1>1
<1>7. Queue = {1} /\ Call(1) = r /\ ~Answered(1)
  BY <1>6 DEF Queue, Calls, Call, Answered
<1> HIDE DEF r
<1>8. CallsOK
  <2>1. CallOK(r)
    BY <1>2 DEF CallOK
  <2> QED
    <3>1. Len(validated) <= MaxLogins
      BY <1>6, Constants
    <3>2. \A i \in Queue : CallOK(Call(i))
      BY <1>7, <2>1, Zenon
    <3>3. \A f \in Field : Whole(store[f]) /\ store[f].login <= Len(validated)
      BY <1>3, <1>6 DEF Whole
    <3> QED
      BY <1>6, <3>1, <3>2, <3>3, Zenon DEF CallsOK
<1>9. ~Setter(1) /\ ~HasRead(1)
  BY <1>2, <1>7 DEF Setter, HasRead
<1>10. Written
  BY <1>3, <1>7, <1>9 DEF Written
<1>11. ReadEarlier /\ ReadLater
  BY <1>7, <1>9, Zenon DEF ReadEarlier, ReadLater
<1>12. FirstNameNeverNull
  BY <1>4, Constants, Zenon DEF FirstNameNeverNull
<1>13. Saved
  BY <1>2, <1>4, <1>6, <1>7 DEF Saved
<1> QED
  BY <1>1, <1>5, <1>8, <1>10, <1>11, <1>12, <1>13, Zenon DEF Inv

LEMMA InvStep == Inv /\ [Next]_vars => Inv'
<1> SUFFICES ASSUME Inv, [Next]_vars PROVE Inv'
  BY Zenon
<1>1. TypeOK /\ Order /\ FirstNameNeverNull
  BY Zenon DEF Inv, Order
<1>2. TypeOK'
  BY <1>1, TypeStep, Zenon DEF Order
<1>3. Order' /\ (ReadLater /\ Saved => ReadLater')
  BY <1>1, OrderStep, Zenon
<1>4. FirstNameNeverNull'
  BY <1>1, FirstNameStep, Zenon
<1>5. faults' = 0 => faults = 0
  <2>1. CASE Kill \/ NativeFails
    <3>1. faults \in Nat
      BY <1>1, Constants DEF TypeOK
    <3>2. faults' = faults + 1
      BY <2>1, Zenon DEF Kill, NativeFails
    <3> QED
      BY <3>1, <3>2
  <2>2. CASE ~(Kill \/ NativeFails)
    <3>1. faults' = faults
      BY <2>2, Zenon
         DEF Next, User, Native, Resume, Input, LoginAccepted, LoginRefused, LoginThrows,
                  NativeGet, NativeSet, NativeSetNull, GetDataResumes, SetDataResumes,
                  StorageRejects, Construct, TransitionEnd, vars
    <3> QED
      BY <3>1, Zenon
  <2> QED
    BY <2>1, <2>2, Zenon
<1>6. faults' = 0 => Saved' /\ ReadLater' /\ ~thrown'
  BY <1>1, <1>3, <1>5, SavedStep, Zenon DEF Inv
<1> QED
  BY <1>2, <1>3, <1>4, <1>6, Zenon DEF Inv, Order

-----------------------------------------------------------------------------
(* The theorems. *)

LEMMA Invariance == Spec => []Inv
<1>1. Init => Inv
  BY InvInit, Zenon
<1>2. Inv /\ [Next]_vars => Inv'
  BY InvStep, Zenon
<1> QED
  BY <1>1, <1>2, PTL DEF Spec

\* The types of HomeScreen.js's state, of AsyncStorage's items and of the calls
\* in flight are kept: in particular a getData call that is resumed after the
\* last item has read exactly the four items it fills the form from.
THEOREM HomeTypeCorrect == Spec => []TypeOK
<1>1. Inv => TypeOK
  BY Zenon DEF Inv
<1> QED
  BY <1>1, Invariance, PTL

\* Whatever dies or fails in the middle of HomeScreen.js's setData, an item in
\* storage has all the items before it in storage.
THEOREM StoredPrefixCorrect == Spec => []StoredPrefix
<1>1. Inv => StoredPrefix
  <2> SUFFICES ASSUME Inv, NEW f \in Field, NEW g \in Field, f < g, store[g].text # Null
               PROVE  store[f].text # Null
    BY Zenon DEF StoredPrefix
  <2>1. store[f].login \in Nat /\ store[g].login \in Nat /\ store[g].login <= store[f].login
    BY CallTypes, Zenon DEF Inv, Written
  <2>2. Whole(store[f]) /\ Whole(store[g])
    BY Zenon DEF Inv, CallsOK
  <2> QED
    BY <2>1, <2>2 DEF Whole
<1> QED
  BY <1>1, Invariance, PTL

\* While nothing fails, the items that a call of HomeScreen.js's getData has
\* read were written by one and the same call of setData.
THEOREM ReadsOneLoginCorrect == Spec => []ReadsOneLogin
<1>1. Inv => ReadsOneLogin
  <2> SUFFICES ASSUME Inv, faults = 0, NEW got \in ReadSoFar
               PROVE  \A i, j \in DOMAIN got : got[i].login = got[j].login
    BY Zenon DEF ReadsOneLogin
  <2>1. TypeOK /\ CallsOK /\ Saved /\ ReadLater
    BY Zenon DEF Inv
  <2>2. PICK n \in Queue : Getter(n) /\ Reads(n) = got
    <3>1. CASE \E i \in DOMAIN requests : requests[i].op = "get" /\ got = requests[i].got
      <4>1. PICK i \in DOMAIN requests : requests[i].op = "get" /\ got = requests[i].got
        BY <3>1, Zenon
      <4>2. PICK n \in Nat : n = Len(replies) + i
        BY <2>1, QueueTypes
      <4>3. n \in Queue /\ ~(n <= Len(replies)) /\ n - Len(replies) = i
        BY <2>1, <4>2, QueueTypes DEF Queue, Calls
      <4>4. Call(n) = requests[i] /\ Alive(n) /\ ~Answered(n)
        BY <4>3, Zenon DEF Call, Alive, Answered
      <4> QED
        BY <4>1, <4>3, <4>4, Zenon DEF Getter, Reads
    <3>2. CASE \E i \in DOMAIN replies : /\ replies[i].request.op = "get"
                                         /\ got = Append(replies[i].request.got, replies[i].text)
      <4>1. PICK i \in DOMAIN replies :
              /\ replies[i].request.op = "get"
              /\ got = Append(replies[i].request.got, replies[i].text)
        BY <3>2, Zenon
      <4>2. i \in Queue /\ i <= Len(replies) /\ replies[i].ok
        BY <2>1, QueueTypes DEF Queue, Calls, Saved
      <4>3. Call(i) = replies[i].request /\ Alive(i) /\ Answered(i)
        BY <4>2, Zenon DEF Call, Alive, Answered
      <4> QED
        BY <4>1, <4>2, <4>3, Zenon DEF Getter, Reads
    <3> QED
      BY <3>1, <3>2, Zenon DEF ReadSoFar
  <2>3. CASE HasRead(n)
    BY <2>1, <2>2, <2>3 DEF ReadLater
  <2>4. CASE ~HasRead(n)
    <3>1. Call(n).op = "get" /\ Call(n).at \in Field /\ ~(Call(n).at > 1) /\ ~Answered(n)
      BY <2>1, <2>2, <2>4, CallTypes, Zenon DEF HasRead, Getter
    <3>2. got = Call(n).got /\ got \in Seq(Item) /\ Len(got) = Call(n).at - 1
      BY <2>1, <2>2, <3>1, CallTypes, Zenon DEF Reads, CallsOK, CallOK
    <3>3. Len(got) = 0
      BY <3>1, <3>2 DEF Field
    <3> QED
      BY <3>2, <3>3
  <2> QED
    BY <2>3, <2>4, Zenon
<1> QED
  BY <1>1, Invariance, PTL

\* HomeScreen.js's getData never puts null into firstName, with or without
\* failures.
THEOREM FirstNameCorrect == Spec => []FirstNameNeverNull
<1>1. Inv => FirstNameNeverNull
  BY Zenon DEF Inv
<1> QED
  BY <1>1, Invariance, PTL

\* HomeScreen.js's validate() throws only after a storage failure or the death
\* of the process.
THEOREM ThrowNeedsFaultCorrect == Spec => []ThrowNeedsFault
<1>1. Inv => ThrowNeedsFault
  BY Constants DEF Inv, TypeOK, ThrowNeedsFault
<1> QED
  BY <1>1, Invariance, PTL

\* No write of HomeScreen.js's setData replaces an item of a later login.
THEOREM NewestLoginCorrect == Spec => NewestLoginWins
<1>1. Inv /\ [Next]_vars => [\A f \in Field : store'[f].login >= store[f].login]_vars
  <2> SUFFICES ASSUME Inv, Next PROVE \A f \in Field : store'[f].login >= store[f].login
    BY Zenon
  <2>1. CASE NativeSet
    <3>1. \A f \in Field : store[f].login <= store'[f].login
      BY <2>1, OrderSet, Zenon DEF Inv, Order
    <3> QED
      BY <3>1, Zenon
  <2>2. CASE ~NativeSet
    <3>1. store' = store
      BY <2>2, Zenon
         DEF Next, User, Native, Resume, Input, LoginAccepted, LoginRefused, LoginThrows,
                  ProcessEnds, NativeGet, NativeSetNull, NativeFails, GetDataResumes,
                  SetDataResumes, StorageRejects, Construct, Kill, TransitionEnd
    <3> QED
      BY <3>1, CallTypes DEF Inv
  <2> QED
    BY <2>1, <2>2, Zenon
<1> QED
  BY <1>1, Invariance, PTL DEF Spec, NewestLoginWins

\* Once no call of HomeScreen.js's setData is under way, and nothing has failed, all
\* four items in storage are of the last login, for any number of visits and logins.
THEOREM SettledIsSavedCorrect == Spec => []SettledIsSaved
<1>1. Inv => SettledIsSaved
  <2> SUFFICES ASSUME Inv, faults = 0,
                      \A i \in DOMAIN requests : requests[i].op = "get",
                      \A i \in DOMAIN replies : replies[i].request.op = "get",
                      NEW f \in Field
               PROVE  store[f].login = Len(validated)
    BY Zenon DEF SettledIsSaved
  <2>1. /\ store[f].login \in Nat /\ Len(validated) \in Nat
        /\ store[f].login <= Len(validated)
    BY CallTypes, Zenon DEF Inv, CallsOK
  <2>2. \A i \in Queue : Call(i).op = "get"
    <3>1. /\ Len(replies) \in Nat /\ Len(requests) \in Nat
          /\ DOMAIN replies = 1 .. Len(replies) /\ DOMAIN requests = 1 .. Len(requests)
      BY QueueTypes, Zenon DEF Inv
    <3>2. \A i \in Queue :
            IF i <= Len(replies) THEN i \in DOMAIN replies ELSE i - Len(replies) \in DOMAIN requests
      BY <3>1 DEF Queue, Calls
    <3> QED
      BY <3>2, Zenon DEF Call
  <2>3. \A k \in 1 .. Len(validated) : k <= store[f].login
    BY <2>2, Zenon DEF Inv, Saved, Setter
  <2> QED
    BY <2>1, <2>3
<1> QED
  BY <1>1, Invariance, PTL
=============================================================================
