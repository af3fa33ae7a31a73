-------------------------- MODULE HomeQueue_proofs --------------------------
(***************************************************************************)
(* Proofs about the login form and the stored profile, first part: the     *)
(* inductive invariant, the types, and what the steps do to the queue of   *)
(* calls.                                                                  *)
(*                                                                         *)
(* The argument is that of a round-robin queue.  A getData or setData call *)
(* has one request with AsyncStorage at a time.  Put the answers not seen  *)
(* yet in front of the requests not performed yet: AsyncStorage only moves *)
(* the border between the two, and a call that is resumed leaves the front *)
(* and, unless it is done, joins the end with its next item.  Hence no     *)
(* call overtakes another one.                                             *)
(***************************************************************************)
EXTENDS HomeScreen, TLAPS

-----------------------------------------------------------------------------
(* The queue of calls. *)

Calls == Len(replies) + Len(requests)
Queue == 1 .. Calls

\* The request of the i-th call, and whether AsyncStorage has answered it.
Call(i) ==
    IF i <= Len(replies) THEN replies[i].request ELSE requests[i - Len(replies)]
Answered(i) == i <= Len(replies)

\* The calls that will go on, by function.
Alive(i) == i <= Len(replies) => replies[i].ok
Getter(i) == i \in Queue /\ Alive(i) /\ Call(i).op = "get"
Setter(i) == i \in Queue /\ Alive(i) /\ Call(i).op = "set"

\* Whether the i-th call has dealt with item f.
Past(i, f) == IF Answered(i) THEN f <= Call(i).at ELSE f < Call(i).at

\* What the i-th call has read, and the login that wrote the first of it.
Reads(i) == IF Answered(i) THEN Append(Call(i).got, replies[i].text) ELSE Call(i).got
HasRead(i) == Answered(i) \/ Call(i).at > 1
Base(i) == Reads(i)[1].login

-----------------------------------------------------------------------------
(* The inductive invariant. *)

\* An item is missing exactly if no login wrote it.
Whole(x) == x.text = Null <=> x.login = 0

CallOK(c) ==
    /\ c.op = "get" => Len(c.got) = c.at - 1
    /\ c.op = "set" => c.login \in 1 .. Len(validated)
    /\ \A n \in DOMAIN c.got : Whole(c.got[n])

CallsOK ==
    /\ Len(validated) <= MaxLogins
    /\ \A i \in Queue : CallOK(Call(i))
    /\ \A i \in DOMAIN replies : Whole(replies[i].text)
    /\ \A f \in Field : Whole(store[f]) /\ store[f].login <= Len(validated)

\* What is stored of an item is by the latest login that has got there, ...
SetOK(i) == \A f \in Field : Past(i, f) <=> Call(i).login <= store[f].login

\* ... since a login never overtakes an earlier one: i is in front of j.
InOrder(i, j) ==
    \/ Call(i).login < Call(j).login /\ Call(j).at <= Call(i).at
    \/ Call(j).login < Call(i).login /\ Call(i).at < Call(j).at

Written ==
    /\ \A f, g \in Field : f < g => store[g].login <= store[f].login
    /\ \A i \in Queue : Setter(i) => SetOK(i)
    /\ \A i, j \in Queue : Setter(i) /\ Setter(j) /\ i < j => InOrder(i, j)

\* A getData call stays ahead of the logins it has read nothing of, and so
\* reads nothing of them later.
GetOK(i) ==
    /\ Base(i) <= Len(validated)
    /\ \A n \in DOMAIN Reads(i) : Reads(i)[n].login <= Base(i)
    /\ \A f \in Field : Past(i, f) \/ store[f].login <= Base(i)

StaysAhead(i, j) ==
    Base(i) < Call(j).login =>
        IF j < i THEN Call(j).at < Call(i).at ELSE Call(j).at <= Call(i).at

ReadEarlier ==
    \A i \in Queue : Getter(i) /\ HasRead(i) =>
        GetOK(i) /\ \A j \in Queue : Setter(j) => StaysAhead(i, j)

\* While nothing fails, every login is being stored or was stored, ...
Saved ==
    /\ \A i \in DOMAIN replies : replies[i].ok
    /\ \A i \in Queue : Call(i).op = "set" => Call(i).text # Null
    /\ \A h \in Visit : \A f \in Field : form[h][f] # Null
    /\ \A k \in 1 .. Len(validated) :
         \/ \A f \in Field : k <= store[f].login
         \/ \E i \in Queue : Setter(i) /\ Call(i).login = k

\* ... and a getData call stays behind the logins it has read something of.
StaysBehind(i, j) ==
    Call(j).login <= Base(i) =>
        IF j < i THEN Call(i).at <= Call(j).at ELSE Call(i).at < Call(j).at

ReadLater ==
    \A i \in Queue : Getter(i) /\ HasRead(i) =>
        /\ \A n \in DOMAIN Reads(i) : Reads(i)[n].login = Base(i)
        /\ \A j \in Queue : Setter(j) => StaysBehind(i, j)

Inv ==
    /\ TypeOK
    /\ CallsOK
    /\ Written
    /\ ReadEarlier
    /\ FirstNameNeverNull
    /\ faults = 0 => Saved /\ ReadLater /\ ~thrown

-----------------------------------------------------------------------------
(* Types. *)

Answers == [request : Request, ok : BOOLEAN, text : Item]

LEMMA Constants ==
    /\ Null \notin Texts /\ Texts \subseteq Value /\ Null \in Value /\ Empty \in Texts
    /\ \A f \in Field : Typed[f] \subseteq Texts
    /\ MaxVisits \in Nat /\ 1 \in Visit /\ MaxLogins \in Nat /\ MaxFaults \in Nat
    /\ 1 \in Field /\ Age \in Field /\ Visit \subseteq Nat /\ Field \subseteq Nat
BY HomeAssumption DEF HomeAssumption, Texts, Value, Visit, Field, Age

LEMMA RequestTypes ==
    ASSUME TypeOK, NEW h \in Visit, NEW f \in Field
    PROVE  /\ \A got \in Seq(Item) : GetItem(h, f, got) \in Request
           /\ \A k \in 0 .. MaxLogins : SetItem(h, f, k) \in Request
<1>1. form[h][f] \in Value
  BY Zenon DEF TypeOK
<1>2. <<>> \in Seq(Item)
  OBVIOUS
<1> QED
  BY <1>1, <1>2, Constants DEF GetItem, SetItem, Request

LEMMA QueueTypes ==
    ASSUME TypeOK
    PROVE  /\ Len(replies) \in Nat /\ Len(requests) \in Nat /\ Calls \in Nat
           /\ DOMAIN replies = 1 .. Len(replies) /\ DOMAIN requests = 1 .. Len(requests)
           /\ \A i \in Queue : Call(i) \in Request
           /\ \A i \in 1 .. Len(replies) : replies[i] \in Answers
           /\ \A i \in 1 .. Len(requests) : requests[i] \in Request
<1>1. replies \in Seq(Answers) /\ requests \in Seq(Request)
  BY Zenon DEF TypeOK, Answers
<1>2. /\ Len(replies) \in Nat /\ Len(requests) \in Nat
      /\ \A i \in 1 .. Len(replies) : replies[i] \in Answers
      /\ \A i \in 1 .. Len(requests) : requests[i] \in Request
      /\ DOMAIN replies = 1 .. Len(replies) /\ DOMAIN requests = 1 .. Len(requests)
  BY <1>1
<1>3. \A i \in 1 .. Len(replies) : replies[i].request \in Request
  BY <1>2, Zenon DEF Answers
<1>4. ASSUME NEW i \in Queue PROVE Call(i) \in Request
  <2>1. CASE i <= Len(replies)
    BY <1>2, <1>3, <2>1 DEF Call, Queue, Calls
  <2>2. CASE ~(i <= Len(replies))
    <3>1. i - Len(replies) \in 1 .. Len(requests)
      BY <1>2, <2>2 DEF Queue, Calls
    <3> QED
      BY <1>2, <2>2, <3>1, Zenon DEF Call
  <2> QED
    BY <2>1, <2>2, Zenon
<1> QED
  BY <1>2, <1>4 DEF Calls

LEMMA FirstCall ==
    ASSUME TypeOK, replies # <<>>
    PROVE  1 \in Queue /\ Call(1) = Head(replies).request /\ Answered(1)
           /\ 1 \in 1 .. Len(replies) /\ Head(replies) = replies[1]
<1>1. replies \in Seq(Answers) /\ requests \in Seq(Request)
  BY Zenon DEF TypeOK, Answers
<1>2. 1 \in 1 .. Len(replies) /\ Head(replies) = replies[1] /\ Len(requests) \in Nat
  BY <1>1
<1> QED
  BY <1>2 DEF Call, Queue, Calls, Answered

LEMMA Heads ==
    ASSUME TypeOK
    PROVE  /\ requests # <<>> => Head(requests) \in Request /\ Tail(requests) \in Seq(Request)
           /\ replies # <<>> => Head(replies) \in Answers /\ Tail(replies) \in Seq(Answers)
<1>1. replies \in Seq(Answers) /\ requests \in Seq(Request)
  BY Zenon DEF TypeOK, Answers
<1> QED
  BY <1>1

\* What a native step does to the types.
LEMMA AnswerTypes ==
    ASSUME TypeOK, requests # <<>>, NEW ok \in BOOLEAN, NEW x \in Item,
           Answer(Reply(Head(requests), ok, x)),
           store' \in [Field -> Item], faults' \in 0 .. MaxFaults
    PROVE  TypeOK'
<1>1. Reply(Head(requests), ok, x) \in Answers
  BY Heads, Zenon DEF Reply, Answers
<1>2. requests' \in Seq(Request) /\ replies' \in Seq(Answers)
  BY <1>1, Heads DEF Answer, TypeOK, Answers
<1> QED
  BY <1>2, Zenon DEF Answer, TypeOK, Answers

\* What the end of the process does to the types.
LEMMA EndTypes ==
    ASSUME TypeOK, ProcessEnds, thrown' \in BOOLEAN, faults' \in 0 .. MaxFaults
    PROVE  TypeOK'
<1>1. mount' \in [Visit -> {"absent", "focused", "leaving", "unmounted"}]
  BY Zenon DEF ProcessEnds, TypeOK
<1>2. requests' \in Seq(Request) /\ replies' \in Seq(Answers)
  BY DEF ProcessEnds
<1> QED
  BY <1>1, <1>2, Zenon DEF ProcessEnds, TypeOK, Answers

LEMMA ReplacedTypes ==
    TypeOK => Replaced(mount) \in [Visit -> {"absent", "focused", "leaving", "unmounted"}]
BY Zenon DEF TypeOK, Replaced

LEMMA TypeStep == TypeOK /\ CallsOK /\ [Next]_vars => TypeOK'
<1> SUFFICES ASSUME TypeOK, CallsOK, [Next]_vars PROVE TypeOK'
  BY Zenon
<1>1. ASSUME NEW h \in Visit, NEW f \in Field, NEW v \in Typed[f], Input(h, f, v)
      PROVE  TypeOK'
  <2>1. v \in Value
    BY Constants, Zenon
  <2>2. form' \in [Visit -> [Field -> Value]] /\ errors' \in [Visit -> SUBSET Field]
    BY <1>1, <2>1, Zenon DEF Input, TypeOK
  <2> QED
    BY <1>1, <2>2, Zenon DEF Input, TypeOK
<1>2. ASSUME NEW h \in Visit, LoginAccepted(h) PROVE TypeOK'
  <2>1. Len(validated) + 1 \in 0 .. MaxLogins
    BY <1>2, Constants DEF LoginAccepted, TypeOK
  <2>2. SetItem(h, 1, Len(validated) + 1) \in Request
    BY <2>1, RequestTypes, Constants, Zenon
  <2>3. requests' \in Seq(Request)
    BY <1>2, <2>2 DEF LoginAccepted, TypeOK
  <2>4. validated' \in Seq([Field -> Value])
    BY <1>2 DEF LoginAccepted, TypeOK
  <2> QED
    BY <1>2, <2>3, <2>4, ReplacedTypes, Zenon DEF LoginAccepted, TypeOK
<1>3. ASSUME NEW h \in Visit, LoginRefused(h) PROVE TypeOK'
  <2>1. Invalid(form[h]) \in SUBSET Field
    BY DEF Invalid, NameField, Field, Age
  <2> QED
    BY <1>3, <2>1, Zenon DEF LoginRefused, TypeOK
<1>4. ASSUME NEW h \in Visit, LoginThrows(h) PROVE TypeOK'
  BY <1>4, EndTypes, Zenon DEF LoginThrows, TypeOK
<1>5. CASE Kill
  BY <1>5, EndTypes, Constants, SMTT(30) DEF Kill, TypeOK
<1>6. ASSUME NEW h \in Visit, TransitionEnd(h) PROVE TypeOK'
  BY <1>6, Zenon DEF TransitionEnd, TypeOK
<1>7. CASE Construct
  <2>1. visits + 1 \in Visit
    BY <1>7, Constants DEF Construct, TypeOK, Visit
  <2>2. GetItem(visits + 1, 1, <<>>) \in Request
    <3>1. <<>> \in Seq(Item)
      OBVIOUS
    <3> QED
      BY <2>1, <3>1, RequestTypes, Constants, Zenon
  <2>3. requests' \in Seq(Request)
    BY <1>7, <2>2 DEF Construct, TypeOK
  <2>4. mount' \in [Visit -> {"absent", "focused", "leaving", "unmounted"}]
    BY <1>7, <2>1, ReplacedTypes, Zenon DEF Construct
  <2> QED
    BY <1>7, <2>1, <2>3, <2>4, Zenon DEF Construct, TypeOK
<1>8. CASE Native
  <2>1. requests # <<>>
    BY <1>8, Zenon DEF Native, NativeGet, NativeSet, NativeSetNull, NativeFails
  <2>2. /\ Head(requests).at \in Field /\ Head(requests).text \in Value
        /\ Head(requests).login \in 0 .. MaxLogins
    BY <2>1, Heads, Zenon DEF Request
  <2>3. store[Head(requests).at] \in Item
    BY <2>2, Zenon DEF TypeOK
  <2>4. [text |-> Head(requests).text, login |-> Head(requests).login] \in Item
    BY <2>2, Zenon DEF Item
  <2>5. CASE NativeGet
    <3>1. Answer(Reply(Head(requests), TRUE, store[Head(requests).at]))
      BY <2>5, Zenon DEF NativeGet
    <3>2. store' \in [Field -> Item] /\ faults' \in 0 .. MaxFaults
      BY <2>5, Zenon DEF NativeGet, TypeOK
    <3> QED
      BY <2>1, <2>3, <3>1, <3>2, AnswerTypes, Zenon
  <2>6. CASE NativeSet
    <3>1. Answer(Reply(Head(requests), TRUE, store[Head(requests).at]))
      BY <2>6, Zenon DEF NativeSet
    <3>2. store' \in [Field -> Item] /\ faults' \in 0 .. MaxFaults
      BY <2>2, <2>4, <2>6, Zenon DEF NativeSet, TypeOK
    <3> QED
      BY <2>1, <2>3, <3>1, <3>2, AnswerTypes, Zenon
  <2>7. CASE NativeSetNull
    <3>1. Answer(Reply(Head(requests), FALSE, store[Head(requests).at]))
      BY <2>7, Zenon DEF NativeSetNull
    <3>2. store' \in [Field -> Item] /\ faults' \in 0 .. MaxFaults
      BY <2>7, Zenon DEF NativeSetNull, TypeOK
    <3> QED
      BY <2>1, <2>3, <3>1, <3>2, AnswerTypes, Zenon
  <2>8. CASE NativeFails
    <3>1. Answer(Reply(Head(requests), FALSE, store[Head(requests).at]))
      BY <2>8, Zenon DEF NativeFails
    <3>2. store' \in [Field -> Item] /\ faults' \in 0 .. MaxFaults
      BY <2>8, Constants DEF NativeFails, TypeOK
    <3> QED
      BY <2>1, <2>3, <3>1, <3>2, AnswerTypes, Zenon
  <2> QED
    BY <1>8, <2>5, <2>6, <2>7, <2>8, Zenon DEF Native
<1>9. CASE Resume
  <2>0. replies # <<>>
    BY <1>9, Zenon DEF Resume, GetDataResumes, SetDataResumes, StorageRejects
  <2>1. /\ Head(replies) \in Answers /\ Tail(replies) \in Seq(Answers)
        /\ replies' = Tail(replies)
    BY <1>9, <2>0, Heads, Zenon DEF Resume, GetDataResumes, SetDataResumes, StorageRejects
  <2> DEFINE r == Head(replies).request
  <2>2. /\ r.visit \in Visit /\ r.at \in Field /\ r.got \in Seq(Item)
        /\ r.login \in 0 .. MaxLogins /\ r.op \in {"get", "set"}
        /\ Head(replies).text \in Item
    BY <2>1, Zenon DEF Answers, Request
  <2>3. r.at < Age => r.at + 1 \in Field
    BY <2>2 DEF Field, Age
  <2>4. CASE GetDataResumes
    <3> DEFINE got == Append(r.got, Head(replies).text)
    <3>1. got \in Seq(Item)
      BY <2>2
    <3>2. CASE r.at < Age
      <4>1. requests' = Append(requests, GetItem(r.visit, r.at + 1, got)) /\ form' = form
        BY <2>4, <3>2, Zenon DEF GetDataResumes
      <4>2. GetItem(r.visit, r.at + 1, got) \in Request
        BY <2>2, <2>3, <3>1, <3>2, RequestTypes, Zenon
      <4>3. requests' \in Seq(Request)
        BY <4>1, <4>2 DEF TypeOK
      <4> QED
        BY <2>1, <2>4, <4>1, <4>3, Zenon DEF GetDataResumes, TypeOK, Answers
    <3>3. CASE ~(r.at < Age)
      <4>1. /\ requests' = requests
            /\ \/ form' = form
               \/ AnyStored(got) /\ form' = [form EXCEPT ![r.visit] = [f \in Field |-> got[f].text]]
        BY <2>4, <3>3, Zenon DEF GetDataResumes
      <4>2. form' \in [Visit -> [Field -> Value]]
        <5>1. r.op = "get"
          BY <2>4, Zenon DEF GetDataResumes
        <5>2. Len(r.got) = 3
          <6>1. Len(r.got) = r.at - 1
            BY <2>0, <5>1, FirstCall, Zenon DEF CallsOK, CallOK
          <6>2. r.at = 4
            BY <2>2, <3>3 DEF Field, Age
          <6>3. r.at - 1 = 3
            BY <6>2
          <6> QED
            BY <6>1, <6>3, Zenon
        <5>3. \A f \in Field : got[f] \in Item
          BY <2>2, <5>2 DEF Field
        <5>4. [f \in Field |-> got[f].text] \in [Field -> Value]
          BY <5>3, Zenon DEF Item
        <5> HIDE DEF got
        <5> QED
          BY <2>2, <4>1, <5>4, Zenon DEF TypeOK
      <4> QED
        BY <2>1, <2>4, <4>1, <4>2, Zenon DEF GetDataResumes, TypeOK, Answers
    <3> QED
      BY <3>2, <3>3, Zenon
  <2>5. CASE SetDataResumes
    <3>1. \/ requests' = requests
          \/ r.at < Age /\ requests' = Append(requests, SetItem(r.visit, r.at + 1, r.login))
      BY <2>5, Zenon DEF SetDataResumes
    <3>2. r.at < Age => SetItem(r.visit, r.at + 1, r.login) \in Request
      BY <2>2, <2>3, RequestTypes, Zenon
    <3>3. requests' \in Seq(Request)
      <4>1. CASE requests' = requests
        BY <4>1, Zenon DEF TypeOK
      <4>2. CASE requests' # requests
        <5>1. SetItem(r.visit, r.at + 1, r.login) \in Request
          BY <3>1, <3>2, <4>2, Zenon
        <5>2. requests' = Append(requests, SetItem(r.visit, r.at + 1, r.login))
          BY <3>1, <4>2, Zenon
        <5> QED
          BY <5>1, <5>2 DEF TypeOK
      <4> QED
        BY <4>1, <4>2, Zenon
    <3> QED
      BY <2>1, <2>5, <3>3, Zenon DEF SetDataResumes, TypeOK, Answers
  <2>6. CASE StorageRejects
    BY <2>1, <2>2, <2>6, Zenon DEF StorageRejects, TypeOK, Answers
  <2> QED
    BY <1>9, <2>4, <2>5, <2>6, Zenon DEF Resume
<1>10. CASE UNCHANGED vars
  BY <1>10, Zenon DEF vars, TypeOK
<1> QED
  BY <1>1, <1>2, <1>3, <1>4, <1>5, <1>6, <1>7, <1>8, <1>9, <1>10, Zenon DEF Next, User

-----------------------------------------------------------------------------
(* What the steps do to the queue of calls. *)

\* The i-th call after a step is the j-th call before it.
Keeps(i, j) ==
    /\ Call(i)' = Call(j)
    /\ Answered(i)' <=> Answered(j)
    /\ Alive(i)' <=> Alive(j)
    /\ Reads(i)' = Reads(j)

\* The i-th call after a step has just made request r.
Joins(i, r) ==
    /\ Call(i)' = r
    /\ ~Answered(i)'
    /\ Alive(i)'
    /\ Reads(i)' = r.got

\* The first m calls after a step were there before it, d places further back.
Shifted(m, d) ==
    \A i \in 1 .. m : i \in Queue' /\ i + d \in Queue /\ Keeps(i, i + d)

LEMMA KeepsFacts ==
    ASSUME NEW i \in Queue', NEW j \in Queue, Keeps(i, j)
    PROVE  /\ Call(i)' = Call(j) /\ Reads(i)' = Reads(j) /\ Base(i)' = Base(j)
           /\ (Getter(i)' <=> Getter(j)) /\ (Setter(i)' <=> Setter(j))
           /\ (HasRead(i)' <=> HasRead(j)) /\ (Answered(i)' <=> Answered(j))
           /\ \A f : Past(i, f)' <=> Past(j, f)
BY Zenon DEF Keeps, Base, Getter, Setter, HasRead, Past

LEMMA QueueSame ==
    ASSUME TypeOK, UNCHANGED <<requests, replies>>
    PROVE  \E m \in Nat : Queue' = 1 .. m /\ Queue = 1 .. m /\ Shifted(m, 0)
<1>1. PICK m \in Nat : m = Calls
  BY QueueTypes, Zenon
<1>2. Queue' = 1 .. m /\ Queue = 1 .. m
  BY <1>1, Zenon DEF Queue, Calls
<1>3. \A i \in 1 .. m : Keeps(i, i) /\ i + 0 = i
  BY DEF Keeps, Call, Answered, Alive, Reads
<1> QED
  BY <1>2, <1>3, Zenon DEF Shifted

LEMMA QueueEmpty ==
    ASSUME ProcessEnds
    PROVE  Queue' = {} /\ DOMAIN replies' = {}
BY DEF ProcessEnds, Queue, Calls

\* A call is made.
LEMMA QueueJoined ==
    ASSUME TypeOK, NEW r \in Request, requests' = Append(requests, r), replies' = replies
    PROVE  \E m \in Nat :
             /\ Queue = 1 .. m /\ Queue' = 1 .. m + 1
             /\ Shifted(m, 0) /\ Joins(m + 1, r)
<1>1. /\ Len(requests) \in Nat /\ Len(replies) \in Nat /\ Len(requests') = Len(requests) + 1
      /\ requests'[Len(requests) + 1] = r
      /\ \A i \in 1 .. Len(requests) : requests'[i] = requests[i]
  BY DEF TypeOK
<1>2. ASSUME NEW i \in Queue PROVE Keeps(i, i)
  <2>1. Call(i)' = Call(i)
    <3>1. CASE i <= Len(replies)
      BY <3>1, Zenon DEF Call
    <3>2. CASE ~(i <= Len(replies))
      <4>1. i - Len(replies) \in 1 .. Len(requests)
        BY <1>1, <3>2 DEF Queue, Calls
      <4> QED
        BY <1>1, <3>2, <4>1, Zenon DEF Call
    <3> QED
      BY <3>1, <3>2, Zenon
  <2> QED
    BY <2>1, Zenon DEF Keeps, Answered, Alive, Reads
<1>3. PICK m \in Nat : m = Calls
  BY <1>1 DEF Calls
<1>4. Queue = 1 .. m /\ Queue' = 1 .. m + 1
  BY <1>1, <1>3 DEF Queue, Calls
<1>5. ~(m + 1 <= Len(replies)) /\ m + 1 - Len(replies) = Len(requests) + 1
  BY <1>1, <1>3 DEF Calls
<1>6. requests'[m + 1 - Len(replies)] = r
  BY <1>1, <1>5, Zenon
<1>7. Joins(m + 1, r)
  BY <1>5, <1>6 DEF Joins, Call, Answered, Alive, Reads
<1>8. Shifted(m, 0)
  <2>1. \A i \in 1 .. m : i + 0 = i /\ i \in Queue /\ i \in Queue'
    BY <1>4
  <2> QED
    BY <1>2, <2>1, Zenon DEF Shifted
<1> QED
  BY <1>4, <1>7, <1>8, Zenon

\* A request is performed.
LEMMA QueueAnswered ==
    ASSUME TypeOK, requests # <<>>, NEW ok \in BOOLEAN, NEW x \in Item,
           Answer(Reply(Head(requests), ok, x))
    PROVE  \E n \in Queue :
             /\ n = Len(replies) + 1 /\ Queue' = Queue /\ Call(n) = Head(requests)
             /\ \A i \in Queue : i # n => Keeps(i, i)
             /\ ~Answered(n) /\ Alive(n) /\ Reads(n) = Call(n).got
             /\ Call(n)' = Call(n) /\ Answered(n)' /\ (Alive(n)' <=> ok)
             /\ Reads(n)' = Append(Call(n).got, x)
             /\ \A i \in Queue : i < n <=> Answered(i)
             /\ \A i \in DOMAIN replies' :
                  \/ i \in DOMAIN replies /\ replies'[i] = replies[i]
                  \/ replies'[i].text = x /\ replies'[i].ok = ok
<1> DEFINE p == Reply(Head(requests), ok, x)
<1>1. p.request = Head(requests) /\ p.ok = ok /\ p.text = x /\ p \in Answers
  BY Heads, Zenon DEF Reply, Answers
<1>2. requests' = Tail(requests) /\ replies' = Append(replies, p)
  BY Zenon DEF Answer
<1>3. requests \in Seq(Request) /\ replies \in Seq(Answers)
  BY Zenon DEF TypeOK, Answers
<1> HIDE DEF p
<1>4. /\ Len(requests) \in Nat \ {0} /\ Len(replies) \in Nat /\ Head(requests) = requests[1]
      /\ Len(requests') = Len(requests) - 1
      /\ \A i \in 1 .. Len(requests) - 1 : requests'[i] = requests[i + 1]
  BY <1>2, <1>3
<1>5. /\ Len(replies') = Len(replies) + 1 /\ replies'[Len(replies) + 1] = p
      /\ \A i \in 1 .. Len(replies) : replies'[i] = replies[i]
      /\ DOMAIN replies = 1 .. Len(replies) /\ DOMAIN replies' = 1 .. Len(replies) + 1
  BY <1>1, <1>2, <1>3
<1>6. PICK n \in Nat : n = Len(replies) + 1
  BY <1>4
<1>7. n \in Queue /\ Queue' = Queue
  BY <1>4, <1>5, <1>6 DEF Queue, Calls
<1>8. /\ ~(n <= Len(replies)) /\ n <= Len(replies') /\ n - Len(replies) = 1
      /\ replies'[n] = p
  BY <1>4, <1>5, <1>6
<1>9. /\ Call(n) = Head(requests) /\ ~Answered(n) /\ Alive(n) /\ Reads(n) = Call(n).got
      /\ Call(n)' = Call(n) /\ Answered(n)' /\ (Alive(n)' <=> ok)
      /\ Reads(n)' = Append(Call(n).got, x)
  BY <1>1, <1>4, <1>8, Zenon DEF Call, Answered, Alive, Reads
<1>10. ASSUME NEW i \in Queue, i # n PROVE Keeps(i, i)
  <2>1. CASE i <= Len(replies)
    <3>1. replies'[i] = replies[i] /\ i <= Len(replies')
      BY <1>4, <1>5, <2>1 DEF Queue
    <3> QED
      BY <2>1, <3>1, Zenon DEF Keeps, Call, Answered, Alive, Reads
  <2>2. CASE ~(i <= Len(replies))
    <3>1. /\ ~(i <= Len(replies')) /\ i - Len(replies') \in 1 .. Len(requests) - 1
          /\ i - Len(replies) = i - Len(replies') + 1
      BY <1>4, <1>5, <1>6, <1>10, <2>2 DEF Queue, Calls
    <3>2. requests'[i - Len(replies')] = requests[i - Len(replies)]
      BY <1>4, <3>1, Zenon
    <3> QED
      BY <2>2, <3>1, <3>2, Zenon DEF Keeps, Call, Answered, Alive, Reads
  <2> QED
    BY <2>1, <2>2, Zenon
<1>11. \A i \in Queue : i < n <=> Answered(i)
  BY <1>4, <1>6 DEF Queue, Answered
<1>12. \A i \in DOMAIN replies' :
         \/ i \in DOMAIN replies /\ replies'[i] = replies[i]
         \/ replies'[i].text = x /\ replies'[i].ok = ok
  <2>1. \A i \in DOMAIN replies' :
          (i \in DOMAIN replies /\ replies'[i] = replies[i]) \/ replies'[i] = p
    BY <1>4, <1>5
  <2> QED
    BY <1>1, <2>1, Zenon
<1> QED
  BY <1>6, <1>7, <1>9, <1>10, <1>11, <1>12, Zenon

\* A call is resumed and ends.
LEMMA QueueLeft ==
    ASSUME TypeOK, replies # <<>>, requests' = requests, replies' = Tail(replies)
    PROVE  /\ \E m \in Nat : Queue = 1 .. m + 1 /\ Queue' = 1 .. m /\ Shifted(m, 1)
           /\ \A i \in DOMAIN replies' : i + 1 \in DOMAIN replies /\ replies'[i] = replies[i + 1]
<1>1. requests \in Seq(Request) /\ replies \in Seq(Answers)
  BY Zenon DEF TypeOK, Answers
<1>2. /\ Len(requests) \in Nat /\ Len(replies) \in Nat \ {0}
      /\ Len(replies') = Len(replies) - 1
      /\ \A i \in 1 .. Len(replies) - 1 : replies'[i] = replies[i + 1]
      /\ DOMAIN replies = 1 .. Len(replies) /\ DOMAIN replies' = 1 .. Len(replies) - 1
  BY <1>1
<1>3. Queue' = 1 .. Calls - 1
  BY <1>2 DEF Queue, Calls
<1>4. ASSUME NEW i \in Queue' PROVE i + 1 \in Queue /\ Keeps(i, i + 1)
  <2>1. i \in Nat /\ i + 1 \in Queue /\ (i <= Len(replies') <=> i + 1 <= Len(replies))
        /\ i - Len(replies') = i + 1 - Len(replies)
    BY <1>2, <1>3 DEF Queue, Calls
  <2>2. i <= Len(replies') => replies'[i] = replies[i + 1]
    BY <1>2, <1>3
  <2>3. requests'[i - Len(replies')] = requests[i + 1 - Len(replies)]
    BY <2>1, Zenon
  <2>4. CASE i <= Len(replies')
    <3>1. i + 1 <= Len(replies) /\ replies'[i] = replies[i + 1]
      BY <2>1, <2>2, <2>4, Zenon
    <3> QED
      BY <2>1, <2>4, <3>1, Zenon DEF Keeps, Call, Answered, Alive, Reads
  <2>5. CASE ~(i <= Len(replies'))
    <3>1. ~(i + 1 <= Len(replies))
      BY <2>1, <2>5, Zenon
    <3>2. Call(i)' = Call(i + 1)
      <4>1. Call(i)' = requests'[i - Len(replies')]
        BY <2>5, Zenon DEF Call
      <4>2. Call(i + 1) = requests[i + 1 - Len(replies)]
        BY <2>1, <3>1 DEF Call
      <4> QED
        BY <2>3, <2>5, <4>1, <4>2, Zenon
    <3> QED
      BY <2>1, <2>5, <3>1, <3>2, Zenon DEF Keeps, Answered, Alive, Reads
  <2> QED
    BY <2>4, <2>5, Zenon
<1>5. PICK m \in Nat : m = Calls - 1
  BY <1>2 DEF Calls
<1>6. Queue = 1 .. m + 1 /\ Queue' = 1 .. m
  BY <1>2, <1>3, <1>5 DEF Queue, Calls
<1>7. Shifted(m, 1)
  BY <1>4, <1>6, Zenon DEF Shifted
<1> QED
  BY <1>2, <1>6, <1>7

\* A call is resumed and makes its next request.
LEMMA QueueRotated ==
    ASSUME TypeOK, replies # <<>>, NEW r \in Request,
           requests' = Append(requests, r), replies' = Tail(replies)
    PROVE  /\ \A i \in DOMAIN replies' : i + 1 \in DOMAIN replies /\ replies'[i] = replies[i + 1]
           /\ \E m \in Nat :
                /\ Queue = 1 .. m + 1 /\ Queue' = 1 .. m + 1
                /\ Shifted(m, 1) /\ Joins(m + 1, r)
<1>1. requests \in Seq(Request) /\ replies \in Seq(Answers)
  BY Zenon DEF TypeOK, Answers
<1>2. /\ Len(requests) \in Nat /\ Len(replies) \in Nat \ {0}
      /\ Len(replies') = Len(replies) - 1
      /\ \A i \in 1 .. Len(replies) - 1 : replies'[i] = replies[i + 1]
      /\ DOMAIN replies = 1 .. Len(replies) /\ DOMAIN replies' = 1 .. Len(replies) - 1
  BY <1>1
<1>3. /\ Len(requests') = Len(requests) + 1 /\ requests'[Len(requests) + 1] = r
      /\ \A i \in 1 .. Len(requests) : requests'[i] = requests[i]
  BY <1>1
<1>4. PICK n \in Nat : n = Calls
  BY <1>2 DEF Calls
<1>5. n \in Queue /\ Queue' = 1 .. n /\ Queue = 1 .. n
  BY <1>2, <1>3, <1>4 DEF Queue, Calls
<1>6. ~(n <= Len(replies')) /\ n - Len(replies') = Len(requests) + 1
  BY <1>2, <1>4 DEF Calls
<1>7. requests'[n - Len(replies')] = r
  BY <1>3, <1>6, Zenon
<1>8. Joins(n, r)
  BY <1>6, <1>7, Zenon DEF Joins, Call, Answered, Alive, Reads
<1>9. ASSUME NEW i \in 1 .. n - 1 PROVE i + 1 \in Queue /\ Keeps(i, i + 1)
  <2>1. i \in Nat /\ i + 1 \in Queue /\ (i <= Len(replies') <=> i + 1 <= Len(replies))
        /\ i - Len(replies') = i + 1 - Len(replies)
    BY <1>2, <1>5
  <2>2. i <= Len(replies') => replies'[i] = replies[i + 1]
    BY <1>2
  <2>3. ~(i <= Len(replies')) => requests'[i - Len(replies')] = requests[i + 1 - Len(replies)]
    <3>1. ~(i <= Len(replies')) => i - Len(replies') \in 1 .. Len(requests)
      BY <1>2, <1>4 DEF Calls
    <3> QED
      BY <1>3, <2>1, <3>1, Zenon
  <2>4. CASE i <= Len(replies')
    <3>1. i + 1 <= Len(replies) /\ replies'[i] = replies[i + 1]
      BY <2>1, <2>2, <2>4, Zenon
    <3> QED
      BY <2>1, <2>4, <3>1, Zenon DEF Keeps, Call, Answered, Alive, Reads
  <2>5. CASE ~(i <= Len(replies'))
    <3>1. ~(i + 1 <= Len(replies))
      BY <2>1, <2>5, Zenon
    <3>2. Call(i)' = Call(i + 1)
      <4>1. Call(i)' = requests'[i - Len(replies')]
        BY <2>5, Zenon DEF Call
      <4>2. Call(i + 1) = requests[i + 1 - Len(replies)]
        BY <3>1 DEF Call
      <4> QED
        BY <2>3, <2>5, <4>1, <4>2, Zenon
    <3> QED
      BY <2>1, <2>5, <3>1, <3>2, Zenon DEF Keeps, Answered, Alive, Reads
  <2> QED
    BY <2>4, <2>5, Zenon
<1>10. PICK m \in Nat : n = m + 1
  BY <1>2, <1>4 DEF Calls
<1>11. Shifted(m, 1)
  BY <1>5, <1>9, <1>10 DEF Shifted
<1> QED
  BY <1>2, <1>5, <1>8, <1>10, <1>11

-----------------------------------------------------------------------------
(* Steps that leave storage alone: what was in order stays in order. *)

LEMMA CallTypes ==
    ASSUME TypeOK
    PROVE  /\ \A i \in Queue : /\ Call(i).at \in Field /\ Call(i).at \in Nat
                               /\ Call(i).login \in Nat /\ Call(i).op \in {"get", "set"}
                               /\ Call(i).got \in Seq(Item) /\ Call(i).visit \in Visit
           /\ \A f \in Field : store[f] \in Item /\ store[f].login \in Nat
           /\ \A x \in Item : x.login \in Nat
           /\ Len(validated) \in Nat
<1>1. \A r \in Request : /\ r.at \in Field /\ r.at \in Nat /\ r.login \in Nat
                         /\ r.op \in {"get", "set"} /\ r.got \in Seq(Item) /\ r.visit \in Visit
  <2>1. \A k \in 0 .. MaxLogins : k \in Nat
    BY Constants
  <2>2. \A f \in Field : f \in Nat
    BY DEF Field
  <2> QED
    BY <2>1, <2>2, Zenon DEF Request
<1>2. \A x \in Item : x.login \in Nat
  BY Constants DEF Item
<1>3. \A f \in Field : store[f] \in Item
  BY Zenon DEF TypeOK
<1>4. Len(validated) \in Nat
  BY DEF TypeOK
<1> QED
  BY <1>1, <1>2, <1>3, <1>4, QueueTypes, Zenon

LEMMA Appended ==
    ASSUME NEW S, NEW q \in Seq(S), NEW x \in S
    PROVE  /\ Append(q, x) \in Seq(S) /\ Len(Append(q, x)) = Len(q) + 1
           /\ DOMAIN Append(q, x) = 1 .. Len(q) + 1
           /\ Append(q, x)[Len(q) + 1] = x
           /\ \A n \in DOMAIN q : Append(q, x)[n] = q[n]
           /\ \A n \in DOMAIN Append(q, x) : n = Len(q) + 1 \/ n \in DOMAIN q
OBVIOUS

LEMMA ReadsTypes ==
    ASSUME TypeOK, CallsOK, NEW i \in Queue, Call(i).op = "get"
    PROVE  /\ Reads(i) \in Seq(Item)
           /\ \A n \in DOMAIN Reads(i) : Whole(Reads(i)[n]) /\ Reads(i)[n].login \in Nat
           /\ \A n \in Nat : n \in DOMAIN Reads(i) <=> n > 0 /\ Past(i, n)
           /\ HasRead(i) => 1 \in DOMAIN Reads(i) /\ Base(i) \in Nat
<1>1. /\ Call(i).got \in Seq(Item) /\ Len(Call(i).got) = Call(i).at - 1 /\ Call(i).at \in Nat
      /\ Call(i).at >= 1 /\ \A n \in DOMAIN Call(i).got : Whole(Call(i).got[n])
  BY CallTypes, SMTT(30) DEF CallsOK, CallOK, Field
<1>2. CASE Answered(i)
  <2>1. i \in 1 .. Len(replies) /\ i \in DOMAIN replies
    BY <1>2, QueueTypes DEF Answered, Queue, Calls
  <2> DEFINE x == replies[i].text
  <2>2. x \in Item /\ Whole(x)
    BY <2>1, QueueTypes, Zenon DEF CallsOK, Answers
  <2>3. Reads(i) = Append(Call(i).got, x)
    BY <1>2, Zenon DEF Reads
  <2> HIDE DEF x
  <2>4. Reads(i) \in Seq(Item) /\ Len(Reads(i)) = Call(i).at
    BY <1>1, <2>2, <2>3
  <2>5. \A n \in DOMAIN Reads(i) :
          Reads(i)[n] = x \/ (n \in DOMAIN Call(i).got /\ Reads(i)[n] = Call(i).got[n])
    <3> TAKE n \in DOMAIN Reads(i)
    <3>1. n = Len(Call(i).got) + 1 \/ n \in DOMAIN Call(i).got
      BY <1>1, <2>2, <2>3, Appended
    <3> QED
      BY <1>1, <2>2, <2>3, <3>1, Appended
  <2>6. \A n \in DOMAIN Reads(i) : Whole(Reads(i)[n])
    BY <1>1, <2>2, <2>5, Zenon
  <2>7. DOMAIN Reads(i) = 1 .. Call(i).at /\ \A n \in DOMAIN Reads(i) : Reads(i)[n] \in Item
    BY <2>4
  <2>8. \A n \in Nat : n \in DOMAIN Reads(i) <=> n > 0 /\ Past(i, n)
    BY <1>1, <1>2, <2>7 DEF Past
  <2>9. 1 \in DOMAIN Reads(i)
    BY <1>1, <2>7
  <2> QED
    BY <2>4, <2>6, <2>7, <2>8, <2>9, CallTypes, Zenon DEF Base
<1>3. CASE ~Answered(i)
  <2>1. Reads(i) = Call(i).got
    BY <1>3, Zenon DEF Reads
  <2>2. Reads(i) \in Seq(Item) /\ DOMAIN Reads(i) = 1 .. Call(i).at - 1
        /\ \A n \in DOMAIN Reads(i) : Reads(i)[n] \in Item
    BY <1>1, <2>1
  <2>3. \A n \in Nat : n \in DOMAIN Reads(i) <=> n > 0 /\ Past(i, n)
    BY <1>1, <1>3, <2>2 DEF Past
  <2>4. HasRead(i) => 1 \in DOMAIN Reads(i)
    BY <1>1, <1>3, <2>2 DEF HasRead
  <2> QED
    BY <1>1, <2>1, <2>2, <2>3, <2>4, CallTypes, Zenon DEF Base
<1> QED
  BY <1>2, <1>3, Zenon

LEMMA ShiftedFacts ==
    ASSUME NEW m \in Nat, NEW d \in {0, 1}, Shifted(m, d), NEW i \in 1 .. m
    PROVE  /\ i + d \in Queue /\ i \in Queue'
           /\ Call(i)' = Call(i + d) /\ Reads(i)' = Reads(i + d) /\ Base(i)' = Base(i + d)
           /\ (Getter(i)' <=> Getter(i + d)) /\ (Setter(i)' <=> Setter(i + d))
           /\ (HasRead(i)' <=> HasRead(i + d)) /\ (Answered(i)' <=> Answered(i + d))
           /\ \A f : Past(i, f)' <=> Past(i + d, f)
BY KeepsFacts, Zenon DEF Shifted

LEMMA WrittenKept ==
    ASSUME TypeOK, Written, NEW m \in Nat, NEW d \in {0, 1}, Shifted(m, d), store' = store
    PROVE  /\ \A i \in 1 .. m : Setter(i)' => SetOK(i)'
           /\ \A i, j \in 1 .. m : Setter(i)' /\ Setter(j)' /\ i < j => InOrder(i, j)'
<1>1. ASSUME NEW i \in 1 .. m, Setter(i)' PROVE SetOK(i)'
  <2>1. i + d \in Queue /\ Setter(i + d) /\ Call(i)' = Call(i + d)
        /\ \A f : Past(i, f)' <=> Past(i + d, f)
    BY <1>1, ShiftedFacts, Zenon
  <2>2. SetOK(i + d)
    BY <2>1, Zenon DEF Written
  <2> QED
    BY <2>1, <2>2, Zenon DEF SetOK
<1>2. ASSUME NEW i \in 1 .. m, NEW j \in 1 .. m, Setter(i)', Setter(j)', i < j
      PROVE  InOrder(i, j)'
  <2>1. /\ i + d \in Queue /\ Setter(i + d) /\ Call(i)' = Call(i + d)
        /\ j + d \in Queue /\ Setter(j + d) /\ Call(j)' = Call(j + d)
    BY <1>2, ShiftedFacts, Zenon
  <2>2. i + d < j + d
    BY <1>2
  <2>3. InOrder(i + d, j + d)
    BY <2>1, <2>2, Zenon DEF Written
  <2> QED
    BY <2>1, <2>3, Zenon DEF InOrder
<1> QED
  BY <1>1, <1>2, Zenon

\* m calls were there before; one more may have joined.
LEMMA WrittenFrom ==
    ASSUME TypeOK, Written, NEW m \in Nat, NEW d \in {0, 1}, Shifted(m, d), store' = store,
           \/ Queue' = 1 .. m
           \/ /\ Queue' = 1 .. m + 1
              /\ Setter(m + 1)' =>
                   SetOK(m + 1)' /\ \A i \in 1 .. m : Setter(i)' => InOrder(i, m + 1)'
    PROVE  Written'
<1>1. /\ \A i \in 1 .. m : Setter(i)' => SetOK(i)'
      /\ \A i, j \in 1 .. m : Setter(i)' /\ Setter(j)' /\ i < j => InOrder(i, j)'
  BY WrittenKept, Zenon
<1>2. (\A f, g \in Field : f < g => store[g].login <= store[f].login)'
  BY Zenon DEF Written
<1>3. CASE Queue' = 1 .. m
  BY <1>1, <1>2, <1>3, Zenon DEF Written
<1>4. CASE /\ Queue' = 1 .. m + 1
           /\ Setter(m + 1)' =>
                SetOK(m + 1)' /\ \A i \in 1 .. m : Setter(i)' => InOrder(i, m + 1)'
  <2>1. \A i \in Queue' : i \in 1 .. m \/ i = m + 1
    BY <1>4
  <2>2. \A i \in Queue' : Setter(i)' => SetOK(i)'
    BY <1>1, <1>4, <2>1, Zenon
  <2>3. \A i, j \in Queue' : i < j => i \in 1 .. m
    BY <1>4
  <2>4. \A i, j \in Queue' : Setter(i)' /\ Setter(j)' /\ i < j => InOrder(i, j)'
    BY <1>1, <1>4, <2>1, <2>3, Zenon
  <2> QED
    BY <1>2, <2>2, <2>4, Zenon DEF Written
<1> QED
  BY <1>3, <1>4, Zenon

LEMMA ReadKept ==
    ASSUME TypeOK, CallsOK, ReadEarlier, NEW m \in Nat, NEW d \in {0, 1}, Shifted(m, d), store' = store,
           Len(validated') \in Nat, Len(validated) <= Len(validated')
    PROVE  \A i \in 1 .. m : Getter(i)' /\ HasRead(i)' =>
             GetOK(i)' /\ \A j \in 1 .. m : Setter(j)' => StaysAhead(i, j)'
<1> SUFFICES ASSUME NEW i \in 1 .. m, Getter(i)', HasRead(i)'
             PROVE  GetOK(i)' /\ \A j \in 1 .. m : Setter(j)' => StaysAhead(i, j)'
  BY Zenon
<1>1. /\ i + d \in Queue /\ Getter(i + d) /\ HasRead(i + d) /\ Call(i)' = Call(i + d)
      /\ Reads(i)' = Reads(i + d) /\ Base(i)' = Base(i + d)
      /\ \A f : Past(i, f)' <=> Past(i + d, f)
  BY ShiftedFacts, Zenon
<1>2. GetOK(i + d) /\ \A j \in Queue : Setter(j) => StaysAhead(i + d, j)
  BY <1>1, Zenon DEF ReadEarlier
<1>3. Base(i)' <= Len(validated')
  <2>1. Base(i + d) \in Nat
    BY <1>1, ReadsTypes, Zenon DEF Getter
  <2>2. Base(i + d) <= Len(validated) /\ Len(validated) \in Nat
    BY <1>2, CallTypes, Zenon DEF GetOK
  <2> QED
    BY <1>1, <2>1, <2>2
<1>4. GetOK(i)'
  BY <1>1, <1>2, <1>3, Zenon DEF GetOK
<1>5. ASSUME NEW j \in 1 .. m, Setter(j)' PROVE StaysAhead(i, j)'
  <2>1. j + d \in Queue /\ Setter(j + d) /\ Call(j)' = Call(j + d)
    BY <1>5, ShiftedFacts, Zenon
  <2>2. j + d < i + d <=> j < i
    OBVIOUS
  <2>3. StaysAhead(i + d, j + d)
    BY <1>2, <2>1, Zenon
  <2> QED
    BY <1>1, <2>1, <2>2, <2>3, Zenon DEF StaysAhead
<1> QED
  BY <1>4, <1>5, Zenon

LEMMA ReadFrom ==
    ASSUME TypeOK, CallsOK, ReadEarlier, NEW m \in Nat, NEW d \in {0, 1}, Shifted(m, d),
           store' = store, Len(validated') \in Nat, Len(validated) <= Len(validated'),
           \/ Queue' = 1 .. m
           \/ /\ Queue' = 1 .. m + 1
              /\ Getter(m + 1)' /\ HasRead(m + 1)' =>
                   GetOK(m + 1)' /\ \A j \in 1 .. m : Setter(j)' => StaysAhead(m + 1, j)'
              /\ Setter(m + 1)' =>
                   \A i \in 1 .. m : Getter(i)' /\ HasRead(i)' => StaysAhead(i, m + 1)'
    PROVE  ReadEarlier'
<1>1. \A i \in 1 .. m : Getter(i)' /\ HasRead(i)' =>
        GetOK(i)' /\ \A j \in 1 .. m : Setter(j)' => StaysAhead(i, j)'
  BY ReadKept, Zenon
<1>2. CASE Queue' = 1 .. m
  BY <1>1, <1>2, Zenon DEF ReadEarlier
<1>3. CASE /\ Queue' = 1 .. m + 1
           /\ Getter(m + 1)' /\ HasRead(m + 1)' =>
                GetOK(m + 1)' /\ \A j \in 1 .. m : Setter(j)' => StaysAhead(m + 1, j)'
           /\ Setter(m + 1)' =>
                \A i \in 1 .. m : Getter(i)' /\ HasRead(i)' => StaysAhead(i, m + 1)'
  <2>1. \A i \in Queue' : i \in 1 .. m \/ i = m + 1
    BY <1>3
  <2>2. ~(Getter(m + 1)' /\ Setter(m + 1)')
    BY Zenon DEF Getter, Setter
  <2> QED
    BY <1>1, <1>3, <2>1, <2>2, Zenon DEF ReadEarlier
<1> QED
  BY <1>2, <1>3, Zenon

LEMMA LaterKept ==
    ASSUME ReadLater, NEW m \in Nat, NEW d \in {0, 1}, Shifted(m, d)
    PROVE  \A i \in 1 .. m : Getter(i)' /\ HasRead(i)' =>
             /\ \A n \in DOMAIN Reads(i)' : Reads(i)'[n].login = Base(i)'
             /\ \A j \in 1 .. m : Setter(j)' => StaysBehind(i, j)'
<1> SUFFICES ASSUME NEW i \in 1 .. m, Getter(i)', HasRead(i)'
             PROVE  /\ \A n \in DOMAIN Reads(i)' : Reads(i)'[n].login = Base(i)'
                    /\ \A j \in 1 .. m : Setter(j)' => StaysBehind(i, j)'
  BY Zenon
<1>1. /\ i + d \in Queue /\ Getter(i + d) /\ HasRead(i + d) /\ Call(i)' = Call(i + d)
      /\ Reads(i)' = Reads(i + d) /\ Base(i)' = Base(i + d)
  BY ShiftedFacts, Zenon
<1>2. /\ \A n \in DOMAIN Reads(i + d) : Reads(i + d)[n].login = Base(i + d)
      /\ \A j \in Queue : Setter(j) => StaysBehind(i + d, j)
  BY <1>1, Zenon DEF ReadLater
<1>3. ASSUME NEW j \in 1 .. m, Setter(j)' PROVE StaysBehind(i, j)'
  <2>1. j + d \in Queue /\ Setter(j + d) /\ Call(j)' = Call(j + d)
    BY <1>3, ShiftedFacts, Zenon
  <2>2. j + d < i + d <=> j < i
    OBVIOUS
  <2>3. StaysBehind(i + d, j + d)
    BY <1>2, <2>1, Zenon
  <2> QED
    BY <1>1, <2>1, <2>2, <2>3, Zenon DEF StaysBehind
<1> QED
  BY <1>1, <1>2, <1>3, Zenon

LEMMA LaterFrom ==
    ASSUME ReadLater, NEW m \in Nat, NEW d \in {0, 1}, Shifted(m, d),
           \/ Queue' = 1 .. m
           \/ /\ Queue' = 1 .. m + 1
              /\ Getter(m + 1)' /\ HasRead(m + 1)' =>
                   /\ \A n \in DOMAIN Reads(m + 1)' : Reads(m + 1)'[n].login = Base(m + 1)'
                   /\ \A j \in 1 .. m : Setter(j)' => StaysBehind(m + 1, j)'
              /\ Setter(m + 1)' =>
                   \A i \in 1 .. m : Getter(i)' /\ HasRead(i)' => StaysBehind(i, m + 1)'
    PROVE  ReadLater'
<1>1. \A i \in 1 .. m : Getter(i)' /\ HasRead(i)' =>
        /\ \A n \in DOMAIN Reads(i)' : Reads(i)'[n].login = Base(i)'
        /\ \A j \in 1 .. m : Setter(j)' => StaysBehind(i, j)'
  BY LaterKept, Zenon
<1>2. CASE Queue' = 1 .. m
  BY <1>1, <1>2, Zenon DEF ReadLater
<1>3. CASE /\ Queue' = 1 .. m + 1
           /\ Getter(m + 1)' /\ HasRead(m + 1)' =>
                /\ \A n \in DOMAIN Reads(m + 1)' : Reads(m + 1)'[n].login = Base(m + 1)'
                /\ \A j \in 1 .. m : Setter(j)' => StaysBehind(m + 1, j)'
           /\ Setter(m + 1)' =>
                \A i \in 1 .. m : Getter(i)' /\ HasRead(i)' => StaysBehind(i, m + 1)'
  <2>1. \A i \in Queue' : i \in 1 .. m \/ i = m + 1
    BY <1>3
  <2>2. ~(Getter(m + 1)' /\ Setter(m + 1)')
    BY Zenon DEF Getter, Setter
  <2> QED
    BY <1>1, <1>3, <2>1, <2>2, Zenon DEF ReadLater
<1> QED
  BY <1>2, <1>3, Zenon

\* The calls stay in shape, whatever the step.
LEMMA CallsFrom ==
    ASSUME TypeOK, CallsOK, NEW m \in Nat, NEW d \in {0, 1}, Shifted(m, d),
           Len(validated') \in Nat, Len(validated) <= Len(validated'),
           Queue' = 1 .. m \/ (Queue' = 1 .. m + 1 /\ CallOK(Call(m + 1))')
    PROVE  \A i \in Queue' : CallOK(Call(i))'
<1>1. ASSUME NEW i \in 1 .. m PROVE CallOK(Call(i))'
  <2>1. i + d \in Queue /\ Call(i)' = Call(i + d)
    BY ShiftedFacts, Zenon
  <2>2. CallOK(Call(i + d)) /\ Call(i + d).login \in Nat /\ Len(validated) \in Nat
    BY <2>1, CallTypes, Zenon DEF CallsOK
  <2> QED
    BY <2>1, <2>2 DEF CallOK
<1>2. \A i \in Queue' : i \in 1 .. m \/ (i = m + 1 /\ CallOK(Call(m + 1))')
  OBVIOUS
<1> QED
  BY <1>1, <1>2, Zenon
=============================================================================
