----------------------------- MODULE HomeScreen -----------------------------
(***************************************************************************)
(* The login form of the home screen and the profile it keeps in           *)
(* AsyncStorage, over any number of visits to the screen.                  *)
(*                                                                         *)
(* A visit is one HomeScreen component.  Its constructor starts getData,   *)
(* which reads the four items one after the other and then fills the form. *)
(* Pressing Login validates the form, starts setData, which writes the     *)
(* four items one after the other, and replaces the screen without waiting *)
(* for it.  Each of these async functions reads this.state when it is      *)
(* resumed, and goes on after its component is unmounted.                  *)
(*                                                                         *)
(* AsyncStorage performs requests one at a time in request order and       *)
(* answers them in that order; one handler or promise callback runs at a   *)
(* time.  The score shown by the screen is not part of this module.        *)
(***************************************************************************)
EXTENDS Integers, Sequences

CONSTANTS
    Null,            \* what getItem returns for an item that is not there
    Empty,           \* the empty text
    Blank,           \* a text of white space
    Words,           \* texts that are neither blank nor numbers
    Numerals,        \* texts that JavaScript converts to a number, not blank
    Typed,           \* Typed[f]: the texts the user may leave in field f
    MaxVisits,       \* bound: HomeScreen components constructed
    MaxLogins,       \* bound: accepted presses of Login
    MaxFaults        \* bound: storage failures and process deaths

\* this.state.firstName, lastName, nickName and age, which is also the order
\* in which getData and setData go through the items of the same names.
Field == 1 .. 4
Age == 4
NameField == Field \ {Age}

Texts == {Empty, Blank} \cup Words \cup Numerals
Value == Texts \cup {Null}
Visit == 1 .. MaxVisits
Login == 1 .. MaxLogins

ASSUME HomeAssumption ==
    /\ Null \notin Texts
    /\ Empty # Blank
    /\ {Empty, Blank} \cap (Words \cup Numerals) = {}
    /\ Words \cap Numerals = {}
    /\ Typed \in [Field -> SUBSET Texts]
    /\ MaxVisits \in Nat \ {0}
    /\ MaxLogins \in Nat
    /\ MaxFaults \in Nat

VARIABLES
    visits,          \* components constructed so far; the last one is current
    mount,           \* where each component is in its life
    form,            \* the four texts of this.state of each component
    errors,          \* the fields of each component whose error flag is set
    store,           \* AsyncStorage: the text of each item, and who wrote it
    requests,        \* requests AsyncStorage has not performed
    replies,         \* answers JavaScript has not seen
    rejections,      \* async functions that ended in an unhandled rejection
    thrown,          \* whether a press of Login ended in an uncaught TypeError
    validated,       \* history: the form each accepted login was validated with
    faults           \* history: storage failures and process deaths so far

vars == <<visits, mount, form, errors, store, requests, replies, rejections,
          thrown, validated, faults>>

-----------------------------------------------------------------------------
(* Validation. *)

\* String.prototype.trim leaves nothing of these.
TrimsToNothing(v) == v \in {Empty, Blank}

\* isNaN converts its argument first, and a blank text converts to 0.
IsNaN(v) == v \in Words

\* The fields validate() flags.
Invalid(fields) ==
    {f \in NameField : TrimsToNothing(fields[f])}
      \cup (IF fields[Age] = Empty \/ IsNaN(fields[Age]) THEN {Age} ELSE {})

\* Reading .trim or .length of null throws, whatever the other fields hold.
Throws(fields) == \E f \in Field : fields[f] = Null

-----------------------------------------------------------------------------
(* Requests, each carrying the local state of the async function it is from. *)

GetItem(h, f, got) ==
    [op |-> "get", visit |-> h, at |-> f, got |-> got, text |-> Null, login |-> 0]

SetItem(h, f, k) ==
    [op |-> "set", visit |-> h, at |-> f, got |-> <<>>, text |-> form[h][f],
     login |-> k]

Reply(r, ok, text) == [request |-> r, ok |-> ok, text |-> text]

Mounted(h) == mount[h] \in {"focused", "leaving"}

\* What a navigation.replace does to the components that are mounted: the one
\* on top is kept below the new screen while the stack animates, one that was
\* already below is dropped.
Replaced(m) ==
    [h \in Visit |-> CASE m[h] = "focused" -> "leaving"
                       [] m[h] = "leaving" -> "unmounted"
                       [] OTHER -> m[h]]

InitialForm == [f \in Field |-> Empty]

-----------------------------------------------------------------------------
(* A fresh install, with the first home screen constructed. *)

Init ==
    /\ visits = 1
    /\ mount = [h \in Visit |-> IF h = 1 THEN "focused" ELSE "absent"]
    /\ form = [h \in Visit |-> InitialForm]
    /\ errors = [h \in Visit |-> {}]
    /\ store = [f \in Field |-> [text |-> Null, login |-> 0]]
    /\ requests = <<GetItem(1, 1, <<>>)>>
    /\ replies = <<>>
    /\ rejections = {}
    /\ thrown = FALSE
    /\ validated = <<>>
    /\ faults = 0

\* The app is started again, or a quiz replaces itself with a home screen:
\* the constructor calls getData, which runs up to its first await.
Construct ==
    /\ visits < MaxVisits
    /\ \A h \in Visit : mount[h] # "focused"
    /\ visits' = visits + 1
    /\ mount' = [Replaced(mount) EXCEPT ![visits + 1] = "focused"]
    /\ requests' = Append(requests, GetItem(visits + 1, 1, <<>>))
    /\ UNCHANGED <<form, errors, store, replies, rejections, thrown, validated,
                   faults>>

\* firstNameInput, lastNameInput, nickNameInput, ageInput.
Input(h, f, v) ==
    /\ Mounted(h)
    /\ form' = [form EXCEPT ![h][f] = v]
    /\ errors' = [errors EXCEPT ![h] = @ \ {f}]
    /\ UNCHANGED <<visits, mount, store, requests, replies, rejections, thrown,
                   validated, faults>>

\* openQuizScreen when validate() returns true.
LoginAccepted(h) ==
    /\ Mounted(h)
    /\ Len(validated) < MaxLogins
    /\ ~Throws(form[h])
    /\ Invalid(form[h]) = {}
    /\ requests' = Append(requests, SetItem(h, 1, Len(validated) + 1))
    /\ validated' = Append(validated, form[h])
    /\ mount' = Replaced(mount)
    /\ UNCHANGED <<visits, form, errors, store, replies, rejections, thrown, faults>>

\* openQuizScreen when validate() returns false.
LoginRefused(h) ==
    /\ Mounted(h)
    /\ ~Throws(form[h])
    /\ Invalid(form[h]) # {}
    /\ errors' = [errors EXCEPT ![h] = Invalid(form[h])]
    /\ UNCHANGED <<visits, mount, form, store, requests, replies, rejections,
                   thrown, validated, faults>>

\* The process is gone: what AsyncStorage holds survives, nothing else does.
ProcessEnds ==
    /\ mount' = [h \in Visit |-> IF mount[h] = "absent" THEN "absent"
                                                        ELSE "unmounted"]
    /\ requests' = <<>>
    /\ replies' = <<>>
    /\ UNCHANGED <<visits, form, errors, store, rejections, validated>>

\* openQuizScreen when validate() throws: an uncaught error of an event
\* handler ends a release build.
LoginThrows(h) ==
    /\ Mounted(h)
    /\ Throws(form[h])
    /\ thrown' = TRUE
    /\ ProcessEnds
    /\ UNCHANGED faults

\* The system or the user kills the process.
Kill ==
    /\ faults < MaxFaults
    /\ faults' = faults + 1
    /\ ProcessEnds
    /\ UNCHANGED thrown

\* The stack animation ends and the screen below is unmounted.
TransitionEnd(h) ==
    /\ mount[h] = "leaving"
    /\ mount' = [mount EXCEPT ![h] = "unmounted"]
    /\ UNCHANGED <<visits, form, errors, store, requests, replies, rejections,
                   thrown, validated, faults>>

-----------------------------------------------------------------------------
(* AsyncStorage. *)

\* The request at the head of the queue has been answered with reply p.
Answer(p) ==
    /\ requests' = Tail(requests)
    /\ replies' = Append(replies, p)
    /\ UNCHANGED <<visits, mount, form, errors, rejections, thrown, validated>>

NativeGet ==
    /\ requests # <<>>
    /\ LET r == Head(requests) IN
       /\ r.op = "get"
       /\ Answer(Reply(r, TRUE, store[r.at]))
    /\ UNCHANGED <<store, faults>>

NativeSet ==
    /\ requests # <<>>
    /\ LET r == Head(requests) IN
       /\ r.op = "set"
       /\ r.text # Null
       /\ store' = [store EXCEPT ![r.at] = [text |-> r.text, login |-> r.login]]
       /\ Answer(Reply(r, TRUE, store[r.at]))
    /\ UNCHANGED faults

\* Only a text can be stored.
NativeSetNull ==
    /\ requests # <<>>
    /\ LET r == Head(requests) IN
       /\ r.op = "set"
       /\ r.text = Null
       /\ Answer(Reply(r, FALSE, store[r.at]))
    /\ UNCHANGED <<store, faults>>

NativeFails ==
    /\ requests # <<>>
    /\ faults < MaxFaults
    /\ faults' = faults + 1
    /\ Answer(Reply(Head(requests), FALSE, store[Head(requests).at]))
    /\ UNCHANGED store

-----------------------------------------------------------------------------
(* The promise callbacks. *)

\* Mutant: the test is missing.
AlwaysFill(got) == TRUE

\* getData's test that something was stored at all.
AnyStored(got) == \E f \in Field : got[f].text # Null

\* Mutant: getData goes one item too far.
GetDataOneTooMany ==
    /\ replies # <<>>
    /\ LET p == Head(replies) IN
       /\ p.request.op = "get"
       /\ p.ok
       /\ p.request.at <= Age
       /\ requests' = Append(requests, GetItem(p.request.visit, p.request.at + 1,
                                               Append(p.request.got, p.text)))
    /\ replies' = Tail(replies)
    /\ UNCHANGED <<visits, mount, form, errors, store, rejections, thrown,
                   validated, faults>>

\* getData resumes.  After the last item it fills the form, whatever the user
\* has done to it meanwhile; setState on an unmounted component does nothing.
GetDataResumes ==
    /\ replies # <<>>
    /\ LET p == Head(replies)
           r == p.request
           got == Append(r.got, p.text)
       IN /\ r.op = "get"
          /\ p.ok
          /\ IF r.at < Age
             THEN /\ requests' = Append(requests, GetItem(r.visit, r.at + 1, got))
                  /\ UNCHANGED form
             ELSE /\ form' = IF AnyStored(got) /\ Mounted(r.visit)
                             THEN [form EXCEPT ![r.visit] =
                                       [f \in Field |-> got[f].text]]
                             ELSE form
                  /\ UNCHANGED requests
    /\ replies' = Tail(replies)
    /\ UNCHANGED <<visits, mount, errors, store, rejections, thrown, validated,
                   faults>>

\* Mutant: setData goes on to the next item after a failure.
SetDataIgnoresFailure ==
    /\ replies # <<>>
    /\ LET r == Head(replies).request IN
       /\ r.op = "set"
       /\ r.at < Age
       /\ requests' = Append(requests, SetItem(r.visit, r.at + 1, r.login))
    /\ replies' = Tail(replies)
    /\ UNCHANGED <<visits, mount, form, errors, store, rejections, thrown,
                   validated, faults>>

\* Mutant: the await between lastName and nickName is missing.
SetDataMissingAwait ==
    /\ replies # <<>>
    /\ LET r == Head(replies).request IN
       /\ r.op = "set"
       /\ Head(replies).ok
       /\ requests' = CASE r.at = 1 -> requests \o <<SetItem(r.visit, 2, r.login),
                                                   SetItem(r.visit, 3, r.login)>>
                       [] r.at = 3 -> Append(requests, SetItem(r.visit, 4, r.login))
                       [] OTHER -> requests
    /\ replies' = Tail(replies)
    /\ UNCHANGED <<visits, mount, form, errors, store, rejections, thrown,
                   validated, faults>>

\* Mutant: setData stops when its screen has gone.
SetDataWhileMounted ==
    /\ replies # <<>>
    /\ LET r == Head(replies).request IN
       /\ r.op = "set"
       /\ Head(replies).ok
       /\ requests' = IF r.at < Age /\ Mounted(r.visit)
                      THEN Append(requests, SetItem(r.visit, r.at + 1, r.login))
                      ELSE requests
    /\ replies' = Tail(replies)
    /\ UNCHANGED <<visits, mount, form, errors, store, rejections, thrown,
                   validated, faults>>

\* Mutant: setData writes an item again when that has failed.
SetDataRetries ==
    /\ replies # <<>>
    /\ LET r == Head(replies).request IN
       /\ r.op = "set"
       /\ requests' = CASE ~Head(replies).ok ->
                             Append(requests, SetItem(r.visit, r.at, r.login))
                       [] Head(replies).ok /\ r.at < Age ->
                             Append(requests, SetItem(r.visit, r.at + 1, r.login))
                       [] OTHER -> requests
    /\ replies' = Tail(replies)
    /\ UNCHANGED <<visits, mount, form, errors, store, rejections, thrown,
                   validated, faults>>

\* setData resumes, and reads the next text from this.state only now.
SetDataResumes ==
    /\ replies # <<>>
    /\ LET r == Head(replies).request
       IN /\ r.op = "set"
          /\ Head(replies).ok
          /\ requests' = IF r.at < Age
                         THEN Append(requests, SetItem(r.visit, r.at + 1, r.login))
                         ELSE requests
    /\ replies' = Tail(replies)
    /\ UNCHANGED <<visits, mount, form, errors, store, rejections, thrown,
                   validated, faults>>

\* Either function resumes in its catch block, which calls Alert.alert.  The
\* module does not import Alert, so the block itself throws and the promise,
\* which nobody handles, is rejected.
StorageRejects ==
    /\ replies # <<>>
    /\ ~Head(replies).ok
    /\ rejections' = rejections \cup {Head(replies).request.op}
    /\ replies' = Tail(replies)
    /\ UNCHANGED <<visits, mount, form, errors, store, requests, thrown,
                   validated, faults>>

-----------------------------------------------------------------------------
User ==
    \E h \in Visit :
        \/ \E f \in Field : \E v \in Typed[f] : Input(h, f, v)
        \/ LoginAccepted(h)
        \/ LoginRefused(h)
        \/ LoginThrows(h)

Native == NativeGet \/ NativeSet \/ NativeSetNull \/ NativeFails

Resume == GetDataResumes \/ SetDataResumes \/ StorageRejects

Next ==
    \/ User
    \/ Native
    \/ Resume
    \/ Construct
    \/ Kill
    \/ \E h \in Visit : TransitionEnd(h)

\* AsyncStorage and the JavaScript event loop keep running while the process
\* lives; nothing is assumed of the user, of quizzes or of restarts.
Fairness == WF_vars(Native) /\ WF_vars(Resume)

Spec == Init /\ [][Next]_vars

FairSpec == Spec /\ Fairness
-----------------------------------------------------------------------------
(* Properties. *)

Item == [text : Value, login : 0 .. MaxLogins]

Request ==
    [op : {"get", "set"}, visit : Visit, at : Field, got : Seq(Item),
     text : Value, login : 0 .. MaxLogins]

\* Every variable keeps its type.
TypeOK ==
    /\ visits \in Visit
    /\ mount \in [Visit -> {"absent", "focused", "leaving", "unmounted"}]
    /\ form \in [Visit -> [Field -> Value]]
    /\ errors \in [Visit -> SUBSET Field]
    /\ store \in [Field -> Item]
    /\ requests \in Seq(Request)
    /\ replies \in Seq([request : Request, ok : BOOLEAN, text : Item])
    /\ rejections \in SUBSET {"get", "set"}
    /\ thrown \in BOOLEAN
    /\ validated \in Seq([Field -> Value])
    /\ faults \in 0 .. MaxFaults

\* Whatever dies or fails in the middle of setData, an item that is in storage
\* has all the items before it in storage too.
StoredPrefix ==
    \A f, g \in Field :
        f < g /\ store[g].text # Null => store[f].text # Null

\* What the getData calls in flight have read so far.
ReadSoFar ==
    {requests[i].got : i \in {j \in DOMAIN requests : requests[j].op = "get"}}
      \cup
    {Append(replies[i].request.got, replies[i].text) :
        i \in {j \in DOMAIN replies : replies[j].request.op = "get"}}

\* While nothing fails, getData never overtakes a setData that is still
\* writing, nor is overtaken by one: the items it reads were written by one
\* and the same login.
ReadsOneLogin ==
    faults = 0 =>
        \A got \in ReadSoFar : \A i, j \in DOMAIN got : got[i].login = got[j].login

\* getData puts null into the form for an item that is missing, but never into
\* firstName: the first item it reads is missing only if all are, and then
\* getData leaves the form alone.
FirstNameNeverNull == \A h \in Visit : form[h][1] # Null

\* validate() can only throw after a storage failure or the death of the
\* process left a profile half written.
ThrowNeedsFault == thrown => faults > 0

\* Nobody waits for setData, so the writes of several logins mix with each
\* other and with failures: still no write ever replaces an item of a later
\* login by one of an earlier login.
NewestLoginWins == [][\A f \in Field : store'[f].login >= store[f].login]_vars

\* While nothing fails, an accepted login is eventually in storage as a whole,
\* although nobody waits for setData and its screen is gone.
LoginIsSaved ==
    \A k \in Login :
        Len(validated) >= k ~> faults > 0 \/ \A f \in Field : store[f].login >= k

\* The state it leads to: once no setData call is under way any more, and nothing has
\* failed, all four items are of the last login, whatever the calls of several logins
\* did to each other.
SettledIsSaved ==
    /\ faults = 0
    /\ \A i \in DOMAIN requests : requests[i].op = "get"
    /\ \A i \in DOMAIN replies : replies[i].request.op = "get"
    => \A f \in Field : store[f].login = Len(validated)

\* HomeScreen.js:109 "validates the form": pressing Login on any form gives a
\* verdict.
LoginNeverThrows == ~thrown

\* HomeScreen.js:74 "stores data in async storage": what a login stores is the
\* form it was validated with.
StoresWhatWasValidated ==
    \A f \in Field :
        store[f].login > 0 => store[f].text = validated[store[f].login][f]
=============================================================================
