--------------------------- MODULE EventsAPIProofs ---------------------------
(***************************************************************************)
(* Proofs about EventsAPI: all answers for a key agree, it implements the  *)
(* intake, and its paged lists miss nothing, for any number of clients,    *)
(* keys, rows and readers.                                                 *)
(***************************************************************************)
EXTENDS EventsAPI, FiniteSetTheorems, WellFoundedInduction, TLAPS

USE DEF MayPost, Become, tableVars

\* An event answered for is the one row with its key.  That no two rows share a
\* key is what makes this inductive.
KeysUnique == \A e, f \in Event : Exists(e) /\ keys[e] = keys[f] => e = f

\* A request that is creating an event has an id that is nobody else's.
IdsUnused ==
    \A c \in Client : posts[c].at = "creating" =>
        /\ ~Exists(posts[c].event)
        /\ \A d \in Client : posts[d].at = "creating" /\ posts[d].event = posts[c].event => c = d

TableOK ==
    /\ keys \in [Event -> {{}} \cup {{k} : k \in Key}]
    /\ status \in [Event -> Status]
    /\ updates \in [Event -> Nat]
PostsOK == posts \in [Client -> Post]

IInv == TableOK /\ PostsOK /\ KeysUnique /\ IdsUnused /\ AnswersAgree

LEMMA PostTypes ==
    ASSUME NEW p \in Post
    PROVE  /\ p.at \in {"creating", "answered"} =>
                 /\ p.key \in Key /\ p.event \in Event
                 /\ p = [at |-> p.at, key |-> p.key, event |-> p.event]
           /\ p.at = "failed" => p.key \in Key
           /\ p.at \in {"idle", "creating", "answered", "failed"}
BY DEF Post, NoPost

\* NOW() keeps the number of later updates a number.
LEMMA TouchType ==
    ASSUME updates \in [Event -> Nat], NEW e \in Event, Touch(e)
    PROVE  updates' \in [Event -> Nat]
BY DEF Touch

\* What an insert of an unused id does to the table.
LEMMA InsertKeeps ==
    ASSUME TableOK, KeysUnique, NEW e \in Event, NEW k \in Key, ~Exists(e), Insert(e, k)
    PROVE  /\ TableOK' /\ KeysUnique'
           /\ Keyed(k) = {} /\ Keyed(k)' = {e}
           /\ \A l \in Key : l # k => Keyed(l)' = Keyed(l)
           /\ \A f \in Event : Exists(f)' <=> Exists(f) \/ f = e
<1>1. keys' = [keys EXCEPT ![e] = {k}] /\ Keyed(k) = {}
    BY DEF Insert, UniqueHolds
<1>2. status' \in [Event -> Status]
    BY StatusIsKnown DEF Insert, TableOK
<1>3. updates' \in [Event -> Nat]
    BY TouchType DEF Insert, TableOK
<1>4. keys' \in [Event -> {{}} \cup {{l} : l \in Key}]
    BY <1>1 DEF TableOK
<1>5. \A f \in Event : keys'[f] = IF f = e THEN {k} ELSE keys[f]
    BY <1>1 DEF TableOK
<1>6. KeysUnique'
    BY <1>1, <1>5 DEF KeysUnique, Exists, Keyed
<1>7. /\ Keyed(k)' = {e}
      /\ \A l \in Key : l # k => Keyed(l)' = Keyed(l)
    BY <1>1, <1>5 DEF Keyed, Exists
<1>8. \A f \in Event : Exists(f)' <=> Exists(f) \/ f = e
    BY <1>5 DEF Exists
<1> QED BY <1>1, <1>2, <1>3, <1>4, <1>6, <1>7, <1>8 DEF TableOK

\* Steps that leave the table and the requests alone, or only set a status.
LEMMA TableSteps ==
    ASSUME IInv, NEW e \in Event, NEW s \in Status,
           SetStatus(e, s) \/ UNCHANGED <<keys, status, updates, posts>>
    PROVE  IInv'
<1>1. UNCHANGED <<keys, posts>>
    BY DEF SetStatus
<1>2. TableOK'
  <2>1. CASE SetStatus(e, s)
    <3>1. updates' \in [Event -> Nat]
        BY <2>1, TouchType DEF SetStatus, IInv, TableOK
    <3> QED BY <1>1, <2>1, <3>1 DEF SetStatus, IInv, TableOK
  <2>2. CASE UNCHANGED <<keys, status, updates, posts>>
      BY <2>2 DEF IInv, TableOK
  <2> QED BY <2>1, <2>2
<1>3. PostsOK' /\ KeysUnique' /\ IdsUnused' /\ AnswersAgree'
    BY <1>1 DEF IInv, PostsOK, KeysUnique, IdsUnused, AnswersAgree, Exists, Keyed
<1> QED BY <1>2, <1>3 DEF IInv

LEMMA FindKeeps ==
    ASSUME IInv, NEW c \in Client, NEW k \in Key,
           FindEvent(c, k) \/ DrawId(c, k) \/ FindFails(c, k)
    PROVE  IInv'
<1>1. UNCHANGED <<keys, status, updates>>
    BY DEF FindEvent, DrawId, FindFails
<1>2. TableOK' /\ KeysUnique'
    BY <1>1 DEF IInv, TableOK, KeysUnique, Exists
<1>3. CASE FindEvent(c, k)
  <2>1. PICK e \in Keyed(k) : posts' = [posts EXCEPT ![c] = [at |-> "answered", key |-> k, event |-> e]]
      BY <1>3 DEF FindEvent
  <2>2. PICK p : p = [at |-> "answered", key |-> k, event |-> e]
      OBVIOUS
  <2>3. p \in Post /\ p.at = "answered" /\ p.key = k /\ p.event = e
      BY <2>1, <2>2 DEF Post, Keyed
  <2>4. Keyed(k) = {e}
      BY <2>1 DEF IInv, KeysUnique, Keyed, Exists
  <2>5. \A d \in Client : posts'[d] = IF d = c THEN p ELSE posts[d]
      BY <2>1, <2>2 DEF IInv, PostsOK
  <2>6. PostsOK'
      BY <2>1, <2>2, <2>3 DEF IInv, PostsOK
  <2>7. AnswersAgree'
      BY <1>1, <2>3, <2>4, <2>5 DEF IInv, AnswersAgree, Keyed
  <2>8. IdsUnused'
      BY <1>1, <2>3, <2>5 DEF IInv, IdsUnused, Exists
  <2> QED BY <1>2, <2>6, <2>7, <2>8 DEF IInv
<1>4. CASE DrawId(c, k)
  <2>1. PICK e \in Event :
            /\ ~Exists(e)
            /\ \A d \in Client : posts[d].at = "creating" => posts[d].event # e
            /\ posts' = [posts EXCEPT ![c] = [at |-> "creating", key |-> k, event |-> e]]
      BY <1>4 DEF DrawId
  <2>2. PICK p : p = [at |-> "creating", key |-> k, event |-> e]
      OBVIOUS
  <2>3. p \in Post /\ p.at = "creating" /\ p.key = k /\ p.event = e
      BY <2>2 DEF Post
  <2>4. \A d \in Client : posts'[d] = IF d = c THEN p ELSE posts[d]
      BY <2>1, <2>2 DEF IInv, PostsOK
  <2>5. PostsOK'
      BY <2>1, <2>2, <2>3 DEF IInv, PostsOK
  <2>6. AnswersAgree'
      BY <1>1, <2>3, <2>4 DEF IInv, AnswersAgree, Keyed
  <2>7. IdsUnused'
      BY <1>1, <2>1, <2>3, <2>4 DEF IInv, IdsUnused, Exists
  <2> QED BY <1>2, <2>5, <2>6, <2>7 DEF IInv
<1>5. CASE FindFails(c, k)
  <2>1. PICK p : p = [at |-> "failed", key |-> k] /\ posts' = [posts EXCEPT ![c] = p]
      BY <1>5 DEF FindFails
  <2>2. p \in Post /\ p.at = "failed"
      BY <2>1 DEF Post
  <2>3. \A d \in Client : posts'[d] = IF d = c THEN p ELSE posts[d]
      BY <2>1 DEF IInv, PostsOK
  <2>4. PostsOK'
      BY <2>1, <2>2 DEF IInv, PostsOK
  <2>5. AnswersAgree' /\ IdsUnused'
      BY <1>1, <2>2, <2>3 DEF IInv, AnswersAgree, IdsUnused, Exists, Keyed
  <2> QED BY <1>2, <2>4, <2>5 DEF IInv
<1> QED BY <1>3, <1>4, <1>5

\* A request that has drawn its id is about to insert a fresh row, and what it
\* is then told is true.
CreatesWith(c, e, k, p) ==
    /\ posts[c] = [at |-> "creating", key |-> k, event |-> e]
    /\ ~Exists(e)
    /\ posts' = [posts EXCEPT ![c] = p]
    /\ \/ p = [at |-> "answered", key |-> k, event |-> e] /\ Insert(e, k)
       \/ p = [at |-> "failed", key |-> k] /\ Insert(e, k)
       \/ p = [at |-> "failed", key |-> k] /\ UNCHANGED tableVars

LEMMA CreateSteps ==
    ASSUME PostsOK, IdsUnused, NEW c \in Client, InsertEvent(c) \/ PostFails(c)
    PROVE  \E e \in Event, k \in Key, p \in Post : CreatesWith(c, e, k, p)
<1>1. PICK q : q = posts[c]
    OBVIOUS
<1>2. /\ q.at = "creating" /\ q.key \in Key /\ q.event \in Event
      /\ q = [at |-> "creating", key |-> q.key, event |-> q.event]
    BY <1>1, PostTypes DEF InsertEvent, PostFails, PostsOK
<1>3. ~Exists(q.event)
    BY <1>1, <1>2 DEF IdsUnused
<1>4. [q EXCEPT !.at = "answered"] = [at |-> "answered", key |-> q.key, event |-> q.event]
    BY <1>2
<1>5. /\ [at |-> "answered", key |-> q.key, event |-> q.event] \in Post
      /\ [at |-> "failed", key |-> q.key] \in Post
    BY <1>2 DEF Post
<1>6. \E p \in Post : CreatesWith(c, q.event, q.key, p)
    BY <1>1, <1>2, <1>3, <1>4, <1>5 DEF InsertEvent, PostFails, CreatesWith
<1> QED BY <1>2, <1>6

LEMMA CreateKeeps ==
    ASSUME IInv, NEW c \in Client, InsertEvent(c) \/ PostFails(c)
    PROVE  IInv'
<1>1. PICK e \in Event, k \in Key, p \in Post : CreatesWith(c, e, k, p)
    BY CreateSteps DEF IInv
<1>2. /\ p.at \in {"answered", "failed"}
      /\ p.at = "answered" => p.key = k /\ p.event = e /\ Insert(e, k)
    BY <1>1 DEF CreatesWith
<1>3. \A d \in Client : posts'[d] = IF d = c THEN p ELSE posts[d]
    BY <1>1 DEF IInv, PostsOK, CreatesWith
<1>4. PostsOK'
    BY <1>1 DEF IInv, PostsOK, CreatesWith
<1>5. CASE Insert(e, k)
  <2>1. /\ TableOK' /\ KeysUnique'
        /\ Keyed(k) = {} /\ Keyed(k)' = {e}
        /\ \A l \in Key : l # k => Keyed(l)' = Keyed(l)
        /\ \A f \in Event : Exists(f)' <=> Exists(f) \/ f = e
      BY <1>1, <1>5, InsertKeeps DEF IInv, CreatesWith
  <2>2. AnswersAgree'
    <3>1. ASSUME NEW d \in Client, posts'[d].at = "answered"
          PROVE  \E o \in Post : posts'[d] = o /\ Keyed(o.key)' = {o.event}
      <4>1. PICK o \in Post : o = posts'[d]
          BY <1>4 DEF PostsOK
      <4>2. CASE d = c
          BY <1>2, <1>3, <2>1, <3>1, <4>1, <4>2
      <4>3. CASE d # c
        <5>1. o = posts[d] /\ o.key \in Key /\ o.at = "answered"
            BY <1>3, <3>1, <4>1, <4>3, PostTypes
        <5>2. Keyed(o.key) = {o.event}
            BY <5>1 DEF IInv, AnswersAgree
        <5> QED BY <2>1, <4>1, <5>1, <5>2
      <4> QED BY <4>2, <4>3
    <3> QED BY <3>1 DEF AnswersAgree, Keyed
  <2>3. IdsUnused'
    <3>1. \A d \in Client : posts'[d].at = "creating" => d # c /\ posts'[d] = posts[d]
        BY <1>2, <1>3
    <3>2. ASSUME NEW d \in Client, posts'[d].at = "creating"
          PROVE  keys'[posts'[d].event] = {}
      <4>1. PICK o \in Post : o = posts[d] /\ o = posts'[d] /\ d # c
          BY <3>1, <3>2 DEF IInv, PostsOK
      <4>2. o.event \in Event /\ o.at = "creating"
          BY <3>2, <4>1, PostTypes
      <4>3. o.event # e
          BY <1>1, <4>1, <4>2 DEF IInv, IdsUnused, CreatesWith
      <4>4. ~Exists(o.event)
          BY <4>1, <4>2 DEF IInv, IdsUnused
      <4> QED BY <2>1, <4>1, <4>2, <4>3, <4>4 DEF Exists
    <3> QED BY <3>1, <3>2 DEF IInv, IdsUnused, Exists
  <2> QED BY <1>4, <2>1, <2>2, <2>3 DEF IInv
<1>6. CASE UNCHANGED tableVars /\ p.at = "failed"
  <2>1. TableOK' /\ KeysUnique'
      BY <1>6 DEF IInv, TableOK, KeysUnique, Exists
  <2>2. AnswersAgree' /\ IdsUnused'
      BY <1>3, <1>6 DEF IInv, AnswersAgree, IdsUnused, Keyed, Exists
  <2> QED BY <1>4, <2>1, <2>2 DEF IInv
<1> QED BY <1>1, <1>5, <1>6 DEF CreatesWith

LEMMA IInvStep ==
    ASSUME IInv, [Next]_vars
    PROVE  IInv'
<1>1. PICK s : s \in Status
    BY StatusIsKnown
<1>2. CASE \E c \in Client : HandlePost(c) \/ PostFails(c) \/ \E k \in Key : FindFails(c, k)
    BY <1>2, FindKeeps, CreateKeeps DEF HandlePost
<1>3. CASE \E e \in Event, t \in Status : SetStatus(e, t)
    BY <1>3, TableSteps
<1>4. CASE UNCHANGED <<keys, status, updates, posts>>
  <2>1. TableOK' /\ PostsOK' /\ KeysUnique' /\ IdsUnused' /\ AnswersAgree'
      BY <1>4 DEF IInv, TableOK, PostsOK, KeysUnique, IdsUnused, AnswersAgree, Exists, Keyed
  <2> QED BY <2>1 DEF IInv
<1> QED BY <1>2, <1>3, <1>4 DEF Next, vars, ReadPage, StartListing

LEMMA IInvInit == Init => IInv
BY StatusIsKnown
   DEF Init, IInv, TableOK, PostsOK, Post, NoPost, KeysUnique, IdsUnused, AnswersAgree, Exists

LEMMA IInvAlways == Spec => []IInv
BY IInvInit, IInvStep, PTL DEF Spec

\* Whoever asks, however often, and whatever fails: a key names one event.
THEOREM KeysNameOneEvent == Spec => []AnswersAgree
<1>1. IInv => AnswersAgree
    BY DEF IInv
<1> QED BY <1>1, IInvAlways, PTL

\* The abstract answers change for the client that goes on, and for no other.
LEMMA AnswerChanges ==
    ASSUME PostsOK, NEW c \in Client, NEW p \in Post, posts' = [posts EXCEPT ![c] = p]
    PROVE  [d \in Client |-> AnswerOf(posts'[d])]
               = [[d \in Client |-> AnswerOf(posts[d])] EXCEPT ![c] = AnswerOf(p)]
<1>1. \A d \in Client : posts'[d] = IF d = c THEN p ELSE posts[d]
    BY DEF PostsOK
<1>2. \A d \in Client : AnswerOf(posts'[d]) = IF d = c THEN AnswerOf(p) ELSE AnswerOf(posts[d])
    BY <1>1
<1>3. PICK f : f = [d \in Client |-> AnswerOf(posts[d])]
    OBVIOUS
<1>4. [d \in Client |-> AnswerOf(posts'[d])] = [f EXCEPT ![c] = AnswerOf(p)]
    BY <1>2, <1>3
<1> QED BY <1>3, <1>4

LEMMA AnswersMade ==
    ASSUME NEW k, NEW e
    PROVE  /\ AnswerOf([at |-> "answered", key |-> k, event |-> e]) = [key |-> {k}, event |-> {e}]
           /\ AnswerOf([at |-> "creating", key |-> k, event |-> e]) = [key |-> {}, event |-> {}]
           /\ AnswerOf([at |-> "failed", key |-> k]) = [key |-> {}, event |-> {}]
BY DEF AnswerOf

\* The look-up, the insert and the UNIQUE constraint implement the intake.
THEOREM EventsAPIImplementsIntake == Spec => ImplementsIntake
<1> DEFINE B == [k \in Key |-> Keyed(k)]
           A == [c \in Client |-> AnswerOf(posts[c])]
<1>1. Init => I!Init
    BY DEF Init, I!Init, I!NoAnswer, NoPost, Keyed, AnswerOf
<1>2. ASSUME IInv, [Next]_vars
      PROVE  [I!Next]_<<B, A>>
  <2>0. /\ \A k \in Key : B[k] = Keyed(k)
        /\ \A k \in Key : B'[k] = Keyed(k)'
      OBVIOUS
  <2>1. CASE \E c \in Client, k \in Key : FindEvent(c, k)
    <3>1. PICK c \in Client, k \in Key, e \in Event :
              e \in Keyed(k) /\ posts' = [posts EXCEPT ![c] = [at |-> "answered", key |-> k, event |-> e]]
        BY <2>1 DEF FindEvent, Keyed
    <3>2. keys' = keys
        BY <2>1 DEF FindEvent
    <3>3. B' = B
        BY <3>2 DEF Keyed
    <3>4. [at |-> "answered", key |-> k, event |-> e] \in Post
        BY DEF Post
    <3>5. A' = [A EXCEPT ![c] = [key |-> {k}, event |-> {e}]]
      <4>1. A' = [A EXCEPT ![c] = AnswerOf([at |-> "answered", key |-> k, event |-> e])]
          BY <1>2, <3>1, <3>4, AnswerChanges DEF IInv
      <4> QED BY <4>1, AnswersMade
    <3>6. I!Repeat(c, k)
        BY <3>1, <3>3, <3>5 DEF I!Repeat, I!AnswerFor
    <3> QED BY <3>6 DEF I!Next
  <2>2. CASE \E c \in Client, k \in Key : DrawId(c, k)
    <3>1. PICK c \in Client, k \in Key, e \in Event :
              posts' = [posts EXCEPT ![c] = [at |-> "creating", key |-> k, event |-> e]]
        BY <2>2 DEF DrawId
    <3>2. keys' = keys
        BY <2>2 DEF DrawId
    <3>3. B' = B
        BY <3>2 DEF Keyed
    <3>4. [at |-> "creating", key |-> k, event |-> e] \in Post
        BY DEF Post
    <3>5. A' = [A EXCEPT ![c] = [key |-> {}, event |-> {}]]
      <4>1. A' = [A EXCEPT ![c] = AnswerOf([at |-> "creating", key |-> k, event |-> e])]
          BY <1>2, <3>1, <3>4, AnswerChanges DEF IInv
      <4> QED BY <4>1, AnswersMade
    <3>6. I!Forget(c)
        BY <3>3, <3>5 DEF I!Forget, I!NoAnswer
    <3> QED BY <3>6 DEF I!Next
  <2>3. CASE \E c \in Client : InsertEvent(c) \/ PostFails(c)
    <3>1. PICK c \in Client, e \in Event, k \in Key, p \in Post : CreatesWith(c, e, k, p)
        BY <1>2, <2>3, CreateSteps DEF IInv
    <3>2. A' = [A EXCEPT ![c] = AnswerOf(p)]
        BY <1>2, <3>1, AnswerChanges DEF IInv, CreatesWith
    <3>3. p = [at |-> "failed", key |-> k] => A' = A
      <4>1. A[c] = [key |-> {}, event |-> {}]
        <5>1. A[c] = AnswerOf(posts[c]) /\ posts[c] = [at |-> "creating", key |-> k, event |-> e]
            BY <3>1 DEF CreatesWith
        <5>2. AnswerOf([at |-> "creating", key |-> k, event |-> e]) = [key |-> {}, event |-> {}]
            BY AnswersMade
        <5> HIDE DEF A
        <5> QED BY <5>1, <5>2
      <4>2. [A EXCEPT ![c] = A[c]] = A
          OBVIOUS
      <4>3. p = [at |-> "failed", key |-> k] => AnswerOf(p) = A[c]
          BY <4>1, AnswersMade
      <4> HIDE DEF A
      <4> QED BY <3>2, <4>2, <4>3
    <3>4. p = [at |-> "answered", key |-> k, event |-> e]
              => A' = [A EXCEPT ![c] = [key |-> {k}, event |-> {e}]]
        BY <3>2, AnswersMade
    <3>5. CASE Insert(e, k)
      <4>1. /\ Keyed(k) = {} /\ Keyed(k)' = {e}
            /\ \A l \in Key : l # k => Keyed(l)' = Keyed(l)
          BY <1>2, <3>1, <3>5, InsertKeeps DEF IInv, CreatesWith
      <4>2. B' = [B EXCEPT ![k] = {e}]
          BY <4>1
      <4>3. \A l \in Key : e \notin B[l]
          BY <3>1 DEF CreatesWith, Exists, Keyed
      <4>4. B[k] = {}
          BY <4>1
      <4>5. UNCHANGED A \/ \E d \in Client : A' = [A EXCEPT ![d] = [key |-> {k}, event |-> {e}]]
          BY <3>1, <3>3, <3>4 DEF CreatesWith
      <4>6. I!Bind(k, e)
          BY <4>2, <4>3, <4>4, <4>5 DEF I!Bind, I!AnswerFor
      <4> QED BY <4>6 DEF I!Next
    <3>6. CASE p = [at |-> "failed", key |-> k] /\ UNCHANGED tableVars
      <4>1. B' = B
          BY <3>6 DEF Keyed
      <4> QED BY <3>3, <3>6, <4>1
    <3> QED BY <3>1, <3>5, <3>6 DEF CreatesWith
  <2>4. CASE \E c \in Client, k \in Key : FindFails(c, k)
    <3>1. PICK c \in Client, k \in Key : posts' = [posts EXCEPT ![c] = [at |-> "failed", key |-> k]]
        BY <2>4 DEF FindFails
    <3>2. keys' = keys
        BY <2>4 DEF FindFails
    <3>3. B' = B
        BY <3>2 DEF Keyed
    <3>4. [at |-> "failed", key |-> k] \in Post
        BY DEF Post
    <3>5. A' = [A EXCEPT ![c] = [key |-> {}, event |-> {}]]
      <4>1. A' = [A EXCEPT ![c] = AnswerOf([at |-> "failed", key |-> k])]
          BY <1>2, <3>1, <3>4, AnswerChanges DEF IInv
      <4> QED BY <4>1, AnswersMade
    <3>6. I!Forget(c)
        BY <3>3, <3>5 DEF I!Forget, I!NoAnswer
    <3> QED BY <3>6 DEF I!Next
  <2>5. CASE UNCHANGED <<keys, posts>>
    <3>1. A' = A
        BY <2>5
    <3>2. B' = B
        BY <2>5 DEF Keyed
    <3> QED BY <3>1, <3>2
  <2> QED BY <1>2, <2>1, <2>2, <2>3, <2>4, <2>5
          DEF Next, vars, HandlePost, ReadPage, StartListing, SetStatus
<1> QED BY <1>1, <1>2, IInvAlways, PTL DEF Spec, ImplementsIntake, I!Spec
-----------------------------------------------------------------------------
(***************************************************************************)
(* The pages of a list ordered by id.                                      *)
(***************************************************************************)
Rows == {e \in Event : Exists(e)}
RowsFinite == IsFiniteSet(Rows)

ListingsOK == listings \in [Reader -> Listing]

\* A row that has matched since the first page still matches, and has been shown
\* or lies behind the cursor.
NotMissed(l) ==
    l.at = "reading" /\ l.query # "dead letters" =>
        \A e \in l.steady : Matches(e, l.query) /\ (e \in l.shown \/ Before(e, l.before))
NoneMissed == \A r \in Reader : NotMissed(listings[r])

\* PagesComplete, of one reader.
Complete(l) == l.at = "read" /\ l.query # "dead letters" => l.steady \subseteq l.shown
AllComplete == \A r \in Reader : Complete(listings[r])

LInv == RowsFinite /\ ListingsOK /\ NoneMissed /\ AllComplete

LEMMA ListingTypes ==
    ASSUME NEW l \in Listing
    PROVE  /\ l.at \in {"idle", "reading", "read"}
           /\ l.at # "idle" =>
                 /\ l.query \in Query /\ l.before \in Event \cup {0}
                 /\ l.shown \in SUBSET Event /\ l.steady \in SUBSET Event
                 /\ l = [at |-> l.at, query |-> l.query, before |-> l.before,
                         shown |-> l.shown, steady |-> l.steady]
BY DEF Listing, NoListing

\* What has few rows above it is above what has not.
LEMMA FewerAbove ==
    ASSUME NEW M, IsFiniteSet(M), M \subseteq Int, NEW n \in Nat, NEW e \in M, NEW p \in M,
           ~(Cardinality({g \in M : g > e}) < n), Cardinality({g \in M : g > p}) < n
    PROVE  e < p
<1> SUFFICES ASSUME ~(e < p) PROVE FALSE
    OBVIOUS
<1>1. PICK A, B : A = {g \in M : g > e} /\ B = {g \in M : g > p}
    OBVIOUS
<1>2. A \in SUBSET B /\ B \in SUBSET M
  <2>1. \A g \in M : g \in Int /\ (g > e => g > p)
      OBVIOUS
  <2> QED BY <1>1, <2>1
<1>3. IsFiniteSet(B) /\ Cardinality(A) <= Cardinality(B)
    BY <1>2, FS_Subset
<1>4. Cardinality(A) \in Nat /\ Cardinality(B) \in Nat
    BY <1>2, <1>3, FS_Subset, FS_CardinalityType
<1> QED BY <1>1, <1>3, <1>4

\* When fewer than n elements have fewer than n above them, all have.
LEMMA FewAbove ==
    ASSUME NEW M, IsFiniteSet(M), M \subseteq Int, NEW n \in Nat,
           NEW P, P = {f \in M : Cardinality({g \in M : g > f}) < n}, Cardinality(P) < n
    PROVE  M \subseteq P
<1> DEFINE U(f) == {g \in M : g > f}
           Above == {U(f) : f \in M \ P}
<1> SUFFICES ASSUME M \ P # {} PROVE FALSE
    OBVIOUS
<1>1. IsWellFoundedOn(StrictSubsetOrdering(M), FiniteSubsetsOf(M))
    BY FS_StrictSubsetOrderingWellFounded
<1>2. \A T \in SUBSET M : IsFiniteSet(T) /\ Cardinality(T) \in Nat
    BY FS_Subset, FS_CardinalityType
<1>3. Above \subseteq FiniteSubsetsOf(M) /\ Above # {}
  <2>1. \A f : U(f) \in SUBSET M
      OBVIOUS
  <2> HIDE DEF U
  <2> QED BY <1>2, <2>1 DEF FiniteSubsetsOf
<1>4. PICK A \in Above : \A T \in Above : ~(<<T, A>> \in StrictSubsetOrdering(M))
  <2> HIDE DEF Above
  <2> QED BY <1>1, <1>3, WFMin
<1>5. PICK f \in M \ P : A = U(f)
    OBVIOUS
<1>6. A \subseteq P
  <2> SUFFICES ASSUME NEW g \in A, g \notin P PROVE FALSE
      OBVIOUS
  <2>1. g \in M /\ g > f
      BY <1>5
  <2>2. U(g) \in Above /\ U(g) \in SUBSET M /\ A \in SUBSET M
      BY <1>5, <2>1
  <2>3. U(g) \subseteq A /\ g \in A /\ g \notin U(g)
    <3>1. f \in Int /\ g \in Int /\ \A h \in M : h \in Int /\ (h > g => h > f)
        BY <2>1
    <3>2. g \in A /\ U(g) \subseteq A
        BY <1>5, <2>1, <3>1
    <3>3. ~(g > g)
        BY <3>1
    <3> QED BY <3>2, <3>3
  <2>4. <<U(g), A>> \in StrictSubsetOrdering(M)
    <3> HIDE DEF U
    <3> QED BY <2>2, <2>3 DEF StrictSubsetOrdering
  <2> QED BY <1>4, <2>2, <2>4
<1>7. P \in SUBSET M /\ A \in SUBSET P
    BY <1>6
<1>8. Cardinality(A) <= Cardinality(P) /\ Cardinality(A) \in Nat /\ Cardinality(P) \in Nat
    BY <1>2, <1>7, FS_Subset
<1>9. Cardinality(A) < n
    BY <1>8
<1> QED BY <1>5, <1>9

LEMMA IdsAreInts == Event \subseteq Int
BY IdsAreNumbers

\* A page in terms of the two lemmas.
LEMMA PageOf ==
    ASSUME RowsFinite, NEW q, q # "dead letters", NEW b
    PROVE  \E M \in SUBSET Event :
              /\ M = {f \in Event : Matches(f, q) /\ Before(f, b)}
              /\ IsFiniteSet(M) /\ M \subseteq Int
              /\ Page(q, b) = {f \in M : Cardinality({g \in M : g > f}) < PageSize}
<1>1. PICK M \in SUBSET Event : M = {f \in Event : Matches(f, q) /\ Before(f, b)}
    OBVIOUS
<1>2. M \in SUBSET Rows
    BY <1>1 DEF Matches, Rows
<1>3. IsFiniteSet(M)
    BY <1>2, FS_Subset DEF RowsFinite
<1>4. Page(q, b) = {f \in M : Cardinality({g \in M : g > f}) < PageSize}
    BY <1>1 DEF Page, Precedes
<1>5. M \subseteq Int
    BY IdsAreInts
<1> QED BY <1>1, <1>3, <1>4, <1>5

\* A row of the list that a page leaves out comes after every row of the page.
LEMMA PageIsFirst ==
    ASSUME RowsFinite, NEW q, q # "dead letters", NEW b,
           NEW e \in Event, Matches(e, q), Before(e, b), e \notin Page(q, b),
           NEW p \in Page(q, b)
    PROVE  e < p
<1>1. PICK M \in SUBSET Event :
          /\ M = {f \in Event : Matches(f, q) /\ Before(f, b)}
          /\ IsFiniteSet(M) /\ M \subseteq Int
          /\ Page(q, b) = {f \in M : Cardinality({g \in M : g > f}) < PageSize}
    BY PageOf
<1>2. /\ e \in M /\ ~(Cardinality({g \in M : g > e}) < PageSize)
      /\ p \in M /\ Cardinality({g \in M : g > p}) < PageSize
    BY <1>1
<1> QED BY <1>1, <1>2, FewerAbove, PagesHoldRows

\* A page that is not full leaves nothing out.
LEMMA ShortPageIsLast ==
    ASSUME RowsFinite, NEW q, q # "dead letters", NEW b,
           Cardinality(Page(q, b)) < PageSize,
           NEW e \in Event, Matches(e, q), Before(e, b)
    PROVE  e \in Page(q, b)
<1>1. PICK M \in SUBSET Event :
          /\ M = {f \in Event : Matches(f, q) /\ Before(f, b)}
          /\ IsFiniteSet(M) /\ M \subseteq Int
          /\ Page(q, b) = {f \in M : Cardinality({g \in M : g > f}) < PageSize}
    BY PageOf
<1>2. M \subseteq Page(q, b)
    BY <1>1, FewAbove, PagesHoldRows
<1> QED BY <1>1, <1>2

\* When one listing becomes m, and the table stays, m alone is to be looked at.
LEMMA OneListing ==
    ASSUME LInv, UNCHANGED <<keys, status>>, NEW r \in Reader, NEW m \in Listing,
           listings' = [listings EXCEPT ![r] = m], NotMissed(m), Complete(m)
    PROVE  LInv'
<1>1. \A s \in Reader : listings'[s] = IF s = r THEN m ELSE listings[s]
    BY DEF LInv, ListingsOK
<1>2. RowsFinite' /\ ListingsOK'
    BY DEF LInv, RowsFinite, Rows, Exists, ListingsOK
<1>3. ASSUME NEW s \in Reader PROVE NotMissed(listings[s])' /\ Complete(listings[s])'
  <2>1. PICK l \in Listing : l = listings'[s] /\ NotMissed(l) /\ Complete(l)
      BY <1>1 DEF LInv, ListingsOK, NoneMissed, AllComplete
  <2>2. NotMissed(l)'
      BY <2>1 DEF NotMissed, Matches, Exists
  <2> QED BY <2>1, <2>2 DEF NotMissed, Complete, Matches
<1> QED BY <1>2, <1>3 DEF LInv, NoneMissed, AllComplete

\* Going on to the next page misses nothing.
LEMMA ReadKeeps ==
    ASSUME LInv, NEW r \in Reader, ReadPage(r)
    PROVE  LInv'
<1>1. PICK l \in Listing : l = listings[r] /\ NotMissed(l)
    BY DEF LInv, ListingsOK, NoneMissed
<1>2. PICK page : page = Page(l.query, l.before)
    OBVIOUS
<1>3. PICK shown : shown = l.shown \cup page
    OBVIOUS
<1>4. l.at = "reading"
    BY <1>1 DEF ReadPage
<1>5. /\ l.query \in Query /\ l.before \in Event \cup {0}
      /\ l.shown \in SUBSET Event /\ l.steady \in SUBSET Event
      /\ l = [at |-> "reading", query |-> l.query, before |-> l.before,
              shown |-> l.shown, steady |-> l.steady]
    BY <1>4, ListingTypes
<1>6. shown \in SUBSET Event /\ page \subseteq Event
    BY <1>2, <1>3, <1>5 DEF Page
<1>7. l.query # "dead letters" =>
          \A e \in l.steady : Matches(e, l.query) /\ (e \in l.shown \/ Before(e, l.before))
    BY <1>1, <1>4 DEF NotMissed
<1>8. PICK next : next = [l EXCEPT !.shown = shown]
    OBVIOUS
<1>9. next = [at |-> "reading", query |-> l.query, before |-> l.before,
               shown |-> shown, steady |-> l.steady]
    BY <1>5, <1>8
<1>10. CASE Cardinality(page) < PageSize
  <2>1. PICK m : m = [next EXCEPT !.at = "read"]
      OBVIOUS
  <2>2. listings' = [listings EXCEPT ![r] = m] \/ Cardinality(page) = PageSize
      BY <1>1, <1>2, <1>3, <1>8, <2>1 DEF ReadPage
  <2>3. Cardinality(page) # PageSize
      BY <1>10, PagesHoldRows
  <2>4. m = [at |-> "read", query |-> l.query, before |-> l.before,
             shown |-> shown, steady |-> l.steady]
      BY <1>9, <2>1
  <2>5. m \in Listing
      BY <1>5, <1>6, <2>4 DEF Listing
  <2>6. ASSUME l.query # "dead letters", NEW e \in l.steady PROVE e \in shown
    <3>1. e \in Event /\ Matches(e, l.query) /\ (e \in l.shown \/ Before(e, l.before))
        BY <1>5, <1>7, <2>6
    <3>2. Before(e, l.before) => e \in page
        BY <1>2, <1>10, <2>6, <3>1, ShortPageIsLast DEF LInv
    <3> QED BY <1>3, <3>1, <3>2
  <2>7. NotMissed(m) /\ Complete(m)
      BY <2>4, <2>6 DEF NotMissed, Complete
  <2> QED BY <2>2, <2>3, <2>5, <2>7, OneListing DEF ReadPage
<1>11. CASE \E f \in EndOf(l.query, page) :
              listings' = [listings EXCEPT ![r] = [next EXCEPT !.before = f]]
  <2>1. PICK f \in EndOf(l.query, page) :
            listings' = [listings EXCEPT ![r] = [next EXCEPT !.before = f]]
      BY <1>11
  <2>2. PICK m : m = [next EXCEPT !.before = f]
      OBVIOUS
  <2>3. m = [at |-> "reading", query |-> l.query, before |-> f,
             shown |-> shown, steady |-> l.steady]
      BY <1>9, <2>2
  <2>4. f \in page /\ f \in Event
      BY <1>6 DEF EndOf
  <2>5. m \in Listing
      BY <1>5, <1>6, <2>3, <2>4 DEF Listing
  <2>6. ASSUME l.query # "dead letters", NEW e \in l.steady
        PROVE  Matches(e, l.query) /\ (e \in shown \/ Before(e, f))
    <3>1. e \in Event /\ Matches(e, l.query) /\ (e \in l.shown \/ Before(e, l.before))
        BY <1>5, <1>7, <2>6
    <3>2. e \notin shown => e < f
        BY <1>2, <1>3, <2>4, <2>6, <3>1, PageIsFirst DEF LInv
    <3> QED BY <3>1, <3>2 DEF Before
  <2>7. NotMissed(m) /\ Complete(m)
      BY <2>3, <2>6 DEF NotMissed, Complete
  <2> QED BY <2>1, <2>2, <2>5, <2>7, OneListing DEF ReadPage
<1> QED BY <1>1, <1>2, <1>3, <1>10, <1>11, <1>8 DEF ReadPage

\* A first page is asked for when every row of the list lies behind the cursor.
LEMMA StartKeeps ==
    ASSUME LInv, NEW r \in Reader, NEW q \in Query, StartListing(r, q)
    PROVE  LInv'
<1>1. PICK M \in SUBSET Event : M = {e \in Event : Matches(e, q)}
    OBVIOUS
<1>2. PICK m : /\ listings' = [listings EXCEPT ![r] = m]
               /\ m = [at |-> "reading", query |-> q, before |-> 0, shown |-> {}, steady |-> M]
    BY <1>1 DEF StartListing
<1>3. m \in Listing
    BY <1>2 DEF Listing
<1>4. NotMissed(m) /\ Complete(m)
    BY <1>1, <1>2 DEF NotMissed, Complete, Before
<1> QED BY <1>2, <1>3, <1>4, OneListing DEF StartListing

\* An insert adds a row to the table and disturbs no other.
LEMMA InsertSteps ==
    ASSUME IInv, LInv, NEW c \in Client, InsertEvent(c) \/ PostFails(c)
    PROVE  LInv'
<1>1. PICK e \in Event, k \in Key, p \in Post : CreatesWith(c, e, k, p)
    BY CreateSteps DEF IInv
<1>2. listings' = listings
    BY DEF InsertEvent, PostFails
<1>3. CASE Insert(e, k)
  <2>1. /\ \A f \in Event : Exists(f)' <=> Exists(f) \/ f = e
        /\ ~Exists(e)
      BY <1>1, <1>3, InsertKeeps DEF IInv, CreatesWith
  <2>2. Rows' = Rows \cup {e}
      BY <2>1 DEF Rows
  <2>3. RowsFinite'
      BY <2>2, FS_AddElement DEF LInv, RowsFinite
  <2>4. ASSUME NEW f \in Event, NEW q, Matches(f, q) PROVE Matches(f, q)'
    <3>1. f # e /\ status'[f] = status[f]
        BY <1>3, <2>1, <2>4 DEF Insert, IInv, TableOK, Matches
    <3> QED BY <2>1, <2>4, <3>1 DEF Matches
  <2>5. ASSUME NEW s \in Reader PROVE NotMissed(listings[s])' /\ Complete(listings[s])'
    <3>1. PICK l \in Listing : l = listings[s] /\ l = listings'[s] /\ NotMissed(l) /\ Complete(l)
        BY <1>2 DEF LInv, ListingsOK, NoneMissed, AllComplete
    <3>2. NotMissed(l)'
        BY <2>4, <3>1, ListingTypes DEF NotMissed, Before
    <3> QED BY <3>1, <3>2 DEF NotMissed, Complete, Matches
  <2> QED BY <1>2, <2>3, <2>5 DEF LInv, ListingsOK, NoneMissed, AllComplete
<1>4. CASE UNCHANGED tableVars
  <2>1. ASSUME NEW s \in Reader PROVE NotMissed(listings[s])'
    <3>1. PICK l : l = listings[s] /\ l = listings'[s] /\ NotMissed(l)
        BY <1>2 DEF LInv, NoneMissed
    <3> QED BY <1>4, <3>1 DEF NotMissed, Matches, Exists
  <2> QED BY <1>2, <1>4, <2>1 DEF LInv, RowsFinite, Rows, Exists, ListingsOK, NoneMissed,
                                 AllComplete, Complete
<1> QED BY <1>1, <1>3, <1>4 DEF CreatesWith

\* A row whose status is set has not matched all the time, except for the list of
\* all rows, which it cannot leave.
LEMMA StatusKeeps ==
    ASSUME IInv, LInv, NEW e \in Event, NEW t \in Status, SetStatus(e, t)
    PROVE  LInv'
<1>1. /\ keys' = keys
      /\ \A f \in Event : f # e => status'[f] = status[f]
    BY DEF SetStatus, IInv, TableOK
<1>2. RowsFinite'
    BY <1>1 DEF LInv, RowsFinite, Rows, Exists
<1>3. ASSUME NEW s \in Reader
      PROVE  listings'[s] \in Listing /\ NotMissed(listings[s])' /\ Complete(listings[s])'
  <2>1. PICK l \in Listing : l = listings[s] /\ NotMissed(l) /\ Complete(l)
      BY DEF LInv, ListingsOK, NoneMissed, AllComplete
  <2>2. PICK m : m = listings'[s]
      OBVIOUS
  <2>3. m = IF l.at = "reading" /\ l.query # "all" THEN [l EXCEPT !.steady = @ \ {e}] ELSE l
      BY <2>1, <2>2 DEF SetStatus
  <2>4. m \in Listing /\ NotMissed(m)' /\ Complete(m)
    <3>1. CASE l.at = "reading" /\ l.query # "all"
      <4>1. /\ l.query \in Query /\ l.before \in Event \cup {0}
            /\ l.shown \in SUBSET Event /\ l.steady \in SUBSET Event
            /\ l = [at |-> "reading", query |-> l.query, before |-> l.before,
                    shown |-> l.shown, steady |-> l.steady]
          BY <3>1, ListingTypes
      <4>2. PICK S \in SUBSET Event : S = l.steady \ {e}
          BY <4>1
      <4>3. m = [at |-> "reading", query |-> l.query, before |-> l.before,
                 shown |-> l.shown, steady |-> S]
        <5>1. m = [l EXCEPT !.steady = S]
            BY <2>3, <3>1, <4>2
        <5> QED BY <4>1, <5>1
      <4>4. m \in Listing
          BY <4>1, <4>3 DEF Listing
      <4>5. NotMissed(m)'
        <5> SUFFICES ASSUME m.query # "dead letters", NEW f \in m.steady
                     PROVE  Matches(f, m.query)' /\ (f \in m.shown \/ Before(f, m.before))
            BY DEF NotMissed, Before
        <5>1. /\ f \in l.steady /\ f # e /\ f \in Event
              /\ m.query = l.query /\ m.shown = l.shown /\ m.before = l.before
            BY <4>2, <4>3
        <5>2. Matches(f, l.query) /\ (f \in l.shown \/ Before(f, l.before))
            BY <2>1, <3>1, <5>1 DEF NotMissed
        <5> QED BY <1>1, <5>1, <5>2 DEF Matches, Exists
      <4> QED BY <4>3, <4>4, <4>5 DEF Complete
    <3>2. CASE ~(l.at = "reading" /\ l.query # "all")
      <4>1. m = l
          BY <2>3, <3>2
      <4>2. NotMissed(m)'
          BY <1>1, <2>1, <3>2, <4>1 DEF NotMissed, Matches, Exists, Before
      <4> QED BY <2>1, <4>1, <4>2
    <3> QED BY <3>1, <3>2
  <2> QED BY <2>2, <2>4 DEF NotMissed, Complete, Matches
<1>4. ListingsOK'
  <2>1. listings' = [s \in Reader |-> listings'[s]]
      BY DEF SetStatus
  <2> QED BY <1>3, <2>1 DEF ListingsOK
<1> QED BY <1>2, <1>3, <1>4 DEF LInv, NoneMissed, AllComplete

LEMMA LInvStep ==
    ASSUME IInv, LInv, [Next]_vars
    PROVE  LInv'
<1>1. CASE \E c \in Client : InsertEvent(c) \/ PostFails(c)
    BY <1>1, InsertSteps
<1>2. CASE \E r \in Reader : ReadPage(r)
    BY <1>2, ReadKeeps
<1>3. CASE \E r \in Reader, q \in Query : StartListing(r, q)
    BY <1>3, StartKeeps
<1>4. CASE \E e \in Event, t \in Status : SetStatus(e, t)
    BY <1>4, StatusKeeps
<1>5. CASE UNCHANGED <<keys, status, listings>>
  <2>1. ASSUME NEW s \in Reader PROVE NotMissed(listings[s])'
    <3>1. PICK l : l = listings[s] /\ l = listings'[s] /\ NotMissed(l)
        BY <1>5 DEF LInv, NoneMissed
    <3> QED BY <1>5, <3>1 DEF NotMissed, Matches, Exists
  <2> QED BY <1>5, <2>1 DEF LInv, RowsFinite, Rows, Exists, ListingsOK, NoneMissed,
                            AllComplete, Complete
<1>6. ASSUME NEW c \in Client, NEW k \in Key, FindEvent(c, k) \/ DrawId(c, k) \/ FindFails(c, k)
      PROVE  UNCHANGED <<keys, status, listings>>
    BY <1>6 DEF FindEvent, DrawId, FindFails
<1> QED BY <1>1, <1>2, <1>3, <1>4, <1>5, <1>6 DEF Next, HandlePost, vars

LEMMA LInvInit == Init => LInv
<1> SUFFICES ASSUME Init PROVE LInv
    OBVIOUS
<1>1. Rows = {}
    BY DEF Init, Rows, Exists
<1>2. RowsFinite
    BY <1>1, FS_EmptySet DEF RowsFinite
<1> QED BY <1>2 DEF Init, LInv, ListingsOK, Listing, NoListing,
                   NoneMissed, NotMissed, AllComplete, Complete

\* Whoever follows the cursor of a list ordered by id to its end has seen every
\* row that was in the list from the first page to the last.
THEOREM ListingsMissNothing == Spec => []PagesComplete
<1>1. LInv => PagesComplete
    BY DEF LInv, AllComplete, Complete, PagesComplete
<1> QED BY <1>1, IInvAlways, LInvInit, LInvStep, PTL DEF Spec

\* Every state of the model is a table, requests and listings.
THEOREM EventsTypeCorrect == Spec => []TypeOK
<1>1. IInv /\ LInv => TypeOK
    BY DEF IInv, LInv, TableOK, PostsOK, ListingsOK, TypeOK
<1> QED BY <1>1, IInvAlways, LInvInit, LInvStep, PTL DEF Spec
=============================================================================
