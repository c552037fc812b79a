--------------------------- MODULE AccountsProofs ---------------------------
(***************************************************************************)
(* Safety of Accounts for every set of requests, e-mails and passwords,    *)
(* every notion of a normal spelling and every number of bcrypt slots.     *)
(***************************************************************************)
EXTENDS Accounts, FiniteSetTheorems, TLAPS

-----------------------------------------------------------------------------
(* The inductive invariant *)

Hashing == {r \in Request : pc[r] = "hashing"}

\* The semaphore: BcryptBounded counts a finite set.
Semaphore == BcryptBounded /\ IsFiniteSet(Hashing)

\* An address has one account.
Unique == \A a, b \in DOMAIN users : Lower(a) = Lower(b) => a = b

\* What a request has read stays true of the table, in which nothing is lost.
Sound(r) ==
    /\ created[r] => Matches(form[r])
    /\ pc[r] = "idle" => ~created[r]
    /\ pc[r] \in {"idle", "find"} => found[r] = NoPassword
    /\ pc[r] = "find" /\ known[r] => Matches(form[r])
    /\ pc[r] \in {"acquire", "waiting", "hashing"} /\ form[r].kind = "login" =>
          /\ found[r] # NoPassword =>
                \E e \in Stored(Normal(form[r].email)) : users[e] = found[r]
          /\ known[r] => found[r] = form[r].password
    /\ pc[r] \in {"open", "welcome"} => Matches(form[r])
    /\ pc[r] = "refused" => ~known[r]

IInv == TypeOK /\ Semaphore /\ Unique /\ \A r \in Request : Sound(r)

-----------------------------------------------------------------------------
(* Lemmas *)

Places == Answer \cup {"idle", "find", "acquire", "waiting", "hashing", "create", "open"}

Typed == /\ pc' \in [Request -> Places]
         /\ form' \in [Request -> Form]
         /\ found' \in [Request -> Password \cup {NoPassword}]
         /\ gone' \in [Request -> BOOLEAN]
         /\ created' \in [Request -> BOOLEAN]
         /\ known' \in [Request -> BOOLEAN]

\* No row is lost or changed.
Grows == /\ \E S \in SUBSET Email : users' \in [S -> Password]
         /\ DOMAIN users \subseteq DOMAIN users'
         /\ \A e \in DOMAIN users : users'[e] = users[e]

Unmoved(q) == /\ form'[q] = form[q] /\ found'[q] = found[q]
              /\ created'[q] = created[q] /\ known'[q] = known[q]

\* There are e-mails and passwords, hence forms.
LEMMA NoFormIsForm == NoForm \in Form
<1>1. PICK e \in Email : TRUE
    BY NormalAssumption
<1>2. [kind |-> "login", email |-> e, password |-> Dummy] \in Form
    BY PasswordAssumption DEF Form
<1>3. \E f \in Form : TRUE
    BY <1>2
<1> QED
    BY <1>3 DEF NoForm

\* A request keeps what it knows while the table grows, also when it is given
\* the slot it waits for.
LEMMA SoundStays ==
    ASSUME IInv, Grows, NEW q \in Request, Unmoved(q),
           pc'[q] = pc[q] \/ (pc[q] = "waiting" /\ pc'[q] = "hashing")
    PROVE  Sound(q)'
<1>1. Sound(q) /\ form[q] \in Form /\ TypeOK
    BY DEF IInv, TypeOK
<1>2. Matches(form[q]) => Matches(form[q])'
  <2> HAVE Matches(form[q])
  <2>1. \E e \in DOMAIN users : /\ Lower(e) = Normal(form[q].email)
                                /\ users[e] = form[q].password
    BY DEF Matches, Stored
  <2>2. \E e \in DOMAIN users' : /\ Lower(e) = Normal(form'[q].email)
                                 /\ users'[e] = form'[q].password
    BY <2>1 DEF Grows, Unmoved
  <2> QED
    BY <2>2 DEF Matches, Stored
<1>3. (\E e \in Stored(Normal(form[q].email)) : users[e] = found[q])
         => (\E e \in Stored(Normal(form[q].email)) : users[e] = found[q])'
    BY DEF Grows, Unmoved, Stored
<1> QED
    BY <1>1, <1>2, <1>3 DEF Sound, Unmoved

\* Nobody takes, frees or waits for a slot.
LEMMA SemaphoreStays ==
    ASSUME IInv, UNCHANGED <<used, queue>>,
           \A q \in Request : /\ pc[q] = "hashing" <=> pc'[q] = "hashing"
                              /\ pc[q] = "waiting" <=> pc'[q] = "waiting"
    PROVE  Semaphore'
<1>1. Hashing' = Hashing
    BY DEF Hashing
<1>2. {r \in Request : pc'[r] = "hashing"} = {r \in Request : pc[r] = "hashing"}
    OBVIOUS
<1> QED
    BY <1>1, <1>2 DEF IInv, Semaphore, BcryptBounded

\* A step of one request, which need only be in order itself.
LEMMA OneRequestSteps ==
    ASSUME IInv, NEW r \in Request, Typed, Grows, Unique', Sound(r)', Semaphore',
           used' \in 0..Slots, queue' \in Seq(Request),
           \A q \in Request :
               q # r => /\ Unmoved(q)
                        /\ pc'[q] = pc[q] \/ (pc[q] = "waiting" /\ pc'[q] = "hashing")
    PROVE  IInv'
<1>1. TypeOK'
    BY DEF Typed, TypeOK, Grows, Places
<1>2. \A q \in Request : Sound(q)'
    BY SoundStays
<1> QED
    BY <1>1, <1>2 DEF IInv

\* The table as it was.
LEMMA SameTable == IInv /\ users' = users => Grows /\ Unique'
BY DEF IInv, TypeOK, Grows, Unique

-----------------------------------------------------------------------------
(* The forms and the database *)

\* The history of a new request is what the table says now.
LEMMA SubmitKeeps ==
    ASSUME IInv, NEW r \in Request, NEW f \in Sent, Submit(r, f)
    PROVE  IInv'
<1>1. /\ TypeOK /\ f \in Form /\ pc[r] = "idle" /\ Sound(r)
      /\ form' = [form EXCEPT ![r] = f] /\ known' = [known EXCEPT ![r] = Matches(f)]
      /\ UNCHANGED <<users, found, gone, used, queue, created>>
    BY FormsAssumption DEF IInv, Submit
<1>2. \E to \in {"find", "acquire", "invalid"} :
          /\ pc' = [pc EXCEPT ![r] = to]
          /\ to = "find" <=> f.kind = "login"
    BY <1>1 DEF Submit, Form
<1>3. PICK to \in {"find", "acquire", "invalid"} :
          /\ pc' = [pc EXCEPT ![r] = to]
          /\ to = "find" <=> f.kind = "login"
    BY <1>2
<1>4. Matches(f) \in BOOLEAN
    BY DEF Matches
<1>5. Typed
    BY <1>1, <1>3, <1>4 DEF TypeOK, Typed, Places, Answer
<1>6. Grows /\ Unique'
    BY <1>1, SameTable
<1>7. /\ pc'[r] = to /\ form'[r] = f /\ known'[r] = Matches(f) /\ ~created[r]
      /\ found[r] = NoPassword
    BY <1>1, <1>3 DEF TypeOK, Sound
<1>8. Matches(f)' = Matches(f)
    BY <1>1 DEF Matches, Stored
<1>9. Sound(r)'
    BY <1>1, <1>3, <1>7, <1>8 DEF Sound
<1>10. Semaphore'
    BY <1>1, <1>3, SemaphoreStays DEF TypeOK
<1>11. \A q \in Request : q # r => Unmoved(q) /\ pc'[q] = pc[q]
    BY <1>1, <1>3 DEF TypeOK, Unmoved
<1> QED
    BY <1>1, <1>5, <1>6, <1>9, <1>10, <1>11, OneRequestSteps DEF TypeOK

\* An address has one row: the one that was good when the form came is the one
\* that is found.
LEMMA FindByEmailKeeps ==
    ASSUME IInv, NEW r \in Request, FindByEmail(r)
    PROVE  IInv'
<1>1. /\ TypeOK /\ Sound(r) /\ pc[r] = "find"
      /\ pc' = [pc EXCEPT ![r] = "acquire"]
      /\ UNCHANGED <<users, form, gone, used, queue, created, known>>
    BY DEF IInv, FindByEmail, Goto, history
<1>2. /\ found' \in [Request -> Password \cup {NoPassword}]
      /\ \A q \in Request : q # r => found'[q] = found[q]
      /\ found'[r] # NoPassword =>
            \E e \in Stored(Normal(form[r].email)) : users[e] = found'[r]
      /\ known[r] => found'[r] = form[r].password
  <2>1. CASE Stored(Normal(form[r].email)) = {} /\ UNCHANGED found
    <3>1. ~Matches(form[r])
        BY <2>1 DEF Matches
    <3>2. ~known[r] /\ found[r] = NoPassword
        BY <1>1, <3>1 DEF Sound
    <3> QED
        BY <1>1, <2>1, <3>2 DEF TypeOK
  <2>2. ASSUME NEW e \in Stored(Normal(form[r].email)),
               found' = [found EXCEPT ![r] = users[e]]
        PROVE  /\ found' \in [Request -> Password \cup {NoPassword}]
               /\ \A q \in Request : q # r => found'[q] = found[q]
               /\ found'[r] # NoPassword =>
                     \E x \in Stored(Normal(form[r].email)) : users[x] = found'[r]
               /\ known[r] => found'[r] = form[r].password
    <3>1. e \in DOMAIN users /\ users[e] \in Password /\ found'[r] = users[e]
        BY <1>1, <2>2 DEF TypeOK, Stored
    <3>2. Matches(form[r]) => users[e] = form[r].password
      <4>1. \A x \in Stored(Normal(form[r].email)) : x = e
        BY DEF IInv, Unique, Stored
      <4> QED
        BY <4>1 DEF Matches
    <3>3. known[r] => Matches(form[r])
        BY <1>1 DEF Sound
    <3> QED
        BY <1>1, <2>2, <3>1, <3>2, <3>3 DEF TypeOK
  <2> QED
    BY <2>1, <2>2 DEF FindByEmail
<1>3. Typed
    BY <1>1, <1>2 DEF TypeOK, Typed, Places
<1>4. Grows /\ Unique'
    BY <1>1, SameTable
<1>5. pc'[r] = "acquire"
    BY <1>1 DEF TypeOK
<1>6. Matches(form[r])' = Matches(form[r])
    BY <1>1 DEF Matches, Stored
<1>7. (\E e \in Stored(Normal(form[r].email)) : users[e] = found'[r]) =>
          \E e \in Stored(Normal(form[r].email))' : users'[e] = found'[r]
    BY <1>1 DEF Stored
<1>8. Sound(r)'
    BY <1>1, <1>2, <1>5, <1>6, <1>7 DEF Sound
<1>9. Semaphore'
    BY <1>1, SemaphoreStays DEF TypeOK
<1>10. \A q \in Request : q # r => Unmoved(q) /\ pc'[q] = pc[q]
    BY <1>1, <1>2 DEF TypeOK, Unmoved
<1> QED
    BY <1>1, <1>3, <1>4, <1>8, <1>9, <1>10, OneRequestSteps DEF TypeOK

\* The new row is the account of the form; an address that was free has one.
LEMMA InsertGrows ==
    ASSUME IInv, NEW r \in Request, Insert(r)
    PROVE  /\ Grows /\ Unique' /\ created' = [created EXCEPT ![r] = TRUE]
           /\ \E e \in DOMAIN users' : /\ Lower(e) = Normal(form[r].email)
                                       /\ users'[e] = form[r].password
<1> DEFINE address == Normal(form[r].email)
<1>1. /\ address \in Email /\ Lower(address) = address /\ form[r].password \in Password
    BY NormalAssumption DEF IInv, TypeOK, Form
<1>2. \A e \in DOMAIN users : Lower(e) # address
    BY DEF Insert, Taken, Stored
<1>3. /\ DOMAIN users' = DOMAIN users \cup {address}
      /\ \A e \in DOMAIN users' : users'[e] = IF e = address THEN form[r].password
                                              ELSE users[e]
    BY DEF Insert
<1>4. address \notin DOMAIN users
    BY <1>1, <1>2
<1>5. PICK S \in SUBSET Email : users \in [S -> Password]
    BY DEF IInv, TypeOK
<1>6. users' \in [S \cup {address} -> Password]
  <2>1. users' = [e \in S \cup {address} |->
                     IF e = address THEN form[r].password ELSE users[e]]
    BY <1>5 DEF Insert
  <2> QED
    BY <1>1, <1>5, <2>1
<1>7. Grows
    BY <1>1, <1>3, <1>4, <1>5, <1>6 DEF Grows
<1>8. Unique'
    BY <1>1, <1>2, <1>3 DEF IInv, Unique
<1> QED
    BY <1>1, <1>3, <1>7, <1>8 DEF Insert

\* A step of one request that is neither about a slot nor about the table.
LEMMA PlainStep ==
    ASSUME IInv, NEW r \in Request, NEW to \in Places,
           pc' = [pc EXCEPT ![r] = to], pc[r] \notin {"hashing", "waiting"},
           to \notin {"idle", "find", "acquire", "hashing", "waiting"},
           UNCHANGED <<form, found, used, queue, known>>,
           gone' \in [Request -> BOOLEAN],
           Grows, Unique', created' \in [Request -> BOOLEAN],
           \A q \in Request : q # r => created'[q] = created[q],
           created'[r] => created[r] \/ Matches(form[r])',
           to \in {"open", "welcome"} => Matches(form[r])',
           to = "refused" => ~known[r]
    PROVE  IInv'
<1>1. TypeOK /\ Sound(r) /\ form[r] \in Form /\ pc'[r] = to
    BY DEF IInv, TypeOK
<1>2. Typed
    BY <1>1 DEF TypeOK, Typed, Places
<1>3. Matches(form[r]) => Matches(form[r])'
  <2> HAVE Matches(form[r])
  <2>1. \E e \in DOMAIN users : /\ Lower(e) = Normal(form[r].email)
                                /\ users[e] = form[r].password
    BY DEF Matches, Stored
  <2>2. \E e \in DOMAIN users' : /\ Lower(e) = Normal(form'[r].email)
                                 /\ users'[e] = form'[r].password
    BY <2>1 DEF Grows
  <2> QED
    BY <2>2 DEF Matches, Stored
<1>4. Sound(r)'
    BY <1>1, <1>3 DEF Sound
<1>5. Semaphore'
    BY <1>1, SemaphoreStays DEF TypeOK
<1>6. \A q \in Request : q # r => Unmoved(q) /\ pc'[q] = pc[q]
    BY <1>1 DEF TypeOK, Unmoved
<1> QED
    BY <1>1, <1>2, <1>4, <1>5, <1>6, OneRequestSteps DEF TypeOK

\* The owner of a new account is let in.
LEMMA CreateKeeps ==
    ASSUME IInv, NEW r \in Request, Create(r)
    PROVE  IInv'
<1>1. /\ TypeOK /\ pc[r] = "create" /\ pc' = [pc EXCEPT ![r] = "open"]
      /\ UNCHANGED <<form, found, gone, used, queue, known>> /\ Insert(r)
    BY DEF IInv, Create, Goto
<1>2. /\ Grows /\ Unique' /\ created' = [created EXCEPT ![r] = TRUE]
      /\ \E e \in DOMAIN users' : /\ Lower(e) = Normal(form[r].email)
                                  /\ users'[e] = form[r].password
    BY <1>1, InsertGrows
<1>3. Matches(form[r])'
    BY <1>1, <1>2 DEF Matches, Stored
<1> QED
    BY <1>1, <1>2, <1>3, PlainStep DEF TypeOK, Places

\* The loser of two registrations learns that the address is taken.
LEMMA EmailTakenKeeps ==
    ASSUME IInv, NEW r \in Request, EmailTaken(r)
    PROVE  IInv'
<1>1. /\ TypeOK /\ pc[r] = "create" /\ pc' = [pc EXCEPT ![r] = "taken"]
      /\ UNCHANGED <<users, form, found, gone, used, queue, created, known>>
    BY DEF IInv, EmailTaken, Goto, history
<1>2. Grows /\ Unique'
    BY <1>1, SameTable
<1> QED
    BY <1>1, <1>2, PlainStep DEF TypeOK, Places, Answer

\* A session is opened for an account.
LEMMA OpenSessionKeeps ==
    ASSUME IInv, NEW r \in Request, OpenSession(r)
    PROVE  IInv'
<1>1. /\ TypeOK /\ Sound(r) /\ pc[r] = "open" /\ pc' = [pc EXCEPT ![r] = "welcome"]
      /\ UNCHANGED <<users, form, found, gone, used, queue, created, known>>
    BY DEF IInv, OpenSession, Goto, history
<1>2. Grows /\ Unique'
    BY <1>1, SameTable
<1>3. Matches(form[r])'
    BY <1>1 DEF Sound, Matches, Stored
<1> QED
    BY <1>1, <1>2, <1>3, PlainStep DEF TypeOK, Places, Answer

\* A registration that fails after its statement took effect stands.
LEMMA DatabaseFailsKeeps ==
    ASSUME IInv, NEW r \in Request, DatabaseFails(r)
    PROVE  IInv'
<1>1. /\ TypeOK /\ pc[r] \in {"find", "create", "open"}
      /\ pc' = [pc EXCEPT ![r] = "failed"]
      /\ UNCHANGED <<form, found, gone, used, queue, known>>
    BY DEF IInv, DatabaseFails
<1>2. CASE UNCHANGED <<users, created>>
  <2>1. Grows /\ Unique'
    BY <1>2, SameTable
  <2> QED
    BY <1>1, <1>2, <2>1, PlainStep DEF TypeOK, Places, Answer
<1>3. CASE Insert(r)
  <2>1. /\ Grows /\ Unique' /\ created' = [created EXCEPT ![r] = TRUE]
        /\ \E e \in DOMAIN users' : /\ Lower(e) = Normal(form[r].email)
                                    /\ users'[e] = form[r].password
    BY <1>3, InsertGrows
  <2>2. Matches(form[r])'
    BY <1>1, <2>1 DEF Matches, Stored
  <2> QED
    BY <1>1, <2>1, <2>2, PlainStep DEF TypeOK, Places, Answer
<1> QED
    BY <1>2, <1>3 DEF DatabaseFails

-----------------------------------------------------------------------------
(* The semaphore *)

\* A queue without one of its elements.
LEMMA RemoveAtElements ==
    ASSUME NEW s \in Seq(Request), NEW i \in DOMAIN s
    PROVE  /\ RemoveAt(s, i) \in Seq(Request)
           /\ Len(RemoveAt(s, i)) = Len(s) - 1
           /\ \A j \in 1..Len(s) - 1 :
                 RemoveAt(s, i)[j] = IF j < i THEN s[j] ELSE s[j + 1]
<1>1. i \in 1..Len(s) /\ Len(s) \in Nat
    OBVIOUS
<1> DEFINE before == SubSeq(s, 1, i - 1)
           after == SubSeq(s, i + 1, Len(s))
<1>2. /\ before \in Seq(Request) /\ Len(before) = i - 1
      /\ \A j \in 1..i - 1 : before[j] = s[j]
    BY <1>1
<1>3. /\ after \in Seq(Request) /\ Len(after) = Len(s) - i
      /\ \A j \in 1..Len(s) - i : after[j] = s[j + i]
    BY <1>1
<1>4. RemoveAt(s, i) = before \o after
    BY DEF RemoveAt
<1> HIDE DEF before, after
<1>5. /\ before \o after \in Seq(Request)
      /\ Len(before \o after) = Len(before) + Len(after)
      /\ \A j \in 1..Len(before) + Len(after) :
            (before \o after)[j] = IF j <= Len(before) THEN before[j]
                                   ELSE after[j - Len(before)]
    BY <1>2, <1>3
<1>6. Len(before) + Len(after) = Len(s) - 1
    BY <1>1, <1>2, <1>3
<1>7. ASSUME NEW j \in 1..Len(s) - 1
      PROVE  (before \o after)[j] = IF j < i THEN s[j] ELSE s[j + 1]
  <2>1. (before \o after)[j] = IF j <= i - 1 THEN before[j] ELSE after[j - (i - 1)]
    <3>1. j \in 1..Len(before) + Len(after)
        BY <1>6
    <3>2. (before \o after)[j] = IF j <= Len(before) THEN before[j]
                                 ELSE after[j - Len(before)]
        BY <1>5, <3>1
    <3> QED
        BY <1>2, <3>2
  <2>2. CASE j < i
    BY <1>1, <1>2, <2>1, <2>2
  <2>3. CASE ~(j < i)
    <3>1. j - (i - 1) \in 1..Len(s) - i /\ (j - (i - 1)) + i = j + 1
        BY <1>1, <2>3
    <3>2. after[j - (i - 1)] = s[j + 1]
        BY <1>3, <3>1
    <3> QED
        BY <1>1, <2>1, <2>3, <3>2
  <2> QED
    BY <2>2, <2>3
<1> QED
    BY <1>4, <1>5, <1>6, <1>7

\* A queue without repetitions, less one element, is one of the others.
LEMMA RemoveAtContains ==
    ASSUME NEW s \in Seq(Request), NEW i \in DOMAIN s, IsInjective(s)
    PROVE  /\ IsInjective(RemoveAt(s, i))
           /\ \A q : Contains(RemoveAt(s, i), q) <=> Contains(s, q) /\ q # s[i]
<1> DEFINE t == RemoveAt(s, i)
<1>1. i \in 1..Len(s) /\ Len(s) \in Nat /\ DOMAIN s = 1..Len(s)
    OBVIOUS
<1>2. /\ t \in Seq(Request) /\ Len(t) = Len(s) - 1
      /\ \A j \in 1..Len(s) - 1 : t[j] = IF j < i THEN s[j] ELSE s[j + 1]
    BY RemoveAtElements
<1> HIDE DEF t
<1>3. DOMAIN t = 1..Len(s) - 1
    BY <1>2
<1>4. \A a, b \in 1..Len(s) : s[a] = s[b] => a = b
    BY <1>1 DEF IsInjective
<1>5. ASSUME NEW a \in 1..Len(s) - 1, NEW b \in 1..Len(s) - 1, t[a] = t[b]
      PROVE  a = b
  <2> DEFINE from(j) == IF j < i THEN j ELSE j + 1
  <2>1. from(a) \in 1..Len(s) /\ from(b) \in 1..Len(s)
    BY <1>1
  <2>2. t[a] = s[from(a)] /\ t[b] = s[from(b)]
    BY <1>2
  <2>3. from(a) = from(b)
    BY <1>4, <1>5, <2>1, <2>2
  <2> QED
    BY <1>1, <2>3
<1>6. ASSUME NEW q, NEW j \in 1..Len(t), t[j] = q
      PROVE  Contains(s, q) /\ q # s[i]
  <2>1. j \in 1..Len(s) - 1 /\ t[j] = IF j < i THEN s[j] ELSE s[j + 1]
    BY <1>1, <1>2
  <2>2. CASE j < i
    BY <1>1, <1>4, <1>6, <2>1, <2>2 DEF Contains
  <2>3. CASE ~(j < i)
    <3>1. j + 1 \in 1..Len(s) /\ s[j + 1] = q /\ j + 1 # i
        BY <1>1, <1>6, <2>1, <2>3
    <3> QED
        BY <1>1, <1>4, <3>1 DEF Contains
  <2> QED
    BY <2>2, <2>3
<1>7. ASSUME NEW q, NEW j \in 1..Len(s), s[j] = q, q # s[i]
      PROVE  Contains(t, q)
  <2>1. CASE j < i
    <3>1. j \in 1..Len(t) /\ t[j] = q
        BY <1>1, <1>2, <1>7, <2>1
    <3> QED
        BY <3>1 DEF Contains
  <2>2. CASE j > i
    <3>1. j - 1 \in 1..Len(t) /\ t[j - 1] = q
        BY <1>1, <1>2, <1>7, <2>2
    <3> QED
        BY <3>1 DEF Contains
  <2> QED
    BY <1>1, <1>7, <2>1, <2>2
<1>8. IsInjective(t)
    BY <1>3, <1>5 DEF IsInjective
<1>9. \A q : Contains(t, q) <=> Contains(s, q) /\ q # s[i]
    BY <1>6, <1>7 DEF Contains
<1> QED
    BY <1>8, <1>9 DEF t

\* The slot of one request that stops hashing.
LEMMA OneHasherLess ==
    ASSUME IInv, NEW r \in Request, pc[r] = "hashing"
    PROVE  /\ IsFiniteSet(Hashing \ {r}) /\ used >= 1
           /\ Cardinality(Hashing \ {r}) = used - 1
<1>1. r \in Hashing /\ IsFiniteSet(Hashing) /\ Cardinality(Hashing) = used
    BY DEF IInv, Semaphore, BcryptBounded, Hashing
<1>2. IsFiniteSet(Hashing \ {r}) /\ Cardinality(Hashing \ {r}) = used - 1
    BY <1>1, FS_RemoveElement
<1>3. Cardinality(Hashing \ {r}) \in Nat /\ used \in Int
    BY <1>2, FS_CardinalityType, SlotsAssumption DEF IInv, TypeOK
<1> QED
    BY <1>2, <1>3

\* The slot of one request more.
LEMMA OneHasherMore ==
    ASSUME NEW S, IsFiniteSet(S), NEW r, r \notin S
    PROVE  IsFiniteSet(S \cup {r}) /\ Cardinality(S \cup {r}) = Cardinality(S) + 1
BY FS_AddElement

\* A slot that comes back is free, or the first in the queue has it.
LEMMA ReleaseKeeps ==
    ASSUME IInv, NEW r \in Request, pc[r] = "hashing", NEW to \in Places,
           to \notin {"hashing", "waiting", "idle", "find", "acquire"}, Release(r, to),
           UNCHANGED <<users, form, found, gone, created, known>>,
           to \in {"open", "welcome"} => Matches(form[r]), to = "refused" => ~known[r]
    PROVE  IInv'
<1>1. /\ TypeOK /\ Sound(r) /\ used \in Nat /\ Slots \in Nat /\ used <= Slots
      /\ queue \in Seq(Request)
    BY SlotsAssumption DEF IInv, TypeOK
<1>2. /\ IsFiniteSet(Hashing \ {r}) /\ used >= 1
      /\ Cardinality(Hashing \ {r}) = used - 1
    BY OneHasherLess
<1>3. CASE queue = <<>>
  <2>1. pc' = [pc EXCEPT ![r] = to] /\ used' = used - 1 /\ queue' = queue
    BY <1>3 DEF Release
  <2>2. Hashing' = Hashing \ {r}
    BY <1>1, <2>1 DEF Hashing, TypeOK
  <2>3. \A q \in Request : pc'[q] = "waiting" <=> pc[q] = "waiting"
    BY <1>1, <2>1 DEF TypeOK
  <2>4. Semaphore'
    <3>1. used' \in 0..Slots /\ used' = Cardinality(Hashing') /\ IsFiniteSet(Hashing')
        BY <1>1, <1>2, <2>1, <2>2
    <3>2. IsInjective(queue') /\ queue' = <<>>
        BY <1>3, <2>1 DEF IInv, Semaphore, BcryptBounded
    <3>3. \A q \in Request : Contains(queue', q) <=> pc'[q] = "waiting"
        BY <2>1, <2>3 DEF IInv, Semaphore, BcryptBounded
    <3> QED
        BY <3>1, <3>2, <3>3 DEF Semaphore, BcryptBounded, Hashing
  <2>5. Typed /\ pc'[r] = to /\ used' \in 0..Slots /\ queue' \in Seq(Request)
    BY <1>1, <1>2, <2>1 DEF TypeOK, Typed, Places
  <2>6. \A q \in Request : q # r => Unmoved(q) /\ pc'[q] = pc[q]
    BY <1>1, <2>1 DEF TypeOK, Unmoved
  <2>7. Grows /\ Unique'
    BY SameTable
  <2>8. Sound(r)'
    <3>1. Matches(form[r])' = Matches(form[r])
        BY DEF Matches, Stored
    <3> QED
        BY <1>1, <2>5, <3>1 DEF Sound
  <2> QED
    BY <2>4, <2>5, <2>6, <2>7, <2>8, OneRequestSteps
<1>4. CASE queue # <<>>
  <2> DEFINE first == Head(queue)
  <2>1. /\ pc' = [pc EXCEPT ![r] = to, ![first] = "hashing"]
        /\ queue' = Tail(queue) /\ used' = used
    BY <1>4 DEF Release
  <2>2. /\ first = queue[1] /\ 1 \in DOMAIN queue /\ first \in Request
        /\ Contains(queue, first)
    BY <1>1, <1>4 DEF Contains
  <2>3. pc[first] = "waiting" /\ first # r
    BY <2>2 DEF IInv, Semaphore, BcryptBounded
  <2>4. /\ pc'[r] = to /\ pc'[first] = "hashing"
        /\ \A q \in Request : q # r /\ q # first => pc'[q] = pc[q]
        /\ pc' \in [Request -> Places]
    BY <1>1, <2>1, <2>2, <2>3 DEF TypeOK, Places
  <2>5. Hashing' = (Hashing \ {r}) \cup {first} /\ first \notin Hashing \ {r}
    BY <1>1, <2>2, <2>3, <2>4 DEF Hashing
  <2>6. IsFiniteSet(Hashing') /\ Cardinality(Hashing') = used
    <3>1. /\ IsFiniteSet((Hashing \ {r}) \cup {first})
          /\ Cardinality((Hashing \ {r}) \cup {first}) = Cardinality(Hashing \ {r}) + 1
        BY <1>2, <2>5, OneHasherMore
    <3> QED
        BY <1>1, <1>2, <2>5, <3>1
  <2>7. /\ IsInjective(queue') /\ queue' \in Seq(Request)
        /\ \A q : Contains(queue', q) <=> Contains(queue, q) /\ q # first
    <3>1. queue' = RemoveAt(queue, 1)
      <4>1. /\ RemoveAt(queue, 1) \in Seq(Request) /\ Tail(queue) \in Seq(Request)
            /\ Len(RemoveAt(queue, 1)) = Len(queue) - 1 /\ Len(Tail(queue)) = Len(queue) - 1
            /\ \A j \in 1..Len(queue) - 1 : RemoveAt(queue, 1)[j] = queue[j + 1]
            /\ \A j \in 1..Len(queue) - 1 : Tail(queue)[j] = queue[j + 1]
        BY <1>1, <1>4, <2>2, RemoveAtElements
      <4> QED
        BY <2>1, <4>1
    <3>2. IsInjective(queue)
        BY DEF IInv, Semaphore, BcryptBounded
    <3> QED
        BY <1>1, <2>2, <3>1, <3>2, RemoveAtContains, RemoveAtElements
  <2>8. \A q \in Request : pc'[q] = "waiting" <=> pc[q] = "waiting" /\ q # first
    BY <2>3, <2>4
  <2>9. Semaphore'
    <3>1. used' \in 0..Slots /\ used' = Cardinality(Hashing') /\ used' = Slots
        BY <1>1, <1>4, <2>1, <2>6 DEF IInv, Semaphore, BcryptBounded
    <3>2. \A q \in Request : Contains(queue', q) <=> pc'[q] = "waiting"
        BY <2>7, <2>8 DEF IInv, Semaphore, BcryptBounded
    <3> QED
        BY <2>6, <2>7, <3>1, <3>2 DEF Semaphore, BcryptBounded, Hashing
  <2>10. Typed /\ used' \in 0..Slots
    BY <1>1, <2>1, <2>4 DEF TypeOK, Typed
  <2>11. \A q \in Request :
             q # r => /\ Unmoved(q)
                      /\ pc'[q] = pc[q] \/ (pc[q] = "waiting" /\ pc'[q] = "hashing")
    BY <2>3, <2>4 DEF Unmoved
  <2>12. Grows /\ Unique'
    BY SameTable
  <2>13. Sound(r)'
    <3>1. Matches(form[r])' = Matches(form[r])
        BY DEF Matches, Stored
    <3> QED
        BY <1>1, <2>4, <3>1 DEF Sound
  <2> QED
    BY <2>7, <2>9, <2>10, <2>11, <2>12, <2>13, OneRequestSteps
<1> QED
    BY <1>3, <1>4

\* bcrypt says whether the password is that of the account that was found.
LEMMA HashKeeps ==
    ASSUME IInv, NEW r \in Request, Hash(r)
    PROVE  IInv'
<1>1. /\ TypeOK /\ Sound(r) /\ pc[r] = "hashing" /\ Release(r, Verdict(r))
      /\ UNCHANGED <<users, form, found, gone, created, known>>
    BY DEF IInv, Hash, history
<1>2. form[r] \in Form /\ form[r].password \in Password
      /\ form[r].kind \in {"register", "login"}
    BY <1>1 DEF TypeOK, Form
<1>3. Verdict(r) = "open" => Matches(form[r])
  <2> HAVE Verdict(r) = "open"
  <2>1. form[r].kind = "login" /\ found[r] = form[r].password
    BY <1>2 DEF Verdict
  <2>2. \E e \in Stored(Normal(form[r].email)) : users[e] = found[r]
    BY <1>1, <1>2, <2>1, PasswordAssumption DEF Sound
  <2> QED
    BY <2>1, <2>2 DEF Matches
<1>4. Verdict(r) = "refused" => ~known[r]
    BY <1>1, <1>2 DEF Verdict, Sound
<1>5. Verdict(r) \in {"create", "open", "refused"}
    BY DEF Verdict
<1>6. Verdict(r) \in Places
    BY <1>5 DEF Places, Answer
<1> QED
    BY <1>1, <1>3, <1>4, <1>5, <1>6, ReleaseKeeps

\* A failed hash gives its slot back.
LEMMA HashFailsKeeps ==
    ASSUME IInv, NEW r \in Request, HashFails(r)
    PROVE  IInv'
BY ReleaseKeeps DEF HashFails, history, Places, Answer

\* A slot is taken only when there is one, and then nobody is waiting.
LEMMA AcquireKeeps ==
    ASSUME IInv, NEW r \in Request, AcquireBcrypt(r)
    PROVE  IInv'
<1>1. /\ TypeOK /\ Sound(r) /\ pc[r] = "acquire"
      /\ UNCHANGED <<users, form, found, gone, created, known>>
      /\ used \in Nat /\ Slots \in Nat /\ used <= Slots /\ queue \in Seq(Request)
    BY SlotsAssumption DEF IInv, TypeOK, AcquireBcrypt, history
<1>2. Grows /\ Unique'
    BY <1>1, SameTable
<1>3. Matches(form[r])' = Matches(form[r])
      /\ ((\E e \in Stored(Normal(form[r].email)) : users[e] = found[r])
             => (\E e \in Stored(Normal(form[r].email)) : users[e] = found[r])')
    BY <1>1 DEF Matches, Stored
<1>4. CASE used < Slots
  <2>1. pc' = [pc EXCEPT ![r] = "hashing"] /\ used' = used + 1 /\ queue' = queue
    BY <1>4 DEF AcquireBcrypt
  <2>2. Hashing' = Hashing \cup {r} /\ r \notin Hashing
    BY <1>1, <2>1 DEF Hashing, TypeOK
  <2>3. IsFiniteSet(Hashing) /\ Cardinality(Hashing) = used
    BY DEF IInv, Semaphore, BcryptBounded, Hashing
  <2>4. IsFiniteSet(Hashing') /\ Cardinality(Hashing') = used'
    <3>1. /\ IsFiniteSet(Hashing \cup {r})
          /\ Cardinality(Hashing \cup {r}) = Cardinality(Hashing) + 1
        BY <2>2, <2>3, OneHasherMore
    <3> QED
        BY <2>1, <2>2, <2>3, <3>1
  <2>5. \A q \in Request : pc'[q] = "waiting" <=> pc[q] = "waiting"
    BY <1>1, <2>1 DEF TypeOK
  <2>6. Semaphore'
    <3>1. queue = <<>>
        BY <1>1, <1>4 DEF IInv, Semaphore, BcryptBounded
    <3>2. used' \in 0..Slots
        BY <1>1, <1>4, <2>1
    <3>3. IsInjective(queue') /\ \A q \in Request : Contains(queue', q) <=> pc'[q] = "waiting"
        BY <2>1, <2>5 DEF IInv, Semaphore, BcryptBounded
    <3> QED
        BY <2>1, <2>4, <3>1, <3>2, <3>3 DEF Semaphore, BcryptBounded, Hashing
  <2>7. /\ Typed /\ pc'[r] = "hashing" /\ used' \in 0..Slots /\ queue' \in Seq(Request)
        /\ \A q \in Request : q # r => Unmoved(q) /\ pc'[q] = pc[q]
    BY <1>1, <1>4, <2>1 DEF TypeOK, Typed, Places, Unmoved
  <2>8. Sound(r)'
    BY <1>1, <1>3, <2>7 DEF Sound
  <2> QED
    BY <1>2, <2>6, <2>7, <2>8, OneRequestSteps
<1>5. CASE ~(used < Slots)
  <2>1. /\ pc' = [pc EXCEPT ![r] = "waiting"] /\ used' = used
        /\ queue' = Append(queue, r) /\ used = Slots
    BY <1>1, <1>5 DEF AcquireBcrypt
  <2>2. \A q \in Request : /\ pc'[q] = "hashing" <=> pc[q] = "hashing"
                           /\ pc'[q] = "waiting" <=> pc[q] = "waiting" \/ q = r
    BY <1>1, <2>1 DEF TypeOK
  <2>3. Hashing' = Hashing
    BY <2>2 DEF Hashing
  <2>4. /\ queue' \in Seq(Request) /\ Len(queue') = Len(queue) + 1
        /\ \A j \in 1..Len(queue) : queue'[j] = queue[j]
        /\ queue'[Len(queue) + 1] = r
        /\ DOMAIN queue' = 1..Len(queue) + 1 /\ DOMAIN queue = 1..Len(queue)
        /\ Len(queue) \in Nat
    BY <1>1, <2>1
  <2>5. ~Contains(queue, r)
    BY <1>1 DEF IInv, Semaphore, BcryptBounded
  <2>6. IsInjective(queue')
    <3>1. \A a, b \in 1..Len(queue) : queue[a] = queue[b] => a = b
        BY <2>4 DEF IInv, Semaphore, BcryptBounded, IsInjective
    <3>2. \A a \in 1..Len(queue) : queue[a] # r
        BY <2>5 DEF Contains
    <3> SUFFICES ASSUME NEW a \in 1..Len(queue) + 1, NEW b \in 1..Len(queue) + 1,
                        queue'[a] = queue'[b]
                 PROVE  a = b
        BY <2>4 DEF IsInjective
    <3> QED
        BY <2>4, <3>1, <3>2
  <2>7. ASSUME NEW q \in Request
        PROVE  Contains(queue', q) <=> Contains(queue, q) \/ q = r
    <3>1. Contains(queue, q) => Contains(queue', q)
        BY <2>4 DEF Contains
    <3>2. Contains(queue', r)
        <4>1. Len(queue) + 1 \in 1..Len(queue')
            BY <2>4
        <4> QED
            BY <2>4, <4>1 DEF Contains
    <3>3. Contains(queue', q) => Contains(queue, q) \/ q = r
        BY <2>4 DEF Contains
    <3> QED
        BY <3>1, <3>2, <3>3
  <2>8. Semaphore'
    <3>1. used' \in 0..Slots /\ used' = Slots
        BY <1>1, <2>1
    <3>2. used' = Cardinality(Hashing') /\ IsFiniteSet(Hashing')
        BY <2>1, <2>3 DEF IInv, Semaphore, BcryptBounded, Hashing
    <3>3. \A q \in Request : Contains(queue', q) <=> pc'[q] = "waiting"
        BY <2>2, <2>7 DEF IInv, Semaphore, BcryptBounded
    <3> QED
        BY <2>6, <3>1, <3>2, <3>3 DEF Semaphore, BcryptBounded, Hashing
  <2>9. /\ Typed /\ pc'[r] = "waiting" /\ used' \in 0..Slots
        /\ \A q \in Request : q # r => Unmoved(q) /\ pc'[q] = pc[q]
    BY <1>1, <2>1 DEF TypeOK, Typed, Places, Unmoved
  <2>10. Sound(r)'
    BY <1>1, <1>3, <2>9 DEF Sound
  <2> QED
    BY <1>2, <2>4, <2>8, <2>9, <2>10, OneRequestSteps
<1> QED
    BY <1>4, <1>5

\* Who gives up waiting leaves the queue and takes nothing along.
LEMMA AbortKeeps ==
    ASSUME IInv, NEW r \in Request, AbortBcrypt(r)
    PROVE  IInv'
<1>1. /\ TypeOK /\ Sound(r) /\ pc' = [pc EXCEPT ![r] = "failed"]
      /\ UNCHANGED <<users, form, found, gone, used, created, known>>
      /\ queue \in Seq(Request)
    BY DEF IInv, TypeOK, AbortBcrypt, history
<1>2. CASE pc[r] = "acquire" /\ UNCHANGED queue
  <2>1. Grows /\ Unique'
    BY <1>1, SameTable
  <2> QED
    BY <1>1, <1>2, <2>1, PlainStep DEF TypeOK, Places, Answer
<1>3. ASSUME NEW i \in DOMAIN queue, queue[i] = r, queue' = RemoveAt(queue, i)
      PROVE  IInv'
  <2>1. pc[r] = "waiting"
    <3>1. Contains(queue, r)
        BY <1>1, <1>3 DEF Contains
    <3> QED
        BY <3>1 DEF IInv, Semaphore, BcryptBounded
  <2>2. /\ queue' \in Seq(Request) /\ IsInjective(queue')
        /\ \A q : Contains(queue', q) <=> Contains(queue, q) /\ q # r
    BY <1>1, <1>3, RemoveAtElements, RemoveAtContains DEF IInv, Semaphore, BcryptBounded
  <2>3. \A q \in Request : /\ pc'[q] = "hashing" <=> pc[q] = "hashing"
                           /\ pc'[q] = "waiting" <=> pc[q] = "waiting" /\ q # r
    BY <1>1, <2>1 DEF TypeOK
  <2>4. Semaphore'
    <3>1. Hashing' = Hashing
        BY <2>3 DEF Hashing
    <3>2. used' \in 0..Slots /\ used' = Cardinality(Hashing') /\ IsFiniteSet(Hashing')
        BY <1>1, <3>1 DEF IInv, Semaphore, BcryptBounded, Hashing
    <3>3. \A q \in Request : Contains(queue', q) <=> pc'[q] = "waiting"
        BY <2>2, <2>3 DEF IInv, Semaphore, BcryptBounded
    <3>4. used' = Slots
        BY <1>1, <1>3 DEF IInv, Semaphore, BcryptBounded
    <3> QED
        BY <2>2, <3>2, <3>3, <3>4 DEF Semaphore, BcryptBounded, Hashing
  <2>5. /\ Typed /\ pc'[r] = "failed" /\ used' \in 0..Slots
        /\ \A q \in Request : q # r => Unmoved(q) /\ pc'[q] = pc[q]
    BY <1>1 DEF TypeOK, Typed, Places, Answer, Unmoved
  <2>6. Grows /\ Unique'
    BY <1>1, SameTable
  <2>7. Sound(r)'
    <3>1. Matches(form[r])' = Matches(form[r])
        BY <1>1 DEF Matches, Stored
    <3> QED
        BY <1>1, <2>5, <3>1 DEF Sound
  <2> QED
    BY <2>2, <2>4, <2>5, <2>6, <2>7, OneRequestSteps
<1> QED
    BY <1>2, <1>3 DEF AbortBcrypt, LeaveQueue

-----------------------------------------------------------------------------
(* The answer, the client, the process *)

\* The answer ends the request.
LEMMA RespondKeeps ==
    ASSUME IInv, NEW r \in Request, Respond(r)
    PROVE  IInv'
<1>1. /\ TypeOK /\ pc[r] \in Answer /\ pc' = [pc EXCEPT ![r] = "idle"] /\ Forget({r})
      /\ UNCHANGED <<users, used, queue>>
    BY DEF IInv, Respond
<1>2. NoForm \in Form
    BY NoFormIsForm
<1>3. /\ form' \in [Request -> Form] /\ created' \in [Request -> BOOLEAN]
      /\ found' \in [Request -> Password \cup {NoPassword}]
      /\ gone' \in [Request -> BOOLEAN] /\ known' \in [Request -> BOOLEAN]
      /\ found'[r] = NoPassword /\ created'[r] = FALSE
      /\ \A q \in Request : q # r => Unmoved(q)
    BY <1>1, <1>2 DEF TypeOK, Forget, Unmoved
<1>4. /\ pc' \in [Request -> Places] /\ pc'[r] = "idle"
      /\ \A q \in Request : q # r => pc'[q] = pc[q]
    BY <1>1 DEF TypeOK, Places
<1>5. Typed /\ Sound(r)'
    BY <1>3, <1>4 DEF Typed, Sound
<1>6. Semaphore'
    BY <1>1, <1>4, SemaphoreStays DEF Answer
<1>7. Grows /\ Unique'
    BY <1>1, SameTable
<1> QED
    BY <1>1, <1>3, <1>4, <1>5, <1>6, <1>7, OneRequestSteps DEF TypeOK

\* The request goes on without its client.
LEMMA ClientLeavesKeeps ==
    ASSUME IInv, NEW r \in Request, ClientLeaves(r)
    PROVE  IInv'
<1>1. /\ TypeOK /\ gone' = [gone EXCEPT ![r] = TRUE]
      /\ UNCHANGED <<users, pc, form, found, used, queue, created, known>>
    BY DEF IInv, ClientLeaves, history
<1>2. Grows /\ Unique' /\ Semaphore'
    BY <1>1, SameTable, SemaphoreStays
<1>3. Typed /\ \A q \in Request : Unmoved(q) /\ pc'[q] = pc[q]
    BY <1>1 DEF TypeOK, Typed, Unmoved, Places
<1>4. Sound(r)'
    BY <1>2, <1>3, SoundStays
<1> QED
    BY <1>1, <1>2, <1>3, <1>4, OneRequestSteps DEF TypeOK

\* A new process has its slots and no requests; the table is as it was.
LEMMA RestartKeeps == IInv /\ Restart => IInv'
<1> SUFFICES ASSUME IInv, Restart PROVE IInv'
    OBVIOUS
<1>1. /\ pc' = [r \in Request |-> "idle"] /\ Forget(Request)
      /\ used' = 0 /\ queue' = <<>> /\ users' = users
    BY DEF Restart
<1>2. NoForm \in Form
    BY NoFormIsForm
<1>3. TypeOK'
    BY <1>1, <1>2, SlotsAssumption DEF IInv, TypeOK, Forget
<1>4. Semaphore'
  <2>1. {r \in Request : pc'[r] = "hashing"} = {} /\ Hashing' = {}
    BY <1>1 DEF Hashing
  <2>2. used' = Cardinality({}) /\ IsFiniteSet({}) /\ used' \in 0..Slots
    BY <1>1, FS_EmptySet, SlotsAssumption
  <2>3. IsInjective(queue') /\ \A q \in Request : ~Contains(queue', q)
    BY <1>1 DEF IsInjective, Contains
  <2> QED
    BY <1>1, <2>1, <2>2, <2>3 DEF Semaphore, BcryptBounded
<1>5. Unique' /\ \A r \in Request : Sound(r)'
    BY <1>1 DEF IInv, Unique, Sound, Forget
<1> QED
    BY <1>3, <1>4, <1>5 DEF IInv

-----------------------------------------------------------------------------
(* The theorems *)

\* No request, and one account for each address.
LEMMA InitIInv == Init => IInv
<1> SUFFICES ASSUME Init PROVE IInv
    OBVIOUS
<1>1. NoForm \in Form
    BY NoFormIsForm
<1>2. \E S \in SUBSET Email : users \in [S -> Password]
    BY DEF Init
<1>3. TypeOK
    BY <1>1, <1>2, SlotsAssumption DEF Init, TypeOK
<1>4. Semaphore
  <2>1. {r \in Request : pc[r] = "hashing"} = {} /\ Hashing = {}
    BY DEF Init, Hashing
  <2>2. used = Cardinality({}) /\ IsFiniteSet({}) /\ used \in 0..Slots
    BY FS_EmptySet, SlotsAssumption DEF Init
  <2>3. IsInjective(queue) /\ \A q \in Request : ~Contains(queue, q)
    BY DEF Init, IsInjective, Contains
  <2> QED
    BY <2>1, <2>2, <2>3 DEF Init, Semaphore, BcryptBounded
<1>5. Unique /\ \A r \in Request : Sound(r)
    BY DEF Init, Unique, Sound
<1> QED
    BY <1>3, <1>4, <1>5 DEF IInv

\* Every step keeps the invariant.
LEMMA NextIInv == IInv /\ [Next]_vars => IInv'
<1> SUFFICES ASSUME IInv, [Next]_vars PROVE IInv'
    OBVIOUS
<1>1. ASSUME NEW r \in Request, NEW f \in Sent, Submit(r, f) PROVE IInv'
    BY <1>1, SubmitKeeps
<1>2. ASSUME NEW r \in Request, Handle(r) PROVE IInv'
    BY <1>2, FindByEmailKeeps, AcquireKeeps, AbortKeeps, HashKeeps, HashFailsKeeps,
       CreateKeeps, EmailTakenKeeps, OpenSessionKeeps, DatabaseFailsKeeps, RespondKeeps
    DEF Handle
<1>3. ASSUME NEW r \in Request, ClientLeaves(r) PROVE IInv'
    BY <1>3, ClientLeavesKeeps
<1>4. CASE Restart
    BY <1>4, RestartKeeps
<1>5. CASE UNCHANGED vars
  <2>1. UNCHANGED <<users, pc, form, found, gone, used, queue, created, known>>
    BY <1>5 DEF vars, request, history
  <2>2. Grows /\ Unique' /\ Semaphore'
    BY <2>1, SameTable, SemaphoreStays
  <2>3. \A q \in Request : Sound(q)'
    BY <2>1, <2>2, SoundStays DEF Unmoved
  <2> QED
    BY <2>1, <2>2, <2>3 DEF IInv, TypeOK
<1> QED
    BY <1>1, <1>2, <1>3, <1>4, <1>5 DEF Next

\* The invariant holds in every reachable state.
THEOREM AccountsInvariant == Spec => []IInv
BY InitIInv, NextIInv, PTL DEF Spec

\* Every variable keeps its type.
THEOREM TypeCorrect == Spec => []TypeOK
<1>1. IInv => TypeOK
    BY DEF IInv
<1> QED
    BY <1>1, AccountsInvariant, PTL

\* Register and Login let nobody in without an account and its password.
THEOREM WelcomeIsDeserved == Spec => []WelcomeMeansAccount
<1>1. IInv => WelcomeMeansAccount
    BY DEF IInv, Sound, WelcomeMeansAccount
<1> QED
    BY <1>1, AccountsInvariant, PTL

\* Login refuses nobody who had an account and its password.
THEOREM RefusalIsDeserved == Spec => []RefusedForCause
<1>1. IInv => RefusedForCause
    BY DEF IInv, Sound, RefusedForCause
<1> QED
    BY <1>1, AccountsInvariant, PTL

\* A registration that took effect is an account of its own for ever.
THEOREM RegistrationLasts == Spec => []RegistrationStands
<1>1. IInv => RegistrationStands
  <2> SUFFICES ASSUME IInv, NEW r \in Request, created[r]
               PROVE  /\ Matches(form[r])
                      /\ Cardinality(Stored(Normal(form[r].email))) = 1
    BY DEF RegistrationStands
  <2>1. Matches(form[r])
    BY DEF IInv, Sound
  <2>2. PICK e \in Stored(Normal(form[r].email)) : TRUE
    BY <2>1 DEF Matches
  <2>3. Stored(Normal(form[r].email)) = {e}
    BY <2>2 DEF IInv, Unique, Stored
  <2> QED
    BY <2>1, <2>3, FS_Singleton
<1> QED
    BY <1>1, AccountsInvariant, PTL

\* The semaphore's slots are neither lost nor given twice.
THEOREM SlotsAreKept == Spec => []BcryptBounded
<1>1. IInv => BcryptBounded
    BY DEF IInv, Semaphore
<1> QED
    BY <1>1, AccountsInvariant, PTL

=============================================================================
