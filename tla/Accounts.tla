------------------------------ MODULE Accounts ------------------------------
(***************************************************************************)
(* Register and Login of internal/auth/service.go over db/users.go, and    *)
(* what the handlers of web/server.go answer: concurrent forms, the users  *)
(* table, the semaphore that bounds bcrypt, clients that leave, statements *)
(* that fail with or without effect, restarts.                             *)
(*                                                                         *)
(* An e-mail is a spelling of an address.  Normal is the application's     *)
(* ToLower and TrimSpace, Lower the database's lower(), which neither      *)
(* trims nor agrees with ToLower on every letter.  A password is what      *)
(* bcrypt reads of it, its first 72 bytes, and a hash stands for one.      *)
(* Sessions are the subject of the module Sessions: opening one may fail.  *)
(***************************************************************************)
EXTENDS Integers, Sequences, SequencesExt, FiniteSets

CONSTANTS Request,    \* concurrent requests
          Email,      \* spellings of addresses
          Normal(_),  \* the spelling the application looks for and stores
          Lower(_),   \* the spelling the database compares
          Password,   \* passwords
          Dummy,      \* the one behind s.dummyHash
          NoPassword, \* no hash read
          Acceptable, \* the forms ValidateRegistration accepts
          Sent,       \* the forms visitors send
          Slots       \* cap(s.bcryptSem)

ASSUME NormalAssumption ==
    /\ Email # {}
    /\ \A e \in Email : Normal(e) \in Email /\ Lower(Normal(e)) = Normal(e)
ASSUME PasswordAssumption == Dummy \in Password /\ NoPassword \notin Password
ASSUME SlotsAssumption == Slots \in Nat \ {0}

Form == [kind : {"register", "login"}, email : Email, password : Password]

ASSUME FormsAssumption == Acceptable \subseteq Form /\ Sent \subseteq Form

VARIABLES
    users,    \* the users table: the password of each stored e-mail
    pc,       \* where each request is, or its answer
    form,     \* what it was sent
    found,    \* the password behind the hash Login read
    gone,     \* its context is done
    used,     \* len(s.bcryptSem)
    queue,    \* the requests blocked on it, in order
    created,  \* history: whether its INSERT took effect
    known     \* history: whether its credentials were good when it arrived

request == <<pc, form, found, gone>>
history == <<created, known>>
vars == <<users, request, used, queue, history>>

Stored(address) == {e \in DOMAIN users : Lower(e) = address}

\* An account with that address and that password.
Matches(f) == \E e \in Stored(Normal(f.email)) : users[e] = f.password

NoForm == CHOOSE f \in Form : TRUE

\* Rows may have been inserted without the application's normalisation.
Init == /\ users \in UNION {[S -> Password] : S \in SUBSET Email}
        /\ \A a, b \in DOMAIN users : Lower(a) = Lower(b) => a = b
        /\ pc = [r \in Request |-> "idle"]
        /\ form = [r \in Request |-> NoForm]
        /\ found = [r \in Request |-> NoPassword]
        /\ gone = [r \in Request |-> FALSE]
        /\ used = 0
        /\ queue = <<>>
        /\ created = [r \in Request |-> FALSE]
        /\ known = [r \in Request |-> FALSE]

Goto(r, from, to) == pc[r] = from /\ pc' = [pc EXCEPT ![r] = to]

-----------------------------------------------------------------------------
(* registerSubmit and loginSubmit up to the password *)

\* ValidateRegistration answers before anything is spent on the form.
Submit(r, f) ==
    /\ pc[r] = "idle"
    /\ form' = [form EXCEPT ![r] = f]
    /\ pc' = [pc EXCEPT ![r] = IF f.kind = "login" THEN "find"
                               ELSE IF f \in Acceptable THEN "acquire"
                               ELSE "invalid"]
    /\ known' = [known EXCEPT ![r] = Matches(f)]
    /\ UNCHANGED <<users, found, gone, used, queue, created>>

\* Mutant: the comparison is with the stored spelling.
FindByEmailMutantExact(r) ==
    /\ Goto(r, "find", "acquire")
    /\ ~gone[r]
    /\ found' = [found EXCEPT ![r] = IF Normal(form[r].email) \in DOMAIN users
                                     THEN users[Normal(form[r].email)]
                                     ELSE NoPassword]
    /\ UNCHANGED <<users, form, gone, used, queue, history>>

\* WHERE lower(email) = $1.  Login goes on to bcrypt in either case.
FindByEmail(r) ==
    /\ Goto(r, "find", "acquire")
    /\ ~gone[r]
    /\ LET rows == Stored(Normal(form[r].email))
       IN  \/ /\ rows = {}
              /\ UNCHANGED found
           \/ \E e \in rows : found' = [found EXCEPT ![r] = users[e]]
    /\ UNCHANGED <<users, form, gone, used, queue, history>>

-----------------------------------------------------------------------------
(* acquireBcrypt, hashPassword and checkPassword *)

\* A full channel blocks the request behind those that came before.
AcquireBcrypt(r) ==
    /\ pc[r] = "acquire"
    /\ IF used < Slots
       THEN /\ pc' = [pc EXCEPT ![r] = "hashing"]
            /\ used' = used + 1
            /\ UNCHANGED queue
       ELSE /\ pc' = [pc EXCEPT ![r] = "waiting"]
            /\ queue' = Append(queue, r)
            /\ UNCHANGED used
    /\ UNCHANGED <<users, form, found, gone, history>>

\* select prefers neither case: a done context may also get a slot.
LeaveQueue(r) == \/ pc[r] = "acquire" /\ UNCHANGED queue
                 \/ \E i \in DOMAIN queue : queue[i] = r /\ queue' = RemoveAt(queue, i)

\* Mutant: the slot is given back although none was taken.
AbortBcryptMutantReleases(r) ==
    /\ gone[r]
    /\ LeaveQueue(r)
    /\ pc' = [pc EXCEPT ![r] = "failed"]
    /\ used' = IF used > 0 THEN used - 1 ELSE used
    /\ UNCHANGED <<users, form, found, gone, history>>

AbortBcrypt(r) ==
    /\ gone[r]
    /\ LeaveQueue(r)
    /\ pc' = [pc EXCEPT ![r] = "failed"]
    /\ UNCHANGED <<users, form, found, gone, used, history>>

\* Mutant: nobody receives from the channel.
ReleaseMutantLeaks(r, to) ==
    pc' = [pc EXCEPT ![r] = to] /\ UNCHANGED <<used, queue>>

\* The deferred release: receiving from a full channel lets the first of the
\* blocked senders in.
Release(r, to) ==
    IF queue = <<>>
    THEN /\ pc' = [pc EXCEPT ![r] = to]
         /\ used' = used - 1
         /\ UNCHANGED queue
    ELSE /\ pc' = [pc EXCEPT ![r] = to, ![Head(queue)] = "hashing"]
         /\ queue' = Tail(queue)
         /\ UNCHANGED used

\* Mutant: the result of the dummy comparison is believed.
VerdictMutantDummy(r) ==
    IF form[r].kind = "register" THEN "create"
    ELSE IF form[r].password = (IF found[r] = NoPassword THEN Dummy ELSE found[r])
    THEN "open"
    ELSE "refused"

\* The comparison with the dummy hash is made for its cost only.
Verdict(r) == IF form[r].kind = "register" THEN "create"
              ELSE IF found[r] = form[r].password THEN "open"
              ELSE "refused"

Hash(r) == /\ pc[r] = "hashing"
           /\ Release(r, Verdict(r))
           /\ UNCHANGED <<users, form, found, gone, history>>

\* bcrypt.GenerateFromPassword fails.
HashFails(r) == /\ pc[r] = "hashing"
                /\ form[r].kind = "register"
                /\ Release(r, "failed")
                /\ UNCHANGED <<users, form, found, gone, history>>

-----------------------------------------------------------------------------
(* UserStore.Create and openSession *)

\* The unique index on lower(email).
Taken(r) == Stored(Normal(form[r].email)) # {}

\* Mutant: a registration replaces the password of an account that exists.
InsertMutantUpsert(r) ==
    /\ users' = [e \in DOMAIN users \cup {Normal(form[r].email)} |->
                    IF Lower(e) = Normal(form[r].email) THEN form[r].password
                    ELSE users[e]]
    /\ created' = [created EXCEPT ![r] = TRUE]

\* The INSERT, refused by the database when the address is taken.
Insert(r) ==
    /\ ~Taken(r)
    /\ users' = [e \in DOMAIN users \cup {Normal(form[r].email)} |->
                    IF e = Normal(form[r].email) THEN form[r].password ELSE users[e]]
    /\ created' = [created EXCEPT ![r] = TRUE]

Create(r) ==
    /\ ~gone[r]
    /\ Goto(r, "create", "open")
    /\ Insert(r)
    /\ UNCHANGED <<form, found, gone, used, queue, known>>

\* SQLSTATE 23505.
EmailTaken(r) ==
    /\ ~gone[r]
    /\ Goto(r, "create", "taken")
    /\ Taken(r)
    /\ UNCHANGED <<users, form, found, gone, used, queue, history>>

\* The response sets the cookie and redirects to the player.
OpenSession(r) ==
    /\ ~gone[r]
    /\ Goto(r, "open", "welcome")
    /\ UNCHANGED <<users, form, found, gone, used, queue, history>>

\* The database fails (or the generator of tokens), or the context ends during
\* the call: the statement may have had its effect.
DatabaseFails(r) ==
    /\ pc[r] \in {"find", "create", "open"}
    /\ pc' = [pc EXCEPT ![r] = "failed"]
    /\ \/ UNCHANGED <<users, created>>
       \/ pc[r] = "create" /\ Insert(r)
    /\ UNCHANGED <<form, found, gone, used, queue, known>>

-----------------------------------------------------------------------------
(* The answer, the client, the process *)

Answer == {"welcome", "refused", "taken", "invalid", "failed"}

Forget(R) == /\ form' = [r \in Request |-> IF r \in R THEN NoForm ELSE form[r]]
             /\ found' = [r \in Request |-> IF r \in R THEN NoPassword ELSE found[r]]
             /\ gone' = [r \in Request |-> r \notin R /\ gone[r]]
             /\ created' = [r \in Request |-> r \notin R /\ created[r]]
             /\ known' = [r \in Request |-> r \notin R /\ known[r]]

Respond(r) ==
    /\ pc[r] \in Answer
    /\ pc' = [pc EXCEPT ![r] = "idle"]
    /\ Forget({r})
    /\ UNCHANGED <<users, used, queue>>

ClientLeaves(r) ==
    /\ pc[r] \notin Answer \cup {"idle"}
    /\ ~gone[r]
    /\ gone' = [gone EXCEPT ![r] = TRUE]
    /\ UNCHANGED <<users, pc, form, found, used, queue, history>>

Restart ==
    /\ pc' = [r \in Request |-> "idle"]
    /\ Forget(Request)
    /\ used' = 0
    /\ queue' = <<>>
    /\ UNCHANGED users

-----------------------------------------------------------------------------
Handle(r) == \/ FindByEmail(r) \/ AcquireBcrypt(r) \/ AbortBcrypt(r) \/ Hash(r)
             \/ HashFails(r) \/ Create(r) \/ EmailTaken(r) \/ OpenSession(r)
             \/ DatabaseFails(r) \/ Respond(r)

Next == \/ \E r \in Request : \/ \E f \in Sent : Submit(r, f)
                              \/ Handle(r)
                              \/ ClientLeaves(r)
        \/ Restart

\* bcrypt ends; the runtime runs every goroutine.  Nothing is assumed of the
\* database or of clients.
Fairness == \A r \in Request : WF_vars(Hash(r) \/ HashFails(r))

Spec == Init /\ [][Next]_vars

FairSpec == Spec /\ Fairness

-----------------------------------------------------------------------------
(* Properties *)

TypeOK ==
    /\ \E S \in SUBSET Email : users \in [S -> Password]
    /\ pc \in [Request -> Answer \cup {"idle", "find", "acquire", "waiting",
                                       "hashing", "create", "open"}]
    /\ form \in [Request -> Form]
    /\ found \in [Request -> Password \cup {NoPassword}]
    /\ gone \in [Request -> BOOLEAN]
    /\ used \in 0..Slots
    /\ queue \in Seq(Request)
    /\ created \in [Request -> BOOLEAN]
    /\ known \in [Request -> BOOLEAN]

\* Whoever is let in has an account with the password of the form: the loser of
\* two registrations does not get in, nor does a form that happens to hold the
\* password of the dummy hash.
WelcomeMeansAccount ==
    \A r \in Request : pc[r] = "welcome" => Matches(form[r])

\* "Email o contraseña incorrectos" is never said of credentials that were good
\* when the form arrived.
RefusedForCause ==
    \A r \in Request : pc[r] = "refused" => ~known[r]

\* A registration that took effect stands, also when its answer was an error:
\* its owner can log in with what the form said, and nobody takes the account
\* over, or gets a second one, by registering the address in another spelling.
RegistrationStands ==
    \A r \in Request :
        created[r] => /\ Matches(form[r])
                      /\ Cardinality(Stored(Normal(form[r].email))) = 1

\* No more than cap(bcryptSem) computations at once, and no slot is lost, freed
\* twice or given to a request that gave up waiting.
BcryptBounded ==
    /\ used \in 0..Slots
    /\ used = Cardinality({r \in Request : pc[r] = "hashing"})
    /\ IsInjective(queue)
    /\ \A r \in Request : Contains(queue, r) <=> pc[r] = "waiting"
    /\ queue # <<>> => used = Slots

\* A request that waits for a slot gets it, or gives up.
WaitEnds == \A r \in Request : pc[r] = "waiting" ~> pc[r] # "waiting"

=============================================================================
