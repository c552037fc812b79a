-------------------------- MODULE MigrationsProofs --------------------------
(***************************************************************************)
(* Safety of Migrations for every number of replicas and sessions and      *)
(* every set of releases.                                                  *)
(***************************************************************************)
EXTENDS Migrations, TLAPS, WellFoundedInduction

-----------------------------------------------------------------------------
(* The inductive invariant *)

Working == {"next", "apply", "record", "commit"}

\* A session has one client at most, and is abandoned only by it.
Clients ==
    /\ \A r \in Replica : pc[r] = "down" <=> conn[r] = NoSession
    /\ \A r \in Replica : conn[r] # NoSession =>
          /\ conn[r] \in open
          /\ inFlight[conn[r]] = "none"
          /\ \A q \in Replica : conn[q] = conn[r] => q = r

\* A closed session has left nothing behind.
Closed ==
    \A s \in Session : s \notin open =>
        inFlight[s] = "none" /\ tx[s] = <<>> /\ txVersions[s] = {}

\* Whoever is past the lock holds it, the abandoned sessions included.
LockHeld ==
    /\ \A r \in Replica :
          pc[r] \in Working \cup {"unlock", "unlockFailed"} => lock = conn[r]
    /\ \A s \in Session :
          inFlight[s] \in Working \cup {"unlock", "unlockFailed",
                                      "locked", "committed"} => lock = s
    /\ \A s \in Session : tx[s] # <<>> \/ txVersions[s] # {} => lock = s

\* A transaction holds what its client has done so far with the current file.
OwnTx(r) ==
    LET s == conn[r]
        m == Min(todo[r])
    IN  /\ pc[r] \in {"lock", "next", "apply", "unlock", "unlockFailed", "serving"}
              => tx[s] = <<>> /\ txVersions[s] = {}
        /\ pc[r] \in {"apply", "record", "commit"} => todo[r] # {} /\ m \notin versions
        /\ pc[r] = "record" => tx[s] = <<m>> /\ txVersions[s] = {}
        /\ pc[r] = "commit" => tx[s] = <<m>> /\ txVersions[s] = {m}

\* A commit in flight is of one new migration.
LateTx ==
    \A s \in Session : inFlight[s] = "commit" =>
        \E m \in Nat \ versions : tx[s] = <<m>> /\ txVersions[s] = {m}

\* What the loop has passed is in the table.
Progress ==
    \A r \in Replica :
        /\ pc[r] # "down" => files[r] \subseteq todo[r] \cup versions
        /\ pc[r] \in {"unlock", "serving"} => todo[r] = {}

IInv == /\ TypeOK
        /\ Clients
        /\ Closed
        /\ LockHeld
        /\ \A r \in Replica : conn[r] # NoSession => OwnTx(r)
        /\ LateTx
        /\ Progress
        /\ AppliedOnce

-----------------------------------------------------------------------------
(* Lemmas *)

\* The next file is the least of those that are left.
LEMMA MinIsLeast ==
    ASSUME NEW S \in SUBSET Nat, S # {}
    PROVE  Min(S) \in S /\ \A k \in S : Min(S) <= k
<1> DEFINE R == OpToRel(<, Nat)
<1>1. \E m \in S : \A k \in S : ~(<<k, m>> \in R)
  <2>1. IsWellFoundedOn(R, Nat)
    BY NatLessThanWellFounded
  <2> HIDE DEF R
  <2> QED
    BY <2>1, WFMin
<1>2. PICK m \in S : \A k \in S : ~(<<k, m>> \in R)
    BY <1>1
<1>3. \A k \in S : m <= k
  <2> SUFFICES ASSUME NEW k \in S, ~(m <= k) PROVE FALSE
    OBVIOUS
  <2>1. k < m /\ k \in Nat /\ m \in Nat
    OBVIOUS
  <2>2. <<k, m>> \in R
    BY <2>1 DEF OpToRel
  <2> QED
    BY <2>2, <1>2
<1> HIDE DEF R
<1> QED
    BY <1>3 DEF Min

\* The next file is one of those that are left.
LEMMA MinIsMember ==
    ASSUME NEW S \in SUBSET Nat, S # {}
    PROVE  Min(S) \in S
BY MinIsLeast

\* Committing a migration that was not there keeps the table and the schema
\* in agreement.
LEMMA CommitOne ==
    ASSUME TypeOK, AppliedOnce, NEW m \in Nat \ versions
    PROVE  /\ schema \o <<m>> \in Seq(Nat)
           /\ IsInjective(schema \o <<m>>)
           /\ versions \cup {m} = Range(schema \o <<m>>)
<1>1. /\ schema \in Seq(Nat)
      /\ \A i, j \in DOMAIN schema : schema[i] = schema[j] => i = j
      /\ versions = {schema[i] : i \in DOMAIN schema}
    BY DEF TypeOK, AppliedOnce, IsInjective, Range
<1> DEFINE n == Len(schema)
           t == schema \o <<m>>
<1>2. /\ n \in Nat /\ DOMAIN schema = 1..n
      /\ t \in Seq(Nat) /\ Len(t) = n + 1 /\ DOMAIN t = 1..(n + 1)
      /\ \A i \in 1..n : t[i] = schema[i]
      /\ t[n + 1] = m
    BY <1>1
<1> HIDE DEF t, n
<1>3. \A i \in 1..n : schema[i] # m
    BY <1>1, <1>2
<1>4. \A i \in 1..(n + 1) : i \in 1..n \/ i = n + 1
    BY <1>2
<1>5. \A i, j \in DOMAIN t : t[i] = t[j] => i = j
    BY <1>1, <1>2, <1>3, <1>4
<1>6. versions \cup {m} = {t[i] : i \in DOMAIN t}
  <2>1. ASSUME NEW v \in versions PROVE v \in {t[i] : i \in DOMAIN t}
    <3>1. PICK i \in DOMAIN schema : v = schema[i]
      BY <1>1
    <3>2. i \in DOMAIN t /\ t[i] = v
      BY <1>2, <3>1
    <3> QED
      BY <3>2
  <2>2. m \in {t[i] : i \in DOMAIN t}
    <3>1. n + 1 \in DOMAIN t /\ t[n + 1] = m
      BY <1>2
    <3> QED
      BY <3>1
  <2>3. ASSUME NEW i \in DOMAIN t PROVE t[i] \in versions \cup {m}
    <3>1. i \in 1..n \/ i = n + 1
      BY <1>2, <1>4
    <3>2. CASE i \in 1..n
      BY <1>1, <1>2, <3>2
    <3>3. CASE i = n + 1
      BY <1>2, <3>3
    <3> QED
      BY <3>1, <3>2, <3>3
  <2> QED
    BY <2>1, <2>2, <2>3
<1> QED
    BY <1>2, <1>5, <1>6 DEF IsInjective, Range, t

\* Nobody has started: every part of the invariant holds of nothing.
LEMMA InitIInv == Init => IInv
<1> SUFFICES ASSUME Init PROVE IInv
    OBVIOUS
<1>1. TypeOK
    BY DEF Init, TypeOK, Place
<1>2. Clients /\ Closed /\ Progress
    BY DEF Init, Clients, Closed, Progress
<1>3. LockHeld /\ LateTx
    BY DEF Init, LockHeld, LateTx, Working
<1>4. \A r \in Replica : conn[r] = NoSession
    BY DEF Init
<1>5. AppliedOnce
  <2>1. schema = <<>> /\ versions = {} /\ DOMAIN schema = {}
    BY DEF Init
  <2> QED
    BY <2>1 DEF AppliedOnce, IsInjective, Range
<1> QED
    BY <1>1, <1>2, <1>3, <1>4, <1>5 DEF IInv
-----------------------------------------------------------------------------
(* The steps *)

\* The session is a new one: nobody uses it and nothing is left in it.
LEMMA StartKeeps ==
    ASSUME IInv, NEW r \in Replica, Start(r)
    PROVE  IInv'
<1>1. TypeOK'
    BY ReleasesAssumption, NoSessionAssumption DEF Start, Goto, IInv, TypeOK,
       Place, Clients, LockHeld, Working
<1>2. Clients'
    BY NoSessionAssumption DEF Start, Goto, IInv, TypeOK, Clients, Closed
<1>3. Closed'
    BY NoSessionAssumption DEF Start, Goto, IInv, TypeOK, Clients, Closed,
       LockHeld
<1>4. LockHeld'
    BY NoSessionAssumption DEF Start, Goto, IInv, TypeOK, Clients, Closed,
       LockHeld, Working
<1>5. \A q \in Replica : conn'[q] # NoSession => OwnTx(q)'
    BY NoSessionAssumption DEF Start, Goto, IInv, TypeOK, Clients, Closed,
       LockHeld, OwnTx, Working
<1>6. LateTx'
    BY NoSessionAssumption DEF Start, Goto, IInv, TypeOK, Clients, Closed,
       LockHeld, LateTx, OwnTx, Working
<1>7. Progress'
    BY NoSessionAssumption DEF Start, Goto, IInv, TypeOK, Clients, Progress,
       LockHeld, OwnTx
<1>8. AppliedOnce'
    BY NoSessionAssumption DEF Start, Goto, IInv, AppliedOnce
<1> QED
    BY <1>1, <1>2, <1>3, <1>4, <1>5, <1>6, <1>7, <1>8 DEF IInv

\* Nobody held the lock, so nobody else is past it.
LEMMA LockKeeps ==
    ASSUME IInv, NEW r \in Replica, Lock(r)
    PROVE  IInv'
<1>1. TypeOK'
    BY NoSessionAssumption DEF Lock, Goto, IInv, TypeOK, Place, Clients,
       LockHeld, Working
<1>2. Clients'
    BY NoSessionAssumption DEF Lock, Goto, IInv, TypeOK, Clients, Closed
<1>3. Closed'
    BY NoSessionAssumption DEF Lock, Goto, IInv, TypeOK, Clients, Closed,
       LockHeld
<1>4. LockHeld'
    BY NoSessionAssumption DEF Lock, Goto, IInv, TypeOK, Clients, Closed,
       LockHeld, Working
<1>5. \A q \in Replica : conn'[q] # NoSession => OwnTx(q)'
    BY NoSessionAssumption DEF Lock, Goto, IInv, TypeOK, Clients, Closed,
       LockHeld, OwnTx, Working
<1>6. LateTx'
    BY NoSessionAssumption DEF Lock, Goto, IInv, TypeOK, Clients, Closed,
       LockHeld, LateTx, OwnTx, Working
<1>7. Progress'
    BY NoSessionAssumption DEF Lock, Goto, IInv, TypeOK, Clients, Progress,
       LockHeld, OwnTx
<1>8. AppliedOnce'
    BY NoSessionAssumption DEF Lock, Goto, IInv, AppliedOnce
<1> QED
    BY <1>1, <1>2, <1>3, <1>4, <1>5, <1>6, <1>7, <1>8 DEF IInv

\* What leaves todo is in the table; what is about to be applied is not.
LEMMA NextFileKeeps ==
    ASSUME IInv, NEW r \in Replica, NextFile(r)
    PROVE  IInv'
<1>1. TypeOK'
  <2>1. /\ pc' \in [Replica -> Place \cup {"down"}]
        /\ UNCHANGED <<files, conn, open, lock, inFlight, tx, txVersions, schema, versions>>
    BY DEF NextFile, server, IInv, TypeOK, Place
  <2>2. todo' = todo \/ todo' = [todo EXCEPT ![r] = todo[r] \ {Min(todo[r])}]
    BY DEF NextFile
  <2>3. todo' \in [Replica -> SUBSET Nat]
    BY <2>2 DEF IInv, TypeOK
  <2> QED
    BY <2>1, <2>3 DEF IInv, TypeOK
<1>2. Clients'
    BY NoSessionAssumption, MinIsMember DEF NextFile, server, IInv, TypeOK,
       Clients, Closed
<1>3. Closed'
    BY NoSessionAssumption, MinIsMember DEF NextFile, server, IInv, TypeOK,
       Clients, Closed, LockHeld
<1>4. LockHeld'
    BY NoSessionAssumption, MinIsMember DEF NextFile, server, IInv, TypeOK,
       Clients, Closed, LockHeld, Working
<1>5. \A q \in Replica : conn'[q] # NoSession => OwnTx(q)'
  <2> SUFFICES ASSUME NEW q \in Replica, conn'[q] # NoSession PROVE OwnTx(q)'
    OBVIOUS
  <2>1. q # r => pc'[q] = pc[q] /\ todo'[q] = todo[q]
    BY DEF NextFile, IInv, TypeOK
  <2>2. UNCHANGED <<conn, tx, txVersions, versions>> /\ conn[q] # NoSession
    BY DEF NextFile, server
  <2>3. CASE q # r
    BY <2>1, <2>2, <2>3 DEF IInv, OwnTx
  <2>4. CASE q = r
    <3>1. tx[conn[r]] = <<>> /\ txVersions[conn[r]] = {}
      BY <2>2, <2>4 DEF NextFile, IInv, OwnTx
    <3>2. \/ pc'[r] \in {"unlock", "next"}
          \/ /\ pc'[r] = "apply" /\ todo'[r] = todo[r]
             /\ todo[r] # {} /\ Min(todo[r]) \notin versions
      BY DEF NextFile, IInv, TypeOK
    <3> QED
      BY <2>2, <2>4, <3>1, <3>2 DEF OwnTx
  <2> QED
    BY <2>3, <2>4
<1>6. LateTx'
    BY NoSessionAssumption, MinIsMember DEF NextFile, server, IInv, TypeOK,
       Clients, Closed, LockHeld, LateTx, OwnTx, Working
<1>7. Progress'
  <2> SUFFICES ASSUME NEW q \in Replica
               PROVE  /\ pc'[q] # "down" => files'[q] \subseteq todo'[q] \cup versions'
                      /\ pc'[q] \in {"unlock", "serving"} => todo'[q] = {}
    BY DEF Progress
  <2>1. UNCHANGED <<files, versions>>
    BY DEF NextFile, server
  <2>2. CASE q # r
    <3>1. pc'[q] = pc[q] /\ todo'[q] = todo[q]
      BY <2>2 DEF NextFile, IInv, TypeOK
    <3> QED
      BY <2>1, <3>1 DEF IInv, Progress
  <2>3. CASE q = r
    <3>1. files[r] \subseteq todo[r] \cup versions
      BY DEF NextFile, IInv, Progress
    <3>2. \/ todo'[r] = todo[r]
          \/ todo'[r] = todo[r] \ {Min(todo[r])} /\ Min(todo[r]) \in versions
      BY DEF NextFile, IInv, TypeOK
    <3>3. \/ pc'[r] = "unlock" /\ todo'[r] = {}
          \/ pc'[r] \in {"next", "apply"}
      BY DEF NextFile, IInv, TypeOK
    <3> QED
      BY <2>1, <2>3, <3>1, <3>2, <3>3
  <2> QED
    BY <2>2, <2>3
<1>8. AppliedOnce'
    BY NoSessionAssumption, MinIsMember DEF NextFile, server, IInv, AppliedOnce
<1> QED
    BY <1>1, <1>2, <1>3, <1>4, <1>5, <1>6, <1>7, <1>8 DEF IInv

\* The transaction of the owner of the lock was empty.
LEMMA ApplyKeeps ==
    ASSUME IInv, NEW r \in Replica, Apply(r)
    PROVE  IInv'
<1>1. TypeOK'
  <2>1. todo[r] \in SUBSET Nat /\ todo[r] # {} /\ conn[r] \in Session
    BY NoSessionAssumption DEF Apply, Goto, IInv, TypeOK, Clients, OwnTx
  <2>2. Min(todo[r]) \in Nat /\ tx[conn[r]] \in Seq(Nat)
    BY <2>1, MinIsMember DEF IInv, TypeOK
  <2>3. Append(tx[conn[r]], Min(todo[r])) \in Seq(Nat)
    BY <2>2
  <2>4. tx' \in [Session -> Seq(Nat)]
    BY <2>3 DEF Apply, IInv, TypeOK
  <2> QED
    BY <2>4 DEF Apply, Goto, IInv, TypeOK, Place
<1>2. Clients'
    BY NoSessionAssumption DEF Apply, Goto, IInv, TypeOK, Clients, Closed
<1>3. Closed'
    BY NoSessionAssumption DEF Apply, Goto, IInv, TypeOK, Clients, Closed,
       LockHeld
<1>4. LockHeld'
    BY NoSessionAssumption DEF Apply, Goto, IInv, TypeOK, Clients, Closed,
       LockHeld, Working
<1>5. \A q \in Replica : conn'[q] # NoSession => OwnTx(q)'
  <2> SUFFICES ASSUME NEW q \in Replica, conn'[q] # NoSession PROVE OwnTx(q)'
    OBVIOUS
  <2>1. /\ q # r => pc'[q] = pc[q] /\ tx'[conn[q]] = tx[conn[q]]
        /\ UNCHANGED <<conn, todo, txVersions, versions>>
        /\ conn[q] # NoSession /\ conn[q] \in Session
    BY DEF Apply, Goto, IInv, TypeOK, Clients
  <2>2. CASE q # r
    BY <2>1, <2>2 DEF IInv, OwnTx
  <2>3. CASE q = r
    <3>1. tx[conn[r]] = <<>> /\ txVersions[conn[r]] = {} /\ pc'[r] = "record"
          /\ todo[r] # {} /\ Min(todo[r]) \notin versions
      BY <2>1, <2>3 DEF Apply, Goto, IInv, OwnTx, TypeOK
    <3>2. tx'[conn[r]] = <<Min(todo[r])>>
      BY <2>1, <2>3, <3>1 DEF Apply, IInv, TypeOK
    <3> QED
      BY <2>1, <2>3, <3>1, <3>2 DEF OwnTx
  <2> QED
    BY <2>2, <2>3
<1>6. LateTx'
    BY NoSessionAssumption DEF Apply, Goto, IInv, TypeOK, Clients, Closed,
       LockHeld, LateTx, OwnTx, Working
<1>7. Progress'
    BY NoSessionAssumption DEF Apply, Goto, IInv, TypeOK, Clients, Progress,
       LockHeld, OwnTx
<1>8. AppliedOnce'
    BY NoSessionAssumption DEF Apply, Goto, IInv, AppliedOnce
<1> QED
    BY <1>1, <1>2, <1>3, <1>4, <1>5, <1>6, <1>7, <1>8 DEF IInv

\* The row joins its migration in the transaction.
LEMMA RecordKeeps ==
    ASSUME IInv, NEW r \in Replica, Record(r)
    PROVE  IInv'
<1>1. TypeOK'
  <2>1. todo[r] \in SUBSET Nat /\ todo[r] # {}
    BY NoSessionAssumption DEF Record, Goto, IInv, TypeOK, Clients, OwnTx
  <2>2. Min(todo[r]) \in Nat
    BY <2>1, MinIsMember
  <2> QED
    BY <2>1, <2>2, NoSessionAssumption DEF Record, Goto, IInv, TypeOK, Place
<1>2. Clients'
    BY NoSessionAssumption DEF Record, Goto, IInv, TypeOK, Clients, Closed
<1>3. Closed'
    BY NoSessionAssumption DEF Record, Goto, IInv, TypeOK, Clients, Closed,
       LockHeld
<1>4. LockHeld'
    BY NoSessionAssumption DEF Record, Goto, IInv, TypeOK, Clients, Closed,
       LockHeld, Working
<1>5. \A q \in Replica : conn'[q] # NoSession => OwnTx(q)'
    BY NoSessionAssumption DEF Record, Goto, IInv, TypeOK, Clients, Closed,
       LockHeld, OwnTx, Working
<1>6. LateTx'
    BY NoSessionAssumption DEF Record, Goto, IInv, TypeOK, Clients, Closed,
       LockHeld, LateTx, OwnTx, Working
<1>7. Progress'
    BY NoSessionAssumption DEF Record, Goto, IInv, TypeOK, Clients, Progress,
       LockHeld, OwnTx
<1>8. AppliedOnce'
    BY NoSessionAssumption DEF Record, Goto, IInv, AppliedOnce
<1> QED
    BY <1>1, <1>2, <1>3, <1>4, <1>5, <1>6, <1>7, <1>8 DEF IInv

\* The transaction is rolled back, and the lock is still held.
LEMMA StatementFailsKeeps ==
    ASSUME IInv, NEW r \in Replica, StatementFails(r)
    PROVE  IInv'
<1>1. TypeOK'
    BY NoSessionAssumption DEF StatementFails, EmptyTx, IInv, TypeOK, Place,
       Clients, LockHeld, Working
<1>2. Clients'
    BY NoSessionAssumption DEF StatementFails, EmptyTx, IInv, TypeOK, Clients,
       Closed
<1>3. Closed'
    BY NoSessionAssumption DEF StatementFails, EmptyTx, IInv, TypeOK, Clients,
       Closed, LockHeld
<1>4. LockHeld'
    BY NoSessionAssumption DEF StatementFails, EmptyTx, IInv, TypeOK, Clients,
       Closed, LockHeld, Working
<1>5. \A q \in Replica : conn'[q] # NoSession => OwnTx(q)'
    BY NoSessionAssumption DEF StatementFails, EmptyTx, IInv, TypeOK, Clients,
       Closed, LockHeld, OwnTx, Working
<1>6. LateTx'
    BY NoSessionAssumption DEF StatementFails, EmptyTx, IInv, TypeOK, Clients,
       Closed, LockHeld, LateTx, OwnTx, Working
<1>7. Progress'
    BY NoSessionAssumption DEF StatementFails, EmptyTx, IInv, TypeOK, Clients,
       Progress, LockHeld, OwnTx
<1>8. AppliedOnce'
    BY NoSessionAssumption DEF StatementFails, EmptyTx, IInv, AppliedOnce
<1> QED
    BY <1>1, <1>2, <1>3, <1>4, <1>5, <1>6, <1>7, <1>8 DEF IInv

\* The owner's transaction is empty when it gives the lock back.
LEMMA UnlockKeeps ==
    ASSUME IInv, NEW r \in Replica, Unlock(r)
    PROVE  IInv'
<1>0. /\ pc[r] \in {"unlock", "unlockFailed"} /\ lock = conn[r] /\ lock' = NoSession
      /\ conn[r] \in Session /\ conn[r] \in open /\ inFlight[conn[r]] = "none"
      /\ tx[conn[r]] = <<>> /\ txVersions[conn[r]] = {}
      /\ \A q \in Replica : conn[q] = conn[r] => q = r
      /\ UNCHANGED <<files, todo, inFlight, tx, txVersions, schema, versions>>
      /\ \A q \in Replica \ {r} : pc'[q] = pc[q] /\ conn'[q] = conn[q]
      /\ \/ pc'[r] = "serving" /\ conn'[r] = conn[r] /\ open' = open /\ pc[r] = "unlock"
         \/ pc'[r] = "down" /\ conn'[r] = NoSession /\ open' = open \ {conn[r]}
  <2>1. pc[r] \in {"unlock", "unlockFailed"} /\ lock = conn[r]
    BY DEF Unlock, Goto, IInv, LockHeld
  <2>2. conn[r] # NoSession /\ conn[r] \in Session
    BY <2>1 DEF IInv, Clients, TypeOK
  <2>3. \/ pc'[r] = "serving" /\ conn'[r] = conn[r] /\ open' = open /\ pc[r] = "unlock"
        \/ pc'[r] = "down" /\ conn'[r] = NoSession /\ open' = open \ {conn[r]}
    BY DEF Unlock, Goto, IInv, TypeOK
  <2>4. \A q \in Replica \ {r} : pc'[q] = pc[q] /\ conn'[q] = conn[q]
    BY DEF Unlock, Goto, IInv, TypeOK
  <2>5. conn[r] \in open /\ inFlight[conn[r]] = "none"
        /\ \A q \in Replica : conn[q] = conn[r] => q = r
    BY <2>2 DEF IInv, Clients
  <2>6. tx[conn[r]] = <<>> /\ txVersions[conn[r]] = {}
    BY <2>1, <2>2 DEF IInv, OwnTx
  <2> QED
    BY <2>1, <2>2, <2>3, <2>4, <2>5, <2>6 DEF Unlock
<1>1. TypeOK'
    BY NoSessionAssumption DEF Unlock, Goto, IInv, TypeOK, Place, Clients,
       LockHeld, Working
<1>2. Clients'
    BY <1>0, NoSessionAssumption DEF IInv, Clients
<1>3. Closed'
    BY <1>0 DEF IInv, Closed
<1>4. LockHeld'
  <2>1. ASSUME NEW q \in Replica, pc'[q] \in Working \cup {"unlock", "unlockFailed"}
        PROVE  FALSE
    <3>1. q # r /\ pc[q] = pc'[q]
      BY <1>0, <2>1 DEF Working
    <3>2. conn[q] = conn[r]
      BY <1>0, <2>1, <3>1 DEF IInv, LockHeld
    <3> QED
      BY <1>0, <3>1, <3>2
  <2>2. \A s \in Session : ~(inFlight[s] \in Working \cup {"unlock", "unlockFailed",
                                                         "locked", "committed"})
    BY <1>0 DEF IInv, LockHeld, Working
  <2>3. \A s \in Session : tx[s] = <<>> /\ txVersions[s] = {}
    BY <1>0 DEF IInv, LockHeld
  <2> QED
    BY <1>0, <2>1, <2>2, <2>3 DEF LockHeld
<1>5. \A q \in Replica : conn'[q] # NoSession => OwnTx(q)'
    BY NoSessionAssumption DEF Unlock, Goto, IInv, TypeOK, Clients, Closed,
       LockHeld, OwnTx, Working
<1>6. LateTx'
    BY NoSessionAssumption DEF Unlock, Goto, IInv, TypeOK, Clients, Closed,
       LockHeld, LateTx, OwnTx, Working
<1>7. Progress'
    BY <1>0 DEF IInv, Progress
<1>8. AppliedOnce'
    BY NoSessionAssumption DEF Unlock, Goto, IInv, AppliedOnce
<1> QED
    BY <1>1, <1>2, <1>3, <1>4, <1>5, <1>6, <1>7, <1>8 DEF IInv

\* What the session was doing goes on without its client.
LEMMA TimesOutKeeps ==
    ASSUME IInv, NEW r \in Replica, TimesOut(r)
    PROVE  IInv'
<1>1. TypeOK'
    BY NoSessionAssumption DEF TimesOut, Abandon, IInv, TypeOK, Place, Clients,
       LockHeld, Working
<1>2. Clients'
    BY NoSessionAssumption DEF TimesOut, Abandon, IInv, TypeOK, Clients, Closed
<1>3. Closed'
    BY NoSessionAssumption DEF TimesOut, Abandon, IInv, TypeOK, Clients,
       Closed, LockHeld
<1>4. LockHeld'
  <2>1. \A q \in Replica : /\ q # r => pc'[q] = pc[q] /\ conn'[q] = conn[q]
                           /\ q = r => pc'[q] = "down"
    BY DEF TimesOut, Abandon, IInv, TypeOK
  <2>2. \A s \in Session : \/ inFlight'[s] = inFlight[s]
                           \/ s = conn[r] /\ inFlight'[s] = pc[r]
    BY DEF TimesOut, Abandon, IInv, TypeOK
  <2>3. UNCHANGED <<lock, tx, txVersions>> /\ pc[r] \in Place \cup {"down"}
    BY DEF TimesOut, Abandon, IInv, TypeOK
  <2> QED
    BY <2>1, <2>2, <2>3 DEF IInv, LockHeld, Place, Working
<1>5. \A q \in Replica : conn'[q] # NoSession => OwnTx(q)'
    BY NoSessionAssumption DEF TimesOut, Abandon, IInv, TypeOK, Clients,
       Closed, LockHeld, OwnTx, Working
<1>6. LateTx'
  <2> SUFFICES ASSUME NEW s \in Session, inFlight'[s] = "commit"
               PROVE  \E m \in Nat \ versions' : tx'[s] = <<m>> /\ txVersions'[s] = {m}
    BY DEF LateTx
  <2>1. UNCHANGED <<tx, txVersions, versions>>
    BY DEF TimesOut, Abandon
  <2>2. CASE s = conn[r]
    <3>1. pc[r] = "commit" /\ conn[r] # NoSession
      BY <2>2, NoSessionAssumption DEF TimesOut, Abandon, IInv, TypeOK
    <3>2. todo[r] \in SUBSET Nat /\ todo[r] # {}
      BY <3>1 DEF IInv, TypeOK, OwnTx
    <3>3. Min(todo[r]) \in Nat
      BY <3>2, MinIsMember
    <3> QED
      BY <2>1, <2>2, <3>1, <3>3 DEF IInv, OwnTx
  <2>3. CASE s # conn[r]
    BY <2>1, <2>3 DEF TimesOut, Abandon, IInv, TypeOK, LateTx
  <2> QED
    BY <2>2, <2>3
<1>7. Progress'
    BY NoSessionAssumption DEF TimesOut, Abandon, IInv, TypeOK, Clients,
       Progress, LockHeld, OwnTx
<1>8. AppliedOnce'
    BY NoSessionAssumption DEF TimesOut, Abandon, IInv, AppliedOnce
<1> QED
    BY <1>1, <1>2, <1>3, <1>4, <1>5, <1>6, <1>7, <1>8 DEF IInv

\* The same, at any place.
LEMMA CrashesKeeps ==
    ASSUME IInv, NEW r \in Replica, Crashes(r)
    PROVE  IInv'
<1>1. TypeOK'
    BY NoSessionAssumption DEF Crashes, Abandon, IInv, TypeOK, Place, Clients,
       LockHeld, Working
<1>2. Clients'
    BY NoSessionAssumption DEF Crashes, Abandon, IInv, TypeOK, Clients, Closed
<1>3. Closed'
    BY NoSessionAssumption DEF Crashes, Abandon, IInv, TypeOK, Clients, Closed,
       LockHeld
<1>4. LockHeld'
  <2>1. \A q \in Replica : /\ q # r => pc'[q] = pc[q] /\ conn'[q] = conn[q]
                           /\ q = r => pc'[q] = "down"
    BY DEF Crashes, Abandon, IInv, TypeOK
  <2>2. \A s \in Session : \/ inFlight'[s] = inFlight[s]
                           \/ s = conn[r] /\ inFlight'[s] = pc[r]
    BY DEF Crashes, Abandon, IInv, TypeOK
  <2>3. UNCHANGED <<lock, tx, txVersions>> /\ pc[r] \in Place \cup {"down"}
    BY DEF Crashes, Abandon, IInv, TypeOK
  <2> QED
    BY <2>1, <2>2, <2>3 DEF IInv, LockHeld, Place, Working
<1>5. \A q \in Replica : conn'[q] # NoSession => OwnTx(q)'
    BY NoSessionAssumption DEF Crashes, Abandon, IInv, TypeOK, Clients, Closed,
       LockHeld, OwnTx, Working
<1>6. LateTx'
  <2> SUFFICES ASSUME NEW s \in Session, inFlight'[s] = "commit"
               PROVE  \E m \in Nat \ versions' : tx'[s] = <<m>> /\ txVersions'[s] = {m}
    BY DEF LateTx
  <2>1. UNCHANGED <<tx, txVersions, versions>>
    BY DEF Crashes, Abandon
  <2>2. CASE s = conn[r]
    <3>1. pc[r] = "commit" /\ conn[r] # NoSession
      BY <2>2, NoSessionAssumption DEF Crashes, Abandon, IInv, TypeOK
    <3>2. todo[r] \in SUBSET Nat /\ todo[r] # {}
      BY <3>1 DEF IInv, TypeOK, OwnTx
    <3>3. Min(todo[r]) \in Nat
      BY <3>2, MinIsMember
    <3> QED
      BY <2>1, <2>2, <3>1, <3>3 DEF IInv, OwnTx
  <2>3. CASE s # conn[r]
    BY <2>1, <2>3 DEF Crashes, Abandon, IInv, TypeOK, LateTx
  <2> QED
    BY <2>2, <2>3
<1>7. Progress'
    BY NoSessionAssumption DEF Crashes, Abandon, IInv, TypeOK, Clients,
       Progress, LockHeld, OwnTx
<1>8. AppliedOnce'
    BY NoSessionAssumption DEF Crashes, Abandon, IInv, AppliedOnce
<1> QED
    BY <1>1, <1>2, <1>3, <1>4, <1>5, <1>6, <1>7, <1>8 DEF IInv

\* The session of a dead client is past the lock as a live one would be.
LEMMA LateLockKeeps ==
    ASSUME IInv, NEW s \in Session, LateLock(s)
    PROVE  IInv'
<1>1. TypeOK'
  <2>1. s \in open
    BY DEF LateLock, IInv, Closed
  <2>2. inFlight' \in [Session -> Place \cup {"none", "locked", "committed"}]
    BY DEF LateLock, IInv, TypeOK
  <2> QED
    BY <2>1, <2>2 DEF LateLock, client, IInv, TypeOK
<1>2. Clients'
    BY NoSessionAssumption DEF LateLock, client, IInv, TypeOK, Clients, Closed
<1>3. Closed'
    BY NoSessionAssumption DEF LateLock, client, IInv, TypeOK, Clients, Closed,
       LockHeld
<1>4. LockHeld'
    BY NoSessionAssumption DEF LateLock, client, IInv, TypeOK, Clients, Closed,
       LockHeld, Working
<1>5. \A q \in Replica : conn'[q] # NoSession => OwnTx(q)'
    BY NoSessionAssumption DEF LateLock, client, IInv, TypeOK, Clients, Closed,
       LockHeld, OwnTx, Working
<1>6. LateTx'
    BY NoSessionAssumption DEF LateLock, client, IInv, TypeOK, Clients, Closed,
       LockHeld, LateTx, OwnTx, Working
<1>7. Progress'
    BY NoSessionAssumption DEF LateLock, client, IInv, TypeOK, Clients,
       Progress, LockHeld, OwnTx
<1>8. AppliedOnce'
    BY NoSessionAssumption DEF LateLock, client, IInv, AppliedOnce
<1> QED
    BY <1>1, <1>2, <1>3, <1>4, <1>5, <1>6, <1>7, <1>8 DEF IInv

\* Nothing of the session is left, and its lock is free.
LEMMA CloseSessionKeeps ==
    ASSUME IInv, NEW s \in Session, CloseSession(s)
    PROVE  IInv'
<1>1. TypeOK'
    BY NoSessionAssumption DEF CloseSession, EmptyTx, client, IInv, TypeOK,
       Place, Clients, LockHeld, Working
<1>2. Clients'
    BY NoSessionAssumption DEF CloseSession, EmptyTx, client, IInv, TypeOK,
       Clients, Closed
<1>3. Closed'
    BY NoSessionAssumption DEF CloseSession, EmptyTx, client, IInv, TypeOK,
       Clients, Closed, LockHeld
<1>4. LockHeld'
    BY NoSessionAssumption DEF CloseSession, EmptyTx, client, IInv, TypeOK,
       Clients, Closed, LockHeld, Working
<1>5. \A q \in Replica : conn'[q] # NoSession => OwnTx(q)'
    BY NoSessionAssumption DEF CloseSession, EmptyTx, client, IInv, TypeOK,
       Clients, Closed, LockHeld, OwnTx, Working
<1>6. LateTx'
    BY NoSessionAssumption DEF CloseSession, EmptyTx, client, IInv, TypeOK,
       Clients, Closed, LockHeld, LateTx, OwnTx, Working
<1>7. Progress'
    BY NoSessionAssumption DEF CloseSession, EmptyTx, client, IInv, TypeOK,
       Clients, Progress, LockHeld, OwnTx
<1>8. AppliedOnce'
    BY NoSessionAssumption DEF CloseSession, EmptyTx, client, IInv, AppliedOnce
<1> QED
    BY <1>1, <1>2, <1>3, <1>4, <1>5, <1>6, <1>7, <1>8 DEF IInv

\* A commit, by the client or after it has gone, of session s.
LEMMA CommitAgrees ==
    ASSUME IInv, NEW s \in Session, NEW m \in Nat \ versions,
           tx[s] = <<m>>, txVersions[s] = {m}, CommitTx(s)
    PROVE  /\ AppliedOnce' /\ schema' \in Seq(Nat) /\ versions' = versions \cup {m}
           /\ tx' \in [Session -> Seq(Nat)] /\ txVersions' \in [Session -> SUBSET Nat]
           /\ \A t \in Session : /\ t = s => tx'[t] = <<>> /\ txVersions'[t] = {}
                                 /\ t # s => tx'[t] = tx[t] /\ txVersions'[t] = txVersions[t]
<1>1. schema' = schema \o <<m>> /\ versions' = versions \cup {m}
    BY DEF CommitTx
<1>2. AppliedOnce' /\ schema' \in Seq(Nat)
    BY <1>1, CommitOne DEF IInv, AppliedOnce
<1>3. /\ tx' = [tx EXCEPT ![s] = <<>>]
      /\ txVersions' = [txVersions EXCEPT ![s] = {}]
      /\ tx \in [Session -> Seq(Nat)] /\ txVersions \in [Session -> SUBSET Nat]
    BY DEF CommitTx, EmptyTx, IInv, TypeOK
<1> QED
    BY <1>1, <1>2, <1>3

\* The owner of the lock is the only one with a file in progress.
LEMMA OnlyOwner ==
    ASSUME IInv, NEW s \in Session, lock = s, NEW q \in Replica, conn[q] # NoSession,
           conn[q] # s
    PROVE  pc[q] \in {"lock", "serving"}
BY DEF IInv, TypeOK, Place, LockHeld, Clients, Working

\* The client commits: its migration was not in the table.
LEMMA CommitKeeps ==
    ASSUME IInv, NEW r \in Replica, Commit(r)
    PROVE  IInv'
<1> DEFINE s == conn[r]
           m == Min(todo[r])
<1>1. /\ pc[r] = "commit" /\ s # NoSession /\ s \in Session /\ s \in open
      /\ lock = s /\ inFlight[s] = "none"
    BY DEF Commit, Goto, IInv, TypeOK, Clients, LockHeld, Working
<1>2. /\ todo[r] \in SUBSET Nat /\ todo[r] # {} /\ m \notin versions
      /\ tx[s] = <<m>> /\ txVersions[s] = {m}
    BY <1>1 DEF IInv, TypeOK, OwnTx
<1>3. m \in Nat \ versions
    BY <1>2, MinIsMember
<1>4. /\ AppliedOnce' /\ schema' \in Seq(Nat) /\ versions' = versions \cup {m}
      /\ tx' \in [Session -> Seq(Nat)] /\ txVersions' \in [Session -> SUBSET Nat]
      /\ \A t \in Session : /\ t = s => tx'[t] = <<>> /\ txVersions'[t] = {}
                            /\ t # s => tx'[t] = tx[t] /\ txVersions'[t] = txVersions[t]
    BY <1>1, <1>2, <1>3, CommitAgrees DEF Commit
<1>5. /\ UNCHANGED <<files, conn, open, lock, inFlight>>
      /\ pc' = [pc EXCEPT ![r] = "next"] /\ todo' = [todo EXCEPT ![r] = todo[r] \ {m}]
      /\ pc \in [Replica -> Place \cup {"down"}] /\ todo \in [Replica -> SUBSET Nat]
    BY DEF Commit, Goto, IInv, TypeOK
<1> HIDE DEF s, m
<1>6. TypeOK'
    BY <1>3, <1>4, <1>5 DEF IInv, TypeOK, Place
<1>7. Clients' /\ Closed'
    BY <1>1, <1>4, <1>5 DEF IInv, Clients, Closed, s
<1>8. LockHeld'
    BY <1>1, <1>4, <1>5 DEF IInv, LockHeld, Working, s
<1>9. \A q \in Replica : conn'[q] # NoSession => OwnTx(q)'
  <2> SUFFICES ASSUME NEW q \in Replica, conn'[q] # NoSession PROVE OwnTx(q)'
    OBVIOUS
  <2>1. CASE q = r
    <3>1. tx'[s] = <<>> /\ txVersions'[s] = {}
      BY <1>1, <1>4
    <3>2. pc'[r] = "next" /\ conn'[r] = s
      BY <1>5 DEF s
    <3> QED
      BY <2>1, <3>1, <3>2 DEF OwnTx
  <2>2. CASE q # r
    <3>1. conn[q] # s /\ conn[q] \in Session /\ conn[q] # NoSession
      BY <1>1, <1>5, <2>2 DEF IInv, Clients, TypeOK, s
    <3>2. pc[q] \in {"lock", "serving"}
      BY <1>1, <3>1, OnlyOwner
    <3>3. pc'[q] = pc[q] /\ conn'[q] = conn[q]
      BY <1>5, <2>2
    <3>4. tx'[conn[q]] = <<>> /\ txVersions'[conn[q]] = {}
      BY <1>4, <3>1, <3>2 DEF IInv, OwnTx
    <3> QED
      BY <3>2, <3>3, <3>4 DEF OwnTx
  <2> QED
    BY <2>1, <2>2
<1>10. LateTx'
  <2>1. \A t \in Session : inFlight[t] # "commit"
    BY <1>1 DEF IInv, LockHeld, Working
  <2> QED
    BY <1>5, <2>1 DEF LateTx
<1>11. Progress'
    BY <1>1, <1>4, <1>5 DEF IInv, Progress
<1> QED
    BY <1>4, <1>6, <1>7, <1>8, <1>9, <1>10, <1>11 DEF IInv

\* The server commits for a client that has gone.
LEMMA LateCommitKeeps ==
    ASSUME IInv, NEW s \in Session, LateCommit(s)
    PROVE  IInv'
<1>1. /\ inFlight[s] = "commit" /\ lock = s /\ s \in open
      /\ \A q \in Replica : conn[q] # NoSession => conn[q] # s
    BY DEF LateCommit, IInv, LockHeld, Working, Clients, Closed
<1>2. PICK m \in Nat \ versions : tx[s] = <<m>> /\ txVersions[s] = {m}
    BY <1>1 DEF IInv, LateTx
<1>3. /\ AppliedOnce' /\ schema' \in Seq(Nat) /\ versions' = versions \cup {m}
      /\ tx' \in [Session -> Seq(Nat)] /\ txVersions' \in [Session -> SUBSET Nat]
      /\ \A t \in Session : /\ t = s => tx'[t] = <<>> /\ txVersions'[t] = {}
                            /\ t # s => tx'[t] = tx[t] /\ txVersions'[t] = txVersions[t]
    BY <1>2, CommitAgrees DEF LateCommit
<1>4. /\ UNCHANGED <<pc, files, todo, conn, open, lock>>
      /\ inFlight' = [inFlight EXCEPT ![s] = "committed"]
      /\ inFlight \in [Session -> Place \cup {"none", "locked", "committed"}]
    BY DEF LateCommit, client, IInv, TypeOK
<1>5. TypeOK'
    BY <1>2, <1>3, <1>4 DEF IInv, TypeOK
<1>6. Clients' /\ Closed'
  <2>1. Clients'
    BY <1>1, <1>4 DEF IInv, TypeOK, Clients
  <2>2. Closed'
    BY <1>1, <1>3, <1>4 DEF IInv, Closed
  <2> QED
    BY <2>1, <2>2
<1>7. LockHeld'
    BY <1>1, <1>3, <1>4 DEF IInv, LockHeld
<1>8. \A q \in Replica : conn'[q] # NoSession => OwnTx(q)'
  <2> SUFFICES ASSUME NEW q \in Replica, conn[q] # NoSession PROVE OwnTx(q)'
    BY <1>4
  <2>1. conn[q] # s /\ conn[q] \in Session
    BY <1>1 DEF IInv, TypeOK
  <2>2. pc[q] \in {"lock", "serving"}
    BY <1>1, <2>1, OnlyOwner
  <2>3. tx'[conn[q]] = <<>> /\ txVersions'[conn[q]] = {}
    BY <1>3, <2>1, <2>2 DEF IInv, OwnTx
  <2> QED
    BY <1>4, <2>2, <2>3 DEF OwnTx
<1>9. LateTx'
  <2>1. \A t \in Session \ {s} : inFlight[t] # "commit"
    BY <1>1 DEF IInv, LockHeld, Working
  <2> QED
    BY <1>4, <2>1 DEF LateTx
<1>10. Progress'
    BY <1>3, <1>4 DEF IInv, Progress
<1> QED
    BY <1>3, <1>5, <1>6, <1>7, <1>8, <1>9, <1>10 DEF IInv

\* Every step keeps the invariant.
LEMMA NextKeeps == IInv /\ [Next]_vars => IInv'
<1> SUFFICES ASSUME IInv, [Next]_vars PROVE IInv'
    OBVIOUS
<1>1. ASSUME NEW r \in Replica, Start(r) \/ Migrate(r) \/ TimesOut(r) \/ Crashes(r)
      PROVE  IInv'
    BY <1>1, StartKeeps, LockKeeps, NextFileKeeps, ApplyKeeps, RecordKeeps,
       CommitKeeps, StatementFailsKeeps, UnlockKeeps, TimesOutKeeps, CrashesKeeps
       DEF Migrate
<1>2. ASSUME NEW s \in Session, LateLock(s) \/ LateCommit(s) \/ CloseSession(s)
      PROVE  IInv'
    BY <1>2, LateLockKeeps, LateCommitKeeps, CloseSessionKeeps
<1>3. CASE UNCHANGED vars
  <2>1. UNCHANGED <<pc, files, todo, conn, open, lock, inFlight, tx, txVersions,
                    schema, versions>>
    BY <1>3 DEF vars, client, server
  <2>2. TypeOK' /\ Clients' /\ Closed' /\ LockHeld'
    BY <2>1 DEF IInv, TypeOK, Clients, Closed, LockHeld
  <2>3. \A q \in Replica : conn'[q] # NoSession => OwnTx(q)'
    BY <2>1 DEF IInv, OwnTx
  <2>4. LateTx' /\ Progress' /\ AppliedOnce'
    BY <2>1 DEF IInv, LateTx, Progress, AppliedOnce
  <2> QED
    BY <2>2, <2>3, <2>4 DEF IInv
<1> QED
    BY <1>1, <1>2, <1>3 DEF Next

\* So it holds in every behaviour.
LEMMA Inductive == Spec => []IInv
    BY InitIInv, NextKeeps, PTL DEF Spec

-----------------------------------------------------------------------------
(* The order, with releases that only append *)

AppendOnly == \A f, g \in Releases : \A m \in f, n \in g : n < m => n \in f

Sorted == \A i, j \in 1..Len(schema) : i < j => schema[i] < schema[j]

\* Every file that comes before m, in whatever release, has been applied.
Due(m) == \A g \in Releases : \A n \in g : n < m => n \in versions

\* The schema is sorted and has no gap; the loop runs over a release, and what
\* an abandoned session is committing comes next.
Order ==
    /\ \A r \in Replica : conn[r] # NoSession =>
          files[r] \in Releases /\ todo[r] \subseteq files[r]
    /\ Sorted
    /\ \A v \in versions : Due(v)
    /\ \A s \in Session : inFlight[s] = "commit" =>
          \A m \in Nat : tx[s] = <<m>> => Due(m) /\ \E f \in Releases : m \in f

\* The least of the files that are left comes next.
LEMMA LeastIsDue ==
    ASSUME IInv, Order, AppendOnly, NEW r \in Replica, pc[r] # "down", todo[r] # {}
    PROVE  Due(Min(todo[r])) /\ \E f \in Releases : Min(todo[r]) \in f
<1> DEFINE m == Min(todo[r])
<1>1. /\ files[r] \in Releases /\ todo[r] \subseteq files[r]
      /\ files[r] \subseteq todo[r] \cup versions
    BY DEF IInv, Clients, Progress, Order
<1>2. /\ todo[r] \in SUBSET Nat /\ m \in todo[r] /\ m \in Nat
      /\ \A k \in todo[r] : m <= k
  <2>1. todo[r] \in SUBSET Nat
    BY DEF IInv, TypeOK
  <2> QED
    BY <2>1, MinIsLeast
<1> HIDE DEF m
<1>3. ASSUME NEW g \in Releases, NEW n \in g, n < m PROVE n \in versions
  <2>1. n \in files[r] /\ n \in Nat
    BY <1>1, <1>2, <1>3, ReleasesAssumption DEF AppendOnly
  <2>2. n \notin todo[r]
    BY <1>2, <1>3, <2>1
  <2> QED
    BY <1>1, <2>1, <2>2
<1>4. Due(m)
    BY <1>3 DEF Due
<1> QED
    BY <1>1, <1>2, <1>4 DEF m

\* A migration that comes next comes after all that were applied.
LEMMA CommitInOrder ==
    ASSUME IInv, Order, NEW m \in Nat \ versions, Due(m), \E f \in Releases : m \in f,
           schema' = schema \o <<m>>, versions' = versions \cup {m}
    PROVE  Sorted' /\ \A v \in versions' : Due(v)'
<1>1. ASSUME NEW v \in versions PROVE v < m
  <2>1. v \in Nat /\ v # m /\ Due(v)
    BY DEF IInv, TypeOK, Order
  <2>2. ~(m < v)
    BY <2>1 DEF Due
  <2> QED
    BY <2>1, <2>2
<1>2. schema \in Seq(Nat) /\ \A i \in 1..Len(schema) : schema[i] \in versions
  <2>1. schema \in Seq(Nat) /\ DOMAIN schema = 1..Len(schema)
    BY DEF IInv, TypeOK
  <2> QED
    BY <2>1 DEF IInv, AppliedOnce, Range
<1>3. Sorted'
  <2> DEFINE t == schema \o <<m>>
  <2>1. /\ Len(schema) \in Nat /\ Len(t) = Len(schema) + 1
        /\ \A i \in 1..Len(schema) : t[i] = schema[i]
        /\ t[Len(schema) + 1] = m
    BY <1>2
  <2>2. schema' = t
    OBVIOUS
  <2> HIDE DEF t
  <2> SUFFICES ASSUME NEW i \in 1..Len(schema) + 1, NEW j \in 1..Len(schema) + 1, i < j
               PROVE  t[i] < t[j]
    BY <2>1, <2>2 DEF Sorted
  <2>3. i \in 1..Len(schema)
    BY <2>1
  <2>4. CASE j = Len(schema) + 1
    BY <1>1, <1>2, <2>1, <2>3, <2>4
  <2>5. CASE j \in 1..Len(schema)
    BY <2>1, <2>3, <2>5 DEF Order, Sorted
  <2> QED
    BY <2>1, <2>4, <2>5
<1>4. \A v \in versions' : Due(v)'
    BY DEF Order, Due
<1> QED
    BY <1>3, <1>4

\* A step that commits nothing.
LEMMA OrderStays ==
    ASSUME Order, UNCHANGED <<schema, versions>>,
           \A r \in Replica : conn'[r] # NoSession =>
               files'[r] \in Releases /\ todo'[r] \subseteq files'[r],
           \A s \in Session : inFlight'[s] = "commit" =>
               \/ inFlight[s] = "commit" /\ tx'[s] = tx[s]
               \/ \A m \in Nat : tx'[s] = <<m>> => Due(m) /\ \E f \in Releases : m \in f
    PROVE  Order'
<1>1. \A m \in Nat : Due(m)' = Due(m)
    BY DEF Due
<1>2. Sorted' /\ \A v \in versions' : Due(v)'
    BY DEF Order, Sorted, Due
<1>3. \A s \in Session : inFlight'[s] = "commit" =>
          \A m \in Nat : tx'[s] = <<m>> => Due(m)' /\ \E f \in Releases : m \in f
    BY <1>1 DEF Order
<1> QED
    BY <1>2, <1>3 DEF Order

\* A connection that is abandoned while it commits was committing the next file.
LEMMA AbandonOrder ==
    ASSUME IInv, Order, AppendOnly, NEW r \in Replica, pc[r] # "down", Abandon(r)
    PROVE  Order'
<1>1. /\ UNCHANGED <<files, todo, tx, schema, versions>>
      /\ conn' = [conn EXCEPT ![r] = NoSession]
      /\ inFlight' = [inFlight EXCEPT ![conn[r]] = pc[r]]
      /\ conn \in [Replica -> Session \cup {NoSession}]
      /\ inFlight \in [Session -> Place \cup {"none", "locked", "committed"}]
      /\ conn[r] \in Session
    BY DEF Abandon, IInv, TypeOK, Clients
<1>2. \A q \in Replica : conn'[q] # NoSession =>
          files'[q] \in Releases /\ todo'[q] \subseteq files'[q]
    BY <1>1 DEF Order
<1>3. \A s \in Session : s # conn[r] => inFlight'[s] = inFlight[s]
    BY <1>1
<1>4. pc[r] = "commit" =>
          \A m \in Nat : tx'[conn[r]] = <<m>> => Due(m) /\ \E f \in Releases : m \in f
  <2> SUFFICES ASSUME pc[r] = "commit", NEW m \in Nat, tx[conn[r]] = <<m>>
               PROVE  Due(m) /\ \E f \in Releases : m \in f
    BY <1>1
  <2>1. todo[r] # {} /\ tx[conn[r]] = <<Min(todo[r])>>
    BY <1>1 DEF IInv, Clients, OwnTx
  <2>2. m = Min(todo[r])
    BY <2>1
  <2> QED
    BY <2>1, <2>2, LeastIsDue
<1> QED
    BY <1>1, <1>2, <1>3, <1>4, OrderStays

\* Every step keeps the order.
LEMMA NextOrder == AppendOnly /\ IInv /\ Order /\ [Next]_vars => Order'
<1> SUFFICES ASSUME AppendOnly, IInv, Order, [Next]_vars PROVE Order'
    OBVIOUS
<1>1. TypeOK /\ Clients
    BY DEF IInv
<1>2. ASSUME NEW r \in Replica, Start(r) PROVE Order'
    BY <1>1, <1>2, OrderStays DEF Start, Order, TypeOK
<1>3. ASSUME NEW r \in Replica, Lock(r) \/ Record(r) PROVE Order'
    BY <1>1, <1>3, OrderStays DEF Lock, Record, Order
<1>4. ASSUME NEW r \in Replica, NextFile(r) PROVE Order'
  <2>1. /\ UNCHANGED <<files, conn, inFlight, tx, schema, versions>>
        /\ todo' = todo \/ todo' = [todo EXCEPT ![r] = todo[r] \ {Min(todo[r])}]
    BY <1>4 DEF NextFile, server
  <2>2. \A q \in Replica : todo'[q] \subseteq todo[q]
    BY <1>1, <2>1 DEF TypeOK
  <2> QED
    BY <2>1, <2>2, OrderStays DEF Order
<1>5. ASSUME NEW r \in Replica, Apply(r) \/ StatementFails(r) PROVE Order'
  <2>1. /\ UNCHANGED <<files, conn, todo, inFlight, schema, versions>>
        /\ conn[r] \in Session /\ inFlight[conn[r]] = "none"
        /\ \A s \in Session : s # conn[r] => tx'[s] = tx[s]
    BY <1>1, <1>5 DEF Apply, StatementFails, EmptyTx, Goto, Clients, TypeOK
  <2> QED
    BY <2>1, OrderStays DEF Order
<1>6. ASSUME NEW r \in Replica, Unlock(r) PROVE Order'
  <2>1. UNCHANGED <<files, todo, inFlight, tx, schema, versions>>
    BY <1>6 DEF Unlock
  <2>2. \A q \in Replica : conn'[q] = conn[q] \/ conn'[q] = NoSession
    BY <1>1, <1>6 DEF Unlock, TypeOK
  <2> QED
    BY <2>1, <2>2, OrderStays DEF Order
<1>7. ASSUME NEW r \in Replica, TimesOut(r) \/ Crashes(r) PROVE Order'
    BY <1>7, AbandonOrder DEF TimesOut, Crashes
<1>8. ASSUME NEW r \in Replica, Commit(r) PROVE Order'
  <2> DEFINE m == Min(todo[r])
  <2>1. /\ pc[r] = "commit" /\ conn[r] \in Session /\ conn[r] # NoSession /\ todo[r] # {}
        /\ m \notin versions /\ tx[conn[r]] = <<m>> /\ txVersions[conn[r]] = {m}
    BY <1>1, <1>8 DEF Commit, Goto, IInv, Clients, TypeOK, OwnTx
  <2>2. m \in Nat
    BY <1>1, <2>1, MinIsMember DEF TypeOK
  <2>3. Due(m) /\ \E f \in Releases : m \in f
    BY <2>1, LeastIsDue
  <2>4. schema' = schema \o <<m>> /\ versions' = versions \cup {m}
    BY <1>8, <2>1 DEF Commit, CommitTx
  <2>5. Sorted' /\ \A v \in versions' : Due(v)'
    BY <2>1, <2>2, <2>3, <2>4, CommitInOrder
  <2>6. \A s \in Session : inFlight'[s] # "commit"
    <3>1. lock = conn[r] /\ inFlight[conn[r]] = "none"
      BY <2>1 DEF IInv, LockHeld, Clients, Working
    <3> QED
      BY <1>8, <3>1 DEF Commit, IInv, LockHeld, Working
  <2>7. \A q \in Replica : conn'[q] # NoSession =>
            files'[q] \in Releases /\ todo'[q] \subseteq files'[q]
    <3>1. UNCHANGED <<files, conn>> /\ \A q \in Replica : todo'[q] \subseteq todo[q]
      BY <1>1, <1>8 DEF Commit, TypeOK
    <3> QED
      BY <3>1 DEF Order
  <2> QED
    BY <2>5, <2>6, <2>7 DEF Order
<1>9. ASSUME NEW s \in Session, LateLock(s) \/ CloseSession(s) PROVE Order'
  <2>1. UNCHANGED <<files, todo, conn, schema, versions>>
    BY <1>9 DEF LateLock, CloseSession, client
  <2>2. \A t \in Session : inFlight'[t] = "commit" => inFlight[t] = "commit" /\ tx'[t] = tx[t]
    BY <1>1, <1>9 DEF LateLock, CloseSession, EmptyTx, TypeOK
  <2> QED
    BY <2>1, <2>2, OrderStays DEF Order
<1>10. ASSUME NEW s \in Session, LateCommit(s) PROVE Order'
  <2>1. inFlight[s] = "commit" /\ lock = s
    BY <1>10 DEF LateCommit, IInv, LockHeld, Working
  <2>2. PICK m \in Nat \ versions : tx[s] = <<m>> /\ txVersions[s] = {m}
    BY <2>1 DEF IInv, LateTx
  <2>3. Due(m) /\ \E f \in Releases : m \in f
    BY <2>1, <2>2 DEF Order
  <2>4. schema' = schema \o <<m>> /\ versions' = versions \cup {m}
    BY <1>10, <2>2 DEF LateCommit, CommitTx
  <2>5. Sorted' /\ \A v \in versions' : Due(v)'
    BY <2>2, <2>3, <2>4, CommitInOrder
  <2>6. \A t \in Session : inFlight'[t] # "commit"
    <3>1. \A t \in Session : t # s => inFlight[t] # "commit"
      BY <2>1 DEF IInv, LockHeld, Working
    <3> QED
      BY <1>1, <1>10, <3>1 DEF LateCommit, TypeOK
  <2> QED
    BY <1>10, <2>5, <2>6 DEF LateCommit, client, Order
<1>11. CASE UNCHANGED vars
    BY <1>11, OrderStays DEF vars, client, server, Order
<1> QED
    BY <1>2, <1>3, <1>4, <1>5, <1>6, <1>7, <1>8, <1>9, <1>10, <1>11 DEF Next, Migrate

-----------------------------------------------------------------------------
(* The theorems *)

\* Every variable keeps its type.
THEOREM TypeCorrect == Spec => []TypeOK
<1>1. IInv => TypeOK
    BY DEF IInv
<1> QED
    BY <1>1, Inductive, PTL

\* No migration is applied twice or recorded without its effect
\* (migrate.go:42-79), whoever dies with a statement in flight.
THEOREM MigrationsAppliedOnce == Spec => []AppliedOnce
<1>1. IInv => AppliedOnce
    BY DEF IInv
<1> QED
    BY <1>1, Inductive, PTL

\* A server that accepts requests has its schema.
THEOREM ServingAfterMigrating == Spec => []ServingIsMigrated
<1>1. IInv => ServingIsMigrated
  <2> SUFFICES ASSUME IInv, NEW r \in Replica, pc[r] = "serving"
               PROVE  files[r] \subseteq versions
    BY DEF ServingIsMigrated
  <2>1. files[r] \subseteq todo[r] \cup versions /\ todo[r] = {}
    BY DEF IInv, Progress
  <2> QED
    BY <2>1
<1> QED
    BY <1>1, Inductive, PTL

\* The advisory lock (migrate.go:37) excludes also the dead.
THEOREM MigrationsOneAtATime == Spec => []OneMigrationAtATime
<1>1. IInv => OneMigrationAtATime
    BY DEF IInv, LockHeld, OneMigrationAtATime
<1> QED
    BY <1>1, Inductive, PTL

\* Releases that only append are applied in their order, also by sessions whose
\* client is dead (migrate.go:42-79).
THEOREM MigrationsInOrder == Spec => []AppliedInOrder
<1>1. CASE AppendOnly
  <2>1. Init => Order
    BY DEF Init, Order, Sorted
  <2>2. IInv /\ Order /\ [Next]_vars => Order'
    BY <1>1, NextOrder
  <2>3. Order => AppliedInOrder
    BY DEF Order, Sorted, AppliedInOrder
  <2> QED
    BY <2>1, <2>2, <2>3, Inductive, PTL DEF Spec
<1>2. CASE ~AppendOnly
  <2>1. AppliedInOrder
    BY <1>2 DEF AppendOnly, AppliedInOrder
  <2> QED
    BY <2>1, PTL
<1> QED
    BY <1>1, <1>2
=============================================================================
