------------------------ MODULE SendCommands_proofs -------------------------
(***************************************************************************)
(* Proofs about SendCommands, for any list of commands, accounts, users    *)
(* and backends: a status "accepted" rests on an answer of the bank, no    *)
(* job is forgotten, and requests go out under the lock of the user only.  *)
(***************************************************************************)
EXTENDS SendCommands, SequenceTheorems, WellFoundedInduction, TLAPS

\* No element occurs twice.
Distinct(s) == \A m, n \in DOMAIN s : s[m] = s[n] => m = n

Locked   == {"accounts", "collect", "send", "finish"}
Handling == {"collect", "send", "finish"}
ByUser   == {"byUser", "users"} \cup Locked

\* A job is in the queue of its account, once.
QueuesOK ==
    \A a \in Account :
        /\ Distinct(queue[a])
        /\ \A n \in DOMAIN queue[a] : queue[a][n] < next /\ account[queue[a][n]] = a

\* An account is in one list at most, that of its backend, or of its user.
ListsOK ==
    /\ Distinct(accountQueues)
    /\ \A p \in Provider :
          /\ Distinct(accountsOf[p])
          /\ \A a \in InSeq(accountsOf[p]) :
                ProviderOf[a] = p /\ a \notin InSeq(accountQueues)
    /\ \A u \in User :
          /\ Distinct(accountsFor[u])
          /\ \A a \in InSeq(accountsFor[u]) :
                /\ UserOf[a] = u
                /\ a \notin InSeq(accountQueues)
                /\ \A p \in Provider : a \notin InSeq(accountsOf[p])
                /\ pc \in ByUser => ProviderOf[a] = CurrentProvider

\* What is so in each phase.
PhaseOK ==
    /\ pc = "sort" =>
         /\ ref = [j \in Job |-> 0]
         /\ \A p \in Provider : accountsOf[p] = <<>>
         /\ \A u \in User : accountsFor[u] = <<>>
    /\ pc \notin {"sort", "byProvider"} /\ rv # "error" => accountQueues = <<>>
    /\ pc \in ByUser \cup {"endProvider"} => providerQueues # <<>>
    /\ pc \in {"users"} \cup Locked => accountsOf[CurrentProvider] = <<>>
    /\ pc \in Locked => userQueues # <<>>
    /\ pc \in Locked => CurrentUser \in locked
    /\ locked \subseteq stuck \cup (IF pc \in Locked THEN {CurrentUser} ELSE {})
    /\ pc \in Handling => accountsFor[CurrentUser] # <<>>
    /\ rv # "none" => pc = "done"
    /\ rv = "ok" => providerQueues = <<>>

\* Is an account in one of the lists?
InLists(a) ==
    \/ a \in InSeq(accountQueues)
    \/ \E p \in Provider : a \in InSeq(accountsOf[p])
    \/ \E u \in User : a \in InSeq(accountsFor[u])

\* The jobs of an account whose turn has not come refer to no others.
Untouched ==
    \A a \in Account :
        InLists(a) /\ (pc \in Handling => a # CurrentAccount) =>
          \A n \in DOMAIN queue[a] : ref[queue[a][n]] = 0

\* The list of jobs to be sent: taken from the queue so far, once, and
\* referring to no others; nor do those that are still to be looked at.
ToSendOK ==
    /\ pc \in Handling => InSeq(toSend) \subseteq InSeq(queue[CurrentAccount])
    /\ pc = "collect" =>
         /\ Distinct(toSend)
         /\ \A t \in InSeq(toSend) :
               /\ ref[t] = 0
               /\ \A n \in DOMAIN queue[CurrentAccount] :
                     queue[CurrentAccount][n] = t => n < i
         /\ \A n \in DOMAIN queue[CurrentAccount] :
               i <= n => ref[queue[CurrentAccount][n]] = 0

\* A job for aqofxconnect refers to one that begins no later.
RefersBack ==
    \A j \in Taken :
        ref[j] # 0 /\ Kind[ProviderOf[account[j]]] = "aqofxconnect"
          => ref[j] \in Taken /\ Begins(ref[j], j)

\* What is reported as accepted was answered, or a job that begins no later.
AcceptedBegins ==
    \A j \in Taken : status[j] = "accepted" => \E k \in answered : Begins(k, j)

\* Where an account waits, as long as nothing has failed.
Pending(a) ==
    \/ a \in InSeq(accountQueues)
    \/ /\ ProviderOf[a] \in InSeq(providerQueues)
       /\ a \in InSeq(accountsOf[ProviderOf[a]])
    \/ /\ pc \in ByUser
       /\ UserOf[a] \in InSeq(userQueues)
       /\ a \in InSeq(accountsFor[UserOf[a]])

Unharmed == faults = 0 /\ ~aborted /\ rv # "error"

\* The jobs of the list that are still to be sent.
Unsent ==
    CASE pc = "collect" -> InSeq(toSend)
      [] pc = "send"    -> {toSend[m] : m \in {m \in DOMAIN toSend : i <= m}}
      [] OTHER          -> {}

\* Every job waits with its account, or its references lead to one that is
\* settled or about to be sent; so do those of the current account that were
\* looked at.
Accounted ==
    Unharmed =>
        /\ pc # "endProvider"
        /\ \A j \in Taken :
              Pending(account[j]) \/ LeadsTo(ref, j, Unsent \cup Settled)
        /\ pc \in Handling =>
             \A n \in DOMAIN queue[CurrentAccount] :
                (pc = "collect" => n < i) =>
                   LeadsTo(ref, queue[CurrentAccount][n], Unsent \cup Settled)

\* The inductive invariant.
IInv ==
    /\ TypeOK
    /\ QueuesOK /\ ListsOK /\ PhaseOK /\ Untouched /\ ToSendOK
    /\ RefersBack /\ AcceptedBegins
    /\ Accounted

-----------------------------------------------------------------------------
(* Sequences without duplicates.                                           *)

LEMMA InSeqEmpty == InSeq(<<>>) = {} /\ Distinct(<<>>)
BY DEF InSeq, Distinct

LEMMA InSeqType ==
    ASSUME NEW S, NEW s \in Seq(S)
    PROVE  InSeq(s) \subseteq S /\ \A n \in DOMAIN s : s[n] \in InSeq(s)
BY DEF InSeq

LEMMA AppendInSeq ==
    ASSUME NEW S, NEW s \in Seq(S), NEW x \in S
    PROVE  /\ Append(s, x) \in Seq(S)
           /\ InSeq(Append(s, x)) = InSeq(s) \cup {x}
           /\ x \notin InSeq(s) /\ Distinct(s) => Distinct(Append(s, x))
           /\ Append(s, x) # <<>>
<1>1. /\ Append(s, x) \in Seq(S)
      /\ DOMAIN s = 1..Len(s) /\ DOMAIN Append(s, x) = 1..(Len(s) + 1)
      /\ Len(s) \in Nat
      /\ \A n \in 1..Len(s) : Append(s, x)[n] = s[n]
      /\ Append(s, x)[Len(s) + 1] = x
      /\ Append(s, x) # <<>>
  BY AppendProperties, LenProperties
<1>2. InSeq(Append(s, x)) = InSeq(s) \cup {x}
  <2>1. \A y \in InSeq(Append(s, x)) : y \in InSeq(s) \cup {x}
    BY <1>1 DEF InSeq
  <2>2. \A y \in InSeq(s) \cup {x} : y \in InSeq(Append(s, x))
    <3>1. Len(s) + 1 \in DOMAIN Append(s, x) /\ DOMAIN s \subseteq DOMAIN Append(s, x)
      BY <1>1
    <3> QED
      BY <1>1, <3>1 DEF InSeq
  <2> QED
    BY <2>1, <2>2
<1>3. x \notin InSeq(s) /\ Distinct(s) => Distinct(Append(s, x))
  BY <1>1 DEF Distinct, InSeq
<1> QED
  BY <1>1, <1>2, <1>3

LEMMA ListedInSeq ==
    ASSUME NEW S, NEW s \in Seq(S), NEW x \in S
    PROVE  /\ Listed(s, x) \in Seq(S)
           /\ InSeq(Listed(s, x)) = InSeq(s) \cup {x}
           /\ Distinct(s) => Distinct(Listed(s, x))
           /\ Listed(s, x) # <<>>
<1>1. CASE x \in InSeq(s)
  BY <1>1, InSeqEmpty DEF Listed
<1>2. CASE x \notin InSeq(s)
  BY <1>2, AppendInSeq DEF Listed
<1> QED
  BY <1>1, <1>2

LEMMA TailInSeq ==
    ASSUME NEW S, NEW s \in Seq(S), s # <<>>
    PROVE  /\ Tail(s) \in Seq(S) /\ Head(s) \in S
           /\ InSeq(s) = InSeq(Tail(s)) \cup {Head(s)}
           /\ Distinct(s) => Distinct(Tail(s)) /\ Head(s) \notin InSeq(Tail(s))
<1>1. /\ Tail(s) \in Seq(S) /\ Head(s) \in S /\ Head(s) = s[1]
      /\ Len(s) \in Nat \ {0}
      /\ DOMAIN s = 1..Len(s) /\ DOMAIN Tail(s) = 1..(Len(s) - 1)
      /\ \A n \in 1..(Len(s) - 1) : Tail(s)[n] = s[n + 1]
  BY HeadTailProperties, LenProperties, EmptySeq
<1>2. InSeq(s) = InSeq(Tail(s)) \cup {Head(s)}
  <2>1. ASSUME NEW n \in 1..Len(s) PROVE s[n] \in InSeq(Tail(s)) \cup {Head(s)}
    <3>1. CASE n = 1
      BY <3>1, <1>1
    <3>2. CASE n # 1
      <4>1. n - 1 \in DOMAIN Tail(s) /\ Tail(s)[n - 1] = s[n]
        BY <3>2, <1>1
      <4> QED
        BY <4>1 DEF InSeq
    <3> QED
      BY <3>1, <3>2
  <2>2. InSeq(Tail(s)) \cup {Head(s)} \subseteq InSeq(s)
    BY <1>1 DEF InSeq
  <2> QED
    BY <1>1, <2>1, <2>2 DEF InSeq
<1>3. Distinct(s) => Distinct(Tail(s)) /\ Head(s) \notin InSeq(Tail(s))
  BY <1>1 DEF InSeq, Distinct
<1> QED
  BY <1>1, <1>2, <1>3

\* Removing an element of a sequence without duplicates.
LEMMA WithoutInSeq ==
    ASSUME NEW S, NEW s \in Seq(S), Distinct(s), NEW k \in DOMAIN s
    PROVE  /\ Without(s, k) \in Seq(S)
           /\ InSeq(Without(s, k)) = InSeq(s) \ {s[k]}
           /\ Distinct(Without(s, k))
<1> DEFINE a == SubSeq(s, 1, k - 1)
           b == SubSeq(s, k + 1, Len(s))
           w == Without(s, k)
<1>1. Len(s) \in Nat /\ DOMAIN s = 1..Len(s) /\ k \in 1..Len(s)
  BY LenProperties
<1>2. /\ a \in Seq(S) /\ Len(a) = k - 1
      /\ \A n \in 1..(k - 1) : a[n] = s[n]
  <2>1. 1 \in Int /\ k - 1 \in Int /\ \A n \in 1..(k - 1) : s[n] \in S
    BY <1>1, ElementOfSeq
  <2>2. /\ a \in Seq(S) /\ Len(a) = IF 1 <= k - 1 THEN k - 1 - 1 + 1 ELSE 0
        /\ \A n \in 1..(k - 1 - 1 + 1) : a[n] = s[1 + n - 1]
    BY <2>1, SubSeqProperties
  <2> HIDE DEF a
  <2> QED
    BY <1>1, <2>2
<1>3. /\ b \in Seq(S) /\ Len(b) = Len(s) - k
      /\ \A n \in 1..(Len(s) - k) : b[n] = s[k + n]
  <2>1. k + 1 \in Int /\ Len(s) \in Int /\ \A n \in (k + 1)..Len(s) : s[n] \in S
    BY <1>1, ElementOfSeq
  <2>2. /\ b \in Seq(S)
        /\ Len(b) = IF k + 1 <= Len(s) THEN Len(s) - (k + 1) + 1 ELSE 0
        /\ \A n \in 1..(Len(s) - (k + 1) + 1) : b[n] = s[k + 1 + n - 1]
    BY <2>1, SubSeqProperties
  <2> HIDE DEF b
  <2>3. \A n \in 1..(Len(s) - k) :
           n \in 1..(Len(s) - (k + 1) + 1) /\ k + 1 + n - 1 = k + n
    BY <1>1
  <2> QED
    BY <1>1, <2>2, <2>3
<1>4. /\ w \in Seq(S) /\ Len(w) = Len(s) - 1
      /\ \A n \in 1..(Len(s) - 1) : w[n] = IF n < k THEN s[n] ELSE s[n + 1]
  <2>1. w = a \o b
    BY DEF Without
  <2> HIDE DEF a, b, w
  <2>2. /\ w \in Seq(S) /\ Len(w) = Len(a) + Len(b)
        /\ \A n \in 1..(Len(a) + Len(b)) :
              w[n] = IF n <= Len(a) THEN a[n] ELSE b[n - Len(a)]
    BY <2>1, <1>2, <1>3, ConcatProperties
  <2>3. ASSUME NEW n \in 1..(Len(s) - 1)
        PROVE  w[n] = IF n < k THEN s[n] ELSE s[n + 1]
    <3>1. CASE n < k
      BY <3>1, <2>2, <1>1, <1>2, <1>3
    <3>2. CASE ~(n < k)
      <4>1. n - (k - 1) \in 1..(Len(s) - k) /\ k + (n - (k - 1)) = n + 1
        BY <3>2, <1>1
      <4>2. w[n] = b[n - (k - 1)]
        BY <3>2, <2>2, <1>1, <1>2, <1>3
      <4>3. b[n - (k - 1)] = s[k + (n - (k - 1))]
        BY <4>1, <1>3
      <4> QED
        BY <3>2, <4>1, <4>2, <4>3
    <3> QED
      BY <3>1, <3>2
  <2> QED
    BY <1>1, <1>2, <1>3, <2>2, <2>3
<1> HIDE DEF a, b, w
<1>5. DOMAIN w = 1..(Len(s) - 1)
  BY <1>4, LenProperties
<1>6. InSeq(w) \subseteq InSeq(s) \ {s[k]}
  BY <1>1, <1>4, <1>5 DEF InSeq, Distinct
<1>7. ASSUME NEW n \in 1..Len(s), s[n] # s[k] PROVE s[n] \in InSeq(w)
  <2>1. CASE n < k
    <3>1. n \in DOMAIN w /\ w[n] = s[n]
      BY <2>1, <1>1, <1>4, <1>5
    <3> QED
      BY <3>1 DEF InSeq
  <2>2. CASE n > k
    <3>1. n - 1 \in DOMAIN w /\ w[n - 1] = s[n]
      BY <2>2, <1>1, <1>4, <1>5
    <3> QED
      BY <3>1 DEF InSeq
  <2> QED
    BY <2>1, <2>2, <1>1, <1>7
<1>8. Distinct(w)
  <2>1. ASSUME NEW m \in 1..(Len(s) - 1), NEW n \in 1..(Len(s) - 1), w[m] = w[n]
        PROVE  m = n
    <3>1. PICK m1 \in 1..Len(s) : w[m] = s[m1] /\ m1 = IF m < k THEN m ELSE m + 1
      BY <1>1, <1>4
    <3>2. PICK n1 \in 1..Len(s) : w[n] = s[n1] /\ n1 = IF n < k THEN n ELSE n + 1
      BY <1>1, <1>4
    <3>3. m1 = n1
      BY <1>1, <2>1, <3>1, <3>2 DEF Distinct
    <3> QED
      BY <1>1, <3>1, <3>2, <3>3
  <2> QED
    BY <1>5, <2>1 DEF Distinct
<1>9. InSeq(s) = {s[n] : n \in 1..Len(s)}
  BY <1>1 DEF InSeq
<1> QED
  BY <1>4, <1>6, <1>7, <1>8, <1>9 DEF w

\* There is a first among positions.
LEMMA EarliestIn ==
    ASSUME NEW I \in SUBSET Nat, I # {}
    PROVE  Earliest(I) \in I
<1>1. IsWellFoundedOn({p \in Nat \X Nat : p[1] < p[2]}, Nat)
  BY NatLessThanWellFounded DEF OpToRel
<1> DEFINE R == {p \in Nat \X Nat : p[1] < p[2]}
<1>2. \E k \in I : \A l \in I : ~(<<l, k>> \in R)
  <2> HIDE DEF R
  <2>1. IsWellFoundedOn(R, Nat)
    BY <1>1 DEF R
  <2> QED
    BY <2>1, WFMin
<1>3. \A k, l \in Nat : <<l, k>> \in R <=> l < k
  OBVIOUS
<1>4. \E k \in I : \A l \in I : k <= l
  <2>1. PICK k \in I : \A l \in I : ~(<<l, k>> \in R)
    BY <1>2
  <2>2. \A l \in I : l \in Nat /\ k \in Nat
    OBVIOUS
  <2> HIDE DEF R
  <2>3. \A l \in I : ~(l < k)
    BY <1>3, <2>1, <2>2
  <2>4. \A l \in I : k <= l
    BY <2>2, <2>3
  <2> QED
    BY <2>4
<1> QED
  BY <1>4 DEF Earliest

-----------------------------------------------------------------------------
(* References between jobs.                                                *)

\* More jobs to lead to.
LEMMA LeadsToMore ==
    ASSUME NEW r, NEW j, NEW R1, NEW R2, LeadsTo(r, j, R1),
           \A k \in R1 : r[k] = 0 => k \in R2
    PROVE  LeadsTo(r, j, R2)
BY DEF LeadsTo

\* A job that refers to no other leads to itself.
LEMMA LeadsToSelf ==
    ASSUME NEW r, NEW j, NEW R, r[j] = 0, j \in R
    PROVE  LeadsTo(r, j, R)
BY DEF LeadsTo

\* A job that referred to no other now refers to job t, which leads to itself.
LEMMA LeadsToFurther ==
    ASSUME NEW r \in [Job -> 0..NumJobs], NEW j, NEW k \in Job, NEW t \in Job,
           NEW R1, NEW R2,
           r[k] = 0, r[t] = 0, t # k, t \in R2,
           LeadsTo(r, j, R1),
           \A l \in R1 : l = k \/ (r[l] = 0 => l \in R2)
    PROVE  LeadsTo([r EXCEPT ![k] = t], j, R2)
<1> DEFINE q == [r EXCEPT ![k] = t]
<1>1. /\ q[k] = t /\ \A l \in Job : l # k => q[l] = r[l]
  OBVIOUS
<1> HIDE DEF q
<1>2. SUFFICES ASSUME NEW S \in SUBSET Job, j \in S,
                      \A l \in S : q[l] # 0 => q[l] \in S
               PROVE  \E l \in S : q[l] = 0 /\ l \in R2
  BY DEF LeadsTo, q
<1>3. \A l \in S : r[l] # 0 => r[l] \in S
  BY <1>1, <1>2
<1>4. PICK l \in S : r[l] = 0 /\ l \in R1
  BY <1>2, <1>3 DEF LeadsTo
<1>5. CASE l = k
  <2>1. 0 \notin Job
    BY DEF Job
  <2>2. t \in S
    BY <1>1, <1>2, <1>5, <2>1
  <2> QED
    BY <1>1, <2>2
<1>6. CASE l # k
  BY <1>1, <1>4, <1>6
<1> QED
  BY <1>5, <1>6

\* To begin no later is reflexive and transitive.
LEMMA BeginsOrder ==
    ASSUME TypeOK
    PROVE  /\ \A j \in Job : Begins(j, j)
           /\ \A j, k, l \in Job : Begins(l, k) /\ Begins(k, j) => Begins(l, j)
<1>1. \A j \in Job : from[j] \in Int /\ 0 <= from[j]
  BY SendCommandsAssumption DEF TypeOK
<1> QED
  BY <1>1 DEF Begins

\* Among requests that differ in their first dates only, the one that begins no
\* later asks for all the other one asks for.
LEMMA SameEndCovers ==
    ASSUME TypeOK, NEW j \in Job, NEW k \in Job, Begins(k, j), SameEnd(account[j])
    PROVE  Covers(k, j)
<1>1. account[k] = account[j]
  BY DEF Begins
<1>2. ASSUME command[j] = "transactions"
      PROVE  command[k] = "transactions" /\ Days(j) \subseteq Days(k)
  <2>1. from[j] # 0
    BY <1>2 DEF SameEnd
  <2>2. command[k] = "transactions" /\ from[k] <= from[j]
    BY <1>2, <2>1 DEF Begins
  <2>3. to[j] = to[k]
    BY <1>1, <1>2, <2>2 DEF SameEnd
  <2>4. from[j] \in Int /\ from[k] \in Int /\ LastDate \in Nat
    BY SendCommandsAssumption DEF TypeOK
  <2> QED
    BY <2>2, <2>3, <2>4 DEF Days
<1> QED
  BY <1>1, <1>2 DEF Covers

-----------------------------------------------------------------------------
(* Types.                                                                  *)

\* What the heads of the lists are.
LEMMA Heads ==
    ASSUME TypeOK
    PROVE  /\ providerQueues # <<>> =>
                CurrentProvider \in Provider /\ Tail(providerQueues) \in Seq(Provider)
           /\ userQueues # <<>> =>
                CurrentUser \in User /\ Tail(userQueues) \in Seq(User)
           /\ accountQueues # <<>> =>
                Head(accountQueues) \in Account /\ Tail(accountQueues) \in Seq(Account)
           /\ \A p \in Provider : accountsOf[p] # <<>> =>
                Head(accountsOf[p]) \in Account /\ Tail(accountsOf[p]) \in Seq(Account)
           /\ \A u \in User : accountsFor[u] # <<>> =>
                Head(accountsFor[u]) \in Account /\ Tail(accountsFor[u]) \in Seq(Account)
           /\ \A n \in DOMAIN toSend : toSend[n] \in Job
           /\ \A a \in Account : \A n \in DOMAIN queue[a] : queue[a][n] \in Job
<1>1. /\ providerQueues \in Seq(Provider) /\ userQueues \in Seq(User)
      /\ accountQueues \in Seq(Account) /\ toSend \in Seq(Job)
      /\ \A p \in Provider : accountsOf[p] \in Seq(Account)
      /\ \A u \in User : accountsFor[u] \in Seq(Account)
      /\ \A a \in Account : queue[a] \in Seq(Job)
  BY DEF TypeOK
<1> QED
  BY <1>1, TailInSeq, InSeqType DEF CurrentProvider, CurrentUser

\* The current account, its jobs and those to be sent.
LEMMA Current ==
    ASSUME TypeOK, QueuesOK, ListsOK, PhaseOK, ToSendOK
    PROVE  /\ pc \in ByUser \cup {"endProvider"} => CurrentProvider \in Provider
           /\ pc \in Locked => CurrentUser \in User
           /\ pc \in Handling =>
                /\ CurrentAccount \in Account
                /\ CurrentAccount \in InSeq(accountsFor[CurrentUser])
                /\ UserOf[CurrentAccount] = CurrentUser
                /\ ProviderOf[CurrentAccount] = CurrentProvider
                /\ \A n \in DOMAIN queue[CurrentAccount] :
                      /\ queue[CurrentAccount][n] \in Job
                      /\ queue[CurrentAccount][n] \in Taken
                      /\ account[queue[CurrentAccount][n]] = CurrentAccount
                /\ \A n \in DOMAIN toSend :
                      /\ toSend[n] \in Job
                      /\ toSend[n] \in Taken
                      /\ account[toSend[n]] = CurrentAccount
<1>1. pc \in ByUser \cup {"endProvider"} => CurrentProvider \in Provider
  BY Heads DEF PhaseOK
<1>2. pc \in Locked => CurrentUser \in User
  BY Heads DEF PhaseOK
<1>3. ASSUME pc \in Handling
      PROVE  /\ CurrentAccount \in Account
             /\ CurrentAccount \in InSeq(accountsFor[CurrentUser])
             /\ UserOf[CurrentAccount] = CurrentUser
             /\ ProviderOf[CurrentAccount] = CurrentProvider
  <2>1. CurrentUser \in User /\ accountsFor[CurrentUser] # <<>>
    BY <1>2, <1>3 DEF Handling, Locked, PhaseOK
  <2>2. accountsFor[CurrentUser] \in Seq(Account)
    BY <2>1 DEF TypeOK
  <2>3. CurrentAccount \in Account /\ CurrentAccount \in InSeq(accountsFor[CurrentUser])
    BY <2>1, <2>2, TailInSeq DEF CurrentAccount
  <2> QED
    BY <1>3, <2>1, <2>3 DEF ListsOK, Handling, Locked, ByUser
<1>4. ASSUME NEW a \in Account, NEW n \in DOMAIN queue[a]
      PROVE  queue[a][n] \in Job /\ queue[a][n] \in Taken /\ account[queue[a][n]] = a
  BY Heads DEF QueuesOK, Taken, InSeq
<1>5. ASSUME pc \in Handling, NEW n \in DOMAIN toSend
      PROVE  toSend[n] \in Job /\ toSend[n] \in Taken /\ account[toSend[n]] = CurrentAccount
  <2>1. PICK m \in DOMAIN queue[CurrentAccount] : toSend[n] = queue[CurrentAccount][m]
    BY <1>5 DEF ToSendOK, InSeq
  <2> QED
    BY <2>1, <1>3, <1>4, <1>5
<1> QED
  BY <1>1, <1>2, <1>3, <1>4, <1>5

\* The jobs that were taken are members of the list.
LEMMA TakenIsJob ==
    ASSUME TypeOK, QueuesOK, NEW j \in Taken
    PROVE  /\ j \in Job /\ account[j] \in Account /\ j < next
           /\ \E n \in DOMAIN queue[account[j]] : queue[account[j]][n] = j
BY DEF Taken, InSeq, QueuesOK

\* The types hold initially.
LEMMA TypeInit == Init => TypeOK
<1> USE SendCommandsAssumption
<1>1. \A S : <<>> \in Seq(S)
  BY EmptySeq
<1>2. Init => status \in [Job -> Status]
  BY DEF Init, Status, Final
<1>3. Init => aborted \in BOOLEAN
  BY Zenon DEF Init
<1>4. Init => /\ ref \in [Job -> 0..NumJobs] /\ next \in 1..NumJobs + 1
              /\ faults \in 0..MaxFault /\ i \in Nat \ {0}
  BY DEF Init
<1>5. Init => /\ queue \in [Account -> Seq(Job)]
              /\ accountsOf \in [Provider -> Seq(Account)]
              /\ accountsFor \in [User -> Seq(Account)]
  BY <1>1 DEF Init
<1>6. Init => from \in [Job -> 0..LastDate] /\ to \in [Job -> 0..LastDate]
  <2> SUFFICES ASSUME Init PROVE from \in [Job -> 0..LastDate] /\ to \in [Job -> 0..LastDate]
    OBVIOUS
  <2>1. PICK period \in [Job -> Period \cup {<<0, 0>>}] :
           /\ from = [j \in Job |-> period[j][1]]
           /\ to = [j \in Job |-> period[j][2]]
    BY DEF Init
  <2>2. \A p \in Period \cup {<<0, 0>>} : p[1] \in 0..LastDate /\ p[2] \in 0..LastDate
    OBVIOUS
  <2> QED
    BY <2>1, <2>2
<1>7. Init => account \in [Job -> Account \cup {NoAccount}] /\ command \in [Job -> Command]
  BY DEF Init
<1>8. Init => /\ accountQueues \in Seq(Account) /\ providerQueues \in Seq(Provider)
              /\ userQueues \in Seq(User) /\ toSend \in Seq(Job)
              /\ pc \in Phase /\ rv \in {"none", "ok", "error"}
              /\ locked \subseteq User /\ stuck \subseteq User
              /\ reported \subseteq Job /\ answered \subseteq Job /\ asked \subseteq Job
  BY <1>1 DEF Init, Phase
<1> QED
  BY <1>2, <1>3, <1>4, <1>5, <1>6, <1>7, <1>8 DEF TypeOK

\* The fault counter keeps its type.
LEMMA FailsType == ASSUME TypeOK, NEW f, Fails(f) PROVE faults' \in 0..MaxFault
BY SendCommandsAssumption DEF TypeOK, Fails
\* The job that is being sent.
LEMMA SentJob ==
    ASSUME TypeOK, QueuesOK, ListsOK, PhaseOK, ToSendOK, pc = "send", i <= Len(toSend)
    PROVE  /\ i \in DOMAIN toSend
           /\ toSend[i] \in Job /\ toSend[i] \in Taken
           /\ account[toSend[i]] = CurrentAccount
           /\ toSend[i] \in InSeq(queue[CurrentAccount])
<1>1. i \in DOMAIN toSend
  BY DEF TypeOK
<1>2. toSend[i] \in InSeq(toSend)
  BY <1>1 DEF InSeq
<1> QED
  BY <1>1, <1>2, Current DEF Handling, ToSendOK

\* Adding a job to the list keeps the types.
LEMMA AddJobType ==
    ASSUME TypeOK, NEW k, NEW j \in Job, AddJob(k, j)
    PROVE  toSend' \in Seq(Job) /\ ref' \in [Job -> 0..NumJobs]
<1>1. toSend \in Seq(Job) /\ DOMAIN toSend \subseteq Nat
  BY DEF TypeOK
<1>2. CASE Answers(k, j) # {}
  <2>1. Earliest(Answers(k, j)) \in Answers(k, j)
    BY <1>1, <1>2, EarliestIn DEF Answers
  <2>2. toSend[Earliest(Answers(k, j))] \in 0..NumJobs
    BY <2>1, Heads DEF Answers, Job
  <2> QED
    BY <1>1, <1>2, <2>2 DEF AddJob, TypeOK
<1>3. CASE Answers(k, j) = {} /\ Replaced(k, j) # {}
  <2> DEFINE n == Earliest(Replaced(k, j))
  <2>1. n \in DOMAIN toSend
    BY <1>1, <1>3, EarliestIn DEF Replaced
  <2>2. j \in 0..NumJobs
    BY DEF Job
  <2>3. Without(toSend, n) \in Seq(Job)
    BY <1>1, <2>1, SubSeqProperties, ElementOfSeq, ConcatProperties DEF Without
  <2>4. Append(Without(toSend, n), j) \in Seq(Job)
    BY <2>3, AppendProperties
  <2> QED
    BY <1>3, <2>2, <2>4 DEF AddJob, TypeOK
<1>4. CASE Answers(k, j) = {} /\ Replaced(k, j) = {}
  <2>1. toSend' = Append(toSend, j) /\ ref' = ref
    BY <1>4 DEF AddJob
  <2> QED
    BY <1>1, <2>1, AppendProperties DEF TypeOK
<1> QED
  BY <1>2, <1>3, <1>4

\* Every step keeps the types.
LEMMA TypeStep ==
    ASSUME TypeOK, QueuesOK, ListsOK, PhaseOK, ToSendOK, [Next]_vars
    PROVE  TypeOK'
<1> USE SendCommandsAssumption DEF locks
<1>1. CASE SortRefused
  BY <1>1 DEF SortRefused, Return, TypeOK, Phase, commands, queues, history
<1>2. CASE Sorted
  BY <1>2 DEF Sorted, TypeOK, Phase, commands, queues, history
<1>3. CASE SortedByProvider
  BY <1>3 DEF SortedByProvider, TypeOK, Phase, commands, queues, history
<1>4. CASE SortedByUser
  BY <1>4 DEF SortedByUser, TypeOK, Phase, commands, queues, history
<1>5. CASE Sent
  BY <1>5 DEF Sent, Return, TypeOK, Phase, commands, queues, history
<1>6. CASE NextAccount
  <2>1. toSend' \in Seq(Job)
    BY <1>6, EmptySeq DEF NextAccount
  <2>2. i' \in Nat \ {0} /\ pc' \in Phase
    BY <1>6 DEF NextAccount, Phase
  <2> QED
    BY <1>6, <2>1, <2>2 DEF NextAccount, TypeOK, commands, queues, history
<1>7. CASE Collected
  <2>1. i' \in Nat \ {0} /\ pc' \in Phase
    BY <1>7 DEF Collected, Phase
  <2> QED
    BY <1>7, <2>1 DEF Collected, TypeOK, Phase, commands, queues, history
<1>8. CASE AllSent
  <2>1. i' \in Nat \ {0} /\ pc' \in Phase
    BY <1>8 DEF AllSent, Phase
  <2> QED
    BY <1>8, <2>1 DEF AllSent, TypeOK, Phase, commands, queues, history
<1>9. CASE LockUser
  BY <1>9, Heads DEF LockUser, PhaseOK, TypeOK, Phase, commands, queues,
     history
<1>10. CASE LockFails
  BY <1>10, Heads, FailsType
  DEF LockFails, Abandon, NextUser, TypeOK, Phase, commands, queues, history
<1>11. CASE NoSecrets
  BY <1>11, Heads, FailsType
  DEF NoSecrets, Abandon, NextUser, TypeOK, Phase, commands, queues, history
<1>12. CASE UnlockUser
  <2>1. /\ userQueues' \in Seq(User) /\ pc' \in Phase
        /\ locked' \subseteq User /\ stuck' \subseteq User
    BY <1>12, Heads DEF UnlockUser, Abandon, NextUser, TypeOK, PhaseOK, Locked,
       Phase
  <2>2. faults' \in 0..MaxFault
    BY <1>12, FailsType DEF UnlockUser, TypeOK
  <2> QED
    BY <1>12, <2>1, <2>2 DEF UnlockUser, TypeOK, Phase, commands, queues, history
<1>13. CASE NoSpec
  BY <1>13, FailsType DEF NoSpec, Return, TypeOK, Phase, commands, queues,
     history
<1>14. CASE NoUser
  BY <1>14, FailsType DEF NoUser, TypeOK, Phase, commands, queues, history
<1>15. CASE ProviderUnavailable
  BY <1>15, Heads, FailsType DEF ProviderUnavailable, TypeOK, Phase, commands,
     queues, history
<1>16. CASE EndUseProvider
  <2>1. providerQueues' \in Seq(Provider) /\ pc' \in Phase
    BY <1>16, Heads DEF EndUseProvider, PhaseOK, ByUser, Phase
  <2> QED
    BY <1>16, <2>1 DEF EndUseProvider, TypeOK, Phase, commands, queues, history
<1>17. CASE BeginUseProvider
  BY <1>17, EmptySeq DEF BeginUseProvider, TypeOK, Phase, commands, queues,
     history
<1>18. CASE SortAccount
  BY <1>18, Heads, AppendInSeq, ListedInSeq DEF SortAccount, TypeOK, Phase,
     commands, queues, history
<1>19. CASE SortUser
  <2> DEFINE a == Head(accountsOf[CurrentProvider])
             u == UserOf[a]
  <2>1. CurrentProvider \in Provider /\ a \in Account /\ u \in User
    BY <1>19, Heads, Current DEF SortUser, ByUser
  <2>2. userQueues' \in Seq(User)
    BY <1>19, <2>1, ListedInSeq DEF SortUser, TypeOK
  <2>3. accountsFor' \in [User -> Seq(Account)]
    BY <1>19, <2>1, AppendInSeq DEF SortUser, TypeOK
  <2>4. accountsOf' \in [Provider -> Seq(Account)]
    BY <1>19, <2>1, Heads DEF SortUser, TypeOK
  <2> QED
    BY <1>19, <2>2, <2>3, <2>4 DEF SortUser, TypeOK, commands, history
<1>20. CASE Sort
  <2>1. next \in Job /\ next' \in 1..NumJobs + 1
    BY <1>20 DEF Sort, Job, TypeOK
  <2>2. CASE status[next] \in Waiting
    <3>1. account[next] \in Account
      BY <1>20, <2>1, <2>2 DEF Sort, TypeOK
    <3>2. accountQueues' \in Seq(Account)
      BY <1>20, <2>2, <3>1, ListedInSeq DEF Sort, TypeOK
    <3>3. queue' \in [Account -> Seq(Job)]
      <4>1. Append(queue[account[next]], next) \in Seq(Job)
        BY <2>1, <3>1, AppendInSeq DEF TypeOK
      <4>2. queue' = [queue EXCEPT ![account[next]] = Append(queue[account[next]], next)]
        BY <1>20, <2>2 DEF Sort
      <4> QED
        BY <4>1, <4>2, <3>1 DEF TypeOK
    <3>4. status' \in [Job -> Status] /\ ref' \in [Job -> 0..NumJobs]
      <4>1. status' = [status EXCEPT ![next] = "enqueued"] /\ ref' = [ref EXCEPT ![next] = 0]
        BY <1>20, <2>2 DEF Sort
      <4>2. "enqueued" \in Status /\ 0 \in 0..NumJobs
        BY DEF Status
      <4> QED
        BY <4>1, <4>2, <2>1 DEF TypeOK
    <3> QED
      BY <1>20, <2>1, <3>2, <3>3, <3>4 DEF Sort, TypeOK, commands, history
  <2>3. CASE status[next] \notin Waiting
    BY <1>20, <2>1, <2>3 DEF Sort, TypeOK, commands, history
  <2> QED
    BY <2>2, <2>3
<1>21. CASE Collect
  <2> DEFINE j == queue[CurrentAccount][i]
  <2>1. j \in Job /\ i' \in Nat \ {0}
    <3>1. queue[CurrentAccount] \in Seq(Job) /\ i \in DOMAIN queue[CurrentAccount]
      BY <1>21, Current DEF Collect, Handling, TypeOK
    <3> QED
      BY <1>21, <3>1, Current DEF Collect, Handling, TypeOK
  <2>2. toSend' \in Seq(Job) /\ ref' \in [Job -> 0..NumJobs]
    <3>1. CASE UNCHANGED <<toSend, ref>>
      BY <3>1 DEF TypeOK
    <3>2. CASE AddJob(CurrentKind, j)
      BY <2>1, <3>2, AddJobType
    <3> QED
      BY <1>21, <3>1, <3>2 DEF Collect
  <2>3. reported' \subseteq Job
    BY <1>21, <2>1 DEF Collect, TypeOK
  <2> QED
    BY <1>21, <2>1, <2>2, <2>3 DEF Collect, TypeOK, commands, queues
<1>22. CASE Send
  <2>1. toSend[i] \in Job
    BY <1>22, SentJob DEF Send, InFlight
  <2>2. status' \in [Job -> Status]
    BY <1>22, <2>1 DEF Send, Sending, TypeOK, Status, Final
  <2>3. /\ i' \in Nat \ {0} /\ pc' \in Phase
        /\ aborted' = aborted \/ aborted' = TRUE
    BY <1>22 DEF Send, Onwards, TypeOK, Phase
  <2>4. asked' \subseteq Job /\ answered' \subseteq Job
    BY <1>22, <2>1 DEF Send, TypeOK
  <2>5. aborted' \in BOOLEAN
    BY <2>3, Zenon DEF TypeOK
  <2> QED
    BY <1>22, <2>2, <2>3, <2>5, <2>4 DEF Send, TypeOK, commands, queues
<1>23. CASE NotSendable
  <2>1. toSend[i] \in Job
    BY <1>23, SentJob DEF NotSendable, InFlight
  <2>2. status' \in [Job -> Status]
    BY <1>23, <2>1 DEF NotSendable, Sending, TypeOK, Status, Final
  <2>3. /\ i' \in Nat \ {0} /\ pc' \in Phase
        /\ aborted' = aborted \/ aborted' = TRUE
    BY <1>23 DEF NotSendable, Onwards, TypeOK, Phase
  <2>4. asked' \subseteq Job /\ answered' \subseteq Job
    BY <1>23, <2>1 DEF NotSendable, TypeOK
  <2>5. aborted' \in BOOLEAN
    BY <2>3, Zenon DEF TypeOK
  <2> QED
    BY <1>23, <2>2, <2>3, <2>5, <2>4 DEF NotSendable, TypeOK, commands, queues
<1>24. CASE Answer
  <2>1. toSend[i] \in Job
    BY <1>24, SentJob DEF Answer, InFlight
  <2>2. status' \in [Job -> Status]
    BY <1>24, <2>1 DEF Answer, Sending, TypeOK, Status, Final
  <2>3. /\ i' \in Nat \ {0} /\ pc' \in Phase
        /\ aborted' = aborted \/ aborted' = TRUE
    BY <1>24 DEF Answer, Onwards, TypeOK, Phase
  <2>4. asked' \subseteq Job /\ answered' \subseteq Job
    BY <1>24, <2>1 DEF Answer, TypeOK
  <2>5. aborted' \in BOOLEAN
    BY <2>3, Zenon DEF TypeOK
  <2> QED
    BY <1>24, <2>2, <2>3, <2>5, <2>4 DEF Answer, TypeOK, commands, queues
<1>25. CASE NoDetails
  BY <1>25, SentJob, FailsType DEF NoDetails, InFlight, TypeOK, Phase, Status,
     Final, commands, queues, history
<1>26. CASE Refuse
  <2>1. toSend[i] \in Job
    BY <1>26, SentJob DEF Refuse, InFlight
  <2>2. status' \in [Job -> Status]
    BY <1>26, <2>1 DEF Refuse, Sending, TypeOK, Status, Final
  <2>3. /\ i' \in Nat \ {0} /\ pc' \in Phase
        /\ aborted' = aborted \/ aborted' = TRUE
    BY <1>26 DEF Refuse, Onwards, TypeOK, Phase
  <2>4. asked' \subseteq Job /\ answered' \subseteq Job
    BY <1>26, <2>1 DEF Refuse, TypeOK
  <2>5. aborted' \in BOOLEAN
    BY <2>3, Zenon DEF TypeOK
  <2> QED
    BY <1>26, <2>2, <2>3, <2>5, <2>4 DEF Refuse, TypeOK, commands, queues
<1>27. CASE Abort
  <2>1. toSend[i] \in Job
    BY <1>27, SentJob DEF Abort, InFlight
  <2>2. status' \in [Job -> Status]
    BY <1>27, <2>1 DEF Abort, Sending, TypeOK, Status, Final
  <2>3. /\ i' \in Nat \ {0} /\ pc' \in Phase
        /\ aborted' = aborted \/ aborted' = TRUE
    BY <1>27 DEF Abort, Onwards, TypeOK, Phase
  <2>4. asked' \subseteq Job /\ answered' \subseteq Job
    BY <1>27, <2>1 DEF Abort, TypeOK
  <2>5. aborted' \in BOOLEAN
    BY <2>3, Zenon DEF TypeOK
  <2> QED
    BY <1>27, <2>2, <2>3, <2>5, <2>4 DEF Abort, TypeOK, commands, queues
<1>28. CASE Finish
  <2>1. /\ queue[CurrentAccount][i] \in Job
        /\ i' \in Nat \ {0}
    <3>1. queue[CurrentAccount] \in Seq(Job) /\ i \in DOMAIN queue[CurrentAccount]
      BY <1>28, Current DEF Finish, Handling, TypeOK
    <3> QED
      BY <1>28, <3>1, Current DEF Finish, Handling, TypeOK
  <2>2. status' \in [Job -> Status]
    <3> DEFINE j == queue[CurrentAccount][i]
    <3>1. ref[j] # 0 => ref[j] \in Job /\ status[ref[j]] \in Status
      <4>1. ref[j] \in 0..NumJobs
        BY <2>1 DEF TypeOK
      <4>2. ref[j] # 0 => ref[j] \in Job
        BY <4>1 DEF Job
      <4> QED
        BY <4>2 DEF TypeOK
    <3>2. status' = IF ref[j] = 0 THEN status ELSE [status EXCEPT ![j] = status[ref[j]]]
      BY <1>28 DEF Finish
    <3> QED
      BY <2>1, <3>1, <3>2 DEF TypeOK
  <2> QED
    BY <1>28, <2>1, <2>2 DEF Finish, TypeOK, commands, queues, history
<1>29. CASE Finished
  <2>1. CurrentUser \in User /\ accountsFor[CurrentUser] # <<>>
    BY <1>29, Current DEF Finished, PhaseOK, Locked, Handling
  <2>2. accountsFor' \in [User -> Seq(Account)]
    BY <1>29, <2>1, Heads DEF Finished, TypeOK
  <2> QED
    BY <1>29, <2>2 DEF Finished, TypeOK, Phase, commands, history
<1>30. CASE UNCHANGED vars
  BY <1>30 DEF vars, TypeOK, commands, queues, history
<1> QED
  BY <1>1, <1>2, <1>3, <1>4, <1>5, <1>6, <1>7, <1>8, <1>9, <1>10, <1>11,
     <1>12, <1>13, <1>14, <1>15, <1>16, <1>17, <1>18, <1>19, <1>20, <1>21,
     <1>22, <1>23, <1>24, <1>25, <1>26, <1>27, <1>28, <1>29, <1>30 DEF Next,
     Step, Done

-----------------------------------------------------------------------------
(* Queues and lists.                                                       *)

\* Only sorting the commands changes their queues.
LEMMA QueuesElsewhere ==
    ASSUME [Next]_vars, ~Sort
    PROVE  UNCHANGED <<commands, queue, next>>
BY DEF Next, Step, Done, vars, commands, queues, history, SortRefused, Sorted,
   SortAccount, NoSpec, SortedByProvider, BeginUseProvider,
   ProviderUnavailable, EndUseProvider, Sent, SortUser, NoUser, SortedByUser,
   LockUser, LockFails, NoSecrets, UnlockUser, NextAccount, Collect, Collected,
   Send, NotSendable, Answer, NoDetails, Refuse, Abort, AllSent, Finish,
   Finished

\* A command that is sorted comes behind all others of its account.
LEMMA SortQueue ==
    ASSUME TypeOK, QueuesOK, Sort, status[next] \in Waiting
    PROVE  /\ next \in Job /\ account[next] \in Account
           /\ \A a \in Account :
                /\ InSeq(queue'[a]) = IF a = account[next]
                                        THEN InSeq(queue[a]) \cup {next}
                                        ELSE InSeq(queue[a])
                /\ Distinct(queue'[a])
<1>1. next \in Job /\ account[next] \in Account
  <2>1. next \in Job
    BY DEF Sort, TypeOK, Job
  <2> QED
    BY <2>1 DEF Sort, TypeOK
<1>2. queue' = [queue EXCEPT ![account[next]] = Append(queue[account[next]], next)]
  BY DEF Sort
<1>3. queue[account[next]] \in Seq(Job) /\ Distinct(queue[account[next]])
  BY <1>1 DEF TypeOK, QueuesOK
<1>4. next \notin InSeq(queue[account[next]])
  BY <1>1, <1>3 DEF QueuesOK, InSeq, TypeOK, Job
<1>5. ASSUME NEW a \in Account
      PROVE  /\ InSeq(queue'[a]) = IF a = account[next]
                                      THEN InSeq(queue[a]) \cup {next}
                                      ELSE InSeq(queue[a])
             /\ Distinct(queue'[a])
  <2>1. CASE a = account[next]
    <3>1. queue'[a] = Append(queue[a], next)
      BY <1>2, <2>1 DEF TypeOK
    <3> QED
      BY <1>1, <1>3, <1>4, <2>1, <3>1, AppendInSeq
  <2>2. CASE a # account[next]
    BY <1>2, <2>2 DEF TypeOK, QueuesOK
  <2> QED
    BY <2>1, <2>2
<1> QED
  BY <1>1, <1>5

\* The jobs in the queue of an account.
LEMMA QueuesByMember ==
    QueuesOK <=> \A a \in Account :
                    /\ Distinct(queue[a])
                    /\ \A j \in InSeq(queue[a]) : j < next /\ account[j] = a
BY DEF QueuesOK, InSeq

LEMMA QueuesStep ==
    ASSUME TypeOK, QueuesOK, [Next]_vars
    PROVE  QueuesOK'
<1>1. CASE ~Sort
  BY <1>1, QueuesElsewhere DEF QueuesOK, commands
<1>2. CASE Sort /\ status[next] \in Waiting
  <2>1. ASSUME NEW a \in Account
        PROVE  /\ Distinct(queue'[a])
               /\ \A j \in InSeq(queue'[a]) : j < next' /\ account'[j] = a
    <3>1. \A j \in InSeq(queue[a]) : j \in Job /\ j < next /\ account[j] = a
      BY InSeqType, QueuesByMember DEF TypeOK
    <3>2. /\ Distinct(queue'[a])
          /\ \A j \in InSeq(queue'[a]) :
                j \in InSeq(queue[a]) \/ (j = next /\ a = account[next])
      BY <1>2, SortQueue
    <3>3. next' = next + 1 /\ account' = account /\ next \in Int
      BY <1>2 DEF Sort, commands, TypeOK
    <3>4. \A j \in Job : j < next => j < next + 1
      BY <3>3 DEF Job
    <3> QED
      BY <3>1, <3>2, <3>3, <3>4
  <2> QED
    BY <2>1 DEF QueuesOK, InSeq
<1>3. CASE Sort /\ status[next] \notin Waiting
  <2>1. \A a \in Account : \A n \in DOMAIN queue[a] : queue[a][n] \in Job
    BY Heads
  <2> QED
    BY <1>3, <2>1 DEF Sort, commands, QueuesOK, TypeOK, Job
<1> QED
  BY <1>1, <1>2, <1>3

LEMMA ListsStep ==
    ASSUME TypeOK, QueuesOK, ListsOK, PhaseOK, ToSendOK, [Next]_vars
    PROVE  ListsOK'
<1>a. UserOf \in [Account -> User] /\ ProviderOf \in [Account -> Provider]
  BY SendCommandsAssumption
<1> USE <1>a
<1>0. /\ accountQueues \in Seq(Account)
      /\ \A p \in Provider : accountsOf[p] \in Seq(Account)
      /\ \A u \in User : accountsFor[u] \in Seq(Account)
  BY DEF TypeOK
<1>1. CASE Sort
  <2>1. Distinct(accountQueues')
    <3>1. CASE status[next] \in Waiting
      BY <1>0, <1>1, <3>1, SortQueue, ListedInSeq DEF Sort, ListsOK
    <3>2. CASE status[next] \notin Waiting
      BY <1>1, <3>2 DEF Sort, ListsOK
    <3> QED
      BY <3>1, <3>2
  <2>2. /\ \A p \in Provider : accountsOf'[p] = <<>>
        /\ \A u \in User : accountsFor'[u] = <<>>
    BY <1>1 DEF Sort, PhaseOK
  <2> QED
    BY <2>1, <2>2, InSeqEmpty DEF ListsOK
<1>2. CASE SortAccount
  <2> DEFINE a == Head(accountQueues)
             p == ProviderOf[a]
  <2>1. /\ a \in Account /\ p \in Provider
        /\ InSeq(accountQueues) = InSeq(accountQueues') \cup {a}
        /\ Distinct(accountQueues') /\ a \notin InSeq(accountQueues')
    BY <1>0, <1>2, TailInSeq DEF SortAccount, ListsOK
  <2>2. /\ accountsOf' = [accountsOf EXCEPT ![p] = Append(accountsOf[p], a)]
        /\ accountsFor' = accountsFor /\ pc' \notin ByUser
    BY <1>2 DEF SortAccount, ByUser, Locked
  <2>3. \A q \in Provider : a \notin InSeq(accountsOf[q])
    BY <1>2, <2>1 DEF ListsOK
  <2>4. /\ InSeq(accountsOf'[p]) = InSeq(accountsOf[p]) \cup {a}
        /\ Distinct(accountsOf'[p])
    <3>1. accountsOf'[p] = Append(accountsOf[p], a)
      BY <2>1, <2>2 DEF TypeOK
    <3> QED
      BY <1>0, <2>1, <2>3, <3>1, AppendInSeq DEF ListsOK
  <2>5. \A q \in Provider : q # p => accountsOf'[q] = accountsOf[q]
    BY <2>2 DEF TypeOK
  <2> HIDE DEF a, p
  <2>6. ASSUME NEW q \in Provider
        PROVE  /\ Distinct(accountsOf'[q])
               /\ \A b \in InSeq(accountsOf'[q]) :
                     ProviderOf[b] = q /\ b \notin InSeq(accountQueues')
    BY <2>1, <2>4, <2>5 DEF ListsOK, p
  <2>7. ASSUME NEW u \in User
        PROVE  /\ Distinct(accountsFor'[u])
               /\ \A b \in InSeq(accountsFor'[u]) :
                     /\ UserOf[b] = u
                     /\ b \notin InSeq(accountQueues')
                     /\ \A q \in Provider : b \notin InSeq(accountsOf'[q])
    BY <2>1, <2>2, <2>4, <2>5 DEF ListsOK
  <2> QED
    BY <2>1, <2>2, <2>6, <2>7 DEF ListsOK
<1>3. CASE SortUser
  <2> DEFINE p == CurrentProvider
             a == Head(accountsOf[p])
             u == UserOf[a]
  <2>1. /\ p \in Provider /\ a \in Account /\ u \in User
        /\ InSeq(accountsOf[p]) = InSeq(Tail(accountsOf[p])) \cup {a}
        /\ Distinct(Tail(accountsOf[p])) /\ a \notin InSeq(Tail(accountsOf[p]))
    <3>1. p \in Provider
      BY <1>3, Current DEF SortUser, ByUser
    <3> QED
      BY <1>0, <1>3, <3>1, TailInSeq DEF SortUser, ListsOK
  <2>2. /\ accountsOf' = [accountsOf EXCEPT ![p] = Tail(accountsOf[p])]
        /\ accountsFor' = [accountsFor EXCEPT ![u] = Append(accountsFor[u], a)]
        /\ UNCHANGED <<accountQueues, providerQueues>> /\ pc \in ByUser
    BY <1>3 DEF SortUser, ByUser
  <2>3. /\ ProviderOf[a] = p /\ a \notin InSeq(accountQueues)
        /\ \A v \in User : a \notin InSeq(accountsFor[v])
    BY <2>1 DEF ListsOK
  <2>4. /\ InSeq(accountsFor'[u]) = InSeq(accountsFor[u]) \cup {a}
        /\ Distinct(accountsFor'[u])
    <3>1. accountsFor'[u] = Append(accountsFor[u], a)
      BY <2>1, <2>2 DEF TypeOK
    <3> QED
      BY <1>0, <2>1, <2>3, <3>1, AppendInSeq DEF ListsOK
  <2>5. /\ \A v \in User : v # u => accountsFor'[v] = accountsFor[v]
        /\ \A q \in Provider : q # p => accountsOf'[q] = accountsOf[q]
        /\ accountsOf'[p] = Tail(accountsOf[p])
        /\ CurrentProvider' = CurrentProvider
    BY <2>1, <2>2 DEF TypeOK, CurrentProvider
  <2> HIDE DEF a, p, u
  <2>6. ASSUME NEW q \in Provider
        PROVE  /\ Distinct(accountsOf'[q])
               /\ a \notin InSeq(accountsOf'[q])
               /\ InSeq(accountsOf'[q]) \subseteq InSeq(accountsOf[q])
    BY <2>1, <2>3, <2>5 DEF ListsOK
  <2>7. ASSUME NEW v \in User
        PROVE  /\ Distinct(accountsFor'[v])
               /\ \A b \in InSeq(accountsFor'[v]) :
                     /\ UserOf[b] = v
                     /\ b \notin InSeq(accountQueues')
                     /\ \A q \in Provider : b \notin InSeq(accountsOf'[q])
                     /\ ProviderOf[b] = p
    <3>1. \A b \in InSeq(accountsFor'[v]) :
             b \in InSeq(accountsFor[v]) \/ (b = a /\ v = u)
      BY <2>4, <2>5
    <3>2. ASSUME NEW b \in InSeq(accountsFor[v])
          PROVE  /\ UserOf[b] = v /\ b \notin InSeq(accountQueues)
                 /\ \A q \in Provider : b \notin InSeq(accountsOf'[q])
                 /\ ProviderOf[b] = CurrentProvider
      BY <2>2, <2>6 DEF ListsOK
    <3>3. UserOf[a] = u /\ p = CurrentProvider
      BY DEF u, p
    <3>4. Distinct(accountsFor'[v])
      BY <2>4, <2>5 DEF ListsOK
    <3> QED
      BY <2>2, <2>3, <2>6, <3>1, <3>2, <3>3, <3>4
  <2>8. p = CurrentProvider'
    BY <2>5 DEF p
  <2>9. \A q \in Provider : \A b \in InSeq(accountsOf'[q]) :
           ProviderOf[b] = q /\ b \notin InSeq(accountQueues')
    BY <2>2, <2>6 DEF ListsOK
  <2>10. Distinct(accountQueues')
    BY <2>2 DEF ListsOK
  <2> QED
    BY <2>6, <2>7, <2>8, <2>9, <2>10 DEF ListsOK
<1>4. CASE BeginUseProvider
  <2>1. \A u \in User : accountsFor'[u] = <<>>
    BY <1>4 DEF BeginUseProvider
  <2> QED
    BY <1>4, <2>1, InSeqEmpty DEF BeginUseProvider, ListsOK
<1>5. CASE Finished
  <2>1. CurrentUser \in User /\ accountsFor[CurrentUser] # <<>>
    BY <1>5, Current DEF Finished, PhaseOK, Locked, Handling
  <2>2. /\ accountsFor' = [accountsFor EXCEPT ![CurrentUser] = Tail(accountsFor[CurrentUser])]
        /\ UNCHANGED <<accountQueues, accountsOf, providerQueues>>
        /\ pc \in ByUser
    BY <1>5 DEF Finished, ByUser, Locked
  <2>3. ASSUME NEW v \in User
        PROVE  /\ Distinct(accountsFor'[v])
               /\ InSeq(accountsFor'[v]) \subseteq InSeq(accountsFor[v])
    <3>1. accountsFor'[v] = IF v = CurrentUser THEN Tail(accountsFor[v]) ELSE accountsFor[v]
      BY <2>1, <2>2 DEF TypeOK
    <3> QED
      BY <1>0, <2>1, <3>1, TailInSeq DEF ListsOK
  <2> QED
    BY <2>2, <2>3 DEF ListsOK, CurrentProvider
<1>6. CASE EndUseProvider \/ ProviderUnavailable
  BY <1>6 DEF EndUseProvider, ProviderUnavailable, ListsOK, ByUser, Locked
<1>7. CASE ~(Sort \/ SortAccount \/ SortUser \/ BeginUseProvider \/ Finished
               \/ EndUseProvider \/ ProviderUnavailable)
  <2>1. /\ UNCHANGED <<accountQueues, accountsOf, accountsFor, providerQueues>>
        /\ pc' \in ByUser => pc \in ByUser
    BY <1>7 DEF Next, Step, Done, vars, commands, queues, history, SortRefused,
       Sorted, NoSpec, SortedByProvider, Sent, NoUser, SortedByUser, LockUser,
       LockFails, NoSecrets, UnlockUser, NextAccount, Collect, Collected, Send,
       NotSendable, Answer, NoDetails, Refuse, Abort, AllSent, Finish, Return,
       NextUser, Onwards, InFlight, ByUser, Locked
  <2> QED
    BY <2>1 DEF ListsOK, CurrentProvider
<1> QED
  BY <1>1, <1>2, <1>3, <1>4, <1>5, <1>6, <1>7

\* Every step keeps what is so in each phase, the lock in particular.
LEMMA PhaseStep ==
    ASSUME TypeOK, PhaseOK, [Next]_vars
    PROVE  PhaseOK'
<1> USE DEF PhaseOK, Locked, Handling, ByUser, CurrentProvider, CurrentUser, locks
<1>1. CASE Sort
  BY <1>1 DEF Sort, TypeOK, Job, queues, history
<1>2. CASE SortRefused
  BY <1>2 DEF SortRefused, Return, queues, history
<1>3. CASE Sorted
  BY <1>3 DEF Sorted, queues, history
<1>4. CASE SortAccount
  BY <1>4 DEF SortAccount, queues, history
<1>5. CASE NoSpec
  BY <1>5 DEF NoSpec, Return, queues, history
<1>6. CASE SortedByProvider
  BY <1>6 DEF SortedByProvider, queues, history
<1>7. CASE BeginUseProvider
  BY <1>7 DEF BeginUseProvider, queues, history
<1>8. CASE ProviderUnavailable
  BY <1>8 DEF ProviderUnavailable, queues, history
<1>9. CASE EndUseProvider
  BY <1>9 DEF EndUseProvider, queues, history
<1>10. CASE Sent
  BY <1>10 DEF Sent, Return, queues, history
<1>11. CASE SortUser
  BY <1>11 DEF SortUser, queues, history
<1>12. CASE NoUser
  BY <1>12 DEF NoUser, queues, history
<1>13. CASE SortedByUser
  BY <1>13 DEF SortedByUser, queues, history
<1>14. CASE LockUser
  BY <1>14 DEF LockUser, queues, history
<1>15. CASE LockFails
  BY <1>15 DEF LockFails, Abandon, NextUser, queues, history
<1>16. CASE NoSecrets
  BY <1>16 DEF NoSecrets, Abandon, NextUser, queues, history
<1>17. CASE UnlockUser
  BY <1>17 DEF UnlockUser, Abandon, NextUser, queues, history
<1>18. CASE NextAccount
  BY <1>18 DEF NextAccount, queues, history
<1>19. CASE Collect
  BY <1>19 DEF Collect, queues, history
<1>20. CASE Collected
  BY <1>20 DEF Collected, queues, history
<1>21. CASE Send
  BY <1>21 DEF Send, queues, history
<1>22. CASE NotSendable
  BY <1>22 DEF NotSendable, Onwards, queues, history
<1>23. CASE Answer
  BY <1>23 DEF Answer, Onwards, InFlight, queues, history
<1>24. CASE NoDetails
  BY <1>24 DEF NoDetails, InFlight, queues, history
<1>25. CASE Refuse
  BY <1>25 DEF Refuse, Onwards, InFlight, queues, history
<1>26. CASE Abort
  BY <1>26 DEF Abort, InFlight, queues, history
<1>27. CASE AllSent
  BY <1>27 DEF AllSent, queues, history
<1>28. CASE Finish
  BY <1>28 DEF Finish, queues, history
<1>29. CASE Finished
  BY <1>29 DEF Finished, queues, history
<1>30. CASE UNCHANGED vars
  BY <1>30 DEF vars, queues, history
<1> QED
  BY <1>1, <1>2, <1>3, <1>4, <1>5, <1>6, <1>7, <1>8, <1>9, <1>10, <1>11,
     <1>12, <1>13, <1>14, <1>15, <1>16, <1>17, <1>18, <1>19, <1>20, <1>21,
     <1>22, <1>23, <1>24, <1>25, <1>26, <1>27, <1>28, <1>29, <1>30 DEF Next,
     Step, Done

-----------------------------------------------------------------------------
(* Collecting the jobs of an account.                                      *)

\* The job that is being looked at.
Considered == queue[CurrentAccount][i]

\* It is a member of the queue behind all that were looked at, and refers to
\* no other job.
LEMMA ConsideredIsNew ==
    ASSUME TypeOK, QueuesOK, ListsOK, PhaseOK, ToSendOK, Collect
    PROVE  /\ CurrentAccount \in Account /\ i \in DOMAIN queue[CurrentAccount]
           /\ i \in Nat
           /\ Considered \in Job /\ Considered \in InSeq(queue[CurrentAccount])
           /\ account[Considered] = CurrentAccount
           /\ ref[Considered] = 0 /\ Considered \notin InSeq(toSend)
           /\ \A n \in DOMAIN queue[CurrentAccount] :
                 queue[CurrentAccount][n] = Considered => n = i
<1>1. pc \in Handling /\ pc = "collect"
  BY DEF Collect, Handling
<1>2. CurrentAccount \in Account /\ queue[CurrentAccount] \in Seq(Job)
  BY <1>1, Current DEF TypeOK
<1>3. i \in DOMAIN queue[CurrentAccount] /\ i \in Nat
  BY <1>2 DEF Collect, TypeOK
<1>4. /\ Considered \in Job /\ Considered \in InSeq(queue[CurrentAccount])
      /\ account[Considered] = CurrentAccount
  BY <1>1, <1>3, Current DEF Considered, InSeq
<1>5. \A n \in DOMAIN queue[CurrentAccount] :
         queue[CurrentAccount][n] = Considered => n = i
  BY <1>2, <1>3 DEF Considered, QueuesOK, Distinct
<1>6. ref[Considered] = 0 /\ Considered \notin InSeq(toSend)
  BY <1>1, <1>3 DEF Considered, ToSendOK
<1> QED
  BY <1>2, <1>3, <1>4, <1>5, <1>6

\* What becomes of it: it refers to job t of the list, or takes its place, or
\* is added to the list, or left out.
RefersTo(t) ==
    /\ ref' = [ref EXCEPT ![Considered] = t]
    /\ toSend' = toSend
    /\ \E n \in Answers(CurrentKind, Considered) : toSend[n] = t

TakesPlaceOf(t) ==
    /\ ref' = [ref EXCEPT ![t] = Considered]
    /\ InSeq(toSend') = (InSeq(toSend) \ {t}) \cup {Considered}
    /\ \E n \in Replaced(CurrentKind, Considered) : toSend[n] = t

IsAdded ==
    /\ ref' = ref
    /\ InSeq(toSend') = InSeq(toSend) \cup {Considered}

IsLeftOut ==
    /\ UNCHANGED <<ref, toSend>>
    /\ ~Supported(CurrentKind, Considered)
    /\ CurrentKind # "aqebics" => Considered \in reported'

LEMMA CollectOutcome ==
    ASSUME TypeOK, QueuesOK, ListsOK, PhaseOK, ToSendOK, Collect
    PROVE  /\ Distinct(toSend')
           /\ \/ /\ Supported(CurrentKind, Considered) /\ reported' = reported
                 /\ \/ \E t \in InSeq(toSend) : RefersTo(t) \/ TakesPlaceOf(t)
                    \/ IsAdded
              \/ IsLeftOut
<1> DEFINE k == CurrentKind
<1>1. /\ toSend \in Seq(Job) /\ DOMAIN toSend \subseteq Nat /\ Distinct(toSend)
      /\ Considered \in Job /\ Considered \notin InSeq(toSend)
  <2>1. toSend \in Seq(Job) /\ DOMAIN toSend \subseteq Nat
    BY DEF TypeOK
  <2>2. Distinct(toSend)
    BY DEF ToSendOK, Collect
  <2> QED
    BY <2>1, <2>2, ConsideredIsNew
<1>2. CASE ~Supported(k, Considered)
  BY <1>1, <1>2 DEF Collect, IsLeftOut, Considered
<1>3. CASE Supported(k, Considered)
  <2>1. AddJob(k, Considered) /\ reported' = reported
    BY <1>3 DEF Collect, Considered
  <2>2. CASE Answers(k, Considered) # {}
    <3> DEFINE n == Earliest(Answers(k, Considered))
    <3>1. n \in Answers(k, Considered) /\ n \in DOMAIN toSend
      BY <1>1, <2>2, EarliestIn DEF Answers
    <3>2. toSend' = toSend /\ ref' = [ref EXCEPT ![Considered] = toSend[n]]
      BY <2>1, <2>2 DEF AddJob
    <3>3. toSend[n] \in InSeq(toSend)
      BY <3>1 DEF InSeq
    <3> HIDE DEF n
    <3>4. RefersTo(toSend[n])
      BY <3>1, <3>2 DEF RefersTo
    <3> QED
      BY <1>1, <1>3, <2>1, <3>2, <3>3, <3>4
  <2>3. CASE Answers(k, Considered) = {} /\ Replaced(k, Considered) # {}
    <3> DEFINE n == Earliest(Replaced(k, Considered))
               w == Without(toSend, n)
    <3>1. n \in Replaced(k, Considered) /\ n \in DOMAIN toSend
      BY <1>1, <2>3, EarliestIn DEF Replaced
    <3>2. toSend' = Append(w, Considered) /\ ref' = [ref EXCEPT ![toSend[n]] = Considered]
      BY <2>1, <2>3 DEF AddJob
    <3>3. toSend[n] \in InSeq(toSend)
      BY <3>1 DEF InSeq
    <3>4. w \in Seq(Job) /\ InSeq(w) = InSeq(toSend) \ {toSend[n]} /\ Distinct(w)
      BY <1>1, <3>1, WithoutInSeq
    <3> HIDE DEF n, w
    <3>5. InSeq(toSend') = InSeq(w) \cup {Considered} /\ Distinct(toSend')
      BY <1>1, <3>2, <3>4, AppendInSeq
    <3>6. TakesPlaceOf(toSend[n])
      BY <3>1, <3>2, <3>4, <3>5 DEF TakesPlaceOf
    <3> QED
      BY <1>3, <2>1, <3>3, <3>5, <3>6
  <2>4. CASE Answers(k, Considered) = {} /\ Replaced(k, Considered) = {}
    <3>1. toSend' = Append(toSend, Considered) /\ ref' = ref
      BY <2>1, <2>4 DEF AddJob
    <3>2. InSeq(toSend') = InSeq(toSend) \cup {Considered} /\ Distinct(toSend')
      BY <1>1, <3>1, AppendInSeq
    <3> QED
      BY <1>3, <2>1, <3>1, <3>2 DEF IsAdded
  <2> QED
    BY <2>2, <2>3, <2>4
<1> QED
  BY <1>2, <1>3

\* The references of jobs other than those of the current account stay.
LEMMA CollectRefs ==
    ASSUME TypeOK, QueuesOK, ListsOK, PhaseOK, ToSendOK, Collect
    PROVE  \A j \in Job : account[j] # CurrentAccount => ref'[j] = ref[j]
<1>1. \A t \in InSeq(toSend) : t \in Job /\ account[t] = CurrentAccount
  BY Current DEF Collect, Handling, InSeq
<1>2. account[Considered] = CurrentAccount
  BY ConsideredIsNew
<1> QED
  BY <1>1, <1>2, CollectOutcome
  DEF RefersTo, TakesPlaceOf, IsAdded, IsLeftOut, TypeOK

LEMMA ToSendStep ==
    ASSUME TypeOK, QueuesOK, ListsOK, PhaseOK, Untouched, ToSendOK, [Next]_vars
    PROVE  ToSendOK'
<1>1. CASE NextAccount
  <2>1. toSend' = <<>> /\ i' = 1 /\ UNCHANGED <<queue, ref, accountsFor, userQueues>>
    BY <1>1 DEF NextAccount, queues
  <2>2. CurrentAccount' = CurrentAccount
    BY <2>1 DEF CurrentAccount, CurrentUser
  <2>3. CurrentAccount \in Account /\ InLists(CurrentAccount) /\ pc \notin Handling
    <3>1. CurrentUser \in User /\ accountsFor[CurrentUser] # <<>>
      BY <1>1, Current DEF NextAccount, Locked
    <3>2. CurrentAccount \in InSeq(accountsFor[CurrentUser]) /\ CurrentAccount \in Account
      BY <3>1, TailInSeq DEF CurrentAccount, TypeOK
    <3> QED
      BY <1>1, <3>1, <3>2 DEF InLists, NextAccount, Handling
  <2>4. \A n \in DOMAIN queue[CurrentAccount] : ref[queue[CurrentAccount][n]] = 0
    BY <2>3 DEF Untouched
  <2> QED
    BY <2>1, <2>2, <2>4, InSeqEmpty DEF ToSendOK
<1>2. CASE Collect
  <2> DEFINE q == queue[CurrentAccount]
  <2>1. /\ UNCHANGED <<queue, accountsFor, userQueues>> /\ i' = i + 1
        /\ CurrentAccount' = CurrentAccount /\ pc = "collect"
    BY <1>2 DEF Collect, queues, CurrentAccount, CurrentUser
  <2>2. /\ Considered \in Job /\ ref[Considered] = 0
        /\ Considered \notin InSeq(toSend) /\ i \in Nat
        /\ \A n \in DOMAIN q : n \in Nat /\ q[n] \in Job /\ (q[n] = Considered => n = i)
        /\ q[i] = Considered /\ i \in DOMAIN q
    <3>1. CurrentAccount \in Account
      BY <1>2, ConsideredIsNew
    <3>2. \A n \in DOMAIN q : n \in Nat /\ q[n] \in Job
      <4>1. q \in Seq(Job)
        BY <3>1 DEF TypeOK
      <4> QED
        BY <3>1, <4>1, Heads
    <3> QED
      BY <1>2, <3>2, ConsideredIsNew DEF Considered
  <2>3. /\ \A t \in InSeq(toSend) : t \in Job /\ ref[t] = 0
        /\ \A t \in InSeq(toSend) : \A n \in DOMAIN q : q[n] = t => n < i
        /\ InSeq(toSend) \subseteq InSeq(q)
        /\ \A n \in DOMAIN q : i <= n => ref[q[n]] = 0
    BY <2>1, Current DEF ToSendOK, Handling, InSeq
  <2>4. InSeq(toSend') \subseteq InSeq(toSend) \cup {Considered}
    BY <1>2, CollectOutcome DEF RefersTo, TakesPlaceOf, IsAdded, IsLeftOut
  <2>5. \A t \in InSeq(toSend') : ref'[t] = 0
    <3>1. CASE \E t \in InSeq(toSend) : RefersTo(t)
      BY <2>2, <2>3, <3>1 DEF RefersTo, TypeOK
    <3>2. CASE \E t \in InSeq(toSend) : TakesPlaceOf(t)
      BY <2>2, <2>3, <3>2 DEF TakesPlaceOf, TypeOK
    <3>3. CASE IsAdded \/ IsLeftOut
      BY <2>2, <2>3, <3>3 DEF IsAdded, IsLeftOut, TypeOK
    <3> QED
      BY <1>2, <3>1, <3>2, <3>3, CollectOutcome
  <2>6. \A j \in Job : j # Considered /\ j \notin InSeq(toSend) => ref'[j] = ref[j]
    BY <1>2, CollectOutcome DEF RefersTo, TakesPlaceOf, IsAdded, IsLeftOut,
       TypeOK
  <2>7. ASSUME NEW n \in DOMAIN q, i + 1 <= n
        PROVE  ref'[q[n]] = 0
    <3>1. i <= n /\ ~(n < i) /\ n # i
      BY <2>2, <2>7
    <3>2. q[n] # Considered /\ q[n] \notin InSeq(toSend)
      BY <2>2, <2>3, <3>1
    <3> QED
      BY <2>2, <2>3, <2>6, <3>1, <3>2
  <2>8. InSeq(toSend') \subseteq InSeq(q)
    BY <1>2, <2>3, <2>4, ConsideredIsNew
  <2>9. \A t \in InSeq(toSend') : \A n \in DOMAIN q : q[n] = t => n < i + 1
    BY <2>2, <2>3, <2>4
  <2>10. Distinct(toSend')
    BY <1>2, CollectOutcome
  <2>11. queue'[CurrentAccount'] = q /\ i' = i + 1
    BY <2>1
  <2> HIDE DEF q
  <2> QED
    BY <2>5, <2>7, <2>8, <2>9, <2>10, <2>11 DEF ToSendOK
<1>3. CASE ~NextAccount /\ ~Collect /\ pc' \in Handling
  <2>1. /\ UNCHANGED <<queue, accountsFor, userQueues, toSend>>
        /\ pc \in Handling /\ (pc' = "collect" => pc = "collect" /\ UNCHANGED <<i, ref>>)
    BY <1>3 DEF Next, Step, Done, vars, commands, queues, history, Sort,
       SortRefused, Sorted, SortAccount, NoSpec, SortedByProvider,
       BeginUseProvider, ProviderUnavailable, EndUseProvider, Sent, SortUser,
       NoUser, SortedByUser, LockUser, LockFails, NoSecrets, UnlockUser,
       Collected, Send, NotSendable, Answer, NoDetails, Refuse, Abort, AllSent,
       Finish, Finished, Return, NextUser, Onwards, InFlight, Handling
  <2>2. CurrentAccount' = CurrentAccount
    BY <2>1 DEF CurrentAccount, CurrentUser
  <2> QED
    BY <2>1, <2>2 DEF ToSendOK
<1>4. CASE pc' \notin Handling
  BY <1>4 DEF ToSendOK, Handling
<1> QED
  BY <1>1, <1>2, <1>3, <1>4

LEMMA UntouchedStep ==
    ASSUME TypeOK, QueuesOK, ListsOK, PhaseOK, Untouched, ToSendOK, [Next]_vars
    PROVE  Untouched'
<1>1. CASE Sort
  <2>1. \A j \in Job : ref'[j] = 0
    BY <1>1 DEF Sort, PhaseOK, TypeOK
  <2>2. \A a \in Account : \A n \in DOMAIN queue'[a] : queue'[a][n] \in Job
    <3>1. queue' \in [Account -> Seq(Job)]
      BY TypeStep DEF TypeOK
    <3> QED
      BY <3>1, InSeqType
  <2> QED
    BY <2>1, <2>2 DEF Untouched
<1>2. CASE SortAccount
  <2>1. accountQueues \in Seq(Account) /\ Head(accountQueues) \in Account
    BY <1>2, Heads DEF SortAccount, TypeOK
  <2>2. ProviderOf[Head(accountQueues)] \in Provider
    BY <2>1, SendCommandsAssumption
  <2>3. /\ InSeq(accountQueues') \cup {Head(accountQueues)} = InSeq(accountQueues)
        /\ UNCHANGED <<accountsFor, queue, ref>> /\ pc \notin Handling
    BY <1>2, <2>1, TailInSeq DEF SortAccount, Handling
  <2>4. \A p \in Provider :
           InSeq(accountsOf'[p]) \subseteq InSeq(accountsOf[p]) \cup {Head(accountQueues)}
    BY <1>2, <2>1, <2>2, AppendInSeq DEF SortAccount, TypeOK
  <2>5. \A b \in Account : InLists(b)' => InLists(b)
    BY <2>3, <2>4 DEF InLists
  <2> QED
    BY <2>3, <2>5 DEF Untouched
<1>3. CASE SortUser
  <2> DEFINE p == CurrentProvider
             a == Head(accountsOf[p])
  <2>1. p \in Provider /\ a \in Account /\ accountsOf[p] \in Seq(Account)
    BY <1>3, Current, Heads DEF SortUser, ByUser, TypeOK
  <2>2. a \in InSeq(accountsOf[p]) /\ InSeq(Tail(accountsOf[p])) \subseteq InSeq(accountsOf[p])
    BY <1>3, <2>1, TailInSeq DEF SortUser
  <2>3. \A q \in Provider : InSeq(accountsOf'[q]) \subseteq InSeq(accountsOf[q])
    BY <1>3, <2>1, <2>2 DEF SortUser, TypeOK
  <2>4. \A u \in User : InSeq(accountsFor'[u]) \subseteq InSeq(accountsFor[u]) \cup {a}
    BY <1>3, <2>1, AppendInSeq, SendCommandsAssumption DEF SortUser, TypeOK
  <2>5. UNCHANGED <<accountQueues, queue, ref>> /\ pc \notin Handling
    BY <1>3 DEF SortUser, Handling
  <2>6. \A b \in Account : InLists(b)' => InLists(b)
    BY <2>1, <2>2, <2>3, <2>4, <2>5 DEF InLists
  <2> QED
    BY <2>5, <2>6 DEF Untouched
<1>4. CASE BeginUseProvider
  <2>1. /\ UNCHANGED <<accountQueues, accountsOf, queue, ref>> /\ pc \notin Handling
        /\ \A u \in User : accountsFor'[u] = <<>>
    BY <1>4 DEF BeginUseProvider, Handling
  <2>2. \A b \in Account : InLists(b)' => InLists(b)
    BY <2>1, InSeqEmpty DEF InLists
  <2> QED
    BY <2>1, <2>2 DEF Untouched
<1>5. CASE Finished
  <2> DEFINE u == CurrentUser
             c == CurrentAccount
  <2>1. /\ u \in User /\ accountsFor[u] # <<>> /\ accountsFor[u] \in Seq(Account)
        /\ UserOf[c] = u
    BY <1>5, Current DEF Finished, PhaseOK, Locked, Handling, TypeOK
  <2>2. /\ accountsFor' = [accountsFor EXCEPT ![u] = Tail(accountsFor[u])]
        /\ UNCHANGED <<accountQueues, accountsOf, queue, ref>>
        /\ pc' \notin Handling
    BY <1>5 DEF Finished, Handling
  <2>3. /\ InSeq(Tail(accountsFor[u])) \subseteq InSeq(accountsFor[u])
        /\ c \notin InSeq(Tail(accountsFor[u])) /\ c \in InSeq(accountsFor[u])
    BY <2>1, TailInSeq DEF ListsOK, CurrentAccount
  <2>4. \A v \in User : /\ InSeq(accountsFor'[v]) \subseteq InSeq(accountsFor[v])
                        /\ c \notin InSeq(accountsFor'[v])
    <3>1. \A v \in User :
             accountsFor'[v] = IF v = u THEN Tail(accountsFor[u]) ELSE accountsFor[v]
      BY <2>1, <2>2 DEF TypeOK
    <3> QED
      BY <2>1, <2>3, <3>1 DEF ListsOK
  <2>5. c \notin InSeq(accountQueues) /\ \A p \in Provider : c \notin InSeq(accountsOf[p])
    BY <2>1, <2>3 DEF ListsOK
  <2>6. \A b \in Account : InLists(b)' => InLists(b) /\ b # c
    BY <2>2, <2>4, <2>5 DEF InLists
  <2> QED
    BY <2>2, <2>6 DEF Untouched
<1>6. CASE Collect
  <2>1. /\ UNCHANGED <<accountQueues, accountsOf, accountsFor, userQueues, queue>>
        /\ pc \in Handling /\ pc' = pc
    BY <1>6 DEF Collect, queues, Handling
  <2>2. (\A b \in Account : InLists(b)' => InLists(b)) /\ CurrentAccount' = CurrentAccount
    BY <2>1 DEF InLists, CurrentAccount, CurrentUser
  <2>4. \A a \in Account : \A n \in DOMAIN queue[a] :
           queue[a][n] \in Job /\ account[queue[a][n]] = a
    BY Heads DEF QueuesOK
  <2> QED
    BY <1>6, <2>1, <2>2, <2>4, CollectRefs DEF Untouched
<1>7. CASE ~(Sort \/ SortAccount \/ SortUser \/ BeginUseProvider \/ Finished \/ Collect)
  <2>1. /\ UNCHANGED <<accountQueues, accountsOf, accountsFor, queue, ref>>
        /\ pc \in Handling => pc' \in Handling /\ UNCHANGED userQueues
    BY <1>7 DEF Next, Step, Done, vars, commands, queues, history, SortRefused,
       Sorted, NoSpec, SortedByProvider, ProviderUnavailable, EndUseProvider,
       Sent, NoUser, SortedByUser, LockUser, LockFails, NoSecrets, UnlockUser,
       NextAccount, Collected, Send, NotSendable, Answer, NoDetails, Refuse,
       Abort, AllSent, Finish, Return, NextUser, Onwards, InFlight, Handling
  <2>2. /\ \A b \in Account : InLists(b)' => InLists(b)
        /\ pc \in Handling => CurrentAccount' = CurrentAccount
    BY <2>1 DEF InLists, CurrentAccount, CurrentUser
  <2> QED
    BY <2>1, <2>2 DEF Untouched
<1> QED
  BY <1>1, <1>2, <1>3, <1>4, <1>5, <1>6, <1>7

-----------------------------------------------------------------------------
(* Answers and acceptance.                                                 *)

\* Only sorting takes jobs from the list.
LEMMA TakenStep ==
    ASSUME TypeOK, QueuesOK, [Next]_vars
    PROVE  /\ account' = account /\ command' = command
           /\ from' = from /\ to' = to
           /\ Sort /\ status[next] \in Waiting => Taken' = Taken \cup {next}
           /\ ~(Sort /\ status[next] \in Waiting) => Taken' = Taken
<1>1. CASE Sort /\ status[next] \in Waiting
  <2>1. /\ next \in Job /\ account[next] \in Account
        /\ \A a \in Account : InSeq(queue'[a]) = IF a = account[next]
                                                   THEN InSeq(queue[a]) \cup {next}
                                                   ELSE InSeq(queue[a])
    BY <1>1, SortQueue
  <2>2. UNCHANGED commands
    BY <1>1 DEF Sort
  <2>3. \A j \in Job : j \in Taken' <=> j \in Taken \cup {next}
    BY <2>1 DEF Taken
  <2>4. Taken \subseteq Job /\ Taken' \subseteq Job
    BY DEF Taken
  <2> QED
    BY <1>1, <2>1, <2>2, <2>3, <2>4 DEF commands
<1>2. CASE Sort /\ status[next] \notin Waiting
  BY <1>2 DEF Sort, commands, Taken
<1>3. CASE ~Sort
  BY <1>3, QueuesElsewhere DEF commands, Taken
<1> QED
  BY <1>1, <1>2, <1>3

\* Collecting the jobs for aqofxconnect, a job refers to one that begins no
\* later.
LEMMA OutcomeBegins ==
    ASSUME TypeOK, QueuesOK, ListsOK, PhaseOK, ToSendOK, Collect,
           CurrentKind = "aqofxconnect", NEW t \in InSeq(toSend),
           Supported(CurrentKind, Considered)
    PROVE  /\ RefersTo(t) => Begins(t, Considered)
           /\ TakesPlaceOf(t) => Begins(Considered, t)
<1>1. /\ t \in Job /\ Considered \in Job
      /\ account[t] = CurrentAccount /\ account[Considered] = CurrentAccount
  BY Current, ConsideredIsNew DEF Collect, Handling, InSeq
<1>2. from[t] \in 0..LastDate /\ from[Considered] \in 0..LastDate /\ LastDate \in Nat
  BY <1>1, SendCommandsAssumption DEF TypeOK
<1>3. ASSUME RefersTo(t) PROVE Begins(t, Considered)
  BY <1>1, <1>3 DEF RefersTo, Answers, Begins
<1>4. ASSUME TakesPlaceOf(t) PROVE Begins(Considered, t)
  BY <1>1, <1>2, <1>4 DEF TakesPlaceOf, Replaced, Begins
<1> QED
  BY <1>3, <1>4

LEMMA RefersBackStep ==
    ASSUME TypeOK, QueuesOK, ListsOK, PhaseOK, ToSendOK, RefersBack, [Next]_vars
    PROVE  RefersBack'
<1>1. CASE Sort
  <2>1. \A j \in Job : ref'[j] = 0
    BY <1>1 DEF Sort, PhaseOK, TypeOK
  <2> QED
    BY <2>1 DEF RefersBack, Taken
<1>2. CASE Collect
  <2> DEFINE Ofx(j) == Kind[ProviderOf[account[j]]] = "aqofxconnect"
  <2>1. /\ Taken' = Taken /\ UNCHANGED commands
    BY <1>2, TakenStep DEF Collect, commands, Sort
  <2>2. /\ Considered \in Taken /\ Considered \in Job
        /\ \A t \in InSeq(toSend) : t \in Taken /\ t \in Job
        /\ (Ofx(Considered) => CurrentKind = "aqofxconnect")
        /\ \A t \in InSeq(toSend) : Ofx(t) => CurrentKind = "aqofxconnect"
    <3>1. /\ ProviderOf[CurrentAccount] = CurrentProvider
          /\ \A t \in InSeq(toSend) : t \in Taken /\ t \in Job /\ account[t] = CurrentAccount
      BY <1>2, Current DEF Collect, Handling, InSeq
    <3>2. account[Considered] = CurrentAccount /\ Considered \in Job /\ Considered \in Taken
      BY <1>2, ConsideredIsNew DEF Taken
    <3> QED
      BY <3>1, <3>2 DEF CurrentKind
  <2>3. \A k, j : Begins(k, j)' = Begins(k, j)
    BY <2>1 DEF Begins, commands
  <2>4. ASSUME NEW j \in Taken, ref'[j] # 0, Ofx(j)
        PROVE  ref'[j] \in Taken /\ Begins(ref'[j], j)
    <3>0. j \in Job
      BY DEF Taken
    <3>1. CASE ref'[j] = ref[j]
      BY <2>4, <3>1 DEF RefersBack
    <3>2. CASE ref'[j] # ref[j]
      <4>1. PICK t \in InSeq(toSend) : RefersTo(t) \/ TakesPlaceOf(t)
        BY <1>2, <3>2, CollectOutcome DEF IsAdded, IsLeftOut
      <4>2. Supported(CurrentKind, Considered)
        BY <1>2, <3>2, CollectOutcome DEF IsLeftOut
      <4>3. CASE RefersTo(t)
        <5>1. j = Considered /\ ref'[j] = t
          BY <2>2, <3>0, <3>2, <4>3 DEF RefersTo, TypeOK
        <5> QED
          BY <1>2, <2>2, <2>4, <4>2, <4>3, <5>1, OutcomeBegins
      <4>4. CASE TakesPlaceOf(t)
        <5>1. j = t /\ ref'[j] = Considered
          BY <2>2, <3>0, <3>2, <4>4 DEF TakesPlaceOf, TypeOK
        <5> QED
          BY <1>2, <2>2, <2>4, <4>2, <4>4, <5>1, OutcomeBegins
      <4> QED
        BY <4>1, <4>3, <4>4
    <3> QED
      BY <3>1, <3>2
  <2> QED
    BY <2>1, <2>3, <2>4 DEF RefersBack, commands
<1>3. CASE ~Sort /\ ~Collect
  <2>1. ref' = ref
    BY <1>3 DEF Next, Step, Done, vars, commands, queues, history, SortRefused,
       Sorted, SortAccount, NoSpec, SortedByProvider, BeginUseProvider,
       ProviderUnavailable, EndUseProvider, Sent, SortUser, NoUser,
       SortedByUser, LockUser, LockFails, NoSecrets, UnlockUser, NextAccount,
       Collected, Send, NotSendable, Answer, NoDetails, Refuse, Abort, AllSent,
       Finish, Finished
  <2> QED
    BY <1>3, <2>1, TakenStep DEF RefersBack, Begins
<1> QED
  BY <1>1, <1>2, <1>3

LEMMA AcceptedStep ==
    ASSUME TypeOK, QueuesOK, ListsOK, PhaseOK, ToSendOK, RefersBack,
           AcceptedBegins, [Next]_vars
    PROVE  AcceptedBegins'
<1>0. \A k, j : Begins(k, j)' = Begins(k, j)
  BY TakenStep DEF Begins
<1>1. CASE Sort
  <2>1. /\ Taken' \subseteq Taken \cup {next} /\ answered' = answered
        /\ \A j \in Taken' : status'[j] = "accepted" => j \in Taken /\ status[j] = "accepted"
    <3>1. CASE status[next] \in Waiting
      <4>1. next \in Job /\ Taken' = Taken \cup {next}
        BY <1>1, <3>1, SortQueue, TakenStep
      <4>2. Taken \subseteq Job
        BY DEF Taken
      <4>3. status' = [status EXCEPT ![next] = "enqueued"] /\ answered' = answered
        BY <1>1, <3>1 DEF Sort, history
      <4> QED
        BY <4>1, <4>2, <4>3 DEF TypeOK
    <3>2. CASE status[next] \notin Waiting
      BY <1>1, <3>2, TakenStep DEF Sort, history
    <3> QED
      BY <3>1, <3>2
  <2> QED
    BY <1>0, <2>1 DEF AcceptedBegins
<1>2. CASE Send \/ NotSendable \/ NoDetails \/ Refuse \/ Abort
  <2>1. toSend[i] \in Job /\ answered' = answered
    BY <1>2, SentJob DEF Send, NotSendable, NoDetails, Refuse, Abort, InFlight
  <2>2. \A j \in Job : status'[j] = "accepted" => status[j] = "accepted"
    BY <1>2, <2>1 DEF Send, NotSendable, NoDetails, Refuse, Abort, Sending,
       TypeOK
  <2>3. Taken' = Taken /\ Taken \subseteq Job
    BY <1>2, TakenStep
    DEF Send, NotSendable, NoDetails, Refuse, Abort, InFlight, Sort, Taken
  <2> QED
    BY <1>0, <2>1, <2>2, <2>3 DEF AcceptedBegins
<1>3. CASE Answer
  <2>1. toSend[i] \in Job /\ answered' = answered \cup {toSend[i]}
    BY <1>3, SentJob DEF Answer, InFlight
  <2>2. \A j \in Job : status'[j] = "accepted" => status[j] = "accepted" \/ j = toSend[i]
    BY <1>3, <2>1 DEF Answer, TypeOK
  <2>3. Taken' = Taken /\ Taken \subseteq Job
    BY <1>3, TakenStep DEF Answer, InFlight, Sort, Taken
  <2>4. Begins(toSend[i], toSend[i])
    BY <2>1, BeginsOrder
  <2> QED
    BY <1>0, <2>1, <2>2, <2>3, <2>4 DEF AcceptedBegins
<1>4. CASE Finish
  <2>1. /\ CurrentAccount \in Account /\ ProviderOf[CurrentAccount] = CurrentProvider
        /\ Considered \in Job /\ Considered \in Taken
        /\ account[Considered] = CurrentAccount
    <3>1. pc \in Handling
      BY <1>4 DEF Finish, Handling
    <3>2. queue[CurrentAccount] \in Seq(Job)
      BY <3>1, Current DEF TypeOK
    <3>3. i \in DOMAIN queue[CurrentAccount]
      BY <1>4, <3>2 DEF Finish, TypeOK
    <3> QED
      BY <3>1, <3>3, Current DEF Considered
  <2>2. Kind[ProviderOf[account[Considered]]] = "aqofxconnect"
    BY <1>4, <2>1 DEF Finish, CurrentKind
  <2>3. status' = IF ref[Considered] = 0 THEN status
                    ELSE [status EXCEPT ![Considered] = status[ref[Considered]]]
    BY <1>4 DEF Finish, Considered
  <2>4. Taken' = Taken /\ Taken \subseteq Job /\ answered' = answered /\ answered \subseteq Job
    BY <1>4, TakenStep DEF Finish, Sort, Taken, history, TypeOK
  <2>5. ASSUME NEW j \in Taken, status'[j] = "accepted"
        PROVE  \E k \in answered : Begins(k, j)
    <3>1. CASE status[j] = "accepted"
      BY <3>1 DEF AcceptedBegins
    <3>2. CASE status[j] # "accepted"
      <4>1. j = Considered /\ ref[j] # 0 /\ status[ref[j]] = "accepted"
        BY <2>1, <2>3, <2>4, <2>5, <3>2 DEF TypeOK
      <4>2. ref[j] \in Taken /\ Begins(ref[j], j)
        BY <2>2, <4>1 DEF RefersBack
      <4>3. PICK k \in answered : Begins(k, ref[j])
        BY <4>1, <4>2 DEF AcceptedBegins
      <4> QED
        BY <2>4, <4>2, <4>3, BeginsOrder
    <3> QED
      BY <3>1, <3>2
  <2> QED
    BY <1>0, <2>4, <2>5 DEF AcceptedBegins
<1>5. CASE ~(Sort \/ Send \/ NotSendable \/ NoDetails \/ Refuse \/ Abort \/ Answer \/ Finish)
  <2>1. UNCHANGED <<status, answered>>
    BY <1>5 DEF Next, Step, Done, vars, history, SortRefused, Sorted,
       SortAccount, NoSpec, SortedByProvider, BeginUseProvider,
       ProviderUnavailable, EndUseProvider, Sent, SortUser, NoUser,
       SortedByUser, LockUser, LockFails, NoSecrets, UnlockUser, NextAccount,
       Collect, Collected, AllSent, Finished
  <2> QED
    BY <1>0, <1>5, <2>1, TakenStep DEF AcceptedBegins
<1> QED
  BY <1>1, <1>2, <1>3, <1>4, <1>5

-----------------------------------------------------------------------------
(* No job is forgotten.                                                    *)

\* What has gone wrong stays so.
LEMMA HarmStays ==
    ASSUME TypeOK, PhaseOK, [Next]_vars, Unharmed'
    PROVE  Unharmed /\ faults' = faults /\ aborted' = aborted
<1>1. faults \in Nat
  BY SendCommandsAssumption DEF TypeOK
<1>2. /\ faults' = faults \/ faults' = faults + 1
      /\ aborted' = aborted \/ aborted' = TRUE
      /\ rv = "error" => rv' = "error"
  BY DEF Next, Step, Done, vars, commands, queues, history, Sort, SortRefused,
     Sorted, SortAccount, NoSpec, SortedByProvider, BeginUseProvider,
     ProviderUnavailable, EndUseProvider, Sent, SortUser, NoUser, SortedByUser,
     LockUser, LockFails, NoSecrets, UnlockUser, NextAccount, Collect, Collected,
     Send, NotSendable, Answer, NoDetails, Refuse, Abort, AllSent, Finish,
     Finished, Return, Fails, Onwards, InFlight, PhaseOK
<1>3. faults' = 0 /\ ~aborted' /\ rv' # "error"
  BY DEF Unharmed
<1>4. faults = 0 /\ faults' = faults
  BY <1>1, <1>2, <1>3
<1>5. aborted \in BOOLEAN
  BY DEF TypeOK
<1>6. ~aborted'
  BY <1>3
<1>7. aborted' = aborted
  BY <1>2, <1>6, Zenon
<1>8. ~aborted
  BY <1>6, <1>7, Zenon
<1> QED
  BY <1>2, <1>3, <1>4, <1>7, <1>8 DEF Unharmed

\* A settled job that refers to no other stays settled.
LEMMA SettledStays ==
    ASSUME TypeOK, QueuesOK, ListsOK, PhaseOK, ToSendOK, [Next]_vars,
           NEW k \in Settled, ref[k] = 0
    PROVE  k \in Settled'
<1>1. k \in Job
  BY DEF Settled, TypeOK
<1>2. UNCHANGED commands
  BY TakenStep DEF commands
<1>3. asked \subseteq asked' /\ reported \subseteq reported'
  BY DEF Next, Step, Done, vars, queues, history, Sort, SortRefused,
     Sorted, SortAccount, NoSpec, SortedByProvider, BeginUseProvider,
     ProviderUnavailable, EndUseProvider, Sent, SortUser, NoUser, SortedByUser,
     LockUser, LockFails, NoSecrets, UnlockUser, NextAccount, Collect, Collected,
     Send, NotSendable, Answer, NoDetails, Refuse, Abort, AllSent, Finish,
     Finished
<1>4. Supported("aqebics", k)' = Supported("aqebics", k)
  BY <1>2 DEF Supported, commands
<1>5. ASSUME status[k] \in Final PROVE status'[k] \in Final \/ k \in asked'
  <2>1. CASE Sort
    BY <1>1, <1>5, <2>1 DEF Sort, Waiting, Final, TypeOK
  <2>2. CASE Send \/ NotSendable \/ Answer \/ NoDetails \/ Refuse \/ Abort
    <3>1. toSend[i] \in Job
      BY <2>2, SentJob DEF Send, NotSendable, Answer, NoDetails, Refuse,
         Abort, InFlight
    <3>2. \A j \in Job : j # toSend[i] => status'[j] = status[j]
      BY <2>2, <3>1 DEF Send, NotSendable, Answer, NoDetails, Refuse, Abort,
         TypeOK
    <3>3. toSend[i] \in asked' \/ status'[toSend[i]] \in Final
      BY <2>2, <3>1 DEF Send, NotSendable, Answer, NoDetails, Refuse, Abort,
         InFlight, Final, TypeOK
    <3> QED
      BY <1>1, <1>5, <3>2, <3>3
  <2>3. CASE Finish
    <3>1. \/ status' = status
          \/ /\ ref[Considered] # 0
             /\ status' = [status EXCEPT ![Considered] = status[ref[Considered]]]
      BY <2>3 DEF Finish, Considered
    <3> QED
      BY <1>1, <1>5, <3>1 DEF TypeOK
  <2>4. CASE ~(Sort \/ Send \/ NotSendable \/ Answer \/ NoDetails \/ Refuse \/ Abort \/ Finish)
    BY <1>5, <2>4 DEF Next, Step, Done, vars, SortRefused, Sorted, SortAccount,
       NoSpec, SortedByProvider, BeginUseProvider, ProviderUnavailable,
       EndUseProvider, Sent, SortUser, NoUser, SortedByUser, LockUser, LockFails,
       NoSecrets, UnlockUser, NextAccount, Collect, Collected, AllSent, Finished
  <2> QED
    BY <2>1, <2>2, <2>3, <2>4
<1> QED
  BY <1>1, <1>2, <1>3, <1>4, <1>5 DEF Settled, commands

\* Unless jobs are collected, a job that was to be sent, or is settled, is so
\* after the step.
LEMMA TargetsStay ==
    ASSUME TypeOK, QueuesOK, ListsOK, PhaseOK, ToSendOK, [Next]_vars, ~Collect,
           Unharmed', NEW k \in Unsent \cup Settled, ref[k] = 0
    PROVE  k \in Unsent' \cup Settled'
<1>1. CASE k \in Settled
  BY <1>1, SettledStays
<1>2. CASE k \in Unsent
  <2>0. pc \in {"collect", "send"}
    BY <1>2 DEF Unsent
  <2>1. CASE Collected
    <3>1. toSend \in Seq(Job) /\ DOMAIN toSend \subseteq Nat \ {0}
      BY DEF TypeOK
    <3>2. PICK m \in DOMAIN toSend : k = toSend[m] /\ 1 <= m
      BY <1>2, <2>1, <3>1 DEF Unsent, Collected, InSeq
    <3>3. pc' = "send" /\ i' = 1 /\ toSend' = toSend
      BY <2>1 DEF Collected
    <3> QED
      BY <3>2, <3>3 DEF Unsent
  <2>2. CASE pc = "send" /\ i <= Len(toSend)
    <3>1. PICK m \in DOMAIN toSend : k = toSend[m] /\ i <= m
      BY <1>2, <2>2 DEF Unsent
    <3>2. CASE Send \/ NoDetails
      BY <3>1, <3>2, <2>2 DEF Send, NoDetails, Unsent
    <3>3. CASE NotSendable \/ Answer \/ Refuse
      <4>1. toSend[i] \in Job
        BY <2>2, SentJob
      <4>2. pc' = "send" /\ i' = i + 1 /\ toSend' = toSend
        BY <3>3, HarmStays DEF NotSendable, Answer, Refuse, Onwards, InFlight,
           Unharmed
      <4>3. toSend[i] \in Settled'
        BY <3>3, <4>1 DEF NotSendable, Answer, Refuse, InFlight, Settled,
           Final, TypeOK
      <4>4. CASE m = i
        BY <3>1, <4>3, <4>4
      <4>5. CASE m # i
        <5>1. i + 1 <= m
          <6>1. i \in Nat /\ m \in Nat /\ i <= m
            BY <3>1 DEF TypeOK
          <6> QED
            BY <4>5, <6>1
        <5> QED
          BY <3>1, <4>2, <5>1 DEF Unsent
      <4> QED
        BY <4>4, <4>5
    <3>4. CASE Abort
      BY <3>4, HarmStays DEF Abort, Unharmed
    <3>5. CASE UNCHANGED vars
      BY <1>2, <3>5 DEF vars, queues, Unsent
    <3>6. i \in Nat /\ Len(toSend) \in Nat
      BY LenProperties DEF TypeOK
    <3>7. ~AllSent
      BY <2>2, <3>6 DEF AllSent
    <3> QED
      BY <2>2, <3>2, <3>3, <3>4, <3>5, <3>7
      DEF Next, Step, Done, Sort, SortRefused, Sorted, SortAccount, NoSpec,
          SortedByProvider, BeginUseProvider, ProviderUnavailable,
          EndUseProvider, Sent, SortUser, NoUser, SortedByUser, LockUser,
          LockFails, NoSecrets, UnlockUser, NextAccount, Collect, Collected,
          Finish, Finished
  <2>3. CASE pc = "send" /\ ~(i <= Len(toSend))
    BY <1>2, <2>3 DEF Unsent, TypeOK
  <2>4. CASE pc = "collect" /\ ~Collected
    BY <1>2, <2>4 DEF Next, Step, Done, vars, Sort, SortRefused, Sorted,
       SortAccount, NoSpec, SortedByProvider, BeginUseProvider,
       ProviderUnavailable, EndUseProvider, Sent, SortUser, NoUser,
       SortedByUser, LockUser, LockFails, NoSecrets, UnlockUser, NextAccount,
       Send, NotSendable, Answer, NoDetails, Refuse, Abort, AllSent, Finish,
       Finished, InFlight, Unsent
  <2> QED
    BY <2>0, <2>1, <2>2, <2>3, <2>4
<1> QED
  BY <1>1, <1>2

\* So what leads to such jobs still does, ...
LEMMA LeadsStays ==
    ASSUME TypeOK, QueuesOK, ListsOK, PhaseOK, ToSendOK, [Next]_vars, ~Collect,
           Unharmed', NEW j, LeadsTo(ref, j, Unsent \cup Settled)
    PROVE  LeadsTo(ref', j, Unsent' \cup Settled')
<1>1. ref' = ref
  BY DEF Next, Step, Done, vars, queues, history, Sort, SortRefused,
     Sorted, SortAccount, NoSpec, SortedByProvider, BeginUseProvider,
     ProviderUnavailable, EndUseProvider, Sent, SortUser, NoUser, SortedByUser,
     LockUser, LockFails, NoSecrets, UnlockUser, NextAccount, Collected,
     Send, NotSendable, Answer, NoDetails, Refuse, Abort, AllSent, Finish,
     Finished, PhaseOK, Job, TypeOK
<1>2. \A k \in Unsent \cup Settled : ref[k] = 0 => k \in Unsent' \cup Settled'
  BY TargetsStay
<1> DEFINE R1 == Unsent \cup Settled
           R2 == Unsent' \cup Settled'
<1> HIDE DEF R1, R2
<1>3. LeadsTo(ref, j, R2)
  BY <1>2, LeadsToMore DEF R1, R2
<1> QED
  BY <1>1, <1>3 DEF R2

\* ... also when jobs are collected, as does the job that was considered.
LEMMA LeadsCollect ==
    ASSUME TypeOK, QueuesOK, ListsOK, PhaseOK, ToSendOK, Collect, [Next]_vars
    PROVE  /\ \A j : LeadsTo(ref, j, Unsent \cup Settled) =>
                        LeadsTo(ref', j, Unsent' \cup Settled')
           /\ LeadsTo(ref', Considered, Unsent' \cup Settled')
<1> DEFINE R1 == Unsent \cup Settled
           R2 == Unsent' \cup Settled'
           c  == Considered
<1>1. /\ Unsent = InSeq(toSend) /\ Unsent' = InSeq(toSend')
      /\ ref \in [Job -> 0..NumJobs]
  BY DEF Collect, Unsent, TypeOK
<1>2. /\ c \in Job /\ ref[c] = 0 /\ c \notin InSeq(toSend)
      /\ \A t \in InSeq(toSend) : t \in Job /\ ref[t] = 0
  BY ConsideredIsNew, Current DEF Collect, Handling, InSeq, ToSendOK
<1>3. \A k \in Settled : ref[k] = 0 => k \in Settled'
  BY SettledStays
<1> HIDE DEF c
<1>4. ASSUME NEW t \in InSeq(toSend), RefersTo(t)
      PROVE  /\ \A j : LeadsTo(ref, j, R1) => LeadsTo(ref', j, R2)
             /\ LeadsTo(ref', c, R2)
  <2>1. /\ ref' = [ref EXCEPT ![c] = t] /\ t \in R2 /\ t \in Job /\ t # c
        /\ ref[t] = 0
    BY <1>1, <1>2, <1>4 DEF RefersTo, c
  <2>2. \A l \in R1 \cup {c} : l = c \/ (ref[l] = 0 => l \in R2)
    BY <1>1, <1>3, <1>4 DEF RefersTo
  <2>3. LeadsTo(ref, c, R1 \cup {c})
    BY <1>2, LeadsToSelf
  <2> HIDE DEF R1, R2
  <2> QED
    BY <1>1, <1>2, <2>1, <2>2, <2>3, LeadsToFurther
<1>5. ASSUME NEW t \in InSeq(toSend), TakesPlaceOf(t)
      PROVE  /\ \A j : LeadsTo(ref, j, R1) => LeadsTo(ref', j, R2)
             /\ LeadsTo(ref', c, R2)
  <2>1. /\ ref' = [ref EXCEPT ![t] = c] /\ c \in R2 /\ t \in Job /\ t # c
        /\ ref[t] = 0 /\ ref'[c] = 0
    BY <1>1, <1>2, <1>5 DEF TakesPlaceOf, c
  <2>2. \A l \in R1 : l = t \/ (ref[l] = 0 => l \in R2)
    BY <1>1, <1>3, <1>5 DEF TakesPlaceOf
  <2> HIDE DEF R1, R2
  <2> QED
    BY <1>1, <1>2, <2>1, <2>2, LeadsToFurther, LeadsToSelf
<1>6. ASSUME IsAdded \/ IsLeftOut
      PROVE  /\ \A j : LeadsTo(ref, j, R1) => LeadsTo(ref', j, R2)
             /\ LeadsTo(ref', c, R2)
  <2>1. ref' = ref /\ \A l \in R1 : ref[l] = 0 => l \in R2
    BY <1>1, <1>3, <1>6 DEF IsAdded, IsLeftOut
  <2>2. c \in R2
    <3>1. CASE IsAdded
      BY <1>1, <3>1 DEF IsAdded, c
    <3>2. CASE IsLeftOut /\ CurrentKind # "aqebics"
      BY <3>2 DEF IsLeftOut, Settled, c
    <3>3. CASE IsLeftOut /\ CurrentKind = "aqebics"
      <4>1. /\ account[c] = CurrentAccount /\ CurrentAccount \in Account
            /\ Kind[ProviderOf[account[c]]] = "aqebics"
        BY <3>3, ConsideredIsNew, Current DEF c, CurrentKind, Collect, Handling
      <4>2. ~Supported("aqebics", c) /\ UNCHANGED commands
        BY <3>3 DEF IsLeftOut, Collect, c
      <4> QED
        BY <1>2, <4>1, <4>2 DEF Settled, Supported, commands
    <3> QED
      BY <1>6, <3>1, <3>2, <3>3
  <2> HIDE DEF R1, R2
  <2> QED
    BY <1>2, <2>1, <2>2, LeadsToMore, LeadsToSelf
<1> QED
  BY <1>4, <1>5, <1>6, CollectOutcome DEF c

\* What is appended to a list is in it.
LEMMA ListsGrow ==
    ASSUME TypeOK
    PROVE  /\ \A a \in Account :
                 InSeq(Listed(accountQueues, a)) = InSeq(accountQueues) \cup {a}
           /\ \A p \in Provider :
                 /\ InSeq(Listed(providerQueues, p)) = InSeq(providerQueues) \cup {p}
                 /\ \A a \in Account :
                       InSeq(Append(accountsOf[p], a)) = InSeq(accountsOf[p]) \cup {a}
           /\ \A u \in User :
                 /\ InSeq(Listed(userQueues, u)) = InSeq(userQueues) \cup {u}
                 /\ \A a \in Account :
                       InSeq(Append(accountsFor[u], a)) = InSeq(accountsFor[u]) \cup {a}
<1>1. /\ accountQueues \in Seq(Account) /\ providerQueues \in Seq(Provider)
      /\ userQueues \in Seq(User)
      /\ \A p \in Provider : accountsOf[p] \in Seq(Account)
      /\ \A u \in User : accountsFor[u] \in Seq(Account)
  BY DEF TypeOK
<1>2. ASSUME NEW S, NEW s \in Seq(S), NEW x \in S
      PROVE  /\ InSeq(Listed(s, x)) = InSeq(s) \cup {x}
             /\ InSeq(Append(s, x)) = InSeq(s) \cup {x}
  <2>1. InSeq(Listed(s, x)) = InSeq(s) \cup {x}
    BY ListedInSeq
  <2>2. InSeq(Append(s, x)) = InSeq(s) \cup {x}
    BY AppendInSeq
  <2> QED
    BY <2>1, <2>2
<1> QED
  BY ONLY <1>1, <1>2

\* An account waits until the list of its jobs is finished.
LEMMA PendingStays ==
    ASSUME TypeOK, QueuesOK, ListsOK, PhaseOK, ToSendOK, [Next]_vars, Unharmed',
           pc # "endProvider", NEW a \in Account, Pending(a)
    PROVE  Pending(a)' \/ (Finished /\ a = CurrentAccount)
<1>0. /\ accountQueues \in Seq(Account) /\ providerQueues \in Seq(Provider)
      /\ userQueues \in Seq(User)
      /\ \A p \in Provider : accountsOf[p] \in Seq(Account)
      /\ \A u \in User : accountsFor[u] \in Seq(Account)
      /\ ProviderOf[a] \in Provider /\ UserOf[a] \in User
  BY SendCommandsAssumption DEF TypeOK
<1>1. CASE Sort
  <2>1. InSeq(accountQueues) \subseteq InSeq(accountQueues')
    <3>1. CASE status[next] \in Waiting
      <4>1. /\ account[next] \in Account
            /\ accountQueues' = Listed(accountQueues, account[next])
        BY <1>1, <3>1, SortQueue DEF Sort
      <4> QED
        BY <4>1, ListsGrow
    <3>2. CASE status[next] \notin Waiting
      BY <1>1, <3>2 DEF Sort
    <3> QED
      BY <3>1, <3>2
  <2>2. UNCHANGED <<providerQueues, accountsOf, userQueues, accountsFor, pc>>
    BY <1>1 DEF Sort
  <2> QED
    BY <2>1, <2>2 DEF Pending
<1>2. CASE SortAccount
  <2> DEFINE b == Head(accountQueues)
             p == ProviderOf[b]
  <2>1. /\ b \in Account /\ p \in Provider
        /\ InSeq(accountQueues) = InSeq(accountQueues') \cup {b}
    BY <1>0, <1>2, TailInSeq, SendCommandsAssumption DEF SortAccount
  <2>2. InSeq(providerQueues') = InSeq(providerQueues) \cup {p}
    <3>1. providerQueues' = Listed(providerQueues, p)
      BY <1>2 DEF SortAccount
    <3> HIDE DEF p
    <3> QED
      BY <2>1, <3>1, ListsGrow
  <2>3. \A q \in Provider :
           InSeq(accountsOf'[q]) = IF q = p THEN InSeq(accountsOf[q]) \cup {b}
                                            ELSE InSeq(accountsOf[q])
    <3>1. \A q \in Provider :
             accountsOf'[q] = IF q = p THEN Append(accountsOf[q], b) ELSE accountsOf[q]
      BY <1>2, <2>1 DEF SortAccount, TypeOK
    <3>2. InSeq(Append(accountsOf[p], b)) = InSeq(accountsOf[p]) \cup {b}
      BY <2>1, ListsGrow
    <3> HIDE DEF b, p
    <3> QED
      BY <3>1, <3>2
  <2>4. pc \notin ByUser
    BY <1>2 DEF SortAccount, ByUser, Locked
  <2> HIDE DEF b
  <2> QED
    BY <1>0, <2>1, <2>2, <2>3, <2>4 DEF Pending
<1>3. CASE BeginUseProvider
  BY <1>3 DEF BeginUseProvider, Pending, ByUser, Locked
<1>4. CASE EndUseProvider
  <2>1. pc = "users" /\ userQueues = <<>> /\ providerQueues # <<>>
    BY <1>4 DEF EndUseProvider, PhaseOK, ByUser
  <2>2. accountsOf[CurrentProvider] = <<>>
    BY <2>1 DEF PhaseOK
  <2>3. InSeq(providerQueues) = InSeq(providerQueues') \cup {CurrentProvider}
    BY <1>0, <1>4, <2>1, TailInSeq DEF EndUseProvider, CurrentProvider
  <2>4. UNCHANGED <<accountQueues, accountsOf>>
    BY <1>4 DEF EndUseProvider
  <2> QED
    BY <2>1, <2>2, <2>3, <2>4, InSeqEmpty DEF Pending
<1>5. CASE SortUser
  <2> DEFINE p == CurrentProvider
             b == Head(accountsOf[p])
             u == UserOf[b]
  <2>0. p \in Provider
    BY <1>5, Current DEF SortUser, ByUser
  <2>1. /\ b \in Account /\ u \in User
        /\ InSeq(accountsOf[p]) = InSeq(Tail(accountsOf[p])) \cup {b}
    BY <1>0, <1>5, <2>0, TailInSeq, SendCommandsAssumption DEF SortUser
  <2>2. InSeq(userQueues') = InSeq(userQueues) \cup {u}
    <3>1. userQueues' = Listed(userQueues, u)
      BY <1>5 DEF SortUser
    <3> HIDE DEF u
    <3> QED
      BY <2>1, <3>1, ListsGrow
  <2>3. \A v \in User :
           InSeq(accountsFor'[v]) = IF v = u THEN InSeq(accountsFor[v]) \cup {b}
                                             ELSE InSeq(accountsFor[v])
    <3>1. \A v \in User :
             accountsFor'[v] = IF v = u THEN Append(accountsFor[v], b) ELSE accountsFor[v]
      BY <1>5, <2>1 DEF SortUser, TypeOK
    <3> HIDE DEF b, u
    <3>2. InSeq(Append(accountsFor[u], b)) = InSeq(accountsFor[u]) \cup {b}
      BY <2>1, ListsGrow
    <3> QED
      BY <3>1, <3>2
  <2>4. \A q \in Provider :
           accountsOf'[q] = IF q = p THEN Tail(accountsOf[q]) ELSE accountsOf[q]
    BY <1>5, <2>0 DEF SortUser, TypeOK
  <2>5. /\ UNCHANGED <<accountQueues, providerQueues>>
        /\ pc \in ByUser /\ pc' \in ByUser
    BY <1>5 DEF SortUser, ByUser
  <2> HIDE DEF b, p
  <2> QED
    BY <1>0, <2>0, <2>1, <2>2, <2>3, <2>4, <2>5 DEF Pending
<1>6. CASE UnlockUser
  <2>1. userQueues # <<>> /\ pc \in ByUser /\ pc' \in ByUser
    BY <1>6 DEF UnlockUser, PhaseOK, Locked, ByUser, NextUser
  <2>2. InSeq(userQueues) = InSeq(userQueues') \cup {CurrentUser}
    BY <1>0, <1>6, <2>1, TailInSeq DEF UnlockUser, NextUser, CurrentUser
  <2>3. /\ accountsFor[CurrentUser] = <<>>
        /\ UNCHANGED <<accountQueues, providerQueues, accountsOf, accountsFor>>
    BY <1>6 DEF UnlockUser
  <2> QED
    BY <2>1, <2>2, <2>3, InSeqEmpty DEF Pending
<1>7. CASE Finished
  <2>1. pc \in Handling /\ pc \in ByUser /\ pc' \in ByUser
    BY <1>7 DEF Finished, Handling, ByUser, Locked
  <2>2. CurrentUser \in User /\ accountsFor[CurrentUser] # <<>>
    BY <2>1, Current DEF PhaseOK, Handling, Locked
  <2>3. \A v \in User :
           accountsFor'[v] = IF v = CurrentUser THEN Tail(accountsFor[v]) ELSE accountsFor[v]
    BY <1>7, <2>2 DEF Finished, TypeOK
  <2>4. InSeq(accountsFor[CurrentUser])
          = InSeq(Tail(accountsFor[CurrentUser])) \cup {CurrentAccount}
    BY <1>0, <2>2, TailInSeq DEF CurrentAccount
  <2>5. UNCHANGED <<accountQueues, providerQueues, accountsOf, userQueues>>
    BY <1>7 DEF Finished
  <2> QED
    BY <1>0, <1>7, <2>1, <2>3, <2>4, <2>5 DEF Pending
<1>8. CASE \/ SortRefused \/ NoSpec \/ ProviderUnavailable \/ NoUser
           \/ LockFails \/ NoSecrets
  <2>1. faults' = faults /\ rv' # "error" /\ faults \in Nat
    BY HarmStays DEF Unharmed, TypeOK
  <2> QED
    BY <1>8, <2>1 DEF SortRefused, NoSpec, ProviderUnavailable, NoUser,
       LockFails, NoSecrets, Fails, Return
<1>9. CASE ~(\/ Sort \/ SortAccount \/ BeginUseProvider \/ EndUseProvider
             \/ SortUser \/ UnlockUser \/ Finished \/ SortRefused \/ NoSpec
             \/ ProviderUnavailable \/ NoUser \/ LockFails \/ NoSecrets)
  <2>1. /\ UNCHANGED queues
        /\ pc \in ByUser => pc' \in ByUser
    BY <1>9 DEF Next, Step, Done, vars, Sorted, SortedByProvider, Sent,
       SortedByUser, LockUser, NextAccount, Collect, Collected, Send,
       NotSendable, Answer, NoDetails, Refuse, Abort, AllSent, Finish, Return,
       Onwards, InFlight, ByUser, Locked
  <2> QED
    BY <2>1 DEF queues, Pending
<1> QED
  BY <1>1, <1>2, <1>3, <1>4, <1>5, <1>6, <1>7, <1>8, <1>9

\* Whatever happens, what leads to a target still does.
LEMMA LeadsStep ==
    ASSUME TypeOK, QueuesOK, ListsOK, PhaseOK, ToSendOK, [Next]_vars, Unharmed'
    PROVE  \A j : LeadsTo(ref, j, Unsent \cup Settled) =>
                     LeadsTo(ref', j, Unsent' \cup Settled')
<1>1. CASE Collect
  BY <1>1, LeadsCollect
<1>2. CASE ~Collect
  BY <1>2, LeadsStays
<1> QED
  BY <1>1, <1>2

\* The jobs of the current account that were looked at lead to their targets.
LEMMA CurrentAccounted ==
    ASSUME TypeOK, QueuesOK, ListsOK, PhaseOK, ToSendOK, Accounted, [Next]_vars,
           Unharmed', pc' \in Handling, NEW n \in DOMAIN queue'[CurrentAccount'],
           pc' = "collect" => n < i'
    PROVE  LeadsTo(ref', queue'[CurrentAccount'][n], Unsent' \cup Settled')
<1>1. CASE NextAccount
  <2>1. /\ pc' = "collect" /\ i' = 1 /\ queue' = queue
        /\ CurrentAccount' = CurrentAccount
    BY <1>1 DEF NextAccount, queues, CurrentAccount, CurrentUser
  <2>2. CurrentAccount \in Account
    BY <1>1, Current, Heads DEF NextAccount, Locked, CurrentAccount
  <2>3. n \in Nat \ {0}
    BY <2>1, <2>2 DEF TypeOK
  <2> QED
    BY <2>1, <2>3
<1>2. CASE ~NextAccount
  <2>1. /\ pc \in Handling /\ queue' = queue /\ CurrentAccount' = CurrentAccount
        /\ pc' = "collect" => Collect \/ UNCHANGED vars
        /\ pc = "collect" /\ pc' # "collect" => Collected
    BY <1>2 DEF Next, Step, Done, vars, queues, Sort, SortRefused, Sorted,
       SortAccount, NoSpec, SortedByProvider, BeginUseProvider,
       ProviderUnavailable, EndUseProvider, Sent, SortUser, NoUser,
       SortedByUser, LockUser, LockFails, NoSecrets, UnlockUser, Collect,
       Collected, Send, NotSendable, Answer, NoDetails, Refuse, Abort, AllSent,
       Finish, Finished, Return, NextUser, Onwards, InFlight, Handling,
       CurrentAccount, CurrentUser
  <2>2. /\ n \in DOMAIN queue[CurrentAccount] /\ n \in Nat
        /\ n <= Len(queue[CurrentAccount]) /\ i \in Nat
        /\ Len(queue[CurrentAccount]) \in Nat
    <3>1. queue[CurrentAccount] \in Seq(Job)
      BY <2>1, Current DEF TypeOK
    <3>2. i \in Nat
      BY DEF TypeOK
    <3>3. n \in DOMAIN queue[CurrentAccount]
      BY <2>1
    <3> QED
      BY <3>1, <3>2, <3>3, LenProperties
  <2>3. Unharmed
    BY HarmStays
  <2>4. (pc = "collect" => n < i) => LeadsTo(ref, queue[CurrentAccount][n], Unsent \cup Settled)
    BY <2>1, <2>2, <2>3 DEF Accounted
  <2>5. CASE Collect
    <3>1. i' = i + 1
      BY <2>5 DEF Collect
    <3>2. CASE n = i
      BY <2>1, <2>5, <3>2, LeadsCollect DEF Considered
    <3>3. CASE n # i
      <4>1. pc' = "collect"
        BY <2>5 DEF Collect
      <4>2. n < i
        BY <2>2, <3>1, <3>3, <4>1
      <4> QED
        BY <2>1, <2>4, <4>2, LeadsStep
    <3> QED
      BY <3>2, <3>3
  <2>6. CASE Collected
    <3>1. n < i
      BY <2>2, <2>6 DEF Collected
    <3> QED
      BY <2>1, <2>4, <3>1, LeadsStep
  <2>7. CASE ~Collect /\ ~Collected
    <3>1. pc = "collect" => n < i
      BY <2>1, <2>7 DEF vars
    <3> QED
      BY <2>1, <2>4, <3>1, LeadsStep
  <2> QED
    BY <2>5, <2>6, <2>7
<1> QED
  BY <1>1, <1>2

LEMMA AccountedStep ==
    ASSUME TypeOK, QueuesOK, ListsOK, PhaseOK, ToSendOK, Accounted, [Next]_vars
    PROVE  Accounted'
<1> SUFFICES ASSUME Unharmed'
             PROVE  /\ pc' # "endProvider"
                    /\ \A j \in Taken' :
                          Pending(account[j])' \/ LeadsTo(ref', j, Unsent' \cup Settled')
                    /\ pc' \in Handling =>
                         \A n \in DOMAIN queue'[CurrentAccount'] :
                            (pc' = "collect" => n < i') =>
                               LeadsTo(ref', queue'[CurrentAccount'][n],
                                       Unsent' \cup Settled')
  BY DEF Accounted
<1>1. Unharmed /\ faults' = faults /\ faults \in Nat
  BY HarmStays DEF Unharmed
<1>2. /\ pc # "endProvider"
      /\ \A j \in Taken : Pending(account[j]) \/ LeadsTo(ref, j, Unsent \cup Settled)
      /\ pc \in Handling =>
           \A n \in DOMAIN queue[CurrentAccount] :
              (pc = "collect" => n < i) =>
                 LeadsTo(ref, queue[CurrentAccount][n], Unsent \cup Settled)
  BY <1>1 DEF Accounted
<1>3. pc' # "endProvider"
  BY <1>1, <1>2 DEF Next, Step, Done, vars, Sort, SortRefused, Sorted,
     SortAccount, NoSpec, SortedByProvider, BeginUseProvider,
     ProviderUnavailable, EndUseProvider, Sent, SortUser, NoUser, SortedByUser,
     LockUser, LockFails, NoSecrets, UnlockUser, NextAccount, Collect, Collected,
     Send, NotSendable, Answer, NoDetails, Refuse, Abort, AllSent, Finish,
     Finished, Return, NextUser, Onwards, InFlight, Fails
<1>4. ASSUME NEW j \in Taken'
      PROVE  Pending(account[j])' \/ LeadsTo(ref', j, Unsent' \cup Settled')
  <2>1. CASE j \in Taken
    <3>1. PICK a \in Account :
             a = account[j] /\ \E n \in DOMAIN queue[a] : queue[a][n] = j
      BY <2>1, TakenIsJob
    <3>2. account'[j] = a
      BY <3>1, TakenStep
    <3>3. CASE LeadsTo(ref, j, Unsent \cup Settled)
      BY <3>3, LeadsStep
    <3>4. CASE Pending(a)
      <4>1. CASE Pending(a)'
        BY <3>2, <4>1 DEF Pending
      <4>2. CASE Finished /\ a = CurrentAccount
        <5>1. pc \in Handling /\ pc # "collect"
          BY <4>2 DEF Finished, Handling
        <5>2. LeadsTo(ref, j, Unsent \cup Settled)
          BY <1>2, <3>1, <4>2, <5>1
        <5> QED
          BY <5>2, LeadsStep
      <4> QED
        BY <1>2, <3>4, <4>1, <4>2, PendingStays
    <3> QED
      BY <1>2, <2>1, <3>1, <3>3, <3>4
  <2>2. CASE j \notin Taken
    <3>1. Sort /\ status[next] \in Waiting /\ j = next
      BY <2>2, TakenStep
    <3>2. account[next] \in Account /\ accountQueues' = Listed(accountQueues, account[next])
      BY <3>1, SortQueue DEF Sort
    <3>3. account[next] \in InSeq(accountQueues')
      BY <3>2, ListsGrow
    <3>4. account' = account
      BY TakenStep
    <3> QED
      BY <3>1, <3>3, <3>4 DEF Pending
  <2> QED
    BY <2>1, <2>2
<1> QED
  BY <1>3, <1>4, CurrentAccounted

-----------------------------------------------------------------------------
(* The inductive invariant, and what follows from it.                      *)

LEMMA IInvInit == Init => IInv
<1> SUFFICES ASSUME Init PROVE IInv
  OBVIOUS
<1> USE DEF Init
<1>1. TypeOK
  BY TypeInit
<1>2. Taken = {}
  BY DEF Taken, InSeq
<1>3. QueuesOK /\ ListsOK
  BY InSeqEmpty DEF QueuesOK, ListsOK
<1>4. PhaseOK
  BY DEF PhaseOK, ByUser, Locked, Handling
<1>5. Untouched /\ ToSendOK
  BY DEF Untouched, ToSendOK, Handling
<1>6. RefersBack /\ AcceptedBegins
  BY <1>2 DEF RefersBack, AcceptedBegins
<1>7. Accounted
  BY <1>2 DEF Accounted, Handling
<1> QED
  BY <1>1, <1>3, <1>4, <1>5, <1>6, <1>7 DEF IInv

LEMMA IInvStep == IInv /\ [Next]_vars => IInv'
<1> SUFFICES ASSUME IInv, [Next]_vars PROVE IInv'
  OBVIOUS
<1>1. /\ TypeOK /\ QueuesOK /\ ListsOK /\ PhaseOK /\ Untouched /\ ToSendOK
      /\ RefersBack /\ AcceptedBegins /\ Accounted
  BY DEF IInv
<1> QED
  BY <1>1, TypeStep, QueuesStep, ListsStep, PhaseStep, UntouchedStep,
     ToSendStep, RefersBackStep, AcceptedStep, AccountedStep DEF IInv

\* In every state AB_Banking_SendCommands() can reach, the inductive invariant
\* holds: no job and no account is in two queues, a job that refers to another
\* one begins no earlier, and no job has got lost.
THEOREM Invariant == Spec => []IInv
<1> QED
  BY IInvInit, IInvStep, PTL DEF Spec

\* The variables keep their types in every reachable state of
\* AB_Banking_SendCommands().
THEOREM TypeCorrect == Spec => []TypeOK
<1>1. IInv => TypeOK
  BY DEF IInv
<1> QED
  BY <1>1, Invariant, PTL

\* No job is reported as accepted without an answer of the bank to it, or to
\* one for its account that begins no later, whichever jobs AddJobToList2()
\* lets refer to one another; and when the requests for the account differ in
\* their first dates only, that one has asked for all the job asks for.
THEOREM AcceptedRestsOnAnswer == Spec => []AcceptedWasAnswered
<1>1. IInv => AcceptedWasAnswered
  <2> SUFFICES ASSUME IInv, NEW j \in Taken, status[j] = "accepted"
               PROVE  \E k \in answered :
                         Begins(k, j) /\ (SameEnd(account[j]) => Covers(k, j))
    BY DEF AcceptedWasAnswered
  <2>1. TypeOK /\ j \in Job
    BY DEF IInv, Taken
  <2>2. PICK k \in answered : Begins(k, j)
    BY DEF IInv, AcceptedBegins
  <2>3. k \in Job
    BY <2>1 DEF TypeOK
  <2> QED
    BY <2>1, <2>2, <2>3, SameEndCovers
<1> QED
  BY <1>1, Invariant, PTL

\* When AB_Banking_SendCommands() returns and nothing has failed, every job
\* was sent or refused, or leads to one that was.
THEOREM NoJobForgotten == Spec => []NothingForgotten
<1>1. IInv => NothingForgotten
  <2> SUFFICES ASSUME IInv, pc = "done", rv = "ok", faults = 0, ~aborted,
                      NEW j \in Taken
               PROVE  LeadsTo(ref, j, Settled)
    BY DEF NothingForgotten
  <2>1. TypeOK /\ PhaseOK /\ Accounted
    BY DEF IInv
  <2>2. accountQueues = <<>> /\ providerQueues = <<>> /\ pc \notin ByUser
    BY <2>1 DEF PhaseOK, ByUser, Locked
  <2>3. ~Pending(account[j])
    BY <2>2, InSeqEmpty DEF Pending
  <2>4. Unsent = {}
    BY DEF Unsent
  <2> QED
    BY <2>1, <2>3, <2>4 DEF Accounted, Unharmed
<1> QED
  BY <1>1, Invariant, PTL

\* A request is sent under the lock of the user of its account, and the call
\* leaves no user locked but those whose release has failed, whatever else has
\* failed.
THEOREM RequestsUnderLock == Spec => LockDiscipline
<1>1. IInv /\ IInv' /\ [Next]_vars =>
        [/\ \A j \in asked' \ asked : UserOf[account[j]] \in locked
         /\ pc' = "done" => locked' \subseteq stuck']_vars
  <2> SUFFICES ASSUME IInv, IInv', [Next]_vars
               PROVE  /\ \A j \in asked' \ asked : UserOf[account[j]] \in locked
                      /\ pc' = "done" => locked' \subseteq stuck'
    OBVIOUS
  <2>1. TypeOK /\ QueuesOK /\ ListsOK /\ PhaseOK /\ ToSendOK
    BY DEF IInv
  <2>2. pc' = "done" => locked' \subseteq stuck'
    BY DEF IInv, PhaseOK, Locked
  <2>3. CASE Send
    <3>1. account[toSend[i]] = CurrentAccount /\ asked' = asked \cup {toSend[i]}
      BY <2>1, <2>3, SentJob DEF Send
    <3>2. UserOf[CurrentAccount] = CurrentUser /\ CurrentUser \in locked
      BY <2>1, <2>3, Current DEF Send, Handling, PhaseOK, Locked
    <3> QED
      BY <2>2, <3>1, <3>2
  <2>4. CASE ~Send
    <3>1. asked' = asked
      BY <2>4 DEF Next, Step, Done, vars, history, Sort, SortRefused, Sorted,
         SortAccount, NoSpec, SortedByProvider, BeginUseProvider,
         ProviderUnavailable, EndUseProvider, Sent, SortUser, NoUser,
         SortedByUser, LockUser, LockFails, NoSecrets, UnlockUser, NextAccount,
         Collect, Collected, NotSendable, Answer, NoDetails, Refuse, Abort,
         AllSent, Finish, Finished
    <3> QED
      BY <2>2, <3>1
  <2> QED
    BY <2>3, <2>4
<1> QED
  BY <1>1, Invariant, PTL DEF Spec, LockDiscipline
=============================================================================
