-------------------------- MODULE ClientLibraryProofs --------------------------
(***************************************************************************)
(* What is proved of the client library and the deployment script, for any *)
(* constants: that TradeOperation sends what P1Trade accepts and sends it  *)
(* once, that an order which is signed, stored and matched is what the     *)
(* contract verifies, and that a saved address book is in force.           *)
(*                                                                         *)
(* The three have nothing in common but the lemmas; each part has its own  *)
(* inductive invariant: OperationInv, SignedInv, DeploymentInv.            *)
(***************************************************************************)
EXTENDS TradeOperation, SignedOrders, Deployment, SequenceTheorems, TotalsProofs

-----------------------------------------------------------------------------
(* Sorting: a finite set has an ascending enumeration.                     *)

\* A sequence whose elements ascend by their rank.
AscendingBy(rank, s, n) == \A i, j \in 1..n : i < j => rank[s[i]] < rank[s[j]]

\* One more element finds its place in an ascending sequence.
LEMMA Insertion ==
    ASSUME NEW S, NEW rank \in [S -> Nat], \A a, b \in S : rank[a] = rank[b] => a = b,
           NEW x \in S, NEW n \in Nat, NEW s \in [1..n -> S \ {x}], AscendingBy(rank, s, n)
    PROVE  \E t \in [1..n + 1 -> S] : AscendingBy(rank, t, n + 1)
<1> DEFINE Higher == {k \in 1..n + 1 : k = n + 1 \/ rank[s[k]] > rank[x]}
<1>1. PICK k \in Higher : \A l \in Higher : k <= l
  <2>1. Higher \subseteq Nat /\ n + 1 \in Higher
    OBVIOUS
  <2> HIDE DEF Higher
  <2>2. QED
    BY <2>1, LeastNat
<1>2. k \in 1..n + 1 /\ (k = n + 1 \/ rank[s[k]] > rank[x])
  OBVIOUS
<1>3. ASSUME NEW i \in 1..n, i < k
      PROVE  rank[s[i]] < rank[x]
  <2>1. i \notin Higher
    <3> HIDE DEF Higher
    <3>1. i \in Higher => k <= i
      BY <1>1
    <3>2. QED
      BY <1>2, <1>3, <3>1
  <2>2. s[i] \in S /\ s[i] # x
    OBVIOUS
  <2>3. rank[s[i]] \in Nat /\ rank[x] \in Nat /\ rank[s[i]] # rank[x]
    BY <2>2
  <2>4. ~(rank[s[i]] > rank[x])
    BY <2>1
  <2>5. QED
    BY <2>3, <2>4
<1>4. ASSUME NEW i \in 1..n, i >= k
      PROVE  rank[s[i]] > rank[x]
  <2>1. k \in 1..n /\ rank[s[k]] > rank[x]
    BY <1>2, <1>4
  <2>2. i = k \/ rank[s[k]] < rank[s[i]]
    BY <1>4, <2>1 DEF AscendingBy
  <2>3. rank[s[i]] \in Nat /\ rank[s[k]] \in Nat /\ rank[x] \in Nat
    BY <2>1
  <2>4. QED
    BY <2>1, <2>2, <2>3
<1> DEFINE t == [i \in 1..n + 1 |-> IF i < k THEN s[i] ELSE IF i = k THEN x ELSE s[i - 1]]
<1> HIDE DEF Higher
<1>5. ASSUME NEW i \in 1..n + 1
      PROVE  /\ i < k => i \in 1..n /\ t[i] = s[i]
             /\ i = k => t[i] = x
             /\ i > k => i - 1 \in 1..n /\ i - 1 >= k /\ t[i] = s[i - 1]
             /\ t[i] \in S
  BY <1>2
<1>6. t \in [1..n + 1 -> S]
  BY <1>5
<1> HIDE DEF t
<1>7. ASSUME NEW i \in 1..n + 1, NEW j \in 1..n + 1, i < j
      PROVE  rank[t[i]] < rank[t[j]]
  <2>1. CASE j < k
    BY <1>2, <1>5, <1>7, <2>1 DEF AscendingBy
  <2>2. CASE j = k
    BY <1>2, <1>3, <1>5, <1>7, <2>2
  <2>3. CASE j > k /\ i < k
    <3>1. i \in 1..n /\ j - 1 \in 1..n /\ i < j - 1 /\ t[i] = s[i] /\ t[j] = s[j - 1]
      BY <1>2, <1>5, <1>7, <2>3
    <3>2. QED
      BY <3>1 DEF AscendingBy
  <2>4. CASE j > k /\ i = k
    <3>1. j - 1 \in 1..n /\ j - 1 >= k /\ t[i] = x /\ t[j] = s[j - 1]
      BY <1>5, <2>4
    <3>2. rank[s[j - 1]] > rank[x]
      BY <1>4, <3>1
    <3>3. rank[s[j - 1]] \in Nat /\ rank[x] \in Nat
      BY <3>1
    <3>4. QED
      BY <3>1, <3>2, <3>3
  <2>5. CASE j > k /\ i > k
    <3>1. /\ i - 1 \in 1..n /\ j - 1 \in 1..n /\ i - 1 < j - 1
          /\ t[i] = s[i - 1] /\ t[j] = s[j - 1]
      BY <1>2, <1>5, <1>7, <2>5
    <3>2. QED
      BY <3>1 DEF AscendingBy
  <2>6. QED
    BY <1>2, <2>1, <2>2, <2>3, <2>4, <2>5
<1>8. AscendingBy(rank, t, n + 1)
  BY <1>7 DEF AscendingBy
<1>9. QED
  BY <1>6, <1>8

\* A finite set whose elements differ in rank is the range of an ascending sequence.
LEMMA Enumeration ==
    ASSUME NEW S, IsFiniteSet(S), NEW rank \in [S -> Nat],
           \A a, b \in S : rank[a] = rank[b] => a = b
    PROVE  \E s \in [1..Cardinality(S) -> S] : AscendingBy(rank, s, Cardinality(S))
<1> DEFINE P == {T \in SUBSET S : \E s \in [1..Cardinality(T) -> T] :
                                     AscendingBy(rank, s, Cardinality(T))}
<1>1. {} \in P
  <2>1. Cardinality({}) = 0
    BY FS_EmptySet
  <2>2. PICK none : none = [i \in 1..0 |-> i]
    OBVIOUS
  <2>3. none \in [1..0 -> {}] /\ AscendingBy(rank, none, 0)
    BY <2>2 DEF AscendingBy
  <2>4. QED
    BY <2>1, <2>3
<1>2. ASSUME NEW T \in SUBSET S, T # {}, \A x \in T : T \ {x} \in P
      PROVE  T \in P
  <2>1. PICK x \in T : T \ {x} \in P
    BY <1>2
  <2>2. PICK n \in Nat : Cardinality(T \ {x}) = n /\ Cardinality(T) = n + 1
    <3>1. IsFiniteSet(T)
      BY FS_Subset
    <3>2. Cardinality(T) \in Nat /\ Cardinality(T \ {x}) \in Nat
          /\ Cardinality(T \ {x}) = Cardinality(T) - 1
      BY <3>1, FS_RemoveElement, FS_CardinalityType
    <3>3. QED
      BY <3>2
  <2>3. PICK s \in [1..n -> T \ {x}] : AscendingBy(rank, s, n)
    BY <2>1, <2>2
  <2> DEFINE part == [a \in T |-> rank[a]]
  <2>4. part \in [T -> Nat] /\ \A a, b \in T : part[a] = part[b] => a = b
    OBVIOUS
  <2>5. AscendingBy(part, s, n)
    <3>1. \A i \in 1..n : s[i] \in T
      OBVIOUS
    <3>2. QED
      BY <2>3, <3>1 DEF AscendingBy
  <2>6. \A a \in T : part[a] = rank[a]
    OBVIOUS
  <2> HIDE DEF part, P
  <2>7. PICK t \in [1..n + 1 -> T] : AscendingBy(part, t, n + 1)
    BY <2>4, <2>5, Insertion
  <2>8. AscendingBy(rank, t, n + 1)
    <3>1. \A i \in 1..n + 1 : t[i] \in T
      OBVIOUS
    <3>2. QED
      BY <2>6, <2>7, <3>1 DEF AscendingBy
  <2>9. QED
    BY <2>2, <2>8 DEF P
<1>3. S \in P
  <2> HIDE DEF P
  <2>1. QED
    BY <1>1, <1>2, SubsetInduction
<1>4. QED
  BY <1>3

-----------------------------------------------------------------------------
(* What commit sends.                                                      *)

LowerAddress == [value : Nat, upper : {0}]
Trade == [maker : LowerAddress, taker : LowerAddress, trader : Trader]

LEMMA LowerCaseType ==
    ASSUME NEW a \in Address
    PROVE  LowerCase(a) \in LowerAddress
BY OperationAssumption DEF LowerCase, LowerAddress

\* In lower case, texts ascend as the values do.
LEMMA LowerRanks ==
    ASSUME NEW a \in LowerAddress, NEW b \in LowerAddress
    PROVE  /\ TextRank(a) \in Nat
           /\ TextRank(a) < TextRank(b) => a.value < b.value
           /\ TextRank(a) = TextRank(b) => a = b
<1>1. a.value \in Nat /\ b.value \in Nat /\ a.upper = 0 /\ b.upper = 0
  BY DEF LowerAddress
<1>2. a.value = b.value => a = b
  BY <1>1 DEF LowerAddress
<1>3. QED
  BY <1>1, <1>2 DEF TextRank, IsLetter

LEMMA AccountsAreFinite ==
    ASSUME trades \in Seq(Trade)
    PROVE  AccountSet \in SUBSET LowerAddress /\ IsFiniteSet(AccountSet)
<1> DEFINE D == DOMAIN trades
           makers == {trades[i].maker : i \in D}
           takers == {trades[i].taker : i \in D}
<1>1. D = 1..Len(trades) /\ Len(trades) \in Nat /\ \A i \in D : trades[i] \in Trade
  OBVIOUS
<1>2. IsFiniteSet(D)
  BY <1>1, FS_Interval
<1>3. IsFiniteSet(makers)
  <2> DEFINE f == [i \in D |-> trades[i].maker]
  <2>1. f \in Surjection(D, makers)
    BY DEF Surjection
  <2> HIDE DEF f, D, makers
  <2>2. QED
    BY <1>2, <2>1, FS_Surjection
<1>4. IsFiniteSet(takers)
  <2> DEFINE f == [i \in D |-> trades[i].taker]
  <2>1. f \in Surjection(D, takers)
    BY DEF Surjection
  <2> HIDE DEF f, D, takers
  <2>2. QED
    BY <1>2, <2>1, FS_Surjection
<1>5. AccountSet = makers \cup takers
  BY DEF AccountSet
<1>6. makers \subseteq LowerAddress /\ takers \subseteq LowerAddress
  BY <1>1 DEF Trade
<1> HIDE DEF makers, takers
<1>7. QED
  BY <1>3, <1>4, <1>5, <1>6, FS_Union

\* The sorted accounts are those of the trades, each once, ascending by value.
LEMMA AccountsAreSorted ==
    ASSUME trades \in Seq(Trade)
    PROVE  /\ \A i, j \in DOMAIN SortedAccounts :
                 i < j => SortedAccounts[i].value < SortedAccounts[j].value
           /\ \A a \in AccountSet : \E i \in DOMAIN SortedAccounts : SortedAccounts[i] = a
<1> DEFINE S == AccountSet
           rank == [a \in S |-> TextRank(a)]
           n == Cardinality(S)
<1>1. S \in SUBSET LowerAddress /\ IsFiniteSet(S) /\ n \in Nat
  BY AccountsAreFinite, FS_CardinalityType
<1>2. rank \in [S -> Nat] /\ \A a, b \in S : rank[a] = rank[b] => a = b
  BY <1>1, LowerRanks
<1>3. \E s \in [1..n -> S] : AscendingBy(rank, s, n)
  <2> HIDE DEF rank, S
  <2>1. QED
    BY <1>1, <1>2, Enumeration
<1>4. \A s \in [1..n -> S] : AscendingBy(rank, s, n) => Ascending(s)
  <2>1. ASSUME NEW s \in [1..n -> S], AscendingBy(rank, s, n)
        PROVE  Ascending(s)
    <3>1. \A i \in 1..n : s[i] \in S /\ rank[s[i]] = TextRank(s[i])
      OBVIOUS
    <3> HIDE DEF S, rank, n
    <3>2. QED
      BY <2>1, <3>1 DEF Ascending, AscendingBy
  <2>2. QED
    BY <2>1
<1>5. PICK s \in [1..n -> S] : s = SortedAccounts /\ Ascending(s)
  <2>1. \E s \in [1..n -> S] : Ascending(s)
    BY <1>3, <1>4
  <2>2. SortedAccounts = CHOOSE s \in [1..n -> S] : Ascending(s)
    BY DEF SortedAccounts
  <2> HIDE DEF S, n
  <2>3. QED
    BY <2>1, <2>2
<1>6. ASSUME NEW i \in 1..n, NEW j \in 1..n, i < j
      PROVE  s[i].value < s[j].value /\ s[i] # s[j]
  <2>1. s[i] \in LowerAddress /\ s[j] \in LowerAddress
    BY <1>1
  <2>2. TextRank(s[i]) < TextRank(s[j])
    BY <1>5, <1>6 DEF Ascending
  <2>3. s[i].value < s[j].value
    BY <2>1, <2>2, LowerRanks
  <2>4. s[i].value \in Nat
    BY <2>1 DEF LowerAddress
  <2>5. QED
    BY <2>3, <2>4
<1>7. s \in Surjection(1..n, S)
  <2>1. s \in Injection(1..n, S)
    <3>1. ASSUME NEW i \in 1..n, NEW j \in 1..n, s[i] = s[j]
          PROVE  i = j
      BY <1>1, <1>6, <3>1
    <3> HIDE DEF S, n
    <3>2. QED
      BY <3>1 DEF Injection, IsInjective
  <2>2. IsFiniteSet(1..n) /\ Cardinality(1..n) = n
    BY <1>1, FS_Interval
  <2> HIDE DEF S
  <2>3. QED
    BY <1>1, <2>1, <2>2, FS_Injection
<1>8. \A a \in S : \E i \in 1..n : s[i] = a
  BY <1>7 DEF Surjection
<1>9. DOMAIN s = 1..n
  OBVIOUS
<1>10. QED
  BY <1>5, <1>6, <1>8, <1>9

LEMMA IndexLeadsBack ==
    ASSUME NEW s, NEW a, \E i \in DOMAIN s : s[i] = a
    PROVE  s[IndexOf(s, a)] = a
<1>1. a \in ToSet(s)
  BY DEF ToSet
<1>2. IndexOf(s, a) \in DOMAIN s /\ s[IndexOf(s, a)] = a
  BY <1>1 DEF IndexOf
<1>3. QED
  BY <1>2

Accepted(p) ==
    /\ \A i, j \in DOMAIN p.accounts : i < j => p.accounts[i].value < p.accounts[j].value
    /\ DOMAIN p.args = DOMAIN trades
    /\ \A k \in DOMAIN p.args :
         /\ p.accounts[p.args[k].makerIndex] = trades[k].maker
         /\ p.accounts[p.args[k].takerIndex] = trades[k].taker

LEMMA PayloadIsAccepted ==
    ASSUME trades \in Seq(Trade)
    PROVE  Accepted(Payload)
<1> DEFINE s == SortedAccounts
           args == [k \in DOMAIN trades |->
                      [makerIndex |-> IndexOf(s, trades[k].maker),
                       takerIndex |-> IndexOf(s, trades[k].taker),
                       trader |-> trades[k].trader]]
<1>1. Payload = [accounts |-> s, args |-> args]
  BY DEF Payload
<1>2. \A i, j \in DOMAIN s : i < j => s[i].value < s[j].value
  BY AccountsAreSorted
<1>3. ASSUME NEW k \in DOMAIN trades
      PROVE  s[IndexOf(s, trades[k].maker)] = trades[k].maker
             /\ s[IndexOf(s, trades[k].taker)] = trades[k].taker
  <2>1. trades[k].maker \in AccountSet /\ trades[k].taker \in AccountSet
    BY DEF AccountSet
  <2>2. \A a \in AccountSet : \E i \in DOMAIN s : s[i] = a
    BY AccountsAreSorted
  <2> HIDE DEF s
  <2>3. QED
    BY <2>1, <2>2, IndexLeadsBack
<1> HIDE DEF s
<1>4. QED
  BY <1>1, <1>2, <1>3 DEF Accepted

-----------------------------------------------------------------------------
(* Overlapping calls of commit.                                            *)

\* A call is its stage, and the payload it was sent with if it got that far.
CallIsWhole(c) ==
    \/ call[c] = [stage |-> call[c].stage]
    \/ call[c] = [stage |-> call[c].stage, payload |-> call[c].payload]

CallsAreWhole == call = [c \in Call |-> call[c]] /\ \A c \in Call : CallIsWhole(c)

\* At most one call is sending; while it is, the flag is taken, so the trades are
\* still those that its payload was made from.
OneAtATime ==
    \A c \in Call : call[c].stage = "sending" =>
        /\ committed /\ call[c].payload = Payload
        /\ \A d \in Call : call[d].stage = "sending" => d = c

\* What the network has taken is what the lost answers account for, and after an answer
\* that arrived one more: then the flag stays taken and nothing is sent.
TakenSoFar ==
    /\ IsFiniteSet(LostCalls) /\ \E S : taken \in Seq(S)
    /\ \/ Len(taken) = Cardinality(LostCalls)
       \/ /\ Len(taken) = Cardinality(LostCalls) + 1
          /\ committed /\ \A c \in Call : call[c].stage # "sending"

OperationInv ==
    /\ trades \in Seq(Trade) /\ committed \in BOOLEAN
    /\ CallsAreWhole /\ OneAtATime /\ TakenSoFar

LEMMA StageAfter ==
    ASSUME CallsAreWhole, NEW c \in Call, NEW after,
           call' = [call EXCEPT ![c].stage = after]
    PROVE  /\ CallsAreWhole'
           /\ call'[c].stage = after
           /\ \A d \in Call \ {c} : call'[d] = call[d]
<1>1. PICK old : old = call[c]
  OBVIOUS
<1>2. old = [stage |-> old.stage] \/ old = [stage |-> old.stage, payload |-> old.payload]
  BY <1>1 DEF CallsAreWhole, CallIsWhole
<1>3. PICK new : new = [old EXCEPT !.stage = after]
  OBVIOUS
<1>4. /\ new = [stage |-> after] \/ new = [stage |-> after, payload |-> old.payload]
      /\ new.stage = after
  BY <1>2, <1>3
<1>5. new = [stage |-> new.stage] \/ new = [stage |-> new.stage, payload |-> new.payload]
  BY <1>4
<1>6. /\ call' = [d \in Call |-> IF d = c THEN new ELSE call[d]]
  BY <1>1, <1>3 DEF CallsAreWhole
<1>7. QED
  BY <1>4, <1>5, <1>6 DEF CallsAreWhole, CallIsWhole

\* The network takes one transaction more.
LEMMA TakesOneMore ==
    ASSUME TakenSoFar, NEW p, taken' = Append(taken, p)
    PROVE  /\ \E S : taken' \in Seq(S)
           /\ Len(taken) \in Nat /\ Len(taken') = Len(taken) + 1
<1>1. PICK S : taken \in Seq(S)
  BY DEF TakenSoFar
<1>2. taken \in Seq(S \cup {p}) /\ Len(taken) \in Nat
  BY <1>1
<1>3. taken' \in Seq(S \cup {p}) /\ Len(taken') = Len(taken) + 1
  BY <1>2
<1>4. QED
  BY <1>2, <1>3

LEMMA AddTradeArgInv ==
    ASSUME OperationInv, NEW a \in Address, NEW b \in Address, NEW trader \in Trader,
           AddTradeArg(a, b, trader)
    PROVE  OperationInv'
<1>1. [maker |-> LowerCase(a), taker |-> LowerCase(b), trader |-> trader] \in Trade
  BY LowerCaseType DEF Trade
<1>2. trades' \in Seq(Trade) /\ ~committed /\ UNCHANGED <<committed, call, taken>>
  BY <1>1 DEF AddTradeArg, OperationInv
<1>3. \A c \in Call : call[c].stage # "sending"
  BY <1>2 DEF OperationInv, OneAtATime
<1>4. OneAtATime' /\ CallsAreWhole'
  BY <1>2, <1>3 DEF OperationInv, OneAtATime, CallsAreWhole, CallIsWhole
<1>5. TakenSoFar'
  BY <1>2 DEF OperationInv, TakenSoFar, LostCalls
<1>6. QED
  BY <1>2, <1>4, <1>5 DEF OperationInv

LEMMA CommitInv ==
    ASSUME OperationInv, NEW c \in Call, Commit(c)
    PROVE  OperationInv'
<1> DEFINE new == [stage |-> "sending", payload |-> Payload]
<1>1. /\ call' = [call EXCEPT ![c] = new] /\ committed' = TRUE
      /\ UNCHANGED <<trades, taken>> /\ ~committed
  BY DEF Commit, MayCommit
<1>2. Payload' = Payload
  BY <1>1 DEF Payload, SortedAccounts, AccountSet
<1>3. new.stage = "sending" /\ new.payload = Payload
      /\ new = [stage |-> new.stage, payload |-> new.payload]
  OBVIOUS
<1> HIDE DEF new
<1>4. call' = [d \in Call |-> IF d = c THEN new ELSE call[d]]
  BY <1>1 DEF OperationInv, CallsAreWhole
<1>5. \A d \in Call : call[d].stage # "sending"
  BY <1>1 DEF OperationInv, OneAtATime
<1>6. CallsAreWhole'
  BY <1>3, <1>4 DEF OperationInv, CallsAreWhole, CallIsWhole
<1>7. OneAtATime'
  BY <1>1, <1>2, <1>3, <1>4, <1>5 DEF OneAtATime
<1>8. TakenSoFar'
  <2>1. call[c].stage = "idle"
    BY DEF Commit
  <2>2. LostCalls' = LostCalls
    BY <1>3, <1>4, <2>1 DEF LostCalls
  <2>3. Len(taken) = Cardinality(LostCalls)
    BY <1>1 DEF OperationInv, TakenSoFar
  <2>4. QED
    BY <1>1, <2>2, <2>3 DEF OperationInv, TakenSoFar
<1>9. QED
  BY <1>1, <1>6, <1>7, <1>8 DEF OperationInv

LEMMA CommitThrowsInv ==
    ASSUME OperationInv, NEW c \in Call, CommitThrows(c)
    PROVE  OperationInv'
<1>1. call' = [call EXCEPT ![c].stage = "thrown"] /\ UNCHANGED <<trades, committed, taken>>
  BY DEF CommitThrows
<1>2. /\ CallsAreWhole' /\ call'[c].stage = "thrown"
      /\ \A d \in Call \ {c} : call'[d] = call[d]
  BY <1>1, StageAfter DEF OperationInv
<1>3. Payload' = Payload
  BY <1>1 DEF Payload, SortedAccounts, AccountSet
<1>4. \A d \in Call : call'[d].stage = "sending" => d # c /\ call'[d] = call[d]
  BY <1>2
<1>5. OneAtATime'
  BY <1>1, <1>3, <1>4 DEF OperationInv, OneAtATime
<1>6. TakenSoFar'
  <2>1. call[c].stage = "idle"
    BY DEF CommitThrows
  <2>2. LostCalls' = LostCalls
    BY <1>2, <2>1 DEF LostCalls
  <2>3. QED
    BY <1>1, <1>4, <2>2 DEF OperationInv, TakenSoFar
<1>7. QED
  BY <1>1, <1>2, <1>5, <1>6 DEF OperationInv

LEMMA SentInv ==
    ASSUME OperationInv, NEW c \in Call, Sent(c)
    PROVE  OperationInv'
<1>1. /\ call' = [call EXCEPT ![c].stage = "sent"] /\ UNCHANGED <<trades, committed>>
      /\ taken' = Append(taken, call[c].payload) /\ call[c].stage = "sending"
  BY DEF Sent
<1>2. /\ CallsAreWhole' /\ call'[c].stage = "sent"
      /\ \A d \in Call \ {c} : call'[d] = call[d]
  BY <1>1, StageAfter DEF OperationInv
<1>3. committed /\ \A d \in Call \ {c} : call[d].stage # "sending"
  BY <1>1 DEF OperationInv, OneAtATime
<1>4. \A d \in Call : call'[d].stage # "sending"
  BY <1>2, <1>3
<1>5. TakenSoFar'
  <2>1. LostCalls' = LostCalls
    BY <1>1, <1>2 DEF LostCalls
  <2>2. Len(taken) = Cardinality(LostCalls)
    BY <1>1 DEF OperationInv, TakenSoFar
  <2>3. (\E S : taken' \in Seq(S)) /\ Len(taken') = Len(taken) + 1
    BY <1>1, TakesOneMore DEF OperationInv
  <2>4. QED
    BY <1>1, <1>3, <1>4, <2>1, <2>2, <2>3 DEF OperationInv, TakenSoFar
<1>6. QED
  BY <1>1, <1>2, <1>4, <1>5 DEF OperationInv, OneAtATime

LEMMA SendFailsInv ==
    ASSUME OperationInv, NEW c \in Call, SendFails(c)
    PROVE  OperationInv'
<1>1. UNCHANGED trades /\ committed' = FALSE /\ call[c].stage = "sending"
  BY DEF SendFails
<1>2. PICK after \in {"failed", "lost"} :
        /\ call' = [call EXCEPT ![c].stage = after]
        /\ IF after = "failed" THEN UNCHANGED taken ELSE taken' = Append(taken, call[c].payload)
  BY DEF SendFails
<1>3. /\ CallsAreWhole' /\ call'[c].stage = after
      /\ \A d \in Call \ {c} : call'[d] = call[d]
  BY <1>2, StageAfter DEF OperationInv
<1>4. \A d \in Call \ {c} : call[d].stage # "sending"
  BY <1>1 DEF OperationInv, OneAtATime
<1>5. \A d \in Call : call'[d].stage # "sending"
  BY <1>2, <1>3, <1>4
<1>6. Len(taken) = Cardinality(LostCalls) /\ IsFiniteSet(LostCalls)
  BY <1>1 DEF OperationInv, TakenSoFar
<1>7. CASE after = "failed"
  <2>1. LostCalls' = LostCalls
    BY <1>1, <1>3, <1>7 DEF LostCalls
  <2>2. TakenSoFar'
    BY <1>2, <1>6, <1>7, <2>1 DEF OperationInv, TakenSoFar
  <2>3. QED
    BY <1>1, <1>3, <1>5, <2>2 DEF OperationInv, OneAtATime
<1>8. CASE after = "lost"
  <2>1. LostCalls' = LostCalls \cup {c} /\ c \notin LostCalls
    BY <1>1, <1>3, <1>8 DEF LostCalls
  <2>2. IsFiniteSet(LostCalls') /\ Cardinality(LostCalls') = Cardinality(LostCalls) + 1
    BY <1>6, <2>1, FS_AddElement
  <2>3. (\E S : taken' \in Seq(S)) /\ Len(taken') = Len(taken) + 1
    BY <1>2, <1>8, TakesOneMore DEF OperationInv
  <2>4. TakenSoFar'
    BY <1>6, <2>2, <2>3 DEF TakenSoFar
  <2>5. QED
    BY <1>1, <1>3, <1>5, <2>4 DEF OperationInv, OneAtATime
<1>9. QED
  BY <1>7, <1>8

LEMMA OperationInvariant == OperationSpec => []OperationInv
<1>1. OperationInit => OperationInv
  <2> SUFFICES ASSUME OperationInit PROVE OperationInv
    OBVIOUS
  <2>1. trades = <<>> /\ committed = FALSE /\ taken = <<>>
    BY DEF OperationInit
  <2>3. trades \in Seq(Trade)
    BY <2>1
  <2>2. call = [c \in Call |-> [stage |-> "idle"]]
    BY DEF OperationInit
  <2>4. TakenSoFar
    <3>1. LostCalls = {}
      BY <2>2 DEF LostCalls
    <3>2. IsFiniteSet({}) /\ Cardinality({}) = 0
      BY FS_EmptySet
    <3>3. taken \in Seq({}) /\ Len(taken) = 0
      BY <2>1
    <3>4. QED
      BY <3>1, <3>2, <3>3 DEF TakenSoFar
  <2>5. QED
    BY <2>1, <2>2, <2>3, <2>4
       DEF OperationInv, CallsAreWhole, CallIsWhole, OneAtATime
<1>2. OperationInv /\ [OperationNext]_operationVars => OperationInv'
  <2> SUFFICES ASSUME OperationInv, [OperationNext]_operationVars
               PROVE  OperationInv'
    OBVIOUS
  <2>1. ASSUME NEW a \in Address, NEW b \in Address, NEW trader \in Trader,
               AddTradeArg(a, b, trader)
        PROVE  OperationInv'
    BY <2>1, AddTradeArgInv
  <2>2. ASSUME NEW c \in Call, Commit(c) \/ CommitThrows(c) \/ Sent(c) \/ SendFails(c)
        PROVE  OperationInv'
    BY <2>2, CommitInv, CommitThrowsInv, SentInv, SendFailsInv
  <2>3. CASE UNCHANGED operationVars
    <3>1. UNCHANGED <<trades, committed, call, taken>>
      BY <2>3 DEF operationVars
    <3>2. Payload' = Payload
      BY <3>1 DEF Payload, SortedAccounts, AccountSet
    <3>3. CallsAreWhole'
      BY <3>1 DEF OperationInv, CallsAreWhole, CallIsWhole
    <3>4. OneAtATime'
      BY <3>1, <3>2 DEF OperationInv, OneAtATime
    <3>5. TakenSoFar'
      BY <3>1 DEF OperationInv, TakenSoFar, LostCalls
    <3>6. QED
      BY <3>1, <3>3, <3>4, <3>5 DEF OperationInv
  <2>4. QED
    BY <2>1, <2>2, <2>3 DEF OperationNext
<1>3. QED
  BY <1>1, <1>2, PTL DEF OperationSpec

\* Every transaction that commit sends passes the contract's check of its accounts
\* and names in each trade the accounts it was added with.
THEOREM WhatIsSentIsAccepted == OperationSpec => []PayloadsAreAccepted
<1>1. OperationInv => PayloadsAreAccepted
  <2> SUFFICES ASSUME OperationInv, NEW c \in Call, call[c].stage = "sending"
               PROVE  Accepted(call[c].payload)
    BY DEF PayloadsAreAccepted, Accepted
  <2>1. QED
    BY PayloadIsAccepted DEF OperationInv, OneAtATime
<1>2. QED
  BY <1>1, OperationInvariant, PTL

\* However many calls of commit there are and however they overlap, fail and are made
\* again, the network takes an operation once, and once more per lost answer.
THEOREM OperationTakenOnce == OperationSpec => []TakenOnce
<1>1. OperationInv => TakenOnce
  <2> SUFFICES ASSUME OperationInv
               PROVE  TakenOnce
    OBVIOUS
  <2>1. Cardinality(LostCalls) \in Nat
    BY FS_CardinalityType DEF OperationInv, TakenSoFar
  <2>2. QED
    BY <2>1 DEF OperationInv, TakenSoFar, TakenOnce
<1>2. QED
  BY <1>1, OperationInvariant, PTL

-----------------------------------------------------------------------------
(* Orders on their way to the contract.                                    *)

Number == [tenths : Nat, neg : BOOLEAN]
Price == [tenths : Nat, neg : {FALSE}]
Holder(accounts) == [account : accounts, mixedCase : BOOLEAN]
Order ==
    [isBuy : BOOLEAN, isDecreaseOnly : BOOLEAN, amount : Nat,
     limitPrice : Price, triggerPrice : Price, limitFee : Number,
     maker : Holder(Account \cup {Nobody}), taker : Holder({Operator, Nobody} \cup Account),
     expiration : Nat, salt : Nat]

\* The fees of the orders that clients make.
ChosenFees == Fees \cup {Rebate, LargeFee, SmallFee}

MinusZero(v) == v.neg /\ v.tenths = 0
NoMinusZero == \A fee \in ChosenFees : ~MinusZero(fee)

\* o is what has become of the order d, as far as the contract is concerned.
SameTerms(o, d) ==
    /\ o.isBuy = d.isBuy /\ o.isDecreaseOnly = d.isDecreaseOnly
    /\ ToFixed(o.amount) = ToFixed(d.amount)
    /\ o.limitPrice = d.limitPrice /\ o.triggerPrice = d.triggerPrice
    /\ o.limitFee.tenths = d.limitFee.tenths
    /\ o.limitFee.neg => d.limitFee.neg
    /\ d.limitFee.neg => o.limitFee.neg \/ d.limitFee.tenths = 0
    /\ o.maker.account = d.maker.account /\ o.taker.account = d.taker.account
    /\ o.expiration = d.expiration /\ o.salt = d.salt

\* Rounding keeps the order of magnitudes, and does nothing to what was rounded.
LEMMA Rounding ==
    /\ \A x \in Nat : ToFixed(x) \in Nat
    /\ \A x, y \in Nat : x <= y => ToFixed(x) <= ToFixed(y)
    /\ \A x \in Nat : ToFixed(10 * ToFixed(x)) = ToFixed(x)
BY DEF ToFixed

LEMMA OrderParts ==
    ASSUME NEW o \in Order
    PROVE  /\ o.isBuy \in BOOLEAN /\ o.isDecreaseOnly \in BOOLEAN /\ o.amount \in Nat
           /\ o.limitPrice.tenths \in Nat /\ o.limitPrice.neg = FALSE
           /\ o.limitPrice \in Price /\ o.triggerPrice \in Price
           /\ o.limitFee \in Number /\ o.limitFee.tenths \in Nat /\ o.limitFee.neg \in BOOLEAN
           /\ o.expiration \in Nat /\ o.salt \in Nat
BY DEF Order, Price, Number

\* What is written can be read again, but for the sign of zero.
LEMMA WrittenParts ==
    /\ \A v \in Number : /\ Written(v) \in Number /\ Written(v).tenths = v.tenths
                         /\ Written(v).neg = (v.neg /\ v.tenths # 0)
    /\ \A v \in Price : Written(v) = v
<1>1. ASSUME NEW v \in Number
      PROVE  /\ Written(v) \in Number /\ Written(v).tenths = v.tenths
             /\ Written(v).neg = (v.neg /\ v.tenths # 0)
  BY DEF Number, Written
<1>2. ASSUME NEW v \in Price
      PROVE  Written(v) = v
  BY DEF Price, Written
<1>3. QED
  BY <1>1, <1>2

LEMMA ThroughJsonKeeps ==
    ASSUME NEW o \in Order
    PROVE  /\ ThroughJson(o) \in Order /\ SameTerms(ThroughJson(o), o)
           /\ ~MinusZero(ThroughJson(o).limitFee)
<1>1. PICK amount, price, trigger, fee :
         /\ amount = 10 * ToFixed(o.amount) /\ price = Written(o.limitPrice)
         /\ trigger = Written(o.triggerPrice) /\ fee = Written(o.limitFee)
  OBVIOUS
<1>2. /\ amount \in Nat /\ ToFixed(amount) = ToFixed(o.amount)
      /\ price = o.limitPrice /\ trigger = o.triggerPrice
      /\ price \in Price /\ trigger \in Price
      /\ fee \in Number /\ fee.tenths = o.limitFee.tenths
      /\ fee.neg = (o.limitFee.neg /\ o.limitFee.tenths # 0)
  <2>1. amount \in Nat /\ ToFixed(amount) = ToFixed(o.amount)
    <3>1. PICK x \in Nat : x = o.amount
      BY OrderParts
    <3>2. PICK y \in Nat : y = ToFixed(x)
      BY Rounding
    <3>3. amount = 10 * y /\ 10 * y \in Nat
      BY <1>1, <3>1, <3>2
    <3>4. ToFixed(10 * y) = y
      BY <3>2, Rounding
    <3>5. QED
      BY <3>1, <3>2, <3>3, <3>4
  <2>2. price = o.limitPrice /\ trigger = o.triggerPrice /\ price \in Price /\ trigger \in Price
    BY <1>1, OrderParts, WrittenParts
  <2>3. /\ fee \in Number /\ fee.tenths = o.limitFee.tenths
        /\ fee.neg = (o.limitFee.neg /\ o.limitFee.tenths # 0)
    BY <1>1, OrderParts, WrittenParts
  <2>4. QED
    BY <2>1, <2>2, <2>3
<1>3. ThroughJson(o) = [o EXCEPT !.amount = amount, !.limitPrice = price,
                                 !.triggerPrice = trigger, !.limitFee = fee]
  BY <1>1 DEF ThroughJson
<1>4. PICK p : p = ThroughJson(o)
  OBVIOUS
<1>5. /\ p \in Order
      /\ p.isBuy = o.isBuy /\ p.isDecreaseOnly = o.isDecreaseOnly /\ p.amount = amount
      /\ p.limitPrice = price /\ p.triggerPrice = trigger /\ p.limitFee = fee
      /\ p.maker = o.maker /\ p.taker = o.taker
      /\ p.expiration = o.expiration /\ p.salt = o.salt
  BY <1>2, <1>3, <1>4 DEF Order
<1>6. SameTerms(p, o)
  <2>1. /\ p.limitFee.neg => o.limitFee.neg
        /\ o.limitFee.neg => p.limitFee.neg \/ o.limitFee.tenths = 0
    BY <1>2, <1>5
  <2>2. p.limitFee.tenths = o.limitFee.tenths /\ ToFixed(p.amount) = ToFixed(o.amount)
    BY <1>2, <1>5
  <2>3. p.maker.account = o.maker.account /\ p.taker.account = o.taker.account
    BY <1>5
  <2>4. QED
    BY <1>2, <1>5, <2>1, <2>2, <2>3 DEF SameTerms
<1>7. ~MinusZero(p.limitFee)
  BY <1>2, <1>5 DEF MinusZero
<1>8. QED
  BY <1>4, <1>5, <1>6, <1>7

LEMMA NormalizedKeeps ==
    ASSUME NEW o \in Order
    PROVE  /\ Normalized(o) \in Order /\ SameTerms(Normalized(o), o)
           /\ Normalized(o).limitFee = o.limitFee
<1>1. PICK maker, taker : /\ maker = [o.maker EXCEPT !.mixedCase = FALSE]
                          /\ taker = [o.taker EXCEPT !.mixedCase = FALSE]
  OBVIOUS
<1>2. /\ o.maker \in Holder(Account \cup {Nobody})
      /\ o.taker \in Holder({Operator, Nobody} \cup Account)
  BY DEF Order
<1>3. /\ maker \in Holder(Account \cup {Nobody}) /\ maker.account = o.maker.account
      /\ taker \in Holder({Operator, Nobody} \cup Account) /\ taker.account = o.taker.account
  BY <1>1, <1>2 DEF Holder
<1>4. Normalized(o) = [o EXCEPT !.maker = maker, !.taker = taker]
  BY <1>1 DEF Normalized, Order
<1>5. PICK p : p = Normalized(o)
  OBVIOUS
<1>6. /\ p \in Order
      /\ p.isBuy = o.isBuy /\ p.isDecreaseOnly = o.isDecreaseOnly /\ p.amount = o.amount
      /\ p.limitPrice = o.limitPrice /\ p.triggerPrice = o.triggerPrice
      /\ p.limitFee = o.limitFee /\ p.maker = maker /\ p.taker = taker
      /\ p.expiration = o.expiration /\ p.salt = o.salt
  BY <1>3, <1>4, <1>5 DEF Order
<1>7. SameTerms(p, o)
  <2>1. ToFixed(p.amount) = ToFixed(o.amount) /\ p.limitFee.tenths = o.limitFee.tenths
    BY <1>6
  <2>2. p.maker.account = o.maker.account /\ p.taker.account = o.taker.account
    BY <1>3, <1>6
  <2>3. QED
    BY <1>6, <2>1, <2>2 DEF SameTerms
<1>8. QED
  BY <1>5, <1>6, <1>7

LEMMA SameTermsTransitive ==
    ASSUME NEW p \in Order, NEW o \in Order, NEW d \in Order,
           SameTerms(p, o), SameTerms(o, d)
    PROVE  SameTerms(p, d)
BY OrderParts DEF SameTerms

\* The contract hashes what the client hashed, for any order with the same terms
\* whose fee has kept its sign.
LEMMA HashIsKept ==
    ASSUME NEW o \in Order, NEW d \in Order, SameTerms(o, d), ~MinusZero(d.limitFee)
    PROVE  /\ OrderHash(o) = OrderHash(d)
           /\ ContractHash(OrderToSolidity(o)) = OrderHash(o)
           /\ OrderToSolidity(o).maker = o.maker.account
<1>1. o.limitFee.neg = d.limitFee.neg
  BY OrderParts DEF SameTerms, MinusZero
<1>2. OrderFlags(o) = OrderFlags(d)
  BY <1>1 DEF OrderFlags, SameTerms, IsNegative
<1>3. /\ ToFixed(o.amount) = ToFixed(d.amount)
      /\ ToSolidity(o.limitPrice) = ToSolidity(d.limitPrice)
      /\ ToSolidity(o.triggerPrice) = ToSolidity(d.triggerPrice)
      /\ ToSolidity(o.limitFee) = ToSolidity(d.limitFee)
      /\ o.maker.account = d.maker.account /\ o.taker.account = d.taker.account
      /\ o.expiration = d.expiration
  BY DEF SameTerms, ToSolidity
<1>4. OrderHash(o) = OrderHash(d)
  BY <1>2, <1>3 DEF OrderHash
<1>5. QED
  BY <1>4 DEF ContractHash, OrderToSolidity, OrderHash

-----------------------------------------------------------------------------
(* The invariant.                                                          *)

SignedTypes ==
    /\ draft \in [Slot -> Order] /\ order \in [Slot -> Order]
    /\ DOMAIN stage = Slot /\ DOMAIN signature = Slot /\ DOMAIN row \subseteq Slot
    /\ now \in Nat

\* A client's fee is one of those it may choose; once written, no zero has a sign.
DraftsAreChosen == \A s \in Slot : draft[s].limitFee \in ChosenFees \cup {Positive(0)}

\* A signature that was not refused has a form that the contract reads.
SignaturesAreRead ==
    \A s \in Posted : signature[s].v = "1b" /\ signature[s].type \in {"none", "decimal"}

\* Its holders have the order the client made.
OrdersAreKept ==
    \A s \in Slot : /\ SameTerms(order[s], draft[s])
                    /\ stage[s] = "received" => ~MinusZero(order[s].limitFee)

RowsAreKept ==
    \A s \in DOMAIN row : /\ row[s] \in Order /\ SameTerms(row[s], draft[s])
                          /\ stage[s] = "saved"

\* A match was of two orders as the server had them then.
FillOf(s, o, amount, makers) ==
    [slot |-> s, data |-> FillToTradeData(o, signature[s], amount,
                                          makers.limitPrice, makers.limitFee)]

FilledAs(t, m, o, makers, amount) ==
    /\ t \in Posted /\ m \in Posted
    /\ SameTerms(o, draft[t]) /\ ~MinusZero(o.limitFee)
    /\ SameTerms(makers, draft[m]) /\ ~MinusZero(makers.limitFee)
    /\ amount <= o.amount /\ amount <= makers.amount
    /\ o.isBuy # makers.isBuy /\ PriceMatches(o, makers)
    /\ fills = [maker |-> FillOf(m, makers, amount, makers),
                taker |-> FillOf(t, o, amount, makers)]

FillsAreKept ==
    \/ fills = <<>>
    \/ \E t, m \in Slot, o, makers \in Order, amount \in Nat : FilledAs(t, m, o, makers, amount)

SignedInv ==
    /\ SignedTypes /\ DraftsAreChosen /\ SignaturesAreRead
    /\ OrdersAreKept /\ RowsAreKept /\ FillsAreKept

LEMMA SameTermsReflexive ==
    ASSUME NEW o
    PROVE  SameTerms(o, o)
BY Zenon DEF SameTerms

LEMMA NoOrderType == NoOrder \in Order /\ SameTerms(NoOrder, NoOrder)
<1>1. NoOrder \in Order
  <2>1. PICK zero, holder : zero = Positive(0) /\ holder = Spelled(Nobody, FALSE)
    OBVIOUS
  <2>2. zero \in Price /\ zero \in Number
    BY <2>1 DEF Positive, Decimal, Price, Number
  <2>3. holder \in Holder(Account \cup {Nobody}) /\ holder \in Holder({Operator, Nobody} \cup Account)
    BY <2>1 DEF Spelled, Holder
  <2>4. QED
    BY <2>1, <2>2, <2>3 DEF NoOrder, Order
<1>2. QED
  BY <1>1, SameTermsReflexive

LEMMA RequestTypes ==
    ASSUME now \in Nat, NEW s \in Slot, NEW o \in Requests(s)
    PROVE  o \in Order /\ o.limitFee \in ChosenFees
<1> DEFINE Made(amount, price, fee, maker, mixed, taker, lifetime, salt) ==
          [isBuy |-> s \in Buys, isDecreaseOnly |-> FALSE, amount |-> amount,
           limitPrice |-> Positive(price), triggerPrice |-> Positive(0),
           limitFee |-> fee, maker |-> Spelled(maker, mixed),
           taker |-> Spelled(taker, FALSE),
           expiration |-> RealExpiration(lifetime), salt |-> salt]
           Of(amount) ==
          {Made(amount, price, fee, maker, mixed, taker, lifetime, salt) :
              price \in Prices, fee \in LimitFees(amount), maker \in Account,
              mixed \in MixedCase, taker \in Takers, lifetime \in Lifetimes,
              salt \in Salts}
<1>0. Requests(s) = UNION {Of(amount) : amount \in Amounts}
  BY DEF Requests
<1>1. PICK amount \in Amounts : o \in Of(amount)
  <2> HIDE DEF Of
  <2>1. QED
    BY <1>0
<1> HIDE DEF Made
<1>2. PICK price \in Prices, fee \in LimitFees(amount), maker \in Account,
           mixed \in MixedCase, taker \in Takers, lifetime \in Lifetimes, salt \in Salts :
         o = Made(amount, price, fee, maker, mixed, taker, lifetime, salt)
  BY <1>1
<1>3. fee \in ChosenFees
  BY DEF LimitFees, FeeForOrder, ChosenFees
<1>4. fee \in Number
  BY <1>3, SignedOrdersAssumption DEF ChosenFees, Number
<1>5. amount \in Nat /\ Positive(price) \in Price /\ Positive(0) \in Price /\ salt \in Nat
  BY SignedOrdersAssumption DEF Positive, Decimal, Price
<1>6. RealExpiration(lifetime) \in Nat
  BY SignedOrdersAssumption DEF RealExpiration
<1>7. /\ Spelled(maker, mixed) \in Holder(Account \cup {Nobody})
      /\ Spelled(taker, FALSE) \in Holder({Operator, Nobody} \cup Account)
  BY SignedOrdersAssumption DEF Spelled, Holder
<1>8. (s \in Buys) \in BOOLEAN
  OBVIOUS
<1>9. o \in Order
  BY <1>2, <1>4, <1>5, <1>6, <1>7, <1>8 DEF Order, Made
<1>10. QED
  BY <1>2, <1>3, <1>9 DEF Made

\* A match stays what it was while the orders in it and their signatures do.
LEMMA FillsStay ==
    ASSUME FillsAreKept, fills' = fills,
           \A s \in Posted : s \in Posted' /\ draft'[s] = draft[s] /\ signature'[s] = signature[s]
    PROVE  FillsAreKept'
<1>1. CASE fills = <<>>
  BY <1>1 DEF FillsAreKept
<1>2. CASE fills # <<>>
  <2>1. PICK t, m \in Slot, o, makers \in Order, amount \in Nat :
             FilledAs(t, m, o, makers, amount)
    BY <1>2 DEF FillsAreKept
  <2>2. t \in Posted /\ m \in Posted
    BY <2>1 DEF FilledAs
  <2>3. /\ t \in Posted' /\ draft'[t] = draft[t] /\ signature'[t] = signature[t]
        /\ m \in Posted' /\ draft'[m] = draft[m] /\ signature'[m] = signature[m]
    BY <2>2
  <2>4. /\ FillOf(t, o, amount, makers)' = FillOf(t, o, amount, makers)
        /\ FillOf(m, makers, amount, makers)' = FillOf(m, makers, amount, makers)
    BY <2>3 DEF FillOf
  <2>5. FilledAs(t, m, o, makers, amount)'
    BY <2>1, <2>3, <2>4 DEF FilledAs
  <2>6. QED
    BY <2>5 DEF FillsAreKept
<1>3. QED
  BY <1>1, <1>2

LEMMA CreateInv ==
    ASSUME SignedInv, NEW s \in Slot, NEW o \in Requests(s), NEW method \in Methods,
           Create(s, o, method)
    PROVE  SignedInv'
<1>1. PICK raw \in RawSignatures(o) :
         /\ draft' = [draft EXCEPT ![s] = o]
         /\ order' = [order EXCEPT ![s] = o]
         /\ signature' = [signature EXCEPT ![s] = SignedBy(o, raw, method)]
         /\ stage' = [stage EXCEPT
              ![s] = IF SignedBy(o, raw, method).v = "throws" THEN "thrown" ELSE "signed"]
  BY DEF Create
<1>2. stage[s] = "none" /\ UNCHANGED <<row, fills, unlocked, now>>
  BY DEF Create
<1>3. o \in Order /\ o.limitFee \in ChosenFees
  BY RequestTypes DEF SignedInv, SignedTypes
<1>4. PICK signed : signed = SignedBy(o, raw, method)
  OBVIOUS
<1>5. signed.v \in {"1b", "throws"} /\ signed.type \in {"none", "decimal"}
  BY <1>4 DEF SignedBy, TypedSignature, FixedV
<1>6. /\ draft \in [Slot -> Order] /\ order \in [Slot -> Order]
      /\ DOMAIN stage = Slot /\ DOMAIN signature = Slot
      /\ DOMAIN row \subseteq Slot /\ now \in Nat
  BY DEF SignedInv, SignedTypes
<1>7. /\ draft'[s] = o /\ order'[s] = o /\ signature'[s] = signed
      /\ stage'[s] = IF signed.v = "throws" THEN "thrown" ELSE "signed"
      /\ \A q \in Slot \ {s} : /\ draft'[q] = draft[q] /\ order'[q] = order[q]
                             /\ signature'[q] = signature[q] /\ stage'[q] = stage[q]
  BY <1>1, <1>4, <1>6
<1>8. SignedTypes'
  BY <1>1, <1>2, <1>3, <1>6 DEF SignedTypes
<1>9. DraftsAreChosen'
  BY <1>3, <1>7 DEF SignedInv, DraftsAreChosen
<1>10. \A q \in Slot : q \in Posted' => q \in Posted \/ (q = s /\ signed.v = "1b")
  <2> SUFFICES ASSUME NEW q \in Slot, q \in Posted'
               PROVE  q \in Posted \/ (q = s /\ signed.v = "1b")
    OBVIOUS
  <2>1. stage'[q] \in {"signed", "received", "saved"}
    BY DEF Posted
  <2>2. CASE q = s
    BY <1>5, <1>7, <2>1, <2>2
  <2>3. CASE q # s
    <3>1. stage'[q] = stage[q]
      BY <1>7, <2>3
    <3>2. stage[q] \in {"signed", "received", "saved"}
      BY <2>1, <3>1
    <3>3. q \in Posted
      BY <3>2 DEF Posted
    <3>4. QED
      BY <3>3
  <2>4. QED
    BY <2>2, <2>3
<1>11. SignaturesAreRead'
  <2> SUFFICES ASSUME NEW q \in Posted'
               PROVE  signature'[q].v = "1b" /\ signature'[q].type \in {"none", "decimal"}
    BY DEF SignaturesAreRead
  <2>1. q \in Slot /\ ((q \in Posted /\ q # s) \/ (q = s /\ signed.v = "1b"))
    BY <1>2, <1>10 DEF Posted
  <2>2. QED
    BY <1>5, <1>7, <2>1 DEF SignedInv, SignaturesAreRead
<1>12. OrdersAreKept'
  <2>1. stage'[s] # "received" /\ SameTerms(o, o)
    BY <1>7, SameTermsReflexive
  <2>2. QED
    BY <1>7, <2>1 DEF SignedInv, OrdersAreKept
<1>13. s \notin DOMAIN row
  BY <1>2 DEF SignedInv, RowsAreKept
<1>14. RowsAreKept'
  BY <1>2, <1>6, <1>7, <1>13 DEF SignedInv, RowsAreKept
<1>15. FillsAreKept'
  <2>1. \A q \in Posted : q \in Slot \ {s}
    BY <1>2 DEF Posted
  <2>2. \A q \in Posted : q \in Posted' /\ draft'[q] = draft[q] /\ signature'[q] = signature[q]
    BY <1>7, <2>1 DEF Posted
  <2>3. QED
    BY <1>2, <2>2, FillsStay DEF SignedInv
<1>16. QED
  BY <1>8, <1>9, <1>11, <1>12, <1>14, <1>15 DEF SignedInv

LEMMA PostInv ==
    ASSUME SignedInv, NEW s \in Slot, Post(s)
    PROVE  SignedInv'
<1>1. PICK o, p : o = order[s] /\ p = Normalized(ThroughJson(o))
  OBVIOUS
<1>2. /\ stage[s] = "signed" /\ order' = [order EXCEPT ![s] = p]
      /\ stage' = [stage EXCEPT ![s] = "received"]
      /\ UNCHANGED <<draft, signature, row, fills, unlocked, now>>
  BY <1>1 DEF Post
<1>3. /\ draft \in [Slot -> Order] /\ order \in [Slot -> Order]
      /\ DOMAIN stage = Slot /\ DOMAIN signature = Slot
      /\ DOMAIN row \subseteq Slot /\ now \in Nat
  BY DEF SignedInv, SignedTypes
<1>4. o \in Order /\ draft[s] \in Order /\ SameTerms(o, draft[s])
  BY <1>1, <1>3 DEF SignedInv, OrdersAreKept
<1>5. p \in Order /\ SameTerms(p, draft[s]) /\ ~MinusZero(p.limitFee)
  <2>1. PICK j \in Order : /\ j = ThroughJson(o) /\ SameTerms(j, o) /\ ~MinusZero(j.limitFee)
    BY <1>4, ThroughJsonKeeps
  <2>2. p \in Order /\ SameTerms(p, j) /\ p.limitFee = j.limitFee
    BY <1>1, <2>1, NormalizedKeeps
  <2>3. SameTerms(p, o)
    BY <1>4, <2>1, <2>2, SameTermsTransitive
  <2>4. QED
    BY <1>4, <2>1, <2>2, <2>3, SameTermsTransitive
<1>6. /\ order'[s] = p /\ stage'[s] = "received"
      /\ \A q \in Slot \ {s} : order'[q] = order[q] /\ stage'[q] = stage[q]
  BY <1>2, <1>3
<1>7. SignedTypes'
  BY <1>2, <1>3, <1>5 DEF SignedTypes
<1>8. DraftsAreChosen'
  BY <1>2 DEF SignedInv, DraftsAreChosen
<1>9. Posted' = Posted
  BY <1>2, <1>6 DEF Posted
<1>10. SignaturesAreRead'
  BY <1>2, <1>9 DEF SignedInv, SignaturesAreRead
<1>11. OrdersAreKept'
  BY <1>2, <1>5, <1>6 DEF SignedInv, OrdersAreKept
<1>12. s \notin DOMAIN row
  BY <1>2 DEF SignedInv, RowsAreKept
<1>13. RowsAreKept'
  BY <1>2, <1>3, <1>6, <1>12 DEF SignedInv, RowsAreKept
<1>14. FillsAreKept'
  BY <1>2, <1>9, FillsStay DEF SignedInv
<1>15. QED
  BY <1>7, <1>8, <1>10, <1>11, <1>13, <1>14 DEF SignedInv

LEMMA SaveRowInv ==
    ASSUME SignedInv, NEW s \in Slot, SaveRow(s)
    PROVE  SignedInv'
<1>1. PICK p : p = ThroughRow(order[s])
  OBVIOUS
<1>2. /\ stage[s] = "received" /\ row' = Put(s, p, row)
      /\ stage' = [stage EXCEPT ![s] = "saved"]
      /\ UNCHANGED <<draft, order, signature, fills, unlocked, now>>
  BY <1>1 DEF SaveRow
<1>3. /\ draft \in [Slot -> Order] /\ order \in [Slot -> Order]
      /\ DOMAIN stage = Slot /\ DOMAIN signature = Slot
      /\ DOMAIN row \subseteq Slot /\ now \in Nat
  BY DEF SignedInv, SignedTypes
<1>4. order[s] \in Order /\ draft[s] \in Order /\ SameTerms(order[s], draft[s])
  BY <1>3 DEF SignedInv, OrdersAreKept
<1>5. p \in Order /\ SameTerms(p, draft[s])
  <2>1. p \in Order /\ SameTerms(p, order[s])
    BY <1>1, <1>4, ThroughJsonKeeps DEF ThroughRow
  <2>2. QED
    BY <1>4, <2>1, SameTermsTransitive
<1>6. /\ stage'[s] = "saved" /\ \A q \in Slot \ {s} : stage'[q] = stage[q]
      /\ DOMAIN row' = {s} \cup DOMAIN row /\ row'[s] = p
      /\ \A q \in DOMAIN row \ {s} : row'[q] = row[q]
  BY <1>2, <1>3 DEF Put, Override
<1>7. SignedTypes' /\ DraftsAreChosen'
  BY <1>2, <1>3, <1>6 DEF SignedInv, SignedTypes, DraftsAreChosen
<1>8. Posted' = Posted
  BY <1>2, <1>6 DEF Posted
<1>9. SignaturesAreRead'
  BY <1>2, <1>8 DEF SignedInv, SignaturesAreRead
<1>10. OrdersAreKept'
  BY <1>2, <1>6 DEF SignedInv, OrdersAreKept
<1>11. RowsAreKept'
  BY <1>2, <1>3, <1>5, <1>6 DEF SignedInv, RowsAreKept
<1>12. FillsAreKept'
  BY <1>2, <1>8, FillsStay DEF SignedInv
<1>13. QED
  BY <1>7, <1>9, <1>10, <1>11, <1>12 DEF SignedInv

LEMMA MatchInv ==
    ASSUME SignedInv, NEW t \in Slot, NEW m \in Slot, Match(t, m)
    PROVE  SignedInv'
<1>1. PICK makers, o : makers = ThroughRow(row[m]) /\ o = order[t]
  OBVIOUS
<1>2. PICK amount : amount = IF o.amount < makers.amount THEN o.amount ELSE makers.amount
  OBVIOUS
<1>3. /\ stage[t] = "received" /\ m \in DOMAIN row
      /\ o.isBuy # makers.isBuy /\ PriceMatches(o, makers)
      /\ fills' = [maker |-> FillOf(m, makers, amount, makers),
                   taker |-> FillOf(t, o, amount, makers)]
      /\ UNCHANGED <<draft, order, stage, signature, row, unlocked, now>>
  BY <1>1, <1>2 DEF Match, FillOf
<1>4. /\ draft \in [Slot -> Order] /\ order \in [Slot -> Order]
  BY DEF SignedInv, SignedTypes
<1>5. /\ o \in Order /\ draft[t] \in Order /\ SameTerms(o, draft[t])
      /\ ~MinusZero(o.limitFee)
  BY <1>1, <1>3, <1>4 DEF SignedInv, OrdersAreKept
<1>6. makers \in Order /\ SameTerms(makers, draft[m]) /\ ~MinusZero(makers.limitFee)
  <2>1. row[m] \in Order /\ draft[m] \in Order /\ SameTerms(row[m], draft[m])
    BY <1>3, <1>4 DEF SignedInv, RowsAreKept
  <2>2. /\ makers \in Order /\ SameTerms(makers, row[m]) /\ ~MinusZero(makers.limitFee)
    BY <1>1, <2>1, ThroughJsonKeeps DEF ThroughRow
  <2>3. QED
    BY <2>1, <2>2, SameTermsTransitive
<1>7. amount \in Nat /\ amount <= o.amount /\ amount <= makers.amount
  <2>1. PICK x \in Nat, y \in Nat : x = o.amount /\ y = makers.amount
    BY <1>5, <1>6, OrderParts
  <2>2. amount = IF x < y THEN x ELSE y
    BY <1>2, <2>1
  <2>3. amount \in Nat /\ amount <= x /\ amount <= y
    BY <2>2
  <2>4. QED
    BY <2>1, <2>3
<1>8. t \in Posted /\ m \in Posted
  BY <1>3 DEF SignedInv, RowsAreKept, Posted
<1>9. FillsAreKept'
  <2>1. Posted' = Posted
    BY <1>3 DEF Posted
  <2>2. /\ FillOf(t, o, amount, makers)' = FillOf(t, o, amount, makers)
        /\ FillOf(m, makers, amount, makers)' = FillOf(m, makers, amount, makers)
    BY <1>3 DEF FillOf
  <2>3. FilledAs(t, m, o, makers, amount)'
    BY <1>3, <1>5, <1>6, <1>7, <1>8, <2>1, <2>2 DEF FilledAs
  <2>4. QED
    BY <1>5, <1>6, <1>7, <2>3 DEF FillsAreKept
<1>10. SignedTypes' /\ DraftsAreChosen' /\ SignaturesAreRead' /\ OrdersAreKept' /\ RowsAreKept'
  BY <1>3 DEF SignedInv, SignedTypes, DraftsAreChosen, SignaturesAreRead, Posted,
              OrdersAreKept, RowsAreKept
<1>11. QED
  BY <1>9, <1>10 DEF SignedInv

\* Nothing but the clock has changed.
LEMMA OrdersStay ==
    ASSUME SignedInv, UNCHANGED <<draft, order, stage, signature, row, fills>>, now' \in Nat
    PROVE  SignedInv'
<1>1. /\ draft' = draft /\ order' = order /\ stage' = stage /\ signature' = signature
      /\ row' = row /\ fills' = fills
  OBVIOUS
<1>2. Posted' = Posted
  BY <1>1 DEF Posted
<1>3. FillsAreKept'
  BY <1>1, <1>2, FillsStay DEF SignedInv
<1>4. SignedTypes' /\ DraftsAreChosen' /\ SignaturesAreRead' /\ OrdersAreKept' /\ RowsAreKept'
  BY <1>1, <1>2 DEF SignedInv, SignedTypes, DraftsAreChosen, SignaturesAreRead,
                    OrdersAreKept, RowsAreKept
<1>5. QED
  BY <1>3, <1>4 DEF SignedInv

LEMMA SignedInvariant == SignedSpec => []SignedInv
<1>1. SignedInit => SignedInv
  <2> SUFFICES ASSUME SignedInit
               PROVE  SignedInv
    OBVIOUS
  <2>1. /\ draft = [s \in Slot |-> NoOrder] /\ order = draft
        /\ stage = [s \in Slot |-> "none"] /\ signature = [s \in Slot |-> NoSignature]
        /\ row = [s \in {} |-> NoOrder] /\ fills = <<>> /\ now = 0
    BY DEF SignedInit
  <2>2. SignedTypes
    BY <2>1, NoOrderType DEF SignedTypes
  <2>3. DraftsAreChosen
    BY <2>1 DEF DraftsAreChosen, NoOrder
  <2>4. Posted = {}
    BY <2>1 DEF Posted
  <2>5. SignaturesAreRead /\ FillsAreKept
    BY <2>1, <2>4 DEF SignaturesAreRead, FillsAreKept
  <2>6. OrdersAreKept
    BY <2>1, NoOrderType DEF OrdersAreKept
  <2>7. RowsAreKept
    BY <2>1 DEF RowsAreKept
  <2>8. QED
    BY <2>2, <2>3, <2>5, <2>6, <2>7 DEF SignedInv
<1>2. SignedInv /\ [SignedNext]_signedVars => SignedInv'
  <2> SUFFICES ASSUME SignedInv, [SignedNext]_signedVars
               PROVE  SignedInv'
    OBVIOUS
  <2>1. ASSUME NEW s \in Slot, NEW o \in Requests(s), NEW method \in Methods,
               Create(s, o, method)
        PROVE  SignedInv'
    BY <2>1, CreateInv
  <2>2. ASSUME NEW s \in Slot, Post(s) \/ SaveRow(s)
        PROVE  SignedInv'
    BY <2>2, PostInv, SaveRowInv
  <2>3. ASSUME NEW t \in Slot, NEW m \in Slot, Match(t, m)
        PROVE  SignedInv'
    BY <2>3, MatchInv
  <2>4. now \in Nat
    BY DEF SignedInv, SignedTypes
  <2>5. CASE Tick
    BY <2>4, <2>5, OrdersStay DEF Tick
  <2>6. CASE UNCHANGED signedVars
    BY <2>4, <2>6, OrdersStay DEF signedVars
  <2>7. QED
    BY <2>1, <2>2, <2>3, <2>5, <2>6 DEF SignedNext
<1>3. QED
  BY <1>1, <1>2, PTL DEF SignedSpec

-----------------------------------------------------------------------------
(* What the contract says of it.                                           *)

\* orderHasValidSignature foretells the contract, for every signature the library
\* makes from what a wallet answers.
THEOREM ClientForetellsContract == SignedSpec => []ClientCheckAgrees
<1>1. SignedInv => ClientCheckAgrees
  <2> SUFFICES ASSUME SignedInv, NEW s \in Posted
               PROVE  ValidAtFirst(s) = ContractRecovers(OrderHash(draft[s]), signature[s],
                                                         draft[s].maker.account)
    BY DEF ClientCheckAgrees
  <2>1. signature[s].v = "1b" /\ signature[s].type \in {"none", "decimal"}
    BY DEF SignedInv, SignaturesAreRead
  <2>2. QED
    BY <2>1 DEF ValidAtFirst, ClientRecovers, ContractRecovers
<1>2. QED
  BY <1>1, SignedInvariant, PTL

\* A signature that was valid when the order was made is accepted by the contract with
\* the order that the server hands over, unless a client chose a fee of minus zero.
THEOREM ValidSignaturesStayValid == NoMinusZero => (SignedSpec => []ValidStaysValid)
<1> SUFFICES ASSUME NoMinusZero
             PROVE  SignedSpec => []ValidStaysValid
  OBVIOUS
<1>1. SignedInv => ValidStaysValid
  <2> SUFFICES ASSUME SignedInv, fills # <<>>
               PROVE  ValidStaysValid
    BY DEF ValidStaysValid
  <2>1. PICK t, m \in Slot, o, makers \in Order, amount \in Nat :
             FilledAs(t, m, o, makers, amount)
    BY DEF SignedInv, FillsAreKept
  <2>2. ASSUME NEW s \in Posted, NEW p \in Order, SameTerms(p, draft[s]), ValidAtFirst(s)
        PROVE  SignatureAccepted(FillOf(s, p, amount, makers).data)
    <3>1. s \in Slot /\ draft[s] \in Order
      BY DEF Posted, SignedInv, SignedTypes
    <3>2. ~MinusZero(draft[s].limitFee)
      BY <3>1 DEF SignedInv, DraftsAreChosen, NoMinusZero, MinusZero, Positive, Decimal
    <3>3. /\ ContractHash(OrderToSolidity(p)) = OrderHash(draft[s])
          /\ OrderToSolidity(p).maker = draft[s].maker.account
      BY <2>2, <3>1, <3>2, HashIsKept DEF SameTerms
    <3>4. signature[s].v = "1b" /\ signature[s].type \in {"none", "decimal"}
      BY DEF SignedInv, SignaturesAreRead
    <3>5. PICK data : data = FillOf(s, p, amount, makers).data
      OBVIOUS
    <3>6. data.order = OrderToSolidity(p) /\ data.signature = signature[s]
      BY <3>5 DEF FillOf, FillToTradeData
    <3>7. QED
      BY <2>2, <3>3, <3>4, <3>5, <3>6
         DEF SignatureAccepted, ValidAtFirst, ClientRecovers, ContractRecovers
  <2>3. PICK f, g : f = FillOf(m, makers, amount, makers) /\ g = FillOf(t, o, amount, makers)
    OBVIOUS
  <2>4. /\ f.slot = m /\ g.slot = t /\ fills = [maker |-> f, taker |-> g]
        /\ m \in Posted /\ t \in Posted
        /\ SameTerms(makers, draft[m]) /\ SameTerms(o, draft[t])
    BY <2>1, <2>3 DEF FilledAs, FillOf
  <2>5. /\ ValidAtFirst(m) => SignatureAccepted(f.data)
        /\ ValidAtFirst(t) => SignatureAccepted(g.data)
    BY <2>2, <2>3, <2>4
  <2>6. QED
    BY <2>4, <2>5 DEF ValidStaysValid
<1>2. QED
  BY <1>1, SignedInvariant, PTL

\* What the server matches on exact numbers is within the limits of both orders on the
\* contract's rounded ones, whatever the orders.
THEOREM MatchesAreFillable == SignedSpec => []MatchIsFillable
<1>1. SignedInv => MatchIsFillable
  <2> SUFFICES ASSUME SignedInv, fills # <<>>
               PROVE  MatchIsFillable
    BY DEF MatchIsFillable
  <2>1. PICK t, m \in Slot, o, makers \in Order, amount \in Nat :
             FilledAs(t, m, o, makers, amount)
    BY DEF SignedInv, FillsAreKept
  <2>2. /\ t \in Posted /\ m \in Posted
        /\ SameTerms(o, draft[t]) /\ ~MinusZero(o.limitFee)
        /\ SameTerms(makers, draft[m]) /\ ~MinusZero(makers.limitFee)
        /\ amount <= o.amount /\ amount <= makers.amount
        /\ o.isBuy # makers.isBuy /\ PriceMatches(o, makers)
    BY <2>1 DEF FilledAs
  <2>3. draft[t] \in Order /\ draft[m] \in Order
    BY DEF SignedInv, SignedTypes
  \* The sides of a match, and what the contract compares.
  <2>4. ASSUME NEW p \in Order, NEW d \in Order, NEW s, SameTerms(p, d), amount <= p.amount,
               d.taker.account \in {Operator, Nobody},
               IF p.isBuy THEN makers.limitPrice.tenths <= p.limitPrice.tenths
                          ELSE makers.limitPrice.tenths >= p.limitPrice.tenths,
               Signed(makers.limitFee) <= Signed(p.limitFee), ~MinusZero(p.limitFee)
        PROVE  TermsAccepted(FillOf(s, p, amount, makers).data)
    <3>1. PICK data : data = FillOf(s, p, amount, makers).data
      OBVIOUS
    <3>2. /\ data.order = OrderToSolidity(p) /\ data.amount = ToFixed(amount)
          /\ data.price = ToFixed(makers.limitPrice.tenths)
          /\ data.fee = ToFixed(makers.limitFee.tenths)
          /\ data.isNegativeFee = makers.limitFee.neg
      BY <3>1 DEF FillOf, FillToTradeData, ToSolidity, IsNegative
    <3>3. /\ data.order.flags.buy = p.isBuy
          /\ data.order.flags.negativeFee = p.limitFee.neg
          /\ data.order.amount = ToFixed(p.amount)
          /\ data.order.limitPrice = ToFixed(p.limitPrice.tenths)
          /\ data.order.limitFee = ToFixed(p.limitFee.tenths)
          /\ data.order.taker = p.taker.account
      BY <3>2 DEF OrderToSolidity, OrderFlags, ToSolidity, IsNegative
    <3>0. PICK a, b, x, y \in Nat :
             /\ a = makers.limitPrice.tenths /\ b = p.limitPrice.tenths
             /\ x = makers.limitFee.tenths /\ y = p.limitFee.tenths
      BY OrderParts
    <3>4. IF p.isBuy THEN data.price <= data.order.limitPrice
                     ELSE data.price >= data.order.limitPrice
      <4>1. data.price = ToFixed(a) /\ data.order.limitPrice = ToFixed(b)
        BY <3>0, <3>2, <3>3
      <4>2. a <= b => ToFixed(a) <= ToFixed(b)
        BY Rounding
      <4>3. b <= a => ToFixed(b) <= ToFixed(a)
        BY Rounding
      <4>4. ToFixed(a) \in Nat /\ ToFixed(b) \in Nat
        BY Rounding
      <4>5. CASE p.isBuy
        BY <2>4, <3>0, <4>1, <4>2, <4>5
      <4>6. CASE ~p.isBuy
        <5>1. a >= b
          BY <2>4, <3>0, <4>6
        <5>2. b <= a
          BY <5>1
        <5>3. ToFixed(a) >= ToFixed(b)
          BY <4>3, <4>4, <5>2
        <5>4. QED
          BY <4>1, <4>6, <5>3
      <4>7. QED
        BY <4>5, <4>6
    <3>5. data.amount <= data.order.amount
      BY <2>4, <3>2, <3>3, Rounding, OrderParts
    <3>6. IF p.limitFee.neg
            THEN makers.limitFee.neg /\ makers.limitFee.tenths >= p.limitFee.tenths
            ELSE makers.limitFee.neg \/ makers.limitFee.tenths <= p.limitFee.tenths
      <4>1. makers.limitFee.neg \in BOOLEAN /\ p.limitFee.neg \in BOOLEAN
        BY OrderParts
      <4>2. (IF makers.limitFee.neg THEN -x ELSE x) <= (IF p.limitFee.neg THEN -y ELSE y)
        BY <2>4, <3>0 DEF Signed
      <4>3. p.limitFee.neg => y # 0
        BY <2>4, <3>0 DEF MinusZero
      <4>4. IF p.limitFee.neg THEN makers.limitFee.neg /\ x >= y
                              ELSE makers.limitFee.neg \/ x <= y
        BY <3>0, <4>1, <4>2, <4>3
      <4>5. QED
        BY <3>0, <4>4
    <3>7. IF p.limitFee.neg THEN data.isNegativeFee /\ data.fee >= data.order.limitFee
                            ELSE data.isNegativeFee \/ data.fee <= data.order.limitFee
      <4>1. data.fee = ToFixed(x) /\ data.order.limitFee = ToFixed(y)
        BY <3>0, <3>2, <3>3
      <4>2. x <= y => ToFixed(x) <= ToFixed(y)
        BY Rounding
      <4>3. x >= y => ToFixed(x) >= ToFixed(y)
        <5>1. y <= x => ToFixed(y) <= ToFixed(x) /\ ToFixed(x) \in Nat /\ ToFixed(y) \in Nat
          BY Rounding
        <5>2. QED
          BY <3>0, <5>1
      <4>4. IF p.limitFee.neg THEN makers.limitFee.neg /\ x >= y
                              ELSE makers.limitFee.neg \/ x <= y
        BY <3>0, <3>6
      <4>5. QED
        BY <3>2, <4>1, <4>2, <4>3, <4>4
    <3>8. data.order.taker \in {Operator, Nobody}
      BY <2>4, <3>3 DEF SameTerms
    <3>9. QED
      BY <3>1, <3>3, <3>4, <3>5, <3>7, <3>8 DEF TermsAccepted
  <2>5. \A p, d \in Order : SameTerms(p, d) => Signed(p.limitFee) = Signed(d.limitFee)
    BY OrderParts DEF SameTerms, Signed
  <2>6. PICK f, g : f = FillOf(m, makers, amount, makers) /\ g = FillOf(t, o, amount, makers)
    OBVIOUS
  <2>7. f.slot = m /\ g.slot = t /\ fills = [maker |-> f, taker |-> g]
    BY <2>1, <2>6 DEF FilledAs, FillOf
  <2>8. ASSUME draft[m].taker.account \in {Operator, Nobody}
        PROVE  TermsAccepted(f.data)
    <3>0. /\ makers.limitFee.neg \in BOOLEAN /\ makers.limitFee.tenths \in Nat
          /\ makers.limitPrice.tenths \in Nat
      BY OrderParts
    <3>1. Signed(makers.limitFee) <= Signed(makers.limitFee)
      <4>1. Signed(makers.limitFee) \in Int
        BY <3>0 DEF Signed
      <4>2. QED
        BY <4>1
    <3>2. /\ makers.limitPrice.tenths <= makers.limitPrice.tenths
          /\ makers.limitPrice.tenths >= makers.limitPrice.tenths
      BY <3>0
    <3>3. QED
      BY <2>2, <2>3, <2>4, <2>6, <2>8, <3>1, <3>2
  <2>9. ASSUME draft[t].taker.account \in {Operator, Nobody},
               Signed(draft[m].limitFee) <= Signed(draft[t].limitFee)
        PROVE  TermsAccepted(g.data)
    <3>1. Signed(makers.limitFee) <= Signed(o.limitFee)
      BY <2>2, <2>3, <2>5, <2>9
    <3>2. IF o.isBuy THEN makers.limitPrice.tenths <= o.limitPrice.tenths
                     ELSE makers.limitPrice.tenths >= o.limitPrice.tenths
      BY <2>2, OrderParts DEF PriceMatches, Signed
    <3>3. QED
      BY <2>2, <2>3, <2>4, <2>6, <2>9, <3>1, <3>2
  <2>10. QED
    BY <2>7, <2>8, <2>9 DEF MatchIsFillable
<1>2. QED
  BY <1>1, SignedInvariant, PTL

-----------------------------------------------------------------------------
(* The script of a deployment.                                             *)

Names == {"Test_P1Funder", "WETH9", "Test_ChainlinkAggregator", "PerpetualV1",
          "PerpetualProxy", "P1FundingOracle", "P1ChainlinkOracle", "MockToken",
          "P1Orders", "P1InverseOrders", "P1Deleveraging", "P1Liquidation",
          "P1CurrencyConverterProxy", "P1LiquidatorProxy", "P1WethProxy"}
CallMethods == {"setAnswer", "initializeV1", "approveMaximumOnPerpetual", "setGlobalOperator"}
DeployStep == [do : {"deploy"}, name : Names]
CallStep == [do : {"call"}, method : CallMethods, name : Names]
ScriptStep == DeployStep \cup CallStep

Holds(s, x) == \E i \in 1..Len(s) : s[i] = x

\* x, and later y.
Before(s, x, y) == \E i, j \in 1..Len(s) : i < j /\ s[i] = x /\ s[j] = y

LEMMA InConcatenation ==
    ASSUME NEW S, NEW s \in Seq(S), NEW t \in Seq(S)
    PROVE  /\ s \o t \in Seq(S)
           /\ \A x : Holds(s, x) => Holds(s \o t, x)
           /\ \A x : Holds(t, x) => Holds(s \o t, x)
           /\ \A x, y : Before(s, x, y) => Before(s \o t, x, y)
           /\ \A x, y : Holds(s, x) /\ Holds(t, y) => Before(s \o t, x, y)
<1> DEFINE c == s \o t
<1>1. /\ c \in Seq(S) /\ Len(c) = Len(s) + Len(t)
      /\ \A j \in 1..Len(s) + Len(t) :
           c[j] = IF j <= Len(s) THEN s[j] ELSE t[j - Len(s)]
  BY ConcatProperties
<1>2. Len(s) \in Nat /\ Len(t) \in Nat
  BY LenProperties
<1> HIDE DEF c
<1>3. \A i \in 1..Len(s) : i \in 1..Len(c) /\ c[i] = s[i]
  BY <1>1, <1>2
<1>4. ASSUME NEW i \in 1..Len(t)
      PROVE  Len(s) + i \in 1..Len(c) /\ c[Len(s) + i] = t[i]
  <2>1. /\ Len(s) + i \in 1..Len(s) + Len(t)
        /\ ~(Len(s) + i <= Len(s)) /\ (Len(s) + i) - Len(s) = i
    BY <1>2
  <2>2. QED
    BY <1>1, <2>1
<1>5. \A x : Holds(s, x) => Holds(c, x)
  BY <1>3 DEF Holds
<1>6. \A x : Holds(t, x) => Holds(c, x)
  BY <1>4 DEF Holds
<1>7. \A x, y : Before(s, x, y) => Before(c, x, y)
  BY <1>3 DEF Before
<1>8. ASSUME NEW x, NEW y, Holds(s, x), Holds(t, y)
      PROVE  Before(c, x, y)
  <2>1. PICK i \in 1..Len(s), j \in 1..Len(t) : s[i] = x /\ t[j] = y
    BY <1>8 DEF Holds
  <2>2. i < Len(s) + j
    BY <1>2
  <2>3. QED
    BY <1>3, <1>4, <2>1, <2>2 DEF Before
<1>9. QED
  BY <1>1, <1>5, <1>6, <1>7, <1>8 DEF c

LEMMA TwoSteps ==
    ASSUME NEW S, NEW a \in S, NEW b \in S, NEW s, s = <<a, b>>
    PROVE  s \in Seq(S) /\ Holds(s, a) /\ Holds(s, b)
<1>1. s[1] = a /\ s[2] = b /\ Len(s) = 2
  OBVIOUS
<1>2. QED
  BY <1>1 DEF Holds

LEMMA ThreeSteps ==
    ASSUME NEW S, NEW a \in S, NEW b \in S, NEW c \in S, NEW s, s = <<a, b, c>>
    PROVE  s \in Seq(S) /\ Len(s) = 3 /\ Holds(s, a) /\ Holds(s, b) /\ Holds(s, c)
<1>1. s[1] = a /\ s[2] = b /\ s[3] = c /\ Len(s) = 3
  OBVIOUS
<1>2. QED
  BY <1>1 DEF Holds

LEMMA FourSteps ==
    ASSUME NEW S, NEW a \in S, NEW b \in S, NEW c \in S, NEW d \in S,
           NEW s, s = <<a, b, c, d>>
    PROVE  /\ s \in Seq(S) /\ Len(s) = 4
           /\ Holds(s, a) /\ Holds(s, b) /\ Holds(s, c) /\ Holds(s, d)
<1>1. s[1] = a /\ s[2] = b /\ s[3] = c /\ s[4] = d /\ Len(s) = 4
  OBVIOUS
<1>2. QED
  BY <1>1 DEF Holds

LEMMA StepTypes ==
    /\ \A name \in Names : Deploy(name) \in ScriptStep
    /\ \A method \in CallMethods, name \in Names : Invoke(method, name) \in ScriptStep
BY DEF ScriptStep, DeployStep, CallStep, Deploy, Invoke

LEMMA OperatorNames ==
    /\ GlobalOperators \in Seq(Names) /\ Proxies \in Seq(Names)
    /\ Holds(GlobalOperators, "P1Orders") /\ Holds(GlobalOperators, "P1Deleveraging")
    /\ Holds(GlobalOperators, "P1Liquidation") /\ Holds(GlobalOperators, "P1LiquidatorProxy")
<1>1. /\ Traders \in Seq(Names) /\ Holds(Traders, "P1Orders")
      /\ Holds(Traders, "P1Deleveraging") /\ Holds(Traders, "P1Liquidation")
  <2>1. PICK w \in Names, x \in Names, y \in Names, z \in Names :
           /\ w = "P1Orders" /\ x = "P1InverseOrders"
           /\ y = "P1Deleveraging" /\ z = "P1Liquidation"
    BY DEF Names
  <2>2. Traders = <<w, x, y, z>>
    BY <2>1 DEF Traders
  <2>3. QED
    BY <2>1, <2>2, FourSteps
<1>2. Proxies \in Seq(Names) /\ Holds(Proxies, "P1LiquidatorProxy")
  <2>1. PICK x \in Names, y \in Names, z \in Names :
           /\ x = "P1CurrencyConverterProxy" /\ y = "P1LiquidatorProxy"
           /\ z = "P1WethProxy"
    BY DEF Names
  <2>2. Proxies = <<x, y, z>>
    BY <2>1 DEF Proxies
  <2>3. QED
    BY <2>1, <2>2, ThreeSteps
<1>3. GlobalOperators = Traders \o Proxies
  BY DEF GlobalOperators
<1>4. /\ \A x : Holds(Traders, x) => Holds(GlobalOperators, x)
      /\ \A x : Holds(Proxies, x) => Holds(GlobalOperators, x)
      /\ GlobalOperators \in Seq(Names)
  BY <1>1, <1>2, <1>3, InConcatenation
<1>5. QED
  BY <1>1, <1>2, <1>4

\* deployTraders deploys every global operator.
LEMMA TradersScript ==
    /\ DeployTraders \in Seq(ScriptStep)
    /\ \A name : Holds(GlobalOperators, name) => Holds(DeployTraders, Deploy(name))
<1> DEFINE A == [i \in DOMAIN GlobalOperators |-> Deploy(GlobalOperators[i])]
           B == [i \in DOMAIN Proxies |-> Invoke("approveMaximumOnPerpetual", Proxies[i])]
           C == [i \in DOMAIN GlobalOperators |-> Invoke("setGlobalOperator", GlobalOperators[i])]
<1>1. PICK n \in Nat : /\ Len(GlobalOperators) = n /\ DOMAIN GlobalOperators = 1..n
                       /\ \A i \in 1..n : GlobalOperators[i] \in Names
  BY OperatorNames, LenProperties, ElementOfSeq
<1>2. PICK m \in Nat : DOMAIN Proxies = 1..m /\ \A i \in 1..m : Proxies[i] \in Names
  BY OperatorNames, LenProperties, ElementOfSeq
<1>3. A \in [1..n -> ScriptStep]
  BY <1>1, StepTypes
<1>4. B \in [1..m -> ScriptStep]
  BY <1>2, StepTypes DEF CallMethods
<1>5. C \in [1..n -> ScriptStep]
  BY <1>1, StepTypes DEF CallMethods
<1>6. \A k \in Nat : \A f \in [1..k -> ScriptStep] : f \in Seq(ScriptStep) /\ Len(f) = k
  OBVIOUS
<1>7. A \in Seq(ScriptStep) /\ Len(A) = n /\ B \in Seq(ScriptStep) /\ C \in Seq(ScriptStep)
  BY <1>3, <1>4, <1>5, <1>6
<1>8. \A name : Holds(GlobalOperators, name) => Holds(A, Deploy(name))
  BY <1>1, <1>7 DEF Holds
<1>9. DeployTraders = (A \o B) \o C
  BY DEF DeployTraders
<1> HIDE DEF A, B, C
<1>10. /\ A \o B \in Seq(ScriptStep)
       /\ \A x : Holds(A, x) => Holds(A \o B, x)
  BY <1>7, InConcatenation
<1>11. /\ DeployTraders \in Seq(ScriptStep)
       /\ \A x : Holds(A \o B, x) => Holds(DeployTraders, x)
  BY <1>7, <1>9, <1>10, InConcatenation
<1>12. QED
  BY <1>8, <1>10, <1>11

\* The script deploys what clients load and what initializeV1 is called with, and
\* a deployment follows the two calls that a saved book depends on.
LEMMA ScriptIsComplete ==
    ASSUME NEW network
    PROVE  /\ Script(network) \in Seq(ScriptStep)
           /\ \A name \in (Loaded \ {"MarginToken"}) \cup {"MockToken"} :
                Holds(Script(network), Deploy(name))
           /\ network = Dev => Holds(Script(network), Deploy("Test_P1Funder"))
           /\ Before(Script(network), Invoke("setAnswer", "Test_ChainlinkAggregator"),
                     Deploy("PerpetualV1"))
           /\ Before(Script(network), Invoke("initializeV1", "PerpetualProxy"),
                     Deploy("P1Orders"))
<1> DEFINE A == IF network = Dev THEN <<Deploy("Test_P1Funder")>> ELSE <<>>
           B == <<Deploy("WETH9"), Deploy("Test_ChainlinkAggregator"),
                  Invoke("setAnswer", "Test_ChainlinkAggregator")>>
           F == <<Deploy("MockToken"), Invoke("initializeV1", "PerpetualProxy")>>
           T == DeployTestContracts(network)
           TP == T \o DeployProtocol
           TPO == TP \o DeployOracles
           TPOF == TPO \o F
           S == Script(network)
           answer == Invoke("setAnswer", "Test_ChainlinkAggregator")
           initialize == Invoke("initializeV1", "PerpetualProxy")
<1>1. /\ \A name \in Names : Deploy(name) \in ScriptStep
      /\ answer \in ScriptStep /\ initialize \in ScriptStep
  BY StepTypes DEF CallMethods, Names
<1>2. A \in Seq(ScriptStep) /\ (network = Dev => Holds(A, Deploy("Test_P1Funder")))
  <2>1. PICK x \in ScriptStep : x = Deploy("Test_P1Funder")
    BY <1>1 DEF Names
  <2>2. A = IF network = Dev THEN <<x>> ELSE <<>>
    BY <2>1
  <2> HIDE DEF A
  <2>3. <<x>> \in Seq(ScriptStep) /\ <<>> \in Seq(ScriptStep) /\ <<x>>[1] = x /\ Len(<<x>>) = 1
    OBVIOUS
  <2>4. Holds(<<x>>, x)
    BY <2>3 DEF Holds
  <2>5. QED
    BY <2>1, <2>2, <2>3, <2>4
<1>3. B \in Seq(ScriptStep) /\ Holds(B, answer)
  <2>1. PICK x \in ScriptStep, y \in ScriptStep, z \in ScriptStep :
           x = Deploy("WETH9") /\ y = Deploy("Test_ChainlinkAggregator") /\ z = answer
    BY <1>1 DEF Names
  <2>2. QED
    BY <2>1, ThreeSteps
<1>4. /\ DeployProtocol \in Seq(ScriptStep)
      /\ Holds(DeployProtocol, Deploy("PerpetualV1"))
      /\ Holds(DeployProtocol, Deploy("PerpetualProxy"))
  <2>1. PICK x \in ScriptStep, y \in ScriptStep :
           x = Deploy("PerpetualV1") /\ y = Deploy("PerpetualProxy")
    BY <1>1 DEF Names
  <2>2. QED
    BY <2>1, TwoSteps DEF DeployProtocol
<1>5. /\ DeployOracles \in Seq(ScriptStep)
      /\ Holds(DeployOracles, Deploy("P1FundingOracle"))
      /\ Holds(DeployOracles, Deploy("P1ChainlinkOracle"))
  <2>1. PICK x \in ScriptStep, y \in ScriptStep :
           x = Deploy("P1FundingOracle") /\ y = Deploy("P1ChainlinkOracle")
    BY <1>1 DEF Names
  <2>2. QED
    BY <2>1, TwoSteps DEF DeployOracles
<1>6. F \in Seq(ScriptStep) /\ Holds(F, Deploy("MockToken")) /\ Holds(F, initialize)
  <2>1. PICK x \in ScriptStep, y \in ScriptStep : x = Deploy("MockToken") /\ y = initialize
    BY <1>1 DEF Names
  <2>2. QED
    BY <2>1, TwoSteps
<1>7. /\ DeployTraders \in Seq(ScriptStep)
      /\ Holds(DeployTraders, Deploy("P1Orders")) /\ Holds(DeployTraders, Deploy("P1Deleveraging"))
      /\ Holds(DeployTraders, Deploy("P1Liquidation"))
      /\ Holds(DeployTraders, Deploy("P1LiquidatorProxy"))
  BY TradersScript, OperatorNames
<1>8. T = A \o B
  BY DEF DeployTestContracts
<1>9. S = TPOF \o DeployTraders
  BY DEF Script
<1> HIDE DEF A, B, F, T, S, answer, initialize
<1>10. /\ T \in Seq(ScriptStep)
       /\ \A x : Holds(A, x) => Holds(T, x)
       /\ \A x : Holds(B, x) => Holds(T, x)
  BY <1>2, <1>3, <1>8, InConcatenation
<1>11. /\ TP \in Seq(ScriptStep)
       /\ \A x : Holds(T, x) => Holds(TP, x)
       /\ \A x : Holds(DeployProtocol, x) => Holds(TP, x)
       /\ \A x, y : Holds(T, x) /\ Holds(DeployProtocol, y) => Before(TP, x, y)
  BY <1>4, <1>10, InConcatenation
<1> HIDE DEF TP
<1>12. /\ TPO \in Seq(ScriptStep)
       /\ \A x : Holds(TP, x) => Holds(TPO, x)
       /\ \A x : Holds(DeployOracles, x) => Holds(TPO, x)
       /\ \A x, y : Before(TP, x, y) => Before(TPO, x, y)
  BY <1>5, <1>11, InConcatenation
<1> HIDE DEF TPO
<1>13. /\ TPOF \in Seq(ScriptStep)
       /\ \A x : Holds(TPO, x) => Holds(TPOF, x)
       /\ \A x : Holds(F, x) => Holds(TPOF, x)
       /\ \A x, y : Before(TPO, x, y) => Before(TPOF, x, y)
  BY <1>6, <1>12, InConcatenation
<1> HIDE DEF TPOF
<1>14. /\ S \in Seq(ScriptStep)
       /\ \A x : Holds(TPOF, x) => Holds(S, x)
       /\ \A x : Holds(DeployTraders, x) => Holds(S, x)
       /\ \A x, y : Before(TPOF, x, y) => Before(S, x, y)
       /\ \A x, y : Holds(TPOF, x) /\ Holds(DeployTraders, y) => Before(S, x, y)
  BY <1>7, <1>9, <1>13, InConcatenation
<1>15. Before(S, answer, Deploy("PerpetualV1"))
  BY <1>3, <1>4, <1>10, <1>11, <1>12, <1>13, <1>14
<1>16. Before(S, initialize, Deploy("P1Orders"))
  BY <1>6, <1>7, <1>13, <1>14
<1>17. network = Dev => Holds(S, Deploy("Test_P1Funder"))
  BY <1>2, <1>10, <1>11, <1>12, <1>13, <1>14
<1>18. /\ Holds(S, Deploy("PerpetualV1")) /\ Holds(S, Deploy("PerpetualProxy"))
       /\ Holds(S, Deploy("P1FundingOracle")) /\ Holds(S, Deploy("P1ChainlinkOracle"))
       /\ Holds(S, Deploy("MockToken"))
  BY <1>4, <1>5, <1>6, <1>11, <1>12, <1>13, <1>14
<1>19. /\ Holds(S, Deploy("P1Orders")) /\ Holds(S, Deploy("P1Deleveraging"))
       /\ Holds(S, Deploy("P1Liquidation")) /\ Holds(S, Deploy("P1LiquidatorProxy"))
  BY <1>7, <1>14
<1>20. \A name \in (Loaded \ {"MarginToken"}) \cup {"MockToken"} : Holds(S, Deploy(name))
  BY <1>18, <1>19 DEF Loaded
<1>21. QED
  BY <1>14, <1>15, <1>16, <1>17, <1>20 DEF S, answer, initialize

\* The book of a run names, under every entry, a contract that the run deployed;
\* it has all that clients load.
LEMMA BookIsComplete ==
    ASSUME NEW network
    PROVE  /\ Loaded \subseteq DOMAIN AddressBook(network)
           /\ \A entry \in DOMAIN AddressBook(network) :
                \E i \in 1..Len(Script(network)) :
                    /\ Script(network)[i].do = "deploy"
                    /\ Script(network)[i].name = AddressBook(network)[entry]
           /\ \A entry \in Loaded \ {"MarginToken"} : AddressBook(network)[entry] = entry
           /\ AddressBook(network)["MarginToken"] = "MockToken"
<1> DEFINE S == Script(network)
           names == {S[i].name : i \in Deployments(network)}
           entries == (names \ {"MockToken", "P1InverseOrders"}) \cup {"MarginToken"}
<1>1. S \in Seq(ScriptStep) /\ DOMAIN S = 1..Len(S)
  BY ScriptIsComplete, LenProperties
<1>2. \A name : Holds(S, Deploy(name)) => name \in names
  BY <1>1 DEF Holds, Deployments, Deploy
<1>3. \A name \in names : \E i \in 1..Len(S) : S[i].do = "deploy" /\ S[i].name = name
  BY <1>1 DEF Deployments
<1>4. AddressBook(network) =
        [entry \in entries |-> IF entry = "MarginToken" THEN "MockToken" ELSE entry]
  BY DEF AddressBook
<1>5. \A name \in (Loaded \ {"MarginToken"}) \cup {"MockToken"} : name \in names
  BY <1>2, ScriptIsComplete
<1> HIDE DEF names, S
<1>6. Loaded \subseteq entries
  BY <1>5 DEF Loaded
<1>7. \A entry \in entries \ {"MarginToken"} : entry \in names
  OBVIOUS
<1>8. "MarginToken" \in entries /\ "MockToken" \in names
  BY <1>5
<1> HIDE DEF entries
<1>9. QED
  BY <1>3, <1>4, <1>6, <1>7, <1>8 DEF S

-----------------------------------------------------------------------------
(* Runs, and the books they save.                                          *)

Steps(r) == Script(NetworkOf[r])

\* The token and the oracles that initializeV1 is called with.
Around(r) == <<Token(r), Oracle(r), Funder(r)>>

\* What a call that is mined leaves behind, where a saved book depends on it.
Done(r, step) ==
    /\ step.method = "setAnswer" => state[r].answered
    /\ step.method = "initializeV1" => state[r].initialized = Around(r)

Complete(r) == at[r] = Len(Steps(r))

RunState(r) ==
    [answered : BOOLEAN, initialized : {<<>>, Around(r)},
     approved : SUBSET Names, operators : SUBSET Names]

RunTypes ==
    /\ at \in [Run -> Nat] /\ \A r \in Run : at[r] <= Len(Steps(r))
    /\ pool \in [Run -> Seq(CallStep)]
    /\ DOMAIN state = Run /\ \A r \in Run : state[r] \in RunState(r)

\* What a run has deployed exists.
DeployedSoFar ==
    \A r \in Run : \A i \in 1..at[r] :
        Steps(r)[i].do = "deploy" => <<r, Steps(r)[i].name>> \in deployed

\* A call that was sent is done, or is still in the pool.
SentSoFar ==
    \A r \in Run : \A i \in 1..at[r] :
        Steps(r)[i].do = "call" => Done(r, Steps(r)[i]) \/ Holds(pool[r], Steps(r)[i])

\* A deployment waits for every call before it.
WaitedSoFar ==
    \A r \in Run : \A i, j \in 1..at[r] :
        i < j /\ Steps(r)[i].do = "call" /\ Steps(r)[j].do = "deploy" => Done(r, Steps(r)[i])

\* What was saved, and what was loaded, is the book of a run that did its script.
BookOf(r, entries) == [entry \in DOMAIN Addresses(r) \cap entries |-> Addresses(r)[entry]]

SavedSoFar ==
    \A n \in DOMAIN file : \E r \in Run :
        Complete(r) /\ NetworkOf[r] = n /\ file[n] = Addresses(r)

LoadedSoFar ==
    /\ client = [c \in Client |-> client[c]]
    /\ \A c \in Client : \/ client[c].book = NoBook
                         \/ \E r \in Run : Complete(r) /\ client[c].book = BookOf(r, Loaded)

DeploymentInv ==
    /\ RunTypes /\ DeployedSoFar /\ SentSoFar /\ WaitedSoFar /\ SavedSoFar /\ LoadedSoFar

\* The parts of the invariant that a step of a run can disturb, for that run.
LEMMA StepsAreTyped ==
    ASSUME NEW r \in Run
    PROVE  /\ Steps(r) \in Seq(ScriptStep) /\ Len(Steps(r)) \in Nat
           /\ \A i \in 1..Len(Steps(r)) : /\ Steps(r)[i] \in ScriptStep
                                          /\ Steps(r)[i].do = "call" => Steps(r)[i] \in CallStep
<1>1. Steps(r) \in Seq(ScriptStep)
  BY ScriptIsComplete DEF Steps
<1>2. Len(Steps(r)) \in Nat /\ \A i \in 1..Len(Steps(r)) : Steps(r)[i] \in ScriptStep
  BY <1>1, LenProperties, ElementOfSeq
<1>3. \A x \in ScriptStep : x.do = "call" => x \in CallStep
  BY DEF ScriptStep, DeployStep, CallStep
<1>4. QED
  BY <1>1, <1>2, <1>3

LEMMA RunningStep ==
    ASSUME RunTypes, NEW r \in Run, Running(r)
    PROVE  /\ at[r] \in Nat /\ at[r] + 1 \in 1..Len(Steps(r)) /\ ~Complete(r)
           /\ Step(r) = Steps(r)[at[r] + 1]
<1>1. at[r] \in Nat /\ at[r] < Len(Steps(r)) /\ Len(Steps(r)) \in Nat
  BY StepsAreTyped DEF RunTypes, Running, Steps
<1>2. QED
  BY <1>1 DEF Complete, Step, Steps

LEMMA DeployContractInv ==
    ASSUME DeploymentInv, NEW r \in Run, DeployContract(r)
    PROVE  DeploymentInv'
<1> DEFINE n == at[r] + 1
<1>1. /\ Running(r) /\ Step(r).do = "deploy" /\ pool[r] = <<>>
      /\ deployed' = deployed \cup {<<r, Step(r).name>>}
      /\ at' = [at EXCEPT ![r] = n]
      /\ UNCHANGED <<ended, pool, state, file, client>>
  BY DEF DeployContract
<1>2. /\ at[r] \in Nat /\ n \in 1..Len(Steps(r)) /\ ~Complete(r)
      /\ Step(r) = Steps(r)[n] /\ Len(Steps(r)) \in Nat
  BY <1>1, RunningStep, StepsAreTyped DEF DeploymentInv
<1>3. /\ at'[r] = n /\ \A q \in Run \ {r} : at'[q] = at[q]
      /\ at' \in [Run -> Nat] /\ \A q \in Run : at[q] \in Nat
  BY <1>1, <1>2 DEF DeploymentInv, RunTypes
<1> HIDE DEF n
<1>4. \A i \in 1..n : i \in 1..at[r] \/ i = n
  BY <1>2 DEF n
<1>5. RunTypes'
  BY <1>1, <1>2, <1>3 DEF DeploymentInv, RunTypes, RunState, Steps, Around, Token, Oracle, Funder
<1>6. DeployedSoFar'
  BY <1>1, <1>2, <1>3, <1>4 DEF DeploymentInv, DeployedSoFar, Steps
<1>7. \A q \in Run : \A x : Done(q, x)' <=> Done(q, x)
  BY <1>1 DEF Done, Around, Token, Oracle, Funder
<1>8. \A x : ~Holds(pool[r], x)
  BY <1>1 DEF Holds
<1>9. SentSoFar'
  BY <1>1, <1>2, <1>3, <1>4, <1>7 DEF DeploymentInv, SentSoFar, Steps
<1>10. \A i \in 1..at[r] : Steps(r)[i].do = "call" => Done(r, Steps(r)[i])
  BY <1>8 DEF DeploymentInv, SentSoFar
<1>11. WaitedSoFar'
  <2> SUFFICES ASSUME NEW q \in Run, NEW i \in 1..at'[q], NEW j \in 1..at'[q], i < j,
                      Steps(q)[i].do = "call", Steps(q)[j].do = "deploy"
               PROVE  Done(q, Steps(q)[i])
    BY <1>7 DEF WaitedSoFar, Steps
  <2>1. CASE q # r
    BY <1>3, <2>1 DEF DeploymentInv, WaitedSoFar
  <2>2. CASE q = r
    <3>1. i \in 1..at[r]
      BY <1>2, <1>3, <2>2 DEF n
    <3>2. QED
      BY <1>10, <2>2, <3>1
  <2>3. QED
    BY <2>1, <2>2
<1>12. \A q \in Run : Complete(q) => Complete(q)'
  BY <1>2, <1>3 DEF Complete, Steps
<1>13. SavedSoFar' /\ LoadedSoFar'
  BY <1>1, <1>12 DEF DeploymentInv, SavedSoFar, LoadedSoFar, Addresses, BookOf
<1>14. QED
  BY <1>5, <1>6, <1>9, <1>11, <1>13 DEF DeploymentInv

LEMMA SendCallInv ==
    ASSUME DeploymentInv, NEW r \in Run, SendCall(r)
    PROVE  DeploymentInv'
<1> DEFINE n == at[r] + 1
<1>1. /\ Running(r) /\ Step(r).do = "call"
      /\ pool' = [pool EXCEPT ![r] = Append(pool[r], Step(r))]
      /\ at' = [at EXCEPT ![r] = n]
      /\ UNCHANGED <<ended, deployed, state, file, client>>
  BY DEF SendCall, Queued
<1>2. /\ at[r] \in Nat /\ n \in 1..Len(Steps(r)) /\ ~Complete(r)
      /\ Step(r) = Steps(r)[n] /\ Len(Steps(r)) \in Nat /\ Step(r) \in CallStep
  BY <1>1, RunningStep, StepsAreTyped DEF DeploymentInv
<1>3. /\ at'[r] = n /\ \A q \in Run \ {r} : at'[q] = at[q]
      /\ at' \in [Run -> Nat] /\ \A q \in Run : at[q] \in Nat
  BY <1>1, <1>2 DEF DeploymentInv, RunTypes
<1>4. /\ pool \in [Run -> Seq(CallStep)] /\ pool' \in [Run -> Seq(CallStep)]
      /\ pool'[r] = Append(pool[r], Step(r)) /\ \A q \in Run \ {r} : pool'[q] = pool[q]
  <2>1. pool \in [Run -> Seq(CallStep)]
    BY DEF DeploymentInv, RunTypes
  <2>2. Append(pool[r], Step(r)) \in Seq(CallStep)
    BY <1>2, <2>1, AppendProperties
  <2>3. QED
    BY <1>1, <2>1, <2>2
<1>5. /\ Holds(pool'[r], Step(r)) /\ \A x : Holds(pool[r], x) => Holds(pool'[r], x)
  <2>1. PICK s \in Seq(CallStep) : s = pool[r]
    BY <1>4
  <2>2. PICK t : t = Append(s, Step(r))
    OBVIOUS
  <2>3. /\ Len(t) = Len(s) + 1 /\ Len(s) \in Nat
        /\ \A i \in 1..Len(s) : t[i] = s[i]
        /\ t[Len(s) + 1] = Step(r)
    BY <1>2, <2>2, AppendProperties, LenProperties
  <2>4. Holds(t, Step(r)) /\ \A x : Holds(s, x) => Holds(t, x)
    BY <2>3 DEF Holds
  <2>5. QED
    BY <1>4, <2>1, <2>2, <2>4
<1> HIDE DEF n
<1>6. \A i \in 1..n : i \in 1..at[r] \/ i = n
  BY <1>2 DEF n
<1>7. RunTypes'
  BY <1>1, <1>2, <1>3, <1>4
     DEF DeploymentInv, RunTypes, RunState, Steps, Around, Token, Oracle, Funder
<1>8. DeployedSoFar'
  BY <1>1, <1>2, <1>3, <1>6 DEF DeploymentInv, DeployedSoFar, Steps
<1>9. \A q \in Run : \A x : Done(q, x)' <=> Done(q, x)
  BY <1>1 DEF Done, Around, Token, Oracle, Funder
<1>10. SentSoFar'
  <2> SUFFICES ASSUME NEW q \in Run, NEW i \in 1..at'[q], Steps(q)[i].do = "call"
               PROVE  Done(q, Steps(q)[i]) \/ Holds(pool'[q], Steps(q)[i])
    BY <1>9 DEF SentSoFar, Steps
  <2>1. CASE q # r
    BY <1>3, <1>4, <2>1 DEF DeploymentInv, SentSoFar
  <2>2. CASE q = r
    BY <1>2, <1>3, <1>5, <1>6, <2>2 DEF DeploymentInv, SentSoFar
  <2>3. QED
    BY <2>1, <2>2
<1>11. WaitedSoFar'
  <2> SUFFICES ASSUME NEW q \in Run, NEW i \in 1..at'[q], NEW j \in 1..at'[q], i < j,
                      Steps(q)[i].do = "call", Steps(q)[j].do = "deploy"
               PROVE  Done(q, Steps(q)[i])
    BY <1>9 DEF WaitedSoFar, Steps
  <2>1. CASE q # r
    BY <1>3, <2>1 DEF DeploymentInv, WaitedSoFar
  <2>2. CASE q = r
    <3>1. j # n
      BY <1>1, <1>2, <2>2
    <3>2. j \in 1..at[r] /\ i \in 1..at[r]
      BY <1>2, <1>3, <1>6, <2>2, <3>1
    <3>3. QED
      BY <2>2, <3>2 DEF DeploymentInv, WaitedSoFar
  <2>3. QED
    BY <2>1, <2>2
<1>12. \A q \in Run : Complete(q) => Complete(q)'
  BY <1>2, <1>3 DEF Complete, Steps
<1>13. SavedSoFar' /\ LoadedSoFar'
  BY <1>1, <1>12 DEF DeploymentInv, SavedSoFar, LoadedSoFar, Addresses, BookOf
<1>14. QED
  BY <1>7, <1>8, <1>10, <1>11, <1>13 DEF DeploymentInv

LEMMA MineInv ==
    ASSUME DeploymentInv, NEW r \in Run, Mine(r)
    PROVE  DeploymentInv'
<1>1. PICK x : x = Head(pool[r])
  OBVIOUS
<1>2. PICK old, new : old = state[r] /\ new = IF Succeeds(r, x) THEN Effect(r, x) ELSE old
  OBVIOUS
<1>3. /\ pool[r] # <<>> /\ state' = [state EXCEPT ![r] = new]
      /\ pool' = [pool EXCEPT ![r] = Tail(pool[r])]
      /\ UNCHANGED <<at, ended, deployed, file, client>>
  BY <1>1, <1>2 DEF Mine
<1>4. /\ pool \in [Run -> Seq(CallStep)] /\ pool[r] \in Seq(CallStep)
      /\ x \in CallStep /\ Tail(pool[r]) \in Seq(CallStep)
  BY <1>1, <1>3, HeadTailProperties DEF DeploymentInv, RunTypes
<1>5. /\ pool' \in [Run -> Seq(CallStep)] /\ pool'[r] = Tail(pool[r])
      /\ \A q \in Run \ {r} : pool'[q] = pool[q]
  BY <1>3, <1>4
<1>6. \A y : Holds(pool[r], y) => y = x \/ Holds(pool'[r], y)
  <2>1. PICK s \in Seq(CallStep) : s = pool[r] /\ s # <<>>
    BY <1>3, <1>4
  <2>2. PICK t : t = Tail(s)
    OBVIOUS
  <2>3. /\ Len(t) = Len(s) - 1 /\ Len(s) \in Nat /\ x = s[1]
        /\ \A i \in 1..Len(t) : t[i] = s[i + 1]
    BY <1>1, <2>1, <2>2, HeadTailProperties, LenProperties
  <2>4. ASSUME NEW y, NEW i \in 1..Len(s), s[i] = y
        PROVE  y = x \/ Holds(t, y)
    <3>1. CASE i = 1
      BY <2>3, <2>4, <3>1
    <3>2. CASE i # 1
      <4>1. i - 1 \in 1..Len(t) /\ t[i - 1] = s[(i - 1) + 1] /\ (i - 1) + 1 = i
        BY <2>3, <3>2
      <4>2. QED
        BY <2>4, <4>1 DEF Holds
    <3>3. QED
      BY <3>1, <3>2
  <2>5. QED
    BY <1>5, <2>1, <2>2, <2>4 DEF Holds
<1>7. /\ old \in RunState(r) /\ DOMAIN state = Run
      /\ x.method \in CallMethods /\ x.name \in Names
  BY <1>2, <1>4 DEF DeploymentInv, RunTypes, CallStep
<1>8. /\ new \in RunState(r)
      /\ old.answered => new.answered
      /\ old.initialized = Around(r) => new.initialized = Around(r)
      /\ x.method = "setAnswer" => new.answered
      /\ x.method = "initializeV1" => new.initialized = Around(r)
  <2>1. CASE x.method = "setAnswer"
    BY <1>2, <1>7, <2>1 DEF Succeeds, Effect, RunState
  <2>2. CASE x.method = "initializeV1"
    BY <1>2, <1>7, <2>2 DEF Succeeds, Effect, RunState, Around
  <2>3. CASE x.method = "approveMaximumOnPerpetual"
    BY <1>2, <1>7, <2>3 DEF Succeeds, Effect, RunState
  <2>4. CASE x.method = "setGlobalOperator"
    BY <1>2, <1>7, <2>4 DEF Succeeds, Effect, RunState
  <2>5. QED
    BY <1>7, <2>1, <2>2, <2>3, <2>4 DEF CallMethods
<1>9. /\ DOMAIN state' = Run /\ state'[r] = new
      /\ \A q \in Run \ {r} : state'[q] = state[q]
  BY <1>3, <1>7
<1>10. Done(r, x)' /\ \A q \in Run : \A y : Done(q, y) => Done(q, y)'
  BY <1>2, <1>8, <1>9 DEF Done, Around, Token, Oracle, Funder
<1>11. RunTypes'
  <2>1. \A q \in Run : state'[q] \in RunState(q)
    BY <1>8, <1>9 DEF DeploymentInv, RunTypes
  <2>2. QED
    BY <1>3, <1>5, <1>9, <2>1
       DEF DeploymentInv, RunTypes, RunState, Steps, Around, Token, Oracle, Funder
<1>12. SentSoFar'
  <2> SUFFICES ASSUME NEW q \in Run, NEW i \in 1..at[q], Steps(q)[i].do = "call"
               PROVE  Done(q, Steps(q)[i])' \/ Holds(pool'[q], Steps(q)[i])
    BY <1>3 DEF SentSoFar, Steps, Done, Around, Token, Oracle, Funder
  <2>1. Done(q, Steps(q)[i]) \/ Holds(pool[q], Steps(q)[i])
    BY DEF DeploymentInv, SentSoFar
  <2>2. QED
    BY <1>5, <1>6, <1>10, <2>1
<1>13. WaitedSoFar' /\ DeployedSoFar'
  BY <1>3, <1>10 DEF DeploymentInv, WaitedSoFar, DeployedSoFar, Steps
<1>14. SavedSoFar' /\ LoadedSoFar'
  BY <1>3 DEF DeploymentInv, SavedSoFar, LoadedSoFar, Addresses, BookOf, Complete, Steps
<1>15. QED
  BY <1>11, <1>12, <1>13, <1>14 DEF DeploymentInv

\* The runs are as they were.
RunsStay == UNCHANGED <<at, pool, deployed, state>>

LEMMA RunsStayInv ==
    ASSUME DeploymentInv, RunsStay
    PROVE  /\ RunTypes' /\ DeployedSoFar' /\ SentSoFar' /\ WaitedSoFar'
           /\ \A r \in Run : Complete(r) <=> Complete(r)'
<1>1. at' = at /\ pool' = pool /\ deployed' = deployed /\ state' = state
  BY DEF RunsStay
<1>2. RunTypes'
  BY <1>1 DEF DeploymentInv, RunTypes, RunState, Steps, Around, Token, Oracle, Funder
<1>3. DeployedSoFar'
  BY <1>1 DEF DeploymentInv, DeployedSoFar, Steps
<1>4. \A q \in Run : \A x : Done(q, x)' <=> Done(q, x)
  BY <1>1 DEF Done, Around, Token, Oracle, Funder
<1>5. SentSoFar' /\ WaitedSoFar'
  BY <1>1, <1>4 DEF DeploymentInv, SentSoFar, WaitedSoFar, Steps
<1>6. QED
  BY <1>1, <1>2, <1>3, <1>5 DEF Complete, Steps

LEMMA SaveInv ==
    ASSUME DeploymentInv, NEW r \in Run, Save(r)
    PROVE  DeploymentInv'
<1>1. /\ Complete(r) /\ file' = Saved(r) /\ RunsStay /\ UNCHANGED client
  BY DEF Save, Complete, Steps, RunsStay
<1>2. SavedSoFar'
  BY <1>1, RunsStayInv DEF SavedSoFar, Saved, Addresses
<1>3. LoadedSoFar'
  BY <1>1, RunsStayInv DEF DeploymentInv, LoadedSoFar, Addresses, BookOf
<1>4. QED
  BY <1>1, <1>2, <1>3, RunsStayInv DEF DeploymentInv

LEMMA LoadInv ==
    ASSUME DeploymentInv, NEW c \in Client, NEW network \in Network, Load(c, network)
    PROVE  DeploymentInv'
<1> DEFINE new == IF network \notin DOMAIN file THEN [stage |-> "failed", book |-> NoBook]
                  ELSE [stage |-> "loaded",
                        book |-> [entry \in DOMAIN file[network] \cap Loaded
                                    |-> file[network][entry]]]
<1>1. RunsStay /\ UNCHANGED file /\ client' = [client EXCEPT ![c] = new]
  BY DEF Load, RunsStay
<1>2. \/ new.book = NoBook
      \/ \E r \in Run : Complete(r) /\ new.book = BookOf(r, Loaded)
  BY DEF DeploymentInv, SavedSoFar, BookOf
<1> HIDE DEF new
<1>3. client' = [d \in Client |-> IF d = c THEN new ELSE client[d]]
  BY <1>1 DEF DeploymentInv, LoadedSoFar
<1>4. LoadedSoFar'
  <2>1. \A q \in Run : Complete(q) <=> Complete(q)'
    BY <1>1, RunsStayInv
  <2>2. \A q \in Run : BookOf(q, Loaded)' = BookOf(q, Loaded)
    BY DEF BookOf, Addresses
  <2>3. client'[c] = new /\ \A d \in Client \ {c} : client'[d] = client[d]
    BY <1>3
  <2>4. client' = [d \in Client |-> client'[d]]
    BY <1>3
  <2>5. \A d \in Client : \/ client'[d].book = NoBook
                         \/ \E r \in Run : Complete(r)' /\ client'[d].book = BookOf(r, Loaded)
    BY <1>2, <2>1, <2>3 DEF DeploymentInv, LoadedSoFar
  <2>6. NoBook' = NoBook
    BY DEF NoBook
  <2>7. QED
    BY <2>2, <2>4, <2>5, <2>6 DEF LoadedSoFar
<1>5. SavedSoFar'
  BY <1>1, RunsStayInv DEF DeploymentInv, SavedSoFar, Addresses
<1>6. QED
  BY <1>1, <1>4, <1>5, RunsStayInv DEF DeploymentInv

LEMMA StopInv ==
    ASSUME DeploymentInv, NEW c \in Client, Stop(c)
    PROVE  DeploymentInv'
<1>1. RunsStay /\ UNCHANGED file /\ client' = [client EXCEPT ![c] = Idle]
  BY DEF Stop, RunsStay
<1>2. client' = [d \in Client |-> IF d = c THEN Idle ELSE client[d]]
  BY <1>1 DEF DeploymentInv, LoadedSoFar
<1>3. LoadedSoFar'
  <2>1. \A q \in Run : Complete(q) <=> Complete(q)'
    BY <1>1, RunsStayInv
  <2>2. \A q \in Run : BookOf(q, Loaded)' = BookOf(q, Loaded)
    BY DEF BookOf, Addresses
  <2>3. client'[c].book = NoBook /\ \A d \in Client \ {c} : client'[d] = client[d]
    BY <1>2 DEF Idle
  <2>4. client' = [d \in Client |-> client'[d]]
    BY <1>2
  <2>5. \A d \in Client : \/ client'[d].book = NoBook
                         \/ \E r \in Run : Complete(r)' /\ client'[d].book = BookOf(r, Loaded)
    BY <2>1, <2>3 DEF DeploymentInv, LoadedSoFar
  <2>6. NoBook' = NoBook
    BY DEF NoBook
  <2>7. QED
    BY <2>2, <2>4, <2>5, <2>6 DEF LoadedSoFar
<1>4. SavedSoFar'
  BY <1>1, RunsStayInv DEF DeploymentInv, SavedSoFar, Addresses
<1>5. QED
  BY <1>1, <1>3, <1>4, RunsStayInv DEF DeploymentInv

LEMMA QuietInv ==
    ASSUME DeploymentInv, RunsStay, UNCHANGED <<file, client>>
    PROVE  DeploymentInv'
<1>1. SavedSoFar' /\ LoadedSoFar'
  BY RunsStayInv DEF DeploymentInv, SavedSoFar, LoadedSoFar, Addresses, BookOf
<1>2. QED
  BY <1>1, RunsStayInv DEF DeploymentInv

LEMMA DeploymentInvariant == DeploymentSpec => []DeploymentInv
<1>1. DeploymentInit => DeploymentInv
  <2> SUFFICES ASSUME DeploymentInit
               PROVE  DeploymentInv
    OBVIOUS
  <2>1. at = [r \in Run |-> 0] /\ state = [r \in Run |-> Nothing]
    BY DEF DeploymentInit
  <2>2. pool = [r \in Run |-> <<>>]
    BY DEF DeploymentInit
  <2>3. RunTypes
    <3>1. \A r \in Run : 0 <= Len(Steps(r))
      BY StepsAreTyped
    <3>2. <<>> \in Seq(CallStep)
      OBVIOUS
    <3>3. \A r \in Run : Nothing \in RunState(r)
      BY DEF Nothing, RunState
    <3>4. QED
      BY <2>1, <2>2, <3>1, <3>2, <3>3 DEF RunTypes
  <2>4. DeployedSoFar /\ SentSoFar /\ WaitedSoFar
    BY <2>1 DEF DeployedSoFar, SentSoFar, WaitedSoFar
  <2>5. file = [network \in {} |-> NoBook] /\ client = [c \in Client |-> Idle]
    BY DEF DeploymentInit
  <2>6. SavedSoFar /\ LoadedSoFar
    BY <2>5 DEF SavedSoFar, LoadedSoFar, Idle
  <2>7. QED
    BY <2>3, <2>4, <2>6 DEF DeploymentInv
<1>2. DeploymentInv /\ [DeploymentNext]_deploymentVars => DeploymentInv'
  <2> SUFFICES ASSUME DeploymentInv, [DeploymentNext]_deploymentVars
               PROVE  DeploymentInv'
    OBVIOUS
  <2>1. ASSUME NEW r \in Run, DeployContract(r) \/ SendCall(r) \/ Mine(r) \/ Save(r)
        PROVE  DeploymentInv'
    BY <2>1, DeployContractInv, SendCallInv, MineInv, SaveInv
  <2>2. ASSUME NEW r \in Run, Fail(r)
        PROVE  DeploymentInv'
    BY <2>2, QuietInv DEF Fail, RunsStay
  <2>3. ASSUME NEW c \in Client, (\E network \in Network : Load(c, network)) \/ Stop(c)
        PROVE  DeploymentInv'
    BY <2>3, LoadInv, StopInv
  <2>4. CASE UNCHANGED deploymentVars
    BY <2>4, QuietInv DEF deploymentVars, RunsStay
  <2>5. QED
    BY <2>1, <2>2, <2>3, <2>4 DEF DeploymentNext
<1>3. QED
  BY <1>1, <1>2, PTL DEF DeploymentSpec

\* The book of a run that did its script, and any part of it that clients load, is of
\* that run's perpetual.
LEMMA CompleteIsReady ==
    ASSUME DeploymentInv, NEW r \in Run, Complete(r), NEW entries, Loaded \subseteq entries
    PROVE  Ready(BookOf(r, entries)) /\ BookOf(r, entries)["PerpetualProxy"][1] = r
<1> DEFINE network == NetworkOf[r]
           S == Script(network)
           A == AddressBook(network)
           book == BookOf(r, entries)
<1>1. /\ Loaded \subseteq DOMAIN A
      /\ \A entry \in DOMAIN A : \E i \in 1..Len(S) :
            S[i].do = "deploy" /\ S[i].name = A[entry]
      /\ \A entry \in Loaded \ {"MarginToken"} : A[entry] = entry
      /\ A["MarginToken"] = "MockToken"
  BY BookIsComplete
<1>2. S = Steps(r) /\ at[r] = Len(S)
  BY DEF Steps, Complete
<1>3. Addresses(r) = [entry \in DOMAIN A |-> <<r, A[entry]>>]
  BY DEF Addresses
<1>4. Before(S, Invoke("setAnswer", "Test_ChainlinkAggregator"), Deploy("PerpetualV1"))
  BY ScriptIsComplete
<1>5. Before(S, Invoke("initializeV1", "PerpetualProxy"), Deploy("P1Orders"))
  BY ScriptIsComplete
<1>6. Holds(S, Deploy("P1FundingOracle"))
  BY ScriptIsComplete DEF Loaded
<1>7. network = Dev => Holds(S, Deploy("Test_P1Funder"))
  BY ScriptIsComplete
<1> HIDE DEF S, A, network
<1>8. /\ DOMAIN book = DOMAIN A \cap entries
      /\ \A entry \in DOMAIN book : book[entry] = <<r, A[entry]>>
  BY <1>3 DEF BookOf
<1> HIDE DEF book
<1>9. Loaded \subseteq DOMAIN book
  BY <1>1, <1>8
<1>10. \A entry \in DOMAIN book : book[entry] \in deployed
  <2> SUFFICES ASSUME NEW entry \in DOMAIN book
               PROVE  book[entry] \in deployed
    OBVIOUS
  <2>1. entry \in DOMAIN A /\ book[entry] = <<r, A[entry]>>
    BY <1>8
  <2>2. PICK i \in 1..Len(S) : S[i].do = "deploy" /\ S[i].name = A[entry]
    BY <1>1, <2>1
  <2>3. Steps(r)[i].do = "deploy" => <<r, Steps(r)[i].name>> \in deployed
    BY <1>2 DEF DeploymentInv, DeployedSoFar
  <2>4. QED
    BY <1>2, <2>1, <2>2, <2>3
<1>11. \A x, y : Before(S, x, y) /\ x.do = "call" /\ y.do = "deploy" => Done(r, x)
  BY <1>2 DEF Before, DeploymentInv, WaitedSoFar
<1>12. state[r].answered
  <2>1. PICK x, y : /\ x = Invoke("setAnswer", "Test_ChainlinkAggregator")
                    /\ y = Deploy("PerpetualV1")
    OBVIOUS
  <2>2. x.do = "call" /\ y.do = "deploy" /\ x.method = "setAnswer"
    BY <2>1 DEF Invoke, Deploy
  <2>3. QED
    BY <1>4, <1>11, <2>1, <2>2 DEF Done
<1>13. state[r].initialized = Around(r)
  <2>1. PICK x, y : x = Invoke("initializeV1", "PerpetualProxy") /\ y = Deploy("P1Orders")
    OBVIOUS
  <2>2. x.do = "call" /\ y.do = "deploy" /\ x.method = "initializeV1"
    BY <2>1 DEF Invoke, Deploy
  <2>3. QED
    BY <1>5, <1>11, <2>1, <2>2 DEF Done
<1>14. \A name : Holds(S, Deploy(name)) => <<r, name>> \in deployed
  <2> SUFFICES ASSUME NEW name, Holds(S, Deploy(name))
               PROVE  <<r, name>> \in deployed
    OBVIOUS
  <2>1. PICK i \in 1..Len(S) : S[i] = Deploy(name)
    BY DEF Holds
  <2>2. S[i].do = "deploy" /\ S[i].name = name
    BY <2>1 DEF Deploy
  <2>3. QED
    BY <1>2, <2>2 DEF DeploymentInv, DeployedSoFar
<1>15. Funder(r) \in deployed
  BY <1>6, <1>7, <1>14 DEF Funder, network
<1>16. /\ book["PerpetualProxy"] = <<r, "PerpetualProxy">>
       /\ book["MarginToken"] = Token(r) /\ book["P1ChainlinkOracle"] = Oracle(r)
       /\ book["P1FundingOracle"] = <<r, "P1FundingOracle">>
  BY <1>1, <1>8, <1>9 DEF Loaded, Token, Oracle
<1>17. book["PerpetualProxy"][1] = r
  BY <1>16
<1>18. (IF NetworkOf[r] = Dev THEN <<r, "Test_P1Funder">> ELSE book["P1FundingOracle"])
          = Funder(r)
  BY <1>16 DEF Funder
<1>19. state[r].initialized = <<book["MarginToken"], book["P1ChainlinkOracle"], Funder(r)>>
  BY <1>13, <1>16 DEF Around
<1>20. \A entry \in DOMAIN book : book[entry][1] = r
  BY <1>8
<1>21. QED
  BY <1>9, <1>10, <1>12, <1>15, <1>17, <1>18, <1>19, <1>20 DEF Ready, book

\* Whatever runs and clients do, a book that was saved or loaded names contracts that
\* exist on one chain, the one it is filed under, and a perpetual that is initialized
\* with the token and the price oracle it names, and off Dev with its funder.
THEOREM SavedBooksAreReady == DeploymentSpec => []SavedIsReady
<1>1. DeploymentInv => SavedIsReady
  <2> SUFFICES ASSUME DeploymentInv
               PROVE  SavedIsReady
    OBVIOUS
  <2>1. ASSUME NEW n \in DOMAIN file
        PROVE  Ready(file[n]) /\ NetworkOf[file[n]["PerpetualProxy"][1]] = n
    <3>1. PICK r \in Run : Complete(r) /\ NetworkOf[r] = n /\ file[n] = Addresses(r)
      BY DEF DeploymentInv, SavedSoFar
    <3>2. Loaded \subseteq DOMAIN Addresses(r)
      BY BookIsComplete DEF Addresses
    <3>3. BookOf(r, DOMAIN Addresses(r)) = Addresses(r)
      BY DEF BookOf, Addresses
    <3>4. QED
      BY <3>1, <3>2, <3>3, CompleteIsReady
  <2>2. ASSUME NEW c \in Client, client[c].book # NoBook
        PROVE  Ready(client[c].book)
    BY <2>2, CompleteIsReady DEF DeploymentInv, LoadedSoFar
  <2>3. QED
    BY <2>1, <2>2 DEF SavedIsReady
<1>2. QED
  BY <1>1, DeploymentInvariant, PTL

=============================================================================
