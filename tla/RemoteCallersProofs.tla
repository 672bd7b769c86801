------------------------- MODULE RemoteCallersProofs ------------------------
(***************************************************************************)
(* What stands between remote callers and paid calls, for any tasks, runs, *)
(* calls, keys, children, prices and crashes: the table of A2A tasks       *)
(* forgets in the order the tasks ended, a scoped key stays within its     *)
(* budget, and the journal of a parent budget is worth what its object is. *)
(***************************************************************************)
EXTENDS MCRemote, FiniteSums, SequenceTheorems, TLAPS

-----------------------------------------------------------------------------
(* The A2A tasks.                                                          *)

(* A set of natural numbers has a least one.                               *)
LEMMA LeastNumber ==
  ASSUME NEW X, X \subseteq Nat, X # {}
  PROVE  \E n \in X : \A m \in X : n <= m
<1>1. PICK k \in X : TRUE
  OBVIOUS
<1> DEFINE I == 0 .. k
           D == {0 .. m : m \in {x \in X : x <= k}}
<1>2. D \subseteq SUBSET I /\ D # {}
  OBVIOUS
<1>3. IsFiniteSet(I)
  BY FS_Interval
<1>4. PICK T \in D : \A U \in D : ~(U \subseteq T /\ U # T)
  <2> HIDE DEF D, I
  <2> QED BY <1>2, <1>3, SmallestSubset
<1>5. PICK n \in X : n <= k /\ T = 0 .. n
  BY <1>4
<1>6. ASSUME NEW m \in X PROVE n <= m
  <2> SUFFICES ASSUME m < n PROVE FALSE
    OBVIOUS
  <2>1. 0 .. m \in D
    BY <1>5
  <2>2. 0 .. m \subseteq 0 .. n /\ n \in 0 .. n /\ n \notin 0 .. m
    OBVIOUS
  <2> QED BY <1>4, <1>5, <2>1, <2>2
<1> QED BY <1>6

(* A property that fails for some sequence, and not for the empty one,     *)
(* fails for one that is well until its last element is appended.          *)
LEMMA ShortestSequence ==
  ASSUME NEW S, NEW X, X \subseteq Seq(S), X # {}, <<>> \notin X
  PROVE  \E s \in Seq(S), e \in S : s \notin X /\ Append(s, e) \in X
<1> DEFINE L == {Len(s) : s \in X}
<1>1. L \subseteq Nat /\ L # {}
  <2>1. \A s \in X : Len(s) \in Nat
    BY LenProperties
  <2> QED BY <2>1
<1>2. PICK n \in L : \A m \in L : n <= m
  <2> HIDE DEF L
  <2> QED BY <1>1, LeastNumber
<1>3. PICK u \in X : Len(u) = n
  BY <1>2
<1>4. PICK s \in Seq(S), e \in S : u = Append(s, e)
  BY SequenceEmptyOrAppend
<1>5. Len(u) = Len(s) + 1 /\ Len(s) \in Nat
  BY <1>4, AppendProperties, LenProperties
<1>6. s \notin X
  <2> SUFFICES ASSUME s \in X PROVE FALSE
    OBVIOUS
  <2>1. n <= Len(s)
    BY <1>2
  <2> QED BY <2>1, <1>3, <1>5
<1> QED BY <1>4, <1>6

IsKept(k, s, P) ==
  k = [n \in 0 .. Len(s) |->
         IF n = 0 THEN <<>>
         ELSE IF s[n] \in P THEN Append(k[n - 1], s[n]) ELSE k[n - 1]]

(* The kept elements of a sequence, by the table of its prefixes.          *)
LEMMA OnlyIsChosen ==
  ASSUME NEW s, NEW P
  PROVE  Only(s, P) = (CHOOSE k : IsKept(k, s, P))[Len(s)]
BY DEF Only, IsKept

(* The recursion has a solution.                                           *)
LEMMA KeptExists ==
  ASSUME NEW S, NEW s \in Seq(S), NEW P
  PROVE  \E k : IsKept(k, s, P)
<1> DEFINE Step(k, n) == IF n = 0 THEN <<>>
                         ELSE IF s[n] \in P THEN Append(k[n - 1], s[n]) ELSE k[n - 1]
           Has(m) == \E k : k = [n \in 0 .. m |-> Step(k, n)]
           X == {m \in 0 .. Len(s) : ~Has(m)}
<1>l. Len(s) \in Nat
  BY LenProperties
<1>1. SUFFICES ASSUME X # {} PROVE FALSE
  <2>1. Has(Len(s))
    <3> HIDE DEF Has
    <3> QED BY <1>1, <1>l
  <2> QED BY <2>1 DEF IsKept
<1>2. PICK m \in X : \A j \in X : m <= j
  <2>1. X \subseteq Nat
    BY <1>l
  <2> HIDE DEF X
  <2> QED BY <1>1, <2>1, LeastNumber
<1>3. m \in Nat /\ m <= Len(s)
  BY <1>l
<1>4. CASE m = 0
  <2>1. [n \in 0 .. 0 |-> <<>>] = [n \in 0 .. 0 |-> Step([j \in 0 .. 0 |-> <<>>], n)]
    OBVIOUS
  <2> QED BY <1>4, <2>1
<1>5. CASE m # 0
  <2>1. Has(m - 1)
    <3>1. m - 1 \in 0 .. Len(s) /\ ~(m <= m - 1)
      BY <1>3, <1>5, <1>l
    <3> HIDE DEF Has
    <3> QED BY <1>2, <3>1
  <2>2. PICK k : k = [n \in 0 .. m - 1 |-> Step(k, n)]
    BY <2>1
  <2> DEFINE h == [n \in 0 .. m |-> Step(k, n)]
  <2>3. ASSUME NEW n \in 0 .. m PROVE Step(k, n) = Step(h, n)
    <3>1. CASE n = 0
      BY <3>1
    <3>2. CASE n # 0
      <4>1. n - 1 \in 0 .. m - 1 /\ n - 1 \in 0 .. m
        BY <1>3, <3>2
      <4>2. k[n - 1] = Step(k, n - 1) /\ h[n - 1] = Step(k, n - 1)
        BY <2>2, <4>1
      <4> QED BY <4>2
    <3> QED BY <3>1, <3>2
  <2>4. h = [n \in 0 .. m |-> Step(h, n)]
    BY <2>3
  <2> HIDE DEF h
  <2> QED BY <2>4
<1> QED BY <1>4, <1>5

(* What is kept of a prefix depends on the prefix only.                    *)
LEMMA KeptOfPrefix ==
  ASSUME NEW S, NEW s \in Seq(S), NEW u \in Seq(S), NEW P, NEW k, NEW h,
         IsKept(k, s, P), IsKept(h, u, P), Len(s) <= Len(u),
         \A i \in 1 .. Len(s) : s[i] = u[i]
  PROVE  k[Len(s)] = h[Len(s)]
<1> DEFINE X == {n \in 0 .. Len(s) : k[n] # h[n]}
<1>l. Len(s) \in Nat /\ Len(u) \in Nat
  BY LenProperties
<1>1. SUFFICES ASSUME X # {} PROVE FALSE
  BY <1>l
<1>2. PICK n \in X : \A j \in X : n <= j
  <2>1. X \subseteq Nat
    BY <1>l
  <2> HIDE DEF X
  <2> QED BY <1>1, <2>1, LeastNumber
<1>3. CASE n = 0
  BY <1>3, <1>l DEF IsKept
<1>4. CASE n # 0
  <2>1. n - 1 \in 0 .. Len(s) /\ n - 1 \notin X /\ n \in 1 .. Len(s) /\ n \in 0 .. Len(u)
    BY <1>2, <1>4, <1>l
  <2>2. k[n - 1] = h[n - 1] /\ s[n] = u[n]
    BY <2>1
  <2>3. k[n] = IF s[n] \in P THEN Append(k[n - 1], s[n]) ELSE k[n - 1]
    BY <1>4 DEF IsKept
  <2>4. h[n] = IF u[n] \in P THEN Append(h[n - 1], u[n]) ELSE h[n - 1]
    BY <1>4, <2>1 DEF IsKept
  <2> QED BY <2>2, <2>3, <2>4
<1> QED BY <1>3, <1>4

(* Only goes through a sequence from its first element to its last.        *)
LEMMA OnlyOfNone == ASSUME NEW P PROVE Only(<<>>, P) = <<>>
<1>1. \E k : IsKept(k, <<>>, P)
  BY KeptExists, EmptySeq
<1>2. IsKept(CHOOSE k : IsKept(k, <<>>, P), <<>>, P)
  BY <1>1
<1> QED BY <1>2, OnlyIsChosen DEF IsKept

(* An appended element is kept if it is one of those to keep.              *)
LEMMA OnlyOfAppend ==
  ASSUME NEW S, NEW s \in Seq(S), NEW e \in S, NEW P
  PROVE  Only(Append(s, e), P) = IF e \in P THEN Append(Only(s, P), e) ELSE Only(s, P)
<1> DEFINE u == Append(s, e)
           k == CHOOSE k : IsKept(k, s, P)
           h == CHOOSE h : IsKept(h, u, P)
<1>1. /\ u \in Seq(S) /\ Len(u) = Len(s) + 1 /\ Len(s) \in Nat
      /\ \A i \in 1 .. Len(s) : u[i] = s[i]
      /\ u[Len(s) + 1] = e
  BY AppendProperties, LenProperties
<1> HIDE DEF u
<1>2. IsKept(k, s, P) /\ IsKept(h, u, P)
  BY <1>1, KeptExists
<1>3. k[Len(s)] = h[Len(s)]
  <2> HIDE DEF k, h
  <2> QED BY <1>1, <1>2, KeptOfPrefix
<1>4. h[Len(u)] = IF e \in P THEN Append(h[Len(s)], e) ELSE h[Len(s)]
  <2> HIDE DEF k, h
  <2>1. Len(u) \in 0 .. Len(u) /\ Len(u) # 0 /\ Len(u) - 1 = Len(s) /\ u[Len(u)] = e
    BY <1>1
  <2> QED BY <1>2, <2>1 DEF IsKept
<1>5. Only(s, P) = k[Len(s)] /\ Only(u, P) = h[Len(u)]
  BY OnlyIsChosen
<1> QED BY <1>3, <1>4, <1>5 DEF u

(* The elements of a sequence with one more.                               *)
LEMMA SetOfAppend ==
  ASSUME NEW S, NEW s \in Seq(S), NEW e \in S
  PROVE  ToSet(Append(s, e)) = ToSet(s) \cup {e}
<1>1. /\ Append(s, e) \in Seq(S) /\ Len(Append(s, e)) = Len(s) + 1 /\ Len(s) \in Nat
      /\ \A i \in 1 .. Len(s) : Append(s, e)[i] = s[i]
      /\ Append(s, e)[Len(s) + 1] = e
      /\ DOMAIN Append(s, e) = 1 .. Len(s) + 1 /\ DOMAIN s = 1 .. Len(s)
  BY AppendProperties, LenProperties
<1>2. 1 .. Len(s) + 1 = 1 .. Len(s) \cup {Len(s) + 1}
  BY <1>1
<1> QED BY <1>1, <1>2 DEF ToSet

(* A sequence without repetitions keeps none if the new element is new.    *)
LEMMA InjectiveAppend ==
  ASSUME NEW S, NEW s \in Seq(S), NEW e \in S
  PROVE  IsInjective(Append(s, e)) <=> IsInjective(s) /\ e \notin ToSet(s)
<1>1. /\ Len(s) \in Nat
      /\ \A i \in 1 .. Len(s) : Append(s, e)[i] = s[i]
      /\ Append(s, e)[Len(s) + 1] = e
      /\ DOMAIN Append(s, e) = 1 .. Len(s) + 1 /\ DOMAIN s = 1 .. Len(s)
  <2>1. Append(s, e) \in Seq(S) /\ Len(Append(s, e)) = Len(s) + 1
    BY AppendProperties
  <2> QED BY <2>1, AppendProperties, LenProperties
<1> DEFINE n == Len(s)
           u == Append(s, e)
<1>2. ASSUME IsInjective(u) PROVE IsInjective(s) /\ e \notin ToSet(s)
  <2> HIDE DEF u, n
  <2>1. ASSUME NEW a \in 1 .. n, NEW b \in 1 .. n, s[a] = s[b] PROVE a = b
    BY <1>1, <1>2, <2>1 DEF IsInjective, u, n
  <2>2. ASSUME NEW a \in 1 .. n, s[a] = e PROVE FALSE
    <3>1. a \in 1 .. n + 1 /\ n + 1 \in 1 .. n + 1 /\ a # n + 1 /\ u[a] = u[n + 1]
      BY <1>1, <2>2 DEF u, n
    <3> QED BY <1>1, <1>2, <3>1 DEF IsInjective, u, n
  <2> QED BY <1>1, <2>1, <2>2 DEF IsInjective, ToSet, n
<1>3. ASSUME IsInjective(s), e \notin ToSet(s) PROVE IsInjective(u)
  <2> SUFFICES ASSUME NEW a \in 1 .. n + 1, NEW b \in 1 .. n + 1, u[a] = u[b] PROVE a = b
    BY <1>1 DEF IsInjective
  <2>1. \A i \in 1 .. n : u[i] = s[i] /\ u[i] # e
    BY <1>1, <1>3 DEF ToSet
  <2> HIDE DEF u
  <2>2. CASE a \in 1 .. n /\ b \in 1 .. n
    BY <1>1, <1>3, <2>1, <2>2 DEF IsInjective
  <2>3. CASE a = n + 1 \/ b = n + 1
    BY <1>1, <2>1, <2>3 DEF u
  <2> QED BY <1>1, <2>2, <2>3
<1> QED BY <1>2, <1>3

(* What Only keeps: the members of P, each as often as it was there.       *)
LEMMA OnlyKeepsMembers ==
  ASSUME NEW S, NEW s \in Seq(S), NEW P
  PROVE  /\ Only(s, P) \in Seq(S)
         /\ ToSet(Only(s, P)) = ToSet(s) \cap P
<1> DEFINE X == {u \in Seq(S) : ~(Only(u, P) \in Seq(S) /\ ToSet(Only(u, P)) = ToSet(u) \cap P)}
<1>1. SUFFICES ASSUME X # {} PROVE FALSE
  OBVIOUS
<1>2. <<>> \notin X
  <2>1. <<>> \in Seq(S) /\ ToSet(<<>>) = {}
    BY EmptySeq DEF ToSet
  <2> QED BY <2>1, OnlyOfNone
<1>3. PICK u \in Seq(S), e \in S : u \notin X /\ Append(u, e) \in X
  <2>1. X \subseteq Seq(S)
    OBVIOUS
  <2> HIDE DEF X
  <2> QED BY <1>1, <1>2, <2>1, ShortestSequence
<1>4. Only(u, P) \in Seq(S) /\ ToSet(Only(u, P)) = ToSet(u) \cap P
  BY <1>3
<1>5. Append(u, e) \in Seq(S)
  BY AppendProperties
<1>6. ToSet(Append(u, e)) = ToSet(u) \cup {e}
  BY SetOfAppend
<1>7. CASE e \in P
  <2>1. Only(Append(u, e), P) = Append(Only(u, P), e)
    BY <1>7, OnlyOfAppend
  <2>2. Append(Only(u, P), e) \in Seq(S) /\ ToSet(Append(Only(u, P), e)) = ToSet(Only(u, P)) \cup {e}
    BY <1>4, AppendProperties, SetOfAppend
  <2> QED BY <1>3, <1>4, <1>6, <1>7, <2>1, <2>2
<1>8. CASE e \notin P
  <2>1. Only(Append(u, e), P) = Only(u, P)
    BY <1>8, OnlyOfAppend
  <2> QED BY <1>3, <1>4, <1>6, <1>8, <2>1
<1> QED BY <1>7, <1>8

(* A sequence without duplicates stays one.                                *)
LEMMA OnlyKeepsInjective ==
  ASSUME NEW S, NEW s \in Seq(S), NEW P, IsInjective(s)
  PROVE  IsInjective(Only(s, P))
<1> DEFINE X == {u \in Seq(S) : IsInjective(u) /\ ~IsInjective(Only(u, P))}
<1>1. SUFFICES ASSUME X # {} PROVE FALSE
  OBVIOUS
<1>2. <<>> \notin X
  BY OnlyOfNone
<1>3. PICK u \in Seq(S), e \in S : u \notin X /\ Append(u, e) \in X
  <2>1. X \subseteq Seq(S)
    OBVIOUS
  <2> HIDE DEF X
  <2> QED BY <1>1, <1>2, <2>1, ShortestSequence
<1>4. IsInjective(u) /\ e \notin ToSet(u)
  BY <1>3, InjectiveAppend
<1>5. IsInjective(Only(u, P)) /\ Only(u, P) \in Seq(S) /\ ToSet(Only(u, P)) = ToSet(u) \cap P
  BY <1>3, <1>4, OnlyKeepsMembers
<1>6. Only(Append(u, e), P) \in {Append(Only(u, P), e), Only(u, P)}
  BY OnlyOfAppend
<1>7. IsInjective(Append(Only(u, P), e))
  BY <1>4, <1>5, InjectiveAppend
<1> QED BY <1>3, <1>5, <1>6, <1>7

(* Keeping members of P and then of Q keeps those of both.                 *)
LEMMA OnlyTwice ==
  ASSUME NEW S, NEW s \in Seq(S), NEW P, NEW Q
  PROVE  Only(Only(s, P), Q) = Only(s, P \cap Q)
<1> DEFINE X == {u \in Seq(S) : Only(Only(u, P), Q) # Only(u, P \cap Q)}
<1>1. SUFFICES ASSUME X # {} PROVE FALSE
  OBVIOUS
<1>2. <<>> \notin X
  BY OnlyOfNone
<1>3. PICK u \in Seq(S), e \in S : u \notin X /\ Append(u, e) \in X
  <2>1. X \subseteq Seq(S)
    OBVIOUS
  <2> HIDE DEF X
  <2> QED BY <1>1, <1>2, <2>1, ShortestSequence
<1>4. Only(Only(u, P), Q) = Only(u, P \cap Q) /\ Only(u, P) \in Seq(S)
  BY <1>3, OnlyKeepsMembers
<1> DEFINE R == P \cap Q
           o == Only(u, P)
<1>5. e \in R <=> e \in P /\ e \in Q
  OBVIOUS
<1>6. Only(o, Q) = Only(u, R) /\ o \in Seq(S) /\ Only(Append(u, e), R) # Only(Only(Append(u, e), P), Q)
  BY <1>3, <1>4
<1> HIDE DEF R
<1>7. Only(Append(u, e), P) = IF e \in P THEN Append(o, e) ELSE o
  BY OnlyOfAppend
<1> HIDE DEF o
<1>8. Only(Append(u, e), R) = IF e \in R THEN Append(Only(u, R), e) ELSE Only(u, R)
  BY OnlyOfAppend
<1>9. Only(Append(o, e), Q) = IF e \in Q THEN Append(Only(o, Q), e) ELSE Only(o, Q)
  BY <1>6, OnlyOfAppend
<1> QED BY <1>5, <1>6, <1>7, <1>8, <1>9

(* What is kept depends on which members are in P only.                    *)
LEMMA OnlyAgrees ==
  ASSUME NEW S, NEW s \in Seq(S), NEW P, NEW Q, ToSet(s) \cap P = ToSet(s) \cap Q
  PROVE  Only(s, P) = Only(s, Q)
<1> DEFINE X == {u \in Seq(S) : ToSet(u) \cap P = ToSet(u) \cap Q /\ Only(u, P) # Only(u, Q)}
<1>1. SUFFICES ASSUME X # {} PROVE FALSE
  OBVIOUS
<1>2. <<>> \notin X
  BY OnlyOfNone
<1>3. PICK u \in Seq(S), e \in S : u \notin X /\ Append(u, e) \in X
  <2>1. X \subseteq Seq(S)
    OBVIOUS
  <2> HIDE DEF X
  <2> QED BY <1>1, <1>2, <2>1, ShortestSequence
<1>4. ToSet(Append(u, e)) = ToSet(u) \cup {e}
  BY SetOfAppend
<1>5. (e \in P <=> e \in Q) /\ Only(u, P) = Only(u, Q)
  BY <1>3, <1>4
<1>6. /\ Only(Append(u, e), P) = IF e \in P THEN Append(Only(u, P), e) ELSE Only(u, P)
      /\ Only(Append(u, e), Q) = IF e \in Q THEN Append(Only(u, Q), e) ELSE Only(u, Q)
  BY OnlyOfAppend
<1> QED BY <1>3, <1>5, <1>6

(* A sequence of elements to keep is kept whole.                           *)
LEMMA OnlyOfAll ==
  ASSUME NEW S, NEW s \in Seq(S), NEW P, ToSet(s) \subseteq P
  PROVE  Only(s, P) = s
<1> DEFINE X == {u \in Seq(S) : ToSet(u) \subseteq P /\ Only(u, P) # u}
<1>1. SUFFICES ASSUME X # {} PROVE FALSE
  OBVIOUS
<1>2. <<>> \notin X
  BY OnlyOfNone
<1>3. PICK u \in Seq(S), e \in S : u \notin X /\ Append(u, e) \in X
  <2>1. X \subseteq Seq(S)
    OBVIOUS
  <2> HIDE DEF X
  <2> QED BY <1>1, <1>2, <2>1, ShortestSequence
<1>4. ToSet(Append(u, e)) = ToSet(u) \cup {e}
  BY SetOfAppend
<1>5. e \in P /\ Only(u, P) = u
  BY <1>3, <1>4
<1>6. Only(Append(u, e), P) = Append(Only(u, P), e)
  BY <1>5, OnlyOfAppend
<1> QED BY <1>3, <1>5, <1>6

(* A sequence without its first element, which is not elsewhere in it.     *)
LEMMA OnlyWithoutFirst ==
  ASSUME NEW S, NEW s \in Seq(S), s # <<>>, IsInjective(s)
  PROVE  Only(s, S \ {s[1]}) = SubSeq(s, 2, Len(s))
<1> DEFINE X == {u \in Seq(S) : u # <<>> /\ IsInjective(u) /\ Only(u, S \ {u[1]}) # SubSeq(u, 2, Len(u))}
<1>1. SUFFICES ASSUME X # {} PROVE FALSE
  OBVIOUS
<1>2. <<>> \notin X
  OBVIOUS
<1>3. PICK u \in Seq(S), e \in S : u \notin X /\ Append(u, e) \in X
  <2>1. X \subseteq Seq(S)
    OBVIOUS
  <2> HIDE DEF X
  <2> QED BY <1>1, <1>2, <2>1, ShortestSequence
<1>4. /\ IsInjective(u) /\ e \notin ToSet(u)
      /\ IsInjective(Append(u, e))
  BY <1>3, InjectiveAppend
<1> DEFINE n == Len(u)
           v == Append(u, e)
<1>5. /\ n \in Nat /\ v \in Seq(S) /\ Len(v) = n + 1
      /\ \A i \in 1 .. n : v[i] = u[i] /\ v[n + 1] = e
      /\ v[n + 1] = e
  BY AppendProperties, LenProperties
<1>6. CASE u = <<>>
  <2>1. n = 0 /\ v[1] = e
    BY <1>5, <1>6, EmptySeq
  <2>2. Only(v, S \ {e}) = <<>>
    <3> DEFINE Q == S \ {e}
    <3>1. e \notin Q
      OBVIOUS
    <3> HIDE DEF Q
    <3>2. Only(v, Q) = Only(u, Q)
      BY <3>1, OnlyOfAppend
    <3> QED BY <1>6, <3>2, OnlyOfNone DEF Q
  <2>3. SubSeq(v, 2, 1) = <<>>
    BY SubSeqEmpty
  <2>4. Only(v, S \ {v[1]}) # SubSeq(v, 2, Len(v))
    BY <1>3
  <2> HIDE DEF v, n
  <2> QED BY <1>5, <2>1, <2>2, <2>3, <2>4
<1>7. CASE u # <<>>
  <2>1. n >= 1 /\ v[1] = u[1] /\ u[1] \in ToSet(u)
    BY <1>5, <1>7, EmptySeq, LenProperties DEF ToSet
  <2>2. Only(u, S \ {u[1]}) = SubSeq(u, 2, n)
    BY <1>3, <1>4, <1>7
  <2>3. e \in S \ {u[1]}
    BY <1>4, <2>1
  <2>4. Only(v, S \ {u[1]}) = Append(SubSeq(u, 2, n), e)
    <3> DEFINE Q == S \ {u[1]}
    <3>1. e \in Q
      BY <2>3
    <3> HIDE DEF Q
    <3>2. Only(v, Q) = Append(Only(u, Q), e)
      BY <3>1, OnlyOfAppend
    <3> QED BY <2>2, <3>2 DEF Q
  <2>5. SubSeq(v, 2, n + 1) = Append(SubSeq(u, 2, n), e)
    <3>1. /\ SubSeq(u, 2, n) \in Seq(S) /\ Len(SubSeq(u, 2, n)) = n - 1
          /\ \A i \in 1 .. n - 1 : SubSeq(u, 2, n)[i] = u[i + 1]
      <4>1. \A i \in 2 .. n : u[i] \in S
        BY ElementOfSeq
      <4>2. n \in Int /\ n \in Nat /\ n >= 1
        BY <1>5, <2>1
      <4> HIDE DEF n
      <4>3. /\ SubSeq(u, 2, n) \in Seq(S) /\ Len(SubSeq(u, 2, n)) = (IF 2 <= n THEN n - 2 + 1 ELSE 0)
            /\ \A i \in 1 .. n - 2 + 1 : SubSeq(u, 2, n)[i] = u[2 + i - 1]
        BY <4>1, <4>2, SubSeqProperties
      <4>4. n - 2 + 1 = n - 1 /\ \A i \in 1 .. n - 1 : 2 + i - 1 = i + 1
        BY <4>2
      <4> QED BY <4>2, <4>3, <4>4
    <3>2. /\ SubSeq(v, 2, n + 1) \in Seq(S) /\ Len(SubSeq(v, 2, n + 1)) = n
          /\ \A i \in 1 .. n : SubSeq(v, 2, n + 1)[i] = v[i + 1]
      <4>1. \A i \in 2 .. n + 1 : v[i] \in S
        BY <1>5, ElementOfSeq
      <4> HIDE DEF v
      <4> QED BY <1>5, <2>1, <4>1, SubSeqProperties
    <3>3. /\ Append(SubSeq(u, 2, n), e) \in Seq(S) /\ Len(Append(SubSeq(u, 2, n), e)) = n
          /\ \A i \in 1 .. n - 1 : Append(SubSeq(u, 2, n), e)[i] = u[i + 1]
          /\ Append(SubSeq(u, 2, n), e)[n] = e
      BY <1>5, <3>1, AppendProperties
    <3> HIDE DEF v, n
    <3>4. ASSUME NEW i \in 1 .. n
          PROVE  SubSeq(v, 2, n + 1)[i] = Append(SubSeq(u, 2, n), e)[i]
      <4>1. CASE i = n
        BY <1>5, <3>2, <3>3, <4>1
      <4>2. CASE i # n
        <5>1. i \in 1 .. n - 1 /\ i + 1 \in 1 .. n
          BY <1>5, <4>2
        <5> QED BY <1>5, <3>2, <3>3, <5>1
      <4> QED BY <4>1, <4>2
    <3> QED BY <3>2, <3>3, <3>4, SeqEqual
  <2>6. Only(v, S \ {v[1]}) # SubSeq(v, 2, Len(v))
    BY <1>3
  <2> HIDE DEF v, n
  <2> QED BY <1>5, <2>1, <2>4, <2>5, <2>6
<1> QED BY <1>6, <1>7

(* s without t, and with t at its end: m. E are other elements of it.      *)
Moved(S, s, t, E, D, O, o, m) ==
  /\ s \in Seq(S) /\ IsInjective(s) /\ t \in S /\ t \in ToSet(s)
  /\ O = S \ {t} /\ E \subseteq O /\ D = E \cup {t}
  /\ o = Only(s, O) /\ m = Append(o, t)

(* A task that is moved behind the others is still there, and so are they, *)
(* in their order.                                                         *)
LEMMA MovedTable ==
  ASSUME NEW S, NEW s, NEW t, NEW E, NEW D, NEW O, NEW o, NEW m, Moved(S, s, t, E, D, O, o, m)
  PROVE  /\ m \in Seq(S) /\ IsInjective(m) /\ ToSet(m) = ToSet(s)
         /\ Only(m, D) = Append(Only(s, E), t)
<1>h. /\ s \in Seq(S) /\ IsInjective(s) /\ t \in S /\ t \in ToSet(s)
      /\ O = S \ {t} /\ E \subseteq O /\ D = E \cup {t}
      /\ o = Only(s, O) /\ m = Append(o, t)
  BY DEF Moved
<1>1. O \cap D = E /\ t \in D /\ t \notin O
  BY ONLY <1>h
<1>2. ToSet(s) \subseteq S
  BY <1>h, LenProperties DEF ToSet
<1>3. (ToSet(s) \cap O) \cup {t} = ToSet(s)
  BY ONLY <1>h, <1>2
<1>4. o \in Seq(S) /\ ToSet(o) = ToSet(s) \cap O
  BY ONLY <1>h, OnlyKeepsMembers
<1>5. IsInjective(o)
  BY ONLY <1>h, OnlyKeepsInjective
<1>6. m \in Seq(S)
  BY ONLY <1>h, <1>4, AppendProperties
<1>7. IsInjective(m)
  BY ONLY <1>h, <1>1, <1>4, <1>5, InjectiveAppend
<1>8. ToSet(m) = ToSet(s)
  <2>1. ToSet(m) = ToSet(o) \cup {t}
    BY ONLY <1>h, <1>4, SetOfAppend
  <2> QED BY ONLY <1>3, <1>4, <2>1
<1>9. Only(m, D) = Append(Only(o, D), t)
  <2>1. t \in S /\ t \in D /\ m = Append(o, t)
    BY ONLY <1>h, <1>1
  <2> QED BY ONLY <1>4, <2>1, OnlyOfAppend
<1>10. Only(o, D) = Only(s, E)
  BY ONLY <1>h, <1>1, OnlyTwice
<1> QED BY ONLY <1>6, <1>7, <1>8, <1>9, <1>10

(* u is m without what is in out, of which D is a part.                    *)
Taken(S, m, D, out, R, F, u) ==
  /\ m \in Seq(S) /\ IsInjective(m) /\ D \subseteq S
  /\ R = S \ out /\ F = D \ out /\ u = Only(m, R)

(* A table from which some tasks are taken.                                *)
LEMMA EvictedTable ==
  ASSUME NEW S, NEW m, NEW D, NEW out, NEW R, NEW F, NEW u, Taken(S, m, D, out, R, F, u)
  PROVE  /\ u \in Seq(S) /\ IsInjective(u) /\ ToSet(u) = ToSet(m) \ out
         /\ Only(u, F) = Only(Only(m, D), R)
<1>h. /\ m \in Seq(S) /\ IsInjective(m) /\ D \subseteq S
      /\ R = S \ out /\ F = D \ out /\ u = Only(m, R)
  BY DEF Taken
<1>1. R \cap F = D \cap R
  BY ONLY <1>h
<1>2. ToSet(m) \subseteq S
  BY <1>h, LenProperties DEF ToSet
<1>3. ToSet(m) \cap R = ToSet(m) \ out
  BY ONLY <1>h, <1>2
<1>4. u \in Seq(S) /\ ToSet(u) = ToSet(m) \cap R
  BY ONLY <1>h, OnlyKeepsMembers
<1>5. IsInjective(u)
  BY ONLY <1>h, OnlyKeepsInjective
<1>6. Only(u, F) = Only(m, R \cap F) /\ Only(Only(m, D), R) = Only(m, D \cap R)
  BY ONLY <1>h, OnlyTwice
<1> QED BY ONLY <1>1, <1>3, <1>4, <1>5, <1>6

(* The front of a sequence.                                                *)
LEMMA SetOfFirst ==
  ASSUME NEW S, NEW s \in Seq(S), NEW n, n = 1, s # <<>>
  PROVE  ToSet(SubSeq(s, 1, n)) = {s[1]} /\ s[1] \in ToSet(s)
<1>1. Len(s) \in Nat \ {0} /\ DOMAIN s = 1 .. Len(s)
  BY EmptySeq, LenProperties
<1>2. \A i \in 1 .. 1 : s[i] \in S
  BY <1>1, ElementOfSeq
<1>3. /\ SubSeq(s, 1, 1) \in Seq(S) /\ Len(SubSeq(s, 1, 1)) = (IF 1 <= 1 THEN 1 - 1 + 1 ELSE 0)
      /\ \A i \in 1 .. 1 - 1 + 1 : SubSeq(s, 1, 1)[i] = s[1 + i - 1]
  BY <1>2, SubSeqProperties
<1>4. DOMAIN SubSeq(s, 1, 1) = 1 .. 1 /\ SubSeq(s, 1, 1)[1] = s[1]
  BY <1>3, LenProperties
<1>5. ToSet(SubSeq(s, 1, 1)) = {s[1]}
  BY <1>4 DEF ToSet
<1> QED BY <1>1, <1>5 DEF ToSet

(* The table s when its task t ends and goes behind the others: E are the  *)
(* tasks that had ended, M those that have now, out the first of them when *)
(* there are more than max, and u what is left of the table.               *)
EndedIn(S, s, t, E, max, O, D, m, M, out, R, F, u) ==
  /\ s \in Seq(S) /\ IsInjective(s) /\ t \in S /\ t \in ToSet(s)
  /\ E \subseteq ToSet(s) /\ t \notin E
  /\ max \in Nat \ {0} /\ Len(Only(s, E)) <= max
  /\ O = S \ {t} /\ D = E \cup {t}
  /\ m = Append(Only(s, O), t) /\ M = Only(m, D)
  /\ out = IF Len(M) > max THEN ToSet(SubSeq(M, 1, Len(M) - max)) ELSE {}
  /\ R = S \ out /\ F = D \ out /\ u = Only(m, R)

(* The last ended tasks of the table stay the last, in their order.        *)
LEMMA EndedTable ==
  ASSUME NEW S, NEW s, NEW t, NEW E, NEW max, NEW O, NEW D, NEW m, NEW M, NEW out, NEW R, NEW F,
         NEW u, EndedIn(S, s, t, E, max, O, D, m, M, out, R, F, u)
  PROVE  /\ out \subseteq D
         /\ u \in Seq(S) /\ IsInjective(u) /\ ToSet(u) = ToSet(s) \ out
         /\ M = Append(Only(s, E), t) /\ Len(M) = Len(Only(s, E)) + 1 /\ Len(Only(s, E)) \in Nat
         /\ Len(M) <= max => Only(u, F) = M
         /\ Len(M) > max => /\ Len(Only(s, E)) = max /\ Len(Only(u, F)) = max
                            /\ \A i \in 1 .. max : Only(u, F)[i] = M[i + 1]
<1> DEFINE last == Only(s, E)
           K == Only(u, F)
<1>a. /\ s \in Seq(S) /\ IsInjective(s) /\ t \in S /\ t \in ToSet(s)
      /\ E \subseteq ToSet(s) /\ t \notin E
      /\ O = S \ {t} /\ D = E \cup {t}
      /\ m = Append(Only(s, O), t) /\ M = Only(m, D)
  BY DEF EndedIn
<1>b. /\ max \in Nat \ {0} /\ Len(last) <= max
      /\ out = IF Len(M) > max THEN ToSet(SubSeq(M, 1, Len(M) - max)) ELSE {}
      /\ R = S \ out /\ F = D \ out /\ u = Only(m, R)
  BY DEF EndedIn
<1>1. ToSet(s) \subseteq S
  BY <1>a, LenProperties DEF ToSet
<1>2. E \subseteq O /\ D \subseteq S
  BY ONLY <1>a, <1>1
<1>3. /\ m \in Seq(S) /\ IsInjective(m) /\ ToSet(m) = ToSet(s)
      /\ M = Append(last, t)
  <2>1. Moved(S, s, t, E, D, O, Only(s, O), m)
    BY ONLY <1>a, <1>2 DEF Moved
  <2>2. /\ m \in Seq(S) /\ IsInjective(m) /\ ToSet(m) = ToSet(s)
        /\ Only(m, D) = Append(Only(s, E), t)
    BY ONLY <2>1, MovedTable
  <2> QED BY ONLY <1>a, <2>2 DEF last
<1>4. last \in Seq(S) /\ ToSet(last) = E /\ IsInjective(last)
  <2>1. ToSet(s) \cap E = E
    BY ONLY <1>a
  <2>2. last \in Seq(S) /\ ToSet(last) = ToSet(s) \cap E
    BY ONLY <1>a, OnlyKeepsMembers DEF last
  <2>3. IsInjective(last)
    BY ONLY <1>a, OnlyKeepsInjective DEF last
  <2> QED BY ONLY <2>1, <2>2, <2>3
<1> HIDE DEF last, K
<1>t. t \in S /\ M = Append(last, t)
  BY ONLY <1>a, <1>3
<1>5. M \in Seq(S) /\ ToSet(M) = D /\ IsInjective(M)
  <2>1. M \in Seq(S)
    BY ONLY <1>t, <1>4, AppendProperties
  <2>2. ToSet(M) = E \cup {t}
    <3>1. ToSet(M) = ToSet(last) \cup {t}
      BY ONLY <1>t, <1>4, SetOfAppend
    <3> QED BY ONLY <1>4, <3>1
  <2>3. t \notin ToSet(last)
    BY ONLY <1>a, <1>4
  <2>4. IsInjective(M)
    BY ONLY <1>t, <1>4, <2>3, InjectiveAppend
  <2> QED BY ONLY <1>a, <2>1, <2>2, <2>4
<1>6. Len(M) = Len(last) + 1 /\ Len(last) \in Nat /\ M # <<>>
  BY ONLY <1>t, <1>4, AppendProperties, LenProperties
<1>7. M[1] \in D
  BY ONLY <1>5, <1>6, SetOfFirst
<1>8. Len(M) > max => Len(last) = max /\ Len(M) = max + 1 /\ Len(M) - max = 1
  BY ONLY <1>b, <1>6
<1>9. ASSUME Len(M) > max PROVE out = {M[1]}
  <2>1. out = ToSet(SubSeq(M, 1, Len(M) - max))
    BY ONLY <1>b, <1>9
  <2>2. ToSet(SubSeq(M, 1, Len(M) - max)) = {M[1]}
    BY ONLY <1>5, <1>6, <1>8, <1>9, SetOfFirst
  <2> QED BY ONLY <2>1, <2>2
<1>10. ASSUME Len(M) <= max PROVE out = {}
  <2>1. ~(Len(M) > max)
    BY ONLY <1>b, <1>6, <1>10
  <2> QED BY ONLY <1>b, <2>1
<1>11. Len(M) <= max \/ Len(M) > max
  BY ONLY <1>b, <1>6
<1>12. out \subseteq D
  BY ONLY <1>7, <1>9, <1>10, <1>11
<1>13. /\ u \in Seq(S) /\ IsInjective(u) /\ ToSet(u) = ToSet(m) \ out
       /\ K = Only(M, R)
  <2>1. Taken(S, m, D, out, R, F, u)
    BY ONLY <1>2, <1>3, <1>b DEF Taken
  <2>2. /\ u \in Seq(S) /\ IsInjective(u) /\ ToSet(u) = ToSet(m) \ out
        /\ Only(u, F) = Only(Only(m, D), R)
    BY ONLY <2>1, EvictedTable
  <2> QED BY ONLY <1>a, <2>2 DEF K
<1>14. ASSUME Len(M) <= max PROVE K = M
  <2>1. R = S /\ ToSet(M) \subseteq S
    BY ONLY <1>2, <1>5, <1>10, <1>14, <1>b
  <2>2. Only(M, S) = M
    BY ONLY <1>5, <2>1, OnlyOfAll
  <2> QED BY ONLY <1>13, <2>1, <2>2
<1>15. ASSUME Len(M) > max PROVE Len(K) = max /\ \A i \in 1 .. max : K[i] = M[i + 1]
  <2>1. K = SubSeq(M, 2, Len(M))
    <3>1. Only(M, S \ {M[1]}) = SubSeq(M, 2, Len(M))
      BY ONLY <1>5, <1>6, OnlyWithoutFirst
    <3>2. R = S \ {M[1]}
      BY ONLY <1>9, <1>15, <1>b
    <3> QED BY ONLY <1>13, <3>1, <3>2
  <2>2. \A i \in 2 .. Len(M) : M[i] \in S
    BY ONLY <1>5, <1>6, ElementOfSeq
  <2>3. Len(M) = max + 1 /\ Len(M) \in Int /\ 2 <= Len(M) /\ max \in Nat
    BY ONLY <1>8, <1>15, <1>b
  <2>4. /\ Len(K) = (IF 2 <= Len(M) THEN Len(M) - 2 + 1 ELSE 0)
        /\ \A i \in 1 .. Len(M) - 2 + 1 : K[i] = M[2 + i - 1]
    BY ONLY <2>1, <2>2, <2>3, SubSeqProperties
  <2>5. Len(M) - 2 + 1 = max /\ \A i \in 1 .. max : 2 + i - 1 = i + 1
    BY ONLY <2>3
  <2> QED BY ONLY <2>3, <2>4, <2>5
<1> QED BY ONLY <1>3, <1>6, <1>8, <1>12, <1>13, <1>14, <1>15 DEF last, K

-----------------------------------------------------------------------------
(* The tasks of the table *)

EndedTasks == {t \in Ids : a2aState[t] \in TerminalStates}
KeptEnded == Only(a2aTable, EndedTasks)

(* The ended tasks of the table are the ones that ended last, in the order *)
(* in which they did; at most MaxTerminal of them.                         *)
EndedInOrder ==
  /\ IsInjective(a2aEnded)
  /\ ToSet(a2aEnded) = {t \in Ids : a2aState[t] \in TerminalStates \cup {"evicted"}}
  /\ Len(KeptEnded) = IF Len(a2aEnded) <= MaxTerminal THEN Len(a2aEnded) ELSE MaxTerminal
  /\ \A i \in 1 .. Len(KeptEnded) :
       KeptEnded[i] = a2aEnded[Len(a2aEnded) - Len(KeptEnded) + i]

(* While a stop waits, the runs nobody has cancelled are those created     *)
(* since.                                                                  *)
LateRuns ==
  a2aAwaited # {} => \A t \in a2aActive : a2aRun[t] = "running" => t \in a2aLate

A2AInv == A2ATypeOK /\ EndedInOrder /\ LateRuns /\ RunsBelongToWorkingTasks

(* What all steps but a creation do to the runs: none is started, and one  *)
(* that is forgotten while it goes on was created while a stop waited.     *)
NoRunStarts ==
  /\ a2aRun' \in [Ids -> {"none", "over"} \cup LiveRuns \cup Outcomes2A]
  /\ a2aActive' \subseteq a2aActive /\ a2aAwaited' \subseteq Ids /\ a2aLate' = a2aLate
  /\ \A u \in Ids : a2aRun'[u] = "running" =>
       a2aRun[u] = "running" /\ (u \in a2aActive => u \in a2aActive' \cup a2aLate)
  /\ LateRuns'

(* Before the first request the table is empty.                            *)
LEMMA A2AInitially == ASSUME A2AAssumption, A2AInit PROVE A2AInv
<1>1. /\ <<>> \in Seq(Ids) /\ Len(<<>>) = 0 /\ ToSet(<<>>) = {} /\ IsInjective(<<>>)
      /\ a2aTable = <<>> /\ a2aEnded = <<>> /\ KeptEnded = <<>>
  BY EmptySeq, OnlyOfNone DEF ToSet, IsInjective, KeptEnded, A2AInit
<1>2. A2ATypeOK
  BY <1>1 DEF A2AInit, A2ATypeOK, ActiveStates, TerminalStates
<1>3. EndedInOrder
  BY <1>1 DEF A2AInit, EndedInOrder, TerminalStates, A2AAssumption
<1> QED BY <1>2, <1>3 DEF A2AInv, A2AInit, LateRuns, RunsBelongToWorkingTasks, LiveRuns

(* Steps that leave the table and what it says of the tasks alone.         *)
LEMMA TableIsStill ==
  ASSUME A2AInv, UNCHANGED tableVars, NoRunStarts
  PROVE  A2AInv'
<1>1. A2ATypeOK' /\ EndedInOrder'
  BY DEF A2AInv, A2ATypeOK, EndedInOrder, KeptEnded, EndedTasks, tableVars, NoRunStarts
<1>2. RunsBelongToWorkingTasks'
  BY DEF A2AInv, RunsBelongToWorkingTasks, tableVars, NoRunStarts
<1> QED BY <1>1, <1>2 DEF A2AInv, NoRunStarts

(* A created task goes behind the others.                                  *)
LEMMA CreateKeepsTable ==
  ASSUME A2AAssumption, A2AInv, NEW t \in Ids, CreateTask(t)
  PROVE  A2AInv'
<1> USE DEF A2AInv
<1>1. /\ a2aState[t] = "absent" /\ a2aTable' = Append(a2aTable, t) /\ a2aEnded' = a2aEnded
      /\ \E x \in ActiveStates : a2aState' = [a2aState EXCEPT ![t] = x]
      /\ \A u \in Ids : u # t => a2aRun'[u] = a2aRun[u]
      /\ a2aRun'[t] = "running" /\ t \in a2aActive' => a2aState'[t] = "working"
      /\ a2aRun' \in [Ids -> {"none", "over"} \cup LiveRuns \cup Outcomes2A]
      /\ a2aActive' \in {a2aActive, a2aActive \cup {t}} /\ a2aAwaited' = a2aAwaited
      /\ a2aLate' \in {a2aLate, a2aLate \cup {t}}
      /\ a2aRun'[t] = "running" => \/ t \in a2aActive' /\ (a2aAwaited # {} => t \in a2aLate')
                                   \/ a2aRun[t] = "running" /\ t \notin a2aActive'
  BY DEF CreateTask, A2ATypeOK, ActiveStates, LiveRuns, RunsBelongToWorkingTasks
<1>2. t \notin ToSet(a2aTable)
  BY <1>1 DEF A2ATypeOK, ActiveStates, TerminalStates
<1>3. /\ a2aTable' \in Seq(Ids) /\ IsInjective(a2aTable')
      /\ ToSet(a2aTable') = ToSet(a2aTable) \cup {t}
  BY <1>1, <1>2, AppendProperties, InjectiveAppend, SetOfAppend DEF A2ATypeOK
<1>4. A2ATypeOK'
  <2>1. a2aState' \in [Ids -> {"absent", "evicted"} \cup ActiveStates \cup TerminalStates]
    BY <1>1 DEF A2ATypeOK, ActiveStates
  <2>2. {u \in Ids : a2aState'[u] \in ActiveStates \cup TerminalStates} =
          {u \in Ids : a2aState[u] \in ActiveStates \cup TerminalStates} \cup {t}
    BY <1>1 DEF A2ATypeOK, ActiveStates
  <2> QED BY <1>1, <1>3, <2>1, <2>2 DEF A2ATypeOK
<1>5. EndedTasks' = EndedTasks /\ t \notin EndedTasks
  BY <1>1 DEF EndedTasks, A2ATypeOK, ActiveStates, TerminalStates
<1>6. KeptEnded' = KeptEnded
  BY <1>1, <1>5, OnlyOfAppend DEF KeptEnded, A2ATypeOK
<1>7. {u \in Ids : a2aState'[u] \in TerminalStates \cup {"evicted"}} =
        {u \in Ids : a2aState[u] \in TerminalStates \cup {"evicted"}}
  BY <1>1 DEF A2ATypeOK, ActiveStates, TerminalStates
<1>8. EndedInOrder'
  BY <1>1, <1>6, <1>7 DEF EndedInOrder
<1>9. RunsBelongToWorkingTasks'
  BY <1>1 DEF RunsBelongToWorkingTasks, A2ATypeOK
<1>10. LateRuns'
  BY <1>1 DEF LateRuns, A2ATypeOK
<1> QED BY <1>4, <1>8, <1>9, <1>10

(* A task that ends goes behind the others, and with it the table may lose *)
(* the one that ended first.                                               *)
LEMMA EndKeepsTable ==
  ASSUME A2AAssumption, A2AInv, NEW t \in Ids, NEW to \in TerminalStates, EndTask(t, to),
         NoRunStarts, a2aRun'[t] = "running" => t \notin a2aActive'
  PROVE  A2AInv'
<1> USE DEF A2AInv
<1> DEFINE E == EndedTasks
           last == KeptEnded
           D == E \cup {t}
           table == MovedToEnd(a2aTable, t)
           M == Only(table, D)
           out == Evicted(table, [a2aState EXCEPT ![t] = to])
           before == Len(a2aEnded)
           others == Ids \ {t}
           rest == Ids \ out
           F == D \ out
<1>1. /\ a2aState[t] \in ActiveStates
      /\ a2aState' = [u \in Ids |-> IF u \in out THEN "evicted" ELSE [a2aState EXCEPT ![t] = to][u]]
      /\ a2aTable' = Only(table, rest)
      /\ a2aEnded' = Append(a2aEnded, t)
  BY DEF EndTask, MayMove, ActiveStates
<1>2. /\ a2aTable \in Seq(Ids) /\ IsInjective(a2aTable)
      /\ E \subseteq ToSet(a2aTable) /\ t \in ToSet(a2aTable) /\ t \notin E
  BY <1>1 DEF A2ATypeOK, EndedTasks, ActiveStates, TerminalStates
<1>3. /\ a2aEnded \in Seq(Ids) /\ before \in Nat /\ Len(a2aEnded') = before + 1
      /\ \A i \in 1 .. before : a2aEnded'[i] = a2aEnded[i]
      /\ a2aEnded'[before + 1] = t
  BY <1>1, AppendProperties, LenProperties DEF A2ATypeOK
<1>4. /\ MaxTerminal \in Nat \ {0}
      /\ Len(last) = IF before <= MaxTerminal THEN before ELSE MaxTerminal
      /\ Len(last) <= MaxTerminal /\ Len(last) <= before
      /\ \A i \in 1 .. Len(last) : last[i] = a2aEnded[before - Len(last) + i]
  <2>1. MaxTerminal \in Nat \ {0}
    BY DEF A2AAssumption
  <2>2. Len(last) = IF before <= MaxTerminal THEN before ELSE MaxTerminal
    BY DEF EndedInOrder
  <2>3. \A i \in 1 .. Len(last) : last[i] = a2aEnded[before - Len(last) + i]
    BY DEF EndedInOrder
  <2> HIDE DEF last, before
  <2>4. Len(last) <= MaxTerminal /\ Len(last) <= before
    BY ONLY <1>3, <2>1, <2>2
  <2> QED BY <2>1, <2>2, <2>3, <2>4
<1>5. out = IF Len(M) > MaxTerminal THEN ToSet(SubSeq(M, 1, Len(M) - MaxTerminal)) ELSE {}
  <2>1. {u \in Ids : [a2aState EXCEPT ![t] = to][u] \in TerminalStates} = D
    BY DEF EndedTasks, A2ATypeOK
  <2> HIDE DEF table, D
  <2> QED BY <2>1 DEF Evicted
<1>6. /\ last = Only(a2aTable, E) /\ table = Append(Only(a2aTable, others), t)
      /\ M = Only(table, D) /\ D = E \cup {t} /\ others = Ids \ {t}
      /\ rest = Ids \ out /\ F = D \ out
  BY DEF KeptEnded, MovedToEnd
<1> DEFINE K == Only(a2aTable', F)
<1>7. /\ out \subseteq D
      /\ a2aTable' \in Seq(Ids) /\ IsInjective(a2aTable') /\ ToSet(a2aTable') = ToSet(a2aTable) \ out
      /\ M = Append(last, t) /\ Len(M) = Len(last) + 1 /\ Len(last) \in Nat
      /\ Len(M) <= MaxTerminal => K = M
      /\ Len(M) > MaxTerminal => /\ Len(last) = MaxTerminal /\ Len(K) = MaxTerminal
                                 /\ \A i \in 1 .. MaxTerminal : K[i] = M[i + 1]
  <2>1. K = Only(a2aTable', F)
    OBVIOUS
  <2>2. Len(last) <= MaxTerminal /\ MaxTerminal \in Nat \ {0} /\ a2aTable' = Only(table, rest)
    BY <1>1, <1>4
  <2> HIDE DEF E, D, last, table, M, out, K, others, rest, F
  <2>3. EndedIn(Ids, a2aTable, t, E, MaxTerminal, others, D, table, M, out, rest, F, a2aTable')
    BY ONLY t \in Ids, <1>2, <1>5, <1>6, <2>2 DEF EndedIn
  <2>4. /\ out \subseteq D
        /\ a2aTable' \in Seq(Ids) /\ IsInjective(a2aTable')
        /\ ToSet(a2aTable') = ToSet(a2aTable) \ out
        /\ M = Append(Only(a2aTable, E), t) /\ Len(M) = Len(Only(a2aTable, E)) + 1
        /\ Len(Only(a2aTable, E)) \in Nat
        /\ Len(M) <= MaxTerminal => Only(a2aTable', F) = M
        /\ Len(M) > MaxTerminal =>
             /\ Len(Only(a2aTable, E)) = MaxTerminal /\ Len(Only(a2aTable', F)) = MaxTerminal
             /\ \A i \in 1 .. MaxTerminal : Only(a2aTable', F)[i] = M[i + 1]
    BY ONLY <2>3, EndedTable
  <2>5. last = Only(a2aTable, E)
    BY ONLY <1>6
  <2> QED BY ONLY <2>1, <2>4, <2>5
<1> HIDE DEF out, M, last, table, K, before, others, rest
<1>8. E \subseteq Ids /\ D \subseteq Ids
  BY DEF EndedTasks
<1>9. \A u \in Ids : a2aState'[u] = IF u \in out THEN "evicted" ELSE IF u = t THEN to ELSE a2aState[u]
  BY <1>1 DEF A2ATypeOK
<1>10. A2ATypeOK'
  <2>1. a2aState' \in [Ids -> {"absent", "evicted"} \cup ActiveStates \cup TerminalStates]
    BY <1>1 DEF A2ATypeOK
  <2>2. {u \in Ids : a2aState'[u] \in ActiveStates \cup TerminalStates} =
          {u \in Ids : a2aState[u] \in ActiveStates \cup TerminalStates} \ out
    BY <1>1, <1>9 DEF ActiveStates, TerminalStates
  <2>3. a2aEnded' \in Seq(Ids)
    BY <1>1, AppendProperties DEF A2ATypeOK
  <2> QED BY <1>7, <2>1, <2>2, <2>3 DEF A2ATypeOK, NoRunStarts
<1>11. KeptEnded' = K
  <2>1. EndedTasks' = D \ out
    BY <1>7, <1>8, <1>9 DEF EndedTasks, TerminalStates
  <2> QED BY <2>1 DEF KeptEnded, K
<1>12. /\ M[Len(last) + 1] = t
       /\ \A i \in 1 .. Len(last) : M[i] = last[i]
  <2>1. last \in Seq(Ids)
    BY <1>2, <1>6, OnlyKeepsMembers
  <2> QED BY <1>7, <2>1, AppendProperties
<1>13. ASSUME NEW i \in 1 .. Len(last) + 1
       PROVE  M[i] = a2aEnded'[before - Len(last) + i]
  <2>2. CASE i = Len(last) + 1
    <3>1. before - Len(last) + i = before + 1
      BY <1>3, <1>7, <2>2
    <3> QED BY <1>3, <1>12, <2>2, <3>1
  <2>3. CASE i # Len(last) + 1
    <3>1. i \in 1 .. Len(last) /\ before - Len(last) + i \in 1 .. before
      BY <1>3, <1>4, <1>7, <2>3
    <3> QED BY <1>3, <1>4, <1>12, <3>1
  <2> QED BY <2>2, <2>3
<1>14. /\ Len(K) = IF before + 1 <= MaxTerminal THEN before + 1 ELSE MaxTerminal
       /\ \A i \in 1 .. Len(K) : K[i] = a2aEnded'[before + 1 - Len(K) + i]
  <2>1. CASE Len(M) <= MaxTerminal
    <3>1. K = M /\ Len(last) = before
      BY <1>3, <1>4, <1>7, <2>1
    <3>2. Len(K) = before + 1
      BY ONLY <1>7, <3>1
    <3>3. before + 1 - Len(K) = before - Len(last) /\ before + 1 <= MaxTerminal
      BY ONLY <1>3, <1>4, <2>1, <3>1, <3>2
    <3>4. \A i \in 1 .. before + 1 : K[i] = a2aEnded'[before + 1 - Len(K) + i]
      BY ONLY <1>13, <3>1, <3>3
    <3> QED BY ONLY <3>2, <3>3, <3>4
  <2>2. CASE Len(M) > MaxTerminal
    <3>1. Len(K) = MaxTerminal /\ Len(last) = MaxTerminal /\ MaxTerminal <= before
      BY <1>4, <1>7, <2>2
    <3>2. ASSUME NEW i \in 1 .. MaxTerminal
          PROVE  K[i] = a2aEnded'[before + 1 - MaxTerminal + i]
      <4>1. K[i] = M[i + 1] /\ i + 1 \in 1 .. Len(last) + 1
        BY <1>4, <1>7, <2>2, <3>1
      <4>2. before - Len(last) + (i + 1) = before + 1 - MaxTerminal + i
        <5>1. before \in Nat /\ MaxTerminal \in Nat /\ Len(last) = MaxTerminal
          BY ONLY <1>3, <1>4, <3>1
        <5>2. i \in Nat
          BY ONLY <5>1, i \in 1 .. MaxTerminal
        <5> QED BY ONLY <5>1, <5>2
      <4>3. M[i + 1] = a2aEnded'[before - Len(last) + (i + 1)]
        BY <1>13, <4>1
      <4> QED BY <4>1, <4>2, <4>3
    <3> QED BY <1>3, <1>4, <3>1, <3>2
  <2>3. Len(M) <= MaxTerminal \/ Len(M) > MaxTerminal
    BY <1>4, <1>7
  <2> QED BY <2>1, <2>2, <2>3
<1>15. EndedInOrder'
  <2>1. t \notin ToSet(a2aEnded)
    BY <1>1 DEF EndedInOrder, ActiveStates, TerminalStates
  <2>2. IsInjective(a2aEnded') /\ ToSet(a2aEnded') = ToSet(a2aEnded) \cup {t}
    BY <1>1, <1>3, <2>1, InjectiveAppend, SetOfAppend DEF EndedInOrder
  <2>3. {u \in Ids : a2aState'[u] \in TerminalStates \cup {"evicted"}} =
          {u \in Ids : a2aState[u] \in TerminalStates \cup {"evicted"}} \cup {t}
    BY <1>7, <1>9 DEF EndedTasks
  <2>4. ToSet(a2aEnded') = {u \in Ids : a2aState'[u] \in TerminalStates \cup {"evicted"}}
    BY <2>2, <2>3 DEF EndedInOrder
  <2>5. Len(a2aEnded') = before + 1 /\ KeptEnded' = K
    BY ONLY <1>3, <1>11
  <2>6. Len(KeptEnded') = IF Len(a2aEnded') <= MaxTerminal THEN Len(a2aEnded') ELSE MaxTerminal
    BY ONLY <1>14, <2>5, Zenon
  <2>7. ASSUME NEW i \in 1 .. Len(KeptEnded')
        PROVE  KeptEnded'[i] = a2aEnded'[Len(a2aEnded') - Len(KeptEnded') + i]
    <3>1. i \in 1 .. Len(K) /\ before \in Nat /\ MaxTerminal \in Nat
      BY <1>3, <1>4, <2>5
    <3>2. K[i] = a2aEnded'[before + 1 - Len(K) + i]
      BY ONLY <1>14, <3>1, Zenon
    <3>3. Len(K) \in Nat
      BY ONLY <1>14, <3>1
    <3>4. before + 1 - Len(K) + i = (before + 1) - Len(K) + i
      BY ONLY <3>1, <3>3
    <3> QED BY ONLY <2>5, <3>2, <3>4, Zenon
  <2> QED BY ONLY <2>2, <2>4, <2>6, <2>7, Zenon DEF EndedInOrder
<1>16. RunsBelongToWorkingTasks'
  <2>1. ASSUME NEW u \in Ids, a2aRun'[u] = "running", u \in a2aActive'
        PROVE  a2aState'[u] = "working"
    <3>1. u # t /\ a2aState[u] = "working"
      BY <2>1 DEF RunsBelongToWorkingTasks, NoRunStarts
    <3>2. u \notin out
      BY <1>7, <3>1 DEF EndedTasks, TerminalStates
    <3> QED BY <1>9, <3>1, <3>2
  <2>2. ASSUME NEW u \in Ids, a2aRun'[u] = "running", u \notin a2aActive'
        PROVE  u \in a2aLate'
    BY <2>2 DEF RunsBelongToWorkingTasks, NoRunStarts
  <2> QED BY <2>1, <2>2 DEF RunsBelongToWorkingTasks
<1> QED BY <1>10, <1>15, <1>16 DEF NoRunStarts

(* The tasks and their runs are as they should be after every step.        *)
LEMMA StepKeepsTasks ==
  ASSUME A2AAssumption, A2AInv, [A2ANext]_a2aVars
  PROVE  A2AInv'
<1> USE DEF A2AInv
<1>1. CASE StopBegins
  <2>1. NoRunStarts
    BY <1>1 DEF StopBegins, ToldToStop, NoRunStarts, A2ATypeOK, LateRuns, LiveRuns
  <2> QED BY <1>1, <2>1, TableIsStill DEF StopBegins
<1>7. CASE StopClears
  <2>1. NoRunStarts
    BY <1>7 DEF StopClears, NoRunStarts, A2ATypeOK, LateRuns
  <2> QED BY <1>7, <2>1, TableIsStill DEF StopClears, tableVars
<1>2. ASSUME NEW t \in Ids, CreateTask(t) PROVE A2AInv'
  BY <1>2, CreateKeepsTable
<1>3. ASSUME NEW t \in Ids, HandlerResumes(t) PROVE A2AInv'
  <2>1. /\ a2aRun[t] \in Outcomes2A /\ a2aRun' = [a2aRun EXCEPT ![t] = "over"]
        /\ a2aActive' = a2aActive \ {t} /\ a2aAwaited' = a2aAwaited /\ a2aLate' = a2aLate
    BY <1>3 DEF HandlerResumes, stopVars
  <2>2. NoRunStarts /\ a2aRun'[t] # "running"
    BY <2>1 DEF A2ATypeOK, NoRunStarts, LateRuns
  <2>3. \/ UNCHANGED tableVars
        \/ \E to \in TerminalStates \cup {"none"} : EndTask(t, to)
    <3> DEFINE to == CASE a2aRun[t] = "ok" -> "completed"
                       [] a2aRun[t] = "notok" -> "failed"
                       [] a2aRun[t] = "cancelled" -> "cancelled"
                       [] a2aRun[t] = "raised" -> "none"
    <3>1. to \in TerminalStates \cup {"none"}
      BY <2>1 DEF Outcomes2A, TerminalStates
    <3>2. \/ UNCHANGED tableVars
          \/ EndTask(t, to)
      BY <1>3, Zenon DEF HandlerResumes
    <3> QED BY ONLY <3>1, <3>2
  <2>4. ~EndTask(t, "none")
    BY DEF EndTask, MayMove, TerminalStates
  <2> QED BY <2>2, <2>3, <2>4, TableIsStill, EndKeepsTable
<1>4. ASSUME NEW t \in Ids, CancelTask(t) PROVE A2AInv'
  <2>1. EndTask(t, "cancelled") /\ "cancelled" \in TerminalStates
    BY <1>4 DEF CancelTask, TerminalStates
  <2>2. NoRunStarts /\ (a2aRun'[t] = "running" => t \notin a2aActive')
    BY <1>4 DEF CancelTask, ToldToStop, stopVars, NoRunStarts, LateRuns, A2ATypeOK, LiveRuns
  <2> QED BY <2>1, <2>2, EndKeepsTable
<1>5. ASSUME NEW t \in Ids, NEW outcome \in Outcomes2A, RunEnds(t, outcome) PROVE A2AInv'
  <2>1. NoRunStarts
    BY <1>5 DEF RunEnds, stopVars, NoRunStarts, LateRuns, A2ATypeOK, LiveRuns, Outcomes2A
  <2> QED BY <1>5, <2>1, TableIsStill DEF RunEnds
<1>6. CASE UNCHANGED a2aVars
  <2>1. NoRunStarts
    BY <1>6 DEF a2aVars, stopVars, NoRunStarts, LateRuns, A2ATypeOK
  <2> QED BY <1>6, <2>1, TableIsStill DEF a2aVars
<1> QED BY <1>1, <1>2, <1>3, <1>4, <1>5, <1>6, <1>7 DEF A2ANext

(* When the kept ones are the last that ended, the first are evicted.      *)
LEMMA InOrderFirstOut ==
  ASSUME A2AAssumption, A2AInv
  PROVE  FirstEndedFirstOut
<1> USE DEF A2AInv
<1> DEFINE L == KeptEnded
           n == Len(a2aEnded)
<1>1. /\ n \in Nat /\ MaxTerminal \in Nat \ {0} /\ DOMAIN a2aEnded = 1 .. n
      /\ Len(L) = IF n <= MaxTerminal THEN n ELSE MaxTerminal
      /\ \A i \in 1 .. Len(L) : L[i] = a2aEnded[n - Len(L) + i]
  BY LenProperties DEF A2ATypeOK, A2AAssumption, EndedInOrder
<1>2. ToSet(L) = EndedTasks /\ DOMAIN L = 1 .. Len(L) /\ Len(L) \in Nat
  <2>1. L \in Seq(Ids) /\ ToSet(L) = ToSet(a2aTable) \cap EndedTasks
    BY OnlyKeepsMembers DEF KeptEnded, A2ATypeOK
  <2>2. EndedTasks \subseteq ToSet(a2aTable)
    BY DEF A2ATypeOK, EndedTasks
  <2> QED BY <2>1, <2>2, LenProperties
<1> HIDE DEF L
<1>3. ASSUME NEW i \in 1 .. n
      PROVE  a2aState[a2aEnded[i]] = "evicted" <=> i <= n - MaxTerminal
  <2>1. a2aEnded[i] \in Ids /\ a2aState[a2aEnded[i]] \in TerminalStates \cup {"evicted"}
    BY <1>1 DEF EndedInOrder, ToSet
  <2>2. ASSUME i > n - MaxTerminal PROVE a2aState[a2aEnded[i]] \in TerminalStates
    <3> DEFINE k == Len(L)
    <3>1. i - (n - k) \in 1 .. k /\ n - k + (i - (n - k)) = i
      <4>1. i \in Nat /\ i >= 1 /\ i <= n
        BY <1>1
      <4>2. n - k < i /\ k \in Nat
        BY ONLY <1>1, <1>2, <2>2, <4>1
      <4>3. n \in Nat
        BY <1>1
      <4> HIDE DEF k, n
      <4> QED BY ONLY <4>1, <4>2, <4>3
    <3>2. a2aEnded[i] \in ToSet(L)
      BY <1>1, <1>2, <3>1 DEF ToSet
    <3> QED BY <1>2, <3>2 DEF EndedTasks
  <2>3. ASSUME i <= n - MaxTerminal, a2aState[a2aEnded[i]] \in TerminalStates PROVE FALSE
    <3>1. a2aEnded[i] \in ToSet(L)
      BY <1>2, <2>1, <2>3 DEF EndedTasks
    <3>2. PICK j \in 1 .. Len(L) : L[j] = a2aEnded[i]
      BY <1>2, <3>1 DEF ToSet
    <3>3. n - Len(L) + j \in 1 .. n /\ n - Len(L) + j # i
      BY <1>1, <2>3
    <3> QED BY <1>1, <3>2, <3>3 DEF EndedInOrder, IsInjective
  <2>4. n - MaxTerminal \in Int
    BY <1>1
  <2> QED BY <2>1, <2>2, <2>3, <2>4 DEF TerminalStates
<1>4. \A t \in Ids : a2aState[t] = "evicted" => \E i \in 1 .. n : a2aEnded[i] = t
  BY <1>1 DEF EndedInOrder, ToSet
<1>5. 1 .. n - MaxTerminal \subseteq 1 .. n
  BY <1>1
<1>6. \A i \in 1 .. n : a2aEnded[i] \in Ids
  BY <1>1 DEF EndedInOrder, ToSet
<1>7. ASSUME NEW t \in Ids, a2aState[t] = "evicted"
      PROVE  \E i \in 1 .. n - MaxTerminal : a2aEnded[i] = t
  <2>1. PICK i \in 1 .. n : a2aEnded[i] = t
    BY <1>4, <1>7
  <2>2. i <= n - MaxTerminal
    BY <1>3, <1>7, <2>1
  <2>3. i \in 1 .. n - MaxTerminal
    BY ONLY <1>1, <2>2, i \in 1 .. n
  <2> QED BY <2>1, <2>3
<1>8. ASSUME NEW i \in 1 .. n - MaxTerminal
      PROVE  a2aEnded[i] \in Ids /\ a2aState[a2aEnded[i]] = "evicted"
  <2>1. i \in 1 .. n /\ i <= n - MaxTerminal
    BY <1>1
  <2> QED BY <1>3, <1>6, <2>1
<1> DEFINE Forgotten == {t \in Ids : a2aState[t] = "evicted"}
           Oldest == {a2aEnded[i] : i \in 1 .. (n - MaxTerminal)}
<1>9. Forgotten \subseteq Oldest
  BY ONLY <1>7, Zenon
<1>10. Oldest \subseteq Forgotten
  BY ONLY <1>8, Zenon
<1>11. Forgotten = Oldest
  <2> HIDE DEF Forgotten, Oldest
  <2> QED BY ONLY <1>9, <1>10
<1> QED BY ONLY <1>11, Zenon DEF FirstEndedFirstOut

(* Every variable of the A2A server has its type.                          *)
THEOREM A2ATypes == ASSUME A2AAssumption PROVE A2ASpec => []A2ATypeOK
<1>1. A2AInit => A2AInv
  BY A2AInitially
<1>2. A2AInv /\ [A2ANext]_a2aVars => A2AInv'
  BY StepKeepsTasks
<1>3. A2AInv => A2ATypeOK
  BY DEF A2AInv
<1> QED BY <1>1, <1>2, <1>3, PTL DEF A2ASpec

(* However many tasks are created, run, cancelled and stopped, the ones    *)
(* the table forgets are those that ended first, and all but the last      *)
(* MaxTerminal of those (transition, _evict_old_terminal).                 *)
THEOREM TableForgetsTheFirst == ASSUME A2AAssumption PROVE A2ASpec => []FirstEndedFirstOut
<1>1. A2AInit => A2AInv
  BY A2AInitially
<1>2. A2AInv /\ [A2ANext]_a2aVars => A2AInv'
  BY StepKeepsTasks
<1>3. A2AInv => FirstEndedFirstOut
  BY InOrderFirstOut
<1> QED BY <1>1, <1>2, <1>3, PTL DEF A2ASpec

(* No consult goes on, without having been told to stop, for a task that   *)
(* has been cancelled, ended or forgotten (_handle_cancel_task, stop); but *)
(* for those created while a stop waited for others, which it forgets.     *)
THEOREM RunsHaveWorkingTasks == ASSUME A2AAssumption PROVE A2ASpec => []RunsBelongToWorkingTasks
<1>1. A2AInit => A2AInv
  BY A2AInitially
<1>2. A2AInv /\ [A2ANext]_a2aVars => A2AInv'
  BY StepKeepsTasks
<1>3. A2AInv => RunsBelongToWorkingTasks
  BY DEF A2AInv
<1> QED BY <1>1, <1>2, <1>3, PTL DEF A2ASpec

-----------------------------------------------------------------------------
(* The calls of a scoped key.                                              *)

(* What is known of a call from where it stands: whether its hold is in    *)
(* the store, what the log has of it, and who has the transaction open. A  *)
(* hold is in the store until what the log has of the call is settled.     *)
CallAccount(c) ==
  /\ reported[c] = {} \/ \E k \in Nat : reported[c] = {k}
  /\ callStage[c] \in {"arrived", "refused", "admitted"} => reported[c] = {}
  /\ callStage[c] \in {"arrived", "refused"} => c \notin held
  /\ callStage[c] \in {"admitted", "answered", "failed", "appended"} => c \in held
  /\ callStage[c] \in {"arrived", "refused", "admitted", "answered", "failed"} =>
       audited[c] = 0 /\ auditCost[c] = 0
  /\ callStage[c] = "appended" => writer = c /\ auditCost[c] = Charge(c)
  /\ writer = c => callStage[c] = "appended"
  /\ c \in held => auditCost[c] \in {0, Charge(c)}

AccountsInv == \A c \in Calls : CallAccount(c)

(* Before the key is seeded no call has done anything; after that the      *)
(* store has settled what the log has, except for the holds left.          *)
SeedInv == ~keyRow.seeded => \A c \in Calls : callStage[c] = "arrived"
SettledInv == keyRow.seeded =>
  keyRow.settled = PastSpend + SumOf(auditCost, Calls \ held)

KeyInv == ScopedTypeOK /\ AccountsInv /\ SeedInv /\ SettledInv /\ WithinKeyBudget

-----------------------------------------------------------------------------
(* The sums of the model are those of the lemmas.                          *)
LEMMA SumOfIsTotal == ASSUME NEW f, NEW S PROVE SumOf(f, S) = Total(f, S)
BY DEF SumOf, Total

(* What settle charges is the estimate or the one number reported.         *)
LEMMA ChargeOfCall ==
  ASSUME NEW c \in Calls, ScopedTypeOK, CallAccount(c)
  PROVE  /\ Charge(c) \in Nat
         /\ (\A k \in reported[c] : k <= estimate[c]) => Charge(c) <= estimate[c]
<1>1. estimate[c] \in Nat
  BY DEF ScopedTypeOK
<1>2. CASE reported[c] = {}
  BY <1>1, <1>2 DEF Charge
<1>3. ASSUME NEW k \in Nat, reported[c] = {k}
      PROVE  Charge(c) = k
  BY <1>3, SumSetOfOne DEF Charge
<1> QED BY <1>1, <1>2, <1>3 DEF CallAccount

(* Sums over calls are natural numbers.                                    *)
LEMMA SumsAreNatural ==
  ASSUME ScopedAssumption, ScopedTypeOK
  PROVE  /\ \A S \in SUBSET Calls : /\ IsFiniteSet(S)
                                    /\ SumOf(auditCost, S) \in Nat
                                    /\ SumOf(estimate, S) \in Nat
         /\ Holds \in Nat /\ AuditTotal \in Nat /\ PastSpend \in Nat /\ KeyLimit \in Nat
<1>1. \A S \in SUBSET Calls : IsFiniteSet(S)
  BY FS_Subset DEF ScopedAssumption
<1>2. \A c \in Calls : auditCost[c] \in Nat /\ estimate[c] \in Nat
  BY DEF ScopedTypeOK
<1>3. ASSUME NEW S \in SUBSET Calls
      PROVE  SumOf(auditCost, S) \in Nat /\ SumOf(estimate, S) \in Nat
  <2>1. Total(auditCost, S) \in Nat /\ Total(estimate, S) \in Nat
    BY <1>1, <1>2, TotalIsNat
  <2> QED BY <2>1, SumOfIsTotal
<1>4. held \in SUBSET Calls
  BY DEF ScopedTypeOK
<1> QED BY <1>1, <1>3, <1>4 DEF Holds, AuditTotal, ScopedAssumption

(* Before anything has happened to the key, it has spent what the log had. *)
LEMMA UnseededKey ==
  ASSUME ScopedAssumption, ScopedTypeOK, AccountsInv, SeedInv, ~keyRow.seeded
  PROVE  held = {} /\ Holds = 0 /\ AuditTotal = PastSpend
<1>1. \A c \in Calls : c \notin held /\ auditCost[c] = 0
  BY DEF SeedInv, AccountsInv, CallAccount
<1>2. held = {}
  BY <1>1 DEF ScopedTypeOK
<1>3. Total(auditCost, Calls) = 0
  BY <1>1, TotalOfZeros DEF ScopedAssumption
<1>4. Total(estimate, held) = 0
  BY <1>2, TotalOfNone
<1> QED BY <1>2, <1>3, <1>4, SumOfIsTotal DEF Holds, AuditTotal, ScopedAssumption

(* Before the first call nothing is held and nothing is spent.             *)
LEMMA KeyInit == ASSUME ScopedAssumption, ScopedInit PROVE KeyInv
<1>1. ScopedTypeOK
  BY DEF ScopedInit, ScopedTypeOK, ScopedStages
<1>2. AccountsInv
  BY DEF ScopedInit, AccountsInv, CallAccount, ScopedAssumption
<1>3. SeedInv /\ SettledInv /\ WithinKeyBudget
  BY DEF ScopedInit, SeedInv, SettledInv, WithinKeyBudget
<1> QED BY <1>1, <1>2, <1>3 DEF KeyInv

-----------------------------------------------------------------------------
(* A reservation.                                                          *)
LEMMA ReserveKeepsKey ==
  ASSUME ScopedAssumption, KeyInv, NEW c \in Calls, Reserve(c)
  PROVE  KeyInv'
<1> USE DEF KeyInv
<1> DEFINE s == Seeded.settled
           left == IF Committed(s) < KeyLimit THEN KeyLimit - Committed(s) ELSE 0
<1>1. /\ callStage[c] = "arrived" /\ writer = "nobody" /\ keyRow' = Seeded
      /\ UNCHANGED <<audited, auditCost, reported, writer>>
  BY DEF Reserve
<1>2. /\ s \in Nat /\ Committed(s) \in Nat /\ left \in Nat
      /\ keyRow' = [seeded |-> TRUE, settled |-> s]
  <2>1. s \in Nat /\ Seeded = [seeded |-> TRUE, settled |-> s]
    BY SumsAreNatural DEF Seeded, ScopedTypeOK
  <2>2. Committed(s) \in Nat
    BY <2>1, SumsAreNatural DEF Committed
  <2> QED BY <1>1, <2>1, <2>2, SumsAreNatural
<1>3. s = PastSpend + SumOf(auditCost, Calls \ held)
  <2>1. CASE keyRow.seeded
    BY <2>1 DEF Seeded, SettledInv
  <2>2. CASE ~keyRow.seeded
    <3>1. Calls \ held = Calls
      BY <2>2, UnseededKey
    <3> QED BY <2>2, <3>1 DEF Seeded, AuditTotal
  <2> QED BY <2>1, <2>2
<1>4. NoOverrun => Committed(s) <= KeyLimit \/ Committed(s) <= PastSpend
  <2>1. CASE keyRow.seeded
    BY <2>1 DEF Seeded, WithinKeyBudget
  <2>2. CASE ~keyRow.seeded
    BY <2>2, UnseededKey, SumsAreNatural DEF Seeded, Committed
  <2> QED BY <2>1, <2>2
<1>5. c \notin held /\ reported[c] = {} /\ auditCost[c] = 0
  BY <1>1 DEF AccountsInv, CallAccount
<1> HIDE DEF s, left
<1>6. CASE /\ \E e \in {x \in Estimates \cup {left} : x = 0 \/ x <= left} :
                estimate' = [estimate EXCEPT ![c] = e]
           /\ held' = held \cup {c}
           /\ inWindow' = inWindow \cup {c}
           /\ callStage' = [callStage EXCEPT ![c] = "admitted"]
  <2>1. PICK e \in Nat : (e = 0 \/ e <= left) /\ estimate' = [estimate EXCEPT ![c] = e]
    BY <1>2, <1>6 DEF ScopedAssumption
  <2>2. ScopedTypeOK'
    BY <1>1, <1>2, <1>6, <2>1 DEF ScopedTypeOK, ScopedStages
  <2>3. ASSUME NEW d \in Calls PROVE CallAccount(d)'
    <3>1. CallAccount(d)
      BY DEF AccountsInv
    <3>2. CASE d = c
      BY <1>1, <1>5, <1>6, <3>1, <3>2 DEF CallAccount, ScopedTypeOK, ScopedAssumption
    <3>3. CASE d # c
      <4>1. Charge(d)' = Charge(d)
        BY <1>1, <2>1, <3>3 DEF Charge, ScopedTypeOK
      <4> QED BY <1>1, <1>6, <3>1, <3>3, <4>1 DEF CallAccount, ScopedTypeOK
    <3> QED BY <3>2, <3>3
  <2>4. SeedInv'
    BY <1>2 DEF SeedInv
  <2>5. SettledInv'
    <3>1. Calls \ held' = (Calls \ held) \ {c} /\ c \in Calls \ held
      BY <1>5, <1>6
    <3>2. Total(auditCost, Calls \ held) = auditCost[c] + Total(auditCost, (Calls \ held) \ {c})
      <4>1. IsFiniteSet(Calls \ held) /\ \A d \in Calls \ held : auditCost[d] \in Nat
        BY SumsAreNatural DEF ScopedTypeOK
      <4> QED BY <3>1, <4>1, TotalWithout
    <3>3. SumOf(auditCost, Calls \ held') = SumOf(auditCost, Calls \ held)
      <4>1. (Calls \ held) \ {c} \in SUBSET Calls
        OBVIOUS
      <4>2. SumOf(auditCost, (Calls \ held) \ {c}) \in Nat
        BY <4>1, SumsAreNatural
      <4>3. Total(auditCost, (Calls \ held) \ {c}) = SumOf(auditCost, (Calls \ held) \ {c})
        BY SumOfIsTotal
      <4>4. Total(auditCost, Calls \ held) = SumOf(auditCost, Calls \ held)
        BY SumOfIsTotal
      <4> QED BY <1>5, <3>1, <3>2, <4>2, <4>3, <4>4
    <3> QED BY <1>1, <1>2, <1>3, <3>3 DEF SettledInv
  <2>6. Holds' = Holds + e
    <3>1. IsFiniteSet(held) /\ \A d \in held \cup {c} : estimate'[d] \in Nat
      BY <2>2, SumsAreNatural, <1>6 DEF ScopedTypeOK
    <3>2. Total(estimate', held \cup {c}) = Total(estimate', held) + estimate'[c]
      BY <1>5, <3>1, TotalWith
    <3>3. Total(estimate', held) = Total(estimate, held)
      <4>1. \A d \in held : estimate'[d] = estimate[d]
        BY <1>5, <2>1 DEF ScopedTypeOK
      <4> QED BY <3>1, <4>1, TotalAgrees
    <3>4. estimate'[c] = e
      BY <2>1 DEF ScopedTypeOK
    <3> QED BY <1>6, <3>2, <3>3, <3>4, SumOfIsTotal DEF Holds
  <2>7. WithinKeyBudget'
    <3> SUFFICES ASSUME NoOverrun'
                 PROVE  s + Holds' <= KeyLimit \/ s + Holds' <= PastSpend
      <4>1. keyRow'.settled = s
        BY <1>2
      <4>2. Committed(keyRow.settled)' = s + Holds'
        BY <4>1 DEF Committed
      <4> QED BY <4>2 DEF WithinKeyBudget
    <3>1. NoOverrun
      BY <1>1, <1>5, <2>1 DEF NoOverrun, ScopedTypeOK
    <3>2. s + Holds' = Committed(s) + e
      BY <1>2, <2>6, SumsAreNatural DEF Committed
    <3>3. e <= left => Committed(s) + e <= KeyLimit \/ e = 0
      BY <1>2, SumsAreNatural DEF left
    <3> QED BY <1>2, <1>4, <2>1, <3>1, <3>2, <3>3
  <2> QED BY <2>2, <2>3, <2>4, <2>5, <2>7 DEF AccountsInv
<1>7. CASE /\ callStage' = [callStage EXCEPT ![c] = "refused"]
           /\ UNCHANGED <<held, estimate, inWindow>>
  <2>1. ScopedTypeOK'
    BY <1>1, <1>2, <1>7 DEF ScopedTypeOK, ScopedStages
  <2>2. AccountsInv'
    BY <1>1, <1>7 DEF AccountsInv, CallAccount, ScopedTypeOK, Charge, ScopedAssumption
  <2>3. SeedInv' /\ SettledInv'
    BY <1>1, <1>2, <1>3, <1>7 DEF SeedInv, SettledInv
  <2>4. WithinKeyBudget'
    BY <1>1, <1>2, <1>4, <1>7 DEF WithinKeyBudget, NoOverrun, Committed, Holds
  <2> QED BY <2>1, <2>2, <2>3, <2>4
<1> QED BY <1>6, <1>7 DEF Reserve, left, s

-----------------------------------------------------------------------------
(* Steps that leave the money of the store and of the log alone.           *)
LEMMA QuietKeepsKey ==
  ASSUME KeyInv, ScopedTypeOK', AccountsInv', SeedInv', NoOverrun' => NoOverrun,
         UNCHANGED <<keyRow, held, estimate, auditCost>>
  PROVE  KeyInv'
<1>1. SettledInv'
  BY DEF KeyInv, SettledInv
<1>2. WithinKeyBudget'
  BY DEF KeyInv, WithinKeyBudget, Committed, Holds
<1> QED BY <1>1, <1>2 DEF KeyInv

(* These steps change neither the holds nor what the audit says was spent. *)
LEMMA QuietSteps ==
  ASSUME ScopedAssumption, KeyInv, NEW c \in Calls,
         \/ RatePasses(c) \/ AuditRefusal(c) \/ HandlerFails(c)
         \/ SettleRaises(c) \/ ServerDies(c)
         \/ \E costs \in {{}} \cup {{cost} : cost \in Costs} : Answer(c, costs)
  PROVE  KeyInv'
<1> USE DEF KeyInv
<1>c. CallAccount(c)
  BY DEF AccountsInv
<1>1. CASE RatePasses(c)
  <2>1. ScopedTypeOK' /\ AccountsInv' /\ SeedInv'
    BY <1>1 DEF RatePasses, ScopedTypeOK, AccountsInv, CallAccount, Charge, SeedInv
  <2> QED BY <1>1, <2>1, QuietKeepsKey DEF RatePasses, NoOverrun
<1>2. CASE AuditRefusal(c)
  <2>1. audited[c] = 0
    BY <1>2, <1>c DEF AuditRefusal, CallAccount
  <2>2. ScopedTypeOK'
    BY <1>2, <2>1 DEF AuditRefusal, scopedStore, ScopedTypeOK, ScopedStages
  <2>3. AccountsInv' /\ SeedInv'
    BY <1>2 DEF AuditRefusal, scopedStore, ScopedTypeOK, AccountsInv, CallAccount, Charge,
                SeedInv, ScopedAssumption
  <2> QED BY <1>2, <2>2, <2>3, QuietKeepsKey DEF AuditRefusal, scopedStore, NoOverrun
<1>3. CASE HandlerFails(c)
  <2>1. ScopedTypeOK'
    BY <1>3 DEF HandlerFails, scopedStore, auditVars, ScopedTypeOK, ScopedStages
  <2>2. AccountsInv' /\ SeedInv'
    BY <1>3 DEF HandlerFails, scopedStore, auditVars, ScopedTypeOK, AccountsInv, CallAccount,
                Charge, SeedInv
  <2> QED BY <1>3, <2>1, <2>2, QuietKeepsKey DEF HandlerFails, scopedStore, auditVars, NoOverrun
<1>4. CASE SettleRaises(c) \/ ServerDies(c)
  <2>1. /\ callStage[c] # "arrived"
        /\ callStage' = [callStage EXCEPT ![c] = "lost"]
        /\ writer' = IF writer = c THEN "nobody" ELSE writer
        /\ UNCHANGED <<keyRow, held, estimate, inWindow, audited, auditCost, reported>>
    BY <1>4 DEF SettleRaises, ServerDies, scopedStore, auditVars
  <2>2. ScopedTypeOK' /\ SeedInv'
    BY <2>1 DEF ScopedTypeOK, ScopedStages, SeedInv
  <2>3. ASSUME NEW d \in Calls PROVE CallAccount(d)'
    <3>1. CallAccount(d) /\ Charge(d)' = Charge(d)
      BY <2>1 DEF AccountsInv, Charge
    <3>2. CASE d = c
      BY <2>1, <3>1, <3>2 DEF CallAccount, ScopedTypeOK, ScopedAssumption
    <3>3. CASE d # c
      BY <2>1, <3>1, <3>3 DEF CallAccount, ScopedTypeOK, ScopedAssumption
    <3> QED BY <3>2, <3>3
  <2>4. AccountsInv'
    BY <2>3 DEF AccountsInv
  <2>5. NoOverrun' => NoOverrun
    BY <2>1 DEF NoOverrun
  <2> QED BY <2>1, <2>2, <2>4, <2>5, QuietKeepsKey
<1>5. ASSUME NEW costs, costs = {} \/ \E k \in Nat : costs = {k}, Answer(c, costs)
      PROVE  KeyInv'
  <2>1. /\ callStage[c] = "admitted" /\ callStage' = [callStage EXCEPT ![c] = "answered"]
        /\ reported' = [reported EXCEPT ![c] = costs]
        /\ UNCHANGED <<keyRow, held, estimate, inWindow, audited, auditCost, writer>>
    BY <1>5 DEF Answer, scopedStore, auditVars
  <2>2. reported[c] = {} /\ auditCost[c] = 0 /\ c \in held
    BY <1>c, <2>1 DEF CallAccount
  <2>3. ScopedTypeOK' /\ SeedInv'
    BY <1>5, <2>1 DEF ScopedTypeOK, ScopedStages, SeedInv
  <2>4. ASSUME NEW d \in Calls PROVE CallAccount(d)'
    <3>1. CallAccount(d)
      BY DEF AccountsInv
    <3>2. CASE d = c
      BY <1>5, <2>1, <2>2, <3>1, <3>2 DEF CallAccount, ScopedTypeOK
    <3>3. CASE d # c
      <4>1. Charge(d)' = Charge(d)
        BY <2>1, <3>3 DEF Charge, ScopedTypeOK
      <4> QED BY <2>1, <3>1, <3>3, <4>1 DEF CallAccount, ScopedTypeOK
    <3> QED BY <3>2, <3>3
  <2>5. NoOverrun' => NoOverrun
    BY <2>1, <2>2 DEF NoOverrun, ScopedTypeOK
  <2> QED BY <2>1, <2>3, <2>4, <2>5, QuietKeepsKey DEF AccountsInv
<1> QED BY <1>1, <1>2, <1>3, <1>4, <1>5 DEF ScopedAssumption

(* The audit line of a settlement is about a call whose hold is there.     *)
LEMMA AppendKeepsKey ==
  ASSUME ScopedAssumption, KeyInv, NEW c \in Calls, SettleAppend(c)
  PROVE  KeyInv'
<1> USE DEF KeyInv
<1>1. /\ callStage[c] \in {"answered", "failed"} /\ writer = "nobody" /\ c \in held
      /\ audited' = [audited EXCEPT ![c] = @ + 1]
      /\ auditCost' = [auditCost EXCEPT ![c] = @ + Charge(c)]
      /\ callStage' = [callStage EXCEPT ![c] = "appended"]
      /\ writer' = c
      /\ UNCHANGED <<keyRow, held, estimate, inWindow, reported>>
  BY DEF SettleAppend, scopedStore
<1>2. CallAccount(c) /\ audited[c] = 0 /\ auditCost[c] = 0
  BY <1>1 DEF AccountsInv, CallAccount
<1>3. Charge(c) \in Nat
  BY <1>2, ChargeOfCall
<1>4. auditCost' = [auditCost EXCEPT ![c] = Charge(c)]
  <2>1. auditCost[c] + Charge(c) = Charge(c)
    BY <1>2, <1>3
  <2> QED BY <1>1, <2>1
<1>5. ScopedTypeOK' /\ SeedInv'
  BY <1>1, <1>2, <1>3, <1>4 DEF ScopedTypeOK, ScopedStages, SeedInv
<1>6. ASSUME NEW d \in Calls PROVE CallAccount(d)'
  <2>1. CallAccount(d) /\ Charge(d)' = Charge(d)
    BY <1>1 DEF AccountsInv, Charge
  <2>2. CASE d = c
    BY <1>1, <1>4, <2>1, <2>2 DEF CallAccount, ScopedTypeOK
  <2>3. CASE d # c
    <3>1. /\ callStage'[d] = callStage[d] /\ audited'[d] = audited[d]
          /\ auditCost'[d] = auditCost[d] /\ writer' # d
      BY <1>1, <1>4, <2>3 DEF ScopedTypeOK
    <3>2. d # "nobody"
      BY DEF ScopedAssumption
    <3> QED BY <1>1, <2>1, <3>1, <3>2 DEF CallAccount
  <2> QED BY <2>2, <2>3
<1>7. SettledInv'
  <2>1. \A d \in Calls \ held : auditCost'[d] = auditCost[d]
    BY <1>1, <1>4 DEF ScopedTypeOK
  <2>2. IsFiniteSet(Calls \ held)
    BY SumsAreNatural
  <2>3. Total(auditCost', Calls \ held) = Total(auditCost, Calls \ held)
    BY <2>1, <2>2, TotalAgrees
  <2>4. SumOf(auditCost', Calls \ held) = SumOf(auditCost, Calls \ held)
    BY <2>3, SumOfIsTotal
  <2> QED BY <1>1, <2>4 DEF SettledInv
<1>8. WithinKeyBudget'
  BY <1>1 DEF WithinKeyBudget, Committed, Holds, NoOverrun
<1> QED BY <1>5, <1>6, <1>7, <1>8 DEF AccountsInv

(* The commit turns the hold of the call into what the call is charged.    *)
LEMMA CommitKeepsKey ==
  ASSUME ScopedAssumption, KeyInv, NEW c \in Calls, SettleCommit(c)
  PROVE  KeyInv'
<1> USE DEF KeyInv
<1>1. /\ callStage[c] = "appended" /\ writer = c
      /\ keyRow' = [keyRow EXCEPT !.settled = @ + Charge(c)]
      /\ held' = held \ {c}
      /\ callStage' = [callStage EXCEPT ![c] = "closed"]
      /\ writer' = "nobody"
      /\ UNCHANGED <<estimate, inWindow, audited, auditCost, reported>>
  BY DEF SettleCommit, auditVars
<1>2. /\ CallAccount(c) /\ c \in held /\ auditCost[c] = Charge(c) /\ keyRow.seeded
      /\ c # "nobody"
  BY <1>1 DEF AccountsInv, CallAccount, SeedInv, ScopedTypeOK, ScopedAssumption
<1>3. Charge(c) \in Nat
  BY <1>2, ChargeOfCall
<1>4. /\ keyRow'.seeded = keyRow.seeded /\ keyRow'.settled = keyRow.settled + Charge(c)
      /\ keyRow.settled \in Nat
  BY <1>1 DEF ScopedTypeOK
<1>5. ScopedTypeOK' /\ SeedInv'
  BY <1>1, <1>2, <1>3, <1>4 DEF ScopedTypeOK, ScopedStages, SeedInv
<1>6. ASSUME NEW d \in Calls PROVE CallAccount(d)'
  <2>1. CallAccount(d) /\ Charge(d)' = Charge(d)
    BY <1>1 DEF AccountsInv, Charge
  <2>2. CASE d = c
    BY <1>1, <1>2, <2>1, <2>2 DEF CallAccount, ScopedTypeOK
  <2>3. CASE d # c
    <3>1. callStage'[d] = callStage[d] /\ (d \in held' <=> d \in held) /\ writer' # d
      BY <1>1, <2>3 DEF ScopedTypeOK, ScopedAssumption
    <3>2. callStage[d] # "appended"
      BY <1>1, <2>1, <2>3 DEF CallAccount
    <3> QED BY <1>1, <2>1, <3>1, <3>2 DEF CallAccount
  <2> QED BY <2>2, <2>3
<1>7. SettledInv'
  <2>1. Calls \ held' = (Calls \ held) \cup {c} /\ c \notin Calls \ held
    BY <1>1, <1>2
  <2>2. IsFiniteSet(Calls \ held) /\ \A d \in (Calls \ held) \cup {c} : auditCost[d] \in Nat
    BY SumsAreNatural DEF ScopedTypeOK
  <2>3. Total(auditCost, (Calls \ held) \cup {c}) = Total(auditCost, Calls \ held) + auditCost[c]
    BY <2>1, <2>2, TotalWith
  <2>4. SumOf(auditCost, Calls \ held') = SumOf(auditCost, Calls \ held) + Charge(c)
    BY <1>2, <2>1, <2>3, SumOfIsTotal
  <2>5. SumOf(auditCost, Calls \ held) \in Nat /\ PastSpend \in Nat
    BY SumsAreNatural
  <2>6. keyRow.settled = PastSpend + SumOf(auditCost, Calls \ held)
    BY <1>2 DEF SettledInv
  <2>7. keyRow'.settled = PastSpend + SumOf(auditCost, Calls \ held')
    BY <1>3, <1>4, <2>4, <2>5, <2>6
  <2> QED BY <1>1, <2>7 DEF SettledInv
<1>8. WithinKeyBudget'
  <2> SUFFICES ASSUME NoOverrun'
               PROVE  keyRow'.settled + Holds' <= keyRow.settled + Holds
    <3>1. NoOverrun' => NoOverrun
      BY <1>1 DEF NoOverrun
    <3>2. Holds \in Nat /\ Holds' \in Nat /\ keyRow'.settled \in Nat
      <4>1. Holds \in Nat
        BY SumsAreNatural
      <4>2. Holds' = SumOf(estimate, held \ {c})
        BY <1>1 DEF Holds
      <4>3. held \ {c} \in SUBSET Calls
        BY DEF ScopedTypeOK
      <4> QED BY <1>3, <1>4, <4>1, <4>2, <4>3, SumsAreNatural
    <3>3. Committed(keyRow.settled)' = keyRow'.settled + Holds'
      BY DEF Committed
    <3>4. Committed(keyRow.settled) = keyRow.settled + Holds
      BY DEF Committed
    <3>5. KeyLimit \in Nat /\ PastSpend \in Nat
      BY DEF ScopedAssumption
    <3> QED BY <1>2, <1>4, <3>1, <3>2, <3>3, <3>4, <3>5 DEF WithinKeyBudget
  <2>1. Charge(c) <= estimate[c]
    BY <1>1, <1>2, ChargeOfCall DEF NoOverrun
  <2>2. Holds = estimate[c] + Holds'
    <3>1. IsFiniteSet(held) /\ \A d \in held : estimate[d] \in Nat
      BY SumsAreNatural DEF ScopedTypeOK
    <3>2. Total(estimate, held) = estimate[c] + Total(estimate, held \ {c})
      BY <1>2, <3>1, TotalWithout
    <3> QED BY <1>1, <3>2, SumOfIsTotal DEF Holds
  <2>3. Holds' \in Nat /\ estimate[c] \in Nat
    <3>1. held \ {c} \in SUBSET Calls
      BY DEF ScopedTypeOK
    <3>2. Holds' = SumOf(estimate, held \ {c})
      BY <1>1 DEF Holds
    <3> QED BY <3>1, <3>2, SumsAreNatural DEF ScopedTypeOK
  <2> QED BY <1>3, <1>4, <2>1, <2>2, <2>3
<1> QED BY <1>5, <1>6, <1>7, <1>8 DEF AccountsInv

(* The account of every call and of the key is kept by every step.         *)
LEMMA StepKeepsKey ==
  ASSUME ScopedAssumption, KeyInv, [ScopedNext]_scopedVars
  PROVE  KeyInv'
<1>1. CASE ScopedNext
  <2> SUFFICES ASSUME NEW c \in Calls,
                      \/ Reserve(c) \/ RatePasses(c) \/ AuditRefusal(c) \/ HandlerFails(c)
                      \/ \E costs \in {{}} \cup {{cost} : cost \in Costs} : Answer(c, costs)
                      \/ SettleAppend(c) \/ SettleCommit(c) \/ SettleRaises(c) \/ ServerDies(c)
               PROVE  KeyInv'
    BY <1>1 DEF ScopedNext
  <2> QED BY ReserveKeepsKey, QuietSteps, AppendKeepsKey, CommitKeepsKey
<1>2. CASE UNCHANGED scopedVars
  BY <1>2, QuietKeepsKey
     DEF scopedVars, KeyInv, ScopedTypeOK, AccountsInv, CallAccount, Charge, SeedInv, NoOverrun
<1> QED BY <1>1, <1>2

(* What the log has of a call still held is within its hold, and what it   *)
(* has of the others is settled.                                           *)
LEMMA LogIsCommitted ==
  ASSUME ScopedAssumption, KeyInv
  PROVE  AuditedSpendStaysCommitted
<1> USE DEF KeyInv
<1> SUFFICES ASSUME NoOverrun, keyRow.seeded
             PROVE  AuditTotal <= Committed(keyRow.settled)
  BY DEF AuditedSpendStaysCommitted
<1>1. held \in SUBSET Calls /\ IsFiniteSet(held) /\ IsFiniteSet(Calls)
  BY SumsAreNatural DEF ScopedTypeOK, ScopedAssumption
<1>2. \A c \in Calls : auditCost[c] \in Nat /\ estimate[c] \in Nat
  BY DEF ScopedTypeOK
<1>3. Total(auditCost, Calls) = Total(auditCost, held) + Total(auditCost, Calls \ held)
  BY <1>1, <1>2, TotalSplit
<1>4. ASSUME NEW c \in held PROVE auditCost[c] <= estimate[c]
  <2>1. c \in Calls /\ CallAccount(c)
    BY <1>1 DEF AccountsInv
  <2>2. Charge(c) <= estimate[c]
    BY <2>1, ChargeOfCall DEF NoOverrun
  <2> QED BY <1>2, <2>1, <2>2 DEF CallAccount
<1>5. Total(auditCost, held) <= Total(estimate, held)
  BY <1>1, <1>2, <1>4, TotalGrows
<1>6. /\ AuditTotal = PastSpend + Total(auditCost, Calls)
      /\ Committed(keyRow.settled) = keyRow.settled + Total(estimate, held)
      /\ keyRow.settled = PastSpend + Total(auditCost, Calls \ held)
  BY SumOfIsTotal DEF AuditTotal, Committed, Holds, SettledInv
<1>7. /\ Total(auditCost, Calls \ held) \in Nat /\ Total(auditCost, held) \in Nat
      /\ Total(estimate, held) \in Nat /\ PastSpend \in Nat
  <2>1. Calls \ held \in SUBSET Calls
    OBVIOUS
  <2> QED BY <1>1, <2>1, SumsAreNatural, SumOfIsTotal
<1> QED BY <1>3, <1>5, <1>6, <1>7

(* Every variable of the scoped admission store has its type.              *)
THEOREM ScopedTypes == ScopedSpec => []ScopedTypeOK
<1>1. ScopedInit => KeyInv
  BY KeyInit, ScopedAssumption
<1>2. KeyInv /\ [ScopedNext]_scopedVars => KeyInv'
  BY StepKeepsKey, ScopedAssumption
<1>3. KeyInv => ScopedTypeOK
  BY DEF KeyInv
<1> QED BY <1>1, <1>2, <1>3, PTL DEF ScopedSpec

(* However many calls of a key run and in whatever order they are          *)
(* admitted, answered, settled, lost or cut off by a crash, what the key   *)
(* has settled and holds stays within its budget, and what the audit log   *)
(* has of it stays committed (reserve, settle).                            *)
THEOREM KeyBudgetAlwaysHolds == ScopedSpec => []KeyBudgetHolds
<1>1. ScopedInit => KeyInv
  BY KeyInit, ScopedAssumption
<1>2. KeyInv /\ [ScopedNext]_scopedVars => KeyInv'
  BY StepKeepsKey, ScopedAssumption
<1>3. KeyInv => KeyBudgetHolds
  BY LogIsCommitted, ScopedAssumption DEF KeyInv, KeyBudgetHolds
<1> QED BY <1>1, <1>2, <1>3, PTL DEF ScopedSpec

-----------------------------------------------------------------------------
(* The budget of a nested run.                                             *)

(* A consumed child has been charged its maximum.                          *)
ConsumedInFull ==
  \A c \in Children : budget.child[c].state = "consumed" =>
    budget.child[c].settled = budget.child[c].max

(* What the journal is to the object while no append has been lost.        *)
TrailInv ==
  /\ CrashLeavesATrail /\ (torn => broken)
  /\ lostAppends = 0 /\ holder = "none" => replayed = budget
  /\ holder = "none" => budget = Parent!Unopened

AuditInv == BudgetTypeOK /\ ConsumedInFull /\ TrailInv

-----------------------------------------------------------------------------
(* The methods of the transaction lead from parents to parents.            *)
LEMMA MethodsKeepParents ==
  ASSUME NEW p \in Parent!Parents, NEW c \in Children, NEW m \in Nat
  PROVE  /\ Parent!Admitted(p, c, m) \in Parent!Parents
         /\ Parent!Marked(p, c) \in Parent!Parents
         /\ Parent!Settled(p, c, m) \in Parent!Parents
         /\ Parent!Consumed(p, c) \in Parent!Parents
         /\ Parent!Cancelled(p, c) \in Parent!Parents
         /\ Parent!Frozen(p) \in Parent!Parents
<1> USE DEF Parent!Parents, Parent!ChildStates, Parent!OpenChildren, Parent!PaidChildren
<1>1. Parent!Admitted(p, c, m) \in Parent!Parents  BY DEF Parent!Admitted
<1>2. Parent!Marked(p, c) \in Parent!Parents       BY DEF Parent!Marked
<1>3. Parent!Settled(p, c, m) \in Parent!Parents
  <2> DEFINE q == [p EXCEPT !.child[c].state = "settled"]
  <2>1. q \in Parent!Parents  OBVIOUS
  <2>2. Parent!Settled(p, c, m) = [q EXCEPT !.child[c].settled = m]  BY DEF Parent!Settled
  <2>3. \A r \in Parent!Parents : [r EXCEPT !.child[c].settled = m] \in Parent!Parents
    OBVIOUS
  <2> QED BY ONLY <2>1, <2>2, <2>3
<1>4. Parent!Consumed(p, c) \in Parent!Parents
  <2> DEFINE k == [p.child[c] EXCEPT !.state = "consumed", !.settled = p.child[c].max]
  <2>1. k \in [state : Parent!ChildStates, max : Nat, settled : Nat]  OBVIOUS
  <2>2. Parent!Consumed(p, c) = [p EXCEPT !.child[c] = k]  BY DEF Parent!Consumed
  <2> HIDE DEF k
  <2> QED BY <2>1, <2>2
<1>5. Parent!Cancelled(p, c) \in Parent!Parents    BY DEF Parent!Cancelled
<1>6. Parent!Frozen(p) \in Parent!Parents          BY DEF Parent!Frozen
<1> QED BY <1>1, <1>2, <1>3, <1>4, <1>5, <1>6

(* The maxima and the amounts of the model are natural numbers.            *)
LEMMA AmountsAreNatural ==
  ASSUME ParentAssumption
  PROVE  Prices \subseteq Nat /\ Parent!Amounts \subseteq Nat
BY DEF ParentAssumption, Parent!Amounts

(* The events a call appends.                                              *)
Events == [type : {"opened", "child_admitted", "dispatch_marked", "cancelled", "settled",
                   "consumed", "overrun", "frozen", "closed"},
           child : Children \cup {""}, amount : Nat]

ChildEvents == {e \in Events : e.type \in {"opened", "closed", "frozen"} \/ e.child \in Children}

(* Replaying any event of a call leads from parents to parents.            *)
LEMMA ReplayKeepsParents ==
  ASSUME ParentAssumption, NEW p \in Parent!Parents, NEW e \in ChildEvents
  PROVE  Replay(p, e) \in Parent!Parents
<1>1. CASE e.type \in {"opened", "frozen", "closed"}
  BY <1>1, SMTT(30) DEF Replay, Parent!Parents, Parent!Frozen
<1>2. CASE e.type \notin {"opened", "frozen", "closed"}
  <2>1. e.child \in Children /\ e.amount \in Nat
    BY <1>2 DEF ChildEvents, Events
  <2>2. e.type \in {"child_admitted", "dispatch_marked", "cancelled", "settled",
                    "consumed", "overrun"}
    BY <1>2 DEF ChildEvents, Events
  <2> QED BY <2>1, <2>2, MethodsKeepParents DEF Replay
<1> QED BY <1>1, <1>2

(* So a call's append, whatever becomes of it, keeps the types.            *)
LEMMA JournalKeepsTypes ==
  ASSUME ParentAssumption, BudgetTypeOK, holder = "running",
         NEW e \in ChildEvents, Journal(e)
  PROVE  /\ replayed' \in Parent!Parents /\ broken' \in BOOLEAN /\ torn' \in BOOLEAN
         /\ holder' \in {"running", "dead"} /\ lostAppends' \in Nat
<1>1. CutOff(e) => replayed' \in Parent!Parents /\ broken' \in BOOLEAN /\ torn' \in BOOLEAN
  BY ReplayKeepsParents DEF CutOff, Appended, Torn, BudgetTypeOK
<1> QED BY <1>1 DEF Journal, CutOff, BudgetTypeOK

-----------------------------------------------------------------------------
(* The step of the object that goes with an event: the same one the replay *)
(* makes. A child is sent only when the mark it was sent on is written.    *)
Does(e) ==
  /\ holder = "running" /\ e \in ChildEvents
  /\ Replayable(budget, e)
  /\ e.type \in {"consumed", "overrun"} =>
       budget.child[e.child].state \in Parent!OpenChildren \cup {"consumed"}
  /\ budget' = Replay(budget, e)
  /\ Journal(e)
  /\ \/ sent' = sent
     \/ e.type = "dispatch_marked" /\ Appended(e) /\ sent' = sent \cup {e.child}

(* Each call but open appends one event, and the object makes the step     *)
(* that replaying this event makes: a guard of the call is at least that   *)
(* of the replay.                                                          *)
LEMMA CallsDoWhatTheyJournal ==
  ASSUME ParentAssumption, BudgetTypeOK, BudgetNext, ~OpenBudget, ~OthersTear
  PROVE  \E e \in ChildEvents : Does(e)
<1> USE AmountsAreNatural
<1>1. ASSUME NEW c \in Children, NEW m \in Prices, AdmitChild(c, m)
      PROVE  Does(Event("child_admitted", c, m)) /\ Event("child_admitted", c, m) \in ChildEvents
  BY <1>1 DEF AdmitChild, Does, Event, Events, ChildEvents, Replayable, Replay
<1>2. ASSUME NEW c \in Children, MarkDispatch(c)
      PROVE  Does(Event("dispatch_marked", c, 0)) /\ Event("dispatch_marked", c, 0) \in ChildEvents
  <2> DEFINE e == Event("dispatch_marked", c, 0)
  <2>1. e \in ChildEvents /\ e.type = "dispatch_marked" /\ e.child = c
    BY DEF Event, Events, ChildEvents
  <2>2. Replayable(budget, e) /\ budget' = Replay(budget, e)
    BY <1>2, <2>1 DEF MarkDispatch, Replayable, Replay
  <2>3. holder = "running" /\ Journal(e) /\ sent' = IF Returned THEN sent \cup {c} ELSE sent
    BY <1>2 DEF MarkDispatch
  <2>4. Returned => Appended(e)
    BY <2>3 DEF Journal, Returned, BudgetTypeOK
  <2> HIDE DEF e
  <2>5. Does(e)
    BY <2>1, <2>2, <2>3, <2>4 DEF Does
  <2> QED BY <2>1, <2>5 DEF e
<1>3. ASSUME NEW c \in Children, NEW a \in Parent!Amounts, SettleChild(c, a)
      PROVE  Does(Event("settled", c, a)) /\ Event("settled", c, a) \in ChildEvents
  BY <1>3 DEF SettleChild, Does, Event, Events, ChildEvents, Replayable, Replay
<1>4. ASSUME NEW c \in Children, SettleOverrun(c)
      PROVE  Does(Event("overrun", c, 0)) /\ Event("overrun", c, 0) \in ChildEvents
  BY <1>4 DEF SettleOverrun, Does, Event, Events, ChildEvents, Replayable, Replay,
              Parent!Open, Parent!OpenChildren
<1>5. ASSUME NEW c \in Children, ConsumeChildCeiling(c)
      PROVE  Does(Event("consumed", c, 0)) /\ Event("consumed", c, 0) \in ChildEvents
  BY <1>5 DEF ConsumeChildCeiling, Does, Event, Events, ChildEvents, Replayable, Replay,
              Parent!Open, Parent!OpenChildren
<1>6. ASSUME NEW c \in Children, CancelChild(c)
      PROVE  Does(Event("cancelled", c, 0)) /\ Event("cancelled", c, 0) \in ChildEvents
  BY <1>6 DEF CancelChild, Does, Event, Events, ChildEvents, Replayable, Replay
<1>7. ASSUME CloseBudget
      PROVE  Does(Event("closed", "", 0)) /\ Event("closed", "", 0) \in ChildEvents
  BY <1>7 DEF CloseBudget, Does, Event, Events, ChildEvents, Replayable, Replay
<1> QED BY <1>1, <1>2, <1>3, <1>4, <1>5, <1>6, <1>7 DEF BudgetNext

(* The step of the object, seen as a step of the abstract transaction. The *)
(* only one that is not is a second overrun of the same child, and it      *)
(* changes nothing.                                                        *)
LEMMA CallsAreMethods ==
  ASSUME ParentAssumption, BudgetTypeOK, ConsumedInFull, BudgetNext, ~OpenBudget, ~OthersTear,
         replayed = budget, replayed' = budget'
  PROVE  Parent!Next \/ replayed' = replayed
<1> USE AmountsAreNatural
<1>1. ASSUME NEW c \in Children, NEW m \in Prices, AdmitChild(c, m)
      PROVE  Parent!Next
  BY <1>1 DEF AdmitChild, Parent!Next
<1>2. ASSUME NEW c \in Children, MarkDispatch(c)
      PROVE  Parent!Next
  BY <1>2 DEF MarkDispatch, Parent!Next
<1>3. ASSUME NEW c \in Children, NEW a \in Parent!Amounts, SettleChild(c, a)
      PROVE  Parent!Next
  <2>1. a \in 0..replayed.child[c].max
    BY <1>3 DEF SettleChild, BudgetTypeOK, Parent!Parents
  <2> QED BY <1>3, <2>1 DEF SettleChild, Parent!Next
<1>4. ASSUME NEW c \in Children, SettleOverrun(c)
      PROVE  Parent!Next \/ replayed' = replayed
  <2>1. CASE Parent!Open(budget, c, Parent!OpenChildren)
    BY <1>4, <2>1 DEF SettleOverrun, Parent!Next
  <2>2. CASE budget.state = "frozen" /\ budget.child[c].state = "consumed"
    <3> DEFINE k == budget.child[c]
    <3>1. k \in [state : Parent!ChildStates, max : Nat, settled : Nat]
      BY DEF BudgetTypeOK, Parent!Parents
    <3>2. [k EXCEPT !.state = "consumed", !.settled = k.max] = k
      BY <2>2, <3>1 DEF ConsumedInFull
    <3>3. [budget EXCEPT !.child[c] = k] = budget  BY DEF BudgetTypeOK, Parent!Parents
    <3>4. Parent!Consumed(budget, c) = budget
      BY <3>2, <3>3 DEF Parent!Consumed
    <3>5. Parent!Frozen(budget) = budget
      BY <2>2 DEF Parent!Frozen, BudgetTypeOK, Parent!Parents
    <3> QED BY <1>4, <3>4, <3>5 DEF SettleOverrun
  <2> QED BY <1>4, <2>1, <2>2 DEF SettleOverrun
<1>5. ASSUME NEW c \in Children, ConsumeChildCeiling(c)
      PROVE  Parent!Next
  BY <1>5 DEF ConsumeChildCeiling, Parent!Next
<1>6. ASSUME NEW c \in Children, CancelChild(c)
      PROVE  Parent!Next
  BY <1>6 DEF CancelChild, Parent!Next
<1>7. ASSUME CloseBudget
      PROVE  Parent!Next
  BY <1>7 DEF CloseBudget, Parent!Next
<1> QED BY <1>1, <1>2, <1>3, <1>4, <1>5, <1>6, <1>7 DEF BudgetNext

-----------------------------------------------------------------------------
(* The invariant: it holds at the start and every call keeps it, for the   *)
(* event it appends says what it did.                                      *)
LEMMA AuditInit == ASSUME ParentAssumption, BudgetInit PROVE AuditInv
<1>1. Parent!Unopened \in Parent!Parents
  BY DEF Parent!Unopened, Parent!Parents, Parent!ChildStates, Parent!OpenChildren,
         Parent!PaidChildren
<1>2. \A c \in Children : Parent!Unopened.child[c].state = "none"
  BY DEF Parent!Unopened
<1> QED BY <1>1, <1>2 DEF BudgetInit, AuditInv, BudgetTypeOK, ConsumedInFull, TrailInv,
                          CrashLeavesATrail

(* Opening: the object exists for its caller once the event is written.    *)
LEMMA OpenKeepsAudit == ASSUME ParentAssumption, AuditInv, OpenBudget PROVE AuditInv'
<1> DEFINE e == Event("opened", "", 0)
<1> USE DEF AuditInv, BudgetTypeOK
<1>1. budget' \in Parent!Parents /\ budget'.child = budget.child
  BY DEF OpenBudget, Parent!Parents
<1>2. Appended(e) => broken' = broken /\ (~broken => replayed' = [replayed EXCEPT !.state = "open"])
                     /\ (broken => replayed' = replayed) /\ torn' = torn
  BY DEF Appended, Replayable, Replay, Event
<1>3. /\ replayed' \in Parent!Parents /\ broken' \in BOOLEAN /\ torn' \in BOOLEAN
      /\ \/ broken' = broken /\ torn' = torn
         \/ holder' = "dead" /\ broken' = TRUE /\ torn' = TRUE
  <2>1. [replayed EXCEPT !.state = "open"] \in Parent!Parents
    BY DEF Parent!Parents
  <2> HIDE DEF e
  <2>2. Appended(e) => replayed' \in Parent!Parents
    BY <1>2, <2>1
  <2>3. \/ Appended(e)
        \/ CutOff(e) /\ holder' = "dead"
    BY DEF OpenBudget, e
  <2> QED BY <1>2, <2>2, <2>3 DEF CutOff, Torn
<1>4. BudgetTypeOK'
  BY <1>1, <1>3 DEF OpenBudget
<1>5. ConsumedInFull'
  BY <1>1 DEF ConsumedInFull
<1>6. TrailInv'
  <2>1. holder = "none" /\ holder' \in {"running", "dead"} /\ lostAppends' = lostAppends
    BY DEF OpenBudget
  <2>2. torn' => broken'
    <3>1. torn => broken
      BY DEF TrailInv
    <3>2. CASE broken' = broken /\ torn' = torn
      BY ONLY <3>1, <3>2
    <3> QED BY <1>3, <3>2
  <2>3. ASSUME lostAppends' = 0, ~torn'
        PROVE  ~broken' /\ (holder' = "running" => replayed' = budget')
    <3>1. ~broken /\ ~broken' /\ replayed = budget
      BY <1>3, <2>1, <2>3 DEF TrailInv, CrashLeavesATrail
    <3>2. holder' = "running" => Appended(e)
      BY DEF OpenBudget
    <3>3. budget' = [budget EXCEPT !.state = "open"]
      BY DEF OpenBudget
    <3> HIDE DEF e
    <3> QED BY <1>2, <3>1, <3>2, <3>3
  <2> QED BY <2>1, <2>2, <2>3 DEF TrailInv, CrashLeavesATrail
<1> QED BY <1>4, <1>5, <1>6

(* A call of the open object.                                              *)
LEMMA CallKeepsAudit ==
  ASSUME ParentAssumption, AuditInv, BudgetNext, ~OpenBudget, ~OthersTear PROVE AuditInv'
<1> USE DEF AuditInv
<1>1. PICK e \in ChildEvents : Does(e)
  BY CallsDoWhatTheyJournal
<1>2. budget' \in Parent!Parents
  BY <1>1, ReplayKeepsParents DEF Does, BudgetTypeOK
<1>3. BudgetTypeOK'
  <2>1. sent' \subseteq Children
    BY DEF BudgetNext, AdmitChild, MarkDispatch, SettleChild, SettleOverrun,
           ConsumeChildCeiling, CancelChild, CloseBudget, BudgetTypeOK
  <2> QED BY <1>1, <1>2, <2>1, JournalKeepsTypes DEF Does, BudgetTypeOK
<1>4. ConsumedInFull'
  <2> SUFFICES ASSUME NEW d \in Children, budget'.child[d].state = "consumed"
               PROVE  budget'.child[d].settled = budget'.child[d].max
    BY DEF ConsumedInFull
  <2>1. CASE e.type \in {"opened", "frozen", "closed"}
    <3>1. budget'.child = budget.child
      BY <1>1, <2>1 DEF Does, Replay, BudgetTypeOK, Parent!Parents, Parent!Frozen
    <3> QED BY <3>1 DEF ConsumedInFull
  <2>2. CASE e.type \notin {"opened", "frozen", "closed"}
    <3>1. e.child \in Children
      BY <2>2 DEF ChildEvents, Events
    <3>2. CASE d # e.child
      <4>1. budget'.child[d] = budget.child[d]
        BY <1>1, <2>2, <3>1, <3>2 DEF Does, Replay, BudgetTypeOK, Parent!Parents, Parent!Admitted,
           Parent!Marked, Parent!Settled, Parent!Consumed, Parent!Cancelled, Parent!Frozen,
           ChildEvents, Events
      <4> QED BY <4>1 DEF ConsumedInFull
    <3>3. CASE d = e.child
      <4>1. e.type \in {"consumed", "overrun"}
        BY <1>1, <2>2, <3>3 DEF Does, Replay, BudgetTypeOK, Parent!Parents, Parent!Admitted,
           Parent!Marked, Parent!Settled, Parent!Cancelled, ChildEvents, Events
      <4>2. budget'.child = Parent!Consumed(budget, d).child
        BY <1>1, <3>3, <4>1 DEF Does, Replay, Parent!Frozen, Parent!Consumed, BudgetTypeOK,
           Parent!Parents
      <4> QED BY <4>2 DEF Parent!Consumed, BudgetTypeOK, Parent!Parents
    <3> QED BY <3>2, <3>3
  <2> QED BY <2>1, <2>2
<1>5. TrailInv'
  <2>1. holder' # "none"
    BY <1>1 DEF Does, Journal
  <2>2. \/ Appended(e)
        \/ UNCHANGED <<replayed, broken, torn>> \/ Torn
    BY <1>1 DEF Does, Journal, CutOff
  <2>3. torn' => broken'
    BY <2>2 DEF Appended, Torn, TrailInv
  <2>4. ASSUME lostAppends' = 0, ~torn'
        PROVE  ~broken' /\ (holder' = "running" => replayed' = budget')
    <3>1. lostAppends = 0 /\ holder = "running" /\ (holder' = "running" => Appended(e))
      BY <1>1, <2>4 DEF Does, Journal, BudgetTypeOK
    <3>2. ~torn /\ (Appended(e) \/ broken' = broken)
      BY <2>2, <2>4 DEF Appended, Torn
    <3>3. ~broken /\ replayed = budget
      BY <3>1, <3>2 DEF TrailInv, CrashLeavesATrail
    <3>4. Appended(e) => ~broken' /\ replayed' = budget'
      BY <1>1, <3>3 DEF Does, Appended
    <3> QED BY <3>1, <3>2, <3>3, <3>4
  <2> QED BY <2>1, <2>3, <2>4 DEF TrailInv, CrashLeavesATrail
<1> QED BY <1>3, <1>4, <1>5

(* The invariant is about the variables of the budget only.                *)
LEMMA StutterKeepsAudit == AuditInv /\ UNCHANGED budgetVars => AuditInv'
BY DEF AuditInv, BudgetTypeOK, ConsumedInFull, TrailInv, CrashLeavesATrail, budgetVars

(* Another run's torn line takes the replay, and nothing else.             *)
LEMMA TearKeepsAudit == AuditInv /\ OthersTear => AuditInv'
BY DEF AuditInv, BudgetTypeOK, ConsumedInFull, TrailInv, CrashLeavesATrail, OthersTear, Torn

(* The inductive invariant: until an append is lost or a line is cut the   *)
(* journal replays to what the object has, whatever method is called and   *)
(* wherever it dies.                                                       *)
THEOREM AuditInvariant == ASSUME ParentAssumption PROVE BudgetSpec => []AuditInv
<1>1. BudgetInit => AuditInv
  BY AuditInit
<1>2. AuditInv /\ [BudgetNext]_budgetVars => AuditInv'
  BY OpenKeepsAudit, TearKeepsAudit, CallKeepsAudit, StutterKeepsAudit
<1> QED BY <1>1, <1>2, PTL DEF BudgetSpec

(* The types of ParentBudget, for all parameters.                          *)
THEOREM BudgetTypeCorrect == ASSUME ParentAssumption PROVE BudgetSpec => []BudgetTypeOK
<1>1. AuditInv => BudgetTypeOK
  BY DEF AuditInv
<1> QED BY <1>1, AuditInvariant, PTL

(* A crash mid-run leaves an auditable trail (parent_budget_store.py): the *)
(* journal replays, and to what a living holder has, until an append       *)
(* raises or a run that shares the file ends inside its line.              *)
THEOREM CrashLeavesATrailAlways ==
  ASSUME ParentAssumption PROVE BudgetSpec => []CrashLeavesATrail
<1>1. AuditInv => CrashLeavesATrail
  BY DEF AuditInv, TrailInv
<1> QED BY <1>1, AuditInvariant, PTL

-----------------------------------------------------------------------------
(* Refinement: while no append is lost, the journal makes the steps of the *)
(* transaction.                                                            *)
LEMMA OpenIsAMethod ==
  ASSUME ParentAssumption, AuditInv, OpenBudget, lostAppends' = 0
  PROVE  Parent!Next \/ replayed' = replayed
<1>1. replayed.state = "unopened"
  <2>1. lostAppends = 0 /\ holder = "none"
    BY DEF OpenBudget
  <2>2. replayed = Parent!Unopened
    BY <2>1 DEF AuditInv, TrailInv
  <2> QED BY <2>2 DEF Parent!Unopened
<1>2. Appended(Event("opened", "", 0)) =>
        replayed' = replayed \/ replayed' = [replayed EXCEPT !.state = "open"]
  BY <1>1 DEF Appended, Replayable, Replay, Event
<1> QED BY <1>1, <1>2 DEF OpenBudget, CutOff, Torn, Parent!Next

(* While no append is lost, a call does to the replayed journal what the   *)
(* method does to a budget, or nothing.                                    *)
LEMMA CallIsAMethod ==
  ASSUME ParentAssumption, AuditInv, BudgetNext, ~OpenBudget, ~OthersTear, lostAppends' = 0
  PROVE  Parent!Next \/ replayed' = replayed
<1>1. PICK e \in ChildEvents : Does(e)
  BY CallsDoWhatTheyJournal DEF AuditInv
<1>2. ~broken => replayed = budget
  <2>1. holder = "running" /\ lostAppends = 0
    BY <1>1 DEF Does, Journal, AuditInv, BudgetTypeOK
  <2> QED BY <2>1 DEF AuditInv, TrailInv, CrashLeavesATrail
<1>3. replayed' = replayed \/ (~broken /\ replayed' = budget')
  <2>1. \/ Appended(e)
        \/ UNCHANGED <<replayed, broken, torn>> \/ Torn
    BY <1>1 DEF Does, Journal, CutOff
  <2>2. Appended(e) => replayed' = replayed \/ (~broken /\ replayed' = Replay(replayed, e))
    BY DEF Appended, AuditInv, BudgetTypeOK
  <2>3. budget' = Replay(budget, e)
    BY <1>1 DEF Does
  <2>4. CASE broken
    BY <2>1, <2>2, <2>4 DEF Torn
  <2>5. CASE ~broken
    BY ONLY <1>2, <2>1, <2>2, <2>3, <2>5 DEF Torn
  <2> QED BY <2>4, <2>5
<1> QED BY <1>2, <1>3, CallsAreMethods DEF AuditInv

(* As long as no append raised, the journal is that of a ParentTransaction *)
(* whatever call the process died in.                                      *)
THEOREM TrailImplementsTransaction ==
  ASSUME ParentAssumption PROVE BudgetSpec => TrailIsTransaction
<1>1. BudgetInit => Parent!Init
  BY DEF BudgetInit, Parent!Init
<1>2. AuditInv /\ [BudgetNext]_budgetVars => [lostAppends' = 0 => [Parent!Next]_replayed]_budgetVars
  <2>1. ASSUME AuditInv, BudgetNext, lostAppends' = 0
        PROVE  Parent!Next \/ replayed' = replayed
    <3>1. OthersTear => replayed' = replayed
      BY DEF OthersTear, Torn
    <3> QED BY <2>1, <3>1, OpenIsAMethod, CallIsAMethod
  <2> QED BY <2>1
<1> QED BY <1>1, <1>2, AuditInvariant, PTL DEF BudgetSpec, TrailIsTransaction

-----------------------------------------------------------------------------
(* Calls that may be out: what memory and journal agree on whatever has    *)
(* been lost. A child the journal knows has the maximum the object has; a  *)
(* child the journal has paid was paid the same by the object.             *)
KnownAlike ==
  \A c \in Children : replayed.child[c].state # "none" =>
    budget.child[c].state # "none" /\ replayed.child[c].max = budget.child[c].max

PaidWithinMax ==
  \A c \in Children : budget.child[c].state \in Parent!PaidChildren =>
    budget.child[c].settled <= budget.child[c].max

PaidAlike ==
  ~broken => \A c \in Children : replayed.child[c].state \in Parent!PaidChildren =>
    /\ budget.child[c].state \in Parent!PaidChildren
    /\ replayed.child[c].settled = budget.child[c].settled

SentAreMarked ==
  \A c \in sent :
    /\ budget.child[c].state \in {"dispatch_marked"} \cup Parent!PaidChildren
    /\ ~broken => replayed.child[c].state \in {"dispatch_marked"} \cup Parent!PaidChildren

SentInv == AuditInv /\ KnownAlike /\ PaidWithinMax /\ PaidAlike /\ SentAreMarked

(* One child under one event: only the event's own child changes.          *)
LEMMA ReplayOfChild ==
  ASSUME NEW p \in Parent!Parents, NEW e \in ChildEvents, NEW d \in Children
  PROVE  LET k == p.child[d]
             r == Replay(p, e).child[d]
         IN IF d # e.child \/ e.type \in {"opened", "frozen", "closed"} THEN r = k
            ELSE /\ e.type = "child_admitted" => r.state = "admitted" /\ r.max = e.amount
                 /\ e.type # "child_admitted" => r.max = k.max
                 /\ e.type = "dispatch_marked" => r.state = "dispatch_marked"
                 /\ e.type = "cancelled" => r.state = "cancelled"
                 /\ e.type = "settled" => r.state = "settled" /\ r.settled = e.amount
                 /\ e.type \in {"consumed", "overrun"} =>
                      r.state = "consumed" /\ r.settled = k.max
<1> USE DEF Parent!Parents
<1>1. CASE e.type \in {"opened", "frozen", "closed"}
  BY <1>1 DEF Replay, Parent!Frozen
<1>2. CASE e.type \notin {"opened", "frozen", "closed"}
  <2>1. e.child \in Children /\ e.amount \in Nat
    BY <1>2 DEF ChildEvents, Events
  <2>2. CASE e.type = "child_admitted"
    BY <2>1, <2>2 DEF Replay, Parent!Admitted
  <2>3. CASE e.type = "dispatch_marked"
    BY <2>1, <2>3 DEF Replay, Parent!Marked
  <2>4. CASE e.type = "cancelled"
    BY <2>1, <2>4 DEF Replay, Parent!Cancelled
  <2>5. CASE e.type = "settled"
    BY <2>1, <2>5 DEF Replay, Parent!Settled
  <2>6. CASE e.type \in {"consumed", "overrun"}
    <3>1. Replay(p, e).child = Parent!Consumed(p, e.child).child
      BY <2>1, <2>6 DEF Replay, Parent!Frozen, Parent!Consumed
    <3> DEFINE k == [p.child[e.child] EXCEPT !.state = "consumed", !.settled = p.child[e.child].max]
    <3>2. k.state = "consumed" /\ k.settled = p.child[e.child].max /\ k.max = p.child[e.child].max
      BY <2>1
    <3>3. Parent!Consumed(p, e.child).child = [p.child EXCEPT ![e.child] = k]
      BY DEF Parent!Consumed
    <3> HIDE DEF k
    <3> QED BY <2>1, <2>6, <3>1, <3>2, <3>3
  <2> QED BY <1>2, <2>2, <2>3, <2>4, <2>5, <2>6 DEF ChildEvents, Events
<1> QED BY <1>1, <1>2

(* What a replay that succeeds has asked of the event's child.             *)
LEMMA ReplayNeeds ==
  ASSUME NEW p \in Parent!Parents, NEW e \in ChildEvents, Replayable(p, e)
  PROVE  /\ e.type = "child_admitted" => p.child[e.child].state = "none"
         /\ e.type \in {"dispatch_marked", "cancelled"} => p.child[e.child].state = "admitted"
         /\ e.type = "settled" =>
              /\ p.child[e.child].state \in {"admitted", "dispatch_marked"}
              /\ e.amount <= p.child[e.child].max
         /\ e.type \in {"consumed", "overrun"} => p.child[e.child].state # "none"
BY DEF Replayable, Parent!Admissible, Parent!Open, Parent!OpenChildren, ChildEvents, Events

(* Before it is opened a budget has sent nothing.                          *)
LEMMA SentInit == ASSUME ParentAssumption, BudgetInit PROVE SentInv
BY AuditInit DEF BudgetInit, SentInv, KnownAlike, PaidWithinMax, PaidAlike, SentAreMarked,
                 Parent!Unopened, Parent!PaidChildren

(* Opening a budget touches no child.                                      *)
LEMMA OpenKeepsSent == ASSUME ParentAssumption, SentInv, OpenBudget PROVE SentInv'
<1> USE DEF SentInv
<1>1. budget'.child = budget.child /\ replayed'.child = replayed.child /\ (~broken' => ~broken)
  BY DEF OpenBudget, CutOff, Appended, Torn, Replayable, Replay, Event, AuditInv, BudgetTypeOK,
         Parent!Parents
<1>2. sent' = sent
  BY DEF OpenBudget
<1> QED BY <1>1, <1>2, OpenKeepsAudit DEF KnownAlike, PaidWithinMax, PaidAlike, SentAreMarked

(* Every method keeps object and journal agreed on what was paid.          *)
LEMMA CallKeepsSent ==
  ASSUME ParentAssumption, SentInv, BudgetNext, ~OpenBudget, ~OthersTear PROVE SentInv'
<1> USE DEF SentInv
<1>1. PICK e \in ChildEvents : Does(e)
  BY CallsDoWhatTheyJournal DEF AuditInv
<1>2. budget \in Parent!Parents /\ replayed \in Parent!Parents /\ sent \subseteq Children
  BY DEF AuditInv, BudgetTypeOK
<1>3. Appended(e) => (broken => broken') /\ (broken' => replayed' = replayed)
                     /\ (~broken' => Replayable(replayed, e) /\ replayed' = Replay(replayed, e))
  BY DEF Appended, AuditInv, BudgetTypeOK
<1>4. Appended(e) \/ (replayed' = replayed /\ (~broken' => ~broken) /\ sent' = sent)
  BY <1>1 DEF Does, Journal, CutOff, Torn
<1>5. SentInv'
  <2>1. AuditInv'  BY CallKeepsAudit
  <2>2. KnownAlike'
    <3> SUFFICES ASSUME NEW d \in Children, replayed'.child[d].state # "none"
                 PROVE  budget'.child[d].state # "none" /\ replayed'.child[d].max = budget'.child[d].max
      BY DEF KnownAlike
    <3> DEFINE k == budget.child[d]
    <3>1. replayed.child[d].state # "none" => k.state # "none" /\ replayed.child[d].max = k.max
      BY DEF KnownAlike
    <3>2. k.state # "none" => budget'.child[d].state # "none" /\ budget'.child[d].max = k.max
      <4>1. CASE d # e.child \/ e.type \in {"opened", "frozen", "closed"}
        BY <1>1, <1>2, <4>1, ReplayOfChild DEF Does
      <4>2. CASE d = e.child /\ e.type \notin {"opened", "frozen", "closed"}
        <5>1. k.state # "none" => e.type # "child_admitted"
          BY <1>1, <1>2, <4>2, ReplayNeeds DEF Does
        <5>2. e.type # "child_admitted" => Replay(budget, e).child[d].max = budget.child[d].max
          BY <1>2, <4>2, ReplayOfChild
        <5>3. Replay(budget, e).child[d].state # "none"
          <6>1. e.type \in {"child_admitted", "dispatch_marked", "cancelled", "settled",
                            "consumed", "overrun"}
            BY <4>2 DEF ChildEvents, Events
          <6> QED BY <1>2, <4>2, <6>1, ReplayOfChild
        <5> QED BY <1>1, <5>1, <5>2, <5>3 DEF Does
      <4> QED BY <4>1, <4>2
    <3>3. CASE replayed' = replayed
      BY <3>1, <3>2, <3>3
    <3>4. CASE Replayable(replayed, e) /\ replayed' = Replay(replayed, e)
      <4>1. CASE e.type = "child_admitted" /\ e.child = d
        BY <1>1, <1>2, <4>1, <3>4, ReplayOfChild DEF Does
      <4>2. CASE ~(e.type = "child_admitted" /\ e.child = d)
        <5>1. replayed'.child[d].max = replayed.child[d].max
          BY <1>1, <1>2, <4>2, <3>4, ReplayOfChild
        <5>2. replayed.child[d].state # "none"
          <6>1. CASE d # e.child \/ e.type \in {"opened", "frozen", "closed"}
            BY <1>1, <1>2, <3>4, <6>1, ReplayOfChild
          <6>2. CASE d = e.child /\ e.type \notin {"opened", "frozen", "closed"}
            BY <1>1, <1>2, <3>4, <4>2, <6>2, ReplayNeeds DEF ChildEvents, Events
          <6> QED BY <6>1, <6>2
        <5> QED BY <5>1, <5>2, <3>1, <3>2
      <4> QED BY <4>1, <4>2
    <3> QED BY <1>3, <1>4, <3>3, <3>4
  <2>3. PaidWithinMax'
    <3> SUFFICES ASSUME NEW d \in Children, budget'.child[d].state \in Parent!PaidChildren
                 PROVE  budget'.child[d].settled <= budget'.child[d].max
      BY DEF PaidWithinMax
    <3>1. budget.child[d].state \in Parent!PaidChildren => budget.child[d].settled <= budget.child[d].max
      BY DEF PaidWithinMax
    <3>2. budget.child[d].max \in Nat /\ budget.child[d].settled \in Nat
      BY <1>2 DEF Parent!Parents
    <3>3. CASE d # e.child \/ e.type \in {"opened", "frozen", "closed"}
      <4>1. budget'.child[d] = budget.child[d]
        BY <1>1, <1>2, <3>3, ReplayOfChild DEF Does
      <4> QED BY <3>1, <4>1
    <3>4. CASE d = e.child /\ e.type \notin {"opened", "frozen", "closed"}
      <4>1. CASE e.type = "settled"
        <5>1. e.amount <= budget.child[d].max
          BY <1>1, <1>2, <3>4, <4>1, ReplayNeeds DEF Does
        <5> QED BY <1>1, <1>2, <3>4, <4>1, <5>1, ReplayOfChild DEF Does
      <4>2. CASE e.type \in {"consumed", "overrun"}
        BY <1>1, <1>2, <3>2, <3>4, <4>2, ReplayOfChild DEF Does
      <4>3. CASE e.type \in {"child_admitted", "dispatch_marked", "cancelled"}
        BY <1>1, <1>2, <3>4, <4>3, ReplayOfChild DEF Does, Parent!PaidChildren
      <4> QED BY <3>4, <4>1, <4>2, <4>3 DEF ChildEvents, Events
    <3> QED BY <3>3, <3>4
  <2>4. PaidAlike'
    <3> SUFFICES ASSUME NEW d \in Children, ~broken',
                        replayed'.child[d].state \in Parent!PaidChildren
                 PROVE  /\ budget'.child[d].state \in Parent!PaidChildren
                        /\ replayed'.child[d].settled = budget'.child[d].settled
      BY DEF PaidAlike
    <3>1. ~broken
      BY <1>3, <1>4
    <3>2. replayed.child[d].state \in Parent!PaidChildren =>
            /\ budget.child[d].state \in Parent!PaidChildren
            /\ replayed.child[d].settled = budget.child[d].settled
      BY <3>1 DEF PaidAlike
    <3>3. replayed.child[d].state # "none" => replayed.child[d].max = budget.child[d].max
      BY DEF KnownAlike
    <3>4. CASE d # e.child \/ e.type \in {"opened", "frozen", "closed"}
      <4>1. budget'.child[d] = budget.child[d] /\ replayed'.child[d] = replayed.child[d]
        BY <1>1, <1>2, <1>3, <1>4, <3>4, ReplayOfChild DEF Does
      <4> QED BY <3>2, <4>1
    <3>5. CASE d = e.child /\ e.type \notin {"opened", "frozen", "closed"}
      <4>1. CASE Replayable(replayed, e) /\ replayed' = Replay(replayed, e)
        <5>1. CASE e.type = "settled"
          BY <1>1, <1>2, <3>5, <4>1, <5>1, ReplayOfChild DEF Does, Parent!PaidChildren
        <5>2. CASE e.type \in {"consumed", "overrun"}
          <6>1. replayed.child[d].state # "none"
            BY <1>2, <3>5, <4>1, <5>2, ReplayNeeds
          <6>2. \A p \in Parent!Parents : Replay(p, e).child[d].state = "consumed"
                                        /\ Replay(p, e).child[d].settled = p.child[d].max
            BY <3>5, <5>2, ReplayOfChild
          <6> QED BY <1>1, <1>2, <3>3, <4>1, <6>1, <6>2 DEF Does, Parent!PaidChildren
        <5>3. CASE e.type \in {"child_admitted", "dispatch_marked", "cancelled"}
          BY <1>1, <1>2, <3>5, <4>1, <5>3, ReplayOfChild DEF Parent!PaidChildren
        <5> QED BY <3>5, <5>1, <5>2, <5>3 DEF ChildEvents, Events
      <4>2. CASE replayed' = replayed
        <5>1. /\ budget.child[d].state \in Parent!PaidChildren
              /\ replayed.child[d].settled = budget.child[d].settled
          BY <3>2, <4>2
        <5>2. e.type \in {"consumed", "overrun"} /\ budget.child[d].state = "consumed"
          BY <1>1, <1>2, <3>5, <5>1, ReplayNeeds
             DEF Does, Parent!PaidChildren, Parent!OpenChildren, ChildEvents, Events
        <5>3. budget'.child[d].state = "consumed" /\ budget'.child[d].settled = budget.child[d].max
          BY <1>1, <1>2, <3>5, <5>2, ReplayOfChild DEF Does
        <5>4. budget.child[d].settled = budget.child[d].max
          BY <5>2 DEF AuditInv, ConsumedInFull
        <5> QED BY <4>2, <5>1, <5>3, <5>4 DEF Parent!PaidChildren
      <4> QED BY <1>3, <1>4, <4>1, <4>2
    <3> QED BY <3>4, <3>5
  <2>5. SentAreMarked'
    <3> DEFINE Out == {"dispatch_marked"} \cup Parent!PaidChildren
    <3> SUFFICES ASSUME NEW d \in sent'
                 PROVE  budget'.child[d].state \in Out /\ (~broken' => replayed'.child[d].state \in Out)
      BY DEF SentAreMarked
    <3>1. d \in Children /\ (d \in sent \/ (d = e.child /\ e.type = "dispatch_marked" /\ Appended(e)))
      BY <1>1, <1>2, <2>1 DEF Does, AuditInv, BudgetTypeOK
    <3>2. CASE d = e.child /\ e.type = "dispatch_marked" /\ Appended(e)
      BY <1>1, <1>2, <1>3, <3>1, <3>2, ReplayOfChild DEF Does
    <3>3. CASE d \in sent
      <4>1. budget.child[d].state \in Out /\ (~broken => replayed.child[d].state \in Out)
        BY <3>3 DEF SentAreMarked
      <4>2. ASSUME NEW p \in Parent!Parents, Replayable(p, e), p.child[d].state \in Out
            PROVE  Replay(p, e).child[d].state \in Out
        <5>1. CASE d # e.child \/ e.type \in {"opened", "frozen", "closed"}
          BY <3>1, <4>2, <5>1, ReplayOfChild
        <5>2. CASE d = e.child /\ e.type \notin {"opened", "frozen", "closed"}
          <6>1. e.type \in {"settled", "consumed", "overrun"}
            BY <4>2, <5>2, ReplayNeeds DEF Parent!PaidChildren, ChildEvents, Events
          <6> QED BY <3>1, <4>2, <5>2, <6>1, ReplayOfChild DEF Parent!PaidChildren
        <5> QED BY <5>1, <5>2
      <4> HIDE DEF Out
      <4> QED BY <1>1, <1>2, <1>3, <1>4, <4>1, <4>2 DEF Does
    <3> QED BY <3>1, <3>2, <3>3
  <2> QED BY <2>1, <2>2, <2>3, <2>4, <2>5
<1> QED BY <1>5

(* The invariant is about the variables of the budget only.                *)
LEMMA StutterKeepsSent == SentInv /\ UNCHANGED budgetVars => SentInv'
BY StutterKeepsAudit DEF SentInv, KnownAlike, PaidWithinMax, PaidAlike, SentAreMarked, budgetVars

(* Another run's torn line leaves what was replayed before it.             *)
LEMMA TearKeepsSent == SentInv /\ OthersTear => SentInv'
BY TearKeepsAudit DEF SentInv, KnownAlike, PaidWithinMax, PaidAlike, SentAreMarked, OthersTear, Torn

(* A call that may be out is on the trail, for all losses and crashes: a   *)
(* replay that succeeds reserves what the calls sent have cost.            *)
THEOREM SentIsOnTheTrailAlways ==
  ASSUME ParentAssumption PROVE BudgetSpec => []SentIsOnTheTrail
<1>1. BudgetInit => SentInv
  BY SentInit
<1>2. SentInv /\ [BudgetNext]_budgetVars => SentInv'
  BY OpenKeepsSent, TearKeepsSent, CallKeepsSent, StutterKeepsSent
<1>3. SentInv => SentIsOnTheTrail
  <2> SUFFICES ASSUME SentInv, ~broken, NEW c \in sent
               PROVE  /\ replayed.child[c].state \in {"dispatch_marked"} \cup Parent!PaidChildren
                      /\ budget.child[c].state \in Parent!PaidChildren =>
                           Parent!Reserved(replayed.child[c]) >= budget.child[c].settled
    BY DEF SentIsOnTheTrail
  <2> USE DEF SentInv
  <2>1. c \in Children /\ budget.child[c].settled \in Nat /\ budget.child[c].max \in Nat
    BY DEF AuditInv, BudgetTypeOK, Parent!Parents
  <2>2. replayed.child[c].state \in {"dispatch_marked"} \cup Parent!PaidChildren
    BY DEF SentAreMarked
  <2>3. ASSUME budget.child[c].state \in Parent!PaidChildren
        PROVE  Parent!Reserved(replayed.child[c]) >= budget.child[c].settled
    <3>1. CASE replayed.child[c].state = "dispatch_marked"
      <4>1. Parent!Reserved(replayed.child[c]) = replayed.child[c].max
        BY <3>1 DEF Parent!Reserved, Parent!OpenChildren, Parent!PaidChildren
      <4>2. replayed.child[c].max = budget.child[c].max
        BY <2>1, <3>1 DEF KnownAlike
      <4>3. budget.child[c].settled <= budget.child[c].max
        BY <2>1, <2>3 DEF PaidWithinMax
      <4> QED BY ONLY <2>1, <4>1, <4>2, <4>3
    <3>2. CASE replayed.child[c].state \in Parent!PaidChildren
      <4>1. Parent!Reserved(replayed.child[c]) = replayed.child[c].settled
        BY <3>2 DEF Parent!Reserved, Parent!OpenChildren, Parent!PaidChildren
      <4>2. replayed.child[c].settled = budget.child[c].settled
        BY <2>1, <3>2 DEF PaidAlike
      <4> QED BY <2>1, <4>1, <4>2
    <3> QED BY <2>2, <3>1, <3>2
  <2> QED BY <2>2, <2>3
<1> QED BY <1>1, <1>2, <1>3, PTL DEF BudgetSpec

-----------------------------------------------------------------------------
(* The ceiling. What is committed is a sum over the children, and an event *)
(* changes the summand of one child only.                                  *)
Shares(p) == [c \in Children |-> Parent!Reserved(p.child[c])]

(* What a budget has committed is a sum over its children.                 *)
LEMMA CommittedIsTotal ==
  ASSUME ParentAssumption, NEW p
  PROVE  Parent!Committed(p) = Total(Shares(p), Children)
<1> DEFINE Body(g) == [T \in SUBSET Children |->
                         IF T = {} THEN 0
                         ELSE Parent!Reserved(p.child[CHOOSE c \in T : TRUE])
                              + g[T \ {CHOOSE c \in T : TRUE}]]
           t == CHOOSE g : g = Body(g)
<1>1. Parent!Committed(p) = t[Children]
  BY DEF Parent!Committed, Parent!MapThenSumSet, Parent!MapThenFoldSet
<1>2. ASSUME NEW g PROVE g = Body(g) <=> IsSumTable(g, Shares(p), SUBSET Children)
  <2>1. ASSUME NEW T \in SUBSET Children, T # {}
        PROVE  Shares(p)[Pick(T)] = Parent!Reserved(p.child[Pick(T)])
    BY <2>1 DEF Shares, Pick
  <2>2. ASSUME NEW T \in SUBSET Children PROVE Body(g)[T] = SumStep(Shares(p), g, T)
    BY <2>1 DEF SumStep, Pick
  <2> QED BY <2>2 DEF IsSumTable
<1>3. \E g : g = Body(g)
  <2>1. PICK g : IsSumTable(g, Shares(p), SUBSET Children)
    BY SumTableExists DEF ParentAssumption
  <2>2. g = Body(g)
    BY <1>2, <2>1
  <2> QED BY <2>2
<1>4. t = Body(t)
  BY <1>3
<1>5. IsSumTable(t, Shares(p), SUBSET Children)
  <2> HIDE DEF t, Body
  <2> QED BY <1>2, <1>4
<1> HIDE DEF t
<1> QED BY <1>1, <1>5, TableHoldsTotal DEF ParentAssumption

(* What a child holds is a natural number.                                 *)
LEMMA SharesAreNatural ==
  ASSUME NEW p \in Parent!Parents
  PROVE  \A c \in Children : Shares(p)[c] \in Nat
BY DEF Shares, Parent!Reserved, Parent!Parents

(* The one share an event changes, and by how much.                        *)
LEMMA ShareOfEvent ==
  ASSUME ParentAssumption, NEW p \in Parent!Parents, NEW e \in ChildEvents, Replayable(p, e),
         e.type \in {"consumed", "overrun"} =>
           Shares(p)[e.child] = p.child[e.child].max
  PROVE  \A d \in Children :
           IF d = e.child /\ e.type = "child_admitted"
             THEN Shares(p)[d] = 0 /\ Shares(Replay(p, e))[d] = e.amount
             ELSE Shares(Replay(p, e))[d] <= Shares(p)[d]
<1> SUFFICES ASSUME NEW d \in Children
             PROVE  IF d = e.child /\ e.type = "child_admitted"
                      THEN Shares(p)[d] = 0 /\ Shares(Replay(p, e))[d] = e.amount
                      ELSE Shares(Replay(p, e))[d] <= Shares(p)[d]
  OBVIOUS
<1> DEFINE k == p.child[d]
           r == Replay(p, e).child[d]
<1>1. Replay(p, e) \in Parent!Parents
  BY ReplayKeepsParents
<1>2. /\ k \in [state : Parent!ChildStates, max : Nat, settled : Nat]
      /\ r \in [state : Parent!ChildStates, max : Nat, settled : Nat]
  BY <1>1 DEF Parent!Parents
<1>3. Shares(p)[d] = Parent!Reserved(k) /\ Shares(Replay(p, e))[d] = Parent!Reserved(r)
  BY DEF Shares
<1>4. CASE d # e.child \/ e.type \in {"opened", "frozen", "closed"}
  <2>1. r = k
    BY <1>4, ReplayOfChild
  <2>2. Parent!Reserved(k) \in Nat
    BY <1>2 DEF Parent!Reserved
  <2> QED BY <1>3, <1>4, <2>1, <2>2
<1>5. CASE d = e.child /\ e.type \notin {"opened", "frozen", "closed"}
  <2> HIDE DEF k, r
  <2>1. CASE e.type = "child_admitted"
    <3>1. k.state = "none"
      BY <1>5, <2>1, ReplayNeeds DEF k
    <3>2. r.state = "admitted" /\ r.max = e.amount
      BY <1>5, <2>1, ReplayOfChild DEF r
    <3> QED BY <1>3, <1>5, <2>1, <3>1, <3>2
            DEF Parent!Reserved, Parent!OpenChildren, Parent!PaidChildren
  <2>2. CASE e.type \in {"dispatch_marked", "cancelled"}
    <3>1. k.state = "admitted"
      BY <1>5, <2>2, ReplayNeeds DEF k
    <3>2. r.state \in {"dispatch_marked", "cancelled"} /\ r.max = k.max
      BY <1>5, <2>2, ReplayOfChild DEF r, k
    <3> QED BY <1>2, <1>3, <1>5, <2>2, <3>1, <3>2
            DEF Parent!Reserved, Parent!OpenChildren, Parent!PaidChildren
  <2>3. CASE e.type = "settled"
    <3>1. k.state \in {"admitted", "dispatch_marked"} /\ e.amount <= k.max
      BY <1>5, <2>3, ReplayNeeds DEF k
    <3>2. r.state = "settled" /\ r.settled = e.amount
      BY <1>5, <2>3, ReplayOfChild DEF r
    <3> QED BY <1>2, <1>3, <1>5, <2>3, <3>1, <3>2
            DEF Parent!Reserved, Parent!OpenChildren, Parent!PaidChildren
  <2>4. CASE e.type \in {"consumed", "overrun"}
    <3>1. r.state = "consumed" /\ r.settled = k.max
      BY <1>5, <2>4, ReplayOfChild DEF r, k
    <3>2. Shares(p)[d] = k.max
      BY <1>5, <2>4 DEF k
    <3> QED BY <1>2, <1>3, <1>5, <2>4, <3>1, <3>2
            DEF Parent!Reserved, Parent!OpenChildren, Parent!PaidChildren
  <2> QED BY <1>5, <2>1, <2>2, <2>3, <2>4 DEF ChildEvents, Events
<1> QED BY <1>4, <1>5

(* An event that replays keeps the run under its ceiling.                  *)
LEMMA ReplayKeepsCeiling ==
  ASSUME ParentAssumption, NEW p \in Parent!Parents, NEW e \in ChildEvents, Replayable(p, e),
         Parent!Committed(p) <= Ceiling,
         e.type \in {"consumed", "overrun"} =>
           Shares(p)[e.child] = p.child[e.child].max
  PROVE  Parent!Committed(Replay(p, e)) <= Ceiling
<1> DEFINE q == Replay(p, e)
<1>1. q \in Parent!Parents
  BY ReplayKeepsParents
<1> HIDE DEF q
<1>2. /\ Parent!Committed(p) = Total(Shares(p), Children)
      /\ Parent!Committed(q) = Total(Shares(q), Children)
  BY CommittedIsTotal
<1>3. /\ IsFiniteSet(Children) /\ Ceiling \in Nat
      /\ \A c \in Children : Shares(p)[c] \in Nat /\ Shares(q)[c] \in Nat
  BY <1>1, SharesAreNatural DEF ParentAssumption
<1>4. Total(Shares(p), Children) \in Nat /\ Total(Shares(q), Children) \in Nat
  BY <1>3, TotalIsNat
<1>5. CASE e.type = "child_admitted"
  <2> DEFINE c == e.child
  <2>1. c \in Children /\ e.amount \in Nat
    BY <1>5 DEF ChildEvents, Events
  <2>2. Shares(p)[c] = 0 /\ Shares(q)[c] = e.amount
    BY <1>5, <2>1, ShareOfEvent DEF q
  <2>3. \A d \in Children \ {c} : Shares(q)[d] = Shares(p)[d]
    BY <1>5, ReplayOfChild DEF Shares, q
  <2>4. Total(Shares(q), Children) + Shares(p)[c] = Total(Shares(p), Children) + Shares(q)[c]
    <3> HIDE DEF c
    <3> QED BY <1>3, <2>1, <2>3, TotalChanged
  <2>5. Parent!Committed(p) + e.amount <= Ceiling
    BY <1>5 DEF Replayable, Parent!Admissible
  <2> QED BY <1>2, <1>3, <1>4, <2>1, <2>2, <2>4, <2>5 DEF q
<1>6. CASE e.type # "child_admitted"
  <2>1. \A d \in Children : Shares(q)[d] <= Shares(p)[d]
    BY <1>6, ShareOfEvent DEF q
  <2>2. Total(Shares(q), Children) <= Total(Shares(p), Children)
    BY <1>3, <2>1, TotalGrows
  <2> QED BY <1>2, <1>3, <1>4, <2>2 DEF q
<1> QED BY <1>5, <1>6

(* Nothing the object has cancelled comes back to the journal.             *)
CancelledAlike ==
  \A c \in Children : replayed.child[c].state = "cancelled" =>
    budget.child[c].state = "cancelled"

CeilingInv == SentInv /\ CancelledAlike /\ NeverOversubscribed

(* Before it is opened a budget has committed nothing.                     *)
LEMMA CeilingInit == ASSUME ParentAssumption, BudgetInit PROVE CeilingInv
<1>1. SentInv /\ CancelledAlike
  BY SentInit DEF BudgetInit, CancelledAlike, Parent!Unopened
<1>3. \A c \in Children : Shares(Parent!Unopened)[c] = 0
  BY DEF Shares, Parent!Unopened, Parent!Reserved, Parent!OpenChildren, Parent!PaidChildren
<1>4. Total(Shares(Parent!Unopened), Children) = 0
  BY <1>3, TotalOfZeros DEF ParentAssumption
<1>5. Parent!Committed(Parent!Unopened) = 0
  BY <1>4, CommittedIsTotal
<1>6. Ceiling \in Nat /\ budget = Parent!Unopened /\ replayed = Parent!Unopened
  BY DEF ParentAssumption, BudgetInit
<1> QED BY <1>1, <1>5, <1>6 DEF CeilingInv, NeverOversubscribed

(* Opening commits nothing.                                                *)
LEMMA OpenKeepsCeiling == ASSUME ParentAssumption, CeilingInv, OpenBudget PROVE CeilingInv'
<1> USE DEF CeilingInv
<1>1. budget'.child = budget.child /\ replayed'.child = replayed.child
  BY DEF OpenBudget, CutOff, Appended, Torn, Replayable, Replay, Event, SentInv, AuditInv,
         BudgetTypeOK, Parent!Parents
<1>2. /\ Parent!Committed(budget') = Parent!Committed(budget)
      /\ Parent!Committed(replayed') = Parent!Committed(replayed)
  BY <1>1, CommittedIsTotal DEF Shares
<1> QED BY <1>1, <1>2, OpenKeepsSent DEF CancelledAlike, NeverOversubscribed

(* A call keeps object and journal under the ceiling: where the journal    *)
(* has paid a child that an event consumes, it has paid what the object    *)
(* has, the maximum; and it has not cancelled what the object has not.     *)
LEMMA CallKeepsCeiling ==
  ASSUME ParentAssumption, CeilingInv, BudgetNext, ~OpenBudget, ~OthersTear PROVE CeilingInv'
<1> USE DEF CeilingInv
<1>1. PICK e \in ChildEvents : Does(e)
  BY CallsDoWhatTheyJournal DEF SentInv, AuditInv
<1>2. budget \in Parent!Parents /\ replayed \in Parent!Parents
  BY DEF SentInv, AuditInv, BudgetTypeOK
<1>3. \/ replayed' = replayed
      \/ Replayable(replayed, e) /\ replayed' = Replay(replayed, e) /\ ~broken
  BY <1>1 DEF Does, Journal, CutOff, Appended, Torn, SentInv, AuditInv, BudgetTypeOK
<1>4. e.type \in {"consumed", "overrun"} =>
        /\ e.child \in Children
        /\ budget.child[e.child].state \in Parent!OpenChildren \cup {"consumed"}
  BY <1>1 DEF Does, ChildEvents
<1>5. CancelledAlike'
  <2> SUFFICES ASSUME NEW d \in Children, replayed'.child[d].state = "cancelled"
               PROVE  budget'.child[d].state = "cancelled"
    BY DEF CancelledAlike
  <2>1. replayed.child[d].state = "cancelled" => budget.child[d].state = "cancelled"
    BY DEF CancelledAlike
  <2>2. CASE d # e.child \/ e.type \in {"opened", "frozen", "closed"}
    <3>1. budget'.child[d] = budget.child[d] /\ replayed'.child[d] = replayed.child[d]
      BY <1>1, <1>2, <1>3, <2>2, ReplayOfChild DEF Does
    <3> QED BY <2>1, <3>1
  <2>3. CASE d = e.child /\ e.type = "cancelled"
    BY <1>1, <1>2, <2>3, ReplayOfChild DEF Does
  <2>4. CASE d = e.child /\ e.type \notin {"opened", "frozen", "closed", "cancelled"}
    <3>1. replayed' = replayed
      <4>1. \A p \in Parent!Parents : Replay(p, e).child[d].state # "cancelled"
        BY <2>4, ReplayOfChild DEF ChildEvents, Events
      <4> QED BY <1>2, <1>3, <4>1
    <3>2. budget.child[d].state = "cancelled"
      BY <2>1, <3>1
    <3>3. e.type \notin {"child_admitted", "dispatch_marked", "settled"}
      BY <1>1, <1>2, <2>4, <3>2, ReplayNeeds DEF Does
    <3> QED BY <1>4, <2>4, <3>2, <3>3 DEF ChildEvents, Events, Parent!OpenChildren
  <2> QED BY <2>2, <2>3, <2>4
<1>6. Parent!Committed(budget') <= Ceiling
  <2>1. ASSUME e.type \in {"consumed", "overrun"}
        PROVE  Shares(budget)[e.child] = budget.child[e.child].max
    BY <1>4, <2>1 DEF Shares, Parent!Reserved, Parent!OpenChildren, Parent!PaidChildren,
                      SentInv, AuditInv, ConsumedInFull
  <2>2. Replayable(budget, e) /\ budget' = Replay(budget, e)
    BY <1>1 DEF Does
  <2> QED BY <1>2, <2>1, <2>2, ReplayKeepsCeiling DEF NeverOversubscribed
<1>7. Parent!Committed(replayed') <= Ceiling
  <2>1. CASE replayed' = replayed
    BY <2>1 DEF NeverOversubscribed
  <2>2. CASE Replayable(replayed, e) /\ replayed' = Replay(replayed, e) /\ ~broken
    <3>1. ASSUME e.type \in {"consumed", "overrun"}
          PROVE  Shares(replayed)[e.child] = replayed.child[e.child].max
      <4> DEFINE k == replayed.child[e.child]
                 b == budget.child[e.child]
      <4>1. k.state # "none" /\ k.state \in Parent!ChildStates
        BY <1>2, <1>4, <2>2, <3>1, ReplayNeeds DEF Parent!Parents
      <4>2. k.state # "cancelled"
        BY <1>4, <3>1 DEF CancelledAlike, Parent!OpenChildren
      <4>3. CASE k.state \in Parent!OpenChildren
        <5>1. Parent!Reserved(k) = k.max
          <6> HIDE DEF k
          <6> QED BY <4>3 DEF Parent!Reserved, Parent!OpenChildren, Parent!PaidChildren
        <5> QED BY <1>4, <3>1, <5>1 DEF Shares
      <4>4. CASE k.state \in Parent!PaidChildren
        <5>1. b.state \in Parent!PaidChildren /\ k.settled = b.settled
          BY <1>4, <2>2, <3>1, <4>4 DEF SentInv, PaidAlike
        <5>2. b.state = "consumed"
          BY <1>4, <3>1, <5>1 DEF Parent!PaidChildren, Parent!OpenChildren
        <5>3. b.settled = b.max /\ k.max = b.max
          BY <1>4, <3>1, <4>1, <5>2 DEF SentInv, AuditInv, ConsumedInFull, KnownAlike
        <5>4. Parent!Reserved(k) = k.settled
          BY <4>4 DEF Parent!Reserved, Parent!PaidChildren, Parent!OpenChildren
        <5> QED BY <1>4, <3>1, <5>1, <5>3, <5>4 DEF Shares
      <4> QED BY <4>1, <4>2, <4>3, <4>4 DEF Parent!ChildStates
    <3> QED BY <1>2, <2>2, <3>1, ReplayKeepsCeiling DEF NeverOversubscribed
  <2> QED BY <1>3, <2>1, <2>2
<1> QED BY <1>5, <1>6, <1>7, CallKeepsSent DEF NeverOversubscribed

(* The invariant is about the variables of the budget only.                *)
LEMMA StutterKeepsCeiling == CeilingInv /\ UNCHANGED budgetVars => CeilingInv'
BY StutterKeepsSent DEF CeilingInv, CancelledAlike, NeverOversubscribed, budgetVars

(* Another run's torn line commits nothing.                                *)
LEMMA TearKeepsCeiling == CeilingInv /\ OthersTear => CeilingInv'
BY TearKeepsSent DEF CeilingInv, CancelledAlike, NeverOversubscribed, OthersTear, Torn

(* The budget is kept through every crash and failed append: object and    *)
(* journal stay under the ceiling, what may be out is on every trail that  *)
(* replays, and a crash leaves one that does unless it cut a line.         *)
THEOREM BudgetIsAlwaysKept ==
  ASSUME ParentAssumption PROVE BudgetSpec => []BudgetIsKept
<1>1. BudgetInit => CeilingInv
  BY CeilingInit
<1>2. CeilingInv /\ [BudgetNext]_budgetVars => CeilingInv'
  BY OpenKeepsCeiling, TearKeepsCeiling, CallKeepsCeiling, StutterKeepsCeiling
<1>3. CeilingInv => NeverOversubscribed
  BY DEF CeilingInv
<1> QED BY <1>1, <1>2, <1>3, SentIsOnTheTrailAlways, CrashLeavesATrailAlways, PTL
        DEF BudgetSpec, BudgetIsKept
-----------------------------------------------------------------------------
(* The three of them together.                                             *)

(* Each part by itself keeps its own invariant, and one that is not        *)
(* touched keeps what it has.                                              *)
LEMMA RemoteStep ==
  ASSUME A2AAssumption, ScopedAssumption, ParentAssumption,
         A2AInv, KeyInv, AuditInv,
         [RemoteNext]_<<a2aVars, scopedVars, budgetVars>>
  PROVE  A2AInv' /\ KeyInv' /\ AuditInv'
<1>1. [A2ANext]_a2aVars /\ [ScopedNext]_scopedVars /\ [BudgetNext]_budgetVars
  BY DEF RemoteNext, TasksAlone, CallsAlone, BudgetAlone
<1>2. A2AInv'
  BY <1>1, StepKeepsTasks
<1>3. KeyInv'
  BY <1>1, StepKeepsKey
<1>4. AuditInv'
  BY <1>1, OpenKeepsAudit, TearKeepsAudit, CallKeepsAudit, StutterKeepsAudit
<1> QED BY <1>2, <1>3, <1>4

(* Whatever part the server is busy with, every variable of the A2A tasks, *)
(* of the scoped calls and of the parent budget has its type.              *)
THEOREM RemoteTypesAreKept ==
  ASSUME A2AAssumption, ScopedAssumption, ParentAssumption
  PROVE  RemoteSpec => []RemoteTypesOK
<1> DEFINE Inv == A2AInv /\ KeyInv /\ AuditInv
<1>1. RemoteInit => Inv
  BY A2AInitially, KeyInit, AuditInit DEF RemoteInit
<1>2. Inv /\ [RemoteNext]_<<a2aVars, scopedVars, budgetVars>> => Inv'
  BY RemoteStep
<1>3. Inv => RemoteTypesOK
  BY DEF A2AInv, KeyInv, AuditInv, RemoteTypesOK
<1> QED BY <1>1, <1>2, <1>3, PTL DEF RemoteSpec
=============================================================================
