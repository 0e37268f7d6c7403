------------------------ MODULE GatewayState_proofs ------------------------
(***************************************************************************)
(* What every proof about the gateway's session uses: the operators of     *)
(* GatewayState and GatewayStep, the bounded lists, the money of several   *)
(* calls.                                                                  *)
(***************************************************************************)
EXTENDS GatewayStep, FiniteSetTheorems, SequenceTheorems, WellFoundedInduction, TLAPS

-----------------------------------------------------------------------------
(* Induction. *)

\* The least of some natural numbers.
LEMMA LeastNatural ==
  ASSUME NEW T \in SUBSET Nat, T # {}
  PROVE  \E m \in T : \A k \in T : m <= k
  <1>1. PICK m \in T : \A k \in T : <<k, m>> \notin OpToRel(<, Nat)
    BY NatLessThanWellFounded, WFMin, Zenon
  <1>2. \A k \in T : ~ (k < m)
    BY <1>1, Zenon DEF OpToRel
  <1> QED BY <1>2

\* Induction, for a set instead of a predicate.
LEMMA SetInduction ==
  ASSUME NEW S \in SUBSET Nat, 0 \in S, \A n \in S : n + 1 \in S
  PROVE  S = Nat
  <1> SUFFICES ASSUME Nat \ S # {} PROVE FALSE
    OBVIOUS
  <1>1. PICK m \in Nat \ S : \A k \in Nat \ S : m <= k
    BY LeastNatural
  <1>2. m # 0 /\ m - 1 \in Nat
    BY <1>1
  <1>3. m - 1 \in S
    BY <1>1, <1>2
  <1> QED BY <1>1, <1>3

-----------------------------------------------------------------------------
(* Bounded lists. *)

\* Appending to a list of at most max entries.
PushedOnto(p, e, max) == Append(IF Len(p) = max THEN Tail(p) ELSE p, e)
ElementOf(e, p) == \E j \in DOMAIN p : p[j] = e

\* The new entry is the last; the others move up by one if the list was full.
LEMMA PushedAt ==
  ASSUME NEW S, NEW p \in Seq(S), NEW e \in S, NEW max \in Nat \ {0}
  PROVE  LET q == PushedOnto(p, e, max)
             n == Len(p)
         IN  /\ q \in Seq(S) /\ n \in Nat /\ DOMAIN p = 1..n /\ DOMAIN q = 1..Len(q)
             /\ n # max => Len(q) = n + 1 /\ q[n + 1] = e /\ \A i \in 1..n : q[i] = p[i]
             /\ n = max => Len(q) = n /\ q[n] = e /\ \A i \in 1..(n - 1) : q[i] = p[i + 1]
  <1> DEFINE n == Len(p)
             q == PushedOnto(p, e, max)
  <1>1. n \in Nat /\ DOMAIN p = 1..n
    BY LenProperties
  <1>2. CASE n # max
    <2>1. q = Append(p, e)
      BY <1>2 DEF PushedOnto
    <2> HIDE DEF q, n
    <2>2. q \in Seq(S) /\ Len(q) = n + 1 /\ q[n + 1] = e /\ \A i \in 1..n : q[i] = p[i]
      BY <2>1, AppendProperties DEF n
    <2> QED BY <1>1, <1>2, <2>2, LenProperties DEF q, n
  <1>3. CASE n = max
    <2> DEFINE r == Tail(p)
               l == Len(r)
    <2>1. q = Append(r, e) /\ p # <<>>
      BY <1>3 DEF PushedOnto
    <2>2. r \in Seq(S) /\ l = n - 1 /\ \A i \in 1..l : r[i] = p[i + 1]
      BY <2>1, HeadTailProperties
    <2> HIDE DEF q, n, r
    <2>3. q \in Seq(S) /\ Len(q) = l + 1 /\ q[l + 1] = e /\ \A i \in 1..l : q[i] = r[i]
      BY <2>1, <2>2, AppendProperties
    <2>4. l \in Nat
      BY <2>2, LenProperties
    <2> HIDE DEF l
    <2>5. Len(q) = n /\ q[n] = e /\ \A i \in 1..(n - 1) : q[i] = p[i + 1]
      BY <1>1, <2>2, <2>3, <2>4
    <2> QED BY <1>1, <1>3, <2>3, <2>5, LenProperties DEF q, n
  <1> QED BY <1>2, <1>3

\* The list has the new entry, and drops at most the first one of a full list.
LEMMA Pushed ==
  ASSUME NEW S, NEW p \in Seq(S), NEW e \in S, NEW max \in Nat \ {0}
  PROVE  /\ ElementOf(e, PushedOnto(p, e, max))
         /\ \A i \in DOMAIN p :
               ElementOf(p[i], PushedOnto(p, e, max)) \/ (i = 1 /\ Len(p) = max)
  <1> DEFINE n == Len(p)
             q == PushedOnto(p, e, max)
             m == Len(q)
  <1>1. /\ n \in Nat /\ DOMAIN p = 1..n /\ DOMAIN q = 1..m
        /\ n # max => m = n + 1 /\ q[n + 1] = e /\ \A i \in 1..n : q[i] = p[i]
        /\ n = max => m = n /\ q[n] = e /\ \A i \in 1..(n - 1) : q[i] = p[i + 1]
    BY PushedAt
  <1> HIDE DEF q, m, n
  <1>2. \E j \in DOMAIN q : q[j] = e
    <2>1. n # max => n + 1 \in 1..m
      BY <1>1
    <2>2. n = max => n \in 1..m
      BY <1>1
    <2> QED BY <1>1, <2>1, <2>2
  <1>3. ASSUME NEW i \in 1..n PROVE (\E j \in DOMAIN q : q[j] = p[i]) \/ (i = 1 /\ n = max)
    <2>1. CASE n # max
      <3>1. i \in 1..m
        BY <1>1, <2>1
      <3> QED BY <1>1, <2>1, <3>1
    <2>2. CASE n = max /\ i # 1
      <3>1. i - 1 \in 1..(n - 1) /\ i - 1 \in 1..m /\ (i - 1) + 1 = i
        BY <1>1, <2>2
      <3> QED BY <1>1, <2>2, <3>1
    <2> QED BY <2>1, <2>2
  <1> QED BY <1>1, <1>2, <1>3 DEF q, n, ElementOf

\* A list without its k-th entry; what is at position j was at Beyond(j, k).
WithoutAt(p, k) == SubSeq(p, 1, k - 1) \o SubSeq(p, k + 1, Len(p))
Beyond(j, k) == IF j < k THEN j ELSE j + 1

LEMMA RemovedAt ==
  ASSUME NEW S, NEW p \in Seq(S), NEW k \in DOMAIN p
  PROVE  LET q == WithoutAt(p, k)
             n == Len(p)
         IN  /\ q \in Seq(S) /\ n \in Nat \ {0} /\ DOMAIN p = 1..n
             /\ Len(q) = n - 1 /\ DOMAIN q = 1..(n - 1)
             /\ \A j \in 1..(n - 1) : Beyond(j, k) \in (1..n) \ {k} /\ q[j] = p[Beyond(j, k)]
  <1> DEFINE n == Len(p)
             a == SubSeq(p, 1, k - 1)
             b == SubSeq(p, k + 1, n)
             q == a \o b
  <1>1. n \in Nat /\ DOMAIN p = 1..n /\ k \in 1..n /\ \A i \in 1..n : p[i] \in S
    BY LenProperties, ElementOfSeq
  <1> HIDE DEF n
  <1>2. a \in Seq(S) /\ Len(a) = k - 1 /\ \A j \in 1..(k - 1) : a[j] = p[j]
    <2>1. k - 1 \in Int /\ \A j \in 1..(k - 1) : p[j] \in S
      BY <1>1
    <2>2. /\ a \in Seq(S) /\ Len(a) = (IF 1 <= k - 1 THEN k - 1 - 1 + 1 ELSE 0)
          /\ \A j \in 1..(k - 1 - 1 + 1) : a[j] = p[1 + j - 1]
      BY <2>1, SubSeqProperties
    <2> HIDE DEF a
    <2> QED BY <1>1, <2>2
  <1>3. b \in Seq(S) /\ Len(b) = n - k /\ \A j \in 1..(n - k) : b[j] = p[k + j]
    <2>1. k + 1 \in Int /\ n \in Int /\ \A j \in (k + 1)..n : p[j] \in S
      BY <1>1
    <2>2. /\ b \in Seq(S) /\ Len(b) = (IF k + 1 <= n THEN n - (k + 1) + 1 ELSE 0)
          /\ \A j \in 1..(n - (k + 1) + 1) : b[j] = p[(k + 1) + j - 1]
      BY <2>1, SubSeqProperties
    <2> HIDE DEF b
    <2>3. Len(b) = n - k /\ n - (k + 1) + 1 = n - k
      BY <1>1, <2>2
    <2>4. ASSUME NEW j \in 1..(n - k) PROVE b[j] = p[k + j]
      <3>1. (k + 1) + j - 1 = k + j
        BY <1>1
      <3>2. b[j] = p[(k + 1) + j - 1]
        BY <2>2, <2>3
      <3> QED BY <3>1, <3>2
    <2> QED BY <2>2, <2>3, <2>4
  <1> HIDE DEF a, b
  <1>4. /\ q \in Seq(S) /\ Len(q) = Len(a) + Len(b)
        /\ \A i \in 1..(Len(a) + Len(b)) : q[i] = IF i <= Len(a) THEN a[i] ELSE b[i - Len(a)]
    BY <1>2, <1>3, ConcatProperties
  <1> HIDE DEF q
  <1>5. DOMAIN q = 1..(n - 1)
    <2>1. DOMAIN q = 1..Len(q)
      BY <1>4, LenProperties
    <2> QED BY <1>1, <1>2, <1>3, <1>4, <2>1
  <1>6. ASSUME NEW j \in 1..(n - 1)
        PROVE  Beyond(j, k) \in (1..n) \ {k} /\ q[j] = p[Beyond(j, k)]
    <2>0. j \in 1..(Len(a) + Len(b))
      BY <1>1, <1>2, <1>3
    <2>1. CASE j < k
      <3>1. j \in 1..(k - 1) /\ j \in (1..n) \ {k} /\ j <= Len(a)
        BY <1>1, <1>2, <2>1
      <3> QED BY <1>2, <1>4, <2>0, <2>1, <3>1 DEF Beyond
    <2>2. CASE ~(j < k)
      <3> DEFINE h == j + 1 - k
      <3>1. /\ h \in 1..(n - k) /\ k + h = j + 1 /\ j + 1 \in (1..n) \ {k}
            /\ ~(j <= Len(a)) /\ j - Len(a) = h
        BY <1>1, <1>2, <2>2
      <3> HIDE DEF h
      <3> QED BY <1>3, <1>4, <2>0, <2>2, <3>1 DEF Beyond
    <2> QED BY <2>1, <2>2
  <1>8. n \in Nat \ {0} /\ Len(q) = n - 1
    BY <1>1, <1>2, <1>3, <1>4
  <1> QED BY <1>1, <1>4, <1>5, <1>6, <1>8 DEF q, a, b, n, WithoutAt

\* Taking one element out keeps the others.
LEMMA TakenOut ==
  ASSUME NEW S, NEW p \in Seq(S), NEW k \in DOMAIN p
  PROVE  \A i \in DOMAIN p : i = k \/ \E j \in DOMAIN WithoutAt(p, k) : WithoutAt(p, k)[j] = p[i]
  <1> DEFINE q == WithoutAt(p, k)
             n == Len(p)
  <1>1. /\ n \in Nat /\ DOMAIN p = 1..n /\ DOMAIN q = 1..(n - 1)
        /\ \A j \in 1..(n - 1) : q[j] = p[Beyond(j, k)]
    BY RemovedAt
  <1> HIDE DEF q, n
  <1>2. ASSUME NEW i \in 1..n, i # k PROVE \E j \in DOMAIN q : q[j] = p[i]
    <2>1. CASE i < k
      <3>1. i \in 1..(n - 1) /\ Beyond(i, k) = i
        BY <1>1, <2>1 DEF Beyond
      <3> QED BY <1>1, <3>1
    <2>2. CASE i > k
      <3>1. i - 1 \in 1..(n - 1) /\ Beyond(i - 1, k) = i
        BY <1>1, <2>2 DEF Beyond
      <3> QED BY <1>1, <3>1
    <2> QED BY <1>1, <1>2, <2>1, <2>2
  <1> QED BY <1>1, <1>2 DEF q

-----------------------------------------------------------------------------
(* Money. *)

\* n cents of call c.
LEMMA CentsCount ==
  ASSUME NEW c, NEW n \in Nat
  PROVE  IsFiniteSet({c} \X (1..n)) /\ Cardinality({c} \X (1..n)) = n
  <1>1. IsFiniteSet(1..n) /\ Cardinality(1..n) = n
    BY FS_Interval
  <1>2. IsFiniteSet({c}) /\ Cardinality({c}) = 1
    BY FS_Singleton
  <1>3. /\ IsFiniteSet({c} \X (1..n))
        /\ Cardinality({c} \X (1..n)) = 1 * Cardinality(1..n)
    BY <1>1, <1>2, FS_Product
  <1> QED BY <1>1, <1>3

-----------------------------------------------------------------------------
(* The operators on sessions and contexts keep their types. *)

\* Sessions whose lists respect their bounds, as TypeOK requires.
Bounded(s) == /\ s \in SessionType
              /\ Len(s.recent) <= RecentMax /\ s.stale <= Len(s.recent)
              /\ Len(s.pending) <= MaxPending

LEMMA CostType == ASSUME NEW x \in ContextType
                  PROVE  /\ Cost(x) \in Nat
                         /\ ApprovalKey(x) \in Tools \X Args
                         /\ ApprovalKey(x) \in Keys /\ WildcardKey(x) \in Keys
  BY StateAssumption DEF ContextType, Cost, ManifestType, ApprovalKey, WildcardKey,
                         Keys

\* Dropping the oldest entry of a full list and appending one keeps the bound.
LEMMA PushType ==
  ASSUME NEW S, NEW q \in Seq(S), NEW e \in S, NEW n \in Nat \ {0}, Len(q) <= n
  PROVE  LET full == Len(q) = n
             r == Append(IF full THEN Tail(q) ELSE q, e)
         IN  /\ r \in Seq(S) /\ Len(r) <= n
             /\ Len(r) = IF full THEN Len(q) ELSE Len(q) + 1
  <1>1. CASE Len(q) = n
    <2>1. q # <<>> /\ Len(q) \in Nat
      BY <1>1, EmptySeq, LenProperties
    <2>2. Tail(q) \in Seq(S) /\ Len(Tail(q)) = Len(q) - 1
      BY <2>1, HeadTailProperties
    <2>3. Append(Tail(q), e) \in Seq(S) /\ Len(Append(Tail(q), e)) = Len(q) - 1 + 1
      BY <2>2, AppendProperties
    <2> QED BY <1>1, <2>1, <2>3
  <1>2. CASE Len(q) # n
    <2>1. Append(q, e) \in Seq(S) /\ Len(Append(q, e)) = Len(q) + 1
      BY AppendProperties
    <2>2. Len(q) \in Nat
      BY LenProperties
    <2> QED BY <1>2, <2>1, <2>2
  <1> QED BY <1>1, <1>2

LEMMA RecordCallType ==
  ASSUME NEW s, Bounded(s), NEW x \in ContextType
  PROVE  /\ Bounded(RecordCall(s, x))
         /\ RecordCall(s, x).used = s.used /\ RecordCall(s, x).reserved = s.reserved
  <1> DEFINE r == RecordCall(s, x)
             full == Len(s.recent) = RecentMax
             q == Append(IF full THEN Tail(s.recent) ELSE s.recent, ApprovalKey(x))
             st == IF full /\ s.stale > 0 THEN s.stale - 1 ELSE s.stale
  <1>1. s \in SessionType /\ ApprovalKey(x) \in Tools \X Args
    BY CostType DEF Bounded
  <1>2. /\ q \in Seq(Tools \X Args) /\ Len(q) <= RecentMax
        /\ Len(q) = IF full THEN Len(s.recent) ELSE Len(s.recent) + 1
    BY <1>1, PushType, StateAssumption DEF Bounded, SessionType
  <1>3. r = [s EXCEPT !.recent = q, !.stale = st]
    BY <1>1 DEF RecordCall, SessionType
  <1>4. Len(s.recent) \in Nat
    BY <1>1, LenProperties DEF SessionType
  <1>5. st \in Nat /\ st <= Len(q)
    BY <1>1, <1>2, <1>4 DEF Bounded, SessionType
  <1>6. q \in Seq(Tools \X Args) /\ Len(q) <= RecentMax
    BY <1>2
  <1> HIDE DEF r, q, st
  <1>7. r \in SessionType /\ r.recent = q /\ r.pending = s.pending /\ r.stale = st
        /\ r.used = s.used /\ r.reserved = s.reserved
    BY <1>1, <1>3, <1>5, <1>6 DEF SessionType
  <1> QED BY <1>5, <1>6, <1>7 DEF Bounded, r

LEMMA AddPendingType ==
  ASSUME NEW s, Bounded(s), NEW id \in ApprovalIds, NEW key \in Keys
  PROVE  /\ Bounded(AddPending(s, id, key))
         /\ AddPending(s, id, key).used = s.used
         /\ AddPending(s, id, key).reserved = s.reserved
  <1> DEFINE r == AddPending(s, id, key)
             full == Len(s.pending) = MaxPending
             e == [id |-> id, key |-> key]
             q == Append(IF full THEN Tail(s.pending) ELSE s.pending, e)
  <1>1. s \in SessionType /\ e \in [id : ApprovalIds, key : Keys]
    BY DEF Bounded
  <1>2. q \in Seq([id : ApprovalIds, key : Keys]) /\ Len(q) <= MaxPending
    BY <1>1, PushType, StateAssumption DEF Bounded, SessionType
  <1>3. r = [s EXCEPT !.pending = q]
    BY <1>1 DEF AddPending, SessionType
  <1> HIDE DEF r, q
  <1> QED BY <1>1, <1>2, <1>3 DEF Bounded, SessionType, r

LEMMA RedeemPendingType ==
  ASSUME NEW s, Bounded(s), NEW i \in DOMAIN s.pending
  PROVE  /\ Bounded(RedeemPending(s, i)) /\ s.pending[i].key \in Keys
         /\ RedeemPending(s, i).used = s.used
         /\ RedeemPending(s, i).reserved = s.reserved
  <1> DEFINE S == [id : ApprovalIds, key : Keys]
             p == s.pending
             a == SubSeq(p, 1, i - 1)
             b == SubSeq(p, i + 1, Len(p))
             r == RedeemPending(s, i)
  <1>1. p \in Seq(S) /\ Len(p) \in Nat /\ i \in 1..Len(p) /\ p[i] \in S
        /\ \A j \in 1..Len(p) : p[j] \in S
    BY LenProperties, ElementOfSeq DEF Bounded, SessionType
  <1>2. a \in Seq(S) /\ Len(a) = i - 1
    BY <1>1, SubSeqProperties
  <1>3. b \in Seq(S) /\ Len(b) = Len(p) - i
    BY <1>1, SubSeqProperties
  <1> DEFINE q == a \o b
             k == p[i].key
  <1>4. q \in Seq(S) /\ Len(q) = Len(p) - 1
    <2> HIDE DEF a, b, p
    <2>1. q \in Seq(S) /\ Len(q) = Len(a) + Len(b)
      BY <1>2, <1>3, ConcatProperties
    <2> QED BY <1>1, <1>2, <1>3, <2>1
  <1>5. RedeemPending(s, i) = [s EXCEPT !.approvals = s.approvals \cup {k},
                                        !.pending = q]
    BY DEF RedeemPending, Bounded, SessionType
  <1>6. Len(q) <= MaxPending
    <2>1. Len(p) <= MaxPending /\ MaxPending \in Nat
      BY StateAssumption DEF Bounded
    <2> HIDE DEF p, q
    <2> QED BY <1>1, <1>4, <2>1
  <1>7. s \in SessionType /\ k \in Keys
    BY <1>1 DEF Bounded
  <1> HIDE DEF a, b, q, k
  <1> DEFINE g == s.approvals \cup {k}
  <1>8. g \in SUBSET Keys
    BY <1>7 DEF SessionType
  <1> HIDE DEF g
  <1>9. [s EXCEPT !.approvals = g, !.pending = q] \in SessionType
    BY <1>4, <1>7, <1>8 DEF SessionType
  <1>10. /\ RedeemPending(s, i).pending = q
         /\ RedeemPending(s, i).recent = s.recent
         /\ RedeemPending(s, i).stale = s.stale
         /\ RedeemPending(s, i).used = s.used
         /\ RedeemPending(s, i).reserved = s.reserved
    BY <1>5, <1>7 DEF SessionType, g
  <1> QED BY <1>5, <1>6, <1>7, <1>9, <1>10 DEF Bounded, k, g

\* Fields outside the lists may take any value of their type.
LEMMA FieldsType ==
  ASSUME NEW s, Bounded(s)
  PROVE  /\ \A n \in Nat : Bounded([s EXCEPT !.reserved = n])
         /\ \A n \in Nat : Bounded([s EXCEPT !.used = n])
         /\ \A t \in BOOLEAN : Bounded([s EXCEPT !.tainted = t])
         /\ \A a \in SUBSET Keys : Bounded([s EXCEPT !.approvals = a])
         /\ \A n \in Nat : n <= Len(s.recent) => Bounded([s EXCEPT !.stale = n])
  BY DEF Bounded, SessionType

\* reserve adds the cost of a context that holds nothing, and marks it.
LEMMA ReserveType ==
  ASSUME NEW s, Bounded(s), NEW x \in ContextType
  PROVE  LET r == Reserve(s, x)
         IN  /\ Bounded(r[1]) /\ r[2] \in ContextType
             /\ r[2].tool = x.tool /\ r[1].used = s.used
             /\ x.reserved = 0 => /\ r[1].reserved = s.reserved + Cost(x)
                                  /\ r[2].reserved = Cost(x)
             /\ x.reserved # 0 => /\ r[1].reserved = s.reserved
                                  /\ r[2].reserved = x.reserved
  <1> DEFINE h == RecordCall(s, x)
             n == s.reserved + Cost(x)
  <1>1. Bounded(h) /\ h.used = s.used /\ h.reserved = s.reserved
    BY RecordCallType
  <1>2. Cost(x) \in Nat /\ s.reserved \in Nat /\ x.reserved \in Nat
    BY CostType DEF Bounded, SessionType, ContextType
  <1> HIDE DEF h
  <1>3. Bounded([h EXCEPT !.reserved = n])
    BY <1>1, <1>2, FieldsType
  <1>4. h \in SessionType
    BY <1>1 DEF Bounded
  <1>5. /\ [h EXCEPT !.reserved = n].reserved = n
        /\ [h EXCEPT !.reserved = n].used = s.used
    BY <1>1, <1>4 DEF SessionType
  <1>6. /\ [x EXCEPT !.reserved = Cost(x)] \in ContextType
        /\ [x EXCEPT !.reserved = Cost(x)].tool = x.tool
        /\ [x EXCEPT !.reserved = Cost(x)].reserved = Cost(x)
    BY <1>2 DEF ContextType
  <1> DEFINE h1 == [h EXCEPT !.reserved = n]
             x1 == [x EXCEPT !.reserved = Cost(x)]
  <1>7. Reserve(s, x) = IF Cost(x) = 0 \/ x.reserved > 0 THEN <<h, x>> ELSE <<h1, x1>>
    BY <1>1, <1>4 DEF Reserve, h, SessionType
  <1>8. CASE Cost(x) = 0 \/ x.reserved > 0
    BY <1>1, <1>2, <1>7, <1>8
  <1>9. CASE ~(Cost(x) = 0 \/ x.reserved > 0)
    <2>1. /\ Bounded(h1) /\ h1.reserved = n /\ h1.used = s.used
          /\ x1 \in ContextType /\ x1.tool = x.tool /\ x1.reserved = Cost(x)
      BY <1>3, <1>5, <1>6
    <2> HIDE DEF h1, x1
    <2>2. Reserve(s, x)[1] = h1 /\ Reserve(s, x)[2] = x1 /\ x.reserved = 0
      BY <1>2, <1>7, <1>9
    <2> QED BY <1>2, <2>1, <2>2
  <1> QED BY <1>8, <1>9

\* release takes the reservation back, never below zero, and clears the mark.
LEMMA ReleaseType ==
  ASSUME NEW s, Bounded(s), NEW x \in ContextType
  PROVE  LET r == Release(s, x)
         IN  /\ Bounded(r[1]) /\ r[2] \in ContextType
             /\ r[2].tool = x.tool /\ r[2].reserved = 0
             /\ r[1].used = s.used
             /\ r[1].reserved = IF s.reserved > x.reserved
                                  THEN s.reserved - x.reserved ELSE 0
  <1> DEFINE n == IF s.reserved > x.reserved THEN s.reserved - x.reserved ELSE 0
  <1>1. s \in SessionType /\ n \in Nat
    BY DEF Bounded, SessionType, ContextType
  <1>2. Release(s, x) = << [s EXCEPT !.reserved = n], [x EXCEPT !.reserved = 0] >>
    BY <1>1 DEF Release, SessionType
  <1> HIDE DEF n
  <1>3. /\ Bounded([s EXCEPT !.reserved = n])
        /\ [s EXCEPT !.reserved = n].used = s.used
        /\ [s EXCEPT !.reserved = n].reserved = n
    BY <1>1, FieldsType DEF SessionType
  <1>4. /\ [x EXCEPT !.reserved = 0] \in ContextType
        /\ [x EXCEPT !.reserved = 0].tool = x.tool
        /\ [x EXCEPT !.reserved = 0].reserved = 0
    BY DEF ContextType
  <1> DEFINE s1 == [s EXCEPT !.reserved = n]
             x1 == [x EXCEPT !.reserved = 0]
  <1>5. /\ Bounded(s1) /\ s1.used = s.used /\ s1.reserved = n
        /\ x1 \in ContextType /\ x1.tool = x.tool /\ x1.reserved = 0
        /\ Release(s, x) = <<s1, x1>>
    BY <1>2, <1>3, <1>4
  <1> HIDE DEF s1, x1
  <1>6. Release(s, x)[1] = s1 /\ Release(s, x)[2] = x1
    BY <1>5
  <1> QED BY <1>5, <1>6 DEF n

\* settle is a release followed by the charge of the full cost.
LEMMA SettleType ==
  ASSUME NEW s, Bounded(s), NEW x \in ContextType
  PROVE  LET r == Settle(s, x)
         IN  /\ Bounded(r[1]) /\ r[2] \in ContextType
             /\ r[2].tool = x.tool /\ r[2].reserved = 0
             /\ r[1].used = s.used + Cost(x)
             /\ r[1].reserved = IF s.reserved > x.reserved
                                  THEN s.reserved - x.reserved ELSE 0
  <1> DEFINE h == Release(s, x)[1]
             n == s.used + Cost(x)
  <1>1. /\ Bounded(h) /\ h.used = s.used
        /\ h.reserved = IF s.reserved > x.reserved THEN s.reserved - x.reserved ELSE 0
        /\ Release(s, x)[2] \in ContextType
        /\ Release(s, x)[2].tool = x.tool /\ Release(s, x)[2].reserved = 0
    BY ReleaseType
  <1>2. n \in Nat
    BY CostType DEF Bounded, SessionType
  <1> HIDE DEF h
  <1>3. h \in SessionType
    BY <1>1 DEF Bounded
  <1>4. Settle(s, x) = << [h EXCEPT !.used = n], Release(s, x)[2] >>
    BY <1>1, <1>3 DEF Settle, h, SessionType
  <1>5. /\ Bounded([h EXCEPT !.used = n])
        /\ [h EXCEPT !.used = n].used = n
        /\ [h EXCEPT !.used = n].reserved = h.reserved
    BY <1>1, <1>2, <1>3, FieldsType DEF SessionType
  <1> DEFINE h1 == [h EXCEPT !.used = n]
             x1 == Release(s, x)[2]
  <1>6. /\ Bounded(h1) /\ h1.used = n /\ h1.reserved = h.reserved
        /\ x1 \in ContextType /\ x1.tool = x.tool /\ x1.reserved = 0
        /\ Settle(s, x) = <<h1, x1>>
    BY <1>1, <1>4, <1>5
  <1> HIDE DEF h1, x1
  <1>7. Settle(s, x)[1] = h1 /\ Settle(s, x)[2] = x1
    BY <1>6
  <1> QED BY <1>1, <1>6, <1>7

LEMMA AfterStageType ==
  ASSUME NEW s, Bounded(s), NEW x \in ContextType, NEW st
  PROVE  /\ Bounded(AfterStage(s, x, st))
         /\ AfterStage(s, x, st).used = s.used
         /\ AfterStage(s, x, st).reserved = s.reserved
  <1>1. s \in SessionType
    BY DEF Bounded
  <1>2. /\ [s EXCEPT !.tainted = TRUE].used = s.used
        /\ [s EXCEPT !.tainted = TRUE].reserved = s.reserved
        /\ Bounded([s EXCEPT !.tainted = TRUE])
    BY <1>1, FieldsType DEF SessionType
  <1> QED BY <1>2 DEF AfterStage

LEMMA StagesType == /\ Len(Stages) \in Nat \ {0} /\ DOMAIN Stages = 1..Len(Stages)
                    /\ \A i \in DOMAIN Stages : Stages[i] \in StageNames
  BY StateAssumption, EmptySeq, LenProperties, ElementOfSeq

Listed(st) == \E i \in DOMAIN Stages : Stages[i] = st

\* No rewriting comes after stage st.
Follows(st) ==
    Listed(st) /\ \A i, j \in DOMAIN Stages : Stages[i] = "policy" /\ Stages[j] = st => i < j

\* The stages that may ask are there, the policy before the others.
AskingStages == Listed("policy") /\ Follows("taint") /\ Follows("risk")

\* Only the policy rewrites.
LEMMA OnlyPolicyRewrites ==
  ASSUME NEW s, NEW x, NEW st \in StageNames, "transform" \in Verdicts(s, x, st)
  PROVE  st = "policy"
  BY DEF StageNames, Verdicts, SchemaVerdict, ScopeVerdict, TaintVerdict, RiskVerdict,
         GuardVerdict, LoopVerdict, BudgetVerdict

LEMMA VerdictsType ==
  ASSUME NEW s, NEW x \in ContextType, NEW st \in StageNames
  PROVE  Verdicts(s, x, st) \subseteq Decisions
  <1>1. ApprovalKey(x) \in Tools \X Args
    BY CostType
  <1>2. PolicyVerdict(s, x) \in Decisions
    <2>1. Policy[ApprovalKey(x)] \in Decisions
      BY <1>1, StateAssumption
    <2> QED BY <2>1 DEF PolicyVerdict, Decisions
  <1> QED BY <1>2 DEF Decisions, StageNames, Verdicts, SchemaVerdict, ScopeVerdict, TaintVerdict,
             RiskVerdict, GuardVerdict, LoopVerdict, BudgetVerdict

-----------------------------------------------------------------------------
(* The for loop of before, in one step. *)

\* What the loop may have come to when stage i has judged what it had come to before.
OneTurn(s, i, W) == UNION {Judge(s, w, Stages[i]) : w \in W}

\* The function that Turns defines recursively exists, and satisfies its equation.
LEMMA TurnsUnfold ==
  ASSUME NEW s, NEW x
  PROVE  /\ Turns(s, x)[0] = {[ctx |-> x, decision |-> "allow"]}
         /\ \A i \in 1..Len(Stages) : Turns(s, x)[i] = OneTurn(s, i, Turns(s, x)[i - 1])
  <1> DEFINE Turn(f, i) == IF i = 0 THEN {[ctx |-> x, decision |-> "allow"]}
                           ELSE OneTurn(s, i, f[i - 1])
             Good(f, n) == f = [i \in 0..n |-> Turn(f, i)]
             S == {n \in Nat : \E f : Good(f, n)}
  <1>1. 0 \in S
    <2> DEFINE f == [i \in 0..0 |-> {[ctx |-> x, decision |-> "allow"]}]
    <2>1. Good(f, 0)
      OBVIOUS
    <2> QED BY <2>1
  <1>2. ASSUME NEW n \in S PROVE n + 1 \in S
    <2>1. PICK f : Good(f, n)
      BY <1>2
    <2> DEFINE g == [i \in 0..n+1 |-> IF i = n + 1 THEN Turn(f, n + 1) ELSE f[i]]
    <2>2. ASSUME NEW i \in 0..n+1 PROVE Turn(g, i) = g[i]
      <3>1. Turn(g, i) = Turn(f, i)
        <4>1. CASE i = 0
          BY <4>1
        <4>2. CASE i # 0
          <5>1. i - 1 \in 0..n /\ i - 1 # n + 1 /\ i - 1 \in 0..n+1
            BY <4>2
          <5>2. g[i - 1] = f[i - 1]
            BY <5>1
          <5> HIDE DEF g
          <5> QED BY <4>2, <5>2
        <4> QED BY <4>1, <4>2
      <3>2. g[i] = IF i = n + 1 THEN Turn(f, n + 1) ELSE f[i]
        OBVIOUS
      <3>3. ASSUME i # n + 1 PROVE f[i] = Turn(f, i)
        <4> HIDE DEF Turn
        <4>1. i \in 0..n
          BY <3>3
        <4> QED BY <2>1, <4>1
      <3> HIDE DEF Turn, g
      <3> QED BY <3>1, <3>2, <3>3
    <2>3. Good(g, n + 1)
      <3> HIDE DEF Turn
      <3> QED BY <2>2
    <2>4. n + 1 \in Nat
      OBVIOUS
    <2> HIDE DEF Good, g
    <2> QED BY <2>3, <2>4
  <1>3. S = Nat
    <2> HIDE DEF S
    <2>1. S \in SUBSET Nat
      BY DEF S
    <2> QED BY <1>1, <1>2, <2>1, SetInduction
  <1>4. PICK f : Good(f, Len(Stages))
    BY <1>3, StagesType
  <1>5. Good(Turns(s, x), Len(Stages))
    BY <1>4 DEF Turns, OneTurn
  <1> DEFINE t == Turns(s, x)
  <1>6. \A i \in 0..Len(Stages) : t[i] = Turn(t, i)
    <2> HIDE DEF Turn
    <2> QED BY <1>5
  <1>7. \A i \in 1..Len(Stages) : i \in 0..Len(Stages) /\ i # 0
    BY StagesType
  <1>8. 0 \in 0..Len(Stages)
    BY StagesType
  <1> HIDE DEF t
  <1>9. /\ t[0] = {[ctx |-> x, decision |-> "allow"]}
        /\ \A i \in 1..Len(Stages) : t[i] = OneTurn(s, i, t[i - 1])
    BY <1>6, <1>7, <1>8
  <1> QED BY <1>9 DEF t

\* What holds of the start and is kept by each turn holds of the end.  good[i] is
\* the set of what the loop may have come to after i turns.
LEMMA WalkInduction ==
  ASSUME NEW s, NEW x, NEW good, [ctx |-> x, decision |-> "allow"] \in good[0],
         \A i \in 1..Len(Stages) : \A w \in good[i - 1] : Judge(s, w, Stages[i]) \subseteq good[i]
  PROVE  Walk(s, x) \subseteq good[Len(Stages)]
  <1> DEFINE n == Len(Stages)
             t == Turns(s, x)
             S == {i \in Nat : i <= n => t[i] \subseteq good[i]}
  <1>1. n \in Nat
    BY StagesType
  <1>2. 0 \in S
    BY TurnsUnfold
  <1>3. ASSUME NEW i \in S PROVE i + 1 \in S
    <2> SUFFICES ASSUME i + 1 <= n PROVE t[i + 1] \subseteq good[i + 1]
      OBVIOUS
    <2>1. i + 1 \in 1..n /\ (i + 1) - 1 = i /\ i <= n
      BY <1>1
    <2>2. t[i + 1] = OneTurn(s, i + 1, t[i])
      <3>1. t[i + 1] = OneTurn(s, i + 1, t[(i + 1) - 1])
        BY <2>1, TurnsUnfold
      <3> HIDE DEF t
      <3> QED BY <2>1, <3>1
    <2>3. t[i] \subseteq good[i]
      BY <2>1
    <2>4. \A w \in good[i] : Judge(s, w, Stages[i + 1]) \subseteq good[i + 1]
      BY <2>1
    <2>5. OneTurn(s, i + 1, t[i]) \subseteq good[i + 1]
      <3> HIDE DEF t
      <3> QED BY <2>3, <2>4 DEF OneTurn
    <2> HIDE DEF t
    <2> QED BY <2>2, <2>5
  <1>4. S = Nat
    <2> HIDE DEF S
    <2>1. S \in SUBSET Nat
      BY DEF S
    <2> QED BY <1>2, <1>3, <2>1, SetInduction
  <1>5. n \in S
    BY <1>1, <1>4
  <1> QED BY <1>1, <1>5 DEF Walk

\* One turn after the others.
LEMMA TurnTaken ==
  ASSUME NEW s, NEW x, NEW i \in 1..Len(Stages), NEW w \in Turns(s, x)[i - 1],
         NEW v \in Judge(s, w, Stages[i])
  PROVE  v \in Turns(s, x)[i]
  <1>1. v \in OneTurn(s, i, Turns(s, x)[i - 1])
    BY DEF OneTurn
  <1> QED BY <1>1, TurnsUnfold

\* What a stage blocked stays so to the end of the loop.
LEMMA WalkBlocked ==
  ASSUME NEW s, NEW x, NEW i \in 1..Len(Stages), NEW w \in Turns(s, x)[i], Blocked(w.decision)
  PROVE  w \in Walk(s, x)
  <1> DEFINE n == Len(Stages)
             t == Turns(s, x)
             S == {j \in Nat : i + j <= n => w \in t[i + j]}
  <1>1. n \in Nat /\ i \in Nat /\ i <= n
    BY StagesType
  <1>2. 0 \in S
    BY <1>1
  <1>3. ASSUME NEW j \in S PROVE j + 1 \in S
    <2> SUFFICES ASSUME i + (j + 1) <= n PROVE w \in t[i + (j + 1)]
      OBVIOUS
    <2>1. i + (j + 1) \in 1..n /\ (i + (j + 1)) - 1 = i + j /\ i + j <= n
      BY <1>1
    <2>2. w \in t[(i + (j + 1)) - 1]
      BY <2>1
    <2>3. w \in Judge(s, w, Stages[i + (j + 1)])
      BY DEF Judge
    <2> QED BY <2>1, <2>2, <2>3, TurnTaken
  <1>4. S = Nat
    <2> HIDE DEF S
    <2>1. S \in SUBSET Nat
      BY DEF S
    <2> QED BY <1>2, <1>3, <2>1, SetInduction
  <1>5. n - i \in S
    <2> HIDE DEF S
    <2> QED BY <1>1, <1>4
  <1>6. i + (n - i) = n
    BY <1>1
  <1> QED BY <1>1, <1>5, <1>6 DEF Walk
=============================================================================
