-------------------------- MODULE AuditChainProofs --------------------------
(***************************************************************************)
(* Proofs about AuditChain, for any number of tenants, writers,            *)
(* transactions and runs of the scripts, beside the services.  The chain   *)
(* of a tenant with one writer verifies; with more, where it does not      *)
(* (they overtake one another), every link still leads to a committed row  *)
(* of the same tenant: but for the rows written beside a backfill.  A      *)
(* backfill makes the log of every tenant verify up to the first of those, *)
(* and the archive loses no row but those a failed export left out and     *)
(* those committed between an export and its mark.                         *)
(***************************************************************************)
EXTENDS AuditChain, FiniteSetTheorems, SequenceTheorems, WellFoundedInduction, TLAPS

-----------------------------------------------------------------------------
(***************************************************************************)
(* Sorted, the order in which the backfill goes through the rows.  A set   *)
(* of times below some bound has one increasing enumeration, by descent    *)
(* on the bound, and a time later than all the others comes last in it.    *)
(***************************************************************************)
(* A nonempty set of naturals has a least element. *)
LEMMA Least ==
  ASSUME NEW T \in SUBSET Nat, T # {}
  PROVE  \E m \in T : \A x \in T : m <= x
<1>1. \E m \in T : \A x \in T : <<x, m>> \notin OpToRel(<, Nat)
  BY NatLessThanWellFounded, WFMin
<1>2. PICK m \in T : \A x \in T : ~(x < m)
  BY <1>1 DEF OpToRel
<1>3. ASSUME NEW x \in T PROVE m <= x
  <2>1. x \in Nat /\ m \in Nat /\ ~(x < m)
    BY <1>2
  <2> QED
    BY <2>1
<1> QED
  BY <1>3

(* A nonempty bounded set of naturals has a greatest element. *)
LEMMA Greatest ==
  ASSUME NEW T \in SUBSET Nat, T # {}, NEW b \in Nat, \A x \in T : x <= b
  PROVE  \E m \in T : \A x \in T : x <= m
<1> DEFINE D == {b - x : x \in T}
<1>1. D \in SUBSET Nat /\ D # {}
  <2>1. \A x \in T : b - x \in Nat
    OBVIOUS
  <2> QED
    BY <2>1
<1>2. PICK d \in D : \A e \in D : d <= e
  BY <1>1, Least
<1>3. PICK m \in T : d = b - m
  OBVIOUS
<1>4. ASSUME NEW x \in T PROVE x <= m
  <2>1. b - m <= b - x
    BY <1>2, <1>3
  <2>2. x \in Nat /\ m \in Nat
    OBVIOUS
  <2> QED
    BY <2>1, <2>2
<1> QED
  BY <1>4

(* The sets of times before b. *)
Times(b) == {T \in SUBSET Nat : \A x \in T : x < b}

(* s is T in increasing order: what Sorted chooses. *)
Enumerates(s, T) ==
  /\ s \in [1 .. Cardinality(T) -> T]
  /\ \A i, j \in 1 .. Cardinality(T) : i < j => s[i] < s[j]

(* Taking the greatest element away. *)
LEMMA WithoutGreatest ==
  ASSUME NEW b \in Nat, NEW T \in Times(b), T # {}
  PROVE  \E m \in T :
           /\ \A x \in T : x <= m
           /\ m < b /\ T \ {m} \in Times(m)
           /\ IsFiniteSet(T) /\ Cardinality(T) \in Nat \ {0}
           /\ Cardinality(T \ {m}) = Cardinality(T) - 1
<1>1. T \in SUBSET Nat /\ \A x \in T : x <= b /\ x < b
  BY DEF Times
<1>2. PICK m \in T : \A x \in T : x <= m
  BY <1>1, Greatest
<1>3. IsFiniteSet(T)
  BY <1>1, FS_BoundedSetOfNaturals
<1>4. Cardinality(T) \in Nat /\ Cardinality(T) # 0
  BY <1>3, FS_CardinalityType, FS_EmptySet
<1>5. Cardinality(T \ {m}) = Cardinality(T) - 1
  BY <1>3, FS_RemoveElement
<1>6. T \ {m} \in Times(m)
  BY <1>1, <1>2 DEF Times
<1> QED
  BY <1>1, <1>2, <1>3, <1>4, <1>5, <1>6

(* What enumerates the rest, with the greatest element at its end. *)
LEMMA ExtendEnumeration ==
  ASSUME NEW T \in SUBSET Nat, NEW m \in T, \A x \in T : x <= m,
         NEW n \in Nat, Cardinality(T) = n + 1, Cardinality(T \ {m}) = n,
         NEW s, Enumerates(s, T \ {m})
  PROVE  Enumerates([i \in 1 .. n + 1 |-> IF i = n + 1 THEN m ELSE s[i]], T)
<1> DEFINE u == [i \in 1 .. n + 1 |-> IF i = n + 1 THEN m ELSE s[i]]
<1>1. \A i \in 1 .. n : s[i] \in T /\ s[i] < m
  <2>1. s \in [1 .. n -> T \ {m}]
    BY DEF Enumerates
  <2>2. ASSUME NEW i \in 1 .. n PROVE s[i] \in T /\ s[i] < m
    <3>1. s[i] \in T /\ s[i] # m
      BY <2>1
    <3>2. s[i] \in Nat /\ m \in Nat /\ s[i] <= m
      BY <3>1
    <3> QED
      BY <3>1, <3>2
  <2> QED
    BY <2>2
<1>2. u \in [1 .. n + 1 -> T]
  BY <1>1
<1>3. ASSUME NEW i \in 1 .. n + 1, NEW j \in 1 .. n + 1, i < j PROVE u[i] < u[j]
  <2>1. i \in 1 .. n /\ u[i] = s[i]
    BY <1>3
  <2>2. CASE j = n + 1
    BY <1>1, <2>1, <2>2
  <2>3. CASE j \in 1 .. n
    BY <2>1, <2>3, <1>3 DEF Enumerates
  <2> QED
    BY <2>2, <2>3
<1>4. Enumerates(u, T)
  <2> HIDE DEF u
  <2> QED
    BY <1>2, <1>3 DEF Enumerates
<1> QED
  BY <1>4

(* Every bounded set of naturals has an enumeration. *)
LEMMA EnumerationExists ==
  ASSUME NEW b \in Nat, NEW T \in Times(b)
  PROVE  \E s : Enumerates(s, T)
<1> DEFINE Bad == {c \in Nat : \E U \in Times(c) : ~ \E s : Enumerates(s, U)}
<1>1. ASSUME Bad # {} PROVE FALSE
  <2>1. PICK c \in Bad : \A d \in Bad : c <= d
    BY <1>1, Least
  <2>2. PICK U \in Times(c) : ~ \E s : Enumerates(s, U)
    OBVIOUS
  <2>3. U # {}
    <3>1. Enumerates([i \in 1 .. 0 |-> i], {})
      BY FS_EmptySet DEF Enumerates
    <3> QED
      BY <2>2, <3>1
  <2>4. PICK m \in U :
           /\ \A x \in U : x <= m
           /\ m < c /\ U \ {m} \in Times(m)
           /\ IsFiniteSet(U) /\ Cardinality(U) \in Nat \ {0}
           /\ Cardinality(U \ {m}) = Cardinality(U) - 1
    BY <2>3, WithoutGreatest
  <2>5. U \in SUBSET Nat /\ m \in Nat
    BY DEF Times
  <2>6. m \notin Bad
    BY <2>1, <2>4, <2>5
  <2>7. PICK s : Enumerates(s, U \ {m})
    BY <2>4, <2>5, <2>6
  <2>8. PICK n \in Nat : Cardinality(U) = n + 1 /\ Cardinality(U \ {m}) = n
    <3>1. Cardinality(U) - 1 \in Nat /\ Cardinality(U) = (Cardinality(U) - 1) + 1
      BY <2>4
    <3> QED
      BY <3>1, <2>4
  <2> QED
    BY <2>2, <2>4, <2>5, <2>7, <2>8, ExtendEnumeration
<1> QED
  BY <1>1

(* The first n of a sequence. *)
First(s, n) == [i \in 1 .. n |-> s[i]]

(* An enumeration ends with the greatest element, after one of the rest. *)
LEMMA EnumerationEnds ==
  ASSUME NEW T \in SUBSET Nat, IsFiniteSet(T), NEW m \in T, \A x \in T : x <= m,
         NEW n \in Nat, Cardinality(T) = n + 1, Cardinality(T \ {m}) = n,
         NEW s, Enumerates(s, T)
  PROVE  s[n + 1] = m /\ Enumerates(First(s, n), T \ {m})
<1>1. s \in [1 .. n + 1 -> T] /\ \A i, j \in 1 .. n + 1 : i < j => s[i] < s[j]
  BY DEF Enumerates
<1>2. \E i \in 1 .. n + 1 : s[i] = m
  <2>1. SUFFICES ASSUME \A i \in 1 .. n + 1 : s[i] # m PROVE FALSE
    OBVIOUS
  <2>2. s \in [1 .. n + 1 -> T \ {m}]
    BY <1>1, <2>1
  <2>3. IsFiniteSet(1 .. n + 1) /\ Cardinality(1 .. n + 1) = n + 1
    BY FS_Interval
  <2>4. IsFiniteSet(T \ {m})
    BY FS_RemoveElement
  <2>5. PICK x, y \in 1 .. n + 1 : x # y /\ s[x] = s[y]
    BY <2>2, <2>3, <2>4, FS_PigeonHole
  <2>6. x < y \/ y < x
    BY <2>5
  <2>7. s[x] \in Nat /\ s[y] \in Nat
    BY <1>1
  <2> QED
    BY <1>1, <2>5, <2>6, <2>7
<1>3. s[n + 1] = m
  <2>1. PICK i \in 1 .. n + 1 : s[i] = m
    BY <1>2
  <2>2. i # n + 1 => m < s[n + 1]
    BY <1>1, <2>1
  <2>3. s[n + 1] \in Nat /\ m \in Nat /\ s[n + 1] <= m
    <3>1. n + 1 \in 1 .. n + 1
      OBVIOUS
    <3>2. s[n + 1] \in T
      BY <1>1, <3>1
    <3> QED
      BY <3>2
  <2> QED
    BY <2>1, <2>2, <2>3
<1>4. ASSUME NEW i \in 1 .. n PROVE s[i] \in T \ {m}
  <2>1. s[i] \in T /\ s[i] < m
    BY <1>1, <1>3
  <2> QED
    BY <2>1
<1> DEFINE u == First(s, n)
<1>5. u \in [1 .. n -> T \ {m}]
  BY <1>4 DEF First
<1>6. \A i, j \in 1 .. n : i < j => u[i] < u[j]
  BY <1>1 DEF First
<1>7. Enumerates(u, T \ {m})
  <2> HIDE DEF u
  <2> QED
    BY <1>5, <1>6 DEF Enumerates
<1> QED
  BY <1>3, <1>7

(* There is only one. *)
LEMMA EnumerationUnique ==
  ASSUME NEW b \in Nat, NEW T \in Times(b), NEW r, NEW s, Enumerates(r, T), Enumerates(s, T)
  PROVE  r = s
<1> DEFINE Twice(U) == \E p, q : p # q /\ Enumerates(p, U) /\ Enumerates(q, U)
           Bad == {c \in Nat : \E U \in Times(c) : Twice(U)}
<1>1. ASSUME Bad # {} PROVE FALSE
  <2>1. PICK c \in Bad : \A d \in Bad : c <= d
    BY <1>1, Least
  <2>0. PICK U \in Times(c) : Twice(U)
    OBVIOUS
  <2>2. PICK p, q : p # q /\ Enumerates(p, U) /\ Enumerates(q, U)
    BY <2>0
  <2>3. U # {}
    <3>1. SUFFICES ASSUME U = {} PROVE FALSE
      OBVIOUS
    <3>2. Cardinality(U) = 0
      BY <3>1, FS_EmptySet
    <3>3. p \in [1 .. 0 -> U] /\ q \in [1 .. 0 -> U]
      BY <2>2, <3>2 DEF Enumerates
    <3> QED
      BY <2>2, <3>3
  <2>4. PICK m \in U :
           /\ \A x \in U : x <= m
           /\ m < c /\ U \ {m} \in Times(m)
           /\ IsFiniteSet(U) /\ Cardinality(U) \in Nat \ {0}
           /\ Cardinality(U \ {m}) = Cardinality(U) - 1
    BY <2>3, WithoutGreatest
  <2>5. U \in SUBSET Nat /\ m \in Nat
    BY DEF Times
  <2>6. m \notin Bad
    BY <2>1, <2>4, <2>5
  <2>7. ~Twice(U \ {m})
    BY <2>4, <2>5, <2>6
  <2>8. PICK n \in Nat : Cardinality(U) = n + 1 /\ Cardinality(U \ {m}) = n
    <3>1. Cardinality(U) - 1 \in Nat /\ Cardinality(U) = (Cardinality(U) - 1) + 1
      BY <2>4
    <3> QED
      BY <3>1, <2>4
  <2>9. /\ p[n + 1] = m /\ Enumerates(First(p, n), U \ {m})
        /\ q[n + 1] = m /\ Enumerates(First(q, n), U \ {m})
    <3> HIDE DEF Bad, Twice
    <3>1. IsFiniteSet(U) /\ m \in U /\ \A x \in U : x <= m
      BY <2>4
    <3>2. ASSUME NEW s1, Enumerates(s1, U)
          PROVE  s1[n + 1] = m /\ Enumerates(First(s1, n), U \ {m})
      <4>1. U \in SUBSET Nat
        BY <2>5
      <4>2. Cardinality(U) = n + 1
        BY <2>8
      <4>3. Cardinality(U \ {m}) = n
        BY <2>8
      <4> QED
        BY <4>1, <4>2, <4>3, <3>1, <3>2, EnumerationEnds
    <3> QED
      BY <2>2, <3>2
  <2>10. First(p, n) = First(q, n)
    BY <2>7, <2>9
  <2>11. \A i \in 1 .. n : p[i] = q[i]
    BY <2>10 DEF First
  <2>12. p \in [1 .. n + 1 -> U] /\ q \in [1 .. n + 1 -> U]
    BY <2>2, <2>8 DEF Enumerates
  <2> QED
    BY <2>2, <2>9, <2>11, <2>12
<1> QED
  BY <1>1

(* The ORDER BY of the backfill's cursor: sorting a set of times. *)
LEMMA SortedEnumerates ==
  ASSUME NEW b \in Nat, NEW T \in Times(b)
  PROVE  Enumerates(Sorted(T), T) /\ Sorted(T) \in Seq(Nat)
<1>1. IsFiniteSet(T) /\ T \in SUBSET Nat
  <2>1. T \in SUBSET Nat /\ \A x \in T : x <= b
    BY DEF Times
  <2> QED
    BY <2>1, FS_BoundedSetOfNaturals
<1>2. PICK s : Enumerates(s, T)
  BY EnumerationExists
<1>3. \A u \in [1 .. Cardinality(T) -> T] :
         (\A i, j \in DOMAIN u : i < j => u[i] < u[j]) <=> Enumerates(u, T)
  BY DEF Enumerates
<1>4. Enumerates(Sorted(T), T)
  BY <1>2, <1>3 DEF Sorted, Enumerates
<1>5. Sorted(T) \in [1 .. Cardinality(T) -> Nat] /\ Cardinality(T) \in Nat
  BY <1>1, <1>4, FS_CardinalityType DEF Enumerates
<1> QED
  BY <1>4, <1>5, SeqDef

(* Nothing sorted is NULL. *)
LEMMA SortedEmpty == Sorted({}) = <<>>
<1>1. {} \in Times(0)
  BY DEF Times
<1>2. Enumerates(Sorted({}), {})
  BY <1>1, SortedEnumerates
<1> QED
  BY <1>2, FS_EmptySet DEF Enumerates

(* A time later than all the others comes last. *)
LEMMA SortedAppends ==
  ASSUME NEW T, NEW m \in Nat, T \in Times(m)
  PROVE  Sorted(T \cup {m}) = Append(Sorted(T), m)
<1> DEFINE U == T \cup {m}
<1>1. /\ U \in Times(m + 1) /\ U \in SUBSET Nat /\ T \in SUBSET Nat
      /\ U \ {m} = T /\ m \in U /\ \A x \in U : x <= m
  BY DEF Times
<1>2. IsFiniteSet(U)
  BY <1>1, FS_BoundedSetOfNaturals
<1>3. PICK n \in Nat : Cardinality(U) = n + 1 /\ Cardinality(T) = n
  <2>1. IsFiniteSet(T) /\ Cardinality(T) = Cardinality(U) - 1
    <3> HIDE DEF U
    <3>1. IsFiniteSet(U \ {m}) /\ Cardinality(U \ {m}) = Cardinality(U) - 1
      BY <1>1, <1>2, FS_RemoveElement
    <3> QED
      BY <1>1, <3>1
  <2>2. Cardinality(T) \in Nat /\ Cardinality(U) \in Nat
    BY <1>2, <2>1, FS_CardinalityType
  <2> QED
    BY <2>1, <2>2
<1> DEFINE s == Sorted(U)
<1>4. Enumerates(s, U)
  BY <1>1, SortedEnumerates
<1>5. s[n + 1] = m /\ Enumerates(First(s, n), T)
  <2> HIDE DEF U, s
  <2>1. Cardinality(U \ {m}) = n
    BY <1>1, <1>3
  <2>2. s[n + 1] = m /\ Enumerates(First(s, n), U \ {m})
    BY <1>1, <1>2, <1>3, <1>4, <2>1, EnumerationEnds
  <2> QED
    BY <1>1, <2>2
<1>6. Sorted(T) = First(s, n)
  BY <1>5, SortedEnumerates, EnumerationUnique
<1>7. Sorted(T) \in Seq(Nat) /\ Len(Sorted(T)) = n
  <2>1. Sorted(T) \in Seq(Nat)
    BY SortedEnumerates
  <2> QED
    BY <1>6, <2>1 DEF First
<1>8. s \in [1 .. n + 1 -> Nat]
  BY <1>1, <1>3, <1>4 DEF Enumerates
<1> HIDE DEF U, s
<1>9. Append(Sorted(T), m) = s
  BY <1>5, <1>6, <1>7, <1>8 DEF First
<1> QED
  BY <1>9 DEF s, U
-----------------------------------------------------------------------------
(***************************************************************************)
(* A row's time is before the clock, and what the backfill's cursor read   *)
(* stays in the log until it is rehashed.                                  *)
(***************************************************************************)
TxInv ==
  \A w \in Writers :
    /\ tx[w] # NoTx => tx[w].at < clock
    /\ tx[w] = NoTx => pending[w] = {}
    /\ \A r \in pending[w] : r.at = tx[w].at /\ r.tenant = tx[w].tenant

LogInv == \A r \in log \cup read : r.at < clock

BackfillInv == read \subseteq log /\ (~backfilling => read = {})

IInv == TypeOK /\ TxInv /\ LogInv /\ BackfillInv

(* The invariant holds initially ... *)
LEMMA InitIInv == Init => IInv
<1> SUFFICES ASSUME Init PROVE IInv
  OBVIOUS
<1> USE DEF Init, Legacy, Null
<1>1. TypeOK
  <2>1. ASSUME NEW r \in log PROVE r \in Row
    <3>1. PICK t \in Tenants : r = [tenant |-> t, at |-> 0, prev |-> <<>>, hash |-> <<>>]
      OBVIOUS
    <3>2. <<>> \in Seq(Nat)
      OBVIOUS
    <3> QED
      BY <3>1, <3>2 DEF Row
  <2>2. runs \in 0 .. MaxRuns /\ clock \in Nat
    BY ConstantsAssumption
  <2>3. {beside, file, archives, due, missed, late} \subseteq SUBSET (Tenants \X Nat)
    OBVIOUS
  <2> QED
    BY <2>1, <2>2, <2>3 DEF TypeOK
<1>2. TxInv /\ LogInv /\ BackfillInv
  BY DEF TxInv, LogInv, BackfillInv
<1> QED
  BY <1>1, <1>2 DEF IInv

(* LIMIT 1 finds the newest row when there is one. *)
LEMMA NewestIsThere ==
  ASSUME NEW S \in SUBSET Row, S # {}, NEW b \in Nat, \A r \in S : r.at < b
  PROVE  Newest(S) \in S /\ \A q \in S : q.at <= Newest(S).at
<1> DEFINE T == {r.at : r \in S}
<1>1. T \in SUBSET Nat /\ T # {} /\ \A x \in T : x <= b
  BY DEF Row
<1>2. PICK m \in T : \A x \in T : x <= m
  BY <1>1, Greatest
<1>3. \E r \in S : \A q \in S : q.at <= r.at
  BY <1>2
<1> QED
  BY <1>3 DEF Newest

(* The hash it has is one of a row, or there is none. *)
LEMMA LastHashIsThere ==
  ASSUME NEW S \in SUBSET Row, NEW b \in Nat, \A r \in S : r.at < b
  PROVE  /\ LastHash(S) \in Seq(Nat)
         /\ LastHash(S) # Null => \E q \in S : q.hash = LastHash(S)
<1>1. CASE S = {}
  BY <1>1 DEF LastHash, Null
<1>2. CASE S # {}
  <2>1. Newest(S) \in S
    BY <1>2, NewestIsThere
  <2> QED
    BY <1>2, <2>1 DEF LastHash, Row
<1> QED
  BY <1>1, <1>2

(* Insert preserves the invariant. *)
LEMMA InsertStep ==
  ASSUME IInv, NEW w \in Writers, InsertAudit(w)
  PROVE  IInv'
<1> DEFINE t == tx[w].tenant
           S == Visible(w, t)
           r == Hashed(t, tx[w].at, LastHash(S))
<1>1. S = {q \in log : q.tenant = t} /\ t \in Tenants /\ tx[w].at \in Nat
  BY DEF InsertAudit, Visible, IInv, TypeOK
<1>2. LastHash(S) \in Seq(Nat)
  <2>1. S \in SUBSET Row /\ clock \in Nat /\ \A q \in S : q.at < clock
    BY <1>1 DEF IInv, TypeOK, LogInv
  <2> QED
    BY <2>1, LastHashIsThere
<1>3. r \in Row /\ r.at = tx[w].at /\ r.tenant = t
  <2>1. Append(LastHash(S), tx[w].at) \in Seq(Nat)
    BY <1>1, <1>2
  <2> QED
    BY <1>1, <1>2, <2>1 DEF Hashed, Row
<1>4. pending' = [pending EXCEPT ![w] = {r}] /\ tx[w] # NoTx
  BY DEF InsertAudit
<1>5. UNCHANGED <<clock, tx, log, scripts>>
  BY DEF InsertAudit
<1>6. TypeOK'
  BY <1>3, <1>4, <1>5 DEF IInv, TypeOK, scripts, backfill, archiving
<1>7. TxInv'
  BY <1>3, <1>4, <1>5 DEF IInv, TypeOK, TxInv
<1>8. LogInv' /\ BackfillInv'
  BY <1>5 DEF IInv, LogInv, BackfillInv, scripts, backfill
<1> QED
  BY <1>6, <1>7, <1>8 DEF IInv

(* A rehashed row is a row, of the same tenant and time. *)
LEMMA RehashedIsRow ==
  ASSUME NEW S \in SUBSET Row, NEW b \in Nat, \A q \in S : q.at < b, NEW r \in S
  PROVE  /\ Rehashed(S, r) \in Row
         /\ Rehashed(S, r).tenant = r.tenant /\ Rehashed(S, r).at = r.at
         /\ Rehashed(S, r).prev = Before(S, r)
         /\ Rehashed(S, r).hash = Append(Before(S, r), r.at)
<1> DEFINE T == {q.at : q \in {q \in S : q.tenant = r.tenant /\ q.at < r.at}}
<1>1. T \in Times(b)
  BY DEF Times, Row
<1>2. Before(S, r) \in Seq(Nat)
  BY <1>1, SortedEnumerates DEF Before
<1>3. r.tenant \in Tenants /\ r.at \in Nat
  BY DEF Row
<1>4. Append(Before(S, r), r.at) \in Seq(Nat)
  BY <1>2, <1>3
<1> QED
  BY <1>2, <1>3, <1>4 DEF Rehashed, Hashed, Row

(* The keys of rows are keys. *)
LEMMA KeysType ==
  ASSUME NEW S \in SUBSET Row PROVE Keys(S) \in SUBSET (Tenants \X Nat)
  BY DEF Keys, Key, Row

(* What a backfill commits. *)
LEMMA BackfillCommits ==
  ASSUME IInv, BackfillCommit
  PROVE  /\ \A r \in read : Rehashed(read, r) \in Row /\ Rehashed(read, r).at = r.at
                           /\ Rehashed(read, r).tenant = r.tenant /\ r \in log
         /\ log' = (log \ read) \cup {Rehashed(read, r) : r \in read}
         /\ \A q \in log \ read : Key(q) \in beside'
         /\ \A w \in Writers : \A q \in pending[w] : Key(q) \in beside'
         /\ read' = {} /\ ~backfilling' /\ backfilling' \in BOOLEAN
         /\ UNCHANGED <<clock, tx, pending, runs, archiving>>
<1>1. read \in SUBSET Row /\ clock \in Nat /\ (\A r \in read : r.at < clock) /\ read \subseteq log
  BY DEF IInv, TypeOK, LogInv, BackfillInv
<1>2. \A r \in read : Rehashed(read, r) \in Row /\ Rehashed(read, r).at = r.at
                      /\ Rehashed(read, r).tenant = r.tenant
  BY <1>1, RehashedIsRow
<1>3. /\ log' = (log \ read) \cup {Rehashed(read, r) : r \in read}
      /\ beside' = (beside \ Keys(read)) \cup Keys(log \ read)
                                         \cup Keys(UNION {pending[w] : w \in Writers})
      /\ read' = {} /\ backfilling' = FALSE
      /\ UNCHANGED <<clock, tx, pending, runs, archiving>>
  BY DEF BackfillCommit, BackfillEnds
<1> QED
  BY <1>1, <1>2, <1>3 DEF Keys

(* The backfill preserves it. *)
LEMMA BackfillStep ==
  ASSUME IInv, Backfill
  PROVE  IInv'
<1> USE DEF IInv, archiving
<1>1. CASE BackfillStart
  <2>1. runs' \in 0 .. MaxRuns
    BY <1>1, ConstantsAssumption DEF BackfillStart, Run, TypeOK
  <2> QED
    BY <1>1, <2>1 DEF BackfillStart, TypeOK, TxInv, LogInv, BackfillInv
<1>2. CASE BackfillCommit
  <2>1. log' \in SUBSET Row /\ \A r \in log' : r.at < clock
    BY <1>2, BackfillCommits DEF TypeOK, LogInv
  <2>2. beside' \in SUBSET (Tenants \X Nat)
    <3>1. log \ read \in SUBSET Row /\ UNION {pending[w] : w \in Writers} \in SUBSET Row
      BY DEF TypeOK
    <3>2. Keys(log \ read) \in SUBSET (Tenants \X Nat)
          /\ Keys(UNION {pending[w] : w \in Writers}) \in SUBSET (Tenants \X Nat)
      BY <3>1, KeysType
    <3>3. beside \in SUBSET (Tenants \X Nat)
      BY DEF TypeOK
    <3> QED
      BY <1>2, <3>2, <3>3 DEF BackfillCommit
  <2>3. TypeOK'
    BY <1>2, <2>1, <2>2, BackfillCommits DEF TypeOK
  <2> QED
    BY <1>2, <2>1, <2>3, BackfillCommits DEF TxInv, LogInv, BackfillInv
<1>3. CASE BackfillAbort
  BY <1>3 DEF BackfillAbort, BackfillEnds, TypeOK, TxInv, LogInv, BackfillInv
<1> QED
  BY <1>1, <1>2, <1>3 DEF Backfill

(* The archive changes neither the log nor what the backfill reads. *)
LEMMA ArchiveStep ==
  ASSUME IInv, Archive
  PROVE  IInv' /\ UNCHANGED <<clock, tx, pending, log, backfill>>
<1> USE DEF IInv
<1>1. UNCHANGED <<clock, tx, pending, log, backfill>>
  BY DEF Archive, ArchiveExport, ArchiveExportFails, ArchiveExportAs, ArchiveSeal, ArchiveMark,
         Marks, ArchiveDies
<1>2. TypeOK'
  <2>1. \A S : Unmarked \ S \in SUBSET Row /\ Unmarked \in SUBSET Row
    BY DEF Unmarked, TypeOK
  <2>2. Keys(Unmarked) \in SUBSET (Tenants \X Nat)
    BY <2>1, KeysType
  <2>3. ASSUME NEW rows \in SUBSET Row, ArchiveExportAs(rows) PROVE TypeOK'
    <3>1. Keys(rows) \in SUBSET (Tenants \X Nat) /\ Keys(Unmarked \ rows) \in SUBSET (Tenants \X Nat)
      BY <2>1, KeysType
    <3>2. runs' \in 0 .. MaxRuns
      BY <2>3, ConstantsAssumption DEF ArchiveExportAs, Run, TypeOK
    <3> QED
      BY <2>2, <2>3, <3>1, <3>2 DEF ArchiveExportAs, TypeOK, backfill
  <2>4. CASE ArchiveExport \/ ArchiveExportFails
    BY <2>1, <2>3, <2>4 DEF ArchiveExport, ArchiveExportFails
  <2>5. CASE ArchiveSeal
    BY <2>5 DEF ArchiveSeal, TypeOK, backfill
  <2>6. CASE ArchiveMark
    BY <2>2, <2>6 DEF ArchiveMark, Marks, TypeOK, backfill
  <2>7. CASE ArchiveDies
    BY <2>7 DEF ArchiveDies, TypeOK, backfill
  <2> QED
    BY <2>4, <2>5, <2>6, <2>7 DEF Archive
<1> QED
  BY <1>1, <1>2 DEF TxInv, LogInv, BackfillInv, backfill

(* ... and every step preserves it. *)
LEMMA NextIInv == IInv /\ [Next]_vars => IInv'
<1> SUFFICES ASSUME IInv, [Next]_vars PROVE IInv'
  OBVIOUS
<1> USE DEF IInv, scripts, backfill, archiving
<1>1. CASE UNCHANGED vars
  BY <1>1 DEF vars, TypeOK, TxInv, LogInv, BackfillInv
<1>2. ASSUME NEW w \in Writers, NEW t \in Tenants, Begin(w, t) PROVE IInv'
  <2>1. TypeOK'
    BY <1>2 DEF Begin, TypeOK
  <2>2. TxInv'
    BY <1>2 DEF Begin, TypeOK, TxInv, NoTx
  <2>3. LogInv' /\ BackfillInv'
    BY <1>2 DEF Begin, TypeOK, LogInv, BackfillInv, Row
  <2> QED
    BY <2>1, <2>2, <2>3
<1>3. ASSUME NEW w \in Writers, Commit(w) \/ Abort(w) PROVE IInv'
  <2>1. TypeOK'
    BY <1>3 DEF Commit, Abort, TypeOK
  <2>2. TxInv'
    BY <1>3 DEF Commit, Abort, TypeOK, TxInv, NoTx
  <2>3. LogInv' /\ BackfillInv'
    BY <1>3 DEF Commit, Abort, TypeOK, LogInv, BackfillInv, TxInv
  <2> QED
    BY <2>1, <2>2, <2>3
<1>4. CASE Finished
  BY <1>1, <1>4 DEF Finished
<1> QED
  BY <1>1, <1>2, <1>3, <1>4, InsertStep, BackfillStep, ArchiveStep DEF Next, Services

(* The invariant of all that follows. *)
LEMMA Invariance == Spec => []IInv
  BY InitIInv, NextIInv, PTL DEF Spec

(* Every variable keeps its type, however the scripts are run.             *)
THEOREM TypeCorrect == Spec => []TypeOK
<1>1. IInv => TypeOK
  BY DEF IInv
<1> QED
  BY <1>1, Invariance, PTL

-----------------------------------------------------------------------------
(***************************************************************************)
(* The backfill.                                                           *)
(***************************************************************************)

(* The hash of the newest rehashed row before r is what r is chained to.   *)
LEMMA RehashedChain ==
  ASSUME NEW S \in SUBSET Row, NEW b \in Nat, \A q \in S : q.at < b, NEW r \in S
  PROVE  LastHash({q \in {Rehashed(S, p) : p \in S} : q.tenant = r.tenant /\ q.at < r.at})
           = Before(S, r)
<1> DEFINE D == {q \in S : q.tenant = r.tenant /\ q.at < r.at}
           T == {q.at : q \in D}
           E == {q \in {Rehashed(S, p) : p \in S} : q.tenant = r.tenant /\ q.at < r.at}
<1>1. Before(S, r) = Sorted(T)
  BY DEF Before
<1>2. \A q \in S :
        /\ Rehashed(S, q) \in Row
        /\ Rehashed(S, q).tenant = q.tenant /\ Rehashed(S, q).at = q.at
        /\ Rehashed(S, q).hash = Append(Before(S, q), q.at)
  BY RehashedIsRow
<1>3. E \in SUBSET Row /\ (\A q \in E : q.at < b) /\ \A q \in D : Rehashed(S, q) \in E
  BY <1>2
<1>4. CASE D = {}
  <2>1. E = {}
    BY <1>2, <1>4
  <2>2. T = {}
    BY <1>4
  <2> QED
    BY <1>1, <2>1, <2>2, SortedEmpty DEF LastHash, Null
<1>5. CASE D # {}
  <2>1. E # {}
    BY <1>3, <1>5
  <2>2. Newest(E) \in E /\ \A q \in E : q.at <= Newest(E).at
    <3> HIDE DEF E
    <3> QED
      BY <1>3, <2>1, NewestIsThere
  <2>3. PICK p \in D : Newest(E) = Rehashed(S, p)
    BY <1>2, <2>2
  <2>4. \A q \in D : q.at <= p.at
    BY <1>2, <1>3, <2>2, <2>3
  <2> DEFINE U == {q.at : q \in {q \in S : q.tenant = p.tenant /\ q.at < p.at}}
  <2>5. p.at \in Nat /\ U \in Times(p.at)
    BY DEF Times, Row
  <2>6. T = U \cup {p.at}
    <3>1. ASSUME NEW q \in D PROVE q.at \in U \cup {p.at}
      BY <2>4 DEF Row
    <3>2. ASSUME NEW q \in S, q.tenant = p.tenant, q.at < p.at PROVE q \in D
      BY <3>2 DEF Row
    <3> QED
      BY <3>1, <3>2
  <2>7. Sorted(T) = Append(Sorted(U), p.at)
    <3> HIDE DEF T, U
    <3> QED
      BY <2>5, <2>6, SortedAppends
  <2>8. Newest(E).hash = Append(Sorted(U), p.at)
    BY <1>2, <2>3 DEF Before
  <2> QED
    BY <1>1, <2>1, <2>7, <2>8 DEF LastHash
<1> QED
  BY <1>4, <1>5

(* A row it has rehashed verifies among those it has rehashed.             *)
LEMMA BackfillChains ==
  ASSUME IInv, NEW r \in read,
         NEW S, S = {q \in {Rehashed(read, p) : p \in read} : q.tenant = r.tenant /\ q.at < r.at}
  PROVE  /\ Rehashed(read, r).prev = LastHash(S)
         /\ LastHash(S) # Null => \E q \in S : q.hash = LastHash(S)
<1>1. read \in SUBSET Row /\ clock \in Nat /\ \A q \in read : q.at < clock
  BY DEF IInv, TypeOK, LogInv
<1>2. Rehashed(read, r).prev = Before(read, r)
  BY <1>1, RehashedIsRow
<1>3. LastHash(S) = Before(read, r)
  BY <1>1, RehashedChain
<1>4. S \in SUBSET Row /\ \A q \in S : q.at < clock
  BY <1>1, RehashedIsRow
<1>5. LastHash(S) # Null => \E q \in S : q.hash = LastHash(S)
  BY <1>1, <1>4, LastHashIsThere
<1> QED
  BY <1>2, <1>3, <1>5

(* A row that was not written beside it is one it has rehashed.            *)
LEMMA BackfillReached ==
  ASSUME IInv, BackfillCommit, NEW p \in log', Key(p) \notin beside'
  PROVE  \E r \in read : p = Rehashed(read, r) /\ p.tenant = r.tenant /\ p.at = r.at
  BY BackfillCommits

(* After a backfill a row verifies if none before it was written beside.   *)
LEMMA BackfillVerifies ==
  ASSUME IInv, BackfillCommit, NEW p \in log',
         \A q \in log' : q.tenant = p.tenant /\ q.at <= p.at => Key(q) \notin beside'
  PROVE  Verifies(p)'
<1> DEFINE S == {q \in {Rehashed(read, o) : o \in read} : q.tenant = p.tenant /\ q.at < p.at}
<1>0. p \in Row /\ log' \in SUBSET Row
  BY BackfillStep DEF Backfill, IInv, TypeOK
<1>1. Key(p) \notin beside'
  BY <1>0 DEF Row
<1>2. PICK r \in read : p = Rehashed(read, r) /\ p.tenant = r.tenant /\ p.at = r.at
  BY <1>1, BackfillReached
<1>3. p.prev = LastHash(S)
  BY <1>2, BackfillChains
<1>4. {q \in log' : q.tenant = p.tenant /\ q.at < p.at} = S
  <2>1. ASSUME NEW q \in log', q.tenant = p.tenant, q.at < p.at
        PROVE  q \in {Rehashed(read, o) : o \in read}
    <3>1. q.at <= p.at
      BY <1>0, <2>1 DEF Row
    <3> QED
      BY <2>1, <3>1, BackfillReached
  <2>2. {Rehashed(read, o) : o \in read} \subseteq log'
    BY BackfillCommits
  <2> QED
    BY <2>1, <2>2
<1> QED
  BY <1>3, <1>4 DEF Verifies

(* After a backfill every tenant's chain verifies, whatever order the rows *)
(* of its concurrent writers, or the lack of hashes before 010, had left   *)
(* it in, up to the first row that was written beside the backfill.        *)
THEOREM Repairs == Spec => BackfillRepairs
<1>1. ASSUME IInv, BackfillCommit PROVE (\A r \in log : Verifies(r) \/ UpToBeside(r))'
  BY <1>1, BackfillVerifies DEF UpToBeside
<1>2. IInv /\ [Next]_vars => [BackfillCommit => (\A r \in log : Verifies(r) \/ UpToBeside(r))']_vars
  BY <1>1
<1> QED
  BY <1>2, Invariance, PTL DEF Spec, BackfillRepairs

-----------------------------------------------------------------------------
(***************************************************************************)
(* Any number of writers: an inserted row chains to a committed one of its *)
(* tenant.  Only a backfill breaks that, when it rehashes the row that one *)
(* not yet committed, or committed beside it, is chained to.               *)
(***************************************************************************)
Resolves(r, S) == r.prev # Null => \E q \in S : q.tenant = r.tenant /\ q.hash = r.prev

LinkInv ==
  /\ IInv /\ LinksResolve
  /\ \A w \in Writers : \A r \in pending[w] : Key(r) \in beside \/ Resolves(r, log)

(* Every step keeps the links. *)
LEMMA LinkNext == LinkInv /\ [Next]_vars => LinkInv'
<1> SUFFICES ASSUME LinkInv, [Next]_vars PROVE LinkInv'
  OBVIOUS
<1> USE DEF LinkInv
<1>0. IInv'
  BY NextIInv
<1>1. CASE UNCHANGED <<pending, log, beside>>
  BY <1>0, <1>1 DEF LinksResolve, Resolves
<1>2. ASSUME NEW w \in Writers, InsertAudit(w) PROVE LinkInv'
  <2> DEFINE t == tx[w].tenant
             S == Visible(w, t)
             r == Hashed(t, tx[w].at, LastHash(S))
  <2>1. /\ pending' = [pending EXCEPT ![w] = {r}] /\ log' = log /\ beside' = beside
        /\ S = {q \in log : q.tenant = t}
    BY <1>2 DEF InsertAudit, Visible, scripts, backfill
  <2>2. S \in SUBSET Row /\ clock \in Nat /\ \A q \in S : q.at < clock
    BY <2>1 DEF IInv, TypeOK, LogInv
  <2>3. LastHash(S) # Null => \E q \in S : q.hash = LastHash(S)
    <3> HIDE DEF S
    <3> QED
      BY <2>2, LastHashIsThere
  <2>4. Resolves(r, log)
    BY <2>1, <2>3 DEF Resolves, Hashed
  <2>5. \A v \in Writers : pending'[v] = (IF v = w THEN {r} ELSE pending[v])
    BY <2>1 DEF IInv, TypeOK
  <2> QED
    BY <1>0, <2>1, <2>4, <2>5 DEF LinksResolve, Resolves
<1>3. ASSUME NEW w \in Writers, Commit(w) PROVE LinkInv'
  <2>1. /\ log' = log \cup pending[w] /\ beside' = beside
        /\ \A v \in Writers : pending'[v] \subseteq pending[v]
    BY <1>3 DEF Commit, IInv, TypeOK, scripts, backfill
  <2> QED
    BY <1>0, <2>1 DEF LinksResolve, Resolves
<1>4. ASSUME NEW w \in Writers, Abort(w) PROVE LinkInv'
  <2>1. log' = log /\ beside' = beside /\ \A v \in Writers : pending'[v] \subseteq pending[v]
    BY <1>4 DEF Abort, IInv, TypeOK, scripts, backfill
  <2> QED
    BY <1>0, <2>1 DEF LinksResolve, Resolves
<1>5. CASE BackfillCommit
  <2>1. /\ pending' = pending /\ \A w \in Writers : \A r \in pending[w] : Key(r) \in beside'
    BY <1>5, BackfillCommits
  <2>2. ASSUME NEW p \in log', p.prev # Null, Key(p) \notin beside'
        PROVE  \E q \in log' : q.tenant = p.tenant /\ q.hash = p.prev
    <3>1. PICK r \in read : p = Rehashed(read, r) /\ p.tenant = r.tenant /\ p.at = r.at
      BY <1>5, <2>2, BackfillReached
    <3> DEFINE S == {q \in {Rehashed(read, o) : o \in read} : q.tenant = r.tenant /\ q.at < r.at}
    <3>2. p.prev = LastHash(S) /\ (LastHash(S) # Null => \E q \in S : q.hash = LastHash(S))
      BY <3>1, BackfillChains
    <3>3. S \subseteq log' /\ \A q \in S : q.tenant = p.tenant
      BY <1>5, <3>1, BackfillCommits
    <3> QED
      BY <2>2, <3>2, <3>3
  <2> QED
    BY <1>0, <2>1, <2>2 DEF LinksResolve
<1>6. CASE Services
  BY <1>1, <1>2, <1>3, <1>4, <1>6 DEF Services, Begin, scripts, backfill
<1>7. CASE Backfill \/ Archive
  BY <1>1, <1>5, <1>7, ArchiveStep DEF Backfill, BackfillStart, BackfillAbort, BackfillEnds, backfill
<1>8. CASE Finished \/ UNCHANGED vars
  BY <1>1, <1>8 DEF Finished, vars, scripts, backfill
<1> QED
  BY <1>6, <1>7, <1>8 DEF Next

(* No row is ever chained to a hash that is not in its tenant's log,       *)
(* however many connections write audit rows, before and after a backfill, *)
(* but for the rows that were written beside one and not rehashed since.   *)
THEOREM Links == Spec => []LinksResolve
<1>1. Init => LinkInv
  BY InitIInv DEF Init, Legacy, LinkInv, LinksResolve
<1>2. LinkInv /\ [Next]_vars => LinkInv'
  BY LinkNext
<1>3. LinkInv => LinksResolve
  BY DEF LinkInv
<1> QED
  BY <1>1, <1>2, <1>3, PTL DEF Spec

-----------------------------------------------------------------------------
(***************************************************************************)
(* One writer of a tenant: when its transaction begins, everything of      *)
(* earlier time is committed, so the newest row is the one before it, and  *)
(* what a backfill's cursor did not read is newer than what it read.       *)
(***************************************************************************)
OfTenant(t) == {q \in log : q.tenant = t}

WriterInv(w) ==
  /\ tx[w] # NoTx => w \in WritersOf[tx[w].tenant]
  /\ tx[w] # NoTx /\ OneWriter(tx[w].tenant) =>
       \A r \in OfTenant(tx[w].tenant) : r.at < tx[w].at
  /\ \A r \in pending[w] :
       OneWriter(r.tenant) => Key(r) \in beside \/ r.prev = LastHash(OfTenant(r.tenant))

ReadFirst ==
  \A r \in read, q \in log \ read : OneWriter(r.tenant) /\ q.tenant = r.tenant => r.at < q.at

SerialInv ==
  /\ IInv
  /\ SerialChainVerifies
  /\ \A w \in Writers : WriterInv(w)
  /\ ReadFirst

(* So it does with one writer: initially ... *)
LEMMA SerialInit == Init => SerialInv
<1> SUFFICES ASSUME Init PROVE SerialInv
  OBVIOUS
<1>1. ASSUME NEW r \in log PROVE Verifies(r)
  <2>1. {q \in log : q.tenant = r.tenant /\ q.at < r.at} = {}
    BY DEF Init, Legacy
  <2> QED
    BY <2>1 DEF Init, Legacy, LastHash, Verifies
<1> QED
  BY <1>1, InitIInv DEF Init, SerialInv, SerialChainVerifies, WriterInv, ReadFirst

(* ... at a commit, ... *)
LEMMA SerialCommit ==
  ASSUME SerialInv, IInv', NEW w \in Writers, Commit(w)
  PROVE  SerialInv'
<1> USE DEF SerialInv
<1>1. /\ log' = log \cup pending[w] /\ pending' = [pending EXCEPT ![w] = {}]
      /\ tx' = [tx EXCEPT ![w] = NoTx] /\ tx[w] # NoTx
      /\ UNCHANGED <<beside, read, backfilling>>
  BY DEF Commit, scripts, backfill
<1>2. \A p \in pending[w] : p.at = tx[w].at /\ p.tenant = tx[w].tenant
  BY DEF IInv, TxInv
<1>3. ASSUME NEW r \in log', OneWriter(r.tenant), Key(r) \notin beside PROVE Verifies(r)'
  <2> DEFINE E(S) == {q \in S : q.tenant = r.tenant /\ q.at < r.at}
  <2>1. CASE r \in log
    <3>1. \A p \in pending[w] : p.tenant = r.tenant => r.at < p.at
      BY <1>1, <1>2, <1>3, <2>1 DEF OfTenant, WriterInv
    <3>2. E(log') = E(log)
      BY <1>1, <2>1, <3>1 DEF IInv, TypeOK, Row
    <3> QED
      BY <1>3, <2>1, <3>2 DEF SerialChainVerifies, Verifies
  <2>2. CASE r \in pending[w]
    <3>1. E(log') = OfTenant(r.tenant)
      BY <1>1, <1>2, <1>3, <2>2 DEF IInv, TypeOK, Row, OfTenant, WriterInv
    <3> QED
      BY <1>3, <2>2, <3>1 DEF Verifies, WriterInv
  <2> QED
    BY <1>1, <1>3, <2>1, <2>2
<1>4. SerialChainVerifies'
  BY <1>1, <1>3 DEF SerialChainVerifies, OneWriter
<1>5. ASSUME NEW v \in Writers, tx'[v] # NoTx, OneWriter(tx[v].tenant)
      PROVE  OfTenant(tx[v].tenant)' = OfTenant(tx[v].tenant)
  <2>1. v # w /\ tx'[v] = tx[v]
    BY <1>1, <1>5 DEF IInv, TypeOK
  <2>2. tx[v].tenant # tx[w].tenant
    BY <1>1, <1>5, <2>1 DEF OneWriter, WriterInv
  <2> QED
    BY <1>1, <1>2, <2>1, <2>2 DEF OfTenant
<1>6. ASSUME NEW v \in Writers
      PROVE  /\ tx'[v] # NoTx => v # w /\ tx'[v] = tx[v]
             /\ pending'[v] # {} => v # w /\ pending'[v] = pending[v] /\ tx[v] # NoTx
             /\ \A r \in pending'[v] : r.tenant = tx[v].tenant
  BY <1>1 DEF IInv, TypeOK, TxInv
<1>7. ASSUME NEW v \in Writers, NEW r \in pending'[v], OneWriter(r.tenant), Key(r) \notin beside
      PROVE  r.prev = LastHash(OfTenant(r.tenant))'
  <2>1. tx'[v] # NoTx /\ r.tenant = tx[v].tenant /\ r \in pending[v]
    BY <1>1, <1>6, <1>7 DEF IInv, TypeOK
  <2>2. r.prev = LastHash(OfTenant(tx[v].tenant))
    BY <1>7, <2>1 DEF WriterInv
  <2>3. OfTenant(r.tenant)' = OfTenant(tx[v].tenant)
    <3>1. OneWriter(tx[v].tenant)
      BY <1>7, <2>1 DEF OneWriter
    <3>2. OfTenant(tx[v].tenant)' = OfTenant(tx[v].tenant) /\ tx'[v] = tx[v]
      BY <1>5, <1>6, <2>1, <3>1
    <3> QED
      BY <2>1, <3>2 DEF OfTenant
  <2> QED
    BY <2>2, <2>3 DEF LastHash, Newest
<1>8. \A v \in Writers : WriterInv(v)'
  BY <1>1, <1>5, <1>6, <1>7 DEF OneWriter, WriterInv
<1>9. ReadFirst'
  <2>1. ASSUME NEW r \in read, NEW q \in pending[w], OneWriter(r.tenant), q.tenant = r.tenant
        PROVE  r.at < q.at
    BY <1>1, <1>2, <2>1 DEF IInv, BackfillInv, OfTenant, WriterInv
  <2> QED
    BY <1>1, <2>1 DEF ReadFirst, OneWriter
<1> QED
  BY <1>4, <1>8, <1>9

(* ... when a backfill commits, ... *)
LEMMA SerialBackfill ==
  ASSUME SerialInv, IInv', BackfillCommit
  PROVE  SerialInv'
<1> USE DEF SerialInv
<1>1. /\ UNCHANGED <<tx, pending>> /\ read' = {}
      /\ log' = (log \ read) \cup {Rehashed(read, r) : r \in read}
      /\ \A q \in log \ read : Key(q) \in beside'
      /\ \A w \in Writers : \A q \in pending[w] : Key(q) \in beside'
  BY BackfillCommits
<1>2. \A q \in log' : \E o \in log : o.tenant = q.tenant /\ o.at = q.at
  BY BackfillCommits
<1>3. ASSUME NEW p \in log', OneWriter(p.tenant), Key(p) \notin beside' PROVE Verifies(p)'
  <2>1. PICK r \in read : p = Rehashed(read, r) /\ p.tenant = r.tenant /\ p.at = r.at
    BY <1>3, BackfillReached
  <2> DEFINE S == {q \in {Rehashed(read, o) : o \in read} : q.tenant = r.tenant /\ q.at < r.at}
  <2>2. p.prev = LastHash(S)
    BY <2>1, BackfillChains
  <2>3. {q \in log' : q.tenant = p.tenant /\ q.at < p.at} = S
    <3>1. ASSUME NEW q \in log \ read, q.tenant = p.tenant PROVE ~(q.at < p.at)
      <4>1. r.at < q.at
        BY <1>3, <2>1, <3>1 DEF ReadFirst, OneWriter
      <4>2. r.at \in Nat /\ q.at \in Nat
        BY DEF IInv, TypeOK, Row
      <4> QED
        BY <2>1, <4>1, <4>2
    <3> QED
      BY <1>1, <2>1, <3>1
  <2> QED
    BY <2>2, <2>3 DEF Verifies
<1>4. SerialChainVerifies'
  BY <1>3 DEF SerialChainVerifies, OneWriter
<1>5. \A w \in Writers : WriterInv(w)'
  BY <1>1, <1>2 DEF WriterInv, OfTenant, OneWriter
<1>6. ReadFirst'
  BY <1>1 DEF ReadFirst
<1> QED
  BY <1>4, <1>5, <1>6

(* ... and in every step. *)
LEMMA SerialNext == SerialInv /\ [Next]_vars => SerialInv'
<1> SUFFICES ASSUME SerialInv, [Next]_vars PROVE SerialInv'
  OBVIOUS
<1> USE DEF SerialInv
<1>0. IInv'
  BY NextIInv
<1>1. CASE UNCHANGED <<tx, pending, log, read, beside>>
  BY <1>0, <1>1 DEF SerialChainVerifies, Verifies, OfTenant, WriterInv, ReadFirst
<1>2. ASSUME NEW w \in Writers, NEW t \in Tenants, Begin(w, t) PROVE SerialInv'
  <2>1. /\ UNCHANGED <<log, pending, read, beside>> /\ SerialChainVerifies' /\ ReadFirst'
    BY <1>2 DEF Begin, SerialChainVerifies, Verifies, ReadFirst, scripts, backfill
  <2>2. \A r \in log : r.at < clock
    BY DEF IInv, LogInv
  <2>3. tx' = [tx EXCEPT ![w] = [tenant |-> t, at |-> clock]] /\ w \in WritersOf[t]
    BY <1>2 DEF Begin
  <2> QED
    BY <1>0, <2>1, <2>2, <2>3 DEF IInv, TypeOK, OfTenant, WriterInv
<1>3. ASSUME NEW w \in Writers, InsertAudit(w) PROVE SerialInv'
  <2> DEFINE r == Hashed(tx[w].tenant, tx[w].at, LastHash(Visible(w, tx[w].tenant)))
  <2>1. /\ pending' = [pending EXCEPT ![w] = {r}] /\ pending[w] = {}
        /\ UNCHANGED <<log, tx, read, beside>>
    BY <1>3 DEF InsertAudit, scripts, backfill
  <2>2. r.prev = LastHash(OfTenant(r.tenant))
    BY <2>1 DEF Hashed, Visible, OfTenant
  <2>3. SerialChainVerifies' /\ ReadFirst'
    BY <2>1 DEF SerialChainVerifies, Verifies, ReadFirst
  <2>4. \A v \in Writers : pending'[v] = (IF v = w THEN {r} ELSE pending[v])
    BY <2>1 DEF IInv, TypeOK
  <2>5. \A v \in Writers : WriterInv(v)'
    <3>1. PICK d : d = r
      OBVIOUS
    <3>2. d.prev = LastHash(OfTenant(d.tenant)) /\ OfTenant(d.tenant)' = OfTenant(d.tenant)
      BY <2>1, <2>2, <3>1 DEF OfTenant
    <3>3. ASSUME NEW v \in Writers, v = w PROVE WriterInv(v)'
      <4>1. \A q \in pending'[v] : q = d
        BY <2>4, <3>1, <3>3
      <4>2. d.prev = LastHash(OfTenant(d.tenant)')
        BY <3>2
      <4> HIDE DEF r
      <4>3. \A q \in pending'[v] : q.prev = LastHash(OfTenant(q.tenant))'
        BY <4>1, <4>2 DEF LastHash, Newest
      <4> QED
        BY <2>1, <4>3 DEF WriterInv, OfTenant, OneWriter
    <3>4. ASSUME NEW v \in Writers, v # w PROVE WriterInv(v)'
      BY <2>1, <2>4, <3>4 DEF WriterInv, OfTenant, OneWriter
    <3> QED
      BY <3>3, <3>4
  <2> QED
    BY <1>0, <2>3, <2>5
<1>4. ASSUME NEW w \in Writers, Abort(w) PROVE SerialInv'
  BY <1>0, <1>4 DEF Abort, SerialChainVerifies, Verifies, IInv, TypeOK, OfTenant, WriterInv,
    ReadFirst, scripts, backfill
<1>5. CASE BackfillStart
  <2>1. UNCHANGED <<tx, pending, log, beside>> /\ read' = log
    BY <1>5 DEF BackfillStart
  <2> QED
    BY <1>0, <2>1 DEF SerialChainVerifies, Verifies, OfTenant, WriterInv, ReadFirst
<1>6. CASE BackfillAbort
  <2>1. UNCHANGED <<tx, pending, log, beside>> /\ read' = {}
    BY <1>6 DEF BackfillAbort, BackfillEnds
  <2> QED
    BY <1>0, <2>1 DEF SerialChainVerifies, Verifies, OfTenant, WriterInv, ReadFirst
<1>7. CASE Archive
  BY <1>1, <1>7, ArchiveStep DEF backfill
<1>8. CASE Finished \/ UNCHANGED vars
  BY <1>1, <1>8 DEF Finished, vars, scripts, backfill
<1> QED
  BY <1>0, <1>2, <1>3, <1>4, <1>5, <1>6, <1>7, <1>8, SerialCommit, SerialBackfill
  DEF Next, Services, Backfill

(* The chain of a tenant whose audit rows come from one connection, as     *)
(* with the gateway's pool of one alone, verifies in the order of          *)
(* occurred_at, whatever other connections write for other tenants and     *)
(* however often the scripts run, but for rows written beside a backfill.  *)
THEOREM SerialChain == Spec => []SerialChainVerifies
<1>1. SerialInv /\ [Next]_vars => SerialInv'
  BY SerialNext
<1>2. SerialInv => SerialChainVerifies
  BY DEF SerialInv
<1> QED
  BY <1>1, <1>2, SerialInit, PTL DEF Spec

-----------------------------------------------------------------------------
(***************************************************************************)
(* The archive.  What an export was to have (due) is in its file, or       *)
(* missed; once the file is sealed it is in the archives.                  *)
(***************************************************************************)
ArchiveInv ==
  /\ MarkedIsExplained
  /\ archive = "exported" => due \subseteq file \cup missed
  /\ archive = "sealed" => due \subseteq archives \cup missed

(* The invariant is kept. *)
LEMMA ArchiveNext == ArchiveInv /\ [Next]_vars => ArchiveInv'
<1> SUFFICES ASSUME ArchiveInv, [Next]_vars PROVE ArchiveInv'
  OBVIOUS
<1> USE DEF ArchiveInv, MarkedIsExplained
<1>1. CASE UNCHANGED archiving
  BY <1>1 DEF archiving
<1>2. CASE Services \/ Backfill \/ Finished \/ UNCHANGED vars
  BY <1>1, <1>2 DEF Services, Begin, InsertAudit, Commit, Abort, Backfill, BackfillStart,
    BackfillCommit, BackfillAbort, BackfillEnds, Finished, vars, scripts
<1>3. ASSUME NEW rows, ArchiveExportAs(rows) PROVE ArchiveInv'
  <2>1. Keys(Unmarked) \subseteq Keys(rows) \cup Keys(Unmarked \ rows)
    BY DEF Keys
  <2> QED
    BY <1>3, <2>1 DEF ArchiveExportAs
<1>4. CASE ArchiveSeal
  BY <1>4 DEF ArchiveSeal
<1>5. CASE ArchiveMark
  BY <1>5 DEF ArchiveMark, Marks
<1>6. CASE ArchiveDies
  BY <1>6 DEF ArchiveDies
<1> QED
  BY <1>2, <1>3, <1>4, <1>5, <1>6 DEF Next, Archive, ArchiveExport, ArchiveExportFails

(* Wherever it dies and whatever is committed meanwhile, the archive       *)
(* script marks no row that is not in a sealed file, but those its failed  *)
(* exports missed and those that came between an export and its mark.      *)
THEOREM ArchiveKeepsRows == Spec => []MarkedIsExplained
<1>1. Init => ArchiveInv
  BY DEF Init, ArchiveInv, MarkedIsExplained
<1>2. ArchiveInv /\ [Next]_vars => ArchiveInv'
  BY ArchiveNext
<1>3. ArchiveInv => MarkedIsExplained
  BY DEF ArchiveInv
<1> QED
  BY <1>1, <1>2, <1>3, PTL DEF Spec
=============================================================================
