---------------------------- MODULE SweepProofs -----------------------------
(***************************************************************************)
(* Theorems about Sweep, for any specifications and flags, any number of   *)
(* keys, values and sets: every combination has the index that its sorted  *)
(* keys give it, and every member its own values and its own name.  What   *)
(* is computed by going through keys, values and sets is a recursive       *)
(* function; that it has its values, and what they are, comes first.       *)
(***************************************************************************)
EXTENDS Sweep, SequenceTheorems, FiniteSetTheorems, WellFoundedInduction, TLAPS

\* A set of numbers has a least one.
LEMMA FirstOne ==
  ASSUME NEW S, S \subseteq Nat, S # {}
  PROVE  \E x \in S : \A y \in S : x <= y
<1> DEFINE R == {p \in Nat \X Nat : p[1] < p[2]}
<1>1. IsWellFoundedOn(R, Nat)
  BY NatLessThanWellFounded, Zenon DEF OpToRel
<1>2. PICK x \in S : \A y \in S : ~ (<<y, x>> \in R)
  <2> HIDE DEF R
  <2>1. QED
    BY <1>1, WFMin
<1>3. ASSUME NEW y \in S PROVE x <= y
  <2>1. y \in Nat /\ x \in Nat /\ <<y, x>> \notin R
    BY <1>2
  <2>2. ~ (y < x)
    BY <2>1
  <2>3. QED
    BY <2>1, <2>2
<1>4. QED
  BY <1>3

\* What holds at zero and goes on to the next number holds up to any.
LEMMA Stepwise ==
  ASSUME NEW N \in Nat, NEW S, 0 \in S, \A n \in 1 .. N : n - 1 \in S => n \in S
  PROVE  \A n \in 0 .. N : n \in S
<1> DEFINE Out == {n \in 0 .. N : n \notin S}
<1>0. SUFFICES ASSUME Out # {} PROVE FALSE
  OBVIOUS
<1>1. Out \subseteq Nat
  OBVIOUS
<1>2. PICK m \in Out : \A k \in Out : m <= k
  <2> HIDE DEF Out
  <2>1. QED
    BY <1>0, <1>1, FirstOne
<1>3. m \in Nat /\ m <= N /\ m # 0 /\ m \notin S
  OBVIOUS
<1>4. m \in 1 .. N /\ m - 1 \in 0 .. N /\ m - 1 < m
  BY <1>3
<1>5. m - 1 \notin Out
  BY <1>2, <1>4
<1>6. m - 1 \in S
  BY <1>4, <1>5
<1>7. QED
  BY <1>3, <1>4, <1>6

\* What begins somewhere in a set and goes on within it.
Onward(F, N, V) == \A n \in 1 .. N : \A x \in V : F[<<n, x>>] \in V
GoesOn(done, base, F, N, V) ==
    /\ done = [n \in 0 .. N |-> done[n]] /\ \A n \in 0 .. N : done[n] \in V
    /\ done[0] = base /\ \A n \in 1 .. N : done[n] = F[<<n, done[n - 1]>>]

\* A recursion that stays within a set has a solution.
LEMMA RecursionExists ==
  ASSUME NEW N \in Nat, NEW V, NEW base \in V, NEW F, Onward(F, N, V)
  PROVE  \E done : GoesOn(done, base, F, N, V)
<1> DEFINE To(m, done) == GoesOn(done, base, F, m, V)
           S == {m \in 0 .. N : \E done : To(m, done)}
<1>0. USE DEF GoesOn, Onward
<1>1. 0 \in S
  <2> DEFINE done == [n \in 0 .. 0 |-> base]
  <2>1. To(0, done)
    OBVIOUS
  <2> HIDE DEF To, done
  <2>2. 0 \in 0 .. N
    OBVIOUS
  <2>3. QED
    BY <2>1, <2>2
<1>2. ASSUME NEW m \in 1 .. N, m - 1 \in S PROVE m \in S
  <2>1. PICK before : To(m - 1, before)
    BY <1>2
  <2>2. m \in Nat /\ m - 1 \in Nat /\ m - 1 \in 0 .. m - 1 /\ \A n : n \in 0 .. m <=> n \in 0 .. m - 1 \/ n = m
    OBVIOUS
  <2>3. F[<<m, before[m - 1]>>] \in V
    BY <2>1, <2>2
  <2> DEFINE done == [n \in 0 .. m |-> IF n = m THEN F[<<m, before[m - 1]>>] ELSE before[n]]
  <2>4. \A n \in 0 .. m - 1 : n # m /\ done[n] = before[n] /\ before[n] \in V
    BY <2>1, <2>2
  <2>5. done[m] = F[<<m, before[m - 1]>>] /\ m - 1 \in 0 .. m - 1
    BY <2>2
  <2>6. done = [n \in 0 .. m |-> done[n]] /\ \A n \in 0 .. m : done[n] \in V
    BY <2>2, <2>3, <2>4
  <2> HIDE DEF done
  <2>7. \A n \in 1 .. m : done[n] = F[<<n, done[n - 1]>>]
    <3>1. ASSUME NEW n \in 1 .. m PROVE done[n] = F[<<n, done[n - 1]>>]
      <4>1. CASE n = m
        BY <2>4, <2>5, <4>1
      <4>2. CASE n # m
        <5>1. n \in 1 .. m - 1 /\ n \in 0 .. m - 1 /\ n - 1 \in 0 .. m - 1
          BY <2>2, <4>2
        <5>2. QED
          BY <2>1, <2>4, <5>1
      <4>3. QED
        BY <4>1, <4>2
    <3>2. QED
      BY <3>1
  <2>8. done[0] = base
    <3>1. 0 \in 0 .. m - 1
      BY <2>2
    <3>2. QED
      BY <2>1, <2>4, <3>1
  <2>9. To(m, done)
    BY <2>6, <2>7, <2>8
  <2>10. m \in 0 .. N
    BY <2>2
  <2> HIDE DEF To
  <2>11. QED
    BY <2>9, <2>10
<1>3. N \in S
  <2> HIDE DEF S
  <2>1. N \in 0 .. N /\ \A n \in 1 .. N : n - 1 \in S => n \in S
    BY <1>2
  <2>2. QED
    BY <1>1, <2>1, Stepwise
<1>4. QED
  BY <1>3

\* Dividing by a whole number leaves a rest below it.
LEMMA DivMod ==
  ASSUME NEW a \in Nat, NEW b \in Nat \ {0}
  PROVE  /\ a \div b \in Nat /\ a % b \in 0 .. b - 1
         /\ a = b * (a \div b) + (a % b)
  OBVIOUS

\* A quotient is the one number of turns that go into a number.
LEMMA DivIs ==
  ASSUME NEW a \in Nat, NEW b \in Nat \ {0}, NEW q \in Nat, q * b <= a, a < (q + 1) * b
  PROVE  a \div b = q
<1> DEFINE p == a \div b
           r == a % b
<1>1. p \in Nat /\ r \in Nat /\ r < b /\ a = b * p + r
  BY DivMod
<1> HIDE DEF p, r
<1>2. ASSUME p < q PROVE FALSE
  <2>1. PICK d \in Nat : q = p + 1 + d
    <3>1. q - p - 1 \in Nat /\ q = p + 1 + (q - p - 1)
      BY <1>1, <1>2
    <3>2. QED
      BY <3>1
  <2>2. q * b = b * p + b + d * b /\ d * b \in Nat
    BY <1>1, <2>1
  <2>3. QED
    BY <1>1, <2>2
<1>3. ASSUME q < p PROVE FALSE
  <2>1. PICK d \in Nat : p = q + 1 + d
    <3>1. p - q - 1 \in Nat /\ p = q + 1 + (p - q - 1)
      BY <1>1, <1>3
    <3>2. QED
      BY <3>1
  <2>2. b * p = (q + 1) * b + d * b /\ d * b \in Nat
    BY <1>1, <2>1
  <2>3. QED
    BY <1>1, <2>2
<1>4. p = q
  BY <1>1, <1>2, <1>3
<1>5. QED
  BY <1>4 DEF p

\* Dividing twice is dividing by the product.
LEMMA DivTwice ==
  ASSUME NEW a \in Nat, NEW s \in Nat \ {0}, NEW w \in Nat \ {0}
  PROVE  a \div (w * s) = (a \div s) \div w
<1> DEFINE p == a \div s
           q == p \div w
<1>1. p \in Nat /\ s * p <= a /\ a < s * p + s
  BY DivMod
<1> HIDE DEF p
<1>2. q \in Nat /\ w * q <= p /\ p < w * q + w
  BY <1>1, DivMod
<1> HIDE DEF q
<1>3. w * s \in Nat \ {0}
  OBVIOUS
<1>4. PICK d \in Nat : p = w * q + d /\ d + 1 <= w
  <2>1. w * q \in Nat
    BY <1>2
  <2>2. p - w * q \in Nat /\ p = w * q + (p - w * q) /\ (p - w * q) + 1 <= w
    BY <1>1, <1>2, <2>1
  <2>3. QED
    BY <2>2
<1>5. PICK e \in Nat : w = d + 1 + e
  <2>1. w - d - 1 \in Nat /\ w = d + 1 + (w - d - 1)
    BY <1>4
  <2>2. QED
    BY <2>1
<1>6. s * p = q * (w * s) + s * d /\ s * d \in Nat /\ w * s = s * d + s + s * e /\ s * e \in Nat
  <2>1. s * p = s * (w * q) + s * d
    BY <1>2, <1>4
  <2>2. s * (w * q) = q * (w * s)
    BY <1>2
  <2>3. w * s = s * d + s + s * e
    BY <1>4, <1>5
  <2>4. QED
    BY <2>1, <2>2, <2>3
<1>7. (q + 1) * (w * s) = q * (w * s) + w * s /\ q * (w * s) \in Nat
  BY <1>2, <1>3
<1>8. q * (w * s) <= a /\ a < (q + 1) * (w * s)
  BY <1>1, <1>3, <1>6, <1>7
<1>9. a \div (w * s) = q
  BY <1>2, <1>3, <1>8, DivIs
<1>10. QED
  BY <1>9 DEF p, q

-----------------------------------------------------------------------------
\* A sequence is an object when no key comes twice.
Unique(obj) == \A m, n \in DOMAIN obj : obj[m][1] = obj[n][1] => m = n
Gives(obj, k, v) == \E n \in DOMAIN obj : obj[n][1] = k /\ obj[n][2] = v

\* Of an object every key has the one value.
LEMMA ValueIs ==
  ASSUME NEW K, NEW T, NEW obj \in Seq(K \X T), Unique(obj), NEW k
  PROVE  /\ k \in KeysOf(obj) => Gives(obj, k, Value(obj, k)) /\ Value(obj, k) \in T
         /\ \A v : Gives(obj, k, v) => k \in KeysOf(obj) /\ Value(obj, k) = v
<1>1. \A n \in DOMAIN obj : obj[n] \in K \X T
  OBVIOUS
<1>2. ASSUME NEW n \in DOMAIN obj, obj[n][1] = k
      PROVE  Value(obj, k) = obj[n][2]
  <2> DEFINE c == CHOOSE m \in DOMAIN obj : obj[m][1] = k
  <2>1. c \in DOMAIN obj /\ obj[c][1] = k
    BY <1>2
  <2>2. c = n
    <3> HIDE DEF c
    <3>1. QED
      BY <1>2, <2>1 DEF Unique
  <2>3. Value(obj, k) = obj[c][2]
    BY DEF Value
  <2>4. QED
    BY <2>2, <2>3
<1>3. ASSUME k \in KeysOf(obj) PROVE Gives(obj, k, Value(obj, k)) /\ Value(obj, k) \in T
  <2>1. PICK n \in DOMAIN obj : obj[n][1] = k
    BY <1>3 DEF KeysOf
  <2>2. Value(obj, k) = obj[n][2]
    BY <1>2, <2>1
  <2>3. obj[n][2] \in T
    BY <1>1
  <2>4. QED
    BY <2>1, <2>2, <2>3 DEF Gives
<1>4. ASSUME NEW v, Gives(obj, k, v) PROVE k \in KeysOf(obj) /\ Value(obj, k) = v
  <2>1. PICK n \in DOMAIN obj : obj[n][1] = k /\ obj[n][2] = v
    BY <1>4 DEF Gives
  <2>2. QED
    BY <1>2, <2>1 DEF KeysOf
<1>5. QED
  BY <1>3, <1>4

\* Putting a value makes pairs of pairs.
LEMMA PutStays ==
  ASSUME NEW K, NEW T, NEW obj \in Seq(K \X T), NEW k \in K, NEW v \in T
  PROVE  Put(obj, k, v) \in Seq(K \X T)
<1>1. Len(obj) \in Nat /\ DOMAIN obj = 1 .. Len(obj) /\ \A n \in DOMAIN obj : obj[n] \in K \X T
  OBVIOUS
<1>2. CASE k \in KeysOf(obj)
  <2>1. Put(obj, k, v) = [n \in DOMAIN obj |-> IF obj[n][1] = k THEN <<k, v>> ELSE obj[n]]
    BY <1>2 DEF Put
  <2>2. QED
    BY <1>1, <2>1
<1>3. CASE k \notin KeysOf(obj)
  <2>1. Put(obj, k, v) = Append(obj, <<k, v>>)
    BY <1>3 DEF Put
  <2>2. QED
    BY <1>1, <2>1
<1>4. QED
  BY <1>2, <1>3

\* What putting a value leaves of an object.
HasPut(new, obj, k, v, K, T) ==
    /\ new \in Seq(K \X T) /\ Unique(new)
    /\ Len(obj) <= Len(new) /\ \A i \in 1 .. Len(obj) : new[i][1] = obj[i][1]
    /\ \A l : l \in KeysOf(new) <=> l \in KeysOf(obj) \/ l = k
    /\ \A l, w : Gives(new, l, w) <=> (IF l = k THEN w = v ELSE Gives(obj, l, w))

\* A key set to a value: it has that value, and the others theirs, where they were.
LEMMA PutIs ==
  ASSUME NEW K, NEW T, NEW obj \in Seq(K \X T), Unique(obj), NEW k \in K, NEW v \in T
  PROVE  HasPut(Put(obj, k, v), obj, k, v, K, T)
<1> DEFINE new == Put(obj, k, v)
<1>1. Len(obj) \in Nat /\ DOMAIN obj = 1 .. Len(obj) /\ \A n \in DOMAIN obj : obj[n] \in K \X T
  OBVIOUS
<1>2. CASE k \in KeysOf(obj)
  <2>1. new = [n \in DOMAIN obj |-> IF obj[n][1] = k THEN <<k, v>> ELSE obj[n]]
    BY <1>2 DEF Put
  <2>2. new \in Seq(K \X T) /\ DOMAIN new = DOMAIN obj /\ Len(new) = Len(obj)
    BY <1>1, <2>1
  <2>3. \A n \in DOMAIN obj : /\ new[n][1] = obj[n][1]
                              /\ new[n][2] = IF obj[n][1] = k THEN v ELSE obj[n][2]
    BY <2>1
  <2> HIDE DEF new
  <2>4. Unique(new)
    BY <2>2, <2>3 DEF Unique
  <2>5. \A l : l \in KeysOf(new) <=> l \in KeysOf(obj)
    BY <2>2, <2>3 DEF KeysOf
  <2>6. PICK p \in DOMAIN obj : obj[p][1] = k
    BY <1>2 DEF KeysOf
  <2>7. ASSUME NEW l, NEW w PROVE Gives(new, l, w) <=> (IF l = k THEN w = v ELSE Gives(obj, l, w))
    <3>1. CASE l = k
      BY <2>2, <2>3, <2>6, <3>1 DEF Gives
    <3>2. CASE l # k
      BY <2>2, <2>3, <3>2 DEF Gives
    <3>3. QED
      BY <3>1, <3>2
  <2>8. Len(obj) <= Len(new) /\ \A i \in 1 .. Len(obj) : new[i][1] = obj[i][1]
    BY <1>1, <2>2, <2>3
  <2>9. QED
    BY <1>2, <2>2, <2>4, <2>5, <2>7, <2>8 DEF new, HasPut
<1>3. CASE k \notin KeysOf(obj)
  <2>1. new = Append(obj, <<k, v>>)
    BY <1>3 DEF Put
  <2>2. new \in Seq(K \X T) /\ DOMAIN new = 1 .. Len(obj) + 1 /\ Len(new) = Len(obj) + 1
    BY <1>1, <2>1
  <2>3. /\ \A n \in DOMAIN obj : n \in DOMAIN new /\ n # Len(obj) + 1 /\ new[n] = obj[n] /\ obj[n][1] # k
        /\ Len(obj) + 1 \in DOMAIN new /\ new[Len(obj) + 1][1] = k /\ new[Len(obj) + 1][2] = v
        /\ \A n \in DOMAIN new : n \in DOMAIN obj \/ n = Len(obj) + 1
    <3>1. \A n \in DOMAIN obj : obj[n][1] # k
      BY <1>3 DEF KeysOf
    <3>2. QED
      BY <1>1, <2>1, <3>1
  <2> HIDE DEF new
  <2>4. Unique(new)
    BY <2>3 DEF Unique
  <2>5. \A l : l \in KeysOf(new) <=> l \in KeysOf(obj) \/ l = k
    BY <2>3 DEF KeysOf
  <2>6. ASSUME NEW l, NEW w PROVE Gives(new, l, w) <=> (IF l = k THEN w = v ELSE Gives(obj, l, w))
    <3>1. CASE l = k
      BY <2>3, <3>1 DEF Gives
    <3>2. CASE l # k
      BY <2>3, <3>2 DEF Gives
    <3>3. QED
      BY <3>1, <3>2
  <2>7. Len(obj) <= Len(new) /\ \A i \in 1 .. Len(obj) : new[i][1] = obj[i][1]
    <3> DEFINE L == Len(obj)
    <3>1. L \in Nat /\ DOMAIN obj = 1 .. L /\ Len(new) = L + 1
      BY <1>1, <2>2
    <3> HIDE DEF L
    <3>2. L <= Len(new)
      BY <3>1
    <3>3. ASSUME NEW i \in 1 .. L PROVE new[i][1] = obj[i][1]
      <4>1. i \in DOMAIN obj
        BY <3>1
      <4>2. new[i] = obj[i]
        BY <2>3, <4>1
      <4>3. QED
        BY <4>2
    <3>4. QED
      BY <3>2, <3>3 DEF L
  <2>8. QED
    BY <2>2, <2>4, <2>5, <2>6, <2>7 DEF new, HasPut
<1>4. QED
  BY <1>2, <1>3

\* The entry is assigned to that key.
Hits(entries, to, n, k) == entries[n][1] \in DOMAIN to /\ to[entries[n][1]] = k

\* An object with the first so many entries assigned to it.
AssignedTo(obj, entries, to, m, new, K, T) ==
    /\ new \in Seq(K \X T) /\ Unique(new)
    /\ Len(obj) <= Len(new) /\ \A i \in 1 .. Len(obj) : new[i][1] = obj[i][1]
    /\ \A k : k \in KeysOf(new) <=> k \in KeysOf(obj) \/ \E n \in 1 .. m : Hits(entries, to, n, k)
    /\ \A k, v : Gives(new, k, v) <=>
         \/ Gives(obj, k, v) /\ \A n \in 1 .. m : ~ Hits(entries, to, n, k)
         \/ \E n \in 1 .. m : /\ Hits(entries, to, n, k) /\ entries[n][2] = v
                              /\ \A i \in n + 1 .. m : ~ Hits(entries, to, i, k)

Assigning(obj, entries, to, done) ==
    /\ done[0] = obj /\ Assign(obj, entries, to) = done[Len(entries)]
    /\ \A n \in 1 .. Len(entries) :
         done[n] = IF entries[n][1] \in DOMAIN to
                   THEN Put(done[n - 1], to[entries[n][1]], entries[n][2]) ELSE done[n - 1]

\* The recursion of Assign has a solution.
LEMMA AssignRuns ==
  ASSUME NEW K, NEW T, NEW obj \in Seq(K \X T), NEW L, NEW entries \in Seq(L \X T), NEW to,
         \A l \in L : l \in DOMAIN to => to[l] \in K
  PROVE  \E done : Assigning(obj, entries, to, done)
<1> DEFINE N == Len(entries)
           Next(n, x) == IF entries[n][1] \in DOMAIN to THEN Put(x, to[entries[n][1]], entries[n][2]) ELSE x
           V == Seq(K \X T)
           F == [p \in (1 .. N) \X V |-> Next(p[1], p[2])]
<1>1. N \in Nat /\ DOMAIN entries = 1 .. N /\ \A n \in 1 .. N : entries[n] \in L \X T
  OBVIOUS
<1>2. ASSUME NEW n \in 1 .. N, NEW x \in V PROVE Next(n, x) \in V
  <2>1. CASE entries[n][1] \in DOMAIN to
    <3> DEFINE k == to[entries[n][1]]
               v == entries[n][2]
    <3>1. k \in K /\ v \in T
      BY <1>1, <2>1
    <3> HIDE DEF k, v
    <3>4. Put(x, k, v) \in V
      BY <3>1, PutStays
    <3>5. Next(n, x) = Put(x, k, v)
      BY <2>1 DEF k, v
    <3>6. QED
      BY <3>4, <3>5
  <2>2. CASE entries[n][1] \notin DOMAIN to
    BY <2>2
  <2>3. QED
    BY <2>1, <2>2
<1> HIDE DEF Next
<1>4. \A n \in 1 .. N : \A x \in V : F[<<n, x>>] = Next(n, x)
  OBVIOUS
<1>5. obj \in V /\ N \in Nat
  OBVIOUS
<1>6. PICK done : GoesOn(done, obj, F, N, V)
  <2>1. Onward(F, N, V)
    <3> HIDE DEF F, V, N
    <3>1. QED
      BY <1>2, <1>4 DEF Onward
  <2> HIDE DEF F, V, N
  <2>2. QED
    BY <1>5, <2>1, RecursionExists
<1>7. \A n \in 1 .. N : done[n] = Next(n, done[n - 1])
  <2>1. \A n \in 1 .. N : n - 1 \in 0 .. N
    BY <1>1
  <2> HIDE DEF F, V, N
  <2>2. QED
    BY <1>4, <1>6, <2>1 DEF GoesOn
<1>8. done = [n \in 0 .. N |-> IF n = 0 THEN obj ELSE Next(n, done[n - 1])]
  <2>1. \A n \in 0 .. N : n = 0 \/ n \in 1 .. N
    BY <1>1
  <2> HIDE DEF F, V, N
  <2>2. QED
    BY <1>6, <1>7, <2>1 DEF GoesOn
<1> DEFINE all == CHOOSE f : f = [n \in 0 .. N |-> IF n = 0 THEN obj ELSE Next(n, f[n - 1])]
<1>9. all = [n \in 0 .. N |-> IF n = 0 THEN obj ELSE Next(n, all[n - 1])]
  <2> HIDE DEF F, V, N
  <2>1. QED
    BY <1>8, Zenon
<1>10. Assign(obj, entries, to) = all[N]
  BY DEF Assign, Next
<1> HIDE DEF all
<1>11. all[0] = obj /\ \A n \in 1 .. N : all[n] = Next(n, all[n - 1])
  <2>1. 0 \in 0 .. N /\ \A n \in 1 .. N : n \in 0 .. N /\ n # 0
    BY <1>1
  <2> HIDE DEF N
  <2>2. QED
    BY <1>9, <2>1
<1>12. QED
  BY <1>10, <1>11 DEF Next, Assigning

\* What assigning entries makes of an object.
LEMMA AssignIs ==
  ASSUME NEW K, NEW T, NEW obj \in Seq(K \X T), Unique(obj), NEW L, NEW entries \in Seq(L \X T), NEW to,
         \A l \in L : l \in DOMAIN to => to[l] \in K
  PROVE  AssignedTo(obj, entries, to, Len(entries), Assign(obj, entries, to), K, T)
<1>0. PICK done : Assigning(obj, entries, to, done)
  BY AssignRuns
<1>1. /\ done[0] = obj /\ Assign(obj, entries, to) = done[Len(entries)]
      /\ \A n \in 1 .. Len(entries) :
           done[n] = IF entries[n][1] \in DOMAIN to
                     THEN Put(done[n - 1], to[entries[n][1]], entries[n][2]) ELSE done[n - 1]
  BY <1>0 DEF Assigning
<1> DEFINE N == Len(entries)
           S == {m \in 0 .. N : AssignedTo(obj, entries, to, m, done[m], K, T)}
<1>2. N \in Nat /\ \A n \in 1 .. N : entries[n] \in L \X T
  OBVIOUS
<1>3. 0 \in S
  <2>1. AssignedTo(obj, entries, to, 0, obj, K, T)
    BY DEF AssignedTo
  <2>2. 0 \in 0 .. N
    OBVIOUS
  <2>3. QED
    BY <1>1, <2>1, <2>2
<1>4. ASSUME NEW m \in 1 .. N, m - 1 \in S PROVE m \in S
  <2> DEFINE old == done[m - 1]
  <2>1. AssignedTo(obj, entries, to, m - 1, old, K, T)
    BY <1>4
  <2>2. /\ m \in 0 .. N /\ \A n : n \in 1 .. m <=> n \in 1 .. m - 1 \/ n = m
        /\ \A n \in 1 .. m - 1 : \A i : i \in n + 1 .. m <=> i \in n + 1 .. m - 1 \/ i = m
        /\ \A i : i \notin m + 1 .. m
    BY <1>2
  <2>3. CASE entries[m][1] \in DOMAIN to
    <3> DEFINE k == to[entries[m][1]]
               v == entries[m][2]
               new == Put(old, k, v)
    <3>1. k \in K /\ v \in T
      BY <1>2, <2>3
    <3>2. done[m] = new
      BY <1>1, <2>3
    <3>3. \A l : Hits(entries, to, m, l) <=> l = k
      BY <2>3 DEF Hits
    <3>4. v = entries[m][2]
      OBVIOUS
    <3> HIDE DEF k, v, old
    <3>5. /\ new \in Seq(K \X T) /\ Unique(new)
          /\ Len(old) <= Len(new) /\ \A i \in 1 .. Len(old) : new[i][1] = old[i][1]
          /\ \A l : l \in KeysOf(new) <=> l \in KeysOf(old) \/ l = k
          /\ \A l, w : Gives(new, l, w) <=> (IF l = k THEN w = v ELSE Gives(old, l, w))
      <4>1. old \in Seq(K \X T) /\ Unique(old)
        BY <2>1 DEF AssignedTo
      <4>2. HasPut(new, old, k, v, K, T)
        BY <3>1, <4>1, PutIs
      <4>3. QED
        BY <4>2 DEF HasPut
    <3> HIDE DEF new
    <3>6. Len(obj) <= Len(new) /\ \A i \in 1 .. Len(obj) : new[i][1] = obj[i][1]
      <4>1. Len(obj) <= Len(old) /\ \A i \in 1 .. Len(obj) : old[i][1] = obj[i][1]
        BY <2>1 DEF AssignedTo
      <4>2. Len(obj) \in Nat /\ Len(old) \in Nat /\ Len(new) \in Nat
        BY <2>1, <3>5 DEF AssignedTo
      <4>3. \A i \in 1 .. Len(obj) : i \in 1 .. Len(old)
        BY <4>1, <4>2
      <4>4. QED
        BY <3>5, <4>1, <4>2, <4>3
    <3>7. \A l : l \in KeysOf(new) <=> l \in KeysOf(obj) \/ \E n \in 1 .. m : Hits(entries, to, n, l)
      BY <2>1, <2>2, <3>3, <3>5 DEF AssignedTo
    <3>8. ASSUME NEW l, NEW w
          PROVE  Gives(new, l, w) <=>
                   \/ Gives(obj, l, w) /\ \A n \in 1 .. m : ~ Hits(entries, to, n, l)
                   \/ \E n \in 1 .. m : /\ Hits(entries, to, n, l) /\ entries[n][2] = w
                                        /\ \A i \in n + 1 .. m : ~ Hits(entries, to, i, l)
      <4>1. CASE l = k
        BY <2>2, <3>3, <3>4, <3>5, <4>1
      <4>2. CASE l # k
        <5>1. Gives(new, l, w) <=> Gives(old, l, w)
          BY <3>5, <4>2
        <5>2. Gives(old, l, w) <=>
                \/ Gives(obj, l, w) /\ \A n \in 1 .. m - 1 : ~ Hits(entries, to, n, l)
                \/ \E n \in 1 .. m - 1 : /\ Hits(entries, to, n, l) /\ entries[n][2] = w
                                         /\ \A i \in n + 1 .. m - 1 : ~ Hits(entries, to, i, l)
          BY <2>1 DEF AssignedTo
        <5>3. ~ Hits(entries, to, m, l)
          BY <3>3, <4>2
        <5>4. QED
          BY <2>2, <5>1, <5>2, <5>3
      <4>3. QED
        BY <4>1, <4>2
    <3>9. AssignedTo(obj, entries, to, m, new, K, T)
      BY <3>5, <3>6, <3>7, <3>8 DEF AssignedTo
    <3>10. QED
      BY <2>2, <3>2, <3>9
  <2>4. CASE entries[m][1] \notin DOMAIN to
    <3>1. done[m] = old /\ \A l : ~ Hits(entries, to, m, l)
      BY <1>1, <2>4 DEF Hits
    <3> HIDE DEF old
    <3>2. ASSUME NEW k PROVE (\E n \in 1 .. m : Hits(entries, to, n, k)) <=> \E n \in 1 .. m - 1 : Hits(entries, to, n, k)
      BY <2>2, <3>1
    <3>3. ASSUME NEW k, NEW v
          PROVE  (\E n \in 1 .. m : /\ Hits(entries, to, n, k) /\ entries[n][2] = v
                                    /\ \A i \in n + 1 .. m : ~ Hits(entries, to, i, k))
                 <=> (\E n \in 1 .. m - 1 : /\ Hits(entries, to, n, k) /\ entries[n][2] = v
                                            /\ \A i \in n + 1 .. m - 1 : ~ Hits(entries, to, i, k))
      BY <2>2, <3>1
    <3>4. AssignedTo(obj, entries, to, m, old, K, T)
      BY <2>1, <3>2, <3>3, Zenon DEF AssignedTo
    <3>5. QED
      BY <2>2, <3>1, <3>4
  <2>5. QED
    BY <2>3, <2>4
<1>5. N \in S
  <2> HIDE DEF S
  <2>1. N \in 0 .. N /\ \A n \in 1 .. N : n - 1 \in S => n \in S
    BY <1>2, <1>4
  <2> HIDE DEF N
  <2>2. QED
    BY <1>2, <1>3, <2>1, Stepwise
<1>6. QED
  BY <1>1, <1>5

\* What assigning some of the entries of an object makes of another.
HasSome(new, obj, from, some, K, T) ==
    /\ new \in Seq(K \X T) /\ Unique(new)
    /\ Len(obj) <= Len(new) /\ \A i \in 1 .. Len(obj) : new[i][1] = obj[i][1]
    /\ KeysOf(new) = KeysOf(obj) \cup some
    /\ \A k \in some : Value(new, k) = Value(from, k)
    /\ \A k \in KeysOf(obj) \ some : Value(new, k) = Value(obj, k)

\* Some of an object's entries assigned under their own keys.
LEMMA AssignSome ==
  ASSUME NEW K, NEW T, NEW obj \in Seq(K \X T), Unique(obj), NEW from \in Seq(K \X T), Unique(from),
         NEW some, some \subseteq KeysOf(from)
  PROVE  HasSome(Assign(obj, from, AsIs(some)), obj, from, some, K, T)
<1> DEFINE new == Assign(obj, from, AsIs(some))
           N == Len(from)
<1>1. N \in Nat /\ DOMAIN from = 1 .. N /\ \A n \in 1 .. N : from[n] \in K \X T
  OBVIOUS
<1>2. \A l \in K : l \in DOMAIN AsIs(some) => AsIs(some)[l] \in K
  BY DEF AsIs
<1>3. AssignedTo(obj, from, AsIs(some), N, new, K, T)
  BY <1>2, AssignIs
<1>4. \A n \in 1 .. N : \A k : Hits(from, AsIs(some), n, k) <=> from[n][1] = k /\ k \in some
  BY DEF Hits, AsIs
<1> HIDE DEF new, N
<1>5. /\ new \in Seq(K \X T) /\ Unique(new)
      /\ Len(obj) <= Len(new) /\ \A i \in 1 .. Len(obj) : new[i][1] = obj[i][1]
  BY <1>3 DEF AssignedTo
<1>6. \A k : k \in KeysOf(new) <=> k \in KeysOf(obj) \/ \E n \in 1 .. N : from[n][1] = k /\ k \in some
  BY <1>3, <1>4 DEF AssignedTo
<1>7. \A k \in some : \E n \in 1 .. N : from[n][1] = k
  BY <1>1 DEF KeysOf
<1>8. KeysOf(new) = KeysOf(obj) \cup some
  BY <1>6, <1>7
<1>9. ASSUME NEW k \in some PROVE Value(new, k) = Value(from, k)
  <2>1. Gives(new, k, Value(new, k))
    BY <1>5, <1>8, ValueIs
  <2>2. PICK n \in 1 .. N : Hits(from, AsIs(some), n, k) /\ from[n][2] = Value(new, k)
    <3>1. ~ \A n \in 1 .. N : ~ Hits(from, AsIs(some), n, k)
      BY <1>4, <1>7
    <3>2. QED
      BY <1>3, <2>1, <3>1 DEF AssignedTo
  <2>3. Gives(from, k, Value(new, k))
    BY <1>1, <1>4, <2>2 DEF Gives
  <2>4. \A v : Gives(from, k, v) => Value(from, k) = v
    BY ValueIs
  <2>5. QED
    BY <2>3, <2>4
<1>10. ASSUME NEW k \in KeysOf(obj) \ some PROVE Value(new, k) = Value(obj, k)
  <2>1. Gives(new, k, Value(new, k))
    BY <1>5, <1>8, ValueIs
  <2>2. \A n \in 1 .. N : ~ Hits(from, AsIs(some), n, k)
    BY <1>4
  <2>3. Gives(obj, k, Value(new, k))
    BY <1>3, <2>1, <2>2 DEF AssignedTo
  <2>4. \A v : Gives(obj, k, v) => Value(obj, k) = v
    BY ValueIs
  <2>5. QED
    BY <2>3, <2>4
<1>11. QED
  BY <1>5, <1>8, <1>9, <1>10 DEF new, HasSome

\* A sequence without a value is a sequence.
LEMMA DroppingIs ==
  ASSUME NEW T, NEW s \in Seq(T), NEW v
  PROVE  Dropping(s, v) \in Seq(T)
<1> DEFINE N == Len(s)
           Next(n, x) == IF s[n] = v THEN x ELSE Append(x, s[n])
           V == Seq(T)
           F == [p \in (1 .. N) \X V |-> Next(p[1], p[2])]
<1>1. N \in Nat /\ \A n \in 1 .. N : s[n] \in T
  OBVIOUS
<1>2. \A n \in 1 .. N : \A x \in V : Next(n, x) \in V
  BY <1>1
<1> HIDE DEF Next
<1>3. \A n \in 1 .. N : \A x \in V : F[<<n, x>>] = Next(n, x)
  OBVIOUS
<1>4. <<>> \in V
  OBVIOUS
<1>5. PICK done : GoesOn(done, <<>>, F, N, V)
  <2>1. Onward(F, N, V)
    <3> HIDE DEF F, V, N
    <3>1. QED
      BY <1>2, <1>3 DEF Onward
  <2> HIDE DEF F, V, N
  <2>2. QED
    BY <1>1, <1>4, <2>1, RecursionExists
<1>6. done = [n \in 0 .. N |-> IF n = 0 THEN <<>> ELSE Next(n, done[n - 1])]
  <2>1. \A n \in 0 .. N : n = 0 \/ n \in 1 .. N
    BY <1>1
  <2>2. \A n \in 1 .. N : n - 1 \in 0 .. N
    BY <1>1
  <2> HIDE DEF F, V, N
  <2>3. QED
    BY <1>3, <1>5, <2>1, <2>2 DEF GoesOn
<1> DEFINE all == CHOOSE f : f = [n \in 0 .. N |-> IF n = 0 THEN <<>> ELSE Next(n, f[n - 1])]
<1>7. all = [n \in 0 .. N |-> IF n = 0 THEN <<>> ELSE Next(n, all[n - 1])]
  <2> HIDE DEF F, V, N
  <2>1. QED
    BY <1>6, Zenon
<1>8. Dropping(s, v) = all[N]
  BY DEF Dropping, Next
<1> HIDE DEF all
<1> DEFINE S == {n \in 0 .. N : all[n] \in V}
<1>9. 0 \in S
  <2>1. 0 \in 0 .. N
    BY <1>1
  <2> HIDE DEF N
  <2>2. QED
    BY <1>4, <1>7, <2>1
<1>10. ASSUME NEW n \in 1 .. N, n - 1 \in S PROVE n \in S
  <2>1. n \in 0 .. N /\ n # 0
    BY <1>1
  <2> HIDE DEF N, V
  <2>2. all[n] = Next(n, all[n - 1])
    BY <1>7, <2>1
  <2>3. QED
    BY <1>2, <1>10, <2>1, <2>2
<1>11. N \in 0 .. N
  BY <1>1
<1>12. N \in S
  <2> HIDE DEF S, N
  <2>1. QED
    BY <1>1, <1>9, <1>10, <1>11, Stepwise
<1>13. QED
  BY <1>8, <1>12

\* Of the spellings of a field that a member has, the last one gives it its value.
FieldsOf(values, fallback, fields) ==
    /\ \A f : (\E n \in DOMAIN values : Hits(values, FieldOf, n, f)) =>
                /\ f \in KeysOf(fields)
                /\ \E n \in DOMAIN values : /\ Hits(values, FieldOf, n, f) /\ values[n][2] = Value(fields, f)
                                            /\ \A m \in DOMAIN values : m > n => ~ Hits(values, FieldOf, m, f)
    /\ (\A n \in DOMAIN values : ~ Hits(values, FieldOf, n, "name")) => Value(fields, "name") = fallback

\* The fields of a member: of each, the last value that hits it.
LEMMA FieldsAre ==
  ASSUME NEW K, NEW values \in Seq(K \X K), Unique(values), NEW fallback \in K, "name" \in K,
         \A k \in DOMAIN FieldOf : FieldOf[k] \in K
  PROVE  FieldsOf(values, fallback, MapMember(values, fallback).fields)
<1> DEFINE base   == <<<<"name", fallback>>>>
           fields == Assign(base, values, FieldOf)
           N      == Len(values)
<1>1. N \in Nat /\ DOMAIN values = 1 .. N
  OBVIOUS
<1>2. base \in Seq(K \X K) /\ Unique(base) /\ Gives(base, "name", fallback)
  BY DEF Unique, Gives
<1> HIDE DEF base
<1>3. AssignedTo(base, values, FieldOf, N, fields, K, K)
  BY <1>2, AssignIs
<1>4. MapMember(values, fallback).fields = fields
  BY DEF MapMember, base
<1> HIDE DEF fields, N
<1>5. fields \in Seq(K \X K) /\ Unique(fields)
  BY <1>3 DEF AssignedTo
<1>6. ASSUME NEW f, NEW i \in 1 .. N, Hits(values, FieldOf, i, f)
      PROVE  /\ f \in KeysOf(fields)
             /\ \E n \in 1 .. N : /\ Hits(values, FieldOf, n, f) /\ values[n][2] = Value(fields, f)
                                  /\ \A m \in 1 .. N : m > n => ~ Hits(values, FieldOf, m, f)
  <2>1. f \in KeysOf(fields)
    BY <1>3, <1>6 DEF AssignedTo
  <2>2. Gives(fields, f, Value(fields, f))
    BY <1>5, <2>1, ValueIs
  <2>3. PICK n \in 1 .. N : /\ Hits(values, FieldOf, n, f) /\ values[n][2] = Value(fields, f)
                            /\ \A m \in n + 1 .. N : ~ Hits(values, FieldOf, m, f)
    BY <1>3, <1>6, <2>2 DEF AssignedTo
  <2>4. \A m \in 1 .. N : m > n => m \in n + 1 .. N
    BY <1>1
  <2>5. QED
    BY <2>1, <2>3, <2>4
<1>7. ASSUME \A n \in 1 .. N : ~ Hits(values, FieldOf, n, "name") PROVE Value(fields, "name") = fallback
  <2>1. Gives(fields, "name", fallback)
    BY <1>2, <1>3, <1>7 DEF AssignedTo
  <2>2. QED
    BY <1>5, <2>1, ValueIs
<1>8. QED
  BY <1>1, <1>4, <1>6, <1>7 DEF FieldsOf

-----------------------------------------------------------------------------
\* The products are over the places there are, one after the other.
LEMMA ProductsAre ==
  ASSUME NEW r \in Seq(Nat \ {0}), NEW n \in 0 .. Len(r)
  PROVE  /\ Products(r, n)[n] = 1
         /\ \A m \in n + 1 .. Len(r) : Products(r, n)[m] = Products(r, n)[m - 1] * r[m]
         /\ \A m \in n .. Len(r) : Products(r, n)[m] \in Nat \ {0}
<1> DEFINE N == Len(r)
<1>1. N \in Nat
  OBVIOUS
<1> HIDE DEF N
<1>2. n \in Nat /\ n <= N /\ N - n \in Nat
  BY <1>1 DEF N
<1>3. \A m \in 1 .. N : r[m] \in Nat \ {0}
  BY DEF N
<1> DEFINE F == [p \in (1 .. N - n) \X (Nat \ {0}) |-> p[2] * r[n + p[1]]]
           D == N - n
           V == Nat \ {0}
<1>4. \A d \in 1 .. D : \A x \in V : F[<<d, x>>] = x * r[n + d] /\ F[<<d, x>>] \in V
  <2>1. \A x, y \in V : x * y \in V
    OBVIOUS
  <2> HIDE DEF V
  <2>2. \A d \in 1 .. D : \A x \in V : F[<<d, x>>] = x * r[n + d]
    BY DEF V
  <2> HIDE DEF F, D
  <2>3. \A d \in 1 .. D : r[n + d] \in V
    <3>1. \A d \in 1 .. N - n : n + d \in 1 .. N
      BY <1>1, <1>2
    <3>2. QED
      BY <1>3, <3>1 DEF V, D
  <2>4. QED
    BY <2>1, <2>2, <2>3
<1>5. PICK done : GoesOn(done, 1, F, D, V)
  <2>1. Onward(F, D, V) /\ 1 \in V /\ D \in Nat
    <3> HIDE DEF F
    <3>1. QED
      BY <1>2, <1>4 DEF Onward
  <2> HIDE DEF F, V, D
  <2>2. QED
    BY <2>1, RecursionExists
<1> DEFINE Next(f, m) == IF m = n THEN 1 ELSE f[m - 1] * r[m]
           shifted == [m \in n .. N |-> done[m - n]]
<1>6. shifted = [m \in n .. N |-> Next(shifted, m)]
  <2>1. ASSUME NEW m \in n .. N PROVE shifted[m] = Next(shifted, m)
    <3>1. shifted[m] = done[m - n]
      OBVIOUS
    <3>2. CASE m = n
      <4>1. m - n = 0
        BY <1>2, <3>2
      <4>2. QED
        BY <1>5, <3>1, <3>2, <4>1 DEF GoesOn
    <3>3. CASE m # n
      <4>1. m - n \in 1 .. D /\ (m - n) - 1 = (m - 1) - n /\ m - 1 \in n .. N /\ n + (m - n) = m /\ (m - n) - 1 \in 0 .. D
        BY <1>1, <1>2, <3>3
      <4>2. shifted[m - 1] = done[(m - n) - 1]
        BY <4>1
      <4> HIDE DEF F, V, D, shifted
      <4>3. done[m - n] = F[<<m - n, done[(m - n) - 1]>>] /\ done[(m - n) - 1] \in V
        BY <1>5, <4>1 DEF GoesOn
      <4>4. F[<<m - n, done[(m - n) - 1]>>] = done[(m - n) - 1] * r[n + (m - n)]
        BY <1>4, <4>1, <4>3
      <4>5. QED
        BY <3>1, <3>3, <4>1, <4>2, <4>3, <4>4
    <3>4. QED
      BY <3>2, <3>3
  <2>2. shifted = [m \in n .. N |-> shifted[m]]
    OBVIOUS
  <2> HIDE DEF shifted, Next
  <2>3. QED
    BY <2>1, <2>2
<1> DEFINE all == CHOOSE f : f = [m \in n .. N |-> Next(f, m)]
<1>7. all = [m \in n .. N |-> Next(all, m)]
  <2> HIDE DEF Next, shifted
  <2>1. QED
    BY <1>6, Zenon
<1>8. Products(r, n) = all
  BY DEF Products, N
<1> HIDE DEF all
<1> DEFINE S == {d \in 0 .. D : all[n + d] \in V}
<1>9. all[n] = 1
  <2>1. n \in n .. N
    BY <1>1, <1>2
  <2>2. QED
    BY <1>7, <2>1
<1>10. ASSUME NEW m \in n + 1 .. N PROVE all[m] = all[m - 1] * r[m]
  <2>1. m \in n .. N /\ m # n
    BY <1>1, <1>2
  <2>2. QED
    BY <1>7, <2>1
<1>11. 0 \in S
  BY <1>2, <1>9
<1>12. ASSUME NEW d \in 1 .. D, d - 1 \in S PROVE d \in S
  <2>1. n + d \in n + 1 .. N /\ (n + d) - 1 = n + (d - 1) /\ d \in 0 .. D
    BY <1>1, <1>2
  <2>2. all[n + d] = all[n + (d - 1)] * r[n + d]
    BY <1>10, <2>1
  <2>3. all[n + (d - 1)] \in V /\ r[n + d] \in V
    <3>1. n + d \in 1 .. N
      BY <1>2, <2>1
    <3>2. QED
      BY <1>3, <1>12, <3>1
  <2>4. \A x, y \in V : x * y \in V
    OBVIOUS
  <2> HIDE DEF V
  <2>5. all[n + d] \in V
    BY <2>2, <2>3, <2>4
  <2>6. QED
    BY <2>1, <2>5
<1>13. D \in Nat
  BY <1>2
<1>14. \A d \in 0 .. D : d \in S
  <2> HIDE DEF S, D
  <2>1. QED
    BY <1>11, <1>12, <1>13, Stepwise
<1>15. ASSUME NEW m \in n .. N PROVE all[m] \in V
  <2>1. m - n \in 0 .. D /\ n + (m - n) = m
    BY <1>1, <1>2
  <2>2. QED
    BY <1>14, <2>1
<1>16. QED
  BY <1>8, <1>9, <1>10, <1>15 DEF N

\* Over ones a product stays what it is.
LEMMA ProductsStand ==
  ASSUME NEW r \in Seq(Nat \ {0}), NEW n \in 0 .. Len(r), NEW a \in n .. Len(r), NEW b \in a .. Len(r),
         \A m \in a + 1 .. b : r[m] = 1
  PROVE  Products(r, n)[b] = Products(r, n)[a]
<1> DEFINE N == Len(r)
           P == Products(r, n)
<1>1. N \in Nat
  OBVIOUS
<1> HIDE DEF N
<1>2. n \in Nat /\ a \in Nat /\ b \in Nat /\ n <= a /\ a <= b /\ b <= N /\ b - a \in Nat
  BY <1>1 DEF N
<1>3. /\ \A m \in n + 1 .. N : P[m] = P[m - 1] * r[m]
      /\ \A m \in n .. N : P[m] \in Nat \ {0}
  BY ProductsAre DEF N
<1> HIDE DEF P
<1> DEFINE D == b - a
           S == {d \in 0 .. D : P[a + d] = P[a]}
<1>4. 0 \in S
  BY <1>2
<1>5. ASSUME NEW d \in 1 .. D, d - 1 \in S PROVE d \in S
  <2>1. /\ a + d \in n + 1 .. N /\ (a + d) - 1 = a + (d - 1) /\ d \in 0 .. D /\ a + d \in a + 1 .. b
        /\ a + (d - 1) \in n .. N
    BY <1>1, <1>2
  <2>2. r[a + d] = 1
    BY <2>1
  <2>3. P[a + d] = P[a + (d - 1)] * 1 /\ P[a + (d - 1)] \in Nat
    BY <1>3, <2>1, <2>2
  <2>4. QED
    BY <1>5, <2>1, <2>3
<1>6. D \in S
  <2>1. D \in Nat /\ D \in 0 .. D
    BY <1>2
  <2> HIDE DEF S, D
  <2>2. QED
    BY <1>4, <1>5, <2>1, Stepwise
<1>7. a + D = b
  BY <1>2
<1>8. QED
  BY <1>6, <1>7 DEF P

\* One sequence after another.
Joined(x, y, xy, T) ==
    /\ xy \in Seq(T) /\ Len(xy) = Len(x) + Len(y)
    /\ \A c \in 1 .. Len(x) : xy[c] = x[c]
    /\ \A c \in 1 .. Len(y) : xy[Len(x) + c] = y[c]

\* Two sequences, one behind the other.
LEMMA Concatenated ==
  ASSUME NEW T, NEW x \in Seq(T), NEW y \in Seq(T)
  PROVE  Joined(x, y, x \o y, T)
  BY DEF Joined

\* Where in rows of one length an entry of all of them stands.
Row(c, s) == (c - 1) \div s + 1
Col(c, s) == ((c - 1) % s) + 1

\* The row and the column of a place, of so many columns.
LEMMA PlaceIs ==
  ASSUME NEW i \in Nat, NEW s \in Nat \ {0}, NEW d \in 1 .. s
  PROVE  Row(i * s + d, s) = i + 1 /\ Col(i * s + d, s) = d
<1> DEFINE a == i * s + d - 1
           r == a % s
<1>1. i * s \in Nat /\ a \in Nat /\ i * s <= a /\ a < i * s + s /\ (i + 1) * s = i * s + s /\ s * i = i * s
  OBVIOUS
<1> HIDE DEF a
<1>2. a \div s = i
  BY <1>1, DivIs
<1>3. r \in Nat /\ a = s * (a \div s) + r
  BY <1>1, DivMod
<1>4. a = s * i + r
  BY <1>2, <1>3
<1> HIDE DEF r
<1>5. r = d - 1
  <2>1. s * i + r = i * s + d - 1
    BY <1>4 DEF a
  <2> DEFINE k == i * s
  <2>2. k + r = k + d - 1 /\ k \in Nat
    BY <1>1, <2>1
  <2> HIDE DEF k
  <2>3. QED
    BY <1>3, <2>2
<1>6. r + 1 = d
  BY <1>5
<1>7. QED
  BY <1>2, <1>6 DEF a, r, Row, Col

\* The first rows, one after the other.
Laid(i, flat, seqs, s, T) ==
    /\ flat \in Seq(T) /\ Len(flat) = i * s
    /\ \A c \in 1 .. i * s : /\ Row(c, s) \in 1 .. i /\ Col(c, s) \in 1 .. s
                             /\ flat[c] = seqs[Row(c, s)][Col(c, s)]

\* What the rows are, put one after the other.
LEMMA FlattenIs ==
  ASSUME NEW T, NEW seqs \in Seq(Seq(T)), NEW s \in Nat \ {0}, \A i \in DOMAIN seqs : Len(seqs[i]) = s
  PROVE  Laid(Len(seqs), FlattenSeq(seqs), seqs, s, T)
<1> DEFINE L == Len(seqs)
<1>1. L \in Nat /\ DOMAIN seqs = 1 .. L /\ \A i \in 1 .. L : seqs[i] \in Seq(T) /\ Len(seqs[i]) = s
  OBVIOUS
<1>2. CASE L = 0
  <2>1. FlattenSeq(seqs) = <<>>
    <3>1. seqs = <<>> /\ FlattenSeq(seqs) = seqs
      BY <1>2 DEF FlattenSeq
    <3>2. QED
      BY <3>1
  <2>2. Len(seqs) * s = 0 /\ 1 .. 0 = {}
    BY <1>2
  <2> HIDE DEF L
  <2>3. <<>> \in Seq(T) /\ Len(<<>>) = 0
    OBVIOUS
  <2>4. Laid(Len(seqs), <<>>, seqs, s, T)
    BY <2>2, <2>3 DEF Laid
  <2>5. QED
    BY <2>1, <2>4
<1>3. CASE L # 0
  <2> DEFINE Next(f, i) == IF i = 1 THEN seqs[i] ELSE f[i - 1] \o seqs[i]
             V == Seq(T)
             F == [p \in (1 .. L - 1) \X V |-> p[2] \o seqs[p[1] + 1]]
             all == CHOOSE f : f = [i \in 1 .. L |-> Next(f, i)]
  <2>1. L - 1 \in Nat /\ 1 \in 1 .. L /\ \A n \in 1 .. L - 1 : n + 1 \in 1 .. L
    BY <1>1, <1>3
  <2>2. \A n \in 1 .. L - 1 : \A x \in V : F[<<n, x>>] = x \o seqs[n + 1] /\ F[<<n, x>>] \in V
    <3>1. \A n \in 1 .. L - 1 : \A x \in V : F[<<n, x>>] = x \o seqs[n + 1]
      OBVIOUS
    <3>2. \A n \in 1 .. L - 1 : seqs[n + 1] \in V
      BY <1>1, <2>1
    <3>3. \A x, y \in V : x \o y \in V
      OBVIOUS
    <3> HIDE DEF F, V, L
    <3>4. QED
      BY <3>1, <3>2, <3>3
  <2>3. PICK done : GoesOn(done, seqs[1], F, L - 1, V)
    <3>1. Onward(F, L - 1, V)
      <4> HIDE DEF F, V, L
      <4>1. QED
        BY <2>2 DEF Onward
    <3>2. seqs[1] \in V
      BY <1>1, <2>1
    <3> HIDE DEF F, V, L
    <3>3. QED
      BY <2>1, <3>1, <3>2, RecursionExists
  <2> DEFINE shifted == [i \in 1 .. L |-> done[i - 1]]
  <2>4. ASSUME NEW i \in 1 .. L PROVE shifted[i] = Next(shifted, i)
    <3>1. shifted[i] = done[i - 1]
      OBVIOUS
    <3>2. CASE i = 1
      <4>1. i - 1 = 0
        BY <3>2
      <4>2. QED
        BY <2>3, <3>1, <3>2, <4>1 DEF GoesOn
    <3>3. CASE i # 1
      <4>1. i - 1 \in 1 .. L - 1 /\ i - 1 \in 1 .. L /\ (i - 1) - 1 \in 0 .. L - 1 /\ (i - 1) + 1 = i
        BY <1>1, <3>3
      <4>2. shifted[i - 1] = done[(i - 1) - 1]
        BY <4>1
      <4> HIDE DEF F, V, L, shifted
      <4>3. done[i - 1] = F[<<i - 1, done[(i - 1) - 1]>>] /\ done[(i - 1) - 1] \in V
        BY <2>3, <4>1 DEF GoesOn
      <4>4. F[<<i - 1, done[(i - 1) - 1]>>] = done[(i - 1) - 1] \o seqs[(i - 1) + 1]
        BY <2>2, <4>1, <4>3
      <4>5. QED
        BY <3>1, <3>3, <4>1, <4>2, <4>3, <4>4
    <3>4. QED
      BY <3>2, <3>3
  <2>5. all = [i \in 1 .. L |-> Next(all, i)]
    <3>1. shifted = [i \in 1 .. L |-> shifted[i]]
      OBVIOUS
    <3> HIDE DEF Next, shifted, L
    <3>2. shifted = [i \in 1 .. L |-> Next(shifted, i)]
      BY <2>4, <3>1
    <3>3. QED
      BY <3>2, Zenon
  <2>6. FlattenSeq(seqs) = all[L]
    BY <1>3 DEF FlattenSeq
  <2> HIDE DEF all
  <2>7. all[1] = seqs[1] /\ \A i \in 1 .. L : i # 1 => all[i] = all[i - 1] \o seqs[i]
    <3> HIDE DEF L
    <3>1. QED
      BY <2>1, <2>5
  <2> DEFINE To(i, x) == Laid(i, x, seqs, s, T)
  <2>8. ASSUME NEW i \in 1 .. L, NEW x, To(i - 1, x) PROVE To(i, x \o seqs[i])
    <3> DEFINE y == x \o seqs[i]
               k == (i - 1) * s
    <3>1. i \in Nat /\ i - 1 \in Nat /\ k \in Nat /\ i * s = k + s /\ (i - 1) + 1 = i
      BY <1>1
    <3>2. x \in Seq(T) /\ seqs[i] \in Seq(T) /\ Len(x) = k /\ Len(seqs[i]) = s
      BY <1>1, <2>8 DEF Laid
    <3>3. /\ y \in Seq(T) /\ Len(y) = Len(x) + Len(seqs[i]) /\ \A c \in 1 .. Len(x) : y[c] = x[c]
          /\ \A c \in 1 .. Len(seqs[i]) : y[Len(x) + c] = seqs[i][c]
      <4>1. Joined(x, seqs[i], y, T)
        BY <3>2, Concatenated
      <4>2. QED
        BY <4>1 DEF Joined
    <3> HIDE DEF y
    <3>4. y \in Seq(T) /\ Len(y) = i * s /\ (\A c \in 1 .. k : y[c] = x[c]) /\ \A d \in 1 .. s : y[k + d] = seqs[i][d]
      BY <3>1, <3>2, <3>3
    <3>5. ASSUME NEW c \in 1 .. k
          PROVE  Row(c, s) \in 1 .. i /\ Col(c, s) \in 1 .. s /\ y[c] = seqs[Row(c, s)][Col(c, s)]
      <4> HIDE DEF k
      <4>1. Row(c, s) \in 1 .. i - 1 /\ Col(c, s) \in 1 .. s /\ x[c] = seqs[Row(c, s)][Col(c, s)]
        BY <2>8 DEF Laid, k
      <4>2. QED
        BY <3>1, <3>4, <4>1
    <3>6. ASSUME NEW d \in 1 .. s
          PROVE  Row(k + d, s) = i /\ Col(k + d, s) = d
      BY <3>1, PlaceIs
    <3> HIDE DEF k
    <3>7. ASSUME NEW c \in 1 .. i * s
          PROVE  Row(c, s) \in 1 .. i /\ Col(c, s) \in 1 .. s /\ y[c] = seqs[Row(c, s)][Col(c, s)]
      <4>1. CASE c <= k
        <5>1. c \in 1 .. k
          BY <3>1, <4>1
        <5>2. QED
          BY <3>5, <5>1
      <4>2. CASE c > k
        <5>1. PICK d \in 1 .. s : c = k + d
          <6>1. c \in Nat /\ c <= k + s
            BY <3>1
          <6>2. c - k \in 1 .. s /\ c = k + (c - k)
            BY <3>1, <4>2, <6>1
          <6>3. QED
            BY <6>2
        <5>2. i \in 1 .. i
          BY <3>1
        <5>3. QED
          BY <3>4, <3>6, <5>1, <5>2
      <4>3. QED
        BY <3>1, <4>1, <4>2
    <3>8. To(i, y)
      BY <3>4, <3>7 DEF Laid
    <3>9. QED
      BY <3>8 DEF y
  <2>9. To(0, <<>>)
    <3>1. 0 * s = 0 /\ 1 .. 0 = {}
      OBVIOUS
    <3>2. QED
      BY <3>1 DEF Laid
  <2> DEFINE S == {d \in 0 .. L - 1 : To(d + 1, all[d + 1])}
  <2>10. 0 \in S
    <3>1. <<>> \o seqs[1] = seqs[1]
      BY <1>1, <2>1
    <3>2. 1 - 1 = 0 /\ 0 + 1 = 1 /\ 0 \in 0 .. L - 1
      BY <2>1
    <3> HIDE DEF To, L
    <3>3. To(1, seqs[1])
      BY <2>1, <2>8, <2>9, <3>1, <3>2
    <3>4. QED
      BY <2>7, <3>2, <3>3
  <2>11. ASSUME NEW d \in 1 .. L - 1, d - 1 \in S PROVE d \in S
    <3>1. (d - 1) + 1 = d /\ (d + 1) - 1 = d /\ d + 1 \in 1 .. L /\ d + 1 # 1 /\ d \in 0 .. L - 1
      BY <1>1, <2>1
    <3> HIDE DEF To, L
    <3>2. To(d, all[d])
      BY <2>11, <3>1
    <3>3. To(d + 1, all[d] \o seqs[d + 1])
      BY <2>8, <3>1, <3>2
    <3>4. QED
      BY <2>7, <3>1, <3>3
  <2>12. L - 1 \in 0 .. L - 1 /\ (L - 1) + 1 = L
    BY <2>1
  <2>13. L - 1 \in S
    <3> HIDE DEF S, L
    <3>1. QED
      BY <2>1, <2>10, <2>11, <2>12, Stepwise
  <2>14. To(L, all[L])
    <3> HIDE DEF To
    <3>1. QED
      BY <2>12, <2>13
  <2>15. QED
    BY <2>6, <2>14
<1>4. QED
  BY <1>2, <1>3

-----------------------------------------------------------------------------
Strings == STRING
HasField(k) == k \in DOMAIN FieldOf
IsObj(obj, T) == obj \in Seq(Strings \X T) /\ Unique(obj)

\* The assumptions, in the terms of the proofs.
LEMMA SweepIsOf ==
  /\ Len(SortedKeys) \in Nat /\ DOMAIN SortedKeys = 1 .. Len(SortedKeys)
  /\ \A m \in DOMAIN SortedKeys : SortedKeys[m] \in Strings
  /\ \A m, n \in DOMAIN SortedKeys : SortedKeys[m] = SortedKeys[n] => m = n
  /\ Len(Fallbacks) \in Nat /\ DOMAIN Fallbacks = 1 .. Len(Fallbacks)
  /\ \A m \in DOMAIN Fallbacks : Fallbacks[m] \in Strings
  /\ \A m, n \in DOMAIN Fallbacks : Fallbacks[m] = Fallbacks[n] => m = n
  /\ "name" \in Strings /\ "name" \in DOMAIN FieldOf
  /\ \A k \in DOMAIN FieldOf : FieldOf[k] \in Strings /\ (FieldOf[k] = "name" <=> k = "name")
<1>1. SortedKeys \in Seq(Strings) /\ Fallbacks \in Seq(Strings)
  BY SweepConstants DEF Strings
<1>2. IsInjective(SortedKeys) /\ IsInjective(Fallbacks)
  BY SweepConstants
<1>3. "name" \in Strings
  <2>1. "name" \in DOMAIN FieldOf /\ \A k \in DOMAIN FieldOf : FieldOf[k] \in STRING /\ (FieldOf[k] = "name" <=> k = "name")
    BY SweepConstants, Zenon
  <2>2. FieldOf["name"] = "name" /\ FieldOf["name"] \in STRING
    BY <2>1, Zenon
  <2>3. QED
    BY <2>2, Zenon DEF Strings
<1>4. /\ "name" \in DOMAIN FieldOf
      /\ \A k \in DOMAIN FieldOf : FieldOf[k] \in Strings /\ (FieldOf[k] = "name" <=> k = "name")
  BY SweepConstants, Zenon DEF Strings
<1>5. QED
  BY <1>1, <1>2, <1>3, <1>4 DEF IsInjective

\* What may be typed.
LEMMA SpecsAre ==
  /\ \A s \in Specs : /\ IsObj(s.defaults, Strings)
                      /\ s.params \in Seq(Seq(Strings \X Strings)) /\ \A n \in DOMAIN s.params : IsObj(s.params[n], Strings)
                      /\ s.shorthand \in Seq(Range(SortedKeys) \X Seq(Strings))
  /\ \A s \in Seeds :
       /\ IsObj(s, Strings)
       /\ \A k \in KeysOf(s) : k # "name" /\ \A l : HasField(l) /\ HasField(k) /\ FieldOf[l] = FieldOf[k] => l = k
<1>1. \A obj : IsObject(obj, STRING) <=> IsObj(obj, Strings)
  BY Zenon DEF IsObject, IsObj, Unique, Strings
<1>2. \A s \in Specs : /\ IsObject(s.defaults, STRING)
                       /\ s.params \in Seq(Seq(STRING \X STRING)) /\ \A n \in DOMAIN s.params : IsObject(s.params[n], STRING)
                       /\ s.shorthand \in Seq(Range(SortedKeys) \X Seq(STRING))
  BY SweepConstants, Zenon
<1>3. \A s \in Seeds :
        /\ IsObject(s, STRING)
        /\ \A k \in KeysOf(s) : k # "name" /\ \A l \in DOMAIN FieldOf : k \in DOMAIN FieldOf /\ FieldOf[l] = FieldOf[k] => l = k
  BY SweepConstants, Zenon
<1>4. \A s \in Specs : /\ IsObj(s.defaults, Strings)
                       /\ s.params \in Seq(Seq(Strings \X Strings)) /\ \A n \in DOMAIN s.params : IsObj(s.params[n], Strings)
                       /\ s.shorthand \in Seq(Range(SortedKeys) \X Seq(Strings))
  BY <1>1, <1>2, Zenon DEF Strings
<1>5. \A s \in Seeds :
       /\ IsObj(s, Strings)
       /\ \A k \in KeysOf(s) : k # "name" /\ \A l : HasField(l) /\ HasField(k) /\ FieldOf[l] = FieldOf[k] => l = k
  BY <1>1, <1>3, Zenon DEF HasField
<1>6. QED
  BY <1>4, <1>5

\* A grid that was not refused: its keys are among those that sort, and each has a value.
GridOK(g) ==
    /\ g \in Seq(Range(SortedKeys) \X Seq(Strings)) /\ Unique(g)
    /\ \A n \in DOMAIN g : g[n][2] # <<>>

\* A shorthand that is not refused gives such a grid.
LEMMA GridIs ==
  ASSUME NEW pairs \in Seq(Range(SortedKeys) \X Seq(Strings)), ~ BadGrid(pairs)
  PROVE  GridOK(GridOf(pairs))
<1> DEFINE K == Range(SortedKeys)
           T == Seq(Strings)
           entries == [n \in DOMAIN pairs |-> <<pairs[n][1], Dropping(pairs[n][2], "")>>]
           N == Len(entries)
           g == Assign(<<>>, entries, AsIs(KeysOf(entries)))
<1>1. \A n \in DOMAIN pairs : pairs[n][1] \in K /\ pairs[n][2] \in Seq(Strings)
  OBVIOUS
<1>2. \A n \in DOMAIN pairs : <<pairs[n][1], Dropping(pairs[n][2], "")>> \in K \X T
  BY <1>1, DroppingIs
<1>3. entries \in Seq(K \X T) /\ DOMAIN entries = DOMAIN pairs
  <2>1. Len(pairs) \in Nat /\ DOMAIN pairs = 1 .. Len(pairs)
    OBVIOUS
  <2> DEFINE P == K \X T
             e(n) == <<pairs[n][1], Dropping(pairs[n][2], "")>>
  <2>2. \A n \in 1 .. Len(pairs) : e(n) \in P
    BY <1>2, <2>1
  <2>3. entries = [n \in 1 .. Len(pairs) |-> e(n)]
    BY <2>1
  <2> HIDE DEF P, e
  <2>4. [n \in 1 .. Len(pairs) |-> e(n)] \in Seq(P)
    BY <2>1, <2>2
  <2>5. QED
    BY <2>1, <2>3, <2>4 DEF P
<1>4. \A n \in DOMAIN entries : entries[n][2] # <<>>
  <2>1. \A n \in DOMAIN pairs : entries[n][2] = Dropping(pairs[n][2], "")
    OBVIOUS
  <2>2. \A n \in DOMAIN pairs : Dropping(pairs[n][2], "") # <<>>
    BY DEF BadGrid
  <2>3. QED
    BY <1>3, <2>1, <2>2
<1>5. GridOf(pairs) = g
  BY DEF GridOf
<1> HIDE DEF entries, T, K
<1>6. \A l \in K : l \in DOMAIN AsIs(KeysOf(entries)) => AsIs(KeysOf(entries))[l] \in K
  BY DEF AsIs
<1>7. <<>> \in Seq(K \X T) /\ Unique(<<>>)
  BY DEF Unique
<1>8. AssignedTo(<<>>, entries, AsIs(KeysOf(entries)), N, g, K, T)
  BY <1>3, <1>6, <1>7, AssignIs
<1> HIDE DEF g
<1>9. ASSUME NEW n \in DOMAIN g PROVE g[n][2] # <<>>
  <2>1. Gives(g, g[n][1], g[n][2])
    BY DEF Gives
  <2>2. ~ Gives(<<>>, g[n][1], g[n][2])
    BY DEF Gives
  <2>3. PICK m \in 1 .. N : entries[m][2] = g[n][2]
    BY <1>8, <2>1, <2>2 DEF AssignedTo
  <2>4. m \in DOMAIN entries
    BY <1>3
  <2>5. QED
    BY <1>4, <2>3, <2>4
<1>10. g \in Seq(K \X T) /\ Unique(g)
  BY <1>8 DEF AssignedTo
<1>11. QED
  BY <1>5, <1>9, <1>10 DEF GridOK, K, T

\* The places of a grid's keys, and how many values each has.
PlacesIn(g)  == {n \in DOMAIN SortedKeys : SortedKeys[n] \in KeysOf(g)}
SizeIn(g, n) == Len(Value(g, SortedKeys[n]))
RadicesOf(g) == [m \in DOMAIN SortedKeys |-> IF m \in PlacesIn(g) THEN SizeIn(g, m) ELSE 1]

\* The places of a grid's keys among those that sort, and how many values each has.
LEMMA GridFacts ==
  ASSUME NEW g, GridOK(g)
  PROVE  /\ RadicesOf(g) \in Seq(Nat \ {0}) /\ Len(RadicesOf(g)) = Len(SortedKeys)
         /\ \A m \in 1 .. Len(SortedKeys) : RadicesOf(g)[m] = IF m \in PlacesIn(g) THEN SizeIn(g, m) ELSE 1
         /\ \A m \in PlacesIn(g) : Value(g, SortedKeys[m]) \in Seq(Strings) /\ SizeIn(g, m) \in Nat \ {0}
         /\ \A k : k \in KeysOf(g) <=> \E m \in PlacesIn(g) : SortedKeys[m] = k
         /\ PlacesIn(g) = {} <=> g = <<>>
<1> DEFINE N == Len(SortedKeys)
           K == Range(SortedKeys)
           T == Seq(Strings)
<1>1. N \in Nat /\ DOMAIN SortedKeys = 1 .. N
  BY SweepIsOf
<1>2. g \in Seq(K \X T) /\ Unique(g) /\ (\A n \in DOMAIN g : g[n][2] # <<>> /\ g[n][1] \in K)
      /\ (DOMAIN g = {} <=> g = <<>>)
  BY DEF GridOK
<1>3. \A k : k \in K <=> \E m \in DOMAIN SortedKeys : SortedKeys[m] = k
  BY DEF Range
<1>4. ASSUME NEW k \in KeysOf(g) PROVE Value(g, k) \in T /\ Value(g, k) # <<>>
  <2>1. Gives(g, k, Value(g, k)) /\ Value(g, k) \in T
    BY <1>2, ValueIs
  <2>2. QED
    BY <1>2, <2>1 DEF Gives
<1>5. \A m \in PlacesIn(g) : Value(g, SortedKeys[m]) \in Seq(Strings) /\ SizeIn(g, m) \in Nat \ {0}
  <2>1. \A vs \in Seq(Strings) : vs # <<>> => Len(vs) \in Nat \ {0}
    OBVIOUS
  <2>2. QED
    BY <1>4, <2>1 DEF PlacesIn, SizeIn
<1>6. \A k \in KeysOf(g) : k \in K
  BY <1>2 DEF KeysOf
<1>7. \A k : k \in KeysOf(g) <=> \E m \in PlacesIn(g) : SortedKeys[m] = k
  BY <1>3, <1>6 DEF PlacesIn
<1>8. PlacesIn(g) = {} <=> g = <<>>
  <2>1. KeysOf(g) = {} <=> DOMAIN g = {}
    BY DEF KeysOf
  <2>2. PlacesIn(g) = {} <=> KeysOf(g) = {}
    BY <1>7 DEF PlacesIn
  <2>3. QED
    BY <1>2, <2>1, <2>2
<1>9. \A m \in 1 .. N : RadicesOf(g)[m] = IF m \in PlacesIn(g) THEN SizeIn(g, m) ELSE 1
  BY <1>1 DEF RadicesOf
<1>10. RadicesOf(g) \in Seq(Nat \ {0}) /\ Len(RadicesOf(g)) = N
  <2> DEFINE R(m) == IF m \in PlacesIn(g) THEN SizeIn(g, m) ELSE 1
             V == Nat \ {0}
  <2>1. \A m \in 1 .. N : R(m) \in V
    BY <1>5
  <2>2. RadicesOf(g) = [m \in 1 .. N |-> R(m)]
    BY <1>1 DEF RadicesOf
  <2> HIDE DEF R, V, N
  <2>3. [m \in 1 .. N |-> R(m)] \in Seq(V) /\ Len([m \in 1 .. N |-> R(m)]) = N
    BY <1>1, <2>1
  <2>4. QED
    BY <2>2, <2>3 DEF V
<1>11. QED
  BY <1>5, <1>7, <1>8, <1>9, <1>10

\* The combination at one index, when the keys up to a place were gone through.
ComboIs(q, c, combo, g) ==
    /\ Unique(combo)
    /\ \A k : k \in KeysOf(combo) <=> \E n \in PlacesIn(g) : n <= q /\ SortedKeys[n] = k
    /\ \A n \in PlacesIn(g) : n <= q =>
         Value(combo, SortedKeys[n])
           = Value(g, SortedKeys[n])[(((c - 1) \div Products(RadicesOf(g), n)[q]) % SizeIn(g, n)) + 1]
CombosTo(q, cs, g) ==
    /\ cs \in Seq(Seq(Strings \X Strings))
    /\ Len(cs) = IF g = <<>> THEN 0 ELSE Products(RadicesOf(g), 0)[q]
    /\ \A c \in DOMAIN cs : ComboIs(q, c, cs[c], g)
KeysFrom(q, g) == {SortedKeys[n] : n \in {m \in PlacesIn(g) : m > q}}

\* One more value on a combination.
LEMMA ComboGrows ==
  ASSUME NEW g, GridOK(g), NEW q \in 0 .. Len(SortedKeys), NEW p \in PlacesIn(g), q < p,
         \A m \in PlacesIn(g) : m < p => m <= q,
         NEW c \in Nat \ {0}, NEW combo \in Seq(Strings \X Strings), ComboIs(q, Row(c, SizeIn(g, p)), combo, g),
         Col(c, SizeIn(g, p)) \in 1 .. SizeIn(g, p)
  PROVE  ComboIs(p, c, Append(combo, <<SortedKeys[p], Value(g, SortedKeys[p])[Col(c, SizeIn(g, p))]>>), g)
<1> DEFINE N == Len(SortedKeys)
           s == SizeIn(g, p)
           k == SortedKeys[p]
           vs == Value(g, k)
           v == vs[Col(c, s)]
           new == Append(combo, <<k, v>>)
           r == RadicesOf(g)
<1>1. N \in Nat /\ DOMAIN SortedKeys = 1 .. N /\ PlacesIn(g) \subseteq 1 .. N /\ k \in Strings
  BY SweepIsOf DEF PlacesIn
<1>2. /\ r \in Seq(Nat \ {0}) /\ Len(r) = N
      /\ \A m \in 1 .. N : r[m] = IF m \in PlacesIn(g) THEN SizeIn(g, m) ELSE 1
      /\ vs \in Seq(Strings) /\ s \in Nat \ {0} /\ Len(vs) = s
      /\ \A m \in PlacesIn(g) : SizeIn(g, m) \in Nat \ {0}
  BY GridFacts DEF SizeIn
<1>3. v \in Strings
  BY <1>2
<1>4. \A m, n \in PlacesIn(g) : SortedKeys[m] = SortedKeys[n] => m = n
  BY <1>1, SweepIsOf
<1>5. k \notin KeysOf(combo)
  <2>1. \A n \in PlacesIn(g) : n <= q => n # p
    BY <1>1
  <2>2. QED
    BY <1>4, <2>1 DEF ComboIs
<1>6. new = Put(combo, k, v)
  BY <1>5 DEF Put
<1> HIDE DEF v, vs, k, s, N, r
<1>7. Unique(combo)
  BY DEF ComboIs
<1> HIDE DEF new
<1>8. /\ new \in Seq(Strings \X Strings) /\ Unique(new)
      /\ \A l : l \in KeysOf(new) <=> l \in KeysOf(combo) \/ l = k
      /\ \A l, w : Gives(new, l, w) <=> (IF l = k THEN w = v ELSE Gives(combo, l, w))
  <2>1. k \in Strings
    BY <1>1
  <2>2. HasPut(new, combo, k, v, Strings, Strings)
    BY <1>3, <1>6, <1>7, <2>1, PutIs
  <2>3. QED
    BY <2>2 DEF HasPut
<1>9. \A n \in PlacesIn(g) : n <= p <=> n <= q \/ n = p
  BY <1>1
<1>10. \A l : l \in KeysOf(new) <=> \E n \in PlacesIn(g) : n <= p /\ SortedKeys[n] = l
  <2>1. \A l : l \in KeysOf(combo) <=> \E n \in PlacesIn(g) : n <= q /\ SortedKeys[n] = l
    BY DEF ComboIs
  <2>2. k = SortedKeys[p]
    BY DEF k
  <2>3. QED
    BY <1>8, <1>9, <2>1, <2>2
<1>11. Value(new, k) = v
  <2>1. Gives(new, k, v)
    BY <1>8
  <2>2. \A w : Gives(new, k, w) => Value(new, k) = w
    BY <1>8, ValueIs
  <2>3. QED
    BY <2>1, <2>2
<1>12. ASSUME NEW l \in KeysOf(combo) PROVE Value(new, l) = Value(combo, l)
  <2>1. Gives(combo, l, Value(combo, l)) /\ l # k
    BY <1>5, <1>7, ValueIs
  <2>2. Gives(new, l, Value(combo, l))
    BY <1>8, <2>1
  <2>3. \A w : Gives(new, l, w) => Value(new, l) = w
    BY <1>8, ValueIs
  <2>4. QED
    BY <2>2, <2>3
<1>13. ASSUME NEW n \in PlacesIn(g), n <= q
       PROVE  Value(new, SortedKeys[n])
                = Value(g, SortedKeys[n])[(((c - 1) \div Products(r, n)[p]) % SizeIn(g, n)) + 1]
  <2> DEFINE w == Products(r, n)[q]
  <2>1. n \in 0 .. N /\ q \in n .. N /\ p - 1 \in q .. N /\ p \in n + 1 .. N /\ p - 1 \in n .. N
    BY <1>1, <1>13 DEF N
  <2>2. Products(r, n)[p - 1] = w
    <3>1. \A m \in q + 1 .. p - 1 : m \in 1 .. N /\ m \notin PlacesIn(g)
      BY <1>1, <2>1
    <3>2. \A m \in q + 1 .. p - 1 : r[m] = 1
      BY <1>2, <3>1
    <3>3. r \in Seq(Nat \ {0}) /\ n \in 0 .. Len(r) /\ q \in n .. Len(r) /\ p - 1 \in q .. Len(r)
      BY <1>2, <2>1
    <3>4. QED
      BY <3>2, <3>3, ProductsStand
  <2>3. Products(r, n)[p] = w * s /\ w \in Nat \ {0}
    <3>1. r[p] = s
      BY <1>1, <1>2 DEF s
    <3>2. Products(r, n)[p] = Products(r, n)[p - 1] * r[p] /\ Products(r, n)[q] \in Nat \ {0}
      BY <1>2, <2>1, ProductsAre
    <3>3. QED
      BY <2>2, <3>1, <3>2
  <2>4. c - 1 \in Nat
    OBVIOUS
  <2> HIDE DEF w
  <2>5. (c - 1) \div (w * s) = ((c - 1) \div s) \div w
    BY <1>2, <2>3, <2>4, DivTwice
  <2>6. Row(c, s) - 1 = (c - 1) \div s
    <3>1. (c - 1) \div s \in Nat
      BY <1>2, <2>4, DivMod
    <3>2. QED
      BY <3>1 DEF Row
  <2>7. SortedKeys[n] \in KeysOf(combo)
    BY <1>13 DEF ComboIs
  <2>8. Value(combo, SortedKeys[n])
          = Value(g, SortedKeys[n])[(((Row(c, s) - 1) \div Products(r, n)[q]) % SizeIn(g, n)) + 1]
    BY <1>13 DEF ComboIs, s, r
  <2>9. Value(new, SortedKeys[n]) = Value(combo, SortedKeys[n])
    BY <1>12, <2>7
  <2>10. (Row(c, s) - 1) \div Products(r, n)[q] = (c - 1) \div Products(r, n)[p]
    BY <2>3, <2>5, <2>6 DEF w
  <2>11. QED
    BY <2>8, <2>9, <2>10
<1>14. Value(new, SortedKeys[p])
         = Value(g, SortedKeys[p])[(((c - 1) \div Products(r, p)[p]) % SizeIn(g, p)) + 1]
  <2>1. Products(r, p)[p] = 1
    <3>1. p \in 0 .. N
      BY <1>1
    <3>2. QED
      BY <1>2, <3>1, ProductsAre
  <2>2. (c - 1) \div 1 = c - 1
    OBVIOUS
  <2>3. (((c - 1) \div Products(r, p)[p]) % SizeIn(g, p)) + 1 = Col(c, s)
    BY <2>1, <2>2 DEF Col, s
  <2>4. Value(new, SortedKeys[p]) = vs[Col(c, s)]
    BY <1>11 DEF k, v
  <2>5. QED
    BY <2>3, <2>4 DEF vs, k
<1>15. \A n \in PlacesIn(g) : n <= p =>
         Value(new, SortedKeys[n])
           = Value(g, SortedKeys[n])[(((c - 1) \div Products(r, n)[p]) % SizeIn(g, n)) + 1]
  BY <1>9, <1>13, <1>14
<1>16. ComboIs(p, c, new, g)
  BY <1>8, <1>10, <1>15 DEF ComboIs, r
<1>17. QED
  BY <1>16 DEF new, v, vs, s, k

\* The key that sort() puts first of those that are left.
LEMMA FirstIs ==
  ASSUME NEW g, GridOK(g), NEW q \in 0 .. Len(SortedKeys), KeysFrom(q, g) # {}
  PROVE  \E p \in PlacesIn(g) : /\ q < p /\ \A m \in PlacesIn(g) : m < p => m <= q
                                /\ FirstKey(KeysFrom(q, g)) = SortedKeys[p]
                                /\ KeysFrom(q, g) \ {SortedKeys[p]} = KeysFrom(p, g)
<1> DEFINE N == Len(SortedKeys)
           some == KeysFrom(q, g)
           Firsts(n) == SortedKeys[n] \in some /\ \A m \in 1 .. n - 1 : SortedKeys[m] \notin some
           places == {n \in Nat : n \in DOMAIN SortedKeys /\ SortedKeys[n] \in some}
           p == CHOOSE n \in DOMAIN SortedKeys : Firsts(n)
<1>1. /\ N \in Nat /\ DOMAIN SortedKeys = 1 .. N /\ PlacesIn(g) \subseteq 1 .. N
      /\ \A m, n \in DOMAIN SortedKeys : SortedKeys[m] = SortedKeys[n] => m = n
  BY SweepIsOf DEF PlacesIn
<1>2. \A k : k \in some <=> \E n \in PlacesIn(g) : n > q /\ SortedKeys[n] = k
  BY DEF KeysFrom
<1> HIDE DEF some, N
<1>3. \A n \in DOMAIN SortedKeys : SortedKeys[n] \in some <=> n \in PlacesIn(g) /\ n > q
  BY <1>1, <1>2
<1>4. places # {} /\ places \subseteq Nat
  <2>1. PICK k : k \in some
    BY DEF some
  <2>2. PICK n \in PlacesIn(g) : n > q /\ SortedKeys[n] = k
    BY <1>2, <2>1
  <2>3. n \in Nat /\ n \in DOMAIN SortedKeys
    BY <1>1
  <2>4. QED
    BY <2>1, <2>2, <2>3
<1>5. PICK n \in places : \A m \in places : n <= m
  <2> HIDE DEF places
  <2>1. QED
    BY <1>4, FirstOne
<1>6. n \in DOMAIN SortedKeys /\ Firsts(n)
  <2>1. \A m \in 1 .. n - 1 : m \in Nat /\ m \in DOMAIN SortedKeys /\ ~ (n <= m)
    BY <1>1
  <2>2. QED
    BY <1>5, <2>1
<1>7. p \in DOMAIN SortedKeys /\ Firsts(p)
  <2> HIDE DEF Firsts
  <2>1. QED
    BY <1>6, Zenon
<1>8. FirstKey(some) = SortedKeys[p]
  BY DEF FirstKey
<1> HIDE DEF p
<1>9. p \in PlacesIn(g) /\ q < p
  BY <1>1, <1>3, <1>7
<1>10. ASSUME NEW m \in PlacesIn(g), m < p PROVE m <= q
  <2>1. m \in 1 .. p - 1 /\ m \in DOMAIN SortedKeys
    BY <1>1, <1>7, <1>10
  <2>2. SortedKeys[m] \notin some
    BY <1>7, <2>1
  <2>3. ~ (m > q)
    BY <1>3, <2>1, <2>2
  <2>4. QED
    BY <1>1, <2>3
<1>11. \A m \in PlacesIn(g) : m > q /\ m # p <=> m > p
  <2>1. ASSUME NEW m \in PlacesIn(g) PROVE m > q /\ m # p <=> m > p
    BY <1>1, <1>9, <1>10
  <2>2. QED
    BY <2>1
<1>12. \A k : k \in KeysFrom(p, g) <=> \E m \in PlacesIn(g) : m > p /\ SortedKeys[m] = k
  BY DEF KeysFrom
<1>13. \A k : k \in some \ {SortedKeys[p]} <=> k \in KeysFrom(p, g)
  <2>1. \A m \in PlacesIn(g) : SortedKeys[m] = SortedKeys[p] <=> m = p
    BY <1>1, <1>9
  <2>2. QED
    BY <1>2, <1>11, <1>12, <2>1
<1>14. some \ {SortedKeys[p]} = KeysFrom(p, g)
  BY <1>13
<1>15. QED
  BY <1>8, <1>9, <1>10, <1>14 DEF some

\* A key expanded: every combination so far with each of its values, in turn.
LEMMA KeyExpands ==
  ASSUME NEW g, GridOK(g), NEW q \in 0 .. Len(SortedKeys), NEW cs, CombosTo(q, cs, g),
         NEW p \in PlacesIn(g), q < p, \A m \in PlacesIn(g) : m < p => m <= q
  PROVE  LET k == SortedKeys[p] vs == Value(g, k) IN
         CombosTo(p, FlattenSeq([c \in DOMAIN cs |-> [v \in DOMAIN vs |-> Append(cs[c], <<k, vs[v]>>)]]), g)
<1> DEFINE N == Len(SortedKeys)
           k == SortedKeys[p]
           vs == Value(g, k)
           s == SizeIn(g, p)
           T == Seq(Strings \X Strings)
           r == RadicesOf(g)
           seqs == [c \in DOMAIN cs |-> [v \in DOMAIN vs |-> Append(cs[c], <<k, vs[v]>>)]]
           flat == FlattenSeq(seqs)
<1>1. N \in Nat /\ DOMAIN SortedKeys = 1 .. N /\ PlacesIn(g) \subseteq 1 .. N /\ k \in Strings
  BY SweepIsOf DEF PlacesIn
<1>2. /\ r \in Seq(Nat \ {0}) /\ Len(r) = N
      /\ \A m \in 1 .. N : r[m] = IF m \in PlacesIn(g) THEN SizeIn(g, m) ELSE 1
      /\ vs \in Seq(Strings) /\ s \in Nat \ {0} /\ Len(vs) = s
      /\ PlacesIn(g) = {} <=> g = <<>>
  BY GridFacts DEF SizeIn
<1>3. DOMAIN vs = 1 .. s /\ \A v \in 1 .. s : vs[v] \in Strings
  BY <1>2
<1>4. cs \in Seq(T) /\ Len(cs) = Products(r, 0)[q] /\ \A c \in DOMAIN cs : ComboIs(q, c, cs[c], g)
  BY <1>2 DEF CombosTo
<1> HIDE DEF k, vs, s, r, N
<1>5. ASSUME NEW c \in DOMAIN cs
      PROVE  [v \in DOMAIN vs |-> Append(cs[c], <<k, vs[v]>>)] \in Seq(T)
             /\ Len([v \in DOMAIN vs |-> Append(cs[c], <<k, vs[v]>>)]) = s
  <2> DEFINE e(v) == Append(cs[c], <<k, vs[v]>>)
  <2>1. cs[c] \in T
    BY <1>4
  <2>2. \A v \in 1 .. s : e(v) \in T
    <3> DEFINE b == cs[c]
    <3>1. b \in Seq(Strings \X Strings)
      BY <2>1
    <3> HIDE DEF b
    <3>2. \A v \in 1 .. s : <<k, vs[v]>> \in Strings \X Strings
      BY <1>1, <1>3
    <3>3. \A x \in Strings \X Strings : Append(b, x) \in Seq(Strings \X Strings)
      BY <3>1
    <3>4. QED
      BY <3>2, <3>3 DEF b
  <2> HIDE DEF e, T
  <2>3. s \in Nat
    BY <1>2
  <2>4. [v \in 1 .. s |-> e(v)] \in Seq(T) /\ Len([v \in 1 .. s |-> e(v)]) = s
    BY <2>2, <2>3
  <2>5. QED
    BY <1>3, <2>4 DEF e
<1>6. seqs \in Seq(Seq(T)) /\ Len(seqs) = Len(cs) /\ DOMAIN seqs = DOMAIN cs
      /\ \A i \in DOMAIN seqs : Len(seqs[i]) = s
  <2> DEFINE e(c) == [v \in DOMAIN vs |-> Append(cs[c], <<k, vs[v]>>)]
             V == Seq(T)
             L == Len(cs)
  <2>1. L \in Nat /\ DOMAIN cs = 1 .. L
    BY <1>4
  <2>2. \A c \in 1 .. L : e(c) \in V /\ Len(e(c)) = s
    BY <1>5, <2>1
  <2>3. seqs = [c \in 1 .. L |-> e(c)]
    BY <2>1
  <2> HIDE DEF e, V, L, seqs
  <2>4. [c \in 1 .. L |-> e(c)] \in Seq(V) /\ Len([c \in 1 .. L |-> e(c)]) = L
    BY <2>1, <2>2
  <2>5. QED
    BY <2>1, <2>2, <2>3, <2>4 DEF V, L
<1>7. \A c \in DOMAIN cs : \A v \in 1 .. s : seqs[c][v] = Append(cs[c], <<k, vs[v]>>)
  BY <1>3
<1> HIDE DEF seqs
<1>8. Laid(Len(cs), flat, seqs, s, T)
  <2>1. s \in Nat \ {0}
    BY <1>2
  <2> HIDE DEF T
  <2>2. QED
    BY <1>6, <2>1, FlattenIs
<1> HIDE DEF flat
<1>9. flat \in Seq(T) /\ Len(flat) = Len(cs) * s
  BY <1>8 DEF Laid
<1>10. Len(cs) * s = Products(r, 0)[p]
  <2>1. q \in 0 .. N /\ 0 \in 0 .. N /\ p - 1 \in q .. N /\ p \in 0 + 1 .. N /\ p - 1 \in 0 .. N
    BY <1>1 DEF N
  <2>2. Products(r, 0)[p - 1] = Products(r, 0)[q]
    <3>1. \A m \in q + 1 .. p - 1 : m \in 1 .. N /\ m \notin PlacesIn(g)
      BY <1>1, <2>1
    <3>2. \A m \in q + 1 .. p - 1 : r[m] = 1
      BY <1>2, <3>1
    <3>3. /\ r \in Seq(Nat \ {0}) /\ 0 \in 0 .. Len(r) /\ q \in 0 .. Len(r) /\ p - 1 \in q .. Len(r)
      BY <1>2, <2>1
    <3>4. QED
      BY <3>2, <3>3, ProductsStand
  <2>3. r[p] = s
    BY <1>1, <1>2 DEF s
  <2>4. Products(r, 0)[p] = Products(r, 0)[p - 1] * r[p]
    BY <1>2, <2>1, ProductsAre
  <2>5. QED
    BY <1>4, <2>2, <2>3, <2>4
<1>11. ASSUME NEW c \in DOMAIN flat PROVE ComboIs(p, c, flat[c], g)
  <2>1. c \in 1 .. Len(cs) * s /\ c \in Nat \ {0}
    BY <1>9
  <2>2. Row(c, s) \in 1 .. Len(cs) /\ Col(c, s) \in 1 .. s /\ flat[c] = seqs[Row(c, s)][Col(c, s)]
    BY <1>8, <2>1 DEF Laid
  <2> DEFINE i == Row(c, s)
             combo == cs[i]
  <2>3. i \in DOMAIN cs
    BY <1>4, <2>2
  <2>4. combo \in Seq(Strings \X Strings) /\ ComboIs(q, i, combo, g)
    BY <1>4, <2>3
  <2>5. flat[c] = Append(combo, <<k, vs[Col(c, s)]>>)
    BY <1>7, <2>2, <2>3
  <2> HIDE DEF combo
  <2>6. ComboIs(q, Row(c, SizeIn(g, p)), combo, g) /\ Col(c, SizeIn(g, p)) \in 1 .. SizeIn(g, p)
    BY <2>2, <2>4 DEF s
  <2>7. ComboIs(p, c, Append(combo, <<SortedKeys[p], Value(g, SortedKeys[p])[Col(c, SizeIn(g, p))]>>), g)
    BY <2>1, <2>4, <2>6, ComboGrows
  <2>8. QED
    BY <2>5, <2>7 DEF k, vs, s
<1>12. g # <<>>
  BY <1>2
<1>13. CombosTo(p, flat, g)
  BY <1>9, <1>10, <1>11, <1>12 DEF CombosTo, r
<1>14. QED
  BY <1>13 DEF flat, seqs, vs, k

\* What a sweep's members are made of.
SetsOf(sp, cs)         == sp.params \o cs
ResolvedOf(sp, sd, cs) ==
    [n \in DOMAIN SetsOf(sp, cs) |-> Merge(Seeded(sp.defaults, sd), SetsOf(sp, cs)[n])]

(***************************************************************************)
(* While a grid is expanded, the keys that are left are those behind some  *)
(* place, and the combinations are all there are of the keys up to it.     *)
(***************************************************************************)
SweepInv ==
    /\ spec \in Specs /\ seed \in Seeds
    /\ phase \in {"typed", "refused", "expanding", "resolved", "built"}
    /\ phase = "refused" => BadGrid(spec.shorthand) \/ (spec.params = <<>> /\ grid = <<>>)
    /\ phase = "expanding" =>
         GridOK(grid) /\ \E q \in 0 .. Len(SortedKeys) : keys = KeysFrom(q, grid) /\ CombosTo(q, combos, grid)
    /\ phase \in {"resolved", "built"} =>
         /\ combos \in Seq(Seq(Strings \X Strings)) /\ \A c \in DOMAIN combos : Unique(combos[c])
         /\ SetsOf(spec, combos) # <<>> /\ resolved = ResolvedOf(spec, seed, combos)
    /\ phase = "built" =>
         /\ sweepMembers = [n \in DOMAIN resolved |-> MapMember(resolved[n], MemberName(n))]
         /\ Len(resolved) <= Len(Fallbacks)

\* Nothing is expanded yet.
LEMMA SweepStarts == SweepInit => SweepInv
  BY DEF SweepInit, SweepInv

\* At the start all keys are left, and there is the one empty combination.
LEMMA BeginGridKeeps == ASSUME SweepInv, BeginGrid PROVE SweepInv'
<1> DEFINE g == grid'
<1>1. /\ spec \in Specs /\ seed \in Seeds /\ ~ BadGrid(spec.shorthand)
      /\ phase' = "expanding" /\ g = GridOf(spec.shorthand) /\ keys' = KeysOf(g)
      /\ combos' = IF g = <<>> THEN <<>> ELSE <<<<>>>>
      /\ UNCHANGED <<spec, seed, resolved, sweepMembers>>
  BY DEF SweepInv, BeginGrid
<1>2. GridOK(g)
  <2>1. spec.shorthand \in Seq(Range(SortedKeys) \X Seq(Strings))
    BY <1>1, SpecsAre
  <2>2. QED
    BY <1>1, <2>1, GridIs
<1> HIDE DEF g
<1>3. /\ RadicesOf(g) \in Seq(Nat \ {0}) /\ Len(RadicesOf(g)) = Len(SortedKeys)
      /\ \A k : k \in KeysOf(g) <=> \E m \in PlacesIn(g) : SortedKeys[m] = k
  BY <1>2, GridFacts
<1>4. Len(SortedKeys) \in Nat /\ PlacesIn(g) \subseteq 1 .. Len(SortedKeys) /\ 0 \in 0 .. Len(SortedKeys)
  BY SweepIsOf DEF PlacesIn
<1>5. KeysOf(g) = KeysFrom(0, g)
  <2>1. \A m \in PlacesIn(g) : m > 0
    BY <1>4
  <2>2. \A k : k \in KeysFrom(0, g) <=> \E m \in PlacesIn(g) : m > 0 /\ SortedKeys[m] = k
    BY DEF KeysFrom
  <2>3. \A k : k \in KeysFrom(0, g) <=> k \in KeysOf(g)
    BY <1>3, <2>1, <2>2
  <2>4. QED
    BY <2>3
<1>6. CombosTo(0, combos', g)
  <2>1. Products(RadicesOf(g), 0)[0] = 1
    BY <1>3, <1>4, ProductsAre
  <2>2. combos' \in Seq(Seq(Strings \X Strings)) /\ Len(combos') = IF g = <<>> THEN 0 ELSE 1
    <3> DEFINE T == Seq(Strings \X Strings)
    <3>1. <<>> \in T
      OBVIOUS
    <3> HIDE DEF T
    <3>2. <<>> \in Seq(T) /\ Len(<<>>) = 0 /\ <<<<>>>> \in Seq(T) /\ Len(<<<<>>>>) = 1
      BY <3>1
    <3>3. CASE g = <<>>
      BY <1>1, <3>2, <3>3 DEF T
    <3>4. CASE g # <<>>
      BY <1>1, <3>2, <3>4 DEF T
    <3>5. QED
      BY <3>3, <3>4
  <2>3. \A c \in DOMAIN combos' : combos'[c] = <<>>
    BY <1>1
  <2>4. \A m \in PlacesIn(g) : ~ (m <= 0)
    BY <1>4
  <2>5. \A c : ComboIs(0, c, <<>>, g)
    BY <2>4 DEF ComboIs, Unique, KeysOf
  <2>6. QED
    BY <2>1, <2>2, <2>3, <2>5 DEF CombosTo
<1>7. QED
  BY <1>1, <1>2, <1>4, <1>5, <1>6 DEF SweepInv, g

\* One key less, and all combinations of those up to its place.
LEMMA ExpandKeyKeeps == ASSUME SweepInv, ExpandKey PROVE SweepInv'
<1>1. /\ spec \in Specs /\ seed \in Seeds /\ phase = "expanding" /\ GridOK(grid) /\ keys # {}
      /\ UNCHANGED <<phase, spec, seed, grid, resolved, sweepMembers>>
  BY DEF SweepInv, ExpandKey
<1>2. PICK q \in 0 .. Len(SortedKeys) : keys = KeysFrom(q, grid) /\ CombosTo(q, combos, grid)
  BY <1>1 DEF SweepInv
<1>3. PICK p \in PlacesIn(grid) : /\ q < p /\ \A m \in PlacesIn(grid) : m < p => m <= q
                                  /\ FirstKey(keys) = SortedKeys[p]
                                  /\ keys \ {SortedKeys[p]} = KeysFrom(p, grid)
  BY <1>1, <1>2, FirstIs
<1>4. keys' = KeysFrom(p, grid)
  BY <1>3 DEF ExpandKey
<1>5. combos' = LET k == SortedKeys[p] vs == Value(grid, k) IN
                FlattenSeq([c \in DOMAIN combos |-> [v \in DOMAIN vs |-> Append(combos[c], <<k, vs[v]>>)]])
  BY <1>3 DEF ExpandKey
<1>6. CombosTo(p, combos', grid)
  BY <1>1, <1>2, <1>3, <1>5, KeyExpands
<1>7. p \in 0 .. Len(SortedKeys)
  BY SweepIsOf DEF PlacesIn
<1>8. QED
  BY <1>1, <1>4, <1>6, <1>7 DEF SweepInv

\* Without a set the sweep is refused: there was no grid, and nothing explicit.
LEMMA ResolveKeeps == ASSUME SweepInv, Resolve PROVE SweepInv'
<1>1. /\ spec \in Specs /\ seed \in Seeds /\ phase = "expanding" /\ GridOK(grid) /\ keys = {}
      /\ phase' = (IF SetsOf(spec, combos) = <<>> THEN "refused" ELSE "resolved")
      /\ resolved' = ResolvedOf(spec, seed, combos)
      /\ UNCHANGED <<spec, seed, grid, keys, combos, sweepMembers>>
  BY DEF SweepInv, Resolve, SetsOf, ResolvedOf
<1>2. PICK q \in 0 .. Len(SortedKeys) : CombosTo(q, combos, grid)
  BY <1>1 DEF SweepInv
<1>3. /\ combos \in Seq(Seq(Strings \X Strings)) /\ \A c \in DOMAIN combos : Unique(combos[c])
      /\ Len(combos) = IF grid = <<>> THEN 0 ELSE Products(RadicesOf(grid), 0)[q]
  BY <1>2 DEF CombosTo, ComboIs
<1>4. spec.params \in Seq(Seq(Strings \X Strings))
  BY <1>1, SpecsAre
<1>5. SetsOf(spec, combos) = <<>> => spec.params = <<>> /\ combos = <<>>
  BY <1>3, <1>4 DEF SetsOf
<1>6. combos = <<>> => grid = <<>>
  <2>1. Products(RadicesOf(grid), 0)[q] \in Nat \ {0}
    <3>1. RadicesOf(grid) \in Seq(Nat \ {0}) /\ Len(RadicesOf(grid)) = Len(SortedKeys)
      BY <1>1, GridFacts
    <3>2. 0 \in 0 .. Len(RadicesOf(grid)) /\ q \in 0 .. Len(RadicesOf(grid))
      BY <3>1, SweepIsOf
    <3>3. QED
      BY <3>1, <3>2, ProductsAre
  <2>2. combos = <<>> => Len(combos) = 0
    OBVIOUS
  <2>3. QED
    BY <1>3, <2>1, <2>2
<1>7. QED
  BY <1>1, <1>3, <1>5, <1>6 DEF SweepInv

\* Each step of a sweep keeps it so.
LEMMA SweepKeeps == SweepInv /\ [SweepNext]_sweepVars => SweepInv'
<1>0. SUFFICES ASSUME SweepInv, [SweepNext]_sweepVars PROVE SweepInv'
  OBVIOUS
<1>1. CASE RefuseGrid
  BY <1>0, <1>1 DEF RefuseGrid, SweepInv
<1>2. CASE BeginGrid
  BY <1>0, <1>2, BeginGridKeeps
<1>3. CASE ExpandKey
  BY <1>0, <1>3, ExpandKeyKeeps
<1>4. CASE Resolve
  BY <1>0, <1>4, ResolveKeeps
<1>5. CASE BuildSweep
  BY <1>0, <1>5 DEF BuildSweep, SweepInv
<1>6. CASE UNCHANGED sweepVars
  BY <1>0, <1>6 DEF sweepVars, SweepInv
<1>7. QED
  BY <1>0, <1>1, <1>2, <1>3, <1>4, <1>5, <1>6 DEF SweepNext

-----------------------------------------------------------------------------
\* When no key is left the index is that of all of them.
LEMMA AllCombined == SweepInv => IndexIsMixedRadix
<1> DEFINE N == Len(SortedKeys)
           P == PlacesIn(grid)
           r == RadicesOf(grid)
<1>0. SUFFICES ASSUME SweepInv, phase = "expanding", keys = {}
      PROVE  /\ Len(combos) = IF InGrid = {} THEN 0 ELSE Weight(0)
             /\ \A c \in DOMAIN combos : KeysOf(combos[c]) = KeysOf(grid)
             /\ \A c \in DOMAIN combos : \A n \in InGrid :
                  Value(combos[c], SortedKeys[n]) = Value(grid, SortedKeys[n])[(((c - 1) \div Weight(n)) % Size(n)) + 1]
  BY DEF IndexIsMixedRadix
<1>1. GridOK(grid) /\ \E q \in 0 .. N : {} = KeysFrom(q, grid) /\ CombosTo(q, combos, grid)
  BY <1>0 DEF SweepInv
<1>2. PICK q \in 0 .. N : {} = KeysFrom(q, grid) /\ CombosTo(q, combos, grid)
  BY <1>1
<1>3. InGrid = P /\ \A n \in P : Size(n) = SizeIn(grid, n)
  BY DEF InGrid, PlacesIn, Size, SizeIn
<1>4. Radices = r
  BY <1>3 DEF Radices, RadicesOf
<1>5. /\ r \in Seq(Nat \ {0}) /\ Len(r) = N /\ (P = {} <=> grid = <<>>)
      /\ \A m \in 1 .. N : r[m] = IF m \in P THEN SizeIn(grid, m) ELSE 1
      /\ \A k : k \in KeysOf(grid) <=> \E m \in P : SortedKeys[m] = k
  BY <1>1, GridFacts
<1>6. N \in Nat /\ P \subseteq 1 .. N
  BY SweepIsOf DEF PlacesIn
<1>7. \A n \in P : n <= q
  <2>1. ASSUME NEW n \in P PROVE ~ (n > q)
    BY <1>2 DEF KeysFrom
  <2>2. QED
    BY <1>6, <2>1
<1> HIDE DEF N, P, r
<1>8. ASSUME NEW n \in 0 .. q PROVE Weight(n) = Products(r, n)[q]
  <2>1. /\ r \in Seq(Nat \ {0}) /\ n \in 0 .. Len(r) /\ q \in n .. Len(r) /\ Len(r) \in q .. Len(r)
    BY <1>5, <1>6
  <2>2. \A m \in q + 1 .. Len(r) : r[m] = 1
    <3>1. \A m \in q + 1 .. N : m \in 1 .. N /\ m \notin P
      BY <1>6, <1>7
    <3>2. QED
      BY <1>5, <3>1
  <2>3. Products(r, n)[Len(r)] = Products(r, n)[q]
    BY <2>1, <2>2, ProductsStand
  <2>4. Weight(n) = Products(r, n)[N]
    BY <1>4 DEF Weight, N
  <2>5. QED
    BY <1>5, <2>3, <2>4
<1>9. 0 \in 0 .. q /\ \A n \in P : n \in 0 .. q
  BY <1>6, <1>7
<1>10. Len(combos) = IF InGrid = {} THEN 0 ELSE Weight(0)
  <2>1. Len(combos) = IF grid = <<>> THEN 0 ELSE Products(r, 0)[q]
    BY <1>2 DEF CombosTo, r
  <2>2. Weight(0) = Products(r, 0)[q]
    BY <1>8, <1>9
  <2>3. QED
    BY <1>3, <1>5, <2>1, <2>2
<1>11. ASSUME NEW c \in DOMAIN combos PROVE ComboIs(q, c, combos[c], grid)
  BY <1>2 DEF CombosTo
<1>12. ASSUME NEW c \in DOMAIN combos PROVE KeysOf(combos[c]) = KeysOf(grid)
  <2>1. \A k : k \in KeysOf(combos[c]) <=> \E n \in P : n <= q /\ SortedKeys[n] = k
    BY <1>11 DEF ComboIs, P
  <2>2. \A k : k \in KeysOf(combos[c]) <=> k \in KeysOf(grid)
    BY <1>5, <1>7, <2>1
  <2>3. QED
    BY <2>2
<1>13. ASSUME NEW c \in DOMAIN combos, NEW n \in InGrid
       PROVE  Value(combos[c], SortedKeys[n]) = Value(grid, SortedKeys[n])[(((c - 1) \div Weight(n)) % Size(n)) + 1]
  <2>1. n \in P /\ n <= q /\ Size(n) = SizeIn(grid, n) /\ n \in 0 .. q
    BY <1>3, <1>7, <1>9
  <2>2. Value(combos[c], SortedKeys[n])
          = Value(grid, SortedKeys[n])[(((c - 1) \div Products(r, n)[q]) % SizeIn(grid, n)) + 1]
    BY <1>11, <2>1 DEF ComboIs, P, r
  <2>3. Weight(n) = Products(r, n)[q]
    BY <1>8, <2>1
  <2>4. QED
    BY <2>1, <2>2, <2>3
<1>14. QED
  BY <1>10, <1>12, <1>13

\* What a flag may fill: fields that have one spelling, and never the name.
SeedOK(sd) ==
    /\ IsObj(sd, Strings)
    /\ \A k \in KeysOf(sd) : k # "name" /\ \A l : HasField(l) /\ HasField(k) /\ FieldOf[l] = FieldOf[k] => l = k

\* What a member is resolved to: own values, then defaults, then flags; own keys behind the others.
LEMMA ResolvedIs ==
  ASSUME NEW d, IsObj(d, Strings), NEW sd, IsObj(sd, Strings), NEW set, IsObj(set, Strings)
  PROVE  LET values == Merge(Seeded(d, sd), set)
         IN  /\ IsObj(values, Strings)
             /\ KeysOf(values) = KeysOf(d) \cup KeysOf(sd) \cup KeysOf(set)
             /\ \A k \in KeysOf(set) : Value(values, k) = Value(set, k)
             /\ \A k \in KeysOf(d) \ KeysOf(set) : Value(values, k) = Value(d, k)
             /\ \A k \in KeysOf(sd) \ (KeysOf(d) \cup KeysOf(set)) : Value(values, k) = Value(sd, k)
             /\ \A i, j \in DOMAIN values :
                  values[i][1] \in KeysOf(d) \cup KeysOf(sd) /\ values[j][1] \notin KeysOf(d) \cup KeysOf(sd) => i < j
<1> DEFINE some == KeysOf(sd) \ KeysOf(d)
           base == Seeded(d, sd)
           values == Merge(base, set)
<1>1. d \in Seq(Strings \X Strings) /\ Unique(d) /\ sd \in Seq(Strings \X Strings) /\ Unique(sd)
      /\ set \in Seq(Strings \X Strings) /\ Unique(set)
  BY DEF IsObj
<1>2. base = Assign(d, sd, AsIs(some)) /\ values = Assign(base, set, AsIs(KeysOf(set)))
  BY DEF Seeded, Merge
<1>3. some \subseteq KeysOf(sd)
  OBVIOUS
<1> HIDE DEF some, base, values
<1>4. HasSome(base, d, sd, some, Strings, Strings)
  BY <1>1, <1>2, <1>3, AssignSome
<1>5. base \in Seq(Strings \X Strings) /\ Unique(base)
  BY <1>4 DEF HasSome
<1>6. HasSome(values, base, set, KeysOf(set), Strings, Strings)
  BY <1>1, <1>2, <1>5, AssignSome
<1>7. KeysOf(base) = KeysOf(d) \cup KeysOf(sd)
  BY <1>4 DEF HasSome, some
<1>8. IsObj(values, Strings) /\ KeysOf(values) = KeysOf(d) \cup KeysOf(sd) \cup KeysOf(set)
  BY <1>6, <1>7 DEF HasSome, IsObj
<1>9. \A k \in KeysOf(set) : Value(values, k) = Value(set, k)
  BY <1>6 DEF HasSome
<1>10. ASSUME NEW k \in KeysOf(d) \ KeysOf(set) PROVE Value(values, k) = Value(d, k)
  <2>1. k \in KeysOf(base) \ KeysOf(set) /\ k \in KeysOf(d) \ some
    BY <1>7 DEF some
  <2>2. Value(values, k) = Value(base, k)
    BY <1>6, <2>1 DEF HasSome
  <2>3. Value(base, k) = Value(d, k)
    BY <1>4, <2>1 DEF HasSome
  <2>4. QED
    BY <2>2, <2>3
<1>11. ASSUME NEW k \in KeysOf(sd) \ (KeysOf(d) \cup KeysOf(set)) PROVE Value(values, k) = Value(sd, k)
  <2>1. k \in KeysOf(base) \ KeysOf(set) /\ k \in some
    BY <1>7 DEF some
  <2>2. Value(values, k) = Value(base, k)
    BY <1>6, <2>1 DEF HasSome
  <2>3. Value(base, k) = Value(sd, k)
    BY <1>4, <2>1 DEF HasSome
  <2>4. QED
    BY <2>2, <2>3
<1>12. ASSUME NEW i \in DOMAIN values, NEW j \in DOMAIN values, values[i][1] \in KeysOf(base), values[j][1] \notin KeysOf(base)
       PROVE  i < j
  <2>1. /\ Len(base) \in Nat /\ DOMAIN base = 1 .. Len(base) /\ Len(values) \in Nat /\ DOMAIN values = 1 .. Len(values)
        /\ Len(base) <= Len(values)
    BY <1>5, <1>6 DEF HasSome
  <2>2. \A n \in 1 .. Len(base) : values[n][1] = base[n][1]
    BY <1>6 DEF HasSome
  <2>3. PICK n \in DOMAIN base : base[n][1] = values[i][1]
    BY <1>12 DEF KeysOf
  <2>4. n \in DOMAIN values /\ values[n][1] = values[i][1]
    BY <2>1, <2>2, <2>3
  <2>5. i = n
    BY <1>6, <2>4 DEF HasSome, Unique
  <2>6. j \notin 1 .. Len(base)
    BY <1>12, <2>1, <2>2 DEF KeysOf
  <2>7. QED
    BY <2>1, <2>3, <2>5, <2>6
<1>13. QED
  BY <1>7, <1>8, <1>9, <1>10, <1>11, <1>12 DEF values, base

\* The spelling that gives a field its value: one the member has of its own, if it has one
\* that is not also a default or a flag.
LEMMA FieldTakes ==
  ASSUME NEW d, IsObj(d, Strings), NEW sd, IsObj(sd, Strings), NEW set, IsObj(set, Strings), NEW fallback \in Strings, NEW f
  PROVE  LET values == Merge(Seeded(d, sd), set)
             fields == MapMember(values, fallback).fields
         IN  /\ Spelled(values, f) # {} =>
                  /\ f \in KeysOf(fields)
                  /\ \E k \in Spelled(values, f) :
                       /\ Value(fields, f) = Value(values, k)
                       /\ k \in KeysOf(d) \cup KeysOf(sd) => Spelled(set, f) \subseteq KeysOf(d) \cup KeysOf(sd)
             /\ "name" \notin KeysOf(values) => Value(fields, "name") = fallback
<1> DEFINE values == Merge(Seeded(d, sd), set)
           fields == MapMember(values, fallback).fields
           base   == KeysOf(d) \cup KeysOf(sd)
<1>1. /\ IsObj(values, Strings) /\ KeysOf(values) = base \cup KeysOf(set)
      /\ \A i, j \in DOMAIN values : values[i][1] \in base /\ values[j][1] \notin base => i < j
  BY ResolvedIs
<1> HIDE DEF values, base
<1>2. values \in Seq(Strings \X Strings) /\ Unique(values) /\ Len(values) \in Nat /\ DOMAIN values = 1 .. Len(values)
  BY <1>1 DEF IsObj
<1>3. "name" \in Strings /\ \A k \in DOMAIN FieldOf : FieldOf[k] \in Strings /\ (FieldOf[k] = "name" <=> k = "name")
  BY SweepIsOf
<1>4. /\ \A g : (\E n \in DOMAIN values : Hits(values, FieldOf, n, g)) =>
                  /\ g \in KeysOf(fields)
                  /\ \E n \in DOMAIN values : /\ Hits(values, FieldOf, n, g) /\ values[n][2] = Value(fields, g)
                                              /\ \A m \in DOMAIN values : m > n => ~ Hits(values, FieldOf, m, g)
      /\ (\A n \in DOMAIN values : ~ Hits(values, FieldOf, n, "name")) => Value(fields, "name") = fallback
  <2>1. FieldsOf(values, fallback, fields)
    BY <1>2, <1>3, FieldsAre
  <2>2. QED
    BY <2>1, Zenon DEF FieldsOf
<1> HIDE DEF fields
<1>5. ASSUME Spelled(values, f) # {}
      PROVE  /\ f \in KeysOf(fields)
             /\ \E k \in Spelled(values, f) :
                  Value(fields, f) = Value(values, k) /\ (k \in base => Spelled(set, f) \subseteq base)
  <2>1. PICK l \in Spelled(values, f) : TRUE
    BY <1>5
  <2>2. PICK i \in DOMAIN values : values[i][1] = l
    BY DEF Spelled, KeysOf
  <2>3. Hits(values, FieldOf, i, f)
    BY <2>1, <2>2 DEF Spelled, Hits
  <2>4. f \in KeysOf(fields)
    BY <1>4, <2>3
  <2>5. PICK n \in DOMAIN values : /\ Hits(values, FieldOf, n, f) /\ values[n][2] = Value(fields, f)
                                   /\ \A m \in DOMAIN values : m > n => ~ Hits(values, FieldOf, m, f)
    BY <1>4, <2>3
  <2> DEFINE k == values[n][1]
  <2>6. k \in Spelled(values, f)
    BY <2>5 DEF Spelled, Hits, KeysOf
  <2>7. Value(fields, f) = Value(values, k)
    <3>1. Gives(values, k, values[n][2])
      BY DEF Gives
    <3>2. \A v : Gives(values, k, v) => Value(values, k) = v
      BY <1>2, ValueIs
    <3>3. QED
      BY <2>5, <3>1, <3>2
  <2>8. ASSUME k \in base, NEW o \in Spelled(set, f) PROVE o \in base
    <3>1. o \in KeysOf(set) /\ o \in DOMAIN FieldOf /\ FieldOf[o] = f
      BY DEF Spelled
    <3>2. o \in KeysOf(values)
      BY <1>1, <3>1
    <3>3. PICK m \in DOMAIN values : values[m][1] = o
      BY <3>2 DEF KeysOf
    <3>4. Hits(values, FieldOf, m, f)
      BY <3>1, <3>3 DEF Hits
    <3>5. ~ (m > n)
      BY <2>5, <3>4
    <3>6. ~ (n < m)
      BY <1>2, <3>5
    <3>7. QED
      BY <1>1, <2>8, <3>3, <3>6
  <2>9. QED
    BY <2>4, <2>6, <2>7, <2>8
<1>6. ASSUME "name" \notin KeysOf(values) PROVE Value(fields, "name") = fallback
  <2>1. ASSUME NEW n \in DOMAIN values PROVE ~ Hits(values, FieldOf, n, "name")
    <3>1. values[n][1] # "name"
      BY <1>6 DEF KeysOf
    <3>2. QED
      BY <1>3, <3>1 DEF Hits
  <2>2. QED
    BY <1>4, <2>1
<1>7. QED
  BY <1>5, <1>6 DEF values, fields, base

\* What gives a member the value of a field, of its own, the defaults and the flags.
LEMMA OwnWins ==
  ASSUME NEW d, IsObj(d, Strings), NEW sd, SeedOK(sd), NEW set, IsObj(set, Strings), NEW fallback \in Strings, NEW f
  PROVE  LET fields == MapMember(Merge(Seeded(d, sd), set), fallback).fields
             own == Spelled(set, f) dflt == Spelled(d, f) flag == Spelled(sd, f) has == f \in KeysOf(fields)
         IN  /\ own # {} /\ (\A k, l \in dflt : k = l) => has /\ \E k \in own : Value(fields, f) = Value(set, k)
             /\ own = {} /\ dflt # {} => has /\ \E k \in dflt : Value(fields, f) = Value(d, k)
             /\ own = {} /\ dflt = {} /\ flag # {} => has /\ \E k \in flag : Value(fields, f) = Value(sd, k)
<1> DEFINE values == Merge(Seeded(d, sd), set)
           fields == MapMember(values, fallback).fields
           own  == Spelled(set, f)
           dflt == Spelled(d, f)
           flag == Spelled(sd, f)
<1>1. IsObj(sd, Strings)
  BY DEF SeedOK
<1>2. /\ KeysOf(values) = KeysOf(d) \cup KeysOf(sd) \cup KeysOf(set)
      /\ \A k \in KeysOf(set) : Value(values, k) = Value(set, k)
      /\ \A k \in KeysOf(d) \ KeysOf(set) : Value(values, k) = Value(d, k)
      /\ \A k \in KeysOf(sd) \ (KeysOf(d) \cup KeysOf(set)) : Value(values, k) = Value(sd, k)
  BY <1>1, ResolvedIs
<1>3. Spelled(values, f) # {} =>
        /\ f \in KeysOf(fields)
        /\ \E k \in Spelled(values, f) :
             /\ Value(fields, f) = Value(values, k)
             /\ k \in KeysOf(d) \cup KeysOf(sd) => own \subseteq KeysOf(d) \cup KeysOf(sd)
  BY <1>1, FieldTakes
<1> HIDE DEF values, fields
<1>4. \A k : /\ k \in Spelled(values, f) <=> k \in own \cup dflt \cup flag
             /\ k \in own <=> k \in KeysOf(set) /\ HasField(k) /\ FieldOf[k] = f
             /\ k \in dflt <=> k \in KeysOf(d) /\ HasField(k) /\ FieldOf[k] = f
             /\ k \in flag <=> k \in KeysOf(sd) /\ HasField(k) /\ FieldOf[k] = f
  BY <1>2 DEF Spelled, HasField
<1>5. \A k \in flag : \A l : HasField(l) /\ FieldOf[l] = f => l = k
  BY <1>4 DEF SeedOK
<1> HIDE DEF own, dflt, flag
<1>6. ASSUME own # {}, \A k, l \in dflt : k = l
      PROVE  f \in KeysOf(fields) /\ \E k \in own : Value(fields, f) = Value(set, k)
  <2>1. PICK o : o \in own
    BY <1>6
  <2>2. o \in Spelled(values, f)
    BY <1>4, <2>1
  <2>3. PICK k \in Spelled(values, f) :
          /\ Value(fields, f) = Value(values, k)
          /\ k \in KeysOf(d) \cup KeysOf(sd) => own \subseteq KeysOf(d) \cup KeysOf(sd)
    BY <1>3, <2>2
  <2>4. k \in own
    <3>1. ASSUME k \notin own PROVE FALSE
      <4>1. k \in dflt \cup flag /\ own \subseteq KeysOf(d) \cup KeysOf(sd)
        BY <1>4, <2>3, <3>1
      <4>2. o \in dflt \cup flag /\ o # k
        BY <1>4, <2>1, <3>1, <4>1
      <4>3. k \notin flag /\ o \notin flag
        BY <1>4, <1>5, <4>1, <4>2
      <4>4. QED
        BY <1>6, <4>1, <4>2, <4>3
    <3>2. QED
      BY <3>1
  <2>5. Value(values, k) = Value(set, k)
    BY <1>2, <1>4, <2>4
  <2>6. QED
    BY <1>3, <2>2, <2>3, <2>4, <2>5
<1>7. ASSUME own = {}, dflt # {}
      PROVE  f \in KeysOf(fields) /\ \E k \in dflt : Value(fields, f) = Value(d, k)
  <2>1. PICK o : o \in dflt
    BY <1>7
  <2>2. o \in Spelled(values, f)
    BY <1>4, <2>1
  <2>3. PICK k \in Spelled(values, f) : Value(fields, f) = Value(values, k)
    BY <1>3, <2>2
  <2>4. k \in dflt
    BY <1>4, <1>5, <1>7, <2>1, <2>3
  <2>5. k \in KeysOf(d) \ KeysOf(set)
    BY <1>4, <1>7, <2>4
  <2>6. QED
    BY <1>2, <1>3, <2>2, <2>3, <2>4, <2>5
<1>8. ASSUME own = {}, dflt = {}, flag # {}
      PROVE  f \in KeysOf(fields) /\ \E k \in flag : Value(fields, f) = Value(sd, k)
  <2>1. PICK o : o \in flag
    BY <1>8
  <2>2. o \in Spelled(values, f)
    BY <1>4, <2>1
  <2>3. PICK k \in Spelled(values, f) : Value(fields, f) = Value(values, k)
    BY <1>3, <2>2
  <2>4. k \in flag
    BY <1>4, <1>8, <2>3
  <2>5. k \in KeysOf(sd) \ (KeysOf(d) \cup KeysOf(set))
    BY <1>4, <1>8, <2>4
  <2>6. QED
    BY <1>2, <1>3, <2>2, <2>3, <2>4, <2>5
<1>9. QED
  BY <1>6, <1>7, <1>8 DEF own, dflt, flag, fields, values

\* What a sweep is built from: the explicit sets, then those of the grid.
MadeOf(sets, members) ==
    /\ IsObj(spec.defaults, Strings) /\ IsObj(seed, Strings) /\ SeedOK(seed) /\ Explicit \in Nat
    /\ sets # <<>> /\ Len(sets) \in Nat /\ DOMAIN sets = 1 .. Len(sets) /\ Len(sets) = Explicit + Len(combos)
    /\ Len(combos) \in Nat /\ Len(members) = Len(sets) /\ DOMAIN members = DOMAIN sets
    /\ \A n \in DOMAIN sets : IsObj(sets[n], Strings)
    /\ \A n \in 1 .. Explicit : n \in DOMAIN sets /\ sets[n] = spec.params[n]
    /\ \A n \in DOMAIN sets :
         /\ n \in DOMAIN Fallbacks /\ Fallbacks[n] \in Strings
         /\ members[n] = MapMember(Merge(Seeded(spec.defaults, seed), sets[n]), Fallbacks[n])

\* A sweep that was built is built from that.
LEMMA BuiltIs == ASSUME SweepInv, phase = "built" PROVE MadeOf(SetsOf(spec, combos), sweepMembers)
<1> DEFINE sets == SetsOf(spec, combos)
           T == Seq(Strings \X Strings)
<1>1. /\ spec \in Specs /\ seed \in Seeds
      /\ combos \in Seq(T) /\ \A c \in DOMAIN combos : Unique(combos[c])
      /\ sets # <<>> /\ resolved = ResolvedOf(spec, seed, combos)
      /\ sweepMembers = [n \in DOMAIN resolved |-> MapMember(resolved[n], MemberName(n))]
      /\ Len(resolved) <= Len(Fallbacks)
  BY DEF SweepInv
<1>2. /\ IsObj(spec.defaults, Strings)
      /\ spec.params \in Seq(T) /\ \A n \in DOMAIN spec.params : IsObj(spec.params[n], Strings)
  BY <1>1, SpecsAre
<1>3. IsObj(seed, Strings) /\ SeedOK(seed)
  BY <1>1, SpecsAre DEF SeedOK
<1>4. \A c \in DOMAIN combos : IsObj(combos[c], Strings)
  <2>1. \A c \in DOMAIN combos : combos[c] \in T
    BY <1>1
  <2>2. QED
    BY <1>1, <2>1 DEF IsObj
<1> DEFINE params == spec.params
           E == Len(params)
           C == Len(combos)
<1>5. sets = params \o combos /\ Explicit = E
  BY DEF SetsOf, Explicit
<1>6. E \in Nat /\ DOMAIN params = 1 .. E /\ C \in Nat /\ DOMAIN combos = 1 .. C
  BY <1>1, <1>2
<1>7. params \in Seq(T) /\ \A n \in DOMAIN params : IsObj(params[n], Strings)
  BY <1>2
<1> HIDE DEF sets, params, T
<1>8. sets \in Seq(T) /\ Len(sets) = E + C
      /\ \A n \in 1 .. E + C : sets[n] = IF n <= E THEN params[n] ELSE combos[n - E]
  BY <1>1, <1>5, <1>7
<1>9. Len(sets) \in Nat /\ DOMAIN sets = 1 .. Len(sets)
  BY <1>8
<1> HIDE DEF E, C
<1>10. ASSUME NEW n \in DOMAIN sets PROVE IsObj(sets[n], Strings)
  <2>1. CASE n <= E
    BY <1>6, <1>7, <1>8, <1>9, <2>1
  <2>2. CASE ~ (n <= E)
    <3>1. n - E \in DOMAIN combos /\ sets[n] = combos[n - E]
      BY <1>6, <1>8, <1>9, <2>2
    <3>2. QED
      BY <1>4, <3>1
  <2>3. QED
    BY <2>1, <2>2
<1>11. ASSUME NEW n \in 1 .. E PROVE n \in DOMAIN sets /\ sets[n] = params[n]
  BY <1>6, <1>8, <1>9
<1>12. resolved = [n \in 1 .. Len(sets) |-> Merge(Seeded(spec.defaults, seed), sets[n])]
  BY <1>1, <1>9 DEF ResolvedOf, sets
<1> DEFINE base == Seeded(spec.defaults, seed)
           L == Len(sets)
           R(n) == Merge(base, sets[n])
           M(n) == MapMember(R(n), Fallbacks[n])
<1>13. Len(resolved) = L /\ DOMAIN resolved = 1 .. L /\ \A n \in 1 .. L : resolved[n] = R(n)
  <2>1. L \in Nat /\ resolved = [n \in 1 .. L |-> R(n)]
    BY <1>9, <1>12
  <2> HIDE DEF R, L
  <2>2. QED
    BY <2>1
<1>14. Len(sweepMembers) = L /\ DOMAIN sweepMembers = 1 .. L /\ \A n \in 1 .. L : sweepMembers[n] = M(n)
  <2>1. \A n \in 1 .. L : MapMember(resolved[n], MemberName(n)) = M(n)
    BY <1>13 DEF MemberName
  <2>2. L \in Nat /\ sweepMembers = [n \in 1 .. L |-> MapMember(resolved[n], MemberName(n))]
    BY <1>1, <1>9, <1>13
  <2> HIDE DEF L, M
  <2>3. QED
    BY <2>1, <2>2
<1>15. \A n \in 1 .. L : n \in DOMAIN Fallbacks /\ Fallbacks[n] \in Strings
  <2>1. L <= Len(Fallbacks)
    BY <1>1, <1>13
  <2>2. \A n \in 1 .. L : n \in 1 .. Len(Fallbacks)
    <3> DEFINE F == Len(Fallbacks)
    <3>1. L \in Nat /\ F \in Nat /\ L <= F
      BY <1>9, <2>1, SweepIsOf
    <3> HIDE DEF L, F
    <3>2. \A n \in 1 .. L : n \in 1 .. F
      BY <3>1
    <3>3. QED
      BY <3>2 DEF F
  <2>3. QED
    BY <2>2, SweepIsOf
<1>16. MadeOf(sets, sweepMembers)
  <2>1. IsObj(spec.defaults, Strings) /\ IsObj(seed, Strings) /\ SeedOK(seed) /\ Explicit \in Nat
    BY <1>2, <1>3, <1>5, <1>6
  <2>2. sets # <<>> /\ Len(sets) \in Nat /\ DOMAIN sets = 1 .. Len(sets) /\ Len(sets) = Explicit + Len(combos)
    BY <1>1, <1>5, <1>8, <1>9 DEF C, sets
  <2>3. Len(combos) \in Nat /\ Len(sweepMembers) = Len(sets) /\ DOMAIN sweepMembers = DOMAIN sets
    BY <1>6, <1>9, <1>14 DEF C
  <2>4. \A n \in 1 .. Explicit : n \in DOMAIN sets /\ sets[n] = spec.params[n]
    BY <1>5, <1>11 DEF params
  <2>5. \A n \in DOMAIN sets :
          /\ n \in DOMAIN Fallbacks /\ Fallbacks[n] \in Strings
          /\ sweepMembers[n] = MapMember(Merge(Seeded(spec.defaults, seed), sets[n]), Fallbacks[n])
    BY <1>9, <1>14, <1>15
  <2>6. QED
    BY <1>10, <2>1, <2>2, <2>3, <2>4, <2>5 DEF MadeOf
<1>17. QED
  BY <1>16 DEF sets

\* Of a field a member has its own value, or the default's, or the flag's.
LEMMA OwnValuesWin == SweepInv => OwnValueWins
<1>0. SUFFICES ASSUME SweepInv, phase = "built",
                      NEW n \in 1 .. Explicit, NEW f \in {FieldOf[k] : k \in DOMAIN FieldOf}
               PROVE  LET own == Spelled(spec.params[n], f) dflt == Spelled(spec.defaults, f)
                          flag == Spelled(seed, f) has == f \in KeysOf(sweepMembers[n].fields)
                      IN  /\ own # {} /\ (\A k, l \in dflt : k = l) =>
                                 has /\ \E k \in own : Value(sweepMembers[n].fields, f) = Value(spec.params[n], k)
                          /\ own = {} /\ dflt # {} =>
                                 has /\ \E k \in dflt : Value(sweepMembers[n].fields, f) = Value(spec.defaults, k)
                          /\ own = {} /\ dflt = {} /\ flag # {} =>
                                 has /\ \E k \in flag : Value(sweepMembers[n].fields, f) = Value(seed, k)
  BY DEF OwnValueWins
<1> DEFINE sets == SetsOf(spec, combos)
<1>1. MadeOf(sets, sweepMembers)
  BY <1>0, BuiltIs
<1> HIDE DEF sets
<1>2. n \in DOMAIN sets /\ sets[n] = spec.params[n]
  BY <1>1 DEF MadeOf
<1>3. /\ IsObj(spec.defaults, Strings) /\ SeedOK(seed) /\ IsObj(spec.params[n], Strings) /\ Fallbacks[n] \in Strings
      /\ sweepMembers[n] = MapMember(Merge(Seeded(spec.defaults, seed), spec.params[n]), Fallbacks[n])
  BY <1>1, <1>2 DEF MadeOf
<1>4. QED
  BY <1>3, OwnWins

\* A member that nobody named has the name of its index.
LEMMA UnnamedAreApart == SweepInv => UnnamedDiffer
<1> DEFINE sets == spec.params \o combos
           hasName(n) == "name" \in KeysOf(spec.defaults) \cup KeysOf(sets[n])
<1>0. SUFFICES ASSUME SweepInv, phase = "built", NEW m \in DOMAIN sweepMembers, NEW n \in DOMAIN sweepMembers, m # n,
                      Value(sweepMembers[m].fields, "name") = Value(sweepMembers[n].fields, "name")
               PROVE  hasName(m) \/ hasName(n)
  BY DEF UnnamedDiffer
<1>1. MadeOf(sets, sweepMembers)
  BY <1>0, BuiltIs DEF SetsOf
<1> HIDE DEF sets
<1>2. ASSUME NEW i \in DOMAIN sweepMembers, ~ hasName(i)
      PROVE  i \in DOMAIN Fallbacks /\ Value(sweepMembers[i].fields, "name") = Fallbacks[i]
  <2>1. /\ IsObj(spec.defaults, Strings) /\ IsObj(seed, Strings) /\ SeedOK(seed) /\ IsObj(sets[i], Strings)
        /\ i \in DOMAIN Fallbacks /\ Fallbacks[i] \in Strings
        /\ sweepMembers[i] = MapMember(Merge(Seeded(spec.defaults, seed), sets[i]), Fallbacks[i])
    BY <1>1 DEF MadeOf
  <2>2. KeysOf(Merge(Seeded(spec.defaults, seed), sets[i])) = KeysOf(spec.defaults) \cup KeysOf(seed) \cup KeysOf(sets[i])
    BY <2>1, ResolvedIs
  <2>3. "name" \notin KeysOf(seed)
    BY <2>1 DEF SeedOK
  <2>4. "name" \notin KeysOf(Merge(Seeded(spec.defaults, seed), sets[i]))
    BY <1>2, <2>2, <2>3
  <2>5. Value(MapMember(Merge(Seeded(spec.defaults, seed), sets[i]), Fallbacks[i]).fields, "name") = Fallbacks[i]
    BY <2>1, <2>4, FieldTakes
  <2>6. QED
    BY <2>1, <2>5
<1> HIDE DEF hasName
<1>3. ASSUME ~ hasName(m), ~ hasName(n) PROVE FALSE
  <2>1. m \in DOMAIN Fallbacks /\ n \in DOMAIN Fallbacks /\ Fallbacks[m] = Fallbacks[n]
    BY <1>0, <1>2, <1>3
  <2>2. QED
    BY <1>0, <2>1, SweepIsOf
<1>4. QED
  BY <1>3

\* All that was asked for, or a refusal that has its reason.
LEMMA AllAreAnswered == SweepInv => AnsweredRightly
<1>1. ASSUME SweepInv, phase = "built" PROVE sweepMembers # <<>> /\ Len(sweepMembers) = Explicit + Len(combos)
  <2> DEFINE sets == SetsOf(spec, combos)
  <2>1. MadeOf(sets, sweepMembers)
    BY <1>1, BuiltIs
  <2> HIDE DEF sets
  <2>2. /\ sets # <<>> /\ Len(sets) \in Nat /\ Len(sets) = Explicit + Len(combos) /\ Len(sweepMembers) = Len(sets)
        /\ spec.params \o combos = sets
    BY <2>1 DEF MadeOf, SetsOf, sets
  <2>3. sets \in Seq(Seq(Strings \X Strings))
    <3>1. spec \in Specs /\ combos \in Seq(Seq(Strings \X Strings))
      BY <1>1 DEF SweepInv
    <3>2. spec.params \in Seq(Seq(Strings \X Strings))
      BY <3>1, SpecsAre
    <3> DEFINE T == Seq(Strings \X Strings)
    <3>3. spec.params \in Seq(T) /\ combos \in Seq(T)
      BY <3>1, <3>2
    <3> HIDE DEF T
    <3>4. spec.params \o combos \in Seq(T)
      BY <3>3
    <3>5. QED
      BY <2>2, <3>4 DEF T
  <2>4. Len(sets) # 0
    BY <2>2, <2>3
  <2>5. sweepMembers = <<>> => Len(sweepMembers) = 0
    OBVIOUS
  <2>6. QED
    BY <2>2, <2>4, <2>5
<1>2. ASSUME SweepInv, phase = "refused" PROVE BadGrid(spec.shorthand) \/ (spec.params = <<>> /\ grid = <<>>)
  BY <1>2 DEF SweepInv
<1>3. QED
  BY <1>1, <1>2 DEF AnsweredRightly

(***************************************************************************)
(* Whatever specifications and flags there are and however many keys       *)
(* sort, a sweep is every combination that was asked for, each with its    *)
(* own values and its own name (params.ts, sweep.ts).                      *)
(***************************************************************************)
THEOREM SweepsAlwaysSound == SweepSpec => []SweepIsSound
<1>1. SweepInv => SweepIsSound
  BY AllCombined, OwnValuesWin, UnnamedAreApart, AllAreAnswered DEF SweepIsSound
<1>2. QED
  BY <1>1, SweepStarts, SweepKeeps, PTL DEF SweepSpec
=============================================================================
