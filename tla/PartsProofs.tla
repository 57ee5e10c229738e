---------------------------- MODULE PartsProofs -----------------------------
(***************************************************************************)
(* Theorems about the parts that MCFront runs side by side, for any        *)
(* configurations of a queue, any wishes, tags and moments: the order of a *)
(* queue's jobs is one that their dependencies allow, and what is refused  *)
(* as circular has a cycle; ids, keys and names tell fan-outs and their    *)
(* members apart; what the status, the plug-ins' page and the direct page  *)
(* say is so; the tags of a launch fit under AWS's limit and are read back *)
(* as they were asked for, as are its label and its config object; and     *)
(* what its instance boots with is there.                                  *)
(***************************************************************************)
EXTENDS MCFront, SequenceTheorems, FiniteSetTheorems, WellFoundedInduction, TLAPS

\* As many values as places, where no two are the same.
LEMMA CountOfApart ==
  ASSUME NEW n \in Nat, NEW T, NEW f \in [1 .. n -> T],
         \A t \in T : \E k \in 1 .. n : f[k] = t,
         \A a, b \in 1 .. n : f[a] = f[b] => a = b
  PROVE  IsFiniteSet(T) /\ Cardinality(T) = n
<1>1. f \in Bijection(1 .. n, T)
  BY DEF Bijection, Injection, Surjection, IsInjective
<1>2. IsFiniteSet(1 .. n) /\ Cardinality(1 .. n) = n
  BY FS_Interval
<1>3. ExistsBijection(1 .. n, T)
  BY <1>1 DEF ExistsBijection
<1>4. QED
  BY <1>2, <1>3, FS_Bijection

-----------------------------------------------------------------------------
(***************************************************************************)
(* Queues.  The jobs that were taken and those that are ready are one      *)
(* line; a job stands in it exactly when all it waits for was taken.       *)
(***************************************************************************)
Waiting(o, j) == {i \in DOMAIN DepsOf(j) : DepsOf(j)[i] \notin Range(o)}

\* Jobs of a line: none twice, and those of the same dependencies as declared.
Lined(q) ==
    /\ \A a, b \in DOMAIN q : q[a] = q[b] => a = b
    /\ \A a, b \in DOMAIN q :
          DepsOf(q[a]) = DepsOf(q[b]) /\ a < b => DeclaredAt(q[a]) < DeclaredAt(q[b])

\* Those in o were taken, those in r are ready.
Sorted(o, r, degrees) ==
    /\ o \in Seq(JobIds) /\ r \in Seq(JobIds)
    /\ Lined(o \o r)
    /\ \A j \in JobIds : j \in Range(o \o r) <=> Waiting(o, j) = {}
    /\ degrees = [j \in JobIds |-> Cardinality(Waiting(o, j))]
    /\ \A n \in DOMAIN o : Range(DepsOf(o[n])) \subseteq {o[m] : m \in 1 .. n - 1}

SortInv == ~ Problem /\ Sorted(order, ready, inDegree)

QueueInv ==
    /\ cfg \in Config /\ queueStage \in {"given", "sorting", "built", "invalid", "circular"}
    /\ \A n \in Declared : cfg.jobs[n].retry # "no count"
    /\ queueStage \in {"given", "invalid"} => order = <<>> /\ ready = <<>>
    /\ queueStage \in {"sorting", "built", "circular"} => SortInv
    /\ queueStage \in {"built", "circular"} => ready = <<>>
    /\ queueStage = "circular" => Len(order) # Len(cfg.jobs)
    /\ queueStage = "built" => /\ Len(order) = Len(cfg.jobs)
                               /\ queueMembers = [n \in 1 .. Len(order) |-> Member(order[n])]
    /\ queueStage # "built" => queueMembers = <<>>

\* What the checks of a configuration leave.
LEMMA SoundConfig ==
  ASSUME cfg \in Config, ~ Problem
  PROVE  /\ Len(cfg.jobs) \in Nat \ {0} /\ Declared = 1 .. Len(cfg.jobs) /\ DOMAIN cfg.jobs = Declared
         /\ \A n \in Declared : cfg.jobs[n] \in Job /\ Id(n) \in JobIds
         /\ \A m, n \in Declared : Id(m) = Id(n) => m = n
         /\ \A j \in JobIds : /\ DeclaredAt(j) \in Declared /\ Id(DeclaredAt(j)) = j
                              /\ DepsOf(j) \in Seq(JobIds) /\ j \notin Range(DepsOf(j))
         /\ IsFiniteSet(JobIds) /\ Cardinality(JobIds) = Len(cfg.jobs)
<1>1. cfg.jobs \in Seq(Job)
  BY DEF Config
<1>2. /\ Len(cfg.jobs) \in Nat /\ Declared = 1 .. Len(cfg.jobs) /\ DOMAIN cfg.jobs = Declared
      /\ \A n \in Declared : cfg.jobs[n] \in Job
  BY <1>1, LenProperties, ElementOfSeq DEF Declared
<1>3. Len(cfg.jobs) # 0
  <2>1. Declared # {}
    BY DEF Problem
  <2>2. QED
    BY <1>2, <2>1
<1>4. \A n \in Declared : Id(n) \in JobIds
  BY DEF JobIds
<1>5. ASSUME NEW m \in Declared, NEW n \in Declared, Id(m) = Id(n)
      PROVE  m = n
  <2>1. \A k \in Declared : \A i \in 1 .. k - 1 : Id(i) # Id(k)
    BY DEF Problem, JobProblem, Id
  <2>2. m \in 1 .. n - 1 \/ n \in 1 .. m - 1 \/ m = n
    BY <1>2
  <2>3. QED
    BY <1>5, <2>1, <2>2
<1>6. ASSUME NEW j \in JobIds
      PROVE  /\ DeclaredAt(j) \in Declared /\ Id(DeclaredAt(j)) = j
             /\ DepsOf(j) \in Seq(JobIds) /\ j \notin Range(DepsOf(j))
  <2>1. \E n \in Declared : Id(n) = j
    BY DEF JobIds
  <2>2. DeclaredAt(j) \in Declared /\ Id(DeclaredAt(j)) = j
    BY <2>1 DEF DeclaredAt
  <2> DEFINE n == DeclaredAt(j)
             deps == cfg.jobs[n].dependsOn
  <2>3. deps \in Seq(STRING)
    BY <1>2, <2>2 DEF Job
  <2>4. DOMAIN deps = 1 .. Len(deps) /\ Len(deps) \in Nat /\ deps \in [1 .. Len(deps) -> STRING]
    BY <2>3, LenProperties
  <2>5. \A i \in DOMAIN deps : deps[i] # j /\ deps[i] \in JobIds
    BY <2>2 DEF Problem, DependencyProblem
  <2>6. DepsOf(j) = deps
    BY DEF DepsOf
  <2> HIDE DEF deps
  <2>7. deps \in [1 .. Len(deps) -> JobIds]
    BY <2>4, <2>5
  <2>8. deps \in Seq(JobIds)
    BY <2>4, <2>7
  <2>9. j \notin Range(deps)
    BY <2>5 DEF Range
  <2>10. QED
    BY <2>2, <2>6, <2>8, <2>9
<1>7. IsFiniteSet(JobIds) /\ Cardinality(JobIds) = Len(cfg.jobs)
  <2> DEFINE n == Len(cfg.jobs)
             f == [k \in 1 .. n |-> Id(k)]
  <2>1. f \in [1 .. n -> JobIds] /\ \A a, b \in 1 .. n : f[a] = f[b] => a = b
    BY <1>2, <1>4, <1>5
  <2>2. \A j \in JobIds : \E k \in 1 .. n : f[k] = j
    BY <1>2 DEF JobIds
  <2>3. n \in Nat
    BY <1>2
  <2> HIDE DEF f, n
  <2>4. QED
    BY <2>1, <2>2, <2>3, CountOfApart DEF n
<1>8. QED
  BY <1>2, <1>3, <1>4, <1>5, <1>6, <1>7

\* The line is a sequence of jobs, first those that were taken.
LEMMA QueuedIs ==
  ASSUME NEW S, NEW o \in Seq(S), NEW r \in Seq(S)
  PROVE  /\ o \o r \in Seq(S) /\ DOMAIN (o \o r) = 1 .. Len(o) + Len(r)
         /\ DOMAIN o = 1 .. Len(o) /\ Len(o) \in Nat /\ Len(r) \in Nat
         /\ \A i \in 1 .. Len(o) + Len(r) : (o \o r)[i] = IF i <= Len(o) THEN o[i] ELSE r[i - Len(o)]
         /\ Range(o \o r) = Range(o) \cup Range(r)
<1>1. /\ o \o r \in Seq(S) /\ Len(o \o r) = Len(o) + Len(r)
      /\ \A i \in 1 .. Len(o) + Len(r) : (o \o r)[i] = IF i <= Len(o) THEN o[i] ELSE r[i - Len(o)]
  BY ConcatProperties
<1>2. Range(o \o r) = Range(o) \cup Range(r)
  BY RangeConcatenation
<1>3. QED
  BY <1>1, <1>2, LenProperties

\* Who is taken leaves the line as it is.
LEMMA TakenInLine ==
  ASSUME NEW S, NEW o \in Seq(S), NEW r \in Seq(S), r # <<>>
  PROVE  /\ Head(r) \in S /\ Tail(r) \in Seq(S) /\ Append(o, Head(r)) \in Seq(S)
         /\ Len(Append(o, Head(r))) = Len(o) + 1 /\ Len(o) \in Nat
         /\ \A i \in 1 .. Len(o) : Append(o, Head(r))[i] = o[i]
         /\ Append(o, Head(r))[Len(o) + 1] = Head(r)
         /\ Range(Append(o, Head(r))) = Range(o) \cup {Head(r)}
         /\ Append(o, Head(r)) \o Tail(r) = o \o r
         /\ (o \o r)[Len(o) + 1] = Head(r) /\ Len(o) + 1 \in DOMAIN (o \o r)
<1> DEFINE t == Head(r)
           p == Append(o, t)
<1>1. Len(r) \in Nat \ {0} /\ r[1] = t /\ t \in S
  BY EmptySeq, HeadTailProperties, LenProperties
<1>2. /\ Tail(r) \in Seq(S) /\ Len(Tail(r)) = Len(r) - 1
      /\ \A i \in 1 .. Len(r) - 1 : Tail(r)[i] = r[i + 1]
  BY HeadTailProperties
<1>3. /\ p \in Seq(S) /\ Len(p) = Len(o) + 1 /\ Len(o) \in Nat
      /\ \A i \in 1 .. Len(o) : p[i] = o[i]
      /\ p[Len(o) + 1] = t
  BY <1>1, AppendProperties, LenProperties
<1>4. DOMAIN p = 1 .. Len(o) + 1 /\ DOMAIN o = 1 .. Len(o)
  BY <1>3, LenProperties
<1> HIDE DEF p, t
<1>5. Range(p) = Range(o) \cup {t}
  <2>1. \A i \in DOMAIN p : p[i] \in Range(o) \cup {t}
    <3>1. ASSUME NEW i \in DOMAIN p PROVE p[i] \in Range(o) \cup {t}
      <4>1. i \in 1 .. Len(o) \/ i = Len(o) + 1
        BY <1>3, <1>4
      <4>2. QED
        BY <1>3, <1>4, <4>1 DEF Range
    <3>2. QED
      BY <3>1
  <2>2. \A i \in DOMAIN o : i \in DOMAIN p /\ p[i] = o[i]
    BY <1>3, <1>4
  <2>3. Len(o) + 1 \in DOMAIN p
    BY <1>3, <1>4
  <2>4. QED
    BY <1>3, <2>1, <2>2, <2>3 DEF Range
<1>6. p \o Tail(r) = o \o r
  <2>1. /\ p \o Tail(r) \in Seq(S) /\ Len(p \o Tail(r)) = Len(o) + Len(r)
        /\ \A i \in 1 .. Len(o) + Len(r) :
              (p \o Tail(r))[i] = IF i <= Len(o) + 1 THEN p[i] ELSE Tail(r)[i - (Len(o) + 1)]
    <3>1. Len(p) + Len(Tail(r)) = Len(o) + Len(r)
      BY <1>1, <1>2, <1>3
    <3>2. /\ p \o Tail(r) \in Seq(S) /\ Len(p \o Tail(r)) = Len(p) + Len(Tail(r))
          /\ \A i \in 1 .. Len(p) + Len(Tail(r)) :
                (p \o Tail(r))[i] = IF i <= Len(p) THEN p[i] ELSE Tail(r)[i - Len(p)]
      BY <1>2, <1>3, ConcatProperties
    <3>3. Len(p) = Len(o) + 1
      BY <1>3
    <3>4. QED
      BY <3>1, <3>2, <3>3
  <2>2. /\ o \o r \in Seq(S) /\ Len(o \o r) = Len(o) + Len(r)
        /\ \A i \in 1 .. Len(o) + Len(r) : (o \o r)[i] = IF i <= Len(o) THEN o[i] ELSE r[i - Len(o)]
    BY ConcatProperties
  <2>3. ASSUME NEW i \in 1 .. Len(o) + Len(r)
        PROVE  (p \o Tail(r))[i] = (o \o r)[i]
    <3>1. CASE i <= Len(o)
      BY <1>1, <1>3, <2>1, <2>2, <3>1
    <3>2. CASE i = Len(o) + 1
      BY <1>1, <1>3, <2>1, <2>2, <3>2
    <3>3. CASE i > Len(o) + 1
      <4>1. i - (Len(o) + 1) \in 1 .. Len(r) - 1 /\ (i - (Len(o) + 1)) + 1 = i - Len(o)
        BY <1>1, <1>3, <3>3
      <4>2. QED
        BY <1>1, <1>2, <1>3, <2>1, <2>2, <3>3, <4>1
    <3>4. QED
      BY <1>1, <1>3, <3>1, <3>2, <3>3
  <2>4. QED
    BY <1>1, <1>3, <2>1, <2>2, <2>3, SeqEqual
<1>7. (o \o r)[Len(o) + 1] = t /\ Len(o) + 1 \in DOMAIN (o \o r)
  BY <1>1, <1>3, QueuedIs
<1>8. QED
  BY <1>1, <1>2, <1>3, <1>5, <1>6, <1>7 DEF p, t

\* Jobs in the order of their declaration are none of them twice.
LEMMA InOrderIs ==
  ASSUME cfg \in Config, ~ Problem, NEW some \in SUBSET JobIds, NEW freed \in InOrder(some)
  PROVE  /\ freed \in Seq(some) /\ freed \in Seq(JobIds) /\ Range(freed) = some
         /\ \A a, b \in DOMAIN freed : a < b => DeclaredAt(freed[a]) < DeclaredAt(freed[b])
         /\ \A a, b \in DOMAIN freed : freed[a] = freed[b] => a = b
<1>1. IsFiniteSet(some) /\ Cardinality(some) \in Nat
  BY SoundConfig, FS_Subset, FS_CardinalityType
<1>2. /\ freed \in [1 .. Cardinality(some) -> some] /\ Range(freed) = some
      /\ \A a, b \in DOMAIN freed : a < b => DeclaredAt(freed[a]) < DeclaredAt(freed[b])
  BY DEF InOrder
<1>3. freed \in Seq(some) /\ DOMAIN freed = 1 .. Cardinality(some)
  BY <1>1, <1>2
<1>4. freed \in Seq(JobIds)
  BY <1>3, SeqMonotonic
<1>5. ASSUME NEW a \in DOMAIN freed, NEW b \in DOMAIN freed, freed[a] = freed[b]
      PROVE  a = b
  <2>1. freed[a] \in JobIds
    BY <1>2, <1>3
  <2>2. DeclaredAt(freed[a]) \in Nat
    BY <2>1, SoundConfig
  <2>3. ~ (a < b) /\ ~ (b < a)
    BY <1>2, <1>5, <2>2
  <2>4. QED
    BY <1>3, <1>1, <2>3
<1>6. QED
  BY <1>2, <1>3, <1>4, <1>5

\* Those that are freed together join a line they had no peers in.
LEMMA QueueGrows ==
  ASSUME cfg \in Config, ~ Problem, NEW q \in Seq(JobIds), Lined(q),
         NEW some \in SUBSET JobIds, NEW freed \in InOrder(some),
         \A a \in DOMAIN q : \A j \in some : q[a] # j /\ DepsOf(q[a]) # DepsOf(j)
  PROVE  /\ q \o freed \in Seq(JobIds) /\ Range(q \o freed) = Range(q) \cup some
         /\ Lined(q \o freed)
<1> DEFINE r == q \o freed
           l == Len(q)
           m == Len(freed)
<1>1. /\ freed \in Seq(JobIds) /\ Range(freed) = some /\ \A a \in DOMAIN freed : freed[a] \in some
      /\ \A a, b \in DOMAIN freed : a < b => DeclaredAt(freed[a]) < DeclaredAt(freed[b])
      /\ \A a, b \in DOMAIN freed : freed[a] = freed[b] => a = b
  BY InOrderIs DEF Range
<1>2. l \in Nat /\ m \in Nat /\ DOMAIN q = 1 .. l /\ DOMAIN freed = 1 .. m
  BY <1>1, LenProperties
<1>3. /\ r \in Seq(JobIds) /\ DOMAIN r = 1 .. l + m
      /\ \A i \in 1 .. l + m : r[i] = IF i <= l THEN q[i] ELSE freed[i - l]
  BY <1>1, <1>2, ConcatProperties, LenProperties
<1>4. Range(r) = Range(q) \cup some
  BY <1>1, RangeConcatenation
<1> HIDE DEF r, l, m
<1>5. /\ \A i \in DOMAIN q : i \in DOMAIN r /\ r[i] = q[i]
      /\ \A i \in DOMAIN r : i \notin DOMAIN q => i - l \in DOMAIN freed /\ r[i] = freed[i - l] /\ r[i] \in some
  <2>1. \A i \in DOMAIN r : i \notin DOMAIN q => i - l \in 1 .. m /\ ~ (i <= l) /\ r[i] = freed[i - l]
    BY <1>2, <1>3
  <2>2. \A i \in DOMAIN q : i \in DOMAIN r /\ r[i] = q[i]
    BY <1>2, <1>3
  <2>3. QED
    BY <1>1, <1>2, <2>1, <2>2
<1>6. ASSUME NEW a \in DOMAIN r, NEW b \in DOMAIN r, r[a] = r[b] PROVE a = b
  BY <1>1, <1>2, <1>3, <1>5, <1>6 DEF Lined
<1>7. ASSUME NEW a \in DOMAIN r, NEW b \in DOMAIN r, DepsOf(r[a]) = DepsOf(r[b]), a < b
      PROVE  DeclaredAt(r[a]) < DeclaredAt(r[b])
  <2>1. CASE b \in DOMAIN q
    BY <1>2, <1>3, <1>5, <1>7, <2>1 DEF Lined
  <2>2. CASE b \notin DOMAIN q /\ a \in DOMAIN q
    BY <1>1, <1>5, <1>7, <2>2
  <2>3. CASE b \notin DOMAIN q /\ a \notin DOMAIN q
    BY <1>1, <1>2, <1>3, <1>5, <1>7, <2>3
  <2>4. QED
    BY <2>1, <2>2, <2>3
<1>8. Lined(r)
  BY <1>6, <1>7 DEF Lined
<1>9. QED
  BY <1>3, <1>4, <1>8 DEF r

\* The places at which a job waits for the one that is taken are no longer waited at.
LEMMA TakenFrees ==
  ASSUME cfg \in Config, ~ Problem, NEW o \in Seq(JobIds), NEW t \in JobIds \ Range(o),
         NEW p, Range(p) = Range(o) \cup {t}, NEW j \in JobIds
  PROVE  /\ IsFiniteSet(Waiting(o, j)) /\ Cardinality(Waiting(o, j)) \in Nat
         /\ Cardinality(Waiting(p, j)) = Cardinality(Waiting(o, j)) - Cardinality(Listings(j, t))
         /\ Listings(j, t) # {} /\ Cardinality(Waiting(p, j)) = 0
               <=> Waiting(o, j) # {} /\ Waiting(p, j) = {}
         /\ Waiting(p, j) \subseteq Waiting(o, j)
<1> DEFINE D == DOMAIN DepsOf(j)
<1>1. IsFiniteSet(D)
  <2>1. Len(DepsOf(j)) \in Nat /\ D = 1 .. Len(DepsOf(j))
    BY SoundConfig, LenProperties
  <2>2. QED
    BY <2>1, FS_Interval
<1>2. Waiting(o, j) \subseteq D /\ Waiting(p, j) = Waiting(o, j) \ Listings(j, t)
      /\ Listings(j, t) \subseteq Waiting(o, j)
  BY DEF Waiting, Listings
<1>3. IsFiniteSet(Waiting(o, j)) /\ Cardinality(Waiting(o, j)) \in Nat
  BY <1>1, <1>2, FS_Subset, FS_CardinalityType
<1>4. /\ IsFiniteSet(Waiting(p, j))
      /\ Cardinality(Waiting(p, j)) = Cardinality(Waiting(o, j)) - Cardinality(Waiting(o, j) \cap Listings(j, t))
  <2> DEFINE W == Waiting(o, j)
             L == Listings(j, t)
  <2>1. IsFiniteSet(W \ L) /\ Cardinality(W \ L) = Cardinality(W) - Cardinality(W \cap L)
    BY <1>3, FS_Difference
  <2>2. QED
    BY <1>2, <2>1
<1>5. Waiting(o, j) \cap Listings(j, t) = Listings(j, t)
  BY <1>2
<1>6. Cardinality(Waiting(p, j)) = 0 <=> Waiting(p, j) = {}
  BY <1>4, FS_EmptySet
<1>7. QED
  BY <1>2, <1>3, <1>4, <1>5, <1>6

\* A turn of the loop: the line goes on with those whose last dependency was taken.
LEMMA ShiftSorts ==
  ASSUME cfg \in Config, ~ Problem, NEW o, NEW r, NEW degrees, Sorted(o, r, degrees), r # <<>>,
         NEW fewer, fewer = [j \in JobIds |-> degrees[j] - Cardinality(Listings(j, Head(r)))],
         NEW freed \in InOrder({j \in JobIds : Listings(j, Head(r)) # {} /\ fewer[j] = 0})
  PROVE  Sorted(Append(o, Head(r)), Tail(r) \o freed, fewer)
<1> DEFINE t == Head(r)
           p == Append(o, t)
           q == o \o r
           some == {j \in JobIds : Listings(j, t) # {} /\ fewer[j] = 0}
<1>1. o \in Seq(JobIds) /\ r \in Seq(JobIds) /\ Lined(q)
  BY DEF Sorted
<1>2. /\ t \in JobIds /\ Tail(r) \in Seq(JobIds) /\ p \in Seq(JobIds)
      /\ Len(p) = Len(o) + 1 /\ Len(o) \in Nat
      /\ \A i \in 1 .. Len(o) : p[i] = o[i]
      /\ p[Len(o) + 1] = t
      /\ Range(p) = Range(o) \cup {t} /\ p \o Tail(r) = q
      /\ q[Len(o) + 1] = t /\ Len(o) + 1 \in DOMAIN q
  BY <1>1, TakenInLine
<1>3. /\ q \in Seq(JobIds) /\ DOMAIN o = 1 .. Len(o)
      /\ Range(q) = Range(o) \cup Range(r)
      /\ \A i \in 1 .. Len(o) : i \in DOMAIN q /\ q[i] = o[i]
  BY <1>1, QueuedIs, LenProperties
<1> HIDE DEF p, t, q
<1>4. t \notin Range(o)
  <2>1. \A i \in 1 .. Len(o) : o[i] # t
    <3>1. \A a, b \in DOMAIN q : q[a] = q[b] => a = b
      BY <1>1 DEF Lined
    <3>2. ASSUME NEW i \in 1 .. Len(o) PROVE o[i] # t
      <4>1. i \in DOMAIN q /\ q[i] = o[i] /\ i # Len(o) + 1
        BY <1>2, <1>3
      <4>2. QED
        BY <1>2, <3>1, <4>1
    <3>3. QED
      BY <3>2
  <2>2. QED
    BY <1>3, <2>1 DEF Range
<1>5. \A j \in JobIds : j \in Range(q) <=> Waiting(o, j) = {}
  BY DEF Sorted, q
<1>6. degrees = [j \in JobIds |-> Cardinality(Waiting(o, j))]
  BY DEF Sorted
<1>7. \A j \in JobIds :
         /\ Cardinality(Waiting(p, j)) = Cardinality(Waiting(o, j)) - Cardinality(Listings(j, t))
         /\ Listings(j, t) # {} /\ Cardinality(Waiting(p, j)) = 0
               <=> Waiting(o, j) # {} /\ Waiting(p, j) = {}
         /\ Waiting(p, j) \subseteq Waiting(o, j)
  <2>1. t \in JobIds \ Range(o) /\ Range(p) = Range(o) \cup {t}
    BY <1>2, <1>4
  <2>2. ASSUME NEW j \in JobIds
        PROVE  /\ Cardinality(Waiting(p, j)) = Cardinality(Waiting(o, j)) - Cardinality(Listings(j, t))
               /\ Listings(j, t) # {} /\ Cardinality(Waiting(p, j)) = 0
                     <=> Waiting(o, j) # {} /\ Waiting(p, j) = {}
               /\ Waiting(p, j) \subseteq Waiting(o, j)
    BY <1>1, <2>1, TakenFrees, SMTT(30)
  <2>3. QED
    BY <2>2
<1>8. fewer = [j \in JobIds |-> Cardinality(Waiting(p, j))]
  <2>1. fewer = [j \in JobIds |-> degrees[j] - Cardinality(Listings(j, t))]
    BY DEF t
  <2>2. \A j \in JobIds : degrees[j] - Cardinality(Listings(j, t)) = Cardinality(Waiting(p, j))
    BY <1>6, <1>7
  <2>3. QED
    BY <2>1, <2>2
<1>9. some = {j \in JobIds : Waiting(o, j) # {} /\ Waiting(p, j) = {}}
  BY <1>7, <1>8
<1>10. freed \in InOrder(some)
  BY DEF t
<1> HIDE DEF some
<1>11. \A a \in DOMAIN q : \A j \in some : q[a] # j /\ DepsOf(q[a]) # DepsOf(j)
  <2>1. ASSUME NEW a \in DOMAIN q, NEW j \in some
        PROVE  q[a] # j /\ DepsOf(q[a]) # DepsOf(j)
    <3>1. q[a] \in JobIds /\ q[a] \in Range(q)
      BY <1>3, ElementOfSeq, LenProperties DEF Range
    <3>2. Waiting(o, q[a]) = {} /\ Waiting(o, j) # {}
      BY <1>5, <1>9, <3>1
    <3>3. DepsOf(q[a]) = DepsOf(j) => Waiting(o, q[a]) = Waiting(o, j)
      BY DEF Waiting
    <3>4. QED
      BY <3>2, <3>3
  <2>2. QED
    BY <2>1
<1>12. some \in SUBSET JobIds
  BY <1>9
<1>13. q \o freed \in Seq(JobIds) /\ Range(q \o freed) = Range(q) \cup some /\ Lined(q \o freed)
  BY <1>1, <1>3, <1>10, <1>11, <1>12, QueueGrows
<1>14. freed \in Seq(JobIds)
  BY <1>10, <1>12, InOrderIs
<1>15. p \o (Tail(r) \o freed) = q \o freed /\ Tail(r) \o freed \in Seq(JobIds)
  <2>1. (p \o Tail(r)) \o freed = p \o (Tail(r) \o freed)
    <3>1. p \in Seq(JobIds) /\ Tail(r) \in Seq(JobIds)
      BY <1>2
    <3>2. QED
      BY <1>14, <3>1, ConcatAssociative
  <2>2. Tail(r) \o freed \in Seq(JobIds)
    BY <1>2, <1>14, ConcatProperties
  <2>3. QED
    BY <1>2, <2>1, <2>2
<1>16. \A j \in JobIds : j \in Range(q \o freed) <=> Waiting(p, j) = {}
  BY <1>5, <1>7, <1>9, <1>13
<1>17. ASSUME NEW n \in DOMAIN p
       PROVE  Range(DepsOf(p[n])) \subseteq {p[m] : m \in 1 .. n - 1}
  <2>1. n \in 1 .. Len(o) + 1
    BY <1>2, LenProperties
  <2>2. CASE n \in 1 .. Len(o)
    <3>1. Range(DepsOf(o[n])) \subseteq {o[m] : m \in 1 .. n - 1}
      BY <1>3, <2>2 DEF Sorted
    <3>2. {o[m] : m \in 1 .. n - 1} = {p[m] : m \in 1 .. n - 1}
      <4>1. \A m \in 1 .. n - 1 : m \in 1 .. Len(o)
        BY <1>2, <2>2
      <4>2. \A m \in 1 .. n - 1 : o[m] = p[m]
        BY <1>2, <4>1
      <4>3. QED
        BY <4>2
    <3>3. QED
      BY <1>2, <2>2, <3>1, <3>2
  <2>3. CASE n = Len(o) + 1
    <3>1. t \in Range(q)
      BY <1>2 DEF Range
    <3>2. Waiting(o, t) = {}
      BY <1>2, <1>5, <3>1
    <3>3. Range(DepsOf(t)) \subseteq Range(o)
      BY <3>2 DEF Waiting, Range
    <3>4. Range(o) \subseteq {p[m] : m \in 1 .. n - 1}
      BY <1>2, <1>3, <2>3 DEF Range
    <3>5. QED
      BY <1>2, <2>3, <3>3, <3>4
  <2>4. QED
    BY <1>2, <2>1, <2>2, <2>3
<1>18. Sorted(p, Tail(r) \o freed, fewer)
  BY <1>2, <1>8, <1>13, <1>15, <1>16, <1>17 DEF Sorted
<1>19. QED
  BY <1>18 DEF p, t

\* What was normalized is a configuration, and no retry is without a count.
LEMMA Normalized ==
  ASSUME NEW raw \in Config
  PROVE  LET c == NormalizeQueueConfig(raw) IN
         c \in Config /\ \A n \in 1 .. Len(c.jobs) : c.jobs[n].retry # "no count"
<1> DEFINE jobs == [n \in DOMAIN raw.jobs |->
              [raw.jobs[n] EXCEPT !.retry = IF @ = "no count" THEN "once" ELSE @]]
           c == [raw EXCEPT !.jobs = jobs]
<1>1. raw.jobs \in Seq(Job)
  BY DEF Config
<1>2. Len(raw.jobs) \in Nat /\ DOMAIN raw.jobs = 1 .. Len(raw.jobs) /\ \A n \in DOMAIN raw.jobs : raw.jobs[n] \in Job
  BY <1>1, LenProperties, ElementOfSeq
<1>3. ASSUME NEW n \in DOMAIN raw.jobs
      PROVE  jobs[n] \in Job /\ jobs[n].retry # "no count"
  <2>1. raw.jobs[n] \in Job
    BY <1>2
  <2>2. QED
    BY <2>1 DEF Job
<1>4. DOMAIN jobs = 1 .. Len(raw.jobs) /\ \A n \in 1 .. Len(raw.jobs) : jobs[n] \in Job /\ jobs[n].retry # "no count"
  BY <1>2, <1>3
<1>5. jobs \in [1 .. Len(raw.jobs) -> Job]
  BY <1>2, <1>4
<1> HIDE DEF jobs
<1>6. jobs \in Seq(Job) /\ Len(jobs) = Len(raw.jobs)
  BY <1>2, <1>5
<1>7. c \in Config /\ c.jobs = jobs
  BY <1>6 DEF Config
<1>8. NormalizeQueueConfig(raw) = c
  BY DEF NormalizeQueueConfig, jobs
<1>9. QED
  BY <1>4, <1>6, <1>7, <1>8

\* A configuration that was given, and one that a queue at rest has been refused with.
LEMMA QueueStarts == QueueInit => QueueInv
<1> SUFFICES ASSUME QueueInit PROVE QueueInv
  OBVIOUS
<1>1. PICK raw \in Configs : cfg = NormalizeQueueConfig(raw)
  BY DEF QueueInit
<1>2. cfg \in Config /\ \A n \in Declared : cfg.jobs[n].retry # "no count"
  BY <1>1, QueueConstants, Normalized DEF Declared
<1>3. queueStage = "given" /\ order = <<>> /\ ready = <<>> /\ queueMembers = <<>>
  BY DEF QueueInit
<1>4. QED
  BY <1>2, <1>3 DEF QueueInv

\* A part that is not looked at has an empty queue.
LEMMA RestingQueue ==
  ASSUME cfg = QueueOf(<<>>), queueStage = "invalid", ready = <<>>, order = <<>>, queueMembers = <<>>
  PROVE  QueueInv
<1>1. cfg \in Config /\ cfg.jobs = <<>>
  BY EmptySeq DEF QueueOf, Config
<1>2. Declared = {}
  BY <1>1 DEF Declared
<1>3. QED
  BY <1>1, <1>2 DEF QueueInv

\* Nothing changes a configuration, nor what is said of it.
LEMMA CfgKept ==
  ASSUME cfg' = cfg
  PROVE  /\ (Problem <=> Problem') /\ Declared' = Declared /\ JobIds' = JobIds
         /\ (Sorted(order, ready, inDegree)' <=> Sorted(order', ready', inDegree'))
         /\ \A n : Member(order[n])' = Member(order'[n])
<1>1. Declared' = Declared /\ \A n : Id(n)' = Id(n)
  BY DEF Declared, Id
<1>2. JobIds' = JobIds
  BY <1>1 DEF JobIds
<1>3. \A j : DeclaredAt(j)' = DeclaredAt(j)
  BY <1>1 DEF DeclaredAt
<1>4. \A j : DepsOf(j)' = DepsOf(j)
  BY <1>3 DEF DepsOf
<1>5. Problem <=> Problem'
  BY <1>1, <1>2 DEF Problem, JobProblem, DependencyProblem
<1>6. Sorted(order, ready, inDegree)' <=> Sorted(order', ready', inDegree')
  BY <1>2, <1>3, <1>4 DEF Sorted, Lined, Waiting
<1>7. \A n : Member(order[n])' = Member(order'[n])
  BY DEF Member, DepsOf, DeclaredAt, Declared, Id
<1>8. QED
  BY <1>1, <1>2, <1>5, <1>6, <1>7

\* At first the jobs that wait for nothing stand in line, and none was taken.
LEMMA SeedSorts ==
  ASSUME cfg \in Config, ~ Problem, NEW first \in InOrder({j \in JobIds : Degree(j) = 0})
  PROVE  Sorted(<<>>, first, [j \in JobIds |-> Degree(j)])
<1> DEFINE some == {j \in JobIds : Degree(j) = 0}
<1>1. /\ first \in Seq(JobIds) /\ Range(first) = some
      /\ \A a, b \in DOMAIN first : a < b => DeclaredAt(first[a]) < DeclaredAt(first[b])
      /\ \A a, b \in DOMAIN first : first[a] = first[b] => a = b
  BY InOrderIs
<1>2. <<>> \in Seq(JobIds) /\ <<>> \o first = first /\ Range(<<>>) = {} /\ DOMAIN <<>> = {}
  BY <1>1, EmptySeq, ConcatEmptySeq DEF Range
<1>3. Lined(first)
  BY <1>1 DEF Lined
<1>4. ASSUME NEW j \in JobIds
      PROVE  Cardinality(Waiting(<<>>, j)) = Degree(j) /\ (Degree(j) = 0 <=> Waiting(<<>>, j) = {})
  <2>1. Waiting(<<>>, j) = 1 .. Degree(j) /\ Degree(j) \in Nat
    BY <1>2, SoundConfig, LenProperties DEF Waiting, Degree
  <2>2. IsFiniteSet(1 .. Degree(j)) /\ Cardinality(1 .. Degree(j)) = Degree(j)
    BY <2>1, FS_Interval
  <2>3. QED
    BY <2>1, <2>2, FS_EmptySet
<1>5. \A j \in JobIds : j \in Range(first) <=> Waiting(<<>>, j) = {}
  BY <1>1, <1>4
<1>6. [j \in JobIds |-> Degree(j)] = [j \in JobIds |-> Cardinality(Waiting(<<>>, j))]
  BY <1>4
<1>7. QED
  BY <1>1, <1>2, <1>3, <1>5, <1>6 DEF Sorted

\* Every step of a queue keeps it.
LEMMA QueueSteps == QueueInv /\ [QueueNext]_queueVars => QueueInv'
<1> SUFFICES ASSUME QueueInv, [QueueNext]_queueVars PROVE QueueInv'
  OBVIOUS
<1>1. cfg' = cfg
  BY DEF QueueNext, queueVars, Refuse, Seed, Shift, Circular, BuildQueue
<1>2. cfg' \in Config /\ \A n \in Declared' : cfg'.jobs[n].retry # "no count"
  BY <1>1, CfgKept DEF QueueInv
<1>3. CASE Refuse
  BY <1>2, <1>3 DEF Refuse, QueueInv
<1>4. CASE Seed
  <2>1. Sorted(order', ready', inDegree')
    BY <1>4, SeedSorts DEF Seed, QueueInv
  <2>2. SortInv'
    BY <1>1, <1>4, <2>1, CfgKept DEF Seed, SortInv
  <2>3. QED
    BY <1>2, <1>4, <2>2 DEF Seed, QueueInv
<1>5. CASE Shift
  <2>1. Sorted(order, ready, inDegree) /\ ~ Problem /\ cfg \in Config /\ ready # <<>>
    BY <1>5 DEF Shift, QueueInv, SortInv
  <2>2. PICK freed \in InOrder(Freed(Head(ready))) : ready' = Tail(ready) \o freed
    BY <1>5 DEF Shift
  <2>3. /\ order' = Append(order, Head(ready))
        /\ inDegree' = [j \in JobIds |-> inDegree[j] - Cardinality(Listings(j, Head(ready)))]
    BY <1>5 DEF Shift
  <2>4. Freed(Head(ready)) = {j \in JobIds : Listings(j, Head(ready)) # {} /\ inDegree'[j] = 0}
    BY DEF Freed
  <2>5. Sorted(order', ready', inDegree')
    BY <2>1, <2>2, <2>3, <2>4, ShiftSorts
  <2>6. SortInv'
    BY <1>1, <2>1, <2>5, CfgKept DEF SortInv
  <2>7. QED
    BY <1>2, <1>5, <2>6 DEF Shift, QueueInv
<1>6. CASE Circular
  <2>1. SortInv'
    BY <1>1, <1>6, CfgKept DEF Circular, SortInv, QueueInv
  <2>2. QED
    BY <1>1, <1>2, <1>6, <2>1 DEF Circular, QueueInv
<1>7. CASE BuildQueue
  <2>1. SortInv'
    BY <1>1, <1>7, CfgKept DEF BuildQueue, SortInv, QueueInv
  <2>2. /\ queueStage' = "built" /\ ready' = <<>> /\ Len(order') = Len(cfg'.jobs)
        /\ queueMembers' = [n \in 1 .. Len(order') |-> Member(order'[n])]
    BY <1>1, <1>7 DEF BuildQueue
  <2>3. \A n : Member(order[n])' = Member(order'[n])
    BY <1>1, CfgKept
  <2>4. queueMembers' = [n \in 1 .. Len(order') |-> Member(order[n])']
    BY <2>2, <2>3
  <2>5. QED
    BY <1>2, <2>1, <2>2, <2>4 DEF QueueInv
<1>8. CASE UNCHANGED queueVars
  <2>1. SortInv <=> SortInv'
    BY <1>1, <1>8, CfgKept DEF queueVars, SortInv
  <2>2. \A n : Member(order[n])' = Member(order'[n])
    BY <1>1, CfgKept
  <2>3. \A n : Member(order[n])' = Member(order[n])
    BY <1>8, <2>2 DEF queueVars
  <2>4. QED
    BY <1>1, <1>2, <1>8, <2>1, <2>3 DEF queueVars, QueueInv
<1>9. QED
  BY <1>3, <1>4, <1>5, <1>6, <1>7, <1>8 DEF QueueNext

\* The empty sequence has no places and no values.
LEMMA NothingInEmpty == DOMAIN <<>> = {} /\ Range(<<>>) = {}
<1>1. DOMAIN <<>> = {}
  OBVIOUS
<1>2. QED
  BY <1>1 DEF Range

\* What the line is when it has come to its end.
LEMMA QueueIsSoundThen == QueueInv => QueueIsSound
<1> SUFFICES ASSUME QueueInv PROVE QueueIsSound
  OBVIOUS
<1>1. cfg \in Config /\ queueStage \in {"given", "sorting", "built", "invalid", "circular"}
  BY DEF QueueInv
<1>2. CASE queueStage \in {"given", "invalid"}
  <2>1. order = <<>> /\ ready = <<>> /\ queueMembers = <<>>
    BY <1>2 DEF QueueInv
  <2>2. DOMAIN <<>> = {} /\ Range(<<>>) = {}
    BY NothingInEmpty
  <2>3. QED
    BY <1>1, <1>2, <2>1, <2>2 DEF QueueIsSound, QueueTypeOK, OrderRespectsDependencies, CircularHasCycle,
       BuiltIsRunnable, BuiltIsSound, PeersStayInOrder
<1>3. CASE queueStage \in {"sorting", "built", "circular"}
  <2>1. /\ ~ Problem /\ order \in Seq(JobIds) /\ ready \in Seq(JobIds) /\ Lined(order \o ready)
        /\ \A j \in JobIds : j \in Range(order \o ready) <=> Waiting(order, j) = {}
        /\ inDegree = [j \in JobIds |-> Cardinality(Waiting(order, j))]
        /\ \A n \in DOMAIN order : Range(DepsOf(order[n])) \subseteq {order[m] : m \in 1 .. n - 1}
    BY <1>3 DEF QueueInv, SortInv, Sorted
  <2>2. /\ Range(order \o ready) = Range(order) \cup Range(ready)
        /\ DOMAIN order = 1 .. Len(order) /\ Len(order) \in Nat
        /\ \A i \in DOMAIN order : i \in DOMAIN (order \o ready) /\ (order \o ready)[i] = order[i]
    BY <2>1, QueuedIs, LenProperties
  <2>3. /\ \A a, b \in DOMAIN order : order[a] = order[b] => a = b
        /\ \A a, b \in DOMAIN order :
              DepsOf(order[a]) = DepsOf(order[b]) /\ a < b => DeclaredAt(order[a]) < DeclaredAt(order[b])
    BY <2>1, <2>2 DEF Lined
  <2>4. /\ \A n \in DOMAIN order : order[n] \in JobIds
        /\ Range(order) \subseteq JobIds /\ Range(ready) \subseteq JobIds
    BY <2>1, <2>2, ElementOfSeq, LenProperties DEF Range
  <2>5. queueStage = "sorting" => inDegree \in [JobIds -> Nat]
    <3>1. \A j \in JobIds : Cardinality(Waiting(order, j)) \in Nat
      <4>1. ASSUME NEW j \in JobIds PROVE Cardinality(Waiting(order, j)) \in Nat
        <5>1. Waiting(order, j) \subseteq 1 .. Len(DepsOf(j)) /\ Len(DepsOf(j)) \in Nat
          BY <1>1, <2>1, SoundConfig, LenProperties DEF Waiting
        <5>2. IsFiniteSet(1 .. Len(DepsOf(j)))
          BY <5>1, FS_Interval
        <5>3. IsFiniteSet(Waiting(order, j))
          BY <5>1, <5>2, FS_Subset
        <5>4. QED
          BY <5>3, FS_CardinalityType
      <4>2. QED
        BY <4>1
    <3>2. QED
      BY <2>1, <3>1
  <2>6. /\ queueStage = "built" => Len(queueMembers) = Len(order) /\ DOMAIN queueMembers = DOMAIN order
        /\ \A n \in DOMAIN queueMembers : /\ n \in DOMAIN order /\ queueMembers[n].key = order[n]
                                          /\ queueMembers[n].dependsOn = Range(DepsOf(order[n]))
    <3>1. CASE queueStage = "built"
      <4>1. queueMembers = [n \in 1 .. Len(order) |-> Member(order[n])]
        BY <3>1 DEF QueueInv
      <4>2. DOMAIN queueMembers = 1 .. Len(order) /\ Len(queueMembers) = Len(order)
        BY <2>2, <4>1
      <4>3. \A n \in 1 .. Len(order) : queueMembers[n] = Member(order[n])
        BY <4>1
      <4>4. QED
        BY <2>2, <4>2, <4>3 DEF Member
    <3>2. CASE queueStage # "built"
      <4>1. queueMembers = <<>>
        BY <3>2 DEF QueueInv
      <4>2. QED
        BY <3>2, <4>1, NothingInEmpty
    <3>3. QED
      BY <3>1, <3>2
  <2>7. QueueTypeOK
    BY <1>1, <2>4, <2>5, <2>6 DEF QueueTypeOK
  <2>8. OrderRespectsDependencies
    BY <2>1, <2>3 DEF OrderRespectsDependencies
  <2>9. CircularHasCycle
    <3>1. SUFFICES ASSUME queueStage = "circular"
                   PROVE  \E knot \in SUBSET JobIds :
                             knot # {} /\ \A j \in knot : \E k \in knot : Listings(j, k) # {}
      BY DEF CircularHasCycle
    <3>2. Range(order \o ready) = Range(order) /\ Len(order) # Len(cfg.jobs)
      <4>1. ready = <<>> /\ Len(order) # Len(cfg.jobs)
        BY <3>1 DEF QueueInv
      <4>2. QED
        BY <2>2, <4>1, NothingInEmpty
    <3> DEFINE knot == JobIds \ Range(order)
    <3>3. knot # {}
      <4>1. SUFFICES ASSUME \A j \in JobIds : j \in Range(order) PROVE FALSE
        OBVIOUS
      <4>2. \A j \in JobIds : \E k \in 1 .. Len(order) : order[k] = j
        BY <2>2, <4>1 DEF Range
      <4>3. order \in [1 .. Len(order) -> JobIds]
        BY <2>1, LenProperties
      <4>4. Cardinality(JobIds) = Len(order)
        BY <2>2, <2>3, <4>2, <4>3, CountOfApart, ZenonT(30)
      <4>5. QED
        BY <1>1, <2>1, <3>2, <4>4, SoundConfig
    <3>4. ASSUME NEW j \in knot
          PROVE  \E k \in knot : Listings(j, k) # {}
      <4>1. Waiting(order, j) # {}
        BY <2>1, <3>2
      <4>2. PICK i \in DOMAIN DepsOf(j) : DepsOf(j)[i] \notin Range(order)
        BY <4>1 DEF Waiting
      <4>3. DepsOf(j)[i] \in JobIds
        BY <1>1, <2>1, SoundConfig, ElementOfSeq, LenProperties
      <4>4. i \in Listings(j, DepsOf(j)[i])
        BY DEF Listings
      <4>5. QED
        BY <4>2, <4>3, <4>4
    <3>5. QED
      BY <3>3, <3>4
  <2>10. BuiltIsRunnable
    <3>1. SUFFICES ASSUME queueStage = "built"
                   PROVE  /\ Len(queueMembers) = Cardinality(JobIds)
                          /\ \A n \in DOMAIN queueMembers :
                                queueMembers[n].dependsOn \subseteq {queueMembers[m].key : m \in 1 .. n - 1}
      BY DEF BuiltIsRunnable
    <3>2. Len(queueMembers) = Cardinality(JobIds)
      BY <1>1, <2>1, <2>6, <3>1, SoundConfig DEF QueueInv
    <3>3. ASSUME NEW n \in DOMAIN queueMembers
          PROVE  queueMembers[n].dependsOn \subseteq {queueMembers[m].key : m \in 1 .. n - 1}
      <4>1. queueMembers[n].dependsOn \subseteq {order[m] : m \in 1 .. n - 1}
        BY <2>1, <2>6
      <4>2. \A m \in 1 .. n - 1 : m \in DOMAIN queueMembers
        BY <2>2, <2>6, <3>1
      <4>3. \A m \in 1 .. n - 1 : queueMembers[m].key = order[m]
        BY <2>6, <4>2
      <4>4. QED
        BY <4>1, <4>3
    <3>4. QED
      BY <3>2, <3>3
  <2>11. BuiltIsSound
    <3>1. Cardinality(JobIds) = Len(cfg.jobs)
      BY <1>1, <2>1, SoundConfig
    <3>2. NoId \notin JobIds /\ cfg.onFailure # "odd"
      BY <2>1 DEF Problem, JobProblem, JobIds, Id
    <3>3. ASSUME NEW n \in Declared
          PROVE  LET job == cfg.jobs[n] IN
                 /\ job.command /\ job.timeout = "ok" /\ job.retry \in {"none", "once", "thrice", "not a number"}
                 /\ Range(job.dependsOn) \subseteq JobIds \ {job.id}
      <4>1. cfg.jobs[n] \in Job
        BY <1>1, <2>1, SoundConfig
      <4>2. /\ ~ JobProblem(n) /\ ~ DependencyProblem(n)
            /\ cfg.jobs[n].retry \notin {"zero", "odd backoff", "no count"}
        BY <2>1 DEF Problem, QueueInv
      <4>3. cfg.jobs[n].command /\ cfg.jobs[n].timeout = "ok"
        BY <4>1, <4>2 DEF JobProblem, Job
      <4>4. cfg.jobs[n].retry \in {"none", "once", "thrice", "not a number"}
        BY <4>1, <4>2 DEF Job
      <4>5. Range(cfg.jobs[n].dependsOn) \subseteq JobIds \ {cfg.jobs[n].id}
        BY <4>2 DEF DependencyProblem, Range, Id
      <4>6. QED
        BY <4>3, <4>4, <4>5
    <3>4. QED
      BY <3>1, <3>2, <3>3 DEF BuiltIsSound
  <2>12. PeersStayInOrder
    BY <2>3 DEF PeersStayInOrder
  <2>13. QED
    BY <2>7, <2>8, <2>9, <2>10, <2>11, <2>12 DEF QueueIsSound
<1>4. QED
  BY <1>1, <1>2, <1>3

-----------------------------------------------------------------------------
(***************************************************************************)
(* Ids out of a clock.                                                     *)
(***************************************************************************)
LEMMA TurnIsLong ==
  ASSUME NEW w \in Nat \ {0}, NEW p \in Nat, NEW q \in Nat, p < q
  PROVE  (w * q) - (w * p) >= w
<1>1. q - p \in Nat /\ q - p >= 1
  OBVIOUS
<1>2. \A d \in Nat : d >= 1 => w * d >= w
  OBVIOUS
<1>3. (w * q) - (w * p) = w * (q - p)
  OBVIOUS
<1>4. QED
  BY <1>1, <1>2, <1>3

\* A quotient and its rest give the number back.
LEMMA DivMod ==
  ASSUME NEW a \in Nat, NEW w \in Nat \ {0}
  PROVE  a = (w * (a \div w)) + (a % w) /\ a % w \in 0 .. w - 1 /\ a \div w \in Nat
<1>1. a = (w * (a \div w)) + (a % w)
  OBVIOUS
<1>2. a % w \in 0 .. w - 1
  OBVIOUS
<1>3. a \div w \in Nat
  OBVIOUS
<1>4. QED
  BY <1>1, <1>2, <1>3

\* What is left over comes again only after a whole turn.
LEMMA SameRest ==
  ASSUME NEW w \in Nat \ {0}, NEW a \in Nat, NEW b \in Nat, a <= b, a % w = b % w
  PROVE  a = b \/ b - a >= w
<1> DEFINE p == a \div w
           q == b \div w
           x == w * p
           y == w * q
           r == a % w
<1>1. a = x + r /\ b = y + r /\ r \in Nat /\ p \in Nat /\ q \in Nat
  <2>1. a = x + r /\ r \in 0 .. w - 1 /\ p \in Nat
    BY DivMod
  <2>2. b = (w * (b \div w)) + (b % w) /\ b \div w \in Nat
    BY DivMod
  <2>3. QED
    BY <2>1, <2>2
<1>2. x \in Nat /\ y \in Nat
  BY <1>1
<1>3. p < q => y - x >= w
  BY <1>1, TurnIsLong
<1>4. q < p => x - y >= w
  BY <1>1, TurnIsLong
<1>5. p = q => x = y
  OBVIOUS
<1> HIDE DEF p, q, x, y, r
<1>6. QED
  BY <1>1, <1>2, <1>3, <1>4, <1>5

\* A number has one quotient.
LEMMA OneQuotient ==
  ASSUME NEW w \in Nat \ {0}, NEW p \in Nat, NEW q \in Nat,
         NEW r \in 0 .. w - 1, NEW s \in 0 .. w - 1, (w * p) + r = (w * q) + s
  PROVE  p = q
<1> DEFINE x == w * p
           y == w * q
<1>1. x \in Nat /\ y \in Nat /\ x + r = y + s
  OBVIOUS
<1>2. p < q => y - x >= w
  BY TurnIsLong
<1>3. q < p => x - y >= w
  BY TurnIsLong
<1> HIDE DEF x, y
<1>4. QED
  BY <1>1, <1>2, <1>3

\* Within a day, what the time of day says of the second is what the clock says of it.
LEMMA SecondsOfDays ==
  ASSUME NEW second \in Nat \ {0}, NEW day \in Nat \ {0}, day % second = 0,
         NEW a \in Nat
  PROVE  a \div second = ((day \div second) * (a \div day)) + ((a % day) \div second)
<1> DEFINE m == day \div second
           q == a \div day
           r == a % day
           u == r \div second
           z == r % second
<1>1. day = second * m /\ m \in Nat
  BY DivMod
<1>2. a = (day * q) + r /\ r \in Nat /\ q \in Nat
  BY DivMod
<1>3. r = (second * u) + z /\ z \in 0 .. second - 1 /\ u \in Nat
  BY <1>2, DivMod
<1>4. a = (second * (a \div second)) + (a % second) /\ a % second \in 0 .. second - 1 /\ a \div second \in Nat
  BY DivMod
<1> HIDE DEF m, q, r, u, z
<1>5. (m * q) + u \in Nat
  BY <1>1, <1>2, <1>3
<1>6. day * q = second * (m * q)
  BY <1>1, <1>2
<1>7. a = (second * ((m * q) + u)) + z
  <2>1. second * ((m * q) + u) = (second * (m * q)) + (second * u)
    BY <1>1, <1>2, <1>3
  <2>2. second * (m * q) \in Nat /\ second * u \in Nat
    BY <1>1, <1>2, <1>3
  <2>3. QED
    BY <1>2, <1>3, <1>6, <2>1, <2>2
<1>8. a \div second = (m * q) + u
  BY <1>3, <1>4, <1>5, <1>7, OneQuotient
<1>9. QED
  BY <1>8 DEF m, q, r, u

-----------------------------------------------------------------------------
(***************************************************************************)
(* What is built, and in which order.                                      *)
(***************************************************************************)
BuiltInTurn ==
    /\ refused \in BOOLEAN /\ fanOuts \in Seq({Built(w, at) : w \in {v \in Wishes : v.size > 0}, at \in Moments})
    /\ \A k, n \in DOMAIN fanOuts : k < n => fanOuts[k].at <= fanOuts[n].at

\* No fan-out is built yet.
LEMMA MembersStart == MembersInit => BuiltInTurn
<1> SUFFICES ASSUME MembersInit PROVE BuiltInTurn
  OBVIOUS
<1>1. fanOuts = <<>> /\ refused = FALSE
  BY DEF MembersInit
<1>2. fanOuts \in Seq({Built(w, at) : w \in {v \in Wishes : v.size > 0}, at \in Moments})
  BY <1>1, EmptySeq
<1>3. DOMAIN fanOuts = {} /\ refused \in BOOLEAN
  BY <1>1, NothingInEmpty
<1>4. QED
  BY <1>2, <1>3 DEF BuiltInTurn

\* The next fan-out is built no earlier than the last.
LEMMA MembersSteps == BuiltInTurn /\ [MembersNext]_membersVars => BuiltInTurn'
<1> SUFFICES ASSUME BuiltInTurn, [MembersNext]_membersVars PROVE BuiltInTurn'
  OBVIOUS
<1> DEFINE S == {Built(w, at) : w \in {v \in Wishes : v.size > 0}, at \in Moments}
<1>1. ASSUME NEW w \in Wishes, SizeRefused(w) PROVE BuiltInTurn'
  BY <1>1 DEF SizeRefused, BuiltInTurn
<1>2. ASSUME NEW w \in Wishes, NEW at \in Moments, Build(w, at) PROVE BuiltInTurn'
  <2> DEFINE f == Built(w, at)
  <2>1. /\ w.size > 0 /\ fanOuts' = Append(fanOuts, f) /\ refused' = refused
        /\ \A k \in DOMAIN fanOuts : fanOuts[k].at <= at
    BY <1>2 DEF Build
  <2>2. f \in S /\ f.at = at
    <3>1. f \in S
      BY <2>1
    <3>2. f.at = at
      BY DEF Built
    <3>3. QED
      BY <3>1, <3>2
  <2>3. fanOuts \in Seq(S) /\ DOMAIN fanOuts = 1 .. Len(fanOuts) /\ Len(fanOuts) \in Nat
    BY LenProperties DEF BuiltInTurn
  <2> HIDE DEF f, S
  <2>4. /\ fanOuts' \in Seq(S) /\ Len(fanOuts') = Len(fanOuts) + 1
        /\ \A i \in 1 .. Len(fanOuts) : fanOuts'[i] = fanOuts[i]
        /\ fanOuts'[Len(fanOuts) + 1] = f
    BY <2>1, <2>2, <2>3, AppendProperties
  <2>5. DOMAIN fanOuts' = 1 .. Len(fanOuts) + 1
    BY <2>4, LenProperties
  <2>6. ASSUME NEW k \in DOMAIN fanOuts', NEW n \in DOMAIN fanOuts', k < n
        PROVE  fanOuts'[k].at <= fanOuts'[n].at
    <3>1. k \in DOMAIN fanOuts /\ fanOuts'[k] = fanOuts[k]
      BY <2>3, <2>4, <2>5, <2>6
    <3>2. CASE n \in DOMAIN fanOuts
      <4>1. fanOuts'[n] = fanOuts[n]
        BY <2>3, <2>4, <3>2
      <4>2. QED
        BY <2>6, <3>1, <3>2, <4>1 DEF BuiltInTurn
    <3>3. CASE n = Len(fanOuts) + 1
      BY <2>1, <2>2, <2>4, <3>1, <3>3
    <3>4. QED
      BY <2>3, <2>5, <3>2, <3>3
  <2>7. QED
    BY <2>1, <2>4, <2>6 DEF BuiltInTurn, S
<1>3. CASE UNCHANGED membersVars
  BY <1>3 DEF membersVars, BuiltInTurn
<1>4. QED
  BY <1>1, <1>2, <1>3 DEF MembersNext

\* What an id is that was not given.
LEMMA MadeId ==
  ASSUME NEW w \in Wishes, NEW at \in Moments
  PROVE  /\ w.given => IdOf(w, at) = <<"given">>
         /\ ~ w.given => IdOf(w, at) = <<IF w.kind = "queue" THEN "queue" ELSE PrefixOf(w), at \div Day,
                              IF w.kind = "sweep" THEN at % SweepWheel
                              ELSE IF w.kind = "jobarray" THEN at % ArrayWheel ELSE (at % Day) \div Second>>
         /\ IdOf(w, at) # <<>>
<1>1. w.kind \in {"sweep", "queue", "jobarray"} /\ w.given \in BOOLEAN
  BY MembersConstants
<1>2. CASE w.given
  <2>1. IdOf(w, at) = <<"given">>
    BY <1>2 DEF IdOf
  <2>2. <<"given">> # <<>>
    OBVIOUS
  <2>3. QED
    BY <1>2, <2>1, <2>2
<1>3. CASE ~ w.given /\ w.kind = "sweep"
  BY <1>3 DEF IdOf, GenerateSweepId
<1>4. CASE ~ w.given /\ w.kind = "jobarray"
  BY <1>4 DEF IdOf, GenerateJobArrayId
<1>5. CASE ~ w.given /\ w.kind = "queue"
  BY <1>5 DEF IdOf, GenerateQueueId
<1>6. QED
  BY <1>1, <1>2, <1>3, <1>4, <1>5

\* What was built in turn has ids of its own.
LEMMA ApartThen == BuiltInTurn => IdsAreApart
<1> SUFFICES ASSUME BuiltInTurn, NEW k \in DOMAIN fanOuts, NEW n \in DOMAIN fanOuts, k < n,
                    fanOuts[k].kind = fanOuts[n].kind, fanOuts[k].id = fanOuts[n].id, ~ fanOuts[k].given
             PROVE  \/ Tick(fanOuts[k]) = Tick(fanOuts[n])
                    \/ fanOuts[n].at - fanOuts[k].at >= Turn(fanOuts[k].kind)
  BY DEF IdsAreApart
<1> DEFINE f == fanOuts[k]
           g == fanOuts[n]
           S == {Built(w, at) : w \in {v \in Wishes : v.size > 0}, at \in Moments}
<1>1. f \in S /\ g \in S /\ f.at <= g.at
  <2>1. fanOuts \in Seq(S)
    BY DEF BuiltInTurn
  <2> HIDE DEF S
  <2>2. f \in S /\ g \in S
    BY <2>1, ElementOfSeq, LenProperties
  <2>3. QED
    BY <2>2 DEF BuiltInTurn
<1>2. PICK w \in Wishes, a \in Moments : f = Built(w, a)
  BY <1>1
<1>3. PICK v \in Wishes, b \in Moments : g = Built(v, b)
  BY <1>1
<1>4. /\ f.kind = w.kind /\ f.id = IdOf(w, a) /\ f.at = a /\ f.given = w.given
      /\ g.kind = v.kind /\ g.id = IdOf(v, b) /\ g.at = b /\ g.given = v.given
  BY <1>2, <1>3 DEF Built
<1> HIDE DEF f, g, S
<1>5. w.kind = v.kind /\ IdOf(w, a) = IdOf(v, b) /\ ~ w.given /\ a <= b
  BY <1>1, <1>4 DEF f, g
<1>6. w.kind \in {"sweep", "queue", "jobarray"} /\ a \in Nat /\ b \in Nat
      /\ {Second, Day, SweepWheel, ArrayWheel} \subseteq Nat \ {0} /\ Day % Second = 0
      /\ v.given \in BOOLEAN
  BY MembersConstants
<1>7. ~ v.given
  <2>1. CASE v.given
    <3>1. IdOf(v, b) = <<"given">> /\ Len(IdOf(w, a)) = 3
      BY <1>5, <2>1, MadeId
    <3>2. QED
      BY <1>5, <3>1
  <2>2. QED
    BY <2>1
<1>8. /\ a \div Day = b \div Day
      /\ w.kind = "sweep" => a % SweepWheel = b % SweepWheel
      /\ w.kind = "jobarray" => a % ArrayWheel = b % ArrayWheel
      /\ w.kind = "queue" => (a % Day) \div Second = (b % Day) \div Second
  BY <1>5, <1>7, MadeId
<1>9. CASE w.kind = "sweep"
  BY <1>4, <1>5, <1>6, <1>8, <1>9, SameRest DEF Tick, Turn, f, g
<1>10. CASE w.kind = "jobarray"
  BY <1>4, <1>5, <1>6, <1>8, <1>10, SameRest DEF Tick, Turn, f, g
<1>11. CASE w.kind = "queue"
  <2> DEFINE m == Day \div Second
  <2>1. a \div Second = (m * (a \div Day)) + ((a % Day) \div Second)
    BY <1>6, SecondsOfDays
  <2>2. b \div Second = (m * (b \div Day)) + ((b % Day) \div Second)
    BY <1>6, SecondsOfDays
  <2>3. a \div Second = b \div Second
    BY <1>8, <1>11, <2>1, <2>2
  <2>4. QED
    BY <1>4, <1>5, <1>11, <2>3 DEF Tick, f, g
<1>12. QED
  BY <1>6, <1>9, <1>10, <1>11

\* Pairs that agree agree in their places.
LEMMA PlacesApart ==
  ASSUME NEW x, NEW i \in Int, NEW j \in Int, <<x, i>> = <<x, j>>
  PROVE  i = j
OBVIOUS

\* The members of one fan-out.
LEMMA WholeGroup ==
  ASSUME NEW w \in Wishes, w.size > 0, NEW at \in Moments
  PROVE  Whole(Built(w, at))
<1> DEFINE f == Built(w, at)
           made == IdOf(w, at)
           size == w.size
           M(n) == MemberAt(w, made, n - 1)
           T == ToSet(f.members)
<1>1. w.kind \in {"sweep", "queue", "jobarray"} /\ size \in Nat /\ made # <<>>
  BY MembersConstants, MadeId
<1>2. /\ f.kind = w.kind /\ f.size = size /\ f.id = made /\ f.named = w.baseName
      /\ f.members = [n \in 1 .. size |-> M(n)]
  BY DEF Built
<1>3. T = {M(n) : n \in 1 .. size}
  BY <1>2 DEF ToSet
<1>4. ASSUME NEW n \in 1 .. size
      PROVE  /\ M(n).index = n - 1 /\ M(n).of = size
             /\ M(n).key = IF w.kind = "queue" THEN <<"job", n - 1>> ELSE <<made, n - 1>>
             /\ (w.kind = "jobarray" \/ w.baseName = "") => M(n).name = <<PrefixOf(w), n - 1>>
             /\ M(n).sweep = IF w.kind = "jobarray" THEN <<>> ELSE made
             /\ M(n).jobArray = IF w.kind = "jobarray" THEN made ELSE <<>>
  <2>1. CASE w.kind = "sweep"
    BY <2>1 DEF MemberAt, SweepMember
  <2>2. CASE w.kind = "queue"
    BY <2>2 DEF MemberAt, QueueMember, SweepMember
  <2>3. CASE w.kind = "jobarray"
    BY <2>3 DEF MemberAt, ArrayMember
  <2>4. QED
    BY <1>1, <2>1, <2>2, <2>3
<1> HIDE DEF f, made, size, M, T
<1>5. {m.index : m \in T} = 0 .. size - 1
  <2>1. {m.index : m \in T} = {n - 1 : n \in 1 .. size}
    <3>1. {m.index : m \in T} = {M(n).index : n \in 1 .. size}
      BY <1>3
    <3>2. \A n \in 1 .. size : M(n).index = n - 1
      BY <1>4
    <3>3. {M(n).index : n \in 1 .. size} = {n - 1 : n \in 1 .. size}
      BY <3>2
    <3>4. QED
      BY <3>1, <3>3
  <2>2. \A i \in 0 .. size - 1 : i + 1 \in 1 .. size /\ i = (i + 1) - 1
    BY <1>1
  <2>3. \A n \in 1 .. size : n - 1 \in 0 .. size - 1
    BY <1>1
  <2>4. QED
    BY <2>1, <2>2, <2>3
<1>6. Cardinality({m.key : m \in T}) = size
  <2> DEFINE K == {m.key : m \in T}
             k == [n \in 1 .. size |-> M(n).key]
  <2>1. k \in [1 .. size -> K] /\ \A e \in K : \E n \in 1 .. size : k[n] = e
    BY <1>3
  <2>2. \A a, b \in 1 .. size : k[a] = k[b] => a = b
    <3>1. ASSUME NEW a \in 1 .. size, NEW b \in 1 .. size, M(a).key = M(b).key PROVE a = b
      <4> DEFINE x == IF w.kind = "queue" THEN "job" ELSE made
      <4>1. M(a).key = <<x, a - 1>> /\ M(b).key = <<x, b - 1>>
        BY <1>4
      <4>2. a - 1 \in Int /\ b - 1 \in Int
        BY <1>1
      <4> DEFINE i == a - 1
                 j == b - 1
      <4> HIDE DEF i, j, x
      <4>3. <<x, i>> = <<x, j>> /\ i \in Int /\ j \in Int
        BY <3>1, <4>1, <4>2 DEF i, j
      <4>4. i = j
        BY <4>3, PlacesApart
      <4>5. QED
        BY <1>1, <4>4 DEF i, j
    <3>2. QED
      BY <3>1
  <2> HIDE DEF K, k
  <2>3. Cardinality(K) = size
    BY <1>1, <2>1, <2>2, CountOfApart
  <2>4. QED
    BY <2>3 DEF K
<1>7. ASSUME w.kind = "jobarray" \/ w.baseName = ""
      PROVE  Cardinality({m.name : m \in T}) = size
  <2> DEFINE K == {m.name : m \in T}
             k == [n \in 1 .. size |-> M(n).name]
  <2>1. k \in [1 .. size -> K] /\ \A e \in K : \E n \in 1 .. size : k[n] = e
    BY <1>3
  <2>2. \A a, b \in 1 .. size : k[a] = k[b] => a = b
    <3>1. ASSUME NEW a \in 1 .. size, NEW b \in 1 .. size, M(a).name = M(b).name PROVE a = b
      <4> DEFINE x == PrefixOf(w)
      <4>1. M(a).name = <<x, a - 1>> /\ M(b).name = <<x, b - 1>>
        BY <1>4, <1>7
      <4>2. a - 1 \in Int /\ b - 1 \in Int
        BY <1>1
      <4> DEFINE i == a - 1
                 j == b - 1
      <4> HIDE DEF i, j, x
      <4>3. <<x, i>> = <<x, j>> /\ i \in Int /\ j \in Int
        BY <3>1, <4>1, <4>2 DEF i, j
      <4>4. i = j
        BY <4>3, PlacesApart
      <4>5. QED
        BY <1>1, <4>4 DEF i, j
    <3>2. QED
      BY <3>1
  <2> HIDE DEF K, k
  <2>3. Cardinality(K) = size
    BY <1>1, <2>1, <2>2, CountOfApart
  <2>4. QED
    BY <2>3 DEF K
<1>8. ASSUME NEW m \in T
      PROVE  /\ m.of = size /\ (IF w.kind = "jobarray" THEN m.jobArray ELSE m.sweep) = made
             /\ (m.sweep = <<>>) # (m.jobArray = <<>>)
  <2>1. PICK n \in 1 .. size : m = M(n)
    BY <1>3
  <2>2. CASE w.kind = "jobarray"
    BY <1>1, <1>4, <2>1, <2>2
  <2>3. CASE w.kind # "jobarray"
    BY <1>1, <1>4, <2>1, <2>3
  <2>4. QED
    BY <2>2, <2>3
<1>9. QED
  BY <1>2, <1>5, <1>6, <1>7, <1>8 DEF Whole, f, T

\* An engine that was not told is viable with one.
LEMMA ViableWithOne ==
  ASSUME NEW onFailure, NEW size
  PROVE  Engine(onFailure, 0, size).minViable = 1
<1> DEFINE e == IF onFailure = "" THEN "continue" ELSE onFailure
           v == IF 0 < 1 THEN 1 ELSE IF 0 > size THEN size ELSE 0
<1>1. Engine(onFailure, 0, size) = [onFailure |-> e, minViable |-> v]
  BY DEF Engine
<1>2. v = 1
  OBVIOUS
<1> HIDE DEF e, v
<1>3. QED
  BY <1>1, <1>2

\* The threshold of a fan-out lies among its members, and is one where none is asked for.
LEMMA ThresholdOf ==
  ASSUME NEW w \in Wishes, w.size > 0, NEW at \in Moments
  PROVE  LET f == Built(w, at) IN
         f.engine.minViable \in 1 .. f.size /\ (f.kind # "jobarray" => f.engine.minViable = 1)
<1>1. w.kind \in {"sweep", "queue", "jobarray"} /\ w.size \in Nat /\ w.minViable \in Nat
  BY MembersConstants
<1>2. /\ Built(w, at).kind = w.kind /\ Built(w, at).size = w.size
      /\ Built(w, at).engine = CASE w.kind = "sweep" -> StartSweep(w) [] w.kind = "queue" -> StartQueue(w)
                                 [] w.kind = "jobarray" -> StartJobArray(w)
  BY DEF Built
<1> DEFINE viable == Built(w, at).engine.minViable
<1>3. CASE w.kind = "sweep"
  <2>1. viable = 1
    BY <1>2, <1>3 DEF StartSweep, Engine
  <2>2. QED
    BY <1>1, <1>2, <2>1
<1>4. CASE w.kind = "queue"
  <2>1. Built(w, at).engine = Engine(w.onFailure, 0, w.size)
    BY <1>2, <1>4 DEF StartQueue
  <2>2. Engine(w.onFailure, 0, w.size).minViable = 1
    BY ViableWithOne
  <2>3. viable = 1
    BY <2>1, <2>2
  <2>4. QED
    BY <1>1, <1>2, <2>3
<1>5. CASE w.kind = "jobarray"
  <2>1. viable = IF w.minViable < 1 THEN 1 ELSE IF w.minViable > w.size THEN w.size ELSE w.minViable
    BY <1>2, <1>5 DEF StartJobArray, Engine
  <2>2. viable \in 1 .. w.size
    BY <1>1, <2>1
  <2>3. QED
    BY <1>2, <1>5, <2>2
<1>6. QED
  BY <1>1, <1>3, <1>4, <1>5

\* What was built in turn is sound.
LEMMA MembersAreSoundThen == BuiltInTurn => MembersAreSound
<1> SUFFICES ASSUME BuiltInTurn PROVE MembersAreSound
  OBVIOUS
<1>1. ASSUME NEW k \in DOMAIN fanOuts
      PROVE  \E w \in Wishes, at \in Moments : w.size > 0 /\ fanOuts[k] = Built(w, at)
  <2> DEFINE S == {Built(w, at) : w \in {v \in Wishes : v.size > 0}, at \in Moments}
  <2>1. fanOuts \in Seq(S)
    BY DEF BuiltInTurn
  <2> HIDE DEF S
  <2>2. fanOuts[k] \in S
    BY <2>1, ElementOfSeq, LenProperties
  <2>3. QED
    BY <2>2 DEF S
<1>2. GroupsAreWhole
  BY <1>1, WholeGroup DEF GroupsAreWhole
<1>3. ThresholdCanBeMet
  BY <1>1, ThresholdOf DEF ThresholdCanBeMet
<1>4. QED
  BY <1>2, <1>3, ApartThen DEF MembersAreSound, BuiltInTurn

(***************************************************************************)
(* A fan-out is of what was asked for: the order of a queue is one that    *)
(* its dependencies allow, what is refused as circular has a cycle, peers  *)
(* stay in the order of their declaration, and ids, keys, names and        *)
(* indexes tell fan-outs and members apart (FanOutsAreWhole; queue.ts:116, *)
(* sweep.ts:117, jobarray.ts:80).                                          *)
(***************************************************************************)
THEOREM FanOutsAlwaysWhole == FrontSpec => []FanOutsAreWhole
<1> DEFINE Inv == QueueInv /\ BuiltInTurn
<1>1. FrontInit => Inv
  <2> SUFFICES ASSUME FrontInit PROVE Inv
    OBVIOUS
  <2>1. BuiltInTurn
    BY MembersStart DEF FrontInit
  <2>2. QueueInit \/ (/\ cfg = QueueOf(<<>>) /\ queueStage = "invalid" /\ ready = <<>> /\ order = <<>>
                      /\ queueMembers = <<>>)
    BY DEF FrontInit
  <2>3. QED
    BY <2>1, <2>2, QueueStarts, RestingQueue
<1>2. Inv /\ [FrontNext]_FrontVars => Inv'
  <2> SUFFICES ASSUME Inv, [FrontNext]_FrontVars PROVE Inv'
    OBVIOUS
  <2>1. [QueueNext]_queueVars
    BY DEF FrontNext, FrontVars, Only
  <2>2. [MembersNext]_membersVars
    BY DEF FrontNext, FrontVars, Only
  <2>3. QED
    BY <2>1, <2>2, QueueSteps, MembersSteps
<1>3. Inv => FanOutsAreWhole
  BY QueueIsSoundThen, MembersAreSoundThen DEF FanOutsAreWhole
<1>4. QED
  BY <1>1, <1>2, <1>3, PTL DEF FrontSpec

-----------------------------------------------------------------------------
(***************************************************************************)
(* What is said of an instance: what was read of it is an instance as it   *)
(* is asked about, whatever happened to it since.                          *)
(***************************************************************************)
StatusInv ==
    /\ backing \in Backings /\ box \in Asked /\ moment \in 1 .. LastMoment /\ known \in Nat
    /\ replying \in {"none", "status", "extend", "reload"}
    /\ replying # "none" => seen.inst \in Asked /\ seen.at \in Nat

\* A deadline is a moment, or 0.
LEMMA DeadlineIsNat ==
  ASSUME NEW b \in Asked
  PROVE  DeadlineOf(b) \in Nat
<1>1. b.launch \in Nat /\ b.ttl \in Nat /\ b.deadline \in Nat
  BY DEF Asked
<1>2. DeadlineOf(b) = IF b.deadline > 0 THEN b.deadline
                      ELSE IF b.ttl > 0 /\ b.launch > 0 THEN b.launch + b.ttl ELSE 0
  BY DEF DeadlineOf, BoxRules!TtlDeadline
<1>3. QED
  BY <1>1, <1>2

\* Nothing was asked yet.
LEMMA StatusStarts == StatusInit => StatusInv
<1> SUFFICES ASSUME StatusInit PROVE StatusInv
  OBVIOUS
<1>1. backing \in Backings /\ box \in Asked /\ moment \in 1 .. LastMoment
  BY StatusConstants DEF StatusInit
<1>2. known \in Nat
  BY <1>1, DeadlineIsNat DEF StatusInit
<1>3. QED
  BY <1>1, <1>2 DEF StatusInit, StatusInv

\* Every command, and whatever happens to the instance meanwhile, keeps it.
LEMMA StatusSteps == StatusInv /\ [StatusNext]_statusVars => StatusInv'
<1> SUFFICES ASSUME StatusInv, [StatusNext]_statusVars PROVE StatusInv'
  OBVIOUS
<1> USE StatusConstants
<1>1. CASE UNCHANGED statusVars
  BY <1>1 DEF statusVars, StatusInv
<1>2. CASE ListShown \/ ConnectShown
  BY <1>2 DEF ListShown, ConnectShown, Answers, World, StatusInv
<1>3. ASSUME NEW verb \in {"status", "extend"}, Reads(verb) PROVE StatusInv'
  <2>1. /\ UNCHANGED <<backing, box, moment, known>> /\ replying' = verb
        /\ seen' = [Nothing EXCEPT !.inst = box, !.at = moment]
    BY <1>3 DEF Reads, World
  <2>2. seen'.inst = box /\ seen'.at = moment
    BY <2>1 DEF Nothing
  <2>3. QED
    BY <2>1, <2>2 DEF StatusInv
<1>4. CASE StatusShown \/ ExtendShown
  BY <1>4 DEF StatusShown, ExtendShown, Shows, World, StatusInv
<1>5. CASE ExtendRefused \/ ExtendFails
  BY <1>5 DEF ExtendRefused, ExtendFails, Shows, World, StatusInv
<1>6. ASSUME NEW by \in 1 .. 2, ExtendWrites(by) \/ ExtendLost(by) PROVE StatusInv'
  <2> DEFINE next == BoxRules!Extended(seen.inst, by, seen.at)
  <2>1. /\ replying = "extend" /\ UNCHANGED <<backing, moment, known>>
        /\ box' = [box EXCEPT !.deadline = next.deadline, !.ttl = next.ttl]
        /\ \/ replying' = "reload"
              /\ seen' = [seen EXCEPT !.clamped = next.deadline > DeadlineOf(seen.inst) + by]
           \/ replying' = "none"
    BY <1>6 DEF ExtendWrites, ExtendLost, WritesTags, Shows
  <2>2. seen.inst \in Asked /\ seen.at \in Nat
    BY <2>1 DEF StatusInv
  <2>3. next.deadline \in Nat /\ next.ttl \in Nat
    <3> DEFINE to == BoxRules!Later(BoxRules!TtlDeadline(seen.inst) + by, seen.at + by)
               i == seen.inst
    <3>1. to \in Nat
      BY <2>2, DeadlineIsNat DEF BoxRules!Later, DeadlineOf
    <3>2. next = [i EXCEPT !.deadline = to,
                           !.ttl = IF i.launch > 0 /\ to > i.launch THEN to - i.launch ELSE @]
      BY DEF BoxRules!Extended
    <3>3. i \in Asked
      BY <2>2
    <3> HIDE DEF to, i, next
    <3>4. next.deadline = to /\ next.ttl = IF i.launch > 0 /\ to > i.launch THEN to - i.launch ELSE i.ttl
      BY <3>2, <3>3 DEF Asked
    <3>5. i.launch \in Nat /\ i.ttl \in Nat
      BY <3>3 DEF Asked
    <3>6. QED
      BY <3>1, <3>4, <3>5
  <2> HIDE DEF next
  <2>4. box' \in Asked
    BY <2>1, <2>3 DEF StatusInv, Asked
  <2>5. replying' # "none" => seen'.inst = seen.inst /\ seen'.at = seen.at
    <3>1. CASE seen' = [seen EXCEPT !.clamped = next.deadline > DeadlineOf(seen.inst) + by]
      BY <3>1
    <3>2. CASE replying' = "none"
      BY <3>2
    <3>3. QED
      BY <2>1, <3>1, <3>2
  <2>6. QED
    BY <2>1, <2>2, <2>4, <2>5 DEF StatusInv
<1>8. CASE SporedReads
  <2>1. known' \in Nat
    BY <1>8, DeadlineIsNat DEF SporedReads, StatusInv
  <2>2. QED
    BY <1>8, <2>1 DEF SporedReads, StatusInv
<1>9. CASE BoxMoves \/ SporedEnds
  <2>1. UNCHANGED <<backing, moment, known, replying, seen, page>>
    BY <1>9 DEF BoxMoves, SporedEnds, BoxChanges
  <2>2. PICK st \in {"running", "stopped", "gone"}, ip \in {"none", "held"} :
          \/ box' = [box EXCEPT !.state = st]
          \/ box' = [box EXCEPT !.eip = ip]
          \/ box' = [box EXCEPT !.dns = "failed"]
    BY <1>9 DEF BoxMoves, SporedEnds, BoxChanges
  <2>3. box \in Asked
    BY DEF StatusInv
  <2>4. box' \in Asked
    <3>1. CASE box' = [box EXCEPT !.state = st]
      BY <2>3, <3>1 DEF Asked
    <3>2. CASE box' = [box EXCEPT !.eip = ip]
      BY <2>3, <3>2 DEF Asked
    <3>3. CASE box' = [box EXCEPT !.dns = "failed"]
      BY <2>3, <3>3 DEF Asked
    <3>4. QED
      BY <2>2, <3>1, <3>2, <3>3
  <2>5. QED
    BY <2>1, <2>4 DEF StatusInv
<1>10. CASE MomentPasses
  BY <1>10 DEF MomentPasses, StatusInv
<1>11. QED
  BY <1>1, <1>2, <1>3, <1>4, <1>5, <1>6, <1>8, <1>9, <1>10 DEF StatusNext

\* The rules that may be due of an instance, and what each of them needs.
LEMMA DueWhen ==
  ASSUME NEW i, NEW at, NEW rule \in RulesDue(i, at)
  PROVE  /\ i.state = "running" /\ rule \in {"completion", "ttl", "cost-limit", "idle"}
         /\ rule = "completion" => i.onComplete # "none"
         /\ rule = "ttl" => BoxRules!TtlFires(i, at)
         /\ rule = "cost-limit" => i.budget > 0
         /\ rule = "idle" => i.idleTimeout > 0
<1>1. PICK signal \in BOOLEAN, idle \in BOOLEAN :
         rule = BoxRules!Decision(i, at, signal, idle).rule /\ rule # "none"
  BY DEF RulesDue
<1>2. BoxRules!NoDecision.rule = "none"
  BY DEF BoxRules!NoDecision
<1>3. i.state = "running"
  BY <1>1, <1>2 DEF BoxRules!Decision
<1>4. CASE BoxRules!CompletionFires(i, signal)
  BY <1>1, <1>3, <1>4 DEF BoxRules!Decision, BoxRules!CompletionFires
<1>5. CASE ~ BoxRules!CompletionFires(i, signal) /\ BoxRules!TtlFires(i, at)
  BY <1>1, <1>3, <1>5 DEF BoxRules!Decision
<1>6. CASE ~ BoxRules!CompletionFires(i, signal) /\ ~ BoxRules!TtlFires(i, at) /\ BoxRules!CostFires(i)
  BY <1>1, <1>3, <1>6 DEF BoxRules!Decision, BoxRules!CostFires
<1>7. CASE /\ ~ BoxRules!CompletionFires(i, signal) /\ ~ BoxRules!TtlFires(i, at) /\ ~ BoxRules!CostFires(i)
           /\ BoxRules!IdleFires(i, at, idle)
  BY <1>1, <1>3, <1>7 DEF BoxRules!Decision, BoxRules!IdleFires
<1>8. CASE /\ ~ BoxRules!CompletionFires(i, signal) /\ ~ BoxRules!TtlFires(i, at) /\ ~ BoxRules!CostFires(i)
           /\ ~ BoxRules!IdleFires(i, at, idle)
  BY <1>1, <1>2, <1>3, <1>8 DEF BoxRules!Decision
<1>9. QED
  BY <1>4, <1>5, <1>6, <1>7, <1>8

\* Not signalled, a running instance past its deadline is ended by that.
LEMMA DueByTtl ==
  ASSUME NEW i, NEW at, i.state = "running", BoxRules!TtlFires(i, at)
  PROVE  "ttl" \in RulesDue(i, at)
<1>1. BoxRules!Decision(i, at, FALSE, FALSE).rule = "ttl"
  BY DEF BoxRules!Decision, BoxRules!CompletionFires
<1>2. \E signal, idle \in BOOLEAN : BoxRules!Decision(i, at, signal, idle).rule = "ttl"
  <2> WITNESS FALSE \in BOOLEAN, FALSE \in BOOLEAN
  <2> QED
    BY <1>1
<1>3. QED
  BY <1>2, Zenon DEF RulesDue

\* Only an answer ends a look at the status, and it is of what was read.
LEMMA StatusTellsTheTruth ==
  ASSUME StatusInv, StatusNext, replying = "status", replying' = "none"
  PROVE  /\ \A rule \in RulesDue(seen.inst, seen.at) : TellsOf(rule) \in page'
         /\ "past due" \in page' => "ttl" \in RulesDue(seen.inst, seen.at) \/ seen.inst.state = "pending"
         /\ backing.addresses /\ box.eip = "held" /\ ~ Up(seen.inst) =>
               page' \cap {"address bills", "address not checked"} # {}
<1>1. StatusShown
  BY DEF StatusNext, ListShown, ConnectShown, Answers, Reads, ExtendRefused, ExtendWrites, ExtendLost, WritesTags, Shows, ExtendFails,
     ExtendShown, SporedReads, BoxMoves, BoxChanges, SporedEnds, MomentPasses
<1>2. PICK look \in AddressAnswer :
         page' = StatusLines(seen.inst, seen.at) \cup StatusNotices(seen.inst, seen.at, look)
  BY <1>1 DEF StatusShown, Shows
<1> DEFINE i == seen.inst
           at == seen.at
<1>3. i \in Asked /\ at \in Nat
  BY DEF StatusInv
<1>4. page' = StatusLines(i, at) \cup StatusNotices(i, at, look)
  BY <1>2
<1> HIDE DEF i, at
<1>5. i.state # "past due" /\ "past due" \notin StatusLines(i, at)
  BY <1>3 DEF Asked, StatusLines, Line
<1>6. "past due" \notin DnsNotice(i) \cup ElasticIpNotice(i, look) \cup SporedUpgrade(i)
  BY DEF DnsNotice, ElasticIpNotice, SporedUpgrade, Line
<1>7. "past due" \in LifecycleProtection(i, at) <=> Up(i) /\ DeadlineOf(i) > 0 /\ DeadlineOf(i) <= at
  <2>1. CASE ~ Up(i)
    BY <2>1 DEF LifecycleProtection
  <2>2. CASE Up(i)
    BY <2>2 DEF LifecycleProtection, Line
  <2>3. QED
    BY <2>1, <2>2
<1>8. "past due" \in page' <=> Up(i) /\ BoxRules!TtlFires(i, at)
  BY <1>4, <1>5, <1>6, <1>7 DEF StatusNotices, BoxRules!TtlFires, DeadlineOf
<1>9. ASSUME NEW rule \in RulesDue(i, at) PROVE TellsOf(rule) \in page'
  <2>1. CASE rule = "ttl"
    BY <1>8, <1>9, <2>1, DueWhen DEF TellsOf, Up
  <2>2. CASE rule # "ttl"
    <3>1. TellsOf(rule) \in StatusLines(i, at)
      BY <1>9, <2>2, DueWhen DEF TellsOf, StatusLines, Line
    <3>2. QED
      BY <1>4, <3>1
  <2>3. QED
    BY <2>1, <2>2
<1>10. "past due" \in page' => "ttl" \in RulesDue(i, at) \/ i.state = "pending"
  BY <1>8, DueByTtl DEF Up
<1>11. ASSUME backing.addresses, box.eip = "held", ~ Up(i)
      PROVE  page' \cap {"address bills", "address not checked"} # {}
  <2>1. look \in {"held", "failed"}
    BY <1>11 DEF AddressAnswer, FirstAssociated
  <2>2. ElasticIpNotice(i, look) \cap {"address bills", "address not checked"} # {}
    BY <1>11, <2>1 DEF ElasticIpNotice, Line
  <2>3. QED
    BY <1>4, <2>2 DEF StatusNotices
<1>12. QED
  BY <1>9, <1>10, <1>11 DEF i, at

\* The steps of the other parts leave the status alone.
LEMMA StatusAlwaysKept == FrontSpec => []StatusInv
<1>1. FrontInit => StatusInv
  BY StatusStarts DEF FrontInit
<1>2. StatusInv /\ [FrontNext]_FrontVars => StatusInv'
  <2>1. [FrontNext]_FrontVars => [StatusNext]_statusVars
    BY DEF FrontNext, FrontVars, Only
  <2>2. QED
    BY <2>1, StatusSteps
<1>3. QED
  BY <1>1, <1>2, PTL DEF FrontSpec

(***************************************************************************)
(* The status of an instance has a line for each lifecycle rule that the   *)
(* next check may end or stop it by, calls past due what the TTL is to     *)
(* end, and nothing else but what is not running yet, and passes over no   *)
(* address of a stopped instance (StatusIsTruthful; notices.ts:89-253,     *)
(* lifecycle.ts:123-210).                                                  *)
(***************************************************************************)
THEOREM StatusAlwaysTruthful == FrontSpec => StatusIsTruthful
<1> DEFINE Told == replying = "status" /\ replying' = "none" =>
             /\ \A rule \in RulesDue(seen.inst, seen.at) : TellsOf(rule) \in page'
             /\ "past due" \in page' => "ttl" \in RulesDue(seen.inst, seen.at) \/ seen.inst.state = "pending"
             /\ backing.addresses /\ box.eip = "held" /\ ~ Up(seen.inst) =>
                   page' \cap {"address bills", "address not checked"} # {}
<1>1. StatusInv /\ [FrontNext]_FrontVars => [Told]_statusVars
  <2> SUFFICES ASSUME StatusInv, [FrontNext]_FrontVars PROVE [Told]_statusVars
    OBVIOUS
  <2>1. StatusNext \/ UNCHANGED statusVars
    BY DEF FrontNext, FrontVars, Only
  <2>2. ASSUME StatusNext, replying = "status", replying' = "none" PROVE Told
    BY <2>2, StatusTellsTheTruth
  <2>3. QED
    BY <2>1, <2>2
<1> HIDE DEF Told
<1>2. FrontSpec => [][Told]_statusVars
  BY <1>1, StatusAlwaysKept, PTL DEF FrontSpec
<1>3. QED
  BY <1>2 DEF Told, StatusIsTruthful

-----------------------------------------------------------------------------
(***************************************************************************)
(* What is said of the account.  Runs are numbered; a lookup asks for the  *)
(* name of its run, a record is of the slug of its run's name; what did    *)
(* not overlap is of the account and the run on the page.                  *)
(***************************************************************************)
PageOf(numbers) ==
    [account : Accounts \cup {NoAccount}, quotas : Accounts \cup {NoAccount}, run : numbers,
     name : RunNames \cup {""}, watched : BOOLEAN, told : {"", "reaped"}, confirmed : BOOLEAN]

AccountTypes ==
    /\ launches \in Nat /\ names \in Seq(RunNames) /\ Len(names) = launches
    /\ DOMAIN homes \subseteq 1 .. launches
    /\ webpage \in PageOf(0 .. launches)
    /\ \A v \in verifying : v.account \in Accounts
    /\ quotaReads \subseteq Accounts

RunsInv ==
    /\ webpage.run # 0 => webpage.name = names[webpage.run]
    /\ \A l \in lookups : l.run \in 1 .. launches /\ l.host[1] = names[l.run]
    /\ \A x \in records : x.run \in 1 .. launches /\ x.host[1] = SlugOf[names[x.run]]

OverlapInv ==
    /\ "quotas" \notin mixed => quotaReads \subseteq {webpage.account}
    /\ "lookup" \notin mixed => \A l \in lookups : l.run = webpage.run
    /\ webpage.watched => webpage.run # 0 /\ webpage.told = ""
    /\ webpage.watched /\ "account" \notin mixed =>
          (webpage.run \in DOMAIN homes => homes[webpage.run] = webpage.account)

AccountInv == AccountTypes /\ RunsInv /\ OverlapInv /\ PageIsTruthful

\* What the page holds when it is loaded is of every type that has the number 0.
LEMMA LoadedPage == \A numbers : 0 \in numbers => AtLoad \in PageOf(numbers)
BY DEF AtLoad, PageOf

\* A page that is loaded has nothing to say.
LEMMA AccountStarts == AccountInit => AccountInv
<1> SUFFICES ASSUME AccountInit PROVE AccountInv
  OBVIOUS
<1>1. /\ launches = 0 /\ names = <<>> /\ homes = <<>> /\ webpage = AtLoad /\ verifying = {} /\ quotaReads = {}
      /\ lookups = {} /\ records = {} /\ mixed = {}
  BY DEF AccountInit
<1>2. names \in Seq(RunNames) /\ Len(names) = 0 /\ DOMAIN homes = {}
  BY <1>1, EmptySeq, NothingInEmpty
<1>3. AccountTypes
  <2>1. 0 \in Nat /\ 0 \in 0 .. 0
    OBVIOUS
  <2>2. webpage \in PageOf(0 .. launches)
    BY <1>1, <2>1, LoadedPage
  <2>3. DOMAIN homes \subseteq 1 .. launches
    BY <1>2
  <2>4. QED
    BY <1>1, <1>2, <2>1, <2>2, <2>3 DEF AccountTypes
<1>4. RunsInv /\ OverlapInv
  BY <1>1 DEF RunsInv, OverlapInv, AtLoad
<1>5. PageIsTruthful
  BY <1>1 DEF PageIsTruthful, QuotasAreOfTheAccount, ConfirmedIsThisRun, ReapedIsTrue, AtLoad
<1>6. QED
  BY <1>3, <1>4, <1>5 DEF AccountInv

\* The names of runs stand.
LEMMA NamesStand ==
  ASSUME AccountTypes, NEW n \in RunNames
  PROVE  /\ Append(names, n) \in Seq(RunNames) /\ Len(Append(names, n)) = launches + 1
         /\ \A r \in 1 .. launches : Append(names, n)[r] = names[r]
         /\ Append(names, n)[launches + 1] = n
<1>1. names \in Seq(RunNames) /\ Len(names) = launches
  BY DEF AccountTypes
<1>2. QED
  BY <1>1, AppendProperties

\* Every step keeps it.
LEMMA AccountSteps == AccountInv /\ [AccountNext]_accountVars => AccountInv'
<1> SUFFICES ASSUME AccountInv, [AccountNext]_accountVars PROVE AccountInv'
  OBVIOUS
<1>t. AccountTypes
  BY DEF AccountInv
<1>n. launches \in Nat /\ webpage \in PageOf(0 .. launches) /\ webpage.run \in 0 .. launches
  BY <1>t DEF AccountTypes, PageOf
<1>r. RunsInv
  BY DEF AccountInv
<1>o. OverlapInv
  BY DEF AccountInv
<1>p. PageIsTruthful
  BY DEF AccountInv
<1>1. CASE UNCHANGED accountVars
  BY <1>1, <1>t, <1>r, <1>o, <1>p DEF accountVars, AccountInv, AccountTypes, RunsInv, OverlapInv,
     PageIsTruthful, QuotasAreOfTheAccount, ConfirmedIsThisRun, ReapedIsTrue
<1>2. CASE GlobusRedirect
  <2>1. /\ webpage' = AtLoad /\ quotaReads' = {} /\ lookups' = {} /\ mixed' = {}
        /\ verifying' = {[how |-> "globus", account |-> GlobusAccount]}
        /\ UNCHANGED <<launches, homes, names, records>>
    BY <1>2 DEF GlobusRedirect
  <2>2. AccountTypes'
    <3>1. 0 \in 0 .. launches
      BY <1>n
    <3>2. webpage' \in PageOf(0 .. launches')
      BY <2>1, <3>1, LoadedPage
    <3>3. \A v \in verifying' : v.account \in Accounts
      BY <2>1, DirectAccountConstants
    <3>4. QED
      BY <2>1, <3>2, <3>3, <1>t DEF AccountTypes
  <2>3. RunsInv' /\ OverlapInv'
    BY <2>1, <1>r, <1>o DEF RunsInv, OverlapInv, AtLoad
  <2>4. PageIsTruthful'
    BY <2>1, <1>p DEF AtLoad, PageIsTruthful, QuotasAreOfTheAccount, ConfirmedIsThisRun, ReapedIsTrue
  <2>5. QED
    BY <2>2, <2>3, <2>4 DEF AccountInv
<1>3. ASSUME NEW a \in Accounts, PasteKeys(a) PROVE AccountInv'
  <2>1. /\ UNCHANGED <<webpage, quotaReads, lookups, launches, homes, names, records, mixed>>
        /\ \A v \in verifying' : v.account \in Accounts
    <3>1. verifying' = verifying \cup {[how |-> "keys", account |-> a]}
      BY <1>3 DEF PasteKeys
    <3>2. \A v \in verifying : v.account \in Accounts
      BY <1>t DEF AccountTypes
    <3>3. \A v \in verifying' : v.account \in Accounts
      BY <3>1, <3>2
    <3>4. QED
      BY <1>3, <3>3 DEF PasteKeys
  <2>2. QED
    BY <2>1, <1>t, <1>r, <1>o, <1>p DEF AccountTypes, RunsInv, OverlapInv, AccountInv, PageIsTruthful,
       QuotasAreOfTheAccount, ConfirmedIsThisRun, ReapedIsTrue
<1>4. ASSUME NEW v \in verifying, SignInRefused(v) PROVE AccountInv'
  BY <1>4, <1>t, <1>r, <1>o, <1>p DEF SignInRefused, AccountTypes, RunsInv, OverlapInv, AccountInv, PageIsTruthful,
     QuotasAreOfTheAccount, ConfirmedIsThisRun, ReapedIsTrue
<1>5. ASSUME NEW v \in verifying, ConnectWithCreds(v) PROVE AccountInv'
  <2>1. /\ verifying' = verifying \ {v} /\ webpage' = [webpage EXCEPT !.account = v.account, !.quotas = NoAccount]
        /\ quotaReads' = quotaReads \cup {v.account}
        /\ mixed' = mixed \cup (IF quotaReads # {} THEN {"quotas"} ELSE {})
                          \cup (IF webpage.watched /\ v.account # webpage.account THEN {"account"} ELSE {})
        /\ UNCHANGED <<lookups, launches, homes, names, records>>
    BY <1>5 DEF ConnectWithCreds
  <2>2. v.account \in Accounts
    BY <1>t DEF AccountTypes
  <2>3. /\ webpage'.account = v.account /\ webpage'.quotas = NoAccount
        /\ webpage'.run = webpage.run /\ webpage'.name = webpage.name /\ webpage'.watched = webpage.watched
        /\ webpage'.told = webpage.told /\ webpage'.confirmed = webpage.confirmed
    BY <2>1, <1>t DEF AccountTypes, PageOf
  <2>4. AccountTypes'
    BY <2>1, <2>2, <1>t DEF AccountTypes, PageOf
  <2>5. RunsInv'
    BY <2>1, <2>3, <1>r DEF RunsInv
  <2>6. "quotas" \notin mixed' => quotaReads' \subseteq {webpage'.account}
    BY <2>1, <2>3
  <2>7. "lookup" \notin mixed' => \A l \in lookups' : l.run = webpage'.run
    BY <2>1, <2>3, <1>o DEF OverlapInv
  <2>8. webpage'.watched => webpage'.run # 0 /\ webpage'.told = ""
    BY <2>3, <1>o DEF OverlapInv
  <2>9. webpage'.watched /\ "account" \notin mixed' =>
           (webpage'.run \in DOMAIN homes' => homes'[webpage'.run] = webpage'.account)
    BY <2>1, <2>3, <1>o DEF OverlapInv
  <2>10. OverlapInv'
    BY <2>6, <2>7, <2>8, <2>9, <1>o DEF OverlapInv
  <2>11. PageIsTruthful'
    BY <2>1, <2>3, <1>p DEF PageIsTruthful, QuotasAreOfTheAccount, ConfirmedIsThisRun, ReapedIsTrue
  <2>12. QED
    BY <2>4, <2>5, <2>10, <2>11 DEF AccountInv
<1>6. ASSUME NEW a \in Accounts, ShowQuotas(a) PROVE AccountInv'
  <2>1. PICK q \in {a, NoAccount} : webpage' = [webpage EXCEPT !.quotas = q]
    BY <1>6 DEF ShowQuotas, FetchEc2Quotas
  <2>2. /\ a \in quotaReads /\ quotaReads' = quotaReads \ {a}
        /\ UNCHANGED <<verifying, lookups, launches, homes, names, records, mixed>>
    BY <1>6 DEF ShowQuotas
  <2>3. /\ webpage'.account = webpage.account /\ webpage'.quotas = q
        /\ webpage'.run = webpage.run /\ webpage'.name = webpage.name /\ webpage'.watched = webpage.watched
        /\ webpage'.told = webpage.told /\ webpage'.confirmed = webpage.confirmed
    BY <2>1, <1>t DEF AccountTypes, PageOf
  <2>4. AccountTypes'
    BY <2>1, <2>2, <1>t DEF AccountTypes, PageOf
  <2>5. RunsInv' /\ OverlapInv'
    BY <2>2, <2>3, <1>r, <1>o DEF RunsInv, OverlapInv
  <2>6. "quotas" \notin mixed' => webpage'.quotas \in {NoAccount, webpage'.account}
    BY <2>1, <2>2, <2>3, <1>o DEF OverlapInv
  <2>7. PageIsTruthful'
    BY <2>2, <2>3, <2>6, <1>p DEF PageIsTruthful, QuotasAreOfTheAccount, ConfirmedIsThisRun, ReapedIsTrue
  <2>8. QED
    BY <2>4, <2>5, <2>7 DEF AccountInv
<1>7. ASSUME NEW n \in RunNames, LaunchesAs(n) PROVE AccountInv'
  <2>1. /\ webpage.run = 0 /\ launches' = launches + 1
        /\ homes' = [r \in DOMAIN homes \cup {launches'} |-> IF r = launches' THEN webpage.account ELSE homes[r]]
        /\ names' = Append(names, n)
        /\ webpage' = [webpage EXCEPT !.run = launches', !.name = n, !.watched = TRUE, !.told = ""]
        /\ UNCHANGED <<verifying, quotaReads, lookups, records, mixed>>
    BY <1>7 DEF LaunchesAs
  <2>2. /\ names' \in Seq(RunNames) /\ Len(names') = launches + 1
        /\ \A r \in 1 .. launches : names'[r] = names[r]
        /\ names'[launches + 1] = n
    BY <2>1, <1>t, NamesStand
  <2>3. /\ webpage'.account = webpage.account /\ webpage'.quotas = webpage.quotas
        /\ webpage'.run = launches + 1 /\ webpage'.name = n /\ webpage'.watched = TRUE
        /\ webpage'.told = "" /\ webpage'.confirmed = webpage.confirmed
    BY <2>1, <1>t DEF AccountTypes, PageOf
  <2>4. launches \in Nat /\ DOMAIN homes \subseteq 1 .. launches
    BY <1>t DEF AccountTypes
  <2>5. AccountTypes'
    <3>1. launches' \in Nat /\ launches' \in 0 .. launches'
      BY <2>1, <2>4
    <3>2. webpage' \in PageOf(0 .. launches')
      <4>1. webpage \in PageOf(0 .. launches)
        BY <1>t DEF AccountTypes
      <4>2. QED
        BY <2>1, <3>1, <4>1 DEF PageOf
    <3>3. DOMAIN homes' \subseteq 1 .. launches'
      BY <2>1, <2>4
    <3>4. names' \in Seq(RunNames) /\ Len(names') = launches'
      BY <2>1, <2>2
    <3>5. (\A v \in verifying' : v.account \in Accounts) /\ quotaReads' \subseteq Accounts
      BY <2>1, <1>t DEF AccountTypes, PageOf
    <3>6. QED
      BY <3>1, <3>2, <3>3, <3>4, <3>5, <1>t DEF AccountTypes
  <2>6. RunsInv'
    <3>1. \A k \in 1 .. launches : k \in 1 .. launches' /\ names'[k] = names[k]
      BY <2>1, <2>2, <2>4
    <3>2. \A l \in lookups' : l.run \in 1 .. launches' /\ l.host[1] = names'[l.run]
      BY <2>1, <3>1, <1>r DEF RunsInv
    <3>3. \A x \in records' : x.run \in 1 .. launches' /\ x.host[1] = SlugOf[names'[x.run]]
      BY <2>1, <3>1, <1>r DEF RunsInv
    <3>4. webpage'.name = names'[webpage'.run]
      BY <2>2, <2>3
    <3>5. QED
      BY <3>2, <3>3, <3>4, <1>r DEF RunsInv
  <2>7. "lookup" \notin mixed => lookups = {}
    <3>1. ASSUME "lookup" \notin mixed, NEW l \in lookups PROVE FALSE
      <4>1. l.run = 0
        BY <2>1, <3>1, <1>o DEF OverlapInv
      <4>2. l.run \in 1 .. launches
        BY <3>1, <1>r DEF RunsInv
      <4>3. QED
        BY <1>n, <4>1, <4>2
    <3>2. QED
      BY <3>1
  <2>8. OverlapInv'
    BY <2>1, <2>3, <2>4, <2>7, <1>o DEF OverlapInv
  <2>9. ~ (webpage.confirmed /\ "lookup" \notin mixed)
    BY <2>1, <1>p DEF PageIsTruthful, ConfirmedIsThisRun
  <2>10. PageIsTruthful'
    BY <2>1, <2>3, <2>9, <1>p DEF PageIsTruthful, QuotasAreOfTheAccount, ConfirmedIsThisRun, ReapedIsTrue
  <2>11. QED
    BY <2>5, <2>6, <2>8, <2>10 DEF AccountInv
<1>8. ASSUME NEW r \in 1 .. MaxLaunches, Registers(r) PROVE AccountInv'
  <2> DEFINE host == SporeHostName(SlugOf[names[r]], homes[r])
  <2>1. /\ r \in DOMAIN homes
        /\ records' = {x \in records : x.host # host} \cup {[host |-> host, run |-> r]}
        /\ UNCHANGED <<verifying, webpage, quotaReads, lookups, launches, homes, names, mixed>>
    BY <1>8 DEF Registers
  <2>2. r \in 1 .. launches /\ host[1] = SlugOf[names[r]]
    BY <2>1, <1>t DEF AccountTypes, SporeHostName
  <2> HIDE DEF host
  <2>3. \A x \in records' : x.run \in 1 .. launches /\ x.host[1] = SlugOf[names[x.run]]
    BY <2>1, <2>2, <1>r DEF RunsInv
  <2>4. QED
    BY <2>1, <2>3, <1>t, <1>r, <1>o, <1>p DEF AccountTypes, RunsInv, OverlapInv, AccountInv, PageIsTruthful,
       QuotasAreOfTheAccount, ConfirmedIsThisRun, ReapedIsTrue
<1>9. ASSUME NEW r \in 1 .. MaxLaunches, Terminates(r) PROVE AccountInv'
  <2>1. /\ homes' = [k \in DOMAIN homes \ {r} |-> homes[k]] /\ records' \subseteq records
        /\ UNCHANGED <<verifying, webpage, quotaReads, lookups, launches, names, mixed>>
    BY <1>9 DEF Terminates, Restrict
  <2>2. DOMAIN homes' \subseteq DOMAIN homes /\ \A k \in DOMAIN homes' : homes'[k] = homes[k]
    BY <2>1
  <2>3. QED
    BY <2>1, <2>2, <1>t, <1>r, <1>o, <1>p DEF AccountTypes, RunsInv, OverlapInv, AccountInv, PageIsTruthful,
       QuotasAreOfTheAccount, ConfirmedIsThisRun, ReapedIsTrue
<1>10. CASE CheckDns
  <2>1. /\ webpage.watched
        /\ lookups' = lookups \cup {[run |-> webpage.run, host |-> SporeHostName(webpage.name, webpage.account)]}
        /\ UNCHANGED <<verifying, webpage, quotaReads, launches, homes, names, records, mixed>>
    BY <1>10 DEF CheckDns
  <2>2. webpage.run \in 1 .. launches /\ webpage.name = names[webpage.run]
    <3>1. webpage.run # 0
      BY <2>1, <1>o DEF OverlapInv
    <3>2. webpage.name = names[webpage.run]
      BY <3>1, <1>r DEF RunsInv
    <3>3. webpage.run \in 1 .. launches
      BY <1>n, <3>1
    <3>4. QED
      BY <3>2, <3>3
  <2>3. \A l \in lookups' : l.run \in 1 .. launches /\ l.host[1] = names[l.run]
    BY <2>1, <2>2, <1>r DEF RunsInv, SporeHostName
  <2>4. "lookup" \notin mixed => \A l \in lookups' : l.run = webpage.run
    <3>1. "lookup" \notin mixed => \A l \in lookups : l.run = webpage.run
      BY <1>o DEF OverlapInv
    <3>2. QED
      BY <2>1, <3>1
  <2>5. QED
    BY <2>1, <2>3, <2>4, <1>t, <1>r, <1>o, <1>p DEF AccountTypes, RunsInv, OverlapInv, AccountInv, PageIsTruthful,
       QuotasAreOfTheAccount, ConfirmedIsThisRun, ReapedIsTrue
<1>11. CASE NoLongerVisible
  <2>1. /\ webpage.watched /\ ~ Visible /\ webpage' = [webpage EXCEPT !.watched = FALSE, !.told = "reaped"]
        /\ UNCHANGED <<verifying, quotaReads, lookups, launches, homes, names, records, mixed>>
    BY <1>11 DEF NoLongerVisible
  <2>2. /\ webpage'.account = webpage.account /\ webpage'.quotas = webpage.quotas
        /\ webpage'.run = webpage.run /\ webpage'.name = webpage.name /\ webpage'.watched = FALSE
        /\ webpage'.told = "reaped" /\ webpage'.confirmed = webpage.confirmed
    BY <2>1, <1>t DEF AccountTypes, PageOf
  <2>3. AccountTypes'
    BY <2>1, <1>t DEF AccountTypes, PageOf
  <2>4. RunsInv' /\ OverlapInv'
    BY <2>1, <2>2, <1>r, <1>o DEF RunsInv, OverlapInv
  <2>5. "account" \notin mixed => webpage.run \notin DOMAIN homes
    BY <2>1, <1>o DEF OverlapInv, Visible
  <2>6. PageIsTruthful'
    BY <2>1, <2>2, <2>5, <1>p DEF PageIsTruthful, QuotasAreOfTheAccount, ConfirmedIsThisRun, ReapedIsTrue
  <2>7. QED
    BY <2>3, <2>4, <2>6 DEF AccountInv
<1>12. ASSUME NEW l \in lookups, Resolves(l) \/ LookupFails(l) PROVE AccountInv'
  <2>1. /\ lookups' = lookups \ {l}
        /\ UNCHANGED <<verifying, quotaReads, launches, homes, names, records, mixed>>
        /\ \/ webpage' = [webpage EXCEPT !.confirmed = @ \/ l.run \in ResolveA(l.host)]
           \/ webpage' = webpage
    BY <1>12 DEF Resolves, LookupFails
  <2>2. /\ webpage'.account = webpage.account /\ webpage'.quotas = webpage.quotas
        /\ webpage'.run = webpage.run /\ webpage'.name = webpage.name /\ webpage'.watched = webpage.watched
        /\ webpage'.told = webpage.told
        /\ webpage'.confirmed => webpage.confirmed \/ l.run \in ResolveA(l.host)
    BY <2>1, <1>t DEF AccountTypes, PageOf
  <2>3. AccountTypes'
    BY <2>1, <1>t DEF AccountTypes, PageOf
  <2>4. RunsInv' /\ OverlapInv'
    BY <2>1, <2>2, <1>r, <1>o DEF RunsInv, OverlapInv
  <2>5. ASSUME l.run \in ResolveA(l.host), "lookup" \notin mixed
        PROVE  webpage.run # 0 /\ SlugOf[webpage.name] = webpage.name /\ webpage.name = names[webpage.run]
    <3>1. PICK x \in records : x.host = l.host /\ x.run = l.run
      BY <2>5 DEF ResolveA
    <3>2. names[l.run] = SlugOf[names[l.run]] /\ l.run \in 1 .. launches
      BY <3>1, <1>r DEF RunsInv
    <3>3. l.run = webpage.run
      BY <2>5, <1>o DEF OverlapInv
    <3>4. QED
      BY <3>2, <3>3, <1>r DEF RunsInv
  <2>6. PageIsTruthful'
    BY <2>1, <2>2, <2>5, <1>p DEF PageIsTruthful, QuotasAreOfTheAccount, ConfirmedIsThisRun, ReapedIsTrue
  <2>7. QED
    BY <2>3, <2>4, <2>6 DEF AccountInv
<1>13. CASE RunReset
  <2>1. /\ ~ webpage.watched
        /\ webpage' = [webpage EXCEPT !.run = 0, !.name = "", !.told = "", !.confirmed = FALSE]
        /\ mixed' = mixed \cup (IF lookups # {} THEN {"lookup"} ELSE {})
        /\ UNCHANGED <<verifying, quotaReads, lookups, launches, homes, names, records>>
    BY <1>13 DEF RunReset
  <2>2. /\ webpage'.account = webpage.account /\ webpage'.quotas = webpage.quotas
        /\ webpage'.run = 0 /\ webpage'.watched = FALSE /\ webpage'.told = "" /\ webpage'.confirmed = FALSE
    BY <2>1, <1>t DEF AccountTypes, PageOf
  <2>3. AccountTypes'
    <3>1. 0 \in 0 .. launches
      BY <1>n
    <3>2. webpage' \in PageOf(0 .. launches')
      BY <2>1, <1>n, <3>1 DEF PageOf
    <3>3. QED
      BY <2>1, <3>2, <1>t DEF AccountTypes
  <2>4. RunsInv' /\ OverlapInv'
    BY <2>1, <2>2, <1>r, <1>o DEF RunsInv, OverlapInv
  <2>5. PageIsTruthful'
    BY <2>1, <2>2, <1>p DEF PageIsTruthful, QuotasAreOfTheAccount, ConfirmedIsThisRun, ReapedIsTrue
  <2>6. QED
    BY <2>3, <2>4, <2>5 DEF AccountInv
<1>14. QED
  BY <1>1, <1>2, <1>3, <1>4, <1>5, <1>6, <1>7, <1>8, <1>9, <1>10, <1>11, <1>12, <1>13 DEF AccountNext

(***************************************************************************)
(* What the direct page says of the account is true: its quotas are of the *)
(* account it is connected to, "confirmed" is of the run it shows, and     *)
(* "reaped" is so, unless answers overlapped (demo/direct/main.ts:277,     *)
(* 459, 489, 518).                                                         *)
(***************************************************************************)
LEMMA AccountAlwaysTrue == FrontSpec => []PageIsTruthful
<1>1. FrontInit => AccountInv
  BY AccountStarts DEF FrontInit
<1>2. AccountInv /\ [FrontNext]_FrontVars => AccountInv'
  <2>1. [FrontNext]_FrontVars => [AccountNext]_accountVars
    BY DEF FrontNext, FrontVars, Only
  <2>2. QED
    BY <2>1, AccountSteps
<1>3. AccountInv => PageIsTruthful
  BY DEF AccountInv
<1>4. QED
  BY <1>1, <1>2, <1>3, PTL DEF FrontSpec

-----------------------------------------------------------------------------
(***************************************************************************)
(* Plug-ins.  A set of places that is in turn is counted through, and the  *)
(* parse of a tag says of each field what the last part of it says.        *)
(***************************************************************************)
\* A set of numbers has a least one.
LEMMA FirstOne ==
  ASSUME NEW S, S \subseteq Nat, S # {}
  PROVE  \E x \in S : \A y \in S : x <= y
<1> DEFINE R == {p \in Nat \X Nat : p[1] < p[2]}
<1>1. IsWellFoundedOn(R, Nat)
  BY NatLessThanWellFounded, Zenon DEF OpToRel
<1>2. PICK x \in S : \A y \in S : ~ (<<y, x>> \in R)
  <2> HIDE DEF R
  <2>1. QED
    BY <1>1, WFMin
<1>3. ASSUME NEW y \in S PROVE x <= y
  <2>1. y \in Nat /\ x \in Nat /\ <<y, x>> \notin R
    BY <1>2
  <2>2. ~ (y < x)
    BY <2>1
  <2>3. QED
    BY <2>1, <2>2
<1>4. QED
  BY <1>3

\* A set of numbers up to n has a greatest one.
LEMMA LastOne ==
  ASSUME NEW n \in Nat, NEW S, S \subseteq 1 .. n, S # {}
  PROVE  \E x \in S : \A y \in S : y <= x
<1> DEFINE B == {k \in Nat : \A y \in S : y <= k}
<1>1. n \in B /\ B \subseteq Nat
  OBVIOUS
<1> HIDE DEF B
<1>2. PICK k \in B : \A j \in B : k <= j
  BY <1>1, FirstOne
<1>3. k \in Nat /\ \A y \in S : y <= k
  BY <1>2 DEF B
<1>4. k \in S
  <2> SUFFICES ASSUME k \notin S PROVE FALSE
    OBVIOUS
  <2>1. \A y \in S : y <= k - 1 /\ y >= 1
    BY <1>3
  <2>2. k - 1 \in Nat
    <3>1. PICK y \in S : y \in 1 .. n
      OBVIOUS
    <3>2. y <= k - 1 /\ y >= 1
      BY <2>1
    <3>3. QED
      BY <1>3, <3>1, <3>2
  <2>3. k - 1 \in B
    BY <2>1, <2>2 DEF B
  <2>4. QED
    BY <1>2, <1>3, <2>3
<1>5. QED
  BY <1>3, <1>4

\* All the places in turn are the places.
LEMMA AllInTurn ==
  ASSUME NEW n \in Nat, NEW s \in InTurn(1 .. n)
  PROVE  DOMAIN s = 1 .. n /\ \A k \in 1 .. n : s[k] = k
<1>1. Cardinality(1 .. n) = n
  BY FS_Interval
<1>2. /\ s \in [1 .. n -> 1 .. n]
      /\ \A k \in 1 .. n : \E j \in 1 .. n : s[j] = k
      /\ \A a, b \in 1 .. n : a < b => s[a] < s[b]
  BY <1>1 DEF InTurn, Range
<1> DEFINE Moved == {k \in 1 .. n : s[k] # k}
<1>3. Moved = {}
  <2> SUFFICES ASSUME Moved # {} PROVE FALSE
    OBVIOUS
  <2>1. Moved \subseteq Nat
    OBVIOUS
  <2> HIDE DEF Moved
  <2>2. PICK i \in Moved : \A k \in Moved : i <= k
    BY <2>1, FirstOne
  <2>3. i \in 1 .. n /\ s[i] # i
    BY <2>2 DEF Moved
  <2>4. ASSUME NEW k \in 1 .. n, k < i PROVE s[k] = k
    BY <2>2, <2>3, <2>4 DEF Moved
  <2>5. s[i] > i
    <3>1. s[i] \in 1 .. n
      BY <1>2, <2>3
    <3>2. ~ (s[i] < i)
      <4> SUFFICES ASSUME s[i] < i PROVE FALSE
        OBVIOUS
      <4>1. s[s[i]] = s[i]
        BY <2>4, <3>1
      <4>2. s[s[i]] < s[i]
        BY <1>2, <2>3, <3>1
      <4>3. QED
        BY <3>1, <4>1, <4>2
    <3>3. QED
      BY <2>3, <3>1, <3>2
  <2>6. PICK j \in 1 .. n : s[j] = i
    BY <1>2, <2>3
  <2>7. ~ (j < i)
    BY <2>3, <2>4, <2>6
  <2>8. j # i
    BY <2>3, <2>6
  <2>9. i < j
    BY <2>3, <2>7, <2>8
  <2>10. s[i] < s[j]
    BY <1>2, <2>3, <2>9
  <2>11. QED
    <3>1. s[i] \in 1 .. n
      BY <1>2, <2>3
    <3>2. QED
      BY <2>3, <2>5, <2>6, <2>10, <3>1
<1>4. QED
  BY <1>2, <1>3

\* What is declarable is a name of its own.
LEMMA DeclarableName ==
  ASSUME NEW ref, Reason(ref) = ""
  PROVE  Len(PluginRefName(ref)) = 1 /\ PluginRefName(ref)[1] \in Declarable
BY PluginConstants DEF Reason

PluginInv ==
    /\ PluginTypeOK /\ DeclaredInFull
    /\ launched = "asked" => reasons = <<>>
    /\ \A r \in Range(declared) : Reason(r) = ""
    /\ \A name \in DOMAIN tagged : tagged[name] \in Values

\* Nothing is declared, nothing installed.
LEMMA PluginStarts == PluginInit => PluginInv
BY NothingInEmpty DEF PluginInit, PluginInv, PluginTypeOK, DeclaredInFull

\* Every step keeps it.
LEMMA PluginSteps == PluginInv /\ [PluginNext]_pluginVars => PluginInv'
<1> SUFFICES ASSUME PluginInv, [PluginNext]_pluginVars PROVE PluginInv'
  OBVIOUS
<1>0. refs \in Refs /\ refs \in Seq(Seq(STRING) \ {<<>>})
  BY PluginConstants DEF PluginInv, PluginTypeOK
<1>1. CASE UNCHANGED pluginVars
  BY <1>1 DEF PluginInv, PluginTypeOK, DeclaredInFull, pluginVars
<1>2. CASE LaunchRefuses
  <2>1. PICK s \in InTurn(RejectedAt) : reasons' = [k \in DOMAIN s |-> <<refs[s[k]], Reason(refs[s[k]])>>]
    BY <1>2 DEF LaunchRefuses
  <2>2. /\ RejectedAt # {} /\ launched' = "refused"
        /\ UNCHANGED <<refs, declared, installed, tagged, pluginPage>>
    BY <1>2 DEF LaunchRefuses
  <2>3. s \in [1 .. Cardinality(RejectedAt) -> RejectedAt]
    BY DEF InTurn
  <2>4. \A k \in DOMAIN reasons' : reasons'[k][2] # ""
    <3>1. \A k \in DOMAIN s : s[k] \in RejectedAt
      BY <2>3
    <3>2. \A i \in RejectedAt : Reason(refs[i]) # ""
      BY DEF RejectedAt, AcceptedAt
    <3>3. QED
      BY <2>1, <3>1, <3>2
  <2>5. Cardinality(RejectedAt) \in Nat /\ Cardinality(RejectedAt) # 0
    <3>1. IsFiniteSet(DOMAIN refs)
      BY <1>0, FS_Interval
    <3>2. IsFiniteSet(RejectedAt)
      BY <3>1, FS_Subset DEF RejectedAt
    <3>3. QED
      BY <2>2, <3>2, FS_CardinalityType, FS_EmptySet
  <2>6. 1 \in DOMAIN reasons'
    BY <2>1, <2>3, <2>5
  <2>7. reasons' # <<>>
    BY <2>6, NothingInEmpty
  <2>8. QED
    BY <2>2, <2>4, <2>7 DEF PluginInv, PluginTypeOK, DeclaredInFull
<1>3. CASE DeclaresThem
  <2>1. PICK s \in InTurn(AcceptedAt) : declared' = [k \in DOMAIN s |-> refs[s[k]]]
    BY <1>3 DEF DeclaresThem
  <2>2. /\ RejectedAt = {} /\ launched' = "launched"
        /\ UNCHANGED <<refs, reasons, installed, tagged, pluginPage>>
    BY <1>3 DEF DeclaresThem
  <2>3. AcceptedAt = 1 .. Len(refs) /\ Len(refs) \in Nat
    <3>1. DOMAIN refs = 1 .. Len(refs) /\ Len(refs) \in Nat
      BY <1>0
    <3>2. AcceptedAt = DOMAIN refs
      BY <2>2 DEF AcceptedAt, RejectedAt
    <3>3. QED
      BY <3>1, <3>2
  <2>4. DOMAIN s = 1 .. Len(refs) /\ \A k \in 1 .. Len(refs) : s[k] = k
    BY <2>3, AllInTurn
  <2>5. declared' = [k \in 1 .. Len(refs) |-> refs[k]]
    BY <2>1, <2>4
  <2>6. declared' = refs
    BY <1>0, <2>5
  <2>7. \A r \in Range(declared') : Reason(r) = ""
    BY <2>3, <2>5 DEF AcceptedAt, Range
  <2>8. QED
    BY <2>2, <2>6, <2>7 DEF PluginInv, PluginTypeOK, DeclaredInFull
<1>4. CASE SporedInstalls
  <2>1. /\ installed' \subseteq {PluginRefName(r)[1] : r \in Range(declared)}
        /\ UNCHANGED <<refs, launched, reasons, declared, tagged, pluginPage>>
    BY <1>4 DEF SporedInstalls
  <2>2. \A r \in Range(declared) : PluginRefName(r)[1] \in Declarable
    BY DeclarableName DEF PluginInv
  <2>3. installed' \subseteq Declarable
    BY <2>1, <2>2
  <2>4. QED
    BY <2>1, <2>3 DEF PluginInv, PluginTypeOK, DeclaredInFull
<1>5. CASE CliInstalls
  <2>1. PICK name \in PushDependent \cup {""}, value \in Values :
           /\ installed' = installed \cup ({name} \ {""})
           /\ tagged' \in {[n \in {name} |-> value], tagged}
    BY <1>5 DEF CliInstalls
  <2>2. UNCHANGED <<refs, launched, reasons, declared, pluginPage>>
    BY <1>5 DEF CliInstalls
  <2>3. \A n \in DOMAIN tagged' : tagged'[n] \in Values
    BY <2>1 DEF PluginInv
  <2>4. installed' \subseteq Declarable \cup PushDependent
    BY <2>1 DEF PluginInv, PluginTypeOK
  <2>5. QED
    BY <2>2, <2>3, <2>4 DEF PluginInv, PluginTypeOK, DeclaredInFull
<1>6. CASE StatusAsked
  BY <1>6 DEF StatusAsked, PluginInv, PluginTypeOK, DeclaredInFull
<1>7. QED
  BY <1>1, <1>2, <1>3, <1>4, <1>5, <1>6 DEF PluginNext
\* The fields that the parser knows.
Spoken == {"version", "sha256", "commit", "verify"}
TierOf(val) == IF val \in Tiers THEN val ELSE "unknown"

\* One part sets the field it names, or is noted among the others.
LEMMA TakenPart ==
  ASSUME NEW out, DOMAIN out = DOMAIN Unread, out.parsed \in BOOLEAN, NEW part \in Part,
         part.key = "blank" => part.val = Bare
  PROVE  LET new == TakePart(out, part) IN
           /\ DOMAIN new = DOMAIN Unread /\ new.parsed \in BOOLEAN
           /\ new.parsed <=> out.parsed \/ part.val # Bare
           /\ new.verify = IF part.key = "verify" /\ part.val # Bare THEN TierOf(part.val) ELSE out.verify
           /\ new.extra = IF part.key = "blank" \/ (part.key \in Spoken /\ part.val # Bare) THEN out.extra
                          ELSE Noted(out.extra, part.key, IF part.val = Bare THEN "" ELSE part.val)
<1> DEFINE new == TakePart(out, part)
<1>1. DOMAIN out = {"version", "content", "commit", "verify", "extra", "parsed"}
  BY DEF Unread
<1>2. CASE part.key = "blank"
  BY <1>2 DEF TakePart
<1>3. CASE part.key # "blank" /\ part.val = Bare
  <2>1. new = [out EXCEPT !.extra = Noted(out.extra, part.key, "")]
    BY <1>3 DEF TakePart
  <2>2. QED
    BY <1>1, <1>3, <2>1
<1>4. CASE part.val # Bare /\ part.key = "version"
  <2>1. new = [out EXCEPT !.version = part.val, !.parsed = TRUE]
    BY <1>4 DEF TakePart
  <2>2. QED
    BY <1>1, <1>4, <2>1 DEF Spoken
<1>5. CASE part.val # Bare /\ part.key = "sha256"
  <2>1. new = [out EXCEPT !.content = Digest(part.val), !.parsed = TRUE]
    BY <1>5 DEF TakePart
  <2>2. QED
    BY <1>1, <1>5, <2>1 DEF Spoken
<1>6. CASE part.val # Bare /\ part.key = "commit"
  <2>1. new = [out EXCEPT !.commit = Digest(part.val), !.parsed = TRUE]
    BY <1>6 DEF TakePart
  <2>2. QED
    BY <1>1, <1>6, <2>1 DEF Spoken
<1>7. CASE part.val # Bare /\ part.key = "verify"
  <2>1. new = [out EXCEPT !.verify = TierOf(part.val), !.parsed = TRUE]
    BY <1>7 DEF TakePart, TierOf
  <2>2. QED
    BY <1>1, <1>7, <2>1 DEF Spoken
<1>8. CASE part.val # Bare /\ part.key \notin Spoken \cup {"blank"}
  <2>1. new = [out EXCEPT !.extra = Noted(out.extra, part.key, part.val), !.parsed = TRUE]
    BY <1>8 DEF TakePart, Spoken
  <2>2. QED
    BY <1>1, <1>8, <2>1 DEF Spoken
<1>9. part.val # Bare => part.key # "blank"
  OBVIOUS
<1>10. QED
  BY <1>2, <1>3, <1>4, <1>5, <1>6, <1>7, <1>8, <1>9 DEF Spoken

\* What is read from the first n parts of a value.
OfTier(value, i) == value[i].key = "verify" /\ value[i].val # Bare
OfExtra(value, i) == value[i].key \notin Spoken \cup {"blank"}

ReadSoFar(value, n, out) ==
    /\ DOMAIN out = DOMAIN Unread /\ out.parsed \in BOOLEAN
    /\ out.parsed <=> \E i \in 1 .. n : value[i].val # Bare
    /\ (\A i \in 1 .. n : ~ OfTier(value, i)) => out.verify = "unknown"
    /\ \A i \in 1 .. n :
          OfTier(value, i) /\ (\A j \in 1 .. n : OfTier(value, j) => j <= i) =>
            out.verify = TierOf(value[i].val)
    /\ \A k \in DOMAIN out.extra : out.extra[k] # "" => k \notin Spoken
    /\ \A i \in 1 .. n : OfExtra(value, i) => value[i].key \in DOMAIN out.extra
    /\ \A i \in 1 .. n :
          OfExtra(value, i) /\ (\A j \in 1 .. n : value[j].key = value[i].key => j <= i) =>
            out.extra[value[i].key] = IF value[i].val = Bare THEN "" ELSE value[i].val

\* The values of tags are sequences of parts.
LEMMA ValueIs ==
  ASSUME NEW value \in Values
  PROVE  /\ Len(value) \in Nat /\ DOMAIN value = 1 .. Len(value)
         /\ \A n \in DOMAIN value : value[n] \in Part /\ n \in Nat /\ n >= 1
<1>1. value \in Seq(Part)
  BY PluginConstants
<1>2. Len(value) \in Nat /\ DOMAIN value = 1 .. Len(value)
  BY <1>1
<1>3. QED
  BY <1>1, <1>2

\* The next part keeps it.
LEMMA ReadFurther ==
  ASSUME NEW value \in Values, NEW n \in DOMAIN value, NEW out, ReadSoFar(value, n - 1, out)
  PROVE  ReadSoFar(value, n, TakePart(out, value[n]))
<1> DEFINE new == TakePart(out, value[n])
<1>1. n \in Nat /\ n >= 1 /\ value[n] \in Part
  BY ValueIs
<1>2. value[n].key = "blank" => value[n].val = Bare
  BY PluginConstants
<1>3. DOMAIN out = DOMAIN Unread /\ out.parsed \in BOOLEAN
  BY DEF ReadSoFar
<1>4. /\ DOMAIN new = DOMAIN Unread /\ new.parsed \in BOOLEAN
      /\ new.parsed <=> out.parsed \/ value[n].val # Bare
      /\ new.verify = IF OfTier(value, n) THEN TierOf(value[n].val) ELSE out.verify
      /\ new.extra = IF value[n].key = "blank" \/ (value[n].key \in Spoken /\ value[n].val # Bare) THEN out.extra
                     ELSE Noted(out.extra, value[n].key, IF value[n].val = Bare THEN "" ELSE value[n].val)
  BY <1>1, <1>2, <1>3, TakenPart DEF OfTier
<1> HIDE DEF new
<1>5. \A i : i \in 1 .. n <=> i \in 1 .. n - 1 \/ i = n
  BY <1>1
<1>6. \A i \in 1 .. n - 1 : i <= n /\ ~ (n <= i)
  BY <1>1
<1>7. new.parsed <=> \E i \in 1 .. n : value[i].val # Bare
  BY <1>4, <1>5 DEF ReadSoFar
<1>8. (\A i \in 1 .. n : ~ OfTier(value, i)) => new.verify = "unknown"
  BY <1>4, <1>5 DEF ReadSoFar
<1>9. ASSUME NEW i \in 1 .. n, OfTier(value, i), \A j \in 1 .. n : OfTier(value, j) => j <= i
      PROVE  new.verify = TierOf(value[i].val)
  BY <1>4, <1>5, <1>6, <1>9 DEF ReadSoFar
<1>10. CASE new.extra = out.extra /\ (value[n].key = "blank" \/ (value[n].key \in Spoken /\ value[n].val # Bare))
  <2>1. ~ OfExtra(value, n)
    BY <1>10 DEF OfExtra
  <2>2. ASSUME NEW i \in 1 .. n, OfExtra(value, i), \A j \in 1 .. n : value[j].key = value[i].key => j <= i
        PROVE  new.extra[value[i].key] = IF value[i].val = Bare THEN "" ELSE value[i].val
    BY <1>5, <1>10, <2>1, <2>2 DEF ReadSoFar
  <2>3. \A i \in 1 .. n : OfExtra(value, i) => value[i].key \in DOMAIN new.extra
    BY <1>5, <1>10, <2>1 DEF ReadSoFar
  <2>4. \A k \in DOMAIN new.extra : new.extra[k] # "" => k \notin Spoken
    BY <1>10 DEF ReadSoFar
  <2>5. ReadSoFar(value, n, new)
    BY <1>4, <1>7, <1>8, <1>9, <2>2, <2>3, <2>4 DEF ReadSoFar
  <2>6. QED
    BY <2>5 DEF new
<1>11. CASE /\ new.extra = Noted(out.extra, value[n].key, IF value[n].val = Bare THEN "" ELSE value[n].val)
            /\ value[n].key \in Spoken => value[n].val = Bare
  <2>1. /\ DOMAIN new.extra = DOMAIN out.extra \cup {value[n].key}
        /\ new.extra[value[n].key] = IF value[n].val = Bare THEN "" ELSE value[n].val
        /\ \A k \in DOMAIN out.extra : k # value[n].key => new.extra[k] = out.extra[k]
    BY <1>11 DEF Noted
  <2>2. ASSUME NEW i \in 1 .. n, OfExtra(value, i), \A j \in 1 .. n : value[j].key = value[i].key => j <= i
        PROVE  new.extra[value[i].key] = IF value[i].val = Bare THEN "" ELSE value[i].val
    <3>1. CASE i = n
      BY <2>1, <3>1
    <3>2. CASE i \in 1 .. n - 1
      <4>1. value[n].key # value[i].key
        BY <1>5, <1>6, <2>2, <3>2
      <4>2. value[i].key \in DOMAIN out.extra
        BY <2>2, <3>2 DEF ReadSoFar
      <4>3. out.extra[value[i].key] = IF value[i].val = Bare THEN "" ELSE value[i].val
        BY <1>5, <2>2, <3>2 DEF ReadSoFar
      <4>4. QED
        BY <2>1, <4>1, <4>2, <4>3
    <3>3. QED
      BY <1>5, <3>1, <3>2
  <2>3. \A i \in 1 .. n : OfExtra(value, i) => value[i].key \in DOMAIN new.extra
    BY <1>5, <2>1 DEF ReadSoFar
  <2>4. \A k \in DOMAIN new.extra : new.extra[k] # "" => k \notin Spoken
    BY <1>11, <2>1 DEF ReadSoFar
  <2>5. ReadSoFar(value, n, new)
    BY <1>4, <1>7, <1>8, <1>9, <2>2, <2>3, <2>4 DEF ReadSoFar
  <2>6. QED
    BY <2>5 DEF new
<1>12. QED
  BY <1>4, <1>10, <1>11 DEF new

\* The first m parts are taken one after the other.
ParsedTo(value, m, after) ==
    after = [n \in 0 .. m |-> IF n = 0 THEN Unread ELSE TakePart(after[n - 1], value[n])]

\* The recursion over the parts has a solution as far as there are parts.
LEMMA ParseExists ==
  ASSUME NEW value \in Values
  PROVE  \A m \in 0 .. Len(value) : \E after : ParsedTo(value, m, after)
<1> DEFINE None == {m \in 0 .. Len(value) : ~ \E after : ParsedTo(value, m, after)}
<1>1. Len(value) \in Nat /\ None \subseteq Nat
  BY ValueIs
<1> HIDE DEF None
<1>2. None = {}
  <2> SUFFICES ASSUME None # {} PROVE FALSE
    OBVIOUS
  <2>1. PICK m \in None : \A k \in None : m <= k
    BY <1>1, FirstOne
  <2>2. m \in 0 .. Len(value) /\ m \in Nat /\ ~ \E after : ParsedTo(value, m, after)
    BY <1>1, <2>1 DEF None
  <2>3. CASE m = 0
    <3> DEFINE after == [n \in 0 .. 0 |-> Unread]
    <3>1. after = [n \in 0 .. 0 |-> IF n = 0 THEN Unread ELSE TakePart(after[n - 1], value[n])]
      <4>1. \A n \in 0 .. 0 : n = 0
        OBVIOUS
      <4>2. QED
        BY <4>1
    <3>2. QED
      BY <2>2, <2>3, <3>1 DEF ParsedTo
  <2>4. CASE m > 0
    <3>1. m - 1 \in 0 .. Len(value) /\ m - 1 \notin None
      BY <1>1, <2>1, <2>2, <2>4
    <3>2. PICK before : ParsedTo(value, m - 1, before)
      BY <3>1 DEF None
    <3>3. before = [n \in 0 .. m - 1 |-> IF n = 0 THEN Unread ELSE TakePart(before[n - 1], value[n])]
      BY <3>2 DEF ParsedTo
    <3> DEFINE after == [n \in 0 .. m |-> IF n = m THEN TakePart(before[m - 1], value[m]) ELSE before[n]]
    <3>4. ASSUME NEW n \in 0 .. m
          PROVE  after[n] = IF n = 0 THEN Unread ELSE TakePart(after[n - 1], value[n])
      <4>1. CASE n = m
        <5>1. n # 0 /\ n - 1 \in 0 .. m /\ n - 1 # m
          BY <2>2, <2>4, <4>1
        <5>2. after[n - 1] = before[n - 1]
          BY <5>1
        <5>3. QED
          BY <4>1, <5>1, <5>2
      <4>2. CASE n # m /\ n = 0
        <5>1. n \in 0 .. m - 1
          BY <2>2, <2>4, <4>2
        <5>2. QED
          BY <3>3, <4>2, <5>1
      <4>3. CASE n # m /\ n # 0
        <5>1. n \in 0 .. m - 1 /\ n - 1 \in 0 .. m /\ n - 1 # m
          BY <2>2, <4>3
        <5>2. after[n] = before[n] /\ after[n - 1] = before[n - 1]
          BY <4>3, <5>1
        <5>3. before[n] = TakePart(before[n - 1], value[n])
          BY <3>3, <4>3, <5>1
        <5>4. QED
          BY <4>3, <5>2, <5>3
      <4>4. QED
        BY <4>1, <4>2, <4>3
    <3>5. ParsedTo(value, m, after)
      <4>1. after = [n \in 0 .. m |-> after[n]]
        OBVIOUS
      <4> HIDE DEF after
      <4>2. QED
        BY <3>4, <4>1 DEF ParsedTo
    <3>6. QED
      BY <2>2, <3>5
  <2>5. QED
    BY <2>2, <2>3, <2>4
<1>3. QED
  BY <1>2 DEF None

\* What is read in the end is read from all the parts.
LEMMA ParseTells ==
  ASSUME NEW value \in Values
  PROVE  ReadSoFar(value, Len(value), ParsePluginTag(value))
<1>1. Len(value) \in Nat /\ DOMAIN value = 1 .. Len(value)
  BY ValueIs
<1>2. PICK after : ParsedTo(value, Len(value), after) /\ ParsePluginTag(value) = after[Len(value)]
  <2> DEFINE all == CHOOSE after : ParsedTo(value, Len(value), after)
  <2>1. ParsedTo(value, Len(value), all)
    BY <1>1, ParseExists
  <2>2. ParsePluginTag(value) = all[Len(value)]
    BY DEF ParsePluginTag, ParsedTo
  <2>3. QED
    BY <2>1, <2>2
<1>3. /\ after[0] = Unread
      /\ \A n \in 1 .. Len(value) : after[n] = TakePart(after[n - 1], value[n])
  <2>1. after = [n \in 0 .. Len(value) |-> IF n = 0 THEN Unread ELSE TakePart(after[n - 1], value[n])]
    BY <1>2 DEF ParsedTo
  <2>2. 0 \in 0 .. Len(value) /\ \A n \in 1 .. Len(value) : n \in 0 .. Len(value) /\ n # 0
    BY <1>1
  <2>3. QED
    BY <2>1, <2>2
<1> DEFINE Untold == {n \in 0 .. Len(value) : ~ ReadSoFar(value, n, after[n])}
<1>4. Untold = {}
  <2> SUFFICES ASSUME Untold # {} PROVE FALSE
    OBVIOUS
  <2>1. Untold \subseteq Nat
    BY <1>1
  <2> HIDE DEF Untold
  <2>2. PICK n \in Untold : \A k \in Untold : n <= k
    BY <2>1, FirstOne
  <2>3. n \in 0 .. Len(value) /\ n \in Nat /\ ~ ReadSoFar(value, n, after[n])
    BY <2>1, <2>2 DEF Untold
  <2>4. n # 0
    <3>1. ReadSoFar(value, 0, Unread)
      BY NothingInEmpty DEF ReadSoFar, Unread
    <3>2. QED
      BY <1>3, <2>3, <3>1
  <2>5. n - 1 \in 0 .. Len(value) /\ n - 1 \notin Untold /\ n \in DOMAIN value
    BY <1>1, <2>2, <2>3, <2>4
  <2>6. ReadSoFar(value, n - 1, after[n - 1])
    BY <2>5 DEF Untold
  <2>7. ReadSoFar(value, n, TakePart(after[n - 1], value[n]))
    BY <2>5, <2>6, ReadFurther
  <2>8. QED
    BY <1>1, <1>3, <2>3, <2>5, <2>7
<1>5. QED
  BY <1>1, <1>2, <1>4

\* What the last of some places says.
LEMMA LastOfIs ==
  ASSUME NEW n \in Nat, NEW some, some \subseteq 1 .. n, some # {}, NEW value
  PROVE  \E i \in some : (\A j \in some : j <= i) /\ LastOf(value, some) = value[i].val
<1>1. PICK i \in some : \A j \in some : j <= i
  BY LastOne
<1>2. \A k \in some : (\A j \in some : j <= k) => k = i
  BY <1>1
<1>3. (CHOOSE k \in some : \A j \in some : j <= k) = i
  BY <1>1, <1>2
<1>4. QED
  BY <1>1, <1>3 DEF LastOf

\* The claims that are made of a plug-in, each a line.
Claim(a, b, p) ==
    \/ a = "version" /\ b = p.version
    \/ a = "verify" /\ b = p.verify
    \/ a = "sha256" /\ b = p.content /\ p.content # ""
    \/ a = "commit" /\ b = p.commit /\ p.commit # ""
    \/ a = "unrecognised" /\ b \in DOMAIN p.extra /\ p.extra[b] = ""
    \/ a \in DOMAIN p.extra /\ p.extra[a] # "" /\ b = p.extra[a]
    \/ a = "no readable provenance" /\ b = "" /\ ~ p.parsed

\* A line is one of the claims.
LEMMA LineIs ==
  ASSUME NEW name, NEW p, NEW a, NEW b
  PROVE  <<name, a, b>> \in LinesOf(name, p) <=> Claim(a, b, p)
<1> DEFINE Always == {<<name, "version", p.version>>, <<name, "verify", p.verify>>}
           Content == {<<name, "sha256", p.content>> : x \in IF p.content = "" THEN {} ELSE {1}}
           Commit == {<<name, "commit", p.commit>> : x \in IF p.commit = "" THEN {} ELSE {1}}
           Extra == {<<name, IF p.extra[k] = "" THEN "unrecognised" ELSE k, IF p.extra[k] = "" THEN k ELSE p.extra[k]>>
                       : k \in DOMAIN p.extra}
           Unreadable == {<<name, "no readable provenance", "">> : x \in IF p.parsed THEN {} ELSE {1}}
<1>1. <<name, a, b>> \in Always <=> (a = "version" /\ b = p.version) \/ (a = "verify" /\ b = p.verify)
  <2>1. <<name, a, b>> \in Always <=>
          <<name, a, b>> = <<name, "version", p.version>> \/ <<name, a, b>> = <<name, "verify", p.verify>>
    OBVIOUS
  <2>2. \A c, d : <<name, a, b>> = <<name, c, d>> <=> a = c /\ b = d
    OBVIOUS
  <2>3. QED
    BY <2>1, <2>2
<1>2. <<name, a, b>> \in Content <=> a = "sha256" /\ b = p.content /\ p.content # ""
  OBVIOUS
<1>3. <<name, a, b>> \in Commit <=> a = "commit" /\ b = p.commit /\ p.commit # ""
  OBVIOUS
<1>4. <<name, a, b>> \in Extra <=>
        \/ a = "unrecognised" /\ b \in DOMAIN p.extra /\ p.extra[b] = ""
        \/ a \in DOMAIN p.extra /\ p.extra[a] # "" /\ b = p.extra[a]
  <2>1. <<name, a, b>> \in Extra <=>
          \E k \in DOMAIN p.extra :
             /\ a = IF p.extra[k] = "" THEN "unrecognised" ELSE k
             /\ b = IF p.extra[k] = "" THEN k ELSE p.extra[k]
    OBVIOUS
  <2> HIDE DEF Extra
  <2>2. QED
    BY <2>1
<1>5. <<name, a, b>> \in Unreadable <=> a = "no readable provenance" /\ b = "" /\ ~ p.parsed
  OBVIOUS
<1>6. LinesOf(name, p) = Always \cup Content \cup Commit \cup Extra \cup Unreadable
  BY DEF LinesOf
<1> HIDE DEF Always, Content, Commit, Extra, Unreadable
<1>7. <<name, a, b>> \in LinesOf(name, p) <=>
        \/ <<name, a, b>> \in Always \/ <<name, a, b>> \in Content \/ <<name, a, b>> \in Commit
        \/ <<name, a, b>> \in Extra \/ <<name, a, b>> \in Unreadable
  BY <1>6
<1>8. QED
  BY <1>1, <1>2, <1>3, <1>4, <1>5, <1>7 DEF Claim

\* A line is of the plug-in it names.
LEMMA LineOfItsOwn ==
  ASSUME NEW name, NEW p, NEW line \in LinesOf(name, p)
  PROVE  line[1] = name
<1> DEFINE Extra == {<<name, IF p.extra[k] = "" THEN "unrecognised" ELSE k, IF p.extra[k] = "" THEN k ELSE p.extra[k]>>
                       : k \in DOMAIN p.extra}
<1>1. \/ \E a, b : line = <<name, a, b>>
      \/ line \in Extra
  BY DEF LinesOf
<1>2. line \in Extra => \E a, b : line = <<name, a, b>>
  OBVIOUS
<1>3. \A a, b : <<name, a, b>>[1] = name
  OBVIOUS
<1> HIDE DEF Extra
<1>4. QED
  BY <1>1, <1>2, <1>3

\* On the page, the lines of one plug-in are those of its own tag.
LEMMA LinesTogether ==
  ASSUME NEW name \in DOMAIN tagged \ {""}, NEW a, NEW b
  PROVE  <<name, a, b>> \in PluginLines <=> <<name, a, b>> \in LinesOf(name, ParsePluginTag(tagged[name]))
<1>1. /\ DOMAIN DetectPlugins = DOMAIN tagged \ {""}
      /\ \A m \in DOMAIN tagged \ {""} : DetectPlugins[m] = ParsePluginTag(tagged[m])
  BY DEF DetectPlugins
<1>2. PluginLines = UNION {LinesOf(m, DetectPlugins[m]) : m \in DOMAIN DetectPlugins}
  BY <1>1 DEF PluginLines
<1>3. <<name, a, b>> \in PluginLines <=>
        \E m \in DOMAIN tagged \ {""} : <<name, a, b>> \in LinesOf(m, DetectPlugins[m])
  BY <1>1, <1>2
<1>4. ASSUME NEW m, <<name, a, b>> \in LinesOf(m, DetectPlugins[m]) PROVE m = name
  <2>1. <<name, a, b>>[1] = m
    BY <1>4, LineOfItsOwn
  <2>2. QED
    BY <2>1
<1>5. QED
  BY <1>1, <1>3, <1>4

\* What is told of all the parts is what the page claims.
LEMMA ToldIsTrue ==
  ASSUME PluginInv, pluginPage = PluginLines, NEW name \in DOMAIN tagged \ {""}
  PROVE  LET value   == tagged[name]
             at(k)   == {i \in DOMAIN value : value[i].key = k}
             valued  == {i \in DOMAIN value : value[i].val # Bare}
             tiers   == at("verify") \cap valued
             unknown == {p.key : p \in Range(value)} \ {"blank", "verify", "version", "sha256", "commit"}
             said(k) == LastOf(value, at(k))
         IN  /\ \A v \in Tiers : <<name, "verify", v>> \in pluginPage <=> tiers # {} /\ LastOf(value, tiers) = v
             /\ \A k \in unknown :
                  \/ <<name, k, said(k)>> \in pluginPage
                  \/ said(k) \in {"", Bare} /\ <<name, "unrecognised", k>> \in pluginPage
             /\ <<name, "no readable provenance", "">> \in pluginPage <=> valued = {}
<1> DEFINE value   == tagged[name]
           at(k)   == {i \in DOMAIN value : value[i].key = k}
           valued  == {i \in DOMAIN value : value[i].val # Bare}
           tiers   == at("verify") \cap valued
           unknown == {p.key : p \in Range(value)} \ {"blank", "verify", "version", "sha256", "commit"}
           said(k) == LastOf(value, at(k))
           out     == ParsePluginTag(value)
           n       == Len(value)
<1>1. value \in Values
  BY DEF PluginInv
<1>2. n \in Nat /\ DOMAIN value = 1 .. n /\ ReadSoFar(value, n, out)
  BY <1>1, ValueIs, ParseTells
<1>3. \A a, b : <<name, a, b>> \in pluginPage <=> <<name, a, b>> \in LinesOf(name, out)
  BY LinesTogether
<1> HIDE DEF value, out, n
<1>4. ASSUME NEW v \in Tiers
      PROVE  <<name, "verify", v>> \in pluginPage <=> tiers # {} /\ LastOf(value, tiers) = v
  <2>1. <<name, "verify", v>> \in pluginPage <=> out.verify = v
    <3>1. Claim("verify", v, out) <=> out.verify = v
      BY <1>2 DEF ReadSoFar, Spoken, Claim
    <3>2. QED
      BY <1>3, <3>1, LineIs
  <2>2. \A i : i \in tiers <=> i \in 1 .. n /\ OfTier(value, i)
    BY <1>2 DEF OfTier
  <2> HIDE DEF tiers
  <2>3. CASE tiers = {}
    BY <1>2, <2>1, <2>2, <2>3 DEF ReadSoFar, Tiers
  <2>4. CASE tiers # {}
    <3>1. tiers \subseteq 1 .. n
      BY <2>2
    <3>2. PICK i \in tiers : (\A j \in tiers : j <= i) /\ LastOf(value, tiers) = value[i].val
      BY <1>2, <2>4, <3>1, LastOfIs
    <3>3. out.verify = TierOf(value[i].val)
      BY <1>2, <2>2, <3>2 DEF ReadSoFar
    <3>4. QED
      BY <2>1, <2>4, <3>2, <3>3 DEF TierOf, Tiers
  <2>5. QED
    BY <2>3, <2>4
<1>5. ASSUME NEW k \in unknown
      PROVE  \/ <<name, k, said(k)>> \in pluginPage
             \/ said(k) \in {"", Bare} /\ <<name, "unrecognised", k>> \in pluginPage
  <2>1. k \notin Spoken \cup {"blank"} /\ at(k) # {} /\ at(k) \subseteq 1 .. n
    BY <1>2 DEF Spoken, Range
  <2>2. PICK i \in at(k) : (\A j \in at(k) : j <= i) /\ said(k) = value[i].val
    <3> DEFINE some == at(k)
    <3>1. some \subseteq 1 .. n /\ some # {} /\ said(k) = LastOf(value, some)
      BY <2>1
    <3> HIDE DEF some
    <3>2. \E i \in some : (\A j \in some : j <= i) /\ LastOf(value, some) = value[i].val
      BY <1>2, <3>1, LastOfIs
    <3>3. QED
      BY <3>1, <3>2 DEF some
  <2>3. i \in 1 .. n /\ value[i].key = k /\ OfExtra(value, i)
    BY <1>2, <2>1 DEF OfExtra
  <2>4. \A j \in 1 .. n : value[j].key = value[i].key => j <= i
    BY <1>2, <2>2, <2>3
  <2>5. k \in DOMAIN out.extra /\ out.extra[k] = IF said(k) = Bare THEN "" ELSE said(k)
    BY <1>2, <2>2, <2>3, <2>4 DEF ReadSoFar
  <2> HIDE DEF said
  <2>6. CASE out.extra[k] = ""
    <3>1. Claim("unrecognised", k, out)
      BY <2>5, <2>6 DEF Claim
    <3>2. QED
      BY <1>3, <2>5, <2>6, <3>1, LineIs
  <2>7. CASE out.extra[k] # ""
    <3>1. Claim(k, out.extra[k], out)
      BY <2>5, <2>7 DEF Claim
    <3>2. QED
      BY <1>3, <2>5, <2>7, <3>1, LineIs
  <2>8. QED
    BY <2>6, <2>7
<1>6. <<name, "no readable provenance", "">> \in pluginPage <=> valued = {}
  <2>1. <<name, "no readable provenance", "">> \in LinesOf(name, out) <=> ~ out.parsed
    <3>1. Claim("no readable provenance", "", out) <=> ~ out.parsed
      BY DEF Claim
    <3>2. QED
      BY <3>1, LineIs
  <2>2. out.parsed <=> valued # {}
    BY <1>2 DEF ReadSoFar
  <2>3. QED
    BY <1>3, <2>1, <2>2
<1>7. QED
  BY <1>4, <1>5, <1>6 DEF value

\* What the invariant says of the page.
LEMMA PluginsAreToldThen == PluginInv => PluginsAreTold
<1> SUFFICES ASSUME PluginInv PROVE PluginsAreTold
  OBVIOUS
<1>1. ProvenanceIsTrue
  BY ToldIsTrue DEF ProvenanceIsTrue
<1>2. QED
  BY <1>1 DEF PluginInv, PluginsAreTold

\* The steps of the other parts leave the plug-ins alone.
LEMMA PluginsAlwaysTold == FrontSpec => []PluginsAreTold
<1>1. FrontInit => PluginInv
  BY PluginStarts DEF FrontInit
<1>2. PluginInv /\ [FrontNext]_FrontVars => PluginInv'
  <2>1. [FrontNext]_FrontVars => [PluginNext]_pluginVars
    BY DEF FrontNext, FrontVars, Only
  <2>2. QED
    BY <2>1, PluginSteps
<1>3. PluginInv => PluginsAreTold
  BY PluginsAreToldThen
<1>4. QED
  BY <1>1, <1>2, <1>3, PTL DEF FrontSpec

(***************************************************************************)
(* What is shown is so (ShownIsTrue): no launch drops a plug-in, and what  *)
(* a tag says of one is on the page, with the tier it names; and, but      *)
(* where answers for two accounts or two runs overlap, quotas, the         *)
(* confirmation of a name and the end of a run are those of the account    *)
(* and the run on the page (plugins.ts:36-139, client.ts:439-458,          *)
(* demo/direct/main.ts:277-518).                                           *)
(***************************************************************************)
THEOREM ShownAlwaysTrue == FrontSpec => []ShownIsTrue
<1>1. StatusInv => StatusTypeOK
  BY DEF StatusInv, StatusTypeOK, Asked
<1>2. StatusInv /\ PluginsAreTold /\ PageIsTruthful => ShownIsTrue
  BY <1>1 DEF ShownIsTrue
<1>3. QED
  BY <1>2, StatusAlwaysKept, PluginsAlwaysTold, AccountAlwaysTrue, PTL

-----------------------------------------------------------------------------
(***************************************************************************)
(* Tags.  What RunInstances gets and what spored writes later, together,   *)
(* are as many as a launch counts; the parameters of a sweep take what is  *)
(* left.                                                                   *)
(***************************************************************************)
BaseTags == {"Name", "managed", "launch-time", "compute-seconds", "os"}
AllKeys == BaseTags \cup BuildIdentityTags(TRUE) \cup Options \cup ArrayTags \cup SweepTags \cup SporedTags
           \cup {"ttl-deadline", "local-username", "config", "last-stop-time"}

\* Up to six more.
LEMMA SomeMore ==
  ASSUME NEW S, IsFiniteSet(S), NEW a, NEW b, NEW c, NEW d, NEW e, NEW f
  PROVE  IsFiniteSet(S \cup {a, b, c, d, e, f})
<1>1. IsFiniteSet(S \cup {a}) /\ IsFiniteSet(((S \cup {a}) \cup {b}))
  BY FS_AddElement
<1>2. IsFiniteSet((S \cup {a}) \cup {b} \cup {c}) /\ IsFiniteSet((S \cup {a}) \cup {b} \cup {c} \cup {d})
  BY <1>1, FS_AddElement
<1>3. IsFiniteSet((S \cup {a}) \cup {b} \cup {c} \cup {d} \cup {e})
  BY <1>2, FS_AddElement
<1>4. IsFiniteSet((S \cup {a}) \cup {b} \cup {c} \cup {d} \cup {e} \cup {f})
  BY <1>3, FS_AddElement
<1>5. (S \cup {a}) \cup {b} \cup {c} \cup {d} \cup {e} \cup {f} = S \cup {a, b, c, d, e, f}
  OBVIOUS
<1>6. QED
  BY <1>4, <1>5

\* There are only so many keys.
LEMMA KeysAreFinite == IsFiniteSet(AllKeys)
<1>1. IsFiniteSet({"dns-name", "ttl", "idle-timeout", "hibernate-on-idle", "idle-cpu", "spot-request-type"})
  <2>1. IsFiniteSet({} \cup {"dns-name", "ttl", "idle-timeout", "hibernate-on-idle", "idle-cpu", "spot-request-type"})
    BY FS_EmptySet, SomeMore
  <2>2. QED
    BY <2>1
<1>2. IsFiniteSet({"dns-name", "ttl", "idle-timeout", "hibernate-on-idle", "idle-cpu", "spot-request-type"}
        \cup {"cost-limit", "price-per-hour", "on-complete", "completion-file", "completion-delay", "session-timeout"})
  BY <1>1, SomeMore
<1>3. IsFiniteSet({"dns-name", "ttl", "idle-timeout", "hibernate-on-idle", "idle-cpu", "spot-request-type"}
        \cup {"cost-limit", "price-per-hour", "on-complete", "completion-file", "completion-delay", "session-timeout"}
        \cup {"pre-stop", "pre-stop-timeout", "spot-webhook-url", "webhook-correlation", "webhook-timeout", "notify-url"})
  BY <1>2, SomeMore
<1>4. IsFiniteSet({"dns-name", "ttl", "idle-timeout", "hibernate-on-idle", "idle-cpu", "spot-request-type"}
        \cup {"cost-limit", "price-per-hour", "on-complete", "completion-file", "completion-delay", "session-timeout"}
        \cup {"pre-stop", "pre-stop-timeout", "spot-webhook-url", "webhook-correlation", "webhook-timeout", "notify-url"}
        \cup {"notify-platform", "notify-command", "active-processes", "active-ports", "mpi-enabled", "mpi-processes-per-node"})
  BY <1>3, SomeMore
<1>5. IsFiniteSet(Options)
  <2>1. IsFiniteSet({"dns-name", "ttl", "idle-timeout", "hibernate-on-idle", "idle-cpu", "spot-request-type"}
        \cup {"cost-limit", "price-per-hour", "on-complete", "completion-file", "completion-delay", "session-timeout"}
        \cup {"pre-stop", "pre-stop-timeout", "spot-webhook-url", "webhook-correlation", "webhook-timeout", "notify-url"}
        \cup {"notify-platform", "notify-command", "active-processes", "active-ports", "mpi-enabled", "mpi-processes-per-node"}
        \cup {"job-array", "sweep", "sweep", "sweep", "sweep", "sweep"})
    BY <1>4, SomeMore
  <2>2. QED
    BY <2>1 DEF Options
<1>6. IsFiniteSet(Options \cup BaseTags)
  <2>1. IsFiniteSet(Options \cup {"Name", "managed", "launch-time", "compute-seconds", "os", "os"})
    BY <1>5, SomeMore
  <2>2. QED
    BY <2>1 DEF BaseTags
<1>7. IsFiniteSet(Options \cup BaseTags \cup BuildIdentityTags(TRUE))
  <2>1. IsFiniteSet(Options \cup BaseTags \cup {"managed", "root", "created-by", "version", "account-id", "account-base36"})
    BY <1>6, SomeMore
  <2>2. IsFiniteSet(Options \cup BaseTags \cup {"managed", "root", "created-by", "version", "account-id", "account-base36"}
          \cup {"iam-user", "account-name", "account-name", "account-name", "account-name", "account-name"})
    BY <2>1, SomeMore
  <2>3. QED
    BY <2>2 DEF BuildIdentityTags
<1>8. IsFiniteSet(Options \cup BaseTags \cup BuildIdentityTags(TRUE) \cup ArrayTags \cup SweepTags)
  <2>1. IsFiniteSet(Options \cup BaseTags \cup BuildIdentityTags(TRUE)
          \cup {"job-array-id", "job-array-name", "job-array-size", "job-array-index", "sweep-id", "sweep-name"})
    BY <1>7, SomeMore
  <2>2. IsFiniteSet(Options \cup BaseTags \cup BuildIdentityTags(TRUE)
          \cup {"job-array-id", "job-array-name", "job-array-size", "job-array-index", "sweep-id", "sweep-name"}
          \cup {"sweep-size", "sweep-index", "ttl-deadline", "local-username", "config", "last-stop-time"})
    BY <2>1, SomeMore
  <2> DEFINE some == Options \cup BaseTags \cup BuildIdentityTags(TRUE) \cup ArrayTags \cup SweepTags
             more == (Options \cup BaseTags \cup BuildIdentityTags(TRUE)
          \cup {"job-array-id", "job-array-name", "job-array-size", "job-array-index", "sweep-id", "sweep-name"}
          \cup {"sweep-size", "sweep-index", "ttl-deadline", "local-username", "config", "last-stop-time"})
  <2>3. some \in SUBSET more
    BY DEF ArrayTags, SweepTags
  <2>4. IsFiniteSet(more)
    BY <2>2
  <2> HIDE DEF some, more
  <2>5. IsFiniteSet(some)
    BY <2>3, <2>4, FS_Subset
  <2>6. QED
    BY <2>5 DEF some
<1>9. QED
  <2> DEFINE S == Options \cup BaseTags \cup BuildIdentityTags(TRUE) \cup ArrayTags \cup SweepTags
  <2>1. IsFiniteSet(S \cup {"compute-seconds", "last-heartbeat", "spored-version", "logged-in-count", "cost-footprint", "dns-status"})
    BY <1>8, SomeMore
  <2>2. IsFiniteSet(S \cup {"compute-seconds", "last-heartbeat", "spored-version", "logged-in-count", "cost-footprint", "dns-status"}
          \cup {"dns-error", "ttl-deadline", "local-username", "config", "last-stop-time", "last-stop-time"})
    BY <2>1, SomeMore
  <2>3. QED
    BY <2>2 DEF AllKeys, SporedTags

\* What an option needs and brings.
LEMMA OptionFacts ==
  ASSUME NEW o \in Options
  PROVE  /\ Needs(o) \in Options /\ (Needs(o) = "sweep" <=> o = "sweep")
         /\ o \in {"ttl", "job-array", "sweep"} => Needs(o) = o
         /\ o \notin {"ttl", "job-array", "sweep"} => Brings(o) = {o}
         /\ o = "ttl" => Brings(o) = {"ttl", "ttl-deadline"}
         /\ o = "job-array" => Brings(o) = ArrayTags
         /\ o = "sweep" => Brings(o) = SweepTags
BY DEF Options, Needs, Brings

\* The tags of the options that are written.
LEMMA BuildOf ==
  ASSUME NEW w \in SUBSET Options, NEW a \in BOOLEAN, NEW k
  PROVE  k \in BuildLaunchTags(w, a) <=>
           \/ k \in BaseTags \cup BuildIdentityTags(a)
           \/ k \in Written(w) \ {"job-array", "sweep"}
           \/ k = "ttl-deadline" /\ "ttl" \in w
           \/ k \in ArrayTags /\ "job-array" \in w
           \/ k \in SweepTags /\ "sweep" \in w
<1>1. k \in BuildLaunchTags(w, a) <=>
        k \in BaseTags \cup BuildIdentityTags(a) \/ \E o \in Written(w) : k \in Brings(o)
  BY DEF BuildLaunchTags, BaseTags
<1>2. Written(w) \subseteq Options /\ Written(w) \subseteq w
  BY DEF Written
<1>3. \A o \in {"ttl", "job-array", "sweep"} : o \in Written(w) <=> o \in w
  BY OptionFacts DEF Written
<1>4. (\E o \in Written(w) : k \in Brings(o)) <=>
           \/ k \in Written(w) \ {"job-array", "sweep"}
           \/ k = "ttl-deadline" /\ "ttl" \in w
           \/ k \in ArrayTags /\ "job-array" \in w
           \/ k \in SweepTags /\ "sweep" \in w
  <2>1. ASSUME NEW o \in Written(w), k \in Brings(o)
        PROVE  \/ k \in Written(w) \ {"job-array", "sweep"}
               \/ k = "ttl-deadline" /\ "ttl" \in w
               \/ k \in ArrayTags /\ "job-array" \in w
               \/ k \in SweepTags /\ "sweep" \in w
    BY <1>2, <1>3, <2>1, OptionFacts
  <2>2. ASSUME k \in Written(w) \ {"job-array", "sweep"} PROVE k \in Brings(k)
    BY <1>2, <2>2, OptionFacts
  <2>3. ASSUME "ttl" \in w PROVE "ttl" \in Written(w) /\ "ttl-deadline" \in Brings("ttl")
    BY <1>3, <2>3, OptionFacts
  <2>4. ASSUME "job-array" \in w PROVE "job-array" \in Written(w) /\ Brings("job-array") = ArrayTags
    BY <1>3, <2>4, OptionFacts
  <2>5. ASSUME "sweep" \in w PROVE "sweep" \in Written(w) /\ Brings("sweep") = SweepTags
    BY <1>3, <2>5, OptionFacts
  <2>6. QED
    BY <2>1, <2>2, <2>3, <2>4, <2>5
<1>5. QED
  BY <1>1, <1>4

\* Names that are told apart.
LEMMA KeysApart ==
  /\ \A k \in SweepTags : k \notin BaseTags \cup BuildIdentityTags(TRUE) \cup Options \cup ArrayTags \cup Settings
         \cup SporedTags \cup {"local-username", "config", "ttl-deadline"}
  /\ \A k \in ArrayTags : k \notin BaseTags \cup BuildIdentityTags(TRUE) \cup Options \cup Settings \cup SporedTags
         \cup {"local-username", "config", "ttl-deadline"}
  /\ \A k \in Options : k \notin BaseTags \cup BuildIdentityTags(TRUE) \cup SporedTags
         \cup {"local-username", "config", "ttl-deadline"}
  /\ \A k \in Settings : k \in Options \ {"ttl", "job-array", "sweep", "dns-name", "cost-limit"}
  /\ \A k \in {"config", "local-username", "ttl-deadline"} :
         k \notin BaseTags \cup BuildIdentityTags(TRUE) \cup SporedTags \cup Options
  /\ \A k \in SporedTags : k \notin BuildIdentityTags(TRUE) \cup Settings /\ (k \in BaseTags <=> k = "compute-seconds")
BY DEF SweepTags, BaseTags, BuildIdentityTags, Options, ArrayTags, Settings, SporedTags

\* Sets that have nothing in common.
LEMMA Together ==
  ASSUME NEW S, NEW T, IsFiniteSet(S), IsFiniteSet(T), \A x \in S : x \notin T
  PROVE  /\ IsFiniteSet(S \cup T) /\ Cardinality(S) \in Nat /\ Cardinality(T) \in Nat
         /\ Cardinality(S \cup T) = Cardinality(S) + Cardinality(T)
<1>1. S \cap T = {}
  OBVIOUS
<1>2. IsFiniteSet(S \cup T) /\ Cardinality(S \cup T) = Cardinality(S) + Cardinality(T) - Cardinality(S \cap T)
  BY FS_Union
<1>3. Cardinality(S) \in Nat /\ Cardinality(T) \in Nat
  BY FS_CardinalityType
<1>4. QED
  BY <1>1, <1>2, <1>3, FS_EmptySet

\* With a name a launch carries no fewer tags of its build.
LEMMA IdentityGrows == BuildIdentityTags(FALSE) \subseteq BuildIdentityTags(TRUE)
BY DEF BuildIdentityTags

\* A launch's tags with the parameters left aside.
Rest(w, a) == BuildLaunchTags(w \ {"sweep"}, a)
Count(w, a) == Cardinality(SentTags(w, a)) + Cardinality(TagReserve(SentTags(w, a)))

\* Launch tags are among the keys, and the object's tag is none of them.
LEMMA BuildKeys ==
  ASSUME NEW w \in SUBSET Options, NEW a \in BOOLEAN
  PROVE  /\ BuildLaunchTags(w, a) \in SUBSET AllKeys /\ SentTags(w, a) \in SUBSET AllKeys
         /\ TagReserve(SentTags(w, a)) \in SUBSET AllKeys
         /\ "config" \notin BuildLaunchTags(w, a) /\ "local-username" \notin BuildLaunchTags(w, a)
         /\ "compute-seconds" \in BuildLaunchTags(w, a)
<1>1. BuildIdentityTags(a) \subseteq BuildIdentityTags(TRUE)
  BY IdentityGrows
<1>2. Written(w) \subseteq Options
  BY DEF Written
<1>3. BuildLaunchTags(w, a) \in SUBSET AllKeys
  BY <1>1, <1>2, BuildOf DEF AllKeys
<1>4. ASSUME NEW k \in {"config", "local-username"} PROVE k \notin BuildLaunchTags(w, a)
  <2>1. k \notin BaseTags \cup BuildIdentityTags(TRUE) \cup Options \cup ArrayTags \cup SweepTags /\ k # "ttl-deadline"
    BY KeysApart
  <2>2. k \notin BaseTags \cup BuildIdentityTags(a) /\ k \notin Written(w)
    BY <1>1, <1>2, <2>1
  <2>3. QED
    BY <2>1, <2>2, BuildOf
<1>5. SentTags(w, a) \in SUBSET AllKeys
  BY <1>3 DEF SentTags, Split, AllKeys
<1>6. TagReserve(SentTags(w, a)) \in SUBSET AllKeys
  BY DEF TagReserve, AllKeys, SporedTags
<1>7. "compute-seconds" \in BuildLaunchTags(w, a)
  BY BuildOf DEF BaseTags
<1>8. QED
  BY <1>3, <1>4, <1>5, <1>6, <1>7

\* What is sent and what is kept free are apart, and both are finite.
LEMMA CountIsNat ==
  ASSUME NEW w \in SUBSET Options, NEW a \in BOOLEAN
  PROVE  /\ Count(w, a) \in Nat
         /\ Cardinality(SentTags(w, a)) \in Nat /\ Cardinality(TagReserve(SentTags(w, a))) \in Nat
         /\ Count(w, a) = Cardinality(SentTags(w, a) \cup TagReserve(SentTags(w, a)))
<1> DEFINE S == SentTags(w, a)
           R == TagReserve(S)
<1>1. IsFiniteSet(S) /\ IsFiniteSet(R) /\ Cardinality(S) \in Nat /\ Cardinality(R) \in Nat
  BY BuildKeys, KeysAreFinite, FS_Subset, FS_CardinalityType
<1>2. \A x \in S : x \notin R
  BY DEF TagReserve
<1>3. Cardinality(S \cup R) = Cardinality(S) + Cardinality(R)
  BY <1>1, <1>2, Together
<1>4. QED
  BY <1>1, <1>3 DEF Count

\* What the launch counts for the tags so far is what is sent of them.
LEMMA LaunchTagCountIs ==
  ASSUME NEW w \in SUBSET Options, NEW a \in BOOLEAN
  PROVE  LaunchTagCount(BuildLaunchTags(w, a)) = Cardinality(SentTags(w, a))
<1> DEFINE B == BuildLaunchTags(w, a)
           K == (B \cup {"local-username"}) \ Settings
<1>1. IsFiniteSet(K) /\ Cardinality(K) \in Nat
  <2>1. K \in SUBSET AllKeys
    BY BuildKeys DEF AllKeys
  <2>2. QED
    BY <2>1, KeysAreFinite, FS_Subset, FS_CardinalityType
<1>2. (B \cup {"local-username"}) \cap Settings = B \cap Settings
  BY KeysApart
<1>3. "config" \notin K
  BY BuildKeys
<1>4. CASE B \cap Settings = {}
  <2>1. SentTags(w, a) = K
    BY <1>2, <1>4 DEF SentTags, Split
  <2>2. QED
    BY <1>1, <1>4, <2>1 DEF LaunchTagCount
<1>5. CASE B \cap Settings # {}
  <2>1. SentTags(w, a) = K \cup {"config"}
    BY <1>2, <1>5 DEF SentTags, Split
  <2>2. Cardinality(K \cup {"config"}) = Cardinality(K) + 1
    BY <1>1, <1>3, FS_AddElement
  <2>3. QED
    BY <1>1, <1>5, <2>1, <2>2 DEF LaunchTagCount
<1>6. QED
  BY <1>4, <1>5

\* A sweep writes four tags of its own.
LEMMA SweepTagsAreFour == IsFiniteSet(SweepTags) /\ Cardinality(SweepTags) = 4
<1>1. IsFiniteSet({"sweep-id"}) /\ Cardinality({"sweep-id"}) = 1
  BY FS_Singleton
<1>2. IsFiniteSet({"sweep-id", "sweep-name"}) /\ Cardinality({"sweep-id", "sweep-name"}) = 2
  <2>1. {"sweep-id"} \cup {"sweep-name"} = {"sweep-id", "sweep-name"} /\ "sweep-name" \notin {"sweep-id"}
    OBVIOUS
  <2>2. QED
    BY <1>1, <2>1, FS_AddElement
<1>3. IsFiniteSet({"sweep-id", "sweep-name", "sweep-size"}) /\ Cardinality({"sweep-id", "sweep-name", "sweep-size"}) = 3
  <2>1. {"sweep-id", "sweep-name"} \cup {"sweep-size"} = {"sweep-id", "sweep-name", "sweep-size"}
        /\ "sweep-size" \notin {"sweep-id", "sweep-name"}
    OBVIOUS
  <2>2. QED
    BY <1>2, <2>1, FS_AddElement
<1>4. {"sweep-id", "sweep-name", "sweep-size"} \cup {"sweep-index"} = SweepTags
      /\ "sweep-index" \notin {"sweep-id", "sweep-name", "sweep-size"}
  BY DEF SweepTags
<1>5. QED
  BY <1>3, <1>4, FS_AddElement

\* A sweep is its four tags more, and keeps the same tags of spored waiting.
LEMMA SweepCounts ==
  ASSUME NEW w \in SUBSET Options, "sweep" \in w, NEW a \in BOOLEAN
  PROVE  LaunchTagCount(Rest(w, a)) + Cardinality(TagReserve(Rest(w, a))) + Cardinality(SweepTags) = Count(w, a)
<1> DEFINE r == w \ {"sweep"}
<1>1. r \in SUBSET Options
  OBVIOUS
<1>2. Written(r) = Written(w) \ {"sweep"}
  BY OptionFacts DEF Written
<1>3. BuildLaunchTags(w, a) = Rest(w, a) \cup SweepTags
  <2>1. \A k : k \in BuildLaunchTags(w, a) <=> k \in Rest(w, a) \cup SweepTags
    BY <1>1, <1>2, BuildOf DEF Rest
  <2>2. QED
    BY <2>1
<1>4. \A k \in SentTags(r, a) : k \notin SweepTags
  <2>1. \A k \in BuildLaunchTags(r, a) : k \notin SweepTags
    <3>1. Written(r) \subseteq Options /\ BuildIdentityTags(a) \subseteq BuildIdentityTags(TRUE) /\ "sweep" \notin r
      BY <1>1, IdentityGrows DEF Written
    <3>2. QED
      BY <1>1, <3>1, BuildOf, KeysApart
  <2>2. QED
    BY <2>1, KeysApart DEF SentTags, Split
<1>5. SentTags(w, a) = SentTags(r, a) \cup SweepTags
  BY <1>3, KeysApart DEF SentTags, Split, Rest
<1>6. Cardinality(SentTags(w, a)) = Cardinality(SentTags(r, a)) + 4
  <2>1. IsFiniteSet(SentTags(r, a)) /\ Cardinality(SentTags(r, a)) \in Nat
    BY <1>1, BuildKeys, KeysAreFinite, FS_Subset, FS_CardinalityType
  <2>2. Cardinality(SentTags(r, a) \cup SweepTags) = Cardinality(SentTags(r, a)) + 4
    BY <1>4, <2>1, SweepTagsAreFour, Together
  <2>3. QED
    BY <1>5, <2>1, <2>2
<1>7. TagReserve(SentTags(w, a)) = TagReserve(Rest(w, a))
  <2>1. \A k \in SporedTags \cup {"dns-name"} : k \in SentTags(w, a) <=> k \in Rest(w, a)
    <3>1. "local-username" \notin SporedTags /\ "config" \notin SporedTags /\ "dns-name" \notin SweepTags
      BY KeysApart DEF Options
    <3>2. \A k \in SporedTags \cup {"dns-name"} : k \notin SweepTags \cup Settings \cup {"local-username", "config"}
      BY <3>1, KeysApart
    <3>3. QED
      BY <1>3, <3>2 DEF SentTags, Split
  <2>2. QED
    BY <2>1 DEF TagReserve, SporedTags
<1>8. LaunchTagCount(Rest(w, a)) = Cardinality(SentTags(r, a))
  BY <1>1, LaunchTagCountIs DEF Rest
<1>9. Cardinality(SentTags(r, a)) \in Nat /\ Cardinality(TagReserve(SentTags(w, a))) \in Nat
  BY <1>1, CountIsNat
<1>10. QED
  BY <1>6, <1>7, <1>8, <1>9, SweepTagsAreFour DEF Count

\* The parameters that are carried: those that there is room for.
LEMMA CarriedIs ==
  ASSUME NEW l \in Launches, NEW a \in BOOLEAN
  PROVE  /\ Carried(l, a) \in 0 .. l.params
         /\ Count(l.want, a) <= Limit => Count(l.want, a) + Carried(l, a) <= Limit
         /\ Carried(l, a) < l.params => Count(l.want, a) + Carried(l, a) >= Limit
         /\ Count(l.want, a) > Limit => Carried(l, a) = 0
<1>1. l.want \in SUBSET Options /\ l.params \in Nat /\ ("sweep" \notin l.want => l.params = 0) /\ Limit \in Nat
  BY BudgetConstants
<1>2. Count(l.want, a) \in Nat
  BY <1>1, CountIsNat
<1>3. CASE "sweep" \notin l.want
  <2>1. Carried(l, a) = 0
    BY <1>3 DEF Carried
  <2>2. QED
    BY <1>1, <1>2, <1>3, <2>1
<1>4. CASE "sweep" \in l.want
  <2> DEFINE left == Limit - Count(l.want, a)
  <2>1. Carried(l, a) = IF left <= 0 THEN 0 ELSE IF l.params <= left THEN l.params ELSE left
    BY <1>1, <1>4, SweepCounts DEF Carried, Rest
  <2>2. QED
    BY <1>1, <1>2, <2>1
<1>5. QED
  BY <1>3, <1>4

\* checkTagLimit counts what is sent and what is yet to come.
LEMMA OverIs ==
  ASSUME NEW l \in Launches, NEW a \in BOOLEAN, NEW n \in Nat
  PROVE  OverLimit(SentTags(l.want, a), n) <=> Count(l.want, a) + n > Limit
<1> DEFINE x == Cardinality(SentTags(l.want, a))
           y == Cardinality(TagReserve(SentTags(l.want, a)))
<1>1. l.want \in SUBSET Options /\ Limit \in Nat
  BY BudgetConstants
<1>2. x \in Nat /\ y \in Nat
  BY <1>1, CountIsNat
<1>3. Count(l.want, a) = x + y /\ (OverLimit(SentTags(l.want, a), n) <=> x + n + y > Limit)
  BY DEF Count, OverLimit
<1> HIDE DEF x, y
<1>4. x + n + y > Limit <=> (x + y) + n > Limit
  BY <1>1, <1>2
<1>5. QED
  BY <1>3, <1>4, Zenon

\* The identity that is looked up has no more tags than its stand-in.
LEMMA StandInCountsMore ==
  ASSUME NEW w \in SUBSET Options, NEW a \in BOOLEAN
  PROVE  Count(w, a) <= Count(w, TRUE)
<1>1. CASE a = TRUE
  <2> DEFINE n == Count(w, TRUE)
  <2>1. n \in Nat
    BY CountIsNat, Zenon
  <2> HIDE DEF n
  <2>2. n <= n
    BY <2>1
  <2>3. QED
    BY <1>1, <2>2 DEF n
<1>2. CASE a = FALSE
  <2>1. \A k \in BuildLaunchTags(w, a) : k \in BuildLaunchTags(w, TRUE)
    BY <1>2, BuildOf, IdentityGrows
  <2>2. \A k \in BuildLaunchTags(w, TRUE) : k \in BuildLaunchTags(w, a) \/ k = "account-name"
    <3>1. \A k \in BuildIdentityTags(TRUE) : k \in BuildIdentityTags(FALSE) \/ k = "account-name"
      BY DEF BuildIdentityTags
    <3>2. QED
      BY <1>2, <3>1, BuildOf
  <2>3. "account-name" \notin Settings \cup SporedTags \cup {"dns-name"}
    BY DEF Settings, SporedTags
  <2>4. (BuildLaunchTags(w, a) \cup {"local-username"}) \cap Settings
          = (BuildLaunchTags(w, TRUE) \cup {"local-username"}) \cap Settings
    BY <2>1, <2>2, <2>3
  <2>5. SentTags(w, a) \in SUBSET SentTags(w, TRUE)
    BY <2>1, <2>4 DEF SentTags, Split
  <2>6. \A k \in SentTags(w, TRUE) : k \in SentTags(w, a) \/ k = "account-name"
    BY <2>2, <2>4 DEF SentTags, Split
  <2>7. \A k \in SporedTags \cup {"dns-name"} : k \in SentTags(w, a) <=> k \in SentTags(w, TRUE)
    BY <2>3, <2>5, <2>6
  <2>8. TagReserve(SentTags(w, a)) = TagReserve(SentTags(w, TRUE))
    BY <2>7 DEF TagReserve, SporedTags
  <2>9. IsFiniteSet(SentTags(w, TRUE))
    BY BuildKeys, KeysAreFinite, FS_Subset
  <2>10. Cardinality(SentTags(w, a)) <= Cardinality(SentTags(w, TRUE))
    BY <2>5, <2>9, FS_Subset
  <2> DEFINE x == Cardinality(SentTags(w, a))
             most == Cardinality(SentTags(w, TRUE))
             y == Cardinality(TagReserve(SentTags(w, TRUE)))
  <2>11. x \in Nat /\ most \in Nat /\ y \in Nat
    BY CountIsNat, Zenon
  <2>12. Count(w, a) = x + y /\ Count(w, TRUE) = most + y /\ x <= most
    BY <2>8, <2>10, Zenon DEF Count
  <2> HIDE DEF x, y, most
  <2>13. x + y <= most + y
    BY <2>11, <2>12
  <2>14. QED
    BY <2>12, <2>13, Zenon
<1>3. QED
  BY <1>1, <1>2

\* What spored has yet to write, of tags that hold those that were sent.
Sent == SentTags(launch.want, named)

\* What is kept free is so still when some of it was written.
LEMMA ReserveStands ==
  ASSUME NEW S, NEW T, S \subseteq T, T \subseteq S \cup TagReserve(S) \cup CommandTags
  PROVE  /\ T \cup TagReserve(T) \subseteq S \cup TagReserve(S) \cup CommandTags
         /\ TagReserve(T) \subseteq SporedTags
         /\ T \subseteq S \cup TagReserve(S) => T \cup TagReserve(T) = S \cup TagReserve(S)
         /\ \A k \in TagReserve(T) : k \in TagReserve(S)
<1>1. "dns-name" \in T <=> "dns-name" \in S
  BY DEF TagReserve, CommandTags
<1>2. QED
  BY <1>1 DEF TagReserve, CommandTags, SporedTags

\* The numbers that are compared.
Most        == Count(launch.want, TRUE)
Own         == Count(launch.want, named)
MostCarried == Carried(launch, TRUE)
OwnCarried  == Carried(launch, named)

(***************************************************************************)
(* The invariant: a launch that was counted with the stand-in fits, and so *)
(* does one that runs; an instance's tags are those that were sent, some   *)
(* of those that were waited for, and what a command added.                *)
(***************************************************************************)
BudgetInv ==
    /\ launch \in Launches /\ named \in BOOLEAN
    /\ stage \in {"asked", "passed", "refused", "running"}
    /\ stage = "passed" => Most <= Limit
    /\ stage = "refused" => Most > Limit
    /\ stage # "running" => tags = {} /\ carried = 0 /\ commanded = {}
    /\ stage = "running" =>
         /\ Own <= Limit /\ carried = OwnCarried
         /\ Sent \subseteq tags /\ tags \subseteq Sent \cup TagReserve(Sent) \cup commanded
         /\ commanded \subseteq tags \cap CommandTags

\* The counts a budget compares are natural numbers.
LEMMA BudgetNumbers ==
  ASSUME BudgetInv
  PROVE  /\ launch.want \in SUBSET Options /\ launch.params \in Nat /\ Limit \in Nat
         /\ Most \in Nat /\ Own \in Nat /\ Own <= Most
         /\ MostCarried \in 0 .. launch.params /\ OwnCarried \in 0 .. launch.params
         /\ Own <= Limit => Own + OwnCarried <= Limit
         /\ OwnCarried < launch.params => Own + OwnCarried >= Limit
         /\ Most <= Limit => Most + MostCarried <= Limit
         /\ \A n \in Nat : OverLimit(SentTags(launch.want, TRUE), n) <=> Most + n > Limit
         /\ \A n \in Nat : OverLimit(Sent, n) <=> Own + n > Limit
<1>1. launch \in Launches /\ named \in BOOLEAN /\ TRUE \in BOOLEAN
  BY DEF BudgetInv
<1>2. launch.want \in SUBSET Options /\ launch.params \in Nat /\ Limit \in Nat
  BY <1>1, BudgetConstants
<1>3. Most \in Nat /\ Own \in Nat
  BY <1>1, <1>2, CountIsNat, Zenon DEF Most, Own
<1>4. Own <= Most
  BY <1>1, <1>2, StandInCountsMore, Zenon DEF Most, Own
<1>5. /\ MostCarried \in 0 .. launch.params /\ OwnCarried \in 0 .. launch.params
      /\ Own <= Limit => Own + OwnCarried <= Limit
      /\ OwnCarried < launch.params => Own + OwnCarried >= Limit
      /\ Most <= Limit => Most + MostCarried <= Limit
  BY <1>1, CarriedIs, Zenon DEF Most, Own, MostCarried, OwnCarried
<1>6. /\ \A n \in Nat : OverLimit(SentTags(launch.want, TRUE), n) <=> Most + n > Limit
      /\ \A n \in Nat : OverLimit(Sent, n) <=> Own + n > Limit
  BY <1>1, OverIs, Zenon DEF Most, Own, Sent
<1>7. QED
  BY <1>2, <1>3, <1>4, <1>5, <1>6

\* A launch that is asked for has no tags yet.
LEMMA BudgetStarts == BudgetInit => BudgetInv
BY DEF BudgetInit, BudgetInv

\* The preflight passes what fits with every name.
LEMMA PreflightKeeps == ASSUME BudgetInv, Preflight PROVE BudgetInv'
<1> DEFINE over == OverLimit(SentTags(launch.want, TRUE), MostCarried)
<1>1. stage = "asked" /\ UNCHANGED <<launch, named, tags, carried, commanded>>
  BY DEF Preflight
<1>2. (over /\ stage' = "refused") \/ (~ over /\ stage' = "passed")
  BY DEF Preflight, MostCarried
<1>3. \A n \in Nat : OverLimit(SentTags(launch.want, TRUE), n) <=> Most + n > Limit
  BY BudgetNumbers, Zenon
<1>4. /\ Most \in Nat /\ Limit \in Nat /\ MostCarried \in 0 .. launch.params /\ launch.params \in Nat
      /\ Most <= Limit => Most + MostCarried <= Limit
  BY BudgetNumbers, Zenon
<1>5. MostCarried \in Nat
  BY <1>4
<1>6. over <=> Most + MostCarried > Limit
  BY <1>3, <1>5, Zenon
<1> HIDE DEF over
<1>7. over <=> Most > Limit
  BY <1>4, <1>5, <1>6
<1>8. (stage' = "refused" /\ Most > Limit) \/ (stage' = "passed" /\ Most <= Limit)
  BY <1>2, <1>4, <1>7
<1>9. Most' = Most
  BY <1>1 DEF Most
<1>10. QED
  BY <1>1, <1>8, <1>9 DEF BudgetInv

\* What passed fits under the limit when it is sent.
LEMMA RunInstancesKeeps == ASSUME BudgetInv, RunInstances PROVE BudgetInv'
<1>1. Own <= Limit
  <2>1. Most <= Limit
    BY DEF BudgetInv, RunInstances
  <2>2. Own \in Nat /\ Most \in Nat /\ Limit \in Nat /\ Own <= Most
    BY BudgetNumbers, Zenon
  <2>3. QED
    BY <2>1, <2>2
<1>2. ~ OverLimit(Sent, OwnCarried)
  BY <1>1, BudgetNumbers
<1>3. /\ stage' = "running" /\ tags' = Sent /\ carried' = OwnCarried
      /\ UNCHANGED <<launch, named, commanded>> /\ commanded = {}
  BY <1>2 DEF RunInstances, Sent, OwnCarried, BudgetInv
<1>4. Sent' = Sent /\ Own' = Own /\ OwnCarried' = OwnCarried
  BY <1>3 DEF Sent, Own, OwnCarried
<1>5. QED
  BY <1>1, <1>3, <1>4 DEF BudgetInv

\* spored writes only what was kept free for it.
LEMMA SporedKeeps == ASSUME BudgetInv, NEW k \in SporedTags, SporedWrites(k) PROVE BudgetInv'
<1>1. stage = "running" /\ k \in TagReserve(tags) /\ tags' = tags \cup {k}
      /\ UNCHANGED <<launch, named, stage, carried, commanded>>
  BY DEF SporedWrites
<1>2. k \in TagReserve(Sent)
  BY <1>1, ReserveStands DEF BudgetInv
<1>3. Sent' = Sent /\ Most' = Most /\ Own' = Own /\ OwnCarried' = OwnCarried
  BY <1>1 DEF Sent, Most, Own, OwnCarried
<1>4. QED
  BY <1>1, <1>2, <1>3 DEF BudgetInv

\* A command adds its own tags.
LEMMA CommandKeeps == ASSUME BudgetInv, NEW k \in CommandTags, CommandWrites(k) PROVE BudgetInv'
<1>1. stage = "running" /\ tags' = tags \cup {k} /\ commanded' = commanded \cup {k}
      /\ UNCHANGED <<launch, named, stage, carried>>
  BY DEF CommandWrites
<1>2. Sent' = Sent /\ Most' = Most /\ Own' = Own /\ OwnCarried' = OwnCarried
  BY <1>1 DEF Sent, Most, Own, OwnCarried
<1>3. QED
  BY <1>1, <1>2 DEF BudgetInv

\* No step takes more than the budget.
LEMMA BudgetKeeps == BudgetInv /\ [BudgetNext]_budgetVars => BudgetInv'
<1> SUFFICES ASSUME BudgetInv, [BudgetNext]_budgetVars PROVE BudgetInv'
  OBVIOUS
<1>1. CASE Preflight
  BY <1>1, PreflightKeeps
<1>2. CASE RunInstances
  BY <1>2, RunInstancesKeeps
<1>3. CASE \E k \in SporedTags : SporedWrites(k)
  BY <1>3, SporedKeeps
<1>4. CASE \E k \in CommandTags : CommandWrites(k)
  BY <1>4, CommandKeeps
<1>5. CASE UNCHANGED budgetVars
  BY <1>5 DEF budgetVars, BudgetInv, Sent, Most, Own, OwnCarried
<1>6. QED
  BY <1>1, <1>2, <1>3, <1>4, <1>5 DEF BudgetNext

\* An option is read back of the tags that were sent, if it is no setting.
LEMMA ReadBack ==
  ASSUME NEW l \in Launches, NEW a \in BOOLEAN, NEW T, SentTags(l.want, a) \subseteq T,
         T \subseteq SentTags(l.want, a) \cup SporedTags, NEW o \in Options
  PROVE  Brings(o) \subseteq T <=> o \in Written(l.want) \ Settings
<1> DEFINE B == BuildLaunchTags(l.want, a)
<1>1. l.want \in SUBSET Options
  BY BudgetConstants
<1>2. \A k : k \notin SporedTags /\ k \notin {"local-username", "config"} => (k \in T <=> k \in B \ Settings)
  BY DEF SentTags, Split
<1>3. BuildIdentityTags(a) \subseteq BuildIdentityTags(TRUE)
  BY IdentityGrows
<1>4. CASE o \notin {"ttl", "job-array", "sweep"}
  <2>1. o \in T <=> o \in B \ Settings
    BY <1>2, KeysApart
  <2>2. o \in B <=> o \in Written(l.want)
    BY <1>1, <1>3, <1>4, BuildOf, KeysApart
  <2>3. QED
    BY <1>4, <2>1, <2>2, OptionFacts
<1>5. CASE o = "ttl"
  <2>1. o \notin Settings /\ "ttl-deadline" \notin Settings
    BY <1>5, KeysApart
  <2>2. (o \in T <=> o \in B) /\ ("ttl-deadline" \in T <=> "ttl-deadline" \in B)
    BY <1>2, <2>1, KeysApart
  <2>3. o \in Written(l.want) <=> o \in l.want
    BY <1>1, <1>5, OptionFacts DEF Written
  <2>4. o \in B <=> o \in Written(l.want)
    BY <1>1, <1>3, <1>5, BuildOf, KeysApart
  <2>5. o \in l.want => "ttl-deadline" \in B
    BY <1>1, <1>5, BuildOf
  <2>6. QED
    BY <1>5, <2>1, <2>2, <2>3, <2>4, <2>5, OptionFacts
<1>6. CASE o = "job-array"
  <2>1. o \in Written(l.want) \ Settings <=> o \in l.want
    BY <1>1, <1>6, OptionFacts, KeysApart DEF Written
  <2>2. \A k \in ArrayTags : k \in T <=> k \in B
    BY <1>2, KeysApart
  <2>3. \A k \in ArrayTags : k \in B <=> o \in l.want
    <3>1. Written(l.want) \subseteq Options
      BY <1>1 DEF Written
    <3>2. \A k \in ArrayTags : k \notin SweepTags
      BY KeysApart
    <3>3. QED
      BY <1>1, <1>3, <1>6, <3>1, <3>2, BuildOf, KeysApart
  <2>4. \E k : k \in ArrayTags
    BY DEF ArrayTags
  <2>5. QED
    BY <1>6, <2>1, <2>2, <2>3, <2>4, OptionFacts
<1>7. CASE o = "sweep"
  <2>1. o \in Written(l.want) \ Settings <=> o \in l.want
    BY <1>1, <1>7, OptionFacts, KeysApart DEF Written
  <2>2. \A k \in SweepTags : k \in T <=> k \in B
    BY <1>2, KeysApart
  <2>3. \A k \in SweepTags : k \in B <=> o \in l.want
    <3>1. Written(l.want) \subseteq Options
      BY <1>1 DEF Written
    <3>2. QED
      BY <1>1, <1>3, <1>7, <3>1, BuildOf, KeysApart
  <2>4. \E k : k \in SweepTags
    BY DEF SweepTags
  <2>5. QED
    BY <1>7, <2>1, <2>2, <2>3, <2>4, OptionFacts
<1>8. QED
  BY <1>4, <1>5, <1>6, <1>7

\* What the invariant says of an instance that runs.
LEMMA RunningTags ==
  ASSUME BudgetInv, stage = "running", commanded = {}
  PROVE  /\ tags \cup TagReserve(tags) = Sent \cup TagReserve(Sent)
         /\ Cardinality(tags \cup TagReserve(tags)) = Own
         /\ tags \subseteq Sent \cup SporedTags
<1>1. Sent \subseteq tags /\ tags \subseteq Sent \cup TagReserve(Sent)
  BY DEF BudgetInv
<1>2. tags \cup TagReserve(tags) = Sent \cup TagReserve(Sent)
  BY <1>1, ReserveStands
<1>3. Cardinality(Sent \cup TagReserve(Sent)) = Own
  <2>1. launch.want \in SUBSET Options /\ named \in BOOLEAN
    BY BudgetConstants DEF BudgetInv
  <2>2. QED
    BY <2>1, CountIsNat, Zenon DEF Sent, Own
<1>4. TagReserve(Sent) \subseteq SporedTags
  BY DEF TagReserve, SporedTags
<1>5. QED
  BY <1>1, <1>2, <1>3, <1>4

\* What the invariant says of the tags of a launch.
LEMMA BudgetIsFit == BudgetInv => TagsFit
<1> SUFFICES ASSUME BudgetInv PROVE TagsFit
  OBVIOUS
<1>1. launch.want \in SUBSET Options /\ launch.params \in Nat /\ Limit \in Nat /\ Own \in Nat /\ Most \in Nat
  BY BudgetNumbers
<1>2. BudgetTypeOK
  <2>1. OwnCarried \in 0 .. launch.params
    BY BudgetNumbers
  <2>2. carried \in 0 .. launch.params
    BY <1>1, <2>1 DEF BudgetInv
  <2>3. \A k \in Sent \cup TagReserve(Sent) \cup CommandTags : k \notin Settings
    <3>1. \A k \in Sent : k \notin Settings
      BY DEF Sent, SentTags, Split, Settings
    <3>2. \A k \in TagReserve(Sent) \cup CommandTags : k \notin Settings
      BY DEF TagReserve, CommandTags, Settings
    <3>3. QED
      BY <3>1, <3>2
  <2>4. commanded \subseteq tags \cap CommandTags /\ tags \cap Settings = {}
    BY <2>3 DEF BudgetInv
  <2>5. QED
    BY <2>2, <2>4 DEF BudgetTypeOK, BudgetInv
<1>3. SporedTagsFit
  BY <1>1, RunningTags, BudgetNumbers DEF SporedTagsFit, BudgetInv
<1>4. NeverRefusedLate
  BY DEF NeverRefusedLate, BudgetInv
<1>5. ParametersNeverRefuse
  <2> SUFFICES ASSUME stage = "refused" PROVE OverLimit(SentTags(launch.want, TRUE), 0)
    BY DEF ParametersNeverRefuse
  <2>1. Most + 0 > Limit
    BY <1>1 DEF BudgetInv
  <2>2. QED
    BY <2>1, BudgetNumbers
<1>6. DroppedOnlyWhenFull
  <2> SUFFICES ASSUME stage = "running", commanded = {}, carried < launch.params
               PROVE Cardinality(tags \cup TagReserve(tags)) + carried = Limit
    BY DEF DroppedOnlyWhenFull
  <2>1. Own <= Limit /\ carried = OwnCarried /\ OwnCarried \in 0 .. launch.params
    BY BudgetNumbers DEF BudgetInv
  <2>2. Own + carried <= Limit /\ Own + carried >= Limit
    BY <2>1, BudgetNumbers
  <2>3. QED
    BY <1>1, <2>1, <2>2, RunningTags
<1>7. ListedAsAsked
  <2> SUFFICES ASSUME stage = "running", commanded = {} PROVE Decoded = Written(launch.want) \ Settings
    BY DEF ListedAsAsked
  <2>1. Sent \subseteq tags /\ tags \subseteq Sent \cup SporedTags
    BY RunningTags DEF BudgetInv
  <2>2. \A o \in Options : Brings(o) \subseteq tags <=> o \in Written(launch.want) \ Settings
    BY <2>1, ReadBack DEF BudgetInv, Sent
  <2>3. Written(launch.want) \subseteq Options
    BY <1>1 DEF Written
  <2>4. QED
    BY <2>2, <2>3 DEF Decoded
<1>8. QED
  BY <1>2, <1>3, <1>4, <1>5, <1>6, <1>7 DEF TagsFit

(***************************************************************************)
(* The tags of a launch leave room for those that come (TagsFit), whatever *)
(* the limit and whatever is launched: spored's own tags always fit,       *)
(* nothing is refused after AWS was asked, parameters never refuse a       *)
(* launch, are dropped only when the limit is reached, and the options     *)
(* that are read back are those that were asked for (tags.ts:77-107,       *)
(* 290-294, 584-640, ec2.ts:203).                                          *)
(***************************************************************************)
THEOREM TagsAlwaysFit == BudgetSpec => []TagsFit
  BY BudgetIsFit, BudgetStarts, BudgetKeeps, PTL DEF BudgetSpec

-----------------------------------------------------------------------------
(***************************************************************************)
(* The contract of the tags.  What nobody spoiled is as it was sent, and   *)
(* what was spoiled is gone or cannot be read.                             *)
(***************************************************************************)
SentToStore == Without(LaunchTags(ask), IF billed THEN InObject ELSE {})

KeptTags ==
    /\ spoiled \subseteq DOMAIN SentToStore \cap Spoilable
    /\ \A k : k \notin spoiled => (k \in DOMAIN store <=> k \in DOMAIN SentToStore)
    /\ \A k \in DOMAIN SentToStore : k \notin spoiled => store[k] = SentToStore[k]
    /\ \A k \in spoiled : k \in DOMAIN store => store[k] = Odd

ContractInv ==
    /\ ask \in Asks /\ billed \in BOOLEAN /\ told \in {"asked", "refused", "launched", "listed", "missing"}
    /\ told = "asked" => spoiled = {}
    /\ told \in {"launched", "listed"} => KeptTags
    /\ ReadsBack /\ DeadlineIsKeptTwice

WordKinds == WordTags \cup {"sweep-id", "job-array-id"}
ReadTags == {"ttl", "idle-timeout", "completion-delay", "idle-cpu", "cost-limit", "price-per-hour",
             "ttl-deadline", "launch-time", "on-complete", "completion-file", "hibernate-on-idle",
             "sweep-id", "sweep-index", "job-array-id", "job-array-index", "mpi-enabled", "processes-per-node"} \cup Hooks

\* How a tag of an instance is read.
ReadOf(on, o) ==
    IF o \in WordKinds THEN WordTag(on, o)
    ELSE IF o \in {"hibernate-on-idle", "mpi-enabled"} THEN TrueTag(on, o)
    ELSE IF o \in {"sweep-index", "job-array-index"} /\ WordTag(on, Beside(o)) = 0 THEN 0
    ELSE IF o = "processes-per-node" /\ TrueTag(on, "mpi-enabled") = 0 THEN 0
    ELSE NumberTag(on, o)

\* Each field of what is read is read of its own tag.
LEMMA ToManagedIs ==
  ASSUME NEW on, NEW o \in ReadTags
  PROVE  ToManaged(on)[o] = ReadOf(on, o) /\ DOMAIN ToManaged(on) = ReadTags
<1> DEFINE parts == <<DecodeConfigTags(on), DecodeMember(on, "sweep-id", "sweep-index"),
                      DecodeMember(on, "job-array-id", "job-array-index"), DecodeMpiTags(on), DecodeHookTags(on)>>
           part(p) == CHOOSE n \in 1 .. 5 : p \in DOMAIN parts[n]
           ConfigTags == {"ttl", "idle-timeout", "completion-delay", "idle-cpu", "cost-limit", "price-per-hour",
                      "ttl-deadline", "launch-time", "on-complete", "completion-file", "hibernate-on-idle"}
<1>1. ToManaged(on) = [p \in UNION {DOMAIN parts[n] : n \in 1 .. 5} |-> parts[part(p)][p]]
  BY DEF ToManaged
<1>2. /\ DOMAIN parts[1] = ConfigTags /\ parts[1] = DecodeConfigTags(on)
      /\ DOMAIN parts[2] = {"sweep-id", "sweep-index"} /\ parts[2] = DecodeMember(on, "sweep-id", "sweep-index")
      /\ DOMAIN parts[3] = {"job-array-id", "job-array-index"}
      /\ parts[3] = DecodeMember(on, "job-array-id", "job-array-index")
      /\ DOMAIN parts[4] = {"mpi-enabled", "processes-per-node"} /\ parts[4] = DecodeMpiTags(on)
      /\ DOMAIN parts[5] = Hooks /\ parts[5] = DecodeHookTags(on)
  BY DEF DecodeConfigTags, DecodeMember, DecodeMpiTags, DecodeHookTags
<1> HIDE DEF parts
<1>3. UNION {DOMAIN parts[n] : n \in 1 .. 5} = ReadTags
  <2>1. 1 .. 5 = {1, 2, 3, 4, 5}
    OBVIOUS
  <2>2. QED
    BY <1>2, <2>1 DEF ReadTags
<1>4. DOMAIN ToManaged(on) = ReadTags /\ ToManaged(on)[o] = parts[part(o)][o]
  BY <1>1, <1>3
<1>5. CASE o \in ConfigTags
  <2>1. o \notin Hooks
    BY <1>5 DEF Hooks
  <2>2. part(o) = 1
    BY <1>2, <1>5, <2>1
  <2>3. ToManaged(on)[o] = DecodeConfigTags(on)[o]
    BY <1>2, <1>4, <2>2
  <2>4. DecodeConfigTags(on)[o] = ReadOf(on, o)
    BY <1>5 DEF DecodeConfigTags, ReadOf, WordTags, WordKinds
  <2>5. QED
    BY <1>4, <2>3, <2>4
<1>6. CASE o \in {"sweep-id", "sweep-index"}
  <2>1. part(o) = 2
    BY <1>2, <1>6 DEF Hooks
  <2>2. ToManaged(on)[o] = DecodeMember(on, "sweep-id", "sweep-index")[o]
    BY <1>2, <1>4, <2>1
  <2>3. DecodeMember(on, "sweep-id", "sweep-index")[o] = ReadOf(on, o)
    BY <1>6 DEF DecodeMember, ReadOf, WordTags, WordKinds, WordTag, Beside
  <2>4. QED
    BY <1>4, <2>2, <2>3
<1>7. CASE o \in {"job-array-id", "job-array-index"}
  <2>1. part(o) = 3
    BY <1>2, <1>7 DEF Hooks
  <2>2. ToManaged(on)[o] = DecodeMember(on, "job-array-id", "job-array-index")[o]
    BY <1>2, <1>4, <2>1
  <2>3. DecodeMember(on, "job-array-id", "job-array-index")[o] = ReadOf(on, o)
    BY <1>7 DEF DecodeMember, ReadOf, WordTags, WordKinds, WordTag, Beside
  <2>4. QED
    BY <1>4, <2>2, <2>3
<1>8. CASE o \in {"mpi-enabled", "processes-per-node"}
  <2>1. part(o) = 4
    BY <1>2, <1>8 DEF Hooks
  <2>2. ToManaged(on)[o] = DecodeMpiTags(on)[o]
    BY <1>2, <1>4, <2>1
  <2>3. DecodeMpiTags(on)[o] = ReadOf(on, o)
    BY <1>8 DEF DecodeMpiTags, ReadOf, WordTags, WordKinds, TrueTag
  <2>4. QED
    BY <1>4, <2>2, <2>3
<1>9. CASE o \in Hooks
  <2>1. o \notin ConfigTags /\ o \notin {"sweep-id", "sweep-index", "job-array-id", "job-array-index",
                                     "mpi-enabled", "processes-per-node"}
    BY <1>9 DEF Hooks
  <2>2. part(o) = 5
    BY <1>2, <1>9, <2>1
  <2>3. ToManaged(on)[o] = DecodeHookTags(on)[o]
    BY <1>2, <1>4, <2>2
  <2>4. DecodeHookTags(on)[o] = ReadOf(on, o)
    BY <1>9 DEF DecodeHookTags, ReadOf, WordTags, WordKinds, SpanTags, Hooks
  <2>5. QED
    BY <1>4, <2>3, <2>4
<1>10. QED
  BY <1>5, <1>6, <1>7, <1>8, <1>9 DEF ReadTags

\* What a launch writes.
LEMMA SentOf ==
  ASSUME ask \in Asks
  PROVE  /\ \A o \in OptionTags : o \in DOMAIN SentToStore <=> o \in WrittenOf(ask.opts) /\ ~ (billed /\ o \in InObject)
         /\ \A o \in OptionTags \cap DOMAIN SentToStore : SentToStore[o] = ask.opts[o]
         /\ "managed" \in DOMAIN SentToStore /\ SentToStore["managed"] = 1
         /\ "launch-time" \in DOMAIN SentToStore /\ SentToStore["launch-time"] = LaunchTime
         /\ "ttl-deadline" \in DOMAIN SentToStore <=> ask.opts["ttl"] > 0
         /\ ask.opts["ttl"] > 0 => SentToStore["ttl-deadline"] = LaunchTime + ask.opts["ttl"]
<1> DEFINE wrote == WrittenOf(ask.opts) \cup {"managed", "launch-time"}
                   \cup (IF ask.opts["ttl"] > 0 THEN {"ttl-deadline"} ELSE {})
           labels == [k \in {"dns-name", "account-name"} |-> SlugifyDnsLabel(IF k = "dns-name" THEN ask.name ELSE ask.alias)]
           all == wrote \cup {k \in DOMAIN labels : labels[k] # <<>>}
           valueOf(k) == CASE k \in {"dns-name", "account-name"} -> labels[k]
                       [] k = "managed"      -> 1
                       [] k = "launch-time"  -> LaunchTime
                       [] k = "ttl-deadline" -> LaunchTime + ask.opts["ttl"]
                       [] OTHER              -> ask.opts[k]
           gone == IF billed THEN InObject ELSE {}
<1>1. LaunchTags(ask) = [k \in all |-> valueOf(k)]
  BY DEF LaunchTags
<1>2. DOMAIN labels = {"dns-name", "account-name"}
  OBVIOUS
<1> HIDE DEF labels
<1>3. DOMAIN SentToStore = all \ gone /\ \A k \in all \ gone : SentToStore[k] = valueOf(k)
  <2> HIDE DEF valueOf, all, gone
  <2>1. SentToStore = [k \in DOMAIN LaunchTags(ask) \ gone |-> LaunchTags(ask)[k]]
    BY DEF SentToStore, Without, gone
  <2>2. QED
    BY <1>1, <2>1
<1>4. \A o \in OptionTags : o \notin {"dns-name", "account-name", "managed", "launch-time", "ttl-deadline"}
  BY DEF OptionTags, SpanTags, CountTags, WordTags, FlagTags
<1>5. \A k \in {"dns-name", "account-name", "managed", "launch-time", "ttl-deadline"} : k \notin InObject /\ k \notin OptionTags
  BY <1>4 DEF InObject
<1>6. \A o \in OptionTags : (o \in all <=> o \in WrittenOf(ask.opts)) /\ valueOf(o) = ask.opts[o]
  BY <1>2, <1>4
<1>7. \A o \in OptionTags : o \in DOMAIN SentToStore <=> o \in WrittenOf(ask.opts) /\ ~ (billed /\ o \in InObject)
  BY <1>3, <1>6
<1>8. \A o \in OptionTags \cap DOMAIN SentToStore : SentToStore[o] = ask.opts[o]
  BY <1>3, <1>6
<1>9. "managed" \in all \ gone /\ "launch-time" \in all \ gone /\ ("ttl-deadline" \in all \ gone <=> ask.opts["ttl"] > 0)
  BY <1>2, <1>5 DEF WrittenOf
<1>10. valueOf("managed") = 1 /\ valueOf("launch-time") = LaunchTime /\ valueOf("ttl-deadline") = LaunchTime + ask.opts["ttl"]
  OBVIOUS
<1>11. QED
  BY <1>3, <1>7, <1>8, <1>9, <1>10

\* Before the launch there is nothing to read.
LEMMA ContractStarts == ContractInit => ContractInv
BY DEF ContractInit, ContractInv, ReadsBack, DeadlineIsKeptTwice

\* What is launched is what was sent.
LEMMA LaunchedKeeps == ASSUME ContractInv, ContractLaunched PROVE ContractInv'
<1>1. /\ told = "asked" /\ told' = "launched" /\ UNCHANGED <<ask, billed, spoiled>> /\ store' = SentToStore
  BY DEF ContractLaunched, SentToStore
<1>2. SentToStore' = SentToStore
  BY <1>1 DEF SentToStore
<1>3. KeptTags'
  BY <1>1, <1>2 DEF KeptTags, ContractInv
<1>4. QED
  BY <1>1, <1>3 DEF ContractInv, ReadsBack, DeadlineIsKeptTwice

\* Once something is spoiled less is promised.
LEMMA SpoilsKeeps == ASSUME ContractInv, NEW k \in Spoilable, Spoils(k) PROVE ContractInv'
<1>1. /\ told \in {"launched", "listed"} /\ k \in DOMAIN store /\ k \notin spoiled
      /\ store' \in {Without(store, {k}), [store EXCEPT ![k] = Odd]}
      /\ spoiled' = spoiled \cup {k} /\ UNCHANGED <<ask, billed, reading, told>>
  BY DEF Spoils
<1>2. SentToStore' = SentToStore
  BY <1>1 DEF SentToStore
<1>3. KeptTags
  BY <1>1 DEF ContractInv
<1>4. /\ DOMAIN store \ {k} \subseteq DOMAIN store' /\ DOMAIN store' \subseteq DOMAIN store
      /\ \A j \in DOMAIN store \ {k} : store'[j] = store[j]
      /\ k \in DOMAIN store' => store'[k] = Odd
  <2>1. CASE store' = Without(store, {k})
    BY <2>1 DEF Without
  <2>2. CASE store' = [store EXCEPT ![k] = Odd]
    BY <1>1, <2>2
  <2>3. QED
    BY <1>1, <2>1, <2>2
<1>5. KeptTags'
  <2>1. spoiled' \subseteq DOMAIN SentToStore' \cap Spoilable
    BY <1>1, <1>2, <1>3 DEF KeptTags
  <2>2. \A j : j \notin spoiled' => (j \in DOMAIN store' <=> j \in DOMAIN SentToStore')
    BY <1>1, <1>2, <1>3, <1>4 DEF KeptTags
  <2>3. \A j \in DOMAIN SentToStore' : j \notin spoiled' => store'[j] = SentToStore'[j]
    BY <1>1, <1>2, <1>3, <1>4 DEF KeptTags
  <2>4. \A j \in spoiled' : j \in DOMAIN store' => store'[j] = Odd
    BY <1>1, <1>3, <1>4 DEF KeptTags
  <2>5. QED
    BY <2>1, <2>2, <2>3, <2>4 DEF KeptTags
<1>6. ReadsBack'
  <2>1. Effective' = Effective
    BY <1>1 DEF Effective
  <2>2. QED
    BY <1>1, <2>1 DEF ReadsBack, ContractInv, Sources
<1>7. DeadlineIsKeptTwice'
  BY <1>1 DEF DeadlineIsKeptTwice, ContractInv
<1>8. QED
  BY <1>1, <1>5, <1>6, <1>7 DEF ContractInv

\* What an option reads as, where neither it nor what it stands beside was spoiled.
LEMMA ListReads ==
  ASSUME ContractInv, KeptTags, NEW o \in OptionTags \cap ReadTags, Sources(o) \cap spoiled = {}
  PROVE  ReadOf(store, o) = Effective[o]
<1> DEFINE n == ask.opts[o]
<1>1. ask \in Asks /\ ask.opts \in [OptionTags -> Nat] /\ \A f \in FlagTags : ask.opts[f] \in {0, 1}
  BY ContractConstants DEF ContractInv
<1>2. o \notin spoiled
  BY DEF Sources
<1>3. Has(store, o) <=> o \in WrittenOf(ask.opts) /\ ~ (billed /\ o \in InObject)
  BY <1>1, <1>2, SentOf DEF Has, KeptTags
<1>4. Has(store, o) => store[o] = n /\ n \in Nat /\ n > 0
  BY <1>1, <1>2, <1>3, SentOf DEF Has, KeptTags, WrittenOf
<1>5. Effective[o] = IF Has(store, o) THEN n ELSE 0
  BY <1>3 DEF Effective
<1>6. NumberTag(store, o) = Effective[o] /\ WordTag(store, o) = Effective[o]
  BY <1>4, <1>5 DEF NumberTag, WordTag, Odd
<1>7. CASE o \in WordKinds
  BY <1>6, <1>7 DEF ReadOf
<1>8. CASE o \in {"hibernate-on-idle", "mpi-enabled"}
  <2>1. o \in FlagTags /\ o \notin WordKinds
    BY <1>8 DEF FlagTags, WordKinds, WordTags
  <2>2. Has(store, o) => n = 1
    BY <1>1, <1>4, <2>1
  <2>3. TrueTag(store, o) = Effective[o]
    BY <1>4, <1>5, <2>2 DEF TrueTag
  <2>4. QED
    BY <1>8, <2>1, <2>3 DEF ReadOf
<1>9. CASE o \in {"sweep-index", "job-array-index"}
  <2> DEFINE beside == Beside(o)
  <2>1. beside \in {"sweep-id", "job-array-id"} /\ Beside(beside) = beside
    BY <1>9 DEF Beside
  <2>2. beside \in OptionTags /\ beside \notin spoiled /\ beside \notin InObject /\ o \notin WordKinds
    BY <1>9, <2>1 DEF Sources, OptionTags, FlagTags, InObject, WordKinds, WordTags
  <2>3. o \notin {"hibernate-on-idle", "mpi-enabled", "processes-per-node"}
    BY <1>9
  <2> HIDE DEF beside
  <2>4. Has(store, beside) <=> ask.opts[beside] > 0
    BY <1>1, <2>1, <2>2, SentOf DEF Has, KeptTags, WrittenOf
  <2>5. Has(store, beside) => store[beside] = ask.opts[beside] /\ ask.opts[beside] # 0
    BY <1>1, <2>2, <2>4, SentOf DEF Has, KeptTags
  <2>6. Has(store, o) => ask.opts[beside] > 0
    BY <1>3 DEF WrittenOf, beside
  <2>7. WordTag(store, beside) = 0 => ~ Has(store, o)
    BY <2>4, <2>5, <2>6 DEF WordTag
  <2>8. ReadOf(store, o) = IF WordTag(store, beside) = 0 THEN 0 ELSE NumberTag(store, o)
    BY <1>9, <2>2, <2>3 DEF ReadOf, beside
  <2>9. QED
    BY <1>5, <1>6, <2>7, <2>8
<1>10. CASE o = "processes-per-node"
  <2>1. Beside(o) = "mpi-enabled" /\ Beside("mpi-enabled") = "mpi-enabled"
    BY <1>10 DEF Beside
  <2>2. /\ "mpi-enabled" \in FlagTags /\ "mpi-enabled" \in OptionTags /\ "mpi-enabled" \notin InObject
        /\ "mpi-enabled" \notin spoiled /\ o \notin WordKinds
    BY <1>10, <2>1 DEF Sources, OptionTags, FlagTags, InObject, WordKinds, WordTags
  <2>3. Has(store, "mpi-enabled") <=> ask.opts["mpi-enabled"] > 0
    BY <1>1, <2>1, <2>2, SentOf DEF Has, KeptTags, WrittenOf
  <2>4. Has(store, "mpi-enabled") => store["mpi-enabled"] = ask.opts["mpi-enabled"]
    BY <1>1, <2>2, SentOf DEF Has, KeptTags
  <2>5. Has(store, o) => ask.opts["mpi-enabled"] > 0
    BY <1>3, <2>1 DEF WrittenOf
  <2>6. ask.opts["mpi-enabled"] \in {0, 1}
    BY <1>1, <2>2
  <2>7. TrueTag(store, "mpi-enabled") = 0 => ~ Has(store, o)
    BY <2>3, <2>4, <2>5, <2>6 DEF TrueTag
  <2>8. ReadOf(store, o) = IF TrueTag(store, "mpi-enabled") = 0 THEN 0 ELSE NumberTag(store, o)
    BY <1>10, <2>2 DEF ReadOf
  <2>9. QED
    BY <1>5, <1>6, <2>7, <2>8
<1>11. CASE o \notin WordKinds \cup {"hibernate-on-idle", "mpi-enabled", "sweep-index", "job-array-index", "processes-per-node"}
  BY <1>6, <1>11 DEF ReadOf
<1>12. QED
  BY <1>7, <1>8, <1>9, <1>10, <1>11

\* The deadline, of whichever of the two tags can still be read.
LEMMA ListKeepsDeadline ==
  ASSUME ContractInv, KeptTags, ~ ({"ttl", "ttl-deadline"} \subseteq spoiled),
         NEW i, i = ToManaged(store)
  PROVE  TagRules!TtlDeadline([launch |-> i["launch-time"], ttl |-> i["ttl"], deadline |-> i["ttl-deadline"]])
           = IF ask.opts["ttl"] > 0 THEN LaunchTime + ask.opts["ttl"] ELSE 0
<1> DEFINE t == ask.opts["ttl"]
           since == NumberTag(store, "launch-time")
           ttl == NumberTag(store, "ttl")
           until == NumberTag(store, "ttl-deadline")
<1>1. ask \in Asks /\ t \in Nat /\ "ttl" \in OptionTags
  BY ContractConstants DEF ContractInv, OptionTags, SpanTags
<1>2. {"ttl", "ttl-deadline", "launch-time"} \subseteq ReadTags
  BY DEF ReadTags
<1>3. i["launch-time"] = since /\ i["ttl"] = ttl /\ i["ttl-deadline"] = until
  <2>1. \A o \in {"ttl", "ttl-deadline", "launch-time"} : ReadOf(store, o) = NumberTag(store, o)
    BY DEF ReadOf, WordKinds, WordTags
  <2>2. QED
    BY <1>2, <2>1, ToManagedIs
<1>4. since = LaunchTime
  <2>1. "launch-time" \notin spoiled
    BY ContractConstants DEF KeptTags, OptionTags, SpanTags, CountTags, WordTags, FlagTags
  <2>2. QED
    BY <1>1, <2>1, SentOf DEF NumberTag, Has, KeptTags, LaunchTime, Odd
<1>5. ttl = IF "ttl" \in spoiled THEN 0 ELSE t
  <2>1. "ttl" \in DOMAIN SentToStore <=> t > 0
    <3>1. "ttl" \notin InObject /\ Beside("ttl") = "ttl"
      BY DEF InObject, Beside
    <3>2. QED
      BY <1>1, <3>1, SentOf DEF WrittenOf
  <2>2. CASE "ttl" \in spoiled
    BY <2>2 DEF NumberTag, Has, KeptTags
  <2>3. CASE "ttl" \notin spoiled
    BY <1>1, <2>1, <2>3, SentOf DEF NumberTag, Has, KeptTags, Odd
  <2>4. QED
    BY <2>2, <2>3
<1>6. until = IF "ttl-deadline" \in spoiled \/ t = 0 THEN 0 ELSE LaunchTime + t
  <2>1. CASE "ttl-deadline" \in spoiled
    BY <2>1 DEF NumberTag, Has, KeptTags
  <2>2. CASE "ttl-deadline" \notin spoiled
    BY <1>1, <2>2, SentOf DEF NumberTag, Has, KeptTags, Odd, LaunchTime
  <2>3. QED
    BY <2>1, <2>2
<1>7. TagRules!TtlDeadline([launch |-> since, ttl |-> ttl, deadline |-> until])
        = IF until > 0 THEN until ELSE IF ttl > 0 /\ since > 0 THEN since + ttl ELSE 0
  BY DEF TagRules!TtlDeadline
<1>8. "ttl" \in spoiled \/ "ttl-deadline" \in spoiled => t > 0
  <2>1. "ttl" \in DOMAIN SentToStore \/ "ttl-deadline" \in DOMAIN SentToStore => t > 0
    BY <1>1, SentOf DEF WrittenOf
  <2>2. QED
    BY <2>1 DEF KeptTags
<1> HIDE DEF t, since, ttl, until
<1>9. (IF until > 0 THEN until ELSE IF ttl > 0 /\ since > 0 THEN since + ttl ELSE 0)
        = IF t > 0 THEN LaunchTime + t ELSE 0
  BY <1>1, <1>4, <1>5, <1>6, <1>8 DEF LaunchTime
<1>10. QED
  BY <1>3, <1>7, <1>9 DEF t

\* What a list reads is what was sent, or what was spoiled.
LEMMA ListedKeeps == ASSUME ContractInv, ContractListed PROVE ContractInv'
<1>1. told \in {"launched", "listed"} /\ UNCHANGED <<ask, billed, store, spoiled>> /\ KeptTags
  BY DEF ContractListed, ContractInv
<1>2. KeptTags' /\ Effective' = Effective
  BY <1>1 DEF KeptTags, SentToStore, Effective
<1>3. CASE TrueTag(store, "managed") = 1
  <2>1. reading' = ToManaged(store) /\ told' = "listed"
    BY <1>3 DEF ContractListed
  <2>2. ReadsBack'
    <3> SUFFICES ASSUME NEW o \in DOMAIN reading' \cap OptionTags, Sources(o) \cap spoiled = {}
                 PROVE reading'[o] = Effective[o]
      BY <1>1, <1>2, <2>1 DEF ReadsBack
    <3>1. o \in ReadTags
      <4>1. "ttl" \in ReadTags
        BY DEF ReadTags
      <4>2. QED
        BY <2>1, <4>1, ToManagedIs
    <3>2. QED
      BY <1>1, <2>1, <3>1, ToManagedIs, ListReads
  <2>3. DeadlineIsKeptTwice'
    BY <1>1, <2>1, ListKeepsDeadline DEF DeadlineIsKeptTwice
  <2>4. QED
    BY <1>1, <1>2, <2>1, <2>2, <2>3 DEF ContractInv
<1>4. CASE TrueTag(store, "managed") # 1
  <2>1. told' = "missing"
    BY <1>4 DEF ContractListed
  <2>2. "managed" \in spoiled
    BY <1>1, <1>4, SentOf DEF TrueTag, Has, KeptTags, ContractInv
  <2>3. QED
    BY <1>1, <2>1, <2>2 DEF ContractInv, ReadsBack, DeadlineIsKeptTwice
<1>5. QED
  BY <1>3, <1>4

\* No step breaks the contract.
LEMMA ContractKeeps == ContractInv /\ [ContractNext]_contractVars => ContractInv'
<1> SUFFICES ASSUME ContractInv, [ContractNext]_contractVars PROVE ContractInv'
  OBVIOUS
<1>1. CASE ContractRefused
  BY <1>1 DEF ContractRefused, ContractInv, ReadsBack, DeadlineIsKeptTwice
<1>2. CASE ContractLaunched
  BY <1>2, LaunchedKeeps
<1>3. CASE \E k \in Spoilable : Spoils(k)
  BY <1>3, SpoilsKeeps
<1>4. CASE ContractListed
  BY <1>4, ListedKeeps
<1>5. CASE UNCHANGED contractVars
  BY <1>5 DEF contractVars, ContractInv, KeptTags, SentToStore, ReadsBack, Effective, DeadlineIsKeptTwice
<1>6. QED
  BY <1>1, <1>2, <1>3, <1>4, <1>5 DEF ContractNext

(***************************************************************************)
(* A launch's tags are a contract that other tools may break only for      *)
(* themselves: what nobody spoiled reads back as it was asked for, an      *)
(* instance is missing from a list only if its mark is gone, and the       *)
(* deadline is known to the moment as long as one of its two tags can be   *)
(* read (tags.ts:290-294, lifecycle.ts:51-55), whatever is asked for and   *)
(* whatever is spoiled, in whatever order.                                 *)
(***************************************************************************)
THEOREM TagsAlwaysReadBack == ContractSpec => [](ReadsBack /\ DeadlineIsKeptTwice)
<1>1. ContractInv => ReadsBack /\ DeadlineIsKeptTwice
  BY DEF ContractInv
<1>2. QED
  BY <1>1, ContractStarts, ContractKeeps, PTL DEF ContractSpec

-----------------------------------------------------------------------------
(***************************************************************************)
(* User data.  What was written are the blocks behind the one that runs.   *)
(***************************************************************************)
BootInv ==
    /\ bootstrap \in Bootstraps
    /\ stub \in {"asked", "refused", "sent", "booting", "spored up", "retired", "left alone"}
    /\ stub = "asked" => written = {} /\ block = 1
    /\ stub = "refused" => bootstrap.username # "valid" \/ TooLarge(bootstrap.size)
    /\ stub = "sent" => written = {} /\ block = 1 /\ ~ TooLarge(bootstrap.size)
    /\ stub \in {"sent", "booting"} => script = BuildLinuxBootstrap(bootstrap.files)
    /\ stub = "booting" => block \in 1 .. Len(script) /\ written = {script[n] : n \in 1 .. block - 1}
    /\ stub = "spored up" => bootstrap.files \subseteq written /\ GuardIsUp
    /\ stub = "left alone" => written \subseteq {"key", "pin"}

\* Encoded and counted back, bytes are as many as before.
LEMMA SizeIsKept ==
  ASSUME NEW b \in Nat
  PROVE  UserDataSize(EncodedLength(b), PaddingOf(b)) = [decoded |-> b, encoded |-> EncodedLength(b)]
<1> DEFINE q == b \div 3
           r == b % 3
           thirds == (b + 2) \div 3
<1>1. q \in Nat /\ r \in 0 .. 2 /\ b = 3 * q + r
  OBVIOUS
<1>2. thirds \in Nat /\ (4 * thirds) \div 4 = thirds
  OBVIOUS
<1>3. thirds * 3 - ((3 - r) % 3) = b
  <2>1. CASE r = 0
    <3>1. thirds = q /\ (3 - r) % 3 = 0
      BY <1>1, <2>1
    <3>2. QED
      BY <1>1, <2>1, <3>1
  <2>2. CASE r = 1
    <3>1. thirds = q + 1 /\ (3 - r) % 3 = 2
      BY <1>1, <2>2
    <3>2. QED
      BY <1>1, <2>2, <3>1
  <2>3. CASE r = 2
    <3>1. thirds = q + 1 /\ (3 - r) % 3 = 1
      BY <1>1, <2>3
    <3>2. QED
      BY <1>1, <2>3, <3>1
  <2>4. QED
    BY <1>1, <2>1, <2>2, <2>3
<1>4. (EncodedLength(b) \div 4) * 3 - PaddingOf(b) = b
  BY <1>2, <1>3 DEF EncodedLength, PaddingOf
<1>5. QED
  BY <1>4 DEF UserDataSize

\* What is too large here is what EC2 would refuse, and only for its bytes.
LEMMA TooLargeIs ==
  ASSUME NEW b \in Bootstraps
  PROVE  /\ TooLarge(b.size) <=> b.size > MaxBytes \/ EncodedLength(b.size) > MaxEncoded
         /\ TooLarge(b.size) => b.size > MaxBytes
<1>1. b.size \in Nat /\ MaxBytes \in Nat /\ MaxEncoded \in Nat /\ EncodedLength(MaxBytes) <= MaxEncoded
  BY UserDataConstants DEF EncodedLength
<1>2. TooLarge(b.size) <=> b.size > MaxBytes \/ EncodedLength(b.size) > MaxEncoded
  BY <1>1, SizeIsKept DEF TooLarge
<1>3. b.size <= MaxBytes => EncodedLength(b.size) <= EncodedLength(MaxBytes)
  <2>1. b.size <= MaxBytes => (b.size + 2) \div 3 <= (MaxBytes + 2) \div 3
    BY <1>1
  <2>2. (b.size + 2) \div 3 \in Nat /\ (MaxBytes + 2) \div 3 \in Nat
    BY <1>1
  <2>3. QED
    BY <2>1, <2>2 DEF EncodedLength
<1>4. EncodedLength(b.size) \in Nat /\ EncodedLength(MaxBytes) \in Nat
  BY <1>1 DEF EncodedLength
<1>5. QED
  BY <1>1, <1>2, <1>3, <1>4

\* One thing more at the end of a sequence.
LEMMA OneMore ==
  ASSUME NEW S, NEW s \in Seq(S), NEW x \in S
  PROVE  /\ s \o <<x>> \in Seq(S) /\ Len(s \o <<x>>) = Len(s) + 1 /\ (s \o <<x>>)[Len(s) + 1] = x
         /\ \A n \in 1 .. Len(s) : (s \o <<x>>)[n] = s[n]
<1>1. s \o <<x>> = Append(s, x)
  BY AppendIsConcat
<1>2. QED
  BY <1>1, AppendProperties

\* The blocks so far: key, pin, guard, and the files of a launch that came yet.
Blocks == {"key", "pin", "guard", "command", "config", "plugins", "body"}

ScriptBegins(s, came) ==
    /\ s \in Seq(Blocks) /\ Len(s) >= 3 /\ s[1] = "key" /\ s[2] = "pin" /\ s[3] = "guard"
    /\ \A n \in 1 .. Len(s) : s[n] # "body"
    /\ \A f \in came : \E n \in 4 .. Len(s) : s[n] = f

\* A file of the launch, where there is one, is one block more.
LEMMA NextBlock ==
  ASSUME NEW s, NEW came, ScriptBegins(s, came), NEW f \in {"command", "config", "plugins"}, NEW files
  PROVE  ScriptBegins(s \o BlockOf(f, files), came \cup ({f} \cap files))
<1> s \in Seq(Blocks) /\ Len(s) \in Nat
  BY DEF ScriptBegins
<1>1. CASE f \notin files
  <2>1. s \o BlockOf(f, files) = s
    BY <1>1 DEF BlockOf
  <2>2. came \cup ({f} \cap files) = came
    BY <1>1
  <2>3. QED
    BY <2>1, <2>2
<1>2. CASE f \in files
  <2> DEFINE t == s \o <<f>>
  <2>1. f \in Blocks /\ f # "body"
    BY DEF Blocks
  <2>2. t \in Seq(Blocks) /\ Len(t) = Len(s) + 1 /\ t[Len(s) + 1] = f /\ \A n \in 1 .. Len(s) : t[n] = s[n]
    BY <2>1, OneMore
  <2> HIDE DEF t
  <2>3. ScriptBegins(t, came \cup {f})
    <3>1. t[1] = "key" /\ t[2] = "pin" /\ t[3] = "guard" /\ Len(t) >= 3
      BY <2>2 DEF ScriptBegins
    <3>2. \A n \in 1 .. Len(t) : t[n] # "body"
      BY <2>1, <2>2 DEF ScriptBegins
    <3>3. \A g \in came \cup {f} : \E n \in 4 .. Len(t) : t[n] = g
      <4>1. ASSUME NEW g \in came PROVE \E n \in 4 .. Len(t) : t[n] = g
        <5>1. PICK n \in 4 .. Len(s) : s[n] = g
          BY DEF ScriptBegins
        <5>2. n \in 4 .. Len(t) /\ t[n] = g
          BY <2>2, <5>1
        <5>3. QED
          BY <5>2
      <4>2. Len(s) + 1 \in 4 .. Len(t) /\ t[Len(s) + 1] = f
        BY <2>2 DEF ScriptBegins
      <4>3. QED
        BY <4>1, <4>2
    <3>4. QED
      BY <2>2, <3>1, <3>2, <3>3 DEF ScriptBegins
  <2>4. s \o BlockOf(f, files) = t /\ came \cup ({f} \cap files) = came \cup {f}
    BY <1>2 DEF BlockOf, t
  <2>5. QED
    BY <2>3, <2>4
<1>3. QED
  BY <1>1, <1>2

\* The script: the guard is its third block, the body its last, the files between them.
LEMMA ScriptIs ==
  ASSUME NEW b \in Bootstraps
  PROVE  LET s == BuildLinuxBootstrap(b.files) IN
         /\ Len(s) \in Nat /\ Len(s) >= 4 /\ s[1] = "key" /\ s[2] = "pin" /\ s[3] = "guard"
         /\ \A n \in 1 .. Len(s) : s[n] = "body" <=> n = Len(s)
         /\ \A f \in b.files : \E n \in 4 .. Len(s) - 1 : s[n] = f
<1> DEFINE first == <<"key", "pin", "guard">>
           one == first \o BlockOf("command", b.files)
           two == one \o BlockOf("config", b.files)
           three == two \o BlockOf("plugins", b.files)
           s == BuildLinuxBootstrap(b.files)
<1>1. b.files \subseteq {"command", "config", "plugins"}
  BY UserDataConstants DEF Files
<1>2. s = three \o <<"body">>
  BY DEF BuildLinuxBootstrap
<1>3. ScriptBegins(first, {})
  <2>1. first \in Seq(Blocks)
    BY DEF Blocks
  <2>2. Len(first) = 3 /\ first[1] = "key" /\ first[2] = "pin" /\ first[3] = "guard"
    OBVIOUS
  <2>3. \A n \in 1 .. Len(first) : n \in {1, 2, 3}
    BY <2>2
  <2>4. QED
    BY <2>1, <2>2, <2>3 DEF ScriptBegins
<1> HIDE DEF first, one, two, three, s
<1>4. ScriptBegins(one, {} \cup ({"command"} \cap b.files))
  BY <1>3, NextBlock DEF one
<1>5. ScriptBegins(two, {} \cup ({"command"} \cap b.files) \cup ({"config"} \cap b.files))
  BY <1>4, NextBlock DEF two
<1>6. ScriptBegins(three, {} \cup ({"command"} \cap b.files) \cup ({"config"} \cap b.files) \cup ({"plugins"} \cap b.files))
  BY <1>5, NextBlock DEF three
<1>7. {} \cup ({"command"} \cap b.files) \cup ({"config"} \cap b.files) \cup ({"plugins"} \cap b.files) = b.files
  BY <1>1
<1>8. ScriptBegins(three, b.files)
  BY <1>6, <1>7
<1>9. /\ Len(s) = Len(three) + 1 /\ s[Len(three) + 1] = "body" /\ Len(three) \in Nat
      /\ \A n \in 1 .. Len(three) : s[n] = three[n]
  <2>1. three \in Seq(Blocks) /\ "body" \in Blocks
    BY <1>8 DEF ScriptBegins, Blocks
  <2>2. QED
    BY <1>2, <2>1, OneMore, LenProperties
<1>10. Len(s) \in Nat /\ Len(s) >= 4 /\ s[1] = "key" /\ s[2] = "pin" /\ s[3] = "guard"
  BY <1>8, <1>9 DEF ScriptBegins
<1>11. \A n \in 1 .. Len(s) : s[n] = "body" <=> n = Len(s)
  BY <1>8, <1>9 DEF ScriptBegins
<1>12. \A f \in b.files : \E n \in 4 .. Len(s) - 1 : s[n] = f
  <2> SUFFICES ASSUME NEW f \in b.files PROVE \E n \in 4 .. Len(s) - 1 : s[n] = f
    OBVIOUS
  <2>1. PICK n \in 4 .. Len(three) : three[n] = f
    BY <1>8 DEF ScriptBegins
  <2>2. n \in 4 .. Len(s) - 1 /\ s[n] = f
    BY <1>9, <2>1
  <2>3. QED
    BY <2>2
<1>13. QED
  BY <1>10, <1>11, <1>12 DEF s

\* A block that did its work is behind the next.
LEMMA BlockDoneKeeps == ASSUME BootInv, BlockDone PROVE BootInv'
<1> DEFINE s == BuildLinuxBootstrap(bootstrap.files)
<1>1. /\ stub = "booting" /\ block <= Len(script) /\ written' = written \cup {script[block]} /\ block' = block + 1
      /\ stub' = (IF script[block] = "body" THEN "spored up" ELSE stub) /\ UNCHANGED <<bootstrap, script>>
  BY DEF BlockDone
<1>2. bootstrap \in Bootstraps /\ script = s /\ block \in 1 .. Len(s) /\ written = {s[n] : n \in 1 .. block - 1}
  BY <1>1 DEF BootInv
<1>3. /\ Len(s) \in Nat /\ Len(s) >= 4 /\ s[3] = "guard"
      /\ \A n \in 1 .. Len(s) : s[n] = "body" <=> n = Len(s)
      /\ \A f \in bootstrap.files : \E n \in 4 .. Len(s) - 1 : s[n] = f
  BY <1>2, ScriptIs
<1> HIDE DEF s
<1>4. written' = {s[n] : n \in 1 .. block' - 1}
  <2>1. 1 .. block' - 1 = (1 .. block - 1) \cup {block}
    <3>1. block' = block + 1
      BY <1>1
    <3>2. block \in Nat /\ block >= 1
      BY <1>2, <1>3
    <3>3. QED
      BY <3>1, <3>2
  <2>2. QED
    BY <1>1, <1>2, <2>1
<1>5. CASE s[block] = "body"
  <2>1. block = Len(s) /\ stub' = "spored up"
    BY <1>1, <1>2, <1>3, <1>5
  <2>2. \A n \in 1 .. Len(s) : s[n] \in written'
    <3>1. block' = Len(s) + 1
      BY <1>1, <2>1
    <3>2. block' - 1 = Len(s)
      BY <1>3, <3>1
    <3>3. QED
      BY <1>4, <3>2
  <2>3. bootstrap.files \subseteq written' /\ "guard" \in written'
    BY <1>3, <2>2
  <2>4. QED
    BY <1>1, <1>2, <2>1, <2>3 DEF BootInv, GuardIsUp
<1>6. CASE s[block] # "body"
  <2>1. stub' = "booting" /\ block' \in 1 .. Len(s)
    BY <1>1, <1>2, <1>3, <1>6
  <2>2. QED
    BY <1>1, <1>2, <1>4, <2>1 DEF BootInv, s
<1>7. QED
  BY <1>5, <1>6

\* A script that ends before the guard has only its first two blocks.
LEMMA BlockFailsKeeps == ASSUME BootInv, BlockFails PROVE BootInv'
<1> DEFINE s == BuildLinuxBootstrap(bootstrap.files)
<1>1. /\ stub = "booting" /\ stub' = (IF GuardIsUp THEN "retired" ELSE "left alone")
      /\ UNCHANGED <<bootstrap, script, block, written>>
  BY DEF BlockFails
<1>2. bootstrap \in Bootstraps /\ script = s /\ block \in 1 .. Len(s) /\ written = {s[n] : n \in 1 .. block - 1}
  BY <1>1 DEF BootInv
<1>3. Len(s) \in Nat /\ Len(s) >= 4 /\ s[1] = "key" /\ s[2] = "pin" /\ s[3] = "guard"
  BY <1>2, ScriptIs
<1> HIDE DEF s
<1>4. ASSUME ~ GuardIsUp PROVE written \subseteq {"key", "pin"}
  <2>1. ~ (3 \in 1 .. block - 1)
    BY <1>2, <1>3, <1>4 DEF GuardIsUp
  <2>2. block \in 1 .. 3
    BY <1>2, <1>3, <2>1
  <2>3. \A n \in 1 .. block - 1 : n \in {1, 2}
    BY <2>2
  <2>4. QED
    BY <1>2, <1>3, <2>3
<1>5. QED
  BY <1>1, <1>2, <1>4 DEF BootInv

\* Before anything is sent nothing was written.
LEMMA BootStarts == UserDataInit => BootInv
BY DEF UserDataInit, BootInv

\* No step of a boot loses a file.
LEMMA BootKeeps == BootInv /\ [UserDataNext]_userDataVars => BootInv'
<1> SUFFICES ASSUME BootInv, [UserDataNext]_userDataVars PROVE BootInv'
  OBVIOUS
<1>1. CASE StubRefused
  BY <1>1 DEF StubRefused, BootInv
<1>2. CASE StubSent
  BY <1>2 DEF StubSent, BootInv
<1>3. CASE Ec2Answers
  <2>1. stub = "sent" /\ UNCHANGED <<bootstrap, script, block, written>>
    BY <1>3 DEF Ec2Answers
  <2>2. bootstrap \in Bootstraps /\ ~ TooLarge(bootstrap.size)
    BY <2>1 DEF BootInv
  <2>3. stub' = "booting"
    BY <1>3, <2>2, TooLargeIs DEF Ec2Answers
  <2>4. script = BuildLinuxBootstrap(bootstrap.files) /\ block = 1 /\ written = {}
    BY <2>1 DEF BootInv
  <2>5. block \in 1 .. Len(script) /\ written = {script[n] : n \in 1 .. block - 1}
    <3>1. Len(script) \in Nat /\ Len(script) >= 4
      BY <2>2, <2>4, ScriptIs
    <3>2. 1 .. 1 - 1 = {}
      OBVIOUS
    <3>3. QED
      BY <2>4, <3>1, <3>2
  <2>6. QED
    BY <2>1, <2>2, <2>3, <2>4, <2>5 DEF BootInv
<1>4. CASE BlockDone
  BY <1>4, BlockDoneKeeps
<1>5. CASE BlockFails
  BY <1>5, BlockFailsKeeps
<1>6. CASE UNCHANGED userDataVars
  BY <1>6 DEF userDataVars, BootInv, GuardIsUp
<1>7. QED
  BY <1>1, <1>2, <1>3, <1>4, <1>5, <1>6 DEF UserDataNext

(***************************************************************************)
(* spored finds the files of the launch when it starts; an instance that   *)
(* boots without it is retired, unless the script died before it could     *)
(* know how; and user data is refused here exactly where EC2 would refuse  *)
(* it, for its bytes (userdata.ts:138-153, 355-402), whatever its limits   *)
(* are, so long as the bytes it allows fit in the text it allows.          *)
(***************************************************************************)
THEOREM BootAlwaysFindsItsFiles == UserDataSpec => []BootFindsItsFiles
<1>1. BootInv => BootFindsItsFiles
  BY TooLargeIs DEF BootInv, BootFindsItsFiles
<1>2. QED
  BY <1>1, BootStarts, BootKeeps, PTL DEF UserDataSpec

-----------------------------------------------------------------------------
(***************************************************************************)
(* Labels.  What was squeezed so far neither leads with a hyphen nor holds *)
(* two in a row, and is there as soon as one character fits.               *)
(***************************************************************************)
Characters == STRING

Squeezes(s) ==
    /\ s \in Seq(Characters)
    /\ s # <<>> => s[1] # "-"
    /\ \A n \in 1 .. Len(s) - 1 : s[n] # "-" \/ s[n + 1] # "-"

\* What slugifyDnsLabel should give of a name.
IsLabel(s) ==
    /\ Squeezes(s) /\ Len(s) <= MaxLabel
    /\ s # <<>> => s[Len(s)] # "-"

\* The squeezed text after m characters of a name.
SqueezedTo(chars, m, out) ==
    out = [n \in 0 .. m |-> IF n = 0 THEN <<>> ELSE Squeeze(out[n - 1], chars[n])]

\* Whatever the name, it is squeezed character by character.
LEMMA SqueezeExists ==
  ASSUME NEW chars \in Seq(Characters)
  PROVE  \A m \in 0 .. Len(chars) : \E out : SqueezedTo(chars, m, out)
<1> DEFINE None == {m \in 0 .. Len(chars) : ~ \E out : SqueezedTo(chars, m, out)}
<1>1. Len(chars) \in Nat /\ None \subseteq Nat
  OBVIOUS
<1> HIDE DEF None
<1>2. None = {}
  <2> SUFFICES ASSUME None # {} PROVE FALSE
    OBVIOUS
  <2>1. PICK m \in None : \A k \in None : m <= k
    BY <1>1, FirstOne
  <2>2. m \in 0 .. Len(chars) /\ m \in Nat /\ ~ \E out : SqueezedTo(chars, m, out)
    BY <1>1, <2>1 DEF None
  <2>3. CASE m = 0
    <3> DEFINE out == [n \in 0 .. 0 |-> <<>>]
    <3>1. out = [n \in 0 .. 0 |-> IF n = 0 THEN <<>> ELSE Squeeze(out[n - 1], chars[n])]
      <4>1. \A n \in 0 .. 0 : n = 0
        OBVIOUS
      <4>2. QED
        BY <4>1
    <3>2. QED
      BY <2>2, <2>3, <3>1 DEF SqueezedTo
  <2>4. CASE m > 0
    <3>1. m - 1 \in 0 .. Len(chars) /\ m - 1 \notin None
      BY <1>1, <2>1, <2>2, <2>4
    <3>2. PICK before : SqueezedTo(chars, m - 1, before)
      BY <3>1 DEF None
    <3>3. before = [n \in 0 .. m - 1 |-> IF n = 0 THEN <<>> ELSE Squeeze(before[n - 1], chars[n])]
      BY <3>2 DEF SqueezedTo
    <3> DEFINE out == [n \in 0 .. m |-> IF n = m THEN Squeeze(before[m - 1], chars[m]) ELSE before[n]]
    <3>4. ASSUME NEW n \in 0 .. m
          PROVE  out[n] = IF n = 0 THEN <<>> ELSE Squeeze(out[n - 1], chars[n])
      <4>1. CASE n = m
        <5>1. n # 0 /\ n - 1 \in 0 .. m /\ n - 1 # m
          BY <2>2, <2>4, <4>1
        <5>2. out[n - 1] = before[n - 1]
          BY <5>1
        <5>3. QED
          BY <4>1, <5>1, <5>2
      <4>2. CASE n # m /\ n = 0
        <5>1. n \in 0 .. m - 1
          BY <2>2, <2>4, <4>2
        <5>2. QED
          BY <3>3, <4>2, <5>1
      <4>3. CASE n # m /\ n # 0
        <5>1. n \in 0 .. m - 1 /\ n - 1 \in 0 .. m /\ n - 1 # m
          BY <2>2, <4>3
        <5>2. out[n] = before[n] /\ out[n - 1] = before[n - 1]
          BY <4>3, <5>1
        <5>3. before[n] = Squeeze(before[n - 1], chars[n])
          BY <3>3, <4>3, <5>1
        <5>4. QED
          BY <4>3, <5>2, <5>3
      <4>4. QED
        BY <4>1, <4>2, <4>3
    <3>5. SqueezedTo(chars, m, out)
      <4>1. out = [n \in 0 .. m |-> out[n]]
        OBVIOUS
      <4> HIDE DEF out
      <4>2. QED
        BY <3>4, <4>1 DEF SqueezedTo
    <3>6. QED
      BY <2>2, <3>5
  <2>5. QED
    BY <2>2, <2>3, <2>4
<1>3. QED
  BY <1>2 DEF None

\* Of a function on the characters of a name, what holds of nothing and goes on with each holds of the whole.
LEMMA SqueezeGoesOn ==
  ASSUME NEW chars \in Seq(Characters)
  PROVE  \E out : /\ out[0] = <<>> /\ \A n \in 1 .. Len(chars) : out[n] = Squeeze(out[n - 1], chars[n])
                  /\ Squeezed(chars) = out[Len(chars)]
<1>1. Len(chars) \in Nat /\ Len(chars) \in 0 .. Len(chars)
  OBVIOUS
<1> DEFINE all == CHOOSE out : out = [n \in 0 .. Len(chars) |-> IF n = 0 THEN <<>> ELSE Squeeze(out[n - 1], chars[n])]
<1>2. SqueezedTo(chars, Len(chars), all)
  BY <1>1, SqueezeExists DEF SqueezedTo
<1>3. Squeezed(chars) = all[Len(chars)]
  BY DEF Squeezed
<1> HIDE DEF all
<1>4. all = [n \in 0 .. Len(chars) |-> IF n = 0 THEN <<>> ELSE Squeeze(all[n - 1], chars[n])]
  BY <1>2 DEF SqueezedTo
<1>5. 0 \in 0 .. Len(chars) /\ \A n \in 1 .. Len(chars) : n \in 0 .. Len(chars) /\ n # 0
  BY <1>1
<1>6. QED
  BY <1>3, <1>4, <1>5

\* One character more.
LEMMA SqueezeOneMore ==
  ASSUME NEW s, Squeezes(s), NEW ch \in Characters
  PROVE  Squeezes(Squeeze(s, ch)) /\ (s # <<>> \/ ch # "-" => Squeeze(s, ch) # <<>>)
<1>1. s \in Seq(Characters) /\ Len(s) \in Nat
  BY DEF Squeezes
<1>2. Squeeze(s, ch) = s \/ (Squeeze(s, ch) = Append(s, ch) /\ (ch # "-" \/ (s # <<>> /\ s[Len(s)] # "-")))
  BY <1>1 DEF Squeeze, Last
<1>3. s # <<>> \/ ch # "-" => Squeeze(s, ch) # <<>>
  <2>1. Append(s, ch) # <<>>
    BY <1>1, AppendProperties
  <2>2. ch # "-" => Squeeze(s, ch) = Append(s, ch)
    BY DEF Squeeze
  <2>3. QED
    BY <1>2, <2>1, <2>2
<1>4. ASSUME ch # "-" \/ (s # <<>> /\ s[Len(s)] # "-")
      PROVE  Squeezes(Append(s, ch))
  <2> DEFINE t == Append(s, ch)
  <2>1. t \in Seq(Characters) /\ Len(t) = Len(s) + 1 /\ t[Len(s) + 1] = ch /\ \A n \in 1 .. Len(s) : t[n] = s[n]
    BY <1>1
  <2> HIDE DEF t
  <2>2. t[1] # "-"
    <3>1. CASE s = <<>>
      BY <1>4, <2>1, <3>1
    <3>2. CASE s # <<>>
      <4>1. 1 \in 1 .. Len(s)
        BY <1>1, <3>2
      <4>2. QED
        BY <2>1, <3>2, <4>1 DEF Squeezes
    <3>3. QED
      BY <3>1, <3>2
  <2>3. ASSUME NEW n \in 1 .. Len(t) - 1 PROVE t[n] # "-" \/ t[n + 1] # "-"
    <3>1. CASE n = Len(s)
      <4>0. Len(t) - 1 = Len(s)
        BY <1>1, <2>1
      <4>1. n \in 1 .. Len(s) /\ n + 1 = Len(s) + 1
        BY <3>1, <4>0
      <4>3. t[n] = s[Len(s)] /\ t[n + 1] = ch
        BY <2>1, <3>1, <4>1
      <4>2. s # <<>>
        BY <4>1
      <4>4. QED
        BY <1>4, <4>2, <4>3
    <3>2. CASE n # Len(s)
      <4>1. n \in 1 .. Len(s) - 1 /\ n \in 1 .. Len(s) /\ n + 1 \in 1 .. Len(s)
        BY <1>1, <2>1, <3>2
      <4>2. QED
        BY <2>1, <4>1 DEF Squeezes
    <3>3. QED
      BY <3>1, <3>2
  <2>4. QED
    BY <2>1, <2>2, <2>3 DEF t, Squeezes
<1>5. QED
  BY <1>2, <1>3, <1>4

\* What is squeezed of a name.
LEMMA SqueezedIs ==
  ASSUME NEW chars \in Seq(Characters)
  PROVE  Squeezes(Squeezed(chars)) /\ ((\E n \in DOMAIN chars : chars[n] # "-") => Squeezed(chars) # <<>>)
<1>1. Len(chars) \in Nat /\ DOMAIN chars = 1 .. Len(chars)
  OBVIOUS
<1>2. PICK out : /\ out[0] = <<>> /\ \A n \in 1 .. Len(chars) : out[n] = Squeeze(out[n - 1], chars[n])
                 /\ Squeezed(chars) = out[Len(chars)]
  BY SqueezeGoesOn
<1> DEFINE KeepsTo(m) == Squeezes(out[m]) /\ \A n \in 1 .. m : chars[n] # "-" => out[m] # <<>>
           Bad == {m \in 0 .. Len(chars) : ~ KeepsTo(m)}
<1>3. Bad = {}
  <2> SUFFICES ASSUME Bad # {} PROVE FALSE
    OBVIOUS
  <2>1. Bad \subseteq Nat
    BY <1>1
  <2> HIDE DEF Bad
  <2>2. PICK m \in Bad : \A k \in Bad : m <= k
    BY <2>1, FirstOne
  <2>3. m \in 0 .. Len(chars) /\ m \in Nat /\ ~ KeepsTo(m)
    BY <2>1, <2>2 DEF Bad
  <2>4. m # 0
    <3>1. Squeezes(<<>>)
      BY DEF Squeezes
    <3>2. QED
      BY <1>2, <2>3, <3>1
  <2>5. m - 1 \in 0 .. Len(chars) /\ m \in 1 .. Len(chars) /\ m - 1 \notin Bad
    BY <1>1, <2>2, <2>3, <2>4
  <2>6. KeepsTo(m - 1)
    BY <2>5 DEF Bad
  <2>7. out[m] = Squeeze(out[m - 1], chars[m]) /\ chars[m] \in Characters
    BY <1>1, <1>2, <2>5
  <2>8. Squeezes(out[m]) /\ (out[m - 1] # <<>> \/ chars[m] # "-" => out[m] # <<>>)
    BY <2>6, <2>7, SqueezeOneMore
  <2>9. ASSUME NEW n \in 1 .. m, chars[n] # "-" PROVE out[m] # <<>>
    <3>1. CASE n = m
      BY <2>8, <2>9, <3>1
    <3>2. CASE n # m
      <4>1. n \in 1 .. m - 1
        BY <2>3, <3>2
      <4>2. QED
        BY <2>6, <2>8, <2>9, <4>1
    <3>3. QED
      BY <3>1, <3>2
  <2>10. QED
    BY <2>3, <2>8, <2>9
<1>4. KeepsTo(Len(chars))
  BY <1>1, <1>3
<1>5. QED
  BY <1>1, <1>2, <1>4

\* Without its last hyphen it ends in what fits.
LEMMA TrimmedIs ==
  ASSUME NEW s, Squeezes(s)
  PROVE  /\ Squeezes(TrimEnd(s)) /\ Len(TrimEnd(s)) <= Len(s) /\ (s # <<>> => TrimEnd(s) # <<>>)
         /\ TrimEnd(s) # <<>> => TrimEnd(s)[Len(TrimEnd(s))] # "-"
<1>1. s \in Seq(Characters) /\ Len(s) \in Nat
  BY DEF Squeezes
<1>2. CASE s = <<>> \/ s[Len(s)] # "-"
  <2>1. TrimEnd(s) = s
    BY <1>1, <1>2 DEF TrimEnd, Last
  <2>2. QED
    BY <1>1, <1>2, <2>1
<1>3. CASE s # <<>> /\ s[Len(s)] = "-"
  <2> DEFINE t == SubSeq(s, 1, Len(s) - 1)
  <2>1. TrimEnd(s) = t
    BY <1>1, <1>3 DEF TrimEnd, Last, Front
  <2>2. Len(s) # 1 /\ Len(s) > 1
    BY <1>1, <1>3 DEF Squeezes
  <2>3. t \in Seq(Characters) /\ Len(t) = Len(s) - 1 /\ \A n \in 1 .. Len(s) - 1 : t[n] = s[n]
    BY <1>1, <2>2
  <2> HIDE DEF t
  <2>4. 1 \in 1 .. Len(s) - 1 /\ Len(s) - 1 \in 1 .. Len(s) - 1 /\ t # <<>>
    BY <1>1, <2>2, <2>3
  <2>5. t[1] # "-"
    BY <1>3, <2>3, <2>4 DEF Squeezes
  <2>6. ASSUME NEW n \in 1 .. Len(t) - 1 PROVE t[n] # "-" \/ t[n + 1] # "-"
    <3>1. n \in 1 .. Len(s) - 1 /\ n + 1 \in 1 .. Len(s) - 1
      BY <1>1, <2>3
    <3>2. QED
      BY <2>3, <3>1 DEF Squeezes
  <2>7. Squeezes(t)
    BY <2>3, <2>5, <2>6 DEF Squeezes
  <2>8. t[Len(t)] # "-"
    <3>1. s[Len(s) - 1] # "-" \/ s[(Len(s) - 1) + 1] # "-"
      BY <2>4 DEF Squeezes
    <3>2. (Len(s) - 1) + 1 = Len(s)
      BY <1>1
    <3>3. QED
      BY <1>3, <2>3, <2>4, <3>1, <3>2
  <2>9. Len(t) <= Len(s)
    BY <1>1, <2>3
  <2>10. QED
    BY <2>1, <2>4, <2>7, <2>8, <2>9
<1>4. QED
  BY <1>2, <1>3

\* What fits of it is squeezed as well.
LEMMA CutIs ==
  ASSUME NEW s, Squeezes(s), Len(s) > MaxLabel
  PROVE  Squeezes(SubSeq(s, 1, MaxLabel)) /\ Len(SubSeq(s, 1, MaxLabel)) = MaxLabel
<1>1. s \in Seq(Characters) /\ Len(s) \in Nat /\ MaxLabel \in Nat \ {0}
  BY ContractConstants DEF Squeezes
<1> DEFINE t == SubSeq(s, 1, MaxLabel)
<1>2. t \in Seq(Characters) /\ Len(t) = MaxLabel /\ \A n \in 1 .. MaxLabel : t[n] = s[n]
  BY <1>1
<1> HIDE DEF t
<1>3. 1 \in 1 .. MaxLabel /\ s # <<>> /\ t[1] # "-"
  <2>1. 1 \in 1 .. MaxLabel /\ s # <<>>
    BY <1>1
  <2>2. QED
    BY <1>2, <2>1 DEF Squeezes
<1>4. ASSUME NEW n \in 1 .. Len(t) - 1 PROVE t[n] # "-" \/ t[n + 1] # "-"
  <2>1. n \in 1 .. MaxLabel /\ n + 1 \in 1 .. MaxLabel /\ n \in 1 .. Len(s) - 1
    BY <1>1, <1>2
  <2>2. QED
    BY <1>2, <2>1 DEF Squeezes
<1>5. Squeezes(t)
  BY <1>2, <1>3, <1>4 DEF Squeezes
<1>6. QED
  BY <1>2, <1>5 DEF t

\* Every name gives a label, and one that is there when a character fits.
LEMMA SlugIsLabel ==
  ASSUME NEW chars \in Seq(Characters)
  PROVE  IsLabel(SlugifyDnsLabel(chars)) /\ ((\E n \in DOMAIN chars : chars[n] # "-") => SlugifyDnsLabel(chars) # <<>>)
<1> DEFINE s == TrimEnd(Squeezed(chars))
<1>1. Squeezes(s) /\ (s # <<>> => s[Len(s)] # "-") /\ ((\E n \in DOMAIN chars : chars[n] # "-") => s # <<>>)
  BY SqueezedIs, TrimmedIs
<1>2. SlugifyDnsLabel(chars) = IF Len(s) > MaxLabel THEN TrimEnd(SubSeq(s, 1, MaxLabel)) ELSE s
  BY DEF SlugifyDnsLabel
<1> HIDE DEF s
<1>3. s \in Seq(Characters) /\ Len(s) \in Nat /\ MaxLabel \in Nat \ {0}
  BY <1>1, ContractConstants DEF Squeezes
<1>4. CASE Len(s) > MaxLabel
  <2> DEFINE t == SubSeq(s, 1, MaxLabel)
  <2>1. Squeezes(t) /\ Len(t) = MaxLabel
    BY <1>1, <1>4, CutIs
  <2>2. t # <<>>
    BY <1>3, <2>1
  <2> HIDE DEF t
  <2>3. /\ Squeezes(TrimEnd(t)) /\ Len(TrimEnd(t)) <= MaxLabel /\ TrimEnd(t) # <<>>
        /\ TrimEnd(t)[Len(TrimEnd(t))] # "-"
    BY <2>1, <2>2, TrimmedIs
  <2>4. QED
    BY <1>2, <1>4, <2>3 DEF IsLabel, t
<1>5. CASE ~ (Len(s) > MaxLabel)
  <2>1. Len(s) <= MaxLabel
    BY <1>3, <1>5
  <2>2. QED
    BY <1>1, <1>2, <1>5, <2>1 DEF IsLabel
<1>6. QED
  BY <1>4, <1>5

\* A label is its own.
LEMMA LabelIsItsOwn ==
  ASSUME NEW s, IsLabel(s)
  PROVE  SlugifyDnsLabel(s) = s
<1>1. s \in Seq(Characters) /\ Len(s) \in Nat /\ MaxLabel \in Nat \ {0} /\ Squeezes(s) /\ Len(s) <= MaxLabel
  BY ContractConstants DEF IsLabel, Squeezes
<1>2. PICK out : /\ out[0] = <<>> /\ \A n \in 1 .. Len(s) : out[n] = Squeeze(out[n - 1], s[n])
                 /\ Squeezed(s) = out[Len(s)]
  BY <1>1, SqueezeGoesOn
<1> DEFINE Bad == {m \in 0 .. Len(s) : out[m] # SubSeq(s, 1, m)}
<1>3. Bad = {}
  <2> SUFFICES ASSUME Bad # {} PROVE FALSE
    OBVIOUS
  <2>1. Bad \subseteq Nat
    BY <1>1
  <2> HIDE DEF Bad
  <2>2. PICK m \in Bad : \A k \in Bad : m <= k
    BY <2>1, FirstOne
  <2>3. m \in 0 .. Len(s) /\ m \in Nat /\ out[m] # SubSeq(s, 1, m)
    BY <2>1, <2>2 DEF Bad
  <2>4. m # 0
    <3>1. SubSeq(s, 1, 0) = <<>>
      BY <1>1
    <3>2. QED
      BY <1>2, <2>3, <3>1
  <2>5. m - 1 \in 0 .. Len(s) /\ m \in 1 .. Len(s) /\ m - 1 \notin Bad
    BY <1>1, <2>2, <2>3, <2>4
  <2>6. out[m] = Squeeze(SubSeq(s, 1, m - 1), s[m])
    BY <1>2, <2>5 DEF Bad
  <2> DEFINE t == SubSeq(s, 1, m - 1)
  <2>7. t \in Seq(Characters) /\ Len(t) = m - 1 /\ \A n \in 1 .. m - 1 : t[n] = s[n]
    BY <1>1, <2>5
  <2>8. Append(t, s[m]) = SubSeq(s, 1, m)
    <3>1. Append(t, s[m]) \in Seq(Characters) /\ Len(Append(t, s[m])) = m
          /\ \A n \in 1 .. m : Append(t, s[m])[n] = s[n]
      BY <1>1, <2>5, <2>7
    <3>2. SubSeq(s, 1, m) \in Seq(Characters) /\ Len(SubSeq(s, 1, m)) = m /\ \A n \in 1 .. m : SubSeq(s, 1, m)[n] = s[n]
      BY <1>1, <2>5
    <3> HIDE DEF t
    <3>3. QED
      BY <3>1, <3>2, SeqEqual
  <2> HIDE DEF t
  <2>9. s[m] # "-" \/ (t # <<>> /\ t[Len(t)] # "-")
    <3>1. CASE m = 1
      <4>1. s # <<>>
        BY <1>1, <2>5, <3>1
      <4>2. QED
        BY <1>1, <3>1, <4>1 DEF Squeezes
    <3>2. CASE m # 1
      <4>1. m - 1 \in 1 .. Len(s) - 1 /\ m - 1 \in 1 .. m - 1 /\ (m - 1) + 1 = m
        BY <1>1, <2>5, <3>2
      <4>2. s[m - 1] # "-" \/ s[m] # "-"
        BY <1>1, <4>1 DEF Squeezes
      <4>3. t # <<>> /\ t[Len(t)] = s[m - 1]
        BY <2>7, <4>1
      <4>4. QED
        BY <4>2, <4>3
    <3>3. QED
      BY <3>1, <3>2
  <2>10. Squeeze(t, s[m]) = Append(t, s[m])
    BY <2>7, <2>9 DEF Squeeze, Last
  <2>11. QED
    BY <2>3, <2>6, <2>8, <2>10 DEF t
<1>4. Squeezed(s) = s
  <2>1. out[Len(s)] = SubSeq(s, 1, Len(s))
    BY <1>1, <1>3
  <2>2. SubSeq(s, 1, Len(s)) = s
    BY <1>1
  <2>3. QED
    BY <1>2, <2>1, <2>2
<1>5. TrimEnd(s) = s
  BY <1>1 DEF IsLabel, TrimEnd, Last
<1>6. QED
  BY <1>1, <1>4, <1>5 DEF SlugifyDnsLabel

\* The label an instance is registered under, of its name as it was asked for.
StoredLabel == IF Has(store, "dns-name") THEN store["dns-name"] ELSE <<>>
LabelInv ==
    /\ ask \in Asks /\ (told = "asked" => store = <<>>)
    /\ told \in {"launched", "listed"} => StoredLabel = SlugifyDnsLabel(ask.name)

\* A launch writes the label, and nobody spoils it; what is valid of it is so for good.
LEMMA LabelKeeps == (ContractInit => LabelInv) /\ (LabelInv /\ [ContractNext]_contractVars => LabelInv')
<1>1. ASSUME ContractInit PROVE LabelInv
  BY <1>1 DEF ContractInit, LabelInv
<1>2. ASSUME LabelInv, ContractLaunched PROVE LabelInv'
  <2> DEFINE others == WrittenOf(ask.opts) \cup {"managed", "launch-time"} \cup (IF ask.opts["ttl"] > 0 THEN {"ttl-deadline"} ELSE {})
             labels == [k \in {"dns-name", "account-name"} |-> SlugifyDnsLabel(IF k = "dns-name" THEN ask.name ELSE ask.alias)]
             all == others \cup {k \in DOMAIN labels : labels[k] # <<>>}
  <2>1. "dns-name" \notin others /\ "dns-name" \notin InObject
    BY DEF WrittenOf, OptionTags, SpanTags, CountTags, WordTags, FlagTags, InObject
  <2>2. LaunchTags(ask) = [k \in all |->
            CASE k \in {"dns-name", "account-name"} -> labels[k]
              [] k = "managed"      -> 1
              [] k = "launch-time"  -> LaunchTime
              [] k = "ttl-deadline" -> LaunchTime + ask.opts["ttl"]
              [] OTHER              -> ask.opts[k]]
    BY DEF LaunchTags
  <2>3. labels["dns-name"] = SlugifyDnsLabel(ask.name) /\ "dns-name" \in DOMAIN labels
    OBVIOUS
  <2> HIDE DEF others, labels
  <2>4. "dns-name" \in all <=> SlugifyDnsLabel(ask.name) # <<>>
    BY <2>1, <2>3
  <2>5. DOMAIN LaunchTags(ask) = all /\ ("dns-name" \in all => LaunchTags(ask)["dns-name"] = SlugifyDnsLabel(ask.name))
    BY <2>2, <2>3, Zenon
  <2> HIDE DEF all
  <2>6. store' = [k \in all \ (IF billed THEN InObject ELSE {}) |-> LaunchTags(ask)[k]]
    BY <1>2, <2>5 DEF ContractLaunched, Without
  <2>7. Has(store', "dns-name") <=> SlugifyDnsLabel(ask.name) # <<>>
    BY <2>1, <2>4, <2>6 DEF Has
  <2>8. Has(store', "dns-name") => store'["dns-name"] = SlugifyDnsLabel(ask.name)
    <3>1. Has(store', "dns-name") => store'["dns-name"] = LaunchTags(ask)["dns-name"]
      BY <2>6 DEF Has
    <3>2. QED
      BY <2>4, <2>5, <2>7, <3>1
  <2>9. StoredLabel' = SlugifyDnsLabel(ask.name)
    BY <2>7, <2>8 DEF StoredLabel, Has
  <2>10. ask' = ask /\ told' = "launched"
    BY <1>2 DEF ContractLaunched
  <2>11. QED
    BY <1>2, <2>9, <2>10 DEF LabelInv
<1>3. ASSUME LabelInv, NEW k \in Spoilable, Spoils(k) PROVE LabelInv'
  <2>1. k # "dns-name"
    BY ContractConstants DEF OptionTags, SpanTags, CountTags, WordTags, FlagTags
  <2>2. /\ store' = [x \in DOMAIN store \ {k} |-> store[x]] \/ store' = [store EXCEPT ![k] = Odd]
        /\ ask' = ask /\ told' = told /\ told \in {"launched", "listed"}
    BY <1>3 DEF Spoils, Without
  <2>3. StoredLabel' = StoredLabel
    BY <2>1, <2>2 DEF StoredLabel, Has
  <2>4. QED
    BY <1>3, <2>2, <2>3 DEF LabelInv
<1>4. ASSUME LabelInv, ContractRefused \/ ContractListed \/ UNCHANGED contractVars PROVE LabelInv'
  <2>1. store' = store /\ ask' = ask /\ (told' = told \/ told' = "refused" \/ (told \in {"launched", "listed"} /\ told' \in {"listed", "missing"}))
    BY <1>4 DEF ContractRefused, ContractListed, contractVars
  <2>2. StoredLabel' = StoredLabel
    BY <2>1 DEF StoredLabel, Has
  <2>3. QED
    BY <1>4, <2>1, <2>2 DEF LabelInv
<1>5. QED
  BY <1>1, <1>2, <1>3, <1>4 DEF ContractNext

\* What is registered is a label.
LEMMA LabelValid == LabelInv => LabelIsValid
<1> SUFFICES ASSUME LabelInv, told \in {"launched", "listed"}
             PROVE  /\ StoredLabel # <<>> => Head(StoredLabel) # "-" /\ Last(StoredLabel) # "-" /\ Len(StoredLabel) <= MaxLabel
                    /\ \A n \in 1 .. Len(StoredLabel) - 1 : StoredLabel[n] # "-" \/ StoredLabel[n + 1] # "-"
                    /\ SlugifyDnsLabel(StoredLabel) = StoredLabel
                    /\ StoredLabel = <<>> => \A n \in DOMAIN ask.name : ask.name[n] = "-"
  BY DEF LabelIsValid, StoredLabel
<1>1. ask.name \in Seq(Characters)
  BY ContractConstants DEF LabelInv, Characters
<1>2. IsLabel(StoredLabel) /\ ((\E n \in DOMAIN ask.name : ask.name[n] # "-") => StoredLabel # <<>>)
  BY <1>1, SlugIsLabel DEF LabelInv
<1>3. SlugifyDnsLabel(StoredLabel) = StoredLabel
  BY <1>2, LabelIsItsOwn
<1>4. StoredLabel # <<>> => Head(StoredLabel) # "-" /\ Last(StoredLabel) # "-"
  <2>1. StoredLabel \in Seq(Characters)
    BY <1>2 DEF IsLabel, Squeezes
  <2>2. StoredLabel # <<>> => Head(StoredLabel) = StoredLabel[1] /\ Last(StoredLabel) = StoredLabel[Len(StoredLabel)]
    BY <2>1 DEF Last
  <2>3. QED
    BY <1>2, <2>2 DEF IsLabel, Squeezes
<1>5. QED
  BY <1>2, <1>3, <1>4 DEF IsLabel, Squeezes

(***************************************************************************)
(* The object.  What is kept of a sequence is what is in the set; each     *)
(* unit is written so that its reader finds it.                            *)
(***************************************************************************)
\* What is kept of the first m.
KeptTo(s, S, m, kept) ==
    kept = [n \in 0 .. m |-> IF n = 0 THEN <<>> ELSE IF s[n] \in S THEN Append(kept[n - 1], s[n]) ELSE kept[n - 1]]

\* One by one, whatever the sequence.
LEMMA KeptExists ==
  ASSUME NEW T, NEW s \in Seq(T), NEW S
  PROVE  \A m \in 0 .. Len(s) : \E kept : KeptTo(s, S, m, kept)
<1> DEFINE None == {m \in 0 .. Len(s) : ~ \E kept : KeptTo(s, S, m, kept)}
           Onto(before, m) == IF s[m] \in S THEN Append(before, s[m]) ELSE before
<1>1. Len(s) \in Nat /\ None \subseteq Nat
  OBVIOUS
<1> HIDE DEF None
<1>2. None = {}
  <2> SUFFICES ASSUME None # {} PROVE FALSE
    OBVIOUS
  <2>1. PICK m \in None : \A k \in None : m <= k
    BY <1>1, FirstOne
  <2>2. m \in 0 .. Len(s) /\ m \in Nat /\ ~ \E kept : KeptTo(s, S, m, kept)
    BY <1>1, <2>1 DEF None
  <2>3. CASE m = 0
    <3> DEFINE kept == [n \in 0 .. 0 |-> <<>>]
    <3>1. kept = [n \in 0 .. 0 |-> IF n = 0 THEN <<>> ELSE Onto(kept[n - 1], n)]
      <4>1. \A n \in 0 .. 0 : n = 0
        OBVIOUS
      <4>2. QED
        BY <4>1
    <3>2. QED
      BY <2>2, <2>3, <3>1 DEF KeptTo
  <2>4. CASE m > 0
    <3>1. m - 1 \in 0 .. Len(s) /\ m - 1 \notin None
      BY <1>1, <2>1, <2>2, <2>4
    <3>2. PICK before : KeptTo(s, S, m - 1, before)
      BY <3>1 DEF None
    <3>3. before = [n \in 0 .. m - 1 |-> IF n = 0 THEN <<>> ELSE Onto(before[n - 1], n)]
      BY <3>2 DEF KeptTo
    <3> HIDE DEF Onto
    <3> DEFINE kept == [n \in 0 .. m |-> IF n = m THEN Onto(before[m - 1], m) ELSE before[n]]
    <3>4. ASSUME NEW n \in 0 .. m
          PROVE  kept[n] = IF n = 0 THEN <<>> ELSE Onto(kept[n - 1], n)
      <4>1. CASE n = m
        <5>1. n # 0 /\ n - 1 \in 0 .. m /\ n - 1 # m
          BY <2>2, <2>4, <4>1
        <5>2. kept[n - 1] = before[n - 1]
          BY <5>1
        <5>3. QED
          BY <4>1, <5>1, <5>2
      <4>2. CASE n # m /\ n = 0
        <5>1. n \in 0 .. m - 1
          BY <2>2, <2>4, <4>2
        <5>2. QED
          BY <3>3, <4>2, <5>1
      <4>3. CASE n # m /\ n # 0
        <5>1. n \in 0 .. m - 1 /\ n - 1 \in 0 .. m /\ n - 1 # m
          BY <2>2, <4>3
        <5>2. kept[n] = before[n] /\ kept[n - 1] = before[n - 1]
          BY <4>3, <5>1
        <5>3. before[n] = Onto(before[n - 1], n)
          BY <3>3, <4>3, <5>1
        <5>4. QED
          BY <4>3, <5>2, <5>3
      <4>4. QED
        BY <4>1, <4>2, <4>3
    <3>5. KeptTo(s, S, m, kept)
      <4>1. kept = [n \in 0 .. m |-> kept[n]]
        OBVIOUS
      <4> HIDE DEF kept
      <4>2. QED
        BY <3>4, <4>1 DEF KeptTo, Onto
    <3>6. QED
      BY <2>2, <3>5
  <2>5. QED
    BY <2>2, <2>3, <2>4
<1>3. QED
  BY <1>2 DEF None

\* What is kept is what is in the set, all of it and nothing else.
LEMMA KeepIs ==
  ASSUME NEW T, NEW s \in Seq(T), NEW S
  PROVE  /\ Keep(s, S) \in Seq(T)
         /\ \A x : (\E n \in DOMAIN Keep(s, S) : Keep(s, S)[n] = x) <=> x \in S /\ \E n \in DOMAIN s : s[n] = x
<1>1. Len(s) \in Nat /\ Len(s) \in 0 .. Len(s) /\ DOMAIN s = 1 .. Len(s)
  OBVIOUS
<1> DEFINE all == CHOOSE kept : kept = [n \in 0 .. Len(s) |->
                      IF n = 0 THEN <<>> ELSE IF s[n] \in S THEN Append(kept[n - 1], s[n]) ELSE kept[n - 1]]
<1>2. PICK kept : KeptTo(s, S, Len(s), kept) /\ Keep(s, S) = kept[Len(s)]
  <2>1. \E kept : KeptTo(s, S, Len(s), kept)
    BY <1>1, KeptExists
  <2>2. KeptTo(s, S, Len(s), all)
    BY <2>1, Zenon DEF KeptTo
  <2>3. Keep(s, S) = all[Len(s)]
    BY DEF Keep
  <2>4. QED
    BY <2>2, <2>3
<1>3. Keep(s, S) = kept[Len(s)]
  BY <1>2
<1>4. /\ kept[0] = <<>>
      /\ \A n \in 1 .. Len(s) : kept[n] = IF s[n] \in S THEN Append(kept[n - 1], s[n]) ELSE kept[n - 1]
  <2>1. kept = [n \in 0 .. Len(s) |->
                   IF n = 0 THEN <<>> ELSE IF s[n] \in S THEN Append(kept[n - 1], s[n]) ELSE kept[n - 1]]
    BY <1>2 DEF KeptTo
  <2>2. 0 \in 0 .. Len(s) /\ \A n \in 1 .. Len(s) : n \in 0 .. Len(s) /\ n # 0
    BY <1>1
  <2>3. QED
    BY <2>1, <2>2
<1> DEFINE KeepsTo(m) == /\ kept[m] \in Seq(T)
                      /\ \A x : (\E n \in DOMAIN kept[m] : kept[m][n] = x) <=> x \in S /\ \E n \in 1 .. m : s[n] = x
           Bad == {m \in 0 .. Len(s) : ~ KeepsTo(m)}
<1>5. Bad = {}
  <2> SUFFICES ASSUME Bad # {} PROVE FALSE
    OBVIOUS
  <2>1. Bad \subseteq Nat
    BY <1>1
  <2> HIDE DEF Bad
  <2>2. PICK m \in Bad : \A k \in Bad : m <= k
    BY <2>1, FirstOne
  <2>3. m \in 0 .. Len(s) /\ m \in Nat /\ ~ KeepsTo(m)
    BY <2>1, <2>2 DEF Bad
  <2>4. m # 0
    <3>1. KeepsTo(0)
      BY <1>4
    <3>2. QED
      BY <2>3, <3>1
  <2>5. m - 1 \in 0 .. Len(s) /\ m \in 1 .. Len(s) /\ m - 1 \notin Bad
    BY <1>1, <2>2, <2>3, <2>4
  <2>6. KeepsTo(m - 1)
    BY <2>5 DEF Bad
  <2> DEFINE p == kept[m - 1]
  <2>7. p \in Seq(T) /\ (\A x : (\E n \in DOMAIN p : p[n] = x) <=> x \in S /\ \E n \in 1 .. m - 1 : s[n] = x)
    BY <2>6
  <2>8. \A x : (\E n \in 1 .. m : s[n] = x) <=> (\E n \in 1 .. m - 1 : s[n] = x) \/ x = s[m]
    <3>1. \A n : n \in 1 .. m <=> n \in 1 .. m - 1 \/ n = m
      BY <2>3, <2>5
    <3>2. QED
      BY <3>1
  <2>9. kept[m] = IF s[m] \in S THEN Append(p, s[m]) ELSE p
    BY <1>4, <2>5
  <2>10. s[m] \in T
    BY <1>1, <2>5
  <2> HIDE DEF p
  <2>11. CASE s[m] \in S
    <3> DEFINE q == Append(p, s[m])
    <3>1. q \in Seq(T) /\ DOMAIN q = 1 .. Len(p) + 1 /\ DOMAIN p = 1 .. Len(p) /\ Len(p) \in Nat
          /\ q[Len(p) + 1] = s[m] /\ \A n \in 1 .. Len(p) : q[n] = p[n]
      BY <2>7, <2>10
    <3> HIDE DEF q
    <3>2. \A n : n \in DOMAIN q <=> n \in DOMAIN p \/ n = Len(p) + 1
      BY <3>1
    <3>3. \A x : (\E n \in DOMAIN q : q[n] = x) <=> (\E n \in DOMAIN p : p[n] = x) \/ x = s[m]
      BY <3>1, <3>2
    <3>4. kept[m] = q
      BY <2>9, <2>11 DEF q
    <3>5. KeepsTo(m)
      BY <2>7, <2>8, <2>11, <3>1, <3>3, <3>4
    <3>6. QED
      BY <2>3, <3>5
  <2>12. CASE s[m] \notin S
    <3>1. kept[m] = p
      BY <2>9, <2>12
    <3>2. KeepsTo(m)
      BY <2>7, <2>8, <2>12, <3>1
    <3>3. QED
      BY <2>3, <3>2
  <2>13. QED
    BY <2>11, <2>12
<1>6. KeepsTo(Len(s))
  BY <1>1, <1>5
<1>7. QED
  BY <1>1, <1>3, <1>6

CodeKinds == STRING

\* The table of the escapes takes no two units to one, and none to the name of a unit.
LEMMA EscapesTold ==
  /\ \A u, v \in DOMAIN Escapes : Escapes[u] = Escapes[v] => u = v
  /\ \A u \in DOMAIN Escapes : Escapes[u] # "\\ufffd" /\ Escapes[u] \notin DOMAIN Escapes
  /\ "high" \notin DOMAIN Escapes /\ "low" \notin DOMAIN Escapes /\ "\\ufffd" \notin DOMAIN Escapes
<1>1. DOMAIN Escapes = {"bs", "ff", "nl", "cr", "tab", "quote", "slash", "NUL", "US", "LS", "PS", "lt", "gt", "amp"}
  BY DEF Escapes
<1>2. /\ Escapes["bs"] = "\\b" /\ Escapes["ff"] = "\\f" /\ Escapes["nl"] = "\\n" /\ Escapes["cr"] = "\\r"
      /\ Escapes["tab"] = "\\t" /\ Escapes["quote"] = "\\\"" /\ Escapes["slash"] = "\\\\"
      /\ Escapes["NUL"] = "\\u0000" /\ Escapes["US"] = "\\u001f" /\ Escapes["LS"] = "\\u2028"
      /\ Escapes["PS"] = "\\u2029" /\ Escapes["lt"] = "\\u003c" /\ Escapes["gt"] = "\\u003e" /\ Escapes["amp"] = "\\u0026"
  BY DEF Escapes
<1> DEFINE UnitOf(e) ==
             IF e = "\\b" THEN "bs" ELSE IF e = "\\f" THEN "ff" ELSE IF e = "\\n" THEN "nl" ELSE IF e = "\\r" THEN "cr"
             ELSE IF e = "\\t" THEN "tab" ELSE IF e = "\\\"" THEN "quote" ELSE IF e = "\\\\" THEN "slash"
             ELSE IF e = "\\u0000" THEN "NUL" ELSE IF e = "\\u001f" THEN "US" ELSE IF e = "\\u2028" THEN "LS"
             ELSE IF e = "\\u2029" THEN "PS" ELSE IF e = "\\u003c" THEN "lt" ELSE IF e = "\\u003e" THEN "gt" ELSE "amp"
<1>3. \A u, v \in DOMAIN Escapes : Escapes[u] = Escapes[v] => u = v
  <2>1. \A u \in DOMAIN Escapes : UnitOf(Escapes[u]) = u
    BY <1>1, <1>2
  <2> HIDE DEF UnitOf
  <2>2. QED
    BY <2>1
<1>4. \A u \in DOMAIN Escapes : Escapes[u] # "\\ufffd" /\ Escapes[u] \notin DOMAIN Escapes
  BY <1>1, <1>2
<1>5. QED
  BY <1>1, <1>3, <1>4

\* What the launch may set: texts of units, none of them an escape.
IsText(s) == s \in Seq(CodeKinds) /\ \A i \in DOMAIN s : s[i] # "\\ufffd" /\ \A u \in DOMAIN Escapes : s[i] # Escapes[u]

\* A unit is read back from what is written of it.
LEMMA UnitReadBack ==
  ASSUME NEW s, IsText(s), NEW i \in DOMAIN s
  PROVE  Read(UnitAt(s, i, FALSE)) = Repaired(s)[i] /\ UnitAt(s, i, FALSE) \notin Escaped(FALSE)
<1> DEFINE half == s[i] \in {"high", "low"} /\ ~ PairAt(s, i) /\ ~ Paired(s, i)
<1>1. Repaired(s)[i] = IF half THEN "FFFD" ELSE s[i]
  BY DEF Repaired
<1>2. UnitAt(s, i, FALSE) = IF s[i] \in Escaped(FALSE) THEN Escapes[s[i]] ELSE IF half THEN "\\ufffd" ELSE s[i]
  BY DEF UnitAt
<1>3. Escaped(FALSE) \subseteq DOMAIN Escapes
  BY DEF Escaped
<1>4. half => s[i] = "high" \/ s[i] = "low"
  OBVIOUS
<1> HIDE DEF half
<1>5. CASE s[i] \in Escaped(FALSE)
  <2>1. UnitAt(s, i, FALSE) = Escapes[s[i]] /\ s[i] \in DOMAIN Escapes /\ ~ half
    BY <1>2, <1>3, <1>4, <1>5, EscapesTold
  <2>2. Escapes[s[i]] # "\\ufffd" /\ Escapes[s[i]] \notin DOMAIN Escapes
    BY <2>1, EscapesTold
  <2>3. (CHOOSE u \in DOMAIN Escapes : Escapes[u] = Escapes[s[i]]) = s[i]
    BY <2>1, EscapesTold
  <2>4. Read(Escapes[s[i]]) = s[i]
    BY <2>1, <2>2, <2>3 DEF Read
  <2>5. QED
    BY <1>1, <1>3, <2>1, <2>2, <2>4
<1>6. CASE s[i] \notin Escaped(FALSE) /\ half
  <2>1. UnitAt(s, i, FALSE) = "\\ufffd"
    BY <1>2, <1>6
  <2>2. Read("\\ufffd") = "FFFD"
    BY DEF Read
  <2>3. QED
    BY <1>1, <1>3, <1>6, <2>1, <2>2, EscapesTold
<1>7. CASE s[i] \notin Escaped(FALSE) /\ ~ half
  <2>1. UnitAt(s, i, FALSE) = s[i]
    BY <1>2, <1>7
  <2>2. s[i] # "\\ufffd" /\ \A u \in DOMAIN Escapes : Escapes[u] # s[i]
    BY DEF IsText
  <2>3. Read(s[i]) = s[i]
    BY <2>2 DEF Read
  <2>4. QED
    BY <1>1, <1>7, <2>1, <2>3
<1>8. QED
  BY <1>5, <1>6, <1>7

\* An object, once it is written, is that of what the launch set.
Clean == Keep(settings, {p \in Range(settings) : p[2] # <<>>})
ObjectInv ==
    /\ settings \in SettingLists
    /\ outcome = "encoded" =>
         /\ \A i \in DOMAIN settings : Known(settings[i][1])
         /\ object = IF Clean = <<>> THEN NoObject ELSE <<1, GoMarshal(Clean, FALSE)>>

\* It is written once.
LEMMA ObjectKeeps == (ObjectInit => ObjectInv) /\ (ObjectInv /\ [ObjectNext]_objectVars => ObjectInv')
<1>1. ObjectInit => ObjectInv
  BY DEF ObjectInit, ObjectInv
<1>2. ASSUME ObjectInv, EncodeRefuses PROVE ObjectInv'
  BY <1>2 DEF EncodeRefuses, ObjectInv
<1>3. ASSUME ObjectInv, EncodeLaunchConfig PROVE ObjectInv'
  <2>1. /\ settings' = settings /\ \A i \in DOMAIN settings : Known(settings[i][1])
        /\ object' = IF Clean = <<>> THEN NoObject ELSE <<1, GoMarshal(Clean, FALSE)>>
    BY <1>3 DEF EncodeLaunchConfig, Clean
  <2>2. Clean' = Clean
    BY <2>1 DEF Clean
  <2>3. QED
    BY <1>3, <2>1, <2>2 DEF ObjectInv
<1>4. ASSUME ObjectInv, UNCHANGED objectVars PROVE ObjectInv'
  <2>1. settings' = settings /\ object' = object /\ outcome' = outcome
    BY <1>4 DEF objectVars
  <2>2. Clean' = Clean
    BY <2>1 DEF Clean
  <2>3. QED
    BY <1>4, <2>1, <2>2 DEF ObjectInv
<1>5. QED
  BY <1>1, <1>2, <1>3, <1>4 DEF ObjectNext

\* What is set is a list of keys and texts.
LEMMA SettingsAre ==
  ASSUME ObjectInv
  PROVE  /\ settings \in Seq(CodeKinds \X Seq(CodeKinds))
         /\ \A i \in DOMAIN settings : IsText(settings[i][2])
<1>1. settings \in Seq(CodeKinds \X Seq(CodeKinds))
  BY ObjectConstants DEF ObjectInv, CodeKinds
<1>2. ASSUME NEW i \in DOMAIN settings PROVE IsText(settings[i][2])
  <2>1. Range(settings[i][2]) \cap ({Escapes[u] : u \in DOMAIN Escapes} \cup {"\\ufffd"}) = {}
    BY ObjectConstants DEF ObjectInv
  <2>2. settings[i][2] \in Seq(CodeKinds)
    BY <1>1
  <2>3. \A j \in DOMAIN settings[i][2] : settings[i][2][j] \in Range(settings[i][2])
    BY DEF Range
  <2>4. QED
    BY <2>1, <2>2, <2>3 DEF IsText
<1>3. QED
  BY <1>1, <1>2

\* What is kept of the settings are those that are not empty.
LEMMA CleanIs ==
  ASSUME ObjectInv
  PROVE  /\ Clean \in Seq(CodeKinds \X Seq(CodeKinds))
         /\ \A p : p \in Range(Clean) <=> p[2] # <<>> /\ \E i \in DOMAIN settings : settings[i] = p
<1>1. settings \in Seq(CodeKinds \X Seq(CodeKinds))
  BY SettingsAre
<1> DEFINE T == CodeKinds \X Seq(CodeKinds)
           S == {q \in Range(settings) : q[2] # <<>>}
<1>2. /\ Clean \in Seq(CodeKinds \X Seq(CodeKinds))
      /\ \A p : (\E n \in DOMAIN Clean : Clean[n] = p)
                  <=> p \in {q \in Range(settings) : q[2] # <<>>} /\ \E n \in DOMAIN settings : settings[n] = p
  <2>1. settings \in Seq(T) /\ Clean = Keep(settings, S)
    BY <1>1 DEF Clean
  <2> HIDE DEF T, S
  <2>2. /\ Clean \in Seq(T)
        /\ \A p : (\E n \in DOMAIN Clean : Clean[n] = p) <=> p \in S /\ \E n \in DOMAIN settings : settings[n] = p
    BY <2>1, KeepIs
  <2>3. QED
    BY <2>2 DEF T, S
<1>3. \A p : p \in Range(Clean) <=> \E n \in DOMAIN Clean : Clean[n] = p
  BY DEF Range
<1>4. \A p : p \in Range(settings) <=> \E n \in DOMAIN settings : settings[n] = p
  BY DEF Range
<1>5. QED
  BY <1>2, <1>3, <1>4

\* The last of the places of a key among the pairs.
LEMMA LastOfKey ==
  ASSUME NEW T, NEW pairs \in Seq(T), NEW k, \E i \in DOMAIN pairs : pairs[i][1] = k
  PROVE  LET i == CHOOSE i \in DOMAIN pairs : pairs[i][1] = k /\ \A j \in DOMAIN pairs : pairs[j][1] = k => j <= i
         IN  i \in DOMAIN pairs /\ pairs[i][1] = k
<1> DEFINE Behinds == {n \in Nat : \E j \in DOMAIN pairs : pairs[j][1] = k /\ n = Len(pairs) - j}
<1>1. Len(pairs) \in Nat /\ DOMAIN pairs = 1 .. Len(pairs)
  OBVIOUS
<1>2. Behinds # {} /\ Behinds \subseteq Nat
  <2>1. PICK j \in DOMAIN pairs : pairs[j][1] = k
    OBVIOUS
  <2>2. Len(pairs) - j \in Nat
    BY <1>1
  <2>3. QED
    BY <2>1, <2>2
<1>3. PICK n \in Behinds : \A m \in Behinds : n <= m
  <2> HIDE DEF Behinds
  <2>1. QED
    BY <1>2, FirstOne
<1>4. PICK i \in DOMAIN pairs : pairs[i][1] = k /\ n = Len(pairs) - i
  BY <1>3
<1>5. ASSUME NEW j \in DOMAIN pairs, pairs[j][1] = k PROVE j <= i
  <2>1. Len(pairs) - j \in Behinds
    BY <1>1, <1>5
  <2>2. n <= Len(pairs) - j
    BY <1>3, <2>1
  <2>3. i \in Nat /\ j \in Nat
    BY <1>1
  <2>4. QED
    BY <1>1, <1>4, <2>2, <2>3
<1>6. QED
  BY <1>4, <1>5, Zenon

\* The object is canonical.
LEMMA EncodedIsCanonical == ObjectInv => ObjectIsCanonical
<1> DEFINE set == {k \in Range(SettingOrder) : \E i \in DOMAIN settings : settings[i] # <<k, <<>>>> /\ settings[i][1] = k}
           read == IF object = NoObject THEN <<>> ELSE object[2]
<1> SUFFICES ASSUME ObjectInv, outcome = "encoded"
             PROVE  /\ [n \in DOMAIN read |-> read[n][1]] = Keep(SettingOrder, set)
                    /\ \A n \in DOMAIN read :
                         <<read[n][1], [i \in DOMAIN read[n][2] |-> Read(read[n][2][i])]>>
                           \in {<<p[1], Repaired(p[2])>> : p \in Range(settings)}
                    /\ \A n \in DOMAIN read : Range(read[n][2]) \cap Escaped(FALSE) = {}
  BY DEF ObjectIsCanonical
<1>1. /\ settings \in Seq(CodeKinds \X Seq(CodeKinds)) /\ \A i \in DOMAIN settings : IsText(settings[i][2])
      /\ Clean \in Seq(CodeKinds \X Seq(CodeKinds))
      /\ \A p : p \in Range(Clean) <=> p[2] # <<>> /\ \E i \in DOMAIN settings : settings[i] = p
  BY SettingsAre, CleanIs
<1>2. \A k : k \in {p[1] : p \in Range(Clean)} <=> \E i \in DOMAIN settings : settings[i][2] # <<>> /\ settings[i][1] = k
  BY <1>1
<1>3. \A i \in DOMAIN settings : \A k : settings[i][1] = k => (settings[i] # <<k, <<>>>> <=> settings[i][2] # <<>>)
  BY <1>1
<1>4. \A i \in DOMAIN settings : settings[i][1] \in Range(SettingOrder)
  BY DEF ObjectInv, Known, Range
<1>5. set = {p[1] : p \in Range(Clean)}
  <2>1. \A k : k \in set <=> k \in Range(SettingOrder) /\ \E i \in DOMAIN settings : settings[i] # <<k, <<>>>> /\ settings[i][1] = k
    OBVIOUS
  <2> HIDE DEF set
  <2>2. \A k : k \in set <=> \E i \in DOMAIN settings : settings[i][2] # <<>> /\ settings[i][1] = k
    BY <1>3, <1>4, <2>1
  <2>3. \A k : k \in set <=> k \in {p[1] : p \in Range(Clean)}
    BY <1>2, <2>2
  <2>4. QED
    BY <2>3
<1> HIDE DEF set
<1> DEFINE sorted == Keep(SettingOrder, set)
<1>6. SettingOrder \in Seq(CodeKinds)
  BY ObjectConstants DEF CodeKinds
<1>7. sorted \in Seq(CodeKinds) /\ \A n \in DOMAIN sorted : sorted[n] \in set
  BY <1>6, KeepIs
<1> DEFINE Of(k) == Clean[CHOOSE i \in DOMAIN Clean : Clean[i][1] = k /\ \A j \in DOMAIN Clean : Clean[j][1] = k => j <= i][2]
<1>8. GoMarshal(Clean, FALSE) = [n \in DOMAIN sorted |-> <<sorted[n], GoJsonString(Of(sorted[n]), FALSE)>>]
  BY <1>5 DEF GoMarshal
<1> HIDE DEF sorted, Of
<1>9. read = [n \in DOMAIN sorted |-> <<sorted[n], GoJsonString(Of(sorted[n]), FALSE)>>]
  <2>1. CASE Clean = <<>>
    <3>1. read = <<>>
      BY <2>1 DEF ObjectInv, NoObject
    <3>2. Range(Clean) = {}
      BY <2>1 DEF Range
    <3>3. DOMAIN sorted = {}
      BY <1>5, <1>7, <3>2
    <3>4. QED
      BY <3>1, <3>3
  <2>2. CASE Clean # <<>>
    <3>1. object = <<1, GoMarshal(Clean, FALSE)>>
      BY <2>2 DEF ObjectInv
    <3>2. object # NoObject /\ object[2] = GoMarshal(Clean, FALSE)
      BY <3>1 DEF NoObject
    <3>3. QED
      BY <1>8, <3>2
  <2>3. QED
    BY <2>1, <2>2
<1> HIDE DEF read
<1>10. [n \in DOMAIN read |-> read[n][1]] = sorted
  <2>1. DOMAIN read = DOMAIN sorted /\ \A n \in DOMAIN sorted : read[n][1] = sorted[n]
    BY <1>9
  <2>2. [n \in DOMAIN sorted |-> sorted[n]] = sorted
    BY <1>7
  <2>3. QED
    BY <2>1, <2>2
<1>11. ASSUME NEW n \in DOMAIN read
       PROVE  \E p \in Range(settings) : /\ read[n][1] = p[1] /\ IsText(p[2])
                                         /\ read[n][2] = GoJsonString(p[2], FALSE)
  <2>1. n \in DOMAIN sorted /\ read[n][1] = sorted[n] /\ read[n][2] = GoJsonString(Of(sorted[n]), FALSE)
    BY <1>9
  <2>2. sorted[n] \in {p[1] : p \in Range(Clean)}
    BY <1>5, <1>7, <2>1
  <2>3. \E i \in DOMAIN Clean : Clean[i][1] = sorted[n]
    BY <2>2 DEF Range
  <2>4. PICK i \in DOMAIN Clean : Clean[i][1] = sorted[n] /\ Of(sorted[n]) = Clean[i][2]
    <3> DEFINE T == CodeKinds \X Seq(CodeKinds)
               last == CHOOSE i \in DOMAIN Clean : Clean[i][1] = sorted[n] /\ \A j \in DOMAIN Clean : Clean[j][1] = sorted[n] => j <= i
    <3>1. Clean \in Seq(T)
      BY <1>1
    <3>2. Of(sorted[n]) = Clean[last][2]
      BY DEF Of
    <3> HIDE DEF T
    <3>3. last \in DOMAIN Clean /\ Clean[last][1] = sorted[n]
      BY <2>3, <3>1, LastOfKey
    <3>4. QED
      BY <3>2, <3>3
  <2>5. Clean[i] \in Range(Clean)
    BY DEF Range
  <2>6. PICK j \in DOMAIN settings : settings[j] = Clean[i]
    BY <1>1, <2>5
  <2>7. settings[j] \in Range(settings)
    BY DEF Range
  <2>8. QED
    BY <1>1, <2>1, <2>4, <2>6, <2>7
<1>12. ASSUME NEW n \in DOMAIN read
       PROVE  /\ <<read[n][1], [i \in DOMAIN read[n][2] |-> Read(read[n][2][i])]>>
                    \in {<<p[1], Repaired(p[2])>> : p \in Range(settings)}
              /\ Range(read[n][2]) \cap Escaped(FALSE) = {}
  <2>1. PICK p \in Range(settings) : /\ read[n][1] = p[1] /\ IsText(p[2])
                                     /\ read[n][2] = GoJsonString(p[2], FALSE)
    BY <1>11
  <2>2. DOMAIN read[n][2] = DOMAIN p[2] /\ \A i \in DOMAIN p[2] : read[n][2][i] = UnitAt(p[2], i, FALSE)
    BY <2>1 DEF GoJsonString
  <2>3. \A i \in DOMAIN p[2] : Read(read[n][2][i]) = Repaired(p[2])[i] /\ read[n][2][i] \notin Escaped(FALSE)
    BY <2>1, <2>2, UnitReadBack
  <2>4. Repaired(p[2]) = [i \in DOMAIN p[2] |-> Repaired(p[2])[i]]
    BY DEF Repaired
  <2>5. [i \in DOMAIN read[n][2] |-> Read(read[n][2][i])] = Repaired(p[2])
    BY <2>2, <2>3, <2>4
  <2>6. Range(read[n][2]) \cap Escaped(FALSE) = {}
    BY <2>2, <2>3 DEF Range
  <2>7. QED
    BY <2>1, <2>5, <2>6
<1>13. QED
  BY <1>10, <1>12 DEF sorted

-----------------------------------------------------------------------------
(***************************************************************************)
(* What a launch hands on.  The other parts leave its own part alone; a    *)
(* part at rest has launched nothing and written nothing.                  *)
(***************************************************************************)
\* The tags of a launch fit, in every behaviour of the parts together.
LEMMA TagsAlwaysFitThere == FrontSpec => []TagsFit
<1>1. FrontInit => BudgetInv
  BY BudgetStarts DEF FrontInit
<1>2. BudgetInv /\ [FrontNext]_FrontVars => BudgetInv'
  <2>1. [FrontNext]_FrontVars => [BudgetNext]_budgetVars
    BY DEF FrontNext, FrontVars, Only
  <2>2. QED
    BY <2>1, BudgetKeeps
<1>3. QED
  BY <1>1, <1>2, BudgetIsFit, PTL DEF FrontSpec

\* The contract holds where it is exercised; elsewhere nothing was launched.
LEMMA ContractAlwaysHolds == FrontSpec => []ContractHolds
<1> DEFINE There == (focus = "contract" /\ ContractInv /\ LabelInv) \/ (focus # "contract" /\ told = "asked")
<1>1. FrontInit => There
  BY ContractStarts, LabelKeeps DEF FrontInit, RestingUnless
<1>2. There /\ [FrontNext]_FrontVars => There'
  <2>1. [FrontNext]_FrontVars => focus' = focus /\ (focus = "contract" => [ContractNext]_contractVars)
                                  /\ (focus # "contract" => UNCHANGED contractVars)
    BY DEF FrontNext, FrontVars, Only
  <2>2. UNCHANGED contractVars => told' = told
    BY DEF contractVars
  <2>3. QED
    BY <2>1, <2>2, ContractKeeps, LabelKeeps
<1>3. There => ContractHolds
  <2>1. ContractInv /\ LabelInv => ContractHolds
    BY LabelValid DEF ContractHolds, ContractInv
  <2>2. told = "asked" => ContractHolds
    BY DEF ContractHolds, ReadsBack, DeadlineIsKeptTwice, LabelIsValid
  <2>3. QED
    BY <2>1, <2>2
<1>4. QED
  BY <1>1, <1>2, <1>3, PTL DEF FrontSpec

\* The object is canonical where one is encoded; elsewhere there is none.
LEMMA ObjectAlwaysCanonical == FrontSpec => []ObjectIsCanonical
<1> DEFINE There == (focus = "object" /\ ObjectInv) \/ (focus # "object" /\ outcome = "asked")
<1>1. FrontInit => There
  BY ObjectKeeps DEF FrontInit, RestingUnless
<1>2. There /\ [FrontNext]_FrontVars => There'
  <2>1. [FrontNext]_FrontVars => focus' = focus /\ (focus = "object" => [ObjectNext]_objectVars)
                                  /\ (focus # "object" => UNCHANGED objectVars)
    BY DEF FrontNext, FrontVars, Only
  <2>2. UNCHANGED objectVars => outcome' = outcome
    BY DEF objectVars
  <2>3. QED
    BY <2>1, <2>2, ObjectKeeps
<1>3. There => ObjectIsCanonical
  BY EncodedIsCanonical DEF ObjectIsCanonical
<1>4. QED
  BY <1>1, <1>2, <1>3, PTL DEF FrontSpec

\* spored finds its files, in every behaviour of the parts together.
LEMMA BootAlwaysFindsThere == FrontSpec => []BootFindsItsFiles
<1>1. FrontInit => BootInv
  BY BootStarts DEF FrontInit
<1>2. BootInv /\ [FrontNext]_FrontVars => BootInv'
  <2>1. [FrontNext]_FrontVars => [UserDataNext]_userDataVars
    BY DEF FrontNext, FrontVars, Only
  <2>2. QED
    BY <2>1, BootKeeps
<1>3. BootInv => BootFindsItsFiles
  BY TooLargeIs DEF BootInv, BootFindsItsFiles
<1>4. QED
  BY <1>1, <1>2, <1>3, PTL DEF FrontSpec

(***************************************************************************)
(* What a launch hands on is read on the other side as it was meant        *)
(* (LaunchIsHandedOn), whatever is asked for, whatever the limits, and     *)
(* whatever another tool spoils: its tags leave room for spored's; what    *)
(* nobody spoiled reads back, the deadline as long as one of its two tags  *)
(* stands; the label is a DNS label and its own; a JSON reader finds the   *)
(* settings in the object unit by unit, in one order; and spored finds its *)
(* files (tags.ts:33-57, 77-107, 290-294, 584-640, gojson.ts:1-16,         *)
(* launchconfig.ts:97-108, userdata.ts:138-153, 355-402).                  *)
(***************************************************************************)
THEOREM LaunchAlwaysHandedOn == FrontSpec => []LaunchIsHandedOn
<1>1. TagsFit /\ ContractHolds /\ ObjectIsCanonical /\ BootFindsItsFiles => LaunchIsHandedOn
  BY DEF LaunchIsHandedOn
<1>2. QED
  BY <1>1, TagsAlwaysFitThere, ContractAlwaysHolds, ObjectAlwaysCanonical, BootAlwaysFindsThere, PTL
=============================================================================
