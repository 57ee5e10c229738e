----------------------------- MODULE RemoteProofs -----------------------------
(***************************************************************************)
(* Theorems about the parts that talk to a service: the sign-in, a launch  *)
(* on EC2, a transfer, the portal's service and the two pages that hold    *)
(* shells, for any number of logins, submissions, sessions, sign-ins, runs *)
(* and unanswered requests, and for any requests and places to fetch from. *)
(***************************************************************************)
EXTENDS MCRemote, SequenceTheorems, TLAPS

-----------------------------------------------------------------------------
(***************************************************************************)
(* The frames of a session, for any number base, any messages whose fields *)
(* fit theirs, and any cuts: what the client reads is what the agent       *)
(* wrote.  The argument: a number's digits give it back (U32Survives,      *)
(* ReadsU64); the writes of serialize lie one after the other, but for the *)
(* type, which is over its padding, so the last one at a byte is the       *)
(* field's (LastWriteStands); a cut frame has the same bytes as far as it  *)
(* goes (FieldArrives); so each field is read as it was written            *)
(* (ReadIsMessage).                                                        *)
(***************************************************************************)
\* Division by a positive number, and twice.
LEMMA DivMod == ASSUME NEW x \in Nat, NEW d \in Nat \ {0}
  PROVE x = d * (x \div d) + (x % d) /\ x \div d \in Nat /\ x % d \in 0 .. d - 1
BY Z3

\* There is one quotient and one remainder.
LEMMA QuotientIs ==
  ASSUME NEW d \in Nat \ {0}, NEW q \in Nat, NEW p \in Nat, NEW r \in 0 .. d - 1, NEW s \in 0 .. d - 1,
         d * q + r = d * p + s
  PROVE q = p /\ r = s
<1>1. ASSUME q < p PROVE FALSE
  <2>1. p >= q + 1
    BY <1>1
  <2>2. d * p >= d * (q + 1)
    BY <2>1
  <2>3. d * (q + 1) = d * q + d
    OBVIOUS
  <2>4. QED
    BY <2>2, <2>3
<1>2. ASSUME p < q PROVE FALSE
  <2>1. q >= p + 1
    BY <1>2
  <2>2. d * q >= d * (p + 1)
    BY <2>1
  <2>3. d * (p + 1) = d * p + d
    OBVIOUS
  <2>4. QED
    BY <2>2, <2>3
<1>3. QED
  BY <1>1, <1>2

\* To divide by two numbers is to divide by their product.
LEMMA DivDiv == ASSUME NEW x \in Nat, NEW a \in Nat \ {0}, NEW b \in Nat \ {0}
  PROVE x \div (a * b) = (x \div a) \div b
<1> DEFINE q == x \div a
           r == x % a
           p == q \div b
           s == q % b
           m == a * b
<1>1. x = a * q + r /\ q \in Nat /\ r \in 0 .. a - 1
  BY DivMod
<1>2. q = b * p + s /\ p \in Nat /\ s \in 0 .. b - 1
  BY <1>1, DivMod
<1>3. m \in Nat \ {0}
  OBVIOUS
<1>4. x = m * (x \div m) + (x % m) /\ x \div m \in Nat /\ x % m \in 0 .. m - 1
  BY <1>3, DivMod
<1> HIDE DEF q, r, p, s
<1>5. a * q = a * (b * p) + a * s
  BY <1>2
<1>6. a * (b * p) = m * p
  BY <1>2
<1>7. a * s + r \in 0 .. m - 1
  <2>1. a * s <= a * (b - 1)
    BY <1>2
  <2>2. a * (b - 1) = m - a
    OBVIOUS
  <2>3. a * s \in Nat
    BY <1>2
  <2>4. QED
    BY <1>1, <1>3, <2>1, <2>2, <2>3
<1>8. x = m * p + (a * s + r)
  BY <1>1, <1>5, <1>6, <1>7, <1>2
<1> DEFINE y == x \div m
           z == x % m
           w == a * s + r
<1>9. x = m * y + z /\ y \in Nat /\ z \in 0 .. m - 1
  BY <1>4
<1>10. x = m * p + w /\ p \in Nat /\ w \in 0 .. m - 1
  BY <1>7, <1>8, <1>2
<1> HIDE DEF m, y, z, w
<1>11. y = p
  BY <1>3, <1>9, <1>10, QuotientIs
<1>12. QED
  BY <1>11 DEF m, p, q, y

\* Two digits of a number.
LEMMA LastDigit == ASSUME NEW x \in Nat, NEW d \in Nat \ {0}
  PROVE (x \div d) * d + (x % d) = x /\ x \div d \in Nat /\ x % d \in 0 .. d - 1
<1> DEFINE q == x \div d
           r == x % d
<1>1. x = d * q + r /\ q \in Nat /\ r \in 0 .. d - 1
  BY DivMod
<1> HIDE DEF q, r
<1>2. q * d + r = x
  BY <1>1
<1>3. QED
  BY <1>1, <1>2 DEF q, r

\* The quotient of a number that has two digits is a digit.
LEMMA SmallQuotient == ASSUME NEW a \in Nat \ {0}, NEW b \in Nat \ {0}, NEW x \in 0 .. a * b - 1
  PROVE x \div a \in 0 .. b - 1
<1>0. x \in Nat /\ a * b \in Nat
  OBVIOUS
<1> DEFINE q == x \div a
           r == x % a
<1>1. x = a * q + r /\ q \in Nat /\ r \in 0 .. a - 1
  BY <1>0, DivMod
<1> HIDE DEF q, r
<1>2. ASSUME q >= b PROVE FALSE
  <2>1. a * q >= a * b
    BY <1>1, <1>2
  <2>2. a * q \in Nat /\ a * b \in Nat
    BY <1>1
  <2>3. QED
    BY <1>1, <2>1, <2>2
<1>3. QED
  BY <1>1, <1>2 DEF q

\* A digit is its own remainder.
LEMMA SmallIsItself == ASSUME NEW d \in Nat \ {0}, NEW x \in 0 .. d - 1 PROVE x % d = x
<1>0. x \in Nat
  OBVIOUS
<1> DEFINE q == x \div d
           r == x % d
<1>1. x = d * q + r /\ q \in Nat /\ r \in 0 .. d - 1
  BY <1>0, DivMod
<1> HIDE DEF q, r
<1>2. d * q + r = d * 0 + x
  BY <1>1
<1>3. r = x
  BY <1>1, <1>2, QuotientIs
<1>4. QED
  BY <1>3 DEF r

\* The four bytes of setUint32 are the low word of the number.
LEMMA U32Survives == ASSUME NEW x \in Nat
  PROVE /\ Len(SetU32(x)) = 4 /\ SetU32(x) \in Seq(Byte)
        /\ ((SetU32(x)[1] * Base + SetU32(x)[2]) * Base + SetU32(x)[3]) * Base + SetU32(x)[4] = x % Word
<1> DEFINE w == x % Word
           q1 == w \div Base
           q2 == q1 \div Base
           q3 == q2 \div Base
<1>1. Base \in Nat \ {0}
  BY FrameConstants
<1>2. Base * Base \in Nat \ {0} /\ Base * Base * Base \in Nat \ {0} /\ Word \in Nat \ {0}
  BY <1>1 DEF Word
<1>3. w \in 0 .. Word - 1 /\ w \in Nat
  BY <1>2, DivMod
<1>4. q1 * Base + (w % Base) = w /\ q1 \in Nat /\ w % Base \in Byte
  <2> HIDE DEF w
  <2>1. QED
    BY <1>1, <1>3, LastDigit DEF Byte
<1>5. q2 * Base + (q1 % Base) = q1 /\ q2 \in Nat /\ q1 % Base \in Byte
  BY <1>1, <1>4, LastDigit DEF Byte
<1>6. q3 * Base + (q2 % Base) = q2 /\ q3 \in Nat /\ q2 % Base \in Byte
  BY <1>1, <1>5, LastDigit DEF Byte
<1>7. w \div (Base * Base) = q2
  BY <1>1, <1>3, DivDiv
<1>8. w \div (Base * Base * Base) = q3
  <2>1. w \div ((Base * Base) * Base) = (w \div (Base * Base)) \div Base
    <3> DEFINE b2 == Base * Base
    <3>1. b2 \in Nat \ {0} /\ w \in Nat
      BY <1>2, <1>3
    <3> HIDE DEF b2, w
    <3>2. w \div (b2 * Base) = (w \div b2) \div Base
      BY <1>1, <3>1, DivDiv
    <3>3. QED
      BY <3>2 DEF b2
  <2>2. QED
    BY <2>1, <1>7
<1>9. q3 \in Byte
  <2>1. w \in 0 .. (Base * Base * Base) * Base - 1
    BY <1>3 DEF Word
  <2>2. QED
    BY <2>1, <1>1, <1>2, <1>8, SmallQuotient DEF Byte
<1>10. SetU32(x) = <<q3, q2 % Base, q1 % Base, w % Base>>
  BY <1>7, <1>8 DEF SetU32
<1> HIDE DEF w, q1, q2, q3
<1>11. ((q3 * Base + (q2 % Base)) * Base + (q1 % Base)) * Base + (w % Base) = w
  BY <1>4, <1>5, <1>6
<1>12. QED
  BY <1>4, <1>5, <1>6, <1>9, <1>10, <1>11 DEF w

-----------------------------------------------------------------------------
\* The bytes from an offset on are those of s.
Holds(bytes, o, s) == \A i \in 1 .. Len(s) : bytes[o + i] = s[i]

\* getUint32 reads what setUint32 wrote.
LEMMA ReadsU32 == ASSUME NEW bytes, NEW o \in Nat, NEW x \in Nat, Holds(bytes, o, SetU32(x))
  PROVE GetU32(bytes, o) = x % Word
<1> DEFINE s == SetU32(x)
<1>1. /\ Len(s) = 4
      /\ ((s[1] * Base + s[2]) * Base + s[3]) * Base + s[4] = x % Word
  BY U32Survives
<1>2. Holds(bytes, o, s)
  OBVIOUS
<1> HIDE DEF s
<1>3. bytes[o + 1] = s[1] /\ bytes[o + 2] = s[2] /\ bytes[o + 3] = s[3] /\ bytes[o + 4] = s[4]
  BY <1>1, <1>2 DEF Holds
<1>4. QED
  BY <1>1, <1>3 DEF GetU32

\* A word holds something.
LEMMA WordsAre == Word \in Nat \ {0} /\ Word * Word \in Nat
BY FrameConstants DEF Word

\* setU64 writes the high word and then the low one.
LEMMA LengthOfU64 == ASSUME NEW x \in Nat
  PROVE /\ SetU64(x) \in Seq(Byte) /\ Len(SetU64(x)) = 8
        /\ \A i \in 1 .. 8 : SetU64(x)[i] = IF i <= 4 THEN SetU32(x \div Word)[i] ELSE SetU32(x)[i - 4]
<1> DEFINE q == x \div Word
           high == SetU32(q)
           low == SetU32(x)
<1>1. q \in Nat
  BY WordsAre, DivMod
<1> HIDE DEF q
<1>2. high \in Seq(Byte) /\ Len(high) = 4
  BY <1>1, U32Survives
<1>3. low \in Seq(Byte) /\ Len(low) = 4
  BY U32Survives
<1>4. SetU64(x) = high \o low
  BY DEF SetU64, q
<1> HIDE DEF high, low
<1>5. /\ SetU64(x) \in Seq(Byte) /\ Len(SetU64(x)) = 8
      /\ \A i \in 1 .. 8 : SetU64(x)[i] = IF i <= 4 THEN high[i] ELSE low[i - 4]
  <2>1. /\ high \o low \in Seq(Byte) /\ Len(high \o low) = Len(high) + Len(low)
        /\ \A i \in 1 .. Len(high) + Len(low) : (high \o low)[i] = IF i <= Len(high) THEN high[i] ELSE low[i - Len(high)]
    BY <1>2, <1>3, ConcatProperties
  <2>2. Len(high) + Len(low) = 8
    BY <1>2, <1>3
  <2>3. QED
    BY <1>2, <1>4, <2>1, <2>2
<1>6. QED
  BY <1>5 DEF high, low, q

\* getU64 reads what setU64 wrote, of a number that takes two words.
LEMMA ReadsU64 == ASSUME NEW bytes, NEW o \in Nat, NEW x \in U64, Holds(bytes, o, SetU64(x))
  PROVE GetU64(bytes, o) = x
<1> DEFINE q == x \div Word
           r == x % Word
<1>1. x \in Nat /\ x \in 0 .. Word * Word - 1
  BY WordsAre DEF U64
<1>2. x = Word * q + r /\ q \in Nat /\ r \in 0 .. Word - 1
  BY <1>1, WordsAre, DivMod
<1>3. q \in 0 .. Word - 1
  BY <1>1, WordsAre, SmallQuotient
<1>4. q % Word = q
  <2> HIDE DEF q
  <2>1. QED
    BY <1>3, WordsAre, SmallIsItself
<1>5. Len(SetU64(x)) = 8 /\ \A i \in 1 .. 8 : bytes[o + i] = IF i <= 4 THEN SetU32(q)[i] ELSE SetU32(x)[i - 4]
  <2> DEFINE s == SetU64(x)
  <2>1. Len(s) = 8 /\ \A i \in 1 .. 8 : s[i] = IF i <= 4 THEN SetU32(q)[i] ELSE SetU32(x)[i - 4]
    BY <1>1, LengthOfU64
  <2>2. Holds(bytes, o, s)
    OBVIOUS
  <2> HIDE DEF s, q
  <2>3. \A i \in 1 .. 8 : bytes[o + i] = s[i]
    BY <2>1, <2>2 DEF Holds
  <2>4. QED
    BY <2>1, <2>3 DEF s
<1>6. Len(SetU32(q)) = 4 /\ Len(SetU32(x)) = 4
  BY <1>1, <1>2, U32Survives
<1> HIDE DEF q, r
<1>7. Holds(bytes, o, SetU32(q))
  BY <1>5, <1>6 DEF Holds
<1>8. Holds(bytes, o + 4, SetU32(x))
  <2> SUFFICES ASSUME NEW i \in 1 .. 4 PROVE bytes[(o + 4) + i] = SetU32(x)[i]
    BY <1>6 DEF Holds
  <2>1. i + 4 \in 1 .. 8 /\ ~(i + 4 <= 4) /\ (i + 4) - 4 = i /\ (o + 4) + i = o + (i + 4)
    OBVIOUS
  <2>2. QED
    BY <1>5, <2>1
<1>9. GetU32(bytes, o) = q
  BY <1>2, <1>4, <1>7, ReadsU32
<1>10. GetU32(bytes, o + 4) = r
  BY <1>1, <1>8, ReadsU32 DEF r
<1>11. GetU64(bytes, o) = q * Word + r
  BY <1>9, <1>10 DEF GetU64
<1>12. QED
  BY <1>2, <1>11, WordsAre

\* The largest element.
LEMMA MaxIs == ASSUME NEW S \in SUBSET Nat, NEW m \in S, \A y \in S : m >= y PROVE Max(S) = m
<1> DEFINE P(x) == x \in S /\ \A y \in S : x >= y
<1>1. P(CHOOSE x : P(x))
  <2>1. P(m)
    OBVIOUS
  <2>2. QED
    BY <2>1, Zenon
<1>2. Max(S) = CHOOSE x : P(x)
  BY DEF Max
<1> HIDE DEF P
<1>3. P(Max(S))
  BY <1>1, <1>2
<1> DEFINE c == Max(S)
<1>4. c \in S /\ \A y \in S : c >= y
  BY <1>3 DEF P
<1> HIDE DEF c
<1>5. c \in Nat /\ m \in Nat /\ c >= m /\ m >= c
  BY <1>4
<1>6. c = m
  BY <1>5
<1>7. QED
  BY <1>6 DEF c

\* The smallest element.
LEMMA MinIs == ASSUME NEW S \in SUBSET Nat, NEW m \in S, \A y \in S : m <= y PROVE Min(S) = m
<1> DEFINE P(x) == x \in S /\ \A y \in S : x <= y
<1>1. P(CHOOSE x : P(x))
  <2>1. P(m)
    OBVIOUS
  <2>2. QED
    BY <2>1, Zenon
<1>2. Min(S) = CHOOSE x : P(x)
  BY DEF Min
<1> HIDE DEF P
<1>3. P(Min(S))
  BY <1>1, <1>2
<1> DEFINE c == Min(S)
<1>4. c \in S /\ \A y \in S : c <= y
  BY <1>3 DEF P
<1> HIDE DEF c
<1>5. c \in Nat /\ m \in Nat /\ c <= m /\ m <= c
  BY <1>4
<1>6. c = m
  BY <1>5
<1>7. QED
  BY <1>6 DEF c

\* A slice of the bytes a field was written to is the field.
LEMMA SliceOfField ==
  ASSUME NEW bytes, NEW o \in Nat, NEW s \in Seq(Byte), Len(bytes) \in Nat, o + Len(s) <= Len(bytes), Holds(bytes, o, s)
  PROVE Slice(bytes, o, Len(s)) = s
<1>1. Len(s) \in Nat
  OBVIOUS
<1>2. Min({o + Len(s), Len(bytes)}) = o + Len(s)
  BY <1>1, MinIs
<1> DEFINE t == SubSeq(bytes, o + 1, o + Len(s))
<1>3. \A i \in o + 1 .. o + Len(s) : bytes[i] \in Byte
  <2> SUFFICES ASSUME NEW i \in o + 1 .. o + Len(s) PROVE bytes[i] \in Byte
    OBVIOUS
  <2>1. i - o \in 1 .. Len(s) /\ o + (i - o) = i
    BY <1>1
  <2>2. bytes[i] = s[i - o] /\ s[i - o] \in Byte
    BY <2>1 DEF Holds
  <2>3. QED
    BY <2>2
<1>4. t \in Seq(Byte) /\ Len(t) = Len(s) /\ \A i \in 1 .. Len(s) : t[i] = bytes[o + i]
  <2>1. /\ t \in Seq(Byte) /\ Len(t) = IF o + 1 <= o + Len(s) THEN (o + Len(s)) - (o + 1) + 1 ELSE 0
        /\ \A i \in 1 .. (o + Len(s)) - (o + 1) + 1 : t[i] = bytes[(o + 1) + i - 1]
    BY <1>1, <1>3, SubSeqProperties
  <2> HIDE DEF t
  <2>2. QED
    BY <1>1, <2>1
<1>5. t = s
  <2> HIDE DEF t
  <2>1. \A i \in 1 .. Len(s) : t[i] = s[i]
    BY <1>4 DEF Holds
  <2>2. QED
    BY <1>4, <2>1, SeqEqual
<1>6. QED
  BY <1>2, <1>5 DEF Slice

-----------------------------------------------------------------------------
\* Where each write of serialize starts and how long it is.
Start(k) == <<0, 4, 4, 36, 40, 48, 56, 64, 80, 112, 116, 120>>[k]
TypeLen(msg) == Len(msg.type)
PayLen(msg) == Len(msg.payload)
Size(msg, k) == <<4, 32, TypeLen(msg), 4, 8, 8, 8, 16, 32, 4, 4, PayLen(msg)>>[k]
Covers(msg, k, n) == n \in Start(k) + 1 .. Start(k) + Size(msg, k)

\* The fields of a message fit theirs.
LEMMA MessageFields == ASSUME NEW msg \in Messages
  PROVE /\ msg.type \in Seq(Byte) /\ Len(msg.type) \in Nat /\ Len(msg.type) <= 32
        /\ \A n \in 1 .. Len(msg.type) : msg.type[n] \notin {Space, Nul}
        /\ msg.schema \in U32 /\ msg.created \in U64 /\ msg.seq \in U64 /\ msg.flags \in U64
        /\ msg.id \in Seq(Byte) /\ Len(msg.id) = 16
        /\ msg.ptype \in U32 /\ msg.payload \in Seq(Byte) /\ Len(msg.payload) \in U32
        /\ U32 \subseteq Nat /\ U64 \subseteq Nat
<1>0. /\ msg.type \in Seq(Byte \ {Space, Nul})
      /\ msg.schema \in U32 /\ msg.created \in U64 /\ msg.seq \in U64 /\ msg.flags \in U64
      /\ msg.id \in Seq(Byte) /\ msg.ptype \in U32 /\ msg.payload \in Seq(Byte)
  BY FrameConstants
<1>1. Len(msg.type) <= 32 /\ Len(msg.id) = 16 /\ Len(msg.payload) \in U32
  BY FrameConstants
<1>2. /\ msg.type \in Seq(Byte) /\ Len(msg.type) \in Nat /\ Len(msg.type) <= 32
      /\ \A n \in 1 .. Len(msg.type) : msg.type[n] \notin {Space, Nul}
  <2> DEFINE text == msg.type
  <2>1. text \in Seq(Byte \ {Space, Nul}) /\ Len(text) <= 32
    BY <1>0, <1>1
  <2> HIDE DEF text
  <2>2. Len(text) \in Nat /\ \A n \in 1 .. Len(text) : text[n] \in Byte \ {Space, Nul}
    BY <2>1
  <2>3. text \in Seq(Byte)
    BY <2>1, SeqDef
  <2>4. \A n \in 1 .. Len(text) : text[n] \notin {Space, Nul}
    BY <2>2
  <2>5. Len(text) \in Nat /\ Len(text) <= 32
    BY <2>1, <2>2
  <2>6. QED
    BY <2>3, <2>4, <2>5 DEF text
<1>3. U32 \subseteq Nat /\ U64 \subseteq Nat
  BY WordsAre DEF U32, U64
<1>4. QED
  BY <1>0, <1>1, <1>2, <1>3

\* A part of some bytes.
LEMMA PartOf == ASSUME NEW s \in Seq(Byte), NEW m \in Nat \ {0}, NEW n \in Nat, m <= n + 1, n <= Len(s)
  PROVE /\ SubSeq(s, m, n) \in Seq(Byte) /\ Len(SubSeq(s, m, n)) = n - m + 1
        /\ \A i \in 1 .. n - m + 1 : SubSeq(s, m, n)[i] = s[m + i - 1]
<1>1. \A i \in m .. n : s[i] \in Byte
  OBVIOUS
<1>2. /\ SubSeq(s, m, n) \in Seq(Byte)
      /\ Len(SubSeq(s, m, n)) = IF m <= n THEN n - m + 1 ELSE 0
      /\ \A i \in 1 .. n - m + 1 : SubSeq(s, m, n)[i] = s[m + i - 1]
  BY <1>1, SubSeqProperties
<1>3. QED
  BY <1>2

\* The two halves of an id.
LEMMA HalvesOf == ASSUME NEW s \in Seq(Byte), Len(s) = 16
  PROVE /\ SubSeq(s, 9, 16) \in Seq(Byte) /\ Len(SubSeq(s, 9, 16)) = 8
        /\ \A i \in 1 .. 8 : SubSeq(s, 9, 16)[i] = s[i + 8]
        /\ SubSeq(s, 1, 8) \in Seq(Byte) /\ Len(SubSeq(s, 1, 8)) = 8
        /\ \A i \in 1 .. 8 : SubSeq(s, 1, 8)[i] = s[i]
<1> DEFINE Is(m, n) == /\ SubSeq(s, m, n) \in Seq(Byte) /\ Len(SubSeq(s, m, n)) = n - m + 1
                       /\ \A i \in 1 .. n - m + 1 : SubSeq(s, m, n)[i] = s[m + i - 1]
<1>1. \A m \in Nat \ {0}, n \in Nat : m <= n + 1 /\ n <= 16 => Is(m, n)
  BY PartOf
<1> HIDE DEF Is
<1>2. Is(9, 16)
  BY <1>1
<1>3. Is(1, 8)
  BY <1>1
<1>4. /\ SubSeq(s, 9, 16) \in Seq(Byte) /\ Len(SubSeq(s, 9, 16)) = 8
      /\ \A i \in 1 .. 8 : SubSeq(s, 9, 16)[i] = s[i + 8]
  BY <1>2 DEF Is
<1>5. /\ SubSeq(s, 1, 8) \in Seq(Byte) /\ Len(SubSeq(s, 1, 8)) = 8
      /\ \A i \in 1 .. 8 : SubSeq(s, 1, 8)[i] = s[i]
  BY <1>3 DEF Is
<1>6. QED
  BY <1>4, <1>5

\* Two halves joined.
LEMMA JoinedOf == ASSUME NEW p \in Seq(Byte), NEW q \in Seq(Byte), Len(p) = 8, Len(q) = 8
  PROVE /\ p \o q \in Seq(Byte) /\ Len(p \o q) = 16
        /\ \A i \in 1 .. 16 : (p \o q)[i] = IF i <= 8 THEN p[i] ELSE q[i - 8]
<1>1. p \o q \in Seq(Byte)
  OBVIOUS
<1>2. Len(p \o q) = Len(p) + Len(q)
  BY ConcatProperties
<1>3. \A i \in 1 .. Len(p) + Len(q) : (p \o q)[i] = IF i <= Len(p) THEN p[i] ELSE q[i - Len(p)]
  BY ConcatProperties
<1>4. QED
  BY <1>1, <1>2, <1>3

\* Swapped twice, an id is itself.
LEMMA SwappedIs == ASSUME NEW id \in Seq(Byte), Len(id) = 16
  PROVE /\ Swapped(id) \in Seq(Byte) /\ Len(Swapped(id)) = 16
        /\ Swapped(Swapped(id)) = id
<1> DEFINE a == SubSeq(id, 9, 16)
           b == SubSeq(id, 1, 8)
           s == Swapped(id)
<1>1. a \in Seq(Byte) /\ Len(a) = 8 /\ \A i \in 1 .. 8 : a[i] = id[i + 8]
  BY HalvesOf
<1>2. b \in Seq(Byte) /\ Len(b) = 8 /\ \A i \in 1 .. 8 : b[i] = id[i]
  BY HalvesOf
<1>3. s = a \o b
  BY DEF Swapped
<1> HIDE DEF a, b, s
<1>4. /\ s \in Seq(Byte) /\ Len(s) = 16
      /\ \A i \in 1 .. 16 : s[i] = IF i <= 8 THEN a[i] ELSE b[i - 8]
  BY <1>1, <1>2, <1>3, JoinedOf
<1> DEFINE c == SubSeq(s, 9, 16)
           d == SubSeq(s, 1, 8)
<1>5. c \in Seq(Byte) /\ Len(c) = 8 /\ \A i \in 1 .. 8 : c[i] = s[i + 8]
  BY <1>4, HalvesOf
<1>6. d \in Seq(Byte) /\ Len(d) = 8 /\ \A i \in 1 .. 8 : d[i] = s[i]
  BY <1>4, HalvesOf
<1>7. Swapped(s) = c \o d
  BY DEF Swapped
<1> HIDE DEF c, d
<1> DEFINE e == c \o d
<1>8. /\ e \in Seq(Byte) /\ Len(e) = 16
      /\ \A i \in 1 .. 16 : e[i] = IF i <= 8 THEN c[i] ELSE d[i - 8]
  BY <1>5, <1>6, JoinedOf
<1> HIDE DEF e
<1>9. ASSUME NEW i \in 1 .. 16 PROVE e[i] = id[i]
  <2>1. CASE i <= 8
    <3>1. e[i] = s[i + 8]
      <4>1. i \in 1 .. 8 /\ i \in 1 .. 16
        BY <2>1
      <4>2. e[i] = c[i]
        BY <1>8, <2>1, <4>1
      <4>3. QED
        BY <1>5, <4>1, <4>2
    <3>2. s[i + 8] = b[i]
      <4>1. i + 8 \in 1 .. 16 /\ ~(i + 8 <= 8) /\ (i + 8) - 8 = i
        BY <2>1
      <4>2. QED
        BY <1>4, <4>1
    <3>3. QED
      BY <1>2, <2>1, <3>1, <3>2
  <2>2. CASE ~(i <= 8)
    <3>1. i - 8 \in 1 .. 8 /\ i - 8 <= 8 /\ i - 8 \in 1 .. 16 /\ (i - 8) + 8 = i
      BY <2>2
    <3>2. e[i] = s[i - 8]
      BY <1>6, <1>8, <2>2, <3>1
    <3>3. s[i - 8] = a[i - 8]
      BY <1>4, <3>1
    <3>4. QED
      BY <1>1, <3>1, <3>2, <3>3
  <2>3. QED
    BY <2>1, <2>2
<1>10. e = id
  <2>1. Len(e) = Len(id) /\ \A i \in 1 .. Len(e) : e[i] = id[i]
    BY <1>8, <1>9
  <2>2. QED
    BY <1>8, <2>1, SeqEqual
<1>11. QED
  BY <1>4, <1>7, <1>10 DEF s, e
\* Start, for each write.
LEMMA StartsAre ==
  /\ Start(1) = 0 /\ Start(2) = 4 /\ Start(3) = 4 /\ Start(4) = 36 /\ Start(5) = 40 /\ Start(6) = 48 /\ Start(7) = 56
  /\ Start(8) = 64 /\ Start(9) = 80 /\ Start(10) = 112 /\ Start(11) = 116 /\ Start(12) = 120
BY DEF Start

\* Size, for each write.
LEMMA SizesAre == ASSUME NEW msg
  PROVE /\ Size(msg, 1) = 4 /\ Size(msg, 2) = 32 /\ Size(msg, 3) = TypeLen(msg) /\ Size(msg, 4) = 4
        /\ Size(msg, 5) = 8 /\ Size(msg, 6) = 8 /\ Size(msg, 7) = 8 /\ Size(msg, 8) = 16
        /\ Size(msg, 9) = 32 /\ Size(msg, 10) = 4 /\ Size(msg, 11) = 4 /\ Size(msg, 12) = PayLen(msg)
BY DEF Size

\* How long a type and a payload are.
LEMMA LengthsAre == ASSUME NEW msg \in Messages
  PROVE TypeLen(msg) \in Nat /\ TypeLen(msg) <= 32 /\ PayLen(msg) \in Nat
BY MessageFields DEF TypeLen, PayLen

\* Starts and sizes are numbers.
LEMMA Spans == ASSUME NEW msg \in Messages, NEW k \in 1 .. 12
  PROVE Start(k) \in Nat /\ Size(msg, k) \in Nat
<1>1. k \in {1, 2, 3, 4, 5, 6, 7, 8, 9, 10, 11, 12}
  OBVIOUS
<1>2. TypeLen(msg) \in Nat /\ PayLen(msg) \in Nat
  BY LengthsAre
<1>3. Start(k) \in Nat
  BY <1>1, StartsAre
<1>4. Size(msg, k) \in Nat
  BY <1>1, <1>2, SizesAre
<1>5. QED
  BY <1>3, <1>4

\* A write covers the bytes behind its start, up to its end.
LEMMA CoversMeans == ASSUME NEW msg \in Messages, NEW k \in 1 .. 12, NEW n \in Nat
  PROVE Covers(msg, k, n) <=> Start(k) < n /\ n <= Start(k) + Size(msg, k)
<1> DEFINE a == Start(k)
           z == Size(msg, k)
<1>1. a \in Nat /\ z \in Nat
  BY Spans
<1>2. Covers(msg, k, n) <=> n \in a + 1 .. a + z
  BY DEF Covers
<1> HIDE DEF a, z
<1>3. n \in a + 1 .. a + z <=> a < n /\ n <= a + z
  BY <1>1
<1>4. QED
  BY <1>2, <1>3 DEF a, z

\* serialize writes where Start says and as much as Size does.
LEMMA WritesAre == ASSUME NEW msg \in Messages
  PROVE /\ DOMAIN WritesOf(msg) = 1 .. 12
        /\ \A k \in 1 .. 12 : WritesOf(msg)[k][1] = Start(k) /\ Len(WritesOf(msg)[k][2]) = Size(msg, k)
<1> DEFINE w == WritesOf(msg)
<1>1. /\ w[1] = <<0, SetU32(116)>> /\ w[2] = <<4, [n \in 1 .. 32 |-> Space]>> /\ w[3] = <<4, msg.type>>
      /\ w[4] = <<36, SetU32(msg.schema)>> /\ w[5] = <<40, SetU64(msg.created)>> /\ w[6] = <<48, SetU64(msg.seq)>>
      /\ w[7] = <<56, SetU64(msg.flags)>> /\ w[8] = <<64, Swapped(msg.id)>> /\ w[9] = <<80, Digest32(msg.payload)>>
      /\ w[10] = <<112, SetU32(msg.ptype)>> /\ w[11] = <<116, SetU32(Len(msg.payload))>> /\ w[12] = <<120, msg.payload>>
  BY DEF WritesOf, Offset
<1>2. DOMAIN w = 1 .. 12
  BY DEF WritesOf
<1> HIDE DEF w
<1>3. /\ Len(SetU32(116)) = 4 /\ Len(SetU32(msg.schema)) = 4 /\ Len(SetU32(msg.ptype)) = 4
      /\ Len(SetU32(Len(msg.payload))) = 4
  BY MessageFields, U32Survives
<1>4. Len(SetU64(msg.created)) = 8 /\ Len(SetU64(msg.seq)) = 8 /\ Len(SetU64(msg.flags)) = 8
  BY MessageFields, LengthOfU64
<1>5. Len(Swapped(msg.id)) = 16
  BY MessageFields, SwappedIs
<1>6. Len([n \in 1 .. 32 |-> Space]) = 32 /\ Len(Digest32(msg.payload)) = 32
  BY DEF Digest32
<1>7. /\ w[1][1] = 0 /\ w[2][1] = 4 /\ w[3][1] = 4 /\ w[4][1] = 36 /\ w[5][1] = 40 /\ w[6][1] = 48
      /\ w[7][1] = 56 /\ w[8][1] = 64 /\ w[9][1] = 80 /\ w[10][1] = 112 /\ w[11][1] = 116 /\ w[12][1] = 120
  BY <1>1
<1>8. /\ Len(w[1][2]) = 4 /\ Len(w[2][2]) = 32 /\ Len(w[3][2]) = TypeLen(msg) /\ Len(w[4][2]) = 4
      /\ Len(w[5][2]) = 8 /\ Len(w[6][2]) = 8 /\ Len(w[7][2]) = 8 /\ Len(w[8][2]) = 16
      /\ Len(w[9][2]) = 32 /\ Len(w[10][2]) = 4 /\ Len(w[11][2]) = 4 /\ Len(w[12][2]) = PayLen(msg)
  BY <1>1, <1>3, <1>4, <1>5, <1>6 DEF TypeLen, PayLen
<1>9. ASSUME NEW k \in 1 .. 12 PROVE w[k][1] = Start(k) /\ Len(w[k][2]) = Size(msg, k)
  <2>1. k \in {1, 2, 3, 4, 5, 6, 7, 8, 9, 10, 11, 12}
    OBVIOUS
  <2>2. w[k][1] = Start(k)
    BY <1>7, <2>1, StartsAre
  <2>3. Len(w[k][2]) = Size(msg, k)
    <3> DEFINE L(i) == Len(w[i][2])
               Z(i) == Size(msg, i)
    <3>1. /\ L(1) = Z(1) /\ L(2) = Z(2) /\ L(3) = Z(3) /\ L(4) = Z(4) /\ L(5) = Z(5) /\ L(6) = Z(6)
          /\ L(7) = Z(7) /\ L(8) = Z(8) /\ L(9) = Z(9) /\ L(10) = Z(10) /\ L(11) = Z(11) /\ L(12) = Z(12)
      BY <1>8, SizesAre
    <3> HIDE DEF L, Z
    <3>2. L(k) = Z(k)
      BY <2>1, <3>1
    <3>3. QED
      BY <3>2 DEF L, Z
  <2>4. QED
    BY <2>2, <2>3
<1>10. QED
  BY <1>2, <1>9 DEF w

\* The writes follow each other, but for the type, which is over the spaces.
LEMMA LaterWritesAreBehind ==
  ASSUME NEW msg \in Messages, NEW k \in 1 .. 12, NEW j \in 1 .. 12, j > k, k # 2
  PROVE Start(k) + Size(msg, k) <= Start(j)
<1>1. TypeLen(msg) \in Nat /\ TypeLen(msg) <= 32
  BY LengthsAre
<1>2. k \in {1, 3, 4, 5, 6, 7, 8, 9, 10, 11} /\ j \in {2, 3, 4, 5, 6, 7, 8, 9, 10, 11, 12}
  OBVIOUS
<1>3. CASE k = 3
  <2>1. Start(k) + Size(msg, k) <= 36
    BY <1>1, <1>3, StartsAre, SizesAre
  <2>2. j \in {4, 5, 6, 7, 8, 9, 10, 11, 12}
    BY <1>2, <1>3
  <2>3. Start(j) >= 36 /\ Start(j) \in Nat
    BY <2>2, StartsAre
  <2>4. QED
    BY <1>1, <1>3, <2>1, <2>3, StartsAre, SizesAre
<1>4. CASE k = 1
  <2>1. j \in {2, 3, 4, 5, 6, 7, 8, 9, 10, 11, 12}
    BY <1>2, <1>4
  <2>2. Start(j) >= 4 /\ Start(j) \in Nat
    BY <2>1, StartsAre
  <2>3. QED
    BY <1>4, <2>2, StartsAre, SizesAre
<1>5. CASE k = 4
  <2>1. j \in {5, 6, 7, 8, 9, 10, 11, 12}
    BY <1>2, <1>5
  <2>2. Start(j) >= 40 /\ Start(j) \in Nat
    BY <2>1, StartsAre
  <2>3. QED
    BY <1>5, <2>2, StartsAre, SizesAre
<1>6. CASE k = 5
  <2>1. j \in {6, 7, 8, 9, 10, 11, 12}
    BY <1>2, <1>6
  <2>2. Start(j) >= 48 /\ Start(j) \in Nat
    BY <2>1, StartsAre
  <2>3. QED
    BY <1>6, <2>2, StartsAre, SizesAre
<1>7. CASE k = 6
  <2>1. j \in {7, 8, 9, 10, 11, 12}
    BY <1>2, <1>7
  <2>2. Start(j) >= 56 /\ Start(j) \in Nat
    BY <2>1, StartsAre
  <2>3. QED
    BY <1>7, <2>2, StartsAre, SizesAre
<1>8. CASE k = 7
  <2>1. j \in {8, 9, 10, 11, 12}
    BY <1>2, <1>8
  <2>2. Start(j) >= 64 /\ Start(j) \in Nat
    BY <2>1, StartsAre
  <2>3. QED
    BY <1>8, <2>2, StartsAre, SizesAre
<1>9. CASE k = 8
  <2>1. j \in {9, 10, 11, 12}
    BY <1>2, <1>9
  <2>2. Start(j) >= 80 /\ Start(j) \in Nat
    BY <2>1, StartsAre
  <2>3. QED
    BY <1>9, <2>2, StartsAre, SizesAre
<1>10. CASE k = 9
  <2>1. j \in {10, 11, 12}
    BY <1>2, <1>10
  <2>2. Start(j) >= 112 /\ Start(j) \in Nat
    BY <2>1, StartsAre
  <2>3. QED
    BY <1>10, <2>2, StartsAre, SizesAre
<1>11. CASE k = 10
  <2>1. j \in {11, 12}
    BY <1>2, <1>11
  <2>2. Start(j) >= 116 /\ Start(j) \in Nat
    BY <2>1, StartsAre
  <2>3. QED
    BY <1>11, <2>2, StartsAre, SizesAre
<1>12. CASE k = 11
  <2>1. j \in {12}
    BY <1>2, <1>12
  <2>2. Start(j) >= 120 /\ Start(j) \in Nat
    BY <2>1, StartsAre
  <2>3. QED
    BY <1>12, <2>2, StartsAre, SizesAre
<1>13. QED
  BY <1>2, <1>3, <1>4, <1>5, <1>6, <1>7, <1>8, <1>9, <1>10, <1>11, <1>12

\* At each byte of a field stands what the field's write put there.
LEMMA LastWriteStands ==
  ASSUME NEW msg \in Messages, NEW k \in 1 .. 12, NEW n \in Nat, Covers(msg, k, n),
         k = 2 => n > 4 + TypeLen(msg)
  PROVE n \in DOMAIN Serialize(msg) /\ Serialize(msg)[n] = WritesOf(msg)[k][2][n - Start(k)]
<1> DEFINE w == WritesOf(msg)
           last == 120 + PayLen(msg)
           over == {j \in DOMAIN w : n \in w[j][1] + 1 .. w[j][1] + Len(w[j][2])}
<1>1. DOMAIN w = 1 .. 12 /\ \A j \in 1 .. 12 : w[j][1] = Start(j) /\ Len(w[j][2]) = Size(msg, j)
  BY WritesAre
<1>2. Serialize(msg) = [m \in 1 .. last |->
        LET o == {j \in DOMAIN w : m \in w[j][1] + 1 .. w[j][1] + Len(w[j][2])}
        IN  IF o = {} THEN 0 ELSE w[Max(o)][2][m - w[Max(o)][1]]]
  BY DEF Serialize, Offset, PayLen
<1>3. TypeLen(msg) \in Nat /\ TypeLen(msg) <= 32 /\ PayLen(msg) \in Nat
  BY LengthsAre
<1> HIDE DEF w
<1>4. over = {j \in 1 .. 12 : Covers(msg, j, n)}
  <2>1. over = {j \in 1 .. 12 : n \in w[j][1] + 1 .. w[j][1] + Len(w[j][2])}
    BY <1>1
  <2>2. \A j \in 1 .. 12 : n \in w[j][1] + 1 .. w[j][1] + Len(w[j][2]) <=> Covers(msg, j, n)
    BY <1>1 DEF Covers
  <2> HIDE DEF over
  <2>3. QED
    BY <2>1, <2>2
<1> HIDE DEF over
<1>5. over \in SUBSET Nat /\ k \in over
  BY <1>4
<1>6. ASSUME NEW j \in over PROVE k >= j
  <2>1. j \in 1 .. 12 /\ Covers(msg, j, n)
    BY <1>4
  <2>2. Start(j) \in Nat /\ Size(msg, j) \in Nat /\ Start(k) \in Nat /\ Size(msg, k) \in Nat
    BY <2>1, Spans
  <2>3. Start(j) < n /\ n <= Start(j) + Size(msg, j) /\ n <= Start(k) + Size(msg, k)
    BY <2>1, CoversMeans
  <2>4. ASSUME j > k, k # 2 PROVE FALSE
    <3>1. Start(k) + Size(msg, k) <= Start(j)
      BY <2>1, <2>4, LaterWritesAreBehind
    <3>2. QED
      BY <2>2, <2>3, <3>1
  <2>5. ASSUME j > k, k = 2 PROVE FALSE
    <3>1. n > 4 + TypeLen(msg) /\ n <= 36
      BY <2>3, <2>5, StartsAre, SizesAre
    <3>2. CASE j = 3
      BY <1>3, <2>3, <3>1, <3>2, StartsAre, SizesAre
    <3>3. CASE j # 3
      <4>1. j \in {4, 5, 6, 7, 8, 9, 10, 11, 12}
        BY <2>1, <2>5, <3>3
      <4>2. Start(j) >= 36
        BY <4>1, StartsAre
      <4>3. QED
        BY <2>2, <2>3, <3>1, <4>2
    <3>4. QED
      BY <3>2, <3>3
  <2>6. QED
    BY <2>1, <2>4, <2>5
<1>7. Max(over) = k
  BY <1>5, <1>6, MaxIs
<1>8. n \in 1 .. last
  <2>1. Start(k) \in Nat /\ Size(msg, k) \in Nat /\ Start(k) < n /\ n <= Start(k) + Size(msg, k)
    BY Spans, CoversMeans
  <2>2. Start(k) + Size(msg, k) <= last
    <3>1. CASE k = 12
      BY <1>3, <3>1, StartsAre, SizesAre
    <3>2. CASE k = 2
      BY <1>3, <3>2, StartsAre, SizesAre
    <3>3. CASE k # 12 /\ k # 2
      <4>1. Start(k) + Size(msg, k) <= Start(12)
        BY <3>3, LaterWritesAreBehind
      <4>2. Start(k) + Size(msg, k) <= 120
        BY <4>1, StartsAre
      <4>3. QED
        BY <1>3, <2>1, <4>2
    <3>4. QED
      BY <3>1, <3>2, <3>3
  <2>3. QED
    BY <1>3, <2>1, <2>2
<1>9. Serialize(msg)[n] = IF over = {} THEN 0 ELSE w[Max(over)][2][n - w[Max(over)][1]]
  BY <1>2, <1>8 DEF over
<1>10. over # {} /\ w[k][1] = Start(k)
  BY <1>1, <1>5
<1>11. n \in DOMAIN Serialize(msg)
  BY <1>2, <1>8
<1>12. QED
  BY <1>7, <1>9, <1>10, <1>11 DEF w

-----------------------------------------------------------------------------
\* The whole frame, whoever filled up the type.
Framed(msg, pad) == [n \in DOMAIN Serialize(msg) |->
    IF n \in Offset.MSGTYPE + Len(msg.type) + 1 .. Offset.SCHEMA THEN pad ELSE Serialize(msg)[n]]

\* A frame is what serialize made, but for the padding.
LEMMA FrameIs == ASSUME NEW msg \in Messages, NEW pad
  PROVE Framed(msg, pad) = [n \in 1 .. 120 + PayLen(msg) |->
            IF 4 + TypeLen(msg) < n /\ n <= 36 THEN pad ELSE Serialize(msg)[n]]
<1>1. Framed(msg, pad) = [n \in DOMAIN Serialize(msg) |->
        IF n \in 4 + TypeLen(msg) + 1 .. 36 THEN pad ELSE Serialize(msg)[n]]
  BY DEF Framed, Offset, TypeLen
<1>2. DOMAIN Serialize(msg) = 1 .. 120 + PayLen(msg)
  BY DEF Serialize, Offset, PayLen
<1>3. TypeLen(msg) \in Nat /\ PayLen(msg) \in Nat
  BY LengthsAre
<1>4. ASSUME NEW n \in 1 .. 120 + PayLen(msg)
      PROVE n \in 4 + TypeLen(msg) + 1 .. 36 <=> 4 + TypeLen(msg) < n /\ n <= 36
  BY <1>3
<1>5. QED
  BY <1>1, <1>2, <1>4

\* In a frame stands every field.
LEMMA FieldStands == ASSUME NEW msg \in Messages, NEW pad, NEW k \in 1 .. 12, k # 2
  PROVE Holds(Framed(msg, pad), Start(k), WritesOf(msg)[k][2])
<1> DEFINE s == WritesOf(msg)[k][2]
<1>1. Len(s) = Size(msg, k)
  BY WritesAre
<1>2. Start(k) \in Nat /\ Size(msg, k) \in Nat /\ TypeLen(msg) \in Nat /\ PayLen(msg) \in Nat
  BY Spans, LengthsAre
<1>3. ASSUME NEW i \in 1 .. Size(msg, k) PROVE Framed(msg, pad)[Start(k) + i] = s[i]
  <2> DEFINE n == Start(k) + i
  <2>1. n \in Nat /\ Start(k) < n /\ n <= Start(k) + Size(msg, k) /\ n - Start(k) = i
    BY <1>2
  <2> HIDE DEF n
  <2>2. Covers(msg, k, n)
    BY <2>1, CoversMeans
  <2>3. n \in DOMAIN Serialize(msg) /\ Serialize(msg)[n] = s[i]
    BY <2>1, <2>2, LastWriteStands
  <2>4. ~(4 + TypeLen(msg) < n /\ n <= 36)
    <3>1. CASE k = 1
      <4>1. Start(k) + Size(msg, k) = 4
        BY <3>1, StartsAre, SizesAre
      <4>2. QED
        BY <1>2, <2>1, <4>1
    <3>2. CASE k = 3
      <4>1. Start(k) + Size(msg, k) = 4 + TypeLen(msg)
        BY <3>2, StartsAre, SizesAre
      <4>2. QED
        BY <1>2, <2>1, <4>1
    <3>3. CASE k \notin {1, 2, 3}
      <4>1. k \in {4, 5, 6, 7, 8, 9, 10, 11, 12}
        BY <3>3
      <4>2. Start(k) >= 36
        BY <4>1, StartsAre
      <4>3. QED
        BY <1>2, <2>1, <4>2
    <3>4. QED
      BY <3>1, <3>2, <3>3
  <2>5. DOMAIN Serialize(msg) = 1 .. 120 + PayLen(msg)
    BY DEF Serialize, Offset, PayLen
  <2>6. Framed(msg, pad)[n] = Serialize(msg)[n]
    <3> DEFINE f == Framed(msg, pad)
               b == Serialize(msg)
               last == 120 + PayLen(msg)
    <3>1. f = [m \in 1 .. last |-> IF 4 + TypeLen(msg) < m /\ m <= 36 THEN pad ELSE b[m]]
      BY FrameIs
    <3>2. n \in 1 .. last
      BY <2>3, <2>5
    <3> HIDE DEF f, b, last
    <3>3. f[n] = b[n]
      BY <2>4, <3>1, <3>2
    <3>4. QED
      BY <3>3 DEF f, b
  <2>7. QED
    BY <2>3, <2>6 DEF n
<1> HIDE DEF s
<1>4. Holds(Framed(msg, pad), Start(k), s)
  BY <1>1, <1>3 DEF Holds
<1>5. QED
  BY <1>4 DEF s

\* What is there of a frame that may have been cut.
Begins(w, msg, pad) ==
    /\ Len(w) \in Nat /\ Len(w) <= 120 + PayLen(msg)
    /\ w = [n \in 1 .. Len(w) |-> Framed(msg, pad)[n]]

\* Every field but the payload arrives, if any is read.
LEMMA FieldArrives ==
  ASSUME NEW msg \in Messages, NEW pad, NEW w, Begins(w, msg, pad), Len(w) >= 120, NEW k \in 1 .. 11, k # 2
  PROVE Holds(w, Start(k), WritesOf(msg)[k][2])
<1> DEFINE s == WritesOf(msg)[k][2]
           f == Framed(msg, pad)
<1>0. k \in 1 .. 12
  OBVIOUS
<1>1. Len(s) = Size(msg, k) /\ Holds(f, Start(k), s)
  BY <1>0, WritesAre, FieldStands
<1>2. Start(k) + Size(msg, k) <= 120 /\ Start(k) \in Nat /\ Size(msg, k) \in Nat
  <2>1. Start(k) + Size(msg, k) <= Start(12)
    BY <1>0, LaterWritesAreBehind
  <2>2. QED
    BY <1>0, <2>1, Spans, StartsAre
<1> DEFINE l == Len(w)
<1>3. l \in Nat /\ l >= 120 /\ w = [n \in 1 .. l |-> f[n]]
  BY DEF Begins
<1> HIDE DEF l, f, s
<1>4. ASSUME NEW i \in 1 .. Size(msg, k) PROVE w[Start(k) + i] = s[i]
  <2>1. Start(k) + i \in 1 .. l
    BY <1>2, <1>3
  <2>2. f[Start(k) + i] = s[i]
    BY <1>1 DEF Holds
  <2>3. QED
    BY <1>3, <2>1, <2>2
<1>5. Holds(w, Start(k), s)
  BY <1>1, <1>4 DEF Holds
<1>6. QED
  BY <1>5 DEF s
\* Every number is read as it was written.
LEMMA NumbersArrive == ASSUME NEW msg \in Messages, NEW pad, NEW w, Begins(w, msg, pad), Len(w) >= 120
  PROVE /\ GetU32(w, 36) = msg.schema /\ GetU32(w, 112) = msg.ptype /\ GetU32(w, 116) = PayLen(msg)
        /\ GetU64(w, 40) = msg.created /\ GetU64(w, 48) = msg.seq /\ GetU64(w, 56) = msg.flags
<1> DEFINE write(k) == WritesOf(msg)[k][2]
<1>1. /\ write(4) = SetU32(msg.schema) /\ write(5) = SetU64(msg.created) /\ write(6) = SetU64(msg.seq)
      /\ write(7) = SetU64(msg.flags) /\ write(10) = SetU32(msg.ptype) /\ write(11) = SetU32(PayLen(msg))
  BY DEF WritesOf, PayLen
<1>2. ASSUME NEW k \in 1 .. 11, k # 2 PROVE Holds(w, Start(k), write(k))
  BY <1>2, FieldArrives
<1> HIDE DEF write
<1>3. Holds(w, 36, SetU32(msg.schema))
  BY <1>1, <1>2, StartsAre
<1>4. Holds(w, 40, SetU64(msg.created))
  BY <1>1, <1>2, StartsAre
<1>5. Holds(w, 48, SetU64(msg.seq))
  BY <1>1, <1>2, StartsAre
<1>6. Holds(w, 56, SetU64(msg.flags))
  BY <1>1, <1>2, StartsAre
<1>7. Holds(w, 112, SetU32(msg.ptype))
  BY <1>1, <1>2, StartsAre
<1>8. Holds(w, 116, SetU32(PayLen(msg)))
  BY <1>1, <1>2, StartsAre
<1>9. ASSUME NEW x \in U32 PROVE x \in Nat /\ x % Word = x
  BY WordsAre, SmallIsItself DEF U32
<1>10. msg.schema \in U32 /\ msg.ptype \in U32 /\ PayLen(msg) \in U32
  BY MessageFields DEF PayLen
<1>11. msg.created \in U64 /\ msg.seq \in U64 /\ msg.flags \in U64
  BY MessageFields
<1>12. GetU32(w, 36) = msg.schema
  BY <1>3, <1>9, <1>10, ReadsU32
<1>13. GetU32(w, 112) = msg.ptype
  BY <1>7, <1>9, <1>10, ReadsU32
<1>14. GetU32(w, 116) = PayLen(msg)
  BY <1>8, <1>9, <1>10, ReadsU32
<1>fits. GetU64(w, 40) = msg.created
  BY <1>4, <1>11, ReadsU64
<1>16. GetU64(w, 48) = msg.seq
  BY <1>5, <1>11, ReadsU64
<1>17. GetU64(w, 56) = msg.flags
  BY <1>6, <1>11, ReadsU64
<1>18. QED
  BY <1>12, <1>13, <1>14, <1>fits, <1>16, <1>17

\* The id is read as it was written, its halves swapped back.
LEMMA IdArrives == ASSUME NEW msg \in Messages, NEW pad, NEW w, Begins(w, msg, pad), Len(w) >= 120
  PROVE Swapped(Slice(w, 64, 16)) = msg.id
<1> DEFINE s == Swapped(msg.id)
<1>1. s \in Seq(Byte) /\ Len(s) = 16 /\ Swapped(s) = msg.id
  BY MessageFields, SwappedIs
<1>2. WritesOf(msg)[8][2] = s
  BY DEF WritesOf
<1>3. Holds(w, Start(8), WritesOf(msg)[8][2])
  BY FieldArrives
<1>4. Holds(w, 64, s)
  BY <1>2, <1>3, StartsAre
<1>5. Len(w) \in Nat
  BY DEF Begins
<1> HIDE DEF s
<1>6. 64 + Len(s) <= Len(w)
  BY <1>1, <1>5
<1>7. Slice(w, 64, Len(s)) = s
  BY <1>1, <1>4, <1>5, <1>6, SliceOfField
<1>8. QED
  BY <1>1, <1>7

\* Of the payload is read what arrived of it.
LEMMA PayloadArrives == ASSUME NEW msg \in Messages, NEW pad, NEW w, Begins(w, msg, pad), Len(w) >= 120
  PROVE Slice(w, 120, PayLen(msg)) = SubSeq(msg.payload, 1, Len(w) - 120)
<1> DEFINE l == Len(w)
           p == msg.payload
           pl == PayLen(msg)
           f == Framed(msg, pad)
<1>1. l \in Nat /\ l >= 120 /\ l <= 120 + pl /\ w = [n \in 1 .. l |-> f[n]]
  BY DEF Begins
<1>2. p \in Seq(Byte) /\ Len(p) = pl /\ pl \in Nat
  BY MessageFields, LengthsAre DEF PayLen
<1>3. Holds(f, 120, p)
  <2>1. WritesOf(msg)[12][2] = p
    BY DEF WritesOf
  <2>2. Holds(f, Start(12), WritesOf(msg)[12][2])
    BY FieldStands
  <2>3. QED
    BY <2>1, <2>2, StartsAre
<1>4. Slice(w, 120, pl) = SubSeq(w, 121, l)
  <2> HIDE DEF l, pl
  <2>1. Min({120 + pl, l}) = l
    <3>1. {120 + pl, l} \in SUBSET Nat /\ l \in {120 + pl, l} /\ \A y \in {120 + pl, l} : l <= y
      BY <1>1, <1>2
    <3> DEFINE S == {120 + pl, l}
    <3> HIDE DEF S
    <3>2. Min(S) = l
      BY <3>1, MinIs DEF S
    <3>3. QED
      BY <3>2 DEF S
  <2>2. Slice(w, 120, pl) = SubSeq(w, 120 + 1, Min({120 + pl, l}))
    BY DEF Slice, l
  <2>3. 120 + 1 = 121
    OBVIOUS
  <2>4. QED
    BY <2>1, <2>2, <2>3
<1> HIDE DEF l, p, pl, f
<1> DEFINE a == SubSeq(w, 121, l)
           b == SubSeq(p, 1, l - 120)
<1>5. \A i \in 1 .. l - 120 : w[120 + i] = p[i]
  <2> TAKE i \in 1 .. l - 120
  <2>1. 120 + i \in 1 .. l /\ i \in 1 .. pl
    BY <1>1, <1>2
  <2>2. f[120 + i] = p[i]
    BY <1>2, <1>3, <2>1 DEF Holds
  <2>3. QED
    BY <1>1, <2>1, <2>2
<1>6. b \in Seq(Byte) /\ Len(b) = l - 120 /\ \A i \in 1 .. l - 120 : b[i] = p[i]
  <2> DEFINE m == l - 120
  <2>1. m \in Nat /\ m <= Len(p)
    BY <1>1, <1>2
  <2> HIDE DEF m
  <2>2. /\ SubSeq(p, 1, m) \in Seq(Byte) /\ Len(SubSeq(p, 1, m)) = m - 1 + 1
        /\ \A i \in 1 .. m - 1 + 1 : SubSeq(p, 1, m)[i] = p[1 + i - 1]
    BY <1>2, <2>1, PartOf
  <2>3. /\ SubSeq(p, 1, m) \in Seq(Byte) /\ Len(SubSeq(p, 1, m)) = m
        /\ \A i \in 1 .. m : SubSeq(p, 1, m)[i] = p[i]
    BY <2>1, <2>2
  <2>4. QED
    BY <2>3 DEF m
<1>7. \A i \in 121 .. l : w[i] \in Byte
  <2> TAKE i \in 121 .. l
  <2>1. i - 120 \in 1 .. l - 120 /\ 120 + (i - 120) = i /\ i - 120 \in 1 .. pl
    BY <1>1, <1>2
  <2>2. w[i] = p[i - 120] /\ p[i - 120] \in Byte
    BY <1>2, <1>5, <2>1
  <2>3. QED
    BY <2>2
<1>8. a \in Seq(Byte) /\ Len(a) = l - 120 /\ \A i \in 1 .. l - 120 : a[i] = w[120 + i]
  <2>1. /\ a \in Seq(Byte) /\ Len(a) = IF 121 <= l THEN l - 121 + 1 ELSE 0
        /\ \A i \in 1 .. l - 121 + 1 : a[i] = w[121 + i - 1]
    BY <1>1, <1>7, SubSeqProperties
  <2> HIDE DEF a
  <2>2. QED
    BY <1>1, <2>1
<1>9. a = b
  <2> HIDE DEF a, b
  <2>1. Len(a) = Len(b) /\ \A i \in 1 .. Len(a) : a[i] = b[i]
    BY <1>5, <1>6, <1>8
  <2>2. QED
    BY <1>6, <1>8, <2>1, SeqEqual
<1>10. QED
  BY <1>4, <1>9 DEF l, p, pl, a, b
\* The padding is cut off, and nothing of the type is.
LEMMA TypeArrives ==
  ASSUME NEW msg \in Messages, NEW pad \in {Space, Nul}, NEW w, Begins(w, msg, pad), Len(w) >= 120
  PROVE Trimmed(Slice(w, 4, 32)) = msg.type
<1> DEFINE l == Len(w)
           text == msg.type
           tl == TypeLen(msg)
           f == Framed(msg, pad)
           b == Serialize(msg)
           t == SubSeq(w, 5, 36)
<1>1. l \in Nat /\ l >= 120 /\ w = [n \in 1 .. l |-> f[n]]
  BY DEF Begins
<1>2. /\ text \in Seq(Byte) /\ Len(text) = tl /\ tl \in Nat /\ tl <= 32
      /\ \A n \in 1 .. tl : text[n] \notin {Space, Nul}
  BY MessageFields, LengthsAre DEF TypeLen
<1>fits. tl \in Nat /\ tl <= 32
  BY LengthsAre
<1>3. Slice(w, 4, 32) = t
  <2> HIDE DEF l
  <2>1. Min({36, l}) = 36
    <3> DEFINE S == {36, l}
    <3>1. S \in SUBSET Nat /\ 36 \in S /\ \A y \in S : 36 <= y
      BY <1>1
    <3> HIDE DEF S
    <3>2. Min(S) = 36
      BY <3>1, MinIs
    <3>3. QED
      BY <3>2 DEF S
  <2>2. Slice(w, 4, 32) = SubSeq(w, 4 + 1, Min({4 + 32, l}))
    BY DEF Slice, l
  <2>3. 4 + 1 = 5 /\ 4 + 32 = 36
    OBVIOUS
  <2>4. QED
    BY <2>1, <2>2, <2>3
<1>4. Holds(w, 4, text)
  <2>1. WritesOf(msg)[3][2] = text
    BY DEF WritesOf
  <2>2. Holds(w, Start(3), WritesOf(msg)[3][2])
    BY FieldArrives
  <2>3. QED
    BY <2>1, <2>2, StartsAre
<1>5. ASSUME NEW n \in 1 .. l, 4 + tl < n, n <= 36 PROVE w[n] = pad
  <2>1. f = [m \in 1 .. 120 + PayLen(msg) |-> IF 4 + tl < m /\ m <= 36 THEN pad ELSE b[m]]
    BY FrameIs
  <2>2. PayLen(msg) \in Nat
    BY LengthsAre
  <2> HIDE DEF l, f, b, tl
  <2>3. n \in 1 .. 120 + PayLen(msg)
    BY <1>1, <1>5, <2>2
  <2>4. f[n] = pad
    BY <1>5, <2>1, <2>3
  <2>5. QED
    BY <1>1, <2>4
<1> HIDE DEF l, text, tl, f, b
<1>6. \A n \in 1 .. 32 : w[4 + n] = IF n <= tl THEN text[n] ELSE pad
  <2> TAKE n \in 1 .. 32
  <2>1. CASE n <= tl
    <3>1. n \in 1 .. Len(text)
      BY <1>2, <2>1
    <3>2. QED
      BY <1>4, <2>1, <3>1 DEF Holds
  <2>2. CASE ~(n <= tl)
    <3>1. 4 + n \in 1 .. l /\ 4 + tl < 4 + n /\ 4 + n <= 36
      BY <1>1, <1>2, <2>2
    <3>2. w[4 + n] = pad
      BY <1>5, <3>1
    <3>3. QED
      BY <2>2, <3>2
  <2>3. QED
    BY <2>1, <2>2
<1>7. pad \in Byte
  BY FrameConstants DEF Byte, Space, Nul
<1>8. \A n \in 5 .. 36 : w[n] \in Byte
  <2> TAKE n \in 5 .. 36
  <2>1. n - 4 \in 1 .. 32 /\ 4 + (n - 4) = n
    OBVIOUS
  <2>2. w[n] = IF n - 4 <= tl THEN text[n - 4] ELSE pad
    BY <1>6, <2>1
  <2>3. CASE n - 4 <= tl
    <3>1. n - 4 \in 1 .. Len(text)
      BY <1>2, <2>1, <2>3
    <3>2. QED
      BY <1>2, <2>2, <2>3, <3>1
  <2>4. QED
    BY <1>7, <2>2, <2>3
<1>9. t \in Seq(Byte) /\ Len(t) = 32 /\ \A n \in 1 .. 32 : t[n] = IF n <= tl THEN text[n] ELSE pad
  <2>1. /\ t \in Seq(Byte) /\ Len(t) = IF 5 <= 36 THEN 36 - 5 + 1 ELSE 0
        /\ \A i \in 1 .. 36 - 5 + 1 : t[i] = w[5 + i - 1]
    BY <1>8, SubSeqProperties
  <2> HIDE DEF t
  <2>2. t \in Seq(Byte) /\ Len(t) = 32 /\ \A i \in 1 .. 32 : t[i] = w[4 + i]
    BY <2>1
  <2>3. QED
    BY <1>6, <2>2
<1> HIDE DEF t
<1> DEFINE S == {n \in DOMAIN t : t[n] \notin {Space, Nul}}
<1>10. S = 1 .. tl
  <2>1. DOMAIN t = 1 .. 32
    BY <1>9
  <2>2. ASSUME NEW n \in 1 .. 32 PROVE t[n] \notin {Space, Nul} <=> n <= tl
    <3>1. CASE n <= tl
      <4>1. n \in 1 .. tl
        BY <1>fits, <3>1
      <4>2. t[n] = text[n]
        BY <1>9, <3>1
      <4>3. QED
        BY <1>2, <3>1, <4>1, <4>2
    <3>2. CASE ~(n <= tl)
      BY <1>9, <3>2
    <3>3. QED
      BY <3>1, <3>2
  <2>3. \A n \in 1 .. 32 : n <= tl <=> n \in 1 .. tl
    BY <1>fits
  <2>4. 1 .. tl \subseteq 1 .. 32
    BY <1>fits
  <2>5. QED
    BY <2>1, <2>2, <2>3, <2>4
<1> HIDE DEF S
<1>11. Trimmed(t) = IF S = {} THEN <<>> ELSE SubSeq(t, Min(S), Max(S))
  BY DEF Trimmed, S
<1>12. CASE tl = 0
  <2>1. S = {}
    BY <1>10, <1>12
  <2>2. Len(text) = 0
    BY <1>2, <1>12
  <2>3. text = <<>>
    BY <1>2, <2>2
  <2>4. QED
    BY <1>3, <1>11, <2>1, <2>3 DEF text
<1>13. CASE tl # 0
  <2>1. S \in SUBSET Nat /\ 1 \in S /\ tl \in S /\ \A y \in S : 1 <= y /\ tl >= y
    BY <1>2, <1>10, <1>13
  <2>2. Min(S) = 1 /\ Max(S) = tl
    BY <2>1, MinIs, MaxIs
  <2> DEFINE c == SubSeq(t, 1, tl)
  <2>3. Trimmed(t) = c
    BY <1>11, <2>1, <2>2
  <2>4. c \in Seq(Byte) /\ Len(c) = tl /\ \A i \in 1 .. tl : c[i] = t[i]
    <3>1. tl \in Nat /\ 1 <= tl + 1 /\ tl <= Len(t)
      BY <1>fits, <1>9
    <3>2. /\ c \in Seq(Byte) /\ Len(c) = tl - 1 + 1
          /\ \A i \in 1 .. tl - 1 + 1 : c[i] = t[1 + i - 1]
      <4>1. t \in Seq(Byte)
        BY <1>9
      <4>2. QED
        BY <3>1, <4>1, PartOf
    <3> HIDE DEF c
    <3>3. QED
      BY <3>1, <3>2
  <2> HIDE DEF c
  <2>5. Len(c) = Len(text) /\ \A i \in 1 .. Len(c) : c[i] = text[i]
    <3>1. Len(c) = Len(text) /\ Len(c) = tl
      BY <1>2, <2>4
    <3>2. ASSUME NEW i \in 1 .. tl PROVE c[i] = text[i]
      <4>1. i \in 1 .. 32 /\ i <= tl
        BY <1>fits
      <4>2. QED
        BY <1>9, <2>4, <4>1
    <3>3. QED
      BY <3>1, <3>2
  <2>6. c = text
    BY <1>2, <2>4, <2>5, SeqEqual
  <2>7. QED
    BY <1>3, <2>3, <2>6 DEF text
<1>14. QED
  BY <1>12, <1>13

-----------------------------------------------------------------------------
(***************************************************************************)
(* The state of the exchange: the bytes that are there begin the frame of  *)
(* the message, and what was read and acknowledged was read of them.       *)
(***************************************************************************)
FrameInv ==
    /\ message \in Messages
    /\ \E pad \in {Space, Nul} : Begins(wire, message, pad)
    /\ received \in {"sent", "cut", "read", "rejected", "acked"}
    /\ got = IF received \in {"read", "acked"} THEN Deserialize(wire) ELSE <<>>
    /\ received \in {"read", "acked"} => ~TooShort(wire)
    /\ received = "rejected" => TooShort(wire)
    /\ received = "acked" => acked = AcknowledgeContent(got)

\* The invariant holds of a frame that was just sent.
LEMMA FramesStart == FrameInit => FrameInv
<1> SUFFICES ASSUME FrameInit PROVE FrameInv
  OBVIOUS
<1>1. message \in Messages /\ got = <<>> /\ received = "sent"
  BY DEF FrameInit
<1>2. PICK pad \in {Space, Nul} : wire = Framed(message, pad)
  BY DEF FrameInit, Framed
<1> DEFINE last == 120 + PayLen(message)
           b == Serialize(message)
           f == Framed(message, pad)
<1>3. last \in Nat
  BY <1>1, LengthsAre
<1>4. f = [n \in 1 .. last |-> IF 4 + TypeLen(message) < n /\ n <= 36 THEN pad ELSE b[n]]
  BY <1>1, FrameIs
<1>5. wire = f
  BY <1>2
<1> HIDE DEF last, b, f
<1>6. Len(wire) = last /\ wire = [n \in 1 .. last |-> f[n]]
  BY <1>3, <1>4, <1>5
<1>7. Begins(wire, message, pad)
  BY <1>3, <1>6 DEF Begins, f, last
<1>8. QED
  BY <1>1, <1>7 DEF FrameInv

\* A frame that is cut again still begins the frame.
LEMMA CutBegins ==
  ASSUME NEW w, NEW msg \in Messages, NEW pad, Begins(w, msg, pad), NEW n \in Nat, n < Len(w)
  PROVE Begins(SubSeq(w, 1, n), msg, pad)
<1> DEFINE l == Len(w)
           f == Framed(msg, pad)
           last == 120 + PayLen(msg)
           S == {f[i] : i \in 1 .. n}
           c == SubSeq(w, 1, n)
<1>1. l \in Nat /\ l <= last /\ w = [i \in 1 .. l |-> f[i]] /\ n < l
  BY DEF Begins
<1>2. last \in Nat
  BY LengthsAre
<1> HIDE DEF l, f, last
<1>3. \A i \in 1 .. n : w[i] = f[i] /\ w[i] \in S
  <2> TAKE i \in 1 .. n
  <2>1. i \in 1 .. l
    BY <1>1
  <2>2. QED
    BY <1>1, <2>1
<1> HIDE DEF S
<1>4. c \in Seq(S) /\ Len(c) = n /\ \A i \in 1 .. n : c[i] = w[i]
  <2>1. /\ c \in Seq(S) /\ Len(c) = IF 1 <= n THEN n - 1 + 1 ELSE 0
        /\ \A i \in 1 .. n - 1 + 1 : c[i] = w[1 + i - 1]
    BY <1>3, SubSeqProperties
  <2> HIDE DEF c
  <2>2. QED
    BY <2>1
<1> HIDE DEF c
<1>5. c = [i \in 1 .. n |-> f[i]]
  <2>1. c = [i \in 1 .. Len(c) |-> c[i]]
    BY <1>4
  <2>2. QED
    BY <1>3, <1>4, <2>1
<1>6. n <= last
  BY <1>1, <1>2
<1>7. Begins(c, msg, pad)
  BY <1>4, <1>5, <1>6 DEF Begins, f, last
<1>8. QED
  BY <1>7 DEF c

\* Every step keeps the invariant.
LEMMA FramesKeep == ASSUME FrameInv, [FrameNext]_frameVars PROVE FrameInv'
<1>1. ASSUME NEW n \in Cuts, FrameCut(n) PROVE FrameInv'
  <2>1. PICK pad \in {Space, Nul} : Begins(wire, message, pad)
    BY DEF FrameInv
  <2>2. n \in Nat
    BY FrameConstants
  <2>3. message \in Messages /\ received = "sent" /\ got = <<>>
    BY <1>1 DEF FrameInv, FrameCut
  <2>4. wire' = SubSeq(wire, 1, n) /\ n < Len(wire) /\ received' = "cut" /\ message' = message /\ got' = got
    BY <1>1 DEF FrameCut
  <2>5. Begins(SubSeq(wire, 1, n), message, pad)
    BY <2>1, <2>2, <2>3, <2>4, CutBegins
  <2>6. Begins(wire', message', pad)
    BY <2>4, <2>5
  <2>7. QED
    BY <2>3, <2>4, <2>6 DEF FrameInv
<1>2. CASE FrameArrives
  BY <1>2 DEF FrameInv, FrameArrives
<1>3. CASE FrameAcked
  BY <1>3 DEF FrameInv, FrameAcked
<1>4. CASE UNCHANGED frameVars
  BY <1>4 DEF FrameInv, frameVars
<1>5. QED
  BY <1>1, <1>2, <1>3, <1>4 DEF FrameNext

\* What is read of a frame that is long enough is the message, up to where it was cut.
LEMMA ReadIsMessage ==
  ASSUME NEW msg \in Messages, NEW pad \in {Space, Nul}, NEW w, Begins(w, msg, pad), Len(w) >= 120
  PROVE /\ [Deserialize(w) EXCEPT !.payload = msg.payload] = msg
        /\ Deserialize(w).payload = SubSeq(msg.payload, 1, Len(w) - 120)
        /\ Deserialize(w).type = msg.type /\ Deserialize(w).id = msg.id /\ Deserialize(w).seq = msg.seq
        /\ Deserialize(w) # <<>>
<1> DEFINE paid == SubSeq(msg.payload, 1, Len(w) - 120)
<1>1. Deserialize(w) = [type |-> Trimmed(Slice(w, 4, 32)), schema |-> GetU32(w, 36),
        created |-> GetU64(w, 40), seq |-> GetU64(w, 48), flags |-> GetU64(w, 56),
        id |-> Swapped(Slice(w, 64, 16)), ptype |-> GetU32(w, 112), payload |-> Slice(w, 120, GetU32(w, 116))]
  BY DEF Deserialize, Offset
<1>2. /\ GetU32(w, 36) = msg.schema /\ GetU32(w, 112) = msg.ptype /\ GetU32(w, 116) = PayLen(msg)
      /\ GetU64(w, 40) = msg.created /\ GetU64(w, 48) = msg.seq /\ GetU64(w, 56) = msg.flags
  BY NumbersArrive
<1>3. Trimmed(Slice(w, 4, 32)) = msg.type
  BY TypeArrives
<1>4. Swapped(Slice(w, 64, 16)) = msg.id
  BY IdArrives
<1>5. Slice(w, 120, PayLen(msg)) = paid
  BY PayloadArrives
<1> HIDE DEF paid
<1>6. Deserialize(w) = [type |-> msg.type, schema |-> msg.schema, created |-> msg.created, seq |-> msg.seq,
        flags |-> msg.flags, id |-> msg.id, ptype |-> msg.ptype, payload |-> paid]
  BY <1>1, <1>2, <1>3, <1>4, <1>5
<1>7. msg \in [type : Seq(Byte \ {Space, Nul}), schema : U32, created : U64, seq : U64, flags : U64,
                id : Seq(Byte), ptype : U32, payload : Seq(Byte)]
  BY FrameConstants
<1>8. msg = [type |-> msg.type, schema |-> msg.schema, created |-> msg.created, seq |-> msg.seq,
        flags |-> msg.flags, id |-> msg.id, ptype |-> msg.ptype, payload |-> msg.payload]
  BY <1>7
<1>9. [Deserialize(w) EXCEPT !.payload = msg.payload] = msg
  BY <1>6, <1>8
<1>10. Deserialize(w) # <<>>
  BY <1>6
<1>11. QED
  BY <1>6, <1>9, <1>10 DEF paid

\* The invariant gives the property.
LEMMA FrameInvIsFaithful == ASSUME FrameInv PROVE FramesAreFaithful
<1>1. PICK pad \in {Space, Nul} : Begins(wire, message, pad)
  BY DEF FrameInv
<1>2. message \in Messages /\ Len(wire) \in Nat
  BY <1>1 DEF FrameInv, Begins
<1>3. Offset.PAYLOAD = 120
  BY DEF Offset
<1>4. CASE received \in {"read", "acked"}
  <2>1. got = Deserialize(wire) /\ ~TooShort(wire)
    BY <1>4 DEF FrameInv
  <2>2. Len(wire) >= 120
    BY <1>2, <1>3, <2>1 DEF TooShort
  <2>3. /\ [got EXCEPT !.payload = message.payload] = message
        /\ got.payload = SubSeq(message.payload, 1, Len(wire) - 120)
        /\ got.type = message.type /\ got.id = message.id /\ got.seq = message.seq
    BY <1>1, <1>2, <2>1, <2>2, ReadIsMessage
  <2>4. received = "acked" => acked = [type |-> message.type, id |-> message.id, seq |-> message.seq]
    BY <2>3 DEF FrameInv, AcknowledgeContent
  <2>5. received # "rejected"
    BY <1>4
  <2>6. QED
    BY <1>3, <2>3, <2>4, <2>5 DEF FramesAreFaithful
<1>5. CASE received \notin {"read", "acked"}
  <2>1. got = <<>> /\ received # "acked" /\ (received = "rejected" => Len(wire) < Offset.PAYLOAD)
    BY <1>5 DEF FrameInv, TooShort
  <2>2. QED
    BY <2>1 DEF FramesAreFaithful
<1>6. QED
  BY <1>4, <1>5

(***************************************************************************)
(* What is read is what was sent, of every frame, whole or cut, whatever   *)
(* the values of the fields (agent-message.ts:108-156).                    *)
(***************************************************************************)
THEOREM FramesAlwaysFaithful == FrameSpec => []FramesAreFaithful
<1>1. FrameInit => FrameInv
  BY FramesStart
<1>2. FrameInv /\ [FrameNext]_frameVars => FrameInv'
  BY FramesKeep
<1>3. FrameInv => FramesAreFaithful
  BY FrameInvIsFaithful
<1>4. QED
  BY <1>1, <1>2, <1>3, PTL DEF FrameSpec

-----------------------------------------------------------------------------
(***************************************************************************)
(* The sign-in.  An exchange under way is of a login this tab began and    *)
(* holds on its callback or leaves it; a login that was begun is stored,   *)
(* or another came after it, or its code is spent.                         *)
(***************************************************************************)
Exchanging == exchange \in {"asked", "federating", "identifying"}

SignInInv ==
    /\ SignInIsSafe
    /\ Exchanging => at # 0 /\ place \in {"callback", "leaving"}
    /\ place = "globus" => exchange = "off"
    /\ {at, target} \ {0} \subseteq Begun
    /\ \A l \in Begun : storage = l \/ l \in overlapped \/ code[l] = "spent"

USE SignInBound

\* Nobody is signed in at the start.
LEMMA SignInStarts == SignInInit => SignInInv
BY DEF SignInInit, SignInInv, SignInIsSafe, SignInTypeOK, OnlyOwnLoginIsExchanged,
       ConsentIsAccepted, FailedExchangeCanBeRepeated, ReloadIsClean, TransferIsAsConsented,
       Exchanging, Begun

\* Every step of the sign-in keeps its invariant.
LEMMA SignInSteps == ASSUME SignInInv, [SignInNext]_signInVars PROVE SignInInv'
<1> USE DEF SignInInv, SignInIsSafe, SignInTypeOK, OnlyOwnLoginIsExchanged,
       ConsentIsAccepted, FailedExchangeCanBeRepeated, ReloadIsClean, TransferIsAsConsented,
       Exchanging, Begun
<1>1. ASSUME NEW l \in Logins, BeginLogin(l) PROVE SignInInv'
  BY <1>1 DEF BeginLogin
<1>2. ASSUME NEW l \in Logins, Redirects(l) PROVE SignInInv'
  BY <1>2 DEF Redirects
<1>3. CASE Leaves
  BY <1>3 DEF Leaves
<1>4. CASE Consents
  BY <1>4 DEF Consents
<1>5. CASE Declines
  BY <1>5 DEF Declines
<1>6. CASE OpensAnother
  BY <1>6 DEF OpensAnother
<1>7. CASE CompleteLogin
  BY <1>7 DEF CompleteLogin
<1>8. CASE TokensAnswered
  BY <1>8 DEF TokensAnswered, Spend, ExtractIdToken, ExtractTransferToken
<1>9. CASE TokensFailed
  BY <1>9 DEF TokensFailed, Spend
<1>10. CASE Federated
  BY <1>10 DEF Federated
<1>11. CASE Identified
  BY <1>11 DEF Identified
<1>12. CASE Reloads
  BY <1>12 DEF Reloads
<1>13. CASE UNCHANGED signInVars
  BY <1>13 DEF signInVars
<1>14. QED
  BY <1>1, <1>2, <1>3, <1>4, <1>5, <1>6, <1>7, <1>8, <1>9, <1>10, <1>11, <1>12, <1>13
  DEF SignInNext, Answers

(***************************************************************************)
(* However the logins of a tab cross, and whatever Globus answers, a       *)
(* sign-in exchanges a code of its own, can be repeated after a failure    *)
(* but not after a success, and holds the tokens consented to              *)
(* (globus.ts:135-215, main.ts:300-330).                                   *)
(***************************************************************************)
THEOREM SignInAlwaysSafe == SignInSpec => []SignInIsSafe
<1>1. SignInInv => SignInIsSafe
  BY DEF SignInInv
<1>2. QED
  BY <1>1, SignInStarts, SignInSteps, PTL DEF SignInSpec
-----------------------------------------------------------------------------
(***************************************************************************)
(* A launch.  There is no instance before RunInstances is answered, and    *)
(* never one for a request that is refused.                                *)
(***************************************************************************)
LaunchInv ==
    /\ Ec2TypeOK /\ RejectionIsTruthful /\ OnlyTheReleaseRuns /\ NeverUnstoppable
    /\ step \in {"idle", "asked", "identity", "ami", "run"} => ec2 = "none"
    /\ Refused(request) => step \in {"idle", "asked", "rejected"} /\ calls = {} /\ ec2 = "none"

\* What RefusedBeforeAnyCall lists is refused.
LEMMA BadIsRefused ==
    ASSUME NEW r \in Requests,
           \/ ~r.ttl /\ ~r.idle /\ ~r.cost /\ ~r.allow
           \/ r.nested /\ ~r.ttl
           \/ r.spot /\ (r.idle \/ r.onComplete = "stop")
           \/ r.flaw # "none"
    PROVE  Refused(r)
<1>1. Bounds(r) = {} <=> ~r.ttl /\ ~r.idle /\ ~r.cost
  BY DEF Bounds
<1>2. QED
  BY <1>1 DEF Refused, EvaluateBounds, NestedSpawnRefused, SpotRefused, NeedsStoppable

\* At the start nothing was asked of EC2.
LEMMA LaunchStarts == Ec2Init => LaunchInv
<1> SUFFICES ASSUME Ec2Init PROVE LaunchInv
  OBVIOUS
<1>1. Ec2TypeOK
  <2>1. base \in 1 .. Bases /\ tries \in 0 .. RetireTries
    BY LaunchConstants DEF Ec2Init
  <2>2. QED
    BY <2>1 DEF Ec2Init, Ec2TypeOK
<1>2. RejectionIsTruthful /\ OnlyTheReleaseRuns
  BY DEF Ec2Init, RejectionIsTruthful, OnlyTheReleaseRuns
<1>3. NeverUnstoppable
  BY DEF Ec2Init, NeverUnstoppable
<1>4. QED
  BY <1>1, <1>2, <1>3 DEF Ec2Init, LaunchInv

\* Every step of a launch, of the bootstrap and of what ends an instance.
LEMMA LaunchKeeps == ASSUME LaunchInv, [Ec2Next]_ec2Vars PROVE LaunchInv'
<1> USE LaunchConstants
<1> USE DEF LaunchInv, Ec2TypeOK, RejectionIsTruthful, OnlyTheReleaseRuns,
            NeverUnstoppable, ec2Vars, launchVars, bootVars
<1>2. CASE Ask
  BY <1>2 DEF Ask, StepsTo
<1>3. CASE Accept
  BY <1>3 DEF Accept, StepsTo
<1>4. CASE Refuse
  BY <1>4 DEF Refuse, Rejects
<1>5. CASE IdentityResolved
  <2>1. UNCHANGED <<request, told, ec2, unanswered, bootVars>>
    BY <1>5 DEF IdentityResolved, StepsTo
  <2>2. step = "identity" /\ step' \in {"ami", "run"}
    BY <1>5 DEF IdentityResolved, StepsTo
  <2>3. calls' \subseteq {"GetCallerIdentity", "DescribeImages", "RunInstances"}
    BY <1>5 DEF IdentityResolved
  <2>4. QED
    BY <2>1, <2>2, <2>3
<1>6. CASE AmiResolved
  BY <1>6 DEF AmiResolved, StepsTo
<1>7. CASE CallFailed
  BY <1>7 DEF CallFailed, Rejects
<1>8. CASE InstanceRuns
  BY <1>8 DEF InstanceRuns, Rejects
<1>9. CASE ListServedAgain
  BY <1>9 DEF ListServedAgain, StepsTo
<1>10. CASE ListFailedAgain
  <2>1. UNCHANGED <<request, calls, ec2, unanswered, bootVars>> /\ step = "refresh"
    BY <1>10 DEF ListFailedAgain, Rejects
  <2>2. CASE request.keep /\ step' = "rejected" /\ told' = "kept"
    BY <2>1, <2>2
  <2>3. CASE step' = "retire" /\ UNCHANGED told
    BY <2>1, <2>3
  <2>4. QED
    BY <1>10, <2>2, <2>3 DEF ListFailedAgain, Rejects
<1>11. CASE RetireServed
  BY <1>11 DEF RetireServed, EndsAs, Rejects
<1>12. CASE RetireFailed
  BY <1>12 DEF RetireFailed, Rejects
<1>13. CASE BootSteps
  <2>1. UNCHANGED <<launchVars, tries, unstoppable>> /\ ec2 = "running"
    BY <1>13 DEF BootSteps, SetUp, Fetch, Check, RunBody, Boots
  <2>2. base' \in 1 .. Bases
    BY <1>13 DEF BootSteps, SetUp, Fetch, Check, RunBody
  <2>3. /\ boot' \in {"unguarded", "fetching", "checking", "body", "retiring", "up"}
        /\ fetched' \in {"none", "partial", "forged", "genuine"}
        /\ boot' \in {"body", "up"} => fetched' = "genuine"
    BY <1>13 DEF BootSteps, SetUp, Fetch, Check, RunBody, Boots
  <2>4. QED
    BY <2>1, <2>2, <2>3
<1>14. CASE FatalRetire
  BY <1>14 DEF FatalRetire, EndsAs
<1>15. CASE SporedDies
  BY <1>15 DEF SporedDies, Boots
<1>16. CASE SporedTerminates
  BY <1>16 DEF SporedTerminates
<1>17. CASE SporedStops
  BY <1>17 DEF SporedStops, Refused, SpotRefused, NeedsStoppable
<1>18. CASE Reaped
  BY <1>18 DEF Reaped
<1>19. CASE UNCHANGED ec2Vars
  BY <1>19 DEF Refused, NestedSpawnRefused, SpotRefused, NeedsStoppable
<1>20. QED
  BY <1>2, <1>3, <1>4, <1>5, <1>6, <1>7, <1>8, <1>9, <1>10, <1>11, <1>12, <1>13, <1>14, <1>15,
     <1>16, <1>17, <1>18, <1>19 DEF Ec2Next, LaunchSteps, SporedEnds

(***************************************************************************)
(* Whatever a launch asks for, whichever call of AWS fails or loses its    *)
(* answer and however the bootstrap ends, a launch that is refused has     *)
(* called nothing, a rejection does not hide an instance that bills, only  *)
(* the release's files run, and none has to be stopped that cannot be      *)
(* (ec2.ts:156, client.ts:476-494, userdata.ts:202, bounds.ts:173).        *)
(***************************************************************************)
THEOREM LaunchAlwaysTruthful == Ec2Spec => []LaunchIsTruthful
<1>1. LaunchInv => LaunchIsTruthful
  BY BadIsRefused DEF LaunchInv, LaunchIsTruthful, Ec2TypeOK, RefusedBeforeAnyCall
<1>2. QED
  BY <1>1, LaunchStarts, LaunchKeeps, PTL DEF Ec2Spec

-----------------------------------------------------------------------------
(***************************************************************************)
(* A transfer.  Globus has a task for each submission id it has seen; one  *)
(* that ended stays as it is, so that an end once observed is still so.    *)
(***************************************************************************)
TransferInv ==
    /\ TransferIsTruthful
    /\ \A c \in Submissions :
         /\ submission[c] \in {"id", "post", "done"} => c \in items
         /\ submission[c] = "done" => c \in seen
         /\ task[c] = "none" <=> c \notin seen
         /\ observed[c] \in Ended => observed[c] = task[c]
         /\ watching[c] = "finished" => observed[c] \in Ended
         /\ cancelling[c] = "asked" => submission[c] = "done"

\* No task exists at the start.
LEMMA TransferStarts == TransferInit => TransferInv
BY DEF TransferInit, TransferInv, TransferIsTruthful, TransferTypeOK, EachSubmissionHasItsTask,
       FinishedIsFinal, CancelledIsTrue, Ended

\* Every step of a submission, a watch and a cancellation.
LEMMA TransferKeeps == ASSUME TransferInv, [TransferNext]_transferVars PROVE TransferInv'
<1> USE DEF TransferInv, TransferIsTruthful, TransferTypeOK, EachSubmissionHasItsTask,
            FinishedIsFinal, CancelledIsTrue, Ended
<1>1. CASE UNCHANGED transferVars
  BY <1>1 DEF transferVars
<1>2. ASSUME NEW c \in Submissions, NEW some \in BOOLEAN, Submit(c, some) PROVE TransferInv'
  BY <1>2 DEF Submit, Submits
<1>3. ASSUME NEW c \in Submissions, IdAnswered(c) PROVE TransferInv'
  BY <1>3 DEF IdAnswered, Submits
<1>4. ASSUME NEW c \in Submissions, PostDelivered(c) PROVE TransferInv'
  BY <1>4 DEF PostDelivered, SubmissionId
<1>5. ASSUME NEW c \in Submissions, PostAnswered(c) PROVE TransferInv'
  BY <1>5 DEF PostAnswered, SubmissionId, Submits
<1>6. ASSUME NEW c \in Submissions, TaskMoves(c) PROVE TransferInv'
  BY <1>6 DEF TaskMoves
<1>7. ASSUME NEW c \in Submissions, TaskEnds(c) PROVE TransferInv'
  BY <1>7 DEF TaskEnds
<1>8. ASSUME NEW c \in Submissions, NEW for \in Limits, AwaitTask(c, for) PROVE TransferInv'
  BY <1>8, TransferConstants DEF AwaitTask, Watches
<1>9. ASSUME NEW c \in Submissions, GetServed(c) PROVE TransferInv'
  BY <1>9 DEF GetServed, Watches, NormalizeStatus
<1>10. ASSUME NEW c \in Submissions, GetFailed(c) PROVE TransferInv'
  BY <1>10 DEF GetFailed, Concludes, Watches
<1>11. ASSUME NEW c \in Submissions, GetAnswered(c) PROVE TransferInv'
  BY <1>11 DEF GetAnswered, Concludes, Watches, IsTerminal
<1>12. ASSUME NEW c \in Submissions, WatchWakes(c) PROVE TransferInv'
  BY <1>12 DEF WatchWakes, Watches
<1>13. ASSUME NEW c \in Submissions, LimitPasses(c) PROVE TransferInv'
  BY <1>13 DEF LimitPasses
<1>14. ASSUME NEW c \in Submissions, CancelTask(c) PROVE TransferInv'
  BY <1>14 DEF CancelTask
<1>15. ASSUME NEW c \in Submissions, CancelAnswered(c) PROVE TransferInv'
  <2>1. PICK how \in {"rejected", "complete", "cancelled"} :
          /\ cancelling' = [cancelling EXCEPT ![c] = how]
          /\ how = "cancelled" => task[c] \notin Ended
    BY <1>15 DEF CancelAnswered
  <2>2. /\ task' = [task EXCEPT ![c] = IF @ \in Ended THEN @ ELSE "FAILED"]
        /\ UNCHANGED <<submission, items, seen, watching, observed, limit, due>>
        /\ submission[c] = "done"
    BY <1>15 DEF CancelAnswered
  <2>3. QED
    BY <2>1, <2>2
<1>16. ASSUME NEW c \in Submissions, CancelFailed(c) PROVE TransferInv'
  BY <1>16 DEF CancelFailed
<1>17. QED
  BY <1>1, <1>2, <1>3, <1>4, <1>5, <1>6, <1>7, <1>8, <1>9, <1>10, <1>11, <1>12, <1>13, <1>14,
     <1>15, <1>16 DEF TransferNext, Watch

(***************************************************************************)
(* However often a submission's POST arrives and whichever answer is lost, *)
(* what is reported submitted has its task, what is reported ended or      *)
(* cancelled is so (globus.ts:220, 301, 418).                              *)
(***************************************************************************)
THEOREM TransferAlwaysTruthful == TransferSpec => []TransferIsTruthful
<1>1. TransferInv => TransferIsTruthful
  BY DEF TransferInv
<1>2. QED
  BY <1>1, TransferStarts, TransferKeeps, PTL DEF TransferSpec

-----------------------------------------------------------------------------
(***************************************************************************)
(* The portal's service.  Nothing is done for a request before a role is   *)
(* assumed for it, and none is assumed but for a request of the API.       *)
(***************************************************************************)
ServiceInv ==
    /\ ServiceIsTruthful
    /\ requested \in HttpRequests
    /\ serving \in {"received", "assumed"} => effect = NoEffect /\ reply = Quiet
    /\ serving = "assumed" => IsApi

\* The service serves nobody at the start.
LEMMA ServiceStarts == ServiceInit => ServiceInv
BY ServedBound DEF ServiceInit, ServiceInv, ServiceIsTruthful, NoEffect, Quiet

\* Every step of the service keeps what it answers true.
LEMMA ServiceKeeps == ASSUME ServiceInv, [ServiceNext]_serviceVars PROVE ServiceInv'
<1> USE DEF ServiceInv, ServiceIsTruthful, NoEffect, Quiet, IsApi, PostPaths, Wanted, serviceVars
<1>1. CASE UNCHANGED serviceVars
  BY <1>1
<1>2. CASE ComesUp
  BY <1>2 DEF ComesUp
<1>3. ASSUME NEW r \in HttpRequests, Requested(r) PROVE ServiceInv'
  BY <1>3, ServedBound DEF Requested
<1>4. CASE AnsweredHere
  BY <1>4 DEF AnsweredHere, Answers200, ServiceFails, NamesNobody
<1>5. CASE AssumesRole
  BY <1>5 DEF AssumesRole, ServiceFails
<1>6. CASE ApiLaunch
  BY <1>6 DEF ApiLaunch, Calls, Answers200, ServiceFails, LaunchTakes, TtlOf
<1>7. CASE ApiInstances
  BY <1>7 DEF ApiInstances, Calls, Answers200, ServiceFails
<1>8. CASE ApiTerminate
  BY <1>8 DEF ApiTerminate, Calls, Answers200, ServiceFails
<1>9. CASE ApiSession
  BY <1>9 DEF ApiSession, Calls, Answers200, ServiceFails
<1>10. CASE ApiSessionTerminate
  BY <1>10 DEF ApiSessionTerminate, Calls, Answers200, ServiceFails
<1>11. QED
  BY <1>1, <1>2, <1>3, <1>4, <1>5, <1>6, <1>7, <1>8, <1>9, <1>10 DEF ServiceNext

(***************************************************************************)
(* For any sequence of requests, whatever AWS refuses or whose answer is   *)
(* lost, an answer of the service is true of what was done, and what it    *)
(* launches has a TTL (server.ts:100-154, lambda.ts, portal-core.ts).      *)
(***************************************************************************)
THEOREM ServiceAlwaysTruthful == ServiceSpec => []ServiceIsTruthful
<1>1. ServiceInv => ServiceIsTruthful
  BY DEF ServiceInv
<1>2. QED
  BY <1>1, ServiceStarts, ServiceKeeps, PTL DEF ServiceSpec

-----------------------------------------------------------------------------
(***************************************************************************)
(* The portal's page.  An opening waits for the one answer that carries it *)
(* on, so it never goes back; two that are under way at once have crossed, *)
(* and a session that is active beside one was under way with it.          *)
(***************************************************************************)
PortalRequests ==
    [kind : {"launch", "list", "terminate", "session", "end"}, arg : Sessions \cup {None},
     by : Sessions \cup {None, "launch"}, at : {"sent", "answered"}, ok : BOOLEAN]

\* Of openings O and channels C.
RequestFits(r, O, C) ==
    /\ r \in PortalRequests
    /\ r.kind = "session" => r.arg \in Sessions /\ O[r.arg] = "asking"
    /\ r.kind = "end" =>
         /\ r.arg \in Sessions /\ C[r.arg] \in {"closing", "closed"}
         /\ r.by \in Sessions => O[r.by] = "closing"

\* One session request for an opening, and one end that it waits for.
Alone(r, q) ==
    /\ r.kind = "session" /\ q.kind = "session" /\ r.arg = q.arg => r = q
    /\ r.kind = "end" /\ q.kind = "end" /\ r.by = q.by /\ r.by \in Sessions => r = q

RequestsFit(R, O, C) == \A r \in R : RequestFits(r, O, C) /\ \A q \in R : Alone(r, q)

ShellsFit ==
    /\ LostOnlyWhenCrossed
    /\ \A s \in Sessions : channel[s] = "connecting" => opening[s] = "attaching"
    /\ active # None => channel[active] \in {"open", "closing", "closed"}
    /\ \A j, k \in InFlight : j # k => j \in crossed
    /\ \A k \in InFlight : active # None => active \in crossed

PortalInv == PortalTypeOK /\ RequestsFit(requests, opening, channel) /\ ShellsFit

\* The page opens without a request.
LEMMA PortalStarts == PortalInit => PortalInv
<1> SUFFICES ASSUME PortalInit PROVE PortalInv
  OBVIOUS
<1>1. PortalTypeOK /\ ShellsFit
  BY DEF PortalInit, ChannelInit, PortalTypeOK, ShellsFit, LostOnlyWhenCrossed, InFlight
<1>2. RequestsFit(requests, opening, channel)
  <2>1. requests = {Asking("list", None, None)}
    BY DEF PortalInit
  <2>2. Asking("list", None, None) \in PortalRequests /\ Asking("list", None, None).kind = "list"
    BY DEF Asking, PortalRequests
  <2>3. QED
    BY <2>1, <2>2 DEF RequestsFit, RequestFits, Alone
<1>3. QED
  BY <1>1, <1>2 DEF PortalInv

(***************************************************************************)
(* What requests are added, changed and taken away.                        *)
(***************************************************************************)
LEMMA RequestGoes ==
    ASSUME NEW R, NEW O, NEW C, NEW r \in R, RequestsFit(R, O, C) PROVE RequestsFit(R \ {r}, O, C)
BY DEF RequestsFit

\* A request that changes its stage and still fits.
LEMMA RequestChanges ==
    ASSUME NEW R, NEW O, NEW C, NEW r \in R, RequestsFit(R, O, C), NEW ok \in BOOLEAN
    PROVE  RequestsFit((R \ {r}) \cup {[r EXCEPT !.at = "answered", !.ok = ok]}, O, C)
<1> DEFINE n == [r EXCEPT !.at = "answered", !.ok = ok]
<1>1. r \in PortalRequests
  BY DEF RequestsFit, RequestFits
<1>2. n \in PortalRequests /\ n.kind = r.kind /\ n.arg = r.arg /\ n.by = r.by
  BY <1>1 DEF PortalRequests
<1> HIDE DEF n
<1>3. RequestFits(n, O, C) /\ Alone(n, n)
  BY <1>2 DEF RequestsFit, RequestFits, Alone
<1>4. ASSUME NEW q \in R \ {r} PROVE Alone(n, q) /\ Alone(q, n)
  BY <1>2 DEF RequestsFit, Alone
<1>5. QED
  BY <1>3, <1>4 DEF RequestsFit, n

\* A request that is added and fits.
LEMMA RequestComes ==
    ASSUME NEW R, NEW O, NEW C, RequestsFit(R, O, C), NEW n, RequestFits(n, O, C),
           n.kind = "session" => \A q \in R : q.kind = "session" => q.arg # n.arg,
           n.kind = "end" /\ n.by \in Sessions => \A q \in R : q.kind = "end" => q.by # n.by
    PROVE  RequestsFit(R \cup {n}, O, C)
<1>1. ASSUME NEW q \in R PROVE Alone(n, q) /\ Alone(q, n)
  BY DEF Alone
<1>2. QED
  BY <1>1 DEF RequestsFit, Alone

\* Requests still fit when the shells change and the opening does not.
LEMMA ShellsMove ==
    ASSUME NEW R, NEW O, NEW C, NEW P, NEW D, RequestsFit(R, O, C),
           \A s \in Sessions : C[s] \in {"closing", "closed"} => D[s] \in {"closing", "closed"},
           \A r \in R : r.kind = "session" => P[r.arg] = O[r.arg],
           \A r \in R : r.kind = "end" /\ r.by \in Sessions => P[r.by] = O[r.by]
    PROVE  RequestsFit(R, P, D)
BY DEF RequestsFit, RequestFits

\* A request just made fits.
LEMMA FreshRequest ==
    ASSUME NEW k \in {"launch", "list", "terminate", "session", "end"}, NEW a \in Sessions \cup {None},
           NEW b \in Sessions \cup {None, "launch"}
    PROVE  /\ Asking(k, a, b) \in PortalRequests
           /\ Asking(k, a, b).kind = k /\ Asking(k, a, b).arg = a /\ Asking(k, a, b).by = b
BY DEF Asking, PortalRequests

\* A request of a card fits whatever the shells do.
LEMMA CardRequest ==
    ASSUME NEW R, NEW O, NEW C, RequestsFit(R, O, C), NEW k \in {"launch", "list", "terminate"},
           NEW b \in {None, "launch"}
    PROVE  RequestsFit(R \cup {Asking(k, None, b)}, O, C)
<1>1. RequestFits(Asking(k, None, b), O, C) /\ Asking(k, None, b).kind = k
  BY FreshRequest DEF RequestFits
<1>2. QED
  BY <1>1, RequestComes

(***************************************************************************)
(* What the service and the cards do leaves the shells alone.              *)
(***************************************************************************)
LEMMA ServiceAndCardsKeep ==
    ASSUME PortalInv, PortalNext, UNCHANGED <<channel, reported, opening, active, crossed>>
    PROVE  PortalTypeOK' /\ ShellsFit'
<1>1. ShellsFit'
  BY DEF PortalInv, ShellsFit, LostOnlyWhenCrossed, InFlight
<1>2. PortalTypeOK'
  <2>1. ssm' \in [Sessions -> {"none", "live", "ended"}]
    <3> USE DEF PortalInv, PortalTypeOK
    <3>1. ASSUME NEW r \in requests PROVE r.kind \in {"session", "end"} => r.arg \in Sessions
      BY DEF RequestsFit, RequestFits
    <3>2. QED
      BY <3>1 DEF PortalNext, SessionGranted, EndGranted, RoleRefused, Answered, LaunchAnswered,
         ListAnswered, TerminateAnswered, EndAnswered, SessionAnswered, Shells, OpenClicked,
         Attached, OnClosed, LaunchClicked, RefreshClicked, TerminateClicked, CloseClicked
  <2>2. cards' \in BOOLEAN /\ launchBusy' \in BOOLEAN
    BY DEF PortalInv, PortalTypeOK, PortalNext, SessionGranted, EndGranted, RoleRefused, Answered,
       LaunchAnswered, ListAnswered, TerminateAnswered, EndAnswered, SessionAnswered, Shells,
       OpenClicked, Attached, OnClosed, LaunchClicked, RefreshClicked, TerminateClicked,
       CloseClicked, Refresh
  <2>3. unheard' \subseteq Sessions
    <3>1. ASSUME NEW r \in requests PROVE r.kind \in {"session", "end"} => r.arg \in Sessions
      BY DEF PortalInv, RequestsFit, RequestFits
    <3>2. UNCHANGED unheard \/ \E r \in requests : EndAnswered(r)
      BY DEF PortalNext, SessionGranted, EndGranted, RoleRefused, Answered,
       LaunchAnswered, ListAnswered, TerminateAnswered, SessionAnswered, Shells,
       OpenClicked, Attached, OnClosed, LaunchClicked, RefreshClicked, TerminateClicked, CloseClicked
    <3>3. ASSUME NEW r \in requests, EndAnswered(r) PROVE unheard' \subseteq unheard \cup {r.arg}
      BY <3>3 DEF EndAnswered
    <3>4. ASSUME NEW r \in requests, EndAnswered(r) PROVE r.arg \in Sessions
      BY <3>1, <3>4 DEF EndAnswered
    <3>5. QED
      BY <3>2, <3>3, <3>4 DEF PortalInv, PortalTypeOK
  <2>4. QED
    BY <2>1, <2>2, <2>3 DEF PortalInv, PortalTypeOK
<1>3. QED
  BY <1>1, <1>2

\* A request for the end of a shell that is closing.
LEMMA EndComes ==
    ASSUME NEW R, NEW O, NEW C, RequestsFit(R, O, C), NEW s \in Sessions, NEW b \in Sessions \cup {None},
           C[s] \in {"closing", "closed"},
           b \in Sessions => O[b] = "closing" /\ \A q \in R : q.kind = "end" => q.by # b
    PROVE  RequestsFit(R \cup {EndRequest(s, b)}, O, C)
<1>1. RequestFits(EndRequest(s, b), O, C) /\ EndRequest(s, b).kind = "end" /\ EndRequest(s, b).by = b
  BY FreshRequest DEF RequestFits, EndRequest
<1>2. QED
  BY <1>1, RequestComes

\* A request for a session that is asked for.
LEMMA SessionComes ==
    ASSUME NEW R, NEW O, NEW C, RequestsFit(R, O, C), NEW k \in Sessions, O[k] = "asking",
           \A q \in R : q.kind = "session" => q.arg # k
    PROVE  RequestsFit(R \cup {Asking("session", k, None)}, O, C)
<1>1. LET n == Asking("session", k, None) IN RequestFits(n, O, C) /\ n.kind = "session" /\ n.arg = k
  BY FreshRequest DEF RequestFits
<1>2. QED
  BY <1>1, RequestComes

\* No request is about an opening whose turn it is not.
LEMMA NoRequestOf ==
    ASSUME NEW R, NEW O, NEW C, RequestsFit(R, O, C), NEW k \in Sessions
    PROVE  /\ O[k] # "asking"  => \A q \in R : q.kind = "session" => q.arg # k
           /\ O[k] # "closing" => \A q \in R : q.kind = "end" => q.by # k
BY DEF RequestsFit, RequestFits

\* Every step of the portal's page.
LEMMA PortalKeeps == ASSUME PortalInv, [PortalNext]_portalVars PROVE PortalInv'
<1> DEFINE Fit == RequestsFit(requests, opening, channel)
<1>0. Fit /\ \A r \in requests : r \in PortalRequests /\ (r.kind \in {"session", "end"} => r.arg \in Sessions)
  BY DEF PortalInv, RequestsFit, RequestFits
<1>a. ASSUME PortalNext, UNCHANGED <<channel, reported, opening, active, crossed>>,
             RequestsFit(requests', opening, channel)
      PROVE  PortalInv'
  BY <1>a, ServiceAndCardsKeep DEF PortalInv
<1> HIDE DEF Fit
<1>1. CASE UNCHANGED portalVars
  BY <1>1 DEF portalVars, channelVars, PortalInv, PortalTypeOK, ShellsFit, LostOnlyWhenCrossed, InFlight
<1>2. ASSUME NEW r \in requests, SessionGranted(r) PROVE PortalInv'
  <2>1. \E ok \in BOOLEAN : requests' = (requests \ {r}) \cup {[r EXCEPT !.at = "answered", !.ok = ok]}
    BY <1>2 DEF SessionGranted, Step
  <2>2. RequestsFit(requests', opening, channel)
    <3>1. ASSUME NEW ok \in BOOLEAN
          PROVE  RequestsFit((requests \ {r}) \cup {[r EXCEPT !.at = "answered", !.ok = ok]}, opening, channel)
      BY <1>0, RequestChanges DEF Fit
    <3>2. QED
      BY <2>1, <3>1
  <2>3. QED
    BY <1>2, <1>a, <2>2 DEF SessionGranted, channelVars, PortalNext
<1>3. ASSUME NEW r \in requests, EndGranted(r) \/ RoleRefused(r) PROVE PortalInv'
  <2>1. [r EXCEPT !.at = "answered"] = [r EXCEPT !.at = "answered", !.ok = r.ok] /\ r.ok \in BOOLEAN
    BY <1>0 DEF PortalRequests
  <2>2. \E ok \in BOOLEAN : requests' = (requests \ {r}) \cup {[r EXCEPT !.at = "answered", !.ok = ok]}
    BY <1>3, <2>1 DEF EndGranted, RoleRefused, Step
  <2>3. RequestsFit(requests', opening, channel)
    <3>1. ASSUME NEW ok \in BOOLEAN
          PROVE  RequestsFit((requests \ {r}) \cup {[r EXCEPT !.at = "answered", !.ok = ok]}, opening, channel)
      BY <1>0, RequestChanges DEF Fit
    <3>2. QED
      BY <2>2, <3>1
  <2>4. QED
    BY <1>3, <1>a, <2>3 DEF EndGranted, RoleRefused, channelVars, PortalNext
<1>4. ASSUME NEW r \in requests, LaunchAnswered(r) \/ TerminateAnswered(r) \/ ListAnswered(r)
      PROVE  PortalInv'
  <2>1. RequestsFit(requests \ {r}, opening, channel)
    BY <1>0, RequestGoes DEF Fit
  <2>2. \/ requests' = requests \ {r}
        \/ \E b \in {None, "launch"} : requests' = (requests \ {r}) \cup {Asking("list", None, b)}
    BY <1>4 DEF LaunchAnswered, TerminateAnswered, ListAnswered, Refresh, Step
  <2>3. RequestsFit(requests', opening, channel)
    <3>1. ASSUME NEW b \in {None, "launch"}
          PROVE  RequestsFit((requests \ {r}) \cup {Asking("list", None, b)}, opening, channel)
      BY <2>1, CardRequest
    <3>2. QED
      BY <2>1, <2>2, <3>1
  <2>4. QED
    BY <1>4, <1>a, <2>3 DEF LaunchAnswered, TerminateAnswered, ListAnswered, channelVars, PortalNext, Answered
<1>5. CASE LaunchClicked \/ RefreshClicked \/ TerminateClicked
  <2>1. \E k \in {"launch", "list", "terminate"} : requests' = requests \cup {Asking(k, None, None)}
    BY <1>5 DEF LaunchClicked, RefreshClicked, TerminateClicked
  <2>2. RequestsFit(requests', opening, channel)
    <3>1. ASSUME NEW k \in {"launch", "list", "terminate"}
          PROVE  RequestsFit(requests \cup {Asking(k, None, None)}, opening, channel)
      BY <1>0, CardRequest DEF Fit
    <3>2. QED
      BY <2>1, <3>1
  <2>3. QED
    BY <1>5, <1>a, <2>2 DEF LaunchClicked, RefreshClicked, TerminateClicked, channelVars, PortalNext
<1>6. ASSUME NEW r \in requests, EndAnswered(r) PROVE PortalInv'
  <2> DEFINE b == r.by
             P == opening'
  <2>1. /\ r.kind = "end" /\ UNCHANGED <<channelVars, ssm, cards, launchBusy, active, crossed>>
        /\ \/ /\ b \in Sessions /\ opening' = [opening EXCEPT ![b] = "asking"]
              /\ requests' = (requests \ {r}) \cup {Asking("session", b, None)}
           \/ opening' = opening /\ requests' = requests \ {r}
    BY <1>6 DEF EndAnswered, Step
  <2>2. RequestsFit(requests \ {r}, opening, channel)
    BY <1>0, RequestGoes DEF Fit
  <2>3. CASE UNCHANGED opening
    <3>1. RequestsFit(requests', opening, channel) \/ b \in Sessions
      BY <2>1, <2>2
    <3>2. CASE requests' = requests \ {r}
      BY <1>6, <1>a, <2>1, <2>2, <2>3, <3>2 DEF PortalNext, Answered, channelVars
    <3>3. CASE b \in Sessions /\ opening' = [opening EXCEPT ![b] = "asking"]
      BY <1>0, <2>1, <2>3, <3>3 DEF Fit, RequestsFit, RequestFits, PortalInv, PortalTypeOK
    <3>4. QED
      BY <2>1, <3>2, <3>3
  <2>4. CASE b \in Sessions /\ opening' = [opening EXCEPT ![b] = "asking"]
    <3>1. opening[b] = "closing" /\ \A q \in requests \ {r} : q.kind = "end" => q.by # b
      BY <1>0, <2>1, <2>4 DEF Fit, RequestsFit, RequestFits, Alone
    <3>2. \A q \in requests : q.kind = "session" => q.arg # b
      BY <1>0, <2>4, <3>1, NoRequestOf DEF Fit
    <3>3. P[b] = "asking" /\ \A s \in Sessions : s # b => P[s] = opening[s]
      BY <2>4 DEF PortalInv, PortalTypeOK
    <3>4. RequestsFit(requests \ {r}, P, channel)
      <4>1. \A q \in requests \ {r} : q.kind = "session" => P[q.arg] = opening[q.arg]
        BY <1>0, <3>2, <3>3
      <4>2. \A q \in requests \ {r} : q.kind = "end" /\ q.by \in Sessions => P[q.by] = opening[q.by]
        BY <3>1, <3>3
      <4> HIDE DEF P
      <4>3. QED
        BY <2>2, <4>1, <4>2, ShellsMove
    <3>5. RequestsFit((requests \ {r}) \cup {Asking("session", b, None)}, P, channel)
      <4> HIDE DEF P, b
      <4>1. QED
        BY <2>4, <3>2, <3>3, <3>4, SessionComes
    <3>6. requests' = (requests \ {r}) \cup {Asking("session", b, None)} \/ opening' = opening
      BY <2>1
    <3>7. requests' = (requests \ {r}) \cup {Asking("session", b, None)}
      BY <3>1, <3>3, <3>6
    <3>8. ShellsFit'
      BY <2>1, <3>1, <3>3 DEF PortalInv, PortalTypeOK, ShellsFit, LostOnlyWhenCrossed, InFlight, channelVars
    <3>9. PortalTypeOK'
      <4>1. unheard' \subseteq Sessions
        BY <1>0, <1>6, <2>1 DEF EndAnswered, PortalInv, PortalTypeOK
      <4>2. QED
        BY <2>1, <2>4, <4>1 DEF PortalInv, PortalTypeOK, channelVars
    <3>10. QED
      BY <2>1, <3>5, <3>7, <3>8, <3>9 DEF PortalInv, channelVars
  <2>5. QED
    BY <2>1, <2>3, <2>4
<1>7. ASSUME NEW r \in requests, SessionAnswered(r) PROVE PortalInv'
  <2> DEFINE k == r.arg
             P == opening'
             D == channel'
  <2>1. /\ r.kind = "session" /\ k \in Sessions /\ requests' = requests \ {r} /\ opening[k] = "asking"
        /\ UNCHANGED <<reported, ssm, cards, launchBusy, active, crossed, unheard>>
    BY <1>0, <1>7 DEF SessionAnswered, Step, Connects, channelVars, Fit, RequestsFit, RequestFits
  <2>2. \/ /\ channel[k] = "none" /\ channel' = [channel EXCEPT ![k] = "connecting"]
           /\ opening' = [opening EXCEPT ![k] = "attaching"]
        \/ channel' = channel /\ opening' = [opening EXCEPT ![k] = "failed"]
    BY <1>7 DEF SessionAnswered, Connects, Goes, channelVars
  <2>3. /\ P[k] \in {"attaching", "failed"} /\ \A s \in Sessions : s # k => P[s] = opening[s] /\ D[s] = channel[s]
        /\ \/ channel[k] = "none" /\ D[k] = "connecting" /\ P[k] = "attaching"
           \/ D[k] = channel[k]
    BY <2>1, <2>2 DEF PortalInv, PortalTypeOK
  <2>4. RequestsFit(requests \ {r}, opening, channel)
    BY <1>0, RequestGoes DEF Fit
  <2>5. \A q \in requests : q.kind = "end" => q.by # k
    BY <1>0, <2>1, NoRequestOf DEF Fit
  <2>6. \A q \in requests \ {r} : q.kind = "session" => q.arg # k
    BY <1>0, <2>1 DEF Fit, RequestsFit, Alone
  <2>7. RequestsFit(requests \ {r}, P, D)
    <3>1. \A q \in requests \ {r} : q.kind = "session" => P[q.arg] = opening[q.arg]
      BY <1>0, <2>3, <2>6
    <3>2. \A q \in requests \ {r} : q.kind = "end" /\ q.by \in Sessions => P[q.by] = opening[q.by]
      BY <2>3, <2>5
    <3>3. \A s \in Sessions : channel[s] \in {"closing", "closed"} => D[s] \in {"closing", "closed"}
      BY <2>3
    <3> HIDE DEF P, D
    <3>4. QED
      BY <2>4, <3>1, <3>2, <3>3, ShellsMove
  <2>8. PortalTypeOK'
    BY <2>1, <2>2 DEF PortalInv, PortalTypeOK
  <2>9. ShellsFit'
    BY <2>1, <2>3 DEF PortalInv, PortalTypeOK, ShellsFit, LostOnlyWhenCrossed, InFlight
  <2>10. QED
    BY <2>1, <2>7, <2>8, <2>9 DEF PortalInv
<1>8. ASSUME NEW k \in Sessions, OpenClicked(k) PROVE PortalInv'
  <2> DEFINE P == opening'
             D == channel'
  <2>1. /\ opening[k] = "no" /\ UNCHANGED <<reported, ssm, cards, launchBusy, unheard>>
        /\ crossed' = crossed \cup InFlight \cup (IF InFlight = {} THEN {} ELSE {k})
    BY <1>8 DEF OpenClicked
  <2>2. P \in [Sessions -> {"no", "closing", "asking", "attaching", "done", "failed"}]
        /\ P[k] \in {"closing", "asking"} /\ \A s \in Sessions : s # k => P[s] = opening[s]
    BY <1>8 DEF OpenClicked, PortalInv, PortalTypeOK
  <2>3. RequestsFit(requests, P, channel)
    <3>1. \A q \in requests : /\ q.kind = "session" => q.arg # k
                              /\ q.kind = "end" => q.by # k
      BY <1>0, <2>1, NoRequestOf DEF Fit
    <3>2. \A q \in requests : q.kind = "session" => P[q.arg] = opening[q.arg]
      BY <1>0, <2>2, <3>1
    <3>3. \A q \in requests : q.kind = "end" /\ q.by \in Sessions => P[q.by] = opening[q.by]
      BY <2>2, <3>1
    <3> HIDE DEF P
    <3>4. QED
      BY <1>0, <3>2, <3>3, ShellsMove DEF Fit
  <2>4. \A q \in requests : /\ q.kind = "session" => q.arg # k
                            /\ q.kind = "end" => q.by # k
    BY <1>0, <2>1, NoRequestOf DEF Fit
  <2>5. CASE active # None
    <3>1. CloseActive(k) /\ P[k] = "closing"
      BY <1>8, <2>5 DEF OpenClicked, PortalInv, PortalTypeOK
    <3>2. active \in Sessions /\ channel[active] \in {"open", "closing", "closed"}
      BY <2>5 DEF PortalInv, PortalTypeOK, ShellsFit
    <3>3. /\ active' = None /\ requests' = requests \cup {EndRequest(active, k)}
          /\ D \in [Sessions -> {"none", "connecting", "open", "closing", "closed"}]
          /\ D[active] \in {"closing", "closed"} /\ \A s \in Sessions : s # active => D[s] = channel[s]
      BY <3>1, <3>2 DEF CloseActive, PortalInv, PortalTypeOK
    <3>4. RequestsFit(requests \cup {EndRequest(active, k)}, P, D)
      <4>1. \A s \in Sessions : channel[s] \in {"closing", "closed"} => D[s] \in {"closing", "closed"}
        BY <3>3
      <4> HIDE DEF P, D
      <4>2. RequestsFit(requests, P, D)
        BY <2>3, <4>1, ShellsMove
      <4>3. QED
        BY <2>4, <3>1, <3>2, <3>3, <4>2, EndComes
    <3>5. PortalTypeOK'
      BY <2>1, <2>2, <3>3 DEF PortalInv, PortalTypeOK, InFlight
    <3>6. ShellsFit'
      BY <2>1, <2>2, <3>2, <3>3 DEF PortalInv, PortalTypeOK, ShellsFit, LostOnlyWhenCrossed, InFlight
    <3>7. QED
      BY <3>3, <3>4, <3>5, <3>6 DEF PortalInv
  <2>6. CASE active = None
    <3>1. /\ requests' = requests \cup {Asking("session", k, None)} /\ P[k] = "asking"
          /\ UNCHANGED <<active, channel>>
      BY <1>8, <2>6 DEF OpenClicked, PortalInv, PortalTypeOK
    <3>2. RequestsFit(requests \cup {Asking("session", k, None)}, P, channel)
      <4> HIDE DEF P
      <4>1. QED
        BY <2>3, <2>4, <3>1, SessionComes
    <3>3. PortalTypeOK'
      BY <2>1, <2>2, <3>1 DEF PortalInv, PortalTypeOK, InFlight
    <3>4. ShellsFit'
      BY <2>1, <2>2, <2>6, <3>1 DEF PortalInv, PortalTypeOK, ShellsFit, LostOnlyWhenCrossed, InFlight
    <3>5. QED
      BY <3>1, <3>2, <3>3, <3>4 DEF PortalInv
  <2>7. QED
    BY <2>5, <2>6
<1>9. ASSUME NEW k \in Sessions, Attached(k) PROVE PortalInv'
  <2> DEFINE P == opening'
             D == channel'
  <2>1. /\ channel[k] = "connecting" /\ active' = k
        /\ UNCHANGED <<reported, ssm, requests, cards, launchBusy, crossed, unheard>>
    BY <1>9 DEF Attached, Opens
  <2>2. channel' = [channel EXCEPT ![k] = "open"] /\ opening' = [opening EXCEPT ![k] = "done"]
    BY <1>9 DEF Attached, Opens, Goes
  <2>3. /\ P[k] = "done" /\ D[k] = "open" /\ opening[k] = "attaching"
        /\ \A s \in Sessions : s # k => P[s] = opening[s] /\ D[s] = channel[s]
    BY <2>1, <2>2 DEF PortalInv, PortalTypeOK, ShellsFit
  <2>4. RequestsFit(requests, P, D)
    <3>1. \A q \in requests : /\ q.kind = "session" => q.arg # k
                              /\ q.kind = "end" => q.by # k
      BY <1>0, <2>3, NoRequestOf DEF Fit
    <3>2. \A q \in requests : q.kind = "session" => P[q.arg] = opening[q.arg]
      BY <1>0, <2>3, <3>1
    <3>3. \A q \in requests : q.kind = "end" /\ q.by \in Sessions => P[q.by] = opening[q.by]
      BY <2>3, <3>1
    <3>4. \A s \in Sessions : channel[s] \in {"closing", "closed"} => D[s] \in {"closing", "closed"}
      BY <2>1, <2>3
    <3> HIDE DEF P, D
    <3>5. QED
      BY <1>0, <3>2, <3>3, <3>4, ShellsMove DEF Fit
  <2>5. PortalTypeOK'
    BY <2>1, <2>2 DEF PortalInv, PortalTypeOK
  <2>6. ShellsFit'
    <3>1. k \in InFlight /\ InFlight' = InFlight \ {k}
      BY <2>3 DEF InFlight
    <3>2. \A s \in Sessions : D[s] = "open" /\ s # k => s \in crossed
      <4> SUFFICES ASSUME NEW s \in Sessions, D[s] = "open", s # k PROVE s \in crossed
        OBVIOUS
      <4>1. channel[s] = "open"
        BY <2>3
      <4>2. QED
        BY <3>1, <4>1, PortalBound DEF PortalInv, ShellsFit, LostOnlyWhenCrossed
    <3>3. \A j \in InFlight \ {k} : j \in crossed /\ k \in crossed
      BY <3>1 DEF PortalInv, ShellsFit
    <3>4. \A s \in Sessions : D[s] = "connecting" => P[s] = "attaching"
      BY <2>3 DEF PortalInv, ShellsFit
    <3>5. LostOnlyWhenCrossed'
      BY <2>1, <3>2 DEF LostOnlyWhenCrossed
    <3>6. QED
      BY <2>1, <2>3, <3>1, <3>3, <3>4, <3>5 DEF ShellsFit
  <2>7. QED
    BY <2>1, <2>4, <2>5, <2>6 DEF PortalInv
<1>10. ASSUME NEW s \in Sessions, OnClosed(s) PROVE PortalInv'
  <2> DEFINE D == channel'
  <2>1. /\ requests' = requests \cup {EndRequest(s, None)} /\ reported' = reported \cup {s}
        /\ UNCHANGED <<ssm, cards, launchBusy, opening, active, crossed, unheard>>
    BY <1>10 DEF OnClosed, Fails, Announces, Ends, Reports
  <2>2. channel' = [channel EXCEPT ![s] = "closed"] \/ channel' = [channel EXCEPT ![s] = "closing"]
    BY <1>10 DEF OnClosed, Fails, Announces, Ends, Goes
  <2>3. D[s] \in {"closing", "closed"} /\ \A k \in Sessions : k # s => D[k] = channel[k]
    BY <2>2 DEF PortalInv, PortalTypeOK
  <2>4. RequestsFit(requests \cup {EndRequest(s, None)}, opening, D)
    <3>1. \A k \in Sessions : channel[k] \in {"closing", "closed"} => D[k] \in {"closing", "closed"}
      BY <2>3
    <3> HIDE DEF D
    <3>2. RequestsFit(requests, opening, D)
      BY <1>0, <3>1, ShellsMove DEF Fit
    <3>3. QED
      BY <2>3, <3>2, EndComes, PortalBound
  <2>5. PortalTypeOK'
    BY <2>1, <2>2 DEF PortalInv, PortalTypeOK
  <2>6. ShellsFit'
    BY <2>1, <2>3 DEF PortalInv, PortalTypeOK, ShellsFit, LostOnlyWhenCrossed, InFlight
  <2>7. QED
    BY <2>1, <2>4, <2>5, <2>6 DEF PortalInv
<1>11. CASE CloseClicked
  <2> DEFINE D == channel'
  <2>1. /\ UNCHANGED <<reported, ssm, cards, launchBusy, opening, unheard>>
        /\ crossed' = crossed \cup InFlight
    BY <1>11 DEF CloseClicked
  <2>2. CASE active = None
    <3>1. UNCHANGED <<active, channel, requests>>
      BY <1>11, <2>2 DEF CloseClicked
    <3>2. QED
      BY <2>1, <2>2, <3>1 DEF PortalInv, PortalTypeOK, ShellsFit, LostOnlyWhenCrossed, InFlight
  <2>3. CASE active # None
    <3>1. CloseActive(None)
      BY <1>11, <2>3 DEF CloseClicked
    <3>2. active \in Sessions /\ channel[active] \in {"open", "closing", "closed"}
      BY <2>3 DEF PortalInv, PortalTypeOK, ShellsFit
    <3>3. /\ active' = None /\ requests' = requests \cup {EndRequest(active, None)}
          /\ D \in [Sessions -> {"none", "connecting", "open", "closing", "closed"}]
          /\ D[active] \in {"closing", "closed"} /\ \A s \in Sessions : s # active => D[s] = channel[s]
      BY <3>1, <3>2 DEF CloseActive, PortalInv, PortalTypeOK
    <3>4. RequestsFit(requests \cup {EndRequest(active, None)}, opening, D)
      <4>1. \A s \in Sessions : channel[s] \in {"closing", "closed"} => D[s] \in {"closing", "closed"}
        BY <3>3
      <4> HIDE DEF D
      <4>2. RequestsFit(requests, opening, D)
        BY <1>0, <4>1, ShellsMove DEF Fit
      <4>3. QED
        BY <3>2, <3>3, <4>2, EndComes, PortalBound
    <3>5. PortalTypeOK'
      BY <2>1, <3>3 DEF PortalInv, PortalTypeOK, InFlight
    <3>6. ShellsFit'
      BY <2>1, <3>2, <3>3 DEF PortalInv, PortalTypeOK, ShellsFit, LostOnlyWhenCrossed, InFlight
    <3>7. QED
      BY <2>1, <3>3, <3>4, <3>5, <3>6 DEF PortalInv
  <2>4. QED
    BY <2>2, <2>3
<1>12. QED
  BY <1>1, <1>2, <1>3, <1>4, <1>5, <1>6, <1>7, <1>8, <1>9, <1>10, <1>11 DEF PortalNext, Answered, Shells
(***************************************************************************)
(* The direct page.  Unless something was overtaken, one shell at most is  *)
(* being set up or held, and while it is the button for another is off.    *)
(***************************************************************************)
AccessOK ==
    /\ client \in 0 .. MaxClients /\ monitors \subseteq 1 .. client
    /\ age \in {"fresh", "late", "lapsed"} /\ {arriving, federated} \subseteq BOOLEAN
    /\ banner \in {"none", "ok", "warn", "expired"}
    /\ timer \in {"none", "warning", "expired"} /\ ticking \in BOOLEAN
    /\ ExpiredIsQuiet

RunsOK ==
    /\ enabled \subseteq {"go", "shell"} /\ visible \subseteq {"shell", "reset"}
    /\ LET stages == {"none", "launching", "failed", "running", "winding", "terminated", "gone"}
       IN inst \in [Runs -> stages] /\ polled \in [Runs -> stages]
    /\ current \in {0} \cup Runs /\ watch \in [Runs -> {"off", "on", "announced"}]

HandlesOK ==
    /\ connecting \in [DirectSessions -> {"no", "starting", "attaching", "done", "failed"}]
    /\ {terminal, sessionId} \subseteq {0} \cup DirectSessions
    /\ service \in [DirectSessions -> {"none", "live", "ended"}]
    /\ ending \subseteq DirectSessions /\ overtaken \subseteq DirectSessions
    /\ shell \in [DirectSessions -> {"none", "connecting", "open", "closing", "closed"}]

OneShell ==
    overtaken = {} =>
        /\ \A s, t \in BeingSetUp : s = t
        /\ BeingSetUp # {} \/ terminal # 0 => "shell" \notin enabled
        /\ BeingSetUp = {} \/ terminal = 0

DirectInv == AccessOK /\ RunsOK /\ HandlesOK /\ OneShell /\ LostOnlyWhenOvertaken

\* The direct page opens without access.
LEMMA DirectStarts == DirectInit => DirectInv
<1> SUFFICES ASSUME DirectInit PROVE DirectInv
  OBVIOUS
<1>1. AccessOK
  <2>1. client \in 0 .. MaxClients /\ monitors \subseteq 1 .. client
    BY DirectBounds DEF DirectInit
  <2>2. QED
    BY <2>1 DEF DirectInit, AccessOK, ExpiredIsQuiet
<1>2. RunsOK /\ HandlesOK
  BY DEF DirectInit, RunsOK, HandlesOK, Shell!ChannelInit
<1>3. OneShell /\ LostOnlyWhenOvertaken
  BY DEF DirectInit, OneShell, LostOnlyWhenOvertaken, BeingSetUp, Shell!ChannelInit
<1>4. QED
  BY <1>1, <1>2, <1>3 DEF DirectInv

(***************************************************************************)
(* A cleanup leaves no shell open and no handle, or it overtook one.       *)
(***************************************************************************)
LEMMA Cleaned ==
    ASSUME DirectInv, CleanupTerminal
    PROVE  /\ HandlesOK' /\ terminal' = 0 /\ connecting' = connecting
           /\ overtaken' = {} => BeingSetUp' = {} /\ \A s \in DirectSessions : shell'[s] # "open"
<1> USE DEF DirectInv, HandlesOK
<1>1. /\ terminal' = 0 /\ ending' = ending \cup ({sessionId} \ {0}) /\ overtaken' = overtaken \cup BeingSetUp
      /\ UNCHANGED <<shellReported, connecting, sessionId, service>>
  BY DEF CleanupTerminal
<1>2. shell' \in [DirectSessions -> {"none", "connecting", "open", "closing", "closed"}]
  BY DEF CleanupTerminal
<1>3. BeingSetUp \subseteq DirectSessions /\ BeingSetUp' = BeingSetUp
  BY <1>1 DEF BeingSetUp
<1>4. \A s \in DirectSessions : shell'[s] = "open" => shell[s] = "open" /\ s # terminal
  BY DirectBounds DEF CleanupTerminal
<1>5. overtaken' = {} => BeingSetUp' = {} /\ \A s \in DirectSessions : shell'[s] # "open"
  BY <1>1, <1>3, <1>4 DEF LostOnlyWhenOvertaken
<1>6. QED
  BY <1>1, <1>2, <1>3, <1>5

\* What the page drops at its expiry or a reset.
LEMMA CleanupKeeps ==
    ASSUME DirectInv, CleanupTerminal PROVE HandlesOK' /\ OneShell' /\ LostOnlyWhenOvertaken'
BY Cleaned DEF OneShell, LostOnlyWhenOvertaken

(***************************************************************************)
(* The announcement of the expiry, wherever it comes from.                 *)
(***************************************************************************)
LEMMA ExpiryKeeps ==
    ASSUME DirectInv, Lapsed, OnExpired, enabled' = EnabledExpired,
           UNCHANGED <<client, age, arriving, federated>>
    PROVE  AccessOK' /\ enabled' \subseteq {"go", "shell"} /\ HandlesOK' /\ OneShell' /\ LostOnlyWhenOvertaken'
<1>1. CASE banner = "expired"
  <2>1. UNCHANGED <<timer, ticking, banner, monitors, shellVars, enabled>>
    BY <1>1 DEF OnExpired, EnabledExpired
  <2>2. QED
    BY <2>1 DEF DirectInv, AccessOK, ExpiredIsQuiet, RunsOK, HandlesOK, OneShell,
                LostOnlyWhenOvertaken, BeingSetUp, shellVars
<1>2. CASE banner # "expired"
  <2>1. /\ timer' = "none" /\ ticking' = FALSE /\ banner' = "expired"
        /\ monitors' = monitors \ {client} /\ CleanupTerminal /\ enabled' = {}
    BY <1>2 DEF OnExpired, EnabledExpired
  <2>2. AccessOK'
    BY <2>1 DEF DirectInv, AccessOK, ExpiredIsQuiet
  <2>3. QED
    BY <2>1, <2>2, CleanupKeeps
<1>3. QED
  BY <1>1, <1>2

\* What a step that leaves the shells and the buttons alone leaves as it is.
LEMMA ShellsRest ==
    ASSUME DirectInv, UNCHANGED shellVars, enabled' \subseteq enabled
    PROVE  HandlesOK' /\ OneShell' /\ LostOnlyWhenOvertaken'
BY DEF DirectInv, HandlesOK, OneShell, LostOnlyWhenOvertaken, BeingSetUp, shellVars

\* Steps that leave the access alone.
LEMMA AccessRests == ASSUME DirectInv, UNCHANGED accessVars PROVE AccessOK'
BY DEF DirectInv, AccessOK, ExpiredIsQuiet, accessVars

\* Every step of the direct page.
LEMMA DirectKeeps == ASSUME DirectInv, [DirectNext]_directVars PROVE DirectInv'
<1> USE DEF DirectInv
<1>1. CASE UNCHANGED directVars
  <2>1. UNCHANGED <<accessVars, buttons, runVars, shellVars>>
    BY <1>1 DEF directVars
  <2>2. QED
    BY <2>1, ShellsRest, AccessRests DEF RunsOK, buttons, runVars
<1>2. ASSUME NEW g \in BOOLEAN, Connect(g) PROVE DirectInv'
  <2>1. AccessOK'
    <3>1. client' \in 0 .. MaxClients /\ monitors' \subseteq 1 .. client'
      BY <1>2, DirectBounds DEF Connect, AccessOK
    <3>2. QED
      BY <1>2, <3>1 DEF Connect, AccessOK, ExpiredIsQuiet
  <2>2. HandlesOK'
    BY <1>2 DEF Connect, HandlesOK, BeingSetUp
  <2>3. OneShell' /\ LostOnlyWhenOvertaken'
    BY <1>2 DEF Connect, OneShell, LostOnlyWhenOvertaken, BeingSetUp
  <2>4. QED
    BY <1>2, <2>1, <2>2, <2>3 DEF Connect, RunsOK, runVars
<1>3. CASE Ages
  BY <1>3, ShellsRest DEF Ages, AccessOK, ExpiredIsQuiet, RunsOK, buttons, runVars
<1>4. CASE WarningFires
  BY <1>4, ShellsRest DEF WarningFires, AccessOK, ExpiredIsQuiet, RunsOK, buttons, runVars
<1>5. CASE ExpiryFires
  BY <1>5, ExpiryKeeps DEF ExpiryFires, RunsOK, runVars
<1>6. CASE ExpiryTicks
  <2>1. UNCHANGED <<client, age, arriving, federated, visible, runVars>>
    BY <1>6 DEF ExpiryTicks
  <2>2. CASE Lapsed /\ OnExpired /\ enabled' = EnabledExpired
    BY <2>1, <2>2, ExpiryKeeps DEF RunsOK, runVars
  <2>3. CASE /\ ticking /\ banner' = IF age = "fresh" THEN "ok" ELSE "warn"
             /\ UNCHANGED <<monitors, timer, ticking, enabled, shellVars>>
    BY <2>1, <2>3, ShellsRest DEF AccessOK, ExpiredIsQuiet, RunsOK, runVars
  <2>4. QED
    BY <1>6, <2>2, <2>3 DEF ExpiryTicks
<1>7. ASSUME NEW n \in Runs, GoClicked(n) PROVE DirectInv'
  <2>1. UNCHANGED <<client, age, arriving, federated, visible, current, watch, polled>>
    BY <1>7 DEF GoClicked
  <2>2. CASE Lapsed /\ OnExpired /\ enabled' = EnabledExpired /\ UNCHANGED inst
    BY <2>1, <2>2, ExpiryKeeps DEF RunsOK
  <2>3. CASE /\ enabled' = enabled \ {"go"} /\ inst' = [inst EXCEPT ![n] = "launching"]
             /\ UNCHANGED <<timer, ticking, banner, monitors, shellVars>>
    BY <2>1, <2>3, ShellsRest DEF AccessOK, ExpiredIsQuiet, RunsOK
  <2>4. QED
    BY <1>7, <2>2, <2>3 DEF GoClicked
<1>8. ASSUME NEW n \in Runs, Launched(n) \/ LaunchFailed(n) \/ WindsDown(n) \/ PollAsks(n)
      PROVE  DirectInv'
  <2>1. UNCHANGED <<accessVars, enabled, shellVars>>
    BY <1>8 DEF Launched, LaunchFailed, WindsDown, PollAsks, buttons
  <2>2. RunsOK'
    BY <1>8 DEF Launched, LaunchFailed, WindsDown, PollAsks, RunsOK, buttons
  <2>3. QED
    BY <2>1, <2>2, ShellsRest, AccessRests
<1>9. ASSUME NEW n \in Runs, PollSeesRunning(n) \/ PollSeesNothing(n) PROVE DirectInv'
  <2>1. UNCHANGED <<accessVars, enabled, shellVars>>
    BY <1>9 DEF PollSeesRunning, PollSeesNothing
  <2>2. RunsOK'
    BY <1>9 DEF PollSeesRunning, PollSeesNothing, PollAnswered, RunsOK
  <2>3. QED
    BY <2>1, <2>2, ShellsRest, AccessRests
<1>10. ASSUME NEW n \in Runs, PollSeesEnd(n) PROVE DirectInv'
  <2>1. UNCHANGED <<accessVars, enabled, inst, current>> /\ (CleanupTerminal \/ UNCHANGED shellVars)
    BY <1>10 DEF PollSeesEnd
  <2>2. RunsOK'
    BY <1>10 DEF PollSeesEnd, PollAnswered, RunsOK
  <2>3. QED
    BY <2>1, <2>2, ShellsRest, AccessRests, CleanupKeeps
<1>11. ASSUME NEW n \in Runs, PollExpired(n) PROVE DirectInv'
  BY <1>11, ExpiryKeeps DEF PollExpired, RunsOK
<1>12. CASE ResetClicked
  <2>1. HandlesOK' /\ OneShell' /\ LostOnlyWhenOvertaken'
    BY <1>12, CleanupKeeps DEF ResetClicked
  <2>2. QED
    BY <1>12, <2>1, AccessRests DEF ResetClicked, RunsOK
<1>13. ASSUME NEW s \in DirectSessions, ShellClicked(s) PROVE DirectInv'
  <2>1. UNCHANGED <<client, age, arriving, federated, visible, runVars>> /\ "shell" \in enabled
    BY <1>13 DEF ShellClicked
  <2>2. CASE Lapsed /\ OnExpired /\ enabled' = EnabledExpired
    BY <2>1, <2>2, ExpiryKeeps DEF RunsOK, runVars
  <2>3. CASE /\ enabled' = enabled \ {"shell"} /\ connecting' = [connecting EXCEPT ![s] = "starting"]
             /\ UNCHANGED <<timer, ticking, banner, monitors, shell, shellReported, terminal,
                            sessionId, service, ending, overtaken>>
    <3>1. AccessOK' /\ RunsOK' /\ HandlesOK'
      BY <2>1, <2>3 DEF AccessOK, ExpiredIsQuiet, RunsOK, HandlesOK, runVars
    <3>2. BeingSetUp' = BeingSetUp \cup {s}
      BY <2>3 DEF BeingSetUp, HandlesOK
    <3>3. OneShell' /\ LostOnlyWhenOvertaken'
      BY <2>1, <2>3, <3>2 DEF OneShell, LostOnlyWhenOvertaken
    <3>4. QED
      BY <3>1, <3>3
  <2>4. QED
    BY <1>13, <2>2, <2>3 DEF ShellClicked
<1>14. ASSUME NEW s \in DirectSessions, SessionStarted(s) PROVE DirectInv'
  <2>1. /\ shell[s] = "none" /\ shell' = [shell EXCEPT ![s] = "connecting"]
        /\ connecting[s] = "starting" /\ connecting' = [connecting EXCEPT ![s] = "attaching"]
        /\ visible' = visible \ {"shell"} /\ service' = [service EXCEPT ![s] = "live"] /\ sessionId' = s
        /\ UNCHANGED <<accessVars, enabled, runVars, terminal, ending, overtaken>>
    BY <1>14 DEF SessionStarted, Shell!Connects, Shell!Goes
  <2>2. BeingSetUp' = BeingSetUp
    BY <2>1 DEF BeingSetUp, HandlesOK
  <2>3. OneShell' /\ LostOnlyWhenOvertaken' /\ HandlesOK'
    BY <2>1, <2>2 DEF OneShell, LostOnlyWhenOvertaken, HandlesOK
  <2>4. QED
    BY <2>1, <2>3, AccessRests DEF RunsOK, runVars
<1>15. ASSUME NEW s \in DirectSessions, SessionRefused(s) PROVE DirectInv'
  <2>1. /\ connecting[s] = "starting" /\ connecting' = [connecting EXCEPT ![s] = "failed"]
        /\ enabled' = enabled \cup {"shell"}
        /\ UNCHANGED <<accessVars, visible, runVars, shell, shellReported, terminal, sessionId,
                       service, ending, overtaken>>
    BY <1>15 DEF SessionRefused
  <2>2. s \in BeingSetUp /\ BeingSetUp' = BeingSetUp \ {s}
    BY <2>1 DEF BeingSetUp, HandlesOK
  <2>3. OneShell' /\ LostOnlyWhenOvertaken' /\ HandlesOK'
    BY <2>1, <2>2 DEF OneShell, LostOnlyWhenOvertaken, HandlesOK
  <2>4. QED
    BY <2>1, <2>3, AccessRests DEF RunsOK, runVars
<1>16. ASSUME NEW s \in DirectSessions, ShellAttached(s) PROVE DirectInv'
  <2>1. /\ shell' = [shell EXCEPT ![s] = "open"] /\ terminal' = s
        /\ connecting[s] = "attaching" /\ connecting' = [connecting EXCEPT ![s] = "done"]
        /\ UNCHANGED <<accessVars, buttons, runVars, sessionId, service, ending, overtaken>>
    BY <1>16 DEF ShellAttached, Shell!Opens, Shell!Goes
  <2>2. s \in BeingSetUp /\ BeingSetUp' = BeingSetUp \ {s}
    BY <2>1 DEF BeingSetUp, HandlesOK
  <2>3. HandlesOK'
    BY <2>1 DEF HandlesOK
  <2>4. OneShell'
    BY <2>1, <2>2 DEF OneShell, buttons
  <2>5. LostOnlyWhenOvertaken'
    <3>1. \A t \in DirectSessions : t # s => shell'[t] = shell[t]
      BY <2>1 DEF HandlesOK
    <3>2. 0 \notin DirectSessions
      BY DirectBounds
    <3>3. QED
      BY <2>1, <2>2, <3>1, <3>2 DEF OneShell, LostOnlyWhenOvertaken
  <2>6. QED
    BY <2>1, <2>3, <2>4, <2>5, AccessRests DEF RunsOK, runVars, buttons
<1>17. ASSUME NEW s \in DirectSessions, ChannelEnds(s) PROVE DirectInv'
  <2>1. /\ shell' = [shell EXCEPT ![s] = "closed"] \/ shell' = [shell EXCEPT ![s] = "closing"]
        /\ UNCHANGED <<accessVars, buttons, runVars, connecting, terminal, sessionId, service, ending, overtaken>>
    BY <1>17 DEF ChannelEnds, Shell!Fails, Shell!Announces, Shell!Ends, Shell!Goes
  <2>2. HandlesOK' /\ OneShell' /\ LostOnlyWhenOvertaken'
    BY <2>1 DEF HandlesOK, OneShell, LostOnlyWhenOvertaken, BeingSetUp, buttons
  <2>3. QED
    BY <2>1, <2>2, AccessRests DEF RunsOK, runVars, buttons
<1>18. ASSUME NEW s \in DirectSessions, ForgetsSession(s) PROVE DirectInv'
  <2>1. /\ service' = service \/ service' = [service EXCEPT ![s] = "ended"]
        /\ ending' = ending \ {s} /\ sessionId' = 0
        /\ UNCHANGED <<accessVars, buttons, runVars, shell, shellReported, connecting, terminal, overtaken>>
    BY <1>18 DEF ForgetsSession
  <2>2. HandlesOK' /\ OneShell' /\ LostOnlyWhenOvertaken'
    BY <2>1 DEF HandlesOK, OneShell, LostOnlyWhenOvertaken, BeingSetUp, buttons
  <2>3. QED
    BY <2>1, <2>2, AccessRests DEF RunsOK, runVars, buttons
<1>19. QED
  BY <1>1, <1>2, <1>3, <1>4, <1>5, <1>6, <1>7, <1>8, <1>9, <1>10, <1>11, <1>12, <1>13, <1>14,
     <1>15, <1>16, <1>17, <1>18
  DEF DirectNext, Clicks, RunActs, Poll, ShellActs

-----------------------------------------------------------------------------
(***************************************************************************)
(* A step of the composition is a step of each part, or leaves it alone.   *)
(***************************************************************************)
LEMMA PartsTakeTheirSteps ==
    ASSUME [RemoteNext]_RemoteVars
    PROVE  /\ [PortalNext]_portalVars /\ [DirectNext]_directVars
           /\ [TransferNext]_transferVars /\ [ServiceNext]_serviceVars
           /\ [FrameNext]_frameVars /\ (part # "frames" => UNCHANGED frameVars) /\ UNCHANGED part
BY DEF RemoteNext, RemoteVars, Only

(***************************************************************************)
(* However clicks, requests, answers, expiries and closing channels cross, *)
(* and for any number of sessions, runs and sign-ins: the portal never     *)
(* ends a shell in use, the direct page polls with no lapsed credentials,  *)
(* and either loses a shell that is open only where two of its own steps   *)
(* crossed (portal-terminal.ts:30, main.ts:249, 412).                      *)
(***************************************************************************)
THEOREM ShellsAlwaysKept == RemoteSpec => []ShellsAreKept
<1>1. RemoteInit => PortalInv /\ DirectInv
  BY PortalStarts, DirectStarts DEF RemoteInit
<1>2. ASSUME PortalInv /\ DirectInv, [RemoteNext]_RemoteVars PROVE (PortalInv /\ DirectInv)'
  BY <1>2, PartsTakeTheirSteps, PortalKeeps, DirectKeeps
<1>3. PortalInv /\ DirectInv => ShellsAreKept
  BY DEF PortalInv, ShellsFit, RequestsFit, RequestFits, NeverEndsAShellInUse, ShellsAreKept,
         DirectInv, DirectTypeOK, AccessOK, RunsOK, HandlesOK
<1>4. QED
  BY <1>1, <1>2, <1>3, PTL DEF RemoteSpec

\* Frames at rest: none is read.
NoFrames == part # "frames" /\ got = <<>> /\ received = "cut"

(***************************************************************************)
(* Whatever is lost, refused, repeated or cut: a transfer reported as      *)
(* ended has ended so, the portal's answers are true of what was done, and *)
(* what is read of a frame is what was written (globus.ts:220,             *)
(* server.ts:100, agent-message.ts:108).                                   *)
(***************************************************************************)
THEOREM AnswersAlwaysTrue == RemoteSpec => []AnswersAreTrue
<1> DEFINE Inv == TransferInv /\ ServiceInv /\ (FrameInv \/ NoFrames)
<1>1. ASSUME RemoteInit PROVE Inv
  <2>1. TransferInv
    BY <1>1, TransferStarts DEF RemoteInit
  <2>2. ServiceInv
    BY <1>1, ServiceStarts DEF RemoteInit
  <2>3. CASE part = "frames"
    <3>1. FrameInv
      BY <1>1, <2>3, FramesStart DEF RemoteInit
    <3>2. QED
      BY <2>1, <2>2, <3>1
  <2>4. CASE part # "frames"
    <3>1. NoFrames
      BY <1>1, <2>4 DEF RemoteInit, NoFrames
    <3>2. QED
      BY <2>1, <2>2, <3>1
  <2>5. QED
    BY <2>3, <2>4
<1>2. ASSUME Inv, [RemoteNext]_RemoteVars PROVE Inv'
  <2>1. TransferInv' /\ ServiceInv'
    BY <1>2, PartsTakeTheirSteps, TransferKeeps, ServiceKeeps
  <2>2. CASE FrameInv
    <3>1. FrameInv'
      BY <1>2, <2>2, PartsTakeTheirSteps, FramesKeep
    <3>2. QED
      BY <2>1, <3>1
  <2>3. CASE NoFrames
    <3>1. NoFrames'
      BY <1>2, <2>3, PartsTakeTheirSteps DEF NoFrames, frameVars
    <3>2. QED
      BY <2>1, <3>1
  <2>4. QED
    BY <1>2, <2>2, <2>3
<1>3. Inv => AnswersAreTrue
  <2>1. TransferInv => TransferIsTruthful
    BY DEF TransferInv
  <2>2. ServiceInv => ServiceIsTruthful
    BY DEF ServiceInv
  <2>3. NoFrames => FramesAreFaithful
    BY DEF NoFrames, FramesAreFaithful
  <2>4. FrameInv => FramesAreFaithful
    BY FrameInvIsFaithful
  <2>5. QED
    BY <2>1, <2>2, <2>3, <2>4 DEF AnswersAreTrue
<1>4. QED
  BY <1>1, <1>2, <1>3, PTL DEF RemoteSpec
=============================================================================
