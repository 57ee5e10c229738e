---------------------------- MODULE SessionProofs ----------------------------
(***************************************************************************)
(* Theorems about SsmSession, for any number of inputs and outputs: what   *)
(* is typed is numbered once, is not lost and waits for its shell, and the *)
(* session is a channel as module ShellChannel promises it to the pages.   *)
(***************************************************************************)
EXTENDS SsmSession, SequenceTheorems, FiniteSetTheorems, TLAPS

-----------------------------------------------------------------------------
(* The inductive invariant.                                                *)

Messages == {Request, Complete, Malformed, Closed} \cup {Output(k) : k \in 1 .. MaxOutputs}
Frames   == {Input(i, n) : i \in 1 .. MaxInputs, n \in Nat}
              \cup {Response(n) : n \in Nat} \cup {Ack(m) : m \in {x \in Messages : IsStream(x)}}

\* The inputs that wait, in the order of typing: in the queue until the shell
\* is live, in the flush afterwards.
Line == IF ready THEN flushing ELSE pending

Increasing(q) == \A a, b \in DOMAIN q : a < b => q[a] < q[b]

\* Frames F, the line q, the next number s, n inputs typed, Q of them queued.
LineOK(q, n, Q) ==
    /\ q \in Seq(1 .. n) /\ Increasing(q)
    /\ Q \subseteq 1 .. n /\ \A k \in DOMAIN q : q[k] \in Q
    /\ \A i \in Q, j \in (1 .. n) \ Q : i < j

FramesOK(F, q, s, n, Q) ==
    /\ \A f \in F : IsData(f) => f.number \in 0 .. s - 1
    /\ \A f \in F : f.kind = "input" =>
         /\ f.id \in 1 .. n
         /\ \A k \in DOMAIN q : f.id # q[k] /\ (f.id \in Q => f.id < q[k])
    /\ \A f, g \in F : f.kind = "input" /\ g.kind = "input" =>
         /\ f.id = g.id => f = g
         /\ f.id < g.id /\ f.number > g.number => f.id \in Q /\ g.id \notin Q

DataOf(F) == {f \in F : IsData(f)}

WholeOK(F, q, s, n) ==
    /\ IsFiniteSet(DataOf(F)) /\ Cardinality(DataOf(F)) = s
    /\ {f.number : f \in DataOf(F)} = 0 .. s - 1
    /\ \A i \in 1 .. n : (\E k \in DOMAIN q : q[k] = i) \/ (\E f \in F : f.kind = "input" /\ f.id = i)

\* The handshake: the request is under way, or the response was given its number.
Asked   == Request \in Range(fromAgent) \/ Ack(Request) \in digests
Handled == agent # "waiting" /\ ~ Asked

ClientTypes ==
    /\ socket \in {"none", "connecting", "open", "closing", "closed"}
    /\ opened \in {"pending", "resolved", "rejected"}
    /\ agent \in {"waiting", "requested", "live", "gone"}
    /\ detached \in BOOLEAN /\ ready \in BOOLEAN /\ errors \in BOOLEAN
    /\ seq \in Nat /\ typed \in 0 .. MaxInputs
    /\ written \in 0 .. MaxOutputs
    /\ pending \in Seq(1 .. typed) /\ flushing \in Seq(1 .. typed)
    /\ fromAgent \in Seq(Messages)
    /\ digests \subseteq Frames /\ sent \subseteq Frames

AgentOK ==
    /\ socket \in {"none", "connecting"} => agent = "waiting"
    /\ agent = "waiting" => digests = {} /\ sent = {} /\ fromAgent = <<>> /\ ~ ready
    /\ \A k \in DOMAIN fromAgent :
         /\ fromAgent[k] = Request => k = 1 /\ Ack(Request) \notin digests
         /\ fromAgent[k] = Closed => agent = "gone"

Responded == Response(0) \in sent

ShellOK ==
    /\ \A f \in digests \cup sent : f.kind = "response" => f = Response(0) /\ Handled
    /\ \A f \in digests \cup sent : f.kind = "input" => ready
    /\ agent = "live" => Responded
    /\ \A k \in DOMAIN fromAgent : fromAgent[k].kind \in {"complete", "output"} => Responded
    /\ \A f \in digests : f.kind = "ack" /\ f.of.kind \in {"complete", "output"} => Responded
    /\ ready => Responded

QueueOK ==
    /\ ready => pending = <<>>
    /\ ~ ready => /\ flushing = <<>> /\ Len(pending) = typed /\ queued = 1 .. typed
                  /\ \A k \in DOMAIN pending : pending[k] = k
    /\ seq + Len(Line) = typed + (IF Handled THEN 1 ELSE 0)

ReportsOK ==
    /\ closeReports \in 0 .. 2
    /\ socket \in {"none", "connecting", "open"} => closeReports = 0
    /\ socket = "closing" => closeReports < 2
    /\ closeReports = 1 => socket = "closed" \/ agent = "gone"
    /\ closeReports = 2 => socket = "closed" /\ agent = "gone"

Apart == \A f \in digests : IsData(f) => f \notin sent

IInv ==
    /\ ClientTypes /\ AgentOK /\ ShellOK /\ QueueOK /\ ReportsOK /\ Apart
    /\ LineOK(Line, typed, queued)
    /\ FramesOK(digests \cup sent, Line, seq, typed, queued)
    /\ Working => WholeOK(digests \cup sent, Line, seq, typed)

-----------------------------------------------------------------------------
(* Frames, and the line of inputs.                                         *)

LEMMA FrameKinds ==
  ASSUME NEW f \in Frames
  PROVE  /\ f.kind \in {"input", "response", "ack"}
         /\ f.kind = "input" => f = Input(f.id, f.number) /\ f.id \in 1 .. MaxInputs /\ f.number \in Nat
         /\ f.kind = "response" => f = Response(f.number) /\ f.number \in Nat
         /\ f.kind = "ack" => f = Ack(f.of) /\ f.of \in Messages /\ IsStream(f.of)
BY DEF Frames, Input, Response, Ack

\* The line is a sequence of inputs already typed.
LEMMA LineProperties ==
  ASSUME NEW n \in Nat, NEW Q, NEW q, LineOK(q, n, Q)
  PROVE  /\ Len(q) \in Nat /\ DOMAIN q = 1 .. Len(q)
         /\ \A k \in DOMAIN q : q[k] \in 1 .. n /\ q[k] \in Q
         /\ q # <<>> => /\ Head(q) = q[1] /\ 1 \in DOMAIN q
                        /\ Tail(q) \in Seq(1 .. n) /\ Len(Tail(q)) = Len(q) - 1
                        /\ DOMAIN Tail(q) = 1 .. Len(q) - 1
                        /\ \A k \in DOMAIN Tail(q) : Tail(q)[k] = q[k + 1] /\ k + 1 \in DOMAIN q
<1>1. q \in Seq(1 .. n) /\ \A k \in DOMAIN q : q[k] \in Q
  BY DEF LineOK
<1>2. Len(q) \in Nat /\ DOMAIN q = 1 .. Len(q) /\ \A k \in DOMAIN q : q[k] \in 1 .. n
  BY <1>1, LenProperties
<1>3. ASSUME q # <<>>
      PROVE  /\ Head(q) = q[1] /\ 1 \in DOMAIN q
             /\ Tail(q) \in Seq(1 .. n) /\ Len(Tail(q)) = Len(q) - 1
             /\ DOMAIN Tail(q) = 1 .. Len(q) - 1
             /\ \A k \in DOMAIN Tail(q) : Tail(q)[k] = q[k + 1] /\ k + 1 \in DOMAIN q
  <2>1. Tail(q) \in Seq(1 .. n) /\ Len(Tail(q)) = Len(q) - 1 /\ Len(q) \in Nat \ {0}
    BY <1>1, <1>3, HeadTailProperties, EmptySeq
  <2>2. DOMAIN Tail(q) = 1 .. Len(q) - 1
    BY <2>1, LenProperties
  <2>3. \A k \in 1 .. Len(Tail(q)) : Tail(q)[k] = q[k + 1]
    BY <1>1, <1>3, HeadTailProperties
  <2>4. Head(q) = q[1]
    BY <1>1, <1>3
  <2>5. QED
    BY <1>2, <2>1, <2>2, <2>3, <2>4
<1>4. QED
  BY <1>1, <1>2, <1>3

\* Adding a frame with the next number.
LEMMA NextNumber ==
  ASSUME NEW F \in SUBSET Frames, NEW h \in Frames, IsData(h), NEW s \in Nat, h.number = s,
         NEW q, NEW q2, NEW n \in Nat, NEW n2 \in Nat, WholeOK(F, q, s, n),
         \A f \in F : IsData(f) => f.number \in 0 .. s - 1,
         \A i \in 1 .. n2 :
            \/ \E k \in DOMAIN q2 : q2[k] = i
            \/ h.kind = "input" /\ h.id = i
            \/ i \in 1 .. n /\ ~ \E k \in DOMAIN q : q[k] = i
  PROVE  WholeOK(F \cup {h}, q2, s + 1, n2)
<1>1. DataOf(F \cup {h}) = DataOf(F) \cup {h}
  BY DEF DataOf
<1>2. h \notin DataOf(F)
  BY DEF DataOf
<1>3. /\ IsFiniteSet(DataOf(F)) /\ Cardinality(DataOf(F)) = s
      /\ {f.number : f \in DataOf(F)} = 0 .. s - 1
      /\ \A i \in 1 .. n : (\E k \in DOMAIN q : q[k] = i) \/ (\E f \in F : f.kind = "input" /\ f.id = i)
  BY DEF WholeOK
<1>4. IsFiniteSet(DataOf(F \cup {h})) /\ Cardinality(DataOf(F \cup {h})) = s + 1
  <2> DEFINE D == DataOf(F)
  <2>1. IsFiniteSet(D) /\ Cardinality(D) = s /\ h \notin D
    BY <1>2, <1>3
  <2> HIDE DEF D
  <2>2. IsFiniteSet(D \cup {h}) /\ Cardinality(D \cup {h}) = Cardinality(D) + 1
    BY <2>1, FS_AddElement
  <2>3. DataOf(F \cup {h}) = D \cup {h}
    BY <1>1 DEF D
  <2>4. QED
    BY <2>1, <2>2, <2>3
<1>5. {f.number : f \in DataOf(F \cup {h})} = 0 .. (s + 1) - 1
  <2>1. {f.number : f \in DataOf(F \cup {h})} = {f.number : f \in DataOf(F)} \cup {s}
    BY <1>1
  <2>2. (0 .. s - 1) \cup {s} = 0 .. (s + 1) - 1
    OBVIOUS
  <2>3. QED
    BY <1>3, <2>1, <2>2, Zenon
<1>6. \A i \in 1 .. n2 :
        (\E k \in DOMAIN q2 : q2[k] = i) \/ (\E f \in F \cup {h} : f.kind = "input" /\ f.id = i)
  BY <1>3
<1>7. QED
  BY <1>4, <1>5, <1>6 DEF WholeOK

\* The head of the line gets the next number.
LEMMA HeadIsSent ==
  ASSUME NEW F \in SUBSET Frames, NEW s \in Nat, NEW n \in 0 .. MaxInputs, NEW Q, NEW q,
         LineOK(q, n, Q), FramesOK(F, q, s, n, Q), q # <<>>
  PROVE  /\ LineOK(Tail(q), n, Q)
         /\ FramesOK(F \cup {Input(Head(q), s)}, Tail(q), s + 1, n, Q)
         /\ WholeOK(F, q, s, n) => WholeOK(F \cup {Input(Head(q), s)}, Tail(q), s + 1, n)
<1> DEFINE h == Input(Head(q), s)
           t == Tail(q)
<1>1. n \in Nat /\ MaxInputs \in Nat
  BY SessionBounds
<1>2. /\ Len(q) \in Nat /\ DOMAIN q = 1 .. Len(q) /\ 1 \in DOMAIN q
      /\ \A k \in DOMAIN q : q[k] \in 1 .. n /\ q[k] \in Q
      /\ t \in Seq(1 .. n) /\ DOMAIN t = 1 .. Len(q) - 1
      /\ \A k \in DOMAIN t : t[k] = q[k + 1] /\ k + 1 \in DOMAIN q
  BY <1>1, LineProperties
<1>3. h.kind = "input" /\ h.id = q[1] /\ h.number = s
  BY <1>1, LineProperties DEF Input
<1>4. Increasing(q) /\ Q \subseteq 1 .. n /\ \A i \in Q, j \in (1 .. n) \ Q : i < j
  BY DEF LineOK
<1>5. h \in Frames /\ IsData(h)
  BY <1>1, <1>2, <1>3, LineProperties DEF Frames, IsData, Input
<1> HIDE DEF h, t
<1>6. LineOK(t, n, Q)
  BY <1>2, <1>4 DEF LineOK, Increasing
<1>7. \A f \in F : IsData(f) => f.number \in 0 .. s - 1
  BY DEF FramesOK
<1>8. FramesOK(F \cup {h}, t, s + 1, n, Q)
  <2>1. \A f \in F \cup {h} : IsData(f) => f.number \in 0 .. s
    BY <1>3, <1>7
  <2>2. ASSUME NEW f \in F \cup {h}, f.kind = "input"
        PROVE  f.id \in 1 .. n /\ \A k \in DOMAIN t : f.id # t[k] /\ (f.id \in Q => f.id < t[k])
    <3>1. CASE f = h
      BY <1>2, <1>3, <1>4, <3>1 DEF Increasing
    <3>2. CASE f \in F
      BY <1>2, <2>2, <3>2 DEF FramesOK
    <3>3. QED
      BY <3>1, <3>2
  <2>3. ASSUME NEW f \in F \cup {h}, NEW g \in F \cup {h}, f.kind = "input", g.kind = "input"
        PROVE  /\ f.id = g.id => f = g
               /\ f.id < g.id /\ f.number > g.number => f.id \in Q /\ g.id \notin Q
    <3>1. CASE f \in F /\ g \in F
      BY <2>3, <3>1 DEF FramesOK
    <3>2. CASE f = h /\ g = h
      BY <1>2, <1>3, <3>2
    <3>3. CASE f = h /\ g \in F
      <4>1. g.id \in 1 .. n /\ g.id # f.id /\ (g.id \in Q => g.id < f.id) /\ f.id \in Q
        BY <1>2, <1>3, <2>3, <3>3 DEF FramesOK
      <4>2. QED
        BY <1>2, <1>3, <3>3, <4>1
    <3>4. CASE f \in F /\ g = h
      <4>1. f.id # g.id
        BY <1>2, <1>3, <2>3, <3>4 DEF FramesOK
      <4>2. f.number \in 0 .. s - 1
        BY <1>7, <2>3, <3>4 DEF IsData
      <4>3. QED
        BY <1>3, <3>4, <4>1, <4>2
    <3>5. QED
      BY <2>3, <3>1, <3>2, <3>3, <3>4
  <2>4. QED
    BY <2>1, <2>2, <2>3 DEF FramesOK
<1>9. ASSUME WholeOK(F, q, s, n)
      PROVE  WholeOK(F \cup {h}, t, s + 1, n)
  <2>1. ASSUME NEW i \in 1 .. n
        PROVE  \/ \E k \in DOMAIN t : t[k] = i
               \/ h.kind = "input" /\ h.id = i
               \/ i \in 1 .. n /\ ~ \E k \in DOMAIN q : q[k] = i
    <3>1. CASE \E k \in DOMAIN q : q[k] = i
      <4>1. PICK k \in DOMAIN q : q[k] = i
        BY <3>1
      <4>2. CASE k = 1
        BY <1>3, <4>1, <4>2
      <4>3. CASE k # 1
        <5>1. k - 1 \in DOMAIN t /\ t[k - 1] = i
          BY <1>2, <4>1, <4>3
        <5>2. QED
          BY <5>1
      <4>4. QED
        BY <4>2, <4>3
    <3>2. QED
      BY <3>1
  <2>2. QED
    BY <1>1, <1>3, <1>5, <1>7, <1>9, <2>1, NextNumber
<1>10. QED
  BY <1>6, <1>8, <1>9 DEF h, t
\* An input typed while the shell is live gets the next number; without a
\* socket only the number is used up.
LEMMA TypedIsSent ==
  ASSUME NEW F \in SUBSET Frames, NEW s \in Nat, NEW n \in Nat, n < MaxInputs, NEW Q, NEW q,
         LineOK(q, n, Q), FramesOK(F, q, s, n, Q)
  PROVE  /\ LineOK(q, n + 1, Q)
         /\ FramesOK(F, q, s + 1, n + 1, Q)
         /\ FramesOK(F \cup {Input(n + 1, s)}, q, s + 1, n + 1, Q)
         /\ WholeOK(F, q, s, n) => WholeOK(F \cup {Input(n + 1, s)}, q, s + 1, n + 1)
<1> DEFINE h == Input(n + 1, s)
<1>1. h.kind = "input" /\ h.id = n + 1 /\ h.number = s /\ h \in Frames /\ IsData(h)
  BY SessionBounds DEF Input, Frames, IsData
<1>2. /\ \A k \in DOMAIN q : q[k] \in 1 .. n /\ q[k] \in Q
      /\ q \in Seq(1 .. n) /\ Q \subseteq 1 .. n /\ Increasing(q)
      /\ \A i \in Q, j \in (1 .. n) \ Q : i < j
  BY LineProperties DEF LineOK
<1>3. LineOK(q, n + 1, Q)
  <2>1. q \in Seq(1 .. n + 1)
    BY <1>2, SeqMonotonic
  <2>2. QED
    BY <1>2, <2>1 DEF LineOK
<1> HIDE DEF h
<1>4. /\ \A f \in F : IsData(f) => f.number \in 0 .. s - 1
      /\ \A f \in F : f.kind = "input" =>
           /\ f.id \in 1 .. n
           /\ \A k \in DOMAIN q : f.id # q[k] /\ (f.id \in Q => f.id < q[k])
      /\ \A f, g \in F : f.kind = "input" /\ g.kind = "input" =>
           /\ f.id = g.id => f = g
           /\ f.id < g.id /\ f.number > g.number => f.id \in Q /\ g.id \notin Q
  BY DEF FramesOK
<1>5. FramesOK(F, q, s + 1, n + 1, Q)
  <2>1. \A f \in F : IsData(f) => f.number \in 0 .. (s + 1) - 1
    BY <1>4
  <2>2. QED
    BY <1>4, <2>1 DEF FramesOK
<1>6. FramesOK(F \cup {h}, q, s + 1, n + 1, Q)
  <2>1. \A f \in F \cup {h} : IsData(f) => f.number \in 0 .. (s + 1) - 1
    BY <1>1, <1>4
  <2>2. \A f \in F \cup {h} : f.kind = "input" =>
           /\ f.id \in 1 .. n + 1
           /\ \A k \in DOMAIN q : f.id # q[k] /\ (f.id \in Q => f.id < q[k])
    BY <1>1, <1>2, <1>4
  <2>3. ASSUME NEW f \in F \cup {h}, NEW g \in F \cup {h}, f.kind = "input", g.kind = "input"
        PROVE  /\ f.id = g.id => f = g
               /\ f.id < g.id /\ f.number > g.number => f.id \in Q /\ g.id \notin Q
    <3>1. CASE f \in F /\ g \in F
      BY <1>4, <2>3, <3>1
    <3>2. CASE f = h /\ g = h
      BY <1>1, <3>2
    <3>3. CASE f = h /\ g \in F
      BY <1>1, <1>4, <2>3, <3>3
    <3>4. CASE f \in F /\ g = h
      <4>1. f.id \in 1 .. n /\ f.number \in 0 .. s - 1
        BY <1>4, <2>3, <3>4 DEF IsData
      <4>2. QED
        BY <1>1, <3>4, <4>1
    <3>5. QED
      BY <2>3, <3>1, <3>2, <3>3, <3>4
  <2>4. QED
    BY <2>1, <2>2, <2>3 DEF FramesOK
<1>7. ASSUME WholeOK(F, q, s, n)
      PROVE  WholeOK(F \cup {h}, q, s + 1, n + 1)
  <2>1. \A i \in 1 .. n + 1 :
          \/ \E k \in DOMAIN q : q[k] = i
          \/ h.kind = "input" /\ h.id = i
          \/ i \in 1 .. n /\ ~ \E k \in DOMAIN q : q[k] = i
    BY <1>1
  <2>2. QED
    BY <1>1, <1>4, <1>7, <2>1, NextNumber
<1>8. QED
  BY <1>3, <1>5, <1>6, <1>7 DEF h

\* Before that it joins the line, in which there are then all.
LEMMA TypedIsQueued ==
  ASSUME NEW F \in SUBSET Frames, NEW s \in Nat, NEW n \in Nat, NEW q,
         LineOK(q, n, 1 .. n), FramesOK(F, q, s, n, 1 .. n), \A f \in F : f.kind # "input"
  PROVE  /\ LineOK(Append(q, n + 1), n + 1, 1 .. n + 1)
         /\ Len(Append(q, n + 1)) = Len(q) + 1
         /\ FramesOK(F, Append(q, n + 1), s, n + 1, 1 .. n + 1)
         /\ WholeOK(F, q, s, n) => WholeOK(F, Append(q, n + 1), s, n + 1)
<1> DEFINE t == Append(q, n + 1)
<1>1. /\ q \in Seq(1 .. n) /\ Increasing(q) /\ Len(q) \in Nat /\ DOMAIN q = 1 .. Len(q)
      /\ \A k \in DOMAIN q : q[k] \in 1 .. n
  BY LineProperties DEF LineOK
<1>2. q \in Seq(1 .. n + 1) /\ n + 1 \in 1 .. n + 1
  BY <1>1, SeqMonotonic
<1>3. /\ t \in Seq(1 .. n + 1) /\ Len(t) = Len(q) + 1 /\ DOMAIN t = 1 .. Len(q) + 1
      /\ \A k \in DOMAIN q : t[k] = q[k]
      /\ t[Len(q) + 1] = n + 1
  BY <1>1, <1>2, AppendProperties, LenProperties
<1> HIDE DEF t
<1>4. Increasing(t)
  <2>1. SUFFICES ASSUME NEW a \in DOMAIN t, NEW b \in DOMAIN t, a < b
                 PROVE  t[a] < t[b]
    BY DEF Increasing
  <2>2. a \in DOMAIN q /\ t[a] = q[a] /\ q[a] \in 1 .. n
    BY <1>1, <1>3, <2>1
  <2>3. CASE b \in DOMAIN q
    BY <1>1, <1>3, <2>1, <2>2, <2>3 DEF Increasing
  <2>4. CASE b = Len(q) + 1
    BY <1>3, <2>2, <2>4
  <2>5. QED
    BY <1>1, <1>3, <2>3, <2>4
<1>5. \A k \in DOMAIN t : t[k] \in 1 .. n + 1
  BY <1>3, ElementOfSeq
<1>6. LineOK(t, n + 1, 1 .. n + 1)
  BY <1>3, <1>4, <1>5 DEF LineOK
<1>7. FramesOK(F, t, s, n + 1, 1 .. n + 1)
  BY DEF FramesOK
<1>8. ASSUME WholeOK(F, q, s, n)
      PROVE  WholeOK(F, t, s, n + 1)
  <2>1. ASSUME NEW i \in 1 .. n + 1
        PROVE  (\E k \in DOMAIN t : t[k] = i) \/ (\E f \in F : f.kind = "input" /\ f.id = i)
    <3>1. CASE i = n + 1
      <4>1. Len(q) + 1 \in DOMAIN t /\ t[Len(q) + 1] = i
        BY <1>1, <1>3, <3>1
      <4>2. QED
        BY <4>1
    <3>2. CASE i \in 1 .. n
      <4>1. PICK k \in DOMAIN q : q[k] = i
        BY <1>8, <3>2 DEF WholeOK
      <4>2. t[k] = q[k]
        BY <1>3, <4>1
      <4>3. k \in 1 .. Len(q) + 1
        BY <1>1, <4>1
      <4>4. k \in DOMAIN t /\ t[k] = i
        BY <1>3, <4>1, <4>2, <4>3
      <4>5. QED
        BY <4>4
    <3>3. QED
      BY <3>1, <3>2
  <2>2. QED
    BY <1>8, <2>1 DEF WholeOK
<1>9. QED
  BY <1>3, <1>6, <1>7, <1>8 DEF t

\* The response has the first number.
LEMMA ResponseIsFirst ==
  ASSUME NEW F \in SUBSET Frames, NEW n \in Nat, NEW Q, NEW q, FramesOK(F, q, 0, n, Q)
  PROVE  /\ FramesOK(F, q, 1, n, Q)
         /\ FramesOK(F \cup {Response(0)}, q, 1, n, Q)
         /\ WholeOK(F, q, 0, n) => WholeOK(F \cup {Response(0)}, q, 1, n)
<1> DEFINE h == Response(0)
<1>1. h.kind = "response" /\ h.number = 0 /\ h \in Frames /\ IsData(h)
  BY DEF Response, Frames, IsData
<1> HIDE DEF h
<1>2. \A f \in F : ~ IsData(f)
  BY DEF FramesOK
<1>3. FramesOK(F, q, 1, n, Q)
  BY <1>2 DEF FramesOK, IsData
<1>4. FramesOK(F \cup {h}, q, 1, n, Q)
  BY <1>1, <1>2 DEF FramesOK, IsData
<1>5. ASSUME WholeOK(F, q, 0, n)
      PROVE  WholeOK(F \cup {h}, q, 1, n)
  <2>1. PICK z \in Nat : z = 0
    OBVIOUS
  <2>2. WholeOK(F, q, z, n) /\ h.number = z /\ \A f \in F : IsData(f) => f.number \in 0 .. z - 1
    BY <1>1, <1>2, <1>5, <2>1
  <2>3. \A i \in 1 .. n :
          \/ \E k \in DOMAIN q : q[k] = i
          \/ h.kind = "input" /\ h.id = i
          \/ i \in 1 .. n /\ ~ \E k \in DOMAIN q : q[k] = i
    OBVIOUS
  <2>4. WholeOK(F \cup {h}, q, z + 1, n)
    BY <1>1, <2>2, <2>3, NextNumber
  <2>5. QED
    BY <2>1, <2>4
<1>6. QED
  BY <1>3, <1>4, <1>5 DEF h

\* Fewer frames are no worse, and neither is an empty line.
LEMMA Fewer ==
  ASSUME NEW F, NEW G \in SUBSET F, NEW s \in Nat, NEW s2 \in Nat, s <= s2, NEW n \in Nat, NEW Q, NEW q,
         LineOK(q, n, Q), FramesOK(F, q, s, n, Q)
  PROVE  /\ FramesOK(G, q, s2, n, Q)
         /\ FramesOK(G, <<>>, s2, n, Q) /\ LineOK(<<>>, n, Q)
<1>1. \A f \in G : IsData(f) => f.number \in 0 .. s2 - 1
  BY DEF FramesOK
<1>2. FramesOK(G, q, s2, n, Q)
  BY <1>1 DEF FramesOK
<1>3. DOMAIN <<>> = {} /\ <<>> \in Seq(1 .. n)
  BY EmptySeq
<1>4. QED
  BY <1>2, <1>3 DEF FramesOK, LineOK, Increasing

-----------------------------------------------------------------------------
(* The steps.                                                              *)

\* An acknowledgement is no data.
LEMMA AckIsNoData ==
  ASSUME NEW F, NEW m, NEW q, NEW s, NEW n, NEW Q, FramesOK(F, q, s, n, Q)
  PROVE  /\ FramesOK(F \cup {Ack(m)}, q, s, n, Q)
         /\ WholeOK(F, q, s, n) => WholeOK(F \cup {Ack(m)}, q, s, n)
<1> DEFINE a == Ack(m)
<1>1. a.kind = "ack" /\ ~ IsData(a)
  BY DEF Ack, IsData
<1> HIDE DEF a
<1>2. FramesOK(F \cup {a}, q, s, n, Q)
  BY <1>1 DEF FramesOK, IsData
<1>3. DataOf(F \cup {a}) = DataOf(F)
  BY <1>1 DEF DataOf
<1>4. WholeOK(F, q, s, n) => WholeOK(F \cup {a}, q, s, n)
  BY <1>3 DEF WholeOK
<1>5. QED
  BY <1>2, <1>4 DEF a

\* A frame goes from the digests to those sent, or is dropped with the socket.
LEMMA TransmitMoves ==
  ASSUME IInv, NEW f \in digests, Transmit(f)
  PROVE  /\ (digests \ {f}) \cup sent' \subseteq digests \cup sent
         /\ Working => (digests \ {f}) \cup sent' = digests \cup sent
         /\ sent \subseteq sent' /\ sent' \subseteq sent \cup {f}
         /\ FramesOK((digests \ {f}) \cup sent', Line, seq, typed, queued)
         /\ Working => WholeOK((digests \ {f}) \cup sent', Line, seq, typed)
<1>1. /\ (digests \ {f}) \cup sent' \subseteq digests \cup sent
      /\ Working => (digests \ {f}) \cup sent' = digests \cup sent
      /\ sent \subseteq sent' /\ sent' \subseteq sent \cup {f}
  BY DEF Transmit, Working
<1>2. /\ FramesOK(digests \cup sent, Line, seq, typed, queued) /\ LineOK(Line, typed, queued)
      /\ Working => WholeOK(digests \cup sent, Line, seq, typed)
      /\ seq \in Nat /\ typed \in Nat
  BY SessionBounds DEF IInv, ClientTypes
<1>3. FramesOK((digests \ {f}) \cup sent', Line, seq, typed, queued)
  BY <1>1, <1>2, Fewer
<1>4. QED
  BY <1>1, <1>2, <1>3

\* sendData for the line, or for one input.
LEMMA LineGoesOn ==
  ASSUME NEW D \in SUBSET Frames, NEW S \in SUBSET Frames, NEW s \in Nat, NEW n \in 0 .. MaxInputs,
         NEW Q, NEW q, LineOK(q, n, Q), FramesOK(D \cup S, q, s, n, Q),
         Working => WholeOK(D \cup S, q, s, n), detached \in BOOLEAN
  PROVE  LET r == SendAll(q, s, D) IN
         /\ r.seq \in Nat /\ r.rest \in Seq(1 .. n) /\ r.digests \subseteq Frames
         /\ r.seq + Len(r.rest) = s + Len(q)
         /\ \A f \in r.digests : f \in D \/ (f.kind = "input" /\ f.number = s)
         /\ LineOK(r.rest, n, Q) /\ FramesOK(r.digests \cup S, r.rest, r.seq, n, Q)
         /\ Working => WholeOK(r.digests \cup S, r.rest, r.seq, n)
<1> DEFINE r == SendAll(q, s, D)
<1>1. n \in Nat /\ Len(q) \in Nat /\ q \in Seq(1 .. n) /\ Len(<<>>) = 0
  BY SessionBounds, LineProperties DEF LineOK
<1>2. CASE q = <<>>
  <2>1. r.seq = s /\ r.digests = D /\ r.rest = <<>>
    BY <1>2 DEF SendAll
  <2> HIDE DEF r
  <2>2. QED
    BY <1>1, <1>2, <2>1 DEF r
<1>3. CASE q # <<>> /\ detached
  <2>1. r.seq = s + Len(q) /\ r.digests = D /\ r.rest = <<>>
    BY <1>3 DEF SendAll
  <2>2. ~ Working
    BY <1>3 DEF Working
  <2> HIDE DEF r
  <2>3. LineOK(<<>>, n, Q) /\ FramesOK(D \cup S, <<>>, s + Len(q), n, Q)
    BY <1>1, Fewer
  <2>4. <<>> \in Seq(1 .. n) /\ s + Len(q) \in Nat
    BY <1>1, EmptySeq
  <2>5. QED
    BY <1>1, <2>1, <2>2, <2>3, <2>4 DEF r
<1>4. CASE q # <<>> /\ ~ detached
  <2> DEFINE h == Input(Head(q), s)
  <2>1. r.seq = s + 1 /\ r.digests = D \cup {h} /\ r.rest = Tail(q)
    BY <1>4 DEF SendAll
  <2>2. Tail(q) \in Seq(1 .. n) /\ Len(Tail(q)) = Len(q) - 1 /\ Head(q) \in 1 .. n
    BY <1>1, <1>4, HeadTailProperties
  <2>3. h.kind = "input" /\ h.number = s /\ h \in Frames
    BY <2>2, SessionBounds DEF Input, Frames
  <2>4. /\ LineOK(Tail(q), n, Q)
        /\ FramesOK((D \cup S) \cup {h}, Tail(q), s + 1, n, Q)
        /\ Working => WholeOK((D \cup S) \cup {h}, Tail(q), s + 1, n)
    BY <1>4, HeadIsSent
  <2> HIDE DEF h, r
  <2>5. (D \cup {h}) \cup S = (D \cup S) \cup {h}
    OBVIOUS
  <2>6. s + 1 \in Nat /\ (s + 1) + Len(Tail(q)) = s + Len(q)
    BY <1>1, <2>2
  <2>7. QED
    BY <2>1, <2>2, <2>3, <2>4, <2>5, <2>6 DEF r
<1>5. QED
  BY <1>2, <1>3, <1>4
\* Before the shell has started nothing was sent, and all that was typed waits.
LEMMA NothingYet ==
  ASSUME IInv, agent = "waiting"
  PROVE  WholeOK(digests \cup sent, Line, seq, typed)
<1>1. /\ digests = {} /\ sent = {} /\ ~ ready /\ Line = pending
      /\ typed \in Nat /\ seq \in Nat /\ pending \in Seq(1 .. typed)
      /\ Len(pending) = typed /\ \A k \in DOMAIN pending : pending[k] = k
      /\ seq + Len(pending) = typed
  BY SessionBounds DEF IInv, AgentOK, ClientTypes, QueueOK, Line, Handled
<1>2. DOMAIN pending = 1 .. typed /\ seq = 0
  BY <1>1, LenProperties
<1>3. DataOf({}) = {} /\ {f.number : f \in DataOf({})} = {}
  BY DEF DataOf
<1>4. IsFiniteSet(DataOf({})) /\ Cardinality(DataOf({})) = 0
  BY <1>3, FS_EmptySet
<1>5. 0 .. 0 - 1 = {}
  OBVIOUS
<1>6. \A i \in 1 .. typed : \E k \in DOMAIN pending : pending[k] = i
  BY <1>1, <1>2
<1>7. WholeOK({}, pending, 0, typed)
  BY <1>3, <1>4, <1>5, <1>6 DEF WholeOK
<1>8. QED
  BY <1>1, <1>2, <1>7

\* Steps of the socket alone.
LEMMA SocketStep ==
  ASSUME IInv, Open \/ SocketOpens \/ SocketFails \/ SocketCloses \/ Close
  PROVE  IInv'
<1>1. UNCHANGED <<sent, written, fromAgent, agent, seq, ready, pending, flushing, digests, shown,
                  typed, queued>>
  BY DEF Open, SocketOpens, SocketFails, SocketCloses, Close
<1>2. ClientTypes'
  BY <1>1 DEF IInv, ClientTypes, Open, SocketOpens, SocketFails, SocketCloses, Close
<1>3. AgentOK'
  BY <1>1 DEF IInv, AgentOK, Open, SocketOpens, SocketFails, SocketCloses, Close
<1>4. ShellOK' /\ QueueOK' /\ Apart' /\ Line' = Line
  BY <1>1 DEF IInv, ShellOK, QueueOK, Apart, Handled, Asked, Responded, Line
<1>5. ReportsOK'
  <2>1. ReportsOK /\ AgentOK /\ ClientTypes
    BY DEF IInv
  <2>2. CASE Open
    BY <1>1, <2>1, <2>2 DEF ReportsOK, AgentOK, Open
  <2>3. CASE SocketOpens
    BY <1>1, <2>1, <2>3 DEF ReportsOK, AgentOK, SocketOpens
  <2>4. CASE SocketFails
    BY <1>1, <2>1, <2>4 DEF ReportsOK, AgentOK, SocketFails
  <2>5. CASE SocketCloses
    BY <1>1, <2>1, <2>5 DEF ReportsOK, AgentOK, SocketCloses
  <2>6. CASE Close
    BY <1>1, <2>1, <2>6 DEF ReportsOK, ClientTypes, Close
  <2>7. QED
    BY <2>2, <2>3, <2>4, <2>5, <2>6
<1>6. LineOK(Line, typed, queued)' /\ FramesOK(digests \cup sent, Line, seq, typed, queued)'
  BY <1>1, <1>4 DEF IInv
<1>7. ASSUME Working'
      PROVE  WholeOK(digests \cup sent, Line, seq, typed)'
  <2>1. Working \/ socket = "connecting"
    BY <1>7 DEF Working, Open, SocketOpens, SocketFails, SocketCloses, Close
  <2>2. WholeOK(digests \cup sent, Line, seq, typed)
    BY <2>1, NothingYet DEF IInv, AgentOK
  <2>3. QED
    BY <1>1, <1>4, <2>2
<1>8. QED
  BY <1>2, <1>3, <1>4, <1>5, <1>6, <1>7 DEF IInv

\* What the agent says joins what has not been received.
LEMMA SaidProperties ==
  ASSUME fromAgent \in Seq(Messages), NEW m \in Messages, AgentSays(m)
  PROVE  /\ fromAgent' \in Seq(Messages)
         /\ \A k \in DOMAIN fromAgent' : (k \in DOMAIN fromAgent /\ fromAgent'[k] = fromAgent[k]) \/ fromAgent'[k] = m
         /\ \A k \in DOMAIN fromAgent : k \in DOMAIN fromAgent' /\ fromAgent'[k] = fromAgent[k]
         /\ \E k \in DOMAIN fromAgent' : fromAgent'[k] = m
         /\ fromAgent = <<>> => DOMAIN fromAgent' = {1}
         /\ Range(fromAgent') = Range(fromAgent) \cup {m}
<1>1. /\ fromAgent' \in Seq(Messages) /\ Len(fromAgent) \in Nat
      /\ DOMAIN fromAgent = 1 .. Len(fromAgent) /\ DOMAIN fromAgent' = 1 .. Len(fromAgent) + 1
      /\ \A k \in 1 .. Len(fromAgent) : fromAgent'[k] = fromAgent[k]
      /\ fromAgent'[Len(fromAgent) + 1] = m
  BY AppendProperties, LenProperties DEF AgentSays
<1>2. \A k \in DOMAIN fromAgent' : (k \in DOMAIN fromAgent /\ fromAgent'[k] = fromAgent[k]) \/ fromAgent'[k] = m
  BY <1>1
<1>3. \A k \in DOMAIN fromAgent : k \in DOMAIN fromAgent' /\ fromAgent'[k] = fromAgent[k]
  BY <1>1
<1>4. \E k \in DOMAIN fromAgent' : fromAgent'[k] = m
  BY <1>1
<1>5. fromAgent = <<>> => DOMAIN fromAgent' = {1}
  BY <1>1
<1>6. Range(fromAgent') = Range(fromAgent) \cup {m}
  BY <1>2, <1>3, <1>4 DEF Range
<1>7. QED
  BY <1>1, <1>2, <1>3, <1>4, <1>5, <1>6

\* A message is of one kind.
LEMMA MessageKinds ==
  /\ Request.kind = "request" /\ Complete.kind = "complete" /\ Closed.kind = "channel_closed"
  /\ Malformed.kind = "malformed" /\ \A k : Output(k).kind = "output"
  /\ {Request, Complete, Malformed, Closed} \subseteq Messages
  /\ \A m \in Messages : m.kind = "request" => m = Request
  /\ \A m \in Messages : m.kind = "channel_closed" => m = Closed
BY DEF Request, Complete, Closed, Malformed, Output, Messages

\* What the agent does keeps the invariant.
LEMMA AgentStep ==
  ASSUME IInv, AgentActs
  PROVE  IInv'
<1>1. UNCHANGED <<socket, sent, opened, detached, seq, ready, pending, flushing, digests, shown,
                  closeReports, errors, typed, queued>>
  BY DEF AgentActs, AgentRequests, AgentStartsShell, AgentWrites, AgentGarbles, AgentLeaves,
         sessionClientVars
<1>2. /\ ClientTypes /\ AgentOK /\ ShellOK /\ QueueOK /\ ReportsOK /\ Apart
      /\ socket = "open" /\ agent # "gone"
  BY DEF IInv, AgentActs, AgentRequests, AgentStartsShell, AgentWrites, AgentGarbles, AgentLeaves
<1>3. Line' = Line /\ LineOK(Line, typed, queued)'
      /\ FramesOK(digests \cup sent, Line, seq, typed, queued)'
      /\ (Working => WholeOK(digests \cup sent, Line, seq, typed))'
  BY <1>1 DEF IInv, Line, Working
<1> DEFINE Adds(m, from, to) ==
             AgentSays(m) /\ agent = from /\ agent' = to /\ (written' = written \/ written' \in 0 .. MaxOutputs)
<1>4. \/ Adds(Request, "waiting", "requested")
      \/ Adds(Complete, "requested", "live") /\ Responded
      \/ fromAgent' = fromAgent /\ agent = "requested" /\ agent' = "live" /\ Responded /\ written' = written
      \/ (\E k \in 1 .. MaxOutputs : Adds(Output(k), "live", "live")) /\ Responded
      \/ Adds(Malformed, "requested", "requested")
      \/ Adds(Closed, "requested", "gone") \/ Adds(Closed, "live", "gone")
  <2>1. CASE AgentRequests
    BY <2>1 DEF AgentRequests
  <2>2. CASE AgentStartsShell
    <3>1. Responded
      BY <1>2, <2>2 DEF AgentStartsShell, ShellOK, Responded
    <3>2. QED
      BY <2>2, <3>1 DEF AgentStartsShell
  <2>3. CASE AgentWrites
    <3>1. written + 1 \in 1 .. MaxOutputs /\ Responded
      BY <1>2, <2>3, SessionBounds DEF AgentWrites, ClientTypes, ShellOK
    <3>2. QED
      BY <2>3, <3>1 DEF AgentWrites
  <2>4. CASE AgentGarbles
    BY <2>4 DEF AgentGarbles
  <2>5. CASE AgentLeaves
    BY <2>5 DEF AgentLeaves
  <2>6. QED
    BY <2>1, <2>2, <2>3, <2>4, <2>5 DEF AgentActs
<1>5. ASSUME NEW m \in Messages, AgentSays(m), agent \in {"waiting", "requested", "live"},
             agent' \in {"requested", "live", "gone"},
             written' = written \/ written' \in 0 .. MaxOutputs,
             m = Request <=> agent = "waiting",
             m = Closed <=> agent' = "gone",
             m.kind \in {"complete", "output"} => Responded,
             agent' = "live" => Responded
      PROVE  IInv'
  <2>1. /\ fromAgent' \in Seq(Messages)
        /\ \A k \in DOMAIN fromAgent' : (k \in DOMAIN fromAgent /\ fromAgent'[k] = fromAgent[k]) \/ fromAgent'[k] = m
        /\ fromAgent = <<>> => DOMAIN fromAgent' = {1}
        /\ Range(fromAgent') = Range(fromAgent) \cup {m}
    BY <1>2, <1>5, SaidProperties DEF ClientTypes
  <2>2. ClientTypes'
    BY <1>1, <1>2, <1>5, <2>1 DEF ClientTypes
  <2>3. AgentOK'
    BY <1>1, <1>2, <1>5, <2>1 DEF AgentOK
  <2>4. Handled' = Handled
    <3>1. CASE agent = "waiting"
      BY <1>5, <2>1, <3>1 DEF Handled, Asked
    <3>2. CASE agent # "waiting"
      BY <1>1, <1>5, <2>1, <3>2 DEF Handled, Asked
    <3>3. QED
      BY <3>1, <3>2
  <2>5. ShellOK'
    BY <1>1, <1>2, <1>5, <2>1, <2>4 DEF ShellOK, Responded
  <2>6. QueueOK' /\ ReportsOK' /\ Apart'
    BY <1>1, <1>2, <1>3, <2>4 DEF QueueOK, ReportsOK, Apart
  <2>7. QED
    BY <1>3, <2>2, <2>3, <2>5, <2>6 DEF IInv
<1>6. ASSUME fromAgent' = fromAgent, agent = "requested", agent' = "live", Responded, written' = written
      PROVE  IInv'
  <2>1. Handled' = Handled
    BY <1>1, <1>6 DEF Handled, Asked
  <2>2. ClientTypes' /\ AgentOK'
    BY <1>1, <1>2, <1>6 DEF ClientTypes, AgentOK
  <2>3. ShellOK'
    BY <1>1, <1>2, <1>6, <2>1 DEF ShellOK, Responded
  <2>4. QueueOK' /\ ReportsOK' /\ Apart'
    BY <1>1, <1>2, <1>3, <1>6, <2>1 DEF QueueOK, ReportsOK, Apart
  <2>5. QED
    BY <1>3, <2>2, <2>3, <2>4 DEF IInv
<1>7. \A k \in 1 .. MaxOutputs : Output(k) \in Messages
  BY DEF Messages
<1>8. QED
  BY <1>4, <1>5, <1>6, <1>7, MessageKinds

\* So does a message that is received.
LEMMA ReceiveStep ==
  ASSUME IInv, Receive
  PROVE  IInv'
<1> DEFINE m == Head(fromAgent)
<1>1. /\ ClientTypes /\ AgentOK /\ ShellOK /\ QueueOK /\ ReportsOK /\ Apart
      /\ socket = "open" /\ fromAgent # <<>> /\ fromAgent' = Tail(fromAgent)
      /\ UNCHANGED <<sent, written, agent, opened, detached, seq, ready, pending, flushing,
                     shown, typed, queued>>
  BY DEF IInv, Receive
<1>2. \/ /\ IsStream(m) /\ digests' = digests \cup {Ack(m)}
         /\ UNCHANGED <<socket, errors, closeReports>>
      \/ /\ m = Malformed /\ errors' = TRUE
         /\ UNCHANGED <<socket, digests, closeReports>>
      \/ /\ m = Closed /\ closeReports' = closeReports + 1 /\ socket' = "closing"
         /\ UNCHANGED <<digests, errors>>
  BY DEF Receive
<1>3. /\ fromAgent \in Seq(Messages) /\ Len(fromAgent) \in Nat /\ DOMAIN fromAgent = 1 .. Len(fromAgent)
      /\ 1 \in DOMAIN fromAgent /\ m = fromAgent[1] /\ m \in Messages
      /\ fromAgent' \in Seq(Messages)
      /\ \A k \in DOMAIN fromAgent' : k + 1 \in DOMAIN fromAgent /\ k + 1 # 1 /\ fromAgent'[k] = fromAgent[k + 1]
  <2>1. fromAgent \in Seq(Messages)
    BY <1>1 DEF ClientTypes
  <2>2. /\ Len(fromAgent) \in Nat \ {0} /\ DOMAIN fromAgent = 1 .. Len(fromAgent)
        /\ m = fromAgent[1] /\ m \in Messages
        /\ fromAgent' \in Seq(Messages) /\ Len(fromAgent') = Len(fromAgent) - 1
        /\ \A k \in 1 .. Len(fromAgent') : fromAgent'[k] = fromAgent[k + 1]
    BY <1>1, <2>1, HeadTailProperties, LenProperties, EmptySeq
  <2>3. DOMAIN fromAgent' = 1 .. Len(fromAgent) - 1
    BY <2>2, LenProperties
  <2> HIDE DEF m
  <2>4. QED
    BY <2>1, <2>2, <2>3
<1> HIDE DEF m
<1>4. /\ digests \subseteq digests' /\ \A f \in digests' \ digests : f = Ack(m) /\ IsStream(m)
      /\ IsStream(m) => Ack(m) \in digests'
  BY <1>2, MessageKinds DEF IsStream
<1>5. /\ Ack(m).kind = "ack" /\ Ack(m).of = m /\ Ack(Request).of = Request
      /\ IsStream(m) => Ack(m) \in Frames
  BY <1>3 DEF Ack, Frames
<1>6. /\ socket' \in {"open", "closing"} /\ (Working' => Working)
      /\ errors' \in BOOLEAN
  BY <1>1, <1>2 DEF Working, ClientTypes
<1>7. ClientTypes'
  BY <1>1, <1>3, <1>4, <1>5, <1>6 DEF ClientTypes
<1>8. Request \notin Range(fromAgent') /\ (Request \in Range(fromAgent) => m = Request)
  BY <1>1, <1>3 DEF AgentOK, Range
<1>9. AgentOK'
  <2>1. agent # "waiting"
    BY <1>1 DEF AgentOK
  <2>2. \A k \in DOMAIN fromAgent' : fromAgent'[k] # Request /\ (fromAgent'[k] = Closed => agent = "gone")
    BY <1>1, <1>3 DEF AgentOK
  <2>3. QED
    BY <1>1, <1>6, <2>1, <2>2 DEF AgentOK
<1>10. Handled' = Handled
  <2>1. CASE m = Request
    <3>1. Asked
      BY <1>3, <2>1 DEF Asked, Range
    <3>2. Asked'
      BY <1>4, <2>1, MessageKinds DEF Asked, IsStream
    <3>3. QED
      BY <3>1, <3>2 DEF Handled
  <2>2. CASE m # Request
    <3>1. Ack(Request) \in digests' <=> Ack(Request) \in digests
      BY <1>4, <1>5, <2>2
    <3>2. QED
      BY <1>1, <1>8, <2>2, <3>1 DEF Handled, Asked
  <2>3. QED
    BY <2>1, <2>2
<1>11. ShellOK'
  <2>1. \A f \in digests' \cup sent' : f.kind # "ack" => f \in digests \cup sent
    BY <1>1, <1>4, <1>5
  <2>2. \A f \in digests' : f.kind = "ack" /\ f.of.kind \in {"complete", "output"} => Responded
    BY <1>1, <1>3, <1>4, <1>5 DEF ShellOK
  <2>3. \A k \in DOMAIN fromAgent' : fromAgent'[k].kind \in {"complete", "output"} => Responded
    BY <1>1, <1>3 DEF ShellOK
  <2>4. Responded' = Responded
    BY <1>1 DEF Responded
  <2>5. QED
    BY <1>1, <1>10, <2>1, <2>2, <2>3, <2>4 DEF ShellOK
<1>12. QueueOK' /\ Line' = Line
  BY <1>1, <1>10 DEF QueueOK, Line
<1>13. ReportsOK'
  <2>1. m = Closed => agent = "gone"
    BY <1>1, <1>3 DEF AgentOK
  <2>2. QED
    BY <1>1, <1>2, <2>1 DEF ReportsOK
<1>14. Apart'
  BY <1>1, <1>4, <1>5 DEF Apart, IsData
<1>15. /\ LineOK(Line, typed, queued)'
       /\ FramesOK(digests \cup sent, Line, seq, typed, queued)'
       /\ (Working => WholeOK(digests \cup sent, Line, seq, typed))'
  <2>1. /\ LineOK(Line, typed, queued) /\ FramesOK(digests \cup sent, Line, seq, typed, queued)
        /\ Working => WholeOK(digests \cup sent, Line, seq, typed)
    BY DEF IInv
  <2>2. CASE digests' = digests
    BY <1>1, <1>6, <1>12, <2>1, <2>2
  <2>3. CASE digests' = digests \cup {Ack(m)}
    <3>1. digests' \cup sent' = (digests \cup sent) \cup {Ack(m)}
      BY <1>1, <2>3
    <3>2. /\ FramesOK((digests \cup sent) \cup {Ack(m)}, Line, seq, typed, queued)
          /\ Working => WholeOK((digests \cup sent) \cup {Ack(m)}, Line, seq, typed)
      BY <2>1, AckIsNoData
    <3>3. QED
      BY <1>1, <1>6, <1>12, <2>1, <3>1, <3>2
  <2>4. QED
    BY <1>2, <2>2, <2>3
<1>16. QED
  BY <1>7, <1>9, <1>11, <1>12, <1>13, <1>14, <1>15 DEF IInv

\* A digest that is finished, and what sendData does after it: only inputs
\* with the next number are added, and only when the shell is live.
LEMMA SendStep ==
  ASSUME IInv, NEW f \in digests, f # Ack(Request), Transmit(f),
         UNCHANGED <<socket, written, fromAgent, agent, opened, detached, closeReports, errors,
                     typed, queued>>,
         seq' \in Nat, ready' \in BOOLEAN, ready => ready', ready' => Responded,
         digests \ {f} \subseteq digests', digests' \subseteq Frames,
         \A g \in digests' : g \in digests \ {f} \/ (g.kind = "input" /\ g.number = seq /\ ready'),
         pending' \in Seq(1 .. typed), flushing' \in Seq(1 .. typed),
         ready' => pending' = <<>>,
         ~ ready' => UNCHANGED <<seq, pending, flushing>>,
         seq' + Len(Line') = seq + Len(Line),
         LineOK(Line', typed, queued),
         FramesOK(digests' \cup sent', Line', seq', typed, queued),
         Working => WholeOK(digests' \cup sent', Line', seq', typed)
  PROVE  IInv'
<1>1. /\ ClientTypes /\ AgentOK /\ ShellOK /\ QueueOK /\ ReportsOK /\ Apart
      /\ FramesOK(digests \cup sent, Line, seq, typed, queued)
      /\ f \in Frames /\ seq \in Nat
  BY DEF IInv, ClientTypes
<1>2. sent \subseteq sent' /\ sent' \subseteq sent \cup {f}
  BY DEF Transmit
<1>3. ClientTypes'
  BY <1>1, <1>2 DEF ClientTypes
<1>4. agent # "waiting"
  BY <1>1 DEF AgentOK
<1>5. Ack(Request) \in digests' <=> Ack(Request) \in digests
  BY DEF Ack
<1>6. AgentOK'
  BY <1>1, <1>4, <1>5 DEF AgentOK
<1>7. Handled' = Handled
  BY <1>5 DEF Handled, Asked
<1>8. ShellOK'
  <2>1. \A g \in digests' \cup sent' : g \in digests \cup sent \/ (g.kind = "input" /\ ready')
    BY <1>2
  <2>2. \A g \in digests' : g.kind = "ack" => g \in digests
    OBVIOUS
  <2>3. Responded => Responded'
    BY <1>2 DEF Responded
  <2>4. QED
    BY <1>1, <1>7, <2>1, <2>2, <2>3 DEF ShellOK
<1>9. QueueOK'
  BY <1>1, <1>7 DEF QueueOK
<1>10. ReportsOK'
  BY <1>1 DEF ReportsOK
<1>11. Apart'
  <2>1. SUFFICES ASSUME NEW g \in digests', IsData(g)
                 PROVE  g \notin sent'
    BY DEF Apart
  <2>2. CASE g \in digests \ {f}
    BY <1>1, <1>2, <2>1, <2>2 DEF Apart
  <2>3. CASE g.kind = "input" /\ g.number = seq
    <3>1. \A h \in digests \cup sent : IsData(h) => h.number # seq
      BY <1>1 DEF FramesOK
    <3>2. QED
      BY <1>2, <2>1, <2>3, <3>1
  <2>4. QED
    BY <2>2, <2>3
<1>12. Working' = Working
  BY DEF Working
<1>13. QED
  BY <1>3, <1>6, <1>8, <1>9, <1>10, <1>11, <1>12 DEF IInv
\* The response gets the first number.
LEMMA RequestAcknowledged ==
  ASSUME IInv, NEW f \in digests, f.kind = "ack", f.of.kind = "request", AckDigested(f)
  PROVE  IInv'
<1> DEFINE D == digests \ {f}
<1>1. /\ ClientTypes /\ AgentOK /\ ShellOK /\ QueueOK /\ ReportsOK /\ Apart
      /\ LineOK(Line, typed, queued)
      /\ FramesOK(digests \cup sent, Line, seq, typed, queued)
      /\ Working => WholeOK(digests \cup sent, Line, seq, typed)
      /\ digests \subseteq Frames /\ sent \subseteq Frames /\ typed \in Nat /\ seq \in Nat
      /\ detached \in BOOLEAN
  BY SessionBounds DEF IInv, ClientTypes
<1>2. /\ Transmit(f) /\ seq' = seq + 1
      /\ digests' = IF detached THEN D ELSE D \cup {Response(seq)}
      /\ UNCHANGED <<socket, written, fromAgent, agent, opened, detached, closeReports, errors,
                     typed, queued, ready, pending, flushing, shown>>
  BY DEF AckDigested
<1>3. f = Ack(Request)
  BY <1>1, FrameKinds, MessageKinds
<1>4. Asked /\ ~ Handled /\ ~ ready
  BY <1>1, <1>3 DEF Asked, Handled, ShellOK, Responded, Response
<1>5. Len(Line) = typed /\ seq = 0 /\ Line' = Line
  BY <1>1, <1>2, <1>4 DEF QueueOK, Line
<1>6. sent \subseteq sent' /\ sent' \subseteq sent \cup {f}
  BY <1>2, TransmitMoves
<1>7. Response(0).kind = "response" /\ Response(0).number = 0 /\ Response(0) \in Frames
  BY DEF Response, Frames
<1>8. Handled'
  <2>1. agent # "waiting"
    BY <1>1 DEF AgentOK
  <2>2. Request \notin Range(fromAgent)
    BY <1>1, <1>3 DEF AgentOK, Range
  <2>3. Ack(Request) \notin digests'
    BY <1>2, <1>3 DEF Ack, Response
  <2>4. QED
    BY <1>2, <2>1, <2>2, <2>3 DEF Handled, Asked
<1>9. \A g \in digests' \cup sent' : g \in digests \cup sent \/ g = Response(0)
  BY <1>2, <1>5, <1>6
<1>10. ClientTypes'
  <2>1. digests' \subseteq Frames /\ sent' \subseteq Frames
    BY <1>1, <1>2, <1>5, <1>6, <1>7
  <2>2. QED
    BY <1>1, <1>2, <2>1 DEF ClientTypes
<1>11. AgentOK'
  <2>1. Ack(Request) \notin digests' /\ agent # "waiting"
    BY <1>2, <1>8 DEF Handled, Asked
  <2>2. QED
    BY <1>1, <1>2, <2>1 DEF AgentOK
<1>12. ShellOK'
  <2>1. \A g \in digests' : g.kind = "ack" => g \in digests
    BY <1>2, <1>5, <1>7
  <2>2. Responded => Responded'
    BY <1>6 DEF Responded
  <2>3. QED
    BY <1>1, <1>2, <1>7, <1>8, <1>9, <2>1, <2>2 DEF ShellOK
<1>13. QueueOK'
  BY <1>1, <1>2, <1>4, <1>5, <1>8 DEF QueueOK
<1>14. ReportsOK'
  BY <1>1, <1>2 DEF ReportsOK
<1>15. Apart'
  <2>1. Response(0) \notin sent'
    BY <1>1, <1>3, <1>4, <1>6, <1>7 DEF ShellOK, Ack
  <2>2. QED
    BY <1>1, <1>2, <1>5, <1>6, <2>1 DEF Apart
<1>16. /\ FramesOK(digests' \cup sent', Line, 1, typed, queued)
       /\ Working' => WholeOK(digests' \cup sent', Line, 1, typed)
  <2> DEFINE F == D \cup sent'
  <2>1. F \in SUBSET Frames
    BY <1>1, <1>6
  <2>2. /\ FramesOK(F, Line, 0, typed, queued)
        /\ Working => WholeOK(F, Line, 0, typed)
    BY <1>2, <1>5, TransmitMoves
  <2> HIDE DEF F
  <2>3. /\ FramesOK(F, Line, 1, typed, queued)
        /\ FramesOK(F \cup {Response(0)}, Line, 1, typed, queued)
        /\ Working => WholeOK(F \cup {Response(0)}, Line, 1, typed)
    BY <1>1, <2>1, <2>2, ResponseIsFirst
  <2>4. CASE detached
    <3>1. digests' \cup sent' = F /\ ~ Working'
      BY <1>2, <2>4 DEF F, Working
    <3>2. QED
      BY <2>3, <3>1
  <2>5. CASE ~ detached
    <3>1. digests' \cup sent' = F \cup {Response(0)} /\ Working' = Working
      BY <1>2, <1>5, <2>5 DEF F, Working
    <3>2. QED
      BY <2>3, <3>1
  <2>6. QED
    BY <2>4, <2>5
<1>17. QED
  BY <1>1, <1>2, <1>5, <1>10, <1>11, <1>12, <1>13, <1>14, <1>15, <1>16 DEF IInv

\* Once the shell is live, the queue is flushed.
LEMMA ShellIsLive ==
  ASSUME IInv, NEW f \in digests, f.kind = "ack", f.of.kind \in {"complete", "output"}, AckDigested(f)
  PROVE  IInv'
<1> DEFINE D == digests \ {f}
<1>1. /\ ClientTypes /\ ShellOK /\ QueueOK /\ LineOK(Line, typed, queued)
      /\ digests \subseteq Frames /\ sent \subseteq Frames /\ typed \in 0 .. MaxInputs /\ seq \in Nat
      /\ detached \in BOOLEAN /\ ready \in BOOLEAN
      /\ pending \in Seq(1 .. typed) /\ flushing \in Seq(1 .. typed)
  BY DEF IInv, ClientTypes
<1>2. /\ Transmit(f) /\ MarkReady(D)
      /\ UNCHANGED <<socket, written, fromAgent, agent, opened, detached, closeReports, errors,
                     typed, queued>>
  BY DEF AckDigested
<1>3. Responded /\ f # Ack(Request) /\ D \subseteq Frames
  BY <1>1, MessageKinds DEF ShellOK, Ack
<1>4. sent' \subseteq Frames
  BY <1>1, <1>2, TransmitMoves
<1>5. /\ FramesOK(D \cup sent', Line, seq, typed, queued)
      /\ Working => WholeOK(D \cup sent', Line, seq, typed)
  BY <1>2, TransmitMoves
<1>6. CASE ready
  <2>1. digests' = D /\ UNCHANGED <<ready, seq, pending, flushing>>
    BY <1>2, <1>6 DEF MarkReady
  <2>2. Line' = Line /\ pending = <<>>
    BY <1>1, <1>6, <2>1 DEF Line, QueueOK
  <2>3. QED
    BY <1>1, <1>2, <1>3, <1>5, <1>6, <2>1, <2>2, SendStep
<1>7. CASE ~ ready
  <2> DEFINE r == SendAll(Line, seq, D)
  <2>1. /\ ready' = TRUE /\ pending' = <<>>
        /\ seq' = r.seq /\ digests' = r.digests /\ flushing' = r.rest
    BY <1>2, <1>7 DEF MarkReady, Line
  <2>2. /\ r.seq \in Nat /\ r.rest \in Seq(1 .. typed) /\ r.digests \subseteq Frames
        /\ r.seq + Len(r.rest) = seq + Len(Line)
        /\ \A g \in r.digests : g \in D \/ (g.kind = "input" /\ g.number = seq)
        /\ LineOK(r.rest, typed, queued) /\ FramesOK(r.digests \cup sent', r.rest, r.seq, typed, queued)
        /\ Working => WholeOK(r.digests \cup sent', r.rest, r.seq, typed)
    BY <1>1, <1>3, <1>4, <1>5, LineGoesOn
  <2>3. D \subseteq r.digests
    BY DEF SendAll
  <2> HIDE DEF r
  <2>4. Line' = r.rest
    BY <2>1 DEF Line
  <2>5. pending' \in Seq(1 .. typed)
    BY <2>1, EmptySeq
  <2> HIDE DEF D
  <2>6. digests \ {f} \subseteq digests' /\ \A g \in digests' : g \in digests \ {f} \/ (g.kind = "input" /\ g.number = seq /\ ready')
    BY <2>1, <2>2, <2>3 DEF D
  <2>7. QED
    BY <1>2, <1>3, <2>1, <2>2, <2>4, <2>5, <2>6, SendStep
<1>8. QED
  BY <1>6, <1>7

\* So does the response to the handshake, with its number.
LEMMA ResponseStep ==
  ASSUME IInv, NEW f \in digests, ResponseDigested(f)
  PROVE  IInv'
<1>1. /\ ClientTypes /\ ShellOK /\ QueueOK /\ LineOK(Line, typed, queued) /\ digests \subseteq Frames
      /\ typed \in Nat /\ seq \in Nat /\ ready \in BOOLEAN
      /\ pending \in Seq(1 .. typed) /\ flushing \in Seq(1 .. typed)
  BY SessionBounds DEF IInv, ClientTypes
<1>2. /\ Transmit(f) /\ digests' = digests \ {f} /\ f # Ack(Request)
      /\ UNCHANGED <<socket, written, fromAgent, agent, opened, detached, seq, ready, pending,
                     flushing, shown, closeReports, errors, typed, queued>>
  BY DEF ResponseDigested, Ack
<1>3. Line' = Line /\ (ready => pending = <<>> /\ Responded)
  BY <1>1, <1>2 DEF Line, QueueOK, ShellOK
<1>4. /\ FramesOK((digests \ {f}) \cup sent', Line, seq, typed, queued)
      /\ Working => WholeOK((digests \ {f}) \cup sent', Line, seq, typed)
  BY <1>2, TransmitMoves
<1>5. QED
  BY <1>1, <1>2, <1>3, <1>4, SendStep

\* The flush goes on with the next input.
LEMMA InputStep ==
  ASSUME IInv, NEW f \in digests, InputDigested(f)
  PROVE  IInv'
<1> DEFINE D == digests \ {f}
           r == IF f.id \in queued THEN SendAll(flushing, seq, D)
                ELSE [seq |-> seq, digests |-> D, rest |-> flushing]
<1>1. /\ ClientTypes /\ ShellOK /\ QueueOK /\ LineOK(Line, typed, queued)
      /\ digests \subseteq Frames /\ sent \subseteq Frames /\ typed \in 0 .. MaxInputs /\ seq \in Nat
      /\ detached \in BOOLEAN /\ ready \in BOOLEAN /\ flushing \in Seq(1 .. typed)
  BY DEF IInv, ClientTypes
<1>2. /\ Transmit(f) /\ f.kind = "input" /\ f # Ack(Request)
      /\ seq' = r.seq /\ digests' = r.digests /\ flushing' = r.rest
      /\ UNCHANGED <<socket, written, fromAgent, agent, opened, detached, ready, pending, shown,
                     closeReports, errors, typed, queued>>
  BY DEF InputDigested, Ack
<1>3. ready /\ Responded /\ pending = <<>> /\ Line = flushing /\ Line' = flushing'
  BY <1>1, <1>2 DEF ShellOK, QueueOK, Line
<1>4. /\ FramesOK(D \cup sent', Line, seq, typed, queued)
      /\ Working => WholeOK(D \cup sent', Line, seq, typed)
      /\ sent' \subseteq Frames /\ D \subseteq Frames
  BY <1>1, <1>2, TransmitMoves
<1>5. /\ r.seq \in Nat /\ r.rest \in Seq(1 .. typed) /\ r.digests \subseteq Frames
      /\ r.seq + Len(r.rest) = seq + Len(Line)
      /\ \A g \in r.digests : g \in D \/ (g.kind = "input" /\ g.number = seq)
      /\ LineOK(r.rest, typed, queued) /\ FramesOK(r.digests \cup sent', r.rest, r.seq, typed, queued)
      /\ Working => WholeOK(r.digests \cup sent', r.rest, r.seq, typed)
      /\ D \subseteq r.digests
  <2>1. CASE f.id \notin queued
    <3>1. r.seq = seq /\ r.digests = D /\ r.rest = flushing
      BY <2>1
    <3> HIDE DEF r, D
    <3>2. QED
      BY <1>1, <1>3, <1>4, <3>1
  <2>2. CASE f.id \in queued
    <3> DEFINE x == SendAll(Line, seq, D)
    <3>1. r = x
      BY <1>3, <2>2
    <3>2. D \subseteq x.digests
      BY DEF SendAll
    <3>3. /\ x.seq \in Nat /\ x.rest \in Seq(1 .. typed) /\ x.digests \subseteq Frames
          /\ x.seq + Len(x.rest) = seq + Len(Line)
          /\ \A g \in x.digests : g \in D \/ (g.kind = "input" /\ g.number = seq)
          /\ LineOK(x.rest, typed, queued) /\ FramesOK(x.digests \cup sent', x.rest, x.seq, typed, queued)
          /\ Working => WholeOK(x.digests \cup sent', x.rest, x.seq, typed)
      BY <1>1, <1>4, LineGoesOn
    <3> HIDE DEF r, D, x
    <3>4. QED
      BY <3>1, <3>2, <3>3
  <2>3. QED
    BY <2>1, <2>2
<1> HIDE DEF r
<1>6. pending' = <<>> /\ pending' \in Seq(1 .. typed)
  BY <1>2, <1>3, EmptySeq
<1>7. QED
  BY <1>1, <1>2, <1>3, <1>5, <1>6, SendStep
\* sendInput and resize.
LEMMA TypeStep ==
  ASSUME IInv, Type
  PROVE  IInv'
<1>1. /\ ClientTypes /\ AgentOK /\ ShellOK /\ QueueOK /\ ReportsOK /\ Apart
      /\ LineOK(Line, typed, queued)
      /\ FramesOK(digests \cup sent, Line, seq, typed, queued)
      /\ Working => WholeOK(digests \cup sent, Line, seq, typed)
      /\ digests \subseteq Frames /\ sent \subseteq Frames /\ digests \cup sent \in SUBSET Frames
      /\ typed \in Nat /\ seq \in Nat
      /\ detached \in BOOLEAN /\ ready \in BOOLEAN
      /\ pending \in Seq(1 .. typed) /\ flushing \in Seq(1 .. typed)
      /\ MaxInputs \in Nat
  BY SessionBounds DEF IInv, ClientTypes
<1>2. /\ typed < MaxInputs /\ typed' = typed + 1
      /\ UNCHANGED <<socket, sent, written, fromAgent, agent, opened, detached, ready, flushing,
                     shown, closeReports, errors>>
      /\ Working' = Working
  BY DEF Type, Working
<1>3. /\ typed' \in 0 .. MaxInputs /\ typed' \in Nat
      /\ pending \in Seq(1 .. typed') /\ flushing \in Seq(1 .. typed')
  BY <1>1, <1>2, SeqMonotonic
<1>4. CASE /\ ready
           /\ LET r == SendAll(<<typed + 1>>, seq, digests) IN seq' = r.seq /\ digests' = r.digests
           /\ UNCHANGED <<pending, queued>>
  <2> DEFINE h == Input(typed + 1, seq)
  <2>1. /\ seq' = seq + 1
        /\ digests' = IF detached THEN digests ELSE digests \cup {h}
    BY <1>4 DEF SendAll
  <2>0. ready /\ UNCHANGED <<pending, queued>>
    BY <1>4
  <2>2. h.kind = "input" /\ h.number = seq /\ h.id = typed + 1 /\ h \in Frames /\ h # Ack(Request)
    BY <1>1, <1>2 DEF Input, Frames, Ack
  <2>3. /\ LineOK(Line, typed + 1, queued)
        /\ FramesOK(digests \cup sent, Line, seq + 1, typed + 1, queued)
        /\ FramesOK((digests \cup sent) \cup {h}, Line, seq + 1, typed + 1, queued)
        /\ Working => WholeOK((digests \cup sent) \cup {h}, Line, seq + 1, typed + 1)
    BY <1>1, <1>2, TypedIsSent
  <2> HIDE DEF h
  <2>4. digests \subseteq digests' /\ digests' \subseteq digests \cup {h}
    BY <2>1
  <2>5. Line' = Line
    BY <1>2, <2>0 DEF Line
  <2>6. /\ FramesOK(digests' \cup sent', Line, seq + 1, typed + 1, queued)
        /\ Working => WholeOK(digests' \cup sent', Line, seq + 1, typed + 1)
    <3>1. CASE detached
      BY <1>2, <2>1, <2>3, <3>1 DEF Working
    <3>2. CASE ~ detached
      <4>1. digests' \cup sent' = (digests \cup sent) \cup {h}
        BY <1>2, <2>1, <3>2
      <4>2. QED
        BY <2>3, <4>1
    <3>3. QED
      BY <3>1, <3>2
  <2>7. ClientTypes'
    BY <1>1, <1>2, <1>3, <2>0, <2>1, <2>2, <2>4 DEF ClientTypes
  <2>8. agent # "waiting" /\ AgentOK'
    BY <1>1, <1>2, <2>0, <2>2, <2>4 DEF AgentOK
  <2>9. Handled' = Handled
    BY <1>2, <2>2, <2>4 DEF Handled, Asked
  <2>10. ShellOK'
    BY <1>1, <1>2, <2>0, <2>2, <2>4, <2>9 DEF ShellOK, Responded
  <2>11. QueueOK' /\ ReportsOK'
    <3>1. Len(Line) \in Nat
      BY <1>1, LineProperties
    <3>2. seq' + Len(Line') = typed' + (IF Handled' THEN 1 ELSE 0)
      <4>1. seq + Len(Line) = typed + (IF Handled THEN 1 ELSE 0)
        BY <1>1 DEF QueueOK
      <4> DEFINE one == IF Handled THEN 1 ELSE 0
      <4>2. one \in Nat /\ (IF Handled' THEN 1 ELSE 0) = one /\ seq + Len(Line) = typed + one
        <5>1. CASE Handled
          BY <2>9, <4>1, <5>1
        <5>2. CASE ~ Handled
          BY <2>9, <4>1, <5>2
        <5>3. QED
          BY <5>1, <5>2
      <4>3. seq \in Nat /\ typed \in Nat /\ seq' = seq + 1 /\ typed' = typed + 1 /\ Line' = Line
        BY <1>1, <1>2, <2>1, <2>5 DEF ClientTypes
      <4> HIDE DEF one
      <4>4. seq' + Len(Line') = typed' + one
        BY <3>1, <4>2, <4>3
      <4>5. QED
        BY <4>2, <4>4
    <3>3. QueueOK'
      BY <1>1, <1>2, <2>0, <3>2 DEF QueueOK
    <3>4. QED
      BY <1>1, <1>2, <3>3 DEF ReportsOK
  <2>12. Apart'
    <3>1. h \notin sent
      BY <1>1, <2>2 DEF FramesOK, IsData
    <3>2. QED
      BY <1>1, <1>2, <2>4, <3>1 DEF Apart
  <2>13. QED
    BY <1>2, <2>0, <2>1, <2>3, <2>5, <2>6, <2>7, <2>8, <2>10, <2>11, <2>12 DEF IInv
<1>5. CASE /\ ~ ready
           /\ pending' = Append(pending, typed + 1)
           /\ queued' = queued \cup {typed + 1}
           /\ UNCHANGED <<seq, digests>>
  <2>1. /\ Line = pending /\ Line' = Append(pending, typed + 1)
        /\ Len(pending) = typed /\ queued = 1 .. typed
        /\ \A k \in DOMAIN pending : pending[k] = k
        /\ \A f \in digests \cup sent : f.kind # "input"
    BY <1>1, <1>2, <1>5 DEF Line, QueueOK, ShellOK
  <2>2. /\ queued' = 1 .. typed + 1
        /\ LineOK(Line, typed, 1 .. typed) /\ FramesOK(digests \cup sent, Line, seq, typed, 1 .. typed)
    BY <1>1, <1>5, <2>1
  <2>3. /\ LineOK(Line', typed + 1, 1 .. typed + 1)
        /\ Len(Line') = Len(Line) + 1
        /\ FramesOK(digests \cup sent, Line', seq, typed + 1, 1 .. typed + 1)
        /\ Working => WholeOK(digests \cup sent, Line', seq, typed + 1)
    <3> DEFINE longer == Append(Line, typed + 1)
               frames == digests \cup sent
    <3>1. frames \in SUBSET Frames /\ seq \in Nat /\ typed \in Nat /\ \A f \in frames : f.kind # "input"
      BY <1>1, <2>1 DEF ClientTypes
    <3>2. LineOK(Line, typed, 1 .. typed) /\ FramesOK(frames, Line, seq, typed, 1 .. typed)
      BY <2>2
    <3>3. Working => WholeOK(frames, Line, seq, typed)
      BY <1>1
    <3>4. Line' = longer
      BY <2>1
    <3> HIDE DEF frames
    <3>5. /\ LineOK(longer, typed + 1, 1 .. typed + 1)
          /\ Len(longer) = Len(Line) + 1
          /\ FramesOK(frames, longer, seq, typed + 1, 1 .. typed + 1)
          /\ WholeOK(frames, Line, seq, typed) => WholeOK(frames, longer, seq, typed + 1)
      BY <3>1, <3>2, TypedIsQueued
    <3> HIDE DEF longer
    <3>6. QED
      BY <3>3, <3>4, <3>5 DEF frames
  <2>4. pending' \in Seq(1 .. typed')
    BY <1>2, <1>5, <2>1, <2>3 DEF LineOK
  <2>5. ClientTypes'
    BY <1>1, <1>2, <1>3, <1>5, <2>4 DEF ClientTypes
  <2>6. AgentOK' /\ Handled' = Handled /\ Apart' /\ ReportsOK'
    BY <1>1, <1>2, <1>5 DEF AgentOK, Handled, Asked, Apart, ReportsOK
  <2>7. ShellOK'
    BY <1>1, <1>2, <1>5, <2>6 DEF ShellOK, Responded
  <2>8. QueueOK'
    <3>1. \A k \in DOMAIN pending' : pending'[k] = k
      <4>1. /\ DOMAIN pending = 1 .. typed /\ DOMAIN pending' = 1 .. typed + 1
            /\ pending'[typed + 1] = typed + 1 /\ \A k \in 1 .. typed : pending'[k] = pending[k]
        <5>1. typed + 1 \in 1 .. typed + 1 /\ pending \in Seq(1 .. typed + 1)
          BY <1>1, <1>2, <1>3
        <5>2. QED
          BY <1>1, <1>5, <2>1, <5>1, AppendProperties, LenProperties
      <4>2. QED
        BY <1>1, <2>1, <4>1
    <3>2. Len(pending') = typed' /\ flushing' = <<>>
      BY <1>1, <1>2, <1>5, <2>1, <2>3 DEF QueueOK
    <3>3. seq' + Len(Line') = typed' + (IF Handled' THEN 1 ELSE 0)
      BY <1>1, <1>2, <1>5, <2>1, <2>3, <2>6 DEF QueueOK
    <3>4. QED
      BY <1>2, <1>5, <2>2, <3>1, <3>2, <3>3 DEF QueueOK
  <2>9. QED
    BY <1>2, <1>5, <2>2, <2>3, <2>5, <2>6, <2>7, <2>8 DEF IInv
<1>6. QED
  BY <1>4, <1>5 DEF Type

\* The invariant holds in every state.
LEMMA SessionInvariant == SessionSpec => []IInv
<1>1. SessionInit => IInv
  <2> SUFFICES ASSUME SessionInit
               PROVE  IInv
    OBVIOUS
  <2>1. <<>> \in Seq(1 .. 0) /\ <<>> \in Seq(Messages) /\ DOMAIN <<>> = {} /\ Len(<<>>) = 0
    BY EmptySeq
  <2>2. ClientTypes
    <3>1. pending \in Seq(1 .. typed) /\ flushing \in Seq(1 .. typed) /\ fromAgent \in Seq(Messages)
      BY <2>1 DEF SessionInit
    <3>2. /\ socket = "none" /\ opened = "pending" /\ agent = "waiting"
          /\ detached \in BOOLEAN /\ ready \in BOOLEAN /\ errors \in BOOLEAN
          /\ digests \subseteq Frames /\ sent \subseteq Frames
      BY DEF SessionInit
    <3>3. seq \in Nat /\ typed \in 0 .. MaxInputs /\ written \in 0 .. MaxOutputs
      BY SessionBounds DEF SessionInit
    <3>4. QED
      BY <3>1, <3>2, <3>3 DEF ClientTypes
  <2>3. AgentOK /\ ShellOK /\ ReportsOK /\ Apart /\ Line = <<>> /\ ~ Handled
    BY <2>1 DEF SessionInit, AgentOK, ShellOK, ReportsOK, Apart, Line, Handled
  <2>4. QueueOK
    BY <2>1, <2>3 DEF SessionInit, QueueOK
  <2>5. LineOK(Line, typed, queued) /\ FramesOK(digests \cup sent, Line, seq, typed, queued)
    BY <2>1, <2>3 DEF SessionInit, LineOK, FramesOK, Increasing
  <2>6. ~ Working
    BY DEF SessionInit, Working
  <2>7. QED
    BY <2>2, <2>3, <2>4, <2>5, <2>6 DEF IInv
<1>2. IInv /\ [SessionNext]_sessionVars => IInv'
  <2> SUFFICES ASSUME IInv, [SessionNext]_sessionVars
               PROVE  IInv'
    OBVIOUS
  <2>1. CASE UNCHANGED sessionVars
    BY <2>1 DEF sessionVars, sessionClientVars, IInv, ClientTypes, AgentOK, ShellOK, QueueOK, ReportsOK,
                Apart, Line, Handled, Asked, Responded, Working
  <2>2. CASE Open \/ SocketSettles \/ SocketCloses \/ Close
    BY <2>2, SocketStep DEF SocketSettles
  <2>3. CASE Receive
    BY <2>3, ReceiveStep
  <2>4. CASE SomeDigested
    <3>1. PICK f \in digests : Digested(f)
      BY <2>4 DEF SomeDigested
    <3>2. CASE AckDigested(f)
      <4>1. f.kind = "ack" /\ f.of.kind \in {"request", "complete", "output"}
        BY <3>2 DEF AckDigested
      <4>2. QED
        BY <3>2, <4>1, RequestAcknowledged, ShellIsLive
    <3>3. QED
      BY <3>1, <3>2, ResponseStep, InputStep DEF Digested
  <2>5. CASE Type
    BY <2>5, TypeStep
  <2>6. CASE AgentActs
    BY <2>6, AgentStep
  <2>7. QED
    BY <2>1, <2>2, <2>3, <2>4, <2>5, <2>6 DEF SessionNext
<1>3. QED
  BY <1>1, <1>2, PTL DEF SessionSpec
-----------------------------------------------------------------------------
(* What the invariant says of the session.                                 *)

LEMMA TypesHold == IInv => SessionTypeOK
<1> SUFFICES ASSUME IInv
             PROVE  SessionTypeOK
  OBVIOUS
<1>1. Len(Line) \in Nat /\ seq \in Nat /\ typed \in 0 .. MaxInputs /\ queued \subseteq 1 .. typed
  BY SessionBounds, LineProperties DEF IInv, ClientTypes, LineOK
<1>2. seq \in 0 .. MaxInputs + 1
  <2> DEFINE one == IF Handled THEN 1 ELSE 0
  <2>1. one \in 0 .. 1 /\ seq + Len(Line) = typed + one
    BY DEF IInv, QueueOK
  <2> HIDE DEF one
  <2>2. QED
    BY <1>1, <2>1, SessionBounds
<1>3. \A f \in DataSent \cup {g \in digests : IsData(g)} : f.number \in 0 .. seq - 1
  BY DEF IInv, FramesOK, DataSent
<1>4. closeReports \in 0 .. 2
  BY DEF IInv, ReportsOK
<1>5. QED
  BY <1>1, <1>2, <1>3, <1>4 DEF SessionTypeOK, IInv, ClientTypes

\* With as many frames as numbers below seq, each number is used once.
LEMMA NumbersAreWhole == IInv => NumberedOnce
<1> SUFFICES ASSUME IInv, Working
             PROVE  /\ {f.number : f \in DataSent \cup {g \in digests : IsData(g)}} = 0 .. seq - 1
                    /\ Cardinality(DataSent \cup {g \in digests : IsData(g)}) = seq
  BY DEF NumberedOnce
<1>1. DataSent \cup {g \in digests : IsData(g)} = DataOf(digests \cup sent)
  BY DEF DataSent, DataOf
<1>2. QED
  BY <1>1 DEF IInv, WholeOK

\* What was typed is in the line or in a frame.
LEMMA EveryInputHasAPlace == IInv => NothingTypedIsLost
<1> DEFINE places == <<Range(pending), Range(flushing), InputsOf(digests), InputsOf(sent)>>
<1> SUFFICES ASSUME IInv, Working
             PROVE  /\ UNION Range(places) = 1 .. typed
                    /\ \A a, b \in DOMAIN places : a # b => places[a] \cap places[b] = {}
                    /\ IsInjective(pending) /\ IsInjective(flushing)
  BY DEF NothingTypedIsLost
<1>1. /\ DOMAIN places = 1 .. 4
      /\ places[1] = Range(pending) /\ places[2] = Range(flushing)
      /\ places[3] = InputsOf(digests) /\ places[4] = InputsOf(sent)
  OBVIOUS
<1>2. UNION Range(places) = Range(pending) \cup Range(flushing) \cup InputsOf(digests) \cup InputsOf(sent)
  BY <1>1 DEF Range
<1> HIDE DEF places
<1>3. typed \in Nat /\ LineOK(Line, typed, queued)
  BY SessionBounds DEF IInv, ClientTypes
<1>4. /\ Range(pending) \cup Range(flushing) = Range(Line)
      /\ Range(pending) \cap Range(flushing) = {}
  <2>1. Range(<<>>) = {}
    BY DEF Range
  <2>2. CASE ready
    BY <2>1, <2>2 DEF IInv, QueueOK, Line
  <2>3. CASE ~ ready
    BY <2>1, <2>3 DEF IInv, QueueOK, Line
  <2>4. QED
    BY <2>2, <2>3
<1>5. InputsOf(digests) \cup InputsOf(sent) = InputsOf(digests \cup sent)
  BY DEF InputsOf
<1>6. Range(Line) \cup InputsOf(digests \cup sent) = 1 .. typed
  <2>1. Range(Line) \subseteq 1 .. typed
    BY <1>3, LineProperties DEF Range
  <2>2. InputsOf(digests \cup sent) \subseteq 1 .. typed
    BY DEF IInv, FramesOK, InputsOf
  <2>3. 1 .. typed \subseteq Range(Line) \cup InputsOf(digests \cup sent)
    BY DEF IInv, WholeOK, InputsOf, Range
  <2>4. QED
    BY <2>1, <2>2, <2>3
<1>7. Range(Line) \cap InputsOf(digests \cup sent) = {}
  BY DEF IInv, FramesOK, InputsOf, Range
<1>8. InputsOf(digests) \cap InputsOf(sent) = {}
  <2> SUFFICES ASSUME NEW f \in digests, NEW g \in sent, f.kind = "input", g.kind = "input", f.id = g.id
               PROVE  FALSE
    BY DEF InputsOf
  <2>1. f = g
    BY DEF IInv, FramesOK
  <2>2. QED
    BY <2>1 DEF IInv, Apart, IsData
<1>9. \A a, b \in DOMAIN places : a # b => places[a] \cap places[b] = {}
  <2>1. \A a \in 1 .. 2, b \in 3 .. 4 : places[a] \cap places[b] = {}
    <3>1. \A a \in 1 .. 2 : places[a] \subseteq Range(Line)
      BY <1>1, <1>4
    <3>2. \A b \in 3 .. 4 : b = 3 \/ b = 4
      OBVIOUS
    <3>3. \A b \in 3 .. 4 : places[b] \subseteq InputsOf(digests \cup sent)
      BY <1>1, <1>5, <3>2, Zenon
    <3>4. QED
      BY <1>7, <3>1, <3>3
  <2>2. places[1] \cap places[2] = {} /\ places[3] \cap places[4] = {}
    BY <1>1, <1>4, <1>8
  <2>3. QED
    BY <1>1, <2>1, <2>2
<1>10. IsInjective(pending) /\ IsInjective(flushing)
  <2>1. IsInjective(Line)
    <3>1. DOMAIN Line = 1 .. Len(Line) /\ Len(Line) \in Nat /\ \A k \in DOMAIN Line : Line[k] \in 1 .. typed
      BY <1>3, LineProperties
    <3>2. \A a, b \in DOMAIN Line : a < b => Line[a] < Line[b]
      BY <1>3 DEF LineOK, Increasing
    <3>3. QED
      BY <1>3, <3>1, <3>2 DEF IsInjective
  <2>2. IsInjective(<<>>)
    BY DEF IsInjective
  <2>3. CASE ready
    BY <2>1, <2>2, <2>3 DEF IInv, QueueOK, Line
  <2>4. CASE ~ ready
    BY <2>1, <2>2, <2>4 DEF IInv, QueueOK, Line
  <2>5. QED
    BY <2>3, <2>4
<1>11. QED
  BY <1>2, <1>4, <1>5, <1>6, <1>9, <1>10

(***************************************************************************)
(* For any number of inputs and outputs: the numbers have neither gaps nor *)
(* doubles, no input is lost before the session ends or sent before its    *)
(* shell is live, only an input typed during the flush overtakes, and only *)
(* queued ones, and only an end that is announced is reported twice        *)
(* (session.ts:98-196).                                                    *)
(***************************************************************************)
THEOREM EveryInputIsKept == SessionSpec => []InputIsKept
<1>1. IInv => InputIsKept
  <2> SUFFICES ASSUME IInv
               PROVE  InputWaitsForShell /\ OnlyTheFlushReorders /\ TwiceOnlyIfAnnounced
    BY TypesHold, NumbersAreWhole, EveryInputHasAPlace DEF InputIsKept
  <2>1. InputWaitsForShell
    <3> SUFFICES ASSUME NEW g \in digests \cup sent, g.kind = "input"
                 PROVE  ready /\ \E f \in sent : f.kind = "response" /\ f.number = 0
      BY DEF InputWaitsForShell, InputsOf
    <3>1. ready /\ Response(0) \in sent
      BY DEF IInv, ShellOK, Responded
    <3>2. Response(0).kind = "response" /\ Response(0).number = 0
      BY DEF Response
    <3>3. QED
      BY <3>1, <3>2
  <2>2. OnlyTheFlushReorders
    BY DEF IInv, FramesOK, OnlyTheFlushReorders
  <2>3. TwiceOnlyIfAnnounced
    BY DEF IInv, ReportsOK, TwiceOnlyIfAnnounced
  <2>4. QED
    BY <2>1, <2>2, <2>3
<1>2. QED
  BY <1>1, SessionInvariant, PTL

-----------------------------------------------------------------------------
(* The session as a channel of module ShellChannel.                        *)

LEMMA ChannelGoes ==
  ASSUME NEW to, socket' = to
  PROVE  [s \in {1} |-> socket]' = [[s \in {1} |-> socket] EXCEPT ![1] = to]
OBVIOUS

\* The channel reports its end once.
LEMMA ChannelReports ==
  ASSUME closeReports \in Nat, closeReports' = closeReports + 1
  PROVE  {s \in {1} : closeReports > 0}' = {s \in {1} : closeReports > 0} \cup {1}
<1>1. closeReports' > 0
  OBVIOUS
<1>2. QED
  BY <1>1

(***************************************************************************)
(* Whatever the user, the browser and the agent do, the session goes only  *)
(* the way ShellChannel promises the pages, and calls onClose only when    *)
(* ShellChannel says so (session.ts:44-96).                                *)
(***************************************************************************)
THEOREM SessionStepsAreChannelSteps ==
  SessionSpec => Channel!ChannelInit /\ [][Channel!ChannelNext]_(Channel!channelVars)
<1>1. SessionInit => Channel!ChannelInit
  BY DEF SessionInit, Channel!ChannelInit
<1>2. ASSUME IInv, [SessionNext]_sessionVars
      PROVE  [Channel!ChannelNext]_(Channel!channelVars)
  <2>1. closeReports \in Nat
    BY <1>2 DEF IInv, ReportsOK
  <2>2. CASE UNCHANGED <<socket, closeReports>>
    BY <2>2 DEF Channel!channelVars
  <2>3. CASE Open
    <3>1. UNCHANGED closeReports /\ (socket' = socket \/ (socket = "none" /\ socket' = "connecting"))
      BY <2>3 DEF Open
    <3>2. QED
      BY <2>2, <3>1, ChannelGoes DEF Channel!Connects, Channel!ChannelNext, Channel!Goes
  <2>4. CASE SocketOpens
    BY <2>4, ChannelGoes DEF SocketOpens, Channel!Opens, Channel!ChannelNext, Channel!Goes
  <2>5. CASE SocketFails
    BY <2>1, <2>5, ChannelGoes, ChannelReports DEF SocketFails,
       Channel!Fails, Channel!ChannelNext, Channel!Goes, Channel!Reports
  <2>6. CASE SocketCloses
    BY <2>1, <2>6, ChannelGoes, ChannelReports DEF SocketCloses,
       Channel!Ends, Channel!ChannelNext, Channel!Goes, Channel!Reports
  <2>7. CASE Receive
    <3>1. CASE UNCHANGED <<socket, closeReports>>
      BY <2>2, <3>1
    <3>2. CASE socket' = "closing" /\ closeReports' = closeReports + 1
      BY <2>1, <2>7, <3>2, ChannelGoes, ChannelReports DEF Receive,
         Channel!Announces, Channel!ChannelNext, Channel!Goes, Channel!Reports
    <3>3. QED
      BY <2>7, <3>1, <3>2 DEF Receive
  <2>8. CASE Close
    <3>1. socket' = socket \/ (socket \in {"connecting", "open"} /\ socket' = "closing")
      BY <1>2, <2>8 DEF Close, IInv, ClientTypes
    <3>2. UNCHANGED closeReports
      BY <2>8 DEF Close
    <3>3. QED
      BY <2>2, <3>1, <3>2, ChannelGoes DEF Channel!IsAsked, Channel!ChannelNext, Channel!Goes
  <2>9. CASE SomeDigested
    BY <2>2, <2>9 DEF SomeDigested, Digested, AckDigested, ResponseDigested, InputDigested
  <2>10. CASE Type
    BY <2>2, <2>10 DEF Type
  <2>11. CASE AgentActs
    BY <2>2, <2>11 DEF AgentActs, AgentRequests, AgentStartsShell, AgentWrites, AgentGarbles,
                       AgentLeaves, sessionClientVars
  <2>12. CASE UNCHANGED sessionVars
    BY <2>2, <2>12 DEF sessionVars, sessionClientVars
  <2>13. QED
    BY <1>2, <2>3, <2>4, <2>5, <2>6, <2>7, <2>8, <2>9, <2>10, <2>11, <2>12
    DEF SessionNext, SocketSettles
<1>3. QED
  BY <1>1, <1>2, SessionInvariant, PTL DEF SessionSpec
=============================================================================
