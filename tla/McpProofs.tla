------------------------------ MODULE McpProofs -----------------------------
(***************************************************************************)
(* Every answer is the output of the call it answers, for any number of    *)
(* calls, outputs of any size cut anywhere, and any order of timeouts; and *)
(* the session keeps the promise McpCalls on which the tools are built.    *)
(***************************************************************************)
EXTENDS McpProps, WellFoundedInduction, TLAPS

\* The counters of the stream, and the fates.
StreamOK ==
    /\ issued \in Nat /\ executed \in Nat /\ arrived \in Nat
    /\ consumed \in Nat /\ discardFrames \in Nat
    /\ consumed <= arrived /\ arrived <= executed
    /\ closed \in BOOLEAN /\ broken \in BOOLEAN
    /\ fate \in [Calls -> Fates] /\ answer \in [Calls -> Int]

\* A queue holds calls that wait, in the order they were made.
QueueOK(q, f, n) ==
    /\ q \in Seq(Calls)
    /\ \A i \in 1..Len(q) : q[i] < n /\ f[q[i]] = "waiting"
    /\ \A i, j \in 1..Len(q) : i < j => q[i] < q[j]

\* The frames still to come belong to the calls of a queue, from the n-th on.
Aligned(q, n) == \A i \in 1..Len(q) : q[i] = n + i - 1

\* No call beyond those made has a fate.
Unmade == \A c \in Calls : c >= issued => fate[c] = "none"

\* While no output was refused, every call made has its frame - consumed, owed
\* to an abandoned call, or to the queue - and every answer is the call's own.
Accounted ==
    /\ Aligned(queue, consumed + discardFrames)
    /\ ~closed => issued = consumed + discardFrames + Len(queue)
    /\ \A c \in Calls : fate[c] = "answered" => answer[c] = c

NotRefused == \A c \in Calls : fate[c] # "toolarge"

\* The inductive invariant.
SessionInv ==
    /\ broken \in BOOLEAN
    /\ StreamOK /\ QueueOK(queue, fate, issued) /\ Unmade
    /\ ~broken /\ NotRefused => Accounted

LEMMA MinOfTwo ==
    ASSUME NEW a \in Nat, NEW b \in Nat
    PROVE  Min({a, b}) = IF a <= b THEN a ELSE b
<1> DEFINE m == IF a <= b THEN a ELSE b
<1>1. m \in {a, b} /\ \A y \in {a, b} : m <= y
  OBVIOUS
<1>2. \A z \in {a, b} : (\A y \in {a, b} : z <= y) => z = m
  OBVIOUS
<1> HIDE DEF m
<1>3. (CHOOSE x \in {a, b} : \A y \in {a, b} : x <= y) = m
  BY <1>1, <1>2
<1>4. QED
  BY <1>3 DEF Min, m

LEMMA CallsAreInts == \A c \in Calls : c \in Nat /\ c \in Int
BY SizeAssumption DEF Calls

\* The rest of a queue is a queue, and aligned with the frames that follow.
LEMMA RestOfQueue ==
    ASSUME NEW q, NEW f, NEW m, QueueOK(q, f, m), NEW n \in 0..Len(q)
    PROVE  LET rest == SubSeq(q, n + 1, Len(q))
           IN  /\ QueueOK(rest, f, m) /\ Len(rest) = Len(q) - n
               /\ \A k \in Nat : Aligned(q, k) => Aligned(rest, k + n)
               /\ \A i \in 1..n, j \in 1..Len(rest) : q[i] # rest[j]
<1> DEFINE rest == SubSeq(q, n + 1, Len(q))
<1>0. q \in Seq(Calls) /\ Len(q) \in Nat /\ \A i \in 1..Len(q) : q[i] \in Calls
  BY DEF QueueOK
<1>1. /\ q \in Seq(Calls) /\ Len(q) \in Nat
      /\ \A i \in 1..Len(q) : q[i] \in Int
  BY <1>0, CallsAreInts
<1>2. /\ rest \in Seq(Calls) /\ Len(rest) = Len(q) - n
      /\ \A i \in 1..Len(rest) : rest[i] = q[n + i] /\ n + i \in 1..Len(q)
  BY <1>1
<1> HIDE DEF rest
<1>3. QueueOK(rest, f, m)
  <2>1. ASSUME NEW i \in 1..Len(rest) PROVE rest[i] < m /\ f[rest[i]] = "waiting"
    BY <1>1, <1>2 DEF QueueOK
  <2>2. ASSUME NEW i \in 1..Len(rest), NEW j \in 1..Len(rest), i < j PROVE rest[i] < rest[j]
    <3>1. /\ n + i \in 1..Len(q) /\ n + j \in 1..Len(q) /\ n + i < n + j
          /\ rest[i] = q[n + i] /\ rest[j] = q[n + j]
      BY <1>1, <1>2, <2>2
    <3>2. QED
      BY <3>1 DEF QueueOK
  <2>3. QED
    BY <1>2, <2>1, <2>2 DEF QueueOK
<1>4. \A k \in Nat : Aligned(q, k) => Aligned(rest, k + n)
  BY <1>1, <1>2 DEF Aligned
<1>5. \A i \in 1..n, j \in 1..Len(rest) : q[i] # rest[j]
  <2>1. ASSUME NEW i \in 1..n, NEW j \in 1..Len(rest) PROVE q[i] # rest[j]
    <3>1. i \in 1..Len(q) /\ n + j \in 1..Len(q) /\ i < n + j /\ rest[j] = q[n + j]
      BY <1>1, <1>2
    <3>2. q[i] < q[n + j]
      BY <3>1 DEF QueueOK
    <3>3. QED
      BY <1>1, <3>1, <3>2
  <2>2. QED
    BY <2>1
<1>6. QED
  BY <1>2, <1>3, <1>4, <1>5 DEF rest

LEMMA SessionInit == Init => SessionInv
<1> SUFFICES ASSUME Init PROVE SessionInv
  OBVIOUS
<1>1. 0 \in Calls /\ queue = <<0>> /\ \A c \in Calls : c \in Nat
  BY SizeAssumption DEF Init, Calls
<1>2. StreamOK
  <2>1. fate \in [Calls -> Fates] /\ answer \in [Calls -> Int]
    BY DEF Init, Fates, None
  <2>2. /\ issued = 1 /\ executed = 0 /\ arrived = 0 /\ consumed = 0
        /\ discardFrames = 0 /\ closed \in BOOLEAN /\ broken \in BOOLEAN
    BY DEF Init
  <2>3. QED
    BY <2>1, <2>2 DEF StreamOK
<1>a. Unmade
  BY <1>1 DEF Init, Unmade
<1>3. QueueOK(queue, fate, issued)
  BY <1>1 DEF Init, QueueOK
<1>4. Accounted
  BY <1>1 DEF Init, Aligned, Accounted
<1>5. QED
  BY <1>2, <1>a, <1>3, <1>4 DEF SessionInv, Init

-----------------------------------------------------------------------------
(* What is left of the queue when the pipe breaks *)

LEMMA LeastNatural ==
    ASSUME NEW T, T \subseteq Nat, T # {}
    PROVE  \E x \in T : \A y \in T : x <= y
<1> DEFINE R == OpToRel(<, Nat)
<1>1. IsWellFoundedOn(R, Nat)
  BY NatLessThanWellFounded
<1>2. \A m, n \in Nat : m < n => <<m, n>> \in R
  BY DEF OpToRel
<1> HIDE DEF R
<1>3. PICK x \in T : \A y \in T : <<y, x>> \notin R
  BY <1>1, WFMin
<1>4. \A y \in T : ~(y < x)
  BY <1>2, <1>3
<1>5. QED
  BY <1>4

\* Induction, on the set of the numbers that have the property.
LEMMA Counting ==
    ASSUME NEW S, 0 \in S, \A n \in Nat : n \in S => n + 1 \in S
    PROVE  Nat \subseteq S
<1>1. SUFFICES ASSUME Nat \ S # {} PROVE FALSE
  OBVIOUS
<1>2. PICK x \in Nat \ S : \A y \in Nat \ S : x <= y
  BY <1>1, LeastNatural
<1>3. x # 0 /\ x - 1 \in Nat
  BY <1>2
<1>4. x - 1 \in S
  BY <1>2, <1>3
<1>5. QED
  BY <1>2, <1>3, <1>4

\* The loop of Without, after n entries.
Loop(kept, q, S, n) ==
    /\ kept \in [0..n -> Seq(Calls)]
    /\ kept[0] = <<>>
    /\ \A i \in 1..n : kept[i] = IF q[i] \in S THEN kept[i - 1] ELSE Append(kept[i - 1], q[i])

LEMMA LoopGoesOn ==
    ASSUME NEW q \in Seq(Calls), NEW S, NEW n \in Nat, n + 1 <= Len(q), NEW k, Loop(k, q, S, n)
    PROVE  \E g : Loop(g, q, S, n + 1)
<1> DEFINE e == IF q[n + 1] \in S THEN k[n] ELSE Append(k[n], q[n + 1])
           g == [i \in 0..n + 1 |-> IF i <= n THEN k[i] ELSE e]
<1>1. q[n + 1] \in Calls /\ k[n] \in Seq(Calls)
  BY DEF Loop
<1>2. e \in Seq(Calls)
  BY <1>1
<1>3. /\ g \in [0..n + 1 -> Seq(Calls)] /\ g[n + 1] = e
      /\ \A i \in 0..n : g[i] = k[i]
  BY <1>2 DEF Loop
<1> HIDE DEF g
<1>4. g[0] = <<>>
  BY <1>3 DEF Loop
<1>5. ASSUME NEW i \in 1..n + 1
      PROVE  g[i] = IF q[i] \in S THEN g[i - 1] ELSE Append(g[i - 1], q[i])
  <2>1. CASE i \in 1..n
    <3>1. g[i] = k[i] /\ g[i - 1] = k[i - 1]
      BY <1>3, <2>1
    <3>2. QED
      BY <2>1, <3>1 DEF Loop
  <2>2. CASE i = n + 1
    <3>1. g[i - 1] = k[n] /\ g[i] = e
      BY <1>3, <2>2
    <3>2. QED
      BY <2>2, <3>1
  <2>3. QED
    BY <2>1, <2>2
<1>6. QED
  BY <1>3, <1>4, <1>5 DEF Loop

\* Without is the end of its loop: it has a value after each entry.
LEMMA WithoutLoop ==
    ASSUME NEW q \in Seq(Calls), NEW S
    PROVE  \E kept : Loop(kept, q, S, Len(q)) /\ Without(q, S) = kept[Len(q)]
<1> DEFINE T == {n \in Nat : n <= Len(q) => \E k : Loop(k, q, S, n)}
<1>1. 0 \in T
  <2>1. Loop([i \in 0..0 |-> <<>>], q, S, 0)
    BY DEF Loop
  <2>2. QED
    BY <2>1
<1>2. \A n \in Nat : n \in T => n + 1 \in T
  BY LoopGoesOn
<1> HIDE DEF T
<1>3. Len(q) \in T
  BY <1>1, <1>2, Counting
<1>4. PICK k : Loop(k, q, S, Len(q))
  BY <1>3 DEF T
<1>5. k = [i \in 0..Len(q) |-> IF i = 0 THEN <<>>
                               ELSE IF q[i] \in S THEN k[i - 1] ELSE Append(k[i - 1], q[i])]
  <2> DEFINE h == [i \in 0..Len(q) |-> IF i = 0 THEN <<>>
                               ELSE IF q[i] \in S THEN k[i - 1] ELSE Append(k[i - 1], q[i])]
  <2>1. k = [i \in 0..Len(q) |-> k[i]]
    BY <1>4 DEF Loop
  <2>2. ASSUME NEW i \in 0..Len(q) PROVE k[i] = h[i]
    <3>1. CASE i = 0
      BY <1>4, <3>1 DEF Loop
    <3>2. CASE i \in 1..Len(q)
      BY <1>4, <3>2 DEF Loop
    <3>3. QED
      BY <3>1, <3>2
  <2>3. QED
    BY <2>1, <2>2
<1> DEFINE Fix(f) == f = [i \in 0..Len(q) |-> IF i = 0 THEN <<>>
                            ELSE IF q[i] \in S THEN f[i - 1] ELSE Append(f[i - 1], q[i])]
           f == CHOOSE f : Fix(f)
<1>6. Fix(f)
  BY <1>5
<1>7. Without(q, S) = f[Len(q)]
  BY DEF Without
<1> HIDE DEF f
<1>8. f[0] = <<>>
      /\ \A i \in 1..Len(q) : f[i] = IF q[i] \in S THEN f[i - 1] ELSE Append(f[i - 1], q[i])
  <2> DEFINE h == [i \in 0..Len(q) |-> IF i = 0 THEN <<>>
                               ELSE IF q[i] \in S THEN f[i - 1] ELSE Append(f[i - 1], q[i])]
  <2>1. f = h
    BY <1>6
  <2>2. \A i \in 0..Len(q) : h[i] = IF i = 0 THEN <<>> ELSE
                               IF q[i] \in S THEN f[i - 1] ELSE Append(f[i - 1], q[i])
    OBVIOUS
  <2> HIDE DEF h
  <2>3. \A i \in 0..Len(q) : f[i] = IF i = 0 THEN <<>> ELSE
                               IF q[i] \in S THEN f[i - 1] ELSE Append(f[i - 1], q[i])
    BY <2>1, <2>2
  <2>4. QED
    BY <2>3
<1>9. f \in [0..Len(q) -> Seq(Calls)]
  <2> DEFINE U == {i \in Nat : i <= Len(q) => f[i] \in Seq(Calls)}
  <2>1. 0 \in U
    <3>1. <<>> \in Seq(Calls)
      OBVIOUS
    <3>2. QED
      BY <1>8, <3>1
  <2>2. ASSUME NEW n \in Nat, n \in U PROVE n + 1 \in U
    <3>1. CASE n + 1 <= Len(q)
      <4>1. n + 1 \in 1..Len(q) /\ (n + 1) - 1 = n /\ f[n] \in Seq(Calls) /\ q[n + 1] \in Calls
        BY <2>2, <3>1
      <4>2. f[n + 1] = IF q[n + 1] \in S THEN f[n] ELSE Append(f[n], q[n + 1])
        BY <1>8, <4>1
      <4>3. f[n + 1] \in Seq(Calls)
        BY <4>1, <4>2
      <4>4. QED
        BY <4>3
    <3>2. CASE ~(n + 1 <= Len(q))
      BY <3>2
    <3>3. QED
      BY <3>1, <3>2
  <2> HIDE DEF U
  <2>3. Nat \subseteq U
    BY <2>1, <2>2, Counting
  <2>4. \A i \in 0..Len(q) : f[i] \in Seq(Calls)
    BY <2>3 DEF U
  <2>5. f = [i \in 0..Len(q) |-> f[i]]
    BY <1>6
  <2>6. QED
    BY <2>4, <2>5
<1>10. QED
  BY <1>7, <1>8, <1>9 DEF Loop

\* A queue from which entries are taken is a queue of the others.
LEMMA WithoutOK ==
    ASSUME NEW q, NEW f, NEW m, QueueOK(q, f, m), NEW S
    PROVE  /\ QueueOK(Without(q, S), f, m)
           /\ \A j \in 1..Len(Without(q, S)) : Without(q, S)[j] \notin S
<1>0. q \in Seq(Calls) /\ Len(q) \in Nat /\ \A i \in 1..Len(q) : q[i] \in Calls /\ q[i] \in Int
  BY CallsAreInts DEF QueueOK
<1>1. PICK kept : Loop(kept, q, S, Len(q)) /\ Without(q, S) = kept[Len(q)]
  BY <1>0, WithoutLoop
<1>a. /\ kept \in [0..Len(q) -> Seq(Calls)] /\ kept[0] = <<>>
      /\ \A i \in 1..Len(q) :
           kept[i] = IF q[i] \in S THEN kept[i - 1] ELSE Append(kept[i - 1], q[i])
  BY <1>1 DEF Loop
<1> DEFINE Part(r, i) ==
             /\ \A j \in 1..Len(r) : \E l \in 1..i : r[j] = q[l] /\ q[l] \notin S
             /\ \A j, l \in 1..Len(r) : j < l => r[j] < r[l]
           T == {i \in Nat : i <= Len(q) => Part(kept[i], i)}
<1>2. 0 \in T
  BY <1>a
<1>3. ASSUME NEW i \in Nat, i \in T PROVE i + 1 \in T
  <2> SUFFICES ASSUME i + 1 <= Len(q) PROVE Part(kept[i + 1], i + 1)
    OBVIOUS
  <2>0. Part(kept[i], i)
    BY <1>0, <1>3
  <2> HIDE DEF Part
  <2>1. /\ i + 1 \in 1..Len(q) /\ (i + 1) - 1 = i /\ kept[i] \in Seq(Calls)
        /\ Len(kept[i]) \in Nat /\ Part(kept[i], i)
    BY <1>0, <1>a, <2>0
  <2> USE DEF Part
  <2>2. kept[i + 1] = IF q[i + 1] \in S THEN kept[i] ELSE Append(kept[i], q[i + 1])
    BY <1>a, <2>1
  <2>3. CASE q[i + 1] \in S
    BY <2>1, <2>2, <2>3
  <2>4. CASE q[i + 1] \notin S
    <3> DEFINE r == kept[i]
               e == kept[i + 1]
    <3>1. /\ e = Append(r, q[i + 1]) /\ Len(e) = Len(r) + 1 /\ e[Len(r) + 1] = q[i + 1]
          /\ \A j \in 1..Len(r) : e[j] = r[j]
      BY <1>0, <2>1, <2>2, <2>4
    <3>2. \A j \in 1..Len(r) : r[j] < q[i + 1]
      <4>1. ASSUME NEW j \in 1..Len(r) PROVE r[j] < q[i + 1]
        <5>1. PICK l \in 1..i : r[j] = q[l]
          BY <2>1
        <5>2. l \in 1..Len(q) /\ l < i + 1
          BY <1>0, <2>1
        <5>3. QED
          BY <2>1, <5>1, <5>2 DEF QueueOK
      <4>2. QED
        BY <4>1
    <3> HIDE DEF r, e
    <3>3. Part(r, i)
      BY <2>1 DEF r
    <3>a. Len(r) \in Nat
      BY <2>1 DEF r
    <3>4. ASSUME NEW j \in 1..Len(e) PROVE \E l \in 1..i + 1 : e[j] = q[l] /\ q[l] \notin S
      <4>1. CASE j = Len(r) + 1
        BY <2>1, <2>4, <3>1, <4>1
      <4>2. CASE j \in 1..Len(r)
        <5>1. PICK l \in 1..i : r[j] = q[l] /\ q[l] \notin S
          BY <3>3, <4>2
        <5>2. l \in 1..i + 1
          OBVIOUS
        <5>3. QED
          BY <3>1, <4>2, <5>1, <5>2
      <4>3. QED
        BY <3>1, <3>a, <4>1, <4>2
    <3>5. ASSUME NEW j \in 1..Len(e), NEW l \in 1..Len(e), j < l PROVE e[j] < e[l]
      <4>1. j \in 1..Len(r) /\ (l \in 1..Len(r) \/ l = Len(r) + 1)
        BY <3>1, <3>5, <3>a
      <4>2. CASE l \in 1..Len(r)
        BY <3>1, <3>3, <3>5, <4>1, <4>2
      <4>3. CASE l = Len(r) + 1
        BY <3>1, <3>2, <4>1, <4>3
      <4>4. QED
        BY <4>1, <4>2, <4>3
    <3>6. QED
      BY <3>4, <3>5 DEF e
  <2>5. QED
    BY <2>3, <2>4
<1>4. Len(q) \in T
  <2> HIDE DEF T
  <2>1. QED
    BY <1>0, <1>2, <1>3, Counting
<1>5. Part(kept[Len(q)], Len(q))
  BY <1>0, <1>4
<1> DEFINE r == Without(q, S)
<1>6. r \in Seq(Calls) /\ Part(r, Len(q))
  BY <1>0, <1>1, <1>a, <1>5
<1> HIDE DEF r
<1>7. \A j \in 1..Len(r) : r[j] < m /\ f[r[j]] = "waiting" /\ r[j] \notin S
  BY <1>6 DEF QueueOK
<1>8. QED
  BY <1>6, <1>7 DEF r, QueueOK

-----------------------------------------------------------------------------
(* Calls, timeouts and ends *)

LEMMA CommandOK ==
    ASSUME SessionInv, Command
    PROVE  SessionInv'
<1>0. /\ issued \in Calls /\ issued \in Nat /\ issued' = issued + 1 /\ ~closed
      /\ queue' = Append(queue, issued) /\ fate' = [fate EXCEPT ![issued] = "waiting"]
      /\ UNCHANGED <<broken, executed, arrived, consumed, discardFrames, closed, answer>>
      /\ StreamOK /\ QueueOK(queue, fate, issued) /\ Unmade /\ (~broken /\ NotRefused => Accounted)
  BY SizeAssumption DEF Command, Open, engineVars, bufVars, SessionInv, StreamOK, Calls
<1>1. /\ queue \in Seq(Calls) /\ fate \in [Calls -> Fates] /\ Len(queue) \in Nat
      /\ \A i \in 1..Len(queue) : /\ queue[i] \in Calls /\ queue[i] \in Int
                                 /\ queue[i] < issued /\ fate[queue[i]] = "waiting"
  <2>1. queue \in Seq(Calls) /\ Len(queue) \in Nat /\ fate \in [Calls -> Fates]
    BY <1>0 DEF StreamOK, QueueOK
  <2>2. \A i \in 1..Len(queue) : queue[i] \in Calls
    BY <2>1
  <2>3. QED
    BY <1>0, <2>1, <2>2, CallsAreInts DEF QueueOK
<1>2. /\ queue' \in Seq(Calls) /\ Len(queue') = Len(queue) + 1
      /\ \A i \in 1..Len(queue) : queue'[i] = queue[i]
      /\ queue'[Len(queue')] = issued
      /\ \A i \in 1..Len(queue') : i \in 1..Len(queue) \/ i = Len(queue')
  BY <1>0, <1>1
<1>3. StreamOK'
  BY <1>0, <1>1 DEF StreamOK, Fates
<1>4. QueueOK(queue', fate', issued')
  <2>1. \A i \in 1..Len(queue') : queue'[i] < issued' /\ fate'[queue'[i]] = "waiting"
    BY <1>0, <1>1, <1>2
  <2>2. \A i, j \in 1..Len(queue') : i < j => queue'[i] < queue'[j]
    BY <1>0, <1>1, <1>2 DEF QueueOK
  <2>3. QED
    BY <1>2, <2>1, <2>2 DEF QueueOK
<1>5. Unmade'
  BY <1>0, <1>1, CallsAreInts DEF Unmade
<1>6. NotRefused' => NotRefused
  BY <1>0, <1>1 DEF NotRefused, Unmade
<1>7. ~broken /\ NotRefused' => Accounted'
  <2>1. ASSUME ~broken, NotRefused' PROVE Accounted'
    <3>1. Accounted /\ consumed \in Nat /\ discardFrames \in Nat
      BY <1>0, <1>6, <2>1 DEF StreamOK
    <3>2. Aligned(queue', consumed' + discardFrames')
      <4>1. \A i \in 1..Len(queue) : queue[i] = consumed + discardFrames + i - 1
        BY <3>1 DEF Accounted, Aligned
      <4>2. issued = consumed + discardFrames + Len(queue)
        BY <1>0, <3>1 DEF Accounted
      <4>3. ASSUME NEW i \in 1..Len(queue') PROVE queue'[i] = consumed + discardFrames + i - 1
        <5>1. CASE i \in 1..Len(queue)
          BY <1>2, <4>1, <5>1
        <5>2. CASE i = Len(queue')
          BY <1>1, <1>2, <3>1, <4>2, <5>2
        <5>3. QED
          BY <1>2, <5>1, <5>2
      <4>4. QED
        BY <1>0, <4>3 DEF Aligned
    <3>3. issued' = consumed' + discardFrames' + Len(queue')
      BY <1>0, <1>1, <1>2, <3>1 DEF Accounted
    <3>4. \A c \in Calls : fate'[c] = "answered" => answer'[c] = c
      BY <1>0, <1>1, <3>1 DEF Accounted
    <3>5. QED
      BY <3>2, <3>3, <3>4 DEF Accounted, Aligned
  <2>2. QED
    BY <2>1
<1>8. QED
  BY <1>0, <1>3, <1>4, <1>5, <1>7 DEF SessionInv, QueueOK

LEMMA CommandClosedOK ==
    ASSUME SessionInv, CommandClosed
    PROVE  SessionInv'
<1>0. /\ issued \in Calls /\ issued \in Nat /\ issued' = issued + 1 /\ closed
      /\ fate' = [fate EXCEPT ![issued] = "closed"]
      /\ UNCHANGED <<queue, broken, executed, arrived, consumed, discardFrames, closed, answer>>
      /\ StreamOK /\ QueueOK(queue, fate, issued) /\ Unmade /\ (~broken /\ NotRefused => Accounted)
  BY SizeAssumption
  DEF CommandClosed, Open, engineVars, bufVars, pipeVars, SessionInv, StreamOK, Calls
<1>1. /\ fate \in [Calls -> Fates] /\ queue \in Seq(Calls)
      /\ \A i \in 1..Len(queue) : queue[i] \in Calls /\ queue[i] \in Int /\ queue[i] < issued
  <2>1. queue \in Seq(Calls) /\ fate \in [Calls -> Fates]
    BY <1>0 DEF StreamOK, QueueOK
  <2>2. \A i \in 1..Len(queue) : queue[i] \in Calls
    BY <2>1
  <2>3. QED
    BY <1>0, <2>1, <2>2, CallsAreInts DEF QueueOK
<1>2. StreamOK'
  BY <1>0, <1>1 DEF StreamOK, Fates
<1>3. QueueOK(queue', fate', issued')
  BY <1>0, <1>1 DEF QueueOK
<1>4. Unmade' /\ (NotRefused' => NotRefused)
  BY <1>0, <1>1, CallsAreInts DEF Unmade, NotRefused
<1>5. ~broken /\ NotRefused' => Accounted'
  BY <1>0, <1>1, <1>4 DEF Accounted, Aligned
<1>6. QED
  BY <1>0, <1>2, <1>3, <1>4, <1>5 DEF SessionInv

\* An abandoned call leaves the queue and its frame is owed to nobody.
LEMMA TimeoutOK ==
    ASSUME SessionInv, Timeout
    PROVE  SessionInv'
<1>0. /\ queue # <<>> /\ queue' = Tail(queue) /\ discardFrames' = discardFrames + 1
      /\ fate' = [c \in Calls |-> IF c \in {Head(queue)} THEN "timeout" ELSE fate[c]]
      /\ UNCHANGED <<issued, broken, executed, arrived, consumed, closed, answer>>
      /\ StreamOK /\ QueueOK(queue, fate, issued) /\ Unmade /\ (~broken /\ NotRefused => Accounted)
  BY DEF Timeout, Owed, Reject, engineVars, bufVars, pipeVars, SessionInv
<1>1. /\ queue \in Seq(Calls) /\ Len(queue) \in Nat \ {0} /\ Head(queue) = queue[1]
      /\ Tail(queue) = SubSeq(queue, 1 + 1, Len(queue)) /\ 1 \in 0..Len(queue)
      /\ queue[1] \in Calls /\ queue[1] < issued /\ fate[queue[1]] = "waiting"
  BY <1>0 DEF QueueOK
<1>2. /\ QueueOK(queue', fate, issued) /\ Len(queue') = Len(queue) - 1
      /\ \A k \in Nat : Aligned(queue, k) => Aligned(queue', k + 1)
      /\ \A j \in 1..Len(queue') : queue[1] # queue'[j]
  <2> DEFINE rest == SubSeq(queue, 1 + 1, Len(queue))
  <2>1. /\ QueueOK(rest, fate, issued) /\ Len(rest) = Len(queue) - 1
        /\ \A k \in Nat : Aligned(queue, k) => Aligned(rest, k + 1)
        /\ \A i \in 1..1, j \in 1..Len(rest) : queue[i] # rest[j]
    BY <1>0, <1>1, RestOfQueue
  <2>2. queue' = rest
    BY <1>0, <1>1
  <2> HIDE DEF rest
  <2>3. 1 \in 1..1
    OBVIOUS
  <2>4. QED
    BY <2>1, <2>2, <2>3
<1>3. StreamOK'
  BY <1>0 DEF StreamOK, Fates
<1>4. QueueOK(queue', fate', issued')
  BY <1>0, <1>1, <1>2 DEF QueueOK
<1>5. Unmade' /\ (NotRefused' => NotRefused)
  BY <1>0, <1>1, CallsAreInts DEF Unmade, NotRefused, StreamOK
<1>6. ASSUME ~broken, NotRefused' PROVE Accounted'
  <2>1. Accounted /\ consumed \in Nat /\ discardFrames \in Nat
    BY <1>0, <1>5, <1>6 DEF StreamOK
  <2>2. Aligned(queue', consumed' + discardFrames')
    <3>1. Aligned(queue', (consumed + discardFrames) + 1)
      BY <1>2, <2>1 DEF Accounted
    <3>2. (consumed + discardFrames) + 1 = consumed' + discardFrames'
      BY <1>0, <2>1
    <3>3. QED
      BY <3>1, <3>2
  <2>3. ~closed' => issued' = consumed' + discardFrames' + Len(queue')
    BY <1>0, <1>1, <1>2, <2>1 DEF Accounted
  <2>4. \A c \in Calls : fate'[c] = "answered" => answer'[c] = c
    BY <1>0, <2>1 DEF Accounted
  <2>5. QED
    BY <2>2, <2>3, <2>4 DEF Accounted, Aligned
<1>7. QED
  BY <1>0, <1>3, <1>4, <1>5, <1>6 DEF SessionInv, QueueOK

LEMMA ExitEventOK ==
    ASSUME SessionInv, ExitEvent
    PROVE  SessionInv'
<1>0. /\ queue' = <<>> /\ closed' = TRUE
      /\ fate' = [c \in Calls |-> IF c \in ToSet(queue) THEN "exited" ELSE fate[c]]
      /\ UNCHANGED <<issued, broken, executed, arrived, consumed, discardFrames, answer>>
      /\ StreamOK /\ QueueOK(queue, fate, issued) /\ Unmade /\ (~broken /\ NotRefused => Accounted)
  BY DEF ExitEvent, Reject, engineVars, bufVars, pipeVars, SessionInv
<1>1. \A c \in ToSet(queue) : c \in Calls /\ c < issued /\ fate[c] = "waiting"
  BY <1>0 DEF QueueOK, ToSet
<1>2. StreamOK'
  BY <1>0 DEF StreamOK, Fates
<1>3. QueueOK(queue', fate', issued')
  BY <1>0 DEF QueueOK
<1>4. Unmade' /\ (NotRefused' => NotRefused)
  BY <1>0, <1>1, CallsAreInts DEF Unmade, NotRefused, StreamOK
<1>5. ~broken /\ NotRefused' => Accounted'
  BY <1>0, <1>4 DEF Accounted, Aligned
<1>6. QED
  BY <1>0, <1>2, <1>3, <1>4, <1>5 DEF SessionInv

\* The entries of the calls that wait for drain leave the queue; the others go on.
LEMMA WriteErrorOK ==
    ASSUME SessionInv, WriteError
    PROVE  SessionInv'
<1>0. /\ broken' = TRUE /\ queue' = Without(queue, draining)
      /\ fate' = [c \in Calls |->
                    IF c \in draining /\ fate[c] = "waiting" THEN "write" ELSE fate[c]]
      /\ UNCHANGED <<issued, executed, arrived, consumed, discardFrames, closed, answer>>
      /\ StreamOK /\ QueueOK(queue, fate, issued) /\ Unmade
  BY DEF WriteError, engineVars, bufVars, SessionInv
<1>1. QueueOK(queue', fate, issued) /\ \A j \in 1..Len(queue') : queue'[j] \notin draining
  BY <1>0, WithoutOK
<1>2. QueueOK(queue', fate', issued')
  <2>1. \A j \in 1..Len(queue') : queue'[j] \in Calls
    BY <1>1 DEF QueueOK
  <2>2. QED
    BY <1>0, <1>1, <2>1 DEF QueueOK
<1>3. StreamOK'
  BY <1>0 DEF StreamOK, Fates
<1>4. Unmade'
  BY <1>0 DEF Unmade
<1>5. QED
  BY <1>0, <1>2, <1>3, <1>4 DEF SessionInv, QueueOK

\* Steps of the engine and the pipe that the queue does not see.
LEMMA ElsewhereOK ==
    ASSUME SessionInv, Execute \/ EngineExit \/ Drain \/ Close \/ UnheardError
    PROVE  SessionInv'
<1>0. /\ UNCHANGED <<queue, fate, issued, arrived, consumed, discardFrames, answer>>
      /\ broken' \in BOOLEAN /\ (broken => broken')
      /\ executed' \in {executed, executed + 1} /\ closed' \in {closed, TRUE}
      /\ StreamOK /\ QueueOK(queue, fate, issued) /\ Unmade /\ (~broken /\ NotRefused => Accounted)
  BY DEF Execute, EngineExit, Drain, Close, UnheardError, engineVars, bufVars, pipeVars, SessionInv
<1>1. executed \in Nat /\ arrived \in Nat /\ arrived <= executed
  BY <1>0 DEF StreamOK
<1>2. executed' \in Nat /\ arrived' <= executed'
  BY <1>0, <1>1
<1>3. StreamOK'
  BY <1>0, <1>2 DEF StreamOK
<1>4. QueueOK(queue', fate', issued') /\ Unmade' /\ (NotRefused' => NotRefused)
  BY <1>0 DEF Unmade, NotRefused
<1>5. ~closed' => ~closed
  BY <1>0 DEF StreamOK
<1>6. Accounted => Accounted'
  BY <1>0, <1>5 DEF Accounted, Aligned
<1>7. ~broken' /\ NotRefused' => Accounted'
  BY <1>0, <1>4, <1>6
<1>8. QED
  BY <1>0, <1>3, <1>4, <1>7 DEF SessionInv, QueueOK

-----------------------------------------------------------------------------
(* Output of the engine *)

\* What the three branches of _onData share.
LEMMA ChunkFacts ==
    ASSUME SessionInv, NEW a \in arrived..executed, NEW p, Chunk(a, p)
    PROVE  /\ a \in Nat /\ arrived \in Nat /\ arrived <= a /\ a <= executed /\ arrived' = a
           /\ UNCHANGED <<issued, executed, closed>>
           /\ executed \in Nat /\ consumed \in Nat /\ discardFrames \in Nat /\ consumed <= a
           /\ issued \in Nat /\ closed \in BOOLEAN /\ broken \in BOOLEAN
           /\ fate \in [Calls -> Fates] /\ answer \in [Calls -> Int]
           /\ queue \in Seq(Calls) /\ Len(queue) \in Nat
           /\ QueueOK(queue, fate, issued) /\ Unmade /\ (~broken /\ NotRefused => Accounted)
           /\ Discard(a, p) \/ RefuseOutput(a, p) \/ Deliver(a, p)
<1>1. /\ StreamOK /\ QueueOK(queue, fate, issued) /\ Unmade /\ (~broken /\ NotRefused => Accounted)
      /\ broken \in BOOLEAN
  BY DEF SessionInv
<1>2. /\ arrived \in Nat /\ executed \in Nat /\ consumed \in Nat /\ discardFrames \in Nat
      /\ consumed <= arrived /\ arrived <= executed /\ issued \in Nat /\ closed \in BOOLEAN
      /\ fate \in [Calls -> Fates] /\ answer \in [Calls -> Int]
  BY <1>1 DEF StreamOK
<1>3. a \in Nat /\ arrived <= a /\ a <= executed /\ consumed <= a
  BY <1>2
<1>4. queue \in Seq(Calls) /\ Len(queue) \in Nat
  BY <1>1 DEF QueueOK
<1>5. /\ arrived' = a /\ UNCHANGED <<issued, executed, closed>>
      /\ Discard(a, p) \/ RefuseOutput(a, p) \/ Deliver(a, p)
  BY DEF Chunk, engineVars
<1>6. QED
  BY <1>1, <1>2, <1>3, <1>4, <1>5

LEMMA DiscardOK ==
    ASSUME SessionInv, NEW a \in arrived..executed, NEW p, Chunk(a, p), Discard(a, p)
    PROVE  SessionInv'
<1> DEFINE n == Min({discardFrames, a - consumed})
<1>1. /\ a \in Nat /\ a <= executed /\ executed \in Nat /\ arrived' = a
      /\ UNCHANGED <<issued, executed, closed>> /\ issued \in Nat
      /\ closed \in BOOLEAN /\ broken \in BOOLEAN
      /\ consumed \in Nat /\ discardFrames \in Nat /\ consumed <= a
      /\ fate \in [Calls -> Fates] /\ answer \in [Calls -> Int]
      /\ QueueOK(queue, fate, issued) /\ Unmade /\ (~broken /\ NotRefused => Accounted)
  BY ChunkFacts
<1>2. a - consumed \in Nat
  BY <1>1
<1>3. n = IF discardFrames <= a - consumed THEN discardFrames ELSE a - consumed
  BY <1>1, <1>2, MinOfTwo
<1>4. /\ discardFrames > a - consumed /\ consumed' = consumed + n
      /\ discardFrames' = discardFrames - n
      /\ UNCHANGED <<queue, broken, fate, answer>>
  BY DEF Discard, pipeVars
<1> HIDE DEF n
<1>5. n = a - consumed
  BY <1>1, <1>2, <1>3, <1>4
<1>6. /\ consumed' = a /\ discardFrames' \in Nat
      /\ consumed' + discardFrames' = consumed + discardFrames
  BY <1>1, <1>4, <1>5
<1>7. StreamOK'
  BY <1>1, <1>4, <1>6 DEF StreamOK
<1>8. Unmade' /\ (NotRefused' => NotRefused)
  BY <1>1, <1>4 DEF Unmade, NotRefused
<1>9. ~broken /\ NotRefused' => Accounted'
  BY <1>1, <1>4, <1>6, <1>8 DEF Accounted, Aligned
<1>10. QED
  BY <1>1, <1>4, <1>7, <1>8, <1>9 DEF SessionInv, QueueOK

LEMMA RefuseOutputOK ==
    ASSUME SessionInv, NEW a \in arrived..executed, NEW p, Chunk(a, p), RefuseOutput(a, p)
    PROVE  SessionInv'
<1>1. /\ a \in Nat /\ a <= executed /\ executed \in Nat /\ arrived' = a
      /\ UNCHANGED <<issued, executed, closed>> /\ issued \in Nat
      /\ closed \in BOOLEAN /\ broken \in BOOLEAN
      /\ fate \in [Calls -> Fates] /\ answer \in [Calls -> Int]
      /\ queue \in Seq(Calls) /\ Len(queue) \in Nat
      /\ QueueOK(queue, fate, issued) /\ Unmade
  BY ChunkFacts
<1>2. /\ queue # <<>> /\ queue' = Tail(queue) /\ discardFrames' = 1 /\ consumed' = a
      /\ fate' = [c \in Calls |-> IF c \in {Head(queue)} THEN "toolarge" ELSE fate[c]]
      /\ UNCHANGED <<broken, answer>>
  BY DEF RefuseOutput, Reject, pipeVars
<1>3. /\ Len(queue) \in Nat \ {0} /\ Head(queue) = queue[1]
      /\ Tail(queue) = SubSeq(queue, 1 + 1, Len(queue)) /\ 1 \in 0..Len(queue)
      /\ queue[1] \in Calls /\ queue[1] < issued
  BY <1>1, <1>2 DEF QueueOK
<1>4. QueueOK(queue', fate, issued) /\ \A j \in 1..Len(queue') : queue[1] # queue'[j]
  <2> DEFINE rest == SubSeq(queue, 1 + 1, Len(queue))
  <2>1. QueueOK(rest, fate, issued) /\ \A i \in 1..1, j \in 1..Len(rest) : queue[i] # rest[j]
    BY <1>1, <1>3, RestOfQueue
  <2>2. queue' = rest
    BY <1>2, <1>3
  <2> HIDE DEF rest
  <2>3. 1 \in 1..1
    OBVIOUS
  <2>4. QED
    BY <2>1, <2>2, <2>3
<1>5. StreamOK'
  <2>1. fate' \in [Calls -> Fates]
    BY <1>1, <1>2 DEF Fates
  <2>2. QED
    BY <1>1, <1>2, <2>1 DEF StreamOK
<1>6. QueueOK(queue', fate', issued')
  BY <1>1, <1>2, <1>3, <1>4 DEF QueueOK
<1>7. Unmade'
  BY <1>1, <1>2, <1>3, CallsAreInts DEF Unmade
<1>8. ~NotRefused'
  BY <1>2, <1>3 DEF NotRefused
<1>9. QED
  BY <1>2, <1>5, <1>6, <1>7, <1>8 DEF SessionInv, QueueOK

\* Each frame taken out answers the call whose frame it is.
LEMMA DeliverOK ==
    ASSUME SessionInv, NEW a \in arrived..executed, NEW p, Chunk(a, p), Deliver(a, p)
    PROVE  SessionInv'
<1> DEFINE d == consumed + discardFrames
<1> DEFINE n == Min({Len(queue), a - d})
<1> DEFINE rest == SubSeq(queue, n + 1, Len(queue))
<1>1. /\ a \in Nat /\ a <= executed /\ executed \in Nat /\ arrived' = a
      /\ UNCHANGED <<issued, executed, closed>> /\ issued \in Nat
      /\ closed \in BOOLEAN /\ broken \in BOOLEAN
      /\ consumed \in Nat /\ discardFrames \in Nat
      /\ fate \in [Calls -> Fates] /\ answer \in [Calls -> Int]
      /\ queue \in Seq(Calls) /\ Len(queue) \in Nat
      /\ QueueOK(queue, fate, issued) /\ Unmade /\ (~broken /\ NotRefused => Accounted)
  BY ChunkFacts
<1>2. /\ d <= a /\ queue' = rest /\ discardFrames' = 0 /\ consumed' = d + n
      /\ fate' = [c \in Calls |-> IF c \in ToSet(SubSeq(queue, 1, n)) THEN "answered" ELSE fate[c]]
      /\ answer' = [c \in Calls |-> IF \E i \in 1..n : queue[i] = c
                                    THEN d - 1 + (CHOOSE i \in 1..n : queue[i] = c)
                                    ELSE answer[c]]
      /\ UNCHANGED broken
  BY DEF Deliver, pipeVars
<1>3. d \in Nat /\ a - d \in Nat
  BY <1>1, <1>2
<1>4. n = IF Len(queue) <= a - d THEN Len(queue) ELSE a - d
  BY <1>1, <1>3, MinOfTwo
<1>d. d = consumed + discardFrames
  OBVIOUS
<1> HIDE DEF d
<1> HIDE DEF n
<1>5. n \in 0..Len(queue) /\ n \in Nat /\ d + n <= a
  BY <1>1, <1>3, <1>4
<1>6. /\ QueueOK(rest, fate, issued) /\ Len(rest) = Len(queue) - n
      /\ \A k \in Nat : Aligned(queue, k) => Aligned(rest, k + n)
      /\ \A i \in 1..n, j \in 1..Len(rest) : queue[i] # rest[j]
  BY <1>1, <1>5, RestOfQueue
<1> HIDE DEF rest
<1>7. \A c : c \in ToSet(SubSeq(queue, 1, n)) <=> \E i \in 1..n : queue[i] = c
  <2>1. /\ SubSeq(queue, 1, n) \in Seq(Calls) /\ Len(SubSeq(queue, 1, n)) = n
        /\ \A i \in 1..n : SubSeq(queue, 1, n)[i] = queue[i]
    BY <1>1, <1>5
  <2>2. QED
    BY <2>1 DEF ToSet
<1>8. \A i \in 1..n : queue[i] \in Calls /\ queue[i] < issued /\ queue[i] \in Int
  <2>1. \A i \in 1..n : i \in 1..Len(queue) /\ queue[i] \in Calls
    BY <1>1, <1>5
  <2>2. QED
    BY <1>1, <2>1, CallsAreInts DEF QueueOK
<1>9. StreamOK'
  <2>1. fate' \in [Calls -> Fates]
    BY <1>1, <1>2 DEF Fates
  <2>2. answer' \in [Calls -> Int]
    <3>1. ASSUME NEW c \in Calls, \E i \in 1..n : queue[i] = c
          PROVE  (CHOOSE i \in 1..n : queue[i] = c) \in 1..n
      BY <3>1
    <3>2. ASSUME NEW c \in Calls PROVE answer'[c] \in Int
      <4>1. CASE \E i \in 1..n : queue[i] = c
        <5>1. answer'[c] = d - 1 + (CHOOSE i \in 1..n : queue[i] = c)
          BY <1>2, <4>1
        <5>2. QED
          BY <1>3, <1>5, <3>1, <4>1, <5>1
      <4>2. CASE ~(\E i \in 1..n : queue[i] = c)
        BY <1>1, <1>2, <4>2
      <4>3. QED
        BY <4>1, <4>2
    <3>3. answer' = [c \in Calls |-> answer'[c]]
      BY <1>2
    <3>4. QED
      BY <3>2, <3>3
  <2>3. consumed' \in Nat /\ consumed' <= arrived' /\ discardFrames' \in Nat
    BY <1>1, <1>2, <1>3, <1>5
  <2>4. QED
    BY <1>1, <1>2, <2>1, <2>2, <2>3 DEF StreamOK
<1>10. QueueOK(queue', fate', issued')
  <2>1. \A j \in 1..Len(rest) : ~(\E i \in 1..n : queue[i] = rest[j])
    BY <1>6
  <2>2. \A j \in 1..Len(rest) : rest[j] \in Calls
    BY <1>6 DEF QueueOK
  <2>3. \A j \in 1..Len(rest) : fate'[rest[j]] = fate[rest[j]]
    BY <1>2, <1>7, <2>1, <2>2
  <2>4. QED
    BY <1>1, <1>2, <1>6, <2>3 DEF QueueOK
<1>11. Unmade'
  <2>1. ASSUME NEW c \in Calls, c >= issued PROVE fate'[c] = "none"
    <3>1. ~(\E i \in 1..n : queue[i] = c)
      BY <1>1, <1>8, <2>1, CallsAreInts
    <3>2. QED
      BY <1>1, <1>2, <1>7, <2>1, <3>1 DEF Unmade
  <2>2. QED
    BY <1>1, <2>1 DEF Unmade
<1>12. NotRefused' => NotRefused
  <2>1. ASSUME NEW c \in Calls, fate[c] = "toolarge" PROVE fate'[c] = "toolarge"
    <3>1. ~(\E i \in 1..n : queue[i] = c)
      <4>1. \A i \in 1..n : i \in 1..Len(queue)
        BY <1>1, <1>5
      <4>2. \A i \in 1..Len(queue) : fate[queue[i]] = "waiting"
        BY <1>1 DEF QueueOK
      <4>3. QED
        BY <2>1, <4>1, <4>2
    <3>2. QED
      BY <1>2, <1>7, <2>1, <3>1
  <2>2. QED
    BY <2>1 DEF NotRefused
<1>13. ASSUME ~broken, NotRefused' PROVE Accounted'
  <2>1. Accounted
    BY <1>1, <1>12, <1>13
  <2>2. consumed' + discardFrames' = d + n
    BY <1>1, <1>2, <1>3, <1>5
  <2>3. Aligned(queue, d)
    BY <2>1, <1>d DEF Accounted
  <2>4. Aligned(queue', consumed' + discardFrames')
    BY <1>2, <1>3, <1>6, <2>2, <2>3
  <2>5. ~closed' => issued' = consumed' + discardFrames' + Len(queue')
    <3>1. ~closed => issued = d + Len(queue)
      BY <2>1, <1>d DEF Accounted
    <3>2. QED
      BY <1>1, <1>2, <1>3, <1>5, <1>6, <2>2, <3>1
  <2>6. ASSUME NEW c \in Calls, fate'[c] = "answered" PROVE answer'[c] = c
    <3>1. CASE \E i \in 1..n : queue[i] = c
      <4> DEFINE k == CHOOSE i \in 1..n : queue[i] = c
      <4>1. k \in 1..n /\ queue[k] = c
        BY <3>1
      <4>2. answer'[c] = d - 1 + k
        BY <1>2, <3>1
      <4> HIDE DEF k
      <4>3. k \in 1..Len(queue)
        BY <1>1, <1>5, <4>1
      <4>4. queue[k] = d + k - 1
        BY <2>3, <4>3 DEF Aligned
      <4>5. QED
        BY <1>3, <4>1, <4>2, <4>3, <4>4
    <3>2. CASE ~(\E i \in 1..n : queue[i] = c)
      <4>1. answer'[c] = answer[c] /\ fate'[c] = fate[c]
        BY <1>2, <1>7, <3>2
      <4>2. QED
        BY <2>1, <2>6, <4>1 DEF Accounted
    <3>3. QED
      BY <3>1, <3>2
  <2>7. QED
    BY <2>4, <2>5, <2>6 DEF Accounted, Aligned
<1>14. QED
  BY <1>2, <1>9, <1>10, <1>11, <1>13 DEF SessionInv, QueueOK

-----------------------------------------------------------------------------
(* The theorems *)

LEMMA SessionStep == SessionInv /\ [Next]_vars => SessionInv'
<1> SUFFICES ASSUME SessionInv, [Next]_vars PROVE SessionInv'
  OBVIOUS
<1>1. CASE Command
  BY <1>1, CommandOK
<1>2. CASE CommandClosed
  BY <1>2, CommandClosedOK
<1>3. CASE Timeout
  BY <1>3, TimeoutOK
<1>4. CASE ExitEvent
  BY <1>4, ExitEventOK
<1>5. CASE Execute \/ EngineExit \/ Drain \/ Close \/ UnheardError
  BY <1>5, ElsewhereOK
<1>6. CASE WriteError
  BY <1>6, WriteErrorOK
<1>7. CASE Data
  <2>1. PICK a \in arrived..executed, p \in 0..Max({Size[c] : c \in Calls}) : Chunk(a, p)
    BY <1>7 DEF Data
  <2>2. Discard(a, p) \/ RefuseOutput(a, p) \/ Deliver(a, p)
    BY <2>1 DEF Chunk
  <2>3. CASE Discard(a, p)
    BY <2>1, <2>3, DiscardOK
  <2>4. CASE RefuseOutput(a, p)
    BY <2>1, <2>4, RefuseOutputOK
  <2>5. CASE Deliver(a, p)
    BY <2>1, <2>5, DeliverOK
  <2>6. QED
    BY <2>2, <2>3, <2>4, <2>5
<1>8. CASE UNCHANGED vars
  <2>1. UNCHANGED <<issued, executed, arrived, consumed, queue, discardFrames, closed,
                    broken, fate, answer>>
    BY <1>8 DEF vars, engineVars, bufVars, pipeVars
  <2>2. QED
    BY <2>1 DEF SessionInv, StreamOK, QueueOK, Unmade, NotRefused, Accounted, Aligned
<1>9. QED
  BY <1>1, <1>2, <1>3, <1>4, <1>5, <1>6, <1>7, <1>8 DEF Next

LEMMA SessionAlways == Spec => []SessionInv
BY SessionInit, SessionStep, PTL DEF Spec

\* Every answer is the output of the call that is given it, as long as no
\* output is refused for its size and the pipe holds, whatever timed out
\* before and however the stream was cut (asmdb.js:102-141).
THEOREM OwnAnswers == Spec => []OwnAnswer
<1>1. SessionInv => OwnAnswer
  BY DEF SessionInv, OwnAnswer, Sound, Refused, NotRefused, Accounted
<1>2. QED
  BY <1>1, SessionAlways, PTL

\* The waiting calls are those whose frames come next, once the frames owed to
\* abandoned calls are past: no call is skipped (asmdb.js:106-141).
THEOREM SessionInStep == Spec => []InStep
<1>1. SessionInv => InStep
  BY DEF SessionInv, InStep, Sound, Refused, NotRefused, Accounted, Aligned
<1>2. QED
  BY <1>1, SessionAlways, PTL

-----------------------------------------------------------------------------
(* The promise to the tools *)

LEMMA SoundIs == Sound <=> ~broken /\ NotRefused
BY DEF Sound, Refused, NotRefused

LEMMA OutcomeIs ==
    /\ Outcome = [c \in Calls |-> Outcome[c]]
    /\ \A c \in Calls :
         /\ fate[c] \in {"none", "waiting"} => Outcome[c] = fate[c]
         /\ fate[c] = "answered" =>
              Outcome[c] = IF answer[c] = c THEN "answered" ELSE "misanswered"
         /\ fate[c] \notin {"none", "waiting", "answered"} => Outcome[c] = "failed"
BY DEF Outcome

\* Calls that end, while the session can be trusted and afterwards.
LEMMA EndsPromised ==
    ASSUME UNCHANGED <<issued, executed>>, Sound' => Sound,
           \A c \in Calls : fate[c] = "waiting" \/ (fate'[c] = fate[c] /\ answer'[c] = answer[c]),
           Sound => \A c \in Calls : /\ fate'[c] = "answered" => answer'[c] = c
                                     /\ fate[c] = "waiting" /\ fate'[c] = "answered" => c < executed
    PROVE  Promise!CallNext
<1>1. \A c \in Calls : Outcome'[c] # Outcome[c] => Outcome[c] = "waiting"
  <2> SUFFICES ASSUME NEW c \in Calls, fate[c] # "waiting" PROVE Outcome'[c] = Outcome[c]
    BY OutcomeIs
  <2>1. QED
    BY DEF Outcome
<1>2. /\ Outcome' = [c \in Calls |-> Outcome'[c]]
      /\ \A c \in Calls :
           /\ Outcome'[c] \in {"none", "waiting", "answered", "misanswered", "failed"}
           /\ Outcome'[c] \in {"answered", "misanswered"} => fate'[c] = "answered"
           /\ Outcome'[c] = "misanswered" => answer'[c] # c
  BY DEF Outcome
<1>3. CASE ~Sound
  <2>1. Outcome' \in [Calls -> {"none", "waiting", "answered", "misanswered", "failed"}]
    BY <1>2
  <2>2. Promise!Untrusted
    BY <1>1, <1>3, <2>1 DEF Promise!Untrusted, Promise!Calls, Calls, Sound
  <2>3. QED
    BY <2>2 DEF Promise!CallNext
<1>4. CASE Sound
  <2>1. Outcome' \in [Calls -> {"none", "waiting", "answered", "failed"}]
    BY <1>2, <1>4
  <2>2. ASSUME NEW c \in Calls, Outcome'[c] # Outcome[c]
        PROVE  Outcome[c] = "waiting" /\ (Outcome'[c] = "answered" => c < executed)
    <3>1. Outcome[c] = "waiting"
      BY <1>1, <2>2
    <3>2. fate[c] = "waiting"
      BY <3>1 DEF Outcome
    <3>3. QED
      BY <1>2, <1>4, <3>1, <3>2
  <2>3. Promise!Ends
    BY <2>1, <2>2 DEF Promise!Ends, Promise!Calls, Calls
  <2>4. CASE Sound'
    <3>1. Promise!End
      BY <1>4, <2>3, <2>4 DEF Promise!End, Sound
    <3>2. QED
      BY <3>1 DEF Promise!CallNext
  <2>5. CASE ~Sound'
    <3>1. Promise!Distrust
      BY <2>3, <2>5 DEF Promise!Distrust
    <3>2. QED
      BY <3>1 DEF Promise!CallNext
  <2>6. QED
    BY <2>4, <2>5
<1>5. QED
  BY <1>3, <1>4

\* A call is made.
LEMMA AskPromised ==
    ASSUME SessionInv, Command \/ CommandClosed
    PROVE  Promise!CallNext
<1>1. PICK o \in {"waiting", "closed"} :
        /\ issued <= MaxCommands /\ issued' = issued + 1
        /\ fate' = [fate EXCEPT ![issued] = o]
        /\ UNCHANGED <<broken, executed, answer>>
  BY DEF Command, CommandClosed, engineVars, pipeVars
<1>2. /\ issued \in Calls /\ fate \in [Calls -> Fates] /\ fate[issued] = "none"
      /\ Promise!Calls = Calls
  BY <1>1, SizeAssumption, CallsAreInts DEF SessionInv, StreamOK, Unmade, Calls, Promise!Calls
<1>3. fate'[issued] = o /\ \A c \in Calls : c # issued => fate'[c] = fate[c]
  BY <1>1, <1>2
<1>4. Sound' <=> Sound
  BY <1>1, <1>2, <1>3 DEF Sound, Refused
<1> DEFINE p == IF o = "waiting" THEN "waiting" ELSE "failed"
<1>5. Outcome' = [Outcome EXCEPT ![issued] = p]
  <2>1. Outcome'[issued] = p
    BY <1>2, <1>3 DEF Outcome
  <2>2. \A c \in Calls : c # issued => Outcome'[c] = Outcome[c]
    BY <1>1, <1>3 DEF Outcome
  <2>3. Outcome' = [c \in Calls |-> Outcome'[c]] /\ Outcome = [c \in Calls |-> Outcome[c]]
    BY DEF Outcome
  <2> HIDE DEF p
  <2>4. QED
    BY <1>2, <2>1, <2>2, <2>3
<1>6. Promise!Ask
  <2>1. p \in {"waiting", "failed"}
    OBVIOUS
  <2>2. Sound' = Sound
    BY <1>4 DEF Sound
  <2> HIDE DEF p
  <2>3. QED
    BY <1>1, <1>5, <2>1, <2>2 DEF Promise!Ask
<1>7. QED
  BY <1>6 DEF Promise!CallNext

LEMMA RejectedPromised ==
    ASSUME SessionInv, Timeout \/ ExitEvent \/ WriteError \/ UnheardError
    PROVE  Promise!CallNext
<1>1. /\ UNCHANGED <<issued, executed, answer>> /\ broken' \in {broken, TRUE}
      /\ QueueOK(queue, fate, issued) /\ fate \in [Calls -> Fates] /\ (Sound => Accounted)
  BY SoundIs DEF Timeout, ExitEvent, WriteError, UnheardError, engineVars, pipeVars, SessionInv, StreamOK
<1>2. PICK S, why : /\ \A c \in S : fate[c] = "waiting"
                    /\ why \in {"timeout", "exited", "write"}
                    /\ fate' = [c \in Calls |-> IF c \in S THEN why ELSE fate[c]]
  <2>1. CASE Timeout
    <3>1. \A c \in {Head(queue)} : fate[c] = "waiting"
      BY <2>1 DEF Timeout, SessionInv, QueueOK
    <3>2. QED
      BY <2>1, <3>1 DEF Timeout, Reject
  <2>2. CASE ExitEvent
    <3>1. \A c \in ToSet(queue) : fate[c] = "waiting"
      BY DEF SessionInv, QueueOK, ToSet
    <3>2. QED
      BY <2>2, <3>1 DEF ExitEvent, Reject
  <2>3. CASE WriteError
    <3> DEFINE S == {c \in draining : fate[c] = "waiting"}
    <3>1. \A c \in S : fate[c] = "waiting"
      OBVIOUS
    <3>2. fate' = [c \in Calls |-> IF c \in S THEN "write" ELSE fate[c]]
      BY <2>3 DEF WriteError
    <3> HIDE DEF S
    <3>3. QED
      BY <3>1, <3>2
  <2>4. CASE UnheardError
    <3> DEFINE S == {}
    <3>1. \A c \in S : fate[c] = "waiting"
      OBVIOUS
    <3>2. fate' = [c \in Calls |-> IF c \in S THEN "write" ELSE fate[c]]
      BY <1>1, <2>4 DEF UnheardError
    <3> HIDE DEF S
    <3>3. QED
      BY <3>1, <3>2
  <2>5. QED
    BY <2>1, <2>2, <2>3, <2>4
<1>3. Sound' => Sound
  BY <1>1, <1>2 DEF Sound, Refused
<1>4. QED
  BY <1>1, <1>2, <1>3, EndsPromised DEF Accounted

LEMMA DataPromised ==
    ASSUME SessionInv, SessionInv', Data
    PROVE  Promise!CallNext \/ UNCHANGED Promise!callVars
<1>1. PICK a \in arrived..executed, p \in 0..Max({Size[c] : c \in Calls}) : Chunk(a, p)
  BY DEF Data
<1>2. /\ a \in Nat /\ a <= executed /\ executed \in Nat /\ UNCHANGED <<issued, executed>>
      /\ consumed \in Nat /\ discardFrames \in Nat /\ queue \in Seq(Calls) /\ Len(queue) \in Nat
      /\ QueueOK(queue, fate, issued)
      /\ Discard(a, p) \/ RefuseOutput(a, p) \/ Deliver(a, p)
  BY <1>1, ChunkFacts
<1>3. CASE Discard(a, p)
  <2>1. UNCHANGED <<fate, answer, broken>>
    BY <1>3 DEF Discard, pipeVars
  <2>2. Outcome' = Outcome /\ Sound' = Sound
    BY <2>1 DEF Outcome, Sound, Refused
  <2>3. QED
    BY <1>2, <2>2 DEF Promise!callVars
<1>4. CASE RefuseOutput(a, p)
  <2>1. /\ fate' = [c \in Calls |-> IF c = Head(queue) THEN "toolarge" ELSE fate[c]]
        /\ UNCHANGED <<answer, broken>>
    BY <1>4 DEF RefuseOutput, Reject, pipeVars
  <2>2. fate[Head(queue)] = "waiting"
    BY <1>2, <1>4 DEF RefuseOutput, QueueOK
  <2>3. Sound' => Sound
    BY <2>1, <2>2 DEF Sound, Refused
  <2>4. Sound => Accounted
    BY SoundIs DEF SessionInv
  <2>5. QED
    BY <1>2, <2>1, <2>2, <2>3, <2>4, EndsPromised DEF Accounted
<1>5. CASE Deliver(a, p)
  <2> DEFINE d == consumed + discardFrames
             n == Min({Len(queue), a - d})
  <2>1. /\ d <= a
        /\ fate' = [c \in Calls |->
                      IF c \in ToSet(SubSeq(queue, 1, n)) THEN "answered" ELSE fate[c]]
        /\ \A c \in Calls : (~\E i \in 1..n : queue[i] = c) => answer'[c] = answer[c]
        /\ UNCHANGED broken
    <3>1. /\ d <= a
          /\ fate' = [c \in Calls |->
                        IF c \in ToSet(SubSeq(queue, 1, n)) THEN "answered" ELSE fate[c]]
          /\ answer' = [c \in Calls |-> IF \E i \in 1..n : queue[i] = c
                                        THEN d - 1 + (CHOOSE i \in 1..n : queue[i] = c)
                                        ELSE answer[c]]
          /\ UNCHANGED broken
      BY <1>5 DEF Deliver, pipeVars
    <3> HIDE DEF d, n
    <3>2. QED
      BY <3>1
  <2>2. d \in Nat /\ a - d \in Nat
    BY <1>2, <2>1
  <2>3. n = IF Len(queue) <= a - d THEN Len(queue) ELSE a - d
    BY <1>2, <2>2, MinOfTwo
  <2>d. d = consumed + discardFrames
    OBVIOUS
  <2> HIDE DEF d, n
  <2>4. n \in 0..Len(queue) /\ d + n <= a
    BY <1>2, <2>2, <2>3
  <2>5. \A c : c \in ToSet(SubSeq(queue, 1, n)) <=> \E i \in 1..n : queue[i] = c
    <3>1. /\ SubSeq(queue, 1, n) \in Seq(Calls) /\ Len(SubSeq(queue, 1, n)) = n
          /\ \A i \in 1..n : SubSeq(queue, 1, n)[i] = queue[i]
      BY <1>2, <2>4
    <3>2. QED
      BY <3>1 DEF ToSet
  <2>6. \A i \in 1..n : i \in 1..Len(queue) /\ fate[queue[i]] = "waiting"
    BY <1>2, <2>4 DEF QueueOK
  <2>7. \A c \in Calls : fate[c] = "waiting" \/ (fate'[c] = fate[c] /\ answer'[c] = answer[c])
    BY <2>1, <2>5, <2>6
  <2>8. Sound' => Sound
    BY <2>1, <2>5, <2>6 DEF Sound, Refused
  <2>9. ASSUME Sound PROVE Accounted /\ Accounted'
    <3>1. Sound'
      BY <2>1, <2>9 DEF Sound, Refused
    <3>2. NotRefused' /\ ~broken'
      BY <3>1 DEF Sound, Refused, NotRefused
    <3>3. QED
      BY <2>9, <3>2, SoundIs DEF SessionInv
  <2>10. ASSUME Sound, NEW c \in Calls, fate[c] = "waiting", fate'[c] = "answered"
         PROVE  c < executed
    <3>1. PICK i \in 1..n : queue[i] = c
      BY <2>1, <2>5, <2>10
    <3>2. i \in 1..Len(queue) /\ Aligned(queue, d)
      BY <2>6, <2>9, <2>10, <2>d DEF Accounted
    <3>3. c = d + i - 1
      BY <3>1, <3>2 DEF Aligned
    <3>4. QED
      BY <1>2, <2>2, <2>4, <3>1, <3>3
  <2>11. QED
    BY <1>2, <2>7, <2>8, <2>9, <2>10, EndsPromised DEF Accounted
<1>6. QED
  BY <1>2, <1>3, <1>4, <1>5

\* What the tools rely on (McpCalls): lines run in the order of their calls, a call
\* ends once, with its own output of a line that was run or with an error; after an
\* output was refused or the pipe broke, only that it ends once (asmdb.js:60-181).
THEOREM PromiseKept == Spec => KeepsPromise
<1>1. Init => Promise!CallInit
  <2> SUFFICES ASSUME Init PROVE Promise!CallInit
    OBVIOUS
  <2>1. /\ issued = 1 /\ executed = 0 /\ ~broken
        /\ fate = [c \in Calls |-> IF c = 0 THEN "waiting" ELSE "none"]
    BY DEF Init
  <2>2. Sound = TRUE
    BY <2>1 DEF Sound, Refused
  <2>3. Outcome = [c \in Calls |-> IF c = 0 THEN "waiting" ELSE "none"]
    BY <2>1 DEF Outcome
  <2>4. QED
    BY <2>1, <2>2, <2>3 DEF Promise!CallInit, Promise!Calls, Calls
<1>2. SessionInv /\ SessionInv' /\ [Next]_vars => [Promise!CallNext]_(Promise!callVars)
  <2> SUFFICES ASSUME SessionInv, SessionInv', [Next]_vars
               PROVE  Promise!CallNext \/ UNCHANGED Promise!callVars
    OBVIOUS
  <2>1. CASE Command \/ CommandClosed
    BY <2>1, AskPromised
  <2>2. CASE Timeout \/ ExitEvent \/ WriteError \/ UnheardError
    BY <2>2, RejectedPromised
  <2>3. CASE Data
    BY <2>3, DataPromised
  <2>4. CASE Execute
    <3>1. /\ executed < issued /\ executed' = executed + 1 /\ issued' = issued
          /\ Outcome' = Outcome /\ Sound' = Sound
      BY <2>4 DEF Execute, pipeVars, Outcome, Sound, Refused
    <3>2. QED
      BY <3>1 DEF Promise!CallNext, Promise!Run
  <2>5. CASE EngineExit \/ Drain \/ Close \/ UNCHANGED vars
    <3>1. UNCHANGED <<issued, executed, fate, answer, broken>>
      BY <2>5 DEF EngineExit, Drain, Close, vars, engineVars, pipeVars
    <3>2. Outcome' = Outcome /\ Sound' = Sound
      BY <3>1 DEF Outcome, Sound, Refused
    <3>3. QED
      BY <3>1, <3>2 DEF Promise!callVars
  <2>6. QED
    BY <2>1, <2>2, <2>3, <2>4, <2>5 DEF Next
<1>3. QED
  BY <1>1, <1>2, SessionAlways, PTL DEF Spec, KeepsPromise, Promise!CallSpec
=============================================================================
