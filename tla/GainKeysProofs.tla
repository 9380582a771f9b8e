--------------------------- MODULE GainKeysProofs ---------------------------
(***************************************************************************)
(* GainFollowsKeys, for any bytes cut into reads of any length.  Consume   *)
(* and LevelAfter are recursive, so the proof needs that such definitions   *)
(* define something, and induction over the number of bytes.               *)
(***************************************************************************)
EXTENDS GainKeys, FiniteSetTheorems, TLAPS

-----------------------------------------------------------------------------
\* Induction over the natural numbers and definition by recursion, as facts
\* about sets and functions.

\* A set that has 0 and every successor of its members has all naturals.  If it
\* lacked m, the naturals below its first gap would be finitely many and have
\* their successors among them, and so each be a successor: but 0 is none.
LEMMA InductiveSet ==
    ASSUME NEW T, 0 \in T, \A n \in Nat : n \in T => n + 1 \in T
    PROVE  Nat \subseteq T
<1> SUFFICES ASSUME NEW m \in Nat, m \notin T PROVE FALSE
  OBVIOUS
<1> DEFINE Start == {n \in Nat : \A k \in 0 .. n : k \in T}
           next == [n \in Start |-> n + 1]
<1>1. \A n \in Start : n <= m
  OBVIOUS
<1>2. IsFiniteSet(Start)
  <2> HIDE DEF Start
  <2>1. Start \in SUBSET Nat
    BY DEF Start
  <2> QED
    BY <1>1, <2>1, FS_BoundedSetOfNaturals
<1>3. ASSUME NEW n \in Start PROVE n + 1 \in Start
  <2>1. n \in Nat /\ \A k \in 0 .. n : k \in T
    OBVIOUS
  <2>2. n + 1 \in T
    BY <2>1
  <2>3. \A k \in 0 .. n + 1 : k \in T
    BY <2>1, <2>2
  <2> QED
    BY <2>1, <2>3
<1>4. next \in Injection(Start, Start)
  <2>1. next \in [Start -> Start]
    BY <1>3
  <2>2. \A a, b \in Start : next[a] = next[b] => a = b
    OBVIOUS
  <2> QED
    BY <2>1, <2>2 DEF Injection, IsInjective
<1>5. next \in Surjection(Start, Start)
  <2> HIDE DEF next, Start
  <2> QED
    BY <1>2, <1>4, FS_Injection
<1>6. 0 \in Start
  OBVIOUS
<1>7. PICK n \in Start : next[n] = 0
  BY <1>5, <1>6 DEF Surjection
<1> QED
  BY <1>7

\* What defines a function from S to V by its value at the next argument: the
\* next argument is smaller, unless the recursion stops.
Recursion(S, V, size, Stop, base, next, combine) ==
    /\ size \in [S -> Nat] /\ Stop \subseteq S
    /\ base \in [S -> V] /\ next \in [S -> S] /\ combine \in [S \X V -> V]
    /\ \A s \in S : s \notin Stop => size[next[s]] < size[s]

\* There is a function that such a recursion defines.  For every bound on the
\* size there is one that is right up to it, and any two of them agree there.
LEMMA RecursionExists ==
    ASSUME NEW S, NEW V, NEW size, NEW Stop, NEW base, NEW next, NEW combine,
           Recursion(S, V, size, Stop, base, next, combine)
    PROVE  \E f \in [S -> V] :
              \A s \in S : f[s] = IF s \in Stop THEN base[s] ELSE combine[<<s, f[next[s]]>>]
<1> USE DEF Recursion
<1> DEFINE At(f, s) == IF s \in Stop THEN base[s] ELSE combine[<<s, f[next[s]]>>]
           Good(f, n) == \A s \in S : size[s] <= n => f[s] = At(f, s)
           Upto == {n \in Nat : \E f \in [S -> V] : Good(f, n)}
           Same == {n \in Nat : \A f, g \in [S -> V] :
                        Good(f, n) /\ Good(g, n) => \A s \in S : size[s] <= n => f[s] = g[s]}
<1>a. \A f \in [S -> V], s \in S : At(f, s) \in V
  OBVIOUS
<1>b. \A s \in S : s \notin Stop => size[s] > 0 /\ size[next[s]] < size[s] /\ size[s] \in Nat /\ next[s] \in S
  OBVIOUS
<1>1. Nat \subseteq Upto
  <2>1. 0 \in Upto
    <3>1. Good(base, 0)
      BY <1>b
    <3> QED
      BY <3>1
  <2>2. ASSUME NEW n \in Nat, n \in Upto PROVE n + 1 \in Upto
    <3>1. PICK f \in [S -> V] : Good(f, n)
      BY <2>2
    <3> DEFINE g == [s \in S |-> IF size[s] <= n THEN f[s] ELSE At(f, s)]
    <3>2. g \in [S -> V]
      BY <1>a
    <3>3. ASSUME NEW s \in S, size[s] <= n + 1 PROVE g[s] = At(g, s)
      <4>1. g[s] = At(f, s)
        BY <3>1
      <4>2. s \notin Stop => g[next[s]] = f[next[s]]
        BY <1>b, <3>3
      <4> QED
        BY <4>1, <4>2
    <3>4. Good(g, n + 1)
      BY <3>3
    <3> HIDE DEF g, Good
    <3> QED
      BY <3>2, <3>4
  <2> HIDE DEF Upto
  <2> QED
    BY <2>1, <2>2, InductiveSet
<1>2. Nat \subseteq Same
  <2>1. 0 \in Same
    <3> SUFFICES ASSUME NEW f \in [S -> V], NEW g \in [S -> V], Good(f, 0), Good(g, 0),
                        NEW s \in S, size[s] <= 0
                 PROVE  f[s] = g[s]
      OBVIOUS
    <3>1. s \in Stop
      BY <1>b
    <3> QED
      BY <3>1
  <2>2. ASSUME NEW n \in Nat, n \in Same PROVE n + 1 \in Same
    <3> SUFFICES ASSUME NEW f \in [S -> V], NEW g \in [S -> V], Good(f, n + 1), Good(g, n + 1),
                        NEW s \in S, size[s] <= n + 1
                 PROVE  f[s] = g[s]
      OBVIOUS
    <3>1. Good(f, n) /\ Good(g, n)
      OBVIOUS
    <3>2. \A t \in S : size[t] <= n => f[t] = g[t]
      BY <2>2, <3>1
    <3>3. s \notin Stop => f[next[s]] = g[next[s]]
      BY <1>b, <3>2
    <3> QED
      BY <3>3
  <2> HIDE DEF Same
  <2> QED
    BY <2>1, <2>2, InductiveSet
<1> DEFINE part(n) == CHOOSE f \in [S -> V] : Good(f, n)
           whole == [s \in S |-> part(size[s])[s]]
<1>3. \A n \in Nat : part(n) \in [S -> V] /\ Good(part(n), n)
  <2> HIDE DEF Good
  <2> QED
    BY <1>1
<1>4. whole \in [S -> V]
  <2> HIDE DEF part
  <2> QED
    BY <1>3
<1>5. ASSUME NEW s \in S PROVE whole[s] = At(whole, s)
  <2> DEFINE f == part(size[s])
  <2>1. f \in [S -> V] /\ Good(f, size[s])
    <3>1. size[s] \in Nat
      OBVIOUS
    <3> HIDE DEF part, Good
    <3> QED
      BY <1>3, <3>1
  <2> HIDE DEF f
  <2>2. f[s] = At(f, s)
    BY <2>1
  <2>3. ASSUME s \notin Stop PROVE f[next[s]] = whole[next[s]]
    <3> DEFINE t == next[s]
               g == part(size[t])
    <3>1. t \in S /\ size[t] \in Nat /\ size[t] <= size[s]
      BY <1>b, <2>3
    <3>2. g \in [S -> V] /\ Good(g, size[t])
      BY <1>3, <3>1
    <3>3. Good(f, size[t])
      BY <2>1, <3>1
    <3>4. whole[t] = g[t]
      BY <3>1
    <3>5. size[t] \in Same
      BY <1>2, <3>1
    <3> HIDE DEF t, g
    <3>6. f[t] = g[t]
      BY <2>1, <3>1, <3>2, <3>3, <3>5
    <3> QED
      BY <3>4, <3>6 DEF t
  <2>4. whole[s] = f[s]
    BY DEF f
  <2> HIDE DEF whole
  <2> QED
    BY <2>2, <2>3, <2>4
<1> HIDE DEF whole
<1> QED
  BY <1>4, <1>5

-----------------------------------------------------------------------------
\* The gain stays between its limits.
LEMMA AdjustType ==
    ASSUME NEW level \in Int, NEW delta \in Int
    PROVE  adjust(level, delta) \in MIN_GAIN_DECIBELS .. MAX_GAIN_DECIBELS
<1>1. \A a, b \in Int : Min({a, b}) = IF a <= b THEN a ELSE b
  BY DEF Min
<1>2. \A a, b \in Int : Max({a, b}) = IF a >= b THEN a ELSE b
  BY DEF Max
<1> QED
  BY <1>1, <1>2, LimitsAssumption DEF adjust

\* A key sequence is three bytes of which only the first is an escape, so that
\* no sequence can begin within another.
LEMMA StepsType ==
    ASSUME NEW keys \in DOMAIN Steps
    PROVE  /\ Steps[keys] \in Int
           /\ keys \in Seq(Bytes) /\ Len(keys) = 3 /\ keys[1] = Esc /\ keys[2] # Esc /\ keys[3] # Esc
<1>1. keys \in {UpSequence, DownSequence}
  BY DEF Steps
<1>2. Steps[keys] \in {GAIN_STEP_DECIBELS, -GAIN_STEP_DECIBELS}
  BY <1>1 DEF Steps
<1>3. Steps[keys] \in Int
  BY <1>2, LimitsAssumption
<1>4. UpSequence \in Seq(Bytes) /\ Len(UpSequence) = 3 /\ UpSequence[1] = Esc /\ UpSequence[2] # Esc /\ UpSequence[3] # Esc
  BY BytesAssumption DEF UpSequence
<1>5. DownSequence \in Seq(Bytes) /\ Len(DownSequence) = 3 /\ DownSequence[1] = Esc /\ DownSequence[2] # Esc /\ DownSequence[3] # Esc
  BY BytesAssumption DEF DownSequence
<1> QED
  BY <1>1, <1>3, <1>4, <1>5

\* What Consume tells apart, by names of their own.
IsKey(bytes) == bytes[1] = Esc /\ SubSeq(bytes, 1, 3) \in DOMAIN Steps
Stops(bytes) == bytes = <<>> \/ (bytes[1] = Esc /\ Len(bytes) < 3)
Rest(bytes)  == SubSeq(bytes, 4, Len(bytes))

\* Consume is what its definition says: each turn of its loop leaves fewer bytes.
LEMMA ConsumeIs ==
    ASSUME NEW bytes \in Seq(Bytes), NEW level \in Int
    PROVE  Consume[<<bytes, level>>] =
              IF Stops(bytes) THEN [left |-> bytes, decibels |-> level]
              ELSE IF IsKey(bytes)
              THEN Consume[<<Rest(bytes), adjust(level, Steps[SubSeq(bytes, 1, 3)])>>]
              ELSE Consume[<<Tail(bytes), level>>]
<1> DEFINE S == Seq(Bytes) \X Int
           V == [left : Seq(Bytes), decibels : Int]
           Stop == {s \in S : Stops(s[1])}
           size == [s \in S |-> Len(s[1])]
           base == [s \in S |-> [left |-> s[1], decibels |-> s[2]]]
           next == [s \in S |-> IF Stops(s[1]) THEN s
                                ELSE IF IsKey(s[1]) THEN <<Rest(s[1]), adjust(s[2], Steps[SubSeq(s[1], 1, 3)])>>
                                ELSE <<Tail(s[1]), s[2]>>]
           combine == [p \in S \X V |-> p[2]]
           Body(f) == [s \in S |->
              IF Stops(s[1]) THEN [left |-> s[1], decibels |-> s[2]]
              ELSE IF IsKey(s[1]) THEN f[<<Rest(s[1]), adjust(s[2], Steps[SubSeq(s[1], 1, 3)])>>]
              ELSE f[<<Tail(s[1]), s[2]>>]]
<1>1. \E f : f = Body(f)
  <2>1. size \in [S -> Nat] /\ Stop \in SUBSET S /\ base \in [S -> V] /\ combine \in [S \X V -> V]
    OBVIOUS
  <2>2. ASSUME NEW s \in S, s \notin Stop
        PROVE  next[s] \in S /\ size[next[s]] < size[s]
    <3>1. s[1] \in Seq(Bytes) /\ s[2] \in Int /\ ~Stops(s[1]) /\ s[1] # <<>>
      BY <2>2 DEF Stops
    <3>2. CASE IsKey(s[1])
      <4>1. adjust(s[2], Steps[SubSeq(s[1], 1, 3)]) \in Int
        BY <3>1, <3>2, AdjustType, StepsType, LimitsAssumption DEF IsKey
      <4>2. Rest(s[1]) \in Seq(Bytes) /\ Len(Rest(s[1])) < Len(s[1])
        BY <3>1 DEF Rest
      <4>3. next[s] = <<Rest(s[1]), adjust(s[2], Steps[SubSeq(s[1], 1, 3)])>>
        BY <3>1, <3>2
      <4> HIDE DEF next
      <4> QED
        BY <4>1, <4>2, <4>3
    <3>3. CASE ~IsKey(s[1])
      <4>1. Tail(s[1]) \in Seq(Bytes) /\ Len(Tail(s[1])) < Len(s[1])
        BY <3>1
      <4>2. next[s] = <<Tail(s[1]), s[2]>>
        BY <3>1, <3>3
      <4>3. <<Tail(s[1]), s[2]>> \in S /\ size[<<Tail(s[1]), s[2]>>] = Len(Tail(s[1]))
        BY <3>1, <4>1
      <4>4. size[s] = Len(s[1])
        OBVIOUS
      <4> HIDE DEF next, size, S
      <4> QED
        BY <4>1, <4>2, <4>3, <4>4
    <3> QED
      BY <3>2, <3>3
  <2>3. next \in [S -> S]
    <3>1. \A s \in S : s \in Stop => next[s] = s
      OBVIOUS
    <3>2. next = [s \in S |-> next[s]]
      OBVIOUS
    <3> HIDE DEF next, Stop, S
    <3> QED
      BY <2>2, <3>1, <3>2
  <2>4. PICK f \in [S -> V] : \A s \in S : f[s] = IF s \in Stop THEN base[s] ELSE combine[<<s, f[next[s]]>>]
    <3> HIDE DEF S, V, Stop, size, base, next, combine
    <3>1. Recursion(S, V, size, Stop, base, next, combine)
      BY <2>1, <2>2, <2>3 DEF Recursion
    <3> QED
      BY <3>1, RecursionExists
  <2>5. \A s \in S : f[s] = Body(f)[s]
    <3> SUFFICES ASSUME NEW s \in S PROVE f[s] = Body(f)[s]
      OBVIOUS
    <3>1. f[next[s]] \in V
      <4> HIDE DEF S, V, next
      <4> QED
        BY <2>3, <2>4
    <3>2. combine[<<s, f[next[s]]>>] = f[next[s]]
      <4> HIDE DEF S, V, next
      <4> QED
        BY <3>1
    <3>3. f[s] = IF s \in Stop THEN base[s] ELSE f[next[s]]
      <4> HIDE DEF S, V, Stop, base, next, combine
      <4> QED
        BY <2>4, <3>2
    <3>4. s \in Stop <=> Stops(s[1])
      OBVIOUS
    <3>5. base[s] = [left |-> s[1], decibels |-> s[2]]
      OBVIOUS
    <3> HIDE DEF S, V, Stop, base, combine
    <3> QED
      BY <3>3, <3>4, <3>5
  <2>6. f = [s \in S |-> f[s]]
    <3> HIDE DEF S, V
    <3> QED
      OBVIOUS
  <2> HIDE DEF S
  <2> QED
    BY <2>5, <2>6
<1>2. Consume = Body(Consume)
  BY <1>1 DEF Consume, Stops, IsKey, Rest
<1>3. <<bytes, level>> \in S
  OBVIOUS
<1>4. Consume[<<bytes, level>>] = Body(Consume)[<<bytes, level>>]
  BY <1>2
<1> QED
  BY <1>3, <1>4

-----------------------------------------------------------------------------
Gains == MIN_GAIN_DECIBELS .. MAX_GAIN_DECIBELS

\* A key sequence at a position, and the level that the bytes up to one lead to.
KeyAt(keys, i)   == SubSeq(keys, i, i + 2) \in DOMAIN Steps
LevelAt(keys, p) == LevelAfter[SubSeq(keys, 1, p)]

\* LevelAfter is what its definition says, and a level between the limits.
LEMMA LevelIs ==
    ASSUME NEW keys \in Seq(Bytes)
    PROVE  /\ LevelAfter[keys] \in Gains
           /\ LevelAfter[keys] =
                 IF keys = <<>> THEN 0
                 ELSE IF Len(keys) >= 3 /\ KeyAt(keys, Len(keys) - 2)
                 THEN adjust(LevelAfter[Front(keys)], Steps[SubSeq(keys, Len(keys) - 2, Len(keys))])
                 ELSE LevelAfter[Front(keys)]
<1> DEFINE S == Seq(Bytes)
           Ending(k) == SubSeq(k, Len(k) - 2, Len(k))
           Ends(k) == Len(k) >= 3 /\ Ending(k) \in DOMAIN Steps
           Stop == {<<>>}
           size == [k \in S |-> Len(k)]
           base == [k \in S |-> 0]
           next == [k \in S |-> IF k = <<>> THEN k ELSE Front(k)]
           combine == [p \in S \X Gains |-> IF Ends(p[1]) THEN adjust(p[2], Steps[Ending(p[1])]) ELSE p[2]]
           Body(f) == [k \in S |->
              IF k = <<>> THEN 0
              ELSE IF Ends(k) THEN adjust(f[Front(k)], Steps[Ending(k)]) ELSE f[Front(k)]]
<1>1. ASSUME NEW k \in S, NEW level \in Gains, Ends(k) PROVE adjust(level, Steps[Ending(k)]) \in Gains
  <2>1. level \in Int
    BY LimitsAssumption DEF Gains
  <2>2. Ending(k) \in DOMAIN Steps
    BY <1>1
  <2> HIDE DEF Ending
  <2>3. Steps[Ending(k)] \in Int
    BY <2>2, StepsType
  <2> QED
    BY <2>1, <2>3, AdjustType DEF Gains
<1>2. PICK f \in [S -> Gains] : f = Body(f)
  <2>1. size \in [S -> Nat] /\ Stop \subseteq S
    OBVIOUS
  <2>2. base \in [S -> Gains]
    BY LimitsAssumption DEF Gains
  <2>3. combine \in [S \X Gains -> Gains]
    <3> HIDE DEF S, Gains, Ends, Ending
    <3> QED
      BY <1>1
  <2>4. ASSUME NEW k \in S, k # <<>> PROVE Front(k) \in S /\ Len(Front(k)) < Len(k)
    BY <2>4 DEF Front
  <2>5. next \in [S -> S] /\ \A k \in S : k \notin Stop => size[next[k]] < size[k]
    <3>1. \A k \in S : next[k] = IF k = <<>> THEN k ELSE Front(k)
      OBVIOUS
    <3>2. \A k \in S : size[k] = Len(k)
      OBVIOUS
    <3>3. next = [k \in S |-> next[k]]
      OBVIOUS
    <3> HIDE DEF S, size, next
    <3> QED
      BY <2>4, <3>1, <3>2, <3>3
  <2>6. PICK f \in [S -> Gains] : \A k \in S : f[k] = IF k \in Stop THEN base[k] ELSE combine[<<k, f[next[k]]>>]
    <3> HIDE DEF S, Gains, Stop, size, base, next, combine
    <3>1. Recursion(S, Gains, size, Stop, base, next, combine)
      BY <2>1, <2>2, <2>3, <2>5 DEF Recursion
    <3> QED
      BY <3>1, RecursionExists
  <2>7. ASSUME NEW k \in S PROVE f[k] = Body(f)[k]
    <3>1. CASE k = <<>>
      BY <2>6, <3>1
    <3>2. CASE k # <<>>
      <4>1. next[k] = Front(k) /\ Front(k) \in S
        BY <2>4, <3>2
      <4>2. f[k] = combine[<<k, f[Front(k)]>>]
        <5> HIDE DEF S, Gains, base, next, combine
        <5> QED
          BY <2>6, <3>2, <4>1
      <4>3. f[Front(k)] \in Gains
        <5> HIDE DEF S, Gains
        <5> QED
          BY <4>1
      <4>4. combine[<<k, f[Front(k)]>>] = IF Ends(k) THEN adjust(f[Front(k)], Steps[Ending(k)]) ELSE f[Front(k)]
        <5> HIDE DEF S, Gains, Ends, Ending
        <5> QED
          BY <4>3
      <4> HIDE DEF combine, Ends, Ending, Gains
      <4> QED
        BY <3>2, <4>2, <4>4
    <3> QED
      BY <3>1, <3>2
  <2> HIDE DEF S, Gains
  <2> QED
    BY <2>7
<1>3. LevelAfter = Body(LevelAfter)
  BY <1>2 DEF LevelAfter
<1>4. \A k \in S : LevelAfter[k] = IF k = <<>> THEN 0
                                  ELSE IF Ends(k) THEN adjust(LevelAfter[Front(k)], Steps[Ending(k)])
                                  ELSE LevelAfter[Front(k)]
  <2> SUFFICES ASSUME NEW k \in S PROVE LevelAfter[k] = Body(LevelAfter)[k]
    OBVIOUS
  <2> HIDE DEF Body
  <2> QED
    BY <1>3
<1>5. \A k \in S : LevelAfter[k] \in Gains
  <2> DEFINE Typed == {n \in Nat : \A k \in S : Len(k) <= n => LevelAfter[k] \in Gains}
  <2> HIDE DEF Body
  <2>1. 0 \in Typed
    <3>1. \A k \in S : Len(k) <= 0 => k = <<>>
      OBVIOUS
    <3>2. LevelAfter[<<>>] \in Gains
      <4>1. <<>> \in S
        OBVIOUS
      <4>2. LevelAfter[<<>>] = 0
        <5> HIDE DEF S, Ends, Ending, Typed
        <5> QED
          BY <1>4, <4>1
      <4> QED
        BY <4>2, LimitsAssumption DEF Gains
    <3> HIDE DEF Gains
    <3> QED
      BY <3>1, <3>2
  <2>2. ASSUME NEW n \in Nat, n \in Typed PROVE n + 1 \in Typed
    <3> SUFFICES ASSUME NEW k \in S, Len(k) <= n + 1, k # <<>> PROVE LevelAfter[k] \in Gains
      BY <2>1
    <3>1. Front(k) \in S /\ Len(Front(k)) <= n
      BY DEF Front
    <3>2. LevelAfter[Front(k)] \in Gains
      BY <2>2, <3>1
    <3>3. ASSUME Ends(k) PROVE adjust(LevelAfter[Front(k)], Steps[Ending(k)]) \in Gains
      BY <1>1, <3>2, <3>3
    <3> HIDE DEF S, Ends, Ending, Gains
    <3> QED
      BY <1>4, <3>2, <3>3
  <2> HIDE DEF Typed
  <2>3. Nat \subseteq Typed
    BY <2>1, <2>2, InductiveSet
  <2> QED
    BY <2>3 DEF Typed
<1>6. Len(keys) - 2 + 2 = Len(keys)
  OBVIOUS
<1> HIDE DEF Body
<1> QED
  BY <1>4, <1>5, <1>6 DEF KeyAt

\* The same, by positions in one sequence of bytes.
LEMMA LevelAtIs ==
    ASSUME NEW keys \in Seq(Bytes)
    PROVE  /\ LevelAt(keys, 0) = 0
           /\ LevelAt(keys, Len(keys)) = LevelAfter[keys]
           /\ \A p \in 0 .. Len(keys) : LevelAt(keys, p) \in Gains
           /\ \A p \in 1 .. Len(keys) :
                 LevelAt(keys, p) = IF p >= 3 /\ KeyAt(keys, p - 2)
                                    THEN adjust(LevelAt(keys, p - 1), Steps[SubSeq(keys, p - 2, p)])
                                    ELSE LevelAt(keys, p - 1)
<1> DEFINE Upto(p) == SubSeq(keys, 1, p)
<1>1. \A p \in 0 .. Len(keys) : Upto(p) \in Seq(Bytes) /\ Len(Upto(p)) = p
  OBVIOUS
<1>2. Upto(0) = <<>> /\ Upto(Len(keys)) = keys
  OBVIOUS
<1>3. <<>> \in Seq(Bytes)
  OBVIOUS
<1>4. ASSUME NEW p \in 1 .. Len(keys)
      PROVE  LevelAt(keys, p) = IF p >= 3 /\ KeyAt(keys, p - 2)
                                THEN adjust(LevelAt(keys, p - 1), Steps[SubSeq(keys, p - 2, p)])
                                ELSE LevelAt(keys, p - 1)
  <2>1. Front(Upto(p)) = Upto(p - 1)
    BY <1>1 DEF Front
  <2>2. Upto(p) # <<>>
    BY <1>1
  <2>3. p >= 3 => SubSeq(Upto(p), p - 2, p) = SubSeq(keys, p - 2, p)
    BY <1>1
  <2>4. p - 2 + 2 = p
    OBVIOUS
  <2> HIDE DEF Upto
  <2>5. LevelAfter[Upto(p)] = IF p >= 3 /\ KeyAt(Upto(p), p - 2)
                              THEN adjust(LevelAfter[Upto(p - 1)], Steps[SubSeq(Upto(p), p - 2, p)])
                              ELSE LevelAfter[Upto(p - 1)]
    BY <1>1, <2>1, <2>2, LevelIs
  <2> QED
    BY <2>3, <2>4, <2>5 DEF KeyAt, LevelAt, Upto
<1>5. LevelAfter[<<>>] = 0
  BY <1>3, LevelIs
<1>6. \A p \in 0 .. Len(keys) : LevelAt(keys, p) \in Gains
  <2> HIDE DEF Upto
  <2> QED
    BY <1>1, LevelIs DEF LevelAt, Upto
<1> QED
  BY <1>2, <1>4, <1>5, <1>6 DEF LevelAt

\* No key sequence begins up to position p and ends behind it, whatever bytes
\* come next: from a byte that could begin one, two more are there and do not.
NoneAcross(keys, p) ==
    \A i \in 1 .. p : i + 2 > p => \/ keys[i] # Esc
                                   \/ i + 2 <= Len(keys) /\ ~KeyAt(keys, i)

\* What is left behind position p.
From(keys, p) == SubSeq(keys, p + 1, Len(keys))

\* Where the loop may leave a buffer: it has at most an incomplete sequence.
Settled(keys, p) == NoneAcross(keys, p) /\ Stops(From(keys, p))

\* Within a key only its first byte is an escape.
LEMMA KeyStarts ==
    ASSUME NEW keys \in Seq(Bytes), NEW i \in 1 .. Len(keys), i + 2 <= Len(keys), KeyAt(keys, i)
    PROVE  keys[i] = Esc /\ keys[i + 1] # Esc /\ keys[i + 2] # Esc /\ Steps[SubSeq(keys, i, i + 2)] \in Int
<1> DEFINE key == SubSeq(keys, i, i + 2)
<1>1. key \in DOMAIN Steps
  BY DEF KeyAt
<1>2. key[1] = keys[i] /\ key[2] = keys[i + 1] /\ key[3] = keys[i + 2]
  OBVIOUS
<1> HIDE DEF key
<1>3. key[1] = Esc /\ key[2] # Esc /\ key[3] # Esc /\ Steps[key] \in Int
  BY <1>1, StepsType
<1> QED
  BY <1>2, <1>3 DEF key

\* With none across p, no key ends in the two bytes behind it.
LEMMA NothingEnds ==
    ASSUME NEW keys \in Seq(Bytes), NEW p \in 0 .. Len(keys), NoneAcross(keys, p)
    PROVE  /\ p + 1 <= Len(keys) => LevelAt(keys, p + 1) = LevelAt(keys, p)
           /\ p + 2 <= Len(keys) => LevelAt(keys, p + 2) = LevelAt(keys, p)
<1>1. ASSUME NEW n \in {p + 1, p + 2}, n <= Len(keys) PROVE LevelAt(keys, n) = LevelAt(keys, n - 1)
  <2>1. ~(n >= 3 /\ KeyAt(keys, n - 2))
    <3> SUFFICES ASSUME n >= 3, KeyAt(keys, n - 2) PROVE FALSE
      OBVIOUS
    <3>1. n - 2 \in 1 .. p /\ n - 2 + 2 > p /\ n - 2 \in 1 .. Len(keys) /\ n - 2 + 2 <= Len(keys)
      BY <1>1
    <3>2. keys[n - 2] = Esc
      BY <3>1, KeyStarts
    <3> QED
      BY <3>1, <3>2 DEF NoneAcross
  <2>2. n \in 1 .. Len(keys)
    BY <1>1
  <2> QED
    BY <2>1, <2>2, LevelAtIs
<1>2. p + 1 <= Len(keys) => LevelAt(keys, p + 1) = LevelAt(keys, p)
  <2>1. p + 1 - 1 = p
    OBVIOUS
  <2> QED
    BY <1>1, <2>1
<1>3. p + 2 <= Len(keys) => LevelAt(keys, p + 2) = LevelAt(keys, p + 1)
  <2>1. p + 2 - 1 = p + 1
    OBVIOUS
  <2> QED
    BY <1>1, <2>1
<1> QED
  BY <1>2, <1>3

\* So what may stay in a buffer has no part in the level.
LEMMA SettledLevel ==
    ASSUME NEW keys \in Seq(Bytes), NEW p \in 0 .. Len(keys), Settled(keys, p)
    PROVE  LevelAfter[keys] = LevelAt(keys, p)
<1>1. Len(From(keys, p)) = Len(keys) - p
  BY DEF From
<1>2. Len(keys) \in {p, p + 1, p + 2}
  BY <1>1 DEF Settled, Stops
<1>3. LevelAt(keys, Len(keys)) = LevelAt(keys, p)
  BY <1>2, NothingEnds DEF Settled
<1> QED
  BY <1>3, LevelAtIs

\* One turn of the loop goes from a position that no key is across to another,
\* and from the level of the one to the level of the other.
LEMMA ConsumeStep ==
    ASSUME NEW keys \in Seq(Bytes), NEW p \in 0 .. Len(keys),
           NoneAcross(keys, p), ~Stops(From(keys, p))
    PROVE  \E q \in p + 1 .. Len(keys) :
              /\ NoneAcross(keys, q)
              /\ Consume[<<From(keys, p), LevelAt(keys, p)>>] = Consume[<<From(keys, q), LevelAt(keys, q)>>]
<1> DEFINE rest == From(keys, p)
<1>1. rest \in Seq(Bytes) /\ Len(rest) = Len(keys) - p /\ rest # <<>>
  BY DEF From, Stops
<1>2. p + 1 <= Len(keys) /\ rest[1] = keys[p + 1]
  BY <1>1 DEF From
<1>3. rest[1] = Esc => p + 3 <= Len(keys) /\ SubSeq(rest, 1, 3) = SubSeq(keys, p + 1, p + 3)
  BY <1>1, <1>2 DEF From, Stops
<1>4. LevelAt(keys, p) \in Int
  BY LevelAtIs, LimitsAssumption DEF Gains
<1>5. Consume[<<rest, LevelAt(keys, p)>>] =
         IF IsKey(rest)
         THEN Consume[<<Rest(rest), adjust(LevelAt(keys, p), Steps[SubSeq(rest, 1, 3)])>>]
         ELSE Consume[<<Tail(rest), LevelAt(keys, p)>>]
  <2> HIDE DEF rest
  <2> QED
    BY <1>1, <1>4, ConsumeIs DEF rest
<1>6. CASE IsKey(rest)
  <2>1. p + 3 <= Len(keys) /\ KeyAt(keys, p + 1) /\ SubSeq(rest, 1, 3) = SubSeq(keys, p + 1, p + 3)
    <3>1. p + 1 + 2 = p + 3
      OBVIOUS
    <3> HIDE DEF rest
    <3> QED
      BY <1>3, <1>6, <3>1 DEF IsKey, KeyAt
  <2>2. keys[p + 2] # Esc /\ keys[p + 3] # Esc
    <3>1. p + 1 \in 1 .. Len(keys) /\ p + 1 + 2 <= Len(keys) /\ p + 1 + 1 = p + 2 /\ p + 1 + 2 = p + 3
      BY <2>1
    <3> QED
      BY <2>1, <3>1, KeyStarts
  <2>3. NoneAcross(keys, p + 3)
    BY <2>2 DEF NoneAcross
  <2>4. LevelAt(keys, p + 3) = adjust(LevelAt(keys, p), Steps[SubSeq(keys, p + 1, p + 3)])
    <3>1. p + 3 \in 1 .. Len(keys) /\ p + 3 >= 3 /\ p + 3 - 2 = p + 1 /\ p + 3 - 1 = p + 2
      BY <2>1
    <3>2. LevelAt(keys, p + 2) = LevelAt(keys, p)
      BY <2>1, NothingEnds
    <3> QED
      BY <2>1, <3>1, <3>2, LevelAtIs
  <2>5. Rest(rest) = From(keys, p + 3)
    BY <1>1, <2>1 DEF Rest, From
  <2> HIDE DEF rest
  <2>6. Consume[<<rest, LevelAt(keys, p)>>] = Consume[<<From(keys, p + 3), LevelAt(keys, p + 3)>>]
    BY <1>5, <1>6, <2>1, <2>4, <2>5
  <2>7. p + 3 \in p + 1 .. Len(keys)
    BY <2>1
  <2> QED
    BY <2>3, <2>6, <2>7 DEF rest
<1>7. CASE ~IsKey(rest)
  <2>1. keys[p + 1] # Esc \/ (p + 3 <= Len(keys) /\ ~KeyAt(keys, p + 1))
    <3>1. p + 1 + 2 = p + 3
      OBVIOUS
    <3> HIDE DEF rest
    <3> QED
      BY <1>2, <1>3, <1>7, <3>1 DEF IsKey, KeyAt
  <2>2. NoneAcross(keys, p + 1)
    BY <2>1 DEF NoneAcross
  <2>3. LevelAt(keys, p + 1) = LevelAt(keys, p)
    BY <1>2, NothingEnds
  <2>4. Tail(rest) = From(keys, p + 1)
    BY <1>1 DEF From
  <2> HIDE DEF rest
  <2>5. Consume[<<rest, LevelAt(keys, p)>>] = Consume[<<From(keys, p + 1), LevelAt(keys, p + 1)>>]
    BY <1>5, <1>7, <2>3, <2>4
  <2>6. p + 1 \in p + 1 .. Len(keys)
    BY <1>2
  <2> QED
    BY <2>2, <2>5, <2>6 DEF rest
<1> QED
  BY <1>6, <1>7

\* So the loop ends with the level of all the bytes, and with a settled rest.
LEMMA ConsumeReads ==
    ASSUME NEW keys \in Seq(Bytes), NEW p \in 0 .. Len(keys), NoneAcross(keys, p)
    PROVE  \E q \in 0 .. Len(keys) :
              /\ Settled(keys, q)
              /\ Consume[<<From(keys, p), LevelAt(keys, p)>>] =
                    [left |-> From(keys, q), decibels |-> LevelAfter[keys]]
<1> DEFINE Reads(r) == \E q \in 0 .. Len(keys) :
              /\ Settled(keys, q)
              /\ Consume[<<From(keys, r), LevelAt(keys, r)>>] =
                    [left |-> From(keys, q), decibels |-> LevelAfter[keys]]
           Done == {n \in Nat : \A r \in 0 .. Len(keys) :
                       Len(keys) - r <= n /\ NoneAcross(keys, r) => Reads(r)}
<1>1. ASSUME NEW r \in 0 .. Len(keys), NoneAcross(keys, r), Stops(From(keys, r)) PROVE Reads(r)
  <2>1. Settled(keys, r)
    BY <1>1 DEF Settled
  <2>2. LevelAt(keys, r) \in Int /\ LevelAfter[keys] = LevelAt(keys, r)
    BY <2>1, LevelAtIs, SettledLevel, LimitsAssumption DEF Gains
  <2>3. From(keys, r) \in Seq(Bytes)
    BY DEF From
  <2>4. Consume[<<From(keys, r), LevelAt(keys, r)>>] = [left |-> From(keys, r), decibels |-> LevelAt(keys, r)]
    BY <1>1, <2>2, <2>3, ConsumeIs
  <2> QED
    BY <2>1, <2>2, <2>4
<1>2. 0 \in Done
  <2> SUFFICES ASSUME NEW r \in 0 .. Len(keys), Len(keys) - r <= 0, NoneAcross(keys, r) PROVE Reads(r)
    OBVIOUS
  <2>1. From(keys, r) = <<>>
    BY DEF From
  <2> HIDE DEF Reads
  <2> QED
    BY <1>1, <2>1 DEF Stops
<1>3. ASSUME NEW n \in Nat, n \in Done PROVE n + 1 \in Done
  <2> SUFFICES ASSUME NEW r \in 0 .. Len(keys), Len(keys) - r <= n + 1, NoneAcross(keys, r), ~Stops(From(keys, r))
               PROVE  Reads(r)
    <3> HIDE DEF Reads
    <3> QED
      BY <1>1
  <2>1. PICK q \in r + 1 .. Len(keys) :
           /\ NoneAcross(keys, q)
           /\ Consume[<<From(keys, r), LevelAt(keys, r)>>] = Consume[<<From(keys, q), LevelAt(keys, q)>>]
    BY ConsumeStep
  <2>2. q \in 0 .. Len(keys) /\ Len(keys) - q <= n
    OBVIOUS
  <2>3. Reads(q)
    <3> HIDE DEF Reads
    <3> QED
      BY <1>3, <2>1, <2>2
  <2> QED
    BY <2>1, <2>3
<1> HIDE DEF Done
<1>4. Nat \subseteq Done
  BY <1>2, <1>3, InductiveSet
<1>5. Len(keys) - p \in Done
  BY <1>4
<1> HIDE DEF Reads
<1>6. Reads(p)
  BY <1>5 DEF Done
<1> QED
  BY <1>6 DEF Reads

-----------------------------------------------------------------------------
\* What makes GainFollowsKeys inductive: the buffer is the end of what was
\* typed, and no key is across its beginning.
GainInv ==
    /\ typed \in Seq(Bytes)
    /\ GainFollowsKeys
    /\ \E p \in 0 .. Len(typed) : Settled(typed, p) /\ buffer = From(typed, p)

\* A read of any length keeps it.
LEMMA GainInvRead ==
    ASSUME GainInv, NEW chunk \in Seq(Bytes), Read(chunk)
    PROVE  GainInv'
<1> DEFINE keys == typed \o chunk
<1>1. PICK p \in 0 .. Len(typed) : Settled(typed, p) /\ buffer = From(typed, p)
  BY DEF GainInv
<1>2. typed \in Seq(Bytes) /\ keys \in Seq(Bytes) /\ Len(keys) = Len(typed) + Len(chunk)
  BY DEF GainInv
<1>3. p \in 0 .. Len(keys) /\ SubSeq(keys, 1, p) = SubSeq(typed, 1, p)
  BY <1>2
<1>4. NoneAcross(keys, p)
  <2> SUFFICES ASSUME NEW i \in 1 .. p, i + 2 > p
               PROVE  keys[i] # Esc \/ (i + 2 <= Len(keys) /\ ~KeyAt(keys, i))
    BY DEF NoneAcross
  <2>1. keys[i] = typed[i]
    BY <1>2
  <2>2. i + 2 <= Len(typed) => SubSeq(keys, i, i + 2) = SubSeq(typed, i, i + 2) /\ i + 2 <= Len(keys)
    BY <1>2
  <2> HIDE DEF keys
  <2> QED
    BY <1>1, <2>1, <2>2 DEF Settled, NoneAcross, KeyAt
<1>5. buffer \o chunk = From(keys, p)
  <2>1. buffer \in Seq(Bytes) /\ Len(buffer) = Len(typed) - p
        /\ \A i \in 1 .. Len(buffer) : buffer[i] = typed[p + i]
    BY <1>1, <1>2 DEF From
  <2>2. From(keys, p) \in Seq(Bytes) /\ Len(From(keys, p)) = Len(keys) - p
        /\ \A i \in 1 .. Len(keys) - p : From(keys, p)[i] = keys[p + i]
    BY <1>2, <1>3 DEF From
  <2>3. buffer \o chunk \in Seq(Bytes) /\ Len(buffer \o chunk) = Len(keys) - p
    <3>1. \A s, t \in Seq(Bytes) : s \o t \in Seq(Bytes) /\ Len(s \o t) = Len(s) + Len(t)
      OBVIOUS
    <3>2. Len(typed) \in Nat /\ Len(chunk) \in Nat /\ p \in Nat /\ buffer \in Seq(Bytes)
      BY <1>2, <2>1
    <3>3. buffer \o chunk \in Seq(Bytes) /\ Len(buffer \o chunk) = Len(buffer) + Len(chunk)
      BY <3>1, <3>2
    <3> HIDE DEF keys
    <3> QED
      BY <1>2, <2>1, <3>2, <3>3
  <2>4. ASSUME NEW i \in 1 .. Len(keys) - p PROVE (buffer \o chunk)[i] = keys[p + i]
    <3>1. CASE i <= Len(buffer)
      <4>1. (buffer \o chunk)[i] = buffer[i]
        BY <2>1, <3>1
      <4>2. p + i \in 1 .. Len(typed)
        BY <1>2, <2>1, <3>1
      <4>3. keys[p + i] = typed[p + i]
        BY <1>2, <4>2
      <4> QED
        BY <2>1, <3>1, <4>1, <4>3
    <3>2. CASE i > Len(buffer)
      <4>1. (buffer \o chunk)[i] = chunk[i - Len(buffer)]
        BY <1>2, <2>1, <3>2
      <4>2. keys[p + i] = chunk[p + i - Len(typed)]
        BY <1>2, <2>1, <3>2
      <4>3. p + i - Len(typed) = i - Len(buffer)
        BY <1>2, <2>1
      <4> QED
        BY <4>1, <4>2, <4>3
    <3> QED
      BY <2>1, <3>1, <3>2
  <2> HIDE DEF keys
  <2>5. \A s, t \in Seq(Bytes) : Len(s) = Len(t) /\ (\A i \in 1 .. Len(s) : s[i] = t[i]) => s = t
    OBVIOUS
  <2> QED
    BY <2>2, <2>3, <2>4, <2>5
<1>6. decibels = LevelAt(keys, p)
  <2>1. LevelAfter[typed] = LevelAt(typed, p)
    BY <1>1, <1>2, SettledLevel
  <2> HIDE DEF keys
  <2> QED
    BY <1>3, <2>1 DEF GainInv, GainFollowsKeys, LevelAt
<1>7. typed' = keys /\ buffer' = Consume[<<From(keys, p), LevelAt(keys, p)>>].left
      /\ decibels' = Consume[<<From(keys, p), LevelAt(keys, p)>>].decibels
  BY <1>5, <1>6 DEF Read
<1> HIDE DEF keys
<1>8. PICK q \in 0 .. Len(keys) :
         /\ Settled(keys, q)
         /\ Consume[<<From(keys, p), LevelAt(keys, p)>>] = [left |-> From(keys, q), decibels |-> LevelAfter[keys]]
  BY <1>2, <1>3, <1>4, ConsumeReads
<1>9. buffer' = From(keys, q) /\ decibels' = LevelAfter[keys]
  BY <1>7, <1>8
<1>10. Settled(typed', q) /\ buffer' = From(typed', q) /\ q \in 0 .. Len(typed')
  BY <1>7, <1>8, <1>9
<1>11. GainFollowsKeys'
  BY <1>7, <1>9 DEF GainFollowsKeys
<1> QED
  BY <1>2, <1>7, <1>10, <1>11 DEF GainInv

\* And so does a step of the keys, or one that leaves them alone.
LEMMA GainInvNext ==
    ASSUME GainInv, GainNext \/ UNCHANGED gainVars
    PROVE  GainInv'
<1>1. CASE GainNext
  <2>1. PICK n \in 1 .. MaxRead : \E chunk \in [1 .. n -> Bytes] : Read(chunk)
    BY <1>1 DEF GainNext
  <2>2. PICK chunk \in [1 .. n -> Bytes] : Read(chunk)
    BY <2>1
  <2>3. chunk \in Seq(Bytes)
    BY <2>2, ReadsAssumption
  <2> QED
    BY <2>2, <2>3, GainInvRead
<1>2. CASE UNCHANGED gainVars
  BY <1>2 DEF gainVars, GainInv, GainFollowsKeys
<1> QED
  BY <1>1, <1>2

LEMMA GainInvInit ==
    ASSUME GainInit
    PROVE  GainInv
<1>1. typed = <<>> /\ buffer = <<>> /\ decibels = 0 /\ <<>> \in Seq(Bytes)
  BY DEF GainInit
<1>2. LevelAfter[<<>>] = 0
  BY <1>1, LevelIs
<1>3. Settled(typed, 0) /\ buffer = From(typed, 0) /\ 0 \in 0 .. Len(typed)
  BY <1>1 DEF Settled, NoneAcross, Stops, From
<1> QED
  BY <1>1, <1>2, <1>3 DEF GainInv, GainFollowsKeys

LEMMA GainInvTyped ==
    ASSUME GainInv
    PROVE  GainTypeOK
<1>1. PICK p \in 0 .. Len(typed) : Stops(From(typed, p)) /\ buffer = From(typed, p)
  BY DEF GainInv, Settled
<1>2. buffer \in Seq(Bytes)
  BY <1>1 DEF GainInv, From
<1>3. Len(buffer) < 3
  BY <1>1, <1>2 DEF Stops
<1>4. decibels \in MIN_GAIN_DECIBELS .. MAX_GAIN_DECIBELS
  BY LevelIs DEF GainInv, GainFollowsKeys, Gains
<1> QED
  BY <1>2, <1>3, <1>4 DEF GainTypeOK
=============================================================================
