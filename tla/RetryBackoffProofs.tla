------------------------- MODULE RetryBackoffProofs -------------------------
(***************************************************************************)
(* Theorems about the retry delay, for a uint32_t of any width and every   *)
(* configuration.                                                          *)
(***************************************************************************)
EXTENDS RetryBackoff, WellFoundedInduction, TLAPS

\* The product of two 32-bit values fits 64 bits.
LEMMA ProductFits ==
  ASSUME NEW a \in Uint32, NEW b \in Uint32
  PROVE  a * b \in Uint64
<1>1. \A x, y, z \in Nat : x <= y => x * z <= y * z
  BY SMT
<1>2. a * b <= (Word - 1) * b
  BY <1>1, WordAssumption DEF Uint32
<1>3. b * (Word - 1) <= (Word - 1) * (Word - 1)
  BY <1>1, WordAssumption DEF Uint32
<1>4. (Word - 1) * (Word - 1) <= Word * Word - 1
  BY WordAssumption
<1>5. a * b \in Nat
  BY WordAssumption DEF Uint32
<1>6. (Word - 1) * b = b * (Word - 1)
  BY WordAssumption DEF Uint32
<1> QED BY <1>2, <1>3, <1>4, <1>5, <1>6, WordAssumption DEF Uint32, Uint64

\* apply_defaults keeps the widths and leaves a multiplier of 2 or more.
LEMMA DefaultedType ==
  ASSUME NEW c \in Configs
  PROVE  /\ Defaulted(c) \in Configs
         /\ Defaulted(c).multiplier >= 2
<1> DEFINE ini == IF c.initial = 0 THEN DefaultInitial ELSE c.initial
           top == IF c.max = 0 THEN DefaultMax ELSE c.max
           mul == IF c.multiplier < 2 THEN DefaultMultiplier ELSE c.multiplier
<1>1. /\ ini \in Uint32 /\ top \in Uint32 /\ mul \in Uint32
      /\ mul >= 2
  <2>1. c.initial \in Uint32 /\ c.max \in Uint32 /\ c.multiplier \in Uint32
    BY DEF Configs
  <2> QED BY <2>1, WordAssumption DEF Uint32, DefaultMultiplier
<1>2. Defaulted(c) = [c EXCEPT !.initial = ini, !.max = top, !.multiplier = mul]
  BY DEF Defaulted, Configs
<1> HIDE DEF ini, top, mul
<1> QED BY <1>1, <1>2 DEF Configs

\* The jittered delay is never longer than the delay it is made from.
LEMMA JitterBound ==
  ASSUME NEW b \in Uint32, NEW r \in Uint32
  PROVE  Jittered(b, r) \in 0 .. b
<1> DEFINE h == b \div 2
<1>1. h \in Nat /\ 2 * h <= b
  BY WordAssumption DEF Uint32
<1>2. r % (h + 1) \in 0 .. h
  <2> HIDE DEF h
  <2> QED BY <1>1, WordAssumption DEF Uint32
<1>3. h + (r % (h + 1)) \in 0 .. b
  <2> HIDE DEF h
  <2> QED BY <1>1, <1>2, WordAssumption DEF Uint32
<1> QED BY <1>3 DEF Jittered

-----------------------------------------------------------------------------
\* What the loop and the clamp after it establish for the jitter.
RetryInv ==
  /\ TypeOK
  /\ pc = "jitter" => base <= cfg.max
  /\ DelayCapped

\* The defaults that edgesync_init applies are within the types, and the first
\* attempt has no delay.
LEMMA RetryInit == Init => RetryInv
<1> SUFFICES ASSUME Init PROVE RetryInv
  OBVIOUS
<1>1. PICK c \in Configs : cfg = Defaulted(c)
  BY DEF Init
<1>2. cfg \in Configs /\ cfg.initial \in Uint32 /\ cfg.max \in Uint32
  BY <1>1, DefaultedType DEF Configs
<1>3. Uint32 \subseteq Uint64 /\ 0 \in Uint32
  <2>1. Word - 1 <= Word * Word - 1
    BY WordAssumption
  <2> QED BY <2>1, WordAssumption DEF Uint32, Uint64
<1> QED BY <1>2, <1>3 DEF Init, RetryInv, TypeOK, DelayCapped, Uint32

\* Every iteration of the loop, the clamp and the jitter keep the bounds.
LEMMA RetryNext == RetryInv /\ [Next]_vars => RetryInv'
<1> SUFFICES ASSUME RetryInv, [Next]_vars PROVE RetryInv'
  OBVIOUS
<1> USE DEF input, vars
<1>0. /\ cfg.max \in Uint32 /\ cfg.multiplier \in Uint32
      /\ base \in Uint64 /\ i \in Nat /\ delay \in Uint32 /\ random \in Uint32
      /\ Uint32 \subseteq Uint64
  <2>1. Word - 1 <= Word * Word - 1
    BY WordAssumption
  <2> QED BY <2>1, WordAssumption DEF RetryInv, TypeOK, Configs, Uint32, Uint64
<1>1. CASE Multiply
  <2>1. base \in Uint32
    BY <1>0, <1>1, WordAssumption DEF Multiply, Uint32, Uint64
  <2>2. base * cfg.multiplier \in Uint64
    BY <1>0, <2>1, ProductFits
  <2>3. base' \in Uint64
    <3>1. \A x \in Uint64 : x % (Word * Word) = x
      <4>1. Word * Word \in Nat /\ Word * Word > 0
        BY WordAssumption
      <4> QED BY <4>1 DEF Uint64
    <3> QED BY <1>1, <2>2, <3>1 DEF Multiply
  <2> QED BY <1>0, <1>1, <2>3 DEF Multiply, RetryInv, TypeOK, DelayCapped
<1>2. CASE Break
  BY <1>0, <1>2 DEF Break, RetryInv, TypeOK, DelayCapped, Uint32
<1>3. CASE Clamp
  BY <1>0, <1>3 DEF Clamp, RetryInv, TypeOK, DelayCapped, Uint32, Uint64
<1>4. CASE Jitter
  <2>1. base \in Uint32 /\ base <= cfg.max
    BY <1>0, <1>4, WordAssumption DEF Jitter, RetryInv, Uint32, Uint64
  <2>2. Jittered(base, random) \in 0 .. base
    BY <1>0, <2>1, JitterBound
  <2>3. delay' \in Uint32 /\ delay' <= cfg.max
    BY <1>0, <1>4, <2>1, <2>2, WordAssumption DEF Jitter, Uint32
  <2> QED BY <1>0, <1>4, <2>3 DEF Jitter, RetryInv, TypeOK, DelayCapped
<1>5. CASE Done \/ UNCHANGED vars
  BY <1>5 DEF Done, RetryInv, TypeOK, DelayCapped
<1> QED BY <1>1, <1>2, <1>3, <1>4, <1>5 DEF Next

\* No configuration, attempt count or random value makes the delay exceed
\* retry_max_ms (edgesync_retry.c:19-55).
THEOREM DelayIsCapped == Spec => []DelayCapped
<1>1. RetryInv => DelayCapped
  BY DEF RetryInv
<1> QED BY <1>1, RetryInit, RetryNext, PTL DEF Spec

\* The multiplication in the loop never wraps its uint64_t: it is taken only
\* below the cap, and two values below 2^32 have a product below 2^64.
ProductNeverWraps ==
  pc = "loop" /\ base < cfg.max => base * cfg.multiplier \in Uint64
THEOREM MultiplyIsExact == Spec => []ProductNeverWraps
<1>1. RetryInv => ProductNeverWraps
  <2> SUFFICES ASSUME RetryInv, base < cfg.max
               PROVE  base * cfg.multiplier \in Uint64
    BY DEF ProductNeverWraps
  <2>1. base \in Uint32 /\ cfg.multiplier \in Uint32
    BY WordAssumption DEF RetryInv, TypeOK, Configs, Uint32, Uint64
  <2> QED BY <2>1, ProductFits
<1> QED BY <1>1, RetryInit, RetryNext, PTL DEF Spec

-----------------------------------------------------------------------------
(* Powers.  Every set of naturals has a least element; a statement about   *)
(* all naturals is proved of the least one that it could fail for.         *)

LEMMA Least ==
  ASSUME NEW T, T \subseteq Nat, T # {}
  PROVE  \E x \in T : \A y \in T : x <= y
<1>1. IsWellFoundedOn(OpToRel(<, Nat), Nat)
  BY NatLessThanWellFounded
<1>2. PICK x \in T : \A y \in T : ~ (<<y, x>> \in OpToRel(<, Nat))
  BY <1>1, WFMin, Zenon
<1>3. \A y \in T : ~ (y < x)
  BY <1>2 DEF OpToRel
<1> QED BY <1>3

\* g holds the powers of b up to the n-th; some function that does.
UpTo(b, g, n) == g = [k \in 0 .. n |-> IF k = 0 THEN 1 ELSE b * g[k - 1]]
Approx(b, n) == CHOOSE g : UpTo(b, g, n)

\* There is such a function for every n.
LEMMA ApproxExists ==
  ASSUME NEW b \in Nat, NEW n \in Nat
  PROVE  UpTo(b, Approx(b, n), n)
<1> DEFINE T == {x \in Nat : \A g : ~UpTo(b, g, x)}
<1>1. T = {}
  <2> SUFFICES ASSUME T # {} PROVE FALSE
    OBVIOUS
  <2>1. PICK x \in T : \A y \in T : x <= y
    BY Least
  <2>2. x # 0
    <3> DEFINE one == [k \in 0 .. 0 |-> 1]
    <3>1. UpTo(b, one, 0)
      BY DEF UpTo
    <3> QED BY <3>1
  <2>3. PICK g : UpTo(b, g, x - 1)
    BY <2>1, <2>2
  <2> DEFINE f == [k \in 0 .. x |-> IF k = x THEN b * g[x - 1] ELSE g[k]]
  <2>4. ASSUME NEW k \in 0 .. x
        PROVE  f[k] = IF k = 0 THEN 1 ELSE b * f[k - 1]
    <3>1. k # 0 => k - 1 \in 0 .. x /\ k - 1 # x
      BY <2>1
    <3>2. k # x => k \in 0 .. x - 1
      BY <2>1
    <3>3. \A j \in 0 .. x - 1 : g[j] = IF j = 0 THEN 1 ELSE b * g[j - 1]
      BY <2>3 DEF UpTo
    <3> QED BY <2>2, <3>1, <3>2, <3>3
  <2>5. f = [k \in 0 .. x |-> IF k = 0 THEN 1 ELSE b * f[k - 1]]
    BY <2>4
  <2> HIDE DEF f
  <2>6. UpTo(b, f, x)
    BY <2>5 DEF UpTo
  <2> QED BY <2>1, <2>6
<1>2. \E g : UpTo(b, g, n)
  BY <1>1
<1> QED BY <1>2 DEF Approx

\* Two of them agree where both are defined.
LEMMA ApproxAgrees ==
  ASSUME NEW b \in Nat, NEW n \in Nat, NEW m \in Nat,
         NEW j \in Nat, j <= n, j <= m
  PROVE  Approx(b, n)[j] = Approx(b, m)[j]
<1> DEFINE f == Approx(b, n)
           g == Approx(b, m)
           T == {k \in Nat : k <= n /\ k <= m /\ f[k] # g[k]}
<1>1. \A k \in 0 .. n : f[k] = IF k = 0 THEN 1 ELSE b * f[k - 1]
  <2>1. f = [k \in 0 .. n |-> IF k = 0 THEN 1 ELSE b * f[k - 1]]
    BY ApproxExists DEF UpTo
  <2> HIDE DEF f
  <2> QED BY <2>1
<1>2. \A k \in 0 .. m : g[k] = IF k = 0 THEN 1 ELSE b * g[k - 1]
  <2>1. g = [k \in 0 .. m |-> IF k = 0 THEN 1 ELSE b * g[k - 1]]
    BY ApproxExists DEF UpTo
  <2> HIDE DEF g
  <2> QED BY <2>1
<1> HIDE DEF f, g
<1>3. T = {}
  <2> SUFFICES ASSUME T # {} PROVE FALSE
    OBVIOUS
  <2>1. PICK k \in T : \A y \in T : k <= y
    BY Least
  <2>2. k # 0
    BY <1>1, <1>2
  <2>3. f[k - 1] = g[k - 1]
    BY <2>1, <2>2
  <2> QED BY <1>1, <1>2, <2>2, <2>3
<1> QED BY <1>3 DEF f, g

\* The recursive definition of the powers defines them.
LEMMA PowersDefined ==
  ASSUME NEW b \in Nat
  PROVE  Powers(b) = [n \in Nat |-> IF n = 0 THEN 1 ELSE b * Powers(b)[n - 1]]
<1> DEFINE p == [x \in Nat |-> Approx(b, x)[x]]
<1>1. ASSUME NEW x \in Nat
      PROVE  p[x] = IF x = 0 THEN 1 ELSE b * p[x - 1]
  <2>1. \A k \in 0 .. x : Approx(b, x)[k] = IF k = 0 THEN 1 ELSE b * Approx(b, x)[k - 1]
    <3> DEFINE g == Approx(b, x)
    <3>1. g = [k \in 0 .. x |-> IF k = 0 THEN 1 ELSE b * g[k - 1]]
      BY ApproxExists DEF UpTo
    <3> HIDE DEF g
    <3>2. \A k \in 0 .. x : g[k] = IF k = 0 THEN 1 ELSE b * g[k - 1]
      BY <3>1
    <3> QED BY <3>2 DEF g
  <2>2. CASE x = 0
    BY <2>1, <2>2
  <2>3. CASE x # 0
    <3>1. x - 1 \in Nat
      BY <2>3
    <3>2. Approx(b, x)[x - 1] = Approx(b, x - 1)[x - 1]
      BY <3>1, ApproxAgrees
    <3> QED BY <2>1, <2>3, <3>1, <3>2
  <2> QED BY <2>2, <2>3
<1>2. p = [x \in Nat |-> IF x = 0 THEN 1 ELSE b * p[x - 1]]
  BY <1>1
<1> HIDE DEF p
<1>3. \E g : g = [x \in Nat |-> IF x = 0 THEN 1 ELSE b * g[x - 1]]
  BY <1>2
<1> DEFINE c == CHOOSE g : g = [x \in Nat |-> IF x = 0 THEN 1 ELSE b * g[x - 1]]
<1>4. c = [x \in Nat |-> IF x = 0 THEN 1 ELSE b * c[x - 1]]
  BY <1>3
<1>5. Powers(b) = c
  BY DEF Powers
<1> QED BY <1>4, <1>5

\* The next power, and that it is a number.
LEMMA PowersStep ==
  ASSUME NEW b \in Nat
  PROVE  /\ Powers(b)[0] = 1
         /\ \A n \in Nat : Powers(b)[n] \in Nat /\ Powers(b)[n + 1] = b * Powers(b)[n]
<1> DEFINE p == Powers(b)
<1>1. \A n \in Nat : p[n] = IF n = 0 THEN 1 ELSE b * p[n - 1]
  <2>1. p = [n \in Nat |-> IF n = 0 THEN 1 ELSE b * p[n - 1]]
    BY PowersDefined
  <2> HIDE DEF p
  <2> QED BY <2>1
<1> HIDE DEF p
<1>2. \A n \in Nat : p[n + 1] = b * p[n]
  <2> SUFFICES ASSUME NEW n \in Nat PROVE p[n + 1] = b * p[n]
    OBVIOUS
  <2>1. n + 1 \in Nat /\ n + 1 # 0 /\ (n + 1) - 1 = n
    OBVIOUS
  <2> QED BY <1>1, <2>1
<1>3. \A n \in Nat : p[n] \in Nat
  <2> DEFINE T == {n \in Nat : p[n] \notin Nat}
  <2> SUFFICES ASSUME T # {} PROVE FALSE
    OBVIOUS
  <2>1. PICK n \in T : \A y \in T : n <= y
    BY Least
  <2>2. n # 0
    BY <1>1
  <2>3. n - 1 \in Nat /\ p[n - 1] \in Nat
    BY <2>1, <2>2
  <2>4. b * p[n - 1] \in Nat
    BY <2>3
  <2> QED BY <1>1, <2>2, <2>4
<1> QED BY <1>1, <1>2, <1>3 DEF p

\* Powers of what is at least 2 grow, and those of 2 are the least.
LEMMA PowersGrow ==
  ASSUME NEW b \in Nat, b >= 2, NEW n \in Nat
  PROVE  /\ 1 <= Powers(b)[n] /\ Powers(2)[n] <= Powers(b)[n]
         /\ \A k \in 0 .. n : Powers(b)[k] <= Powers(b)[n]
<1> DEFINE p == Powers(b)
           q == Powers(2)
           good(x) == 1 <= p[x] /\ q[x] <= p[x] /\ \A k \in 0 .. x : p[k] <= p[x]
           T == {x \in Nat : ~good(x)}
<1>1. /\ p[0] = 1 /\ \A x \in Nat : p[x] \in Nat /\ p[x + 1] = b * p[x]
      /\ q[0] = 1 /\ \A x \in Nat : q[x] \in Nat /\ q[x + 1] = 2 * q[x]
  BY PowersStep
<1> HIDE DEF p, q
<1>2. T = {}
  <2> SUFFICES ASSUME T # {} PROVE FALSE
    OBVIOUS
  <2>1. PICK x \in T : \A y \in T : x <= y
    BY Least
  <2>2. x # 0
    BY <1>1
  <2> DEFINE w == x - 1
  <2>3. w \in Nat /\ x = w + 1 /\ w < x
    BY <2>2
  <2> HIDE DEF w
  <2>4. good(w)
    BY <2>1, <2>3
  <2>5. p[x] = b * p[w] /\ q[x] = 2 * q[w] /\ p[w] \in Nat /\ q[w] \in Nat
    BY <1>1, <2>3
  <2>6. \A u \in Nat : 2 * u <= b * u
    BY SMT
  <2>7. 2 * p[w] <= p[x] /\ p[x] \in Nat
    BY <1>1, <2>3, <2>5, <2>6
  <2>8. 1 <= p[x] /\ q[x] <= p[x]
    BY <2>4, <2>5, <2>7
  <2>9. \A k \in 0 .. x : p[k] <= p[x]
    <3> SUFFICES ASSUME NEW k \in 0 .. x PROVE p[k] <= p[x]
      OBVIOUS
    <3>1. CASE k = x
      BY <2>7, <3>1
    <3>2. CASE k # x
      <4>1. k \in 0 .. w /\ p[k] \in Nat
        BY <1>1, <2>3, <3>2
      <4> QED BY <2>4, <2>5, <2>7, <4>1
    <3> QED BY <3>1, <3>2
  <2> QED BY <2>1, <2>8, <2>9
<1> QED BY <1>2 DEF p, q

-----------------------------------------------------------------------------
(* The curve.  In the loop base is initial * multiplier^i, and i has not   *)
(* passed attempt - 1; leaving it, by the break or by the clamp, makes     *)
(* base the point of the curve.                                            *)

CurveInv ==
  /\ RetryInv
  /\ cfg.multiplier >= 2
  /\ attempt = 0 => pc = "done"
  /\ pc = "loop" => i <= attempt - 1 /\ base = cfg.initial * Powers(cfg.multiplier)[i]
  /\ pc = "jitter" => base = Curve
  /\ LoopIsShort
  /\ FollowsCurve

\* The loop starts at initial * multiplier^0.
LEMMA CurveInit == Init => CurveInv
<1> SUFFICES ASSUME Init PROVE CurveInv
  OBVIOUS
<1>1. RetryInv
  BY RetryInit
<1>2. cfg \in Configs /\ cfg.multiplier >= 2
  BY DefaultedType DEF Init
<1>3. cfg.initial \in Nat /\ cfg.multiplier \in Nat /\ attempt \in Nat
  BY <1>2, WordAssumption DEF Init, Configs, Uint32
<1>4. Powers(cfg.multiplier)[0] = 1 /\ Powers(2)[0] = 1
  BY <1>3, PowersStep
<1>5. LoopIsShort
  BY <1>4, WordAssumption DEF Init, LoopIsShort
<1>6. FollowsCurve
  BY <1>3 DEF Init, FollowsCurve
<1>7. pc = "loop" => i <= attempt - 1 /\ base = cfg.initial * Powers(cfg.multiplier)[i]
  BY <1>3, <1>4 DEF Init
<1> QED BY <1>1, <1>2, <1>5, <1>6, <1>7 DEF CurveInv, Init

\* The types and ranges the steps below rely on.
LEMMA CurveTypes ==
  ASSUME CurveInv
  PROVE  /\ cfg.initial \in Nat /\ cfg.multiplier \in Nat /\ cfg.max \in 0 .. Word - 1
         /\ attempt \in Nat /\ base \in Nat /\ i \in Nat /\ delay \in Nat
         /\ Powers(cfg.multiplier)[i] \in Nat /\ Powers(2)[i] \in Nat
<1>1. /\ cfg.initial \in Nat /\ cfg.multiplier \in Nat /\ cfg.max \in 0 .. Word - 1
      /\ attempt \in Nat /\ base \in Nat /\ i \in Nat /\ delay \in Nat
  <2>1. cfg.initial \in Uint32 /\ cfg.multiplier \in Uint32 /\ cfg.max \in Uint32
    BY DEF CurveInv, RetryInv, TypeOK, Configs
  <2> QED BY <2>1, WordAssumption DEF CurveInv, RetryInv, TypeOK, Uint32, Uint64
<1> QED BY <1>1, PowersStep

\* One iteration: one more power, and still below twice the cap.
LEMMA CurveMultiply ==
  ASSUME CurveInv, Multiply
  PROVE  /\ i + 1 <= attempt - 1
         /\ base' = cfg.initial * Powers(cfg.multiplier)[i + 1]
         /\ cfg.initial > 0 => Powers(2)[i + 1] <= 2 * Word
<1> DEFINE m == cfg.multiplier
           c == cfg.initial
           p == Powers(m)[i]
           q == Powers(2)[i]
<1>1. /\ c \in Nat /\ m \in Nat /\ m >= 2 /\ cfg.max \in 0 .. Word - 1
      /\ attempt \in Nat /\ base \in Nat /\ i \in Nat /\ p \in Nat /\ q \in Nat
  BY CurveTypes DEF CurveInv
<1>2. i + 1 <= attempt - 1 /\ base < cfg.max /\ base = c * p
  BY <1>1 DEF Multiply, InLoop, CurveInv
<1>3. Powers(m)[i + 1] = m * p /\ Powers(2)[i + 1] = 2 * q
  BY <1>1, PowersStep
<1>4. q <= p
  BY <1>1, PowersGrow
<1>5. base' = base * m
  <2>1. base * m \in Uint64
    <3>1. base \in Uint32 /\ m \in Uint32
      <4>1. m \in Uint32
        BY DEF CurveInv, RetryInv, TypeOK, Configs
      <4>2. base \in Uint32
        BY <1>1, <1>2, WordAssumption DEF Uint32
      <4> QED BY <4>1, <4>2
    <3> QED BY <3>1, ProductFits
  <2>2. \A x \in Uint64 : x % (Word * Word) = x
    <3>1. Word * Word \in Nat /\ Word * Word > 0
      BY WordAssumption
    <3> QED BY <3>1 DEF Uint64
  <2> QED BY <2>1, <2>2 DEF Multiply
<1> HIDE DEF m, c, p, q
<1>6. (c * p) * m = c * (m * p)
  BY <1>1
<1>7. c > 0 => p <= c * p
  BY <1>1
<1>8. c > 0 => 2 * q <= 2 * Word
  BY <1>1, <1>2, <1>4, <1>7, WordAssumption
<1> QED BY <1>2, <1>3, <1>5, <1>6, <1>8 DEF m, c

\* Whichever way the loop is left, base is the point of the curve.
LEMMA CurveLeave ==
  ASSUME CurveInv, Break \/ Clamp
  PROVE  base' = Curve
<1> DEFINE m == cfg.multiplier
           c == cfg.initial
           p == Powers(m)[i]
           z == Powers(m)[attempt - 1]
<1>1. /\ c \in Nat /\ m \in Nat /\ m >= 2 /\ cfg.max \in Nat
      /\ attempt \in Nat /\ base \in Nat /\ i \in Nat /\ p \in Nat
  BY CurveTypes, WordAssumption DEF CurveInv
<1>2. i <= attempt - 1 /\ base = c * p
  BY <1>1 DEF Break, Clamp, CurveInv
<1>3. attempt - 1 \in Nat /\ i \in 0 .. attempt - 1 /\ z \in Nat
  BY <1>1, <1>2, PowersStep
<1>4. Power = c * z
  BY DEF Power
<1>5. CASE Break
  <2>1. p <= z
    BY <1>1, <1>3, PowersGrow
  <2>2. base >= cfg.max /\ base' = cfg.max
    BY <1>5 DEF Break
  <2> HIDE DEF m, c, p, z
  <2>3. c * p <= c * z /\ c * z \in Nat
    BY <1>1, <1>3, <2>1
  <2> QED BY <1>1, <1>2, <1>4, <2>2, <2>3 DEF Curve
<1>6. CASE Clamp
  <2>1. i = attempt - 1
    BY <1>1, <1>2, <1>6 DEF Clamp, InLoop
  <2> QED BY <1>2, <1>4, <1>6, <2>1 DEF Clamp, Curve
<1> QED BY <1>5, <1>6

\* Jitter takes away at most half, and adds nothing.
LEMMA CurveJitter ==
  ASSUME CurveInv, Jitter
  PROVE  delay' <= Curve /\ 2 * delay' >= Curve - 1 /\ (~cfg.jitter => delay' = Curve)
<1>1. base \in Uint32 /\ random \in Uint32 /\ base = Curve /\ base <= cfg.max
  BY CurveTypes, WordAssumption DEF CurveInv, RetryInv, TypeOK, Jitter, Uint32
<1>2. Jittered(base, random) \in 0 .. base
  BY <1>1, JitterBound
<1>3. 2 * Jittered(base, random) >= base - 1
  <2> DEFINE h == base \div 2
  <2>1. h \in Nat /\ 2 * h >= base - 1
    BY <1>1, WordAssumption DEF Uint32
  <2>2. random % (h + 1) \in Nat
    <3> HIDE DEF h
    <3> QED BY <1>1, <2>1, WordAssumption DEF Uint32
  <2>3. 2 * (h + (random % (h + 1))) >= base - 1
    <3> HIDE DEF h
    <3> QED BY <1>1, <2>1, <2>2, WordAssumption DEF Uint32
  <2> QED BY <2>3 DEF Jittered
<1>4. base \in Nat /\ cfg.max \in Nat
  BY <1>1, CurveTypes, WordAssumption
<1>5. delay' = base \/ (cfg.jitter /\ delay' = Jittered(base, random))
  BY <1>1, <1>2, <1>4 DEF Jitter
<1> QED BY <1>1, <1>2, <1>3, <1>4, <1>5

\* Every step stays on the curve.
LEMMA CurveNext == CurveInv /\ [Next]_vars => CurveInv'
<1> SUFFICES ASSUME CurveInv, [Next]_vars PROVE CurveInv'
  OBVIOUS
<1> USE DEF input, vars
<1>0. RetryInv'
  BY RetryNext DEF CurveInv
<1>1. CASE Multiply
  <2>1. /\ i' <= attempt' - 1
        /\ base' = cfg'.initial * Powers(cfg'.multiplier)[i']
        /\ cfg'.initial > 0 => Powers(2)[i'] <= 2 * Word
    BY <1>1, CurveMultiply DEF Multiply
  <2> QED BY <1>0, <1>1, <2>1 DEF CurveInv, Multiply, LoopIsShort, FollowsCurve
<1>2. CASE Break \/ Clamp
  <2>1. base' = Curve'
    BY <1>2, CurveLeave DEF Break, Clamp, Curve, Power
  <2> QED BY <1>0, <1>2, <2>1 DEF CurveInv, Break, Clamp, LoopIsShort, FollowsCurve
<1>3. CASE Jitter
  <2>1. Curve' = Curve
    BY <1>3 DEF Jitter, Curve, Power
  <2>2. FollowsCurve'
    BY <1>3, <2>1, CurveJitter DEF Jitter, FollowsCurve
  <2> QED BY <1>0, <1>3, <2>2 DEF CurveInv, Jitter, LoopIsShort
<1>4. CASE Done \/ UNCHANGED vars
  <2>1. Curve' = Curve
    BY <1>4 DEF Done, Curve, Power
  <2> QED BY <1>0, <1>4, <2>1 DEF CurveInv, Done, LoopIsShort, FollowsCurve
<1> QED BY <1>1, <1>2, <1>3, <1>4 DEF Next

\* The delay is the point of the curve that RELIABILITY.md:68-79 and
\* edgesync_retry.h:39-44 define, less at most half of it when jitter is on,
\* for every width, configuration, attempt count and random value
\* (edgesync_retry.c:19-55).
THEOREM FollowsTheCurve == Spec => []FollowsCurve
<1>1. CurveInv => FollowsCurve
  BY DEF CurveInv
<1> QED BY <1>1, CurveInit, CurveNext, PTL DEF Spec

\* The loop of edgesync_retry.c:32-38 runs at most about as often as a
\* uint32_t has bits, whatever the attempt count, for every initial delay but 0.
THEOREM LoopStaysShort == Spec => []LoopIsShort
<1>1. CurveInv => LoopIsShort
  BY DEF CurveInv
<1> QED BY <1>1, CurveInit, CurveNext, PTL DEF Spec
=============================================================================
