-------------------------- MODULE EncoderSetupProofs --------------------------
(***************************************************************************)
(* For every caller, environment and set of mode ladders: the resolved     *)
(* precision and divisors fit the codes, the ladder is scaled once, the    *)
(* buffers are those of the path encode() takes, and the fused threshold   *)
(* of Pixel Clean equals the two literal rules for every divisor create()  *)
(* hands on.  The last rests on the quantiser being monotone in the        *)
(* magnitude: the scan finds exactly the magnitudes whose level is at most *)
(* 1.  And every word of a source that create() shifts or byte-swaps is     *)
(* inside the table make_lut built, for a precision below 64 bits.         *)
(***************************************************************************)
EXTENDS EncoderSetup, TLAPS

-----------------------------------------------------------------------------
(* The Pixel Clean threshold.                                              *)

\* Floor division is monotone, for the one divisor the quantiser shifts by.
LEMMA ShiftMonotone ==
    ASSUME NEW a \in Nat, NEW b \in Nat, a <= b
    PROVE  /\ a \div 65536 \in Nat
           /\ a \div 65536 <= b \div 65536
  OBVIOUS

\* Multiplication by a natural number is monotone.
LEMMA TimesMonotone ==
    ASSUME NEW a \in Nat, NEW b \in Nat, NEW k \in Nat, a <= b
    PROVE  a * k \in Nat /\ a * k <= b * k
  OBVIOUS

LEMMA MidpointMultiplier ==
    ASSUME NEW q \in Nat, q > 1
    PROVE  midpoint(q) \in Nat /\ multiplier(q) \in Nat
  BY DEF midpoint, multiplier

\* The quantiser is monotone in the magnitude.
LEMMA LevelMonotone ==
    ASSUME NEW q \in Nat, q > 1, NEW a \in Nat, NEW b \in Nat, a <= b
    PROVE  Level(a, q) \in Nat /\ Level(a, q) <= Level(b, q)
  <1> DEFINE x == a + midpoint(q)
             y == b + midpoint(q)
             k == multiplier(q)
  <1>1. x \in Nat /\ y \in Nat /\ k \in Nat /\ x <= y
    BY MidpointMultiplier
  <1>2. x * k \in Nat /\ y * k \in Nat /\ x * k <= y * k
    <2> HIDE DEF x, y, k
    <2> QED BY <1>1, TimesMonotone
  <1> HIDE DEF x, y, k
  <1>3. (x * k) \div 65536 \in Nat /\ (x * k) \div 65536 <= (y * k) \div 65536
    <2> DEFINE u == x * k
               w == y * k
    <2>1. u \in Nat /\ w \in Nat /\ u <= w
      BY <1>2
    <2> HIDE DEF u, w
    <2>2. u \div 65536 \in Nat /\ u \div 65536 <= w \div 65536
      BY <2>1, ShiftMonotone
    <2> QED BY <2>2 DEF u, w
  <1> QED BY <1>3 DEF Level, x, y, k

LEMMA LevelOfZero ==
    ASSUME NEW q \in Nat, q > 1
    PROVE  Level(0, q) = 0
  <1> DEFINE h == q \div 2
             k == multiplier(q)
             m == midpoint(q)
  <1>1. /\ h \in Nat /\ k \in Nat /\ m \in Nat
        /\ 2 * h <= q /\ m <= h
    BY MidpointMultiplier DEF midpoint
  <1>2. q * k <= 65536
    BY DEF multiplier
  <1>3. (2 * m) * k <= q * k
    <2>1. 2 * m \in Nat /\ 2 * m <= q
      BY <1>1
    <2> HIDE DEF m, k
    <2> QED BY <2>1, <1>1, TimesMonotone
  <1>4. m * k \in Nat /\ 2 * (m * k) <= 65536
    <2>1. m * k \in Nat
      <3> HIDE DEF m, k
      <3> QED BY <1>1, TimesMonotone
    <2>2. (2 * m) * k = 2 * (m * k)
      <3> HIDE DEF m, k
      <3> QED BY <1>1
    <2> QED BY <2>1, <2>2, <1>2, <1>3, <1>1
  <1>5. (m * k) \div 65536 = 0
    <2> DEFINE p == m * k
    <2>1. p \in Nat /\ 2 * p <= 65536
      BY <1>4
    <2> HIDE DEF p
    <2>2. p \div 65536 = 0
      BY <2>1
    <2> QED BY <2>2 DEF p
  <1> QED BY <1>5, <1>1 DEF Level

\* The level's magnitude depends on the coefficient's magnitude alone, ...
LEMMA LevelMagnitude ==
    ASSUME NEW q \in Nat, q > 0, NEW v \in Int
    PROVE  /\ Magnitude(v) \in Nat
           /\ cpu_quantize_exact(v, q) \in Int
           /\ Magnitude(cpu_quantize_exact(v, q)) \in Nat
           /\ Magnitude(cpu_quantize_exact(v, q)) =
                  Magnitude(cpu_quantize_exact(Magnitude(v), q))
  <1>1. CASE q = 1
    BY <1>1 DEF cpu_quantize_exact, Magnitude
  <1>2. CASE q > 1
    <2>1. Magnitude(v) \in Nat
      BY DEF Magnitude
    <2>2. Level(Magnitude(v), q) \in Nat
      BY <1>2, <2>1, LevelMonotone
    <2> QED BY <1>2, <2>1, <2>2 DEF cpu_quantize_exact, Magnitude
  <1> QED BY <1>1, <1>2

\* ... and grows with it.
LEMMA MagnitudeMonotone ==
    ASSUME NEW q \in Nat, q > 0, NEW a \in Nat, NEW b \in Nat, a <= b
    PROVE  Magnitude(cpu_quantize_exact(a, q))
             <= Magnitude(cpu_quantize_exact(b, q))
  <1>1. CASE q = 1
    BY <1>1 DEF cpu_quantize_exact, Magnitude
  <1>2. CASE q > 1
    <2>1. Level(a, q) \in Nat /\ Level(b, q) \in Nat /\ Level(a, q) <= Level(b, q)
      BY <1>2, LevelMonotone
    <2> QED BY <1>2, <2>1 DEF cpu_quantize_exact, Magnitude
  <1> QED BY <1>1, <1>2

LEMMA QuantiserOfZero ==
    ASSUME NEW q \in Nat, q > 0
    PROVE  cpu_quantize_exact(0, q) = 0
  BY LevelOfZero DEF cpu_quantize_exact

-----------------------------------------------------------------------------
\* The product the quantiser shifts stays below 2^31 for every coefficient a
\* 16-bit word holds: C++ int arithmetic is exact there.
THEOREM ProductFits ==
    ASSUME NEW q \in Nat, 1 < q, q <= 32767, NEW m \in Nat, m <= 32767
    PROVE  (m + midpoint(q)) * multiplier(q) < 2147483648
  <1> DEFINE k == multiplier(q)
             d == midpoint(q)
  <1>1. q \in Nat /\ q > 1 /\ m \in Nat
    OBVIOUS
  <1>2. k \in Nat /\ d \in Nat
    BY <1>1, MidpointMultiplier
  <1>3. q * k <= 65536 /\ k <= 32768
    BY <1>1 DEF multiplier
  <1>4. d <= q
    BY <1>1 DEF midpoint
  <1> HIDE DEF k, d
  <1>5. m * k <= 32767 * k
    BY <1>2, TimesMonotone
  <1>6. d * k <= q * k
    BY <1>1, <1>2, <1>4, TimesMonotone
  <1>7. (m + d) * k = m * k + d * k
    BY <1>1, <1>2
  <1>8. m * k \in Nat /\ d * k \in Nat /\ q * k \in Nat
    BY <1>1, <1>2, TimesMonotone
  <1>9. (m + d) * k < 2147483648
    BY <1>2, <1>3, <1>5, <1>6, <1>7, <1>8
  <1> QED BY <1>9 DEF k, d

-----------------------------------------------------------------------------
\* Where the scan stands, and where it stopped, for whatever divisor.
ThresholdInv ==
    /\ divisor \in Nat /\ divisor > 0 /\ l1_colour \in BOOLEAN
    /\ t \in 0..T_LIMIT /\ pc_t \in 0..T_LIMIT
    /\ FusedIsLiteral
    /\ l1_colour => Magnitude(cpu_quantize_exact(t, divisor)) <= 1
    /\ at # "scan" =>
         /\ l1_colour => ~(t < T_LIMIT /\ StillOne)
         /\ pc_t = IF l1_colour THEN Larger(deadzone125_threshold(divisor), t)
                               ELSE deadzone125_threshold(divisor)

\* The dead-zone threshold is the integer form of the strict float compare.
LEMMA DeadZone ==
    ASSUME NEW q \in Nat, q > 0, NEW m \in 0..VMAX
    PROVE  /\ deadzone125_threshold(q) \in 0..T_LIMIT
           /\ q > 1 => (8 * m < 5 * q <=> m <= deadzone125_threshold(q))
           /\ q > 1 /\ T_LIMIT > 0 => deadzone125_threshold(q) > 0
           /\ q = 1 => deadzone125_threshold(q) = 0
  BY PixelAssumption DEF deadzone125_threshold, Smaller

\* At a resolved threshold the two agree on every coefficient.
LEMMA ResolvedAgrees ==
    ASSUME ThresholdInv, at # "scan"
    PROVE  Agree
  <1> SUFFICES ASSUME NEW v \in -VMAX .. VMAX
               PROVE  Fused(v, divisor, pc_t) = Literal(v, divisor, l1_colour)
    BY DEF Agree
  <1> DEFINE q == divisor
             m == Magnitude(v)
             level == cpu_quantize_exact(v, q)
             dz == deadzone125_threshold(q)
  <1>1. /\ q \in Nat /\ q > 0 /\ v \in Int /\ t \in Nat
        /\ VMAX \in Nat /\ T_LIMIT \in Nat /\ VMAX <= T_LIMIT /\ t <= T_LIMIT
    BY PixelAssumption DEF ThresholdInv
  <1>2. m \in 0..VMAX /\ m \in Nat
    BY <1>1 DEF Magnitude
  <1>3. /\ dz \in 0..T_LIMIT
        /\ q > 1 => (8 * m < 5 * q <=> m <= dz)
        /\ q = 1 => dz = 0
    BY <1>1, <1>2, DeadZone
  <1>4. /\ level \in Int
        /\ Magnitude(level) \in Nat
        /\ Magnitude(level) = Magnitude(cpu_quantize_exact(m, q))
    BY <1>1, LevelMagnitude
  <1>5. m = 0 => level = 0
    BY <1>1, QuantiserOfZero DEF Magnitude
  <1>6. CASE ~l1_colour
    <2>1. pc_t = dz
      BY <1>6 DEF ThresholdInv
    <2>2. CASE m <= dz
      <3>1. q > 1 \/ level = 0
        BY <1>1, <1>2, <1>3, <1>5, <2>2
      <3>2. q > 1 => 8 * m < 5 * q
        BY <1>3, <2>2
      <3>3. dz > 0 \/ level = 0
        BY <1>2, <1>3, <1>5, <2>2
      <3>4. Fused(v, q, pc_t) = 0
        BY <2>1, <2>2, <3>3 DEF Fused
      <3>5. Literal(v, q, l1_colour) = 0
        BY <3>1, <3>2 DEF Literal
      <3> QED BY <3>4, <3>5
    <2>3. CASE ~(m <= dz)
      <3>1. ~(q > 1 /\ 8 * m < 5 * q)
        BY <1>3, <2>3
      <3>2. Fused(v, q, pc_t) = level
        BY <2>1, <2>3 DEF Fused
      <3>3. Literal(v, q, l1_colour) = level
        BY <3>1, <1>6 DEF Literal
      <3> QED BY <3>2, <3>3
    <2> QED BY <2>2, <2>3
  <1>7. CASE l1_colour
    <2>1. pc_t = Larger(dz, t)
      BY <1>7 DEF ThresholdInv
    <2>2. m <= pc_t <=> m <= dz \/ m <= t
      BY <2>1, <1>1, <1>2, <1>3 DEF Larger
    <2>3. m <= t => Magnitude(level) <= 1
      <3> SUFFICES ASSUME m <= t PROVE Magnitude(level) <= 1
        OBVIOUS
      <3>1. Magnitude(cpu_quantize_exact(m, q))
              <= Magnitude(cpu_quantize_exact(t, q))
        BY <1>1, <1>2, MagnitudeMonotone
      <3>2. Magnitude(cpu_quantize_exact(t, q)) <= 1
        BY <1>7 DEF ThresholdInv
      <3>3. Magnitude(cpu_quantize_exact(t, q)) \in Nat
        BY <1>1, LevelMagnitude
      <3> HIDE DEF m, level, q
      <3> QED BY <1>4, <3>1, <3>2, <3>3
    <2>4. ~(m <= t) => Magnitude(level) > 1
      <3> SUFFICES ASSUME ~(m <= t) PROVE Magnitude(level) > 1
        OBVIOUS
      <3>1. t < T_LIMIT /\ t + 1 <= m
        BY <1>1, <1>2
      <3>2. ~(Magnitude(cpu_quantize_exact(t + 1, q)) <= 1)
        BY <1>7, <3>1 DEF ThresholdInv, StillOne
      <3>3. Magnitude(cpu_quantize_exact(t + 1, q))
              <= Magnitude(cpu_quantize_exact(m, q))
        BY <1>1, <1>2, <3>1, MagnitudeMonotone
      <3>4. Magnitude(cpu_quantize_exact(t + 1, q)) \in Nat
        BY <1>1, LevelMagnitude
      <3> HIDE DEF m, level, q
      <3> QED BY <1>4, <3>2, <3>3, <3>4
    <2>5. level = 0 \/ Magnitude(level) = 1 \/ Magnitude(level) > 1
      <3> HIDE DEF level
      <3> QED BY <1>4 DEF Magnitude
    <2>6. CASE m <= dz \/ m <= t
      <3>1. pc_t > 0 \/ level = 0
        BY <1>1, <1>2, <1>3, <1>5, <2>1, <2>6 DEF Larger
      <3>2. Fused(v, q, pc_t) = 0
        BY <2>2, <2>6, <3>1 DEF Fused
      <3>3. \/ q > 1 /\ 8 * m < 5 * q
            \/ level = 0
            \/ Magnitude(level) = 1
        BY <1>1, <1>2, <1>3, <1>5, <2>3, <2>5, <2>6, <1>4
      <3>4. Literal(v, q, l1_colour) = 0
        BY <1>7, <3>3 DEF Literal
      <3> QED BY <3>2, <3>4
    <2>7. CASE ~(m <= dz \/ m <= t)
      <3>1. ~(q > 1 /\ 8 * m < 5 * q)
        BY <1>3, <2>7
      <3>2. Magnitude(level) # 1
        BY <2>4, <2>7, <1>4
      <3>3. Fused(v, q, pc_t) = level
        BY <2>2, <2>7 DEF Fused
      <3>4. Literal(v, q, l1_colour) = level
        BY <3>1, <3>2 DEF Literal
      <3> QED BY <3>3, <3>4
    <2> QED BY <2>6, <2>7
  <1> QED BY <1>6, <1>7

LEMMA ScanBegins ==
    ASSUME divisor \in Nat, divisor > 0, l1_colour \in BOOLEAN,
           at = "scan", t = 0, pc_t = 0
    PROVE  ThresholdInv
  <1>1. Magnitude(cpu_quantize_exact(0, divisor)) <= 1
    BY QuantiserOfZero DEF Magnitude
  <1> QED BY <1>1, PixelAssumption DEF ThresholdInv, FusedIsLiteral

LEMMA ThresholdStep ==
    ASSUME ThresholdInv, [PixelNext]_pixelVars
    PROVE  ThresholdInv'
  <1>1. CASE Scan
    BY <1>1, PixelAssumption DEF Scan, StillOne, ThresholdInv, FusedIsLiteral
  <1>2. CASE Resolve
    <2>1. deadzone125_threshold(divisor) \in 0..T_LIMIT
      BY DeadZone, PixelAssumption DEF ThresholdInv
    <2>2. pc_t' \in 0..T_LIMIT
      BY <1>2, <2>1, PixelAssumption DEF Resolve, Larger, ThresholdInv
    <2> QED BY <1>2, <2>2 DEF Resolve, StillOne, ThresholdInv, FusedIsLiteral
  <1>3. CASE Compare
    <2>1. Agree
      BY <1>3, ResolvedAgrees DEF Compare
    <2> QED BY <1>3, <2>1 DEF Compare, StillOne, ThresholdInv, FusedIsLiteral
  <1>4. CASE UNCHANGED pixelVars
    BY <1>4 DEF pixelVars, StillOne, ThresholdInv, FusedIsLiteral
  <1> QED BY <1>1, <1>2, <1>3, <1>4 DEF PixelNext

\* The tool: the scan and the comparison keep their types, and no divisor of its
\* range, colour plane or coefficient tells the encoder's one compare from the
\* two rules it stands for.
THEOREM FusedEquivalence == PixelSpec => [](PixelTypeOK /\ FusedIsLiteral)
  <1>1. PixelInit => PixelTypeOK /\ ThresholdInv
    <2> SUFFICES ASSUME PixelInit PROVE PixelTypeOK /\ ThresholdInv
      OBVIOUS
    <2>1. divisor \in Nat /\ divisor > 0
      BY PixelAssumption DEF PixelInit
    <2> QED BY <2>1, ScanBegins, PixelAssumption DEF PixelInit, PixelTypeOK
  <1>2. PixelTypeOK /\ ThresholdInv /\ [PixelNext]_pixelVars
          => PixelTypeOK' /\ ThresholdInv'
    <2> SUFFICES ASSUME PixelTypeOK, ThresholdInv, [PixelNext]_pixelVars
                 PROVE  PixelTypeOK' /\ ThresholdInv'
      OBVIOUS
    <2>1. ThresholdInv'
      BY ThresholdStep
    <2>2. at' \in {"scan", "compare", "equivalent", "mismatch"} /\ divisor' \in Divisors
      BY DEF PixelTypeOK, PixelNext, Scan, Resolve, Compare, pixelVars
    <2> QED BY <2>1, <2>2 DEF ThresholdInv, PixelTypeOK
  <1>3. ThresholdInv => FusedIsLiteral
    BY DEF ThresholdInv
  <1> QED BY <1>1, <1>2, <1>3, PTL DEF PixelSpec

-----------------------------------------------------------------------------
(* create(): what holds between its steps.                                 *)

\* Before the ladder, and before the buffers, are there.
Untabled == {"check", "options", "range", "source", "compand", "tables"}
Unplanned == Untabled \cup {"bands", "plan"}
Ended == {"failed", "resolving"}

Steps == Unplanned \cup {"writer", "created"} \cup Ended

InputsKept ==
    /\ step \in Steps
    /\ step # "resolving" => cfg \in Config /\ env \in Environment
    /\ step \notin Ended \cup {"check"} => ~BadFrame

\* A precision is asked for in two ways, and reduced by one of them only; the
\* largest code is that of the container's precision.
PrecisionInv ==
    /\ DOMAIN o = DOMAIN Options
    /\ o.quant \in Nat /\ o.quant > 0
    /\ o.quant_scale \in BOOLEAN /\ o.cpu_sidecar \in BOOLEAN
    /\ o.compand_bits \in 10..12 /\ o.inframe_bits \in 10..12
    /\ o.compand_bits = 12 \/ o.inframe_bits = 12
    /\ step \in {"check", "options", "range", "source", "compand"}
         => o.inframe_bits = 12
    /\ o.working_max \in IF o.compand_bits = 12 THEN {4094, 4095}
                         ELSE {CodeTop(o.compand_bits)}

\* A band of a table that is there: overridden, or the ladder's.
Band(b) ==
    /\ table[b] \in Int /\ 1 <= table[b] /\ table[b] <= 32767
    /\ o.quant_scale => Overridden(b, table[b]) \/ Follows(table[b], Ladders[cfg.mode][b])

TableInv ==
    /\ step \in Untabled \cup Ended => table = NoTable
    /\ table # NoTable => /\ DOMAIN table = Bands
                          /\ step \in {"bands", "plan", "writer", "created"}
                          /\ \A b \in Bands : Band(b)
    /\ step = "bands" =>
         /\ table # NoTable /\ items \in Seq(Int \X Int)
         /\ \A i \in 1..Len(items) : \E j \in 1..Len(env.band_q) :
              items[i] = env.band_q[j]

BuffersInv ==
    /\ DOMAIN impl = DOMAIN Nothing
    /\ step \in Unplanned \cup Ended => impl = Nothing
    /\ step \in {"writer", "created"} =>
         /\ ~impl.hybrid => impl.coeff = 4 * PlaneStride
         /\ impl.hybrid => impl.sidecar = 0
         /\ o.cpu_sidecar <=> impl.sidecar > 0
         /\ o.cpu_sidecar => 8 * impl.sidecar >= 4 * PlaneStride
    /\ step = "created" => impl.writer

ConfigInv == InputsKept /\ PrecisionInv /\ TableInv /\ BuffersInv

LEMMA StepValues ==
  /\ Step(10) = 4 /\ Step(11) = 2 /\ Step(12) = 1
  /\ CodeTop(10) = 1023 /\ CodeTop(11) = 2047
  BY DEF Step, CodeTop

\* The scaled ladder fits the quantiser and follows the ladder.
LEMMA LadderFits ==
  ASSUME PrecisionInv, NEW base \in Nat, 1 <= base, base <= 32767
  PROVE  LET q == Widened(Reduced(base)) IN
         /\ q \in Int /\ 1 <= q /\ q <= 32767
         /\ o.quant_scale => Follows(q, base)
<1>1. CASE ~ o.quant_scale
  BY <1>1 DEF Widened, Reduced
<1>2. CASE o.quant_scale /\ o.compand_bits = 12
  <2>1. Reduced(base) = base
    <3>1. (base + 1 \div 2) \div 1 = base
      OBVIOUS
    <3> QED BY <1>2, <3>1, StepValues DEF Reduced
  <2>2. Step(o.compand_bits) = 1 /\ Step(o.inframe_bits) \in {1, 2, 4}
    BY <1>2, StepValues DEF PrecisionInv
  <2>3. Widened(base) = IF base * Step(o.inframe_bits) > 32767 THEN 32767
                        ELSE base * Step(o.inframe_bits)
    BY <1>2 DEF Widened
  <2> DEFINE up == Step(o.inframe_bits)
             q == Widened(base)
  <2>4. /\ up \in {1, 2, 4} /\ q = IF base * up > 32767 THEN 32767 ELSE base * up
    BY <2>2, <2>3
  <2> HIDE DEF up, q
  <2>5. /\ q \in Int /\ 1 <= q /\ q <= 32767
        /\ \/ q = 32767 /\ base * up > 32767
           \/ 2 * (q * 1 - base * up) <= 1 /\ 2 * (base * up - q * 1) <= 1
    BY <2>4
  <2> QED BY <2>1, <2>2, <2>5 DEF Follows, up, q
<1>3. ASSUME o.quant_scale, o.compand_bits # 12
      PROVE  LET q == Widened(Reduced(base)) IN
             /\ q \in Int /\ 1 <= q /\ q <= 32767
             /\ Follows(q, base)
  <2> DEFINE s == Step(o.compand_bits)
             r == (base + s \div 2) \div s
             q == IF r < 1 THEN 1 ELSE r
  <2>1. s \in {2, 4} /\ Step(o.inframe_bits) = 1
    BY <1>3, StepValues DEF PrecisionInv
  <2>2. Reduced(base) = q
    BY <1>3 DEF Reduced
  <2>3. /\ q \in Int /\ 1 <= q /\ q <= 32767
        /\ \/ q = 1 /\ base < s
           \/ 2 * (q * s - base * 1) <= s /\ 2 * (base * 1 - q * s) <= s
    <3>1. CASE s = 2
      BY <3>1
    <3>2. CASE s = 4
      BY <3>2
    <3> QED BY <2>1, <3>1, <3>2
  <2> HIDE DEF q
  <2>4. Widened(q) = q
    BY <1>3, <2>1, <2>3 DEF Widened
  <2> QED BY <2>1, <2>2, <2>3, <2>4 DEF Follows
<1> QED BY <1>1, <1>2, <1>3 DEF PrecisionInv

LEMMA ConfigInitially == ConfigInit => ConfigInv
<1> SUFFICES ASSUME ConfigInit PROVE ConfigInv
  OBVIOUS
<1>1. InputsKept
  BY ConfigAssumption DEF ConfigInit, InputsKept, Steps, Unplanned, Untabled
<1>2. PrecisionInv
  BY DEF ConfigInit, PrecisionInv, Options
<1>3. TableInv
  BY DEF ConfigInit, TableInv, NoTable
<1>4. BuffersInv
  BY DEF ConfigInit, BuffersInv, Nothing
<1> QED BY <1>1, <1>2, <1>3, <1>4 DEF ConfigInv

\* What create() refuses, or runs out of memory for, leaves nothing behind.
LEMMA FailKeeps ==
  ASSUME ConfigInv, Fail, step \notin Ended
  PROVE  ConfigInv'
<1> USE DEF Fail
<1>1. InputsKept'
  BY DEF ConfigInv, InputsKept, Steps, Ended
<1>2. PrecisionInv'
  BY DEF PrecisionInv, Options
<1>3. TableInv'
  BY DEF TableInv, NoTable
<1>4. BuffersInv'
  BY DEF BuffersInv, Nothing
<1> QED BY <1>1, <1>2, <1>3, <1>4 DEF ConfigInv

\* A step before the ladder: only the options change.
LEMMA OptionsStep ==
  ASSUME ConfigInv, UNCHANGED <<cfg, env, table, items, impl>>, PrecisionInv',
         step \in Untabled, step' \in Untabled \cup {"plan"},
         step = "check" => ~BadFrame
  PROVE  ConfigInv'
<1>1. InputsKept'
  <2>1. BadFrame' = BadFrame
    BY DEF BadFrame
  <2> QED BY <2>1 DEF ConfigInv, InputsKept, Steps, Ended, Untabled, Unplanned
<1>2. TableInv'
  <2>1. table = NoTable
    BY DEF ConfigInv, TableInv
  <2> QED BY <2>1 DEF TableInv, NoTable, Untabled
<1>3. BuffersInv'
  <2>1. impl = Nothing /\ DOMAIN impl = DOMAIN Nothing
    BY DEF ConfigInv, BuffersInv, Unplanned
  <2> QED BY <2>1 DEF BuffersInv, Nothing, Untabled
<1> QED BY <1>1, <1>2, <1>3 DEF ConfigInv

LEMMA OptionsSteps ==
  ASSUME ConfigInv, Check \/ Levers \/ Range \/ Source \/ CompandEnv
  PROVE  ConfigInv'
<1>1. PrecisionInv /\ cfg \in Config /\ env \in Environment
  <2>1. step # "resolving"
    BY DEF Check, Levers, Range, Source, CompandEnv
  <2> QED BY <2>1 DEF ConfigInv, InputsKept
<1>2. CASE Check
  <2>1. PrecisionInv'
    BY <1>1, <1>2 DEF Check, PrecisionInv
  <2> QED BY <1>2, <2>1, OptionsStep DEF Check, Untabled
<1>3. CASE Levers
  <2>1. cfg.quant \in Int
    BY <1>1 DEF Config
  <2>2. PrecisionInv'
    BY <1>1, <1>3, <2>1 DEF Levers, PrecisionInv
  <2> QED BY <1>3, <2>2, OptionsStep DEF Levers, Untabled
<1>4. CASE Range
  <2>1. CompandBits \in 10..12
    BY <1>4 DEF Range, RangeOK
  <2>2. PrecisionInv'
    BY <1>1, <1>4, <2>1 DEF Range, PrecisionInv
  <2> QED BY <1>4, <2>2, OptionsStep DEF Range, Untabled
<1>5. CASE Source
  <2>1. PrecisionInv'
    BY <1>1, <1>5 DEF Source, PrecisionInv
  <2> QED BY <1>5, <2>1, OptionsStep DEF Source, Untabled
<1>6. CASE CompandEnv
  <2>1. env.compand_scale \in BOOLEAN \cup {Unset}
    BY <1>1 DEF Environment
  <2> DEFINE companded == IF env.compand_bits \in {10, 11} THEN InFrame ELSE o
             scale == IF env.compand_scale = Unset THEN companded.quant_scale
                      ELSE env.compand_scale
  <2>2. /\ DOMAIN companded = DOMAIN Options
        /\ companded.quant = o.quant /\ companded.quant_scale = o.quant_scale
        /\ companded.cpu_sidecar = o.cpu_sidecar
        /\ companded.compand_bits \in 10..12 /\ companded.inframe_bits \in 10..12
        /\ companded.compand_bits = 12 \/ companded.inframe_bits = 12
        /\ companded.working_max \in
             IF companded.compand_bits = 12 THEN {4094, 4095}
             ELSE {CodeTop(companded.compand_bits)}
    <3>1. CASE env.compand_bits \in {10, 11}
      BY <1>1, <3>1 DEF InFrame, PrecisionInv, Options
    <3>2. CASE env.compand_bits \notin {10, 11}
      BY <1>1, <1>6, <3>2 DEF PrecisionInv, CompandEnv
    <3> QED BY <3>1, <3>2
  <2>3. o' = [companded EXCEPT !.quant_scale = scale] /\ scale \in BOOLEAN
        /\ step' \notin {"check", "options", "range", "source", "compand"}
    BY <1>1, <1>6, <2>1, <2>2 DEF CompandEnv, PrecisionInv
  <2> HIDE DEF companded, scale
  <2>4. PrecisionInv'
    BY <1>1, <2>2, <2>3 DEF PrecisionInv, Options
  <2> QED BY <1>6, <2>4, OptionsStep DEF CompandEnv, Untabled
<1> QED BY <1>2, <1>3, <1>4, <1>5, <1>6

\* The options stay, and what follows from them.
LEMMA PrecisionStays ==
  ASSUME PrecisionInv, step # "check", UNCHANGED o,
         step' \notin {"check", "options", "range", "source", "compand"}
  PROVE  PrecisionInv'
  BY DEF PrecisionInv

LEMMA TablesStep == ASSUME ConfigInv, Tables PROVE ConfigInv'
<1> USE DEF Tables
<1>1. cfg \in Config /\ env \in Environment /\ PrecisionInv
  BY DEF ConfigInv, InputsKept
<1>2. InputsKept'
  <2>1. BadFrame' = BadFrame
    BY DEF BadFrame
  <2> QED BY <2>1 DEF ConfigInv, InputsKept, Steps, Ended, Unplanned, Untabled
<1>3. PrecisionInv'
  BY <1>1, PrecisionStays
<1>4. TableInv'
  <2>1. ASSUME NEW b \in Bands PROVE Band(b)'
    <3> DEFINE base == Ladders[cfg.mode][b]
               q == Widened(Reduced(base))
    <3>1. base \in Nat /\ 1 <= base /\ base <= 32767
      BY ConfigAssumption
    <3>2. /\ q \in Int /\ 1 <= q /\ q <= 32767
          /\ o.quant_scale => Follows(q, base)
      BY <1>1, <3>1, LadderFits
    <3>3. table'[b] = q
      OBVIOUS
    <3>4. ASSUME o'.quant_scale PROVE Follows(table[b], Ladders[cfg.mode][b])'
      <4>1. Follows(q, base)
        BY <3>2, <3>4
      <4> HIDE DEF q
      <4> QED BY <3>3, <4>1 DEF Follows
    <3> HIDE DEF q
    <3> QED BY <3>2, <3>3, <3>4 DEF Band
  <2>2. items' \in Seq(Int \X Int)
    BY <1>1 DEF Environment
  <2>3. DOMAIN table' = Bands /\ table' # NoTable
    <3>1. 0 \in Bands /\ DOMAIN NoTable = {}
      BY DEF Bands, NoTable
    <3> QED BY <3>1
  <2> QED BY <2>1, <2>2, <2>3 DEF TableInv, Untabled, Ended
<1>5. BuffersInv'
  <2>1. impl = Nothing /\ DOMAIN impl = DOMAIN Nothing
    BY DEF ConfigInv, BuffersInv, Unplanned, Untabled
  <2> QED BY <2>1 DEF BuffersInv
<1> QED BY <1>2, <1>3, <1>4, <1>5 DEF ConfigInv

LEMMA BandQStep == ASSUME ConfigInv, BandQ PROVE ConfigInv'
<1> USE DEF BandQ
<1>1. /\ cfg \in Config /\ env \in Environment /\ PrecisionInv
      /\ table # NoTable /\ items \in Seq(Int \X Int) /\ items # <<>>
      /\ DOMAIN table = Bands /\ \A b \in Bands : Band(b)
      /\ \A i \in 1..Len(items) : \E j \in 1..Len(env.band_q) : items[i] = env.band_q[j]
  BY DEF ConfigInv, InputsKept, TableInv
<1>2. InputsKept'
  <2>1. BadFrame' = BadFrame
    BY DEF BadFrame
  <2> QED BY <2>1 DEF ConfigInv, InputsKept
<1>3. PrecisionInv'
  BY <1>1, PrecisionStays
<1>4. TableInv'
  <2> DEFINE x == Head(items)
  <2>1. /\ x \in Int \X Int /\ x = items[1] /\ 1 \in 1..Len(items)
        /\ x = <<x[1], x[2]>>
    BY <1>1
  <2>2. \E j \in 1..Len(env.band_q) : env.band_q[j] = x
    BY <1>1, <2>1
  <2>3. /\ items' \in Seq(Int \X Int)
        /\ \A i \in 1..Len(items') : i + 1 \in 1..Len(items) /\ items'[i] = items[i + 1]
    BY <1>1
  <2> HIDE DEF x
  <2>4. /\ table' = IF InRange(x) THEN [table EXCEPT ![x[1]] = x[2]] ELSE table
        /\ UNCHANGED <<step, cfg, env, o>>
    BY DEF x
  <2>5. ASSUME NEW b \in Bands PROVE Band(b)'
    <3>1. CASE InRange(x) /\ b = x[1]
      <4>1. x[2] \in Int /\ 1 <= x[2] /\ x[2] <= 32767
        BY <2>1, <3>1 DEF InRange
      <4>2. table' = [table EXCEPT ![b] = x[2]] /\ DOMAIN table = Bands
        BY <1>1, <2>4, <3>1
      <4>3. table'[b] = x[2]
        BY <4>2
      <4>4. x = <<b, table'[b]>>
        BY <2>1, <3>1, <4>3
      <4>5. Overridden(b, table[b])'
        <5>1. \E j \in 1..Len(env'.band_q) : env'.band_q[j] = <<b, table'[b]>>
          BY <2>2, <2>4, <4>4
        <5> QED BY <5>1 DEF Overridden
      <4> QED BY <4>1, <4>3, <4>5 DEF Band
    <3>2. CASE ~(InRange(x) /\ b = x[1])
      <4>1. table'[b] = table[b]
        BY <1>1, <2>4, <3>2 DEF InRange
      <4>2. Band(b)
        BY <1>1
      <4> QED BY <2>4, <4>1, <4>2 DEF Band, Overridden, Follows
    <3> QED BY <3>1, <3>2
  <2>6. DOMAIN table' = Bands /\ table' # NoTable
    <3>1. 0 \in Bands /\ DOMAIN NoTable = {}
      BY DEF Bands, NoTable
    <3> QED BY <1>1, <2>4, <3>1
  <2>7. ASSUME NEW i \in 1..Len(items')
        PROVE  \E j \in 1..Len(env'.band_q) : items'[i] = env'.band_q[j]
    BY <1>1, <2>3
  <2> QED BY <2>3, <2>5, <2>6, <2>7 DEF TableInv, Untabled, Ended
<1>5. BuffersInv'
  <2>1. impl = Nothing /\ DOMAIN impl = DOMAIN Nothing
    BY DEF ConfigInv, BuffersInv, Unplanned
  <2> QED BY <2>1 DEF BuffersInv
<1> QED BY <1>2, <1>3, <1>4, <1>5 DEF ConfigInv

\* The table stays, and what it follows from.
LEMMA TableStays ==
  ASSUME TableInv, UNCHANGED <<cfg, env, table>>,
         o'.quant_scale = o.quant_scale, o'.compand_bits = o.compand_bits,
         o'.inframe_bits = o.inframe_bits,
         step \in {"bands", "plan", "writer"}, step' \in {"plan", "writer", "created"}
  PROVE  TableInv'
<1>1. ASSUME NEW b \in Bands, Band(b) PROVE Band(b)'
  BY <1>1 DEF Band, Overridden, Follows
<1> QED BY <1>1 DEF TableInv, Untabled, Ended

LEMMA BandsDoneStep == ASSUME ConfigInv, BandsDone PROVE ConfigInv'
<1> USE DEF BandsDone
<1>1. InputsKept'
  <2>1. BadFrame' = BadFrame
    BY DEF BadFrame
  <2> QED BY <2>1 DEF ConfigInv, InputsKept, Steps, Ended, Unplanned
<1>2. PrecisionInv'
  BY PrecisionStays DEF ConfigInv
<1>3. TableInv'
  BY TableStays DEF ConfigInv
<1>4. BuffersInv'
  BY DEF ConfigInv, BuffersInv, Unplanned
<1> QED BY <1>1, <1>2, <1>3, <1>4 DEF ConfigInv

LEMMA PlanStep == ASSUME ConfigInv, Plan PROVE ConfigInv'
<1> USE DEF Plan
<1>1. /\ cfg \in Config /\ env \in Environment /\ PrecisionInv /\ ~BadFrame
      /\ impl = Nothing
  BY DEF ConfigInv, InputsKept, BuffersInv, Ended, Unplanned
<1>2. InputsKept'
  <2>1. BadFrame' = BadFrame
    BY DEF BadFrame
  <2> QED BY <2>1 DEF ConfigInv, InputsKept, Steps, Ended, Unplanned
<1>3. /\ o' = [o EXCEPT !.cpu_sidecar = @ /\ ~env.direct_hybrid]
      /\ env.direct_hybrid \in BOOLEAN /\ env.lean_coeff \in BOOLEAN
  BY <1>1 DEF Environment
<1>4. PrecisionInv'
  BY <1>1, <1>3 DEF PrecisionInv, Options
<1>5. TableInv'
  <2>1. o'.quant_scale = o.quant_scale /\ o'.compand_bits = o.compand_bits
        /\ o'.inframe_bits = o.inframe_bits
    BY <1>3
  <2> QED BY <2>1, TableStays DEF ConfigInv
<1>6. BuffersInv'
  <2> DEFINE frame == 4 * PlaneStride
             coeff == IF env.direct_hybrid /\ env.lean_coeff THEN 8 ELSE frame
             mask == IF o'.cpu_sidecar THEN coeff \div 8 + 64 ELSE 0
  <2>1. frame \in Nat /\ PlaneStride' = PlaneStride
    <3>1. cfg.width \in Int /\ cfg.height \in Int /\ cfg.width > 0 /\ cfg.height > 0
      BY <1>1 DEF Config, BadFrame
    <3>2. cfg.width \div 2 \in Nat /\ cfg.height \div 2 \in Nat
      BY <3>1
    <3>3. \A x, y \in Nat : x * y \in Nat /\ 4 * (x * y) \in Nat
      OBVIOUS
    <3> QED BY <3>2, <3>3 DEF PlaneStride
  <2>2. /\ DOMAIN impl' = DOMAIN Nothing
        /\ impl'.hybrid = env.direct_hybrid /\ impl'.coeff = coeff
        /\ impl'.sidecar = mask
    BY <1>1 DEF Nothing, CoeffElements
  <2>3. o'.cpu_sidecar \in BOOLEAN /\ (o'.cpu_sidecar => ~env.direct_hybrid)
    <3>1. DOMAIN o = DOMAIN Options /\ o.cpu_sidecar \in BOOLEAN
      BY <1>1 DEF PrecisionInv
    <3>2. o'.cpu_sidecar = (o.cpu_sidecar /\ ~env.direct_hybrid)
      BY <1>3, <3>1 DEF Options
    <3> QED BY <1>3, <3>1, <3>2
  <2> HIDE DEF frame
  <2>4. /\ ~env.direct_hybrid => coeff = frame
        /\ env.direct_hybrid => mask = 0
        /\ o'.cpu_sidecar <=> mask > 0
        /\ o'.cpu_sidecar => 8 * mask >= frame
    BY <1>3, <2>1, <2>3
  <2> HIDE DEF coeff, mask
  <2> QED BY <2>1, <2>2, <2>4 DEF BuffersInv, frame, Unplanned, Untabled, Ended
<1> QED BY <1>2, <1>4, <1>5, <1>6 DEF ConfigInv

LEMMA WriterStep == ASSUME ConfigInv, Writer PROVE ConfigInv'
<1> USE DEF Writer
<1>1. InputsKept'
  <2>1. BadFrame' = BadFrame
    BY DEF BadFrame
  <2> QED BY <2>1 DEF ConfigInv, InputsKept, Steps, Ended
<1>2. PrecisionInv'
  BY PrecisionStays DEF ConfigInv
<1>3. TableInv'
  BY TableStays DEF ConfigInv
<1>4. BuffersInv'
  <2>1. PlaneStride' = PlaneStride
    BY DEF PlaneStride
  <2>2. /\ DOMAIN impl' = DOMAIN impl /\ impl'.writer /\ impl'.hybrid = impl.hybrid
        /\ impl'.coeff = impl.coeff /\ impl'.sidecar = impl.sidecar
    BY DEF ConfigInv, BuffersInv, Nothing
  <2> QED BY <2>1, <2>2 DEF ConfigInv, BuffersInv, Unplanned, Untabled, Ended
<1> QED BY <1>1, <1>2, <1>3, <1>4 DEF ConfigInv

LEMMA ConfigStep == ASSUME ConfigInv, ConfigNext PROVE ConfigInv'
<1>1. CASE Reject \/ OutOfMemory
  <2>1. Fail /\ step \notin Ended
    BY <1>1 DEF Reject, Rejected, OutOfMemory, Ended
  <2> QED BY <2>1, FailKeeps
<1> QED BY <1>1, OptionsSteps, TablesStep, BandQStep, BandsDoneStep, PlanStep,
           WriterStep DEF ConfigNext

LEMMA ConfigStays ==
  ASSUME ConfigInv, UNCHANGED configVars PROVE ConfigInv'
<1> USE DEF configVars
<1>1. InputsKept' /\ PrecisionInv'
  BY DEF ConfigInv, InputsKept, PrecisionInv, BadFrame
<1>2. TableInv'
  <2>1. ASSUME NEW b \in Bands, Band(b) PROVE Band(b)'
    BY <2>1 DEF Band, Overridden, Follows
  <2> QED BY <2>1 DEF ConfigInv, TableInv
<1>3. BuffersInv'
  BY DEF ConfigInv, BuffersInv, PlaneStride
<1> QED BY <1>1, <1>2, <1>3 DEF ConfigInv

-----------------------------------------------------------------------------
(* create() and the thresholds of the encoder it has created.              *)

SetupInv == ConfigInv /\ ThresholdInv

\* CAQ does not leave the quantiser without a divisor.
LEMMA DivisorPositive ==
  ASSUME ConfigInv, step = "created", NEW plane \in Planes, NEW b \in Bands
  PROVE  \A d \in CoarseDivisors(plane, b) : d \in Nat /\ d > 0
<1> DEFINE base == BaseDivisor(b)
           percent == Coarsening(plane)[IF b >= 7 THEN 3 ELSE IF b >= 4 THEN 2 ELSE 1]
           product == base * percent
<1>1. base \in Nat /\ base > 0
  <2>1. PrecisionInv /\ (table # NoTable => \A c \in Bands : Band(c))
    BY DEF ConfigInv, TableInv
  <2> QED BY <2>1 DEF BaseDivisor, PrecisionInv, Band
<1>2. percent \in Nat
  BY DEF Coarsening
<1>3. product \in Int
  <2> HIDE DEF base, percent
  <2> QED BY <1>1, <1>2
<1> HIDE DEF base, product
<1>4. CoarseDivisors(plane, b) =
        IF o.caq = 0 \/ plane = 0 \/ b = 0 THEN {base}
        ELSE {Smaller(Larger(v, 1), 32766) : v \in Rounded(product)}
  BY DEF CoarseDivisors, base, product
<1>5. \A v \in Rounded(product) :
        Smaller(Larger(v, 1), 32766) \in Nat /\ Smaller(Larger(v, 1), 32766) > 0
  <2>1. \A v \in Rounded(product) : v \in Int
    BY <1>3 DEF Rounded
  <2> QED BY <2>1 DEF Smaller, Larger
<1> QED BY <1>1, <1>4, <1>5

LEMMA SetupInitially == SetupInit => SetupInv
<1> SUFFICES ASSUME SetupInit PROVE SetupInv
  OBVIOUS
<1>1. ConfigInv
  BY ConfigInitially DEF SetupInit
<1>2. divisor = 1 /\ l1_colour = FALSE /\ at = "idle" /\ t = 0 /\ pc_t = 0
  BY DEF SetupInit
<1> DEFINE deadzone == deadzone125_threshold(divisor)
<1>3. deadzone = 0
  BY <1>2 DEF deadzone125_threshold
<1> HIDE DEF deadzone
<1>4. t \in 0..T_LIMIT /\ pc_t \in 0..T_LIMIT
  BY <1>2, PixelAssumption
<1>5. ThresholdInv
  <2>1. divisor \in Nat /\ divisor > 0
    BY <1>2
  <2>4. l1_colour \in BOOLEAN
    BY <1>2
  <2>2. pc_t = IF l1_colour THEN Larger(deadzone, t) ELSE deadzone
    BY <1>2, <1>3
  <2>3. at # "scan" /\ at # "mismatch" /\ l1_colour = FALSE
    BY <1>2
  <2> QED BY <1>2, <1>4, <2>1, <2>2, <2>3, <2>4 DEF ThresholdInv, FusedIsLiteral, deadzone
<1> QED BY <1>1, <1>5 DEF SetupInv

LEMMA SetupStep == SetupInv /\ [SetupNext]_setupVars => SetupInv'
<1> SUFFICES ASSUME SetupInv, [SetupNext]_setupVars PROVE SetupInv'
  OBVIOUS
<1> USE DEF SetupInv
<1>1. CASE Create
  BY <1>1, ConfigStep, ThresholdStep DEF Create
<1>2. CASE ResolveBand
  <2>1. ConfigInv'
    <3>1. InputsKept' /\ PrecisionInv' /\ TableInv'
      BY <1>2 DEF ResolveBand, InputsKept, Steps, Ended, PrecisionInv, Options,
                  TableInv, NoTable
    <3>2. BuffersInv'
      BY <1>2 DEF ResolveBand, BuffersInv, Nothing
    <3> QED BY <3>1, <3>2 DEF ConfigInv
  <2>2. PICK plane \in Planes, b \in Bands \ {0} :
           divisor' \in CoarseDivisors(plane, b) /\ l1_colour' = (Colour(plane) /\ b >= 7)
    BY <1>2 DEF ResolveBand
  <2>3. divisor' \in Nat /\ divisor' > 0 /\ l1_colour' \in BOOLEAN
    <3>1. \A d \in CoarseDivisors(plane, b) : d \in Nat /\ d > 0
      BY <1>2, DivisorPositive DEF ResolveBand
    <3> QED BY <2>2, <3>1
  <2>4. ThresholdInv'
    <3>1. Magnitude(cpu_quantize_exact(0, divisor')) <= 1
      BY <2>3, QuantiserOfZero DEF Magnitude
    <3> QED BY <1>2, <2>3, <3>1, PixelAssumption
            DEF ResolveBand, ThresholdInv, FusedIsLiteral
  <2> QED BY <2>1, <2>4
<1>3. CASE Threshold
  BY <1>3, ConfigStays, ThresholdStep DEF Threshold
<1>4. CASE UNCHANGED setupVars
  BY <1>4, ConfigStays, ThresholdStep DEF setupVars
<1> QED BY <1>1, <1>2, <1>3, <1>4 DEF SetupNext

LEMMA SetupInvariant == SetupSpec => []SetupInv
  BY SetupInitially, SetupStep, PTL DEF SetupSpec

\* Whatever the caller, the mode, the environment and the overrides ask for
\* together, four times the largest code fits int16, every band has a positive
\* divisor, and those of a mode are at most 32767.
THEOREM PrecisionFits == SetupSpec => []CodesFit
<1>1. SetupInv => CodesFit
  <2> SUFFICES ASSUME SetupInv PROVE CodesFit
    OBVIOUS
  <2>1. o.working_max \in {1023, 2047, 4094, 4095}
    BY StepValues DEF SetupInv, ConfigInv, PrecisionInv
  <2>2. \A b \in DOMAIN table : 1 <= table[b] /\ table[b] <= 32767
    BY DEF SetupInv, ConfigInv, TableInv, Band, NoTable
  <2>3. ASSUME NEW b \in Bands PROVE BaseDivisor(b) >= 1
    <3>1. CASE table = NoTable
      BY <3>1 DEF BaseDivisor, SetupInv, ConfigInv, PrecisionInv
    <3>2. CASE table # NoTable
      <4>1. Band(b)
        BY <3>2 DEF SetupInv, ConfigInv, TableInv
      <4> QED BY <3>2, <4>1 DEF BaseDivisor, Band
    <3> QED BY <3>1, <3>2
  <2> QED BY <2>1, <2>2, <2>3 DEF CodesFit
<1> QED BY <1>1, SetupInvariant, PTL

\* A reduced precision asked for by the caller and by the environment scales
\* the ladder of the mode once, to the nearest divisor the quantiser takes,
\* and the 12-bit container has its range back.
THEOREM LadderScaledOnce == SetupSpec => []ScaledOnce
<1>1. SetupInv => ScaledOnce
  <2> SUFFICES ASSUME SetupInv PROVE ScaledOnce
    OBVIOUS
  <2>1. o.compand_bits = 12 <=> o.working_max \in {4094, 4095}
    BY StepValues DEF SetupInv, ConfigInv, PrecisionInv
  <2>2. o.compand_bits = 12 \/ o.inframe_bits = 12
    BY DEF SetupInv, ConfigInv, PrecisionInv
  <2>3. ASSUME table # NoTable, o.quant_scale, NEW b \in Bands
        PROVE  Overridden(b, table[b]) \/ Follows(table[b], Ladders[cfg.mode][b])
    BY <2>3 DEF SetupInv, ConfigInv, TableInv, Band
  <2> QED BY <2>1, <2>2, <2>3 DEF ScaledOnce
<1> QED BY <1>1, SetupInvariant, PTL

\* An encoder has the buffers its encode() will read, whichever path the
\* environment and the options lead it to, and a create() that fails keeps none.
THEOREM BuffersAreThere == SetupSpec => []BuffersMatchPath
<1>1. SetupInv => BuffersMatchPath
  BY DEF SetupInv, ConfigInv, BuffersInv, TableInv, Unplanned, Untabled, Ended,
         BuffersMatchPath
<1> QED BY <1>1, SetupInvariant, PTL

\* The threshold an encoder resolves stands for the two literal rules, for
\* every divisor that ladder, scaling, override and CAQ can lead to.
THEOREM ThresholdsAreLiteral == SetupSpec => []FusedIsLiteral
<1>1. SetupInv => FusedIsLiteral
  BY DEF SetupInv, ThresholdInv
<1> QED BY <1>1, SetupInvariant, PTL

-----------------------------------------------------------------------------
(* The lookup table of the companding curve.  The prover evaluates powers  *)
(* of literals only, so the facts about 2^n are tables of cases.           *)

\* The largest words of 1 to 16 bits.
Tops == <<1, 3, 7, 15, 31, 63, 127, 255, 511, 1023, 2047, 4095, 8191, 16383,
          32767, 65535>>

LEMMA TopsGrow ==
  \A j, k \in 1..16 : Tops[j] \in Nat /\ (j <= k => Tops[j] <= Tops[k])
  BY DEF Tops

\* A table of 2^e entries holds every word of at most e bits.
LEMMA PowersGrow ==
  ASSUME NEW e \in Nat, e <= 15, NEW k \in 1..16, k <= e
  PROVE  2 ^ e > Tops[k]
<1>1. CASE e = 1  BY <1>1, TopsGrow DEF Tops
<1>2. CASE e = 2  BY <1>2, TopsGrow DEF Tops
<1>3. CASE e = 3  BY <1>3, TopsGrow DEF Tops
<1>4. CASE e = 4  BY <1>4, TopsGrow DEF Tops
<1>5. CASE e = 5  BY <1>5, TopsGrow DEF Tops
<1>6. CASE e = 6  BY <1>6, TopsGrow DEF Tops
<1>7. CASE e = 7  BY <1>7, TopsGrow DEF Tops
<1>8. CASE e = 8  BY <1>8, TopsGrow DEF Tops
<1>9. CASE e = 9  BY <1>9, TopsGrow DEF Tops
<1>10. CASE e = 10  BY <1>10, TopsGrow DEF Tops
<1>11. CASE e = 11  BY <1>11, TopsGrow DEF Tops
<1>12. CASE e = 12  BY <1>12, TopsGrow DEF Tops
<1>13. CASE e = 13  BY <1>13, TopsGrow DEF Tops
<1>14. CASE e = 14  BY <1>14, TopsGrow DEF Tops
<1>15. CASE e = 15  BY <1>15, TopsGrow DEF Tops
<1> QED BY <1>1, <1>2, <1>3, <1>4, <1>5, <1>6, <1>7, <1>8, <1>9, <1>10,
           <1>11, <1>12, <1>13, <1>14, <1>15

\* A shift by s leaves a word of 16 - s bits.
LEMMA ShiftedWord ==
  ASSUME NEW s \in Nat, s <= 15
  PROVE  65535 \div 2 ^ s = Tops[16 - s]
<1>0. CASE s = 0  BY <1>0 DEF Tops
<1>1. CASE s = 1  BY <1>1 DEF Tops
<1>2. CASE s = 2  BY <1>2 DEF Tops
<1>3. CASE s = 3  BY <1>3 DEF Tops
<1>4. CASE s = 4  BY <1>4 DEF Tops
<1>5. CASE s = 5  BY <1>5 DEF Tops
<1>6. CASE s = 6  BY <1>6 DEF Tops
<1>7. CASE s = 7  BY <1>7 DEF Tops
<1>8. CASE s = 8  BY <1>8 DEF Tops
<1>9. CASE s = 9  BY <1>9 DEF Tops
<1>10. CASE s = 10  BY <1>10 DEF Tops
<1>11. CASE s = 11  BY <1>11 DEF Tops
<1>12. CASE s = 12  BY <1>12 DEF Tops
<1>13. CASE s = 13  BY <1>13 DEF Tops
<1>14. CASE s = 14  BY <1>14 DEF Tops
<1>15. CASE s = 15  BY <1>15 DEF Tops
<1> QED BY <1>0, <1>1, <1>2, <1>3, <1>4, <1>5, <1>6, <1>7, <1>8, <1>9, <1>10,
           <1>11, <1>12, <1>13, <1>14, <1>15

\* A word of 16 bits that is shifted as create demands indexes a table of
\* less than 65536 entries.
LEMMA WordFits ==
  ASSUME NEW s \in Nat, s <= 15, NEW e \in Nat, e <= 15, s + e >= 16
  PROVE  65535 \div 2 ^ s < 2 ^ e
<1> DEFINE k == 16 - s
<1>1. k \in 1..16 /\ k <= e
  OBVIOUS
<1>2. 65535 \div 2 ^ s = Tops[k]
  BY ShiftedWord
<1> HIDE DEF k
<1>3. 2 ^ e > Tops[k]
  BY <1>1, PowersGrow
<1>4. Tops[k] \in Int /\ 2 ^ e \in Int
  BY <1>1, TopsGrow
<1> QED BY <1>2, <1>3, <1>4

\* The words of the source, as far as create has looked at them: a word that
\* is shifted or swapped loses what the precision has no room for.
SourceInv ==
    /\ step \in {"check", "options", "range", "source"}
         => o.src_shift = 0 /\ o.src_byteswap = FALSE
    /\ o.effective_bits \in Nat /\ o.effective_bits > 0 /\ o.src_shift \in 0..15
    /\ o.src_shift > 0 \/ o.src_byteswap => o.src_shift + o.effective_bits >= 16
    /\ step \in {"writer", "created"} => impl.lut = LutEntries

LEMMA SourceStep ==
  ASSUME SetupInv, SourceInv, [SetupNext]_setupVars
  PROVE  SourceInv'
<1>1. DOMAIN o = DOMAIN Options
  BY DEF SetupInv, ConfigInv, PrecisionInv
<1>2. CASE Range
  <2>1. cfg.effective_bits \in Int
    BY <1>2 DEF Range, SetupInv, ConfigInv, InputsKept, Config
  <2>2. EffectiveBits \in Nat /\ EffectiveBits > 0
    BY <2>1 DEF EffectiveBits
  <2>3. /\ o'.effective_bits = EffectiveBits /\ o'.src_shift = o.src_shift
        /\ o'.src_byteswap = o.src_byteswap /\ step = "range" /\ step' = "source"
    BY <1>1, <1>2 DEF Range, Options
  <2> QED BY <2>2, <2>3 DEF SourceInv
<1>3. CASE Source
  <2>1. /\ o'.effective_bits = o.effective_bits /\ o'.src_shift = cfg.src_shift
        /\ o'.src_byteswap = cfg.src_byteswap /\ step' = "compand"
    BY <1>1, <1>3 DEF Source, Options
  <2> QED BY <1>3, <2>1 DEF Source, SourceOK, SourceInv
<1>4. CASE Levers \/ CompandEnv \/ Plan
  <2>1. /\ o'.effective_bits = o.effective_bits /\ o'.src_shift = o.src_shift
        /\ o'.src_byteswap = o.src_byteswap
    <3>1. CASE Levers
      BY <1>1, <3>1 DEF Levers, Options
    <3>2. CASE CompandEnv
      <4> DEFINE companded == IF env.compand_bits \in {10, 11} THEN InFrame ELSE o
      <4>1. /\ DOMAIN companded = DOMAIN Options
            /\ companded.effective_bits = o.effective_bits
            /\ companded.src_shift = o.src_shift
            /\ companded.src_byteswap = o.src_byteswap
        BY <1>1 DEF InFrame, Options
      <4>2. \E scale : o' = [companded EXCEPT !.quant_scale = scale]
        BY <3>2 DEF CompandEnv
      <4> HIDE DEF companded
      <4> QED BY <4>1, <4>2 DEF Options
    <3>3. CASE Plan
      BY <1>1, <3>3 DEF Plan, Options
    <3> QED BY <1>4, <3>1, <3>2, <3>3
  <2>2. step' \in {"check", "options", "range", "source"} => step = "options"
    BY <1>4 DEF Levers, CompandEnv, Plan
  <2>3. step' \in {"writer", "created"} => impl'.lut = LutEntries'
    <3>1. step' \in {"writer", "created"} => Plan
      BY <1>4 DEF Levers, CompandEnv
    <3>2. ASSUME Plan PROVE impl'.lut = LutEntries
      <4>1. DOMAIN impl = DOMAIN Nothing
        BY DEF SetupInv, ConfigInv, BuffersInv
      <4> QED BY <3>2, <4>1 DEF Plan, Nothing
    <3>3. LutEntries' = LutEntries
      BY <2>1 DEF LutEntries
    <3> QED BY <3>1, <3>2, <3>3
  <2> QED BY <2>1, <2>2, <2>3 DEF SourceInv
<1>5. CASE Fail \/ ResolveBand
  BY <1>5 DEF Fail, ResolveBand, SourceInv, Options
<1>6. CASE /\ UNCHANGED o
           /\ step' \in {"check", "options", "range", "source"}
                => step \in {"check", "options", "range", "source"}
           /\ step' \in {"writer", "created"}
                => step \in {"writer", "created"} /\ impl'.lut = impl.lut
  BY <1>6 DEF SourceInv, LutEntries
<1>7. CASE Writer
  <2>1. DOMAIN impl = DOMAIN Nothing
    BY DEF SetupInv, ConfigInv, BuffersInv
  <2>2. impl'.lut = impl.lut /\ UNCHANGED o
    BY <1>7, <2>1 DEF Writer, Nothing
  <2> QED BY <1>6, <1>7, <2>2 DEF Writer
<1> QED
  BY <1>2, <1>3, <1>4, <1>5, <1>6, <1>7
  DEF SetupNext, Create, ConfigNext, Check, Tables, BandQ, BandsDone, Reject,
      OutOfMemory, Threshold, setupVars, configVars

\* Every 16-bit word of a source the library shifts or swaps indexes the
\* table the constructor built, for every precision below 64 bits.
THEOREM WordsFitLookup == SetupSpec => []LookupFits
<1>1. SetupInit => SourceInv
  BY DEF SetupInit, ConfigInit, SourceInv, Options
<1>2. SourceInv => LookupFits
  <2> DEFINE s == o.src_shift
             e == o.effective_bits
  <2> SUFFICES ASSUME SourceInv, step = "created", e < 64,
                      o.src_shift > 0 \/ o.src_byteswap
               PROVE  65535 \div 2 ^ s < impl.lut
    BY DEF LookupFits
  <2>1. /\ s \in Nat /\ s <= 15 /\ e \in Nat /\ s + e >= 16
        /\ impl.lut = LutEntries
    BY DEF SourceInv
  <2>2. LutEntries = IF e < 16 THEN 2 ^ e ELSE 65536
    <3>1. e % 64 = e
      BY <2>1
    <3> QED BY <3>1 DEF LutEntries
  <2>3. CASE e <= 15
    <3>1. impl.lut = 2 ^ e
      BY <2>1, <2>2, <2>3
    <3>2. 65535 \div 2 ^ s < 2 ^ e
      BY <2>1, <2>3, WordFits
    <3> QED BY <3>1, <3>2
  <2>4. CASE e >= 16
    <3>1. impl.lut = 65536
      BY <2>1, <2>2, <2>4
    <3>2. 65535 \div 2 ^ s \in Nat /\ 65535 \div 2 ^ s <= 65535
      <4>1. s \in Nat /\ s <= 15
        BY <2>1
      <4> HIDE DEF s
      <4>2. 16 - s \in 1..16
        BY <4>1
      <4>3. 65535 \div 2 ^ s = Tops[16 - s]
        BY <4>1, ShiftedWord
      <4>4. Tops[16 - s] \in Nat /\ Tops[16 - s] <= Tops[16]
        BY <4>2, TopsGrow
      <4>5. Tops[16] = 65535
        BY DEF Tops
      <4> QED BY <4>3, <4>4, <4>5
    <3> QED BY <3>1, <3>2
  <2> QED BY <2>1, <2>3, <2>4
<1>3. SetupInv /\ SourceInv /\ [SetupNext]_setupVars => SourceInv'
  BY SourceStep
<1> QED BY <1>1, <1>2, <1>3, SetupInvariant, PTL DEF SetupSpec
=============================================================================
