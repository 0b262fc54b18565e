------------------------------ MODULE PixelClean ------------------------------
(***************************************************************************)
(* pixel_clean_equivalence: the encoder applies Pixel Clean as one integer *)
(* compare (Fused); the rule it stands for is a dead-zone before the       *)
(* quantiser and a rule about its result after it (Literal).  The tool     *)
(* resolves the threshold of each divisor by a scan and compares the two   *)
(* on every coefficient.  The encoder resolves its thresholds by the same  *)
(* functions (vc5_bench.cpp, fused_level_init).                            *)
(*                                                                         *)
(* C++ int arithmetic is exact here: ProductFits, EncoderSetupProofs.      *)
(***************************************************************************)
EXTENDS Integers

CONSTANTS Divisors,   \* 1..32767 in the tool
          VMAX,       \* coefficients are compared in -VMAX..VMAX; 16384
          T_LIMIT     \* no threshold is larger; 32766

ASSUME PixelAssumption ==
    /\ Divisors \subseteq Nat /\ \A q \in Divisors : 1 <= q /\ q <= 32767
    /\ VMAX \in Nat /\ T_LIMIT \in Nat
    /\ VMAX <= T_LIMIT /\ T_LIMIT <= 32766

VARIABLES at,         \* "scan", "compare", "equivalent" or "mismatch"
          divisor,    \* q
          l1_colour,  \* RG or BG at wavelet level 1
          t,          \* cinepi_absquant_le1_threshold, while it scans
          pc_t        \* the fused threshold

pixelVars == <<at, divisor, l1_colour, t, pc_t>>

-----------------------------------------------------------------------------
Magnitude(v) == IF v < 0 THEN -v ELSE v
Larger(a, b)  == IF a < b THEN b ELSE a
Smaller(a, b) == IF a < b THEN a ELSE b

midpoint(q)   == IF q \div 2 > 0 THEN q \div 2 - 1 ELSE 0
multiplier(q) == 65536 \div q

\* Of a magnitude and a divisor above 1.
Level(m, q) == ((m + midpoint(q)) * multiplier(q)) \div 65536

cpu_quantize_exact(v, q) ==
    IF q <= 1 THEN v
    ELSE IF v < 0 THEN -Level(-v, q) ELSE Level(v, q)

deadzone125_threshold(q) ==
    IF q <= 1 THEN 0 ELSE Smaller((5 * q - 1) \div 8, T_LIMIT)

Fused(v, q, threshold) ==
    IF threshold > 0 /\ Magnitude(v) <= threshold
    THEN 0 ELSE cpu_quantize_exact(v, q)

\* 0.625f * q is exact in a float, so `fabs(v) < threshold` is 8|v| < 5q.
Literal(v, q, colour) ==
    LET level == cpu_quantize_exact(v, q)
    IN  IF \/ q > 1 /\ 8 * Magnitude(v) < 5 * q
           \/ colour /\ Magnitude(level) = 1
        THEN 0 ELSE level

-----------------------------------------------------------------------------
PixelInit ==
    /\ at = "scan"
    /\ divisor \in Divisors /\ l1_colour \in BOOLEAN
    /\ t = 0 /\ pc_t = 0

\* Seeded fault: the scan does not stop at a level above 1 but at one above 2.
ScansOneLevelMore == Magnitude(cpu_quantize_exact(t + 1, divisor)) <= 2

StillOne == Magnitude(cpu_quantize_exact(t + 1, divisor)) <= 1

\* The scan is only run for a colour plane at level 1.
Scan ==
    /\ at = "scan" /\ l1_colour
    /\ t < T_LIMIT /\ StillOne
    /\ t' = t + 1
    /\ UNCHANGED <<at, divisor, l1_colour, pc_t>>

Resolve ==
    /\ at = "scan"
    /\ l1_colour => ~(t < T_LIMIT /\ StillOne)
    /\ pc_t' = IF l1_colour THEN Larger(deadzone125_threshold(divisor), t)
                            ELSE deadzone125_threshold(divisor)
    /\ at' = "compare"
    /\ UNCHANGED <<divisor, l1_colour, t>>

Agree == \A v \in -VMAX .. VMAX :
            Fused(v, divisor, pc_t) = Literal(v, divisor, l1_colour)

Compare ==
    /\ at = "compare"
    /\ at' = IF Agree THEN "equivalent" ELSE "mismatch"
    /\ UNCHANGED <<divisor, l1_colour, t, pc_t>>

PixelNext == Scan \/ Resolve \/ Compare

PixelSpec == PixelInit /\ [][PixelNext]_pixelVars

-----------------------------------------------------------------------------
PixelTypeOK ==
    /\ at \in {"scan", "compare", "equivalent", "mismatch"}
    /\ divisor \in Divisors /\ l1_colour \in BOOLEAN
    /\ t \in 0..T_LIMIT /\ pc_t \in 0..T_LIMIT

\* "Pixel Clean Fast must be output-equivalent to the existing Pixel Clean
\* implementation before it replaces it": no divisor, plane or coefficient
\* tells the one compare from the two rules (tool, MISMATCH).
FusedIsLiteral == at # "mismatch"
=============================================================================
