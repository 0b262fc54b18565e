---------------------------- MODULE EncoderConfig ----------------------------
(***************************************************************************)
(* cinepi_qraw_create(): from a caller's configuration and the process     *)
(* environment to an encoder, or to NULL.  The checks fail closed, one     *)
(* after the other; each step reads what the earlier ones resolved, and    *)
(* the environment overrides the caller on the way.                        *)
(*                                                                         *)
(* Real-valued settings are in hundredths.  The companding curve, the log  *)
(* and the optimisation switches that are set to constants are left out, as *)
(* are the settings of the ISO prototype of Noise Clean.                   *)
(***************************************************************************)
EXTENDS Integers, Sequences

CONSTANTS Calls,          \* [cfg, env]: what a caller passes, and the
                          \* CINEPI_ variables create reads
          Unset,          \* a variable that is not set; mode = NULL
          Other,          \* a value the code does not recognise
          Ladders,        \* mode name -> its ten divisors (resolve_mode)
          HaveNeon        \* CINEPI_HAVE_NEON_WAVELET

Bands == 0..9

Config ==
    [width : Int, height : Int, mode : DOMAIN Ladders \cup {Unset, Other},
     quant : Int, caq : Int, pixel_clean : BOOLEAN,
     noise_clean_mode : Int, noise_clean_strength : Int,
     effective_bits : Int, white : Int, black : Int, compand_bits : Int,
     true_12bit : BOOLEAN, src_shift : Int, src_byteswap : BOOLEAN,
     gpr_params : {"builtin", "read", "unreadable"}]

Environment ==
    [caq : 0..3 \cup {Unset, Other}, pixel_clean : BOOLEAN \cup {Unset},
     noise_clean : 0..3 \cup {Unset, Other},
     noise_clean_strength : Int \cup {Unset},
     compand_scale : BOOLEAN \cup {Unset}, compand_bits : Int \cup {Unset},
     band_q : Seq(Int \X Int),
     direct_hybrid : BOOLEAN, lean_coeff : BOOLEAN]

ASSUME ConfigAssumption ==
    /\ \A c \in Calls : c.cfg \in Config /\ c.env \in Environment
    /\ \A m \in DOMAIN Ladders :
         /\ DOMAIN Ladders[m] = Bands
         /\ \A b \in Bands : /\ Ladders[m][b] \in Nat
                             /\ 1 <= Ladders[m][b] /\ Ladders[m][b] <= 32767
    /\ Unset \notin Int \cup BOOLEAN \cup DOMAIN Ladders
    /\ Other \notin Int \cup DOMAIN Ladders

\* cinepi_qraw_config_defaults
Defaults ==
    [width |-> 3840, height |-> 2160, mode |-> "m5", quant |-> 1,
     caq |-> 0, pixel_clean |-> FALSE,
     noise_clean_mode |-> 0, noise_clean_strength |-> 100,
     effective_bits |-> 16, white |-> 0, black |-> 0, compand_bits |-> 12,
     true_12bit |-> FALSE, src_shift |-> 0, src_byteswap |-> FALSE,
     gpr_params |-> "builtin"]

\* None of the variables is set: hybrid and lean frame are on unless "0".
Empty ==
    [caq |-> Unset, pixel_clean |-> Unset, noise_clean |-> Unset,
     noise_clean_strength |-> Unset, compand_scale |-> Unset,
     compand_bits |-> Unset, band_q |-> <<>>,
     direct_hybrid |-> TRUE, lean_coeff |-> TRUE]

VARIABLES step,    \* how far create() is
          cfg,     \* the caller's configuration
          env,     \* the environment
          o,       \* Options, as resolved so far
          table,   \* mode_storage.quant_table, NoTable without a mode
          items,   \* what is left of CINEPI_BAND_Q
          impl     \* what EncoderImpl owns

configVars == <<step, cfg, env, o, table, items, impl>>

NoTable == [b \in {} |-> 0]
Nothing == [lut |-> 0, coeff |-> 0, sidecar |-> 0, hybrid |-> FALSE,
            writer |-> FALSE]

\* Options where create() has not set it.
Options ==
    [caq |-> 0, pixel_clean |-> FALSE, noise_clean_mode |-> 0,
     noise_clean_strength |-> 100, quant |-> 1,
     effective_bits |-> 16, compand_bits |-> 12, inframe_bits |-> 12,
     true_12bit |-> FALSE, white |-> 4095, black |-> 0, working_max |-> 4094,
     quant_scale |-> TRUE, src_shift |-> 0, src_byteswap |-> FALSE,
     cpu_sidecar |-> FALSE]

\* Two to the 12 - bits, for the three precisions the code accepts.
Step(bits) == CASE bits = 10 -> 4 [] bits = 11 -> 2 [] OTHER -> 1

\* (1 << bits) - 1
CodeTop(bits) ==
    CASE bits = 10 -> 1023 [] bits = 11 -> 2047 [] OTHER -> 2 ^ bits - 1

-----------------------------------------------------------------------------
ConfigInit ==
    /\ step = "check"
    /\ \E c \in Calls : cfg = c.cfg /\ env = c.env
    /\ o = Options /\ table = NoTable /\ items = <<>> /\ impl = Nothing

\* delete impl; return nullptr
Fail ==
    /\ step' = "failed"
    /\ o' = Options /\ table' = NoTable /\ items' = <<>> /\ impl' = Nothing
    /\ UNCHANGED <<cfg, env>>

BadFrame == \/ cfg.width <= 0 \/ cfg.height <= 0
            \/ cfg.width % 2 = 1 \/ cfg.height % 2 = 1
            \/ ~HaveNeon

Check ==
    /\ step = "check" /\ ~BadFrame
    /\ step' = "options"
    /\ UNCHANGED <<cfg, env, o, table, items, impl>>

\* A profile: the environment's if it names one, else the caller's; a caller's
\* that does not exist is off.
Profile(named, asked) ==
    IF named \in 0..3 THEN named ELSE IF asked \in 0..3 THEN asked ELSE 0

Levers ==
    /\ step = "options"
    /\ o' = [o EXCEPT
         !.caq              = Profile(env.caq, cfg.caq),
         !.noise_clean_mode = Profile(env.noise_clean, cfg.noise_clean_mode),
         !.noise_clean_strength =
             IF env.noise_clean_strength \in 25..400
             THEN env.noise_clean_strength
             ELSE IF cfg.noise_clean_strength > 0
                  THEN cfg.noise_clean_strength ELSE 100,
         !.pixel_clean = IF env.pixel_clean = Unset THEN cfg.pixel_clean
                                                    ELSE env.pixel_clean,
         !.quant = IF cfg.quant > 0 THEN cfg.quant ELSE 1]
    /\ step' = "range"
    /\ UNCHANGED <<cfg, env, table, items, impl>>

EffectiveBits == IF cfg.effective_bits > 0 THEN cfg.effective_bits ELSE 16
CompandBits   == IF cfg.compand_bits # 0 THEN cfg.compand_bits ELSE 12

\* (1 << effective_bits) - 1, of an int: the machines the code is built for
\* shift a 32-bit word by the count modulo 32.
Saturation ==
    LET n == EffectiveBits % 32 IN IF n = 31 THEN 2147483647 ELSE 2 ^ n - 1

White == IF cfg.white > 0 THEN cfg.white ELSE Saturation
Black == IF cfg.black > 0 THEN cfg.black ELSE 0

\* Seeded fault: the precision is taken blind.
AnyPrecision == Black < White /\ White <= 65535

RangeOK == /\ CompandBits \in 10..12
           /\ Black < White /\ White <= 65535

Range ==
    /\ step = "range" /\ RangeOK
    /\ o' = [o EXCEPT
         !.effective_bits = EffectiveBits, !.compand_bits = CompandBits,
         !.true_12bit = cfg.true_12bit, !.white = White, !.black = Black,
         !.working_max = IF CompandBits # 12 THEN CodeTop(CompandBits)
                         ELSE IF cfg.true_12bit THEN 4095 ELSE 4094]
    /\ step' = "source"
    /\ UNCHANGED <<cfg, env, table, items, impl>>

\* Seeded fault: only a shift is checked, a swapped word is not.
ShiftChecked ==
    /\ cfg.src_shift \in 0..15
    /\ cfg.src_shift > 0 => cfg.src_shift + o.effective_bits >= 16

\* A word that is shifted or swapped may use all its sixteen bits.
SourceOK ==
    /\ cfg.src_shift \in 0..15
    /\ cfg.src_shift > 0 \/ cfg.src_byteswap
         => cfg.src_shift + o.effective_bits >= 16

Source ==
    /\ step = "source" /\ SourceOK
    /\ o' = [o EXCEPT !.src_shift = cfg.src_shift,
                      !.src_byteswap = cfg.src_byteswap,
                      !.cpu_sidecar = TRUE]
    /\ step' = "compand"
    /\ UNCHANGED <<cfg, env, table, items, impl>>

\* Seeded fault: the code range stays the caller's reduced one.
KeepsRange ==
    [o EXCEPT !.compand_bits = 12, !.inframe_bits = env.compand_bits]

\* CINEPI_COMPAND_BITS: the container is the full 12-bit one again, whatever
\* the caller asked for, and the precision is reduced inside it.
InFrame ==
    [o EXCEPT !.compand_bits = 12, !.inframe_bits = env.compand_bits,
              !.working_max = IF o.true_12bit THEN 4095 ELSE 4094]

CompandEnv ==
    /\ step = "compand"
    /\ LET companded == IF env.compand_bits \in {10, 11} THEN InFrame ELSE o
       IN  o' = [companded EXCEPT !.quant_scale =
                   IF env.compand_scale = Unset THEN @ ELSE env.compand_scale]
    /\ step' = IF cfg.mode = Unset THEN "plan" ELSE "tables"
    /\ UNCHANGED <<cfg, env, table, items, impl>>

-----------------------------------------------------------------------------
\* The ladder is for 12-bit codes: a reduced code range divides it, a reduced
\* precision in the full range multiplies it.
Reduced(q) ==
    LET s == Step(o.compand_bits)
        r == (q + s \div 2) \div s
    IN  IF ~o.quant_scale THEN q ELSE IF r < 1 THEN 1 ELSE r

Widened(q) ==
    LET w == q * Step(o.inframe_bits)
    IN  IF ~o.quant_scale THEN q ELSE IF w > 32767 THEN 32767 ELSE w

Tables ==
    /\ step = "tables" /\ cfg.mode \in DOMAIN Ladders
    /\ table' = [b \in Bands |-> Widened(Reduced(Ladders[cfg.mode][b]))]
    /\ items' = env.band_q
    /\ step' = "bands"
    /\ UNCHANGED <<cfg, env, o, impl>>

InRange(item) == item[1] \in Bands /\ 1 <= item[2] /\ item[2] <= 32767

\* One item of CINEPI_BAND_Q; one out of range is ignored.
BandQ ==
    /\ step = "bands" /\ items # <<>>
    /\ table' = IF InRange(Head(items))
                THEN [table EXCEPT ![Head(items)[1]] = Head(items)[2]]
                ELSE table
    /\ items' = Tail(items)
    /\ UNCHANGED <<step, cfg, env, o, impl>>

BandsDone ==
    /\ step = "bands" /\ items = <<>>
    /\ step' = "plan"
    /\ UNCHANGED <<cfg, env, o, table, items, impl>>

-----------------------------------------------------------------------------
PlaneStride == (cfg.width \div 2) * (cfg.height \div 2)

\* cpu_fused_geometry_ok
FusedGeometry == (cfg.width \div 2) % 8 = 0 /\ (cfg.height \div 2) % 8 = 0

\* make_lut: size_t(1u) << effective_bits, which shifts by the count modulo 64.
\* A table no 16-bit word exceeds is not told from a larger one.
LutEntries ==
    LET n == o.effective_bits % 64 IN IF n < 16 THEN 2 ^ n ELSE 65536

\* Seeded fault: the lean frame does not ask whether the hybrid is on.
AlwaysLean == IF env.lean_coeff THEN 8 ELSE 4 * PlaneStride

CoeffElements ==
    IF env.direct_hybrid /\ env.lean_coeff THEN 8 ELSE 4 * PlaneStride

\* The hybrid reader finds zero runs itself: the mask is off with it.
Plan ==
    /\ step = "plan" /\ FusedGeometry
    /\ o' = [o EXCEPT !.cpu_sidecar = @ /\ ~env.direct_hybrid]
    /\ impl' = [impl EXCEPT
         !.lut     = LutEntries,
         !.hybrid  = env.direct_hybrid,
         !.coeff   = CoeffElements,
         !.sidecar = IF o'.cpu_sidecar THEN CoeffElements \div 8 + 64 ELSE 0]
    /\ step' = "writer"
    /\ UNCHANGED <<cfg, env, table, items>>

\* DirectGprEncoder's constructor reads the container's parameters.
Writer ==
    /\ step = "writer" /\ cfg.gpr_params # "unreadable"
    /\ impl' = [impl EXCEPT !.writer = TRUE]
    /\ step' = "created"
    /\ UNCHANGED <<cfg, env, o, table, items>>

Rejected ==
    \/ step = "check"  /\ BadFrame
    \/ step = "range"  /\ ~RangeOK
    \/ step = "source" /\ ~SourceOK
    \/ step = "tables" /\ cfg.mode \notin DOMAIN Ladders
    \/ step = "plan"   /\ ~FusedGeometry
    \/ step = "writer" /\ cfg.gpr_params = "unreadable"

Reject == Rejected /\ Fail

\* new (std::nothrow) EncoderImpl, or a vector's or the slot's allocation.
OutOfMemory == step \in {"check", "plan", "writer"} /\ Fail

ConfigNext == \/ Check \/ Levers \/ Range \/ Source \/ CompandEnv
              \/ Tables \/ BandQ \/ BandsDone \/ Plan \/ Writer
              \/ Reject \/ OutOfMemory

ConfigSpec == ConfigInit /\ [][ConfigNext]_configVars

-----------------------------------------------------------------------------
\* The divisor of a band without CAQ (cpu_quant_table).
BaseDivisor(b) == IF table = NoTable THEN o.quant ELSE table[b]

\* "the int16 invariant peak_coeff = working_max*4 < 32767 holds", whatever the
\* caller and the environment ask for together (cinepi_qraw_encoder.cpp:270);
\* and no band is divided by 0 or less.  The divisors of a mode, scaled and
\* overridden, are also within the int16 range.  Without a mode every band has
\* the caller's quant, on which create() sets no upper bound.
CodesFit ==
    /\ o.working_max >= 1 /\ o.working_max * 4 < 32767
    /\ \A b \in Bands : BaseDivisor(b) >= 1
    /\ \A b \in DOMAIN table : table[b] <= 32767

\* "a full-scale 16-bit word would index past the companding LUT" (355): where
\* create() answers for the words of the source, and not the caller, each of
\* them is inside the table make_lut built.  create() sets no upper bound on
\* effective_bits; from 64 up the table's size is no longer what was compared
\* with the shift.
LookupFits ==
    step = "created" /\ (o.src_shift > 0 \/ o.src_byteswap)
                     /\ o.effective_bits < 64
        => 65535 \div 2 ^ o.src_shift < impl.lut

\* q is base brought to the precision: the nearest divisor the quantiser takes.
Follows(q, base) ==
    LET down == Step(o.compand_bits)
        up   == Step(o.inframe_bits)
    IN  \/ q = 1 /\ base < down
        \/ q = 32767 /\ base * up > 32767
        \/ /\ 2 * (q * down - base * up) <= down
           /\ 2 * (base * up - q * down) <= down

\* The environment asks for the divisor q of band b.
Overridden(b, q) == \E i \in 1..Len(env.band_q) : env.band_q[i] = <<b, q>>

\* Two ways of asking for a reduced precision meet: the ladder follows the
\* code range the frame is companded to, by one of them and once, and the
\* 12-bit container has the 12-bit range back (cinepi_qraw_encoder.cpp:411).
ScaledOnce ==
    step = "created" =>
      /\ o.compand_bits = 12 \/ o.inframe_bits = 12
      /\ o.compand_bits = 12 <=> o.working_max \in {4094, 4095}
      /\ table # NoTable /\ o.quant_scale =>
           \A b \in Bands : \/ Overridden(b, table[b])
                            \/ Follows(table[b], Ladders[cfg.mode][b])

\* What encode() will read is there: the tile slot on the hybrid path, else the
\* whole coefficient frame, and a mask only where one is written and is large
\* enough for it; nothing survives a failed create (565, 587).
BuffersMatchPath ==
    /\ step = "created" =>
         /\ impl.writer
         /\ ~impl.hybrid => impl.coeff = 4 * PlaneStride
         /\ impl.hybrid => impl.sidecar = 0
         /\ o.cpu_sidecar <=> impl.sidecar > 0
         /\ o.cpu_sidecar => 8 * impl.sidecar >= 4 * PlaneStride
    /\ step = "failed" => impl = Nothing /\ table = NoTable
=============================================================================
