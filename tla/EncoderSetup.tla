----------------------------- MODULE EncoderSetup -----------------------------
(***************************************************************************)
(* A created encoder resolves the Pixel Clean threshold of each band from  *)
(* the divisor its configuration led to: the ladder of the mode, scaled,   *)
(* overridden band by band, and coarsened for a plane by CAQ.  Composes    *)
(* EncoderConfig with PixelClean, whose comparison is made for the         *)
(* divisors create() hands on and not only for a list of them.             *)
(***************************************************************************)
EXTENDS EncoderConfig, PixelClean

setupVars == <<configVars, pixelVars>>

Planes == 0..3            \* GS, RG, BG, GD
Colour(plane) == plane \in {1, 2}

\* caq_profile_def, in hundredths: coarse, middle and fine bands.
Coarsening(plane) ==
    IF plane = 3
    THEN CASE o.caq = 1 -> <<100, 100, 108>> [] o.caq = 2 -> <<100, 108, 118>>
           [] o.caq = 3 -> <<100, 115, 135>> [] OTHER -> <<100, 100, 100>>
    ELSE CASE o.caq = 1 -> <<100, 110, 125>> [] o.caq = 2 -> <<100, 125, 155>>
           [] o.caq = 3 -> <<110, 150, 200>> [] OTHER -> <<100, 100, 100>>

\* std::lround(base * f) rounds a half up; the double f may lie just below
\* its hundredths, and then an exact half goes down.
Rounded(hundredths) ==
    {(hundredths + 50) \div 100, (hundredths + 49) \div 100}

\* cpu_quant_tables_caq: GS and the lowpass band keep the base divisor; with
\* CAQ no other band is given the pruning divisor 32767.
CoarseDivisors(plane, b) ==
    LET percent == Coarsening(plane)[IF b >= 7 THEN 3 ELSE IF b >= 4 THEN 2 ELSE 1]
    IN  IF o.caq = 0 \/ plane = 0 \/ b = 0 THEN {BaseDivisor(b)}
        ELSE {Smaller(Larger(v, 1), 32766) :
                v \in Rounded(BaseDivisor(b) * percent)}

SetupInit ==
    /\ ConfigInit
    /\ at = "idle" /\ divisor = 1 /\ l1_colour = FALSE /\ t = 0 /\ pc_t = 0

Create == ConfigNext /\ UNCHANGED pixelVars

\* fused_level_init of one band; the configuration is not looked at again.
ResolveBand ==
    /\ step = "created" /\ o.pixel_clean
    /\ \E plane \in Planes, b \in Bands \ {0} :
         /\ at' = "scan" /\ t' = 0 /\ pc_t' = 0
         /\ divisor' \in CoarseDivisors(plane, b)
         /\ l1_colour' = (Colour(plane) /\ b >= 7)
    /\ step' = "resolving"
    /\ o' = Options /\ table' = NoTable /\ items' = <<>> /\ impl' = Nothing
    /\ cfg' = Defaults /\ env' = Empty

Threshold == PixelNext /\ UNCHANGED configVars

SetupNext == Create \/ ResolveBand \/ Threshold

SetupSpec == SetupInit /\ [][SetupNext]_setupVars

=============================================================================
