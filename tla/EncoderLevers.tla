----------------------------- MODULE EncoderLevers -----------------------------
(***************************************************************************)
(* The levers that widen an encoder's zero thresholds live in file-scope   *)
(* variables of the process.  cpu_quant_tables_caq folds an encoder's own  *)
(* options into them when it is created and again on every frame;          *)
(* fused_level_init reads them for each plane and level of the frame, with *)
(* no lock, while other encoders fold theirs.                              *)
(*                                                                         *)
(* A lever setting is [pixel_clean, noise_clean_mode, strength, iso]; iso  *)
(* stands for the threshold the ISO prototype's table holds, 0 when it is  *)
(* off.  The environment variables that start the levers are not set.      *)
(***************************************************************************)
EXTENDS Integers

CONSTANTS Encoders,
          Settings      \* what callers ask for

ASSUME LeverAssumption ==
    Settings \subseteq [pixel_clean : BOOLEAN, noise_clean_mode : 0..3,
                        strength : Nat, iso : Nat]

VARIABLES options,               \* what each encoder was created with
          g_pixel_clean,
          g_noise_clean_mode,
          g_noise_clean_strength,
          g_noise_clean_t,       \* the ISO table
          used                   \* the settings a plane and level was given

leverVars == <<options, g_pixel_clean, g_noise_clean_mode,
               g_noise_clean_strength, g_noise_clean_t, used>>

Off == [pixel_clean |-> FALSE, noise_clean_mode |-> 0, strength |-> 100, iso |-> 0]

LeverInit ==
    /\ options = [e \in Encoders |-> Off]
    /\ g_pixel_clean = FALSE /\ g_noise_clean_mode = 0
    /\ g_noise_clean_strength = 100 /\ g_noise_clean_t = 0
    /\ used = [e \in Encoders |-> {}]

\* Seeded fault: the option is assigned.
Assigned(mode, asked) == asked

\* "the option can raise it, the environment can raise it, neither silently
\* lowers what the other asked for"
Raised(mode, asked) == IF asked > mode THEN asked ELSE mode

\* cpu_quant_tables_caq, down to the table it clears.
Fold(e, c) ==
    /\ options' = [options EXCEPT ![e] = c]
    /\ g_pixel_clean' = (g_pixel_clean \/ c.pixel_clean)
    /\ g_noise_clean_mode' = Raised(g_noise_clean_mode, c.noise_clean_mode)
    /\ g_noise_clean_strength' = IF c.strength \in 25..400 THEN c.strength
                                 ELSE g_noise_clean_strength
    /\ g_noise_clean_t' = 0
    /\ UNCHANGED used

\* ... and the table it fills again.
Fill(e) ==
    /\ g_noise_clean_t' = options[e].iso
    /\ UNCHANGED <<options, g_pixel_clean, g_noise_clean_mode,
                   g_noise_clean_strength, used>>

levers == <<options, g_pixel_clean, g_noise_clean_mode, g_noise_clean_strength,
            g_noise_clean_t>>

\* fused_level_init of one plane and level, any of the frame's.
Read(e) ==
    /\ used' = [used EXCEPT ![e] = {[pixel_clean |-> g_pixel_clean,
                                     noise_clean_mode |-> g_noise_clean_mode,
                                     strength |-> g_noise_clean_strength,
                                     iso |-> g_noise_clean_t]}]
    /\ UNCHANGED levers

\* The frame's last plane is done.
Quantised(e) == used' = [used EXCEPT ![e] = {}] /\ UNCHANGED levers

-----------------------------------------------------------------------------
\* No plane of a frame is thresholded with less Pixel Clean or a lower Noise
\* Clean profile than its own encoder was asked for, whatever the others fold
\* in between (cpu_quant_tables_caq).
NotLowered ==
    \A e \in Encoders : \A u \in used[e] :
        /\ options[e].pixel_clean => u.pixel_clean
        /\ options[e].noise_clean_mode <= u.noise_clean_mode

\* "Run one per worker thread; they share nothing except a process-wide mutex
\* inside the Adobe DNG container writer" (header, 12), and a lever that is 0
\* "is bit-exact current behaviour" (117): a frame's planes are thresholded by
\* the settings of its own encoder.
OwnLevers == \A e \in Encoders : used[e] \subseteq {options[e]}
=============================================================================
