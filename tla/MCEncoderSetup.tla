---------------------------- MODULE MCEncoderSetup ----------------------------
(* What create() is called with: precision asked for twice, source words at *)
(* every scale, the levers, frame sizes and buffers.  One group varies at a *)
(* time; the rest is the default configuration in an empty environment.     *)
EXTENDS EncoderSetup, TLC

LOCAL Ladder(q) == [b \in Bands |-> q[b + 1]]

\* kModeProfiles
MCLadders == "m1"  :> Ladder(<<1, 4, 4, 2, 8, 8, 6, 26, 26, 39>>)
          @@ "m5"  :> Ladder(<<1, 8, 8, 4, 16, 16, 11, 73, 73, 111>>)
          @@ "m10" :> Ladder(<<1, 29, 29, 13, 45, 45, 35, 272, 272, 521>>)

LOCAL Small == [Defaults EXCEPT !.width = 32, !.height = 16]

LOCAL Precision ==
    {[cfg |-> [Small EXCEPT !.mode = mode, !.compand_bits = bits, !.true_12bit = true],
      env |-> [Empty EXCEPT !.compand_scale = scale, !.compand_bits = inside,
                            !.band_q = bands]] :
       mode \in {"m1", "m10", Unset, Other}, bits \in {0, 9, 10, 11, 14},
       true \in BOOLEAN, scale \in {Unset, TRUE, FALSE},
       inside \in {Unset, 9, 10, 11, 12},
       bands \in {<<>>, <<<<9, 32767>>, <<10, 5>>, <<6, 0>>, <<9, 40>>>>}}

LOCAL Source16 ==
    {[cfg |-> [Small EXCEPT !.effective_bits = bits, !.white = white,
                            !.black = black, !.src_shift = shift,
                            !.src_byteswap = swap],
      env |-> Empty] :
       bits \in {0, 10, 12, 14, 16, 17, 31, 32, 48, 63, 64, 80}, white \in {0, 4095, 65535},
       black \in {0, 256}, shift \in {-1, 0, 2, 4, 6, 15, 16},
       swap \in BOOLEAN}

LOCAL Frames ==
    {[cfg |-> [Small EXCEPT !.width = w, !.height = h, !.gpr_params = params],
      env |-> [Empty EXCEPT !.direct_hybrid = hybrid, !.lean_coeff = lean]] :
       w \in {-2, 0, 15, 16, 20, 32}, h \in {0, 16, 17, 24, 48},
       params \in {"builtin", "read", "unreadable"},
       hybrid \in BOOLEAN, lean \in BOOLEAN}

LOCAL Levered ==
    {[cfg |-> [Small EXCEPT !.mode = mode, !.quant = quant, !.caq = caq,
                            !.pixel_clean = TRUE,
                            !.noise_clean_mode = noise,
                            !.noise_clean_strength = strength],
      env |-> [Empty EXCEPT !.caq = env_caq, !.noise_clean = env_noise,
                            !.pixel_clean = env_pixel,
                            !.noise_clean_strength = env_strength,
                            !.band_q = <<<<9, 32767>>>>]] :
       mode \in {"m5", Unset}, quant \in {-1, 7, 40000}, caq \in {-1, 0, 2, 9}, noise \in {-1, 2, 4},
       strength \in {-1, 150}, env_caq \in {Unset, Other, 0, 1, 3},
       env_noise \in {Unset, 3}, env_pixel \in {Unset, FALSE},
       env_strength \in {Unset, 10, 300}}

MCCalls == Precision \cup Source16 \cup Frames \cup Levered

MCDivisors == 1..32767
=============================================================================
