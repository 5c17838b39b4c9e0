---------------------------- MODULE MCPassthrough ----------------------------
(* Passthrough with real modes: 60 and 120 Hz with the same totals, modes   *)
(* that differ in both halves of a snapshot, and one beyond 340 MHz.        *)
EXTENDS Passthrough

Mode(w, h, ht, vt, khz, vic) ==
  [w |-> w, h |-> h, ht |-> ht, vt |-> vt, khz |-> khz, vic |-> vic, rgb |-> TRUE]
P720    == Mode(1280, 720, 1650, 750, 74250, 4)
P1080   == Mode(1920, 1080, 2200, 1125, 148500, 16)
P1080f  == Mode(1920, 1080, 2200, 1125, 297000, 63)
P1440f  == Mode(2560, 1440, 2720, 1525, 497760, 0)
P2160   == Mode(3840, 2160, 4400, 2250, 594000, 97)
Yuv1080 == [P1080 EXCEPT !.rgb = FALSE]

MCPairs == {{P1080, P1080f}, {Yuv1080, P1440f}}
MCMonitors ==
  {[legacy |-> 165000, forum |-> 0, scdc |-> FALSE, vics |-> {P720, P1080, P1080f}, dtds |-> {P1080}],
   [legacy |-> 300000, forum |-> 600000, scdc |-> TRUE, vics |-> {P1080, P1080f, P2160},
    dtds |-> {P720, P1440f}]}
=============================================================================
