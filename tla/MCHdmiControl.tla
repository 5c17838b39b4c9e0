--------------------------- MODULE MCHdmiControl ---------------------------
(***************************************************************************)
(* HdmiControl with a 1080p60 source and two 1440p sources that differ in  *)
(* their rate only, as 60 and 120 Hz timings with the same totals do.      *)
(***************************************************************************)
EXTENDS HdmiControl

MCSources == {<<"fhd", 60>>, <<"qhd", 60>>, <<"qhd", 120>>}
MCDual    == {"qhd"}
=============================================================================
