---------------------------- MODULE MCVideoMode ----------------------------
(***************************************************************************)
(* VideoMode with the values around the limits of gc573_modes.h: links one *)
(* below and at Gen2 x4; a 4K input, which is larger than any supported    *)
(* one; periods of 120, 60 and 144 Hz and one below 23 Hz; rates above,    *)
(* between, below and at the supported ones; a buffer for each format and  *)
(* one that is too small for any.                                          *)
(***************************************************************************)
EXTENDS VideoMode

MCLinks      == {15999, 16000}
MCGeometries == {FHD, QHD, <<3840, 2160>>}
MCPeriods    == {833333, 1668206, 694444, 4347827}
MCRequests   == {<<640, 480>>, <<1920, 1080>>, <<3840, 2160>>}
MCIntervals  == {<<1001, 120000>>, <<1, 90>>, <<1, 10>>, <<0, 1>>}
MCSizes      == {4096, 11059200}
=============================================================================
