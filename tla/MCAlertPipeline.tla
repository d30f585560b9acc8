--------------------------- MODULE MCAlertPipeline ----------------------------
(* Values of the constants of AlertPipeline for TLC: one stock watched in bars *)
(* of two and of three minutes, in a session of four, whose last bar of three  *)
(* minutes is clipped.                                                         *)
EXTENDS AlertPipeline

MCUniverse == << <<"stock", 2>>, <<"stock", 3>> >>
MCInstruments == {"stock"}
=============================================================================
