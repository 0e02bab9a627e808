---------------------------- MODULE MCRunLedger ----------------------------
(* Three invocations of one run directory: the second may start beside the  *)
(* first, the third opens what they left.  Two ids are enough for a success *)
(* to be repeated and for one episode to wait for another at the gate.      *)
EXTENDS RunLedger

MCHosts    == 1 .. 3
MCEpisodes == 1 .. 2
MCCounts   == {1, 2}
MCBeside   == {2}
=============================================================================
