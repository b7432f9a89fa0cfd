------------------------------ MODULE MCFirmware ------------------------------
(***************************************************************************)
(* Instances of Firmware for TLC: two sectors of two slots, the four blobs *)
(* in their real places: the count of boots with the features' choice, the *)
(* keys with the tracker's data.                                           *)
(***************************************************************************)
EXTENDS Firmware

MCThreadBlobs == Clients
MCTickBlobs   == {TIME_TRACKER_DATA}
=============================================================================
