------------------------------ MODULE MCStorage ------------------------------
(***************************************************************************)
(* Instances of Storage for TLC: two sectors of two slots, the four        *)
(* BlobTypes of the firmware in their real places.                         *)
(***************************************************************************)
EXTENDS Storage

\* FEATURES_HANDLER_CONFIG, KEYS_CONFIG, TIME_TRACKER_DATA
MCThreadBlobs == {1, 2, 3}
\* TIME_TRACKER_DATA
MCTickBlobs == {3}
=============================================================================
