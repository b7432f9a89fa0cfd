------------------------------- MODULE MCClock -------------------------------
(***************************************************************************)
(* An instance of Clock for TLC.  The days lie at the ends of February and *)
(* of December of common and leap years (1972), of years that are a        *)
(* century (2100) and of one that is four (2000), and in the present.      *)
(* The year wraps before 2104, a leap year as 65536 is: the last two lines *)
(* of days end in the last days before it and go on beyond, in the year 0. *)
(***************************************************************************)
EXTENDS Clock

MCSyncDays ==
  {59, 60, 789, 1095, 10956, 11016, 11017, 18992, 18993, 47540, 47541, 47600,
   48938, 48941,
   48969, 48999, 49304}
=============================================================================
