------------------------------- MODULE MCClock -------------------------------
(* Clock with instants at which every carry happens, and every hour.       *)
EXTENDS Clock

MCInstants ==
  [second : {9, 58, 59}, minute : {8, 59}, hour : 0 .. 23,
   day : {9, 31}, month : {1, 12}, year : {8, 99}]
=============================================================================
