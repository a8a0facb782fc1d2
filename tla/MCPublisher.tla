---------------------------- MODULE MCPublisher ----------------------------
(***************************************************************************)
(* The instance of PublisherHalves for TLC.  Requests: a main thread and   *)
(* two others; blocks of 6 bytes, which hold either of two chunks, in one  *)
(* order only, and not a third.  publish_file(): messages of three lines   *)
(* and files of up to seven, so with two full messages and every number of *)
(* lines left over; the longest records just fit.                          *)
(***************************************************************************)
EXTENDS PublisherHalves, TLC

CONSTANTS main, t1, t2

MCCaller == {main, t1, t2}
MCSizeOf == [short |-> 3, long |-> 5, huge |-> 6]
MCBody == {<< >>, <<"short">>, <<"huge">>, <<"long", "short">>, <<"short", "long">>}

Symmetry == Permutations({t1, t2})
=============================================================================
