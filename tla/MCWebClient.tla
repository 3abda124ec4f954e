---------------------------- MODULE MCWebClient ----------------------------
(***************************************************************************)
(* An instance of WebClient for TLC: two rooms whose settings ask for    *)
(* different questions, one each.                                          *)
(***************************************************************************)
EXTENDS WebClient, TLC

CONSTANTS r1, r2, q1, q2

TwoRooms == {r1, r2}
PaperOfEach == (r1 :> {{q1}}) @@ (r2 :> {{q2}})
MCDuration == (r1 :> 1) @@ (r2 :> 2)
OneOption == {"A"}
=============================================================================
