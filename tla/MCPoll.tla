------------------------------- MODULE MCPoll -------------------------------
(***************************************************************************)
(* Instances of Poll: which thread calls what.                             *)
(***************************************************************************)
EXTENDS Poll, TLC

CONSTANTS p1, p2, a

(* Two threads that poll, one that adds descriptors and stops.              *)
TwoPollers == p1 :> {"poll"} @@ p2 :> {"poll"} @@ a :> {"add", "stop"}
(* The server of the example: one thread, which only polls.                 *)
PollsAlone == p1 :> {"poll"}
(* A program that adds its descriptors first.                               *)
AddsThenPolls == p1 :> {"add", "poll"}
=============================================================================
