---------------------------- MODULE RequestStream ----------------------------
(***************************************************************************)
(* What a client of the player server may rely on: the requests that it    *)
(* writes on one connection are acted on whole, in order, each once.       *)
(* PlayerReceive implements it until the server loses its place in the     *)
(* stream (LosesPlace in PlayerReceiveProofs).                             *)
(***************************************************************************)
EXTENDS Integers

VARIABLES
  written,   \* requests written on this connection
  done       \* requests acted on

vars == <<written, done>>

Init == written = 0 /\ done = 0

Connect == written' = 0 /\ done' = 0

Write == written' = written + 1 /\ UNCHANGED done

Act == done < written /\ done' = done + 1 /\ UNCHANGED written

Next == Connect \/ Write \/ Act

Spec == Init /\ [][Next]_vars

=============================================================================
