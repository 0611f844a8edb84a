------------------------------ MODULE Dialogue ------------------------------
(***************************************************************************)
(* What a connection of the server promises its client, without phases,    *)
(* buffers or ciphers: after an opening frame, requests are heard one at a *)
(* time, each is answered before the next is heard, the answers come in    *)
(* the order of the requests, and the dialogue is over once and for all.   *)
(* A client may be identified by its last request, in place of an answer,  *)
(* and only after it was answered something before; then all that is left  *)
(* is the end. The server may end the dialogue at any time.                *)
(***************************************************************************)
EXTENDS Integers, Sequences

CONSTANTS
  Frames,    (* what the two sides say                                     *)
  Names,     (* who a client may be                                        *)
  Nobody     (* a client that is not identified                            *)

VARIABLES
  requests,  (* heard, the opening first                                   *)
  answers,   (* given                                                      *)
  identity,  (* a name or Nobody                                           *)
  over

vars == <<requests, answers, identity, over>>

Init ==
  /\ requests = << >> /\ answers = << >>
  /\ identity = Nobody /\ over = FALSE

(* The last request waits for its answer. The opening needs none.          *)
Owing == Len(requests) > Len(answers) + 1

Going == ~over /\ identity = Nobody

Hear ==
  /\ Going /\ ~Owing
  /\ \E f \in Frames : requests' = Append(requests, f)
  /\ over' \in BOOLEAN
  /\ UNCHANGED <<answers, identity>>

Answer ==
  /\ Going /\ Owing
  /\ \E f \in Frames : answers' = Append(answers, f)
  /\ over' \in BOOLEAN
  /\ UNCHANGED <<requests, identity>>

Identify ==
  /\ Going /\ ~Owing
  /\ answers # << >>
  /\ \E f \in Frames : requests' = Append(requests, f)
  /\ identity' \in Names
  /\ UNCHANGED <<answers, over>>

End ==
  /\ ~over
  /\ over' = TRUE
  /\ UNCHANGED <<requests, answers, identity>>

Next == Hear \/ Answer \/ Identify \/ End

Spec == Init /\ [][Next]_vars

=============================================================================
