---------------------------- MODULE MCConnection ----------------------------
(* Connection with clients that send any frames, in any order.             *)
EXTENDS Connection

Frame(id, data) == [id |-> id, data |-> data]

(* The two handshakes, the frames of the status dialogue (a request, pings *)
(* with two payloads, a ping without), those of the login (names, tokens   *)
(* right, wrong and undecryptable, a plugin response), an unknown id.      *)
AllFrames ==
  {Frame(0, "status"), Frame(0, "login"), Frame(0, "Empty"), Frame(0, "name"),
   Frame(1, "echo"), Frame(1, "other"), Frame(1, "name"), Frame(1, "Empty"),
   Frame(2, "name"), Frame(3, "Empty")}

(* Three bytes with the values at which the sign or the carry changes.     *)
EdgeDigests ==
  LET Edge == {0, 1, 127, 128, 255} IN {<<a, b, c>> : a, b, c \in Edge}

=============================================================================
