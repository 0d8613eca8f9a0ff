----------------------------- MODULE MCAppStream ------------------------------
(* A small instance of AppStream: payloads that look like the start of a   *)
(* frame, and between the frames a line of text, a first byte, two         *)
(* first bytes, a header that declares too much.                           *)
EXTENDS AppStream

Newline == 10

SmallPayloads == {<<>>, <<Newline>>, <<START1, START2, 0>>}

TextAndHeaders ==
    {<<Newline, Newline>>, <<START1>>, <<START1, START2>>, <<START1, START2, 255, 255>>}

(* The noise of this instance is of the second harmless kind.              *)
ASSUME HarmlessNoise /\ ~ClosedNoise /\ NoneCompletes
=============================================================================
