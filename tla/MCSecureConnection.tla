-------------------------- MODULE MCSecureConnection --------------------------
(* Messages: two of the initiator, which two threads send, and one of the acceptor. *)
EXTENDS SecureConnection

B == INSTANCE Base64

MCMaxMessage == [initiator |-> 2, acceptor |-> 1]

(* every length of the last group, bytes with bits in every digit; texts with padding,
   spaces and foreign characters in every place of up to one group and one character  *)
ASSUME Base64RoundTrip == B!RoundTrip({0, 1, 90, 165, 255}, 5)
ASSUME Base64Canonical == B!Canonical({0, 1, 32, 63, B!Pad64, B!Space, B!Other}, 5)
=============================================================================
