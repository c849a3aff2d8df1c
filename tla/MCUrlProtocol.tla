---------------------------- MODULE MCUrlProtocol ----------------------------
(* An instance of UrlProtocol for TLC. *)
EXTENDS UrlProtocol

CONSTANTS l1, l2, l3

============================================================================
