---------------------------- MODULE MCAuthManager ----------------------------
(* AuthManager with a first server and one to fail over to. *)
EXTENDS AuthManager

TwoServers == <<"a", "b">>

=============================================================================
