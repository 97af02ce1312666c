----------------------------- MODULE MCBusDaemon -----------------------------
(* Small topics and patterns for the bus daemon. *)
EXTENDS BusDaemon

MCTopics == {<<"a">>}
MCPatterns == {<<"a">>, <<"#">>}
=============================================================================
