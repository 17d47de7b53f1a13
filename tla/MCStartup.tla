------------------------------ MODULE MCStartup ------------------------------
(* A release, the one that follows it, and one whose first migration was     *)
(* edited.                                                                   *)
EXTENDS Startup

MCReleases == {<<"a">>, <<"a", "b">>, <<"edited">>}
==============================================================================
