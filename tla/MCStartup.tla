----------------------------- MODULE MCStartup ------------------------------
(* Small instances of Startup. *)
EXTENDS Startup

Linked == <<1, 2>>
Modules == {<<3>>, <<4>>}

=============================================================================
