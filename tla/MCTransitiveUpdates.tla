------------------------ MODULE MCTransitiveUpdates ------------------------
(* The users of docs/example-sequence-diagram.md. *)
EXTENDS TransitiveUpdates

CONSTANTS Alice, Bob, Charlie

\* A bidirectional connection, one to and one from each of two users.
Graph == {<<Alice, Bob>>, <<Bob, Alice>>, <<Charlie, Alice>>, <<Bob, Charlie>>}
=============================================================================
