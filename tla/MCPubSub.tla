------------------------------ MODULE MCPubSub ------------------------------
(***************************************************************************)
(* PubSub on a small instance.                                             *)
(***************************************************************************)
EXTENDS PubSub

CONSTANTS n1, n2

\* No argument, one channel, or both.
ShortArgLists == {<< >>, <<n1>>, <<n1, n2>>}
=============================================================================
