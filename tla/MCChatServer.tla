----------------------------- MODULE MCChatServer -----------------------------
(***************************************************************************)
(* Small instances of the chat server for TLC.                             *)
(***************************************************************************)
EXTENDS ChatProperties, TLC

\* Connections are interchangeable, and so are the ids that are keys in Redis: no
\* action or property names one.
Symmetry == Permutations(Conns) \cup Permutations(Registered)
=============================================================================
