----------------------------- MODULE MCNodeSync -----------------------------
(***************************************************************************)
(* Small instances of NodeSync: n1 and n2 are children of the root, n3 is  *)
(* a child of n1, n4 a child of n2 or, in the chain, of n3.                *)
(***************************************************************************)
EXTENDS NodeSync, TLC

CONSTANTS n1, n2, n3, n4

Forest(S) == [x \in S |-> IF x = n3 THEN n1 ELSE IF x = n4 THEN n2 ELSE Root]
Chain     == (n1 :> Root) @@ (n3 :> n1) @@ (n4 :> n3)

Program(parent, atServer, client, server) ==
  [parent |-> parent,
   home   |-> [x \in DOMAIN parent |-> IF x \in atServer THEN "server" ELSE "client"],
   ops    |-> [e \in End |-> IF e = "client" THEN client ELSE server]]

(* The client creates and the server reads; the server creates and the     *)
(* client reads; both create, in turns, a chain of nodes.                  *)
ClientCreates == Program(Forest({n1, n2, n3}), {}, {"create"}, {"fetch", "update"})
ServerCreates ==
  Program(Forest({n1, n2, n3}), {n1, n2, n3}, {"fetch", "update", "ls"}, {"create"})
InTurns       == Program(Chain, {n1, n4}, {"create", "update"}, {"create"})
Ordinary == {ClientCreates, ServerCreates, InTurns}

(* Both create, or read what the other creates, at the same time.          *)
BothCreate ==
  {Program(Forest({n1, n2}), {n1}, {"create", "update"}, {"create"})}
BothRead ==
  {Program(Forest({n1, n2}), {n1}, {"create", "fetch", "update"},
           {"create", "fetch", "update"})}
=============================================================================
