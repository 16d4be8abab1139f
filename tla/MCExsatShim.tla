---------------------------- MODULE MCExsatShim -----------------------------
(***************************************************************************)
(* Model-checks ExsatShim: two connections that share the cache.  c1 shows *)
(* what order requests and answers keep; c2 fetches, fills and evicts      *)
(* beside it.                                                              *)
(***************************************************************************)
EXTENDS ExsatShim

CONSTANTS c1, c2

MCMaxRequests == [c \in Conns |-> IF c = c1 THEN 2 ELSE 0]
MCMaxServed   == [c \in Conns |-> IF c = c1 THEN 2 ELSE 1]

=============================================================================
