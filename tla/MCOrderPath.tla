---------------------------- MODULE MCOrderPath ----------------------------
(* Small instances of OrderPath for TLC. *)
EXTENDS OrderPath

\* Every strategy trades the same market, so the no-duplicate-asset rule
\* applies between any two of them.
SharedMarket == [s \in Strategies |-> "market"]
=============================================================================
