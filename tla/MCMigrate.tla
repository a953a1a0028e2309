------------------------------- MODULE MCMigrate -------------------------------
(* Two files: one like V0001, which begins with a CREATE EXTENSION IF NOT      *)
(* EXISTS and goes on with plain CREATEs, and one that follows the convention  *)
(* of docs/DESIGN.md that every statement can be repeated.                     *)
EXTENDS Migrate, TLC

MCStatements == <<3, 2>>
MCTolerant   == {<<1, 1>>, <<2, 1>>, <<2, 2>>}

Symmetry == Permutations(Runs)
=============================================================================
