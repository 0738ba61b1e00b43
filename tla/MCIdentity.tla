----------------------------- MODULE MCIdentity -----------------------------
(***************************************************************************)
(* Bounds for Identity: the two documents of a performer.                  *)
(***************************************************************************)
EXTENDS Identity

\* The ID document may be replaced once, the selfie is uploaded once.
ReplaceOne == [k \in Kinds |-> IF k = "selfie" THEN 1 ELSE 2]
=============================================================================
