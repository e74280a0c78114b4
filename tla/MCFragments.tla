----------------------------- MODULE MCFragments -----------------------------
(***************************************************************************)
(* Instances for TLC.  Upserts send bodies that share columns, one with a  *)
(* nested directive.  The workflows include two fragments, one fragment    *)
(* between two steps, or none; they declare a variable that a fragment     *)
(* declares too, with an empty default.  The values include tokens of      *)
(* other variables and vault references.                                   *)
(***************************************************************************)
EXTENDS Fragments, TLC

CONSTANTS f1, f2, X, Y, Z, a, b, held, lost

Step(text)          == [text |-> text]
Include(f, with)    == [include |-> f, with |-> with]
FromX == <<Step(X), Step(Z)>>

MCBefore ==
  f1 :> [steps |-> FromX, variables |-> X :> a] @@
  f2 :> [steps |-> <<Step(X)>>, variables |-> X :> b]
MCSent ==
  f1 :> { [steps |-> FromX, variables |-> X :> b @@ Y :> a],
          [steps |-> <<Step(Y)>>, variables |-> X :> a] } @@
  f2 :> { [steps |-> <<Include(f1, <<>>)>>, variables |-> <<>>] }

MCWorkflows ==
  { [steps |-> <<Step(X), Step(Z)>>, variables |-> X :> Empty],
    [steps |-> <<Include(f1, Y :> X), Step(Z), Include(f2, X :> b)>>, variables |-> Y :> Empty],
    [steps |-> <<Include(f2, X :> held), Step(X), Include(f1, <<>>)>>, variables |-> <<>>] }

MCOverrides    == { <<>>, X :> Y @@ Y :> Empty, Y :> lost }
MCEnvironments == { <<>>, X :> held }
MCVault        == held :> a
AnyWriter      == Permutations(Writers)
=============================================================================
