--------------------------- MODULE MCConsentBallot ---------------------------
(***************************************************************************)
(* Three parties and registers with equal, unequal, zero and threshold     *)
(* weights; one user signs for two of the parties. No register is without  *)
(* votes: the ratios of a company add up to 100.                           *)
(***************************************************************************)
EXTENDS ConsentBallot, TLC

CONSTANTS ann, bob, corp

MCParties   == {ann, bob, corp}
MCKinds     == VotingKinds \cup {"equity_transfer"}
MCDirectors == {ann, bob, corp}
MCSignatory == ann :> "ann" @@ bob :> "bob" @@ corp :> "ann"

MCRegisters ==
  { ann :> 1 @@ bob :> 1 @@ corp :> 1,     \* two of three is exactly 2/3
    ann :> 2 @@ bob :> 1,                  \* one holder is exactly 2/3
    ann :> 1 @@ bob :> 1,                  \* one holder is exactly 1/2
    ann :> 3 @@ bob :> 1 @@ corp :> 0,     \* shares without voting rights
    corp :> 5 }
=============================================================================
