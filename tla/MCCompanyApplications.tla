------------------------ MODULE MCCompanyApplications ------------------------
(***************************************************************************)
(* Values for the runs of CompanyApplications: two shareholders and a      *)
(* holding company one of them signs for. A kind stands for the others     *)
(* that are handled by the same code.                                      *)
(***************************************************************************)
EXTENDS CompanyApplications, TLC

CONSTANTS ann, bob, corp, r1, r2

MCParties   == {ann, bob, corp}
MCSignatory == ann :> "ann" @@ bob :> "bob" @@ corp :> "bob"

\* ann's two votes of three are exactly two thirds.
Majority == ann :> 2 @@ bob :> 1
\* After a transfer to the holding company no one reaches two thirds alone.
Split    == ann :> 1 @@ corp :> 1

MCRegisters == {Majority, Split}

Reviewing      == {"route_to_review", "approve", "reject"}
Administration == Reviewing \cup {"suspend", "reactivate", "archive"}
=============================================================================
