---------------------------- MODULE ConsentBallot ----------------------------
(***************************************************************************)
(* One consent ballot from its creation to its last answer, with the       *)
(* summary of ConsentTally read after every answer. The register the tally *)
(* reads may differ from the one the ballot was created from, because an   *)
(* equity transfer can take effect in between.                             *)
(***************************************************************************)
EXTENDS ConsentTally, FiniteSetsExt

CONSTANTS Kinds,      \* the application kinds to consider
          Registers,  \* the shareholder registers to consider
          Directors,  \* the sitting directors
          MaxNamed,   \* bound: how many parties an application newly names
          Signatory   \* Signatory[p]: the user who answers for party p

ASSUME BallotAssumption ==
  /\ IsFiniteSet(Parties)
  /\ Directors \subseteq Parties
  /\ Kinds \subseteq VotingKinds \cup DefaultKinds

\* No register is without votes: the ratios of a company add up to 100.
ASSUME RegistersAssumption ==
  \A R \in Registers :
    /\ DOMAIN R \subseteq Parties /\ R \in [DOMAIN R -> Nat]
    /\ Total(R) > 0

VARIABLES kind, register, rows

vars == <<kind, register, rows>>

TypeOK ==
  /\ kind \in Kinds
  /\ register \in Registers
  /\ DOMAIN rows \subseteq Slots
  /\ rows \in [DOMAIN rows -> Votes]

Init ==
  /\ kind \in Kinds
  /\ register \in Registers
  /\ \E opened \in Registers :
     \E named \in SUBSET (NamedRoles(kind) \X Parties) :
       /\ Cardinality(named) <= MaxNamed
       /\ kind = "equity_transfer" => Cardinality(named) = 1
       /\ rows = [slot \in RequiredSlots(kind, DOMAIN opened, Directors, named)
                    |-> "PENDING"]

\* The updateMany of decideApplicationConsents: one user answers every row
\* that still waits for them, all with the same answer.
Answered_ActionName(ballot, user, vote) ==
  [slot \in DOMAIN ballot |->
     IF ballot[slot] = "PENDING" /\ Signatory[slot[2]] = user
     THEN IF vote = "APPROVED" THEN "APPROVE" ELSE "REJECT"
     ELSE ballot[slot]]

Answered(ballot, user, vote) ==
  [slot \in DOMAIN ballot |->
     IF ballot[slot] = "PENDING" /\ Signatory[slot[2]] = user
     THEN vote ELSE ballot[slot]]

Answer(user, vote) ==
  /\ \E slot \in DOMAIN rows : rows[slot] = "PENDING" /\ Signatory[slot[2]] = user
  /\ rows' = Answered(rows, user, vote)
  /\ UNCHANGED <<kind, register>>

Next == \E party \in Parties, vote \in {"APPROVED", "REJECTED"} :
          Answer(Signatory[party], vote)

Spec == Init /\ [][Next]_vars

-----------------------------------------------------------------------------
(***************************************************************************)
(* The rule the tally is meant to compute, stated on complete answers: who *)
(* said yes, everybody else having said no.                                *)
(***************************************************************************)
WeightOf(parties) == MapThenSumSet(LAMBDA p : register[p], parties)

Carries(yes, asked) ==
  LET for      == {p \in DOMAIN register : \A slot \in asked :
                     slot[1] \in KeyedRoles /\ slot[2] = p => slot \in yes}
      officers == RowsOf(rows, OfficerRoles)
      everyone == asked = yes
  IN  CASE kind \in TwoThirdsKinds ->
             /\ 3 * WeightOf(for) >= 2 * WeightOf(DOMAIN register)
             /\ \A slot \in asked : slot[2] \notin DOMAIN register => slot \in yes
        [] kind = "officer_change" ->
             /\ 2 * WeightOf(for) >= WeightOf(DOMAIN register)
             /\ officers \subseteq yes
        [] kind = "management_change" ->
             /\ 2 * Cardinality(yes \cap RowsOf(rows, {"DIRECTOR"}))
                  >= Cardinality(RowsOf(rows, {"DIRECTOR"}))
             /\ RowsOf(rows, {"DIRECTOR"}) # {}
             /\ RowsOf(rows, ManagerRoles) \subseteq yes
        [] OTHER -> everyone

\* A shareholder who has no row is counted as someone who may still answer.
Missing ==
  IF kind \in DefaultKinds \cup {"management_change"} THEN {}
  ELSE ({"SHAREHOLDER"} \X DOMAIN register) \ DOMAIN rows

Waiting == {slot \in DOMAIN rows : rows[slot] = "PENDING"} \cup Missing
Agreed  == {slot \in DOMAIN rows : rows[slot] = "APPROVED"}

\* The summary says APPROVED exactly when the ballot carries whatever the
\* missing answers turn out to be, and REJECTED exactly when no answer that is
\* still possible can make it carry: an application is neither sent to the
\* authority nor closed (decideApplicationConsents sets REJECTED) too early.
TallyIsConclusive ==
  LET progress == ConsentProgress(kind, rows, register)
      carried  == {extra \in SUBSET Waiting :
                     Carries(Agreed \cup extra, DOMAIN rows \cup Missing)}
  IN  /\ progress = "APPROVED" <=> carried = SUBSET Waiting
      /\ progress = "REJECTED" <=> carried = {}

\* Once everybody who was asked has answered and every shareholder has a row,
\* the summary is decided: no ballot hangs at the exact threshold.
FullBallotIsDecided ==
  Waiting = {} => ConsentProgress(kind, rows, register) # "PENDING"

\* A further answer never turns a decided summary around: what the authority
\* was told, and what the applicant was told, stays true.
DecisionIsStable ==
  [][LET before == ConsentProgress(kind, rows, register)
     IN  before # "PENDING" => ConsentProgress(kind, rows, register)' = before]_vars
=============================================================================
