---------------------------- MODULE ConsentTally ----------------------------
(***************************************************************************)
(* How the answers to the consent requests of one company application are *)
(* summed up: company/services/company-consent.service.ts, the four        *)
(* compute...ConsentProgress methods, and the choice between them in       *)
(* company-application.service.ts, decideApplicationConsents.              *)
(*                                                                         *)
(* A consent row is identified by its slot <<role, party>>: the role the   *)
(* row was created for and the party (a user or a company) it speaks for.  *)
(* A ballot is the set of rows of one application, as a function from the  *)
(* slots that have a row to the row's status. The shareholder register is  *)
(* a function from the parties that hold shares to their votingRatio.      *)
(* votingRatio is a Float compared with an epsilon of 1e-9; here a weight  *)
(* is a natural number and the comparisons are exact.                      *)
(***************************************************************************)
EXTENDS Naturals, FiniteSets

CONSTANT Parties

KeyedRoles    == {"SHAREHOLDER", "TRANSFEREE"}
OfficerRoles  == {"DIRECTOR", "SUPERVISOR"}
ManagerRoles  == {"MANAGER", "DEPUTY_MANAGER", "FINANCIAL_OFFICER"}
Slots         == (KeyedRoles \cup OfficerRoles \cup ManagerRoles) \X Parties
Votes         == {"PENDING", "APPROVED", "REJECTED"}

TwoThirdsKinds == {"deregistration", "rename", "domicile_change",
                   "business_scope_change", "capital_change"}
VotingKinds    == TwoThirdsKinds \cup {"officer_change", "management_change"}
DefaultKinds   == {"equity_transfer", "registration"}

(***************************************************************************)
(* Helpers.                                                                *)
(***************************************************************************)

RowsOf(rows, roles) == {slot \in DOMAIN rows : slot[1] \in roles}
Some(rows, slots, vote) == \E slot \in slots : rows[slot] = vote

\* The worst status among the rows of one key wins; no row counts as PENDING.
StatusOf(rows, roles, party) ==
  LET mine == {slot \in RowsOf(rows, roles) : slot[2] = party}
  IN  IF Some(rows, mine, "REJECTED") THEN "REJECTED"
      ELSE IF mine = {} \/ Some(rows, mine, "PENDING") THEN "PENDING"
      ELSE "APPROVED"

\* The votes a set of parties can cast: party p holds votes 1 to register[p].
VotesOf(register, parties) == UNION {{p} \X (1 .. register[p]) : p \in parties}
Weight(register, parties)  == Cardinality(VotesOf(register, parties))
Total(register)            == Weight(register, DOMAIN register)

\* The parties of the register whose answer is vote.
Voters(rows, register, roles, vote) ==
  {p \in DOMAIN register : StatusOf(rows, roles, p) = vote}

(***************************************************************************)
(* One operator per method of the service.                                 *)
(***************************************************************************)

\* computeDefaultConsentProgress: everybody must agree.
DefaultTally(rows) ==
  IF Some(rows, DOMAIN rows, "REJECTED") THEN "REJECTED"
  ELSE IF Some(rows, DOMAIN rows, "PENDING") THEN "PENDING"
  ELSE "APPROVED"

\* The end of the three threshold methods: lost beats won, else still open.
Outcome(lost, won) ==
  IF lost THEN "REJECTED" ELSE IF won THEN "APPROVED" ELSE "PENDING"

\* computeDeregistrationConsentProgress: two thirds of the voting rights, and
\* every invited party that is not in the register yet.
ShareholderTally_Strict(rows, register) ==
  LET approved == Weight(register, Voters(rows, register, KeyedRoles, "APPROVED"))
      pending  == Weight(register, Voters(rows, register, KeyedRoles, "PENDING"))
      total    == Total(register)
      extra    == {slot \in RowsOf(rows, KeyedRoles) :
                     slot[2] \notin DOMAIN register}
  IN  IF total = 0 THEN DefaultTally(rows)
      ELSE Outcome(\/ Some(rows, extra, "REJECTED")
                   \/ 3 * (approved + pending) < 2 * total,
                   /\ 3 * approved > 2 * total
                   /\ ~Some(rows, extra, "PENDING"))

ShareholderTally_NamedIgnored(rows, register) ==
  LET approved == Weight(register, Voters(rows, register, KeyedRoles, "APPROVED"))
      pending  == Weight(register, Voters(rows, register, KeyedRoles, "PENDING"))
      total    == Total(register)
      extra    == {slot \in RowsOf(rows, KeyedRoles) :
                     slot[2] \notin DOMAIN register}
  IN  IF total = 0 THEN DefaultTally(rows)
      ELSE Outcome(\/ Some(rows, extra, "REJECTED")
                   \/ 3 * (approved + pending) < 2 * total,
                   3 * approved >= 2 * total)

ShareholderTally(rows, register) ==
  LET approved == Weight(register, Voters(rows, register, KeyedRoles, "APPROVED"))
      pending  == Weight(register, Voters(rows, register, KeyedRoles, "PENDING"))
      total    == Total(register)
      extra    == {slot \in RowsOf(rows, KeyedRoles) :
                     slot[2] \notin DOMAIN register}
  IN  IF total = 0 THEN DefaultTally(rows)
      ELSE Outcome(\/ Some(rows, extra, "REJECTED")
                   \/ 3 * (approved + pending) < 2 * total,
                   /\ 3 * approved >= 2 * total
                   /\ ~Some(rows, extra, "PENDING"))

\* computeOfficerChangeConsentProgress: half of the voting rights and every new
\* director and supervisor. Without a register every keyed party weighs one.
OfficerTally(rows, register) ==
  LET holders  == {"SHAREHOLDER"}
      weights  == IF DOMAIN register # {} THEN register
                  ELSE [p \in {s[2] : s \in RowsOf(rows, holders)} |-> 1]
      approved == Weight(weights, Voters(rows, weights, holders, "APPROVED"))
      pending  == Weight(weights, Voters(rows, weights, holders, "PENDING"))
      total    == Total(weights)
      officers == RowsOf(rows, OfficerRoles)
      waiting  == Some(rows, officers, "PENDING")
  IN  IF Some(rows, officers, "REJECTED") THEN "REJECTED"
      ELSE IF total = 0
      THEN IF waiting THEN "PENDING" ELSE DefaultTally(rows)
      ELSE Outcome(2 * (approved + pending) < total,
                   2 * approved >= total /\ ~waiting)

\* computeManagementChangeConsentProgress: half of the directors, rounded up,
\* and every new manager. Without directors the ballot is lost.
ManagementTally_RoundedDown(rows) ==
  LET managers  == RowsOf(rows, ManagerRoles)
      directors == RowsOf(rows, {"DIRECTOR"})
      count(v)  == Cardinality({s \in directors : rows[s] = v})
      threshold == Cardinality(directors) \div 2
  IN  Outcome(\/ Some(rows, managers, "REJECTED")
              \/ directors = {}
              \/ count("APPROVED") + count("PENDING") < threshold,
              /\ count("APPROVED") >= threshold
              /\ ~Some(rows, managers, "PENDING"))

ManagementTally(rows) ==
  LET managers  == RowsOf(rows, ManagerRoles)
      directors == RowsOf(rows, {"DIRECTOR"})
      count(v)  == Cardinality({s \in directors : rows[s] = v})
      threshold == (Cardinality(directors) + 1) \div 2
  IN  Outcome(\/ Some(rows, managers, "REJECTED")
              \/ directors = {}
              \/ count("APPROVED") + count("PENDING") < threshold,
              /\ count("APPROVED") >= threshold
              /\ ~Some(rows, managers, "PENDING"))

\* The choice made by decideApplicationConsents.
ConsentProgress(kind, rows, register) ==
  CASE kind \in TwoThirdsKinds      -> ShareholderTally(rows, register)
    [] kind = "officer_change"      -> OfficerTally(rows, register)
    [] kind = "management_change"   -> ManagementTally(rows)
    [] OTHER                        -> DefaultTally(rows)

(***************************************************************************)
(* The slots a new ballot is created with, by the init...Consents methods. *)
(* named holds the slots of the parties the application newly brings in:   *)
(* the transferee, the new shareholders, the new officers.                 *)
(***************************************************************************)
NamedRoles(kind) ==
  CASE kind = "equity_transfer"   -> {"TRANSFEREE"}
    [] kind = "capital_change"    -> {"SHAREHOLDER"}
    [] kind = "officer_change"    -> OfficerRoles
    [] kind = "management_change" -> ManagerRoles
    [] OTHER                      -> {}

RequiredSlots(kind, holders, directors, named) ==
  CASE kind = "equity_transfer"   -> named
    [] kind = "management_change" -> named \cup ({"DIRECTOR"} \X directors)
    [] OTHER                      -> named \cup ({"SHAREHOLDER"} \X holders)
=============================================================================
