------------------------ MODULE ConsentBallot_proofs ------------------------
(***************************************************************************)
(* That the summary of a ballot is what the rule says of it, at every      *)
(* moment and for every register, every set of parties and every order of  *)
(* the answers.                                                            *)
(*                                                                         *)
(* The argument: the rule only gains by another yes (CarriesGrows), so of  *)
(* all the ways the missing answers may turn out only the two extremes     *)
(* matter, that nobody says yes any more and that everybody does. The      *)
(* tally compares just these two. It counts votes and the rule adds up     *)
(* holdings: WeightIsSum says that this is the same.                       *)
(***************************************************************************)
EXTENDS ConsentBallot, ConsentTally_proofs

(***************************************************************************)
(* Sums.                                                                   *)
(***************************************************************************)
\* A non-empty set of numbers has a least one.
LEMMA LeastNumber ==
  ASSUME NEW S \in SUBSET Nat, S # {}
  PROVE  \E n \in S : \A m \in S : n <= m
<1> DEFINE Less == {x \in Nat \X Nat : x[1] < x[2]}
<1>1. IsWellFoundedOn(Less, Nat)
  BY NatLessThanWellFounded DEF OpToRel
<1>2. PICK n \in S : \A m \in S : ~(<<m, n>> \in Less)
  <2> HIDE DEF Less
  <2> QED
    BY <1>1, WFMin
<1>3. ASSUME NEW m \in S PROVE n <= m
  <2>1. ~(<<m, n>> \in Less)
    BY <1>2
  <2>2. m \in Nat /\ n \in Nat
    OBVIOUS
  <2>3. ~(m < n)
    BY <2>1, <2>2
  <2> QED
    BY <2>2, <2>3
<1> QED
  BY <1>3

\* A party that is taken away takes its holdings along.
LEMMA WeightLess ==
  ASSUME NEW holding, IsRegister(holding), NEW parties \in SUBSET DOMAIN holding,
         NEW p \in parties
  PROVE  Weight(holding, parties) = holding[p] + Weight(holding, parties \ {p})
<1>1. (parties \ {p}) \cup {p} = parties
  OBVIOUS
<1>2. Weight(holding, (parties \ {p}) \cup {p}) = Weight(holding, parties \ {p}) + holding[p]
  <2> DEFINE rest == parties \ {p}
  <2>1. rest \in SUBSET DOMAIN holding /\ p \in DOMAIN holding \ rest
    OBVIOUS
  <2> HIDE DEF rest
  <2>2. Weight(holding, rest \cup {p}) = Weight(holding, rest) + holding[p]
    BY <2>1, WeightAdds
  <2> QED
    BY <2>2 DEF rest
<1>3. Weight(holding, parties \ {p}) \in Nat /\ holding[p] \in Nat
  BY WeightGrows DEF IsRegister
<1>4. Weight(holding, parties) = Weight(holding, (parties \ {p}) \cup {p})
  BY <1>1
<1> QED
  BY <1>2, <1>3, <1>4

\* The votes of a set of parties are as many as their holdings add up to.
LEMMA WeightIsSum ==
  ASSUME NEW holding, IsRegister(holding), NEW parties \in SUBSET DOMAIN holding
  PROVE  MapThenSumSet(LAMBDA p : holding[p], parties) = Weight(holding, parties)
<1> DEFINE First(s) == CHOOSE p \in s : TRUE
           Sums(sum) ==
             sum = [s \in SUBSET parties |->
                      IF s = {} THEN 0 ELSE holding[First(s)] + sum[s \ {First(s)}]]
           weights   == [s \in SUBSET parties |-> Weight(holding, s)]
           summed    == CHOOSE sum : Sums(sum)
<1>1. MapThenSumSet(LAMBDA p : holding[p], parties) = summed[parties]
  BY DEF MapThenSumSet, MapThenFoldSet
<1>2. \A s \in SUBSET parties : s # {} => First(s) \in s
  OBVIOUS
<1>3. ASSUME NEW s \in SUBSET parties
      PROVE  Weight(holding, s) =
               IF s = {} THEN 0 ELSE holding[First(s)] + Weight(holding, s \ {First(s)})
  <2>1. CASE s = {}
    <3>1. VotesOf(holding, {}) = {}
      BY DEF VotesOf
    <3> QED
      BY <2>1, <3>1, FS_EmptySet DEF Weight
  <2>2. CASE s # {}
    <3>1. First(s) \in s
      BY <1>2, <2>2
    <3> HIDE DEF First
    <3> QED
      BY <2>2, <3>1, WeightLess
  <2> QED
    BY <2>1, <2>2
<1>4. Sums(weights)
  <2>1. \A s \in SUBSET parties : s \ {First(s)} \in SUBSET parties
    OBVIOUS
  <2>2. \A s \in SUBSET parties :
          weights[s] = IF s = {} THEN 0 ELSE holding[First(s)] + weights[s \ {First(s)}]
    BY <1>3, <2>1
  <2> QED
    BY <2>2
<1>5. Sums(summed)
  BY <1>4
<1> HIDE DEF summed, weights
<1>6. ASSUME NEW s \in SUBSET parties, summed[s] # Weight(holding, s)
      PROVE  s # {} /\ summed[s \ {First(s)}] # Weight(holding, s \ {First(s)})
  BY <1>3, <1>5, <1>6
<1>7. IsFiniteSet(parties)
  BY FS_Subset DEF IsRegister
<1> DEFINE Wrong == {s \in SUBSET parties : summed[s] # Weight(holding, s)}
           sizes == {Cardinality(s) : s \in Wrong}
<1>8. \A s \in SUBSET parties : IsFiniteSet(s) /\ Cardinality(s) \in Nat
  BY <1>7, FS_Subset, FS_CardinalityType
<1>9. CASE Wrong # {}
  <2>1. sizes \in SUBSET Nat /\ sizes # {}
    BY <1>8, <1>9
  <2>2. PICK n \in sizes : \A m \in sizes : n <= m
    BY <2>1, LeastNumber
  <2>3. PICK s \in Wrong : n = Cardinality(s)
    BY <2>2
  <2>4. s # {} /\ s \ {First(s)} \in Wrong
    BY <1>6, <2>3
  <2>5. Cardinality(s \ {First(s)}) = Cardinality(s) - 1
    BY <1>2, <1>8, <2>3, <2>4, FS_RemoveElement
  <2> QED
    BY <1>8, <2>2, <2>3, <2>4, <2>5
<1> QED
  BY <1>1, <1>9

-----------------------------------------------------------------------------
(***************************************************************************)
(* The invariant: besides the types, whom the ballot of a kind asks.       *)
(***************************************************************************)
Asked ==
  /\ kind \in TwoThirdsKinds => DOMAIN rows \subseteq {"SHAREHOLDER"} \X Parties
  /\ kind = "officer_change" =>
       DOMAIN rows \subseteq ({"SHAREHOLDER"} \cup OfficerRoles) \X Parties

BInv == TypeOK /\ Asked

\* The registers of the model are registers in the sense of the tally's facts.
LEMMA RegisterFacts ==
  ASSUME NEW R \in Registers
  PROVE  IsRegister(R) /\ Total(R) \in Nat /\ Total(R) # 0
<1>1. Total(R) > 0 /\ R \in [DOMAIN R -> Nat] /\ IsFiniteSet(DOMAIN R)
  BY BallotAssumption, RegistersAssumption, FS_Subset
<1>2. DOMAIN R # {}
  <2>1. VotesOf(R, {}) = {}
    BY DEF VotesOf
  <2>2. Weight(R, {}) = 0
    BY <2>1, FS_EmptySet DEF Weight
  <2> QED
    BY <1>1, <2>2 DEF Total
<1>3. IsRegister(R)
  BY <1>1, <1>2 DEF IsRegister
<1>4. Total(R) \in Nat
  BY <1>3, WeightGrows DEF Total
<1> QED
  BY <1>1, <1>3, <1>4

\* The ballots of the model are finite: there are finitely many parties.
LEMMA SlotsAreFinite == ASSUME TypeOK PROVE IsFiniteSet(DOMAIN rows)
<1> DEFINE roles == KeyedRoles \cup OfficerRoles \cup ManagerRoles
<1>1. IsFiniteSet(roles)
  <2>1. roles = {"SHAREHOLDER", "TRANSFEREE", "DIRECTOR", "SUPERVISOR", "MANAGER",
                 "DEPUTY_MANAGER", "FINANCIAL_OFFICER"}
    BY DEF KeyedRoles, OfficerRoles, ManagerRoles
  <2>2. IsFiniteSet({})
    BY FS_EmptySet
  <2> DEFINE s1 == {} \cup {"SHAREHOLDER"}
             s2 == s1 \cup {"TRANSFEREE"}
             s3 == s2 \cup {"DIRECTOR"}
             s4 == s3 \cup {"SUPERVISOR"}
             s5 == s4 \cup {"MANAGER"}
             s6 == s5 \cup {"DEPUTY_MANAGER"}
             s7 == s6 \cup {"FINANCIAL_OFFICER"}
  <2>3. IsFiniteSet(s7)
    BY <2>2, FS_AddElement
  <2> QED
    BY <2>1, <2>3
<1>2. IsFiniteSet(roles \X Parties)
  BY <1>1, BallotAssumption, FS_Product
<1> QED
  BY <1>2, FS_Subset DEF TypeOK, Slots

\* A new ballot asks the parties of its kind.
LEMMA BallotInit == Init => BInv
<1> SUFFICES ASSUME Init PROVE BInv
  OBVIOUS
<1>1. PICK opened \in Registers, named \in SUBSET (NamedRoles(kind) \X Parties) :
        rows = [slot \in RequiredSlots(kind, DOMAIN opened, Directors, named)
                  |-> "PENDING"]
  BY DEF Init
<1>2. DOMAIN opened \subseteq Parties /\ Directors \subseteq Parties
  BY BallotAssumption, RegistersAssumption
<1>3. DOMAIN rows = RequiredSlots(kind, DOMAIN opened, Directors, named)
        /\ rows \in [DOMAIN rows -> Votes]
  BY <1>1 DEF Votes
<1>4. NamedRoles(kind) \subseteq KeyedRoles \cup OfficerRoles \cup ManagerRoles
  BY DEF NamedRoles, KeyedRoles
<1>5. DOMAIN rows \subseteq Slots
  BY <1>2, <1>3, <1>4 DEF RequiredSlots, Slots, KeyedRoles, OfficerRoles
<1>6. kind \in Kinds /\ register \in Registers
  BY DEF Init
<1>7. Asked
  BY <1>2, <1>3 DEF Asked, RequiredSlots, NamedRoles, TwoThirdsKinds
<1> QED
  BY <1>3, <1>5, <1>6, <1>7 DEF BInv, TypeOK

\* An answer changes open rows only, and neither the kind nor the register.
LEMMA AnswerAnswers ==
  ASSUME TypeOK, [Next]_vars
  PROVE  /\ UNCHANGED <<kind, register>> /\ Answers(rows, rows')
         /\ rows' \in [DOMAIN rows -> Votes]
<1>1. CASE UNCHANGED vars
  BY <1>1 DEF vars, Answers, TypeOK
<1>2. CASE Next
  <2>1. PICK party \in Parties, vote \in {"APPROVED", "REJECTED"} :
          Answer(Signatory[party], vote)
    BY <1>2 DEF Next
  <2>2. rows' = Answered(rows, Signatory[party], vote) /\ UNCHANGED <<kind, register>>
    BY <2>1 DEF Answer
  <2> QED
    BY <2>2 DEF Answered, Answers, TypeOK, Votes
<1> QED
  BY <1>1, <1>2

\* Every step keeps the invariant.
LEMMA BallotStep == BInv /\ [Next]_vars => BInv'
<1> SUFFICES ASSUME BInv, [Next]_vars PROVE BInv'
  OBVIOUS
<1>1. UNCHANGED <<kind, register>> /\ Answers(rows, rows') /\ rows' \in [DOMAIN rows -> Votes]
  BY AnswerAnswers DEF BInv
<1>2. DOMAIN rows' = DOMAIN rows
  BY <1>1
<1> QED
  BY <1>1, <1>2 DEF BInv, TypeOK, Asked

\* The invariant holds throughout.
THEOREM BallotInvariance == Spec => []BInv
BY BallotInit, BallotStep, PTL DEF Spec

\* The rows of a ballot keep their types.
THEOREM BallotTypes == Spec => []TypeOK
<1>1. BInv => TypeOK
  BY DEF BInv
<1> QED
  BY <1>1, BallotInvariance, PTL

\* What the authority and the applicant were told of a decided ballot stays true.
THEOREM DecisionsAreStable == Spec => DecisionIsStable
<1>1. ASSUME BInv, [Next]_vars
      PROVE  LET before == ConsentProgress(kind, rows, register)
             IN  before # "PENDING" => ConsentProgress(kind, rows, register)' = before
  <2>1. UNCHANGED <<kind, register>> /\ Answers(rows, rows')
    BY <1>1, AnswerAnswers DEF BInv
  <2>2. IsRegister(register) /\ IsFiniteSet(DOMAIN rows)
    BY <1>1, RegisterFacts, SlotsAreFinite DEF BInv, TypeOK
  <2>3. ConsentProgress(kind, rows, register)' = ConsentProgress(kind, rows', register)
    BY <2>1
  <2> QED
    BY <2>1, <2>2, <2>3, DecidedBallotStaysDecided
<1> QED
  BY <1>1, BallotInvariance, PTL DEF Spec, DecisionIsStable

\* No ballot hangs at the exact threshold.
THEOREM FullBallotsAreDecided == Spec => []FullBallotIsDecided
<1>1. ASSUME BInv PROVE FullBallotIsDecided
  <2>1. /\ IsRegister(register) /\ IsFiniteSet(DOMAIN rows)
        /\ rows \in [DOMAIN rows -> Votes]
    BY <1>1, RegisterFacts, SlotsAreFinite DEF BInv, TypeOK
  <2>2. ASSUME Waiting = {} PROVE ConsentProgress(kind, rows, register) # "PENDING"
    <3>1. ~Some(rows, DOMAIN rows, "PENDING")
      BY <2>2 DEF Waiting, Some
    <3>2. kind \notin DefaultKinds \cup {"management_change"} =>
            {"SHAREHOLDER"} \X DOMAIN register \subseteq DOMAIN rows
      BY <2>2 DEF Waiting, Missing
    <3> QED
      BY <2>1, <3>1, <3>2, AnsweredBallotIsDecided
  <2> QED
    BY <2>2 DEF FullBallotIsDecided
<1> QED
  BY <1>1, BallotInvariance, PTL

-----------------------------------------------------------------------------
(***************************************************************************)
(* The tally and the rule.                                                 *)
(***************************************************************************)
Everyone == DOMAIN rows \cup Missing

\* The holders all of whose keys say yes.
For(yes) == {p \in DOMAIN register : \A slot \in Everyone :
               slot[1] \in KeyedRoles /\ slot[2] = p => slot \in yes}

\* What a kind's rule says of the answer set yes.
LEMMA RuleOfKind ==
  ASSUME BInv, NEW yes
  PROVE  LET directors == RowsOf(rows, {"DIRECTOR"})
         IN  /\ kind \in TwoThirdsKinds =>
                  (Carries(yes, Everyone) <=>
                     /\ 3 * Weight(register, For(yes)) >= 2 * Total(register)
                     /\ \A slot \in Everyone : slot[2] \notin DOMAIN register => slot \in yes)
             /\ kind = "officer_change" =>
                  (Carries(yes, Everyone) <=>
                     /\ 2 * Weight(register, For(yes)) >= Total(register)
                     /\ RowsOf(rows, OfficerRoles) \subseteq yes)
             /\ kind = "management_change" =>
                  (Carries(yes, Everyone) <=>
                     /\ 2 * Cardinality(yes \cap directors) >= Cardinality(directors)
                     /\ directors # {}
                     /\ RowsOf(rows, ManagerRoles) \subseteq yes)
             /\ kind \in DefaultKinds => (Carries(yes, Everyone) <=> Everyone = yes)
<1>1. IsRegister(register)
  BY RegisterFacts DEF BInv, TypeOK
<1>2. For(yes) \in SUBSET DOMAIN register
  BY DEF For
<1>3. /\ WeightOf(For(yes)) = Weight(register, For(yes))
      /\ WeightOf(DOMAIN register) = Total(register)
  BY <1>1, <1>2, WeightIsSum DEF WeightOf, Total
<1>4. CASE kind \in TwoThirdsKinds
  BY <1>3, <1>4 DEF Carries, For, TwoThirdsKinds, DefaultKinds
<1>5. CASE kind = "officer_change"
  BY <1>3, <1>5 DEF Carries, For, TwoThirdsKinds, DefaultKinds
<1>6. CASE kind = "management_change"
  BY <1>6 DEF Carries, TwoThirdsKinds, DefaultKinds
<1>7. CASE kind \in DefaultKinds
  BY <1>7 DEF Carries, TwoThirdsKinds, DefaultKinds
<1> QED
  BY <1>4, <1>5, <1>6, <1>7

\* The kinds there are.
LEMMA KindsAre ==
  ASSUME BInv
  PROVE  \/ kind \in TwoThirdsKinds \/ kind = "officer_change"
         \/ kind = "management_change" \/ kind \in DefaultKinds
BY BallotAssumption DEF BInv, TypeOK, VotingKinds

\* Another yes never does harm.
LEMMA CarriesGrows ==
  ASSUME BInv, NEW yes, NEW more \in SUBSET Everyone, yes \subseteq more,
         Carries(yes, Everyone)
  PROVE  Carries(more, Everyone)
<1> DEFINE directors == RowsOf(rows, {"DIRECTOR"})
<1>1. /\ Weight(register, For(yes)) \in Nat /\ Weight(register, For(more)) \in Nat
      /\ Weight(register, For(yes)) <= Weight(register, For(more))
      /\ Total(register) \in Nat
  <2>1. IsRegister(register) /\ Total(register) \in Nat
    BY RegisterFacts DEF BInv, TypeOK
  <2>2. For(yes) \in SUBSET For(more) /\ For(more) \in SUBSET DOMAIN register
    BY DEF For
  <2> QED
    BY <2>1, <2>2, WeightGrows
<1>2. /\ Cardinality(yes \cap directors) \in Nat /\ Cardinality(more \cap directors) \in Nat
      /\ Cardinality(yes \cap directors) <= Cardinality(more \cap directors)
      /\ Cardinality(directors) \in Nat
  <2>1. directors \in SUBSET DOMAIN rows /\ more \cap directors \in SUBSET directors
          /\ yes \cap directors \in SUBSET (more \cap directors)
    BY DEF RowsOf
  <2>2. IsFiniteSet(directors) /\ IsFiniteSet(more \cap directors)
          /\ IsFiniteSet(yes \cap directors)
    BY <2>1, SlotsAreFinite, FS_Subset DEF BInv
  <2> QED
    BY <2>1, <2>2, FS_Subset, FS_CardinalityType
<1> HIDE DEF directors
<1>3. CASE kind \in TwoThirdsKinds
  <2>1. \A set : Carries(set, Everyone) <=>
           /\ 3 * Weight(register, For(set)) >= 2 * Total(register)
           /\ \A slot \in Everyone : slot[2] \notin DOMAIN register => slot \in set
    BY <1>3, RuleOfKind
  <2> QED
    BY <1>1, <2>1
<1>4. CASE kind = "officer_change"
  BY <1>1, <1>4, RuleOfKind
<1>5. CASE kind = "management_change"
  <2>1. \A set : Carries(set, Everyone) <=>
           /\ 2 * Cardinality(set \cap directors) >= Cardinality(directors)
           /\ directors # {} /\ RowsOf(rows, ManagerRoles) \subseteq set
    BY <1>5, RuleOfKind DEF directors
  <2> QED
    BY <1>2, <2>1
<1>6. CASE kind \in DefaultKinds
  <2>1. \A set : Carries(set, Everyone) <=> Everyone = set
    BY <1>6, RuleOfKind
  <2> QED
    BY <2>1
<1> QED
  BY <1>3, <1>4, <1>5, <1>6, KindsAre

\* The one row that speaks for a holder, or its absence.
LEMMA HolderStatus ==
  ASSUME BInv, kind \in TwoThirdsKinds \cup {"officer_change"},
         NEW roles \in {KeyedRoles, {"SHAREHOLDER"}}, NEW p \in DOMAIN register
  PROVE  LET own == <<"SHAREHOLDER", p>>
         IN  /\ StatusOf(rows, roles, p) = IF own \in DOMAIN rows THEN rows[own] ELSE "PENDING"
             /\ own \in Everyone /\ (own \notin DOMAIN rows => own \in Missing)
             /\ \A slot \in Everyone : slot[1] \in KeyedRoles /\ slot[2] = p => slot = own
<1> DEFINE own  == <<"SHAREHOLDER", p>>
           mine == {slot \in RowsOf(rows, roles) : slot[2] = p}
<1>1. kind \notin DefaultKinds \cup {"management_change"}
  BY DEF TwoThirdsKinds, DefaultKinds
<1>2. own \in Everyone /\ (own \notin DOMAIN rows => own \in Missing)
  BY <1>1 DEF Everyone, Missing
<1>3. DOMAIN rows \subseteq ({"SHAREHOLDER"} \cup OfficerRoles) \X Parties
  BY DEF BInv, Asked
<1>4. \A slot \in Everyone : slot[1] \in KeyedRoles /\ slot[2] = p => slot = own
  BY <1>3 DEF Everyone, Missing, KeyedRoles, OfficerRoles
<1>5. \A slot \in mine : slot \in DOMAIN rows /\ slot[1] \in KeyedRoles /\ slot[2] = p
  BY DEF RowsOf, KeyedRoles
<1>6. own \in DOMAIN rows => own \in mine
  BY DEF RowsOf, KeyedRoles
<1>7. mine = IF own \in DOMAIN rows THEN {own} ELSE {}
  BY <1>4, <1>5, <1>6 DEF Everyone
<1>8. own \in DOMAIN rows => rows[own] \in Votes
  BY DEF BInv, TypeOK
<1>9. StatusOf(rows, roles, p) = IF own \in DOMAIN rows THEN rows[own] ELSE "PENDING"
  <2>1. StatusOf(rows, roles, p) =
          IF Some(rows, mine, "REJECTED") THEN "REJECTED"
          ELSE IF mine = {} \/ Some(rows, mine, "PENDING") THEN "PENDING" ELSE "APPROVED"
    BY DEF StatusOf
  <2> QED
    BY <1>7, <1>8, <2>1 DEF Some, Votes
<1> QED
  BY <1>2, <1>4, <1>9

\* At the two extremes the holders in favour are those the tally counts.
LEMMA HoldersFor ==
  ASSUME BInv, kind \in TwoThirdsKinds \cup {"officer_change"},
         NEW roles \in {KeyedRoles, {"SHAREHOLDER"}}
  PROVE  LET approved == Weight(register, Voters(rows, register, roles, "APPROVED"))
             pending  == Weight(register, Voters(rows, register, roles, "PENDING"))
         IN  /\ Weight(register, For(Agreed)) = approved
             /\ Weight(register, For(Agreed \cup Waiting)) = approved + pending
             /\ approved \in Nat /\ pending \in Nat
<1>1. For(Agreed) = Voters(rows, register, roles, "APPROVED")
  <2>1. ASSUME NEW p \in DOMAIN register
        PROVE  p \in For(Agreed) <=> StatusOf(rows, roles, p) = "APPROVED"
    <3> DEFINE own == <<"SHAREHOLDER", p>>
    <3>0. /\ own \in Everyone
          /\ \A slot \in Everyone : slot[1] \in KeyedRoles /\ slot[2] = p => slot = own
      BY HolderStatus
    <3>1. p \in For(Agreed) <=> own \in Agreed
      BY <3>0 DEF For, KeyedRoles
    <3>2. own \in Agreed <=> own \in DOMAIN rows /\ rows[own] = "APPROVED"
      BY DEF Agreed
    <3> QED
      BY <3>1, <3>2, HolderStatus
  <2> QED
    BY <2>1 DEF Voters, For
<1>2. For(Agreed \cup Waiting)
        = {p \in DOMAIN register : StatusOf(rows, roles, p) # "REJECTED"}
  <2>1. ASSUME NEW p \in DOMAIN register
        PROVE  p \in For(Agreed \cup Waiting) <=> StatusOf(rows, roles, p) # "REJECTED"
    <3> DEFINE own == <<"SHAREHOLDER", p>>
    <3>0. /\ own \in Everyone /\ (own \notin DOMAIN rows => own \in Missing)
          /\ \A slot \in Everyone : slot[1] \in KeyedRoles /\ slot[2] = p => slot = own
      BY HolderStatus
    <3>1. p \in For(Agreed \cup Waiting) <=> own \in Agreed \cup Waiting
      BY <3>0 DEF For, KeyedRoles
    <3>2. own \in DOMAIN rows => (own \in Agreed \cup Waiting <=> rows[own] # "REJECTED")
      BY DEF Agreed, Waiting, Missing, BInv, TypeOK, Votes
    <3>3. own \notin DOMAIN rows => own \in Waiting
      BY <3>0 DEF Waiting
    <3> QED
      BY <3>1, <3>2, <3>3, HolderStatus
  <2> QED
    BY <2>1 DEF For
<1>3. IsRegister(register)
  BY RegisterFacts DEF BInv, TypeOK
<1> QED
  BY <1>1, <1>2, <1>3, NotRefused

\* The summary of two thirds of the votes says what the rule says.
LEMMA TwoThirdsRule ==
  ASSUME BInv, kind \in TwoThirdsKinds
  PROVE  /\ ConsentProgress(kind, rows, register) = "APPROVED" <=> Carries(Agreed, Everyone)
         /\ ConsentProgress(kind, rows, register) = "REJECTED"
              <=> ~Carries(Agreed \cup Waiting, Everyone)
<1> DEFINE approved == Weight(register, Voters(rows, register, KeyedRoles, "APPROVED"))
           pending  == Weight(register, Voters(rows, register, KeyedRoles, "PENDING"))
           total    == Total(register)
           extra    == {slot \in RowsOf(rows, KeyedRoles) : slot[2] \notin DOMAIN register}
           lost     == Some(rows, extra, "REJECTED") \/ 3 * (approved + pending) < 2 * total
           won      == 3 * approved >= 2 * total /\ ~Some(rows, extra, "PENDING")
<1>1. total \in Nat /\ total # 0
  BY RegisterFacts DEF BInv, TypeOK
<1>2. ConsentProgress(kind, rows, register) = Outcome(lost, won)
  BY <1>1 DEF ConsentProgress, ShareholderTally, TwoThirdsKinds
<1>3. extra = {slot \in Everyone : slot[2] \notin DOMAIN register}
  <2>1. DOMAIN rows \subseteq {"SHAREHOLDER"} \X Parties
    BY DEF BInv, Asked
  <2>2. \A slot \in Missing : slot[2] \in DOMAIN register
    BY DEF Missing
  <2> QED
    BY <2>1, <2>2 DEF Everyone, RowsOf, KeyedRoles
<1>4. /\ Weight(register, For(Agreed)) = approved
      /\ Weight(register, For(Agreed \cup Waiting)) = approved + pending
      /\ approved \in Nat /\ pending \in Nat
  BY HoldersFor
<1>5. /\ Carries(Agreed, Everyone) <=> 3 * approved >= 2 * total /\ extra \subseteq Agreed
      /\ Carries(Agreed \cup Waiting, Everyone) <=>
           3 * (approved + pending) >= 2 * total /\ extra \subseteq Agreed \cup Waiting
  <2>1. \A yes : Carries(yes, Everyone) <=>
           3 * Weight(register, For(yes)) >= 2 * total /\ extra \subseteq yes
    <3>1. ASSUME NEW yes
          PROVE  extra \subseteq yes <=>
                   \A slot \in Everyone : slot[2] \notin DOMAIN register => slot \in yes
      BY <1>3
    <3> QED
      BY <3>1, RuleOfKind
  <2> HIDE DEF extra, approved, pending, total
  <2> QED
    BY <1>4, <2>1
<1>6. /\ extra \subseteq Agreed <=>
           ~Some(rows, extra, "PENDING") /\ ~Some(rows, extra, "REJECTED")
      /\ extra \subseteq Agreed \cup Waiting <=> ~Some(rows, extra, "REJECTED")
  <2>1. extra \subseteq DOMAIN rows /\ \A slot \in extra : rows[slot] \in Votes
    BY DEF RowsOf, BInv, TypeOK
  <2> QED
    BY <2>1 DEF Agreed, Waiting, Missing, Some, Votes
<1> HIDE DEF extra, approved, pending, total
<1> QED
  BY <1>1, <1>2, <1>4, <1>5, <1>6 DEF Outcome

\* The summary of half of the votes and the new officers says what the rule says.
LEMMA OfficerRule ==
  ASSUME BInv, kind = "officer_change"
  PROVE  /\ ConsentProgress(kind, rows, register) = "APPROVED" <=> Carries(Agreed, Everyone)
         /\ ConsentProgress(kind, rows, register) = "REJECTED"
              <=> ~Carries(Agreed \cup Waiting, Everyone)
<1> DEFINE approved == Weight(register, Voters(rows, register, {"SHAREHOLDER"}, "APPROVED"))
           pending  == Weight(register, Voters(rows, register, {"SHAREHOLDER"}, "PENDING"))
           total    == Total(register)
           officers == RowsOf(rows, OfficerRoles)
           refused  == Some(rows, officers, "REJECTED")
           waiting  == Some(rows, officers, "PENDING")
<1>1. total \in Nat /\ total # 0 /\ DOMAIN register # {}
  BY RegisterFacts DEF BInv, TypeOK, IsRegister
<1>2. ConsentProgress(kind, rows, register) =
        IF refused THEN "REJECTED"
        ELSE Outcome(2 * (approved + pending) < total, 2 * approved >= total /\ ~waiting)
  BY <1>1 DEF ConsentProgress, OfficerTally, TwoThirdsKinds
<1>3. /\ Weight(register, For(Agreed)) = approved
      /\ Weight(register, For(Agreed \cup Waiting)) = approved + pending
      /\ approved \in Nat /\ pending \in Nat
  BY HoldersFor
<1>4. /\ Carries(Agreed, Everyone) <=> 2 * approved >= total /\ officers \subseteq Agreed
      /\ Carries(Agreed \cup Waiting, Everyone) <=>
           2 * (approved + pending) >= total /\ officers \subseteq Agreed \cup Waiting
  <2>1. \A yes : Carries(yes, Everyone) <=>
           2 * Weight(register, For(yes)) >= total /\ officers \subseteq yes
    BY RuleOfKind
  <2> HIDE DEF officers, approved, pending, total
  <2> QED
    BY <1>3, <2>1
<1>5. /\ officers \subseteq Agreed <=> ~waiting /\ ~refused
      /\ officers \subseteq Agreed \cup Waiting <=> ~refused
  <2>1. officers \subseteq DOMAIN rows /\ \A slot \in officers : rows[slot] \in Votes
    BY DEF RowsOf, BInv, TypeOK
  <2> QED
    BY <2>1 DEF Agreed, Waiting, Missing, Some, Votes
<1> HIDE DEF officers, approved, pending, total
<1> QED
  BY <1>1, <1>2, <1>3, <1>4, <1>5 DEF Outcome

\* The summary of half of the directors and the new managers says what the rule
\* says: rounding up does not matter.
LEMMA ManagementRule ==
  ASSUME BInv, kind = "management_change"
  PROVE  /\ ConsentProgress(kind, rows, register) = "APPROVED" <=> Carries(Agreed, Everyone)
         /\ ConsentProgress(kind, rows, register) = "REJECTED"
              <=> ~Carries(Agreed \cup Waiting, Everyone)
<1> DEFINE managers  == RowsOf(rows, ManagerRoles)
           directors == RowsOf(rows, {"DIRECTOR"})
           count(v)  == Cardinality({s \in directors : rows[s] = v})
           yes       == count("APPROVED")
           open      == count("PENDING")
           size      == Cardinality(directors)
           half      == (size + 1) \div 2
           refused   == Some(rows, managers, "REJECTED")
           waiting   == Some(rows, managers, "PENDING")
<1>1. ConsentProgress(kind, rows, register) =
        Outcome(refused \/ directors = {} \/ yes + open < half, yes >= half /\ ~waiting)
  BY DEF ConsentProgress, ManagementTally, TwoThirdsKinds
<1>2. /\ size \in Nat /\ yes \in Nat /\ open \in Nat
      /\ Cardinality({s \in directors : rows[s] \in {"APPROVED", "PENDING"}}) = yes + open
  BY SlotsAreFinite, DirectorCounts DEF BInv
<1>3. /\ Agreed \cap directors = {s \in directors : rows[s] = "APPROVED"}
      /\ (Agreed \cup Waiting) \cap directors
           = {s \in directors : rows[s] \in {"APPROVED", "PENDING"}}
  BY DEF Agreed, Waiting, Missing, RowsOf
<1>4. /\ Carries(Agreed, Everyone) <=>
           2 * yes >= size /\ directors # {} /\ managers \subseteq Agreed
      /\ Carries(Agreed \cup Waiting, Everyone) <=>
           /\ 2 * (yes + open) >= size /\ directors # {}
           /\ managers \subseteq Agreed \cup Waiting
  <2>1. \A set : Carries(set, Everyone) <=>
           /\ 2 * Cardinality(set \cap directors) >= size
           /\ directors # {} /\ managers \subseteq set
    BY RuleOfKind
  <2>2. Cardinality(Agreed \cap directors) = yes
          /\ Cardinality((Agreed \cup Waiting) \cap directors) = yes + open
    BY <1>2, <1>3
  <2> HIDE DEF managers, directors, count, size
  <2> QED
    BY <2>1, <2>2
<1>5. /\ managers \subseteq Agreed <=> ~waiting /\ ~refused
      /\ managers \subseteq Agreed \cup Waiting <=> ~refused
  <2>1. managers \subseteq DOMAIN rows /\ \A slot \in managers : rows[slot] \in Votes
    BY DEF RowsOf, BInv, TypeOK
  <2>2. Missing = {}
    BY DEF Missing
  <2> QED
    BY <2>1, <2>2 DEF Agreed, Waiting, Some, Votes
<1> HIDE DEF managers, directors, count, size
<1>6. half \in Nat /\ \A n \in Nat : n >= half <=> 2 * n >= size
  BY <1>2
<1> HIDE DEF half
<1> QED
  BY <1>1, <1>2, <1>4, <1>5, <1>6 DEF Outcome

\* The summary of a ballot everybody must agree to says so.
LEMMA DefaultRule ==
  ASSUME BInv, kind \in DefaultKinds
  PROVE  /\ ConsentProgress(kind, rows, register) = "APPROVED" <=> Carries(Agreed, Everyone)
         /\ ConsentProgress(kind, rows, register) = "REJECTED"
              <=> ~Carries(Agreed \cup Waiting, Everyone)
<1>1. Everyone = DOMAIN rows /\ Missing = {} /\ Agreed \subseteq DOMAIN rows
  BY DEF Everyone, Missing, Agreed
<1>2. ConsentProgress(kind, rows, register) = DefaultTally(rows)
  BY DEF ConsentProgress, DefaultKinds, TwoThirdsKinds
<1>3. \A slot \in DOMAIN rows : rows[slot] \in Votes
  BY DEF BInv, TypeOK
<1>4. /\ Everyone = Agreed <=>
           ~Some(rows, DOMAIN rows, "REJECTED") /\ ~Some(rows, DOMAIN rows, "PENDING")
      /\ Everyone = Agreed \cup Waiting <=> ~Some(rows, DOMAIN rows, "REJECTED")
  BY <1>1, <1>3 DEF Agreed, Waiting, Some, Votes
<1> QED
  BY <1>2, <1>4, RuleOfKind DEF DefaultTally

\* An application is sent to the authority exactly when its ballot carries
\* whatever the missing answers turn out to be, and closed exactly when no answer
\* that is still possible can make it carry.
THEOREM TallyDecidesByTheRule == Spec => []TallyIsConclusive
<1>1. ASSUME BInv PROVE TallyIsConclusive
  <2> DEFINE progress == ConsentProgress(kind, rows, register)
             carried  == {extra \in SUBSET Waiting : Carries(Agreed \cup extra, Everyone)}
  <2>1. /\ progress = "APPROVED" <=> Carries(Agreed, Everyone)
        /\ progress = "REJECTED" <=> ~Carries(Agreed \cup Waiting, Everyone)
    BY <1>1, KindsAre, TwoThirdsRule, OfficerRule, ManagementRule, DefaultRule
  <2>2. Agreed \cup Waiting \subseteq Everyone
    BY DEF Agreed, Waiting, Everyone
  <2>3. ASSUME NEW extra \in SUBSET Waiting
        PROVE  /\ Carries(Agreed, Everyone) => Carries(Agreed \cup extra, Everyone)
               /\ Carries(Agreed \cup extra, Everyone) => Carries(Agreed \cup Waiting, Everyone)
    <3>1. Agreed \cup extra \in SUBSET Everyone /\ Agreed \cup Waiting \in SUBSET Everyone
            /\ Agreed \subseteq Agreed \cup extra
            /\ Agreed \cup extra \subseteq Agreed \cup Waiting
      BY <2>2
    <3> QED
      BY <1>1, <3>1, CarriesGrows
  <2>4. carried = SUBSET Waiting <=> Carries(Agreed, Everyone)
    <3>1. {} \in SUBSET Waiting /\ Agreed \cup {} = Agreed
      OBVIOUS
    <3> QED
      BY <2>3, <3>1
  <2>5. carried = {} <=> ~Carries(Agreed \cup Waiting, Everyone)
    BY <2>3
  <2> QED
    BY <2>1, <2>4, <2>5 DEF TallyIsConclusive, Everyone
<1> QED
  BY <1>1, BallotInvariance, PTL
=============================================================================
