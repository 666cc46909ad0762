------------------------ MODULE ConsentTally_proofs ------------------------
(***************************************************************************)
(* Facts about the tallies of ConsentTally that hold for every ballot and  *)
(* every register: a ballot that is won stays won while the answers that   *)
(* are still missing come in, whatever they are.                           *)
(***************************************************************************)
EXTENDS ConsentTally, FiniteSetTheorems, TLAPS

IsRegister(register) ==
  /\ IsFiniteSet(DOMAIN register) /\ DOMAIN register # {}
  /\ register \in [DOMAIN register -> Nat]

\* The ballot later is the ballot rows after further answers: the same rows,
\* of which those that were answered are unchanged.
Answers(rows, later) ==
  /\ DOMAIN later = DOMAIN rows
  /\ \A slot \in DOMAIN rows : rows[slot] # "PENDING" => later[slot] = rows[slot]

\* A set of parties of a register holds finitely many votes.
LEMMA VotesAreFinite ==
  ASSUME NEW register, IsRegister(register),
         NEW parties \in SUBSET DOMAIN register
  PROVE  IsFiniteSet(VotesOf(register, parties))
<1> DEFINE Held == {{p} \X (1 .. register[p]) : p \in parties}
           held == [p \in parties |-> {p} \X (1 .. register[p])]
<1>1. IsFiniteSet(parties)
  BY FS_Subset DEF IsRegister
<1>2. held \in Surjection(parties, Held)
  BY DEF Surjection
<1>3. IsFiniteSet(Held)
  BY <1>1, <1>2, FS_Surjection
<1>4. ASSUME NEW votes \in Held PROVE IsFiniteSet(votes)
  <2>1. PICK p \in parties : votes = {p} \X (1 .. register[p])
    OBVIOUS
  <2>2. register[p] \in Int
    BY DEF IsRegister
  <2>3. IsFiniteSet({p})
    BY FS_Singleton
  <2>4. IsFiniteSet(1 .. register[p])
    BY <2>2, FS_Interval
  <2> QED
    BY <2>1, <2>3, <2>4, FS_Product
<1>5. IsFiniteSet(UNION Held)
  BY <1>3, <1>4, FS_UNION
<1> QED
  BY <1>5 DEF VotesOf

\* More parties have at least as much weight.
LEMMA WeightGrows ==
  ASSUME NEW register, IsRegister(register),
         NEW many \in SUBSET DOMAIN register, NEW few \in SUBSET many
  PROVE  /\ Weight(register, few) \in Nat
         /\ Weight(register, many) \in Nat
         /\ Weight(register, few) <= Weight(register, many)
<1>1. IsFiniteSet(VotesOf(register, many)) /\ IsFiniteSet(VotesOf(register, few))
  BY VotesAreFinite
<1>2. VotesOf(register, few) \in SUBSET VotesOf(register, many)
  BY DEF VotesOf
<1>3. Cardinality(VotesOf(register, few)) <= Cardinality(VotesOf(register, many))
  BY <1>1, <1>2, FS_Subset
<1> QED
  BY <1>1, <1>3, FS_CardinalityType DEF Weight

\* The weight of a set of parties depends on their holdings only.
LEMMA WeightIsLocal ==
  ASSUME NEW register, NEW other, NEW parties,
         \A p \in parties : register[p] = other[p]
  PROVE  Weight(register, parties) = Weight(other, parties)
<1>1. VotesOf(register, parties) = VotesOf(other, parties)
  BY DEF VotesOf
<1> QED
  BY <1>1 DEF Weight

LEMMA WeightOfOne ==
  ASSUME NEW register, IsRegister(register), NEW p \in DOMAIN register
  PROVE  Weight(register, {p}) = register[p]
<1>1. register[p] \in Nat
  BY DEF IsRegister
<1>2. IsFiniteSet(1 .. register[p]) /\ Cardinality(1 .. register[p]) = register[p]
  BY <1>1, FS_Interval
<1>3. Cardinality({p} \X (1 .. register[p])) = Cardinality({p}) * Cardinality(1 .. register[p])
  BY <1>2, FS_Singleton, FS_Product
<1>4. VotesOf(register, {p}) = {p} \X (1 .. register[p])
  BY DEF VotesOf
<1>5. Cardinality({p}) = 1
  BY FS_Singleton
<1>6. \A n \in Nat : 1 * n = n
  OBVIOUS
<1> QED
  BY <1>1, <1>2, <1>3, <1>4, <1>5, <1>6 DEF Weight

\* One more party adds what it holds.
LEMMA WeightAdds ==
  ASSUME NEW register, IsRegister(register), NEW parties \in SUBSET DOMAIN register,
         NEW p \in DOMAIN register \ parties
  PROVE  Weight(register, parties \cup {p}) = Weight(register, parties) + register[p]
<1>1. /\ IsFiniteSet(VotesOf(register, parties))
      /\ IsFiniteSet(VotesOf(register, {p}))
  BY VotesAreFinite
<1>2. VotesOf(register, parties \cup {p})
        = VotesOf(register, parties) \cup VotesOf(register, {p})
  BY DEF VotesOf
<1>3. VotesOf(register, parties) \cap VotesOf(register, {p}) = {}
  <2>1. ASSUME NEW vote \in VotesOf(register, parties) PROVE vote[1] \in parties
    BY <2>1 DEF VotesOf
  <2>2. ASSUME NEW vote \in VotesOf(register, {p}) PROVE vote[1] = p
    BY <2>2 DEF VotesOf
  <2> QED
    BY <2>1, <2>2
<1>4. Cardinality(VotesOf(register, parties \cup {p}))
        = Cardinality(VotesOf(register, parties)) + Cardinality(VotesOf(register, {p}))
            - Cardinality({})
  BY <1>1, <1>2, <1>3, FS_Union
<1>5. Cardinality({}) = 0
  BY FS_EmptySet
<1>6. Cardinality(VotesOf(register, parties)) \in Nat /\ register[p] \in Nat
  BY <1>1, FS_CardinalityType DEF IsRegister
<1> QED
  BY <1>4, <1>5, <1>6, WeightOfOne DEF Weight

\* What one party passes on to another leaves the total as it was.
LEMMA PassingOnKeepsTotal ==
  ASSUME NEW before, IsRegister(before), NEW after, IsRegister(after),
         NEW from \in DOMAIN before, NEW to \in DOMAIN after, from # to,
         NEW n \in Nat,
         DOMAIN after \ {from} = (DOMAIN before \cup {to}) \ {from},
         IF from \in DOMAIN after THEN after[from] = before[from] - n ELSE before[from] = n,
         after[to] = (IF to \in DOMAIN before THEN before[to] ELSE 0) + n,
         \A p \in DOMAIN before \ {from, to} : after[p] = before[p]
  PROVE  Total(after) = Total(before)
<1> DEFINE others == DOMAIN before \ {from, to}
<1>1. others \in SUBSET DOMAIN before /\ others \in SUBSET DOMAIN after
  OBVIOUS
<1>2. Weight(before, others) = Weight(after, others) /\ Weight(before, others) \in Nat
  BY <1>1, WeightIsLocal, WeightGrows
<1>3. before[from] \in Nat /\ after[to] \in Nat
  BY DEF IsRegister
<1>4. Total(before) = Weight(before, others) + before[from]
                        + (IF to \in DOMAIN before THEN before[to] ELSE 0)
  <2>1. Weight(before, others \cup {from}) = Weight(before, others) + before[from]
    BY <1>1, WeightAdds
  <2>2. CASE to \in DOMAIN before
    <3>1. DOMAIN before = (others \cup {from}) \cup {to}
      BY <2>2
    <3>2. Weight(before, (others \cup {from}) \cup {to})
            = Weight(before, others \cup {from}) + before[to]
      BY <1>1, <2>2, WeightAdds
    <3> QED
      BY <2>1, <2>2, <3>1, <3>2 DEF Total
  <2>3. CASE to \notin DOMAIN before
    <3>1. DOMAIN before = others \cup {from}
      BY <2>3
    <3> QED
      BY <1>2, <1>3, <2>1, <2>3, <3>1 DEF Total
  <2> QED
    BY <2>2, <2>3
<1>5. Total(after) = Weight(after, others) + after[to]
                       + (IF from \in DOMAIN after THEN after[from] ELSE 0)
  <2>1. Weight(after, others \cup {to}) = Weight(after, others) + after[to]
    BY <1>1, WeightAdds
  <2>2. CASE from \in DOMAIN after
    <3>1. DOMAIN after = (others \cup {to}) \cup {from}
      BY <2>2
    <3>2. Weight(after, (others \cup {to}) \cup {from})
            = Weight(after, others \cup {to}) + after[from]
      BY <1>1, <2>2, WeightAdds
    <3> QED
      BY <2>1, <2>2, <3>1, <3>2 DEF Total
  <2>3. CASE from \notin DOMAIN after
    <3>1. DOMAIN after = others \cup {to}
      BY <2>3
    <3> QED
      BY <1>2, <1>3, <2>1, <2>3, <3>1 DEF Total
  <2> QED
    BY <2>2, <2>3
<1>6. to \in DOMAIN before => before[to] \in Nat
  BY DEF IsRegister
<1> QED
  BY <1>2, <1>3, <1>4, <1>5, <1>6

\* The key of a party that has agreed stays agreed: all its rows are answered.
LEMMA AgreementStays ==
  ASSUME NEW rows, NEW later, Answers(rows, later), NEW roles, NEW party,
         StatusOf(rows, roles, party) = "APPROVED"
  PROVE  StatusOf(later, roles, party) = "APPROVED"
<1> DEFINE mine == {slot \in RowsOf(rows, roles) : slot[2] = party}
<1>1. {slot \in RowsOf(later, roles) : slot[2] = party} = mine
  BY DEF Answers, RowsOf
<1>2. mine # {} /\ ~Some(rows, mine, "REJECTED") /\ ~Some(rows, mine, "PENDING")
  BY DEF StatusOf
<1>3. \A slot \in mine : later[slot] = rows[slot]
  BY <1>2 DEF Answers, Some, RowsOf
<1>4. ~Some(later, mine, "REJECTED") /\ ~Some(later, mine, "PENDING")
  BY <1>2, <1>3 DEF Some
<1> QED
  BY <1>1, <1>2, <1>4 DEF StatusOf

\* The weight of those who have agreed never falls.
LEMMA ApprovedWeightGrows ==
  ASSUME NEW register, IsRegister(register),
         NEW rows, NEW later, Answers(rows, later), NEW roles
  PROVE  LET before == Weight(register, Voters(rows, register, roles, "APPROVED"))
             after  == Weight(register, Voters(later, register, roles, "APPROVED"))
         IN  before \in Nat /\ after \in Nat /\ before <= after
<1>1. Voters(later, register, roles, "APPROVED") \in SUBSET DOMAIN register
  BY DEF Voters
<1>2. Voters(rows, register, roles, "APPROVED")
        \in SUBSET Voters(later, register, roles, "APPROVED")
  BY AgreementStays DEF Voters
<1> QED
  BY <1>1, <1>2, WeightGrows

\* Rows none of which is open, and none refused, keep these two properties.
LEMMA SettledRowsStay ==
  ASSUME NEW rows, NEW later, Answers(rows, later), NEW slots \in SUBSET DOMAIN rows,
         ~Some(rows, slots, "PENDING")
  PROVE  /\ ~Some(later, slots, "PENDING")
         /\ ~Some(rows, slots, "REJECTED") => ~Some(later, slots, "REJECTED")
BY DEF Answers, Some

\* A ballot of the default rule that is won stays won.
LEMMA DefaultWinStays ==
  ASSUME NEW rows, NEW later, Answers(rows, later),
         DefaultTally(rows) = "APPROVED"
  PROVE  DefaultTally(later) = "APPROVED"
<1>1. ~Some(rows, DOMAIN rows, "PENDING") /\ ~Some(rows, DOMAIN rows, "REJECTED")
  BY DEF DefaultTally
<1>2. DOMAIN later = DOMAIN rows
  BY DEF Answers
<1>3. ~Some(later, DOMAIN rows, "PENDING") /\ ~Some(later, DOMAIN rows, "REJECTED")
  BY <1>1, SettledRowsStay
<1> QED
  BY <1>2, <1>3 DEF DefaultTally

\* A ballot that has two thirds of the votes and everybody newly named stays won.
LEMMA ShareholderWinStays ==
  ASSUME NEW register, IsRegister(register),
         NEW rows, NEW later, Answers(rows, later),
         ShareholderTally(rows, register) = "APPROVED"
  PROVE  ShareholderTally(later, register) = "APPROVED"
<1> DEFINE approved(b) == Weight(register, Voters(b, register, KeyedRoles, "APPROVED"))
           pending(b)  == Weight(register, Voters(b, register, KeyedRoles, "PENDING"))
           extra(b)    == {slot \in RowsOf(b, KeyedRoles) :
                             slot[2] \notin DOMAIN register}
           lost(b)     == \/ Some(b, extra(b), "REJECTED")
                          \/ 3 * (approved(b) + pending(b)) < 2 * Total(register)
           won(b)      == /\ 3 * approved(b) >= 2 * Total(register)
                          /\ ~Some(b, extra(b), "PENDING")
<1>1. CASE Total(register) = 0
  <2>1. DefaultTally(rows) = "APPROVED"
    BY <1>1 DEF ShareholderTally
  <2>2. DefaultTally(later) = "APPROVED"
    BY <2>1, DefaultWinStays
  <2> QED
    BY <1>1, <2>2 DEF ShareholderTally
<1>2. CASE Total(register) # 0
  <2>1. Outcome(lost(rows), won(rows)) = "APPROVED"
    BY <1>2 DEF ShareholderTally
  <2>2. ~lost(rows) /\ won(rows)
    BY <2>1 DEF Outcome
  <2>3. approved(rows) \in Nat /\ approved(later) \in Nat
          /\ approved(rows) <= approved(later)
    BY ApprovedWeightGrows
  <2>4. Voters(later, register, KeyedRoles, "PENDING") \in SUBSET DOMAIN register
    BY DEF Voters
  <2>5. pending(later) \in Nat
    BY <2>4, WeightGrows
  <2>6. Total(register) \in Nat
    BY WeightGrows DEF Total
  <2>7. extra(later) = extra(rows) /\ extra(rows) \in SUBSET DOMAIN rows
    BY DEF RowsOf, Answers
  <2>8. ~Some(later, extra(later), "PENDING") /\ ~Some(later, extra(later), "REJECTED")
    BY <2>2, <2>7, SettledRowsStay
  <2> HIDE DEF approved, pending, extra
  <2>9. 3 * approved(later) >= 2 * Total(register)
    BY <2>2, <2>3, <2>6
  <2>10. ~(3 * (approved(later) + pending(later)) < 2 * Total(register))
    BY <2>3, <2>5, <2>6, <2>9
  <2>11. ~lost(later) /\ won(later)
    BY <2>8, <2>9, <2>10
  <2>12. Outcome(lost(later), won(later)) = "APPROVED"
    BY <2>11 DEF Outcome
  <2> QED
    BY <1>2, <2>12 DEF ShareholderTally, approved, pending, extra
<1> QED
  BY <1>1, <1>2

\* A ballot that has half of the votes and every new officer stays won.
LEMMA OfficerWinStays ==
  ASSUME NEW register, IsRegister(register),
         NEW rows, NEW later, Answers(rows, later),
         OfficerTally(rows, register) = "APPROVED"
  PROVE  OfficerTally(later, register) = "APPROVED"
<1> DEFINE approved(b) == Weight(register, Voters(b, register, {"SHAREHOLDER"}, "APPROVED"))
           pending(b)  == Weight(register, Voters(b, register, {"SHAREHOLDER"}, "PENDING"))
           officers(b) == RowsOf(b, OfficerRoles)
           waiting(b)  == Some(b, officers(b), "PENDING")
           lost(b)     == 2 * (approved(b) + pending(b)) < Total(register)
           won(b)      == 2 * approved(b) >= Total(register) /\ ~waiting(b)
           tally(b)    == IF Some(b, officers(b), "REJECTED") THEN "REJECTED"
                          ELSE IF Total(register) = 0
                          THEN IF waiting(b) THEN "PENDING" ELSE DefaultTally(b)
                          ELSE Outcome(lost(b), won(b))
<1>1. \A b : OfficerTally(b, register) = tally(b)
  BY DEF OfficerTally, IsRegister
<1>2. ~Some(rows, officers(rows), "REJECTED") /\ ~waiting(rows)
  BY <1>1 DEF Outcome
<1>3. officers(later) = officers(rows) /\ officers(rows) \in SUBSET DOMAIN rows
  BY DEF RowsOf, Answers
<1>4. ~Some(later, officers(later), "REJECTED") /\ ~waiting(later)
  BY <1>2, <1>3, SettledRowsStay
<1>5. CASE Total(register) = 0
  <2>1. DefaultTally(rows) = "APPROVED"
    BY <1>1, <1>2, <1>5
  <2>2. DefaultTally(later) = "APPROVED"
    BY <2>1, DefaultWinStays
  <2> QED
    BY <1>1, <1>4, <1>5, <2>2
<1>6. CASE Total(register) # 0
  <2>1. ~lost(rows) /\ won(rows)
    BY <1>1, <1>6 DEF Outcome
  <2>2. approved(rows) \in Nat /\ approved(later) \in Nat
          /\ approved(rows) <= approved(later)
    BY ApprovedWeightGrows
  <2>3. Voters(later, register, {"SHAREHOLDER"}, "PENDING") \in SUBSET DOMAIN register
    BY DEF Voters
  <2>4. pending(later) \in Nat
    BY <2>3, WeightGrows
  <2>5. Total(register) \in Nat
    BY WeightGrows DEF Total
  <2> HIDE DEF approved, pending, officers
  <2>6. 2 * approved(later) >= Total(register)
    BY <2>1, <2>2, <2>5
  <2>7. ~(2 * (approved(later) + pending(later)) < Total(register))
    BY <2>2, <2>4, <2>5, <2>6
  <2>8. Outcome(lost(later), won(later)) = "APPROVED"
    BY <1>4, <2>6, <2>7 DEF Outcome
  <2> QED
    BY <1>1, <1>4, <1>6, <2>8
<1> QED
  BY <1>5, <1>6

\* A ballot that is won stays won, whatever is answered afterwards: what
\* decideApplicationConsents reads and what it writes later cannot disagree on
\* a ballot it found won. A management change, whose tally counts directors
\* instead of votes, is left out.
THEOREM WonBallotStaysWon ==
  ASSUME NEW register, IsRegister(register),
         NEW rows, NEW later, Answers(rows, later),
         NEW kind, kind # "management_change",
         ConsentProgress(kind, rows, register) = "APPROVED"
  PROVE  ConsentProgress(kind, later, register) = "APPROVED"
<1>1. CASE kind \in TwoThirdsKinds
  BY <1>1, ShareholderWinStays DEF ConsentProgress, TwoThirdsKinds
<1>2. CASE kind = "officer_change"
  BY <1>2, OfficerWinStays DEF ConsentProgress, TwoThirdsKinds
<1>3. CASE kind \notin TwoThirdsKinds \cup {"officer_change"}
  BY <1>3, DefaultWinStays DEF ConsentProgress
<1> QED
  BY <1>1, <1>2, <1>3

\* A ballot nobody has answered is open, under every register.
LEMMA NewBallotIsOpen ==
  ASSUME NEW register, IsRegister(register), NEW kind, kind # "management_change",
         NEW rows, DOMAIN rows # {}, \A slot \in DOMAIN rows : rows[slot] = "PENDING"
  PROVE  ConsentProgress(kind, rows, register) = "PENDING"
<1> DEFINE approved(roles) == Weight(register, Voters(rows, register, roles, "APPROVED"))
           pending(roles)  == Weight(register, Voters(rows, register, roles, "PENDING"))
           total           == Total(register)
<1>1. DefaultTally(rows) = "PENDING"
  BY DEF DefaultTally, Some
<1>2. ASSUME NEW roles, NEW party PROVE StatusOf(rows, roles, party) = "PENDING"
  BY DEF StatusOf, Some, RowsOf
<1>3. ASSUME NEW roles
      PROVE  approved(roles) = 0 /\ pending(roles) = total /\ total \in Nat
  <2>1. /\ Voters(rows, register, roles, "APPROVED") = {}
        /\ Voters(rows, register, roles, "PENDING") = DOMAIN register
    BY <1>2 DEF Voters
  <2>2. VotesOf(register, {}) = {}
    BY DEF VotesOf
  <2>3. Weight(register, {}) = 0
    BY <2>2, FS_EmptySet DEF Weight
  <2>4. Weight(register, DOMAIN register) \in Nat
    BY WeightGrows
  <2> QED
    BY <2>1, <2>3, <2>4 DEF Total
<1> HIDE DEF approved, pending, total
<1>4. ShareholderTally(rows, register) = "PENDING"
  <2>1. ~Some(rows, {slot \in RowsOf(rows, KeyedRoles) : slot[2] \notin DOMAIN register},
              "REJECTED")
    BY DEF Some, RowsOf
  <2>2. total # 0 => /\ ~(3 * (approved(KeyedRoles) + pending(KeyedRoles)) < 2 * total)
                     /\ ~(3 * approved(KeyedRoles) >= 2 * total)
    BY <1>3
  <2> QED
    BY <1>1, <2>1, <2>2 DEF ShareholderTally, Outcome, approved, pending, total
<1>5. OfficerTally(rows, register) = "PENDING"
  <2> DEFINE holders == {"SHAREHOLDER"}
  <2>1. ~Some(rows, RowsOf(rows, OfficerRoles), "REJECTED")
    BY DEF Some, RowsOf
  <2>2. total # 0 => /\ ~(2 * (approved(holders) + pending(holders)) < total)
                     /\ ~(2 * approved(holders) >= total)
    BY <1>3
  <2>3. DOMAIN register # {}
    BY DEF IsRegister
  <2> QED
    BY <1>1, <2>1, <2>2, <2>3 DEF OfficerTally, Outcome, approved, pending, total
<1> QED
  BY <1>1, <1>4, <1>5 DEF ConsentProgress

\* Parties that are counted apart add up.
LEMMA WeightSplits ==
  ASSUME NEW register, IsRegister(register),
         NEW some \in SUBSET DOMAIN register, NEW others \in SUBSET DOMAIN register,
         some \cap others = {}
  PROVE  Weight(register, some \cup others) = Weight(register, some) + Weight(register, others)
<1>1. IsFiniteSet(VotesOf(register, some)) /\ IsFiniteSet(VotesOf(register, others))
  BY VotesAreFinite
<1>2. VotesOf(register, some \cup others) = VotesOf(register, some) \cup VotesOf(register, others)
  BY DEF VotesOf
<1>3. VotesOf(register, some) \cap VotesOf(register, others) = {}
  <2>1. \A parties : \A vote \in VotesOf(register, parties) : vote[1] \in parties
    BY DEF VotesOf
  <2> QED
    BY <2>1
<1>4. Cardinality(VotesOf(register, some \cup others))
        = Cardinality(VotesOf(register, some)) + Cardinality(VotesOf(register, others))
            - Cardinality(VotesOf(register, some) \cap VotesOf(register, others))
  BY <1>1, <1>2, FS_Union
<1>5. /\ Cardinality(VotesOf(register, some) \cap VotesOf(register, others)) = 0
      /\ Cardinality(VotesOf(register, some)) \in Nat
      /\ Cardinality(VotesOf(register, others)) \in Nat
  BY <1>1, <1>3, FS_EmptySet, FS_CardinalityType
<1> QED
  BY <1>4, <1>5 DEF Weight

\* The key of a party that has refused stays refused.
LEMMA RefusalStays ==
  ASSUME NEW rows, NEW later, Answers(rows, later), NEW roles, NEW party,
         StatusOf(rows, roles, party) = "REJECTED"
  PROVE  StatusOf(later, roles, party) = "REJECTED"
<1> DEFINE mine(b) == {slot \in RowsOf(b, roles) : slot[2] = party}
<1>1. mine(later) = mine(rows)
  BY DEF Answers, RowsOf
<1>2. Some(rows, mine(rows), "REJECTED")
  BY DEF StatusOf
<1>3. Some(later, mine(rows), "REJECTED")
  BY <1>2 DEF Some, Answers, RowsOf
<1> QED
  BY <1>1, <1>3 DEF StatusOf

\* The parties that have not refused, and what they weigh together.
LEMMA NotRefused ==
  ASSUME NEW register, IsRegister(register), NEW rows, NEW roles
  PROVE  LET agreed == Voters(rows, register, roles, "APPROVED")
             open   == Voters(rows, register, roles, "PENDING")
             left   == {p \in DOMAIN register : StatusOf(rows, roles, p) # "REJECTED"}
         IN  /\ agreed \cup open = left
             /\ Weight(register, left) = Weight(register, agreed) + Weight(register, open)
             /\ Weight(register, agreed) \in Nat /\ Weight(register, open) \in Nat
<1> DEFINE agreed == Voters(rows, register, roles, "APPROVED")
           open   == Voters(rows, register, roles, "PENDING")
           left   == {p \in DOMAIN register : StatusOf(rows, roles, p) # "REJECTED"}
<1>1. agreed \cup open = left /\ agreed \cap open = {}
  BY DEF Voters, StatusOf
<1>2. agreed \in SUBSET DOMAIN register /\ open \in SUBSET DOMAIN register
  BY DEF Voters
<1>3. Weight(register, agreed \cup open) = Weight(register, agreed) + Weight(register, open)
  BY <1>1, <1>2, WeightSplits
<1>4. Weight(register, agreed) \in Nat /\ Weight(register, open) \in Nat
  BY <1>2, WeightGrows
<1> QED
  BY <1>1, <1>3, <1>4

\* The weight of those who have agreed or may still agree never rises.
LEMMA PossibleWeightFalls ==
  ASSUME NEW register, IsRegister(register),
         NEW rows, NEW later, Answers(rows, later), NEW roles
  PROVE  LET possible(b) == Weight(register, Voters(b, register, roles, "APPROVED"))
                              + Weight(register, Voters(b, register, roles, "PENDING"))
         IN  possible(rows) \in Nat /\ possible(later) \in Nat
               /\ possible(later) <= possible(rows)
<1> DEFINE left(b) == {p \in DOMAIN register : StatusOf(b, roles, p) # "REJECTED"}
<1>1. left(later) \in SUBSET left(rows) /\ left(rows) \in SUBSET DOMAIN register
  BY RefusalStays
<1>2. /\ Weight(register, left(rows)) \in Nat /\ Weight(register, left(later)) \in Nat
      /\ Weight(register, left(later)) <= Weight(register, left(rows))
  BY <1>1, WeightGrows
<1> QED
  BY <1>2, NotRefused

\* A refused row stays refused.
LEMMA RefusedRowsStay ==
  ASSUME NEW rows, NEW later, Answers(rows, later), NEW slots \in SUBSET DOMAIN rows,
         Some(rows, slots, "REJECTED")
  PROVE  Some(later, slots, "REJECTED")
BY DEF Answers, Some

\* A ballot of the default rule that is lost stays lost.
LEMMA DefaultLossStays ==
  ASSUME NEW rows, NEW later, Answers(rows, later), DefaultTally(rows) = "REJECTED"
  PROVE  DefaultTally(later) = "REJECTED"
<1>1. Some(rows, DOMAIN rows, "REJECTED")
  BY DEF DefaultTally
<1>2. Some(later, DOMAIN later, "REJECTED")
  BY <1>1, RefusedRowsStay DEF Answers
<1> QED
  BY <1>2 DEF DefaultTally

\* A ballot that can no longer have two thirds, or that somebody newly named has
\* refused, stays lost.
LEMMA ShareholderLossStays ==
  ASSUME NEW register, IsRegister(register),
         NEW rows, NEW later, Answers(rows, later),
         ShareholderTally(rows, register) = "REJECTED"
  PROVE  ShareholderTally(later, register) = "REJECTED"
<1> DEFINE approved(b) == Weight(register, Voters(b, register, KeyedRoles, "APPROVED"))
           pending(b)  == Weight(register, Voters(b, register, KeyedRoles, "PENDING"))
           extra(b)    == {slot \in RowsOf(b, KeyedRoles) :
                             slot[2] \notin DOMAIN register}
           total       == Total(register)
<1>1. CASE Total(register) = 0
  BY <1>1, DefaultLossStays DEF ShareholderTally
<1>2. CASE Total(register) # 0
  <2>1. \/ Some(rows, extra(rows), "REJECTED")
        \/ 3 * (approved(rows) + pending(rows)) < 2 * total
    BY <1>2 DEF ShareholderTally, Outcome
  <2>2. extra(later) = extra(rows) /\ extra(rows) \in SUBSET DOMAIN rows
    BY DEF RowsOf, Answers
  <2>3. Some(rows, extra(rows), "REJECTED") => Some(later, extra(later), "REJECTED")
    BY <2>2, RefusedRowsStay
  <2>4. /\ approved(rows) + pending(rows) \in Nat
        /\ approved(later) + pending(later) \in Nat
        /\ approved(later) + pending(later) <= approved(rows) + pending(rows)
    BY PossibleWeightFalls
  <2>5. total \in Nat
    BY WeightGrows DEF Total
  <2> HIDE DEF approved, pending, extra, total
  <2>6. 3 * (approved(rows) + pending(rows)) < 2 * total
          => 3 * (approved(later) + pending(later)) < 2 * total
    BY <2>4, <2>5
  <2> QED
    BY <1>2, <2>1, <2>3, <2>6 DEF ShareholderTally, Outcome, approved, pending, extra, total
<1> QED
  BY <1>1, <1>2

\* A ballot that can no longer have half of the votes, or that a new officer has
\* refused, stays lost.
LEMMA OfficerLossStays ==
  ASSUME NEW register, IsRegister(register),
         NEW rows, NEW later, Answers(rows, later),
         OfficerTally(rows, register) = "REJECTED"
  PROVE  OfficerTally(later, register) = "REJECTED"
<1> DEFINE approved(b) == Weight(register, Voters(b, register, {"SHAREHOLDER"}, "APPROVED"))
           pending(b)  == Weight(register, Voters(b, register, {"SHAREHOLDER"}, "PENDING"))
           total       == Total(register)
           officers(b) == RowsOf(b, OfficerRoles)
           waiting(b)  == Some(b, officers(b), "PENDING")
           refused(b)  == Some(b, officers(b), "REJECTED")
           lost(b)     == 2 * (approved(b) + pending(b)) < total
           won(b)      == 2 * approved(b) >= total /\ ~waiting(b)
           tally(b)    == IF refused(b) THEN "REJECTED"
                          ELSE IF total = 0
                          THEN IF waiting(b) THEN "PENDING" ELSE DefaultTally(b)
                          ELSE Outcome(lost(b), won(b))
<1>1. \A b : OfficerTally(b, register) = tally(b)
  BY DEF OfficerTally, IsRegister
<1>2. officers(later) = officers(rows) /\ officers(rows) \in SUBSET DOMAIN rows
  BY DEF RowsOf, Answers
<1>3. refused(rows) => refused(later)
  BY <1>2, RefusedRowsStay
<1>4. CASE total = 0 /\ ~refused(rows)
  <2>1. ~waiting(rows) /\ DefaultTally(rows) = "REJECTED"
    BY <1>1, <1>4
  <2>2. ~waiting(later) /\ DefaultTally(later) = "REJECTED"
    BY <1>2, <2>1, SettledRowsStay, DefaultLossStays
  <2> QED
    BY <1>1, <1>4, <2>2
<1>5. CASE total # 0 /\ ~refused(rows)
  <2>1. lost(rows)
    BY <1>1, <1>5 DEF Outcome
  <2>2. /\ approved(rows) + pending(rows) \in Nat
        /\ approved(later) + pending(later) \in Nat
        /\ approved(later) + pending(later) <= approved(rows) + pending(rows)
    BY PossibleWeightFalls
  <2>3. total \in Nat
    BY WeightGrows DEF Total
  <2> HIDE DEF approved, pending, total
  <2>4. lost(later)
    BY <2>1, <2>2, <2>3
  <2> QED
    BY <1>1, <1>5, <2>4 DEF Outcome
<1> QED
  BY <1>1, <1>3, <1>4, <1>5

\* The directors, counted by their answers.
LEMMA DirectorCounts ==
  ASSUME NEW rows, IsFiniteSet(DOMAIN rows)
  PROVE  LET directors == RowsOf(rows, {"DIRECTOR"})
             count(v)  == Cardinality({s \in directors : rows[s] = v})
         IN  /\ Cardinality(directors) \in Nat
             /\ count("APPROVED") \in Nat /\ count("PENDING") \in Nat
             /\ Cardinality({s \in directors : rows[s] \in {"APPROVED", "PENDING"}})
                  = count("APPROVED") + count("PENDING")
<1> DEFINE directors == RowsOf(rows, {"DIRECTOR"})
           with(v)   == {s \in directors : rows[s] = v}
           both      == {s \in directors : rows[s] \in {"APPROVED", "PENDING"}}
<1>1. IsFiniteSet(directors) /\ \A v : IsFiniteSet(with(v))
  <2>1. directors \in SUBSET DOMAIN rows /\ \A v : with(v) \in SUBSET DOMAIN rows
    BY DEF RowsOf
  <2> QED
    BY <2>1, FS_Subset
<1>2. both = with("APPROVED") \cup with("PENDING") /\ with("APPROVED") \cap with("PENDING") = {}
  OBVIOUS
<1>3. Cardinality(with("APPROVED") \cup with("PENDING"))
        = Cardinality(with("APPROVED")) + Cardinality(with("PENDING"))
            - Cardinality(with("APPROVED") \cap with("PENDING"))
  <2> HIDE DEF with
  <2> QED
    BY <1>1, FS_Union
<1>4. /\ Cardinality({}) = 0 /\ Cardinality(directors) \in Nat
      /\ \A v : Cardinality(with(v)) \in Nat
  BY <1>1, FS_EmptySet, FS_CardinalityType
<1>5. /\ Cardinality(both) = Cardinality(with("APPROVED")) + Cardinality(with("PENDING"))
      /\ Cardinality(directors) \in Nat
      /\ Cardinality(with("APPROVED")) \in Nat /\ Cardinality(with("PENDING")) \in Nat
  <2> HIDE DEF directors, with, both
  <2> QED
    BY <1>2, <1>3, <1>4
<1> QED
  BY <1>5

\* The ballot of a management change never turns around either.
LEMMA ManagementDecisionStays ==
  ASSUME NEW rows, IsFiniteSet(DOMAIN rows), NEW later, Answers(rows, later),
         ManagementTally(rows) # "PENDING"
  PROVE  ManagementTally(later) = ManagementTally(rows)
<1> DEFINE managers(b)  == RowsOf(b, ManagerRoles)
           directors(b) == RowsOf(b, {"DIRECTOR"})
           with(b, v)   == {s \in directors(b) : b[s] = v}
           both(b)      == {s \in directors(b) : b[s] \in {"APPROVED", "PENDING"}}
           count(b, v)  == Cardinality(with(b, v))
           threshold(b) == (Cardinality(directors(b)) + 1) \div 2
           refused(b)   == Some(b, managers(b), "REJECTED")
           waiting(b)   == Some(b, managers(b), "PENDING")
           lost(b)      == \/ refused(b)
                           \/ directors(b) = {}
                           \/ count(b, "APPROVED") + count(b, "PENDING") < threshold(b)
           won(b)       == count(b, "APPROVED") >= threshold(b) /\ ~waiting(b)
<1>1. \A b : ManagementTally(b) = Outcome(lost(b), won(b))
  BY DEF ManagementTally
<1>2. /\ managers(later) = managers(rows) /\ directors(later) = directors(rows)
      /\ managers(rows) \in SUBSET DOMAIN rows /\ directors(rows) \in SUBSET DOMAIN rows
      /\ IsFiniteSet(DOMAIN later)
  BY DEF RowsOf, Answers
<1>3. /\ refused(rows) => refused(later)
      /\ ~waiting(rows) => ~waiting(later) /\ (~refused(rows) => ~refused(later))
  BY <1>2, RefusedRowsStay, SettledRowsStay
<1>4. /\ with(rows, "APPROVED") \in SUBSET with(later, "APPROVED")
      /\ both(later) \in SUBSET both(rows)
  BY <1>2 DEF Answers
<1>5. IsFiniteSet(both(rows)) /\ IsFiniteSet(with(later, "APPROVED"))
  <2>1. both(rows) \in SUBSET DOMAIN rows /\ with(later, "APPROVED") \in SUBSET DOMAIN rows
    BY <1>2
  <2> QED
    BY <2>1, FS_Subset
<1>6. /\ count(rows, "APPROVED") <= count(later, "APPROVED")
      /\ Cardinality(both(later)) <= Cardinality(both(rows))
  BY <1>4, <1>5, FS_Subset
<1>7. \A b \in {rows, later} :
        /\ Cardinality(directors(b)) \in Nat
        /\ count(b, "APPROVED") \in Nat /\ count(b, "PENDING") \in Nat
        /\ Cardinality(both(b)) = count(b, "APPROVED") + count(b, "PENDING")
  BY <1>2, DirectorCounts
<1>8. threshold(rows) = threshold(later) /\ threshold(rows) \in Nat
  BY <1>2, <1>7
<1> HIDE DEF managers, directors, count, both, threshold
<1>9. CASE lost(rows)
  <2>1. lost(later)
    BY <1>2, <1>3, <1>6, <1>7, <1>8, <1>9
  <2> QED
    BY <1>1, <1>9, <2>1 DEF Outcome
<1>10. CASE ~lost(rows)
  <2>1. won(rows)
    BY <1>1, <1>10 DEF Outcome
  <2>2. won(later) /\ ~lost(later)
    BY <1>2, <1>3, <1>6, <1>7, <1>8, <1>10, <2>1
  <2> QED
    BY <1>1, <1>10, <2>1, <2>2 DEF Outcome
<1> QED
  BY <1>9, <1>10

\* A decided ballot stays decided the same way, whatever is answered afterwards:
\* a lost one is not taken for won later, nor a won one for lost.
THEOREM DecidedBallotStaysDecided ==
  ASSUME NEW register, IsRegister(register),
         NEW rows, IsFiniteSet(DOMAIN rows), NEW later, Answers(rows, later),
         NEW kind, ConsentProgress(kind, rows, register) # "PENDING"
  PROVE  ConsentProgress(kind, later, register) = ConsentProgress(kind, rows, register)
<1>1. ConsentProgress(kind, rows, register) \in {"APPROVED", "REJECTED"}
  BY DEF ConsentProgress, ShareholderTally, OfficerTally, ManagementTally, DefaultTally,
     Outcome
<1>2. CASE kind = "management_change"
  BY <1>2, ManagementDecisionStays DEF ConsentProgress, TwoThirdsKinds
<1>3. CASE kind # "management_change" /\ ConsentProgress(kind, rows, register) = "APPROVED"
  BY <1>3, WonBallotStaysWon
<1>4. CASE kind # "management_change" /\ ConsentProgress(kind, rows, register) = "REJECTED"
  <2>1. CASE kind \in TwoThirdsKinds
    BY <1>4, <2>1, ShareholderLossStays DEF ConsentProgress, TwoThirdsKinds
  <2>2. CASE kind = "officer_change"
    BY <1>4, <2>2, OfficerLossStays DEF ConsentProgress, TwoThirdsKinds
  <2>3. CASE kind \notin TwoThirdsKinds \cup {"officer_change"}
    BY <1>4, <2>3, DefaultLossStays DEF ConsentProgress
  <2> QED
    BY <2>1, <2>2, <2>3
<1> QED
  BY <1>1, <1>2, <1>3, <1>4

\* A ballot whose rows are all answered and that every shareholder has a row in
\* is decided.
THEOREM AnsweredBallotIsDecided ==
  ASSUME NEW register, IsRegister(register),
         NEW rows, IsFiniteSet(DOMAIN rows), rows \in [DOMAIN rows -> Votes],
         NEW kind, ~Some(rows, DOMAIN rows, "PENDING"),
         kind \notin DefaultKinds \cup {"management_change"} =>
           {"SHAREHOLDER"} \X DOMAIN register \subseteq DOMAIN rows
  PROVE  ConsentProgress(kind, rows, register) # "PENDING"
<1> DEFINE approved(roles) == Weight(register, Voters(rows, register, roles, "APPROVED"))
           pending(roles)  == Weight(register, Voters(rows, register, roles, "PENDING"))
           total           == Total(register)
<1>1. DefaultTally(rows) # "PENDING"
  BY DEF DefaultTally
<1>2. \A slots \in SUBSET DOMAIN rows : ~Some(rows, slots, "PENDING")
  BY DEF Some
<1>3. ASSUME NEW roles, "SHAREHOLDER" \in roles,
             {"SHAREHOLDER"} \X DOMAIN register \subseteq DOMAIN rows
      PROVE  pending(roles) = 0 /\ approved(roles) \in Nat /\ total \in Nat
  <2>1. ASSUME NEW p \in DOMAIN register PROVE StatusOf(rows, roles, p) # "PENDING"
    <3>1. <<"SHAREHOLDER", p>> \in RowsOf(rows, roles)
      BY <1>3 DEF RowsOf
    <3> QED
      BY <1>2, <3>1 DEF StatusOf, RowsOf
  <2>2. Voters(rows, register, roles, "PENDING") = {} /\ VotesOf(register, {}) = {}
    BY <2>1 DEF Voters, VotesOf
  <2>3. Voters(rows, register, roles, "APPROVED") \in SUBSET DOMAIN register
    BY DEF Voters
  <2> QED
    BY <2>2, <2>3, FS_EmptySet, WeightGrows DEF Weight, Total
<1> HIDE DEF approved, pending, total
<1>4. CASE kind \in TwoThirdsKinds
  <2>1. pending(KeyedRoles) = 0 /\ approved(KeyedRoles) \in Nat /\ total \in Nat
    BY <1>3, <1>4 DEF TwoThirdsKinds, DefaultKinds, KeyedRoles
  <2>2. ~Some(rows, {slot \in RowsOf(rows, KeyedRoles) : slot[2] \notin DOMAIN register},
              "PENDING")
    BY <1>2 DEF RowsOf
  <2>3. ShareholderTally(rows, register) # "PENDING"
    BY <1>1, <2>1, <2>2 DEF ShareholderTally, Outcome, approved, pending, total
  <2> QED
    BY <1>4, <2>3 DEF ConsentProgress, TwoThirdsKinds
<1>5. CASE kind = "officer_change"
  <2> DEFINE holders == {"SHAREHOLDER"}
  <2>1. pending(holders) = 0 /\ approved(holders) \in Nat /\ total \in Nat
    BY <1>3, <1>5 DEF DefaultKinds
  <2>2. ~Some(rows, RowsOf(rows, OfficerRoles), "PENDING")
    BY <1>2 DEF RowsOf
  <2>3. DOMAIN register # {}
    BY DEF IsRegister
  <2>4. OfficerTally(rows, register) # "PENDING"
    BY <1>1, <2>1, <2>2, <2>3 DEF OfficerTally, Outcome, approved, pending, total
  <2> QED
    BY <1>5, <2>4 DEF ConsentProgress, TwoThirdsKinds
<1>6. CASE kind = "management_change"
  <2> DEFINE directors == RowsOf(rows, {"DIRECTOR"})
             count(v)  == Cardinality({s \in directors : rows[s] = v})
             threshold == (Cardinality(directors) + 1) \div 2
  <2>1. {s \in directors : rows[s] = "PENDING"} = {}
    BY <1>2 DEF RowsOf, Some
  <2>2. count("PENDING") = 0 /\ count("APPROVED") \in Nat /\ Cardinality(directors) \in Nat
    BY <2>1, FS_EmptySet, DirectorCounts
  <2>3. ~Some(rows, RowsOf(rows, ManagerRoles), "PENDING")
    BY <1>2 DEF RowsOf
  <2> HIDE DEF count
  <2>4. count("APPROVED") + count("PENDING") < threshold \/ count("APPROVED") >= threshold
    BY <2>2
  <2>5. ManagementTally(rows) # "PENDING"
    BY <2>3, <2>4 DEF ManagementTally, Outcome, count
  <2> QED
    BY <1>6, <2>5 DEF ConsentProgress, TwoThirdsKinds
<1> QED
  BY <1>1, <1>4, <1>5, <1>6 DEF ConsentProgress
=============================================================================
