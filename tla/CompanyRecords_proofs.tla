------------------------ MODULE CompanyRecords_proofs ------------------------
(***************************************************************************)
(* What holds of a company from its registration on, for all forms,        *)
(* parties, boards and teams, and for any number of changes.               *)
(***************************************************************************)
EXTENDS CompanyRecords, CompanyRegistration_proofs

\* A change of the records leaves the registration alone.
LEMMA ChangeKeepsCore ==
  ASSUME ChangeNext
  PROVE  UNCHANGED core
BY DEF ChangeNext, SubmitTransfer, SubmitOfficerChange, SubmitManagementChange, Submit,
   DecideChange, WithdrawChange, RouteToReview, RejectChange, ApproveChange,
   registrationVars, core

LEMMA NextIsRegistration ==
  ASSUME [Next]_recordVars
  PROVE  [RegistrationNext]_core
BY ChangeKeepsCore DEF Next, recordVars, registrationVars, core

\* The invariant of the registration holds as long as there is a company, whatever
\* becomes of its records.
LEMMA RegistrationHolds ==
  Spec => []RegistrationInv
<1> USE PayloadsAssumption
<1>1. Init => RegistrationInv
  BY RegistrationStarts DEF Init
<1>2. RegistrationInv /\ [Next]_recordVars => RegistrationInv'
  BY NextIsRegistration, RegistrationStep
<1> QED
  BY <1>1, <1>2, PTL DEF Spec

\* Nobody is made shareholder or officer of a limited liability company that is
\* founded without having agreed: however often the form was sent back, rewritten,
\* rejected and reopened, and wherever a handler was cut off, everybody it names
\* said yes to the form the company is founded from. What the theorem excludes is a
\* ballot whose last renewal was cut off: torn tells.
THEOREM CompaniesAreAgreedTo ==
  Spec => []FoundedOnAgreement
<1>1. RegistrationInv => FoundedOnAgreement
  BY DEF RegistrationInv, FoundedIsOver, FoundedOnAgreement
<1> QED
  BY <1>1, RegistrationHolds, PTL

\* An approval that was cut off before it created the company can be made good: the
\* consent approve asks for is complete, and its instance is approved, unless the
\* authority has suspended or archived it itself.
THEOREM ApprovalsCanBeRepeated ==
  Spec => []ApprovalIsRepairable
<1>1. RegistrationInv => ApprovalIsRepairable
  BY DEF RegistrationInv, ApprovedIsAgreed, ApprovalIsRepairable, Settled
<1> QED
  BY <1>1, RegistrationHolds, PTL

\* No step founds a company from an application that has been withdrawn, though
\* performAction does not look at the status CANCELLED of its instance.
THEOREM NoCompanyAfterWithdrawal ==
  Spec => FoundedIfWanted
<1>1. RegistrationInv /\ [Next]_recordVars
        => [~IsFounded /\ IsFounded' => wanted]_registrationVars
  BY NextIsRegistration, FoundingIsWanted
<1> QED
  BY <1>1, RegistrationHolds, PTL DEF Spec, FoundedIfWanted

-----------------------------------------------------------------------------
(***************************************************************************)
(* The records.                                                            *)
(***************************************************************************)
Kinds == {"equity_transfer", "officer_change", "management_change"}

Ballots == UNION {[slots -> Votes] : slots \in SUBSET Slots}

Change ==
  [kind    : Kinds,
   posts   : SUBSET Slots,
   move    : Moves,
   ballot  : Ballots,
   consent : Votes,
   status  : OpenStatus \cup {"APPROVED", "REJECTED", "ARCHIVED"},
   state   : {"submitted", "under_review", "approved", "rejected"}]

LegalBoard(slots) ==
  /\ BoardSize(Cardinality(Holders(slots, {"DIRECTOR"})))
  /\ Holders(slots, {"DIRECTOR"}) \cap Holders(slots, {"SUPERVISOR"}) = {}

\* An approval of the change may still come.
IsLive(change) == change.state \in {"submitted", "under_review"}

\* Those a change brings in have agreed to it, before it can be approved.
NamedAgree(change) ==
  \A slot \in DOMAIN change.ballot :
    slot[1] \in NamedRoles(change.kind) => change.ballot[slot] = "APPROVED"

\* A change that may still take effect asks everybody who would get a post by it.
Sound(change, held) ==
  /\ change.kind = "officer_change" =>
       change.posts \in Boards /\ LegalBoard(change.posts)
  /\ change.kind = "management_change" => change.posts \in Teams
  /\ change.kind = "equity_transfer" =>
       /\ DOMAIN change.ballot = {<<"TRANSFEREE", change.move.to>>} /\ change.posts = {}
       /\ change.move.from # change.move.to
  /\ IsLive(change) /\ change.consent = "APPROVED" =>
       change.status \in OpenStatus /\ NamedAgree(change)
  /\ IsLive(change) /\ change.status \in OpenStatus =>
       change.posts \ held \subseteq DOMAIN change.ballot

ChangesAreSound == \A c \in DOMAIN changes : Sound(changes[c], posts)

\* Of each kind at most one is open.
OneIsOpen ==
  \A c, d \in DOMAIN changes :
    changes[c].kind = changes[d].kind /\ IsOpenChange(c) /\ IsOpenChange(d) => c = d

\* There are no records before there is a company.
RecordsAreOfCompany ==
  ~IsFounded => changes = << >> /\ DOMAIN shares = {} /\ posts = {}

\* What the register and the board are judged by does not change any more: the
\* company is a limited liability company whose ballot was not torn.
IsJudged == IsFounded /\ IsLlc /\ ~torn

RecordsTypeOK ==
  /\ changes \in Seq(Change)
  /\ DOMAIN shares \subseteq Parties
  /\ PostsOf(OfficerRoles) \subseteq Slots

RecordsInv ==
  /\ RegistrationInv
  /\ RecordsTypeOK
  /\ RecordsAreOfCompany
  /\ ChangesAreSound
  /\ OneIsOpen
  /\ OneManagerPerRole
  /\ BoardIsLegal

-----------------------------------------------------------------------------
LEMMA TallyIsAVote ==
  ASSUME NEW kind, NEW rows, NEW register
  PROVE  ConsentProgress(kind, rows, register) \in Votes
<1>1. DefaultTally(rows) \in Votes
  BY DEF DefaultTally, Votes
<1>2. \A lost, won : Outcome(lost, won) \in Votes
  BY DEF Outcome, Votes
<1>3. ShareholderTally(rows, register) \in Votes
  BY <1>1, <1>2 DEF ShareholderTally
<1>4. OfficerTally(rows, register) \in Votes
  BY <1>1, <1>2 DEF OfficerTally, Votes
<1>5. ManagementTally(rows) \in Votes
  BY <1>2 DEF ManagementTally
<1> QED
  BY <1>1, <1>3, <1>4, <1>5 DEF ConsentProgress

\* The summary of a change says APPROVED only when all it names have agreed.
LEMMA WonByTheNamed ==
  ASSUME NEW kind \in Kinds, NEW rows \in Ballots, NEW register,
         ConsentProgress(kind, rows, register) = "APPROVED",
         NEW slot \in DOMAIN rows, slot[1] \in NamedRoles(kind)
  PROVE  rows[slot] = "APPROVED"
<1>1. rows[slot] \in Votes
  BY DEF Ballots
<1>2. CASE kind = "equity_transfer"
  <2>1. DefaultTally(rows) = "APPROVED"
    BY <1>2 DEF ConsentProgress, TwoThirdsKinds
  <2> QED
    BY <1>1, <2>1 DEF DefaultTally, Some, Votes
<1>3. CASE kind = "officer_change"
  <2>1. OfficerTally(rows, register) = "APPROVED"
    BY <1>3 DEF ConsentProgress, TwoThirdsKinds
  <2>2. slot \in RowsOf(rows, OfficerRoles)
    BY <1>3 DEF NamedRoles, RowsOf
  <2>3. /\ ~Some(rows, RowsOf(rows, OfficerRoles), "REJECTED")
        /\ ~Some(rows, RowsOf(rows, OfficerRoles), "PENDING")
    BY <2>1 DEF OfficerTally, Outcome
  <2> QED
    BY <1>1, <2>2, <2>3 DEF Some, Votes
<1>4. CASE kind = "management_change"
  <2>1. ManagementTally(rows) = "APPROVED"
    BY <1>4 DEF ConsentProgress, TwoThirdsKinds
  <2>2. slot \in RowsOf(rows, ManagerRoles)
    BY <1>4 DEF NamedRoles, RowsOf
  <2>3. /\ ~Some(rows, RowsOf(rows, ManagerRoles), "REJECTED")
        /\ ~Some(rows, RowsOf(rows, ManagerRoles), "PENDING")
    BY <2>1 DEF ManagementTally, Outcome
  <2> QED
    BY <1>1, <2>2, <2>3 DEF Some, Votes
<1> QED
  BY <1>2, <1>3, <1>4 DEF Kinds

\* One change is replaced by another version of it.
LEMMA Revised ==
  ASSUME changes \in Seq(Change), NEW c \in DOMAIN changes, NEW new \in Change,
         changes' = [changes EXCEPT ![c] = new]
  PROVE  /\ changes' \in Seq(Change)
         /\ DOMAIN changes' = DOMAIN changes
         /\ changes'[c] = new
         /\ \A d \in DOMAIN changes : d # c => changes'[d] = changes[d]
  OBVIOUS

-----------------------------------------------------------------------------
(***************************************************************************)
(* Steps that leave the records alone.                                     *)
(***************************************************************************)
LEMMA RevisionStep ==
  ASSUME PayloadsAssumption, RecordsInv, UNCHANGED registrationVars,
         NEW c \in DOMAIN changes, NEW new \in Change,
         changes' = [changes EXCEPT ![c] = new],
         new.kind = changes[c].kind,
         new.status \in OpenStatus => IsOpenChange(c),
         Sound(new, posts)
  PROVE  RecordsInv'
<1>1. /\ changes' \in Seq(Change) /\ DOMAIN changes' = DOMAIN changes
      /\ changes'[c] = new
      /\ \A d \in DOMAIN changes : d # c => changes'[d] = changes[d]
  BY Revised DEF RecordsInv, RecordsTypeOK
<1>2. UNCHANGED <<core, shares, posts>>
  BY DEF registrationVars, core
<1>3. RegistrationInv'
  BY <1>2, RegistrationStep DEF RecordsInv
<1>4. ChangesAreSound'
  BY <1>1, <1>2 DEF ChangesAreSound, RecordsInv
<1>5. OneIsOpen'
  BY <1>1 DEF OneIsOpen, IsOpenChange, RecordsInv
<1>6. IsFounded /\ IsFounded'
  BY <1>2 DEF RecordsInv, RecordsAreOfCompany, core, IsFounded
<1> QED
  BY <1>1, <1>2, <1>3, <1>4, <1>5, <1>6 DEF core, RecordsInv, RecordsTypeOK, RecordsAreOfCompany,
     OneManagerPerRole, BoardIsLegal, PostsOf, IsFounded, IsLlc

LEMMA SubmitStep ==
  ASSUME PayloadsAssumption, RecordsInv, NEW kind \in Kinds, NEW terms \in SUBSET Slots,
         NEW move \in Moves,
         NEW asked \in SUBSET Slots,
         Submit(kind, terms, move, asked),
         kind = "officer_change" => terms \in Boards /\ LegalBoard(terms),
         kind = "management_change" => terms \in Teams,
         kind = "equity_transfer" => asked = {<<"TRANSFEREE", move.to>>} /\ terms = {}
                                     /\ move.from # move.to,
         terms \ posts \subseteq asked
  PROVE  RecordsInv'
<1> DEFINE new == [kind |-> kind, posts |-> terms, move |-> move,
                   ballot |-> [slot \in asked |-> "PENDING"], consent |-> "PENDING",
                   status |-> "SUBMITTED", state |-> "submitted"]
<1>1. [slot \in asked |-> "PENDING"] \in Ballots
  BY DEF Ballots, Votes
<1>2. new \in Change
  BY <1>1 DEF Change, OpenStatus, Votes
<1>3. changes' = Append(changes, new) /\ UNCHANGED <<core, shares, posts>>
  BY DEF Submit, registrationVars, core
<1>4. /\ changes' \in Seq(Change)
      /\ DOMAIN changes' = DOMAIN changes \cup {Len(changes) + 1}
      /\ changes'[Len(changes) + 1] = new
      /\ \A d \in DOMAIN changes : changes'[d] = changes[d]
  BY <1>2, <1>3 DEF RecordsInv, RecordsTypeOK
<1>5. Sound(new, posts)
  <2>1. DOMAIN new.ballot = asked /\ new.kind = kind /\ new.posts = terms
          /\ new.move = move /\ new.consent = "PENDING"
    OBVIOUS
  <2> HIDE DEF new
  <2> QED
    BY <2>1 DEF Sound
<1>6. ChangesAreSound'
  BY <1>3, <1>4, <1>5 DEF ChangesAreSound, RecordsInv
<1>7. OneIsOpen'
  <2>1. new.kind = kind
    OBVIOUS
  <2> HIDE DEF new
  <2>2. \A d \in DOMAIN changes : ~(changes[d].kind = new.kind /\ IsOpenChange(d))
    BY <2>1 DEF Submit, IsOpenChange
  <2> QED
    BY <1>4, <2>2 DEF OneIsOpen, IsOpenChange, RecordsInv
<1>8. RegistrationInv'
  BY <1>3, RegistrationStep DEF RecordsInv
<1>9. IsFounded /\ IsFounded'
  BY <1>3 DEF Submit, IsFounded, core
<1> HIDE DEF new
<1> QED
  BY <1>3, <1>4, <1>6, <1>7, <1>8, <1>9 DEF core, RecordsInv, RecordsTypeOK,
     RecordsAreOfCompany, OneManagerPerRole, BoardIsLegal, PostsOf, IsFounded, IsLlc

LEMMA SubmissionStep ==
  ASSUME PayloadsAssumption, RecordsAssumption, WholeAssumption, RecordsInv,
         \/ \E from, to \in Parties, ratio, votes \in 1 .. Whole :
              SubmitTransfer(from, to, ratio, votes)
         \/ \E board \in Boards : SubmitOfficerChange(board)
         \/ \E team \in Teams : SubmitManagementChange(team)
  PROVE  RecordsInv'
<1>0. /\ {"SHAREHOLDER"} \X DOMAIN shares \subseteq Slots
      /\ PostsOf({"DIRECTOR"}) \subseteq Slots
      /\ OfficerRoles \X Persons \subseteq Slots
      /\ ManagerRoles \X Persons \subseteq Slots
  BY DEF RecordsInv, RecordsTypeOK, RecordsAssumption, Slots, PostsOf, KeyedRoles, OfficerRoles
<1>1. ASSUME NEW from \in Parties, NEW to \in Parties, NEW ratio \in 1 .. Whole,
             NEW votes \in 1 .. Whole, SubmitTransfer(from, to, ratio, votes)
      PROVE  RecordsInv'
  <2> DEFINE move == [from |-> from, to |-> to, ratio |-> ratio, votes |-> votes]
  <2>1. move \in Moves /\ move.to = to /\ move.from = from /\ from # to
    BY <1>1, WholeAssumption DEF Moves, SubmitTransfer
  <2>2. {<<"TRANSFEREE", to>>} \subseteq Slots
    BY DEF Slots, KeyedRoles
  <2>3. Submit("equity_transfer", {}, move, {<<"TRANSFEREE", to>>})
    BY <1>1 DEF SubmitTransfer
  <2> HIDE DEF move
  <2> QED
    BY <2>1, <2>2, <2>3, SubmitStep DEF Kinds
<1>2. NoMove \in Moves
  BY WholeAssumption DEF NoMove, Moves
<1>3. ASSUME NEW board \in Boards, SubmitOfficerChange(board)
      PROVE  RecordsInv'
  <2> DEFINE asked == ({"SHAREHOLDER"} \X DOMAIN shares) \cup (board \ posts)
  <2>1. Submit("officer_change", board, NoMove, asked) /\ LegalBoard(board)
    BY <1>3 DEF SubmitOfficerChange, LegalBoard
  <2>2. board \in SUBSET Slots /\ asked \in SUBSET Slots /\ board \ posts \subseteq asked
    BY <1>0 DEF RecordsAssumption
  <2> HIDE DEF asked
  <2> QED
    BY <1>2, <2>1, <2>2, SubmitStep DEF Kinds
<1>4. ASSUME NEW team \in Teams, SubmitManagementChange(team)
      PROVE  RecordsInv'
  <2> DEFINE asked == PostsOf({"DIRECTOR"}) \cup (team \ posts)
  <2>1. Submit("management_change", team, NoMove, asked)
    BY <1>4 DEF SubmitManagementChange
  <2>2. team \in SUBSET Slots /\ asked \in SUBSET Slots /\ team \ posts \subseteq asked
    BY <1>0 DEF RecordsAssumption
  <2> HIDE DEF asked
  <2> QED
    BY <1>2, <2>1, <2>2, SubmitStep DEF Kinds
<1> QED
  BY <1>1, <1>3, <1>4

LEMMA ChangeFacts ==
  ASSUME RecordsInv, NEW c \in DOMAIN changes
  PROVE  changes[c] \in Change /\ Sound(changes[c], posts)
BY DEF RecordsInv, RecordsTypeOK, ChangesAreSound

LEMMA DecideChangeStep ==
  ASSUME PayloadsAssumption, RecordsInv, NEW c \in DOMAIN changes, NEW user,
         NEW vote \in {"APPROVED", "REJECTED"}, DecideChange(c, user, vote)
  PROVE  RecordsInv'
<1> DEFINE change == changes[c]
           rows   == Answered(change.ballot, user, vote)
           tally  == ConsentProgress(change.kind, rows, VotingRights)
           status == IF change.kind \in VotingKinds /\ tally = "REJECTED"
                     THEN "REJECTED" ELSE change.status
           new    == [change EXCEPT !.ballot = rows, !.consent = tally, !.status = status]
<1>1. change \in Change /\ Sound(change, posts)
  BY ChangeFacts
<1>2. changes' = [changes EXCEPT ![c] = new] /\ IsOpenChange(c) /\ UNCHANGED registrationVars
  BY DEF DecideChange
<1>3. rows \in Ballots /\ DOMAIN rows = DOMAIN change.ballot
  BY <1>1 DEF Change, Ballots, Answered, Votes
<1>4. tally \in Votes
  BY TallyIsAVote
<1>5. status \in OpenStatus \cup {"APPROVED", "REJECTED", "ARCHIVED"}
  BY <1>1 DEF Change
<1> HIDE DEF rows, tally
<1>6. /\ new \in Change /\ new.kind = change.kind /\ new.ballot = rows
      /\ new.consent = tally /\ new.status = status /\ new.state = change.state
      /\ new.posts = change.posts /\ new.move = change.move
  BY <1>1, <1>3, <1>4, <1>5 DEF Change
<1>7. tally = "APPROVED" => status = change.status /\ NamedAgree(new)
  <2>1. tally = "APPROVED" =>
          \A slot \in DOMAIN rows :
            slot[1] \in NamedRoles(change.kind) => rows[slot] = "APPROVED"
    BY <1>1, <1>3, WonByTheNamed DEF tally, Change
  <2> QED
    BY <2>1, <1>6 DEF NamedAgree
<1> HIDE DEF new, change, status
<1>8. status \in OpenStatus => status = change.status
  BY DEF status, OpenStatus
<1>9. change.status \in OpenStatus
  BY <1>2 DEF IsOpenChange, change
<1>10. Sound(new, posts)
  BY <1>1, <1>3, <1>6, <1>7, <1>8, <1>9 DEF Sound, IsLive
<1> QED
  BY <1>2, <1>6, <1>10, RevisionStep DEF change

LEMMA WithdrawChangeStep ==
  ASSUME PayloadsAssumption, RecordsInv, NEW c \in DOMAIN changes, WithdrawChange(c)
  PROVE  RecordsInv'
<1> DEFINE change == changes[c]
           rows   == Closed(change.ballot)
           new    == [change EXCEPT !.ballot = rows, !.consent = "REJECTED",
                                    !.status = "ARCHIVED"]
<1>1. change \in Change /\ Sound(change, posts)
  BY ChangeFacts
<1>2. changes' = [changes EXCEPT ![c] = new] /\ UNCHANGED registrationVars
  BY DEF WithdrawChange
<1>3. rows \in Ballots /\ DOMAIN rows = DOMAIN change.ballot
  BY <1>1 DEF Change, Ballots, Votes, Closed
<1> HIDE DEF rows
<1>4. /\ new \in Change /\ new.kind = change.kind /\ new.ballot = rows
      /\ new.consent = "REJECTED" /\ new.status = "ARCHIVED" /\ new.state = change.state
      /\ new.posts = change.posts /\ new.move = change.move
  BY <1>1, <1>3 DEF Change, Votes
<1> HIDE DEF new, change
<1>5. Sound(new, posts)
  BY <1>1, <1>3, <1>4 DEF Sound, OpenStatus
<1> QED
  BY <1>2, <1>4, <1>5, RevisionStep DEF change, OpenStatus

\* performAction on a change, without an effect.
LEMMA ReviewChangeStep ==
  ASSUME PayloadsAssumption, RecordsInv, NEW c \in DOMAIN changes,
         RouteToReview(c) \/ RejectChange(c)
  PROVE  RecordsInv'
<1> DEFINE change == changes[c]
<1>1. change \in Change /\ Sound(change, posts)
  BY ChangeFacts
<1>2. CASE RouteToReview(c)
  <2> DEFINE new == [change EXCEPT !.state = "under_review", !.status = "UNDER_REVIEW"]
  <2>1. /\ changes' = [changes EXCEPT ![c] = new] /\ UNCHANGED registrationVars
        /\ IsLive(change) /\ change.consent = "APPROVED"
    BY <1>2 DEF RouteToReview, IsLive
  <2>2. /\ new \in Change /\ new.kind = change.kind /\ new.ballot = change.ballot
        /\ new.consent = change.consent /\ new.status = "UNDER_REVIEW"
        /\ new.posts = change.posts /\ new.move = change.move
    BY <1>1 DEF Change, OpenStatus
  <2> HIDE DEF new, change
  <2>3. Sound(new, posts) /\ change.status \in OpenStatus
    BY <1>1, <2>1, <2>2 DEF Sound, OpenStatus, IsLive, NamedAgree
  <2> QED
    BY <2>1, <2>2, <2>3, RevisionStep DEF change, IsOpenChange
<1>3. CASE RejectChange(c)
  <2> DEFINE new == [change EXCEPT !.state = "rejected", !.status = "REJECTED"]
  <2>1. changes' = [changes EXCEPT ![c] = new] /\ UNCHANGED registrationVars
    BY <1>3 DEF RejectChange
  <2>2. /\ new \in Change /\ new.kind = change.kind /\ new.ballot = change.ballot
        /\ new.consent = change.consent /\ new.status = "REJECTED"
        /\ new.state = "rejected" /\ new.posts = change.posts /\ new.move = change.move
    BY <1>1 DEF Change
  <2> HIDE DEF new, change
  <2>3. Sound(new, posts)
    BY <1>1, <2>2 DEF Sound, IsLive
  <2> QED
    BY <2>1, <2>2, <2>3, RevisionStep DEF change, OpenStatus
<1> QED
  BY <1>2, <1>3

-----------------------------------------------------------------------------
(***************************************************************************)
(* Approvals.                                                              *)
(***************************************************************************)

\* A change has posts in the roles it is about, and nowhere else.
LEMMA TermsAreOfKind ==
  ASSUME RecordsAssumption, NEW change \in Change, NEW held, Sound(change, held)
  PROVE  /\ change.kind = "equity_transfer" => change.posts = {}
         /\ change.kind # "equity_transfer" =>
              \A slot \in change.posts : slot[1] \in RolesOf(change.kind)
<1>1. CASE change.kind = "equity_transfer"
  BY <1>1 DEF Sound
<1>2. CASE change.kind = "officer_change"
  BY <1>2 DEF Sound, RecordsAssumption, RolesOf
<1>3. CASE change.kind = "management_change"
  BY <1>3 DEF Sound, RecordsAssumption, RolesOf
<1> QED
  BY <1>1, <1>2, <1>3 DEF Change, Kinds

LEMMA RolesAreDisjoint ==
  ASSUME NEW one \in Kinds \ {"equity_transfer"}, NEW other \in Kinds \ {"equity_transfer"},
         one # other, NEW role
  PROVE  ~(role \in RolesOf(one) /\ role \in RolesOf(other))
BY DEF Kinds, RolesOf, OfficerRoles, ManagerRoles

\* An approval that changes the posts of its own kind only.
LEMMA ApprovalStep ==
  ASSUME PayloadsAssumption, RecordsAssumption, RecordsInv, UNCHANGED core,
         NEW c \in DOMAIN changes, NEW status \in {changes[c].status, "APPROVED"},
         changes[c].state = "under_review", changes[c].consent = "APPROVED",
         changes' = [changes EXCEPT ![c] = [changes[c] EXCEPT !.state = "approved",
                                                              !.status = status]],
         \/ posts' = posts
         \/ /\ changes[c].kind # "equity_transfer"
            /\ \A slot \in posts : slot[1] \notin RolesOf(changes[c].kind) => slot \in posts',
         PostsOf(OfficerRoles)' \subseteq Slots, DOMAIN shares' \subseteq Parties,
         OneManagerPerRole', BoardIsLegal'
  PROVE  RecordsInv'
<1> DEFINE new == [changes[c] EXCEPT !.state = "approved", !.status = status]
<1>1. changes[c] \in Change /\ Sound(changes[c], posts)
  BY ChangeFacts
<1>2. /\ new \in Change /\ new.kind = changes[c].kind /\ new.ballot = changes[c].ballot
      /\ new.status = status /\ new.state = "approved"
      /\ new.posts = changes[c].posts /\ new.move = changes[c].move
  BY <1>1 DEF Change
<1>3. changes' = [changes EXCEPT ![c] = new]
  OBVIOUS
<1> HIDE DEF new
<1>4. /\ changes' \in Seq(Change) /\ DOMAIN changes' = DOMAIN changes
      /\ changes'[c] = new
      /\ \A d \in DOMAIN changes : d # c => changes'[d] = changes[d]
  BY <1>2, <1>3, Revised DEF RecordsInv, RecordsTypeOK
<1>5. Sound(new, posts')
  BY <1>1, <1>2 DEF Sound, IsLive
<1>6. IsOpenChange(c)
  BY <1>1 DEF Sound, IsLive, IsOpenChange
<1>7. ASSUME NEW d \in DOMAIN changes, d # c
      PROVE  Sound(changes[d], posts')
  <2>1. changes[d] \in Change /\ Sound(changes[d], posts)
    BY ChangeFacts
  <2>2. CASE posts' = posts
    BY <2>1, <2>2
  <2>3. CASE ~IsOpenChange(d)
    BY <2>1, <2>3 DEF Sound, IsOpenChange
  <2>4. CASE IsOpenChange(d) /\ posts' # posts
    <3>1. changes[d].kind # changes[c].kind /\ changes[c].kind # "equity_transfer"
      BY <1>6, <1>7, <2>4 DEF RecordsInv, OneIsOpen
    <3>2. CASE changes[d].kind = "equity_transfer"
      BY <2>1, <3>2 DEF Sound
    <3>3. CASE changes[d].kind # "equity_transfer"
      <4>1. \A slot \in changes[d].posts : slot[1] \notin RolesOf(changes[c].kind)
        BY <1>1, <2>1, <3>1, <3>3, TermsAreOfKind, RolesAreDisjoint DEF Change
      <4>2. changes[d].posts \ posts' \subseteq changes[d].posts \ posts
        BY <2>4, <4>1
      <4> QED
        BY <2>1, <4>2 DEF Sound
    <3> QED
      BY <3>2, <3>3
  <2> QED
    BY <2>2, <2>3, <2>4
<1>8. ChangesAreSound'
  BY <1>4, <1>5, <1>7 DEF ChangesAreSound
<1>9. OneIsOpen'
  <2>1. \A d \in DOMAIN changes : IsOpenChange(d)' => IsOpenChange(d)
    BY <1>2, <1>4, <1>6 DEF IsOpenChange
  <2>2. \A d \in DOMAIN changes : changes'[d].kind = changes[d].kind
    BY <1>2, <1>4
  <2> QED
    BY <1>4, <2>1, <2>2 DEF OneIsOpen, RecordsInv
<1>10. RegistrationInv' /\ IsFounded /\ IsFounded'
  BY RegistrationStep DEF RecordsInv, RecordsAreOfCompany, IsFounded, core
<1> QED
  BY <1>4, <1>8, <1>9, <1>10 DEF core, RecordsInv, RecordsTypeOK, RecordsAreOfCompany

LEMMA TransferKeepsRecords ==
  ASSUME RecordsInv, UNCHANGED core, NEW c \in DOMAIN changes,
         changes[c].kind = "equity_transfer", PersistTransfer(changes[c].move)
  PROVE  /\ UNCHANGED posts /\ DOMAIN shares' \subseteq Parties
         /\ OneManagerPerRole' /\ BoardIsLegal'
<1> DEFINE move == changes[c].move
<1>1. changes[c] \in Change /\ Sound(changes[c], posts)
  BY ChangeFacts
<1>2. DOMAIN changes[c].ballot \subseteq Slots
  BY <1>1 DEF Change, Ballots
<1>3. move.to \in Parties
  <2>1. <<"TRANSFEREE", move.to>> \in Slots
    BY <1>1, <1>2 DEF Sound
  <2> QED
    BY <2>1 DEF Slots
<1>4. /\ move.from \in DOMAIN shares /\ UNCHANGED posts
      /\ DOMAIN shares' \subseteq DOMAIN shares \cup {move.to}
  BY DEF PersistTransfer, HasEnough, AfterTransfer
<1> QED
  BY <1>3, <1>4 DEF RecordsInv, RecordsTypeOK, OneManagerPerRole, BoardIsLegal, PostsOf,
     IsFounded, IsLlc, core

LEMMA ReplacementKeepsRecords ==
  ASSUME RecordsAssumption, RecordsInv, UNCHANGED core, NEW c \in DOMAIN changes,
         changes[c].kind # "equity_transfer", Replace(changes[c])
  PROVE  /\ PostsOf(OfficerRoles)' \subseteq Slots /\ UNCHANGED shares
         /\ \A slot \in posts : slot[1] \notin RolesOf(changes[c].kind) => slot \in posts'
         /\ OneManagerPerRole' /\ BoardIsLegal'
<1> DEFINE new == changes[c].posts
<1>1. changes[c] \in Change /\ Sound(changes[c], posts)
  BY ChangeFacts
<1>2. /\ posts' = (posts \ PostsOf(RolesOf(changes[c].kind))) \cup new
      /\ UNCHANGED shares
  BY DEF Replace
<1>3. PostsOf(OfficerRoles)' \subseteq Slots
  <2>1. new \subseteq Slots
    BY <1>1 DEF Change
  <2> QED
    BY <1>2, <2>1 DEF PostsOf, RecordsInv, RecordsTypeOK
<1>4. CASE changes[c].kind = "officer_change"
  <2>1. PostsOf(ManagerRoles)' = PostsOf(ManagerRoles)
    BY <1>1, <1>2, <1>4, TermsAreOfKind DEF PostsOf, RolesOf, OfficerRoles, ManagerRoles
  <2>2. \A role \in OfficerRoles : Holders(posts', {role}) = Holders(new, {role})
    BY <1>1, <1>2, <1>4, TermsAreOfKind DEF PostsOf, RolesOf, Holders
  <2>3. LegalBoard(new)
    BY <1>1, <1>4 DEF Sound
  <2>4. BoardIsLegal'
    BY <2>2, <2>3 DEF BoardIsLegal, LegalBoard, OfficerRoles
  <2> QED
    BY <1>2, <1>3, <2>1, <2>4 DEF OneManagerPerRole, RecordsInv, PostsOf
<1>5. CASE changes[c].kind = "management_change"
  <2>1. PostsOf(ManagerRoles)' = new
    BY <1>1, <1>2, <1>5, TermsAreOfKind DEF PostsOf, RolesOf, OfficerRoles, ManagerRoles
  <2>2. \A a, b \in new : a[1] = b[1] => a = b
    BY <1>1, <1>5 DEF Sound, RecordsAssumption
  <2>3. \A role \in OfficerRoles : Holders(posts', {role}) = Holders(posts, {role})
    BY <1>1, <1>2, <1>5, TermsAreOfKind DEF PostsOf, RolesOf, Holders, OfficerRoles,
       ManagerRoles
  <2>4. BoardIsLegal'
    BY <1>2, <2>3 DEF BoardIsLegal, RecordsInv, OfficerRoles, IsFounded, IsLlc, core
  <2> QED
    BY <1>2, <1>3, <2>1, <2>2, <2>4 DEF OneManagerPerRole, PostsOf
<1> QED
  BY <1>1, <1>4, <1>5 DEF Change, Kinds

\* The managers are deleted and no new ones created.
LEMMA DeletionKeepsRecords ==
  ASSUME RecordsInv, UNCHANGED core, posts' = posts \ PostsOf(ManagerRoles), UNCHANGED shares
  PROVE  /\ PostsOf(OfficerRoles)' \subseteq Slots
         /\ \A slot \in posts : slot[1] \notin ManagerRoles => slot \in posts'
         /\ OneManagerPerRole' /\ BoardIsLegal'
<1>1. \A role \in OfficerRoles : Holders(posts', {role}) = Holders(posts, {role})
  BY DEF PostsOf, Holders, OfficerRoles, ManagerRoles
<1>2. BoardIsLegal'
  BY <1>1 DEF BoardIsLegal, RecordsInv, OfficerRoles, IsFounded, IsLlc, core
<1> QED
  BY <1>2 DEF PostsOf, RecordsInv, RecordsTypeOK, OneManagerPerRole

LEMMA ApproveChangeStep ==
  ASSUME PayloadsAssumption, RecordsAssumption, RecordsInv, NEW c \in DOMAIN changes,
         ApproveChange(c)
  PROVE  RecordsInv'
<1> DEFINE change == changes[c]
<1>1. /\ change.state = "under_review" /\ change.consent = "APPROVED" /\ UNCHANGED core
      /\ change \in Change
  BY ChangeFacts DEF ApproveChange, core
<1>2. PICK status \in {change.status, "APPROVED"} :
        /\ changes' = [changes EXCEPT ![c] = [change EXCEPT !.state = "approved",
                                                            !.status = status]]
        /\ UNCHANGED <<shares, posts>> \/ Persist(change) \/ Interrupted(change)
  <2>1. CASE changes' = [changes EXCEPT ![c] = [@ EXCEPT !.state = "approved"]]
               /\ UNCHANGED <<shares, posts>>
    <3>1. [change EXCEPT !.state = "approved"]
            = [change EXCEPT !.state = "approved", !.status = change.status]
      BY <1>1 DEF Change
    <3> QED
      BY <2>1, <3>1
  <2>2. CASE /\ changes' = [changes EXCEPT ![c] = [@ EXCEPT
                  !.state = "approved", !.status = "APPROVED"]]
             /\ Persist(change) \/ Interrupted(change)
    BY <2>2
  <2> QED
    BY <2>1, <2>2 DEF ApproveChange
<1>3. CASE UNCHANGED <<shares, posts>>
  <2>1. /\ OneManagerPerRole' /\ BoardIsLegal'
        /\ PostsOf(OfficerRoles)' \subseteq Slots /\ DOMAIN shares' \subseteq Parties
    BY <1>1, <1>3 DEF RecordsInv, RecordsTypeOK, OneManagerPerRole, BoardIsLegal, PostsOf,
       IsFounded, IsLlc, core
  <2> QED
    BY <1>1, <1>2, <1>3, <2>1, ApprovalStep
<1>4. CASE Persist(change) /\ change.kind = "equity_transfer"
  <2>1. UNCHANGED posts /\ DOMAIN shares' \subseteq Parties
          /\ OneManagerPerRole' /\ BoardIsLegal'
    BY <1>1, <1>4, TransferKeepsRecords DEF Persist
  <2>2. PostsOf(OfficerRoles)' \subseteq Slots
    BY <2>1 DEF RecordsInv, RecordsTypeOK, PostsOf
  <2> QED
    BY <1>1, <1>2, <2>1, <2>2, ApprovalStep
<1>5. CASE Persist(change) /\ change.kind # "equity_transfer"
  <2>1. /\ PostsOf(OfficerRoles)' \subseteq Slots /\ UNCHANGED shares
        /\ \A slot \in posts : slot[1] \notin RolesOf(change.kind) => slot \in posts'
        /\ OneManagerPerRole' /\ BoardIsLegal'
    BY <1>1, <1>5, ReplacementKeepsRecords DEF Persist
  <2> QED
    BY <1>1, <1>2, <1>5, <2>1, ApprovalStep DEF RecordsInv, RecordsTypeOK
<1>6. CASE /\ change.kind = "management_change"
           /\ posts' = posts \ PostsOf(ManagerRoles) /\ UNCHANGED shares
  <2>1. /\ PostsOf(OfficerRoles)' \subseteq Slots
        /\ \A slot \in posts : slot[1] \notin RolesOf(change.kind) => slot \in posts'
        /\ OneManagerPerRole' /\ BoardIsLegal'
    BY <1>1, <1>6, DeletionKeepsRecords DEF RolesOf
  <2> QED
    BY <1>1, <1>2, <1>6, <2>1, ApprovalStep DEF RecordsInv, RecordsTypeOK
<1> QED
  BY <1>2, <1>3, <1>4, <1>5, <1>6 DEF Interrupted

-----------------------------------------------------------------------------
(***************************************************************************)
(* The registration and the records.                                       *)
(***************************************************************************)
LEMMA RegistrationFacts ==
  ASSUME PayloadsAssumption, RecordsInv, RegistrationNext
  PROVE  /\ UNCHANGED <<shares, posts>> \/ (~IsFounded /\ IsFounded' /\ Found)
         /\ IsFounded => IsFounded'
         /\ IsJudged' /\ IsFounded => IsJudged
<1>0. RegistrationInv
  BY DEF RecordsInv
<1>1. CASE \/ \E form \in Payloads : CreateApplication(form)
           \/ Withdraw
           \/ \E user \in Users, vote \in {"APPROVED", "REJECTED"} : Decide(user, vote)
  <2>1. UNCHANGED <<company, shares, posts, torn>>
    BY <1>1 DEF CreateApplication, Withdraw, Decide
  <2>2. CASE \E form \in Payloads : CreateApplication(form)
    BY <1>0, <2>1, <2>2 DEF CreateApplication, RegistrationInv, FoundedIsOver, IsFounded, IsJudged
  <2>3. CASE Withdraw \/ \E user \in Users, vote \in {"APPROVED", "REJECTED"} : Decide(user, vote)
    <3>1. application'.type = application.type
      BY <1>0, <2>3 DEF Withdraw, Decide, RegistrationInv, RegistrationTypeOK
    <3> QED
      BY <2>1, <3>1 DEF IsFounded, IsLlc, IsJudged
  <2> QED
    BY <1>1, <2>2, <2>3
<1>2. CASE \E form \in Payloads : UpdateApplication(form)
  <2>1. UNCHANGED <<company, shares, posts, torn>> /\ application.status = "NEEDS_CHANGES"
    BY <1>2 DEF UpdateApplication
  <2> QED
    BY <1>0, <2>1 DEF RegistrationInv, FoundedIsOver, IsFounded, IsJudged
<1>3. CASE Resubmit \/ \E act \in Acts : Review(act)
  <2>1. ~IsFounded /\ UNCHANGED <<company, shares, posts>>
    BY <1>0, <1>3 DEF Resubmit, Review, RegistrationInv, FoundedIsOver, Settled
  <2> QED
    BY <2>1 DEF IsFounded
<1>4. CASE \E act \in Acts : Administer(act)
  <2>1. UNCHANGED <<shares, posts, torn>> /\ application'.type = application.type
    BY <1>0, <1>4 DEF Administer, RegistrationInv, RegistrationTypeOK
  <2>2. \A step \in ReviewFlow \cup CompanyFlow : CompanyStatus(step[3]) # "none"
    BY DEF CompanyStatus
  <2>3. IsFounded'
    BY <1>4, <2>2 DEF Administer, IsFounded
  <2> QED
    BY <2>1, <2>3 DEF IsFounded, IsLlc, IsJudged
<1>5. CASE Approve \/ CreateMissingCompany
  <2>1. ~IsFounded /\ (Found \/ NotFounded)
    BY <1>5 DEF Approve, CreateMissingCompany
  <2> QED
    BY <2>1 DEF Found, NotFounded, IsFounded
<1> QED
  BY <1>1, <1>2, <1>3, <1>4, <1>5 DEF RegistrationNext

\* The records a company starts with.
\* The form they come from is that of the application, and of a limited liability
\* company it has been validated.
LEMMA FoundedForm ==
  ASSUME PayloadsAssumption, RecordsInv, RegistrationNext, ~IsFounded, IsFounded', Found
  PROVE  /\ application.payload \in Payloads \cup {NoForm}
         /\ IsJudged' => ValidLlc(application.payload)
<1>1. RegistrationInv /\ application.consent = "APPROVED"
  BY DEF RecordsInv, Found
<1>2. Approve \/ CreateMissingCompany
  BY DEF RegistrationNext, CreateApplication, UpdateApplication, Resubmit, Withdraw,
     Decide, Review, Administer, IsFounded
<1>3. application'.type = application.type /\ torn' = torn
  BY <1>1, <1>2 DEF Approve, CreateMissingCompany, RegistrationInv, RegistrationTypeOK
<1> QED
  BY <1>1, <1>3 DEF RegistrationInv, RegistrationTypeOK, Forms, AskedIsValid, IsJudged, IsLlc

LEMMA FoundedRecords ==
  ASSUME PayloadsAssumption, RecordsInv, RegistrationNext, ~IsFounded, IsFounded', Found
  PROVE  /\ DOMAIN shares' \subseteq Parties /\ PostsOf(OfficerRoles)' \subseteq Slots
         /\ OneManagerPerRole' /\ BoardIsLegal'
<1> DEFINE form == application.payload
<1>1. form \in Payloads \cup {NoForm} /\ (IsJudged' => ValidLlc(form))
  BY FoundedForm
<1>2. shares' = form.shares /\ posts' = {slot \in form.posts : slot[1] # "FINANCIAL_OFFICER"}
  BY DEF Found, Registered
<1>3. /\ DOMAIN form.shares \subseteq Parties
      /\ form.posts \subseteq STRING \X Parties
      /\ \A a, b \in form.posts : a[1] \in ManagerRoles /\ a[1] = b[1] => a = b
  BY <1>1 DEF PayloadsAssumption, NoForm
<1> HIDE DEF form
<1>4. PostsOf(OfficerRoles)' \subseteq Slots
  BY <1>2, <1>3 DEF PostsOf, Slots
<1>5. OneManagerPerRole'
  BY <1>2, <1>3 DEF OneManagerPerRole, PostsOf
<1>6. \A role \in OfficerRoles : Holders(posts', {role}) = Holders(form.posts, {role})
  BY <1>2 DEF Holders, OfficerRoles
<1>7. IsJudged' => LegalBoard(form.posts)
  BY <1>1 DEF ValidLlc, LegalBoard
<1>8. BoardIsLegal'
  BY <1>6, <1>7 DEF BoardIsLegal, LegalBoard, OfficerRoles, IsJudged
<1> QED
  BY <1>2, <1>3, <1>4, <1>5, <1>8

LEMMA RegistrationKeepsRecords ==
  ASSUME PayloadsAssumption, RecordsInv, RegistrationNext, UNCHANGED changes
  PROVE  RecordsInv'
<1>1. RegistrationInv'
  BY RegistrationStep DEF RecordsInv
<1>2. /\ UNCHANGED <<shares, posts>> \/ (~IsFounded /\ IsFounded' /\ Found)
      /\ IsFounded => IsFounded'
      /\ IsJudged' /\ IsFounded => IsJudged
  BY RegistrationFacts
<1>3. OneIsOpen'
  BY DEF OneIsOpen, IsOpenChange, RecordsInv
<1>4. CASE ~(~IsFounded /\ IsFounded' /\ Found)
  <2>1. UNCHANGED <<shares, posts>>
    BY <1>2, <1>4
  <2>2. ASSUME ~IsFounded, IsFounded' PROVE FALSE
    <3>1. NotFounded \/ Found
      BY <2>2 DEF RegistrationNext, CreateApplication, UpdateApplication, Resubmit, Withdraw,
         Decide, Review, Administer, IsFounded, Approve, CreateMissingCompany
    <3> QED
      BY <1>4, <2>2, <3>1 DEF NotFounded, IsFounded
  <2>3. BoardIsLegal'
    BY <1>2, <2>1, <2>2 DEF RecordsInv, BoardIsLegal, IsJudged
  <2>4. RecordsAreOfCompany'
    BY <1>2, <2>1 DEF RecordsInv, RecordsAreOfCompany
  <2> QED
    BY <1>1, <1>3, <2>1, <2>3, <2>4 DEF RecordsInv, RecordsTypeOK, ChangesAreSound,
       OneManagerPerRole, PostsOf
<1>5. CASE ~IsFounded /\ IsFounded' /\ Found
  <2>1. changes = << >>
    BY <1>5 DEF RecordsInv, RecordsAreOfCompany
  <2>2. ChangesAreSound'
    BY <2>1 DEF ChangesAreSound
  <2>3. changes' \in Seq(Change)
    BY DEF RecordsInv, RecordsTypeOK
  <2> QED
    BY <1>1, <1>3, <1>5, <2>2, <2>3, FoundedRecords DEF RecordsInv, RecordsTypeOK,
       RecordsAreOfCompany
<1> QED
  BY <1>4, <1>5

LEMMA RecordsStart ==
  ASSUME Init
  PROVE  RecordsInv
<1>1. DOMAIN shares = {} /\ posts = {} /\ changes = << >> /\ ~IsFounded
  BY DEF Init, RegistrationInit, NoForm, IsFounded
<1> QED
  BY <1>1, RegistrationStarts DEF Init, RecordsInv, RecordsTypeOK, RecordsAreOfCompany,
     ChangesAreSound, OneIsOpen, OneManagerPerRole, BoardIsLegal, PostsOf

LEMMA RecordsStep ==
  ASSUME PayloadsAssumption, RecordsAssumption, WholeAssumption, RecordsInv, [Next]_recordVars
  PROVE  RecordsInv'
<1>1. CASE RegistrationNext /\ UNCHANGED changes
  BY <1>1, RegistrationKeepsRecords
<1>2. CASE ChangeNext
  <2>1. ASSUME NEW c \in DOMAIN changes,
               \/ \E user \in Users, vote \in {"APPROVED", "REJECTED"} :
                    DecideChange(c, user, vote)
               \/ WithdrawChange(c)
               \/ RouteToReview(c) \/ RejectChange(c)
               \/ ApproveChange(c)
        PROVE  RecordsInv'
    BY <2>1, DecideChangeStep, WithdrawChangeStep, ReviewChangeStep, ApproveChangeStep
  <2> QED
    BY <1>2, <2>1, SubmissionStep DEF ChangeNext
<1>3. CASE UNCHANGED recordVars
  <2>1. RegistrationInv'
    BY <1>3, RegistrationStep DEF RecordsInv, recordVars, registrationVars, core
  <2>2. UNCHANGED <<application, company, shares, posts, changes, torn>>
    BY <1>3 DEF recordVars, registrationVars
  <2> QED
    BY <2>1, <2>2 DEF RecordsInv, RecordsTypeOK, RecordsAreOfCompany, ChangesAreSound,
       OneIsOpen, OneManagerPerRole, BoardIsLegal, PostsOf, IsOpenChange, IsFounded, IsLlc
<1> QED
  BY <1>1, <1>2, <1>3 DEF Next

\* The inductive invariant of a company's records: what a change that may still
\* take effect has been agreed to, and that of each kind only one can.
THEOREM RecordsInvariant ==
  Spec => []RecordsInv
<1> USE PayloadsAssumption, RecordsAssumption, WholeAssumption
<1>1. Init => RecordsInv
  BY RecordsStart
<1>2. RecordsInv /\ [Next]_recordVars => RecordsInv'
  BY RecordsStep
<1> QED
  BY <1>1, <1>2, PTL DEF Spec

\* No role of the management ever has two holders, wherever the two calls that
\* replace the managers are cut off.
THEOREM ManagersAreUnique ==
  Spec => []OneManagerPerRole
<1>1. RecordsInv => OneManagerPerRole
  BY DEF RecordsInv
<1> QED
  BY <1>1, RecordsInvariant, PTL

\* The board of a limited liability company is always one the law allows, from
\* the form it is founded with to the last officer change, though an application
\* may hold a form nobody has validated. It is not so of companies of other types,
\* whose forms nobody validates at all, nor after a torn ballot.
THEOREM BoardsAreLegal ==
  Spec => []BoardIsLegal
<1>1. RecordsInv => BoardIsLegal
  BY DEF RecordsInv
<1> QED
  BY <1>1, RecordsInvariant, PTL

-----------------------------------------------------------------------------
\* A change that replaces posts brings nobody in who has not agreed.
LEMMA ReplacementIsAgreed ==
  ASSUME RecordsAssumption, RecordsInv, NEW c \in DOMAIN changes,
         changes[c].kind # "equity_transfer",
         changes[c].state = "under_review", changes[c].consent = "APPROVED",
         Replace(changes[c]), NEW slot \in posts' \ posts
  PROVE  SaysYes(c, slot)
<1>1. changes[c] \in Change /\ Sound(changes[c], posts)
  BY ChangeFacts
<1>2. slot \in changes[c].posts \ posts
  BY DEF Replace
<1>3. slot \in DOMAIN changes[c].ballot /\ NamedAgree(changes[c])
  BY <1>1, <1>2 DEF Sound, IsLive
<1>4. slot[1] \in RolesOf(changes[c].kind)
  BY <1>1, <1>2, TermsAreOfKind
<1>5. slot[1] \in NamedRoles(changes[c].kind)
  BY <1>1, <1>4 DEF Change, Kinds, RolesOf, NamedRoles
<1> QED
  BY <1>3, <1>5 DEF NamedAgree, SaysYes

\* A transfer changes the holdings of two parties, and the one that gains agreed.
LEMMA TransferIsAgreed ==
  ASSUME RecordsInv, NEW c \in DOMAIN changes, changes[c].kind = "equity_transfer",
         changes[c].state = "under_review", changes[c].consent = "APPROVED",
         PersistTransfer(changes[c].move), NEW p \in DOMAIN shares',
         p \notin DOMAIN shares \/ shares'[p] # shares[p], p # changes[c].move.from
  PROVE  SaysYes(c, <<"TRANSFEREE", p>>)
<1> DEFINE move == changes[c].move
<1>1. changes[c] \in Change /\ Sound(changes[c], posts)
  BY ChangeFacts
<1>2. p = move.to
  BY DEF PersistTransfer, AfterTransfer
<1>3. <<"TRANSFEREE", p>> \in DOMAIN changes[c].ballot /\ NamedAgree(changes[c])
  BY <1>1, <1>2 DEF Sound, IsLive
<1>4. <<"TRANSFEREE", p>>[1] \in NamedRoles(changes[c].kind)
  BY DEF NamedRoles
<1> QED
  BY <1>3, <1>4 DEF NamedAgree, SaysYes

\* NobodyIsDrafted, of one step.
NobodyDrafted ==
  IsFounded =>
    /\ \A slot \in posts' \ posts : \E c \in DOMAIN changes : Approved(c) /\ SaysYes(c, slot)
    /\ \A p \in DOMAIN shares' :
         p \notin DOMAIN shares \/ shares'[p] # shares[p] =>
           \E c \in DOMAIN changes :
             /\ Approved(c)
             /\ p # changes[c].move.from => SaysYes(c, <<"TRANSFEREE", p>>)

LEMMA NobodyDraftedStep ==
  ASSUME PayloadsAssumption, RecordsAssumption, RecordsInv, [Next]_recordVars
  PROVE  NobodyDrafted
<1>1. CASE UNCHANGED <<shares, posts>>
  BY <1>1 DEF NobodyDrafted
<1>2. CASE RegistrationNext
  BY <1>1, <1>2, RegistrationFacts DEF NobodyDrafted
<1>3. ASSUME NEW c \in DOMAIN changes, ApproveChange(c)
      PROVE  NobodyDrafted
  <2>1. changes[c] \in Change /\ changes[c].state = "under_review"
          /\ changes[c].consent = "APPROVED"
    BY <1>3, ChangeFacts DEF ApproveChange
  <2>2. Approved(c)
    <3>1. PICK status : changes' = [changes EXCEPT ![c] =
                          [changes[c] EXCEPT !.state = "approved", !.status = status]]
      <4>1. CASE changes' = [changes EXCEPT ![c] = [@ EXCEPT !.state = "approved"]]
        <5>1. [changes[c] EXCEPT !.state = "approved"]
                = [changes[c] EXCEPT !.state = "approved", !.status = changes[c].status]
          BY <2>1 DEF Change
        <5> QED
          BY <4>1, <5>1
      <4> QED
        BY <1>3, <4>1 DEF ApproveChange
    <3> DEFINE new == [changes[c] EXCEPT !.state = "approved", !.status = status]
    <3>2. new.state = "approved"
      BY <2>1 DEF Change
    <3>3. changes' = [changes EXCEPT ![c] = new] /\ changes \in Seq(Change)
      BY <3>1 DEF RecordsInv, RecordsTypeOK
    <3> HIDE DEF new
    <3>4. changes'[c] = new
      BY <3>3
    <3> QED
      BY <2>1, <3>2, <3>4 DEF Approved
  <2>3. CASE Persist(changes[c]) /\ changes[c].kind # "equity_transfer"
    <3>1. Replace(changes[c]) /\ UNCHANGED shares
      BY <2>3 DEF Persist, Replace
    <3> QED
      BY <2>1, <2>2, <2>3, <3>1, ReplacementIsAgreed DEF NobodyDrafted
  <2>4. CASE Persist(changes[c]) /\ changes[c].kind = "equity_transfer"
    <3>1. PersistTransfer(changes[c].move) /\ UNCHANGED posts
      BY <2>4 DEF Persist, PersistTransfer
    <3> QED
      BY <2>1, <2>2, <2>4, <3>1, TransferIsAgreed DEF NobodyDrafted
  <2>5. CASE Interrupted(changes[c])
    BY <2>5 DEF Interrupted, NobodyDrafted
  <2> QED
    BY <1>1, <1>3, <2>3, <2>4, <2>5 DEF ApproveChange
<1>4. CASE ChangeNext
  BY <1>1, <1>3, <1>4 DEF ChangeNext, SubmitTransfer, SubmitOfficerChange,
     SubmitManagementChange, Submit, DecideChange, WithdrawChange, RouteToReview,
     RejectChange, registrationVars
<1> QED
  BY <1>1, <1>2, <1>4 DEF Next, recordVars, registrationVars

\* Once a company exists nobody gets a post or a larger share of it but by an
\* approved change they agreed to, although who has to be asked is worked out
\* from the posts at submission and the posts are replaced at approval.
THEOREM NobodyIsEverDrafted ==
  Spec => NobodyIsDrafted
<1> USE PayloadsAssumption, RecordsAssumption
<1>1. RecordsInv /\ [Next]_recordVars => NobodyDrafted
  BY NobodyDraftedStep
<1>2. RecordsInv /\ [Next]_recordVars =>
        [IsFounded =>
           /\ \A slot \in posts' \ posts : \E c \in DOMAIN changes :
                Approved(c) /\ SaysYes(c, slot)
           /\ \A p \in DOMAIN shares' :
                p \notin DOMAIN shares \/ shares'[p] # shares[p] =>
                  \E c \in DOMAIN changes :
                    /\ Approved(c)
                    /\ p # changes[c].move.from => SaysYes(c, <<"TRANSFEREE", p>>)
        ]_recordVars
  BY <1>1 DEF NobodyDrafted
<1> QED
  BY <1>2, RecordsInvariant, PTL DEF Spec, NobodyIsDrafted

-----------------------------------------------------------------------------
(***************************************************************************)
(* The balance of the register.                                            *)
(***************************************************************************)
IsShareRegister(register) ==
  /\ IsFiniteSet(DOMAIN register)
  /\ register \in [DOMAIN register -> [ratio : Nat, votes : Nat]]

BalanceInv ==
  /\ RecordsInv
  /\ IsShareRegister(shares)
  /\ RegisterBalances
  /\ Len(changes) <= MaxChanges

Units == {"ratio", "votes"}

\* The holdings in one unit are a register of the tally.
LEMMA UnitIsRegister ==
  ASSUME NEW register, IsShareRegister(register), DOMAIN register # {}, NEW unit \in Units
  PROVE  IsRegister([p \in DOMAIN register |-> register[p][unit]])
<1>1. \A p \in DOMAIN register : register[p][unit] \in Nat
  BY DEF IsShareRegister, Units
<1> QED
  BY <1>1 DEF IsRegister, IsShareRegister

LEMMA TransferBalances ==
  ASSUME BalanceInv, NEW c \in DOMAIN changes, changes[c].kind = "equity_transfer",
         PersistTransfer(changes[c].move), UNCHANGED core
  PROVE  IsShareRegister(shares)' /\ RegisterBalances'
<1> DEFINE move == changes[c].move
           left == Less(shares[move.from], move)
           stays == IF left = Nothing THEN DOMAIN shares \ {move.from} ELSE DOMAIN shares
           had  == IF move.to \in DOMAIN shares THEN shares[move.to] ELSE Nothing
<1>1. /\ changes[c] \in Change /\ Sound(changes[c], posts)
      /\ RecordsInv /\ IsShareRegister(shares) /\ RegisterBalances
  BY ChangeFacts DEF BalanceInv
<1>2. move.ratio \in Nat /\ move.votes \in Nat /\ move.from # move.to
  BY <1>1 DEF Change, Moves, Sound
<1>3. move.from \in DOMAIN shares /\ shares' = AfterTransfer(move)
        /\ shares[move.from].ratio >= move.ratio /\ shares[move.from].votes >= move.votes
  BY DEF PersistTransfer, HasEnough
<1>4. \A p \in DOMAIN shares : shares[p] \in [ratio : Nat, votes : Nat]
  BY <1>1 DEF IsShareRegister
<1>5. left \in [ratio : Nat, votes : Nat] /\ had \in [ratio : Nat, votes : Nat]
  <2>1. Nothing \in [ratio : Nat, votes : Nat]
    BY DEF Nothing
  <2> QED
    BY <1>2, <1>3, <1>4, <2>1 DEF Less
<1>6. More(had, move) \in [ratio : Nat, votes : Nat]
  BY <1>2, <1>5 DEF More
<1>7. /\ DOMAIN shares' = stays \cup {move.to}
      /\ move.from \in DOMAIN shares' => shares'[move.from] = left
      /\ shares'[move.to] = More(had, move)
      /\ \A p \in DOMAIN shares \ {move.from, move.to} : shares'[p] = shares[p]
      /\ shares' = [p \in DOMAIN shares' |-> shares'[p]]
  BY <1>2, <1>3 DEF AfterTransfer
<1>8. IsFiniteSet(DOMAIN shares')
  <2>1. IsFiniteSet(DOMAIN shares \cup {move.to})
    BY <1>1, FS_AddElement DEF IsShareRegister
  <2> QED
    BY <1>7, <2>1, FS_Subset
<1>9. move.from \in DOMAIN shares' <=> left # Nothing
  BY <1>2, <1>3, <1>7
<1> HIDE DEF left, had, stays
<1>10. \A p \in DOMAIN shares' : shares'[p] \in [ratio : Nat, votes : Nat]
  <2>1. DOMAIN shares' \subseteq DOMAIN shares \cup {move.to}
    BY <1>7 DEF stays
  <2> QED
    BY <1>4, <1>5, <1>6, <1>7, <2>1
<1>11. IsShareRegister(shares)'
  BY <1>7, <1>8, <1>10 DEF IsShareRegister
<1>12. DOMAIN shares \subseteq DOMAIN shares' \cup {move.from}
        /\ DOMAIN shares' \subseteq DOMAIN shares \cup {move.to} /\ move.to \in DOMAIN shares'
  BY <1>7 DEF stays
<1>13. ASSUME NEW unit \in Units
       PROVE  Held(shares', unit) = Held(shares, unit)
  <2> DEFINE before == [p \in DOMAIN shares |-> shares[p][unit]]
             after  == [p \in DOMAIN shares' |-> shares'[p][unit]]
  <2>1. IsRegister(before) /\ IsRegister(after)
    BY <1>1, <1>3, <1>11, <1>12, UnitIsRegister
  <2>2. move[unit] \in Nat
    BY <1>2 DEF Units
  <2>3. left[unit] = before[move.from] - move[unit]
    BY <1>3, <1>4 DEF left, Less, Units
  <2>4. left = Nothing => before[move.from] = move[unit]
    <3>1. left = Nothing => left[unit] = 0
      BY DEF Nothing, Units
    <3>2. before[move.from] \in Nat
      BY <1>3, <2>1 DEF IsRegister
    <3> QED
      BY <2>2, <2>3, <3>1, <3>2
  <2>5. after[move.to] = (IF move.to \in DOMAIN before THEN before[move.to] ELSE 0) + move[unit]
    BY <1>7, <1>12 DEF More, had, Nothing, Units
  <2>6. IF move.from \in DOMAIN after THEN after[move.from] = before[move.from] - move[unit]
                                      ELSE before[move.from] = move[unit]
    BY <1>7, <1>9, <2>3, <2>4
  <2>7. DOMAIN after \ {move.from} = (DOMAIN before \cup {move.to}) \ {move.from}
    BY <1>12
  <2>8. \A p \in DOMAIN before \ {move.from, move.to} : after[p] = before[p]
    BY <1>7, <1>12
  <2>9. move.from \in DOMAIN before /\ move.to \in DOMAIN after
    BY <1>3, <1>12
  <2>10. Held(shares', unit) = Total(after) /\ Held(shares, unit) = Total(before)
    BY DEF Held
  <2> HIDE DEF before, after, move
  <2>11. move.from # move.to
    BY <1>2
  <2>12. Total(after) = Total(before)
    BY <2>1, <2>2, <2>5, <2>6, <2>7, <2>8, <2>9, <2>11, PassingOnKeepsTotal
  <2> QED
    BY <2>10, <2>12
<1>14. RegisterBalances'
  BY <1>1, <1>13 DEF RegisterBalances, Units, IsFounded, IsLlc, core
<1> QED
  BY <1>11, <1>14

LEMMA FoundedBalances ==
  ASSUME PayloadsAssumption, RecordsInv, RegistrationNext, ~IsFounded, IsFounded', Found
  PROVE  IsShareRegister(shares)' /\ RegisterBalances'
<1> DEFINE form == application.payload
<1>1. /\ form \in Payloads \cup {NoForm} /\ shares' = form.shares
      /\ IsJudged' => ValidLlc(form)
  BY FoundedForm DEF Found
<1>2. IsShareRegister(form.shares)
  <2>1. CASE form \in Payloads
    BY <2>1 DEF PayloadsAssumption, IsShareRegister
  <2>2. CASE form = NoForm
    <3>1. IsFiniteSet({})
      BY FS_EmptySet
    <3> QED
      BY <2>2, <3>1 DEF NoForm, IsShareRegister
  <2> QED
    BY <1>1, <2>1, <2>2
<1> HIDE DEF form
<1>3. IsJudged' => Held(form.shares, "ratio") = Whole /\ Held(form.shares, "votes") = Whole
  BY <1>1 DEF ValidLlc
<1> QED
  BY <1>1, <1>2, <1>3 DEF RegisterBalances, IsShareRegister, IsJudged

\* What an action does to the register and to the number of changes.
LEMMA RegisterSteps ==
  ASSUME PayloadsAssumption, RecordsInv, Next
  PROVE  /\ \/ UNCHANGED shares /\ (IsJudged' => IsJudged)
            \/ RegistrationNext /\ ~IsFounded /\ IsFounded' /\ Found
            \/ /\ UNCHANGED core
               /\ \E c \in DOMAIN changes : /\ changes[c].kind = "equity_transfer"
                                             /\ PersistTransfer(changes[c].move)
         /\ \/ UNCHANGED changes
            \/ \E c \in DOMAIN changes : \E new : changes' = [changes EXCEPT ![c] = new]
            \/ Len(changes) < MaxChanges /\ \E new : changes' = Append(changes, new)
<1>0. UNCHANGED core => (IsJudged' => IsJudged)
  BY DEF core, IsJudged, IsFounded, IsLlc
<1>1. CASE RegistrationNext /\ UNCHANGED changes
  <2>1. /\ UNCHANGED <<shares, posts>> \/ (~IsFounded /\ IsFounded' /\ Found)
        /\ IsJudged' /\ IsFounded => IsJudged
    BY <1>1, RegistrationFacts
  <2>2. ~IsFounded /\ IsFounded' => Found
    BY <1>1 DEF RegistrationNext, CreateApplication, UpdateApplication, Resubmit, Withdraw,
       Decide, Review, Administer, IsFounded, Approve, CreateMissingCompany, NotFounded
  <2> QED
    BY <1>1, <2>1, <2>2 DEF IsJudged
<1>2. ASSUME NEW c \in DOMAIN changes, ApproveChange(c)
      PROVE  /\ UNCHANGED shares \/ (changes[c].kind = "equity_transfer"
                                        /\ PersistTransfer(changes[c].move))
             /\ \E new : changes' = [changes EXCEPT ![c] = new]
  BY <1>2 DEF ApproveChange, Persist, Interrupted, Replace
<1>3. ASSUME NEW c \in DOMAIN changes,
             \/ \E user \in Users, vote \in {"APPROVED", "REJECTED"} :
                  DecideChange(c, user, vote)
             \/ WithdrawChange(c)
             \/ RouteToReview(c) \/ RejectChange(c)
      PROVE  UNCHANGED shares /\ \E new : changes' = [changes EXCEPT ![c] = new]
  BY <1>3 DEF DecideChange, WithdrawChange, RouteToReview, RejectChange, registrationVars
<1>4. ASSUME NEW kind, NEW terms, NEW move, NEW asked, Submit(kind, terms, move, asked)
      PROVE  UNCHANGED shares /\ Len(changes) < MaxChanges
               /\ \E new : changes' = Append(changes, new)
  BY <1>4 DEF Submit, registrationVars
<1>5. CASE ChangeNext
  BY <1>0, <1>2, <1>3, <1>4, <1>5, ChangeKeepsCore DEF ChangeNext, SubmitTransfer,
     SubmitOfficerChange, SubmitManagementChange
<1> QED
  BY <1>1, <1>5 DEF Next

LEMMA BalanceStep ==
  ASSUME PayloadsAssumption, RecordsAssumption, WholeAssumption, BalanceInv, [Next]_recordVars
  PROVE  BalanceInv'
<1>0. RecordsInv /\ RecordsInv' /\ changes \in Seq(Change)
  BY RecordsStep DEF BalanceInv, RecordsInv, RecordsTypeOK
<1>1. \/ UNCHANGED shares /\ (IsJudged' => IsJudged)
      \/ RegistrationNext /\ ~IsFounded /\ IsFounded' /\ Found
      \/ /\ UNCHANGED core
         /\ \E c \in DOMAIN changes : /\ changes[c].kind = "equity_transfer"
                                       /\ PersistTransfer(changes[c].move)
  <2>1. UNCHANGED recordVars => UNCHANGED shares /\ (IsJudged' => IsJudged)
    BY DEF recordVars, registrationVars, IsJudged, IsFounded, IsLlc
  <2> QED
    BY <1>0, <2>1, RegisterSteps
<1>2. IsShareRegister(shares)' /\ RegisterBalances'
  <2>1. CASE UNCHANGED shares /\ (IsJudged' => IsJudged)
    BY <2>1 DEF BalanceInv, IsShareRegister, RegisterBalances, IsJudged
  <2> QED
    BY <1>0, <1>1, <2>1, FoundedBalances, TransferBalances
<1>3. Len(changes') <= MaxChanges
  <2>1. CASE UNCHANGED changes
    BY <2>1 DEF BalanceInv
  <2>2. CASE \E c \in DOMAIN changes : \E new : changes' = [changes EXCEPT ![c] = new]
    <3>1. DOMAIN changes' = DOMAIN changes /\ changes' \in Seq(Change)
      BY <1>0, <2>2 DEF RecordsInv, RecordsTypeOK
    <3>2. Len(changes') = Len(changes)
      BY <1>0, <3>1
    <3> QED
      BY <3>2 DEF BalanceInv
  <2>3. CASE Len(changes) < MaxChanges /\ \E new : changes' = Append(changes, new)
    <3>1. PICK new : changes' = Append(changes, new)
      BY <2>3
    <3>2. Len(changes') = Len(changes) + 1
      BY <1>0, <3>1
    <3> QED
      BY <1>0, <2>3, <3>2 DEF RecordsAssumption
  <2> QED
    BY <1>0, <2>1, <2>2, <2>3, RegisterSteps DEF recordVars, registrationVars
<1> QED
  BY <1>0, <1>2, <1>3 DEF BalanceInv

LEMMA BalanceStarts ==
  ASSUME RecordsAssumption, Init
  PROVE  BalanceInv
<1>1. DOMAIN shares = {} /\ shares = [p \in DOMAIN shares |-> shares[p]] /\ changes = << >>
  BY DEF Init, RegistrationInit, NoForm
<1>2. IsShareRegister(shares)
  BY <1>1, FS_EmptySet DEF IsShareRegister
<1>3. ~IsFounded
  BY DEF Init, RegistrationInit, IsFounded
<1> QED
  BY <1>1, <1>2, <1>3, RecordsStart DEF BalanceInv, RegisterBalances, RecordsAssumption

LEMMA BalanceHolds ==
  Spec => []BalanceInv
<1> USE PayloadsAssumption, RecordsAssumption, WholeAssumption
<1>1. Init => BalanceInv
  BY BalanceStarts
<1>2. BalanceInv /\ [Next]_recordVars => BalanceInv'
  BY BalanceStep
<1> QED
  BY <1>1, <1>2, PTL DEF Spec

\* However shares are split, moved, given up and taken over, and wherever an
\* approval is cut off, the holdings and the votes in a limited liability company
\* each add up to 100%, torn ballots apart. In a company of another type they are
\* what a form nobody validated says, and no transfer mends them.
THEOREM RegisterAlwaysBalances ==
  Spec => []RegisterBalances
<1>1. BalanceInv => RegisterBalances
  BY DEF BalanceInv
<1> QED
  BY <1>1, BalanceHolds, PTL

\* Every row keeps its type, of whatever type the company and however its ballot
\* was torn: in particular no transfer makes a holding negative.
THEOREM RecordsTypeCorrect ==
  Spec => []TypeOK
<1>1. ASSUME BalanceInv PROVE TypeOK
  <2>1. /\ RegistrationTypeOK /\ DOMAIN shares \subseteq Parties
        /\ changes \in Seq(Change) /\ Len(changes) <= MaxChanges
        /\ IsShareRegister(shares)
    BY <1>1 DEF BalanceInv, RecordsInv, RegistrationInv, RecordsTypeOK
  <2>2. \A p \in DOMAIN shares : shares[p].ratio \in Nat /\ shares[p].votes \in Nat
    BY <2>1 DEF IsShareRegister
  <2>3. ASSUME NEW c \in DOMAIN changes PROVE IsChange(changes[c])
    <3>1. changes[c] \in Change /\ Sound(changes[c], posts)
      BY <1>1, ChangeFacts DEF BalanceInv
    <3>2. changes[c].posts \in Boards \cup Teams \cup {{}}
      BY <3>1 DEF Sound, Change, Kinds
    <3>3. IsBallot(changes[c].ballot, Slots)
      BY <3>1 DEF Change, Ballots, IsBallot
    <3> QED
      BY <3>1, <3>2, <3>3 DEF Change, Kinds, IsChange
  <2>4. DOMAIN changes = 1 .. Len(changes)
    BY <2>1
  <2> QED
    BY <2>1, <2>2, <2>3, <2>4 DEF TypeOK
<1> QED
  BY <1>1, BalanceHolds, PTL
=============================================================================
