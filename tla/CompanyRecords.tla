--------------------------- MODULE CompanyRecords ---------------------------
(***************************************************************************)
(* What becomes of the records of a company after it is founded: who holds *)
(* how much of it (the shareholder rows) and who holds which post (the     *)
(* officer rows), as share transfers, officer changes and management       *)
(* changes are applied for, voted on, approved and persisted.              *)
(* company-application.service.ts (createEquityTransferApplication,        *)
(* createOfficerChangeApplication, createManagementChangeApplication),     *)
(* company-permission.service.ts (assertCanInitiateEquityTransfer) and     *)
(* company-change-persistence.service.ts.                                  *)
(*                                                                         *)
(* CompanyApplications tells how the requests of such changes overlap, and *)
(* leaves open what they do to the records; here they follow each other,   *)
(* and what they do is told. An approval is the exception: it may be cut   *)
(* off between its writes.                                                 *)
(***************************************************************************)
EXTENDS CompanyRegistration, Sequences

CONSTANTS
  MaxChanges,  \* bound: how many changes are applied for
  Boards,      \* the directors and supervisors that may be applied for
  Teams,       \* the managers that may be applied for
  Persons      \* the parties that are users and can hold posts

ASSUME RecordsAssumption ==
  /\ MaxChanges \in Nat
  /\ Persons \subseteq Parties
  /\ \A board \in Boards : board \subseteq OfficerRoles \X Persons
  /\ \A team \in Teams :
       /\ team \subseteq ManagerRoles \X Persons
       /\ \A a, b \in team : a[1] = b[1] => a = b

VARIABLE changes  \* the change applications, in the order of submission

recordVars == <<registrationVars, changes>>

-----------------------------------------------------------------------------
(***************************************************************************)
(* The application: assert..., the checks of create...Application and the  *)
(* ballot of init...Consents. What is applied for is the posts a change    *)
(* leaves in the roles it is about, or the shares it moves.                *)
(***************************************************************************)
NoMove == [from |-> "nobody", to |-> "nobody", ratio |-> 0, votes |-> 0]

PostsOf(roles) == {slot \in posts : slot[1] \in roles}

\* Only forms of other types, which nobody validates, name officers and no
\* shareholder: the changes of such a company are not followed.
Submit(kind, terms, move, asked) ==
  /\ company \in {"ACTIVE", "SUSPENDED"} /\ DOMAIN shares # {}
  /\ Len(changes) < MaxChanges
  /\ ~\E c \in DOMAIN changes :
        changes[c].kind = kind /\ changes[c].status \in OpenStatus
  /\ changes' = Append(changes,
       [kind |-> kind, posts |-> terms, move |-> move,
        ballot |-> [slot \in asked |-> "PENDING"], consent |-> "PENDING",
        status |-> "SUBMITTED", state |-> "submitted"])
  /\ UNCHANGED registrationVars

SubmitTransfer(from, to, ratio, votes) ==
  /\ from \in DOMAIN shares /\ from # to
  /\ ratio \in 1 .. shares[from].ratio
  /\ votes \in 1 .. shares[from].votes
  /\ Submit("equity_transfer", {},
            [from |-> from, to |-> to, ratio |-> ratio, votes |-> votes],
            {<<"TRANSFEREE", to>>})

SubmitOfficerChange_AskSeats(board) ==
  /\ BoardSize(Cardinality(Holders(board, {"DIRECTOR"})))
  /\ Holders(board, {"DIRECTOR"}) \cap Holders(board, {"SUPERVISOR"}) = {}
  /\ board # PostsOf(OfficerRoles)
  /\ Submit("officer_change", board, NoMove,
            ({"SHAREHOLDER"} \X DOMAIN shares)
              \cup {slot \in board : slot[2] \notin Holders(posts, OfficerRoles)})

SubmitOfficerChange_SizeOfBoth(board) ==
  /\ BoardSize(Cardinality(Holders(board, OfficerRoles)))
  /\ Holders(board, {"DIRECTOR"}) \cap Holders(board, {"SUPERVISOR"}) = {}
  /\ board # PostsOf(OfficerRoles)
  /\ Submit("officer_change", board, NoMove,
            ({"SHAREHOLDER"} \X DOMAIN shares) \cup (board \ posts))

\* A seat taken by somebody who does not have it yet has to be agreed to.
SubmitOfficerChange(board) ==
  /\ BoardSize(Cardinality(Holders(board, {"DIRECTOR"})))
  /\ Holders(board, {"DIRECTOR"}) \cap Holders(board, {"SUPERVISOR"}) = {}
  /\ board # PostsOf(OfficerRoles)
  /\ Submit("officer_change", board, NoMove,
            ({"SHAREHOLDER"} \X DOMAIN shares) \cup (board \ posts))

SubmitManagementChange(team) ==
  /\ \A a, b \in PostsOf(ManagerRoles) : a[1] = b[1] => a = b
  /\ team # PostsOf(ManagerRoles)
  /\ PostsOf({"DIRECTOR"}) # {}
  /\ Submit("management_change", team, NoMove,
            PostsOf({"DIRECTOR"}) \cup (team \ posts))

-----------------------------------------------------------------------------
(***************************************************************************)
(* The ballot and the review, as in CompanyApplications, in one step each. *)
(***************************************************************************)
IsOpenChange(c) == changes[c].status \in OpenStatus

VotingRights == [p \in DOMAIN shares |-> shares[p].votes]

\* A voting kind whose ballot is lost is closed, a share transfer is not.
DecideChange(c, user, vote) ==
  LET change == changes[c]
      ballot2 == Answered(change.ballot, user, vote)
      tally   == ConsentProgress(change.kind, ballot2, VotingRights)
  IN  /\ IsOpenChange(c)
      /\ Waiting(change.ballot, user) # {}
      /\ changes' = [changes EXCEPT ![c] = [@ EXCEPT
           !.ballot  = ballot2,
           !.consent = tally,
           !.status  = IF change.kind \in VotingKinds /\ tally = "REJECTED"
                       THEN "REJECTED" ELSE change.status]]
      /\ UNCHANGED registrationVars

WithdrawChange_StageAsStatus(c) ==
  /\ IsOpenChange(c)
  /\ changes' = [changes EXCEPT ![c] = [@ EXCEPT
       !.ballot  = Closed(changes[c].ballot),
       !.consent = "REJECTED",
       !.status  = "WITHDRAWN"]]
  /\ UNCHANGED registrationVars

WithdrawChange(c) ==
  /\ IsOpenChange(c)
  /\ changes' = [changes EXCEPT ![c] = [@ EXCEPT
       !.ballot  = Closed(changes[c].ballot),
       !.consent = "REJECTED",
       !.status  = "ARCHIVED"]]
  /\ UNCHANGED registrationVars

RouteToReview(c) ==
  /\ changes[c].state = "submitted" /\ changes[c].consent = "APPROVED"
  /\ changes' = [changes EXCEPT ![c] = [@ EXCEPT
       !.state = "under_review", !.status = "UNDER_REVIEW"]]
  /\ UNCHANGED registrationVars

RejectChange(c) ==
  /\ changes[c].state \in {"submitted", "under_review"}
  /\ changes' = [changes EXCEPT ![c] = [@ EXCEPT
       !.state = "rejected", !.status = "REJECTED"]]
  /\ UNCHANGED registrationVars

-----------------------------------------------------------------------------
(***************************************************************************)
(* The effect: persist...IfNeeded.                                         *)
(***************************************************************************)
HasEnough(move) ==
  /\ move.from \in DOMAIN shares
  /\ shares[move.from].ratio >= move.ratio
  /\ shares[move.from].votes >= move.votes

Less(holding, move) == [ratio |-> holding.ratio - move.ratio,
                        votes |-> holding.votes - move.votes]

More(holding, move) == [ratio |-> holding.ratio + move.ratio,
                        votes |-> holding.votes + move.votes]

Nothing == [ratio |-> 0, votes |-> 0]

\* A transferor keeps the row as long as either of the two is left.
AfterTransfer_DropOnEither(move) ==
  LET left  == Less(shares[move.from], move)
      stays == IF left.ratio = 0 \/ left.votes = 0
               THEN DOMAIN shares \ {move.from} ELSE DOMAIN shares
  IN  [p \in stays \cup {move.to} |->
         IF p = move.from THEN left
         ELSE IF p # move.to THEN shares[p]
         ELSE More(IF p \in DOMAIN shares THEN shares[p] ELSE Nothing, move)]

AfterTransfer(move) ==
  LET left  == Less(shares[move.from], move)
      stays == IF left = Nothing THEN DOMAIN shares \ {move.from} ELSE DOMAIN shares
  IN  [p \in stays \cup {move.to} |->
         IF p = move.from THEN left
         ELSE IF p # move.to THEN shares[p]
         ELSE More(IF p \in DOMAIN shares THEN shares[p] ELSE Nothing, move)]

PersistTransfer(move) ==
  HasEnough(move) /\ shares' = AfterTransfer(move) /\ UNCHANGED posts

RolesOf_KeepManager(kind) ==
  IF kind = "officer_change" THEN OfficerRoles ELSE ManagerRoles \ {"MANAGER"}

RolesOf(kind) == IF kind = "officer_change" THEN OfficerRoles ELSE ManagerRoles

Replace(change) ==
  posts' = (posts \ PostsOf(RolesOf(change.kind))) \cup change.posts
             /\ UNCHANGED shares

\* The transfer and the officers are written in a transaction. The managers are
\* not: their rows may be deleted and the new ones never created.
Persist(change) ==
  IF change.kind = "equity_transfer" THEN PersistTransfer(change.move)
                                     ELSE Replace(change)

Interrupted(change) ==
  \/ UNCHANGED <<shares, posts>>
  \/ /\ change.kind = "management_change"
     /\ posts' = posts \ PostsOf(ManagerRoles)
     /\ UNCHANGED shares

ApproveChange(c) ==
  LET change == changes[c]
  IN  /\ change.state = "under_review" /\ change.consent = "APPROVED"
      /\ \/ /\ changes' = [changes EXCEPT ![c] = [@ EXCEPT
                  !.state = "approved", !.status = "APPROVED"]]
            /\ Persist(change) \/ Interrupted(change)
         \* The server stops after performAction.
         \/ /\ changes' = [changes EXCEPT ![c] = [@ EXCEPT !.state = "approved"]]
            /\ UNCHANGED <<shares, posts>>
      /\ UNCHANGED <<application, ballot, instance, company, wanted, torn>>

ChangeNext ==
  \/ \E from, to \in Parties, ratio, votes \in 1 .. Whole :
       SubmitTransfer(from, to, ratio, votes)
  \/ \E board \in Boards : SubmitOfficerChange(board)
  \/ \E team \in Teams : SubmitManagementChange(team)
  \/ \E c \in DOMAIN changes :
       \/ \E user \in Users, vote \in {"APPROVED", "REJECTED"} :
            DecideChange(c, user, vote)
       \/ WithdrawChange(c)
       \/ RouteToReview(c)
       \/ RejectChange(c)
       \/ ApproveChange(c)

Init == RegistrationInit /\ changes = << >>
Next == (RegistrationNext /\ UNCHANGED changes) \/ ChangeNext
Spec == Init /\ [][Next]_recordVars

-----------------------------------------------------------------------------
(***************************************************************************)
(* Properties.                                                             *)
(***************************************************************************)

Moves == [from : Parties \cup {"nobody"}, to : Parties \cup {"nobody"},
          ratio : 0 .. Whole, votes : 0 .. Whole]

IsChange(change) ==
  /\ change.kind \in {"equity_transfer", "officer_change", "management_change"}
  /\ change.posts \in Boards \cup Teams \cup {{}}
  /\ change.move \in Moves
  /\ IsBallot(change.ballot, Slots)
  /\ change.consent \in Votes
  /\ change.status \in OpenStatus \cup {"APPROVED", "REJECTED", "ARCHIVED"}
  /\ change.state \in {"submitted", "under_review", "approved", "rejected"}

TypeOK ==
  /\ RegistrationTypeOK
  /\ DOMAIN shares \subseteq Parties
  /\ \A p \in DOMAIN shares : shares[p].ratio \in Nat /\ shares[p].votes \in Nat
  /\ DOMAIN changes = 1 .. Len(changes) /\ Len(changes) <= MaxChanges
  /\ \A c \in DOMAIN changes : IsChange(changes[c])

\* However shares are split, moved, given up and taken over, and wherever an
\* approval is cut off, a limited liability company is owned and voted by 100%.
\* Nobody sees to it that a company of another type is.
RegisterBalances ==
  IsFounded /\ IsLlc /\ ~torn =>
    Held(shares, "ratio") = Whole /\ Held(shares, "votes") = Whole

\* The directors of a limited liability company are one or at least three and
\* none of them supervises the board, whichever of the two was changed last: an
\* officer change names the seats it does not touch as they were when it was
\* submitted.
BoardIsLegal ==
  IsFounded /\ IsLlc /\ ~torn =>
    LET directors == Holders(posts, {"DIRECTOR"})
    IN  /\ BoardSize(Cardinality(directors))
        /\ directors \cap Holders(posts, {"SUPERVISOR"}) = {}

\* No role of the management has two holders, which would block every later
\* change (company-application.service.ts:1979), though its rows are deleted and
\* created in two calls that an approval may be cut off between.
OneManagerPerRole ==
  \A a, b \in PostsOf(ManagerRoles) : a[1] = b[1] => a = b

\* The change that an approval brings into effect in this step.
Approved(c) == changes[c].state # "approved" /\ changes'[c].state = "approved"

SaysYes(c, slot) == slot \in DOMAIN changes[c].ballot
                      /\ changes[c].ballot[slot] = "APPROVED"

\* Once a company exists nobody gets a post, or a larger share, but by a change
\* on whose ballot they agreed to it, and nobody loses shares but the one who
\* applied for the transfer. The ballot is drawn up from the posts at submission
\* and the posts are replaced at approval.
NobodyIsDrafted ==
  [][IsFounded =>
       /\ \A slot \in posts' \ posts : \E c \in DOMAIN changes :
            Approved(c) /\ SaysYes(c, slot)
       /\ \A p \in DOMAIN shares' :
            p \notin DOMAIN shares \/ shares'[p] # shares[p] =>
              \E c \in DOMAIN changes :
                /\ Approved(c)
                /\ p # changes[c].move.from => SaysYes(c, <<"TRANSFEREE", p>>)
    ]_recordVars
=============================================================================
