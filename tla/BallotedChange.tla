--------------------------- MODULE BallotedChange ---------------------------
(***************************************************************************)
(* What the change applications of a company promise to its shareholders   *)
(* and to the parties an application names, without requests, workflow     *)
(* states or withdrawals: a change is applied only when its ballot allows  *)
(* it, an answer once given is never changed, and the shareholder register *)
(* changes only when a share transfer is applied.                          *)
(***************************************************************************)
EXTENDS Naturals

CONSTANTS Numbers, Kinds, Registers,
          Slots,                    \* the rows a ballot may have
          Votes,                    \* the answers, "PENDING" among them
          ConsentProgress(_, _, _)  \* the summary of a kind, ballot and register

VARIABLES kind,     \* [Numbers -> the kind of change, "none" before it is asked for]
          ballot,   \* [Numbers -> the answers given so far]
          endorsed, \* the changes that may be put before the authority
          applied,  \* [Numbers -> how often the change was applied]
          register, \* the shareholder register
          seen      \* every value the register has had

vars == <<kind, ballot, endorsed, applied, register, seen>>

NoRows == [slot \in {} |-> "PENDING"]

Init ==
  /\ kind = [a \in Numbers |-> IF a = 0 THEN "registration" ELSE "none"]
  /\ ballot = [a \in Numbers |-> NoRows]
  /\ endorsed = {}
  /\ applied = [a \in Numbers |-> 0]
  /\ register \in Registers
  /\ seen = {register}

\* The ballot was held, and it was won under a register the company has had or,
\* a share transfer apart, everybody who was asked has answered.
Allowed(a) ==
  /\ DOMAIN ballot[a] # {}
  /\ \/ \E R \in seen : ConsentProgress(kind[a], ballot[a], R) = "APPROVED"
     \/ /\ kind[a] # "equity_transfer"
        /\ \A slot \in DOMAIN ballot[a] : ballot[a][slot] # "PENDING"

Ask(a, k) ==
  /\ kind[a] = "none"
  /\ kind' = [kind EXCEPT ![a] = k]
  /\ UNCHANGED <<ballot, endorsed, applied, register, seen>>

\* Every row of a new ballot waits for its answer.
Open(a) ==
  /\ ballot[a] = NoRows /\ a \notin endorsed
  /\ DOMAIN ballot'[a] \subseteq Slots
  /\ ballot' = [ballot EXCEPT ![a] = [slot \in DOMAIN ballot'[a] |-> "PENDING"]]
  /\ UNCHANGED <<kind, endorsed, applied, register, seen>>

\* Rows that wait are answered; the change may lose its endorsement as well.
Answer(a) ==
  /\ DOMAIN ballot'[a] = DOMAIN ballot[a]
  /\ ballot'[a] \in [DOMAIN ballot[a] -> Votes]
  /\ \A slot \in DOMAIN ballot[a] :
       ballot[a][slot] # "PENDING" => ballot'[a][slot] = ballot[a][slot]
  /\ ballot' = [ballot EXCEPT ![a] = ballot'[a]]
  /\ endorsed' \in {endorsed, endorsed \ {a}}
  /\ UNCHANGED <<kind, applied, register, seen>>

Endorse(a) ==
  /\ Allowed(a)
  /\ endorsed' = endorsed \cup {a}
  /\ UNCHANGED <<kind, ballot, applied, register, seen>>

Apply(a) ==
  /\ Allowed(a)
  /\ applied' = [applied EXCEPT ![a] = @ + 1]
  /\ register' \in IF kind[a] = "equity_transfer" THEN Registers ELSE {register}
  /\ seen' = seen \cup {register'}
  /\ UNCHANGED <<kind, ballot, endorsed>>

Next == \E a \in Numbers \ {0} :
  \/ \E k \in Kinds : Ask(a, k)
  \/ Open(a)
  \/ Answer(a)
  \/ Endorse(a)
  \/ Apply(a)

Spec == Init /\ [][Next]_vars
=============================================================================
