----------------------------- MODULE MCAccounts -----------------------------
EXTENDS Accounts, TLC

(* Requests are alike.                                                     *)
AccountsSymmetry == Permutations(Requests)

(* An agent's credential is minted beside the first session, and the more  *)
(* sessions there are, the fewer events.                                   *)
Focus ==
  /\ Len(tokens) > 1 => \A a \in Agents : agents[a] = "none"
  /\ Len(tokens) + Len(events) <= 4
=============================================================================
