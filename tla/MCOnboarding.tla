---------------------------- MODULE MCOnboarding ----------------------------
(* Values of the constants of Onboarding for model checking: two terminals,  *)
(* an account with one site or two, one poll in each round.                  *)
EXTENDS Onboarding
MCTerminals == 1 .. 2
MCAccounts == {{1}, {1, 2}}
MCPolls == [first |-> 1, second |-> 2]
=============================================================================
