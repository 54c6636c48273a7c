----------------------------- MODULE MCAccounts -----------------------------
(* Small instances of Accounts for TLC. *)
EXTENDS Accounts, TLC

CONSTANTS Passwords

Credential(email, password) == [email |-> email, password |-> password]

\* Two who want one address, and somebody else.
Rivals == {Credential("ann@x", p) : p \in Passwords} \cup {Credential("bob@x", "bob's")}

Symmetric ==
  Permutations(Goroutines) \cup Permutations(Names) \cup Permutations(Passwords)

=============================================================================
