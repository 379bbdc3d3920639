---------------------------- MODULE MCAccountsV1 ----------------------------
(* TLC instance of AccountsV1: two names of each kind, or one and logouts. *)
EXTENDS AccountsV1, TLC

\* Names and requests are interchangeable.
Symmetry == Permutations(Requests) \cup Permutations(IdNumbers) \cup Permutations(Usernames)
            \cup Permutations(Subs) \cup Permutations(Emails)

\* The names an account or a request under way has.
At(steps) == {q \in Requests : op[q].step \in steps}
Used == Stored \cup {account[p].email : p \in Stored} \cup {account[p].sub : p \in Stored}
        \cup {op[q].name : q \in At({"insert"})} \cup {op[q].row.email : q \in At({"insert"})}
        \cup {op[q].sub : q \in At({"match", "link", "answer"})}
        \cup {op[q].email : q \in At({"match"})}

NobodyLeaves == At({"leave"}) = {} /\ \A p \in Principals : version[p] = 0
OneOfEach ==
  \A kind \in {IdNumbers, Usernames, Subs, Emails} : Cardinality(kind \cap Used) <= 1

MCSpec == Init /\ [][Next /\ (NobodyLeaves \/ OneOfEach)']_vars
=============================================================================
