----------------------------- MODULE MCUserAuth -----------------------------
(***************************************************************************)
(* Instances of UserAuth for TLC.                                          *)
(***************************************************************************)
EXTENDS UserAuth, TLC

CONSTANTS A, B, X, Y      \* two emails and two passwords

Create(username, email, password, role) ==
    [op |-> "create", username |-> username, email |-> email, password |-> password, role |-> role]
Update(username, password, role) ==
    [op |-> "update", username |-> username, password |-> password, role |-> role]
Login(email, password) == [op |-> "login", email |-> email, password |-> password]

\* The script's user, the same name and the same email again, and another user.
MCCreates ==
    {Create("admin", A, X, "admin"), Create("admin", B, X, Absent),
     Create("bob", A, X, Null), Create("bob", B, X, Absent)}
MCUpdates ==
    {Update("admin", Y, Absent), Update("admin", Absent, "staff"), Update("bob", Empty, Absent)}
MCLogins == {Login(A, X), Login(A, Y)}

Symmetry == Permutations(Proc)
=============================================================================
