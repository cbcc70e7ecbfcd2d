------------------------------ MODULE UserAuth ------------------------------
(***************************************************************************)
(* Users and their logins (src/backend/src/user/user.service.ts and        *)
(* src/backend/src/auth/): createUser, updateUser, login and logout, over  *)
(* the user table and the tokens that clients hold.                        *)
(*                                                                         *)
(* Proc is the set of calls that can be in flight, of GraphQL clients and  *)
(* of the script that makes the first user.  Each awaited query or bcrypt  *)
(* call is one action with the code from its reply to the next await;      *)
(* call[p].at names what p waits for.  Nothing groups the queries of one   *)
(* call.  No validation pipe is installed for these resolvers: the inputs  *)
(* are what the GraphQL schema lets through.                               *)
(***************************************************************************)
EXTENDS Naturals, FiniteSets

CONSTANTS
    Proc,            \* concurrent calls
    Creates,         \* inputs of createUser: username, email, password, role
    Updates,         \* a username and an UpdateUserInput: password, role
    Logins,          \* inputs of login: email, password
    Empty,           \* the password ''
    Absent,          \* a field that is left out
    Null,            \* a field that is null, or a role the enum does not have
    MaxUsers         \* bound: the number of users

ASSUME InputAssumption ==
    /\ MaxUsers \in Nat /\ IsFiniteSet(Proc)
    /\ \A c \in Creates : c.password \notin {Absent, Null} /\ c.op = "create"
    /\ \A u \in Updates : u.op = "update"
    /\ \A l \in Logins : l.op = "login"

VARIABLES
    users,           \* the table: id -> row
    tokens,          \* tokens that were issued and have not expired
    call,            \* the state of each call
    intended,        \* ghost: the rows as if each call had acted at once
    raced            \* ghost: users whose row an update wrote back stale

vars == <<users, tokens, call, intended, raced>>

\* at, req: what the call waits for, and its input; user: the row it read;
\* hash: the password it hashed; reply: how the last one ended.  Two ghosts:
\* stale: the row was saved by another call since; ever: the password given was
\* the user's at some moment of the call.
IdleCall(reply) ==
    [at |-> "idle", req |-> Absent, user |-> Absent, hash |-> Absent,
     reply |-> reply, stale |-> FALSE, ever |-> FALSE]

\* bcrypt
Hash(password) == <<"bcrypt", password>>
compare(password, stored) == stored = Hash(password)

UserIds == DOMAIN users
ByName(username) == {i \in UserIds : users[i].username = username}
ByEmail(email)   == {i \in UserIds : users[i].email = email}
NextId == Cardinality(UserIds) + 1

End(p, reply) == call' = [call EXCEPT ![p] = IdleCall(reply)]
Goto(p, at)   == call' = [call EXCEPT ![p].at = at]

db == <<users, intended, raced>>

\* p has saved the row of user i, and its call ends.
EndSaved(p, i, row, reply) ==
    LET stale(c) == c.at \in {"updateHash", "updateSave"} /\ c.user.id = i
        right(c) == /\ c.at \in {"loginFind", "loginCompare"} /\ c.req.email = row.email
                    /\ compare(c.req.password, row.password)
    IN  call' = [q \in Proc |-> IF q = p THEN IdleCall(reply)
                                ELSE [call[q] EXCEPT !.stale = @ \/ stale(call[q]),
                                                     !.ever = @ \/ right(call[q])]]

-----------------------------------------------------------------------------
(* Receiving a call.                                                       *)

\* Whether the password of login l is now the one of the user it names.
Matches(l) == \E i \in ByEmail(l.email) : compare(l.password, users[i].password)

FirstQuery == [create |-> "createByName", update |-> "updateFind", login |-> "loginFind"]

Receive(p, r) ==
    /\ call[p].at = "idle"
    /\ call' = [call EXCEPT ![p] = [IdleCall("none") EXCEPT
                   !.at = FirstQuery[r.op], !.req = r,
                   !.ever = r.op = "login" /\ Matches(r)]]
    /\ UNCHANGED <<users, tokens, intended, raced>>

-----------------------------------------------------------------------------
(* createUser.                                                             *)

CreateByName(p) ==
    /\ call[p].at = "createByName"
    /\ IF ByName(call[p].req.username) # {} THEN End(p, "conflict") ELSE Goto(p, "createByEmail")
    /\ UNCHANGED <<db, tokens>>

CreateByEmail(p) ==
    /\ call[p].at = "createByEmail"
    /\ IF ByEmail(call[p].req.email) # {} THEN End(p, "conflict") ELSE Goto(p, "createHash")
    /\ UNCHANGED <<db, tokens>>

\* The row to insert; the default of the parameter is for undefined only.
NewRow(p) ==
    LET r == call[p].req
    IN  [username |-> r.username, email |-> r.email, password |-> call[p].hash,
         role |-> IF r.role = Absent THEN "staff" ELSE r.role]

\* Mutant: the table has no unique columns.
Admits_Duplicates(id, row) == Null \notin {row.password, row.role}

\* The constraints of the table.
Admits(id, row) ==
    /\ Null \notin {row.password, row.role}
    /\ ByName(row.username) \subseteq {id} /\ ByEmail(row.email) \subseteq {id}

CreateSave(p) ==
    /\ call[p].at = "createSave"
    /\ NextId <= MaxUsers /\ Admits(NextId, NewRow(p))
    /\ LET grown(t) == [i \in UserIds \cup {NextId} |-> IF i = NextId THEN NewRow(p) ELSE t[i]]
       IN  users' = grown(users) /\ intended' = grown(intended)
    /\ EndSaved(p, NextId, NewRow(p), "created")
    /\ UNCHANGED <<tokens, raced>>

\* bcrypt.hash of createUser and updateUser.
HashPassword(p) ==
    /\ call[p].at \in {"createHash", "updateHash"}
    /\ call' = [call EXCEPT ![p].hash = Hash(call[p].req.password),
                            ![p].at = IF @ = "createHash" THEN "createSave" ELSE "updateSave"]
    /\ UNCHANGED <<db, tokens>>

-----------------------------------------------------------------------------
(* updateUser.                                                             *)

UpdateFind(p) ==
    /\ call[p].at = "updateFind"
    /\ \E i \in ByName(call[p].req.username) :
        call' = [call EXCEPT ![p].user = [id |-> i, row |-> users[i]],
                             ![p].at = IF call[p].req.password \in {Absent, Null, Empty}
                                       THEN "updateSave" ELSE "updateHash"]
    /\ UNCHANGED <<db, tokens>>

UpdateMissing(p) ==
    /\ call[p].at = "updateFind" /\ ByName(call[p].req.username) = {}
    /\ End(p, "missing")
    /\ UNCHANGED <<db, tokens>>

\* Mutant: the hash is not put in the place of the password.
Assigned_Plain(row, r, hash) ==
    [row EXCEPT !.password = IF r.password = Absent THEN @ ELSE r.password,
                !.role = IF r.role = Absent THEN @ ELSE r.role]

\* Object.assign(user, input): a password that is null or '' was not hashed.
Assigned(row, r, hash) ==
    [row EXCEPT !.password = IF r.password = Absent THEN @
                             ELSE IF r.password \in {Null, Empty} THEN r.password ELSE hash,
                !.role = IF r.role = Absent THEN @ ELSE r.role]

\* The same, done to a row at once.
Apply(row, r) ==
    [row EXCEPT !.password = IF r.password = Absent THEN @
                             ELSE IF r.password = Empty THEN Empty ELSE Hash(r.password),
                !.role = IF r.role = Absent THEN @ ELSE r.role]

\* save writes all columns of the row that was read.
UpdateSave(p) ==
    LET c == call[p]
        i == c.user.id
        row == Assigned(c.user.row, c.req, c.hash)
    IN  /\ c.at = "updateSave" /\ Admits(i, row)
        /\ users' = [users EXCEPT ![i] = row]
        /\ intended' = [intended EXCEPT ![i] = Apply(@, c.req)]
        /\ raced' = IF c.stale THEN raced \cup {i} ELSE raced
        /\ EndSaved(p, i, row, "updated")
        /\ UNCHANGED tokens

-----------------------------------------------------------------------------
(* login and logout.                                                       *)

LoginFind(p) ==
    /\ call[p].at = "loginFind"
    /\ IF ByEmail(call[p].req.email) = {} THEN End(p, "unauthorized")
       ELSE \E i \in ByEmail(call[p].req.email) :
              call' = [call EXCEPT ![p].user = [id |-> i, row |-> users[i]], ![p].at = "loginCompare"]
    /\ UNCHANGED <<db, tokens>>

\* Mutant: the token is issued to the email it was asked with.
Token_Email(user) == [sub |-> user.row.email, email |-> user.row.email]

Token(user) == [sub |-> user.id, email |-> user.row.email]

\* Mutant: the promise of bcrypt.compare is tested, not what it resolves to.
PasswordValid_Promise(p) == TRUE

PasswordValid(p) == compare(call[p].req.password, call[p].user.row.password)

LoginCompare(p) ==
    /\ call[p].at = "loginCompare"
    /\ IF PasswordValid(p)
       THEN /\ tokens' = tokens \cup {Token(call[p].user)}
            /\ call' = [call EXCEPT ![p] = [IdleCall("token") EXCEPT !.ever = call[p].ever]]
       ELSE End(p, "unauthorized") /\ UNCHANGED tokens
    /\ UNCHANGED db

\* logout: the guard verifies the token and starts to look for its user.  There
\* is nothing to do after that, and the token stays valid.
Logout(p, token) ==
    /\ call[p].at = "idle"
    /\ call' = [call EXCEPT ![p] = [IdleCall("none") EXCEPT !.at = "logoutFind", !.user = token]]
    /\ UNCHANGED <<db, tokens>>

LogoutFind(p) ==
    /\ call[p].at = "logoutFind"
    /\ End(p, IF call[p].user.sub \in UserIds THEN "loggedOut" ELSE "unauthorized")
    /\ UNCHANGED <<db, tokens>>

-----------------------------------------------------------------------------
\* A query fails, or the database refuses the row of createSave or updateSave.
Fail(p) == call[p].at # "idle" /\ End(p, "failed") /\ UNCHANGED <<db, tokens>>

Expire(token) == tokens' = tokens \ {token} /\ UNCHANGED <<db, call>>

\* The server stops and starts again.
Crash ==
    /\ \E p \in Proc : call[p].at # "idle"
    /\ call' = [p \in Proc |-> IdleCall("none")]
    /\ UNCHANGED <<db, tokens>>

Init ==
    /\ users = <<>> /\ tokens = {} /\ intended = <<>> /\ raced = {}
    /\ call = [p \in Proc |-> IdleCall("none")]

Step(p) ==
    \/ \E r \in Creates \cup Updates \cup Logins : Receive(p, r)
    \/ CreateByName(p) \/ CreateByEmail(p) \/ CreateSave(p) \/ HashPassword(p)
    \/ UpdateFind(p) \/ UpdateMissing(p) \/ UpdateSave(p)
    \/ LoginFind(p) \/ LoginCompare(p)
    \/ (\E token \in tokens : Logout(p, token)) \/ LogoutFind(p)
    \/ Fail(p)

Next == (\E p \in Proc : Step(p)) \/ (\E token \in tokens : Expire(token)) \/ Crash

Spec == Init /\ [][Next]_vars

-----------------------------------------------------------------------------
(* Properties.                                                             *)

Requests == Creates \cup Updates \cup Logins
Hashes   == {Hash(r.password) : r \in Creates \cup Updates}
Row      == [username : {c.username : c \in Creates}, email : {c.email : c \in Creates},
             password : Hashes \cup {Empty},
             role : {"staff"} \cup {r.role : r \in Creates \cup Updates}]
Tokens   == [sub : Nat, email : {c.email : c \in Creates}]
Calls    == [at : {"idle", "createByName", "createByEmail", "createHash", "createSave",
                   "updateFind", "updateHash", "updateSave", "loginFind", "loginCompare",
                   "logoutFind"},
             req : Requests \cup {Absent}, user : [id : Nat, row : Row] \cup Tokens \cup {Absent},
             hash : Hashes \cup {Absent}, stale : BOOLEAN, ever : BOOLEAN,
             reply : {"none", "conflict", "created", "missing", "updated", "unauthorized",
                      "token", "loggedOut", "failed"}]

\* The type invariant.  The password column holds hashes of passwords that were
\* asked for, or '', and never the password itself: Object.assign copies the
\* input with the hash in the password's place.
TypeOK ==
    /\ \E n \in 0 .. MaxUsers : UserIds = 1 .. n
    /\ users \in [UserIds -> Row] /\ DOMAIN intended = UserIds
    /\ tokens \subseteq Tokens /\ call \in [Proc -> Calls]

\* No two users share a name or an email, whatever two overlapping calls of
\* createUser find before either inserts, and a row that a client can have asked
\* for with a null or an unknown role is never stored.
UsersDistinct ==
    /\ \A i, j \in UserIds :
        users[i].username = users[j].username \/ users[i].email = users[j].email => i = j
    /\ \A i \in UserIds : Null \notin {users[i].password, users[i].role}

\* A token always leads to the user it was issued for: the guard of logout never
\* refuses one, and the email in it is that user's.
TokensResolve ==
    /\ \A t \in tokens : t.sub \in UserIds /\ users[t.sub].email = t.email
    /\ \A p \in Proc : call[p].at = "logoutFind" => call[p].user.sub \in UserIds

\* Each update of a user is in effect until the next one, as if it had acted at
\* once, unless one of them read the row before another saved it: those write
\* back columns they were not asked to change.
UpdatesStick == \A i \in UserIds \ raced : users[i] = intended[i]

\* A login succeeds only with a password that was the user's at some moment of
\* the call: with updates in between, never with one changed before it began.
LoginHonest == \A p \in Proc : call[p].reply = "token" => call[p].ever
=============================================================================
