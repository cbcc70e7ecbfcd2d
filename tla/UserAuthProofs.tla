---------------------------- MODULE UserAuthProofs ----------------------------
(***************************************************************************)
(* Theorems about UserAuth, for every set of concurrent calls, all inputs  *)
(* and every number of users.                                              *)
(***************************************************************************)
EXTENDS UserAuth, FiniteSetTheorems, TLAPS

-----------------------------------------------------------------------------
(* The inductive invariant: what a call remembers between two awaits.      *)

\* The call holds the row of a user, whose email nobody can have changed.
HoldsUser(p) ==
    /\ call[p].user \in [id : Nat, row : Row] /\ call[p].user.id \in UserIds
    /\ call[p].user.row.email = users[call[p].user.id].email

\* What call p relies on when its query is answered.
CreateOK(p) ==
    /\ call[p].at \in {"createByName", "createByEmail", "createHash", "createSave"} =>
         call[p].req \in Creates
    /\ call[p].at = "createSave" => call[p].hash = Hash(call[p].req.password)

UpdateOK(p) ==
    /\ call[p].at \in {"updateFind", "updateHash", "updateSave"} => call[p].req \in Updates
    /\ call[p].at \in {"updateHash", "updateSave"} =>
         HoldsUser(p) /\ (~call[p].stale => call[p].user.row = users[call[p].user.id])
    /\ call[p].at = "updateHash" => call[p].req.password \notin {Absent, Null, Empty}
    /\ call[p].at = "updateSave" => \/ call[p].req.password \in {Absent, Null, Empty}
                                    \/ call[p].hash = Hash(call[p].req.password)

LoginOK(p) ==
    /\ call[p].at = "loginFind" => /\ call[p].req \in Logins
                                   /\ Matches(call[p].req) => call[p].ever
    /\ call[p].at = "loginCompare" =>
         /\ call[p].req \in Logins /\ HoldsUser(p)
         /\ call[p].user.row.email = call[p].req.email
         /\ compare(call[p].req.password, call[p].user.row.password) => call[p].ever
    /\ call[p].reply = "token" => call[p].ever

LogoutOK(p) == call[p].at = "logoutFind" => call[p].user.sub \in UserIds

CallOK(p) == CreateOK(p) /\ UpdateOK(p) /\ LoginOK(p) /\ LogoutOK(p)

TokensOK == \A t \in tokens : t.sub \in UserIds /\ users[t.sub].email = t.email

IInv ==
    /\ TypeOK /\ TokensOK /\ UsersDistinct /\ UpdatesStick
    /\ \A p \in Proc : CallOK(p)

\* Ids are drawn in order, so the next one is new.
LEMMA NextIdIsNew ==
    ASSUME TypeOK
    PROVE  /\ NextId \in Nat /\ NextId \notin UserIds /\ UserIds \subseteq Nat
           /\ UserIds \cup {NextId} = 1 .. NextId
<1>1. PICK n \in 0 .. MaxUsers : UserIds = 1 .. n
  BY DEF TypeOK
<1>2. n \in Nat
  BY <1>1, InputAssumption
<1>3. Cardinality(1 .. n) = n
  BY <1>2, FS_Interval
<1>4. NextId = n + 1
  BY <1>1, <1>3 DEF NextId
<1> QED  BY <1>1, <1>2, <1>4

-----------------------------------------------------------------------------
(* Steps that leave the table alone.                                       *)

\* A call is not disturbed by the steps of others that write no row.
LEMMA OthersKeep ==
    ASSUME NEW q \in Proc, CallOK(q), UNCHANGED users, call'[q] = call[q]
    PROVE  CallOK(q)'
BY DEF CallOK, CreateOK, UpdateOK, LoginOK, LogoutOK, HoldsUser, Matches, ByEmail, UserIds

\* Such a step of p has to be checked for p and the tokens only.
LEMMA QuietStep ==
    ASSUME IInv, NEW p \in Proc, UNCHANGED db, tokens' \subseteq Tokens, TokensOK',
           call' \in [Proc -> Calls], \A q \in Proc \ {p} : call'[q] = call[q], CallOK(p)'
    PROVE  IInv'
<1>1. ASSUME NEW q \in Proc PROVE CallOK(q)'
  BY OthersKeep, q = p \/ q \in Proc \ {p} DEF IInv, db
<1>2. TypeOK' /\ UsersDistinct' /\ UpdatesStick'
  BY DEF IInv, TypeOK, UsersDistinct, UpdatesStick, UserIds, db
<1> QED  BY <1>1, <1>2 DEF IInv

\* Without a new token the tokens need no check either.
LEMMA QuieterStep ==
    ASSUME IInv, NEW p \in Proc, UNCHANGED <<db, tokens>>,
           NEW c \in Calls, call' = [call EXCEPT ![p] = c], CallOK(p)'
    PROVE  IInv'
<1>1. call' \in [Proc -> Calls] /\ \A q \in Proc \ {p} : call'[q] = call[q]
  BY DEF IInv, TypeOK
<1>2. tokens' \subseteq Tokens /\ TokensOK' /\ UNCHANGED db
  BY DEF IInv, TypeOK, TokensOK, UserIds, db
<1> QED  BY <1>1, <1>2, QuietStep

\* A call that has ended relies on nothing.
LEMMA IdleOK ==
    ASSUME NEW p \in Proc, NEW reply, reply # "token", call'[p] = IdleCall(reply)
    PROVE  CallOK(p)'
BY DEF IdleCall, CallOK, CreateOK, UpdateOK, LoginOK, LogoutOK

Replies == {"none", "conflict", "created", "missing", "updated", "unauthorized", "token",
            "loggedOut", "failed"}

\* A call that has ended is a call.
LEMMA IdleType == \A reply \in Replies : IdleCall(reply) \in Calls
BY DEF IdleCall, Calls, Replies

\* A call that ends without writing and without a token keeps the invariant.
LEMMA QuietEnd ==
    ASSUME IInv, NEW p \in Proc, NEW reply \in Replies \ {"token"}, End(p, reply),
           UNCHANGED <<db, tokens>>
    PROVE  IInv'
<1>1. IdleCall(reply) \in Calls
  BY IdleType
<1>2. call' = [call EXCEPT ![p] = IdleCall(reply)] /\ call'[p] = IdleCall(reply)
  BY DEF End, IInv, TypeOK
<1>3. CallOK(p)'
  BY <1>2, IdleOK
<1> QED  BY <1>1, <1>2, <1>3, QuieterStep

-----------------------------------------------------------------------------
(* The steps that read.                                                    *)

\* A request that arrives reads nothing yet.
LEMMA ReceiveOK ==
    ASSUME IInv, NEW p \in Proc, NEW r \in Creates \cup Updates \cup Logins, Receive(p, r)
    PROVE  IInv'
<1>0. PICK ever \in BOOLEAN : ever <=> r.op = "login" /\ Matches(r)
  OBVIOUS
<1> DEFINE c == [IdleCall("none") EXCEPT !.at = FirstQuery[r.op], !.req = r, !.ever = ever]
<1>1. \/ r \in Creates /\ r.op = "create" /\ FirstQuery[r.op] = "createByName"
      \/ r \in Updates /\ r.op = "update" /\ FirstQuery[r.op] = "updateFind"
      \/ r \in Logins /\ r.op = "login" /\ FirstQuery[r.op] = "loginFind"
  BY InputAssumption DEF FirstQuery
<1>2. IdleCall("none") \in Calls /\ IdleCall("none").reply = "none"
  BY IdleType DEF Replies, IdleCall
<1>3. /\ c \in Calls
      /\ c.at = FirstQuery[r.op] /\ c.req = r /\ c.ever = ever /\ c.reply = "none"
  BY <1>1, <1>2 DEF Calls, Requests
<1>4. call' = [call EXCEPT ![p] = c] /\ UNCHANGED <<db, tokens>>
  BY <1>0 DEF Receive, db
<1>5. call'[p] = c
  BY <1>4 DEF IInv, TypeOK
<1>6. Matches(r)' <=> Matches(r)
  BY <1>4 DEF Matches, ByEmail, UserIds, db
<1>7. CallOK(p)'
  BY <1>0, <1>1, <1>3, <1>5, <1>6 DEF CallOK, CreateOK, UpdateOK, LoginOK, LogoutOK
<1> QED  BY <1>3, <1>4, <1>7, QuieterStep

\* The two look-ups of createUser.
LEMMA CreateFindOK ==
    ASSUME IInv, NEW p \in Proc, CreateByName(p) \/ CreateByEmail(p)
    PROVE  IInv'
<1>1. PICK at \in {"createByEmail", "createHash"} :
        /\ call[p].at \in {"createByName", "createByEmail"}
        /\ End(p, "conflict") \/ Goto(p, at)
        /\ UNCHANGED <<db, tokens>>
  BY DEF CreateByName, CreateByEmail
<1>2. CASE End(p, "conflict")
  BY <1>1, <1>2, QuietEnd DEF Replies
<1>3. CASE Goto(p, at)
  <2> DEFINE c == [call[p] EXCEPT !.at = at]
  <2>1. call[p] \in Calls /\ call' = [call EXCEPT ![p] = c] /\ call'[p] = c
    BY <1>3 DEF Goto, IInv, TypeOK
  <2>2. c \in Calls
    BY <2>1 DEF Calls
  <2>3. /\ c.at = at /\ c.req = call[p].req /\ c.reply = call[p].reply
        /\ c.ever = call[p].ever
    BY <2>1 DEF Calls
  <2>4. CallOK(p)'
    BY <1>1, <2>1, <2>3 DEF IInv, CallOK, CreateOK, UpdateOK, LoginOK, LogoutOK
  <2> QED  BY <1>1, <2>1, <2>2, <2>4, QuieterStep
<1> QED  BY <1>1, <1>2, <1>3

\* bcrypt.hash: the call goes on with the hash of its own password.
LEMMA HashPasswordOK == ASSUME IInv, NEW p \in Proc, HashPassword(p) PROVE IInv'
<1> DEFINE hash == Hash(call[p].req.password)
           at == IF call[p].at = "createHash" THEN "createSave" ELSE "updateSave"
           c == [call[p] EXCEPT !.hash = hash, !.at = at]
<1>1. call[p] \in Calls /\ CallOK(p) /\ call[p].at \in {"createHash", "updateHash"}
  BY DEF HashPassword, IInv, TypeOK
<1>2. call[p].req \in Creates \cup Updates
  BY <1>1 DEF CallOK, CreateOK, UpdateOK
<1>3. c \in Calls
  BY <1>1, <1>2 DEF Calls, Hashes
<1>4. call' = [call EXCEPT ![p] = c] /\ call'[p] = c /\ UNCHANGED <<db, tokens>>
  BY <1>1 DEF HashPassword, IInv, TypeOK, Calls
<1>5. /\ c.at = at /\ c.hash = hash /\ c.req = call[p].req /\ c.user = call[p].user
      /\ c.stale = call[p].stale /\ c.reply = call[p].reply /\ c.ever = call[p].ever
  BY <1>1 DEF Calls
<1>6. UNCHANGED users
  BY <1>4 DEF db
<1>7. CallOK(p)'
  BY <1>1, <1>4, <1>5, <1>6
  DEF CallOK, CreateOK, UpdateOK, LoginOK, LogoutOK, HoldsUser, UserIds
<1> QED  BY <1>3, <1>4, <1>7, QuieterStep

\* A row that is read goes into the call as it is in the table.
LEMMA ReadRow ==
    ASSUME IInv, NEW p \in Proc, NEW i \in UserIds,
           NEW at \in {"updateHash", "updateSave", "loginCompare"},
           call' = [call EXCEPT ![p].user = [id |-> i, row |-> users[i]], ![p].at = at],
           UNCHANGED <<db, tokens>>
    PROVE  /\ call' = [call EXCEPT ![p] = call'[p]] /\ call'[p] \in Calls
           /\ call'[p].at = at /\ call'[p].user = [id |-> i, row |-> users[i]]
           /\ call'[p].req = call[p].req /\ call'[p].reply = call[p].reply
           /\ call'[p].stale = call[p].stale /\ call'[p].ever = call[p].ever
           /\ HoldsUser(p)'
<1> DEFINE user == [id |-> i, row |-> users[i]]
           c == [call[p] EXCEPT !.user = user, !.at = at]
<1>1. call[p] \in Calls /\ i \in Nat /\ users[i] \in Row
  BY NextIdIsNew DEF IInv, TypeOK
<1>2. user \in [id : Nat, row : Row] /\ user.id = i /\ user.row = users[i]
  BY <1>1
<1>3. c \in Calls
  BY <1>1, <1>2 DEF Calls
<1>4. /\ c.at = at /\ c.user = user /\ c.req = call[p].req /\ c.reply = call[p].reply
      /\ c.stale = call[p].stale /\ c.ever = call[p].ever
  BY <1>1 DEF Calls
<1>5. call'[p] = c /\ call' = [call EXCEPT ![p] = c]
  BY <1>1 DEF IInv, TypeOK, Calls
<1>6. HoldsUser(p)'
  <2>1. /\ call'[p].user \in [id : Nat, row : Row]
        /\ call'[p].user.id = i /\ call'[p].user.row = users[i]
    BY <1>2, <1>4, <1>5
  <2> QED  BY <2>1 DEF HoldsUser, UserIds, db
<1> QED  BY <1>3, <1>4, <1>5, <1>6

\* The user an update is about exists, or the call ends.
LEMMA UpdateFindOK == ASSUME IInv, NEW p \in Proc, UpdateFind(p) PROVE IInv'
<1>1. PICK i \in UserIds, at \in {"updateHash", "updateSave"} :
        /\ call' = [call EXCEPT ![p].user = [id |-> i, row |-> users[i]], ![p].at = at]
        /\ at = "updateHash" <=> call[p].req.password \notin {Absent, Null, Empty}
  BY DEF UpdateFind, ByName
<1>2. UNCHANGED <<db, tokens>> /\ UNCHANGED users /\ call[p].at = "updateFind"
  BY DEF UpdateFind, db
<1>3. /\ call' = [call EXCEPT ![p] = call'[p]] /\ call'[p] \in Calls
      /\ call'[p].at = at /\ call'[p].user = [id |-> i, row |-> users[i]]
      /\ call'[p].req = call[p].req /\ call'[p].reply = call[p].reply
      /\ call'[p].ever = call[p].ever /\ HoldsUser(p)'
  BY <1>1, <1>2, ReadRow
<1>4. CallOK(p)'
  BY <1>1, <1>2, <1>3 DEF IInv, CallOK, CreateOK, UpdateOK, LoginOK, LogoutOK
<1> QED  BY <1>2, <1>3, <1>4, QuieterStep

\* A login reads the user's row, or the call ends.
LEMMA LoginFindOK == ASSUME IInv, NEW p \in Proc, LoginFind(p) PROVE IInv'
<1>1. call[p].at = "loginFind" /\ UNCHANGED <<db, tokens>> /\ UNCHANGED users
  BY DEF LoginFind, db
<1>2. CASE End(p, "unauthorized")
  BY <1>1, <1>2, QuietEnd DEF Replies
<1>3. ASSUME NEW i \in ByEmail(call[p].req.email),
             call' = [call EXCEPT ![p].user = [id |-> i, row |-> users[i]], ![p].at = "loginCompare"]
      PROVE  IInv'
  <2>1. i \in UserIds /\ users[i].email = call[p].req.email
    BY DEF ByEmail
  <2>2. /\ call' = [call EXCEPT ![p] = call'[p]] /\ call'[p] \in Calls
        /\ call'[p].at = "loginCompare" /\ call'[p].user = [id |-> i, row |-> users[i]]
        /\ call'[p].req = call[p].req /\ call'[p].reply = call[p].reply
        /\ call'[p].ever = call[p].ever /\ HoldsUser(p)'
    BY <1>1, <1>3, <2>1, ReadRow
  <2>3. call[p].req \in Logins /\ (compare(call[p].req.password, users[i].password) => call[p].ever)
    BY <1>1 DEF IInv, CallOK, LoginOK, Matches
  <2>4. CallOK(p)'
    BY <1>1, <2>1, <2>2, <2>3 DEF IInv, CallOK, CreateOK, UpdateOK, LoginOK, LogoutOK, compare
  <2> QED  BY <1>1, <2>2, <2>4, QuieterStep
<1> QED  BY <1>2, <1>3 DEF LoginFind

\* A token is issued for a user of the table, under the user's own email.
LEMMA LoginCompareOK == ASSUME IInv, NEW p \in Proc, LoginCompare(p) PROVE IInv'
<1>1. /\ call[p].at = "loginCompare" /\ CallOK(p) /\ HoldsUser(p) /\ UNCHANGED db /\ UNCHANGED users
      /\ call[p] \in Calls
  BY DEF LoginCompare, IInv, TypeOK, CallOK, LoginOK, db
<1>2. CASE ~PasswordValid(p)
  BY <1>1, <1>2, QuietEnd DEF LoginCompare, Replies
<1>3. CASE PasswordValid(p)
  <2> DEFINE c == [IdleCall("token") EXCEPT !.ever = call[p].ever]
             user == call[p].user
  <2>1. call[p].ever /\ call[p].ever \in BOOLEAN
    BY <1>1, <1>3 DEF CallOK, LoginOK, PasswordValid, Calls
  <2>2. IdleCall("token") \in Calls /\ IdleCall("token").reply = "token" /\ IdleCall("token").at = "idle"
    BY IdleType DEF Replies, IdleCall
  <2>3. c \in Calls /\ c.ever = call[p].ever /\ c.at = "idle"
    BY <2>1, <2>2 DEF Calls
  <2>4. call' = [call EXCEPT ![p] = c] /\ tokens' = tokens \cup {Token(user)}
    BY <1>3 DEF LoginCompare
  <2>5. call'[p] = c /\ call' \in [Proc -> Calls] /\ \A q \in Proc \ {p} : call'[q] = call[q]
    BY <2>3, <2>4 DEF IInv, TypeOK
  <2>6. CallOK(p)'
    BY <2>1, <2>3, <2>5 DEF CallOK, CreateOK, UpdateOK, LoginOK, LogoutOK
  <2>7. /\ user.id \in UserIds /\ user.id \in Nat
        /\ users[user.id].email = user.row.email /\ user.row.email \in {d.email : d \in Creates}
    BY <1>1 DEF HoldsUser, Row
  <2>8. Token(user) \in Tokens /\ Token(user).sub = user.id /\ Token(user).email = user.row.email
    BY <2>7 DEF Token, Tokens
  <2>9. tokens' \subseteq Tokens /\ TokensOK'
    BY <1>1, <2>4, <2>7, <2>8 DEF IInv, TypeOK, TokensOK, UserIds
  <2> QED  BY <1>1, <2>5, <2>6, <2>9, QuietStep
<1> QED  BY <1>2, <1>3

\* A logout starts with a token in hand.
LEMMA LogoutStartOK ==
    ASSUME IInv, NEW p \in Proc, NEW token \in tokens, Logout(p, token)
    PROVE  IInv'
<1> DEFINE c == [IdleCall("none") EXCEPT !.at = "logoutFind", !.user = token]
<1>1. token \in Tokens /\ token.sub \in UserIds
  BY DEF IInv, TypeOK, TokensOK
<1>2. IdleCall("none") \in Calls /\ IdleCall("none").reply = "none"
  BY IdleType DEF Replies, IdleCall
<1>3. c \in Calls /\ c.at = "logoutFind" /\ c.user = token /\ c.reply = "none"
  BY <1>1, <1>2 DEF Calls
<1>4. call' = [call EXCEPT ![p] = c] /\ call'[p] = c /\ UNCHANGED <<db, tokens>> /\ UNCHANGED users
  BY DEF Logout, db, IInv, TypeOK
<1>5. CallOK(p)'
  BY <1>1, <1>3, <1>4 DEF CallOK, CreateOK, UpdateOK, LoginOK, LogoutOK, UserIds
<1> QED  BY <1>3, <1>4, <1>5, QuieterStep

\* The calls that end here write nothing.
LEMMA EndOK ==
    ASSUME IInv, NEW p \in Proc, UpdateMissing(p) \/ LogoutFind(p) \/ Fail(p)
    PROVE  IInv'
<1>1. /\ UNCHANGED <<db, tokens>>
      /\ \E reply \in {"missing", "loggedOut", "unauthorized", "failed"} : End(p, reply)
  BY DEF UpdateMissing, LogoutFind, Fail
<1> QED  BY <1>1, QuietEnd DEF Replies

\* A token that expires is one token less.
LEMMA ExpireOK == ASSUME IInv, NEW token \in tokens, Expire(token) PROVE IInv'
<1>1. tokens' \subseteq tokens /\ UNCHANGED users /\ UNCHANGED <<intended, raced, call>>
  BY DEF Expire, db
<1>2. \A p \in Proc : CallOK(p)'
  BY <1>1, OthersKeep DEF IInv
<1>3. TypeOK' /\ TokensOK' /\ UsersDistinct' /\ UpdatesStick'
  BY <1>1 DEF IInv, TypeOK, TokensOK, UsersDistinct, UpdatesStick, UserIds
<1> QED  BY <1>2, <1>3 DEF IInv

\* A crash ends every call and leaves the table and the tokens.
LEMMA CrashOK == ASSUME IInv, Crash PROVE IInv'
<1>1. call' = [p \in Proc |-> IdleCall("none")] /\ UNCHANGED <<users, intended, raced, tokens>>
  BY DEF Crash, db
<1>2. call' \in [Proc -> Calls]
  BY <1>1, IdleType DEF Replies
<1>3. \A p \in Proc : CallOK(p)'
  BY <1>1, IdleOK
<1>4. TypeOK' /\ TokensOK' /\ UsersDistinct' /\ UpdatesStick'
  BY <1>1, <1>2 DEF IInv, TypeOK, TokensOK, UsersDistinct, UpdatesStick, UserIds
<1> QED  BY <1>3, <1>4 DEF IInv

-----------------------------------------------------------------------------
(* The steps that save a row.                                              *)

\* The step writes row as the row of user i and keeps the email of i.
Saves(i, row) ==
    /\ UserIds' = UserIds \cup {i} /\ users'[i] = row
    /\ \A j \in UserIds : j # i => users'[j] = users[j]
    /\ i \in UserIds => users[i].email = row.email

\* What EndSaved does to the calls of others.
LEMMA EndSavedMarks ==
    ASSUME IInv, NEW p \in Proc, NEW i, NEW row, NEW reply, EndSaved(p, i, row, reply),
           NEW q \in Proc, q # p
    PROVE  /\ call'[q] \in Calls
           /\ call'[q].at = call[q].at /\ call'[q].req = call[q].req
           /\ call'[q].user = call[q].user /\ call'[q].hash = call[q].hash
           /\ call'[q].reply = call[q].reply
           /\ call[q].stale => call'[q].stale
           /\ call[q].ever => call'[q].ever
           /\ call[q].at \in {"updateHash", "updateSave"} /\ call[q].user.id = i => call'[q].stale
           /\ /\ call[q].at = "loginFind" /\ call[q].req.email = row.email
              /\ compare(call[q].req.password, row.password)
              => call'[q].ever
<1>1. call[q] \in Calls /\ call[q].stale \in BOOLEAN /\ call[q].ever \in BOOLEAN
  BY DEF IInv, TypeOK, Calls
<1>2. PICK stale \in BOOLEAN, ever \in BOOLEAN :
        /\ call'[q] = [call[q] EXCEPT !.stale = stale, !.ever = ever]
        /\ stale <=> \/ call[q].stale
                     \/ call[q].at \in {"updateHash", "updateSave"} /\ call[q].user.id = i
        /\ ever <=> \/ call[q].ever
                    \/ /\ call[q].at \in {"loginFind", "loginCompare"} /\ call[q].req.email = row.email
                       /\ compare(call[q].req.password, row.password)
  BY <1>1 DEF EndSaved
<1>3. call'[q] \in Calls /\ call'[q].stale = stale /\ call'[q].ever = ever
  BY <1>1, <1>2 DEF Calls
<1>4. /\ call'[q].at = call[q].at /\ call'[q].req = call[q].req
      /\ call'[q].user = call[q].user /\ call'[q].hash = call[q].hash
      /\ call'[q].reply = call[q].reply
  BY <1>1, <1>2 DEF Calls
<1> QED  BY <1>2, <1>3, <1>4

\* Whatever another call has read, its ghosts tell whether it is still right.
LEMMA OthersAfterSave ==
    ASSUME IInv, NEW p \in Proc, NEW i, NEW row, NEW reply, EndSaved(p, i, row, reply),
           Saves(i, row), NEW q \in Proc, q # p
    PROVE  CallOK(q)'
<1> DEFINE c == call[q]
<1>1. CallOK(q)
  BY DEF IInv
<1>2. /\ call'[q].at = c.at /\ call'[q].req = c.req
      /\ call'[q].user = c.user /\ call'[q].hash = c.hash
      /\ call'[q].reply = c.reply
      /\ c.stale => call'[q].stale
      /\ c.ever => call'[q].ever
      /\ c.at \in {"updateHash", "updateSave"} /\ c.user.id = i => call'[q].stale
      /\ c.at = "loginFind" /\ c.req.email = row.email /\ compare(c.req.password, row.password)
         => call'[q].ever
  BY EndSavedMarks
<1>3. HoldsUser(q) => HoldsUser(q)'
  BY <1>2 DEF HoldsUser, Saves
<1>4. CreateOK(q)'
  BY <1>1, <1>2 DEF CallOK, CreateOK
<1>5. UpdateOK(q)'
  <2>1. ASSUME c.at \in {"updateHash", "updateSave"}, ~call'[q].stale
        PROVE  c.user.row = users'[c.user.id]
    <3>1. c.user.id # i /\ ~c.stale
      BY <1>2, <2>1
    <3>2. c.user.id \in UserIds /\ c.user.row = users[c.user.id]
      BY <1>1, <2>1, <3>1 DEF CallOK, UpdateOK, HoldsUser
    <3> QED  BY <3>1, <3>2 DEF Saves
  <2> QED  BY <1>1, <1>2, <1>3, <2>1 DEF CallOK, UpdateOK
<1>6. LoginOK(q)'
  <2>1. ASSUME c.at = "loginFind", Matches(c.req)' PROVE call'[q].ever
    <3>1. PICK j \in UserIds' : users'[j].email = c.req.email /\ compare(c.req.password, users'[j].password)
      BY <1>2, <2>1 DEF Matches, ByEmail, compare
    <3>2. CASE j = i
      BY <1>2, <2>1, <3>1, <3>2 DEF Saves
    <3>3. CASE j # i
      <4>1. j \in UserIds /\ users'[j] = users[j]
        BY <3>3 DEF Saves
      <4>2. Matches(c.req)
        BY <3>1, <4>1 DEF Matches, ByEmail
      <4> QED  BY <1>1, <1>2, <2>1, <4>2 DEF CallOK, LoginOK
    <3> QED  BY <3>2, <3>3
  <2> QED  BY <1>1, <1>2, <1>3, <2>1 DEF CallOK, LoginOK, compare
<1>7. LogoutOK(q)'
  BY <1>1, <1>2 DEF CallOK, LogoutOK, Saves
<1> QED  BY <1>4, <1>5, <1>6, <1>7 DEF CallOK

\* What the two saves have in common: the table's constraints keep the users
\* apart, and the tokens' users keep their emails.
LEMMA SaveOK ==
    ASSUME IInv, NEW p \in Proc, NEW i, NEW row, NEW reply \in Replies \ {"token"},
           EndSaved(p, i, row, reply), Saves(i, row), Admits(i, row), UNCHANGED tokens
    PROVE  /\ TokensOK' /\ UsersDistinct' /\ call' \in [Proc -> Calls]
           /\ \A q \in Proc : CallOK(q)'
<1>1. call'[p] = IdleCall(reply) /\ DOMAIN call' = Proc /\ call' = [q \in Proc |-> call'[q]]
  BY DEF EndSaved
<1>2. \A q \in Proc : call'[q] \in Calls
  BY <1>1, EndSavedMarks, IdleType
<1>3. \A q \in Proc : CallOK(q)'
  BY <1>1, OthersAfterSave, IdleOK
<1>4. TokensOK'
  BY DEF IInv, TokensOK, Saves
<1>5. UsersDistinct'
  <2>1. \A j \in UserIds : j # i => users[j].username # row.username /\ users[j].email # row.email
    BY DEF Admits, ByName, ByEmail
  <2> QED  BY <2>1 DEF IInv, UsersDistinct, Saves, Admits
<1> QED  BY <1>1, <1>2, <1>3, <1>4, <1>5

\* The insert of a new user, refused by the unique columns or not.
LEMMA CreateSaveOK == ASSUME IInv, NEW p \in Proc, CreateSave(p) PROVE IInv'
<1> DEFINE row == NewRow(p)
           ids == UserIds \cup {NextId}
<1>1. NextId \in Nat /\ NextId \notin UserIds /\ ids = 1 .. NextId /\ NextId <= MaxUsers
  BY NextIdIsNew DEF IInv, CreateSave
<1>2. call[p].req \in Creates /\ call[p].hash = Hash(call[p].req.password)
  BY DEF IInv, CallOK, CreateOK, CreateSave
<1>3. row \in Row
  BY <1>2 DEF NewRow, Row, Hashes
<1>4. /\ users' = [i \in ids |-> IF i = NextId THEN row ELSE users[i]]
      /\ intended' = [i \in ids |-> IF i = NextId THEN row ELSE intended[i]]
      /\ EndSaved(p, NextId, row, "created") /\ Admits(NextId, row)
      /\ UNCHANGED tokens /\ UNCHANGED raced
  BY DEF CreateSave
<1>5. UserIds' = ids /\ Saves(NextId, row)
  BY <1>1, <1>4 DEF Saves, UserIds
<1>6. TokensOK' /\ UsersDistinct' /\ call' \in [Proc -> Calls] /\ \A q \in Proc : CallOK(q)'
  BY <1>4, <1>5, SaveOK DEF Replies
<1>7. users' \in [UserIds' -> Row] /\ DOMAIN intended' = UserIds'
  BY <1>3, <1>4, <1>5 DEF IInv, TypeOK
<1>8. UserIds' = 1 .. NextId /\ NextId \in 0 .. MaxUsers
  BY <1>1, <1>5, InputAssumption
<1>9. TypeOK'
  BY <1>4, <1>6, <1>7, <1>8 DEF IInv, TypeOK
<1>10. UpdatesStick'
  BY <1>4, <1>5 DEF IInv, UpdatesStick
<1> QED  BY <1>6, <1>9, <1>10 DEF IInv

\* Object.assign changes the password and the role only.
LEMMA AssignedRow ==
    ASSUME NEW row \in Row, NEW r \in Updates, NEW hash,
           r.password \in {Absent, Null, Empty} \/ hash = Hash(r.password),
           Null \notin {Assigned(row, r, hash).password, Assigned(row, r, hash).role}
    PROVE  /\ Assigned(row, r, hash) \in Row /\ Assigned(row, r, hash).email = row.email
           /\ Assigned(row, r, hash) = Apply(row, r)
<1> DEFINE password == IF r.password = Absent THEN row.password
                       ELSE IF r.password \in {Null, Empty} THEN r.password ELSE hash
           role == IF r.role = Absent THEN row.role ELSE r.role
<1>1. Assigned(row, r, hash) = [row EXCEPT !.password = password, !.role = role]
  BY DEF Assigned, Row
<1>2. r.password = Absent \/ r.password # Null
  BY <1>1 DEF Row
<1>3. password \in Hashes \cup {Empty} /\ role \in {"staff"} \cup {u.role : u \in Creates \cup Updates}
  BY <1>2 DEF Row, Hashes
<1>4. Apply(row, r) = [row EXCEPT !.password = password, !.role = role]
  BY <1>2 DEF Apply, Row
<1> HIDE DEF password, role
<1>5. LET new == [row EXCEPT !.password = password, !.role = role]
      IN  new \in Row /\ new.email = row.email
  BY <1>3 DEF Row
<1> QED  BY <1>1, <1>4, <1>5

\* The update of a user's row, refused by the unique columns or not.
LEMMA UpdateSaveOK == ASSUME IInv, NEW p \in Proc, UpdateSave(p) PROVE IInv'
<1> DEFINE c == call[p]
           i == c.user.id
           row == Assigned(c.user.row, c.req, c.hash)
<1>1. /\ c.at = "updateSave" /\ Admits(i, row)
      /\ users' = [users EXCEPT ![i] = row]
      /\ intended' = [intended EXCEPT ![i] = Apply(intended[i], c.req)]
      /\ raced' = IF c.stale THEN raced \cup {i} ELSE raced
      /\ EndSaved(p, i, row, "updated") /\ UNCHANGED tokens
  BY DEF UpdateSave
<1>2. /\ HoldsUser(p) /\ c.req \in Updates
      /\ ~c.stale => c.user.row = users[i]
      /\ c.req.password \in {Absent, Null, Empty} \/ c.hash = Hash(c.req.password)
  BY <1>1 DEF IInv, CallOK, UpdateOK
<1>3. c.user.row \in Row /\ i \in UserIds /\ c.user.row.email = users[i].email
  BY <1>2 DEF HoldsUser
<1>4. row \in Row /\ row.email = users[i].email /\ row = Apply(c.user.row, c.req)
  BY <1>1, <1>2, <1>3, AssignedRow DEF Admits
<1>5. UserIds' = UserIds /\ Saves(i, row)
  BY <1>1, <1>3, <1>4 DEF Saves, UserIds, IInv, TypeOK
<1>6. TokensOK' /\ UsersDistinct' /\ call' \in [Proc -> Calls] /\ \A q \in Proc : CallOK(q)'
  BY <1>1, <1>5, SaveOK DEF Replies
<1>7. TypeOK'
  BY <1>1, <1>4, <1>5, <1>6 DEF IInv, TypeOK
<1>8. UpdatesStick'
  <2>1. ASSUME NEW j \in UserIds', j \notin raced' PROVE users'[j] = intended'[j]
    <3>1. j \in UserIds /\ j \notin raced /\ users[j] = intended[j]
      BY <1>1, <1>5, <2>1 DEF IInv, UpdatesStick
    <3>2. CASE j # i
      BY <1>1, <3>1, <3>2 DEF IInv, TypeOK
    <3>3. CASE j = i
      <4>1. ~c.stale
        BY <1>1, <2>1, <3>3
      <4> QED  BY <1>1, <1>2, <1>4, <3>1, <3>3, <4>1 DEF IInv, TypeOK
    <3> QED  BY <3>2, <3>3
  <2> QED  BY <2>1 DEF UpdatesStick
<1> QED  BY <1>6, <1>7, <1>8 DEF IInv

-----------------------------------------------------------------------------
(* The theorems.                                                           *)

\* The invariant holds with no user and every process idle.
LEMMA InitOK == Init => IInv
<1>1. SUFFICES ASSUME Init PROVE IInv
  OBVIOUS
<1>2. UserIds = {} /\ DOMAIN intended = {} /\ users = [i \in {} |-> users[i]]
  BY <1>1 DEF Init, UserIds
<1>3. UserIds = 1 .. 0 /\ 0 \in 0 .. MaxUsers
  BY <1>2, InputAssumption
<1>4. IdleCall("none") \in Calls
  BY IdleType DEF Replies
<1>5. TypeOK
  BY <1>1, <1>2, <1>3, <1>4 DEF Init, TypeOK
<1>6. \A p \in Proc : CallOK(p)
  BY <1>1 DEF Init, IdleCall, CallOK, CreateOK, UpdateOK, LoginOK, LogoutOK
<1>7. TokensOK /\ UsersDistinct /\ UpdatesStick
  BY <1>1, <1>2 DEF Init, TokensOK, UsersDistinct, UpdatesStick
<1> QED  BY <1>5, <1>6, <1>7 DEF IInv

\* Every step keeps it.
LEMMA NextOK == IInv /\ [Next]_vars => IInv'
<1> SUFFICES ASSUME IInv, [Next]_vars PROVE IInv'
  OBVIOUS
<1>1. CASE UNCHANGED vars
  <2>1. UNCHANGED <<users, tokens, call, intended, raced>>
    BY <1>1 DEF vars
  <2>2. \A p \in Proc : CallOK(p)'
    BY <2>1, OthersKeep DEF IInv
  <2> QED
    BY <2>1, <2>2 DEF IInv, TypeOK, TokensOK, UsersDistinct, UpdatesStick, UserIds
<1>2. CASE \E p \in Proc : Step(p)
  <2>1. PICK p \in Proc : Step(p)
    BY <1>2
  <2>2. CASE \E r \in Creates \cup Updates \cup Logins : Receive(p, r)
    BY <2>2, ReceiveOK
  <2>3. CASE CreateByName(p) \/ CreateByEmail(p)
    BY <2>3, CreateFindOK
  <2>4. CASE CreateSave(p)
    BY <2>4, CreateSaveOK
  <2>5. CASE HashPassword(p)
    BY <2>5, HashPasswordOK
  <2>6. CASE UpdateFind(p)
    BY <2>6, UpdateFindOK
  <2>7. CASE UpdateSave(p)
    BY <2>7, UpdateSaveOK
  <2>8. CASE LoginFind(p)
    BY <2>8, LoginFindOK
  <2>9. CASE LoginCompare(p)
    BY <2>9, LoginCompareOK
  <2>10. CASE \E token \in tokens : Logout(p, token)
    BY <2>10, LogoutStartOK
  <2>11. CASE UpdateMissing(p) \/ LogoutFind(p) \/ Fail(p)
    BY <2>11, EndOK
  <2> QED
    BY <2>1, <2>2, <2>3, <2>4, <2>5, <2>6, <2>7, <2>8, <2>9, <2>10, <2>11 DEF Step
<1>3. CASE \E token \in tokens : Expire(token)
  BY <1>3, ExpireOK
<1>4. CASE Crash
  BY <1>4, CrashOK
<1> QED  BY <1>1, <1>2, <1>3, <1>4 DEF Next

\* The inductive invariant, for any number of processes and users.
LEMMA Invariance == Spec => []IInv
BY InitOK, NextOK, PTL DEF Spec

\* Type correctness: in particular the password column holds hashes of passwords
\* that were asked for, or '', whatever createUser and updateUser interleave.
THEOREM TypeCorrect == Spec => []TypeOK
<1>1. IInv => TypeOK
  BY DEF IInv
<1> QED  BY <1>1, Invariance, PTL

\* Users keep distinct names and emails however many calls of createUser have
\* looked before one of them saves: the check of the service does not ensure
\* it, the unique columns of the table do.
THEOREM Distinct == Spec => []UsersDistinct
<1>1. IInv => UsersDistinct
  BY DEF IInv
<1> QED  BY <1>1, Invariance, PTL

\* Every token that is held leads to the user it was issued for, because ids are
\* never reused and no operation changes an email.
THEOREM Resolve == Spec => []TokensResolve
<1>1. IInv => TokensResolve
  BY DEF IInv, TokensOK, CallOK, LogoutOK, TokensResolve
<1> QED  BY <1>1, Invariance, PTL

\* An update is lost or undone only through a save of a row read before another
\* save: the ghost raced has exactly the users to whom that has happened.
THEOREM Sticks == Spec => []UpdatesStick
<1>1. IInv => UpdatesStick
  BY DEF IInv
<1> QED  BY <1>1, Invariance, PTL

\* A login that succeeds gave a password that was the user's own at some moment
\* between the request and the answer, whatever updates were saved meanwhile.
THEOREM Honest == Spec => []LoginHonest
<1>1. IInv => LoginHonest
  BY DEF IInv, CallOK, LoginOK, LoginHonest
<1> QED  BY <1>1, Invariance, PTL
=============================================================================
