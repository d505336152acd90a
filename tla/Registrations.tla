--------------------------- MODULE Registrations ---------------------------
(***************************************************************************)
(* Registration of students and the two stores that hold them: rows of     *)
(* students and auth_users in SQL, documents of the same names in MongoDB  *)
(* (app/routers/auth.py, app/id_alignment.py, app/auth_utils.py).          *)
(*                                                                         *)
(* A registration writes the documents before its SQL transaction commits  *)
(* and may die between any two of its steps; later sign-ins, requests and  *)
(* restarts bring the stores together again.  The SQL database either      *)
(* hands out ids from a sequence that survives a rollback or the highest   *)
(* id plus one.                                                            *)
(***************************************************************************)
EXTENDS Naturals, FiniteSets

CONSTANTS
  Emails,            \* addresses
  SignupThreads,     \* requests at a time
  MaxId,             \* highest id of a row
  MaxSignups,        \* registrations and sign-ins in a behaviour
  MaxLostSignups,    \* requests that die half way
  FirstStudents      \* addresses of the students the university imported
ASSUME RegistrationsAssumption ==
  /\ FirstStudents \subseteq Emails /\ IsFiniteSet(Emails) /\ "none" \notin Emails
  /\ {MaxId, MaxSignups, MaxLostSignups} \subseteq Nat
  /\ Cardinality(FirstStudents) <= MaxId

VARIABLES
  engine,       \* "postgresql" or "sqlite"
  federation,   \* an identity provider is configured for single sign-on
  sqlStudents,  \* the students' rows: address and registration number
  sqlUsers,     \* the accounts' rows: address and student
  studentDocs,  \* the students' documents
  userDocs,     \* the accounts' documents
  sequence,     \* last id of each table handed out
  signups,      \* the requests
  signupCount, lostSignups

registrationVars == <<engine, federation, sqlStudents, sqlUsers, studentDocs, userDocs,
                      sequence, signups, signupCount, lostSignups>>

Ids == 1..MaxId
NoEmail == "none"
Student == [email : Emails \cup {NoEmail}, number : 0..MaxId + 1]
User == [email : Emails \cup {NoEmail}, student : 0..MaxId]
NoStudent == [email |-> NoEmail, number |-> 0]
NoUser == [email |-> NoEmail, student |-> 0]
Signup == [stage : {"idle", "checked", "student", "studentDoc", "released", "userDoc",
                    "read", "aligned", "restore", "restored"},
           email : Emails \cup {NoEmail}, student : 0..MaxId, number : 0..MaxId + 1,
           inserts : BOOLEAN, user : 0..MaxId, source : 0..MaxId]
NoSignup == [stage |-> "idle", email |-> NoEmail, student |-> 0, number |-> 0,
             inserts |-> FALSE, user |-> 0, source |-> 0]

RegistrationsTypeOK ==
  /\ engine \in {"postgresql", "sqlite"} /\ federation \in BOOLEAN
  /\ sqlStudents \in [Ids -> Student] /\ studentDocs \in [Ids -> Student]
  /\ sqlUsers \in [Ids -> User] /\ userDocs \in [Ids -> User]
  /\ sequence \in [{"students", "users"} -> 0..MaxId]
  /\ signups \in [SignupThreads -> Signup]
  /\ signupCount \in 0..MaxSignups /\ lostSignups \in 0..MaxLostSignups

\* The imported students come with rows and documents, in some order.
RegistrationsInit ==
  /\ engine \in {"postgresql", "sqlite"} /\ federation \in BOOLEAN
  /\ \E order \in {o \in [FirstStudents -> 1..Cardinality(FirstStudents)] :
                     \A a, b \in FirstStudents : o[a] = o[b] => a = b} :
       sqlStudents = [i \in Ids |->
         IF \E e \in FirstStudents : order[e] = i
         THEN [email |-> CHOOSE e \in FirstStudents : order[e] = i, number |-> i]
         ELSE NoStudent]
  /\ studentDocs = sqlStudents
  /\ sqlUsers = [i \in Ids |-> NoUser] /\ userDocs = sqlUsers
  /\ sequence = [t \in {"students", "users"} |->
                   IF t = "students" THEN Cardinality(FirstStudents) ELSE 0]
  /\ signups = [t \in SignupThreads |-> NoSignup]
  /\ signupCount = 0 /\ lostSignups = 0

Of(table, e) == {i \in Ids : table[i].email = e}
Filled(table) == {i \in Ids : table[i].email # NoEmail}
Highest(ids) == IF ids = {} THEN 0 ELSE CHOOSE i \in ids : \A j \in ids : j <= i

\* Id of the next row: a sequence, or the highest id plus one.
NextId(name, table) == 1 + IF engine = "postgresql" THEN sequence[name] ELSE Highest(Filled(table))

\* Requests with rows that are not committed.
Open == {t \in SignupThreads :
           signups[t].stage \in {"student", "studentDoc", "released", "userDoc"}}

\* SQLite has one writer; PostgreSQL makes a writer wait for a row with the
\* same unique value that is not committed yet.
MustWait(t, e, number, id) ==
  \E o \in Open \ {t} :
    \/ engine = "sqlite"
    \/ signups[o].email = e
    \/ signups[o].inserts /\ (signups[o].number = number \/ signups[o].student = id)

Others == <<engine, federation, sqlStudents, sqlUsers, studentDocs, userDocs, sequence>>
Become(t, s) == signups' = [signups EXCEPT ![t] = s]

\* The request ends.  One that had not committed is rolled back in SQL, its
\* documents stay.
Ended(t) == Become(t, NoSignup)

(***************************************************************************)
(* POST /register for a student                                            *)
(***************************************************************************)

\* No account has the address.  A student the university has imported keeps
\* the row, another one gets the number after those of all rows.
BeginSignup(t, e) ==
  LET rows == Of(sqlStudents, e) IN
  /\ signups[t].stage = "idle"
  /\ signupCount < MaxSignups
  /\ Of(userDocs, e) = {} /\ Of(sqlUsers, e) = {}
  /\ signupCount' = signupCount + 1
  /\ Become(t, [NoSignup EXCEPT !.stage = "checked", !.email = e,
        !.inserts = (rows = {}),
        !.student = Highest(rows),
        !.number = IF rows = {} THEN Cardinality(Filled(sqlStudents)) + 1
                   ELSE sqlStudents[Highest(rows)].number])
  /\ UNCHANGED <<Others, lostSignups>>

\* The student's row is written, with an address and a number that are unique.
WriteStudent(t) ==
  LET s  == signups[t]
      id == IF s.inserts THEN NextId("students", sqlStudents) ELSE s.student
      taken == s.inserts /\ \E i \in Filled(sqlStudents) :
                 sqlStudents[i].email = s.email \/ sqlStudents[i].number = s.number
  IN  /\ s.stage = "checked"
      /\ id \in Ids
      /\ ~MustWait(t, s.email, s.number, id)
      /\ sequence' = IF s.inserts THEN [sequence EXCEPT !["students"] = id] ELSE sequence
      /\ IF taken THEN Ended(t)
         ELSE Become(t, [s EXCEPT !.stage = "student", !.student = id])
      /\ UNCHANGED <<engine, federation, sqlStudents, sqlUsers, studentDocs, userDocs, signupCount, lostSignups>>

\* _upsert_mongo_by_id: the document with the id gets the student's data; an
\* address that another document has is refused.
WriteStudentDoc(t) ==
  LET s == signups[t] IN
  /\ s.stage = "student"
  /\ IF Of(studentDocs, s.email) \ {s.student} # {}
     THEN Ended(t) /\ UNCHANGED studentDocs
     ELSE /\ studentDocs' = [studentDocs EXCEPT ![s.student] =
                               [email |-> s.email, number |-> s.number]]
          /\ Become(t, [s EXCEPT !.stage = "studentDoc"])
  /\ UNCHANGED <<engine, federation, sqlStudents, sqlUsers, userDocs, sequence, signupCount, lostSignups>>

\* The account linked to the student, unless it is the student's own, is unlinked.
Unlinked(s) ==
  [u \in Ids |-> IF userDocs[u].student = s.student /\ userDocs[u].email # s.email
                 THEN [userDocs[u] EXCEPT !.student = 0] ELSE userDocs[u]]

ReleaseLink(t) ==
  LET s == signups[t] IN
  /\ s.stage = "studentDoc"
  /\ userDocs' = Unlinked(s)
  /\ Become(t, [s EXCEPT !.stage = "released"])
  /\ UNCHANGED <<engine, federation, sqlStudents, sqlUsers, studentDocs, sequence, signupCount, lostSignups>>

\* The account's row is written, or the one with the address overwritten, then
\* the document under the row's id.
WriteUserDoc(t) ==
  LET s  == signups[t]
      rows == Of(sqlUsers, s.email)
      id == IF rows = {} THEN NextId("users", sqlUsers) ELSE Highest(rows)
      taken == \/ rows = {} /\ sqlUsers[id] # NoUser
               \/ \E u \in Filled(sqlUsers) \ {id} : sqlUsers[u].student = s.student
               \/ \E u \in Filled(userDocs) \ {id} :
                    userDocs[u].email = s.email \/ userDocs[u].student = s.student
  IN  /\ s.stage = "released"
      /\ id \in Ids
      /\ \A o \in Open : signups[o].user # id
      /\ sequence' = IF rows = {} THEN [sequence EXCEPT !["users"] = id] ELSE sequence
      /\ IF taken THEN Ended(t) /\ UNCHANGED userDocs
         ELSE /\ userDocs' = [userDocs EXCEPT ![id] = [email |-> s.email, student |-> s.student]]
              /\ Become(t, [s EXCEPT !.stage = "userDoc", !.user = id])
      /\ UNCHANGED <<engine, federation, sqlStudents, sqlUsers, studentDocs, signupCount, lostSignups>>

CommitSignup(t) ==
  LET s == signups[t] IN
  /\ s.stage = "userDoc"
  /\ sqlStudents' = [sqlStudents EXCEPT ![s.student] = [email |-> s.email, number |-> s.number]]
  /\ sqlUsers' = [sqlUsers EXCEPT ![s.user] = [email |-> s.email, student |-> s.student]]
  /\ Ended(t)
  /\ UNCHANGED <<engine, federation, studentDocs, userDocs, sequence, signupCount, lostSignups>>

LoseSignup(t) ==
  /\ signups[t].stage # "idle"
  /\ lostSignups < MaxLostSignups
  /\ lostSignups' = lostSignups + 1
  /\ Ended(t)
  /\ UNCHANGED <<Others, signupCount>>

(***************************************************************************)
(* Bringing the stores together (app/id_alignment.py)                      *)
(***************************************************************************)

\* The id an account's row gives its document.
UserId(u, e) == IF Of(sqlUsers, e) = {} THEN u ELSE Highest(Of(sqlUsers, e))

\* The document of student e with row i moves to the row's id, with every
\* reference to it.
StudentMoved(e, i) ==
  LET d == Highest(Of(studentDocs, e)) IN
  IF d \in {0, i} THEN studentDocs ELSE [studentDocs EXCEPT ![i] = studentDocs[d], ![d] = NoStudent]

ReferencesMoved(e, i) ==
  LET d == Highest(Of(studentDocs, e)) IN
  IF d \in {0, i} \/ \E u \in Ids : userDocs[u].student = i THEN userDocs
  ELSE [u \in Ids |-> IF userDocs[u].student = d THEN [userDocs[u] EXCEPT !.student = i]
                      ELSE userDocs[u]]

StudentIdTaken(e, i) ==
  Highest(Of(studentDocs, e)) \notin {0, i} /\ studentDocs[i].email \notin {NoEmail, e}

\* align_student_profile_id_with_sql: the document with the id that the account's had when it
\* was read, linked to student `known' then, is linked to row i, unless another document is.
StudentAligned(e, i, u, known) ==
  IF StudentIdTaken(e, i) THEN UNCHANGED <<studentDocs, userDocs>>
  ELSE /\ studentDocs' = StudentMoved(e, i)
       /\ LET docs == ReferencesMoved(e, i) IN
          userDocs' = IF known = i \/ docs[u] = NoUser \/ \E v \in Ids \ {u} : docs[v].student = i
                      THEN docs ELSE [docs EXCEPT ![u].student = i]

(***************************************************************************)
(* A sign-in (request_login_otp, login_student_with_password)              *)
(***************************************************************************)

ReadAccount(t, u) ==
  /\ signups[t].stage = "idle"
  /\ signupCount < MaxSignups
  /\ userDocs[u] # NoUser
  /\ signupCount' = signupCount + 1
  /\ Become(t, [NoSignup EXCEPT !.stage = "read", !.email = userDocs[u].email,
                                !.student = userDocs[u].student, !.user = u])
  /\ UNCHANGED <<Others, lostSignups>>

\* align_auth_user_id_with_sql: 409 if another account has the document.
AlignUserId(t) ==
  LET s == signups[t]
      u == UserId(s.user, s.email)
  IN  /\ s.stage = "read"
      /\ IF userDocs[u].email \notin {NoEmail, s.email}
         THEN Ended(t) /\ UNCHANGED userDocs
         ELSE /\ userDocs' = IF u = s.user \/ userDocs[s.user].email # s.email THEN userDocs
                             ELSE [userDocs EXCEPT ![u] = userDocs[s.user], ![s.user] = NoUser]
              /\ Become(t, [s EXCEPT !.stage = "aligned", !.user = u])
      /\ UNCHANGED <<engine, federation, sqlStudents, sqlUsers, studentDocs, sequence, signupCount, lostSignups>>

\* _ensure_role_profile_link: the account is linked to the row of its address.
LinkProfile(t) ==
  LET s == signups[t]
      i == Highest(Of(sqlStudents, s.email))
  IN  /\ s.stage \in {"aligned", "restored"}
      /\ i # 0
      /\ StudentAligned(s.email, i, s.user, s.student)
      /\ Ended(t)
      /\ UNCHANGED <<engine, federation, sqlStudents, sqlUsers, sequence, signupCount, lostSignups>>

\* There is no row: the linked document is looked up, or the one of the
\* address.  Without one the student is told to create an account.
FindProfile(t) ==
  LET s == signups[t]
      source == IF s.student # 0 /\ studentDocs[s.student] # NoStudent THEN s.student
                ELSE Highest(Of(studentDocs, s.email))
  IN  /\ s.stage = "aligned"
      /\ Of(sqlStudents, s.email) = {}
      /\ IF source = 0 THEN Ended(t)
         ELSE Become(t, [s EXCEPT !.stage = "restore", !.source = source,
                                  !.number = studentDocs[source].number])
      /\ UNCHANGED <<Others, signupCount, lostSignups>>

\* Mutant: the link may name anyone's row.
Stray_Ignored(s, id) == FALSE

\* The link names another student's row, while the document's id is taken.
Stray(s, id) ==
  id # s.source /\ s.student # 0 /\ sqlStudents[s.student].email \notin {NoEmail, s.email}

\* _restore_missing_student_profile_from_mongo: a row with the document's id, or a new one
\* if that is taken; a stray link is refused (409).
RestoreProfile(t) ==
  LET s  == signups[t]
      id == IF sqlStudents[s.source] = NoStudent THEN s.source ELSE NextId("students", sqlStudents)
      taken == \E i \in Filled(sqlStudents) :
                 i = id \/ sqlStudents[i].email = s.email \/ sqlStudents[i].number = s.number
      docTaken == id # s.source /\ Of(studentDocs, s.email) \ {id} # {}
  IN  /\ s.stage = "restore"
      /\ id \in Ids
      /\ ~MustWait(t, s.email, s.number, id)
      /\ IF Stray(s, id) \/ taken
         THEN Ended(t) /\ UNCHANGED <<sqlStudents, studentDocs, sequence>>
         ELSE /\ sqlStudents' = [sqlStudents EXCEPT ![id] = [email |-> s.email, number |-> s.number]]
              /\ sequence' = IF id = s.source THEN sequence ELSE [sequence EXCEPT !["students"] = id]
              /\ studentDocs' = IF id = s.source \/ docTaken THEN studentDocs
                                ELSE [studentDocs EXCEPT ![id] = [email |-> s.email, number |-> s.number]]
              /\ IF docTaken THEN Ended(t) ELSE Become(t, [s EXCEPT !.stage = "restored"])
      /\ UNCHANGED <<engine, federation, sqlUsers, userDocs, signupCount, lostSignups>>

(***************************************************************************)
(* Later requests, staff and restarts                                      *)
(***************************************************************************)

\* Row u may be linked to student i: no other row is, and PostgreSQL wants the student's row
\* to exist.  SQLite enforces no foreign key (database.py:_engine_options).
MayLink(u, i) ==
  i # 0 => /\ \A v \in Ids \ {u} : sqlUsers[v].student # i
           /\ engine = "postgresql" => sqlStudents[i] # NoStudent

\* _ensure_sql_auth_user: the row with the document's id, made if there is
\* none for id and address; a made row sets the sequence to the highest id.
RowEnsured(u, e, i) ==
  LET made == sqlUsers[u] = NoUser /\ Of(sqlUsers, e) = {}
      rows == [sqlUsers EXCEPT ![u] = [email |-> e, student |-> i]]
  IN  IF (made \/ (sqlUsers[u].email = e /\ i # 0)) /\ MayLink(u, i)
      THEN /\ sqlUsers' = rows
           /\ sequence' = IF made THEN [sequence EXCEPT !["users"] = Highest(Filled(rows))]
                          ELSE sequence
      ELSE UNCHANGED <<sqlUsers, sequence>>

\* _sync_request_user_with_sql, in a request of the account with document u.
SyncRequestUser(u) ==
  LET e == userDocs[u].email
      i == Highest(Of(sqlStudents, e))
  IN  /\ e # NoEmail
      /\ \A o \in Open : engine # "sqlite" /\ signups[o].email # e /\ signups[o].user # u
      /\ IF i = 0 THEN UNCHANGED <<studentDocs, userDocs>> ELSE StudentAligned(e, i, u, userDocs[u].student)
      /\ RowEnsured(u, e, userDocs'[u].student)
      /\ UNCHANGED <<engine, federation, sqlStudents, signups, signupCount, lostSignups>>

\* upsert_sql_auth_user_record: the row of the address, or a new one, under the id asked for
\* if any.
AccountRowId(e, asked) ==
  LET rows == Of(sqlUsers, e) IN
  CASE rows # {} -> Highest(rows) [] rows = {} /\ asked # 0 -> asked
    [] OTHER -> NextId("users", sqlUsers)

AccountUpsertable(e, id, i) ==
  /\ sqlUsers[id].email \in {NoEmail, e} /\ MayLink(id, i)
  /\ \A o \in Open : engine # "sqlite" /\ signups[o].email # e /\ signups[o].user # id

\* The row's link becomes the one given, none included.
AccountUpserted(e, id, i) == sqlUsers' = [sqlUsers EXCEPT ![id] = [email |-> e, student |-> i]]

\* A new row takes the next id, or has one and sets the sequence to the highest id, which a
\* rollback does not undo.
AccountNumbered(asked, id) ==
  LET highest == Highest(Filled(sqlUsers) \cup {id}) IN
  sequence' = IF sqlUsers[id] # NoUser THEN sequence
              ELSE [sequence EXCEPT !["users"] = IF asked = 0 THEN id ELSE highest]

\* _upsert_federated_user: the row is written with the document's link, the document gets
\* the row's id, or is made without a link; then the row is committed, or is lost.
SignInFederated(e) ==
  LET d    == Highest(Of(userDocs, e))
      link == IF d = 0 THEN 0 ELSE userDocs[d].student
      id   == AccountRowId(e, d)
  IN  /\ federation /\ signupCount < MaxSignups
      /\ id \in Ids /\ userDocs[id].email \in {NoEmail, e}
      /\ AccountUpsertable(e, id, link)
      /\ signupCount' = signupCount + 1
      /\ userDocs' = [u \in Ids |-> IF u = id THEN [email |-> e, student |-> link]
                                    ELSE IF u = d THEN NoUser ELSE userDocs[u]]
      /\ AccountNumbered(d, id)
      /\ \/ AccountUpserted(e, id, link) /\ UNCHANGED lostSignups
         \/ /\ lostSignups < MaxLostSignups /\ lostSignups' = lostSignups + 1
            /\ UNCHANGED sqlUsers
      /\ UNCHANGED <<engine, federation, sqlStudents, studentDocs, signups>>

\* reset_password_with_otp: the row is written with the document's link.
ResetPassword(u) ==
  LET e == userDocs[u].email
      id == AccountRowId(e, u)
  IN  /\ e # NoEmail
      /\ AccountUpsertable(e, id, userDocs[u].student)
      /\ AccountNumbered(u, id)
      /\ AccountUpserted(e, id, userDocs[u].student)
      /\ UNCHANGED <<engine, federation, sqlStudents, studentDocs, userDocs, signups, signupCount, lostSignups>>

\* sync_sql_snapshot_to_mongo at a start, the students' part for row i: the
\* document is aligned and overwritten, unless another one has the address.
SyncStudentRow(i) ==
  LET e == sqlStudents[i].email IN
  /\ e # NoEmail
  /\ ~StudentIdTaken(e, i)
  /\ studentDocs' = [StudentMoved(e, i) EXCEPT ![i] = sqlStudents[i]]
  /\ LET docs == ReferencesMoved(e, i) IN
     userDocs' = [u \in Ids |-> IF docs[u].email = e /\ \A v \in Ids \ {u} : docs[v].student # i
                                THEN [docs[u] EXCEPT !.student = i] ELSE docs[u]]
  /\ UNCHANGED <<engine, federation, sqlStudents, sqlUsers, sequence, signups, signupCount, lostSignups>>

\* The accounts' part for row u.
SyncUserRow(u) ==
  LET e == sqlUsers[u].email
      d == Highest(Of(userDocs, e))
  IN  /\ e # NoEmail
      /\ userDocs[u].email \in {NoEmail, e}
      /\ \A v \in Ids \ {u, d} : sqlUsers[u].student \in {0, userDocs[v].student} => sqlUsers[u].student = 0
      /\ userDocs' = [v \in Ids |-> IF v = u THEN sqlUsers[u] ELSE IF v = d THEN NoUser ELSE userDocs[v]]
      /\ UNCHANGED <<engine, federation, sqlStudents, sqlUsers, studentDocs, sequence, signups, signupCount, lostSignups>>

\* rms_update_student_profile: staff give a student another number.
SetNumber(i, n) ==
  /\ sqlStudents[i] # NoStudent
  /\ n \notin {sqlStudents[j].number : j \in Filled(sqlStudents)}
  /\ \A o \in Open : engine # "sqlite" /\ ~(signups[o].inserts /\ signups[o].number = n)
  /\ sqlStudents' = [sqlStudents EXCEPT ![i].number = n]
  /\ studentDocs' = [studentDocs EXCEPT ![i] = sqlStudents'[i]]
  /\ UNCHANGED <<engine, federation, sqlUsers, userDocs, sequence, signups, signupCount, lostSignups>>

\* reissue_generated_profile_identifiers, on every read of a profile: numbers
\* follow the order of arrival again.
ReissueNumbers ==
  LET order(i) == Cardinality({j \in Filled(sqlStudents) : j <= i}) IN
  /\ \A o \in Open : engine # "sqlite" /\ ~signups[o].inserts
  /\ \E i \in Filled(sqlStudents) : sqlStudents[i].number # order(i)
  /\ sqlStudents' = [i \in Ids |-> IF sqlStudents[i] = NoStudent THEN NoStudent
                                   ELSE [sqlStudents[i] EXCEPT !.number = order(i)]]
  /\ UNCHANGED <<engine, federation, sqlUsers, studentDocs, userDocs, sequence, signups, signupCount, lostSignups>>

RegistrationsNext ==
  \/ \E t \in SignupThreads :
       \/ \E e \in Emails : BeginSignup(t, e)
       \/ WriteStudent(t) \/ WriteStudentDoc(t) \/ ReleaseLink(t) \/ WriteUserDoc(t)
       \/ CommitSignup(t) \/ LoseSignup(t)
       \/ \E u \in Ids : ReadAccount(t, u)
       \/ AlignUserId(t) \/ LinkProfile(t) \/ FindProfile(t) \/ RestoreProfile(t)
  \/ \E e \in Emails : SignInFederated(e)
  \/ \E i \in Ids : SyncRequestUser(i) \/ ResetPassword(i) \/ SyncStudentRow(i) \/ SyncUserRow(i)
  \/ \E i \in Ids, n \in 1..MaxId + 1 : SetNumber(i, n)
  \/ ReissueNumbers

(***************************************************************************)
(* Properties                                                              *)
(***************************************************************************)

\* What the stores can bear: one request that died half way, but none on SQLite with single
\* sign-on.
Intact == lostSignups = 0 \/ (lostSignups = 1 /\ (engine = "postgresql" \/ ~federation))

\* An account never shows another student's record: where the row exists that a document or
\* a row of auth_users is linked to, it has the account's address, whatever half-finished
\* registration used the id before (_release_stale_profile_link,
\* align_student_profile_id_with_sql).  It does not survive more than Intact names: with a
\* second request that dies, a document may name the row of a registration that took its
\* number over; and on SQLite, which enforces no foreign key, a row of auth_users keeps the
\* lost registration's id, the next student to get the id cannot register, and gets a row
\* under it after signing in through a provider (_ensure_sql_auth_user, _upsert_federated_user).
LinkIsOwn ==
  Intact =>
    \A u \in Ids :
      /\ userDocs[u].student = 0 \/ sqlStudents[userDocs[u].student].email \in {NoEmail, userDocs[u].email}
      /\ sqlUsers[u].student = 0 \/ sqlStudents[sqlUsers[u].student].email \in {NoEmail, sqlUsers[u].email}
=============================================================================
