---------------------------- MODULE AuthSessions ----------------------------
(***************************************************************************)
(* The sessions of one account: app/auth_utils.py and the handlers of      *)
(* app/routers/auth.py that open, renew and end them.                      *)
(*                                                                         *)
(* A session holds the hash of its current refresh token, that of the one  *)
(* before, and the id of its newest access token.  Handlers run in threads *)
(* and every MongoDB call is an atomic step of its own: nothing holds two  *)
(* of them together, and a handler acts on documents it read earlier.      *)
(*                                                                         *)
(* Requests are numbered in the order they begin, and whatever a request   *)
(* issues has its number: a one-time password, a reset token, a session, a *)
(* pair of an access and a refresh token.                                  *)
(***************************************************************************)
EXTENDS Naturals, FiniteSets

CONSTANTS
  Workers,      \* threads of the process
  BackupCodes,  \* the account's MFA backup codes
  NoCode,
  MaxAttempts,  \* wrong codes after which a one-time password is refused: 5
  MaxRequests,  \* bound on the requests served
  Served        \* the kinds of requests that arrive

Kinds == {"request", "verify", "login", "sso", "reset", "refresh", "logout", "access"}

Purposes == {"login", "password_reset"}

ASSUME AuthAssumption ==
  /\ IsFiniteSet(Workers)
  /\ MaxAttempts \in Nat \ {0}
  /\ MaxRequests \in Nat
  /\ NoCode \notin BackupCodes
  /\ Served \subseteq Kinds

Requests == 1..MaxRequests

None == 0

VARIABLES
  started,   \* requests begun
  account,   \* auth_users: the role, and the hashes of unused backup codes
  sessions,  \* auth_sessions
  barred,    \* auth_token_revocations
  otps,      \* auth_otps
  resets,    \* auth_password_resets
  home,      \* the session a request's pair of tokens belongs to
  job,       \* the request each thread serves
  spent,     \* history: refresh tokens a rotation has replaced
  ended,     \* history: sessions some answered request has ended
  via,       \* history: the one-time password a request has consumed
  factor     \* history: the backup code a session was opened with

vars == <<started, account, sessions, barred, otps, resets, home, job,
          spent, ended, via, factor>>

\* expired: refresh_expires_at has passed.
Session == [open : BOOLEAN, cur : 0..MaxRequests, prev : 0..MaxRequests,
            jti : 0..MaxRequests, revoked : BOOLEAN, expired : BOOLEAN]

NoSession == [open |-> FALSE, cur |-> None, prev |-> None, jti |-> None,
              revoked |-> FALSE, expired |-> FALSE]

\* "expired" is unused too: used_at is set by whoever finds it expired.
Otp == [status : {"none", "live", "expired", "used"}, purpose : Purposes, attempts : Nat]

NoOtp == [status |-> "none", purpose |-> "login", attempts |-> 0]

Phases == {"idle", "retire", "insert", "send", "find", "miss", "discard", "burn",
           "consume", "supersede", "grant", "spend", "revoke", "create",
           "retireAll", "bar", "rotate", "drop"}

\* me: the request's number; about: the one-time password, reset token or session it
\* works on; token, jti: the token presented and the access token read; codes: the
\* backup codes read; late: the token was spent before the request began; ends: the
\* sessions the request promises to end.
Job == [phase : Phases, kind : Kinds, purpose : Purposes, me : 0..MaxRequests,
        about : 0..MaxRequests, token : 0..MaxRequests, jti : 0..MaxRequests,
        codes : SUBSET BackupCodes, code : BackupCodes \cup {NoCode},
        late : BOOLEAN, ends : SUBSET Requests]

IdleJob == [phase |-> "idle", kind |-> "request", purpose |-> "login", me |-> None,
            about |-> None, token |-> None, jti |-> None, codes |-> {},
            code |-> NoCode, late |-> FALSE, ends |-> {}]

TypeOK ==
  /\ started \in 0..MaxRequests
  /\ account \in [privileged : BOOLEAN, codes : SUBSET BackupCodes]
  /\ sessions \in [Requests -> Session]
  /\ barred \subseteq Requests
  /\ otps \in [Requests -> Otp]
  /\ resets \in [Requests -> {"none", "live", "used"}]
  /\ home \in [Requests -> 0..MaxRequests]
  /\ job \in [Workers -> Job]
  /\ spent \subseteq Requests
  /\ ended \subseteq Requests
  /\ via \in [Requests -> 0..MaxRequests]
  /\ factor \in [Requests -> BackupCodes \cup {NoCode}]

Init ==
  /\ started = 0
  /\ account \in [privileged : BOOLEAN, codes : {BackupCodes}]
  /\ sessions = [s \in Requests |-> NoSession]
  /\ barred = {}
  /\ otps = [o \in Requests |-> NoOtp]
  /\ resets = [r \in Requests |-> "none"]
  /\ home = [t \in Requests |-> None]
  /\ job = [w \in Workers |-> IdleJob]
  /\ spent = {}
  /\ ended = {}
  /\ via = [n \in Requests |-> None]
  /\ factor = [n \in Requests |-> NoCode]

-----------------------------------------------------------------------------
\* What the documents say.

Issued == {t \in Requests : home[t] # None}

Opened == {s \in Requests : sessions[s].open}

IsActive(s) == sessions[s].open /\ ~sessions[s].revoked /\ ~sessions[s].expired

\* The bearer of access token t is let in.
AccessHonoured(t) ==
  t \notin barred /\ IsActive(home[t]) /\ sessions[home[t]].jti = t

\* Refresh token t is exchanged for a new pair.
RefreshHonoured(t) == IsActive(home[t]) /\ sessions[home[t]].cur = t

Unused(o) == otps[o].status \in {"live", "expired"}

\* The documents a find_one sorted by created_at descending may return.
NewestOtps(purpose) ==
  {o \in Requests : /\ Unused(o) /\ otps[o].purpose = purpose
                    /\ \A p \in Requests : Unused(p) /\ otps[p].purpose = purpose => p <= o}

\* Two rows are live only when the requests that inserted them overlapped, and then
\* their created_at may have either order: any may be the newest.
LiveResets == {r \in Requests : resets[r] = "live"}

-----------------------------------------------------------------------------
\* A request begins with its first read; Begin leaves the documents alone.

Begin(w, j) ==
  /\ job[w].phase = "idle"
  /\ started < MaxRequests
  /\ j.kind \in Served
  /\ started' = started + 1
  /\ job' = [job EXCEPT ![w] = [j EXCEPT !.me = started + 1]]
  /\ UNCHANGED <<account, sessions, barred, otps, resets, home, spent, ended, via, factor>>

\* request_login_otp, request_password_reset_otp.  The cooldown after an earlier
\* request may have passed at any time.
RequestOtp(w) == \E purpose \in Purposes :
  Begin(w, [IdleJob EXCEPT !.phase = "retire", !.purpose = purpose])

\* verify_login_otp, verify_password_reset_otp: the account is read first.
VerifyOtp(w) == \E purpose \in Purposes :
  Begin(w, [IdleJob EXCEPT !.phase = "find", !.kind = "verify", !.purpose = purpose,
                           !.codes = account.codes,
                           !.ends = IF purpose = "login" THEN Opened ELSE {}])

\* login_student_with_password, with the right password.
PasswordLogin(w) ==
  /\ ~account.privileged
  /\ Begin(w, [IdleJob EXCEPT !.phase = "revoke", !.kind = "login", !.ends = Opened])

\* A login at the identity provider ends no other session.
SsoLogin(w) == Begin(w, [IdleJob EXCEPT !.phase = "create", !.kind = "sso"])

\* reset_password: the token must be the newest unused one.
ResetPassword(w) == \E r \in LiveResets :
  Begin(w, [IdleJob EXCEPT !.phase = "spend", !.kind = "reset", !.about = r, !.ends = Opened])

\* refresh_auth_token, with a token some client was given.
Refresh(w) == \E t \in Issued :
  LET s == home[t]
      j == [IdleJob EXCEPT !.kind = "refresh", !.about = s, !.token = t,
                           !.late = t \in spent] IN
  /\ IsActive(s)
  /\ \/ sessions[s].cur = t /\ Begin(w, [j EXCEPT !.phase = "bar", !.jti = sessions[s].jti])
     \/ sessions[s].prev = t /\ Begin(w, [j EXCEPT !.phase = "drop", !.ends = {s}])
     \/ \* the account's password has expired meanwhile, or the account is inactive
        sessions[s].cur = t /\ Begin(w, [j EXCEPT !.phase = "drop", !.ends = {s}])

\* logout, with an access token that has not expired.
Logout(w) == \E t \in Issued :
  Begin(w, [IdleJob EXCEPT !.phase = "drop", !.kind = "logout", !.about = home[t],
                           !.jti = t, !.ends = {home[t]}])

\* get_current_user writes only when it finds the password expired.  It has read the
\* revocations before the session.
AccessWithOldPassword(w) == \E t \in Issued :
  /\ IsActive(home[t]) /\ sessions[home[t]].jti = t
  /\ Begin(w, [IdleJob EXCEPT !.phase = "drop", !.kind = "access", !.about = home[t],
                              !.ends = {home[t]}])

-----------------------------------------------------------------------------
\* The steps of a request, one per MongoDB write (and the read of a password).

At(w, phase) == job[w].phase = phase

Go(w, phase) == job' = [job EXCEPT ![w].phase = phase]

Done(w) == job' = [job EXCEPT ![w] = IdleJob]

\* The request is answered: the sessions it ends are over.
Answer(w) == Done(w) /\ ended' = ended \cup job[w].ends

SetUsed(S) == otps' = [o \in Requests |-> IF o \in S THEN [otps[o] EXCEPT !.status = "used"]
                                                  ELSE otps[o]]

Revoke(S) == sessions' = [s \in Requests |->
  IF s \in S THEN [sessions[s] EXCEPT !.revoked = TRUE] ELSE sessions[s]]

RetireOtps(w) ==
  /\ At(w, "retire")
  /\ SetUsed({o \in Requests : Unused(o) /\ otps[o].purpose = job[w].purpose})
  /\ Go(w, "insert")
  /\ UNCHANGED <<started, account, sessions, barred, resets, home, spent, ended, via, factor>>

InsertOtp(w) ==
  /\ At(w, "insert")
  /\ otps' = [otps EXCEPT ![job[w].me] =
                [status |-> "live", purpose |-> job[w].purpose, attempts |-> 0]]
  /\ Go(w, "send")
  /\ UNCHANGED <<started, account, sessions, barred, resets, home, spent, ended, via, factor>>

\* A code that could not be sent is used up.
SendOtp(w) ==
  /\ At(w, "send")
  /\ otps' = otps \/ SetUsed({job[w].me})
  /\ Done(w)
  /\ UNCHANGED <<started, account, sessions, barred, resets, home, spent, ended, via, factor>>

\* Variant: one wrong code too many.
IsRefusedLate(o) == otps[o].status = "expired" \/ otps[o].attempts > MaxAttempts

IsRefused(o) == otps[o].status = "expired" \/ otps[o].attempts >= MaxAttempts

\* The outcomes of reading the newest password: none; no longer good; a wrong code;
\* the right code, for a privileged login with a TOTP or a backup code among those
\* read.
FindOtp(w) ==
  /\ At(w, "find")
  /\ \/ NewestOtps(job[w].purpose) = {} /\ Done(w)
     \/ \E o \in NewestOtps(job[w].purpose) :
          LET Found(phase, code) ==
                job' = [job EXCEPT ![w].phase = phase, ![w].about = o, ![w].code = code] IN
          \/ IsRefused(o) /\ Found("discard", NoCode)
          \/ ~IsRefused(o) /\ Found("miss", NoCode)
          \/ ~IsRefused(o) /\ Found("consume", NoCode)
          \/ /\ ~IsRefused(o) /\ account.privileged /\ job[w].purpose = "login"
             /\ \E c \in job[w].codes : Found("burn", c)
  /\ UNCHANGED <<started, account, sessions, barred, otps, resets, home, spent, ended, via, factor>>

CountMiss(w) ==
  /\ At(w, "miss")
  /\ otps' = [otps EXCEPT ![job[w].about].attempts = @ + 1]
  /\ Done(w)
  /\ UNCHANGED <<started, account, sessions, barred, resets, home, spent, ended, via, factor>>

DiscardOtp(w) ==
  /\ At(w, "discard")
  /\ SetUsed({job[w].about})
  /\ Done(w)
  /\ UNCHANGED <<started, account, sessions, barred, resets, home, spent, ended, via, factor>>

\* The list as it was read, less the code.
BurnCode(w) ==
  /\ At(w, "burn")
  /\ account' = [account EXCEPT !.codes = job[w].codes \ {job[w].code}]
  /\ Go(w, "consume")
  /\ UNCHANGED <<started, sessions, barred, otps, resets, home, spent, ended, via, factor>>

\* Variant: the update finds the password by its id alone.
ConsumableById(o) == otps[o].status # "none"

\* The update finds the password only while it is unused.
Consumable(o) == Unused(o)

ConsumeOtp(w) ==
  /\ At(w, "consume")
  /\ \/ /\ Consumable(job[w].about)
        /\ SetUsed({job[w].about})
        /\ via' = [via EXCEPT ![job[w].me] = job[w].about]
        /\ Go(w, IF job[w].purpose = "login" THEN "revoke" ELSE "supersede")
     \/ ~Consumable(job[w].about) /\ Done(w) /\ UNCHANGED <<otps, via>>
  /\ UNCHANGED <<started, account, sessions, barred, resets, home, spent, ended, factor>>

SupersedeResets(w) ==
  /\ At(w, "supersede")
  /\ resets' = [r \in Requests |-> IF resets[r] = "live" THEN "used" ELSE resets[r]]
  /\ Go(w, "grant")
  /\ UNCHANGED <<started, account, sessions, barred, otps, home, spent, ended, via, factor>>

GrantReset(w) ==
  /\ At(w, "grant")
  /\ resets' = [resets EXCEPT ![job[w].me] = "live"]
  /\ Done(w)
  /\ UNCHANGED <<started, account, sessions, barred, otps, home, spent, ended, via, factor>>

\* reset_password: the token, then the sessions, then (password and) passwords.
SpendReset(w) ==
  /\ At(w, "spend")
  /\ resets' = [resets EXCEPT ![job[w].about] = "used"]
  /\ Go(w, "revoke")
  /\ UNCHANGED <<started, account, sessions, barred, otps, home, spent, ended, via, factor>>

\* revoke_all_user_sessions
ToRevoke == {s \in Opened : ~sessions[s].revoked}

RevokeAll(w) ==
  /\ At(w, "revoke")
  /\ Revoke(ToRevoke)
  /\ Go(w, IF job[w].kind = "reset" THEN "retireAll" ELSE "create")
  /\ UNCHANGED <<started, account, barred, otps, resets, home, spent, ended, via, factor>>

RetireAllOtps(w) ==
  /\ At(w, "retireAll")
  /\ SetUsed({o \in Requests : Unused(o)})
  /\ Answer(w)
  /\ UNCHANGED <<started, account, sessions, barred, resets, home, spent, via, factor>>

CreateSession(w) ==
  LET n == job[w].me IN
  /\ At(w, "create")
  /\ sessions' = [sessions EXCEPT ![n] = [NoSession EXCEPT !.open = TRUE, !.cur = n, !.jti = n]]
  /\ home' = [home EXCEPT ![n] = n]
  /\ factor' = [factor EXCEPT ![n] = job[w].code]
  /\ Answer(w)
  /\ UNCHANGED <<started, account, barred, otps, resets, spent, via>>

\* revoke_access_token: of the session as it was read, or the token presented.
Superseded(j) == j.jti

BarAccess(w) ==
  /\ At(w, "bar")
  /\ barred' = barred \cup {Superseded(job[w])}
  /\ IF job[w].kind = "refresh" THEN Go(w, "rotate") /\ UNCHANGED ended ELSE Answer(w)
  /\ UNCHANGED <<started, account, sessions, otps, resets, home, spent, via, factor>>

\* Variant: the document read is written back whole.
RotatedWhole(s, j) == [sessions[s] EXCEPT !.prev = j.token, !.cur = j.me, !.jti = j.me,
                                          !.expired = FALSE, !.revoked = FALSE]

\* Variant: the two refresh tokens are stored the wrong way round.
RotatedSwapped(s, j) == [sessions[s] EXCEPT !.prev = j.me, !.cur = j.token, !.jti = j.me,
                                            !.expired = FALSE]

\* The columns rotate_session_tokens sets; revoked_at is not among them.
Rotated(s, j) == [sessions[s] EXCEPT !.prev = j.token, !.cur = j.me, !.jti = j.me,
                                     !.expired = FALSE]

Rotate(w) ==
  LET j == job[w] IN
  /\ At(w, "rotate")
  /\ sessions' = [sessions EXCEPT ![j.about] = Rotated(j.about, j)]
  /\ home' = [home EXCEPT ![j.me] = j.about]
  /\ spent' = spent \cup {j.token}
  /\ Done(w)
  /\ UNCHANGED <<started, account, barred, otps, resets, ended, via, factor>>

\* revoke_session
DropSession(w) ==
  /\ At(w, "drop")
  /\ Revoke({job[w].about})
  /\ IF job[w].kind = "logout" THEN Go(w, "bar") /\ UNCHANGED ended ELSE Answer(w)
  /\ UNCHANGED <<started, account, barred, otps, resets, home, spent, via, factor>>

\* A request stops early: the process dies, the second factor is wrong, the password
\* has expired when a login is about to consume its code, the reset token it has used
\* up had expired, MongoDB fails.  A logout is confirmed even if MongoDB fails, but
\* then it has ended nothing.
Abandon(w) ==
  /\ job[w].phase # "idle"
  /\ Done(w)
  /\ UNCHANGED <<started, account, sessions, barred, otps, resets, home, spent, ended, via, factor>>

ExpireSession(s) ==
  /\ IsActive(s)
  /\ sessions' = [sessions EXCEPT ![s].expired = TRUE]
  /\ UNCHANGED <<started, account, barred, otps, resets, home, job, spent, ended, via, factor>>

ExpireOtp(o) ==
  /\ otps[o].status = "live"
  /\ otps' = [otps EXCEPT ![o].status = "expired"]
  /\ UNCHANGED <<started, account, sessions, barred, resets, home, job, spent, ended, via, factor>>

-----------------------------------------------------------------------------
Arrive(w) ==
  \/ RequestOtp(w) \/ VerifyOtp(w) \/ PasswordLogin(w) \/ SsoLogin(w)
  \/ ResetPassword(w) \/ Refresh(w) \/ Logout(w) \/ AccessWithOldPassword(w)

Proceed(w) ==
  \/ RetireOtps(w) \/ InsertOtp(w) \/ SendOtp(w) \/ FindOtp(w) \/ CountMiss(w)
  \/ DiscardOtp(w) \/ BurnCode(w) \/ ConsumeOtp(w) \/ SupersedeResets(w)
  \/ GrantReset(w) \/ SpendReset(w) \/ RevokeAll(w) \/ RetireAllOtps(w)
  \/ CreateSession(w) \/ BarAccess(w) \/ Rotate(w) \/ DropSession(w)

Next ==
  \/ \E w \in Workers : Arrive(w) \/ Proceed(w) \/ Abandon(w)
  \/ \E n \in Requests : ExpireSession(n) \/ ExpireOtp(n)

Spec == Init /\ [][Next]_vars

-----------------------------------------------------------------------------
\* A one-time password is consumed once, by whatever requests race for it: the update
\* of verify_login_otp and verify_password_reset_otp that marks it used decides.
OneUsePerOtp ==
  \A m, n \in Requests : via[m] = via[n] /\ via[m] # None => m = n

\* Wrong codes are counted with $inc after the limit was checked on an older copy, so
\* parallel guesses exceed the limit, but by no more than the other threads there are.
GuessesBounded ==
  \A o \in Requests : otps[o].attempts <= MaxAttempts - 1 + Cardinality(Workers)

\* What a login, a password reset, a logout or a detected replay has ended, when it is
\* answered, is over: no access and no refresh token of such a session works again,
\* whatever rotations of it were under way.
EndedSessionsStayOver ==
  \A t \in Issued : home[t] \in ended => ~AccessHonoured(t) /\ ~RefreshHonoured(t)

\* A refresh that begins after another one has exchanged the same token is refused:
\* only refreshes that overlap can both succeed.
SpentTokenIsRefused ==
  \A w \in Workers : job[w].kind = "refresh" /\ job[w].late => job[w].phase = "drop"

\* Each backup code can be used once.
OneUsePerBackupCode ==
  \A m, n \in Requests : factor[m] = factor[n] /\ factor[m] # NoCode => m = n
=============================================================================
