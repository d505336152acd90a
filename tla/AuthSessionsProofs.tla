------------------------- MODULE AuthSessionsProofs -------------------------
(***************************************************************************)
(* Theorems about AuthSessions, for any number of threads and requests.    *)
(*                                                                         *)
(* The inductive invariant says what a request under way may rely on after *)
(* it has read a document: its number is its own, the session it is about  *)
(* exists, the sessions it promises to end are revoked once it has passed  *)
(* the step that revokes them.                                             *)
(***************************************************************************)
EXTENDS AuthSessions, TLAPS, FiniteSetTheorems

Running(w) == job[w].phase # "idle"

\* What the request of thread w has issued so far: no session, no tokens.
NothingIssued(n) == home[n] = None /\ ~sessions[n].open

\* Numbers not given out yet name nothing.
Unnumbered == \A n \in Requests :
  n > started => NothingIssued(n) /\ otps[n].status = "none"

\* Each request under way has a number of its own.
OwnNumber == \A w \in Workers : Running(w) =>
  /\ job[w].me \in 1..started
  /\ \A v \in Workers : Running(v) /\ job[v].me = job[w].me => v = w
  /\ NothingIssued(job[w].me)
  /\ job[w].phase \in {"retire", "insert"} => otps[job[w].me].status = "none"

\* A step finds the document it is about.
KnowsItsDocument == \A w \in Workers :
  /\ job[w].phase \in {"miss", "discard", "burn", "consume", "spend", "drop", "rotate"} =>
       job[w].about \in Requests
  /\ job[w].phase \in {"miss", "discard", "burn", "consume"} =>
       otps[job[w].about].status # "none"
  /\ job[w].phase = "bar" \/ (job[w].phase = "drop" /\ job[w].kind = "logout") =>
       job[w].jti \in Requests
  /\ job[w].phase = "burn" => job[w].code # NoCode
  /\ job[w].phase \in {"bar", "rotate"} /\ job[w].kind = "refresh" =>
       /\ job[w].token \in Requests
       /\ job[w].about # None
       /\ home[job[w].token] = job[w].about
  /\ job[w].phase = "rotate" => job[w].kind = "refresh"

\* A token belongs to a session, and so does a session's own.
TokensHaveSessions ==
  /\ \A t \in Requests : home[t] # None => sessions[home[t]].open
  /\ \A s \in Requests : sessions[s].open =>
       sessions[s].jti \in Requests /\ sessions[s].cur \in Requests /\ home[sessions[s].cur] = s

\* A token once replaced is never again the current one.
SpentIsReplaced == \A t \in spent : home[t] # None /\ sessions[home[t]].cur # t

\* The sessions a request ends are revoked when it comes to answer.
Closed(S) == \A s \in S : sessions[s].open /\ sessions[s].revoked

EndsAreClosed ==
  /\ Closed(ended)
  /\ \A w \in Workers :
       /\ \A s \in job[w].ends : sessions[s].open
       /\ job[w].phase \in {"create", "retireAll", "bar"} => Closed(job[w].ends)
       /\ job[w].phase = "drop" => job[w].ends = {job[w].about}

ConsumedIsUsed == \A n \in Requests : via[n] # None => otps[via[n]].status = "used"

IInv ==
  /\ TypeOK /\ Unnumbered /\ OwnNumber /\ KnowsItsDocument /\ TokensHaveSessions
  /\ SpentIsReplaced /\ EndsAreClosed /\ ConsumedIsUsed /\ OneUsePerOtp /\ SpentTokenIsRefused

-----------------------------------------------------------------------------
USE AuthAssumption DEF Requests, None

\* What a request may be when it begins.
GoodStart(j) ==
  /\ j \in Job /\ j.phase \in {"retire", "find", "revoke", "create", "spend", "drop", "bar"}
  /\ j.phase \in {"spend", "drop"} => j.about \in Requests
  /\ j.phase = "drop" /\ j.kind = "logout" => j.jti \in Requests
  /\ j.phase = "bar" =>
       /\ j.kind = "refresh" /\ j.jti \in Requests /\ j.token \in Requests
       /\ j.about # None /\ home[j.token] = j.about
  /\ \A s \in j.ends : sessions[s].open
  /\ j.phase \in {"create", "bar"} => j.ends = {}
  /\ j.phase = "drop" => j.ends = {j.about}
  /\ j.kind = "refresh" /\ j.late => j.phase = "drop"

LEMMA IdleJobType == IdleJob \in Job
BY DEF IdleJob, Job, Phases, Kinds, Purposes

LEMMA InitInv == Init => IInv
<1> SUFFICES ASSUME Init PROVE IInv
  OBVIOUS
<1>1. TypeOK
  BY IdleJobType DEF Init, TypeOK, Session, NoSession, Otp, NoOtp, Purposes
<1>2. Unnumbered /\ OwnNumber /\ KnowsItsDocument
  BY DEF Init, Unnumbered, NothingIssued, OwnNumber, KnowsItsDocument, Running, IdleJob,
         NoSession, NoOtp
<1>3. TokensHaveSessions /\ SpentIsReplaced /\ EndsAreClosed
  BY DEF Init, TokensHaveSessions, SpentIsReplaced, EndsAreClosed, Closed, IdleJob, NoSession
<1>4. ConsumedIsUsed /\ OneUsePerOtp /\ SpentTokenIsRefused
  BY DEF Init, ConsumedIsUsed, OneUsePerOtp, SpentTokenIsRefused, IdleJob
<1> QED
  BY <1>1, <1>2, <1>3, <1>4 DEF IInv

LEMMA BeginKeeps ==
  ASSUME IInv, NEW w \in Workers, NEW STATE j, GoodStart(j), Begin(w, j)
  PROVE  IInv'
<1> DEFINE k == [j EXCEPT !.me = started + 1]
<1>1. k \in Job /\ started + 1 \in Requests /\ job' = [job EXCEPT ![w] = k]
  <2>1. started \in 0..MaxRequests /\ started < MaxRequests /\ j \in Job
    BY DEF IInv, TypeOK, Begin, GoodStart
  <2>2. started + 1 \in 0..MaxRequests /\ started + 1 \in Requests
    BY <2>1
  <2> QED
    BY <2>1, <2>2 DEF Begin, Job
<1>2. /\ k.me = started + 1 /\ k.phase = j.phase /\ k.kind = j.kind /\ k.about = j.about
      /\ k.jti = j.jti /\ k.token = j.token /\ k.ends = j.ends /\ k.late = j.late
  BY DEF GoodStart, Job
<1> HIDE DEF k
<1>3. \A v \in Workers : job'[v] = IF v = w THEN k ELSE job[v]
  BY <1>1 DEF IInv, TypeOK
<1>4. UNCHANGED <<account, sessions, barred, otps, resets, home, spent, ended, via, factor>>
      /\ started' = started + 1
  BY DEF Begin
<1>5. TypeOK'
  BY <1>1, <1>4 DEF IInv, TypeOK
<1>6. Unnumbered' /\ OwnNumber'
  BY <1>1, <1>2, <1>3, <1>4, SMTT(30) DEF IInv, TypeOK, Unnumbered, OwnNumber, Running, NothingIssued
<1>7. KnowsItsDocument'
  BY <1>2, <1>3, <1>4 DEF IInv, KnowsItsDocument, GoodStart
<1>8. TokensHaveSessions' /\ SpentIsReplaced' /\ ConsumedIsUsed' /\ OneUsePerOtp'
  BY <1>4 DEF IInv, TokensHaveSessions, SpentIsReplaced, ConsumedIsUsed, OneUsePerOtp
<1>9. EndsAreClosed' /\ SpentTokenIsRefused'
  BY <1>2, <1>3, <1>4 DEF IInv, EndsAreClosed, Closed, GoodStart, SpentTokenIsRefused
<1> QED
  BY <1>5, <1>6, <1>7, <1>8, <1>9 DEF IInv

-----------------------------------------------------------------------------
\* A step of thread w that leaves it with job k, and what the documents may do
\* beneath the other threads: sessions are not closed or reopened, numbers of other
\* requests stay as free as they were, tokens keep their sessions.
GoodNext(w, k) ==
  /\ k \in Job /\ job' = [job EXCEPT ![w] = k] /\ started' = started
  /\ Running(w) /\ (k.phase = "idle" \/ k.me = job[w].me)
  /\ k.phase \in {"miss", "discard", "burn", "consume", "spend", "drop", "rotate"} =>
       k.about \in Requests
  /\ k.phase \in {"miss", "discard", "burn", "consume"} => otps'[k.about].status # "none"
  /\ k.phase = "bar" \/ (k.phase = "drop" /\ k.kind = "logout") => k.jti \in Requests
  /\ k.phase = "burn" => k.code # NoCode
  /\ k.phase \in {"bar", "rotate"} /\ k.kind = "refresh" =>
       k.token \in Requests /\ k.about # None /\ home'[k.token] = k.about
  /\ k.phase = "rotate" => k.kind = "refresh"
  /\ \A s \in k.ends : sessions'[s].open
  /\ k.phase \in {"create", "retireAll", "bar"} => \A s \in k.ends : sessions'[s].revoked
  /\ k.phase = "drop" => k.ends = {k.about}
  /\ k.kind = "refresh" /\ k.late => k.phase = "drop"
  /\ k.phase # "idle" => home'[job[w].me] = None /\ ~sessions'[job[w].me].open
  /\ k.phase \in {"retire", "insert"} => otps'[job[w].me].status = "none"

SessionsStay == \A s \in Requests : sessions[s].open =>
  sessions'[s].open /\ (sessions[s].revoked => sessions'[s].revoked)

OthersUntouched(w) == \A n \in Requests :
  /\ n # job[w].me => /\ home'[n] = home[n] /\ (sessions'[n].open <=> sessions[n].open)
                      /\ otps[n].status = "none" => otps'[n].status = "none"
  /\ otps[n].status # "none" => otps'[n].status # "none"

TokensStay == \A t \in Requests : home[t] # None => home'[t] = home[t]

LEMMA StepKeepsJobs ==
  ASSUME IInv, NEW w \in Workers, NEW STATE k, GoodNext(w, k),
         SessionsStay, OthersUntouched(w), TokensStay, Closed(ended)'
  PROVE  /\ job' \in [Workers -> Job] /\ started' \in 0..MaxRequests
         /\ Unnumbered' /\ OwnNumber' /\ KnowsItsDocument'
         /\ EndsAreClosed' /\ SpentTokenIsRefused'
<1>1. \A v \in Workers : job'[v] = IF v = w THEN k ELSE job[v]
  BY DEF IInv, TypeOK, GoodNext
<1>2. job' \in [Workers -> Job] /\ started' \in 0..MaxRequests
  BY DEF IInv, TypeOK, GoodNext
<1>3. job[w].me \in 1..started /\ started \in 0..MaxRequests
  BY DEF IInv, OwnNumber, GoodNext, TypeOK
<1>4. Unnumbered'
  BY <1>3 DEF IInv, Unnumbered, NothingIssued, OthersUntouched, GoodNext
<1>5. OwnNumber'
  <2> SUFFICES ASSUME NEW u \in Workers, job'[u].phase # "idle"
               PROVE  /\ job'[u].me \in 1..started
                      /\ \A v \in Workers : job'[v].phase # "idle" /\ job'[v].me = job'[u].me => v = u
                      /\ home'[job'[u].me] = None /\ ~sessions'[job'[u].me].open
                      /\ job'[u].phase \in {"retire", "insert"} => otps'[job'[u].me].status = "none"
    BY DEF OwnNumber, Running, NothingIssued, GoodNext
  <2>1. \A v \in Workers : job'[v].phase # "idle" => Running(v) /\ job'[v].me = job[v].me
    BY <1>1 DEF GoodNext, Running
  <2>2. CASE u = w
    BY <2>1, <2>2, <1>1, <1>3 DEF IInv, OwnNumber, GoodNext
  <2>3. CASE u # w
    <3>1. job[u].me # job[w].me /\ job[u].me \in 1..started /\ job'[u] = job[u]
      BY <2>1, <2>3, <1>1 DEF IInv, OwnNumber, GoodNext
    <3> QED
      BY <2>1, <2>3, <3>1, <1>3 DEF IInv, OwnNumber, OthersUntouched, NothingIssued
  <2> QED
    BY <2>2, <2>3
<1>6. KnowsItsDocument'
  BY <1>1 DEF IInv, KnowsItsDocument, GoodNext, TokensStay, OthersUntouched
<1>7. EndsAreClosed'
  <2>1. \A u \in Workers : job[u].ends \subseteq Requests
    BY DEF IInv, TypeOK, Job
  <2> QED
    BY <1>1, <2>1 DEF IInv, EndsAreClosed, Closed, GoodNext, SessionsStay
<1>8. SpentTokenIsRefused'
  BY <1>1 DEF IInv, SpentTokenIsRefused, GoodNext
<1> QED
  BY <1>2, <1>4, <1>5, <1>6, <1>7, <1>8

\* A request that is over leaves nothing to keep.
LEMMA DoneIsGood ==
  ASSUME NEW w \in Workers, Running(w), Done(w), started' = started
  PROVE  GoodNext(w, IdleJob)
BY IdleJobType DEF GoodNext, Done, IdleJob

\* What a step may do to the one-time passwords: a used one stays used, and a number
\* that names none still names none unless it is the request's own.
OtpsStay(w) == \A o \in Requests :
  /\ otps[o].status = "used" => otps'[o].status = "used"
  /\ otps[o].status # "none" => otps'[o].status # "none"
  /\ otps[o].status = "none" /\ o # job[w].me => otps'[o].status = "none"

\* A step that touches no session and no token.
LEMMA SameSessions ==
  ASSUME IInv, NEW w \in Workers, UNCHANGED <<sessions, home, spent, ended>>
  PROVE  /\ SessionsStay /\ TokensStay /\ Closed(ended)'
         /\ TokensHaveSessions' /\ SpentIsReplaced'
         /\ OtpsStay(w) => OthersUntouched(w)
BY DEF IInv, SessionsStay, TokensStay, Closed, EndsAreClosed, TokensHaveSessions,
       SpentIsReplaced, OthersUntouched, OtpsStay

\* A step that touches neither sessions nor tokens and consumes nothing.
LEMMA QuietStep ==
  ASSUME IInv, NEW w \in Workers, NEW STATE k, GoodNext(w, k), OtpsStay(w),
         UNCHANGED <<sessions, barred, home, spent, ended, via, factor>>,
         account' \in [privileged : BOOLEAN, codes : SUBSET BackupCodes],
         otps' \in [Requests -> Otp],
         resets' \in [Requests -> {"none", "live", "used"}]
  PROVE  IInv'
<1>1. OthersUntouched(w)
  BY SameSessions
<1>2. /\ job' \in [Workers -> Job] /\ started' \in 0..MaxRequests
      /\ Unnumbered' /\ OwnNumber' /\ KnowsItsDocument'
      /\ EndsAreClosed' /\ SpentTokenIsRefused'
  BY <1>1, SameSessions, StepKeepsJobs
<1>3. TypeOK'
  BY <1>2 DEF IInv, TypeOK
<1>4. \A n \in Requests : via[n] # None => via[n] \in Requests
  BY DEF IInv, TypeOK
<1>5. ConsumedIsUsed'
  BY <1>4 DEF IInv, ConsumedIsUsed, OtpsStay
<1>6. OneUsePerOtp'
  BY DEF IInv, OneUsePerOtp
<1> QED
  BY <1>2, <1>3, <1>5, <1>6, SameSessions DEF IInv

LEMMA SetUsedFacts ==
  ASSUME otps \in [Requests -> Otp], NEW STATE S, SetUsed(S)
  PROVE  /\ otps' \in [Requests -> Otp]
         /\ \A o \in Requests :
              /\ otps'[o].status = IF o \in S THEN "used" ELSE otps[o].status
              /\ otps'[o].attempts = otps[o].attempts
BY DEF SetUsed, Otp

\* A request that goes on to phase p, whatever that phase asks for.
LEMMA GoIsGood ==
  ASSUME IInv, NEW w \in Workers, Running(w), NEW p \in Phases, Go(w, p),
         UNCHANGED <<started, sessions, home>>,
         p \in {"insert", "send", "consume", "supersede", "grant", "revoke"},
         p = "consume" => job[w].about \in Requests /\ otps'[job[w].about].status # "none",
         p = "insert" => otps'[job[w].me].status = "none",
         job[w].kind = "refresh" /\ job[w].late => job[w].phase # "drop"
  PROVE  GoodNext(w, [job[w] EXCEPT !.phase = p])
<1> DEFINE k == [job[w] EXCEPT !.phase = p]
<1>0. job[w] \in Job
  BY DEF IInv, TypeOK
<1>1. /\ k \in Job /\ k.phase = p /\ k.me = job[w].me /\ k.about = job[w].about
      /\ k.kind = job[w].kind /\ k.ends = job[w].ends /\ k.late = job[w].late
  BY <1>0 DEF Job
<1> HIDE DEF k
<1>2. job' = [job EXCEPT ![w] = k] /\ k.phase # "idle"
  BY <1>1 DEF Go, k, IInv, TypeOK
<1>3. home'[job[w].me] = None /\ ~sessions'[job[w].me].open
  BY DEF IInv, OwnNumber, NothingIssued
<1>4. \A s \in k.ends : sessions'[s].open
  BY <1>1 DEF IInv, EndsAreClosed
<1>5. k.kind = "refresh" /\ k.late => k.phase = "drop"
  BY <1>1 DEF IInv, SpentTokenIsRefused
<1>6. GoodNext(w, k)
  BY <1>1, <1>2, <1>3, <1>4, <1>5 DEF GoodNext
<1> QED
  BY <1>6 DEF k

-----------------------------------------------------------------------------
\* The steps that touch neither sessions nor tokens.

LEMMA RetireOtpsKeeps ==
  ASSUME IInv, NEW w \in Workers, RetireOtps(w)
  PROVE  IInv'
<1> DEFINE S == {o \in Requests : Unused(o) /\ otps[o].purpose = job[w].purpose}
<1>1. /\ otps' \in [Requests -> Otp]
      /\ \A o \in Requests : otps'[o].status = IF o \in S THEN "used" ELSE otps[o].status
  <2>1. SetUsed(S) /\ otps \in [Requests -> Otp]
    BY DEF RetireOtps, IInv, TypeOK
  <2> HIDE DEF S
  <2> QED
    BY <2>1, SetUsedFacts
<1>2. OtpsStay(w)
  BY <1>1 DEF OtpsStay, Unused
<1>3. Running(w) /\ job[w].phase = "retire"
  BY DEF RetireOtps, At, Running
<1>4. job[w].me \in Requests /\ otps'[job[w].me].status = "none"
  <2>1. job[w].me \in Requests /\ otps[job[w].me].status = "none"
    BY <1>3 DEF IInv, TypeOK, OwnNumber
  <2> QED
    BY <2>1, <1>1 DEF Unused
<1>5. GoodNext(w, [job[w] EXCEPT !.phase = "insert"])
  BY <1>3, <1>4, GoIsGood DEF RetireOtps, Phases
<1> QED
  BY <1>1, <1>2, <1>5, QuietStep DEF RetireOtps, IInv, TypeOK

LEMMA InsertOtpKeeps ==
  ASSUME IInv, NEW w \in Workers, InsertOtp(w)
  PROVE  IInv'
<1>1. Running(w) /\ job[w].phase = "insert" /\ job[w] \in Job
  BY DEF InsertOtp, At, Running, IInv, TypeOK
<1>2. job[w].me \in Requests /\ otps[job[w].me].status = "none"
  BY <1>1 DEF IInv, TypeOK, OwnNumber
<1>3. otps' \in [Requests -> Otp] /\ OtpsStay(w)
  BY <1>1, <1>2 DEF InsertOtp, IInv, TypeOK, Otp, Job, OtpsStay
<1>4. GoodNext(w, [job[w] EXCEPT !.phase = "send"])
  BY <1>1, GoIsGood DEF InsertOtp, Phases
<1> QED
  BY <1>3, <1>4, QuietStep DEF InsertOtp, IInv, TypeOK

LEMMA SendOtpKeeps ==
  ASSUME IInv, NEW w \in Workers, SendOtp(w)
  PROVE  IInv'
<1>1. Running(w) /\ GoodNext(w, IdleJob)
  BY DoneIsGood DEF SendOtp, At, Running
<1>2. otps' \in [Requests -> Otp] /\ OtpsStay(w)
  BY SetUsedFacts, SMTT(30) DEF SendOtp, IInv, TypeOK, OtpsStay
<1> QED
  BY <1>1, <1>2, QuietStep DEF SendOtp, IInv, TypeOK

LEMMA FindOtpKeeps ==
  ASSUME IInv, NEW w \in Workers, FindOtp(w)
  PROVE  IInv'
<1>1. Running(w) /\ job[w] \in Job /\ started' = started /\ OtpsStay(w)
  BY DEF FindOtp, At, Running, IInv, TypeOK, OtpsStay
<1>2. CASE Done(w)
  BY <1>1, <1>2, DoneIsGood, QuietStep DEF FindOtp, IInv, TypeOK
<1>3. ASSUME NEW o \in Requests, NEW p \in {"discard", "miss", "consume", "burn"},
             NEW c \in BackupCodes \cup {NoCode}, p = "burn" => c # NoCode,
             otps[o].status # "none",
             job' = [job EXCEPT ![w].phase = p, ![w].about = o, ![w].code = c]
      PROVE  IInv'
  <2> DEFINE k == [job[w] EXCEPT !.phase = p, !.about = o, !.code = c]
  <2>0. p \in Phases /\ o \in 0..MaxRequests
    BY DEF Phases
  <2>01. k \in Job
    BY <1>1, <2>0 DEF Job
  <2>1. /\ k \in Job /\ k.phase = p /\ k.about = o /\ k.code = c /\ k.me = job[w].me
        /\ k.kind = job[w].kind /\ k.ends = job[w].ends /\ k.late = job[w].late
    BY <1>1, <2>01 DEF Job
  <2>2. job' = [job EXCEPT ![w] = k]
    BY <1>3 DEF IInv, TypeOK
  <2> HIDE DEF k
  <2>3. home'[job[w].me] = None /\ ~sessions'[job[w].me].open
    BY <1>1 DEF FindOtp, IInv, OwnNumber, NothingIssued
  <2>4. \A s \in k.ends : sessions'[s].open
    BY <2>1 DEF FindOtp, IInv, EndsAreClosed
  <2>5. ~(k.kind = "refresh" /\ k.late)
    BY <2>1 DEF FindOtp, At, IInv, SpentTokenIsRefused
  <2>6. GoodNext(w, k)
    BY <1>1, <1>3, <2>1, <2>2, <2>3, <2>4, <2>5 DEF GoodNext, FindOtp
  <2> QED
    BY <1>1, <2>6, QuietStep DEF FindOtp, IInv, TypeOK
<1>4. (\A o \in NewestOtps(job[w].purpose) : o \in Requests /\ otps[o].status # "none") /\ job[w].codes \subseteq BackupCodes
  BY <1>1 DEF NewestOtps, Unused, Job
<1> QED
  BY <1>2, <1>3, <1>4 DEF FindOtp

LEMMA CountMissKeeps ==
  ASSUME IInv, NEW w \in Workers, CountMiss(w)
  PROVE  IInv'
<1>1. Running(w) /\ GoodNext(w, IdleJob)
  BY DoneIsGood DEF CountMiss, At, Running
<1>2. otps' \in [Requests -> Otp] /\ OtpsStay(w)
  <2>1. job[w].about \in Requests /\ otps \in [Requests -> Otp]
    BY DEF CountMiss, At, IInv, TypeOK, KnowsItsDocument
  <2>2. otps' = [otps EXCEPT ![job[w].about].attempts = otps[job[w].about].attempts + 1]
    BY DEF CountMiss
  <2>3. otps' \in [Requests -> Otp]
    BY <2>1, <2>2, SMTT(30) DEF Otp
  <2>4. \A o \in Requests : otps'[o].status = otps[o].status
    BY <2>1, <2>2, SMTT(30)
  <2> QED
    BY <2>3, <2>4 DEF OtpsStay
<1> QED
  BY <1>1, <1>2, QuietStep DEF CountMiss, IInv, TypeOK

LEMMA DiscardOtpKeeps ==
  ASSUME IInv, NEW w \in Workers, DiscardOtp(w)
  PROVE  IInv'
<1>1. Running(w) /\ GoodNext(w, IdleJob)
  BY DoneIsGood DEF DiscardOtp, At, Running
<1>2. otps' \in [Requests -> Otp] /\ OtpsStay(w)
  <2>1. SetUsed({job[w].about}) /\ otps \in [Requests -> Otp]
    BY DEF DiscardOtp, IInv, TypeOK
  <2> QED
    <3>1. job[w].about \in Requests /\ otps[job[w].about].status # "none"
      BY DEF DiscardOtp, At, IInv, KnowsItsDocument
    <3> QED
      BY <2>1, <3>1, SetUsedFacts DEF OtpsStay
<1> QED
  BY <1>1, <1>2, QuietStep DEF DiscardOtp, IInv, TypeOK

LEMMA BurnCodeKeeps ==
  ASSUME IInv, NEW w \in Workers, BurnCode(w)
  PROVE  IInv'
<1>1. Running(w) /\ job[w].phase = "burn" /\ job[w] \in Job /\ OtpsStay(w)
  BY DEF BurnCode, At, Running, IInv, TypeOK, OtpsStay
<1>2. job[w].about \in Requests /\ otps'[job[w].about].status # "none"
  BY <1>1 DEF BurnCode, IInv, KnowsItsDocument
<1>3. GoodNext(w, [job[w] EXCEPT !.phase = "consume"])
  BY <1>1, <1>2, GoIsGood DEF BurnCode, Phases
<1>4. account' \in [privileged : BOOLEAN, codes : SUBSET BackupCodes]
  BY <1>1 DEF BurnCode, IInv, TypeOK, Job
<1> QED
  BY <1>1, <1>3, <1>4, QuietStep DEF BurnCode, IInv, TypeOK

\* The one step that consumes: the password it is about was unused, so no request had
\* consumed it.
LEMMA ConsumeOtpKeeps ==
  ASSUME IInv, NEW w \in Workers, ConsumeOtp(w)
  PROVE  IInv'
<1>1. /\ Running(w) /\ job[w].phase = "consume" /\ job[w].about \in Requests
      /\ job[w].me \in Requests /\ otps \in [Requests -> Otp]
  BY DEF ConsumeOtp, At, Running, IInv, TypeOK, KnowsItsDocument, OwnNumber
<1>2. CASE Done(w) /\ UNCHANGED <<otps, via>>
  <2>1. GoodNext(w, IdleJob) /\ OtpsStay(w)
    BY <1>1, <1>2, DoneIsGood DEF ConsumeOtp, OtpsStay
  <2> QED
    BY <1>2, <2>1, QuietStep DEF ConsumeOtp, IInv, TypeOK
<1>3. CASE /\ Consumable(job[w].about) /\ SetUsed({job[w].about})
           /\ via' = [via EXCEPT ![job[w].me] = job[w].about]
           /\ Go(w, IF job[w].purpose = "login" THEN "revoke" ELSE "supersede")
  <2>1. /\ otps' \in [Requests -> Otp]
        /\ \A o \in Requests :
             otps'[o].status = IF o = job[w].about THEN "used" ELSE otps[o].status
    BY <1>1, <1>3, SetUsedFacts
  <2>2. otps[job[w].about].status # "used" /\ OtpsStay(w)
    BY <1>1, <1>3, <2>1 DEF Consumable, Unused, OtpsStay
  <2>3. PICK q \in {"revoke", "supersede"} : Go(w, q)
    BY <1>3
  <2>4. GoodNext(w, [job[w] EXCEPT !.phase = q])
    BY <1>1, <2>3, GoIsGood DEF ConsumeOtp, Phases
  <2>5. OthersUntouched(w)
    BY <2>2, SameSessions DEF ConsumeOtp
  <2>6. /\ job' \in [Workers -> Job] /\ started' \in 0..MaxRequests
        /\ Unnumbered' /\ OwnNumber' /\ KnowsItsDocument'
        /\ EndsAreClosed' /\ SpentTokenIsRefused' /\ TokensHaveSessions' /\ SpentIsReplaced'
    BY <2>4, <2>5, SameSessions, StepKeepsJobs DEF ConsumeOtp
  <2>7. \A n \in Requests : via'[n] = IF n = job[w].me THEN job[w].about ELSE via[n]
    BY <1>1, <1>3 DEF IInv, TypeOK
  <2>8. \A n \in Requests : via[n] # None => via[n] \in Requests /\ otps[via[n]].status = "used"
    BY DEF IInv, TypeOK, ConsumedIsUsed
  <2>9. ConsumedIsUsed'
    BY <1>1, <2>1, <2>7, <2>8 DEF ConsumedIsUsed
  <2>10. OneUsePerOtp'
    BY <2>2, <2>7, <2>8 DEF IInv, OneUsePerOtp
  <2>11. via' \in [Requests -> 0..MaxRequests]
    BY <1>1, <1>3 DEF IInv, TypeOK
  <2>12. TypeOK'
    BY <2>1, <2>6, <2>11 DEF ConsumeOtp, IInv, TypeOK
  <2> QED
    BY <2>6, <2>9, <2>10, <2>12 DEF IInv
<1> QED
  BY <1>2, <1>3 DEF ConsumeOtp

LEMMA ResetTokenStepsKeep ==
  ASSUME IInv, NEW w \in Workers, SupersedeResets(w) \/ GrantReset(w) \/ SpendReset(w)
  PROVE  IInv'
<1>1. /\ Running(w) /\ job[w].phase \in {"supersede", "grant", "spend"} /\ OtpsStay(w)
      /\ UNCHANGED <<started, account, sessions, barred, otps, home, spent, ended, via, factor>>
  BY DEF SupersedeResets, GrantReset, SpendReset, At, Running, IInv, TypeOK, OtpsStay
<1>2. resets' \in [Requests -> {"none", "live", "used"}]
  BY DEF SupersedeResets, GrantReset, SpendReset, IInv, TypeOK
<1>3. CASE Done(w)
  BY <1>1, <1>2, <1>3, DoneIsGood, QuietStep DEF IInv, TypeOK
<1>4. CASE \E q \in {"grant", "revoke"} : Go(w, q)
  <2>1. PICK q \in {"grant", "revoke"} : Go(w, q)
    BY <1>4
  <2>2. GoodNext(w, [job[w] EXCEPT !.phase = q])
    BY <1>1, <2>1, GoIsGood DEF Phases
  <2> QED
    BY <1>1, <1>2, <2>2, QuietStep DEF IInv, TypeOK
<1> QED
  BY <1>3, <1>4 DEF SupersedeResets, GrantReset, SpendReset

LEMMA AbandonKeeps ==
  ASSUME IInv, NEW w \in Workers, Abandon(w)
  PROVE  IInv'
<1>1. Running(w) /\ GoodNext(w, IdleJob) /\ OtpsStay(w)
  BY DoneIsGood DEF Abandon, Running, OtpsStay
<1> QED
  BY <1>1, QuietStep DEF Abandon, IInv, TypeOK

-----------------------------------------------------------------------------
\* The steps that end sessions.

LEMMA OwnFacts ==
  ASSUME IInv, NEW w \in Workers, Running(w)
  PROVE  job[w].me \in Requests /\ home[job[w].me] = None /\ ~sessions[job[w].me].open
<1>1. job[w].me \in 1..started /\ NothingIssued(job[w].me)
  BY DEF IInv, OwnNumber
<1>2. started \in 0..MaxRequests
  BY DEF IInv, TypeOK
<1> QED
  BY <1>1, <1>2 DEF NothingIssued

LEMMA RevokeFacts ==
  ASSUME IInv, NEW STATE S, Revoke(S), UNCHANGED <<home, spent>>
  PROVE  /\ sessions' \in [Requests -> Session]
         /\ \A s \in Requests :
              /\ (sessions'[s].open <=> sessions[s].open)
              /\ sessions[s].revoked \/ s \in S => sessions'[s].revoked
         /\ SessionsStay /\ TokensStay /\ TokensHaveSessions' /\ SpentIsReplaced'
<1>1. sessions \in [Requests -> Session] /\ home \in [Requests -> 0..MaxRequests]
      /\ spent \subseteq Requests
  BY DEF IInv, TypeOK
<1>2. /\ sessions' \in [Requests -> Session]
      /\ \A s \in Requests :
           /\ (sessions'[s].open <=> sessions[s].open) /\ sessions'[s].cur = sessions[s].cur
           /\ sessions'[s].jti = sessions[s].jti
           /\ sessions[s].revoked \/ s \in S => sessions'[s].revoked
  BY <1>1 DEF Revoke, Session
<1>3. SessionsStay /\ TokensStay
  BY <1>2 DEF SessionsStay, TokensStay
<1>4. TokensHaveSessions'
  <2>1. TokensHaveSessions /\ \A t \in Requests : home[t] # None => home[t] \in Requests
    BY <1>1 DEF IInv
  <2> QED
    BY <1>2, <2>1 DEF TokensHaveSessions
<1>5. SpentIsReplaced'
  <2>1. SpentIsReplaced /\ \A t \in spent : home[t] # None => home[t] \in Requests
    BY <1>1 DEF IInv
  <2> QED
    BY <1>2, <2>1 DEF SpentIsReplaced
<1> QED
  BY <1>2, <1>3, <1>4, <1>5

LEMMA RevokeAllKeeps ==
  ASSUME IInv, NEW w \in Workers, RevokeAll(w)
  PROVE  IInv'
<1>1. Running(w) /\ job[w].phase = "revoke" /\ job[w] \in Job
  BY DEF RevokeAll, At, Running, IInv, TypeOK
<1>2. UNCHANGED <<started, account, barred, otps, resets, home, spent, ended, via, factor>>
  BY DEF RevokeAll
<1>3. /\ sessions' \in [Requests -> Session]
      /\ \A s \in Requests :
           /\ (sessions'[s].open <=> sessions[s].open)
           /\ sessions[s].open => sessions'[s].revoked
      /\ SessionsStay /\ TokensStay /\ TokensHaveSessions' /\ SpentIsReplaced'
  <2>1. \A s \in Requests : sessions[s].open => sessions[s].revoked \/ s \in ToRevoke
    BY DEF ToRevoke, Opened
  <2>2. Revoke(ToRevoke)
    BY DEF RevokeAll
  <2> QED
    BY <1>2, <2>1, <2>2, RevokeFacts
<1>4. OthersUntouched(w) /\ Closed(ended)'
  <2>1. ended \subseteq Requests /\ Closed(ended) /\ ended' = ended
    BY DEF RevokeAll, IInv, TypeOK, EndsAreClosed
  <2> QED
    BY <1>2, <1>3, <2>1 DEF OthersUntouched, Closed
<1>5. PICK q \in {"retireAll", "create"} : Go(w, q)
  BY DEF RevokeAll
<1> DEFINE k == [job[w] EXCEPT !.phase = q]
<1>6. /\ k \in Job /\ k.phase = q /\ k.me = job[w].me /\ k.kind = job[w].kind
      /\ k.ends = job[w].ends /\ k.late = job[w].late
  BY <1>1 DEF Job, Phases
<1>7. job' = [job EXCEPT ![w] = k]
  BY <1>5 DEF Go, IInv, TypeOK
<1> HIDE DEF k
<1>8. k.ends \subseteq Requests /\ \A s \in k.ends : sessions[s].open
  BY <1>1, <1>6 DEF Job, IInv, EndsAreClosed
<1>9. ~(k.kind = "refresh" /\ k.late)
  BY <1>1, <1>6 DEF IInv, SpentTokenIsRefused
<1>10. home'[job[w].me] = None /\ ~sessions'[job[w].me].open
  BY <1>1, <1>2, <1>3, OwnFacts
<1>11. GoodNext(w, k)
  BY <1>1, <1>2, <1>3, <1>6, <1>7, <1>8, <1>9, <1>10 DEF GoodNext
<1>12. /\ job' \in [Workers -> Job] /\ started' \in 0..MaxRequests
       /\ Unnumbered' /\ OwnNumber' /\ KnowsItsDocument'
       /\ EndsAreClosed' /\ SpentTokenIsRefused'
  BY <1>3, <1>4, <1>11, StepKeepsJobs
<1>13. TypeOK' /\ ConsumedIsUsed' /\ OneUsePerOtp'
  BY <1>2, <1>3, <1>12 DEF IInv, TypeOK, ConsumedIsUsed, OneUsePerOtp
<1> QED
  BY <1>3, <1>12, <1>13 DEF IInv

\* revoke_session, before the answer or before the access token is barred.
LEMMA DropSessionKeeps ==
  ASSUME IInv, NEW w \in Workers, DropSession(w)
  PROVE  IInv'
<1>1. /\ Running(w) /\ job[w].phase = "drop" /\ job[w] \in Job /\ job[w].about \in Requests
      /\ job[w].ends = {job[w].about} /\ sessions[job[w].about].open
  BY DEF DropSession, At, Running, IInv, TypeOK, KnowsItsDocument, EndsAreClosed
<1>2. /\ Revoke({job[w].about})
      /\ UNCHANGED <<started, account, barred, otps, resets, home, spent, via, factor>>
  BY DEF DropSession
<1>3. /\ sessions' \in [Requests -> Session]
      /\ \A s \in Requests :
           /\ (sessions'[s].open <=> sessions[s].open)
           /\ sessions[s].revoked \/ s = job[w].about => sessions'[s].revoked
      /\ SessionsStay /\ TokensStay /\ TokensHaveSessions' /\ SpentIsReplaced'
  BY <1>2, RevokeFacts
<1>4. ended' \subseteq Requests /\ Closed(ended)' /\ OthersUntouched(w)
  BY <1>1, <1>2, <1>3 DEF DropSession, Answer, OthersUntouched, Closed, IInv, TypeOK, EndsAreClosed
<1>5. \E k : GoodNext(w, k)
  <2>1. CASE Done(w)
    BY <1>1, <1>2, <2>1, DoneIsGood
  <2>2. CASE job[w].kind = "logout" /\ Go(w, "bar")
    <3> DEFINE k == [job[w] EXCEPT !.phase = "bar"]
    <3>1. /\ k \in Job /\ k.phase = "bar" /\ k.me = job[w].me /\ k.kind = "logout"
          /\ k.ends = {job[w].about} /\ k.jti = job[w].jti
      BY <1>1, <2>2 DEF Job, Phases
    <3>2. job' = [job EXCEPT ![w] = k]
      BY <2>2 DEF Go, IInv, TypeOK
    <3> HIDE DEF k
    <3>3. job[w].jti \in Requests
      BY <1>1, <2>2 DEF IInv, KnowsItsDocument
    <3>4. home'[job[w].me] = None /\ ~sessions'[job[w].me].open
      BY <1>1, <1>2, <1>3, OwnFacts
    <3> QED
      BY <1>1, <1>2, <1>3, <3>1, <3>2, <3>3, <3>4 DEF GoodNext
  <2> QED
    BY <2>1, <2>2 DEF DropSession, Answer
<1>6. /\ job' \in [Workers -> Job] /\ started' \in 0..MaxRequests
      /\ Unnumbered' /\ OwnNumber' /\ KnowsItsDocument'
      /\ EndsAreClosed' /\ SpentTokenIsRefused'
  BY <1>3, <1>4, <1>5, StepKeepsJobs
<1>7. TypeOK' /\ ConsumedIsUsed' /\ OneUsePerOtp'
  BY <1>2, <1>3, <1>4, <1>6 DEF IInv, TypeOK, ConsumedIsUsed, OneUsePerOtp
<1> QED
  BY <1>3, <1>6, <1>7 DEF IInv

LEMMA RetireAllOtpsKeeps ==
  ASSUME IInv, NEW w \in Workers, RetireAllOtps(w)
  PROVE  IInv'
<1>1. /\ Running(w) /\ job[w].phase = "retireAll" /\ job[w] \in Job
      /\ UNCHANGED <<started, account, sessions, barred, resets, home, spent, via, factor>>
  BY DEF RetireAllOtps, At, Running, IInv, TypeOK
<1>2. otps' \in [Requests -> Otp] /\ OtpsStay(w)
  <2> DEFINE S == {o \in Requests : Unused(o)}
  <2>1. /\ SetUsed(S) /\ otps \in [Requests -> Otp]
        /\ \A o \in S : otps[o].status # "none"
    BY DEF RetireAllOtps, IInv, TypeOK, Unused
  <2> HIDE DEF S
  <2> QED
    BY <2>1, SetUsedFacts DEF OtpsStay
<1>3. GoodNext(w, IdleJob) /\ ended' = ended \cup job[w].ends
  BY <1>1, DoneIsGood DEF RetireAllOtps, Answer
<1>4. ended' \subseteq Requests /\ Closed(ended)'
  BY <1>1, <1>3 DEF Job, IInv, TypeOK, EndsAreClosed, Closed
<1>5. OthersUntouched(w) /\ SessionsStay /\ TokensStay
  BY <1>1, <1>2 DEF OthersUntouched, OtpsStay, SessionsStay, TokensStay
<1>6. /\ job' \in [Workers -> Job] /\ started' \in 0..MaxRequests
      /\ Unnumbered' /\ OwnNumber' /\ KnowsItsDocument'
      /\ EndsAreClosed' /\ SpentTokenIsRefused'
  BY <1>3, <1>4, <1>5, StepKeepsJobs
<1>7. TokensHaveSessions' /\ SpentIsReplaced' /\ OneUsePerOtp'
  BY <1>1 DEF IInv, TokensHaveSessions, SpentIsReplaced, OneUsePerOtp
<1>8. ConsumedIsUsed'
  <2>1. \A n \in Requests : via[n] # None => via[n] \in Requests
    BY DEF IInv, TypeOK
  <2> QED
    BY <1>1, <1>2, <2>1 DEF IInv, ConsumedIsUsed, OtpsStay
<1>9. TypeOK'
  BY <1>1, <1>2, <1>4, <1>6 DEF IInv, TypeOK
<1> QED
  BY <1>6, <1>7, <1>8, <1>9 DEF IInv

LEMMA BarAccessKeeps ==
  ASSUME IInv, NEW w \in Workers, BarAccess(w)
  PROVE  IInv'
<1>1. /\ Running(w) /\ job[w].phase = "bar" /\ job[w] \in Job /\ job[w].jti \in Requests
      /\ UNCHANGED <<started, account, sessions, otps, resets, home, spent, via, factor>>
  BY DEF BarAccess, At, Running, IInv, TypeOK, KnowsItsDocument
<1>2. barred' \subseteq Requests
  BY <1>1 DEF BarAccess, Superseded, IInv, TypeOK
<1>3. ended' \subseteq Requests /\ Closed(ended)'
  BY <1>1 DEF BarAccess, Answer, Job, IInv, TypeOK, EndsAreClosed, Closed
<1>4. OthersUntouched(w) /\ SessionsStay /\ TokensStay
  BY <1>1 DEF OthersUntouched, SessionsStay, TokensStay
<1>5. \E k : GoodNext(w, k)
  <2>1. CASE Done(w)
    BY <1>1, <2>1, DoneIsGood
  <2>2. CASE job[w].kind = "refresh" /\ Go(w, "rotate")
    <3> DEFINE k == [job[w] EXCEPT !.phase = "rotate"]
    <3>1. /\ k \in Job /\ k.phase = "rotate" /\ k.me = job[w].me /\ k.kind = "refresh"
          /\ k.ends = job[w].ends /\ k.token = job[w].token /\ k.about = job[w].about
          /\ k.late = job[w].late
      BY <1>1, <2>2 DEF Job, Phases
    <3>2. job' = [job EXCEPT ![w] = k]
      BY <2>2 DEF Go, IInv, TypeOK
    <3> HIDE DEF k
    <3>3. /\ job[w].token \in Requests /\ job[w].about # None
          /\ home[job[w].token] = job[w].about /\ job[w].about \in Requests
      BY <1>1, <2>2 DEF IInv, TypeOK, KnowsItsDocument
    <3>4. ~job[w].late /\ \A s \in job[w].ends : sessions[s].open
      BY <1>1, <2>2 DEF IInv, SpentTokenIsRefused, EndsAreClosed
    <3> QED
      BY <1>1, <3>1, <3>2, <3>3, <3>4, OwnFacts DEF GoodNext
  <2> QED
    BY <2>1, <2>2 DEF BarAccess, Answer
<1>6. /\ job' \in [Workers -> Job] /\ started' \in 0..MaxRequests
      /\ Unnumbered' /\ OwnNumber' /\ KnowsItsDocument'
      /\ EndsAreClosed' /\ SpentTokenIsRefused'
  BY <1>3, <1>4, <1>5, StepKeepsJobs
<1>7. TokensHaveSessions' /\ SpentIsReplaced' /\ ConsumedIsUsed' /\ OneUsePerOtp'
  BY <1>1 DEF IInv, TokensHaveSessions, SpentIsReplaced, ConsumedIsUsed, OneUsePerOtp
<1>8. TypeOK'
  BY <1>1, <1>2, <1>3, <1>6 DEF IInv, TypeOK
<1> QED
  BY <1>6, <1>7, <1>8 DEF IInv

-----------------------------------------------------------------------------
\* The steps that issue tokens.

\* The new session has the request's number, which names nothing before.
LEMMA CreateSessionKeeps ==
  ASSUME IInv, NEW w \in Workers, CreateSession(w)
  PROVE  IInv'
<1> DEFINE n == job[w].me
<1>1. /\ Running(w) /\ job[w].phase = "create" /\ job[w] \in Job
      /\ UNCHANGED <<started, account, barred, otps, resets, spent, via>>
  BY DEF CreateSession, At, Running, IInv, TypeOK
<1>2. n \in Requests /\ home[n] = None /\ ~sessions[n].open
  BY <1>1, OwnFacts
<1>3. /\ sessions \in [Requests -> Session] /\ home \in [Requests -> 0..MaxRequests]
      /\ spent \subseteq Requests /\ ended \subseteq Requests
  BY DEF IInv, TypeOK
<1>4. /\ sessions' \in [Requests -> Session]
      /\ sessions'[n].open /\ sessions'[n].cur = n /\ sessions'[n].jti = n
      /\ \A s \in Requests : s # n => sessions'[s] = sessions[s]
  <2> DEFINE d == [NoSession EXCEPT !.open = TRUE, !.cur = n, !.jti = n]
  <2>1. d \in Session /\ d.open = TRUE /\ d.cur = n /\ d.jti = n
    <3>1. n \in 0..MaxRequests /\ 0 \in 0..MaxRequests
      BY <1>2
    <3> HIDE DEF n
    <3> QED
      BY <3>1 DEF Session, NoSession
  <2>2. sessions' = [sessions EXCEPT ![n] = d]
    BY DEF CreateSession
  <2> HIDE DEF d, n
  <2> QED
    BY <1>2, <1>3, <2>1, <2>2
<1>5. /\ home' \in [Requests -> 0..MaxRequests] /\ home'[n] = n
      /\ \A t \in Requests : t # n => home'[t] = home[t]
  BY <1>2, <1>3 DEF CreateSession
<1>6. factor' \in [Requests -> BackupCodes \cup {NoCode}]
  BY <1>1, <1>2 DEF CreateSession, IInv, TypeOK, Job
<1>7. GoodNext(w, IdleJob) /\ ended' = ended \cup job[w].ends
  BY <1>1, DoneIsGood DEF CreateSession, Answer
<1>8. ended' \subseteq Requests /\ Closed(ended)'
  <2>1. job[w].ends \subseteq Requests /\ Closed(job[w].ends) /\ Closed(ended)
    BY <1>1 DEF Job, IInv, EndsAreClosed
  <2> QED
    BY <1>2, <1>3, <1>4, <1>7, <2>1 DEF Closed
<1>9. SessionsStay /\ TokensStay /\ OthersUntouched(w)
  BY <1>1, <1>2, <1>4, <1>5 DEF SessionsStay, TokensStay, OthersUntouched
<1>10. /\ job' \in [Workers -> Job] /\ started' \in 0..MaxRequests
       /\ Unnumbered' /\ OwnNumber' /\ KnowsItsDocument'
       /\ EndsAreClosed' /\ SpentTokenIsRefused'
  BY <1>7, <1>8, <1>9, StepKeepsJobs
<1>11. TokensHaveSessions'
  <2>1. TokensHaveSessions
    BY DEF IInv
  <2> HIDE DEF n
  <2>2. \A t \in Requests : home'[t] # None => home'[t] \in Requests /\ sessions'[home'[t]].open
    BY <1>2, <1>3, <1>4, <1>5, <2>1 DEF TokensHaveSessions
  <2>3. ASSUME NEW s \in Requests, sessions'[s].open
        PROVE  sessions'[s].jti \in Requests /\ sessions'[s].cur \in Requests
               /\ home'[sessions'[s].cur] = s
    BY <1>2, <1>4, <1>5, <2>1, <2>3 DEF TokensHaveSessions
  <2> QED
    BY <2>2, <2>3 DEF TokensHaveSessions
<1>12. SpentIsReplaced'
  <2>1. SpentIsReplaced /\ TokensHaveSessions
    BY DEF IInv
  <2> QED
    BY <1>1, <1>2, <1>3, <1>4, <1>5, <2>1, SMTT(30) DEF SpentIsReplaced, TokensHaveSessions
<1>13. ConsumedIsUsed' /\ OneUsePerOtp'
  BY <1>1 DEF IInv, ConsumedIsUsed, OneUsePerOtp
<1>14. TypeOK'
  BY <1>1, <1>4, <1>5, <1>6, <1>8, <1>10 DEF IInv, TypeOK
<1> QED
  BY <1>10, <1>11, <1>12, <1>13, <1>14 DEF IInv

\* The new pair has the request's number; the token presented belongs to the session,
\* so it is another number than the one that becomes current.
LEMMA RotateKeeps ==
  ASSUME IInv, NEW w \in Workers, Rotate(w)
  PROVE  IInv'
<1> DEFINE n == job[w].me
           s == job[w].about
           t == job[w].token
<1>1. /\ Running(w) /\ job[w].phase = "rotate" /\ job[w] \in Job
      /\ UNCHANGED <<started, account, barred, otps, resets, ended, via, factor>>
  BY DEF Rotate, At, Running, IInv, TypeOK
<1>2. n \in Requests /\ home[n] = None /\ ~sessions[n].open
  BY <1>1, OwnFacts
<1>3. s \in Requests /\ t \in Requests /\ home[t] = s /\ s # None
  BY <1>1 DEF IInv, KnowsItsDocument
<1>4. /\ sessions \in [Requests -> Session] /\ home \in [Requests -> 0..MaxRequests]
      /\ spent \subseteq Requests /\ ended \subseteq Requests
  BY DEF IInv, TypeOK
<1>5. sessions[s].open
  BY <1>3 DEF IInv, TokensHaveSessions
<1>6. /\ sessions' \in [Requests -> Session]
      /\ sessions'[s].open /\ sessions'[s].cur = n /\ sessions'[s].jti = n
      /\ sessions[s].revoked => sessions'[s].revoked
      /\ \A r \in Requests : r # s => sessions'[r] = sessions[r]
  <2> DEFINE d == Rotated(s, job[w])
  <2>1. d = [sessions[s] EXCEPT !.prev = t, !.cur = n, !.jti = n, !.expired = FALSE]
    BY DEF Rotated
  <2>2. sessions' = [sessions EXCEPT ![s] = d] /\ sessions[s] \in Session
    BY <1>3, <1>4 DEF Rotate
  <2> HIDE DEF d, n, s, t
  <2>3. n \in 0..MaxRequests /\ t \in 0..MaxRequests
    BY <1>2, <1>3
  <2>4. d \in Session /\ d.cur = n /\ d.jti = n /\ d.open = sessions[s].open
        /\ d.revoked = sessions[s].revoked
    BY <2>1, <2>2, <2>3 DEF Session
  <2> QED
    BY <1>3, <1>4, <1>5, <2>2, <2>4
<1>7. /\ home' \in [Requests -> 0..MaxRequests] /\ home'[n] = s
      /\ \A r \in Requests : r # n => home'[r] = home[r]
  BY <1>2, <1>3, <1>4 DEF Rotate
<1>8. GoodNext(w, IdleJob) /\ spent' = spent \cup {t}
  BY <1>1, DoneIsGood DEF Rotate
<1>9. Closed(ended)'
  <2>1. Closed(ended)
    BY DEF IInv, EndsAreClosed
  <2> QED
    BY <1>1, <1>4, <1>6, <2>1 DEF Closed
<1>10. SessionsStay /\ TokensStay /\ OthersUntouched(w)
  BY <1>1, <1>2, <1>5, <1>6, <1>7 DEF SessionsStay, TokensStay, OthersUntouched
<1>11. /\ job' \in [Workers -> Job] /\ started' \in 0..MaxRequests
       /\ Unnumbered' /\ OwnNumber' /\ KnowsItsDocument'
       /\ EndsAreClosed' /\ SpentTokenIsRefused'
  BY <1>8, <1>9, <1>10, StepKeepsJobs
<1>12. TokensHaveSessions'
  <2>1. TokensHaveSessions
    BY DEF IInv
  <2> HIDE DEF n, s, t
  <2>2. \A r \in Requests : home'[r] # None => home'[r] \in Requests /\ sessions'[home'[r]].open
    <3>1. \A r \in Requests : home[r] # None => home[r] \in Requests
      BY <1>4
    <3> QED
      BY <1>3, <1>6, <1>7, <2>1, <3>1 DEF TokensHaveSessions
  <2>3. ASSUME NEW r \in Requests, sessions'[r].open
        PROVE  sessions'[r].jti \in Requests /\ sessions'[r].cur \in Requests
               /\ home'[sessions'[r].cur] = r
    <3>1. CASE r = s
      BY <1>2, <1>6, <1>7, <3>1
    <3>2. CASE r # s
      <4>1. sessions'[r] = sessions[r] /\ sessions[r].open
        BY <1>6, <2>3, <3>2
      <4>2. sessions[r].jti \in Requests /\ sessions[r].cur \in Requests /\ home[sessions[r].cur] = r
        BY <2>1, <4>1 DEF TokensHaveSessions
      <4> QED
        BY <1>2, <1>7, <4>1, <4>2
    <3> QED
      BY <3>1, <3>2
  <2> QED
    BY <2>2, <2>3 DEF TokensHaveSessions
<1>13. SpentIsReplaced'
  <2>1. SpentIsReplaced
    BY DEF IInv
  <2> HIDE DEF n, s, t
  <2>2. \A r \in spent' : r \in Requests /\ home[r] \in Requests /\ r # n
    <3>1. \A r \in spent' : r \in spent \/ r = t
      BY <1>8
    <3>2. \A r \in spent : r \in Requests /\ home[r] \in Requests /\ home[r] # None
      BY <1>4, <2>1 DEF SpentIsReplaced
    <3> QED
      BY <1>2, <1>3, <3>1, <3>2
  <2> QED
    BY <1>3, <1>6, <1>7, <1>8, <2>1, <2>2 DEF SpentIsReplaced
<1>14. ConsumedIsUsed' /\ OneUsePerOtp'
  BY <1>1 DEF IInv, ConsumedIsUsed, OneUsePerOtp
<1>15. TypeOK'
  BY <1>1, <1>3, <1>4, <1>6, <1>7, <1>8, <1>11 DEF IInv, TypeOK
<1> QED
  BY <1>11, <1>12, <1>13, <1>14, <1>15 DEF IInv

-----------------------------------------------------------------------------
\* Requests that arrive, and time.

LEMMA IdleJobFields ==
  /\ IdleJob.kind = "request" /\ IdleJob.about = None /\ IdleJob.token = None
  /\ IdleJob.jti = None /\ IdleJob.late = FALSE /\ IdleJob.ends = {}
BY DEF IdleJob

LEMMA ArriveBegins ==
  ASSUME IInv, NEW w \in Workers, Arrive(w)
  PROVE  \E j \in Job : GoodStart(j) /\ Begin(w, j)
<1>1. /\ sessions \in [Requests -> Session] /\ home \in [Requests -> 0..MaxRequests]
      /\ account.codes \subseteq BackupCodes /\ TokensHaveSessions
      /\ Opened \in SUBSET Requests /\ \A s \in Opened : sessions[s].open
      /\ 0 \in 0..MaxRequests /\ {} \in SUBSET Requests /\ {} \in SUBSET BackupCodes
  BY DEF IInv, TypeOK, Opened
<1>2. CASE RequestOtp(w)
  <2>1. PICK purpose \in Purposes :
          Begin(w, [IdleJob EXCEPT !.phase = "retire", !.purpose = purpose])
    BY <1>2 DEF RequestOtp
  <2> DEFINE j == [IdleJob EXCEPT !.phase = "retire", !.purpose = purpose]
  <2>2. /\ j \in Job /\ j.phase = "retire" /\ j.kind = "request" /\ j.about = 0
        /\ j.jti = 0 /\ j.ends = {}
    BY <1>1, IdleJobType, IdleJobFields DEF Job, Phases, Kinds, Purposes
  <2> HIDE DEF j
  <2>3. GoodStart(j)
    BY <1>1, <2>2 DEF GoodStart
  <2> QED
    BY <2>1, <2>2, <2>3 DEF j
<1>3. CASE VerifyOtp(w)
  <2>1. PICK purpose \in Purposes :
          Begin(w, [IdleJob EXCEPT !.phase = "find", !.kind = "verify", !.purpose = purpose,
                                   !.codes = account.codes,
                                   !.ends = IF purpose = "login" THEN Opened ELSE {}])
    BY <1>3 DEF VerifyOtp
  <2> DEFINE j == [IdleJob EXCEPT !.phase = "find", !.kind = "verify", !.purpose = purpose,
                                  !.codes = account.codes,
                                  !.ends = IF purpose = "login" THEN Opened ELSE {}]
  <2>2. /\ j \in Job /\ j.phase = "find" /\ j.kind = "verify" /\ j.about = 0
        /\ j.jti = 0 /\ j.ends \subseteq Opened
    BY <1>1, IdleJobType, IdleJobFields DEF Job, Phases, Kinds, Purposes
  <2> HIDE DEF j
  <2>3. GoodStart(j)
    BY <1>1, <2>2 DEF GoodStart
  <2> QED
    BY <2>1, <2>2, <2>3 DEF j
<1>4. CASE PasswordLogin(w)
  <2>1. Begin(w, [IdleJob EXCEPT !.phase = "revoke", !.kind = "login", !.ends = Opened])
    BY <1>4 DEF PasswordLogin
  <2> DEFINE j == [IdleJob EXCEPT !.phase = "revoke", !.kind = "login", !.ends = Opened]
  <2>2. /\ j \in Job /\ j.phase = "revoke" /\ j.kind = "login" /\ j.about = 0
        /\ j.jti = 0 /\ j.ends = Opened
    BY <1>1, IdleJobType, IdleJobFields DEF Job, Phases, Kinds, Purposes
  <2> HIDE DEF j
  <2>3. GoodStart(j)
    BY <1>1, <2>2 DEF GoodStart
  <2> QED
    BY <2>1, <2>2, <2>3 DEF j
<1>5. CASE SsoLogin(w)
  <2>1. Begin(w, [IdleJob EXCEPT !.phase = "create", !.kind = "sso"])
    BY <1>5 DEF SsoLogin
  <2> DEFINE j == [IdleJob EXCEPT !.phase = "create", !.kind = "sso"]
  <2>2. /\ j \in Job /\ j.phase = "create" /\ j.kind = "sso" /\ j.about = 0
        /\ j.jti = 0 /\ j.ends = {}
    BY <1>1, IdleJobType, IdleJobFields DEF Job, Phases, Kinds, Purposes
  <2> HIDE DEF j
  <2>3. GoodStart(j)
    BY <1>1, <2>2 DEF GoodStart
  <2> QED
    BY <2>1, <2>2, <2>3 DEF j
<1>6. CASE ResetPassword(w)
  <2>1. PICK r \in LiveResets :
          Begin(w, [IdleJob EXCEPT !.phase = "spend", !.kind = "reset", !.about = r,
                                   !.ends = Opened])
    BY <1>6 DEF ResetPassword
  <2> DEFINE j == [IdleJob EXCEPT !.phase = "spend", !.kind = "reset", !.about = r,
                                  !.ends = Opened]
  <2>2. r \in Requests /\ r \in 0..MaxRequests
    BY DEF LiveResets
  <2>3. /\ j \in Job /\ j.phase = "spend" /\ j.kind = "reset" /\ j.about = r
        /\ j.jti = 0 /\ j.ends = Opened
    BY <1>1, <2>2, IdleJobType, IdleJobFields DEF Job, Phases, Kinds, Purposes
  <2> HIDE DEF j
  <2>4. GoodStart(j)
    BY <1>1, <2>2, <2>3 DEF GoodStart
  <2> QED
    BY <2>1, <2>3, <2>4 DEF j
<1>7. CASE Logout(w)
  <2>1. PICK t \in Issued :
          Begin(w, [IdleJob EXCEPT !.phase = "drop", !.kind = "logout", !.about = home[t],
                                   !.jti = t, !.ends = {home[t]}])
    BY <1>7 DEF Logout
  <2> DEFINE j == [IdleJob EXCEPT !.phase = "drop", !.kind = "logout", !.about = home[t],
                                  !.jti = t, !.ends = {home[t]}]
  <2>2. /\ t \in Requests /\ t \in 0..MaxRequests /\ home[t] \in Requests
        /\ home[t] \in 0..MaxRequests /\ sessions[home[t]].open
        /\ {home[t]} \in SUBSET Requests
    BY <1>1 DEF Issued, TokensHaveSessions
  <2>3. /\ j \in Job /\ j.phase = "drop" /\ j.kind = "logout" /\ j.about = home[t]
        /\ j.jti = t /\ j.ends = {home[t]}
    BY <1>1, <2>2, IdleJobType, IdleJobFields DEF Job, Phases, Kinds, Purposes
  <2> HIDE DEF j
  <2>4. GoodStart(j)
    BY <1>1, <2>2, <2>3 DEF GoodStart
  <2> QED
    BY <2>1, <2>3, <2>4 DEF j
<1>8. CASE AccessWithOldPassword(w)
  <2>1. PICK t \in Issued :
          Begin(w, [IdleJob EXCEPT !.phase = "drop", !.kind = "access", !.about = home[t],
                                   !.ends = {home[t]}])
    BY <1>8 DEF AccessWithOldPassword
  <2> DEFINE j == [IdleJob EXCEPT !.phase = "drop", !.kind = "access", !.about = home[t],
                                  !.ends = {home[t]}]
  <2>2. /\ home[t] \in Requests /\ home[t] \in 0..MaxRequests /\ sessions[home[t]].open
        /\ {home[t]} \in SUBSET Requests
    BY <1>1 DEF Issued, TokensHaveSessions
  <2>3. /\ j \in Job /\ j.phase = "drop" /\ j.kind = "access" /\ j.about = home[t]
        /\ j.jti = 0 /\ j.ends = {home[t]}
    BY <1>1, <2>2, IdleJobType, IdleJobFields DEF Job, Phases, Kinds, Purposes
  <2> HIDE DEF j
  <2>4. GoodStart(j)
    BY <1>1, <2>2, <2>3 DEF GoodStart
  <2> QED
    BY <2>1, <2>3, <2>4 DEF j
<1>9. CASE Refresh(w)
  <2>1. PICK t \in Issued :
          LET s == home[t]
              j == [IdleJob EXCEPT !.kind = "refresh", !.about = s, !.token = t,
                                   !.late = t \in spent] IN
          /\ IsActive(s)
          /\ \/ sessions[s].cur = t /\ Begin(w, [j EXCEPT !.phase = "bar", !.jti = sessions[s].jti])
             \/ sessions[s].prev = t /\ Begin(w, [j EXCEPT !.phase = "drop", !.ends = {s}])
             \/ sessions[s].cur = t /\ Begin(w, [j EXCEPT !.phase = "drop", !.ends = {s}])
    BY <1>9 DEF Refresh
  <2> DEFINE s == home[t]
             j == [IdleJob EXCEPT !.kind = "refresh", !.about = s, !.token = t,
                                  !.late = t \in spent]
             b == [j EXCEPT !.phase = "bar", !.jti = sessions[s].jti]
             d == [j EXCEPT !.phase = "drop", !.ends = {s}]
  <2>2. /\ t \in Requests /\ t \in 0..MaxRequests /\ s # None /\ s \in 0..MaxRequests
        /\ s \in Requests /\ sessions[s].open /\ {s} \in SUBSET Requests
        /\ sessions[s].jti \in Requests /\ sessions[s].jti \in 0..MaxRequests
    BY <1>1 DEF Issued, TokensHaveSessions
  <2>3. (sessions[s].cur = t /\ Begin(w, b)) \/ Begin(w, d)
    BY <2>1
  <2>4. (t \in spent) \in BOOLEAN
    OBVIOUS
  <2> HIDE DEF b, d
  <2>5. CASE sessions[s].cur = t /\ Begin(w, b)
    <3>1. t \notin spent
      BY <2>5 DEF IInv, SpentIsReplaced
    <3>2. /\ b \in Job /\ b.phase = "bar" /\ b.kind = "refresh" /\ b.about = s /\ b.token = t
          /\ b.jti = sessions[s].jti /\ b.late = (t \in spent) /\ b.ends = {}
      BY <1>1, <2>2, <2>4, IdleJobType, IdleJobFields DEF b, d, Job, Phases, Kinds, Purposes
    <3>3. GoodStart(b)
      BY <2>2, <3>1, <3>2 DEF GoodStart
    <3> QED
      BY <2>5, <3>2, <3>3
  <2>6. CASE Begin(w, d)
    <3>1. /\ d \in Job /\ d.phase = "drop" /\ d.kind = "refresh" /\ d.about = s
          /\ d.ends = {s}
      BY <1>1, <2>2, <2>4, IdleJobType, IdleJobFields DEF b, d, Job, Phases, Kinds, Purposes
    <3>2. GoodStart(d)
      BY <2>2, <3>1 DEF GoodStart
    <3> QED
      BY <2>6, <3>1, <3>2
  <2> QED
    BY <2>3, <2>5, <2>6
<1> QED
  BY <1>2, <1>3, <1>4, <1>5, <1>6, <1>7, <1>8, <1>9 DEF Arrive

LEMMA ArriveKeeps ==
  ASSUME IInv, NEW w \in Workers, Arrive(w)
  PROVE  IInv'
<1>1. PICK j \in Job : GoodStart(j) /\ Begin(w, j)
  BY ArriveBegins
<1> QED
  BY <1>1, BeginKeeps

LEMMA ExpiryKeeps ==
  ASSUME IInv, NEW n \in Requests, ExpireSession(n) \/ ExpireOtp(n)
  PROVE  IInv'
<1>1. /\ sessions \in [Requests -> Session] /\ otps \in [Requests -> Otp]
      /\ UNCHANGED <<started, account, barred, resets, home, job, spent, ended, via, factor>>
  BY DEF ExpireSession, ExpireOtp, IInv, TypeOK
<1>2. /\ sessions' \in [Requests -> Session]
      /\ \A s \in Requests :
           /\ sessions'[s].open = sessions[s].open /\ sessions'[s].revoked = sessions[s].revoked
           /\ sessions'[s].cur = sessions[s].cur /\ sessions'[s].jti = sessions[s].jti
  <2>1. CASE ExpireSession(n)
    <3> DEFINE x == [sessions[n] EXCEPT !.expired = TRUE]
    <3>1. sessions[n] \in Session
      BY <1>1
    <3>2. /\ x \in Session /\ x.open = sessions[n].open /\ x.revoked = sessions[n].revoked
          /\ x.cur = sessions[n].cur /\ x.jti = sessions[n].jti
      BY <3>1 DEF Session
    <3>3. sessions' = [sessions EXCEPT ![n] = x]
      BY <2>1 DEF ExpireSession
    <3> HIDE DEF x
    <3> QED
      BY <1>1, <3>2, <3>3
  <2>2. CASE ExpireOtp(n)
    BY <1>1, <2>2 DEF ExpireOtp
  <2> QED
    BY <2>1, <2>2
<1>3. /\ otps' \in [Requests -> Otp]
      /\ \A o \in Requests :
           /\ otps[o].status = "used" => otps'[o].status = "used"
           /\ (otps'[o].status = "none") <=> (otps[o].status = "none")
  <2>1. CASE ExpireSession(n)
    BY <1>1, <2>1 DEF ExpireSession
  <2>2. CASE ExpireOtp(n)
    <3> DEFINE x == [otps[n] EXCEPT !.status = "expired"]
    <3>1. otps[n] \in Otp /\ otps[n].status = "live"
      BY <1>1, <2>2 DEF ExpireOtp
    <3>2. x \in Otp /\ x.status = "expired"
      BY <3>1 DEF Otp
    <3>3. otps' = [otps EXCEPT ![n] = x]
      BY <2>2 DEF ExpireOtp
    <3> HIDE DEF x
    <3> QED
      BY <1>1, <3>1, <3>2, <3>3
  <2> QED
    BY <2>1, <2>2
<1>4. TypeOK'
  BY <1>1, <1>2, <1>3 DEF IInv, TypeOK
<1>5. Unnumbered' /\ OwnNumber'
  <2>1. \A w \in Workers : Running(w) => job[w].me \in Requests
    BY OwnFacts
  <2> QED
    BY <1>1, <1>2, <1>3, <2>1, ZenonT(60) DEF IInv, Unnumbered, OwnNumber, NothingIssued, Running
<1>6. KnowsItsDocument'
  BY <1>1, <1>3 DEF IInv, KnowsItsDocument
<1>7. TokensHaveSessions' /\ SpentIsReplaced'
  <2>1. /\ \A t \in Requests : home[t] # None => home[t] \in Requests
        /\ spent \subseteq Requests /\ TokensHaveSessions /\ SpentIsReplaced
    BY DEF IInv, TypeOK
  <2> QED
    BY <1>1, <1>2, <2>1 DEF TokensHaveSessions, SpentIsReplaced
<1>8. EndsAreClosed'
  <2>1. ended \subseteq Requests /\ \A w \in Workers : job[w].ends \subseteq Requests
    BY DEF IInv, TypeOK, Job
  <2> QED
    BY <1>1, <1>2, <2>1 DEF IInv, EndsAreClosed, Closed
<1>9. ConsumedIsUsed'
  <2>1. \A m \in Requests : via[m] # None => via[m] \in Requests
    BY DEF IInv, TypeOK
  <2> QED
    BY <1>1, <1>3, <2>1 DEF IInv, ConsumedIsUsed
<1>10. OneUsePerOtp' /\ SpentTokenIsRefused'
  BY <1>1 DEF IInv, OneUsePerOtp, SpentTokenIsRefused
<1> QED
  BY <1>4, <1>5, <1>6, <1>7, <1>8, <1>9, <1>10 DEF IInv

LEMMA NextKeeps == IInv /\ [Next]_vars => IInv'
<1> SUFFICES ASSUME IInv, [Next]_vars PROVE IInv'
  OBVIOUS
<1>1. CASE UNCHANGED vars
  <2>1. TypeOK' /\ Unnumbered' /\ OwnNumber'
    BY <1>1 DEF vars, IInv, TypeOK, Unnumbered, OwnNumber, NothingIssued, Running
  <2>2. KnowsItsDocument'
    BY <1>1 DEF vars, IInv, KnowsItsDocument
  <2>3. TokensHaveSessions' /\ SpentIsReplaced' /\ EndsAreClosed'
    BY <1>1 DEF vars, IInv, TokensHaveSessions, SpentIsReplaced, EndsAreClosed, Closed
  <2>4. ConsumedIsUsed' /\ OneUsePerOtp' /\ SpentTokenIsRefused'
    BY <1>1 DEF vars, IInv, ConsumedIsUsed, OneUsePerOtp, SpentTokenIsRefused
  <2> QED
    BY <2>1, <2>2, <2>3, <2>4 DEF IInv
<1>2. ASSUME NEW w \in Workers, Proceed(w) PROVE IInv'
  BY <1>2, RetireOtpsKeeps, InsertOtpKeeps, SendOtpKeeps, FindOtpKeeps, CountMissKeeps,
     DiscardOtpKeeps, BurnCodeKeeps, ConsumeOtpKeeps, ResetTokenStepsKeep, RevokeAllKeeps,
     RetireAllOtpsKeeps, CreateSessionKeeps, BarAccessKeeps, RotateKeeps, DropSessionKeeps
     DEF Proceed
<1> QED
  BY <1>1, <1>2, ArriveKeeps, AbandonKeeps, ExpiryKeeps DEF Next

LEMMA Invariance == Spec => []IInv
BY InitInv, NextKeeps, PTL DEF Spec

-----------------------------------------------------------------------------
\* Every reachable state is well typed.
THEOREM TypeCorrect == Spec => []TypeOK
<1>1. IInv => TypeOK
  BY DEF IInv
<1> QED
  BY <1>1, Invariance, PTL

\* However many requests race for a one-time password, one of them consumes it.
THEOREM OtpConsumedOnce == Spec => []OneUsePerOtp
<1>1. IInv => OneUsePerOtp
  BY DEF IInv
<1> QED
  BY <1>1, Invariance, PTL

\* A refresh token that has been exchanged is never exchanged by a later request.
THEOREM SpentTokensStayRefused == Spec => []SpentTokenIsRefused
<1>1. IInv => SpentTokenIsRefused
  BY DEF IInv
<1> QED
  BY <1>1, Invariance, PTL

\* The tokens of a session that an answered request has ended never work again.
THEOREM EndedSessionsNeverReturn == Spec => []EndedSessionsStayOver
<1>1. IInv => EndedSessionsStayOver
  BY DEF IInv, EndedSessionsStayOver, EndsAreClosed, Closed, AccessHonoured,
         RefreshHonoured, IsActive
<1> QED
  BY <1>1, Invariance, PTL

-----------------------------------------------------------------------------
\* The guesses under way.  A thread that has read a password below the limit and is
\* about to count a miss is accounted for before it writes.

Missing(o) == {w \in Workers : job[w].phase = "miss" /\ job[w].about = o}

Counted == \A o \in Requests :
  otps[o].attempts + Cardinality(Missing(o)) <= MaxAttempts - 1 + Cardinality(Workers)

LEMMA MissingFacts ==
  ASSUME NEW o
  PROVE  /\ IsFiniteSet(Missing(o)) /\ Cardinality(Missing(o)) \in Nat
         /\ Cardinality(Workers) \in Nat /\ Cardinality(Missing(o)) <= Cardinality(Workers)
         /\ IsFiniteSet(Missing(o)') /\ Cardinality(Missing(o)') \in Nat
         /\ Cardinality(Missing(o)') <= Cardinality(Workers)
<1>1. Missing(o) \subseteq Workers /\ Missing(o)' \subseteq Workers
  BY DEF Missing
<1> QED
  BY <1>1, FS_Subset, FS_CardinalityType

SameAttempts == \A o \in Requests : otps'[o].attempts = otps[o].attempts

NoNewMiss == \A v \in Workers :
  job'[v].phase = "miss" => job[v].phase = "miss" /\ job'[v].about = job[v].about

LEMMA QuietStepKeepsCount ==
  ASSUME Counted, IInv, SameAttempts, NoNewMiss
  PROVE  Counted'
<1> SUFFICES ASSUME NEW o \in Requests
             PROVE  otps'[o].attempts + Cardinality(Missing(o)')
                      <= MaxAttempts - 1 + Cardinality(Workers)
  BY DEF Counted
<1>1. Missing(o)' \subseteq Missing(o)
  BY DEF NoNewMiss, Missing
<1>2. Cardinality(Missing(o)') <= Cardinality(Missing(o))
  BY <1>1, MissingFacts, FS_Subset
<1>3. otps[o].attempts \in Nat /\ otps'[o].attempts = otps[o].attempts
  BY DEF IInv, TypeOK, Otp, SameAttempts
<1>4. otps[o].attempts + Cardinality(Missing(o)) <= MaxAttempts - 1 + Cardinality(Workers)
  BY DEF Counted
<1> QED
  BY <1>2, <1>3, <1>4, MissingFacts

LEMMA SetUsedCountsNothing ==
  ASSUME IInv, NEW STATE S, SetUsed(S)
  PROVE  SameAttempts
<1>1. \A o \in Requests : otps[o] \in Otp
  BY DEF IInv, TypeOK
<1> QED
  BY <1>1 DEF SetUsed, SameAttempts, Otp

\* Whatever phase but "miss" a thread goes to, it misses nothing.
LEMMA GoMissesNothing ==
  ASSUME IInv, NEW w \in Workers,
         Done(w) \/ \E phase \in Phases \ {"miss"} : Go(w, phase)
  PROVE  NoNewMiss
<1>1. job \in [Workers -> Job]
  BY DEF IInv, TypeOK
<1>2. CASE Done(w)
  BY <1>1, <1>2 DEF Done, NoNewMiss, IdleJob
<1>3. ASSUME NEW phase \in Phases \ {"miss"}, Go(w, phase)
      PROVE  NoNewMiss
  <2>1. job' = [job EXCEPT ![w] = [job[w] EXCEPT !.phase = phase]] /\ job[w] \in Job
    BY <1>1, <1>3 DEF Go
  <2>2. [job[w] EXCEPT !.phase = phase].phase = phase
    BY <2>1 DEF Job
  <2>3. \A v \in Workers : job'[v] = IF v = w THEN [job[w] EXCEPT !.phase = phase] ELSE job[v]
    BY <1>1, <2>1
  <2> QED
    BY <2>2, <2>3 DEF NoNewMiss
<1> QED
  BY <1>2, <1>3

LEMMA ArriveMissesNothing ==
  ASSUME IInv, NEW w \in Workers, Arrive(w)
  PROVE  SameAttempts /\ NoNewMiss
<1>1. PICK j \in Job : GoodStart(j) /\ Begin(w, j)
  BY ArriveBegins
<1> DEFINE k == [j EXCEPT !.me = started + 1]
<1>2. k.phase # "miss"
  BY <1>1 DEF GoodStart, Job
<1>3. otps' = otps /\ job' = [job EXCEPT ![w] = k] /\ job \in [Workers -> Job]
  BY <1>1 DEF Begin, IInv, TypeOK
<1> HIDE DEF k
<1> QED
  BY <1>2, <1>3 DEF SameAttempts, NoNewMiss

LEMMA FindKeepsCount ==
  ASSUME Counted, IInv, NEW w \in Workers, FindOtp(w)
  PROVE  Counted'
<1>1. otps' = otps /\ job \in [Workers -> Job] /\ job[w].phase = "find"
  BY DEF FindOtp, At, IInv, TypeOK
<1>2. CASE Done(w)
  BY <1>1, <1>2, GoMissesNothing, QuietStepKeepsCount DEF SameAttempts
<1>3. ASSUME NEW p \in NewestOtps(job[w].purpose), NEW phase, NEW code,
             job' = [job EXCEPT ![w].phase = phase, ![w].about = p, ![w].code = code],
             phase = "miss" => ~IsRefused(p)
      PROVE  Counted'
  <2> DEFINE k == [job[w] EXCEPT !.phase = phase, !.about = p, !.code = code]
  <2>1. k.phase = phase /\ k.about = p /\ job' = [job EXCEPT ![w] = k]
    BY <1>1, <1>3 DEF Job
  <2> HIDE DEF k
  <2>2. \A v \in Workers : job'[v] = IF v = w THEN k ELSE job[v]
    BY <1>1, <2>1
  <2>3. CASE phase # "miss"
    BY <1>1, <2>1, <2>2, <2>3, QuietStepKeepsCount DEF SameAttempts, NoNewMiss
  <2>4. CASE phase = "miss"
    <3> SUFFICES ASSUME NEW o \in Requests
                 PROVE  otps[o].attempts + Cardinality(Missing(o)')
                          <= MaxAttempts - 1 + Cardinality(Workers)
      BY <1>1 DEF Counted
    <3>1. otps[o].attempts \in Nat
      BY DEF IInv, TypeOK, Otp
    <3>2. CASE o = p
      <4>1. otps[o].attempts < MaxAttempts
        BY <1>3, <2>4, <3>1, <3>2 DEF IsRefused
      <4> QED
        BY <3>1, <4>1, MissingFacts
    <3>3. CASE o # p
      <4>1. Missing(o)' = Missing(o)
        BY <1>1, <2>1, <2>2, <3>3 DEF Missing
      <4> QED
        BY <4>1 DEF Counted
    <3> QED
      BY <3>2, <3>3
  <2> QED
    BY <2>3, <2>4
<1>4. Done(w) \/ \E p \in NewestOtps(job[w].purpose) : \E phase, code :
        /\ phase = "miss" => ~IsRefused(p)
        /\ job' = [job EXCEPT ![w].phase = phase, ![w].about = p, ![w].code = code]
  <2>1. CASE NewestOtps(job[w].purpose) = {} /\ Done(w)
    BY <2>1
  <2>2. ASSUME NEW p \in NewestOtps(job[w].purpose)
        PROVE  LET Found(phase, code) ==
                     job' = [job EXCEPT ![w].phase = phase, ![w].about = p, ![w].code = code] IN
               /\ IsRefused(p) /\ Found("discard", NoCode) =>
                    \E phase, code : /\ phase = "miss" => ~IsRefused(p)
                                    /\ Found(phase, code)
               /\ \A phase, code : ~IsRefused(p) /\ Found(phase, code) =>
                    \E q, c : /\ q = "miss" => ~IsRefused(p)
                             /\ Found(q, c)
    OBVIOUS
  <2> QED
    BY <2>1, <2>2 DEF FindOtp
<1> QED
  BY <1>2, <1>3, <1>4

LEMMA CountMissKeepsCount ==
  ASSUME Counted, IInv, NEW w \in Workers, CountMiss(w)
  PROVE  Counted'
<1> DEFINE p == job[w].about
<1>1. /\ job \in [Workers -> Job] /\ otps \in [Requests -> Otp] /\ job[w].phase = "miss"
      /\ p \in Requests /\ otps' = [otps EXCEPT ![p].attempts = @ + 1]
      /\ job' = [job EXCEPT ![w] = IdleJob]
  BY DEF CountMiss, At, Done, IInv, TypeOK, KnowsItsDocument
<1> SUFFICES ASSUME NEW o \in Requests
             PROVE  otps'[o].attempts + Cardinality(Missing(o)')
                      <= MaxAttempts - 1 + Cardinality(Workers)
  BY DEF Counted
<1>2. otps[o].attempts \in Nat
      /\ otps[o].attempts + Cardinality(Missing(o)) <= MaxAttempts - 1 + Cardinality(Workers)
  BY <1>1 DEF Otp, Counted
<1>3. Missing(o)' = Missing(o) \ {w}
  BY <1>1 DEF Missing, IdleJob
<1>4. CASE o = p
  <2>1. w \in Missing(o)
    BY <1>1, <1>4 DEF Missing
  <2>2. Cardinality(Missing(o)') = Cardinality(Missing(o)) - 1
    BY <1>3, <2>1, MissingFacts, FS_RemoveElement, ZenonT(60)
  <2>3. otps'[o].attempts = otps[o].attempts + 1
    BY <1>1, <1>4 DEF Otp
  <2> QED
    BY <1>2, <2>2, <2>3, MissingFacts
<1>5. CASE o # p
  <2>1. otps'[o] = otps[o] /\ Missing(o)' = Missing(o)
    BY <1>1, <1>3, <1>5 DEF Missing
  <2> QED
    BY <1>2, <2>1
<1> QED
  BY <1>4, <1>5

LEMMA InsertKeepsCount ==
  ASSUME Counted, IInv, NEW w \in Workers, InsertOtp(w)
  PROVE  Counted'
<1> DEFINE n == job[w].me
           x == [status |-> "live", purpose |-> job[w].purpose, attempts |-> 0]
<1>1. otps \in [Requests -> Otp] /\ otps' = [otps EXCEPT ![n] = x] /\ x.attempts = 0
  BY DEF InsertOtp, IInv, TypeOK
<1>2. NoNewMiss
  BY GoMissesNothing DEF InsertOtp, Phases
<1> HIDE DEF n, x
<1> SUFFICES ASSUME NEW o \in Requests
             PROVE  otps'[o].attempts + Cardinality(Missing(o)')
                      <= MaxAttempts - 1 + Cardinality(Workers)
  BY DEF Counted
<1>3. CASE o = n
  BY <1>1, <1>3, MissingFacts
<1>4. CASE o # n
  <2>1. otps'[o] = otps[o] /\ otps[o].attempts \in Nat
    BY <1>1, <1>4 DEF Otp
  <2>2. Missing(o)' \subseteq Missing(o)
    BY <1>2 DEF NoNewMiss, Missing
  <2>3. Cardinality(Missing(o)') <= Cardinality(Missing(o))
    BY <2>2, MissingFacts, FS_Subset
  <2> QED
    BY <2>1, <2>3, MissingFacts DEF Counted
<1> QED
  BY <1>3, <1>4


LEMMA ProceedKeepsCount ==
  ASSUME Counted, IInv, NEW w \in Workers, Proceed(w)
  PROVE  Counted'
<1>1. CASE SendOtp(w)
  <2>1. SameAttempts /\ NoNewMiss
    BY <1>1, SetUsedCountsNothing, GoMissesNothing DEF SendOtp, SameAttempts
  <2> QED
    BY <2>1, QuietStepKeepsCount
<1>2. CASE RetireOtps(w) \/ DiscardOtp(w) \/ RetireAllOtps(w)
  <2>1. SameAttempts
    BY <1>2, SetUsedCountsNothing DEF RetireOtps, DiscardOtp, RetireAllOtps
  <2>2. NoNewMiss
    BY <1>2, GoMissesNothing DEF RetireOtps, DiscardOtp, RetireAllOtps, Answer, Phases
  <2> QED
    BY <2>1, <2>2, QuietStepKeepsCount
<1>3. CASE ConsumeOtp(w)
  <2>1. SameAttempts
    BY <1>3, SetUsedCountsNothing DEF ConsumeOtp, SameAttempts
  <2>2. NoNewMiss
    BY <1>3, GoMissesNothing DEF ConsumeOtp, Phases
  <2> QED
    BY <2>1, <2>2, QuietStepKeepsCount
<1>4. CASE BurnCode(w) \/ SupersedeResets(w) \/ GrantReset(w) \/ SpendReset(w)
  <2>1. SameAttempts
    BY <1>4 DEF BurnCode, SupersedeResets, GrantReset, SpendReset, SameAttempts
  <2>2. NoNewMiss
    BY <1>4, GoMissesNothing DEF BurnCode, SupersedeResets, GrantReset, SpendReset, Phases
  <2> QED
    BY <2>1, <2>2, QuietStepKeepsCount
<1>5. CASE RevokeAll(w) \/ CreateSession(w) \/ BarAccess(w) \/ Rotate(w) \/ DropSession(w)
  <2>1. SameAttempts
    BY <1>5 DEF RevokeAll, CreateSession, BarAccess, Rotate, DropSession, SameAttempts
  <2>2. NoNewMiss
    BY <1>5, GoMissesNothing
       DEF RevokeAll, CreateSession, BarAccess, Rotate, DropSession, Answer, Phases
  <2> QED
    BY <2>1, <2>2, QuietStepKeepsCount
<1> QED
  BY <1>1, <1>2, <1>3, <1>4, <1>5, InsertKeepsCount, FindKeepsCount, CountMissKeepsCount
     DEF Proceed

LEMMA NextKeepsCount == Counted /\ IInv /\ [Next]_vars => Counted'
<1> SUFFICES ASSUME Counted, IInv, [Next]_vars PROVE Counted'
  OBVIOUS
<1>1. CASE UNCHANGED vars
  BY <1>1, QuietStepKeepsCount DEF vars, SameAttempts, NoNewMiss
<1>2. ASSUME NEW w \in Workers, Arrive(w) PROVE Counted'
  BY <1>2, ArriveMissesNothing, QuietStepKeepsCount
<1>3. ASSUME NEW w \in Workers, Abandon(w) PROVE Counted'
  BY <1>3, GoMissesNothing, QuietStepKeepsCount DEF Abandon, SameAttempts
<1>4. ASSUME NEW s \in Requests, ExpireSession(s) PROVE Counted'
  BY <1>4, QuietStepKeepsCount DEF ExpireSession, SameAttempts, NoNewMiss
<1>5. ASSUME NEW o \in Requests, ExpireOtp(o) PROVE Counted'
  <2>1. otps \in [Requests -> Otp] /\ otps' = [otps EXCEPT ![o].status = "expired"] /\ job' = job
    BY <1>5 DEF ExpireOtp, IInv, TypeOK
  <2>2. SameAttempts
    BY <2>1 DEF SameAttempts, Otp
  <2> QED
    BY <2>1, <2>2, QuietStepKeepsCount DEF NoNewMiss
<1> QED
  BY <1>1, <1>2, <1>3, <1>4, <1>5, ProceedKeepsCount DEF Next

LEMMA InitCounted == Init => Counted
<1> SUFFICES ASSUME Init, NEW o \in Requests
             PROVE  otps[o].attempts + Cardinality(Missing(o))
                      <= MaxAttempts - 1 + Cardinality(Workers)
  BY DEF Counted
<1>1. otps[o].attempts = 0
  BY DEF Init, NoOtp
<1> QED
  BY <1>1, MissingFacts

\* Guesses that race exceed the limit by fewer than there are threads, whatever the
\* limit and however many threads there are.
THEOREM GuessesNeverExceed == Spec => []GuessesBounded
<1>1. IInv /\ Counted => GuessesBounded
  <2> SUFFICES ASSUME IInv, Counted, NEW o \in Requests
               PROVE  otps[o].attempts <= MaxAttempts - 1 + Cardinality(Workers)
    BY DEF GuessesBounded
  <2>1. otps[o].attempts \in Nat
    BY DEF IInv, TypeOK, Otp
  <2> QED
    BY <2>1, MissingFacts DEF Counted
<1> QED
  BY <1>1, InitInv, InitCounted, NextKeeps, NextKeepsCount, PTL DEF Spec
=============================================================================
