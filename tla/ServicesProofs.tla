--------------------------- MODULE ServicesProofs ---------------------------
(***************************************************************************)
(* Proofs about the services that share no state with the core: accounts,  *)
(* faces, profiles, cases, recovery plans, carts, codes and registrations. *)
(* Each section names the specification of its service, the inductive      *)
(* invariant, and the theorem that follows from it for every value of the  *)
(* constants.                                                              *)
(***************************************************************************)
EXTENDS IdentityShield, Accounts, FaceChecks, StudentProfiles, RmsCases, RecoveryPlans,
        FoodStore, OtpDispatch, Registrations, FiniteSetTheorems, WellFoundedInduction, TLAPS

(***************************************************************************)
(* Deletions of accounts                                                   *)
(***************************************************************************)

AccountsSpec == AccountsInit /\ [][AccountsNext]_accountVars

\* The parts in a deletion that are taken belong to different administrators: whoever
\* is about to approve did not ask, and whoever executes neither asked nor approved.
RolesApart ==
  /\ deletion.status # "none" => deletion.requester \in Admins
  /\ \A a \in approving : deletion.status # "none" /\ a # deletion.requester
  /\ deletion.status \in {"approved", "completed"} =>
       deletion.approver \in Admins /\ deletion.approver # deletion.requester
  /\ \A a \in Admins : executing[a] # "idle" =>
       /\ deletion.status \in {"approved", "completed"}
       /\ a # deletion.requester /\ a # deletion.approver
  /\ deletion.status = "completed" =>
       /\ deletion.executor # deletion.requester
       /\ deletion.executor # deletion.approver

AccountsInv == AccountsTypeOK /\ RolesApart

LEMMA AccountsInvInit == AccountsInit => AccountsInv
<1> SUFFICES ASSUME AccountsInit PROVE AccountsInv
  OBVIOUS
<1>1. NoDeletion \in Deletion /\ NoDeletion.status = "none"
  BY DEF NoDeletion, Deletion
<1>2. AccountsTypeOK
  BY <1>1 DEF AccountsInit, AccountsTypeOK, AccountStates
<1>3. RolesApart
  BY <1>1 DEF AccountsInit, RolesApart
<1>4. QED
  BY <1>2, <1>3 DEF AccountsInv

LEMMA AccountsInvStep == AccountsInv /\ [AccountsNext]_accountVars => AccountsInv'
<1> SUFFICES ASSUME AccountsInv, [AccountsNext]_accountVars PROVE AccountsInv'
  OBVIOUS
<1>0. /\ AccountsTypeOK /\ RolesApart
      /\ deletion \in Deletion /\ executing \in [Admins -> {"idle", "erase", "sessions", "complete"}]
      /\ approving \subseteq Admins
  BY DEF AccountsInv, AccountsTypeOK
<1>1. ASSUME UNCHANGED <<deletion, approving, holding, executing>>,
             {doc', row'} \subseteq AccountStates, {enrolled', signedIn'} \subseteq BOOLEAN
      PROVE  AccountsInv'
  BY <1>0, <1>1 DEF AccountsInv, AccountsTypeOK, RolesApart
<1>2. CASE Register \/ AskReset \/ FederatedSignIn \/ SignIn \/ SignOut \/ UserRequest
  BY <1>0, <1>1, <1>2 DEF Register, AskReset, FederatedSignIn, SignIn, SignOut, UserRequest,
       SqlUser, FederatedUser, IssueSession, OnlyAccount, AccountsTypeOK, AccountStates
<1>3. ASSUME NEW on \in BOOLEAN, ScimUpsert(on) \/ ScimPatch(on) PROVE AccountsInv'
  BY <1>0, <1>1, <1>3 DEF ScimUpsert, ScimPatch, SqlUser, Flag, OnlyAccount, AccountsTypeOK, AccountStates
<1>4. ASSUME NEW change \in {"place", "lift"}, BeginHold(change) PROVE AccountsInv'
  BY <1>0, <1>4 DEF BeginHold, OnlyDeletion, AccountsInv, AccountsTypeOK, RolesApart
<1>5. CASE WriteHold
  <2>1. deletion' = [deletion EXCEPT !.hold = (holding = "place")]
    BY <1>5 DEF WriteHold
  <2>2. /\ deletion' \in Deletion
        /\ deletion'.status = deletion.status /\ deletion'.requester = deletion.requester
        /\ deletion'.approver = deletion.approver /\ deletion'.executor = deletion.executor
    BY <1>0, <2>1 DEF Deletion
  <2>3. QED
    BY <1>0, <1>5, <2>2 DEF WriteHold, OnlyDeletion, AccountsInv, AccountsTypeOK, RolesApart
<1>6. ASSUME NEW a \in Admins, NEW mode \in {"hard", "soft"}, NEW hold \in BOOLEAN,
             RequestDeletion(a, mode, hold)
      PROVE  AccountsInv'
  <2>1. /\ deletion.status = "none"
        /\ deletion' = [status |-> "pending", mode |-> mode, hold |-> hold,
                        requester |-> a, approver |-> 0, executor |-> 0]
    BY <1>6 DEF RequestDeletion, NoDeletion
  <2>2. deletion' \in Deletion /\ deletion'.requester = a /\ deletion'.status = "pending"
    BY <2>1 DEF Deletion
  <2>3. approving = {} /\ \A b \in Admins : executing[b] = "idle"
    BY <1>0, <2>1 DEF RolesApart
  <2>4. QED
    BY <1>0, <1>6, <2>2, <2>3 DEF RequestDeletion, OnlyDeletion, AccountsInv, AccountsTypeOK, RolesApart
<1>7. ASSUME NEW a \in Admins, BeginApproval(a) PROVE AccountsInv'
  BY <1>0, <1>7 DEF BeginApproval, OnlyDeletion, AccountsInv, AccountsTypeOK, RolesApart
<1>8. ASSUME NEW a \in Admins, ApproveDeletion(a) PROVE AccountsInv'
  <2>1. a \in approving /\ approving' = approving \ {a} /\ deletion.status # "none" /\ a # deletion.requester
    BY <1>0, <1>8 DEF ApproveDeletion, RolesApart
  <2>2. CASE deletion.status = "pending"
    <3>1. deletion' = [deletion EXCEPT !.status = "approved", !.approver = a]
      BY <1>8, <2>2 DEF ApproveDeletion, Approved, Approval
    <3>2. /\ deletion' \in Deletion
          /\ deletion'.status = "approved" /\ deletion'.requester = deletion.requester
          /\ deletion'.approver = a
      BY <1>0, <3>1 DEF Deletion
    <3>3. \A b \in Admins : executing[b] = "idle"
      BY <1>0, <2>2 DEF RolesApart
    <3>4. QED
      BY <1>0, <1>8, <2>1, <3>2, <3>3 DEF ApproveDeletion, OnlyDeletion, AccountsInv, AccountsTypeOK, RolesApart
  <2>3. CASE deletion.status # "pending"
    <3>1. deletion' = deletion
      BY <1>8, <2>3 DEF ApproveDeletion, Approved
    <3>2. QED
      BY <1>0, <1>8, <2>1, <3>1 DEF ApproveDeletion, OnlyDeletion, AccountsInv, AccountsTypeOK, RolesApart
  <2>4. QED
    BY <2>2, <2>3
<1>9. ASSUME NEW a \in Admins, BeginExecution(a) PROVE AccountsInv'
  BY <1>0, <1>9 DEF BeginExecution, MayExecute, OnlyDeletion, AccountsInv, AccountsTypeOK, RolesApart
<1>10. ASSUME NEW a \in Admins, EraseUser(a) PROVE AccountsInv'
  <2>1. /\ UNCHANGED <<row, enrolled, signedIn, deletion, approving, holding>>
        /\ doc' \in AccountStates
        /\ \E how \in {"sessions", "complete"} : executing' = [executing EXCEPT ![a] = how]
        /\ executing[a] = "erase"
    BY <1>0, <1>10 DEF EraseUser, AccountsTypeOK, AccountStates
  <2>2. QED
    BY <1>0, <2>1 DEF AccountsInv, AccountsTypeOK, RolesApart
<1>11. ASSUME NEW a \in Admins, EraseSessions(a) PROVE AccountsInv'
  BY <1>0, <1>11 DEF EraseSessions, AccountsInv, AccountsTypeOK, RolesApart
<1>12. ASSUME NEW a \in Admins, CompleteDeletion(a) PROVE AccountsInv'
  <2>1. /\ deletion' = [deletion EXCEPT !.status = "completed", !.executor = a]
        /\ executing[a] = "complete"
    BY <1>12 DEF CompleteDeletion
  <2>2. /\ deletion' \in Deletion
        /\ deletion'.status = "completed" /\ deletion'.executor = a
        /\ deletion'.requester = deletion.requester /\ deletion'.approver = deletion.approver
    BY <1>0, <2>1 DEF Deletion
  <2>3. QED
    BY <1>0, <1>12, <2>1, <2>2 DEF CompleteDeletion, OnlyDeletion, AccountsInv, AccountsTypeOK, RolesApart
<1>13. ASSUME NEW a \in Admins, FailExecution(a) PROVE AccountsInv'
  BY <1>0, <1>13 DEF FailExecution, OnlyDeletion, AccountsInv, AccountsTypeOK, RolesApart
<1>14. CASE UNCHANGED accountVars
  BY <1>0, <1>14 DEF accountVars, AccountsInv, AccountsTypeOK, RolesApart
<1>15. QED
  BY <1>2, <1>3, <1>4, <1>5, <1>6, <1>7, <1>8, <1>9, <1>10, <1>11, <1>12, <1>13, <1>14 DEF AccountsNext

\* A set of three different things has three elements.
LEMMA ThreeApart ==
  ASSUME NEW x, NEW y, NEW z, x # y, y # z, x # z
  PROVE  Cardinality({x, y, z}) = 3
<1>1. IsFiniteSet({x}) /\ Cardinality({x}) = 1
  BY FS_Singleton
<1>2. IsFiniteSet({x} \cup {y}) /\ Cardinality({x} \cup {y}) = 2
  BY <1>1, FS_AddElement
<1>3. Cardinality(({x} \cup {y}) \cup {z}) = 3
  BY <1>2, FS_AddElement
<1>4. {x, y, z} = ({x} \cup {y}) \cup {z}
  OBVIOUS
<1>5. QED
  BY <1>3, <1>4

\* ThreeAdmins is an invariant: a deletion that is done took an administrator who asked,
\* another who approved and a third who executed, however the requests of any number of
\* administrators raced (approve_deletion_request, execute_deletion_request).
THEOREM ThreeAdminsAlways == AccountsSpec => []ThreeAdmins
<1>1. AccountsSpec => []AccountsInv
  BY AccountsInvInit, AccountsInvStep, PTL DEF AccountsSpec
<1>2. ASSUME AccountsInv, deletion.status = "completed"
      PROVE  Cardinality({deletion.requester, deletion.approver, deletion.executor}) = 3
  <2>1. /\ deletion.requester # deletion.approver
        /\ deletion.approver # deletion.executor
        /\ deletion.requester # deletion.executor
    BY <1>2 DEF AccountsInv, RolesApart
  <2>2. QED
    BY <2>1, ThreeApart
<1>3. AccountsInv => ThreeAdmins
  BY <1>2 DEF ThreeAdmins
<1>4. QED
  BY <1>1, <1>3, PTL

(***************************************************************************)
(* Recognition of faces                                                    *)
(***************************************************************************)

\* A frame that both templates accept is counted twice and one that only one of them
\* accepts once, so the two counts together exceed the frames by no more than the frames
\* both accept; two majorities of three fifths exceed them by a fifth.

\* What the two templates accepted, against what both did.
FaceCounted == scan.video.accepted + scan.photo.accepted <= scan.both + scan.frames

FaceInv == FaceTypeOK /\ FaceCounted

LEMMA NoScanTyped == NoScan \in Scan /\ NoScan.video.accepted + NoScan.photo.accepted
                                        <= NoScan.both + NoScan.frames
  BY DEF Scan, NoScan, NoMatch, Match, Engines

\* A frame in a scan: its pose and texture are collected if it is valid.
LEMMA SeenTyped ==
  ASSUME NEW s \in Scan, NEW f \in Frame, NEW valid \in BOOLEAN
  PROVE  /\ Seen(s, f, valid) \in Scan
         /\ Seen(s, f, valid).frames = s.frames + 1
         /\ Seen(s, f, valid).video = s.video /\ Seen(s, f, valid).photo = s.photo
         /\ Seen(s, f, valid).both = s.both
         /\ Seen(s, f, valid).kind = s.kind
<1>1. f.pose \in Poses /\ f.texture \in Textures
  BY DEF Frame
<1> DEFINE count == IF valid THEN s.valid + 1 ELSE s.valid
           poses == IF valid THEN s.poses \cup {f.pose} ELSE s.poses
           textures == IF valid THEN s.textures \cup {f.texture} ELSE s.textures
<1>2. count \in Nat /\ poses \in SUBSET Poses /\ textures \in SUBSET Textures
  BY <1>1 DEF Scan
<1>3. Seen(s, f, valid) = [s EXCEPT !.frames = s.frames + 1, !.valid = count,
                                    !.poses = poses, !.textures = textures]
  BY DEF Seen
<1> HIDE DEF count, poses, textures
<1>31. s.frames + 1 \in Nat
  BY DEF Scan
<1>32. [s EXCEPT !.frames = s.frames + 1, !.valid = count] \in Scan
  BY <1>2, <1>31 DEF Scan
<1>33. [[s EXCEPT !.frames = s.frames + 1, !.valid = count] EXCEPT !.poses = poses] \in Scan
  BY <1>2, <1>32 DEF Scan
<1>34. [[[s EXCEPT !.frames = s.frames + 1, !.valid = count] EXCEPT !.poses = poses]
           EXCEPT !.textures = textures] \in Scan
  BY <1>2, <1>33 DEF Scan
<1>4. Seen(s, f, valid) \in Scan
  BY <1>3, <1>34
<1>5. Seen(s, f, valid).frames = s.frames + 1
  BY <1>3 DEF Scan
<1>6. Seen(s, f, valid).video = s.video /\ Seen(s, f, valid).photo = s.photo
  BY <1>3 DEF Scan
<1>7. Seen(s, f, valid).both = s.both /\ Seen(s, f, valid).kind = s.kind
  BY <1>3 DEF Scan
<1>8. QED
  BY <1>4, <1>5, <1>6, <1>7

\* One frame against one template.
LEMMA MatchedTyped ==
  ASSUME NEW m \in Match, NEW similarity \in Nat
  PROVE  /\ MatchedWith(m, similarity) \in Match
         /\ MatchedWith(m, similarity).accepted =
              IF similarity < MinSimilarity THEN m.accepted ELSE m.accepted + 1
<1>1. CASE similarity < MinSimilarity
  BY <1>1, FaceAssumption DEF MatchedWith, Match
<1>2. CASE ~(similarity < MinSimilarity)
  BY <1>2, FaceAssumption DEF MatchedWith, Match
<1>3. QED
  BY <1>1, <1>2

LEMMA FrameTyped ==
  ASSUME NEW f \in Frame
  PROVE  f.video \in Nat /\ f.photo \in Nat
<1>1. CASE f \in [flaw : FlawsSeen, grade : 1..3, video : {0}, photo : {0},
                   pose : Poses, texture : Textures]
  BY <1>1
<1>2. CASE f \in [flaw : {"none"}, grade : {0}, video : Similarities, photo : Similarities,
                   pose : Poses, texture : Textures]
  <2>1. f.video \in Similarities /\ f.photo \in Similarities
    BY <1>2
  <2>2. Similarities \subseteq Nat
    BY FaceAssumption, SMT
  <2>3. QED
    BY <2>1, <2>2, Zenon
<1>3. QED
  BY <1>1, <1>2 DEF Frame

LEMMA InitTyped == FaceInit => FaceInv
  BY NoScanTyped DEF FaceInit, FaceInv, FaceTypeOK, FaceCounted, Engines

LEMMA StepTyped == FaceInv /\ [FaceNext]_faceVars => FaceInv'
<1> SUFFICES ASSUME FaceInv, [FaceNext]_faceVars PROVE FaceInv'
  OBVIOUS
<1> USE DEF FaceInv
<1>1. CASE LoadRuntime
  BY <1>1 DEF LoadRuntime, FaceTypeOK, FaceCounted
<1>2. CASE RestartFaceProcess
  BY <1>2, NoScanTyped DEF RestartFaceProcess, FaceTypeOK, FaceCounted
<1>3. ASSUME NEW f \in Frame, TakePhoto(f) PROVE FaceInv'
  BY <1>3 DEF TakePhoto, FaceTypeOK, FaceCounted, ActiveEngine, Engines
<1>4. ASSUME NEW f \in Frame, EnrolFrame(f) PROVE FaceInv'
  <2>1. Enrollable(scan.engine, f) \in BOOLEAN
    BY DEF Enrollable
  <2>2. scan \in Scan
    BY DEF FaceTypeOK
  <2>3. scan' = Seen(scan, f, Enrollable(scan.engine, f))
    BY <1>4 DEF EnrolFrame
  <2>4. scan' \in Scan /\ FaceCounted'
    BY <2>1, <2>2, <2>3, SeenTyped DEF FaceCounted, Scan, Match
  <2>5. QED
    BY <1>4, <2>4 DEF EnrolFrame, FaceTypeOK
<1>5. ASSUME NEW f \in Frame, MarkFrame(f) PROVE FaceInv'
  <2> DEFINE valid == Readable("dnn", "strict", f)
             s == Seen(scan, f, valid)
             v == IF valid THEN f.video ELSE 0
             p == IF valid THEN f.photo ELSE 0
             twice == valid /\ f.video >= MinSimilarity /\ f.photo >= MinSimilarity
  <2>1. scan \in Scan /\ valid \in BOOLEAN
    BY DEF FaceTypeOK, Readable
  <2>2. v \in Nat /\ p \in Nat
    BY FrameTyped
  <2>3. /\ s \in Scan /\ s.frames = scan.frames + 1 /\ s.both = scan.both
        /\ s.video = scan.video /\ s.photo = scan.photo
    BY <2>1, SeenTyped
  <2>4. scan.video \in Match /\ scan.photo \in Match /\ scan.both \in Nat /\ scan.frames \in Nat
    BY <2>1 DEF Scan
  <2>5. /\ MatchedWith(scan.video, v) \in Match /\ MatchedWith(scan.photo, p) \in Match
        /\ MatchedWith(scan.video, v).accepted =
             IF v < MinSimilarity THEN scan.video.accepted ELSE scan.video.accepted + 1
        /\ MatchedWith(scan.photo, p).accepted =
             IF p < MinSimilarity THEN scan.photo.accepted ELSE scan.photo.accepted + 1
    BY <2>2, <2>4, MatchedTyped
  <2> DEFINE matched == MatchedWith(scan.video, v)
             likeness == MatchedWith(scan.photo, p)
             both == IF twice THEN scan.both + 1 ELSE scan.both
             fatal == scan.fatal \/ (~valid /\ f.flaw # "feature")
  <2>6. scan' = [s EXCEPT !.fatal = fatal, !.video = matched, !.photo = likeness, !.both = both]
    <3>1. s.fatal = scan.fatal
      BY <2>1 DEF Seen, Scan
    <3>2. scan' = [s EXCEPT !.fatal = s.fatal \/ (~valid /\ f.flaw # "feature"),
                            !.video = MatchedWith(s.video, v), !.photo = MatchedWith(s.photo, p),
                            !.both = IF twice THEN s.both + 1 ELSE s.both]
      BY <1>5 DEF MarkFrame
    <3>3. QED
      BY <2>3, <3>1, <3>2
  <2>61. fatal \in BOOLEAN /\ both \in Nat
    BY <2>1, <2>4 DEF Scan
  <2> HIDE DEF s, matched, likeness, both, fatal
  <2>62. scan' \in Scan
    BY <2>3, <2>5, <2>6, <2>61 DEF Scan, matched, likeness
  <2>63. scan'.video = matched /\ scan'.photo = likeness /\ scan'.frames = s.frames /\ scan'.both = both
    BY <2>3, <2>6 DEF Scan
  <2> HIDE DEF v, p, twice
  <2>7. /\ scan' \in Scan
        /\ scan'.video = MatchedWith(scan.video, v) /\ scan'.photo = MatchedWith(scan.photo, p)
        /\ scan'.frames = scan.frames + 1
        /\ scan'.both = IF twice THEN scan.both + 1 ELSE scan.both
    BY <2>3, <2>62, <2>63 DEF matched, likeness, both
  <2>8. v >= MinSimilarity /\ p >= MinSimilarity => twice
    BY FaceAssumption, <2>2 DEF v, p, twice
  <2>81. MatchedWith(scan.video, v).accepted + MatchedWith(scan.photo, p).accepted
           <= (IF twice THEN scan.both + 1 ELSE scan.both) + (scan.frames + 1)
    <3>1. /\ scan.video.accepted \in Nat /\ scan.photo.accepted \in Nat
          /\ scan.video.accepted + scan.photo.accepted <= scan.both + scan.frames
      BY <2>4 DEF Match, FaceCounted
    <3>2. (~(v < MinSimilarity) /\ ~(p < MinSimilarity)) => twice
      BY <2>2, <2>8, FaceAssumption
    <3>3. QED
      BY <2>4, <2>5, <3>1, <3>2
  <2>9. FaceCounted'
    BY <2>7, <2>81 DEF FaceCounted
  <2>10. QED
    BY <1>5, <2>7, <2>9 DEF MarkFrame, FaceTypeOK
<1>6. CASE BeginEnrolment
  BY <1>6 DEF BeginEnrolment, FaceTypeOK, FaceCounted, NoScan, NoMatch, Scan, Match, Engines, ActiveEngine
<1>7. CASE FinishEnrolment
  BY <1>7, NoScanTyped DEF FinishEnrolment, FaceTypeOK, FaceCounted, Scan
<1>8. CASE BeginCheck
  BY <1>8 DEF BeginCheck, FaceTypeOK, FaceCounted, NoScan, NoMatch, Scan, Match, Engines
<1>9. CASE FinishCheck
  BY <1>9, NoScanTyped DEF FinishCheck, FaceTypeOK, FaceCounted
<1>10. CASE UNCHANGED faceVars
  BY <1>10 DEF faceVars, FaceTypeOK, FaceCounted
<1>11. QED
  BY <1>1, <1>2, <1>3, <1>4, <1>5, <1>6, <1>7, <1>8, <1>9, <1>10 DEF FaceNext

\* Two majorities of three fifths share a fifth.
LEMMA MajoritiesMeet == FaceInv => RecognisedByBoth
<1> SUFFICES ASSUME FaceInv, Recognised(scan)
             PROVE  5 * scan.both >= scan.frames /\ scan.both > 0
  BY DEF RecognisedByBoth
<1>1. scan \in Scan /\ FaceCounted
  BY DEF FaceInv, FaceTypeOK
<1>2. /\ 5 * scan.video.accepted >= 3 * scan.frames /\ 5 * scan.photo.accepted >= 3 * scan.frames
      /\ scan.frames >= MinFrames
  BY DEF Recognised, Verdict, SequenceMatches, IsMajority
<1>3. QED
  BY <1>1, <1>2, FaceAssumption DEF Scan, Match, FaceCounted

\* RecognisedByBoth is an invariant: no student is recognised of whom no frame
\* matches the profile photo and the enrolment video at once.
THEOREM RecognisedByBothAlways == FaceSpec => []RecognisedByBoth
<1>1. FaceSpec => []FaceInv
  BY InitTyped, StepTyped, PTL DEF FaceSpec
<1>2. QED
  BY <1>1, MajoritiesMeet, PTL

(***************************************************************************)
(* Profiles of students                                                    *)
(***************************************************************************)

ProfileSpec == ProfileInit /\ [][ProfileNext]_profileVars

\* The semester is accounted for up to the term of the date that goes with the section:
\* a change of section that dates it back costs one more promotion.
Dated ==
  /\ student.semester <= FirstSemester + student.marker + hasty
  /\ student.marker <= calendar.term
  /\ calendar.night => calendar.term >= 1

\* The student's photo has its row, and its blob unless a request marked it deleted.
PhotoKept ==
  LET k == student.photo
  IN  /\ student.template = k
      /\ k # NoPhoto =>
           /\ objects[k].row = "kept" /\ objects[k].blob # "none"
           /\ objects[k].blob = "deleted" =>
                k \in spoilt \/ \E t \in Uploaders : upload[t].pc = "marked" /\ upload[t].previous = k

\* A photo under way has a blob and no row yet; the one it follows has a row, so that
\* nobody marks a photo under way deleted.
UnderWay ==
  /\ \A k \in Photos : objects[k].blob = "none" => objects[k].row = "none"
  /\ \A t \in Uploaders : upload[t].pc # "idle" =>
       /\ upload[t].photo \in Photos
       /\ objects[upload[t].photo].row = "none" /\ objects[upload[t].photo].blob = "kept"
       /\ upload[t].previous # NoPhoto => objects[upload[t].previous].row # "none"
  /\ \A t, v \in Uploaders :
       t # v /\ upload[t].pc # "idle" /\ upload[v].pc # "idle" => upload[t].photo # upload[v].photo

ProfileInv == ProfileTypeOK /\ Dated /\ PhotoKept /\ UnderWay

LEMMA ProfileConstants ==
  /\ MaxPhotos \in Nat /\ FirstSemester \in Nat /\ LastSemester \in Nat /\ MaxTerms \in Nat
  /\ MaxHasty \in Nat /\ FirstSemester <= LastSemester
  BY ProfileAssumption

LEMMA SectionsTyped ==
  ASSUME NEW m \in 0..LastSemester, NEW n \in 0..MaxTerms
  PROVE  PolicySection(m, n) \in SectionNames /\ StaffSection \in SectionNames
  BY ProfileConstants DEF PolicySection, SectionNames, StaffSection

\* What brings the term up to date promotes by the terms since the date.
LEMMA SyncedKeeps ==
  ASSUME ProfileInv
  PROVE  /\ Synced(student) \in StudentRow
         /\ Synced(student).photo = student.photo /\ Synced(student).template = student.template
         /\ Synced(student).semester <= FirstSemester + Synced(student).marker + hasty
         /\ Synced(student).marker <= calendar.term
<1> DEFINE elapsed == TermsElapsed(student.marker, calendar.term)
           semester == IF student.semester + elapsed > LastSemester THEN LastSemester
                       ELSE student.semester + elapsed
           place == PolicySection(semester, calendar.term)
<1>1. /\ student \in StudentRow /\ calendar.term \in 0..MaxTerms /\ hasty \in Nat
      /\ student.semester <= FirstSemester + student.marker + hasty /\ student.marker <= calendar.term
  BY ProfileConstants DEF ProfileInv, ProfileTypeOK, Dated
<1>2. student.semester \in 0..LastSemester /\ student.marker \in 0..MaxTerms
  BY <1>1 DEF StudentRow
<1>3. elapsed \in Nat /\ elapsed = calendar.term - student.marker
  BY <1>1, <1>2, ProfileConstants DEF TermsElapsed
<1>4. semester \in 0..LastSemester /\ semester <= FirstSemester + calendar.term + hasty
  BY <1>1, <1>2, <1>3, ProfileConstants
<1>5. place \in SectionNames
  BY <1>1, <1>4, SectionsTyped
<1>6. Synced(student) = IF elapsed = 0 /\ student.section = place THEN student
        ELSE [student EXCEPT !.semester = semester, !.section = place, !.marker = calendar.term]
  BY DEF Synced
<1> HIDE DEF elapsed, semester, place
<1>7. CASE elapsed = 0 /\ student.section = place
  BY <1>1, <1>6, <1>7
<1>8. CASE ~(elapsed = 0 /\ student.section = place)
  <2>1. Synced(student) = [student EXCEPT !.semester = semester, !.section = place, !.marker = calendar.term]
    BY <1>6, <1>8
  <2>2. /\ Synced(student) \in StudentRow
        /\ Synced(student).semester = semester /\ Synced(student).marker = calendar.term
        /\ Synced(student).photo = student.photo /\ Synced(student).template = student.template
    BY <1>1, <1>4, <1>5, <2>1 DEF StudentRow
  <2>3. QED
    BY <1>1, <1>4, <2>2, ProfileConstants
<1>9. QED
  BY <1>7, <1>8

LEMMA ProfileInvInit == ProfileInit => ProfileInv
<1> SUFFICES ASSUME ProfileInit PROVE ProfileInv
  OBVIOUS
<1>1. PolicySection(FirstSemester, 0) \in SectionNames /\ StaffSection \in SectionNames
      /\ 0 \in 0..MaxTerms /\ FirstSemester \in 0..LastSemester /\ 0 \in 0..MaxHasty
  BY SectionsTyped, ProfileConstants
<1>2. NoUpload \in Upload
  BY DEF NoUpload, Upload
<1>3. student \in StudentRow
  BY <1>1 DEF ProfileInit, StudentRow
<1>4. ProfileTypeOK
  BY <1>1, <1>2, <1>3 DEF ProfileInit, ProfileTypeOK
<1>5. Dated
  BY ProfileConstants DEF ProfileInit, Dated
<1>6. PhotoKept /\ UnderWay
  BY DEF ProfileInit, PhotoKept, UnderWay, NoUpload
<1>7. QED
  BY <1>4, <1>5, <1>6 DEF ProfileInv

\* Steps that leave photos and requests alone.
LEMMA PhotosAlone ==
  ASSUME ProfileInv, UNCHANGED <<objects, upload, spoilt>>,
         student'.photo = student.photo, student'.template = student.template
  PROVE  PhotoKept' /\ UnderWay'
  BY DEF ProfileInv, PhotoKept, UnderWay

LEMMA ChangeSectionStep ==
  ASSUME ProfileInv, NEW place \in SectionNames, ChangeSection(place)
  PROVE  ProfileInv'
<1>1. /\ ProfileTypeOK /\ Dated /\ student \in StudentRow /\ calendar \in [term : 0..MaxTerms, night : BOOLEAN]
      /\ hasty \in 0..MaxHasty
  BY DEF ProfileInv, ProfileTypeOK
<1>2. /\ student' = [student EXCEPT !.section = place, !.marker = UtcTerm]
      /\ hasty' = (IF calendar.night /\ student.marker = calendar.term THEN hasty + 1 ELSE hasty)
      /\ hasty' <= MaxHasty
      /\ UNCHANGED <<taught, objects, upload, calendar, spoilt>>
  BY DEF ChangeSection
<1>3. calendar.term \in 0..MaxTerms /\ student.marker \in 0..MaxTerms /\ student.semester \in 0..LastSemester
  BY <1>1 DEF StudentRow
<1>4. /\ UtcTerm \in 0..MaxTerms /\ UtcTerm <= calendar.term
      /\ student.marker + hasty <= UtcTerm + hasty'
  BY <1>1, <1>2, <1>3, ProfileConstants DEF UtcTerm, Dated
<1>5. /\ student' \in StudentRow /\ student'.marker = UtcTerm /\ student'.semester = student.semester
      /\ student'.photo = student.photo /\ student'.template = student.template
  BY <1>1, <1>2, <1>4 DEF StudentRow
<1>6. hasty' \in 0..MaxHasty
  BY <1>1, <1>2, ProfileConstants
<1>7. ProfileTypeOK'
  BY <1>1, <1>2, <1>5, <1>6 DEF ProfileTypeOK
<1>8. Dated'
  BY <1>1, <1>2, <1>3, <1>4, <1>5, <1>6, ProfileConstants DEF Dated
<1>9. QED
  BY <1>2, <1>5, <1>7, <1>8, PhotosAlone DEF ProfileInv

LEMMA UploadTyped ==
  ASSUME ProfileInv, NEW t \in Uploaders
  PROVE  /\ upload \in [Uploaders -> Upload] /\ upload[t] \in Upload
         /\ upload[t].photo \in {NoPhoto} \cup Photos /\ upload[t].previous \in {NoPhoto} \cup Photos
         /\ upload[t].pc \in {"idle", "stored", "marked"}
<1>1. upload \in [Uploaders -> Upload]
  BY DEF ProfileInv, ProfileTypeOK
<1>2. QED
  BY <1>1 DEF Upload

Blobs == [row : {"none", "kept", "deleted"}, blob : {"none", "kept", "deleted"}]

LEMMA StorePhotoStep ==
  ASSUME ProfileInv, NEW t \in Uploaders, NEW k \in Photos, StorePhoto(t, k)
  PROVE  ProfileInv'
<1> DEFINE u == [pc |-> "stored", photo |-> k, previous |-> student.photo]
<1>1. /\ ProfileTypeOK /\ Dated /\ PhotoKept /\ UnderWay /\ student \in StudentRow
      /\ objects \in [Photos -> Blobs] /\ upload \in [Uploaders -> Upload]
  BY DEF ProfileInv, ProfileTypeOK, Blobs
<1>2. /\ objects' = [objects EXCEPT ![k] = [objects[k] EXCEPT !.blob = "kept"]]
      /\ upload' = [upload EXCEPT ![t] = u]
      /\ upload[t].pc = "idle" /\ objects[k].blob = "none"
      /\ UNCHANGED <<student, taught, calendar, spoilt, hasty>>
  BY DEF StorePhoto
<1>3. student.photo \in {NoPhoto} \cup Photos
  BY <1>1 DEF StudentRow
<1>4. u \in Upload /\ u.pc = "stored" /\ u.photo = k /\ u.previous = student.photo
  BY <1>3 DEF Upload
<1> HIDE DEF u
<1>5. /\ objects' \in [Photos -> Blobs]
      /\ \A j \in Photos \ {k} : objects'[j] = objects[j]
      /\ objects'[k].blob = "kept" /\ objects'[k].row = "none"
  <2>1. objects[k] \in Blobs /\ objects[k].row = "none"
    BY <1>1, <1>2 DEF UnderWay
  <2> DEFINE o == [objects[k] EXCEPT !.blob = "kept"]
  <2>2. o \in Blobs /\ o.blob = "kept" /\ o.row = "none" /\ objects' = [objects EXCEPT ![k] = o]
    BY <1>2, <2>1 DEF Blobs
  <2> HIDE DEF o
  <2>3. QED
    BY <1>1, <2>2
<1>6. /\ upload' \in [Uploaders -> Upload] /\ upload'[t] = u
      /\ \A v \in Uploaders \ {t} : upload'[v] = upload[v]
  BY <1>1, <1>2, <1>4
<1>7. ProfileTypeOK'
  BY <1>1, <1>2, <1>5, <1>6 DEF ProfileTypeOK, Blobs
<1>8. Dated'
  BY <1>1, <1>2 DEF Dated
<1>9. \A v \in Uploaders \ {t} : upload[v].pc # "idle" =>
        /\ upload[v].photo \in Photos \ {k}
        /\ objects[upload[v].photo].row = "none" /\ objects[upload[v].photo].blob = "kept"
        /\ upload[v].previous # NoPhoto =>
             upload[v].previous \in Photos \ {k} /\ objects[upload[v].previous].row # "none"
  <2>1. objects[k].row = "none"
    BY <1>1, <1>2 DEF UnderWay
  <2>2. QED
    BY <1>1, <1>2, <2>1, UploadTyped DEF UnderWay
<1>10. student.photo # NoPhoto => student.photo \in Photos \ {k} /\ objects[student.photo].row = "kept"
  BY <1>1, <1>2, <1>3 DEF PhotoKept
<1>11. PhotoKept'
  BY <1>1, <1>2, <1>5, <1>6, <1>10 DEF PhotoKept
<1>12. UnderWay'
  <2>1. \A j \in Photos : objects'[j].blob = "none" => objects'[j].row = "none"
    BY <1>1, <1>5 DEF UnderWay
  <2>2. ASSUME NEW v \in Uploaders, upload'[v].pc # "idle"
        PROVE  /\ upload'[v].photo \in Photos
               /\ objects'[upload'[v].photo].row = "none" /\ objects'[upload'[v].photo].blob = "kept"
               /\ upload'[v].previous # NoPhoto => objects'[upload'[v].previous].row # "none"
    <3>1. CASE v = t
      BY <1>4, <1>5, <1>6, <1>10, <3>1
    <3>2. CASE v # t
      BY <1>5, <1>6, <1>9, <2>2, <3>2
    <3>3. QED
      BY <3>1, <3>2
  <2>3. \A v, w \in Uploaders :
          v # w /\ upload'[v].pc # "idle" /\ upload'[w].pc # "idle" => upload'[v].photo # upload'[w].photo
    BY <1>1, <1>4, <1>6, <1>9 DEF UnderWay
  <2>4. QED
    BY <2>1, <2>2, <2>3 DEF UnderWay
<1>13. QED
  BY <1>7, <1>8, <1>11, <1>12 DEF ProfileInv

LEMMA MarkPreviousStep ==
  ASSUME ProfileInv, NEW t \in Uploaders, MarkPrevious(t)
  PROVE  ProfileInv'
<1> DEFINE k == upload[t].previous
           u == [upload[t] EXCEPT !.pc = "marked"]
<1>1. /\ ProfileTypeOK /\ Dated /\ PhotoKept /\ UnderWay /\ student \in StudentRow
      /\ objects \in [Photos -> Blobs] /\ upload \in [Uploaders -> Upload]
  BY DEF ProfileInv, ProfileTypeOK, Blobs
<1>2. /\ objects' = [j \in Photos |-> IF j = k THEN [objects[j] EXCEPT !.blob = "deleted"] ELSE objects[j]]
      /\ upload' = [upload EXCEPT ![t] = u]
      /\ upload[t].pc = "stored"
      /\ UNCHANGED <<student, taught, calendar, spoilt, hasty>>
  BY DEF MarkPrevious
<1>3. /\ u \in Upload /\ u.pc = "marked" /\ u.photo = upload[t].photo /\ u.previous = upload[t].previous
  BY <1>1 DEF Upload
<1>4. k \in {NoPhoto} \cup Photos
  BY UploadTyped
<1>5. k # NoPhoto => objects[k].row # "none"
  BY <1>1, <1>2 DEF UnderWay
<1> HIDE DEF u
<1>6. /\ upload' \in [Uploaders -> Upload] /\ upload'[t] = u
      /\ \A v \in Uploaders \ {t} : upload'[v] = upload[v]
  BY <1>1, <1>2, <1>3
<1>61. \A v \in Uploaders : /\ upload'[v].photo = upload[v].photo /\ upload'[v].previous = upload[v].previous
                            /\ upload'[v].pc = "idle" <=> upload[v].pc = "idle"
                            /\ upload[v].pc = "marked" => upload'[v].pc = "marked"
  BY <1>2, <1>3, <1>6
<1> HIDE DEF k
<1>7. /\ objects' \in [Photos -> Blobs]
      /\ \A j \in Photos : /\ objects'[j].row = objects[j].row
                           /\ j # k => objects'[j] = objects[j]
                           /\ j = k => objects'[j].blob = "deleted"
  <2>1. \A j \in Photos : /\ [objects[j] EXCEPT !.blob = "deleted"] \in Blobs
                          /\ [objects[j] EXCEPT !.blob = "deleted"].row = objects[j].row
                          /\ [objects[j] EXCEPT !.blob = "deleted"].blob = "deleted"
    BY <1>1 DEF Blobs
  <2>2. QED
    BY <1>1, <1>2, <2>1
<1>8. ProfileTypeOK'
  BY <1>1, <1>2, <1>6, <1>7 DEF ProfileTypeOK, Blobs
<1>9. Dated'
  BY <1>1, <1>2 DEF Dated
<1>10. PhotoKept'
  <2>1. student.photo \in {NoPhoto} \cup Photos
    BY <1>1 DEF StudentRow
  <2>2. CASE student.photo = NoPhoto
    BY <1>1, <1>2, <2>2 DEF PhotoKept
  <2>3. CASE student.photo # NoPhoto /\ student.photo # k
    BY <1>1, <1>2, <1>61, <1>7, <2>1, <2>3 DEF PhotoKept
  <2>4. CASE student.photo # NoPhoto /\ student.photo = k
    <3>1. upload'[t].pc = "marked" /\ upload'[t].previous = student.photo
      BY <1>3, <1>6, <2>4 DEF k
    <3>2. QED
      BY <1>1, <1>2, <1>7, <2>1, <2>4, <3>1 DEF PhotoKept
  <2>5. QED
    BY <2>2, <2>3, <2>4
<1>11. UnderWay'
  <2>1. \A j \in Photos : objects'[j].blob = "none" => objects'[j].row = "none"
    BY <1>1, <1>7 DEF UnderWay
  <2>2. ASSUME NEW v \in Uploaders, upload'[v].pc # "idle"
        PROVE  /\ upload'[v].photo \in Photos
               /\ objects'[upload'[v].photo].row = "none" /\ objects'[upload'[v].photo].blob = "kept"
               /\ upload'[v].previous # NoPhoto => objects'[upload'[v].previous].row # "none"
    <3>1. /\ upload[v].photo \in Photos
          /\ objects[upload[v].photo].row = "none" /\ objects[upload[v].photo].blob = "kept"
          /\ upload[v].previous # NoPhoto => objects[upload[v].previous].row # "none"
      BY <1>1, <1>61, <2>2 DEF UnderWay
    <3>2. upload[v].photo # k
      BY <1>5, <3>1 DEF NoPhoto, Photos
    <3>3. upload[v].previous \in {NoPhoto} \cup Photos
      BY UploadTyped
    <3>4. QED
      BY <1>61, <1>7, <3>1, <3>2, <3>3
  <2>3. \A v, w \in Uploaders :
          v # w /\ upload'[v].pc # "idle" /\ upload'[w].pc # "idle" => upload'[v].photo # upload'[w].photo
    BY <1>1, <1>61 DEF UnderWay
  <2>4. QED
    BY <2>1, <2>2, <2>3 DEF UnderWay
<1>12. QED
  BY <1>8, <1>9, <1>10, <1>11 DEF ProfileInv

LEMMA CommitPhotoStep ==
  ASSUME ProfileInv, NEW t \in Uploaders, CommitPhoto(t)
  PROVE  ProfileInv'
<1> DEFINE k == upload[t].photo
           b == upload[t].previous
<1>1. /\ ProfileTypeOK /\ Dated /\ PhotoKept /\ UnderWay /\ student \in StudentRow
      /\ objects \in [Photos -> Blobs] /\ upload \in [Uploaders -> Upload]
  BY DEF ProfileInv, ProfileTypeOK, Blobs
<1>2. /\ student' = [student EXCEPT !.photo = k, !.template = k, !.locked = TRUE]
      /\ objects' = [j \in Photos |-> CASE j = k -> [objects[j] EXCEPT !.row = "kept"]
                                        [] j = b -> [objects[j] EXCEPT !.row = "deleted"]
                                        [] OTHER -> objects[j]]
      /\ upload' = [upload EXCEPT ![t] = NoUpload]
      /\ upload[t].pc = "marked"
      /\ UNCHANGED <<taught, calendar, spoilt, hasty>>
  BY DEF CommitPhoto, TemplateOf
<1>3. /\ k \in Photos /\ objects[k].row = "none" /\ objects[k].blob = "kept" /\ b \in {NoPhoto} \cup Photos
      /\ k # NoPhoto
  BY <1>1, <1>2, UploadTyped DEF UnderWay, NoPhoto, Photos
<1>4. NoUpload \in Upload /\ NoUpload.pc = "idle"
  BY DEF NoUpload, Upload
<1>5. /\ upload' \in [Uploaders -> Upload] /\ upload'[t].pc = "idle"
      /\ \A v \in Uploaders \ {t} : upload'[v] = upload[v]
  BY <1>1, <1>2, <1>4
<1>6. \A v \in Uploaders \ {t} : upload[v].pc # "idle" => upload[v].photo # k
  BY <1>1, <1>2 DEF UnderWay
<1> HIDE DEF k, b
<1>7. /\ student' \in StudentRow /\ student'.photo = k /\ student'.template = k
      /\ student'.semester = student.semester /\ student'.marker = student.marker
  BY <1>1, <1>2, <1>3 DEF StudentRow
<1>8. /\ objects' \in [Photos -> Blobs]
      /\ \A j \in Photos : /\ objects'[j].blob = objects[j].blob
                           /\ objects[j].row # "none" => objects'[j].row # "none"
                           /\ j # k /\ j # b => objects'[j] = objects[j]
      /\ objects'[k].row = "kept"
  <2>1. \A j \in Photos : /\ [objects[j] EXCEPT !.row = "kept"] \in Blobs
                          /\ [objects[j] EXCEPT !.row = "kept"].row = "kept"
                          /\ [objects[j] EXCEPT !.row = "kept"].blob = objects[j].blob
                          /\ [objects[j] EXCEPT !.row = "deleted"] \in Blobs
                          /\ [objects[j] EXCEPT !.row = "deleted"].row = "deleted"
                          /\ [objects[j] EXCEPT !.row = "deleted"].blob = objects[j].blob
    BY <1>1 DEF Blobs
  <2>2. \A j \in Photos : \/ j = k /\ objects'[j] = [objects[j] EXCEPT !.row = "kept"]
                          \/ j = b /\ j # k /\ objects'[j] = [objects[j] EXCEPT !.row = "deleted"]
                          \/ j # k /\ j # b /\ objects'[j] = objects[j]
    <3> TAKE j \in Photos
    <3>1. objects'[j] = CASE j = k -> [objects[j] EXCEPT !.row = "kept"]
                          [] j = b -> [objects[j] EXCEPT !.row = "deleted"]
                          [] OTHER -> objects[j]
      BY <1>2
    <3>2. CASE j = k
      <4>1. b # k
        BY <1>1, <1>2, <1>3 DEF UnderWay, b
      <4>2. QED
        BY <3>1, <3>2, <4>1
    <3>3. CASE j # k /\ j = b
      BY <3>1, <3>3
    <3>4. CASE j # k /\ j # b
      BY <3>1, <3>4
    <3>5. QED
      BY <3>2, <3>3, <3>4
  <2>3. \A j \in Photos : objects'[j] \in Blobs
    BY <1>1, <2>1, <2>2
  <2>4. objects' \in [Photos -> Blobs]
    BY <1>2, <2>3
  <2>5. QED
    BY <1>3, <2>1, <2>2, <2>4
<1>9. ProfileTypeOK'
  BY <1>1, <1>2, <1>5, <1>7, <1>8 DEF ProfileTypeOK, Blobs
<1>10. Dated'
  BY <1>1, <1>2, <1>7 DEF Dated
<1>11. PhotoKept'
  <2>1. objects'[k].blob = "kept"
    BY <1>3, <1>8
  <2>2. QED
    BY <1>7, <1>8, <2>1 DEF PhotoKept
<1>12. UnderWay'
  <2>1. ASSUME NEW j \in Photos, objects'[j].blob = "none" PROVE objects'[j].row = "none"
    <3>1. objects[j].row = "none" /\ objects[j].blob = "none"
      BY <1>1, <1>8, <2>1 DEF UnderWay
    <3>2. j # k
      BY <1>3, <3>1
    <3>3. j # b
      <4>1. b # NoPhoto => objects[b].row # "none"
        BY <1>1, <1>2 DEF UnderWay, b
      <4>2. j # NoPhoto
        BY DEF Photos, NoPhoto
      <4>3. QED
        BY <3>1, <4>1, <4>2
    <3>4. QED
      BY <1>8, <3>1, <3>2, <3>3
  <2>2. ASSUME NEW v \in Uploaders, upload'[v].pc # "idle"
        PROVE  /\ upload'[v].photo \in Photos
               /\ objects'[upload'[v].photo].row = "none" /\ objects'[upload'[v].photo].blob = "kept"
               /\ upload'[v].previous # NoPhoto => objects'[upload'[v].previous].row # "none"
    <3>1. v # t /\ upload'[v] = upload[v]
      BY <1>5, <2>2
    <3>2. /\ upload[v].photo \in Photos
          /\ objects[upload[v].photo].row = "none" /\ objects[upload[v].photo].blob = "kept"
          /\ upload[v].previous # NoPhoto => objects[upload[v].previous].row # "none"
      BY <1>1, <2>2, <3>1 DEF UnderWay
    <3>3. upload[v].photo # k /\ upload[v].photo # b
      <4>1. b # NoPhoto => objects[b].row # "none"
        BY <1>1, <1>2 DEF UnderWay, b
      <4>2. upload[v].photo # NoPhoto
        BY <3>2 DEF Photos, NoPhoto
      <4>3. QED
        BY <1>6, <2>2, <3>1, <3>2, <4>1, <4>2
    <3>4. upload[v].previous \in {NoPhoto} \cup Photos
      BY UploadTyped
    <3>5. QED
      BY <1>8, <3>1, <3>2, <3>3, <3>4
  <2>3. \A v, w \in Uploaders :
          v # w /\ upload'[v].pc # "idle" /\ upload'[w].pc # "idle" => upload'[v].photo # upload'[w].photo
    BY <1>1, <1>5 DEF UnderWay
  <2>4. QED
    BY <2>1, <2>2, <2>3 DEF UnderWay
<1>13. QED
  BY <1>9, <1>10, <1>11, <1>12 DEF ProfileInv

LEMMA LosePhotoStep ==
  ASSUME ProfileInv, NEW t \in Uploaders, LosePhoto(t)
  PROVE  ProfileInv'
<1>1. /\ ProfileTypeOK /\ Dated /\ PhotoKept /\ UnderWay /\ student \in StudentRow
      /\ upload \in [Uploaders -> Upload] /\ spoilt \subseteq Photos
  BY DEF ProfileInv, ProfileTypeOK
<1>2. /\ upload' = [upload EXCEPT ![t] = NoUpload]
      /\ spoilt' = (IF upload[t].pc = "marked" /\ upload[t].previous # NoPhoto
                    THEN spoilt \cup {upload[t].previous} ELSE spoilt)
      /\ UNCHANGED <<student, taught, objects, calendar, hasty>>
  BY DEF LosePhoto
<1>3. NoUpload \in Upload /\ NoUpload.pc = "idle"
  BY DEF NoUpload, Upload
<1>4. /\ upload' \in [Uploaders -> Upload] /\ upload'[t].pc = "idle"
      /\ \A v \in Uploaders \ {t} : upload'[v] = upload[v]
  BY <1>1, <1>2, <1>3
<1>5. spoilt' \subseteq Photos /\ spoilt \subseteq spoilt'
  BY <1>1, <1>2, UploadTyped
<1>6. ProfileTypeOK'
  BY <1>1, <1>2, <1>4, <1>5 DEF ProfileTypeOK
<1>7. Dated'
  BY <1>1, <1>2 DEF Dated
<1>8. ASSUME NEW k, k # NoPhoto, NEW v \in Uploaders, upload[v].pc = "marked", upload[v].previous = k
      PROVE  k \in spoilt' \/ \E w \in Uploaders : upload'[w].pc = "marked" /\ upload'[w].previous = k
  BY <1>2, <1>4, <1>8
<1>9. PhotoKept'
  <2>1. CASE student.photo = NoPhoto
    BY <1>1, <1>2, <2>1 DEF PhotoKept
  <2>2. CASE student.photo # NoPhoto
    <3>1. /\ student.template = student.photo
          /\ objects[student.photo].row = "kept" /\ objects[student.photo].blob # "none"
          /\ objects[student.photo].blob = "deleted" =>
               student.photo \in spoilt
                 \/ \E v \in Uploaders : upload[v].pc = "marked" /\ upload[v].previous = student.photo
      BY <1>1, <2>2 DEF PhotoKept
    <3>2. objects[student.photo].blob = "deleted" =>
               student.photo \in spoilt'
                 \/ \E v \in Uploaders : upload'[v].pc = "marked" /\ upload'[v].previous = student.photo
      BY <1>5, <1>8, <2>2, <3>1
    <3>3. QED
      BY <1>2, <3>1, <3>2 DEF PhotoKept
  <2>3. QED
    BY <2>1, <2>2
<1>10. UnderWay'
  BY <1>1, <1>2, <1>4 DEF UnderWay
<1>11. QED
  BY <1>6, <1>7, <1>9, <1>10 DEF ProfileInv

LEMMA ProfileInvStep == ProfileInv /\ [ProfileNext]_profileVars => ProfileInv'
<1> SUFFICES ASSUME ProfileInv, [ProfileNext]_profileVars PROVE ProfileInv'
  OBVIOUS
<1>1. /\ ProfileTypeOK /\ Dated /\ student \in StudentRow
      /\ calendar \in [term : 0..MaxTerms, night : BOOLEAN]
  BY DEF ProfileInv, ProfileTypeOK
<1>2. CASE NextTerm
  <2>1. /\ calendar' = [term |-> calendar.term + 1, night |-> TRUE] /\ calendar.term < MaxTerms
        /\ UNCHANGED <<student, taught, objects, upload, spoilt, hasty>>
    BY <1>2 DEF NextTerm
  <2>2. /\ calendar' \in [term : 0..MaxTerms, night : BOOLEAN]
        /\ calendar'.term = calendar.term + 1 /\ calendar'.night = TRUE /\ calendar.term \in Nat
    BY <1>1, <2>1, ProfileConstants
  <2>3. ProfileTypeOK'
    BY <1>1, <2>1, <2>2 DEF ProfileTypeOK
  <2>4. student.marker \in Nat
    BY <1>1 DEF StudentRow
  <2>5. Dated'
    BY <1>1, <2>1, <2>2, <2>4 DEF Dated
  <2>6. QED
    BY <2>1, <2>3, <2>5, PhotosAlone DEF ProfileInv
<1>3. CASE Dawn
  <2>1. /\ calendar' = [calendar EXCEPT !.night = FALSE]
        /\ UNCHANGED <<student, taught, objects, upload, spoilt, hasty>>
    BY <1>3 DEF Dawn
  <2>2. /\ calendar' \in [term : 0..MaxTerms, night : BOOLEAN]
        /\ calendar'.term = calendar.term /\ calendar'.night = FALSE
    BY <1>1, <2>1
  <2>3. ProfileTypeOK' /\ Dated'
    BY <1>1, <2>1, <2>2 DEF ProfileTypeOK, Dated
  <2>4. QED
    BY <2>1, <2>3, PhotosAlone DEF ProfileInv
<1>4. CASE SyncTerm \/ ReadProfile
  <2>1. /\ student' = Synced(student)
        /\ taught' = taught \/ taught' = Synced(student).section
        /\ UNCHANGED <<objects, upload, calendar, spoilt, hasty>>
    BY <1>4 DEF SyncTerm, ReadProfile
  <2>2. Synced(student).section \in SectionNames
    BY SyncedKeeps DEF StudentRow
  <2>3. ProfileTypeOK'
    BY <1>1, <2>1, <2>2, SyncedKeeps DEF ProfileTypeOK
  <2>4. Dated'
    BY <1>1, <2>1, SyncedKeeps DEF Dated
  <2>5. QED
    BY <2>1, <2>3, <2>4, SyncedKeeps, PhotosAlone DEF ProfileInv
<1>5. CASE UnlockPhoto
  <2>1. student' = [student EXCEPT !.locked = FALSE]
        /\ UNCHANGED <<taught, objects, upload, calendar, spoilt, hasty>>
    BY <1>5 DEF UnlockPhoto
  <2>2. /\ student' \in StudentRow /\ student'.semester = student.semester /\ student'.marker = student.marker
        /\ student'.photo = student.photo /\ student'.template = student.template
    BY <1>1, <2>1 DEF StudentRow
  <2>3. ProfileTypeOK' /\ Dated'
    BY <1>1, <2>1, <2>2 DEF ProfileTypeOK, Dated
  <2>4. QED
    BY <2>1, <2>2, <2>3, PhotosAlone DEF ProfileInv
<1>6. CASE UNCHANGED profileVars
  BY <1>6 DEF profileVars, ProfileInv, ProfileTypeOK, Dated, PhotoKept, UnderWay
<1>7. QED
  BY <1>2, <1>3, <1>4, <1>5, <1>6, ChangeSectionStep, StorePhotoStep, MarkPreviousStep,
     CommitPhotoStep, LosePhotoStep DEF ProfileNext

LEMMA ProfileInvAlways == ProfileSpec => []ProfileInv
  BY ProfileInvInit, ProfileInvStep, PTL DEF ProfileSpec

\* PhotoIsWhole is an invariant: however many uploads overlap, a student's photo can be read
\* from both stores and is the one the template was made of, unless a request that failed
\* or has not ended marked it deleted (_apply_student_profile_update, mark_media_deleted).
THEOREM PhotoIsWholeAlways == ProfileSpec => []PhotoIsWhole
<1>1. ASSUME ProfileInv, student.photo # NoPhoto
      PROVE  /\ student.template = student.photo
             /\ \/ Opens(student.photo)
                \/ student.photo \in spoilt
                \/ \E t \in Uploaders : upload[t].pc = "marked" /\ upload[t].previous = student.photo
  <2>1. student.photo \in Photos /\ objects \in [Photos -> Blobs]
    BY <1>1 DEF ProfileInv, ProfileTypeOK, StudentRow, Blobs
  <2>2. objects[student.photo].blob \in {"none", "kept", "deleted"}
    BY <2>1 DEF Blobs
  <2>3. QED
    BY <1>1, <2>2 DEF ProfileInv, PhotoKept, Opens
<1>2. ProfileInv => PhotoIsWhole
  BY <1>1 DEF PhotoIsWhole
<1>3. QED
  BY <1>2, ProfileInvAlways, PTL

\* PromotedOncePerTerm is an invariant: for every number of terms, whoever reads the profile
\* and whenever staff change the section, a student rises by one semester a term and no
\* more, but for changes of section in the first night of a term (assign_student_section).
THEOREM PromotedOncePerTermAlways == ProfileSpec => []PromotedOncePerTerm
<1>1. ASSUME ProfileInv PROVE PromotedOncePerTerm
  <2>1. student.semester \in Nat /\ student.marker \in Nat /\ hasty \in Nat /\ calendar.term \in Nat
    BY <1>1, ProfileConstants DEF ProfileInv, ProfileTypeOK, StudentRow
  <2>2. student.semester <= FirstSemester + student.marker + hasty /\ student.marker <= calendar.term
    BY <1>1 DEF ProfileInv, Dated
  <2>3. QED
    BY <2>1, <2>2, ProfileConstants DEF PromotedOncePerTerm
<1>2. QED
  BY <1>1, ProfileInvAlways, PTL

(***************************************************************************)
(* The identity shield                                                     *)
(***************************************************************************)

ShieldSpec == ShieldInit /\ [][ShieldNext]_shieldVars

\* Whoever is verified has faces that do not differ.
Verifiable(c) == c.status = "verified" =>
  c.photo # 0 /\ c.video # 0 /\ Likeness[c.photo][c.video] # "differ"
StatusesHold ==
  /\ \A c \in cases : Verifiable(c)
  /\ \A t \in Screeners : screener[t].pc = "read" => Verifiable(screener[t])

\* The faces of now were screened, or a request is to look at them or has.
ScreeningAhead == faces.video # 0 /\ ~unscreened =>
  \/ \E c \in cases : c.photo = faces.photo /\ c.video = faces.video
  \/ \E t \in Screeners :
       \/ screener[t].pc = "screen"
       \/ screener[t].pc = "read" /\ screener[t].photo = faces.photo /\ screener[t].video = faces.video

ShieldInv == ShieldTypeOK /\ StatusesHold /\ ScreeningAhead

LEMMA StatusTyped ==
  ASSUME NEW signals
  PROVE  /\ StatusFor(signals) \in Statuses
         /\ StatusFor(signals) = "verified" => \A s \in signals : ~s.blocking
  BY Zenon DEF StatusFor, Statuses

LEMMA StudentStatus ==
  ASSUME NEW p, NEW v, StatusFor(StudentSignals(p, v)) = "verified"
  PROVE  p # 0 /\ v # 0 /\ Likeness[p][v] # "differ"
<1>1. \A s \in StudentSignals(p, v) : ~s.blocking
  BY StatusTyped
<1>2. p # 0
  <2>1. p = 0 => Blocking("no_face", 32) \in StudentSignals(p, v)
    BY DEF StudentSignals, When
  <2>2. QED
    BY <1>1, <2>1 DEF Blocking
<1>3. v # 0
  <2>1. v = 0 => Blocking("no_video", 40) \in StudentSignals(p, v)
    BY DEF StudentSignals, When
  <2>2. QED
    BY <1>1, <2>1 DEF Blocking
<1>4. Likeness[p][v] # "differ"
  <2>1. Likeness[p][v] = "differ" => Blocking("mismatch", 45) \in StudentSignals(p, v)
    BY <1>2, <1>3 DEF StudentSignals, When
  <2>2. QED
    BY <1>1, <2>1 DEF Blocking
<1>5. QED
  BY <1>2, <1>3, <1>4

Screener == [pc : {"idle", "photo", "screen", "read"}, hadVideo : BOOLEAN,
             photo : PhotoNumbers, video : VideoNumbers, status : Statuses]

LEMMA ShieldConstants == MaxFaces \in Nat /\ MaxVideos \in Nat /\ MaxSessions \in Nat
  BY ShieldAssumption

LEMMA IdleTyped == Idle \in Screener /\ Idle.pc = "idle"
  BY ShieldConstants DEF Idle, Screener, PhotoNumbers, VideoNumbers, Statuses

\* A step that moves one request, and neither screens nor saves anything.
LEMMA ScreenerMoves ==
  ASSUME ShieldInv, NEW t \in Screeners, NEW r \in Screener, screener' = [screener EXCEPT ![t] = r],
         UNCHANGED <<accountOf, device, sessionsSeen, applied>>,
         faces' \in [photo : PhotoNumbers, video : VideoNumbers], unscreened' \in BOOLEAN,
         cases' \subseteq [photo : PhotoNumbers, video : VideoNumbers, status : Statuses],
         \A c \in cases' : Verifiable(c),
         r.pc = "read" => Verifiable(r),
         \/ unscreened' \/ r.pc = "screen" \/ faces'.video = 0
         \/ r.pc = "read" /\ r.photo = faces'.photo /\ r.video = faces'.video
         \/ /\ faces' = faces /\ (unscreened' <=> unscreened) /\ cases \subseteq cases'
            /\ \/ screener[t].pc \in {"idle", "photo"}
               \/ screener[t].pc = "read" /\ \E c \in cases' : c.photo = screener[t].photo /\ c.video = screener[t].video
  PROVE  ShieldInv'
<1>1. /\ ShieldTypeOK /\ StatusesHold /\ ScreeningAhead /\ screener \in [Screeners -> Screener]
  BY DEF ShieldInv, ShieldTypeOK, Screener
<1>2. /\ screener' \in [Screeners -> Screener] /\ screener'[t] = r
      /\ \A v \in Screeners \ {t} : screener'[v] = screener[v]
  BY <1>1
<1>3. ShieldTypeOK'
  BY <1>1, <1>2 DEF ShieldTypeOK, Screener
<1>4. StatusesHold'
  BY <1>1, <1>2 DEF StatusesHold, Verifiable
<1>5. ScreeningAhead'
  <2>1. CASE unscreened' \/ r.pc = "screen" \/ faces'.video = 0
    BY <1>2, <2>1 DEF ScreeningAhead
  <2>2. CASE r.pc = "read" /\ r.photo = faces'.photo /\ r.video = faces'.video
    BY <1>2, <2>2 DEF ScreeningAhead
  <2>3. CASE /\ faces' = faces /\ (unscreened' <=> unscreened) /\ cases \subseteq cases'
             /\ \/ screener[t].pc \in {"idle", "photo"}
                \/ screener[t].pc = "read" /\ \E c \in cases' : c.photo = screener[t].photo /\ c.video = screener[t].video
    <3> SUFFICES ASSUME faces.video # 0, ~unscreened
                 PROVE  \/ \E c \in cases' : c.photo = faces.photo /\ c.video = faces.video
                        \/ \E v \in Screeners :
                             \/ screener'[v].pc = "screen"
                             \/ screener'[v].pc = "read" /\ screener'[v].photo = faces.photo
                                                        /\ screener'[v].video = faces.video
      BY <2>3 DEF ScreeningAhead
    <3>1. CASE \E c \in cases : c.photo = faces.photo /\ c.video = faces.video
      BY <2>3, <3>1
    <3>2. ASSUME NEW v \in Screeners, \/ screener[v].pc = "screen"
                                      \/ screener[v].pc = "read" /\ screener[v].photo = faces.photo
                                                        /\ screener[v].video = faces.video
          PROVE  \/ \E c \in cases' : c.photo = faces.photo /\ c.video = faces.video
                 \/ \E w \in Screeners :
                             \/ screener'[w].pc = "screen"
                             \/ screener'[w].pc = "read" /\ screener'[w].photo = faces.photo
                                                        /\ screener'[w].video = faces.video
      <4>1. CASE v # t
        BY <1>2, <3>2, <4>1
      <4>2. CASE v = t
        BY <2>3, <3>2, <4>2
      <4>3. QED
        BY <4>1, <4>2
    <3>3. QED
      BY <1>1, <3>1, <3>2 DEF ScreeningAhead
  <2>4. QED
    BY <2>1, <2>2, <2>3
<1>6. QED
  BY <1>3, <1>4, <1>5 DEF ShieldInv

LEMMA ShieldInvInit == ShieldInit => ShieldInv
<1> SUFFICES ASSUME ShieldInit PROVE ShieldInv
  OBVIOUS
<1>1. ShieldTypeOK
  <2>1. FirstAccounts \subseteq {"none", "inactive", "active"} /\ FirstDevice \subseteq Persons
    BY ShieldAssumption, Zenon
  <2>2. faces \in [photo : PhotoNumbers, video : VideoNumbers] /\ sessionsSeen \in 0..MaxSessions
    BY ShieldConstants DEF ShieldInit, PhotoNumbers, VideoNumbers
  <2>3. screener \in [Screeners -> Screener]
    BY IdleTyped DEF ShieldInit
  <2>4. QED
    BY <2>1, <2>2, <2>3 DEF ShieldInit, ShieldTypeOK, Screener
<1>2. StatusesHold /\ ScreeningAhead
  BY IdleTyped DEF ShieldInit, StatusesHold, ScreeningAhead
<1>3. QED
  BY <1>1, <1>2 DEF ShieldInv

LEMMA ShieldInvStep == ShieldInv /\ [ShieldNext]_shieldVars => ShieldInv'
<1> SUFFICES ASSUME ShieldInv, [ShieldNext]_shieldVars PROVE ShieldInv'
  OBVIOUS
<1>1. /\ ShieldTypeOK /\ StatusesHold /\ ScreeningAhead /\ screener \in [Screeners -> Screener]
      /\ faces \in [photo : PhotoNumbers, video : VideoNumbers] /\ unscreened \in BOOLEAN
      /\ cases \subseteq [photo : PhotoNumbers, video : VideoNumbers, status : Statuses]
      /\ \A c \in cases : Verifiable(c)
      /\ faces.photo \in PhotoNumbers /\ faces.video \in VideoNumbers
  BY DEF ShieldInv, ShieldTypeOK, Screener, StatusesHold
<1>2. ASSUME NEW person \in Persons, ObserveSession(person) PROVE ShieldInv'
  BY <1>1, <1>2, ShieldConstants DEF ObserveSession, ShieldInv, ShieldTypeOK, StatusesHold, ScreeningAhead
<1>3. ASSUME NEW a \in Applicants, Assess(a) PROVE ShieldInv'
  <2>1. applied' \in Statuses /\ UNCHANGED <<faces, accountOf, device, sessionsSeen, screener, cases, unscreened>>
    BY <1>3, StatusTyped DEF Assess
  <2>2. QED
    BY <1>1, <2>1 DEF ShieldInv, ShieldTypeOK, StatusesHold, ScreeningAhead
<1>4. ASSUME NEW t \in Screeners, BeginPhoto(t) PROVE ShieldInv'
  <2> DEFINE r == [Idle EXCEPT !.pc = "photo", !.hadVideo = faces.video # 0]
  <2>1. r \in Screener /\ r.pc = "photo"
    BY IdleTyped DEF Screener
  <2>2. /\ screener' = [screener EXCEPT ![t] = r] /\ screener[t].pc = "idle"
        /\ UNCHANGED <<faces, accountOf, device, sessionsSeen, cases, applied, unscreened>>
    BY <1>4 DEF BeginPhoto
  <2> HIDE DEF r
  <2>3. QED
    BY <1>1, <2>1, <2>2, ScreenerMoves
<1>5. ASSUME NEW t \in Screeners, SavePhoto(t) PROVE ShieldInv'
  <2> DEFINE r == IF screener[t].hadVideo THEN [Idle EXCEPT !.pc = "screen"] ELSE Idle
  <2>0. screener[t].hadVideo \in BOOLEAN
    BY <1>1 DEF Screener
  <2>1. r \in Screener /\ (screener[t].hadVideo => r.pc = "screen") /\ r.pc # "read"
    BY IdleTyped DEF Screener
  <2>2. /\ screener' = [screener EXCEPT ![t] = r] /\ faces.photo < MaxFaces
        /\ faces' = [faces EXCEPT !.photo = faces.photo + 1]
        /\ unscreened' = (unscreened \/ (~screener[t].hadVideo /\ faces.video # 0))
        /\ UNCHANGED <<accountOf, device, sessionsSeen, cases, applied>>
    BY <1>5 DEF SavePhoto, ScreensPhoto
  <2> HIDE DEF r
  <2>3. faces' \in [photo : PhotoNumbers, video : VideoNumbers] /\ faces'.video = faces.video
    BY <1>1, <2>2, ShieldConstants DEF PhotoNumbers
  <2>4. unscreened' \in BOOLEAN /\ (unscreened' \/ r.pc = "screen" \/ faces'.video = 0)
    BY <1>1, <2>0, <2>1, <2>2, <2>3
  <2>5. QED
    BY <1>1, <2>1, <2>2, <2>3, <2>4, ScreenerMoves
<1>6. ASSUME NEW t \in Screeners, SaveVideo(t) \/ AskScreening(t) PROVE ShieldInv'
  <2> DEFINE r == [Idle EXCEPT !.pc = "screen"]
  <2>1. r \in Screener /\ r.pc = "screen"
    BY IdleTyped DEF Screener
  <2>2. /\ screener' = [screener EXCEPT ![t] = r]
        /\ faces' = faces \/ (faces.video < MaxVideos /\ faces' = [faces EXCEPT !.video = faces.video + 1])
        /\ UNCHANGED <<accountOf, device, sessionsSeen, cases, applied, unscreened>>
    BY <1>6 DEF SaveVideo, AskScreening
  <2> HIDE DEF r
  <2>3. faces' \in [photo : PhotoNumbers, video : VideoNumbers]
    BY <1>1, <2>2, ShieldConstants DEF VideoNumbers
  <2>4. QED
    BY <1>1, <2>1, <2>2, <2>3, ScreenerMoves
<1>7. ASSUME NEW t \in Screeners, ReadSubject(t) PROVE ShieldInv'
  <2> DEFINE status == StatusFor(StudentSignals(faces.photo, faces.video))
             r == [Idle EXCEPT !.pc = "read", !.photo = faces.photo, !.video = faces.video, !.status = status]
  <2>1. screener' = [screener EXCEPT ![t] = r]
        /\ UNCHANGED <<faces, accountOf, device, sessionsSeen, cases, applied, unscreened>>
    BY <1>7 DEF ReadSubject
  <2>2. status \in Statuses /\ (status = "verified" =>
          faces.photo # 0 /\ faces.video # 0 /\ Likeness[faces.photo][faces.video] # "differ")
    BY StatusTyped, StudentStatus
  <2> HIDE DEF status
  <2>3. /\ r \in Screener /\ r.pc = "read" /\ r.photo = faces.photo /\ r.video = faces.video
        /\ r.status = status
    BY <1>1, <2>2, IdleTyped DEF Screener
  <2> HIDE DEF r
  <2>4. Verifiable(r)
    BY <2>2, <2>3 DEF Verifiable
  <2>5. QED
    BY <1>1, <2>1, <2>3, <2>4, ScreenerMoves
<1>8. ASSUME NEW t \in Screeners, PersistCase(t) PROVE ShieldInv'
  <2> DEFINE c == [photo |-> screener[t].photo, video |-> screener[t].video, status |-> screener[t].status]
  <2>1. /\ screener[t].pc = "read" /\ cases' = cases \cup {c}
        /\ screener' = [screener EXCEPT ![t] = Idle]
        /\ UNCHANGED <<faces, accountOf, device, sessionsSeen, applied, unscreened>>
    BY <1>8 DEF PersistCase
  <2>2. /\ c \in [photo : PhotoNumbers, video : VideoNumbers, status : Statuses]
        /\ c.photo = screener[t].photo /\ c.video = screener[t].video /\ c.status = screener[t].status
    BY <1>1 DEF Screener
  <2> HIDE DEF c
  <2>3. Verifiable(c)
    BY <1>1, <2>1, <2>2 DEF StatusesHold, Verifiable
  <2>4. \A d \in cases' : Verifiable(d)
    BY <1>1, <2>1, <2>3
  <2>5. cases' \subseteq [photo : PhotoNumbers, video : VideoNumbers, status : Statuses]
    BY <1>1, <2>1, <2>2
  <2>6. QED
    BY <1>1, <2>1, <2>2, <2>4, <2>5, IdleTyped, ScreenerMoves
<1>9. ASSUME NEW t \in Screeners, LoseScreening(t) PROVE ShieldInv'
  BY <1>1, <1>9, IdleTyped, ScreenerMoves DEF LoseScreening
<1>10. CASE UNCHANGED shieldVars
  BY <1>1, <1>10 DEF shieldVars, ShieldInv, ShieldTypeOK, StatusesHold, ScreeningAhead
<1>11. QED
  BY <1>2, <1>3, <1>4, <1>5, <1>6, <1>7, <1>8, <1>9, <1>10 DEF ShieldNext

\* FacesAreScreened is an invariant: however changes of photo and video overlap, the faces a
\* student ends up with were screened together, unless a screening was lost, and nobody was
\* verified whose faces differ (update_student_profile, run_student_enrollment_screening).
THEOREM FacesAreScreenedAlways == ShieldSpec => []FacesAreScreened
<1>1. ShieldSpec => []ShieldInv
  BY ShieldInvInit, ShieldInvStep, PTL DEF ShieldSpec
<1>2. ShieldInv => FacesAreScreened
  BY DEF ShieldInv, StatusesHold, ScreeningAhead, Verifiable, FacesAreScreened
<1>3. QED
  BY <1>1, <1>2, PTL


\* A set of numbers has a least one.
LEMMA LeastNumber ==
  ASSUME NEW T, T \subseteq Nat, T # {}
  PROVE  \E x \in T : \A y \in T : x <= y
<1>1. PICK x \in T : \A y \in T : <<y, x>> \notin OpToRel(<, Nat)
  BY NatLessThanWellFounded, WFMin
<1>2. ASSUME NEW y \in T, ~(x <= y) PROVE FALSE
  <2>1. y < x /\ x \in Nat /\ y \in Nat
    BY <1>2
  <2>2. <<y, x>> \in OpToRel(<, Nat)
    BY <2>1 DEF OpToRel
  <2>3. QED
    BY <1>1, <2>2
<1>3. QED
  BY <1>1, <1>2

(***************************************************************************)
(* Cases of a support thread                                               *)
(***************************************************************************)

RmsSpec == RmsInit /\ [][RmsNext]_rmsVars

\* A case that is assigned or settled has an assignee.
Owned(r) == r.status \in {"ASSIGNED"} \cup Settled => r.assigned

\* A last message that is a word was spoken.  Before the first, only transitions move a case.
Transitional ==
  /\ thread.last \in Words => thread.spoken
  /\ \A c \in ThreadCaseIds : threadCases[c].status = "none" => threadCases[c] = NoCase
  /\ ~thread.spoken => \A c \in ThreadCaseIds : Owned(threadCases[c])

\* A request that may be committed as things are now: the case is there, and has not lost
\* the assignee it had when the request read it.
Fits(r) ==
  /\ r \in Request /\ r.new.status # "none"
  /\ r.case # 0 => threadCases[r.case].status # "none"
  /\ ~thread.spoken /\ r.word = "none" =>
       /\ Owned(r.new)
       /\ r.case # 0 /\ r.read.assigned => r.new.assigned /\ threadCases[r.case].assigned

HeldFits == held # NoRequest => Fits(held)

RmsInv == RmsTypeOK /\ Transitional /\ HeldFits

LEMMA RmsConstants == MaxThreadCases \in Nat \ {0}
  BY RmsAssumption

LEMMA LifecycleSteps ==
  ASSUME NEW step \in Lifecycle
  PROVE  /\ step[3] \in {"NEW", "TRIAGE", "ASSIGNED", "APPROVED", "REJECTED", "CLOSED"}
         /\ step[3] = "ASSIGNED" => step[2] = "ASSIGN"
         /\ step[3] \in Settled => step[1] \in {"ASSIGNED"} \cup Settled
<1>1. CASE step \in {<<"NEW", "TRIAGE", "TRIAGE">>, <<"TRIAGE", "ASSIGN", "ASSIGNED">>}
  BY <1>1 DEF Settled
<1>2. CASE step \in {<<"ASSIGNED", "APPROVE", "APPROVED">>, <<"ASSIGNED", "REJECT", "REJECTED">>}
  BY <1>2 DEF Settled
<1>3. CASE step \in {<<"APPROVED", "CLOSE", "CLOSED">>, <<"REJECTED", "CLOSE", "CLOSED">>}
  BY <1>3 DEF Settled
<1>4. CASE \E status \in Settled : step = <<status, "REOPEN", "NEW">>
  BY <1>4 DEF Settled
<1>5. QED
  BY <1>1, <1>2, <1>3, <1>4, Zenon DEF Lifecycle

LEMMA AfterKeeps ==
  ASSUME NEW r \in CaseRow, NEW do, Allowed(r, do)
  PROVE  /\ After(r, do) \in CaseRow /\ After(r, do).status # "none"
         /\ r.assigned => After(r, do).assigned
         /\ Owned(r) => Owned(After(r, do))
<1> DEFINE step == CHOOSE step \in Lifecycle : step[1] = r.status /\ step[2] = do
<1>1. step \in Lifecycle /\ step[1] = r.status /\ step[2] = do
  BY Zenon DEF Allowed
<1>2. After(r, do) = [status |-> step[3], assigned |-> r.assigned \/ do = "ASSIGN"]
  BY DEF After
<1> HIDE DEF step
<1>3. /\ step[3] \in {"NEW", "TRIAGE", "ASSIGNED", "APPROVED", "REJECTED", "CLOSED"}
      /\ step[3] = "ASSIGNED" => do = "ASSIGN"
      /\ step[3] \in Settled => r.status \in {"ASSIGNED"} \cup Settled
  BY <1>1, LifecycleSteps
<1>4. r.assigned \in BOOLEAN
  BY DEF CaseRow
<1>5. After(r, do).status = step[3] /\ After(r, do).assigned = (r.assigned \/ do = "ASSIGN")
  BY <1>2
<1>6. After(r, do) \in CaseRow
  BY <1>2, <1>3, <1>4 DEF CaseRow, Settled
<1>7. Owned(r) => Owned(After(r, do))
  BY <1>3, <1>4, <1>5 DEF Owned
<1>8. QED
  BY <1>3, <1>4, <1>5, <1>6, <1>7

LEMMA NewCaseTyped ==
  /\ NewCase \in CaseRow /\ NewCase.status = "NEW" /\ NewCase.assigned = FALSE
  /\ NoCase \in CaseRow /\ NoCase.status = "none" /\ NoCase.assigned = FALSE
  BY DEF NewCase, NoCase, CaseRow, Settled

LEMMA IfAllowedKeeps ==
  ASSUME NEW r \in CaseRow, NEW do
  PROVE  IfAllowed(r, do) \in CaseRow /\ (r.status # "none" => IfAllowed(r, do).status # "none")
  BY AfterKeeps DEF IfAllowed

LEMMA WordedKeeps ==
  ASSUME NEW r \in CaseRow, NEW word \in Words
  PROVE  Worded(r, word) \in CaseRow /\ (r.status # "none" => Worded(r, word).status # "none")
<1> DEFINE advanced == IfAllowed(IfAllowed(r, "TRIAGE"), "ASSIGN")
<1>1. advanced \in CaseRow /\ (r.status # "none" => advanced.status # "none")
  BY IfAllowedKeeps
<1> HIDE DEF advanced
<1>2. /\ IfAllowed(advanced, "APPROVE") \in CaseRow /\ IfAllowed(advanced, "REJECT") \in CaseRow
      /\ r.status # "none" => IfAllowed(advanced, "APPROVE").status # "none" /\ IfAllowed(advanced, "REJECT").status # "none"
  BY <1>1, IfAllowedKeeps
<1>3. Worded(r, word) \in {IfAllowed(advanced, "APPROVE"), IfAllowed(advanced, "REJECT"), advanced}
  BY DEF Worded, advanced
<1>4. QED
  BY <1>1, <1>2, <1>3

LEMMA MergedTyped ==
  ASSUME NEW now \in CaseRow, NEW read \in CaseRow, NEW new \in CaseRow
  PROVE  /\ Merged(now, read, new) \in CaseRow
         /\ Merged(now, read, new).status = IF new.status # read.status THEN new.status ELSE now.status
         /\ Merged(now, read, new).assigned = IF new.assigned # read.assigned THEN new.assigned ELSE now.assigned
<1>1. DOMAIN now = {"status", "assigned"}
  BY DEF CaseRow
<1>2. Merged(now, read, new) = [column \in {"status", "assigned"} |->
                                  IF new[column] # read[column] THEN new[column] ELSE now[column]]
  BY <1>1 DEF Merged
<1>3. QED
  BY <1>2 DEF CaseRow

\* A commit: no case disappears, and before staff has spoken none loses its assignee.
LEMMA WriteKeeps ==
  ASSUME RmsTypeOK, Transitional, NEW r, Fits(r), Write(r)
  PROVE  /\ threadCases' \in [ThreadCaseIds -> CaseRow]
         /\ thread' \in [last : Words \cup {"none", "text"}, spoken : BOOLEAN]
         /\ Transitional' /\ (thread.spoken => thread'.spoken)
         /\ \A c \in ThreadCaseIds : threadCases[c].status # "none" =>
              /\ threadCases'[c].status # "none"
              /\ ~thread'.spoken /\ threadCases[c].assigned => threadCases'[c].assigned
<1>1. /\ threadCases \in [ThreadCaseIds -> CaseRow]
      /\ thread \in [last : Words \cup {"none", "text"}, spoken : BOOLEAN]
      /\ r \in Request /\ r.new \in CaseRow /\ r.read \in CaseRow /\ r.case \in 0..MaxThreadCases
      /\ r.word \in Words \cup {"none"} /\ r.new.status # "none"
  BY DEF RmsTypeOK, Fits, Request
<1>2. /\ thread' \in [last : Words \cup {"none", "text"}, spoken : BOOLEAN]
      /\ thread'.last \in Words => thread'.spoken
      /\ thread.spoken => thread'.spoken
      /\ ~thread'.spoken => r.word = "none" /\ ~thread.spoken
  <2>1. CASE r.word = "none"
    BY <1>1, <2>1 DEF Write, Transitional
  <2>2. CASE r.word # "none"
    <3>1. thread' = [last |-> r.word, spoken |-> TRUE]
      BY <2>2 DEF Write
    <3>2. QED
      BY <1>1, <2>2, <3>1
  <2>3. QED
    BY <2>1, <2>2
<1>3. PICK k \in ThreadCaseIds, filed \in CaseRow :
        /\ threadCases' = [threadCases EXCEPT ![k] = filed]
        /\ filed.status # "none"
        /\ ~thread'.spoken => Owned(filed)
        /\ ~thread'.spoken /\ threadCases[k].status # "none" /\ threadCases[k].assigned => filed.assigned
  <2>1. CASE r.case = 0
    <3>1. PICK c \in Free : \A d \in Free : c <= d
      <4>1. Free # {} /\ Free \subseteq Nat
        BY <2>1 DEF Write, Insert, Free, ThreadCaseIds
      <4>2. QED
        BY <4>1, LeastNumber
    <3> DEFINE k == CHOOSE e \in Free : \A d \in Free : e <= d
    <3>2. k \in Free
      BY <3>1
    <3>3. threadCases' = [threadCases EXCEPT ![k] = r.new]
      BY <2>1 DEF Write, Insert
    <3> HIDE DEF k
    <3>4. k \in ThreadCaseIds /\ threadCases[k] = NoCase
      BY <3>2 DEF Free, Existing
    <3>5. ~thread'.spoken => Owned(r.new)
      BY <1>2 DEF Fits
    <3>6. QED
      BY <1>1, <3>3, <3>4, <3>5, NewCaseTyped
  <2>2. CASE r.case # 0
    <3> DEFINE now == threadCases[r.case]
               filed == Merged(now, r.read, r.new)
    <3>1. r.case \in ThreadCaseIds /\ now \in CaseRow /\ now.status # "none"
      BY <1>1, <2>2, RmsConstants DEF ThreadCaseIds, Fits
    <3>2. threadCases' = [threadCases EXCEPT ![r.case] = filed]
      BY <2>2 DEF Write
    <3>3. ~thread'.spoken => /\ Owned(r.new) /\ Owned(now)
                             /\ r.read.assigned => r.new.assigned /\ now.assigned
      BY <1>2, <2>2, <3>1 DEF Fits, Transitional
    <3> HIDE DEF now
    <3>4. /\ filed \in CaseRow
          /\ filed.status = IF r.new.status # r.read.status THEN r.new.status ELSE now.status
          /\ filed.assigned = IF r.new.assigned # r.read.assigned THEN r.new.assigned ELSE now.assigned
      BY <1>1, <3>1, MergedTyped
    <3> HIDE DEF filed
    <3>5. /\ now.assigned \in BOOLEAN /\ r.new.assigned \in BOOLEAN /\ r.read.assigned \in BOOLEAN
      BY <1>1, <3>1 DEF CaseRow
    <3>6. filed.status # "none"
      BY <1>1, <3>1, <3>4
    <3>7. ~thread'.spoken => (now.assigned => filed.assigned) /\ (r.new.assigned => filed.assigned)
      BY <3>3, <3>4, <3>5
    <3>8. ~thread'.spoken => Owned(filed)
      BY <3>3, <3>4, <3>7 DEF Owned
    <3>9. QED
      BY <3>1, <3>2, <3>4, <3>6, <3>7, <3>8 DEF now
  <2>3. QED
    BY <2>1, <2>2
<1>4. threadCases' \in [ThreadCaseIds -> CaseRow] /\ threadCases'[k] = filed
      /\ \A c \in ThreadCaseIds \ {k} : threadCases'[c] = threadCases[c]
  BY <1>1, <1>3
<1>5. Transitional'
  <2>1. \A c \in ThreadCaseIds : threadCases'[c].status = "none" => threadCases'[c] = NoCase
    BY <1>3, <1>4 DEF Transitional
  <2>2. ~thread'.spoken => \A c \in ThreadCaseIds : Owned(threadCases'[c])
    BY <1>2, <1>3, <1>4 DEF Transitional
  <2>3. QED
    BY <1>2, <2>1, <2>2 DEF Transitional
<1>6. \A c \in ThreadCaseIds : threadCases[c].status # "none" =>
        /\ threadCases'[c].status # "none"
        /\ ~thread'.spoken /\ threadCases[c].assigned => threadCases'[c].assigned
  BY <1>3, <1>4
<1>7. QED
  BY <1>2, <1>4, <1>5, <1>6

LEMMA NoRequestTyped == NoRequest \in Request
  BY NewCaseTyped, RmsConstants DEF NoRequest, Request

\* A request that fits may be served, or be held.
LEMMA ServeStep ==
  ASSUME RmsInv, NEW r, Fits(r), Serve(r)
  PROVE  RmsInv'
<1>1. RmsTypeOK /\ Transitional /\ HeldFits /\ held \in Request
  BY DEF RmsInv, RmsTypeOK
<1>2. CASE Write(r) /\ UNCHANGED held
  <2>1. /\ threadCases' \in [ThreadCaseIds -> CaseRow]
        /\ thread' \in [last : Words \cup {"none", "text"}, spoken : BOOLEAN]
        /\ Transitional' /\ (thread.spoken => thread'.spoken)
        /\ \A c \in ThreadCaseIds : threadCases[c].status # "none" =>
              /\ threadCases'[c].status # "none"
              /\ ~thread'.spoken /\ threadCases[c].assigned => threadCases'[c].assigned
    BY <1>1, <1>2, WriteKeeps
  <2>2. RmsTypeOK'
    BY <1>1, <1>2, <2>1 DEF RmsTypeOK
  <2>3. HeldFits'
    <3> SUFFICES ASSUME held # NoRequest PROVE Fits(held)'
      BY <1>2 DEF HeldFits
    <3>1. Fits(held)
      BY <1>1 DEF HeldFits
    <3>2. held.case # 0 => held.case \in ThreadCaseIds
      BY <1>1, RmsConstants DEF Request, ThreadCaseIds
    <3>3. held.case # 0 => threadCases'[held.case].status # "none"
      BY <2>1, <3>1, <3>2 DEF Fits
    <3>4. ASSUME ~thread'.spoken, held.word = "none"
          PROVE  /\ Owned(held.new)
                 /\ held.case # 0 /\ held.read.assigned => held.new.assigned /\ threadCases'[held.case].assigned
      BY <2>1, <3>1, <3>2, <3>4 DEF Fits
    <3>5. QED
      BY <1>2, <3>1, <3>3, <3>4 DEF Fits
  <2>4. QED
    BY <2>1, <2>2, <2>3 DEF RmsInv
<1>3. CASE held' = r /\ UNCHANGED <<thread, threadCases>>
  <2>1. Fits(r)'
    BY <1>3 DEF Fits
  <2>2. r \in Request
    BY DEF Fits
  <2>3. RmsTypeOK' /\ Transitional'
    BY <1>1, <1>3, <2>2 DEF RmsTypeOK, Transitional
  <2>4. HeldFits'
    BY <1>3 DEF HeldFits, Fits
  <2>5. QED
    BY <2>3, <2>4 DEF RmsInv
<1>4. QED
  BY <1>2, <1>3 DEF Serve

\* A change of a case as it is now fits if the new row does.
LEMMA ChangeFits ==
  ASSUME RmsInv, NEW c \in Existing, NEW new \in CaseRow, new.status # "none",
         NEW word \in Words \cup {"none"},
         ~thread.spoken /\ word = "none" => Owned(new) /\ (threadCases[c].assigned => new.assigned)
  PROVE  Fits(Change(c, new, word))
<1>1. c \in ThreadCaseIds /\ threadCases[c] \in CaseRow /\ threadCases[c].status # "none"
  BY DEF Existing, RmsInv, RmsTypeOK, Transitional
<1>2. c \in 0..MaxThreadCases
  BY <1>1, RmsConstants DEF ThreadCaseIds
<1>3. Change(c, new, word) = [case |-> c, read |-> threadCases[c], new |-> new, word |-> word]
  BY DEF Change
<1>4. Change(c, new, word) \in Request
  BY <1>1, <1>2, <1>3 DEF Request
<1>5. QED
  BY <1>1, <1>3, <1>4 DEF Fits

LEMMA OpeningFits ==
  ASSUME NEW new \in CaseRow, new.status # "none", NEW word \in Words \cup {"none"},
         ~thread.spoken /\ word = "none" => Owned(new)
  PROVE  Fits(Opening(new, word))
<1>1. Opening(new, word) = [case |-> 0, read |-> NewCase, new |-> new, word |-> word]
  BY DEF Opening
<1>2. Opening(new, word) \in Request
  BY <1>1, NewCaseTyped, RmsConstants DEF Request
<1>3. QED
  BY <1>1, <1>2 DEF Fits

\* The thread decides nothing before a word was sent in it.
LEMMA MarkedKeeps ==
  ASSUME RmsInv, NEW r \in CaseRow, r.status # "none"
  PROVE  /\ MarkedRow(r) \in CaseRow /\ MarkedRow(r).status # "none"
         /\ ~thread.spoken => MarkedRow(r) = r
<1>1. CASE Marked
  <2>1. StatusOfWord(thread.last) \in {"APPROVED", "REJECTED", "ASSIGNED"}
    BY <1>1 DEF Marked, Words, StatusOfWord
  <2>2. MarkedRow(r) = [r EXCEPT !.status = StatusOfWord(thread.last)]
    BY <1>1 DEF MarkedRow
  <2>3. thread.spoken
    BY <1>1 DEF Marked, RmsInv, Transitional
  <2>4. QED
    BY <2>1, <2>2, <2>3 DEF CaseRow, Settled
<1>2. CASE ~Marked
  BY <1>2 DEF MarkedRow
<1>3. QED
  BY <1>1, <1>2

LEMMA CasesTyped ==
  ASSUME RmsInv, NEW c \in Existing
  PROVE  /\ threadCases[c] \in CaseRow /\ threadCases[c].status # "none"
         /\ ~thread.spoken => Owned(threadCases[c])
  BY DEF Existing, RmsInv, RmsTypeOK, Transitional

LEMMA StaffAnswersStep ==
  ASSUME RmsInv, NEW word \in Words, StaffAnswers(word)
  PROVE  RmsInv'
<1>0. word # "none" /\ word \in Words \cup {"none"}
  BY DEF Words
<1>1. ASSUME NEW c \in Unclosed, Serve(Change(c, Worded(threadCases[c], word), word)) PROVE RmsInv'
  <2>1. c \in Existing
    BY DEF Unclosed
  <2>2. Worded(threadCases[c], word) \in CaseRow /\ Worded(threadCases[c], word).status # "none"
    BY <2>1, CasesTyped, WordedKeeps
  <2>3. Fits(Change(c, Worded(threadCases[c], word), word))
    BY <1>0, <2>1, <2>2, ChangeFits
  <2>4. QED
    BY <1>1, <2>3, ServeStep
<1>2. CASE Serve(Opening(Worded(NewCase, word), word))
  <2>1. Worded(NewCase, word) \in CaseRow /\ Worded(NewCase, word).status # "none"
    BY NewCaseTyped, WordedKeeps
  <2>2. Fits(Opening(Worded(NewCase, word), word))
    BY <1>0, <2>1, OpeningFits
  <2>3. QED
    BY <1>2, <2>2, ServeStep
<1>3. QED
  BY <1>1, <1>2 DEF StaffAnswers

LEMMA TransitionStep ==
  ASSUME RmsInv, NEW c \in Existing, NEW do, Allowed(threadCases[c], do),
         Serve(Change(c, After(threadCases[c], do), "none"))
  PROVE  RmsInv'
<1>1. /\ After(threadCases[c], do) \in CaseRow /\ After(threadCases[c], do).status # "none"
      /\ threadCases[c].assigned => After(threadCases[c], do).assigned
      /\ ~thread.spoken => Owned(After(threadCases[c], do))
  BY CasesTyped, AfterKeeps
<1>2. Fits(Change(c, After(threadCases[c], do), "none"))
  BY <1>1, ChangeFits
<1>3. QED
  BY <1>2, ServeStep

LEMMA OpenUnmarked ==
  ASSUME RmsInv, Serve(Opening(MarkedRow(NewCase), "none"))
  PROVE  RmsInv'
<1>1. /\ MarkedRow(NewCase) \in CaseRow /\ MarkedRow(NewCase).status # "none"
      /\ ~thread.spoken => Owned(MarkedRow(NewCase))
  BY NewCaseTyped, MarkedKeeps DEF Owned, Settled
<1>2. Fits(Opening(MarkedRow(NewCase), "none"))
  BY <1>1, OpeningFits
<1>3. QED
  BY <1>2, ServeStep

LEMMA StaffListsStep ==
  ASSUME RmsInv, StaffLists
  PROVE  RmsInv'
<1>1. ASSUME NEW c \in Unclosed, Serve(Change(c, MarkedRow(threadCases[c]), "none")) PROVE RmsInv'
  <2>1. c \in Existing
    BY DEF Unclosed
  <2>2. /\ MarkedRow(threadCases[c]) \in CaseRow /\ MarkedRow(threadCases[c]).status # "none"
        /\ ~thread.spoken => MarkedRow(threadCases[c]) = threadCases[c] /\ Owned(threadCases[c])
    BY <2>1, CasesTyped, MarkedKeeps
  <2>3. Fits(Change(c, MarkedRow(threadCases[c]), "none"))
    BY <2>1, <2>2, ChangeFits
  <2>4. QED
    BY <1>1, <2>3, ServeStep
<1>2. QED
  BY <1>1, OpenUnmarked DEF StaffLists

LEMMA ReopenAllowed ==
  ASSUME NEW r, r.status \in Settled
  PROVE  Allowed(r, "REOPEN")
<1>1. <<r.status, "REOPEN", "NEW">> \in Lifecycle
  BY Zenon DEF Lifecycle
<1>2. QED
  BY <1>1 DEF Allowed

LEMMA RmsInvInit == RmsInit => RmsInv
<1> SUFFICES ASSUME RmsInit PROVE RmsInv
  OBVIOUS
<1>1. RmsTypeOK
  BY NewCaseTyped, NoRequestTyped DEF RmsInit, RmsTypeOK
<1>2. Transitional
  BY NewCaseTyped DEF RmsInit, Transitional, Owned, Settled, Words
<1>3. QED
  BY <1>1, <1>2 DEF RmsInit, RmsInv, HeldFits

LEMMA RmsInvStep == RmsInv /\ [RmsNext]_rmsVars => RmsInv'
<1> SUFFICES ASSUME RmsInv, [RmsNext]_rmsVars PROVE RmsInv'
  OBVIOUS
<1>1. RmsTypeOK /\ Transitional /\ HeldFits /\ held \in Request
      /\ thread \in [last : Words \cup {"none", "text"}, spoken : BOOLEAN]
  BY DEF RmsInv, RmsTypeOK
<1>2. ASSUME NEW said \in Words \cup {"text"}, SendMessage(said) PROVE RmsInv'
  <2>1. /\ thread' \in [last : Words \cup {"none", "text"}, spoken : BOOLEAN]
        /\ thread'.last \in Words => thread'.spoken
        /\ ~thread'.spoken => ~thread.spoken
        /\ UNCHANGED <<threadCases, held>>
    BY <1>1, <1>2 DEF SendMessage
  <2>2. RmsTypeOK' /\ Transitional'
    BY <1>1, <2>1 DEF RmsTypeOK, Transitional, Words
  <2>3. HeldFits'
    BY <1>1, <2>1 DEF HeldFits, Fits
  <2>4. QED
    BY <2>2, <2>3 DEF RmsInv
<1>3. CASE ReleaseHeld
  <2>1. Fits(held) /\ Write(held) /\ held' = NoRequest
    BY <1>1, <1>3 DEF ReleaseHeld, HeldFits
  <2>2. /\ threadCases' \in [ThreadCaseIds -> CaseRow]
        /\ thread' \in [last : Words \cup {"none", "text"}, spoken : BOOLEAN] /\ Transitional'
    BY <1>1, <2>1, WriteKeeps
  <2>3. QED
    BY <2>1, <2>2, NoRequestTyped DEF RmsInv, RmsTypeOK, HeldFits
<1>4. CASE DropHeld
  <2>1. held' = NoRequest /\ UNCHANGED <<thread, threadCases>>
    BY <1>4 DEF DropHeld
  <2>2. QED
    BY <1>1, <2>1, NoRequestTyped DEF RmsInv, RmsTypeOK, Transitional, HeldFits
<1>5. ASSUME NEW c \in Existing, NEW do \in CaseActions, StaffMoves(c, do) PROVE RmsInv'
  BY <1>5, TransitionStep DEF StaffMoves
<1>6. ASSUME NEW c \in Existing, StudentReopens(c) PROVE RmsInv'
  BY <1>6, ReopenAllowed, TransitionStep DEF StudentReopens
<1>7. CASE StudentTracks
  BY <1>7, OpenUnmarked DEF StudentTracks
<1>8. CASE UNCHANGED rmsVars
  BY <1>1, <1>8 DEF rmsVars, RmsInv, RmsTypeOK, Transitional, HeldFits, Fits
<1>9. QED
  BY <1>2, <1>3, <1>4, <1>5, <1>6, <1>7, <1>8, StaffAnswersStep, StaffListsStep DEF RmsNext

\* SettledIsOwned is an invariant: for every number of cases of a thread, none is settled
\* without an assignee as long as nobody, student or staff, has sent a decisive word in the
\* thread, whichever requests race on its row (_apply_rms_case_transition,
\* _sync_rms_cases_from_threads).
THEOREM SettledIsOwnedAlways == RmsSpec => []SettledIsOwned
<1>1. RmsSpec => []RmsInv
  BY RmsInvInit, RmsInvStep, PTL DEF RmsSpec
<1>2. RmsInv => SettledIsOwned
  BY DEF RmsInv, Transitional, Existing, Owned, SettledIsOwned
<1>3. QED
  BY <1>1, <1>2, PTL

(***************************************************************************)
(* Recovery plans                                                          *)
(***************************************************************************)

\* No cycle is about to cancel a slot the student was credited with: a mark waits for the
\* cycle, and the student's own answers only take credit away.
CycleSpares ==
  /\ cycle # NoCycle => cycle.risk \in Risks \cup {NoRisk}
  /\ plan.status = "none" => cycle.cancels = {}
  /\ \A m \in credited : Slot(m) \notin cycle.cancels

RecoveryInv == RecoveryTypeOK /\ AttendedSlotStaysDone /\ CycleSpares

LEMMA RiskTyped ==
  ASSUME NEW s
  PROVE  RiskLevel(s) \in Risks \cup {NoRisk}
<1> DEFINE known == Len(s)
           below == 100 * PresentCount(s) < WatchPercent * known
           high == 100 * PresentCount(s) <= HighPercent * known
           critical == 100 * PresentCount(s) <= CriticalPercent * known
           absences == Streak(s)
<1>1. RiskLevel(s) =
        CASE known = 0 -> NoRisk
          [] known < MinDelivered /\ absences < WatchAbsences -> NoRisk
          [] critical \/ absences >= CriticalAbsences -> "critical"
          [] high \/ absences >= HighAbsences -> "high"
          [] below \/ absences >= WatchAbsences -> "watch"
          [] OTHER -> NoRisk
  BY DEF RiskLevel
<1> HIDE DEF known, below, high, critical, absences
<1>2. QED
  BY <1>1, Zenon DEF Risks

LEMMA RecommendedTyped ==
  Recommended \in MakeUps \cup {0}
<1>1. CASE Recommendable = {}
  BY <1>1 DEF Recommended
<1>2. CASE Recommendable # {}
  <2>1. Recommendable \subseteq Nat
    BY RecoveryPlansAssumption DEF Recommendable
  <2>2. PICK m \in Recommendable : \A n \in Recommendable : m <= n
    BY <1>2, <2>1, LeastNumber
  <2>3. (CHOOSE k \in Recommendable : \A n \in Recommendable : k <= n) \in Recommendable
    BY <2>2
  <2>4. Recommended \in Recommendable
    BY <1>2, <2>3 DEF Recommended
  <2>5. QED
    BY <2>4 DEF Recommendable
<1>3. QED
  BY <1>1, <1>2

LEMMA SlotsAreKeys ==
  /\ \A m \in MakeUps : Slot(m) \in ActionKeys /\ Slot(m)[2] = m
  /\ \A m, n \in MakeUps : Slot(m) = Slot(n) => m = n
  BY DEF Slot, ActionKeys

LEMMA UpsertedTyped ==
  ASSUME RecoveryTypeOK, NEW risk, NEW next
  PROVE  /\ Upserted(risk, next) \in [ActionKeys -> ActionStatuses]
         /\ \A key \in ActionKeys :
              PlanIsActive /\ action[key] = "COMPLETED" => Upserted(risk, next)[key] = "COMPLETED"
<1>1. \A key \in ActionKeys : action[key] \in ActionStatuses
  BY DEF RecoveryTypeOK
<1>2. ASSUME NEW key \in ActionKeys
      PROVE  /\ Upserted(risk, next)[key] \in ActionStatuses
             /\ PlanIsActive /\ action[key] = "COMPLETED" => Upserted(risk, next)[key] = "COMPLETED"
  <2> DEFINE now == IF PlanIsActive THEN action[key] ELSE "none"
             needed == key \in RequiredKeys(risk, next)
             status == DefaultStatus(KeyType(key))
  <2>1. Upserted(risk, next)[key] = IF needed /\ now \in {"none", "CANCELLED"} THEN status ELSE now
    BY DEF Upserted
  <2>2. status \in ActionStatuses
    BY DEF DefaultStatus, ActionStatuses
  <2>3. now \in ActionStatuses /\ (PlanIsActive => now = action[key])
    BY <1>1 DEF ActionStatuses
  <2> HIDE DEF now, needed, status
  <2>4. QED
    BY <2>1, <2>2, <2>3
<1>3. Upserted(risk, next) = [key \in ActionKeys |-> Upserted(risk, next)[key]]
  BY DEF Upserted
<1>4. QED
  BY <1>2, <1>3

LEMMA CancelledTyped ==
  ASSUME NEW actions \in [ActionKeys -> ActionStatuses], NEW keys
  PROVE  /\ Cancelled(actions, keys) \in [ActionKeys -> ActionStatuses]
         /\ \A key \in ActionKeys : key \notin keys => Cancelled(actions, keys)[key] = actions[key]
  BY DEF Cancelled, ActionStatuses

LEMMA UnusedTyped ==
  ASSUME NEW risk, NEW next
  PROVE  /\ Unused(risk, next) \subseteq ActionKeys
         /\ \A key \in Unused(risk, next) : PlanIsActive /\ action[key] # "COMPLETED"
  BY DEF Unused

LEMMA RecoveryInvInit == RecoveryInit => RecoveryInv
<1> SUFFICES ASSUME RecoveryInit PROVE RecoveryInv
  OBVIOUS
<1>1. classes \in Seq(BOOLEAN) /\ MaxCodes \in Nat /\ MaxMarks \in Nat /\ MaxFailures \in Nat
  BY RecoveryPlansAssumption DEF RecoveryInit
<1>2. NoMakeUp \in MakeUp
  BY <1>1 DEF NoMakeUp, MakeUp, Phases
<1>3. plan \in [status : PlanStatuses, risk : Risks \cup {NoRisk}]
  BY DEF RecoveryInit, NoPlan, PlanStatuses
<1>4. NoCycle \in [risk : Risks \cup {NoRisk, "idle"}, makeup : MakeUps \cup {0},
                   cancels : SUBSET ActionKeys]
  BY DEF NoCycle
<1>5. /\ makeup \in [MakeUps -> MakeUp]
      /\ message \in [MakeUps -> 0..MaxCodes] /\ marking \in [MakeUps -> 0..MaxMarks]
  BY <1>1, <1>2 DEF RecoveryInit
<1>6. action \in [ActionKeys -> ActionStatuses] /\ \A key \in ActionKeys : action[key] = "none"
  BY DEF RecoveryInit, ActionStatuses
<1>7. rmsCase \in CaseStatuses /\ mailed \in BOOLEAN /\ failures \in 0..MaxFailures
  <2>1. rmsCase \in CaseStatuses
    BY DEF RecoveryInit, CaseStatuses
  <2>2. mailed \in BOOLEAN
    BY DEF RecoveryInit
  <2>3. failures \in 0..MaxFailures
    BY <1>1 DEF RecoveryInit
  <2>4. QED
    BY <2>1, <2>2, <2>3
<1>8. attended \subseteq MakeUps /\ credited \subseteq attended /\ cycle = NoCycle
  BY DEF RecoveryInit
<1>9. RecoveryTypeOK
  BY <1>1, <1>3, <1>4, <1>5, <1>6, <1>7, <1>8 DEF RecoveryTypeOK
<1>10. QED
  BY <1>9 DEF RecoveryInit, RecoveryInv, AttendedSlotStaysDone, CycleSpares, NoCycle

\* An evaluation of the plan: what was done stays so, and so does what is done with it.
LEMMA Evaluation ==
  ASSUME RecoveryInv, NEW s, NEW actions \in [ActionKeys -> ActionStatuses], NEW finished \in SUBSET ActionKeys,
         \A key \in finished : actions[key] = "COMPLETED" /\ PlanIsActive,
         \A key \in ActionKeys \ finished : actions[key] = action[key],
         EvaluatedWith(s, actions, finished)
  PROVE  /\ plan' \in [status : PlanStatuses, risk : Risks \cup {NoRisk}]
         /\ action' \in [ActionKeys -> ActionStatuses]
         /\ plan'.status = "none" => \A key \in ActionKeys : action'[key] = "none"
         /\ rmsCase' \in CaseStatuses /\ mailed' \in BOOLEAN
         /\ \A m \in MakeUps : Slot(m) \in finished => action'[Slot(m)] = "COMPLETED"
         /\ \A m \in CreditKept : action'[Slot(m)] = "COMPLETED"
<1>1. RecoveryTypeOK /\ AttendedSlotStaysDone /\ credited \subseteq MakeUps
  BY DEF RecoveryInv, RecoveryTypeOK
<1>2. \A m \in CreditKept : PlanIsActive /\ m \in MakeUps /\ action[Slot(m)] = "COMPLETED"
  BY <1>1 DEF CreditKept, AttendedSlotStaysDone
<1>3. PICK risk \in Risks \cup {NoRisk}, next \in MakeUps \cup {0} :
        risk = RiskLevel(s) /\ next = Recommended
  BY RiskTyped, RecommendedTyped
<1> DEFINE dropped == IF PlanIsActive THEN Unused(risk, 0) \ finished ELSE {}
           keys == Unused(risk, next) \ finished
           upserted == Cancelled(Upserted(risk, next), keys)
<1>4. CASE risk = NoRisk
  <2>1. /\ plan' = IF PlanIsActive THEN [status |-> "RECOVERED", risk |-> plan.risk] ELSE plan
        /\ action' = Cancelled(actions, dropped)
        /\ rmsCase' = rmsCase /\ mailed' = mailed
    BY <1>3, <1>4 DEF EvaluatedWith
  <2>2. \A key \in dropped : key \notin finished /\ action[key] # "COMPLETED" /\ PlanIsActive
    BY UnusedTyped
  <2> HIDE DEF dropped
  <2>3. /\ action' \in [ActionKeys -> ActionStatuses]
        /\ \A key \in ActionKeys : key \notin dropped => action'[key] = actions[key]
    BY <2>1, CancelledTyped
  <2>4. plan' \in [status : PlanStatuses, risk : Risks \cup {NoRisk}]
    BY <1>1, <2>1 DEF RecoveryTypeOK, PlanStatuses
  <2>5. plan'.status = "none" => ~PlanIsActive /\ plan.status = "none"
    BY <2>1 DEF PlanIsActive
  <2>6. plan'.status = "none" => \A key \in ActionKeys : action'[key] = "none"
    BY <1>1, <2>2, <2>3, <2>5 DEF RecoveryTypeOK
  <2>7. \A m \in MakeUps : Slot(m) \in finished => action'[Slot(m)] = "COMPLETED"
    BY <2>2, <2>3, SlotsAreKeys
  <2>8. \A m \in CreditKept : action'[Slot(m)] = "COMPLETED"
    BY <1>2, <2>2, <2>3, SlotsAreKeys
  <2>9. QED
    BY <1>1, <2>1, <2>3, <2>4, <2>6, <2>7, <2>8 DEF RecoveryTypeOK
<1>5. CASE risk # NoRisk
  <2>1. /\ plan' = [status |-> PlanStatusOf(risk), risk |-> risk]
        /\ action' = [key \in ActionKeys |-> IF key \in finished THEN "COMPLETED" ELSE upserted[key]]
        /\ rmsCase' = IF risk = "critical" THEN Escalated ELSE rmsCase
        /\ mailed' = (mailed \/ Mails(risk))
    BY <1>3, <1>5 DEF EvaluatedWith
  <2>2. \A key \in keys : action[key] # "COMPLETED"
    BY UnusedTyped
  <2> HIDE DEF keys
  <2>3. /\ upserted \in [ActionKeys -> ActionStatuses]
        /\ \A key \in ActionKeys : PlanIsActive /\ action[key] = "COMPLETED" => upserted[key] = "COMPLETED"
    BY <1>1, <2>2, UpsertedTyped, CancelledTyped
  <2> HIDE DEF upserted
  <2>4. action' \in [ActionKeys -> ActionStatuses]
    BY <2>1, <2>3 DEF ActionStatuses
  <2>5. plan' \in [status : PlanStatuses, risk : Risks \cup {NoRisk}] /\ plan'.status # "none"
    BY <2>1 DEF PlanStatusOf, PlanStatuses
  <2>6. rmsCase' \in CaseStatuses
    BY <1>1, <2>1 DEF RecoveryTypeOK, Escalated, CaseStatuses, OpenCases
  <2>7. mailed' \in BOOLEAN
    BY <1>1, <2>1 DEF RecoveryTypeOK, Mails
  <2>8. \A m \in MakeUps : Slot(m) \in finished => action'[Slot(m)] = "COMPLETED"
    BY <2>1, SlotsAreKeys
  <2>9. \A m \in CreditKept : action'[Slot(m)] = "COMPLETED"
    BY <1>2, <2>1, <2>3, SlotsAreKeys
  <2>10. QED
    BY <2>4, <2>5, <2>6, <2>7, <2>8, <2>9
<1>6. QED
  BY <1>4, <1>5

LEMMA MarkKept ==
  ASSUME RecoveryInv, NEW m \in MakeUps, Marks(m)
  PROVE  /\ plan' \in [status : PlanStatuses, risk : Risks \cup {NoRisk}]
         /\ action' \in [ActionKeys -> ActionStatuses]
         /\ plan'.status = "none" => \A key \in ActionKeys : action'[key] = "none"
         /\ rmsCase' \in CaseStatuses /\ mailed' \in BOOLEAN
         /\ attended' \subseteq MakeUps /\ credited' \subseteq attended'
         /\ \A n \in credited' : action'[Slot(n)] = "COMPLETED"
         /\ cycle = NoCycle
<1> DEFINE finished == SlotsOf(m)
           actions == [key \in ActionKeys |-> IF key \in finished THEN "COMPLETED" ELSE action[key]]
<1>1. RecoveryTypeOK /\ Slot(m) \in ActionKeys
  BY SlotsAreKeys DEF RecoveryInv
<1>2. /\ finished \in SUBSET ActionKeys /\ (finished # {} => PlanIsActive /\ Slot(m) \in finished)
      /\ credited' = CreditKept \cup (IF PlanIsActive /\ action[Slot(m)] # "none" THEN {m} ELSE {})
      /\ (PlanIsActive /\ action[Slot(m)] # "none" => Slot(m) \in finished)
  BY <1>1 DEF SlotsOf, Marks
<1>3. EvaluatedWith(classes, actions, finished) /\ cycle = NoCycle /\ attended' = attended \cup {m}
  BY DEF Marks
<1> HIDE DEF finished
<1>4. /\ actions \in [ActionKeys -> ActionStatuses]
      /\ \A key \in ActionKeys : actions[key] = IF key \in finished THEN "COMPLETED" ELSE action[key]
  BY <1>1 DEF RecoveryTypeOK, ActionStatuses
<1> HIDE DEF actions
<1>5. /\ \A key \in finished : actions[key] = "COMPLETED" /\ PlanIsActive
      /\ \A key \in ActionKeys \ finished : actions[key] = action[key]
  BY <1>2, <1>4
<1>6. /\ plan' \in [status : PlanStatuses, risk : Risks \cup {NoRisk}]
      /\ action' \in [ActionKeys -> ActionStatuses]
      /\ plan'.status = "none" => \A key \in ActionKeys : action'[key] = "none"
      /\ rmsCase' \in CaseStatuses /\ mailed' \in BOOLEAN
      /\ \A n \in MakeUps : Slot(n) \in finished => action'[Slot(n)] = "COMPLETED"
      /\ \A n \in CreditKept : action'[Slot(n)] = "COMPLETED"
  BY <1>2, <1>3, <1>4, <1>5, Evaluation
<1>7. \A n \in credited' : action'[Slot(n)] = "COMPLETED"
  BY <1>2, <1>6
<1>8. attended' \subseteq MakeUps /\ credited' \subseteq attended'
  BY <1>1, <1>2, <1>3 DEF RecoveryTypeOK, CreditKept
<1>9. QED
  BY <1>3, <1>6, <1>7, <1>8

LEMMA MakeUpChanged ==
  ASSUME NEW r \in MakeUp
  PROVE  /\ r.code < MaxCodes => [r EXCEPT !.code = r.code + 1] \in MakeUp
         /\ [r EXCEPT !.active = FALSE] \in MakeUp
         /\ [r EXCEPT !.phase = PhaseAfter(r.phase)] \in MakeUp
<1>1. MaxCodes \in Nat
  BY RecoveryPlansAssumption
<1>2. PhaseAfter(r.phase) \in Phases
  BY DEF PhaseAfter, Phases
<1>3. r.code < MaxCodes => r.code + 1 \in 0..MaxCodes
  BY <1>1 DEF MakeUp
<1>4. QED
  BY <1>2, <1>3 DEF MakeUp

LEMMA RecoveryInvStep == RecoveryInv /\ [RecoveryNext]_recoveryVars => RecoveryInv'
<1> SUFFICES ASSUME RecoveryInv, [RecoveryNext]_recoveryVars PROVE RecoveryInv'
  OBVIOUS
<1>0. RecoveryTypeOK /\ AttendedSlotStaysDone /\ CycleSpares
  BY DEF RecoveryInv
<1>a. MaxCodes \in Nat /\ MaxCodes >= 1 /\ MaxMarks \in Nat /\ MaxFailures \in Nat
  BY RecoveryPlansAssumption
<1>1. ASSUME NEW present \in BOOLEAN, HoldClass(present) PROVE RecoveryInv'
  <2>1. /\ classes' \in Seq(BOOLEAN) /\ cycle' = cycle /\ cycle = NoCycle
        /\ makeup' = makeup /\ message' = message /\ attended' = attended
        /\ marking' = marking /\ failures' = failures
    BY <1>0, <1>1 DEF HoldClass, RecoveryTypeOK
  <2>2. CASE EvaluatedWith(classes', action, {}) /\ credited' = CreditKept
    <3>1. action \in [ActionKeys -> ActionStatuses]
      BY <1>0 DEF RecoveryTypeOK
    <3>2. PICK s : s = classes'
      OBVIOUS
    <3>3. /\ plan' \in [status : PlanStatuses, risk : Risks \cup {NoRisk}]
          /\ action' \in [ActionKeys -> ActionStatuses]
          /\ plan'.status = "none" => \A key \in ActionKeys : action'[key] = "none"
          /\ rmsCase' \in CaseStatuses /\ mailed' \in BOOLEAN
          /\ \A m \in CreditKept : action'[Slot(m)] = "COMPLETED"
      BY <2>2, <3>1, <3>2, Evaluation
    <3>4. credited' \subseteq credited
      BY <2>2 DEF CreditKept
    <3>5. QED
      BY <1>0, <2>1, <2>2, <3>3, <3>4
      DEF RecoveryInv, RecoveryTypeOK, AttendedSlotStaysDone, CycleSpares, NoCycle
  <2>3. CASE UNCHANGED <<plan, action, rmsCase, mailed, credited>>
    BY <1>0, <2>1, <2>3 DEF RecoveryInv, RecoveryTypeOK, AttendedSlotStaysDone, CycleSpares
  <2>4. QED
    BY <1>1, <2>2, <2>3 DEF HoldClass
<1>2. CASE BeginCycle
  <2>0. \E risk \in Risks \cup {NoRisk}, next \in MakeUps \cup {0} : \E needed :
          cycle' = [risk |-> risk, makeup |-> next, cancels |-> Unused(risk, needed)]
    BY <1>2, RiskTyped, RecommendedTyped DEF BeginCycle
  <2>1. PICK risk \in Risks \cup {NoRisk}, next \in MakeUps \cup {0} : \E needed :
          cycle' = [risk |-> risk, makeup |-> next, cancels |-> Unused(risk, needed)]
    BY <2>0
  <2>2. cycle' \in [risk : Risks \cup {NoRisk, "idle"}, makeup : MakeUps \cup {0},
                    cancels : SUBSET ActionKeys]
    BY <2>1, UnusedTyped
  <2>3. /\ cycle'.risk \in Risks \cup {NoRisk}
        /\ plan.status = "none" => cycle'.cancels = {}
        /\ \A m \in credited : Slot(m) \notin cycle'.cancels
    BY <1>0, <2>1, UnusedTyped DEF AttendedSlotStaysDone, PlanIsActive
  <2>4. QED
    BY <1>0, <1>2, <2>2, <2>3
    DEF BeginCycle, RecoveryInv, RecoveryTypeOK, AttendedSlotStaysDone, CycleSpares
<1>3. CASE CommitCycle
  <2>1. /\ cycle' = NoCycle
        /\ UNCHANGED <<classes, makeup, message, attended, marking, failures>>
        /\ cycle.risk \in Risks \cup {NoRisk, "idle"}
    BY <1>0, <1>3 DEF CommitCycle, RecoveryTypeOK
  <2>2. NoCycle \in [risk : Risks \cup {NoRisk, "idle"}, makeup : MakeUps \cup {0},
                     cancels : SUBSET ActionKeys]
        /\ NoCycle.cancels = {}
    BY DEF NoCycle
  <2>3. CASE cycle.risk = NoRisk
    <3>1. /\ plan' = IF PlanIsActive THEN [plan EXCEPT !.status = "RECOVERED"] ELSE plan
          /\ action' = Cancelled(action, cycle.cancels)
          /\ UNCHANGED <<rmsCase, mailed, credited>>
      BY <1>3, <2>3 DEF CommitCycle
    <3>2. /\ action' \in [ActionKeys -> ActionStatuses]
          /\ \A key \in ActionKeys : key \notin cycle.cancels => action'[key] = action[key]
      BY <1>0, <3>1, CancelledTyped DEF RecoveryTypeOK
    <3>3. \A m \in credited : action'[Slot(m)] = "COMPLETED"
      BY <1>0, <3>2, SlotsAreKeys DEF RecoveryTypeOK, AttendedSlotStaysDone, CycleSpares
    <3>4. plan' \in [status : PlanStatuses, risk : Risks \cup {NoRisk}]
      BY <1>0, <3>1 DEF RecoveryTypeOK, PlanStatuses
    <3>5. plan'.status = "none" => plan.status = "none" /\ ~PlanIsActive
      BY <1>0, <3>1 DEF PlanIsActive, RecoveryTypeOK
    <3>6. plan'.status = "none" => \A key \in ActionKeys : action'[key] = "none"
      BY <1>0, <3>2, <3>5 DEF CycleSpares, RecoveryTypeOK
    <3>7. RecoveryTypeOK'
      BY <1>0, <2>1, <2>2, <3>1, <3>2, <3>4, <3>6 DEF RecoveryTypeOK
    <3>8. QED
      BY <2>1, <2>2, <3>1, <3>3, <3>7 DEF RecoveryInv, AttendedSlotStaysDone, CycleSpares
  <2>4. CASE cycle.risk # NoRisk
    <3> DEFINE upserted == Upserted(cycle.risk, cycle.makeup)
    <3>1. /\ plan' = [status |-> PlanStatusOf(cycle.risk), risk |-> cycle.risk]
          /\ action' = Cancelled(upserted, cycle.cancels)
          /\ rmsCase' = IF cycle.risk = "critical" THEN Escalated ELSE rmsCase
          /\ mailed' = (mailed \/ Mails(cycle.risk))
          /\ credited' = CreditKept
      BY <1>3, <2>4 DEF CommitCycle
    <3>2. /\ upserted \in [ActionKeys -> ActionStatuses]
          /\ \A key \in ActionKeys : PlanIsActive /\ action[key] = "COMPLETED" => upserted[key] = "COMPLETED"
      BY <1>0, UpsertedTyped
    <3> HIDE DEF upserted
    <3>3. /\ action' \in [ActionKeys -> ActionStatuses]
          /\ \A key \in ActionKeys : key \notin cycle.cancels => action'[key] = upserted[key]
      BY <3>1, <3>2, CancelledTyped
    <3>4. \A m \in CreditKept : m \in credited /\ PlanIsActive
      BY DEF CreditKept
    <3>5. \A m \in credited' : action'[Slot(m)] = "COMPLETED"
      BY <1>0, <3>1, <3>2, <3>3, <3>4, SlotsAreKeys
      DEF RecoveryTypeOK, AttendedSlotStaysDone, CycleSpares
    <3>6. plan' \in [status : PlanStatuses, risk : Risks \cup {NoRisk}] /\ plan'.status # "none"
      BY <1>0, <1>3, <3>1 DEF CycleSpares, CommitCycle, PlanStatusOf, PlanStatuses
    <3>7. rmsCase' \in CaseStatuses /\ mailed' \in BOOLEAN
      BY <1>0, <3>1 DEF RecoveryTypeOK, Escalated, CaseStatuses, OpenCases, Mails
    <3>8. credited' \subseteq credited
      BY <3>1 DEF CreditKept
    <3>9. RecoveryTypeOK'
      BY <1>0, <2>1, <2>2, <3>3, <3>6, <3>7, <3>8 DEF RecoveryTypeOK
    <3>10. QED
      BY <2>1, <2>2, <3>5, <3>9 DEF RecoveryInv, AttendedSlotStaysDone, CycleSpares
  <2>5. QED
    BY <2>3, <2>4
<1>4. CASE FailCycle
  <2>1. NoCycle \in [risk : Risks \cup {NoRisk, "idle"}, makeup : MakeUps \cup {0},
                     cancels : SUBSET ActionKeys]
        /\ NoCycle.cancels = {}
    BY DEF NoCycle
  <2>2. QED
    BY <1>0, <1>a, <1>4, <2>1
    DEF FailCycle, RecoveryInv, RecoveryTypeOK, AttendedSlotStaysDone, CycleSpares
<1>5. CASE MailDayEnds
  BY <1>0, <1>5 DEF MailDayEnds, RecoveryInv, RecoveryTypeOK, AttendedSlotStaysDone, CycleSpares
<1>6. ASSUME NEW key \in ActionKeys, AcknowledgeAction(key) PROVE RecoveryInv'
  <2>1. /\ action' = [action EXCEPT ![key] = "ACKNOWLEDGED"]
        /\ credited' = credited \ {key[2]}
        /\ action[key] # "none"
        /\ UNCHANGED <<classes, makeup, message, attended, marking, plan, rmsCase, mailed, cycle,
                       failures>>
    BY <1>6 DEF AcknowledgeAction, Answerable
  <2>2. action' \in [ActionKeys -> ActionStatuses]
    BY <1>0, <2>1 DEF RecoveryTypeOK, ActionStatuses
  <2>3. ASSUME NEW m \in credited' PROVE action'[Slot(m)] = "COMPLETED"
    <3>1. m \in credited /\ m \in MakeUps /\ m # key[2]
      BY <1>0, <2>1, <2>3 DEF RecoveryTypeOK
    <3>2. Slot(m) # key /\ Slot(m) \in ActionKeys
      BY <3>1, SlotsAreKeys
    <3>3. QED
      BY <1>0, <2>1, <3>1, <3>2 DEF RecoveryTypeOK, AttendedSlotStaysDone
  <2>4. plan.status # "none"
    BY <1>0, <2>1 DEF RecoveryTypeOK
  <2>5. QED
    BY <1>0, <2>1, <2>2, <2>3, <2>4
    DEF RecoveryInv, RecoveryTypeOK, AttendedSlotStaysDone, CycleSpares
<1>7. ASSUME NEW key \in ActionKeys, CompleteAction(key) PROVE RecoveryInv'
  <2>1. /\ action' = [action EXCEPT ![key] = "COMPLETED"]
        /\ action[key] # "none"
        /\ UNCHANGED <<classes, makeup, message, attended, marking, plan, rmsCase, mailed, cycle,
                       failures, credited>>
    BY <1>7 DEF CompleteAction, Answerable
  <2>2. action' \in [ActionKeys -> ActionStatuses]
    BY <1>0, <2>1 DEF RecoveryTypeOK, ActionStatuses
  <2>3. \A m \in credited : action'[Slot(m)] = "COMPLETED"
    BY <1>0, <2>1, SlotsAreKeys DEF RecoveryTypeOK, AttendedSlotStaysDone
  <2>4. plan.status # "none"
    BY <1>0, <2>1 DEF RecoveryTypeOK
  <2>5. QED
    BY <1>0, <2>1, <2>2, <2>3, <2>4
    DEF RecoveryInv, RecoveryTypeOK, AttendedSlotStaysDone, CycleSpares
<1>b. ASSUME UNCHANGED OnlyMakeUp, attended' = attended,
             makeup' \in [MakeUps -> MakeUp], message' \in [MakeUps -> 0..MaxCodes],
             marking' \in [MakeUps -> 0..MaxMarks]
      PROVE  RecoveryInv'
  BY <1>0, <1>b
  DEF OnlyMakeUp, RecoveryInv, RecoveryTypeOK, AttendedSlotStaysDone, CycleSpares
<1>8. ASSUME NEW m \in MakeUps, CreateMakeUp(m) PROVE RecoveryInv'
  <2>1. [phase |-> "upcoming", active |-> TRUE, code |-> 1] \in MakeUp
    BY <1>a DEF MakeUp, Phases
  <2>2. QED
    BY <1>0, <1>8, <1>b, <2>1 DEF CreateMakeUp, RecoveryTypeOK
<1>9. ASSUME NEW m \in MakeUps, RegenerateCode(m) PROVE RecoveryInv'
  <2>1. [makeup[m] EXCEPT !.code = makeup[m].code + 1] \in MakeUp
    BY <1>0, <1>9, MakeUpChanged DEF RegenerateCode, RecoveryTypeOK
  <2>2. QED
    BY <1>0, <1>9, <1>b, <2>1 DEF RegenerateCode, RecoveryTypeOK
<1>10. ASSUME NEW m \in MakeUps, SendCode(m) PROVE RecoveryInv'
  <2>1. makeup[m].code \in 0..MaxCodes
    BY <1>0 DEF RecoveryTypeOK, MakeUp
  <2>2. QED
    BY <1>0, <1>10, <1>b, <2>1 DEF SendCode, RecoveryTypeOK
<1>11. ASSUME NEW m \in MakeUps, CancelMakeUp(m) PROVE RecoveryInv'
  <2>1. [makeup[m] EXCEPT !.active = FALSE] \in MakeUp
    BY <1>0, MakeUpChanged DEF RecoveryTypeOK
  <2>2. 0 \in 0..MaxCodes
    BY <1>a
  <2>3. QED
    BY <1>0, <1>11, <1>b, <2>1, <2>2 DEF CancelMakeUp, RecoveryTypeOK
<1>12. ASSUME NEW m \in MakeUps, TimePasses(m) PROVE RecoveryInv'
  <2>1. [makeup[m] EXCEPT !.phase = PhaseAfter(makeup[m].phase)] \in MakeUp
    BY <1>0, MakeUpChanged DEF RecoveryTypeOK
  <2>2. QED
    BY <1>0, <1>12, <1>b, <2>1 DEF TimePasses, RecoveryTypeOK
<1>13. ASSUME NEW m \in MakeUps, BeginMark(m) PROVE RecoveryInv'
  <2>1. marking[m] + 1 \in 0..MaxMarks
    BY <1>0, <1>a, <1>13 DEF BeginMark, RecoveryTypeOK
  <2>2. QED
    BY <1>0, <1>13, <1>b, <2>1 DEF BeginMark, RecoveryTypeOK
<1>14. ASSUME NEW m \in MakeUps, FinishMark(m) PROVE RecoveryInv'
  <2>1. marking' \in [MakeUps -> 0..MaxMarks]
    <3>1. marking[m] - 1 \in 0..MaxMarks
      BY <1>0, <1>a, <1>14 DEF FinishMark, RecoveryTypeOK
    <3>2. QED
      BY <1>0, <1>14, <3>1 DEF FinishMark, RecoveryTypeOK
  <2>2. UNCHANGED <<classes, makeup, message, cycle, failures>>
    BY <1>14 DEF FinishMark
  <2>3. CASE Marks(m)
    BY <1>0, <2>1, <2>2, <2>3, MarkKept
    DEF RecoveryInv, RecoveryTypeOK, AttendedSlotStaysDone, CycleSpares, NoCycle
  <2>4. CASE UNCHANGED <<attended, plan, action, rmsCase, mailed, credited>>
    BY <1>0, <2>1, <2>2, <2>4 DEF RecoveryInv, RecoveryTypeOK, AttendedSlotStaysDone, CycleSpares
  <2>5. QED
    BY <1>14, <2>3, <2>4 DEF FinishMark
<1>15. ASSUME NEW m \in MakeUps, MarkForStudent(m) PROVE RecoveryInv'
  <2>1. Marks(m) /\ UNCHANGED <<classes, makeup, message, marking, cycle, failures>>
    BY <1>15 DEF MarkForStudent
  <2>2. QED
    BY <1>0, <2>1, MarkKept
    DEF RecoveryInv, RecoveryTypeOK, AttendedSlotStaysDone, CycleSpares, NoCycle
<1>16. CASE StaffMovesCase
  BY <1>0, <1>16
  DEF StaffMovesCase, RecoveryInv, RecoveryTypeOK, AttendedSlotStaysDone, CycleSpares
<1>17. CASE UNCHANGED recoveryVars
  BY <1>0, <1>17
  DEF recoveryVars, RecoveryInv, RecoveryTypeOK, AttendedSlotStaysDone, CycleSpares
<1>18. QED
  BY <1>1, <1>2, <1>3, <1>4, <1>5, <1>6, <1>7, <1>8, <1>9, <1>10, <1>11, <1>12, <1>13, <1>14,
     <1>15, <1>16, <1>17 DEF RecoveryNext

\* AttendedSlotStaysDone is an invariant: a remedial class the student attended stays
\* completed in the plan that offered it, for any number of remedial classes, whatever the
\* autopilot had read before the mark and whatever it evaluates after.
THEOREM AttendedSlotStaysDoneAlways == RecoverySpec => []AttendedSlotStaysDone
<1>1. RecoverySpec => []RecoveryInv
  BY RecoveryInvInit, RecoveryInvStep, PTL DEF RecoverySpec
<1>2. RecoveryInv => AttendedSlotStaysDone
  BY DEF RecoveryInv
<1>3. QED
  BY <1>1, <1>2, PTL

(***************************************************************************)
(* The cart                                                                *)
(***************************************************************************)

StoreSpec == StoreInit /\ [][StoreNext]_storeVars

\* The items of a cart are of the shop it is pinned to.
Pinned(c) == \A i \in MenuItems : c.lines[i] > 0 => c.shop = ShopOf[i]

TabJobs == [pc : {"idle", "cart", "rating"}, writes : Carts, strays : BOOLEAN,
            rates : SUBSET Orders, counts : SUBSET Orders]

\* What a request is about to write is pinned too, until one strays.
CartInv ==
  /\ cart \in Carts /\ strayed \in BOOLEAN
  /\ tab \in [Tabs -> TabJobs] /\ ratedOrders \subseteq Orders
  /\ ~strayed => Pinned(cart)
  /\ \A t \in Tabs : tab[t].pc = "cart" /\ ~tab[t].strays /\ ~strayed => Pinned(tab[t].writes)

\* A cart that is saved without lines is empty.
LEMMA KeptIsPinned ==
  ASSUME NEW shop \in Shops \cup {NoShop}, NEW lines \in [MenuItems -> 0..MaxQuantity],
         NEW preview \in BOOLEAN
  PROVE  /\ Kept(shop, lines, preview) \in Carts
         /\ (\A i \in MenuItems : lines[i] > 0 => shop = ShopOf[i]) =>
              Pinned(Kept(shop, lines, preview))
<1>1. MaxQuantity \in Nat
  BY StoreAssumption
<1>2. EmptyCart \in Carts /\ Pinned(EmptyCart)
  BY <1>1 DEF EmptyCart, Carts, Pinned
<1>3. CASE \A i \in MenuItems : lines[i] = 0
  BY <1>2, <1>3 DEF Kept
<1>4. CASE ~\A i \in MenuItems : lines[i] = 0
  <2>1. Kept(shop, lines, preview) = [shop |-> shop, lines |-> lines, preview |-> preview]
    BY <1>4 DEF Kept
  <2>2. QED
    BY <2>1 DEF Carts, Pinned
<1>5. QED
  BY <1>3, <1>4

\* A request that neither is a preview nor takes from a line that is not there keeps the
\* cart of one shop.
LEMMA MutatedIsPinned ==
  ASSUME NEW c \in Carts, NEW i \in MenuItems, NEW more \in BOOLEAN,
         more => c.lines[i] < MaxQuantity
  PROVE  /\ Mutated(c, i, more) \in Carts
         /\ Pinned(c) /\ (more => ~Elsewhere(c, i)) /\ (~more => c.lines[i] # 0) =>
              Pinned(Mutated(c, i, more))
<1> DEFINE left == IF more THEN c.lines[i] + 1 ELSE IF c.lines[i] > 0 THEN c.lines[i] - 1 ELSE 0
           lines == [c.lines EXCEPT ![i] = left]
<1>1. /\ MaxQuantity \in Nat /\ ShopOf[i] \in Shops /\ NoShop \notin Shops
      /\ \A j \in MenuItems : ShopOf[j] \in Shops
  BY StoreAssumption
<1>2. /\ c.lines \in [MenuItems -> 0..MaxQuantity] /\ c.shop \in Shops \cup {NoShop}
      /\ c.preview \in BOOLEAN
  BY DEF Carts
<1>3. left \in 0..MaxQuantity
  BY <1>1, <1>2
<1>4. Mutated(c, i, more) = Kept(ShopOf[i], lines, c.preview)
  BY DEF Mutated
<1> HIDE DEF left
<1>5. /\ lines \in [MenuItems -> 0..MaxQuantity]
      /\ \A j \in MenuItems \ {i} : lines[j] = c.lines[j]
  BY <1>2, <1>3
<1> HIDE DEF lines
<1>6. ASSUME Pinned(c), more => ~Elsewhere(c, i), ~more => c.lines[i] # 0,
             NEW j \in MenuItems, lines[j] > 0
      PROVE  ShopOf[i] = ShopOf[j]
  <2>1. CASE j = i
    BY <2>1
  <2>2. CASE j # i
    <3>1. c.lines[j] > 0 /\ c.shop = ShopOf[j]
      BY <1>5, <1>6, <2>2 DEF Pinned
    <3>2. c.shop # NoShop
      BY <1>1, <3>1
    <3>3. c.lines[i] # 0 => c.shop = ShopOf[i]
      BY <1>2, <1>6 DEF Pinned
    <3>4. QED
      BY <1>6, <3>1, <3>2, <3>3 DEF Elsewhere
  <2>3. QED
    BY <2>1, <2>2
<1>7. QED
  BY <1>1, <1>2, <1>4, <1>5, <1>6, KeptIsPinned

LEMMA CartInvInit == StoreInit => CartInv
<1> SUFFICES ASSUME StoreInit PROVE CartInv
  OBVIOUS
<1>1. MaxQuantity \in Nat
  BY StoreAssumption
<1>2. EmptyCart \in Carts /\ Pinned(EmptyCart)
  BY <1>1 DEF EmptyCart, Carts, Pinned
<1>3. tab \in [Tabs -> TabJobs] /\ \A t \in Tabs : tab[t].pc # "cart"
  <2>1. IdleTab \in TabJobs /\ IdleTab.pc = "idle"
    BY <1>2 DEF IdleTab, TabJobs
  <2>2. QED
    BY <2>1 DEF StoreInit
<1>4. cart = EmptyCart /\ strayed = FALSE /\ ratedOrders = {}
  BY DEF StoreInit
<1>5. QED
  BY <1>2, <1>3, <1>4 DEF CartInv

\* A request reads the cart and leaves what it is about to write with its tab.
LEMMA BeginsPinned ==
  ASSUME CartInv, NEW t \in Tabs, NEW writes \in Carts, NEW strays \in BOOLEAN,
         BeginWrite(t, CartJob(writes, strays)),
         ~strays /\ Pinned(cart) => Pinned(writes)
  PROVE  CartInv'
<1> DEFINE job == CartJob(writes, strays)
<1>1. job \in TabJobs /\ job.pc = "cart" /\ job.writes = writes /\ job.strays = strays
  BY DEF CartJob, IdleTab, TabJobs
<1>2. tab' = [tab EXCEPT ![t] = job] /\ UNCHANGED <<cart, strayed, ratedOrders>>
  BY DEF BeginWrite
<1> HIDE DEF job
<1>3. /\ tab' \in [Tabs -> TabJobs]
      /\ tab'[t] = job /\ \A u \in Tabs \ {t} : tab'[u] = tab[u]
  BY <1>1, <1>2 DEF CartInv
<1>4. QED
  BY <1>1, <1>2, <1>3 DEF CartInv, Pinned

\* A tab that is idle or rates an order is no longer about the cart.
LEMMA RestsPinned ==
  ASSUME CartInv, NEW t \in Tabs, NEW job \in TabJobs, tab' = [tab EXCEPT ![t] = job],
         job.pc # "cart", cart' \in Carts, strayed' \in BOOLEAN, ratedOrders' \subseteq Orders,
         strayed => strayed', ~strayed' => Pinned(cart)'
  PROVE  CartInv'
<1>1. /\ tab' \in [Tabs -> TabJobs]
      /\ tab'[t] = job /\ \A u \in Tabs \ {t} : tab'[u] = tab[u]
  BY DEF CartInv
<1>2. QED
  BY <1>1 DEF CartInv, Pinned

LEMMA CartInvStep == CartInv /\ [StoreNext]_storeVars => CartInv'
<1> SUFFICES ASSUME CartInv, [StoreNext]_storeVars PROVE CartInv'
  OBVIOUS
<1>0. EmptyCart \in Carts /\ Pinned(EmptyCart) /\ IdleTab \in TabJobs /\ IdleTab.pc = "idle"
  <2>1. MaxQuantity \in Nat
    BY StoreAssumption
  <2>2. EmptyCart \in Carts /\ Pinned(EmptyCart)
    BY <2>1 DEF EmptyCart, Carts, Pinned
  <2>3. QED
    BY <2>2 DEF IdleTab, TabJobs
<1>1. ASSUME UNCHANGED <<cart, tab, strayed, ratedOrders>> PROVE CartInv'
  BY <1>1 DEF CartInv, Pinned
<1>2. CASE EnsureCatalogue \/ BootstrapCatalogue
  BY <1>1, <1>2 DEF EnsureCatalogue, BootstrapCatalogue, StaffEdit
<1>3. CASE ClearCart
  BY <1>0, <1>3 DEF ClearCart, CartInv, Pinned
<1>4. ASSUME NEW s \in Shops, CreateShop(s) \/ UpdateShop(s) PROVE CartInv'
  BY <1>1, <1>4 DEF CreateShop, UpdateShop, StaffEdit
<1>5. ASSUME NEW i \in MenuItems, CreateMenuItem(i) \/ UpdateMenuItem(i) \/ CreateFoodItem(i)
      PROVE  CartInv'
  BY <1>1, <1>5 DEF CreateMenuItem, UpdateMenuItem, CreateFoodItem, StaffEdit
<1>6. ASSUME NEW hour \in Hours, CreateBreakSlot(hour) PROVE CartInv'
  BY <1>1, <1>6 DEF CreateBreakSlot, StaffEdit
<1>7. ASSUME NEW t \in Tabs, NEW i \in MenuItems, NEW more \in BOOLEAN, NEW demo \in DemoModes,
             MutateItem(t, i, more, demo)
      PROVE  CartInv'
  <2> DEFINE writes == Mutated(cart, i, more)
             strays == demo \/ (~more /\ cart.lines[i] = 0)
  <2>1. /\ BeginWrite(t, CartJob(writes, strays))
        /\ more => cart.lines[i] < MaxQuantity
        /\ more /\ ~demo => ~Elsewhere(cart, i)
    BY <1>7 DEF MutateItem
  <2>2. cart \in Carts
    BY DEF CartInv
  <2>3. writes \in Carts /\ (~strays /\ Pinned(cart) => Pinned(writes))
    BY <2>1, <2>2, MutatedIsPinned
  <2>4. strays \in BOOLEAN
    OBVIOUS
  <2> HIDE DEF writes, strays
  <2>5. QED
    BY <2>1, <2>3, <2>4, BeginsPinned
<1>8. ASSUME NEW t \in Tabs, NEW i \in MenuItems, RemoveLine(t, i) PROVE CartInv'
  <2> DEFINE lines == [cart.lines EXCEPT ![i] = 0]
             writes == Kept(cart.shop, lines, cart.preview)
  <2>1. BeginWrite(t, CartJob(writes, FALSE))
    BY <1>8 DEF RemoveLine
  <2>2. /\ cart.shop \in Shops \cup {NoShop} /\ cart.preview \in BOOLEAN
        /\ cart.lines \in [MenuItems -> 0..MaxQuantity] /\ MaxQuantity \in Nat
    BY StoreAssumption DEF CartInv, Carts
  <2>3. /\ lines \in [MenuItems -> 0..MaxQuantity]
        /\ \A j \in MenuItems : lines[j] > 0 => cart.lines[j] > 0
    BY <2>2
  <2> HIDE DEF lines
  <2>4. writes \in Carts /\ (Pinned(cart) => Pinned(writes))
    BY <2>2, <2>3, KeptIsPinned DEF Pinned
  <2> HIDE DEF writes
  <2>5. QED
    BY <2>1, <2>4, BeginsPinned
<1>9. ASSUME NEW t \in Tabs, NEW preview \in BOOLEAN, UpdateState(t, preview) PROVE CartInv'
  <2> DEFINE writes == Kept(cart.shop, cart.lines, preview)
  <2>1. BeginWrite(t, CartJob(writes, FALSE))
    BY <1>9 DEF UpdateState
  <2>2. cart.shop \in Shops \cup {NoShop} /\ cart.lines \in [MenuItems -> 0..MaxQuantity]
    BY DEF CartInv, Carts
  <2>3. writes \in Carts /\ (Pinned(cart) => Pinned(writes))
    BY <2>2, KeptIsPinned DEF Pinned
  <2> HIDE DEF writes
  <2>4. QED
    BY <2>1, <2>3, BeginsPinned
<1>10. ASSUME NEW t \in Tabs, SaveCart(t) PROVE CartInv'
  <2>1. tab[t] \in TabJobs
    BY DEF CartInv
  <2>2. /\ cart' = tab[t].writes /\ strayed' = (strayed \/ tab[t].strays)
        /\ tab' = [tab EXCEPT ![t] = IdleTab] /\ ratedOrders' = ratedOrders /\ tab[t].pc = "cart"
    BY <1>10 DEF SaveCart
  <2>3. cart' \in Carts /\ strayed' \in BOOLEAN
    BY <2>1, <2>2 DEF TabJobs, CartInv
  <2>4. ~strayed' => Pinned(cart)'
    BY <2>2 DEF CartInv, Pinned
  <2>5. QED
    BY <1>0, <2>2, <2>3, <2>4, RestsPinned DEF CartInv
<1>11. ASSUME NEW t \in Tabs, NEW o \in Orders, BeginRating(t, o) PROVE CartInv'
  <2> DEFINE job == [IdleTab EXCEPT !.pc = "rating", !.rates = {o}, !.counts = RatedAt(OrderedAt[o])]
  <2>1. tab' = [tab EXCEPT ![t] = job] /\ UNCHANGED <<cart, strayed, ratedOrders>>
    BY <1>11 DEF BeginRating
  <2>2. RatedAt(OrderedAt[o]) \in SUBSET Orders
    BY DEF RatedAt, CartInv
  <2>3. job \in TabJobs /\ job.pc = "rating"
    BY <1>0, <2>2 DEF TabJobs
  <2> HIDE DEF job
  <2>4. QED
    BY <2>1, <2>3, RestsPinned DEF CartInv, Pinned
<1>12. ASSUME NEW t \in Tabs, SaveRating(t) PROVE CartInv'
  <2>1. /\ ratedOrders' = ratedOrders \cup tab[t].rates /\ UNCHANGED <<cart, strayed>>
        /\ tab' = [tab EXCEPT ![t] = IdleTab]
    BY <1>12 DEF SaveRating
  <2>2. tab[t].rates \subseteq Orders
    BY DEF CartInv, TabJobs
  <2>3. QED
    BY <1>0, <2>1, <2>2, RestsPinned DEF CartInv, Pinned
<1>13. CASE UNCHANGED storeVars
  BY <1>1, <1>13 DEF storeVars
<1>14. QED
  BY <1>2, <1>3, <1>4, <1>5, <1>6, <1>7, <1>8, <1>9, <1>10, <1>11, <1>12, <1>13 DEF StoreNext

\* CartIsOfOneShop is an invariant: whichever tabs overwrite one another's cart, its items
\* are of the shop it is pinned to until a request strays (mutate_food_cart_item).
THEOREM CartIsOfOneShopAlways == StoreSpec => []CartIsOfOneShop
<1>1. StoreSpec => []CartInv
  BY CartInvInit, CartInvStep, PTL DEF StoreSpec
<1>2. CartInv => CartIsOfOneShop
  BY DEF CartInv, Pinned, CartIsOfOneShop
<1>3. QED
  BY <1>1, <1>2, PTL

Stores == [open : [Shops -> {"absent", "closed", "open"}],
           sale : [MenuItems -> {"absent", "off", "empty", "on"}],
           named : SUBSET MenuItems, slots : SUBSET Hours]

\* A shop's rating counts ratings of its orders; so does the one a request is about to write.
RatingsCount ==
  /\ store \in Stores /\ ratingOf \in [Shops -> Ratings]
  /\ studentEdits \in 0..MaxStudentEdits /\ storeEdits \in 0..MaxStoreEdits
  /\ \A s \in Shops : ratingOf[s].of \subseteq RatedAt(s)
  /\ \A t \in Tabs : tab[t].pc = "rating" =>
       \A o \in tab[t].rates : tab[t].counts \subseteq RatedAt(OrderedAt[o])

StoreInv == CartInv /\ RatingsCount

LEMMA StoreTyped == StoreInv => StoreTypeOK
  BY DEF StoreInv, CartInv, RatingsCount, StoreTypeOK, Stores, RatedAt, TabJobs

LEMMA StoreInvInit == StoreInit => StoreInv
<1> SUFFICES ASSUME StoreInit PROVE StoreInv
  OBVIOUS
<1>1. store \in Stores
  <2>1. PICK found \in {{}, Catalogue} :
          store = [open |-> [s \in Shops |-> IF s \in found THEN "open" ELSE "absent"],
                   sale |-> [i \in MenuItems |-> "absent"], named |-> {}, slots |-> {}]
    BY DEF StoreInit
  <2>2. QED
    BY <2>1 DEF Stores
<1>2. Seed \in Ratings /\ Seed.of = {}
  BY DEF Seed, Ratings
<1>3. ratingOf \in [Shops -> Ratings] /\ \A s \in Shops : ratingOf[s].of \subseteq RatedAt(s)
  BY <1>2 DEF StoreInit
<1>4. studentEdits \in 0..MaxStudentEdits /\ storeEdits \in 0..MaxStoreEdits
  BY StoreAssumption DEF StoreInit
<1>5. \A t \in Tabs : tab[t].pc # "rating"
  BY DEF StoreInit, IdleTab
<1>6. QED
  BY <1>1, <1>3, <1>4, <1>5, CartInvInit DEF StoreInv, RatingsCount

\* The catalogue written again is well formed.
LEMMA CatalogueTyped ==
  ASSUME RatingsCount
  PROVE  /\ Bootstrapped(store) \in Stores /\ Ensured(store) \in Stores
         /\ ResetRatings \in [Shops -> Ratings] /\ EnsuredRatings \in [Shops -> Ratings]
         /\ \A s \in Shops : ResetRatings[s].of \subseteq RatedAt(s) /\ EnsuredRatings[s].of \subseteq RatedAt(s)
<1>1. Seed \in Ratings /\ Seed.of = {}
  BY DEF Seed, Ratings
<1>2. store \in Stores /\ ratingOf \in [Shops -> Ratings] /\ \A s \in Shops : ratingOf[s].of \subseteq RatedAt(s)
  BY DEF RatingsCount
<1>3. Bootstrapped(store) \in Stores
  BY <1>2 DEF Bootstrapped, Stores
<1>4. ResetRatings \in [Shops -> Ratings] /\ \A s \in Shops : ResetRatings[s].of \subseteq RatedAt(s)
  BY <1>1, <1>2 DEF ResetRatings
<1>5. QED
  BY <1>2, <1>3, <1>4 DEF Ensured, EnsuredRatings

\* A step that rates nothing and begins no rating keeps the counts.
LEMMA NothingRated ==
  ASSUME StoreInv, CartInv', store' \in Stores, ratingOf' \in [Shops -> Ratings], ratedOrders' = ratedOrders,
         studentEdits' \in 0..MaxStudentEdits, storeEdits' \in 0..MaxStoreEdits,
         \A s \in Shops : ratingOf'[s].of \subseteq RatedAt(s),
         \A t \in Tabs : tab'[t].pc = "rating" => tab'[t] = tab[t]
  PROVE  StoreInv'
  BY DEF StoreInv, RatingsCount, RatedAt

LEMMA StoreInvStep == StoreInv /\ [StoreNext]_storeVars => StoreInv'
<1> SUFFICES ASSUME StoreInv, [StoreNext]_storeVars PROVE StoreInv'
  OBVIOUS
<1>0. /\ CartInv /\ CartInv' /\ RatingsCount
      /\ store \in Stores /\ ratingOf \in [Shops -> Ratings]
      /\ studentEdits \in 0..MaxStudentEdits /\ storeEdits \in 0..MaxStoreEdits
      /\ {MaxStudentEdits, MaxStoreEdits} \subseteq Nat
      /\ \A s \in Shops : ratingOf[s].of \subseteq RatedAt(s)
      /\ tab \in [Tabs -> TabJobs]
  BY CartInvStep, StoreAssumption DEF StoreInv, RatingsCount, CartInv
<1>1. ASSUME UNCHANGED storeVars PROVE StoreInv'
  BY <1>0, <1>1, NothingRated DEF storeVars
<1>2. CASE EnsureCatalogue
  BY <1>0, <1>2, CatalogueTyped, NothingRated DEF EnsureCatalogue
<1>3. ASSUME StaffEdit, store' \in Stores, ratingOf' \in [Shops -> Ratings],
             \A s \in Shops : ratingOf'[s].of \subseteq RatedAt(s)
      PROVE  StoreInv'
  <2>1. storeEdits' \in 0..MaxStoreEdits /\ UNCHANGED <<ratedOrders, tab, studentEdits>>
    BY <1>0, <1>3 DEF StaffEdit
  <2>2. QED
    BY <1>0, <1>3, <2>1, NothingRated
<1>4. CASE BootstrapCatalogue
  BY <1>0, <1>3, <1>4, CatalogueTyped DEF BootstrapCatalogue
<1>5. CASE ClearCart
  BY <1>0, <1>5, NothingRated DEF ClearCart
<1>6. ASSUME NEW s \in Shops, CreateShop(s) PROVE StoreInv'
  <2>1. PICK state \in {"closed", "open"} : store' = [store EXCEPT !.open[s] = state]
    BY <1>6 DEF CreateShop
  <2>2. store' \in Stores
    BY <1>0, <2>1 DEF Stores
  <2>3. QED
    BY <1>0, <1>3, <1>6, <2>2 DEF CreateShop
<1>7. ASSUME NEW s \in Shops, UpdateShop(s) PROVE StoreInv'
  <2>1. CASE ratingOf' = [ratingOf EXCEPT ![s] = [by |-> "owner", of |-> {}]] /\ UNCHANGED store
    <3>1. [by |-> "owner", of |-> {}] \in Ratings
      BY DEF Ratings
    <3>2. ratingOf' \in [Shops -> Ratings] /\ \A r \in Shops : ratingOf'[r].of \subseteq RatedAt(r)
      BY <1>0, <2>1, <3>1
    <3>3. QED
      BY <1>0, <1>3, <1>7, <2>1, <3>2 DEF UpdateShop
  <2>2. ASSUME NEW state \in {"closed", "open"}, store' = [store EXCEPT !.open[s] = state], UNCHANGED ratingOf
        PROVE  StoreInv'
    <3>1. store' \in Stores
      BY <1>0, <2>2 DEF Stores
    <3>2. QED
      BY <1>0, <1>3, <1>7, <2>2, <3>1 DEF UpdateShop
  <2>3. QED
    BY <1>7, <2>1, <2>2 DEF UpdateShop
<1>8. ASSUME NEW i \in MenuItems, CreateMenuItem(i) \/ UpdateMenuItem(i) PROVE StoreInv'
  <2>1. PICK state \in {"off", "empty", "on"} : store' = [store EXCEPT !.sale[i] = state]
    BY <1>8 DEF CreateMenuItem, UpdateMenuItem
  <2>2. store' \in Stores
    BY <1>0, <2>1 DEF Stores
  <2>3. QED
    BY <1>0, <1>3, <1>8, <2>2 DEF CreateMenuItem, UpdateMenuItem
<1>9. ASSUME NEW i \in MenuItems, CreateFoodItem(i) PROVE StoreInv'
  <2>1. store' \in Stores
    BY <1>0, <1>9 DEF CreateFoodItem, Stores
  <2>2. QED
    BY <1>0, <1>3, <1>9, <2>1 DEF CreateFoodItem
<1>10. ASSUME NEW hour \in Hours, CreateBreakSlot(hour) PROVE StoreInv'
  <2>1. store' \in Stores
    BY <1>0, <1>10 DEF CreateBreakSlot, Stores
  <2>2. QED
    BY <1>0, <1>3, <1>10, <2>1 DEF CreateBreakSlot
<1>11. ASSUME NEW t \in Tabs, NEW writes, NEW strays, BeginWrite(t, CartJob(writes, strays)),
              store' \in Stores, ratingOf' \in [Shops -> Ratings],
              \A s \in Shops : ratingOf'[s].of \subseteq RatedAt(s)
       PROVE  StoreInv'
  <2>1. studentEdits' \in 0..MaxStudentEdits /\ UNCHANGED <<ratedOrders, storeEdits>>
    BY <1>0, <1>11 DEF BeginWrite
  <2>2. tab'[t].pc = "cart" /\ \A u \in Tabs \ {t} : tab'[u] = tab[u]
    BY <1>0, <1>11 DEF BeginWrite, CartJob, IdleTab
  <2>3. \A u \in Tabs : tab'[u].pc = "rating" => tab'[u] = tab[u]
    BY <2>2
  <2>4. QED
    BY <1>0, <1>11, <2>1, <2>3, NothingRated
<1>12. ASSUME NEW t \in Tabs, NEW i \in MenuItems, NEW more \in BOOLEAN, NEW demo \in DemoModes,
              MutateItem(t, i, more, demo)
       PROVE  StoreInv'
  BY <1>0, <1>11, <1>12, CatalogueTyped DEF MutateItem
<1>13. ASSUME NEW t \in Tabs, NEW i \in MenuItems, RemoveLine(t, i) PROVE StoreInv'
  BY <1>0, <1>11, <1>13 DEF RemoveLine
<1>14. ASSUME NEW t \in Tabs, NEW preview \in BOOLEAN, UpdateState(t, preview) PROVE StoreInv'
  BY <1>0, <1>11, <1>14 DEF UpdateState
<1>15. ASSUME NEW t \in Tabs, SaveCart(t) PROVE StoreInv'
  <2>1. tab'[t].pc = "idle" /\ \A u \in Tabs \ {t} : tab'[u] = tab[u]
    BY <1>0, <1>15 DEF SaveCart, IdleTab
  <2>2. \A u \in Tabs : tab'[u].pc = "rating" => tab'[u] = tab[u]
    BY <2>1
  <2>3. QED
    BY <1>0, <1>15, <2>2, NothingRated DEF SaveCart
<1>16. ASSUME NEW t \in Tabs, NEW o \in Orders, BeginRating(t, o) PROVE StoreInv'
  <2>1. studentEdits' \in 0..MaxStudentEdits /\ UNCHANGED <<store, ratingOf, ratedOrders, storeEdits>>
    BY <1>0, <1>16 DEF BeginRating
  <2>2. tab'[t].rates = {o} /\ tab'[t].counts = RatedAt(OrderedAt[o]) /\ \A u \in Tabs \ {t} : tab'[u] = tab[u]
    BY <1>0, <1>16 DEF BeginRating, IdleTab
  <2>3. ASSUME NEW u \in Tabs, tab'[u].pc = "rating", NEW p \in tab'[u].rates
        PROVE  tab'[u].counts \subseteq RatedAt(OrderedAt[p])
    BY <1>0, <2>2, <2>3 DEF RatingsCount
  <2>4. QED
    BY <1>0, <2>1, <2>3 DEF StoreInv, RatingsCount, RatedAt
<1>17. ASSUME NEW t \in Tabs, SaveRating(t) PROVE StoreInv'
  <2>1. /\ tab[t].pc = "rating" /\ ratedOrders' = ratedOrders \cup tab[t].rates
        /\ ratingOf' = [s \in Shops |->
             IF \A o \in tab[t].rates : OrderedAt[o] # s THEN ratingOf[s]
             ELSE IF tab[t].counts = {} THEN Seed ELSE [by |-> "orders", of |-> tab[t].counts]]
        /\ UNCHANGED <<store, studentEdits, storeEdits>>
    BY <1>17 DEF SaveRating
  <2>2. tab'[t].pc = "idle" /\ \A u \in Tabs \ {t} : tab'[u] = tab[u]
    BY <1>0, <1>17 DEF SaveRating, IdleTab
  <2>3. \A s : RatedAt(s) \subseteq RatedAt(s)'
    BY <2>1 DEF RatedAt
  <2>4. tab[t].counts \in SUBSET Orders
    BY <1>0 DEF TabJobs
  <2>5. ASSUME NEW s \in Shops PROVE ratingOf'[s] \in Ratings /\ ratingOf'[s].of \subseteq RatedAt(s)'
    <3>1. CASE \A o \in tab[t].rates : OrderedAt[o] # s
      <4>1. ratingOf'[s] = ratingOf[s]
        BY <2>1, <3>1
      <4>2. QED
        BY <1>0, <2>3, <4>1
    <3>2. CASE ~(\A o \in tab[t].rates : OrderedAt[o] # s) /\ tab[t].counts = {}
      <4>1. ratingOf'[s] = Seed
        BY <2>1, <3>2
      <4>2. QED
        BY <4>1 DEF Seed, Ratings
    <3>3. CASE ~(\A o \in tab[t].rates : OrderedAt[o] # s) /\ tab[t].counts # {}
      <4>1. ratingOf'[s] = [by |-> "orders", of |-> tab[t].counts]
        BY <2>1, <3>3
      <4>2. tab[t].counts \subseteq RatedAt(s)
        BY <1>0, <2>1, <3>3 DEF RatingsCount
      <4>3. QED
        BY <2>3, <2>4, <4>1, <4>2 DEF Ratings
    <3>4. QED
      BY <3>1, <3>2, <3>3
  <2>6. ratingOf' \in [Shops -> Ratings]
    BY <2>1, <2>5
  <2>7. ASSUME NEW u \in Tabs, tab'[u].pc = "rating", NEW p \in tab'[u].rates
        PROVE  tab'[u].counts \subseteq RatedAt(OrderedAt[p])'
    <3>1. tab'[u] = tab[u] /\ u # t
      BY <2>2, <2>7
    <3>2. tab'[u].counts \subseteq RatedAt(OrderedAt[p])
      BY <1>0, <2>7, <3>1 DEF RatingsCount
    <3>3. QED
      BY <2>3, <3>2
  <2>8. QED
    BY <1>0, <2>1, <2>5, <2>6, <2>7 DEF StoreInv, RatingsCount
<1>18. QED
  BY <1>1, <1>2, <1>4, <1>5, <1>6, <1>7, <1>8, <1>9, <1>10, <1>12, <1>13, <1>14, <1>15, <1>16, <1>17
     DEF StoreNext

(***************************************************************************)
(* Codes                                                                   *)
(***************************************************************************)

DispatchSpec == DispatchInit /\ [][DispatchNext]_dispatchVars

\* What confirms a request comes after the mail server took the code: a task that ended
\* well mailed it.
CodesMailed ==
  \A r \in CodeRequests :
    /\ sending[r].pc \in {"confirm", "sent"} => r \in mailedCodes
    /\ \A k \in Attempts : tasks[r][k] = "sent" => r \in mailedCodes

DispatchInv == DispatchTypeOK /\ CodesMailed

\* A way to send that reports success was taken by a mail server.
LEMMA SentIsTaken ==
  /\ OtpSends \subseteq [taken : BOOLEAN, ok : BOOLEAN]
  /\ \A s \in OtpSends : s.ok => s.taken
<1>1. /\ Sends \subseteq [taken : BOOLEAN, ok : BOOLEAN]
      /\ \A s \in Sends : s.ok => s.taken
  BY DEF Sends
<1>2. ASSUME NEW f, f \subseteq [taken : BOOLEAN, ok : BOOLEAN], \A s \in f : s.ok => s.taken,
             NEW g, g \subseteq [taken : BOOLEAN, ok : BOOLEAN], \A s \in g : s.ok => s.taken
      PROVE  /\ OrElse(f, g) \subseteq [taken : BOOLEAN, ok : BOOLEAN]
             /\ \A s \in OrElse(f, g) : s.ok => s.taken
  BY <1>2 DEF OrElse
<1>3. /\ SmtpSends \subseteq [taken : BOOLEAN, ok : BOOLEAN]
      /\ \A s \in SmtpSends : s.ok => s.taken
  BY <1>1, <1>2 DEF SmtpSends
<1>4. QED
  BY <1>1, <1>2, <1>3 DEF OtpSends

Sendings == [pc : {"idle", "dispatch", "enqueue", "wait", "inline", "confirm", "fail", "sent", "refused"},
             inline : BOOLEAN, task : Attempts]

\* Request r goes on to n, and nothing else of the requests changes.
LEMMA GoesOnMailed ==
  ASSUME DispatchInv, NEW r \in CodeRequests, NEW n \in Sendings,
         sending' = [sending EXCEPT ![r] = n],
         setup' = setup, notices' = notices, tasks' = tasks,
         mailedCodes \subseteq mailedCodes', mailedCodes' \subseteq CodeRequests,
         codes' \in [CodeRequests -> {"none", "live", "used"}],
         n.pc \in {"confirm", "sent"} => r \in mailedCodes'
  PROVE  DispatchInv'
<1>1. sending \in [CodeRequests -> Sendings]
  BY DEF DispatchInv, DispatchTypeOK, Sendings
<1>2. /\ sending' \in [CodeRequests -> Sendings]
      /\ sending'[r] = n /\ \A q \in CodeRequests \ {r} : sending'[q] = sending[q]
  BY <1>1
<1>3. DispatchTypeOK'
  BY <1>2 DEF DispatchInv, DispatchTypeOK, Sendings
<1>4. CodesMailed'
  BY <1>2 DEF DispatchInv, CodesMailed
<1>5. QED
  BY <1>3, <1>4 DEF DispatchInv

LEMMA DispatchInvInit == DispatchInit => DispatchInv
<1> SUFFICES ASSUME DispatchInit PROVE DispatchInv
  OBVIOUS
<1>1. IdleSending \in Sendings /\ IdleSending.pc = "idle"
  BY DEF IdleSending, Sendings, Attempts
<1>2. DispatchTypeOK
  BY <1>1 DEF DispatchInit, DispatchTypeOK, Sendings
<1>3. CodesMailed
  BY <1>1 DEF DispatchInit, CodesMailed
<1>4. QED
  BY <1>2, <1>3 DEF DispatchInv

LEMMA DispatchInvStep == DispatchInv /\ [DispatchNext]_dispatchVars => DispatchInv'
<1> SUFFICES ASSUME DispatchInv, [DispatchNext]_dispatchVars PROVE DispatchInv'
  OBVIOUS
<1>0. /\ sending \in [CodeRequests -> Sendings] /\ CodesMailed
      /\ codes \in [CodeRequests -> {"none", "live", "used"}]
      /\ mailedCodes \subseteq CodeRequests
      /\ tasks \in [CodeRequests -> [Attempts -> {"none", "queued", "sent", "failed", "lost"}]]
  BY DEF DispatchInv, DispatchTypeOK, Sendings
<1>a. ASSUME NEW r \in CodeRequests, NEW pc, Goto(r, pc),
             pc \in {"dispatch", "enqueue", "wait", "inline", "confirm", "fail", "sent", "refused"}
      PROVE  \E n \in Sendings : n.pc = pc /\ sending' = [sending EXCEPT ![r] = n]
  <2> DEFINE n == [sending[r] EXCEPT !.pc = pc]
  <2>1. n \in Sendings /\ n.pc = pc
    BY <1>0, <1>a DEF Sendings
  <2>2. sending' = [sending EXCEPT ![r] = n]
    BY <1>0, <1>a DEF Goto
  <2>3. QED
    BY <2>1, <2>2
<1>b. ASSUME NEW r \in CodeRequests, NEW s \in OtpSends, Mailed(r, s)
      PROVE  /\ mailedCodes \subseteq mailedCodes' /\ mailedCodes' \subseteq CodeRequests
             /\ s.ok => r \in mailedCodes'
  BY <1>0, <1>b, SentIsTaken DEF Mailed
<1>c. ASSUME NEW r \in CodeRequests, NEW s \in OtpSends, Mailed(r, s),
             Goto(r, IF s.ok THEN "confirm" ELSE "fail"),
             UNCHANGED <<setup, codes, tasks, notices>>
      PROVE  DispatchInv'
  <2> DEFINE pc == IF s.ok THEN "confirm" ELSE "fail"
  <2>1. pc \in {"confirm", "fail"} /\ (pc = "confirm" => s.ok)
    OBVIOUS
  <2>2. Goto(r, pc)
    BY <1>c
  <2> HIDE DEF pc
  <2>3. PICK n \in Sendings : n.pc = pc /\ sending' = [sending EXCEPT ![r] = n]
    BY <1>a, <2>1, <2>2
  <2>4. QED
    BY <1>0, <1>b, <1>c, <2>1, <2>3, GoesOnMailed
<1>d. ASSUME NEW r \in CodeRequests,
             NEW pc \in {"dispatch", "enqueue", "wait", "inline", "confirm", "fail", "sent"}, Goto(r, pc),
             UNCHANGED <<setup, codes, mailedCodes, tasks, notices>>,
             pc \in {"confirm", "sent"} => r \in mailedCodes
      PROVE  DispatchInv'
  <2>1. PICK n \in Sendings : n.pc = pc /\ sending' = [sending EXCEPT ![r] = n]
    BY <1>a, <1>d
  <2>2. QED
    BY <1>0, <1>d, <2>1, GoesOnMailed
<1>1. ASSUME NEW r \in CodeRequests, RequestCode(r) PROVE DispatchInv'
  <2>1. /\ codes' = [codes EXCEPT ![r] = "live"] /\ Goto(r, "dispatch")
        /\ UNCHANGED <<setup, mailedCodes, tasks, notices>>
    BY <1>1 DEF RequestCode
  <2>2. PICK n \in Sendings : n.pc = "dispatch" /\ sending' = [sending EXCEPT ![r] = n]
    BY <1>a, <2>1
  <2>3. QED
    BY <1>0, <2>1, <2>2, GoesOnMailed
<1>2. ASSUME NEW r \in CodeRequests, SendDirectly(r) PROVE DispatchInv'
  BY <1>2, <1>c DEF SendDirectly
<1>3. ASSUME NEW r \in CodeRequests, BeginDispatch(r) PROVE DispatchInv'
  <2>1. PICK quotaOut \in BOOLEAN, next \in {"enqueue", "inline"} :
          sending' = [sending EXCEPT ![r].pc = next, ![r].inline = MayInline(setup.fallback, quotaOut)]
    BY <1>3 DEF BeginDispatch
  <2> DEFINE n == [sending[r] EXCEPT !.pc = next, !.inline = MayInline(setup.fallback, quotaOut)]
  <2>2. n \in Sendings /\ n.pc = next
    BY <1>0 DEF Sendings, MayInline
  <2>3. sending' = [sending EXCEPT ![r] = n]
    BY <1>0, <2>1
  <2> HIDE DEF n
  <2>4. QED
    BY <1>0, <1>3, <2>2, <2>3, GoesOnMailed DEF BeginDispatch
<1>4. ASSUME NEW r \in CodeRequests, SendTask(r) PROVE DispatchInv'
  <2>1. PICK left \in {"none", "queued"} :
          tasks' = [tasks EXCEPT ![r][sending[r].task] = left]
    BY <1>4 DEF SendTask
  <2>2. PICK n \in Sendings : /\ n.pc \in {"wait", "enqueue", "inline"}
                              /\ sending' = [sending EXCEPT ![r] = n]
    <3>1. CASE \E pc \in {"wait", "inline"} : Goto(r, pc)
      <4>1. PICK pc \in {"wait", "inline"} : Goto(r, pc)
        BY <3>1
      <4>2. QED
        BY <1>a, <4>1
    <3>2. CASE sending' = [sending EXCEPT ![r].task = 2]
      <4>1. [sending[r] EXCEPT !.task = 2] \in Sendings
            /\ [sending[r] EXCEPT !.task = 2].pc = sending[r].pc
        BY <1>0 DEF Sendings, Attempts
      <4>2. sending' = [sending EXCEPT ![r] = [sending[r] EXCEPT !.task = 2]]
        BY <3>2
      <4>3. QED
        BY <1>4, <4>1, <4>2 DEF SendTask
    <3>3. QED
      BY <1>4, <3>1, <3>2 DEF SendTask
  <2>3. UNCHANGED <<setup, codes, mailedCodes, notices>> /\ sending[r].pc = "enqueue"
    BY <1>4 DEF SendTask
  <2>4. /\ tasks' \in [CodeRequests -> [Attempts -> {"none", "queued", "sent", "failed", "lost"}]]
        /\ \A q \in CodeRequests : \A k \in Attempts : tasks'[q][k] = "sent" => tasks[q][k] = "sent"
    <3>1. sending[r].task \in Attempts
      BY <1>0 DEF Sendings
    <3>2. QED
      BY <1>0, <2>1, <3>1
  <2>5. /\ sending' \in [CodeRequests -> Sendings]
        /\ sending'[r] = n /\ \A q \in CodeRequests \ {r} : sending'[q] = sending[q]
    BY <1>0, <2>2
  <2>6. DispatchTypeOK'
    BY <1>0, <2>3, <2>4, <2>5 DEF DispatchInv, DispatchTypeOK, Sendings
  <2>7. CodesMailed'
    BY <1>0, <2>2, <2>3, <2>4, <2>5 DEF CodesMailed
  <2>8. QED
    BY <2>6, <2>7 DEF DispatchInv
<1>5. ASSUME NEW r \in CodeRequests, GetResult(r) PROVE DispatchInv'
  <2>1. sending[r].task \in Attempts
    BY <1>0 DEF Sendings
  <2>2. Confirms(tasks[r][sending[r].task]) => r \in mailedCodes
    BY <1>0, <2>1 DEF Confirms, CodesMailed
  <2>3. PICK pc \in {"confirm", "inline"} : Goto(r, pc) /\ (pc = "confirm" => r \in mailedCodes)
    BY <1>5, <2>2 DEF GetResult
  <2>4. QED
    BY <1>5, <1>d, <2>3 DEF GetResult
<1>6. ASSUME NEW r \in CodeRequests, RunInline(r) PROVE DispatchInv'
  <2>1. CASE ~sending[r].inline
    <3>1. Goto(r, "fail") /\ UNCHANGED <<setup, codes, mailedCodes, tasks, notices>>
      BY <1>6, <2>1 DEF RunInline
    <3>2. QED
      BY <1>d, <3>1
  <2>2. CASE sending[r].inline
    BY <1>6, <1>c, <2>2 DEF RunInline
  <2>3. QED
    BY <2>1, <2>2
<1>7. ASSUME NEW r \in CodeRequests, Answer(r) PROVE DispatchInv'
  <2>1. CASE sending[r].pc = "confirm"
    <3>1. Goto(r, "sent") /\ UNCHANGED <<setup, codes, mailedCodes, tasks, notices>>
      BY <1>7, <2>1 DEF Answer
    <3>2. r \in mailedCodes
      BY <1>0, <2>1 DEF CodesMailed
    <3>3. QED
      BY <1>d, <3>1, <3>2
  <2>2. CASE sending[r].pc = "fail"
    <3>1. /\ Goto(r, "refused") /\ UNCHANGED <<setup, mailedCodes, tasks, notices>>
          /\ codes' = [codes EXCEPT ![r] = "used"]
      BY <1>7, <2>2 DEF Answer
    <3>2. PICK n \in Sendings : n.pc = "refused" /\ sending' = [sending EXCEPT ![r] = n]
      BY <1>a, <3>1
    <3>3. QED
      BY <1>0, <3>1, <3>2, GoesOnMailed
  <2>3. QED
    BY <1>7, <2>1, <2>2 DEF Answer
<1>8. ASSUME NEW r \in CodeRequests, NEW k \in Attempts, RunTask(r, k) PROVE DispatchInv'
  <2>1. PICK s \in OtpSends : /\ Mailed(r, s)
                              /\ \E left \in {IF s.ok THEN "sent" ELSE "failed", "lost"} :
                                   tasks' = [tasks EXCEPT ![r][k] = left]
    BY <1>8 DEF RunTask
  <2>2. PICK left \in {"sent", "failed", "lost"} :
          tasks' = [tasks EXCEPT ![r][k] = left] /\ (left = "sent" => s.ok)
    BY <2>1
  <2>3. UNCHANGED <<setup, codes, sending, notices>>
    BY <1>8 DEF RunTask
  <2>4. /\ tasks' \in [CodeRequests -> [Attempts -> {"none", "queued", "sent", "failed", "lost"}]]
        /\ \A q \in CodeRequests : \A j \in Attempts :
             tasks'[q][j] = "sent" => tasks[q][j] = "sent" \/ (q = r /\ left = "sent")
    BY <1>0, <2>2
  <2>5. /\ mailedCodes \subseteq mailedCodes' /\ mailedCodes' \subseteq CodeRequests
        /\ left = "sent" => r \in mailedCodes'
    BY <1>b, <2>1, <2>2
  <2>6. DispatchTypeOK'
    BY <2>3, <2>4, <2>5 DEF DispatchInv, DispatchTypeOK
  <2>7. CodesMailed'
    BY <1>0, <2>3, <2>4, <2>5 DEF CodesMailed
  <2>8. QED
    BY <2>6, <2>7 DEF DispatchInv
<1>9. ASSUME NEW n \in Notices, EnqueueNotice(n) PROVE DispatchInv'
  BY <1>0, <1>9 DEF EnqueueNotice, DispatchInv, DispatchTypeOK, CodesMailed
<1>10. CASE UNCHANGED dispatchVars
  BY <1>0, <1>10 DEF dispatchVars, DispatchInv, DispatchTypeOK, CodesMailed
<1>11. ASSUME NEW r \in CodeRequests, SpendCode(r) PROVE DispatchInv'
  <2>1. UNCHANGED <<setup, mailedCodes, sending, tasks, notices>>
        /\ codes' \in [CodeRequests -> {"none", "live", "used"}]
    BY <1>0, <1>11 DEF SpendCode
  <2>2. QED
    BY <1>0, <2>1 DEF DispatchInv, DispatchTypeOK, CodesMailed
<1>12. QED
  BY <1>1, <1>2, <1>3, <1>4, <1>5, <1>6, <1>7, <1>8, <1>9, <1>10, <1>11 DEF DispatchNext

\* ConfirmedIsMailed is an invariant: whoever is told of a code has one that a mail server
\* took, for every number of requests and whichever worker dies, answers late
\* or is done without (dispatch_login_otp).
THEOREM ConfirmedIsMailedAlways == DispatchSpec => []ConfirmedIsMailed
<1>1. DispatchSpec => []DispatchInv
  BY DispatchInvInit, DispatchInvStep, PTL DEF DispatchSpec
<1>2. DispatchInv => ConfirmedIsMailed
  BY DEF DispatchInv, CodesMailed, ConfirmedIsMailed
<1>3. QED
  BY <1>1, <1>2, PTL

(***************************************************************************)
(* Registrations                                                           *)
(***************************************************************************)

RegistrationsSpec == RegistrationsInit /\ [][RegistrationsNext]_registrationVars

\* A sign-in knows the document it has read, and a source of a restored row is an id.
Reading == {"read", "aligned", "restore", "restored"}
RegistrationsInv ==
  /\ RegistrationsTypeOK
  /\ \A t \in SignupThreads : signups[t].stage \in Reading => signups[t].user \in Ids

LEMMA RegistrationConstants ==
  /\ MaxId \in Nat /\ MaxSignups \in Nat /\ MaxLostSignups \in Nat
  /\ IsFiniteSet(FirstStudents) /\ Cardinality(FirstStudents) \in 0..MaxId
  /\ FirstStudents \subseteq Emails
<1>1. /\ MaxId \in Nat /\ MaxSignups \in Nat /\ MaxLostSignups \in Nat
      /\ FirstStudents \subseteq Emails /\ IsFiniteSet(Emails)
      /\ Cardinality(FirstStudents) <= MaxId
  BY RegistrationsAssumption
<1>2. IsFiniteSet(FirstStudents)
  BY <1>1, FS_Subset
<1>3. Cardinality(FirstStudents) \in Nat
  BY <1>2, FS_CardinalityType
<1>4. QED
  BY <1>1, <1>2, <1>3

\* The highest of a set of ids is one of them.
LEMMA HighestTyped ==
  ASSUME NEW S, S \subseteq Ids
  PROVE  /\ S = {} => Highest(S) = 0
         /\ S # {} => Highest(S) \in S /\ \A j \in S : j <= Highest(S)
         /\ Highest(S) \in 0..MaxId
<1>0. MaxId \in Nat
  BY RegistrationConstants
<1>1. ASSUME S # {} PROVE \E i \in S : \A j \in S : j <= i
  <2> DEFINE T == {MaxId - x : x \in S}
  <2>1. T \subseteq Nat /\ T # {}
    <3>1. ASSUME NEW x \in S PROVE MaxId - x \in Nat
      <4>1. x \in 1..MaxId
        BY DEF Ids
      <4>2. QED
        BY <1>0, <4>1
    <3>2. QED
      BY <1>1, <3>1
  <2>2. PICK u \in T : \A v \in T : u <= v
    BY <2>1, LeastNumber
  <2>3. PICK x \in S : u = MaxId - x
    BY <2>2
  <2>4. ASSUME NEW y \in S PROVE y <= x
    <3>1. MaxId - x <= MaxId - y
      BY <2>2, <2>3, <2>4
    <3>2. QED
      BY <1>0, <2>3, <2>4, <3>1 DEF Ids
  <2>5. QED
    BY <2>4
<1>2. S # {} => Highest(S) \in S /\ \A j \in S : j <= Highest(S)
  BY <1>1 DEF Highest
<1>3. S = {} => Highest(S) = 0
  BY DEF Highest
<1>4. Ids \subseteq 0..MaxId /\ 0 \in 0..MaxId
  BY <1>0 DEF Ids
<1>5. Highest(S) \in 0..MaxId
  BY <1>2, <1>3, <1>4
<1>6. QED
  BY <1>2, <1>3, <1>5

\* The rows of a table are some of its ids, so there are no more than those.
LEMMA FilledTyped ==
  ASSUME NEW table, NEW S \in SUBSET Filled(table)
  PROVE  IsFiniteSet(S) /\ Cardinality(S) \in 0..MaxId
<1>1. MaxId \in Nat
  BY RegistrationConstants
<1>2. IsFiniteSet(Ids) /\ Cardinality(Ids) = MaxId
  BY <1>1, FS_Interval DEF Ids
<1>3. S \subseteq Ids
  BY DEF Filled
<1>4. IsFiniteSet(S) /\ Cardinality(S) <= Cardinality(Ids)
  BY <1>2, <1>3, FS_Subset
<1>5. Cardinality(S) \in Nat
  BY <1>4, FS_CardinalityType
<1>6. QED
  BY <1>1, <1>2, <1>4, <1>5

LEMMA TablesTyped ==
  ASSUME NEW table, NEW e
  PROVE  /\ Of(table, e) \subseteq Ids /\ Filled(table) \subseteq Ids
         /\ Highest(Of(table, e)) \in 0..MaxId /\ Highest(Filled(table)) \in 0..MaxId
         /\ Of(table, e) # {} => Highest(Of(table, e)) \in Of(table, e)
<1>1. Of(table, e) \subseteq Ids /\ Filled(table) \subseteq Ids
  BY DEF Of, Filled
<1>2. QED
  BY <1>1, HighestTyped

LEMMA NoneTyped ==
  NoStudent \in Student /\ NoUser \in User /\ NoSignup \in Signup /\ NoSignup.stage = "idle"
<1>1. MaxId \in Nat
  BY RegistrationConstants
<1>2. QED
  BY <1>1 DEF NoStudent, NoUser, NoSignup, Student, User, Signup

LEMMA RegistrationsInvInit == RegistrationsInit => RegistrationsInv
<1> SUFFICES ASSUME RegistrationsInit PROVE RegistrationsInv
  OBVIOUS
<1>1. /\ MaxId \in Nat /\ MaxSignups \in Nat /\ MaxLostSignups \in Nat
      /\ Cardinality(FirstStudents) \in 0..MaxId /\ FirstStudents \subseteq Emails
  BY RegistrationConstants
<1>2. PICK order \in {o \in [FirstStudents -> 1..Cardinality(FirstStudents)] :
                     \A a, b \in FirstStudents : o[a] = o[b] => a = b} : sqlStudents = [i \in Ids |->
         IF \E e \in FirstStudents : order[e] = i
         THEN [email |-> CHOOSE e \in FirstStudents : order[e] = i, number |-> i]
         ELSE NoStudent]
  BY DEF RegistrationsInit
<1>3. ASSUME NEW i \in Ids PROVE sqlStudents[i] \in Student
  <2>1. CASE \E e \in FirstStudents : order[e] = i
    <3>1. PICK a : a = CHOOSE e \in FirstStudents : order[e] = i
      OBVIOUS
    <3>2. a \in Emails /\ i \in 0..MaxId + 1
      BY <1>1, <1>3, <2>1, <3>1 DEF Ids
    <3>3. sqlStudents[i] = [email |-> a, number |-> i]
      BY <1>2, <1>3, <2>1, <3>1
    <3>4. QED
      BY <3>2, <3>3 DEF Student
  <2>2. CASE ~\E e \in FirstStudents : order[e] = i
    BY <1>2, <1>3, <2>2, NoneTyped
  <2>3. QED
    BY <2>1, <2>2
<1>4. sqlStudents \in [Ids -> Student] /\ studentDocs = sqlStudents
  BY <1>2, <1>3 DEF RegistrationsInit
<1>5. sqlUsers \in [Ids -> User] /\ userDocs \in [Ids -> User]
  BY NoneTyped DEF RegistrationsInit
<1>6. sequence \in [{"students", "users"} -> 0..MaxId]
  BY <1>1 DEF RegistrationsInit
<1>7. signups \in [SignupThreads -> Signup] /\ \A t \in SignupThreads : signups[t].stage = "idle"
  BY NoneTyped DEF RegistrationsInit
<1>8. signupCount \in 0..MaxSignups /\ lostSignups \in 0..MaxLostSignups
      /\ engine \in {"postgresql", "sqlite"} /\ federation \in BOOLEAN
  BY <1>1 DEF RegistrationsInit
<1>9. QED
  BY <1>4, <1>5, <1>6, <1>7, <1>8 DEF RegistrationsInv, RegistrationsTypeOK, Reading

\* One request becomes another state of it, or ends.
LEMMA Becoming ==
  ASSUME RegistrationsInv, NEW t \in SignupThreads, NEW s, Become(t, s),
         s \in Signup, s.stage \in Reading => s.user \in Ids
  PROVE  /\ signups' \in [SignupThreads -> Signup]
         /\ \A q \in SignupThreads : signups'[q].stage \in Reading => signups'[q].user \in Ids
  BY DEF Become, RegistrationsInv, RegistrationsTypeOK

LEMMA Ending ==
  ASSUME RegistrationsInv, NEW t \in SignupThreads, Ended(t)
  PROVE  /\ signups' \in [SignupThreads -> Signup]
         /\ \A q \in SignupThreads : signups'[q].stage \in Reading => signups'[q].user \in Ids
<1>1. Become(t, NoSignup) /\ NoSignup.stage \notin Reading
  BY NoneTyped DEF Ended, Reading
<1>2. QED
  BY <1>1, NoneTyped, Becoming

\* What a request knows is typed.
LEMMA SignupTyped ==
  ASSUME RegistrationsInv, NEW t \in SignupThreads
  PROVE  /\ signups[t] \in Signup
         /\ signups[t].email \in Emails \cup {NoEmail} /\ signups[t].student \in 0..MaxId
         /\ signups[t].number \in 0..MaxId + 1 /\ signups[t].user \in 0..MaxId
         /\ signups[t].source \in 0..MaxId /\ signups[t].inserts \in BOOLEAN
         /\ signups[t].stage \in Reading => signups[t].user \in Ids
  BY DEF RegistrationsInv, RegistrationsTypeOK, Signup

\* The tables and the counts keep their types while one request moves on.
LEMMA Framed ==
  ASSUME RegistrationsInv, engine' = engine, federation' = federation,
         sqlStudents' \in [Ids -> Student], studentDocs' \in [Ids -> Student],
         sqlUsers' \in [Ids -> User], userDocs' \in [Ids -> User],
         sequence' \in [{"students", "users"} -> 0..MaxId],
         signups' \in [SignupThreads -> Signup],
         \A q \in SignupThreads : signups'[q].stage \in Reading => signups'[q].user \in Ids,
         signupCount' \in 0..MaxSignups, lostSignups' \in 0..MaxLostSignups
  PROVE  RegistrationsInv'
  BY DEF RegistrationsInv, RegistrationsTypeOK

LEMMA TypedNow ==
  ASSUME RegistrationsInv
  PROVE  /\ sqlStudents \in [Ids -> Student] /\ studentDocs \in [Ids -> Student]
         /\ sqlUsers \in [Ids -> User] /\ userDocs \in [Ids -> User]
         /\ sequence \in [{"students", "users"} -> 0..MaxId]
         /\ signups \in [SignupThreads -> Signup]
         /\ \A q \in SignupThreads : signups[q].stage \in Reading => signups[q].user \in Ids
         /\ signupCount \in 0..MaxSignups /\ lostSignups \in 0..MaxLostSignups
         /\ MaxId \in Nat /\ Ids \subseteq 0..MaxId
<1>1. MaxId \in Nat /\ Ids \subseteq 0..MaxId
  BY RegistrationConstants DEF Ids
<1>2. QED
  BY <1>1 DEF RegistrationsInv, RegistrationsTypeOK

LEMMA FieldsTyped ==
  /\ \A r \in Student : r.email \in Emails \cup {NoEmail} /\ r.number \in 0..MaxId + 1
  /\ \A r \in User : r.email \in Emails \cup {NoEmail} /\ r.student \in 0..MaxId
  /\ \A e \in Emails \cup {NoEmail} : \A n \in 0..MaxId + 1 : [email |-> e, number |-> n] \in Student
  /\ \A e \in Emails \cup {NoEmail} : \A i \in 0..MaxId : [email |-> e, student |-> i] \in User
  /\ \A r \in Student : \A n \in 0..MaxId + 1 : [r EXCEPT !.number = n] \in Student
  /\ \A r \in User : \A i \in 0..MaxId : [r EXCEPT !.student = i] \in User
  BY DEF Student, User

LEMMA BeginSignupStep ==
  ASSUME RegistrationsInv, NEW t \in SignupThreads, NEW e \in Emails, BeginSignup(t, e)
  PROVE  RegistrationsInv'
<1> DEFINE rows == Of(sqlStudents, e)
           number == IF rows = {} THEN Cardinality(Filled(sqlStudents)) + 1
                     ELSE sqlStudents[Highest(rows)].number
           inserts == rows = {}
           place == Highest(rows)
<1>1. Become(t, [NoSignup EXCEPT !.stage = "checked", !.email = e, !.inserts = inserts,
                                 !.student = place, !.number = number])
  BY DEF BeginSignup
<1>2. place \in 0..MaxId /\ inserts \in BOOLEAN
  BY TablesTyped
<1>3. number \in 0..MaxId + 1
  <2>1. CASE rows = {}
    <3>1. Cardinality(Filled(sqlStudents)) \in 0..MaxId
      BY FilledTyped
    <3>2. QED
      BY <2>1, <3>1, TypedNow
  <2>2. CASE rows # {}
    <3>1. Highest(rows) \in Ids
      BY <2>2, TablesTyped
    <3>2. sqlStudents[Highest(rows)] \in Student
      BY <3>1, TypedNow
    <3>3. QED
      BY <2>2, <3>2, FieldsTyped
  <2>3. QED
    BY <2>1, <2>2
<1> HIDE DEF rows, number, inserts, place
<1> DEFINE next == [NoSignup EXCEPT !.stage = "checked", !.email = e, !.inserts = inserts,
                                    !.student = place, !.number = number]
<1>4. NoSignup \in Signup /\ "checked" \notin Reading
  BY NoneTyped DEF Reading
<1>5. next \in Signup /\ next.stage = "checked"
  BY <1>2, <1>3, <1>4 DEF Signup
<1> HIDE DEF next
<1>6. /\ signups' \in [SignupThreads -> Signup]
      /\ \A q \in SignupThreads : signups'[q].stage \in Reading => signups'[q].user \in Ids
  BY <1>1, <1>4, <1>5, Becoming DEF next
<1>7. UNCHANGED <<Others, lostSignups>> /\ signupCount < MaxSignups /\ signupCount' = signupCount + 1
  BY DEF BeginSignup
<1>8. signupCount' \in 0..MaxSignups
  BY <1>7, TypedNow, RegistrationConstants
<1>9. QED
  BY <1>6, <1>7, <1>8, TypedNow, Framed DEF Others

\* A request keeps what it knows but for its stage, its student and its account.
LEMMA Advancing ==
  ASSUME RegistrationsInv, NEW t \in SignupThreads,
         NEW stage \in {"student", "studentDoc", "released", "userDoc", "aligned", "restored"},
         NEW place \in 0..MaxId, NEW user \in 0..MaxId, stage \in Reading => user \in Ids,
         Become(t, [[[signups[t] EXCEPT !.stage = stage] EXCEPT !.student = place] EXCEPT !.user = user])
  PROVE  /\ signups' \in [SignupThreads -> Signup]
         /\ \A q \in SignupThreads : signups'[q].stage \in Reading => signups'[q].user \in Ids
<1> DEFINE s == [[[signups[t] EXCEPT !.stage = stage] EXCEPT !.student = place] EXCEPT !.user = user]
<1>1. signups[t] \in Signup
  BY SignupTyped
<1>2. s \in Signup /\ s.stage = stage /\ s.user = user
  BY <1>1 DEF Signup
<1> HIDE DEF s
<1>3. QED
  BY <1>2, Becoming DEF s

LEMMA Same ==
  ASSUME RegistrationsInv, NEW t \in SignupThreads
  PROVE  /\ \A x : [signups[t] EXCEPT !.stage = x] =
                [[[signups[t] EXCEPT !.stage = x] EXCEPT !.student = signups[t].student] EXCEPT !.user = signups[t].user]
         /\ \A x, i : [signups[t] EXCEPT !.stage = x, !.student = i] =
                [[[signups[t] EXCEPT !.stage = x] EXCEPT !.student = i] EXCEPT !.user = signups[t].user]
         /\ \A x, u : [signups[t] EXCEPT !.stage = x, !.user = u] =
                [[[signups[t] EXCEPT !.stage = x] EXCEPT !.student = signups[t].student] EXCEPT !.user = u]
<1>1. signups[t] \in Signup
  BY SignupTyped
<1>2. QED
  BY <1>1 DEF Signup

LEMMA WriteStudentStep ==
  ASSUME RegistrationsInv, NEW t \in SignupThreads, WriteStudent(t)
  PROVE  RegistrationsInv'
<1> DEFINE s == signups[t]
<1>1. PICK id \in Ids :
        /\ sequence' = IF s.inserts THEN [sequence EXCEPT !["students"] = id] ELSE sequence
        /\ Ended(t) \/ Become(t, [s EXCEPT !.stage = "student", !.student = id])
  BY DEF WriteStudent
<1>2. UNCHANGED <<engine, federation, sqlStudents, sqlUsers, studentDocs, userDocs, signupCount, lostSignups>>
  BY DEF WriteStudent
<1>3. sequence' \in [{"students", "users"} -> 0..MaxId]
  BY <1>1, TypedNow
<1>4. id \in 0..MaxId /\ s.user \in 0..MaxId /\ "student" \notin Reading
  BY TypedNow, SignupTyped DEF Reading
<1>5. /\ signups' \in [SignupThreads -> Signup]
      /\ \A q \in SignupThreads : signups'[q].stage \in Reading => signups'[q].user \in Ids
  <2>1. CASE Ended(t)
    BY <2>1, Ending
  <2>2. CASE Become(t, [s EXCEPT !.stage = "student", !.student = id])
    <3>1. Become(t, [[[s EXCEPT !.stage = "student"] EXCEPT !.student = id] EXCEPT !.user = s.user])
      BY <2>2, Same
    <3>2. QED
      BY <1>4, <3>1, Advancing
  <2>3. QED
    BY <1>1, <2>1, <2>2
<1>6. QED
  BY <1>2, <1>3, <1>5, TypedNow, Framed

LEMMA WriteStudentDocStep ==
  ASSUME RegistrationsInv, NEW t \in SignupThreads, WriteStudentDoc(t)
  PROVE  RegistrationsInv'
<1> DEFINE s == signups[t]
<1>1. /\ \/ Ended(t) /\ UNCHANGED studentDocs
         \/ /\ studentDocs' = [studentDocs EXCEPT ![s.student] = [email |-> s.email, number |-> s.number]]
            /\ Become(t, [s EXCEPT !.stage = "studentDoc"])
      /\ UNCHANGED <<engine, federation, sqlStudents, sqlUsers, userDocs, sequence, signupCount, lostSignups>>
  BY DEF WriteStudentDoc
<1>2. /\ s.email \in Emails \cup {NoEmail} /\ s.number \in 0..MaxId + 1 /\ s.student \in 0..MaxId
      /\ s.user \in 0..MaxId /\ "studentDoc" \notin Reading
  BY SignupTyped DEF Reading
<1>3. [email |-> s.email, number |-> s.number] \in Student
  BY <1>2, FieldsTyped
<1>4. studentDocs' \in [Ids -> Student]
  BY <1>1, <1>3, TypedNow
<1>5. /\ signups' \in [SignupThreads -> Signup]
      /\ \A q \in SignupThreads : signups'[q].stage \in Reading => signups'[q].user \in Ids
  <2>1. CASE Ended(t)
    BY <2>1, Ending
  <2>2. CASE Become(t, [s EXCEPT !.stage = "studentDoc"])
    <3>1. Become(t, [[[s EXCEPT !.stage = "studentDoc"] EXCEPT !.student = s.student] EXCEPT !.user = s.user])
      BY <2>2, Same
    <3>2. QED
      BY <1>2, <3>1, Advancing
  <2>3. QED
    BY <1>1, <2>1, <2>2
<1>6. QED
  BY <1>1, <1>4, <1>5, TypedNow, Framed

LEMMA ReleaseLinkStep ==
  ASSUME RegistrationsInv, NEW t \in SignupThreads, ReleaseLink(t)
  PROVE  RegistrationsInv'
<1> DEFINE s == signups[t]
<1>1. /\ userDocs' = Unlinked(s) /\ Become(t, [s EXCEPT !.stage = "released"])
      /\ UNCHANGED <<engine, federation, sqlStudents, sqlUsers, studentDocs, sequence, signupCount, lostSignups>>
  BY DEF ReleaseLink
<1>2. s.student \in 0..MaxId /\ s.user \in 0..MaxId /\ "released" \notin Reading /\ 0 \in 0..MaxId
  BY SignupTyped, RegistrationConstants DEF Reading
<1>3. userDocs' \in [Ids -> User]
  <2>1. ASSUME NEW u \in Ids PROVE [userDocs[u] EXCEPT !.student = 0] \in User /\ userDocs[u] \in User
    <3>1. userDocs[u] \in User
      BY TypedNow
    <3>2. QED
      BY <1>2, <3>1, FieldsTyped
  <2>2. QED
    BY <1>1, <2>1 DEF Unlinked
<1>4. Become(t, [[[s EXCEPT !.stage = "released"] EXCEPT !.student = s.student] EXCEPT !.user = s.user])
  BY <1>1, Same
<1>5. /\ signups' \in [SignupThreads -> Signup]
      /\ \A q \in SignupThreads : signups'[q].stage \in Reading => signups'[q].user \in Ids
  BY <1>2, <1>4, Advancing
<1>6. QED
  BY <1>1, <1>3, <1>5, TypedNow, Framed

LEMMA WriteUserDocStep ==
  ASSUME RegistrationsInv, NEW t \in SignupThreads, WriteUserDoc(t)
  PROVE  RegistrationsInv'
<1> DEFINE s == signups[t]
<1>1. PICK id \in Ids :
        /\ sequence' \in {sequence, [sequence EXCEPT !["users"] = id]}
        /\ \/ Ended(t) /\ UNCHANGED userDocs
           \/ /\ userDocs' = [userDocs EXCEPT ![id] = [email |-> s.email, student |-> s.student]]
              /\ Become(t, [s EXCEPT !.stage = "userDoc", !.user = id])
  BY DEF WriteUserDoc
<1>2. UNCHANGED <<engine, federation, sqlStudents, sqlUsers, studentDocs, signupCount, lostSignups>>
  BY DEF WriteUserDoc
<1>3. /\ s.email \in Emails \cup {NoEmail} /\ s.student \in 0..MaxId /\ id \in 0..MaxId
      /\ "userDoc" \notin Reading
  BY SignupTyped, TypedNow DEF Reading
<1>4. sequence' \in [{"students", "users"} -> 0..MaxId]
  BY <1>1, <1>3, TypedNow
<1>5. [email |-> s.email, student |-> s.student] \in User
  BY <1>3, FieldsTyped
<1>6. userDocs' \in [Ids -> User]
  BY <1>1, <1>5, TypedNow
<1>7. /\ signups' \in [SignupThreads -> Signup]
      /\ \A q \in SignupThreads : signups'[q].stage \in Reading => signups'[q].user \in Ids
  <2>1. CASE Ended(t)
    BY <2>1, Ending
  <2>2. CASE Become(t, [s EXCEPT !.stage = "userDoc", !.user = id])
    <3>1. Become(t, [[[s EXCEPT !.stage = "userDoc"] EXCEPT !.student = s.student] EXCEPT !.user = id])
      BY <2>2, Same
    <3>2. QED
      BY <1>3, <3>1, Advancing
  <2>3. QED
    BY <1>1, <2>1, <2>2
<1>8. QED
  BY <1>2, <1>4, <1>6, <1>7, TypedNow, Framed

LEMMA CommitSignupStep ==
  ASSUME RegistrationsInv, NEW t \in SignupThreads, CommitSignup(t)
  PROVE  RegistrationsInv'
<1> DEFINE s == signups[t]
<1>1. /\ sqlStudents' = [sqlStudents EXCEPT ![s.student] = [email |-> s.email, number |-> s.number]]
      /\ sqlUsers' = [sqlUsers EXCEPT ![s.user] = [email |-> s.email, student |-> s.student]]
      /\ Ended(t)
      /\ UNCHANGED <<engine, federation, studentDocs, userDocs, sequence, signupCount, lostSignups>>
  BY DEF CommitSignup
<1>2. s.email \in Emails \cup {NoEmail} /\ s.number \in 0..MaxId + 1 /\ s.student \in 0..MaxId
  BY SignupTyped
<1>3. [email |-> s.email, number |-> s.number] \in Student /\ [email |-> s.email, student |-> s.student] \in User
  BY <1>2, FieldsTyped
<1>4. sqlStudents' \in [Ids -> Student] /\ sqlUsers' \in [Ids -> User]
  BY <1>1, <1>3, TypedNow
<1>5. QED
  BY <1>1, <1>4, TypedNow, Ending, Framed

LEMMA LoseSignupStep ==
  ASSUME RegistrationsInv, NEW t \in SignupThreads, LoseSignup(t)
  PROVE  RegistrationsInv'
<1>1. /\ lostSignups < MaxLostSignups /\ lostSignups' = lostSignups + 1 /\ Ended(t)
      /\ UNCHANGED <<Others, signupCount>>
  BY DEF LoseSignup
<1>2. lostSignups' \in 0..MaxLostSignups
  BY <1>1, TypedNow, RegistrationConstants
<1>3. QED
  BY <1>1, <1>2, TypedNow, Ending, Framed DEF Others

LEMMA ReadAccountStep ==
  ASSUME RegistrationsInv, NEW t \in SignupThreads, NEW u \in Ids, ReadAccount(t, u)
  PROVE  RegistrationsInv'
<1> DEFINE email == userDocs[u].email
           place == userDocs[u].student
<1>1. /\ Become(t, [NoSignup EXCEPT !.stage = "read", !.email = email, !.student = place, !.user = u])
      /\ signupCount < MaxSignups /\ signupCount' = signupCount + 1 /\ UNCHANGED <<Others, lostSignups>>
  BY DEF ReadAccount
<1>2. userDocs[u] \in User
  BY TypedNow
<1>3. email \in Emails \cup {NoEmail} /\ place \in 0..MaxId
  BY <1>2, FieldsTyped
<1> HIDE DEF email, place
<1> DEFINE next == [NoSignup EXCEPT !.stage = "read", !.email = email, !.student = place, !.user = u]
<1>4. NoSignup \in Signup /\ u \in 0..MaxId
  BY NoneTyped, TypedNow
<1>5. next \in Signup /\ next.user \in Ids
  BY <1>3, <1>4 DEF Signup
<1> HIDE DEF next
<1>6. /\ signups' \in [SignupThreads -> Signup]
      /\ \A q \in SignupThreads : signups'[q].stage \in Reading => signups'[q].user \in Ids
  BY <1>1, <1>5, Becoming DEF next
<1>7. signupCount' \in 0..MaxSignups
  BY <1>1, TypedNow, RegistrationConstants
<1>8. QED
  BY <1>1, <1>6, <1>7, TypedNow, Framed DEF Others

LEMMA AlignUserIdStep ==
  ASSUME RegistrationsInv, NEW t \in SignupThreads, AlignUserId(t)
  PROVE  RegistrationsInv'
<1> DEFINE s == signups[t]
           u == UserId(s.user, s.email)
<1>1. /\ s.stage = "read"
      /\ \/ Ended(t) /\ UNCHANGED userDocs
         \/ /\ userDocs' \in {userDocs, [userDocs EXCEPT ![u] = userDocs[s.user], ![s.user] = NoUser]}
            /\ Become(t, [s EXCEPT !.stage = "aligned", !.user = u])
      /\ UNCHANGED <<engine, federation, sqlStudents, sqlUsers, studentDocs, sequence, signupCount, lostSignups>>
  BY DEF AlignUserId
<1>2. s.user \in Ids /\ s.student \in 0..MaxId
  BY <1>1, SignupTyped DEF Reading
<1>3. u \in Ids /\ u \in 0..MaxId
  BY <1>2, TablesTyped, TypedNow DEF UserId
<1> HIDE DEF u
<1>4. userDocs[s.user] \in User /\ NoUser \in User
  BY <1>2, TypedNow, NoneTyped
<1>5. userDocs' \in [Ids -> User]
  BY <1>1, <1>4, TypedNow
<1>6. /\ signups' \in [SignupThreads -> Signup]
      /\ \A q \in SignupThreads : signups'[q].stage \in Reading => signups'[q].user \in Ids
  <2>1. CASE Ended(t)
    BY <2>1, Ending
  <2>2. CASE Become(t, [s EXCEPT !.stage = "aligned", !.user = u])
    <3>1. Become(t, [[[s EXCEPT !.stage = "aligned"] EXCEPT !.student = s.student] EXCEPT !.user = u])
      BY <2>2, Same
    <3>2. QED
      BY <1>2, <1>3, <3>1, Advancing
  <2>3. QED
    BY <1>1, <2>1, <2>2
<1>7. QED
  BY <1>1, <1>5, <1>6, TypedNow, Framed

\* The documents keep their types when they move to the ids of the rows.
LEMMA MovesTyped ==
  ASSUME RegistrationsInv, NEW e, NEW i \in Ids
  PROVE  StudentMoved(e, i) \in [Ids -> Student] /\ ReferencesMoved(e, i) \in [Ids -> User]
<1> DEFINE d == Highest(Of(studentDocs, e))
<1>1. d \in 0..MaxId /\ (d # 0 => d \in Ids)
  BY TablesTyped, HighestTyped
<1>2. studentDocs \in [Ids -> Student] /\ userDocs \in [Ids -> User] /\ i \in 0..MaxId
  BY TypedNow
<1>3. StudentMoved(e, i) \in {studentDocs, [studentDocs EXCEPT ![i] = studentDocs[d], ![d] = NoStudent]}
      /\ (StudentMoved(e, i) = studentDocs \/ d \in Ids)
  BY <1>1 DEF StudentMoved
<1>4. /\ ReferencesMoved(e, i) = userDocs
         \/ ReferencesMoved(e, i) = [v \in Ids |-> IF userDocs[v].student = d THEN [userDocs[v] EXCEPT !.student = i]
                                                   ELSE userDocs[v]]
  BY DEF ReferencesMoved
<1> HIDE DEF d
<1>5. StudentMoved(e, i) \in [Ids -> Student]
  BY <1>2, <1>3, NoneTyped
<1>6. ASSUME NEW v \in Ids PROVE [userDocs[v] EXCEPT !.student = i] \in User /\ userDocs[v] \in User
  <2>1. userDocs[v] \in User
    BY <1>2
  <2>2. QED
    BY <1>2, <2>1, FieldsTyped
<1>7. ReferencesMoved(e, i) \in [Ids -> User]
  BY <1>2, <1>4, <1>6
<1>8. QED
  BY <1>5, <1>7

LEMMA AlignedTyped ==
  ASSUME RegistrationsInv, NEW e, NEW i \in Ids, NEW u \in Ids, NEW known, StudentAligned(e, i, u, known)
  PROVE  studentDocs' \in [Ids -> Student] /\ userDocs' \in [Ids -> User]
<1>1. /\ studentDocs' \in {studentDocs, StudentMoved(e, i)}
      /\ userDocs' \in {userDocs, ReferencesMoved(e, i), [ReferencesMoved(e, i) EXCEPT ![u].student = i]}
  BY DEF StudentAligned
<1>2. StudentMoved(e, i) \in [Ids -> Student] /\ ReferencesMoved(e, i) \in [Ids -> User]
  BY MovesTyped
<1>3. ReferencesMoved(e, i)[u] \in User /\ i \in 0..MaxId
  BY <1>2, TypedNow
<1>4. [ReferencesMoved(e, i)[u] EXCEPT !.student = i] \in User
  BY <1>3, FieldsTyped
<1>5. [ReferencesMoved(e, i) EXCEPT ![u].student = i] \in [Ids -> User]
  BY <1>2, <1>4
<1>6. QED
  BY <1>1, <1>2, <1>5, TypedNow

LEMMA LinkProfileStep ==
  ASSUME RegistrationsInv, NEW t \in SignupThreads, LinkProfile(t)
  PROVE  RegistrationsInv'
<1> DEFINE s == signups[t]
           i == Highest(Of(sqlStudents, s.email))
<1>1. /\ s.stage \in {"aligned", "restored"} /\ i # 0 /\ StudentAligned(s.email, i, s.user, s.student) /\ Ended(t)
      /\ UNCHANGED <<engine, federation, sqlStudents, sqlUsers, sequence, signupCount, lostSignups>>
  BY DEF LinkProfile
<1>2. s.user \in Ids
  BY <1>1, SignupTyped DEF Reading
<1>3. i \in Ids
  BY <1>1, TablesTyped, HighestTyped
<1> HIDE DEF i
<1>4. studentDocs' \in [Ids -> Student] /\ userDocs' \in [Ids -> User]
  BY <1>1, <1>2, <1>3, AlignedTyped
<1>5. QED
  BY <1>1, <1>4, TypedNow, Ending, Framed

LEMMA FindProfileStep ==
  ASSUME RegistrationsInv, NEW t \in SignupThreads, FindProfile(t)
  PROVE  RegistrationsInv'
<1> DEFINE s == signups[t]
           source == IF s.student # 0 /\ studentDocs[s.student] # NoStudent THEN s.student
                     ELSE Highest(Of(studentDocs, s.email))
           number == studentDocs[source].number
           next == [s EXCEPT !.stage = "restore", !.source = source, !.number = number]
<1>1. /\ s.stage = "aligned"
      /\ IF source = 0 THEN Ended(t) ELSE Become(t, next)
      /\ UNCHANGED <<Others, signupCount, lostSignups>>
  BY DEF FindProfile
<1>2. s.user \in Ids /\ s \in Signup /\ s.student \in 0..MaxId
  BY <1>1, SignupTyped DEF Reading
<1>3. source \in 0..MaxId
  BY <1>2, TablesTyped
<1> HIDE DEF source
<1>4. source # 0 => source \in Ids
  BY <1>3, RegistrationConstants DEF Ids
<1>5. source # 0 => number \in 0..MaxId + 1
  <2>1. source \in Ids => studentDocs[source] \in Student
    BY TypedNow
  <2>2. QED
    BY <1>4, <2>1, FieldsTyped
<1> HIDE DEF number
<1>6. source # 0 => next \in Signup /\ next.user \in Ids
  BY <1>2, <1>3, <1>5 DEF Signup
<1> HIDE DEF next
<1>7. /\ signups' \in [SignupThreads -> Signup]
      /\ \A q \in SignupThreads : signups'[q].stage \in Reading => signups'[q].user \in Ids
  BY <1>1, <1>6, Becoming, Ending
<1>8. QED
  BY <1>1, <1>7, TypedNow, Framed DEF Others

LEMMA RestoreProfileStep ==
  ASSUME RegistrationsInv, NEW t \in SignupThreads, RestoreProfile(t)
  PROVE  RegistrationsInv'
<1> DEFINE s == signups[t]
           entry == [email |-> s.email, number |-> s.number]
<1>1. s.stage = "restore" /\ UNCHANGED <<engine, federation, sqlUsers, userDocs, signupCount, lostSignups>>
  BY DEF RestoreProfile
<1>2. PICK id \in Ids :
        /\ sqlStudents' \in {sqlStudents, [sqlStudents EXCEPT ![id] = entry]}
        /\ sequence' \in {sequence, [sequence EXCEPT !["students"] = id]}
        /\ studentDocs' \in {studentDocs, [studentDocs EXCEPT ![id] = entry]}
        /\ Ended(t) \/ Become(t, [s EXCEPT !.stage = "restored"])
  BY DEF RestoreProfile
<1>3. /\ s.email \in Emails \cup {NoEmail} /\ s.number \in 0..MaxId + 1 /\ id \in 0..MaxId
      /\ s.user \in Ids /\ s.user \in 0..MaxId /\ s.student \in 0..MaxId
  BY <1>1, SignupTyped, TypedNow DEF Reading
<1>4. entry \in Student
  BY <1>3, FieldsTyped
<1> HIDE DEF entry
<1>5. /\ sqlStudents' \in [Ids -> Student] /\ studentDocs' \in [Ids -> Student]
      /\ sequence' \in [{"students", "users"} -> 0..MaxId]
  BY <1>2, <1>3, <1>4, TypedNow
<1>6. /\ signups' \in [SignupThreads -> Signup]
      /\ \A q \in SignupThreads : signups'[q].stage \in Reading => signups'[q].user \in Ids
  <2>1. CASE Ended(t)
    BY <2>1, Ending
  <2>2. CASE Become(t, [s EXCEPT !.stage = "restored"])
    <3>1. Become(t, [[[s EXCEPT !.stage = "restored"] EXCEPT !.student = s.student] EXCEPT !.user = s.user])
      BY <2>2, Same
    <3>2. QED
      BY <1>3, <3>1, Advancing
  <2>3. QED
    BY <1>2, <2>1, <2>2
<1>7. QED
  BY <1>1, <1>5, <1>6, TypedNow, Framed

LEMMA RowEnsuredTyped ==
  ASSUME RegistrationsInv, NEW u \in Ids, NEW e \in Emails \cup {NoEmail}, NEW i \in 0..MaxId, RowEnsured(u, e, i)
  PROVE  sqlUsers' \in [Ids -> User] /\ sequence' \in [{"students", "users"} -> 0..MaxId]
<1> DEFINE rows == [sqlUsers EXCEPT ![u] = [email |-> e, student |-> i]]
           last == Highest(Filled(rows))
<1>1. /\ sqlUsers' \in {sqlUsers, rows}
      /\ sequence' \in {sequence, [sequence EXCEPT !["users"] = last]}
  BY DEF RowEnsured
<1>2. last \in 0..MaxId
  BY TablesTyped
<1>3. rows \in [Ids -> User]
  BY FieldsTyped, TypedNow
<1> HIDE DEF last, rows
<1>4. QED
  BY <1>1, <1>2, <1>3, TypedNow

LEMMA SyncRequestUserStep ==
  ASSUME RegistrationsInv, NEW u \in Ids, SyncRequestUser(u)
  PROVE  RegistrationsInv'
<1> DEFINE e == userDocs[u].email
           i == Highest(Of(sqlStudents, e))
<1>1. /\ i = 0 => UNCHANGED <<studentDocs, userDocs>>
      /\ i # 0 => StudentAligned(e, i, u, userDocs[u].student)
      /\ RowEnsured(u, e, userDocs'[u].student)
      /\ UNCHANGED <<engine, federation, sqlStudents, signups, signupCount, lostSignups>>
  BY DEF SyncRequestUser
<1>2. i # 0 => i \in Ids
  BY TablesTyped, HighestTyped
<1>3. userDocs[u] \in User
  BY TypedNow
<1>4. e \in Emails \cup {NoEmail}
  BY <1>3, FieldsTyped
<1> HIDE DEF e, i
<1>5. studentDocs' \in [Ids -> Student] /\ userDocs' \in [Ids -> User]
  BY <1>1, <1>2, TypedNow, AlignedTyped
<1>6. userDocs'[u] \in User
  BY <1>5
<1>7. userDocs'[u].student \in 0..MaxId
  BY <1>6, FieldsTyped
<1>8. sqlUsers' \in [Ids -> User] /\ sequence' \in [{"students", "users"} -> 0..MaxId]
  BY <1>1, <1>4, <1>7, RowEnsuredTyped
<1>9. QED
  BY <1>1, <1>5, <1>8, TypedNow, Framed

\* The row an account is written under is typed, and so are the rows with it.
LEMMA UpsertTyped ==
  ASSUME RegistrationsInv, NEW e \in Emails \cup {NoEmail}, NEW asked \in 0..MaxId, NEW id \in Ids,
         NEW i \in 0..MaxId
  PROVE  /\ AccountUpserted(e, id, i) => sqlUsers' \in [Ids -> User]
         /\ AccountNumbered(asked, id) => sequence' \in [{"students", "users"} -> 0..MaxId]
<1>1. [email |-> e, student |-> i] \in User
  BY FieldsTyped
<1>2. AccountUpserted(e, id, i) => sqlUsers' \in [Ids -> User]
  BY <1>1, TypedNow DEF AccountUpserted
<1>3. Highest(Filled(sqlUsers) \cup {id}) \in 0..MaxId
  BY TablesTyped, HighestTyped
<1>4. AccountNumbered(asked, id) => sequence' \in [{"students", "users"} -> 0..MaxId]
  BY <1>3, TypedNow DEF AccountNumbered
<1>5. QED
  BY <1>2, <1>4

LEMMA SignInFederatedStep ==
  ASSUME RegistrationsInv, NEW e \in Emails, SignInFederated(e)
  PROVE  RegistrationsInv'
<1> DEFINE d == Highest(Of(userDocs, e))
           link == IF d = 0 THEN 0 ELSE userDocs[d].student
           id == AccountRowId(e, d)
<1>1. /\ id \in Ids /\ signupCount < MaxSignups /\ signupCount' = signupCount + 1
      /\ userDocs' = [u \in Ids |-> IF u = id THEN [email |-> e, student |-> link]
                                    ELSE IF u = d THEN NoUser ELSE userDocs[u]]
      /\ AccountNumbered(d, id)
      /\ \/ AccountUpserted(e, id, link) /\ UNCHANGED lostSignups
         \/ /\ lostSignups < MaxLostSignups /\ lostSignups' = lostSignups + 1
            /\ UNCHANGED sqlUsers
      /\ UNCHANGED <<engine, federation, sqlStudents, studentDocs, signups>>
  BY DEF SignInFederated
<1>2. d \in 0..MaxId /\ (d # 0 => d \in Ids)
  BY TablesTyped, HighestTyped
<1>3. link \in 0..MaxId
  <2>1. d # 0 => userDocs[d] \in User
    BY <1>2, TypedNow
  <2>2. QED
    BY <1>2, <2>1, FieldsTyped
<1> HIDE DEF d, link, id
<1>4. [email |-> e, student |-> link] \in User
  BY <1>3, FieldsTyped
<1>5. userDocs' \in [Ids -> User]
  BY <1>1, <1>4, NoneTyped, TypedNow
<1>6. sequence' \in [{"students", "users"} -> 0..MaxId] /\ sqlUsers' \in [Ids -> User]
  BY <1>1, <1>2, <1>3, UpsertTyped, TypedNow
<1>7. signupCount' \in 0..MaxSignups /\ lostSignups' \in 0..MaxLostSignups
  BY <1>1, TypedNow, RegistrationConstants
<1>8. QED
  BY <1>1, <1>5, <1>6, <1>7, TypedNow, Framed

LEMMA ResetPasswordStep ==
  ASSUME RegistrationsInv, NEW u \in Ids, ResetPassword(u)
  PROVE  RegistrationsInv'
<1> DEFINE e == userDocs[u].email
           link == userDocs[u].student
           id == AccountRowId(e, u)
<1>0. id \in Ids
  <2>1. u # 0 /\ (Of(sqlUsers, e) # {} => Highest(Of(sqlUsers, e)) \in Ids)
    BY TablesTyped DEF Ids
  <2>2. QED
    BY <2>1 DEF AccountRowId
<1>1. /\ AccountNumbered(u, id) /\ AccountUpserted(e, id, link)
      /\ UNCHANGED <<engine, federation, sqlStudents, studentDocs, userDocs, signups, signupCount, lostSignups>>
  BY DEF ResetPassword
<1>2. userDocs[u] \in User /\ u \in 0..MaxId
  BY TypedNow
<1>3. e \in Emails \cup {NoEmail} /\ link \in 0..MaxId
  BY <1>2, FieldsTyped
<1> HIDE DEF e, link, id
<1>4. sequence' \in [{"students", "users"} -> 0..MaxId] /\ sqlUsers' \in [Ids -> User]
  BY <1>0, <1>1, <1>2, <1>3, UpsertTyped
<1>5. QED
  BY <1>1, <1>4, TypedNow, Framed

LEMMA SyncStudentRowStep ==
  ASSUME RegistrationsInv, NEW i \in Ids, SyncStudentRow(i)
  PROVE  RegistrationsInv'
<1> DEFINE e == sqlStudents[i].email
           docs == ReferencesMoved(e, i)
<1>1. /\ studentDocs' = [StudentMoved(e, i) EXCEPT ![i] = sqlStudents[i]]
      /\ userDocs' = [u \in Ids |-> IF docs[u].email = e /\ \A v \in Ids \ {u} : docs[v].student # i
                                    THEN [docs[u] EXCEPT !.student = i] ELSE docs[u]]
      /\ UNCHANGED <<engine, federation, sqlStudents, sqlUsers, sequence, signups, signupCount, lostSignups>>
  BY DEF SyncStudentRow
<1>2. StudentMoved(e, i) \in [Ids -> Student] /\ docs \in [Ids -> User]
  BY MovesTyped
<1> HIDE DEF docs
<1>3. studentDocs' \in [Ids -> Student]
  BY <1>1, <1>2, TypedNow
<1>4. ASSUME NEW u \in Ids PROVE [docs[u] EXCEPT !.student = i] \in User /\ docs[u] \in User
  <2>1. docs[u] \in User /\ i \in 0..MaxId
    BY <1>2, TypedNow
  <2>2. QED
    BY <2>1, FieldsTyped
<1>5. userDocs' \in [Ids -> User]
  BY <1>1, <1>4
<1>6. QED
  BY <1>1, <1>3, <1>5, TypedNow, Framed

LEMMA SyncUserRowStep ==
  ASSUME RegistrationsInv, NEW u \in Ids, SyncUserRow(u)
  PROVE  RegistrationsInv'
<1>1. PICK d :
      /\ userDocs' = [v \in Ids |-> IF v = u THEN sqlUsers[u] ELSE IF v = d THEN NoUser ELSE userDocs[v]]
      /\ UNCHANGED <<engine, federation, sqlStudents, sqlUsers, studentDocs, sequence, signups, signupCount, lostSignups>>
  BY DEF SyncUserRow
<1>2. userDocs' \in [Ids -> User]
  BY <1>1, NoneTyped, TypedNow
<1>3. QED
  BY <1>1, <1>2, TypedNow, Framed

LEMMA SetNumberStep ==
  ASSUME RegistrationsInv, NEW i \in Ids, NEW n \in 1..MaxId + 1, SetNumber(i, n)
  PROVE  RegistrationsInv'
<1>1. /\ sqlStudents' = [sqlStudents EXCEPT ![i].number = n]
      /\ studentDocs' = [studentDocs EXCEPT ![i] = sqlStudents'[i]]
      /\ UNCHANGED <<engine, federation, sqlUsers, userDocs, sequence, signups, signupCount, lostSignups>>
  BY DEF SetNumber
<1>2. sqlStudents[i] \in Student /\ n \in 0..MaxId + 1
  BY TypedNow
<1>3. [sqlStudents[i] EXCEPT !.number = n] \in Student
  BY <1>2, FieldsTyped
<1>4. sqlStudents' \in [Ids -> Student]
  BY <1>1, <1>3, TypedNow
<1>5. studentDocs' \in [Ids -> Student]
  BY <1>1, <1>4, TypedNow
<1>6. QED
  BY <1>1, <1>4, <1>5, TypedNow, Framed

LEMMA ReissueNumbersStep ==
  ASSUME RegistrationsInv, ReissueNumbers
  PROVE  RegistrationsInv'
<1> DEFINE order(i) == Cardinality({j \in Filled(sqlStudents) : j <= i})
<1>1. /\ sqlStudents' = [i \in Ids |-> IF sqlStudents[i] = NoStudent THEN NoStudent
                                       ELSE [sqlStudents[i] EXCEPT !.number = order(i)]]
      /\ UNCHANGED <<engine, federation, sqlUsers, studentDocs, userDocs, sequence, signups, signupCount, lostSignups>>
  BY DEF ReissueNumbers
<1>2. ASSUME NEW i \in Ids PROVE order(i) \in 0..MaxId + 1
  <2>1. {j \in Filled(sqlStudents) : j <= i} \in SUBSET Filled(sqlStudents)
    OBVIOUS
  <2>2. order(i) \in 0..MaxId
    BY <2>1, FilledTyped
  <2> HIDE DEF order
  <2>3. QED
    BY <2>2, TypedNow
<1> HIDE DEF order
<1>3. ASSUME NEW i \in Ids PROVE [sqlStudents[i] EXCEPT !.number = order(i)] \in Student
  <2>1. sqlStudents[i] \in Student
    BY TypedNow
  <2>2. QED
    BY <1>2, <2>1, FieldsTyped
<1>4. sqlStudents' \in [Ids -> Student]
  BY <1>1, <1>3, NoneTyped
<1>5. QED
  BY <1>1, <1>4, TypedNow, Framed

LEMMA RegistrationsInvStep == RegistrationsInv /\ [RegistrationsNext]_registrationVars => RegistrationsInv'
<1> SUFFICES ASSUME RegistrationsInv, [RegistrationsNext]_registrationVars PROVE RegistrationsInv'
  OBVIOUS
<1>1. CASE UNCHANGED registrationVars
  BY <1>1 DEF registrationVars, RegistrationsInv, RegistrationsTypeOK
<1>2. ASSUME NEW t \in SignupThreads, NEW e \in Emails, BeginSignup(t, e) PROVE RegistrationsInv'
  BY <1>2, BeginSignupStep
<1>3. ASSUME NEW t \in SignupThreads,
             WriteStudent(t) \/ WriteStudentDoc(t) \/ ReleaseLink(t) \/ WriteUserDoc(t)
             \/ CommitSignup(t) \/ LoseSignup(t)
             \/ AlignUserId(t) \/ LinkProfile(t) \/ FindProfile(t) \/ RestoreProfile(t)
      PROVE  RegistrationsInv'
  BY <1>3, WriteStudentStep, WriteStudentDocStep, ReleaseLinkStep, WriteUserDocStep, CommitSignupStep,
     LoseSignupStep, AlignUserIdStep, LinkProfileStep, FindProfileStep, RestoreProfileStep
<1>4. ASSUME NEW t \in SignupThreads, NEW u \in Ids, ReadAccount(t, u) PROVE RegistrationsInv'
  BY <1>4, ReadAccountStep
<1>5. ASSUME NEW i \in Ids, SyncRequestUser(i) \/ ResetPassword(i) \/ SyncStudentRow(i) \/ SyncUserRow(i)
      PROVE  RegistrationsInv'
  BY <1>5, SyncRequestUserStep, ResetPasswordStep, SyncStudentRowStep, SyncUserRowStep
<1>6. ASSUME NEW i \in Ids, NEW n \in 1..MaxId + 1, SetNumber(i, n) PROVE RegistrationsInv'
  BY <1>6, SetNumberStep
<1>7. ASSUME ReissueNumbers PROVE RegistrationsInv'
  BY <1>7, ReissueNumbersStep
<1>8. ASSUME NEW e \in Emails, SignInFederated(e) PROVE RegistrationsInv'
  BY <1>8, SignInFederatedStep
<1>9. QED
  BY <1>1, <1>2, <1>3, <1>4, <1>5, <1>6, <1>7, <1>8 DEF RegistrationsNext
=============================================================================
