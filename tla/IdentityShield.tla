--------------------------- MODULE IdentityShield ---------------------------
(***************************************************************************)
(* The identity shield (app/identity_shield.py): a student's stored faces, *)
(* account and devices are screened after a change of photo or enrolment   *)
(* video, and an applicant when registering; each screening adds a case.   *)
(*                                                                         *)
(* Templates are the numbers of the uploads they were made of.             *)
(***************************************************************************)
EXTENDS Naturals, FiniteSets
LOCAL INSTANCE FiniteSetsExt

CONSTANTS
  Screeners,      \* requests at a time
  Persons,        \* users with a student each; 1 is the student looked at
  FirstDevice,    \* persons the device is linked to at first
  Likeness,       \* Likeness[p][v]: photo p and video v "differ", are "near" or the "same"
  Applicants,     \* applications that are assessed
  ParentStudents, \* students with the same parent address
  FirstAccounts,  \* what the student's account may be
  MaxFaces,       \* bound: photos taken
  MaxVideos,      \* bound: videos taken
  MaxSessions     \* bound: sessions observed on the device
ASSUME ShieldAssumption ==
  /\ FirstAccounts \subseteq {"none", "inactive", "active"}
  /\ 1 \in Persons /\ FirstDevice \subseteq Persons /\ ParentStudents \in Nat /\ MaxFaces \in Nat /\ MaxVideos \in Nat
  /\ MaxSessions \in Nat
  /\ \A p \in 1..MaxFaces, v \in 1..MaxVideos : Likeness[p][v] \in {"differ", "near", "same"}
  /\ Applicants \subseteq
       [known : BOOLEAN, numbered : BOOLEAN, parents : Nat, document : {"none", "low", "near", "good"},
        face : {"none", "low", "near", "good"}, live : {"none", "failed", "passed"}, doubts : Nat,
        onDevice : BOOLEAN]

VARIABLES
  faces,        \* photo and video of the student, 0 for none
  accountOf,    \* the student's auth_users row: "none", "inactive" or "active"
  device,       \* identity_device_profiles of one device: its persons
  sessionsSeen, \* sessions observed on it
  screener,     \* a request: what it found and read
  cases,        \* identity_verification_cases of the student
  applied,      \* status of the last applicant's case
  unscreened    \* a screening failed, or was left out for a video not yet seen

shieldVars == <<faces, accountOf, device, sessionsSeen, screener, cases, applied, unscreened>>

Statuses == {"verified", "in_review", "flagged"}
PhotoNumbers == 0..MaxFaces
VideoNumbers == 0..MaxVideos
Idle == [pc |-> "idle", hadVideo |-> FALSE, photo |-> 0, video |-> 0, status |-> "verified"]

ShieldTypeOK ==
  /\ faces \in [photo : PhotoNumbers, video : VideoNumbers]
  /\ accountOf \in {"none", "inactive", "active"}
  /\ device \subseteq Persons /\ sessionsSeen \in 0..MaxSessions
  /\ screener \in [Screeners -> [pc : {"idle", "photo", "screen", "read"}, hadVideo : BOOLEAN,
                                 photo : PhotoNumbers, video : VideoNumbers, status : Statuses]]
  /\ cases \subseteq [photo : PhotoNumbers, video : VideoNumbers, status : Statuses]
  /\ applied \in Statuses \cup {"none"}
  /\ unscreened \in BOOLEAN

ShieldInit ==
  /\ faces = [photo |-> 0, video |-> 0]
  /\ accountOf \in FirstAccounts
  /\ device = FirstDevice /\ sessionsSeen = 0
  /\ screener = [t \in Screeners |-> Idle]
  /\ cases = {} /\ applied = "none" /\ unscreened = FALSE

(***************************************************************************)
(* Signals and their score                                                 *)
(***************************************************************************)

\* _append_signal
Signal(type, delta) == [type |-> type, delta |-> delta, blocking |-> FALSE]
Blocking(type, delta) == [type |-> type, delta |-> delta, blocking |-> TRUE]
When(holds, signal) == IF holds THEN {signal} ELSE {}
Least(a, b) == IF a < b THEN a ELSE b

\* _status_for_risk
StatusFor(signals) ==
  LET score == MapThenSumSet(LAMBDA s : s.delta, signals)
  IN  IF score >= 50 \/ \E s \in signals : s.blocking THEN "flagged"
      ELSE IF score >= 20 THEN "in_review" ELSE "verified"

\* build_subject_identity_graph: the device is the student's and somebody else's.
SharedDevices == IF 1 \in device /\ Cardinality(device) > 1 THEN 1 ELSE 0

\* run_student_enrollment_screening (students have numbers from the start)
StudentSignals(p, v) ==
  UNION {When(p = 0, Blocking("no_face", 32)),
         When(v = 0, Blocking("no_video", 40)),
         When(accountOf = "none", Signal("no_account", 16)),
         When(accountOf = "inactive", Signal("inactive", 20)),
         When(ParentStudents >= 3, Signal("parent", 18)),
         When(p # 0 /\ v # 0 /\ Likeness[p][v] = "differ", Blocking("mismatch", 45)),
         When(p # 0 /\ v # 0 /\ Likeness[p][v] = "near", Signal("near", 18)),
         When(SharedDevices > 0, Signal("device", Least(30, 12 * SharedDevices)))}

\* assess_applicant_risk; a check that was not made is asked for and adds nothing.
ApplicantSignals(a) ==
  UNION {When(a.known, Signal("known", 24)),
         When(~a.numbered, Signal("no_number", 10)),
         When(a.parents >= 3, Signal("parent", 14)),
         When(a.document = "low", Blocking("document", 38)),
         When(a.document = "near", Signal("document", 16)),
         When(a.face = "low", Blocking("face", 40)),
         When(a.face = "near", Signal("face", 18)),
         When(a.live = "failed", Blocking("live", 45)),
         When(a.doubts > 0, Signal("doubts", Least(25, 8 * a.doubts))),
         When(a.onDevice /\ device # {}, Signal("device", Least(28, 20 * Cardinality(device))))}

(***************************************************************************)
(* Operations                                                              *)
(***************************************************************************)

\* observe_identity_session: a person signs in on the device.
ObserveSession(person) ==
  /\ sessionsSeen < MaxSessions
  /\ sessionsSeen' = sessionsSeen + 1
  /\ device' = device \cup {person}
  /\ UNCHANGED <<faces, accountOf, screener, cases, applied, unscreened>>

\* update_student_profile(_photo): whether there is a video is read at the start.
BeginPhoto(t) ==
  /\ screener[t].pc = "idle" /\ faces.photo < MaxFaces
  /\ screener' = [screener EXCEPT ![t] = [Idle EXCEPT !.pc = "photo", !.hadVideo = faces.video # 0]]
  /\ UNCHANGED <<faces, accountOf, device, sessionsSeen, cases, applied, unscreened>>

\* Variant: a new photo is not screened.
ScreensPhoto_Never(hadVideo) == FALSE

ScreensPhoto(hadVideo) == hadVideo

SavePhoto(t) ==
  /\ screener[t].pc = "photo" /\ faces.photo < MaxFaces
  /\ faces' = [faces EXCEPT !.photo = @ + 1]
  /\ screener' = [screener EXCEPT ![t] =
                    IF ScreensPhoto(screener[t].hadVideo) THEN [Idle EXCEPT !.pc = "screen"] ELSE Idle]
  /\ unscreened' = (unscreened \/ (~screener[t].hadVideo /\ faces.video # 0))
  /\ UNCHANGED <<accountOf, device, sessionsSeen, cases, applied>>

\* update_student_enrollment_video
SaveVideo(t) ==
  /\ screener[t].pc = "idle"
  /\ faces.photo # 0 /\ faces.video < MaxVideos
  /\ faces' = [faces EXCEPT !.video = @ + 1]
  /\ screener' = [screener EXCEPT ![t] = [Idle EXCEPT !.pc = "screen"]]
  /\ UNCHANGED <<accountOf, device, sessionsSeen, cases, applied, unscreened>>

\* run_enrollment_identity_screening: staff ask for a screening.
AskScreening(t) ==
  /\ screener[t].pc = "idle"
  /\ screener' = [screener EXCEPT ![t] = [Idle EXCEPT !.pc = "screen"]]
  /\ UNCHANGED <<faces, accountOf, device, sessionsSeen, cases, applied, unscreened>>

\* run_student_enrollment_screening reads the student, the account and the graph.
ReadSubject(t) ==
  /\ screener[t].pc = "screen"
  /\ screener' = [screener EXCEPT ![t] =
       [Idle EXCEPT !.pc = "read", !.photo = faces.photo, !.video = faces.video,
                    !.status = StatusFor(StudentSignals(faces.photo, faces.video))]]
  /\ UNCHANGED <<faces, accountOf, device, sessionsSeen, cases, applied, unscreened>>

\* _persist_case_and_signals
PersistCase(t) ==
  LET s == screener[t]
  IN  /\ s.pc = "read"
      /\ cases' = cases \cup {[photo |-> s.photo, video |-> s.video, status |-> s.status]}
      /\ screener' = [screener EXCEPT ![t] = Idle]
      /\ UNCHANGED <<faces, accountOf, device, sessionsSeen, applied, unscreened>>

\* _maybe_run_identity_screening_for_student: a failure is logged and dropped.
LoseScreening(t) ==
  /\ screener[t].pc \in {"screen", "read"}
  /\ screener' = [screener EXCEPT ![t] = Idle]
  /\ unscreened' = TRUE
  /\ UNCHANGED <<faces, accountOf, device, sessionsSeen, cases, applied>>

Assess(a) ==
  /\ applied = "none"
  /\ applied' = StatusFor(ApplicantSignals(a))
  /\ UNCHANGED <<faces, accountOf, device, sessionsSeen, screener, cases, unscreened>>

ShieldNext ==
  \/ \E person \in Persons : ObserveSession(person)
  \/ \E a \in Applicants : Assess(a)
  \/ \E t \in Screeners :
       \/ BeginPhoto(t) \/ SavePhoto(t) \/ SaveVideo(t) \/ AskScreening(t)
       \/ ReadSubject(t) \/ PersistCase(t) \/ LoseScreening(t)

(***************************************************************************)
(* Properties                                                              *)
(***************************************************************************)

\* Once no request is under way, the faces a student has now were screened
\* together, however changes of the photo and of the video overlapped, unless
\* a screening failed or a photo's request began before the first video; and
\* nobody was verified whose photo and video differ (update_student_profile,
\* run_student_enrollment_screening).
FacesAreScreened ==
  /\ (/\ \A t \in Screeners : screener[t].pc = "idle"
      /\ faces.video # 0 /\ ~unscreened)
     => \E c \in cases : c.photo = faces.photo /\ c.video = faces.video
  /\ \A c \in cases : c.status = "verified" =>
       c.photo # 0 /\ c.video # 0 /\ Likeness[c.photo][c.video] # "differ"
=============================================================================
