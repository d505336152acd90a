-------------------------- MODULE StudentProfiles --------------------------
(***************************************************************************)
(* A student's profile (app/routers/attendance.py, app/academic_policy.py, *)
(* app/media_storage.py): the photo, whose bytes are in MongoDB and whose  *)
(* row and face template are in SQL, and the semester and section, which   *)
(* follow the half-year terms.                                             *)
(*                                                                         *)
(* The campus is ahead of UTC: in the first night of a term the campus     *)
(* has begun it and UTC has not.                                           *)
(***************************************************************************)
EXTENDS Naturals

CONSTANTS
  Uploaders,       \* requests that upload a photo
  MaxPhotos,       \* bound: photos uploaded
  FirstSemester,
  LastSemester,    \* semesters end here (12)
  MaxTerms,        \* bound: terms that begin
  MaxHasty         \* bound: changes of section after a promotion of the same night
ASSUME ProfileAssumption ==
  /\ MaxPhotos \in Nat /\ FirstSemester \in Nat /\ LastSemester \in Nat /\ MaxTerms \in Nat
  /\ MaxHasty \in Nat /\ FirstSemester <= LastSemester

VARIABLES
  student,    \* the students row
  taught,     \* the section of the student's teacher (faculty.section)
  objects,    \* media_objects row and MongoDB blob of each photo
  upload,     \* a request that uploads a photo
  calendar,      \* the term on campus, and whether it is its first night
  spoilt,     \* photos whose blob a failed request marked deleted
  hasty       \* section changes by staff in a first night

profileVars == <<student, taught, objects, upload, calendar, spoilt, hasty>>

Photos == 1..MaxPhotos
NoPhoto == 0
\* Staff type a section in; the policy names one after semester and term.
StaffSection == <<0, 0>>
PolicySection(semester, term) == <<semester, term>>
SectionNames == (0..LastSemester) \X (0..MaxTerms)

StudentRow == [semester : 0..LastSemester, marker : 0..MaxTerms, section : SectionNames,
               photo : {NoPhoto} \cup Photos, template : {NoPhoto} \cup Photos, locked : BOOLEAN]
Upload == [pc : {"idle", "stored", "marked"}, photo : {NoPhoto} \cup Photos,
           previous : {NoPhoto} \cup Photos]
NoUpload == [pc |-> "idle", photo |-> NoPhoto, previous |-> NoPhoto]
ProfileTypeOK ==
  /\ student \in StudentRow
  /\ taught \in SectionNames
  /\ objects \in [Photos -> [row : {"none", "kept", "deleted"}, blob : {"none", "kept", "deleted"}]]
  /\ upload \in [Uploaders -> Upload]
  /\ calendar \in [term : 0..MaxTerms, night : BOOLEAN]
  /\ spoilt \subseteq Photos
  /\ hasty \in 0..MaxHasty

ProfileInit ==
  /\ student = [semester |-> FirstSemester, marker |-> 0, section |-> PolicySection(FirstSemester, 0),
                photo |-> NoPhoto, template |-> NoPhoto, locked |-> FALSE]
  /\ taught = StaffSection
  /\ objects = [k \in Photos |-> [row |-> "none", blob |-> "none"]]
  /\ upload = [t \in Uploaders |-> NoUpload]
  /\ calendar = [term |-> 0, night |-> FALSE]
  /\ spoilt = {} /\ hasty = 0

(***************************************************************************)
(* Terms and sections                                                      *)
(***************************************************************************)

NextTerm ==
  /\ calendar.term < MaxTerms /\ ~calendar.night
  /\ calendar' = [term |-> calendar.term + 1, night |-> TRUE]
  /\ UNCHANGED <<student, taught, objects, upload, spoilt, hasty>>

Dawn ==
  /\ calendar.night
  /\ calendar' = [calendar EXCEPT !.night = FALSE]
  /\ UNCHANGED <<student, taught, objects, upload, spoilt, hasty>>

UtcTerm == IF calendar.night THEN calendar.term - 1 ELSE calendar.term

\* terms_elapsed
TermsElapsed(marker, term) == IF term > marker THEN term - marker ELSE 0

\* Variant: the date is kept where the section was already the policy's.
Synced_Undated(s) ==
  LET semester == s.semester + TermsElapsed(s.marker, calendar.term)
      bounded  == IF semester > LastSemester THEN LastSemester ELSE semester
  IN  [s EXCEPT !.semester = bounded, !.section = PolicySection(bounded, calendar.term)]

\* assign_student_section, by the campus's date: the semester rises by the
\* terms since the date of the section, and the section is the policy's.
Synced(s) ==
  LET elapsed  == TermsElapsed(s.marker, calendar.term)
      semester == IF s.semester + elapsed > LastSemester THEN LastSemester ELSE s.semester + elapsed
  IN  IF elapsed = 0 /\ s.section = PolicySection(semester, calendar.term) THEN s
      ELSE [s EXCEPT !.semester = semester, !.section = PolicySection(semester, calendar.term),
                     !.marker = calendar.term]

\* The row's lock is held from the flush that marks the photo before.
RowIsFree == \A t \in Uploaders : upload[t].pc = "marked" => upload[t].previous = NoPhoto

\* get_student_weekly_timetable and the marking handler bring the term up to date.
SyncTerm ==
  /\ RowIsFree
  /\ student' = Synced(student)
  /\ UNCHANGED <<taught, objects, upload, calendar, spoilt, hasty>>

\* get_student_profile: the teachers of the student take the section over.
ReadProfile ==
  /\ RowIsFree
  /\ student' = Synced(student)
  /\ taught' = Synced(student).section
  /\ UNCHANGED <<objects, upload, calendar, spoilt, hasty>>

\* faculty_update_student_section, by UTC's date: an admin may give any
\* section, a teacher their own.
ChangeSection(section) ==
  /\ RowIsFree
  /\ section \in {StaffSection, taught} /\ section # student.section
  /\ student' = [student EXCEPT !.section = section, !.marker = UtcTerm]
  /\ hasty' = IF calendar.night /\ student.marker = calendar.term THEN hasty + 1 ELSE hasty
  /\ hasty' <= MaxHasty
  /\ UNCHANGED <<taught, objects, upload, calendar, spoilt>>

(***************************************************************************)
(* Photos                                                                  *)
(***************************************************************************)

\* The lock of fourteen days runs out (_photo_lock_state).
UnlockPhoto ==
  /\ student.locked
  /\ student' = [student EXCEPT !.locked = FALSE]
  /\ UNCHANGED <<taught, objects, upload, calendar, spoilt, hasty>>

\* _apply_student_profile_update, store_data_url_object: the lock is looked
\* at, and the new photo's blob written at once.
StorePhoto(t, k) ==
  /\ upload[t].pc = "idle"
  /\ student.photo # NoPhoto => ~student.locked
  /\ objects[k].blob = "none" /\ \A j \in 1..(k - 1) : objects[j].blob # "none"
  /\ objects' = [objects EXCEPT ![k].blob = "kept"]
  /\ upload' = [upload EXCEPT ![t] = [pc |-> "stored", photo |-> k, previous |-> student.photo]]
  /\ UNCHANGED <<student, taught, calendar, spoilt, hasty>>

\* mark_media_deleted: the flush takes the rows' locks, then the blob of the
\* photo before is marked deleted in MongoDB.
MarkPrevious(t) ==
  LET previous == upload[t].previous
  IN  /\ upload[t].pc = "stored"
      /\ previous # NoPhoto => RowIsFree
      /\ objects' = [k \in Photos |-> IF k = previous THEN [objects[k] EXCEPT !.blob = "deleted"]
                                      ELSE objects[k]]
      /\ upload' = [upload EXCEPT ![t].pc = "marked"]
      /\ UNCHANGED <<student, taught, calendar, spoilt, hasty>>

\* Variant: a template is made only where there is none.
TemplateOf_Missing(s, k) == IF s.template = NoPhoto THEN k ELSE s.template

\* _rebuild_profile_face_template
TemplateOf(s, k) == k

CommitPhoto(t) ==
  LET k == upload[t].photo
      previous == upload[t].previous
  IN  /\ upload[t].pc = "marked"
      /\ previous = NoPhoto => RowIsFree
      /\ student' = [student EXCEPT !.photo = k, !.template = TemplateOf(student, k), !.locked = TRUE]
      /\ objects' = [j \in Photos |-> CASE j = k        -> [objects[j] EXCEPT !.row = "kept"]
                                        [] j = previous -> [objects[j] EXCEPT !.row = "deleted"]
                                        [] OTHER        -> objects[j]]
      /\ upload' = [upload EXCEPT ![t] = NoUpload]
      /\ UNCHANGED <<taught, calendar, spoilt, hasty>>

\* There is no face in the photo, a store fails, or the process dies: the
\* transaction is rolled back, and MongoDB keeps what it was told.
LosePhoto(t) ==
  /\ upload[t].pc \in {"stored", "marked"}
  /\ upload' = [upload EXCEPT ![t] = NoUpload]
  /\ spoilt' = IF upload[t].pc = "marked" /\ upload[t].previous # NoPhoto
               THEN spoilt \cup {upload[t].previous} ELSE spoilt
  /\ UNCHANGED <<student, taught, objects, calendar, hasty>>

\* open_media_bytes: a photo is read where neither store calls it deleted.
Opens(k) == objects[k].row = "kept" /\ objects[k].blob = "kept"

ProfileNext ==
  \/ NextTerm \/ Dawn \/ SyncTerm \/ ReadProfile \/ UnlockPhoto
  \/ \E section \in SectionNames : ChangeSection(section)
  \/ \E t \in Uploaders :
       \/ \E k \in Photos : StorePhoto(t, k)
       \/ MarkPrevious(t) \/ CommitPhoto(t) \/ LosePhoto(t)

(***************************************************************************)
(* Properties                                                              *)
(***************************************************************************)

\* However uploads overlap, a student's photo can be read from both stores and
\* the face template is the photo's, except where a request that failed, or has
\* not ended, marked this very photo deleted in MongoDB (mark_media_deleted).
PhotoIsWhole ==
  LET k == student.photo
  IN  k # NoPhoto => /\ student.template = k
                     /\ \/ Opens(k)
                        \/ k \in spoilt
                        \/ \E t \in Uploaders : upload[t].pc = "marked" /\ upload[t].previous = k

\* A student is promoted once per term and no more, but for the changes of
\* section that staff make in the first night of a term after the promotion:
\* each dates the section back and lets the next read promote again.
PromotedOncePerTerm == student.semester <= FirstSemester + calendar.term + hasty
=============================================================================
