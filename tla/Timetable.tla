----------------------------- MODULE Timetable -----------------------------
(***************************************************************************)
(* The weekly timetable (routers/attendance.py, routers/people.py): classes *)
(* of courses, overrides for one student or a section, and what the student *)
(* is shown of them and of the attendance they stand for.                   *)
(*                                                                         *)
(* One student.  A class is the row <<course, weekday, start>>; two rows    *)
(* with one such key cannot exist.  A row may be created inactive, and no   *)
(* request deactivates one.                                                 *)
(***************************************************************************)
EXTENDS Integers, SequencesExt, FiniteSetsExt

CONSTANTS
  Courses, Rooms, FacultyOf,
  WeekDays,       \* a week has the days 0..(WeekDays - 1)
  Starts, LastEnd,
  FirstRows,   \* the classes before any request: end of each row, or 0
  FirstEnrolled, FirstRooms,
  Sections,
  LastDate,       \* the dates are 1..LastDate
  MaxEdits, MaxAttendances

ASSUME TimetableAssumption ==
  /\ {WeekDays, LastDate, LastEnd} \subseteq Nat \ {0} /\ IsFiniteSet(Courses)
  /\ Starts \subseteq 1..(LastEnd - 1)
  /\ FirstRows \in [Courses \X (0..(WeekDays - 1)) \X Starts -> 0..LastEnd]
  /\ FirstRooms \in [Courses -> Rooms \cup {"none"}]
  /\ FirstEnrolled \subseteq Courses /\ "none" \notin Rooms

VARIABLES
  endOf,      \* class_schedules: the end of each row, 0 if there is none
  dormant,    \* its inactive rows
  overrides,  \* timetable_overrides in the order they were created
  roomOf,     \* course_classrooms
  taken,      \* courses the student is enrolled in
  section,
  clock,      \* date and time
  submitted,  \* attendance_submissions of the student: credited or not
  recorded,   \* attendance_records of the student: present or not
  edits, marks

timetableVars == <<endOf, dormant, overrides, roomOf, taken, section, clock, submitted,
                   recorded, edits, marks>>

ClassKeys == Courses \X (0..(WeekDays - 1)) \X Starts
CourseOf(k) == k[1]
SlotOf(k) == <<k[2], k[3]>>
WeekSlots == (0..(WeekDays - 1)) \X Starts
NoRoom == "none"
Dates == 1..LastDate
Weekday(d) == d % WeekDays

Override == [scope : {"student"} \cup Sections, source : WeekSlots, target : ClassKeys,
             active : BOOLEAN]
TimetableTypeOK ==
  /\ endOf \in [ClassKeys -> 0..LastEnd] /\ dormant \subseteq ClassKeys
  /\ overrides \in Seq(Override)
  /\ roomOf \in [Courses -> Rooms \cup {NoRoom}]
  /\ taken \subseteq Courses /\ section \in Sections
  /\ clock \in Dates \X (0..(LastEnd - 1))
  /\ DOMAIN submitted \subseteq ClassKeys \X Dates
  /\ DOMAIN recorded \subseteq Courses \X Dates

TimetableInit ==
  /\ endOf = FirstRows /\ dormant = {} /\ overrides = <<>>
  /\ roomOf = FirstRooms
  /\ taken = FirstEnrolled /\ section \in Sections
  /\ clock = <<1, 0>>
  /\ submitted = <<>> /\ recorded = <<>>
  /\ edits = 0 /\ marks = 0

(***************************************************************************)
(* The timetable of the student                                            *)
(***************************************************************************)

AllRows == {k \in ClassKeys : endOf[k] # 0}
ClassRows == AllRows \ dormant

\* The overrides of the student and of his section: the section's take effect first.
Applicable == {i \in DOMAIN overrides : overrides[i].active /\ overrides[i].scope \in {section, "student"}}
Place(i) == IF overrides[i].scope = "student" THEN Len(overrides) + i ELSE i
Sourced(slot) == {i \in Applicable : overrides[i].source = slot}
LatestOf(slot) == CHOOSE i \in Sourced(slot) : \A j \in Sourced(slot) : Place(j) <= Place(i)

\* The class that takes the place of each overridden slot: the latest override's.
Moves == [slot \in {overrides[i].source : i \in Applicable} |-> overrides[LatestOf(slot)].target]

\* The dictionary keeps a slot where its first override put it.
FirstPlace(slot) == Min({Place(i) : i \in Sourced(slot)})

\* Of two classes moved to one slot, that of the later place.
Arriving(moves) ==
  {moves[s] : s \in {x \in DOMAIN moves : \A y \in DOMAIN moves :
     SlotOf(moves[y]) = SlotOf(moves[x]) => FirstPlace(y) <= FirstPlace(x)}}

\* An override frees the slot of its source and takes that of its target.
Overridden(moves) == DOMAIN moves \cup {SlotOf(t) : t \in Range(moves)}

Effective(courses) ==
  LET moves == Moves
      arriving == Arriving(moves)
      gone == Overridden(moves)
  IN  {k \in ClassRows \cup arriving :
         CourseOf(k) \in courses /\ (SlotOf(k) \notin gone \/ k \in arriving)}

\* The class a student may mark: his own, if its slot is not overridden, or a target.
MayMark(k) ==
  LET moves == Moves
      suppressed == SlotOf(k) \in DOMAIN moves /\ moves[SlotOf(k)] # k
  IN  (CourseOf(k) \in taken /\ ~suppressed) \/ k \in Range(moves)

(***************************************************************************)
(* Classes, rooms and overrides                                            *)
(***************************************************************************)

Overlap(k, end, l) == k[2] = l[2] /\ k[3] < endOf[l] /\ l[3] < end

SameRoom(c, d) == roomOf[c] # NoRoom /\ roomOf[c] = roomOf[d]
Clashes(k, end) == \E l \in ClassRows :
  /\ Overlap(k, end, l)
  /\ FacultyOf[CourseOf(k)] = FacultyOf[CourseOf(l)] \/ SameRoom(CourseOf(k), CourseOf(l))

Edit == edits < MaxEdits /\ edits' = edits + 1
\* The faculty is the course's and the course has a room.
CreateSchedule == \E k \in ClassKeys \ AllRows, end \in 1..LastEnd, active \in BOOLEAN :
  /\ Edit
  /\ k[3] < end
  /\ roomOf[CourseOf(k)] # NoRoom /\ ~Clashes(k, end)
  /\ endOf' = [endOf EXCEPT ![k] = end]
  /\ dormant' = IF active THEN dormant ELSE dormant \cup {k}
  /\ UNCHANGED <<overrides, roomOf, taken, section, clock, submitted, recorded, marks>>

\* An existing row must end as the request says, and becomes active whatever it clashes
\* with; a new one must not clash.
Resolvable(k, end) ==
  IF k \in AllRows THEN endOf[k] = end ELSE k[3] < end /\ ~Clashes(k, end)

PlaceOf(o) ==
  LET same == {i \in DOMAIN overrides : overrides[i].scope = o.scope /\ overrides[i].source = o.source}
  IN  IF same = {} THEN Len(overrides) + 1 ELSE Max(same)

\* Every section has students, and the label that a course without a room needs may be given.
\* One that is added inactive only adds its class, which is left to CreateSchedule.
UpsertOverride == \E o \in Override, end \in 1..LastEnd :
  /\ Edit
  /\ o.active \/ PlaceOf(o) \in DOMAIN overrides
  /\ Resolvable(o.target, end)
  /\ endOf' = [endOf EXCEPT ![o.target] = end]
  /\ dormant' = dormant \ {o.target}
  /\ overrides' = [i \in DOMAIN overrides \cup {PlaceOf(o)} |->
                     IF i = PlaceOf(o) THEN o ELSE overrides[i]]
  /\ UNCHANGED <<roomOf, taken, section, clock, submitted, recorded, marks>>

\* Neither the classes of the course nor those of the room are looked at.
AssignCourseClassroom == \E c \in Courses, r \in Rooms :
  /\ Edit /\ roomOf[c] # r
  /\ roomOf' = [roomOf EXCEPT ![c] = r]
  /\ UNCHANGED <<endOf, dormant, overrides, taken, section, clock, submitted, recorded, marks>>

EnrollStudent == \E c \in Courses \ taken :
  /\ Edit
  /\ taken' = taken \cup {c}
  /\ UNCHANGED <<endOf, dormant, overrides, roomOf, section, clock, submitted, recorded, marks>>

\* The academic policy or a faculty member moves the student.
SectionChanges == \E s \in Sections \ {section} :
  /\ Edit
  /\ section' = s
  /\ UNCHANGED <<endOf, dormant, overrides, roomOf, taken, clock, submitted, recorded, marks>>

(***************************************************************************)
(* Attendance                                                              *)
(***************************************************************************)

Set(f, x, v) == [y \in DOMAIN f \cup {x} |-> IF y = x THEN v ELSE f[y]]

\* A class is open while it starts.  What is not credited may be sent again.
MarkAttendance == \E k \in ClassRows, credited \in BOOLEAN :
  /\ marks < MaxAttendances /\ marks' = marks + 1
  /\ Weekday(clock[1]) = k[2] /\ clock[2] = k[3] /\ MayMark(k)
  /\ <<k, clock[1]>> \in DOMAIN submitted => ~submitted[<<k, clock[1]>>]
  /\ submitted' = Set(submitted, <<k, clock[1]>>, credited)
  /\ recorded' = IF credited THEN Set(recorded, <<CourseOf(k), clock[1]>>, TRUE) ELSE recorded
  /\ UNCHANGED <<endOf, dormant, overrides, roomOf, taken, section, clock, edits>>

\* The course must have students.  A record for a day to come counts when it has come.
FacultyMarksDay == \E c \in taken, d \in 1..clock[1], present \in BOOLEAN :
  /\ marks < MaxAttendances /\ marks' = marks + 1
  /\ recorded' = Set(recorded, <<c, d>>, present)
  /\ UNCHANGED <<endOf, dormant, overrides, roomOf, taken, section, clock, submitted, edits>>

Hour ==
  /\ clock' \in IF clock[2] < LastEnd - 1 THEN {<<clock[1], clock[2] + 1>>}
                ELSE {<<d, 0>> : d \in Dates \cap {clock[1] + 1}}
  /\ UNCHANGED <<endOf, dormant, overrides, roomOf, taken, section, submitted, recorded, edits, marks>>

(***************************************************************************)
(* Pages                                                                   *)
(***************************************************************************)

\* Courses with an enrolment, a submission or a record up to today.
Involved ==
  taken \cup {CourseOf(x[1]) : x \in {y \in DOMAIN submitted : y[2] <= clock[1]}}
        \cup {x[1] : x \in {y \in DOMAIN recorded : y[2] <= clock[1]}}

Started(k, d) == d < clock[1] \/ (d = clock[1] /\ clock[2] >= k[3])
HeldOn(k, d) == Weekday(d) = k[2] /\ Started(k, d)

\* _build_timetable_class_item: a record stands for a class only if it is the course's only
\* one of the day.
Shown(k, d) ==
  IF <<k, d>> \in DOMAIN submitted THEN {submitted[<<k, d>>]}
  ELSE IF <<CourseOf(k), d>> \in DOMAIN recorded
            /\ {l \in ClassRows : CourseOf(l) = CourseOf(k) /\ l[2] = k[2]} = {k}
       THEN {recorded[<<CourseOf(k), d>>]} ELSE {}

\* The items of the history: class or none, course, date, present.
Entry(k, c, d, present) == [class |-> k, course |-> c, date |-> d, present |-> present]
Past(f) == {x \in DOMAIN f : x[2] <= clock[1]}

FromSubmissions == {Entry(<<x[1]>>, CourseOf(x[1]), x[2], submitted[x]) : x \in Past(submitted)}

\* A record is shown for the only class of its day, or for no class if nothing was sent.
FromRecord(x, effective) ==
  LET held == {k \in effective : CourseOf(k) = x[1] /\ HeldOn(k, x[2])}
      sent == {y \in Past(submitted) : CourseOf(y[1]) = x[1] /\ y[2] = x[2]}
  IN  IF Cardinality(held) = 1 /\ (held \X {x[2]}) \cap Past(submitted) = {}
      THEN {Entry(<<k>>, x[1], x[2], recorded[x]) : k \in held}
      ELSE IF sent = {} THEN {Entry(<<>>, x[1], x[2], recorded[x])} ELSE {}

\* Every class held that no entry is about was missed.
History(effective) ==
  LET listed == FromSubmissions \cup UNION {FromRecord(x, effective) : x \in Past(recorded)}
      about == {<<i.class, i.date>> : i \in listed}
      missed == {x \in effective \X Dates : HeldOn(x[1], x[2]) /\ <<(<<x[1]>>), x[2]>> \notin about}
  IN  listed \cup {Entry(<<x[1]>>, CourseOf(x[1]), x[2], FALSE) : x \in missed}

\* Mutant: today's class counts before it has begun.
CountDelivered_Early(k) ==
  LET first == Min({d \in 1..WeekDays : Weekday(d) = k[2]})
  IN  IF first > clock[1] THEN 0 ELSE ((clock[1] - first) \div WeekDays) + 1

\* One a week since the first; today's only once it has begun.
CountDelivered(k) ==
  LET first == Min({d \in 1..WeekDays : Weekday(d) = k[2]})
      weeks == ((clock[1] - first) \div WeekDays) + 1
  IN  IF first > clock[1] THEN 0
      ELSE IF Weekday(clock[1]) = k[2] /\ clock[2] < k[3] THEN weeks - 1 ELSE weeks

SubmittedIn(c) == {x \in Past(submitted) : CourseOf(x[1]) = c}
RecordedIn(c) == {x \in Past(recorded) : x[1] = c}

\* Classes a record stands for in the aggregate.
Fallback(x, effective) ==
  LET held == {k \in effective : CourseOf(k) = x[1] /\ HeldOn(k, x[2])}
      sent == {y[1] : y \in {z \in SubmittedIn(x[1]) : z[2] = x[2]}}
  IN  IF held = {} /\ sent = {} THEN 1
      ELSE IF Cardinality(held) <= 1 THEN Cardinality(held \ sent) ELSE 0
Fallbacks(records, effective) ==
  Cardinality(UNION {{x} \X (1..Fallback(x, effective)) : x \in records})

Delivered(c, effective) ==
  LET held == Cardinality(UNION {{k} \X (1..CountDelivered(k)) :
                                   k \in {l \in effective : CourseOf(l) = c}})
  IN  Max({held, Cardinality(RecordedIn(c)),
           Cardinality(SubmittedIn(c)) + Fallbacks(RecordedIn(c), effective)})

Attended(c, effective) ==
  LET present == Cardinality({x \in SubmittedIn(c) : submitted[x]})
                   + Fallbacks({x \in RecordedIn(c) : recorded[x]}, effective)
  IN  Min({present, Delivered(c, effective)})

(***************************************************************************)
(* What the copilot answers (routers/copilot.py)                           *)
(***************************************************************************)

\* The latest override of each slot, the section's or the student's.
CopilotMoves == [slot \in DOMAIN Moves |-> overrides[Max(Sourced(slot))].target]

Today(k) == k[2] = Weekday(clock[1])

\* Mutant: a class that took a slot is listed nowhere.
CopilotList_Lost ==
  LET moves == CopilotMoves
  IN  {<<k, SlotOf(k)>> : k \in {l \in ClassRows \ Range(moves) :
         Today(l) /\ CourseOf(l) \in taken /\ SlotOf(l) \notin DOMAIN moves}}

\* Today's classes: those whose slot is not overridden, and every override's target, once
\* for each slot it took.
CopilotList ==
  LET moves == CopilotMoves
  IN  {<<k, SlotOf(k)>> : k \in {l \in ClassRows \ Range(moves) :
         Today(l) /\ CourseOf(l) \in taken /\ SlotOf(l) \notin DOMAIN moves}}
        \cup {<<moves[s], s>> : s \in {x \in DOMAIN moves : Today(moves[x])}}

OpenNow(k) == clock[2] = k[3]
Running(k) == k[3] <= clock[2] /\ clock[2] < endOf[k]

\* The class a question means: the only one open, else the only one running, else the only
\* one of the day; naming a course narrows the list.
Picked(courses) ==
  LET day == {x \in CopilotList : CourseOf(x[1]) \in courses}
      open == {x \in day : OpenNow(x[1])}
      running == {x \in day : Running(x[1])}
      choice == IF open # {} THEN open ELSE IF running # {} THEN running ELSE day
  IN  IF Cardinality(choice) = 1 THEN {x[1] : x \in choice} ELSE {}

\* "You can mark attendance right now", of a student whose profile is complete.
Ready(courses) == {k \in Picked(courses) : MayMark(k) /\ Today(k) /\ OpenNow(k)}

TimetableNext ==
  \/ CreateSchedule \/ UpsertOverride
  \/ AssignCourseClassroom \/ EnrollStudent \/ SectionChanges
  \/ MarkAttendance \/ FacultyMarksDay \/ Hour

\* A class on the student's timetable may be marked by him, and while it is the only one of
\* its course that is open, a student who asks the copilot about the course is told so: the
\* timetable, the marking handler and the copilot work the overrides out each in its own
\* way, which differ if student and section override one slot (_effective_student_schedules,
\* _resolve_student_schedule_context, _student_today_regular_schedules).
ShownMayBeMarked ==
  \A k \in Effective(taken) :
    /\ MayMark(k)
    /\ Today(k) /\ OpenNow(k) /\ CopilotMoves = Moves =>
         \/ Ready({CourseOf(k)}) = {k}
         \/ \E x, y \in CopilotList : x # y /\ {CourseOf(x[1]), CourseOf(y[1])} = {CourseOf(k)}
                                     /\ OpenNow(x[1]) /\ OpenNow(y[1])

\* The three pages of attendance agree: what the aggregate counts as delivered or attended is
\* listed in the history, and the status the timetable shows of a class is that of an entry
\* of its day (get_student_attendance_history, get_student_attendance_aggregate).
PagesMatch ==
  LET effective == Effective(Involved)
      history == History(effective)
  IN  /\ \A c \in Involved :
           LET entries == {i \in history : i.course = c}
           IN  /\ Delivered(c, effective) <= Cardinality(entries)
               /\ Attended(c, effective) <= Cardinality({i \in entries : i.present})
      /\ \A k \in Effective(taken), d \in 1..clock[1] : Weekday(d) = k[2] =>
           \A present \in Shown(k, d) : \E i \in history :
             i.course = CourseOf(k) /\ i.date = d /\ i.present = present
=============================================================================
