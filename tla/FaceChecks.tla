----------------------------- MODULE FaceChecks -----------------------------
(***************************************************************************)
(* The check of a student's face (app/face_verification.py) as the         *)
(* attendance and remedial handlers use it: a profile photo and an         *)
(* enrolment video become templates, and the frames of a selfie video are  *)
(* compared one after the other with both.                                 *)
(*                                                                         *)
(* An image is abstracted to the check it fails, and how badly, to its     *)
(* similarity with each template in per cent, and to the pose and texture  *)
(* that the liveness check compares between frames.                        *)
(***************************************************************************)
EXTENDS Naturals, FiniteSets

CONSTANTS
  MinFrames,        \* frames in a row that must match (FACE_MATCH_MIN_FRAMES)
  CaptureFrames,    \* frames a handler asks for (FACE_MULTI_FRAME_MIN)
  MaxFrames,        \* frames that are looked at (FACE_MATCH_MAX_FRAMES)
  EnrolFrames,      \* valid frames of an enrolment video
  MinSimilarity,    \* per cent, FACE_MATCH_MIN_SIMILARITY
  PassThreshold,    \* per cent, FACE_MATCH_PASS_THRESHOLD
  ValidPercent,     \* FACE_MIN_VALID_FRAME_RATIO
  Similarities,     \* similarities that occur
  Poses, Textures,  \* poses and textures that occur
  FlawsSeen         \* flaws that occur
FaceFlaws == {"resolution", "face", "single", "confident", "large", "centred",
              "feature", "eyes", "sharp", "lit", "bare"}
ASSUME FaceAssumption ==
  /\ MinFrames \in Nat \ {0} /\ CaptureFrames \in Nat /\ MaxFrames \in Nat /\ EnrolFrames \in Nat
  /\ MinSimilarity \in Nat \ {0} /\ PassThreshold \in Nat /\ ValidPercent \in Nat
  /\ Similarities \subseteq 0..100 /\ Poses \subseteq Nat /\ Textures \subseteq Nat
  /\ Poses # {} /\ Textures # {}
  /\ FlawsSeen \subseteq FaceFlaws

VARIABLES
  runtime,   \* _DNN_RUNTIME_CACHE of the process: "empty", "dnn" or "failed"
  photo,     \* profile template: the engine that made it, "unread" photo or "none"
  video,     \* enrolment template: the engine that made it, or "none"
  scan       \* the request being served

faceVars == <<runtime, photo, video, scan>>

Engines == {"dnn", "classic"}
Frame == [flaw : FlawsSeen, grade : 1..3, video : {0}, photo : {0}, pose : Poses, texture : Textures]
         \cup [flaw : {"none"}, grade : {0}, video : Similarities, photo : Similarities,
               pose : Poses, texture : Textures]

\* evaluate_embedding_sequence, before the first frame.
NoMatch == [streak |-> 0, sum |-> 0, best |-> 0, bestSum |-> 0, accepted |-> 0]
NoScan == [kind |-> "idle", engine |-> "dnn", frames |-> 0, valid |-> 0, fatal |-> FALSE,
           poses |-> {}, textures |-> {}, video |-> NoMatch, photo |-> NoMatch, both |-> 0]

Match == [streak : Nat, sum : Nat, best : Nat, bestSum : Nat, accepted : Nat]
Scan == [kind : {"idle", "enrolment", "mark"}, engine : Engines, frames : Nat, valid : Nat,
         fatal : BOOLEAN, poses : SUBSET Poses, textures : SUBSET Textures,
         video : Match, photo : Match, both : Nat]

FaceTypeOK ==
  /\ runtime \in {"empty", "dnn", "failed"}
  /\ photo \in Engines \cup {"none", "unread"} /\ video \in Engines \cup {"none"}
  /\ scan \in Scan

FaceInit ==
  /\ runtime = "empty"
  /\ photo = "none" /\ video = "none"
  /\ scan = NoScan

(***************************************************************************)
(* One image (_extract_embedding_bundle_dnn, _extract_embedding_bundle)    *)
(***************************************************************************)

\* Checks made of live frames only, strict_anti_spoof.
LiveOnly(engine) == {"centred", "sharp", "lit", "bare"}
                    \cup (IF engine = "dnn" THEN {"single"} ELSE {})

\* How bad a flaw each reading of an image lets pass: 0 none, 3 any.
Tolerated(engine, reading, flaw) ==
  CASE reading = "strict"   -> 0
    [] reading = "relaxed"  -> IF flaw = "feature" THEN 0 ELSE 1
    [] reading = "lenient"  -> IF flaw \in LiveOnly(engine) THEN 3
                               ELSE IF flaw \in {"confident", "single"} THEN 1 ELSE 0
    [] reading = "fallback" -> IF flaw \in LiveOnly(engine) \cup {"eyes"} THEN 2 ELSE 1

Readable(engine, reading, f) == f.flaw = "none" \/ f.grade <= Tolerated(engine, reading, f.flaw)

\* build_enrollment_template_from_frames: the classic engine tries three times.
Enrollable(engine, f) ==
  \/ Readable(engine, "relaxed", f)
  \/ engine = "classic" /\ (Readable(engine, "strict", f) \/ Readable(engine, "fallback", f))

(***************************************************************************)
(* A sequence of images                                                    *)
(***************************************************************************)

\* evaluate_embedding_sequence: the next frame has this similarity.
MatchedWith(m, similarity) ==
  LET streak == m.streak + 1
      sum    == m.sum + similarity
  IN  IF similarity < MinSimilarity THEN [m EXCEPT !.streak = 0, !.sum = 0]
      ELSE [streak |-> streak, sum |-> sum, accepted |-> m.accepted + 1,
            best |-> IF streak > m.best THEN streak ELSE m.best,
            bestSum |-> IF streak > m.best THEN sum ELSE m.bestSum]

\* Variant: no majority of the frames is asked for.
IsMajority_Streak(accepted, frames) == accepted >= MinFrames \/ frames = 0

\* Frames that must match: three in five, and never fewer than the streak.
IsMajority(accepted, frames) == accepted >= MinFrames /\ 5 * accepted >= 3 * frames

SequenceMatches(m, frames) == m.best >= MinFrames /\ IsMajority(m.accepted, frames)

\* evaluate_liveness_sequence: the head moves, by the range that the check asks
\* for (a pose unit), and a small movement comes with a texture that changes.
MovedBy(poses, least) == \E a, b \in poses : a + least <= b
Alive(s, least) ==
  /\ s.valid >= least
  /\ MovedBy(s.poses, 1)
  /\ MovedBy(s.poses, 2) \/ Cardinality(s.textures) >= 2

\* _verify_face_sequence_dnn: the verdict for one template.
Verdict(s, m) ==
  /\ s.frames >= MinFrames
  /\ SequenceMatches(m, s.frames)
  /\ Alive(s, MinFrames)
  /\ ~s.fatal
  /\ s.valid >= MinFrames /\ 100 * s.valid >= ValidPercent * s.frames

\* _verify_student_face_payload, _verify_remedial_face_payload: both templates
\* match, with a confidence that is the mean of the best streak.
Recognised(s) ==
  /\ Verdict(s, s.video) /\ Verdict(s, s.photo)
  /\ s.video.bestSum >= PassThreshold * s.video.best
  /\ s.photo.bestSum >= PassThreshold * s.photo.best

(***************************************************************************)
(* Requests                                                                *)
(***************************************************************************)

\* _load_dnn_runtime: the first use loads the models; a failure is kept.
LoadRuntime ==
  /\ runtime = "empty"
  /\ runtime' \in {"dnn", "failed"}
  /\ UNCHANGED <<photo, video, scan>>

RestartFaceProcess ==
  /\ runtime # "empty"
  /\ runtime' = "empty" /\ scan' = NoScan
  /\ UNCHANGED <<photo, video>>

ActiveEngine == IF runtime = "dnn" THEN "dnn" ELSE "classic"

\* A photo is stored; where it cannot be read back there is no template.
TakePhoto(f) ==
  /\ runtime # "empty" /\ scan = NoScan
  /\ photo' \in (IF Readable(ActiveEngine, "lenient", f) THEN {ActiveEngine} ELSE {}) \cup {"unread"}
  /\ UNCHANGED <<runtime, video, scan>>

BeginEnrolment ==
  /\ runtime # "empty" /\ scan = NoScan
  /\ photo # "none"
  /\ scan' = [NoScan EXCEPT !.kind = "enrolment", !.engine = ActiveEngine]
  /\ UNCHANGED <<runtime, photo, video>>

Seen(s, f, valid) ==
  [s EXCEPT !.frames = @ + 1,
            !.valid = IF valid THEN @ + 1 ELSE @,
            !.poses = IF valid THEN @ \cup {f.pose} ELSE @,
            !.textures = IF valid THEN @ \cup {f.texture} ELSE @]

EnrolFrame(f) ==
  /\ scan.kind = "enrolment" /\ scan.frames < MaxFrames
  /\ scan' = Seen(scan, f, Enrollable(scan.engine, f))
  /\ UNCHANGED <<runtime, photo, video>>

\* Too few valid frames or too little movement: the template stays as it was.
FinishEnrolment ==
  /\ scan.kind = "enrolment"
  /\ video' = IF scan.valid >= EnrolFrames /\ Alive(scan, EnrolFrames \div 2) THEN scan.engine ELSE video
  /\ scan' = NoScan
  /\ UNCHANGED <<runtime, photo>>

\* A mark needs both templates; a missing one is made from the photo if that
\* can be read now.  It is refused, 503, without the models.
BeginCheck ==
  /\ runtime = "dnn" /\ scan = NoScan
  /\ photo # "none" /\ video # "none"
  /\ scan' = [NoScan EXCEPT !.kind = "mark"]
  /\ UNCHANGED <<runtime, photo, video>>

MarkFrame(f) ==
  LET valid == Readable("dnn", "strict", f)
      s     == Seen(scan, f, valid)
  IN  /\ scan.kind = "mark" /\ scan.frames < MaxFrames
      /\ scan' = [s EXCEPT
           !.fatal = @ \/ (~valid /\ f.flaw # "feature"),
           !.video = MatchedWith(@, IF valid THEN f.video ELSE 0),
           !.photo = MatchedWith(@, IF valid THEN f.photo ELSE 0),
           !.both = IF valid /\ f.video >= MinSimilarity /\ f.photo >= MinSimilarity
                    THEN @ + 1 ELSE @]
      /\ UNCHANGED <<runtime, photo, video>>

\* The student is marked if Recognised(scan), and refused otherwise.
FinishCheck ==
  /\ scan.kind = "mark" /\ scan.frames >= CaptureFrames
  /\ scan' = NoScan
  /\ UNCHANGED <<runtime, photo, video>>

FaceNext ==
  \/ LoadRuntime \/ RestartFaceProcess
  \/ \E f \in Frame : TakePhoto(f) \/ EnrolFrame(f) \/ MarkFrame(f)
  \/ BeginEnrolment \/ FinishEnrolment \/ BeginCheck \/ FinishCheck

FaceSpec == FaceInit /\ [][FaceNext]_faceVars

(***************************************************************************)
(* Properties                                                              *)
(***************************************************************************)

\* The two templates are compared in passes of their own, each with a streak
\* of its own; still, whoever is recognised is in at least a fifth of the
\* frames recognised by both, and so in one (verify_face_sequence_opencv).
RecognisedByBoth ==
  scan.kind = "mark" /\ Recognised(scan) => 5 * scan.both >= scan.frames /\ scan.both > 0
=============================================================================
