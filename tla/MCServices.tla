----------------------------- MODULE MCServices -----------------------------
(***************************************************************************)
(* The services around the core, which share no state with one another in  *)
(* these models: `part' says which of them a behaviour is about.           *)
(***************************************************************************)
EXTENDS RecoveryPlans, RmsCases, Accounts, RedisFailover, EventHub, Saarthi,
        Timetable, Registrations, FaceChecks, StudentProfiles, IdentityShield, FoodStore, OtpDispatch,
        Copilot

VARIABLE part

RowsAtFirst == [k \in ClassKeys |-> IF k \in {<<1, 1, 1>>, <<2, 0, 1>>} THEN 2 ELSE 0]
TaughtBy == <<"f1", "f2">>
RoomsAtFirst == <<"r", "none">>
ClassesHeld == <<FALSE>>
FaceLikeness == <<<<"same">>, <<"differ">>>>
OneApplicant == {[known |-> TRUE, numbered |-> TRUE, parents |-> 0, document |-> "none", face |-> "near",
                  live |-> "none", doubts |-> 0, onDevice |-> TRUE]}
ShopOfItem == <<"a", "b">>
OrderedFrom == <<"a", "a">>
MailConfigurations ==
  {[direct |-> TRUE, required |-> FALSE, fallback |-> FALSE, threads |-> TRUE,
    mode |-> "smtp", sendgrid |-> TRUE, gmail |-> TRUE],
   [direct |-> FALSE, required |-> FALSE, fallback |-> TRUE, threads |-> TRUE,
    mode |-> "graph", sendgrid |-> FALSE, gmail |-> FALSE],
   [direct |-> FALSE, required |-> TRUE, fallback |-> TRUE, threads |-> FALSE,
    mode |-> "smtp", sendgrid |-> FALSE, gmail |-> FALSE]}
BothBackends == <<"redis", "mongo">>

ServicesInit ==
  /\ part \in {"recovery", "rms", "accounts", "redis", "hub", "saarthi", "timetable", "registrations", "faces", "profiles", "shield", "food", "otp", "copilot"}
  /\ RecoveryInit /\ RmsInit /\ RedisInit /\ HubInit /\ SaarthiInit /\ TimetableInit
  /\ RegistrationsInit /\ (part # "registrations" => engine = "sqlite" /\ ~federation)
  /\ FaceInit /\ ProfileInit /\ ShieldInit /\ StoreInit /\ (part # "food" => Present(store) = {})
  /\ DispatchInit /\ (part # "otp" => setup.direct)
  /\ CopilotInit
  /\ section = "A"
  /\ AccountsInit /\ (part # "accounts" => enrolled)

ServicesNext ==
  \/ part = "recovery" /\ RecoveryNext
     /\ UNCHANGED <<part, rmsVars, accountVars, redisVars, hubVars, saarthiVars, timetableVars,
                  registrationVars, faceVars, profileVars, shieldVars, storeVars, dispatchVars, copilotVars>>
  \/ part = "rms" /\ RmsNext
     /\ UNCHANGED <<part, recoveryVars, accountVars, redisVars, hubVars, saarthiVars, timetableVars,
                  registrationVars, faceVars, profileVars, shieldVars, storeVars, dispatchVars, copilotVars>>
  \/ part = "accounts" /\ AccountsNext
     /\ UNCHANGED <<part, recoveryVars, rmsVars, redisVars, hubVars, saarthiVars, timetableVars,
                  registrationVars, faceVars, profileVars, shieldVars, storeVars, dispatchVars, copilotVars>>
  \/ part = "redis" /\ RedisNext
     /\ UNCHANGED <<part, recoveryVars, rmsVars, accountVars, hubVars, saarthiVars, timetableVars,
                  registrationVars, faceVars, profileVars, shieldVars, storeVars, dispatchVars, copilotVars>>
  \/ part = "hub" /\ HubNext
     /\ UNCHANGED <<part, recoveryVars, rmsVars, accountVars, redisVars, saarthiVars, timetableVars,
                  registrationVars, faceVars, profileVars, shieldVars, storeVars, dispatchVars, copilotVars>>
  \/ part = "saarthi" /\ SaarthiNext
     /\ UNCHANGED <<part, recoveryVars, rmsVars, accountVars, redisVars, hubVars, timetableVars,
                  registrationVars, faceVars, profileVars, shieldVars, storeVars, dispatchVars, copilotVars>>
  \/ part = "timetable" /\ TimetableNext
     /\ UNCHANGED <<part, recoveryVars, rmsVars, accountVars, redisVars, hubVars, saarthiVars,
                  registrationVars, faceVars, profileVars, shieldVars, storeVars, dispatchVars, copilotVars>>
  \/ part = "registrations" /\ RegistrationsNext
     /\ UNCHANGED <<part, recoveryVars, rmsVars, accountVars, redisVars, hubVars, saarthiVars,
                  timetableVars, faceVars, profileVars, shieldVars, storeVars, dispatchVars, copilotVars>>
  \/ part = "faces" /\ FaceNext
     /\ UNCHANGED <<part, recoveryVars, rmsVars, accountVars, redisVars, hubVars, saarthiVars,
                  timetableVars, registrationVars, profileVars, shieldVars, storeVars, dispatchVars, copilotVars>>
  \/ part = "profiles" /\ ProfileNext
     /\ UNCHANGED <<part, recoveryVars, rmsVars, accountVars, redisVars, hubVars, saarthiVars,
                  timetableVars, registrationVars, faceVars, shieldVars, storeVars, dispatchVars, copilotVars>>
  \/ part = "shield" /\ ShieldNext
     /\ UNCHANGED <<part, recoveryVars, rmsVars, accountVars, redisVars, hubVars, saarthiVars,
                  timetableVars, registrationVars, faceVars, profileVars, storeVars, dispatchVars, copilotVars>>
  \/ part = "food" /\ StoreNext
     /\ UNCHANGED <<part, recoveryVars, rmsVars, accountVars, redisVars, hubVars, saarthiVars,
                  timetableVars, registrationVars, faceVars, profileVars, shieldVars, dispatchVars, copilotVars>>
  \/ part = "copilot" /\ CopilotNext
     /\ UNCHANGED <<part, recoveryVars, rmsVars, accountVars, redisVars, hubVars, saarthiVars,
                  timetableVars, registrationVars, faceVars, profileVars, shieldVars, storeVars, dispatchVars>>
  \/ part = "otp" /\ DispatchNext
     /\ UNCHANGED <<part, recoveryVars, rmsVars, accountVars, redisVars, hubVars, saarthiVars,
                  timetableVars, registrationVars, faceVars, profileVars, shieldVars, storeVars, copilotVars>>

vars == <<part, recoveryVars, rmsVars, accountVars, redisVars, hubVars,
          saarthiVars, timetableVars, registrationVars, faceVars, profileVars, shieldVars, storeVars, dispatchVars,
          copilotVars>>

\* The threads nobody calls: the autopilot and the listener.
threadVars == <<recoveryVars, redisVars>>
ThreadsRun ==
  \/ part = "recovery" /\ AutopilotRuns /\ UNCHANGED redisVars
  \/ part = "redis" /\ ListenerRuns /\ UNCHANGED recoveryVars

ServicesSpec ==
  /\ ServicesInit
  /\ [][ServicesNext]_vars
  /\ WF_threadVars(ThreadsRun)

\* In the behaviours about recovery plans: while the student is at critical risk the course
\* has an open case again and again; a case the staff settle is followed by another
\* (_upsert_recovery_rms_case).
CriticalIsWatched == []<>(part = "recovery" => Watched)

\* In the behaviours about Redis: once an instance stays up and none is out of quota, the
\* listener ends up on one that is up, wherever hits and the health check have moved the
\* active one meanwhile, unless its loop was ended by a request that closed the clients
\* (start_pubsub_listener).
ListenerRecovers == <>[](part = "redis" => Steady) => <>[](part = "redis" => Listens)

\* The pages of attendance agree, in the behaviours that are about them
\* (get_student_attendance_history, get_student_attendance_aggregate).
PagesAgree == part = "timetable" => PagesMatch

\* The variables of the service a behaviour is about have their types.
ServicesTypeOK ==
  CASE part = "recovery" -> RecoveryTypeOK      [] part = "rms" -> RmsTypeOK
    [] part = "accounts" -> AccountsTypeOK      [] part = "redis" -> RedisTypeOK
    [] part = "hub" -> HubTypeOK                [] part = "saarthi" -> SaarthiTypeOK
    [] part = "timetable" -> TimetableTypeOK    [] part = "registrations" -> RegistrationsTypeOK
    [] part = "faces" -> FaceTypeOK             [] part = "profiles" -> ProfileTypeOK
    [] part = "shield" -> ShieldTypeOK          [] part = "food" -> StoreTypeOK
    [] part = "otp" -> DispatchTypeOK           [] part = "copilot" -> CopilotTypeOK

\* The states of the services are well formed: beyond types, the items of a cart are of
\* one shop (mutate_food_cart_item), a code a caller is told of was mailed
\* (dispatch_login_otp), and a key's hits are counted wherever they fail over to
\* (rate_limit_hit).
ServicesWellFormed == ServicesTypeOK /\ CartIsOfOneShop /\ ConfirmedIsMailed /\ AllowedBounded
=============================================================================
