-------------------------- MODULE MCServicesProofs --------------------------
(***************************************************************************)
(* The services together, as they are model-checked: the invariant of each *)
(* holds in every behaviour of all of them, for every value of their       *)
(* constants.                                                              *)
(***************************************************************************)
EXTENDS MCServices, ServicesProofs, PlatformProofs

Parts == {"recovery", "rms", "accounts", "redis", "hub", "saarthi", "timetable", "registrations",
          "faces", "profiles", "shield", "food", "otp", "copilot"}

ServicesInv ==
  /\ part \in Parts
  /\ RecoveryInv /\ RmsInv /\ AccountsInv /\ RedisInv /\ HubBounded /\ SaarthiKept /\ TimetableInv
  /\ RegistrationsInv /\ FaceInv /\ ProfileInv /\ ShieldInv /\ StoreInv /\ CopilotInv /\ DispatchInv

LEMMA ServicesInvInit == ServicesInit => ServicesInv
<1> SUFFICES ASSUME ServicesInit PROVE ServicesInv
  OBVIOUS
<1>1. /\ RecoveryInit /\ RmsInit /\ AccountsInit /\ RedisInit /\ HubInit /\ SaarthiInit /\ TimetableInit
      /\ RegistrationsInit /\ FaceInit /\ ProfileInit /\ ShieldInit /\ StoreInit /\ CopilotInit /\ DispatchInit
  BY DEF ServicesInit
<1>2. RecoveryInv /\ RmsInv /\ AccountsInv /\ RedisInv /\ HubBounded /\ SaarthiKept /\ TimetableInv
  BY <1>1, RecoveryInvInit, RmsInvInit, AccountsInvInit, RedisInvInit, HubBoundedInit, SaarthiKeptInit,
     TimetableInvInit
<1>3. RegistrationsInv /\ FaceInv /\ ProfileInv /\ ShieldInv /\ StoreInv /\ CopilotInv /\ DispatchInv
  BY <1>1, RegistrationsInvInit, InitTyped, ProfileInvInit, ShieldInvInit, StoreInvInit, InitKeeps,
     DispatchInvInit
<1>4. part \in Parts
  BY DEF ServicesInit, Parts
<1>5. QED
  BY <1>2, <1>3, <1>4 DEF ServicesInv

\* Each service takes a step of its own or none.
LEMMA EachSteps ==
  ASSUME ServicesInv, part' \in Parts,
         [RecoveryNext]_recoveryVars, [RmsNext]_rmsVars, [AccountsNext]_accountVars,
         [RedisNext]_redisVars, [HubNext]_hubVars, [SaarthiNext]_saarthiVars,
         [TimetableNext]_timetableVars, [RegistrationsNext]_registrationVars, [FaceNext]_faceVars,
         [ProfileNext]_profileVars, [ShieldNext]_shieldVars, [StoreNext]_storeVars,
         [CopilotNext]_copilotVars, [DispatchNext]_dispatchVars
  PROVE  ServicesInv'
<1>1. /\ RecoveryInv' /\ RmsInv' /\ AccountsInv' /\ RedisInv' /\ HubBounded' /\ SaarthiKept' /\ TimetableInv'
  BY RecoveryInvStep, RmsInvStep, AccountsInvStep, RedisInvStep, HubBoundedStep, SaarthiKeptStep,
     TimetableInvStep DEF ServicesInv
<1>2. RegistrationsInv' /\ FaceInv' /\ ProfileInv' /\ ShieldInv' /\ StoreInv' /\ CopilotInv' /\ DispatchInv'
  BY RegistrationsInvStep, StepTyped, ProfileInvStep, ShieldInvStep, StoreInvStep, CopilotInvStep,
     DispatchInvStep DEF ServicesInv
<1>3. QED
  BY <1>1, <1>2 DEF ServicesInv

LEMMA ServicesInvStep == ServicesInv /\ [ServicesNext]_vars => ServicesInv'
<1> SUFFICES ASSUME ServicesInv, [ServicesNext]_vars PROVE ServicesInv'
  OBVIOUS
<1>0. part \in Parts
  BY DEF ServicesInv
<1>1. CASE /\ RecoveryNext
          /\ UNCHANGED <<part, rmsVars, accountVars, redisVars, hubVars, saarthiVars, timetableVars, registrationVars,
                      faceVars, profileVars, shieldVars, storeVars, copilotVars, dispatchVars>>
  BY <1>1, <1>0, EachSteps
<1>2. CASE /\ RmsNext
          /\ UNCHANGED <<part, recoveryVars, accountVars, redisVars, hubVars, saarthiVars, timetableVars, registrationVars,
                      faceVars, profileVars, shieldVars, storeVars, copilotVars, dispatchVars>>
  BY <1>2, <1>0, EachSteps
<1>3. CASE /\ AccountsNext
          /\ UNCHANGED <<part, recoveryVars, rmsVars, redisVars, hubVars, saarthiVars, timetableVars, registrationVars,
                      faceVars, profileVars, shieldVars, storeVars, copilotVars, dispatchVars>>
  BY <1>3, <1>0, EachSteps
<1>4. CASE /\ RedisNext
          /\ UNCHANGED <<part, recoveryVars, rmsVars, accountVars, hubVars, saarthiVars, timetableVars, registrationVars,
                      faceVars, profileVars, shieldVars, storeVars, copilotVars, dispatchVars>>
  BY <1>4, <1>0, EachSteps
<1>5. CASE /\ HubNext
          /\ UNCHANGED <<part, recoveryVars, rmsVars, accountVars, redisVars, saarthiVars, timetableVars, registrationVars,
                      faceVars, profileVars, shieldVars, storeVars, copilotVars, dispatchVars>>
  BY <1>5, <1>0, EachSteps
<1>6. CASE /\ SaarthiNext
          /\ UNCHANGED <<part, recoveryVars, rmsVars, accountVars, redisVars, hubVars, timetableVars, registrationVars,
                      faceVars, profileVars, shieldVars, storeVars, copilotVars, dispatchVars>>
  BY <1>6, <1>0, EachSteps
<1>7. CASE /\ TimetableNext
          /\ UNCHANGED <<part, recoveryVars, rmsVars, accountVars, redisVars, hubVars, saarthiVars, registrationVars,
                      faceVars, profileVars, shieldVars, storeVars, copilotVars, dispatchVars>>
  BY <1>7, <1>0, EachSteps
<1>8. CASE /\ RegistrationsNext
          /\ UNCHANGED <<part, recoveryVars, rmsVars, accountVars, redisVars, hubVars, saarthiVars, timetableVars,
                      faceVars, profileVars, shieldVars, storeVars, copilotVars, dispatchVars>>
  BY <1>8, <1>0, EachSteps
<1>9. CASE /\ FaceNext
          /\ UNCHANGED <<part, recoveryVars, rmsVars, accountVars, redisVars, hubVars, saarthiVars, timetableVars,
                      registrationVars, profileVars, shieldVars, storeVars, copilotVars, dispatchVars>>
  BY <1>9, <1>0, EachSteps
<1>10. CASE /\ ProfileNext
          /\ UNCHANGED <<part, recoveryVars, rmsVars, accountVars, redisVars, hubVars, saarthiVars, timetableVars,
                      registrationVars, faceVars, shieldVars, storeVars, copilotVars, dispatchVars>>
  BY <1>10, <1>0, EachSteps
<1>11. CASE /\ ShieldNext
          /\ UNCHANGED <<part, recoveryVars, rmsVars, accountVars, redisVars, hubVars, saarthiVars, timetableVars,
                      registrationVars, faceVars, profileVars, storeVars, copilotVars, dispatchVars>>
  BY <1>11, <1>0, EachSteps
<1>12. CASE /\ StoreNext
          /\ UNCHANGED <<part, recoveryVars, rmsVars, accountVars, redisVars, hubVars, saarthiVars, timetableVars,
                      registrationVars, faceVars, profileVars, shieldVars, copilotVars, dispatchVars>>
  BY <1>12, <1>0, EachSteps
<1>13. CASE /\ CopilotNext
          /\ UNCHANGED <<part, recoveryVars, rmsVars, accountVars, redisVars, hubVars, saarthiVars, timetableVars,
                      registrationVars, faceVars, profileVars, shieldVars, storeVars, dispatchVars>>
  BY <1>13, <1>0, EachSteps
<1>14. CASE /\ DispatchNext
          /\ UNCHANGED <<part, recoveryVars, rmsVars, accountVars, redisVars, hubVars, saarthiVars, timetableVars,
                      registrationVars, faceVars, profileVars, shieldVars, storeVars, copilotVars>>
  BY <1>14, <1>0, EachSteps
<1>15. CASE UNCHANGED vars
  BY <1>15, <1>0, EachSteps DEF vars
<1>16. QED
  BY <1>1, <1>2, <1>3, <1>4, <1>5, <1>6, <1>7, <1>8, <1>9, <1>10, <1>11, <1>12, <1>13, <1>14, <1>15 DEF ServicesNext

LEMMA ServicesTyped == ServicesInv => ServicesTypeOK
<1> SUFFICES ASSUME ServicesInv PROVE ServicesTypeOK
  OBVIOUS
<1>1. /\ RecoveryTypeOK /\ RmsTypeOK /\ AccountsTypeOK /\ RedisTypeOK /\ TimetableTypeOK
      /\ RegistrationsTypeOK /\ FaceTypeOK /\ ProfileTypeOK /\ ShieldTypeOK /\ CopilotTypeOK /\ DispatchTypeOK
  BY DEF ServicesInv, RecoveryInv, RmsInv, AccountsInv, RedisInv, TimetableInv, RegistrationsInv, FaceInv,
     ProfileInv, ShieldInv, CopilotInv, DispatchInv
<1>2. HubTypeOK /\ SaarthiTypeOK /\ StoreTypeOK
  BY HubTyped, SaarthiKeptTyped, StoreTyped DEF ServicesInv
<1>3. part \in Parts
  BY DEF ServicesInv
<1>4. QED
  BY <1>1, <1>2, <1>3 DEF ServicesTypeOK, Parts

(***************************************************************************)
(* What holds of the services together                                     *)
(***************************************************************************)

\* ServicesWellFormed is an invariant of the services together: in every state of every
\* behaviour the variables of each have their types, which says of the bounded ones that no
\* cache, queue or chat outgrows its limit, and a cart is of one shop, a confirmed code was
\* mailed and a key's hits stay within what the instances allow.
THEOREM ServicesWellFormedAlways == ServicesSpec => []ServicesWellFormed
<1>1. ServicesSpec => []ServicesInv
  BY ServicesInvInit, ServicesInvStep, PTL DEF ServicesSpec
<1>2. ServicesInv => ServicesWellFormed
  <2> SUFFICES ASSUME ServicesInv PROVE ServicesWellFormed
    OBVIOUS
  <2>1. RedisInv /\ StoreInv /\ DispatchInv
    BY DEF ServicesInv
  <2>2. AllowedBounded
    BY <2>1, LimitMeans
  <2>3. CartIsOfOneShop
    BY <2>1 DEF StoreInv, CartInv, Pinned, CartIsOfOneShop
  <2>4. ConfirmedIsMailed
    BY <2>1 DEF DispatchInv, CodesMailed, ConfirmedIsMailed
  <2>5. QED
    BY <2>2, <2>3, <2>4, ServicesTyped DEF ServicesWellFormed
<1>3. QED
  BY <1>1, <1>2, PTL

\* PagesAgree is an invariant of the services together: whatever is submitted, recorded,
\* overridden, added or removed, the page of the history and the page of the totals agree
\* (get_student_attendance_history, get_student_attendance_aggregate).
THEOREM PagesAgreeAlways == ServicesSpec => []PagesAgree
<1>1. ServicesSpec => []ServicesInv
  BY ServicesInvInit, ServicesInvStep, PTL DEF ServicesSpec
<1>2. ServicesInv => PagesAgree
  BY PagesMatchNow DEF ServicesInv, PagesAgree
<1>3. QED
  BY <1>1, <1>2, PTL

\* A behaviour of the services together is one of each of them: composing the modules adds
\* no step to any, so that what is proved of one service alone holds of the system that is
\* checked.
THEOREM EachServiceRuns ==
  ServicesSpec => /\ RecoveryInit /\ [][RecoveryNext]_recoveryVars
                  /\ RmsSpec /\ AccountsSpec /\ RedisSpec /\ HubSpec /\ SaarthiSpec /\ TimetableSpec
                  /\ RegistrationsSpec /\ FaceSpec /\ ProfileSpec /\ ShieldSpec /\ StoreSpec
                  /\ CopilotSpec /\ DispatchSpec
<1>1. ServicesInit =>
        /\ RecoveryInit /\ RmsInit /\ AccountsInit /\ RedisInit /\ HubInit /\ SaarthiInit /\ TimetableInit
        /\ RegistrationsInit /\ FaceInit /\ ProfileInit /\ ShieldInit /\ StoreInit /\ CopilotInit /\ DispatchInit
  BY DEF ServicesInit
<1>2. [ServicesNext]_vars =>
        /\ [RecoveryNext]_recoveryVars /\ [RmsNext]_rmsVars /\ [AccountsNext]_accountVars
        /\ [RedisNext]_redisVars /\ [HubNext]_hubVars /\ [SaarthiNext]_saarthiVars
        /\ [TimetableNext]_timetableVars /\ [RegistrationsNext]_registrationVars /\ [FaceNext]_faceVars
        /\ [ProfileNext]_profileVars /\ [ShieldNext]_shieldVars /\ [StoreNext]_storeVars
        /\ [CopilotNext]_copilotVars /\ [DispatchNext]_dispatchVars
  BY DEF ServicesNext, vars
<1>3. QED
  BY <1>1, <1>2, PTL DEF ServicesSpec, RmsSpec, AccountsSpec, RedisSpec, HubSpec, SaarthiSpec, TimetableSpec,
     RegistrationsSpec, FaceSpec, ProfileSpec, ShieldSpec, StoreSpec, CopilotSpec, DispatchSpec

\* What each service promises holds of all of them in the same behaviour: the invariants the
\* run of the services checks, of the very specification it checks, for any values of the
\* constants, but for LinkIsOwn, which is model-checked only.
THEOREM ServicesSafe ==
  ServicesSpec => [](/\ AttendedSlotStaysDone /\ SettledIsOwned /\ ThreeAdmins /\ DeliveredOnce
                     /\ CreditHolds /\ ShownMayBeMarked /\ RecognisedByBoth /\ PhotoIsWhole
                     /\ PromotedOncePerTerm /\ FacesAreScreened /\ AnswerIsKept)
<1>1. ServicesSpec => []AttendedSlotStaysDone
  <2>1. ServicesInv => AttendedSlotStaysDone
    BY DEF ServicesInv, RecoveryInv
  <2>2. QED
    BY <2>1, ServicesInvInit, ServicesInvStep, PTL DEF ServicesSpec
<1>2. ServicesSpec => [](SettledIsOwned /\ ThreeAdmins /\ DeliveredOnce /\ CreditHolds /\ ShownMayBeMarked)
  BY EachServiceRuns, SettledIsOwnedAlways, ThreeAdminsAlways, DeliveredOnceAlways, CreditHoldsAlways,
     ShownMayBeMarkedAlways, PTL
<1>3. ServicesSpec => [](RecognisedByBoth /\ PhotoIsWhole /\ PromotedOncePerTerm /\ FacesAreScreened
                         /\ AnswerIsKept)
  BY EachServiceRuns, RecognisedByBothAlways, PhotoIsWholeAlways, PromotedOncePerTermAlways,
     FacesAreScreenedAlways, AnswerIsKeptAlways, PTL
<1>4. QED
  BY <1>1, <1>2, <1>3, PTL
=============================================================================
