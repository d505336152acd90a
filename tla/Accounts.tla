------------------------------ MODULE Accounts ------------------------------
(***************************************************************************)
(* The account of one address, kept as a document of auth_users (MongoDB)  *)
(* and a row of auth_users (SQL), what the directory, the sign-on services *)
(* and the user do to the two, and a request to delete it                  *)
(* (app/routers/enterprise.py, auth.py, app/auth_utils.py).                *)
(*                                                                         *)
(* The steps of a deletion are separate writes of MongoDB without a        *)
(* transaction; other requests fall between them.                          *)
(***************************************************************************)
EXTENDS Naturals, FiniteSets

CONSTANT Admins   \* administrators, numbers from 1
ASSUME AccountsAssumption == Admins \subseteq Nat \ {0} /\ IsFiniteSet(Admins)

VARIABLES
  doc,       \* the document: "none", "active" or "inactive"
  row,       \* the row
  enrolled,  \* the student's row exists
  signedIn,  \* a session of the user has not been revoked or deleted
  deletion,  \* the request
  approving, \* administrators who have read that it is pending
  holding,   \* a legal hold to be written, once the request was seen not to be executed
  executing  \* how far each administrator's execution is

accountVars == <<doc, row, enrolled, signedIn, deletion, approving, holding, executing>>

AccountStates == {"none", "active", "inactive"}
Deletion == [status : {"none", "pending", "approved", "completed"}, mode : {"hard", "soft"},
             hold : BOOLEAN, requester : Admins \cup {0}, approver : Admins \cup {0},
             executor : Admins \cup {0}]
NoDeletion == [status |-> "none", mode |-> "soft", hold |-> FALSE,
               requester |-> 0, approver |-> 0, executor |-> 0]

AccountsTypeOK ==
  /\ {doc, row} \subseteq AccountStates
  /\ {enrolled, signedIn} \subseteq BOOLEAN
  /\ deletion \in Deletion
  /\ approving \subseteq Admins
  /\ holding \in {"no", "place", "lift"}
  /\ executing \in [Admins -> {"idle", "erase", "sessions", "complete"}]

AccountsInit ==
  /\ doc = "none" /\ row = "none"
  /\ enrolled \in BOOLEAN
  /\ signedIn = FALSE
  /\ deletion = NoDeletion
  /\ approving = {}
  /\ holding = "no"
  /\ executing = [a \in Admins |-> "idle"]

Flag(active) == IF active THEN "active" ELSE "inactive"

\* The row of the address is made, or changed to what the caller has.
SqlUser(state) == row' = state

(***************************************************************************)
(* The two records of the account                                          *)
(***************************************************************************)

OnlyAccount == <<deletion, approving, holding, executing>>

Register ==
  /\ doc = "none" /\ row = "none"
  /\ doc' = "active" /\ SqlUser("active") /\ enrolled' = TRUE
  /\ UNCHANGED <<signedIn, OnlyAccount>>

\* Asking for a reset code brings the document back from the row, or makes an account
\* for a student who has none.
AskReset ==
  /\ doc = "none"
  /\ \/ row # "none" /\ doc' = row /\ UNCHANGED row
     \/ row = "none" /\ enrolled /\ doc' = "active" /\ SqlUser("active")
  /\ UNCHANGED <<enrolled, signedIn, OnlyAccount>>

ScimUpsert(active) ==
  /\ doc' = Flag(active) /\ SqlUser(Flag(active))
  /\ UNCHANGED <<enrolled, signedIn, OnlyAccount>>

\* Only the document: the row follows with the user's next request.
ScimPatch(active) ==
  /\ doc # "none"
  /\ doc' = Flag(active)
  /\ UNCHANGED <<row, enrolled, signedIn, OnlyAccount>>

\* Whoever the provider vouches for is active again.
FederatedUser == doc' = "active" /\ SqlUser("active")

IssueSession == signedIn' = TRUE

FederatedSignIn ==
  /\ FederatedUser
  /\ IssueSession
  /\ UNCHANGED <<enrolled, OnlyAccount>>

SignIn ==
  /\ doc = "active"
  /\ signedIn' = TRUE
  /\ UNCHANGED <<doc, row, enrolled, OnlyAccount>>

SignOut ==
  /\ signedIn
  /\ signedIn' = FALSE
  /\ UNCHANGED <<doc, row, enrolled, OnlyAccount>>

\* The row follows the document before the user is refused as inactive.
\* It is not looked at again for a while, so that a request may leave it as it is.
UserRequest ==
  /\ signedIn /\ doc # "none"
  /\ SqlUser(doc)
  /\ UNCHANGED <<doc, enrolled, signedIn, OnlyAccount>>

(***************************************************************************)
(* Deletion                                                                *)
(***************************************************************************)

OnlyDeletion == <<doc, row, enrolled, signedIn>>

RequestDeletion(a, mode, hold) ==
  /\ deletion.status = "none"
  /\ deletion' = [NoDeletion EXCEPT !.status = "pending", !.mode = mode, !.hold = hold,
                                    !.requester = a]
  /\ UNCHANGED <<OnlyDeletion, approving, holding, executing>>

BeginApproval(a) ==
  /\ deletion.status = "pending"
  /\ deletion.requester # a
  /\ approving' = approving \cup {a}
  /\ UNCHANGED <<OnlyDeletion, deletion, holding, executing>>

Approval(a) == [deletion EXCEPT !.status = "approved", !.approver = a]

\* Mutant: the update does not ask for the status again.
Approved_Unchecked(a) == Approval(a)

\* The update asks for a pending request.
Approved(a) == IF deletion.status = "pending" THEN Approval(a) ELSE deletion

ApproveDeletion(a) ==
  /\ a \in approving
  /\ approving' = approving \ {a}
  /\ deletion' = Approved(a)
  /\ UNCHANGED <<OnlyDeletion, holding, executing>>

BeginHold(change) ==
  /\ deletion.status \in {"pending", "approved"}
  /\ holding = "no"
  /\ holding' = change
  /\ UNCHANGED <<OnlyDeletion, deletion, approving, executing>>

\* Whatever has happened to the request meanwhile.
WriteHold ==
  /\ holding # "no"
  /\ deletion' = [deletion EXCEPT !.hold = (holding = "place")]
  /\ holding' = "no"
  /\ UNCHANGED <<OnlyDeletion, approving, executing>>

\* Dual control: neither who asked nor who approved.
MayExecute(a) ==
  /\ deletion.status = "approved"
  /\ deletion.requester # a
  /\ deletion.approver \notin {0, a}
  /\ ~deletion.hold

\* A user who is not found leaves nothing to erase, sessions included.
BeginExecution(a) ==
  /\ executing[a] = "idle"
  /\ MayExecute(a)
  /\ executing' = [executing EXCEPT ![a] = IF doc = "none" THEN "complete" ELSE "erase"]
  /\ UNCHANGED <<OnlyDeletion, deletion, approving, holding>>

EraseUser(a) ==
  /\ executing[a] = "erase"
  /\ IF deletion.mode = "hard"
     THEN doc' = "none" /\ executing' = [executing EXCEPT ![a] = "sessions"]
     ELSE /\ doc' = IF doc = "none" THEN doc ELSE "inactive"
          /\ executing' = [executing EXCEPT ![a] = "complete"]
  /\ UNCHANGED <<row, enrolled, signedIn, deletion, approving, holding>>

EraseSessions(a) ==
  /\ executing[a] = "sessions"
  /\ signedIn' = FALSE
  /\ executing' = [executing EXCEPT ![a] = "complete"]
  /\ UNCHANGED <<doc, row, enrolled, deletion, approving, holding>>

CompleteDeletion(a) ==
  /\ executing[a] = "complete"
  /\ deletion' = [deletion EXCEPT !.status = "completed", !.executor = a]
  /\ executing' = [executing EXCEPT ![a] = "idle"]
  /\ UNCHANGED <<OnlyDeletion, approving, holding>>

\* The process or the database fails: the request stays approved, to be executed again.
FailExecution(a) ==
  /\ executing[a] # "idle"
  /\ executing' = [executing EXCEPT ![a] = "idle"]
  /\ UNCHANGED <<OnlyDeletion, deletion, approving, holding>>

AccountsNext ==
  \/ Register \/ AskReset \/ FederatedSignIn \/ SignIn \/ SignOut \/ UserRequest
  \/ \E active \in BOOLEAN : ScimUpsert(active) \/ ScimPatch(active)
  \/ \E change \in {"place", "lift"} : BeginHold(change)
  \/ WriteHold
  \/ \E a \in Admins :
       \/ \E mode \in {"hard", "soft"}, hold \in BOOLEAN : RequestDeletion(a, mode, hold)
       \/ BeginApproval(a) \/ ApproveDeletion(a)
       \/ BeginExecution(a) \/ EraseUser(a) \/ EraseSessions(a) \/ CompleteDeletion(a)
       \/ FailExecution(a)

\* A deletion that is done took three administrators: who asked for it, who approved it
\* and who executed it, whatever requests of theirs raced (execute_deletion_request).
ThreeAdmins ==
  deletion.status = "completed" =>
    Cardinality({deletion.requester, deletion.approver, deletion.executor}) = 3
=============================================================================
