------------------------------- MODULE Pkcs11 -------------------------------
(***************************************************************************)
(* The PKCS #11 module of crates/pkcs11-gpg: module.rs and its client of   *)
(* the avatar, local_client.rs.                                            *)
(*                                                                         *)
(* The application's threads share one static STATE under a mutex.  Most   *)
(* functions lock it twice: is_initialized() looks and unlocks, then       *)
(* with_state() locks again and unwraps what the first look promised.      *)
(* C_Initialize keeps the mutex while it talks to the avatar; C_Sign copies *)
(* what it needs under the mutex and talks to the avatar without it.       *)
(*                                                                         *)
(* The application keeps no rules: any thread calls any function at any    *)
(* time, C_Finalize and C_CloseAllSessions beside the calls of others too, *)
(* and opens sessions when one is open (C_GetTokenInfo's max_session_count *)
(* of 1 is not enforced: all sessions are one, with one handle).           *)
(***************************************************************************)
EXTENDS Naturals, Sequences, FiniteSets

CONSTANTS
  Threads,      \* the application's threads
  Keys,         \* public keys
  RawLists,     \* lists of identities the avatar may give
  Templates,    \* classes that applications search for
  Counts,       \* values of ulMaxObjectCount
  IdModulus,    \* CKA_ID is one byte (256)
  None

Raw == [key_type : {"ed25519", "other"}, key : Keys]

ASSUME Pkcs11Assumption ==
  /\ RawLists \subseteq Seq(Raw)
  /\ Counts \subseteq Nat
  /\ IdModulus \in Nat \ {0}
  /\ None \notin Threads \cup Keys

VARIABLES
  state,    \* STATE: None, or the ModuleState
  lock,     \* the thread that keeps STATE locked over several steps
  threads,  \* the application's threads
  found,    \* objects returned since C_FindObjectsInit
  import    \* an import of the public certificate has been scheduled

vars == <<state, lock, threads, found, import>>

(* The functions that lock twice.  "C_Query" stands for those that only    *)
(* look: C_GetSessionInfo, C_Login, C_Logout (both do nothing) and         *)
(* C_GetAttributeValue.                                                    *)
Function == {"C_OpenSession", "C_CloseSession", "C_CloseAllSessions",
             "C_FindObjectsInit", "C_FindObjects", "C_FindObjectsFinal",
             "C_SignInit", "C_Sign", "C_Query"}

Identity == [key : Keys, index : Nat]
Choice == Identity \cup {None}

(* session: the handle the thread holds, 0 for none, whether the session   *)
(* is still open or not.  req: the sign request under way.  got: the key   *)
(* of the signature its last C_Sign returned.  History: overtaken, that    *)
(* C_Finalize came between the two locks of its call; wants, the identity  *)
(* meant by the C_SignInit that its C_Sign ends.                           *)
Thread == [pc        : {"idle", "in", "connect", "identities", "cert", "sign"},
           fn        : Function \cup {None},
           session   : {0, 1},
           overtaken : BOOLEAN,
           wants     : Choice,
           req       : Choice,
           got       : Keys \cup {None}]

Idle == [pc |-> "idle", fn |-> None, session |-> 0, overtaken |-> FALSE,
         wants |-> None, req |-> None, got |-> None]

Init ==
  /\ state = None
  /\ lock = None
  /\ threads = [t \in Threads |-> Idle]
  /\ found = << >>
  /\ import = FALSE

-----------------------------------------------------------------------------
(* Identities and object handles. *)

(* Mutant: the position in the filtered list is sent as the index. *)
MutIdentities(raw) ==
  LET ed == SelectSeq(raw, LAMBDA r : r.key_type = "ed25519")
  IN  [i \in DOMAIN ed |-> [key |-> ed[i].key, index |-> i - 1]]

(* Mutant: other keys stay in the list, without a public key. *)
MutKeepUnusable(raw) ==
  [i \in DOMAIN raw |->
     [key |-> IF raw[i].key_type = "ed25519" THEN raw[i].key ELSE None,
      index |-> i - 1]]

(* The filter_map of C_Initialize, as far as the n-th of the list: other   *)
(* keys are skipped, but the index stays that of the avatar's list (from   *)
(* 0).                                                                     *)
Identities(raw) ==
  LET upto[n \in 0..Len(raw)] ==
        IF n = 0 THEN << >>
        ELSE IF raw[n].key_type = "ed25519"
        THEN Append(upto[n-1], [key |-> raw[n].key, index |-> n - 1])
        ELSE upto[n-1]
  IN  upto[Len(raw)]

Kinds == <<"PrivateKey", "PublicKey", "Certificate">>
Handle(i, k) == i * 3 + k

handle_to_identity_index(handle) ==
  [index |-> (handle - 1) \div 3, kind |-> Kinds[((handle - 1) % 3) + 1]]

(* A handle that names an object: not 0, and within the identities. *)
ValidHandle(ids, handle) ==
  handle # 0 /\ handle_to_identity_index(handle).index < Len(ids)

Classes == {"PrivateKey", "PublicKey", "Certificate", "any", "none"}

ASSUME TemplatesAssumption == Templates \subseteq Classes

(* The handles that match a template, identity by identity: "any" has no   *)
(* CKA_CLASS, "none" one that no object has.                               *)
Matching(ids, class) ==
  LET ofOne(i) == CASE class = "any" -> [k \in 1..3 |-> Handle(i, k)]
                    [] class = "none" -> << >>
                    [] OTHER -> <<Handle(i, CHOOSE k \in 1..3 : Kinds[k] = class)>>
      upto[n \in 0..Len(ids)] ==
        IF n = 0 THEN << >> ELSE upto[n-1] \o ofOne(n - 1)
  IN  upto[Len(ids)]

(* Mutant: CKA_ID is made from the handle. *)
MutAttribute(ids, handle, attr) ==
  LET h == handle_to_identity_index(handle)
  IN  CASE attr = "ID" -> handle % IdModulus
        [] attr = "CLASS" -> h.kind
        [] attr = "KEY" -> ids[h.index + 1].key

(* C_GetAttributeValue: the attributes by which an application pairs the   *)
(* objects of an identity, CKA_ID, and tells what they are.  "KEY" stands  *)
(* for CKA_EC_POINT and for the key inside a certificate's CKA_VALUE.      *)
Attribute(ids, handle, attr) ==
  LET h == handle_to_identity_index(handle)
  IN  CASE attr = "ID" -> (h.index + 1) % IdModulus
        [] attr = "CLASS" -> h.kind
        [] attr = "KEY" -> ids[h.index + 1].key

-----------------------------------------------------------------------------
(* Entering a function: is_initialized(), then the checks of arguments. *)

is_initialized == state # None

OnlyThread(t, thread) ==
  /\ threads' = [threads EXCEPT ![t] = thread]
  /\ UNCHANGED <<state, lock, found, import>>

(* The thread begins a call; it has done with the last signature. *)
Called(t, f) ==
  LET th == [threads[t] EXCEPT !.pc = "in", !.fn = f]
  IN  IF th.got = None THEN th ELSE [th EXCEPT !.wants = None, !.got = None]

(* Mutant: the function does not ask whether the module is initialized. *)
MutEnter(t, f) ==
  /\ threads[t].pc = "idle"
  /\ lock = None
  /\ OnlyThread(t, Called(t, f))

(* Not initialized, or bad arguments: returns at once, nothing changes. *)
Enter(t, f) ==
  /\ threads[t].pc = "idle"
  /\ lock = None
  /\ is_initialized
  /\ OnlyThread(t, Called(t, f))

(* with_state: the second lock, with what the first look promised. *)
Within(t, f) ==
  /\ threads[t].pc = "in"
  /\ threads[t].fn = f
  /\ lock = None
  /\ state # None

(* with_state without it: the unwrap panics, which a function that is      *)
(* extern "C" does not let out.  The process ends; a new one may begin.    *)
Panic(t) ==
  /\ threads[t].pc = "in"
  /\ threads[t].fn # "C_Sign"
  /\ lock = None
  /\ state = None
  /\ threads' = [u \in Threads |-> Idle]
  /\ found' = << >>
  /\ UNCHANGED <<state, lock, import>>

(* The thread returns; it holds the session given. *)
Return(t, thread) ==
  threads' = [threads EXCEPT ![t] = [thread EXCEPT !.pc = "idle", !.fn = None,
                                                   !.overtaken = FALSE]]

SessionValid(t) == state.session_open /\ threads[t].session = state.session_handle

(* CKR_SESSION_HANDLE_INVALID, and what else leaves all as it was. *)
Refuse(t) ==
  /\ Return(t, threads[t])
  /\ UNCHANGED <<state, lock, found, import>>

-----------------------------------------------------------------------------
(* Sessions. *)

(* If one is open it is shared, with its operations. *)
OpenSession(t) ==
  /\ Within(t, "C_OpenSession")
  /\ state' = [state EXCEPT !.session_open = TRUE, !.session_handle = 1]
  /\ Return(t, [threads[t] EXCEPT !.session = 1])
  /\ UNCHANGED <<lock, found, import>>

NoSession(s) == [s EXCEPT !.session_open = FALSE, !.session_handle = 0,
                          !.sign_op = None, !.meant = None, !.find_op = None]

(* The thread gives its handle up, accepted or not. *)
CloseSession(t) ==
  /\ Within(t, "C_CloseSession")
  /\ IF SessionValid(t) THEN state' = NoSession(state) /\ found' = << >>
     ELSE UNCHANGED <<state, found>>
  /\ Return(t, [threads[t] EXCEPT !.session = 0])
  /\ UNCHANGED <<lock, import>>

(* Mutant: the operations of the closed session are kept. *)
MutCloseAllSessions(t) ==
  /\ Within(t, "C_CloseAllSessions")
  /\ state' = [state EXCEPT !.session_open = FALSE, !.session_handle = 0]
  /\ Return(t, [threads[t] EXCEPT !.session = 0])
  /\ UNCHANGED <<lock, found, import>>

(* The other threads keep their handles. *)
CloseAllSessions(t) ==
  /\ Within(t, "C_CloseAllSessions")
  /\ state' = NoSession(state)
  /\ Return(t, [threads[t] EXCEPT !.session = 0])
  /\ found' = << >>
  /\ UNCHANGED <<lock, import>>

Query(t) == Within(t, "C_Query") /\ Refuse(t)

-----------------------------------------------------------------------------
(* Finding objects. *)

(* A search under way is replaced. *)
FindObjectsInit(t, class) ==
  /\ Within(t, "C_FindObjectsInit")
  /\ SessionValid(t)
  /\ state' = [state EXCEPT !.find_op =
       [class |-> class, handles |-> Matching(state.identities, class),
        position |-> 0]]
  /\ found' = << >>
  /\ Return(t, threads[t])
  /\ UNCHANGED <<lock, import>>

(* Mutant: the position advances by the count asked for. *)
MutFindObjects(t, max_count) ==
  /\ Within(t, "C_FindObjects")
  /\ SessionValid(t)
  /\ state.find_op # None
  /\ LET find == state.find_op
         end == find.position + max_count
         last == IF end < Len(find.handles) THEN end ELSE Len(find.handles)
     IN  /\ found' = found \o SubSeq(find.handles, find.position + 1, last)
         /\ state' = [state EXCEPT !.find_op.position = end]
  /\ Return(t, threads[t])
  /\ UNCHANGED <<lock, import>>

FindObjects(t, max_count) ==
  /\ Within(t, "C_FindObjects")
  /\ SessionValid(t)
  /\ state.find_op # None
  /\ LET find == state.find_op
         remaining == Len(find.handles) - find.position
         to_return == IF remaining < max_count THEN remaining ELSE max_count
         end == find.position + to_return
     IN  /\ found' = found \o SubSeq(find.handles, find.position + 1, end)
         /\ state' = [state EXCEPT !.find_op.position = end]
  /\ Return(t, threads[t])
  /\ UNCHANGED <<lock, import>>

FindObjectsFinal(t) ==
  /\ Within(t, "C_FindObjectsFinal")
  /\ SessionValid(t)
  /\ state' = [state EXCEPT !.find_op = None]
  /\ found' = << >>
  /\ Return(t, threads[t])
  /\ UNCHANGED <<lock, import>>

FindFails(t) ==
  /\ \/ Within(t, "C_FindObjectsInit") /\ ~SessionValid(t)
     \/ Within(t, "C_FindObjectsFinal") /\ ~SessionValid(t)
     \/ Within(t, "C_FindObjects") /\ (SessionValid(t) => state.find_op = None)
  /\ Refuse(t)

-----------------------------------------------------------------------------
(* Signing. *)

IsPrivateKey(ids, key) ==
  ValidHandle(ids, key) /\ handle_to_identity_index(key).kind = "PrivateKey"

(* What the caller means by a private key handle: the n-th Ed25519 key of  *)
(* the avatar's list, by its place in that list.                           *)
Meant(raw, key) ==
  LET ed == {i \in DOMAIN raw : raw[i].key_type = "ed25519"}
      nth == CHOOSE i \in ed : 3 * Cardinality({j \in ed : j <= i}) = key + 2
  IN  [key |-> raw[nth].key, index |-> nth - 1]

(* An operation under way is replaced. *)
SignInit(t, key) ==
  /\ Within(t, "C_SignInit")
  /\ SessionValid(t)
  /\ IsPrivateKey(state.identities, key)
  /\ state' = [state EXCEPT !.sign_op = key, !.meant = Meant(state.raw, key)]
  /\ Return(t, threads[t])
  /\ UNCHANGED <<lock, found, import>>

(* A bad session, handle or mechanism. *)
SignInitFails(t) ==
  /\ Within(t, "C_SignInit")
  /\ Refuse(t)

(* The part of C_Sign under the mutex: what is needed is copied and the    *)
(* operation is over, even if the caller only asks for the length of a     *)
(* signature or its buffer is too small (SizeQuery).                       *)
SignBegin(t) ==
  /\ Within(t, "C_Sign")
  /\ SessionValid(t)
  /\ state.sign_op # None
  /\ LET h == handle_to_identity_index(state.sign_op) IN
     threads' = [threads EXCEPT ![t].pc = "sign", ![t].fn = None,
                   ![t].overtaken = FALSE, ![t].wants = state.meant,
                   ![t].req = state.identities[h.index + 1]]
  /\ state' = [state EXCEPT !.sign_op = None, !.meant = None]
  /\ UNCHANGED <<lock, found, import>>

SizeQuery(t) ==
  /\ Within(t, "C_Sign")
  /\ SessionValid(t)
  /\ state.sign_op # None
  /\ state' = [state EXCEPT !.sign_op = None, !.meant = None]
  /\ Return(t, threads[t])
  /\ UNCHANGED <<lock, found, import>>

(* Here STATE is looked at again without unwrapping it. *)
SignRefused(t) ==
  /\ threads[t].pc = "in"
  /\ threads[t].fn = "C_Sign"
  /\ lock = None
  /\ state # None => (SessionValid(t) => state.sign_op = None)
  /\ Return(t, threads[t])
  /\ UNCHANGED <<state, lock, found, import>>

-----------------------------------------------------------------------------
(* The client of the avatar: one new connection for each use (the connect  *)
(* has no time limit, see Fairness), 10 s for a write and 30 s for a       *)
(* response, which must carry the id of the request.  It writes and reads  *)
(* messages with a length in front; the avatar of this repository reads    *)
(* and writes lines, so with it every request ends in the time-out, by     *)
(* InitializeFails.  The peer that answers is one that shares the framing. *)

(* Mutant: the key is looked up again, after the mutex was released. *)
MutSignDone(t) ==
  /\ threads[t].pc = "sign"
  /\ LET ids == IF state # None THEN state.identities ELSE << >>
         again == {i \in DOMAIN ids : ids[i].index = threads[t].req.index}
     IN  OnlyThread(t, [threads[t] EXCEPT !.pc = "idle", !.req = None,
           !.got = IF again = {} THEN None ELSE ids[CHOOSE i \in again : TRUE].key])

(* The avatar signs with the key the request names. *)
SignDone(t) ==
  /\ threads[t].pc = "sign"
  /\ OnlyThread(t, [threads[t] EXCEPT !.pc = "idle", !.req = None,
                                      !.got = threads[t].req.key])

(* No connection, an error, a time-out, a signature not of 64 bytes. *)
SignDeviceError(t) ==
  /\ threads[t].pc = "sign"
  /\ OnlyThread(t, [threads[t] EXCEPT !.pc = "idle", !.req = None, !.wants = None])

-----------------------------------------------------------------------------
(* C_Initialize and C_Finalize. *)

(* CKR_CRYPTOKI_ALREADY_INITIALIZED leaves all as it was. *)
InitializeBegin(t) ==
  /\ threads[t].pc = "idle"
  /\ lock = None
  /\ ~is_initialized
  /\ lock' = t
  /\ threads' = [threads EXCEPT ![t].pc = "connect"]
  /\ UNCHANGED <<state, found, import>>

InitializeConnected(t) ==
  /\ threads[t].pc = "connect"
  /\ OnlyThread(t, [threads[t] EXCEPT !.pc = "identities"])

(* No connection, or no list of identities: CKR_DEVICE_ERROR. *)
InitializeFails(t) ==
  /\ threads[t].pc \in {"connect", "identities"}
  /\ threads' = [threads EXCEPT ![t].pc = "idle"]
  /\ lock' = None
  /\ UNCHANGED <<state, found, import>>

(* The list arrives.  Nobody sees the new STATE before the mutex is        *)
(* released.                                                               *)
InitializeIdentities(t, raw) ==
  /\ threads[t].pc = "identities"
  /\ state' = [identities |-> Identities(raw), raw |-> raw,
               session_open |-> FALSE, session_handle |-> 0,
               sign_op |-> None, meant |-> None, find_op |-> None]
  /\ threads' = [threads EXCEPT ![t].pc = "cert"]
  /\ UNCHANGED <<lock, found, import>>

(* Mutant: gpg --import is run inside the call, and again while it fails.  *)
(* It needs gpg-agent, which waits for C_Initialize to return.             *)
MutInitializeDone(t) ==
  /\ threads[t].pc = "cert"
  /\ import' = ~import
  /\ UNCHANGED <<state, lock, threads, found>>

(* import_gpg_cert: a detached process is started, or nothing if the       *)
(* certificate cannot be had or written; then the mutex is released.       *)
InitializeDone(t) ==
  /\ threads[t].pc = "cert"
  /\ import' \in {import, TRUE}
  /\ threads' = [threads EXCEPT ![t].pc = "idle"]
  /\ lock' = None
  /\ UNCHANGED <<state, found>>

(* External: the detached process, three seconds later.  gpg needs an      *)
(* agent that is not waiting for this module.                              *)
RunImport ==
  /\ import
  /\ lock = None
  /\ import' = FALSE
  /\ UNCHANGED <<state, lock, threads, found>>

(* Beside the calls of other threads too, which it may overtake. *)
Finalize(t) ==
  /\ threads[t].pc = "idle"
  /\ lock = None
  /\ is_initialized
  /\ state' = None
  /\ threads' = [u \in Threads |->
       [threads[u] EXCEPT !.session = IF u = t THEN 0 ELSE @,
                          !.overtaken = @ \/ threads[u].pc = "in"]]
  /\ found' = << >>
  /\ UNCHANGED <<lock, import>>

-----------------------------------------------------------------------------
InitializeStep(t) ==
  \/ InitializeConnected(t)
  \/ InitializeFails(t)
  \/ \E raw \in RawLists : InitializeIdentities(t, raw)
  \/ InitializeDone(t)

(* The second half of a call, from the second look at STATE on. *)
CallStep(t) ==
  \/ Panic(t)
  \/ OpenSession(t)
  \/ CloseSession(t)
  \/ CloseAllSessions(t)
  \/ Query(t)
  \/ \E class \in Templates : FindObjectsInit(t, class)
  \/ \E max_count \in Counts : FindObjects(t, max_count)
  \/ FindObjectsFinal(t)
  \/ FindFails(t)
  \/ state # None /\ \E key \in 1..3 * Len(state.identities) : SignInit(t, key)
  \/ SignInitFails(t)
  \/ SignBegin(t)
  \/ SizeQuery(t)
  \/ SignRefused(t)
  \/ SignDone(t)
  \/ SignDeviceError(t)

Next ==
  \/ \E t \in Threads : \/ \E f \in Function : Enter(t, f)
                        \/ CallStep(t)
                        \/ InitializeBegin(t)
                        \/ InitializeStep(t)
                        \/ Finalize(t)
  \/ RunImport

(* Threads run.  Every write to the avatar and every wait for its response *)
(* has a time limit; connect() has none, and it is assumed that the kernel *)
(* accepts or refuses the connection (it may wait while an avatar that     *)
(* does not accept has its backlog full).  Nothing is assumed of the       *)
(* mutex: a std::sync::Mutex may let others pass.                          *)
Fairness == \A t \in Threads : WF_vars(InitializeStep(t)) /\ WF_vars(CallStep(t))

Spec == Init /\ [][Next]_vars /\ Fairness

-----------------------------------------------------------------------------
(* Properties *)

FindOp == [class : Classes, handles : Seq(Nat), position : Nat]

ModuleState == [identities : Seq(Identity), raw : RawLists,
                session_open : BOOLEAN, session_handle : {0, 1},
                sign_op : Nat \cup {None},
                meant : Choice,   \* history: the identity sign_op was to mean
                find_op : FindOp \cup {None}]

(* None is no value of the program. *)
ASSUME NoneAssumption ==
  None \notin Nat \cup Function \cup Identity \cup FindOp \cup ModuleState

(* Every variable has its type. *)
TypeOK ==
  /\ state \in ModuleState \cup {None}
  /\ lock \in Threads \cup {None}
  /\ threads \in [Threads -> Thread]
  /\ found \in Seq(Nat)
  /\ import \in BOOLEAN

(* with_state's unwrap takes the process down in one case only: C_Finalize *)
(* came between the two locks of that very call.  Not with C_Initialize    *)
(* under way or failed, nor with any sessions opened and closed, nor with  *)
(* a C_Finalize from before the call.                                      *)
OnlyFinalizePanics ==
  \A t \in Threads :
    threads[t].pc = "in" /\ threads[t].fn # "C_Sign" /\ state = None =>
      threads[t].overtaken

(* A signature is by the key whose handle was given to the C_SignInit that *)
(* the C_Sign ends (the session's last, by whichever thread), and its      *)
(* request named that key by its true place in the avatar's list, even if  *)
(* the module was finalized and initialized with another list while the    *)
(* request was under way, or another thread chose another key.             *)
SignsChosenKey ==
  \A t \in Threads :
    /\ threads[t].req # None => threads[t].req = threads[t].wants
    /\ threads[t].got # None => threads[t].got = threads[t].wants.key

(* No operation outlives the session: C_OpenSession, which clears nothing, *)
(* hands over the operations of a session that is open, but none of one    *)
(* that was closed or finalized.                                           *)
ClosedIsClean ==
  state # None /\ ~state.session_open =>
    state.sign_op = None /\ state.find_op = None

(* A search returns, over any number of calls, by whichever threads share  *)
(* the session, the objects of the wanted class in order, each once and    *)
(* none missed, whether it is under way or has come to the end; all of     *)
(* them are handles the other functions accept.                            *)
FindIsExact ==
  state # None /\ state.find_op # None =>
    LET find == state.find_op
        wanted == {h \in 1..3 * Len(state.identities) :
                    find.class \in {"any", handle_to_identity_index(h).kind}}
        returned == {found[i] : i \in 1..Len(found)}
    IN  /\ find.position = Len(found)
        /\ returned \subseteq wanted
        /\ \A i, j \in 1..Len(found) : i < j => found[i] < found[j]
        /\ \A g \in wanted, h \in returned : g < h => g \in returned
        /\ find.position = Len(find.handles) => returned = wanted

(* By CKA_ID an application finds, for a certificate, the private key that *)
(* belongs to it: the objects with equal CKA_ID are those of one identity. *)
PairedById(ids) ==
  \A g, h \in 1..3 * Len(ids) :
    Attribute(ids, g, "ID") = Attribute(ids, h, "ID")
      <=> (g - 1) \div 3 = (h - 1) \div 3

(* That is so for as many identities as a byte tells apart, and for no     *)
(* more: nothing limits their number, and from the 257th on two share an   *)
(* id.                                                                     *)
ObjectsPair ==
  state # None => (PairedById(state.identities) <=> Len(state.identities) <= IdModulus)

(* C_Initialize returns and releases the mutex all others need; so the     *)
(* certificate is imported by a detached process, never inside it.         *)
InitializeReturns == lock # None ~> lock = None
=============================================================================
