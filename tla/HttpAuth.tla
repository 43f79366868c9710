------------------------------ MODULE HttpAuth ------------------------------
(***************************************************************************)
(* Who may use the HTTP server: the configured authentication, the login   *)
(* under way, of which there is one at a time, the table of authorised     *)
(* sessions, and the decision about a request. A password stands for user  *)
(* and password, an id for the random session id, the challenge included,  *)
(* that the client keeps as a cookie. That digests fail to be computed and *)
(* that random ids repeat is left out.                                     *)
(***************************************************************************)
EXTENDS HttpResp

CONSTANTS
  Clients,      (* browsers and other programs                             *)
  User,         (* the one of them whose cookie is followed, or None       *)
  Addresses,    (* IP addresses requests come from                         *)
  Ids,          (* session ids                                             *)
  Passwords,
  AuthTypes,    (* configured authentications                              *)
  KeySets,      (* which of the API keys are configured                    *)
  None,         (* no id, no session, no proof, no client                  *)
  MaxSessions   (* HTTP_SERVER_AUTH_RUUVI_MAX_NUM_SESSIONS                 *)

Interactive == {"ruuvi", "default"}
Tokens == {"ro", "rw"}
Sessions == [id : Ids, ip : Addresses]
Slots == 1 .. MaxSessions

ASSUME SessionsAssumption == MaxSessions \in Nat \ {0} /\ User \in Clients \cup {None}
ASSUME NoneAssumption == None \notin Clients \cup Ids \cup Passwords \cup Tokens \cup Sessions
ASSUME ConfigAssumption ==
  /\ AuthTypes \subseteq {"allow", "basic", "digest", "deny", "bearer"} \cup Interactive
  /\ KeySets \subseteq SUBSET Tokens

VARIABLES
  auth,    (* g_auth_info: type, password, and the API keys that are set   *)
  login,   (* login_session                                                *)
  table,   (* authorized_sessions                                          *)
  jar,     (* the session cookie the user keeps                            *)
  granted  (* history: the sessions that gave the credentials that are     *)
           (* configured now, and did not end since                        *)

authVars == <<auth, login, table, jar, granted>>

AuthTypeOK ==
  /\ auth \in [type : AuthTypes, pass : Passwords, keys : KeySets]
  /\ login \in Sessions \cup {None}
  /\ table \in [Slots -> Sessions \cup {None}]
  /\ jar \in Ids \cup {None}
  /\ granted \subseteq Sessions

NoSessions == [i \in Slots |-> None]

AuthInit ==
  /\ auth \in [type : AuthTypes, pass : Passwords, keys : KeySets]
  /\ login = None /\ table = NoSessions /\ granted = {} /\ jar = None

(* What a request carries as far as it is about this: who it is from, the   *)
(* address, and whether it came through the LAN, not the access point; what *)
(* its Authorization field, or the body of a POST /auth, proves; and the    *)
(* cookie.                                                                  *)
Requests ==
  [from : Clients, ip : Addresses, lan : BOOLEAN,
   proof : Passwords \cup Tokens \cup {None}, cookie : Ids \cup {None}]

-----------------------------------------------------------------------------
(* http_server_set_auth forgets the sessions when type, user or password is *)
(* another one; the API keys are set in any case.                           *)

(* Mutated form: a new password alone leaves the sessions.                  *)
NewCredentialsByType(type, pass) == type # auth.type

NewCredentials(type, pass) == type # auth.type \/ pass # auth.pass

SetAuth ==
  \E type \in AuthTypes, pass \in Passwords, keys \in KeySets :
    /\ auth' = [type |-> type, pass |-> pass, keys |-> keys]
    /\ IF NewCredentials(type, pass)
       THEN login' = None /\ table' = NoSessions
       ELSE UNCHANGED <<login, table>>
    /\ granted' = IF type # auth.type \/ pass # auth.pass THEN {} ELSE granted
    /\ UNCHANGED jar

SessionOf(r) == [id |-> r.cookie, ip |-> r.ip]

(* http_server_auth_ruuvi_find_authorized_session.                          *)
Found(r) == {i \in Slots : table[i] # None /\ table[i] = SessionOf(r)}

IsAuthorised(r) == r.cookie # None /\ Found(r) # {}

(* A key authorises when it is set; only that for writing, where asked.     *)
KeyFits(proof, rw) == proof \in auth.keys /\ (rw => proof = "rw")

Verdict(ok) == IF ok THEN 200 ELSE 401

(* What the configured type answers to a request: one of these codes. A     *)
(* digest may find no memory to be computed in.                             *)
CheckByType(r) ==
  CASE auth.type = "allow" -> {200}
    [] auth.type = "basic" -> {Verdict(r.proof = auth.pass)}
    [] auth.type = "digest" ->
         {Verdict(r.proof = auth.pass)} \cup (IF r.proof \in Passwords THEN {503} ELSE {})
    [] auth.type \in Interactive -> {Verdict(IsAuthorised(r))}
    [] auth.type = "deny" -> {403}
    [] auth.type = "bearer" -> {500}

(* http_server_handle_req_check_auth; "rw" asks for the key for writing.    *)
CheckAuth(r, rw) ==
  IF ~r.lan THEN {200}
  ELSE IF r.proof \in Tokens THEN {Verdict(KeyFits(r.proof, rw))}
  ELSE CheckByType(r)

-----------------------------------------------------------------------------
(* GET, POST and DELETE /auth. Each operator yields the outcomes there may  *)
(* be: a code it answers and the state it leaves.                           *)

Known == {s \in {table[i] : i \in Slots} \cup {login} : s # None} \cup granted

(* A random id is one that nobody has.                                      *)
NewIds == {id \in Ids : id # jar /\ \A s \in Known : s.id # id}

Same(code) ==
  [code |-> code, login |-> login, table |-> table, jar |-> jar, granted |-> granted]

Becomes(outcome) ==
  /\ login' = outcome.login /\ table' = outcome.table
  /\ jar' = outcome.jar /\ granted' = outcome.granted
  /\ UNCHANGED auth

(* Mutated form: the shift begins one slot beyond the last.                 *)
AddedBeyond(s) == [i \in 1 .. MaxSessions + 1 |-> IF i = 1 THEN s ELSE table[i - 1]]

(* http_server_auth_ruuvi_add_authorized_session: the oldest is lost.       *)
Added(s) == [i \in Slots |-> IF i = 1 THEN s ELSE table[i - 1]]

Grant(outcome, s) ==
  [outcome EXCEPT !.table = Added(s), !.granted = (@ \ {table[MaxSessions]}) \cup {s}]

(* Mutated form: a login under way is not replaced.                         *)
NewLoginWhenFree(r, code, id) ==
  [Same(code) EXCEPT !.login = IF @ = None THEN [id |-> id, ip |-> r.ip] ELSE @,
                     !.jar = IF r.from = User THEN id ELSE @]

(* http_server_login_session_init takes the place of any login under way;   *)
(* the client keeps the cookie.                                             *)
NewLogin(r, code, id) ==
  [Same(code) EXCEPT !.login = [id |-> id, ip |-> r.ip],
                     !.jar = IF r.from = User THEN id ELSE @]

(* http_server_resp_200_auth_allow_with_new_session_id.                     *)
AllowNew(r, id) == LET new == NewLogin(r, 200, id) IN Grant(new, new.login)

NewLogins(r, code) == {NewLogin(r, code, id) : id \in NewIds}

(* http_server_handle_req_get_auth.                                         *)
GetAuth(r) ==
  IF ~r.lan THEN {Same(200)}
  ELSE IF auth.type \notin Interactive \cup {"allow"} THEN {Same(code) : code \in CheckByType(r)}
  ELSE IF IsAuthorised(r) THEN {Same(200)}
  ELSE IF auth.type = "allow" THEN {AllowNew(r, id) : id \in NewIds}
  ELSE NewLogins(r, 401)

(* http_server_handle_req_post_auth_check_login_session.                    *)
IsLoginOf(r) == r.cookie # None /\ login = SessionOf(r)

(* http_server_handle_req_post_auth_check_auth: the user, and the digest of *)
(* the password with the challenge of the login session.                    *)
AnswersChallenge(r) == r.proof = auth.pass

(* Mutated form: the login session stays after its use.                     *)
CompleteLoginStays(r) == Grant(Same(200), login)

(* The session is authorised and the login session cleared.                 *)
CompleteLogin(r) == Grant([Same(200) EXCEPT !.login = None], login)

(* http_server_handle_req_post_auth. A client that fails gets a new session *)
(* to log in with, unless there is no memory.                               *)
PostAuth(r) ==
  IF ~r.lan THEN {Same(200)}
  ELSE IF auth.type \notin Interactive THEN {Same(503)}
  ELSE IF ~IsLoginOf(r) THEN NewLogins(r, 401)
  ELSE {Same(500)} \cup (IF AnswersChallenge(r) THEN {CompleteLogin(r)} ELSE NewLogins(r, 401))

First(slots) == CHOOSE i \in slots : \A j \in slots : i <= j

(* http_server_handle_req_delete_auth, after the check of the request.      *)
DeleteAuth(r) ==
  IF auth.type \notin Interactive THEN Same(503)
  ELSE IF ~IsAuthorised(r) THEN Same(401)
  ELSE [Same(200) EXCEPT !.table[First(Found(r))] = None, !.granted = @ \ {SessionOf(r)}]

=============================================================================
