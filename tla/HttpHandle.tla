----------------------------- MODULE HttpHandle -----------------------------
(***************************************************************************)
(* http_server_handle_req: which handler a request reaches, after which    *)
(* check, and what it orders. The server handles one request at a time, so *)
(* each is one step; http_server_set_auth is taken to be called between    *)
(* two of them, as a handler of the application does. The key of the       *)
(* encrypted requests is that of the last handshake, whoever made it.      *)
(***************************************************************************)
EXTENDS HttpAuth

CONSTANT Home   (* the address of the user                                 *)

ASSUME HomeAssumption == Home \in Addresses

(* What a handler did. "file" is a file anybody may read; "page" a GET and  *)
(* "change" a POST or DELETE that was left to the application, whose answer *)
(* is not known here (0).                                                   *)
Orders == {"eth", "connect", "wps", "disconnect"}
Effects == {"none", "file", "status", "page", "scan", "logout", "change"} \cup Orders
Codes == {reply.code : reply \in Replies} \cup {0}

VARIABLES
  aes,     (* the client that shares g_http_server_ecdh_aes_key            *)
  done     (* of the request: its code, what was done, and on what grounds *)

vars == <<authVars, aes, done>>

Nothing == [code |-> 0, did |-> "none", by |-> None]

(* What a request rested on: its key or password, or its session.           *)
Grounds(r, did) ==
  LET bySession == auth.type \in Interactive /\ r.proof \notin Tokens /\ r.lan
      byProof == r.lan /\ (r.proof \in Tokens \/ auth.type \in {"basic", "digest"})
  IN  [lan     |-> r.lan,
       proof   |-> IF byProof THEN r.proof ELSE None,
       session |-> IF bySession \/ did = "logout" THEN SessionOf(r) ELSE None]

(* The grounds are only kept where there was an effect.                     *)
Answer(r, code, did) ==
  done' = [code |-> code, did |-> did, by |-> IF did = "none" THEN None ELSE Grounds(r, did)]

TypeOK ==
  /\ AuthTypeOK
  /\ aes \in Clients \cup {None}
  /\ done.code \in Codes /\ done.did \in Effects

Init == AuthInit /\ aes = None /\ done = Nothing

-----------------------------------------------------------------------------
(* GET. *)

(* http_server_ecdh_handshake; where one of its steps fails nothing but the *)
(* context of the library, which no later request uses, is changed.         *)
Handshake(r) == aes' = r.from

(* http_server_handle_req_get_with_ecdh_key: a handshake follows the        *)
(* handler, when the client asks for one. If it fails the answer is 500,    *)
(* but what the handler did stays, and so do the old key and the cookie.    *)
WithHandshake(r, code, did) ==
  \/ Answer(r, code, did) /\ (UNCHANGED aes \/ Handshake(r))
  \/ Answer(r, 500, did) /\ UNCHANGED aes

GetAuthPage(r) ==
  \E outcome \in GetAuth(r) : Becomes(outcome) /\ WithHandshake(r, outcome.code, "none")

(* A page that is not allowed leads to the login page where there is one.   *)
Refusal(r, code) ==
  IF code = 401 /\ r.proof \notin Tokens /\ auth.type \in Interactive THEN 302 ELSE code

GetWhat(file) ==
  CASE file = "ap.json" -> {<<200, "scan">>, <<503, "none">>}
    [] file = "status.json" -> {<<200, "status">>, <<503, "none">>}
    [] file = "page" -> {<<0, "page">>}

(* http_server_handle_req_get, beyond /auth: ap.json, status.json, a name   *)
(* without extension ("page"), and one with another extension ("image").    *)
Get(r) ==
  /\ UNCHANGED authVars
  /\ \/ WithHandshake(r, 0, "file")
     \/ \E file \in {"ap.json", "status.json", "page"} :
          \E code \in CheckAuth(r, file = "ap.json") :
              IF code # 200 THEN WithHandshake(r, Refusal(r, code), "none")
              ELSE \E what \in GetWhat(file) : WithHandshake(r, what[1], what[2])

-----------------------------------------------------------------------------
(* DELETE. *)

(* Mutated form: the key for reading is enough.                             *)
CheckedForReading(r, what) ==
  /\ UNCHANGED authVars
  /\ \E code \in CheckAuth(r, FALSE) :
       IF code # 200 THEN Answer(r, code, "none")
       ELSE \E w \in what : Answer(r, w[1], w[2])

(* A request that is checked is refused, or has one of the outcomes "what". *)
Checked(r, what) ==
  /\ UNCHANGED authVars
  /\ \E code \in CheckAuth(r, TRUE) :
       IF code # 200 THEN Answer(r, code, "none")
       ELSE \E w \in what : Answer(r, w[1], w[2])

(* From the LAN nobody may order what is about the Wi-Fi.                   *)
FromHotspot(r, what) == IF r.lan THEN {<<403, "none">>} ELSE what

Logout(r) ==
  LET outcome == DeleteAuth(r)
  IN  Becomes(outcome) /\ Answer(r, outcome.code, IF outcome.code = 200 THEN "logout" ELSE "none")

(* http_server_handle_req_delete.                                           *)
Delete(r) ==
  /\ UNCHANGED aes
  /\ \/ 200 \in CheckAuth(r, TRUE) /\ Logout(r)
     \/ Checked(r, FromHotspot(r, {<<200, "disconnect">>}) \cup {<<0, "change">>})

-----------------------------------------------------------------------------
(* POST. *)

(* http_server_handle_req_post_connect_json: the order, or a bad body; and  *)
(* http_server_handle_req_post_connect_wps.                                 *)
ConnectWhat == {<<200, "eth">>, <<200, "connect">>, <<400, "none">>, <<200, "wps">>}

(* http_server_handle_req_post.                                             *)
PostHandled(r) ==
  \/ \E outcome \in PostAuth(r) : Becomes(outcome) /\ Answer(r, outcome.code, "none")
  \/ Checked(r, FromHotspot(r, ConnectWhat) \cup {<<0, "change">>})

(* http_server_ecdh_decrypt: the hash tells a wrong key from the right one. *)
Decrypts(r) == aes = r.from

(* http_server_handle_req_post_with_ecdh_key: a body that is too long, that *)
(* is encrypted with another key, or that there is no memory for, is 400.   *)
Post(r, encrypted) ==
  /\ UNCHANGED aes
  /\ \/ UNCHANGED authVars /\ Answer(r, 400, "none")
     \/ (encrypted => Decrypts(r)) /\ PostHandled(r)

(* http_server_handle_req: any other method.                                *)
OtherMethod(r) == Answer(r, 400, "none") /\ UNCHANGED <<authVars, aes>>

-----------------------------------------------------------------------------
(* The answer is sent, and the next connection accepted; the configuration  *)
(* changes between the requests.                                            *)
Sent == done # Nothing /\ done' = Nothing /\ UNCHANGED <<authVars, aes>>

Configure == done = Nothing /\ SetAuth /\ UNCHANGED <<aes, done>>

(* The two steps of a login by the user: the page, with a handshake, and    *)
(* the encrypted answer to its challenge.                                   *)
Attempt(r) == r.from = User /\ r.ip = Home /\ r.lan /\ r.cookie = jar

UserAsks ==
  \E r \in Requests :
    done = Nothing /\ Attempt(r) /\ GetAuthPage(r) /\ Handshake(r)

UserAnswers ==
  \E r \in Requests :
    /\ done = Nothing /\ Attempt(r) /\ Decrypts(r)
    /\ auth.type \in Interactive /\ IsLoginOf(r) /\ AnswersChallenge(r)
    /\ PostHandled(r) /\ table' # table /\ UNCHANGED aes

Request ==
  /\ done = Nothing
  /\ \E r \in Requests :
       \/ GetAuthPage(r) \/ Get(r) \/ Delete(r) \/ OtherMethod(r)
       \/ \E encrypted \in BOOLEAN : Post(r, encrypted)

Next == Request \/ Sent \/ Configure

Spec == Init /\ [][Next]_vars

(* The user tries again, answers sooner or later what is asked, and gets    *)
(* through to the server.                                                   *)
FairSpec == Spec /\ WF_vars(Sent) /\ WF_vars(UserAsks) /\ SF_vars(UserAnswers)

-----------------------------------------------------------------------------
(* Every authorised session was opened with the credentials that are        *)
(* configured now (http_server_auth.c:56-121): those before a change of     *)
(* type, user or password, those that logged out and those shifted out of   *)
(* the table are gone from it.                                              *)
SessionsMatchCredentials == \A i \in Slots : table[i] # None => table[i] \in granted

(* After DELETE /auth is answered with 200 the session authorises nobody    *)
(* any more (http_server_handle_req_delete_auth.c:31-44), though the search *)
(* finds one entry only: it has no second one in the table, and there is no *)
(* login under way with its id.                                             *)
LogoutEndsSession ==
  done.did = "logout" =>
    \A s \in {table[i] : i \in Slots} \cup {login} : s # done.by.session

(* What came through the LAN had an effect only if the sender had the right *)
(* to it (http_server_handle_req.c:129-173, 217-234, 535-552). A request    *)
(* with an API key stands on that key alone, whatever else it carries: one  *)
(* that is set, and the one for writing if it scans, logs a session out or  *)
(* leaves a POST or DELETE to the application. Any other needs the password *)
(* with it, or a session, at its address, that was opened with it. Orders   *)
(* about the Wi-Fi never come from the LAN (lines 243-247, 556-560, 565).   *)
Writing == {"scan", "logout", "change"}

HadRight(by, did) ==
  \/ by.proof \in auth.keys /\ (did \in Writing => by.proof = "rw")
  \/ /\ by.proof \notin Tokens
     /\ \/ auth.type = "allow"
        \/ auth.type \in {"basic", "digest"} /\ by.proof = auth.pass
        \/ auth.type \in Interactive /\ by.session \in granted

Acts(by, did) == done' # done /\ did \notin {"none", "file"} /\ by.lan

OnlyAuthorisedRequestsAct ==
  [][Acts(done'.by, done'.did) =>
       done'.did \notin Orders /\ HadRight(done'.by, done'.did)]_vars

(* Clients that log in at the same time take each other's login session and *)
(* key (http_server_resp.c:381-399, http_server_ecdh.c:345). Once the       *)
(* others leave it at that, a user who tries again gets a session, wherever *)
(* the requests before left the login, the table and the key.               *)
Undisturbed == [][UserAsks \/ UserAnswers \/ Sent]_vars

HasSession == \E i \in Slots : table[i] = [id |-> jar, ip |-> Home]

ClientLogsIn == <>Undisturbed => <>[](HasSession \/ auth.type \notin Interactive)

=============================================================================
