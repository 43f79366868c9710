-------------------------- MODULE HttpHandle_proofs --------------------------
(***************************************************************************)
(* Who may use the HTTP server, for every set of clients, addresses, ids,  *)
(* passwords, keys and authentications, and every size of the table.       *)
(***************************************************************************)
EXTENDS HttpHandle, TLAPS

(* The types of what a request may change, apart from the configuration.   *)
Typed(lg, tb, jr, gr) ==
  /\ lg \in Sessions \cup {None}
  /\ tb \in [Slots -> Sessions \cup {None}]
  /\ jr \in Ids \cup {None}
  /\ gr \subseteq Sessions

(* Every session in the table was granted.                                 *)
Granted(tb, gr) == \A i \in Slots : tb[i] # None => tb[i] \in gr

(* No session is in the table twice: what is shifted out, or deleted, is   *)
(* gone from it.                                                           *)
Distinct(tb) == \A i, j \in Slots : i # j /\ tb[i] # None => tb[i] # tb[j]

(* The session that is logging in is not authorised yet. With "allow" it   *)
(* is: the same session is put in both places, but nobody completes it.    *)
LoginApart(type, lg, tb) ==
  type # "allow" /\ lg # None => \A i \in Slots : tb[i] # lg

Sound(type, lg, tb, jr, gr) ==
  Typed(lg, tb, jr, gr) /\ Granted(tb, gr) /\ Distinct(tb) /\ LoginApart(type, lg, tb)

ConfigOK == auth \in [type : AuthTypes, pass : Passwords, keys : KeySets]

AuthInv == ConfigOK /\ Sound(auth.type, login, table, jar, granted)

(* The same of an outcome of GET, POST or DELETE /auth.                    *)
SoundOutcome(o) == Sound(auth.type, o.login, o.table, o.jar, o.granted)

LEMMA NoneIsNoSession == None \notin Sessions /\ None \notin Ids
BY NoneAssumption

-----------------------------------------------------------------------------
(* What the operators of HttpAuth leave.                                   *)

LEMMA SameIsSound ==
  ASSUME AuthInv, NEW code
  PROVE  SoundOutcome(Same(code))
BY DEF AuthInv, SoundOutcome, Same

LEMMA NewIdIsNew ==
  ASSUME AuthInv, NEW id \in NewIds, NEW ip \in Addresses
  PROVE  /\ [id |-> id, ip |-> ip] \in Sessions
         /\ [id |-> id, ip |-> ip] # None
         /\ \A i \in Slots : table[i] # [id |-> id, ip |-> ip]
         /\ [id |-> id, ip |-> ip] \notin granted
<1> DEFINE new == [id |-> id, ip |-> ip]
<1>1. new \in Sessions /\ new # None
  BY NoneIsNoSession DEF NewIds, Sessions
<1>2. new.id = id
  OBVIOUS
<1>3. \A s \in Known : s # new
  BY <1>2 DEF NewIds
<1>4. \A i \in Slots : table[i] # None => table[i] \in Known
  BY DEF Known
<1>5. granted \subseteq Known
  BY DEF Known
<1> HIDE DEF new
<1> QED
  BY <1>1, <1>3, <1>4, <1>5 DEF new

LEMMA NewLoginIsSound ==
  ASSUME AuthInv, NEW r \in Requests, NEW code, NEW id \in NewIds
  PROVE  SoundOutcome(NewLogin(r, code, id))
<1> DEFINE new == [id |-> id, ip |-> r.ip]
           o == NewLogin(r, code, id)
<1>1. o.login = new /\ o.table = table /\ o.granted = granted /\ o.jar \in {id, jar}
  BY DEF NewLogin, Same
<1>2. new \in Sessions /\ \A i \in Slots : table[i] # new
  BY NewIdIsNew DEF Requests
<1>3. id \in Ids
  BY DEF NewIds
<1> HIDE DEF o, new
<1> QED
  BY <1>1, <1>2, <1>3 DEF o, AuthInv, SoundOutcome, Sound, Typed, LoginApart

(* A session that is nowhere in the table is put in front; the one that is *)
(* shifted out is no longer granted.                                       *)
LEMMA GrantIsSound ==
  ASSUME AuthInv, NEW s \in Sessions, \A i \in Slots : table[i] # s,
         NEW o, o.login \in Sessions \cup {None}, o.jar \in Ids \cup {None},
         o.granted = granted,
         NEW g, g.login = o.login, g.jar = o.jar, g.table = Added(s),
         g.granted = (granted \ {table[MaxSessions]}) \cup {s},
         auth.type # "allow" => o.login = None
  PROVE  SoundOutcome(g)
<1> DEFINE tb == Added(s)
           gr == (granted \ {table[MaxSessions]}) \cup {s}
<1>1. MaxSessions \in Slots /\ 1 \in Slots
  BY SessionsAssumption DEF Slots
<1>2. \A i \in Slots : i # 1 => i - 1 \in Slots /\ i - 1 # MaxSessions
  BY SessionsAssumption DEF Slots
<1>3. tb \in [Slots -> Sessions \cup {None}]
  BY <1>2 DEF Added, AuthInv, Sound, Typed
<1>4. /\ tb[1] = s
      /\ \A i \in Slots : i # 1 => tb[i] = table[i - 1]
  BY <1>1 DEF Added
<1>5. s # None
  BY NoneIsNoSession
<1> HIDE DEF tb
<1>6. Granted(tb, gr)
  <2> SUFFICES ASSUME NEW i \in Slots, tb[i] # None
               PROVE  tb[i] \in gr
    BY DEF Granted
  <2>1. CASE i = 1
    BY <1>4, <2>1
  <2>2. CASE i # 1
    <3>1. tb[i] = table[i - 1] /\ i - 1 \in Slots /\ i - 1 # MaxSessions
      BY <2>2, <1>2, <1>4
    <3>2. table[i - 1] \in granted
      BY <3>1 DEF AuthInv, Sound, Granted
    <3>3. table[i - 1] # table[MaxSessions]
      BY <3>1, <1>1 DEF AuthInv, Sound, Distinct
    <3> QED
      BY <3>1, <3>2, <3>3
  <2> QED
    BY <2>1, <2>2
<1>7. Distinct(tb)
  <2> SUFFICES ASSUME NEW i \in Slots, NEW j \in Slots, i # j, tb[i] # None
               PROVE  tb[i] # tb[j]
    BY DEF Distinct
  <2>1. CASE i = 1
    BY <2>1, <1>2, <1>4
  <2>2. CASE j = 1
    BY <2>2, <1>2, <1>4
  <2>3. CASE i # 1 /\ j # 1
    <3>1. i - 1 \in Slots /\ j - 1 \in Slots /\ i - 1 # j - 1
      BY <2>3, <1>2 DEF Slots
    <3>2. tb[i] = table[i - 1] /\ tb[j] = table[j - 1]
      BY <2>3, <1>4
    <3> QED
      BY <3>1, <3>2 DEF AuthInv, Sound, Distinct
  <2> QED
    BY <2>1, <2>2, <2>3
<1>8. gr \subseteq Sessions
  BY DEF AuthInv, Sound, Typed
<1> HIDE DEF gr
<1>9. Typed(g.login, tb, g.jar, gr)
  BY <1>3, <1>8 DEF Typed
<1>10. LoginApart(auth.type, g.login, tb)
  BY DEF LoginApart
<1>11. g.table = tb /\ g.granted = gr
  BY DEF tb, gr
<1> QED
  BY <1>6, <1>7, <1>9, <1>10, <1>11 DEF SoundOutcome, Sound

LEMMA AllowNewIsSound ==
  ASSUME AuthInv, auth.type = "allow", NEW r \in Requests, NEW id \in NewIds
  PROVE  SoundOutcome(AllowNew(r, id))
<1> DEFINE new == [id |-> id, ip |-> r.ip]
           o == NewLogin(r, 200, id)
           g == AllowNew(r, id)
<1>1. new \in Sessions /\ \A i \in Slots : table[i] # new
  BY NewIdIsNew DEF Requests
<1>2. o.login = new /\ o.granted = granted /\ o.jar \in {id, jar}
  BY DEF NewLogin, Same
<1>3. o.jar \in Ids \cup {None}
  BY <1>2 DEF NewIds, AuthInv, Sound, Typed
<1>4. /\ g.login = o.login /\ g.jar = o.jar /\ g.table = Added(new)
      /\ g.granted = (granted \ {table[MaxSessions]}) \cup {new}
  BY DEF AllowNew, Grant, NewLogin, Same
<1> HIDE DEF new, o, g
<1>5. SoundOutcome(g)
  BY <1>1, <1>2, <1>3, <1>4, GrantIsSound
<1> QED
  BY <1>5 DEF g

LEMMA CompleteLoginIsSound ==
  ASSUME AuthInv, auth.type # "allow", NEW r \in Requests, IsLoginOf(r)
  PROVE  SoundOutcome(CompleteLogin(r))
<1> DEFINE o == [Same(200) EXCEPT !.login = None]
           g == CompleteLogin(r)
<1>1. login \in Sessions /\ \A i \in Slots : table[i] # login
  <2>1. SessionOf(r) \in Sessions
    BY DEF IsLoginOf, SessionOf, Requests, Sessions
  <2>2. login # None
    BY <2>1, NoneIsNoSession DEF IsLoginOf
  <2> QED
    BY <2>1, <2>2 DEF IsLoginOf, AuthInv, Sound, LoginApart
<1>2. o.login = None /\ o.granted = granted /\ o.jar = jar
  BY DEF Same
<1>3. o.jar \in Ids \cup {None}
  BY <1>2 DEF AuthInv, Sound, Typed
<1>4. /\ g.login = o.login /\ g.jar = o.jar /\ g.table = Added(login)
      /\ g.granted = (granted \ {table[MaxSessions]}) \cup {login}
  BY DEF CompleteLogin, Grant, Same
<1> HIDE DEF o, g
<1>5. SoundOutcome(g)
  BY <1>1, <1>2, <1>3, <1>4, GrantIsSound
<1> QED
  BY <1>5 DEF g

(* GET, POST and DELETE /auth. *)
LEMMA GetAuthIsSound ==
  ASSUME AuthInv, NEW r \in Requests, NEW o \in GetAuth(r)
  PROVE  SoundOutcome(o)
BY SameIsSound, AllowNewIsSound, NewLoginIsSound DEF GetAuth, NewLogins

LEMMA PostAuthIsSound ==
  ASSUME AuthInv, NEW r \in Requests, NEW o \in PostAuth(r)
  PROVE  SoundOutcome(o)
<1>1. auth.type \in Interactive => auth.type # "allow"
  BY DEF Interactive
<1> QED
  BY <1>1, SameIsSound, CompleteLoginIsSound, NewLoginIsSound DEF PostAuth, NewLogins

(* The session of a request is in one slot at most. *)
LEMMA FoundOnce ==
  ASSUME AuthInv, NEW r \in Requests, IsAuthorised(r)
  PROVE  /\ First(Found(r)) \in Slots
         /\ SessionOf(r) \in Sessions
         /\ \A i \in Slots : table[i] = SessionOf(r) <=> i = First(Found(r))
<1>1. SessionOf(r) \in Sessions /\ SessionOf(r) # None
  BY NoneIsNoSession DEF IsAuthorised, SessionOf, Requests, Sessions
<1>2. PICK k \in Slots : table[k] = SessionOf(r)
  BY DEF IsAuthorised, Found
<1>3. \A i \in Slots : table[i] = SessionOf(r) => i = k
  BY <1>1, <1>2 DEF AuthInv, Sound, Distinct
<1>4. Found(r) = {k}
  BY <1>1, <1>2, <1>3 DEF Found
<1>5. First(Found(r)) = k
  <2>1. k \in Found(r) /\ \A j \in Found(r) : k <= j
    BY <1>4 DEF Slots
  <2> QED
    BY <2>1, <1>4 DEF First
<1> QED
  BY <1>1, <1>2, <1>3, <1>5

LEMMA DeleteAuthIsSound ==
  ASSUME AuthInv, NEW r \in Requests
  PROVE  /\ SoundOutcome(DeleteAuth(r))
         /\ DeleteAuth(r).code = 200 =>
              \A s \in {DeleteAuth(r).table[i] : i \in Slots} \cup {DeleteAuth(r).login} :
                s # SessionOf(r)
<1> DEFINE o == DeleteAuth(r)
           k == First(Found(r))
<1>1. CASE auth.type \notin Interactive \/ ~IsAuthorised(r)
  <2>1. o \in {Same(503), Same(401)} /\ o.code # 200
    BY <1>1 DEF DeleteAuth, Same
  <2> QED
    BY <2>1, SameIsSound
<1>2. CASE auth.type \in Interactive /\ IsAuthorised(r)
  <2>1. /\ k \in Slots /\ SessionOf(r) \in Sessions
        /\ \A i \in Slots : table[i] = SessionOf(r) <=> i = k
    BY <1>2, FoundOnce
  <2>2. /\ o.login = login /\ o.jar = jar
        /\ o.table = [table EXCEPT ![k] = None]
        /\ o.granted = granted \ {SessionOf(r)}
    BY <1>2 DEF DeleteAuth, Same
  <2>3. SessionOf(r) # None
    BY <2>1, NoneIsNoSession
  <2>4. login # SessionOf(r)
    BY <1>2, <2>1, <2>3 DEF AuthInv, Sound, LoginApart, Interactive
  <2> HIDE DEF o, k
  <2>5. \A i \in Slots : o.table[i] = IF i = k THEN None ELSE table[i]
    BY <2>2 DEF AuthInv, Sound, Typed
  <2>6. Typed(o.login, o.table, o.jar, o.granted)
    BY <2>2 DEF AuthInv, Sound, Typed
  <2>7. Granted(o.table, o.granted)
    BY <2>1, <2>2, <2>5 DEF AuthInv, Sound, Granted
  <2>8. Distinct(o.table)
    BY <2>5 DEF AuthInv, Sound, Distinct
  <2>9. LoginApart(auth.type, o.login, o.table)
    BY <2>2, <2>5 DEF AuthInv, Sound, LoginApart
  <2>10. \A i \in Slots : o.table[i] # SessionOf(r)
    BY <2>1, <2>3, <2>5
  <2> QED
    BY <2>2, <2>4, <2>6, <2>7, <2>8, <2>9, <2>10 DEF SoundOutcome, Sound, o
<1> QED
  BY <1>1, <1>2

LEMMA BecomesKeepsAuth ==
  ASSUME AuthInv, NEW o, SoundOutcome(o), Becomes(o)
  PROVE  AuthInv'
BY DEF AuthInv, ConfigOK, SoundOutcome, Becomes

LEMMA SetAuthKeepsAuth ==
  ASSUME AuthInv, SetAuth
  PROVE  AuthInv'
<1>1. PICK type \in AuthTypes, pass \in Passwords, keys \in KeySets :
        /\ auth' = [type |-> type, pass |-> pass, keys |-> keys]
        /\ IF NewCredentials(type, pass)
             THEN login' = None /\ table' = NoSessions
             ELSE UNCHANGED <<login, table>>
        /\ granted' = IF type # auth.type \/ pass # auth.pass THEN {} ELSE granted
        /\ UNCHANGED jar
  BY DEF SetAuth
<1>2. ConfigOK'
  BY <1>1 DEF ConfigOK
<1>3. CASE NewCredentials(type, pass)
  <2>1. login' = None /\ table' = NoSessions /\ granted' = {} /\ jar' = jar
    BY <1>1, <1>3 DEF NewCredentials
  <2> QED
    BY <1>2, <2>1
    DEF NoSessions, AuthInv, Sound, Typed, Granted, Distinct, LoginApart
<1>4. CASE ~NewCredentials(type, pass)
  BY <1>1, <1>2, <1>4 DEF NewCredentials, AuthInv, ConfigOK
<1> QED
  BY <1>3, <1>4

-----------------------------------------------------------------------------
(* The steps. *)

(* What a request does to the sessions: nothing, or what an outcome of     *)
(* GET, POST or DELETE /auth says.                                         *)
LEMMA RequestKeepsAuth ==
  ASSUME AuthInv, Request
  PROVE  AuthInv'
<1>0. UNCHANGED authVars => AuthInv'
  BY DEF authVars, AuthInv, ConfigOK
<1>1. PICK r \in Requests :
        \/ GetAuthPage(r) \/ Get(r) \/ Delete(r) \/ OtherMethod(r)
        \/ \E encrypted \in BOOLEAN : Post(r, encrypted)
  BY DEF Request
<1>2. CASE GetAuthPage(r)
  BY <1>2, GetAuthIsSound, BecomesKeepsAuth DEF GetAuthPage
<1>3. CASE Get(r) \/ OtherMethod(r)
  BY <1>0, <1>3 DEF Get, OtherMethod
<1>4. CASE Delete(r)
  BY <1>0, <1>4, DeleteAuthIsSound, BecomesKeepsAuth DEF Delete, Logout, Checked
<1>5. ASSUME NEW encrypted \in BOOLEAN, Post(r, encrypted) PROVE AuthInv'
  <2>1. CASE PostHandled(r)
    BY <1>0, <2>1, PostAuthIsSound, BecomesKeepsAuth DEF PostHandled, Checked
  <2> QED
    BY <1>0, <1>5, <2>1 DEF Post
<1> QED
  BY <1>1, <1>2, <1>3, <1>4, <1>5

LEMMA StepKeepsAuth ==
  ASSUME AuthInv, [Next]_vars
  PROVE  AuthInv'
<1>1. UNCHANGED authVars => AuthInv'
  BY DEF authVars, AuthInv, ConfigOK
<1> QED
  BY <1>1, RequestKeepsAuth, SetAuthKeepsAuth DEF Next, Sent, Configure, vars

LEMMA InitAuth == Init => AuthInv
BY DEF Init, AuthInit, AuthInv, ConfigOK, Sound, Typed, Granted, Distinct, LoginApart,
       NoSessions

(* Every session in the table was granted with the credentials configured  *)
(* now, for tables of any size (http_server_auth.c:56-121).                *)
THEOREM SessionsMatchCorrect == Spec => []SessionsMatchCredentials
<1>1. AuthInv => SessionsMatchCredentials
  BY DEF AuthInv, Sound, Granted, SessionsMatchCredentials
<1> QED
  BY <1>1, InitAuth, StepKeepsAuth, PTL DEF Spec

-----------------------------------------------------------------------------
(* What a request did, and on what grounds. *)

LEMMA AnswerIs ==
  ASSUME NEW r, NEW code, NEW did, Answer(r, code, did)
  PROVE  /\ done'.code = code /\ done'.did = did
         /\ did # "none" => done'.by = Grounds(r, did)
BY DEF Answer

(* How a request may be answered: which effects, after which check, may    *)
(* follow from a GET, and which from a DELETE or a POST.                   *)
GetDoes(r, did) ==
  \/ did \in {"none", "file"}
  \/ \E rw \in BOOLEAN :
       /\ 200 \in CheckAuth(r, rw)
       /\ did \in {"scan", "status", "page"} /\ (did = "scan" => rw)

ChangeDoes(r, did) ==
  \/ did = "none"
  \/ 200 \in CheckAuth(r, TRUE) /\ did \in Effects \ {"file", "scan", "status", "page"}
       /\ (r.lan => did \notin Orders)

AnswerCodes == {0, 200, 302, 400, 401, 403, 500, 503}

(* The step of one request, without what it does to the sessions, which is *)
(* told for a logout only.                                                 *)
Answered(r) ==
  \E code \in AnswerCodes, did \in Effects :
    /\ Answer(r, code, did)
    /\ GetDoes(r, did) \/ ChangeDoes(r, did)
    /\ did = "logout" => DeleteAuth(r).code = 200 /\ Becomes(DeleteAuth(r))

LEMMA CodesExist == AnswerCodes \subseteq Codes
<1>1. \A code \in {302, 400, 403, 500, 503} : RespErr(code) \in Replies
  BY DEF Replies, AppReplies, PlainErrors
<1>2. RespAuthJson(401) \in Replies /\ Resp200Json \in Replies
  BY DEF Replies
<1>3. /\ \A code \in {302, 400, 403, 500, 503} : RespErr(code).code = code
      /\ RespAuthJson(401).code = 401 /\ Resp200Json.code = 200
  BY DEF RespErr, RespAuthJson, Resp200Json, Reply
<1>4. \A reply \in Replies : reply.code \in Codes
  BY DEF Codes
<1>5. 0 \in Codes
  BY DEF Codes
<1> HIDE DEF Codes
<1> QED
  BY <1>1, <1>2, <1>3, <1>4, <1>5 DEF AnswerCodes

LEMMA CheckCodes ==
  ASSUME ConfigOK, NEW r \in Requests, NEW rw \in BOOLEAN, NEW code \in CheckAuth(r, rw)
  PROVE  code \in AnswerCodes
<1>1. auth.type \in {"allow", "basic", "digest", "deny", "bearer"} \cup Interactive
  BY ConfigAssumption DEF ConfigOK
<1>2. CheckByType(r) \subseteq AnswerCodes
  BY <1>1 DEF CheckByType, Verdict, AnswerCodes, Interactive
<1> QED
  BY <1>2 DEF CheckAuth, Verdict, AnswerCodes

LEMMA EffectlessIsAnswered ==
  ASSUME NEW r, NEW code \in AnswerCodes, Answer(r, code, "none")
  PROVE  Answered(r)
<1>1. "none" \in Effects /\ ChangeDoes(r, "none") /\ "none" # "logout"
  BY DEF Effects, ChangeDoes
<1> QED
  BY <1>1 DEF Answered

LEMMA GetAuthPageAnswers ==
  ASSUME AuthInv, NEW r \in Requests, GetAuthPage(r)
  PROVE  Answered(r)
<1>1. PICK o \in GetAuth(r) : WithHandshake(r, o.code, "none")
  BY DEF GetAuthPage
<1>2. o.code \in AnswerCodes
  <2>1. \A code \in CheckByType(r) : auth.type # "allow" => code \in AnswerCodes
    <3>1. auth.type \in {"allow", "basic", "digest", "deny", "bearer"} \cup Interactive
      BY ConfigAssumption DEF AuthInv, ConfigOK
    <3> QED
      BY <3>1 DEF CheckByType, Verdict, AnswerCodes, Interactive
  <2>2. \A code : Same(code).code = code
    BY DEF Same
  <2>3. \A id, code : NewLogin(r, code, id).code = code
    BY DEF NewLogin, Same
  <2>4. \A id : AllowNew(r, id).code = 200
    BY DEF AllowNew, Grant, NewLogin, Same
  <2> QED
    BY <2>1, <2>2, <2>3, <2>4 DEF GetAuth, NewLogins, AnswerCodes
<1>3. \E code \in AnswerCodes : Answer(r, code, "none")
  BY <1>1, <1>2 DEF WithHandshake, AnswerCodes
<1> QED
  BY <1>3, EffectlessIsAnswered

LEMMA WithHandshakeAnswers ==
  ASSUME NEW r, NEW code \in AnswerCodes, NEW did \in Effects \ {"logout"},
         WithHandshake(r, code, did), GetDoes(r, did)
  PROVE  Answered(r)
BY DEF WithHandshake, Answered, AnswerCodes

LEMMA GetAnswers ==
  ASSUME AuthInv, NEW r \in Requests, Get(r)
  PROVE  Answered(r)
<1>1. CASE WithHandshake(r, 0, "file")
  BY <1>1, WithHandshakeAnswers DEF AnswerCodes, Effects, GetDoes
<1>2. ASSUME NEW file \in {"ap.json", "status.json", "page"},
             NEW code \in CheckAuth(r, file = "ap.json"),
             IF code # 200 THEN WithHandshake(r, Refusal(r, code), "none")
             ELSE \E what \in GetWhat(file) : WithHandshake(r, what[1], what[2])
      PROVE  Answered(r)
  <2>1. code \in AnswerCodes /\ Refusal(r, code) \in AnswerCodes
    <3>1. (file = "ap.json") \in BOOLEAN
      OBVIOUS
    <3>2. code \in AnswerCodes
      BY <3>1, CheckCodes DEF AuthInv
    <3> QED
      BY <3>2 DEF Refusal, AnswerCodes
  <2>2. CASE code # 200
    BY <1>2, <2>1, <2>2, WithHandshakeAnswers DEF Effects, GetDoes
  <2>3. CASE code = 200
    <3>1. PICK what \in GetWhat(file) : WithHandshake(r, what[1], what[2])
      BY <1>2, <2>3
    <3>2. /\ what[1] \in AnswerCodes
          /\ what[2] \in {"none", "scan", "status", "page"}
          /\ what[2] = "scan" => file = "ap.json"
      BY DEF GetWhat, AnswerCodes
    <3>3. GetDoes(r, what[2])
      BY <2>3, <3>2 DEF GetDoes
    <3>4. what[2] \in Effects \ {"logout"}
      BY <3>2 DEF Effects
    <3> QED
      BY <3>1, <3>2, <3>3, <3>4, WithHandshakeAnswers
  <2> QED
    BY <2>2, <2>3
<1> QED
  BY <1>1, <1>2 DEF Get

LEMMA CheckedAnswers ==
  ASSUME AuthInv, NEW r \in Requests, NEW what, Checked(r, what),
         \A w \in what : /\ w[1] \in AnswerCodes
                         /\ w[2] \in Effects \ {"file", "scan", "status", "page", "logout"}
                         /\ r.lan => w[2] \notin Orders
  PROVE  Answered(r)
<1>1. PICK code \in CheckAuth(r, TRUE) :
        IF code # 200 THEN Answer(r, code, "none")
        ELSE \E w \in what : Answer(r, w[1], w[2])
  BY DEF Checked
<1>2. CASE code # 200
  <2>1. Answer(r, code, "none")
    BY <1>1, <1>2
  <2>2. code \in AnswerCodes
    BY CheckCodes DEF AuthInv
  <2> QED
    BY <2>1, <2>2, EffectlessIsAnswered
<1>3. CASE code = 200
  <2>1. PICK w \in what : Answer(r, w[1], w[2])
    BY <1>1, <1>3
  <2>2. ChangeDoes(r, w[2])
    BY <1>3 DEF ChangeDoes
  <2> QED
    BY <2>1, <2>2 DEF Answered
<1> QED
  BY <1>2, <1>3

LEMMA DeleteAnswers ==
  ASSUME AuthInv, NEW r \in Requests, Delete(r)
  PROVE  Answered(r)
<1>1. CASE 200 \in CheckAuth(r, TRUE) /\ Logout(r)
  <2> DEFINE code == DeleteAuth(r).code
             did == IF code = 200 THEN "logout" ELSE "none"
  <2>1. Becomes(DeleteAuth(r)) /\ Answer(r, code, did)
    BY <1>1 DEF Logout
  <2>2. code \in AnswerCodes
    BY DEF DeleteAuth, Same, AnswerCodes
  <2>3. ChangeDoes(r, did) /\ did \in Effects
    BY <1>1 DEF ChangeDoes, Effects, Orders
  <2>4. did = "logout" => code = 200
    OBVIOUS
  <2> HIDE DEF code, did
  <2>5. did = "logout" => DeleteAuth(r).code = 200
    BY <2>4 DEF code
  <2> QED
    BY <2>1, <2>2, <2>3, <2>5 DEF Answered
<1>2. CASE Checked(r, FromHotspot(r, {<<200, "disconnect">>}) \cup {<<0, "change">>})
  <2>1. \A w \in FromHotspot(r, {<<200, "disconnect">>}) \cup {<<0, "change">>} :
          /\ w[1] \in AnswerCodes
          /\ w[2] \in Effects \ {"file", "scan", "status", "page", "logout"}
          /\ r.lan => w[2] \notin Orders
    BY DEF FromHotspot, AnswerCodes, Effects, Orders
  <2> QED
    BY <1>2, <2>1, CheckedAnswers
<1> QED
  BY <1>1, <1>2 DEF Delete

LEMMA PostAnswers ==
  ASSUME AuthInv, NEW r \in Requests, NEW encrypted \in BOOLEAN, Post(r, encrypted)
  PROVE  Answered(r)
<1>1. CASE Answer(r, 400, "none")
  BY <1>1, EffectlessIsAnswered DEF AnswerCodes
<1>2. ASSUME NEW o \in PostAuth(r), Answer(r, o.code, "none") PROVE Answered(r)
  <2>1. \A code : Same(code).code = code
    BY DEF Same
  <2>2. \A id, code : NewLogin(r, code, id).code = code
    BY DEF NewLogin, Same
  <2>3. CompleteLogin(r).code = 200
    BY DEF CompleteLogin, Grant, Same
  <2>4. o.code \in AnswerCodes
    BY <2>1, <2>2, <2>3 DEF PostAuth, NewLogins, AnswerCodes
  <2> QED
    BY <1>2, <2>4, EffectlessIsAnswered
<1>3. CASE Checked(r, FromHotspot(r, ConnectWhat) \cup {<<0, "change">>})
  <2>1. \A w \in FromHotspot(r, ConnectWhat) \cup {<<0, "change">>} :
          /\ w[1] \in AnswerCodes
          /\ w[2] \in Effects \ {"file", "scan", "status", "page", "logout"}
          /\ r.lan => w[2] \notin Orders
    BY DEF FromHotspot, ConnectWhat, AnswerCodes, Effects, Orders
  <2> QED
    BY <1>3, <2>1, CheckedAnswers
<1> QED
  BY <1>1, <1>2, <1>3 DEF Post, PostHandled

LEMMA RequestAnswers ==
  ASSUME AuthInv, Request
  PROVE  \E r \in Requests : Answered(r)
<1>1. PICK r \in Requests :
        \/ GetAuthPage(r) \/ Get(r) \/ Delete(r) \/ OtherMethod(r)
        \/ \E encrypted \in BOOLEAN : Post(r, encrypted)
  BY DEF Request
<1>2. OtherMethod(r) => Answered(r)
  BY EffectlessIsAnswered DEF OtherMethod, AnswerCodes
<1> QED
  BY <1>1, <1>2, GetAuthPageAnswers, GetAnswers, DeleteAnswers, PostAnswers

-----------------------------------------------------------------------------
(* The types of all variables. *)

DoneTyped == aes \in Clients \cup {None} /\ done.code \in Codes /\ done.did \in Effects

LEMMA StepKeepsDoneTyped ==
  ASSUME AuthInv, DoneTyped, [Next]_vars
  PROVE  DoneTyped'
<1>1. CASE Request
  <2>1. PICK r \in Requests : Answered(r)
    BY <1>1, RequestAnswers
  <2>2. done'.code \in Codes /\ done'.did \in Effects
    BY <2>1, AnswerIs, CodesExist DEF Answered
  <2>3. aes' \in Clients \cup {None}
    <3>1. \A q \in Requests : \A code, did :
            WithHandshake(q, code, did) => aes' \in {aes, q.from}
      BY DEF WithHandshake, Handshake
    <3>2. PICK q \in Requests :
            \/ GetAuthPage(q) \/ Get(q) \/ Delete(q) \/ OtherMethod(q)
            \/ \E encrypted \in BOOLEAN : Post(q, encrypted)
      BY <1>1 DEF Request
    <3>3. CASE GetAuthPage(q) \/ Get(q)
      <4>1. aes' \in {aes, q.from}
        BY <3>1, <3>3 DEF GetAuthPage, Get
      <4> QED
        BY <4>1 DEF DoneTyped, Requests
    <3>4. CASE Delete(q) \/ OtherMethod(q) \/ \E encrypted \in BOOLEAN : Post(q, encrypted)
      BY <3>4 DEF Delete, Post, OtherMethod, DoneTyped
    <3> QED
      BY <3>2, <3>3, <3>4
  <2> QED
    BY <2>2, <2>3 DEF DoneTyped
<1>2. CASE Sent
  BY <1>2, CodesExist DEF DoneTyped, Sent, Nothing, AnswerCodes, Effects
<1>3. CASE Configure \/ UNCHANGED vars
  BY <1>3 DEF DoneTyped, Configure, vars
<1> QED
  BY <1>1, <1>2, <1>3 DEF Next

LEMMA InitDoneTyped == Init => DoneTyped
BY CodesExist DEF Init, DoneTyped, Nothing, AnswerCodes, Effects

(* The variables have their types, whatever requests come and however the  *)
(* configuration changes between them.                                     *)
THEOREM TypeCorrect == Spec => []TypeOK
<1>1. AuthInv /\ DoneTyped => TypeOK
  BY DEF AuthInv, ConfigOK, Sound, Typed, DoneTyped, TypeOK, AuthTypeOK
<1> QED
  BY <1>1, InitAuth, StepKeepsAuth, InitDoneTyped, StepKeepsDoneTyped, PTL DEF Spec

-----------------------------------------------------------------------------
(* Logout. *)

LEMMA StepKeepsLogout ==
  ASSUME AuthInv, LogoutEndsSession, [Next]_vars
  PROVE  LogoutEndsSession'
<1>1. CASE Request
  <2>1. PICK r \in Requests, code \in AnswerCodes, did \in Effects :
          /\ Answer(r, code, did)
          /\ did = "logout" => DeleteAuth(r).code = 200 /\ Becomes(DeleteAuth(r))
    BY <1>1, RequestAnswers DEF Answered
  <2>2. CASE did = "logout"
    <3>1. done'.did = "logout" /\ done'.by = Grounds(r, "logout")
      BY <2>1, <2>2, AnswerIs
    <3>2. Grounds(r, "logout").session = SessionOf(r)
      BY DEF Grounds
    <3>3. table' = DeleteAuth(r).table /\ login' = DeleteAuth(r).login
      BY <2>1, <2>2 DEF Becomes
    <3>4. \A s \in {DeleteAuth(r).table[i] : i \in Slots} \cup {DeleteAuth(r).login} :
            s # SessionOf(r)
      BY <2>1, <2>2, DeleteAuthIsSound
    <3> QED
      BY <3>1, <3>2, <3>3, <3>4 DEF LogoutEndsSession
  <2>3. CASE did # "logout"
    BY <2>1, <2>3, AnswerIs DEF LogoutEndsSession
  <2> QED
    BY <2>2, <2>3
<1>2. CASE Sent
  BY <1>2 DEF Sent, Nothing, LogoutEndsSession
<1>3. CASE Configure
  BY <1>3 DEF Configure, Nothing, LogoutEndsSession
<1>4. CASE UNCHANGED vars
  BY <1>4 DEF vars, authVars, LogoutEndsSession
<1> QED
  BY <1>1, <1>2, <1>3, <1>4 DEF Next

(* A session that logged out is neither in the table nor logging in, for   *)
(* any number of clients (http_server_handle_req_delete_auth.c:31-44).     *)
THEOREM LogoutCorrect == Spec => []LogoutEndsSession
<1>1. Init => LogoutEndsSession
  BY DEF Init, Nothing, LogoutEndsSession
<1> QED
  BY <1>1, InitAuth, StepKeepsAuth, StepKeepsLogout, PTL DEF Spec

-----------------------------------------------------------------------------
(* Authorisation. *)

(* A check that answers 200 to a request from the LAN rests on a right.    *)
LEMMA CheckGivesRight ==
  ASSUME AuthInv, NEW r \in Requests, r.lan, NEW rw \in BOOLEAN, 200 \in CheckAuth(r, rw),
         NEW did, did \in Writing => rw
  PROVE  HadRight(Grounds(r, did), did)
<1> DEFINE by == Grounds(r, did)
<1>1. CASE r.proof \in Tokens
  <2>1. r.proof \in auth.keys /\ (rw => r.proof = "rw")
    BY <1>1 DEF CheckAuth, Verdict, KeyFits
  <2>2. by.proof = r.proof
    BY <1>1 DEF Grounds
  <2> QED
    BY <2>1, <2>2 DEF HadRight
<1>2. CASE r.proof \notin Tokens
  <2>1. 200 \in CheckByType(r)
    BY <1>2 DEF CheckAuth
  <2>2. auth.type \in {"allow", "basic", "digest", "deny", "bearer"} \cup Interactive
    BY ConfigAssumption DEF AuthInv, ConfigOK
  <2>3. auth.type \notin {"deny", "bearer"}
    BY <2>1 DEF CheckByType, Interactive
  <2>4. by.proof \notin Tokens
    BY <1>2, NoneAssumption DEF Grounds
  <2>5. CASE auth.type \in {"basic", "digest"}
    <3>1. r.proof = auth.pass
      BY <2>1, <2>5 DEF CheckByType, Verdict, Interactive
    <3>2. by.proof = r.proof
      BY <2>5 DEF Grounds
    <3> QED
      BY <2>5, <2>4, <3>1, <3>2 DEF HadRight
  <2>6. CASE auth.type \in Interactive
    <3>1. IsAuthorised(r)
      BY <2>1, <2>6 DEF CheckByType, Verdict, Interactive
    <3>2. by.session = SessionOf(r)
      BY <1>2, <2>6 DEF Grounds
    <3>3. SessionOf(r) \in granted
      BY <3>1, FoundOnce, NoneIsNoSession DEF AuthInv, Sound, Granted
    <3> QED
      BY <2>6, <2>4, <3>2, <3>3 DEF HadRight
  <2>7. CASE auth.type = "allow"
    BY <2>7, <2>4 DEF HadRight
  <2> QED
    BY <2>2, <2>3, <2>5, <2>6, <2>7
<1> QED
  BY <1>1, <1>2

LEMMA StepIsAuthorised ==
  ASSUME AuthInv, [Next]_vars, Acts(done'.by, done'.did)
  PROVE  done'.did \notin Orders /\ HadRight(done'.by, done'.did)
<1>1. CASE Request
  <2>1. PICK r \in Requests, code \in AnswerCodes, did \in Effects :
          Answer(r, code, did) /\ (GetDoes(r, did) \/ ChangeDoes(r, did))
    BY <1>1, RequestAnswers DEF Answered
  <2>2. done'.did = did /\ did \notin {"none", "file"} /\ done'.by = Grounds(r, did)
    BY <2>1, AnswerIs DEF Acts
  <2>3. r.lan
    BY <2>2 DEF Acts, Grounds
  <2>4. CASE GetDoes(r, did)
    <3>1. PICK rw \in BOOLEAN :
            /\ 200 \in CheckAuth(r, rw)
            /\ did \in {"scan", "status", "page"} /\ (did = "scan" => rw)
      BY <2>2, <2>4 DEF GetDoes
    <3>2. HadRight(Grounds(r, did), did)
      BY <2>3, <3>1, CheckGivesRight DEF Writing
    <3> QED
      BY <2>2, <3>1, <3>2 DEF Orders
  <2>5. CASE ChangeDoes(r, did)
    <3>1. 200 \in CheckAuth(r, TRUE) /\ did \notin Orders
      BY <2>2, <2>3, <2>5 DEF ChangeDoes
    <3>2. HadRight(Grounds(r, did), did)
      BY <2>3, <3>1, CheckGivesRight
    <3> QED
      BY <2>2, <3>1, <3>2
  <2> QED
    BY <2>1, <2>4, <2>5
<1>2. CASE Sent
  BY <1>2 DEF Sent, Nothing, Acts
<1>3. CASE Configure \/ UNCHANGED vars
  BY <1>3 DEF Configure, vars, Acts
<1> QED
  BY <1>1, <1>2, <1>3 DEF Next

(* Whatever the LAN asks for, nothing but a file is given or done without  *)
(* a key, the one for writing where something is changed, the password or  *)
(* a session of the present credentials, and nothing is ordered about the  *)
(* Wi-Fi (http_server_handle_req.c:129-173, 217-247, 535-565).             *)
THEOREM AuthorisationCorrect == Spec => OnlyAuthorisedRequestsAct
<1>1. AuthInv /\ [Next]_vars =>
        [Acts(done'.by, done'.did) =>
           done'.did \notin Orders /\ HadRight(done'.by, done'.did)]_vars
  BY StepIsAuthorised
<1> QED
  BY <1>1, InitAuth, StepKeepsAuth, PTL DEF Spec, OnlyAuthorisedRequestsAct
=============================================================================
