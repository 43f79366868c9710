------------------------------ MODULE HttpResp ------------------------------
(***************************************************************************)
(* The replies of the HTTP server: a status code and where the content is. *)
(* What the content says, its type, its encoding and the fields of the     *)
(* header are left out, except where a cookie matters (HttpAuth).          *)
(***************************************************************************)
EXTENDS Naturals

Places == {"none", "flash", "static", "heap", "fatfs", "generator"}

Reply(code, place) == [code |-> code, place |-> place]

(* http_server_resp_err and the replies that are only a code.               *)
RespErr(code) == Reply(code, "none")

PlainErrors == {RespErr(code) : code \in {302, 400, 403, 404, 409, 500, 502, 503, 504}}

(* http_server_resp_200_json: the content is one of the static buffers.     *)
Resp200Json == Reply(200, "static")

(* The 401 and 403 of the authentication: http_server_fill_auth_json writes *)
(* their content into g_auth_json, which it also does when it overflows.    *)
RespAuthJson(code) == Reply(code, "static")

RespJsonInHeap(code) == Reply(code, "heap")

(* What a callback of the application may answer with.                      *)
JsonReplies(code) == {RespJsonInHeap(code), Reply(code, "generator")}
TextReply(code) == Reply(code, "heap")
DataReplies == {Reply(200, place) : place \in {"flash", "static", "heap"}}
FileReply(code) == Reply(code, "fatfs")

AppReplies ==
  DataReplies \cup JsonReplies(200) \cup PlainErrors
    \cup {TextReply(200), RespJsonInHeap(502), FileReply(200), FileReply(404)}

(* Everything http_server_handle_req may return.                            *)
Replies == AppReplies \cup {Resp200Json, RespAuthJson(401), RespAuthJson(403)}

(* What the reply owns, until http_server_resp_free gives it back.          *)
Owns(reply) == reply.place \in {"heap", "fatfs", "generator"}

(* http_server_netconn_resp: 301 and 302 send a header only. The others     *)
(* send their content, or "{}" with the header when they have none.         *)
SendsContent(reply) == reply.code \notin {301, 302} /\ reply.place # "none"

(* The wait after a refusal.                                                *)
IsRefusal(reply) == reply.code \in {401, 403}

=============================================================================
