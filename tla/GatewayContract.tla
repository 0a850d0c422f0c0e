--------------------------- MODULE GatewayContract ---------------------------
(***************************************************************************)
(* What the HTTP gateway of the ClustersService promises, stated from its *)
(* REST API (the routes its patterns name) and not from its handlers.      *)
(* Each slot is one HTTP request served by its own goroutine.  A request   *)
(* whose path is on no route, or reaching a gateway that could not         *)
(* register its handlers, is NotFound; one whose path is on a route of     *)
(* another method is Unimplemented (405 Method Not Allowed); a malformed   *)
(* one may be refused with InvalidArgument and never reaches the service.  *)
(* Any other request reaches the service at most once, as the protobuf     *)
(* request its path and body bind, and is answered with the service's     *)
(* reply or a transport error; a transport error may also come before the  *)
(* service received anything.                                              *)
(***************************************************************************)
EXTENDS Naturals, Sequences

CONSTANTS
    Slots,          \* concurrent HTTP requests
    HttpRequests,   \* the HTTP requests clients send
    Replies         \* what a ClustersService method may return

BodyFaults == {"empty", "unreadable", "malformed"}
Payloads == {h.body : h \in HttpRequests} \ BodyFaults
TransportErrors == {"unavailable", "canceled"}
NoReq == [method |-> "", path |-> <<>>, body |-> "empty", form |-> "ok",
          query |-> <<>>, header |-> "ok"]
NoCall == [rpc |-> "", name |-> "", values |-> "none"]
NoAnswer == "none"
Answers == {"notFound", "unimplemented", "invalidArgument"} \cup Replies \cup TransportErrors

\* The REST API: method, path template and the part of the body bound.
API == {[method |-> "GET",  path |-> <<"v1", "templates">>, rpc |-> "ListTemplates", body |-> "none"],
        [method |-> "GET",  path |-> <<"v1", "templates", "{template_name}", "params">>,
         rpc |-> "ListTemplateParams", body |-> "none"],
        [method |-> "POST", path |-> <<"v1", "templates", "{template_name}", "render">>,
         rpc |-> "RenderTemplate", body |-> "values"],
        [method |-> "POST", path |-> <<"v1", "pulls">>, rpc |-> "CreatePullRequest", body |-> "*"],
        [method |-> "GET",  path |-> <<"v1", "credentials">>, rpc |-> "ListCredentials", body |-> "none"]}

Fits(h, r) ==
    /\ h.method = r.method /\ Len(h.path) = Len(r.path)
    /\ \A i \in 1..Len(r.path) : r.path[i] = "{template_name}" \/ r.path[i] = h.path[i]
Routed(h) == \E r \in API : Fits(h, r)
RouteOf(h) == CHOOSE r \in API : Fits(h, r)

\* The path is on a route of some method, maybe another one.
PathRouted(h) == \E r \in API : Fits([method |-> r.method, path |-> h.path], r)

\* The protobuf request an HTTP request binds: the template name from the
\* path, and the bound part of the body (none when the body is empty).
Bind(h) ==
    LET r == RouteOf(h) IN
    [rpc |-> r.rpc,
     name |-> IF \E i \in 1..Len(r.path) : r.path[i] = "{template_name}"
                THEN h.path[CHOOSE i \in 1..Len(r.path) : r.path[i] = "{template_name}"]
                ELSE "",
     values |-> IF r.body # "none" /\ h.body \in Payloads THEN h.body ELSE "none"]

\* A request the gateway may refuse: an invalid grpc-timeout header, a
\* body that cannot be read or decoded, or a query that does not parse.
Malformed(h) ==
    h.header = "badTimeout" \/ h.body \in {"unreadable", "malformed"} \/ h.form = "malformed"

VARIABLES
    up,       \* "starting", "up" (handlers registered) or "down"
    req,      \* slot -> the HTTP request it serves, or NoReq
    served,   \* slot -> the protobuf request the service received, or NoCall
    answer    \* slot -> the HTTP answer, or NoAnswer

vars == <<up, req, served, answer>>

Init ==
    /\ up = "starting"
    /\ req = [s \in Slots |-> NoReq]
    /\ served = [s \in Slots |-> NoCall]
    /\ answer = [s \in Slots |-> NoAnswer]

Start ==
    /\ up = "starting" /\ up' \in {"up", "down"}
    /\ UNCHANGED <<req, served, answer>>

Refuse(s, h) ==
    /\ up # "starting" /\ req[s] = NoReq
    /\ req' = [req EXCEPT ![s] = h]
    /\ \/ (~PathRouted(h) \/ up = "down") /\ answer' = [answer EXCEPT ![s] = "notFound"]
       \/ ~Routed(h) /\ PathRouted(h) /\ up = "up" /\ answer' = [answer EXCEPT ![s] = "unimplemented"]
       \/ Routed(h) /\ up = "up" /\ Malformed(h) /\ answer' = [answer EXCEPT ![s] = "invalidArgument"]
    /\ UNCHANGED <<up, served>>

Accept(s, h) ==
    /\ up = "up" /\ req[s] = NoReq /\ Routed(h)
    /\ req' = [req EXCEPT ![s] = h]
    /\ UNCHANGED <<up, served, answer>>

Call(s) ==
    /\ req[s] # NoReq /\ served[s] = NoCall /\ answer[s] = NoAnswer
    /\ served' = [served EXCEPT ![s] = Bind(req[s])]
    /\ UNCHANGED <<up, req, answer>>

Fail(s) ==
    /\ req[s] # NoReq /\ served[s] = NoCall /\ answer[s] = NoAnswer
    /\ \E a \in TransportErrors : answer' = [answer EXCEPT ![s] = a]
    /\ UNCHANGED <<up, req, served>>

Reply(s) ==
    /\ served[s] # NoCall /\ answer[s] = NoAnswer
    /\ \E a \in Replies \cup TransportErrors : answer' = [answer EXCEPT ![s] = a]
    /\ UNCHANGED <<up, req, served>>

Next ==
    \/ Start
    \/ \E s \in Slots, h \in HttpRequests : Refuse(s, h) \/ Accept(s, h)
    \/ \E s \in Slots : Call(s) \/ Fail(s) \/ Reply(s)

Spec == Init /\ [][Next]_vars

=============================================================================
