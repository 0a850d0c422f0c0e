----------------------------- MODULE GrpcGateway -----------------------------
(***************************************************************************)
(* The generated HTTP gateway of the ClustersService,                      *)
(* cmd/capi-server/pkg/protos/capi_server.pb.gw.go.  The program registers *)
(* the five routes on a runtime.ServeMux once, either calling the service  *)
(* in process (RegisterClustersServiceHandlerServer) or through a gRPC     *)
(* connection it dials (RegisterClustersServiceHandlerFromEndpoint), which *)
(* a goroutine closes when the registration context is done.  Every HTTP   *)
(* request runs its handler in its own goroutine: the mux matches the     *)
(* compiled path pattern, the handler annotates the context, decodes the   *)
(* request (body, path parameter, query) in the generated request_ or      *)
(* local_request_ function, calls the method, and forwards the reply.      *)
(* Decoding touches nothing shared, so it is one step; the call and the    *)
(* reply are steps of their own, between which the connection may close.   *)
(***************************************************************************)
EXTENDS Naturals, Sequences, FiniteSets

CONSTANTS Slots, HttpRequests, Replies

\* runtime.Pattern op codes (OpPush, OpLitPush, OpConcatN, OpCapture).
OpPush == 1
OpLitPush == 2
OpConcatN == 4
OpCapture == 5

\* The compiled patterns of the five routes, with the method of each Handle.
Patterns ==
    LET p(ops, pool) == [ops |-> ops, pool |-> pool]
        named == <<2, 0, 2, 1, 1, 0, 4, 1, 5, 2, 2, 3>>
    IN {[method |-> "GET", rpc |-> "ListTemplates", pat |-> p(<<2, 0, 2, 1>>, <<"v1", "templates">>)],
        [method |-> "GET", rpc |-> "ListTemplateParams",
         pat |-> p(named, <<"v1", "templates", "template_name", "params">>)],
        [method |-> "POST", rpc |-> "RenderTemplate",
         pat |-> p(named, <<"v1", "templates", "template_name", "render">>)],
        [method |-> "POST", rpc |-> "CreatePullRequest", pat |-> p(<<2, 0, 2, 1>>, <<"v1", "pulls">>)],
        [method |-> "GET", rpc |-> "ListCredentials", pat |-> p(<<2, 0, 2, 1>>, <<"v1", "credentials">>)]}

\* Pattern.Match: the op codes as <<op, operand>> pairs; a literal or a
\* wildcard consumes one path segment, a capture binds the segment the
\* preceding push consumed to the variable the pool names.
Ops(p) == [i \in 1..(Len(p.ops) \div 2) |-> <<p.ops[2 * i - 1], p.ops[2 * i]>>]
Consumed(p, j) == Cardinality({i \in 1..j : Ops(p)[i][1] \in {OpPush, OpLitPush}})
Matches(p, path) ==
    /\ Len(path) = Consumed(p, Len(Ops(p)))
    /\ \A i \in DOMAIN Ops(p) :
          Ops(p)[i][1] = OpLitPush => path[Consumed(p, i)] = p.pool[Ops(p)[i][2] + 1]
Captures(p) == {j \in DOMAIN Ops(p) : Ops(p)[j][1] = OpCapture}
PathParams(p, path) ==
    [v \in {p.pool[Ops(p)[j][2] + 1] : j \in Captures(p)} |->
        path[Consumed(p, CHOOSE j \in Captures(p) : p.pool[Ops(p)[j][2] + 1] = v)]]

VARIABLES
    reg,      \* "none", "server", "client" (handlers registered) or "failed"
    conn,     \* the dialed *grpc.ClientConn: "none", "open" or "closed"
    pc,       \* slot -> "idle", "ready" (decoded), "called" or "done"
    req,      \* slot -> the HTTP request it serves
    preq,     \* slot -> the decoded protobuf request
    served,   \* slot -> the protobuf request the service received
    answer    \* slot -> the HTTP answer

vars == <<reg, conn, pc, req, preq, served, answer>>

\* The contract's state: the gateway is up once handlers are registered.
UpOf == CASE reg = "none" -> "starting" [] reg = "failed" -> "down" [] OTHER -> "up"

C == INSTANCE GatewayContract WITH up <- UpOf

NoReq == C!NoReq
NoCall == C!NoCall
NoAnswer == C!NoAnswer
Payloads == C!Payloads

Init ==
    /\ reg = "none" /\ conn = "none"
    /\ pc = [s \in Slots |-> "idle"]
    /\ req = [s \in Slots |-> NoReq]
    /\ preq = [s \in Slots |-> NoCall]
    /\ served = [s \in Slots |-> NoCall]
    /\ answer = [s \in Slots |-> NoAnswer]

-----------------------------------------------------------------------------
(* The generated request_ / local_request_ functions: each decodes in a    *)
(* fixed order and returns InvalidArgument at the first failing step.      *)

Decoded(r) == [ok |-> TRUE, reason |-> "none", req |-> r]
Refused(reason) == [ok |-> FALSE, reason |-> reason, req |-> NoCall]

\* The reason of the first failing check of <<reason, failed>> pairs.
FirstFailure(checks) ==
    LET failing == {i \in DOMAIN checks : checks[i][2]} IN
    IF failing = {} THEN "none"
    ELSE checks[CHOOSE i \in failing : \A j \in failing : i <= j][1]

\* IOReaderFactory reads the whole body; Decode of an empty body returns
\* io.EOF, which is not an error: the field keeps its zero value.
BodyChecks(h) == <<<<"body", h.body = "unreadable">>, <<"decode", h.body = "malformed">>>>
BodyValue(h) == IF h.body \in Payloads THEN h.body ELSE "none"

Decide(checks, r) == IF FirstFailure(checks) = "none" THEN Decoded(r) ELSE Refused(FirstFailure(checks))

ListTemplatesDecode == Decoded([NoCall EXCEPT !.rpc = "ListTemplates"])

\* pathParams["template_name"], then runtime.String, which cannot fail.
ListTemplateParamsDecode(pp) ==
    Decide(<<<<"param", "template_name" \notin DOMAIN pp>>>>,
           [rpc |-> "ListTemplateParams", name |-> pp["template_name"], values |-> "none"])

\* Mutant: a filter that lists only the body's field.
RenderFilterBodyOnly == {"values"}

\* filter_ClustersService_RenderTemplate_0: the fields bound by the body
\* and the path, which query parameters must not set.
RenderFilter == {"values", "template_name"}

\* PopulateQueryParameters: a query parameter naming a field outside the
\* filter sets it; TemplateName is the request's one other field.
PopulateQueryParameters(h, filter, r) ==
    LET named == SelectSeq(h.query, LAMBDA q : q[1] = "template_name") IN
    IF "template_name" \notin filter /\ named # <<>> THEN [r EXCEPT !.name = Head(named)[2]] ELSE r

\* Body into Values, the path parameter, ParseForm, the query parameters.
RenderTemplateDecode(h, pp) ==
    Decide(BodyChecks(h) \o <<<<"param", "template_name" \notin DOMAIN pp>>,
                              <<"form", h.form = "malformed">>>>,
           PopulateQueryParameters(h, RenderFilter,
               [rpc |-> "RenderTemplate", name |-> pp["template_name"], values |-> BodyValue(h)]))

\* The whole body is the request; the query is never read.
CreatePullRequestDecode(h) ==
    Decide(BodyChecks(h), [rpc |-> "CreatePullRequest", name |-> "", values |-> BodyValue(h)])

ListCredentialsDecode == Decoded([NoCall EXCEPT !.rpc = "ListCredentials"])

Decode(rpc, h, pp) ==
    CASE rpc = "ListTemplates"      -> ListTemplatesDecode
      [] rpc = "ListTemplateParams" -> ListTemplateParamsDecode(pp)
      [] rpc = "RenderTemplate"     -> RenderTemplateDecode(h, pp)
      [] rpc = "CreatePullRequest"  -> CreatePullRequestDecode(h)
      [] rpc = "ListCredentials"    -> ListCredentialsDecode

-----------------------------------------------------------------------------
(* Registration and the connection. *)

RegisterClustersServiceHandlerServer ==
    /\ reg = "none" /\ reg' = "server"
    /\ UNCHANGED <<conn, pc, req, preq, served, answer>>

\* grpc.Dial fails (and the function returns its error), or the handlers
\* are registered with a client on the new connection.
RegisterClustersServiceHandlerFromEndpoint ==
    /\ reg = "none"
    /\ \/ reg' = "failed" /\ UNCHANGED conn
       \/ reg' = "client" /\ conn' = "open"
    /\ UNCHANGED <<pc, req, preq, served, answer>>

\* The goroutine that waits for ctx.Done() and closes the connection.
CloseConn ==
    /\ conn = "open" /\ conn' = "closed"
    /\ UNCHANGED <<reg, pc, req, preq, served, answer>>

-----------------------------------------------------------------------------
(* Serving. *)

Finish(s, a) ==
    /\ pc' = [pc EXCEPT ![s] = "done"]
    /\ answer' = [answer EXCEPT ![s] = a]

\* runtime.ServeMux.ServeHTTP over the patterns the registration put on
\* it with mux.Handle: no pattern of any method matches the path (or
\* nothing is registered, the Dial having failed): NotFound.
MuxNotFound(s, h) ==
    /\ pc[s] = "idle" /\ reg # "none"
    /\ (reg = "failed" \/ ~\E rt \in Patterns : Matches(rt.pat, h.path))
    /\ req' = [req EXCEPT ![s] = h] /\ Finish(s, "notFound")
    /\ UNCHANGED <<reg, conn, preq, served>>

\* The path matches only a pattern of another method: the routing error
\* handler answers 405 Method Not Allowed as codes.Unimplemented.
MuxMethodNotAllowed(s, h) ==
    /\ pc[s] = "idle" /\ reg \in {"server", "client"}
    /\ ~\E rt \in Patterns : rt.method = h.method /\ Matches(rt.pat, h.path)
    /\ \E rt \in Patterns : Matches(rt.pat, h.path)
    /\ req' = [req EXCEPT ![s] = h] /\ Finish(s, "unimplemented")
    /\ UNCHANGED <<reg, conn, preq, served>>

\* A registered handler: AnnotateContext (InvalidArgument on a bad
\* grpc-timeout header), then the request function's decoding.
Handle(s, h) ==
    /\ pc[s] = "idle"
    /\ \E rt \in Patterns :
          /\ rt.method = h.method /\ Matches(rt.pat, h.path)
          /\ req' = [req EXCEPT ![s] = h]
          /\ LET d == Decode(rt.rpc, h, PathParams(rt.pat, h.path)) IN
             \/ h.header = "badTimeout" /\ Finish(s, "invalidArgument") /\ UNCHANGED preq
             \/ h.header = "ok" /\ ~d.ok /\ Finish(s, "invalidArgument") /\ UNCHANGED preq
             \/ h.header = "ok" /\ d.ok /\ preq' = [preq EXCEPT ![s] = d.req]
                /\ pc' = [pc EXCEPT ![s] = "ready"] /\ UNCHANGED answer
    /\ UNCHANGED <<reg, conn, served>>

ServerHandler(s, h) == reg = "server" /\ Handle(s, h)
ClientHandler(s, h) == reg = "client" /\ Handle(s, h)

\* Mutant: the client waits for the connection to be ready (as with
\* grpc.WaitForReady), so a call on a closed connection never returns.
CallWaitsForReady(s) ==
    /\ pc[s] = "ready"
    /\ (reg = "server" \/ (reg = "client" /\ conn = "open"))
    /\ served' = [served EXCEPT ![s] = preq[s]]
    /\ pc' = [pc EXCEPT ![s] = "called"]
    /\ UNCHANGED <<reg, conn, req, preq, answer>>

\* server.X(ctx, &protoReq), or client.X over the connection.  client.X
\* may fail before the request is sent: Unavailable while the connection
\* is in transient failure (calls fail fast), Canceled when the HTTP
\* client's context ends; on a closed connection it fails with Canceled.
Call(s) ==
    /\ pc[s] = "ready"
    /\ \/ (reg = "server" \/ (reg = "client" /\ conn = "open"))
          /\ served' = [served EXCEPT ![s] = preq[s]]
          /\ pc' = [pc EXCEPT ![s] = "called"] /\ UNCHANGED answer
       \/ reg = "client" /\ conn = "open"
          /\ \E e \in C!TransportErrors : Finish(s, e) /\ UNCHANGED served
       \/ reg = "client" /\ conn = "closed" /\ Finish(s, "canceled") /\ UNCHANGED served
    /\ UNCHANGED <<reg, conn, req, preq>>

\* The method returns; an error goes to HTTPError, a reply is forwarded.
\* Over a connection the call may also fail after the service has run.
Reply(s) ==
    /\ pc[s] = "called"
    /\ \/ \E a \in Replies : Finish(s, a)
       \/ reg = "client" /\ Finish(s, "unavailable")
       \/ reg = "client" /\ conn = "closed" /\ Finish(s, "canceled")
    /\ UNCHANGED <<reg, conn, req, preq, served>>

Next ==
    \/ RegisterClustersServiceHandlerServer \/ RegisterClustersServiceHandlerFromEndpoint
    \/ CloseConn
    \/ \E s \in Slots, h \in HttpRequests :
          \/ MuxNotFound(s, h) \/ MuxMethodNotAllowed(s, h)
          \/ ServerHandler(s, h) \/ ClientHandler(s, h)
    \/ \E s \in Slots : Call(s) \/ Reply(s)

\* net/http runs each handler in a goroutine to its end, and the service
\* answers each call it receives.
Spec == Init /\ [][Next]_vars /\ \A s \in Slots : WF_vars(Call(s)) /\ WF_vars(Reply(s))

-----------------------------------------------------------------------------
(* Properties *)

\* The gateway implements its contract: a request reaches the service only
\* if its route matched, at most once, as the protobuf request its path
\* and body bind (query parameters cannot override them); it is refused
\* only when malformed, unrouted (NotFound) or on another method's route
\* (Unimplemented); its answer is the service's reply or a transport
\* error, which may come before the service received the request.
ImplementsContract == C!Spec

\* Every HTTP request a handler goroutine takes is eventually answered,
\* also when the connection is closed under it.
EveryRequestAnswered == \A s \in Slots : req[s] # NoReq ~> answer[s] # NoAnswer

=============================================================================
