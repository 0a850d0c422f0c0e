---------------------------- MODULE MCGrpcGateway ----------------------------
(* The gateway with two concurrent HTTP requests, each one of the          *)
(* requests below: every route, a request on no route, one on another     *)
(* method's route, an empty, an unreadable and a malformed body, a query  *)
(* that does not parse, a query naming the path's field, and an invalid   *)
(* grpc-timeout header.                                                    *)
EXTENDS GrpcGateway

MCSlots == {1, 2}
MCReplies == {"ok", "internal"}

Http(method, path, body, form, query, header) ==
    [method |-> method, path |-> path, body |-> body, form |-> form,
     query |-> query, header |-> header]

MCHttpRequests ==
    {Http("GET", <<"v1", "templates">>, "empty", "ok", <<>>, "ok"),
     Http("GET", <<"v1", "templates", "t1", "params">>, "empty", "ok", <<>>, "ok"),
     Http("GET", <<"v1", "templates", "t1", "render">>, "empty", "ok", <<>>, "ok"),
     Http("GET", <<"v1", "clusters">>, "empty", "ok", <<>>, "ok"),
     Http("POST", <<"v1", "templates", "t1", "render">>, "vals", "ok",
          <<<<"template_name", "t2">>>>, "ok"),
     Http("POST", <<"v1", "templates", "t1", "render">>, "empty", "ok", <<>>, "ok"),
     Http("POST", <<"v1", "templates", "t1", "render">>, "malformed", "ok", <<>>, "ok"),
     Http("POST", <<"v1", "templates", "t1", "render">>, "vals", "malformed", <<>>, "ok"),
     Http("POST", <<"v1", "pulls">>, "unreadable", "ok", <<>>, "ok"),
     Http("POST", <<"v1", "pulls">>, "empty", "malformed", <<>>, "ok"),
     Http("GET", <<"v1", "credentials">>, "empty", "ok", <<>>, "badTimeout")}

=============================================================================
