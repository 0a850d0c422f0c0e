------------------------- MODULE GrpcGatewayProofs --------------------------
(***************************************************************************)
(* The gateway implements its contract (GatewayContract under the mapping *)
(* up <- UpOf) for every set of slots, HTTP requests and service replies.  *)
(***************************************************************************)
EXTENDS GrpcGateway, FiniteSetTheorems, TLAPS

(***************************************************************************)
(* What a slot's handler goroutine has done so far, in terms of the       *)
(* contract's variables: an idle slot has taken no request; a decoded one *)
(* holds the protobuf request its route binds and has not called; a      *)
(* called one has reached the service and waits for the answer.          *)
(***************************************************************************)
GInv ==
    /\ pc \in [Slots -> {"idle", "ready", "called", "done"}]
    /\ DOMAIN req = Slots /\ DOMAIN preq = Slots
    /\ DOMAIN served = Slots /\ DOMAIN answer = Slots
    /\ \A s \in Slots :
          /\ pc[s] = "idle" => req[s] = NoReq /\ served[s] = NoCall /\ answer[s] = NoAnswer
          /\ pc[s] = "ready" =>
                /\ req[s] # NoReq /\ C!Routed(req[s]) /\ preq[s] = C!Bind(req[s])
                /\ served[s] = NoCall /\ answer[s] = NoAnswer
          /\ pc[s] = "called" => served[s] # NoCall /\ answer[s] = NoAnswer


-----------------------------------------------------------------------------
(* The compiled patterns.  Two op sequences occur: two literals, and      *)
(* literal, literal, wildcard capture, literal.                           *)

Lit2 == <<2, 0, 2, 1>>
Named == <<2, 0, 2, 1, 1, 0, 4, 1, 5, 2, 2, 3>>

\* The op pairs of the two-literal pattern, and the segments they consume.
LEMMA Lit2Ops ==
    ASSUME NEW pool
    PROVE  LET p == [ops |-> Lit2, pool |-> pool] IN
           /\ DOMAIN Ops(p) = 1..2 /\ Len(Ops(p)) = 2
           /\ Ops(p)[1] = <<2, 0>> /\ Ops(p)[2] = <<2, 1>>
           /\ Consumed(p, 1) = 1 /\ Consumed(p, 2) = 2
<1> DEFINE p == [ops |-> Lit2, pool |-> pool]
<1>1. DOMAIN Ops(p) = 1..2 /\ Len(Ops(p)) = 2 /\ Ops(p)[1] = <<2, 0>> /\ Ops(p)[2] = <<2, 1>>
  BY DEF Ops, Lit2
<1>2. {i \in 1..1 : Ops(p)[i][1] \in {OpPush, OpLitPush}} = {1}
  BY <1>1 DEF OpPush, OpLitPush
<1>3. {i \in 1..2 : Ops(p)[i][1] \in {OpPush, OpLitPush}} = 1..2
  BY <1>1 DEF OpPush, OpLitPush
<1>4. Cardinality({1}) = 1
  BY FS_Singleton
<1>6. Cardinality(1..2) = 2
  <2>1. 1 \in Int /\ 2 \in Int
    OBVIOUS
  <2>2. Cardinality(1..2) = IF 1 > 2 THEN 0 ELSE 2 - 1 + 1
    BY <2>1, FS_Interval
  <2>3. QED
    BY <2>2
<1>5. QED
  BY <1>1, <1>2, <1>3, <1>4, <1>6 DEF Consumed

\* Pattern.Match of a two-literal pattern: exactly its two segments.
LEMMA Lit2Matches ==
    ASSUME NEW pool, NEW path
    PROVE  Matches([ops |-> Lit2, pool |-> pool], path)
           <=> Len(path) = 2 /\ path[1] = pool[1] /\ path[2] = pool[2]
<1> DEFINE p == [ops |-> Lit2, pool |-> pool]
<1>1. DOMAIN Ops(p) = 1..2 /\ Len(Ops(p)) = 2
      /\ Ops(p)[1] = <<2, 0>> /\ Ops(p)[2] = <<2, 1>>
      /\ Consumed(p, 1) = 1 /\ Consumed(p, 2) = 2
  BY Lit2Ops
<1>2. \A i \in DOMAIN Ops(p) : i = 1 \/ i = 2
  BY <1>1
<1>3. Consumed(p, Len(Ops(p))) = 2
  BY <1>1
<1>5. DOMAIN Ops(p) = {1, 2}
  BY <1>1
<1>3a. Matches(p, path) <=>
        /\ Len(path) = 2
        /\ \A i \in {1, 2} : Ops(p)[i][1] = OpLitPush => path[Consumed(p, i)] = p.pool[Ops(p)[i][2] + 1]
  BY <1>3, <1>5, Zenon DEF Matches
<1>4. QED
  BY <1>1, <1>3a DEF OpLitPush


\* 1..n has n elements.
LEMMA CardOneTo ==
    ASSUME NEW n \in Nat
    PROVE  IsFiniteSet(1..n) /\ Cardinality(1..n) = n
<1>1. 1 \in Int /\ n \in Int
  OBVIOUS
<1>2. IsFiniteSet(1..n) /\ Cardinality(1..n) = IF 1 > n THEN 0 ELSE n - 1 + 1
  BY <1>1, FS_Interval
<1>3. QED
  BY <1>2

\* The op pairs of the pattern with a captured segment, the segments they
\* consume, and its one capture.
LEMMA NamedOps ==
    ASSUME NEW pool
    PROVE  LET p == [ops |-> Named, pool |-> pool] IN
           /\ DOMAIN Ops(p) = 1..6 /\ Len(Ops(p)) = 6
           /\ Ops(p)[1] = <<2, 0>> /\ Ops(p)[2] = <<2, 1>> /\ Ops(p)[3] = <<1, 0>>
           /\ Ops(p)[4] = <<4, 1>> /\ Ops(p)[5] = <<5, 2>> /\ Ops(p)[6] = <<2, 3>>
           /\ Consumed(p, 1) = 1 /\ Consumed(p, 2) = 2 /\ Consumed(p, 3) = 3
           /\ Consumed(p, 5) = 3 /\ Consumed(p, 6) = 4
           /\ Captures(p) = {5}
<1> DEFINE p == [ops |-> Named, pool |-> pool]
<1> DEFINE pushed(j) == {i \in 1..j : Ops(p)[i][1] \in {OpPush, OpLitPush}}
<1>1. /\ DOMAIN Ops(p) = 1..6 /\ Len(Ops(p)) = 6
      /\ Ops(p)[1] = <<2, 0>> /\ Ops(p)[2] = <<2, 1>> /\ Ops(p)[3] = <<1, 0>>
      /\ Ops(p)[4] = <<4, 1>> /\ Ops(p)[5] = <<5, 2>> /\ Ops(p)[6] = <<2, 3>>
  BY DEF Ops, Named
<1>2. /\ pushed(1) = 1..1 /\ pushed(2) = 1..2 /\ pushed(3) = 1..3
      /\ pushed(5) = 1..3 /\ pushed(6) = (1..3) \cup {6}
  BY <1>1 DEF OpPush, OpLitPush
<1>3. Cardinality((1..3) \cup {6}) = 4
  <2>1. IsFiniteSet(1..3) /\ Cardinality(1..3) = 3
    BY CardOneTo
  <2>2. 6 \notin 1..3
    OBVIOUS
  <2>3. QED
    BY <2>1, <2>2, FS_AddElement
<1>4. /\ Cardinality(1..1) = 1 /\ Cardinality(1..2) = 2 /\ Cardinality(1..3) = 3
  BY CardOneTo
<1>5. Captures(p) = {5}
  BY <1>1 DEF Captures, OpCapture
<1>6. QED
  BY <1>1, <1>2, <1>3, <1>4, <1>5 DEF Consumed

\* Pattern.Match of the captured pattern: four segments, the first, second
\* and fourth literal; the third is bound to the pool's third name.
LEMMA NamedMatches ==
    ASSUME NEW pool, NEW path
    PROVE  /\ Matches([ops |-> Named, pool |-> pool], path)
                <=> Len(path) = 4 /\ path[1] = pool[1] /\ path[2] = pool[2] /\ path[4] = pool[4]
           /\ PathParams([ops |-> Named, pool |-> pool], path) = [v \in {pool[3]} |-> path[3]]
<1> DEFINE p == [ops |-> Named, pool |-> pool]
<1>1. /\ DOMAIN Ops(p) = 1..6 /\ Len(Ops(p)) = 6
      /\ Ops(p)[1] = <<2, 0>> /\ Ops(p)[2] = <<2, 1>> /\ Ops(p)[3] = <<1, 0>>
      /\ Ops(p)[4] = <<4, 1>> /\ Ops(p)[5] = <<5, 2>> /\ Ops(p)[6] = <<2, 3>>
      /\ Consumed(p, 1) = 1 /\ Consumed(p, 2) = 2 /\ Consumed(p, 3) = 3
      /\ Consumed(p, 5) = 3 /\ Consumed(p, 6) = 4
      /\ Captures(p) = {5}
  BY NamedOps
<1>2. Consumed(p, Len(Ops(p))) = 4
  BY <1>1
<1>3. DOMAIN Ops(p) = {1, 2, 3, 4, 5, 6}
  BY <1>1
<1>4. Matches(p, path) <=>
        /\ Len(path) = 4
        /\ \A i \in {1, 2, 3, 4, 5, 6} :
              Ops(p)[i][1] = OpLitPush => path[Consumed(p, i)] = p.pool[Ops(p)[i][2] + 1]
  BY <1>2, <1>3, Zenon DEF Matches
<1>5. PathParams(p, path) = [v \in {pool[3]} |-> path[3]]
  BY <1>1 DEF PathParams
<1>6. QED
  BY <1>1, <1>4, <1>5 DEF OpLitPush


-----------------------------------------------------------------------------
(* The contract's routes, and when an HTTP request fits one.               *)

Tmpl == "{template_name}"
Route(m, path, rpc, body) == [method |-> m, path |-> path, rpc |-> rpc, body |-> body]
RLT == Route("GET", <<"v1", "templates">>, "ListTemplates", "none")
RLTP == Route("GET", <<"v1", "templates", Tmpl, "params">>, "ListTemplateParams", "none")
RRT == Route("POST", <<"v1", "templates", Tmpl, "render">>, "RenderTemplate", "values")
RCPR == Route("POST", <<"v1", "pulls">>, "CreatePullRequest", "*")
RLC == Route("GET", <<"v1", "credentials">>, "ListCredentials", "none")

LEMMA APIList == C!API = {RLT, RLTP, RRT, RCPR, RLC}
  BY DEF C!API, RLT, RLTP, RRT, RCPR, RLC, Route, Tmpl

\* A route of two literal segments fits exactly the paths of those segments.
LEMMA FitsLit2 ==
    ASSUME NEW h, NEW m, NEW a, NEW b, NEW rpc, NEW body, a # Tmpl, b # Tmpl
    PROVE  C!Fits(h, Route(m, <<a, b>>, rpc, body))
           <=> h.method = m /\ Len(h.path) = 2 /\ h.path[1] = a /\ h.path[2] = b
<1> DEFINE t == <<a, b>>
<1>1. Route(m, t, rpc, body).path = t /\ Route(m, t, rpc, body).method = m /\ Len(t) = 2
  BY DEF Route
<1>2. C!Fits(h, Route(m, t, rpc, body))
      <=> h.method = m /\ Len(h.path) = 2 /\ \A i \in 1..2 : t[i] = Tmpl \/ t[i] = h.path[i]
  BY <1>1 DEF C!Fits, Tmpl
<1>3. \A i \in 1..2 : i = 1 \/ i = 2
  OBVIOUS
<1>6. t[1] = a /\ t[2] = b
  OBVIOUS
<1>4. (\A i \in 1..2 : t[i] = Tmpl \/ t[i] = h.path[i]) <=> h.path[1] = a /\ h.path[2] = b
  BY <1>3, <1>6, 1 \in 1..2, 2 \in 1..2, Zenon
<1>5. QED
  BY <1>2, <1>4

\* A route with the template name third fits the paths of its other three
\* segments.
LEMMA FitsNamed ==
    ASSUME NEW h, NEW m, NEW a, NEW b, NEW d, NEW rpc, NEW body, a # Tmpl, b # Tmpl, d # Tmpl
    PROVE  C!Fits(h, Route(m, <<a, b, Tmpl, d>>, rpc, body))
           <=> h.method = m /\ Len(h.path) = 4 /\ h.path[1] = a /\ h.path[2] = b /\ h.path[4] = d
<1> DEFINE t == <<a, b, Tmpl, d>>
<1>1. Route(m, t, rpc, body).path = t /\ Route(m, t, rpc, body).method = m /\ Len(t) = 4
  BY DEF Route
<1>2. C!Fits(h, Route(m, t, rpc, body))
      <=> h.method = m /\ Len(h.path) = 4 /\ \A i \in 1..4 : t[i] = Tmpl \/ t[i] = h.path[i]
  BY <1>1 DEF C!Fits, Tmpl
<1>3. \A i \in 1..4 : i = 1 \/ i = 2 \/ i = 3 \/ i = 4
  OBVIOUS
<1>6. t[1] = a /\ t[2] = b /\ t[3] = Tmpl /\ t[4] = d
  OBVIOUS
<1>4. (\A i \in 1..4 : t[i] = Tmpl \/ t[i] = h.path[i]) <=> h.path[1] = a /\ h.path[2] = b /\ h.path[4] = d
  BY <1>3, <1>6, 1 \in 1..4, 2 \in 1..4, 3 \in 1..4, 4 \in 1..4, Zenon
<1>5. QED
  BY <1>2, <1>4


\* What each route fits.
LEMMA FitsEach ==
    ASSUME NEW h
    PROVE  /\ C!Fits(h, RLT) <=> h.method = "GET" /\ Len(h.path) = 2
                                 /\ h.path[1] = "v1" /\ h.path[2] = "templates"
           /\ C!Fits(h, RLTP) <=> h.method = "GET" /\ Len(h.path) = 4 /\ h.path[1] = "v1"
                                  /\ h.path[2] = "templates" /\ h.path[4] = "params"
           /\ C!Fits(h, RRT) <=> h.method = "POST" /\ Len(h.path) = 4 /\ h.path[1] = "v1"
                                 /\ h.path[2] = "templates" /\ h.path[4] = "render"
           /\ C!Fits(h, RCPR) <=> h.method = "POST" /\ Len(h.path) = 2
                                  /\ h.path[1] = "v1" /\ h.path[2] = "pulls"
           /\ C!Fits(h, RLC) <=> h.method = "GET" /\ Len(h.path) = 2
                                 /\ h.path[1] = "v1" /\ h.path[2] = "credentials"
<1>1. "v1" # Tmpl /\ "templates" # Tmpl /\ "params" # Tmpl /\ "render" # Tmpl
      /\ "pulls" # Tmpl /\ "credentials" # Tmpl
  BY DEF Tmpl
<1>2. QED
  BY <1>1, FitsLit2, FitsNamed DEF RLT, RLTP, RRT, RCPR, RLC

\* The routes are disjoint: a request fits at most one.
LEMMA FitsUnique ==
    ASSUME NEW h, NEW r1 \in C!API, NEW r2 \in C!API, C!Fits(h, r1), C!Fits(h, r2)
    PROVE  r1 = r2
  BY FitsEach, APIList

\* The route a routed request fits is the one the contract binds it by.
LEMMA RouteOfFits ==
    ASSUME NEW h, NEW r \in C!API, C!Fits(h, r)
    PROVE  C!Routed(h) /\ C!RouteOf(h) = r
  BY FitsUnique DEF C!Routed, C!RouteOf


-----------------------------------------------------------------------------
(* Each compiled pattern matches exactly the requests its route fits.      *)

Pat(m, rpc, ops, pool) == [method |-> m, rpc |-> rpc, pat |-> [ops |-> ops, pool |-> pool]]
PLT == Pat("GET", "ListTemplates", Lit2, <<"v1", "templates">>)
PLTP == Pat("GET", "ListTemplateParams", Named, <<"v1", "templates", "template_name", "params">>)
PRT == Pat("POST", "RenderTemplate", Named, <<"v1", "templates", "template_name", "render">>)
PCPR == Pat("POST", "CreatePullRequest", Lit2, <<"v1", "pulls">>)
PLC == Pat("GET", "ListCredentials", Lit2, <<"v1", "credentials">>)

\* The route each pattern is registered for, by its method's name.
RouteFor == [ListTemplates |-> RLT, ListTemplateParams |-> RLTP, RenderTemplate |-> RRT,
             CreatePullRequest |-> RCPR, ListCredentials |-> RLC]

LEMMA PatternsList == Patterns = {PLT, PLTP, PRT, PCPR, PLC}
  BY DEF Patterns, PLT, PLTP, PRT, PCPR, PLC, Pat, Lit2, Named

\* The registered pattern of a handler matches a request iff the route of
\* that method fits it.
LEMMA MatchFits ==
    ASSUME NEW h, NEW rt \in Patterns
    PROVE  /\ RouteFor[rt.rpc] \in C!API /\ RouteFor[rt.rpc].rpc = rt.rpc
           /\ (rt.method = h.method /\ Matches(rt.pat, h.path)) <=> C!Fits(h, RouteFor[rt.rpc])
<1>1. CASE rt = PLT
  BY <1>1, APIList, FitsEach, Lit2Matches DEF PLT, Pat, RouteFor, RLT, Route
<1>2. CASE rt = PLTP
  <2> DEFINE pool == <<"v1", "templates", "template_name", "params">>
  <2>1. rt.method = "GET" /\ rt.rpc = "ListTemplateParams" /\ rt.pat = [ops |-> Named, pool |-> pool]
    BY <1>2 DEF PLTP, Pat
  <2>2. pool[1] = "v1" /\ pool[2] = "templates" /\ pool[4] = "params"
    OBVIOUS
  <2>3. Matches([ops |-> Named, pool |-> pool], h.path)
          <=> Len(h.path) = 4 /\ h.path[1] = pool[1] /\ h.path[2] = pool[2] /\ h.path[4] = pool[4]
    BY NamedMatches
  <2>6. Matches(rt.pat, h.path) <=> Len(h.path) = 4 /\ h.path[1] = "v1" /\ h.path[2] = "templates"
                                    /\ h.path[4] = "params"
    BY <2>1, <2>2, <2>3
  <2>4. RouteFor[rt.rpc] = RLTP /\ RLTP.rpc = rt.rpc /\ RLTP \in C!API
    BY <2>1, APIList DEF RouteFor, RLTP, Route
  <2>5. QED
    BY <2>1, <2>6, <2>4, FitsEach
<1>3. CASE rt = PRT
  <2> DEFINE pool == <<"v1", "templates", "template_name", "render">>
  <2>1. rt.method = "POST" /\ rt.rpc = "RenderTemplate" /\ rt.pat = [ops |-> Named, pool |-> pool]
    BY <1>3 DEF PRT, Pat
  <2>2. pool[1] = "v1" /\ pool[2] = "templates" /\ pool[4] = "render"
    OBVIOUS
  <2>3. Matches([ops |-> Named, pool |-> pool], h.path)
          <=> Len(h.path) = 4 /\ h.path[1] = pool[1] /\ h.path[2] = pool[2] /\ h.path[4] = pool[4]
    BY NamedMatches
  <2>6. Matches(rt.pat, h.path) <=> Len(h.path) = 4 /\ h.path[1] = "v1" /\ h.path[2] = "templates"
                                    /\ h.path[4] = "render"
    BY <2>1, <2>2, <2>3
  <2>4. RouteFor[rt.rpc] = RRT /\ RRT.rpc = rt.rpc /\ RRT \in C!API
    BY <2>1, APIList DEF RouteFor, RRT, Route
  <2>5. QED
    BY <2>1, <2>6, <2>4, FitsEach
<1>4. CASE rt = PCPR
  BY <1>4, APIList, FitsEach, Lit2Matches DEF PCPR, Pat, RouteFor, RCPR, Route
<1>5. CASE rt = PLC
  BY <1>5, APIList, FitsEach, Lit2Matches DEF PLC, Pat, RouteFor, RLC, Route
<1>6. QED
  BY <1>1, <1>2, <1>3, <1>4, <1>5, PatternsList

\* The mux finds a pattern for a request iff the request is routed.
LEMMA MatchRouted ==
    ASSUME NEW h
    PROVE  (\E rt \in Patterns : rt.method = h.method /\ Matches(rt.pat, h.path)) <=> C!Routed(h)
<1>1. \A r \in C!API : \E rt \in Patterns : RouteFor[rt.rpc] = r
  BY APIList, PatternsList DEF RouteFor, PLT, PLTP, PRT, PCPR, PLC, Pat
<1>2. QED
  BY <1>1, MatchFits DEF C!Routed


\* A pattern that matches binds the route whose path template it compiles.
LEMMA RouteOfMatch ==
    ASSUME NEW h, NEW rt \in Patterns, rt.method = h.method, Matches(rt.pat, h.path)
    PROVE  C!Routed(h) /\ C!RouteOf(h) = RouteFor[rt.rpc]
  BY MatchFits, RouteOfFits

\* The mux finds a pattern of some method for a path iff the path is on a
\* route of the REST API.
LEMMA MatchPathRouted ==
    ASSUME NEW h
    PROVE  (\E rt \in Patterns : Matches(rt.pat, h.path)) <=> C!PathRouted(h)
<1> DEFINE On(m) == [method |-> m, path |-> h.path]
<1>1. ASSUME NEW m
      PROVE  (\E rt \in Patterns : rt.method = m /\ Matches(rt.pat, h.path)) <=> C!Routed(On(m))
  <2>1. On(m).method = m /\ On(m).path = h.path
    OBVIOUS
  <2> QED BY <2>1, MatchRouted
<1>2. ASSUME NEW rt \in Patterns, Matches(rt.pat, h.path) PROVE C!PathRouted(h)
  <2>1. PICK r \in C!API : C!Fits(On(rt.method), r)
    BY <1>1, <1>2 DEF C!Routed
  <2>2. r.method = rt.method
    BY <2>1 DEF C!Fits
  <2> QED BY <2>1, <2>2 DEF C!PathRouted
<1>3. ASSUME C!PathRouted(h) PROVE \E rt \in Patterns : Matches(rt.pat, h.path)
  <2>1. PICK r \in C!API : C!Fits(On(r.method), r)
    BY <1>3 DEF C!PathRouted
  <2> QED BY <2>1, <1>1 DEF C!Routed
<1> QED BY <1>2, <1>3

-----------------------------------------------------------------------------
(* What the contract binds: the template name is the third segment of the *)
(* two routes whose path holds {template_name}, and empty on the others.  *)

LEMMA NoTmpl2 ==
    ASSUME NEW x, NEW y, x # Tmpl, y # Tmpl
    PROVE  ~\E i \in 1..Len(<<x, y>>) : <<x, y>>[i] = Tmpl
<1>1. 1..Len(<<x, y>>) = {1, 2}
  OBVIOUS
<1>2. <<x, y>>[1] = x /\ <<x, y>>[2] = y
  OBVIOUS
<1>3. QED
  BY <1>1, <1>2

LEMMA Tmpl3 ==
    ASSUME NEW x, NEW y, NEW z, x # Tmpl, y # Tmpl, z # Tmpl
    PROVE  /\ \E i \in 1..Len(<<x, y, Tmpl, z>>) : <<x, y, Tmpl, z>>[i] = Tmpl
           /\ (CHOOSE i \in 1..Len(<<x, y, Tmpl, z>>) : <<x, y, Tmpl, z>>[i] = Tmpl) = 3
<1> DEFINE t == <<x, y, Tmpl, z>>
<1>1. 1..Len(t) = {1, 2, 3, 4}
  OBVIOUS
<1>2. t[1] = x /\ t[2] = y /\ t[3] = Tmpl /\ t[4] = z
  OBVIOUS
<1>3. \A i \in 1..Len(t) : t[i] = Tmpl <=> i = 3
  BY <1>1, <1>2
<1>4. QED
  BY <1>1, <1>3

\* The protobuf request the contract binds for a request on route r.
LEMMA BindOf ==
    ASSUME NEW h, NEW r \in C!API, C!RouteOf(h) = r
    PROVE  C!Bind(h) = [rpc |-> r.rpc,
                        name |-> IF r \in {RLTP, RRT} THEN h.path[3] ELSE "",
                        values |-> IF r.body # "none" /\ h.body \in Payloads THEN h.body ELSE "none"]
<1> DEFINE name(q) == IF \E i \in 1..Len(q.path) : q.path[i] = Tmpl
                        THEN h.path[CHOOSE i \in 1..Len(q.path) : q.path[i] = Tmpl]
                        ELSE ""
<1>1. C!Bind(h) = [rpc |-> r.rpc, name |-> name(r),
                   values |-> IF r.body # "none" /\ h.body \in Payloads THEN h.body ELSE "none"]
  BY DEF C!Bind, Payloads, Tmpl
<1>2. "v1" # Tmpl /\ "templates" # Tmpl /\ "params" # Tmpl /\ "render" # Tmpl
      /\ "pulls" # Tmpl /\ "credentials" # Tmpl
  BY DEF Tmpl
<1>3. name(r) = IF r \in {RLTP, RRT} THEN h.path[3] ELSE ""
  <2>1. CASE r \in {RLT, RCPR, RLC}
    <3>1. r.path \in {<<"v1", "templates">>, <<"v1", "pulls">>, <<"v1", "credentials">>}
      BY <2>1 DEF RLT, RCPR, RLC, Route
    <3>2. ~\E i \in 1..Len(r.path) : r.path[i] = Tmpl
      BY <1>2, <3>1, NoTmpl2
    <3>3. r \notin {RLTP, RRT}
      BY <2>1 DEF RLT, RCPR, RLC, RLTP, RRT, Route
    <3>4. QED
      BY <3>2, <3>3
  <2>2. CASE r \in {RLTP, RRT}
    <3>1. r.path \in {<<"v1", "templates", Tmpl, "params">>, <<"v1", "templates", Tmpl, "render">>}
      BY <2>2 DEF RLTP, RRT, Route
    <3>2. /\ \E i \in 1..Len(r.path) : r.path[i] = Tmpl
          /\ (CHOOSE i \in 1..Len(r.path) : r.path[i] = Tmpl) = 3
      BY <1>2, <3>1, Tmpl3
    <3>3. QED
      BY <2>2, <3>2
  <2>3. QED
    BY <2>1, <2>2, APIList
<1>4. QED
  BY <1>1, <1>3


-----------------------------------------------------------------------------
(* The generated decoding.                                                 *)

\* A decoding that fails failed one of its checks; one that succeeds
\* returns the request it built.
LEMMA DecideResult ==
    ASSUME NEW checks, NEW r
    PROVE  /\ Decide(checks, r).ok => Decide(checks, r).req = r
           /\ ~Decide(checks, r).ok => \E i \in DOMAIN checks : checks[i][2]
<1>1. CASE FirstFailure(checks) = "none"
  BY <1>1 DEF Decide, Decoded
<1>2. CASE FirstFailure(checks) # "none"
  <2>1. {i \in DOMAIN checks : checks[i][2]} # {}
    BY <1>2 DEF FirstFailure
  <2>2. QED
    BY <1>2, <2>1 DEF Decide, Refused
<1>3. QED
  BY <1>1, <1>2

\* Decode, one method at a time.
LEMMA DecodeEach ==
    ASSUME NEW h, NEW pp
    PROVE  /\ Decode("ListTemplates", h, pp) = ListTemplatesDecode
           /\ Decode("ListTemplateParams", h, pp) = ListTemplateParamsDecode(pp)
           /\ Decode("RenderTemplate", h, pp) = RenderTemplateDecode(h, pp)
           /\ Decode("CreatePullRequest", h, pp) = CreatePullRequestDecode(h)
           /\ Decode("ListCredentials", h, pp) = ListCredentialsDecode
  BY Zenon DEF Decode

\* The query cannot set the template name of RenderTemplate.
LEMMA RenderQueryFiltered ==
    ASSUME NEW h, NEW r
    PROVE  PopulateQueryParameters(h, RenderFilter, r) = r
  BY DEF PopulateQueryParameters, RenderFilter

LEMMA SecondOfPair ==
    ASSUME NEW a, NEW b
    PROVE  <<a, b>>[2] = b
  OBVIOUS

\* The four checks of RenderTemplate's decoding, in their order.
LEMMA RenderChecks ==
    ASSUME NEW h, NEW b
    PROVE  LET checks == BodyChecks(h) \o <<<<"param", b>>, <<"form", h.form = "malformed">>>>
           IN  /\ DOMAIN checks = 1..4
               /\ checks[1] = <<"body", h.body = "unreadable">>
               /\ checks[2] = <<"decode", h.body = "malformed">>
               /\ checks[3] = <<"param", b>>
               /\ checks[4] = <<"form", h.form = "malformed">>
  BY DEF BodyChecks



(***************************************************************************)
(* The empty template name, kept behind a name: the SMT backend cannot    *)
(* encode the empty string in every context.                               *)
(***************************************************************************)
Blank == NoCall.name

LEMMA BlankEmpty == Blank = ""
  BY Zenon DEF Blank, NoCall, C!NoCall

LEMMA SetRpc ==
    ASSUME NEW x
    PROVE  [NoCall EXCEPT !.rpc = x] = [rpc |-> x, name |-> Blank, values |-> "none"]
<1>1. NoCall = [rpc |-> Blank, name |-> Blank, values |-> "none"]
  BY Zenon DEF Blank, NoCall, C!NoCall
<1>2. ASSUME NEW e
      PROVE  [[rpc |-> e, name |-> e, values |-> "none"] EXCEPT !.rpc = x]
               = [rpc |-> x, name |-> e, values |-> "none"]
  OBVIOUS
<1>3. QED
  BY <1>1, <1>2, Zenon

\* The protobuf request the contract binds for a request a pattern matches.
LEMMA BindMatch ==
    ASSUME NEW h, NEW rt \in Patterns, rt.method = h.method, Matches(rt.pat, h.path)
    PROVE  C!Bind(h) = [rpc |-> rt.rpc,
                        name |-> IF rt.rpc \in {"ListTemplateParams", "RenderTemplate"}
                                 THEN h.path[3] ELSE "",
                        values |-> IF rt.rpc \in {"RenderTemplate", "CreatePullRequest"}
                                   THEN BodyValue(h) ELSE "none"]
<1> DEFINE r == RouteFor[rt.rpc]
<1>1. C!RouteOf(h) = r /\ r \in C!API /\ r.rpc = rt.rpc
  BY RouteOfMatch, MatchFits
<1>2. C!Bind(h) = [rpc |-> r.rpc, name |-> IF r \in {RLTP, RRT} THEN h.path[3] ELSE "",
                   values |-> IF r.body # "none" /\ h.body \in Payloads THEN h.body ELSE "none"]
  BY <1>1, BindOf
<1>3. r \in {RLTP, RRT} <=> rt.rpc \in {"ListTemplateParams", "RenderTemplate"}
  BY <1>1, APIList DEF RLT, RLTP, RRT, RCPR, RLC, Route
<1>4. r.body # "none" <=> rt.rpc \in {"RenderTemplate", "CreatePullRequest"}
  BY <1>1, APIList DEF RLT, RLTP, RRT, RCPR, RLC, Route
<1>5. QED
  BY <1>1, <1>2, <1>3, <1>4 DEF BodyValue

\* The path parameter of the two routes that capture one.
LEMMA TemplateNameParam ==
    ASSUME NEW h, NEW rt \in {PLTP, PRT}
    PROVE  LET pp == PathParams(rt.pat, h.path) IN
           "template_name" \in DOMAIN pp /\ pp["template_name"] = h.path[3]
<1> DEFINE pool == rt.pat.pool
<1>1. rt.pat = [ops |-> Named, pool |-> pool] /\ pool[3] = "template_name"
  BY DEF PLTP, PRT, Pat
<1>2. PathParams([ops |-> Named, pool |-> pool], h.path) = [v \in {pool[3]} |-> h.path[3]]
  BY NamedMatches
<1>3. QED
  BY <1>1, <1>2

\* A request a registered pattern matches is routed; when the handler
\* decodes it, it decodes the protobuf request the contract binds, and when
\* the decoding fails, the request is malformed.
LEMMA DecodeBinds ==
    ASSUME NEW h, NEW rt \in Patterns, rt.method = h.method, Matches(rt.pat, h.path)
    PROVE  LET d == Decode(rt.rpc, h, PathParams(rt.pat, h.path)) IN
           /\ C!Routed(h)
           /\ d.ok => d.req = C!Bind(h)
           /\ ~d.ok => C!Malformed(h)
<1> DEFINE pp == PathParams(rt.pat, h.path)
           d == Decode(rt.rpc, h, pp)
           bind == C!Bind(h)
<1>1. C!Routed(h)
  BY RouteOfMatch
<1>2. bind = [rpc |-> rt.rpc,
              name |-> IF rt.rpc \in {"ListTemplateParams", "RenderTemplate"} THEN h.path[3] ELSE "",
              values |-> IF rt.rpc \in {"RenderTemplate", "CreatePullRequest"}
                         THEN BodyValue(h) ELSE "none"]
  BY Zenon, BindMatch
<1>3. bind = [rpc |-> rt.rpc,
              name |-> IF rt.rpc \in {"ListTemplateParams", "RenderTemplate"} THEN h.path[3] ELSE Blank,
              values |-> IF rt.rpc \in {"RenderTemplate", "CreatePullRequest"}
                         THEN BodyValue(h) ELSE "none"]
  BY Zenon, <1>2, BlankEmpty
<1>4. CASE rt = PLT
  <2>1. rt.rpc = "ListTemplates"
    BY <1>4 DEF PLT, Pat
  <2>2. d = ListTemplatesDecode
    BY <2>1, DecodeEach
  <2>3. [NoCall EXCEPT !.rpc = "ListTemplates"] = [rpc |-> "ListTemplates", name |-> Blank, values |-> "none"]
    BY SetRpc
  <2>4. bind = [rpc |-> "ListTemplates", name |-> Blank, values |-> "none"]
    BY <1>3, <2>1
  <2>5. d = Decoded(bind)
    BY <2>2, <2>3, <2>4, Zenon DEF ListTemplatesDecode
  <2>6. QED
    BY <1>1, <2>5 DEF Decoded
<1>5. CASE rt = PLC
  <2>1. rt.rpc = "ListCredentials"
    BY <1>5 DEF PLC, Pat
  <2>2. d = ListCredentialsDecode
    BY <2>1, DecodeEach
  <2>3. [NoCall EXCEPT !.rpc = "ListCredentials"] = [rpc |-> "ListCredentials", name |-> Blank, values |-> "none"]
    BY SetRpc
  <2>4. bind = [rpc |-> "ListCredentials", name |-> Blank, values |-> "none"]
    BY <1>3, <2>1
  <2>5. d = Decoded(bind)
    BY <2>2, <2>3, <2>4, Zenon DEF ListCredentialsDecode
  <2>6. QED
    BY <1>1, <2>5 DEF Decoded
<1>6. CASE rt = PCPR
  <2>1. rt.rpc = "CreatePullRequest"
    BY <1>6 DEF PCPR, Pat
  <2>2. d = CreatePullRequestDecode(h)
    BY <2>1, DecodeEach
  <2>3. d = Decide(BodyChecks(h), bind)
    <3>1. bind = [rpc |-> "CreatePullRequest", name |-> Blank, values |-> BodyValue(h)]
      BY <1>3, <2>1
    <3>2. QED
      BY <2>2, <3>1, BlankEmpty, Zenon DEF CreatePullRequestDecode
  <2>4. (\E i \in DOMAIN BodyChecks(h) : BodyChecks(h)[i][2]) => C!Malformed(h)
    <3>1. DOMAIN BodyChecks(h) = {1, 2}
      BY DEF BodyChecks
    <3>2. BodyChecks(h)[1][2] = (h.body = "unreadable")
      BY DEF BodyChecks
    <3>3. BodyChecks(h)[2][2] = (h.body = "malformed")
      BY DEF BodyChecks
    <3>4. QED
      BY <3>1, <3>2, <3>3, Zenon DEF C!Malformed
  <2>5. QED
    BY <1>1, <2>3, <2>4, DecideResult
<1>7. CASE rt = PLTP
  <2>1. rt.rpc = "ListTemplateParams"
    BY <1>7 DEF PLTP, Pat
  <2>2. "template_name" \in DOMAIN pp /\ pp["template_name"] = h.path[3]
    BY <1>7, TemplateNameParam
  <2>3. d = ListTemplateParamsDecode(pp)
    BY <2>1, DecodeEach
  <2>4. d = Decide(<<<<"param", FALSE>>>>, bind)
    BY <1>2, <2>1, <2>2, <2>3 DEF ListTemplateParamsDecode
  <2>5. ~\E i \in DOMAIN <<<<"param", FALSE>>>> : <<<<"param", FALSE>>>>[i][2]
    <3>1. DOMAIN <<<<"param", FALSE>>>> = {1}
      OBVIOUS
    <3>2. <<<<"param", FALSE>>>>[1][2] = FALSE
      OBVIOUS
    <3>3. QED
      BY <3>1, <3>2, Zenon
  <2>6. QED
    BY <1>1, <2>4, <2>5, DecideResult
<1>8. CASE rt = PRT
  <2> DEFINE checks == BodyChecks(h) \o <<<<"param", FALSE>>, <<"form", h.form = "malformed">>>>
  <2>1. rt.rpc = "RenderTemplate"
    BY <1>8 DEF PRT, Pat
  <2>2. "template_name" \in DOMAIN pp /\ pp["template_name"] = h.path[3]
    BY <1>8, TemplateNameParam
  <2>3. d = RenderTemplateDecode(h, pp)
    BY <2>1, DecodeEach
  <2>4. bind = [rpc |-> "RenderTemplate", name |-> pp["template_name"], values |-> BodyValue(h)]
    BY <1>2, <2>1, <2>2
  <2>5. PopulateQueryParameters(h, RenderFilter, bind) = bind
    BY RenderQueryFiltered
  <2>6. d = Decide(checks, bind)
    BY <2>2, <2>3, <2>4, <2>5 DEF RenderTemplateDecode
  <2>7. (\E i \in DOMAIN checks : checks[i][2]) => C!Malformed(h)
    <3>1. /\ DOMAIN checks = 1..4
          /\ checks[1] = <<"body", h.body = "unreadable">>
          /\ checks[2] = <<"decode", h.body = "malformed">>
          /\ checks[3] = <<"param", FALSE>>
          /\ checks[4] = <<"form", h.form = "malformed">>
      BY RenderChecks
    <3>2. 1..4 = {1, 2, 3, 4}
      OBVIOUS
    <3>3. checks[1][2] = (h.body = "unreadable")
      <4>1. <<"body", h.body = "unreadable">>[2] = (h.body = "unreadable")
        BY SecondOfPair
      <4>2. QED
        BY <3>1, <4>1, Zenon
    <3>4. checks[2][2] = (h.body = "malformed")
      <4>1. <<"decode", h.body = "malformed">>[2] = (h.body = "malformed")
        BY SecondOfPair
      <4>2. QED
        BY <3>1, <4>1, Zenon
    <3>5. checks[3][2] = FALSE
      <4>1. <<"param", FALSE>>[2] = FALSE
        BY SecondOfPair
      <4>2. QED
        BY <3>1, <4>1, Zenon
    <3>6. checks[4][2] = (h.form = "malformed")
      <4>1. <<"form", h.form = "malformed">>[2] = (h.form = "malformed")
        BY SecondOfPair
      <4>2. QED
        BY <3>1, <4>1, Zenon
    <3>7. QED
      BY <3>1, <3>2, <3>3, <3>4, <3>5, <3>6, Zenon DEF C!Malformed
  <2>8. /\ Decide(checks, bind).ok => Decide(checks, bind).req = bind
        /\ ~Decide(checks, bind).ok => \E i \in DOMAIN checks : checks[i][2]
    BY DecideResult
  <2>9. QED
    BY <1>1, <2>6, <2>7, <2>8, Zenon
<1>9. QED
  BY <1>4, <1>5, <1>6, <1>7, <1>8, PatternsList


-----------------------------------------------------------------------------
(* The contract's state and the slots' invariant.                         *)

\* UpOf, as a function of the registration state.
UpFor(x) == CASE x = "none" -> "starting" [] x = "failed" -> "down" [] OTHER -> "up"

LEMMA UpOfReg == UpOf = UpFor(reg) /\ UpOf' = UpFor(reg')
  BY DEF UpOf, UpFor

LEMMA UpForValues ==
    ASSUME NEW x
    PROVE  /\ x = "none" => UpFor(x) = "starting"
           /\ x = "failed" => UpFor(x) = "down"
           /\ x \notin {"none", "failed"} => UpFor(x) = "up"
<1>1. "none" # "failed"
  OBVIOUS
<1>2. QED
  BY <1>1, Zenon DEF UpFor

\* A routed request has a path of two or four segments.
LEMMA RoutedLen ==
    ASSUME NEW h, C!Routed(h)
    PROVE  Len(h.path) \in {2, 4}
  BY FitsEach, APIList DEF C!Routed

\* The empty request (the slot's initial value) is on no route.
LEMMA RoutedNotNoReq ==
    ASSUME NEW h, C!Routed(h)
    PROVE  h # NoReq
<1>1. NoReq.path = <<>>
  BY Zenon DEF NoReq, C!NoReq
<1>2. Len(NoReq.path) = 0
  BY <1>1
<1>3. QED
  BY <1>2, RoutedLen

\* The protobuf request a routed request binds names a method.
LEMMA BindNotNoCall ==
    ASSUME NEW h, C!Routed(h)
    PROVE  C!Bind(h) # NoCall
<1>1. C!RouteOf(h) \in C!API
  BY DEF C!RouteOf, C!Routed
<1>2. C!Bind(h).rpc = C!RouteOf(h).rpc
  BY Zenon DEF C!Bind
<1>3. C!RouteOf(h).rpc \in {"ListTemplates", "ListTemplateParams", "RenderTemplate",
                            "CreatePullRequest", "ListCredentials"}
  BY <1>1, APIList DEF RLT, RLTP, RRT, RCPR, RLC, Route
<1>4. NoCall.rpc = Blank
  BY Zenon DEF Blank, NoCall, C!NoCall
<1>5. Blank \notin {"ListTemplates", "ListTemplateParams", "RenderTemplate",
                    "CreatePullRequest", "ListCredentials"}
  BY BlankEmpty
<1>6. QED
  BY <1>2, <1>3, <1>4, <1>5

LEMMA InitGInv == Init => GInv
  BY DEF Init, GInv


\* The slots' variables the contract reads stay as they are.
LEMMA GInvUnchanged ==
    ASSUME GInv, UNCHANGED <<pc, req, preq, served, answer>>
    PROVE  GInv'
  BY DEF GInv

LEMMA NextGInv == GInv /\ [Next]_vars => GInv'
<1> SUFFICES ASSUME GInv, [Next]_vars PROVE GInv'
  OBVIOUS
<1>1. CASE RegisterClustersServiceHandlerServer \/ RegisterClustersServiceHandlerFromEndpoint \/ CloseConn
  BY <1>1, GInvUnchanged
     DEF RegisterClustersServiceHandlerServer, RegisterClustersServiceHandlerFromEndpoint, CloseConn
<1>2. ASSUME NEW s \in Slots, NEW h \in HttpRequests, MuxNotFound(s, h) \/ MuxMethodNotAllowed(s, h)
      PROVE GInv'
  BY <1>2 DEF MuxNotFound, MuxMethodNotAllowed, Finish, GInv
<1>3. ASSUME NEW s \in Slots, NEW h \in HttpRequests, Handle(s, h) PROVE GInv'
  <2>1. PICK rt \in Patterns :
          /\ rt.method = h.method /\ Matches(rt.pat, h.path)
          /\ req' = [req EXCEPT ![s] = h]
          /\ LET d == Decode(rt.rpc, h, PathParams(rt.pat, h.path)) IN
             \/ h.header = "badTimeout" /\ Finish(s, "invalidArgument") /\ UNCHANGED preq
             \/ h.header = "ok" /\ ~d.ok /\ Finish(s, "invalidArgument") /\ UNCHANGED preq
             \/ h.header = "ok" /\ d.ok /\ preq' = [preq EXCEPT ![s] = d.req]
                /\ pc' = [pc EXCEPT ![s] = "ready"] /\ UNCHANGED answer
    BY <1>3 DEF Handle
  <2> DEFINE d == Decode(rt.rpc, h, PathParams(rt.pat, h.path))
  <2>2. UNCHANGED <<reg, conn, served>> /\ pc[s] = "idle"
    BY <1>3 DEF Handle
  <2>3. C!Routed(h) /\ h # NoReq /\ (d.ok => d.req = C!Bind(h))
    BY <2>1, DecodeBinds, RoutedNotNoReq
  <2>4. CASE Finish(s, "invalidArgument") /\ UNCHANGED preq
    BY <2>1, <2>2, <2>4 DEF Finish, GInv
  <2>5. CASE d.ok /\ preq' = [preq EXCEPT ![s] = d.req]
             /\ pc' = [pc EXCEPT ![s] = "ready"] /\ UNCHANGED answer
    BY <2>1, <2>2, <2>3, <2>5 DEF GInv
  <2>6. QED
    BY <2>1, <2>4, <2>5
<1>4. ASSUME NEW s \in Slots, Call(s) PROVE GInv'
  <2>1. pc[s] = "ready" /\ UNCHANGED <<reg, conn, req, preq>>
    BY <1>4 DEF Call
  <2>2. C!Routed(req[s]) /\ preq[s] = C!Bind(req[s])
    BY <2>1 DEF GInv
  <2>3. preq[s] # NoCall
    BY <2>2, BindNotNoCall
  <2>4. CASE served' = [served EXCEPT ![s] = preq[s]]
             /\ pc' = [pc EXCEPT ![s] = "called"] /\ UNCHANGED answer
    BY <2>1, <2>3, <2>4 DEF GInv
  <2>5. CASE \E e : Finish(s, e) /\ UNCHANGED served
    BY <2>1, <2>5 DEF Finish, GInv
  <2>6. QED
    BY <1>4, <2>4, <2>5 DEF Call
<1>5. ASSUME NEW s \in Slots, Reply(s) PROVE GInv'
  <2>1. pc[s] = "called" /\ UNCHANGED <<reg, conn, req, preq, served>>
    BY <1>5 DEF Reply
  <2>2. \E a : Finish(s, a)
    BY <1>5 DEF Reply
  <2>3. QED
    BY <2>1, <2>2 DEF Finish, GInv
<1>6. CASE UNCHANGED vars
  BY <1>6, GInvUnchanged DEF vars
<1>7. QED
  BY <1>1, <1>2, <1>3, <1>4, <1>5, <1>6 DEF Next, ServerHandler, ClientHandler


-----------------------------------------------------------------------------
(* The refinement.  Registration is the contract's Start, closing the     *)
(* connection a stutter, a NotFound or a 405 from the mux a Refuse, a    *)
(* handler that refuses a Refuse and one that decodes an Accept, a call   *)
(* the contract's Call (or Fail, when client.X fails before sending), and *)
(* a reply its Reply.                                                     *)

LEMMA InitRefines == Init => C!Init
  BY UpOfReg, UpForValues DEF Init, C!Init, NoReq, NoCall, NoAnswer

LEMMA NextRefines == GInv /\ [Next]_vars => [C!Next]_(C!vars)
<1> SUFFICES ASSUME GInv, [Next]_vars PROVE [C!Next]_(C!vars)
  OBVIOUS
<1>0. UpOf = UpFor(reg) /\ UpOf' = UpFor(reg')
  BY UpOfReg
<1>1. CASE RegisterClustersServiceHandlerServer \/ RegisterClustersServiceHandlerFromEndpoint
  <2>1. reg = "none" /\ reg' \in {"server", "client", "failed"} /\ UNCHANGED <<req, served, answer>>
    BY <1>1 DEF RegisterClustersServiceHandlerServer, RegisterClustersServiceHandlerFromEndpoint
  <2>2. UpOf = "starting" /\ UpOf' \in {"up", "down"}
    BY <1>0, <2>1, UpForValues
  <2>3. C!Start
    BY <2>1, <2>2 DEF C!Start
  <2>4. QED
    BY <2>3 DEF C!Next
<1>2. CASE CloseConn
  BY <1>0, <1>2 DEF CloseConn, C!vars
<1>3. ASSUME NEW s \in Slots, NEW h \in HttpRequests, MuxNotFound(s, h) PROVE C!Next
  <2>1. reg # "none" /\ UNCHANGED <<reg, served>> /\ req[s] = NoReq
    BY <1>3 DEF MuxNotFound, GInv
  <2>2. UpOf # "starting" /\ UpOf' = UpOf
    BY <1>0, <2>1, UpForValues
  <2>3. ~C!PathRouted(h) \/ UpOf = "down"
    BY <1>0, <1>3, UpForValues, MatchPathRouted DEF MuxNotFound
  <2>4. C!Refuse(s, h)
    BY <1>3, <2>1, <2>2, <2>3 DEF MuxNotFound, Finish, C!Refuse, NoReq, NoCall, NoAnswer
  <2>5. QED
    BY <2>4 DEF C!Next
<1>9. ASSUME NEW s \in Slots, NEW h \in HttpRequests, MuxMethodNotAllowed(s, h) PROVE C!Next
  <2>1. reg \in {"server", "client"} /\ UNCHANGED <<reg, served>> /\ req[s] = NoReq
    BY <1>9 DEF MuxMethodNotAllowed, GInv
  <2>2. UpOf = "up" /\ UpOf' = UpOf
    BY <1>0, <2>1, UpForValues
  <2>3. ~C!Routed(h) /\ C!PathRouted(h)
    BY <1>9, MatchRouted, MatchPathRouted DEF MuxMethodNotAllowed
  <2>4. C!Refuse(s, h)
    BY <1>9, <2>1, <2>2, <2>3 DEF MuxMethodNotAllowed, Finish, C!Refuse, NoReq, NoCall, NoAnswer
  <2>5. QED
    BY <2>4 DEF C!Next
<1>4. ASSUME NEW s \in Slots, NEW h \in HttpRequests, Handle(s, h), reg \in {"server", "client"}
      PROVE C!Next
  <2>1. PICK rt \in Patterns :
          /\ rt.method = h.method /\ Matches(rt.pat, h.path)
          /\ req' = [req EXCEPT ![s] = h]
          /\ LET d == Decode(rt.rpc, h, PathParams(rt.pat, h.path)) IN
             \/ h.header = "badTimeout" /\ Finish(s, "invalidArgument") /\ UNCHANGED preq
             \/ h.header = "ok" /\ ~d.ok /\ Finish(s, "invalidArgument") /\ UNCHANGED preq
             \/ h.header = "ok" /\ d.ok /\ preq' = [preq EXCEPT ![s] = d.req]
                /\ pc' = [pc EXCEPT ![s] = "ready"] /\ UNCHANGED answer
    BY <1>4 DEF Handle
  <2> DEFINE d == Decode(rt.rpc, h, PathParams(rt.pat, h.path))
  <2>2. UNCHANGED <<reg, served>> /\ req[s] = NoReq
    BY <1>4 DEF Handle, GInv
  <2>3. UpOf = "up" /\ UpOf' = UpOf
    BY <1>0, <1>4, <2>2, UpForValues
  <2>4. C!Routed(h) /\ (d.ok => d.req = C!Bind(h)) /\ (~d.ok => C!Malformed(h))
    BY <2>1, DecodeBinds
  <2>5. CASE h.header = "badTimeout" /\ Finish(s, "invalidArgument")
    <3>1. C!Malformed(h)
      BY <2>5 DEF C!Malformed
    <3>2. C!Refuse(s, h)
      BY <2>1, <2>2, <2>3, <2>4, <2>5, <3>1 DEF Finish, C!Refuse, NoReq, NoCall, NoAnswer
    <3>3. QED
      BY <3>2 DEF C!Next
  <2>6. CASE ~d.ok /\ Finish(s, "invalidArgument")
    <3>1. C!Refuse(s, h)
      BY <2>1, <2>2, <2>3, <2>4, <2>6 DEF Finish, C!Refuse, NoReq, NoCall, NoAnswer
    <3>2. QED
      BY <3>1 DEF C!Next
  <2>7. CASE d.ok /\ UNCHANGED answer
    <3>1. C!Accept(s, h)
      BY <2>1, <2>2, <2>3, <2>4, <2>7 DEF C!Accept, NoReq, NoCall, NoAnswer
    <3>2. QED
      BY <3>1 DEF C!Next
  <2>8. QED
    BY <2>1, <2>5, <2>6, <2>7
<1>5. ASSUME NEW s \in Slots, Call(s) PROVE C!Next
  <2>1. pc[s] = "ready" /\ UNCHANGED <<reg, req, preq>>
    BY <1>5 DEF Call
  <2>2. req[s] # NoReq /\ preq[s] = C!Bind(req[s]) /\ served[s] = NoCall /\ answer[s] = NoAnswer
    BY <2>1 DEF GInv
  <2>3. UpOf' = UpOf
    BY <1>0, <2>1
  <2>4. CASE served' = [served EXCEPT ![s] = preq[s]] /\ UNCHANGED answer
    <3>1. C!Call(s)
      BY <2>1, <2>2, <2>3, <2>4 DEF C!Call, NoReq, NoCall, NoAnswer
    <3>2. QED
      BY <3>1 DEF C!Next
  <2>5. CASE \E e \in C!TransportErrors : Finish(s, e) /\ UNCHANGED served
    <3>1. C!Fail(s)
      BY <2>1, <2>2, <2>3, <2>5 DEF Finish, C!Fail, NoReq, NoCall, NoAnswer
    <3>2. QED
      BY <3>1 DEF C!Next
  <2>6. QED
    BY <1>5, <2>4, <2>5 DEF Call, C!TransportErrors
<1>6. ASSUME NEW s \in Slots, Reply(s) PROVE C!Next
  <2>1. pc[s] = "called" /\ UNCHANGED <<reg, req, served>>
    BY <1>6 DEF Reply
  <2>2. served[s] # NoCall /\ answer[s] = NoAnswer
    BY <2>1 DEF GInv
  <2>3. UpOf' = UpOf
    BY <1>0, <2>1
  <2>4. PICK a \in Replies \cup C!TransportErrors : Finish(s, a)
    BY <1>6 DEF Reply, C!TransportErrors
  <2>5. C!Reply(s)
    BY <2>1, <2>2, <2>3, <2>4 DEF Finish, C!Reply, NoReq, NoCall, NoAnswer
  <2>6. QED
    BY <2>5 DEF C!Next
<1>7. CASE UNCHANGED vars
  BY <1>0, <1>7 DEF vars, C!vars
<1>8. QED
  BY <1>1, <1>2, <1>3, <1>4, <1>5, <1>6, <1>7, <1>9 DEF Next, ServerHandler, ClientHandler

\* The gateway implements its contract, for every set of slots, HTTP
\* requests and replies: under the mapping up <- UpOf every behaviour of
\* the generated handlers (registration, the mux, decoding, the call over
\* a connection that may close, the reply) is a behaviour of
\* GatewayContract, so a request reaches the service only on a route, at
\* most once, as the request its path and body bind, is refused only when
\* unrouted, on another method's route or malformed, and is answered with
\* a reply or a transport error.
THEOREM GatewayRefinesContract == Spec => ImplementsContract
<1>1. Init => GInv /\ C!Init
  BY InitGInv, InitRefines
<1>2. GInv /\ [Next]_vars => GInv' /\ [C!Next]_(C!vars)
  BY NextGInv, NextRefines
<1>3. QED
  BY <1>1, <1>2, PTL DEF Spec, ImplementsContract, C!Spec

=============================================================================
