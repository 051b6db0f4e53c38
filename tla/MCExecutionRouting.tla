-------------------------- MODULE MCExecutionRouting --------------------------
(***************************************************************************)
(* Instances of ExecutionRouting for TLC.  The packets come in families,   *)
(* each of which varies one part of a packet and keeps the others sound.   *)
(***************************************************************************)
EXTENDS ExecutionRouting, TLC

CONSTANTS a, b, c, x, y, docs, src, spec

Letters == <<a, b, c>>
\* The order is <<a, b, c>> up to the names of the lanes.
InOrder(n) == SubSeq(Letters, 1, n)

Claim(r, holder) == [resource |-> r, holder |-> holder, structured |-> TRUE]
Loose(r, holder) == [Claim(r, holder) EXCEPT !.structured = FALSE]

\* Lane i, alone in its own directory.
LaneNamed(i, id) ==
  [id |-> id, branch |-> i, worktree |-> i, paths |-> {<<id, StarStar>>},
   depends_on |-> {}, leases |-> {}]
Lane(i) == LaneNamed(i, Letters[i])
Alone(n) == [i \in 1..n |-> Lane(i)]

Route == [target |-> "github_actions", runner |-> "github_hosted", exception |-> FALSE,
          reason |-> "not_applicable", equivalent_ci |-> TRUE,
          actions |-> <<>>, tools |-> <<>>, calls |-> <<>>]

Packet(route, lanes, order, constrained) ==
  [strategy |-> IF Len(lanes) = 1 THEN "single_agent" ELSE "parallel_when_beneficial",
   lanes |-> lanes, order |-> order, constrained |-> constrained] @@ route
-----------------------------------------------------------------------------
\* Any dependencies among three lanes; with two, unknown and own names, and
\* wrong orders.
Ordered ==
  {Packet(Route, [i \in 1..3 |-> [Lane(i) EXCEPT !.depends_on = d[i] \ {Letters[i]}]], InOrder(3), {}) :
     d \in [1..3 -> SUBSET {a, b, c}]}
  \cup {Packet(Route, [i \in 1..2 |-> [Lane(i) EXCEPT !.depends_on = d[i]]], order, {}) :
     d \in [1..2 -> SUBSET {a, b, c}], order \in {<<a>>, <<a, a>>, <<a, b, a>>, <<b, a>>}}

\* Lanes that share a name, a branch or a worktree; wrong strategies.
Isolated ==
  {Packet(Route, <<Lane(1), [id |-> i, branch |-> br, worktree |-> w] @@ Lane(2)>>, InOrder(2), {}) :
     i \in {a, b}, br \in {1, 2}, w \in {1, 2}}
  \cup {[Packet(Route, Alone(n), InOrder(n), {}) EXCEPT !.strategy = s] :
     n \in 1..2, s \in {"single_agent", "parallel_when_beneficial", "serial"}}

\* Two lanes: any two patterns, with the same lease or with none; any claims of
\* that lease, with patterns that overlap or do not.
Patterns == {<<docs>>, <<docs, Star>>, <<docs, StarStar, spec>>, <<docs, Fragment>>,
             <<docs, spec>>, <<src, Star>>, <<StarStar, spec>>}
ClaimSets == {{}, {Claim(x, a)}, {Claim(x, b)}, {Loose(x, a)}, {Claim(x, c)}}
Pair(g, h, m, n) ==
  Packet(Route,
    <<[paths |-> {g}, leases |-> m] @@ Lane(1), [paths |-> {h}, leases |-> n] @@ Lane(2)>>,
    InOrder(2), {})
Owned ==
  {Pair(g, h, m, m) : g \in Patterns, h \in Patterns, m \in {{}, {Claim(x, a)}}}
  \cup {Pair(<<docs>>, h, m, n) : h \in {<<docs, spec>>, <<src, Star>>}, m \in ClaimSets, n \in ClaimSets}

\* Three lanes with leases of two resources, held and declared by any of them,
\* and a dependency.
Holding(r, declarers, holder, id) == IF id \in declarers THEN {Claim(r, holder)} ELSE {}
Leased ==
  {Packet(Route,
     [i \in 1..3 |-> [depends_on |-> d[i],
                      leases |-> Holding(x, dx, hx, Letters[i]) \cup Holding(y, dy, hy, Letters[i])]
                        @@ Lane(i)],
     InOrder(3), {x}) :
     d \in {<< {}, {}, {} >>, << {}, {}, {a} >>, << {}, {a}, {b} >>},
     dx \in SUBSET {a, b, c}, hx \in {a, b, c}, dy \in {{b, c}, {a, c}}, hy \in {b, c}}
-----------------------------------------------------------------------------
(* Host exceptions: one that holds, and others that differ in one part.    *)

Reasons == "service" :> {"inspect"} @@ "hardware" :> {"accept"}
RunnersOf == "github_actions" :> {"github_hosted", "organization_product_isolated"}
             @@ "isolated_workspace" :> {"isolated_workspace"}
             @@ "host_exception" :> {"not_applicable"}

Arguments == [semantic: {1, 2}, incidental: {1, 2}]
Declared(t, s) == [tool |-> t, arguments |-> [semantic |-> s, incidental |-> 1]]

Exception ==
  [target |-> "host_exception", runner |-> "not_applicable", exception |-> TRUE,
   reason |-> "service", equivalent_ci |-> FALSE, actions |-> <<"inspect">>,
   tools |-> <<"read_file">>, calls |-> <<Declared("read_file", 1)>>]

Exceptions ==
  {Exception}
  \cup {[Exception EXCEPT !.target = t] : t \in DOMAIN RunnersOf}
  \cup {[Exception EXCEPT !.runner = "github_hosted"], [Exception EXCEPT !.equivalent_ci = TRUE],
        [Exception EXCEPT !.exception = FALSE]}
  \cup {[Exception EXCEPT !.reason = r] : r \in {"hardware", "not_applicable"}}
  \cup {[Exception EXCEPT !.actions = s] : s \in {<<>>, <<"accept">>, <<"inspect", "inspect">>,
                                                 <<"inspect", "accept">>, <<"poll">>}}
  \cup {[Exception EXCEPT !.tools = s] : s \in {<<>>, <<"shutdown">>, <<"read_file", "ping">>}}
  \cup {[Exception EXCEPT !.calls = s] :
          s \in {<<>>, <<Declared("ping", 1)>>, <<Declared("read_file", 1), Declared("read_file", 1)>>,
                 <<Declared("read_file", 1), Declared("read_file", 2)>>,
                 <<Declared("read_file", 2), Declared("ping", 1)>>}}

Hosted == {Packet(e, Alone(1), InOrder(1), {}) : e \in Exceptions}

AllPackets == Ordered \cup Isolated \cup Owned \cup Leased \cup Hosted
Asked == [action: {"inspect", "accept"}, tool: {"read_file", "ping", "shutdown"},
          arguments: Arguments]
RepositoryFiles == {<<docs>>, <<docs, spec>>, <<docs, src, spec>>, <<src, spec>>, <<src>>}
=============================================================================
