----------------------------- MODULE WebEngine -----------------------------
(***************************************************************************)
(* Package engine of web/: groups, their middlewares and routes are set    *)
(* up, and then a request is served.  Nothing that requests share changes  *)
(* any more, so that one request stands for all.                           *)
(*                                                                         *)
(* A path or prefix is the sequence of its pieces; Param is a piece like   *)
(* ":id", which matches any other.  The handlers of a request are pairs:   *)
(* <<g, i>> is the i-th middleware of group g, Own the handler of the      *)
(* route.  A handler is code of the user: it may call c.Next, several      *)
(* times or not at all, return, or panic.  Recovery is that of web/main.go.*)
(* Numbers begin with 1, and c.index with 0, where the code has 0 and -1.  *)
(***************************************************************************)
EXTENDS Integers, Sequences, FiniteSets

CONSTANTS
  Pieces,      \* the pieces that paths are made of
  Param,       \* a named parameter in a pattern
  RoutePaths,  \* the paths that routes are added with
  MaxGroups, MaxUses, MaxRoutes,  \* bounds on the set-up
  MaxNexts     \* how often a handler calls c.Next at most

ASSUME ParamAssumption == Param \notin Pieces
ASSUME RoutePathsAssumption == RoutePaths \subseteq Seq(Pieces \cup {Param})

VARIABLES
  groups,     \* engine.groups: prefix, middlewares, and the group with all it is in
  routes,     \* what the router knows
  pc,         \* "setup"; "collect", "loop", "body"; "over" or "aborted"
  route,      \* the route of the request
  path,       \* req.URL.Path
  next,       \* the group that the closure of add looks at
  handlers,   \* c.handlers
  index,      \* c.index
  stack,      \* the handlers that are under way, innermost last, each with the
              \*   number of times it has called c.Next
  started,    \* history: the handlers that were started, by number
  recovered,  \* history: the Recovery handlers that have recovered a panic
  crashed     \* history: the handler whose panic nobody recovered, or 0

setup == <<groups, routes>>
request == <<route, path>>
vars == <<setup, pc, request, next, handlers, index, stack, started, recovered, crashed>>

Own == <<0, 0>>
NoRoute == [pattern |-> <<>>, group |-> 0]

Init ==
  /\ groups = <<[prefix |-> <<>>, line |-> {1}, middlewares |-> <<>>]>>
  /\ routes = {}
  /\ pc = "setup"
  /\ route = NoRoute /\ path = <<>>
  /\ next = 1
  /\ handlers = <<>>
  /\ index = 0
  /\ stack = <<>> /\ started = <<>>
  /\ recovered = {} /\ crashed = 0

-----------------------------------------------------------------------------
(* Before the engine runs.                                                 *)

\* Mutant: a nested group forgets the prefix of its parent.
PrefixOwn(g, p) == <<p>>
Prefix(g, p) == Append(groups[g].prefix, p)

Group(g, p) ==
  /\ pc = "setup" /\ Len(groups) < MaxGroups
  /\ groups' = Append(groups, [prefix |-> Prefix(g, p),
                               line |-> groups[g].line \cup {Len(groups) + 1},
                               middlewares |-> <<>>])
  /\ UNCHANGED <<routes, pc, request, next, handlers, index, stack, started, recovered, crashed>>

Uses == {u \in (1 .. Len(groups)) \X (1 .. MaxUses) : u[2] <= Len(groups[u[1]].middlewares)}

Use(g, m) ==
  /\ pc = "setup" /\ Cardinality(Uses) < MaxUses
  /\ groups' = [groups EXCEPT ![g].middlewares = Append(@, m)]
  /\ UNCHANGED <<routes, pc, request, next, handlers, index, stack, started, recovered, crashed>>

\* Get, Post, Put and Delete of the engine and of a group.
Add(g, p) ==
  /\ pc = "setup" /\ Cardinality(routes) < MaxRoutes
  /\ routes' = routes \cup {[pattern |-> groups[g].prefix \o p, group |-> g]}
  /\ UNCHANGED <<groups, pc, request, next, handlers, index, stack, started, recovered, crashed>>

-----------------------------------------------------------------------------
(* The closure of Router.add.                                              *)

\* What httprouter does: a parameter matches any piece.
Matches(pattern, p) ==
  /\ Len(p) = Len(pattern)
  /\ \A i \in 1 .. Len(p) : pattern[i] \in {p[i], Param}

ServeHTTP(r, p) ==
  /\ pc = "setup"
  /\ Matches(r.pattern, p)
  /\ route' = r /\ path' = p
  /\ pc' = "collect"
  /\ UNCHANGED <<setup, next, handlers, index, stack, started, recovered, crashed>>

\* strings.HasPrefix: a parameter in the prefix is not in the path.
HasPrefix(p, prefix) ==
  /\ Len(prefix) <= Len(p)
  /\ \A i \in 1 .. Len(prefix) : prefix[i] = p[i]

\* The middlewares of the groups, one group after the other.
Collect ==
  /\ pc = "collect" /\ next <= Len(groups)
  /\ handlers' = IF HasPrefix(path, groups[next].prefix)
                 THEN handlers \o [i \in 1 .. Len(groups[next].middlewares) |-> <<next, i>>]
                 ELSE handlers
  /\ next' = next + 1
  /\ UNCHANGED <<setup, pc, request, index, stack, started, recovered, crashed>>

\* newContext, and the first call of c.Next.
Enter ==
  /\ pc = "collect" /\ next > Len(groups)
  /\ handlers' = Append(handlers, Own)
  /\ index' = index + 1
  /\ pc' = "loop"
  /\ UNCHANGED <<setup, request, next, stack, started, recovered, crashed>>

-----------------------------------------------------------------------------
(* Context.Next and what handlers do.                                      *)

IsRecovery(n) ==
  handlers[n] # Own /\ groups[handlers[n][1]].middlewares[handlers[n][2]] = "recovery"

\* The loop calls the next handler.
CallHandler ==
  /\ pc = "loop" /\ index <= Len(handlers)
  /\ stack' = Append(stack, [nr |-> index, nexts |-> 0])
  /\ started' = Append(started, index)
  /\ pc' = "body"
  /\ UNCHANGED <<setup, request, next, handlers, index, recovered, crashed>>

\* The loop ends, and the handler that called c.Next goes on.
LoopEnds ==
  /\ pc = "loop" /\ index > Len(handlers)
  /\ pc' = IF stack = <<>> THEN "over" ELSE "body"
  /\ UNCHANGED <<setup, request, next, handlers, index, stack, started, recovered, crashed>>

Top == stack[Len(stack)]

\* Recovery calls c.Next once.
CallNext ==
  /\ pc = "body"
  /\ Top.nexts < IF IsRecovery(Top.nr) THEN 1 ELSE MaxNexts
  /\ stack' = [stack EXCEPT ![Len(stack)].nexts = @ + 1]
  /\ index' = index + 1
  /\ pc' = "loop"
  /\ UNCHANGED <<setup, request, next, handlers, started, recovered, crashed>>

\* A handler is through, and the loop that called it goes on.
\* Mutant: the loop of the caller does not advance.
AdvancedNot == index
Advanced == index + 1

Return ==
  /\ pc = "body"
  /\ IsRecovery(Top.nr) => Top.nexts = 1
  /\ stack' = SubSeq(stack, 1, Len(stack) - 1)
  /\ index' = Advanced
  /\ pc' = "loop"
  /\ UNCHANGED <<setup, request, next, handlers, started, recovered, crashed>>

\* The frames whose deferred function recovers.
\* Mutant: recover works in the innermost handler only.
CatchersNear == {j \in 1 .. Len(stack) - 1 : IsRecovery(stack[j].nr) /\ j = Len(stack) - 1}
Catchers == {j \in 1 .. Len(stack) - 1 : IsRecovery(stack[j].nr)}

\* A handler panics; the innermost Recovery answers with c.Fail and returns to
\* the loop that called it, which goes on after the handler that panicked.
PanicRecovered ==
  /\ pc = "body" /\ ~IsRecovery(Top.nr) /\ Catchers # {}
  /\ \E j \in Catchers :
       /\ \A i \in Catchers : i <= j
       /\ recovered' = recovered \cup {stack[j].nr}
       /\ stack' = SubSeq(stack, 1, j - 1)
  /\ index' = index + 1
  /\ pc' = "loop"
  /\ UNCHANGED <<setup, request, next, handlers, started, crashed>>

\* Nobody recovers: net/http drops the connection.
PanicAborts ==
  /\ pc = "body" /\ ~IsRecovery(Top.nr) /\ Catchers = {}
  /\ crashed' = Top.nr
  /\ stack' = <<>>
  /\ pc' = "aborted"
  /\ UNCHANGED <<setup, request, next, handlers, index, started, recovered>>

-----------------------------------------------------------------------------
Setup ==
  \E g \in 1 .. Len(groups) :
    \/ \E p \in Pieces \cup {Param} : Group(g, p)
    \/ \E m \in {"recovery", "plain"} : Use(g, m)
    \/ \E p \in RoutePaths : Add(g, p)

Serve ==
  \/ \E r \in routes : \E p \in [1 .. Len(r.pattern) -> Pieces] : ServeHTTP(r, p)
  \/ Collect \/ Enter

Run ==
  CallHandler \/ LoopEnds \/ CallNext \/ Return \/ PanicRecovered \/ PanicAborts

Next == Setup \/ Serve \/ Run

Spec == Init /\ [][Next]_vars

-----------------------------------------------------------------------------
\* The chain runs in order: no handler is started twice or passed over, however
\* often the others call c.Next, and whatever panics are recovered; a request
\* that is not dropped has started all of them, those after a panic too.
OnceInOrder ==
  /\ started = [i \in 1 .. Len(started) |-> i]
  /\ pc = "over" => Len(started) = Len(handlers)

\* A route is behind its group: before its handler starts, all middlewares of
\* the group and of the groups that this is in have been started, those of an
\* outer group first; unless the prefix of the group has a parameter.
Plain(g) == \A i \in 1 .. Len(groups[g].prefix) : groups[g].prefix[i] # Param

Guarded ==
  Len(handlers) > 0 /\ handlers[Len(handlers)] = Own /\ Len(started) = Len(handlers) =>
    /\ \A g \in groups[route.group].line : Plain(g) =>
         \A i \in 1 .. Len(groups[g].middlewares) :
           \E n \in 1 .. Len(handlers) - 1 : handlers[started[n]] = <<g, i>>
    /\ \A m, n \in 1 .. Len(handlers) - 1 :
         handlers[n][1] # handlers[m][1] /\ handlers[n][1] \in groups[handlers[m][1]].line => n < m

\* Recovery keeps the connection: a panic aborts the request only if every
\* Recovery before the handler in the chain has recovered another panic
\* already, after which the handlers behind it run without its protection.
RecoveryHolds ==
  crashed # 0 => \A n \in 1 .. crashed - 1 : IsRecovery(n) => n \in recovered

-----------------------------------------------------------------------------
(* The inductive invariant behind these three.                             *)

GroupType ==
  [prefix : Seq(Pieces \cup {Param}), line : SUBSET Nat, middlewares : Seq({"recovery", "plain"})]

RouteType == [pattern : Seq(Pieces \cup {Param}), group : Nat]

FrameType == [nr : Nat, nexts : Nat]

TypeOK ==
  /\ groups \in Seq(GroupType)
  /\ routes \subseteq RouteType
  /\ pc \in {"setup", "collect", "loop", "body", "over", "aborted"}
  /\ path \in Seq(Pieces)
  /\ next \in Nat /\ index \in Nat /\ crashed \in Nat
  /\ handlers \in Seq(Nat \X Nat)
  /\ stack \in Seq(FrameType)
  /\ started \in Seq(Nat)

Calm == pc \in {"setup", "collect"}

\* The prefix of a group begins with those of the groups it is in, which are
\* older, and the pattern of a route begins with the prefix of its group.
GroupInv ==
  /\ \A g \in 1 .. Len(groups) : \A a \in groups[g].line :
       a \in 1 .. g /\ HasPrefix(groups[g].prefix, groups[a].prefix)
  /\ \A r \in routes :
       r.group \in 1 .. Len(groups) /\ HasPrefix(r.pattern, groups[r.group].prefix)
  /\ pc # "setup" => route \in routes /\ Matches(route.pattern, path)

\* The chain without the handler of the route: sorted by group, and complete as
\* far as the closure has looked.
Chain == 1 .. IF Calm THEN Len(handlers) ELSE Len(handlers) - 1

ChainInv ==
  /\ next \in 1 .. Len(groups) + 1 /\ (pc = "setup" => next = 1)
  /\ ~Calm => /\ next = Len(groups) + 1 /\ Len(handlers) > 0
              /\ handlers[Len(handlers)] = Own
  /\ \A n \in Chain : handlers[n][1] \in 1 .. next - 1
  /\ \A m, n \in Chain : m < n => handlers[m][1] <= handlers[n][1]
  /\ \A g \in 1 .. Len(groups) : g < next /\ HasPrefix(path, groups[g].prefix) =>
       \A i \in 1 .. Len(groups[g].middlewares) : \E n \in Chain : handlers[n] = <<g, i>>

\* index and the handlers that were started.
CountInv ==
  /\ started = [i \in 1 .. Len(started) |-> i]
  /\ Calm => index = 0 /\ started = <<>>
  /\ pc = "loop" => index > 0 /\ Len(started) = IF index <= Len(handlers) THEN index - 1
                                                 ELSE Len(handlers)
  /\ pc = "body" => index > 0 /\ Len(started) = IF index <= Len(handlers) THEN index
                                                 ELSE Len(handlers)
  /\ pc = "over" => Len(started) = Len(handlers)

\* A handler under way has the ones it called above it; when its call of c.Next
\* has returned, all handlers have been started.
StackInv ==
  /\ Calm => stack = <<>>
  /\ pc = "body" => stack # <<>>
  /\ \A j \in 1 .. Len(stack) : stack[j].nr \in 1 .. Len(started)
  /\ \A i, j \in 1 .. Len(stack) : i < j => stack[i].nr < stack[j].nr
  /\ pc = "body" /\ Top.nexts > 0 => index > Len(handlers)

\* A Recovery that has not recovered yet is under way, or returned when nothing
\* that comes after it was under way or to be started.
CoverInv ==
  /\ crashed # 0 => pc = "aborted"
  /\ pc \in {"loop", "body"} =>
       \A n \in 1 .. Len(started) : IsRecovery(n) /\ n \notin recovered =>
         \/ \E j \in 1 .. Len(stack) : stack[j].nr = n
         \/ index > Len(handlers) /\ \A j \in 1 .. Len(stack) : stack[j].nr < n

IInv ==
  TypeOK /\ GroupInv /\ ChainInv /\ CountInv /\ StackInv /\ CoverInv /\ RecoveryHolds
=============================================================================
