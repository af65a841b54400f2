-------------------------- MODULE WebEngine_proof --------------------------
(***************************************************************************)
(* Proofs about WebEngine, for any groups, middlewares, routes and paths,  *)
(* and handlers that call c.Next as often as they like.                    *)
(***************************************************************************)
EXTENDS WebEngine, TLAPS

\* What HasPrefix says of three paths.
LEMMA PrefixTransitive ==
  ASSUME NEW S, NEW p \in Seq(S), NEW q \in Seq(S), NEW r \in Seq(S),
         HasPrefix(p, q), HasPrefix(q, r)
  PROVE  HasPrefix(p, r)
BY DEF HasPrefix

LEMMA AppendHasPrefix ==
  ASSUME NEW S, NEW p \in Seq(S), NEW q \in Seq(S), NEW x \in S, HasPrefix(p, q)
  PROVE  HasPrefix(Append(p, x), q)
BY DEF HasPrefix

LEMMA ConcatHasPrefix ==
  ASSUME NEW S, NEW p \in Seq(S), NEW q \in Seq(S)
  PROVE  HasPrefix(p \o q, p)
BY DEF HasPrefix

LEMMA HasPrefixOfItself ==
  ASSUME NEW S, NEW p \in Seq(S)
  PROVE  HasPrefix(p, p)
BY DEF HasPrefix

-----------------------------------------------------------------------------
(* The set-up.                                                             *)

\* What the set-up leaves alone.
LEMMA SetupStep ==
  ASSUME Setup
  PROVE  /\ pc = "setup"
         /\ UNCHANGED <<pc, request, next, handlers, index, stack, started, recovered, crashed>>
BY DEF Setup, Group, Use, Add

LEMMA Prefixes ==
  ASSUME TypeOK, NEW g \in 1 .. Len(groups)
  PROVE  /\ groups[g].prefix \in Seq(Pieces \cup {Param})
         /\ groups[g].line \subseteq Nat
         /\ groups[g].middlewares \in Seq({"recovery", "plain"})
<1>1. groups[g] \in GroupType
  BY DEF TypeOK
<1> QED
  BY <1>1 DEF GroupType

LEMMA GroupStep ==
  ASSUME IInv, NEW g \in 1 .. Len(groups), NEW p \in Pieces \cup {Param}, Group(g, p)
  PROVE  TypeOK' /\ GroupInv'
<1>0. TypeOK /\ GroupInv
  BY DEF IInv
<1> DEFINE P == Pieces \cup {Param}
           new == [prefix |-> Prefix(g, p), line |-> groups[g].line \cup {Len(groups) + 1},
                   middlewares |-> <<>>]
<1>1. groups \in Seq(GroupType) /\ Len(groups) \in Nat
  BY <1>0 DEF TypeOK
<1>2. groups[g].prefix \in Seq(P) /\ groups[g].line \subseteq Nat
  BY <1>0, Prefixes
<1>3. Prefix(g, p) \in Seq(P)
  BY <1>2 DEF Prefix
<1>4. new \in GroupType
  BY <1>1, <1>2, <1>3 DEF GroupType
<1>5. groups' = Append(groups, new)
  BY DEF Group
<1>6. groups' \in Seq(GroupType) /\ Len(groups') = Len(groups) + 1
  BY <1>1, <1>4, <1>5
<1>7. \A a \in 1 .. Len(groups) : groups'[a] = groups[a]
  BY <1>1, <1>5
<1>8. groups'[Len(groups) + 1] = new
  BY <1>1, <1>5
<1>9. TypeOK'
  BY <1>0, <1>6 DEF TypeOK, Group, request
<1>10. ASSUME NEW h \in 1 .. Len(groups'), NEW a \in groups'[h].line
       PROVE  a \in 1 .. h /\ HasPrefix(groups'[h].prefix, groups'[a].prefix)
  <2>1. CASE h \in 1 .. Len(groups)
    <3>1. a \in groups[h].line
      BY <1>7, <1>10, <2>1
    <3>2. a \in 1 .. h /\ HasPrefix(groups[h].prefix, groups[a].prefix)
      BY <1>0, <2>1, <3>1 DEF GroupInv
    <3>3. a \in 1 .. Len(groups)
      BY <1>1, <2>1, <3>2
    <3> QED
      BY <1>7, <2>1, <3>2, <3>3
  <2>2. CASE h = Len(groups) + 1
    <3>1. groups'[h].prefix = Append(groups[g].prefix, p)
      BY <1>8, <2>2 DEF Prefix
    <3>2. CASE a = Len(groups) + 1
      <4>1. Append(groups[g].prefix, p) \in Seq(P)
        BY <1>2
      <4>2. HasPrefix(groups'[h].prefix, groups'[h].prefix)
        BY <3>1, <4>1, HasPrefixOfItself
      <4> QED
        BY <1>1, <2>2, <3>2, <4>2
    <3>3. CASE a \in groups[g].line
      <4>1. a \in 1 .. g /\ HasPrefix(groups[g].prefix, groups[a].prefix)
        BY <1>0, <3>3 DEF GroupInv
      <4>2. a \in 1 .. Len(groups)
        BY <1>1, <4>1
      <4>3. groups[a].prefix \in Seq(P)
        BY <1>0, <4>2, Prefixes
      <4>4. HasPrefix(Append(groups[g].prefix, p), groups[a].prefix)
        BY <1>2, <4>1, <4>3, AppendHasPrefix
      <4> QED
        BY <1>1, <1>7, <2>2, <3>1, <4>1, <4>2, <4>4
    <3> QED
      BY <1>8, <1>10, <2>2, <3>2, <3>3
  <2> QED
    BY <1>1, <1>6, <1>10, <2>1, <2>2
<1>11. ASSUME NEW r \in routes'
       PROVE  r.group \in 1 .. Len(groups') /\ HasPrefix(r.pattern, groups'[r.group].prefix)
  <2>1. r \in routes
    BY <1>11 DEF Group
  <2>2. r.group \in 1 .. Len(groups) /\ HasPrefix(r.pattern, groups[r.group].prefix)
    BY <1>0, <2>1 DEF GroupInv
  <2> QED
    BY <1>1, <1>6, <1>7, <2>2
<1>12. pc' = "setup"
  BY DEF Group
<1> QED
  BY <1>9, <1>10, <1>11, <1>12 DEF GroupInv

LEMMA UseStep ==
  ASSUME IInv, NEW g \in 1 .. Len(groups), NEW m \in {"recovery", "plain"}, Use(g, m)
  PROVE  TypeOK' /\ GroupInv'
<1>0. TypeOK /\ GroupInv
  BY DEF IInv
<1> DEFINE new == [groups[g] EXCEPT !.middlewares = Append(groups[g].middlewares, m)]
<1>1. groups \in Seq(GroupType) /\ Len(groups) \in Nat /\ groups[g] \in GroupType
  BY <1>0 DEF TypeOK
<1>2. Append(groups[g].middlewares, m) \in Seq({"recovery", "plain"})
  BY <1>0, Prefixes
<1>3. new \in GroupType /\ new.prefix = groups[g].prefix /\ new.line = groups[g].line
  BY <1>1, <1>2 DEF GroupType
<1>4. groups' = [groups EXCEPT ![g] = new]
  BY DEF Use
<1>5. groups' \in Seq(GroupType) /\ Len(groups') = Len(groups)
  BY <1>1, <1>3, <1>4
<1>6. \A a \in 1 .. Len(groups) : groups'[a].prefix = groups[a].prefix /\ groups'[a].line = groups[a].line
  BY <1>1, <1>3, <1>4
<1>7. TypeOK'
  BY <1>0, <1>5 DEF TypeOK, Use, request
<1>8. ASSUME NEW h \in 1 .. Len(groups'), NEW a \in groups'[h].line
      PROVE  a \in 1 .. h /\ HasPrefix(groups'[h].prefix, groups'[a].prefix)
  <2>1. a \in groups[h].line
    BY <1>5, <1>6, <1>8
  <2>2. a \in 1 .. h /\ HasPrefix(groups[h].prefix, groups[a].prefix)
    BY <1>0, <1>5, <2>1 DEF GroupInv
  <2> QED
    BY <1>1, <1>5, <1>6, <2>2
<1>9. ASSUME NEW r \in routes'
      PROVE  r.group \in 1 .. Len(groups') /\ HasPrefix(r.pattern, groups'[r.group].prefix)
  <2>1. r \in routes
    BY <1>9 DEF Use
  <2>2. r.group \in 1 .. Len(groups) /\ HasPrefix(r.pattern, groups[r.group].prefix)
    BY <1>0, <2>1 DEF GroupInv
  <2> QED
    BY <1>5, <1>6, <2>2
<1>10. pc' = "setup"
  BY DEF Use
<1> QED
  BY <1>7, <1>8, <1>9, <1>10 DEF GroupInv

LEMMA AddStep ==
  ASSUME IInv, NEW g \in 1 .. Len(groups), NEW p \in RoutePaths, Add(g, p)
  PROVE  TypeOK' /\ GroupInv'
<1>0. TypeOK /\ GroupInv
  BY DEF IInv
<1> DEFINE new == [pattern |-> groups[g].prefix \o p, group |-> g]
<1>1. groups[g].prefix \in Seq(Pieces \cup {Param}) /\ p \in Seq(Pieces \cup {Param})
  BY <1>0, Prefixes, RoutePathsAssumption
<1>2. new \in RouteType
  BY <1>0, <1>1 DEF TypeOK, RouteType
<1>3. routes' = routes \cup {new} /\ UNCHANGED groups /\ pc' = "setup"
  BY DEF Add
<1>4. TypeOK'
  BY <1>0, <1>2, <1>3 DEF TypeOK, Add, request
<1>5. HasPrefix(groups[g].prefix \o p, groups[g].prefix)
  BY <1>1, ConcatHasPrefix
<1>6. new.group = g /\ new.pattern = groups[g].prefix \o p
  OBVIOUS
<1>7. HasPrefix(new.pattern, groups[new.group].prefix)
  BY <1>5, <1>6
<1> QED
  BY <1>0, <1>3, <1>4, <1>6, <1>7 DEF GroupInv

\* Nothing but the groups and the routes changes, and no chain is there yet.
LEMMA SetupKeepsIInv ==
  ASSUME IInv, Setup
  PROVE  IInv'
<1>1. TypeOK' /\ GroupInv'
  <2>1. PICK g \in 1 .. Len(groups) :
          \/ \E p \in Pieces \cup {Param} : Group(g, p)
          \/ \E m \in {"recovery", "plain"} : Use(g, m)
          \/ \E p \in RoutePaths : Add(g, p)
    BY DEF Setup
  <2>2. CASE \E p \in Pieces \cup {Param} : Group(g, p)
    BY <2>2, GroupStep
  <2>3. CASE \E m \in {"recovery", "plain"} : Use(g, m)
    BY <2>3, UseStep
  <2>4. CASE \E p \in RoutePaths : Add(g, p)
    BY <2>4, AddStep
  <2> QED
    BY <2>1, <2>2, <2>3, <2>4
<1>2. pc = "setup"
      /\ UNCHANGED <<pc, request, next, handlers, index, stack, started, recovered, crashed>>
  BY SetupStep
<1>3. handlers = <<>>
  <2>1. handlers \in Seq(Nat \X Nat) /\ next = 1 /\ Chain = 1 .. Len(handlers)
    BY <1>2 DEF IInv, TypeOK, ChainInv, Chain, Calm
  <2>2. \A n \in 1 .. Len(handlers) : handlers[n][1] \in 1 .. next - 1
    BY <2>1 DEF IInv, ChainInv
  <2>3. Len(handlers) = 0
    <3>1. Len(handlers) \in Nat
      BY <2>1
    <3>2. 1 \notin 1 .. Len(handlers)
      BY <2>1, <2>2
    <3> QED
      BY <3>1, <3>2
  <2> QED
    BY <2>1, <2>3
<1>4. ChainInv'
  BY <1>1, <1>2, <1>3 DEF IInv, ChainInv, Chain, Calm, TypeOK
<1>5. CountInv'
  BY <1>2 DEF IInv, CountInv, Calm
<1>6. StackInv'
  BY <1>2 DEF IInv, StackInv, Calm
<1>7. CoverInv' /\ RecoveryHolds'
  BY <1>2 DEF IInv, CoverInv, RecoveryHolds
<1> QED
  BY <1>1, <1>4, <1>5, <1>6, <1>7 DEF IInv

-----------------------------------------------------------------------------
(* The closure of Router.add.                                              *)

LEMMA ServeHTTPKeepsIInv ==
  ASSUME IInv, NEW r \in routes, NEW p \in [1 .. Len(r.pattern) -> Pieces], ServeHTTP(r, p)
  PROVE  IInv'
<1>0. TypeOK /\ GroupInv /\ ChainInv
  BY DEF IInv
<1>1. pc = "setup" /\ pc' = "collect" /\ route' = r /\ path' = p /\ Matches(r.pattern, p)
      /\ UNCHANGED <<groups, routes, next, handlers, index, stack, started, recovered, crashed>>
  BY DEF ServeHTTP, setup
<1>2. p \in Seq(Pieces)
  <2>1. r.pattern \in Seq(Pieces \cup {Param})
    BY <1>0 DEF TypeOK, RouteType
  <2> QED
    BY <2>1
<1>3. TypeOK'
  BY <1>0, <1>1, <1>2 DEF TypeOK
<1>4. GroupInv'
  BY <1>0, <1>1 DEF GroupInv, HasPrefix, Matches
<1>5. ChainInv'
  <2>1. next = 1
    BY <1>0, <1>1 DEF ChainInv
  <2> QED
    BY <1>0, <1>1, <2>1 DEF TypeOK, ChainInv, Chain, Calm
<1>6. CountInv' /\ StackInv'
  BY <1>1 DEF IInv, CountInv, StackInv, Calm
<1>7. CoverInv' /\ RecoveryHolds'
  BY <1>1 DEF IInv, CoverInv, RecoveryHolds
<1> QED
  BY <1>3, <1>4, <1>5, <1>6, <1>7 DEF IInv

\* The handlers that one group adds.
LEMMA CollectKeepsChain ==
  ASSUME IInv, Collect
  PROVE  TypeOK' /\ ChainInv'
<1> DEFINE L == Len(groups[next].middlewares)
           new == [i \in 1 .. L |-> <<next, i>>]
<1>0. TypeOK /\ ChainInv
  BY DEF IInv
<1>1. pc = "collect" /\ next \in 1 .. Len(groups) /\ next' = next + 1
      /\ UNCHANGED <<groups, routes, pc, route, path, index, stack, started, recovered, crashed>>
  BY <1>0 DEF Collect, setup, request, TypeOK, ChainInv
<1>2. L \in Nat
  BY <1>0, <1>1, Prefixes
<1>3. handlers \in Seq(Nat \X Nat) /\ Len(handlers) \in Nat /\ next \in Nat
  BY <1>0 DEF TypeOK
<1>4. new \in Seq(Nat \X Nat) /\ Len(new) = L
  BY <1>2, <1>3
<1>5. Chain = 1 .. Len(handlers) /\ Chain' = 1 .. Len(handlers')
  BY <1>1 DEF Chain, Calm
<1>6. CASE HasPrefix(path, groups[next].prefix)
  <2>1. handlers' = handlers \o new
    BY <1>6 DEF Collect
  <2>2. handlers' \in Seq(Nat \X Nat) /\ Len(handlers') = Len(handlers) + L
    BY <1>3, <1>4, <2>1
  <2>3. \A n \in 1 .. Len(handlers) : handlers'[n] = handlers[n]
    BY <1>3, <1>4, <2>1
  <2>4. ASSUME NEW n \in 1 .. L PROVE handlers'[Len(handlers) + n] = <<next, n>>
    <3> HIDE DEF L
    <3>1. handlers'[Len(handlers) + n] = new[n]
      BY <1>2, <1>3, <1>4, <2>1
    <3> QED
      BY <3>1
  <2>5. ASSUME NEW n \in 1 .. Len(handlers'), n > Len(handlers)
        PROVE  handlers'[n][1] = next
    <3>1. n - Len(handlers) \in 1 .. L
      BY <1>2, <1>3, <2>2, <2>5
    <3>2. handlers'[Len(handlers) + (n - Len(handlers))] = <<next, n - Len(handlers)>>
      BY <2>4, <3>1
    <3>3. Len(handlers) + (n - Len(handlers)) = n
      BY <1>3, <2>2
    <3> QED
      BY <3>2, <3>3
  <2>6. TypeOK'
    BY <1>0, <1>1, <2>2 DEF TypeOK
  <2>7. \A n \in 1 .. Len(handlers) : handlers[n][1] \in 1 .. next - 1
    BY <1>0, <1>5 DEF ChainInv
  <2>8. \A n \in 1 .. Len(handlers') : handlers'[n][1] \in 1 .. next
    <3> SUFFICES ASSUME NEW n \in 1 .. Len(handlers') PROVE handlers'[n][1] \in 1 .. next
      OBVIOUS
    <3>1. CASE n > Len(handlers)
      BY <1>1, <1>3, <2>5, <3>1
    <3>2. CASE n \in 1 .. Len(handlers)
      <4>1. handlers'[n][1] \in 1 .. next - 1
        BY <2>3, <2>7, <3>2
      <4> QED
        BY <1>3, <4>1
    <3> QED
      BY <1>3, <2>2, <3>1, <3>2
  <2>9. \A m, n \in 1 .. Len(handlers) : m < n => handlers[m][1] <= handlers[n][1]
    BY <1>0, <1>5 DEF ChainInv
  <2>10. ASSUME NEW m \in 1 .. Len(handlers'), NEW n \in 1 .. Len(handlers'), m < n
         PROVE  handlers'[m][1] <= handlers'[n][1]
    <3>1. CASE n \in 1 .. Len(handlers)
      <4>1. m \in 1 .. Len(handlers)
        BY <1>3, <2>2, <2>10, <3>1
      <4> QED
        BY <2>3, <2>9, <2>10, <3>1, <4>1
    <3>2. CASE n > Len(handlers)
      BY <2>5, <2>8, <3>2, <1>3
    <3> QED
      BY <1>3, <2>2, <3>1, <3>2
  <2>11. ASSUME NEW g \in 1 .. Len(groups), g < next + 1, HasPrefix(path, groups[g].prefix),
                NEW i \in 1 .. Len(groups[g].middlewares)
         PROVE  \E n \in 1 .. Len(handlers') : handlers'[n] = <<g, i>>
    <3>1. CASE g = next
      <4>1. handlers'[Len(handlers) + i] = <<g, i>>
        BY <2>4, <2>11, <3>1
      <4>2. Len(handlers) + i \in 1 .. Len(handlers')
        BY <1>2, <1>3, <2>2, <2>11, <3>1
      <4> QED
        BY <4>1, <4>2
    <3>2. CASE g < next
      <4>1. PICK n \in 1 .. Len(handlers) : handlers[n] = <<g, i>>
        BY <1>0, <1>5, <2>11, <3>2 DEF ChainInv
      <4>2. n \in 1 .. Len(handlers')
        <5> HIDE DEF L
        <5> QED
          BY <1>2, <1>3, <2>2, <4>1
      <4> QED
        BY <2>3, <4>1, <4>2
    <3> QED
      BY <1>1, <2>11, <3>1, <3>2
  <2>12. Calm' /\ pc' # "setup" /\ next' \in 1 .. Len(groups') + 1 /\ next' - 1 = next
    BY <1>1, <1>3 DEF Calm
  <2>13. \A k \in Chain' : handlers'[k][1] \in 1 .. next' - 1
    BY <1>5, <2>8, <2>12
  <2>14. \A m, k \in Chain' : m < k => handlers'[m][1] <= handlers'[k][1]
    BY <1>5, <2>10
  <2>15. \A g \in 1 .. Len(groups') : g < next' /\ HasPrefix(path', groups'[g].prefix) =>
          \A i \in 1 .. Len(groups'[g].middlewares) :
            \E k \in Chain' : handlers'[k] = <<g, i>>
    BY <1>1, <1>5, <2>11
  <2> QED
    BY <2>6, <2>12, <2>13, <2>14, <2>15 DEF ChainInv
<1>7. CASE ~HasPrefix(path, groups[next].prefix)
  <2>1. UNCHANGED handlers
    BY <1>7 DEF Collect
  <2>2. TypeOK'
    BY <1>0, <1>1, <2>1 DEF TypeOK
  <2>3. \A n \in 1 .. Len(handlers) : handlers[n][1] \in 1 .. next - 1
    BY <1>0, <1>5 DEF ChainInv
  <2>4. \A n \in 1 .. Len(handlers) : handlers[n][1] \in 1 .. next
    BY <1>3, <2>3
  <2>5. \A m, n \in 1 .. Len(handlers) : m < n => handlers[m][1] <= handlers[n][1]
    BY <1>0, <1>5 DEF ChainInv
  <2>6. ASSUME NEW g \in 1 .. Len(groups), g < next + 1, HasPrefix(path, groups[g].prefix)
        PROVE  \A i \in 1 .. Len(groups[g].middlewares) :
                 \E n \in 1 .. Len(handlers) : handlers[n] = <<g, i>>
    <3>1. g < next
      BY <1>1, <1>7, <2>6
    <3> QED
      BY <1>0, <1>5, <2>6, <3>1 DEF ChainInv
  <2>7. Calm' /\ pc' # "setup" /\ next' \in 1 .. Len(groups') + 1 /\ next' - 1 = next
    BY <1>1, <1>3 DEF Calm
  <2>8. \A k \in Chain' : handlers'[k][1] \in 1 .. next' - 1
    BY <1>5, <2>4, <2>7, <2>1
  <2>9. \A m, k \in Chain' : m < k => handlers'[m][1] <= handlers'[k][1]
    BY <1>5, <2>5, <2>1
  <2>10. \A g \in 1 .. Len(groups') : g < next' /\ HasPrefix(path', groups'[g].prefix) =>
          \A i \in 1 .. Len(groups'[g].middlewares) :
            \E k \in Chain' : handlers'[k] = <<g, i>>
    BY <1>1, <1>5, <2>6, <2>1
  <2> QED
    BY <2>2, <2>7, <2>8, <2>9, <2>10 DEF ChainInv
<1> QED
  BY <1>6, <1>7

LEMMA CollectKeepsIInv ==
  ASSUME IInv, Collect
  PROVE  IInv'
<1>1. pc = "collect"
      /\ UNCHANGED <<groups, routes, pc, route, path, index, stack, started, recovered, crashed>>
  BY DEF Collect, setup, request
<1>2. TypeOK' /\ ChainInv'
  BY CollectKeepsChain
<1>3. GroupInv'
  BY <1>1 DEF IInv, GroupInv, HasPrefix, Matches
<1>4. CountInv' /\ StackInv'
  BY <1>1 DEF IInv, CountInv, StackInv, Calm
<1>5. CoverInv' /\ RecoveryHolds'
  BY <1>1 DEF IInv, CoverInv, RecoveryHolds
<1> QED
  BY <1>2, <1>3, <1>4, <1>5 DEF IInv

LEMMA EnterKeepsIInv ==
  ASSUME IInv, Enter
  PROVE  IInv'
<1>0. TypeOK /\ GroupInv /\ ChainInv /\ CountInv /\ StackInv /\ CoverInv
  BY DEF IInv
<1>1. pc = "collect" /\ pc' = "loop" /\ next > Len(groups) /\ handlers' = Append(handlers, Own)
      /\ index' = index + 1
      /\ UNCHANGED <<groups, routes, route, path, next, stack, started, recovered, crashed>>
  BY DEF Enter, setup, request
<1>2. handlers \in Seq(Nat \X Nat) /\ Len(handlers) \in Nat /\ Own \in Nat \X Nat
  BY <1>0 DEF TypeOK, Own
<1>3. handlers' \in Seq(Nat \X Nat) /\ Len(handlers') = Len(handlers) + 1
      /\ handlers'[Len(handlers')] = Own
      /\ \A n \in 1 .. Len(handlers) : handlers'[n] = handlers[n]
  BY <1>1, <1>2
<1>4. Chain = 1 .. Len(handlers) /\ Chain' = 1 .. Len(handlers) /\ Calm /\ ~Calm'
  BY <1>1, <1>2, <1>3 DEF Chain, Calm
<1>5. index = 0 /\ started = <<>> /\ stack = <<>>
  BY <1>0, <1>4 DEF CountInv, StackInv
<1>6. TypeOK'
  BY <1>0, <1>1, <1>3 DEF TypeOK
<1>7. GroupInv'
  BY <1>0, <1>1 DEF GroupInv, HasPrefix, Matches
<1>8. ChainInv'
  <2>1. next = Len(groups) + 1
    <3>1. Len(groups) \in Nat /\ next \in 1 .. Len(groups) + 1
      BY <1>0 DEF TypeOK, ChainInv
    <3> QED
      BY <1>1, <3>1
  <2>2. next' = Len(groups') + 1 /\ next' \in 1 .. Len(groups') + 1 /\ Len(handlers') > 0 /\ pc' # "setup"
    BY <1>0, <1>1, <1>2, <1>3, <2>1 DEF TypeOK
  <2>3. \A n \in Chain' : handlers'[n] = handlers[n] /\ n \in Chain
    BY <1>3, <1>4
  <2>4. \A n \in Chain' : handlers'[n][1] \in 1 .. next' - 1
    BY <1>0, <1>1, <2>3 DEF ChainInv
  <2>5. \A m, n \in Chain' : m < n => handlers'[m][1] <= handlers'[n][1]
    BY <1>0, <2>3 DEF ChainInv
  <2>6. ASSUME NEW g \in 1 .. Len(groups'), g < next', HasPrefix(path', groups'[g].prefix),
               NEW i \in 1 .. Len(groups'[g].middlewares)
        PROVE  \E n \in Chain' : handlers'[n] = <<g, i>>
    <3>1. PICK n \in Chain : handlers[n] = <<g, i>>
      BY <1>0, <1>1, <2>6 DEF ChainInv
    <3> QED
      BY <1>3, <1>4, <3>1
  <2> QED
    BY <1>3, <1>4, <2>2, <2>4, <2>5, <2>6 DEF ChainInv
<1>9. CountInv'
  BY <1>0, <1>1, <1>2, <1>3, <1>4, <1>5 DEF CountInv
<1>10. StackInv'
  BY <1>0, <1>1, <1>4, <1>5 DEF StackInv
<1>11. CoverInv' /\ RecoveryHolds'
  <2>1. Len(started') = 0
    BY <1>1, <1>5
  <2> QED
    BY <1>0, <1>1, <2>1 DEF CoverInv, RecoveryHolds
<1> QED
  BY <1>6, <1>7, <1>8, <1>9, <1>10, <1>11 DEF IInv

-----------------------------------------------------------------------------
(* Context.Next and the handlers: the chain itself does not change.        *)

LEMMA RunKeepsChain ==
  ASSUME IInv, pc \in {"loop", "body"}, pc' \in {"loop", "body", "over", "aborted"},
         UNCHANGED <<setup, request, next, handlers>>
  PROVE  /\ GroupInv' /\ ChainInv'
         /\ \A n \in 1 .. Len(handlers) : IsRecovery(n)' = IsRecovery(n)
<1>1. UNCHANGED <<groups, routes, route, path, next, handlers>>
  BY DEF setup, request
<1>2. Chain' = Chain /\ ~Calm /\ ~Calm'
  BY <1>1 DEF Chain, Calm
<1>3. GroupInv'
  BY <1>1 DEF IInv, GroupInv, HasPrefix, Matches
<1>4. ChainInv'
  BY <1>1, <1>2 DEF IInv, ChainInv, Calm
<1> QED
  BY <1>1, <1>3, <1>4 DEF IsRecovery

LEMMA BodyCount ==
  ASSUME CountInv, pc = "body"
  PROVE  /\ index > 0
         /\ Len(started) = IF index <= Len(handlers) THEN index ELSE Len(handlers)
BY DEF CountInv

LEMMA CallHandlerKeepsIInv ==
  ASSUME IInv, CallHandler
  PROVE  IInv'
<1>0. TypeOK /\ CountInv /\ StackInv /\ CoverInv
  BY DEF IInv
<1> DEFINE frame == [nr |-> index, nexts |-> 0]
<1>1. pc = "loop" /\ pc' = "body" /\ index <= Len(handlers)
      /\ stack' = Append(stack, frame) /\ started' = Append(started, index)
      /\ UNCHANGED <<setup, request, next, handlers, index, recovered, crashed>>
  BY DEF CallHandler
<1>2. index \in Nat /\ index > 0 /\ Len(started) = index - 1 /\ frame \in FrameType
      /\ frame.nr = index /\ frame.nexts = 0 /\ Len(handlers) \in Nat
  BY <1>0, <1>1 DEF TypeOK, CountInv, FrameType
<1>3. stack \in Seq(FrameType) /\ Len(stack) \in Nat
  BY <1>0 DEF TypeOK
<1>4. stack' \in Seq(FrameType) /\ Len(stack') = Len(stack) + 1
      /\ stack'[Len(stack) + 1] = frame
      /\ \A j \in 1 .. Len(stack) : stack'[j] = stack[j]
  BY <1>1, <1>2, <1>3
<1> HIDE DEF frame
<1>5. started \in Seq(Nat)
  BY <1>0 DEF TypeOK
<1>6. started' \in Seq(Nat) /\ Len(started') = index /\ started'[index] = index
      /\ \A i \in 1 .. Len(started) : started'[i] = started[i]
  BY <1>1, <1>2, <1>5
<1>7. started' = [i \in 1 .. Len(started') |-> i]
  <2>1. \A i \in 1 .. Len(started) : started[i] = i
    BY <1>0 DEF CountInv
  <2>2. \A i \in 1 .. Len(started') : started'[i] = i
    BY <1>2, <1>6, <2>1
  <2> QED
    BY <1>6, <2>2
<1>8. TypeOK'
  BY <1>0, <1>1, <1>4, <1>6 DEF TypeOK, setup, request
<1>9. GroupInv' /\ ChainInv' /\ \A n \in 1 .. Len(handlers) : IsRecovery(n)' = IsRecovery(n)
  BY <1>1, RunKeepsChain
<1>10. CountInv'
  BY <1>1, <1>2, <1>6, <1>7 DEF CountInv, Calm
<1>11. \A j \in 1 .. Len(stack) : stack[j].nr \in 1 .. index - 1
  BY <1>0, <1>2 DEF StackInv
<1>12. StackInv'
  <2>1. \A j \in 1 .. Len(stack') : stack'[j].nr \in 1 .. Len(started')
    <3> SUFFICES ASSUME NEW j \in 1 .. Len(stack') PROVE stack'[j].nr \in 1 .. Len(started')
      OBVIOUS
    <3>1. CASE j = Len(stack) + 1
      BY <1>2, <1>4, <1>6, <3>1
    <3>2. CASE j \in 1 .. Len(stack)
      <4>1. stack'[j].nr \in 1 .. index - 1
        BY <1>4, <1>11, <3>2
      <4> QED
        BY <1>2, <1>6, <4>1
    <3> QED
      BY <1>3, <1>4, <3>1, <3>2
  <2>2. \A i, j \in 1 .. Len(stack) : i < j => stack[i].nr < stack[j].nr
    BY <1>0 DEF StackInv
  <2>3. \A i, j \in 1 .. Len(stack') : i < j => stack'[i].nr < stack'[j].nr
    <3> SUFFICES ASSUME NEW i \in 1 .. Len(stack'), NEW j \in 1 .. Len(stack'), i < j
                 PROVE  stack'[i].nr < stack'[j].nr
      OBVIOUS
    <3>1. i \in 1 .. Len(stack) /\ stack'[i] = stack[i] /\ stack[i].nr \in 1 .. index - 1
      <4>1. i \in 1 .. Len(stack)
        BY <1>3, <1>4
      <4> QED
        BY <1>4, <1>11, <4>1
    <3>2. CASE j = Len(stack) + 1
      <4>1. stack'[j].nr = index
        BY <1>2, <1>4, <3>2
      <4> QED
        BY <1>2, <3>1, <4>1
    <3>3. CASE j \in 1 .. Len(stack)
      BY <1>4, <2>2, <3>1, <3>3
    <3>4. j = Len(stack) + 1 \/ j \in 1 .. Len(stack)
      BY <1>3, <1>4
    <3> QED
      BY <3>2, <3>3, <3>4
  <2>4. Top'.nexts = 0 /\ stack' # <<>>
    BY <1>2, <1>3, <1>4 DEF Top
  <2> QED
    BY <1>1, <2>1, <2>3, <2>4 DEF StackInv, Calm
<1>13. CoverInv' /\ RecoveryHolds'
  <2>1. crashed = 0 /\ crashed' = 0
    BY <1>0, <1>1 DEF CoverInv
  <2>2. ASSUME NEW n \in 1 .. Len(started'), IsRecovery(n)', n \notin recovered'
        PROVE  \E j \in 1 .. Len(stack') : stack'[j].nr = n
    <3>1. CASE n = index
      BY <1>2, <1>3, <1>4, <3>1
    <3>2. CASE n # index
      <4>1. n \in 1 .. Len(started) /\ n \in 1 .. Len(handlers)
        BY <1>1, <1>2, <1>6, <2>2, <3>2
      <4>2. IsRecovery(n) /\ n \notin recovered
        BY <1>1, <1>9, <2>2, <4>1
      <4>3. PICK j \in 1 .. Len(stack) : stack[j].nr = n
        BY <1>0, <1>1, <1>2, <4>1, <4>2 DEF CoverInv
      <4> QED
        BY <1>3, <1>4, <4>3
    <3> QED
      BY <3>1, <3>2
  <2> QED
    BY <1>1, <2>1, <2>2 DEF CoverInv, RecoveryHolds
<1> QED
  BY <1>8, <1>9, <1>10, <1>12, <1>13 DEF IInv

LEMMA LoopEndsKeepsIInv ==
  ASSUME IInv, LoopEnds
  PROVE  IInv'
<1>0. TypeOK /\ CountInv /\ StackInv /\ CoverInv
  BY DEF IInv
<1>1. pc = "loop" /\ index > Len(handlers) /\ pc' = (IF stack = <<>> THEN "over" ELSE "body")
      /\ UNCHANGED <<setup, request, next, handlers, index, stack, started, recovered, crashed>>
  BY DEF LoopEnds
<1>2. GroupInv' /\ ChainInv' /\ \A n \in 1 .. Len(handlers) : IsRecovery(n)' = IsRecovery(n)
  BY <1>1, RunKeepsChain
<1>3. index \in Nat /\ Len(handlers) \in Nat /\ Len(started) = Len(handlers)
  BY <1>0, <1>1 DEF TypeOK, CountInv
<1>4. TypeOK'
  BY <1>0, <1>1 DEF TypeOK, setup, request
<1>5. CountInv'
  <2>1. started' = [i \in 1 .. Len(started') |-> i]
    BY <1>0, <1>1 DEF CountInv
  <2>2. ~Calm' /\ pc' # "loop" /\ Len(started') = Len(handlers') /\ index' > 0
        /\ ~(index' <= Len(handlers'))
    BY <1>1, <1>3 DEF Calm
  <2> QED
    BY <2>1, <2>2 DEF CountInv
<1>6. StackInv'
  BY <1>0, <1>1, <1>3 DEF StackInv, Calm, Top
<1>7. CoverInv' /\ RecoveryHolds'
  <2>1. crashed = 0 /\ crashed' = 0
    BY <1>0, <1>1 DEF CoverInv
  <2> QED
    BY <1>0, <1>1, <1>2, <1>3, <2>1 DEF CoverInv, RecoveryHolds
<1> QED
  BY <1>2, <1>4, <1>5, <1>6, <1>7 DEF IInv

LEMMA CallNextKeepsIInv ==
  ASSUME IInv, CallNext
  PROVE  IInv'
<1>0. TypeOK /\ CountInv /\ StackInv /\ CoverInv
  BY DEF IInv
<1>1. pc = "body" /\ pc' = "loop" /\ index' = index + 1
      /\ stack' = [stack EXCEPT ![Len(stack)].nexts = @ + 1]
      /\ UNCHANGED <<setup, request, next, handlers, started, recovered, crashed>>
  BY DEF CallNext
<1>2. GroupInv' /\ ChainInv' /\ \A n \in 1 .. Len(handlers) : IsRecovery(n)' = IsRecovery(n)
  BY <1>1, RunKeepsChain
<1>3. index \in Nat /\ Len(handlers) \in Nat /\ Len(started) \in Nat /\ Len(stack) \in Nat
      /\ stack \in Seq(FrameType)
  BY <1>0 DEF TypeOK
<1>4. stack' \in Seq(FrameType) /\ Len(stack') = Len(stack)
      /\ \A j \in 1 .. Len(stack) : stack'[j].nr = stack[j].nr
  <2> DEFINE frame == [Top EXCEPT !.nexts = Top.nexts + 1]
  <2>1. Len(stack) \in 1 .. Len(stack)
    BY <1>0, <1>1, <1>3 DEF StackInv
  <2>2. Top \in FrameType
    <3>1. ASSUME NEW j \in 1 .. Len(stack) PROVE stack[j] \in FrameType
      BY <1>3
    <3> QED
      BY <2>1, <3>1 DEF Top
  <2>3. frame \in FrameType /\ frame.nr = Top.nr
    BY <2>2 DEF FrameType
  <2>4. stack' = [stack EXCEPT ![Len(stack)] = frame]
    BY <1>1 DEF Top
  <2> HIDE DEF frame
  <2>5. stack' \in Seq(FrameType) /\ Len(stack') = Len(stack)
    BY <1>3, <2>1, <2>3, <2>4
  <2>6. \A j \in 1 .. Len(stack) : stack'[j] = IF j = Len(stack) THEN frame ELSE stack[j]
    BY <1>3, <2>4
  <2> QED
    BY <2>3, <2>5, <2>6 DEF Top
<1>5. TypeOK'
  BY <1>0, <1>1, <1>3, <1>4 DEF TypeOK, setup, request
<1>6. CountInv'
  BY <1>0, <1>1, <1>3 DEF CountInv, Calm
<1>7. StackInv'
  BY <1>0, <1>1, <1>3, <1>4 DEF StackInv, Calm
<1>8. CoverInv' /\ RecoveryHolds'
  <2>1. crashed = 0 /\ crashed' = 0
    BY <1>0, <1>1 DEF CoverInv
  <2>2. Len(started) <= Len(handlers)
    BY <1>0, <1>1, <1>3 DEF CountInv
  <2>3. ASSUME NEW n \in 1 .. Len(started), IsRecovery(n)', n \notin recovered'
        PROVE  \/ \E j \in 1 .. Len(stack) : stack[j].nr = n
               \/ index > Len(handlers) /\ \A j \in 1 .. Len(stack) : stack[j].nr < n
    <3>1. n \in 1 .. Len(handlers)
      BY <1>3, <2>2, <2>3
    <3> QED
      BY <1>0, <1>1, <1>2, <2>3, <3>1 DEF CoverInv
  <2> QED
    BY <1>1, <1>3, <1>4, <2>1, <2>3 DEF CoverInv, RecoveryHolds
<1> QED
  BY <1>2, <1>5, <1>6, <1>7, <1>8 DEF IInv

\* What Return and a recovered panic have in common: the frames above k are
\* left.  A Recovery among them that has not recovered is the lowest one, and
\* has seen the end of the chain.
LEMMA PopKeepsIInv ==
  ASSUME IInv, pc = "body", pc' = "loop", NEW k \in 0 .. Len(stack) - 1,
         stack' = SubSeq(stack, 1, k), index' = index + 1,
         recovered \subseteq recovered',
         UNCHANGED <<setup, request, next, handlers, started, crashed>>,
         \A j \in k + 1 .. Len(stack) :
           IsRecovery(stack[j].nr) /\ stack[j].nr \notin recovered' =>
             index > Len(handlers) /\ j = k + 1
  PROVE  IInv'
<1>0. TypeOK /\ CountInv /\ StackInv /\ CoverInv
  BY DEF IInv
<1>1. index \in Nat /\ Len(handlers) \in Nat /\ Len(started) \in Nat /\ Len(stack) \in Nat
      /\ stack \in Seq(FrameType)
  BY <1>0 DEF TypeOK
<1>2. stack' \in Seq(FrameType) /\ Len(stack') = k /\ \A j \in 1 .. k : stack'[j] = stack[j]
  BY <1>1
<1>3. GroupInv' /\ ChainInv' /\ \A n \in 1 .. Len(handlers) : IsRecovery(n)' = IsRecovery(n)
  BY RunKeepsChain
<1>4. TypeOK'
  BY <1>0, <1>1, <1>2 DEF TypeOK, setup, request
<1>5. CountInv'
  <2>1. started' = [i \in 1 .. Len(started') |-> i]
    BY <1>0 DEF CountInv
  <2>2. index' > 0 /\ Len(started') = IF index' <= Len(handlers') THEN index' - 1 ELSE Len(handlers')
    BY <1>0, <1>1, BodyCount
  <2> QED
    BY <2>1, <2>2 DEF CountInv, Calm
<1>6. \A j \in 1 .. Len(stack') : j \in 1 .. Len(stack) /\ stack'[j] = stack[j]
  BY <1>1, <1>2
<1>7. StackInv'
  BY <1>0, <1>6 DEF StackInv, Calm
<1>8. crashed = 0 /\ crashed' = 0
  BY <1>0 DEF CoverInv
<1>9. Len(started) <= Len(handlers)
  BY <1>0, <1>1, BodyCount
<1>10. ASSUME NEW n \in 1 .. Len(started'), IsRecovery(n)', n \notin recovered'
       PROVE  \/ \E j \in 1 .. Len(stack') : stack'[j].nr = n
              \/ index' > Len(handlers') /\ \A j \in 1 .. Len(stack') : stack'[j].nr < n
  <2>1. n \in 1 .. Len(handlers) /\ n \in 1 .. Len(started)
    BY <1>1, <1>9, <1>10
  <2>2. IsRecovery(n) /\ n \notin recovered
    BY <1>3, <1>10, <2>1
  <2>3. CASE \E j \in 1 .. Len(stack) : stack[j].nr = n
    <3>1. PICK j \in 1 .. Len(stack) : stack[j].nr = n
      BY <2>3
    <3>2. CASE j \in 1 .. k
      BY <1>2, <3>1, <3>2
    <3>3. CASE j \in k + 1 .. Len(stack)
      <4>1. index > Len(handlers) /\ j = k + 1
        BY <1>10, <2>2, <3>1, <3>3
      <4>2. \A i \in 1 .. k : i \in 1 .. Len(stack) /\ i < j
        BY <1>1, <4>1
      <4>3. \A i \in 1 .. k : stack'[i].nr < n
        BY <1>0, <1>2, <3>1, <4>2 DEF StackInv
      <4> QED
        BY <1>1, <1>2, <4>1, <4>3
    <3>4. j \in 1 .. k \/ j \in k + 1 .. Len(stack)
      BY <1>1, <3>1
    <3> QED
      BY <3>2, <3>3, <3>4
  <2>4. CASE index > Len(handlers) /\ \A j \in 1 .. Len(stack) : stack[j].nr < n
    <3>1. index' > Len(handlers')
      BY <1>1, <2>4
    <3> QED
      BY <1>6, <2>4, <3>1
  <2> QED
    BY <1>0, <2>1, <2>2, <2>3, <2>4 DEF CoverInv
<1>11. CoverInv' /\ RecoveryHolds'
  BY <1>8, <1>10 DEF CoverInv, RecoveryHolds
<1> QED
  BY <1>3, <1>4, <1>5, <1>7, <1>11 DEF IInv

LEMMA ReturnKeepsIInv ==
  ASSUME IInv, Return
  PROVE  IInv'
<1>0. TypeOK /\ StackInv
  BY DEF IInv
<1>1. pc = "body" /\ pc' = "loop" /\ stack' = SubSeq(stack, 1, Len(stack) - 1) /\ index' = index + 1
      /\ UNCHANGED <<setup, request, next, handlers, started, recovered, crashed>>
      /\ (IsRecovery(Top.nr) => Top.nexts = 1)
  BY DEF Return, Advanced
<1>2. Len(stack) \in Nat /\ Len(stack) # 0
  BY <1>0, <1>1 DEF TypeOK, StackInv
<1>3. Len(stack) - 1 \in 0 .. Len(stack) - 1
  BY <1>2
<1>4. ASSUME NEW j \in (Len(stack) - 1) + 1 .. Len(stack), IsRecovery(stack[j].nr)
      PROVE  index > Len(handlers) /\ j = (Len(stack) - 1) + 1
  <2>1. j = Len(stack) /\ j = (Len(stack) - 1) + 1
    BY <1>2, <1>4
  <2>2. Top.nexts = 1
    BY <1>1, <1>4, <2>1 DEF Top
  <2> QED
    BY <1>0, <1>1, <2>1, <2>2 DEF StackInv
<1> QED
  BY <1>1, <1>3, <1>4, PopKeepsIInv

LEMMA PanicRecoveredKeepsIInv ==
  ASSUME IInv, PanicRecovered
  PROVE  IInv'
<1>0. TypeOK /\ StackInv
  BY DEF IInv
<1>1. PICK j \in Catchers :
        /\ \A i \in Catchers : i <= j
        /\ recovered' = recovered \cup {stack[j].nr}
        /\ stack' = SubSeq(stack, 1, j - 1)
  BY DEF PanicRecovered
<1>2. pc = "body" /\ pc' = "loop" /\ index' = index + 1 /\ ~IsRecovery(Top.nr)
      /\ UNCHANGED <<setup, request, next, handlers, started, crashed>>
  BY DEF PanicRecovered
<1>3. Len(stack) \in Nat /\ j \in 1 .. Len(stack) - 1
  BY <1>0 DEF TypeOK, Catchers
<1>4. j - 1 \in 0 .. Len(stack) - 1
  BY <1>3
<1>5. ASSUME NEW i \in (j - 1) + 1 .. Len(stack), IsRecovery(stack[i].nr), stack[i].nr \notin recovered'
      PROVE  FALSE
  <2>1. i # Len(stack)
    BY <1>2, <1>5 DEF Top
  <2>2. i # j
    BY <1>1, <1>5
  <2>3. i \in 1 .. Len(stack) - 1 /\ i > j
    BY <1>3, <1>5, <2>1, <2>2
  <2>4. i \in Catchers
    BY <1>5, <2>3 DEF Catchers
  <2> QED
    BY <1>1, <1>3, <2>3, <2>4
<1> QED
  BY <1>1, <1>2, <1>4, <1>5, PopKeepsIInv

\* Every Recovery in front of the handler is under way, unless it has recovered.
LEMMA PanicAbortsKeepsIInv ==
  ASSUME IInv, PanicAborts
  PROVE  IInv'
<1>0. TypeOK /\ CountInv /\ StackInv /\ CoverInv
  BY DEF IInv
<1>1. pc = "body" /\ pc' = "aborted" /\ Catchers = {} /\ crashed' = Top.nr /\ stack' = <<>>
      /\ UNCHANGED <<setup, request, next, handlers, index, started, recovered>>
  BY DEF PanicAborts
<1>2. GroupInv' /\ ChainInv' /\ \A n \in 1 .. Len(handlers) : IsRecovery(n)' = IsRecovery(n)
  BY <1>1, RunKeepsChain
<1>3. Len(stack) \in Nat /\ Len(stack) \in 1 .. Len(stack) /\ Len(started) \in Nat
      /\ Len(handlers) \in Nat /\ index \in Nat
  BY <1>0, <1>1 DEF TypeOK, StackInv
<1>4. Top.nr \in 1 .. Len(started) /\ Len(started) <= Len(handlers)
  <2>1. Top.nr \in 1 .. Len(started)
    BY <1>0, <1>3 DEF StackInv, Top
  <2>2. Len(started) <= Len(handlers)
    BY <1>0, <1>1, <1>3, BodyCount
  <2> QED
    BY <2>1, <2>2
<1>5. TypeOK'
  BY <1>0, <1>1, <1>4 DEF TypeOK, setup, request
<1>6. CountInv'
  BY <1>0, <1>1 DEF CountInv, Calm
<1>7. StackInv'
  BY <1>1 DEF StackInv, Calm
<1>8. CoverInv'
  BY <1>1 DEF CoverInv
<1>9. RecoveryHolds'
  <2> SUFFICES ASSUME NEW n \in 1 .. crashed' - 1, IsRecovery(n)', n \notin recovered'
               PROVE  FALSE
    BY DEF RecoveryHolds
  <2>1. n \in 1 .. Len(started) /\ n \in 1 .. Len(handlers) /\ n < Top.nr
    BY <1>1, <1>3, <1>4
  <2>2. IsRecovery(n) /\ n \notin recovered
    BY <1>1, <1>2, <2>1
  <2>3. ~\A j \in 1 .. Len(stack) : stack[j].nr < n
    BY <1>3, <1>4, <2>1 DEF Top
  <2>4. PICK j \in 1 .. Len(stack) : stack[j].nr = n
    BY <1>0, <1>1, <2>1, <2>2, <2>3 DEF CoverInv
  <2>5. j # Len(stack)
    BY <1>4, <2>1, <2>4 DEF Top
  <2>6. j \in Catchers
    BY <1>3, <2>2, <2>4, <2>5 DEF Catchers
  <2> QED
    BY <1>1, <2>6
<1> QED
  BY <1>2, <1>5, <1>6, <1>7, <1>8, <1>9 DEF IInv

-----------------------------------------------------------------------------
LEMMA InitIInv == Init => IInv
<1> SUFFICES ASSUME Init PROVE IInv
  OBVIOUS
<1> DEFINE g == [prefix |-> <<>>, line |-> {1}, middlewares |-> <<>>]
<1>1. groups = <<g>> /\ routes = {} /\ pc = "setup" /\ path = <<>> /\ next = 1 /\ handlers = <<>>
      /\ index = 0 /\ stack = <<>> /\ started = <<>> /\ recovered = {} /\ crashed = 0
  BY DEF Init
<1>2. g \in GroupType /\ g.line = {1} /\ g.prefix = <<>>
  BY DEF GroupType
<1> HIDE DEF g
<1>3. groups \in Seq(GroupType) /\ Len(groups) = 1 /\ groups[1] = g
  BY <1>1, <1>2
<1>4. TypeOK
  BY <1>1, <1>3 DEF TypeOK
<1>5. HasPrefix(g.prefix, g.prefix)
  <2>1. <<>> \in Seq(Nat)
    OBVIOUS
  <2> QED
    BY <1>2, <2>1, HasPrefixOfItself
<1>6. GroupInv
  BY <1>1, <1>2, <1>3, <1>5 DEF GroupInv
<1>7. ChainInv
  BY <1>1, <1>3 DEF ChainInv, Chain, Calm
<1>8. CountInv /\ StackInv
  BY <1>1 DEF CountInv, StackInv, Calm
<1>9. CoverInv /\ RecoveryHolds
  BY <1>1 DEF CoverInv, RecoveryHolds
<1> QED
  BY <1>4, <1>6, <1>7, <1>8, <1>9 DEF IInv

LEMMA NextKeepsIInv == IInv /\ [Next]_vars => IInv'
<1> SUFFICES ASSUME IInv, [Next]_vars PROVE IInv'
  OBVIOUS
<1>1. CASE Setup
  BY <1>1, SetupKeepsIInv
<1>2. CASE Serve
  BY <1>2, ServeHTTPKeepsIInv, CollectKeepsIInv, EnterKeepsIInv DEF Serve
<1>3. CASE Run
  BY <1>3, CallHandlerKeepsIInv, LoopEndsKeepsIInv, CallNextKeepsIInv, ReturnKeepsIInv,
     PanicRecoveredKeepsIInv, PanicAbortsKeepsIInv DEF Run
<1>4. CASE UNCHANGED vars
  <2>1. UNCHANGED <<groups, routes, pc, route, path, next, handlers, index, stack, started,
                    recovered, crashed>>
    BY <1>4 DEF vars, setup, request
  <2>2. TypeOK' /\ GroupInv'
    BY <2>1 DEF IInv, TypeOK, GroupInv
  <2>3. ChainInv'
    BY <2>1 DEF IInv, ChainInv, Chain, Calm
  <2>4. CountInv' /\ StackInv'
    BY <2>1 DEF IInv, CountInv, StackInv, Calm, Top
  <2>5. CoverInv' /\ RecoveryHolds'
    BY <2>1 DEF IInv, CoverInv, RecoveryHolds, IsRecovery
  <2> QED
    BY <2>2, <2>3, <2>4, <2>5 DEF IInv
<1> QED
  BY <1>1, <1>2, <1>3, <1>4 DEF Next

\* The inductive invariant of the web engine: groups and routes fit together,
\* the chain is sorted, and index, stack and history agree.
THEOREM Invariance == Spec => []IInv
BY InitIInv, NextKeepsIInv, PTL DEF Spec

\* Context.Next starts every handler of the chain once and in order, whatever
\* the handlers do, for chains of any length.
THEOREM EachOnce == Spec => []OnceInOrder
<1>1. IInv => OnceInOrder
  BY DEF IInv, CountInv, OnceInOrder
<1> QED
  BY Invariance, <1>1, PTL

\* A panic reaches net/http only past Recovery handlers that have recovered.
THEOREM Recovers == Spec => []RecoveryHolds
<1>1. IInv => RecoveryHolds
  BY DEF IInv
<1> QED
  BY Invariance, <1>1, PTL

\* Before the handler of a route starts, the middlewares of its groups have been
\* started, outer groups first, except groups whose prefix has a parameter.
THEOREM BehindItsGroups == Spec => []Guarded
<1>1. IInv => Guarded
  <2> SUFFICES ASSUME IInv, Len(handlers) > 0, Len(started) = Len(handlers)
               PROVE  /\ \A g \in groups[route.group].line : Plain(g) =>
                           \A i \in 1 .. Len(groups[g].middlewares) :
                             \E n \in 1 .. Len(handlers) - 1 : handlers[started[n]] = <<g, i>>
                      /\ \A m, n \in 1 .. Len(handlers) - 1 :
                           handlers[n][1] # handlers[m][1]
                             /\ handlers[n][1] \in groups[handlers[m][1]].line => n < m
    BY DEF Guarded
  <2>0. TypeOK /\ GroupInv /\ ChainInv /\ CountInv
    BY DEF IInv
  <2>1. ~Calm /\ Len(handlers) \in Nat
    <3>1. Len(handlers) \in Nat /\ Len(started) # 0
      BY <2>0 DEF TypeOK
    <3> QED
      BY <2>0, <3>1 DEF CountInv
  <2>2. Chain = 1 .. Len(handlers) - 1 /\ pc # "setup" /\ next = Len(groups) + 1
    BY <2>0, <2>1 DEF Chain, Calm, ChainInv
  <2>3. \A n \in Chain : started[n] = n
    BY <2>0, <2>1, <2>2 DEF CountInv
  <2>4. route \in routes /\ Matches(route.pattern, path)
    BY <2>0, <2>2 DEF GroupInv
  <2>5. route.group \in 1 .. Len(groups) /\ HasPrefix(route.pattern, groups[route.group].prefix)
        /\ Len(groups) \in Nat
    BY <2>0, <2>4 DEF GroupInv, TypeOK
  <2>6. ASSUME NEW g \in groups[route.group].line, Plain(g),
               NEW i \in 1 .. Len(groups[g].middlewares)
        PROVE  \E n \in 1 .. Len(handlers) - 1 : handlers[started[n]] = <<g, i>>
    <3>1. g \in 1 .. route.group /\ HasPrefix(groups[route.group].prefix, groups[g].prefix)
      BY <2>0, <2>5, <2>6 DEF GroupInv
    <3>2. g \in 1 .. Len(groups)
      BY <2>5, <3>1
    <3>3. route.pattern \in Seq(Pieces \cup {Param})
      BY <2>0, <2>4 DEF TypeOK, RouteType
    <3>4. groups[g].prefix \in Seq(Pieces \cup {Param})
          /\ groups[route.group].prefix \in Seq(Pieces \cup {Param})
      BY <2>0, <2>5, <3>2, Prefixes
    <3>5. HasPrefix(route.pattern, groups[g].prefix)
      BY <2>5, <3>1, <3>3, <3>4, PrefixTransitive
    <3>6. HasPrefix(path, groups[g].prefix)
      <4>1. path \in Seq(Pieces) /\ Len(path) \in Nat /\ Len(groups[g].prefix) \in Nat
        BY <2>0, <3>4 DEF TypeOK
      <4>2. Len(groups[g].prefix) <= Len(path) /\ Len(path) = Len(route.pattern)
        BY <2>4, <3>5 DEF HasPrefix, Matches
      <4>3. ASSUME NEW j \in 1 .. Len(groups[g].prefix)
            PROVE  groups[g].prefix[j] = path[j]
        <5>1. groups[g].prefix[j] = route.pattern[j] /\ groups[g].prefix[j] # Param
          BY <2>6, <3>5 DEF HasPrefix, Plain
        <5>2. j \in 1 .. Len(path)
          BY <4>1, <4>2
        <5>3. route.pattern[j] \in {path[j], Param}
          BY <2>4, <5>2 DEF Matches
        <5> QED
          BY <5>1, <5>3
      <4> QED
        BY <4>2, <4>3 DEF HasPrefix
    <3>7. g < next
      BY <2>2, <2>5, <3>2
    <3>8. PICK n \in Chain : handlers[n] = <<g, i>>
      BY <2>0, <2>6, <3>2, <3>6, <3>7 DEF ChainInv
    <3> QED
      BY <2>2, <2>3, <3>8
  <2>7. ASSUME NEW m \in 1 .. Len(handlers) - 1, NEW n \in 1 .. Len(handlers) - 1,
               handlers[n][1] # handlers[m][1], handlers[n][1] \in groups[handlers[m][1]].line
        PROVE  n < m
    <3>1. handlers[m][1] \in 1 .. Len(groups) /\ handlers[n][1] \in 1 .. Len(groups)
      <4>1. next - 1 = Len(groups)
        BY <2>2, <2>5
      <4> QED
        BY <2>0, <2>2, <4>1 DEF ChainInv
    <3>2. handlers[n][1] \in 1 .. handlers[m][1]
      BY <2>0, <2>7, <3>1 DEF GroupInv
    <3>3. m < n => handlers[m][1] <= handlers[n][1]
      BY <2>0, <2>2 DEF ChainInv
    <3>4. handlers[n][1] < handlers[m][1]
      BY <2>5, <2>7, <3>1, <3>2
    <3>5. ~(m < n) /\ m # n
      BY <2>5, <2>7, <3>1, <3>3, <3>4
    <3> QED
      BY <2>1, <3>5
  <2> QED
    BY <2>6, <2>7
<1> QED
  BY Invariance, <1>1, PTL
=============================================================================
