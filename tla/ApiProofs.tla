----------------------------- MODULE ApiProofs -----------------------------
(***************************************************************************)
(* Proofs about the API and the reader of the EVE file.  Nothing changes   *)
(* without an operator's token: the authorizing interceptor stands in      *)
(* every way in, and the table it looks into is one that authz.Load        *)
(* accepted.  A listing is the newest events of the file: ids and places   *)
(* grow from line to line, the scan takes every line of its part of the    *)
(* file in that order, and the open file only grows until it is read.      *)
(***************************************************************************)
EXTENDS ApiServer, WellFoundedInduction, TLAPS

(* The table of a running daemon is that of a file that loaded, and a      *)
(* daemon that was given a users file has one.                             *)
AuthOK ==
    /\ usersFile \in UserFiles \cup {Off}
    /\ auth # Off => \E f \in UserFiles : Loads(f) /\ auth = Table(f)
    /\ up /\ usersFile # Off => auth # Off

(* authz.Load gives every user of its table a role that exists.            *)
LEMMA TableRoles ==
    ASSUME NEW f, Loads(f), NEW t \in DOMAIN Table(f)
    PROVE  Table(f)[t].role \in Roles
<1> DEFINE i == CHOOSE j \in DOMAIN f.users : f.users[j].token = t
<1>1. t \in {f.users[j].token : j \in DOMAIN f.users}
  BY DEF Table
<1>2. i \in DOMAIN f.users
  BY <1>1
<1>3. Table(f)[t].role = f.users[i].role
  BY <1>1 DEF Table
<1> QED
  BY <1>2, <1>3 DEF Loads

(* Only an operator or an admin ranks high enough for a method that        *)
(* changes something.                                                      *)
LEMMA OperatorNeeded ==
    ASSUME AuthOK, auth # Off, NEW token, NEW rpc,
           Admission(token, rpc) = "ok", MinRole(rpc) = "operator"
    PROVE  token \in DOMAIN auth /\ auth[token].role \in {"operator", "admin"}
<1>1. token \in DOMAIN auth /\ ~ Rank[auth[token].role] < Rank["operator"]
  BY DEF Admission
<1>2. auth[token].role \in Roles
  BY <1>1, TableRoles DEF AuthOK
<1>3. Rank["viewer"] = 1 /\ Rank["operator"] = 2
  BY DEF Rank
<1> QED
  BY <1>1, <1>2, <1>3 DEF Roles

(* A handler writes its caller's name and changes what MinRole guards.     *)
LEMMA CallChanges ==
    ASSUME NEW rpc, NEW actor, NEW body, Call(rpc, actor, body)
    PROVE  /\ changes' # changes => MinRole(rpc) = "operator"
           /\ entry' # entry => entry' = actor
BY DEF Call, Handle, Mutating, MinRole

(* One request, by whatever way in.                                        *)
LEMMA GrpcAuthorized ==
    ASSUME AuthOK, NEW rpc, NEW token, NEW body, Grpc(rpc, token, body)
    PROVE  /\ UNCHANGED <<usersFile, auth, up>> /\ up /\ caller' = token
           /\ changes' # changes /\ auth # Off =>
                 token \in DOMAIN auth /\ auth[token].role \in {"operator", "admin"}
           /\ entry' # entry =>
                 entry' = IF auth = Off THEN "local" ELSE auth[token].name
<1>1. UNCHANGED <<usersFile, auth, up>> /\ up /\ caller' = token
  BY DEF Grpc
<1>2. CASE Admission(token, rpc) = "ok"
  <2>1. Call(rpc, Actor(token), body)
    BY <1>2 DEF Grpc
  <2>2. /\ changes' # changes => MinRole(rpc) = "operator"
        /\ entry' # entry => entry' = Actor(token)
    BY <2>1, CallChanges
  <2> QED
    BY <1>1, <1>2, <2>2, OperatorNeeded DEF Actor
<1>3. CASE Admission(token, rpc) # "ok"
  BY <1>1, <1>3 DEF Grpc, Rejected
<1> QED
  BY <1>2, <1>3

(* A request through the gateway or from the command line is a request to  *)
(* the gRPC endpoint, or changes nothing.                                  *)
LEMMA RequestAuthorized ==
    ASSUME AuthOK, Requests
    PROVE  /\ UNCHANGED <<usersFile, auth, up>> /\ up
           /\ changes' # changes /\ auth # Off =>
                 caller' \in DOMAIN auth /\ auth[caller'].role \in {"operator", "admin"}
           /\ entry' # entry =>
                 entry' = IF auth = Off THEN "local" ELSE auth[caller'].name
<1> DEFINE Bad == UNCHANGED <<usersFile, auth, up, changes, entry>> /\ up
<1>1. \/ Bad
      \/ \E rpc, token, body : Grpc(rpc, token, body)
  BY DEF Requests, Gateway, Cli, Rejected
<1>2. CASE Bad
  BY <1>2
<1>3. CASE \E rpc, token, body : Grpc(rpc, token, body)
  <2>1. PICK rpc, token, body : Grpc(rpc, token, body)
    BY <1>3
  <2> QED
    BY <2>1, GrpcAuthorized
<1> QED
  BY <1>1, <1>2, <1>3

(* Every other step leaves changes and entry alone.                        *)
LEMMA AuthNext == AuthOK /\ [Next]_vars => AuthOK'
<1> SUFFICES ASSUME AuthOK, [Next]_vars PROVE AuthOK'
  OBVIOUS
<1>1. CASE Start
  BY <1>1, OffAssumption DEF Start, AuthOK
<1>2. CASE Stop
  BY <1>2 DEF Stop, AuthOK
<1>3. CASE EditUsers
  BY <1>3 DEF EditUsers, AuthOK
<1>4. CASE Requests
  BY <1>4, RequestAuthorized DEF AuthOK
<1>5. CASE UNCHANGED apiVars \/ UNCHANGED vars
  BY <1>5 DEF apiVars, vars, AuthOK
<1> QED
  BY <1>1, <1>2, <1>3, <1>4, <1>5 DEF Next

(* Nothing changes but for a caller who was an operator or an admin in the *)
(* users file as it was when the daemon last started, and an audit entry   *)
(* has the name that file gives the caller's token: for every content of   *)
(* the file, every token, and every way in (UnaryInterceptor in authz.go,  *)
(* the gateway and ngfwctl, which are both clients of the gRPC endpoint).  *)
THEOREM AuthorizedCorrect == Spec => ChangesAuthorized
<1> DEFINE Step ==
       /\ changes' # changes /\ usersFile # Off =>
             /\ auth # Off
             /\ caller' \in DOMAIN auth
             /\ auth[caller'].role \in {"operator", "admin"}
       /\ entry' # entry =>
             entry' = IF auth = Off THEN "local" ELSE auth[caller'].name
<1>1. Init => AuthOK
  BY DEF Init, AuthOK
<1>2. AuthOK /\ [Next]_vars => AuthOK'
  BY AuthNext
<1>3. AuthOK /\ [Next]_vars => [Step]_vars
  <2> SUFFICES ASSUME AuthOK, Next PROVE Step
    OBVIOUS
  <2>1. CASE Requests
    BY <2>1, RequestAuthorized DEF AuthOK
  <2>2. CASE UNCHANGED <<changes, entry>>
    BY <2>2
  <2> QED
    BY <2>1, <2>2 DEF Next, Start, Stop, EditUsers, apiVars
<1> QED
  BY <1>1, <1>2, <1>3, PTL DEF Spec, ChangesAuthorized
-----------------------------------------------------------------------------
(* The reader of the EVE file.                                             *)

(* The lines of a file have growing ids, and none begins before the one    *)
(* above it ends.                                                          *)
Ordered(f) ==
    \A i, j \in DOMAIN f :
        i < j => f[i].id < f[j].id /\ f[i].at + f[i].size <= f[j].at

(* f is what became of s when lines were added and the last completed.     *)
Extends(s, f) ==
    /\ Len(s) <= Len(f)
    /\ \A i \in DOMAIN s :
          /\ f[i].id = s[i].id /\ f[i].kind = s[i].kind
          /\ f[i].at = s[i].at /\ f[i].size = s[i].size
          /\ s[i].whole => f[i].whole

FilesOrdered ==
    /\ eve # NoFile => Ordered(eve) /\ \A i \in DOMAIN eve : eve[i].id <= events
    /\ rotated # NoFile => Ordered(rotated)

NothingRead ==
    reader = "idle" =>
        /\ rotated = NoFile /\ ~ truncated
        /\ reply = <<>> /\ atStat = <<>> /\ scanned = <<>>

(* Where the scan will begin, and that nothing of the file was lost since. *)
Sought ==
    /\ reader \in {"stat", "seek"} => Opened # NoFile
    /\ reader = "seek" =>
          /\ offset = IF Size(atStat) > MaxTail THEN Size(atStat) - MaxTail ELSE 0
          /\ ~ truncated => Extends(atStat, Opened)

EveInv == EveTypeOK /\ FilesOrdered /\ NothingRead /\ Sought /\ NewestListed

(* A set of numbers has a least one. *)
LEMMA LeastNumber ==
    ASSUME NEW S \in SUBSET Nat, S # {}
    PROVE  \E i \in S : \A j \in S : i <= j
<1>1. PICK i \in S : \A j \in S : ~ (<<j, i>> \in OpToRel(<, Nat))
  BY NatLessThanWellFounded, WFMin
<1>2. ASSUME NEW j \in S
      PROVE  i <= j
  <2>1. i \in Nat /\ j \in Nat
    OBVIOUS
  <2>2. ~ (j < i)
    BY <1>1, <2>1 DEF OpToRel
  <2> QED
    BY <2>1, <2>2
<1> QED
  BY <1>2

LEMMA LineIs ==
    ASSUME NEW f, IsFile(f), NEW i \in DOMAIN f
    PROVE  /\ i \in 1..Len(f) /\ f[i] \in Line
           /\ f[i].id \in 1..MaxEvents /\ f[i].kind \in Kinds
           /\ f[i].at \in Nat /\ f[i].size \in Nat /\ f[i].size > 0
           /\ f[i].size \in Sizes /\ f[i].whole \in BOOLEAN
<1>1. f[i] \in Line /\ i \in 1..Len(f)
  BY DEF IsFile
<1>2. f[i].size \in Sizes
  BY <1>1 DEF Line
<1>3. f[i].size \in Nat \ {0}
  BY <1>2, EveAssumption
<1> QED
  BY <1>1, <1>2, <1>3 DEF Line

LEMMA SizeIs ==
    ASSUME NEW f, IsFile(f)
    PROVE  /\ Size(f) \in Nat
           /\ f # <<>> => Len(f) \in DOMAIN f /\ Size(f) = f[Len(f)].at + f[Len(f)].size
<1>1. CASE f = <<>>
  BY <1>1 DEF Size
<1>2. CASE f # <<>>
  <2>1. Len(f) \in DOMAIN f
    BY <1>2 DEF IsFile
  <2>2. f[Len(f)].at \in Nat /\ f[Len(f)].size \in Nat
    BY <2>1, LineIs
  <2> QED
    BY <1>2, <2>1, <2>2 DEF Size
<1> QED
  BY <1>1, <1>2

-----------------------------------------------------------------------------
(* What a scan finds.                                                      *)

(* The lines that the scan takes: those of the tail that are complete and  *)
(* of the type asked for.                                                  *)
Taken(f, off) == {i \in InTail(f, off) : f[i].whole /\ f[i].kind = want}

(* The ids of those of the first n lines: m of them, the k-th of which is  *)
(* that of line g[k].                                                      *)
Found(f, off, n, s, m, g) ==
    /\ m \in Nat /\ g \in [1..m -> 1..n]
    /\ s \in Seq(1..MaxEvents) /\ Len(s) = m
    /\ \A k \in 1..m : g[k] \in Taken(f, off) /\ s[k] = f[g[k]].id
    /\ \A k, l \in 1..m : k < l => g[k] < g[l]
    /\ \A i \in 1..n : i \in Taken(f, off) => \E k \in 1..m : g[k] = i

(* The loop over the lines. *)
ScanBody(f, off, h, n) ==
    IF n = 0 THEN <<>>
    ELSE IF n \in InTail(f, off) /\ f[n].whole /\ f[n].kind = want
         THEN Append(h[n - 1], f[n].id)
         ELSE h[n - 1]

LEMMA ScanExists ==
    ASSUME NEW f, NEW off
    PROVE  \A m \in Nat : \E h : h = [n \in 0..m |-> ScanBody(f, off, h, n)]
<1> DEFINE good(m) == \E h : h = [n \in 0..m |-> ScanBody(f, off, h, n)]
           bad == {m \in Nat : ~ good(m)}
<1>1. SUFFICES ASSUME bad # {} PROVE FALSE
  BY <1>1
<1>2. PICK m \in bad : \A j \in bad : m <= j
  BY <1>1, LeastNumber
<1>3. m \in Nat /\ ~ good(m)
  OBVIOUS
<1>4. CASE m = 0
  <2> DEFINE h == [n \in 0..0 |-> <<>>]
  <2>1. h = [n \in 0..0 |-> ScanBody(f, off, h, n)]
    BY DEF ScanBody
  <2> QED
    BY <1>3, <1>4, <2>1
<1>5. CASE m # 0
  <2>1. m - 1 \in Nat /\ m - 1 < m
    BY <1>3, <1>5
  <2>2. good(m - 1)
    BY <1>2, <2>1
  <2>3. PICK h : h = [n \in 0..(m - 1) |-> ScanBody(f, off, h, n)]
    BY <2>2
  <2> DEFINE d == [n \in 0..m |-> IF n = m THEN ScanBody(f, off, h, m) ELSE h[n]]
  <2>4. ASSUME NEW n \in 0..m
        PROVE  d[n] = ScanBody(f, off, d, n)
    <3>1. CASE n = 0
      <4>1. n \in 0..(m - 1) /\ d[n] = h[n]
        BY <1>3, <1>5, <3>1
      <4>2. h[n] = ScanBody(f, off, h, n)
        BY <2>3, <4>1
      <4> QED
        BY <3>1, <4>1, <4>2 DEF ScanBody
    <3>2. CASE n # 0
      <4>1. n - 1 \in 0..(m - 1) /\ n - 1 \in 0..m /\ n - 1 # m
        BY <1>3, <3>2
      <4>2. d[n - 1] = h[n - 1]
        BY <4>1
      <4>3. d[n] = ScanBody(f, off, h, n)
        <5>1. CASE n = m
          BY <5>1
        <5>2. CASE n # m
          <6>1. n \in 0..(m - 1) /\ d[n] = h[n]
            BY <1>3, <5>2
          <6> QED
            BY <2>3, <6>1
        <5> QED
          BY <5>1, <5>2
      <4>4. ScanBody(f, off, h, n) = ScanBody(f, off, d, n)
        BY <4>2 DEF ScanBody
      <4> QED
        BY <4>3, <4>4
    <3> QED
      BY <3>1, <3>2
  <2> HIDE DEF d
  <2>5. d = [n \in 0..m |-> ScanBody(f, off, d, n)]
    <3>1. DOMAIN d = 0..m /\ d = [n \in 0..m |-> d[n]]
      BY DEF d
    <3> QED
      BY <2>4, <3>1
  <2> QED
    BY <1>3, <2>5
<1> QED
  BY <1>4, <1>5

(* One more line that is taken. *)
LEMMA FoundOneMore ==
    ASSUME NEW f, IsFile(f), NEW off, NEW n \in 1..Len(f), n \in Taken(f, off),
           NEW s, NEW m, NEW g, Found(f, off, n - 1, s, m, g)
    PROVE  \E h : Found(f, off, n, Append(s, f[n].id), m + 1, h)
<1> DEFINE h == [k \in 1..(m + 1) |-> IF k = m + 1 THEN n ELSE g[k]]
           t == Append(s, f[n].id)
<1>1. /\ m \in Nat /\ g \in [1..m -> 1..(n - 1)] /\ n \in Nat
      /\ s \in Seq(1..MaxEvents) /\ Len(s) = m
  BY DEF Found, IsFile
<1>2. h \in [1..(m + 1) -> 1..n]
  BY <1>1
<1>3. /\ \A k \in 1..m : k \in 1..(m + 1) /\ h[k] = g[k] /\ h[k] < n
      /\ m + 1 \in 1..(m + 1) /\ h[m + 1] = n
  BY <1>1
<1>4. /\ t \in Seq(1..MaxEvents) /\ Len(t) = m + 1
      /\ \A k \in 1..m : t[k] = s[k]
      /\ t[m + 1] = f[n].id
  <2>1. f[n].id \in 1..MaxEvents
    <3>1. n \in DOMAIN f
      BY DEF IsFile
    <3> QED
      BY <3>1, LineIs
  <2> QED
    BY <1>1, <2>1
<1> HIDE DEF h, t
<1>5. ASSUME NEW k \in 1..(m + 1)
      PROVE  h[k] \in Taken(f, off) /\ t[k] = f[h[k]].id
  <2>1. CASE k = m + 1
    BY <1>3, <1>4, <2>1
  <2>2. CASE k # m + 1
    <3>1. k \in 1..m
      BY <1>1, <2>2
    <3> QED
      BY <1>3, <1>4, <3>1 DEF Found
  <2> QED
    BY <2>1, <2>2
<1>6. ASSUME NEW k \in 1..(m + 1), NEW l \in 1..(m + 1), k < l
      PROVE  h[k] < h[l]
  <2>1. k \in 1..m
    BY <1>1, <1>6
  <2>2. CASE l = m + 1
    BY <1>3, <2>1, <2>2
  <2>3. CASE l # m + 1
    <3>1. l \in 1..m
      BY <1>1, <2>3
    <3>2. g[k] < g[l]
      BY <1>6, <2>1, <3>1 DEF Found
    <3> QED
      BY <1>3, <2>1, <3>1, <3>2
  <2> QED
    BY <2>2, <2>3
<1>7. ASSUME NEW i \in 1..n, i \in Taken(f, off)
      PROVE  \E k \in 1..(m + 1) : h[k] = i
  <2>1. CASE i = n
    BY <1>3, <2>1
  <2>2. CASE i # n
    <3>1. i \in 1..(n - 1)
      BY <1>1, <2>2
    <3>2. PICK k \in 1..m : g[k] = i
      BY <1>7, <3>1 DEF Found
    <3> QED
      BY <1>3, <3>2
  <2> QED
    BY <2>1, <2>2
<1>8. m + 1 \in Nat
  BY <1>1
<1>9. Found(f, off, n, t, m + 1, h)
  BY <1>2, <1>4, <1>5, <1>6, <1>7, <1>8 DEF Found
<1> QED
  BY <1>9 DEF t

(* The scan takes every line it should, in the order of the file. *)
LEMMA HitsAre ==
    ASSUME NEW f, IsFile(f), NEW off
    PROVE  \E m, g : Found(f, off, Len(f), Hits(f, off), m, g)
<1> DEFINE N == Len(f)
<1>1. N \in Nat
  BY DEF IsFile
<1>2. PICK h : h = [n \in 0..N |-> ScanBody(f, off, h, n)] /\ Hits(f, off) = h[N]
  <2> DEFINE e == CHOOSE h : h = [n \in 0..N |-> ScanBody(f, off, h, n)]
  <2>1. e = [n \in 0..N |-> ScanBody(f, off, e, n)]
    BY <1>1, ScanExists
  <2>2. Hits(f, off) = e[N]
    BY DEF Hits, ScanBody
  <2> QED
    BY <2>1, <2>2
<1> DEFINE good(n) == \E m, g : Found(f, off, n, h[n], m, g)
           bad == {n \in 0..N : ~ good(n)}
<1>3. SUFFICES ASSUME bad # {} PROVE FALSE
  BY <1>1, <1>2, <1>3
<1>4. PICK n \in bad : \A j \in bad : n <= j
  <2>1. bad \in SUBSET Nat
    BY <1>1
  <2> QED
    BY <1>3, <2>1, LeastNumber
<1>5. n \in 0..N /\ ~ good(n) /\ h[n] = ScanBody(f, off, h, n)
  BY <1>2
<1>6. CASE n = 0
  <2>1. h[n] = <<>>
    BY <1>5, <1>6 DEF ScanBody
  <2>2. Found(f, off, n, h[n], 0, <<>>)
    BY <1>6, <2>1 DEF Found
  <2> QED
    BY <1>5, <2>2
<1>7. CASE n # 0
  <2>1. n - 1 \in 0..N /\ n - 1 < n /\ n \in 1..N /\ n - 1 \in Nat
    BY <1>1, <1>5, <1>7
  <2>2. PICK m, g : Found(f, off, n - 1, h[n - 1], m, g)
    <3>1. n - 1 \notin bad
      BY <1>4, <2>1
    <3> QED
      BY <2>1, <3>1
  <2>3. CASE n \in Taken(f, off)
    <3>1. h[n] = Append(h[n - 1], f[n].id)
      BY <1>5, <1>7, <2>3 DEF ScanBody, Taken
    <3>2. \E i : Found(f, off, n, h[n], m + 1, i)
      BY <2>1, <2>2, <2>3, <3>1, FoundOneMore
    <3> QED
      BY <1>5, <3>2
  <2>4. CASE n \notin Taken(f, off)
    <3>1. h[n] = h[n - 1]
      BY <1>5, <1>7, <2>4 DEF ScanBody, Taken
    <3>2. g \in [1..m -> 1..n]
      <4>1. g \in [1..m -> 1..(n - 1)]
        BY <2>2 DEF Found
      <4>2. 1..(n - 1) \subseteq 1..n
        BY <2>1
      <4> QED
        BY ONLY <4>1, <4>2
    <3>3. ASSUME NEW i \in 1..n, i \in Taken(f, off)
          PROVE  \E k \in 1..m : g[k] = i
      <4>1. i \in 1..(n - 1)
        BY <2>1, <2>4, <3>3
      <4> QED
        BY <2>2, <3>3, <4>1 DEF Found
    <3>4. Found(f, off, n, h[n], m, g)
      BY <2>2, <3>1, <3>2, <3>3 DEF Found
    <3> QED
      BY <1>5, <3>4
  <2> QED
    BY <2>3, <2>4
<1> QED
  BY <1>6, <1>7

LEMMA CappedIs ==
    ASSUME NEW S, NEW s \in Seq(S), NEW n \in Nat
    PROVE  /\ Capped(s, n) \in Seq(S)
           /\ Len(Capped(s, n)) = IF n <= Len(s) THEN n ELSE Len(s)
           /\ \A k \in 1..Len(Capped(s, n)) : k \in 1..Len(s) /\ Capped(s, n)[k] = s[k]
<1> DEFINE c == IF n <= Len(s) THEN n ELSE Len(s)
<1>1. Len(s) \in Nat /\ c \in Nat /\ c <= Len(s)
  OBVIOUS
<1>2. Min({n, Len(s)}) = c
  <2>1. c \in {n, Len(s)} /\ \A y \in {n, Len(s)} : c <= y
    BY <1>1
  <2>2. \A x \in {n, Len(s)} : (\A y \in {n, Len(s)} : x <= y) => x = c
    BY <1>1
  <2> QED
    BY <2>1, <2>2 DEF Min
<1>3. Capped(s, n) = SubSeq(s, 1, c)
  BY <1>2 DEF Capped
<1>4. /\ SubSeq(s, 1, c) \in Seq(S) /\ Len(SubSeq(s, 1, c)) = c
      /\ \A k \in 1..c : SubSeq(s, 1, c)[k] = s[k]
  BY <1>1
<1> QED
  BY <1>1, <1>3, <1>4

LEMMA ReverseIs ==
    ASSUME NEW S, NEW s \in Seq(S)
    PROVE  /\ Reverse(s) \in Seq(S) /\ Len(Reverse(s)) = Len(s)
           /\ \A k \in 1..Len(s) : /\ Len(s) - k + 1 \in 1..Len(s)
                                   /\ Reverse(s)[k] = s[Len(s) - k + 1]
<1>1. Len(s) \in Nat /\ \A k \in 1..Len(s) : Len(s) - k + 1 \in 1..Len(s)
  OBVIOUS
<1>2. Reverse(s) = [k \in 1..Len(s) |-> s[(Len(s) - k) + 1]]
  BY DEF Reverse
<1>3. \A k \in 1..Len(s) : s[Len(s) - k + 1] \in S
  BY <1>1
<1>4. [k \in 1..Len(s) |-> s[(Len(s) - k) + 1]] \in Seq(S)
  BY <1>1, <1>3
<1> QED
  BY <1>1, <1>2, <1>4

LEMMA EffectiveIs ==
    ASSUME limit \in Limits
    PROVE  Effective(limit) \in Nat /\ Effective(limit) = IF limit = 0 THEN Default ELSE limit
BY EveAssumption DEF Effective

(* A scan that ends returns the last lines that were taken, last first. *)
LEMMA ScanIs ==
    ASSUME NEW f, IsFile(f), NEW off, limit \in Limits, ~ TooLong(f, off)
    PROVE  \E m, g, c :
              /\ Found(f, off, Len(f), Hits(f, off), m, g)
              /\ c = IF Effective(limit) <= m THEN Effective(limit) ELSE m
              /\ Scan(f, off) \in Seq(1..MaxEvents) /\ Len(Scan(f, off)) = c
              /\ \A k \in 1..c : /\ m - k + 1 \in 1..m
                                 /\ Scan(f, off)[k] = f[g[m - k + 1]].id
<1> DEFINE s == Hits(f, off)
           r == Reverse(s)
           n == Effective(limit)
<1>1. PICK m, g : Found(f, off, Len(f), s, m, g)
  BY HitsAre
<1> DEFINE c == IF n <= m THEN n ELSE m
<1>2. /\ m \in Nat /\ s \in Seq(1..MaxEvents) /\ Len(s) = m
      /\ \A k \in 1..m : s[k] = f[g[k]].id
  BY <1>1 DEF Found
<1>3. n \in Nat
  BY EffectiveIs
<1>4. Scan(f, off) = Capped(r, n)
  BY DEF Scan
<1>5. /\ r \in Seq(1..MaxEvents) /\ Len(r) = m
      /\ \A k \in 1..m : m - k + 1 \in 1..m /\ r[k] = s[m - k + 1]
  <2> HIDE DEF s
  <2> QED
    BY <1>2, ReverseIs
<1>6. /\ Capped(r, n) \in Seq(1..MaxEvents) /\ Len(Capped(r, n)) = c
      /\ \A k \in 1..c : k \in 1..m /\ Capped(r, n)[k] = r[k]
  <2> HIDE DEF r, n
  <2> QED
    BY <1>3, <1>5, CappedIs
<1>7. \A k \in 1..c : m - k + 1 \in 1..m /\ Capped(r, n)[k] = f[g[m - k + 1]].id
  <2> HIDE DEF c, r, n, s
  <2> QED
    BY <1>2, <1>5, <1>6
<1> QED
  BY <1>1, <1>4, <1>6, <1>7

-----------------------------------------------------------------------------
(* The answer is what NewestListed says.                                   *)

(* Order of lines, ids and places is the same. *)
LEMMA OrderIs ==
    ASSUME NEW f, IsFile(f), Ordered(f), NEW i \in DOMAIN f, NEW j \in DOMAIN f
    PROVE  /\ f[i].id < f[j].id <=> i < j
           /\ f[i].id = f[j].id => i = j
           /\ i < j => f[i].at < f[j].at
<1>1. /\ i \in Nat /\ j \in Nat /\ f[i].id \in Nat /\ f[j].id \in Nat
      /\ f[i].at \in Nat /\ f[j].at \in Nat /\ f[i].size \in Nat /\ f[j].size \in Nat
      /\ f[i].size > 0 /\ f[j].size > 0
  BY LineIs
<1>2. i < j => f[i].id < f[j].id /\ f[i].at + f[i].size <= f[j].at
  BY DEF Ordered
<1>3. j < i => f[j].id < f[i].id
  BY DEF Ordered
<1> QED
  BY <1>1, <1>2, <1>3

(* A line that begins less than MaxTail - MaxLine before the end of the    *)
(* file as it was is in the part that is scanned.                          *)
LEMMA RecentScanned ==
    ASSUME NEW s, IsFile(s), NEW f, IsFile(f), Extends(s, f),
           offset = IF Size(s) > MaxTail THEN Size(s) - MaxTail ELSE 0,
           NEW i \in DOMAIN s, s[i].at + MaxTail - MaxLine >= Size(s)
    PROVE  i \in InTail(f, offset)
<1>1. i \in DOMAIN f /\ f[i].at = s[i].at
  BY DEF Extends, IsFile
<1>2. s[i].at \in Nat /\ Size(s) \in Nat
  BY LineIs, SizeIs
<1>3. MaxTail \in Nat /\ MaxLine \in Nat /\ MaxLine > 0
  BY EveAssumption
<1>4. offset = 0 \/ s[i].at > offset
  BY <1>2, <1>3
<1> QED
  BY <1>1, <1>4 DEF InTail

(* A line in the part that is scanned begins less than MaxTail before the  *)
(* end of the file as it was.                                              *)
LEMMA ScannedRecent ==
    ASSUME NEW s, IsFile(s), NEW f, IsFile(f),
           offset = IF Size(s) > MaxTail THEN Size(s) - MaxTail ELSE 0,
           NEW i \in InTail(f, offset)
    PROVE  i \in DOMAIN f /\ f[i].at + MaxTail >= Size(s)
<1>1. i \in DOMAIN f /\ (offset = 0 \/ f[i].at > offset)
  BY DEF InTail
<1>2. f[i].at \in Nat /\ Size(s) \in Nat /\ MaxTail \in Nat
  BY <1>1, LineIs, SizeIs, EveAssumption
<1> QED
  BY <1>1, <1>2

(* The end of a read, whatever was written since its file was opened. *)
LEMMA ReadLists ==
    ASSUME EveInv, Read
    PROVE  /\ NewestListed'
           /\ reply' = Failed \/ (reply' \in Seq(1..MaxEvents)
                                  /\ Len(reply') <= IF limit = 0 THEN Default ELSE limit)
<1> DEFINE f == Opened
           off == offset
           r == Scan(f, off)
<1>1. IsFile(f) /\ Ordered(f)
  BY DEF EveInv, EveTypeOK, FilesOrdered, Sought, Read, Opened
<1>2. /\ reply' = r /\ scanned' = f
      /\ UNCHANGED <<want, limit, atStat, truncated>>
  BY DEF Read
<1>3. /\ limit \in Limits /\ IsFile(atStat)
      /\ offset = IF Size(atStat) > MaxTail THEN Size(atStat) - MaxTail ELSE 0
      /\ ~ truncated => Extends(atStat, f)
  BY DEF EveInv, EveTypeOK, Sought, Read
<1> HIDE DEF f
<1>4. CASE TooLong(f, off)
  <2>1. reply' = Failed
    BY <1>2, <1>4 DEF Scan
  <2>2. PICK i \in InTail(f, off) : f[i].size > MaxLine
    BY <1>4 DEF TooLong
  <2>3. i \in DOMAIN f /\ f[i].at + MaxTail >= Size(atStat)
    BY <1>1, <1>3, <2>2, ScannedRecent
  <2>4. Size(atStat)' = Size(atStat)
    BY <1>2 DEF Size
  <2>5. \E j \in DOMAIN scanned' :
           scanned'[j].size > MaxLine /\ scanned'[j].at + MaxTail >= Size(atStat)'
    BY <1>2, <2>2, <2>3, <2>4
  <2> QED
    BY <2>1, <2>5 DEF NewestListed
<1>5. CASE ~ TooLong(f, off)
  <2>1. PICK m, g, c :
           /\ Found(f, off, Len(f), Hits(f, off), m, g)
           /\ c = IF Effective(limit) <= m THEN Effective(limit) ELSE m
           /\ r \in Seq(1..MaxEvents) /\ Len(r) = c
           /\ \A k \in 1..c : m - k + 1 \in 1..m /\ r[k] = f[g[m - k + 1]].id
    BY <1>1, <1>3, <1>5, ScanIs
  <2> HIDE DEF r
  <2>2. Effective(limit) \in Nat /\ Effective(limit) = IF limit = 0 THEN Default ELSE limit
    BY <1>3, EffectiveIs
  <2>3. /\ m \in Nat /\ g \in [1..m -> 1..Len(f)]
        /\ \A k \in 1..m : g[k] \in Taken(f, off)
        /\ \A k, l \in 1..m : k < l => g[k] < g[l]
        /\ \A i \in 1..Len(f) : i \in Taken(f, off) => \E k \in 1..m : g[k] = i
    BY <2>1 DEF Found
  <2>4. DOMAIN f = 1..Len(f) /\ Len(f) \in Nat
    BY <1>1 DEF IsFile
  <2>5. c \in Nat /\ c <= m /\ c <= Effective(limit) /\ DOMAIN r = 1..c
    BY <2>1, <2>2, <2>3
  <2> DEFINE line(k) == g[m - k + 1]
  <2>6. \A k \in 1..c : /\ line(k) \in DOMAIN f /\ line(k) \in Taken(f, off)
                        /\ r[k] = f[line(k)].id
    BY <2>1, <2>3, <2>4
  <2>7. ASSUME NEW k \in DOMAIN r, NEW l \in DOMAIN r, k < l
        PROVE  r[k] > r[l]
    <3>1. m - l + 1 \in 1..m /\ m - k + 1 \in 1..m /\ m - l + 1 < m - k + 1
      <4>1. k \in 1..c /\ l \in 1..c /\ c \in Nat /\ m \in Nat
        BY <2>3, <2>5
      <4>2. m - l + 1 \in 1..m /\ m - k + 1 \in 1..m
        BY <2>1, <4>1
      <4> QED
        BY <2>7, <4>1, <4>2
    <3>2. line(l) < line(k)
      BY <2>3, <3>1
    <3>3. line(l) \in DOMAIN f /\ line(k) \in DOMAIN f /\ r[k] = f[line(k)].id
          /\ r[l] = f[line(l)].id
      BY <2>5, <2>6
    <3> HIDE DEF line
    <3>4. f[line(l)].id < f[line(k)].id
      BY <1>1, <3>2, <3>3, OrderIs
    <3>5. f[line(l)].id \in Nat /\ f[line(k)].id \in Nat
      BY <1>1, <3>3, LineIs
    <3> QED
      BY <3>3, <3>4, <3>5
  <2>8. ASSUME NEW k \in DOMAIN r, NEW j \in Matching(f), f[j].id > r[k]
        PROVE  \E l \in DOMAIN r : r[l] = f[j].id
    <3>1. j \in DOMAIN f /\ f[j].whole /\ f[j].kind = want
      BY DEF Matching
    <3>2. line(k) \in DOMAIN f /\ line(k) \in Taken(f, off) /\ r[k] = f[line(k)].id
      BY <2>5, <2>6
    <3>3. f[line(k)].id < f[j].id
      <4>1. f[line(k)].id \in Nat /\ f[j].id \in Nat
        <5> HIDE DEF line
        <5> QED
          BY <1>1, <3>1, <3>2, LineIs
      <4> QED
        BY <2>8, <3>2, <4>1
    <3>4. line(k) < j /\ f[line(k)].at < f[j].at
      <4> HIDE DEF line
      <4> QED
        BY <1>1, <3>1, <3>2, <3>3, OrderIs
    <3>5. j \in Taken(f, off)
      <4>1. off = 0 \/ f[line(k)].at > off
        BY <3>2 DEF Taken, InTail
      <4>2. off \in Nat /\ f[line(k)].at \in Nat /\ f[j].at \in Nat
        <5> HIDE DEF line
        <5>1. off \in Nat
          BY DEF EveInv, EveTypeOK
        <5> QED
          BY <1>1, <3>1, <3>2, <5>1, LineIs
      <4>3. off = 0 \/ f[j].at > off
        BY <3>4, <4>1, <4>2
      <4> QED
        BY <3>1, <4>3 DEF Taken, InTail
    <3>6. PICK h \in 1..m : g[h] = j
      BY <2>3, <2>4, <3>1, <3>5
    <3> DEFINE l == m - h + 1
    <3>7. m - k + 1 < h
      <4>1. m - k + 1 \in 1..m /\ k \in Nat
        BY <2>1, <2>5
      <4>2. ~ (h < m - k + 1)
        <5>1. ASSUME h < m - k + 1 PROVE g[h] < g[m - k + 1]
          BY <2>3, <4>1, <5>1
        <5>2. g[h] \in Nat /\ g[m - k + 1] \in Nat
          BY <2>3, <2>4, <4>1
        <5> QED
          BY <3>4, <3>6, <5>1, <5>2
      <4>3. h # m - k + 1
        <5>1. g[m - k + 1] \in Nat
          BY <2>3, <2>4, <4>1
        <5> QED
          BY <3>4, <3>6, <5>1
      <4> QED
        BY <2>3, <4>1, <4>2, <4>3
    <3>8. l \in 1..c /\ m - l + 1 = h
      BY <2>3, <2>5, <3>7
    <3>9. r[l] = f[g[m - l + 1]].id
      <4> HIDE DEF l
      <4> QED
        BY <2>1, <3>8
    <3> QED
      BY <2>5, <3>6, <3>8, <3>9
  <2>9. ASSUME ~ truncated, c < Effective(limit), NEW i \in Matching(atStat),
               atStat[i].at + MaxTail - MaxLine >= Size(atStat)
        PROVE  \E l \in DOMAIN r : r[l] = atStat[i].id
    <3>1. i \in DOMAIN atStat /\ atStat[i].whole /\ atStat[i].kind = want
      BY DEF Matching
    <3>2. i \in InTail(f, off)
      BY <1>1, <1>3, <2>9, <3>1, RecentScanned
    <3>3. /\ i \in DOMAIN f /\ f[i].id = atStat[i].id
          /\ f[i].kind = want /\ f[i].whole
      BY <1>3, <2>9, <3>1, <3>2 DEF Extends, InTail
    <3>4. i \in Taken(f, off)
      BY <3>2, <3>3 DEF Taken
    <3>5. PICK h \in 1..m : g[h] = i
      BY <2>3, <2>4, <3>3, <3>4
    <3> DEFINE l == m - h + 1
    <3>6. c = m
      BY <2>1, <2>2, <2>3, <2>9
    <3>7. l \in 1..c /\ m - l + 1 = h
      BY <2>3, <3>6
    <3>8. r[l] = f[g[m - l + 1]].id
      <4> HIDE DEF l
      <4> QED
        BY <2>1, <3>7
    <3> QED
      BY <2>5, <3>3, <3>5, <3>7, <3>8
  <2>10. \A a \in ToSet(r) : \E i \in Matching(f) : f[i].id = a
    <3>1. \A k \in DOMAIN r : line(k) \in Matching(f)
      BY <2>5, <2>6 DEF Taken, InTail, Matching
    <3> QED
      BY <2>5, <2>6, <3>1 DEF ToSet
  <2>11. r # Failed
    BY <2>1, EveAssumption
  <2>12. /\ Matching(scanned)' = Matching(f) /\ Matching(atStat)' = Matching(atStat)
         /\ Size(atStat)' = Size(atStat) /\ ToSet(reply)' = ToSet(r)
         /\ Effective(limit)' = Effective(limit)
    BY <1>2 DEF Matching, Size, ToSet, Effective
  <2> DEFINE found == {f[i].id : i \in Matching(f)}
             recent == {i \in Matching(atStat) :
                           atStat[i].at + MaxTail - MaxLine >= Size(atStat)}
  <2>13. /\ \A i, j \in DOMAIN r : i < j => r[i] > r[j]
         /\ ToSet(r) \subseteq found
         /\ \A a \in ToSet(r), b \in found : b > a => b \in ToSet(r)
         /\ ~ truncated /\ Len(r) < Effective(limit) =>
               {atStat[i].id : i \in recent} \subseteq ToSet(r)
    <3>1. \A i, j \in DOMAIN r : i < j => r[i] > r[j]
      BY <2>7
    <3>2. ToSet(r) \subseteq found
      BY <2>10
    <3>3. \A a \in ToSet(r), b \in found : b > a => b \in ToSet(r)
      BY <2>8 DEF ToSet
    <3>4. ~ truncated /\ Len(r) < Effective(limit) =>
             {atStat[i].id : i \in recent} \subseteq ToSet(r)
      BY <2>1, <2>9 DEF ToSet
    <3> QED
      BY <3>1, <3>2, <3>3, <3>4
  <2>14. NewestListed'
    <3>1. reply' = r /\ scanned' = f /\ atStat' = atStat /\ truncated' = truncated
      BY <1>2
    <3> QED
      BY <2>11, <2>12, <2>13, <3>1 DEF NewestListed
  <2>15. r \in Seq(1..MaxEvents) /\ Len(r) <= IF limit = 0 THEN Default ELSE limit
    BY <2>1, <2>2, <2>5
  <2>16. reply' = r
    BY <1>2
  <2> QED
    BY <2>14, <2>15, <2>16
<1> QED
  BY <1>4, <1>5

-----------------------------------------------------------------------------
(* What Suricata writes.                                                   *)

LEMMA ExtendsTransitive ==
    ASSUME NEW a, IsFile(a), NEW b, IsFile(b), NEW c, IsFile(c),
           Extends(a, b), Extends(b, c)
    PROVE  Extends(a, c)
<1>1. Len(a) \in Nat /\ Len(b) \in Nat /\ Len(c) \in Nat
      /\ DOMAIN a = 1..Len(a) /\ DOMAIN b = 1..Len(b)
  BY DEF IsFile
<1>2. Len(a) <= Len(c) /\ \A i \in DOMAIN a : i \in DOMAIN b
  BY <1>1 DEF Extends
<1> QED
  BY <1>2 DEF Extends

LEMMA ExtendsSelf ==
    ASSUME NEW a, IsFile(a)
    PROVE  Extends(a, a)
BY DEF Extends, IsFile

(* A line more. *)
LEMMA Appended ==
    ASSUME NEW f, IsFile(f), Ordered(f), events \in 0..(MaxEvents - 1),
           \A i \in DOMAIN f : f[i].id <= events,
           NEW k \in Kinds, NEW s \in Sizes, NEW w \in BOOLEAN,
           NEW g, g = Append(f, [id |-> events + 1, kind |-> k, at |-> Size(f),
                                 size |-> s, whole |-> w])
    PROVE  /\ IsFile(g) /\ Ordered(g) /\ Extends(f, g)
           /\ \A i \in DOMAIN g : g[i].id <= events + 1
<1> DEFINE l == [id |-> events + 1, kind |-> k, at |-> Size(f), size |-> s, whole |-> w]
           n == Len(f)
<1>1. n \in Nat /\ DOMAIN f = 1..n
  BY DEF IsFile
<1>2. l \in Line
  <2>1. events + 1 \in 1..MaxEvents
    BY EveAssumption
  <2>2. Size(f) \in Nat
    BY SizeIs
  <2> QED
    BY <2>1, <2>2 DEF Line
<1>3. /\ l.id = events + 1 /\ l.at = Size(f)
  OBVIOUS
<1> HIDE DEF l
<1>4. /\ g \in Seq(Line) /\ Len(g) = n + 1 /\ DOMAIN g = 1..(n + 1)
      /\ \A i \in 1..n : g[i] = f[i]
      /\ g[n + 1] = l
  <2>1. f \in Seq(Line) /\ g = Append(f, l)
    BY DEF IsFile, l
  <2> QED
    BY <1>2, <2>1
<1>5. \A i \in 1..n : f[i].id \in Nat /\ f[i].id < events + 1
                      /\ f[i].at + f[i].size <= Size(f)
  <2> SUFFICES ASSUME NEW i \in 1..n
               PROVE  /\ f[i].id \in Nat /\ f[i].id < events + 1
                      /\ f[i].at + f[i].size <= Size(f)
    OBVIOUS
  <2>1. i \in DOMAIN f /\ n \in DOMAIN f /\ i \in Nat /\ f # <<>>
    BY <1>1
  <2>2. /\ f[i].id \in Nat /\ f[i].at \in Nat /\ f[i].size \in Nat
        /\ f[n].at \in Nat /\ f[n].size \in Nat
    BY <2>1, LineIs
  <2>3. Size(f) = f[n].at + f[n].size
    BY <2>1, SizeIs
  <2>4. i < n => f[i].at + f[i].size <= f[n].at
    BY <2>1 DEF Ordered
  <2>5. f[i].at + f[i].size <= Size(f)
    BY <1>1, <2>1, <2>2, <2>3, <2>4
  <2>6. f[i].id <= events
    BY <2>1
  <2> QED
    BY <2>2, <2>5, <2>6
<1>6. Ordered(g)
  <2> SUFFICES ASSUME NEW i \in DOMAIN g, NEW j \in DOMAIN g, i < j
               PROVE  g[i].id < g[j].id /\ g[i].at + g[i].size <= g[j].at
    BY DEF Ordered
  <2>1. i \in 1..n /\ g[i] = f[i]
    BY <1>1, <1>4
  <2>2. CASE j = n + 1
    BY <1>3, <1>4, <1>5, <2>1, <2>2
  <2>3. CASE j # n + 1
    <3>1. j \in 1..n /\ g[j] = f[j]
      BY <1>1, <1>4, <2>3
    <3> QED
      BY <1>1, <2>1, <3>1 DEF Ordered
  <2> QED
    BY <2>2, <2>3
<1>7. Extends(f, g)
  BY <1>1, <1>4 DEF Extends
<1>8. ASSUME NEW i \in DOMAIN g PROVE g[i].id <= events + 1
  <2>1. CASE i = n + 1
    BY <1>3, <1>4, <2>1
  <2>2. CASE i # n + 1
    <3>1. i \in 1..n /\ g[i] = f[i]
      BY <1>1, <1>4, <2>2
    <3> QED
      BY <1>5, <3>1
  <2> QED
    BY <2>1, <2>2
<1> QED
  BY <1>4, <1>6, <1>7, <1>8 DEF IsFile

(* The rest of the last line. *)
LEMMA Finished ==
    ASSUME NEW f, IsFile(f), Ordered(f), f # <<>>, NEW e,
           \A i \in DOMAIN f : f[i].id <= e,
           NEW g, g = [f EXCEPT ![Len(f)].whole = TRUE]
    PROVE  /\ IsFile(g) /\ Ordered(g) /\ Extends(f, g)
           /\ \A i \in DOMAIN g : g[i].id <= e
<1> DEFINE n == Len(f)
<1>1. n \in Nat /\ DOMAIN f = 1..n /\ n \in DOMAIN f
  BY DEF IsFile
<1>2. /\ DOMAIN g = DOMAIN f /\ g = [i \in 1..n |-> g[i]]
      /\ \A i \in DOMAIN f : g[i] = IF i = n THEN [f[i] EXCEPT !.whole = TRUE] ELSE f[i]
  BY <1>1
<1>3. ASSUME NEW i \in DOMAIN f
      PROVE  /\ g[i] \in Line
             /\ g[i].id = f[i].id /\ g[i].kind = f[i].kind
             /\ g[i].at = f[i].at /\ g[i].size = f[i].size
             /\ f[i].whole => g[i].whole
  <2>1. f[i] \in Line
    BY LineIs
  <2>2. g[i] = [f[i] EXCEPT !.whole = TRUE] \/ g[i] = f[i]
    BY <1>2
  <2> QED
    BY <2>1, <2>2 DEF Line
<1>4. g \in Seq(Line) /\ Len(g) = n
  <2>1. g \in [1..n -> Line]
    <3> HIDE DEF n
    <3> QED
      BY <1>1, <1>2, <1>3
  <2>2. n \in Nat
    BY <1>1
  <2>3. g \in Seq(Line)
    BY ONLY <2>1, <2>2
  <2> QED
    BY ONLY <2>1, <2>2, <2>3
<1>5. Ordered(g)
  BY <1>2, <1>3 DEF Ordered
<1>6. Extends(f, g)
  BY <1>1, <1>3, <1>4 DEF Extends
<1>7. \A i \in DOMAIN g : g[i].id <= e
  BY <1>2, <1>3
<1> QED
  BY <1>4, <1>5, <1>6, <1>7 DEF IsFile

(* Suricata changes only the file, and what the open one has become. *)
LEMMA ListedStays ==
    ASSUME NewestListed, UNCHANGED readVars, reader = "done" => truncated' = truncated
    PROVE  NewestListed'
<1>1. /\ reader' = reader /\ reply' = reply /\ scanned' = scanned
      /\ atStat' = atStat /\ want' = want /\ limit' = limit
  BY DEF readVars
<1>2. /\ Matching(scanned)' = Matching(scanned) /\ Matching(atStat)' = Matching(atStat)
      /\ Size(atStat)' = Size(atStat) /\ Effective(limit)' = Effective(limit)
      /\ ToSet(reply)' = ToSet(reply)
  BY <1>1 DEF Matching, Size, Effective, ToSet
<1>3. CASE reader = "done"
  BY <1>1, <1>2, <1>3 DEF NewestListed
<1>4. CASE reader # "done"
  BY <1>1, <1>4 DEF NewestListed
<1> QED
  BY <1>3, <1>4

(* The file grows: a line more, or the rest of the last one. *)
LEMMA FileGrows ==
    ASSUME EveInv, UNCHANGED <<readVars, rotated, truncated>>,
           NEW f, IsFile(f), eve # NoFile => f = eve, IsFile(eve'), Ordered(eve'),
           Extends(f, eve'), events' \in 0..MaxEvents,
           \A i \in DOMAIN eve' : eve'[i].id <= events'
    PROVE  EveInv'
<1>1. /\ reader' = reader /\ want' = want /\ limit' = limit /\ offset' = offset
      /\ reply' = reply /\ atStat' = atStat /\ scanned' = scanned
      /\ rotated' = rotated /\ truncated' = truncated
  BY DEF readVars
<1>2. EveTypeOK'
  BY <1>1 DEF EveInv, EveTypeOK
<1>3. FilesOrdered'
  BY <1>1 DEF EveInv, FilesOrdered
<1>4. NothingRead'
  BY <1>1 DEF EveInv, NothingRead
<1>5. Sought'
  <2>1. eve' # NoFile
    BY NoFileAssumption
  <2>2. Opened' # NoFile
    BY <1>1, <2>1 DEF Opened
  <2>3. Size(atStat)' = Size(atStat)
    BY <1>1 DEF Size
  <2>4. reader = "seek" /\ ~ truncated => Extends(atStat, Opened')
    <3>1. CASE rotated # NoFile
      BY <1>1, <3>1 DEF EveInv, Sought, Opened
    <3>2. CASE rotated = NoFile
      <4> SUFFICES ASSUME reader = "seek", ~ truncated PROVE Extends(atStat, Opened')
        OBVIOUS
      <4>1. eve # NoFile /\ f = eve /\ Extends(atStat, eve) /\ Opened' = eve'
        BY <1>1, <3>2 DEF EveInv, Sought, Opened
      <4>2. IsFile(atStat)
        BY DEF EveInv, EveTypeOK
      <4> QED
        BY <4>1, <4>2, ExtendsTransitive
    <3> QED
      BY <3>1, <3>2
  <2>5. Extends(atStat, Opened)' <=> Extends(atStat, Opened')
    BY <1>1
  <2> QED
    BY <1>1, <2>2, <2>3, <2>4, <2>5 DEF EveInv, Sought
<1>6. NewestListed'
  BY ListedStays DEF EveInv, readVars
<1> QED
  BY <1>2, <1>3, <1>4, <1>5, <1>6 DEF EveInv

LEMMA AppendKeeps ==
    ASSUME EveInv, NEW k \in Kinds, NEW s \in Sizes, NEW w \in BOOLEAN,
           AppendLine(k, s, w)
    PROVE  EveInv'
<1> DEFINE f == IF eve = NoFile THEN <<>> ELSE eve
<1>1. IsFile(f) /\ Ordered(f) /\ \A i \in DOMAIN f : f[i].id <= events
  <2>1. CASE eve = NoFile
    <3>1. IsFile(<<>>)
      BY DEF IsFile
    <3>2. Ordered(<<>>)
      BY DEF Ordered
    <3> QED
      BY <2>1, <3>1, <3>2
  <2>2. CASE eve # NoFile
    BY <2>2 DEF EveInv, EveTypeOK, FilesOrdered
  <2> QED
    BY <2>1, <2>2
<1>2. /\ events' = events + 1 /\ UNCHANGED <<readVars, rotated, truncated>>
      /\ eve' = Append(f, [id |-> events + 1, kind |-> k, at |-> Size(f),
                           size |-> s, whole |-> w])
      /\ events < MaxEvents
  BY DEF AppendLine
<1>3. events \in 0..(MaxEvents - 1) /\ events' \in 0..MaxEvents
  BY <1>2, EveAssumption DEF EveInv, EveTypeOK
<1>4. eve # NoFile => f = eve
  OBVIOUS
<1> HIDE DEF f
<1>5. /\ IsFile(eve') /\ Ordered(eve') /\ Extends(f, eve')
      /\ \A i \in DOMAIN eve' : eve'[i].id <= events + 1
  BY <1>1, <1>2, <1>3, Appended
<1> QED
  BY <1>1, <1>2, <1>3, <1>4, <1>5, FileGrows

LEMMA FinishKeeps ==
    ASSUME EveInv, Finish
    PROVE  EveInv'
<1>1. IsFile(eve) /\ Ordered(eve) /\ \A i \in DOMAIN eve : eve[i].id <= events
  BY DEF EveInv, EveTypeOK, FilesOrdered, Finish
<1>2. /\ eve # <<>> /\ eve' = [eve EXCEPT ![Len(eve)].whole = TRUE]
      /\ UNCHANGED <<readVars, events, rotated, truncated>>
  BY DEF Finish
<1>3. /\ IsFile(eve') /\ Ordered(eve') /\ Extends(eve, eve')
      /\ \A i \in DOMAIN eve' : eve'[i].id <= events
  BY <1>1, <1>2, Finished
<1>4. events' \in 0..MaxEvents /\ events' = events
  BY <1>2 DEF EveInv, EveTypeOK
<1> QED
  BY <1>1, <1>2, <1>3, <1>4, FileGrows

LEMMA RenameKeeps ==
    ASSUME EveInv, Rename
    PROVE  EveInv'
<1>1. /\ reader' = reader /\ want' = want /\ limit' = limit /\ offset' = offset
      /\ reply' = reply /\ atStat' = atStat /\ scanned' = scanned
      /\ truncated' = truncated /\ events' = events
  BY DEF Rename, readVars
<1>2. /\ eve # NoFile /\ eve' = NoFile
      /\ rotated' = IF reader \in {"stat", "seek"} /\ rotated = NoFile THEN eve ELSE rotated
  BY DEF Rename
<1>3. EveTypeOK'
  BY <1>1, <1>2 DEF EveInv, EveTypeOK
<1>4. FilesOrdered'
  BY <1>1, <1>2 DEF EveInv, FilesOrdered
<1>5. NothingRead'
  BY <1>1, <1>2 DEF EveInv, NothingRead
<1>6. Sought'
  <2>1. reader \in {"stat", "seek"} => Opened' = Opened
    BY <1>2 DEF Opened
  <2>2. Size(atStat)' = Size(atStat)
    BY <1>1 DEF Size
  <2>3. Extends(atStat, Opened)' <=> Extends(atStat, Opened')
    BY <1>1
  <2> QED
    BY <1>1, <2>1, <2>2, <2>3 DEF EveInv, Sought
<1>7. NewestListed'
  BY ListedStays DEF EveInv, Rename
<1> QED
  BY <1>3, <1>4, <1>5, <1>6, <1>7 DEF EveInv

LEMMA TruncateKeeps ==
    ASSUME EveInv, Truncate
    PROVE  EveInv'
<1>1. /\ reader' = reader /\ want' = want /\ limit' = limit /\ offset' = offset
      /\ reply' = reply /\ atStat' = atStat /\ scanned' = scanned
      /\ rotated' = rotated /\ events' = events
  BY DEF Truncate, readVars
<1>2. /\ eve # NoFile /\ eve' = <<>>
      /\ truncated' = (truncated \/ (reader \in {"stat", "seek"} /\ rotated = NoFile))
  BY DEF Truncate
<1>3. IsFile(eve') /\ Ordered(eve') /\ eve' # NoFile
  <2>1. IsFile(<<>>)
    BY DEF IsFile
  <2>2. Ordered(<<>>)
    BY DEF Ordered
  <2> QED
    BY <1>2, <2>1, <2>2, NoFileAssumption
<1>4. EveTypeOK'
  BY <1>1, <1>2, <1>3 DEF EveInv, EveTypeOK
<1>5. FilesOrdered'
  BY <1>1, <1>2, <1>3 DEF EveInv, FilesOrdered
<1>6. NothingRead'
  BY <1>1, <1>2 DEF EveInv, NothingRead
<1>7. Sought'
  <2>1. Opened' # NoFile
    BY <1>1, <1>3 DEF Opened
  <2>2. reader = "seek" /\ ~ truncated' => ~ truncated /\ Opened' = Opened
    BY <1>1, <1>2 DEF Opened
  <2>3. Size(atStat)' = Size(atStat)
    BY <1>1 DEF Size
  <2>4. Extends(atStat, Opened)' <=> Extends(atStat, Opened')
    BY <1>1
  <2> QED
    BY <1>1, <2>1, <2>2, <2>3, <2>4 DEF EveInv, Sought
<1>8. NewestListed'
  <2>1. reader = "done" => truncated' = truncated
    BY <1>2 DEF EveInv, EveTypeOK
  <2> QED
    BY <2>1, ListedStays DEF EveInv, Truncate
<1> QED
  BY <1>4, <1>5, <1>6, <1>7, <1>8 DEF EveInv

-----------------------------------------------------------------------------
(* The steps of the read.                                                  *)

LEMMA NothingListed ==
    ASSUME reply' = <<>>, atStat' = <<>>, scanned' = <<>>
    PROVE  NewestListed'
<1>1. reply' # Failed
  <2>1. <<>> \in Seq(1..MaxEvents)
    OBVIOUS
  <2> QED
    BY <2>1, EveAssumption
<1>2. ToSet(reply)' = {} /\ Matching(scanned)' = {} /\ Matching(atStat)' = {}
  BY DEF ToSet, Matching
<1> QED
  BY <1>1, <1>2 DEF NewestListed

LEMMA BeginKeeps ==
    ASSUME EveInv, NEW k \in Kinds, NEW l \in Limits, Begin(k, l)
    PROVE  EveInv'
<1>1. /\ reader = "idle" /\ want' = k /\ limit' = l
      /\ reader' = IF eve = NoFile THEN "done" ELSE "stat"
      /\ eve' = eve /\ events' = events /\ rotated' = rotated /\ offset' = offset
      /\ reply' = reply /\ atStat' = atStat /\ scanned' = scanned
      /\ truncated' = truncated
  BY DEF Begin
<1>2. /\ rotated = NoFile /\ ~ truncated
      /\ reply = <<>> /\ atStat = <<>> /\ scanned = <<>>
  BY <1>1 DEF EveInv, NothingRead
<1>3. EveTypeOK'
  <2>1. reply' \in Seq(1..MaxEvents) /\ Len(reply') <= IF limit' = 0 THEN Default ELSE limit'
    <3>1. l \in Nat /\ Default \in Nat
      BY EveAssumption
    <3> QED
      BY <1>1, <1>2, <3>1
  <2> QED
    BY <1>1, <2>1 DEF EveInv, EveTypeOK, Kinds
<1>4. FilesOrdered'
  BY <1>1 DEF EveInv, FilesOrdered
<1>5. NothingRead' /\ Sought'
  BY <1>1, <1>2 DEF NothingRead, Sought, Opened
<1>6. NewestListed'
  <2>1. reply' = <<>> /\ atStat' = <<>> /\ scanned' = <<>>
    BY <1>1, <1>2
  <2> QED
    BY <2>1, NothingListed
<1> QED
  BY <1>3, <1>4, <1>5, <1>6 DEF EveInv

LEMMA StatKeeps ==
    ASSUME EveInv, Stat
    PROVE  EveInv'
<1>1. /\ reader = "stat" /\ reader' = "seek" /\ atStat' = Opened
      /\ offset' = IF Size(Opened) > MaxTail THEN Size(Opened) - MaxTail ELSE 0
      /\ eve' = eve /\ events' = events /\ want' = want /\ limit' = limit
      /\ rotated' = rotated /\ reply' = reply /\ scanned' = scanned
      /\ truncated' = truncated
  BY DEF Stat
<1>2. Opened # NoFile /\ IsFile(Opened)
  BY <1>1 DEF EveInv, EveTypeOK, Sought, Opened
<1>3. offset' \in Nat
  BY <1>1, <1>2, SizeIs, EveAssumption
<1>4. EveTypeOK'
  BY <1>1, <1>2, <1>3 DEF EveInv, EveTypeOK
<1>5. FilesOrdered'
  BY <1>1 DEF EveInv, FilesOrdered
<1>6. Opened' = Opened
  BY <1>1 DEF Opened
<1>7. Sought'
  <2>1. Extends(Opened, Opened)
    BY <1>2, ExtendsSelf
  <2>2. Size(atStat)' = Size(Opened) /\ (Extends(atStat, Opened)' <=> Extends(Opened, Opened))
    BY <1>1, <1>6 DEF Size
  <2> QED
    BY <1>1, <1>2, <1>6, <2>1, <2>2 DEF Sought
<1>8. NothingRead' /\ NewestListed'
  BY <1>1 DEF NothingRead, NewestListed
<1> QED
  BY <1>4, <1>5, <1>7, <1>8 DEF EveInv

LEMMA ReadKeeps ==
    ASSUME EveInv, Read
    PROVE  EveInv'
<1>1. /\ reader = "seek" /\ reader' = "done" /\ scanned' = Opened
      /\ eve' = eve /\ events' = events /\ want' = want /\ limit' = limit
      /\ rotated' = rotated /\ offset' = offset /\ atStat' = atStat
      /\ truncated' = truncated
  BY DEF Read
<1>2. IsFile(scanned')
  BY <1>1 DEF EveInv, EveTypeOK, Sought, Opened
<1>3. /\ NewestListed'
      /\ reply' = Failed \/ (reply' \in Seq(1..MaxEvents)
                             /\ Len(reply') <= IF limit' = 0 THEN Default ELSE limit')
  BY <1>1, ReadLists
<1>4. EveTypeOK'
  BY <1>1, <1>2, <1>3 DEF EveInv, EveTypeOK
<1>5. FilesOrdered'
  BY <1>1 DEF EveInv, FilesOrdered
<1>6. NothingRead' /\ Sought'
  BY <1>1 DEF NothingRead, Sought
<1> QED
  BY <1>3, <1>4, <1>5, <1>6 DEF EveInv

LEMMA AnsweredKeeps ==
    ASSUME EveInv, Answered
    PROVE  EveInv'
<1>1. /\ reader' = "idle" /\ want' = "alert" /\ limit' = 0 /\ offset' = 0
      /\ reply' = <<>> /\ atStat' = <<>> /\ scanned' = <<>> /\ rotated' = NoFile
      /\ truncated' = FALSE /\ eve' = eve /\ events' = events
  BY DEF Answered
<1>2. EveTypeOK'
  <2>1. IsFile(<<>>) /\ 0 \in Limits /\ Default \in Nat /\ <<>> \in Seq(1..MaxEvents)
        /\ Len(<<>>) <= Default
    BY EveAssumption DEF IsFile
  <2> QED
    BY <1>1, <2>1 DEF EveInv, EveTypeOK
<1>3. FilesOrdered' /\ NothingRead' /\ Sought' /\ NewestListed'
  BY <1>1 DEF EveInv, FilesOrdered, NothingRead, Sought, NewestListed
<1> QED
  BY <1>2, <1>3 DEF EveInv

(* A request reads the file, or leaves the reader alone. *)
LEMMA RequestReads ==
    ASSUME Requests
    PROVE  UNCHANGED eveVars \/ \E k \in Kinds, l \in Limits : Begin(k, l)
<1>1. ASSUME NEW rpc, NEW token, NEW body, Grpc(rpc, token, body)
      PROVE  UNCHANGED eveVars \/ \E k \in Kinds, l \in Limits : Begin(k, l)
  <2>1. CASE Admission(token, rpc) = "ok"
    <3>1. Call(rpc, Actor(token), body)
      BY <1>1, <2>1 DEF Grpc
    <3>2. rpc \in DOMAIN ReadsEve => ReadsEve[rpc] \in Kinds
      BY DEF ReadsEve, Kinds
    <3> QED
      BY <3>1, <3>2 DEF Call
  <2>2. CASE Admission(token, rpc) # "ok"
    BY <1>1, <2>2 DEF Grpc, Rejected
  <2> QED
    BY <2>1, <2>2
<1>2. \/ UNCHANGED eveVars
      \/ \E rpc, token, body : Grpc(rpc, token, body)
  BY DEF Requests, Gateway, Cli, Rejected
<1> QED
  BY <1>1, <1>2

LEMMA EveNext == EveInv /\ [Next]_vars => EveInv'
<1> SUFFICES ASSUME EveInv, [Next]_vars PROVE EveInv'
  OBVIOUS
<1>1. CASE UNCHANGED eveVars
  <2>1. /\ EveTypeOK' <=> EveTypeOK
        /\ FilesOrdered' <=> FilesOrdered
        /\ NothingRead' <=> NothingRead
    BY <1>1 DEF eveVars, EveTypeOK, FilesOrdered, NothingRead, Ordered, IsFile, Line
  <2>2. Sought' <=> Sought
    BY <1>1 DEF eveVars, Sought, Opened, Size, Extends
  <2>3. NewestListed'
    BY <1>1, ListedStays DEF EveInv, eveVars, readVars
  <2> QED
    BY <2>1, <2>2, <2>3 DEF EveInv
<1>2. CASE Requests
  BY <1>1, <1>2, RequestReads, BeginKeeps
<1>3. CASE Suricata
  BY <1>3, AppendKeeps, FinishKeeps, RenameKeeps, TruncateKeeps DEF Suricata
<1>4. CASE EveStep
  BY <1>4, StatKeeps, ReadKeeps DEF EveStep
<1>5. CASE Answered
  BY <1>5, AnsweredKeeps
<1>6. CASE Start \/ Stop \/ EditUsers \/ UNCHANGED vars
  BY <1>1, <1>6 DEF Start, Stop, EditUsers, vars
<1> QED
  BY <1>2, <1>3, <1>4, <1>5, <1>6 DEF Next

LEMMA EveInitially == Init => EveInv
<1> SUFFICES ASSUME Init PROVE EveInv
  OBVIOUS
<1>1. EveInit
  BY DEF Init
<1>2. EveTypeOK
  <2>1. IsFile(<<>>) /\ 0 \in Limits /\ Default \in Nat /\ <<>> \in Seq(1..MaxEvents)
        /\ Len(<<>>) <= Default /\ 0 \in 0..MaxEvents
    BY EveAssumption DEF IsFile
  <2> QED
    BY <1>1, <2>1 DEF EveInit, EveTypeOK
<1>3. FilesOrdered /\ NothingRead /\ Sought /\ NewestListed
  BY <1>1 DEF EveInit, FilesOrdered, NothingRead, Sought, NewestListed
<1> QED
  BY <1>2, <1>3 DEF EveInv

(* What a request for alerts or flows returns is a run of the newest       *)
(* events of the file, newest first and without a gap, and when there was  *)
(* room, all that lay in the last MaxTail - MaxLine bytes when it began:   *)
(* for every size of lines, tail and scanner, every limit, and whatever    *)
(* Suricata and logrotate do between the open, the stat and the read       *)
(* (ReadAlerts, ReadFlows in eve.go), short of a truncation.               *)
THEOREM NewestAlwaysListed == Spec => []NewestListed
<1>1. EveInv => NewestListed
  BY DEF EveInv
<1> QED
  BY <1>1, EveInitially, EveNext, PTL DEF Spec

-----------------------------------------------------------------------------
(* Types.                                                                  *)

(* Who can be audited. *)
Named ==
    {"nobody", "local"}
    \cup UNION {{f.users[i].name : i \in DOMAIN f.users} : f \in UserFiles}

ApiTypeOK ==
    /\ up \in BOOLEAN
    /\ changes \in {0, 1}
    /\ entry \in Named
    /\ caller \in Tokens \cup {NoToken}

LEMMA TableNames ==
    ASSUME NEW f \in UserFiles, NEW t \in DOMAIN Table(f)
    PROVE  Table(f)[t].name \in Named
<1> DEFINE i == CHOOSE j \in DOMAIN f.users : f.users[j].token = t
<1>1. t \in {f.users[j].token : j \in DOMAIN f.users}
  BY DEF Table
<1>2. i \in DOMAIN f.users
  BY <1>1
<1>3. Table(f)[t].name = f.users[i].name
  BY <1>1 DEF Table
<1> HIDE DEF i
<1>4. f.users[i].name \in UNION {{e.users[j].name : j \in DOMAIN e.users} : e \in UserFiles}
  BY <1>2
<1> QED
  BY <1>3, <1>4 DEF Named

LEMMA GrpcTyped ==
    ASSUME AuthOK, ApiTypeOK, NEW token \in Tokens \cup {NoToken}, NEW rpc, NEW body,
           Grpc(rpc, token, body)
    PROVE  ApiTypeOK'
<1>1. up' = up /\ caller' = token
  BY DEF Grpc
<1>2. CASE Admission(token, rpc) = "ok"
  <2>1. Actor(token) \in Named
    <3>1. CASE auth = Off
      BY <3>1 DEF Actor, Named
    <3>2. CASE auth # Off
      <4>1. token \in DOMAIN auth
        BY <1>2, <3>2 DEF Admission
      <4>2. PICK f \in UserFiles : auth = Table(f)
        BY <3>2 DEF AuthOK
      <4> QED
        BY <3>2, <4>1, <4>2, TableNames DEF Actor
    <3> QED
      BY <3>1, <3>2
  <2>2. Call(rpc, Actor(token), body)
    BY <1>2 DEF Grpc
  <2>3. /\ changes' = changes \/ changes' \in {changes, 1 - changes}
        /\ entry' \in {entry, Actor(token)}
    BY <2>2 DEF Call, Handle
  <2> QED
    BY <1>1, <2>1, <2>3 DEF ApiTypeOK
<1>3. CASE Admission(token, rpc) # "ok"
  BY <1>1, <1>3 DEF Grpc, Rejected, ApiTypeOK
<1> QED
  BY <1>2, <1>3

LEMMA ApiTypeNext == AuthOK /\ ApiTypeOK /\ [Next]_vars => ApiTypeOK'
<1> SUFFICES ASSUME AuthOK, ApiTypeOK, [Next]_vars PROVE ApiTypeOK'
  OBVIOUS
<1>1. CASE Requests
  <2>1. PICK token \in Tokens \cup {NoToken} :
           \/ UNCHANGED <<up, changes, entry>> /\ caller' = token
           \/ \E rpc, body : Grpc(rpc, token, body)
    BY <1>1 DEF Requests, Gateway, Cli, Rejected
  <2> QED
    BY <2>1, GrpcTyped DEF ApiTypeOK
<1>2. CASE Start \/ Stop
  BY <1>2 DEF Start, Stop, ApiTypeOK
<1>3. CASE EditUsers \/ UNCHANGED apiVars \/ UNCHANGED vars
  BY <1>3 DEF EditUsers, apiVars, vars, ApiTypeOK
<1> QED
  BY <1>1, <1>2, <1>3 DEF Next

(* Types, of the API and of the reader; a reply is never longer than the   *)
(* limit that was asked for.                                               *)
THEOREM ApiTyped == Spec => []TypeOK
<1> DEFINE Inv == AuthOK /\ ApiTypeOK /\ EveInv
<1>1. Init => Inv
  <2>1. Init => AuthOK /\ ApiTypeOK
    BY DEF Init, AuthOK, ApiTypeOK, Named
  <2> QED
    BY <2>1, EveInitially
<1>2. Inv /\ [Next]_vars => Inv'
  BY AuthNext, ApiTypeNext, EveNext
<1>3. Inv => TypeOK
  BY DEF AuthOK, ApiTypeOK, EveInv, TypeOK, Named
<1> QED
  BY <1>1, <1>2, <1>3, PTL DEF Spec
=============================================================================
