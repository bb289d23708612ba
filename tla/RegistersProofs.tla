-------------------------- MODULE RegistersProofs --------------------------
(***************************************************************************)
(* For any number of clients, registers, requests, losses and faults: the  *)
(* configuration that a client was shown lasts, and so does the reset of   *)
(* an operator.                                                            *)
(***************************************************************************)
EXTENDS Registers, SequenceTheorems, TLAPS

(* Transfer-IDs tell how old a request or a response is.                   *)
Increasing(q) == \A i, j \in DOMAIN q : i < j => q[i].tid < q[j].tid
UpTo(q, n) == \A i \in DOMAIN q : q[i].tid <= n
Older(p, q) == \A i \in DOMAIN p, j \in DOMAIN q : p[i].tid < q[j].tid

(* The node answers in order.                                              *)
Line(p, q, n) ==
    /\ Increasing(p) /\ UpTo(p, n)
    /\ Increasing(q) /\ UpTo(q, n)
    /\ Older(p, q)

LineAt(u) == Line(responses[u], requests[u], user[u].sends)

(* So an answer to the last request leaves none on its way, and all the    *)
(* requests on their way belong to the step that the user is at.           *)
Fits(u, step, q) ==
    CASE step = "write"  -> q.op = "access" /\ q.register = RegisterOf[u]
                              /\ q.tag # "empty" /\ q.value = Wish
      [] step = "verify" -> q.op = "access" /\ q.register = RegisterOf[u]
                              /\ q.tag = "empty"
      [] OTHER           -> q.op = step

FitsAt(u) == \A i \in DOMAIN requests[u] : Fits(u, user[u].step, requests[u][i])

StepsInv ==
    /\ user[Operator].step \in {"reset", "done"}
    /\ \A c \in Client : user[c].step # "reset"

QueueInv == TypeOK /\ StepsInv /\ \A u \in User : LineAt(u) /\ FitsAt(u)

(* The last request was a command, and its success is on its way.          *)
Confirmed(u) ==
    \E i \in DOMAIN responses[u] :
        responses[u][i].tid = user[u].sends /\ responses[u][i].result = TRUE

(* Once the client has stored, only a value that is stored reads back.     *)
StoredAt(c) ==
    user[c].step = "verify" \/ (user[c].step = "store" /\ Confirmed(c)) =>
        (ram[RegisterOf[c]] = Wish => flash[RegisterOf[c]] = Wish)

VerifiedAt(c) ==
    verified[c] =>
        /\ ram[RegisterOf[c]] = Wish /\ flash[RegisterOf[c]] = Wish
        /\ booted[c] => port_id[RegisterOf[c]] = Wish

ResetInv ==
    resetLasts /\ (user[Operator].step = "done" \/ Confirmed(Operator)) =>
        \A r \in Register : ram[r] = Default /\ flash[r] = Default

StorageInv == ResetInv /\ \A c \in Client : StoredAt(c) /\ VerifiedAt(c)

-----------------------------------------------------------------------------
(* The queues of a user.                                                   *)

(* p is what is left of q when some elements are taken out.                *)
Thinned(p, q) ==
    \E f : /\ \A i \in DOMAIN p : f[i] \in DOMAIN q /\ p[i] = q[f[i]]
           /\ \A i, j \in DOMAIN p : i < j => f[i] < f[j]

LEMMA ThinnedSelf ==
    ASSUME NEW S, NEW q \in Seq(S)
    PROVE  Thinned(q, q)
<1> DEFINE f == [i \in DOMAIN q |-> i]
<1>1. \A i \in DOMAIN q : f[i] = i
  OBVIOUS
<1> HIDE DEF f
<1> QED BY <1>1, Zenon DEF Thinned

LEMMA TailIsThinned ==
    ASSUME NEW S, NEW q \in Seq(S), q # <<>>
    PROVE  Tail(q) \in Seq(S) /\ Thinned(Tail(q), q) /\ Len(Tail(q)) = Len(q) - 1
<1> PICK p : p = Tail(q)
  OBVIOUS
<1>1. /\ p \in Seq(S) /\ Len(p) = Len(q) - 1 /\ Len(q) \in Nat
      /\ \A i \in 1 .. Len(p) : p[i] = q[i + 1]
  BY HeadTailProperties, LenProperties
<1>2. DOMAIN p = 1 .. Len(p) /\ DOMAIN q = 1 .. Len(q)
  BY <1>1, LenProperties
<1> DEFINE f == [i \in DOMAIN p |-> i + 1]
<1>3. \A i \in DOMAIN p : f[i] = i + 1
  OBVIOUS
<1> HIDE DEF f
<1>4. \A i \in DOMAIN p : f[i] \in DOMAIN q /\ p[i] = q[f[i]]
  BY <1>1, <1>2, <1>3
<1>5. \A i, j \in DOMAIN p : i < j => f[i] < f[j]
  BY <1>1, <1>2, <1>3
<1> QED BY <1>1, <1>4, <1>5, Zenon DEF Thinned

LEMMA RemoveIsThinned ==
    ASSUME NEW S, NEW q \in Seq(S), NEW k \in DOMAIN q
    PROVE  RemoveAt(q, k) \in Seq(S) /\ Thinned(RemoveAt(q, k), q)
<1> PICK n : n = Len(q)
  OBVIOUS
<1>1. n \in Nat /\ DOMAIN q = 1 .. n /\ k \in 1 .. n /\ k \in Nat
  BY LenProperties
<1> PICK a : a = SubSeq(q, 1, k - 1)
  OBVIOUS
<1> PICK b : b = SubSeq(q, k + 1, n)
  OBVIOUS
<1>2. a \in Seq(S) /\ Len(a) = k - 1 /\ \A i \in 1 .. k - 1 : a[i] = q[i]
  <2>1. 1 \in Int /\ k - 1 \in Int /\ \A i \in 1 .. k - 1 : q[i] \in S
    BY <1>1, ElementOfSeq
  <2>2. /\ SubSeq(q, 1, k - 1) \in Seq(S)
        /\ Len(SubSeq(q, 1, k - 1)) = IF 1 <= k - 1 THEN k - 1 - 1 + 1 ELSE 0
        /\ \A i \in 1 .. k - 1 - 1 + 1 : SubSeq(q, 1, k - 1)[i] = q[1 + i - 1]
    BY <2>1, SubSeqProperties
  <2> QED BY <1>1, <2>2
<1>3. b \in Seq(S) /\ Len(b) = n - k /\ \A i \in 1 .. n - k : b[i] = q[i + k]
  <2>1. n \in Int /\ k + 1 \in Int /\ \A i \in k + 1 .. n : q[i] \in S
    BY <1>1, ElementOfSeq
  <2>2. /\ SubSeq(q, k + 1, n) \in Seq(S)
        /\ Len(SubSeq(q, k + 1, n)) = IF k + 1 <= n THEN n - (k + 1) + 1 ELSE 0
        /\ \A i \in 1 .. n - (k + 1) + 1 : SubSeq(q, k + 1, n)[i] = q[(k + 1) + i - 1]
    BY <2>1, SubSeqProperties
  <2> QED BY <1>1, <2>2
<1> PICK p : p = RemoveAt(q, k)
  OBVIOUS
<1>4. p = a \o b
  BY Zenon DEF RemoveAt
<1>5. /\ p \in Seq(S) /\ Len(p) = n - 1
      /\ \A i \in 1 .. n - 1 : p[i] = IF i < k THEN q[i] ELSE q[i + 1]
  <2>1. /\ a \o b \in Seq(S) /\ Len(a \o b) = Len(a) + Len(b)
        /\ \A i \in 1 .. Len(a) + Len(b) : (a \o b)[i] = IF i <= Len(a) THEN a[i] ELSE b[i - Len(a)]
    BY <1>2, <1>3, ConcatProperties, SMTT(30)
  <2>2. Len(a) + Len(b) = n - 1
    BY <1>1, <1>2, <1>3, SMTT(30)
  <2>3. ASSUME NEW i \in 1 .. n - 1 PROVE p[i] = IF i < k THEN q[i] ELSE q[i + 1]
    <3>1. p[i] = IF i <= k - 1 THEN a[i] ELSE b[i - (k - 1)]
      BY <1>2, <1>4, <2>1, <2>2
    <3>2. CASE i < k
      <4>1. i \in 1 .. k - 1 /\ i <= k - 1
        BY <1>1, <3>2
      <4> QED BY <1>2, <3>1, <3>2, <4>1
    <3>3. CASE ~(i < k)
      <4>1. ~(i <= k - 1) /\ i - (k - 1) \in 1 .. n - k /\ (i - (k - 1)) + k = i + 1
        BY <1>1, <3>3
      <4> QED BY <1>3, <3>1, <3>3, <4>1
    <3> QED BY <3>2, <3>3
  <2> QED BY <1>4, <2>1, <2>2, <2>3
<1>6. DOMAIN p = 1 .. n - 1
  BY <1>5, LenProperties
<1> DEFINE f == [i \in DOMAIN p |-> IF i < k THEN i ELSE i + 1]
<1>7. \A i \in DOMAIN p : f[i] = IF i < k THEN i ELSE i + 1
  OBVIOUS
<1> HIDE DEF f
<1>8. \A i \in DOMAIN p : f[i] \in DOMAIN q /\ p[i] = q[f[i]]
  BY <1>1, <1>5, <1>6, <1>7
<1>9. \A i, j \in DOMAIN p : i < j => f[i] < f[j]
  BY <1>1, <1>6, <1>7
<1> QED BY <1>5, <1>8, <1>9, Zenon DEF Thinned

LEMMA ThinnedLine ==
    ASSUME NEW p, NEW q, NEW n, Line(p, q, n), NEW x, NEW y, Thinned(x, p), Thinned(y, q)
    PROVE  Line(x, y, n)
<1> PICK f : /\ \A i \in DOMAIN x : f[i] \in DOMAIN p /\ x[i] = p[f[i]]
             /\ \A i, j \in DOMAIN x : i < j => f[i] < f[j]
  BY Zenon DEF Thinned
<1> PICK g : /\ \A i \in DOMAIN y : g[i] \in DOMAIN q /\ y[i] = q[g[i]]
             /\ \A i, j \in DOMAIN y : i < j => g[i] < g[j]
  BY Zenon DEF Thinned
<1>1. Increasing(x) /\ UpTo(x, n)
  BY Zenon DEF Line, Increasing, UpTo
<1>2. Increasing(y) /\ UpTo(y, n)
  BY Zenon DEF Line, Increasing, UpTo
<1>3. Older(x, y)
  BY Zenon DEF Line, Older
<1> QED BY <1>1, <1>2, <1>3 DEF Line

LEMMA AnsweredLine ==
    ASSUME NEW S, NEW T, NEW p \in Seq(S), NEW q \in Seq(T), q # <<>>, NEW n \in Nat,
           \A x \in S : x.tid \in Nat, \A x \in T : x.tid \in Nat,
           Line(p, q, n), NEW a \in S, a.tid = Head(q).tid
    PROVE  Line(Append(p, a), Tail(q), n)
<1> PICK x : x = Append(p, a)
  OBVIOUS
<1> PICK y : y = Tail(q)
  OBVIOUS
<1> PICK m : m = Len(p)
  OBVIOUS
<1> PICK k : k = Len(q)
  OBVIOUS
<1> PICK t : t = a.tid
  OBVIOUS
<1>1. /\ m \in Nat /\ DOMAIN p = 1 .. m /\ k \in Nat /\ k > 0 /\ DOMAIN q = 1 .. k /\ t \in Nat
      /\ \A i \in 1 .. m : p[i].tid \in Nat
      /\ \A i \in 1 .. k : q[i].tid \in Nat
  BY LenProperties, EmptySeq, ElementOfSeq
<1>2. /\ DOMAIN x = 1 .. m + 1 /\ x[m + 1] = a
      /\ \A i \in 1 .. m : x[i] = p[i]
  BY AppendProperties, LenProperties
<1>3. DOMAIN y = 1 .. k - 1 /\ \A i \in 1 .. k - 1 : y[i] = q[i + 1]
  BY HeadTailProperties, LenProperties
<1>4. q[1].tid = t /\ 1 \in 1 .. k
  BY <1>1
<1>5. /\ \A i, j \in 1 .. m : i < j => p[i].tid < p[j].tid
      /\ \A i, j \in 1 .. k : i < j => q[i].tid < q[j].tid
      /\ \A i \in 1 .. m : p[i].tid <= n
      /\ \A i \in 1 .. k : q[i].tid <= n
      /\ \A i \in 1 .. m, j \in 1 .. k : p[i].tid < q[j].tid
  BY <1>1, Zenon DEF Line, Increasing, UpTo, Older
<1>6. /\ \A i \in 1 .. m : x[i].tid = p[i].tid /\ x[i].tid < t
      /\ x[m + 1].tid = t /\ t <= n
  BY <1>2, <1>4, <1>5
<1>7. \A i \in 1 .. m + 1 : i = m + 1 \/ i \in 1 .. m
  BY <1>1
<1>8. Increasing(x)
  <2> SUFFICES ASSUME NEW i \in 1 .. m + 1, NEW j \in 1 .. m + 1, i < j PROVE x[i].tid < x[j].tid
    BY <1>2 DEF Increasing
  <2>1. i \in 1 .. m
    BY <1>1
  <2> QED BY <1>5, <1>6, <1>7, <2>1
<1>9. UpTo(x, n)
  BY <1>2, <1>5, <1>6, <1>7 DEF UpTo
<1>10. Increasing(y) /\ UpTo(y, n)
  <2>1. \A i \in 1 .. k - 1 : i + 1 \in 1 .. k
    BY <1>1
  <2>2. \A i, j \in 1 .. k - 1 : i < j => i + 1 < j + 1
    BY <1>1
  <2> QED BY <1>3, <1>5, <2>1, <2>2, SMTT(30) DEF Increasing, UpTo
<1>11. Older(x, y)
  <2> SUFFICES ASSUME NEW i \in 1 .. m + 1, NEW j \in 1 .. k - 1 PROVE x[i].tid < y[j].tid
    BY <1>2, <1>3 DEF Older
  <2>1. j + 1 \in 1 .. k /\ 1 < j + 1 /\ y[j].tid = q[j + 1].tid
    BY <1>1, <1>3
  <2>2. CASE i = m + 1
    BY <1>4, <1>5, <1>6, <2>1, <2>2
  <2>3. CASE i \in 1 .. m
    BY <1>5, <1>6, <2>1, <2>3
  <2> QED BY <1>7, <2>2, <2>3
<1> QED BY <1>8, <1>9, <1>10, <1>11 DEF Line

LEMMA SentLine ==
    ASSUME NEW S, NEW T, NEW p \in Seq(S), NEW q \in Seq(T), NEW n \in Nat,
           \A x \in S : x.tid \in Nat, \A x \in T : x.tid \in Nat,
           Line(p, q, n), NEW a \in T, a.tid = n + 1
    PROVE  Line(p, Append(q, a), n + 1)
<1> PICK y : y = Append(q, a)
  OBVIOUS
<1> PICK m : m = Len(p)
  OBVIOUS
<1> PICK k : k = Len(q)
  OBVIOUS
<1>1. /\ m \in Nat /\ DOMAIN p = 1 .. m /\ k \in Nat /\ DOMAIN q = 1 .. k
      /\ \A i \in 1 .. m : p[i].tid \in Nat
      /\ \A i \in 1 .. k : q[i].tid \in Nat
  BY LenProperties, EmptySeq, ElementOfSeq
<1>2. DOMAIN y = 1 .. k + 1 /\ y[k + 1].tid = n + 1 /\ \A i \in 1 .. k : y[i] = q[i]
  BY AppendProperties, LenProperties
<1>3. /\ \A i, j \in 1 .. k : i < j => q[i].tid < q[j].tid
      /\ \A i \in 1 .. m : p[i].tid <= n
      /\ \A i \in 1 .. k : q[i].tid <= n
      /\ \A i \in 1 .. m, j \in 1 .. k : p[i].tid < q[j].tid
  BY <1>1, Zenon DEF Line, Increasing, UpTo, Older
<1>4. \A i \in 1 .. k + 1 : i = k + 1 \/ i \in 1 .. k
  BY <1>1
<1>5. Increasing(p) /\ UpTo(p, n + 1)
  BY <1>1, <1>3 DEF Line, UpTo
<1>6. \A i \in 1 .. k : y[i].tid = q[i].tid /\ y[i].tid < n + 1
  BY <1>1, <1>2, <1>3
<1>7. Increasing(y)
  <2> SUFFICES ASSUME NEW i \in 1 .. k + 1, NEW j \in 1 .. k + 1, i < j PROVE y[i].tid < y[j].tid
    BY <1>2 DEF Increasing
  <2>1. i \in 1 .. k
    BY <1>1
  <2> QED BY <1>2, <1>3, <1>4, <1>6, <2>1
<1>8. UpTo(y, n + 1)
  <2> SUFFICES ASSUME NEW i \in 1 .. k + 1 PROVE y[i].tid <= n + 1
    BY <1>2 DEF UpTo
  <2>1. CASE i = k + 1
    BY <1>2, <2>1
  <2>2. CASE i \in 1 .. k
    BY <1>1, <1>2, <1>3, <2>2
  <2> QED BY <1>4, <2>1, <2>2
<1>9. Older(p, y)
  <2> SUFFICES ASSUME NEW i \in 1 .. m, NEW j \in 1 .. k + 1 PROVE p[i].tid < y[j].tid
    BY <1>1, <1>2 DEF Older
  <2>1. CASE j = k + 1
    BY <1>1, <1>2, <1>3, <2>1
  <2>2. CASE j \in 1 .. k
    BY <1>2, <1>3, <2>2
  <2> QED BY <1>4, <2>1, <2>2
<1> QED BY <1>5, <1>7, <1>8, <1>9 DEF Line

LEMMA LastOfLine ==
    ASSUME NEW S, NEW T, NEW p \in Seq(S), NEW q \in Seq(T), NEW n \in Nat,
           \A x \in S : x.tid \in Nat, \A x \in T : x.tid \in Nat,
           Line(p, q, n), NEW i \in DOMAIN p, p[i].tid = n
    PROVE  q = <<>> /\ \A j \in DOMAIN p : j <= i
<1> PICK m : m = Len(p)
  OBVIOUS
<1> PICK k : k = Len(q)
  OBVIOUS
<1>1. /\ m \in Nat /\ DOMAIN p = 1 .. m /\ k \in Nat /\ DOMAIN q = 1 .. k
      /\ \A j \in 1 .. m : p[j].tid \in Nat
      /\ \A j \in 1 .. k : q[j].tid \in Nat
  BY LenProperties, EmptySeq, ElementOfSeq
<1>2. q = <<>>
  <2> SUFFICES ASSUME q # <<>> PROVE FALSE
    OBVIOUS
  <2>1. 1 \in 1 .. k
    BY <1>1, EmptySeq
  <2>2. p[i].tid < q[1].tid /\ q[1].tid <= n
    BY <1>1, <2>1, Zenon DEF Line, Older, UpTo
  <2> QED BY <1>1, <2>1, <2>2
<1>3. ASSUME NEW j \in DOMAIN p PROVE j <= i
  <2> SUFFICES ASSUME i < j PROVE FALSE
    BY <1>1
  <2>1. p[i].tid < p[j].tid /\ p[j].tid <= n
    BY Zenon DEF Line, Increasing, UpTo
  <2> QED BY <1>1, <2>1
<1> QED BY <1>2, <1>3

-----------------------------------------------------------------------------
UserState ==
    [step : {"write", "store", "verify", "restart", "reset", "done"},
     sends : 0 .. MaxSends, waiting : BOOLEAN]

LEMMA Tids ==
    /\ \A x \in Request : x.tid \in Nat
    /\ \A x \in Response : x.tid \in Nat
BY RegistersAssumption DEF Request, Response, Tid

LEMMA Queues ==
    ASSUME QueueInv, NEW u \in User
    PROVE  /\ requests[u] \in Seq(Request) /\ responses[u] \in Seq(Response)
           /\ user[u].sends \in Nat
           /\ Line(responses[u], requests[u], user[u].sends)
           /\ \A i \in DOMAIN requests[u] : Fits(u, user[u].step, requests[u][i])
<1>1. requests[u] \in Seq(Request) /\ responses[u] \in Seq(Response)
  BY DEF QueueInv, TypeOK
<1>2. user[u].sends \in 0 .. MaxSends
  BY DEF QueueInv, TypeOK
<1> QED BY <1>1, <1>2, RegistersAssumption DEF QueueInv, LineAt, FitsAt

LEMMA FitsCases ==
    ASSUME NEW u, NEW step, NEW q, Fits(u, step, q)
    PROVE  /\ step = "write" => q.op = "access" /\ q.register = RegisterOf[u]
                                  /\ q.tag # "empty" /\ q.value = Wish
           /\ step = "verify" => q.op = "access" /\ q.register = RegisterOf[u] /\ q.tag = "empty"
           /\ step # "write" /\ step # "verify" => q.op = step
BY DEF Fits

LEMMA AskedFits ==
    ASSUME QueueInv, NEW u \in User, requests[u] # <<>>
    PROVE  Asked(u) \in Request /\ Fits(u, user[u].step, Asked(u))
<1> PICK q : q = requests[u]
  OBVIOUS
<1>1. q \in Seq(Request) /\ \A i \in DOMAIN q : Fits(u, user[u].step, q[i])
  BY Queues, Zenon
<1>2. 1 \in DOMAIN q /\ Head(q) = q[1] /\ Head(q) \in Request
  BY <1>1, EmptySeq, LenProperties, HeadTailProperties
<1> QED BY <1>1, <1>2 DEF Asked

(* The node answers the oldest request of a user.                          *)
LEMMA RespondQueues ==
    ASSUME QueueInv, NEW u \in User, requests[u] # <<>>, NEW result \in Value \cup BOOLEAN,
           Respond(u, result), user' = user
    PROVE  /\ requests' \in [User -> Seq(Request)]
           /\ responses' \in [User -> Seq(Response)]
           /\ \A v \in User : LineAt(v)' /\ FitsAt(v)'
           /\ responses'[u] = Append(responses[u], [tid |-> Asked(u).tid, result |-> result])
           /\ \A v \in User : v # u => responses'[v] = responses[v]
<1> PICK p : p = responses[u]
  OBVIOUS
<1> PICK q : q = requests[u]
  OBVIOUS
<1> PICK n : n = user[u].sends
  OBVIOUS
<1> PICK a : a = [tid |-> Asked(u).tid, result |-> result]
  OBVIOUS
<1>1. /\ p \in Seq(Response) /\ q \in Seq(Request) /\ n \in Nat /\ q # <<>>
      /\ Line(p, q, n) /\ \A i \in DOMAIN q : Fits(u, user[u].step, q[i])
  BY Queues
<1>2. a \in Response /\ a.tid = Head(q).tid
  <2>1. Asked(u) \in Request
    BY AskedFits
  <2>2. Asked(u).tid \in Tid
    BY <2>1 DEF Request
  <2> QED BY <2>2 DEF Response, Asked
<1>3. /\ Tail(q) \in Seq(Request) /\ Thinned(Tail(q), q)
      /\ Append(p, a) \in Seq(Response)
  BY <1>1, <1>2, TailIsThinned, AppendProperties
<1>4. Line(Append(p, a), Tail(q), n)
  BY <1>1, <1>2, AnsweredLine, Tids
<1>5. requests \in [User -> Seq(Request)] /\ responses \in [User -> Seq(Response)]
  BY DEF QueueInv, TypeOK
<1>6. requests' = [requests EXCEPT ![u] = Tail(q)] /\ responses' = [responses EXCEPT ![u] = Append(p, a)]
  BY DEF Respond
<1>7. /\ requests'[u] = Tail(q) /\ responses'[u] = Append(p, a)
      /\ \A v \in User : v # u => requests'[v] = requests[v] /\ responses'[v] = responses[v]
  BY <1>5, <1>6
<1>8. requests' \in [User -> Seq(Request)] /\ responses' \in [User -> Seq(Response)]
  BY <1>3, <1>5, <1>6
<1>9. LineAt(u)' /\ FitsAt(u)'
  <2>1. LineAt(u)'
    BY <1>4, <1>7 DEF LineAt
  <2>2. FitsAt(u)'
    BY <1>1, <1>3, <1>7, ZenonT(60) DEF FitsAt, Thinned
  <2> QED BY <2>1, <2>2
<1>10. ASSUME NEW v \in User, v # u PROVE LineAt(v)' /\ FitsAt(v)'
  BY <1>7, <1>10, Zenon DEF QueueInv, LineAt, FitsAt
<1> QED BY <1>7, <1>8, <1>9, <1>10, Zenon

LEMMA AccessIs ==
    ASSUME QueueInv, NEW u \in User, Access(u)
    PROVE  /\ requests[u] # <<>> /\ u \in Client /\ RegisterOf[u] \in Register
           /\ \/ /\ user[u].step = "write"
                 /\ ram' = ram \/ ram' = [ram EXCEPT ![RegisterOf[u]] = Wish]
                 /\ resetLasts' = FALSE /\ UNCHANGED <<verified, booted>>
              \/ /\ user[u].step = "verify"
                 /\ ram' = ram /\ resetLasts' = resetLasts
                 /\ IF ram[RegisterOf[u]] = Wish
                      THEN /\ verified' = [verified EXCEPT ![u] = TRUE]
                           /\ booted' = [booted EXCEPT ![u] = FALSE]
                      ELSE UNCHANGED <<verified, booted>>
           /\ ports_updated' \in BOOLEAN /\ ram' \in [Register -> Value]
           /\ UNCHANGED <<flash, port_id, restart, user, lost, faults>>
           /\ \E x \in Value : Respond(u, x)
<1> PICK q : q = Asked(u)
  OBVIOUS
<1>1. /\ requests[u] # <<>> /\ q.op = "access" /\ writeParam(q) /\ Respond(u, ram'[q.register])
      /\ resetLasts' = (resetLasts /\ q.tag = "empty")
      /\ IF q.tag = "empty" /\ ram[q.register] = Wish
           THEN /\ verified' = [verified EXCEPT ![u] = TRUE]
                /\ booted' = [booted EXCEPT ![u] = FALSE]
           ELSE UNCHANGED <<verified, booted>>
      /\ UNCHANGED <<flash, port_id, restart, user, lost, faults>>
  BY DEF Access
<1>2. q \in Request /\ Fits(u, user[u].step, q)
  BY <1>1, AskedFits
<1>3. u \in Client
  <2> SUFFICES ASSUME u = Operator PROVE FALSE
    BY DEF User
  <2>1. user[u].step = "reset" \/ user[u].step = "done"
    BY DEF QueueInv, StepsInv
  <2> QED BY <1>1, <1>2, <2>1, FitsCases
<1>4. RegisterOf[u] \in Register
  BY <1>3, RegistersAssumption
<1>5. user[u].step = "write" \/ user[u].step = "verify"
  <2>1. user[u].step \in {"write", "store", "verify", "restart", "reset", "done"}
    BY DEF QueueInv, TypeOK
  <2> QED BY <1>1, <1>2, <2>1, FitsCases
<1>6. q.register = RegisterOf[u] /\ (user[u].step = "write" => q.tag # "empty" /\ q.value = Wish)
      /\ (user[u].step = "verify" => q.tag = "empty")
  BY <1>2, <1>5, FitsCases
<1>7. Wish \in Value /\ ram \in [Register -> Value] /\ ports_updated \in BOOLEAN
  BY DEF Value, QueueInv, TypeOK
<1>8. \/ /\ q.tag # "empty" /\ ram' \in {ram, [ram EXCEPT ![q.register] = q.value]}
         /\ ports_updated' = (ports_updated \/ q.tag = "natural16")
      \/ UNCHANGED <<ram, ports_updated>>
  BY <1>1 DEF writeParam
<1>9. q.tag = "empty" => ram' = ram
  BY <1>8
<1>10. ports_updated' \in BOOLEAN
  BY <1>7, <1>8
<1>11. user[u].step = "write" => ram' = ram \/ ram' = [ram EXCEPT ![RegisterOf[u]] = Wish]
  BY <1>6, <1>8
<1>12. ram' \in [Register -> Value]
  <2>1. CASE user[u].step = "write"
    BY <1>4, <1>7, <1>11, <2>1
  <2>2. CASE user[u].step = "verify"
    BY <1>6, <1>7, <1>9, <2>2
  <2> QED BY <1>5, <2>1, <2>2
<1>13. ram'[q.register] \in Value
  BY <1>4, <1>6, <1>12
<1>14. \E x \in Value : Respond(u, x)
  BY <1>1, <1>13
<1>15. CASE user[u].step = "write"
  BY <1>1, <1>3, <1>4, <1>6, <1>10, <1>11, <1>12, <1>14, <1>15
<1>16. CASE user[u].step = "verify"
  <2>1. q.tag = "empty" /\ ram' = ram
    BY <1>6, <1>9, <1>16
  <2>2. resetLasts' = resetLasts
    <3>1. resetLasts \in BOOLEAN
      BY DEF QueueInv, TypeOK
    <3>2. resetLasts' = (resetLasts /\ q.tag = "empty")
      BY <1>1
    <3> QED BY <2>1, <3>1, <3>2
  <2>3. IF ram[RegisterOf[u]] = Wish
          THEN verified' = [verified EXCEPT ![u] = TRUE] /\ booted' = [booted EXCEPT ![u] = FALSE]
          ELSE UNCHANGED <<verified, booted>>
    BY <1>1, <1>6, <2>1, Zenon
  <2>4. requests[u] # <<>> /\ UNCHANGED <<flash, port_id, restart, user, lost, faults>>
    BY <1>1
  <2>5. /\ user[u].step = "verify"
        /\ ram' = ram /\ resetLasts' = resetLasts
        /\ IF ram[RegisterOf[u]] = Wish
             THEN /\ verified' = [verified EXCEPT ![u] = TRUE]
                  /\ booted' = [booted EXCEPT ![u] = FALSE]
             ELSE UNCHANGED <<verified, booted>>
    BY <1>16, <2>1, <2>2, <2>3, Zenon
  <2> QED BY <1>3, <1>4, <1>10, <1>12, <1>14, <2>4, <2>5, Zenon
<1> QED BY <1>5, <1>15, <1>16

(* The commands of a client leave the volatile copy alone.                 *)
LEMMA CommandIs ==
    ASSUME QueueInv, NEW u \in User, ExecuteCommand(u)
    PROVE  /\ requests[u] # <<>>
           /\ UNCHANGED <<port_id, ports_updated, user, lost, booted>>
           /\ \E ok \in BOOLEAN :
                 /\ Respond(u, ok)
                 /\ \/ /\ user[u].step = "store" /\ UNCHANGED <<ram, restart, history>>
                       /\ flash' = (IF ok THEN ram ELSE flash)
                    \/ /\ u = Operator /\ user[u].step = "reset" /\ UNCHANGED restart
                       /\ ram' = [r \in Register |-> Default]
                       /\ flash' = (IF ok THEN ram' ELSE flash)
                       /\ verified' = [c \in Client |-> FALSE] /\ resetLasts' = TRUE
                    \/ /\ user[u].step = "restart" /\ UNCHANGED <<ram, flash, history>>
                       /\ restart' \in BOOLEAN
           /\ faults' \in 0 .. MaxFaults
<1> PICK q : q = Asked(u)
  OBVIOUS
<1>1. /\ requests[u] # <<>> /\ UNCHANGED <<port_id, ports_updated, user, lost>>
      /\ \/ q.op = "store" /\ StorePersistentStates(u)
         \/ q.op = "reset" /\ FactoryReset(u)
         \/ q.op = "restart" /\ RequestRestart(u)
  BY DEF ExecuteCommand
<1>2. q \in Request /\ Fits(u, user[u].step, q)
  BY <1>1, AskedFits
<1>3. faults \in 0 .. MaxFaults /\ MaxFaults \in Nat /\ restart \in BOOLEAN
  BY RegistersAssumption DEF QueueInv, TypeOK
<1>4. faults < MaxFaults => faults + 1 \in 0 .. MaxFaults
  BY <1>3
<1>5. ASSUME q.op # "access" PROVE user[u].step = q.op
  BY <1>2, <1>5, FitsCases
<1>6. ASSUME NEW data, NEW ok \in BOOLEAN, paramsSave(data, ok)
      PROVE  flash' = (IF ok THEN data ELSE flash) /\ faults' \in 0 .. MaxFaults
  BY <1>3, <1>4, <1>6 DEF paramsSave
<1>7. CASE q.op = "store" /\ StorePersistentStates(u)
  <2>1. PICK ok \in BOOLEAN : paramsSave(ram, ok) /\ Respond(u, ok)
    BY <1>7, Zenon DEF StorePersistentStates
  <2>2. UNCHANGED <<ram, restart, history>> /\ user[u].step = "store"
    BY <1>5, <1>7 DEF StorePersistentStates
  <2>3. UNCHANGED booted
    BY <2>2 DEF history
  <2> QED BY <1>1, <1>6, <2>1, <2>2, <2>3, Zenon
<1>8. CASE q.op = "reset" /\ FactoryReset(u)
  <2>1. PICK ok \in BOOLEAN : paramsSave(ram', ok) /\ Respond(u, ok)
    BY <1>8, Zenon DEF FactoryReset
  <2>2. /\ ram' = [r \in Register |-> Default] /\ verified' = [c \in Client |-> FALSE]
        /\ resetLasts' = TRUE /\ UNCHANGED <<restart, booted>> /\ user[u].step = "reset"
    BY <1>5, <1>8 DEF FactoryReset
  <2>3. u = Operator
    BY <2>2 DEF QueueInv, StepsInv, User
  <2> QED BY <1>1, <1>6, <2>1, <2>2, <2>3, Zenon
<1>9. CASE q.op = "restart" /\ RequestRestart(u)
  <2>1. PICK ok \in BOOLEAN : Respond(u, ok) /\ restart' = (restart \/ ok)
    BY <1>9, Zenon DEF RequestRestart
  <2>2. UNCHANGED <<ram, flash, faults, history>> /\ user[u].step = "restart"
    BY <1>5, <1>9 DEF RequestRestart
  <2>3. restart' \in BOOLEAN
    BY <1>3, <2>1
  <2>4. UNCHANGED booted /\ faults' \in 0 .. MaxFaults
    BY <1>3, <2>2 DEF history
  <2> QED BY <1>1, <2>1, <2>2, <2>3, <2>4, Zenon
<1> QED BY <1>1, <1>7, <1>8, <1>9

LEMMA AccessQueues ==
    ASSUME QueueInv, NEW u \in User, Access(u)
    PROVE  QueueInv'
<1>1. PICK x \in Value : Respond(u, x)
  BY AccessIs
<1>2. /\ requests[u] # <<>> /\ u \in Client /\ UNCHANGED <<flash, port_id, restart, user, lost, faults>>
      /\ ports_updated' \in BOOLEAN /\ ram' \in [Register -> Value]
  BY AccessIs, Zenon
<1>3. x \in Value \cup BOOLEAN
  OBVIOUS
<1>4. /\ requests' \in [User -> Seq(Request)] /\ responses' \in [User -> Seq(Response)]
      /\ \A v \in User : LineAt(v)' /\ FitsAt(v)'
  BY <1>1, <1>2, <1>3, RespondQueues, Zenon
<1>5. /\ verified' = verified \/ verified' = [verified EXCEPT ![u] = TRUE]
      /\ booted' = booted \/ booted' = [booted EXCEPT ![u] = FALSE]
      /\ resetLasts' = FALSE \/ resetLasts' = resetLasts
  BY AccessIs, Zenon
<1>6. verified' \in [Client -> BOOLEAN] /\ booted' \in [Client -> BOOLEAN] /\ resetLasts' \in BOOLEAN
  BY <1>2, <1>5 DEF QueueInv, TypeOK
<1>7. TypeOK'
  BY <1>2, <1>4, <1>6 DEF QueueInv, TypeOK
<1>8. StepsInv'
  BY <1>2 DEF QueueInv, StepsInv
<1> QED BY <1>4, <1>7, <1>8 DEF QueueInv

LEMMA CommandQueues ==
    ASSUME QueueInv, NEW u \in User, ExecuteCommand(u)
    PROVE  QueueInv'
<1>1. PICK ok \in BOOLEAN :
                 /\ Respond(u, ok)
                 /\ \/ /\ user[u].step = "store" /\ UNCHANGED <<ram, restart, history>>
                       /\ flash' = (IF ok THEN ram ELSE flash)
                    \/ /\ u = Operator /\ user[u].step = "reset" /\ UNCHANGED restart
                       /\ ram' = [r \in Register |-> Default]
                       /\ flash' = (IF ok THEN ram' ELSE flash)
                       /\ verified' = [c \in Client |-> FALSE] /\ resetLasts' = TRUE
                    \/ /\ user[u].step = "restart" /\ UNCHANGED <<ram, flash, history>>
                       /\ restart' \in BOOLEAN
  BY CommandIs
<1>2. /\ requests[u] # <<>> /\ UNCHANGED <<port_id, ports_updated, user, lost, booted>>
      /\ faults' \in 0 .. MaxFaults
  BY CommandIs
<1>3. ok \in Value \cup BOOLEAN
  OBVIOUS
<1>4. /\ requests' \in [User -> Seq(Request)] /\ responses' \in [User -> Seq(Response)]
      /\ \A v \in User : LineAt(v)' /\ FitsAt(v)'
  BY <1>1, <1>2, <1>3, RespondQueues, Zenon
<1>5. ram' \in [Register -> Value] /\ flash' \in [Register -> Value] /\ restart' \in BOOLEAN
  <2>1. /\ ram \in [Register -> Value] /\ flash \in [Register -> Value] /\ restart \in BOOLEAN
        /\ [r \in Register |-> Default] \in [Register -> Value]
    BY DEF QueueInv, TypeOK, Value
  <2> QED BY <1>1, <2>1
<1>6. verified' \in [Client -> BOOLEAN] /\ resetLasts' \in BOOLEAN
  BY <1>1 DEF QueueInv, TypeOK, history
<1>7. TypeOK'
  BY <1>2, <1>4, <1>5, <1>6 DEF QueueInv, TypeOK
<1>8. StepsInv'
  BY <1>2 DEF QueueInv, StepsInv
<1> QED BY <1>4, <1>7, <1>8 DEF QueueInv

LEMMA BesideQueues ==
    ASSUME QueueInv, UNCHANGED <<requests, responses, user>>, TypeOK'
    PROVE  QueueInv'
BY DEF QueueInv, StepsInv, LineAt, FitsAt

LEMMA LostQueues ==
    ASSUME QueueInv, NEW u \in User, LoseRequest(u) \/ LoseResponse(u)
    PROVE  QueueInv'
<1>0. /\ requests \in [User -> Seq(Request)] /\ responses \in [User -> Seq(Response)]
      /\ lost \in 0 .. MaxLost /\ MaxLost \in Nat
  BY RegistersAssumption DEF QueueInv, TypeOK
<1>1. /\ lost < MaxLost /\ lost' = lost + 1
      /\ UNCHANGED <<ram, flash, port_id, ports_updated, restart, user, verified, booted, resetLasts, faults>>
  BY DEF LoseRequest, LoseResponse, node, history
<1>2. lost' \in 0 .. MaxLost
  BY <1>0, <1>1
<1> PICK p : p = responses[u]
  OBVIOUS
<1> PICK q : q = requests[u]
  OBVIOUS
<1>3. /\ p \in Seq(Response) /\ q \in Seq(Request) /\ Line(p, q, user[u].sends)
      /\ \A i \in DOMAIN q : Fits(u, user[u].step, q[i])
  BY Queues
<1>4. PICK x, y : /\ x \in Seq(Response) /\ y \in Seq(Request) /\ Thinned(x, p) /\ Thinned(y, q)
                  /\ responses' = [responses EXCEPT ![u] = x] /\ requests' = [requests EXCEPT ![u] = y]
  <2>1. CASE LoseRequest(u)
    <3>1. PICK i \in DOMAIN q : requests' = [requests EXCEPT ![u] = RemoveAt(q, i)]
      BY <2>1, Zenon DEF LoseRequest
    <3>2. responses' = [responses EXCEPT ![u] = p]
      BY <1>0, <2>1 DEF LoseRequest
    <3>3. RemoveAt(q, i) \in Seq(Request) /\ Thinned(RemoveAt(q, i), q)
      BY <1>3, RemoveIsThinned
    <3>4. Thinned(p, p)
      BY <1>3, ThinnedSelf
    <3> QED BY <1>3, <3>1, <3>2, <3>3, <3>4
  <2>2. CASE LoseResponse(u)
    <3>1. PICK i \in DOMAIN p : responses' = [responses EXCEPT ![u] = RemoveAt(p, i)]
      BY <2>2, Zenon DEF LoseResponse
    <3>2. requests' = [requests EXCEPT ![u] = q]
      BY <1>0, <2>2 DEF LoseResponse
    <3>3. RemoveAt(p, i) \in Seq(Response) /\ Thinned(RemoveAt(p, i), p)
      BY <1>3, RemoveIsThinned
    <3>4. Thinned(q, q)
      BY <1>3, ThinnedSelf
    <3> QED BY <1>3, <3>1, <3>2, <3>3, <3>4
  <2> QED BY <2>1, <2>2
<1>5. requests' \in [User -> Seq(Request)] /\ responses' \in [User -> Seq(Response)]
  BY <1>0, <1>4
<1>6. /\ requests'[u] = y /\ responses'[u] = x
      /\ \A v \in User : v # u => requests'[v] = requests[v] /\ responses'[v] = responses[v]
  BY <1>0, <1>4
<1>7. LineAt(u)' /\ FitsAt(u)'
  <2>1. Line(x, y, user[u].sends)
    BY <1>3, <1>4, ThinnedLine
  <2>2. LineAt(u)'
    BY <1>1, <1>6, <2>1 DEF LineAt
  <2>3. FitsAt(u)'
    <3>1. \A i \in DOMAIN y : \E j \in DOMAIN q : y[i] = q[j]
      BY <1>4, Zenon DEF Thinned
    <3>2. \A i \in DOMAIN y : Fits(u, user[u].step, y[i])
      BY <1>3, <3>1, Zenon
    <3> QED BY <1>1, <1>6, <3>2 DEF FitsAt
  <2> QED BY <2>2, <2>3
<1>8. ASSUME NEW v \in User, v # u PROVE LineAt(v)' /\ FitsAt(v)'
  BY <1>1, <1>6, <1>8, Zenon DEF QueueInv, LineAt, FitsAt
<1>9. TypeOK'
  BY <1>1, <1>2, <1>5 DEF QueueInv, TypeOK
<1>10. StepsInv'
  BY <1>1 DEF QueueInv, StepsInv
<1>11. \A v \in User : LineAt(v)' /\ FitsAt(v)'
  BY <1>7, <1>8
<1> QED BY <1>9, <1>10, <1>11 DEF QueueInv

LEMMA UserTypes ==
    ASSUME QueueInv, NEW u \in User
    PROVE  /\ user \in [User -> UserState] /\ user[u] \in UserState
           /\ user[u] = [step |-> user[u].step, sends |-> user[u].sends, waiting |-> user[u].waiting]
<1>1. user \in [User -> UserState]
  BY DEF QueueInv, TypeOK, UserState
<1>2. user[u] \in UserState
  BY <1>1
<1> QED BY <1>1, <1>2 DEF UserState

LEMMA SentRequest ==
    ASSUME QueueInv, NEW u \in User, user[u].step # "done", user[u].sends < MaxSends, NEW q \in RequestOf(u)
    PROVE  q \in Request /\ q.tid = user[u].sends + 1 /\ Fits(u, user[u].step, q)
<1> PICK s : s = user[u]
  OBVIOUS
<1> PICK tid : tid = user[u].sends + 1
  OBVIOUS
<1> DEFINE access(tag) == [op |-> "access", register |-> RegisterOf[u], tag |-> tag, value |-> Wish, tid |-> tid]
<1>1. /\ s.step \in {"write", "store", "verify", "restart", "reset", "done"}
      /\ s.sends \in 0 .. MaxSends
      /\ (s.step = "write" \/ s.step = "verify") => u \in Client
  <2>1. s \in UserState
    BY UserTypes
  <2> QED BY <2>1 DEF UserState, QueueInv, StepsInv, User
<1>2. tid \in Tid
  BY <1>1, RegistersAssumption DEF Tid
<1>3. /\ s.step = "write" => RequestOf(u) = {access(tag) : tag \in {"natural16", "natural8", "string"}}
      /\ s.step = "verify" => RequestOf(u) = {access("empty")}
      /\ s.step # "write" /\ s.step # "verify" => RequestOf(u) = {[op |-> s.step, tid |-> tid]}
  BY DEF RequestOf
<1>4. ASSUME NEW tag \in {"empty", "natural16", "natural8", "string"}, u \in Client
      PROVE  /\ access(tag) \in Request /\ access(tag).tid = tid /\ access(tag).op = "access"
             /\ access(tag).register = RegisterOf[u] /\ access(tag).tag = tag /\ access(tag).value = Wish
  <2>1. RegisterOf[u] \in Register /\ Wish \in Value
    BY <1>4, RegistersAssumption DEF Value
  <2>2. access(tag) \in Request
    BY <1>2, <2>1 DEF Request
  <2> QED BY <2>2
<1>5. CASE s.step = "write"
  <2>1. PICK tag \in {"natural16", "natural8", "string"} : q = access(tag)
    BY <1>3, <1>5
  <2>2. tag \in {"empty", "natural16", "natural8", "string"} /\ tag # "empty"
    OBVIOUS
  <2> HIDE DEF access
  <2> QED BY <1>1, <1>4, <1>5, <2>1, <2>2 DEF Fits
<1>6. CASE s.step = "verify"
  <2>1. q = access("empty")
    BY <1>3, <1>6
  <2>2. "empty" \in {"empty", "natural16", "natural8", "string"}
    OBVIOUS
  <2> HIDE DEF access
  <2> QED BY <1>1, <1>4, <1>6, <2>1, <2>2 DEF Fits
<1>7. CASE s.step # "write" /\ s.step # "verify"
  <2>1. q = [op |-> s.step, tid |-> tid]
    BY <1>3, <1>7
  <2>2. s.step \in {"store", "reset", "restart"}
    BY <1>1, <1>7
  <2>3. q \in Request
    BY <1>2, <2>1, <2>2 DEF Request
  <2>4. q.op = s.step /\ q.tid = tid
    BY <2>1
  <2> QED BY <1>7, <2>3, <2>4 DEF Fits
<1> QED BY <1>5, <1>6, <1>7

LEMMA SendIs ==
    ASSUME QueueInv, NEW u \in User, Send(u)
    PROVE  /\ user[u].step # "done" /\ user[u].sends < MaxSends
           /\ user' \in [User -> UserState]
           /\ user'[u].step = user[u].step /\ user'[u].sends = user[u].sends + 1
           /\ \A v \in User : v # u => user'[v] = user[v]
           /\ UNCHANGED <<ram, flash, port_id, ports_updated, restart, responses,
                          verified, booted, resetLasts, lost, faults>>
<1>1. /\ user[u].step # "done" /\ user[u].sends < MaxSends
      /\ user' = [user EXCEPT ![u].sends = @ + 1, ![u].waiting = TRUE]
      /\ UNCHANGED <<ram, flash, port_id, ports_updated, restart, responses,
                     verified, booted, resetLasts, lost, faults>>
  BY DEF Send, node, history
<1> PICK s : s = user[u]
  OBVIOUS
<1>2. user \in [User -> UserState] /\ s \in UserState
  BY UserTypes
<1>3. s.step \in {"write", "store", "verify", "restart", "reset", "done"} /\ s.sends \in 0 .. MaxSends
  BY <1>2 DEF UserState
<1>4. s.sends + 1 \in 0 .. MaxSends
  BY <1>1, <1>3, RegistersAssumption
<1> PICK x : x = [step |-> s.step, sends |-> s.sends + 1, waiting |-> TRUE]
  OBVIOUS
<1>5. x \in UserState /\ x.step = s.step /\ x.sends = s.sends + 1
  BY <1>3, <1>4 DEF UserState
<1>6. user'[u] = x /\ \A v \in User : v # u => user'[v] = user[v]
  BY <1>1, <1>2 DEF UserState
<1>7. user' \in [User -> UserState]
  <2>1. DOMAIN user' = User /\ user' = [v \in User |-> user'[v]]
    BY <1>1, <1>2
  <2>2. \A v \in User : user'[v] \in UserState
    BY <1>2, <1>5, <1>6
  <2> QED BY <2>1, <2>2
<1> QED BY <1>1, <1>5, <1>6, <1>7

LEMMA SendQueues ==
    ASSUME QueueInv, NEW u \in User, Send(u)
    PROVE  QueueInv'
<1> PICK p : p = responses[u]
  OBVIOUS
<1> PICK q : q = requests[u]
  OBVIOUS
<1> PICK n : n = user[u].sends
  OBVIOUS
<1>1. /\ user[u].step # "done" /\ n < MaxSends
      /\ user' \in [User -> UserState]
      /\ user'[u].step = user[u].step /\ user'[u].sends = n + 1
      /\ \A v \in User : v # u => user'[v] = user[v]
      /\ UNCHANGED <<ram, flash, port_id, ports_updated, restart, responses,
                     verified, booted, resetLasts, lost, faults>>
  BY SendIs
<1>2. /\ p \in Seq(Response) /\ q \in Seq(Request) /\ n \in Nat /\ Line(p, q, n)
      /\ \A i \in DOMAIN q : Fits(u, user[u].step, q[i])
  BY Queues
<1>3. PICK a \in RequestOf(u) : requests' = [requests EXCEPT ![u] = Append(q, a)]
  BY Zenon DEF Send
<1>4. a \in Request /\ a.tid = n + 1 /\ Fits(u, user[u].step, a)
  BY <1>1, <1>3, SentRequest
<1> PICK y : y = Append(q, a)
  OBVIOUS
<1>5. /\ y \in Seq(Request) /\ Len(y) = Len(q) + 1 /\ Len(q) \in Nat /\ y[Len(q) + 1] = a
      /\ \A i \in 1 .. Len(q) : y[i] = q[i]
      /\ DOMAIN y = 1 .. Len(q) + 1 /\ DOMAIN q = 1 .. Len(q)
  BY <1>2, <1>4, AppendProperties, LenProperties
<1>6. requests \in [User -> Seq(Request)]
  BY DEF QueueInv, TypeOK
<1>7. /\ requests' \in [User -> Seq(Request)] /\ requests'[u] = y
      /\ \A v \in User : v # u => requests'[v] = requests[v]
  BY <1>3, <1>5, <1>6
<1>8. LineAt(u)' /\ FitsAt(u)'
  <2>1. Line(p, y, n + 1)
    BY <1>2, <1>4, SentLine, Tids
  <2>2. LineAt(u)'
    BY <1>1, <1>7, <2>1 DEF LineAt
  <2>3. \A i \in DOMAIN y : Fits(u, user[u].step, y[i])
    <3>1. \A i \in DOMAIN y : i \in DOMAIN q \/ i = Len(q) + 1
      BY <1>5
    <3> QED BY <1>2, <1>4, <1>5, <3>1, Zenon
  <2>4. FitsAt(u)'
    BY <1>1, <1>7, <2>3 DEF FitsAt
  <2> QED BY <2>2, <2>4
<1>9. ASSUME NEW v \in User, v # u PROVE LineAt(v)' /\ FitsAt(v)'
  BY <1>1, <1>7, <1>9, Zenon DEF QueueInv, LineAt, FitsAt
<1>10. TypeOK'
  BY <1>1, <1>7 DEF QueueInv, TypeOK, UserState
<1>11. StepsInv'
  <2>1. \A v \in User : user'[v].step = user[v].step
    BY <1>1
  <2> QED BY <2>1 DEF QueueInv, StepsInv, User
<1>12. \A v \in User : LineAt(v)' /\ FitsAt(v)'
  BY <1>8, <1>9
<1> QED BY <1>10, <1>11, <1>12 DEF QueueInv

LEMMA StepAfterCases ==
    ASSUME NEW step, NEW result
    PROVE  /\ step = "write" => StepAfter(step, result) \in {"store", "write"}
           /\ step = "store" => StepAfter(step, result) = IF result = TRUE THEN "verify" ELSE "store"
           /\ step = "verify" => StepAfter(step, result) = IF result = Wish THEN "restart" ELSE "write"
           /\ step = "restart" => StepAfter(step, result) \in {"restart", "done"}
           /\ step = "reset" => StepAfter(step, result) = IF result = TRUE THEN "done" ELSE "reset"
           /\ step = "done" => StepAfter(step, result) = "done"
BY DEF StepAfter

LEMMA StepsAfter ==
    ASSUME NEW step, NEW result
    PROVE  /\ step = "write" => StepAfter(step, result) \in {"store", "write"}
           /\ step = "store" => StepAfter(step, result) \in {"verify", "store"}
           /\ step = "verify" => StepAfter(step, result) \in {"restart", "write"}
           /\ step = "restart" => StepAfter(step, result) \in {"restart", "done"}
           /\ step = "reset" => StepAfter(step, result) \in {"done", "reset"}
           /\ step = "done" => StepAfter(step, result) = "done"
BY StepAfterCases, Zenon

LEMMA TailOfOne ==
    ASSUME NEW S, NEW p \in Seq(S), p # <<>>, \A j \in DOMAIN p : j <= 1
    PROVE  Tail(p) = <<>>
<1> PICK m : m = Len(p)
  OBVIOUS
<1>1. m \in Nat /\ m > 0 /\ DOMAIN p = 1 .. m
  BY EmptySeq, LenProperties
<1>2. m \in 1 .. m
  BY <1>1
<1>3. m <= 1
  BY <1>1, <1>2
<1>4. m = 1
  BY <1>1, <1>3
<1>5. Tail(p) \in Seq(S) /\ Len(Tail(p)) = 0
  <2> PICK y : y = Tail(p)
    OBVIOUS
  <2>1. y \in Seq(S) /\ Len(y) = m - 1
    BY TailIsThinned
  <2>2. m - 1 = 0
    BY <1>4
  <2> QED BY <2>1, <2>2
<1> QED BY <1>5, EmptySeq

(* Only the answer to the last request moves a user on, and when it does   *)
(* nothing is on its way any more.                                         *)
LEMMA AnsweredIs ==
    ASSUME QueueInv, NEW u \in User, Answered(u)
    PROVE  /\ responses[u] # <<>>
           /\ responses' = [responses EXCEPT ![u] = Tail(@)]
           /\ user' \in [User -> UserState]
           /\ \A v \in User : v # u => user'[v] = user[v]
           /\ user'[u].sends = user[u].sends
           /\ \/ user'[u].step = user[u].step
              \/ /\ requests[u] = <<>> /\ Tail(responses[u]) = <<>>
                 /\ Head(responses[u]).tid = user[u].sends
                 /\ user'[u].step = StepAfter(user[u].step, Head(responses[u]).result)
           /\ UNCHANGED <<ram, flash, port_id, ports_updated, restart, requests,
                          verified, booted, resetLasts, lost, faults>>
<1> PICK p : p = responses[u]
  OBVIOUS
<1> PICK a : a = Head(responses[u])
  OBVIOUS
<1> PICK s : s = user[u]
  OBVIOUS
<1>1. /\ p # <<>> /\ user' = [user EXCEPT ![u] = Answer(s, a)]
      /\ responses' = [responses EXCEPT ![u] = Tail(@)]
      /\ UNCHANGED <<ram, flash, port_id, ports_updated, restart, requests,
                     verified, booted, resetLasts, lost, faults>>
  BY DEF Answered, node, history
<1>2. user \in [User -> UserState] /\ s \in UserState
      /\ s = [step |-> s.step, sends |-> s.sends, waiting |-> s.waiting]
  BY UserTypes
<1>3. s.step \in {"write", "store", "verify", "restart", "reset", "done"} /\ s.sends \in 0 .. MaxSends
  BY <1>2 DEF UserState
<1> PICK next : next = StepAfter(s.step, a.result)
  OBVIOUS
<1>4. next \in {"write", "store", "verify", "restart", "reset", "done"}
  BY <1>3, StepsAfter
<1> PICK x1 : x1 = [s EXCEPT !.step = next]
  BY Zenon
<1>5. x1 = [step |-> next, sends |-> s.sends, waiting |-> s.waiting]
  BY <1>2
<1> PICK x2 : x2 = [x1 EXCEPT !.waiting = FALSE]
  BY Zenon
<1>6. x2 = [step |-> next, sends |-> s.sends, waiting |-> FALSE]
  BY <1>5
<1>7. x2 \in UserState /\ x2.step = next /\ x2.sends = s.sends
  BY <1>3, <1>4, <1>6 DEF UserState
<1>8. Answer(s, a) = IF s.waiting /\ a.tid = s.sends THEN x2 ELSE s
  BY Zenon DEF Answer
<1>9. Answer(s, a) \in UserState
  BY <1>2, <1>7, <1>8
<1>10. /\ user' \in [User -> UserState] /\ user'[u] = Answer(s, a)
       /\ \A v \in User : v # u => user'[v] = user[v]
  BY <1>1, <1>2, <1>9
<1>11. user'[u].sends = s.sends
  BY <1>7, <1>8, <1>10
<1>12. CASE s.waiting /\ a.tid = s.sends
  <2>1. /\ p \in Seq(Response) /\ requests[u] \in Seq(Request) /\ s.sends \in Nat
        /\ Line(p, requests[u], s.sends)
    BY Queues
  <2>2. 1 \in DOMAIN p /\ p[1].tid = s.sends /\ DOMAIN p = 1 .. Len(p) /\ Len(p) \in Nat
    BY <1>1, <1>12, <2>1, EmptySeq, LenProperties
  <2>3. requests[u] = <<>> /\ \A j \in DOMAIN p : j <= 1
    BY <2>1, <2>2, LastOfLine, Tids
  <2>6. Tail(p) = <<>>
    BY <1>1, <2>1, <2>3, TailOfOne
  <2>7. user'[u].step = next
    BY <1>7, <1>8, <1>10, <1>12
  <2> QED BY <1>1, <1>10, <1>11, <1>12, <2>3, <2>6, <2>7
<1>13. CASE ~(s.waiting /\ a.tid = s.sends)
  <2>1. user'[u].step = s.step
    BY <1>8, <1>10, <1>13
  <2> QED BY <1>1, <1>10, <1>11, <2>1
<1> QED BY <1>12, <1>13

LEMMA AnsweredQueues ==
    ASSUME QueueInv, NEW u \in User, Answered(u)
    PROVE  QueueInv'
<1> PICK p : p = responses[u]
  OBVIOUS
<1> PICK q : q = requests[u]
  OBVIOUS
<1>1. /\ p # <<>> /\ responses' = [responses EXCEPT ![u] = Tail(p)]
      /\ user' \in [User -> UserState]
      /\ \A v \in User : v # u => user'[v] = user[v]
      /\ user'[u].sends = user[u].sends
      /\ \/ user'[u].step = user[u].step
         \/ /\ q = <<>>
            /\ user'[u].step = StepAfter(user[u].step, Head(p).result)
      /\ UNCHANGED <<ram, flash, port_id, ports_updated, restart, requests,
                     verified, booted, resetLasts, lost, faults>>
  BY AnsweredIs
<1>2. /\ p \in Seq(Response) /\ q \in Seq(Request) /\ Line(p, q, user[u].sends)
      /\ \A i \in DOMAIN q : Fits(u, user[u].step, q[i])
  BY Queues
<1>3. Tail(p) \in Seq(Response) /\ Thinned(Tail(p), p)
  BY <1>1, <1>2, TailIsThinned
<1>4. responses \in [User -> Seq(Response)]
  BY DEF QueueInv, TypeOK
<1>5. /\ responses' \in [User -> Seq(Response)] /\ responses'[u] = Tail(p)
      /\ \A v \in User : v # u => responses'[v] = responses[v]
  BY <1>1, <1>3, <1>4
<1>6. LineAt(u)'
  <2>1. Thinned(q, q)
    BY <1>2, ThinnedSelf
  <2>2. Line(Tail(p), q, user[u].sends)
    BY <1>2, <1>3, <2>1, ThinnedLine
  <2> QED BY <1>1, <1>5, <2>2 DEF LineAt
<1>7. FitsAt(u)'
  <2>1. CASE user'[u].step = user[u].step
    BY <1>1, <1>2, <2>1 DEF FitsAt
  <2>2. CASE q = <<>>
    BY <1>1, <2>2 DEF FitsAt
  <2> QED BY <1>1, <2>1, <2>2
<1>8. ASSUME NEW v \in User, v # u PROVE LineAt(v)' /\ FitsAt(v)'
  BY <1>1, <1>5, <1>8, Zenon DEF QueueInv, LineAt, FitsAt
<1>9. TypeOK'
  BY <1>1, <1>5 DEF QueueInv, TypeOK, UserState
<1>10. StepsInv'
  <2>1. user[u].step \in {"write", "store", "verify", "restart", "reset", "done"}
    BY UserTypes DEF UserState
  <2>2. /\ user[u].step \in {"reset", "done"} => user'[u].step \in {"reset", "done"}
        /\ user[u].step # "reset" => user'[u].step # "reset"
    BY <1>1, <2>1, StepsAfter
  <2>3. user'[Operator].step \in {"reset", "done"}
    BY <1>1, <2>2 DEF QueueInv, StepsInv, User
  <2>4. ASSUME NEW c \in Client PROVE user'[c].step # "reset"
    BY <1>1, <2>2 DEF QueueInv, StepsInv, User
  <2> QED BY <2>3, <2>4 DEF StepsInv
<1>11. \A v \in User : LineAt(v)' /\ FitsAt(v)'
  BY <1>6, <1>7, <1>8
<1> QED BY <1>9, <1>10, <1>11 DEF QueueInv

LEMMA BootIs ==
    ASSUME Restart \/ PowerLoss
    PROVE  /\ ram' = flash /\ port_id' = flash /\ ports_updated' = FALSE /\ restart' = FALSE
           /\ booted' = [c \in Client |-> verified[c]]
           /\ UNCHANGED <<flash, requests, responses, user, verified, resetLasts, lost>>
           /\ faults' = faults \/ (faults < MaxFaults /\ faults' = faults + 1)
BY DEF Restart, PowerLoss, Boot

LEMMA NextQueues == QueueInv /\ [Next]_vars => QueueInv'
<1> SUFFICES ASSUME QueueInv, [Next]_vars PROVE QueueInv'
  OBVIOUS
<1>1. CASE UNCHANGED vars
  <2>1. TypeOK'
    BY <1>1 DEF QueueInv, TypeOK, vars, node, history
  <2> QED BY <1>1, <2>1, BesideQueues DEF vars
<1>2. CASE PublishPortList
  <2>1. TypeOK'
    BY <1>2 DEF PublishPortList, QueueInv, TypeOK, history
  <2> QED BY <1>2, <2>1, BesideQueues DEF PublishPortList
<1>3. CASE Restart \/ PowerLoss
  <2>1. /\ ram' = flash /\ port_id' = flash /\ ports_updated' = FALSE /\ restart' = FALSE
        /\ booted' = [c \in Client |-> verified[c]]
        /\ UNCHANGED <<flash, requests, responses, user, verified, resetLasts, lost>>
        /\ faults' = faults \/ (faults < MaxFaults /\ faults' = faults + 1)
    BY <1>3, BootIs
  <2>2. faults' \in 0 .. MaxFaults
    BY <2>1, RegistersAssumption DEF QueueInv, TypeOK
  <2>3. booted' \in [Client -> BOOLEAN]
    BY <2>1 DEF QueueInv, TypeOK
  <2>4. TypeOK'
    BY <2>1, <2>2, <2>3 DEF QueueInv, TypeOK
  <2> QED BY <2>1, <2>4, BesideQueues
<1> QED BY <1>1, <1>2, <1>3, AccessQueues, CommandQueues, LostQueues, SendQueues, AnsweredQueues DEF Next

-----------------------------------------------------------------------------
(* The storage.                                                            *)

LEMMA StorageKept ==
    ASSUME StorageInv, UNCHANGED <<ram, flash, port_id, verified, booted, resetLasts>>,
           \A v \in User : user'[v].step = user[v].step /\ (Confirmed(v)' => Confirmed(v))
    PROVE  StorageInv'
<1>1. Operator \in User /\ \A c \in Client : c \in User
  BY DEF User
<1>2. ResetInv'
  BY <1>1, Zenon DEF StorageInv, ResetInv
<1>3. ASSUME NEW c \in Client PROVE StoredAt(c)' /\ VerifiedAt(c)'
  BY <1>1, Zenon DEF StorageInv, StoredAt, VerifiedAt
<1> QED BY <1>2, <1>3 DEF StorageInv

LEMMA SameConfirmed ==
    ASSUME NEW v, responses'[v] = responses[v], user'[v] = user[v]
    PROVE  Confirmed(v)' <=> Confirmed(v)
BY DEF Confirmed

LEMMA ThinnedConfirmed ==
    ASSUME NEW v, Thinned(responses'[v], responses[v]), user'[v].sends = user[v].sends
    PROVE  Confirmed(v)' => Confirmed(v)
<1> SUFFICES ASSUME Confirmed(v)' PROVE Confirmed(v)
  OBVIOUS
<1>1. PICK i \in DOMAIN responses'[v] : responses'[v][i].tid = user'[v].sends /\ responses'[v][i].result = TRUE
  BY Zenon DEF Confirmed
<1>2. PICK j \in DOMAIN responses[v] : responses'[v][i] = responses[v][j]
  BY Zenon DEF Thinned
<1>3. responses[v][j].tid = user[v].sends /\ responses[v][j].result = TRUE
  BY <1>1, <1>2, Zenon
<1> QED BY <1>3, Zenon DEF Confirmed

LEMMA NothingOnItsWay ==
    ASSUME QueueInv, NEW u \in User, Confirmed(u)
    PROVE  requests[u] = <<>>
<1>1. PICK i \in DOMAIN responses[u] : responses[u][i].tid = user[u].sends
  BY Zenon DEF Confirmed
<1> QED BY <1>1, Queues, LastOfLine, Tids

LEMMA RefusalConfirms ==
    ASSUME QueueInv, NEW u \in User, requests[u] # <<>>, Respond(u, FALSE), user' = user
    PROVE  ~Confirmed(u)'
<1> SUFFICES ASSUME Confirmed(u)' PROVE FALSE
  OBVIOUS
<1> PICK p : p = responses[u]
  OBVIOUS
<1> PICK a : a = [tid |-> Asked(u).tid, result |-> FALSE]
  OBVIOUS
<1>1. responses'[u] = Append(p, a)
  <2>1. FALSE \in Value \cup BOOLEAN
    OBVIOUS
  <2> QED BY <2>1, RespondQueues
<1>2. p \in Seq(Response)
  BY Queues
<1>3. a \in Response /\ a.result # TRUE
  <2>1. Asked(u) \in Request
    BY AskedFits
  <2>2. Asked(u).tid \in Tid
    BY <2>1 DEF Request
  <2> QED BY <2>2 DEF Response
<1> PICK x : x = Append(p, a)
  OBVIOUS
<1>4. /\ DOMAIN x = 1 .. Len(p) + 1 /\ Len(p) \in Nat /\ DOMAIN p = 1 .. Len(p)
      /\ x[Len(p) + 1] = a /\ \A i \in 1 .. Len(p) : x[i] = p[i]
  BY <1>2, <1>3, AppendProperties, LenProperties
<1>5. PICK i \in DOMAIN x : x[i].tid = user[u].sends /\ x[i].result = TRUE
  BY <1>1, Zenon DEF Confirmed
<1>6. i # Len(p) + 1
  BY <1>3, <1>4, <1>5, Zenon
<1>7. i \in 1 .. Len(p)
  BY <1>4, <1>6
<1>8. Confirmed(u)
  BY <1>4, <1>5, <1>7, Zenon DEF Confirmed
<1> QED BY <1>8, NothingOnItsWay

LEMMA OthersConfirmed ==
    ASSUME QueueInv, NEW u \in User, requests[u] # <<>>, NEW result \in Value \cup BOOLEAN,
           Respond(u, result), user' = user
    PROVE  \A v \in User : v # u => (Confirmed(v)' <=> Confirmed(v))
BY RespondQueues, SameConfirmed

LEMMA AccessStorage ==
    ASSUME QueueInv, StorageInv, NEW u \in User, Access(u)
    PROVE  StorageInv'
<1> PICK r : r = RegisterOf[u]
  OBVIOUS
<1>1. /\ requests[u] # <<>> /\ u \in Client /\ r \in Register
      /\ \/ /\ user[u].step = "write"
            /\ ram' = ram \/ ram' = [ram EXCEPT ![r] = Wish]
            /\ resetLasts' = FALSE /\ UNCHANGED <<verified, booted>>
         \/ /\ user[u].step = "verify"
            /\ ram' = ram /\ resetLasts' = resetLasts
            /\ IF ram[r] = Wish
                 THEN /\ verified' = [verified EXCEPT ![u] = TRUE]
                      /\ booted' = [booted EXCEPT ![u] = FALSE]
                 ELSE UNCHANGED <<verified, booted>>
      /\ flash' = flash /\ port_id' = port_id /\ user' = user
      /\ \E x \in Value : Respond(u, x)
  BY AccessIs, Zenon
<1>2. \A v \in User : v # u => (Confirmed(v)' <=> Confirmed(v))
  <2>1. PICK x \in Value : Respond(u, x)
    BY <1>1
  <2>2. x \in Value \cup BOOLEAN
    OBVIOUS
  <2> QED BY <1>1, <2>1, <2>2, OthersConfirmed
<1>3. /\ ram \in [Register -> Value] /\ verified \in [Client -> BOOLEAN] /\ booted \in [Client -> BOOLEAN]
      /\ Operator # u /\ Operator \in User /\ \A c \in Client : c \in User
  BY <1>1, RegistersAssumption DEF QueueInv, TypeOK, User
<1>4. ResetInv'
  BY <1>1, <1>2, <1>3, Zenon DEF StorageInv, ResetInv
<1>5. ASSUME NEW c \in Client, c # u PROVE StoredAt(c)' /\ VerifiedAt(c)'
  <2>1. RegisterOf[c] # r /\ RegisterOf[c] \in Register
    BY <1>1, <1>5, RegistersAssumption
  <2>2. ram'[RegisterOf[c]] = ram[RegisterOf[c]]
    BY <1>1, <1>3, <2>1
  <2>3. verified'[c] = verified[c] /\ booted'[c] = booted[c]
    BY <1>1, <1>3, <1>5
  <2>4. StoredAt(c)'
    BY <1>1, <1>2, <1>3, <1>5, <2>2, Zenon DEF StorageInv, StoredAt
  <2>5. VerifiedAt(c)'
    BY <1>1, <2>2, <2>3, Zenon DEF StorageInv, VerifiedAt
  <2> QED BY <2>4, <2>5
<1>6. StoredAt(u) /\ VerifiedAt(u)
  BY <1>1 DEF StorageInv
<1>7. StoredAt(u)' /\ VerifiedAt(u)'
  <2>1. CASE user[u].step = "write"
    <3>1. user[u].step # "verify" /\ user[u].step # "store"
      BY <2>1
    <3>2. StoredAt(u)'
      BY <1>1, <3>1, Zenon DEF StoredAt
    <3>3. ram'[r] = ram[r] \/ ram'[r] = Wish
      BY <1>1, <1>3, <3>1
    <3>4. UNCHANGED <<verified, booted>>
      BY <1>1, <3>1
    <3>5. VerifiedAt(u)'
      BY <1>1, <1>6, <3>3, <3>4 DEF VerifiedAt
    <3> QED BY <3>2, <3>5
  <2>2. CASE user[u].step = "verify"
    <3>1. user[u].step # "write"
      BY <2>2
    <3>2. /\ ram' = ram
          /\ IF ram[r] = Wish
               THEN /\ verified' = [verified EXCEPT ![u] = TRUE]
                    /\ booted' = [booted EXCEPT ![u] = FALSE]
               ELSE UNCHANGED <<verified, booted>>
      BY <1>1, <3>1, Zenon
    <3>3. ram[r] = Wish => flash[r] = Wish
      BY <1>6, <2>2 DEF StoredAt
    <3>4. StoredAt(u)'
      BY <1>1, <3>2, <3>3, Zenon DEF StoredAt
    <3>5. CASE ram[r] = Wish
      <4>1. booted'[u] = FALSE
        BY <1>1, <1>3, <3>2, <3>5
      <4> QED BY <1>1, <3>2, <3>3, <3>4, <3>5, <4>1 DEF VerifiedAt
    <3>6. CASE ram[r] # Wish
      <4>1. UNCHANGED <<verified, booted>>
        BY <3>2, <3>6
      <4> QED BY <1>1, <1>6, <3>2, <3>4, <4>1 DEF VerifiedAt
    <3> QED BY <3>5, <3>6
  <2> QED BY <1>1, <2>1, <2>2
<1>8. \A c \in Client : StoredAt(c)' /\ VerifiedAt(c)'
  BY <1>5, <1>7
<1> QED BY <1>4, <1>8 DEF StorageInv

LEMMA CommandStorage ==
    ASSUME QueueInv, StorageInv, NEW u \in User, ExecuteCommand(u)
    PROVE  StorageInv'
<1>1. requests[u] # <<>> /\ UNCHANGED <<port_id, user, booted>>
  BY CommandIs
<1>2. PICK ok \in BOOLEAN :
                 /\ Respond(u, ok)
                 /\ \/ /\ user[u].step = "store" /\ UNCHANGED <<ram, restart, history>>
                       /\ flash' = (IF ok THEN ram ELSE flash)
                    \/ /\ u = Operator /\ user[u].step = "reset" /\ UNCHANGED restart
                       /\ ram' = [r \in Register |-> Default]
                       /\ flash' = (IF ok THEN ram' ELSE flash)
                       /\ verified' = [c \in Client |-> FALSE] /\ resetLasts' = TRUE
                    \/ /\ user[u].step = "restart" /\ UNCHANGED <<ram, flash, history>>
                       /\ restart' \in BOOLEAN
  BY CommandIs
<1>3. ok \in Value \cup BOOLEAN
  OBVIOUS
<1>4. \A v \in User : v # u => (Confirmed(v)' <=> Confirmed(v))
  BY <1>1, <1>2, <1>3, OthersConfirmed
<1>5. ok = FALSE => ~Confirmed(u)'
  BY <1>1, <1>2, RefusalConfirms
<1>6. /\ Operator \in User /\ \A c \in Client : c \in User
      /\ user[Operator].step \in {"reset", "done"}
      /\ \A c \in Client : RegisterOf[c] \in Register
  BY RegistersAssumption DEF QueueInv, StepsInv, User
<1>7. CASE user[u].step = "store"
  <2>1. /\ ram' = ram /\ verified' = verified /\ resetLasts' = resetLasts
        /\ flash' = (IF ok THEN ram ELSE flash)
    BY <1>2, <1>7 DEF history
  <2>2. u # Operator
    BY <1>6, <1>7
  <2>3. ResetInv'
    <3>1. Confirmed(Operator)' <=> Confirmed(Operator)
      BY <1>4, <1>6, <2>2
    <3>2. flash' = ram \/ flash' = flash
      BY <2>1
    <3> QED BY <1>1, <2>1, <3>1, <3>2, Zenon DEF StorageInv, ResetInv
  <2>4. ASSUME NEW c \in Client PROVE StoredAt(c)' /\ VerifiedAt(c)'
    <3>1. StoredAt(c) /\ VerifiedAt(c)
      BY DEF StorageInv
    <3>2. CASE ok = TRUE
      <4>1. flash' = ram
        BY <2>1, <3>2
      <4> QED BY <1>1, <2>1, <3>1, <4>1, Zenon DEF StoredAt, VerifiedAt
    <3>3. CASE ok = FALSE
      <4>1. flash' = flash
        BY <2>1, <3>3
      <4>2. Confirmed(c)' => Confirmed(c)
        BY <1>4, <1>5, <1>6, <3>3
      <4> QED BY <1>1, <2>1, <3>1, <4>1, <4>2, Zenon DEF StoredAt, VerifiedAt
    <3> QED BY <3>2, <3>3
  <2> QED BY <2>3, <2>4 DEF StorageInv
<1>8. CASE user[u].step = "reset"
  <2>1. /\ u = Operator /\ ram' = [r \in Register |-> Default]
        /\ flash' = (IF ok THEN ram' ELSE flash)
        /\ verified' = [c \in Client |-> FALSE]
    BY <1>2, <1>8
  <2>2. ResetInv'
    <3>1. CASE ok = TRUE
      <4>1. flash' = ram'
        BY <2>1, <3>1
      <4> QED BY <2>1, <4>1 DEF ResetInv
    <3>2. CASE ok = FALSE
      <4>1. ~Confirmed(Operator)' /\ user'[Operator].step # "done"
        BY <1>1, <1>5, <1>8, <2>1, <3>2
      <4> QED BY <4>1, Zenon DEF ResetInv
    <3> QED BY <3>1, <3>2
  <2>3. ASSUME NEW c \in Client PROVE StoredAt(c)' /\ VerifiedAt(c)'
    <3>1. ram'[RegisterOf[c]] # Wish
      BY <1>6, <2>1, RegistersAssumption
    <3>2. verified'[c] = FALSE
      BY <2>1
    <3> QED BY <3>1, <3>2 DEF StoredAt, VerifiedAt
  <2> QED BY <2>2, <2>3 DEF StorageInv
<1>9. CASE user[u].step = "restart"
  <2>1. UNCHANGED <<ram, flash, verified, resetLasts>>
    BY <1>2, <1>9 DEF history
  <2>2. u # Operator
    BY <1>6, <1>9
  <2>3. ResetInv'
    <3>1. Confirmed(Operator)' <=> Confirmed(Operator)
      BY <1>4, <1>6, <2>2
    <3> QED BY <1>1, <2>1, <3>1, Zenon DEF StorageInv, ResetInv
  <2>4. ASSUME NEW c \in Client PROVE StoredAt(c)' /\ VerifiedAt(c)'
    <3>1. StoredAt(c) /\ VerifiedAt(c)
      BY DEF StorageInv
    <3>2. VerifiedAt(c)'
      BY <1>1, <2>1, <3>1, Zenon DEF VerifiedAt
    <3>3. CASE c = u
      <4>1. user'[c].step # "verify" /\ user'[c].step # "store"
        BY <1>1, <1>9, <3>3
      <4> QED BY <3>2, <4>1, Zenon DEF StoredAt
    <3>4. CASE c # u
      <4>1. Confirmed(c)' <=> Confirmed(c)
        BY <1>4, <1>6, <3>4
      <4> QED BY <1>1, <2>1, <3>1, <3>2, <4>1, Zenon DEF StoredAt
    <3> QED BY <3>3, <3>4
  <2> QED BY <2>3, <2>4 DEF StorageInv
<1> QED BY <1>2, <1>7, <1>8, <1>9

LEMMA LostStorage ==
    ASSUME QueueInv, StorageInv, NEW u \in User, LoseRequest(u) \/ LoseResponse(u)
    PROVE  StorageInv'
<1>1. /\ UNCHANGED <<ram, flash, port_id, verified, booted, resetLasts>>
      /\ user' = user
  BY DEF LoseRequest, LoseResponse, node, history
<1>2. ASSUME NEW v \in User PROVE Thinned(responses'[v], responses[v])
  <2>1. responses \in [User -> Seq(Response)] /\ responses[v] \in Seq(Response)
    BY DEF QueueInv, TypeOK
  <2>2. Thinned(responses[v], responses[v])
    BY <2>1, ThinnedSelf
  <2>3. CASE responses' = responses
    BY <2>2, <2>3
  <2>4. CASE LoseResponse(u)
    <3>1. PICK i \in DOMAIN responses[u] : responses' = [responses EXCEPT ![u] = RemoveAt(@, i)]
      BY <2>4 DEF LoseResponse
    <3> PICK x : x = RemoveAt(responses[u], i)
      OBVIOUS
    <3>2. responses[u] \in Seq(Response)
      BY <2>1
    <3>3. Thinned(x, responses[u])
      BY <3>2, RemoveIsThinned
    <3>4. responses' = [responses EXCEPT ![u] = x]
      BY <3>1
    <3>5. responses'[v] = IF v = u THEN x ELSE responses[v]
      BY <2>1, <3>4
    <3> QED BY <2>2, <3>3, <3>5
  <2>5. CASE LoseRequest(u)
    <3>1. responses' = responses
      BY <2>5 DEF LoseRequest
    <3> QED BY <2>3, <3>1
  <2> QED BY <2>4, <2>5
<1>3. \A v \in User : user'[v].step = user[v].step /\ (Confirmed(v)' => Confirmed(v))
  BY <1>1, <1>2, ThinnedConfirmed
<1> QED BY <1>1, <1>3, StorageKept

LEMMA SendStorage ==
    ASSUME QueueInv, StorageInv, NEW u \in User, Send(u)
    PROVE  StorageInv'
<1>1. /\ user'[u].step = user[u].step /\ user'[u].sends = user[u].sends + 1
      /\ \A v \in User : v # u => user'[v] = user[v]
      /\ UNCHANGED <<ram, flash, port_id, responses, verified, booted, resetLasts>>
  BY SendIs
<1>2. ~Confirmed(u)'
  <2> SUFFICES ASSUME Confirmed(u)' PROVE FALSE
    OBVIOUS
  <2>1. PICK i \in DOMAIN responses[u] : responses[u][i].tid = user'[u].sends
    BY <1>1, Zenon DEF Confirmed
  <2>2. responses[u][i].tid <= user[u].sends /\ user[u].sends \in Nat
    BY Queues DEF Line, UpTo
  <2> QED BY <1>1, <2>1, <2>2
<1>3. \A v \in User : v # u => (Confirmed(v)' <=> Confirmed(v))
  BY <1>1, SameConfirmed
<1>4. \A v \in User : user'[v].step = user[v].step /\ (Confirmed(v)' => Confirmed(v))
  BY <1>1, <1>2, <1>3, Zenon
<1> QED BY <1>1, <1>4, StorageKept

LEMMA AnsweredStorage ==
    ASSUME QueueInv, StorageInv, NEW u \in User, Answered(u)
    PROVE  StorageInv'
<1> PICK p : p = responses[u]
  OBVIOUS
<1> PICK a : a = Head(p)
  OBVIOUS
<1>1. /\ p # <<>> /\ responses' = [responses EXCEPT ![u] = Tail(p)]
      /\ \A v \in User : v # u => user'[v] = user[v]
      /\ user'[u].sends = user[u].sends
      /\ \/ user'[u].step = user[u].step
         \/ /\ Tail(p) = <<>> /\ a.tid = user[u].sends
            /\ user'[u].step = StepAfter(user[u].step, a.result)
      /\ UNCHANGED <<ram, flash, port_id, verified, booted, resetLasts>>
  BY AnsweredIs
<1>2. responses \in [User -> Seq(Response)] /\ p \in Seq(Response)
  BY DEF QueueInv, TypeOK
<1>3. Tail(p) \in Seq(Response) /\ Thinned(Tail(p), p)
  BY <1>1, <1>2, TailIsThinned
<1>4. responses'[u] = Tail(p) /\ \A v \in User : v # u => responses'[v] = responses[v]
  BY <1>1, <1>2
<1>5. Confirmed(u)' => Confirmed(u)
  BY <1>1, <1>3, <1>4, ThinnedConfirmed
<1>6. \A v \in User : v # u => (Confirmed(v)' <=> Confirmed(v))
  BY <1>1, <1>4, SameConfirmed
<1>7. CASE user'[u].step = user[u].step
  <2>1. \A v \in User : user'[v].step = user[v].step /\ (Confirmed(v)' => Confirmed(v))
    BY <1>1, <1>5, <1>6, <1>7, Zenon
  <2> QED BY <1>1, <2>1, StorageKept
<1>8. CASE /\ Tail(p) = <<>> /\ a.tid = user[u].sends
           /\ user'[u].step = StepAfter(user[u].step, a.result)
  <2>1. ~Confirmed(u)'
    <3>1. DOMAIN responses'[u] = {}
      <4>1. responses'[u] = <<>>
        BY <1>4, <1>8
      <4> QED BY <4>1
    <3> QED BY <3>1, Zenon DEF Confirmed
  <2>2. a.result = TRUE => Confirmed(u)
    <3>1. 1 \in DOMAIN p /\ p[1] = a
      BY <1>1, <1>2, EmptySeq, LenProperties
    <3>2. p[1].tid = user[u].sends
      BY <1>8, <3>1
    <3>3. a.result = TRUE => p[1].result = TRUE
      BY <3>1, Zenon
    <3> QED BY <3>1, <3>2, <3>3, Zenon DEF Confirmed
  <2>3. user[u].step \in {"write", "store", "verify", "restart", "reset", "done"}
    BY UserTypes DEF UserState
  <2> PICK s : s = user[u].step
    OBVIOUS
  <2> PICK t : t = user'[u].step
    OBVIOUS
  <2>4. /\ s = "write" => t \in {"store", "write"}
        /\ s = "store" => t = IF a.result = TRUE THEN "verify" ELSE "store"
        /\ s = "verify" => t \in {"restart", "write"}
        /\ s = "restart" => t \in {"restart", "done"}
        /\ s = "reset" => t = IF a.result = TRUE THEN "done" ELSE "reset"
        /\ s = "done" => t = "done"
    <3>1. t = StepAfter(s, a.result)
      BY <1>8
    <3>2. /\ s = "store" => StepAfter(s, a.result) = IF a.result = TRUE THEN "verify" ELSE "store"
          /\ s = "reset" => StepAfter(s, a.result) = IF a.result = TRUE THEN "done" ELSE "reset"
          /\ s = "done" => StepAfter(s, a.result) = "done"
      BY StepAfterCases, Zenon
    <3>3. /\ s = "write" => StepAfter(s, a.result) \in {"store", "write"}
          /\ s = "verify" => StepAfter(s, a.result) \in {"restart", "write"}
          /\ s = "restart" => StepAfter(s, a.result) \in {"restart", "done"}
      BY StepsAfter, Zenon
    <3> QED BY <3>1, <3>2, <3>3, Zenon
  <2>5. t = "verify" => s = "store" /\ Confirmed(u)
    <3>1. s = "store" => t = "store" \/ Confirmed(u)
      BY <2>2, <2>4, Zenon
    <3>2. t = "verify" => s = "store"
      BY <2>3, <2>4
    <3> QED BY <3>1, <3>2
  <2>6. t = "done" => s \in {"restart", "done"} \/ Confirmed(u)
    <3>1. s = "reset" => t = "reset" \/ Confirmed(u)
      BY <2>2, <2>4, Zenon
    <3>2. t = "done" => s \in {"restart", "done", "reset"}
      BY <2>3, <2>4
    <3> QED BY <3>1, <3>2
  <2>7. ResetInv'
    <3>1. user[Operator].step # "restart" /\ Operator \in User
      BY DEF QueueInv, StepsInv, User
    <3>2. CASE u = Operator
      <4>1. user'[Operator].step = "done" => user[Operator].step = "done" \/ Confirmed(Operator)
        BY <2>6, <3>1, <3>2
      <4>2. ~Confirmed(Operator)'
        BY <2>1, <3>2
      <4> QED BY <1>1, <4>1, <4>2, Zenon DEF StorageInv, ResetInv
    <3>3. CASE u # Operator
      <4>1. user'[Operator] = user[Operator] /\ (Confirmed(Operator)' <=> Confirmed(Operator))
        BY <1>1, <1>6, <3>1, <3>3
      <4> QED BY <1>1, <4>1, Zenon DEF StorageInv, ResetInv
    <3> QED BY <3>2, <3>3
  <2>8. ASSUME NEW c \in Client PROVE StoredAt(c)' /\ VerifiedAt(c)'
    <3>1. StoredAt(c) /\ VerifiedAt(c) /\ c \in User
      BY DEF StorageInv, User
    <3>2. VerifiedAt(c)'
      BY <1>1, <3>1, Zenon DEF VerifiedAt
    <3>3. CASE c = u
      <4>1. user'[c].step = "verify" => user[c].step = "store" /\ Confirmed(c)
        BY <2>5, <3>3
      <4>2. ~Confirmed(c)'
        BY <2>1, <3>3
      <4> QED BY <1>1, <3>1, <3>2, <4>1, <4>2, Zenon DEF StoredAt
    <3>4. CASE c # u
      <4>1. user'[c] = user[c] /\ (Confirmed(c)' <=> Confirmed(c))
        BY <1>1, <1>6, <3>1, <3>4
      <4> QED BY <1>1, <3>1, <3>2, <4>1, Zenon DEF StoredAt
    <3> QED BY <3>3, <3>4
  <2> QED BY <2>7, <2>8 DEF StorageInv
<1> QED BY <1>1, <1>7, <1>8

LEMMA BootStorage ==
    ASSUME QueueInv, StorageInv, Restart \/ PowerLoss
    PROVE  StorageInv'
<1>1. /\ ram' = flash /\ port_id' = flash /\ flash' = flash
      /\ UNCHANGED <<responses, user, verified, resetLasts>>
  BY BootIs
<1>2. \A v : Confirmed(v)' <=> Confirmed(v)
  BY <1>1, SameConfirmed
<1>3. ResetInv'
  BY <1>1, <1>2, Zenon DEF StorageInv, ResetInv
<1>4. ASSUME NEW c \in Client PROVE StoredAt(c)' /\ VerifiedAt(c)'
  <2>1. VerifiedAt(c)
    BY DEF StorageInv
  <2>2. StoredAt(c)'
    BY <1>1, Zenon DEF StoredAt
  <2>3. VerifiedAt(c)'
    BY <1>1, <2>1, Zenon DEF VerifiedAt
  <2> QED BY <2>2, <2>3
<1> QED BY <1>3, <1>4 DEF StorageInv

LEMMA NextStorage == QueueInv /\ StorageInv /\ [Next]_vars => StorageInv'
<1> SUFFICES ASSUME QueueInv, StorageInv, [Next]_vars PROVE StorageInv'
  OBVIOUS
<1>1. CASE PublishPortList \/ UNCHANGED vars
  <2>1. UNCHANGED <<ram, flash, port_id, verified, booted, resetLasts, responses, user>>
    BY <1>1 DEF PublishPortList, vars, node, history
  <2>2. \A v \in User : user'[v].step = user[v].step /\ (Confirmed(v)' => Confirmed(v))
    BY <2>1, SameConfirmed
  <2> QED BY <2>1, <2>2, StorageKept
<1> QED BY <1>1, AccessStorage, CommandStorage, LostStorage, SendStorage, AnsweredStorage,
           BootStorage DEF Next

LEMMA Starts == Init => QueueInv /\ StorageInv
<1> SUFFICES ASSUME Init PROVE QueueInv /\ StorageInv
  OBVIOUS
<1>1. \A u \in User : requests[u] = <<>> /\ responses[u] = <<>>
  BY DEF Init
<1>2. \A u \in User : user[u].step = IF u = Operator THEN "reset" ELSE "write"
  BY DEF Init
<1>3. StepsInv
  BY <1>2, RegistersAssumption DEF StepsInv, User
<1>4. TypeOK
  <2>1. MaxSends \in Nat /\ MaxLost \in Nat /\ MaxFaults \in Nat
    BY RegistersAssumption
  <2>2. 0 \in 0 .. MaxSends /\ 0 \in 0 .. MaxLost /\ 0 \in 0 .. MaxFaults
    BY <2>1
  <2>3. Default \in Value
    BY DEF Value
  <2>4. user \in [User -> [step : {"write", "store", "verify", "restart", "reset", "done"},
                           sends : 0 .. MaxSends, waiting : BOOLEAN]]
    BY <2>2 DEF Init
  <2>5. <<>> \in Seq(Request) /\ <<>> \in Seq(Response)
    BY EmptySeq
  <2>6. requests \in [User -> Seq(Request)] /\ responses \in [User -> Seq(Response)]
    BY <2>5 DEF Init
  <2> QED BY <2>2, <2>3, <2>4, <2>6 DEF Init, TypeOK
<1>5. ASSUME NEW u \in User PROVE LineAt(u) /\ FitsAt(u)
  BY <1>1 DEF LineAt, Line, FitsAt, Increasing, UpTo, Older
<1>6. QueueInv
  BY <1>3, <1>4, <1>5 DEF QueueInv
<1>7. ResetInv
  BY DEF Init, ResetInv
<1>8. ASSUME NEW c \in Client PROVE StoredAt(c) /\ VerifiedAt(c)
  <2>1. user[c].step = "write" /\ verified[c] = FALSE
    BY <1>2, RegistersAssumption DEF Init, User
  <2> QED BY <2>1 DEF StoredAt, VerifiedAt
<1> QED BY <1>6, <1>7, <1>8 DEF StorageInv

-----------------------------------------------------------------------------
(* The theorems.                                                           *)

LEMMA Invariants == Spec => [](QueueInv /\ StorageInv)
<1>1. QueueInv /\ StorageInv /\ [Next]_vars => (QueueInv /\ StorageInv)'
  BY NextQueues, NextStorage
<1> QED BY <1>1, Starts, PTL DEF Spec

(***************************************************************************)
(* Every queue holds what the services and their clients exchange, and no  *)
(* client sends, and nothing is lost or fails, more often than bounded.    *)
(***************************************************************************)
THEOREM RegistersTypeOK == Spec => []TypeOK
<1>1. QueueInv /\ StorageInv => TypeOK
  BY DEF QueueInv
<1> QED BY <1>1, Invariants, PTL

(***************************************************************************)
(* A client that read its value back after a store that succeeded has it   *)
(* in the persistent copy until somebody resets the node, and in use after *)
(* the next start: whatever was repeated, answered late or lost, whatever  *)
(* store failed and whenever the power did.                                *)
(***************************************************************************)
THEOREM ConfigurationIsKept == Spec => []ConfigurationLasts
<1>1. QueueInv /\ StorageInv => ConfigurationLasts
  BY DEF StorageInv, VerifiedAt, ConfigurationLasts
<1> QED BY <1>1, Invariants, PTL

(***************************************************************************)
(* After a factory reset that was confirmed, both copies of the parameters *)
(* hold the defaults until somebody writes, so that no restart brings a    *)
(* former value back.                                                      *)
(***************************************************************************)
THEOREM ResetIsKept == Spec => []ResetLasts
<1>1. QueueInv /\ StorageInv => ResetLasts
  BY DEF StorageInv, ResetInv, ResetLasts
<1> QED BY <1>1, Invariants, PTL
=============================================================================
