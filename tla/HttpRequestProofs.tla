------------------------- MODULE HttpRequestProofs -------------------------
(***************************************************************************)
(* What the callbacks of requests promise, proved for every set of         *)
(* requests and every length of their bodies.                              *)
(***************************************************************************)
EXTENDS HttpRequest, SequenceTheorems, TLAPS

----------------------------------------------------------------------------

\* The first n blocks of a body.
Blocks(n) == [k \in 1..n |-> k]

\* Who holds the callback object, as far as the network thread has got.
Holders(state) ==
    IF state \in {"open", "wait", "asleep", "body"} THEN 2
    ELSE IF state \in {"refused", "returned"} THEN 1 ELSE 0

Types ==
    /\ network \in [Requests -> Network]
    /\ refs \in [Requests -> Nat]
    /\ token \in [Requests -> {None, "empty", "value"}]
    /\ buffer \in [Requests -> Seq(Nat)]
    /\ arrived \in [Requests -> Nat]
    /\ queue \in Seq(Function)

Counted == \A r \in Requests : refs[r] = Holders(network[r])

\* The function of OnHeadersAvailable is queued once, and its callback waits for it.
Awaited ==
    \A i \in 1..Len(queue) : queue[i].of = "headers" =>
        /\ network[queue[i].request] \in {"wait", "asleep"}
        /\ token[queue[i].request] = "empty"
        /\ \A j \in 1..Len(queue) :
              queue[j].of = "headers" /\ queue[j].request = queue[i].request => i = j

\* Until the last callback the buffer has all that arrived; after it the function has.
Gathered ==
    /\ \A r \in Requests : network[r] \notin {"returned", "done"} => buffer[r] = Blocks(arrived[r])
    /\ \A i \in 1..Len(queue) : queue[i].of \in {"response", "error"} =>
          /\ network[queue[i].request] \in {"returned", "done"}
          /\ queue[i].of = "response" => queue[i].data = Blocks(arrived[queue[i].request])

RequestInv == Types /\ Counted /\ Awaited /\ Gathered

LEMMA QueueTypes ==
    ASSUME Types
    PROVE  /\ Len(queue) \in Nat
           /\ \A i \in 1..Len(queue) : queue[i].request \in Requests
<1>1. Len(queue) \in Nat /\ \A i \in 1..Len(queue) : queue[i] \in Function
  BY DEF Types
<1>2. \A f \in Function : f.request \in Requests
  BY DEF Function
<1> QED
  BY <1>1, <1>2

LEMMA RequestInvInit == Init => RequestInv
<1> SUFFICES ASSUME Init PROVE RequestInv
  OBVIOUS
<1>1. Types
  BY DEF Init, Types, Network, None
<1>2. Counted /\ Awaited
  BY DEF Init, Counted, Awaited, Holders
<1>3. Blocks(0) = <<>>
  BY DEF Blocks
<1>4. Gathered
  BY <1>3 DEF Init, Gathered
<1> QED
  BY <1>1, <1>2, <1>4 DEF RequestInv

\* fillBuffer appends the blocks that come next.
LEMMA FilledIsBlocks ==
    ASSUME RequestInv, NEW r \in Requests, network[r] = "body", NEW n \in Nat
    PROVE  /\ Filled(r, n) = Blocks(arrived[r] + n)
           /\ Filled(r, n) \in Seq(Nat)
<1>1. arrived[r] \in Nat /\ buffer[r] = Blocks(arrived[r])
  BY DEF RequestInv, Types, Gathered
<1>2. Blocks(arrived[r]) \o [i \in 1..n |-> arrived[r] + i] = Blocks(arrived[r] + n)
  <2> DEFINE a == arrived[r]
             more == [i \in 1..n |-> a + i]
  <2>1. a \in Nat /\ Blocks(a) \in Seq(Nat) /\ Len(Blocks(a)) = a /\ more \in Seq(Nat) /\ Len(more) = n
    BY <1>1 DEF Blocks
  <2>2. ASSUME NEW k \in 1..(a + n) PROVE (Blocks(a) \o more)[k] = k
    <3>1. CASE k <= a
      BY <2>1, <2>2, <3>1 DEF Blocks
    <3>2. CASE k > a
      <4>1. k - a \in 1..n
        BY <2>1, <2>2, <3>2
      <4>2. more[k - a] = a + (k - a)
        BY <4>1
      <4>3. (Blocks(a) \o more)[k] = more[k - a]
        <5>1. \A s, t \in Seq(Nat) : \A i \in 1..(Len(s) + Len(t)) :
                  (s \o t)[i] = IF i <= Len(s) THEN s[i] ELSE t[i - Len(s)]
          OBVIOUS
        <5> HIDE DEF more, a
        <5>2. \A i \in 1..(a + n) : (Blocks(a) \o more)[i] = IF i <= a THEN Blocks(a)[i] ELSE more[i - a]
          BY <2>1, <5>1
        <5> QED
          BY <2>1, <2>2, <3>2, <5>2
      <4>4. a + (k - a) = k
        BY <2>1, <2>2
      <4> QED
        BY <4>2, <4>3, <4>4
    <3> QED
      BY <2>1, <3>1, <3>2
  <2>3. Blocks(a) \o more \in Seq(Nat) /\ Len(Blocks(a) \o more) = a + n
    <3> HIDE DEF a, more
    <3>1. \A s, t \in Seq(Nat) : s \o t \in Seq(Nat) /\ Len(s \o t) = Len(s) + Len(t)
      OBVIOUS
    <3> QED
      BY <2>1, <3>1
  <2>4. Blocks(a + n) \in Seq(Nat) /\ Len(Blocks(a + n)) = a + n /\ (\A k \in 1..(a + n) : Blocks(a + n)[k] = k)
    BY <2>1 DEF Blocks
  <2>5. \A s, t \in Seq(Nat) : Len(s) = Len(t) /\ (\A k \in 1..Len(s) : s[k] = t[k]) => s = t
    OBVIOUS
  <2>6. Blocks(a) \o more = Blocks(a + n)
    <3>1. \A k \in 1..(a + n) : (Blocks(a) \o more)[k] = Blocks(a + n)[k]
      BY <2>2, <2>4, Zenon
    <3> DEFINE s == Blocks(a) \o more
               t == Blocks(a + n)
    <3>2. s \in Seq(Nat) /\ t \in Seq(Nat) /\ Len(s) = Len(t)
      BY <2>3, <2>4, Zenon
    <3>3. \A k \in 1..Len(s) : s[k] = t[k]
      BY <2>3, <3>1, Zenon
    <3> HIDE DEF s, t
    <3> QED
      BY <2>5, <3>2, <3>3, Zenon DEF s, t
  <2> QED
    BY <2>6
<1>3. Blocks(arrived[r] + n) \in Seq(Nat)
  BY <1>1 DEF Blocks
<1> QED
  BY <1>1, <1>2, <1>3 DEF Filled

\* A function is queued by a callback of r that leaves the other requests alone.
LEMMA Queueing ==
    ASSUME RequestInv, NEW r \in Requests, NEW f \in Function, f.request = r, Queue(f),
           network[r] \in {"open", "body"}
    PROVE  /\ queue' \in Seq(Function) /\ Len(queue') = Len(queue) + 1
           /\ queue'[Len(queue) + 1] = f
           /\ \A i \in 1..Len(queue) : queue'[i] = queue[i]
           /\ \A i \in 1..Len(queue) : queue[i].of \in {"headers", "response", "error"} => queue[i].request # r
<1>1. queue \in Seq(Function)
  BY DEF RequestInv, Types
<1>2. \A i \in 1..Len(queue) : queue[i].of \in {"headers", "response", "error"} => queue[i].request # r
  BY DEF RequestInv, Awaited, Gathered
<1> QED
  BY <1>1, <1>2 DEF Queue

\* What is left after a callback of r has queued f.
LEMMA Appended ==
    ASSUME RequestInv, NEW r \in Requests, NEW f \in Function, f.request = r, Queue(f),
           network[r] \in {"open", "body"},
           \A q \in Requests \ {r} : /\ network'[q] = network[q] /\ token'[q] = token[q]
                                     /\ buffer'[q] = buffer[q] /\ arrived'[q] = arrived[q],
           f.of = "headers" => network'[r] = "wait" /\ token'[r] = "empty",
           f.of \in {"response", "error"} => network'[r] = "returned",
           f.of = "response" => f.data = Blocks(arrived'[r]),
           network'[r] \in {"returned", "done"} \/ buffer'[r] = Blocks(arrived'[r])
    PROVE  Awaited' /\ Gathered'
<1>1. /\ queue' \in Seq(Function) /\ Len(queue') = Len(queue) + 1
      /\ queue'[Len(queue) + 1] = f
      /\ \A i \in 1..Len(queue) : queue'[i] = queue[i]
      /\ \A i \in 1..Len(queue) : queue[i].of \in {"headers", "response", "error"} => queue[i].request # r
  BY Queueing
<1>2. Len(queue) \in Nat /\ \A i \in 1..Len(queue) : queue[i].request \in Requests
  BY QueueTypes DEF RequestInv
<1>3. Awaited'
  <2> SUFFICES ASSUME NEW i \in 1..Len(queue'), queue'[i].of = "headers"
               PROVE  /\ network'[queue'[i].request] \in {"wait", "asleep"}
                      /\ token'[queue'[i].request] = "empty"
                      /\ \A j \in 1..Len(queue') :
                            queue'[j].of = "headers" /\ queue'[j].request = queue'[i].request => i = j
    BY DEF Awaited
  <2>1. CASE i = Len(queue) + 1
    BY <1>1, <1>2, <2>1
  <2>2. CASE i \in 1..Len(queue)
    <3>1. /\ queue'[i] = queue[i] /\ queue[i].request \in Requests \ {r}
          /\ network[queue[i].request] \in {"wait", "asleep"} /\ token[queue[i].request] = "empty"
      BY <1>1, <1>2, <2>2 DEF RequestInv, Awaited
    <3>2. ASSUME NEW j \in 1..Len(queue'), queue'[j].of = "headers", queue'[j].request = queue'[i].request
          PROVE  i = j
      <4>1. j \in 1..Len(queue)
        BY <1>1, <1>2, <3>1, <3>2
      <4> QED
        BY <1>1, <2>2, <3>1, <3>2, <4>1 DEF RequestInv, Awaited
    <3> QED
      BY <3>1, <3>2
  <2> QED
    BY <1>1, <1>2, <2>1, <2>2
<1>4. Gathered'
  <2>1. \A q \in Requests : network'[q] \notin {"returned", "done"} => buffer'[q] = Blocks(arrived'[q])
    BY DEF RequestInv, Gathered
  <2>2. ASSUME NEW i \in 1..Len(queue'), queue'[i].of \in {"response", "error"}
        PROVE  /\ network'[queue'[i].request] \in {"returned", "done"}
               /\ queue'[i].of = "response" => queue'[i].data = Blocks(arrived'[queue'[i].request])
    <3>1. CASE i = Len(queue) + 1
      BY <1>1, <1>2, <2>2, <3>1
    <3>2. CASE i \in 1..Len(queue)
      BY <1>1, <1>2, <2>2, <3>2 DEF RequestInv, Gathered
    <3> QED
      BY <1>1, <1>2, <3>1, <3>2
  <2> QED
    BY <2>1, <2>2 DEF Gathered
<1> QED
  BY <1>3, <1>4

\* What is left after the server thread has run a function.
LEMMA Taken ==
    ASSUME RequestInv, NEW r \in Requests, NEW of, Runs(of, r), UNCHANGED <<network, buffer, arrived>>,
           \A q \in Requests : token'[q] = token[q] \/ (of = "headers" /\ q = r)
    PROVE  queue' \in Seq(Function) /\ Awaited' /\ Gathered'
<1>1. queue \in Seq(Function) /\ queue # <<>>
  BY DEF RequestInv, Types, Runs
<1>2. Len(queue) \in Nat \ {0}
  BY <1>1, EmptySeq
<1>3. /\ queue[1].of = of /\ queue[1].request = r /\ queue' \in Seq(Function)
      /\ Len(queue') = Len(queue) - 1
      /\ \A i \in 1..Len(queue') : queue'[i] = queue[i + 1] /\ i + 1 \in 1..Len(queue) /\ i + 1 # 1
  BY <1>1, <1>2 DEF Runs
<1>4. \A i \in 1..Len(queue) : queue[i].request \in Requests
  BY QueueTypes DEF RequestInv
<1>5. Awaited'
  <2> SUFFICES ASSUME NEW i \in 1..Len(queue'), queue'[i].of = "headers"
               PROVE  /\ network'[queue'[i].request] \in {"wait", "asleep"}
                      /\ token'[queue'[i].request] = "empty"
                      /\ \A j \in 1..Len(queue') :
                            queue'[j].of = "headers" /\ queue'[j].request = queue'[i].request => i = j
    BY DEF Awaited
  <2>1. queue'[i] = queue[i + 1] /\ i + 1 \in 1..Len(queue) /\ 1 \in 1..Len(queue)
    BY <1>2, <1>3
  <2>2. /\ network[queue[i + 1].request] \in {"wait", "asleep"} /\ token[queue[i + 1].request] = "empty"
        /\ \A j \in 1..Len(queue) :
              queue[j].of = "headers" /\ queue[j].request = queue[i + 1].request => i + 1 = j
    BY <2>1 DEF RequestInv, Awaited
  <2>3. ~(of = "headers" /\ queue[i + 1].request = r)
    BY <1>2, <1>3, <2>1, <2>2
  <2>4. ASSUME NEW j \in 1..Len(queue'), queue'[j].of = "headers", queue'[j].request = queue'[i].request
        PROVE  i = j
    <3>1. queue'[j] = queue[j + 1] /\ j + 1 \in 1..Len(queue)
      BY <1>3
    <3>2. i + 1 = j + 1
      BY <2>1, <2>2, <2>4, <3>1
    <3> QED
      BY <1>2, <1>3, <3>2
  <2> QED
    BY <1>4, <2>1, <2>2, <2>3, <2>4
<1>6. Gathered'
  BY <1>3 DEF RequestInv, Gathered
<1> QED
  BY <1>3, <1>5, <1>6

LEMMA RequestInvStep == RequestInv /\ [Next]_vars => RequestInv'
<1> SUFFICES ASSUME RequestInv, [Next]_vars PROVE RequestInv'
  OBVIOUS
<1>0. /\ Types /\ Counted /\ Awaited /\ Gathered
      /\ Len(queue) \in Nat /\ \A i \in 1..Len(queue) : queue[i].request \in Requests
  BY QueueTypes DEF RequestInv
<1>q. ASSUME UNCHANGED <<network, refs, token, buffer, arrived, queue>> PROVE RequestInv'
  BY <1>0, <1>q DEF RequestInv, Types, Counted, Awaited, Gathered, Holders
<1>1. ASSUME NEW r \in Requests, HttpRequest(r) PROVE RequestInv'
  <2>1. CASE network' = [network EXCEPT ![r] = "open"] /\ refs' = [refs EXCEPT ![r] = 2]
    BY <1>0, <1>1, <2>1 DEF HttpRequest, Types, Counted, Awaited, Gathered, Holders, Network, RequestInv
  <2>2. CASE network' = [network EXCEPT ![r] = "refused"] /\ refs' = [refs EXCEPT ![r] = 1]
    BY <1>0, <1>1, <2>2 DEF HttpRequest, Types, Counted, Awaited, Gathered, Holders, Network, RequestInv
  <2> QED
    BY <1>1, <2>1, <2>2 DEF HttpRequest
<1>2. ASSUME NEW r \in Requests, OnHeadersAvailable(r) PROVE RequestInv'
  <2> DEFINE f == [of |-> "headers", request |-> r, data |-> <<>>]
  <2>1. f \in Function /\ f.request = r /\ f.of = "headers" /\ Queue(f)
    BY <1>2 DEF OnHeadersAvailable, Function
  <2> HIDE DEF f
  <2>2. /\ network' = [network EXCEPT ![r] = "wait"]
        /\ token' = [token EXCEPT ![r] = "empty"]
        /\ UNCHANGED <<refs, buffer, arrived>> /\ network[r] = "open"
    BY <1>2 DEF OnHeadersAvailable
  <2>3. /\ network'[r] = "wait" /\ token'[r] = "empty" /\ buffer[r] = Blocks(arrived[r])
        /\ \A q \in Requests \ {r} : network'[q] = network[q] /\ token'[q] = token[q]
    BY <1>0, <2>2 DEF Types, Gathered
  <2>4. queue' \in Seq(Function)
    BY <2>1, <2>2, Queueing
  <2>5. Types' /\ Counted'
    BY <1>0, <2>2, <2>4 DEF Types, Counted, Holders, Network, None
  <2>6. Awaited' /\ Gathered'
    BY <2>1, <2>2, <2>3, Appended
  <2> QED
    BY <2>5, <2>6 DEF RequestInv
<1>3. ASSUME NEW r \in Requests, Test(r) PROVE RequestInv'
  <2>1. Types' /\ Counted'
    BY <1>0, <1>3 DEF Test, scriptVars, Types, Counted, Holders, Network, None
  <2>2. Awaited' /\ Gathered'
    BY <1>0, <1>3, ZenonT(40) DEF Test, scriptVars, Types, Awaited, Gathered
  <2> QED
    BY <2>1, <2>2 DEF RequestInv
<1>4. ASSUME NEW r \in Requests, SpuriousWakeup(r) PROVE RequestInv'
  <2>1. Types' /\ Counted'
    BY <1>0, <1>4 DEF SpuriousWakeup, scriptVars, objectVars, Types, Counted, Holders, Network, None
  <2>2. Awaited' /\ Gathered'
    BY <1>0, <1>4 DEF SpuriousWakeup, scriptVars, objectVars, Types, Awaited, Gathered
  <2> QED
    BY <2>1, <2>2 DEF RequestInv
<1>5. ASSUME NEW r \in Requests, OnDataAvailable(r) PROVE RequestInv'
  <2>1. PICK n \in 1..(MaxChunks - arrived[r]) :
          /\ buffer' = [buffer EXCEPT ![r] = Filled(r, n)]
          /\ arrived' = [arrived EXCEPT ![r] = @ + n]
    BY <1>5 DEF OnDataAvailable
  <2>2. n \in Nat /\ network[r] = "body" /\ UNCHANGED <<network, refs, token, queue>>
    BY <1>5, BoundsAssumption DEF OnDataAvailable
  <2>3. Filled(r, n) = Blocks(arrived[r] + n) /\ Filled(r, n) \in Seq(Nat)
    BY <2>2, FilledIsBlocks
  <2>4. Types' /\ Counted'
    BY <1>0, <2>1, <2>2, <2>3 DEF Types, Counted
  <2>5. Awaited'
    BY <1>0, <2>2 DEF Awaited
  <2>6. Gathered'
    BY <1>0, <2>1, <2>2, <2>3 DEF Types, Gathered
  <2> QED
    BY <2>4, <2>5, <2>6 DEF RequestInv
<1>6. ASSUME NEW r \in Requests, OnResponseReceived(r) PROVE RequestInv'
  <2>1. PICK n \in 0..(MaxChunks - arrived[r]) :
          /\ Queue([of |-> "response", request |-> r, data |-> Filled(r, n)])
          /\ arrived' = [arrived EXCEPT ![r] = @ + n]
    BY <1>6 DEF OnResponseReceived
  <2>2. n \in Nat /\ network[r] = "body" /\ UNCHANGED token
        /\ buffer' = [buffer EXCEPT ![r] = <<>>]
        /\ refs' = [refs EXCEPT ![r] = @ - 1]
        /\ network' = [network EXCEPT ![r] = "returned"]
    BY <1>6, BoundsAssumption DEF OnResponseReceived, Return
  <2>3. Filled(r, n) = Blocks(arrived[r] + n) /\ Filled(r, n) \in Seq(Nat)
    BY <2>2, FilledIsBlocks
  <2> DEFINE f == [of |-> "response", request |-> r, data |-> Filled(r, n)]
  <2>4. /\ f \in Function /\ Queue(f)
        /\ f.request = r /\ f.of = "response" /\ f.data = Blocks(arrived[r] + n)
    BY <2>1, <2>3 DEF Function
  <2> HIDE DEF f
  <2>5. queue' \in Seq(Function)
    BY <2>2, <2>4, Queueing
  <2>6. Types' /\ Counted'
    BY <1>0, <2>1, <2>2, <2>5 DEF Types, Counted, Holders, Network, None
  <2>7. /\ network'[r] = "returned" /\ arrived'[r] = arrived[r] + n
        /\ \A q \in Requests \ {r} : /\ network'[q] = network[q] /\ token'[q] = token[q]
                                      /\ buffer'[q] = buffer[q] /\ arrived'[q] = arrived[q]
    BY <1>0, <2>1, <2>2 DEF Types
  <2>8. Awaited' /\ Gathered'
    BY <2>2, <2>4, <2>7, Appended
  <2> QED
    BY <2>6, <2>8 DEF RequestInv
<1>7. ASSUME NEW r \in Requests, OnError(r) PROVE RequestInv'
  <2> DEFINE f == [of |-> "error", request |-> r, data |-> <<>>]
  <2>1. f \in Function /\ f.request = r /\ f.of = "error" /\ Queue(f)
    BY <1>7 DEF OnError, Function
  <2> HIDE DEF f
  <2>2. /\ refs' = [refs EXCEPT ![r] = @ - 1]
        /\ network' = [network EXCEPT ![r] = "returned"]
        /\ UNCHANGED <<token, buffer, arrived>> /\ network[r] \in {"open", "body"}
    BY <1>7 DEF OnError, Return
  <2>3. queue' \in Seq(Function)
    BY <2>1, <2>2, Queueing
  <2>4. Types' /\ Counted'
    BY <1>0, <2>2, <2>3 DEF Types, Counted, Holders, Network, None
  <2>5. network'[r] = "returned" /\ \A q \in Requests \ {r} : network'[q] = network[q]
    BY <1>0, <2>2 DEF Types
  <2>6. Awaited' /\ Gathered'
    BY <2>1, <2>2, <2>5, Appended
  <2> QED
    BY <2>4, <2>6 DEF RequestInv
<1>8. ASSUME NEW r \in Requests, ReleaseCallback(r) PROVE RequestInv'
  <2>1. Types' /\ Counted'
    <3>1. refs[r] = 1
      BY <1>0, <1>8 DEF ReleaseCallback, Counted, Holders
    <3>2. refs' = [refs EXCEPT ![r] = refs[r] - 1]
      BY <1>8 DEF ReleaseCallback
    <3>3. refs' = [refs EXCEPT ![r] = 0]
      BY <3>1, <3>2
    <3> QED
      BY <1>0, <1>8, <3>1, <3>3 DEF ReleaseCallback, scriptVars, Types, Counted, Holders, Network
  <2>2. Awaited' /\ Gathered'
    BY <1>0, <1>8 DEF ReleaseCallback, scriptVars, Types, Awaited, Gathered
  <2> QED
    BY <2>1, <2>2 DEF RequestInv
<1>10. ASSUME NEW r \in Requests, RunHeaders(r) PROVE RequestInv'
  <2>1. /\ Runs("headers", r) /\ token' = [token EXCEPT ![r] = "value"]
        /\ UNCHANGED <<network, refs, buffer, arrived>>
    BY <1>10 DEF RunHeaders
  <2>2. \A q \in Requests : token'[q] = token[q] \/ q = r
    BY <1>0, <2>1 DEF Types
  <2>3. queue' \in Seq(Function) /\ Awaited' /\ Gathered'
    BY <2>1, <2>2, Taken
  <2>4. Types' /\ Counted'
    BY <1>0, <2>1, <2>3 DEF Types, Counted
  <2> QED
    BY <2>3, <2>4 DEF RequestInv
<1>11. ASSUME NEW r \in Requests, NotifyOne(r) PROVE RequestInv'
  <2>1. /\ UNCHANGED <<refs, token, buffer, arrived, queue>>
        /\ \/ network' = network
           \/ network[r] = "asleep" /\ network' = [network EXCEPT ![r] = "wait"]
    BY <1>0, <1>11 DEF NotifyOne, objectVars, scriptVars, Types
  <2>2. CASE network[r] = "asleep" /\ network' = [network EXCEPT ![r] = "wait"]
    <3>1. Types' /\ Counted'
      BY <1>0, <2>1, <2>2 DEF Types, Counted, Holders, Network
    <3>2. Awaited'
      BY <1>0, <2>1, <2>2 DEF Types, Awaited
    <3>3. Gathered'
      BY <1>0, <2>1, <2>2 DEF Types, Gathered
    <3> QED
      BY <3>1, <3>2, <3>3 DEF RequestInv
  <2> QED
    BY <1>q, <2>1, <2>2
<1>12. ASSUME NEW r \in Requests, RunResponse(r) \/ RunError(r) PROVE RequestInv'
  <2>1. PICK of : Runs(of, r) /\ UNCHANGED <<network, objectVars>>
    BY <1>12 DEF RunResponse, RunError
  <2>2. queue' \in Seq(Function) /\ Awaited' /\ Gathered'
    BY <2>1, Taken DEF objectVars
  <2>3. Types' /\ Counted'
    BY <1>0, <2>1, <2>2 DEF Types, Counted, objectVars
  <2> QED
    BY <2>2, <2>3 DEF RequestInv
<1>14. ASSUME NEW r \in Requests, RunHeadersThrows(r) PROVE RequestInv'
  <2>1. Runs("headers", r) /\ UNCHANGED <<network, refs, token, buffer, arrived>>
    BY <1>14 DEF RunHeadersThrows, objectVars
  <2>2. queue' \in Seq(Function) /\ Awaited' /\ Gathered'
    BY <2>1, Taken
  <2>3. Types' /\ Counted'
    BY <1>0, <2>1, <2>2 DEF Types, Counted
  <2> QED
    BY <2>2, <2>3 DEF RequestInv
<1>13. CASE Exit \/ UNCHANGED vars
  BY <1>q, <1>13 DEF Exit, vars, objectVars, scriptVars
<1> QED
  BY <1>1, <1>2, <1>3, <1>4, <1>5, <1>6, <1>7, <1>8, <1>10, <1>11, <1>12, <1>13, <1>14
     DEF Next, NetworkThread, ServerThread

(***************************************************************************)
(* The function OnHeadersAvailable queues finds everything it has by       *)
(* reference, whatever other requests do: NotifyToken::wait does not       *)
(* return before it has run, and the callback object is held.              *)
(***************************************************************************)
THEOREM ReferencesAreAlive == Spec => []ByReference
<1>1. RequestInv => ByReference
  <2> SUFFICES ASSUME RequestInv, NEW i \in 1..Len(queue), queue[i].of = "headers"
               PROVE  /\ network[queue[i].request] \in {"wait", "asleep"}
                      /\ token[queue[i].request] = "empty" /\ refs[queue[i].request] = 2
    BY DEF ByReference
  <2>1. queue[i].request \in Requests
    BY QueueTypes DEF RequestInv
  <2> QED
    BY <2>1 DEF RequestInv, Awaited, Counted, Holders
<1> QED
  BY <1>1, RequestInvInit, RequestInvStep, PTL DEF Spec

(***************************************************************************)
(* The function OnResponseReceived queues has the whole body, in order.    *)
(***************************************************************************)
THEOREM BodiesAreComplete == Spec => []BodyComplete
<1>1. RequestInv => BodyComplete
  BY DEF RequestInv, Gathered, BodyComplete, Blocks
<1> QED
  BY <1>1, RequestInvInit, RequestInvStep, PTL DEF Spec

(***************************************************************************)
(* The object the functions of the last callback reach through `this' is   *)
(* there until the XHR object lets go of it, and not a moment longer.      *)
(***************************************************************************)
THEOREM RawThisLivesAsLongAsXHR == Spec => []RawThis
<1>1. RequestInv => RawThis
  <2> SUFFICES ASSUME RequestInv, NEW i \in 1..Len(queue), queue[i].of \in {"response", "error"}
               PROVE  /\ network[queue[i].request] \in {"returned", "done"}
                      /\ refs[queue[i].request] = 0 <=> network[queue[i].request] = "done"
    BY DEF RawThis
  <2>1. queue[i].request \in Requests
    BY QueueTypes DEF RequestInv
  <2> QED
    BY <2>1 DEF RequestInv, Gathered, Counted, Holders
<1> QED
  BY <1>1, RequestInvInit, RequestInvStep, PTL DEF Spec

(***************************************************************************)
(* For any number of requests, what a queued function uses is there and    *)
(* whole, except the object of a last callback that the XHR object has let *)
(* go of before its function ran: that function uses freed memory.         *)
(***************************************************************************)
THEOREM QueuedUsableUnlessReleased == Spec => []UsableUnlessReleased
BY ReferencesAreAlive, BodiesAreComplete, RawThisLivesAsLongAsXHR, PTL DEF UsableUnlessReleased
=============================================================================
