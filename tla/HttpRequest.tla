---------------------------- MODULE HttpRequest ----------------------------
(***************************************************************************)
(* The function HttpRequest of ScriptingSupport/apiset/httprequest.cpp.    *)
(*                                                                         *)
(* A script calls it on the server thread.  The XHR object of the system   *)
(* then calls the callback object of the request on a network thread, one  *)
(* callback at a time: OnHeadersAvailable, OnDataAvailable any number of   *)
(* times and OnResponseReceived, or OnError instead of any of them.  The   *)
(* engine may be used on the server thread only, so each callback queues a *)
(* function there; the first one waits, on a NotifyToken on its stack,     *)
(* until its function has run.                                             *)
(*                                                                         *)
(* The callback object is counted: one reference for HttpRequest, which    *)
(* the last callback releases, and one for the XHR object, which releases  *)
(* it some time after that callback has returned.                          *)
(***************************************************************************)
EXTENDS Naturals, Sequences

CONSTANTS
    Requests,    \* calls of HttpRequest
    MaxChunks    \* bound: blocks of a body

ASSUME BoundsAssumption == MaxChunks \in Nat

VARIABLES
    network,     \* where the callbacks of each request are
    refs,        \* references to the callback object
    token,       \* the NotifyToken: none, empty, or with its value
    buffer,      \* SimpleBuffer: blocks of the body
    arrived,     \* blocks the network has delivered
    queue,       \* functions queued for the server thread
    server,      \* what the server thread does
    holder,      \* which promise the holders resolve and reject are for
    promise,     \* the promise HttpRequest returned
    data         \* the promise in the property "data" of the response

objectVars == <<refs, token, buffer, arrived>>
scriptVars == <<holder, promise, data>>
vars == <<network, objectVars, queue, server, scriptVars>>

None == "none"

\* A queued function: of which callback, for which request, and what it has copied.
Function == [of : {"headers", "response", "error"}, request : Requests, data : Seq(Nat)]

Network == {"unused", "refused", "open", "wait", "asleep", "body", "returned", "done"}

\* "notify": between the two halves of NotifyToken::notify.  "undefined": a
\* released object or token was used.  "exited": the queue is not run any more.
Server == [does : {"idle", "exited", "undefined"}] \cup [does : {"notify"}, request : Requests]

Idle == [does |-> "idle"]
Exited == [does |-> "exited"]
Undefined == [does |-> "undefined"]

Promise == {None, "pending", "response", "buffer", "error"}

Init ==
    /\ network = [r \in Requests |-> "unused"]
    /\ refs = [r \in Requests |-> 0]
    /\ token = [r \in Requests |-> None]
    /\ buffer = [r \in Requests |-> <<>>]
    /\ arrived = [r \in Requests |-> 0]
    /\ queue = <<>>
    /\ server = Idle
    /\ holder = [r \in Requests |-> "promise"]
    /\ promise = [r \in Requests |-> None]
    /\ data = [r \in Requests |-> None]

Queue(f) == queue' = Append(queue, f)

----------------------------------------------------------------------------
(***************************************************************************)
(* The script's call.                                                      *)
(***************************************************************************)
HttpRequest(r) ==
    /\ server = Idle /\ network[r] = "unused"
    /\ promise' = [promise EXCEPT ![r] = "pending"]
    /\ \/ /\ network' = [network EXCEPT ![r] = "open"]
          /\ refs' = [refs EXCEPT ![r] = 2]
       \* Open or Send fails: the script gets an exception instead of the promise.
       \/ /\ network' = [network EXCEPT ![r] = "refused"]
          /\ refs' = [refs EXCEPT ![r] = 1]
    /\ UNCHANGED <<token, buffer, arrived, queue, server, holder, data>>

----------------------------------------------------------------------------
(***************************************************************************)
(* The network thread.                                                     *)
(***************************************************************************)
\* Mutant of OnHeadersAvailable: does not wait.
OnHeadersAvailable_NoWait(r) ==
    /\ network[r] = "open"
    /\ Queue([of |-> "headers", request |-> r, data |-> <<>>])
    /\ network' = [network EXCEPT ![r] = "body"]
    /\ token' = [token EXCEPT ![r] = "empty"]
    /\ UNCHANGED <<refs, buffer, arrived, server, scriptVars>>

OnHeadersAvailable(r) ==
    /\ network[r] = "open"
    /\ Queue([of |-> "headers", request |-> r, data |-> <<>>])
    /\ network' = [network EXCEPT ![r] = "wait"]
    /\ token' = [token EXCEPT ![r] = "empty"]
    /\ UNCHANGED <<refs, buffer, arrived, server, scriptVars>>

\* NotifyToken::wait tests its condition: without a value the thread goes to
\* sleep; with one the callback returns and the token is gone.
Test(r) ==
    /\ network[r] = "wait"
    /\ IF token[r] = "empty"
       THEN network' = [network EXCEPT ![r] = "asleep"] /\ token' = token
       ELSE network' = [network EXCEPT ![r] = "body"] /\ token' = [token EXCEPT ![r] = None]
    /\ UNCHANGED <<refs, buffer, arrived, queue, server, scriptVars>>

SpuriousWakeup(r) ==
    /\ network[r] = "asleep"
    /\ network' = [network EXCEPT ![r] = "wait"]
    /\ UNCHANGED <<objectVars, queue, server, scriptVars>>

\* The blocks fillBuffer reads until there is none left.
Filled(r, n) == buffer[r] \o [i \in 1..n |-> arrived[r] + i]

OnDataAvailable(r) ==
    /\ network[r] = "body"
    /\ \E n \in 1..(MaxChunks - arrived[r]) :
          /\ buffer' = [buffer EXCEPT ![r] = Filled(r, n)]
          /\ arrived' = [arrived EXCEPT ![r] = @ + n]
    /\ UNCHANGED <<network, refs, token, queue, server, scriptVars>>

\* The end of OnResponseReceived and of OnError.
Return(r) ==
    /\ refs' = [refs EXCEPT ![r] = @ - 1]
    /\ network' = [network EXCEPT ![r] = "returned"]

\* The function takes the length and the contents of the buffer, and keeps `this'
\* without a reference.
OnResponseReceived(r) ==
    /\ network[r] = "body"
    /\ \E n \in 0..(MaxChunks - arrived[r]) :
          /\ Queue([of |-> "response", request |-> r, data |-> Filled(r, n)])
          /\ arrived' = [arrived EXCEPT ![r] = @ + n]
    /\ buffer' = [buffer EXCEPT ![r] = <<>>]
    /\ Return(r)
    /\ UNCHANGED <<token, server, scriptVars>>

OnError(r) ==
    /\ network[r] \in {"open", "body"}
    /\ Queue([of |-> "error", request |-> r, data |-> <<>>])
    /\ Return(r)
    /\ UNCHANGED <<token, buffer, arrived, server, scriptVars>>

\* The XHR object lets go of the callback object.
ReleaseCallback(r) ==
    /\ network[r] = "returned"
    /\ refs' = [refs EXCEPT ![r] = @ - 1]
    /\ network' = [network EXCEPT ![r] = "done"]
    /\ UNCHANGED <<token, buffer, arrived, queue, server, scriptVars>>

----------------------------------------------------------------------------
(***************************************************************************)
(* The server thread.                                                      *)
(***************************************************************************)
\* JsCallFunction on a function that resolves or rejects a promise: a promise
\* that is settled stays as it is.
Settle(r, which, value) ==
    /\ promise' = IF which = "promise" /\ promise[r] = "pending"
                  THEN [promise EXCEPT ![r] = value] ELSE promise
    /\ data' = IF which = "data" /\ data[r] = "pending"
               THEN [data EXCEPT ![r] = value] ELSE data

Runs(of, r) ==
    /\ server = Idle /\ queue # <<>>
    /\ Head(queue).of = of /\ Head(queue).request = r
    /\ queue' = Tail(queue)

\* Mutant of RunHeaders: returns without a value for the token.
RunHeaders_NoValue(r) ==
    /\ Runs("headers", r)
    /\ holder' = [holder EXCEPT ![r] = "data"]
    /\ data' = [data EXCEPT ![r] = "response"]
    /\ UNCHANGED <<network, objectVars, server, promise>>

(***************************************************************************)
(* The function of OnHeadersAvailable.  It makes the promise for the body, *)
(* puts its functions into the holders, and then calls the holder resolve  *)
(* with the response: what is resolved is the promise for the body.  At    *)
(* the end it gives the token its value and unlocks it.                    *)
(***************************************************************************)
RunHeaders(r) ==
    /\ Runs("headers", r)
    /\ holder' = [holder EXCEPT ![r] = "data"]
    /\ data' = [data EXCEPT ![r] = "response"]
    /\ token' = [token EXCEPT ![r] = "value"]
    /\ server' = [does |-> "notify", request |-> r]
    /\ UNCHANGED <<network, refs, buffer, arrived, promise>>

\* A call of the engine in that function throws: the token gets no value.  The
\* promise for the body may exist by then.  An exception that the game's loop over
\* the queue does not catch ends the process.
RunHeadersThrows(r) ==
    /\ Runs("headers", r)
    /\ \/ UNCHANGED <<holder, data>>
       \/ /\ holder' = [holder EXCEPT ![r] = "data"]
          /\ data' = [data EXCEPT ![r] = "pending"]
    /\ server' \in {Idle, Exited}
    /\ UNCHANGED <<network, objectVars, promise>>

\* The token may be gone already: its thread needs no signal to see the value.
NotifyOne(r) ==
    /\ server = [does |-> "notify", request |-> r]
    /\ IF token[r] = None
       THEN server' = Undefined /\ network' = network
       ELSE /\ server' = Idle
            /\ network' = [network EXCEPT ![r] = IF @ = "asleep" THEN "wait" ELSE @]
    /\ UNCHANGED <<objectVars, queue, scriptVars>>

\* The functions of the last callback reach the holders through `this'.
RunResponse(r) ==
    /\ Runs("response", r)
    /\ IF refs[r] = 0
       THEN server' = Undefined /\ UNCHANGED <<promise, data>>
       ELSE Settle(r, holder[r], "buffer") /\ server' = server
    /\ UNCHANGED <<network, objectVars, holder>>

RunError(r) ==
    /\ Runs("error", r)
    /\ IF refs[r] = 0
       THEN server' = Undefined /\ UNCHANGED <<promise, data>>
       ELSE Settle(r, holder[r], "error") /\ server' = server
    /\ UNCHANGED <<network, objectVars, holder>>

\* The server exits; functions that are still queued are never run.
Exit ==
    /\ server = Idle
    /\ server' = Exited
    /\ UNCHANGED <<network, objectVars, queue, scriptVars>>

NetworkThread(r) ==
    \/ OnHeadersAvailable(r) \/ Test(r) \/ OnDataAvailable(r)
    \/ OnResponseReceived(r) \/ OnError(r) \/ ReleaseCallback(r)

ServerThread ==
    \E r \in Requests :
        RunHeaders(r) \/ RunHeadersThrows(r) \/ NotifyOne(r) \/ RunResponse(r) \/ RunError(r)

Next ==
    \/ \E r \in Requests : HttpRequest(r) \/ NetworkThread(r) \/ SpuriousWakeup(r)
    \/ ServerThread
    \/ Exit

Spec == Init /\ [][Next]_vars

\* The server runs what is queued until it exits; the callbacks of each request
\* are called, and its wait returns when it can.
FairSpec ==
    /\ Spec
    /\ WF_vars(ServerThread)
    /\ \A r \in Requests : WF_vars(NetworkThread(r))

----------------------------------------------------------------------------

TypeOK ==
    /\ network \in [Requests -> Network]
    /\ refs \in [Requests -> 0..2]
    /\ token \in [Requests -> {None, "empty", "value"}]
    /\ buffer \in [Requests -> Seq(Nat)]
    /\ arrived \in [Requests -> 0..MaxChunks]
    /\ queue \in Seq(Function)
    /\ server \in Server
    /\ holder \in [Requests -> {"promise", "data"}]
    /\ promise \in [Requests -> Promise]
    /\ data \in [Requests -> Promise]

Stopped == server \in {Exited, Undefined}

(***************************************************************************)
(* The function of OnHeadersAvailable has everything by reference: the     *)
(* locals of the callback, the token and the callback object.  As long as  *)
(* it is queued, the callback waits and its object is held twice, whatever *)
(* other requests and spurious wakeups do.                                 *)
(***************************************************************************)
ByReference ==
    \A i \in 1..Len(queue) :
        LET r == queue[i].request IN
        queue[i].of = "headers" =>
            network[r] \in {"wait", "asleep"} /\ token[r] = "empty" /\ refs[r] = 2

(***************************************************************************)
(* The function of OnResponseReceived takes along the whole body, in       *)
(* order, although the buffer is emptied in the expression that reads its  *)
(* length and although OnDataAvailable has filled it in parts.             *)
(***************************************************************************)
BodyComplete ==
    \A i \in 1..Len(queue) :
        queue[i].of = "response" =>
            queue[i].data = [k \in 1..arrived[queue[i].request] |-> k]

(***************************************************************************)
(* The functions of the last callback keep a raw `this'.  The object is    *)
(* there until the XHR object lets go of it, and gone from then on: no     *)
(* reference of theirs keeps it, so a function that is queued longer than  *)
(* the XHR object lives settles a promise through freed memory             *)
(* (RunResponse, RunError).                                                *)
(***************************************************************************)
RawThis ==
    \A i \in 1..Len(queue) :
        LET r == queue[i].request IN
        queue[i].of \in {"response", "error"} =>
            /\ network[r] \in {"returned", "done"}
            /\ refs[r] = 0 <=> network[r] = "done"

(***************************************************************************)
(* What a queued function uses on the server thread is there and whole     *)
(* while the network threads go on, with one exception: the object of the  *)
(* last callback, once the XHR object has let go of it.                    *)
(***************************************************************************)
UsableUnlessReleased == ByReference /\ BodyComplete /\ RawThis

\* A function of this callback is queued for the request.
Queued(of, r) == \E i \in 1..Len(queue) : queue[i].of = of /\ queue[i].request = r

\* The function of OnHeadersAvailable has thrown: it is not queued any more, and has
\* not come as far as the response.
Thrown(r) == token[r] = "empty" /\ ~Queued("headers", r) /\ data[r] # "response"

(***************************************************************************)
(* A network thread waits forever for the server thread                    *)
(* (OnHeadersAvailable) only if the function it waits for has thrown, and  *)
(* an error that comes before the headers rejects the promise the script   *)
(* has (OnError), unless the server has exited or a released object was    *)
(* used.                                                                   *)
(***************************************************************************)
RequestsSettle ==
    \A r \in Requests :
        /\ network[r] \in {"wait", "asleep"}
              ~> network[r] \notin {"wait", "asleep"} \/ Thrown(r) \/ Stopped
        /\ Queued("error", r) /\ data[r] = None ~> promise[r] = "error" \/ Stopped

(***************************************************************************)
(* ez.d.ts:385: HttpRequest returns a "Promise<HttpResponse>".  Once the   *)
(* response has been received the promise is resolved with it, and once    *)
(* the request has failed, before the headers or after them, it is         *)
(* rejected.                                                               *)
(***************************************************************************)
ResponseReported ==
    \A r \in Requests :
        /\ Queued("response", r) ~> promise[r] = "response" \/ Stopped
        /\ Queued("error", r) ~> promise[r] = "error" \/ Stopped
=============================================================================
