----------------------------- MODULE Transport ------------------------------
(***************************************************************************)
(* A call to Gate all the way to the decision service and back:            *)
(* client.DecideFunc, the Connect client and handler of                    *)
(* decision.connect.go, the HTTP client NewSentinelClient was given, and a *)
(* network that may fail at any point.  The caller's side of an exchange   *)
(* ends when its context does, when the host's HTTP client times out, if   *)
(* it does at all (http.DefaultClient never), or with what the network     *)
(* brings; the service's side does not know.                               *)
(*                                                                         *)
(* A message on the wire is the fields that protobuf puts there; decoding  *)
(* fills in the rest from the zero message.                                *)
(***************************************************************************)
EXTENDS Gate

CONSTANTS
  TransportOptions,  \* what the host may build its client with
  Replies            \* the DecideResponses the service may give

(* A URL is the pieces of its path, the slashes among them.  The handler is mounted
   for SentinelDecisionServiceDecideProcedure. *)
DecideProcedure == <<"/", "sentinel.probe.v1.SentinelDecisionService", "/", "Decide">>

(* strings.TrimRight of "/". *)
TrimRight(path) ==
  SubSeq(path, 1, Max({n \in 0 .. Len(path) : n = 0 \/ path[n] # "/"}))

(* NewSentinelDecisionServiceClient: where it asks, and with what HTTP client. *)
NewSentinelDecisionServiceClient(httpClient, baseURL) ==
  [ url |-> TrimRight(baseURL) \o DecideProcedure, timeout |-> httpClient.timeout ]

(* http.DefaultClient never gives up. *)
DefaultClient == [ timeout |-> FALSE ]

(* A slip: the HTTP client the host installed is left out. *)
NewSentinelClientDefault(opts) ==
  NewSentinelDecisionServiceClient(DefaultClient, opts.BaseURL)

NewSentinelClient(opts) ==
  NewSentinelDecisionServiceClient(OrZero(opts.HTTPClient, DefaultClient), opts.BaseURL)

(* Marshal and Unmarshal.  A pointer that is nil is never on the wire, nor is a
   field without presence that holds its zero. *)
Encode(m, zero) ==
  [ f \in {f \in DOMAIN m : m[f] # Nil /\ m[f] # zero[f]} |-> m[f] ]
Decode(fields, zero) ==
  [ f \in DOMAIN zero |-> IF f \in DOMAIN fields THEN fields[f] ELSE zero[f] ]

(* What a generated struct cannot be otherwise: only a field whose zero is nil,
   a pointer, is nil; and a message on the wire is no nil either. *)
HasShapeOf(m, zero) ==
  /\ m = [f \in DOMAIN zero |-> m[f]]
  /\ \A f \in DOMAIN zero : m[f] = Nil => zero[f] = Nil
  /\ Encode(m, zero) # Nil

ASSUME TransportAssumption ==
  /\ \A i \in Inputs : i.event # Nil => HasShapeOf(i.event, ZeroProducerEvent)
  /\ \A i \in Inputs : Nil \notin {i.options.requestId, i.options.idempotencyKey,
                                  i.options.sourceHandle}
  /\ Replies \subseteq DecideResponse /\ Nil \notin Replies
  /\ \A response \in Replies : HasShapeOf(response, ZeroDecideResponse)

VARIABLES
  options,   \* the TransportOptions of the host
  client,    \* the SentinelDecisionServiceClient: its procedure URL and timeout
  exchange,  \* where each call's HTTP exchange is
  frame,     \* what of each exchange is on the wire
  served,    \* the DecideRequest the service was called with, or Nil
  replied    \* history: the DecideResponse the service gave, or Nil

netVars == <<options, client, exchange, frame, served, replied>>

(* A slip: filter_epoch without its "optional", so that zero is never on the wire. *)
MarshalRequestImplicit(r) ==
  Encode([ r EXCEPT !.producerEvent = IF @ = Nil THEN Nil ELSE Encode(@, ZeroProducerEvent) ],
         [ ZeroDecideRequest EXCEPT !.filterEpoch = 0 ])

MarshalRequest(r) ==
  Encode([ r EXCEPT !.producerEvent = IF @ = Nil THEN Nil ELSE Encode(@, ZeroProducerEvent) ],
         ZeroDecideRequest)
UnmarshalRequest(fields) ==
  LET r == Decode(fields, ZeroDecideRequest)
  IN  [ r EXCEPT !.producerEvent = IF @ = Nil THEN Nil ELSE Decode(@, ZeroProducerEvent) ]

-----------------------------------------------------------------------------
TransportInit ==
  /\ Init
  /\ options \in TransportOptions
  /\ client = NewSentinelClient(options)
  /\ exchange = [c \in Calls |-> "closed"]
  /\ frame = [c \in Calls |-> Nil]
  /\ served = [c \in Calls |-> Nil]
  /\ replied = [c \in Calls |-> Nil]

(* Gate is called, or called again by a host that retries. *)
EnterGate(c, i, done) ==
  /\ Enter(c, i, done)
  /\ exchange' = [exchange EXCEPT ![c] = "closed"]
  /\ frame' = [frame EXCEPT ![c] = Nil]
  /\ served' = [served EXCEPT ![c] = Nil]
  /\ replied' = [replied EXCEPT ![c] = Nil]
  /\ UNCHANGED <<options, client>>

(* CallUnary puts the request on the wire. *)
Send(c) ==
  /\ pc[c] = "asked"
  /\ exchange[c] = "closed"
  /\ exchange' = [exchange EXCEPT ![c] = "sent"]
  /\ frame' = [frame EXCEPT ![c] = MarshalRequest(request[c])]
  /\ UNCHANGED <<vars, options, client, served, replied>>

(* The handler routes by path, and the service is called. *)
Serve(c) ==
  /\ exchange[c] = "sent"
  /\ client.url = DecideProcedure
  /\ exchange' = [exchange EXCEPT ![c] = "serving"]
  /\ served' = [served EXCEPT ![c] = UnmarshalRequest(frame[c])]
  /\ UNCHANGED <<vars, options, client, frame, replied>>

(* Any other path is not found. *)
NotFound(c) ==
  /\ exchange[c] = "sent"
  /\ client.url # DecideProcedure
  /\ exchange' = [exchange EXCEPT ![c] = "failed"]
  /\ UNCHANGED <<vars, options, client, frame, served, replied>>

(* The service returns a response, whether anyone still waits for it or not. *)
Reply(c, response) ==
  /\ exchange[c] = "serving"
  /\ exchange' = [exchange EXCEPT ![c] = "replied"]
  /\ frame' = [frame EXCEPT ![c] = Encode(response, ZeroDecideResponse)]
  /\ replied' = [replied EXCEPT ![c] = response]
  /\ UNCHANGED <<vars, options, client, served>>

(* An unimplemented service, or one that returns an error. *)
ReplyError(c) ==
  /\ exchange[c] = "serving"
  /\ exchange' = [exchange EXCEPT ![c] = "failed"]
  /\ UNCHANGED <<vars, options, client, frame, served, replied>>

(* The network fails, before the request arrives or after it was served. *)
Break(c) ==
  /\ exchange[c] \in {"sent", "serving", "replied"}
  /\ exchange' = [exchange EXCEPT ![c] = "failed"]
  /\ UNCHANGED <<vars, options, client, frame, served, replied>>

(* A slip: DecideFunc returning response.Msg without looking at err. *)
DecideFailsUnchecked(c) ==
  /\ exchange[c] = "failed"
  /\ EndpointReturns(c, ZeroDecideResponse.action)
  /\ UNCHANGED netVars

(* DecideFunc returns the error unwrapped: a Connect status, or worse. *)
DecideFails(c) ==
  /\ exchange[c] = "failed"
  /\ EndpointReturns(c, "endpoint-error")
  /\ UNCHANGED netVars

(* DecideFunc returns response.Msg. *)
DecideReturns(c) ==
  /\ exchange[c] = "replied"
  /\ EndpointReturns(c, Decode(frame[c], ZeroDecideResponse).action)
  /\ UNCHANGED netVars

(* The context of the call is done: Connect closes the exchange at once. *)
HangUp(c) == TransportGivesUp(c) /\ UNCHANGED netVars

(* The HTTP client the host installed has a timeout of its own. *)
TimeOut(c) ==
  /\ client.timeout
  /\ EndpointReturns(c, "context-error")
  /\ UNCHANGED netVars

TransportNext ==
  \/ \E c \in Calls :
       \/ \E i \in Inputs, done \in BOOLEAN : EnterGate(c, i, done)
       \/ Step(c) /\ UNCHANGED netVars
       \/ Send(c) \/ Serve(c) \/ NotFound(c)
       \/ \E response \in Replies : Reply(c, response)
       \/ ReplyError(c) \/ Break(c)
       \/ DecideFails(c) \/ DecideReturns(c) \/ HangUp(c) \/ TimeOut(c)
       \/ Cancel(c) /\ UNCHANGED netVars
  \/ \E t \in Clock : ClockMoves(t) /\ UNCHANGED netVars

TransportSpec == TransportInit /\ [][TransportNext]_<<vars, netVars>>

(* The caller's goroutine keeps running, on every side of Connect it is on; a
   context or a timeout that is over is noticed.  Nothing says the service ever
   replies, or that the network delivers. *)
TransportFairness ==
  \A c \in Calls :
    /\ WF_<<vars, netVars>>(Step(c) /\ UNCHANGED netVars)
    /\ WF_<<vars, netVars>>(Send(c))
    /\ WF_<<vars, netVars>>(DecideFails(c) \/ DecideReturns(c))
    /\ WF_<<vars, netVars>>(HangUp(c))
    /\ WF_<<vars, netVars>>(TimeOut(c))

FairTransportSpec == TransportSpec /\ TransportFairness

-----------------------------------------------------------------------------
(* The service decides on the very request Gate built, whatever the network does
   and however often the host retries: the filter epoch and the acknowledged one
   told from zero, the budget and the projected event whole (presence in
   decision.proto and event.proto). *)
RequestArrivesIntact ==
  \A c \in Calls : served[c] # Nil => served[c] = request[c]

(* Gate acts on an action only if the service gave it, for the request of this
   very call: no failed, refused or lost exchange is taken for an answer, not even
   for the zero action (DecideFunc). *)
AnswerIsTheServices ==
  \A c \in Calls : answer[c] \in Actions =>
    /\ replied[c] # Nil /\ replied[c].action = answer[c]
    /\ served[c] = request[c]

(* With a timeout installed in the HTTP client, every ask ends, though nobody
   cancels it and the service never replies; without one only its context ends it
   (TransportOptions.HTTPClient, NewSentinelClient). *)
HostTimeoutEndsCalls ==
  \A c \in Calls :
    options.HTTPClient = [ timeout |-> TRUE ] /\ pc[c] = "asked"
      ~> pc[c] \in {"returned", "panicked"}
=============================================================================
