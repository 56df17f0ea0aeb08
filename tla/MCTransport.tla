---------------------------- MODULE MCTransport -----------------------------
(* Calls of MCGate over the wire: events and filters that carry epoch 0 and none,
   base URLs that are right and wrong, and a service that may say anything. *)
EXTENDS Transport, MCGate

MCTransportOptions ==
  [ BaseURL : {<<"/">>, <<"/", "sentinel", "/">>},
    HTTPClient : {Nil} \cup [ timeout : BOOLEAN ] ]

MCReplies ==
  { [ requestId |-> "r1", action |-> a, specifications |-> {} ] : a \in DecisionActions }

MCWireInputs ==
  [ filter : {Filter(0, {open2, closed3})},
    event : {Nil} \cup
            {[ Charge EXCEPT !.acknowledgedFilterEpoch = e ] : e \in {Nil, 0}},
    deadline : {Nil, 1}, deps : {AllWired, {"AcceptedFailModeFor", "NowMonotonicNs"}},
    options : MCOptions, accepted : {{closed3}} ]
=============================================================================
