----------------------------- MODULE MCStartup ------------------------------
(* Three Probes of one process, two of which name a service.  Documents with
   every fault, alone and two at a time; a literal with a tier only a literal can
   hold.  The host's slice has room for one more option. *)
EXTENDS Startup, TLC

Good(spelling) == [ isObject |-> TRUE, tier |-> spelling, extra |-> {"owner"} ]
Bad(spelling) == [ isObject |-> TRUE, tier |-> spelling, extra |-> {} ]
NoObject == [ isObject |-> FALSE, tier |-> "absent", extra |-> {} ]
Object(entries) == [ is |-> "JSON object", entries |-> entries ]

MCRaw ==
  { [ is |-> "no JSON", entries |-> <<>> ], [ is |-> "other JSON", entries |-> <<>> ],
    Object(<<>>),
    Object("ledger" :> Good("ANCHOR") @@ "web" :> Good("CONTRIBUTING")),
    Object("web" :> Good("CONTRIBUTING")),
    Object("ledger" :> Bad("another string") @@ "web" :> NoObject),
    Object("ledger" :> Bad("absent") @@ "web" :> Bad("not a string")),
    Object("ledger" :> Good("ANCHOR") @@ "web" :> Bad("another string")) }

Literal(spelling) == [ Tier |-> spelling, Extra |-> {} ]
MCHandBuilt == { "ledger" :> Literal("ANCHOR") @@ "web" :> Literal("anchor") }

MCProbes == {"p1", "p2", "p3"}
MCHandleOf == "p1" :> "ledger" @@ "p2" :> "web" @@ "p3" :> "web"
MCServiceName == "p1" :> "ledger-service" @@ "p2" :> "web-service" @@ "p3" :> ""
MCHostOptions == << [ with |-> "other", service |-> "", schemaless |-> FALSE ] >>
=============================================================================
