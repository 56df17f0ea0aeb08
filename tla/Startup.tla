------------------------------- MODULE Startup ------------------------------
(***************************************************************************)
(* A process that starts several Probes, each in a goroutine: it reads its *)
(* source tier from the deployment's configuration (config/sourcetier.go,  *)
(* or a configuration written by hand) and builds its tracer               *)
(* (emission/tracer.go) from the provider options they all share.          *)
(*                                                                         *)
(* Entries are validated in map order, that is in any order, and the first *)
(* bad one ends it.  The options are a Go slice: a length, and an array    *)
(* that may have room beyond it and that every holder of the slice shares. *)
(***************************************************************************)
EXTENDS SourceTier, Sequences

CONSTANTS
  Probes,       \* the goroutines that start a Probe
  Raw,          \* the documents a deployment may ship
  HandBuilt,    \* the configurations a host may write itself
  HandleOf,     \* the source_handle of each Probe
  ServiceName,  \* the service name of each Probe, or "" for none
  HostOptions,  \* the ProviderOptions they share
  Capacity      \* the capacity of the array behind them

ProviderOption == [ with : {"resource", "other"}, service : STRING, schemaless : BOOLEAN ]

ASSUME StartupAssumption ==
  /\ Handles \subseteq STRING
  /\ Nil \notin SourceTiers \cup Faults \cup Errors \cup Documents
  /\ Raw \subseteq Documents
  /\ \A config \in HandBuilt : \A h \in DOMAIN config : config[h] \in SourceEntry
  /\ HandleOf \in [Probes -> Handles]
  /\ ServiceName \in [Probes -> STRING]
  /\ HostOptions \in Seq(ProviderOption)
  /\ Capacity \in Nat /\ Capacity >= Len(HostOptions)
  /\ "host" \notin Probes /\ Nil \notin Seq(ProviderOption)

VARIABLES
  stage,    \* where each Probe is
  raw,      \* the document each one reads
  left,     \* the handles its parse has not visited
  config,   \* the configuration so far, or the one returned; Nil with an error
  tier,     \* the tier it resolved
  err,      \* the error it got, or Nil
  arrays,   \* the array of the host's slice, and of each Probe's clone
  options,  \* providerOptions: the array it is backed by and its length
  provider, \* the options each Probe's provider was built with, or Nil
  handled   \* the Probes whose drift otel.Handle was told of

configVars == <<raw, left, config, tier, err>>
tracerVars == <<arrays, options, provider, handled>>
vars == <<stage, configVars, tracerVars>>

At(p, from) == stage[p] = from
Goto(p, to) == stage' = [stage EXCEPT ![p] = to]

declared(p) == DOMAIN raw[p].entries
entry(p, h) == raw[p].entries[h]

(* WithResource of a resource merged over the default one: whole, or without
   a schema when the two schemas disagree. *)
WithResource(name, drift) ==
  [ with |-> "resource", service |-> name, schemaless |-> drift ]

-----------------------------------------------------------------------------
Init ==
  /\ stage = [p \in Probes |-> "idle"]
  /\ raw = [p \in Probes |-> Nil]
  /\ left = [p \in Probes |-> {}]
  /\ config = [p \in Probes |-> Nil]
  /\ tier = [p \in Probes |-> Nil]
  /\ err = [p \in Probes |-> Nil]
  /\ arrays = [a \in Probes \cup {"host"} |->
       [i \in 1 .. Capacity |->
          IF a = "host" /\ i <= Len(HostOptions) THEN HostOptions[i] ELSE Nil]]
  /\ options = [p \in Probes |-> Nil]
  /\ provider = [p \in Probes |-> Nil]
  /\ handled = {}

Fail(p, error) ==
  /\ Goto(p, "failed")
  /\ err' = [err EXCEPT ![p] = error]
  /\ config' = [config EXCEPT ![p] = Nil]
  /\ left' = [left EXCEPT ![p] = {}]

(* LoadSourceTierConfig, up to the loop over the entries. *)
Load(p, document) ==
  /\ At(p, "idle")
  /\ raw' = [raw EXCEPT ![p] = document]
  /\ IF document.is # "JSON object"
     THEN Fail(p, Error(document.is, Nil))
     ELSE /\ Goto(p, "parsing")
          /\ left' = [left EXCEPT ![p] = DOMAIN document.entries]
          /\ config' = [config EXCEPT ![p] = [h \in {} |-> Nil]]
          /\ UNCHANGED err
  /\ UNCHANGED <<tier, tracerVars>>

(* A slip: what was parsed so far is returned with the error. *)
EntryFailsPartially(p, h) ==
  /\ At(p, "parsing")
  /\ h \in left[p]
  /\ FaultOf(entry(p, h)) # Nil
  /\ Goto(p, "failed")
  /\ err' = [err EXCEPT ![p] = Error(FaultOf(entry(p, h)), h)]
  /\ UNCHANGED <<raw, left, config, tier, tracerVars>>

(* A bad entry, whichever the iteration meets first, ends the parse. *)
EntryFails(p, h) ==
  /\ At(p, "parsing")
  /\ h \in left[p]
  /\ FaultOf(entry(p, h)) # Nil
  /\ Fail(p, Error(FaultOf(entry(p, h)), h))
  /\ UNCHANGED <<raw, tier, tracerVars>>

EntryParses(p, h) ==
  /\ At(p, "parsing")
  /\ h \in left[p]
  /\ FaultOf(entry(p, h)) = Nil
  /\ left' = [left EXCEPT ![p] = @ \ {h}]
  /\ config' = [config EXCEPT ![p] =
       [g \in DOMAIN @ \cup {h} |->
          IF g = h THEN [ Tier |-> entry(p, h).tier, Extra |-> entry(p, h).extra ]
          ELSE @[g]]]
  /\ UNCHANGED <<stage, raw, tier, err, tracerVars>>

ParseDone(p) ==
  /\ At(p, "parsing")
  /\ left[p] = {}
  /\ Goto(p, "configured")
  /\ UNCHANGED <<configVars, tracerVars>>

(* The host writes its configuration as a literal. *)
BuildByHand(p, c) ==
  /\ At(p, "idle")
  /\ Goto(p, "configured")
  /\ config' = [config EXCEPT ![p] = c]
  /\ UNCHANGED <<raw, left, tier, err, tracerVars>>

Resolve(p) ==
  /\ At(p, "configured")
  /\ LET answer == TierForHandle(config[p], HandleOf[p])
     IN  /\ tier' = [tier EXCEPT ![p] = answer[1]]
         /\ err' = [err EXCEPT ![p] = answer[2]]
         /\ Goto(p, IF answer[2] = Nil THEN "resolved" ELSE "failed")
  /\ UNCHANGED <<raw, left, config, tracerVars>>

(* A slip: appending to the host's own slice. *)
CloneShared(p) ==
  /\ At(p, "resolved")
  /\ Goto(p, "cloned")
  /\ options' = [options EXCEPT ![p] = [ array |-> "host", len |-> Len(HostOptions) ]]
  /\ UNCHANGED <<configVars, arrays, provider, handled>>

(* NewProbeTracer: slices.Clone, an array of its own. *)
Clone(p) ==
  /\ At(p, "resolved")
  /\ Goto(p, "cloned")
  /\ arrays' = [arrays EXCEPT ![p] =
       [i \in 1 .. Capacity |->
          IF i <= Len(HostOptions) THEN arrays["host"][i] ELSE Nil]]
  /\ options' = [options EXCEPT ![p] = [ array |-> p, len |-> Len(HostOptions) ]]
  /\ UNCHANGED <<configVars, provider, handled>>

(* append: in the array while it has room, in a copy of the Probe's own when
   not.  With no service name nothing is appended. *)
AppendResource(p, drift) ==
  /\ At(p, "cloned")
  /\ Goto(p, "assembled")
  /\ IF ServiceName[p] = "" THEN UNCHANGED <<arrays, options, handled>>
     ELSE LET old == options[p]
              array == IF old.len < Capacity THEN old.array ELSE p
              grown == [i \in 1 .. old.len |-> arrays[old.array][i]]
              resource == WithResource(ServiceName[p], drift)
          IN  /\ arrays' = [arrays EXCEPT ![array] =
                   IF old.len < Capacity THEN [@ EXCEPT ![old.len + 1] = resource]
                   ELSE Append(grown, resource)]
              /\ options' = [options EXCEPT ![p] =
                   [ array |-> array, len |-> old.len + 1 ]]
              /\ handled' = IF drift THEN handled \cup {p} ELSE handled
  /\ UNCHANGED <<configVars, provider>>

(* NewTracerProvider reads the options it is given. *)
BuildProvider(p) ==
  /\ At(p, "assembled")
  /\ Goto(p, "started")
  /\ provider' = [provider EXCEPT ![p] =
       [i \in 1 .. options[p].len |-> arrays[options[p].array][i]]]
  /\ UNCHANGED <<configVars, arrays, options, handled>>

Next ==
  \E p \in Probes :
    \/ \E document \in Raw : Load(p, document)
    \/ \E h \in left[p] : EntryFails(p, h) \/ EntryParses(p, h)
    \/ ParseDone(p)
    \/ \E c \in HandBuilt : BuildByHand(p, c)
    \/ Resolve(p)
    \/ Clone(p)
    \/ \E drift \in BOOLEAN : AppendResource(p, drift)
    \/ BuildProvider(p)

Spec == Init /\ [][Next]_vars

-----------------------------------------------------------------------------
(* The verdict on a document does not depend on the order its entries are met
   in, whatever is wrong with how many of them: it is accepted exactly when every
   entry is good, and then with all of them and nothing else; it is refused with
   no configuration at all, and for a fault that the named entry has. *)
VerdictIsTheDocuments ==
  \A p \in Probes : raw[p] # Nil =>
    /\ At(p, "configured") =>
         /\ raw[p].is = "JSON object"
         /\ config[p] = [h \in declared(p) |->
                           [ Tier |-> entry(p, h).tier, Extra |-> entry(p, h).extra ]]
         /\ \A h \in declared(p) : entry(p, h).tier \in Spellings
    /\ At(p, "failed") /\ tier[p] = Nil =>
         /\ config[p] = Nil
         /\ raw[p].is = "JSON object" =>
              /\ err[p].handle \in declared(p)
              /\ FaultOf(entry(p, err[p].handle)) = err[p].what

(* A Probe starts only with a tier the deployment declared for its own handle,
   spelled as the schema knows it: an undeclared handle or a tier only a literal
   can hold is an error with the unspecified tier (TierForHandle). *)
NoTierWithoutDeclaration ==
  \A p \in Probes : tier[p] # Nil =>
    /\ err[p] = Nil =>
         /\ tier[p] \in Spellings
         /\ raw[p] = Nil => HandleOf[p] \in DOMAIN config[p]
         /\ raw[p] # Nil => /\ HandleOf[p] \in declared(p)
                            /\ entry(p, HandleOf[p]).tier = tier[p]
    /\ err[p] # Nil => tier[p] = "UNSPECIFIED" /\ At(p, "failed")

(* However the goroutines interleave, each provider is built from the host's
   options and its own Probe's resource, never another's, and the host's array
   is not written, whatever room it has; a resource that lost its schema has been
   reported (NewProbeTracer, tracer.go:43-73). *)
ProvidersAreTheirOwn ==
  /\ arrays["host"] = [i \in 1 .. Capacity |->
       IF i <= Len(HostOptions) THEN HostOptions[i] ELSE Nil]
  /\ \A p \in Probes : provider[p] # Nil =>
       provider[p] = IF ServiceName[p] = "" THEN HostOptions
                     ELSE Append(HostOptions,
                                 WithResource(ServiceName[p], p \in handled))
=============================================================================
