----------------------------- MODULE MCRefresh ------------------------------
(* Two handlers and two filters, so that publications go forth and back. *)
EXTENDS Refresh, TLC

CONSTANTS h1, h2, zero, one

MCHandlers == {h1, h2}
MCFilters == {zero, one}
MCDeclaredEpoch == zero :> 0 @@ one :> 1
=============================================================================
