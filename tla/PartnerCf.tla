------------------------------ MODULE PartnerCf ------------------------------
(***************************************************************************)
(* A remote control function a station tracks by NAME (net/partner_cf.rs): *)
(* seen in address claims, lost on Cannot Claim, and validated after a     *)
(* request for address claimed.  A PartnerCf is a record and every method  *)
(* an operator on it.                                                      *)
(***************************************************************************)
EXTENDS AddressClaimer

CONSTANT ValidationTimeout  \* PARTNER_ADDRESS_CLAIM_RESPONSE_TIMEOUT_MS, in ticks

ASSUME ValidationAssumption == ValidationTimeout \in Nat \ {0}

\* The NAME of a partner no claim has been seen from yet.
NoName == -1

PartnerRecord ==
  [name : Name \cup {NoName}, address : Address, online : BOOLEAN,
   validating : BOOLEAN, elapsed : Nat]

NewPartner ==
  [name |-> NoName, address |-> NULL_ADDRESS, online |-> FALSE,
   validating |-> FALSE, elapsed |-> 0]

note_address_claim_seen(p, name, address) ==
  [name |-> name, address |-> address, online |-> TRUE,
   validating |-> FALSE, elapsed |-> 0]

note_cannot_claim_seen(p, name) ==
  [name |-> name, address |-> NULL_ADDRESS, online |-> FALSE,
   validating |-> FALSE, elapsed |-> 0]

begin_claim_validation(p) ==
  IF p.online /\ p.address <= MaxAddress
  THEN [p EXCEPT !.validating = TRUE, !.elapsed = 0] ELSE p

\* One tick of update_claim_validation.
update_claim_validation(p) ==
  IF ~p.validating THEN p
  ELSE IF p.elapsed + 1 < ValidationTimeout THEN [p EXCEPT !.elapsed = @ + 1]
  ELSE [p EXCEPT !.validating = FALSE, !.elapsed = 0,
          !.address = NULL_ADDRESS, !.online = FALSE]
=============================================================================
