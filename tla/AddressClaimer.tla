--------------------------- MODULE AddressClaimer ---------------------------
(***************************************************************************)
(* The address-claim state machine of one local control function (CF):     *)
(* AddressClaimer (net/address_claimer.rs) driving an InternalCf           *)
(* (net/internal_cf.rs).                                                   *)
(*                                                                         *)
(* The claimer is pure logic: every method takes the CF and returns the    *)
(* frames to transmit.  It is modelled the same way.  A CF with its        *)
(* claimer is one record; a handler is an operator that takes the record   *)
(* and returns [cf |-> the new record, tx |-> the frames it emits].  Time  *)
(* is counted in ticks, the unit of the owner's update().                  *)
(***************************************************************************)
EXTENDS Integers, Sequences

CONSTANTS
  MaxAddress,       \* MAX_ADDRESS: the largest claimable source address
  SelfConfigMin,    \* SELF_CONFIG_ADDRESS_MIN
  SelfConfigMax,    \* SELF_CONFIG_ADDRESS_MAX
  Name,             \* NAMEs, ordered by priority: the lower one wins
  SelfConfigurable, \* the NAMEs whose self-configurable bit is set
  MaxRtxd,          \* ADDRESS_CLAIM_RTXD_MAX_MS, in ticks
  BaseTimeout       \* ADDRESS_CLAIM_TIMEOUT_MS, in ticks

ASSUME AddressAssumption ==
  /\ MaxAddress \in Nat /\ SelfConfigMin \in Nat /\ SelfConfigMax \in Nat
  /\ SelfConfigMin <= SelfConfigMax /\ SelfConfigMax <= MaxAddress

ASSUME NameAssumption == Name \subseteq Nat /\ SelfConfigurable \subseteq Name

ASSUME TimeAssumption == MaxRtxd \in Nat /\ BaseTimeout \in Nat \ {0}

NULL_ADDRESS == MaxAddress + 1
BROADCAST_ADDRESS == MaxAddress + 2

Claimable == 0 .. MaxAddress
Address == 0 .. NULL_ADDRESS

ClaimState ==
  {"None", "WaitForClaim", "SendRequest", "WaitForContest", "Claimed", "Failed"}

\* An InternalCf together with its AddressClaimer.  SendClaim is left out:
\* every handler that enters it leaves it before returning.
CFRecord ==
  [name : Name, preferred : Address, rtxd : 0 .. MaxRtxd,
   address : Address, online : BOOLEAN, claim : ClaimState,
   attempted : BOOLEAN, occupied : SUBSET Claimable, guard : Nat,
   listen : BOOLEAN, listenTimer : Nat,
   cannot : BOOLEAN, cannotTimer : Nat,
   reclaim : BOOLEAN, reclaimTimer : Nat, reclaimAddress : Address]

\* InternalCf::new with AddressClaimer::with_timeout: the address is already
\* the preferred one although nothing has been claimed.
NewCF(name, preferred, rtxd) ==
  [name |-> name, preferred |-> preferred, rtxd |-> rtxd,
   address |-> preferred, online |-> FALSE, claim |-> "None",
   attempted |-> FALSE, occupied |-> {}, guard |-> 0,
   listen |-> FALSE, listenTimer |-> 0,
   cannot |-> FALSE, cannotTimer |-> 0,
   reclaim |-> FALSE, reclaimTimer |-> 0, reclaimAddress |-> NULL_ADDRESS]

\* Mutant: the guard and listen windows are only the random delay long.
TimeoutWithoutBase(c) == c.rtxd

Timeout(c) == BaseTimeout + c.rtxd

-----------------------------------------------------------------------------
(* Frames of the claim protocol, and the two other kinds the network      *)
(* manager's claim logic reacts to.                                        *)

Frame ==
  [kind : {"claim"}, address : Address, name : Name]
    \cup [kind : {"request"}, destination : 0 .. BROADCAST_ADDRESS]
    \cup [kind : {"commanded"}, address : 0 .. BROADCAST_ADDRESS, name : Name]
    \cup [kind : {"data"}, source : Address]

make_claim_frame(name, address) ==
  [kind |-> "claim", address |-> address, name |-> name]

make_request_frame ==
  [kind |-> "request", destination |-> BROADCAST_ADDRESS]

Result(c, frames) == [cf |-> c, tx |-> frames]

-----------------------------------------------------------------------------
(* Choosing another address.                                               *)

\* Addresses find_next_address may return for c.
FreeAddresses(c) == (SelfConfigMin .. SelfConfigMax) \ (c.occupied \cup {c.preferred})

\* The first address the cyclic search of find_next_address looks at.
SearchStart(current) ==
  IF SelfConfigMin <= current /\ current < SelfConfigMax
  THEN current + 1 ELSE SelfConfigMin

\* How many steps after SearchStart(current) the search reaches a.
SearchDistance(current, a) ==
  IF a >= SearchStart(current)
  THEN a - SearchStart(current)
  ELSE a - SearchStart(current) + (SelfConfigMax - SelfConfigMin + 1)

find_next_address(c, current) ==
  IF FreeAddresses(c) = {} THEN NULL_ADDRESS
  ELSE CHOOSE a \in FreeAddresses(c) :
         \A b \in FreeAddresses(c) :
           SearchDistance(current, a) <= SearchDistance(current, b)

is_occupied(c, address) == address \in c.occupied

-----------------------------------------------------------------------------
(* Outcomes several handlers share.                                        *)

\* The CF renounces its address and says so with Cannot Claim Address.
CannotClaim(c) ==
  Result([c EXCEPT !.online = FALSE, !.claim = "Failed", !.address = NULL_ADDRESS],
         <<make_claim_frame(c.name, NULL_ADDRESS)>>)

\* The CF claims `address` and opens the contention guard window.
SendClaim(c, address) ==
  Result([c EXCEPT !.address = address, !.guard = 0, !.claim = "WaitForContest"],
         <<make_claim_frame(c.name, address)>>)

-----------------------------------------------------------------------------
(* The handlers.                                                           *)

start(c) ==
  LET begun == [c EXCEPT !.attempted = TRUE, !.occupied = {}]
  IN IF c.preferred > MaxAddress
     THEN CannotClaim([begun EXCEPT !.reclaim = FALSE, !.reclaimTimer = 0,
                         !.reclaimAddress = NULL_ADDRESS, !.guard = 0])
     ELSE Result([begun EXCEPT !.claim = "SendRequest", !.listen = TRUE,
                    !.listenTimer = 0, !.guard = 0],
                 <<make_request_frame>>)

finish_listen(c) ==
  LET done == [c EXCEPT !.listen = FALSE, !.listenTimer = 0]
      address == IF is_occupied(c, c.preferred) /\ c.name \in SelfConfigurable
                 THEN find_next_address(c, c.preferred)
                 ELSE c.preferred
  IN IF address > MaxAddress THEN CannotClaim(done) ELSE SendClaim(done, address)

\* The part of update() that runs while the listen window is open.
UpdateListen(c) ==
  IF c.listenTimer + 1 >= Timeout(c)
  THEN finish_listen([c EXCEPT !.listenTimer = @ + 1])
  ELSE Result([c EXCEPT !.listenTimer = @ + 1], << >>)

\* The part of update() that answers a request RTxD after it was received.
UpdateCannotClaim(c) ==
  IF ~c.cannot THEN Result(c, << >>)
  ELSE IF c.cannotTimer + 1 < c.rtxd
       THEN Result([c EXCEPT !.cannotTimer = @ + 1], << >>)
       ELSE Result([c EXCEPT !.cannot = FALSE, !.cannotTimer = 0],
                   IF c.claim = "Failed"
                   THEN <<make_claim_frame(c.name, NULL_ADDRESS)>> ELSE << >>)

\* Mutant: the delayed re-claim is sent and queued again.
ReclaimRepeats(c) ==
  IF c.reclaimTimer + 1 < c.rtxd
  THEN Result([c EXCEPT !.reclaimTimer = @ + 1], << >>)
  ELSE SendClaim([c EXCEPT !.reclaimTimer = 0], c.reclaimAddress)

\* Mutant: the address to re-claim is cleared to the wrong reserved address.
ReclaimClearsToBroadcast(c) ==
  IF c.reclaimTimer + 1 < c.rtxd
  THEN Result([c EXCEPT !.reclaimTimer = @ + 1], << >>)
  ELSE SendClaim([c EXCEPT !.reclaim = FALSE, !.reclaimAddress = BROADCAST_ADDRESS],
                 c.reclaimAddress)

\* The part of update() that re-claims RTxD after a lost contest.
UpdateReclaim(c) ==
  LET fired == [c EXCEPT !.reclaim = FALSE, !.reclaimTimer = c.reclaimTimer + 1]
      stale == \/ c.reclaimAddress > MaxAddress
               \/ c.reclaimAddress = c.preferred
               \/ is_occupied(c, c.reclaimAddress)
      address == IF stale THEN find_next_address(c, c.reclaimAddress)
                 ELSE c.reclaimAddress
  IN IF c.reclaimTimer + 1 < c.rtxd
     THEN Result([c EXCEPT !.reclaimTimer = @ + 1], << >>)
     ELSE IF address > MaxAddress
     THEN CannotClaim([fired EXCEPT !.reclaimAddress = NULL_ADDRESS,
                         !.reclaimTimer = 0, !.guard = 0])
     ELSE SendClaim([fired EXCEPT !.reclaimAddress = address], address)

\* The part of update() that closes the contention guard window.
UpdateGuard(c) ==
  IF c.claim # "WaitForContest" THEN Result(c, << >>)
  ELSE IF c.guard + 1 < Timeout(c)
       THEN Result([c EXCEPT !.guard = @ + 1], << >>)
       ELSE Result([c EXCEPT !.guard = c.guard + 1, !.claim = "Claimed", !.online = TRUE,
                      !.address = IF c.address = NULL_ADDRESS THEN c.preferred ELSE c.address],
                   << >>)

\* AddressClaimer::update for one tick of elapsed time.
claimer_update(c) ==
  IF c.listen THEN UpdateListen(c)
  ELSE LET first == UpdateCannotClaim(c)
           second == IF c.reclaim THEN UpdateReclaim(first.cf) ELSE UpdateGuard(first.cf)
       IN Result(second.cf, first.tx \o second.tx)

\* Mutant: a CF that waits for its delayed re-claim still counts as Claimed.
LoseContestStillClaimed(c, address) ==
  LET next == find_next_address(c, address)
      offline == [c EXCEPT !.online = FALSE]
  IN IF c.name \notin SelfConfigurable \/ next > MaxAddress
     THEN CannotClaim(offline)
     ELSE Result([offline EXCEPT !.reclaim = TRUE, !.reclaimTimer = 0,
                    !.reclaimAddress = next], << >>)

\* The CF gives way to a CF with a lower NAME on its own address.
LoseContest(c, address) ==
  LET next == find_next_address(c, address)
      offline == [c EXCEPT !.online = FALSE]
  IN IF c.name \notin SelfConfigurable \/ next > MaxAddress
     THEN CannotClaim(offline)
     ELSE IF c.rtxd > 0
     THEN Result([offline EXCEPT !.reclaim = TRUE, !.reclaimTimer = 0,
                    !.reclaimAddress = next,
                    !.claim = IF @ = "Claimed" THEN "WaitForClaim" ELSE @], << >>)
     ELSE SendClaim(offline, next)

\* Whether a claim of `address` by `other` is a contest c has to answer.
Contests(c, address, other) ==
  /\ c.attempted
  /\ c.claim # "Failed"
  /\ ~c.listen
  /\ address = c.address
  /\ other # c.name

handle_claim(c, address, other) ==
  LET noted == IF other # c.name THEN [c EXCEPT !.occupied = @ \cup {address}] ELSE c
  IN IF address > MaxAddress THEN Result(c, << >>)
     ELSE IF ~Contests(c, address, other) THEN Result(noted, << >>)
     ELSE IF c.name < other
     THEN Result(noted, <<make_claim_frame(c.name, c.address)>>)
     ELSE LoseContest(noted, address)

handle_duplicate_name(c) ==
  IF ~c.attempted \/ c.claim = "Failed" THEN Result(c, << >>)
  ELSE CannotClaim([c EXCEPT !.reclaim = FALSE, !.reclaimTimer = 0,
                      !.reclaimAddress = NULL_ADDRESS, !.guard = 0])

handle_request_for_claim(c) ==
  IF ~c.attempted \/ c.reclaim THEN Result(c, << >>)
  ELSE IF c.claim \in {"Claimed", "WaitForContest"}
  THEN Result(c, <<make_claim_frame(c.name, c.address)>>)
  ELSE IF c.claim # "Failed" THEN Result(c, << >>)
  ELSE IF c.rtxd = 0
  THEN Result(c, <<make_claim_frame(c.name, NULL_ADDRESS)>>)
  ELSE Result([c EXCEPT !.cannot = TRUE, !.cannotTimer = 0], << >>)

-----------------------------------------------------------------------------
(* The claim state, the Online/Offline state and the address of one CF      *)
(* agree.  A CF may be Online and not Claimed: start() on a CF that holds   *)
(* an address leaves it Online.                                             *)
Consistent(c) ==
  /\ c.claim = "Claimed" => c.online /\ c.address \in Claimable
  /\ c.claim = "Failed" => ~c.online /\ c.address = NULL_ADDRESS
  /\ c.claim = "WaitForClaim" => ~c.online /\ c.reclaim
  /\ c.claim = "WaitForContest" => c.address \in Claimable
=============================================================================
