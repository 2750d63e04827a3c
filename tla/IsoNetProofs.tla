----------------------------- MODULE IsoNetProofs -----------------------------
(***************************************************************************)
(* Safety of address claiming for every segment: any number of stations,   *)
(* addresses and NAMEs, any timeouts and any bounds on the environment.    *)
(* The first part is about the handlers of the address claimer taken       *)
(* alone: each keeps the shape of the CF record, the agreement of its      *)
(* claim state with its address and its preferred address, and emits       *)
(* well-formed frames.  The second is about the segment they make up.      *)
(***************************************************************************)
EXTENDS IsoNet, SequenceTheorems, WellFoundedInduction, TLAPS

\* Most leaves are first-order; those with arithmetic or sequences cite SMT.
USE Zenon

-----------------------------------------------------------------------------
(* The handlers of the address claimer.                                    *)

\* A handler's result r for the CF c.
Sound(r, c) ==
  /\ r.cf \in CFRecord
  /\ Consistent(r.cf)
  /\ r.cf.preferred = c.preferred
  /\ r.tx \in Seq(Frame)

\* A non-empty set of naturals has a least element.
LEMMA LeastNatural ==
  ASSUME NEW T, T \subseteq Nat, T # {}
  PROVE  \E x \in T : \A y \in T : x <= y
<1> DEFINE R == {p \in Nat \X Nat : p[1] < p[2]}
<1>1. OpToRel(<, Nat) = R
  BY DEF OpToRel
<1>2. IsWellFoundedOn(R, Nat)
  BY <1>1, NatLessThanWellFounded
<1>3. PICK x \in T : \A y \in T : ~(<<y, x>> \in R)
  <2> HIDE DEF R
  <2> QED BY <1>2, WFMin
<1>4. ASSUME NEW y \in T PROVE x <= y
  <2>1. x \in Nat /\ y \in Nat
    OBVIOUS
  <2>2. <<y, x>> \notin R
    BY <1>3 DEF R
  <2>3. y < x => <<y, x>> \in R
    BY <2>1
  <2>4. ~(y < x)
    BY <2>2, <2>3
  <2>5. QED
    BY SMT, <2>1, <2>4
<1>5. QED
  BY <1>4

\* Every address the search may return is claimable.
LEMMA FreeIsClaimable ==
  ASSUME NEW c \in CFRecord
  PROVE  FreeAddresses(c) \subseteq Claimable
BY SMT, AddressAssumption DEF FreeAddresses, Claimable

\* The cyclic search of find_next_address returns a free address, or
\* NULL_ADDRESS when there is none.
LEMMA FindNextAddress ==
  ASSUME NEW c \in CFRecord, NEW current \in Address
  PROVE  /\ FreeAddresses(c) = {} => find_next_address(c, current) = NULL_ADDRESS
         /\ FreeAddresses(c) # {} => find_next_address(c, current) \in FreeAddresses(c)
         /\ find_next_address(c, current) \in Claimable \cup {NULL_ADDRESS}
<1> DEFINE D == {SearchDistance(current, a) : a \in FreeAddresses(c)}
<1>1. \A a \in FreeAddresses(c) : SearchDistance(current, a) \in Nat
  BY SMT, AddressAssumption
  DEF FreeAddresses, SearchDistance, SearchStart, Address, NULL_ADDRESS
<1>2. ASSUME FreeAddresses(c) # {}
      PROVE  \E a \in FreeAddresses(c) : \A b \in FreeAddresses(c) :
               SearchDistance(current, a) <= SearchDistance(current, b)
  <2>1. D \subseteq Nat /\ D # {}
    BY <1>1, <1>2
  <2>2. PICK x \in D : \A y \in D : x <= y
    BY <2>1, LeastNatural
  <2>3. PICK a \in FreeAddresses(c) : x = SearchDistance(current, a)
    BY <2>2
  <2>4. QED
    BY <2>2, <2>3
<1>3. FreeAddresses(c) # {} => find_next_address(c, current) \in FreeAddresses(c)
  BY <1>2 DEF find_next_address
<1>4. FreeAddresses(c) = {} => find_next_address(c, current) = NULL_ADDRESS
  BY DEF find_next_address
<1>5. QED
  BY <1>3, <1>4, FreeIsClaimable

-----------------------------------------------------------------------------
(* Frames.                                                                 *)

\* The frames the handlers build are frames.
LEMMA FramesAreFrames ==
  ASSUME NEW name \in Name, NEW address \in Address
  PROVE  /\ make_claim_frame(name, address) \in Frame
         /\ make_request_frame \in Frame
BY SMT, AddressAssumption
DEF make_claim_frame, make_request_frame, Frame, Address, NULL_ADDRESS, BROADCAST_ADDRESS

-----------------------------------------------------------------------------
(* The shared outcomes.                                                    *)

\* Renouncing the address leaves a CF Failed, Offline and without address.
LEMMA CannotClaimSound ==
  ASSUME NEW c \in CFRecord
  PROVE  Sound(CannotClaim(c), c)
<1>1. NULL_ADDRESS \in Address
  BY SMT, AddressAssumption DEF NULL_ADDRESS, Address
<1>2. <<make_claim_frame(c.name, NULL_ADDRESS)>> \in Seq(Frame)
  BY SMT, <1>1, FramesAreFrames DEF CFRecord
<1>3. QED
  BY <1>1, <1>2 DEF CannotClaim, Result, Sound, Consistent, CFRecord, ClaimState

\* Claiming a claimable address leaves a CF in WaitForContest at it.
LEMMA SendClaimSound ==
  ASSUME NEW c \in CFRecord, NEW address \in Claimable
  PROVE  Sound(SendClaim(c, address), c)
<1>1. address \in Address
  BY SMT, AddressAssumption DEF Claimable, NULL_ADDRESS, Address
<1>2. <<make_claim_frame(c.name, address)>> \in Seq(Frame)
  BY SMT, <1>1, FramesAreFrames DEF CFRecord
<1>3. QED
  BY <1>1, <1>2 DEF SendClaim, Result, Sound, Consistent, CFRecord, ClaimState

-----------------------------------------------------------------------------
(* The handlers.                                                           *)

\* A sequence of no frames.
LEMMA NoFrames == << >> \in Seq(Frame)
BY SMT

\* start() keeps a CF consistent; with a claimable preferred address it
\* leaves the address and the Online state alone.
LEMMA StartSound ==
  ASSUME NEW c \in CFRecord, Consistent(c)
  PROVE  /\ Sound(start(c), c)
         /\ c.preferred \in Claimable =>
              start(c).cf.address = c.address /\ start(c).cf.online = c.online
<1> DEFINE begun == [c EXCEPT !.attempted = TRUE, !.occupied = {}]
           off == [begun EXCEPT !.reclaim = FALSE, !.reclaimTimer = 0,
                     !.reclaimAddress = NULL_ADDRESS, !.guard = 0]
           asked == [begun EXCEPT !.claim = "SendRequest", !.listen = TRUE,
                       !.listenTimer = 0, !.guard = 0]
<1>0. begun \in CFRecord /\ begun.preferred = c.preferred
  BY DEF CFRecord
<1>1. CASE c.preferred > MaxAddress
  <2>0. NULL_ADDRESS \in Address
    BY SMT, AddressAssumption DEF NULL_ADDRESS, Address
  <2>1. off \in CFRecord /\ off.preferred = c.preferred
    <3> HIDE DEF begun
    <3> QED BY <1>0, <2>0 DEF CFRecord
  <2>2. Sound(CannotClaim(off), off)
    BY <2>1, CannotClaimSound
  <2>3. start(c) = CannotClaim(off)
    BY <1>1 DEF start
  <2>4. ~(c.preferred \in Claimable)
    BY SMT, <1>1, AddressAssumption DEF Claimable
  <2>5. QED
    BY <2>1, <2>2, <2>3, <2>4 DEF Sound
<1>2. CASE ~(c.preferred > MaxAddress)
  <2>1. start(c) = Result(asked, <<make_request_frame>>)
    BY <1>2 DEF start
  <2>2. asked \in CFRecord /\ asked.preferred = c.preferred
    BY DEF CFRecord, ClaimState
  <2>3. Consistent(asked) /\ asked.address = c.address /\ asked.online = c.online
    BY DEF Consistent, CFRecord
  <2>4. <<make_request_frame>> \in Seq(Frame)
    BY SMT, AddressAssumption
    DEF make_request_frame, Frame, BROADCAST_ADDRESS
  <2> HIDE DEF asked
  <2>5. QED
    BY SMT, <2>1, <2>2, <2>3, <2>4 DEF Sound, Result
<1>3. QED
  BY <1>1, <1>2

\* Closing the listen window keeps a CF consistent.
LEMMA FinishListenSound ==
  ASSUME NEW c \in CFRecord, Consistent(c)
  PROVE  Sound(finish_listen(c), c)
<1> DEFINE done == [c EXCEPT !.listen = FALSE, !.listenTimer = 0]
           address == IF is_occupied(c, c.preferred) /\ c.name \in SelfConfigurable
                      THEN find_next_address(c, c.preferred) ELSE c.preferred
<1>1. done \in CFRecord /\ done.preferred = c.preferred
  BY DEF CFRecord
<1>2. c.preferred \in Address
  BY DEF CFRecord
<1>3. find_next_address(c, c.preferred) \in Claimable \cup {NULL_ADDRESS}
  BY <1>2, FindNextAddress
<1>4. address \in Claimable \/ address > MaxAddress
  BY SMT, <1>2, <1>3, AddressAssumption DEF Claimable, Address, NULL_ADDRESS
<1>5. address \in Claimable => ~(address > MaxAddress)
  BY SMT, AddressAssumption DEF Claimable
<1>6. finish_listen(c) = IF address > MaxAddress THEN CannotClaim(done)
                         ELSE SendClaim(done, address)
  BY DEF finish_listen
<1> HIDE DEF address
<1>7. CASE address > MaxAddress
  BY <1>1, <1>6, <1>7, CannotClaimSound DEF Sound
<1>8. CASE ~(address > MaxAddress)
  BY <1>1, <1>4, <1>6, <1>8, SendClaimSound DEF Sound
<1>9. QED
  BY <1>7, <1>8

\* A tick of the listen window keeps a CF consistent.
LEMMA UpdateListenSound ==
  ASSUME NEW c \in CFRecord, Consistent(c)
  PROVE  Sound(UpdateListen(c), c)
<1> DEFINE later == [c EXCEPT !.listenTimer = @ + 1]
<1>1. later \in CFRecord /\ Consistent(later) /\ later.preferred = c.preferred
  BY SMT DEF CFRecord, Consistent
<1>2. Sound(finish_listen(later), later)
  BY <1>1, FinishListenSound
<1>3. Sound(Result(later, << >>), c)
  BY <1>1, NoFrames DEF Sound, Result
<1>4. QED
  BY <1>1, <1>2, <1>3 DEF UpdateListen, Sound

\* The delayed Cannot Claim response changes neither claim state nor address.
LEMMA UpdateCannotClaimSound ==
  ASSUME NEW c \in CFRecord, Consistent(c)
  PROVE  /\ Sound(UpdateCannotClaim(c), c)
         /\ UpdateCannotClaim(c).cf.reclaim = c.reclaim
<1>1. NULL_ADDRESS \in Address
  BY SMT, AddressAssumption DEF NULL_ADDRESS, Address
<1>2. <<make_claim_frame(c.name, NULL_ADDRESS)>> \in Seq(Frame)
  BY SMT, <1>1, FramesAreFrames DEF CFRecord
<1> DEFINE later == [c EXCEPT !.cannotTimer = @ + 1]
           answered == [c EXCEPT !.cannot = FALSE, !.cannotTimer = 0]
<1>3. /\ later \in CFRecord /\ Consistent(later)
      /\ later.preferred = c.preferred /\ later.reclaim = c.reclaim
  BY SMT DEF CFRecord, Consistent
<1>4. /\ answered \in CFRecord /\ Consistent(answered)
      /\ answered.preferred = c.preferred /\ answered.reclaim = c.reclaim
  BY DEF CFRecord, Consistent
<1>5. QED
  BY <1>2, <1>3, <1>4, NoFrames DEF UpdateCannotClaim, Sound, Result

\* The delayed re-claim keeps a CF consistent.
LEMMA UpdateReclaimSound ==
  ASSUME NEW c \in CFRecord, Consistent(c), c.reclaim
  PROVE  Sound(UpdateReclaim(c), c)
<1> DEFINE later == [c EXCEPT !.reclaimTimer = @ + 1]
           fired == [c EXCEPT !.reclaim = FALSE, !.reclaimTimer = c.reclaimTimer + 1]
           stale == \/ c.reclaimAddress > MaxAddress
                    \/ c.reclaimAddress = c.preferred
                    \/ is_occupied(c, c.reclaimAddress)
           address == IF stale THEN find_next_address(c, c.reclaimAddress)
                      ELSE c.reclaimAddress
           given == [fired EXCEPT !.reclaimAddress = NULL_ADDRESS,
                       !.reclaimTimer = 0, !.guard = 0]
           taken == [fired EXCEPT !.reclaimAddress = address]
<1>1. NULL_ADDRESS \in Address /\ Claimable \subseteq Address
  BY SMT, AddressAssumption DEF NULL_ADDRESS, Address, Claimable
<1>2. fired \in CFRecord /\ fired.preferred = c.preferred
  <2>1. c.reclaimTimer + 1 \in Nat
    BY SMT DEF CFRecord
  <2>2. QED
    BY <2>1 DEF CFRecord
<1>3. c.reclaimAddress \in Address
  BY DEF CFRecord
<1>4. find_next_address(c, c.reclaimAddress) \in Claimable \cup {NULL_ADDRESS}
  BY <1>3, FindNextAddress
<1>5. address \in Address /\ (~(address > MaxAddress) => address \in Claimable)
  BY SMT, <1>1, <1>3, <1>4, AddressAssumption DEF Claimable, Address, NULL_ADDRESS
<1>6. later \in CFRecord /\ Consistent(later) /\ later.preferred = c.preferred
  BY SMT DEF CFRecord, Consistent
<1>7. UpdateReclaim(c) = IF c.reclaimTimer + 1 < c.rtxd THEN Result(later, << >>)
                         ELSE IF address > MaxAddress THEN CannotClaim(given)
                         ELSE SendClaim(taken, address)
  BY DEF UpdateReclaim
<1> HIDE DEF later, fired, address
<1>8. given \in CFRecord /\ given.preferred = c.preferred
  BY <1>1, <1>2 DEF CFRecord
<1>9. taken \in CFRecord /\ taken.preferred = c.preferred
  BY <1>2, <1>5 DEF CFRecord
<1> HIDE DEF given, taken
<1>10. Sound(Result(later, << >>), c)
  BY <1>6, NoFrames DEF Sound, Result
<1>11. Sound(CannotClaim(given), c)
  BY <1>8, CannotClaimSound DEF Sound
<1>12. ~(address > MaxAddress) => Sound(SendClaim(taken, address), c)
  BY <1>5, <1>9, SendClaimSound DEF Sound
<1>13. QED
  BY <1>7, <1>10, <1>11, <1>12

\* Closing the contention guard window makes the CF Claimed and Online.
LEMMA UpdateGuardSound ==
  ASSUME NEW c \in CFRecord, Consistent(c)
  PROVE  Sound(UpdateGuard(c), c)
<1> DEFINE later == [c EXCEPT !.guard = @ + 1]
           held == [c EXCEPT !.guard = c.guard + 1, !.claim = "Claimed", !.online = TRUE,
                      !.address = IF c.address = NULL_ADDRESS THEN c.preferred ELSE c.address]
<1>1. later \in CFRecord /\ Consistent(later) /\ later.preferred = c.preferred
  BY SMT DEF CFRecord, Consistent
<1>2. held \in CFRecord /\ held.preferred = c.preferred
  <2>1. c.guard + 1 \in Nat
    BY SMT DEF CFRecord
  <2>2. (IF c.address = NULL_ADDRESS THEN c.preferred ELSE c.address) \in Address
    BY DEF CFRecord
  <2>3. "Claimed" \in ClaimState
    BY DEF ClaimState
  <2>4. QED
    BY <2>1, <2>2, <2>3 DEF CFRecord
<1>3. c.claim = "WaitForContest" => Consistent(held)
  <2> SUFFICES ASSUME c.claim = "WaitForContest" PROVE Consistent(held)
    OBVIOUS
  <2>1. c.address \in Claimable /\ c.address # NULL_ADDRESS
    BY SMT, AddressAssumption DEF Consistent, Claimable, NULL_ADDRESS
  <2>2. held.address = c.address /\ held.claim = "Claimed" /\ held.online = TRUE
    BY <2>1 DEF CFRecord
  <2>3. QED
    BY <2>1, <2>2 DEF Consistent
<1>4. UpdateGuard(c) = IF c.claim # "WaitForContest" THEN Result(c, << >>)
                       ELSE IF c.guard + 1 < Timeout(c) THEN Result(later, << >>)
                       ELSE Result(held, << >>)
  BY DEF UpdateGuard
<1> HIDE DEF later, held
<1>5. QED
  BY SMT, <1>1, <1>2, <1>3, <1>4, NoFrames DEF Sound, Result

\* update() keeps a CF consistent.
LEMMA UpdateSound ==
  ASSUME NEW c \in CFRecord, Consistent(c)
  PROVE  Sound(claimer_update(c), c)
<1> DEFINE first == UpdateCannotClaim(c)
           second == IF c.reclaim THEN UpdateReclaim(first.cf) ELSE UpdateGuard(first.cf)
<1>1. Sound(first, c) /\ first.cf.reclaim = c.reclaim
  BY UpdateCannotClaimSound
<1> HIDE DEF first
<1>2. Sound(second, first.cf)
  BY <1>1, UpdateReclaimSound, UpdateGuardSound DEF Sound
<1> HIDE DEF second
<1>3. first.tx \o second.tx \in Seq(Frame)
  BY SMT, <1>1, <1>2 DEF Sound
<1>4. Sound(Result(second.cf, first.tx \o second.tx), c)
  BY <1>1, <1>2, <1>3 DEF Sound, Result
<1>5. ~c.listen => claimer_update(c) = Result(second.cf, first.tx \o second.tx)
  BY DEF claimer_update, first, second
<1>6. c.listen => claimer_update(c) = UpdateListen(c)
  BY DEF claimer_update
<1>7. QED
  BY <1>4, <1>5, <1>6, UpdateListenSound

\* Losing a contest keeps a CF consistent.
LEMMA LoseContestSound ==
  ASSUME NEW c \in CFRecord, Consistent(c), NEW address \in Address
  PROVE  Sound(LoseContest(c, address), c)
<1> DEFINE next == find_next_address(c, address)
           offline == [c EXCEPT !.online = FALSE]
           state == IF c.claim = "Claimed" THEN "WaitForClaim" ELSE c.claim
           queued == [offline EXCEPT !.reclaim = TRUE, !.reclaimTimer = 0,
                        !.reclaimAddress = next, !.claim = state]
<1>1. next \in Claimable \cup {NULL_ADDRESS}
  BY FindNextAddress
<1>2. next \in Address /\ (~(next > MaxAddress) => next \in Claimable)
  BY SMT, <1>1, AddressAssumption DEF NULL_ADDRESS, Address, Claimable
<1>3. /\ offline \in CFRecord /\ offline.preferred = c.preferred
      /\ offline.claim = c.claim /\ offline.address = c.address
      /\ offline.online = FALSE
  BY DEF CFRecord
<1>4. state \in ClaimState /\ state # "Claimed"
  BY DEF CFRecord, ClaimState
<1>5. LoseContest(c, address) =
        IF c.name \notin SelfConfigurable \/ next > MaxAddress THEN CannotClaim(offline)
        ELSE IF c.rtxd > 0 THEN Result(queued, << >>) ELSE SendClaim(offline, next)
  BY SMT, <1>3 DEF LoseContest
<1> HIDE DEF next, offline
<1>6. /\ queued \in CFRecord /\ queued.preferred = c.preferred
      /\ queued.claim = state /\ queued.address = c.address
      /\ queued.online = FALSE /\ queued.reclaim = TRUE
  <2> HIDE DEF state
  <2> QED BY <1>2, <1>3, <1>4 DEF CFRecord
<1>7. Consistent(queued)
  <2> HIDE DEF queued
  <2> QED BY <1>4, <1>6 DEF Consistent
<1> HIDE DEF queued, state
<1>8. Sound(Result(queued, << >>), c)
  BY <1>6, <1>7, NoFrames DEF Sound, Result
<1>9. Sound(CannotClaim(offline), c)
  BY <1>3, CannotClaimSound DEF Sound
<1>10. ~(next > MaxAddress) => Sound(SendClaim(offline, next), c)
  BY <1>2, <1>3, SendClaimSound DEF Sound
<1>11. QED
  BY <1>5, <1>8, <1>9, <1>10

\* handle_claim() keeps a CF consistent.
LEMMA HandleClaimSound ==
  ASSUME NEW c \in CFRecord, Consistent(c), NEW address \in Address, NEW other \in Name
  PROVE  Sound(handle_claim(c, address, other), c)
<1> DEFINE noted == IF other # c.name THEN [c EXCEPT !.occupied = @ \cup {address}] ELSE c
<1>1. Sound(Result(c, << >>), c)
  BY NoFrames DEF Sound, Result
<1>2. CASE address > MaxAddress
  BY <1>1, <1>2 DEF handle_claim
<1>3. CASE ~(address > MaxAddress)
  <2>1. address \in Claimable
    BY SMT, <1>3, AddressAssumption DEF Address, Claimable, NULL_ADDRESS
  <2>2. noted \in CFRecord /\ noted.preferred = c.preferred /\ Consistent(noted)
    BY <2>1 DEF CFRecord, Consistent
  <2>3. handle_claim(c, address, other) =
          IF ~Contests(c, address, other) THEN Result(noted, << >>)
          ELSE IF c.name < other
          THEN Result(noted, <<make_claim_frame(c.name, c.address)>>)
          ELSE LoseContest(noted, address)
    BY <1>3 DEF handle_claim
  <2> HIDE DEF noted
  <2>4. Sound(Result(noted, << >>), c)
    BY <2>2, NoFrames DEF Sound, Result
  <2>5. <<make_claim_frame(c.name, c.address)>> \in Seq(Frame)
    BY SMT, FramesAreFrames DEF CFRecord
  <2>6. Sound(Result(noted, <<make_claim_frame(c.name, c.address)>>), c)
    BY <2>2, <2>5 DEF Sound, Result
  <2>7. Sound(LoseContest(noted, address), c)
    BY <2>2, LoseContestSound DEF Sound
  <2>8. QED
    BY <2>3, <2>4, <2>6, <2>7
<1>4. QED
  BY <1>2, <1>3

\* handle_duplicate_name() keeps a CF consistent.
LEMMA HandleDuplicateNameSound ==
  ASSUME NEW c \in CFRecord, Consistent(c)
  PROVE  Sound(handle_duplicate_name(c), c)
<1> DEFINE reset == [c EXCEPT !.reclaim = FALSE, !.reclaimTimer = 0,
                       !.reclaimAddress = NULL_ADDRESS, !.guard = 0]
<1>1. NULL_ADDRESS \in Address
  BY SMT, AddressAssumption DEF NULL_ADDRESS, Address
<1>2. reset \in CFRecord /\ reset.preferred = c.preferred
  BY <1>1 DEF CFRecord
<1>3. handle_duplicate_name(c) =
        IF ~c.attempted \/ c.claim = "Failed" THEN Result(c, << >>) ELSE CannotClaim(reset)
  BY DEF handle_duplicate_name
<1> HIDE DEF reset
<1>4. Sound(CannotClaim(reset), c)
  BY <1>2, CannotClaimSound DEF Sound
<1>5. Sound(Result(c, << >>), c)
  BY NoFrames DEF Sound, Result
<1>6. QED
  BY <1>3, <1>4, <1>5

\* handle_request_for_claim() keeps a CF consistent and, answering or not,
\* at its address.
LEMMA HandleRequestSound ==
  ASSUME NEW c \in CFRecord, Consistent(c)
  PROVE  /\ Sound(handle_request_for_claim(c), c)
         /\ handle_request_for_claim(c).cf.address = c.address
         /\ handle_request_for_claim(c).cf.online = c.online
<1> DEFINE waiting == [c EXCEPT !.cannot = TRUE, !.cannotTimer = 0]
<1>1. NULL_ADDRESS \in Address
  BY SMT, AddressAssumption DEF NULL_ADDRESS, Address
<1>2. /\ <<make_claim_frame(c.name, c.address)>> \in Seq(Frame)
      /\ <<make_claim_frame(c.name, NULL_ADDRESS)>> \in Seq(Frame)
  BY SMT, <1>1, FramesAreFrames DEF CFRecord
<1>3. /\ waiting \in CFRecord /\ Consistent(waiting) /\ waiting.preferred = c.preferred
      /\ waiting.address = c.address /\ waiting.online = c.online
  BY DEF CFRecord, Consistent
<1> HIDE DEF waiting
<1>4. ASSUME NEW tx \in Seq(Frame) PROVE Sound(Result(c, tx), c)
  BY DEF Sound, Result
<1>5. Sound(Result(waiting, << >>), c)
  BY <1>3, NoFrames DEF Sound, Result
<1>6. \/ \E tx \in Seq(Frame) : handle_request_for_claim(c) = Result(c, tx)
      \/ handle_request_for_claim(c) = Result(waiting, << >>)
  BY <1>2, NoFrames DEF handle_request_for_claim, waiting
<1>7. QED
  BY SMT, <1>3, <1>4, <1>5, <1>6 DEF Result

\* A new CF is a consistent CF record.
LEMMA NewCFSound ==
  ASSUME NEW name \in Name, NEW preferred \in Address, NEW rtxd \in 0 .. MaxRtxd
  PROVE  /\ NewCF(name, preferred, rtxd) \in CFRecord
         /\ Consistent(NewCF(name, preferred, rtxd))
         /\ NewCF(name, preferred, rtxd).preferred = preferred
BY SMT, AddressAssumption
DEF NewCF, CFRecord, Consistent, ClaimState, Claimable, Address, NULL_ADDRESS

-----------------------------------------------------------------------------
(* The segment.                                                            *)

\* The part of the state the claimers and the bus share: every CF record is
\* well formed and consistent, and keeps the preferred address it was built
\* with.
CFInv ==
  /\ cf \in [Station -> CFRecord]
  /\ ClaimConsistent
  /\ \A s \in Station : cf[s].preferred = PreferredOf[s]

-----------------------------------------------------------------------------
(* The bus.                                                                *)

\* Sending well-formed frames leaves every receive queue well formed.
LEMMA BroadcastType ==
  ASSUME NEW queues \in [Station -> Seq(Frame)], NEW s \in Station,
         NEW frames \in Seq(Frame)
  PROVE  Broadcast(queues, s, frames) \in [Station -> Seq(Frame)]
BY SMT DEF Broadcast

\* The same for a frame of a device that is not a station.
LEMMA BroadcastAllType ==
  ASSUME NEW queues \in [Station -> Seq(Frame)], NEW frame \in Frame
  PROVE  BroadcastAll(queues, frame) \in [Station -> Seq(Frame)]
BY SMT DEF BroadcastAll

\* Taking a frame from a queue and answering it leaves the queues well formed.
LEMMA TakeAndSendType ==
  ASSUME TypeOK, NEW s \in Station, rx[s] # << >>, NEW frames \in Seq(Frame),
         TakeAndSend(s, frames)
  PROVE  /\ rx' \in [Station -> Seq(Frame)]
         /\ late' \in [Station -> Nat]
<1>1. [rx EXCEPT ![s] = Tail(@)] \in [Station -> Seq(Frame)]
  <2>1. Tail(rx[s]) \in Seq(Frame)
    BY HeadTailProperties DEF TypeOK
  <2>2. QED
    BY <2>1 DEF TypeOK
<1>2. rx' \in [Station -> Seq(Frame)]
  BY <1>1, BroadcastType DEF TakeAndSend
<1>3. late' \in [Station -> Nat]
  BY SMT DEF TakeAndSend, TypeOK
<1>4. QED
  BY <1>2, <1>3

\* The first frame of a non-empty queue is a frame.
LEMMA HeadIsFrame ==
  ASSUME TypeOK, NEW s \in Station, rx[s] # << >>
  PROVE  Head(rx[s]) \in Frame
BY HeadTailProperties DEF TypeOK

\* Using up one unit of a bound keeps the counters natural numbers.
LEMMA UseType ==
  ASSUME TypeOK, NEW what \in Bounded, Use(what)
  PROVE  used' \in [Bounded -> Nat]
BY SMT DEF TypeOK, Use

\* Replacing one station's CF by a sound result keeps CFInv.
LEMMA ReplaceCF ==
  ASSUME CFInv, NEW s \in Station, NEW c \in CFRecord,
         Consistent(c), c.preferred = cf[s].preferred,
         cf' = [cf EXCEPT ![s] = c]
  PROVE  CFInv'
BY DEF CFInv, ClaimConsistent

-----------------------------------------------------------------------------
(* Partners.                                                               *)

\* Every method of a partner returns a partner.
LEMMA PartnerType ==
  ASSUME NEW p \in PartnerRecord, NEW name \in Name, NEW address \in Address
  PROVE  /\ NewPartner \in PartnerRecord
         /\ note_address_claim_seen(p, name, address) \in PartnerRecord
         /\ note_cannot_claim_seen(p, name) \in PartnerRecord
         /\ begin_claim_validation(p) \in PartnerRecord
         /\ update_claim_validation(p) \in PartnerRecord
<1>1. NULL_ADDRESS \in Address
  BY SMT, AddressAssumption DEF NULL_ADDRESS, Address
<1>2. p.elapsed + 1 \in Nat
  BY SMT DEF PartnerRecord
<1>3. QED
  BY <1>1, <1>2
  DEF NewPartner, note_address_claim_seen, note_cannot_claim_seen,
      begin_claim_validation, update_claim_validation, PartnerRecord

-----------------------------------------------------------------------------
(* The invariant Inv, action by action.                                    *)

Inv == TypeOK /\ CFInv

\* Freshly built stations satisfy Inv.
LEMMA InitInv == Init => Inv
<1> SUFFICES ASSUME Init PROVE Inv
  OBVIOUS
<1>1. \A s \in Station : /\ NewStation(s) \in CFRecord
                          /\ Consistent(NewStation(s))
                          /\ NewStation(s).preferred = PreferredOf[s]
  BY NewCFSound, StationAssumption DEF NewStation
<1>2. NewPartner \in PartnerRecord
  BY SMT, AddressAssumption DEF NewPartner, PartnerRecord, NULL_ADDRESS, Address
<1>3. TypeOK
  BY SMT, <1>1, <1>2 DEF Init, TypeOK
<1>4. CFInv
  BY <1>1 DEF Init, CFInv, ClaimConsistent
<1>5. QED
  BY <1>3, <1>4 DEF Inv

\* An owner's operation that runs one handler on the CF and sends the frames
\* it returns.
LEMMA HandlerStepInv ==
  ASSUME Inv, NEW s \in Station, NEW r, NEW what \in Bounded,
         Sound(r, cf[s]), Use(what),
         cf' = [cf EXCEPT ![s] = r.cf], rx' = Broadcast(rx, s, r.tx),
         UNCHANGED <<partner, violations, transports, late, updating, ticked>>
  PROVE  Inv'
<1>1. CFInv'
  BY ReplaceCF DEF Inv, Sound
<1>2. rx' \in [Station -> Seq(Frame)]
  BY BroadcastType DEF Inv, TypeOK, Sound
<1>3. used' \in [Bounded -> Nat]
  BY UseType DEF Inv
<1>4. TypeOK'
  BY <1>1, <1>2, <1>3 DEF Inv, TypeOK, CFInv
<1>5. QED
  BY <1>1, <1>4 DEF Inv

\* The CF of a station is a consistent record.
LEMMA StationCF ==
  ASSUME Inv, NEW s \in Station
  PROVE  cf[s] \in CFRecord /\ Consistent(cf[s])
BY DEF Inv, CFInv, ClaimConsistent

\* Starting, adopting a NAME and answering a NAME manager preserve Inv.
LEMMA OwnerInv ==
  ASSUME Inv, NEW s \in Station,
         StartClaiming(s) \/ AdoptName(s) \/ SendClaimResponses(s)
  PROVE  Inv'
<1>1. cf[s] \in CFRecord /\ Consistent(cf[s])
  BY StationCF
<1>2. "starts" \in Bounded /\ "requests" \in Bounded
  BY DEF Bounded
<1>3. CASE StartClaiming(s)
  <2>1. Sound(start(cf[s]), cf[s])
    BY <1>1, StartSound
  <2>2. QED
    BY <1>2, <1>3, <2>1, HandlerStepInv DEF StartClaiming
<1>4. CASE AdoptName(s)
  <2>1. PICK name \in AdoptableBy[s] :
          /\ Use("starts")
          /\ cf' = [cf EXCEPT ![s] = start([cf[s] EXCEPT !.name = name]).cf]
          /\ rx' = Broadcast(rx, s, start([cf[s] EXCEPT !.name = name]).tx)
          /\ UNCHANGED <<partner, violations, transports, late, updating, ticked>>
    BY <1>4 DEF AdoptName
  <2> DEFINE c == [cf[s] EXCEPT !.name = name]
  <2>2. name \in Name
    BY StationAssumption
  <2>3. c \in CFRecord /\ Consistent(c) /\ c.preferred = cf[s].preferred
    BY <1>1, <2>2 DEF CFRecord, Consistent
  <2> HIDE DEF c
  <2>4. Sound(start(c), cf[s])
    BY <2>3, StartSound DEF Sound
  <2>5. QED
    BY <1>2, <2>1, <2>4, HandlerStepInv DEF c
<1>5. CASE SendClaimResponses(s)
  <2>1. Sound(handle_request_for_claim(cf[s]), cf[s])
    BY <1>1, HandleRequestSound
  <2>2. QED
    BY <1>2, <1>5, <2>1, HandlerStepInv DEF SendClaimResponses
<1>6. QED
  BY <1>3, <1>4, <1>5

\* Sending application data and opening, pumping or ending a transport.
LEMMA DataInv ==
  ASSUME Inv, NEW s \in Station,
         SendSingleFrame(s) \/ OpenTransport(s) \/ PumpTransport(s) \/ FinishTransport(s)
  PROVE  Inv'
<1>1. cf' = cf /\ CFInv
  BY DEF SendSingleFrame, OpenTransport, PumpTransport, FinishTransport, Inv
<1>2. CFInv'
  BY <1>1 DEF CFInv, ClaimConsistent
<1>3. ASSUME NEW address \in Address
      PROVE  <<[kind |-> "data", source |-> address]>> \in Seq(Frame)
  BY SMT DEF Frame
<1>4. cf[s].address \in Address /\ transports[s] \subseteq Claimable
  BY StationCF DEF CFRecord, Inv, TypeOK
<1>5. Claimable \subseteq Address
  BY SMT, AddressAssumption DEF Claimable, Address, NULL_ADDRESS
<1>6. "data" \in Bounded
  BY DEF Bounded
<1>7. CASE SendSingleFrame(s)
  BY <1>1, <1>2, <1>3, <1>4, <1>6, <1>7, BroadcastType, UseType
  DEF SendSingleFrame, Inv, TypeOK
<1>8. CASE OpenTransport(s)
  <2>1. cf[s].address \in Claimable
    BY SMT, <1>8, <1>4, AddressAssumption DEF OpenTransport, MaySend, Address, Claimable, NULL_ADDRESS
  <2>2. transports' \in [Station -> SUBSET Claimable]
    BY <1>8, <2>1 DEF OpenTransport, Inv, TypeOK
  <2>3. QED
    BY <1>1, <1>2, <1>3, <1>4, <1>6, <1>8, <2>2, BroadcastType, UseType
    DEF OpenTransport, Inv, TypeOK
<1>9. CASE PumpTransport(s)
  <2>1. PICK address \in transports[s] :
          /\ Use("data")
          /\ rx' = Broadcast(rx, s, <<[kind |-> "data", source |-> address]>>)
          /\ UNCHANGED <<cf, partner, violations, transports, late, updating, ticked>>
    BY <1>9 DEF PumpTransport
  <2>2. <<[kind |-> "data", source |-> address]>> \in Seq(Frame)
    BY <1>3, <1>4, <1>5
  <2>3. QED
    BY <1>2, <1>6, <2>1, <2>2, BroadcastType, UseType DEF Inv, TypeOK
<1>10. CASE FinishTransport(s)
  BY <1>1, <1>2, <1>10 DEF FinishTransport, Inv, TypeOK
<1>11. QED
  BY <1>7, <1>8, <1>9, <1>10

\* Building a station again preserves Inv.
LEMMA PowerCycleInv ==
  ASSUME Inv, NEW s \in Station, PowerCycle(s)
  PROVE  Inv'
<1>1. /\ NewStation(s) \in CFRecord /\ Consistent(NewStation(s))
      /\ NewStation(s).preferred = PreferredOf[s]
  BY NewCFSound, StationAssumption DEF NewStation
<1>2. CFInv'
  BY <1>1, ReplaceCF DEF PowerCycle, Inv, CFInv
<1>3. NewPartner \in PartnerRecord
  BY SMT, AddressAssumption DEF NewPartner, PartnerRecord, NULL_ADDRESS, Address
<1>4. used' \in [Bounded -> Nat]
  BY UseType DEF Inv, PowerCycle, Bounded
<1>5. TypeOK'
  BY SMT, <1>2, <1>3, <1>4 DEF PowerCycle, Inv, TypeOK, CFInv
<1>6. QED
  BY <1>2, <1>5 DEF Inv

\* The fields of a frame, by its kind.
LEMMA FrameFields ==
  ASSUME NEW frame \in Frame
  PROVE  /\ frame.kind = "claim" => frame.address \in Address /\ frame.name \in Name
         /\ frame.kind = "commanded" =>
              frame.address \in 0 .. BROADCAST_ADDRESS /\ frame.name \in Name
         /\ frame.kind = "data" => frame.source \in Address
BY DEF Frame

\* What a claim makes of a partner is a partner.
LEMMA TrackPartnerType ==
  ASSUME Inv, NEW s \in Station, NEW frame, frame.address \in Address, frame.name \in Name
  PROVE  TrackPartner(s, frame) \in PartnerRecord
BY PartnerType DEF TrackPartner, Inv, TypeOK

\* handle_address_claim preserves Inv.
LEMMA ReceiveClaimInv ==
  ASSUME Inv, NEW s \in Station, ReceiveClaim(s)
  PROVE  Inv'
<1> DEFINE frame == Head(rx[s])
           first == handle_duplicate_internal_name(cf[s], frame)
           second == handle_claim(first.cf, frame.address, frame.name)
<1>1. rx[s] # << >> /\ frame.address \in Address /\ frame.name \in Name
  BY HeadIsFrame, FrameFields DEF ReceiveClaim, Inv
<1>2. Sound(first, cf[s])
  <2>1. cf[s] \in CFRecord /\ Consistent(cf[s])
    BY StationCF
  <2>2. Sound(Result(cf[s], << >>), cf[s])
    BY <2>1, NoFrames DEF Sound, Result
  <2>3. QED
    BY <2>1, <2>2, HandleDuplicateNameSound DEF handle_duplicate_internal_name
<1>3. cf' = [cf EXCEPT ![s] = second.cf] /\ TakeAndSend(s, first.tx \o second.tx)
  BY DEF ReceiveClaim
<1>4. partner' = [partner EXCEPT ![s] = TrackPartner(s, frame)]
  BY DEF ReceiveClaim
<1>5. \E kept \in SUBSET transports[s] : transports' = [transports EXCEPT ![s] = kept]
  <2> DEFINE kept1 == IF /\ IsDuplicateName(cf[s], frame)
                         /\ SurrenderedByClaim(cf[s], first.cf)
                      THEN discontinue_address(transports[s], cf[s].address)
                      ELSE transports[s]
             kept2 == IF SurrenderedByClaim(first.cf, second.cf)
                      THEN discontinue_address(kept1, first.cf.address)
                      ELSE kept1
  <2>1. kept2 \in SUBSET transports[s]
    BY DEF discontinue_address
  <2>2. transports' = [transports EXCEPT ![s] = kept2]
    BY DEF ReceiveClaim
  <2>3. QED
    BY <2>1, <2>2
<1>6. UNCHANGED <<violations, updating, ticked, used>>
  BY DEF ReceiveClaim
<1> HIDE DEF first, frame
<1>7. Sound(second, cf[s])
  BY <1>1, <1>2, HandleClaimSound DEF Sound
<1> HIDE DEF second
<1>8. first.tx \o second.tx \in Seq(Frame)
  BY SMT, <1>2, <1>7 DEF Sound
<1>9. rx' \in [Station -> Seq(Frame)] /\ late' \in [Station -> Nat]
  BY <1>1, <1>3, <1>8, TakeAndSendType DEF Inv
<1>10. CFInv'
  BY <1>3, <1>7, ReplaceCF DEF Inv, Sound
<1>11. TrackPartner(s, frame) \in PartnerRecord
  BY <1>1, TrackPartnerType
<1>12. TypeOK'
  BY <1>4, <1>5, <1>6, <1>9, <1>10, <1>11 DEF Inv, TypeOK, CFInv
<1>13. QED
  BY <1>10, <1>12 DEF Inv

\* Cannot Claim Address of another device preserves Inv.
LEMMA ReceiveCannotClaimInv ==
  ASSUME Inv, NEW s \in Station, ReceiveCannotClaim(s)
  PROVE  Inv'
<1>1. Head(rx[s]).address \in Address /\ Head(rx[s]).name \in Name
  BY HeadIsFrame, FrameFields DEF ReceiveCannotClaim, Inv
<1>2. TrackPartner(s, Head(rx[s])) \in PartnerRecord
  BY <1>1, TrackPartnerType
<1>3. rx' \in [Station -> Seq(Frame)] /\ late' \in [Station -> Nat]
  BY NoFrames, TakeAndSendType DEF ReceiveCannotClaim, Inv
<1>4. TypeOK' /\ CFInv'
  BY <1>2, <1>3 DEF ReceiveCannotClaim, Inv, TypeOK, CFInv, ClaimConsistent
<1>5. QED
  BY <1>4 DEF Inv

\* handle_request_for_address_claim preserves Inv.
LEMMA ReceiveRequestInv ==
  ASSUME Inv, NEW s \in Station, ReceiveRequest(s)
  PROVE  Inv'
<1> DEFINE destination == Head(rx[s]).destination
           r == IF destination \in {BROADCAST_ADDRESS, cf[s].address}
                THEN handle_request_for_claim(cf[s]) ELSE Result(cf[s], << >>)
<1>1. cf[s] \in CFRecord /\ Consistent(cf[s])
  BY StationCF
<1>2. Sound(r, cf[s])
  BY <1>1, NoFrames, HandleRequestSound DEF Sound, Result
<1>3. /\ rx[s] # << >>
      /\ cf' = [cf EXCEPT ![s] = r.cf]
      /\ TakeAndSend(s, r.tx)
      /\ partner' = [partner EXCEPT ![s] =
           IF @.online /\ destination \in {BROADCAST_ADDRESS, @.address}
           THEN begin_claim_validation(@) ELSE @]
      /\ UNCHANGED <<violations, transports, updating, ticked, used>>
  BY DEF ReceiveRequest
<1> HIDE DEF r
<1>4. CFInv'
  BY <1>2, <1>3, ReplaceCF DEF Inv, Sound
<1>5. rx' \in [Station -> Seq(Frame)] /\ late' \in [Station -> Nat]
  BY <1>2, <1>3, TakeAndSendType DEF Inv, Sound
<1>6. begin_claim_validation(partner[s]) \in PartnerRecord
  BY DEF begin_claim_validation, PartnerRecord, Inv, TypeOK
<1>7. partner' \in [Station -> PartnerRecord]
  BY <1>3, <1>6 DEF Inv, TypeOK
<1>8. TypeOK'
  BY <1>3, <1>4, <1>5, <1>7 DEF Inv, TypeOK, CFInv
<1>9. QED
  BY <1>4, <1>8 DEF Inv

\* Taking a commanded address over is a sound transition of the CF.
LEMMA CommandSound ==
  ASSUME Inv, NEW s \in Station, NEW frame,
         frame.address \in 0 .. BROADCAST_ADDRESS, frame.name \in Name
  PROVE  Sound(handle_commanded_address_message(s, frame), cf[s])
<1> DEFINE c == cf[s]
           moved == [c EXCEPT !.address = frame.address, !.online = TRUE, !.claim = "Claimed"]
<1>1. c \in CFRecord /\ Consistent(c)
  BY StationCF
<1>2. c.name \in Name /\ c.address \in Address
  BY <1>1 DEF CFRecord
<1>3. ASSUME NEW address \in Address
      PROVE  <<make_claim_frame(c.name, address)>> \in Seq(Frame)
  BY SMT, <1>2, FramesAreFrames
<1>4. Sound(Result(c, << >>), c)
  BY <1>1, NoFrames DEF Sound, Result
<1>5. Sound(Result(c, <<make_claim_frame(c.name, c.address)>>), c)
  BY <1>1, <1>2, <1>3 DEF Sound, Result
<1>6. ASSUME ~(frame.address > MaxAddress)
      PROVE  Sound(Result(moved, <<make_claim_frame(c.name, frame.address)>>), c)
  <2>1. frame.address \in Claimable /\ frame.address \in Address
    BY SMT, <1>6, AddressAssumption DEF Claimable, Address, NULL_ADDRESS, BROADCAST_ADDRESS
  <2>2. moved \in CFRecord /\ moved.preferred = c.preferred
    BY <1>1, <2>1 DEF CFRecord, ClaimState
  <2>3. /\ moved.claim = "Claimed" /\ moved.online
        /\ moved.address = frame.address
    BY <1>1 DEF CFRecord
  <2>4. Consistent(moved)
    BY <2>1, <2>3 DEF Consistent
  <2> HIDE DEF moved
  <2>5. QED
    BY <1>3, <2>1, <2>2, <2>4 DEF Sound, Result
<1>7. QED
  BY <1>4, <1>5, <1>6 DEF handle_commanded_address_message

\* A Commanded Address message preserves Inv.
LEMMA ReceiveCommandInv ==
  ASSUME Inv, NEW s \in Station, ReceiveCommand(s)
  PROVE  Inv'
<1> DEFINE r == handle_commanded_address_message(s, Head(rx[s]))
<1>1. Sound(r, cf[s])
  BY CommandSound, HeadIsFrame, FrameFields DEF ReceiveCommand, Inv
<1>2. /\ rx[s] # << >>
      /\ cf' = [cf EXCEPT ![s] = r.cf]
      /\ transports' = [transports EXCEPT ![s] =
           IF r.cf.address # cf[s].address
           THEN discontinue_address(@, cf[s].address) ELSE @]
      /\ TakeAndSend(s, r.tx)
      /\ UNCHANGED <<partner, violations, updating, ticked, used>>
  BY DEF ReceiveCommand
<1> HIDE DEF r
<1>3. CFInv'
  BY <1>1, <1>2, ReplaceCF DEF Inv, Sound
<1>4. rx' \in [Station -> Seq(Frame)] /\ late' \in [Station -> Nat]
  BY <1>1, <1>2, TakeAndSendType DEF Inv, Sound
<1>5. transports' \in [Station -> SUBSET Claimable]
  BY <1>2 DEF discontinue_address, Inv, TypeOK
<1>6. TypeOK'
  BY <1>2, <1>3, <1>4, <1>5 DEF Inv, TypeOK, CFInv
<1>7. QED
  BY <1>3, <1>6 DEF Inv

\* check_address_violation preserves Inv.
LEMMA ReceiveDataInv ==
  ASSUME Inv, NEW s \in Station, ReceiveData(s)
  PROVE  Inv'
<1> DEFINE source == Head(rx[s]).source
           violated == /\ source <= MaxAddress
                       /\ \A v \in violations[s] : v[1] # source
                       /\ cf[s].claim = "Claimed"
                       /\ cf[s].address = source
           r == IF violated THEN handle_request_for_claim(cf[s]) ELSE Result(cf[s], << >>)
<1>1. cf[s] \in CFRecord /\ Consistent(cf[s])
  BY StationCF
<1>2. Sound(r, cf[s])
  BY <1>1, NoFrames, HandleRequestSound DEF Sound, Result
<1>3. /\ rx[s] # << >>
      /\ cf' = [cf EXCEPT ![s] = r.cf]
      /\ TakeAndSend(s, r.tx)
      /\ violations' = [violations EXCEPT ![s] =
           IF violated THEN @ \cup {<<source, 0>>} ELSE @]
      /\ UNCHANGED <<partner, transports, updating, ticked, used>>
  BY DEF ReceiveData
<1>4. violated => source \in Claimable
  BY <1>1 DEF Consistent
<1> HIDE DEF r, violated, source
<1>5. CFInv'
  BY <1>2, <1>3, ReplaceCF DEF Inv, Sound
<1>6. rx' \in [Station -> Seq(Frame)] /\ late' \in [Station -> Nat]
  BY <1>2, <1>3, TakeAndSendType DEF Inv, Sound
<1>7. violations' \in [Station -> SUBSET (Claimable \X Nat)]
  BY SMT, <1>3, <1>4 DEF Inv, TypeOK
<1>8. TypeOK'
  BY <1>3, <1>5, <1>6, <1>7 DEF Inv, TypeOK, CFInv
<1>9. QED
  BY <1>5, <1>8 DEF Inv

\* Ageing keeps a partner a partner and violation records violation records.
LEMMA AgeingType ==
  ASSUME Inv, NEW s \in Station
  PROVE  /\ [partner EXCEPT ![s] = update_claim_validation(@)] \in [Station -> PartnerRecord]
         /\ [violations EXCEPT ![s] = AgedViolations(s)]
              \in [Station -> SUBSET (Claimable \X Nat)]
<1>1. NULL_ADDRESS \in Address /\ NameOf[s] \in Name
  BY SMT, AddressAssumption, StationAssumption DEF NULL_ADDRESS, Address
<1>2. partner[s] \in PartnerRecord
  BY DEF Inv, TypeOK
<1>3. update_claim_validation(partner[s]) \in PartnerRecord
  BY <1>1, <1>2, PartnerType
<1>4. AgedViolations(s) \in SUBSET (Claimable \X Nat)
  BY SMT DEF AgedViolations, Inv, TypeOK
<1>5. QED
  BY <1>3, <1>4 DEF Inv, TypeOK

\* The ageing that opens an update() preserves Inv.
LEMMA BeginUpdateInv ==
  ASSUME Inv, NEW s \in Station, BeginUpdate(s)
  PROVE  Inv'
<1>1. TypeOK'
  BY AgeingType DEF BeginUpdate, Inv, TypeOK
<1>2. CFInv'
  BY DEF BeginUpdate, Inv, CFInv, ClaimConsistent
<1>3. QED
  BY <1>1, <1>2 DEF Inv

\* update() preserves Inv.
LEMMA TickInv ==
  ASSUME Inv, NEW s \in Station, Tick(s)
  PROVE  Inv'
<1> DEFINE r == claimer_update(cf[s])
<1>1. Sound(r, cf[s])
  BY StationCF, UpdateSound
<1>2. /\ cf' = [cf EXCEPT ![s] = r.cf]
      /\ rx' = Broadcast(rx, s, r.tx)
      /\ late' = [late EXCEPT ![s] = Len(rx[s])]
      /\ transports' = [transports EXCEPT ![s] =
           IF SurrenderedByUpdate(cf[s], r.cf)
           THEN discontinue_address(@, cf[s].address) ELSE @]
      /\ used' = used
  BY DEF Tick
<1>8. updating' \in SUBSET Station /\ ticked' \in SUBSET Station
  BY DEF Tick, Inv, TypeOK
<1> HIDE DEF r
<1>3. CFInv'
  BY <1>1, <1>2, ReplaceCF DEF Inv, Sound
<1>4. rx' \in [Station -> Seq(Frame)]
  BY <1>1, <1>2, BroadcastType DEF Inv, TypeOK, Sound
<1>5. Len(rx[s]) \in Nat
  BY SMT DEF Inv, TypeOK
<1>6. late' \in [Station -> Nat]
  BY <1>2, <1>5 DEF Inv, TypeOK
<1>7. /\ partner' \in [Station -> PartnerRecord]
      /\ violations' \in [Station -> SUBSET (Claimable \X Nat)]
  BY AgeingType DEF Tick, Inv, TypeOK
<1>9. transports' \in [Station -> SUBSET Claimable]
  BY <1>2 DEF discontinue_address, Inv, TypeOK
<1>10. TypeOK'
  BY <1>2, <1>3, <1>4, <1>6, <1>7, <1>8, <1>9 DEF Inv, TypeOK, CFInv
<1>11. QED
  BY <1>3, <1>10 DEF Inv

\* A tool's request or command puts a well-formed frame on the bus.
LEMMA ToolInv ==
  ASSUME Inv, ToolRequest \/ ToolCommand
  PROVE  Inv'
<1>1. "requests" \in Bounded /\ "commands" \in Bounded
  BY DEF Bounded
<1>2. /\ UNCHANGED <<cf, partner, violations, transports, late, updating, ticked>>
      /\ Use("requests") \/ Use("commands")
  BY DEF ToolRequest, ToolCommand
<1>3. used' \in [Bounded -> Nat]
  BY <1>1, <1>2, UseType DEF Inv
<1>4. PICK frame \in Frame : rx' = BroadcastAll(rx, frame)
  <2>1. CASE ToolRequest
    <3>1. PICK destination \in {BROADCAST_ADDRESS} \cup {PreferredOf[s] : s \in Station} :
            rx' = BroadcastAll(rx, [kind |-> "request", destination |-> destination])
      BY <2>1 DEF ToolRequest
    <3>2. destination \in 0 .. BROADCAST_ADDRESS
      BY SMT, StationAssumption, AddressAssumption DEF Address, NULL_ADDRESS, BROADCAST_ADDRESS
    <3>3. [kind |-> "request", destination |-> destination] \in Frame
      BY <3>2 DEF Frame
    <3>4. QED
      BY <3>1, <3>3
  <2>2. CASE ToolCommand
    <3>1. PICK s \in Station, address \in CommandedAddresses :
            rx' = BroadcastAll(rx, [kind |-> "commanded", address |-> address,
                                    name |-> cf[s].name])
      BY <2>2 DEF ToolCommand
    <3>2. cf[s].name \in Name /\ address \in 0 .. BROADCAST_ADDRESS
      BY StationCF, StationAssumption DEF CFRecord
    <3>3. [kind |-> "commanded", address |-> address, name |-> cf[s].name] \in Frame
      BY <3>2 DEF Frame
    <3>4. QED
      BY <3>1, <3>3
  <2>3. QED
    BY <2>1, <2>2
<1>5. rx' \in [Station -> Seq(Frame)]
  <2>1. rx \in [Station -> Seq(Frame)]
    BY DEF Inv, TypeOK
  <2>2. BroadcastAll(rx, frame) \in [Station -> Seq(Frame)]
    BY <2>1, BroadcastAllType
  <2>3. QED
    BY <1>4, <2>2
<1>6. TypeOK'
  BY <1>2, <1>3, <1>5 DEF Inv, TypeOK
<1>7. CFInv'
  BY <1>2 DEF Inv, CFInv, ClaimConsistent
<1>8. QED
  BY <1>6, <1>7 DEF Inv

\* Inv is inductive.
LEMMA NextInv == Inv /\ [Next]_vars => Inv'
<1> SUFFICES ASSUME Inv, [Next]_vars PROVE Inv'
  OBVIOUS
<1>1. CASE Next
  <2>1. CASE ToolRequest \/ ToolCommand
    BY <2>1, ToolInv
  <2>2. ASSUME NEW s \in Station,
               \/ Operate(s) \/ PumpTransport(s) \/ FinishTransport(s) \/ PowerCycle(s)
               \/ BeginUpdate(s) \/ Process(s) \/ Tick(s)
        PROVE  Inv'
    BY <2>2, OwnerInv, DataInv, PowerCycleInv, ReceiveClaimInv, ReceiveCannotClaimInv,
       ReceiveRequestInv, ReceiveCommandInv, ReceiveDataInv, BeginUpdateInv, TickInv
    DEF Operate, Process
  <2>3. QED
    BY <1>1, <2>1, <2>2 DEF Next
<1>2. CASE UNCHANGED vars
  BY <1>2 DEF Inv, TypeOK, CFInv, ClaimConsistent, vars
<1>3. QED
  BY <1>1, <1>2

\* In every reachable state each CF record, partner, violation record,
\* transport and received frame is well formed.
THEOREM TypeCorrect == Spec => []TypeOK
<1>1. Inv => TypeOK
  BY DEF Inv
<1>2. QED
  BY <1>1, InitInv, NextInv, PTL DEF Spec

\* No sequence of claims, requests, commands, ticks and restarts brings a CF
\* into a state in which its claim state disagrees with its Online state or
\* its address, on a segment of any size.
THEOREM ClaimStateConsistent == Spec => []ClaimConsistent
<1>1. Inv => ClaimConsistent
  BY DEF Inv, CFInv
<1>2. QED
  BY <1>1, InitInv, NextInv, PTL DEF Spec

-----------------------------------------------------------------------------
(* Transports run on held addresses.  start() does not close transports,   *)
(* so this rests on every CF being built with a claimable preferred        *)
(* address: start() then leaves the address and the Online state alone.    *)

ClaimablePreferred == PreferredOf \in [Station -> Claimable]

HoldsTransports == Inv /\ TransportOnHeldAddress

\* A handler that leaves the address and the Online state of its CF alone
\* disturbs no transport.
LEMMA QuietHandler ==
  ASSUME HoldsTransports, NEW s \in Station, NEW c,
         cf' = [cf EXCEPT ![s] = c], c.address = cf[s].address, c.online = cf[s].online,
         transports' = transports
  PROVE  TransportOnHeldAddress'
BY DEF HoldsTransports, TransportOnHeldAddress, Inv, TypeOK

\* A step of one station that leaves it with transports on its address only.
LEMMA StationTransports ==
  ASSUME HoldsTransports, NEW s \in Station,
         \A t \in Station \ {s} : cf'[t] = cf[t] /\ transports'[t] = transports[t],
         \A address \in transports'[s] : cf'[s].online /\ cf'[s].address = address
  PROVE  TransportOnHeldAddress'
BY SMT DEF HoldsTransports, TransportOnHeldAddress

\* The owner's claim operations leave the address and the Online state alone.
LEMMA OwnerTransports ==
  ASSUME HoldsTransports, ClaimablePreferred, NEW s \in Station,
         StartClaiming(s) \/ AdoptName(s) \/ SendClaimResponses(s)
  PROVE  TransportOnHeldAddress'
<1>1. /\ cf[s] \in CFRecord /\ Consistent(cf[s])
      /\ cf[s].preferred \in Claimable
  BY StationCF DEF HoldsTransports, Inv, CFInv, ClaimablePreferred
<1>2. CASE StartClaiming(s)
  BY <1>1, <1>2, StartSound, QuietHandler DEF StartClaiming
<1>3. CASE AdoptName(s)
  <2>1. PICK name \in AdoptableBy[s] :
          /\ cf' = [cf EXCEPT ![s] = start([cf[s] EXCEPT !.name = name]).cf]
          /\ transports' = transports
    BY <1>3 DEF AdoptName
  <2> DEFINE c == [cf[s] EXCEPT !.name = name]
  <2>2. name \in Name
    BY StationAssumption
  <2>3. /\ c \in CFRecord /\ Consistent(c) /\ c.preferred \in Claimable
        /\ c.address = cf[s].address /\ c.online = cf[s].online
    BY <1>1, <2>2 DEF CFRecord, Consistent
  <2> HIDE DEF c
  <2>4. start(c).cf.address = cf[s].address /\ start(c).cf.online = cf[s].online
    BY <2>3, StartSound
  <2>5. QED
    BY <2>1, <2>4, QuietHandler DEF c
<1>4. CASE SendClaimResponses(s)
  BY <1>1, <1>4, HandleRequestSound, QuietHandler DEF SendClaimResponses
<1>5. QED
  BY <1>2, <1>3, <1>4

\* A transport is opened on the address held at that moment; a power cycle ends
\* all of them.
LEMMA DataTransports ==
  ASSUME HoldsTransports, NEW s \in Station,
         SendSingleFrame(s) \/ OpenTransport(s) \/ PumpTransport(s)
           \/ FinishTransport(s) \/ PowerCycle(s)
  PROVE  TransportOnHeldAddress'
<1>1. CASE SendSingleFrame(s) \/ PumpTransport(s)
  BY <1>1 DEF SendSingleFrame, PumpTransport, HoldsTransports, TransportOnHeldAddress
<1>2. CASE OpenTransport(s)
  BY <1>2 DEF OpenTransport, MaySend, HoldsTransports, TransportOnHeldAddress, Inv, TypeOK
<1>3. CASE FinishTransport(s)
  BY SMT, <1>3 DEF FinishTransport, HoldsTransports, TransportOnHeldAddress, Inv, TypeOK
<1>4. CASE PowerCycle(s)
  <2>1. /\ cf' = [cf EXCEPT ![s] = NewStation(s)]
        /\ transports' = [transports EXCEPT ![s] = {}]
    BY <1>4 DEF PowerCycle
  <2>2. QED
    BY <2>1, StationTransports DEF HoldsTransports, Inv, TypeOK
<1>5. QED
  BY <1>1, <1>2, <1>3, <1>4

\* A contest the CF loses, and a duplicate of its NAME, close the transports
\* of the address given up.
LEMMA ClaimTransports ==
  ASSUME HoldsTransports, NEW s \in Station, ReceiveClaim(s)
  PROVE  TransportOnHeldAddress'
<1> DEFINE frame == Head(rx[s])
           first == handle_duplicate_internal_name(cf[s], frame)
           second == handle_claim(first.cf, frame.address, frame.name)
           kept1 == IF IsDuplicateName(cf[s], frame) /\ SurrenderedByClaim(cf[s], first.cf)
                    THEN discontinue_address(transports[s], cf[s].address)
                    ELSE transports[s]
           kept2 == IF SurrenderedByClaim(first.cf, second.cf)
                    THEN discontinue_address(kept1, first.cf.address)
                    ELSE kept1
<1>1. /\ cf' = [cf EXCEPT ![s] = second.cf]
      /\ transports' = [transports EXCEPT ![s] = kept2]
  BY DEF ReceiveClaim
<1>2. \A address \in transports[s] : cf[s].online /\ cf[s].address = address
  BY DEF HoldsTransports, TransportOnHeldAddress
<1>3. ~IsDuplicateName(cf[s], frame) => first.cf = cf[s]
  BY DEF handle_duplicate_internal_name, Result
<1> HIDE DEF first, second
<1>4. \A address \in kept1 : first.cf.online /\ first.cf.address = address
  BY <1>2, <1>3 DEF SurrenderedByClaim, discontinue_address
<1> HIDE DEF kept1
<1>5. \A address \in kept2 : second.cf.online /\ second.cf.address = address
  BY <1>4 DEF SurrenderedByClaim, discontinue_address
<1> HIDE DEF kept2
<1>6. /\ cf'[s] = second.cf /\ transports'[s] = kept2
      /\ \A t \in Station \ {s} : cf'[t] = cf[t] /\ transports'[t] = transports[t]
  BY <1>1 DEF HoldsTransports, Inv, TypeOK
<1>7. QED
  BY SMT, <1>5, <1>6, StationTransports

\* A commanded address closes the transports of the address it replaces.
LEMMA CommandTransports ==
  ASSUME HoldsTransports, NEW s \in Station, ReceiveCommand(s)
  PROVE  TransportOnHeldAddress'
<1> DEFINE r == handle_commanded_address_message(s, Head(rx[s]))
           kept == IF r.cf.address # cf[s].address
                   THEN discontinue_address(transports[s], cf[s].address)
                   ELSE transports[s]
<1>1. /\ cf' = [cf EXCEPT ![s] = r.cf]
      /\ transports' = [transports EXCEPT ![s] = kept]
  BY DEF ReceiveCommand
<1>2. \A address \in transports[s] : cf[s].online /\ cf[s].address = address
  BY DEF HoldsTransports, TransportOnHeldAddress
<1>3. cf[s] \in CFRecord
  BY StationCF DEF HoldsTransports
<1>4. r.cf = cf[s] \/ r.cf.online
  BY <1>3 DEF handle_commanded_address_message, Result, CFRecord
<1> HIDE DEF r
<1>5. \A address \in kept : r.cf.online /\ r.cf.address = address
  BY <1>2, <1>4 DEF discontinue_address
<1> HIDE DEF kept
<1>6. /\ cf'[s] = r.cf /\ transports'[s] = kept
      /\ \A t \in Station \ {s} : cf'[t] = cf[t] /\ transports'[t] = transports[t]
  BY <1>1 DEF HoldsTransports, Inv, TypeOK
<1>7. QED
  BY SMT, <1>5, <1>6, StationTransports

\* update() closes the transports of an address that a claimer gives up.
LEMMA TickTransports ==
  ASSUME HoldsTransports, NEW s \in Station, Tick(s)
  PROVE  TransportOnHeldAddress'
<1> DEFINE r == claimer_update(cf[s])
           kept == IF SurrenderedByUpdate(cf[s], r.cf)
                   THEN discontinue_address(transports[s], cf[s].address)
                   ELSE transports[s]
<1>1. /\ cf' = [cf EXCEPT ![s] = r.cf]
      /\ transports' = [transports EXCEPT ![s] = kept]
  BY DEF Tick
<1>2. \A address \in transports[s] :
        cf[s].online /\ cf[s].address = address /\ address # NULL_ADDRESS
  BY SMT, AddressAssumption DEF HoldsTransports, TransportOnHeldAddress, Inv, TypeOK, Claimable, NULL_ADDRESS
<1> HIDE DEF r
<1>3. \A address \in kept : r.cf.online /\ r.cf.address = address
  BY <1>2 DEF SurrenderedByUpdate, discontinue_address
<1> HIDE DEF kept
<1>4. /\ cf'[s] = r.cf /\ transports'[s] = kept
      /\ \A t \in Station \ {s} : cf'[t] = cf[t] /\ transports'[t] = transports[t]
  BY <1>1 DEF HoldsTransports, Inv, TypeOK
<1>5. QED
  BY SMT, <1>3, <1>4, StationTransports

\* Requests and data frames leave address and Online state alone.
LEMMA AnswerTransports ==
  ASSUME HoldsTransports, NEW s \in Station,
         ReceiveCannotClaim(s) \/ ReceiveRequest(s) \/ ReceiveData(s)
  PROVE  TransportOnHeldAddress'
<1>1. cf[s] \in CFRecord /\ Consistent(cf[s])
  BY StationCF DEF HoldsTransports
<1>2. CASE ReceiveCannotClaim(s)
  BY <1>2 DEF ReceiveCannotClaim, HoldsTransports, TransportOnHeldAddress
<1>3. CASE ReceiveRequest(s) \/ ReceiveData(s)
  <2>1. /\ \/ cf' = [cf EXCEPT ![s] = handle_request_for_claim(cf[s]).cf]
           \/ cf' = [cf EXCEPT ![s] = cf[s]]
        /\ transports' = transports
    BY <1>3 DEF ReceiveRequest, ReceiveData, Result
  <2>2. QED
    BY <1>1, <2>1, HandleRequestSound, QuietHandler
<1>4. QED
  BY <1>2, <1>3

\* Where every preferred address is claimable, no TP/ETP session and no queued
\* transmit ever runs on an address its station does not hold, whatever
\* contests, duplicate NAMEs, commands and restarts happen while it runs.
THEOREM TransportsRunOnHeldAddresses ==
  ASSUME ClaimablePreferred
  PROVE  Spec => []TransportOnHeldAddress
<1>1. Init => HoldsTransports
  BY InitInv DEF Init, HoldsTransports, TransportOnHeldAddress
<1>2. HoldsTransports /\ [Next]_vars => HoldsTransports'
  <2> SUFFICES ASSUME HoldsTransports, [Next]_vars PROVE HoldsTransports'
    OBVIOUS
  <2>1. Inv'
    BY NextInv DEF HoldsTransports
  <2>2. CASE \/ UNCHANGED vars \/ ToolRequest \/ ToolCommand
             \/ \E s \in Station : BeginUpdate(s)
    <3>1. cf' = cf /\ transports' = transports
      BY <2>2 DEF vars, ToolRequest, ToolCommand, BeginUpdate
    <3>2. QED
      BY <2>1, <3>1 DEF HoldsTransports, TransportOnHeldAddress
  <2>3. ASSUME NEW s \in Station,
               \/ Operate(s) \/ PumpTransport(s) \/ FinishTransport(s) \/ PowerCycle(s)
               \/ Process(s) \/ Tick(s)
        PROVE  TransportOnHeldAddress'
    BY <2>3, ClaimablePreferred, OwnerTransports, DataTransports, ClaimTransports,
       CommandTransports, TickTransports, AnswerTransports DEF Operate, Process
  <2>4. QED
    BY <2>1, <2>2, <2>3 DEF Next, HoldsTransports
<1>3. HoldsTransports => TransportOnHeldAddress
  BY DEF HoldsTransports
<1>4. QED
  BY <1>1, <1>2, <1>3, PTL DEF Spec
===============================================================================
