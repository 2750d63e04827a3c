----------------------- MODULE SequenceControlProofs -----------------------
(***************************************************************************)
(* Proof that the sequence control master only counts clients it watches:  *)
(* CreditedAreWatched for any number of clients, steps and any timing.     *)
(*                                                                         *)
(* The property is about the master alone and holds whatever the clients   *)
(* send, so the invariant says nothing about them or about frames.  It is  *)
(* inductive with two additions: the master is a record with its fields,   *)
(* and the acknowledgements are a finite set, for counting them.           *)
(***************************************************************************)
EXTENDS SequenceControl, FiniteSetTheorems, TLAPS

\* Most leaves are first-order; those with arithmetic or sequences cite SMT.
USE Zenon

MasterFields ==
  {"state", "steps", "index", "statusTimer", "readyTimer", "activeTimer",
   "acked", "seen", "ready", "acks", "confirmed", "abortSeen"}

Watched(m) ==
  /\ m.state = "Ready" => m.ready \subseteq DOMAIN m.seen
  /\ m.state = "Active" =>
       /\ m.acks \subseteq DOMAIN m.seen
       /\ m.acked => Cardinality(m.acks) >= RequiredClients

MasterOK(m) ==
  /\ MasterFields \subseteq DOMAIN m
  /\ IsFiniteSet(m.acks)
  /\ Watched(m)

-----------------------------------------------------------------------------
(* What the handlers share.                                                *)

\* Changing state to one in which nothing is counted keeps the master good.
LEMMA Halting ==
  ASSUME NEW m, MasterFields \subseteq DOMAIN m, IsFiniteSet(m.acks),
         NEW state \in {"Paused", "Complete", "Error"}
  PROVE  MasterOK(Transition(m, state))
BY DEF MasterFields, MasterOK, Watched, Transition

\* Dispatching a step forgets all acknowledgements.
LEMMA Awaiting ==
  ASSUME NEW m, MasterFields \subseteq DOMAIN m
  PROVE  /\ MasterFields \subseteq DOMAIN AwaitAcks(m)
         /\ AwaitAcks(m).acks = {} /\ AwaitAcks(m).acked = FALSE
         /\ AwaitAcks(m).state = m.state /\ AwaitAcks(m).ready = m.ready
         /\ AwaitAcks(m).seen = m.seen
BY DEF MasterFields, AwaitAcks

\* A master that has just dispatched a step is good.
LEMMA Dispatching ==
  ASSUME NEW m, MasterFields \subseteq DOMAIN m
  PROVE  MasterOK(Transition(AwaitAcks(m), "Active"))
<1> DEFINE n == AwaitAcks(m)
<1>1. /\ MasterFields \subseteq DOMAIN n
      /\ n.acks = {} /\ n.acked = FALSE
  BY Awaiting
<1> HIDE DEF n
<1>2. MasterOK(Transition(n, "Active"))
  BY <1>1, FS_EmptySet DEF MasterFields, MasterOK, Watched, Transition
<1> QED  BY <1>2 DEF n

-----------------------------------------------------------------------------
(* The application's calls.                                                *)

\* Starting a sequence forgets who was ready.
LEMMA StartOK ==
  ASSUME NEW m, MasterOK(m)
  PROVE  MasterOK(start(m))
BY FS_EmptySet DEF MasterFields, MasterOK, Watched, start, Transition

\* Aborting leaves nothing to count.
LEMMA AbortOK ==
  ASSUME NEW m, MasterFields \subseteq DOMAIN m, IsFiniteSet(m.acks)
  PROVE  MasterOK(abort(m))
BY DEF MasterFields, MasterOK, Watched, abort, Transition

\* Completing a step dispatches the next one or ends the sequence.
LEMMA StepCompletedOK ==
  ASSUME NEW m, MasterOK(m), m.state = "Active"
  PROVE  MasterOK(step_completed(m))
<1> DEFINE next == [m EXCEPT !.index = @ + 1]
<1>1. MasterFields \subseteq DOMAIN next /\ IsFiniteSet(next.acks) /\ next.state = "Active"
  BY DEF MasterOK, MasterFields
<1>2. step_completed(m) = IF m.index >= Len(m.steps) THEN Transition(next, "Complete")
                          ELSE AwaitAcks(next)
  BY DEF step_completed
<1> HIDE DEF next
<1>3. MasterOK(Transition(next, "Complete"))
  BY <1>1, Halting
<1>4. MasterOK(AwaitAcks(next))
  BY <1>1, Awaiting, FS_EmptySet DEF MasterOK, Watched
<1> QED  BY <1>2, <1>3, <1>4

\* No call of the application breaks the invariant.
LEMMA CommandsOK ==
  ASSUME NEW m, MasterOK(m)
  PROVE  /\ m.state = "Idle" => \A step : MasterOK(add_step(m, step))
         /\ MasterOK(start(m)) /\ MasterOK(abort(m))
         /\ MasterOK(pause(m)) /\ MasterOK(resume(m))
         /\ m.state = "Active" => MasterOK(step_completed(m))
<1>1. MasterFields \subseteq DOMAIN m /\ IsFiniteSet(m.acks)
  BY DEF MasterOK
<1>2. ASSUME NEW step PROVE MasterOK(add_step(m, step))
  BY DEF MasterFields, MasterOK, Watched, add_step
<1>3. MasterOK(pause(m)) /\ MasterOK(resume(m))
  BY <1>1, Halting, Dispatching DEF pause, resume
<1> QED  BY <1>1, <1>2, <1>3, StartOK, AbortOK, StepCompletedOK

-----------------------------------------------------------------------------
(* The timers.                                                             *)

\* The step timers count nobody, and may halt.
LEMMA StepTimeoutOK ==
  ASSUME NEW m, MasterOK(m)
  PROVE  MasterOK(StepTimeout(m))
<1> DEFINE r == [m EXCEPT !.readyTimer = AtMost(ReadyLimit, @ + 1)]
           a == [m EXCEPT !.activeTimer = AtMost(ActiveLimit, @ + 1)]
<1>1. MasterOK(r) /\ MasterOK(a)
  BY DEF MasterFields, MasterOK, Watched
<1>2. StepTimeout(m) \in {m, r, a, Transition(r, "Error"), Transition(a, "Error")}
  BY DEF StepTimeout
<1> HIDE DEF r, a
<1>3. MasterOK(Transition(r, "Error")) /\ MasterOK(Transition(a, "Error"))
  BY <1>1, Halting DEF MasterOK
<1> QED  BY <1>1, <1>2, <1>3

\* The watchdog forgets clients only when it halts.
LEMMA ClientTimeoutOK ==
  ASSUME NEW m, MasterOK(m), NEW was
  PROVE  MasterOK(ClientTimeout(m, was))
<1> DEFINE seen == [k \in DOMAIN m.seen |->
                      [m.seen[k] EXCEPT !.age = AtMost(ReadyLimit, @ + 1)]]
           quiet == {k \in DOMAIN seen : Silent(seen, k)}
           aged == [m EXCEPT !.seen = seen]
           left == [m EXCEPT !.seen = [k \in DOMAIN seen \ quiet |-> seen[k]]]
<1>1. ClientTimeout(m, was) \in {m, aged, Transition(left, "Error")}
  BY DEF ClientTimeout
<1>2. DOMAIN seen = DOMAIN m.seen
  OBVIOUS
<1>3. MasterFields \subseteq DOMAIN left /\ IsFiniteSet(left.acks)
  BY DEF MasterOK, MasterFields
<1> HIDE DEF seen
<1>4. MasterOK(aged)
  BY <1>2 DEF MasterFields, MasterOK, Watched
<1> HIDE DEF aged, left
<1> QED  BY <1>1, <1>3, <1>4, Halting

\* update() keeps the master good.
LEMMA MasterUpdateOK ==
  ASSUME NEW m, MasterOK(m)
  PROVE  MasterOK(master_update(m).state)
<1> DEFINE resting == m.state \in {"Idle", "Complete"}
           interval == IF resting THEN IdleInterval ELSE StatusInterval
           due == m.statusTimer + 1 >= interval
           paced == [m EXCEPT !.statusTimer = IF due THEN @ + 1 - interval ELSE @ + 1]
           after == ClientTimeout(StepTimeout(paced), m.state)
           aborted == [after EXCEPT !.statusTimer = 0]
<1>1. master_update(m).state \in {paced, after, aborted}
  BY DEF master_update, Result
<1>2. MasterOK(paced)
  BY DEF MasterFields, MasterOK, Watched
<1> HIDE DEF paced
<1>3. MasterOK(after)
  BY <1>2, StepTimeoutOK, ClientTimeoutOK
<1> HIDE DEF after
<1>4. MasterOK(aborted)
  BY <1>3 DEF MasterFields, MasterOK, Watched
<1> QED  BY <1>1, <1>2, <1>3, <1>4

-----------------------------------------------------------------------------
(* Client status messages.                                                 *)

\* An enabled client is enrolled, and only a disabled one is dropped.
LEMMA NotedFields ==
  ASSUME NEW m, MasterFields \subseteq DOMAIN m, NEW f
  PROVE  /\ MasterFields \subseteq DOMAIN Noted(m, f)
         /\ Noted(m, f).acks = m.acks /\ Noted(m, f).ready = m.ready
         /\ Noted(m, f).acked = m.acked /\ Noted(m, f).state = m.state
         /\ DOMAIN m.seen \ {f.from} \subseteq DOMAIN Noted(m, f).seen
         /\ f.active => f.from \in DOMAIN Noted(m, f).seen
BY DEF MasterFields, Noted

\* Rearming forgets who was ready.
LEMMA InAbortOK ==
  ASSUME NEW m, MasterFields \subseteq DOMAIN m, IsFiniteSet(m.acks),
         m.state = "Error", NEW f
  PROVE  MasterOK(InAbort(m, f))
<1> DEFINE k == f.from
           n == IF Mapped(f) = "Error"
                THEN [m EXCEPT !.abortSeen = @ \cup {k}, !.confirmed = @ \ {k}]
                ELSE IF k \in m.abortSeen THEN [m EXCEPT !.confirmed = @ \cup {k}]
                ELSE m
<1>1. MasterFields \subseteq DOMAIN n /\ IsFiniteSet(n.acks) /\ n.state = "Error"
  BY DEF MasterFields
<1>2. InAbort(m, f) \in {n, rearm_after_abort(n)}
  BY DEF InAbort
<1> HIDE DEF n
<1>3. MasterOK(n)
  BY <1>1 DEF MasterOK, Watched
<1>4. MasterOK(rearm_after_abort(n))
  BY <1>1, FS_EmptySet DEF MasterFields, MasterOK, Watched, rearm_after_abort
<1> QED  BY <1>2, <1>3, <1>4

\* Only an enabled client counts as ready.
LEMMA InReadyOK ==
  ASSUME NEW m, NEW f, MasterFields \subseteq DOMAIN m, IsFiniteSet(m.acks),
         m.state = "Ready", m.ready \ {f.from} \subseteq DOMAIN m.seen,
         f.active => f.from \in DOMAIN m.seen
  PROVE  MasterOK(InReady(m, f))
<1> DEFINE ready == IF Mapped(f) = "Ready"
                    THEN m.ready \cup {f.from} ELSE m.ready \ {f.from}
           n == [m EXCEPT !.ready = ready]
<1>1. InReady(m, f) \in {n, Transition(AwaitAcks(n), "Active")}
  BY DEF InReady
<1>2. ready \subseteq DOMAIN m.seen
  BY DEF Mapped
<1> HIDE DEF ready
<1>3. MasterOK(n)
  BY <1>2 DEF MasterFields, MasterOK, Watched
<1> HIDE DEF n
<1>4. MasterOK(Transition(AwaitAcks(n), "Active"))
  BY <1>3, Dispatching DEF MasterOK
<1> QED  BY <1>1, <1>3, <1>4

\* Only an enabled client acknowledges; a step stays acknowledged only while
\* enough clients do.
LEMMA InActiveOK ==
  ASSUME NEW m, NEW f, MasterFields \subseteq DOMAIN m, IsFiniteSet(m.acks),
         m.state = "Active", m.acks \ {f.from} \subseteq DOMAIN m.seen,
         f.active => f.from \in DOMAIN m.seen,
         m.acked => Cardinality(m.acks) >= RequiredClients
  PROVE  MasterOK(InActive(m, f))
<1> DEFINE acks == IF Acknowledges(m, f)
                   THEN m.acks \cup {f.from} ELSE m.acks \ {f.from}
           n == [m EXCEPT !.acks = acks]
           yes == [n EXCEPT !.acked = TRUE, !.activeTimer = 0]
           no == [n EXCEPT !.acked = FALSE, !.activeTimer = 0]
<1>1. InActive(m, f) =
        IF Acknowledges(m, f)
        THEN IF Cardinality(acks) >= RequiredClients THEN yes ELSE n
        ELSE IF f.from \in m.acks /\ Cardinality(acks) < RequiredClients
             THEN no ELSE n
  BY DEF InActive
<1>2. acks \subseteq DOMAIN m.seen
  BY DEF Acknowledges, Mapped
<1>3. IsFiniteSet(acks)
  BY FS_AddElement, FS_RemoveElement
<1>4. /\ Cardinality(acks) \in Nat /\ Cardinality(m.acks) \in Nat
      /\ RequiredClients \in Nat
  BY <1>3, FS_CardinalityType, CountAssumption
<1>5. Acknowledges(m, f) => Cardinality(acks) >= Cardinality(m.acks)
  <2>1. Cardinality(m.acks \cup {f.from}) =
          IF f.from \in m.acks THEN Cardinality(m.acks) ELSE Cardinality(m.acks) + 1
    BY FS_AddElement
  <2>2. Acknowledges(m, f) => acks = m.acks \cup {f.from}
    OBVIOUS
  <2> HIDE DEF acks
  <2> QED  BY SMT, <1>4, <2>1, <2>2
<1>6. ~Acknowledges(m, f) /\ f.from \notin m.acks => acks = m.acks
  OBVIOUS
<1> HIDE DEF acks
<1>7. /\ MasterFields \subseteq DOMAIN n /\ n.acks = acks /\ n.acked = m.acked
      /\ n.state = "Active" /\ n.seen = m.seen
  BY DEF MasterFields
<1>8. /\ MasterFields \subseteq DOMAIN yes /\ yes.acks = acks
      /\ yes.state = "Active" /\ yes.seen = m.seen
  BY DEF MasterFields
<1>9. /\ MasterFields \subseteq DOMAIN no /\ no.acks = acks /\ no.acked = FALSE
      /\ no.state = "Active" /\ no.seen = m.seen
  BY DEF MasterFields
<1> HIDE DEF n, yes, no
<1>10. MasterOK(no)
  BY <1>2, <1>3, <1>9 DEF MasterOK, Watched
<1>11. Cardinality(acks) >= RequiredClients => MasterOK(yes) /\ MasterOK(n)
  BY <1>2, <1>3, <1>7, <1>8 DEF MasterOK, Watched
<1>12. Acknowledges(m, f) /\ Cardinality(acks) < RequiredClients => MasterOK(n)
  BY SMT, <1>2, <1>3, <1>4, <1>5, <1>7 DEF MasterOK, Watched
<1>13. ~Acknowledges(m, f) /\ f.from \notin m.acks => MasterOK(n)
  BY <1>2, <1>3, <1>6, <1>7 DEF MasterOK, Watched
<1> QED  BY SMT, <1>1, <1>4, <1>10, <1>11, <1>12, <1>13

\* Handling a client status keeps the master good.
LEMMA HandleClientStatusOK ==
  ASSUME NEW m, MasterOK(m), NEW f
  PROVE  MasterOK(try_handle_client_status(m, f))
<1> DEFINE n == Noted(m, f)
<1>1. /\ MasterFields \subseteq DOMAIN n
      /\ n.acks = m.acks /\ n.ready = m.ready /\ n.acked = m.acked /\ n.state = m.state
      /\ DOMAIN m.seen \ {f.from} \subseteq DOMAIN n.seen
      /\ f.active => f.from \in DOMAIN n.seen
  BY NotedFields DEF MasterOK
<1>2. try_handle_client_status(m, f) =
        IF Mapped(f) = "Error" /\ m.state \in {"Ready", "Active", "Paused"}
        THEN abort(n)
        ELSE IF m.state = "Error" THEN InAbort(n, f)
        ELSE IF m.state = "Ready" THEN InReady(n, f)
        ELSE IF m.state = "Active" THEN InActive(n, f)
        ELSE n
  BY DEF try_handle_client_status
<1>3. IsFiniteSet(n.acks)
  BY <1>1 DEF MasterOK
<1> HIDE DEF n
<1>4. MasterOK(abort(n))
  BY <1>1, <1>3, AbortOK
<1>5. m.state = "Error" => MasterOK(InAbort(n, f))
  BY <1>1, <1>3, InAbortOK
<1>6. m.state = "Ready" => MasterOK(InReady(n, f))
  BY <1>1, <1>3, InReadyOK DEF MasterOK, Watched
<1>7. m.state = "Active" => MasterOK(InActive(n, f))
  BY <1>1, <1>3, InActiveOK DEF MasterOK, Watched
<1>8. m.state \notin {"Ready", "Active"} => MasterOK(n)
  BY <1>1, <1>3 DEF MasterOK, Watched
<1> QED  BY <1>2, <1>4, <1>5, <1>6, <1>7, <1>8

-----------------------------------------------------------------------------
\* For any number of clients and steps, any required count and any timing,
\* whatever the clients say or do not say: the master counts only clients its
\* watchdog watches, and an acknowledged step has enough acknowledgements.
THEOREM MasterCountsOnlyWatched == Spec => []CreditedAreWatched
<1>1. Init => MasterOK(master)
  BY SMT, FS_EmptySet DEF Init, NewMaster, MasterFields, MasterOK, Watched
<1>2. MasterOK(master) /\ [Next]_vars => MasterOK(master)'
  <2> SUFFICES ASSUME MasterOK(master), [Next]_vars PROVE MasterOK(master')
    BY DEF MasterOK, Watched, MasterFields
  <2>1. CASE AddStep \/ Start \/ StepCompleted
    BY <2>1, CommandsOK DEF AddStep, Start, StepCompleted, Command, CanAdd
  <2>2. CASE Abort \/ Pause \/ Resume
    BY <2>2, CommandsOK DEF Abort, Pause, Resume, Command
  <2>3. CASE MasterProcess
    BY <2>3, HandleClientStatusOK DEF MasterProcess
  <2>4. CASE MasterTick
    BY <2>4, MasterUpdateOK DEF MasterTick
  <2>5. ASSUME NEW n \in Station, PowerOff(n) PROVE MasterOK(master')
    <3>1. MasterOK(NewMaster)
      BY FS_EmptySet DEF NewMaster, MasterFields, MasterOK, Watched
    <3> QED  BY <2>5, <3>1 DEF PowerOff
  <2>6. ASSUME UNCHANGED master PROVE MasterOK(master')
    BY <2>6
  <2>7. ASSUME NEW k \in Client,
               SetBusy(k) \/ ReportStepComplete(k) \/ ClientProcess(k) \/ ClientTick(k)
        PROVE  UNCHANGED master
    BY <2>7 DEF SetBusy, ReportStepComplete, Report, ClientProcess, ClientTick
  <2>8. ASSUME NEW n \in Station, Lose(n) \/ PowerOn(n) PROVE UNCHANGED master
    BY <2>8 DEF Lose, PowerOn
  <2>9. UNCHANGED vars => UNCHANGED master
    BY DEF vars
  <2> QED  BY <2>1, <2>2, <2>3, <2>4, <2>5, <2>6, <2>7, <2>8, <2>9 DEF Next, Drive
<1>3. MasterOK(master) => CreditedAreWatched
  BY DEF MasterOK, Watched, CreditedAreWatched
<1> QED  BY <1>1, <1>2, <1>3, PTL DEF Spec
=============================================================================
