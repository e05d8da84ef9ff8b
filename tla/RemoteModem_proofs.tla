------------------------- MODULE RemoteModem_proofs -------------------------
(***************************************************************************)
(* Proof about the request slot of RemoteModem, for any number of tasks    *)
(* that submit requests, any ids and any behaviour of the module.          *)
(***************************************************************************)
EXTENDS RemoteModem, FiniteSetTheorems, TLAPS

(* The clients with a reservation they have not yet queued.                *)
Submitting == {c \in Clients : clients[c] # Idle}

(* Where the request of a reserved slot is: with a client, in the queue or *)
(* with the owner, and nowhere else.                                       *)
WithClient(c) == Submitting = {c} /\ queue = <<>> /\ owner_pc # "RELEASE"
InQueue       == Submitting = {} /\ Len(queue) = 1 /\ owner_pc # "RELEASE"
WithOwner     == Submitting = {} /\ queue = <<>> /\ owner_pc = "RELEASE"
Nowhere       == Submitting = {} /\ queue = <<>> /\ owner_pc # "RELEASE"

SlotTypes ==
  /\ clients \in [Clients -> Requests \cup {Idle}]
  /\ queue \in Seq(Requests)
  /\ reserved \in BOOLEAN

SlotInv ==
  /\ SlotTypes
  /\ reserved => (\E c \in Clients : WithClient(c)) \/ InQueue \/ WithOwner
  /\ ~ reserved => Nowhere

LEMMA IdleIsNoRequest == Idle \notin Requests
  BY DEF Idle, Requests

LEMMA InitSlot == Init => SlotInv
<1> SUFFICES ASSUME Init PROVE SlotInv
  OBVIOUS
<1>1. /\ queue = <<>> /\ reserved = FALSE /\ owner_pc = "COMMAND"
      /\ clients = [c \in Clients |-> Idle]
  BY DEF Init
<1>2. Submitting = {}
  BY <1>1 DEF Submitting
<1>3. queue \in Seq(Requests)
  BY <1>1
<1>4. clients \in [Clients -> Requests \cup {Idle}]
  BY <1>1
<1>5. SlotTypes
  BY <1>1, <1>3, <1>4 DEF SlotTypes
<1> QED  BY <1>1, <1>2, <1>5 DEF SlotInv, Nowhere

(* A step that leaves the slot and keeps the owner out of its release.     *)
LEMMA SlotUntouched ==
  ASSUME SlotInv, UNCHANGED <<reserved, queue, clients>>,
         \/ owner_pc' = owner_pc
         \/ owner_pc # "RELEASE" /\ owner_pc' # "RELEASE"
  PROVE  SlotInv'
<1>1. Submitting' = Submitting
  BY DEF Submitting
<1>2. (owner_pc' = "RELEASE") <=> (owner_pc = "RELEASE")
  OBVIOUS
<1>3. /\ \A c \in Clients : WithClient(c)' <=> WithClient(c)
      /\ InQueue' <=> InQueue
      /\ WithOwner' <=> WithOwner
      /\ Nowhere' <=> Nowhere
  BY <1>1, <1>2 DEF WithClient, InQueue, WithOwner, Nowhere
<1>4. SlotTypes' /\ reserved' = reserved
  BY DEF SlotInv, SlotTypes
<1> QED  BY <1>3, <1>4 DEF SlotInv

(* The owner takes the one request there is, and frees the slot for it.    *)
LEMMA SlotTaken ==
  ASSUME SlotInv, CommandTake
  PROVE  SlotInv'
<1>1. /\ owner_pc = "COMMAND" /\ queue # <<>> /\ queue' = <<>>
      /\ owner_pc' = "RELEASE" /\ reserved' = reserved /\ clients' = clients
  BY DEF CommandTake
<1>2. InQueue /\ reserved
  BY <1>1 DEF SlotInv, WithClient, WithOwner, Nowhere
<1>3. WithOwner'
  BY <1>1, <1>2 DEF InQueue, WithOwner, Submitting
<1>4. SlotTypes'
  BY <1>1 DEF SlotInv, SlotTypes
<1> QED  BY <1>1, <1>2, <1>3, <1>4 DEF SlotInv

LEMMA SlotReleased ==
  ASSUME SlotInv, CommandRelease
  PROVE  SlotInv'
<1>1. /\ owner_pc = "RELEASE" /\ owner_pc' = "POLL" /\ reserved' = FALSE
      /\ queue' = queue /\ clients' = clients
  BY DEF CommandRelease
<1>2. WithOwner
  BY <1>1 DEF SlotInv, WithClient, InQueue, Nowhere
<1>3. Nowhere'
  BY <1>1, <1>2 DEF WithOwner, Nowhere, Submitting
<1>4. SlotTypes'
  BY <1>1 DEF SlotInv, SlotTypes
<1> QED  BY <1>1, <1>3, <1>4 DEF SlotInv

LEMMA SlotReserved ==
  ASSUME SlotInv, NEW c \in Clients, Submit(c)
  PROVE  SlotInv'
<1>1. /\ ~ reserved /\ reserved' = TRUE
      /\ queue' = queue /\ owner_pc' = owner_pc
  BY DEF Submit
<1>2. PICK r \in Requests : clients' = [clients EXCEPT ![c] = r]
  BY DEF Submit
<1>3. Nowhere /\ SlotTypes
  BY <1>1 DEF SlotInv
<1>4. Submitting' = {c}
  BY <1>2, <1>3, IdleIsNoRequest DEF Nowhere, Submitting, SlotTypes
<1>5. WithClient(c)'
  BY <1>1, <1>3, <1>4 DEF Nowhere, WithClient
<1>6. SlotTypes'
  BY <1>1, <1>2, <1>3 DEF SlotTypes
<1> QED  BY <1>1, <1>5, <1>6 DEF SlotInv

(* A client that comes to queue its request finds the queue empty.         *)
LEMMA SlotQueued ==
  ASSUME SlotInv, NEW c \in Clients, Enqueue(c)
  PROVE  SlotInv'
<1>1. /\ clients[c] # Idle /\ clients' = [clients EXCEPT ![c] = Idle]
      /\ owner_pc' = owner_pc /\ SlotTypes
  BY DEF Enqueue, SlotInv
<1>2. c \in Submitting
  BY <1>1 DEF Submitting
<1>3. WithClient(c) /\ reserved
  BY <1>2 DEF SlotInv, WithClient, InQueue, WithOwner, Nowhere
<1>4. queue' = <<clients[c]>> /\ reserved' = reserved
  BY <1>3 DEF Enqueue, WithClient
<1>5. clients[c] \in Requests
  BY <1>1 DEF SlotTypes
<1>6. Submitting' = {}
  BY <1>1, <1>3 DEF WithClient, Submitting, SlotTypes
<1>7. InQueue'
  BY <1>1, <1>3, <1>4, <1>6 DEF WithClient, InQueue
<1>8. SlotTypes'
  BY <1>1, <1>4, <1>5 DEF SlotTypes
<1> QED  BY <1>3, <1>4, <1>7, <1>8 DEF SlotInv

LEMMA NextSlot ==
  ASSUME SlotInv, [Next]_vars
  PROVE  SlotInv'
<1>1. CASE CommandTake
  BY <1>1, SlotTaken
<1>2. CASE CommandRelease
  BY <1>2, SlotReleased
<1>3. CASE PollTick \/ PollLost
  BY <1>3, SlotUntouched DEF PollTick, PollLost, PollBegins, slotVars
<1>4. CASE ServePasses
  <2>1. ASSUME NEW s, Serve(s) PROVE SlotInv'
    BY <2>1, SlotUntouched DEF Serve, slotVars
  <2>2. ASSUME NEW s, StepSend(s) PROVE SlotInv'
    BY <2>1, <2>2 DEF StepSend
  <2> QED
    BY <1>4, <2>1, <2>2 DEF ServePasses, ServeFailure, ServeReboot, ServeSettled,
       FlowTimeout, BootSettles, StageTimesOut, QuietEnds, NextCommand, Waits
<1>5. CASE Publish
  BY <1>5, SlotUntouched DEF Publish
<1>6. CASE PollLine \/ Tick \/ ModuleNext
  <2>1. CASE PollLine \/ Tick
    <3>1. UNCHANGED <<owner_pc, reserved, queue, clients>>
      BY <2>1 DEF PollLine, Tick, slotVars
    <3> QED  BY <3>1, SlotUntouched
  <2>2. CASE ModuleNext
    <3>1. UNCHANGED <<owner_pc, reserved, queue, clients>>
      BY <2>2 DEF ModuleNext, ModuleObeys, ModuleRefuses, ModuleMisses, ModuleReboots,
                  ModuleUp, slotVars
    <3> QED  BY <3>1, SlotUntouched
  <2> QED  BY <1>6, <2>1, <2>2
<1>7. ASSUME NEW c \in Clients, Submit(c) \/ Enqueue(c) PROVE SlotInv'
  BY <1>7, SlotReserved, SlotQueued
<1>8. CASE UNCHANGED vars
  BY <1>8, SlotUntouched DEF vars, slotVars
<1> QED  BY <1>1, <1>2, <1>3, <1>4, <1>5, <1>6, <1>7, <1>8 DEF Next, OwnerMoves

LEMMA SlotCounts == SlotInv => SlotAccounted
<1> SUFFICES ASSUME SlotInv PROVE SlotAccounted
  OBVIOUS
<1>1. \A c \in Clients : Cardinality({c}) = 1
  BY FS_Singleton
<1>2. Cardinality({}) = 0
  BY FS_EmptySet
<1>3. SlotAccounted <=>
        Cardinality(Submitting) + Len(queue) + (IF owner_pc = "RELEASE" THEN 1 ELSE 0)
          = (IF reserved THEN 1 ELSE 0)
  BY DEF SlotAccounted, Submitting
<1>4. CASE reserved
  <2>1. ASSUME NEW c \in Clients, WithClient(c) PROVE SlotAccounted
    <3>1. Cardinality(Submitting) = 1 /\ Len(queue) = 0 /\ owner_pc # "RELEASE"
      BY <1>1, <2>1 DEF WithClient
    <3> QED  BY <1>3, <1>4, <3>1
  <2>2. CASE InQueue
    <3>1. Cardinality(Submitting) = 0 /\ Len(queue) = 1 /\ owner_pc # "RELEASE"
      BY <1>2, <2>2 DEF InQueue
    <3> QED  BY <1>3, <1>4, <3>1
  <2>3. CASE WithOwner
    <3>1. Cardinality(Submitting) = 0 /\ Len(queue) = 0 /\ owner_pc = "RELEASE"
      BY <1>2, <2>3 DEF WithOwner
    <3> QED  BY <1>3, <1>4, <3>1
  <2> QED  BY <1>4, <2>1, <2>2, <2>3 DEF SlotInv
<1>5. CASE ~ reserved
  <2>1. Cardinality(Submitting) = 0 /\ Len(queue) = 0 /\ owner_pc # "RELEASE"
    BY <1>2, <1>5 DEF SlotInv, Nowhere
  <2> QED  BY <1>3, <1>5, <2>1
<1> QED  BY <1>4, <1>5

(* For any number of submitting tasks the slot has one request exactly     *)
(* while it is reserved, so none finds the queue full                      *)
(* (remote_modem_app.c:372-400).                                           *)
THEOREM SlotSafe == Spec => []SlotAccounted
<1>1. SlotInv /\ [Next]_vars => SlotInv'
  BY NextSlot
<1> QED  BY InitSlot, <1>1, SlotCounts, PTL DEF Spec
=============================================================================
